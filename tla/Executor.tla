------------------------------ MODULE Executor ------------------------------
(***************************************************************************)
(* The older, thread-local executor (runtime/executor.rs, task_queue.rs,   *)
(* waker_util.rs) with its reactor over a Poller, driven by tasks that     *)
(* accept on listeners (net/listener.rs), one Accept per listener at a     *)
(* time: Reactor::add panics for a second.  A Poller reports a source it   *)
(* was asked for once, until it is asked again.  A poll accepts one        *)
(* connection at most.                                                     *)
(***************************************************************************)
EXTENDS Naturals, Sequences, SequencesExt

CONSTANTS Tasks, Sources, None,
          MaxWakes     \* bound of the model: times a task wakes another

VARIABLES
    running,    \* "run", "returned" or "panicked"
    queue,      \* TaskQueue::tasks
    channel,    \* what wakers have sent: TaskQueue::receiver
    stage,      \* of each task: unborn, live or done
    accepts,    \* the listener a task's Accept is for
    readable,   \* Reactor::readable: wakers of each source, by their task
    interest,   \* sources the Poller reports
    avail,      \* sources with a connection
    wakes       \* wakes so far

reactor == <<readable, interest>>
vars == <<running, queue, channel, stage, accepts, reactor, avail, wakes>>

Init ==
    /\ running = "returned"
    /\ queue = <<>> /\ channel = <<>>
    /\ stage = [t \in Tasks |-> "unborn"]
    /\ accepts = [t \in Tasks |-> None]
    /\ readable = [s \in Sources |-> <<>>]
    /\ interest = {} /\ avail = {}
    /\ wakes = 0

\* A connection arrives.
Arrive(s) ==
    /\ s \notin avail
    /\ avail' = avail \cup {s}
    /\ UNCHANGED <<running, queue, channel, stage, accepts, reactor, wakes>>

\* block_on spawns its future and runs, also after another that returned.
BlockOn(t) ==
    /\ running = "returned" /\ stage[t] = "unborn"
    /\ running' = "run"
    /\ stage' = [stage EXCEPT ![t] = "live"]
    /\ queue' = Append(queue, t)
    /\ UNCHANGED <<channel, accepts, reactor, avail, wakes>>

-----------------------------------------------------------------------------
(* A poll of the task at the head of the queue                             *)

Popped(t) ==
    /\ running = "run" /\ queue # <<>>
    /\ t = Head(queue)
    /\ queue' = Tail(queue)

\* One Accept per listener.
Free(t, s) == accepts[t] \in {s, None} /\ \A u \in Tasks \ {t} : accepts[u] # s

\* Variant: it is not asked for again.
Register_Once(t, s, wakers, asked) ==
    /\ accepts' = [accepts EXCEPT ![t] = s]
    /\ readable' = [wakers EXCEPT ![s] = Append(@, t)]
    /\ interest' = IF accepts[t] = s THEN asked ELSE asked \cup {s}

\* Accept::poll is pending: wake_on_readable, and the Poller is asked.
Register(t, s, wakers, asked) ==
    /\ accepts' = [accepts EXCEPT ![t] = s]
    /\ readable' = [wakers EXCEPT ![s] = Append(@, t)]
    /\ interest' = asked \cup {s}

\* An Accept is dropped: Reactor::remove forgets its listener.
Forgotten(s) == [readable EXCEPT ![s] = <<>>]

\* The Accept is not ready, or a new one is not: the task waits for s.
PollPending(t) ==
    /\ Popped(t) /\ stage[t] = "live"
    /\ \E s \in Sources \ avail : Free(t, s) /\ Register(t, s, readable, interest)
    /\ UNCHANGED <<running, channel, stage, avail, wakes>>

\* It is ready, and dropped, and the next one is pending.
PollReady(t) ==
    /\ Popped(t) /\ stage[t] = "live"
    /\ \E s \in avail :
          /\ Free(t, s)
          /\ avail' = avail \ {s}
          /\ \E r \in Sources \ avail' :
                /\ \A u \in Tasks \ {t} : accepts[u] # r
                /\ Register(t, r, Forgotten(s), interest \ {s})
    /\ UNCHANGED <<running, channel, stage, wakes>>

\* Its last poll, which accepts one more connection, or drops the Accept that
\* is pending, if there is one.
PollDone(t) ==
    /\ Popped(t) /\ stage[t] = "live"
    /\ stage' = [stage EXCEPT ![t] = "done"]
    /\ accepts' = [accepts EXCEPT ![t] = None]
    /\ IF accepts[t] = None THEN UNCHANGED reactor
       ELSE /\ readable' = Forgotten(accepts[t])
            /\ interest' = interest \ {accepts[t]}
    /\ avail' \in {avail, avail \ {accepts[t]}}
    /\ UNCHANGED <<running, channel, wakes>>

\* A task is woken, by another or by itself; a waker lives as long as it likes,
\* also past its task.
Wake(u) ==
    /\ running = "run" /\ stage[u] # "unborn" /\ wakes < MaxWakes
    /\ wakes' = wakes + 1
    /\ channel' = Append(channel, u)
    /\ UNCHANGED <<running, queue, stage, accepts, reactor, avail>>

Spawn(t) ==
    /\ running = "run" /\ queue # <<>> /\ stage[t] = "unborn"
    /\ stage' = [stage EXCEPT ![t] = "live"]
    /\ queue' = Append(queue, t)
    /\ UNCHANGED <<running, channel, accepts, reactor, avail, wakes>>

\* A task that was sent twice is polled after it was ready, and panics.
PollAgain(t) ==
    /\ Popped(t) /\ stage[t] = "done"
    /\ running' = "panicked"
    /\ UNCHANGED <<channel, stage, accepts, reactor, avail, wakes>>

-----------------------------------------------------------------------------
(* The end of the queue                                                    *)

Waiting == \E s \in Sources : readable[s] # <<>>

\* run returns when nothing waits for a source, whatever the channel holds.
Finish ==
    /\ running = "run" /\ queue = <<>> /\ ~Waiting
    /\ running' = "returned"
    /\ UNCHANGED <<queue, channel, stage, accepts, reactor, avail, wakes>>

\* The Poller reports some sources; their wakers are taken and called, and
\* receive moves what was sent, now and before, to the queue.
WaitForIo ==
    /\ running = "run" /\ queue = <<>> /\ Waiting
    /\ \E events \in SUBSET (interest \cap avail) \ {{}} :
          /\ interest' = interest \ events
          /\ readable' = [s \in Sources |-> IF s \in events THEN <<>> ELSE readable[s]]
          /\ queue' = channel \o FlattenSeq([i \in 1 .. Len(SetToSeq(events)) |->
                                                readable[SetToSeq(events)[i]]])
    /\ channel' = <<>>
    /\ UNCHANGED <<running, stage, accepts, avail, wakes>>

Poll(t) == PollPending(t) \/ PollReady(t) \/ PollDone(t) \/ PollAgain(t)

Next ==
    \/ \E s \in Sources : Arrive(s)
    \/ \E t \in Tasks : BlockOn(t) \/ Poll(t) \/ Wake(t) \/ Spawn(t)
    \/ Finish
    \/ WaitForIo

Spec == Init /\ [][Next]_vars

\* The thread runs, and the Poller reports what is there one day.
ExecutorStep == (\E t \in Tasks : Poll(t)) \/ Finish
Reports(s) == WaitForIo /\ s \in interest /\ s \notin interest'

Fairness == WF_vars(ExecutorStep) /\ \A s \in Sources : SF_vars(Reports(s))

FairSpec == Spec /\ Fairness

-----------------------------------------------------------------------------
(* Properties                                                              *)

TypeOK ==
    /\ running \in {"run", "returned", "panicked"}
    /\ queue \in Seq(Tasks) /\ channel \in Seq(Tasks)
    /\ stage \in [Tasks -> {"unborn", "live", "done"}]
    /\ accepts \in [Tasks -> Sources \cup {None}]
    /\ readable \in [Sources -> Seq(Tasks)]
    /\ interest \subseteq Sources /\ avail \subseteq Sources

\* A task whose Accept is pending is registered, with a source the Poller
\* reports, or about to be polled; and run does not return without it.
AcceptRegistered ==
    \A t \in Tasks : accepts[t] # None =>
        /\ \/ Contains(queue, t) \/ Contains(channel, t)
           \/ Contains(readable[accepts[t]], t) /\ accepts[t] \in interest
        /\ running # "returned"

\* A connection that a pending Accept waits for is accepted.
AcceptServed ==
    \A t \in Tasks :
        accepts[t] \in avail ~> accepts[t] \notin avail \/ running = "panicked"
=============================================================================
