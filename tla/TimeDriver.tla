----------------------------- MODULE TimeDriver -----------------------------
(***************************************************************************)
(* Simulated time: the TimeDriver of one runtime (time/driver/mod.rs), the *)
(* Sleep futures that register with it (time/driver/sleep.rs), and the     *)
(* event loop that every program of bin/ drives them with:                 *)
(*                                                                         *)
(*   pop the earliest event; SimTime::set_now; take_timestep;              *)
(*   poll_until_deadlock; next_wakeup, queued as an event if there is one. *)
(*                                                                         *)
(* The loops of bin/time-interval.rs and bin/time-timeout.rs are the case  *)
(* in which that queue holds at most the last wake-up.  Between two polls  *)
(* of its futures a task does what it likes with the Sleeps that it holds. *)
(***************************************************************************)
EXTENDS Naturals, FiniteSets, FiniteSetsExt

CONSTANTS
    Tasks,
    Sleeps,     \* the values of SLEEP_ID that are handed out
    MaxTime,    \* bound of the model: SimTime::MAX
    Messages,   \* bound of the model: the times that other events may have
    None

ASSUME TimeDriverAssumption ==
    /\ MaxTime \in Nat /\ Messages \subseteq 0 .. MaxTime
    /\ None \notin Nat /\ None \notin Tasks

Times == 0 .. MaxTime

VARIABLES
    now,        \* SIMTIME_NOW
    heap,       \* TimeDriver::sleeps
    emitted,    \* TimeDriver::next_wakeup_emitted
    deadline,   \* Sleep::deadline
    status,     \* "free", "held", "waiting" if it was last polled Pending, "dropped"
    holder,     \* the task that owns the Sleep
    waiter,     \* the task that waits for it: the one that polled it last
    runnable,   \* tasks in the scheduler's queues
    running,    \* the task that is being polled
    pc,         \* where the event loop is
    events,     \* how many wake-up events it has queued for each time
    messages,   \* times of the other events, each of which wakes some tasks
    stale,      \* history: Sleeps whose last poll left another task's waker in heap
    warped      \* history: a task has put an entry, or the clock, where the loop was

driver == <<heap, emitted>>
sleeps == <<deadline, status, holder, waiter>>
sim    == <<pc, events, messages>>
history == <<stale, warped>>
vars   == <<now, driver, sleeps, runnable, running, sim, history>>

Entry(i) == {e \in heap : e.id = i}
Head     == Min({e.deadline : e \in heap})
Due      == {e \in heap : e.deadline = now}
Agenda   == {t \in Times : events[t] > 0} \cup messages

\* The tasks of the entries are woken: they wait for these Sleeps no more.
Wake(popped) ==
    LET woken == {i \in Sleeps : \E e \in popped : e.id = i /\ e.task = waiter[i]} IN
    /\ runnable' = runnable \cup {e.task : e \in popped}
    /\ status' = [i \in Sleeps |-> IF i \in woken THEN "held" ELSE status[i]]
    /\ waiter' = [i \in Sleeps |-> IF i \in woken THEN None ELSE waiter[i]]

-----------------------------------------------------------------------------
(* Variants with a mistake in them; nothing uses them. *)

\* take_timestep pops the head only.
TakeHeadOnly ==
    /\ pc = "step"
    /\ pc' = "poll"
    /\ \E popped \in IF heap # {} /\ Head = now THEN {{e} : e \in Due} ELSE {{}} :
          /\ heap' = heap \ popped
          /\ Wake(popped)
    /\ UNCHANGED <<now, emitted, deadline, holder, running, events, messages, history>>

\* next_wakeup keeps silent when it has promised a later time.
NextWakeupLater ==
    /\ pc = "next"
    /\ pc' = "pop"
    /\ IF heap = {} \/ (emitted # None /\ emitted >= Head)
       THEN UNCHANGED <<emitted, events>>
       ELSE emitted' = Head /\ events' = [events EXCEPT ![Head] = @ + 1]
    /\ UNCHANGED <<now, heap, sleeps, runnable, running, messages, history>>

-----------------------------------------------------------------------------
(* What a running task does with its Sleeps *)

\* sleep_until
NewSleep(i, d) ==
    /\ running # None
    /\ status[i] = "free"
    /\ status' = [status EXCEPT ![i] = "held"]
    /\ holder' = [holder EXCEPT ![i] = running]
    /\ deadline' = [deadline EXCEPT ![i] = d]
    /\ UNCHANGED <<now, driver, waiter, runnable, running, sim, history>>

\* Sleep::poll and TimeDriver::wake_sleeper.  A Sleep that has an entry keeps
\* it, with the waker of the poll that made it, whoever polls it now.
PollSleep(i) ==
    /\ running # None /\ holder[i] = running
    /\ IF deadline[i] > now
       THEN /\ status' = [status EXCEPT ![i] = "waiting"]
            /\ waiter' = [waiter EXCEPT ![i] = running]
            /\ heap' = IF Entry(i) # {} THEN heap
                       ELSE heap \cup {[id |-> i, deadline |-> deadline[i], task |-> running]}
       ELSE /\ status' = [status EXCEPT ![i] = "held"]
            /\ waiter' = [waiter EXCEPT ![i] = None]
            /\ UNCHANGED heap
    /\ stale' = IF deadline[i] > now /\ \E e \in Entry(i) : e.task # running
                THEN stale \cup {i} ELSE stale \ {i}
    /\ UNCHANGED <<now, emitted, deadline, holder, runnable, running, sim, warped>>

\* Sleep::reset and TimeDriver::reset_sleeper, at any time: a Burst interval
\* that catches up resets its Sleep, which has no entry then, to a time gone by.
ResetSleep(i, d) ==
    /\ running # None /\ holder[i] = running
    /\ deadline' = [deadline EXCEPT ![i] = d]
    /\ heap' = {IF e.id = i THEN [e EXCEPT !.deadline = d] ELSE e : e \in heap}
    /\ warped' = (warped \/ (d <= now /\ Entry(i) # {}))
    /\ UNCHANGED <<now, emitted, status, holder, waiter, runnable, running, sim, stale>>

\* A Sleep has no Drop: its entry stays in the driver.
DropSleep(i) ==
    /\ running # None /\ holder[i] = running
    /\ holder' = [holder EXCEPT ![i] = None]
    /\ status' = [status EXCEPT ![i] = "dropped"]
    /\ waiter' = [waiter EXCEPT ![i] = None]
    /\ deadline' = [deadline EXCEPT ![i] = 0]
    /\ stale' = stale \ {i}
    /\ UNCHANGED <<now, driver, runnable, running, sim, warped>>

\* Send the Sleep, or the Interval around it, to another task.
MoveSleep(i, t) ==
    /\ running # None /\ holder[i] = running /\ t # running
    /\ holder' = [holder EXCEPT ![i] = t]
    /\ runnable' = runnable \cup {t}
    /\ UNCHANGED <<now, driver, deadline, status, waiter, running, sim, history>>

\* SimTime::set_now in a task, as bin/time-interval.rs does.
SetNow(d) ==
    /\ running # None
    /\ d > now
    /\ now' = d
    /\ warped' = (warped \/ (\E e \in heap : e.deadline <= d) \/ \E t \in Agenda : t < d)
    /\ UNCHANGED <<driver, sleeps, runnable, running, sim, stale>>

TaskCall ==
    \/ \E i \in Sleeps, d \in Times : NewSleep(i, d) \/ ResetSleep(i, d)
    \/ \E i \in Sleeps : PollSleep(i) \/ DropSleep(i)
    \/ \E i \in Sleeps, t \in Tasks : MoveSleep(i, t)
    \/ \E d \in Times : SetNow(d)

-----------------------------------------------------------------------------
(* The event loop *)

\* set_now is given the time of the event, be it before now.
PopEvent ==
    /\ pc = "pop"
    /\ Agenda # {}
    /\ LET t == Min(Agenda) IN
          /\ now' = t
          /\ \/ /\ events[t] > 0
                /\ events' = [events EXCEPT ![t] = @ - 1]
                /\ UNCHANGED <<messages, runnable>>
             \/ /\ events[t] = 0
                /\ messages' = messages \ {t}
                /\ \E woken \in SUBSET Tasks : runnable' = runnable \cup woken
                /\ UNCHANGED events
    /\ pc' = "step"
    /\ UNCHANGED <<driver, sleeps, running, history>>

\* Runtime::take_timestep: pop while the head is due now, and wake.
TakeTimestep ==
    /\ pc = "step"
    /\ pc' = "poll"
    /\ LET popped == IF heap # {} /\ Head = now THEN Due ELSE {} IN
          /\ heap' = heap \ popped
          /\ Wake(popped)
    /\ UNCHANGED <<now, emitted, deadline, holder, running, events, messages, history>>

\* poll_until_deadlock
PollTask(t) ==
    /\ pc = "poll"
    /\ running = None
    /\ t \in runnable
    /\ running' = t
    /\ runnable' = runnable \ {t}
    /\ UNCHANGED <<now, driver, sleeps, sim, history>>

EndPoll ==
    /\ running # None
    /\ running' = None
    /\ UNCHANGED <<now, driver, sleeps, runnable, sim, history>>

Deadlocked ==
    /\ pc = "poll"
    /\ running = None /\ runnable = {}
    /\ pc' = "next"
    /\ UNCHANGED <<now, driver, sleeps, runnable, running, events, messages, history>>

NextWakeup ==
    /\ pc = "next"
    /\ pc' = "pop"
    /\ IF heap = {} \/ emitted = Head
       THEN UNCHANGED <<emitted, events>>
       ELSE emitted' = Head /\ events' = [events EXCEPT ![Head] = @ + 1]
    /\ UNCHANGED <<now, heap, sleeps, runnable, running, messages, history>>

-----------------------------------------------------------------------------
Init ==
    /\ now = 0 /\ heap = {} /\ emitted = None
    /\ deadline = [i \in Sleeps |-> 0]
    /\ status = [i \in Sleeps |-> "free"]
    /\ holder = [i \in Sleeps |-> None]
    /\ waiter = [i \in Sleeps |-> None]
    /\ runnable = Tasks /\ running = None
    /\ pc = "step"
    /\ events = [t \in Times |-> 0]
    /\ messages \in SUBSET Messages
    /\ stale = {} /\ warped = FALSE

LoopStep == PopEvent \/ TakeTimestep \/ (\E t \in Tasks : PollTask(t)) \/ Deadlocked \/ NextWakeup

Next == TaskCall \/ EndPoll \/ LoopStep

Spec == Init /\ [][Next]_vars

\* The loop goes on and every poll of a task returns.
FairSpec == Spec /\ WF_vars(LoopStep) /\ WF_vars(EndPoll)

-----------------------------------------------------------------------------
(* Properties *)

Quiet == pc \in {"next", "pop"}     \* the scheduler has run out of tasks

\* TypeOK: the driver's queues, its memory and the sleeps keep their kinds.
TypeOK ==
    /\ now \in Times
    /\ heap \subseteq [id : Sleeps, deadline : Times, task : Tasks]
    /\ emitted \in Times \cup {None}
    /\ deadline \in [Sleeps -> Times]
    /\ status \in [Sleeps -> {"free", "held", "waiting", "dropped"}]
    /\ holder \in [Sleeps -> Tasks \cup {None}]
    /\ waiter \in [Sleeps -> Tasks \cup {None}]
    /\ runnable \subseteq Tasks /\ running \in Tasks \cup {None}
    /\ pc \in {"pop", "step", "poll", "next"}
    /\ events \in [Times -> Nat] /\ messages \subseteq Times
    /\ \A e, f \in heap : e.id = f.id => e = f
    /\ stale \subseteq Sleeps /\ warped \in BOOLEAN

\* i has an entry at its deadline that wakes the task that polled it last.
Registered(i) == \E e \in heap : e.id = i /\ e.task = waiter[i] /\ e.deadline = deadline[i]

\* The Sleeps that somebody waits for with a waker that the driver took.
Waited == {i \in Sleeps \ stale : status[i] = "waiting"}

\* A Sleep whose last poll was Pending is registered, wherever it was reset to
\* and whoever holds it, unless that poll found the entry of another task
\* (wake_sleeper, time/driver/mod.rs:49).
WaiterRegistered == \A i \in Waited : Registered(i)

\* When the loop moves on, no Sleep that is waited for is overdue, unless a
\* task has reset a registered Sleep to now or earlier, or has set the clock
\* over an entry or an event (take_timestep's == now, mod.rs:113).
NoOverdueSleep == Quiet /\ ~warped => \A i \in Waited : deadline[i] > now

\* The loop never forgets a sleeper, although next_wakeup names a time once
\* only: it has an event no later than every deadline that is waited for, with
\* the same exception.
AgendaCoversSleeps ==
    pc = "pop" /\ ~warped => \A i \in Waited : \E t \in Agenda : t <= deadline[i]

\* A Sleep that somebody waits for is in the driver with that one's waker, at
\* its deadline, which the loop has an event for and has not passed; the
\* exceptions are named above.
SleepsCovered == WaiterRegistered /\ AgendaCoversSleeps /\ NoOverdueSleep

\* Every Sleep that a task waits for wakes it, or is dropped or polled again, if
\* the tasks come to rest ever again: a task that always has something to do
\* keeps the loop at one instant.  The exceptions are those of SleepsCovered.
EverySleepFires ==
    []<>Quiet => \A i \in Sleeps : (i \in Waited /\ ~warped) ~> (i \notin Waited \/ warped)

\* interval.rs:416-421, of a poll that returns Pending: "only the Waker from the
\* Context passed to the most recent call is scheduled to receive a wakeup".
\* wake_sleeper keeps the waker of the first such poll instead.
LastPollerRegistered == \A i \in Sleeps : status[i] = "waiting" => Registered(i)
=============================================================================
