------------------------------- MODULE Notify -------------------------------
(***************************************************************************)
(* sync/notify.rs: a word that holds EMPTY, WAITING or NOTIFIED beside the *)
(* number of notify_waiters calls, and a list of waiting nodes behind a    *)
(* lock.  The word is changed without the lock between EMPTY and NOTIFIED, *)
(* and with it in any other way, so the steps of two threads are separate  *)
(* actions wherever one of them acts on a word it loaded before.  A step   *)
(* of a thread that holds the lock while the word is WAITING is one        *)
(* action: nothing else can move the word or look at the list.             *)
(*                                                                         *)
(* Every future is used by one thread at a time (its methods take          *)
(* Pin<&mut Self>), and may move from task to task between its polls.      *)
(***************************************************************************)
EXTENDS Naturals, Sequences, Functions, Queues

CONSTANTS Futures,    \* the Notified futures
          Notifiers,  \* threads that call notify_one and notify_waiters
          Tasks,      \* tasks that may poll a future
          NoTask,     \* enable passes no waker
          MaxCalls    \* bound on the notify_waiters calls

ASSUME MaxCallsAssumption == MaxCalls \in Nat
ASSUME ActorsAssumption ==
    /\ Futures \cap Notifiers = {} /\ "nobody" \notin Futures \cup Notifiers
    /\ NoTask \notin Tasks

VARIABLES
    state,     \* the word: calls of notify_waiters and a tag
    lock,      \* who holds the lock on the list
    waiters,   \* the list; push_front is Append here, pop_back is Head
    fut,       \* State of each Notified, "None" before creation
    calls0,    \* the count in State::Init
    notified,  \* Waiter::notified
    waker,     \* Waiter::waker
    owner,     \* the task that polled the future last
    pc,        \* where a thread (the one of a future, or a notifier) stands
    curr,      \* the local copy of the word
    arg,       \* the waker passed to poll_notified
    wakes,     \* wakers taken from the list and not woken yet
    woken      \* the futures whose task was woken since its last poll

vars == <<state, lock, waiters, fut, calls0, notified, waker, owner, pc, curr,
          arg, wakes, woken>>
node == <<notified, waker>>
local == <<pc, curr, arg, wakes>>

Tags == {"EMPTY", "WAITING", "NOTIFIED"}
Actors == Futures \cup Notifiers
Nobody == "nobody"
Word == [calls : 0 .. MaxCalls, tag : Tags]
Zero == [calls |-> 0, tag |-> "EMPTY"]

set_state(w, t) == [w EXCEPT !.tag = t]

Init ==
    /\ state = Zero
    /\ lock = Nobody
    /\ waiters = <<>>
    /\ fut = [f \in Futures |-> "None"]
    /\ calls0 = [f \in Futures |-> 0]
    /\ notified = [f \in Futures |-> "None"]
    /\ waker = [f \in Futures |-> NoTask]
    /\ owner = [f \in Futures |-> NoTask]
    /\ pc = [a \in Actors |-> "idle"]
    /\ curr = [a \in Actors |-> Zero]
    /\ arg = [a \in Actors |-> NoTask]
    /\ wakes = [a \in Actors |-> {}]
    /\ woken = {}

Goto(a, l) == pc' = [pc EXCEPT ![a] = l]

\* The call returns: the locals are gone, and the wakers in w are woken next.
Return(a, w) ==
    /\ Goto(a, IF w = {} THEN "idle" ELSE "wake")
    /\ curr' = [curr EXCEPT ![a] = Zero]
    /\ arg' = [arg EXCEPT ![a] = NoTask]
    /\ wakes' = [wakes EXCEPT ![a] = w]

\* The word is loaded into the local copy.
Load(a) ==
    /\ curr' = [curr EXCEPT ![a] = state]
    /\ UNCHANGED <<arg, wakes>>

Lock(a) == lock = Nobody /\ lock' = a
Unlock(a) == lock = a /\ lock' = Nobody

\* The waker a node gives up, with the future it belongs to.
Taken(f) == IF waker[f] = NoTask THEN {} ELSE {<<f, waker[f]>>}

-----------------------------------------------------------------------------
(* notify_one and notify_waiters                                           *)

OneLoad(n) ==
    /\ pc[n] = "idle"
    /\ Load(n)
    /\ Goto(n, IF state.tag = "WAITING" THEN "one_lock" ELSE "one_cas")
    /\ UNCHANGED <<state, lock, waiters, fut, calls0, node, owner, woken>>

\* The exchange stores NOTIFIED and is done, or the loop looks again.
OneExchange(n) ==
    /\ pc[n] = "one_cas"
    /\ \/ /\ state = curr[n]
          /\ state' = set_state(curr[n], "NOTIFIED")
          /\ Return(n, {})
       \/ /\ state # curr[n]
          /\ Load(n)
          /\ Goto(n, IF state.tag = "WAITING" THEN "one_lock" ELSE "one_cas")
          /\ UNCHANGED state
    /\ UNCHANGED <<lock, waiters, fut, calls0, node, owner, woken>>

OneLock(n) ==
    /\ pc[n] = "one_lock"
    /\ Lock(n)
    /\ Load(n)
    /\ Goto(n, "notify_locked")
    /\ UNCHANGED <<state, waiters, fut, calls0, node, owner, woken>>

\* notify_locked is the end of notify_one and of Drop for Notified: what it
\* was called for is finished in the step that unlocks.
Finished(a) ==
    IF a \in Futures THEN fut' = [fut EXCEPT ![a] = "None"] ELSE UNCHANGED fut

Cleared(a, ntf, wkr) ==
    /\ notified' = IF a \in Futures THEN [ntf EXCEPT ![a] = "None"] ELSE ntf
    /\ waker' = IF a \in Futures THEN [wkr EXCEPT ![a] = NoTask] ELSE wkr
    /\ calls0' = IF a \in Futures THEN [calls0 EXCEPT ![a] = 0] ELSE calls0
    /\ owner' = IF a \in Futures THEN [owner EXCEPT ![a] = NoTask] ELSE owner
    /\ woken' = woken \ {a}

\* No waiter: the exchange to NOTIFIED, whose failure tells the word to store.
StoreExchange(a) ==
    /\ pc[a] = "notify_locked"
    /\ curr[a].tag # "WAITING"
    /\ \/ /\ state = curr[a]
          /\ state' = set_state(curr[a], "NOTIFIED")
          /\ Unlock(a)
          /\ Return(a, {})
          /\ Finished(a)
          /\ Cleared(a, notified, waker)
       \/ /\ state # curr[a]
          /\ Load(a)
          /\ Goto(a, "notify_store")
          /\ UNCHANGED <<state, lock, fut, calls0, node, owner, woken>>
    /\ UNCHANGED waiters

StoreAnyway(a) ==
    /\ pc[a] = "notify_store"
    /\ state' = set_state(curr[a], "NOTIFIED")
    /\ Unlock(a)
    /\ Return(a, {})
    /\ Finished(a)
    /\ Cleared(a, notified, waker)
    /\ UNCHANGED waiters

\* A waiter: the oldest node is popped and told, the last one empties the word.
PopOne(a) ==
    /\ pc[a] = "notify_locked"
    /\ curr[a].tag = "WAITING"
    /\ waiters # <<>>
    /\ LET w == Head(waiters) IN
       /\ waiters' = Tail(waiters)
       /\ state' = IF Tail(waiters) = <<>> THEN set_state(curr[a], "EMPTY")
                                           ELSE state
       /\ Cleared(a, [notified EXCEPT ![w] = "OneWaiter"],
                     [waker EXCEPT ![w] = NoTask])
       /\ Return(a, Taken(w))
    /\ Finished(a)
    /\ Unlock(a)

NotifyWaiters(n) ==
    /\ pc[n] = "idle"
    /\ lock = Nobody
    /\ state.calls < MaxCalls
    /\ \/ /\ state.tag # "WAITING"
          /\ state' = [state EXCEPT !.calls = @ + 1]
          /\ UNCHANGED <<waiters, node, local>>
       \/ /\ state.tag = "WAITING"
          /\ state' = [calls |-> state.calls + 1, tag |-> "EMPTY"]
          /\ waiters' = <<>>
          /\ notified' = [f \in Futures |-> IF f \in Range(waiters)
                                            THEN "AllWaiters" ELSE notified[f]]
          /\ waker' = [f \in Futures |-> IF f \in Range(waiters)
                                         THEN NoTask ELSE waker[f]]
          /\ Return(n, UNION {Taken(f) : f \in Range(waiters)})
    /\ UNCHANGED <<lock, fut, calls0, owner, woken>>

\* The wakers are woken after the lock is given back, one after the other.
Wake(a) ==
    /\ pc[a] = "wake"
    /\ \E w \in wakes[a] :
        /\ woken' = IF owner[w[1]] = w[2] THEN woken \cup {w[1]} ELSE woken
        /\ wakes' = [wakes EXCEPT ![a] = @ \ {w}]
        /\ Goto(a, IF wakes[a] = {w} THEN "idle" ELSE "wake")
    /\ UNCHANGED <<state, lock, waiters, fut, calls0, node, owner, curr, arg>>

-----------------------------------------------------------------------------
(* Notified: created, polled by a task or enabled, dropped                 *)

Create(f) ==
    /\ fut[f] = "None" /\ pc[f] = "idle"
    /\ fut' = [fut EXCEPT ![f] = "Init"]
    /\ calls0' = [calls0 EXCEPT ![f] = state.calls]
    /\ UNCHANGED <<state, lock, waiters, node, owner, local, woken>>

\* poll by task k, or enable when k is NoTask
PollLoad(f, k) ==
    /\ fut[f] = "Init" /\ pc[f] = "idle"
    /\ curr' = [curr EXCEPT ![f] = state]
    /\ arg' = [arg EXCEPT ![f] = k]
    /\ Goto(f, "poll_cas")
    /\ owner' = IF k = NoTask THEN owner ELSE [owner EXCEPT ![f] = k]
    /\ woken' = IF k = NoTask THEN woken ELSE woken \ {f}
    /\ UNCHANGED <<state, lock, waiters, fut, calls0, node, wakes>>

\* The optimistic exchange, for a permit that notify_one stored
PollExchange(f) ==
    /\ pc[f] = "poll_cas"
    /\ \/ /\ state = set_state(curr[f], "NOTIFIED")
          /\ state' = set_state(curr[f], "EMPTY")
          /\ fut' = [fut EXCEPT ![f] = "Done"]
          /\ Return(f, {})
       \/ /\ state # set_state(curr[f], "NOTIFIED")
          /\ Goto(f, "poll_lock")
          /\ UNCHANGED <<state, fut, curr, arg, wakes>>
    /\ UNCHANGED <<lock, waiters, calls0, node, owner, woken>>

\* Variant: the count is not compared again with the lock.
PollLock_IgnoresCalls(f) ==
    /\ pc[f] = "poll_lock"
    /\ Lock(f)
    /\ Load(f)
    /\ Goto(f, "register")
    /\ UNCHANGED <<state, waiters, fut, calls0, node, owner, woken>>

\* With the lock: a notify_waiters call since the creation completes it.
PollLock(f) ==
    /\ pc[f] = "poll_lock"
    /\ lock = Nobody
    /\ \/ /\ state.calls # calls0[f]
          /\ fut' = [fut EXCEPT ![f] = "Done"]
          /\ Return(f, {})
          /\ UNCHANGED lock
       \/ /\ state.calls = calls0[f]
          /\ lock' = f
          /\ Load(f)
          /\ Goto(f, "register")
          /\ UNCHANGED fut
    /\ UNCHANGED <<state, waiters, calls0, node, owner, woken>>

\* The loop that takes the word to WAITING, or a permit that just came
RegisterLoop(f) ==
    /\ pc[f] = "register"
    /\ curr[f].tag # "WAITING"
    /\ \/ /\ state = curr[f]
          /\ curr[f].tag = "EMPTY"
          /\ state' = set_state(curr[f], "WAITING")
          /\ curr' = [curr EXCEPT ![f] = state']
          /\ UNCHANGED <<lock, fut, pc, arg, wakes>>
       \/ /\ state = curr[f]
          /\ curr[f].tag = "NOTIFIED"
          /\ state' = set_state(curr[f], "EMPTY")
          /\ fut' = [fut EXCEPT ![f] = "Done"]
          /\ Unlock(f)
          /\ Return(f, {})
       \/ /\ state # curr[f]
          /\ Load(f)
          /\ UNCHANGED <<state, lock, fut, pc>>
    /\ UNCHANGED <<waiters, calls0, node, owner, woken>>

\* WAITING: the node goes into the list.
Register(f) ==
    /\ pc[f] = "register"
    /\ curr[f].tag = "WAITING"
    /\ waker' = [waker EXCEPT ![f] = IF arg[f] = NoTask THEN @ ELSE arg[f]]
    /\ waiters' = Append(waiters, f)
    /\ fut' = [fut EXCEPT ![f] = "Waiting"]
    /\ Unlock(f)
    /\ Return(f, {})
    /\ UNCHANGED <<state, calls0, notified, owner, woken>>

\* Variant: a waker that is there is never replaced.
PollWaiting_KeepsWaker(f, k) ==
    /\ fut[f] = "Waiting" /\ pc[f] = "idle"
    /\ lock = Nobody
    /\ \/ /\ notified[f] # "None"
          /\ fut' = [fut EXCEPT ![f] = "Done"]
          /\ notified' = [notified EXCEPT ![f] = "None"]
          /\ waker' = [waker EXCEPT ![f] = NoTask]
       \/ /\ notified[f] = "None"
          /\ waker' = [waker EXCEPT ![f] = IF @ = NoTask THEN k ELSE @]
          /\ UNCHANGED <<fut, notified>>
    /\ owner' = IF k = NoTask THEN owner ELSE [owner EXCEPT ![f] = k]
    /\ woken' = IF k = NoTask THEN woken ELSE woken \ {f}
    /\ UNCHANGED <<state, lock, waiters, calls0, local>>

\* A further poll of a registered future, under the lock: it was told, or it
\* leaves the waker of the task that asks now.
PollWaiting(f, k) ==
    /\ fut[f] = "Waiting" /\ pc[f] = "idle"
    /\ lock = Nobody
    /\ \/ /\ notified[f] # "None"
          /\ fut' = [fut EXCEPT ![f] = "Done"]
          /\ notified' = [notified EXCEPT ![f] = "None"]
          /\ waker' = [waker EXCEPT ![f] = NoTask]
       \/ /\ notified[f] = "None"
          /\ waker' = [waker EXCEPT ![f] = IF k = NoTask THEN @ ELSE k]
          /\ UNCHANGED <<fut, notified>>
    /\ owner' = IF k = NoTask THEN owner ELSE [owner EXCEPT ![f] = k]
    /\ woken' = IF k = NoTask THEN woken ELSE woken \ {f}
    /\ UNCHANGED <<state, lock, waiters, calls0, local>>

\* Drop of a future that has no node in the list
DropUnregistered(f) ==
    /\ fut[f] \in {"Init", "Done"} /\ pc[f] = "idle"
    /\ Finished(f)
    /\ Cleared(f, notified, waker)
    /\ UNCHANGED <<state, lock, waiters, local>>

\* Variant: the last node leaves without emptying the word.
DropWaiting_KeepsWord(f) ==
    /\ fut[f] = "Waiting" /\ pc[f] = "idle"
    /\ lock = Nobody
    /\ notified[f] # "OneWaiter"
    /\ waiters' = Without(waiters, f)
    /\ Finished(f)
    /\ Cleared(f, notified, waker)
    /\ UNCHANGED <<state, lock, local>>

\* Drop of a registered future: its node leaves the list, the last one
\* empties the word, and a notification meant for one is handed on.
DropWaiting(f) ==
    /\ fut[f] = "Waiting" /\ pc[f] = "idle"
    /\ lock = Nobody
    /\ LET left == Without(waiters, f)
           word == IF left = <<>> /\ state.tag = "WAITING"
                   THEN set_state(state, "EMPTY") ELSE state
       IN /\ waiters' = left
          /\ state' = word
          /\ \/ /\ notified[f] = "OneWaiter"
                /\ lock' = f
                /\ curr' = [curr EXCEPT ![f] = word]
                /\ Goto(f, "notify_locked")
                /\ UNCHANGED <<fut, calls0, node, owner, woken, arg, wakes>>
             \/ /\ notified[f] # "OneWaiter"
                /\ Finished(f)
                /\ Cleared(f, notified, waker)
                /\ UNCHANGED <<lock, local>>

-----------------------------------------------------------------------------

FutureStep(f) ==
    \/ PollExchange(f)
    \/ PollLock(f)
    \/ RegisterLoop(f)
    \/ Register(f)

ActorStep(a) ==
    \/ StoreExchange(a)
    \/ StoreAnyway(a)
    \/ PopOne(a)
    \/ Wake(a)

Poll(f, k) == PollLoad(f, k) \/ PollWaiting(f, k)

NotifierStep(n) == OneExchange(n) \/ OneLock(n)

Next ==
    \/ \E n \in Notifiers : OneLoad(n) \/ NotifierStep(n) \/ NotifyWaiters(n)
    \/ \E a \in Actors : ActorStep(a)
    \/ \E f \in Futures :
          \/ Create(f)
          \/ \E k \in Tasks \cup {NoTask} : Poll(f, k)
          \/ FutureStep(f)
          \/ DropUnregistered(f)
          \/ DropWaiting(f)

Spec == Init /\ [][Next]_vars

\* A task that was woken polls what it owns; a call that began goes on, and
\* gets the lock although others take it too (SF); nobody has to call or drop.
Fairness ==
    /\ \A f \in Futures :
        /\ SF_vars(f \in woken /\ Poll(f, owner[f]))
        /\ SF_vars(FutureStep(f))
    /\ \A a \in Actors : WF_vars(ActorStep(a))
    /\ \A n \in Notifiers : SF_vars(NotifierStep(n))

FairSpec == Spec /\ Fairness

-----------------------------------------------------------------------------

TypeOK ==
    /\ state \in Word
    /\ lock \in Actors \cup {Nobody}
    /\ waiters \in Seq(Futures)
    /\ fut \in [Futures -> {"None", "Init", "Waiting", "Done"}]
    /\ calls0 \in [Futures -> 0 .. MaxCalls]
    /\ notified \in [Futures -> {"None", "OneWaiter", "AllWaiters"}]
    /\ waker \in [Futures -> Tasks \cup {NoTask}]
    /\ owner \in [Futures -> Tasks \cup {NoTask}]
    /\ curr \in [Actors -> Word]
    /\ woken \in SUBSET Futures

\* No assertion of notify.rs fails, and no unwrap meets an empty list: a node
\* that is popped was not told before (lines 521, 588), a failed exchange saw
\* the one tag that others may write without the lock (572, 775, 795), and the
\* word says WAITING only while a waiter is there (583).
NoPanic ==
    /\ \A f \in Range(waiters) : notified[f] = "None" /\ fut[f] = "Waiting"
    /\ \A a \in Actors :
        /\ pc[a] = "notify_store" => curr[a].tag \in {"EMPTY", "NOTIFIED"}
        /\ pc[a] = "notify_locked" /\ curr[a].tag = "WAITING" => waiters # <<>>
        /\ pc[a] = "register" /\ curr[a].tag # "WAITING" =>
              state.tag \in {"EMPTY", "NOTIFIED"}
    /\ lock = Nobody => (state.tag = "WAITING" <=> waiters # <<>>)

\* The phases of the contract, read from the fields of a future and its node.
Phase(f) ==
    CASE fut[f] = "None" -> "None"
      [] fut[f] = "Init" -> "Fresh"
      [] fut[f] = "Done" -> "Done"
      [] fut[f] = "Waiting" /\ notified[f] = "None" -> "Queued"
      [] fut[f] = "Waiting" /\ notified[f] = "OneWaiter" -> "One"
      [] fut[f] = "Waiting" /\ notified[f] = "AllWaiters" -> "All"

Promise == INSTANCE NotifyContract WITH
    permit <- state.tag = "NOTIFIED",
    epoch  <- state.calls,
    queue  <- waiters,
    phase  <- [f \in Futures |-> Phase(f)],
    seen   <- calls0

\* Whatever the threads do between two looks at the word, no permit, no
\* registration and no notification is lost, duplicated or overtaken.
Contract == [][Promise!Next]_(Promise!vars)

\* A future that waits and was told is polled by its task and completes, or is
\* dropped: notify_one and notify_waiters wake the task that polled it last,
\* wherever the call finds it.
ToldCompletes ==
    \A f \in Futures :
        (fut[f] = "Waiting" /\ notified[f] # "None" /\ owner[f] # NoTask)
            ~> (fut[f] # "Waiting")

=============================================================================
