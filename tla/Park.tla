-------------------------------- MODULE Park --------------------------------
(***************************************************************************)
(* park/thread.rs: a thread that parks, also with a timeout, and those who *)
(* unpark it, one atomic operation at a time; with the loop of             *)
(* CachedParkThread::block_on, which polls a future between two parks.     *)
(* condvar.wait gives up the mutex and sleeps in one step.                 *)
(***************************************************************************)
EXTENDS Naturals, FiniteSets

CONSTANTS Unparkers,
          MaxWakes,    \* bound of the model: wakes of each unparker
          None

VARIABLES
    state,      \* Inner::state
    mutex,      \* who has it
    asleep,     \* the parker waits on the condvar
    signaled,   \* and is about to be woken
    pc,         \* of the parker and of the unparkers
    timed,      \* this park has a timeout
    wakes,      \* wakes each unparker has left
    due         \* history: unpark was called since the future was last polled

Parker == "parker"
vars == <<state, mutex, asleep, signaled, pc, timed, wakes, due>>

States == {"EMPTY", "PARKED", "NOTIFIED"}

Init ==
    /\ state = "EMPTY" /\ mutex = None
    /\ asleep = FALSE /\ signaled = FALSE
    /\ pc = [p \in Unparkers \cup {Parker} |-> IF p = Parker THEN "poll" ELSE "idle"]
    /\ timed = FALSE
    /\ wakes = [u \in Unparkers |-> MaxWakes]
    /\ due = FALSE

At(p, l) == pc[p] = l
Goto(p, l) == pc' = [pc EXCEPT ![p] = l]

Acquire(p) == mutex = None /\ mutex' = p
Release(p) == mutex = p /\ mutex' = None

Condvar == <<asleep, signaled>>

-----------------------------------------------------------------------------
(* The parker                                                              *)

\* The future is polled; it is not ready, and park or park_timeout follows.
PollFuture ==
    /\ At(Parker, "poll")
    /\ due' = FALSE
    /\ timed' \in BOOLEAN
    /\ Goto(Parker, "enter")
    /\ UNCHANGED <<state, mutex, Condvar, wakes>>

\* The first compare_exchange: a notification is consumed at once.
ConsumeEarly ==
    /\ At(Parker, "enter")
    /\ IF state = "NOTIFIED"
       THEN state' = "EMPTY" /\ Goto(Parker, "poll")
       ELSE UNCHANGED state /\ Goto(Parker, "lock")
    /\ UNCHANGED <<mutex, Condvar, timed, wakes, due>>

\* park_timeout(0) returns here.
NoWait ==
    /\ At(Parker, "lock") /\ timed
    /\ Goto(Parker, "poll")
    /\ UNCHANGED <<state, mutex, Condvar, timed, wakes, due>>

LockParker ==
    /\ At(Parker, "lock")
    /\ Acquire(Parker)
    /\ Goto(Parker, "parking")
    /\ UNCHANGED <<state, Condvar, timed, wakes, due>>

\* EMPTY becomes PARKED; or the unpark that came in between is consumed.
SetParked ==
    /\ At(Parker, "parking")
    /\ \/ state = "EMPTY" /\ state' = "PARKED" /\ Goto(Parker, "wait") /\ UNCHANGED mutex
       \/ state = "NOTIFIED" /\ state' = "EMPTY" /\ Goto(Parker, "poll") /\ Release(Parker)
    /\ UNCHANGED <<Condvar, timed, wakes, due>>

\* condvar.wait and wait_timeout
Sleep ==
    /\ At(Parker, "wait")
    /\ Release(Parker)
    /\ asleep' = TRUE
    /\ Goto(Parker, "asleep")
    /\ UNCHANGED <<state, signaled, timed, wakes, due>>

\* It returns when it is signaled, spuriously, or after the timeout, with the
\* mutex.
Awaken ==
    /\ At(Parker, "asleep")
    /\ Acquire(Parker)
    /\ asleep' = FALSE /\ signaled' = FALSE
    /\ Goto(Parker, "check")
    /\ UNCHANGED <<state, timed, wakes, due>>

\* Only a notification ends park; park_timeout swaps EMPTY in, whatever woke it.
Check ==
    /\ At(Parker, "check")
    /\ IF timed \/ state = "NOTIFIED"
       THEN state' = "EMPTY" /\ Release(Parker) /\ Goto(Parker, "poll")
       ELSE Goto(Parker, "wait") /\ UNCHANGED <<state, mutex>>
    /\ UNCHANGED <<Condvar, timed, wakes, due>>

-----------------------------------------------------------------------------
(* unpark                                                                  *)

\* The swap; who finds somebody parked must see that one asleep.
Notify(u) ==
    /\ At(u, "idle") /\ wakes[u] > 0
    /\ wakes' = [wakes EXCEPT ![u] = @ - 1]
    /\ state' = "NOTIFIED"
    /\ due' = TRUE
    /\ Goto(u, IF state = "PARKED" THEN "lock" ELSE "idle")
    /\ UNCHANGED <<mutex, Condvar, timed>>

\* Variant: the mutex is not taken.
LockUnlock_None(u) ==
    /\ At(u, "lock")
    /\ Goto(u, "signal")
    /\ UNCHANGED <<state, mutex, Condvar, timed, wakes, due>>

\* drop(mutex.lock()): the parker is past its check and not yet asleep as long
\* as it has the mutex.
LockUnlock(u) ==
    /\ At(u, "lock") /\ mutex = None
    /\ Goto(u, "signal")
    /\ UNCHANGED <<state, mutex, Condvar, timed, wakes, due>>

\* notify_one
Signal(u) ==
    /\ At(u, "signal")
    /\ signaled' = asleep
    /\ Goto(u, "idle")
    /\ UNCHANGED <<state, mutex, asleep, timed, wakes, due>>

ParkerStep ==
    \/ PollFuture \/ ConsumeEarly \/ NoWait \/ LockParker \/ SetParked
    \/ Sleep \/ Awaken \/ Check

UnparkerStep(u) == LockUnlock(u) \/ Signal(u)

Next ==
    \/ ParkerStep
    \/ \E u \in Unparkers : Notify(u) \/ UnparkerStep(u)

Spec == Init /\ [][Next]_vars

\* Threads run, and take a mutex that stays free; the condvar wakes for a
\* signal, and not of itself.
Fairness ==
    /\ WF_vars(ParkerStep /\ ~At(Parker, "asleep"))
    /\ WF_vars(LockParker) /\ WF_vars(signaled /\ Awaken)
    /\ \A u \in Unparkers : WF_vars(LockUnlock(u)) /\ WF_vars(Signal(u))

FairSpec == Spec /\ Fairness

-----------------------------------------------------------------------------
(* Properties                                                              *)

TypeOK ==
    /\ state \in States
    /\ mutex \in Unparkers \cup {Parker, None}
    /\ asleep \in BOOLEAN /\ signaled \in BOOLEAN /\ timed \in BOOLEAN
    /\ wakes \in [Unparkers -> 0 .. MaxWakes] /\ due \in BOOLEAN

\* The state is PARKED only while the parker is on its way to sleep, asleep or
\* just awake, and EMPTY at none of these places, so that none of the
\* "inconsistent state" panics is reached and no unpark takes a running thread
\* for a parked one.
ParkedExact ==
    /\ state = "PARKED" => pc[Parker] \in {"wait", "asleep", "check"}
    /\ state = "EMPTY" => pc[Parker] \notin {"wait", "asleep", "check"}

\* "If we were to notify during this period it would be ignored" (unpark): an
\* unpark stays in the state until the future is polled, and a parker that
\* sleeps on one is signaled, or somebody is past the swap and will signal it.
UnparkKept ==
    due /\ ~At(Parker, "poll") =>
        /\ state = "NOTIFIED"
        /\ asleep => signaled \/ \E u \in Unparkers : pc[u] \in {"lock", "signal"}

\* An unpark that came before, during or after the way to sleep is not lost:
\* the future is polled again, without a spurious wakeup or a timeout.
UnparkNotLost == due ~> ~due
=============================================================================
