----------------------------- MODULE MCRuntime -----------------------------
(***************************************************************************)
(* The scheduler, and the small parts around it, in one run: `part` says   *)
(* which of them moves, and the variables of the others rest.              *)
(***************************************************************************)
EXTENDS Scheduler, Integers

CONSTANTS Runtimes, None, MaxDepth, MaxGuards,
          Unparkers, MaxWakes, Periods, Starts, Slack, MaxTime, Limits, EndTime,
          Accepting, Sources

\* No runtime and no unparker is called None, nor an unparker parker; a period
\* is not zero, which interval_at asserts; the reactor has finitely many sources.
ASSUME RuntimeAssumption ==
    /\ MaxDepth \in Nat /\ MaxGuards \in Nat /\ None \notin Runtimes
    /\ "parker" \notin Unparkers \cup {None} /\ None \notin Unparkers
    /\ Periods \subseteq Nat \ {0} /\ Starts \subseteq Nat /\ Slack \in Nat
    /\ IsFiniteSet(Sources) /\ None \notin Sources

VARIABLES
    part,
    alive, slot, core, tls, context, entered, stack, guards, unwound, shuffled,
    state, mutex, asleep, signaled, pc, timed, unparks, owed,
    now, period, deadline, behavior, start, ticks, missed, last,
    clock, delay, value, armed, alarmed, outcome,
    polled, ready, channel, spawned, accepts, readable, interest, avail, wakes

N == INSTANCE Nesting
P == INSTANCE Park WITH wakes <- unparks, due <- owed
I == INSTANCE Interval
T == INSTANCE Timeout WITH woken <- alarmed
E == INSTANCE Executor WITH
    Tasks <- Accepting, running <- polled, queue <- ready, stage <- spawned

loopVars == vars
nestingVars == <<alive, slot, core, tls, context, entered, stack, guards,
                 unwound, shuffled>>
parkVars == <<state, mutex, asleep, signaled, pc, timed, unparks, owed>>
intervalVars == <<now, period, deadline, behavior, start, ticks, missed, last>>
timeoutVars == <<clock, delay, value, armed, alarmed, outcome>>
executorVars == <<polled, ready, channel, spawned, accepts, readable, interest,
                  avail, wakes>>

LoopRests == Init
NestingRests == N!Init
ParkRests ==
    /\ state = "EMPTY" /\ mutex = None /\ asleep = FALSE /\ signaled = FALSE
    /\ pc = <<>> /\ timed = FALSE /\ unparks = <<>> /\ owed = FALSE
IntervalRests ==
    /\ now = 0 /\ period = 1 /\ deadline = 0 /\ behavior = "Burst"
    /\ start = 0 /\ ticks = 0 /\ missed = {} /\ last = -1
TimeoutRests ==
    /\ clock = 0 /\ delay = 0 /\ value = FALSE
    /\ armed = FALSE /\ alarmed = FALSE /\ outcome = "ok"
ExecutorRests ==
    /\ polled = "returned" /\ ready = <<>> /\ channel = <<>>
    /\ spawned = <<>> /\ accepts = [t \in Accepting |-> None]
    /\ readable = <<>> /\ interest = {} /\ avail = {} /\ wakes = 0

MCInit ==
    \/ /\ part = "scheduler" /\ Init
       /\ NestingRests /\ ParkRests /\ IntervalRests
       /\ TimeoutRests /\ ExecutorRests
    \/ /\ part = "nesting" /\ N!Init
       /\ LoopRests /\ ParkRests /\ IntervalRests
       /\ TimeoutRests /\ ExecutorRests
    \/ /\ part = "park" /\ P!Init
       /\ LoopRests /\ NestingRests /\ IntervalRests
       /\ TimeoutRests /\ ExecutorRests
    \/ /\ part = "interval" /\ I!Init
       /\ LoopRests /\ NestingRests /\ ParkRests
       /\ TimeoutRests /\ ExecutorRests
    \/ /\ part = "timeout" /\ T!Init
       /\ LoopRests /\ NestingRests /\ ParkRests
       /\ IntervalRests /\ ExecutorRests
    \/ /\ part = "executor" /\ E!Init
       /\ LoopRests /\ NestingRests /\ ParkRests
       /\ IntervalRests /\ TimeoutRests

MCNext ==
    \/ /\ part = "scheduler" /\ Next
       /\ UNCHANGED <<part, nestingVars, parkVars, intervalVars,
                      timeoutVars, executorVars>>
    \/ /\ part = "nesting" /\ N!Next
       /\ UNCHANGED <<part, loopVars, parkVars, intervalVars,
                      timeoutVars, executorVars>>
    \/ /\ part = "park" /\ P!Next
       /\ UNCHANGED <<part, loopVars, nestingVars, intervalVars,
                      timeoutVars, executorVars>>
    \/ /\ part = "interval" /\ I!Next
       /\ UNCHANGED <<part, loopVars, nestingVars, parkVars,
                      timeoutVars, executorVars>>
    \/ /\ part = "timeout" /\ T!Next
       /\ UNCHANGED <<part, loopVars, nestingVars, parkVars,
                      intervalVars, executorVars>>
    \/ /\ part = "executor" /\ E!Next
       /\ UNCHANGED <<part, loopVars, nestingVars, parkVars,
                      intervalVars, timeoutVars>>

allVars == <<part, loopVars, nestingVars, parkVars, intervalVars, timeoutVars,
             executorVars>>

MCSpec ==
    /\ MCInit /\ [][MCNext]_allVars
    /\ WF_loopVars(part = "scheduler" /\ LoopStep)
    /\ SF_loopVars(part = "scheduler" /\ Call("poll_until_deadlock"))
    /\ WF_parkVars(part = "park" /\ P!ParkerStep /\ ~P!At("parker", "asleep"))
    /\ WF_parkVars(part = "park" /\ P!LockParker)
    /\ WF_parkVars(part = "park" /\ signaled /\ P!Awaken)
    /\ \A u \in Unparkers :
          /\ WF_parkVars(part = "park" /\ P!LockUnlock(u))
          /\ WF_parkVars(part = "park" /\ P!Signal(u))
    /\ WF_timeoutVars(part = "timeout" /\ T!Fire)
    /\ WF_timeoutVars(part = "timeout" /\ T!Poll)
    /\ WF_executorVars(part = "executor" /\ E!ExecutorStep)
    /\ \A s \in Sources : SF_executorVars(part = "executor" /\ E!Reports(s))

\* A thread has its runtimes' drivers, Cores and Handles right (mod.rs, enter.rs,
\* context.rs, handle.rs).
ThreadSound == N!ThreadSound

\* Nothing is forgotten by a part that rests: an unpark stays until the future
\* is polled, and takes no running thread for a parked one (park/thread.rs); an
\* Interval keeps its grid (interval.rs); the executor keeps the registration of
\* every Accept that is pending (executor.rs).
NothingForgotten ==
    /\ part = "park" => P!ParkedExact /\ P!UnparkKept
    /\ part = "interval" => I!TicksOnGrid
    /\ part = "executor" => E!AcceptRegistered

\* An Interval rests after a missed tick (interval.rs), and a value wins over a
\* deadline (timeout.rs).
TimersTrue == I!RestAfterMissed /\ T!ValueWins

\* An unpark is not lost, whenever it comes (park/thread.rs); a timeout ends
\* (timeout.rs); a connection that a pending Accept waits for is accepted
\* (executor.rs).
AllServed == P!UnparkNotLost /\ T!TimeoutEnds /\ E!AcceptServed
=============================================================================
