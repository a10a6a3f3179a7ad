------------------------------ MODULE Interval ------------------------------
(***************************************************************************)
(* time/driver/interval.rs over what TimeDriver promises of a Sleep: it is *)
(* ready from its deadline on.  Times are whole milliseconds.  The task    *)
(* that ticks may come late, so that its Interval catches up, starts anew  *)
(* or skips, as its MissedTickBehavior says.                               *)
(***************************************************************************)
EXTENDS Integers

CONSTANTS Periods,     \* not zero: interval_at asserts it
          Starts,      \* how far ahead interval_at is set
          Slack,       \* 5 milliseconds in the code
          MaxTime      \* bound of the model

VARIABLES
    now,
    period, deadline, behavior,
    start,      \* history: its first deadline, or the one after a reset
    ticks,      \* history: ticks since start
    missed,     \* history: behaviors that handled a missed tick since start
    last        \* history: what the last tick returned

vars == <<now, period, deadline, behavior, start, ticks, missed, last>>

Behaviors == {"Burst", "Delay", "Skip"}

\* interval, interval_at
Init ==
    /\ now = 0
    /\ period \in Periods /\ deadline \in Starts
    /\ behavior = "Burst"
    /\ start = deadline /\ ticks = 0 /\ missed = {} /\ last = -1

\* The simulation sets the time.
Advance ==
    /\ now < MaxTime
    /\ now' = now + 1
    /\ UNCHANGED <<period, deadline, behavior, start, ticks, missed, last>>

\* Variant: the tick is put off by the remainder.
next_timeout_Later(timeout) ==
    CASE behavior = "Burst" -> timeout + period
      [] behavior = "Delay" -> now + period
      [] behavior = "Skip" -> now + period + ((now - timeout) % period)

next_timeout(timeout) ==
    CASE behavior = "Burst" -> timeout + period
      [] behavior = "Delay" -> now + period
      [] behavior = "Skip" -> now + period - ((now - timeout) % period)

Missed == now > deadline + Slack

\* poll_tick when the delay is ready; it returns what was scheduled.
PollTick ==
    /\ deadline <= now
    /\ last' = deadline
    /\ deadline' = IF Missed THEN next_timeout(deadline) ELSE deadline + period
    /\ ticks' = ticks + 1
    /\ missed' = IF Missed THEN missed \cup {behavior} ELSE missed
    /\ UNCHANGED <<now, period, behavior, start>>

Reset ==
    /\ deadline' = now + period
    /\ start' = deadline' /\ ticks' = 0 /\ missed' = {}
    /\ UNCHANGED <<now, period, behavior, last>>

SetBehavior ==
    /\ behavior' \in Behaviors
    /\ UNCHANGED <<now, period, deadline, start, ticks, missed, last>>

Next == Advance \/ PollTick \/ Reset \/ SetBehavior

Spec == Init /\ [][Next]_vars

-----------------------------------------------------------------------------
(* Properties                                                              *)

TypeOK ==
    /\ now \in 0 .. MaxTime /\ period \in Periods
    /\ deadline \in Nat /\ start \in Nat /\ ticks \in Nat
    /\ behavior \in Behaviors /\ missed \subseteq Behaviors
    /\ last \in Nat \cup {-1}

\* "Like Burst, all ticks remain multiples of period away from start" (Skip),
\* and with Burst alone none of them is left out or doubled, however late the
\* polls come and whenever the behavior is changed; ticks go forward always.
TicksOnGrid ==
    /\ missed \subseteq {"Burst"} => deadline = start + ticks * period
    /\ missed \subseteq {"Burst", "Skip"} => (deadline - start) % period = 0
    /\ last < deadline

\* After a missed tick Delay and Skip do not fire at once again: the next tick
\* is in the future, and at most one period away.
Rests ==
    PollTick /\ now > deadline + Slack /\ behavior # "Burst" =>
        deadline' > now /\ deadline' <= now + period

\* Of every poll_tick.
RestAfterMissed == [][Rests]_vars
=============================================================================
