------------------------------ MODULE Timeout ------------------------------
(***************************************************************************)
(* time/driver/timeout.rs: a future with a deadline, over what TimeDriver  *)
(* promises of a Sleep: it is ready from its deadline on, and a task that  *)
(* polled it before is woken then.                                         *)
(***************************************************************************)
EXTENDS Naturals

CONSTANTS Limits,      \* deadlines of timeout and timeout_at
          EndTime      \* bound of the model

VARIABLES
    clock,
    delay,      \* deadline of the Sleep
    value,      \* the future inside is ready
    armed,      \* the driver has the Sleep
    woken,      \* the task is about to poll
    outcome     \* "none" while it is pending, then "ok" or "elapsed"

vars == <<clock, delay, value, armed, woken, outcome>>

Init ==
    /\ clock = 0
    /\ delay \in Limits
    /\ value = FALSE
    /\ armed = FALSE /\ woken = TRUE /\ outcome = "none"

Advance ==
    /\ clock < EndTime
    /\ clock' = clock + 1
    /\ UNCHANGED <<delay, value, armed, woken, outcome>>

\* The future becomes ready, and wakes the task.
Complete ==
    /\ ~value
    /\ value' = TRUE /\ woken' = TRUE
    /\ UNCHANGED <<clock, delay, armed, outcome>>

\* A Sleep's wakeup.
Fire ==
    /\ armed /\ clock >= delay
    /\ armed' = FALSE /\ woken' = TRUE
    /\ UNCHANGED <<clock, delay, value, outcome>>

\* The value first, then the delay, which registers itself while it waits.
Poll ==
    /\ woken /\ outcome = "none"
    /\ outcome' = IF value THEN "ok" ELSE IF clock >= delay THEN "elapsed" ELSE "none"
    /\ armed' = (armed \/ outcome' = "none")
    /\ woken' = FALSE
    /\ UNCHANGED <<clock, delay, value>>

\* The future is dropped, or time stops.
Over == outcome # "none" \/ clock = EndTime

Next == Advance \/ Complete \/ Fire \/ Poll \/ (Over /\ UNCHANGED vars)

Spec == Init /\ [][Next]_vars

FairSpec == Spec /\ WF_vars(Fire) /\ WF_vars(Poll)

-----------------------------------------------------------------------------
(* Properties                                                              *)

TypeOK ==
    /\ clock \in 0 .. EndTime /\ delay \in Limits
    /\ value \in BOOLEAN /\ armed \in BOOLEAN /\ woken \in BOOLEAN
    /\ outcome \in {"none", "ok", "elapsed"}

\* Once its deadline has passed a timeout ends, though the future inside never
\* wakes its task.
TimeoutEnds == clock >= delay ~> outcome # "none"

\* A value that is there when the task is polled wins over the deadline.
ValueWins == [][value /\ outcome' # outcome => outcome' = "ok"]_vars
=============================================================================
