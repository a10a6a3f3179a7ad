---------------------------- MODULE TaskContract ----------------------------
(***************************************************************************)
(* What a task promises to the scheduler and to those who hold its wakers, *)
(* as one value.  Task implements it with the bits of its state word;      *)
(* Scheduler relies on it, one contract for each of its tasks.             *)
(***************************************************************************)

VARIABLE status

\* "queued": its Notified waits to be run.  "again": woken while it runs.
Statuses == {"unborn", "idle", "queued", "running", "again", "done"}

\* A task is spawned with its Notified.
Init == status \in {"unborn", "queued"}

Spawn ==
  /\ status = "unborn"
  /\ status' = "queued"

\* Only the first of several wake-ups has an effect.
Wake ==
  \/ status = "idle" /\ status' = "queued"
  \/ status = "running" /\ status' = "again"

Run ==
  /\ status = "queued"
  /\ status' = "running"

\* The poll is over: the wake-up of a running task is honoured now.
Rest ==
  \/ status = "running" /\ status' = "idle"
  \/ status = "again" /\ status' = "queued"

Complete ==
  /\ status \in {"running", "again"}
  /\ status' = "done"

\* Shutdown of the runtime takes a task that nobody runs, to cancel it.
Claim ==
  \/ status = "idle" /\ status' \in {"running", "done"}
  \/ status = "queued" /\ status' \in {"again", "done"}

Next == Spawn \/ Wake \/ Run \/ Rest \/ Complete \/ Claim

Spec == Init /\ [][Next]_status
=============================================================================
