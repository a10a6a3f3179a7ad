----------------------------- MODULE MCScheduler -----------------------------
(***************************************************************************)
(* The scheduler alone, with the batch and the interval of the code and as *)
(* few tasks as fill a batch: two, which wake each other.                  *)
(***************************************************************************)
EXTENDS Scheduler
=============================================================================
