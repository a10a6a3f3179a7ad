---------------------------- MODULE MCTimeDriver ----------------------------
(***************************************************************************)
(* TimeDriver with two tasks and two Sleeps, so that entries share an      *)
(* instant, are reset past one another and wake different tasks.           *)
(***************************************************************************)
EXTENDS TimeDriver
=============================================================================
