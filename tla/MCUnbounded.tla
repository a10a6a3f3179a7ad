----------------------------- MODULE MCUnbounded -----------------------------
(***************************************************************************)
(* Unbounded for TLC: two senders, two messages, and a receiver that two   *)
(* tasks poll.                                                             *)
(***************************************************************************)
EXTENDS Unbounded
=============================================================================
