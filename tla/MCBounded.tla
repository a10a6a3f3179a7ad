----------------------------- MODULE MCBounded -----------------------------
(***************************************************************************)
(* Bounded by itself, with more senders than slots.                        *)
(***************************************************************************)
EXTENDS Bounded
=============================================================================
