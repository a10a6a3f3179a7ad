---------------------------- MODULE MCBroadcast ----------------------------
(***************************************************************************)
(* Broadcast, under names of its own, so that its proofs can stand beside  *)
(* those about Notify.                                                     *)
(***************************************************************************)
EXTENDS Integers, FiniteSets

CONSTANTS Senders, Consumers, Cap, MaxPos, MaxRem

\* A ring has a slot, somebody holds a handle, no slot owes more looks than a
\* usize counts (subscribe asserts a quarter of that, MAX_RECEIVERS), and no
\* sender is called Nobody.
ASSUME RingAssumption ==
    /\ Cap \in Nat \ {0}
    /\ MaxPos \in Nat /\ MaxRem \in Nat
    /\ Senders # {} /\ "nobody" \notin Senders
    /\ Consumers # {} /\ IsFiniteSet(Consumers) /\ Cardinality(Consumers) <= MaxRem

VARIABLES buffer, tail, holder, queued, tx, rx, next, until, place, mode,
          pending, called, met

C == INSTANCE Broadcast WITH
    Receivers <- Consumers, owner <- holder, waiters <- queued, pc <- place,
    woken <- called

RingSpec == C!Spec
FairRingSpec == C!FairSpec

\* Every receiver gets every value, and none is kept for nobody (broadcast.rs),
\* but for a value that a receiver in its drop takes along at the close.
SlotsSound == C!SlotsSound

\* What EveryValueSeen says of "each sent value is seen by all consumers" (line 1).
EveryValueSeen == C!EveryValueSeen

\* A receiver misses what is overwritten, and no more (broadcast.rs), with the
\* same exception.
LagIsHonest == C!LagIsHonest

\* A receiver that waits is woken by the next value and by the close.
Heard == C!Heard
=============================================================================
