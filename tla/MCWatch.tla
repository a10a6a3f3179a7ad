------------------------------ MODULE MCWatch ------------------------------
(***************************************************************************)
(* Watch, and Barrier over its contract, under names of their own, so that *)
(* they can stand beside other modules.                                    *)
(***************************************************************************)
EXTENDS Naturals

CONSTANTS Receivers, Writers, MaxVersion, MaxEmpty, Waiters, BarrierN, MaxGen

ASSUME WatchAssumption == MaxVersion \in Nat /\ MaxEmpty \in Nat
ASSUME BarrierAssumption == BarrierN \in Nat \ {0} /\ MaxGen \in Nat

VARIABLES
    latest, version, closed, count, sender, writer, spot, ver, shown, closer,
    permit, epochR, queueR, phaseR, seenR, epochT, queueT, phaseT, seenT,
    arrived, generation, opened, at, gen, bver, leads, counted

W == INSTANCE Watch WITH value <- latest, pc <- spot
B == INSTANCE Barrier WITH N <- BarrierN, ver <- bver

wvars == <<latest, version, closed, count, sender, writer, spot, ver, shown,
           closer, permit, epochR, queueR, phaseR, seenR, epochT, queueT,
           phaseT, seenT>>
bvars == <<arrived, generation, opened, at, gen, bver, leads, counted>>

\* A receiver marks as seen the version of the value it shows (watch.rs).
MarkedWasShown == W!MarkedWasShown

\* changed and closed end once what they wait for is there (watch.rs).
WaitsEnd == W!WaitsEnd

\* A generation of barrier.rs opens with its N arrivals, once, with one leader.
OpensFull == B!OpensFull

\* Who waits for a generation that has opened is let through (barrier.rs).
Released == B!Released
=============================================================================
