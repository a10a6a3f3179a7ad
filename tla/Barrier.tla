------------------------------ MODULE Barrier ------------------------------
(***************************************************************************)
(* sync/barrier.rs: a count of arrivals and a generation behind a lock,    *)
(* and a watch channel that carries the last generation that opened.  The  *)
(* channel is used by its contract (module Watch): changed returns when    *)
(* the version differs from the one the receiver has marked, and a send    *)
(* reaches every receiver.  Every generation is one version.               *)
(***************************************************************************)
EXTENDS Naturals, FiniteSets

CONSTANTS Waiters,  \* tasks that call wait
          N,        \* Barrier::n, at least 1
          MaxGen    \* bound on the generations

VARIABLES
    arrived,     \* BarrierState::arrived
    generation,  \* BarrierState::generation
    opened,      \* the value of the watch channel, and its version
    at,          \* where each waiter stands
    gen,         \* the generation a waiter joined
    ver,         \* the version its clone of the receiver has marked
    leads,       \* the result: BarrierWaitResult
    counted      \* per generation, the waits that were counted in

vars == <<arrived, generation, opened, at, gen, ver, leads, counted>>

Init ==
    /\ arrived = 0
    /\ generation = 1
    /\ opened = 0
    /\ at = [t \in Waiters |-> "out"]
    /\ gen = [t \in Waiters |-> 0]
    /\ ver = [t \in Waiters |-> 0]
    /\ leads = [t \in Waiters |-> FALSE]
    /\ counted = [g \in 1 .. MaxGen |-> 0]

\* Variant: the count goes on into the next generation.
Arrive_NoReset(t) ==
    /\ at[t] = "out" /\ generation <= MaxGen
    /\ counted' = [counted EXCEPT ![generation] = @ + 1]
    /\ gen' = [gen EXCEPT ![t] = generation]
    /\ arrived' = arrived + 1
    /\ \/ /\ arrived + 1 = N
          /\ opened' = generation
          /\ generation' = generation + 1
          /\ at' = [at EXCEPT ![t] = "done"]
          /\ leads' = [leads EXCEPT ![t] = TRUE]
       \/ /\ arrived + 1 # N
          /\ at' = [at EXCEPT ![t] = "cloned"]
          /\ UNCHANGED <<generation, opened, leads>>
    /\ UNCHANGED ver

\* wait, up to the end of the lock: the last one to arrive sends the
\* generation, starts the next one and leads.
Arrive(t) ==
    /\ at[t] = "out" /\ generation <= MaxGen
    /\ counted' = [counted EXCEPT ![generation] = @ + 1]
    /\ gen' = [gen EXCEPT ![t] = generation]
    /\ \/ /\ arrived + 1 = N
          /\ opened' = generation
          /\ arrived' = 0
          /\ generation' = generation + 1
          /\ at' = [at EXCEPT ![t] = "done"]
          /\ leads' = [leads EXCEPT ![t] = TRUE]
       \/ /\ arrived + 1 # N
          /\ arrived' = arrived + 1
          /\ at' = [at EXCEPT ![t] = "cloned"]
          /\ UNCHANGED <<generation, opened, leads>>
    /\ UNCHANGED ver

\* self.wait has never marked anything, and a clone has its version.
CloneWait(t) ==
    /\ at[t] = "cloned"
    /\ ver' = [ver EXCEPT ![t] = 0]
    /\ at' = [at EXCEPT ![t] = "changed"]
    /\ UNCHANGED <<arrived, generation, opened, gen, leads, counted>>

\* changed returns at once while there is a version that is not marked.
WaitChanged(t) ==
    /\ at[t] = "changed"
    /\ ver[t] # opened
    /\ ver' = [ver EXCEPT ![t] = opened]
    /\ at' = [at EXCEPT ![t] = "borrow"]
    /\ UNCHANGED <<arrived, generation, opened, gen, leads, counted>>

\* Variant: the loop waits for a generation after its own.
Look_Strict(t) ==
    /\ at[t] = "borrow"
    /\ at' = [at EXCEPT ![t] = IF opened > gen[t] THEN "done" ELSE "changed"]
    /\ UNCHANGED <<arrived, generation, opened, gen, ver, leads, counted>>

\* The loop ends when the generation in the channel has caught up.
Look(t) ==
    /\ at[t] = "borrow"
    /\ at' = [at EXCEPT ![t] = IF opened >= gen[t] THEN "done" ELSE "changed"]
    /\ UNCHANGED <<arrived, generation, opened, gen, ver, leads, counted>>

\* The task goes on, and may wait again.
Leave(t) ==
    /\ at[t] = "done"
    /\ at' = [at EXCEPT ![t] = "out"]
    /\ gen' = [gen EXCEPT ![t] = 0]
    /\ ver' = [ver EXCEPT ![t] = 0]
    /\ leads' = [leads EXCEPT ![t] = FALSE]
    /\ UNCHANGED <<arrived, generation, opened, counted>>

\* A wait is dropped while it is pending in changed: it stays counted.
Cancel(t) ==
    /\ at[t] = "changed" /\ ver[t] = opened
    /\ at' = [at EXCEPT ![t] = "out"]
    /\ gen' = [gen EXCEPT ![t] = 0]
    /\ ver' = [ver EXCEPT ![t] = 0]
    /\ UNCHANGED <<arrived, generation, opened, leads, counted>>

WaitStep(t) == CloneWait(t) \/ WaitChanged(t) \/ Look(t)

\* The bound is reached, or all wait for one more to come.
Idle ==
    /\ \A t \in Waiters : at[t] = "changed" \/ generation > MaxGen
    /\ UNCHANGED vars

Next ==
    \/ \E t \in Waiters : Arrive(t) \/ WaitStep(t) \/ Leave(t) \/ Cancel(t)
    \/ Idle

Spec == Init /\ [][Next]_vars

\* A wait that was woken goes on; nobody has to come.
Fairness == \A t \in Waiters : WF_vars(WaitStep(t))

FairSpec == Spec /\ Fairness

-----------------------------------------------------------------------------

\* "Does not resolve until all tasks have rendezvoused here", as far as the
\* code counts them: a wait of generation g resolves only after exactly N
\* waits were counted for g, each for this one generation, and the last of
\* them leads alone.  A cancelled wait is one of the N (line 103 is never
\* taken back).
OpensFull ==
    /\ \A g \in 1 .. MaxGen : g < generation => counted[g] = N
    /\ generation <= MaxGen => counted[generation] = arrived
    /\ \A t \in Waiters : at[t] = "done" => gen[t] < generation
    /\ \A t, u \in Waiters :
          leads[t] /\ leads[u] /\ gen[t] = gen[u] => t = u

\* Whoever waits for a generation that has opened is let through, although
\* its receiver starts with versions it never saw (line 126).
Released ==
    \A t \in Waiters :
        (at[t] \notin {"out", "done"} /\ gen[t] < generation)
            ~> (at[t] \in {"out", "done"})

=============================================================================
