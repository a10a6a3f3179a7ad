------------------------- MODULE SemaphoreContract -------------------------
(***************************************************************************)
(* What the batch semaphore promises to Mutex, RwLock, OnceCell and the    *)
(* bounded channel, without its word and its partial assignments: a pool   *)
(* of permits, a first-come first-served queue whose head is served as     *)
(* soon as the pool holds all it asked for, and an end for everybody once  *)
(* it is closed.  A client is an Acquire future, then the guard it became. *)
(***************************************************************************)
EXTENDS Naturals, Sequences, FiniteSets, Functions, Queues

CONSTANTS Clients,
          Counts    \* how many permits a call asks for or adds

VARIABLES pool,    \* permits that nobody holds
          closed,
          queue,   \* clients that wait, the oldest first
          phase,   \* of each client
          need,    \* permits a client asked for
          held     \* permits a client has been given

semVars == <<pool, closed, queue, phase, need, held>>

\* A "waiting" client that has left the queue was served, or the semaphore
\* closed; it learns at its next poll.
Phases == {"out", "waiting", "failed", "granted"}

InitWith(n) ==
    /\ pool = n
    /\ closed = FALSE
    /\ queue = <<>>
    /\ phase = [c \in Clients |-> "out"]
    /\ need = [c \in Clients |-> 0]
    /\ held = [c \in Clients |-> 0]

\* What the first k of q ask for.
Demand(q, k) == SumFunctionOnSet([i \in 1 .. Len(q) |-> need[q[i]]], 1 .. k)

\* p permits in the pool serve the front of q, in turn and each in full; the
\* others hold what kept says.
Deal(p, q, kept) ==
    \E k \in 0 .. Len(q) :
        /\ Demand(q, k) <= p
        /\ k < Len(q) => Demand(q, k + 1) > p
        /\ pool' = p - Demand(q, k)
        /\ queue' = SubSeq(q, k + 1, Len(q))
        /\ held' = [c \in Clients |->
                       IF \E i \in 1 .. k : q[i] = c THEN need[c] ELSE kept[c]]

\* What is there and not asked for by an older client is granted at once.
Acquire(c, n) ==
    /\ phase[c] = "out"
    /\ ~closed
    /\ n > 0 => queue = <<>> /\ n <= pool
    /\ pool' = pool - n
    /\ phase' = [phase EXCEPT ![c] = "granted"]
    /\ need' = [need EXCEPT ![c] = n]
    /\ held' = [held EXCEPT ![c] = n]
    /\ UNCHANGED <<closed, queue>>

Wait(c, n) ==
    /\ phase[c] = "out"
    /\ ~closed
    /\ n > 0 /\ (queue = <<>> => n > pool)
    /\ queue' = Append(queue, c)
    /\ phase' = [phase EXCEPT ![c] = "waiting"]
    /\ need' = [need EXCEPT ![c] = n]
    /\ UNCHANGED <<pool, closed, held>>

Receive(c) ==
    /\ phase[c] = "waiting"
    /\ held[c] = need[c]
    /\ ~closed
    /\ phase' = [phase EXCEPT ![c] = "granted"]
    /\ UNCHANGED <<pool, closed, queue, need, held>>

\* Also a client that was served before the close.
Fail(c) ==
    /\ phase[c] = "waiting"
    /\ closed
    /\ phase' = [phase EXCEPT ![c] = "failed"]
    /\ UNCHANGED <<pool, closed, queue, need, held>>

Refuse(c, n) ==
    /\ phase[c] = "out"
    /\ closed
    /\ phase' = [phase EXCEPT ![c] = "failed"]
    /\ need' = [need EXCEPT ![c] = n]
    /\ UNCHANGED <<pool, closed, queue, held>>

\* The future or the guard goes, and what it held is dealt out.
Drop(c) ==
    /\ phase[c] # "out"
    /\ phase' = [phase EXCEPT ![c] = "out"]
    /\ need' = [need EXCEPT ![c] = 0]
    /\ Deal(pool + held[c], Without(queue, c), [held EXCEPT ![c] = 0])
    /\ UNCHANGED closed

\* The guard goes and its permits with it.
Forget(c) ==
    /\ phase[c] = "granted"
    /\ phase' = [phase EXCEPT ![c] = "out"]
    /\ need' = [need EXCEPT ![c] = 0]
    /\ held' = [held EXCEPT ![c] = 0]
    /\ UNCHANGED <<pool, closed, queue>>

\* A guard returns n of its permits and lives on.
Return(c, n) ==
    /\ phase[c] = "granted" /\ n <= held[c]
    /\ need' = [need EXCEPT ![c] = @ - n]
    /\ Deal(pool + n, queue, [held EXCEPT ![c] = @ - n])
    /\ UNCHANGED <<closed, phase>>

Add(n) ==
    /\ Deal(pool + n, queue, held)
    /\ UNCHANGED <<closed, phase, need>>

\* The queue ends.  What the pool held for the oldest waiter stays with that
\* one until it is dropped.
Close ==
    /\ closed' = TRUE
    /\ queue' = <<>>
    /\ pool' = IF queue = <<>> THEN pool ELSE 0
    /\ held' = IF queue = <<>> THEN held ELSE [held EXCEPT ![Head(queue)] = pool]
    /\ UNCHANGED <<phase, need>>

Next ==
    \/ \E c \in Clients :
          \/ \E n \in Counts : Acquire(c, n) \/ Wait(c, n) \/ Refuse(c, n)
          \/ Receive(c) \/ Fail(c) \/ Drop(c) \/ Forget(c)
          \/ \E n \in Counts : Return(c, n)
    \/ \E n \in Counts : Add(n)
    \/ Close

Init == pool \in Nat /\ InitWith(pool)

Spec == Init /\ [][Next]_semVars
=============================================================================
