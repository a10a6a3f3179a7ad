------------------------------- MODULE Locks -------------------------------
(***************************************************************************)
(* What stands on the batch semaphore and hands out guards: Mutex, RwLock  *)
(* and Semaphore (sync/mutex.rs, sync/rwlock, sync/semaphore.rs), over the *)
(* contract that BatchSemaphore implements.  `kind` says which of them     *)
(* this is.  A mutex has one permit; a reader takes one permit of the lock *)
(* and a writer all of them, so that the queue of the semaphore is what is *)
(* fair between readers and writers.                                       *)
(*                                                                         *)
(* A client is a call, then the guard it returns.  The _owned forms hold a *)
(* reference to the lock; the others borrow it, and the handle cannot go.  *)
(* The blocking_ forms are deprecated stubs.                               *)
(***************************************************************************)
EXTENDS Naturals, Sequences, FiniteSets, Functions

CONSTANTS Clients,
          MaxReaders,   \* what the locks are created with
          MaxTotal      \* bound of the model: permits of a Semaphore

ASSUME MaxReadersAssumption == MaxReaders \subseteq Nat \ {0}

VARIABLES
    pool, closed, queue, phase, need, held,   \* the semaphore
    kind,      \* "mutex", "rwlock" or "semaphore"
    total,     \* history: permits that exist
    guard,     \* what a client holds, or waits for
    owned,     \* clients with a reference of their own
    handle,    \* the program's own reference
    refs       \* strong count of the Arc

sem == <<pool, closed, queue, phase, need, held>>
arc == <<owned, handle, refs>>
vars == <<sem, kind, total, guard, arc>>

Sem == INSTANCE SemaphoreContract WITH Counts <- 1 .. MaxTotal

Init ==
    /\ \/ kind = "mutex" /\ total = 1
       \/ kind = "rwlock" /\ total \in MaxReaders
       \/ kind = "semaphore" /\ total \in 0 .. MaxTotal
    /\ Sem!InitWith(total)
    /\ guard = [c \in Clients |-> "none"]
    /\ owned = {} /\ handle = TRUE /\ refs = 1

-----------------------------------------------------------------------------
(* Acquiring                                                               *)

Borrowed(c) == handle /\ UNCHANGED arc

Cloned(c) ==
    /\ handle
    /\ owned' = owned \cup {c}
    /\ refs' = refs + 1
    /\ UNCHANGED handle

\* try_acquire, or the first poll of an Acquire: n permits make a guard g at
\* once, or the call waits for them.
Now(c, n, g) ==
    /\ Sem!Acquire(c, n)
    /\ guard' = [guard EXCEPT ![c] = g]
    /\ UNCHANGED <<kind, total>>

Later(c, n, g) ==
    /\ Sem!Wait(c, n)
    /\ guard' = [guard EXCEPT ![c] = g]
    /\ UNCHANGED <<kind, total>>

TryLock(c) == kind = "mutex" /\ Now(c, 1, "write") /\ Borrowed(c)
TryLockOwned(c) == kind = "mutex" /\ Now(c, 1, "write") /\ Cloned(c)

\* Mutex::acquire, when there is no permit
AcquireOne(c) == kind = "mutex" /\ Later(c, 1, "write")

Lock(c) == TryLock(c) \/ (AcquireOne(c) /\ Borrowed(c))
LockOwned(c) == TryLockOwned(c) \/ (AcquireOne(c) /\ Cloned(c))

\* Variant: a reader passes the writers that wait.
TryRead_Barging(c) ==
    /\ kind = "rwlock" /\ phase[c] = "out" /\ pool > 0
    /\ pool' = pool - 1
    /\ phase' = [phase EXCEPT ![c] = "granted"]
    /\ need' = [need EXCEPT ![c] = 1]
    /\ held' = [held EXCEPT ![c] = 1]
    /\ guard' = [guard EXCEPT ![c] = "read"]
    /\ Borrowed(c)
    /\ UNCHANGED <<closed, queue, kind, total>>

TryRead(c) == kind = "rwlock" /\ Now(c, 1, "read") /\ Borrowed(c)
TryReadOwned(c) == kind = "rwlock" /\ Now(c, 1, "read") /\ Cloned(c)
TryWrite(c) == kind = "rwlock" /\ Now(c, total, "write") /\ Borrowed(c)
TryWriteOwned(c) == kind = "rwlock" /\ Now(c, total, "write") /\ Cloned(c)

Read(c) ==
    \/ TryRead(c)
    \/ kind = "rwlock" /\ Later(c, 1, "read") /\ Borrowed(c)

ReadOwned(c) ==
    \/ TryReadOwned(c)
    \/ kind = "rwlock" /\ Later(c, 1, "read") /\ Cloned(c)

Write(c) ==
    \/ TryWrite(c)
    \/ kind = "rwlock" /\ Later(c, total, "write") /\ Borrowed(c)

WriteOwned(c) ==
    \/ TryWriteOwned(c)
    \/ kind = "rwlock" /\ Later(c, total, "write") /\ Cloned(c)

\* Semaphore: acquire is acquire_many(1), and so for its other forms.
TryAcquireMany(c, n) == kind = "semaphore" /\ Now(c, n, "permit") /\ Borrowed(c)
TryAcquireManyOwned(c, n) == kind = "semaphore" /\ Now(c, n, "permit") /\ Cloned(c)

AcquireMany(c, n) ==
    \/ TryAcquireMany(c, n)
    \/ kind = "semaphore" /\ Later(c, n, "permit") /\ Borrowed(c)

AcquireManyOwned(c, n) ==
    \/ TryAcquireManyOwned(c, n)
    \/ kind = "semaphore" /\ Later(c, n, "permit") /\ Cloned(c)

Served(c) ==
    /\ Sem!Receive(c)
    /\ UNCHANGED <<kind, total, guard, arc>>

-----------------------------------------------------------------------------
(* Guards                                                                  *)

\* An owned future or guard drops its reference last.
Leaves(c) ==
    /\ guard' = [guard EXCEPT ![c] = "none"]
    /\ owned' = owned \ {c}
    /\ refs' = IF c \in owned THEN refs - 1 ELSE refs
    /\ UNCHANGED handle

Gone(c) == Leaves(c) /\ UNCHANGED <<kind, total>>

\* A future is cancelled, or fails because the semaphore is closed.
Cancel(c) == phase[c] = "waiting" /\ Sem!Drop(c) /\ Gone(c)

\* The guard of type g on a lock of kind k, owned or not, that c holds.
Holds(c, k, g, o) ==
    phase[c] = "granted" /\ kind = k /\ guard[c] = g /\ (c \in owned <=> o)

\* Its permits are released, then its reference is.
Ends(c) == Sem!Drop(c) /\ Gone(c)

Unlock(c) == Holds(c, "mutex", "write", FALSE) /\ Ends(c)
UnlockOwned(c) == Holds(c, "mutex", "write", TRUE) /\ Ends(c)
UnlockMapped(c) == Holds(c, "mutex", "mapped", FALSE) /\ Ends(c)

DropRead(c) == Holds(c, "rwlock", "read", FALSE) /\ Ends(c)
DropReadOwned(c) == Holds(c, "rwlock", "read", TRUE) /\ Ends(c)
DropWrite(c) == Holds(c, "rwlock", "write", FALSE) /\ Ends(c)
DropWriteOwned(c) == Holds(c, "rwlock", "write", TRUE) /\ Ends(c)
DropMapped(c) == Holds(c, "rwlock", "mapped", FALSE) /\ Ends(c)
DropMappedOwned(c) == Holds(c, "rwlock", "mapped", TRUE) /\ Ends(c)

\* map, and try_map that finds what it maps to: the new guard has the permits
\* and the reference of the old one, which is forgotten.
Becomes(c, g) ==
    /\ guard' = [guard EXCEPT ![c] = g]
    /\ UNCHANGED <<sem, kind, total, arc>>

MapMutex(c) == Holds(c, "mutex", "write", FALSE) /\ Becomes(c, "mapped")
MapWrite(c) == Holds(c, "rwlock", "write", FALSE) /\ Becomes(c, "mapped")
MapWriteOwned(c) == Holds(c, "rwlock", "write", TRUE) /\ Becomes(c, "mapped")

\* The others map to their own type.
MapRead(c) == Holds(c, "rwlock", "read", FALSE) /\ Becomes(c, "read")
MapReadOwned(c) == Holds(c, "rwlock", "read", TRUE) /\ Becomes(c, "read")
RemapMutex(c) == Holds(c, "mutex", "mapped", FALSE) /\ Becomes(c, "mapped")
Remap(c) == Holds(c, "rwlock", "mapped", FALSE) /\ Becomes(c, "mapped")
RemapOwned(c) == Holds(c, "rwlock", "mapped", TRUE) /\ Becomes(c, "mapped")

\* All but one of the permits are returned, and a reader is left.
ToReader(c) ==
    /\ Sem!Return(c, total - 1)
    /\ guard' = [guard EXCEPT ![c] = "read"]
    /\ UNCHANGED <<kind, total, arc>>

\* Variant: the permits are forgotten.
Downgrade_KeepsAll(c) ==
    /\ Holds(c, "rwlock", "write", FALSE)
    /\ need' = [need EXCEPT ![c] = 1]
    /\ held' = [held EXCEPT ![c] = 1]
    /\ guard' = [guard EXCEPT ![c] = "read"]
    /\ UNCHANGED <<pool, closed, queue, phase, kind, total, arc>>

Downgrade(c) == Holds(c, "rwlock", "write", FALSE) /\ ToReader(c)

DowngradeOwned(c) == Holds(c, "rwlock", "write", TRUE) /\ ToReader(c)

DropPermit(c) == Holds(c, "semaphore", "permit", FALSE) /\ Ends(c)
DropPermitOwned(c) == Holds(c, "semaphore", "permit", TRUE) /\ Ends(c)

ForgetPermit(c) ==
    /\ kind = "semaphore"
    /\ Sem!Forget(c)
    /\ Leaves(c)
    /\ total' = total - held[c]
    /\ UNCHANGED kind

AddPermits(n) ==
    /\ kind = "semaphore" /\ handle /\ total + n <= MaxTotal
    /\ Sem!Add(n)
    /\ total' = total + n
    /\ UNCHANGED <<kind, guard, arc>>

Close ==
    /\ kind = "semaphore" /\ handle
    /\ Sem!Close
    /\ UNCHANGED <<kind, total, guard, arc>>

-----------------------------------------------------------------------------

\* The program's reference goes, once nothing borrows the lock.
DropHandle ==
    /\ handle /\ \A c \in Clients : phase[c] = "out" \/ c \in owned
    /\ handle' = FALSE
    /\ refs' = refs - 1
    /\ UNCHANGED <<sem, kind, total, guard, owned>>

\* There is no lock any more.
Freed == refs = 0 /\ UNCHANGED vars

Acquiring(c) ==
    \/ Lock(c) \/ LockOwned(c)
    \/ Read(c) \/ ReadOwned(c) \/ Write(c) \/ WriteOwned(c)
    \/ \E n \in 0 .. MaxTotal : AcquireMany(c, n) \/ AcquireManyOwned(c, n)

Converting(c) ==
    \/ MapMutex(c) \/ RemapMutex(c)
    \/ MapWrite(c) \/ MapWriteOwned(c) \/ Remap(c) \/ RemapOwned(c)
    \/ MapRead(c) \/ MapReadOwned(c)
    \/ Downgrade(c) \/ DowngradeOwned(c)

Unlocking(c) ==
    \/ Unlock(c) \/ UnlockOwned(c) \/ UnlockMapped(c)
    \/ DropRead(c) \/ DropReadOwned(c) \/ DropWrite(c) \/ DropWriteOwned(c)
    \/ DropMapped(c) \/ DropMappedOwned(c)

Next ==
    \/ \E c \in Clients :
          \/ Acquiring(c) \/ Served(c) \/ Cancel(c) \/ Converting(c) \/ Unlocking(c)
          \/ DropPermit(c) \/ DropPermitOwned(c) \/ ForgetPermit(c)
    \/ \E n \in 1 .. MaxTotal : AddPermits(n)
    \/ Close
    \/ DropHandle
    \/ Freed

Spec == Init /\ [][Next]_vars

\* A guard of a lock is dropped one day, and a future that was served, or
\* woken by the close, is polled.
Polled(c) == Served(c) \/ (closed /\ Cancel(c))

Fairness == \A c \in Clients : WF_vars(Unlocking(c)) /\ WF_vars(Polled(c))

FairSpec == Spec /\ Fairness

-----------------------------------------------------------------------------
(* Properties                                                              *)

TypeOK ==
    /\ phase \in [Clients -> Sem!Phases]
    /\ guard \in [Clients -> {"none", "read", "write", "mapped", "permit"}]
    /\ owned \subseteq Clients /\ handle \in BOOLEAN /\ refs \in Nat

\* Has the guard, not only the wish for it.
Has(c, gs) == phase[c] = "granted" /\ guard[c] \in gs

\* A writer, mapped or not, is alone, and there are never more readers than
\* the lock was created for, also after a downgrade that lets readers in.
ReadersXorWriter ==
    /\ \A c, d \in Clients :
          Has(c, {"write", "mapped"}) /\ Has(d, {"read", "write", "mapped"}) => c = d
    /\ kind = "rwlock" => Cardinality({c \in Clients : Has(c, {"read"})}) <= total

\* No permit is lost or made up: what guards and served futures hold and what
\* is in the pool is what was created, added and not forgotten.
PermitsConserved ==
    pool + SumFunctionOnSet(held, {c \in Clients : held[c] > 0}) = total

\* The lock lives exactly as long as a reference to it: one that was moved
\* out of a guard is neither dropped twice nor leaked.
FreedOnce ==
    /\ refs = Cardinality(owned) + (IF handle THEN 1 ELSE 0)
    /\ refs = 0 => \A c \in Clients : phase[c] = "out"

\* Who holds a lock, what its permits say and what keeps it alive agree, through
\* all ways in which guards are mapped, downgraded, forgotten and dropped.
LocksSound == ReadersXorWriter /\ PermitsConserved /\ FreedOnce

=============================================================================
