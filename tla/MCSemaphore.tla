---------------------------- MODULE MCSemaphore ----------------------------
(***************************************************************************)
(* The batch semaphore, and over its contract the three locks, OnceCell    *)
(* and the bounded channel, in one run: `part` says which of them moves.   *)
(***************************************************************************)
EXTENDS Locks

CONSTANTS None, Wakers, NoWaker, Sizes, MAX_PERMIT, MinTotal, MaxPermits, Cap, MaxSent

VARIABLES
    part,
    value_set, value, answer,
    sender, buffer, sent, rx, rxClosed, woken, untold,
    permits, shut, list, stage, num, missing, waker, poller, awake, circulating

C == INSTANCE OnceCell
M == INSTANCE Bounded WITH Senders <- Clients, handle <- sender, awake <- woken
B == INSTANCE BatchSemaphore WITH
        Acquires <- Clients, MaxTotal <- MaxPermits,
        closed <- shut, total <- circulating

lvars == <<kind, total, guard, arc>>
cvars == <<value_set, value, answer>>
mvars == <<sender, buffer, sent, rx, rxClosed, woken, untold>>
bvars == <<permits, shut, list, stage, num, missing, waker, poller, awake, circulating>>

LocksRest ==
    /\ kind = "semaphore" /\ total = 1 /\ guard = [c \in Clients |-> "none"]
    /\ owned = {} /\ handle = TRUE /\ refs = 1
CellRests == value_set = FALSE /\ value = None /\ answer = [c \in Clients |-> None]
BoundedRests ==
    /\ sender = [c \in Clients |-> "unborn"] /\ buffer = <<>> /\ sent = 0
    /\ rx = "idle" /\ rxClosed = FALSE /\ woken = {} /\ untold = {}

MCInit ==
    /\ B!Init
    /\ \/ part = "locks" /\ Init /\ CellRests /\ BoundedRests
       \/ part = "cell" /\ C!Init /\ LocksRest /\ BoundedRests
       \/ part = "bounded" /\ M!Init /\ LocksRest /\ CellRests
       \/ part = "batch" /\ Sem!InitWith(1) /\ LocksRest /\ CellRests /\ BoundedRests

MCNext ==
    \/ part = "locks" /\ Next /\ UNCHANGED <<part, cvars, mvars, bvars>>
    \/ part = "cell" /\ C!Next /\ UNCHANGED <<part, lvars, mvars, bvars>>
    \/ part = "bounded" /\ M!Next /\ UNCHANGED <<part, lvars, cvars, bvars>>
    \/ part = "batch" /\ B!Next /\ UNCHANGED <<part, sem, lvars, cvars, mvars>>

MCSpec ==
    /\ MCInit /\ [][MCNext]_<<part, vars, cvars, mvars, bvars>>
    /\ \A c \in Clients :
          /\ WF_vars(part = "locks" /\ Unlocking(c))
          /\ WF_vars(part = "locks" /\ Polled(c))
          /\ WF_<<sem, cvars>>(part = "cell" /\ (C!GetsPermit(c) \/ C!GetClosed(c)))
          /\ WF_<<sem, cvars>>(part = "cell" /\ (C!InitReady(c) \/ C!InitFails(c)))
          /\ WF_<<sem, mvars>>(part = "bounded" /\ M!ReservePolled(c))
          /\ WF_<<sem, mvars>>(part = "bounded" /\ M!PermitUsed(c))
          /\ WF_bvars(part = "batch" /\ c \in awake /\ B!Poll(c))
          /\ WF_bvars(part = "batch" /\ B!Release(c))
    /\ WF_<<sem, mvars>>(part = "bounded" /\ (rx = "idle" \/ "rx" \in woken) /\ M!RecvPoll)

\* Permits are neither lost nor made up, nobody overtakes and nobody is left in
\* the list (batch_semaphore.rs); guards exclude one another and return exactly
\* their permits and references, however they were made (mutex.rs, rwlock).
PermitsSafe ==
    /\ part = "batch" => B!SemaphoreSound
    /\ part = "locks" => LocksSound

\* A OnceCell is written once, and read as it was written (once_cell.rs).
CellSafe == part = "cell" => C!CellSound

\* The channel holds no more than it was made for, and None is final (bounded.rs).
CapacitySafe == part = "bounded" => M!CapacitySound

\* A receiver that waits on the channel is woken for what ends its wait, unless
\* that is the last permit, given back by OwnedPermit::release (bounded.rs:1153)
\* or by a reserve that was served and then dropped, or found the channel closed
\* (batch_semaphore.rs:375): these two tell nobody.
ReceiverWoken == part = "bounded" => M!ReceiverWoken

\* The semaphore implements its contract, the one that the other parts use.
Contract == B!Contract

\* Whoever waits is served: for permits, however small the requests are that
\* come after it; for a lock, a writer among readers too; for its turn at a cell
\* whose initializer failed, panicked or was cancelled; and for a slot.
WaitsEnd ==
    \A c \in Clients :
        /\ part # "batch" /\ (part = "locks" => kind # "semaphore") /\ phase[c] = "waiting"
               ~> phase[c] # "waiting"
        /\ stage[c] = "queued" ~> stage[c] # "queued"
=============================================================================
