--------------------------- MODULE BatchSemaphore ---------------------------
(***************************************************************************)
(* The semaphore of sync/batch_semaphore.rs under Semaphore, Mutex, RwLock *)
(* and the bounded channel: an atomic word of permits with a CLOSED bit,   *)
(* and a wait list of Acquire futures that permits are dealt out to while  *)
(* they come in.                                                           *)
(*                                                                         *)
(* The wait list is a RefCell: the semaphore is used by one thread, and    *)
(* each call below runs to its end before the next.  What interleaves are  *)
(* the calls: a future is created, polled, polled again by another task,   *)
(* dropped half served; permits come and go and the semaphore closes.      *)
(***************************************************************************)
EXTENDS Naturals, Sequences, FiniteSets, Functions, Queues

CONSTANTS
  Acquires,     \* the Acquire futures and permit guards in use at a time
  Wakers,       \* the wakers of the tasks that poll them
  NoWaker,      \* none of them
  Sizes,        \* how many permits a call asks for or adds
  MAX_PERMIT,   \* usize::MAX >> 3; new asserts that MinTotal is below
  MinTotal,     \* bound: the permits in circulation stay between these
  MaxTotal

VARIABLES
  permits,   \* Semaphore.state, above the CLOSED bit
  closed,    \* the CLOSED bit and Waitlist.closed
  list,      \* Waitlist.list, the oldest waiter first
  stage,     \* of each Acquire future, and of the guard it turns into
  num,       \* Acquire.num_permits
  missing,   \* Waiter.state: permits still to be assigned
  waker,     \* Waiter.waker
  poller,    \* history: the waker of the last poll
  awake,     \* history: futures whose poller was woken since its last poll
  total      \* history: permits in circulation

vars == <<permits, closed, list, stage, num, missing, waker, poller, awake, total>>

\* "created" was never polled, "queued" has its queued flag set, "failed" saw
\* the semaphore closed, "granted" is a permit guard.
Stages == {"unused", "created", "queued", "failed", "granted"}

\* The permits that fit above the CLOSED bit of a usize.
PermitRange == 4 * (MAX_PERMIT + 1)

Init ==
  /\ permits = MinTotal /\ total = MinTotal
  /\ closed = FALSE
  /\ list = <<>>
  /\ stage = [a \in Acquires |-> "unused"]
  /\ num = [a \in Acquires |-> 0]
  /\ missing = [a \in Acquires |-> 0]
  /\ waker = [a \in Acquires |-> NoWaker]
  /\ poller = [a \in Acquires |-> NoWaker]
  /\ awake = {}

(***************************************************************************)
(* add_permits_locked.                                                     *)
(***************************************************************************)

\* What the first k waiters of l still need.
Demand(l, k) == SumFunctionOnSet([i \in 1 .. Len(l) |-> missing[l[i]]], 1 .. k)

\* pop_back, the waker taken and woken.  The nodes in gone are freed.
WakeAll(served, gone) ==
  /\ waker' = [a \in Acquires |-> IF a \in served \cup gone THEN NoWaker ELSE waker[a]]
  /\ awake' = (awake \cup {a \in served : waker[a] = poller[a]}) \ gone

\* A mistake: permits go to whoever can be served at once.
ServeWhoeverFits(rem, l, gone) ==
  \E s \in SUBSET Range(l) :
    LET served == SumFunctionOnSet(missing, s)
    IN  /\ served <= rem
        /\ \A a \in Range(l) \ s : served + missing[a] > rem
        /\ list' = SelectSeq(l, LAMBDA a : a \notin s)
        /\ missing' = [a \in Acquires |-> IF a \in s \cup gone THEN 0 ELSE missing[a]]
        /\ permits' = permits + (rem - served)
        /\ WakeAll(s, gone)

\* The rem permits serve the k oldest waiters of l, the next one is given the
\* rest, and only what no waiter wants goes back to the word.
AddPermits(rem, l, gone) ==
  \E k \in 0 .. Len(l) :
    LET served == {l[i] : i \in 1 .. k}
        left   == rem - Demand(l, k)
    IN  /\ Demand(l, k) <= rem
        /\ k < Len(l) => Demand(l, k + 1) > rem
        /\ list' = SubSeq(l, k + 1, Len(l))
        /\ missing' = [a \in Acquires |->
             IF a \in served \cup gone THEN 0
             ELSE IF k < Len(l) /\ a = l[k + 1] THEN missing[a] - left
             ELSE missing[a]]
        /\ permits' = IF k = Len(l) THEN (permits + left) % PermitRange ELSE permits
        /\ WakeAll(served, gone)

(***************************************************************************)
(* The calls.                                                              *)
(***************************************************************************)

\* Semaphore::acquire
Create(a, n) ==
  /\ stage[a] = "unused"
  /\ stage' = [stage EXCEPT ![a] = "created"]
  /\ num' = [num EXCEPT ![a] = n]
  /\ missing' = [missing EXCEPT ![a] = n]
  /\ UNCHANGED <<permits, closed, list, waker, poller, awake, total>>

\* Semaphore::try_acquire; without effect if it is closed or short of permits.
TryAcquire(a, n) ==
  /\ stage[a] = "unused"
  /\ ~closed /\ permits >= n
  /\ permits' = permits - n
  /\ stage' = [stage EXCEPT ![a] = "granted"]
  /\ num' = [num EXCEPT ![a] = n]
  /\ UNCHANGED <<closed, list, missing, waker, poller, awake, total>>

\* A poll is over: the task of waker w, or nobody, waits for the next.
PolledBy(a, w) ==
  /\ stage[a] \in {"created", "queued"}
  /\ poller' = [poller EXCEPT ![a] = w]
  /\ awake' = awake \ {a}

\* The poll of an Acquire that ends with an error.
PollClosed(a) ==
  /\ PolledBy(a, NoWaker)
  /\ closed
  /\ stage' = [stage EXCEPT ![a] = "failed"]
  /\ UNCHANGED <<permits, closed, list, num, missing, waker, total>>

\* The poll that finds all it needs, in the node and in the word.
PollGranted(a) ==
  /\ PolledBy(a, NoWaker)
  /\ ~closed /\ permits >= missing[a]
  /\ permits' = permits - missing[a]
  /\ missing' = [missing EXCEPT ![a] = 0]
  /\ stage' = [stage EXCEPT ![a] = "granted"]
  /\ UNCHANGED <<closed, list, num, waker, total>>

\* will_wake: the waker of the last poll is the one that counts.
Register(a, w) == IF waker[a] # w THEN w ELSE waker[a]

\* The poll that takes what there is and waits for the rest.
PollPending(a, w) ==
  /\ PolledBy(a, w)
  /\ ~closed /\ permits < missing[a]
  /\ permits' = 0
  /\ missing' = [missing EXCEPT ![a] = @ - permits]
  /\ waker' = [waker EXCEPT ![a] = Register(a, w)]
  /\ list' = (IF stage[a] = "created" THEN Append(list, a) ELSE list)
  /\ stage' = [stage EXCEPT ![a] = "queued"]
  /\ UNCHANGED <<closed, num, total>>

Recycle(a) ==
  /\ stage' = [stage EXCEPT ![a] = "unused"]
  /\ num' = [num EXCEPT ![a] = 0]
  /\ poller' = [poller EXCEPT ![a] = NoWaker]
  /\ UNCHANGED closed

\* Acquire::drop before it was Ready: the node is unlinked and the permits
\* that it was assigned so far are dealt out to the others.
Cancel(a) ==
  /\ stage[a] \in {"created", "queued", "failed"}
  /\ AddPermits(num[a] - missing[a], Without(list, a), {a})
  /\ Recycle(a)
  /\ UNCHANGED total

\* SemaphorePermit::drop, MutexGuard::drop
Release(a) ==
  /\ stage[a] = "granted"
  /\ AddPermits(num[a], list, {a})
  /\ Recycle(a)
  /\ UNCHANGED total

\* SemaphorePermit::forget
Forget(a) ==
  /\ stage[a] = "granted"
  /\ total - num[a] >= MinTotal
  /\ total' = total - num[a]
  /\ Recycle(a)
  /\ UNCHANGED <<permits, list, missing, waker, awake>>

\* Semaphore::add_permits; only one addition of MAX_PERMIT or more would panic.
AddNew(n) ==
  /\ n < MAX_PERMIT /\ total + n <= MaxTotal
  /\ total' = total + n
  /\ AddPermits(n, list, {})
  /\ UNCHANGED <<closed, stage, num, poller>>

\* Semaphore::close
Close ==
  /\ ~closed
  /\ closed' = TRUE
  /\ list' = <<>>
  /\ WakeAll(Range(list), {})
  /\ UNCHANGED <<permits, stage, num, missing, poller, total>>

Poll(a) == PollClosed(a) \/ PollGranted(a) \/ \E w \in Wakers : PollPending(a, w)

Next ==
  \/ \E a \in Acquires :
       \/ \E n \in Sizes : Create(a, n) \/ TryAcquire(a, n)
       \/ Poll(a) \/ Cancel(a) \/ Release(a) \/ Forget(a)
  \/ \E n \in Sizes : AddNew(n)
  \/ Close

Spec == Init /\ [][Next]_vars

\* A woken task polls its future again, and guards are dropped one day.
FairSpec ==
  /\ Spec
  /\ \A a \in Acquires :
       /\ WF_vars(a \in awake /\ Poll(a))
       /\ WF_vars(Release(a))

(***************************************************************************)
(* Properties.                                                             *)
(***************************************************************************)

\* TypeOK: every variable keeps its kind, no waiter is given more than it asked
\* for and the word never holds more than the permits in circulation.
TypeOK ==
  /\ permits \in 0 .. total /\ total \in MinTotal .. MaxTotal
  /\ closed \in BOOLEAN
  /\ list \in Seq(Acquires)
  /\ stage \in [Acquires -> Stages]
  /\ num \in [Acquires -> Sizes \cup {0}]
  /\ \A a \in Acquires : missing[a] \in 0 .. num[a]
  /\ {waker, poller} \subseteq [Acquires -> Wakers \cup {NoWaker}]
  /\ awake \subseteq Acquires

InStage(s) == {a \in Acquires : stage[a] \in s}

\* PermitsConserved: no sequence of polls, cancellations, releases and close
\* loses or makes a permit: each is in the word, in a guard, or assigned to a
\* waiter, also one that was closed or that was served and never polled again.
PermitsConserved ==
  total = permits + SumFunctionOnSet(num, InStage({"granted"}))
          + SumFunctionOnSet([a \in Acquires |-> num[a] - missing[a]],
                             InStage({"queued", "failed"}))

\* NoBarging: while a future waits in the list there is nothing to take in the
\* word, so that neither try_acquire nor a new acquire can overtake it, and a
\* queued future that finds its permits was unlinked before.
NoBarging == list # <<>> => permits = 0

\* NoDanglingNode: the list, which holds raw pointers, has exactly the futures
\* that still wait, each once: none that was dropped, granted or has failed.
NoDanglingNode ==
  /\ \A i, j \in 1 .. Len(list) : list[i] = list[j] => i = j
  /\ Range(list) = {a \in InStage({"queued"}) : ~closed /\ missing[a] > 0}

\* WokenWhenServed: a future that left the list, because it was served in full
\* or because the semaphore closed, has woken the task that polled it last.
WokenWhenServed ==
  \A a \in InStage({"queued"}) : a \notin Range(list) => a \in awake

\* What the list and the word of the semaphore say of the futures, together.
SemaphoreSound == PermitsConserved /\ NoBarging /\ NoDanglingNode /\ WokenWhenServed

\* Contract: to those who build on it the semaphore is a pool and a queue.  The
\* permits that its oldest waiter was assigned in part are still in the pool;
\* with the end of the queue they become that future's own.
SC == INSTANCE SemaphoreContract WITH
        Clients <- Acquires,
        Counts <- Sizes,
        pool <- permits + (IF list = <<>> THEN 0 ELSE num[Head(list)] - missing[Head(list)]),
        queue <- list,
        phase <- [a \in Acquires |->
                    IF stage[a] \in {"unused", "created"} THEN "out"
                    ELSE IF stage[a] = "queued" THEN "waiting" ELSE stage[a]],
        need <- [a \in Acquires |-> IF stage[a] = "created" THEN 0 ELSE num[a]],
        held <- [a \in Acquires |->
                    IF a \in Range(list) \/ stage[a] = "created" THEN 0
                    ELSE num[a] - missing[a]]

Contract == SC!Spec

=============================================================================
