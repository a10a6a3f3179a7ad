----------------------------- MODULE Broadcast -----------------------------
(***************************************************************************)
(* sync/broadcast.rs: a ring of slots behind read-write locks, and a tail  *)
(* behind a mutex.  Every value is kept for all receivers that were there  *)
(* when it was sent, unless the ring wraps before they come: they are told *)
(* how many they missed.                                                   *)
(*                                                                         *)
(* A value is the position it was sent at, so a slot shows whose turn it   *)
(* is.  Senders and receivers are on threads of their own.  What a thread  *)
(* does with the tail locked is one action, unless it waits for a slot in  *)
(* the middle; a reader keeps its slot locked over the steps of a guard.   *)
(***************************************************************************)
EXTENDS Integers, Sequences, FiniteSets, Functions, Queues

CONSTANTS Senders,    \* handles, some of them not yet cloned
          Receivers,  \* receiver handles, some not yet subscribed
          Cap,        \* slots of the ring; a power of two, so that & is %
          MaxPos,     \* bound on the values sent
          MaxRem      \* the largest value of rem, a usize

VARIABLES
    buffer,   \* the slots: pos, rem, closed, val
    tail,     \* pos, rx_cnt and closed of Tail
    owner,    \* the sender that holds the tail over its wait for a slot
    waiters,  \* Tail::waiters; push_front is Append here
    tx,       \* what each sender does
    rx,       \* what each receiver is
    next,     \* Receiver::next
    until,    \* the local of Receiver::drop
    pc,       \* where a receiver stands
    mode,     \* the call it is in: recv, try_recv or drop
    pending,  \* receivers whose Recv returned Pending
    woken,    \* receivers woken since their last poll
    met       \* history: the close fell into the drop of a receiver

vars == <<buffer, tail, owner, waiters, tx, rx, next, until, pc, mode,
          pending, woken, met>>

Nobody == "nobody"
Absent == -1 - Cap
Idx(p) == p % Cap
Wrap(n) == n % (MaxRem + 1)   \* 0 - 1 is MaxRem

Init ==
    /\ buffer = [i \in 0 .. Cap - 1 |->
                   [pos |-> i - Cap, rem |-> 0, closed |-> FALSE,
                    val |-> Absent]]
    /\ tail = [pos |-> 0, cnt |-> 1, closed |-> FALSE]
    /\ owner = Nobody
    /\ waiters = <<>>
    /\ \E s \in Senders : tx = [t \in Senders |-> IF t = s THEN "live" ELSE "none"]
    /\ \E r \in Receivers : rx = [q \in Receivers |-> IF q = r THEN "live" ELSE "none"]
    /\ next = [r \in Receivers |-> 0]
    /\ until = [r \in Receivers |-> 0]
    /\ pc = [r \in Receivers |-> "idle"]
    /\ mode = [r \in Receivers |-> "none"]
    /\ pending = {}
    /\ woken = {}
    /\ met = FALSE

\* Receivers whose guard holds the read lock of slot i
Readers(i) == {r \in Receivers :
                  pc[r] \in {"clone", "release"} /\ Idx(next[r] - 1) = i}
Free == owner = Nobody
Live == {r \in Receivers : rx[r] = "live"}

-----------------------------------------------------------------------------
(* Sender: clone, send, drop                                               *)

CloneSender(s) ==
    /\ tx[s] = "none"
    /\ \E t \in Senders : tx[t] = "live"
    /\ tx' = [tx EXCEPT ![s] = "live"]
    /\ UNCHANGED <<buffer, tail, owner, waiters, rx, next, until, pc, mode,
                   pending, woken, met>>

\* send2 takes the tail, and a position when a receiver is there.
ClaimPosition(s) ==
    /\ tail' = [tail EXCEPT !.pos = @ + 1]
    /\ owner' = s

Send(s) ==
    /\ tx[s] = "live"
    /\ Free /\ tail.cnt > 0
    /\ tail.pos < MaxPos
    /\ ClaimPosition(s)
    /\ tx' = [tx EXCEPT ![s] = "writing"]
    /\ UNCHANGED <<buffer, waiters, rx, next, until, pc, mode, pending, woken, met>>

\* num_tx goes down; the last sender goes on to send2(None).
DropSender(s) ==
    /\ tx[s] = "live"
    /\ LET last == \A t \in Senders \ {s} : tx[t] \notin {"live", "writing"}
       IN tx' = [tx EXCEPT ![s] = IF last THEN "closing" ELSE "gone"]
    /\ UNCHANGED <<buffer, tail, owner, waiters, rx, next, until, pc, mode,
                   pending, woken, met>>

CloseChannel(s) ==
    /\ tx[s] = "closing"
    /\ Free
    /\ \/ /\ tail.cnt = 0
          /\ tx' = [tx EXCEPT ![s] = "gone"]
          /\ UNCHANGED <<tail, owner>>
       \/ /\ tail.cnt > 0
          /\ ClaimPosition(s)
          /\ tx' = [tx EXCEPT ![s] = "writing_close"]
    /\ UNCHANGED <<buffer, waiters, rx, next, until, pc, mode, pending, woken, met>>

\* The marker of the close goes into the slot of the oldest value; a receiver
\* that is in its drop, and not counted any more, has still to look at it.
MeetsDrop(s) ==
    met' = (met \/ /\ tx[s] = "writing_close"
                   /\ \E r \in Receivers : LET oldest == tail.pos - 1 - Cap IN
                         rx[r] = "dropping" /\ next[r] <= oldest /\ oldest < until[r])

\* Variant: nobody is woken.
WriteSlot_NoNotify(s) ==
    /\ owner = s
    /\ LET p == tail.pos - 1
           close == tx[s] = "writing_close"
       IN /\ Readers(Idx(p)) = {}
          /\ buffer' = [buffer EXCEPT ![Idx(p)] =
                [pos |-> p, rem |-> tail.cnt, closed |-> close,
                 val |-> IF close THEN @.val ELSE p]]
          /\ tail' = [tail EXCEPT !.closed = close]
          /\ tx' = [tx EXCEPT ![s] = IF close THEN "gone" ELSE "live"]
    /\ MeetsDrop(s)
    /\ owner' = Nobody
    /\ UNCHANGED <<waiters, rx, next, until, pc, mode, pending, woken>>

\* Variant: the slot counts one receiver too few.
WriteSlot_FewerRem(s) ==
    /\ owner = s
    /\ LET p == tail.pos - 1
           close == tx[s] = "writing_close"
       IN /\ Readers(Idx(p)) = {}
          /\ buffer' = [buffer EXCEPT ![Idx(p)] =
                [pos |-> p, rem |-> Wrap(tail.cnt - 1), closed |-> close,
                 val |-> IF close THEN @.val ELSE p]]
          /\ tail' = [tail EXCEPT !.closed = close]
          /\ tx' = [tx EXCEPT ![s] = IF close THEN "gone" ELSE "live"]
    /\ MeetsDrop(s)
    /\ owner' = Nobody
    /\ woken' = woken \cup Range(waiters)
    /\ waiters' = <<>>
    /\ UNCHANGED <<rx, next, until, pc, mode, pending>>

\* With the tail held, the sender waits until nobody reads the slot, writes
\* it, wakes all waiters and gives the tail back.
WriteSlot(s) ==
    /\ owner = s
    /\ LET p == tail.pos - 1
           close == tx[s] = "writing_close"
       IN /\ Readers(Idx(p)) = {}
          /\ buffer' = [buffer EXCEPT ![Idx(p)] =
                [pos |-> p, rem |-> tail.cnt, closed |-> close,
                 val |-> IF close THEN @.val ELSE p]]
          /\ tail' = [tail EXCEPT !.closed = close]
          /\ tx' = [tx EXCEPT ![s] = IF close THEN "gone" ELSE "live"]
    /\ MeetsDrop(s)
    /\ owner' = Nobody
    /\ woken' = woken \cup Range(waiters)
    /\ waiters' = <<>>
    /\ UNCHANGED <<rx, next, until, pc, mode, pending>>

-----------------------------------------------------------------------------
(* Receiver: subscribe, recv, try_recv, drop                               *)

\* subscribe by a sender, resubscribe by a receiver
Subscribe(r) ==
    /\ rx[r] = "none"
    /\ Free
    /\ Live # {} \/ \E s \in Senders : tx[s] = "live"
    /\ rx' = [rx EXCEPT ![r] = "live"]
    /\ next' = [next EXCEPT ![r] = tail.pos]
    /\ tail' = [tail EXCEPT !.cnt = @ + 1]
    /\ UNCHANGED <<buffer, owner, waiters, tx, until, pc, mode, pending, woken, met>>

Goto(r, l) == pc' = [pc EXCEPT ![r] = l]

\* recv_ref returns an error: recv drops its future, try_recv returns, and
\* drop looks again.
Leave(r) == Goto(r, CASE mode'[r] = "recv" -> "unqueue"
                      [] mode'[r] = "try" -> "idle"
                      [] mode'[r] = "drop" -> "drain")

\* The slot holds what the receiver asks for: a guard on the value, or the
\* marker of the close, on which a drop stops.
Hit(r, slot) ==
    /\ next' = [next EXCEPT ![r] = @ + 1]
    /\ IF slot.closed
       THEN IF mode'[r] = "drop" THEN Goto(r, "gone") ELSE Leave(r)
       ELSE Goto(r, IF mode'[r] = "drop" THEN "release" ELSE "clone")

\* recv_ref, the look at the slot without the tail
Look(r, m) ==
    LET slot == buffer[Idx(next[r])] IN
    /\ mode' = [mode EXCEPT ![r] = m]
    /\ woken' = woken \ {r}
    /\ \/ /\ slot.pos = next[r]
          /\ Hit(r, slot)
       \/ /\ slot.pos # next[r]
          /\ Goto(r, IF m # "recv" /\ slot.pos + Cap = next[r]
                     THEN (IF m = "drop" THEN "panic" ELSE "idle")
                     ELSE "slow")
          /\ UNCHANGED next
    /\ UNCHANGED <<buffer, tail, owner, waiters, tx, rx, until, pending, met>>

PollRecv(r) == rx[r] = "live" /\ pc[r] = "idle" /\ Look(r, "recv")

TryRecv(r) ==
    rx[r] = "live" /\ pc[r] = "idle" /\ r \notin pending /\ Look(r, "try")

\* Variant: the oldest position is taken for the one after it.
OldestKept_OffByOne == tail.pos - Cap - (IF tail.closed THEN 1 ELSE 0) + 1

\* The oldest position a receiver may still read: the marker of the close
\* left the value below it in its slot.
OldestKept == tail.pos - Cap - (IF tail.closed THEN 1 ELSE 0)

\* The second look, with the tail locked: the value has come; there is none
\* yet and the waker is left; or the ring has wrapped.
Slow(r) ==
    LET slot == buffer[Idx(next[r])] IN
    /\ pc[r] = "slow"
    /\ Free
    /\ mode' = mode
    /\ \/ /\ slot.pos = next[r]
          /\ Hit(r, slot)
          /\ UNCHANGED <<waiters, pending>>
       \/ /\ slot.pos + Cap = next[r]
          /\ \/ /\ mode[r] = "recv"
                /\ waiters' = IF r \in Range(waiters) THEN waiters
                                                      ELSE Append(waiters, r)
                /\ pending' = pending \cup {r}
                /\ Goto(r, "idle")
             \/ /\ mode[r] # "recv"
                /\ Goto(r, IF mode[r] = "drop" THEN "panic" ELSE "idle")
                /\ UNCHANGED <<waiters, pending>>
          /\ UNCHANGED next
       \/ /\ slot.pos \notin {next[r], next[r] - Cap}
          /\ IF OldestKept = next[r]
             THEN /\ next' = [next EXCEPT ![r] = @ + 1]
                  /\ Goto(r, IF mode[r] = "drop" THEN "release" ELSE "clone")
             ELSE /\ next' = [next EXCEPT ![r] = OldestKept]
                  /\ Leave(r)
          /\ UNCHANGED <<waiters, pending>>
    /\ UNCHANGED <<buffer, tail, owner, tx, rx, until, woken, met>>

\* The guard shows its value,
CloneValue(r) ==
    /\ pc[r] = "clone"
    /\ Goto(r, "release")
    /\ UNCHANGED <<buffer, tail, owner, waiters, tx, rx, next, until, mode,
                   pending, woken, met>>

\* and counts its receiver off; the last one empties the slot.
DropGuard(r) ==
    /\ pc[r] = "release"
    /\ LET i == Idx(next[r] - 1) IN
       buffer' = [buffer EXCEPT ![i].rem = Wrap(@ - 1),
                                ![i].val = IF buffer[i].rem = 1 THEN Absent ELSE @]
    /\ mode' = mode
    /\ Leave(r)
    /\ UNCHANGED <<tail, owner, waiters, tx, rx, next, until, pending, woken, met>>

\* The Recv future is dropped: after its answer, or because nobody wants it.
DropRecv(r) ==
    /\ Free
    /\ \/ pc[r] = "unqueue"
       \/ pc[r] = "idle" /\ r \in pending
    /\ waiters' = Without(waiters, r)
    /\ pending' = pending \ {r}
    /\ woken' = woken \ {r}
    /\ Goto(r, "idle")
    /\ mode' = [mode EXCEPT ![r] = "none"]
    /\ UNCHANGED <<buffer, tail, owner, tx, rx, next, until, met>>

\* A receiver goes: it is not counted any more, and reads what still counts
\* it, up to the tail of this moment.
DropReceiver(r) ==
    /\ rx[r] = "live" /\ pc[r] = "idle" /\ r \notin pending
    /\ Free
    /\ rx' = [rx EXCEPT ![r] = "dropping"]
    /\ tail' = [tail EXCEPT !.cnt = @ - 1]
    /\ until' = [until EXCEPT ![r] = tail.pos]
    /\ Goto(r, "drain")
    /\ UNCHANGED <<buffer, owner, waiters, tx, next, mode, pending, woken, met>>

Drain(r) == pc[r] = "drain" /\ next[r] < until[r] /\ Look(r, "drop")

Gone(r) ==
    /\ \/ pc[r] = "gone"
       \/ pc[r] = "drain" /\ next[r] >= until[r]
    /\ rx' = [rx EXCEPT ![r] = "none"]
    /\ next' = [next EXCEPT ![r] = 0]
    /\ until' = [until EXCEPT ![r] = 0]
    /\ mode' = [mode EXCEPT ![r] = "none"]
    /\ Goto(r, "idle")
    /\ UNCHANGED <<buffer, tail, owner, waiters, tx, pending, woken, met>>

-----------------------------------------------------------------------------

SenderStep(s) == WriteSlot(s) \/ CloseChannel(s)

ReceiverStep(r) ==
    \/ Slow(r)
    \/ CloneValue(r)
    \/ DropGuard(r)
    \/ pc[r] = "unqueue" /\ DropRecv(r)
    \/ Drain(r)
    \/ Gone(r)

\* All handles are gone.
Finished ==
    /\ \A s \in Senders : tx[s] \in {"none", "gone"}
    /\ \A r \in Receivers : rx[r] = "none"
    /\ UNCHANGED vars

Next ==
    \/ \E s \in Senders :
          \/ CloneSender(s)
          \/ Send(s)
          \/ DropSender(s)
          \/ SenderStep(s)
    \/ \E r \in Receivers :
          \/ Subscribe(r)
          \/ PollRecv(r)
          \/ TryRecv(r)
          \/ DropRecv(r)
          \/ DropReceiver(r)
          \/ ReceiverStep(r)
    \/ Finished

Spec == Init /\ [][Next]_vars

\* Calls that began go on; locks that others take too are granted in the end
\* (SF); a task that was woken polls.
Fairness ==
    /\ \A s \in Senders : SF_vars(SenderStep(s))
    /\ \A r \in Receivers :
        /\ SF_vars(ReceiverStep(r))
        /\ WF_vars(r \in woken /\ PollRecv(r))

FairSpec == Spec /\ Fairness

-----------------------------------------------------------------------------

TypeOK ==
    /\ \A i \in 0 .. Cap - 1 : buffer[i].rem \in 0 .. MaxRem
    /\ tail.cnt \in 0 .. Cardinality(Receivers)
    /\ owner \in Senders \cup {Nobody}
    /\ next \in [Receivers -> 0 .. MaxPos + 1]
    /\ pending \cup woken \subseteq Receivers

\* The value in the slot of a guard is that of the position its receiver asked
\* for, not a later one and not an empty slot, which recv reports as Closed.
Shown(r) == buffer[Idx(next[r] - 1)].val = next[r] - 1

\* A guard that is about to clone shows its value, unless the slot has got the
\* marker of a close that fell into the drop of another receiver; and no drop
\* meets the panic of line 1052.
ValueInTurn ==
    \A r \in Receivers :
        /\ pc[r] = "clone" => Shown(r) \/ (met /\ buffer[Idx(next[r] - 1)].closed)
        /\ pc[r] # "panic"

\* "Each sent value is seen by all consumers" (line 1), and "once a receiver has
\* received all values retained by the channel, the next call to recv will
\* return with Closed" (lines 50-51), not before.  A receiver that is dropped is
\* not counted by the close that follows (line 1039), but looks at the slots up
\* to its until, and gives back a look that is another's (lines 862-866).
EveryValueSeen == \A r \in Receivers : pc[r] = "clone" => Shown(r)

\* Receivers that have not yet read the value at position p and count for it
Owing(p) == {r \in Receivers :
               \/ rx[r] = "live" /\ next[r] <= p
               \/ rx[r] = "dropping" /\ next[r] <= p /\ p < until[r]
               \/ pc[r] \in {"clone", "release"} /\ next[r] = p + 1}

\* "Once all receivers have received a clone of the value, the value is
\* released" (line 12): rem is the number of those who owe a look, whoever
\* subscribes, lags, cancels or goes meanwhile, and the value is there for as
\* long as it is not zero.  The slot that the close has marked is not claimed.
RemExact ==
    \A i \in 0 .. Cap - 1 :
        buffer[i].pos >= 0 /\ ~buffer[i].closed =>
            /\ buffer[i].rem = Cardinality(Owing(buffer[i].pos))
            /\ buffer[i].val = IF buffer[i].rem = 0 THEN Absent
                                                    ELSE buffer[i].pos

\* A receiver moves by one position, or was told that it lagged: then all it
\* skips is overwritten, and where it goes on is still there (the oldest), but
\* for a close that fell into the drop of another receiver.
Kept(p) == \E i \in 0 .. Cap - 1 : buffer[i].val = p /\ buffer[i].rem > 0
LagIsHonest ==
    [][\A r \in Receivers :
          rx[r] = "live" /\ rx'[r] = "live" /\ next'[r] # next[r] =>
             \/ next'[r] = next[r] + 1
             \/ /\ next'[r] > next[r]
                /\ \A p \in next[r] .. next'[r] - 1 : ~Kept(p)
                /\ Kept(next'[r]) \/ met]_vars

\* A receiver that waits is woken by the next value and by the close.
Heard ==
    \A r \in Receivers :
        (r \in pending /\ next[r] < tail.pos) ~> (r \notin pending)

\* Both at once: every receiver gets every value, and none is kept for nobody.
SlotsSound == ValueInTurn /\ RemExact
=============================================================================
