--------------------------- MODULE UnboundedProofs ---------------------------
(***************************************************************************)
(* Three invariants of the unbounded channel, for any number of senders,   *)
(* wakers and messages.  None is inductive.  That a thread which enters    *)
(* finds the waker cell free follows from what the two bits of             *)
(* AtomicWaker::state say of the threads inside; that nobody sleeps        *)
(* through the close, from what a sender in closed() has already seen; and *)
(* that the receiver is woken, from who holds its waker at each step.      *)
(***************************************************************************)
EXTENDS Unbounded, FiniteSetTheorems, TLAPS

\* From the fetch_or or the compare_exchange that takes the cell to the
\* operation that gives it back.
Waking      == {"take", "clear"}
Registering == {"store", "unlock", "untake", "swap"}

LockInv ==
    /\ pc = [t \in Threads |-> pc[t]]
    /\ state \subseteq {"REGISTERING", "WAKING"}
    /\ "REGISTERING" \in state <=> At(Rx, Registering)
    /\ At(Rx, {"untake", "swap"}) => "WAKING" \in state
    /\ \A s \in Senders : ~At(s, Registering)
    /\ \A t \in Threads : At(t, Waking) => "WAKING" \in state /\ "REGISTERING" \notin state
    /\ \A t, u \in Threads : At(t, Waking) /\ At(u, Waking) => t = u

\* Nobody is inside when the channel is made.
LEMMA LockInit == Init => LockInv
BY UnboundedAssumption DEF Init, LockInv, Threads, At, Waking, Registering

\* The invariant has it that the cell is used by one thread.
LEMMA LockSuffices == LockInv => CellExclusive
BY UnboundedAssumption DEF LockInv, CellExclusive, Threads, At, Waking, Registering

\* A thread that is not inside and does not enter leaves the bits as they say.
LEMMA Outside ==
    ASSUME LockInv, NEW t \in Threads, NEW place,
           ~At(t, Waking \cup Registering), place \notin Waking \cup Registering,
           Go(t, place), UNCHANGED state
    PROVE  LockInv'
BY UnboundedAssumption DEF LockInv, Threads, At, Go, Waking, Registering

\* Every step of a sender, with what it does to the two bits.
LEMMA SenderKeeps ==
    ASSUME LockInv, NEW s \in Senders, SenderStep(s) \/ SenderCall(s)
    PROVE  LockInv'
<1> USE UnboundedAssumption DEF Threads
<1>1. s \in Threads
  OBVIOUS
<1>2. CASE SetWaking(s)
  BY <1>2 DEF SetWaking, LockInv, At, Go, Waking, Registering
<1>3. CASE TakeWaker(s)
  BY <1>3 DEF TakeWaker, LockInv, At, Go, Waking, Registering
<1>4. CASE ClearWaking(s)
  BY <1>4 DEF ClearWaking, LockInv, At, Go, Waking, Registering
<1>5. CASE EndWake(s)
  BY <1>5, <1>1 DEF EndWake, waker, LockInv, At, Go, Waking, Registering
<1>6. CASE ClaimSlot(s)
  BY <1>6, <1>1, Outside DEF ClaimSlot, waker, At, Waking, Registering
<1>7. CASE WriteSlot(s)
  BY <1>7, <1>1, Outside DEF WriteSlot, waker, At, Waking, Registering
<1>8. CASE ClaimLastSlot(s)
  BY <1>8, <1>1, Outside DEF ClaimLastSlot, waker, At, Waking, Registering
<1>9. CASE TxClose(s)
  BY <1>9, <1>1, Outside DEF TxClose, waker, At, Waking, Registering
<1>10. CASE LookClosed(s)
  BY <1>10, <1>1, Outside DEF LookClosed, waker, At, Waking, Registering
<1>11. CASE PollNotified(s)
  BY <1>11, <1>1 DEF PollNotified, waker, LockInv, At, Go, Waking, Registering
<1>12. CASE IncNumMessages(s)
  BY <1>12, <1>1, Outside DEF IncNumMessages, waker, At, Waking, Registering
<1>13. CASE DropTx(s)
  BY <1>13, <1>1 DEF DropTx, waker, LockInv, At, Go, Waking, Registering
<1>14. CASE Listen(s)
  BY <1>14, <1>1, Outside DEF Listen, waker, At, Waking, Registering
<1>15. CASE CancelClosed(s)
  BY <1>15, <1>1, Outside DEF CancelClosed, waker, At, Waking, Registering
<1>16. CASE \E new \in Senders : CloneTx(s, new)
  <2> PICK new \in Senders : CloneTx(s, new)
    BY <1>16
  <2> new \in Threads
    OBVIOUS
  <2> QED
    BY Outside DEF CloneTx, waker, At, Waking, Registering
<1> QED
  BY <1>2, <1>3, <1>4, <1>5, <1>6, <1>7, <1>8, <1>9, <1>10, <1>11, <1>12, <1>13, <1>14, <1>15, <1>16
  DEF SenderStep, SenderCall, Wake

\* Every step of the receiver.
LEMMA ReceiverKeeps ==
    ASSUME LockInv, ReceiverStep \/ ReceiverCall
    PROVE  LockInv'
<1> USE UnboundedAssumption DEF Threads
<1>1. Rx \in Threads
  OBVIOUS
<1>2. CASE SetWaking(Rx)
  BY <1>2 DEF SetWaking, LockInv, At, Go, Waking, Registering
<1>3. CASE TakeWaker(Rx)
  BY <1>3 DEF TakeWaker, LockInv, At, Go, Waking, Registering
<1>4. CASE ClearWaking(Rx)
  BY <1>4 DEF ClearWaking, LockInv, At, Go, Waking, Registering
<1>5. CASE EndWake(Rx)
  BY <1>5, <1>1 DEF EndWake, waker, LockInv, At, Go, Waking, Registering
<1>6. CASE Register
  BY <1>6 DEF Register, LockInv, At, Go, Waking, Registering
<1>7. CASE StoreWaker
  BY <1>7 DEF StoreWaker, LockInv, At, Go, Waking, Registering
<1>8. CASE Unlock
  BY <1>8 DEF Unlock, LockInv, At, Go, Waking, Registering
<1>9. CASE UntakeWaker
  BY <1>9 DEF UntakeWaker, LockInv, At, Go, Waking, Registering
<1>10. CASE SwapWaiting
  BY <1>10 DEF SwapWaiting, LockInv, At, Go, Waking, Registering
<1>11. CASE NotifyWaiters
  BY <1>11 DEF NotifyWaiters, waker, LockInv, At, Waking, Registering
<1>12. CASE PopValue
  BY <1>12, <1>1 DEF PopValue, waker, LockInv, At, Go, Waking, Registering
<1>13. CASE AddPermit
  BY <1>13, <1>1 DEF AddPermit, waker, LockInv, At, Go, Waking, Registering
<1>14. CASE PopClosed
  BY <1>14, <1>1, Outside DEF PopClosed, waker, At, Waking, Registering
<1>15. CASE PopNothing
  BY <1>15, <1>1 DEF PopNothing, waker, LockInv, At, Go, Waking, Registering
<1>16. CASE TryPop
  BY <1>16, <1>1 DEF TryPop, waker, LockInv, At, Go, Waking, Registering
<1>17. CASE EndPoll
  BY <1>17, <1>1, Outside DEF EndPoll, waker, At, Waking, Registering
<1>18. CASE CloseSemaphore
  BY <1>18, <1>1 DEF CloseSemaphore, waker, LockInv, At, Go, Waking, Registering
<1>19. CASE EndDrain
  BY <1>19, <1>1, Outside DEF EndDrain, waker, At, Waking, Registering
<1>20. CASE DropRx
  BY <1>20, <1>1, Outside DEF DropRx, waker, At, Waking, Registering
<1>21. CASE \E w \in Wakers : Poll(w)
  BY <1>21, <1>1, Outside DEF Poll, waker, At, Waking, Registering
<1>22. CASE TryRecv
  BY <1>22, <1>1, Outside DEF TryRecv, waker, At, Waking, Registering
<1>23. CASE Close
  BY <1>23, <1>1, Outside DEF Close, waker, At, Waking, Registering
<1> QED
  BY <1>2, <1>3, <1>4, <1>5, <1>6, <1>7, <1>8, <1>9, <1>10, <1>11, <1>12, <1>13, <1>14, <1>15, <1>16,
     <1>17, <1>18, <1>19, <1>20, <1>21, <1>22, <1>23
  DEF ReceiverStep, ReceiverCall, Wake

LEMMA LockStep == LockInv /\ [Next]_vars => LockInv'
<1> SUFFICES ASSUME LockInv, [Next]_vars PROVE LockInv'
  OBVIOUS
<1>1. CASE \E s \in Senders : SenderStep(s) \/ SenderCall(s)
  BY <1>1, SenderKeeps
<1>2. CASE ReceiverStep \/ ReceiverCall
  BY <1>2, ReceiverKeeps
<1>3. CASE UNCHANGED vars
  BY <1>3 DEF vars, waker, LockInv, At
<1> QED
  BY <1>1, <1>2, <1>3 DEF Next

\* AtomicWaker's promise (atomic_waker.rs:54): whatever senders wake while the
\* receiver registers, one thread at a time uses the cell of the waker.
THEOREM CellHasOneUser == Spec => []CellExclusive
<1>1. Spec => []LockInv
  BY LockInit, LockStep, PTL DEF Spec
<1> QED
  BY <1>1, LockSuffices, PTL


-----------------------------------------------------------------------------
\* What a sender in closed() has seen of the close, and of what it sleeps on.
CloseInv ==
    /\ pc = [t \in Threads |-> pc[t]] /\ seen = [t \in Threads |-> seen[t]]
    /\ calls \in Nat
    /\ calls > 0 \/ At(Rx, {"notify", "dropnotify"}) => closing
    /\ \A s \in Senders :
          /\ At(s, {"look"}) => seen[s] \in 0..calls
          /\ At(s, {"await"}) => seen[s] = 0
          /\ At(s, {"asleep"}) => calls = 0

\* The channel begins without listeners.
LEMMA CloseInit == Init => CloseInv
BY UnboundedAssumption DEF Init, CloseInv, Threads, At

\* Every step of a sender: only those of closed() matter.
LEMMA SenderListens ==
    ASSUME CloseInv, NEW s \in Senders, SenderStep(s) \/ SenderCall(s)
    PROVE  CloseInv'
<1> USE UnboundedAssumption DEF Threads
<1>1. s \in Threads
  OBVIOUS
<1>2. CASE Listen(s)
  <2>1. seen'[s] \in 0..calls' /\ ~At(s, {"await", "asleep"})'
    BY <1>1, <1>2 DEF Listen, CloseInv, At, Go, See
  <2>2. \A q \in Senders : q # s => pc'[q] = pc[q] /\ seen'[q] = seen[q]
    BY <1>2 DEF Listen, CloseInv, At, Go, See
  <2>3. pc' = [t \in Threads |-> pc'[t]] /\ seen' = [t \in Threads |-> seen'[t]] /\ pc'[Rx] = pc[Rx]
    BY <1>2 DEF Listen, CloseInv, At, Go, See
  <2> QED
    BY <1>2, <2>1, <2>2, <2>3 DEF Listen, word, CloseInv, At
<1>3. CASE LookClosed(s)
  BY <1>3 DEF LookClosed, word, CloseInv, At, Go, See
<1>4. CASE PollNotified(s)
  BY <1>4 DEF PollNotified, word, CloseInv, At, Go, See
<1>5. CASE CancelClosed(s)
  BY <1>5 DEF CancelClosed, word, CloseInv, At, Go, See
<1>6. CASE \E new \in Senders : CloneTx(s, new)
  <2> PICK new \in Senders : CloneTx(s, new)
    BY <1>6
  <2> QED
    BY DEF CloneTx, word, local, CloseInv, At, Go
<1>7. CASE ClaimSlot(s)
  BY <1>7, <1>1 DEF ClaimSlot, word, local, CloseInv, At, Go, See
<1>8. CASE WriteSlot(s)
  BY <1>8, <1>1 DEF WriteSlot, word, local, CloseInv, At, Go, See
<1>9. CASE ClaimLastSlot(s)
  BY <1>9, <1>1 DEF ClaimLastSlot, word, local, CloseInv, At, Go, See
<1>10. CASE TxClose(s)
  BY <1>10, <1>1 DEF TxClose, word, local, CloseInv, At, Go, See
<1>11. CASE SetWaking(s)
  BY <1>11, <1>1 DEF SetWaking, word, local, CloseInv, At, Go, See
<1>12. CASE TakeWaker(s)
  BY <1>12, <1>1 DEF TakeWaker, word, local, CloseInv, At, Go, See
<1>13. CASE ClearWaking(s)
  BY <1>13, <1>1 DEF ClearWaking, word, local, CloseInv, At, Go, See
<1>14. CASE EndWake(s)
  BY <1>14, <1>1 DEF EndWake, word, local, CloseInv, At, Go, See
<1>15. CASE IncNumMessages(s)
  BY <1>15, <1>1 DEF IncNumMessages, word, local, CloseInv, At, Go, See
<1>16. CASE DropTx(s)
  BY <1>16, <1>1 DEF DropTx, word, local, CloseInv, At, Go, See
<1> QED
  BY <1>2, <1>3, <1>4, <1>5, <1>6, <1>7, <1>8, <1>9, <1>10, <1>11, <1>12, <1>13, <1>14, <1>15, <1>16
  DEF SenderStep, SenderCall, Wake

\* Every step of the receiver: the close comes before the notification.
LEMMA ReceiverNotifies ==
    ASSUME CloseInv, ReceiverStep \/ ReceiverCall
    PROVE  CloseInv'
<1> USE UnboundedAssumption DEF Threads
<1>1. Rx \in Threads
  OBVIOUS
<1>2. CASE CloseSemaphore
  BY <1>2 DEF CloseSemaphore, local, CloseInv, At, Go
<1>3. CASE NotifyWaiters
  BY <1>3 DEF NotifyWaiters, word, local, CloseInv, At
<1>4. CASE \E w \in Wakers : Poll(w)
  <2> PICK w \in Wakers : Poll(w)
    BY <1>4
  <2> QED
    BY <1>1 DEF Poll, word, local, CloseInv, At, Go
<1>5. CASE PopValue
  BY <1>5, <1>1 DEF PopValue, word, local, CloseInv, At, Go, See
<1>6. CASE AddPermit
  BY <1>6, <1>1 DEF AddPermit, word, local, CloseInv, At, Go, See
<1>7. CASE PopClosed
  BY <1>7, <1>1 DEF PopClosed, word, local, CloseInv, At, Go, See
<1>8. CASE PopNothing
  BY <1>8, <1>1 DEF PopNothing, word, local, CloseInv, At, Go, See
<1>9. CASE TryPop
  BY <1>9, <1>1 DEF TryPop, word, local, CloseInv, At, Go, See
<1>10. CASE EndPoll
  BY <1>10, <1>1 DEF EndPoll, word, local, CloseInv, At, Go, See
<1>11. CASE Register
  BY <1>11, <1>1 DEF Register, word, local, CloseInv, At, Go, See
<1>12. CASE StoreWaker
  BY <1>12, <1>1 DEF StoreWaker, word, local, CloseInv, At, Go, See
<1>13. CASE Unlock
  BY <1>13, <1>1 DEF Unlock, word, local, CloseInv, At, Go, See
<1>14. CASE UntakeWaker
  BY <1>14, <1>1 DEF UntakeWaker, word, local, CloseInv, At, Go, See
<1>15. CASE SwapWaiting
  BY <1>15, <1>1 DEF SwapWaiting, word, local, CloseInv, At, Go, See
<1>16. CASE EndDrain
  BY <1>16, <1>1 DEF EndDrain, word, local, CloseInv, At, Go, See
<1>17. CASE DropRx
  BY <1>17, <1>1 DEF DropRx, word, local, CloseInv, At, Go, See
<1>18. CASE TryRecv
  BY <1>18, <1>1 DEF TryRecv, word, local, CloseInv, At, Go, See
<1>19. CASE Close
  BY <1>19, <1>1 DEF Close, word, local, CloseInv, At, Go, See
<1>20. CASE SetWaking(Rx)
  BY <1>20, <1>1 DEF SetWaking, word, local, CloseInv, At, Go, See
<1>21. CASE TakeWaker(Rx)
  BY <1>21, <1>1 DEF TakeWaker, word, local, CloseInv, At, Go, See
<1>22. CASE ClearWaking(Rx)
  BY <1>22, <1>1 DEF ClearWaking, word, local, CloseInv, At, Go, See
<1>23. CASE EndWake(Rx)
  BY <1>23, <1>1 DEF EndWake, word, local, CloseInv, At, Go, See
<1> QED
  BY <1>2, <1>3, <1>4, <1>5, <1>6, <1>7, <1>8, <1>9, <1>10, <1>11, <1>12, <1>13, <1>14, <1>15,
     <1>16, <1>17, <1>18, <1>19, <1>20, <1>21, <1>22, <1>23
  DEF ReceiverStep, ReceiverCall, Wake

LEMMA CloseStep == CloseInv /\ [Next]_vars => CloseInv'
<1> SUFFICES ASSUME CloseInv, [Next]_vars PROVE CloseInv'
  OBVIOUS
<1>1. CASE \E s \in Senders : SenderStep(s) \/ SenderCall(s)
  BY <1>1, SenderListens
<1>2. CASE ReceiverStep \/ ReceiverCall
  BY <1>2, ReceiverNotifies
<1>3. CASE UNCHANGED vars
  BY <1>3 DEF vars, word, local, CloseInv, At
<1> QED
  BY <1>1, <1>2, <1>3 DEF Next

\* closed() asks first and looks then (chan.rs:158), so nobody sleeps in it
\* once the receiver has notified.
THEOREM CloseIsHeard == Spec => []NobodyMissesClose
<1>1. CloseInv => NobodyMissesClose
  BY DEF CloseInv, NobodyMissesClose, At
<1>2. Spec => []CloseInv
  BY CloseInit, CloseStep, PTL DEF Spec
<1> QED
  BY <1>1, <1>2, PTL


-----------------------------------------------------------------------------
(* The list, its counter and its handles: what every step may do to them. *)

SenderPlaces == {"unborn", "idle", "claim", "write", "close", "txclose", "wake", "take", "clear",
                 "woken", "look", "await", "asleep", "gone"}

Typed ==
    /\ pc = [t \in Threads |-> pc[t]]
    /\ \A s \in Senders : pc[s] \in SenderPlaces
    /\ count \in Int /\ tail \in Nat /\ index \in Nat /\ calls \in Nat
    /\ ready \subseteq Nat /\ txClosed \in BOOLEAN
    /\ seen \in [Threads -> Nat]
    /\ taken \in [Threads -> Wakers \cup {None}]
    /\ cell \in Wakers \cup {None} /\ cx \in Wakers \cup {None}
    /\ waiting \in Wakers \cup {None}

\* The counters are moved by one.
LEMMA ByOne == /\ 0 \in Nat /\ 0 \in Int
               /\ \A n \in Nat : n + 1 \in Nat
               /\ \A n \in Int : n + 1 \in Int /\ n - 1 \in Int
OBVIOUS

LEMMA TypedInit == Init => Typed
<1> SUFFICES ASSUME Init PROVE Typed
  OBVIOUS
<1>1. PICK s \in Senders : pc = [t \in Threads |-> IF t \in {s, Rx} THEN "idle" ELSE "unborn"]
  BY DEF Init
<1>2. pc = [t \in Threads |-> pc[t]] /\ \A q \in Senders : pc[q] \in SenderPlaces
  BY <1>1 DEF Threads, SenderPlaces
<1>3. seen \in [Threads -> Nat] /\ taken \in [Threads -> Wakers \cup {None}]
  BY DEF Init
<1> QED
  BY <1>2, <1>3, ByOne DEF Init, Typed


\* A sender's step leaves the receiver, what it holds and what it reads next;
\* but for Tx::clone it moves nobody else.
LEMMA SenderLeaves ==
    ASSUME Typed, NEW s \in Senders, SenderStep(s) \/ SenderCall(s)
    PROVE  /\ Typed'
           /\ pc'[Rx] = pc[Rx] /\ seen'[Rx] = seen[Rx] /\ taken'[Rx] = taken[Rx]
           /\ UNCHANGED <<closing, index, rxClosed, calls, cx, waiting, ended>>
           /\ \A q \in Senders : q # s => seen'[q] = seen[q] /\ taken'[q] = taken[q]
<1> USE UnboundedAssumption
    DEF Threads, word, list, waker, local, task, At, Go, See, Typed, SenderPlaces
<1>1. CASE ClaimSlot(s)
  BY <1>1, ByOne DEF ClaimSlot
<1>2. CASE WriteSlot(s)
  BY <1>2 DEF WriteSlot
<1>3. CASE ClaimLastSlot(s)
  BY <1>3, ByOne DEF ClaimLastSlot
<1>4. CASE TxClose(s)
  BY <1>4 DEF TxClose
<1>5. CASE SetWaking(s)
  BY <1>5 DEF SetWaking
<1>6. CASE TakeWaker(s)
  BY <1>6 DEF TakeWaker
<1>7. CASE ClearWaking(s)
  BY <1>7 DEF ClearWaking
<1>8. CASE EndWake(s)
  BY <1>8 DEF EndWake
<1>9. CASE LookClosed(s)
  BY <1>9 DEF LookClosed
<1>10. CASE PollNotified(s)
  BY <1>10 DEF PollNotified
<1>11. CASE IncNumMessages(s)
  BY <1>11, ByOne DEF IncNumMessages
<1>12. CASE DropTx(s)
  BY <1>12 DEF DropTx
<1>13. CASE Listen(s)
  BY <1>13 DEF Listen
<1>14. CASE CancelClosed(s)
  BY <1>14 DEF CancelClosed
<1>15. CASE \E new \in Senders : CloneTx(s, new)
  BY <1>15 DEF CloneTx
<1> QED
  BY <1>1, <1>2, <1>3, <1>4, <1>5, <1>6, <1>7, <1>8, <1>9, <1>10, <1>11, <1>12, <1>13, <1>14, <1>15
  DEF SenderStep, SenderCall, Wake

\* The receiver leaves what senders have written and where they are, except
\* that a notification ends the sleep of those in closed().
LEMMA ReceiverLeaves ==
    ASSUME Typed, ReceiverStep \/ ReceiverCall
    PROVE  /\ Typed'
           /\ UNCHANGED <<tail, ready, txClosed, txCount>>
           /\ \A s \in Senders :
                 /\ pc'[s] = pc[s] \/ (pc[s] = "asleep" /\ pc'[s] = "idle")
                 /\ seen'[s] = seen[s] /\ taken'[s] = taken[s]
<1> USE UnboundedAssumption
    DEF Threads, word, list, waker, local, task, At, Go, See, Typed, SenderPlaces
<1>1. CASE PopValue
  BY <1>1, ByOne DEF PopValue
<1>2. CASE AddPermit
  BY <1>2, ByOne DEF AddPermit
<1>3. CASE PopClosed
  BY <1>3 DEF PopClosed
<1>4. CASE PopNothing
  BY <1>4 DEF PopNothing
<1>5. CASE TryPop
  BY <1>5 DEF TryPop
<1>6. CASE EndPoll
  BY <1>6 DEF EndPoll
<1>7. CASE SetWaking(Rx)
  BY <1>7 DEF SetWaking
<1>8. CASE TakeWaker(Rx)
  BY <1>8 DEF TakeWaker
<1>9. CASE ClearWaking(Rx)
  BY <1>9 DEF ClearWaking
<1>10. CASE EndWake(Rx)
  BY <1>10 DEF EndWake
<1>11. CASE Register
  BY <1>11 DEF Register
<1>12. CASE StoreWaker
  BY <1>12 DEF StoreWaker
<1>13. CASE Unlock
  BY <1>13 DEF Unlock
<1>14. CASE UntakeWaker
  BY <1>14 DEF UntakeWaker
<1>15. CASE SwapWaiting
  BY <1>15 DEF SwapWaiting
<1>16. CASE CloseSemaphore
  BY <1>16 DEF CloseSemaphore
<1>17. CASE NotifyWaiters
  BY <1>17 DEF NotifyWaiters
<1>18. CASE EndDrain
  BY <1>18 DEF EndDrain
<1>19. CASE DropRx
  BY <1>19 DEF DropRx
<1>20. CASE \E w \in Wakers : Poll(w)
  BY <1>20 DEF Poll
<1>21. CASE TryRecv
  BY <1>21 DEF TryRecv
<1>22. CASE Close
  BY <1>22 DEF Close
<1> QED
  BY <1>1, <1>2, <1>3, <1>4, <1>5, <1>6, <1>7, <1>8, <1>9, <1>10, <1>11,
     <1>12, <1>13, <1>14, <1>15, <1>16, <1>17, <1>18, <1>19, <1>20, <1>21, <1>22
  DEF ReceiverStep, ReceiverCall, Wake

-----------------------------------------------------------------------------
(* The handles: who may still send, and who closes the list. *)

Alive   == {s \in Senders : ~At(s, {"unborn", "gone"})}
Closing == {"close", "txclose"}
Leaving == Closing \cup {"wake", "take", "clear", "woken"}

\* While handles are left nobody closes the list; after the last drop its
\* sender alone is there, and the list is closed once it has done so.
HandleInv ==
    \/ /\ txCount = Cardinality(Alive) /\ txCount > 0
       /\ ~txClosed
       /\ \A s \in Senders : ~At(s, Closing)
    \/ /\ txCount = 0
       /\ \A s, q \in Alive : s = q
       /\ \A s \in Alive : At(s, Leaving)
       /\ txClosed <=> \A s \in Senders : ~At(s, Closing)

LEMMA AliveFinite == IsFiniteSet(Alive) /\ Cardinality(Alive) \in Nat
<1>1. Alive \in SUBSET Senders
  BY DEF Alive
<1> QED
  BY <1>1, UnboundedAssumption, FS_Subset, FS_CardinalityType

LEMMA HandleInit == Init => HandleInv
<1> SUFFICES ASSUME Init PROVE HandleInv
  OBVIOUS
<1>1. PICK s \in Senders : pc = [t \in Threads |-> IF t \in {s, Rx} THEN "idle" ELSE "unborn"]
  BY DEF Init
<1>2. Alive = {s}
  BY <1>1, UnboundedAssumption DEF Alive, At, Threads
<1>3. Cardinality(Alive) = 1
  BY <1>2, FS_Singleton
<1> QED
  BY <1>1, <1>3, UnboundedAssumption DEF Init, HandleInv, At, Threads, Closing

\* A sender that is alive and is neither closing the list nor about to, and
\* that does not begin to wake unless it was the last, changes nothing.
LEMMA HandleStays ==
    ASSUME HandleInv, NEW s \in Senders, UNCHANGED <<txCount, txClosed>>,
           \A q \in Senders : q # s => pc'[q] = pc[q],
           ~At(s, {"unborn", "gone"} \cup Closing), ~At(s, {"unborn", "gone"} \cup Closing)',
           At(s, Leaving) => At(s, Leaving)'
    PROVE  HandleInv'
<1>1. Alive' = Alive
  BY DEF Alive, At
<1> QED
  BY <1>1 DEF HandleInv, Alive, At, Closing, Leaving

LEMMA SenderHandles ==
    ASSUME Typed, HandleInv, NEW s \in Senders, SenderStep(s) \/ SenderCall(s)
    PROVE  HandleInv'
<1> USE UnboundedAssumption DEF At, Go, Closing, Leaving, Threads
<1>0. pc = [t \in Threads |-> pc[t]] /\ s \in Threads
  BY DEF Typed, Threads
<1>1. CASE \/ ClaimSlot(s) \/ WriteSlot(s) \/ LookClosed(s) \/ PollNotified(s)
           \/ IncNumMessages(s) \/ Listen(s) \/ CancelClosed(s)
  <2>1. At(s, {"idle", "claim", "write", "look", "await", "asleep"})
    BY <1>1 DEF ClaimSlot, WriteSlot, LookClosed, PollNotified, IncNumMessages, Listen, CancelClosed
  <2>2. At(s, {"idle", "claim", "write", "look", "await", "asleep", "wake"})'
    BY <1>0, <1>1
    DEF ClaimSlot, WriteSlot, LookClosed, PollNotified, IncNumMessages, Listen, CancelClosed
  <2>3. \A q \in Senders : q # s => pc'[q] = pc[q]
    BY <1>0, <1>1
    DEF ClaimSlot, WriteSlot, LookClosed, PollNotified, IncNumMessages, Listen, CancelClosed
  <2>4. UNCHANGED <<txCount, txClosed>>
    BY <1>1 DEF ClaimSlot, WriteSlot, LookClosed, PollNotified, IncNumMessages, Listen, CancelClosed,
       list
  <2> QED
    BY <2>1, <2>2, <2>3, <2>4, HandleStays
<1>2. CASE SetWaking(s) \/ TakeWaker(s) \/ ClearWaking(s)
  <2>1. At(s, {"wake", "take", "clear"}) /\ At(s, {"take", "clear", "woken"})'
    BY <1>0, <1>2 DEF SetWaking, TakeWaker, ClearWaking
  <2>2. \A q \in Senders : q # s => pc'[q] = pc[q]
    BY <1>0, <1>2 DEF SetWaking, TakeWaker, ClearWaking
  <2>3. UNCHANGED <<txCount, txClosed>>
    BY <1>2 DEF SetWaking, TakeWaker, ClearWaking, list
  <2> QED
    BY <2>1, <2>2, <2>3, HandleStays
<1>3. CASE EndWake(s)
  <2>1. /\ At(s, {"woken"}) /\ UNCHANGED <<txCount, txClosed>>
        /\ \A q \in Senders : q # s => pc'[q] = pc[q]
        /\ pc'[s] = IF txCount = 0 THEN "gone" ELSE "idle"
    BY <1>0, <1>3 DEF EndWake, list
  <2>2. CASE txCount = 0
    BY <2>1, <2>2 DEF HandleInv, Alive
  <2>3. CASE txCount # 0
    <3>1. Alive' = Alive
      BY <2>1, <2>3 DEF Alive
    <3> QED
      BY <2>1, <2>3, <3>1 DEF HandleInv
  <2> QED
    BY <2>2, <2>3
<1>4. CASE DropTx(s)
  <2>1. /\ At(s, {"idle"}) /\ txCount' = txCount - 1 /\ txClosed' = txClosed
        /\ \A q \in Senders : q # s => pc'[q] = pc[q]
        /\ pc'[s] = IF txCount = 1 THEN "close" ELSE "gone"
    BY <1>0, <1>4 DEF DropTx, list
  <2>2. txCount = Cardinality(Alive) /\ txCount > 0 /\ s \in Alive
    BY <2>1 DEF HandleInv, Alive
  <2>3. CASE txCount = 1
    <3>1. Alive = {s}
      <4>1. PICK x : Alive = {x}
        BY <2>2, <2>3, AliveFinite, FS_Singleton
      <4> QED
        BY <2>2, <4>1
    <3> QED
      BY <2>1, <2>3, <3>1 DEF HandleInv, Alive
  <2>4. CASE txCount # 1
    <3>1. Alive' = Alive \ {s}
      BY <2>1, <2>4 DEF Alive
    <3>2. Cardinality(Alive') = Cardinality(Alive) - 1
      BY <2>2, <3>1, AliveFinite, FS_RemoveElement
    <3> QED
      BY <2>1, <2>2, <2>4, <3>2, AliveFinite DEF HandleInv
  <2> QED
    BY <2>3, <2>4
<1>5. ASSUME NEW new \in Senders, CloneTx(s, new) PROVE HandleInv'
  <2>1. /\ At(s, {"idle"}) /\ At(new, {"unborn"}) /\ txCount' = txCount + 1 /\ txClosed' = txClosed
        /\ \A q \in Senders : q # new => pc'[q] = pc[q]
        /\ pc'[new] = "idle"
    BY <1>0, <1>5 DEF CloneTx, list, Threads
  <2>2. txCount = Cardinality(Alive) /\ txCount > 0
    BY <2>1 DEF HandleInv, Alive
  <2>3. Alive' = Alive \cup {new} /\ new \notin Alive
    BY <2>1 DEF Alive
  <2>4. Cardinality(Alive') = Cardinality(Alive) + 1
    BY <2>3, AliveFinite, FS_AddElement
  <2> QED
    BY <2>1, <2>2, <2>4, AliveFinite DEF HandleInv
<1>6. CASE ClaimLastSlot(s)
  <2>1. /\ At(s, {"close"}) /\ At(s, {"txclose"})' /\ UNCHANGED <<txCount, txClosed>>
        /\ \A q \in Senders : q # s => pc'[q] = pc[q]
    BY <1>0, <1>6 DEF ClaimLastSlot
  <2>2. Alive' = Alive
    BY <2>1 DEF Alive
  <2> QED
    BY <2>1, <2>2 DEF HandleInv, Alive
<1>7. CASE TxClose(s)
  <2>1. /\ At(s, {"txclose"}) /\ At(s, {"wake"})' /\ txCount' = txCount /\ txClosed' = TRUE
        /\ \A q \in Senders : q # s => pc'[q] = pc[q]
    BY <1>0, <1>7 DEF TxClose
  <2>2. Alive' = Alive
    BY <2>1 DEF Alive
  <2> QED
    BY <2>1, <2>2 DEF HandleInv, Alive
<1> QED
  BY <1>1, <1>2, <1>3, <1>4, <1>5, <1>6, <1>7 DEF SenderStep, SenderCall, Wake

LEMMA ReceiverHandles ==
    ASSUME Typed, HandleInv, ReceiverStep \/ ReceiverCall
    PROVE  HandleInv'
<1>1. Alive' = Alive
  BY ReceiverLeaves DEF Alive, At
<1>2. \A s \in Senders : At(s, Leaving) <=> At(s, Leaving)'
  BY ReceiverLeaves DEF At, Leaving, Closing
<1>3. \A s \in Senders : At(s, Closing) <=> At(s, Closing)'
  BY ReceiverLeaves DEF At, Closing
<1>4. \A s \in Alive : s \in Senders
  BY DEF Alive
<1> QED
  BY <1>1, <1>2, <1>3, <1>4, ReceiverLeaves DEF HandleInv

-----------------------------------------------------------------------------
(* The slots and the counter: what was claimed, written, read and counted.  *)

Claiming == {s \in Senders : At(s, {"claim"})}

\* The last drop claims a slot, in whose block it leaves the mark.
LastClaimed == txClosed \/ \E s \in Senders : At(s, {"txclose"})
Sent        == tail - (IF LastClaimed THEN 1 ELSE 0)
DuePermit   == IF At(Rx, {"permit", "drainpermit"}) THEN 1 ELSE 0

SlotInv ==
    /\ count + index = Sent + Cardinality(Claiming) + DuePermit
    /\ index <= Sent
    /\ \A p \in ready : p < Sent
    /\ \A p \in Nat : p < Sent => p \in ready \/ \E s \in Senders : At(s, {"write"}) /\ seen[s] = p
    /\ \A s \in Senders : At(s, {"write"}) => seen[s] < Sent /\ seen[s] \notin ready
    /\ \A s, q \in Senders : At(s, {"write"}) /\ At(q, {"write"}) /\ seen[s] = seen[q] => s = q

LEMMA ClaimingFinite == IsFiniteSet(Claiming) /\ Cardinality(Claiming) \in Nat
<1>1. Claiming \in SUBSET Senders
  BY DEF Claiming
<1> QED
  BY <1>1, UnboundedAssumption, FS_Subset, FS_CardinalityType

LEMMA SlotInit == Init => SlotInv
<1> SUFFICES ASSUME Init PROVE SlotInv
  OBVIOUS
<1>1. \A t \in Threads : pc[t] \in {"idle", "unborn"}
  BY DEF Init, Threads
<1>2. Claiming = {} /\ ~LastClaimed
  BY <1>1 DEF Claiming, LastClaimed, At, Threads, Init
<1>3. Cardinality(Claiming) = 0
  BY <1>2, FS_EmptySet
<1>4. DuePermit = 0
  BY <1>1 DEF DuePermit, At, Threads
<1> QED
  BY <1>1, <1>2, <1>3, <1>4 DEF Init, SlotInv, Sent, At, Threads

\* A sender's step that writes, claims and closes nothing.
LEMMA SlotStays ==
    ASSUME SlotInv, NEW s \in Senders, UNCHANGED <<count, tail, ready, txClosed, index, pc[Rx]>>,
           \A q \in Senders :
              \/ pc'[q] = pc[q] /\ seen'[q] = seen[q]
              \/ ~At(q, {"claim", "write", "txclose"}) /\ ~At(q, {"claim", "write", "txclose"})'
    PROVE  SlotInv'
<1>1. Claiming' = Claiming
  BY DEF Claiming, At
<1>2. LastClaimed' = LastClaimed
  BY DEF LastClaimed, At
<1>3. Sent' = Sent /\ DuePermit' = DuePermit
  BY <1>2 DEF Sent, DuePermit, At
<1>4. \A q \in Senders : (At(q, {"write"})' <=> At(q, {"write"})) /\ (At(q, {"write"}) => seen'[q] = seen[q])
  BY DEF At
<1> QED
  BY <1>1, <1>3, <1>4 DEF SlotInv

\* Nobody has claimed the last slot while a sender lives to write another.
LEMMA NotLast ==
    ASSUME HandleInv, NEW s \in Senders,
           At(s, {"idle", "claim", "write", "close", "look", "await", "asleep"})
    PROVE  ~LastClaimed
BY DEF HandleInv, LastClaimed, At, Alive, Closing, Leaving

LEMMA SenderSlots ==
    ASSUME Typed, HandleInv, SlotInv, NEW s \in Senders, SenderStep(s) \/ SenderCall(s)
    PROVE  SlotInv'
<1> USE UnboundedAssumption DEF At, Go, See, Threads
<1>0. /\ pc = [t \in Threads |-> pc[t]] /\ seen \in [Threads -> Nat] /\ s \in Threads
      /\ count \in Int /\ tail \in Nat /\ index \in Nat /\ ready \subseteq Nat
      /\ pc'[Rx] = pc[Rx] /\ index' = index
  BY SenderLeaves DEF Typed, Threads
<1>1. CASE \/ SetWaking(s) \/ TakeWaker(s) \/ ClearWaking(s) \/ EndWake(s) \/ DropTx(s)
           \/ LookClosed(s) \/ PollNotified(s) \/ Listen(s) \/ CancelClosed(s)
  <2>1. \A q \in Senders : q # s => pc'[q] = pc[q] /\ seen'[q] = seen[q]
    BY <1>0, <1>1 DEF SetWaking, TakeWaker, ClearWaking, EndWake, DropTx, LookClosed, PollNotified,
       Listen, CancelClosed, local
  <2>2. ~At(s, {"claim", "write", "txclose"}) /\ ~At(s, {"claim", "write", "txclose"})'
    BY <1>0, <1>1 DEF SetWaking, TakeWaker, ClearWaking, EndWake, DropTx, LookClosed, PollNotified,
       Listen, CancelClosed
  <2>3. UNCHANGED <<count, tail, ready, txClosed>>
    BY <1>1 DEF SetWaking, TakeWaker, ClearWaking, EndWake, DropTx, LookClosed, PollNotified,
       Listen, CancelClosed, word, list
  <2>4. \A q \in Senders :
           \/ pc'[q] = pc[q] /\ seen'[q] = seen[q]
           \/ ~At(q, {"claim", "write", "txclose"}) /\ ~At(q, {"claim", "write", "txclose"})'
    BY <2>1, <2>2
  <2> QED
    BY <1>0, <2>3, <2>4, SlotStays
<1>2. ASSUME NEW new \in Senders, CloneTx(s, new) PROVE SlotInv'
  <2>1. /\ \A q \in Senders : q # new => pc'[q] = pc[q]
        /\ seen' = seen /\ pc[new] = "unborn" /\ pc'[new] = "idle"
        /\ UNCHANGED <<count, tail, ready, txClosed>>
    BY <1>0, <1>2 DEF CloneTx, word, list, local, Threads
  <2>2. \A q \in Senders :
           \/ pc'[q] = pc[q] /\ seen'[q] = seen[q]
           \/ ~At(q, {"claim", "write", "txclose"}) /\ ~At(q, {"claim", "write", "txclose"})'
    BY <2>1
  <2> QED
    BY <1>0, <2>1, <2>2, SlotStays
<1>3. CASE IncNumMessages(s)
  <2>1. /\ pc[s] = "idle" /\ pc'[s] = "claim" /\ count' = count + 1
        /\ \A q \in Senders : q # s => pc'[q] = pc[q]
        /\ UNCHANGED <<seen, tail, ready, txClosed>>
    BY <1>0, <1>3 DEF IncNumMessages, list, local
  <2>2. Claiming' = Claiming \cup {s} /\ s \notin Claiming
    BY <2>1 DEF Claiming
  <2>3. Cardinality(Claiming') = Cardinality(Claiming) + 1
    BY <2>2, ClaimingFinite, FS_AddElement
  <2>4. LastClaimed' = LastClaimed
    BY <2>1 DEF LastClaimed
  <2>5. Sent' = Sent /\ Sent \in Int /\ DuePermit' = DuePermit /\ DuePermit \in Int
    BY <1>0, <2>1, <2>4 DEF Sent, DuePermit
  <2>6. \A q \in Senders : (pc'[q] = "write") = (pc[q] = "write")
    BY <2>1
  <2> QED
    BY <1>0, <2>1, <2>3, <2>5, <2>6, ClaimingFinite DEF SlotInv
<1>4. CASE ClaimSlot(s)
  <2>1. /\ pc[s] = "claim" /\ pc'[s] = "write" /\ seen'[s] = tail /\ tail' = tail + 1
        /\ \A q \in Senders : q # s => pc'[q] = pc[q] /\ seen'[q] = seen[q]
        /\ UNCHANGED <<count, ready, txClosed>>
    BY <1>0, <1>4 DEF ClaimSlot, word
  <2>2. Claiming' = Claiming \ {s} /\ s \in Claiming
    BY <2>1 DEF Claiming
  <2>3. Cardinality(Claiming') = Cardinality(Claiming) - 1
    BY <2>2, ClaimingFinite, FS_RemoveElement
  <2>4. ~LastClaimed /\ ~LastClaimed'
    <3>1. ~LastClaimed
      BY <2>1, NotLast
    <3> QED
      BY <2>1, <3>1 DEF LastClaimed
  <2>5. Sent = tail /\ Sent' = tail + 1 /\ DuePermit' = DuePermit /\ DuePermit \in Int
    BY <1>0, <2>1, <2>4 DEF Sent, DuePermit
  <2>6. /\ count' + index' = Sent' + Cardinality(Claiming)' + DuePermit'
        /\ index' <= Sent'
        /\ \A p \in ready' : p < Sent'
    BY <1>0, <2>1, <2>3, <2>5, ClaimingFinite DEF SlotInv
  <2>7. ASSUME NEW p \in Nat, p < Sent'
        PROVE  p \in ready' \/ \E q \in Senders : pc'[q] = "write" /\ seen'[q] = p
    <3>1. CASE p = tail
      BY <2>1, <3>1
    <3>2. CASE p < tail
      <4>1. CASE p \in ready
        BY <4>1, <2>1
      <4>2. ASSUME NEW q \in Senders, pc[q] = "write", seen[q] = p
            PROVE  pc'[q] = "write" /\ seen'[q] = p
        BY <4>2, <2>1
      <4> QED
        BY <3>2, <4>1, <4>2, <2>5 DEF SlotInv
    <3> QED
      BY <1>0, <2>5, <2>7, <3>1, <3>2
  <2>8. ASSUME NEW q \in Senders, pc'[q] = "write" PROVE seen'[q] < Sent' /\ seen'[q] \notin ready'
    <3>1. CASE q = s
      BY <1>0, <2>1, <2>5, <3>1 DEF SlotInv
    <3>2. CASE q # s
      BY <1>0, <2>1, <2>5, <2>8, <3>2 DEF SlotInv, Threads
    <3> QED
      BY <3>1, <3>2
  <2>9. ASSUME NEW q \in Senders, NEW u \in Senders, q # u, pc'[q] = "write", pc'[u] = "write"
        PROVE  seen'[q] # seen'[u]
    BY <1>0, <2>1, <2>5, <2>9 DEF SlotInv
  <2> QED
    BY <2>6, <2>7, <2>8, <2>9 DEF SlotInv
<1>5. CASE WriteSlot(s)
  <2>1. /\ pc[s] = "write" /\ pc'[s] = "wake" /\ ready' = ready \cup {seen[s]}
        /\ \A q \in Senders : q # s => pc'[q] = pc[q] /\ seen'[q] = seen[q]
        /\ UNCHANGED <<count, tail, txClosed>>
    BY <1>0, <1>5 DEF WriteSlot, word
  <2>2. Claiming' = Claiming /\ LastClaimed' = LastClaimed
    BY <2>1 DEF Claiming, LastClaimed
  <2>3. Sent' = Sent /\ DuePermit' = DuePermit
    BY <1>0, <2>1, <2>2 DEF Sent, DuePermit
  <2>4. /\ count' + index' = Sent' + Cardinality(Claiming)' + DuePermit'
        /\ index' <= Sent'
        /\ \A p \in ready' : p < Sent'
    BY <1>0, <2>1, <2>2, <2>3 DEF SlotInv
  <2>5. ASSUME NEW p \in Nat, p < Sent'
        PROVE  p \in ready' \/ \E q \in Senders : pc'[q] = "write" /\ seen'[q] = p
    BY <2>1, <2>3, <2>5 DEF SlotInv
  <2>6. ASSUME NEW q \in Senders, pc'[q] = "write" PROVE seen'[q] < Sent' /\ seen'[q] \notin ready'
    BY <2>1, <2>3, <2>6 DEF SlotInv
  <2>7. ASSUME NEW q \in Senders, NEW u \in Senders, q # u, pc'[q] = "write", pc'[u] = "write"
        PROVE  seen'[q] # seen'[u]
    BY <2>1, <2>7 DEF SlotInv
  <2> QED
    BY <2>4, <2>5, <2>6, <2>7 DEF SlotInv
<1>6. CASE ClaimLastSlot(s)
  <2>1. /\ pc[s] = "close" /\ pc'[s] = "txclose" /\ tail' = tail + 1 /\ seen' = seen
        /\ \A q \in Senders : q # s => pc'[q] = pc[q]
        /\ UNCHANGED <<count, ready, txClosed>>
    BY <1>0, <1>6 DEF ClaimLastSlot, word, local
  <2>2. ~LastClaimed /\ LastClaimed'
    BY <2>1, NotLast DEF LastClaimed
  <2>3. Claiming' = Claiming
    BY <2>1 DEF Claiming
  <2>4. Sent' = Sent /\ DuePermit' = DuePermit
    BY <1>0, <2>1, <2>2 DEF Sent, DuePermit
  <2>5. \A q \in Senders : (pc'[q] = "write") = (pc[q] = "write")
    BY <2>1
  <2> QED
    BY <1>0, <2>1, <2>3, <2>4, <2>5 DEF SlotInv
<1>7. CASE TxClose(s)
  <2>1. /\ pc[s] = "txclose" /\ pc'[s] = "wake" /\ txClosed' = TRUE /\ seen' = seen
        /\ \A q \in Senders : q # s => pc'[q] = pc[q]
        /\ UNCHANGED <<count, ready, tail>>
    BY <1>0, <1>7 DEF TxClose, word, local
  <2>2. LastClaimed /\ LastClaimed'
    BY <2>1 DEF LastClaimed
  <2>3. Claiming' = Claiming
    BY <2>1 DEF Claiming
  <2>4. Sent' = Sent /\ DuePermit' = DuePermit
    BY <1>0, <2>1, <2>2 DEF Sent, DuePermit
  <2>5. \A q \in Senders : (pc'[q] = "write") = (pc[q] = "write")
    BY <2>1
  <2> QED
    BY <1>0, <2>1, <2>3, <2>4, <2>5 DEF SlotInv
<1> QED
  BY <1>1, <1>2, <1>3, <1>4, <1>5, <1>6, <1>7 DEF SenderStep, SenderCall, Wake

\* The receiver reads what is ready, and gives back a permit for it.
LEMMA ReceiverSlots ==
    ASSUME Typed, SlotInv, ReceiverStep \/ ReceiverCall
    PROVE  SlotInv'
<1> USE UnboundedAssumption
<1>0. pc = [t \in Threads |-> pc[t]] /\ count \in Int /\ tail \in Nat /\ index \in Nat
  BY DEF Typed
<1>1. UNCHANGED <<tail, ready, txClosed>> /\ seen \in [Threads -> Nat]
  BY ReceiverLeaves DEF Typed
<1>2. \A s \in Senders : /\ pc'[s] = pc[s] \/ (pc[s] = "asleep" /\ pc'[s] = "idle")
                         /\ seen'[s] = seen[s]
  BY ReceiverLeaves
<1>3. Claiming' = Claiming /\ LastClaimed' = LastClaimed
  BY <1>1, <1>2 DEF Claiming, LastClaimed, At
<1>4. Sent' = Sent /\ Sent \in Int /\ Sent <= tail
  BY <1>0, <1>1, <1>3 DEF Sent
<1>5. \A s \in Senders : At(s, {"write"})' = At(s, {"write"})
  BY <1>2 DEF At
<1>6. /\ \A p \in ready' : p < Sent'
      /\ \A p \in Nat : p < Sent' => p \in ready' \/ \E s \in Senders : At(s, {"write"})' /\ seen'[s] = p
      /\ \A s \in Senders : At(s, {"write"})' => seen'[s] < Sent' /\ seen'[s] \notin ready'
      /\ \A s, q \in Senders :
            At(s, {"write"})' /\ At(q, {"write"})' /\ seen'[s] = seen'[q] => s = q
  BY <1>1, <1>2, <1>4, <1>5 DEF SlotInv
<1>7. CASE PopValue
  <2>1. index' = index + 1 /\ count' = count /\ index \in ready
    BY <1>7 DEF PopValue, Value, word
  <2>2. DuePermit = 0 /\ DuePermit' = 1
    BY <1>0, <1>7 DEF PopValue, DuePermit, At, Go, Threads
  <2> QED
    BY <1>0, <1>3, <1>4, <1>6, <2>1, <2>2, ClaimingFinite DEF SlotInv
<1>8. CASE AddPermit
  <2>1. index' = index /\ count' = count - 1
    BY <1>8 DEF AddPermit, list
  <2>2. DuePermit = 1 /\ DuePermit' = 0
    BY <1>0, <1>8 DEF AddPermit, DuePermit, At, Go, Threads
  <2> QED
    BY <1>0, <1>3, <1>4, <1>6, <2>1, <2>2, ClaimingFinite DEF SlotInv
<1>9. CASE ~PopValue /\ ~AddPermit
  <2> USE <1>9, UnboundedAssumption DEF Threads, At, Go, word, list, DuePermit
  <2>1. index' = index /\ count' = count /\ DuePermit' = DuePermit
    <3>1. CASE PopClosed \/ PopNothing \/ TryPop \/ EndPoll \/ Wake(Rx)
      BY <3>1, <1>0 DEF PopClosed, PopNothing, TryPop, EndPoll, Wake, SetWaking, TakeWaker,
         ClearWaking, EndWake
    <3>2. CASE Register \/ StoreWaker \/ Unlock \/ UntakeWaker \/ SwapWaiting
      BY <3>2, <1>0 DEF Register, StoreWaker, Unlock, UntakeWaker, SwapWaiting
    <3>3. CASE CloseSemaphore \/ NotifyWaiters \/ EndDrain \/ DropRx
      BY <3>3, <1>0 DEF CloseSemaphore, NotifyWaiters, EndDrain, DropRx
    <3>4. CASE (\E w \in Wakers : Poll(w)) \/ TryRecv \/ Close
      BY <3>4, <1>0 DEF Poll, TryRecv, Close
    <3> QED
      BY <3>1, <3>2, <3>3, <3>4 DEF ReceiverStep, ReceiverCall
  <2> QED
    BY <1>3, <1>4, <1>6, <2>1 DEF SlotInv
<1> QED
  BY <1>7, <1>8, <1>9

-----------------------------------------------------------------------------
(* The end: what None and the closed list promise. *)

EndInv ==
    /\ rxClosed => closing \/ At(Rx, {"close", "dropclose"})
    /\ ended => count = 0 /\ (closing \/ txCount = 0)

LEMMA EndInit == Init => EndInv
BY DEF Init, EndInv

\* Who finds the list closed has read every slot of it, and nobody promises
\* or writes any more.
LEMMA ClosedIsEmpty ==
    ASSUME Typed, HandleInv, SlotInv, Closed, ~At(Rx, {"permit", "drainpermit"})
    PROVE  count = 0 /\ txCount = 0
<1>1. txCount = 0 /\ \A s \in Senders : At(s, {"unborn", "gone", "wake", "take", "clear", "woken"})
  BY DEF HandleInv, Closed, At, Alive, Leaving, Closing
<1>2. Claiming = {}
  BY <1>1 DEF Claiming, At
<1>3. Cardinality(Claiming) = 0 /\ DuePermit = 0
  BY <1>2, FS_EmptySet DEF DuePermit
<1>4. tail \in Nat /\ index \in Nat /\ count \in Int
  BY DEF Typed
<1>5. Sent \in Int /\ index <= Sent /\ ~(index < Sent)
  <2>1. ~\E s \in Senders : At(s, {"write"}) /\ seen[s] = index
    BY <1>1 DEF At
  <2> QED
    BY <1>4, <2>1 DEF SlotInv, Sent, Closed, Value
<1> QED
  BY <1>1, <1>3, <1>4, <1>5 DEF SlotInv

LEMMA SenderEnds ==
    ASSUME Typed, HandleInv, EndInv, NEW s \in Senders, SenderStep(s) \/ SenderCall(s)
    PROVE  EndInv'
<1>1. UNCHANGED <<rxClosed, closing, ended>> /\ pc'[Rx] = pc[Rx]
  BY SenderLeaves
<1>2. At(s, {"idle"}) => txCount # 0
  BY DEF HandleInv, At, Alive, Leaving, Closing
<1>3. CASE IncNumMessages(s) \/ DropTx(s) \/ \E new \in Senders : CloneTx(s, new)
  <2>1. At(s, {"idle"})
    BY <1>3 DEF IncNumMessages, DropTx, CloneTx
  <2>2. CASE IncNumMessages(s)
    BY <1>1, <1>2, <2>1, <2>2 DEF IncNumMessages, EndInv, At
  <2>3. CASE DropTx(s) \/ \E new \in Senders : CloneTx(s, new)
    BY <1>1, <1>2, <2>1, <2>3 DEF DropTx, CloneTx, word, EndInv, At
  <2> QED
    BY <1>3, <2>2, <2>3
<1>4. CASE \/ ClaimSlot(s) \/ WriteSlot(s) \/ ClaimLastSlot(s) \/ TxClose(s) \/ SetWaking(s)
           \/ TakeWaker(s) \/ ClearWaking(s) \/ EndWake(s) \/ LookClosed(s) \/ PollNotified(s)
           \/ Listen(s) \/ CancelClosed(s)
  <2>1. UNCHANGED <<count, txCount>>
    BY <1>4 DEF ClaimSlot, WriteSlot, ClaimLastSlot, TxClose, SetWaking, TakeWaker, ClearWaking,
       EndWake, LookClosed, PollNotified, Listen, CancelClosed, word
  <2> QED
    BY <1>1, <2>1 DEF EndInv, At
<1> QED
  BY <1>3, <1>4 DEF SenderStep, SenderCall, Wake

LEMMA ReceiverEnds ==
    ASSUME Typed, HandleInv, SlotInv, EndInv, ReceiverStep \/ ReceiverCall
    PROVE  EndInv'
<1>0. pc = [t \in Threads |-> pc[t]] /\ Rx \in Threads /\ txCount' = txCount
  BY ReceiverLeaves DEF Typed, Threads
<1>1. CASE PopClosed
  <2>1. count = 0 /\ txCount = 0
    BY <1>1, ClosedIsEmpty DEF PopClosed, At
  <2>2. count' = count /\ closing' = closing /\ rxClosed' = rxClosed /\ ~At(Rx, {"close", "dropclose"})
    BY <1>1 DEF PopClosed, word, At
  <2> QED
    BY <1>0, <2>1, <2>2 DEF EndInv
<1>2. CASE EndPoll
  BY <1>0, <1>2 DEF EndPoll, IsOver, EndInv, At, Go, word
<1>3. CASE AddPermit
  <2>1. ~ended
    <3>1. count + index = Sent + Cardinality(Claiming) + 1 /\ index <= Sent
      BY <1>3 DEF AddPermit, SlotInv, DuePermit
    <3>2. Sent \in Int /\ index \in Int /\ count \in Int
      BY DEF Typed, Sent
    <3> QED
      BY <3>1, <3>2, ClaimingFinite DEF EndInv
  <2> QED
    BY <1>0, <1>3, <2>1 DEF AddPermit, EndInv, At, Go, task
<1>4. CASE CloseSemaphore
  BY <1>0, <1>4 DEF CloseSemaphore, EndInv, task
<1>5. CASE Close \/ DropRx
  BY <1>0, <1>5 DEF Close, DropRx, EndInv, At, Go, word, task
<1>6. CASE \/ PopValue \/ PopNothing \/ TryPop \/ Wake(Rx) \/ Register \/ StoreWaker \/ Unlock
           \/ UntakeWaker \/ SwapWaiting \/ NotifyWaiters \/ EndDrain
           \/ (\E w \in Wakers : Poll(w)) \/ TryRecv
  <2>1. UNCHANGED <<count, closing, rxClosed, ended>>
    BY <1>6 DEF PopValue, PopNothing, TryPop, Wake, SetWaking, TakeWaker, ClearWaking, EndWake,
       Register, StoreWaker, Unlock, UntakeWaker, SwapWaiting, NotifyWaiters, EndDrain, Poll, TryRecv,
       word, task
  <2>2. ~At(Rx, {"close", "dropclose"})
    BY <1>6 DEF PopValue, PopNothing, TryPop, Wake, SetWaking, TakeWaker, ClearWaking, EndWake,
       Register, StoreWaker, Unlock, UntakeWaker, SwapWaiting, NotifyWaiters, EndDrain, Poll, TryRecv,
       At
  <2> QED
    BY <1>0, <2>1, <2>2 DEF EndInv
<1> QED
  BY <1>1, <1>2, <1>3, <1>4, <1>5, <1>6 DEF ReceiverStep, ReceiverCall

-----------------------------------------------------------------------------
(* The waker: who is to call the task that waits. *)

Polling == {"pop", "repop", "register", "store", "unlock", "untake", "swap", "pending"}

\* The waker that has to be called when there is something to read: of the
\* poll that has registered it, and of the task that waits.
Due == IF At(Rx, {"repop", "pending"}) THEN cx
       ELSE IF At(Rx, {"idle", "trypop", "permit", "close", "notify"}) THEN waiting ELSE None

Holds(s, w) == At(s, {"clear", "woken"}) /\ taken[s] = w

\* It is in the cell or with a sender that will call it; and when there is
\* something to read, a sender has it or is on its way to the cell.
WakeInv ==
    /\ At(Rx, Polling) => cx # None /\ waiting = None
    /\ At(Rx, {"unlock"}) => cell = cx
    /\ "WAKING" \in state => At(Rx, Registering) \/ \E t \in Threads : At(t, Waking)
    /\ \A t \in Threads : At(t, {"clear"}) => cell = None
    /\ Due \notin awake \cup {None} =>
          /\ cell = Due \/ \E s \in Senders : Holds(s, Due)
          /\ ~At(Rx, {"repop"}) /\ (Value \/ txClosed) =>
                \E s \in Senders : At(s, {"wake", "take"}) \/ Holds(s, Due)

LEMMA WakeInit == Init => WakeInv
<1> SUFFICES ASSUME Init PROVE WakeInv
  OBVIOUS
<1>1. \A t \in Threads : pc[t] \in {"idle", "unborn"}
  BY DEF Init, Threads
<1>2. \A t \in Threads : ~At(t, {"clear"}) /\ ~At(t, Polling)
  BY <1>1 DEF At, Polling
<1>3. Due = None
  BY <1>1 DEF Due, At, Init, Threads
<1> QED
  BY <1>2, <1>3 DEF Init, WakeInv, Threads, At, Polling

\* A sender that does not touch the cell may only set out for it.
LEMMA WakeStays ==
    ASSUME Typed, WakeInv, NEW s \in Senders,
           UNCHANGED <<state, cell, cx, waiting, awake, index, pc[Rx], taken>>,
           \A q \in Senders :
              \/ pc'[q] = pc[q]
              \/ ~At(q, {"wake", "take", "clear", "woken"}) /\ ~At(q, {"take", "clear", "woken"})',
           UNCHANGED <<ready, txClosed>> \/ At(s, {"wake"})'
    PROVE  WakeInv'
<1>1. Due' = Due /\ At(Rx, Polling)' = At(Rx, Polling) /\ At(Rx, {"unlock"})' = At(Rx, {"unlock"})
      /\ At(Rx, {"repop"})' = At(Rx, {"repop"}) /\ At(Rx, Registering)' = At(Rx, Registering)
  BY DEF Due, At, Polling, Registering
<1>2. \A q \in Senders : Holds(q, Due)' = Holds(q, Due)
  BY <1>1 DEF Holds, At
<1>3. \A t \in Threads : At(t, Waking)' = At(t, Waking) /\ At(t, {"clear"})' = At(t, {"clear"})
  BY DEF At, Waking, Threads
<1>4. \A q \in Senders : At(q, {"wake", "take"}) => At(q, {"wake", "take"})'
  BY DEF At
<1>5. At(s, {"wake"})' => At(s, {"wake", "take"})'
  BY DEF At
<1> QED
  BY <1>1, <1>2, <1>3, <1>4, <1>5 DEF WakeInv, Value

\* A sender on its way takes the bit, the waker, gives the bit back and calls.
LEMMA SenderWakes ==
    ASSUME Typed, LockInv, WakeInv, NEW s \in Senders, SenderStep(s) \/ SenderCall(s)
    PROVE  WakeInv'
<1> USE UnboundedAssumption
<1>0. /\ pc = [t \in Threads |-> pc[t]] /\ taken \in [Threads -> Wakers \cup {None}]
      /\ s \in Threads /\ Rx \in Threads
      /\ pc'[Rx] = pc[Rx] /\ UNCHANGED <<index, cx, waiting>>
  BY SenderLeaves DEF Typed, Threads
<1>1. /\ Due' = Due /\ At(Rx, Polling)' = At(Rx, Polling) /\ At(Rx, {"unlock"})' = At(Rx, {"unlock"})
      /\ At(Rx, {"repop"})' = At(Rx, {"repop"}) /\ At(Rx, Registering)' = At(Rx, Registering)
  BY <1>0 DEF Due, At
<1>2. CASE \/ ClaimSlot(s) \/ WriteSlot(s) \/ ClaimLastSlot(s) \/ TxClose(s) \/ LookClosed(s)
           \/ PollNotified(s) \/ IncNumMessages(s) \/ DropTx(s) \/ Listen(s) \/ CancelClosed(s)
  <2>1. UNCHANGED <<state, cell, awake, taken>>
    BY <1>2 DEF ClaimSlot, WriteSlot, ClaimLastSlot, TxClose, LookClosed, PollNotified,
       IncNumMessages, DropTx, Listen, CancelClosed, waker, local, task
  <2>2. \A q \in Senders : q # s => pc'[q] = pc[q]
    BY <1>0, <1>2 DEF ClaimSlot, WriteSlot, ClaimLastSlot, TxClose, LookClosed, PollNotified,
       IncNumMessages, DropTx, Listen, CancelClosed, Go, Threads
  <2>3. ~At(s, {"wake", "take", "clear", "woken"}) /\ ~At(s, {"take", "clear", "woken"})'
    BY <1>0, <1>2 DEF ClaimSlot, WriteSlot, ClaimLastSlot, TxClose, LookClosed, PollNotified,
       IncNumMessages, DropTx, Listen, CancelClosed, Go, At
  <2>4. UNCHANGED <<ready, txClosed>> \/ At(s, {"wake"})'
    BY <1>0, <1>2 DEF ClaimSlot, WriteSlot, ClaimLastSlot, TxClose, LookClosed, PollNotified,
       IncNumMessages, DropTx, Listen, CancelClosed, Go, At, list
  <2> QED
    BY <1>0, <2>1, <2>2, <2>3, <2>4, WakeStays
<1>3. ASSUME NEW new \in Senders, CloneTx(s, new) PROVE WakeInv'
  <2>1. UNCHANGED <<state, cell, awake, taken, ready, txClosed>>
    BY <1>3 DEF CloneTx, waker, local, task, list
  <2>2. \A q \in Senders : q # new => pc'[q] = pc[q]
    BY <1>0, <1>3 DEF CloneTx, Go, Threads
  <2>3. ~At(new, {"wake", "take", "clear", "woken"}) /\ ~At(new, {"take", "clear", "woken"})'
    BY <1>0, <1>3 DEF CloneTx, Go, At, Threads
  <2> QED
    BY <1>0, <2>1, <2>2, <2>3, WakeStays
<1>4. CASE SetWaking(s) \/ TakeWaker(s) \/ ClearWaking(s) \/ EndWake(s)
  <2>1. /\ \A t \in Threads : t # s => pc'[t] = pc[t] /\ taken'[t] = taken[t]
        /\ UNCHANGED <<ready, txClosed>>
    BY <1>0, <1>4 DEF SetWaking, TakeWaker, ClearWaking, EndWake, Go, list, local
  <2>2. Value' = Value
    BY <1>0, <2>1 DEF Value
  <2>3. \A t \in Threads : t # s => /\ At(t, Waking)' = At(t, Waking)
                                    /\ At(t, {"clear"})' = At(t, {"clear"})
                                    /\ At(t, {"wake", "take"})' = At(t, {"wake", "take"})
                                    /\ Holds(t, Due)' = Holds(t, Due)
    BY <1>1, <2>1 DEF At, Holds
  <2>4. Due # None => ~At(Rx, Waking) /\ ~At(Rx, Registering)
    BY DEF Due, At, Waking, Registering
  <2>5. Due = None \/ Due \in Wakers
    BY DEF Due, Typed
  <2>6. \A q \in Senders : q \in Threads
    BY DEF Threads
  <2>7. CASE SetWaking(s)
    <3>1. /\ At(s, {"wake"}) /\ pc'[s] = IF state = {} THEN "take" ELSE "woken"
          /\ state' = state \cup {"WAKING"} /\ UNCHANGED <<cell, awake, taken>>
      BY <1>0, <2>7 DEF SetWaking, Go, task, local
    <3>2. state # {} => "WAKING" \in state \/ At(Rx, Registering)
      BY DEF LockInv
    <3>3. "WAKING" \in state' => At(Rx, Registering)' \/ \E t \in Threads : At(t, Waking)'
      <4>1. CASE state = {}
        BY <1>0, <3>1, <4>1 DEF At, Waking
      <4>2. CASE state # {}
        <5>1. CASE At(Rx, Registering)
          BY <1>1, <5>1
        <5>2. PICK t \in Threads : At(t, Waking) \/ At(Rx, Registering)
          BY <3>2, <4>2, <1>0 DEF WakeInv
        <5>3. At(t, Waking) => t # s
          BY <3>1 DEF At, Waking
        <5> QED
          BY <1>1, <5>2, <5>3, <2>3
      <4> QED
        BY <4>1, <4>2
    <3>4. \A t \in Threads : At(t, {"clear"})' => cell' = None
      BY <2>3, <3>1 DEF WakeInv, At
    <3>5. ASSUME Due \notin awake \cup {None}
          PROVE  /\ cell = Due \/ \E q \in Senders : Holds(q, Due)'
                 /\ ~At(Rx, {"repop"}) /\ (Value \/ txClosed) =>
                       \E q \in Senders : At(q, {"wake", "take"})' \/ Holds(q, Due)'
      <4>1. ~Holds(s, Due)
        BY <3>1 DEF Holds, At
      <4>2. cell = Due \/ \E q \in Senders : Holds(q, Due)'
        BY <2>3, <2>6, <3>5, <4>1 DEF WakeInv
      <4>3. CASE state = {}
        BY <3>1, <4>2, <4>3 DEF At
      <4>4. CASE state # {}
        <5>1. PICK t \in Threads : At(t, Waking)
          BY <2>4, <3>2, <3>5, <4>4 DEF WakeInv
        <5>2. t # s /\ t \in Senders
          BY <2>4, <3>1, <3>5, <5>1 DEF At, Waking, Threads
        <5>3. CASE At(t, {"take"})
          BY <2>1, <4>2, <5>2, <5>3 DEF At, Threads
        <5>4. CASE At(t, {"clear"})
          <6>1. cell = None
            BY <5>4 DEF WakeInv
          <6> QED
            BY <3>5, <4>2, <6>1
        <5> QED
          BY <5>1, <5>3, <5>4 DEF At, Waking
      <4> QED
        BY <4>3, <4>4
    <3> QED
      BY <1>0, <1>1, <2>1, <2>2, <3>1, <3>3, <3>4, <3>5 DEF WakeInv
  <2>8. CASE TakeWaker(s)
    <3>1. /\ At(s, {"take"}) /\ pc'[s] = "clear" /\ taken'[s] = cell /\ cell' = None
          /\ UNCHANGED <<state, awake>>
      BY <1>0, <2>8 DEF TakeWaker, Go, task
    <3>2. ~At(Rx, {"unlock"})
      BY <1>0, <3>1 DEF LockInv, At, Waking, Registering
    <3>3. \E t \in Threads : At(t, Waking)'
      BY <1>0, <3>1 DEF At, Waking
    <3>4. ASSUME Due \notin awake \cup {None}
          PROVE  \E q \in Senders : Holds(q, Due)'
      <4>1. CASE cell = Due
        BY <1>1, <3>1, <4>1 DEF Holds, At
      <4>2. ASSUME NEW q \in Senders, Holds(q, Due) PROVE Holds(q, Due)'
        <5>1. q # s
          BY <3>1, <4>2 DEF Holds, At
        <5> QED
          BY <2>3, <2>6, <4>2, <5>1
      <4> QED
        BY <3>4, <4>1, <4>2 DEF WakeInv
    <3> QED
      BY <1>0, <1>1, <2>1, <2>2, <3>1, <3>2, <3>3, <3>4 DEF WakeInv
  <2>9. CASE ClearWaking(s)
    <3>1. /\ At(s, {"clear"}) /\ pc'[s] = "woken" /\ state' = state \ {"WAKING"}
          /\ UNCHANGED <<cell, taken, awake>>
      BY <1>0, <2>9 DEF ClearWaking, Go, task, local
    <3>2. \A q \in Senders : Holds(q, Due)' = Holds(q, Due)
      BY <1>1, <2>3, <2>6, <3>1 DEF Holds, At
    <3>3. \A q \in Senders : At(q, {"wake", "take"}) => At(q, {"wake", "take"})'
      BY <2>3, <2>6, <3>1 DEF At
    <3>4. \A t \in Threads : At(t, {"clear"})' => At(t, {"clear"})
      BY <2>3, <3>1 DEF At
    <3> QED
      BY <1>0, <1>1, <2>1, <2>2, <3>1, <3>2, <3>3, <3>4 DEF WakeInv
  <2>10. CASE EndWake(s)
    <3>1. /\ At(s, {"woken"}) /\ pc'[s] \in {"gone", "idle"} /\ awake' = awake \cup ({taken[s]} \ {None})
          /\ UNCHANGED <<state, cell>>
      BY <1>0, <2>10 DEF EndWake, Call, Go, waker
    <3>2. ASSUME Due \notin awake' \cup {None}
          PROVE  /\ Due \notin awake
                 /\ \A q \in Senders : Holds(q, Due) => Holds(q, Due)'
      <4>1. Due \notin awake /\ taken[s] # Due
        BY <3>1, <3>2
      <4> QED
        BY <2>3, <2>6, <4>1 DEF Holds
    <3>3. \A q \in Senders : At(q, {"wake", "take"}) => At(q, {"wake", "take"})'
      BY <2>3, <2>6, <3>1 DEF At
    <3>4. \A t \in Threads : /\ At(t, {"clear"})' => At(t, {"clear"})
                             /\ At(t, Waking) => At(t, Waking)'
      BY <2>3, <3>1 DEF At, Waking
    <3> QED
      BY <1>0, <1>1, <2>1, <2>2, <3>1, <3>2, <3>3, <3>4 DEF WakeInv
  <2> QED
    BY <1>4, <2>7, <2>8, <2>9, <2>10
<1> QED
  BY <1>2, <1>3, <1>4 DEF SenderStep, SenderCall, Wake

\* Away from the cell, the receiver's steps leave the waker that is due as it
\* was, or nothing is due: there is a value only if there was one before.
LEMMA WakeStaysDue ==
    ASSUME Typed, WakeInv, ReceiverStep \/ ReceiverCall, UNCHANGED <<state, cell>>,
           ~At(Rx, Waking \cup Registering), ~At(Rx, Waking \cup Registering)',
           At(Rx, Polling)' => cx' # None /\ waiting' = None,
           \/ Due' = None
           \/ /\ Due' = Due /\ awake' = awake
              /\ (Value \/ txClosed)' => (Value \/ txClosed) /\ ~At(Rx, {"repop"})
    PROVE  WakeInv'
<1>1. \A s \in Senders : /\ pc'[s] = pc[s] \/ (pc[s] = "asleep" /\ pc'[s] = "idle")
                         /\ taken'[s] = taken[s]
  BY ReceiverLeaves
<1>2. \A t \in Threads : At(t, Waking)' = At(t, Waking) /\ At(t, {"clear"})' = At(t, {"clear"})
  BY <1>1 DEF At, Waking, Threads
<1>3. \A s \in Senders : At(s, {"wake", "take"})' = At(s, {"wake", "take"})
  BY <1>1 DEF At
<1>4. ~At(Rx, {"unlock"})' /\ ~At(Rx, Registering) /\ ~At(Rx, Registering)'
  BY DEF At, Registering
<1>5. CASE Due' = None
  BY <1>2, <1>4, <1>5 DEF WakeInv
<1>6. CASE Due' # None
  <2>1. \A s \in Senders : Holds(s, Due)' = Holds(s, Due)
    BY <1>1, <1>6 DEF Holds, At
  <2> QED
    BY <1>2, <1>3, <1>4, <1>6, <2>1 DEF WakeInv
<1> QED
  BY <1>5, <1>6

LEMMA ReceiverWakes ==
    ASSUME Typed, LockInv, WakeInv, ReceiverStep \/ ReceiverCall
    PROVE  WakeInv'
<1> USE UnboundedAssumption
<1>0. pc = [t \in Threads |-> pc[t]] /\ Rx \in Threads /\ taken \in [Threads -> Wakers \cup {None}]
  BY DEF Typed, Threads
<1>1. /\ UNCHANGED txClosed /\ ready' = ready
      /\ \A s \in Senders : /\ pc'[s] = pc[s] \/ (pc[s] = "asleep" /\ pc'[s] = "idle")
                            /\ taken'[s] = taken[s]
  BY ReceiverLeaves
<1>2. CASE PopValue
  BY <1>0, <1>1, <1>2, WakeStaysDue
  DEF PopValue, waker, WakeInv, Polling, Due, Value, At, Go, Waking, Registering
<1>3. CASE AddPermit
  BY <1>0, <1>1, <1>3, WakeStaysDue
  DEF AddPermit, waker, list, task, Polling, Due, Value, At, Go, Waking, Registering
<1>4. CASE PopClosed
  BY <1>0, <1>1, <1>4, WakeStaysDue
  DEF PopClosed, waker, WakeInv, Polling, Due, At, Go, Waking, Registering
<1>5. CASE PopNothing
  BY <1>0, <1>1, <1>5, WakeStaysDue
  DEF PopNothing, waker, list, task, WakeInv, Polling, Due, Value, Nothing, At, Go, Waking, Registering
<1>6. CASE TryPop
  BY <1>0, <1>1, <1>6, WakeStaysDue
  DEF TryPop, waker, list, task, Polling, Due, Value, At, Go, Waking, Registering
<1>7. CASE EndPoll
  BY <1>0, <1>1, <1>7, WakeStaysDue
  DEF EndPoll, waker, list, WakeInv, Polling, Due, Value, At, Go, Waking, Registering
<1>8. CASE CloseSemaphore
  BY <1>0, <1>1, <1>8, WakeStaysDue
  DEF CloseSemaphore, waker, list, task, Polling, Due, Value, At, Go, Waking, Registering
<1>9. CASE NotifyWaiters
  BY <1>0, <1>1, <1>9, WakeStaysDue
  DEF NotifyWaiters, waker, list, task, Polling, Due, Value, At, Waking, Registering
<1>10. CASE EndDrain \/ DropRx
  BY <1>0, <1>10, WakeStaysDue
  DEF EndDrain, DropRx, waker, Polling, Due, At, Go, Waking, Registering
<1>11. CASE \E w \in Wakers : Poll(w)
  BY <1>0, <1>11, WakeStaysDue
  DEF Poll, waker, Polling, Due, At, Go, Waking, Registering
<1>12. CASE TryRecv \/ Close
  BY <1>0, <1>1, <1>12, WakeStaysDue
  DEF TryRecv, Close, waker, list, task, Polling, Due, Value, At, Go, Waking, Registering
<1>13. CASE Register \/ StoreWaker \/ Unlock \/ UntakeWaker \/ SwapWaiting
  <2>1. /\ \A s \in Senders : /\ At(s, Waking)' = At(s, Waking)
                              /\ At(s, {"clear"})' = At(s, {"clear"})
        /\ ~At(Rx, {"clear"}) /\ ~At(Rx, {"clear"})' /\ ~At(Rx, Waking)
    BY <1>0, <1>1, <1>13 DEF Register, StoreWaker, Unlock, UntakeWaker, SwapWaiting, At, Go, Waking
  <2>2. At(Rx, Polling) /\ At(Rx, Polling)' /\ UNCHANGED <<cx, waiting, index>>
    BY <1>0, <1>13
    DEF Register, StoreWaker, Unlock, UntakeWaker, SwapWaiting, At, Go, Polling, list, task
  <2>3. "REGISTERING" \in state \/ state = {} => \A t \in Threads : ~At(t, {"clear"})'
    <3>1. "REGISTERING" \in state \/ state = {} => \A t \in Threads : ~At(t, Waking)
      BY DEF LockInv
    <3> QED
      BY <2>1, <3>1 DEF Threads, At, Waking
  <2>4. CASE Register /\ state = {}
    <3>1. state' = {"REGISTERING"} /\ At(Rx, {"store"})' /\ Due' = None
      BY <1>0, <2>4 DEF Register, Go, At, Due
    <3>2. ~At(Rx, {"unlock"})'
      BY <3>1 DEF At
    <3> QED
      BY <2>2, <2>3, <2>4, <3>1, <3>2 DEF WakeInv
  <2>5. CASE Register /\ state # {}
    <3>1. /\ UNCHANGED <<state, cell>> /\ At(Rx, {"repop"})' /\ Due' = cx /\ ~At(Rx, Registering)
          /\ awake' = awake \cup ({cx} \ {None})
      BY <1>0, <2>2, <2>5 DEF Register, Go, At, Due, Call, Registering
    <3>2. ~At(Rx, {"unlock"})' /\ Due' \in awake' \cup {None}
      BY <3>1 DEF At
    <3>3. "WAKING" \in state => \E t \in Threads : At(t, Waking)'
      BY <2>1, <3>1 DEF WakeInv, Threads
    <3>4. \A t \in Threads : At(t, {"clear"})' => cell' = None
      BY <2>1, <3>1 DEF WakeInv, Threads
    <3> QED
      BY <2>2, <3>1, <3>2, <3>3, <3>4 DEF WakeInv
  <2>6. CASE StoreWaker
    <3>1. state' = state /\ cell' = cx /\ At(Rx, {"unlock"})' /\ Due' = None /\ "REGISTERING" \in state
      BY <1>0, <2>6 DEF StoreWaker, Go, At, Due, LockInv, Registering
    <3>2. At(Rx, Registering)'
      BY <3>1 DEF At, Registering
    <3> QED
      BY <2>2, <2>3, <3>1, <3>2 DEF WakeInv
  <2>7. CASE Unlock /\ state = {"REGISTERING"}
    <3>1. state' = {} /\ cell' = cell /\ cell = cx /\ At(Rx, {"repop"})' /\ Due' = cx
      BY <1>0, <2>2, <2>7 DEF Unlock, Go, At, Due, WakeInv
    <3>2. ~At(Rx, {"unlock"})'
      BY <3>1 DEF At
    <3> QED
      BY <2>2, <2>3, <2>7, <3>1, <3>2 DEF WakeInv
  <2>8. CASE Unlock /\ state # {"REGISTERING"}
    <3>1. state' = state /\ cell' = cell /\ At(Rx, {"untake"})' /\ Due' = None /\ "REGISTERING" \in state
      BY <1>0, <2>8 DEF Unlock, Go, At, Due, LockInv, Registering
    <3>2. At(Rx, Registering)' /\ ~At(Rx, {"unlock"})'
      BY <3>1 DEF At, Registering
    <3> QED
      BY <2>2, <2>3, <3>1, <3>2 DEF WakeInv
  <2>9. CASE UntakeWaker
    <3>1. state' = state /\ cell' = None /\ At(Rx, {"swap"})' /\ Due' = None
      BY <1>0, <2>9 DEF UntakeWaker, Go, At, Due
    <3>2. At(Rx, Registering)' /\ ~At(Rx, {"unlock"})'
      BY <3>1 DEF At, Registering
    <3> QED
      BY <2>2, <3>1, <3>2 DEF WakeInv
  <2>10. CASE SwapWaiting
    <3>1. /\ state' = {} /\ cell' = cell /\ At(Rx, {"repop"})' /\ Due' = cx /\ "REGISTERING" \in state
          /\ awake' = awake \cup ({taken[Rx], cx} \ {None})
      BY <1>0, <2>2, <2>10 DEF SwapWaiting, Go, At, Due, LockInv, Registering
    <3>2. ~At(Rx, {"unlock"})' /\ Due' \in awake' \cup {None}
      BY <3>1 DEF At
    <3> QED
      BY <2>2, <2>3, <3>1, <3>2 DEF WakeInv
  <2> QED
    BY <1>13, <2>4, <2>5, <2>6, <2>7, <2>8, <2>9, <2>10
<1>14. CASE Wake(Rx)
  <2>1. \A s \in Senders : At(s, Waking)' = At(s, Waking) /\ At(s, {"clear"})' = At(s, {"clear"})
    BY <1>1 DEF At, Waking
  <2>2. At(Rx, {"wake", "take", "clear", "woken"}) /\ At(Rx, {"take", "clear", "woken", "todo"})'
    BY <1>0, <1>14 DEF Wake, SetWaking, TakeWaker, ClearWaking, EndWake, At, Go
  <2>3. Due' = None /\ ~At(Rx, Polling)' /\ ~At(Rx, {"unlock"})' /\ ~At(Rx, Registering)
    BY <2>2 DEF Due, At, Polling, Registering
  <2>4. CASE SetWaking(Rx)
    <3>1. /\ At(Rx, {"wake"}) /\ pc'[Rx] = IF state = {} THEN "take" ELSE "woken"
          /\ cell' = cell
      BY <1>0, <2>4 DEF SetWaking, Go
    <3>2. \E t \in Threads : At(t, Waking)'
      <4>1. CASE state = {}
        BY <1>0, <3>1, <4>1 DEF At, Waking
      <4>2. CASE state # {}
        <5>1. "WAKING" \in state
          BY <2>3, <4>2 DEF LockInv
        <5>2. PICK t \in Threads : At(t, Waking)
          BY <2>3, <5>1 DEF WakeInv
        <5> QED
          BY <2>1, <3>1, <5>2 DEF At, Waking, Threads
      <4> QED
        BY <4>1, <4>2
    <3>3. ~At(Rx, {"clear"})'
      BY <3>1 DEF At
    <3> QED
      BY <2>1, <2>3, <3>1, <3>2, <3>3 DEF WakeInv, Threads
  <2>5. CASE TakeWaker(Rx)
    <3>1. At(Rx, Waking)' /\ cell' = None
      BY <1>0, <2>5 DEF TakeWaker, Go, At, Waking
    <3> QED
      BY <1>0, <2>3, <3>1 DEF WakeInv
  <2>6. CASE ClearWaking(Rx)
    <3>1. ~At(Rx, {"clear"})' /\ cell' = cell /\ "WAKING" \notin state'
      BY <1>0, <2>6 DEF ClearWaking, Go, At
    <3> QED
      BY <2>1, <2>3, <3>1 DEF WakeInv, Threads
  <2>7. CASE EndWake(Rx)
    <3>1. ~At(Rx, Waking) /\ ~At(Rx, {"clear"})' /\ UNCHANGED <<state, cell>>
      BY <1>0, <2>7 DEF EndWake, Go, At, Waking, waker
    <3> QED
      BY <2>1, <2>3, <3>1 DEF WakeInv, Threads
  <2> QED
    BY <1>14, <2>4, <2>5, <2>6, <2>7 DEF Wake
<1> QED
  BY <1>2, <1>3, <1>4, <1>5, <1>6, <1>7, <1>8, <1>9, <1>10, <1>11, <1>12, <1>13, <1>14
  DEF ReceiverStep, ReceiverCall

-----------------------------------------------------------------------------
(* The channel *)

ChannelInv == Typed /\ LockInv /\ HandleInv /\ SlotInv /\ EndInv /\ WakeInv

LEMMA ChannelStep == ChannelInv /\ [Next]_vars => ChannelInv'
<1> SUFFICES ASSUME ChannelInv, [Next]_vars PROVE ChannelInv'
  OBVIOUS
<1>1. CASE \E s \in Senders : SenderStep(s) \/ SenderCall(s)
  BY <1>1, SenderLeaves, SenderKeeps, SenderHandles, SenderSlots, SenderEnds, SenderWakes
  DEF ChannelInv
<1>2. CASE ReceiverStep \/ ReceiverCall
  BY <1>2, ReceiverLeaves, ReceiverKeeps, ReceiverHandles, ReceiverSlots, ReceiverEnds, ReceiverWakes
  DEF ChannelInv
<1>3. CASE UNCHANGED vars
  <2> USE <1>3 DEF vars, word, list, waker, local, task
  <2>1. Typed' /\ LockInv' /\ EndInv'
    BY DEF ChannelInv, Typed, LockInv, EndInv, At
  <2>2. HandleInv'
    BY DEF ChannelInv, HandleInv, Alive, At
  <2>3. SlotInv'
    BY DEF ChannelInv, SlotInv, Sent, LastClaimed, Claiming, DuePermit, At
  <2>4. WakeInv'
    BY DEF ChannelInv, WakeInv, Due, Holds, Value, At
  <2> QED
    BY <2>1, <2>2, <2>3, <2>4 DEF ChannelInv
<1> QED
  BY <1>1, <1>2, <1>3 DEF Next

LEMMA ChannelSuffices == ChannelInv => ChannelSound
<1> SUFFICES ASSUME ChannelInv PROVE ChannelSound
  OBVIOUS
<1>1. CellExclusive
  BY LockSuffices DEF ChannelInv
<1>2. CountExact
  <2>1. {s \in Senders : At(s, {"claim"})} = Claiming
    BY DEF Claiming
  <2>2. count + index = tail - (IF LastClaimed THEN 1 ELSE 0) + Cardinality(Claiming) + DuePermit
    BY DEF ChannelInv, SlotInv, Sent
  <2> QED
    BY <2>1, <2>2 DEF CountExact, LastClaimed, DuePermit
<1>3. ReceiverNotStuck
  <2> SUFFICES ASSUME waiting \notin awake \cup {None}, At(Rx, {"idle"}), Value \/ txClosed
               PROVE  \E s \in Senders : At(s, {"wake", "take", "clear", "woken"})
    BY DEF ReceiverNotStuck
  <2>1. Due = waiting /\ ~At(Rx, {"repop"})
    BY DEF Due, At
  <2>2. PICK s \in Senders : At(s, {"wake", "take"}) \/ Holds(s, Due)
    BY <2>1 DEF ChannelInv, WakeInv
  <2> QED
    BY <2>2 DEF Holds, At
<1>4. NoneIsFinal
  <2>1. At(Rx, {"pop", "repop"}) => ~At(Rx, {"permit", "drainpermit"})
    BY DEF At
  <2> QED
    BY <2>1, ClosedIsEmpty DEF ChannelInv, EndInv, NoneIsFinal
<1> QED
  BY <1>1, <1>2, <1>3, <1>4 DEF ChannelSound

\* The channel's counter, cell, waker and end agree at every step of every
\* call: add_permit finds a permit to give back (chan.rs:394), recv does not
\* sleep on what it could return, and its None is the end (unbounded.rs:82).
THEOREM ChannelIsSound == Spec => []ChannelSound
<1>1. Init => ChannelInv
  BY TypedInit, LockInit, HandleInit, SlotInit, EndInit, WakeInit DEF ChannelInv
<1>2. Spec => []ChannelInv
  BY <1>1, ChannelStep, PTL DEF Spec
<1> QED
  BY <1>2, ChannelSuffices, PTL
=============================================================================
