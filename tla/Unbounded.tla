------------------------------ MODULE Unbounded ------------------------------
(***************************************************************************)
(* The unbounded channel of sync/mpsc, shared by senders on threads of     *)
(* their own and one receiver: unbounded.rs and chan.rs over the slots of  *)
(* list.rs, with the counter that is the channel's semaphore, the          *)
(* AtomicWaker (atomic_waker.rs) of the receiver, and the Notify by which  *)
(* senders hear that it closed.                                            *)
(*                                                                         *)
(* Every action is one atomic operation, or the use of the one plain cell, *)
(* the AtomicWaker's.  A message is its slot: positions are claimed by     *)
(* fetch_add, become ready one by one and are read in order.  The blocks   *)
(* that hold the slots are not modelled, nor is a waker that panics.  A    *)
(* local that is out of scope has its first value again.                   *)
(***************************************************************************)
EXTENDS Naturals, FiniteSets

CONSTANTS
    Senders,
    Rx,         \* the receiver
    Wakers,     \* the tasks that may poll the receiver
    None,
    MaxSlots,   \* bound of the model: messages that are sent
    MaxCloses   \* bound of the model: calls of close, besides the drop

ASSUME UnboundedAssumption ==
    /\ IsFiniteSet(Senders) /\ Senders # {}
    /\ Rx \notin Senders
    /\ None \notin Wakers
    /\ MaxSlots \in Nat /\ MaxCloses \in Nat

VARIABLES
    count,      \* Chan::semaphore >> 1: messages promised and not yet received
    closing,    \* Chan::semaphore & 1: the receiver has closed
    tail,       \* list::Tx::tail_position
    ready,      \* slots whose ready bit is set
    txClosed,   \* TX_CLOSED, set in the block of the last slot
    txCount,    \* Chan::tx_count
    index,      \* list::Rx::index
    rxClosed,   \* RxFields::rx_closed
    state,      \* AtomicWaker::state: the bits that are set
    cell,       \* AtomicWaker::waker
    calls,      \* notify_rx_closed: calls of notify_waiters
    pc,         \* what a thread does next
    seen,       \* slot it claimed, calls when it listened, tail when it tried
    taken,      \* waker it took out of the cell
    cx,         \* the waker of this poll
    waiting,    \* the waker of the last poll, if that was Pending
    awake,      \* wakers called since the last poll began
    ended       \* history: recv has returned None

Threads == Senders \cup {Rx}

word  == <<count, closing>>
list  == <<tail, ready, txClosed, index>>
waker == <<state, cell>>
local == <<seen, taken>>
task  == <<cx, waiting, awake, ended>>
vars  == <<word, list, txCount, rxClosed, waker, calls, pc, local, task>>

At(t, places) == pc[t] \in places
Go(t, place)  == pc' = [pc EXCEPT ![t] = place]
See(t, value) == seen' = [seen EXCEPT ![t] = value]

\* Waker::wake, of a waker or of nothing.
Call(w) == awake' = awake \cup ({w} \ {None})

-----------------------------------------------------------------------------
(* Variants of the actions below with a mistake in them; nothing uses them. *)

\* recv does not look again after it has registered.
UnlockAndWait ==
    /\ At(Rx, {"unlock"})
    /\ \/ /\ state = {"REGISTERING"}
          /\ state' = {}
          /\ taken' = [taken EXCEPT ![Rx] = None]
          /\ Go(Rx, "pending")
       \/ /\ state # {"REGISTERING"}
          /\ Go(Rx, "untake")
          /\ UNCHANGED <<state, taken>>
    /\ UNCHANGED <<word, list, txCount, rxClosed, cell, calls, seen, task>>

\* register_by_ref leaves the task to the thread that is waking just now.
RegisterOrRely ==
    /\ At(Rx, {"register"})
    /\ \/ state = {} /\ state' = {"REGISTERING"} /\ Go(Rx, "store")
       \/ state # {} /\ Go(Rx, "repop") /\ UNCHANGED state
    /\ UNCHANGED <<word, list, txCount, rxClosed, cell, calls, local, task>>

\* Notified::poll does not compare the calls.
PollWithoutCalls(s) ==
    /\ At(s, {"await"})
    /\ Go(s, "asleep")
    /\ See(s, 0)
    /\ UNCHANGED <<word, list, txCount, rxClosed, waker, calls, taken, task>>

-----------------------------------------------------------------------------
(* UnboundedSender *)

\* inc_num_messages; a closed channel returns the message.
IncNumMessages(s) ==
    /\ At(s, {"idle"})
    /\ ~closing
    /\ tail + Cardinality({q \in Senders : At(q, {"claim"})}) < MaxSlots
    /\ count' = count + 1
    /\ Go(s, "claim")
    /\ UNCHANGED <<closing, list, txCount, rxClosed, waker, calls, local, task>>

\* list::Tx::push, the fetch_add
ClaimSlot(s) ==
    /\ At(s, {"claim"})
    /\ See(s, tail)
    /\ tail' = tail + 1
    /\ Go(s, "write")
    /\ UNCHANGED <<word, ready, txClosed, index, txCount, rxClosed, waker, calls, taken, task>>

\* Block::write, set_ready
WriteSlot(s) ==
    /\ At(s, {"write"})
    /\ ready' = ready \cup {seen[s]}
    /\ See(s, 0)
    /\ Go(s, "wake")
    /\ UNCHANGED <<word, tail, txClosed, index, txCount, rxClosed, waker, calls, taken, task>>

\* Tx::clone
CloneTx(s, new) ==
    /\ At(s, {"idle"}) /\ At(new, {"unborn"})
    /\ txCount' = txCount + 1
    /\ Go(new, "idle")
    /\ UNCHANGED <<word, list, rxClosed, waker, calls, local, task>>

\* Tx::drop: the last sender closes the list.
DropTx(s) ==
    /\ At(s, {"idle"})
    /\ txCount' = txCount - 1
    /\ Go(s, IF txCount = 1 THEN "close" ELSE "gone")
    /\ UNCHANGED <<word, list, rxClosed, waker, calls, local, task>>

\* list::Tx::close, the fetch_add
ClaimLastSlot(s) ==
    /\ At(s, {"close"})
    /\ tail' = tail + 1
    /\ Go(s, "txclose")
    /\ UNCHANGED <<word, ready, txClosed, index, txCount, rxClosed, waker, calls, local, task>>

\* Block::tx_close
TxClose(s) ==
    /\ At(s, {"txclose"})
    /\ txClosed' = TRUE
    /\ Go(s, "wake")
    /\ UNCHANGED <<word, tail, ready, index, txCount, rxClosed, waker, calls, local, task>>

-----------------------------------------------------------------------------
(* AtomicWaker::wake: at the end of a send, of the last drop, and in try_recv *)

\* fetch_or(WAKING): only who finds WAITING has the cell.
SetWaking(t) ==
    /\ At(t, {"wake"})
    /\ state' = state \cup {"WAKING"}
    /\ Go(t, IF state = {} THEN "take" ELSE "woken")
    /\ UNCHANGED <<word, list, txCount, rxClosed, cell, calls, local, task>>

TakeWaker(t) ==
    /\ At(t, {"take"})
    /\ taken' = [taken EXCEPT ![t] = cell]
    /\ cell' = None
    /\ Go(t, "clear")
    /\ UNCHANGED <<word, list, txCount, rxClosed, state, calls, seen, task>>

\* fetch_and(!WAKING)
ClearWaking(t) ==
    /\ At(t, {"clear"})
    /\ state' = state \ {"WAKING"}
    /\ Go(t, "woken")
    /\ UNCHANGED <<word, list, txCount, rxClosed, cell, calls, local, task>>

\* The waker that was taken, if any, is called, and the operation is over.
\* With no handle left this was the last drop.
EndWake(t) ==
    /\ At(t, {"woken"})
    /\ Call(taken[t])
    /\ taken' = [taken EXCEPT ![t] = None]
    /\ Go(t, CASE t = Rx -> "todo" [] t # Rx /\ txCount = 0 -> "gone" [] OTHER -> "idle")
    /\ UNCHANGED <<word, list, txCount, rxClosed, waker, calls, seen, cx, waiting, ended>>

-----------------------------------------------------------------------------
(* Tx::closed *)

\* First ask for a notification ...
Listen(s) ==
    /\ At(s, {"idle"})
    /\ See(s, calls)
    /\ Go(s, "look")
    /\ UNCHANGED <<word, list, txCount, rxClosed, waker, calls, taken, task>>

\* ... then look whether the receiver has closed.
LookClosed(s) ==
    /\ At(s, {"look"})
    /\ IF closing THEN See(s, 0) /\ Go(s, "idle") ELSE Go(s, "await") /\ UNCHANGED seen
    /\ UNCHANGED <<word, list, txCount, rxClosed, waker, calls, taken, task>>

\* Notified::poll, under the lock of the Notify.
PollNotified(s) ==
    /\ At(s, {"await"})
    /\ Go(s, IF calls # seen[s] THEN "idle" ELSE "asleep")
    /\ See(s, 0)
    /\ UNCHANGED <<word, list, txCount, rxClosed, waker, calls, taken, task>>

\* The future of closed() is dropped.
CancelClosed(s) ==
    /\ At(s, {"await", "asleep"})
    /\ See(s, 0)
    /\ Go(s, "idle")
    /\ UNCHANGED <<word, list, txCount, rxClosed, waker, calls, taken, task>>

-----------------------------------------------------------------------------
(* UnboundedReceiver: recv, try_recv *)

Poll(w) ==
    /\ At(Rx, {"idle"})
    /\ cx' = w /\ waiting' = None /\ awake' = {}
    /\ Go(Rx, "pop")
    /\ UNCHANGED <<word, list, txCount, rxClosed, waker, calls, local, ended>>

\* list::Rx::try_pop: the position is loaded first.
TryRecv ==
    /\ At(Rx, {"idle"})
    /\ See(Rx, tail)
    /\ Go(Rx, "trypop")
    /\ UNCHANGED <<word, list, txCount, rxClosed, waker, calls, taken, task>>

\* list::Rx::pop: a value is taken and its permit is due, or the list is
\* closed, or there is nothing (yet) to read.
Value   == index \in ready
Closed  == ~Value /\ txClosed
Nothing == ~Value /\ ~txClosed

PopValue ==
    /\ At(Rx, {"pop", "repop", "trypop", "drain"})
    /\ Value
    /\ index' = index + 1
    /\ cx' = None /\ See(Rx, 0)
    /\ Go(Rx, IF At(Rx, {"drain"}) THEN "drainpermit" ELSE "permit")
    /\ UNCHANGED <<word, tail, ready, txClosed, txCount, rxClosed, waker, calls, taken, waiting,
                   awake, ended>>

\* Semaphore::add_permit; recv and try_recv return the value.
AddPermit ==
    /\ At(Rx, {"permit", "drainpermit"})
    /\ count' = count - 1
    /\ Go(Rx, IF At(Rx, {"permit"}) THEN "idle" ELSE "drain")
    /\ UNCHANGED <<closing, list, txCount, rxClosed, waker, calls, local, task>>

\* recv asserts that the semaphore is idle, and returns None.
PopClosed ==
    /\ At(Rx, {"pop", "repop"})
    /\ Closed
    /\ Go(Rx, "idle")
    /\ cx' = None /\ ended' = TRUE
    /\ UNCHANGED <<word, list, txCount, rxClosed, waker, calls, local, waiting, awake>>

\* After the first look the waker is registered, for a second one.
PopNothing ==
    /\ At(Rx, {"pop", "repop"})
    /\ Nothing
    /\ Go(Rx, IF At(Rx, {"pop"}) THEN "register" ELSE "pending")
    /\ UNCHANGED <<word, list, txCount, rxClosed, waker, calls, local, task>>

\* try_recv: Disconnected, Empty, or Busy with a message on its way.  Busy
\* calls the registered waker, and then try_recv panics in a todo!.
TryPop ==
    /\ At(Rx, {"trypop"})
    /\ ~Value
    /\ Go(Rx, IF Closed \/ seen[Rx] = index THEN "idle" ELSE "wake")
    /\ See(Rx, 0)
    /\ UNCHANGED <<word, list, txCount, rxClosed, waker, calls, taken, task>>

IsOver == rxClosed /\ count = 0

\* Neither look found anything: wait, unless nothing can come any more.
EndPoll ==
    /\ At(Rx, {"pending"})
    /\ Go(Rx, "idle")
    /\ cx' = None
    /\ \/ IsOver /\ ended' = TRUE /\ UNCHANGED waiting
       \/ ~IsOver /\ waiting' = cx /\ UNCHANGED ended
    /\ UNCHANGED <<word, list, txCount, rxClosed, waker, calls, local, awake>>

-----------------------------------------------------------------------------
(* AtomicWaker::register_by_ref, between the two looks of recv *)

\* Lock the cell, or call the waker oneself when somebody is waking just now.
Register ==
    /\ At(Rx, {"register"})
    /\ \/ state = {} /\ state' = {"REGISTERING"} /\ Go(Rx, "store") /\ UNCHANGED awake
       \/ state # {} /\ Call(cx) /\ Go(Rx, "repop") /\ UNCHANGED state
    /\ UNCHANGED <<word, list, txCount, rxClosed, cell, calls, local, cx, waiting, ended>>

StoreWaker ==
    /\ At(Rx, {"store"})
    /\ taken' = [taken EXCEPT ![Rx] = cell]
    /\ cell' = cx
    /\ Go(Rx, "unlock")
    /\ UNCHANGED <<word, list, txCount, rxClosed, state, calls, seen, task>>

\* Unlock the cell and drop the old waker, unless a wake was asked for
\* meanwhile.
Unlock ==
    /\ At(Rx, {"unlock"})
    /\ \/ /\ state = {"REGISTERING"}
          /\ state' = {}
          /\ taken' = [taken EXCEPT ![Rx] = None]
          /\ Go(Rx, "repop")
       \/ /\ state # {"REGISTERING"}
          /\ Go(Rx, "untake")
          /\ UNCHANGED <<state, taken>>
    /\ UNCHANGED <<word, list, txCount, rxClosed, cell, calls, seen, task>>

UntakeWaker ==
    /\ At(Rx, {"untake"})
    /\ cell' = None
    /\ Go(Rx, "swap")
    /\ UNCHANGED <<word, list, txCount, rxClosed, state, calls, local, task>>

\* swap(WAITING), and both wakers are called on behalf of the other thread.
SwapWaiting ==
    /\ At(Rx, {"swap"})
    /\ state' = {}
    /\ awake' = awake \cup ({taken[Rx], cx} \ {None})
    /\ taken' = [taken EXCEPT ![Rx] = None]
    /\ Go(Rx, "repop")
    /\ UNCHANGED <<word, list, txCount, rxClosed, cell, calls, seen, cx, waiting, ended>>

-----------------------------------------------------------------------------
(* UnboundedReceiver: close and drop *)

\* Rx::close.  The early return for rx_closed is the closure's: a second close
\* goes on like the first.
Close ==
    /\ At(Rx, {"idle"})
    /\ calls < MaxCloses
    /\ rxClosed' = TRUE
    /\ Go(Rx, "close")
    /\ UNCHANGED <<word, list, txCount, waker, calls, local, task>>

\* Rx::drop begins with a close; the panic of try_recv gets here by unwinding.
DropRx ==
    /\ At(Rx, {"idle", "todo"})
    /\ rxClosed' = TRUE
    /\ waiting' = None
    /\ Go(Rx, "dropclose")
    /\ UNCHANGED <<word, list, txCount, waker, calls, local, cx, awake, ended>>

\* Semaphore::close, a fetch_or
CloseSemaphore ==
    /\ At(Rx, {"close", "dropclose"})
    /\ closing' = TRUE
    /\ Go(Rx, IF At(Rx, {"close"}) THEN "notify" ELSE "dropnotify")
    /\ UNCHANGED <<count, list, txCount, rxClosed, waker, calls, local, task>>

\* Notify::notify_waiters, under its lock
NotifyWaiters ==
    /\ At(Rx, {"notify", "dropnotify"})
    /\ calls' = calls + 1
    /\ pc' = [t \in Threads |->
                 CASE t = Rx -> IF At(Rx, {"notify"}) THEN "idle" ELSE "drain"
                   [] t # Rx /\ At(t, {"asleep"}) -> "idle"
                   [] OTHER -> pc[t]]
    /\ UNCHANGED <<word, list, txCount, rxClosed, waker, local, task>>

\* Rx::drop has taken what was there.
EndDrain ==
    /\ At(Rx, {"drain"})
    /\ ~Value
    /\ Go(Rx, "gone")
    /\ UNCHANGED <<word, list, txCount, rxClosed, waker, calls, local, task>>

-----------------------------------------------------------------------------
Init ==
    /\ count = 0 /\ closing = FALSE
    /\ tail = 0 /\ ready = {} /\ txClosed = FALSE /\ index = 0
    /\ txCount = 1 /\ rxClosed = FALSE
    /\ state = {} /\ cell = None /\ calls = 0
    /\ \E s \in Senders : pc = [t \in Threads |-> IF t \in {s, Rx} THEN "idle" ELSE "unborn"]
    /\ seen = [t \in Threads |-> 0] /\ taken = [t \in Threads |-> None]
    /\ cx = None /\ waiting = None /\ awake = {} /\ ended = FALSE

Wake(t) == SetWaking(t) \/ TakeWaker(t) \/ ClearWaking(t) \/ EndWake(t)

SenderStep(s) ==
    \/ ClaimSlot(s) \/ WriteSlot(s) \/ ClaimLastSlot(s) \/ TxClose(s) \/ Wake(s)
    \/ LookClosed(s) \/ PollNotified(s)

SenderCall(s) ==
    \/ IncNumMessages(s) \/ DropTx(s) \/ Listen(s) \/ CancelClosed(s)
    \/ \E new \in Senders : CloneTx(s, new)

ReceiverStep ==
    \/ PopValue \/ AddPermit \/ PopClosed \/ PopNothing \/ TryPop \/ EndPoll \/ Wake(Rx)
    \/ Register \/ StoreWaker \/ Unlock \/ UntakeWaker \/ SwapWaiting
    \/ CloseSemaphore \/ NotifyWaiters \/ EndDrain
    \/ (At(Rx, {"todo"}) /\ DropRx)

ReceiverCall == (\E w \in Wakers : Poll(w)) \/ TryRecv \/ Close \/ (At(Rx, {"idle"}) /\ DropRx)

Next ==
    \/ \E s \in Senders : SenderStep(s) \/ SenderCall(s)
    \/ ReceiverStep \/ ReceiverCall

Spec == Init /\ [][Next]_vars

\* The receiver's task polls when it was woken, and after every value.
Resume == waiting \in awake \cup {None} /\ \E w \in Wakers : Poll(w)

FairSpec ==
    /\ Spec
    /\ \A s \in Senders : WF_vars(SenderStep(s))
    /\ WF_vars(ReceiverStep) /\ WF_vars(Resume)

-----------------------------------------------------------------------------
(* Properties *)

\* Every variable keeps the type that its field has in the code.
TypeOK ==
    /\ count \in 0..MaxSlots /\ closing \in BOOLEAN
    /\ tail \in 0..(MaxSlots + 1) /\ ready \subseteq 0..(MaxSlots - 1)
    /\ index \in 0..MaxSlots /\ txClosed \in BOOLEAN
    /\ txCount \in 0..Cardinality(Senders) /\ rxClosed \in BOOLEAN
    /\ state \subseteq {"REGISTERING", "WAKING"}
    /\ cell \in Wakers \cup {None} /\ calls \in 0..(MaxCloses + 1)
    /\ \A s \in Senders : pc[s] \in
          {"unborn", "idle", "claim", "write", "close", "txclose", "wake", "take", "clear", "woken",
           "look", "await", "asleep", "gone"}
    /\ pc[Rx] \in {"idle", "pop", "repop", "trypop", "permit", "register", "store", "unlock",
                   "untake", "swap", "pending", "wake", "take", "clear", "woken", "todo", "close",
                   "notify", "dropclose", "dropnotify", "drain", "drainpermit", "gone"}
    /\ seen \in [Threads -> Nat]
    /\ taken \in [Threads -> Wakers \cup {None}]
    /\ cx \in Wakers \cup {None} /\ waiting \in Wakers \cup {None}
    /\ awake \subseteq Wakers /\ ended \in BOOLEAN

\* The counter is what was promised and has not been received, at every moment
\* of every send, receive and drain: add_permit never finds zero, which would
\* abort the process (chan.rs:394), and close never loses a promise.
CountExact ==
    LET last     == IF txClosed \/ \E s \in Senders : At(s, {"txclose"}) THEN 1 ELSE 0
        promised == tail - last + Cardinality({s \in Senders : At(s, {"claim"})})
        due      == IF At(Rx, {"permit", "drainpermit"}) THEN 1 ELSE 0
    IN count + index = promised + due

\* The waker cell is a plain cell (atomic_waker.rs:27): a thread that is about
\* to use it is the only one, whether it registers or wakes.
CellExclusive ==
    \A t, u \in Threads :
       At(t, {"take", "store", "untake"}) /\ At(u, {"take", "store", "untake"}) => t = u

\* recv must not go to sleep on something it could return.  When the receiver
\* waits and its waker has not been called, then no message is ready to be read
\* and the list is not closed, except while a sender that made it so is still
\* on its way to the waker.
ReceiverNotStuck ==
    (waiting \notin awake \cup {None} /\ At(Rx, {"idle"}) /\ (Value \/ txClosed)) =>
       \E s \in Senders : At(s, {"wake", "take", "clear", "woken"})

\* None is the end (unbounded.rs:82): after recv has returned it, no message is
\* in the channel or can be promised to it any more; and when it is the closed
\* list that says so, recv's assertion that the semaphore is idle holds.
NoneIsFinal ==
    /\ ended => count = 0 /\ (closing \/ txCount = 0)
    /\ At(Rx, {"pop", "repop"}) /\ Closed => count = 0

\* closed() asks for the notification before it looks at the semaphore so that
\* it cannot miss the close: nobody sleeps in it once the receiver has notified.
NobodyMissesClose == calls > 0 => \A s \in Senders : ~At(s, {"asleep"})

\* The channel's counter, cell, waker and end agree at every step of every call.
ChannelSound == CountExact /\ CellExclusive /\ ReceiverNotStuck /\ NoneIsFinal

\* Every message that was sent is received, or its receiver goes away: no
\* wake-up is lost between the threads that write and the task that reads,
\* whichever of its wakers the receiver last polled with.
Delivered ==
    \A p \in 0..(MaxSlots - 1) : p \in ready ~> (index > p \/ At(Rx, {"gone"}))

=============================================================================
