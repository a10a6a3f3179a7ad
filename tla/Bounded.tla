------------------------------ MODULE Bounded ------------------------------
(***************************************************************************)
(* sync/mpsc/bounded.rs over chan.rs: the channel whose semaphore holds a  *)
(* permit for every slot of the buffer, used by the contract that          *)
(* BatchSemaphore implements.  That semaphore is for one thread, and so    *)
(* each poll and each call is one step; what interleaves are the calls,    *)
(* and the futures of reserve that are dropped between two polls.          *)
(*                                                                         *)
(* A sender handle has one reservation at a time: a Permit borrows it, an  *)
(* OwnedPermit is the handle itself.  send is reserve and Permit::send     *)
(* with nothing in between; send_timeout is todo!().                       *)
(***************************************************************************)
EXTENDS Naturals, Sequences, FiniteSets, Functions

CONSTANTS Senders,    \* sender handles, most of them not yet cloned
          Cap,        \* the buffer argument of channel
          MaxSent     \* bound of the model: messages that are sent


VARIABLES
    pool, closed, queue, phase, need, held,   \* the semaphore
    handle,     \* each sender: unborn, live, owned (an OwnedPermit) or gone
    buffer,     \* the list, the oldest message first
    sent,       \* messages sent so far: the last one's name
    rx,         \* the receiver: idle, pending, done (recv was None) or gone
    rxClosed,   \* RxFields::rx_closed
    awake,      \* tasks whose waker was called since their last poll
    untold      \* history: who, since the receiver's last poll, returned the
                \* last permit of a closed channel and woke nobody: "release"
                \* of an OwnedPermit, or the Acquire of a "reserve"

Rx == "rx"
sem == <<pool, closed, queue, phase, need, held>>
chan == <<handle, buffer, sent, rx, rxClosed>>
vars == <<sem, chan, awake, untold>>

Sem == INSTANCE SemaphoreContract WITH Clients <- Senders, Counts <- {1}

Init ==
    /\ Sem!InitWith(Cap)
    /\ \E s \in Senders :
          handle = [t \in Senders |-> IF t = s THEN "live" ELSE "unborn"]
    /\ buffer = <<>> /\ sent = 0
    /\ rx = "idle" /\ rxClosed = FALSE
    /\ awake = {} /\ untold = {}

\* Tx::tx_count
Handles == {s \in Senders : handle[s] \in {"live", "owned"}}

\* Those who left the semaphore's queue in this step were woken for it.
Served == Range(queue) \ Range(queue')

WakeServed == awake' = awake \cup Served
WakeServedAndRx == awake' = awake \cup Served \cup {Rx}

\* A closed receiver waits for a permit, and this step returned the last one.
LastPermit == closed /\ pool' = Cap /\ rx = "pending"
NotTold(by) == untold' = IF LastPermit THEN untold \cup {by} ELSE untold

-----------------------------------------------------------------------------
(* Sender                                                                  *)

\* try_reserve, try_send, or the first poll of reserve.
Reserve(s) ==
    /\ handle[s] = "live"
    /\ Sem!Acquire(s, 1)
    /\ UNCHANGED <<chan, awake, untold>>

ReserveWaits(s) ==
    /\ handle[s] = "live"
    /\ Sem!Wait(s, 1)
    /\ UNCHANGED <<chan, awake, untold>>

\* The next poll of reserve: a permit,
ReserveServed(s) ==
    /\ Sem!Receive(s)
    /\ awake' = awake \ {s}
    /\ UNCHANGED <<chan, untold>>

\* or an error, and with it the Acquire is dropped, and its permit given back,
\* if it had been served before the close.  The receiver is not told.
ReserveFails(s) ==
    /\ phase[s] = "waiting" /\ closed
    /\ Sem!Drop(s)
    /\ awake' = (awake \cup Served) \ {s}
    /\ NotTold("reserve")
    /\ UNCHANGED chan

\* The future of reserve is dropped before it is ready; the same.
CancelReserve(s) ==
    /\ phase[s] = "waiting"
    /\ Sem!Drop(s)
    /\ awake' = (awake \cup Served) \ {s}
    /\ NotTold("reserve")
    /\ UNCHANGED chan

\* reserve_owned, try_reserve_owned: the permit has taken the handle.
Own(s) ==
    /\ handle[s] = "live" /\ phase[s] = "granted"
    /\ handle' = [handle EXCEPT ![s] = "owned"]
    /\ UNCHANGED <<sem, buffer, sent, rx, rxClosed, awake, untold>>

Disown(s) == handle' = [handle EXCEPT ![s] = "live"]

\* Permit::send and OwnedPermit::send: the permit is now that of the message.
SendPermit(s) ==
    /\ sent < MaxSent
    /\ Sem!Forget(s)
    /\ sent' = sent + 1
    /\ buffer' = Append(buffer, sent')
    /\ Disown(s)
    /\ awake' = IF rx = "pending" THEN awake \cup {Rx} ELSE awake
    /\ UNCHANGED <<rx, rxClosed, untold>>

\* Variant: the receiver is not told.
DropPermit_Silent(s) ==
    /\ phase[s] = "granted" /\ handle[s] = "live"
    /\ Sem!Drop(s)
    /\ WakeServed
    /\ UNCHANGED <<chan, untold>>

\* Permit::drop tells a closed receiver that nothing is outstanding.
DropPermit(s) ==
    /\ phase[s] = "granted" /\ handle[s] = "live"
    /\ Sem!Drop(s)
    /\ IF LastPermit THEN WakeServedAndRx ELSE WakeServed
    /\ UNCHANGED <<chan, untold>>

\* OwnedPermit::release returns the handle, and tells nobody.
Release(s) ==
    /\ phase[s] = "granted" /\ handle[s] = "owned"
    /\ Sem!Drop(s)
    /\ Disown(s)
    /\ WakeServed
    /\ NotTold("release")
    /\ UNCHANGED <<buffer, sent, rx, rxClosed>>

CloneSender(s, new) ==
    /\ handle[s] = "live" /\ handle[new] = "unborn"
    /\ handle' = [handle EXCEPT ![new] = "live"]
    /\ UNCHANGED <<sem, buffer, sent, rx, rxClosed, awake, untold>>

\* Tx::drop: the last handle closes the list.
Leave(s) ==
    /\ handle' = [handle EXCEPT ![s] = "gone"]
    /\ UNCHANGED <<buffer, sent, rx, rxClosed>>

DropSender(s) ==
    /\ handle[s] = "live" /\ phase[s] = "out"
    /\ Leave(s)
    /\ awake' = IF Handles = {s} /\ rx = "pending" THEN awake \cup {Rx} ELSE awake
    /\ UNCHANGED <<sem, untold>>

\* OwnedPermit::drop: first the permit, then the handle.
DropOwned(s) ==
    /\ phase[s] = "granted" /\ handle[s] = "owned"
    /\ Sem!Drop(s)
    /\ Leave(s)
    /\ IF LastPermit \/ (Handles = {s} /\ rx = "pending")
       THEN WakeServedAndRx ELSE WakeServed
    /\ UNCHANGED untold

-----------------------------------------------------------------------------
(* Receiver                                                                *)

\* Variant: the slot is not given back.
RecvValue_KeepsPermit ==
    /\ rx \in {"idle", "pending"} /\ buffer # <<>>
    /\ buffer' = Tail(buffer)
    /\ rx' = "idle"
    /\ awake' = awake \ {Rx}
    /\ untold' = {}
    /\ UNCHANGED <<sem, handle, sent, rxClosed>>

\* recv or try_recv takes a message, and its slot is free again.
RecvValue ==
    /\ rx \in {"idle", "pending"} /\ buffer # <<>>
    /\ buffer' = Tail(buffer)
    /\ rx' = "idle"
    /\ Sem!Add(1)
    /\ awake' = (awake \cup Served) \ {Rx}
    /\ untold' = {}
    /\ UNCHANGED <<handle, sent, rxClosed>>

\* What ends the channel: no handle is left, and recv asserts that the
\* semaphore is idle; or the receiver closed it, and no permit is out.
Over == Handles = {} \/ (rxClosed /\ pool = Cap)

RecvNone ==
    /\ rx \in {"idle", "pending"} /\ buffer = <<>>
    /\ Over
    /\ rx' = "done"
    /\ awake' = awake \ {Rx}
    /\ untold' = {}
    /\ UNCHANGED <<sem, handle, buffer, sent, rxClosed>>

RecvPending ==
    /\ rx \in {"idle", "pending"} /\ buffer = <<>>
    /\ ~Over
    /\ rx' = "pending"
    /\ awake' = awake \ {Rx}
    /\ untold' = {}
    /\ UNCHANGED <<sem, handle, buffer, sent, rxClosed>>

\* Rx::close; the future of recv was dropped before.  A second close only
\* closes again what is closed.
CloseRx ==
    /\ rx \in {"idle", "pending", "done"} /\ ~rxClosed
    /\ rxClosed' = TRUE
    /\ rx' = IF rx = "done" THEN rx ELSE "idle"
    /\ Sem!Close
    /\ awake' = (awake \cup Served) \ {Rx}
    /\ untold' = {}
    /\ UNCHANGED <<handle, buffer, sent>>

\* Rx::drop closes, and returns the permits of what nobody will read.
DropRx ==
    /\ rx # "gone" /\ rxClosed
    /\ rx' = "gone"
    /\ buffer' = <<>>
    /\ Sem!Add(Len(buffer))
    /\ awake' = awake \ {Rx}
    /\ untold' = {}
    /\ UNCHANGED <<handle, sent, rxClosed>>

\* A message that is sent to a receiver that has gone stays until the drop of
\* Chan; nobody waits for it.
Stopped ==
    /\ Handles = {} \/ sent = MaxSent
    /\ UNCHANGED vars

-----------------------------------------------------------------------------

ReservePolled(s) == s \in awake /\ (ReserveServed(s) \/ ReserveFails(s))
PermitUsed(s) == SendPermit(s) \/ DropPermit(s) \/ DropOwned(s)
RecvPoll == RecvValue \/ RecvNone \/ RecvPending

Next ==
    \/ \E s \in Senders :
          \/ Reserve(s) \/ ReserveWaits(s) \/ ReserveServed(s) \/ ReserveFails(s)
          \/ CancelReserve(s)
          \/ Own(s) \/ SendPermit(s) \/ DropPermit(s) \/ Release(s)
          \/ \E new \in Senders : CloneSender(s, new)
          \/ DropSender(s) \/ DropOwned(s)
    \/ RecvPoll
    \/ CloseRx
    \/ DropRx
    \/ Stopped

Spec == Init /\ [][Next]_vars

\* A woken task polls again; who has a permit sends, or gives up, one day; the
\* receiver calls recv again after a message, until it is over.
Fairness ==
    /\ \A s \in Senders : WF_vars(ReservePolled(s)) /\ WF_vars(PermitUsed(s))
    /\ WF_vars((rx = "idle" \/ Rx \in awake) /\ RecvPoll)

FairSpec == Spec /\ Fairness

-----------------------------------------------------------------------------
(* Properties                                                              *)

TypeOK ==
    /\ pool \in 0 .. Cap
    /\ handle \in [Senders -> {"unborn", "live", "owned", "gone"}]
    /\ sent \in 0 .. MaxSent /\ buffer \in Seq(1 .. MaxSent)
    /\ rx \in {"idle", "pending", "done", "gone"}
    /\ rxClosed \in BOOLEAN
    /\ awake \subseteq Senders \cup {Rx}

\* Every slot of the buffer is free, reserved or full, through all cancelled,
\* released and unsent reservations: capacity is never lost, and the buffer
\* never holds more than Cap.
SlotsConserved ==
    pool + Cardinality({s \in Senders : held[s] = 1}) + Len(buffer) = Cap

\* None is final: no handle and no permit is left by which a message could
\* still come ("recv will not return None until those are released", line 294).
NoneIsFinal ==
    rx = "done" => /\ buffer = <<>>
                   /\ closed \/ Handles = {}
                   /\ \A s \in Senders : phase[s] # "granted"

\* The bound and the end of the channel.
CapacitySound == SlotsConserved /\ NoneIsFinal

\* A receiver that waits has been woken for whatever ends its wait: a message or
\* the last handle, always; the last permit, once it is closed, unless what gave
\* that back is one of the two that do not tell: OwnedPermit::release
\* (bounded.rs:1153), and the Acquire of a reserve that was served and then
\* dropped, or polled, after the close (batch_semaphore.rs:375).
ReceiverWoken ==
    rx = "pending" =>
        /\ buffer # <<>> \/ Handles = {} => Rx \in awake
        /\ Over => Rx \in awake \/ untold # {}

\* The same without the exceptions: with the end of the wait the receiver is woken.
ReceiverAlwaysWoken ==
    rx = "pending" /\ (buffer # <<>> \/ Over) => Rx \in awake

=============================================================================
