------------------------------- MODULE Watch -------------------------------
(***************************************************************************)
(* sync/watch.rs: one value behind a read-write lock, a word that holds    *)
(* the version and the CLOSED bit, a count of receivers, and two Notify:   *)
(* notify_rx for changed, notify_tx for closed.  The two are used by their *)
(* contract, which Notify implements; no permit is ever stored, since only *)
(* notify_waiters is called.                                               *)
(*                                                                         *)
(* The value is the version it was sent as.  A closure that panics or says *)
(* that it changed nothing leaves the version and wakes nobody: a stutter. *)
(***************************************************************************)
EXTENDS Naturals, Sequences, FiniteSets

CONSTANTS Receivers,   \* receiver handles, some not yet created
          Writers,     \* threads that send through the one Sender
          MaxVersion,  \* bound on the values sent
          MaxEmpty     \* bound on how often the last receiver goes

VARIABLES
    value,      \* behind the lock
    version,    \* the version in the word
    closed,     \* the CLOSED bit
    count,      \* ref_count_rx
    sender,     \* live, closing (notify_waiters is to come) or gone
    writer,     \* where each writer stands
    pc,         \* where each receiver stands, "none" before its creation
    ver,        \* Receiver::version
    shown,      \* the value in a receiver's Ref, 0 without one
    closer,     \* where the task in Sender::closed stands
    permit,     \* of both Notify: never stored
    epochR, queueR, phaseR, seenR,   \* notify_rx
    epochT, queueT, phaseT, seenT    \* notify_tx

word == <<value, version, closed>>
nrx == <<permit, epochR, queueR, phaseR, seenR>>
ntx == <<permit, epochT, queueT, phaseT, seenT>>
rcv == <<pc, ver, shown>>
vars == <<word, count, sender, writer, rcv, closer, nrx, ntx>>

NotifyRx == INSTANCE NotifyContract WITH
    Futures <- Receivers, permit <- permit,
    epoch <- epochR, queue <- queueR, phase <- phaseR, seen <- seenR

Closer == "closer"
NotifyTx == INSTANCE NotifyContract WITH
    Futures <- {Closer}, permit <- permit,
    epoch <- epochT, queue <- queueT, phase <- phaseT, seen <- seenT

\* Variant: borrow_and_update holds no lock while it loads the version.
Reading_RefOnly == {r \in Receivers : pc[r] \in {"ref", "marked"}}

\* Receivers that hold a Ref, and with it the read lock
Reading == {r \in Receivers : pc[r] \in {"mark", "ref", "marked"}}

Init ==
    /\ value = 0 /\ version = 0 /\ closed = FALSE
    /\ count = 1
    /\ sender = "live"
    /\ writer = [w \in Writers |-> "idle"]
    /\ \E r \in Receivers :
          pc = [q \in Receivers |-> IF q = r THEN "idle" ELSE "none"]
    /\ ver = [r \in Receivers |-> 0]
    /\ shown = [r \in Receivers |-> 0]
    /\ closer = "idle"
    /\ NotifyRx!Init
    /\ NotifyTx!Init

Goto(r, l) == pc' = [pc EXCEPT ![r] = l]

-----------------------------------------------------------------------------
(* Sender                                                                  *)

\* send gives up without receivers; send_replace and send_modify do not look.
Send(w) ==
    /\ sender = "live" /\ writer[w] = "idle"
    /\ count > 0
    /\ writer' = [writer EXCEPT ![w] = "modify"]
    /\ UNCHANGED <<word, count, sender, rcv, closer, nrx, ntx>>

SendReplace(w) ==
    /\ sender = "live" /\ writer[w] = "idle"
    /\ writer' = [writer EXCEPT ![w] = "modify"]
    /\ UNCHANGED <<word, count, sender, rcv, closer, nrx, ntx>>

\* With the write lock: the value, and the version before the lock goes.
Modify(w) ==
    /\ writer[w] = "modify"
    /\ version < MaxVersion
    /\ Reading = {}
    /\ value' = version + 1
    /\ version' = version + 1
    /\ writer' = [writer EXCEPT ![w] = "notify"]
    /\ UNCHANGED <<closed, count, sender, rcv, closer, nrx, ntx>>

NotifyReceivers(w) ==
    /\ writer[w] = "notify"
    /\ NotifyRx!NotifyWaiters
    /\ writer' = [writer EXCEPT ![w] = "idle"]
    /\ UNCHANGED <<word, count, sender, rcv, closer, ntx>>

DropSender ==
    /\ sender = "live" /\ closer = "idle"
    /\ \A w \in Writers : writer[w] = "idle"
    /\ \A r \in Receivers : pc[r] # "subscribing"
    /\ closed' = TRUE
    /\ sender' = "closing"
    /\ UNCHANGED <<value, version, count, writer, rcv, closer, nrx, ntx>>

NotifyClosed ==
    /\ sender = "closing"
    /\ NotifyRx!NotifyWaiters
    /\ sender' = "gone"
    /\ UNCHANGED <<word, count, writer, rcv, closer, ntx>>

\* closed: the count, a Notified, the count again, and then the wait
CloserLook ==
    /\ sender = "live" /\ closer \in {"idle", "loop"}
    /\ closer' = IF count > 0 THEN "create" ELSE "idle"
    /\ UNCHANGED <<word, count, sender, writer, rcv, nrx, ntx>>

CloserCreate ==
    /\ closer = "create"
    /\ NotifyTx!Create(Closer)
    /\ closer' = "check"
    /\ UNCHANGED <<word, count, sender, writer, rcv, nrx>>

CloserCheck ==
    /\ closer = "check"
    /\ \/ /\ count = 0
          /\ NotifyTx!Drop(Closer)
          /\ closer' = "idle"
       \/ /\ count > 0
          /\ closer' = "await"
          /\ UNCHANGED ntx
    /\ UNCHANGED <<word, count, sender, writer, rcv, nrx>>

CloserAwait ==
    /\ closer = "await"
    /\ \/ /\ NotifyTx!Enqueue(Closer) \/ NotifyTx!SeeCall(Closer)
             \/ NotifyTx!Receive(Closer)
          /\ UNCHANGED closer
       \/ /\ phaseT[Closer] = "Done"
          /\ NotifyTx!Drop(Closer)
          /\ closer' = "loop"
    /\ UNCHANGED <<word, count, sender, writer, rcv, nrx>>

CancelClosed ==
    /\ closer = "await" /\ phaseT[Closer] \in {"Queued", "All"}
    /\ NotifyTx!Drop(Closer)
    /\ closer' = "idle"
    /\ UNCHANGED <<word, count, sender, writer, rcv, nrx>>

-----------------------------------------------------------------------------
(* Receiver: clone, subscribe, drop, borrow, borrow_and_update, changed    *)

\* The version is loaded first, and the count raised after it; the one who
\* subscribes has a reference to the Sender, who clones to the Receiver.
Subscribe(r) ==
    /\ pc[r] = "none"
    /\ sender = "live"
    /\ epochT < MaxEmpty
    /\ ver' = [ver EXCEPT ![r] = version]
    /\ Goto(r, "subscribing")
    /\ UNCHANGED <<word, count, sender, writer, shown, closer, nrx, ntx>>

CloneReceiver(r, q) ==
    /\ pc[r] = "none" /\ pc[q] = "idle"
    /\ ver' = [ver EXCEPT ![r] = ver[q]]
    /\ count' = count + 1
    /\ Goto(r, "idle")
    /\ UNCHANGED <<word, sender, writer, shown, closer, nrx, ntx>>

FromShared(r) ==
    /\ pc[r] = "subscribing"
    /\ count' = count + 1
    /\ Goto(r, "idle")
    /\ UNCHANGED <<word, sender, writer, ver, shown, closer, nrx, ntx>>

DropReceiver(r) ==
    /\ pc[r] = "idle"
    /\ count' = count - 1
    /\ Goto(r, IF count = 1 THEN "notify_tx" ELSE "none")
    /\ ver' = [ver EXCEPT ![r] = 0]
    /\ UNCHANGED <<word, sender, writer, shown, closer, nrx, ntx>>

NotifyEmpty(r) ==
    /\ pc[r] = "notify_tx"
    /\ NotifyTx!NotifyWaiters
    /\ Goto(r, "none")
    /\ UNCHANGED <<word, count, sender, writer, ver, shown, closer, nrx>>

Borrow(r) ==
    /\ pc[r] = "idle"
    /\ shown' = [shown EXCEPT ![r] = value]
    /\ Goto(r, "ref")
    /\ UNCHANGED <<word, count, sender, writer, ver, closer, nrx, ntx>>

\* borrow_and_update takes the lock before it loads the version.
BorrowAndUpdate(r) ==
    /\ pc[r] = "idle"
    /\ shown' = [shown EXCEPT ![r] = value]
    /\ Goto(r, "mark")
    /\ UNCHANGED <<word, count, sender, writer, ver, closer, nrx, ntx>>

MarkSeen(r) ==
    /\ pc[r] = "mark"
    /\ ver' = [ver EXCEPT ![r] = version]
    /\ Goto(r, "marked")
    /\ UNCHANGED <<word, count, sender, writer, shown, closer, nrx, ntx>>

DropRef(r) ==
    /\ pc[r] \in {"ref", "marked"}
    /\ Goto(r, "idle")
    /\ shown' = [shown EXCEPT ![r] = 0]
    /\ UNCHANGED <<word, count, sender, writer, ver, closer, nrx, ntx>>

\* changed asks for a notification first,
Changed(r) ==
    /\ pc[r] \in {"idle", "loop"}
    /\ NotifyRx!Create(r)
    /\ Goto(r, "check")
    /\ UNCHANGED <<word, count, sender, writer, ver, shown, closer, ntx>>

\* Variant: the CLOSED bit is not looked at.
MaybeChanged_NoClosed(r) ==
    /\ pc[r] = "check"
    /\ \/ /\ ver[r] # version
          /\ ver' = [ver EXCEPT ![r] = version]
          /\ NotifyRx!Drop(r)
          /\ Goto(r, "idle")
       \/ /\ ver[r] = version
          /\ Goto(r, "await")
          /\ UNCHANGED <<ver, nrx>>
    /\ UNCHANGED <<word, count, sender, writer, shown, closer, ntx>>

\* and looks at the word then: a new version, the end, or the wait.
MaybeChanged(r) ==
    /\ pc[r] = "check"
    /\ \/ /\ ver[r] # version
          /\ ver' = [ver EXCEPT ![r] = version]
          /\ NotifyRx!Drop(r)
          /\ Goto(r, "idle")
       \/ /\ ver[r] = version /\ closed
          /\ NotifyRx!Drop(r)
          /\ Goto(r, "idle")
          /\ UNCHANGED ver
       \/ /\ ver[r] = version /\ ~closed
          /\ Goto(r, "await")
          /\ UNCHANGED <<ver, nrx>>
    /\ UNCHANGED <<word, count, sender, writer, shown, closer, ntx>>

AwaitNotified(r) ==
    /\ pc[r] = "await"
    /\ \/ /\ NotifyRx!Enqueue(r) \/ NotifyRx!SeeCall(r) \/ NotifyRx!Receive(r)
          /\ UNCHANGED pc
       \/ /\ phaseR[r] = "Done"
          /\ NotifyRx!Drop(r)
          /\ Goto(r, "loop")
    /\ UNCHANGED <<word, count, sender, writer, ver, shown, closer, ntx>>

CancelChanged(r) ==
    /\ pc[r] = "await" /\ phaseR[r] \in {"Queued", "All"}
    /\ NotifyRx!Drop(r)
    /\ Goto(r, "idle")
    /\ UNCHANGED <<word, count, sender, writer, ver, shown, closer, ntx>>

-----------------------------------------------------------------------------

WriterStep(w) == Modify(w) \/ NotifyReceivers(w)
CloserStep ==
    \/ closer = "loop" /\ CloserLook
    \/ CloserCreate
    \/ CloserCheck
    \/ CloserAwait
ReceiverStep(r) ==
    \/ FromShared(r)
    \/ NotifyEmpty(r)
    \/ pc[r] # "idle" /\ Changed(r)
    \/ MaybeChanged(r)
    \/ AwaitNotified(r)

\* All handles are gone, or wait for what can no longer come.
Stopped ==
    /\ sender = "gone" \/ version = MaxVersion
    /\ UNCHANGED vars

Next ==
    \/ \E w \in Writers : Send(w) \/ SendReplace(w) \/ WriterStep(w)
    \/ DropSender
    \/ NotifyClosed
    \/ CloserLook
    \/ CloserStep
    \/ CancelClosed
    \/ \E r \in Receivers :
          \/ Subscribe(r)
          \/ \E q \in Receivers : CloneReceiver(r, q)
          \/ DropReceiver(r)
          \/ Borrow(r)
          \/ BorrowAndUpdate(r)
          \/ MarkSeen(r)
          \/ DropRef(r)
          \/ Changed(r)
          \/ ReceiverStep(r)
          \/ CancelChanged(r)
    \/ Stopped

Spec == Init /\ [][Next]_vars

\* A call that began goes on, and a task that Notify told polls again (what
\* ToldCompletes of Notify says); nobody has to send, borrow or drop.
Fairness ==
    /\ \A w \in Writers : WF_vars(NotifyReceivers(w))
    /\ WF_vars(NotifyClosed)
    /\ WF_vars(CloserStep)
    /\ \A r \in Receivers : WF_vars(ReceiverStep(r))

FairSpec == Spec /\ Fairness

-----------------------------------------------------------------------------

TypeOK ==
    /\ value \in 0 .. MaxVersion
    /\ version \in 0 .. MaxVersion
    /\ closed \in BOOLEAN
    /\ count \in 0 .. Cardinality(Receivers)
    /\ ver \in [Receivers -> 0 .. MaxVersion]

\* "Incrementing the version counter while holding the lock ensures that
\* receivers are able to figure out the version number of the value they are
\* currently looking at" (line 670): no writer changes the value under a Ref, and the
\* version that borrow_and_update marks as seen is that of the value it shows.
MarkedWasShown ==
    \A r \in Receivers :
        /\ pc[r] \in {"mark", "ref", "marked"} => value = shown[r]
        /\ pc[r] = "marked" => ver[r] = shown[r]

\* changed ends when a version that is not marked as seen is there, or the
\* sender is gone, at whichever of its steps they come (line 454).
ChangeSeen ==
    \A r \in Receivers :
        (pc[r] = "await" /\ (ver[r] # version \/ closed)) ~> (pc[r] # "await")

\* closed ends once there is no receiver, unless one comes back before.
EmptySeen == (closer = "await" /\ count = 0) ~> (closer # "await" \/ count > 0)

\* Neither side waits for what has already happened.
WaitsEnd == ChangeSeen /\ EmptySeen
=============================================================================
