--------------------------- MODULE NotifyContract ---------------------------
(***************************************************************************)
(* What Notify promises, without its word, its lock and its nodes: one     *)
(* permit at most, a queue of registered futures in the order they were    *)
(* registered, and the number of notify_waiters calls, by which a future   *)
(* that was created before such a call knows that it is notified.          *)
(***************************************************************************)
EXTENDS Naturals, Sequences, Functions, Queues

CONSTANT Futures

VARIABLES permit,  \* a notification is stored for the next future
          epoch,   \* notify_waiters calls so far
          queue,   \* futures that wait, the oldest first
          phase,   \* of each future
          seen     \* epoch at the future's creation

vars == <<permit, epoch, queue, phase, seen>>

Phases == {"None", "Fresh", "Queued", "One", "All", "Done"}

Init ==
    /\ permit = FALSE
    /\ epoch = 0
    /\ queue = <<>>
    /\ phase = [f \in Futures |-> "None"]
    /\ seen = [f \in Futures |-> 0]

Create(f) ==
    /\ phase[f] = "None"
    /\ phase' = [phase EXCEPT ![f] = "Fresh"]
    /\ seen' = [seen EXCEPT ![f] = epoch]
    /\ UNCHANGED <<permit, epoch, queue>>

TakePermit(f) ==
    /\ phase[f] = "Fresh"
    /\ permit
    /\ permit' = FALSE
    /\ phase' = [phase EXCEPT ![f] = "Done"]
    /\ UNCHANGED <<epoch, queue, seen>>

SeeCall(f) ==
    /\ phase[f] = "Fresh"
    /\ seen[f] # epoch
    /\ phase' = [phase EXCEPT ![f] = "Done"]
    /\ UNCHANGED <<permit, epoch, queue, seen>>

Enqueue(f) ==
    /\ phase[f] = "Fresh"
    /\ seen[f] = epoch
    /\ ~permit
    /\ queue' = Append(queue, f)
    /\ phase' = [phase EXCEPT ![f] = "Queued"]
    /\ UNCHANGED <<permit, epoch, seen>>

Receive(f) ==
    /\ phase[f] \in {"One", "All"}
    /\ phase' = [phase EXCEPT ![f] = "Done"]
    /\ UNCHANGED <<permit, epoch, queue, seen>>

\* One notification reaches the oldest future, or is stored when none waits;
\* ph is the phases it acts on.
Deliver(ph) ==
    /\ UNCHANGED epoch
    /\ \/ /\ queue = <<>>
          /\ permit' = TRUE
          /\ phase' = ph
          /\ UNCHANGED queue
       \/ /\ queue # <<>>
          /\ queue' = Tail(queue)
          /\ phase' = [ph EXCEPT ![Head(queue)] = "One"]
          /\ UNCHANGED permit

NotifyOne == Deliver(phase) /\ UNCHANGED seen

NotifyWaiters ==
    /\ epoch' = epoch + 1
    /\ queue' = <<>>
    /\ phase' = [f \in Futures |->
                    IF f \in Range(queue) THEN "All" ELSE phase[f]]
    /\ UNCHANGED <<permit, seen>>

\* A future that goes away leaves the queue, and hands on a notification that
\* was meant for one.
Drop(f) ==
    /\ seen' = [seen EXCEPT ![f] = 0]
    /\ \/ /\ phase[f] = "One"
          /\ Deliver([phase EXCEPT ![f] = "None"])
       \/ /\ phase[f] \notin {"None", "One"}
          /\ queue' = Without(queue, f)
          /\ phase' = [phase EXCEPT ![f] = "None"]
          /\ UNCHANGED <<permit, epoch>>

Next ==
    \/ NotifyOne
    \/ NotifyWaiters
    \/ \E f \in Futures :
          \/ Create(f)
          \/ TakePermit(f)
          \/ SeeCall(f)
          \/ Enqueue(f)
          \/ Receive(f)
          \/ Drop(f)

Spec == Init /\ [][Next]_vars

=============================================================================
