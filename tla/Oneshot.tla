------------------------------ MODULE Oneshot ------------------------------
(***************************************************************************)
(* sync/oneshot.rs: a word of four flags, a cell for the value and a cell  *)
(* for the waker of each side.  Sender and Receiver run on threads of      *)
(* their own; nothing but the flags says who may use a cell, so every      *)
(* operation on the flags and every use of a cell is an action.            *)
(*                                                                         *)
(* poll_closed and poll_recv install a waker in the same steps, with the   *)
(* flags exchanged; they are modelled once, for either side.               *)
(***************************************************************************)
EXTENDS Naturals, FiniteSets

CONSTANTS Tasks,  \* tasks that may poll a side
          Empty   \* a waker cell that holds no waker

ASSUME EmptyAssumption == Empty \notin Tasks

VARIABLES
    flags,  \* State: a subset of Flags
    value,  \* Inner::value holds a value
    task,   \* tx_task and rx_task
    pc,     \* where each side stands
    held,   \* the sides whose handle still owns the Inner
    arg,    \* the waker passed to the poll
    sent,   \* what became of the sender's value
    got,    \* what the receiver was told
    waits,  \* the last poll of a side returned Pending
    woken   \* sides that were woken since their last poll

vars == <<flags, value, task, pc, held, arg, sent, got, waits, woken>>

Sides == {"tx", "rx"}
Other(s) == IF s = "tx" THEN "rx" ELSE "tx"
Flags == {"TX_TASK_SET", "RX_TASK_SET", "VALUE_SENT", "CLOSED"}
TaskFlag(s) == IF s = "tx" THEN "TX_TASK_SET" ELSE "RX_TASK_SET"
\* The flag each side waits for
EndFlag(s) == IF s = "tx" THEN "CLOSED" ELSE "VALUE_SENT"

Init ==
    /\ flags = {}
    /\ value = FALSE
    /\ task = [s \in Sides |-> Empty]
    /\ pc = [s \in Sides |-> "idle"]
    /\ held = Sides
    /\ arg = [s \in Sides |-> Empty]
    /\ sent = "No"
    /\ got = "No"
    /\ waits = {}
    /\ woken = {}

Goto(s, l) == pc' = [pc EXCEPT ![s] = l]

\* An Arc is dropped, v tells whether the value is in the cell; with the last
\* one, Inner::drop releases it, and the wakers whose flags are set.
LetGo(s, v) ==
    /\ held' = held \ {s}
    /\ value' = (v /\ held # {s})
    /\ task' = IF held # {s} THEN task
               ELSE [t \in Sides |-> IF TaskFlag(t) \in flags THEN Empty
                                     ELSE task[t]]
    /\ UNCHANGED flags

-----------------------------------------------------------------------------
(* poll_closed (tx) and poll_recv (rx)                                     *)

PollLoad(s, k) ==
    /\ pc[s] = "idle" /\ s \in held
    /\ arg' = [arg EXCEPT ![s] = k]
    /\ woken' = woken \ {s}
    /\ waits' = waits \ {s}
    /\ Goto(s, IF EndFlag(s) \in flags THEN "end"
               ELSE IF "CLOSED" \in flags THEN "closed"
               ELSE IF TaskFlag(s) \in flags THEN "will_wake" ELSE "set_task")
    /\ UNCHANGED <<flags, value, task, held, sent, got>>

Pending(s) ==
    /\ Goto(s, "idle")
    /\ waits' = waits \cup {s}

WillWake(s) ==
    /\ pc[s] = "will_wake"
    /\ IF task[s] = arg[s] THEN Pending(s)
       ELSE Goto(s, "unset") /\ UNCHANGED waits
    /\ UNCHANGED <<flags, value, task, held, arg, sent, got, woken>>

\* The flag is taken back; the other side may have ended in the meantime.
Unset(s) ==
    /\ pc[s] = "unset"
    /\ flags' = flags \ {TaskFlag(s)}
    /\ Goto(s, IF EndFlag(s) \in flags THEN "set_again" ELSE "drop_task")
    /\ UNCHANGED <<value, task, held, arg, sent, got, waits, woken>>

\* The waker stays for Inner::drop.
SetAgain(s) ==
    /\ pc[s] = "set_again"
    /\ flags' = flags \cup {TaskFlag(s)}
    /\ Goto(s, "end")
    /\ UNCHANGED <<value, task, held, arg, sent, got, waits, woken>>

DropTask(s) ==
    /\ pc[s] = "drop_task"
    /\ task' = [task EXCEPT ![s] = Empty]
    /\ Goto(s, "set_task")
    /\ UNCHANGED <<flags, value, held, arg, sent, got, waits, woken>>

SetTask(s) ==
    /\ pc[s] = "set_task"
    /\ task' = [task EXCEPT ![s] = arg[s]]
    /\ Goto(s, "set_flag")
    /\ UNCHANGED <<flags, value, held, arg, sent, got, waits, woken>>

\* Variant: the word that the exchange returned is not looked at.
SetFlag_NoLook(s) ==
    /\ pc[s] = "set_flag"
    /\ flags' = flags \cup {TaskFlag(s)}
    /\ Pending(s)
    /\ UNCHANGED <<value, task, held, arg, sent, got, woken>>

\* The flag goes up, and the word tells whether it was too late.
SetFlag(s) ==
    /\ pc[s] = "set_flag"
    /\ flags' = flags \cup {TaskFlag(s)}
    /\ IF EndFlag(s) \in flags THEN Goto(s, "end") /\ UNCHANGED waits
                               ELSE Pending(s)
    /\ UNCHANGED <<value, task, held, arg, sent, got, woken>>

\* poll_closed returns Ready.
Closed ==
    /\ pc["tx"] = "end"
    /\ Goto("tx", "idle")
    /\ UNCHANGED <<flags, value, task, held, arg, sent, got, waits, woken>>

\* The word was complete: the receiver takes what is in the cell, and is told
\* an error when the sender went without a value.  A value ends the Receiver;
\* poll returns an error by `?` and keeps its Inner.
Consume ==
    /\ pc["rx"] = "end"
    /\ \/ /\ value
          /\ got' = "Value"
          /\ LetGo("rx", FALSE)
       \/ /\ ~value
          /\ got' = "Err"
          /\ UNCHANGED <<flags, value, task, held>>
    /\ Goto("rx", "idle")
    /\ UNCHANGED <<arg, sent, waits, woken>>

\* The receiver itself had closed the channel, and no value came before.
FailClosed ==
    /\ pc["rx"] = "closed"
    /\ got' = "Err"
    /\ Goto("rx", "idle")
    /\ UNCHANGED <<flags, value, task, held, arg, sent, waits, woken>>

\* try_recv: one look at the word; Empty changes nothing, the others end the
\* Receiver.
TryRecv ==
    /\ pc["rx"] = "idle" /\ "rx" \in held
    /\ \/ /\ "VALUE_SENT" \in flags
          /\ Goto("rx", "try_end")
       \/ /\ "VALUE_SENT" \notin flags
          /\ "CLOSED" \in flags
          /\ Goto("rx", "try_closed")
    /\ waits' = waits \ {"rx"}
    /\ UNCHANGED <<flags, value, task, held, arg, sent, got, woken>>

TryReturn ==
    /\ pc["rx"] \in {"try_end", "try_closed"}
    /\ LET taken == value /\ pc["rx"] = "try_end" IN
       /\ got' = IF taken THEN "Value" ELSE "Err"
       /\ LetGo("rx", value /\ ~taken)
    /\ Goto("rx", "idle")
    /\ UNCHANGED <<arg, sent, waits, woken>>

-----------------------------------------------------------------------------
(* The sender sends or goes; the receiver closes or goes.                  *)

\* The value is written before the flag says so.
Send ==
    /\ pc["tx"] = "idle" /\ "tx" \in held
    /\ value' = TRUE
    /\ sent' = "Trying"
    /\ waits' = waits \ {"tx"}
    /\ Goto("tx", "complete")
    /\ UNCHANGED <<flags, task, held, arg, got, woken>>

DropSender ==
    /\ pc["tx"] = "idle" /\ "tx" \in held
    /\ waits' = waits \ {"tx"}
    /\ Goto("tx", "complete")
    /\ UNCHANGED <<flags, value, task, held, arg, sent, got, woken>>

\* set_complete: the loop of exchanges takes effect in the one that succeeds,
\* or in the look that finds the channel closed.
SetComplete ==
    /\ pc["tx"] = "complete"
    /\ \/ /\ "CLOSED" \in flags
          /\ Goto("tx", "take_back")
          /\ UNCHANGED flags
       \/ /\ "CLOSED" \notin flags
          /\ flags' = flags \cup {"VALUE_SENT"}
          /\ Goto("tx", IF "RX_TASK_SET" \in flags THEN "wake" ELSE "return")
    /\ UNCHANGED <<value, task, held, arg, sent, got, waits, woken>>

\* send on a closed channel takes its value out of the cell again.
TakeBack ==
    /\ pc["tx"] = "take_back"
    /\ sent' = IF sent = "Trying" THEN "Err" ELSE "Dropped"
    /\ LetGo("tx", FALSE)
    /\ Goto("tx", "idle")
    /\ UNCHANGED <<arg, got, waits, woken>>

\* complete and close wake the other side through its cell.
WakeOther(s) ==
    /\ pc[s] \in {"wake", "wake_stay"}
    /\ woken' = IF task[Other(s)] = arg[Other(s)] THEN woken \cup {Other(s)}
                                                  ELSE woken
    /\ Goto(s, IF pc[s] = "wake_stay" THEN "idle" ELSE "return")
    /\ UNCHANGED <<flags, value, task, held, arg, sent, got, waits>>

\* The handle is gone, and with it its reference to the Inner.
ReturnAndLetGo(s) ==
    /\ pc[s] = "return"
    /\ LetGo(s, value)
    /\ sent' = IF s = "rx" THEN sent
               ELSE IF sent = "Trying" THEN "Ok" ELSE "Dropped"
    /\ Goto(s, "idle")
    /\ UNCHANGED <<arg, got, waits, woken>>

\* Variant: close wakes whatever the word said about a waker.
CloseReceiver_Always(drop) ==
    /\ pc["rx"] = "idle" /\ "rx" \in held
    /\ flags' = flags \cup {"CLOSED"}
    /\ waits' = waits \ {"rx"}
    /\ Goto("rx", IF drop THEN "wake" ELSE "wake_stay")
    /\ UNCHANGED <<value, task, held, arg, sent, got, woken>>

\* close, and the drop of a Receiver that has not got its value
CloseReceiver(drop) ==
    /\ pc["rx"] = "idle" /\ "rx" \in held
    /\ flags' = flags \cup {"CLOSED"}
    /\ waits' = waits \ {"rx"}
    /\ Goto("rx",
          IF "TX_TASK_SET" \in flags /\ "VALUE_SENT" \notin flags
          THEN (IF drop THEN "wake" ELSE "wake_stay")
          ELSE (IF drop THEN "return" ELSE "idle"))
    /\ UNCHANGED <<value, task, held, arg, sent, got, woken>>

Close == CloseReceiver(FALSE)
DropReceiver == CloseReceiver(TRUE)

-----------------------------------------------------------------------------

PollStep(s) ==
    \/ WillWake(s)
    \/ Unset(s)
    \/ SetAgain(s)
    \/ DropTask(s)
    \/ SetTask(s)
    \/ SetFlag(s)

SideStep(s) ==
    \/ PollStep(s)
    \/ WakeOther(s)
    \/ ReturnAndLetGo(s)

TxStep == Closed \/ SetComplete \/ TakeBack
RxStep == Consume \/ FailClosed \/ TryReturn

Next ==
    \/ \E s \in Sides, k \in Tasks : PollLoad(s, k)
    \/ \E s \in Sides : SideStep(s)
    \/ TxStep
    \/ RxStep
    \/ TryRecv
    \/ Send
    \/ DropSender
    \/ Close
    \/ DropReceiver

Spec == Init /\ [][Next]_vars

\* A call that began goes on, and a task that was woken polls its side again.
Fairness ==
    /\ \A s \in Sides :
        /\ WF_vars(SideStep(s))
        /\ WF_vars(s \in woken /\ \E k \in Tasks : k = arg[s] /\ PollLoad(s, k))
    /\ WF_vars(TxStep)
    /\ WF_vars(RxStep)

FairSpec == Spec /\ Fairness

-----------------------------------------------------------------------------

TypeOK ==
    /\ flags \in SUBSET Flags
    /\ value \in BOOLEAN
    /\ task \in [Sides -> Tasks \cup {Empty}]
    /\ held \in SUBSET Sides
    /\ arg \in [Sides -> Tasks \cup {Empty}]
    /\ sent \in {"No", "Trying", "Ok", "Err", "Dropped"}
    /\ got \in {"No", "Value", "Err"}
    /\ waits \in SUBSET Sides
    /\ woken \in SUBSET Sides

\* The cells have no lock: what the flags promise must keep the two threads
\* apart.  A side that reads a waker (with_task, will_wake) finds one, which
\* its owner is not replacing; set_task never overwrites a waker it would
\* leak; the value is not taken by both; and the last owner leaves nothing.
CellsSafe ==
    /\ \A s \in Sides :
        /\ pc[s] \in {"will_wake", "drop_task"} => task[s] # Empty
        /\ pc[s] = "set_task" => task[s] = Empty
        /\ pc[Other(s)] \in {"wake", "wake_stay"} =>
              /\ task[s] # Empty
              /\ pc[s] \notin {"drop_task", "set_task"}
    /\ pc["tx"] = "take_back" /\ sent = "Trying" => value
    /\ ~(/\ pc["tx"] \in {"complete", "take_back"}
         /\ pc["rx"] \in {"end", "try_end"})
    /\ held = {} => /\ ~value
                    /\ \A s \in Sides : task[s] = Empty

\* The two ends agree on the value: a send that returned Ok is an answer to
\* the receiver, which gets the value or gave up the channel, never an error;
\* a send that got its value back left none; and no value comes from nowhere.
EndsAgree ==
    /\ sent = "Ok" => got # "Err"
    /\ got = "Value" => sent \in {"Trying", "Ok"}
    /\ sent = "Ok" /\ got = "No" /\ "rx" \in held => value

\* A side that was told to wait hears of the end of the other: the value or
\* the drop of the sender, and the close or the drop of the receiver.
EndIsHeard ==
    \A s \in Sides :
        (s \in waits /\ EndFlag(s) \in flags /\ arg[s] # Empty)
            ~> (s \notin waits)

\* Both at once: the flags alone keep the two threads apart and of one mind.
EndsSound == CellsSafe /\ EndsAgree
=============================================================================
