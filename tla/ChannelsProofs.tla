--------------------------- MODULE ChannelsProofs ---------------------------
(***************************************************************************)
(* The four flags of a oneshot channel keep the two threads apart and of   *)
(* one mind, for any number of tasks that poll the sides.                  *)
(*                                                                         *)
(* The list of blocks, for any number of senders, addresses, slots of a    *)
(* block and attempts to reuse one.  The blocks in the list are one chain  *)
(* from freeHead on, each after the other (Chain); outside it each block   *)
(* is clean and one thread's alone (Outside).  A slot that was claimed is  *)
(* its sender's until it is written, and its place in the chain cannot be  *)
(* taken back before it was read: the tail passes a block only when all    *)
(* its slots are written, and who was in it then has claimed a slot before *)
(* the position that the tail's mover observes (Passed), which the         *)
(* receiver must have read when it reclaims.                               *)
(***************************************************************************)
EXTENDS MCChannels, Integers, TLAPS

-----------------------------------------------------------------------------
(* Oneshot                                                                 *)

\* Places of a poll, and among them those at which the flag of the side does
\* not tell what is in its cell.
Installing == {"will_wake", "unset", "set_again", "drop_task", "set_task", "set_flag"}
Waking == {"wake", "wake_stay"}

OneshotTypes ==
    /\ flags \in SUBSET Flags
    /\ value \in BOOLEAN
    /\ task \in [Sides -> Tasks \cup {Empty}]
    /\ arg \in [Sides -> Tasks \cup {Empty}]
    /\ held \in SUBSET Sides
    /\ sent \in {"No", "Trying", "Ok", "Err", "Dropped"}
    /\ got \in {"No", "Value", "Err"}
    /\ pc = [s \in Sides |-> pc[s]]
    /\ pc["tx"] \in Installing \cup {"idle", "end", "complete", "take_back", "wake", "return"}
    /\ pc["rx"] \in Installing \cup Waking
                    \cup {"idle", "end", "closed", "try_end", "try_closed", "return"}

\* A side that is in a call has its Inner; without owners nothing is left.
Owned ==
    /\ \A s \in Sides : pc[s] # "idle" => s \in held
    /\ held = {} => ~value /\ \A s \in Sides : task[s] = Empty

\* What is in the cell of a side: as its flag says, except in the steps that
\* the side makes with its flag down.
Cell ==
    \A s \in Sides :
        /\ pc[s] \in Installing => arg[s] # Empty
        /\ pc[s] \in {"will_wake", "unset"} => TaskFlag(s) \in flags
        /\ pc[s] \in {"set_again", "drop_task", "set_task", "set_flag"} => TaskFlag(s) \notin flags
        /\ pc[s] = "set_task" => task[s] = Empty
        /\ pc[s] \in {"set_again", "drop_task", "set_flag"} => task[s] # Empty
        /\ held # {} /\ pc[s] \notin {"set_again", "drop_task", "set_flag"} =>
              (task[s] # Empty <=> TaskFlag(s) \in flags)

\* Who is about to wake the other side has raised the flag that keeps it from
\* touching its cell.
WakeSafe ==
    \A s \in Sides :
        pc[Other(s)] \in Waking =>
            /\ EndFlag(s) \in flags
            /\ task[s] # Empty
            /\ pc[s] \notin {"drop_task", "set_task", "set_flag"}

\* VALUE_SENT is the sender's last word, and CLOSED comes before it or too late.
Word ==
    /\ pc["tx"] \in {"wake", "return"} => "VALUE_SENT" \in flags
    /\ "VALUE_SENT" \in flags => pc["tx"] \in {"wake", "return"} \/ "tx" \notin held
    /\ pc["rx"] \in {"end", "try_end", "set_again"} => "VALUE_SENT" \in flags
    /\ pc["rx"] \in {"closed", "try_closed"} =>
          "CLOSED" \in flags /\ "VALUE_SENT" \notin flags

\* Where the sender's value is, and what it is told of it.
SendersPart ==
    /\ sent = "Trying" => pc["tx"] \in {"complete", "take_back", "wake", "return"}
    /\ sent = "No" <=> "tx" \in held /\ sent # "Trying"
    /\ sent = "Ok" => "VALUE_SENT" \in flags
    /\ value => sent \in {"Trying", "Ok"}
    /\ pc["tx"] \in {"complete", "take_back"} /\ sent = "Trying" => value

\* What the receiver was told.
ReceiversPart ==
    /\ "VALUE_SENT" \in flags /\ sent \in {"Trying", "Ok"} /\ "rx" \in held => value
    /\ got = "Value" => /\ sent \in {"Trying", "Ok"}
                        /\ "VALUE_SENT" \in flags /\ "rx" \notin held
    /\ got = "Err" =>
          \/ "CLOSED" \in flags /\ "VALUE_SENT" \notin flags
          \/ "VALUE_SENT" \in flags /\ sent \notin {"Trying", "Ok"}

Fate == SendersPart /\ ReceiversPart

OneshotInv == OneshotTypes /\ Owned /\ Cell /\ WakeSafe /\ Word /\ Fate

-----------------------------------------------------------------------------
(* One lemma for each step of either side.                                 *)

\* The first handle that goes leaves the cells alone, the last one empties them.
LEMMA LetGoLeaves ==
    ASSUME OneshotInv, NEW s \in Sides, NEW v \in BOOLEAN,
           pc[s] \in {"return", "take_back", "end", "try_end", "try_closed"},
           LetGo(s, v)
    PROVE  /\ held' = held \ {s} /\ flags' = flags
           /\ held' # {} => task' = task /\ value' = v
           /\ held' = {} => value' = FALSE /\ task' = [t \in Sides |-> Empty]
<1> USE DEF OneshotInv
<1>1. s \in held /\ held \in SUBSET Sides
  BY DEF Owned, OneshotTypes
<1>2. held' = held \ {s} /\ flags' = flags
  BY DEF LetGo
<1>3. (held = {s}) <=> (held' = {})
  BY <1>1, <1>2
<1>4. ASSUME held # {s}
      PROVE  task' = task /\ value' = v
  BY <1>4 DEF LetGo
<1>5. ASSUME held = {s}
      PROVE  value' = FALSE /\ task' = [t \in Sides |-> Empty]
  <2>1. value' = FALSE
    BY <1>5 DEF LetGo
  <2>2. task' = [t \in Sides |-> IF TaskFlag(t) \in flags THEN Empty ELSE task[t]]
    BY <1>5 DEF LetGo
  <2>3. ASSUME NEW t \in Sides, TaskFlag(t) \notin flags
        PROVE  task[t] = Empty
    <3>1. pc[t] \notin {"set_again", "drop_task", "set_flag"}
      BY <1>5, <2>3 DEF Owned, Sides
    <3> QED BY <1>5, <2>3, <3>1 DEF Cell
  <2> QED BY <2>1, <2>2, <2>3
<1> QED BY <1>2, <1>3, <1>4, <1>5

\* A poll looks at the word first, and begins nothing when it is over.
LEMMA PollLoadKeeps ==
    ASSUME OneshotInv, NEW s \in Sides, NEW k \in Tasks, PollLoad(s, k)
    PROVE  OneshotInv'
<1> USE DEF OneshotInv, OneshotTypes, Fate, Sides, Other, Flags, TaskFlag, EndFlag,
            Installing, Waking, PollLoad, Goto
<1>1. OneshotTypes'
  BY DEF Owned, Word
<1>2. Owned'
  BY DEF Owned
<1>3. Cell'
  BY EmptyAssumption DEF Owned, Cell
<1>4. WakeSafe'
  BY DEF Owned, Cell, WakeSafe
<1>5. Word'
  BY DEF Owned, Cell, Word
<1>6. SendersPart'
  BY DEF Owned, Word, SendersPart
<1>7. ReceiversPart'
  BY DEF Owned, Word, SendersPart, ReceiversPart
<1> QED BY <1>1, <1>2, <1>3, <1>4, <1>5, <1>6, <1>7

\* The waker in the cell is compared with the new one.
LEMMA WillWakeKeeps ==
    ASSUME OneshotInv, NEW s \in Sides, WillWake(s)
    PROVE  OneshotInv'
<1> USE DEF OneshotInv, OneshotTypes, Fate, Sides, Other, Flags, TaskFlag, EndFlag,
            Installing, Waking, WillWake, Pending, Goto
<1>1. OneshotTypes'
  BY DEF Owned, Word
<1>2. Owned'
  BY DEF Owned
<1>3. Cell'
  BY DEF Owned, Cell
<1>4. WakeSafe'
  BY DEF Owned, Cell, WakeSafe
<1>5. Word'
  BY DEF Owned, Cell, Word
<1>6. SendersPart'
  BY DEF Owned, Word, SendersPart
<1>7. ReceiversPart'
  BY DEF Owned, Word, SendersPart, ReceiversPart
<1> QED BY <1>1, <1>2, <1>3, <1>4, <1>5, <1>6, <1>7

\* The flag goes down before the waker is replaced.
LEMMA UnsetKeeps ==
    ASSUME OneshotInv, NEW s \in Sides, Unset(s)
    PROVE  OneshotInv'
<1> USE DEF OneshotInv, OneshotTypes, Fate, Sides, Other, Flags, TaskFlag, EndFlag,
            Installing, Waking, Unset, Goto
<1>1. OneshotTypes'
  BY DEF Owned, Word
<1>2. Owned'
  BY DEF Owned
<1>3. Cell'
  BY DEF Owned, Cell
<1>4. WakeSafe'
  BY DEF Owned, Cell, WakeSafe
<1>5. Word'
  BY DEF Owned, Cell, Word
<1>6. SendersPart'
  BY DEF Owned, Word, SendersPart
<1>7. ReceiversPart'
  BY DEF Owned, Word, SendersPart, ReceiversPart
<1> QED BY <1>1, <1>2, <1>3, <1>4, <1>5, <1>6, <1>7

\* The flag goes up again when the other side ended meanwhile.
LEMMA SetAgainKeeps ==
    ASSUME OneshotInv, NEW s \in Sides, SetAgain(s)
    PROVE  OneshotInv'
<1> USE DEF OneshotInv, OneshotTypes, Fate, Sides, Other, Flags, TaskFlag, EndFlag,
            Installing, Waking, SetAgain, Goto
<1>1. OneshotTypes'
  BY DEF Owned, Word
<1>2. Owned'
  BY DEF Owned
<1>3. Cell'
  BY DEF Owned, Cell
<1>4. WakeSafe'
  BY DEF Owned, Cell, WakeSafe
<1>5. Word'
  BY DEF Owned, Cell, Word
<1>6. SendersPart'
  BY DEF Owned, Word, SendersPart
<1>7. ReceiversPart'
  BY DEF Owned, Word, SendersPart, ReceiversPart
<1> QED BY <1>1, <1>2, <1>3, <1>4, <1>5, <1>6, <1>7

\* The old waker is dropped while the flag is down.
LEMMA DropTaskKeeps ==
    ASSUME OneshotInv, NEW s \in Sides, DropTask(s)
    PROVE  OneshotInv'
<1> USE DEF OneshotInv, OneshotTypes, Fate, Sides, Other, Flags, TaskFlag, EndFlag,
            Installing, Waking, DropTask, Goto
<1>1. OneshotTypes'
  BY DEF Owned, Word
<1>2. Owned'
  BY DEF Owned
<1>3. Cell'
  BY DEF Owned, Cell
<1>4. WakeSafe'
  BY DEF Owned, Cell, WakeSafe
<1>5. Word'
  BY DEF Owned, Cell, Word
<1>6. SendersPart'
  BY DEF Owned, Word, SendersPart
<1>7. ReceiversPart'
  BY DEF Owned, Word, SendersPart, ReceiversPart
<1> QED BY <1>1, <1>2, <1>3, <1>4, <1>5, <1>6, <1>7

\* The new one is written while the flag is down.
LEMMA SetTaskKeeps ==
    ASSUME OneshotInv, NEW s \in Sides, SetTask(s)
    PROVE  OneshotInv'
<1> USE DEF OneshotInv, OneshotTypes, Fate, Sides, Other, Flags, TaskFlag, EndFlag,
            Installing, Waking, SetTask, Goto
<1>1. OneshotTypes'
  BY DEF Owned, Word
<1>2. Owned'
  BY DEF Owned
<1>3. Cell'
  BY DEF Owned, Cell
<1>4. WakeSafe'
  BY DEF Owned, Cell, WakeSafe
<1>5. Word'
  BY DEF Owned, Cell, Word
<1>6. SendersPart'
  BY DEF Owned, Word, SendersPart
<1>7. ReceiversPart'
  BY DEF Owned, Word, SendersPart, ReceiversPart
<1> QED BY <1>1, <1>2, <1>3, <1>4, <1>5, <1>6, <1>7

\* The flag goes up, and the exchange returns the word as it was.
LEMMA SetFlagKeeps ==
    ASSUME OneshotInv, NEW s \in Sides, SetFlag(s)
    PROVE  OneshotInv'
<1> USE DEF OneshotInv, OneshotTypes, Fate, Sides, Other, Flags, TaskFlag, EndFlag,
            Installing, Waking, SetFlag, Pending, Goto
<1>1. OneshotTypes'
  BY DEF Owned, Word
<1>2. Owned'
  BY DEF Owned
<1>3. Cell'
  BY DEF Owned, Cell
<1>4. WakeSafe'
  BY DEF Owned, Cell, WakeSafe
<1>5. Word'
  BY DEF Owned, Cell, Word
<1>6. SendersPart'
  BY DEF Owned, Word, SendersPart
<1>7. ReceiversPart'
  BY DEF Owned, Word, SendersPart, ReceiversPart
<1> QED BY <1>1, <1>2, <1>3, <1>4, <1>5, <1>6, <1>7

\* The other side's waker is used.
LEMMA WakeOtherKeeps ==
    ASSUME OneshotInv, NEW s \in Sides, WakeOther(s)
    PROVE  OneshotInv'
<1> USE DEF OneshotInv, OneshotTypes, Fate, Sides, Other, Flags, TaskFlag, EndFlag,
            Installing, Waking, WakeOther, Goto
<1>1. OneshotTypes'
  BY DEF Owned, Word
<1>2. Owned'
  BY DEF Owned
<1>3. Cell'
  BY DEF Owned, Cell
<1>4. WakeSafe'
  BY DEF Owned, Cell, WakeSafe
<1>5. Word'
  BY DEF Owned, Cell, Word
<1>6. SendersPart'
  BY DEF Owned, Word, SendersPart
<1>7. ReceiversPart'
  BY DEF Owned, Word, SendersPart, ReceiversPart
<1> QED BY <1>1, <1>2, <1>3, <1>4, <1>5, <1>6, <1>7

\* A handle goes.
LEMMA ReturnAndLetGoKeeps ==
    ASSUME OneshotInv, NEW s \in Sides, ReturnAndLetGo(s)
    PROVE  OneshotInv'
<1> USE DEF OneshotInv, OneshotTypes, Fate, Sides, Other, Flags, TaskFlag, EndFlag,
            Installing, Waking, ReturnAndLetGo, LetGo, Goto
<1>1. OneshotTypes'
  BY DEF Owned, Word
<1>2. Owned'
  <2>1. /\ held' = held \ {s}
        /\ held' = {} => value' = FALSE /\ task' = [t \in Sides |-> Empty]
    BY LetGoLeaves
  <2> QED BY <2>1 DEF Owned
<1>3. Cell'
  BY DEF Owned, Cell
<1>4. WakeSafe'
  BY DEF Owned, Cell, WakeSafe
<1>5. Word'
  BY DEF Owned, Cell, Word
<1>6. SendersPart'
  BY DEF Owned, Word, SendersPart
<1>7. ReceiversPart'
  BY DEF Owned, Word, SendersPart, ReceiversPart
<1> QED BY <1>1, <1>2, <1>3, <1>4, <1>5, <1>6, <1>7

\* The sender's end and the look at CLOSED are one exchange.
LEMMA SetCompleteKeeps ==
    ASSUME OneshotInv, SetComplete
    PROVE  OneshotInv'
<1> USE DEF OneshotInv, OneshotTypes, Fate, Sides, Other, Flags, TaskFlag, EndFlag,
            Installing, Waking, SetComplete, Goto
<1>1. OneshotTypes'
  BY DEF Owned, Word
<1>2. Owned'
  BY DEF Owned, Cell
<1>3. Cell'
  BY DEF Owned, Cell
<1>4. WakeSafe'
  BY DEF Owned, Cell, WakeSafe
<1>5. Word'
  BY DEF Owned, Cell, Word
<1>6. SendersPart'
  BY DEF Owned, Word, SendersPart
<1>7. ReceiversPart'
  BY DEF Owned, Word, SendersPart, ReceiversPart
<1> QED BY <1>1, <1>2, <1>3, <1>4, <1>5, <1>6, <1>7

\* A send that came too late takes its value out of the cell.
LEMMA TakeBackKeeps ==
    ASSUME OneshotInv, TakeBack
    PROVE  OneshotInv'
<1> USE DEF OneshotInv, OneshotTypes, Fate, Sides, Other, Flags, TaskFlag, EndFlag,
            Installing, Waking, TakeBack, LetGo, Goto
<1>1. OneshotTypes'
  BY DEF Owned, Word
<1>2. Owned'
  <2>1. /\ held' = held \ {"tx"}
        /\ held' = {} => value' = FALSE /\ task' = [t \in Sides |-> Empty]
    BY LetGoLeaves
  <2> QED BY <2>1 DEF Owned
<1>3. Cell'
  BY DEF Owned, Cell
<1>4. WakeSafe'
  BY DEF Owned, Cell, WakeSafe
<1>5. Word'
  BY DEF Owned, Cell, Word
<1>6. SendersPart'
  BY DEF Owned, Word, SendersPart
<1>7. ReceiversPart'
  BY DEF Owned, Word, SendersPart, ReceiversPart
<1> QED BY <1>1, <1>2, <1>3, <1>4, <1>5, <1>6, <1>7

\* The receiver takes what it was sent.
LEMMA ConsumeKeeps ==
    ASSUME OneshotInv, Consume
    PROVE  OneshotInv'
<1> USE DEF OneshotInv, OneshotTypes, Fate, Sides, Other, Flags, TaskFlag, EndFlag,
            Installing, Waking, Consume, LetGo, Goto
<1>1. OneshotTypes'
  <2>1. value' \in BOOLEAN /\ task' \in [Sides -> Tasks \cup {Empty}]
    BY LetGoLeaves
  <2> QED BY <2>1 DEF Owned, Word
<1>2. Owned'
  <2>1. CASE value
    <3>1. /\ held' = held \ {"rx"}
          /\ held' = {} => value' = FALSE /\ task' = [t \in Sides |-> Empty]
      BY <2>1, LetGoLeaves
    <3> QED BY <3>1 DEF Owned
  <2>2. CASE ~value
    BY <2>2 DEF Owned
  <2> QED BY <2>1, <2>2
<1>3. Cell'
  BY DEF Owned, Cell
<1>4. WakeSafe'
  BY DEF Owned, Cell, WakeSafe
<1>5. Word'
  BY DEF Owned, Cell, Word
<1>6. SendersPart'
  BY DEF Owned, Word, SendersPart
<1>7. ReceiversPart'
  BY DEF Owned, Word, SendersPart, ReceiversPart
<1> QED BY <1>1, <1>2, <1>3, <1>4, <1>5, <1>6, <1>7

\* So does try_recv.
LEMMA TryReturnKeeps ==
    ASSUME OneshotInv, TryReturn
    PROVE  OneshotInv'
<1> USE DEF OneshotInv, OneshotTypes, Fate, Sides, Other, Flags, TaskFlag, EndFlag,
            Installing, Waking, TryReturn, LetGo, Goto
<1>1. OneshotTypes'
  BY DEF Owned, Word
<1>2. Owned'
  <2>1. /\ held' = held \ {"rx"}
        /\ held' = {} => value' = FALSE /\ task' = [t \in Sides |-> Empty]
    BY LetGoLeaves
  <2> QED BY <2>1 DEF Owned
<1>3. Cell'
  BY DEF Owned, Cell
<1>4. WakeSafe'
  BY DEF Owned, Cell, WakeSafe
<1>5. Word'
  BY DEF Owned, Cell, Word
<1>6. SendersPart'
  BY DEF Owned, Word, SendersPart
<1>7. ReceiversPart'
  BY DEF Owned, Word, SendersPart, ReceiversPart
<1> QED BY <1>1, <1>2, <1>3, <1>4, <1>5, <1>6, <1>7

\* Looks at the word that change no cell.
LEMMA SimpleKeeps ==
    ASSUME OneshotInv, Closed \/ FailClosed \/ TryRecv
    PROVE  OneshotInv'
<1> USE DEF OneshotInv, OneshotTypes, Fate, Sides, Other, Flags, TaskFlag, EndFlag,
            Installing, Waking, Closed, FailClosed, TryRecv, Goto
<1>1. OneshotTypes'
  BY DEF Owned, Word
<1>2. Owned'
  BY DEF Owned, Cell
<1>3. Cell'
  BY DEF Owned, Cell
<1>4. WakeSafe'
  BY DEF Owned, Cell, WakeSafe
<1>5. Word'
  BY DEF Owned, Cell, Word
<1>6. SendersPart'
  BY DEF Owned, Word, SendersPart
<1>7. ReceiversPart'
  BY DEF Owned, Word, SendersPart, ReceiversPart
<1> QED BY <1>1, <1>2, <1>3, <1>4, <1>5, <1>6, <1>7

\* The sender begins its last call.
LEMMA BeginKeeps ==
    ASSUME OneshotInv, Send \/ DropSender
    PROVE  OneshotInv'
<1> USE DEF OneshotInv, OneshotTypes, Fate, Sides, Other, Flags, TaskFlag, EndFlag,
            Installing, Waking, Send, DropSender, Goto
<1>1. OneshotTypes'
  BY DEF Owned, Word
<1>2. Owned'
  BY DEF Owned, Cell
<1>3. Cell'
  BY DEF Owned, Cell
<1>4. WakeSafe'
  BY DEF Owned, Cell, WakeSafe
<1>5. Word'
  BY DEF Owned, Cell, Word
<1>6. SendersPart'
  BY DEF Owned, Word, SendersPart
<1>7. ReceiversPart'
  BY DEF Owned, Word, SendersPart, ReceiversPart
<1> QED BY <1>1, <1>2, <1>3, <1>4, <1>5, <1>6, <1>7

\* close, and the drop of the receiver.
LEMMA CloseReceiverKeeps ==
    ASSUME OneshotInv, NEW drop \in BOOLEAN, CloseReceiver(drop)
    PROVE  OneshotInv'
<1> USE DEF OneshotInv, OneshotTypes, Fate, Sides, Other, Flags, TaskFlag, EndFlag,
            Installing, Waking, CloseReceiver, Goto
<1>1. OneshotTypes'
  BY DEF Owned, Word
<1>2. Owned'
  BY DEF Owned, Cell
<1>3. Cell'
  BY DEF Owned, Cell
<1>4. WakeSafe'
  BY DEF Owned, Cell, WakeSafe
<1>5. Word'
  BY DEF Owned, Cell, Word
<1>6. SendersPart'
  BY DEF Owned, Word, SendersPart
<1>7. ReceiversPart'
  BY DEF Owned, Word, SendersPart, ReceiversPart
<1> QED BY <1>1, <1>2, <1>3, <1>4, <1>5, <1>6, <1>7

-----------------------------------------------------------------------------

\* `channel` makes an empty cell with both handles.
LEMMA OneshotInit == Init => OneshotInv
  BY DEF Init, OneshotInv, OneshotTypes, Owned, Cell, WakeSafe, Word, Fate,
         SendersPart, ReceiversPart, Sides, Other, TaskFlag, EndFlag, Flags,
         Installing, Waking

LEMMA OneshotStep ==
    ASSUME OneshotInv, [Next]_vars
    PROVE  OneshotInv'
<1>1. CASE UNCHANGED vars
  BY <1>1 DEF vars, OneshotInv, OneshotTypes, Owned, Cell, WakeSafe, Word, Fate,
              SendersPart, ReceiversPart
<1>2. ASSUME NEW s \in Sides, NEW k \in Tasks, PollLoad(s, k)
      PROVE  OneshotInv'
  BY <1>2, PollLoadKeeps
<1>3. ASSUME NEW s \in Sides, SideStep(s)
      PROVE  OneshotInv'
  BY <1>3, WillWakeKeeps, UnsetKeeps, SetAgainKeeps, DropTaskKeeps, SetTaskKeeps,
     SetFlagKeeps, WakeOtherKeeps, ReturnAndLetGoKeeps DEF SideStep, PollStep
<1>4. CASE TxStep \/ RxStep \/ TryRecv
  BY <1>4, SetCompleteKeeps, TakeBackKeeps, ConsumeKeeps, TryReturnKeeps, SimpleKeeps
     DEF TxStep, RxStep
<1>5. CASE Send \/ DropSender
  BY <1>5, BeginKeeps
<1>6. CASE Close \/ DropReceiver
  BY <1>6, CloseReceiverKeeps DEF Close, DropReceiver
<1> QED BY <1>1, <1>2, <1>3, <1>4, <1>5, <1>6 DEF Next

\* What the flags promise is what the unlocked cells and both ends need.
LEMMA PromiseKept == OneshotInv => EndsSound
<1> SUFFICES ASSUME OneshotInv
             PROVE  EndsSound
  OBVIOUS
<1> USE DEF OneshotInv, OneshotTypes, Fate, Sides, Other, TaskFlag, EndFlag,
            Installing, Waking
<1>1. \A s \in Sides :
        /\ pc[s] \in {"will_wake", "drop_task"} => task[s] # Empty
        /\ pc[s] = "set_task" => task[s] = Empty
        /\ pc[Other(s)] \in {"wake", "wake_stay"} =>
              task[s] # Empty /\ pc[s] \notin {"drop_task", "set_task"}
  BY DEF Owned, Cell, WakeSafe
<1>2. CellsSafe
  BY <1>1 DEF CellsSafe, Owned, Word, SendersPart
<1>3. EndsAgree
  BY DEF EndsAgree, Word, SendersPart, ReceiversPart
<1> QED BY <1>2, <1>3 DEF EndsSound

\* The unlocked cells of oneshot.rs are used by one thread at a time, nothing is
\* left in them, and sender and receiver agree on the fate of the value.
THEOREM EndsAreSound == Spec => []EndsSound
<1>1. OneshotInv /\ [Next]_vars => OneshotInv'
  BY OneshotStep
<1> QED BY <1>1, OneshotInit, PromiseKept, PTL DEF Spec

-----------------------------------------------------------------------------
(* The list of blocks: its inductive invariant                             *)

Listed == {b \in Addr : blk[b].own = "list"}

\* Where a block may start.
Starts == {n \in Nat : B!StartIndex(n) = n}

\* A sender between its fetch_add and its write; one that has a block in hand;
\* one whose block is not that of its slot.
Active(s) == place[s] # "idle"
Walking(s) == place[s] \notin {"idle", "load"}
Behind(s) == place[s] \in {"grow", "append", "final", "swap", "observe", "release"}

Pointers == Addr \cup {Null}

BlockRecords ==
    [own : {"free", "list", "new", "spare"}, start : Nat, next : Pointers,
     ready : SUBSET B!Offsets, released : BOOLEAN, closed : BOOLEAN,
     observed : Nat, val : [B!Offsets -> Int]]

Locals ==
    [slot : Nat, ptr : Pointers, next : Pointers, fresh : Pointers,
     curr : Pointers, trying : BOOLEAN, close : BOOLEAN]

BlockTypes ==
    /\ blk \in [Addr -> BlockRecords]
    /\ blockTail \in Addr /\ tail \in Nat /\ handles \in SUBSET Senders
    /\ place \in [Senders -> {"idle", "load", "walk", "grow", "append", "final",
                              "swap", "observe", "release"}]
    /\ me \in [Senders -> Locals]
    /\ head \in Addr /\ index \in Nat /\ freeHead \in Pointers
    /\ rpc \in {"idle", "head", "reclaim", "place", "push", "read"}
    /\ victim \in Pointers /\ curr \in Pointers /\ tries \in Nat
    /\ was \in BOOLEAN /\ popped \in Int

\* One chain of blocks with all slots between its ends, from freeHead on.
Chain ==
    /\ \A b \in Listed : blk[b].start \in Starts
    /\ \A b, c \in Listed : blk[b].start = blk[c].start => b = c
    /\ \A b \in Listed : blk[b].next # Null =>
          blk[b].next \in Listed /\ blk[blk[b].next].start = blk[b].start + BLOCK_CAP
    /\ \A b, c \in Listed : blk[b].next = Null => blk[c].start <= blk[b].start
    /\ freeHead = Null => Listed = {}
    /\ freeHead # Null =>
          freeHead \in Listed /\ \A b \in Listed : blk[freeHead].start <= blk[b].start

\* Blocks outside it are clean.
Clean(b) == blk[b].next = Null /\ blk[b].ready = {} /\ ~blk[b].released /\ ~blk[b].closed

\* A sender that lost the race to append its block carries it on.
Carries(s) ==
    IF place[s] = "append" THEN me[s].fresh # Null /\ blk[me[s].fresh].own = "new"
    ELSE me[s].fresh = Null

Outside ==
    /\ \A b \in Addr : /\ b \notin Listed => Clean(b)
                       /\ blk[b].own = "free" => blk[b] = B!Free
                       /\ blk[b].own = "new" => \E s \in Senders : me[s].fresh = b
                       /\ blk[b].own = "spare" => victim = b
    /\ \A s \in Senders : Carries(s)
    /\ \A s, t \in Senders : me[s].fresh = me[t].fresh /\ me[s].fresh # Null => s = t
    /\ IF rpc \in {"place", "push"} THEN victim # Null /\ blk[victim].own = "spare"
       ELSE victim = Null
    /\ IF rpc = "push" THEN curr \in Listed ELSE curr = Null

\* A slot is one sender's until it is written.
Claims ==
    /\ index <= tail
    /\ \A s \in Senders : IF Active(s) THEN index <= me[s].slot /\ me[s].slot < tail
                          ELSE me[s] = B!NoLocals
    /\ \A s, t \in Senders : Active(s) /\ Active(t) /\ me[s].slot = me[t].slot => s = t

Claimed(i) == \E s \in Senders : Active(s) /\ me[s].slot = i

IsReady(i) == \E b \in Listed : \E o \in blk[b].ready : i = blk[b].start + o

Written(b) ==
    \A o \in blk[b].ready :
        /\ blk[b].start + o < tail /\ blk[b].val[o] = blk[b].start + o
        /\ ~Claimed(blk[b].start + o)

\* Every slot from index on that was claimed is a sender's, or written, or the
\* one that the last sender claimed to close the channel.
Slots ==
    /\ Claims
    /\ \A b \in Listed : Written(b)
    /\ \A i \in index .. tail - 1 :
          Claimed(i) \/ IsReady(i) \/ (handles = {} /\ i = tail - 1)

\* Nothing is claimed or under way any more.
AllGone == handles = {} /\ \A s \in Senders : ~Active(s)

\* The last handle that goes claims the last slot, and marks its block.
Marked(b) ==
    /\ AllGone
    /\ index < tail /\ blk[b].start < tail /\ tail <= blk[b].start + BLOCK_CAP
    /\ ~IsReady(tail - 1)

Closing ==
    /\ \A s \in Senders : /\ Active(s) => s \in handles \/ me[s].close
                          /\ me[s].close => /\ Active(s) /\ handles = {}
                                            /\ me[s].slot = tail - 1
    /\ \A b \in Listed : blk[b].closed => Marked(b)
    /\ popped = B!Closed => AllGone /\ index = tail - 1 /\ rpc = "idle"

\* What a sender has in hand, on its way to its slot.
WalkOf(s) ==
    /\ Walking(s) => /\ me[s].ptr \in Listed
                     /\ blk[me[s].ptr].start <= me[s].slot
    /\ Behind(s) => blk[me[s].ptr].start + BLOCK_CAP <= me[s].slot
    /\ IF place[s] \in {"append", "final", "swap", "observe", "release"}
       THEN me[s].next # Null /\ me[s].next = blk[me[s].ptr].next
       ELSE me[s].next = Null
    /\ IF place[s] = "append"
       THEN me[s].curr \in Listed /\ blk[me[s].ptr].start < blk[me[s].curr].start
       ELSE me[s].curr = Null
    /\ place[s] = "swap" => B!IsFinal(me[s].ptr)

Walk == \A s \in Senders : WalkOf(s)

\* Nobody who could reach block b has claimed a slot after it was let go.
Passed(b) ==
    /\ blk[b].start < blk[blockTail].start
    /\ \A s \in Senders : Walking(s) /\ blk[me[s].ptr].start <= blk[b].start =>
          me[s].slot < blk[b].observed

\* The tail moves past a block once all its slots are written; released is said
\* of blocks that were passed.
TailOf(s) ==
    /\ Active(s) => blk[blockTail].start <= me[s].slot
    /\ place[s] = "observe" => blk[me[s].ptr].start < blk[blockTail].start
    /\ place[s] = "release" => Passed(me[s].ptr)

TailInv ==
    popped # B!Closed =>
        /\ blockTail \in Listed /\ blk[blockTail].start <= tail
        /\ \A s \in Senders : TailOf(s)
        /\ \A b \in Listed : blk[b].released => Passed(b)

\* The receiver is at or before the block of its slot.
Receiver ==
    /\ popped # B!Closed =>
          head \in Listed /\ freeHead # Null /\ blk[head].start <= index
    /\ rpc \in {"reclaim", "place", "push", "read"} => index < blk[head].start + BLOCK_CAP
    /\ rpc # "idle" /\ was => IsReady(index)

\* PopIsTrue, as to a value and to nothing.
Answers ==
    rpc = "idle" => /\ popped >= 0 => popped = index - 1
                    /\ popped = B!None => ~was

BlocksInv ==
    /\ BlockTypes /\ Chain /\ Outside /\ Slots /\ Closing /\ Walk /\ TailInv
    /\ Receiver /\ Answers

-----------------------------------------------------------------------------
(* Where the blocks start                                                  *)

LEMMA StartFacts ==
    ASSUME NEW n \in Nat
    PROVE  /\ B!StartIndex(n) \in Starts /\ B!StartIndex(n) <= n
           /\ n < B!StartIndex(n) + BLOCK_CAP
           /\ B!Offset(n) \in B!Offsets /\ B!StartIndex(n) + B!Offset(n) = n
<1> DEFINE K == BLOCK_CAP
           r == n % K
<1>0. K \in Nat /\ K > 0
  BY BlocksAssumption
<1>1. r \in 0 .. K - 1 /\ r <= n
  <2> HIDE DEF K
  <2> QED
    BY <1>0
<1>2. (n - r) % K = 0
  <2> HIDE DEF K
  <2> QED
    BY <1>0
<1>3. n - r \in Nat /\ (n - r) - ((n - r) % K) = n - r
  <2> HIDE DEF K, r
  <2> QED
    BY <1>0, <1>1, <1>2
<1>4. B!StartIndex(n) = n - r /\ B!Offset(n) = r /\ B!Offsets = 0 .. K - 1
  BY DEF B!StartIndex, B!Offset, B!Offsets
<1>5. B!StartIndex(n - r) = n - r
  BY <1>3 DEF B!StartIndex
<1> HIDE DEF K, r
<1> QED
  BY <1>0, <1>1, <1>3, <1>4, <1>5 DEF Starts, K

LEMMA StartsAre ==
    /\ Starts \subseteq Nat
    /\ \A n \in Starts : n % BLOCK_CAP = 0
    /\ \A n \in Nat : n % BLOCK_CAP = 0 => n \in Starts
<1>0. BLOCK_CAP \in Nat /\ BLOCK_CAP > 0
  BY BlocksAssumption
<1>1. \A n \in Nat : n % BLOCK_CAP \in Nat
  BY <1>0
<1> QED
  BY <1>1 DEF Starts, B!StartIndex

LEMMA StartsApart ==
    ASSUME NEW m \in Starts, NEW n \in Starts, m < n
    PROVE  m + BLOCK_CAP <= n
<1> DEFINE K == BLOCK_CAP
<1>0. K \in Nat /\ K > 0 /\ m \in Nat /\ n \in Nat /\ m % K = 0 /\ n % K = 0
  BY BlocksAssumption, StartsAre
<1> HIDE DEF K
<1>1. m = K * (m \div K) /\ n = K * (n \div K) /\ m \div K \in Nat /\ n \div K \in Nat
  BY <1>0
<1>2. \A p, q \in Nat : K * p < K * q => p < q
  BY <1>0
<1>3. \A p, q \in Nat : p < q => K * p + K <= K * q
  <2> SUFFICES ASSUME NEW p \in Nat, NEW q \in Nat, p < q PROVE K * p + K <= K * q
    OBVIOUS
  <2>1. p + 1 <= q /\ K * (p + 1) = K * p + K
    BY <1>0
  <2>2. K * (p + 1) <= K * q
    BY <2>1, <1>0
  <2> QED
    BY <2>1, <2>2
<1>4. m + K <= n
  BY <1>0, <1>1, <1>2, <1>3
<1> QED
  BY <1>4 DEF K

LEMMA StartsNext ==
    ASSUME NEW m \in Starts
    PROVE  m + BLOCK_CAP \in Starts
<1> DEFINE K == BLOCK_CAP
<1>0. K \in Nat /\ K > 0 /\ m \in Nat /\ m % K = 0
  BY BlocksAssumption, StartsAre
<1> HIDE DEF K
<1>1. (m + K) % K = 0
  <2>1. m = K * (m \div K) /\ m \div K \in Nat
    BY <1>0
  <2>2. m + K = K * (m \div K + 1)
    BY <2>1, <1>0
  <2>3. \A q \in Nat : (K * q) % K = 0
    BY <1>0
  <2> QED
    BY <2>1, <2>2, <2>3
<1> QED
  BY <1>0, <1>1, StartsAre DEF K

LEMMA StartOf ==
    ASSUME NEW m \in Starts, NEW o \in B!Offsets
    PROVE  B!StartIndex(m + o) = m /\ B!Offset(m + o) = o
<1> DEFINE K == BLOCK_CAP
<1>0. K \in Nat /\ K > 0 /\ m \in Nat /\ m % K = 0 /\ o \in Nat /\ o < K
  BY BlocksAssumption, StartsAre DEF B!Offsets
<1> HIDE DEF K
<1>1. (m + o) % K = o
  BY <1>0
<1> QED
  BY <1>0, <1>1 DEF B!StartIndex, B!Offset, K

\* A block at or before slot n is at or before the block of that slot.
LEMMA AtOrBefore ==
    ASSUME NEW m \in Starts, NEW n \in Nat, m <= n
    PROVE  /\ m <= B!StartIndex(n)
           /\ m # B!StartIndex(n) => m + BLOCK_CAP <= B!StartIndex(n)
<1> DEFINE k == B!StartIndex(n)
<1>1. k \in Starts /\ n < k + BLOCK_CAP /\ k \in Nat /\ m \in Nat /\ BLOCK_CAP \in Nat
  BY StartFacts, StartsAre, BlocksAssumption
<1>2. m < k => m + BLOCK_CAP <= k
  BY <1>1, StartsApart
<1>3. k < m => k + BLOCK_CAP <= m
  BY <1>1, StartsApart
<1> HIDE DEF k
<1>4. m <= k /\ (m # k => m + BLOCK_CAP <= k)
  BY <1>1, <1>2, <1>3
<1> QED
  BY <1>4 DEF k

-----------------------------------------------------------------------------
(* What a step leaves as it was                                            *)

LEMMA BlockFacts ==
    ASSUME BlockTypes
    PROVE  /\ Listed \subseteq Addr /\ Null \notin Addr
           /\ BLOCK_CAP \in Nat /\ BLOCK_CAP > 0
           /\ B!Offsets \subseteq Nat /\ \A o \in B!Offsets : o < BLOCK_CAP
           /\ \A b \in Addr : /\ blk[b].start \in Nat /\ blk[b].observed \in Nat
                              /\ blk[b].ready \subseteq B!Offsets
                              /\ blk[b].next \in Pointers
           /\ \A s \in Senders : me[s] \in Locals /\ me[s].slot \in Nat
<1>1. \A b \in Addr : blk[b] \in BlockRecords
  BY DEF BlockTypes
<1>2. \A s \in Senders : me[s] \in Locals
  BY DEF BlockTypes
<1> QED
  BY <1>1, <1>2, BlocksAssumption DEF Listed, BlockRecords, Locals, B!Offsets

LEMMA ChainStays ==
    ASSUME Chain, freeHead' = freeHead,
           \A b \in Addr : /\ blk'[b].own = blk[b].own /\ blk'[b].start = blk[b].start
                           /\ blk'[b].next = blk[b].next
    PROVE  Chain' /\ Listed' = Listed
<1>1. Listed' = Listed /\ Listed \subseteq Addr
  BY DEF Listed
<1> QED
  BY <1>1 DEF Chain

\* A block that is kept stays where it is, and what was written stays.
Kept(b) ==
    /\ b \in Listed /\ b \in Listed'
    /\ blk'[b].start = blk[b].start
    /\ blk[b].next # Null => blk'[b].next = blk[b].next
    /\ blk[b].ready \subseteq blk'[b].ready

LEMMA ReadyStays ==
    ASSUME BlockTypes, \A b \in Listed : Kept(b) \/ blk[b].start + BLOCK_CAP <= index
    PROVE  \A i \in Nat : i >= index /\ IsReady(i) => IsReady(i)'
<1> SUFFICES ASSUME NEW i \in Nat, i >= index, IsReady(i)
             PROVE  \E b \in Listed' : \E o \in blk'[b].ready : i = blk'[b].start + o
  BY DEF IsReady
<1>1. PICK b \in Listed : \E o \in blk[b].ready : i = blk[b].start + o
  BY DEF IsReady
<1>2. PICK o \in blk[b].ready : i = blk[b].start + o
  BY <1>1
<1>3. o < BLOCK_CAP /\ o \in Nat /\ blk[b].start \in Nat /\ BLOCK_CAP \in Nat /\ index \in Nat
  BY BlockFacts DEF BlockTypes
<1>4. Kept(b)
  BY <1>2, <1>3
<1> QED
  BY <1>2, <1>4 DEF Kept

LEMMA WalkStays ==
    ASSUME NEW t \in Senders, BlockTypes, BlockTypes', WalkOf(t),
           place'[t] = place[t], me'[t] = me[t],
           Walking(t) => Kept(me[t].ptr),
           place[t] = "append" => Kept(me[t].curr)
    PROVE  WalkOf(t)'
<1>1. \A b \in Addr : blk[b].ready \subseteq B!Offsets /\ blk'[b].ready \subseteq B!Offsets
  BY DEF BlockTypes, BlockRecords
<1>2. Listed \subseteq Addr
  BY DEF Listed
<1>3. place[t] = "swap" => blk'[me[t].ptr].ready = B!Offsets
  BY <1>1, <1>2 DEF WalkOf, Walking, Kept, B!IsFinal
<1> QED
  BY <1>3 DEF WalkOf, Walking, Behind, Kept, B!IsFinal

\* Block b is passed as long as nobody appears at or before it with a later slot.
LEMMA PassedStays ==
    ASSUME NEW b \in Addr, BlockTypes, BlockTypes', Walk, Walk', Passed(b),
           blk'[b].start = blk[b].start, blk[b].observed <= blk'[b].observed,
           blk[blockTail].start <= blk'[blockTail'].start,
           \A t \in Senders : Walking(t)' =>
              \/ blk[b].start < blk'[me'[t].ptr].start
              \/ /\ Walking(t) /\ me'[t].slot = me[t].slot
                 /\ blk[me[t].ptr].start <= blk'[me'[t].ptr].start
              \/ me'[t].slot < blk'[b].observed
    PROVE  Passed(b)'
<1>1. /\ blk[b].start \in Nat /\ blk[blockTail].start \in Nat /\ blk'[blockTail'].start \in Nat
      /\ blk[b].observed \in Nat /\ blk'[b].observed \in Nat
  BY BlockFacts DEF BlockTypes, BlockRecords
<1>2. blk'[b].start < blk'[blockTail'].start
  BY <1>1 DEF Passed
<1>3. ASSUME NEW t \in Senders, Walking(t)', blk'[me'[t].ptr].start <= blk'[b].start
      PROVE  me'[t].slot < blk'[b].observed
  <2> DEFINE y == blk'[me'[t].ptr].start
             x == blk[me[t].ptr].start
             n == me[t].slot
             m == me'[t].slot
  <2>1. y \in Nat /\ m \in Nat
    <3>1. me'[t].ptr \in Addr
      BY <1>3, BlockFacts DEF Walk, WalkOf, Listed
    <3>2. blk'[me'[t].ptr] \in BlockRecords /\ me'[t] \in Locals
      BY <3>1 DEF BlockTypes
    <3> QED
      BY <3>2 DEF BlockRecords, Locals
  <2>2. Walking(t) => x \in Nat /\ n \in Nat
    BY BlockFacts DEF Walk, WalkOf, Listed
  <2>3. Walking(t) /\ x <= blk[b].start => n < blk[b].observed
    BY DEF Passed
  <2>4. \/ blk[b].start < y
        \/ Walking(t) /\ m = n /\ x <= y
        \/ m < blk'[b].observed
    BY <1>3
  <2> HIDE DEF x, y, m, n
  <2>5. m < blk'[b].observed
    BY <1>1, <1>3, <2>1, <2>2, <2>3, <2>4 DEF y
  <2> QED
    BY <2>5 DEF m
<1> QED
  BY <1>2, <1>3 DEF Passed

\* Nothing is claimed, written or read.
LEMMA SlotsStay ==
    ASSUME BlockTypes, BlockTypes', Slots, Closing,
           index' = index, tail' = tail, handles' = handles, popped' = popped,
           popped = B!Closed => rpc' = rpc,
           \A t \in Senders : /\ Active(t)' <=> Active(t)
                              /\ me'[t].slot = me[t].slot /\ me'[t].close = me[t].close
                              /\ ~Active(t) => me'[t] = me[t],
           \A b \in Listed' : \/ blk'[b].ready = {} /\ ~blk'[b].closed
                              \/ /\ b \in Listed
                                 /\ blk'[b].start = blk[b].start /\ blk'[b].ready = blk[b].ready
                                 /\ blk'[b].val = blk[b].val /\ blk'[b].closed = blk[b].closed,
           popped # B!Closed => \A i \in Nat : i >= index /\ IsReady(i) => IsReady(i)'
    PROVE  Slots' /\ Closing'
<1>0. index \in Nat /\ tail \in Nat
  BY DEF BlockTypes
<1>1. \A i : Claimed(i)' <=> Claimed(i)
  BY DEF Claimed
<1>2. Claims'
  BY DEF Slots, Claims, B!NoLocals
<1>3. ASSUME NEW b \in Listed'
      PROVE  Written(b)'
  <2>1. CASE blk'[b].ready = {}
    BY <2>1 DEF Written
  <2>2. CASE /\ b \in Listed /\ blk'[b].start = blk[b].start
             /\ blk'[b].ready = blk[b].ready /\ blk'[b].val = blk[b].val
    <3>1. Written(b)
      BY <2>2 DEF Slots
    <3> QED
      BY <2>2, <3>1, <1>1 DEF Written
  <2> QED
    BY <2>1, <2>2
<1>4. ASSUME NEW i \in index' .. tail' - 1
      PROVE  (Claimed(i) \/ IsReady(i) \/ (handles = {} /\ i = tail - 1))'
  <2>1. Claimed(i) \/ IsReady(i) \/ (handles = {} /\ i = tail - 1)
    BY DEF Slots
  <2>2. i \in Nat /\ i >= index
    BY <1>0
  <2>3. CASE popped = B!Closed
    <3>1. i = tail - 1 /\ handles = {}
      BY <2>3, <1>0 DEF Closing, AllGone
    <3> QED
      BY <3>1
  <2>4. CASE popped # B!Closed
    BY <2>1, <2>2, <2>4, <1>1
  <2> QED
    BY <2>3, <2>4
<1>5. Slots'
  BY <1>2, <1>3, <1>4 DEF Slots
<1>6. AllGone => AllGone'
  BY DEF AllGone
<1>7. \A i : IsReady(i)' => IsReady(i)
  BY DEF IsReady
<1>8. ASSUME NEW b \in Listed', blk'[b].closed
      PROVE  Marked(b)'
  <2>1. /\ b \in Listed /\ blk[b].closed /\ blk'[b].start = blk[b].start
    BY <1>8
  <2>2. Marked(b)
    BY <2>1 DEF Closing
  <2> QED
    BY <2>1, <2>2, <1>6, <1>7 DEF Marked
<1>9. popped' = B!Closed => (AllGone /\ index = tail - 1 /\ rpc = "idle")'
  BY <1>6 DEF Closing
<1>10. \A s \in Senders : /\ Active(s)' => s \in handles' \/ me'[s].close
                          /\ me'[s].close => /\ Active(s)' /\ handles' = {}
                                             /\ me'[s].slot = tail' - 1
  BY DEF Closing
<1> QED
  BY <1>5, <1>8, <1>9, <1>10 DEF Closing, B!Closed

LEMMA ReceiverStays ==
    ASSUME Receiver, Answers, popped # B!Closed, Kept(head),
           UNCHANGED <<head, index, freeHead, rpc, was, popped>>,
           IsReady(index) => IsReady(index)'
    PROVE  Receiver' /\ Answers'
<1>1. Receiver'
  BY DEF Receiver, Kept, B!Closed
<1>2. Answers'
  BY DEF Answers, B!None
<1> QED
  BY <1>1, <1>2

LEMMA OutsideStays ==
    ASSUME BlockTypes, Outside, rpc' = rpc, victim' = victim, curr' = curr,
           \A b \in Addr : /\ blk'[b].own = blk[b].own
                           /\ b \notin Listed => blk'[b] = blk[b],
           \A t \in Senders : /\ me'[t].fresh = me[t].fresh
                              /\ place'[t] = "append" <=> place[t] = "append"
    PROVE  Outside'
<1>1. Listed' = Listed /\ Listed \subseteq Addr
  BY DEF Listed
<1>2. ASSUME NEW b \in Addr
      PROVE  /\ b \notin Listed' => Clean(b)'
             /\ blk'[b].own = "free" => blk'[b] = B!Free
             /\ blk'[b].own = "new" => \E t \in Senders : me'[t].fresh = b
             /\ blk'[b].own = "spare" => victim' = b
  <2>1. b \notin Listed' => Clean(b)'
    BY <1>1 DEF Outside, Clean
  <2>2. blk[b].own \in {"free", "new", "spare"} => b \notin Listed
    BY DEF Listed
  <2>3. blk'[b].own = "free" => blk'[b] = B!Free
    BY <2>2 DEF Outside
  <2>4. blk'[b].own = "new" => \E t \in Senders : me'[t].fresh = b
    BY DEF Outside
  <2>5. blk'[b].own = "spare" => victim' = b
    BY DEF Outside
  <2> QED
    BY <2>1, <2>3, <2>4, <2>5
<1>3. ASSUME NEW t \in Senders
      PROVE  Carries(t)'
  <2>1. Carries(t)
    BY DEF Outside
  <2>2. me[t].fresh # Null /\ blk[me[t].fresh].own = "new" => blk'[me'[t].fresh].own = "new"
    BY BlockFacts DEF Locals, Pointers
  <2> QED
    BY <2>1, <2>2 DEF Carries
<1>4. IF rpc \in {"place", "push"} THEN victim # Null /\ blk'[victim].own = "spare"
      ELSE victim = Null
  BY BlockFacts DEF Outside, BlockTypes, Pointers
<1>5. \A t, u \in Senders : me'[t].fresh = me'[u].fresh /\ me'[t].fresh # Null => t = u
  BY DEF Outside
<1>6. IF rpc = "push" THEN curr \in Listed' ELSE curr = Null
  BY <1>1 DEF Outside
<1> QED
  BY <1>2, <1>3, <1>4, <1>5, <1>6 DEF Outside, B!Free, B!Block, B!Offsets

\* Sender s goes a step without appending a block or writing; what it does to
\* its own place, and to the marks on a block, is shown apart.
LEMMA SenderMoves ==
    ASSUME BlocksInv, BlockTypes', NEW s \in Senders, Active(s), Active(s)',
           UNCHANGED <<tail, handles, head, index, freeHead, rpc, victim, curr, was, popped>>,
           \A b \in Addr : /\ blk'[b].own = blk[b].own /\ blk'[b].start = blk[b].start
                           /\ blk'[b].next = blk[b].next /\ blk'[b].ready = blk[b].ready
                           /\ blk'[b].val = blk[b].val /\ blk'[b].closed = blk[b].closed
                           /\ b \notin Listed => blk'[b] = blk[b],
           \A t \in Senders : t # s => me'[t] = me[t] /\ place'[t] = place[t],
           me'[s].slot = me[s].slot, me'[s].close = me[s].close, me'[s].fresh = me[s].fresh,
           place'[s] = "append" <=> place[s] = "append",
           WalkOf(s)'
    PROVE  /\ popped # B!Closed /\ Listed' = Listed
           /\ Chain' /\ Outside' /\ Slots' /\ Closing' /\ Walk' /\ Receiver' /\ Answers'
<1>1. popped # B!Closed
  BY DEF BlocksInv, Closing, AllGone
<1>2. Chain' /\ Listed' = Listed /\ Listed \subseteq Addr
  BY ChainStays DEF BlocksInv, Listed
<1>3. \A b \in Listed : Kept(b)
  BY <1>2 DEF Kept
<1>4. Outside'
  BY OutsideStays DEF BlocksInv
<1>5. \A i \in Nat : i >= index /\ IsReady(i) => IsReady(i)'
  BY <1>3, ReadyStays DEF BlocksInv
<1>6. Slots' /\ Closing'
  <2>1. \A t \in Senders : /\ Active(t)' <=> Active(t)
                           /\ me'[t].slot = me[t].slot /\ me'[t].close = me[t].close
                           /\ ~Active(t) => me'[t] = me[t]
    BY DEF Active
  <2>2. \A b \in Listed' : /\ b \in Listed
                           /\ blk'[b].start = blk[b].start /\ blk'[b].ready = blk[b].ready
                           /\ blk'[b].val = blk[b].val /\ blk'[b].closed = blk[b].closed
    BY <1>2
  <2> QED
    BY <1>1, <1>5, <2>1, <2>2, SlotsStay DEF BlocksInv
<1>7. ASSUME NEW t \in Senders
      PROVE  WalkOf(t)'
  <2>1. CASE t = s
    BY <2>1
  <2>2. CASE t # s
    <3>1. WalkOf(t) /\ BlockTypes /\ place'[t] = place[t] /\ me'[t] = me[t]
      BY <2>2 DEF BlocksInv, Walk
    <3>2. Walking(t) => Kept(me[t].ptr)
      BY <3>1, <1>3 DEF WalkOf
    <3>3. place[t] = "append" => Kept(me[t].curr)
      BY <3>1, <1>3 DEF WalkOf
    <3> QED
      BY <3>1, <3>2, <3>3, WalkStays
  <2> QED
    BY <2>1, <2>2
<1>8. Receiver' /\ Answers'
  <2>1. Kept(head)
    BY <1>1, <1>3 DEF BlocksInv, Receiver
  <2>2. IsReady(index) => IsReady(index)'
    BY <1>5 DEF BlocksInv, BlockTypes
  <2> QED
    BY <1>1, <2>1, <2>2, ReceiverStays DEF BlocksInv
<1> QED
  BY <1>1, <1>2, <1>4, <1>6, <1>7, <1>8 DEF Walk

LEMMA PassedMoves ==
    ASSUME BlocksInv, BlockTypes', Walk', NEW s \in Senders,
           \A b \in Addr : blk'[b].start = blk[b].start,
           blk[blockTail].start <= blk'[blockTail'].start,
           \A t \in Senders : t # s => me'[t] = me[t] /\ place'[t] = place[t],
           me'[s].slot = me[s].slot,
           Walking(s)' => \/ me'[s].ptr = blockTail
                          \/ Walking(s) /\ blk[me[s].ptr].start <= blk'[me'[s].ptr].start
    PROVE  \A b \in Listed : Passed(b) /\ blk'[b].observed = blk[b].observed => Passed(b)'
<1> SUFFICES ASSUME NEW b \in Listed, Passed(b), blk'[b].observed = blk[b].observed
             PROVE  Passed(b)'
  OBVIOUS
<1>1. b \in Addr /\ BlockTypes /\ Walk /\ blockTail \in Addr /\ blk[b].observed \in Nat
  BY BlockFacts DEF BlocksInv, BlockTypes, BlockRecords
<1>2. ASSUME NEW t \in Senders, Walking(t)'
      PROVE  \/ blk[b].start < blk'[me'[t].ptr].start
             \/ /\ Walking(t) /\ me'[t].slot = me[t].slot
                /\ blk[me[t].ptr].start <= blk'[me'[t].ptr].start
  <2>1. CASE t = s /\ me'[s].ptr = blockTail
    BY <2>1, <1>1 DEF Passed
  <2>2. CASE t = s /\ me'[s].ptr # blockTail
    BY <2>2, <1>2
  <2>3. CASE t # s
    <3>1. Walking(t) /\ me'[t].ptr = me[t].ptr /\ me'[t].slot = me[t].slot
      BY <2>3, <1>2 DEF Walking
    <3>2. me[t].ptr \in Addr /\ blk[me[t].ptr].start \in Nat
      BY <1>1, <3>1, BlockFacts DEF Walk, WalkOf, Listed
    <3> QED
      BY <3>1, <3>2
  <2> QED
    BY <2>1, <2>2, <2>3
<1> QED
  BY <1>1, <1>2, PassedStays

\* A sender that goes on, and moves the tail at most forward.
LEMMA TailMoves ==
    ASSUME BlocksInv, BlockTypes', Walk', NEW s \in Senders,
           blk' = blk, blockTail' = blockTail, tail' = tail, popped' = popped,
           \A t \in Senders : t # s => me'[t] = me[t] /\ place'[t] = place[t],
           me'[s].slot = me[s].slot,
           Walking(s)' => \/ me'[s].ptr = blockTail
                          \/ Walking(s) /\ blk[me[s].ptr].start <= blk'[me'[s].ptr].start,
           TailOf(s)'
    PROVE  TailInv'
<1> SUFFICES ASSUME popped # B!Closed
             PROVE  TailInv'
  BY DEF TailInv, B!Closed
<1>1. Listed' = Listed /\ Listed \subseteq Addr
  BY DEF Listed
<1>2. blk[blockTail].start \in Nat /\ TailInv /\ Walk /\ BlockTypes
  BY BlockFacts DEF BlocksInv, BlockTypes
<1>3. \A b \in Listed : Passed(b) => Passed(b)'
  BY <1>1, <1>2, PassedMoves
<1>4. ASSUME NEW t \in Senders
      PROVE  TailOf(t)'
  <2>1. CASE t # s
    <3>1. TailOf(t) /\ WalkOf(t) /\ me'[t] = me[t] /\ place'[t] = place[t]
      BY <2>1, <1>2 DEF TailInv, Walk
    <3>2. place[t] = "release" => me[t].ptr \in Listed
      BY <3>1 DEF WalkOf, Walking
    <3>3. place[t] = "release" => Passed(me[t].ptr)'
      BY <3>1, <3>2, <1>3 DEF TailOf
    <3> QED
      BY <3>1, <3>3 DEF TailOf, Active, Passed, Walking
  <2> QED
    BY <2>1
<1> QED
  BY <1>1, <1>2, <1>3, <1>4 DEF TailInv

LEMMA LoadTailKeeps ==
    ASSUME BlocksInv, NEW s \in Senders, B!LoadTail(s)
    PROVE  BlocksInv'
<1>1. /\ place[s] = "load" /\ place' = [place EXCEPT ![s] = "walk"]
      /\ UNCHANGED <<blk, blockTail, tail, handles, head, index, freeHead, rpc, victim, curr,
                     tries, was, popped>>
      /\ \E d \in BOOLEAN : me' = [me EXCEPT ![s].ptr = blockTail, ![s].trying = d]
  <2> DEFINE distance == (B!StartIndex(me[s].slot) - blk[blockTail].start) \div BLOCK_CAP
             d == distance > B!Offset(me[s].slot)
  <2>1. d \in BOOLEAN
    OBVIOUS
  <2>2. me' = [me EXCEPT ![s].ptr = blockTail, ![s].trying = d]
    BY DEF B!LoadTail
  <2> HIDE DEF d
  <2>3. \E e \in BOOLEAN : me' = [me EXCEPT ![s].ptr = blockTail, ![s].trying = e]
    BY <2>1, <2>2
  <2> QED
    BY <2>3 DEF B!LoadTail, B!Goto, B!rx, B!seen
<1>2. /\ me[s] \in Locals /\ place'[s] = "walk" /\ blockTail \in Addr
      /\ \E d \in BOOLEAN : me'[s] = [me[s] EXCEPT !.ptr = blockTail, !.trying = d]
      /\ \A t \in Senders : t # s => me'[t] = me[t] /\ place'[t] = place[t]
  BY <1>1 DEF BlocksInv, BlockTypes
<1>3. /\ me'[s] \in Locals
      /\ me'[s].ptr = blockTail /\ me'[s].slot = me[s].slot /\ me'[s].close = me[s].close
      /\ me'[s].fresh = me[s].fresh /\ me'[s].next = me[s].next /\ me'[s].curr = me[s].curr
  BY <1>2 DEF Locals, Pointers
<1>4. BlockTypes'
  BY <1>1, <1>2, <1>3 DEF BlocksInv, BlockTypes
<1>5. popped # B!Closed
  BY <1>1 DEF BlocksInv, Closing, AllGone, Active
<1>6. blockTail \in Listed /\ blk[blockTail].start <= me[s].slot
  BY <1>1, <1>5 DEF BlocksInv, TailInv, TailOf, Active
<1>7. WalkOf(s)' /\ Listed' = Listed
  BY <1>1, <1>2, <1>3, <1>6 DEF BlocksInv, Walk, WalkOf, Walking, Behind, Listed
<1>8. Chain' /\ Outside' /\ Slots' /\ Closing' /\ Walk' /\ Receiver' /\ Answers'
  BY <1>1, <1>2, <1>3, <1>4, <1>7, SenderMoves DEF Active
<1>9. TailOf(s)
  BY <1>5 DEF BlocksInv, TailInv
<1>10. TailOf(s)'
  BY <1>1, <1>2, <1>3, <1>9 DEF TailOf, Active
<1>11. TailInv'
  BY <1>1, <1>2, <1>3, <1>4, <1>7, <1>8, <1>10, TailMoves
<1> QED
  BY <1>4, <1>8, <1>11 DEF BlocksInv

\* What is before a sender in a block that is not that of its slot.
LEMMA Ahead ==
    ASSUME BlocksInv, NEW s \in Senders, Walking(s)
    PROVE  LET p == me[s].ptr
               n == blk[p].next
           IN  /\ p \in Listed /\ p \in Addr /\ blk[p].start \in Nat /\ me[s].slot \in Nat
               /\ n \in Pointers
               /\ n # Null => n \in Listed /\ n \in Addr /\ blk[n].start = blk[p].start + BLOCK_CAP
               /\ ~B!Here(s) => blk[p].start + BLOCK_CAP <= me[s].slot
               /\ B!Here(s) => me[s].slot < blk[p].start + BLOCK_CAP
<1> DEFINE p == me[s].ptr
           m == blk[p].start
           k == me[s].slot
<1>1. BlockTypes /\ WalkOf(s) /\ Chain
  BY DEF BlocksInv, Walk
<1>2. p \in Listed /\ p \in Addr /\ m \in Nat /\ k \in Nat /\ m <= k /\ m \in Starts
  BY <1>1, BlockFacts DEF WalkOf, Chain
<1>3. blk[p].next \in Pointers
  BY <1>1, <1>2, BlockFacts
<1>4. blk[p].next # Null =>
         blk[p].next \in Listed /\ blk[p].next \in Addr /\ blk[blk[p].next].start = m + BLOCK_CAP
  BY <1>1, <1>2, BlockFacts DEF Chain
<1>5. B!Here(s) <=> m = B!StartIndex(k)
  BY DEF B!Here
<1> HIDE DEF m, k
<1>6. ~B!Here(s) => m + BLOCK_CAP <= k
  <2>1. B!StartIndex(k) <= k /\ B!StartIndex(k) \in Nat /\ BLOCK_CAP \in Nat
    BY <1>2, StartFacts, StartsAre, BlocksAssumption
  <2> QED
    BY <1>2, <1>5, <2>1, AtOrBefore
<1>7. B!Here(s) => k < m + BLOCK_CAP
  BY <1>2, <1>5, StartFacts
<1> QED
  BY <1>2, <1>3, <1>4, <1>6, <1>7 DEF m, k

LEMMA LoadNextKeeps ==
    ASSUME BlocksInv, NEW s \in Senders, B!LoadNext(s)
    PROVE  BlocksInv'
<1> DEFINE n == blk[me[s].ptr].next
<1>1. /\ place[s] = "walk" /\ ~B!Here(s)
      /\ me' = [me EXCEPT ![s].next = n]
      /\ UNCHANGED <<blk, blockTail, tail, handles, head, index, freeHead, rpc, victim, curr,
                     tries, was, popped>>
      /\ place' = [place EXCEPT ![s] = IF me'[s].next = Null THEN "grow" ELSE "final"]
  BY DEF B!LoadNext, B!Goto, B!rx, B!seen
<1>2. Walking(s) /\ WalkOf(s) /\ BlockTypes
  BY <1>1 DEF Walking, BlocksInv, Walk
<1>3. /\ me[s].ptr \in Listed /\ blk[me[s].ptr].start \in Nat /\ n \in Pointers
      /\ blk[me[s].ptr].start + BLOCK_CAP <= me[s].slot
  BY <1>1, <1>2, Ahead
<1>4. /\ me'[s] = [me[s] EXCEPT !.next = n] /\ me[s] \in Locals
      /\ \A t \in Senders : t # s => me'[t] = me[t] /\ place'[t] = place[t]
  BY <1>1, <1>2 DEF BlockTypes
<1> HIDE DEF n
<1>5. /\ me'[s] \in Locals
      /\ me'[s].ptr = me[s].ptr /\ me'[s].slot = me[s].slot /\ me'[s].close = me[s].close
      /\ me'[s].fresh = me[s].fresh /\ me'[s].next = n /\ me'[s].curr = me[s].curr
  BY <1>3, <1>4 DEF Locals
<1>6. place'[s] = IF n = Null THEN "grow" ELSE "final"
  BY <1>1, <1>2, <1>5 DEF BlockTypes
<1>7. BlockTypes'
  BY <1>1, <1>2, <1>4, <1>5, <1>6 DEF BlockTypes
<1>8. WalkOf(s)' /\ Listed' = Listed
  BY <1>1, <1>2, <1>3, <1>5, <1>6 DEF WalkOf, Walking, Behind, Listed, n
<1>9. /\ popped # B!Closed
      /\ Chain' /\ Outside' /\ Slots' /\ Closing' /\ Walk' /\ Receiver' /\ Answers'
  BY <1>1, <1>4, <1>5, <1>6, <1>7, <1>8, SenderMoves DEF Active
<1>10. TailOf(s)'
  <2>1. TailOf(s)
    BY <1>9 DEF BlocksInv, TailInv
  <2> QED
    BY <1>1, <1>5, <1>6, <2>1 DEF TailOf, Active
<1>11. TailInv'
  BY <1>1, <1>2, <1>3, <1>4, <1>5, <1>7, <1>9, <1>10, TailMoves
<1> QED
  BY <1>7, <1>9, <1>11 DEF BlocksInv

\* The block behind which another one is already.
LEMMA StopTryingKeeps ==
    ASSUME BlocksInv, NEW s \in Senders, place[s] \in {"final", "swap"}, B!StopTrying(s),
           UNCHANGED <<blk, blockTail, tail, handles, head, index, freeHead, rpc, victim, curr,
                       tries, was, popped>>
    PROVE  BlocksInv'
<1> DEFINE n == me[s].next
<1>1. /\ me' = [me EXCEPT ![s].ptr = n, ![s].next = Null, ![s].trying = FALSE]
      /\ place' = [place EXCEPT ![s] = "walk"]
  BY DEF B!StopTrying, B!Goto
<1>2. Walking(s) /\ Behind(s) /\ WalkOf(s) /\ BlockTypes
  BY DEF Walking, Behind, BlocksInv, Walk
<1>3. /\ n \in Listed /\ n \in Addr /\ blk[me[s].ptr].start \in Nat /\ BLOCK_CAP \in Nat
      /\ blk[n].start = blk[me[s].ptr].start + BLOCK_CAP
      /\ blk[n].start <= me[s].slot
  BY <1>2, Ahead, BlocksAssumption DEF WalkOf
<1>4. /\ me'[s] = [me[s] EXCEPT !.ptr = n, !.next = Null, !.trying = FALSE] /\ me[s] \in Locals
      /\ place'[s] = "walk"
      /\ \A t \in Senders : t # s => me'[t] = me[t] /\ place'[t] = place[t]
  BY <1>1, <1>2 DEF BlockTypes
<1> HIDE DEF n
<1>5. /\ me'[s] \in Locals
      /\ me'[s].ptr = n /\ me'[s].slot = me[s].slot /\ me'[s].close = me[s].close
      /\ me'[s].fresh = me[s].fresh /\ me'[s].next = Null /\ me'[s].curr = me[s].curr
  BY <1>3, <1>4 DEF Locals, Pointers
<1>7. BlockTypes'
  BY <1>1, <1>2, <1>4, <1>5 DEF BlockTypes
<1>8. WalkOf(s)' /\ Listed' = Listed
  BY <1>1, <1>2, <1>3, <1>4, <1>5 DEF WalkOf, Walking, Behind, Listed
<1>9. /\ popped # B!Closed
      /\ Chain' /\ Outside' /\ Slots' /\ Closing' /\ Walk' /\ Receiver' /\ Answers'
  BY <1>1, <1>2, <1>4, <1>5, <1>7, <1>8, SenderMoves DEF Active, Walking
<1>10. TailOf(s)'
  <2>1. TailOf(s)
    BY <1>9 DEF BlocksInv, TailInv
  <2> QED
    BY <1>4, <1>5, <2>1 DEF TailOf, Active
<1>11. blk[me[s].ptr].start <= blk'[me'[s].ptr].start
  BY <1>3, <1>5
<1>12. TailInv'
  BY <1>2, <1>4, <1>5, <1>7, <1>9, <1>10, <1>11, TailMoves
<1> QED
  BY <1>7, <1>9, <1>12 DEF BlocksInv

LEMMA LookFinalKeeps ==
    ASSUME BlocksInv, NEW s \in Senders, B!LookFinal(s)
    PROVE  BlocksInv'
<1>1. /\ place[s] = "final"
      /\ UNCHANGED <<blk, blockTail, tail, handles, head, index, freeHead, rpc, victim, curr,
                     tries, was, popped>>
  BY DEF B!LookFinal, B!rx, B!seen
<1>2. CASE ~(me[s].trying /\ B!IsFinal(me[s].ptr))
  BY <1>1, <1>2, StopTryingKeeps DEF B!LookFinal
<1>3. CASE me[s].trying /\ B!IsFinal(me[s].ptr)
  <2>1. me' = me /\ place' = [place EXCEPT ![s] = "swap"]
    BY <1>3 DEF B!LookFinal, B!Goto
  <2>2. BlockTypes /\ WalkOf(s) /\ Walking(s)
    BY <1>1 DEF BlocksInv, Walk, Walking
  <2>3. place'[s] = "swap" /\ \A t \in Senders : t # s => me'[t] = me[t] /\ place'[t] = place[t]
    BY <2>1, <2>2 DEF BlockTypes
  <2>4. BlockTypes'
    BY <1>1, <2>1, <2>2 DEF BlockTypes
  <2>5. WalkOf(s)'
    BY <1>1, <1>3, <2>1, <2>2, <2>3 DEF WalkOf, Walking, Behind, Listed, B!IsFinal
  <2>6. /\ popped # B!Closed
        /\ Chain' /\ Outside' /\ Slots' /\ Closing' /\ Walk' /\ Receiver' /\ Answers'
    BY <1>1, <2>1, <2>3, <2>4, <2>5, SenderMoves DEF Active
  <2>7. TailOf(s)'
    <3>1. TailOf(s)
      BY <2>6 DEF BlocksInv, TailInv
    <3> QED
      BY <1>1, <2>1, <2>3, <3>1 DEF TailOf, Active
  <2>8. blk[me[s].ptr].start \in Nat
    BY <2>2, Ahead
  <2>9. TailInv'
    BY <1>1, <2>1, <2>2, <2>3, <2>4, <2>6, <2>7, <2>8, TailMoves
  <2> QED
    BY <2>4, <2>6, <2>9 DEF BlocksInv
<1> QED
  BY <1>2, <1>3

\* Once all slots of a block are written, every sender is after it.
LEMMA FinalIsPast ==
    ASSUME BlocksInv, NEW b \in Listed, B!IsFinal(b)
    PROVE  /\ blk[b].start + BLOCK_CAP <= tail
           /\ \A t \in Senders : Active(t) /\ blk[b].start <= me[t].slot =>
                 blk[b].start + BLOCK_CAP <= me[t].slot
<1> DEFINE m == blk[b].start
<1>1. BlockTypes /\ Written(b) /\ blk[b].ready = B!Offsets
  BY DEF BlocksInv, Slots, B!IsFinal
<1>2. m \in Nat /\ tail \in Nat /\ BLOCK_CAP \in Nat /\ BLOCK_CAP > 0
  BY <1>1, BlockFacts DEF BlockTypes
<1> HIDE DEF m
<1>3. \A o \in 0 .. BLOCK_CAP - 1 : m + o < tail /\ ~Claimed(m + o)
  BY <1>1 DEF Written, B!Offsets, m
<1>4. m + BLOCK_CAP <= tail
  <2>1. BLOCK_CAP - 1 \in 0 .. BLOCK_CAP - 1
    BY <1>2
  <2>2. m + (BLOCK_CAP - 1) < tail
    BY <2>1, <1>3
  <2> QED
    BY <2>2, <1>2
<1>5. ASSUME NEW t \in Senders, Active(t), m <= me[t].slot, ~(m + BLOCK_CAP <= me[t].slot)
      PROVE  FALSE
  <2> DEFINE k == me[t].slot
  <2>1. k \in Nat
    BY <1>1, BlockFacts
  <2>2. Claimed(k)
    BY <1>5 DEF Claimed
  <2>3. m <= k /\ ~(m + BLOCK_CAP <= k)
    BY <1>5
  <2> HIDE DEF k
  <2>4. k - m \in 0 .. BLOCK_CAP - 1 /\ m + (k - m) = k
    BY <1>2, <2>1, <2>3
  <2> QED
    BY <1>3, <2>2, <2>4
<1> QED
  BY <1>4, <1>5 DEF m

LEMMA SwapTailKeeps ==
    ASSUME BlocksInv, NEW s \in Senders, B!SwapTail(s)
    PROVE  BlocksInv'
<1>1. /\ place[s] = "swap"
      /\ UNCHANGED <<blk, tail, handles, head, index, freeHead, rpc, victim, curr,
                     tries, was, popped>>
  BY DEF B!SwapTail, B!rx, B!seen
<1>2. CASE blockTail # me[s].ptr
  BY <1>1, <1>2, StopTryingKeeps DEF B!SwapTail
<1>3. CASE blockTail = me[s].ptr
  <2> DEFINE n == me[s].next
  <2>1. me' = me /\ place' = [place EXCEPT ![s] = "observe"] /\ blockTail' = n
    BY <1>3 DEF B!SwapTail, B!Goto
  <2>2. BlockTypes /\ WalkOf(s) /\ Walking(s) /\ Walk
    BY <1>1 DEF BlocksInv, Walk, Walking
  <2>3. place'[s] = "observe" /\ \A t \in Senders : t # s => me'[t] = me[t] /\ place'[t] = place[t]
    BY <2>1, <2>2 DEF BlockTypes
  <2>4. /\ n \in Listed /\ n \in Addr /\ blk[blockTail].start \in Nat /\ BLOCK_CAP \in Nat
        /\ blk[n].start = blk[blockTail].start + BLOCK_CAP /\ BLOCK_CAP > 0
        /\ blockTail \in Listed
    BY <1>1, <1>3, <2>2, Ahead, BlocksAssumption DEF WalkOf
  <2>5. BlockTypes' /\ Listed' = Listed /\ Listed \subseteq Addr
    BY <1>1, <2>1, <2>2, <2>4 DEF BlockTypes, Listed
  <2>6. WalkOf(s)'
    BY <1>1, <2>1, <2>2, <2>3 DEF WalkOf, Walking, Behind, Listed, B!IsFinal
  <2>7. /\ popped # B!Closed
        /\ Chain' /\ Outside' /\ Slots' /\ Closing' /\ Walk' /\ Receiver' /\ Answers'
    BY <1>1, <2>1, <2>3, <2>5, <2>6, SenderMoves DEF Active
  <2>8. /\ blk[blockTail].start + BLOCK_CAP <= tail
        /\ \A t \in Senders : Active(t) /\ blk[blockTail].start <= me[t].slot =>
              blk[blockTail].start + BLOCK_CAP <= me[t].slot
    BY <1>1, <1>3, <2>2, <2>4, FinalIsPast DEF WalkOf
  <2>9. TailInv
    BY DEF BlocksInv
  <2>10. blk[blockTail].start < blk[n].start
    BY <2>4
  <2>11. \A b \in Listed : Passed(b) => Passed(b)'
    <3>1. \A b \in Addr : blk'[b].start = blk[b].start /\ blk'[b].observed = blk[b].observed
      BY <1>1
    <3>2. blk[blockTail].start <= blk'[blockTail'].start /\ me'[s].slot = me[s].slot
      BY <1>1, <2>1, <2>4
    <3>3. Walking(s) /\ blk[me[s].ptr].start <= blk'[me'[s].ptr].start
      BY <1>1, <1>3, <2>1, <2>2, <2>4
    <3> QED
      BY <2>3, <2>5, <2>7, <3>1, <3>2, <3>3, PassedMoves
  <2>12. ASSUME NEW t \in Senders
         PROVE  TailOf(t)'
    <3>1. TailOf(t) /\ WalkOf(t) /\ me'[t] = me[t]
      BY <2>1, <2>2, <2>7, <2>9 DEF TailInv, Walk
    <3>2. Active(t) => blk[n].start <= me[t].slot
      BY <3>1, <2>4, <2>8 DEF TailOf
    <3>3. Active(t)' => Active(t)
      BY <1>1, <2>3 DEF Active
    <3>4. Active(t)' => blk'[blockTail'].start <= me'[t].slot
      BY <3>1, <3>2, <3>3, <1>1, <2>1
    <3>5. place'[t] = "observe" => blk'[me'[t].ptr].start < blk'[blockTail'].start
      <4>1. CASE t = s
        BY <4>1, <1>1, <1>3, <2>1, <2>10
      <4>2. CASE t # s /\ place[t] = "observe"
        <5>1. me[t].ptr \in Addr
          BY <4>2, <3>1, <2>5 DEF WalkOf, Walking
        <5>2. blk[me[t].ptr].start \in Nat /\ blk[me[t].ptr].start < blk[blockTail].start
              /\ blk[n].start \in Nat
          BY <4>2, <3>1, <5>1, <2>2, <2>4, BlockFacts DEF TailOf
        <5> QED
          BY <5>2, <3>1, <1>1, <2>1, <2>4, <2>10
      <4> QED
        BY <4>1, <4>2, <2>3
    <3>6. place'[t] = "release" => Passed(me[t].ptr)'
      <4> SUFFICES ASSUME place'[t] = "release" PROVE Passed(me[t].ptr)'
        OBVIOUS
      <4>1. place[t] = "release"
        BY <1>1, <2>3
      <4>2. PICK b \in Listed : b = me[t].ptr /\ Passed(b)
        BY <3>1, <4>1 DEF TailOf, WalkOf, Walking
      <4>3. Passed(b)' /\ b = me'[t].ptr
        BY <3>1, <4>2, <2>11
      <4> QED
        BY <4>3 DEF Passed
    <3> QED
      BY <3>1, <3>4, <3>5, <3>6 DEF TailOf
  <2>13. TailInv'
    BY <1>1, <2>1, <2>4, <2>5, <2>7, <2>8, <2>9, <2>11, <2>12 DEF TailInv
  <2> QED
    BY <2>5, <2>7, <2>13 DEF BlocksInv
<1> QED
  BY <1>2, <1>3

LEMMA ObserveKeeps ==
    ASSUME BlocksInv, NEW s \in Senders, B!Observe(s)
    PROVE  BlocksInv'
<1>p. PICK p : p = me[s].ptr
  OBVIOUS
<1>1. /\ place[s] = "observe" /\ me' = me /\ place' = [place EXCEPT ![s] = "release"]
      /\ blk' = [blk EXCEPT ![p].observed = tail]
      /\ UNCHANGED <<blockTail, tail, handles, head, index, freeHead, rpc, victim, curr,
                     tries, was, popped>>
  BY <1>p DEF B!Observe, B!Goto, B!rx, B!seen
<1>2. BlockTypes /\ WalkOf(s) /\ Walking(s) /\ Walk
  BY <1>1 DEF BlocksInv, Walk, Walking
<1>3. p \in Listed /\ p \in Addr /\ tail \in Nat
  BY <1>p, <1>2, Ahead DEF BlockTypes, BlocksInv
<1>4. /\ blk'[p] = [blk[p] EXCEPT !.observed = tail] /\ blk[p] \in BlockRecords
      /\ \A b \in Addr : b # p => blk'[b] = blk[b]
      /\ place'[s] = "release" /\ \A t \in Senders : t # s => me'[t] = me[t] /\ place'[t] = place[t]
  BY <1>1, <1>2, <1>3 DEF BlockTypes
<1>5. /\ blk'[p].own = blk[p].own /\ blk'[p].start = blk[p].start /\ blk'[p].next = blk[p].next
      /\ blk'[p].ready = blk[p].ready /\ blk'[p].val = blk[p].val /\ blk'[p].closed = blk[p].closed
      /\ blk'[p].released = blk[p].released /\ blk'[p].observed = tail /\ blk'[p] \in BlockRecords
  BY <1>3, <1>4 DEF BlockRecords
<1>6. \A b \in Addr : /\ blk'[b].own = blk[b].own /\ blk'[b].start = blk[b].start
                      /\ blk'[b].next = blk[b].next /\ blk'[b].ready = blk[b].ready
                      /\ blk'[b].val = blk[b].val /\ blk'[b].closed = blk[b].closed
                      /\ blk'[b].released = blk[b].released
  BY <1>4, <1>5
<1>7. BlockTypes'
  BY <1>1, <1>2, <1>3, <1>4, <1>5 DEF BlockTypes
<1>8. WalkOf(s)'
  <2>1. p \in Listed'
    BY <1>3, <1>6 DEF Listed
  <2> QED
    BY <1>p, <1>1, <1>2, <1>4, <1>5, <2>1 DEF WalkOf, Walking, Behind
<1>9. /\ popped # B!Closed /\ Listed' = Listed
      /\ Chain' /\ Outside' /\ Slots' /\ Closing' /\ Walk' /\ Receiver' /\ Answers'
  <2>1. \A b \in Addr : b \notin Listed => blk'[b] = blk[b]
    BY <1>3, <1>4
  <2> QED
    BY <1>1, <1>4, <1>6, <1>7, <1>8, <2>1, SenderMoves DEF Active
<1>10. blk[p].start < blk[blockTail].start /\ blk'[blockTail].start = blk[blockTail].start
  BY <1>p, <1>1, <1>2, <1>6, <1>9 DEF BlocksInv, BlockTypes, TailInv, TailOf
<1>11. Passed(p)'
  <2>1. \A t \in Senders : Active(t)' => me'[t].slot < tail
    BY <1>1, <1>9 DEF Slots, Claims
  <2> QED
    BY <1>3, <1>1, <1>5, <1>10, <2>1 DEF Passed, Active, Walking
<1>12. ASSUME NEW b \in Listed, Passed(b)
       PROVE  Passed(b)'
  <2>1. CASE b = p
    BY <2>1, <1>11
  <2>2. CASE b # p
    <3>1. b \in Addr /\ blk'[b].observed = blk[b].observed
      BY <2>2, <1>4, <1>9, BlockFacts, <1>2
    <3>2. blk[blockTail].start <= blk'[blockTail'].start
      BY <1>1, <1>2, <1>10, BlockFacts DEF BlockTypes
    <3>3. Walking(s) /\ blk[me[s].ptr].start <= blk'[me'[s].ptr].start
      BY <1>p, <1>1, <1>2, <1>3, <1>5, BlockFacts
    <3> QED
      BY <1>12, <1>1, <1>4, <1>6, <1>7, <1>9, <3>1, <3>2, <3>3, PassedMoves
  <2> QED
    BY <2>1, <2>2
<1>13. ASSUME NEW t \in Senders
       PROVE  TailOf(t)'
  <2>1. TailOf(t) /\ WalkOf(t) /\ me'[t] = me[t]
    BY <1>1, <1>2, <1>9 DEF BlocksInv, TailInv, Walk
  <2>2. Active(t)' => blk'[blockTail'].start <= me'[t].slot
    BY <1>1, <1>4, <1>10, <2>1 DEF TailOf, Active
  <2>3. place'[t] = "observe" => blk'[me'[t].ptr].start < blk'[blockTail'].start
    <3>1. place'[t] = "observe" => place[t] = "observe" /\ me[t].ptr \in Addr
      BY <1>2, <1>4, <2>1, BlockFacts DEF WalkOf, Walking
    <3> QED
      BY <3>1, <1>1, <1>6, <1>10, <2>1 DEF TailOf
  <2>4. place'[t] = "release" => Passed(me[t].ptr)'
    <3> SUFFICES ASSUME place'[t] = "release" PROVE Passed(me[t].ptr)'
      OBVIOUS
    <3>1. CASE t = s
      BY <3>1, <1>p, <1>1, <1>11 DEF Passed
    <3>2. CASE t # s
      <4>1. PICK b \in Listed : b = me[t].ptr /\ Passed(b)
        BY <3>2, <1>4, <2>1 DEF TailOf, WalkOf, Walking
      <4>2. Passed(b)' /\ b = me'[t].ptr
        BY <4>1, <2>1, <1>12
      <4> QED
        BY <4>2 DEF Passed
    <3> QED
      BY <3>1, <3>2
  <2> QED
    BY <2>1, <2>2, <2>3, <2>4 DEF TailOf
<1>14. TailInv'
  <2>1. blockTail \in Listed /\ blk[blockTail].start <= tail
        /\ \A b \in Listed : blk[b].released => Passed(b)
    BY <1>9 DEF BlocksInv, TailInv
  <2>2. \A b \in Listed : blk'[b].released => Passed(b)'
    BY <2>1, <1>2, <1>6, <1>12, BlockFacts
  <2> QED
    BY <1>1, <1>9, <1>10, <1>13, <2>1, <2>2 DEF TailInv
<1> QED
  BY <1>7, <1>9, <1>14 DEF BlocksInv

LEMMA TxReleaseKeeps ==
    ASSUME BlocksInv, NEW s \in Senders, B!TxRelease(s)
    PROVE  BlocksInv'
<1>p. PICK p, n : p = me[s].ptr /\ n = me[s].next
  OBVIOUS
<1>1. /\ place[s] = "release" /\ place' = [place EXCEPT ![s] = "walk"]
      /\ me' = [me EXCEPT ![s].ptr = n, ![s].next = Null]
      /\ blk' = [blk EXCEPT ![p].released = TRUE]
      /\ UNCHANGED <<blockTail, tail, handles, head, index, freeHead, rpc, victim, curr,
                     tries, was, popped>>
  BY <1>p DEF B!TxRelease, B!Advance, B!Goto, B!rx, B!seen
<1>2. BlockTypes /\ WalkOf(s) /\ Walking(s) /\ Behind(s) /\ Walk
  BY <1>1 DEF BlocksInv, Walk, Walking, Behind
<1>3. /\ p \in Listed /\ p \in Addr /\ n \in Listed /\ n \in Addr
      /\ blk[p].start \in Nat /\ BLOCK_CAP \in Nat
      /\ blk[n].start = blk[p].start + BLOCK_CAP
      /\ blk[n].start <= me[s].slot
  BY <1>p, <1>1, <1>2, Ahead, BlocksAssumption DEF WalkOf
<1>4. /\ blk'[p] = [blk[p] EXCEPT !.released = TRUE] /\ blk[p] \in BlockRecords
      /\ \A b \in Addr : b # p => blk'[b] = blk[b]
      /\ me'[s] = [me[s] EXCEPT !.ptr = n, !.next = Null] /\ me[s] \in Locals
      /\ place'[s] = "walk" /\ \A t \in Senders : t # s => me'[t] = me[t] /\ place'[t] = place[t]
  BY <1>1, <1>2, <1>3 DEF BlockTypes
<1>5. /\ blk'[p].own = blk[p].own /\ blk'[p].start = blk[p].start /\ blk'[p].next = blk[p].next
      /\ blk'[p].ready = blk[p].ready /\ blk'[p].val = blk[p].val /\ blk'[p].closed = blk[p].closed
      /\ blk'[p].observed = blk[p].observed /\ blk'[p] \in BlockRecords
      /\ me'[s] \in Locals
      /\ me'[s].ptr = n /\ me'[s].slot = me[s].slot /\ me'[s].close = me[s].close
      /\ me'[s].fresh = me[s].fresh /\ me'[s].next = Null /\ me'[s].curr = me[s].curr
  BY <1>3, <1>4 DEF BlockRecords, Locals, Pointers
<1>6. \A b \in Addr : /\ blk'[b].own = blk[b].own /\ blk'[b].start = blk[b].start
                      /\ blk'[b].next = blk[b].next /\ blk'[b].ready = blk[b].ready
                      /\ blk'[b].val = blk[b].val /\ blk'[b].closed = blk[b].closed
                      /\ blk'[b].observed = blk[b].observed
                      /\ blk'[b].released => blk[b].released \/ b = p
  BY <1>4, <1>5
<1>7. BlockTypes'
  BY <1>1, <1>2, <1>3, <1>4, <1>5 DEF BlockTypes
<1>8. WalkOf(s)'
  <2>1. n \in Listed'
    BY <1>3, <1>6 DEF Listed
  <2> QED
    BY <1>1, <1>2, <1>3, <1>4, <1>5, <1>6, <2>1 DEF WalkOf, Walking, Behind
<1>9. /\ popped # B!Closed /\ Listed' = Listed
      /\ Chain' /\ Outside' /\ Slots' /\ Closing' /\ Walk' /\ Receiver' /\ Answers'
  <2>1. \A b \in Addr : b \notin Listed => blk'[b] = blk[b]
    BY <1>3, <1>4
  <2> QED
    BY <1>1, <1>4, <1>5, <1>6, <1>7, <1>8, <2>1, SenderMoves DEF Active
<1>10. blockTail \in Addr /\ blk'[blockTail].start = blk[blockTail].start
       /\ blk[blockTail].start \in Nat /\ TailInv
  BY <1>2, <1>6, BlockFacts DEF BlocksInv, BlockTypes
<1>11. ASSUME NEW b \in Listed, Passed(b)
       PROVE  Passed(b)'
  <2>1. b \in Addr /\ blk'[b].observed = blk[b].observed
    BY <1>6, <1>2, BlockFacts
  <2>2. Walking(s) /\ blk[me[s].ptr].start <= blk'[me'[s].ptr].start
    BY <1>p, <1>2, <1>3, <1>5, <1>6
  <2>3. blk[blockTail].start <= blk'[blockTail'].start
    BY <1>1, <1>10
  <2>4. /\ \A c \in Addr : blk'[c].start = blk[c].start
        /\ \A t \in Senders : t # s => me'[t] = me[t] /\ place'[t] = place[t]
        /\ me'[s].slot = me[s].slot
    BY <1>4, <1>5, <1>6
  <2> QED
    BY <1>11, <1>7, <1>9, <2>1, <2>2, <2>3, <2>4, PassedMoves
<1>12. Passed(p)
  BY <1>p, <1>1, <1>9, <1>10 DEF TailInv, TailOf, Passed
<1>13. ASSUME NEW t \in Senders
       PROVE  TailOf(t)'
  <2>1. TailOf(t) /\ WalkOf(t)
    BY <1>2, <1>9, <1>10 DEF TailInv, Walk
  <2>2. Active(t)' => blk'[blockTail'].start <= me'[t].slot
    BY <1>1, <1>4, <1>5, <1>10, <2>1 DEF TailOf, Active
  <2>3. place'[t] = "observe" => blk'[me'[t].ptr].start < blk'[blockTail'].start
    <3>1. place'[t] = "observe" => t # s /\ place[t] = "observe" /\ me[t].ptr \in Addr
      BY <1>2, <1>4, <2>1, BlockFacts DEF WalkOf, Walking
    <3>2. place'[t] = "observe" => /\ me'[t].ptr = me[t].ptr
                                   /\ blk'[me[t].ptr].start = blk[me[t].ptr].start
      BY <3>1, <1>4, <1>6
    <3> QED
      BY <3>1, <3>2, <1>1, <1>10, <2>1 DEF TailOf
  <2>4. place'[t] = "release" => Passed(me[t].ptr)'
    <3> SUFFICES ASSUME place'[t] = "release" PROVE Passed(me[t].ptr)'
      OBVIOUS
    <3>1. t # s /\ me'[t] = me[t] /\ place[t] = "release"
      BY <1>4
    <3>2. PICK b \in Listed : b = me[t].ptr /\ Passed(b)
      BY <3>1, <2>1 DEF TailOf, WalkOf, Walking
    <3>3. Passed(b)' /\ b = me'[t].ptr
      BY <3>1, <3>2, <1>11
    <3> QED
      BY <3>3 DEF Passed
  <2> QED
    BY <2>2, <2>3, <2>4 DEF TailOf
<1>14. TailInv'
  <2>1. blockTail \in Listed /\ blk[blockTail].start <= tail
        /\ \A b \in Listed : blk[b].released => Passed(b)
    BY <1>9, <1>10 DEF TailInv
  <2>2. ASSUME NEW b \in Listed, blk'[b].released
        PROVE  Passed(b)'
    <3>1. b \in Addr /\ (blk[b].released \/ b = p)
      BY <2>2, <1>2, <1>6, BlockFacts
    <3> QED
      BY <3>1, <2>1, <1>11, <1>12
  <2> QED
    BY <1>1, <1>9, <1>10, <1>13, <2>1, <2>2 DEF TailInv
<1> QED
  BY <1>7, <1>9, <1>14 DEF BlocksInv

LEMMA WriteKeeps ==
    ASSUME BlocksInv, NEW s \in Senders, B!Write(s)
    PROVE  BlocksInv'
<1>p. PICK p, k, o, close : /\ p = me[s].ptr /\ k = me[s].slot /\ o = B!Offset(k)
                            /\ close = me[s].close
  OBVIOUS
<1>1. /\ place[s] = "walk" /\ B!Here(s) /\ place' = [place EXCEPT ![s] = "idle"]
      /\ me' = [me EXCEPT ![s] = B!NoLocals]
      /\ blk' = IF close THEN [blk EXCEPT ![p].closed = TRUE]
                ELSE [blk EXCEPT ![p].val[o] = k, ![p].ready = @ \cup {o}]
      /\ UNCHANGED <<blockTail, tail, handles, head, index, freeHead, rpc, victim, curr,
                     tries, was, popped>>
  BY <1>p DEF B!Write, B!Goto, B!rx, B!seen
<1>2. /\ BlockTypes /\ WalkOf(s) /\ Walking(s) /\ Walk /\ Active(s) /\ Slots /\ Claims
      /\ Closing /\ Outside /\ Carries(s)
  BY <1>1 DEF BlocksInv, Walk, Walking, Active, Slots, Outside
<1>3. /\ p \in Listed /\ p \in Addr /\ blk[p].start \in Nat /\ BLOCK_CAP \in Nat
      /\ k \in Nat /\ k < blk[p].start + BLOCK_CAP /\ blk[p].start <= k
      /\ close \in BOOLEAN /\ me[s] \in Locals
  BY <1>p, <1>1, <1>2, Ahead, BlockFacts DEF WalkOf, Locals
<1>4. o \in B!Offsets /\ blk[p].start + o = k
  BY <1>p, <1>1, <1>3, StartFacts DEF B!Here
<1>5. /\ blk[p] \in BlockRecords
      /\ \A b \in Addr : b # p => blk'[b] = blk[b]
      /\ close => blk'[p] = [blk[p] EXCEPT !.closed = TRUE]
      /\ ~close => blk'[p] = [blk[p] EXCEPT !.val[o] = k, !.ready = @ \cup {o}]
      /\ me'[s] = B!NoLocals
      /\ place'[s] = "idle" /\ \A t \in Senders : t # s => me'[t] = me[t] /\ place'[t] = place[t]
  BY <1>1, <1>2, <1>3 DEF BlockTypes
<1>6. /\ blk'[p].own = blk[p].own /\ blk'[p].start = blk[p].start /\ blk'[p].next = blk[p].next
      /\ blk'[p].observed = blk[p].observed /\ blk'[p].released = blk[p].released
      /\ close => /\ blk'[p].ready = blk[p].ready /\ blk'[p].val = blk[p].val
      /\ ~close => /\ blk'[p].ready = blk[p].ready \cup {o} /\ blk'[p].closed = blk[p].closed
                   /\ blk'[p].val = [blk[p].val EXCEPT ![o] = k]
      /\ blk'[p] \in BlockRecords
  <2>1. CASE close
    BY <2>1, <1>5 DEF BlockRecords
  <2>2. CASE ~close
    <3>1. blk[p].val \in [B!Offsets -> Int] /\ blk[p].ready \in SUBSET B!Offsets
      BY <1>5 DEF BlockRecords
    <3>2. /\ blk'[p].ready = blk[p].ready \cup {o}
          /\ blk'[p].val = [blk[p].val EXCEPT ![o] = k]
          /\ blk'[p].own = blk[p].own /\ blk'[p].start = blk[p].start
          /\ blk'[p].next = blk[p].next /\ blk'[p].closed = blk[p].closed
          /\ blk'[p].observed = blk[p].observed /\ blk'[p].released = blk[p].released
      BY <2>2, <1>5 DEF BlockRecords
    <3>3. [blk[p].val EXCEPT ![o] = k] \in [B!Offsets -> Int]
          /\ blk[p].ready \cup {o} \in SUBSET B!Offsets
      BY <3>1, <1>3, <1>4
    <3>4. blk'[p] \in BlockRecords
      BY <2>2, <1>5, <3>3 DEF BlockRecords
    <3> QED
      BY <2>2, <3>2, <3>4
  <2> QED
    BY <2>1, <2>2
<1>7. BlockTypes'
  <2>1. B!NoLocals \in Locals
    BY DEF B!NoLocals, Locals, Pointers
  <2>2. blk' \in [Addr -> BlockRecords]
    BY <1>1, <1>2, <1>3, <1>5, <1>6 DEF BlockTypes
  <2>3. me' \in [Senders -> Locals]
    BY <1>1, <1>2, <2>1 DEF BlockTypes
  <2> QED
    BY <1>1, <1>2, <2>2, <2>3 DEF BlockTypes
<1>8. \A b \in Addr : /\ blk'[b].own = blk[b].own /\ blk'[b].start = blk[b].start
                      /\ blk'[b].next = blk[b].next /\ blk'[b].observed = blk[b].observed
                      /\ blk'[b].released = blk[b].released
                      /\ blk[b].ready \subseteq blk'[b].ready
                      /\ b \notin Listed => blk'[b] = blk[b]
  BY <1>3, <1>5, <1>6
<1>9. Chain' /\ Listed' = Listed /\ Listed \subseteq Addr
  BY <1>1, <1>8, ChainStays DEF BlocksInv, Listed
<1>10. \A b \in Listed : Kept(b)
  BY <1>8, <1>9 DEF Kept
<1>11. \A i \in Nat : i >= index /\ IsReady(i) => IsReady(i)'
  BY <1>2, <1>10, ReadyStays
<1>12. popped # B!Closed
  BY <1>2 DEF Closing, AllGone
<1>13. Outside'
  <2>1. me[s].fresh = Null /\ B!NoLocals.fresh = Null
    BY <1>1, <1>2 DEF Carries, B!NoLocals
  <2>2. \A t \in Senders : /\ me'[t].fresh = me[t].fresh
                           /\ place'[t] = "append" <=> place[t] = "append"
    BY <1>1, <1>5, <2>1
  <2> QED
    BY <1>1, <1>2, <1>8, <2>2, OutsideStays
<1>14. \A t \in Senders : Active(t)' <=> Active(t) /\ t # s
  BY <1>5 DEF Active
<1>15. \A i : Claimed(i)' <=> Claimed(i) /\ i # k
  BY <1>p, <1>2, <1>5, <1>14 DEF Claimed, Claims
<1>16. Claims' /\ index <= k /\ k < tail
  <2>1. index <= k /\ k < tail
    BY <1>p, <1>2 DEF Claims
  <2>2. ASSUME NEW t \in Senders
        PROVE  IF Active(t)' THEN index <= me'[t].slot /\ me'[t].slot < tail
               ELSE me'[t] = B!NoLocals
    <3>1. CASE t = s
      BY <3>1, <1>5, <1>14
    <3>2. CASE t # s
      <4>1. (Active(t)' <=> Active(t)) /\ me'[t] = me[t]
        BY <3>2, <1>5, <1>14
      <4> QED
        BY <4>1, <1>2 DEF Claims
    <3> QED
      BY <3>1, <3>2
  <2>3. ASSUME NEW t \in Senders, NEW u \in Senders, Active(t)', Active(u)',
               me'[t].slot = me'[u].slot
        PROVE  t = u
    <3>1. Active(t) /\ Active(u) /\ me'[t] = me[t] /\ me'[u] = me[u]
      BY <2>3, <1>5, <1>14
    <3> QED
      BY <2>3, <3>1, <1>2 DEF Claims
  <2>4. index' = index /\ tail' = tail /\ index <= tail
    BY <1>1, <1>2 DEF Claims
  <2> QED
    BY <2>1, <2>2, <2>3, <2>4 DEF Claims, B!NoLocals
<1>17. Claimed(k)
  BY <1>p, <1>2 DEF Claimed
<1>18. ASSUME NEW b \in Listed
       PROVE  Written(b)'
  <2>1. Written(b)
    BY <1>2 DEF Slots
  <2>2. CASE b # p
    <3>1. blk'[b] = blk[b]
      BY <2>2, <1>5, <1>9
    <3> QED
      BY <2>1, <3>1, <1>1, <1>15 DEF Written
  <2>3. CASE b = p /\ close
    BY <2>1, <2>3, <1>1, <1>6, <1>15 DEF Written
  <2>4. CASE b = p /\ ~close
    <3>t. tail' = tail /\ blk'[p].start = blk[p].start
      BY <1>1, <1>6
    <3> SUFFICES ASSUME NEW e \in blk'[p].ready, NEW i, i = blk[p].start + e
                 PROVE  i < tail /\ blk'[p].val[e] = i /\ ~Claimed(i)'
      BY <2>4, <3>t DEF Written, Claimed
    <3>0. blk[p].val \in [B!Offsets -> Int] /\ blk[p].ready \subseteq B!Offsets
      BY <1>5 DEF BlockRecords
    <3>1. CASE e = o
      <4>1. blk'[p].val[o] = k
        BY <2>4, <1>4, <1>6, <3>0
      <4>2. i = k /\ k < tail /\ ~Claimed(k)'
        BY <3>1, <1>4, <1>15, <1>16
      <4> QED
        BY <3>1, <4>1, <4>2
    <3>2. CASE e # o
      <4>1. e \in blk[p].ready
        BY <3>2, <2>4, <1>6
      <4>2. blk'[p].val[e] = blk[p].val[e]
        BY <3>2, <4>1, <2>4, <1>6, <3>0
      <4>3. i < tail /\ blk[p].val[e] = i /\ ~Claimed(i)
        BY <2>1, <2>4, <4>1 DEF Written, Claimed
      <4> QED
        BY <4>2, <4>3, <1>15
    <3> QED
      BY <3>1, <3>2
  <2> QED
    BY <1>3, <2>2, <2>3, <2>4
<1>19. ~close => IsReady(k)'
  BY <1>3, <1>4, <1>6, <1>9 DEF IsReady
<1>20. close => handles = {} /\ k = tail - 1
  BY <1>p, <1>2 DEF Closing
<1>21. Slots'
  <2>1. ASSUME NEW i \in index .. tail - 1
        PROVE  Claimed(i)' \/ IsReady(i)' \/ (handles = {} /\ i = tail - 1)
    <3>1. Claimed(i) \/ IsReady(i) \/ (handles = {} /\ i = tail - 1)
      BY <1>2 DEF Slots
    <3>2. i \in Nat /\ i >= index
      BY <1>2 DEF BlockTypes
    <3>3. CASE i = k
      BY <3>3, <1>3, <1>19, <1>20
    <3>4. CASE i # k
      BY <3>1, <3>2, <3>4, <1>11, <1>15
    <3> QED
      BY <3>3, <3>4
  <2> QED
    BY <1>1, <1>9, <1>16, <1>18, <2>1 DEF Slots
<1>22. Closing'
  <2>1. ASSUME NEW t \in Senders
        PROVE  /\ Active(t)' => t \in handles' \/ me'[t].close
               /\ me'[t].close => Active(t)' /\ handles' = {} /\ me'[t].slot = tail' - 1
    <3>1. CASE t = s
      BY <3>1, <1>5, <1>14 DEF B!NoLocals
    <3>2. CASE t # s
      BY <3>2, <1>1, <1>2, <1>5, <1>14 DEF Closing
    <3> QED
      BY <3>1, <3>2
  <2>2. \A b \in Listed : ~blk[b].closed
    BY <1>2 DEF Closing, Marked, AllGone
  <2>3. ASSUME NEW b \in Listed, blk'[b].closed
        PROVE  Marked(b)'
    <3>1. b = p /\ close
      BY <2>2, <2>3, <1>3, <1>5, <1>6, <1>9
    <3>2. AllGone'
      <4>1. handles' = {} /\ k = tail - 1
        BY <3>1, <1>1, <1>20
      <4>2. ASSUME NEW t \in Senders, Active(t)'
            PROVE  FALSE
        <5>1. t # s /\ Active(t) /\ me[t].slot = k
          BY <4>1, <4>2, <1>1, <1>2, <1>14 DEF Closing
        <5> QED
          BY <5>1, <1>p, <1>2 DEF Claims
      <4> QED
        BY <4>1, <4>2 DEF AllGone
    <3>3. ~IsReady(k)'
      <4> SUFFICES ASSUME NEW c \in Listed, NEW e \in blk'[c].ready, k = blk'[c].start + e
                   PROVE  FALSE
        BY <1>9 DEF IsReady
      <4>1. e \in blk[c].ready /\ k = blk[c].start + e /\ Written(c)
        BY <3>1, <1>2, <1>5, <1>6, <1>9 DEF Slots
      <4> QED
        BY <4>1, <1>17 DEF Written
    <3>4. k = tail' - 1 /\ tail' = tail /\ index' = index /\ blk'[b].start = blk[p].start
          /\ index \in Nat /\ tail \in Nat
      BY <3>1, <1>1, <1>2, <1>6, <1>20 DEF BlockTypes
    <3>5. index' < tail' /\ blk'[b].start < tail' /\ tail' <= blk'[b].start + BLOCK_CAP
      BY <3>4, <1>3, <1>16
    <3> QED
      BY <3>2, <3>3, <3>4, <3>5 DEF Marked, IsReady
  <2> QED
    BY <1>1, <1>9, <1>12, <2>1, <2>3 DEF Closing, B!Closed
<1>23. Walk'
  <2> SUFFICES ASSUME NEW t \in Senders PROVE WalkOf(t)'
    BY DEF Walk
  <2>1. CASE t = s
    <3>1. place'[t] = "idle" /\ me'[t].next = Null /\ me'[t].curr = Null
      BY <2>1, <1>5 DEF B!NoLocals
    <3> QED
      BY <3>1 DEF WalkOf, Walking, Behind
  <2>2. CASE t # s
    <3>1. WalkOf(t) /\ place'[t] = place[t] /\ me'[t] = me[t]
      BY <2>2, <1>2, <1>5 DEF Walk
    <3>2. Walking(t) => Kept(me[t].ptr)
      BY <3>1, <1>10 DEF WalkOf
    <3>3. place[t] = "append" => Kept(me[t].curr)
      BY <3>1, <1>10 DEF WalkOf
    <3> QED
      BY <3>1, <3>2, <3>3, <1>2, <1>7, WalkStays
  <2> QED
    BY <2>1, <2>2
<1>24. Receiver' /\ Answers'
  <2>1. Kept(head)
    BY <1>10, <1>12 DEF BlocksInv, Receiver
  <2>2. IsReady(index) => IsReady(index)'
    <3>1. index' = index /\ index \in Nat
      BY <1>1, <1>2 DEF BlockTypes
    <3>2. PICK i \in Nat : i = index
      BY <3>1
    <3>3. IsReady(i) => IsReady(i)'
      BY <3>1, <3>2, <1>11
    <3> QED
      BY <3>1, <3>2, <3>3 DEF IsReady
  <2> QED
    BY <1>1, <1>12, <2>1, <2>2, ReceiverStays DEF BlocksInv
<1>25. TailInv'
  <2>1. /\ blockTail \in Listed /\ blk[blockTail].start <= tail
        /\ \A t \in Senders : TailOf(t)
        /\ \A b \in Listed : blk[b].released => Passed(b)
    BY <1>12 DEF BlocksInv, TailInv
  <2>2. blk'[blockTail'].start = blk[blockTail].start /\ blk[blockTail].start \in Nat
    BY <1>1, <1>2, <1>8, <1>9, <2>1, BlockFacts
  <2>3. ASSUME NEW b \in Addr, Passed(b)
        PROVE  Passed(b)'
    <3>1. \A t \in Senders : Walking(t)' =>
             /\ Walking(t) /\ me'[t].slot = me[t].slot
             /\ blk[me[t].ptr].start <= blk'[me'[t].ptr].start
      <4> SUFFICES ASSUME NEW t \in Senders, Walking(t)'
                   PROVE  /\ Walking(t) /\ me'[t].slot = me[t].slot
                          /\ blk[me[t].ptr].start <= blk'[me'[t].ptr].start
        OBVIOUS
      <4>1. t # s /\ me'[t] = me[t] /\ Walking(t)
        BY <1>5 DEF Walking
      <4>2. me[t].ptr \in Addr
        BY <4>1, <1>2, <1>9 DEF Walk, WalkOf
      <4>3. blk[me[t].ptr].start \in Nat /\ blk'[me[t].ptr].start = blk[me[t].ptr].start
        BY <4>2, <1>2, <1>8, BlockFacts
      <4> QED
        BY <4>1, <4>3
    <3>2. blk'[b].start = blk[b].start /\ blk[b].observed <= blk'[b].observed
      BY <1>2, <1>8, BlockFacts
    <3> QED
      BY <2>2, <2>3, <3>1, <3>2, <1>2, <1>7, <1>23, PassedStays
  <2>4. ASSUME NEW t \in Senders
        PROVE  TailOf(t)'
    <3>1. CASE t = s
      BY <3>1, <1>5 DEF TailOf, Active
    <3>2. CASE t # s
      <4>1. TailOf(t) /\ WalkOf(t) /\ me'[t] = me[t] /\ place'[t] = place[t]
        BY <3>2, <2>1, <1>2, <1>5 DEF Walk
      <4>2. Active(t)' => blk'[blockTail'].start <= me'[t].slot
        BY <4>1, <2>2 DEF TailOf, Active
      <4>3. Walking(t) => me[t].ptr \in Addr
        BY <4>1, <1>9 DEF WalkOf
      <4>4. place'[t] = "observe" => blk'[me'[t].ptr].start < blk'[blockTail'].start
        BY <4>1, <4>3, <2>2, <1>8 DEF TailOf, Walking
      <4>5. place'[t] = "release" => Passed(me[t].ptr)'
        <5> SUFFICES ASSUME place'[t] = "release" PROVE Passed(me[t].ptr)'
          OBVIOUS
        <5>1. PICK b \in Addr : b = me[t].ptr /\ Passed(b)
          BY <4>1, <4>3 DEF TailOf, Walking
        <5>2. Passed(b)' /\ b = me'[t].ptr
          BY <4>1, <5>1, <2>3
        <5> QED
          BY <5>2 DEF Passed
      <4> QED
        BY <4>1, <4>2, <4>4, <4>5 DEF TailOf
    <3> QED
      BY <3>1, <3>2
  <2>5. \A b \in Listed : blk'[b].released => Passed(b)'
    BY <2>1, <2>3, <1>8, <1>9
  <2> QED
    BY <1>1, <1>9, <2>1, <2>2, <2>4, <2>5 DEF TailInv
<1> QED
  BY <1>7, <1>9, <1>13, <1>21, <1>22, <1>23, <1>24, <1>25 DEF BlocksInv

-----------------------------------------------------------------------------
(* A block more                                                            *)

\* Block new goes after block c, the last one.
Appended(new, c) ==
    /\ new \in Addr \ Listed /\ c \in Listed /\ blk[c].next = Null
    /\ blk'[new].own = "list" /\ blk'[new].start = blk[c].start + BLOCK_CAP
    /\ blk'[new].next = Null /\ blk'[new].ready = {}
    /\ ~blk'[new].released /\ ~blk'[new].closed
    /\ blk'[c].next = new
    /\ \A b \in Addr \ {new} :
          /\ blk'[b].own = blk[b].own /\ blk'[b].start = blk[b].start
          /\ b # c => blk'[b].next = blk[b].next
          /\ blk'[b].ready = blk[b].ready /\ blk'[b].val = blk[b].val
          /\ blk'[b].closed = blk[b].closed /\ blk'[b].released = blk[b].released
          /\ blk'[b].observed = blk[b].observed
          /\ b \notin Listed => blk'[b] = blk[b]

LEMMA ChainGrows ==
    ASSUME BlocksInv, NEW new, NEW c, Appended(new, c), freeHead' = freeHead
    PROVE  /\ Chain' /\ Listed' = Listed \cup {new} /\ Listed \subseteq Addr
           /\ \A b \in Listed : Kept(b)
<1>1. Listed \subseteq Addr /\ Listed' = Listed \cup {new} /\ new \notin Listed /\ c \in Listed
      /\ new \in Addr /\ new # Null
  BY BlocksAssumption DEF Appended, Listed
<1>2. /\ \A b \in Listed : blk'[b].start = blk[b].start
      /\ \A b \in Listed : b # c => blk'[b].next = blk[b].next
      /\ blk'[c].next = new /\ blk[c].next = Null
      /\ blk'[new].start = blk[c].start + BLOCK_CAP /\ blk'[new].next = Null
  BY <1>1 DEF Appended
<1>3. /\ \A b \in Listed : blk[b].start \in Nat /\ blk[b].start \in Starts
      /\ BLOCK_CAP \in Nat /\ BLOCK_CAP > 0
  BY <1>1, BlockFacts DEF BlocksInv, Chain
<1>4. \A b \in Listed : blk[b].start <= blk[c].start
  BY <1>1, <1>2 DEF BlocksInv, Chain
<1>5. \A b \in Listed : Kept(b)
  BY <1>1, <1>2 DEF Kept, Appended
<1>6. blk'[new].start \in Starts
  BY <1>1, <1>2, <1>3, StartsNext
<1>7. \A b \in Listed : blk'[b].start < blk'[new].start
  BY <1>1, <1>2, <1>3, <1>4
<1>8. \A b, d \in Listed' : blk'[b].start = blk'[d].start => b = d
  <2> SUFFICES ASSUME NEW b \in Listed', NEW d \in Listed', blk'[b].start = blk'[d].start
               PROVE  b = d
    OBVIOUS
  <2>1. CASE b \in Listed /\ d \in Listed
    BY <2>1, <1>2 DEF BlocksInv, Chain
  <2>2. CASE b = new /\ d \in Listed
    BY <2>2, <1>1, <1>2, <1>3, <1>7
  <2>3. CASE b \in Listed /\ d = new
    BY <2>3, <1>1, <1>2, <1>3, <1>7
  <2> QED
    BY <1>1, <2>1, <2>2, <2>3
<1>9. ASSUME NEW b \in Listed', blk'[b].next # Null
      PROVE  /\ blk'[b].next \in Listed'
             /\ blk'[blk'[b].next].start = blk'[b].start + BLOCK_CAP
  <2>1. CASE b = c
    BY <2>1, <1>1, <1>2
  <2>2. CASE b \in Listed \ {c}
    <3>1. /\ blk[b].next \in Listed /\ blk'[b].next = blk[b].next
          /\ blk[blk[b].next].start = blk[b].start + BLOCK_CAP
      BY <2>2, <1>2, <1>9 DEF BlocksInv, Chain
    <3> QED
      BY <2>2, <3>1, <1>1, <1>2
  <2> QED
    BY <2>1, <2>2, <1>1, <1>2, <1>9
<1>10. ASSUME NEW b \in Listed', NEW d \in Listed', blk'[b].next = Null
       PROVE  blk'[d].start <= blk'[b].start
  <2>1. CASE b = new
    <3>1. blk'[new].start \in Nat
      BY <1>6, StartsAre
    <3> QED
      BY <2>1, <3>1, <1>1, <1>2, <1>3, <1>7
  <2>2. CASE b \in Listed
    <3>1. b # c /\ blk[b].next = Null
      BY <2>2, <1>1, <1>2, <1>10
    <3>2. blk[c].start <= blk[b].start /\ blk[b].start <= blk[c].start
      BY <2>2, <3>1, <1>1, <1>4 DEF BlocksInv, Chain
    <3>3. b = c
      BY <2>2, <3>2, <1>1, <1>3 DEF BlocksInv, Chain
    <3> QED
      BY <3>1, <3>3
  <2> QED
    BY <2>1, <2>2, <1>1
<1>11. freeHead \in Listed /\ \A b \in Listed' : blk'[freeHead].start <= blk'[b].start
  <2>1. freeHead \in Listed /\ \A b \in Listed : blk[freeHead].start <= blk[b].start
    BY <1>1 DEF BlocksInv, Chain
  <2>2. \A b \in Listed : blk'[freeHead].start <= blk'[b].start
    BY <2>1, <1>2
  <2>3. blk'[freeHead].start <= blk'[new].start
    <3>1. blk'[freeHead].start < blk'[new].start /\ blk'[freeHead].start = blk[freeHead].start
      BY <2>1, <1>2, <1>7
    <3>2. blk[freeHead].start \in Nat /\ blk'[new].start \in Nat
      BY <2>1, <1>3, <1>6, StartsAre
    <3> QED
      BY <3>1, <3>2
  <2> QED
    BY <2>1, <2>2, <2>3, <1>1
<1>12. \A b \in Listed' : blk'[b].start \in Starts
  BY <1>1, <1>2, <1>3, <1>6
<1>13. freeHead # Null
  BY <1>1, <1>11, BlocksAssumption
<1>14. Chain'
  BY <1>1, <1>8, <1>9, <1>10, <1>11, <1>12, <1>13 DEF Chain, Starts, B!StartIndex
<1> QED
  BY <1>1, <1>5, <1>14

\* Those who do not know of the new block go on as they were.
LEMMA ListGrows ==
    ASSUME BlocksInv, BlockTypes', NEW new, NEW c, Appended(new, c), popped # B!Closed,
           UNCHANGED <<blockTail, tail, handles, head, index, freeHead, was, popped>>,
           \/ rpc' = rpc
           \/ rpc = "push" /\ rpc' = "reclaim",
           \A t \in Senders :
              \/ me'[t] = me[t] /\ place'[t] = place[t]
              \/ /\ me'[t].slot = me[t].slot /\ me'[t].close = me[t].close
                 /\ me'[t].ptr = me[t].ptr
                 /\ place[t] \in {"grow", "append"} /\ place'[t] = "final"
                 /\ WalkOf(t)'
    PROVE  /\ Chain' /\ Listed' = Listed \cup {new}
           /\ Slots' /\ Closing' /\ Walk' /\ TailInv' /\ Receiver' /\ Answers'
<1>1. /\ Chain' /\ Listed' = Listed \cup {new} /\ Listed \subseteq Addr
      /\ \A b \in Listed : Kept(b)
  BY ChainGrows
<1>2. BlockTypes /\ Slots /\ Closing /\ Walk /\ TailInv /\ Receiver /\ Answers
  BY DEF BlocksInv
<1>3. /\ blk'[new].ready = {} /\ ~blk'[new].closed /\ ~blk'[new].released /\ new \notin Listed
      /\ \A b \in Listed : /\ blk'[b].start = blk[b].start
                           /\ blk'[b].ready = blk[b].ready /\ blk'[b].val = blk[b].val
                           /\ blk'[b].closed = blk[b].closed
                           /\ blk'[b].released = blk[b].released
                           /\ blk'[b].observed = blk[b].observed
  BY <1>1 DEF Appended
<1>4. \A i \in Nat : i >= index /\ IsReady(i) => IsReady(i)'
  BY <1>1, <1>2, ReadyStays
<1>5. Slots' /\ Closing'
  <2>1. \A t \in Senders : /\ Active(t)' <=> Active(t)
                           /\ me'[t].slot = me[t].slot /\ me'[t].close = me[t].close
                           /\ ~Active(t) => me'[t] = me[t]
    BY DEF Active
  <2>2. \A b \in Listed' : \/ blk'[b].ready = {} /\ ~blk'[b].closed
                           \/ /\ b \in Listed
                              /\ blk'[b].start = blk[b].start /\ blk'[b].ready = blk[b].ready
                              /\ blk'[b].val = blk[b].val /\ blk'[b].closed = blk[b].closed
    BY <1>1, <1>3
  <2> QED
    BY <1>2, <1>4, <2>1, <2>2, SlotsStay
<1>6. ASSUME NEW t \in Senders
      PROVE  WalkOf(t)'
  <2>1. CASE me'[t] = me[t] /\ place'[t] = place[t]
    <3>1. WalkOf(t)
      BY <1>2 DEF Walk
    <3>2. Walking(t) => Kept(me[t].ptr)
      BY <3>1, <1>1 DEF WalkOf
    <3>3. place[t] = "append" => Kept(me[t].curr)
      BY <3>1, <1>1 DEF WalkOf
    <3> QED
      BY <2>1, <3>1, <3>2, <3>3, <1>2, WalkStays
  <2> QED
    BY <2>1
<1>7. Walk'
  BY <1>6 DEF Walk
<1>8. Receiver' /\ Answers'
  <2>1. /\ head \in Listed' /\ blk'[head].start = blk[head].start
        /\ freeHead # Null /\ blk[head].start <= index
    BY <1>1, <1>2, <1>3 DEF Receiver
  <2>2. IsReady(index) => IsReady(index)'
    BY <1>2, <1>4 DEF BlockTypes
  <2> QED
    BY <1>2, <2>1, <2>2 DEF Receiver, Answers, B!Closed, B!None
<1>9. /\ blockTail \in Listed /\ blk[blockTail].start <= tail
      /\ \A t \in Senders : TailOf(t)
      /\ \A b \in Listed : blk[b].released => Passed(b)
  BY <1>2 DEF TailInv
<1>10. \A t \in Senders : Walking(t)' => /\ Walking(t) /\ me'[t].ptr = me[t].ptr
                                         /\ me'[t].slot = me[t].slot
                                         /\ me[t].ptr \in Listed
                                         /\ blk'[me[t].ptr].start = blk[me[t].ptr].start
                                         /\ blk[me[t].ptr].start \in Nat
  <2> SUFFICES ASSUME NEW t \in Senders, Walking(t)'
               PROVE  /\ Walking(t) /\ me'[t].ptr = me[t].ptr /\ me'[t].slot = me[t].slot
                      /\ me[t].ptr \in Listed
                      /\ blk'[me[t].ptr].start = blk[me[t].ptr].start
                      /\ blk[me[t].ptr].start \in Nat
    OBVIOUS
  <2>1. Walking(t) /\ me'[t].ptr = me[t].ptr /\ me'[t].slot = me[t].slot
    BY DEF Walking
  <2>2. me[t].ptr \in Listed
    BY <2>1, <1>2 DEF Walk, WalkOf
  <2> QED
    BY <2>1, <2>2, <1>1, <1>2, <1>3, BlockFacts
<1>11. ASSUME NEW b \in Listed, Passed(b)
       PROVE  Passed(b)'
  <2>1. \A t \in Senders : Walking(t)' =>
           /\ Walking(t) /\ me'[t].slot = me[t].slot
           /\ blk[me[t].ptr].start <= blk'[me'[t].ptr].start
    BY <1>10
  <2>2. b \in Addr /\ blk'[b].start = blk[b].start /\ blk[b].observed <= blk'[b].observed
    BY <1>1, <1>2, <1>3, BlockFacts
  <2>3. blk[blockTail].start <= blk'[blockTail'].start
    BY <1>1, <1>2, <1>3, <1>9, BlockFacts
  <2> QED
    BY <1>11, <1>2, <1>7, <2>1, <2>2, <2>3, PassedStays
<1>12. ASSUME NEW t \in Senders
       PROVE  TailOf(t)'
  <2>1. TailOf(t) /\ blk'[blockTail].start = blk[blockTail].start
    BY <1>3, <1>9
  <2>2. Active(t)' => blk'[blockTail'].start <= me'[t].slot
    BY <2>1 DEF TailOf, Active
  <2>3. CASE me'[t] = me[t] /\ place'[t] = place[t]
    <3>1. place'[t] = "observe" => blk'[me'[t].ptr].start < blk'[blockTail'].start
      BY <2>1, <2>3, <1>10 DEF TailOf, Walking
    <3>2. place'[t] = "release" => Passed(me[t].ptr)'
      <4> SUFFICES ASSUME place'[t] = "release" PROVE Passed(me[t].ptr)'
        OBVIOUS
      <4>1. PICK b \in Listed : b = me[t].ptr /\ Passed(b)
        BY <2>1, <2>3, <1>10 DEF TailOf, Walking
      <4>2. Passed(b)' /\ b = me'[t].ptr
        BY <2>3, <4>1, <1>11
      <4> QED
        BY <4>2 DEF Passed
    <3> QED
      BY <2>2, <3>1, <3>2 DEF TailOf
  <2>4. CASE place'[t] = "final"
    BY <2>2, <2>4 DEF TailOf
  <2> QED
    BY <2>3, <2>4
<1>13. TailInv'
  BY <1>1, <1>3, <1>9, <1>11, <1>12 DEF TailInv
<1> QED
  BY <1>1, <1>5, <1>7, <1>8, <1>13

\* Whoever had the new block in hand has it no more.
LEMMA OutsideGrows ==
    ASSUME BlocksInv, NEW new, NEW c, Appended(new, c), Listed' = Listed \cup {new},
           \A t \in Senders :
              \/ /\ me'[t].fresh = me[t].fresh /\ me[t].fresh # new
                 /\ place'[t] = "append" <=> place[t] = "append"
              \/ me'[t].fresh = Null /\ place'[t] # "append",
           \A t \in Senders : me[t].fresh \notin {new, Null} => me'[t].fresh = me[t].fresh,
           \/ UNCHANGED <<rpc, victim, curr>> /\ victim # new
           \/ rpc' = "reclaim" /\ victim' = Null /\ curr' = Null /\ victim = new
    PROVE  Outside'
<1>1. BlockTypes /\ Outside
  BY DEF BlocksInv
<1>2. /\ \A b \in Addr \ {new} : blk'[b].own = blk[b].own /\ (b \notin Listed => blk'[b] = blk[b])
      /\ blk'[new].own = "list" /\ new \in Addr
  BY DEF Appended
<1>3. ASSUME NEW b \in Addr
      PROVE  /\ b \notin Listed' => Clean(b)'
             /\ blk'[b].own = "free" => blk'[b] = B!Free
             /\ blk'[b].own = "new" => \E t \in Senders : me'[t].fresh = b
             /\ blk'[b].own = "spare" => victim' = b
  <2>1. CASE b = new
    BY <2>1, <1>2
  <2>2. CASE b # new
    <3>1. blk'[b].own \in {"free", "new", "spare"} => b \notin Listed /\ blk'[b] = blk[b]
      BY <2>2, <1>2 DEF Listed
    <3>2. b \notin Listed' => Clean(b)'
      BY <2>2, <1>1, <1>2 DEF Outside, Clean
    <3>3. blk'[b].own = "free" => blk'[b] = B!Free
      BY <3>1, <1>1 DEF Outside
    <3>4. blk'[b].own = "new" => \E t \in Senders : me'[t].fresh = b
      <4> SUFFICES ASSUME blk'[b].own = "new" PROVE \E t \in Senders : me'[t].fresh = b
        OBVIOUS
      <4>1. PICK t \in Senders : me[t].fresh = b
        BY <3>1, <1>1 DEF Outside
      <4>2. me[t].fresh \notin {new, Null}
        BY <2>2, <4>1, BlocksAssumption
      <4> QED
        BY <4>1, <4>2
    <3>5. blk'[b].own = "spare" => victim' = b
      BY <2>2, <3>1, <1>1 DEF Outside
    <3> QED
      BY <3>2, <3>3, <3>4, <3>5
  <2> QED
    BY <2>1, <2>2
<1>4. ASSUME NEW t \in Senders
      PROVE  Carries(t)'
  <2>1. me[t].fresh \in Pointers /\ Carries(t)
    BY <1>1, BlockFacts DEF Outside, Locals
  <2>2. CASE me'[t].fresh = Null /\ place'[t] # "append"
    BY <2>2 DEF Carries
  <2>3. CASE /\ me'[t].fresh = me[t].fresh /\ me[t].fresh # new
             /\ place'[t] = "append" <=> place[t] = "append"
    BY <2>1, <2>3, <1>2 DEF Carries, Pointers
  <2> QED
    BY <2>2, <2>3
<1>5. \A t, u \in Senders : me'[t].fresh = me'[u].fresh /\ me'[t].fresh # Null => t = u
  BY <1>1 DEF Outside
<1>6. /\ IF rpc' \in {"place", "push"} THEN victim' # Null /\ blk'[victim'].own = "spare"
         ELSE victim' = Null
      /\ IF rpc' = "push" THEN curr' \in Listed' ELSE curr' = Null
  <2>1. CASE rpc' = "reclaim" /\ victim' = Null /\ curr' = Null
    BY <2>1
  <2>2. CASE UNCHANGED <<rpc, victim, curr>> /\ victim # new
    BY <2>2, <1>1, <1>2 DEF Outside, BlockTypes, Pointers
  <2> QED
    BY <2>1, <2>2
<1> QED
  BY <1>3, <1>4, <1>5, <1>6 DEF Outside, B!Free, B!Block, B!Offsets

\* What a sender does next to a block, it does to nobody else's.
LEMMA GrowKeeps ==
    ASSUME BlocksInv, NEW s \in Senders, B!Grow(s)
    PROVE  BlocksInv'
<1>p. PICK p, after : p = me[s].ptr /\ after = blk[p].next
  OBVIOUS
<1>1. /\ place[s] = "grow"
      /\ UNCHANGED <<blockTail, tail, handles, head, index, freeHead, rpc, victim, curr,
                     tries, was, popped>>
  BY DEF B!Grow, B!rx, B!seen
<1>2. PICK new \in Addr :
        /\ blk[new] = B!Free
        /\ \/ /\ after = Null
              /\ blk' = [blk EXCEPT ![p].next = new,
                                    ![new] = B!Block("list", blk[p].start + BLOCK_CAP)]
              /\ me' = [me EXCEPT ![s].next = new]
              /\ place' = [place EXCEPT ![s] = "final"]
           \/ /\ after # Null
              /\ blk' = [blk EXCEPT ![new] = B!Block("new", 0)]
              /\ me' = [me EXCEPT ![s].next = after, ![s].fresh = new, ![s].curr = after]
              /\ place' = [place EXCEPT ![s] = "append"]
  BY <1>p DEF B!Grow, B!Goto
<1>3. /\ BlockTypes /\ WalkOf(s) /\ Walking(s) /\ Behind(s) /\ Walk /\ Active(s)
      /\ Closing /\ Outside /\ Carries(s) /\ Chain
  BY <1>1 DEF BlocksInv, Walk, Walking, Behind, Active, Outside
<1>4. popped # B!Closed
  BY <1>3 DEF Closing, AllGone
<1>5. /\ p \in Listed /\ p \in Addr /\ Listed \subseteq Addr
      /\ blk[p].start \in Nat /\ BLOCK_CAP \in Nat /\ BLOCK_CAP > 0
      /\ after \in Pointers
      /\ after # Null => after \in Listed /\ blk[after].start = blk[p].start + BLOCK_CAP
      /\ me[s].fresh = Null /\ me[s].curr = Null /\ me[s] \in Locals
  BY <1>p, <1>1, <1>3, Ahead, BlockFacts DEF WalkOf, Carries
<1>6. /\ blk[new].own = "free" /\ blk[new].next = Null /\ new \notin Listed /\ new # p
      /\ new # Null /\ new \in Pointers /\ blk[p] \in BlockRecords
  BY <1>2, <1>3, <1>5, BlocksAssumption DEF B!Free, B!Block, Listed, BlockTypes, Pointers
<1>7. \A n \in Nat, w \in {"list", "new"} :
         /\ B!Block(w, n) \in BlockRecords
         /\ B!Block(w, n).own = w /\ B!Block(w, n).start = n /\ B!Block(w, n).next = Null
         /\ B!Block(w, n).ready = {} /\ ~B!Block(w, n).released /\ ~B!Block(w, n).closed
  BY DEF B!Block, BlockRecords, Pointers
<1>8. blk[p].start + BLOCK_CAP \in Nat
  BY <1>5
<1>9. \A t \in Senders : t # s => me'[t] = me[t] /\ place'[t] = place[t]
  BY <1>2, <1>3 DEF BlockTypes
<1>10. CASE after = Null
  <2>1. /\ blk' = [blk EXCEPT ![p].next = new,
                              ![new] = B!Block("list", blk[p].start + BLOCK_CAP)]
        /\ me' = [me EXCEPT ![s].next = new] /\ place' = [place EXCEPT ![s] = "final"]
    BY <1>2, <1>10
  <2>2. /\ blk'[new] = B!Block("list", blk[p].start + BLOCK_CAP)
        /\ blk'[p] = [blk[p] EXCEPT !.next = new]
        /\ \A b \in Addr : b # p /\ b # new => blk'[b] = blk[b]
    BY <2>1, <1>3, <1>5, <1>6 DEF BlockTypes
  <2>3. /\ blk'[p].own = blk[p].own /\ blk'[p].start = blk[p].start /\ blk'[p].next = new
        /\ blk'[p].ready = blk[p].ready /\ blk'[p].val = blk[p].val
        /\ blk'[p].closed = blk[p].closed /\ blk'[p].released = blk[p].released
        /\ blk'[p].observed = blk[p].observed /\ blk'[p] \in BlockRecords
    BY <2>2, <1>6 DEF BlockRecords
  <2>4. me'[s] = [me[s] EXCEPT !.next = new] /\ place'[s] = "final"
    BY <2>1, <1>3 DEF BlockTypes
  <2>5. /\ me'[s] \in Locals
        /\ me'[s].ptr = p /\ me'[s].slot = me[s].slot /\ me'[s].close = me[s].close
        /\ me'[s].fresh = Null /\ me'[s].next = new /\ me'[s].curr = Null
    BY <1>p, <1>5, <1>6, <2>4 DEF Locals
  <2>6. BlockTypes'
    <3>1. blk' \in [Addr -> BlockRecords]
      BY <2>1, <2>2, <2>3, <1>3, <1>5, <1>6, <1>7, <1>8 DEF BlockTypes
    <3>2. me' \in [Senders -> Locals]
      BY <2>1, <2>4, <2>5, <1>3 DEF BlockTypes
    <3> QED
      BY <3>1, <3>2, <2>1, <1>1, <1>3 DEF BlockTypes
  <2>7. Appended(new, p)
    <3>1. blk[p].next = Null
      BY <1>p, <1>10
    <3>2. \A b \in Addr \ {new} :
            /\ blk'[b].own = blk[b].own /\ blk'[b].start = blk[b].start
            /\ b # p => blk'[b].next = blk[b].next
            /\ blk'[b].ready = blk[b].ready /\ blk'[b].val = blk[b].val
            /\ blk'[b].closed = blk[b].closed /\ blk'[b].released = blk[b].released
            /\ blk'[b].observed = blk[b].observed
            /\ b \notin Listed => blk'[b] = blk[b]
      BY <2>2, <2>3, <1>5
    <3> QED
      BY <3>1, <3>2, <2>2, <2>3, <1>5, <1>6, <1>7, <1>8 DEF Appended
  <2>8. WalkOf(s)'
    <3>1. p \in Listed' /\ blk'[p].start + BLOCK_CAP <= me'[s].slot
      BY <2>3, <2>5, <1>p, <1>3, <1>5 DEF Listed, WalkOf
    <3>2. blk'[p].start <= me'[s].slot
      BY <3>1, <2>3, <1>3, <1>5, <2>5, BlockFacts
    <3> QED
      BY <3>1, <3>2, <2>3, <2>4, <2>5, <1>6 DEF WalkOf, Walking, Behind
  <2>9. /\ Chain' /\ Listed' = Listed \cup {new}
        /\ Slots' /\ Closing' /\ Walk' /\ TailInv' /\ Receiver' /\ Answers'
    <3>1. \A t \in Senders :
             \/ me'[t] = me[t] /\ place'[t] = place[t]
             \/ /\ me'[t].slot = me[t].slot /\ me'[t].close = me[t].close
                /\ me'[t].ptr = me[t].ptr
                /\ place[t] \in {"grow", "append"} /\ place'[t] = "final"
                /\ WalkOf(t)'
      BY <1>1, <1>p, <1>9, <2>4, <2>5, <2>8
    <3>2. UNCHANGED <<blockTail, tail, handles, head, index, freeHead, was, popped, rpc>>
      BY <1>1
    <3> QED
      BY <3>1, <3>2, <1>4, <2>6, <2>7, ListGrows
  <2>10. Outside'
    <3>1. \A t \in Senders : /\ me'[t].fresh = me[t].fresh /\ me[t].fresh # new
                             /\ place'[t] = "append" <=> place[t] = "append"
      <4>1. \A t \in Senders : me[t].fresh # new
        BY <1>3, <1>6 DEF Outside, Carries
      <4> QED
        BY <4>1, <1>1, <1>5, <1>9, <2>4, <2>5
    <3>2. victim # new /\ UNCHANGED <<rpc, victim, curr>>
      BY <1>1, <1>3, <1>6 DEF Outside
    <3> QED
      BY <3>1, <3>2, <2>7, <2>9, OutsideGrows
  <2> QED
    BY <2>6, <2>9, <2>10 DEF BlocksInv
<1>11. CASE after # Null
  <2>1. /\ blk' = [blk EXCEPT ![new] = B!Block("new", 0)]
        /\ me' = [me EXCEPT ![s].next = after, ![s].fresh = new, ![s].curr = after]
        /\ place' = [place EXCEPT ![s] = "append"]
    BY <1>2, <1>11
  <2>2. /\ blk'[new] = B!Block("new", 0) /\ \A b \in Addr : b # new => blk'[b] = blk[b]
        /\ me'[s] = [me[s] EXCEPT !.next = after, !.fresh = new, !.curr = after]
        /\ place'[s] = "append"
    BY <2>1, <1>3 DEF BlockTypes
  <2>3. /\ me'[s] \in Locals
        /\ me'[s].ptr = p /\ me'[s].slot = me[s].slot /\ me'[s].close = me[s].close
        /\ me'[s].fresh = new /\ me'[s].next = after /\ me'[s].curr = after
    BY <1>p, <1>5, <1>6, <2>2 DEF Locals
  <2>4. BlockTypes'
    <3>1. blk' \in [Addr -> BlockRecords]
      BY <2>1, <1>3, <1>7 DEF BlockTypes
    <3>2. me' \in [Senders -> Locals]
      BY <2>1, <2>2, <2>3, <1>3 DEF BlockTypes
    <3> QED
      BY <3>1, <3>2, <2>1, <1>1, <1>3 DEF BlockTypes
  <2>5. /\ blk'[new].own = "new" /\ blk'[new].next = Null /\ blk'[new].ready = {}
        /\ ~blk'[new].released /\ ~blk'[new].closed
    BY <2>2, <1>7
  <2>6. Listed' = Listed /\ \A b \in Listed : blk'[b] = blk[b]
    BY <2>2, <2>5, <1>5, <1>6 DEF Listed
  <2>7. Chain'
    <3>1. \A b \in Listed : blk'[b].start = blk[b].start /\ blk'[b].next = blk[b].next
      BY <2>6
    <3> QED
      BY <3>1, <2>6, <1>1, <1>3 DEF Chain, Starts, B!StartIndex
  <2>8. \A b \in Listed : Kept(b)
    BY <2>6 DEF Kept
  <2>9. WalkOf(s)'
    <3>1. p \in Listed' /\ blk'[p] = blk[p] /\ after \in Listed' /\ blk'[after] = blk[after]
      BY <2>6, <1>5, <1>11
    <3>2. blk[p].start + BLOCK_CAP <= me[s].slot /\ blk[p].start <= me[s].slot
      BY <1>p, <1>3 DEF WalkOf
    <3>3. blk[p].start < blk[after].start
      BY <1>5, <1>11
    <3> QED
      BY <3>1, <3>2, <3>3, <1>p, <1>11, <2>2, <2>3 DEF WalkOf, Walking, Behind
  <2>10. Walk'
    <3> SUFFICES ASSUME NEW t \in Senders PROVE WalkOf(t)'
      BY DEF Walk
    <3>1. CASE t = s
      BY <3>1, <2>9
    <3>2. CASE t # s
      <4>1. WalkOf(t) /\ place'[t] = place[t] /\ me'[t] = me[t]
        BY <3>2, <1>3, <1>9 DEF Walk
      <4>2. /\ Walking(t) => Kept(me[t].ptr)
            /\ place[t] = "append" => Kept(me[t].curr)
        BY <4>1, <2>8 DEF WalkOf
      <4> QED
        BY <4>1, <4>2, <1>3, <2>4, WalkStays
    <3> QED
      BY <3>1, <3>2
  <2>11. \A i \in Nat : i >= index /\ IsReady(i) => IsReady(i)'
    BY <1>3, <2>8, ReadyStays
  <2>12. Slots' /\ Closing'
    <3>1. \A t \in Senders : /\ Active(t)' <=> Active(t)
                             /\ me'[t].slot = me[t].slot /\ me'[t].close = me[t].close
                             /\ ~Active(t) => me'[t] = me[t]
      BY <1>3, <1>9, <2>2, <2>3 DEF Active
    <3>2. \A b \in Listed' : /\ b \in Listed
                             /\ blk'[b].start = blk[b].start /\ blk'[b].ready = blk[b].ready
                             /\ blk'[b].val = blk[b].val /\ blk'[b].closed = blk[b].closed
      BY <2>6
    <3> QED
      BY <1>1, <1>3, <1>4, <2>4, <2>11, <3>1, <3>2, SlotsStay DEF BlocksInv
  <2>13. Receiver' /\ Answers'
    <3>1. Kept(head)
      BY <1>4, <2>8 DEF BlocksInv, Receiver
    <3>2. IsReady(index) => IsReady(index)'
      <4>1. PICK i \in Nat : i = index /\ index' = i
        BY <1>1, <1>3 DEF BlockTypes
      <4>2. IsReady(i) => IsReady(i)'
        BY <4>1, <1>3, <2>11 DEF BlockTypes
      <4> QED
        BY <4>1, <4>2 DEF IsReady
    <3> QED
      BY <1>1, <1>4, <3>1, <3>2, ReceiverStays DEF BlocksInv
  <2>14. TailInv'
    <3>1. /\ blockTail \in Listed /\ blk[blockTail].start <= tail
          /\ \A t \in Senders : TailOf(t)
          /\ \A b \in Listed : blk[b].released => Passed(b)
      BY <1>4 DEF BlocksInv, TailInv
    <3>2. \A t \in Senders : Walking(t)' => /\ Walking(t) /\ me'[t].ptr = me[t].ptr
                                            /\ me'[t].slot = me[t].slot
                                            /\ me[t].ptr \in Listed
      BY <1>p, <1>3, <1>5, <1>9, <2>2, <2>3 DEF Walking, Walk, WalkOf
    <3>3. ASSUME NEW b \in Listed, Passed(b)
          PROVE  Passed(b)'
      <4>1. \A t \in Senders : Walking(t)' =>
               /\ Walking(t) /\ me'[t].slot = me[t].slot
               /\ blk[me[t].ptr].start <= blk'[me'[t].ptr].start
        BY <3>2, <2>6, <1>3, BlockFacts
      <4>2. b \in Addr /\ blk'[b].start = blk[b].start /\ blk[b].observed <= blk'[b].observed
        BY <2>6, <1>3, BlockFacts
      <4>3. blk[blockTail].start <= blk'[blockTail'].start
        BY <1>1, <2>6, <3>1, <1>3, BlockFacts
      <4> QED
        BY <3>3, <1>3, <2>4, <2>10, <4>1, <4>2, <4>3, PassedStays
    <3>4. ASSUME NEW t \in Senders
          PROVE  TailOf(t)'
      <4>1. TailOf(t) /\ blk'[blockTail] = blk[blockTail] /\ blockTail' = blockTail
        BY <1>1, <2>6, <3>1
      <4>2. CASE t = s
        BY <4>1, <4>2, <1>1, <2>2, <2>3 DEF TailOf, Active
      <4>3. CASE t # s
        <5>1. me'[t] = me[t] /\ place'[t] = place[t]
          BY <4>3, <1>9
        <5>2. Active(t)' => blk'[blockTail'].start <= me'[t].slot
          BY <4>1, <5>1 DEF TailOf, Active
        <5>3. place'[t] = "observe" => blk'[me'[t].ptr].start < blk'[blockTail'].start
          BY <4>1, <5>1, <3>2, <2>6 DEF TailOf, Walking
        <5>4. place'[t] = "release" => Passed(me[t].ptr)'
          <6> SUFFICES ASSUME place'[t] = "release" PROVE Passed(me[t].ptr)'
            OBVIOUS
          <6>1. PICK b \in Listed : b = me[t].ptr /\ Passed(b)
            BY <4>1, <5>1, <3>2 DEF TailOf, Walking
          <6>2. Passed(b)' /\ b = me'[t].ptr
            BY <5>1, <6>1, <3>3
          <6> QED
            BY <6>2 DEF Passed
        <5> QED
          BY <5>2, <5>3, <5>4 DEF TailOf
      <4> QED
        BY <4>2, <4>3
    <3> QED
      BY <1>1, <2>6, <3>1, <3>3, <3>4 DEF TailInv
  <2>15. Outside'
    <3>1. \A t \in Senders : t # s => me[t].fresh # new
      BY <1>3, <1>6 DEF Outside, Carries
    <3>2. victim # new
      BY <1>3, <1>6 DEF Outside
    <3>3. ASSUME NEW b \in Addr
          PROVE  /\ b \notin Listed' => Clean(b)'
                 /\ blk'[b].own = "free" => blk'[b] = B!Free
                 /\ blk'[b].own = "new" => \E t \in Senders : me'[t].fresh = b
                 /\ blk'[b].own = "spare" => victim' = b
      <4>1. CASE b = new
        BY <4>1, <2>3, <2>5 DEF Clean
      <4>2. CASE b # new
        <5>1. blk'[b] = blk[b]
          BY <4>2, <2>2
        <5>2. b \notin Listed' => Clean(b)'
          BY <5>1, <2>6, <1>3 DEF Outside, Clean
        <5>3. blk'[b].own = "new" => \E t \in Senders : me'[t].fresh = b
          <6> SUFFICES ASSUME blk'[b].own = "new" PROVE \E t \in Senders : me'[t].fresh = b
            OBVIOUS
          <6>1. PICK t \in Senders : me[t].fresh = b
            BY <5>1, <1>3 DEF Outside
          <6>2. t # s
            BY <6>1, <1>5, BlocksAssumption
          <6> QED
            BY <6>1, <6>2, <1>9
        <5> QED
          BY <5>1, <5>2, <5>3, <1>1, <1>3 DEF Outside
      <4> QED
        BY <4>1, <4>2
    <3>4. ASSUME NEW t \in Senders
          PROVE  Carries(t)'
      <4>1. CASE t = s
        BY <4>1, <2>2, <2>3, <2>5, <1>6 DEF Carries
      <4>2. CASE t # s
        <5>1. me'[t] = me[t] /\ place'[t] = place[t] /\ Carries(t) /\ me[t].fresh \in Pointers
          BY <4>2, <1>3, <1>9, BlockFacts DEF Outside, Locals
        <5> QED
          BY <5>1, <4>2, <3>1, <2>2 DEF Carries, Pointers
      <4> QED
        BY <4>1, <4>2
    <3>5. \A t, u \in Senders : me'[t].fresh = me'[u].fresh /\ me'[t].fresh # Null => t = u
      BY <1>3, <1>9, <2>3, <3>1 DEF Outside
    <3>6. IF rpc \in {"place", "push"} THEN victim # Null /\ blk'[victim].own = "spare"
          ELSE victim = Null
      BY <2>2, <3>2, <1>3 DEF Outside, BlockTypes, Pointers
    <3>7. IF rpc = "push" THEN curr \in Listed' ELSE curr = Null
      BY <2>6, <1>3 DEF Outside
    <3> QED
      BY <3>3, <3>4, <3>5, <3>6, <3>7, <1>1 DEF Outside, B!Free, B!Block, B!Offsets
  <2> QED
    BY <2>4, <2>7, <2>10, <2>12, <2>13, <2>14, <2>15 DEF BlocksInv
<1> QED
  BY <1>10, <1>11

LEMMA AppendKeeps ==
    ASSUME BlocksInv, NEW s \in Senders, B!Append(s)
    PROVE  BlocksInv'
<1>p. PICK p, f, c, n : p = me[s].ptr /\ f = me[s].fresh /\ c = me[s].curr /\ n = blk[c].next
  OBVIOUS
<1>1. /\ place[s] = "append"
      /\ UNCHANGED <<blockTail, tail, handles, head, index, freeHead, rpc, victim, curr,
                     tries, was, popped>>
      /\ \/ /\ n = Null
            /\ blk' = [blk EXCEPT ![c].next = f,
                                  ![f].own = "list", ![f].start = blk[c].start + BLOCK_CAP]
            /\ me' = [me EXCEPT ![s].fresh = Null, ![s].curr = Null]
            /\ place' = [place EXCEPT ![s] = "final"]
         \/ /\ n # Null
            /\ me' = [me EXCEPT ![s].curr = blk[@].next]
            /\ UNCHANGED <<blk, place>>
  BY <1>p DEF B!Append, B!TryPush, B!Goto, B!rx, B!seen
<1>2. /\ BlockTypes /\ WalkOf(s) /\ Walking(s) /\ Behind(s) /\ Walk /\ Active(s)
      /\ Closing /\ Outside /\ Carries(s) /\ Chain
  BY <1>1 DEF BlocksInv, Walk, Walking, Behind, Active, Outside
<1>3. popped # B!Closed
  BY <1>2 DEF Closing, AllGone
<1>4. /\ p \in Listed /\ p \in Addr /\ c \in Listed /\ c \in Addr /\ Listed \subseteq Addr
      /\ blk[p].start \in Nat /\ blk[c].start \in Nat /\ BLOCK_CAP \in Nat /\ BLOCK_CAP > 0
      /\ n \in Pointers /\ blk[p].start < blk[c].start
      /\ n # Null => n \in Listed /\ blk[n].start = blk[c].start + BLOCK_CAP
      /\ me[s] \in Locals
      /\ f # Null /\ f \in Addr /\ blk[f].own = "new" /\ f \notin Listed
  BY <1>p, <1>1, <1>2, BlockFacts DEF WalkOf, Carries, Chain, Locals, Pointers, Listed
<1>5. \A t \in Senders : t # s => me'[t] = me[t] /\ place'[t] = place[t]
  BY <1>1, <1>2 DEF BlockTypes
<1>6. CASE n = Null
  <2>1. /\ blk' = [blk EXCEPT ![c].next = f,
                              ![f].own = "list", ![f].start = blk[c].start + BLOCK_CAP]
        /\ me' = [me EXCEPT ![s].fresh = Null, ![s].curr = Null]
        /\ place' = [place EXCEPT ![s] = "final"]
    BY <1>1, <1>6
  <2>2. /\ blk'[c] = [blk[c] EXCEPT !.next = f]
        /\ blk'[f] = [blk[f] EXCEPT !.own = "list", !.start = blk[c].start + BLOCK_CAP]
        /\ \A b \in Addr : b # f /\ b # c => blk'[b] = blk[b]
    BY <2>1, <1>2, <1>4 DEF BlockTypes
  <2>3. blk[c] \in BlockRecords /\ blk[f] \in BlockRecords /\ blk[c].start + BLOCK_CAP \in Nat
    BY <1>2, <1>4 DEF BlockTypes
  <2>4. /\ blk'[c].own = blk[c].own /\ blk'[c].start = blk[c].start /\ blk'[c].next = f
        /\ blk'[c].ready = blk[c].ready /\ blk'[c].val = blk[c].val
        /\ blk'[c].closed = blk[c].closed /\ blk'[c].released = blk[c].released
        /\ blk'[c].observed = blk[c].observed /\ blk'[c] \in BlockRecords
    BY <2>2, <2>3, <1>4 DEF BlockRecords, Pointers
  <2>5. /\ blk'[f].own = "list" /\ blk'[f].start = blk[c].start + BLOCK_CAP
        /\ blk'[f].next = blk[f].next
        /\ blk'[f].ready = blk[f].ready /\ blk'[f].closed = blk[f].closed
        /\ blk'[f].released = blk[f].released /\ blk'[f] \in BlockRecords
    BY <2>2, <2>3 DEF BlockRecords
  <2>6. /\ me'[s] = [me[s] EXCEPT !.fresh = Null, !.curr = Null] /\ place'[s] = "final"
    BY <2>1, <1>2 DEF BlockTypes
  <2>7. /\ me'[s] \in Locals
        /\ me'[s].ptr = p /\ me'[s].slot = me[s].slot /\ me'[s].close = me[s].close
        /\ me'[s].fresh = Null /\ me'[s].next = me[s].next /\ me'[s].curr = Null
    BY <1>p, <1>4, <2>6 DEF Locals, Pointers
  <2>8. BlockTypes'
    <3>1. blk' \in [Addr -> BlockRecords]
      BY <2>1, <2>2, <2>4, <2>5, <1>2, <1>4 DEF BlockTypes
    <3>2. me' \in [Senders -> Locals]
      BY <2>1, <2>6, <2>7, <1>2 DEF BlockTypes
    <3> QED
      BY <3>1, <3>2, <2>1, <1>1, <1>2 DEF BlockTypes
  <2>9. Clean(f)
    BY <1>2, <1>4 DEF Outside
  <2>10. Appended(f, c)
    <3>1. \A b \in Addr \ {f} :
            /\ blk'[b].own = blk[b].own /\ blk'[b].start = blk[b].start
            /\ b # c => blk'[b].next = blk[b].next
            /\ blk'[b].ready = blk[b].ready /\ blk'[b].val = blk[b].val
            /\ blk'[b].closed = blk[b].closed /\ blk'[b].released = blk[b].released
            /\ blk'[b].observed = blk[b].observed
            /\ b \notin Listed => blk'[b] = blk[b]
      BY <2>2, <2>4, <1>4
    <3>2. blk[c].next = Null
      BY <1>p, <1>6
    <3> QED
      BY <3>1, <3>2, <2>4, <2>5, <2>9, <1>4 DEF Appended, Clean
  <2>11. WalkOf(s)'
    <3>1. p \in Listed' /\ blk'[p].start = blk[p].start /\ me[s].next = blk[p].next
          /\ me[s].next # Null
      BY <1>p, <1>1, <1>2, <1>4, <2>2, <2>4, <2>10 DEF Listed, WalkOf, Appended
    <3>2. blk'[p].next = blk[p].next
      BY <3>1, <1>4, <2>10 DEF Appended
    <3>3. blk[p].start + BLOCK_CAP <= me[s].slot /\ blk[p].start <= me[s].slot
      BY <1>p, <1>2 DEF WalkOf
    <3> QED
      BY <3>1, <3>2, <3>3, <2>6, <2>7 DEF WalkOf, Walking, Behind
  <2>12. /\ Chain' /\ Listed' = Listed \cup {f}
         /\ Slots' /\ Closing' /\ Walk' /\ TailInv' /\ Receiver' /\ Answers'
    <3>1. \A t \in Senders :
             \/ me'[t] = me[t] /\ place'[t] = place[t]
             \/ /\ me'[t].slot = me[t].slot /\ me'[t].close = me[t].close
                /\ me'[t].ptr = me[t].ptr
                /\ place[t] \in {"grow", "append"} /\ place'[t] = "final"
                /\ WalkOf(t)'
      BY <1>1, <1>p, <1>5, <2>6, <2>7, <2>11
    <3>2. UNCHANGED <<blockTail, tail, handles, head, index, freeHead, was, popped, rpc>>
      BY <1>1
    <3> QED
      BY <3>1, <3>2, <1>3, <2>8, <2>10, ListGrows
  <2>13. Outside'
    <3>1. \A t \in Senders : t # s => me[t].fresh # f
      BY <1>p, <1>2, <1>4 DEF Outside
    <3>2. victim # f /\ UNCHANGED <<rpc, victim, curr>>
      BY <1>1, <1>2, <1>4 DEF Outside
    <3>3. \A t \in Senders :
              \/ /\ me'[t].fresh = me[t].fresh /\ me[t].fresh # f
                 /\ place'[t] = "append" <=> place[t] = "append"
              \/ me'[t].fresh = Null /\ place'[t] # "append"
      BY <3>1, <1>5, <2>6, <2>7
    <3>4. \A t \in Senders : me[t].fresh \notin {f, Null} => me'[t].fresh = me[t].fresh
      BY <1>p, <1>5
    <3> QED
      BY <3>2, <3>3, <3>4, <2>10, <2>12, OutsideGrows
  <2> QED
    BY <2>8, <2>12, <2>13 DEF BlocksInv
<1>7. CASE n # Null
  <2>1. blk' = blk /\ place' = place /\ me' = [me EXCEPT ![s].curr = n]
    BY <1>p, <1>1, <1>2, <1>7 DEF BlockTypes
  <2>2. me'[s] = [me[s] EXCEPT !.curr = n] /\ place'[s] = "append"
    BY <2>1, <1>1, <1>2 DEF BlockTypes
  <2>3. /\ me'[s] \in Locals
        /\ me'[s].ptr = p /\ me'[s].slot = me[s].slot /\ me'[s].close = me[s].close
        /\ me'[s].fresh = me[s].fresh /\ me'[s].next = me[s].next /\ me'[s].curr = n
    BY <1>p, <1>4, <2>2 DEF Locals
  <2>4. BlockTypes'
    BY <2>1, <2>2, <2>3, <1>1, <1>2 DEF BlockTypes
  <2>5. WalkOf(s)'
    <3>1. Listed' = Listed /\ n \in Listed /\ blk[p].start < blk[n].start
      BY <2>1, <1>4, <1>7 DEF Listed
    <3>2. me[s].ptr = p /\ place[s] = "append" /\ WalkOf(s) /\ blk' = blk
      BY <1>p, <1>1, <1>2, <2>1
    <3>3. /\ p \in Listed /\ blk[p].start <= me[s].slot
          /\ blk[p].start + BLOCK_CAP <= me[s].slot
          /\ me[s].next # Null /\ me[s].next = blk[p].next
      BY <3>2 DEF WalkOf, Walking, Behind
    <3> QED
      BY <3>1, <3>2, <3>3, <2>2, <2>3 DEF WalkOf, Walking, Behind
  <2>6. /\ Chain' /\ Outside' /\ Slots' /\ Closing' /\ Walk' /\ Receiver' /\ Answers'
    BY <1>1, <1>2, <1>5, <2>1, <2>2, <2>3, <2>4, <2>5, SenderMoves DEF Active
  <2>7. TailOf(s)'
    <3>1. TailOf(s)
      BY <1>3 DEF BlocksInv, TailInv
    <3> QED
      BY <1>1, <2>1, <2>2, <2>3, <3>1 DEF TailOf, Active
  <2>8. Walking(s) /\ blk[me[s].ptr].start <= blk'[me'[s].ptr].start
    BY <1>p, <1>2, <1>4, <2>1, <2>3
  <2>9. TailInv'
    BY <1>1, <1>5, <2>1, <2>3, <2>4, <2>6, <2>7, <2>8, TailMoves
  <2> QED
    BY <2>4, <2>6, <2>9 DEF BlocksInv
<1> QED
  BY <1>6, <1>7

-----------------------------------------------------------------------------
(* A slot more, and a handle less                                          *)

LEMMA ClaimKeeps ==
    ASSUME BlocksInv, NEW s \in Senders, NEW close \in BOOLEAN, B!Claim(s, close),
           IF close THEN handles = {s} /\ handles' = {} ELSE handles' = handles
    PROVE  BlocksInv'
<1>p. PICK k : k = tail
  OBVIOUS
<1>1. /\ place[s] = "idle" /\ s \in handles /\ tail' = k + 1
      /\ me' = [me EXCEPT ![s].slot = k, ![s].close = close]
      /\ place' = [place EXCEPT ![s] = "load"]
      /\ UNCHANGED <<blk, blockTail, head, index, freeHead, rpc, victim, curr, tries, was, popped>>
  BY <1>p DEF B!Claim, B!Goto, B!rx, B!seen
<1>2. /\ BlockTypes /\ Walk /\ ~Active(s) /\ Slots /\ Claims /\ Closing /\ Outside
      /\ me[s] = B!NoLocals
  BY <1>1 DEF BlocksInv, Active, Slots, Claims
<1>3. k \in Nat /\ index \in Nat /\ index <= k
  BY <1>p, <1>2 DEF BlockTypes, Claims
<1>4. /\ me'[s] = [me[s] EXCEPT !.slot = k, !.close = close] /\ place'[s] = "load"
      /\ \A t \in Senders : t # s => me'[t] = me[t] /\ place'[t] = place[t]
  BY <1>1, <1>2 DEF BlockTypes
<1>5. /\ me'[s] \in Locals /\ me'[s].slot = k /\ me'[s].close = close
      /\ me'[s].fresh = Null /\ me'[s].next = Null /\ me'[s].curr = Null
      /\ me[s].fresh = Null
  <2>1. me[s] \in Locals
    BY <1>2 DEF BlockTypes
  <2>2. me[s].fresh = Null /\ me[s].next = Null /\ me[s].curr = Null
    <3>1. /\ B!NoLocals.fresh = Null /\ B!NoLocals.next = Null /\ B!NoLocals.curr = Null
      BY DEF B!NoLocals
    <3> QED
      BY <3>1, <1>2
  <2> QED
    BY <2>1, <2>2, <1>3, <1>4 DEF Locals, Pointers
<1>6. BlockTypes'
  <2>1. me' \in [Senders -> Locals]
    BY <1>1, <1>2, <1>5, <1>4 DEF BlockTypes
  <2>2. place' \in [Senders -> {"idle", "load", "walk", "grow", "append", "final",
                                "swap", "observe", "release"}]
    BY <1>1, <1>2 DEF BlockTypes
  <2>3. tail' \in Nat /\ handles' \in SUBSET Senders
    BY <1>1, <1>2, <1>3 DEF BlockTypes
  <2> QED
    BY <2>1, <2>2, <2>3, <1>1, <1>2 DEF BlockTypes
<1>7. Chain' /\ Listed' = Listed /\ Listed \subseteq Addr
  BY <1>1, ChainStays DEF BlocksInv, Listed
<1>8. \A b \in Listed : Kept(b)
  BY <1>1, <1>7 DEF Kept
<1>9. Outside'
  <2>1. \A t \in Senders : /\ me'[t].fresh = me[t].fresh
                           /\ place'[t] = "append" <=> place[t] = "append"
    BY <1>1, <1>4, <1>5
  <2> QED
    BY <1>1, <1>2, <2>1, OutsideStays
<1>10. \A t \in Senders : Active(t)' <=> Active(t) \/ t = s
  BY <1>4 DEF Active
<1>11. \A i : Claimed(i)' <=> Claimed(i) \/ i = k
  BY <1>2, <1>4, <1>5, <1>10 DEF Claimed
<1>12. \A t \in Senders : Active(t) => index <= me[t].slot /\ me[t].slot < k /\ me[t].slot \in Nat
  BY <1>p, <1>2, BlockFacts DEF Claims
<1>13. Claims'
  <2>1. index' <= tail'
    BY <1>1, <1>3
  <2>2. ASSUME NEW t \in Senders
        PROVE  IF Active(t)' THEN index' <= me'[t].slot /\ me'[t].slot < tail'
               ELSE me'[t] = B!NoLocals
    <3>1. CASE t = s
      BY <3>1, <1>1, <1>3, <1>5, <1>10
    <3>2. CASE t # s
      <4>1. (Active(t)' <=> Active(t)) /\ me'[t] = me[t]
        BY <3>2, <1>4, <1>10
      <4>2. Active(t) => index <= me[t].slot /\ me[t].slot < k + 1
        BY <1>3, <1>12
      <4>3. ~Active(t) => me[t] = B!NoLocals
        BY <1>2 DEF Claims
      <4> QED
        BY <4>1, <4>2, <4>3, <1>1
    <3> QED
      BY <3>1, <3>2
  <2>3. ASSUME NEW t \in Senders, NEW u \in Senders, Active(t)', Active(u)',
               me'[t].slot = me'[u].slot
        PROVE  t = u
    <3>1. CASE t # s /\ u # s
      BY <2>3, <3>1, <1>2, <1>4, <1>10 DEF Claims
    <3>2. CASE t = s /\ u # s
      BY <2>3, <3>2, <1>3, <1>4, <1>5, <1>10, <1>12
    <3>3. CASE t # s /\ u = s
      BY <2>3, <3>3, <1>3, <1>4, <1>5, <1>10, <1>12
    <3> QED
      BY <3>1, <3>2, <3>3
  <2> QED
    BY <2>1, <2>2, <2>3 DEF Claims, B!NoLocals
<1>14. Slots'
  <2>1. ASSUME NEW b \in Listed
        PROVE  Written(b)'
    <3>1. Written(b) /\ blk[b].ready \subseteq Nat /\ blk[b].start \in Nat
      BY <1>2, <1>7, BlockFacts DEF Slots
    <3>2. blk' = blk
      BY <1>1
    <3> SUFFICES ASSUME NEW o \in blk[b].ready, NEW i, i = blk[b].start + o
                 PROVE  i < k + 1 /\ blk[b].val[o] = i /\ ~Claimed(i)'
      BY <1>1, <3>2 DEF Written, Claimed
    <3>3. i < k /\ blk[b].val[o] = i /\ ~Claimed(i) /\ i \in Nat
      BY <1>p, <3>1 DEF Written, Claimed
    <3> QED
      BY <3>3, <1>3, <1>11
  <2>2. ASSUME NEW i \in index .. k
        PROVE  Claimed(i)' \/ IsReady(i)'
    <3>1. CASE i = k
      BY <3>1, <1>11
    <3>2. CASE i # k
      <4>1. i \in index .. k - 1
        BY <3>2, <1>3
      <4>2. Claimed(i) \/ IsReady(i)
        BY <4>1, <1>p, <1>1, <1>2 DEF Slots
      <4>3. IsReady(i) => IsReady(i)'
        BY <1>1, <1>7 DEF IsReady
      <4> QED
        BY <4>2, <4>3, <1>11
    <3> QED
      BY <3>1, <3>2
  <2>3. tail' - 1 = k
    BY <1>1, <1>3
  <2> QED
    BY <1>1, <1>7, <1>13, <2>1, <2>2, <2>3 DEF Slots
<1>15. popped # B!Closed
  BY <1>1, <1>2 DEF Closing, AllGone
<1>16. Closing'
  <2>1. \A t \in Senders : ~me[t].close
    BY <1>1, <1>2 DEF Closing
  <2>2. ASSUME NEW t \in Senders
        PROVE  /\ Active(t)' => t \in handles' \/ me'[t].close
               /\ me'[t].close => Active(t)' /\ handles' = {} /\ me'[t].slot = tail' - 1
    <3>1. CASE t = s
      BY <3>1, <1>1, <1>3, <1>5, <1>10
    <3>2. CASE t # s
      <4>1. ~me'[t].close /\ (Active(t)' => t \in handles)
        BY <3>2, <2>1, <1>2, <1>4, <1>10 DEF Closing
      <4> QED
        BY <3>2, <4>1
    <3> QED
      BY <3>1, <3>2
  <2>3. \A b \in Listed' : ~blk'[b].closed
    BY <1>1, <1>2, <1>7 DEF Closing, Marked, AllGone
  <2> QED
    BY <1>1, <1>15, <2>2, <2>3 DEF Closing, B!Closed
<1>17. Walk'
  <2> SUFFICES ASSUME NEW t \in Senders PROVE WalkOf(t)'
    BY DEF Walk
  <2>1. CASE t = s
    BY <2>1, <1>4, <1>5 DEF WalkOf, Walking, Behind
  <2>2. CASE t # s
    <3>1. WalkOf(t) /\ place'[t] = place[t] /\ me'[t] = me[t]
      BY <2>2, <1>2, <1>4 DEF Walk
    <3>2. /\ Walking(t) => Kept(me[t].ptr)
          /\ place[t] = "append" => Kept(me[t].curr)
      BY <3>1, <1>8 DEF WalkOf
    <3> QED
      BY <3>1, <3>2, <1>2, <1>6, WalkStays
  <2> QED
    BY <2>1, <2>2
<1>18. Receiver' /\ Answers'
  <2>1. Kept(head)
    BY <1>8, <1>15 DEF BlocksInv, Receiver
  <2>2. IsReady(index) => IsReady(index)'
    BY <1>1, <1>7 DEF IsReady
  <2> QED
    BY <1>1, <1>15, <2>1, <2>2, ReceiverStays DEF BlocksInv
<1>19. TailInv'
  <2>1. /\ blockTail \in Listed /\ blk[blockTail].start <= k
        /\ \A t \in Senders : TailOf(t)
        /\ \A b \in Listed : blk[b].released => Passed(b)
    BY <1>p, <1>15 DEF BlocksInv, TailInv
  <2>2. blk[blockTail].start \in Nat /\ blk' = blk /\ blockTail' = blockTail
    BY <2>1, <1>1, <1>2, <1>7, BlockFacts
  <2>3. \A t \in Senders : Walking(t)' => Walking(t) /\ me'[t] = me[t]
    BY <1>4 DEF Walking
  <2>4. \A b : Passed(b) => Passed(b)'
    BY <2>2, <2>3 DEF Passed
  <2>5. ASSUME NEW t \in Senders
        PROVE  TailOf(t)'
    <3>1. CASE t = s
      BY <3>1, <2>1, <2>2, <1>4, <1>5 DEF TailOf
    <3>2. CASE t # s
      <4>1. TailOf(t) /\ me'[t] = me[t] /\ place'[t] = place[t]
        BY <3>2, <2>1, <1>4
      <4>2. place'[t] = "release" => Passed(me[t].ptr)'
        <5> SUFFICES ASSUME place'[t] = "release" PROVE Passed(me[t].ptr)'
          OBVIOUS
        <5>1. PICK b : b = me[t].ptr /\ Passed(b)
          BY <4>1 DEF TailOf
        <5>2. Passed(b)' /\ b = me'[t].ptr
          BY <4>1, <5>1, <2>4
        <5> QED
          BY <5>2 DEF Passed
      <4> QED
        BY <4>1, <4>2, <2>2 DEF TailOf, Active
    <3> QED
      BY <3>1, <3>2
  <2>6. blk'[blockTail'].start <= tail'
    BY <2>1, <2>2, <1>1, <1>3
  <2> QED
    BY <1>1, <1>7, <2>1, <2>2, <2>4, <2>5, <2>6 DEF TailInv
<1> QED
  BY <1>6, <1>7, <1>9, <1>14, <1>16, <1>17, <1>18, <1>19 DEF BlocksInv

LEMMA DropTxKeeps ==
    ASSUME BlocksInv, NEW s \in Senders, B!DropTx(s)
    PROVE  BlocksInv'
<1>1. CASE handles = {s} /\ B!Claim(s, TRUE)
  BY <1>1, ClaimKeeps DEF B!DropTx
<1>2. CASE /\ handles # {s} /\ s \in handles /\ place[s] = "idle"
           /\ UNCHANGED <<blk, blockTail, tail, place, me, head, index, freeHead, rpc, victim,
                          curr, tries, was, popped>>
  <2>1. handles' = handles \ {s} /\ handles # {} /\ handles' # {} /\ Listed' = Listed
    BY <1>2 DEF B!DropTx, Listed
  <2>2. BlockTypes' /\ Chain' /\ Outside' /\ Walk' /\ TailInv' /\ Receiver' /\ Answers'
    <3>1. BlockTypes'
      BY <1>2, <2>1 DEF BlocksInv, BlockTypes
    <3>2. Chain' /\ Outside'
      BY <1>2, ChainStays, OutsideStays DEF BlocksInv
    <3>3. Walk' /\ TailInv'
      BY <1>2, <2>1 DEF BlocksInv, Walk, WalkOf, Walking, Behind, B!IsFinal, B!Offsets,
                         TailInv, TailOf, Passed, Active, B!Closed
    <3>4. Receiver' /\ Answers'
      BY <1>2, <2>1 DEF BlocksInv, Receiver, Answers, IsReady, B!Closed, B!None
    <3> QED
      BY <3>1, <3>2, <3>3, <3>4
  <2>3. Slots'
    <3>1. \A i : Claimed(i)' <=> Claimed(i)
      BY <1>2 DEF Claimed, Active
    <3>2. \A i : IsReady(i)' <=> IsReady(i)
      BY <1>2, <2>1 DEF IsReady
    <3>3. \A b \in Listed' : Written(b)'
      BY <1>2, <2>1, <3>1 DEF BlocksInv, Slots, Written, Claimed
    <3>4. Claims'
      BY <1>2 DEF BlocksInv, Slots, Claims, Active, B!NoLocals
    <3>5. \A i \in index .. tail - 1 : Claimed(i)' \/ IsReady(i)'
      BY <2>1, <3>1, <3>2 DEF BlocksInv, Slots
    <3> QED
      BY <1>2, <3>3, <3>4, <3>5 DEF Slots
  <2>4. Closing'
    <3>1. Closing /\ ~AllGone /\ popped # B!Closed
      BY <2>1 DEF BlocksInv, Closing, AllGone
    <3>2. \A b \in Listed' : ~blk'[b].closed
      BY <1>2, <2>1, <3>1 DEF Closing, Marked
    <3>3. \A t \in Senders : ~me[t].close /\ (Active(t) => t \in handles')
      BY <1>2, <2>1, <3>1 DEF Closing, Active
    <3> QED
      BY <1>2, <3>1, <3>2, <3>3 DEF Closing, Active, B!Closed
  <2> QED
    BY <2>2, <2>3, <2>4 DEF BlocksInv
<1> QED
  BY <1>1, <1>2 DEF B!DropTx, B!rx, B!seen

LEMMA PushKeeps ==
    ASSUME BlocksInv, NEW s \in Senders, B!Push(s)
    PROVE  BlocksInv'
  BY ClaimKeeps DEF B!Push

-----------------------------------------------------------------------------
(* The receiver                                                            *)

\* The senders and the list do not move.
LEMMA ListStays ==
    ASSUME BlocksInv, popped # B!Closed,
           UNCHANGED <<blockTail, tail, handles, place, me, freeHead>>,
           Listed' = Listed, \A b \in Listed : blk'[b] = blk[b]
    PROVE  /\ Chain' /\ Walk' /\ TailInv'
           /\ \A i : Claimed(i)' <=> Claimed(i)
           /\ \A i : IsReady(i)' <=> IsReady(i)
           /\ \A b \in Listed : Written(b)'
           /\ index' = index /\ popped' # B!Closed => Slots' /\ Closing'
<1>1. /\ BlockTypes /\ Chain /\ Walk /\ TailInv /\ Slots /\ Closing
      /\ Listed \subseteq Addr
  BY DEF BlocksInv, Listed
<1>2. Chain'
  <2>1. \A b \in Listed : blk'[b].start = blk[b].start /\ blk'[b].next = blk[b].next
    OBVIOUS
  <2> QED
    BY <1>1, <2>1 DEF Chain, Starts, B!StartIndex
<1>3. \A i : Claimed(i)' <=> Claimed(i)
  BY DEF Claimed, Active
<1>4. \A i : IsReady(i)' <=> IsReady(i)
  BY DEF IsReady
<1>5. \A b \in Listed : Written(b)'
  BY <1>1 DEF Slots, Written, Claimed, Active
<1>6. Walk'
  BY <1>1 DEF Walk, WalkOf, Walking, Behind, B!IsFinal, B!Offsets
<1>7. TailInv'
  <2>1. /\ blockTail \in Listed /\ blk[blockTail].start <= tail
        /\ \A t \in Senders : TailOf(t) /\ WalkOf(t)
        /\ \A b \in Listed : blk[b].released => Passed(b)
    BY <1>1 DEF TailInv, Walk
  <2>2. \A t \in Senders : Walking(t) => blk'[me[t].ptr] = blk[me[t].ptr] /\ me[t].ptr \in Listed
    BY <2>1 DEF WalkOf
  <2>3. \A b \in Listed : Passed(b) => Passed(b)'
    BY <2>1, <2>2 DEF Passed, Walking
  <2>4. ASSUME NEW t \in Senders
        PROVE  TailOf(t)'
    <3>1. place[t] \in {"observe", "release"} => Walking(t)
      BY DEF Walking
    <3>2. place'[t] = "release" => Passed(me[t].ptr)'
      <4> SUFFICES ASSUME place'[t] = "release" PROVE Passed(me[t].ptr)'
        OBVIOUS
      <4>1. PICK b \in Listed : b = me[t].ptr /\ Passed(b)
        BY <2>1, <2>2, <3>1 DEF TailOf
      <4>2. Passed(b)' /\ b = me'[t].ptr
        BY <4>1, <2>3
      <4> QED
        BY <4>2 DEF Passed
    <3> QED
      BY <2>1, <2>2, <3>1, <3>2 DEF TailOf, Active
  <2> QED
    BY <2>1, <2>3, <2>4 DEF TailInv
<1>8. ASSUME index' = index, popped' # B!Closed
      PROVE  Slots' /\ Closing'
  <2>1. Claims'
    BY <1>1, <1>8 DEF Slots, Claims, Active, B!NoLocals
  <2>2. Slots'
    BY <1>1, <1>3, <1>4, <1>5, <1>8, <2>1 DEF Slots
  <2>3. AllGone' <=> AllGone
    BY DEF AllGone, Active
  <2>4. ASSUME NEW b \in Listed', blk'[b].closed
        PROVE  Marked(b)'
    <3>1. Marked(b) /\ blk'[b] = blk[b]
      BY <1>1, <2>4 DEF Closing
    <3> QED
      BY <1>8, <1>4, <2>3, <3>1 DEF Marked, IsReady
  <2>5. Closing'
    BY <1>1, <1>8, <2>4 DEF Closing, Active, B!Closed
  <2> QED
    BY <2>2, <2>5
<1> QED
  BY <1>2, <1>3, <1>4, <1>5, <1>6, <1>7, <1>8

\* Nobody's block changes.
LEMMA OutsideKeeps ==
    ASSUME BlocksInv, UNCHANGED <<blk, place, me, victim>>,
           rpc' \in {"place", "push"} <=> rpc \in {"place", "push"},
           IF rpc' = "push" THEN curr' \in Listed ELSE curr' = Null
    PROVE  Outside' /\ Listed' = Listed
<1>1. Outside /\ Listed' = Listed
  BY DEF BlocksInv, Listed
<1>2. \A b \in Addr : /\ b \notin Listed' => Clean(b)'
                      /\ blk'[b].own = "free" => blk'[b] = B!Free
                      /\ blk'[b].own = "new" => \E t \in Senders : me'[t].fresh = b
                      /\ blk'[b].own = "spare" => victim' = b
  BY <1>1 DEF Outside, Clean
<1>3. \A t \in Senders : Carries(t)'
  BY <1>1 DEF Outside, Carries
<1>4. \A t, u \in Senders : me'[t].fresh = me'[u].fresh /\ me'[t].fresh # Null => t = u
  BY <1>1 DEF Outside
<1>5. IF rpc' \in {"place", "push"} THEN victim' # Null /\ blk'[victim'].own = "spare"
      ELSE victim' = Null
  BY <1>1 DEF Outside
<1> QED
  BY <1>1, <1>2, <1>3, <1>4, <1>5 DEF Outside, B!Free, B!Block, B!Offsets

\* The head, and the slot that is read next.
LEMMA HeadFacts ==
    ASSUME BlocksInv, popped # B!Closed
    PROVE  /\ head \in Listed /\ head \in Addr /\ Listed \subseteq Addr
           /\ blk[head].start \in Nat /\ blk[head].start \in Starts /\ index \in Nat
           /\ blk[head].start <= index /\ BLOCK_CAP \in Nat /\ BLOCK_CAP > 0
           /\ blk[head].start = B!StartIndex(index) => index < blk[head].start + BLOCK_CAP
           /\ blk[head].start # B!StartIndex(index) => blk[head].start + BLOCK_CAP <= index
<1>1. /\ head \in Listed /\ head \in Addr /\ Listed \subseteq Addr
      /\ blk[head].start \in Nat /\ blk[head].start \in Starts /\ index \in Nat
      /\ blk[head].start <= index /\ BLOCK_CAP \in Nat /\ BLOCK_CAP > 0
  BY BlockFacts DEF BlocksInv, Receiver, Chain, BlockTypes
<1>2. B!StartIndex(index) <= index /\ B!StartIndex(index) \in Nat
      /\ index < B!StartIndex(index) + BLOCK_CAP
  BY <1>1, StartFacts, StartsAre
<1>3. blk[head].start # B!StartIndex(index) => blk[head].start + BLOCK_CAP <= B!StartIndex(index)
  BY <1>1, AtOrBefore
<1> DEFINE j == B!StartIndex(index)
<1> HIDE DEF j
<1>4. /\ blk[head].start = j => index < blk[head].start + BLOCK_CAP
      /\ blk[head].start # j => blk[head].start + BLOCK_CAP <= index
  BY <1>1, <1>2, <1>3 DEF j
<1> QED
  BY <1>1, <1>4 DEF j

LEMMA PopKeeps ==
    ASSUME BlocksInv, B!Pop
    PROVE  BlocksInv'
<1>1. /\ rpc = "idle" /\ popped # B!Closed /\ was' = (index \in B!Ready) /\ rpc' = "head"
      /\ UNCHANGED <<blk, blockTail, tail, handles, place, me, head, index, freeHead, victim,
                     curr, tries, popped>>
  BY DEF B!Pop, B!tx
<1>2. BlockTypes'
  BY <1>1 DEF BlocksInv, BlockTypes
<1>3. Outside' /\ Listed' = Listed
  BY <1>1, OutsideKeeps DEF BlocksInv, Outside
<1>4. /\ Chain' /\ Walk' /\ TailInv' /\ Slots' /\ Closing'
      /\ \A i : IsReady(i)' <=> IsReady(i)
  <2>1. popped' # B!Closed
    BY <1>1 DEF B!Closed
  <2> QED
    BY <1>1, <1>3, <2>1, ListStays
<1>5. was' => IsReady(index)
  <2> SUFFICES ASSUME index \in B!Ready PROVE IsReady(index)
    BY <1>1
  <2>1. PICK b \in Addr : /\ blk[b].own = "list" /\ blk[b].start = B!StartIndex(index)
                          /\ B!Offset(index) \in blk[b].ready
    BY DEF B!Ready
  <2>2. B!StartIndex(index) + B!Offset(index) = index
    BY StartFacts DEF BlocksInv, BlockTypes
  <2> QED
    BY <2>1, <2>2 DEF IsReady, Listed
<1>6. Receiver' /\ Answers'
  <2>1. was' => IsReady(index)'
    BY <1>1, <1>3, <1>5 DEF IsReady
  <2>2. head \in Listed /\ freeHead # Null /\ blk[head].start <= index
    BY <1>1 DEF BlocksInv, Receiver
  <2> QED
    BY <1>1, <1>3, <2>1, <2>2 DEF Receiver, Answers
<1> QED
  BY <1>2, <1>3, <1>4, <1>6 DEF BlocksInv

LEMMA AdvanceHeadKeeps ==
    ASSUME BlocksInv, B!AdvanceHead
    PROVE  BlocksInv'
<1>1. /\ rpc = "head"
      /\ UNCHANGED <<blk, blockTail, tail, handles, place, me, index, freeHead, victim, curr,
                     tries, was>>
  BY DEF B!AdvanceHead, B!tx
<1>2. BlockTypes /\ Chain /\ Receiver /\ Outside /\ popped # B!Closed
  BY <1>1 DEF BlocksInv, Closing
<1>3. /\ head \in Listed /\ head \in Addr /\ Listed \subseteq Addr
      /\ blk[head].start \in Nat /\ blk[head].start \in Starts /\ index \in Nat
      /\ blk[head].start <= index /\ BLOCK_CAP \in Nat /\ BLOCK_CAP > 0
      /\ blk[head].start = B!StartIndex(index) => index < blk[head].start + BLOCK_CAP
      /\ blk[head].start # B!StartIndex(index) => blk[head].start + BLOCK_CAP <= index
  BY <1>2, HeadFacts
<1>4. freeHead # Null /\ (was => IsReady(index))
  BY <1>1, <1>2 DEF Receiver
<1>5. Outside' /\ Listed' = Listed
  <2>1. rpc' \in {"reclaim", "head", "idle"} /\ curr' = Null
    BY <1>1, <1>2 DEF B!AdvanceHead, Outside
  <2> QED
    BY <1>1, <2>1, OutsideKeeps
<1>6. popped' # B!Closed
  BY <1>2 DEF B!AdvanceHead, B!None, B!Closed
<1>7. /\ Chain' /\ Walk' /\ TailInv' /\ Slots' /\ Closing'
  BY <1>1, <1>2, <1>5, <1>6, ListStays
<1>8. IsReady(index)' <=> IsReady(index)
  BY <1>1, <1>5 DEF IsReady
<1>9. CASE blk[head].start = B!StartIndex(index) /\ rpc' = "reclaim" /\ UNCHANGED <<head, popped>>
  <2>1. BlockTypes'
    BY <1>1, <1>2, <1>9 DEF BlockTypes
  <2>2. Receiver' /\ Answers'
    BY <1>1, <1>3, <1>4, <1>5, <1>8, <1>9 DEF Receiver, Answers
  <2> QED
    BY <1>5, <1>7, <2>1, <2>2 DEF BlocksInv
<1>10. CASE /\ blk[head].start # B!StartIndex(index) /\ blk[head].next # Null
            /\ head' = blk[head].next /\ UNCHANGED <<rpc, popped>>
  <2>1. head' \in Listed /\ head' \in Addr /\ blk[head'].start <= index
    BY <1>2, <1>3, <1>10 DEF Chain
  <2>2. BlockTypes'
    BY <1>1, <1>2, <1>10, <2>1 DEF BlockTypes
  <2>3. Receiver' /\ Answers'
    BY <1>1, <1>4, <1>5, <1>8, <1>10, <2>1 DEF Receiver, Answers
  <2> QED
    BY <1>5, <1>7, <2>2, <2>3 DEF BlocksInv
<1>11. CASE /\ blk[head].start # B!StartIndex(index) /\ blk[head].next = Null
            /\ popped' = B!None /\ rpc' = "idle" /\ UNCHANGED head
  <2>1. BlockTypes'
    BY <1>1, <1>2, <1>11 DEF BlockTypes, B!None
  <2>2. ~IsReady(index)
    <3> SUFFICES ASSUME NEW b \in Listed, NEW o \in blk[b].ready, index = blk[b].start + o
                 PROVE  FALSE
      BY DEF IsReady
    <3>1. blk[b].start \in Nat /\ o \in Nat /\ o < BLOCK_CAP
      BY <1>2, <1>3, BlockFacts
    <3>2. blk[b].start <= blk[head].start
      BY <1>2, <1>3, <1>11 DEF Chain
    <3> QED
      BY <1>3, <1>11, <3>1, <3>2
  <2>3. Receiver' /\ Answers'
    BY <1>1, <1>3, <1>4, <1>5, <1>11, <2>2 DEF Receiver, Answers, B!None, B!Closed
  <2> QED
    BY <1>5, <1>7, <2>1, <2>3 DEF BlocksInv
<1> QED
  BY <1>9, <1>10, <1>11 DEF B!AdvanceHead

LEMMA PlaceBlockKeeps ==
    ASSUME BlocksInv, B!PlaceBlock
    PROVE  BlocksInv'
<1>1. /\ rpc = "place" /\ curr' = blockTail /\ tries' = Attempts /\ rpc' = "push"
      /\ UNCHANGED <<blk, blockTail, tail, handles, place, me, head, index, freeHead, victim,
                     was, popped>>
  BY DEF B!PlaceBlock, B!tx, B!seen
<1>2. popped # B!Closed
  BY <1>1 DEF BlocksInv, Closing
<1>3. blockTail \in Listed /\ blockTail \in Addr
  BY <1>2 DEF BlocksInv, TailInv, Listed
<1>4. BlockTypes'
  BY <1>1, <1>3, BlocksAssumption DEF BlocksInv, BlockTypes, Pointers
<1>5. Outside' /\ Listed' = Listed
  BY <1>1, <1>3, OutsideKeeps
<1>6. Chain' /\ Walk' /\ TailInv' /\ Slots' /\ Closing'
  <2>1. popped' # B!Closed
    BY <1>1, <1>2 DEF B!Closed
  <2> QED
    BY <1>1, <1>2, <1>5, <2>1, ListStays
<1>7. Receiver' /\ Answers'
  BY <1>1, <1>2, <1>5 DEF BlocksInv, Receiver, Answers, IsReady, B!Closed, B!None
<1> QED
  BY <1>4, <1>5, <1>6, <1>7 DEF BlocksInv

LEMMA PlaceAfterKeeps ==
    ASSUME BlocksInv, B!PlaceAfter
    PROVE  BlocksInv'
<1>p. PICK f, c, n : f = victim /\ c = curr /\ n = blk[c].next
  OBVIOUS
<1>1. /\ rpc = "push"
      /\ UNCHANGED <<blockTail, tail, handles, place, me, head, index, freeHead, was, popped>>
      /\ \/ /\ n = Null
            /\ blk' = [blk EXCEPT ![c].next = f,
                                  ![f].own = "list", ![f].start = blk[c].start + BLOCK_CAP]
            /\ victim' = Null /\ curr' = Null /\ tries' = 0 /\ rpc' = "reclaim"
         \/ /\ n # Null /\ curr' = n /\ tries > 0 /\ tries' = tries - 1
            /\ UNCHANGED <<blk, victim, rpc>>
  BY <1>p DEF B!PlaceAfter, B!TryPush, B!tx, B!seen
<1>2. BlockTypes /\ Chain /\ Outside /\ popped # B!Closed
  BY <1>1 DEF BlocksInv, Closing
<1>3. /\ c \in Listed /\ c \in Addr /\ Listed \subseteq Addr
      /\ blk[c].start \in Nat /\ BLOCK_CAP \in Nat /\ n \in Pointers
      /\ n # Null => n \in Listed
      /\ f # Null /\ f \in Addr /\ blk[f].own = "spare" /\ f \notin Listed
  BY <1>p, <1>1, <1>2, BlockFacts DEF BlockTypes, Outside, Chain, Pointers, Listed
<1>4. CASE n = Null
  <2>1. /\ blk' = [blk EXCEPT ![c].next = f,
                              ![f].own = "list", ![f].start = blk[c].start + BLOCK_CAP]
        /\ victim' = Null /\ curr' = Null /\ tries' = 0 /\ rpc' = "reclaim"
    BY <1>1, <1>4
  <2>2. /\ blk'[c] = [blk[c] EXCEPT !.next = f]
        /\ blk'[f] = [blk[f] EXCEPT !.own = "list", !.start = blk[c].start + BLOCK_CAP]
        /\ \A b \in Addr : b # f /\ b # c => blk'[b] = blk[b]
    BY <2>1, <1>2, <1>3 DEF BlockTypes
  <2>3. blk[c] \in BlockRecords /\ blk[f] \in BlockRecords /\ blk[c].start + BLOCK_CAP \in Nat
    BY <1>2, <1>3 DEF BlockTypes
  <2>4. /\ blk'[c].own = blk[c].own /\ blk'[c].start = blk[c].start /\ blk'[c].next = f
        /\ blk'[c].ready = blk[c].ready /\ blk'[c].val = blk[c].val
        /\ blk'[c].closed = blk[c].closed /\ blk'[c].released = blk[c].released
        /\ blk'[c].observed = blk[c].observed /\ blk'[c] \in BlockRecords
    BY <2>2, <2>3, <1>3 DEF BlockRecords, Pointers
  <2>5. /\ blk'[f].own = "list" /\ blk'[f].start = blk[c].start + BLOCK_CAP
        /\ blk'[f].next = blk[f].next
        /\ blk'[f].ready = blk[f].ready /\ blk'[f].closed = blk[f].closed
        /\ blk'[f].released = blk[f].released /\ blk'[f] \in BlockRecords
    BY <2>2, <2>3 DEF BlockRecords
  <2>6. BlockTypes'
    <3>1. blk' \in [Addr -> BlockRecords]
      BY <2>1, <2>2, <2>4, <2>5, <1>2, <1>3 DEF BlockTypes
    <3> QED
      BY <3>1, <2>1, <1>1, <1>2 DEF BlockTypes, Pointers
  <2>7. Clean(f)
    BY <1>2, <1>3 DEF Outside
  <2>8. Appended(f, c)
    <3>1. \A b \in Addr \ {f} :
            /\ blk'[b].own = blk[b].own /\ blk'[b].start = blk[b].start
            /\ b # c => blk'[b].next = blk[b].next
            /\ blk'[b].ready = blk[b].ready /\ blk'[b].val = blk[b].val
            /\ blk'[b].closed = blk[b].closed /\ blk'[b].released = blk[b].released
            /\ blk'[b].observed = blk[b].observed
            /\ b \notin Listed => blk'[b] = blk[b]
      BY <2>2, <2>4, <1>3
    <3>2. blk[c].next = Null
      BY <1>p, <1>4
    <3> QED
      BY <3>1, <3>2, <2>4, <2>5, <2>7, <1>3 DEF Appended, Clean
  <2>9. /\ Chain' /\ Listed' = Listed \cup {f}
        /\ Slots' /\ Closing' /\ Walk' /\ TailInv' /\ Receiver' /\ Answers'
    <3>1. \A t \in Senders : me'[t] = me[t] /\ place'[t] = place[t]
      BY <1>1
    <3>2. /\ rpc = "push" /\ rpc' = "reclaim"
          /\ UNCHANGED <<blockTail, tail, handles, head, index, freeHead, was, popped>>
      BY <1>1, <2>1
    <3> QED
      BY <3>1, <3>2, <1>2, <2>6, <2>8, ListGrows
  <2>10. Outside'
    <3>1. \A t \in Senders : me[t].fresh # f
      BY <1>2, <1>3 DEF Outside, Carries
    <3>2. \A t \in Senders : me'[t].fresh = me[t].fresh /\ place'[t] = place[t]
      BY <1>1
    <3> QED
      BY <3>1, <3>2, <1>p, <2>1, <2>8, <2>9, OutsideGrows
  <2> QED
    BY <2>6, <2>9, <2>10 DEF BlocksInv
<1>5. CASE n # Null
  <2>1. curr' = n /\ n \in Listed /\ tries' \in Nat /\ UNCHANGED <<blk, victim, rpc>>
    BY <1>1, <1>2, <1>3, <1>5 DEF BlockTypes
  <2>2. BlockTypes'
    BY <1>1, <1>2, <1>3, <2>1 DEF BlockTypes
  <2>3. Outside' /\ Listed' = Listed
    BY <1>1, <2>1, OutsideKeeps
  <2>4. Chain' /\ Walk' /\ TailInv' /\ Slots' /\ Closing'
    <3>1. popped' # B!Closed
      BY <1>1, <1>2 DEF B!Closed
    <3> QED
      BY <1>1, <1>2, <2>1, <2>3, <3>1, ListStays
  <2>5. Receiver' /\ Answers'
    BY <1>1, <1>2, <2>1, <2>3 DEF BlocksInv, Receiver, Answers, IsReady, B!Closed, B!None
  <2> QED
    BY <2>2, <2>3, <2>4, <2>5 DEF BlocksInv
<1> QED
  BY <1>4, <1>5

LEMMA FreeBlockKeeps ==
    ASSUME BlocksInv, B!FreeBlock
    PROVE  BlocksInv'
<1>p. PICK f : f = victim
  OBVIOUS
<1>1. /\ rpc = "push" /\ rpc' = "reclaim" /\ blk' = [blk EXCEPT ![f] = B!Free]
      /\ victim' = Null /\ curr' = Null
      /\ UNCHANGED <<blockTail, tail, handles, place, me, head, index, freeHead, tries, was,
                     popped>>
  BY <1>p DEF B!FreeBlock, B!tx, B!seen
<1>2. BlockTypes /\ Outside /\ popped # B!Closed
  BY <1>1 DEF BlocksInv, Closing
<1>3. f \in Addr /\ blk[f].own = "spare" /\ f \notin Listed /\ Listed \subseteq Addr
  BY <1>p, <1>1, <1>2 DEF BlockTypes, Outside, Pointers, Listed
<1>4. /\ B!Free \in BlockRecords /\ B!Free.own = "free" /\ B!Free.next = Null
      /\ B!Free.ready = {} /\ ~B!Free.released /\ ~B!Free.closed
  BY DEF B!Free, B!Block, BlockRecords, Pointers
<1>5. blk'[f] = B!Free /\ \A b \in Addr : b # f => blk'[b] = blk[b]
  BY <1>1, <1>2, <1>3 DEF BlockTypes
<1>6. BlockTypes'
  <2>1. blk' \in [Addr -> BlockRecords]
    BY <1>1, <1>2, <1>4 DEF BlockTypes
  <2> QED
    BY <2>1, <1>1, <1>2 DEF BlockTypes, Pointers
<1>7. Listed' = Listed /\ \A b \in Listed : blk'[b] = blk[b]
  BY <1>3, <1>4, <1>5 DEF Listed
<1>8. Chain' /\ Walk' /\ TailInv' /\ Slots' /\ Closing'
  <2>1. popped' # B!Closed
    BY <1>1, <1>2 DEF B!Closed
  <2> QED
    BY <1>1, <1>2, <1>7, <2>1, ListStays
<1>9. Outside'
  <2>1. ASSUME NEW b \in Addr
        PROVE  /\ b \notin Listed' => Clean(b)'
               /\ blk'[b].own = "free" => blk'[b] = B!Free
               /\ blk'[b].own = "new" => \E t \in Senders : me'[t].fresh = b
               /\ blk'[b].own = "spare" => victim' = b
    <3>1. CASE b = f
      BY <3>1, <1>4, <1>5 DEF Clean
    <3>2. CASE b # f
      <4>1. blk'[b] = blk[b]
        BY <3>2, <1>5
      <4>2. blk[b].own # "spare"
        BY <3>2, <1>p, <1>2 DEF Outside
      <4> QED
        BY <4>1, <4>2, <1>1, <1>2, <1>7 DEF Outside, Clean
    <3> QED
      BY <3>1, <3>2
  <2>2. ASSUME NEW t \in Senders
        PROVE  Carries(t)'
    <3>1. Carries(t) /\ me[t].fresh \in Pointers
      BY <1>2, BlockFacts DEF Outside, Locals
    <3> QED
      BY <3>1, <1>1, <1>3, <1>5 DEF Carries, Pointers
  <2>3. \A t, u \in Senders : me'[t].fresh = me'[u].fresh /\ me'[t].fresh # Null => t = u
    BY <1>1, <1>2 DEF Outside
  <2> QED
    BY <2>1, <2>2, <2>3, <1>1 DEF Outside, B!Free, B!Block, B!Offsets
<1>10. Receiver' /\ Answers'
  BY <1>1, <1>2, <1>7 DEF BlocksInv, Receiver, Answers, IsReady, B!Closed, B!None
<1> QED
  BY <1>6, <1>8, <1>9, <1>10 DEF BlocksInv

LEMMA ReadKeeps ==
    ASSUME BlocksInv, B!Read
    PROVE  BlocksInv'
<1>p. PICK i, o, p : i = index /\ o = B!Offset(i) /\ p = head
  OBVIOUS
<1>1. /\ rpc = "read" /\ rpc' = "idle"
      /\ \/ /\ o \in blk[p].ready /\ popped' = blk[p].val[o] /\ index' = i + 1
         \/ /\ o \notin blk[p].ready
            /\ popped' = IF blk[p].closed THEN B!Closed ELSE B!None
            /\ UNCHANGED index
      /\ UNCHANGED <<blk, blockTail, tail, handles, place, me, head, freeHead, victim, curr,
                     tries, was>>
  BY <1>p DEF B!Read, B!tx
<1>2. BlockTypes /\ Chain /\ Receiver /\ Outside /\ Slots /\ Closing /\ popped # B!Closed
  BY <1>1 DEF BlocksInv, Closing
<1>3. /\ p \in Listed /\ p \in Addr /\ Listed \subseteq Addr /\ blk[p].start \in Nat /\ i \in Nat
      /\ blk[p].start \in Starts /\ BLOCK_CAP \in Nat /\ tail \in Nat
      /\ blk[p].start <= i /\ blk[p].start = B!StartIndex(i) /\ blk[p].start + o = i
  <2>1. i < blk[p].start + BLOCK_CAP
    BY <1>p, <1>1, <1>2 DEF Receiver
  <2>2. /\ p \in Listed /\ p \in Addr /\ Listed \subseteq Addr /\ blk[p].start \in Nat /\ i \in Nat
        /\ blk[p].start \in Starts /\ BLOCK_CAP \in Nat /\ blk[p].start <= i
        /\ blk[p].start # B!StartIndex(i) => blk[p].start + BLOCK_CAP <= i
    BY <1>p, <1>2, HeadFacts
  <2>3. B!StartIndex(i) + o = i /\ tail \in Nat
    BY <1>p, <1>2, <2>2, StartFacts DEF BlockTypes
  <2> QED
    BY <2>1, <2>2, <2>3
<1>4. Outside' /\ Listed' = Listed
  <2>1. curr' = Null
    BY <1>1, <1>2 DEF Outside
  <2> QED
    BY <1>1, <2>1, OutsideKeeps
<1>5. /\ Chain' /\ Walk' /\ TailInv'
      /\ \A j : Claimed(j)' <=> Claimed(j)
      /\ \A j : IsReady(j)' <=> IsReady(j)
      /\ \A b \in Listed : Written(b)'
      /\ index' = index /\ popped' # B!Closed => Slots' /\ Closing'
  BY <1>1, <1>2, <1>4, ListStays
<1>6. freeHead # Null /\ (was => IsReady(i))
  BY <1>p, <1>1, <1>2 DEF Receiver
<1>7. CASE o \in blk[p].ready
  <2>1. popped' = i /\ index' = i + 1 /\ i < tail /\ ~Claimed(i)
    <3>1. Written(p)
      BY <1>2, <1>3 DEF Slots
    <3>2. blk[p].val[o] = i /\ i < tail /\ ~Claimed(i)
      BY <3>1, <1>3, <1>7 DEF Written
    <3> QED
      BY <3>2, <1>1, <1>7
  <2>2. popped' # B!Closed /\ popped' # B!None
    BY <2>1, <1>3 DEF B!Closed, B!None
  <2>3. BlockTypes'
    BY <1>1, <1>2, <1>3, <2>1 DEF BlockTypes
  <2>4. Slots'
    <3>1. \A t \in Senders : Active(t) => i + 1 <= me[t].slot /\ me[t].slot < tail
      <4> SUFFICES ASSUME NEW t \in Senders, Active(t)
                   PROVE  i + 1 <= me[t].slot /\ me[t].slot < tail
        OBVIOUS
      <4>1. i <= me[t].slot /\ me[t].slot < tail /\ me[t].slot \in Nat
        BY <1>p, <1>2, BlockFacts DEF Slots, Claims
      <4>2. me[t].slot # i
        BY <2>1 DEF Claimed
      <4> QED
        BY <4>1, <4>2, <1>3
    <3>2. i + 1 <= tail
      BY <2>1, <1>3
    <3>3. Claims'
      BY <3>1, <3>2, <1>1, <1>2, <2>1 DEF Slots, Claims, Active, B!NoLocals
    <3>4. ASSUME NEW j \in index' .. tail' - 1
          PROVE  Claimed(j)' \/ IsReady(j)' \/ (handles' = {} /\ j = tail' - 1)
      <4>1. j \in index .. tail - 1
        BY <1>p, <1>1, <1>3, <2>1
      <4> QED
        BY <4>1, <1>1, <1>2, <1>5 DEF Slots
    <3> QED
      BY <3>3, <3>4, <1>4, <1>5 DEF Slots
  <2>5. Closing'
    <3>1. ASSUME NEW b \in Listed, blk[b].closed
          PROVE  Marked(b)'
      <4>1. Marked(b)
        BY <1>2, <3>1 DEF Closing
      <4>2. IsReady(i)
        BY <1>3, <1>7 DEF IsReady
      <4>3. tail - 1 # i
        BY <4>1, <4>2 DEF Marked, IsReady
      <4>4. i + 1 < tail
        BY <4>3, <2>1, <1>3
      <4>5. AllGone'
        BY <4>1, <1>1 DEF Marked, AllGone, Active
      <4> QED
        BY <4>1, <4>4, <4>5, <1>1, <1>4, <2>1 DEF Marked, IsReady
    <3> QED
      BY <3>1, <1>1, <1>2, <1>4, <2>2 DEF Closing, Active, B!Closed
  <2>6. Receiver' /\ Answers'
    <3>1. head \in Listed /\ blk[head].start <= index'
      BY <1>p, <1>3, <2>1
    <3> QED
      BY <3>1, <1>1, <1>3, <1>4, <1>6, <2>1, <2>2 DEF Receiver, Answers, B!Closed, B!None
  <2> QED
    BY <1>4, <1>5, <2>3, <2>4, <2>5, <2>6 DEF BlocksInv
<1>8. CASE o \notin blk[p].ready
  <2>1. ~IsReady(i)
    <3> SUFFICES ASSUME NEW b \in Listed, NEW e \in blk[b].ready, i = blk[b].start + e
                 PROVE  FALSE
      BY DEF IsReady
    <3>1. blk[b].start \in Starts /\ e \in B!Offsets
      BY <1>2, <1>3, BlockFacts DEF Chain
    <3>2. B!StartIndex(i) = blk[b].start /\ o = e
      BY <1>p, <3>1, StartOf
    <3>3. b = p
      BY <3>2, <1>2, <1>3 DEF Chain
    <3> QED
      BY <3>2, <3>3, <1>8
  <2>2. ~was
    BY <2>1, <1>6
  <2>3. CASE ~blk[p].closed
    <3>1. popped' = B!None /\ index' = index
      BY <2>3, <1>1, <1>8
    <3>2. popped' # B!Closed
      BY <3>1 DEF B!None, B!Closed
    <3>3. BlockTypes'
      BY <3>1, <1>1, <1>2 DEF BlockTypes, B!None
    <3>4. Receiver' /\ Answers'
      BY <3>1, <1>p, <1>1, <1>3, <1>4, <1>6, <2>2 DEF Receiver, Answers, B!None, B!Closed
    <3> QED
      BY <3>1, <3>2, <3>3, <3>4, <1>4, <1>5 DEF BlocksInv
  <2>4. CASE blk[p].closed
    <3>1. popped' = B!Closed /\ index' = index
      BY <2>4, <1>1, <1>8
    <3>2. Marked(p)
      BY <2>4, <1>2, <1>3 DEF Closing
    <3>3. ~Claimed(i)
      BY <3>2 DEF Marked, AllGone, Claimed
    <3>4. i = tail - 1
      <4>1. i < tail
        BY <1>p, <3>2 DEF Marked
      <4>2. i \in index .. tail - 1
        BY <4>1, <1>p, <1>3
      <4> QED
        BY <4>2, <3>3, <2>1, <1>2 DEF Slots
    <3>5. BlockTypes'
      BY <3>1, <1>1, <1>2 DEF BlockTypes, B!Closed
    <3>6. Slots'
      <4>1. Claims'
        BY <3>1, <1>1, <1>2 DEF Slots, Claims, Active, B!NoLocals
      <4> QED
        BY <4>1, <3>1, <1>1, <1>2, <1>4, <1>5 DEF Slots
    <3>7. Closing'
      <4>1. AllGone'
        BY <3>2, <1>1 DEF Marked, AllGone, Active
      <4>2. \A b \in Listed' : blk'[b].closed => Marked(b)'
        BY <4>1, <3>1, <1>1, <1>2, <1>4 DEF Closing, Marked, IsReady
      <4>3. index' = tail' - 1
        BY <3>1, <3>4, <1>p, <1>1
      <4> QED
        BY <4>1, <4>2, <4>3, <1>1, <1>2 DEF Closing, Active
    <3>8. Receiver' /\ Answers'
      BY <3>1, <1>1 DEF Receiver, Answers, B!None, B!Closed
    <3> QED
      BY <3>5, <3>6, <3>7, <3>8, <1>4, <1>5 DEF BlocksInv
  <2> QED
    BY <2>3, <2>4
<1> QED
  BY <1>7, <1>8

-----------------------------------------------------------------------------
(* A block less                                                            *)

\* The first block goes.
LEMMA ChainShrinks ==
    ASSUME BlocksInv, NEW f, f = freeHead, f # Null, freeHead' = blk[f].next,
           Listed' = Listed \ {f}, \A b \in Addr : b # f => blk'[b] = blk[b]
    PROVE  /\ Chain' /\ f \in Listed /\ Listed \subseteq Addr
           /\ \A b \in Listed : b # f => blk[f].start < blk[b].start
           /\ \A b \in Listed : b # f => blk[f].start + BLOCK_CAP <= blk[b].start
<1>1. f \in Listed /\ Listed \subseteq Addr /\ Chain /\ Null \notin Addr
  BY BlocksAssumption DEF BlocksInv, Chain, Listed
<1>2. /\ \A b \in Listed : blk[b].start \in Nat /\ blk[b].start \in Starts
      /\ BLOCK_CAP \in Nat /\ BLOCK_CAP > 0
  BY <1>1, BlockFacts DEF BlocksInv, Chain
<1>3. \A b \in Listed : b # f => blk[f].start < blk[b].start
  <2> SUFFICES ASSUME NEW b \in Listed, b # f PROVE blk[f].start < blk[b].start
    OBVIOUS
  <2>1. blk[f].start <= blk[b].start /\ blk[f].start # blk[b].start
    BY <1>1 DEF Chain
  <2> QED
    BY <2>1, <1>1, <1>2
<1>4. \A b \in Listed : b # f => blk[f].start + BLOCK_CAP <= blk[b].start
  BY <1>1, <1>2, <1>3, StartsApart
<1>5. \A b \in Listed' : b \in Listed /\ b # f /\ blk'[b] = blk[b]
  BY <1>1
<1>6. \A b \in Listed' : blk'[b].start \in Starts
  BY <1>2, <1>5
<1>7. \A b, c \in Listed' : blk'[b].start = blk'[c].start => b = c
  BY <1>1, <1>5 DEF Chain
<1>8. ASSUME NEW b \in Listed', blk'[b].next # Null
      PROVE  blk'[b].next \in Listed' /\ blk'[blk'[b].next].start = blk'[b].start + BLOCK_CAP
  <2>1. blk[b].next \in Listed /\ blk[blk[b].next].start = blk[b].start + BLOCK_CAP
    BY <1>1, <1>5, <1>8 DEF Chain
  <2>2. blk[b].next # f
    <3>1. blk[f].start < blk[b].start
      BY <1>3, <1>5
    <3> QED
      BY <3>1, <2>1, <1>1, <1>2, <1>5
  <2>3. blk[b].next \in Listed'
    BY <2>1, <2>2
  <2> QED
    BY <2>1, <2>3, <1>5
<1>9. \A b, c \in Listed' : blk'[b].next = Null => blk'[c].start <= blk'[b].start
  BY <1>1, <1>5 DEF Chain
<1>10. CASE blk[f].next = Null
  <2>1. ASSUME NEW b \in Listed, b # f
        PROVE  FALSE
    <3>1. blk[b].start <= blk[f].start /\ blk[f].start < blk[b].start
      BY <2>1, <1>1, <1>3, <1>10 DEF Chain
    <3> QED
      BY <3>1, <1>1, <1>2
  <2>2. Listed' = {} /\ freeHead' = Null
    BY <2>1, <1>10
  <2>3. Chain'
    BY <2>2 DEF Chain
  <2> QED
    BY <2>3, <1>1, <1>3, <1>4
<1>11. CASE blk[f].next # Null
  <2>1. blk[f].next \in Listed /\ blk[blk[f].next].start = blk[f].start + BLOCK_CAP
    BY <1>1, <1>11 DEF Chain
  <2>2. blk[f].next # f
    BY <2>1, <1>1, <1>2
  <2>3. freeHead' \in Listed' /\ blk'[freeHead'].start = blk[f].start + BLOCK_CAP /\ freeHead' # Null
    BY <2>1, <2>2, <1>5, <1>11
  <2>4. \A b \in Listed' : blk'[freeHead'].start <= blk'[b].start
    BY <2>3, <1>4, <1>5
  <2>5. Chain'
    BY <2>3, <2>4, <1>6, <1>7, <1>8, <1>9 DEF Chain, Starts, B!StartIndex
  <2> QED
    BY <2>5, <1>1, <1>3, <1>4
<1> QED
  BY <1>10, <1>11

LEMMA ReclaimBlockKeeps ==
    ASSUME BlocksInv, B!ReclaimBlock
    PROVE  BlocksInv'
<1>p. PICK f : f = freeHead
  OBVIOUS
<1>1. /\ rpc = "reclaim"
      /\ \/ /\ f # head /\ blk[f].released /\ blk[f].observed <= index
            /\ victim' = f /\ freeHead' = blk[f].next
            /\ blk' = [blk EXCEPT ![f] = B!Reclaimed(f)]
            /\ rpc' = "place"
         \/ rpc' = "read" /\ UNCHANGED <<blk, freeHead, victim>>
      /\ UNCHANGED <<blockTail, tail, handles, place, me, head, index, curr, tries, was, popped>>
  BY <1>p DEF B!ReclaimBlock, B!MayReclaim, B!tx, B!seen
<1>2. /\ BlockTypes /\ Chain /\ Receiver /\ Outside /\ Slots /\ Closing /\ Walk /\ TailInv
      /\ popped # B!Closed
  BY <1>1 DEF BlocksInv, Closing
<1>3. /\ head \in Listed /\ head \in Addr /\ Listed \subseteq Addr
      /\ blk[head].start \in Nat /\ index \in Nat /\ blk[head].start <= index
      /\ BLOCK_CAP \in Nat
  BY <1>2, HeadFacts
<1>4. /\ freeHead # Null /\ index < blk[head].start + BLOCK_CAP /\ (was => IsReady(index))
      /\ victim = Null /\ curr = Null
  BY <1>1, <1>2 DEF Receiver, Outside
<1>5. CASE rpc' = "read" /\ UNCHANGED <<blk, freeHead, victim>>
  <2>1. BlockTypes'
    BY <1>1, <1>2, <1>5 DEF BlockTypes
  <2>2. Outside' /\ Listed' = Listed
    BY <1>1, <1>4, <1>5, OutsideKeeps
  <2>3. Chain' /\ Walk' /\ TailInv' /\ Slots' /\ Closing'
    <3>1. popped' # B!Closed
      BY <1>1, <1>2 DEF B!Closed
    <3> QED
      BY <1>1, <1>2, <1>5, <2>2, <3>1, ListStays
  <2>4. Receiver' /\ Answers'
    BY <1>1, <1>3, <1>4, <1>5, <2>2 DEF Receiver, Answers, IsReady
  <2> QED
    BY <2>1, <2>2, <2>3, <2>4 DEF BlocksInv
<1>6. CASE /\ f # head /\ blk[f].released /\ blk[f].observed <= index
           /\ victim' = f /\ freeHead' = blk[f].next
           /\ blk' = [blk EXCEPT ![f] = B!Reclaimed(f)]
           /\ rpc' = "place"
  <2>1. f \in Listed /\ f \in Addr
    BY <1>p, <1>2, <1>3, <1>4 DEF Chain
  <2>2. blk'[f] = B!Reclaimed(f) /\ \A b \in Addr : b # f => blk'[b] = blk[b]
    BY <1>2, <1>6, <2>1 DEF BlockTypes
  <2>3. /\ blk'[f].own = "spare" /\ blk'[f].next = Null /\ blk'[f].ready = {}
        /\ ~blk'[f].released /\ ~blk'[f].closed /\ blk'[f] \in BlockRecords
    <3>1. blk[f].observed \in Nat
      BY <1>2, <2>1, BlockFacts
    <3>2. PICK r : r = B!Block("spare", 0)
      OBVIOUS
    <3>3. /\ r \in BlockRecords /\ r.own = "spare" /\ r.next = Null /\ r.ready = {}
          /\ ~r.released /\ ~r.closed
      BY <3>2 DEF B!Block, BlockRecords, Pointers
    <3>4. blk'[f] = [r EXCEPT !.observed = blk[f].observed]
      BY <2>2, <3>2 DEF B!Reclaimed
    <3> QED
      BY <3>1, <3>3, <3>4 DEF BlockRecords
  <2>4. Listed' = Listed \ {f}
    BY <2>1, <2>2, <2>3 DEF Listed
  <2>5. BlockTypes'
    <3>1. blk' \in [Addr -> BlockRecords]
      BY <1>2, <1>6, <2>2, <2>3 DEF BlockTypes
    <3>2. freeHead' \in Pointers /\ victim' \in Pointers
      BY <1>2, <1>6, <2>1, BlockFacts DEF Pointers
    <3> QED
      BY <3>1, <3>2, <1>1, <1>2, <1>6 DEF BlockTypes
  <2>6. /\ Chain'
        /\ \A b \in Listed : b # f => blk[f].start < blk[b].start
        /\ \A b \in Listed : b # f => blk[f].start + BLOCK_CAP <= blk[b].start
    BY <1>p, <1>4, <1>6, <2>2, <2>4, ChainShrinks
  <2>7. blk[f].start + BLOCK_CAP <= index
    BY <1>2, <1>3, <1>6, <2>1, <2>6, BlockFacts
  <2>8. \A b \in Listed : b # f => Kept(b)
    BY <1>3, <2>2, <2>4 DEF Kept
  <2>9. Passed(f)
    BY <1>2, <1>6, <2>1 DEF TailInv
  <2>10. ASSUME NEW t \in Senders, Walking(t)
         PROVE  /\ me[t].ptr # f /\ me[t].ptr \in Listed
                /\ blk'[me[t].ptr] = blk[me[t].ptr]
                /\ place[t] = "append" => me[t].curr # f
    <3>1. /\ me[t].ptr \in Listed /\ blk[me[t].ptr].start \in Nat /\ blk[f].start \in Nat
          /\ blk[f].observed \in Nat /\ me[t].slot \in Nat
      BY <1>2, <2>1, <2>10, BlockFacts DEF Walk, WalkOf, Listed
    <3>2. index <= me[t].slot
      BY <1>2, <2>10 DEF Slots, Claims, Active, Walking
    <3>3. ~(blk[me[t].ptr].start <= blk[f].start)
      BY <2>9, <2>10, <3>1, <3>2, <1>3, <1>6 DEF Passed
    <3>4. me[t].ptr # f
      BY <3>1, <3>3
    <3>5. place[t] = "append" => me[t].curr # f
      BY <3>1, <3>3, <1>2 DEF Walk, WalkOf
    <3> QED
      BY <3>1, <3>4, <3>5, <2>2, <1>3
  <2>11. Walk'
    <3> SUFFICES ASSUME NEW t \in Senders PROVE WalkOf(t)'
      BY DEF Walk
    <3>1. WalkOf(t) /\ place'[t] = place[t] /\ me'[t] = me[t]
      BY <1>1, <1>2 DEF Walk
    <3>2. Walking(t) => Kept(me[t].ptr)
      BY <2>8, <2>10
    <3>3. place[t] = "append" => Kept(me[t].curr)
      BY <3>1, <2>8, <2>10 DEF WalkOf, Walking
    <3> QED
      BY <3>1, <3>2, <3>3, <1>2, <2>5, WalkStays
  <2>12. \A i \in Nat : i >= index /\ IsReady(i) => IsReady(i)'
    BY <1>2, <2>7, <2>8, ReadyStays
  <2>13. Slots' /\ Closing'
    <3>1. \A t \in Senders : /\ Active(t)' <=> Active(t)
                             /\ me'[t].slot = me[t].slot /\ me'[t].close = me[t].close
                             /\ ~Active(t) => me'[t] = me[t]
      BY <1>1 DEF Active
    <3>2. \A b \in Listed' : /\ b \in Listed
                             /\ blk'[b].start = blk[b].start /\ blk'[b].ready = blk[b].ready
                             /\ blk'[b].val = blk[b].val /\ blk'[b].closed = blk[b].closed
      BY <1>3, <2>2, <2>4
    <3>3. index' = index /\ tail' = tail /\ handles' = handles /\ popped' = popped
      BY <1>1
    <3> QED
      BY <1>2, <2>5, <2>12, <3>1, <3>2, <3>3, SlotsStay
  <2>14. /\ blockTail \in Listed /\ blk[blockTail].start <= tail
         /\ \A t \in Senders : TailOf(t)
         /\ \A b \in Listed : blk[b].released => Passed(b)
    BY <1>2 DEF TailInv
  <2>15. blockTail \in Listed' /\ blk'[blockTail] = blk[blockTail]
         /\ blk[blockTail].start \in Nat /\ blockTail' = blockTail
    <3>1. blockTail # f
      BY <2>1, <2>9, <1>2, BlockFacts DEF Passed
    <3> QED
      BY <3>1, <1>1, <1>2, <1>3, <2>2, <2>4, <2>14, BlockFacts
  <2>16. ASSUME NEW b \in Listed, b # f, Passed(b)
         PROVE  Passed(b)'
    <3>1. b \in Addr /\ blk'[b] = blk[b] /\ blk[b].observed \in Nat
      BY <2>16, <1>2, <1>3, <2>2, BlockFacts
    <3>2. \A t \in Senders : Walking(t)' => Walking(t) /\ me'[t] = me[t]
                                            /\ blk'[me[t].ptr] = blk[me[t].ptr]
      BY <1>1, <2>10 DEF Walking
    <3> QED
      BY <2>15, <2>16, <3>1, <3>2 DEF Passed
  <2>17. ASSUME NEW t \in Senders
         PROVE  TailOf(t)'
    <3>1. TailOf(t) /\ place'[t] = place[t] /\ me'[t] = me[t]
      BY <1>1, <2>14
    <3>2. Active(t)' => blk'[blockTail'].start <= me'[t].slot
      BY <3>1, <2>15 DEF TailOf, Active
    <3>3. place'[t] = "observe" => blk'[me'[t].ptr].start < blk'[blockTail'].start
      BY <3>1, <2>10, <2>15 DEF TailOf, Walking
    <3>4. place'[t] = "release" => Passed(me[t].ptr)'
      <4> SUFFICES ASSUME place'[t] = "release" PROVE Passed(me[t].ptr)'
        OBVIOUS
      <4>1. PICK b \in Listed : b = me[t].ptr /\ Passed(b) /\ b # f
        BY <3>1, <2>10 DEF TailOf, Walking
      <4>2. Passed(b)' /\ b = me'[t].ptr
        BY <3>1, <4>1, <2>16
      <4> QED
        BY <4>2 DEF Passed
    <3> QED
      BY <3>2, <3>3, <3>4 DEF TailOf
  <2>18. TailInv'
    <3>1. \A b \in Listed' : blk'[b].released => Passed(b)'
      BY <1>3, <2>2, <2>4, <2>14, <2>16
    <3>2. blockTail' \in Listed' /\ blk'[blockTail'].start <= tail'
      BY <1>1, <2>14, <2>15
    <3> QED
      BY <3>1, <3>2, <2>17 DEF TailInv
  <2>19. Outside'
    <3>1. \A b \in Addr : blk[b].own # "spare"
      BY <1>2, <1>4, BlocksAssumption DEF Outside
    <3>2. ASSUME NEW b \in Addr
          PROVE  /\ b \notin Listed' => Clean(b)'
                 /\ blk'[b].own = "free" => blk'[b] = B!Free
                 /\ blk'[b].own = "new" => \E t \in Senders : me'[t].fresh = b
                 /\ blk'[b].own = "spare" => victim' = b
      <4>1. CASE b = f
        BY <4>1, <2>3, <1>6 DEF Clean
      <4>2. CASE b # f
        <5>1. blk'[b] = blk[b] /\ (b \notin Listed' => b \notin Listed)
          BY <4>2, <2>2, <2>4
        <5> QED
          BY <5>1, <3>1, <1>1, <1>2 DEF Outside, Clean
      <4> QED
        BY <4>1, <4>2
    <3>3. ASSUME NEW t \in Senders
          PROVE  Carries(t)'
      <4>1. Carries(t) /\ me[t].fresh \in Pointers
        BY <1>2, BlockFacts DEF Outside, Locals
      <4>2. blk[f].own = "list"
        BY <2>1 DEF Listed
      <4> QED
        BY <4>1, <4>2, <1>1, <2>2 DEF Carries, Pointers
    <3>4. \A t, u \in Senders : me'[t].fresh = me'[u].fresh /\ me'[t].fresh # Null => t = u
      BY <1>1, <1>2 DEF Outside
    <3>5. victim' # Null /\ blk'[victim'].own = "spare" /\ curr' = Null
      BY <1>1, <1>4, <1>6, <2>1, <2>3, BlocksAssumption
    <3> QED
      BY <3>2, <3>3, <3>4, <3>5, <1>6 DEF Outside, B!Free, B!Block, B!Offsets
  <2>20. Receiver' /\ Answers'
    <3>1. head \in Listed' /\ blk'[head] = blk[head] /\ head' = head /\ index' = index
      BY <1>1, <1>3, <1>6, <2>2, <2>4
    <3>2. freeHead' # Null
      BY <3>1, <2>6 DEF Chain
    <3>3. IsReady(index) => IsReady(index)'
      <4>1. PICK i \in Nat : i = index /\ index' = i
        BY <1>1, <1>3
      <4>2. IsReady(i) => IsReady(i)'
        BY <4>1, <1>3, <2>12
      <4> QED
        BY <4>1, <4>2 DEF IsReady
    <3> QED
      BY <3>1, <3>2, <3>3, <1>1, <1>3, <1>4, <1>6 DEF Receiver, Answers
  <2> QED
    BY <2>5, <2>6, <2>11, <2>13, <2>18, <2>19, <2>20 DEF BlocksInv
<1> QED
  BY <1>1, <1>5, <1>6

LEMMA FreeBlocksKeeps ==
    ASSUME BlocksInv, B!FreeBlocks
    PROVE  BlocksInv'
<1>p. PICK f : f = freeHead
  OBVIOUS
<1>1. /\ popped = B!Closed /\ rpc = "idle" /\ f # Null
      /\ freeHead' = blk[f].next /\ blk' = [blk EXCEPT ![f] = B!Free]
      /\ UNCHANGED <<blockTail, tail, handles, place, me, head, index, rpc, victim, curr, tries,
                     was, popped>>
  BY <1>p DEF B!FreeBlocks, B!tx, B!seen
<1>2. BlockTypes /\ Chain /\ Outside /\ Slots /\ Closing /\ Walk
  BY DEF BlocksInv
<1>3. f \in Listed /\ f \in Addr /\ Listed \subseteq Addr
  BY <1>p, <1>1, <1>2 DEF Chain, Listed
<1>4. /\ B!Free \in BlockRecords /\ B!Free.own = "free" /\ B!Free.next = Null
      /\ B!Free.ready = {} /\ ~B!Free.released /\ ~B!Free.closed
  BY DEF B!Free, B!Block, BlockRecords, Pointers
<1>5. blk'[f] = B!Free /\ \A b \in Addr : b # f => blk'[b] = blk[b]
  BY <1>1, <1>2, <1>3 DEF BlockTypes
<1>6. BlockTypes'
  <2>1. blk' \in [Addr -> BlockRecords]
    BY <1>1, <1>2, <1>4 DEF BlockTypes
  <2>2. freeHead' \in Pointers
    BY <1>1, <1>2, <1>3, BlockFacts
  <2> QED
    BY <2>1, <2>2, <1>1, <1>2 DEF BlockTypes
<1>7. Listed' = Listed \ {f}
  BY <1>3, <1>4, <1>5 DEF Listed
<1>8. Chain'
  BY <1>p, <1>1, <1>5, <1>7, ChainShrinks
<1>9. \A t \in Senders : ~Active(t) /\ place'[t] = place[t] /\ me'[t] = me[t]
  BY <1>1, <1>2 DEF Closing, AllGone
<1>10. Walk'
  <2> SUFFICES ASSUME NEW t \in Senders PROVE WalkOf(t)'
    BY DEF Walk
  <2>1. WalkOf(t) /\ ~Walking(t) /\ place[t] # "append"
    BY <1>2, <1>9 DEF Walk, Active, Walking
  <2> QED
    BY <2>1, <1>2, <1>6, <1>9, WalkStays
<1>11. Slots' /\ Closing'
  <2>1. \A t \in Senders : /\ Active(t)' <=> Active(t)
                           /\ me'[t].slot = me[t].slot /\ me'[t].close = me[t].close
                           /\ ~Active(t) => me'[t] = me[t]
    BY <1>9 DEF Active
  <2>2. \A b \in Listed' : /\ b \in Listed
                           /\ blk'[b].start = blk[b].start /\ blk'[b].ready = blk[b].ready
                           /\ blk'[b].val = blk[b].val /\ blk'[b].closed = blk[b].closed
    BY <1>3, <1>5, <1>7
  <2> QED
    BY <1>1, <1>2, <1>6, <2>1, <2>2, SlotsStay
<1>12. Outside'
  <2>1. ASSUME NEW b \in Addr
        PROVE  /\ b \notin Listed' => Clean(b)'
               /\ blk'[b].own = "free" => blk'[b] = B!Free
               /\ blk'[b].own = "new" => \E t \in Senders : me'[t].fresh = b
               /\ blk'[b].own = "spare" => victim' = b
    <3>1. CASE b = f
      BY <3>1, <1>4, <1>5 DEF Clean
    <3>2. CASE b # f
      <4>1. blk'[b] = blk[b] /\ (b \notin Listed' => b \notin Listed)
        BY <3>2, <1>5, <1>7
      <4> QED
        BY <4>1, <1>1, <1>2 DEF Outside, Clean
    <3> QED
      BY <3>1, <3>2
  <2>2. ASSUME NEW t \in Senders
        PROVE  Carries(t)'
    <3>1. me[t].fresh = Null /\ place[t] # "append"
      BY <1>2, <1>9 DEF Outside, Carries, Active
    <3> QED
      BY <3>1, <1>9 DEF Carries
  <2>3. \A t, u \in Senders : me'[t].fresh = me'[u].fresh /\ me'[t].fresh # Null => t = u
    BY <1>1, <1>2 DEF Outside
  <2>4. victim = Null /\ curr = Null
    BY <1>1, <1>2 DEF Outside
  <2> QED
    BY <2>1, <2>2, <2>3, <2>4, <1>1 DEF Outside, B!Free, B!Block, B!Offsets
<1>13. TailInv' /\ Receiver' /\ Answers'
  <2>1. popped' = B!Closed /\ rpc' = "idle"
    BY <1>1
  <2>2. TailInv' /\ Receiver'
    BY <2>1 DEF TailInv, Receiver, B!Closed
  <2>3. Answers'
    BY <2>1 DEF Answers, B!Closed, B!None
  <2> QED
    BY <2>2, <2>3
<1> QED
  BY <1>6, <1>8, <1>10, <1>11, <1>12, <1>13 DEF BlocksInv

-----------------------------------------------------------------------------
(* The list of blocks: the theorems                                        *)

LEMMA BlocksStart ==
    B!Init => BlocksInv
<1> SUFFICES ASSUME B!Init PROVE BlocksInv
  OBVIOUS
<1>1. PICK b \in Addr :
        /\ blk = [a \in Addr |-> IF a = b THEN B!Block("list", 0) ELSE B!Free]
        /\ blockTail = b /\ head = b /\ freeHead = b
  <2>1. (CHOOSE a \in Addr : TRUE) \in Addr
    BY BlocksAssumption
  <2> QED
    BY <2>1 DEF B!Init
<1>2. /\ tail = 0 /\ handles = Senders /\ place = [s \in Senders |-> "idle"]
      /\ me = [s \in Senders |-> B!NoLocals] /\ index = 0
      /\ rpc = "idle" /\ victim = Null /\ curr = Null /\ tries = 0
      /\ was = FALSE /\ popped = B!None
  BY DEF B!Init
<1>3. \A w \in {"free", "list"} :
         /\ B!Block(w, 0) \in BlockRecords /\ B!Block(w, 0).own = w
         /\ B!Block(w, 0).start = 0 /\ B!Block(w, 0).next = Null
         /\ B!Block(w, 0).ready = {} /\ ~B!Block(w, 0).released /\ ~B!Block(w, 0).closed
  BY DEF B!Block, BlockRecords, Pointers
<1>4. /\ blk[b].own = "list" /\ blk[b].start = 0 /\ blk[b].next = Null /\ blk[b].ready = {}
      /\ ~blk[b].released /\ ~blk[b].closed
      /\ \A a \in Addr : a # b => blk[a] = B!Free /\ blk[a].own = "free" /\ Clean(a)
  BY <1>1, <1>3 DEF B!Free, Clean
<1>5. Listed = {b} /\ b # Null
  BY <1>4, BlocksAssumption DEF Listed
<1>6. B!NoLocals \in Locals /\ B!NoLocals.fresh = Null /\ B!NoLocals.next = Null
      /\ B!NoLocals.curr = Null /\ ~B!NoLocals.close
  BY DEF B!NoLocals, Locals, Pointers
<1>7. BlockTypes
  <2>1. blk \in [Addr -> BlockRecords]
    BY <1>1, <1>3 DEF B!Free
  <2>2. /\ place \in [Senders -> {"idle", "load", "walk", "grow", "append", "final",
                                  "swap", "observe", "release"}]
        /\ me \in [Senders -> Locals] /\ handles \in SUBSET Senders
    BY <1>2, <1>6
  <2>3. was \in BOOLEAN
    BY <1>2
  <2>4. /\ tail \in Nat /\ index \in Nat /\ tries \in Nat /\ popped \in Int
        /\ rpc \in {"idle", "head", "reclaim", "place", "push", "read"}
    BY <1>2 DEF B!None
  <2> QED
    BY <2>1, <2>2, <2>3, <2>4, <1>1, <1>2 DEF BlockTypes, Pointers
<1>8. Chain
  <2>1. 0 \in Starts
    BY StartsAre, BlocksAssumption
  <2> QED
    BY <2>1, <1>1, <1>4, <1>5 DEF Chain
<1>9. Outside
  BY <1>2, <1>4, <1>5, <1>6 DEF Outside, Carries
<1>10. \A s \in Senders : ~Active(s)
  BY <1>2 DEF Active
<1>11. Slots /\ Closing
  BY <1>2, <1>4, <1>5, <1>6, <1>10 DEF Slots, Claims, Written, Closing, B!None, B!Closed
<1>12. Walk /\ TailInv
  BY <1>1, <1>2, <1>4, <1>5, <1>6 DEF Walk, WalkOf, Walking, Behind, TailInv, TailOf, Active
<1>13. Receiver /\ Answers
  BY <1>1, <1>2, <1>4, <1>5 DEF Receiver, Answers, B!None, B!Closed
<1> QED
  BY <1>7, <1>8, <1>9, <1>11, <1>12, <1>13 DEF BlocksInv

LEMMA BlocksStutter ==
    ASSUME BlocksInv, UNCHANGED bvars
    PROVE  BlocksInv'
<1>1. UNCHANGED <<blk, blockTail, tail, handles, place, me, head, index, freeHead, rpc,
                  victim, curr, tries, was, popped>>
  BY DEF bvars
<1>2. Listed' = Listed
  BY <1>1 DEF Listed
<1>3. BlockTypes' /\ Chain' /\ Outside'
  <2>1. \A b \in Addr : blk'[b].own = blk[b].own
    BY <1>1
  <2> QED
    BY <1>1, <2>1, ChainStays, OutsideStays DEF BlocksInv, BlockTypes
<1>4. Slots'
  <2>1. (\A i : Claimed(i)' <=> Claimed(i)) /\ (\A i : IsReady(i)' <=> IsReady(i))
    BY <1>1, <1>2 DEF Claimed, Active, IsReady
  <2>2. \A b \in Listed' : Written(b)'
    BY <1>1, <1>2 DEF BlocksInv, Slots, Written, Claimed, Active
  <2>3. Claims'
    BY <1>1 DEF BlocksInv, Slots, Claims, Active, B!NoLocals
  <2> QED
    BY <1>1, <2>1, <2>2, <2>3 DEF BlocksInv, Slots
<1>5. Closing'
  BY <1>1, <1>2 DEF BlocksInv, Closing, AllGone, Marked, Active, IsReady, B!Closed
<1>6. Walk' /\ TailInv'
  BY <1>1, <1>2 DEF BlocksInv, Walk, WalkOf, Walking, Behind, B!IsFinal, B!Offsets, TailInv, TailOf,
                    Passed, Active, B!Closed
<1>7. Receiver' /\ Answers'
  BY <1>1, <1>2 DEF BlocksInv, Receiver, Answers, IsReady, B!Closed, B!None
<1> QED
  BY <1>3, <1>4, <1>5, <1>6, <1>7 DEF BlocksInv

LEMMA BlocksStep ==
    ASSUME BlocksInv, B!Next
    PROVE  BlocksInv'
<1>1. ASSUME NEW s \in Senders, B!SenderStep(s)
      PROVE  BlocksInv'
  BY <1>1, LoadTailKeeps, LoadNextKeeps, GrowKeeps, AppendKeeps, LookFinalKeeps, SwapTailKeeps,
     ObserveKeeps, TxReleaseKeeps, WriteKeeps DEF B!SenderStep
<1>2. ASSUME B!ReceiverStep
      PROVE  BlocksInv'
  BY <1>2, PopKeeps, AdvanceHeadKeeps, ReclaimBlockKeeps, PlaceBlockKeeps, PlaceAfterKeeps,
     FreeBlockKeeps, ReadKeeps DEF B!ReceiverStep
<1>3. ASSUME B!Done
      PROVE  BlocksInv'
  BY <1>3, BlocksStutter DEF B!Done, B!vars, B!tx, B!rx, B!seen, bvars
<1> QED
  BY <1>1, <1>2, <1>3, PushKeeps, DropTxKeeps, FreeBlocksKeeps DEF B!Next

\* What BlocksHeld and PopIsTrue say follows.
LEMMA InvHolds ==
    ASSUME BlocksInv
    PROVE  B!BlocksHeld /\ B!PopIsTrue
<1>1. /\ BlockTypes /\ Chain /\ Outside /\ Slots /\ Closing /\ Walk /\ TailInv /\ Receiver
      /\ Answers /\ Listed \subseteq Addr
  BY DEF BlocksInv, Listed
<1>2. ASSUME NEW s \in Senders, place[s] \notin {"idle", "load"}
      PROVE  /\ blk[me[s].ptr].own = "list"
             /\ blk[me[s].ptr].start <= B!StartIndex(me[s].slot)
             /\ me[s].curr # Null => blk[me[s].curr].own = "list"
             /\ me[s].next # Null => blk[me[s].next].own = "list"
  <2> DEFINE p == me[s].ptr
  <2>1. WalkOf(s) /\ Walking(s)
    BY <1>1, <1>2 DEF Walk, Walking
  <2>2. /\ p \in Listed /\ blk[p].start <= me[s].slot /\ me[s].slot \in Nat
        /\ blk[p].start \in Starts
    BY <1>1, <2>1, BlockFacts DEF WalkOf, Chain
  <2>3. blk[p].start <= B!StartIndex(me[s].slot)
    BY <2>2, AtOrBefore
  <2>4. me[s].curr # Null => me[s].curr \in Listed
    BY <2>1 DEF WalkOf
  <2>5. me[s].next # Null => me[s].next \in Listed
    BY <1>1, <2>1, <2>2 DEF WalkOf, Chain
  <2> QED
    BY <2>2, <2>3, <2>4, <2>5 DEF Listed
<1>3. curr # Null => blk[curr].own = "list"
  BY <1>1 DEF Outside, Listed
<1>4. freeHead # Null => \A b \in {head, freeHead, blockTail} : blk[b].own = "list" \/ popped = B!Closed
  BY <1>1 DEF Receiver, TailInv, Chain, Listed
<1>5. ASSUME NEW b \in Addr, blk[b].next # Null
      PROVE  /\ blk[blk[b].next].own = "list"
             /\ blk[blk[b].next].start = blk[b].start + BLOCK_CAP
  <2>1. b \in Listed
    BY <1>1, <1>5 DEF Outside, Clean
  <2> QED
    BY <2>1, <1>1, <1>5 DEF Chain, Listed
<1>6. ASSUME freeHead = Null, NEW b \in Addr
      PROVE  blk[b] = B!Free
  <2>1. Listed = {}
    BY <1>1, <1>6 DEF Chain
  <2>2. popped = B!Closed
    BY <1>1, <1>6 DEF Receiver
  <2>3. rpc = "idle" /\ \A s \in Senders : ~Active(s)
    BY <1>1, <2>2 DEF Closing, AllGone
  <2>4. victim = Null /\ \A s \in Senders : me[s].fresh = Null
    BY <1>1, <2>3 DEF Outside, Carries, Active
  <2>5. blk[b].own \in {"free", "list", "new", "spare"}
    BY <1>1 DEF BlockTypes, BlockRecords
  <2> QED
    BY <2>1, <2>4, <2>5, <1>1, BlocksAssumption DEF Outside, Listed
<1>7. B!BlocksHeld
  BY <1>2, <1>3, <1>4, <1>5, <1>6 DEF B!BlocksHeld
<1>8. B!PopIsTrue
  BY <1>1 DEF B!PopIsTrue, Answers, Closing, AllGone
<1> QED
  BY <1>7, <1>8

LEMMA BlocksAlways ==
    MCSpec => []BlocksInv
<1>1. MCInit => BlocksInv
  BY BlocksStart DEF MCInit
<1>2. BlocksInv /\ [MCNext]_<<part, vars, bvars>> => BlocksInv'
  <2> SUFFICES ASSUME BlocksInv, [MCNext]_<<part, vars, bvars>> PROVE BlocksInv'
    OBVIOUS
  <2>1. B!Next \/ UNCHANGED bvars
    BY DEF MCNext
  <2> QED
    BY <2>1, BlocksStep, BlocksStutter
<1> QED
  BY <1>1, <1>2, PTL DEF MCSpec

\* No thread holds a block that was reclaimed or freed while it looks at it:
\* find_block, grow and try_push, reclaim_blocks and free_blocks.
THEOREM BlocksAreHeld ==
    MCSpec => []BlocksHeld
<1>1. BlocksInv => BlocksHeld
  BY InvHolds DEF BlocksHeld
<1> QED
  BY <1>1, BlocksAlways, PTL

\* pop gives the values in the order of their slots, nothing only if the next
\* one was not written, and closed only after all of them: Rx::pop, Block::read.
THEOREM PopAnswersTruly ==
    MCSpec => []PopIsTrue
<1>1. BlocksInv => PopIsTrue
  BY InvHolds DEF PopIsTrue
<1> QED
  BY <1>1, BlocksAlways, PTL
=============================================================================
