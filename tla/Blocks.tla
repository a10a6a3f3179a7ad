------------------------------- MODULE Blocks -------------------------------
(***************************************************************************)
(* The list of blocks under both channels, sync/mpsc/list.rs and block.rs: *)
(* Unbounded and Bounded take it for a sequence of slots that become ready *)
(* one by one, and this module is about how the slots are found, grown and *)
(* recycled without a lock.                                                *)
(*                                                                         *)
(* Every action is one atomic operation, with the plain accesses that      *)
(* nobody else can see.  An address is used again after it was freed.  A   *)
(* value is the position of its slot.                                      *)
(***************************************************************************)
EXTENDS Integers, FiniteSets

CONSTANTS Senders,
          Addr,       \* addresses of blocks
          Null,
          BLOCK_CAP,  \* slots of a block, at least one
          Attempts,   \* how often a block is offered for reuse: 3
          MaxPush     \* bound of the model: values that are pushed

VARIABLES
    blk,         \* the blocks
    blockTail,   \* Tx::block_tail
    tail,        \* Tx::tail_position
    handles,     \* senders whose Tx was not dropped
    pc,          \* what a sender does next
    me,          \* its locals
    head, index, freeHead,   \* Rx
    rpc,         \* what the receiver does next
    victim,      \* reclaim_block: the block,
    curr,        \*   where it tries to go,
    tries,       \*   and how often it still may
    was,         \* history: the slot was ready when this pop began
    got          \* history: the last answer of pop

tx == <<blockTail, tail, handles, pc, me>>
rx == <<head, index, freeHead, rpc, victim, curr, tries>>
seen == <<was, got>>
vars == <<blk, tx, rx, seen>>

\* The answers of pop besides a value
None == -1
Closed == -2

StartIndex(slot) == slot - (slot % BLOCK_CAP)
Offset(slot) == slot % BLOCK_CAP
Offsets == 0 .. BLOCK_CAP - 1

\* own tells who may use an address: nobody, the list, or one thread alone.
Block(own, start) ==
    [own |-> own, start |-> start, next |-> Null, ready |-> {},
     released |-> FALSE, closed |-> FALSE, observed |-> 0,
     val |-> [o \in Offsets |-> -1]]

Free == Block("free", 0)
NoLocals == [slot |-> 0, ptr |-> Null, next |-> Null, fresh |-> Null,
             curr |-> Null, trying |-> FALSE, close |-> FALSE]

\* Which address comes first makes no difference.
Init ==
    LET b == CHOOSE a \in Addr : TRUE
    IN  /\ blk = [a \in Addr |-> IF a = b THEN Block("list", 0) ELSE Free]
        /\ blockTail = b /\ tail = 0
        /\ handles = Senders
        /\ pc = [s \in Senders |-> "idle"]
        /\ me = [s \in Senders |-> NoLocals]
        /\ head = b /\ index = 0 /\ freeHead = b
        /\ rpc = "idle" /\ victim = Null /\ curr = Null /\ tries = 0
        /\ was = FALSE /\ got = None

\* Block::is_final
IsFinal(b) == blk[b].ready = Offsets

-----------------------------------------------------------------------------
(* Tx: push and close                                                      *)

Goto(s, l) == pc' = [pc EXCEPT ![s] = l]

\* fetch_add; the last handle that is dropped claims the slot of the close.
Claim(s, close) ==
    /\ pc[s] = "idle" /\ s \in handles
    /\ tail' = tail + 1
    /\ me' = [me EXCEPT ![s].slot = tail, ![s].close = close]
    /\ Goto(s, "load")
    /\ UNCHANGED <<blk, blockTail, rx, seen>>

Push(s) == tail < MaxPush /\ Claim(s, FALSE) /\ UNCHANGED handles

DropTx(s) ==
    /\ handles' = handles \ {s}
    /\ \/ handles = {s} /\ Claim(s, TRUE)
       \/ /\ handles # {s} /\ s \in handles
          /\ pc[s] = "idle"
          /\ UNCHANGED <<blk, blockTail, tail, pc, me, rx, seen>>

\* find_block starts at the tail, and will move it when the slot is far ahead.
LoadTail(s) ==
    LET distance == (StartIndex(me[s].slot) - blk[blockTail].start) \div BLOCK_CAP
    IN  /\ pc[s] = "load"
        /\ me' = [me EXCEPT ![s].ptr = blockTail,
                            ![s].trying = distance > Offset(me[s].slot)]
        /\ Goto(s, "walk")
        /\ UNCHANGED <<blk, blockTail, tail, handles, rx, seen>>

Here(s) == blk[me[s].ptr].start = StartIndex(me[s].slot)

LoadNext(s) ==
    /\ pc[s] = "walk" /\ ~Here(s)
    /\ me' = [me EXCEPT ![s].next = blk[me[s].ptr].next]
    /\ Goto(s, IF me'[s].next = Null THEN "grow" ELSE "final")
    /\ UNCHANGED <<blk, blockTail, tail, handles, rx, seen>>

\* Block::grow: a new block after this one, or else after whatever the others
\* have put there meanwhile.
Grow(s) ==
    /\ pc[s] = "grow"
    /\ \E new \in Addr :
          LET b == me[s].ptr
              after == blk[b].next
          IN  /\ blk[new] = Free
              /\ \/ /\ after = Null
                    /\ blk' = [blk EXCEPT ![b].next = new,
                                          ![new] = Block("list", blk[b].start + BLOCK_CAP)]
                    /\ me' = [me EXCEPT ![s].next = new]
                    /\ Goto(s, "final")
                 \/ /\ after # Null
                    /\ blk' = [blk EXCEPT ![new] = Block("new", 0)]
                    /\ me' = [me EXCEPT ![s].next = after, ![s].fresh = new, ![s].curr = after]
                    /\ Goto(s, "append")
    /\ UNCHANGED <<blockTail, tail, handles, rx, seen>>

\* Block::try_push: block b goes after c, if there is room.
TryPush(b, c) ==
    blk' = [blk EXCEPT ![c].next = b,
                       ![b].own = "list", ![b].start = blk[c].start + BLOCK_CAP]

\* Variant: grow returns its own block, wherever that went.
Append_ReturnsNew(s) ==
    /\ pc[s] = "append"
    /\ \/ /\ blk[me[s].curr].next = Null
          /\ TryPush(me[s].fresh, me[s].curr)
          /\ me' = [me EXCEPT ![s].next = me[s].fresh, ![s].fresh = Null, ![s].curr = Null]
          /\ Goto(s, "final")
       \/ /\ blk[me[s].curr].next # Null
          /\ me' = [me EXCEPT ![s].curr = blk[@].next]
          /\ UNCHANGED <<blk, pc>>
    /\ UNCHANGED <<blockTail, tail, handles, rx, seen>>

Append(s) ==
    /\ pc[s] = "append"
    /\ \/ /\ blk[me[s].curr].next = Null
          /\ TryPush(me[s].fresh, me[s].curr)
          /\ me' = [me EXCEPT ![s].fresh = Null, ![s].curr = Null]
          /\ Goto(s, "final")
       \/ /\ blk[me[s].curr].next # Null
          /\ me' = [me EXCEPT ![s].curr = blk[@].next]
          /\ UNCHANGED <<blk, pc>>
    /\ UNCHANGED <<blockTail, tail, handles, rx, seen>>

Advance(s) ==
    /\ me' = [me EXCEPT ![s].ptr = me[s].next, ![s].next = Null]
    /\ Goto(s, "walk")

StopTrying(s) ==
    /\ me' = [me EXCEPT ![s].ptr = me[s].next, ![s].next = Null, ![s].trying = FALSE]
    /\ Goto(s, "walk")

LookFinal(s) ==
    /\ pc[s] = "final"
    /\ IF me[s].trying /\ IsFinal(me[s].ptr)
       THEN Goto(s, "swap") /\ UNCHANGED me ELSE StopTrying(s)
    /\ UNCHANGED <<blk, blockTail, tail, handles, rx, seen>>

SwapTail(s) ==
    /\ pc[s] = "swap"
    /\ \/ /\ blockTail = me[s].ptr
          /\ blockTail' = me[s].next
          /\ Goto(s, "observe")
          /\ UNCHANGED me
       \/ /\ blockTail # me[s].ptr
          /\ StopTrying(s)
          /\ UNCHANGED blockTail
    /\ UNCHANGED <<blk, tail, handles, rx, seen>>

\* Variant: the position is that of the thread's own slot.
Observe_Own(s) ==
    /\ pc[s] = "observe"
    /\ blk' = [blk EXCEPT ![me[s].ptr].observed = me[s].slot]
    /\ Goto(s, "release")
    /\ UNCHANGED <<blockTail, tail, handles, me, rx, seen>>

\* Whoever has the old tail in hand has claimed a slot before this position.
Observe(s) ==
    /\ pc[s] = "observe"
    /\ blk' = [blk EXCEPT ![me[s].ptr].observed = tail]
    /\ Goto(s, "release")
    /\ UNCHANGED <<blockTail, tail, handles, me, rx, seen>>

\* Block::tx_release
TxRelease(s) ==
    /\ pc[s] = "release"
    /\ blk' = [blk EXCEPT ![me[s].ptr].released = TRUE]
    /\ Advance(s)
    /\ UNCHANGED <<blockTail, tail, handles, rx, seen>>

\* Block::write and set_ready, or tx_close
Write(s) ==
    LET b == me[s].ptr
        o == Offset(me[s].slot)
    IN  /\ pc[s] = "walk" /\ Here(s)
        /\ blk' = IF me[s].close THEN [blk EXCEPT ![b].closed = TRUE]
                  ELSE [blk EXCEPT ![b].val[o] = me[s].slot, ![b].ready = @ \cup {o}]
        /\ me' = [me EXCEPT ![s] = NoLocals]
        /\ Goto(s, "idle")
        /\ UNCHANGED <<blockTail, tail, handles, rx, seen>>

-----------------------------------------------------------------------------
(* Rx: pop and the blocks it leaves behind                                 *)

\* Slots that were written and not read
Ready == {i \in index .. tail - 1 :
            \E b \in Addr : /\ blk[b].own = "list" /\ blk[b].start = StartIndex(i)
                            /\ Offset(i) \in blk[b].ready}

Pop ==
    /\ rpc = "idle" /\ got # Closed
    /\ was' = (index \in Ready)
    /\ rpc' = "head"
    /\ UNCHANGED <<blk, tx, head, index, freeHead, victim, curr, tries, got>>

\* try_advancing_head, one block
AdvanceHead ==
    /\ rpc = "head"
    /\ \/ /\ blk[head].start = StartIndex(index)
          /\ rpc' = "reclaim"
          /\ UNCHANGED <<head, got>>
       \/ /\ blk[head].start # StartIndex(index) /\ blk[head].next # Null
          /\ head' = blk[head].next
          /\ UNCHANGED <<rpc, got>>
       \/ /\ blk[head].start # StartIndex(index) /\ blk[head].next = Null
          /\ got' = None
          /\ rpc' = "idle"
          /\ UNCHANGED head
    /\ UNCHANGED <<blk, tx, index, freeHead, victim, curr, tries, was>>

\* A block behind the head may be taken when it is released and the receiver
\* has read all that was claimed before.
MayReclaim == blk[freeHead].released /\ blk[freeHead].observed <= index

\* Variant: the ready bits stay.
Reclaimed_Ready(b) ==
    [blk[b] EXCEPT !.own = "spare", !.start = 0, !.next = Null,
                   !.released = FALSE, !.closed = FALSE]

\* Block::reclaim; what was in the slots was moved out.
Reclaimed(b) ==
    [Block("spare", 0) EXCEPT !.observed = blk[b].observed]

ReclaimBlock ==
    /\ rpc = "reclaim"
    /\ \/ /\ freeHead # head /\ MayReclaim
          /\ victim' = freeHead
          /\ freeHead' = blk[freeHead].next
          /\ blk' = [blk EXCEPT ![freeHead] = Reclaimed(freeHead)]
          /\ rpc' = "place"
       \/ /\ freeHead = head \/ ~MayReclaim
          /\ rpc' = "read"
          /\ UNCHANGED <<blk, freeHead, victim>>
    /\ UNCHANGED <<tx, head, index, curr, tries, seen>>

\* A few attempts to put it at the end,
PlaceBlock ==
    /\ rpc = "place"
    /\ curr' = blockTail
    /\ tries' = Attempts
    /\ rpc' = "push"
    /\ UNCHANGED <<blk, tx, head, index, freeHead, victim, seen>>

PlaceAfter ==
    /\ rpc = "push" /\ tries > 0
    /\ \/ /\ blk[curr].next = Null
          /\ TryPush(victim, curr)
          /\ victim' = Null /\ curr' = Null /\ tries' = 0
          /\ rpc' = "reclaim"
       \/ /\ blk[curr].next # Null
          /\ curr' = blk[curr].next
          /\ tries' = tries - 1
          /\ UNCHANGED <<blk, victim, rpc>>
    /\ UNCHANGED <<tx, head, index, freeHead, seen>>

\* and then it is freed.
FreeBlock ==
    /\ rpc = "push" /\ tries = 0
    /\ blk' = [blk EXCEPT ![victim] = Free]
    /\ victim' = Null /\ curr' = Null
    /\ rpc' = "reclaim"
    /\ UNCHANGED <<tx, head, index, freeHead, tries, seen>>

\* Block::read
Read ==
    LET b == blk[head]
        o == Offset(index)
    IN  /\ rpc = "read"
        /\ \/ /\ o \in b.ready
              /\ got' = b.val[o]
              /\ index' = index + 1
           \/ /\ o \notin b.ready
              /\ got' = IF b.closed THEN Closed ELSE None
              /\ UNCHANGED index
        /\ rpc' = "idle"
        /\ UNCHANGED <<blk, tx, head, freeHead, victim, curr, tries, was>>

\* free_blocks, once all handles are gone, one block at a time
FreeBlocks ==
    /\ got = Closed /\ rpc = "idle" /\ freeHead # Null
    /\ freeHead' = blk[freeHead].next
    /\ blk' = [blk EXCEPT ![freeHead] = Free]
    /\ UNCHANGED <<tx, head, index, rpc, victim, curr, tries, seen>>

-----------------------------------------------------------------------------

SenderStep(s) ==
    \/ LoadTail(s) \/ LoadNext(s) \/ Grow(s) \/ Append(s) \/ LookFinal(s)
    \/ SwapTail(s) \/ Observe(s) \/ TxRelease(s) \/ Write(s)

ReceiverStep ==
    \/ Pop \/ AdvanceHead \/ ReclaimBlock \/ PlaceBlock \/ PlaceAfter \/ FreeBlock
    \/ Read

Done == freeHead = Null /\ UNCHANGED vars

Next ==
    \/ \E s \in Senders : Push(s) \/ DropTx(s) \/ SenderStep(s)
    \/ ReceiverStep
    \/ FreeBlocks
    \/ Done

Spec == Init /\ [][Next]_vars

\* Threads go on, senders are dropped at last, and the receiver receives.
FairSpec ==
    /\ Spec
    /\ \A s \in Senders : WF_vars(SenderStep(s)) /\ WF_vars(DropTx(s))
    /\ WF_vars(ReceiverStep) /\ WF_vars(FreeBlocks)

-----------------------------------------------------------------------------

\* No thread holds a block that was reclaimed or freed while it looks at it: a
\* sender's is in the list, at or before that of its slot (block.rs 203-216:
\* "Any sender targeting a greater tail_position is guaranteed to not access
\* this block"); the list is contiguous, as load_next asserts; and in the end
\* every block was freed.
BlocksHeld ==
    /\ \A s \in Senders : pc[s] \notin {"idle", "load"} =>
          /\ blk[me[s].ptr].own = "list"
          /\ blk[me[s].ptr].start <= StartIndex(me[s].slot)
          /\ me[s].curr # Null => blk[me[s].curr].own = "list"
          /\ me[s].next # Null => blk[me[s].next].own = "list"
    /\ curr # Null => blk[curr].own = "list"
    /\ freeHead # Null =>
          \A b \in {head, freeHead, blockTail} :
              blk[b].own = "list" \/ got = Closed
    /\ \A b \in Addr : blk[b].next # Null /\ got # Closed =>
          blk[blk[b].next].own = "list" /\ blk[blk[b].next].start = blk[b].start + BLOCK_CAP
    /\ freeHead = Null => \A b \in Addr : blk[b] = Free

\* pop gives the values in the order of their slots; nothing, only if the next
\* slot was not written when it was called; closed, only after all of them.
PopIsTrue ==
    /\ got >= 0 /\ rpc = "idle" => got = index - 1
    /\ got = None /\ rpc = "idle" => ~was
    /\ got = Closed => handles = {} /\ index = tail - 1

\* Every value that was pushed is received, although senders overtake one
\* another on the way to their blocks.
AllReceived == \A i \in 0 .. MaxPush - 1 : (tail > i) ~> (index > i \/ got = Closed)
=============================================================================
