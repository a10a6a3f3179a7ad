----------------------------- MODULE MCChannels -----------------------------
(***************************************************************************)
(* The oneshot channel, and the list of blocks under the mpsc channels, in *)
(* one run: `part` says which of the two moves.  The blocks are of one     *)
(* slot, so that a few values fill several of them and the first one comes *)
(* back.                                                                   *)
(***************************************************************************)
EXTENDS Oneshot

CONSTANTS Senders, Addr, Null, BLOCK_CAP, Attempts, MaxPush

ASSUME BlocksAssumption ==
    /\ Null \notin Addr
    /\ Addr # {}
    /\ {BLOCK_CAP, Attempts} \subseteq Nat \ {0} /\ MaxPush \in Nat

VARIABLES
    part,
    blk, blockTail, tail, handles, place, me, head, index, freeHead, rpc,
    victim, curr, tries, was, popped

B == INSTANCE Blocks WITH pc <- place, got <- popped

bvars == <<blk, blockTail, tail, handles, place, me, head, index, freeHead, rpc,
           victim, curr, tries, was, popped>>

MCInit == part \in {"blocks", "oneshot"} /\ Init /\ B!Init

MCNext ==
    \/ part = "blocks" /\ B!Next /\ UNCHANGED <<part, vars>>
    \/ part = "oneshot" /\ Next /\ UNCHANGED <<part, bvars>>

MCSpec ==
    /\ MCInit /\ [][MCNext]_<<part, vars, bvars>>
    /\ \A s \in Senders :
          /\ WF_bvars(part = "blocks" /\ B!SenderStep(s))
          /\ WF_bvars(part = "blocks" /\ B!DropTx(s))
    /\ WF_bvars(part = "blocks" /\ B!ReceiverStep)
    /\ WF_bvars(part = "blocks" /\ B!FreeBlocks)
    /\ \A s \in Sides :
          /\ WF_vars(part = "oneshot" /\ SideStep(s))
          /\ WF_vars(/\ part = "oneshot" /\ s \in woken
                     /\ \E k \in Tasks : k = arg[s] /\ PollLoad(s, k))
    /\ WF_vars(part = "oneshot" /\ TxStep)
    /\ WF_vars(part = "oneshot" /\ RxStep)

\* No thread holds a block that was taken back (block.rs, list.rs).
BlocksHeld == B!BlocksHeld

\* pop answers truly, and in the order of the slots (list.rs).
PopIsTrue == B!PopIsTrue

\* Every value that was pushed is received (list.rs).
AllReceived == B!AllReceived
=============================================================================
