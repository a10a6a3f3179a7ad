-------------------------------- MODULE Task --------------------------------
(***************************************************************************)
(* The life of one task cell of osaka/src/runtime/task: the atomic state   *)
(* word of state.rs, the harness of harness.rs that is the only code to    *)
(* move it, the JoinHandle of join.rs, the wakers of waker.rs, the         *)
(* OwnedTasks list of list.rs, and of spawner.rs what touches a single     *)
(* task (schedule, spawn, BasicScheduler::drop).                           *)
(*                                                                         *)
(* Every action is one atomic read-modify-write of the state word, or one  *)
(* access to a field that the word protects; the code between two of them  *)
(* is thread-local.  Four kinds of thread interleave:                      *)
(*   - the spawner (spc), which binds the task and schedules it once;      *)
(*   - the executor (epc), the one thread that holds the scheduler core:   *)
(*     it polls the task, shuts it down and drops the runtime;             *)
(*   - the owner of the JoinHandle (jpc): poll, abort, drop;               *)
(*   - any number of threads that own a Waker.  They are alike, so they    *)
(*     are counted: "wakers" are idle, "submitVal" and "submitRef" are in  *)
(*     a wake that has to submit, "dropVal" have submitted.                *)
(***************************************************************************)
EXTENDS Naturals

CONSTANTS
    MaxWakers,      \* bound of the model: wakers that exist at a time
    JoinWakers,     \* wakers a JoinHandle may be polled with
    NoWaker         \* the empty Trailer::waker

ASSUME TaskAssumption ==
    /\ MaxWakers \in Nat
    /\ NoWaker \notin JoinWakers

VARIABLES
    bits,       \* the flags of State::val
    refs,       \* its reference count (the other bits of the same word)
    memory,     \* "live" until Harness::dealloc, then "freed"
    stage,      \* CoreStage::stage; a finished stage is named by its output
    trailer,    \* Trailer::waker
    phase,      \* the runtime: "open", "closing" (OwnedTasks closed), "closed"
    owned,      \* Task of this cell in OwnedTasks::list
    local,      \* Notified of this task in Core::tasks
    remote,     \* Notified of this task in Shared::queue
    spc,        \* the spawner
    epc,        \* the executor
    snap,       \* flags returned by transition_to_complete
    ecount,     \* num_release of Harness::complete
    jpc,        \* the owner of the JoinHandle
    jarg,       \* the waker it polls with
    jwait,      \* waker of its last Pending, NoWaker if it is not waiting
    woken,      \* join wakers called since they were last polled with
    jres,       \* what the JoinHandle returned, "none" before
    wakers, submitVal, submitRef, dropVal

cell  == <<bits, refs, memory, stage, trailer>>
sched == <<phase, owned, local, remote>>
exec  == <<epc, snap, ecount>>
join  == <<jpc, jarg, jwait, woken, jres>>
wake  == <<wakers, submitVal, submitRef, dropVal>>
vars  == <<cell, sched, spc, exec, join, wake>>

-----------------------------------------------------------------------------
(* The state word *)

Flags == {"RUNNING", "COMPLETE", "NOTIFIED", "JOIN_INTEREST", "JOIN_WAKER", "CANCELLED"}

Has(f)  == f \in bits
IsIdle  == ~Has("RUNNING") /\ ~Has("COMPLETE")

InitialBits == {"JOIN_INTEREST", "NOTIFIED"}
InitialRefs == 3

Finished == {"ok", "panic", "cancelled"}     \* Stage::Finished(output)
Stages   == {"Running", "Consumed"} \cup Finished

\* State::ref_inc, and the increments inside the transitions.
RefInc == refs' = refs + 1 /\ memory' = memory

\* Drop n references; whoever drops the last one deallocates the cell.
RefDec(n) == refs' = refs - n /\ memory' = IF refs = n THEN "freed" ELSE memory

\* <Arc<Shared> as Schedule>::schedule.  On the runtime's own thread the task
\* goes to the core, or is dropped when the core is out of the context, which
\* only BasicScheduler::drop runs tasks' code with; from elsewhere it goes to
\* the shared queue, or is dropped once that queue is None.
ScheduleOn ==
    \/ /\ phase = "open"
       /\ local' = local + 1
       /\ UNCHANGED <<remote, refs, memory>>
    \/ /\ phase \in {"open", "closing"}
       /\ remote' = remote + 1
       /\ UNCHANGED <<local, refs, memory>>
    \/ /\ phase \in {"closing", "closed"}
       /\ RefDec(1)
       /\ UNCHANGED <<local, remote>>

-----------------------------------------------------------------------------
(* Variants of the actions below with a mistake in them.  Nothing uses them: *)
(* each is what one of the properties at the end is there to exclude.        *)

\* Harness::release always gives the reference of the list back.
ReleaseTwice ==
    /\ epc = "release"
    /\ ecount' = 2
    /\ owned' = 0
    /\ epc' = "terminal"
    /\ UNCHANGED <<cell, phase, local, remote, spc, snap, join, wake>>

\* transition_to_idle does not create a reference for the new Notified.
IdleWithoutRefInc ==
    /\ epc = "idle"
    /\ \/ Has("CANCELLED") /\ epc' = "cancel" /\ UNCHANGED <<bits, refs, memory>>
       \/ /\ ~Has("CANCELLED")
          /\ bits' = bits \ {"RUNNING"}
          /\ IF Has("NOTIFIED") THEN epc' = "yield" /\ UNCHANGED <<refs, memory>>
                                ELSE epc' = "none" /\ RefDec(1)
    /\ UNCHANGED <<stage, trailer, sched, spc, snap, ecount, join, wake>>

\* transition_to_idle takes the wake that came during the poll for an old one.
IdleSwallowsWake ==
    /\ epc = "idle"
    /\ \/ Has("CANCELLED") /\ epc' = "cancel" /\ UNCHANGED <<bits, refs, memory>>
       \/ ~Has("CANCELLED") /\ epc' = "none" /\ bits' = bits \ {"RUNNING", "NOTIFIED"} /\ RefDec(1)
    /\ UNCHANGED <<stage, trailer, sched, spc, snap, ecount, join, wake>>

\* wake_by_val marks the task and submits nothing.
WakeWithoutSubmit ==
    /\ wakers > 0
    /\ wakers' = wakers - 1
    /\ bits' = IF Has("COMPLETE") THEN bits ELSE bits \cup {"NOTIFIED"}
    /\ RefDec(1)
    /\ UNCHANGED <<stage, trailer, sched, spc, exec, join, submitVal, submitRef, dropVal>>

\* unset_waker does not look at COMPLETE.
UnsetWakerLate ==
    /\ jpc = "unset"
    /\ jpc' = "store"
    /\ bits' = bits \ {"JOIN_WAKER"}
    /\ UNCHANGED <<refs, memory, stage, trailer, sched, spc, exec, jarg, jwait, woken, jres, wake>>

\* set_join_waker does not look at COMPLETE.
SetJoinWakerLate ==
    /\ jpc = "set"
    /\ bits' = bits \cup {"JOIN_WAKER"}
    /\ jwait' = jarg
    /\ jpc' = "idle"
    /\ UNCHANGED <<refs, memory, stage, trailer, sched, spc, exec, jarg, woken, jres, wake>>

-----------------------------------------------------------------------------
(* Spawner::spawn and OwnedTasks::bind *)

\* The list is open: keep the task.  It is closed: drop the Notified and shut
\* the task down on the spawning thread, which stands in for the executor.
Bind ==
    /\ spc = "bind"
    /\ \/ /\ phase = "open"
          /\ owned' = 1
          /\ spc' = "sched"
          /\ UNCHANGED <<refs, memory, epc>>
       \/ /\ phase # "open"
          /\ epc = "none"
          /\ RefDec(1)
          /\ spc' = "shutdown"
          /\ epc' = "shutdown"
          /\ UNCHANGED owned
    /\ UNCHANGED <<bits, stage, trailer, phase, local, remote, snap, ecount, join, wake>>

ScheduleNew ==
    /\ spc = "sched"
    /\ ScheduleOn
    /\ spc' = "done"
    /\ jpc' = "idle"
    /\ UNCHANGED <<bits, stage, trailer, phase, owned, exec, jarg, jwait, woken, jres, wake>>

ReturnHandle ==
    /\ spc = "shutdown"
    /\ epc = "none"
    /\ spc' = "done"
    /\ jpc' = "idle"
    /\ UNCHANGED <<cell, sched, exec, jarg, jwait, woken, jres, wake>>

-----------------------------------------------------------------------------
(* The executor: Harness::poll *)

PopNotified ==
    /\ phase = "open"
    /\ epc = "none"
    /\ \/ local > 0 /\ local' = local - 1 /\ UNCHANGED remote
       \/ remote > 0 /\ remote' = remote - 1 /\ UNCHANGED local
    /\ epc' = "run"
    /\ UNCHANGED <<cell, phase, owned, spc, snap, ecount, join, wake>>

TransitionToRunning ==
    /\ epc = "run"
    /\ \/ /\ ~IsIdle
          /\ RefDec(1)
          /\ epc' = "none"
          /\ UNCHANGED bits
       \/ /\ IsIdle
          /\ bits' = (bits \cup {"RUNNING"}) \ {"NOTIFIED"}
          /\ epc' = IF Has("CANCELLED") THEN "cancel" ELSE "poll"
          /\ UNCHANGED <<refs, memory>>
    /\ UNCHANGED <<stage, trailer, sched, spc, snap, ecount, join, wake>>

\* poll_future: the future returns, or panics and is dropped in the guard.
PollReady ==
    /\ epc = "poll"
    /\ stage' \in {"ok", "panic"}
    /\ epc' = "complete"
    /\ UNCHANGED <<bits, refs, memory, trailer, sched, spc, snap, ecount, join, wake>>

PollPending ==
    /\ epc = "poll"
    /\ epc' = "idle"
    /\ UNCHANGED <<cell, sched, spc, snap, ecount, join, wake>>

TransitionToIdle ==
    /\ epc = "idle"
    /\ \/ /\ Has("CANCELLED")
          /\ epc' = "cancel"
          /\ UNCHANGED <<bits, refs, memory>>
       \/ /\ ~Has("CANCELLED") /\ ~Has("NOTIFIED")
          /\ bits' = bits \ {"RUNNING"}
          /\ RefDec(1)
          /\ epc' = "none"
       \/ /\ ~Has("CANCELLED") /\ Has("NOTIFIED")
          /\ bits' = bits \ {"RUNNING"}
          /\ RefInc
          /\ epc' = "yield"
    /\ UNCHANGED <<stage, trailer, sched, spc, snap, ecount, join, wake>>

YieldNow ==
    /\ epc = "yield"
    /\ local' = local + 1
    /\ epc' = "dropref"
    /\ UNCHANGED <<cell, phase, owned, remote, spc, snap, ecount, join, wake>>

DropReference ==
    /\ epc = "dropref"
    /\ RefDec(1)
    /\ epc' = "none"
    /\ UNCHANGED <<bits, stage, trailer, sched, spc, snap, ecount, join, wake>>

\* cancel_task: drop the future, which may panic, and store the error.
CancelTask ==
    /\ epc = "cancel"
    /\ stage' \in {"cancelled", "panic"}
    /\ epc' = "complete"
    /\ UNCHANGED <<bits, refs, memory, trailer, sched, spc, snap, ecount, join, wake>>

-----------------------------------------------------------------------------
(* The executor: Harness::complete *)

\* fetch_xor(RUNNING | COMPLETE)
TransitionToComplete ==
    /\ epc = "complete"
    /\ LET delta == {"RUNNING", "COMPLETE"}
       IN  bits' = (bits \ delta) \cup (delta \ bits)
    /\ snap' = bits'
    /\ epc' = "join"
    /\ UNCHANGED <<refs, memory, stage, trailer, sched, spc, ecount, join, wake>>

NotifyJoin ==
    /\ epc = "join"
    /\ \/ /\ "JOIN_INTEREST" \notin snap
          /\ stage' = "Consumed"
          /\ UNCHANGED woken
       \/ /\ {"JOIN_INTEREST", "JOIN_WAKER"} \subseteq snap
          /\ woken' = woken \cup {trailer}
          /\ UNCHANGED stage
       \/ /\ "JOIN_INTEREST" \in snap /\ "JOIN_WAKER" \notin snap
          /\ UNCHANGED <<stage, woken>>
    /\ epc' = "release"
    /\ UNCHANGED <<bits, refs, memory, trailer, sched, spc, snap, ecount, jpc, jarg, jwait, jres, wake>>

Release ==
    /\ epc = "release"
    /\ ecount' = 1 + owned
    /\ owned' = 0
    /\ epc' = "terminal"
    /\ UNCHANGED <<cell, phase, local, remote, spc, snap, join, wake>>

TransitionToTerminal ==
    /\ epc = "terminal"
    /\ RefDec(ecount)
    /\ epc' = "none"
    /\ UNCHANGED <<bits, stage, trailer, sched, spc, snap, ecount, join, wake>>

-----------------------------------------------------------------------------
(* The executor: BasicScheduler::drop *)

CloseOwned ==
    /\ phase = "open"
    /\ epc = "none"
    /\ phase' = "closing"
    /\ UNCHANGED <<cell, owned, local, remote, spc, exec, join, wake>>

PopOwned ==
    /\ phase = "closing"
    /\ epc = "none"
    /\ owned = 1
    /\ owned' = 0
    /\ epc' = "shutdown"
    /\ UNCHANGED <<cell, phase, local, remote, spc, snap, ecount, join, wake>>

\* Harness::shutdown up to cancel_task.
TransitionToShutdown ==
    /\ epc = "shutdown"
    /\ \/ /\ IsIdle
          /\ bits' = bits \cup {"RUNNING", "CANCELLED"}
          /\ epc' = "cancel"
       \/ /\ ~IsIdle
          /\ bits' = bits \cup {"CANCELLED"}
          /\ epc' = "dropref"
    /\ UNCHANGED <<refs, memory, stage, trailer, sched, spc, snap, ecount, join, wake>>

\* Drop a Notified of the local queue, or of the remote one once taken.
DrainQueue ==
    /\ phase # "open"
    /\ epc = "none"
    /\ owned = 0
    /\ local > 0
    /\ local' = local - 1
    /\ RefDec(1)
    /\ UNCHANGED <<bits, stage, trailer, phase, owned, remote, spc, exec, join, wake>>

TakeRemoteQueue ==
    /\ phase = "closing"
    /\ epc = "none"
    /\ owned = 0
    /\ local = 0
    /\ phase' = "closed"
    /\ local' = remote
    /\ remote' = 0
    /\ UNCHANGED <<cell, owned, spc, exec, join, wake>>

-----------------------------------------------------------------------------
(* The JoinHandle *)

\* can_read_output up to its first write.
JoinPoll(w) ==
    /\ jpc = "idle"
    /\ jres = "none"
    /\ jarg' = w
    /\ woken' = woken \ {w}
    /\ LET upToDate == ~Has("COMPLETE") /\ Has("JOIN_WAKER") /\ trailer = w
       IN  /\ jwait' = IF upToDate THEN w ELSE NoWaker
           /\ jpc' = CASE Has("COMPLETE")   -> "take"
                       [] upToDate          -> "idle"
                       [] ~Has("COMPLETE") /\ Has("JOIN_WAKER") /\ trailer # w -> "unset"
                       [] OTHER             -> "store"
    /\ UNCHANGED <<cell, sched, spc, exec, jres, wake>>

UnsetWaker ==
    /\ jpc = "unset"
    /\ \/ Has("COMPLETE") /\ jpc' = "take" /\ UNCHANGED bits
       \/ ~Has("COMPLETE") /\ jpc' = "store" /\ bits' = bits \ {"JOIN_WAKER"}
    /\ UNCHANGED <<refs, memory, stage, trailer, sched, spc, exec, jarg, jwait, woken, jres, wake>>

StoreWaker ==
    /\ jpc = "store"
    /\ trailer' = jarg
    /\ jpc' = "set"
    /\ UNCHANGED <<bits, refs, memory, stage, sched, spc, exec, jarg, jwait, woken, jres, wake>>

SetJoinWaker ==
    /\ jpc = "set"
    /\ \/ Has("COMPLETE") /\ jpc' = "clear" /\ UNCHANGED <<bits, jwait>>
       \/ /\ ~Has("COMPLETE")
          /\ bits' = bits \cup {"JOIN_WAKER"}
          /\ jwait' = jarg
          /\ jpc' = "idle"
    /\ UNCHANGED <<refs, memory, stage, trailer, sched, spc, exec, jarg, woken, jres, wake>>

ClearWaker ==
    /\ jpc = "clear"
    /\ trailer' = NoWaker
    /\ jpc' = "take"
    /\ UNCHANGED <<bits, refs, memory, stage, sched, spc, exec, jarg, jwait, woken, jres, wake>>

TakeOutput ==
    /\ jpc = "take"
    /\ jres' = stage
    /\ stage' = "Consumed"
    /\ jpc' = "idle"
    /\ UNCHANGED <<bits, refs, memory, trailer, sched, spc, exec, jarg, jwait, woken, wake>>

\* Harness::remote_abort.
Abort ==
    /\ jpc = "idle"
    /\ ~Has("CANCELLED") /\ ~Has("COMPLETE")
    /\ IF IsIdle /\ ~Has("NOTIFIED")
       THEN RefInc /\ jpc' = "abort"
       ELSE UNCHANGED <<refs, memory, jpc>>
    /\ bits' = bits \cup (IF IsIdle /\ Has("NOTIFIED")
                          THEN {"CANCELLED"} ELSE {"CANCELLED", "NOTIFIED"})
    /\ UNCHANGED <<stage, trailer, sched, spc, exec, jarg, jwait, woken, jres, wake>>

AbortSchedule ==
    /\ jpc = "abort"
    /\ ScheduleOn
    /\ jpc' = "idle"
    /\ UNCHANGED <<bits, stage, trailer, phase, owned, spc, exec, jarg, jwait, woken, jres, wake>>

DropJoinHandleFast ==
    /\ jpc = "idle"
    /\ bits = InitialBits /\ refs = InitialRefs
    /\ bits' = bits \ {"JOIN_INTEREST"}
    /\ refs' = refs - 1
    /\ jpc' = "gone"
    /\ UNCHANGED <<memory, stage, trailer, sched, spc, exec, jarg, jwait, woken, jres, wake>>

\* drop_join_handle_slow, taken also when the weak compare-exchange of the
\* fast path fails spuriously.
UnsetJoinInterested ==
    /\ jpc = "idle"
    /\ \/ Has("COMPLETE") /\ jpc' = "dropout" /\ UNCHANGED bits
       \/ ~Has("COMPLETE") /\ jpc' = "dropref" /\ bits' = bits \ {"JOIN_INTEREST"}
    /\ UNCHANGED <<refs, memory, stage, trailer, sched, spc, exec, jarg, jwait, woken, jres, wake>>

DropOutput ==
    /\ jpc = "dropout"
    /\ stage' = "Consumed"
    /\ jpc' = "dropref"
    /\ UNCHANGED <<bits, refs, memory, trailer, sched, spc, exec, jarg, jwait, woken, jres, wake>>

JoinDropReference ==
    /\ jpc = "dropref"
    /\ RefDec(1)
    /\ jpc' = "gone"
    /\ UNCHANGED <<bits, stage, trailer, sched, spc, exec, jarg, jwait, woken, jres, wake>>

-----------------------------------------------------------------------------
(* Wakers.  The Context of a poll lends one that owns no reference. *)

CloneWaker ==
    /\ epc = "poll" \/ wakers > 0
    /\ wakers + submitVal + submitRef + dropVal < MaxWakers
    /\ RefInc
    /\ wakers' = wakers + 1
    /\ UNCHANGED <<bits, stage, trailer, sched, spc, exec, join, submitVal, submitRef, dropVal>>

DropWaker ==
    /\ wakers > 0
    /\ RefDec(1)
    /\ wakers' = wakers - 1
    /\ UNCHANGED <<bits, stage, trailer, sched, spc, exec, join, submitVal, submitRef, dropVal>>

\* Harness::wake_by_val: the running case never deallocates, it asserts that
\* the executor holds a reference.
WakeByVal ==
    /\ wakers > 0
    /\ wakers' = wakers - 1
    /\ \/ /\ Has("RUNNING")
          /\ bits' = bits \cup {"NOTIFIED"}
          /\ refs' = refs - 1
          /\ UNCHANGED <<memory, submitVal>>
       \/ /\ ~Has("RUNNING")
          /\ Has("COMPLETE") \/ Has("NOTIFIED")
          /\ RefDec(1)
          /\ UNCHANGED <<bits, submitVal>>
       \/ /\ IsIdle /\ ~Has("NOTIFIED")
          /\ bits' = bits \cup {"NOTIFIED"}
          /\ RefInc
          /\ submitVal' = submitVal + 1
    /\ UNCHANGED <<stage, trailer, sched, spc, exec, join, submitRef, dropVal>>

SubmitByVal ==
    /\ submitVal > 0
    /\ ScheduleOn
    /\ submitVal' = submitVal - 1
    /\ dropVal' = dropVal + 1
    /\ UNCHANGED <<bits, stage, trailer, phase, owned, spc, exec, join, wakers, submitRef>>

DropAfterSubmit ==
    /\ dropVal > 0
    /\ RefDec(1)
    /\ dropVal' = dropVal - 1
    /\ UNCHANGED <<bits, stage, trailer, sched, spc, exec, join, wakers, submitVal, submitRef>>

\* Harness::wake_by_ref; it does nothing when COMPLETE or NOTIFIED is set.
WakeByRef ==
    /\ ~Has("COMPLETE") /\ ~Has("NOTIFIED")
    /\ bits' = bits \cup {"NOTIFIED"}
    /\ \/ /\ Has("RUNNING")
          /\ epc = "poll" \/ wakers > 0
          /\ UNCHANGED <<refs, memory, wakers, submitRef>>
       \/ /\ ~Has("RUNNING")
          /\ wakers > 0
          /\ RefInc
          /\ wakers' = wakers - 1
          /\ submitRef' = submitRef + 1
    /\ UNCHANGED <<stage, trailer, sched, spc, exec, join, submitVal, dropVal>>

SubmitByRef ==
    /\ submitRef > 0
    /\ ScheduleOn
    /\ submitRef' = submitRef - 1
    /\ wakers' = wakers + 1
    /\ UNCHANGED <<bits, stage, trailer, phase, owned, spc, exec, join, submitVal, dropVal>>

-----------------------------------------------------------------------------
Init ==
    /\ bits = InitialBits /\ refs = InitialRefs /\ memory = "live"
    /\ stage = "Running" /\ trailer = NoWaker
    /\ phase = "open" /\ owned = 0 /\ local = 0 /\ remote = 0
    /\ spc = "bind"
    /\ epc = "none" /\ snap = {} /\ ecount = 1
    /\ jpc = "unborn" /\ jarg = NoWaker /\ jwait = NoWaker /\ woken = {} /\ jres = "none"
    /\ wakers = 0 /\ submitVal = 0 /\ submitRef = 0 /\ dropVal = 0

SpawnStep == Bind \/ ScheduleNew \/ ReturnHandle

PollStep == PollReady \/ PollPending

ExecStep ==
    \/ TransitionToRunning \/ TransitionToIdle \/ YieldNow \/ DropReference
    \/ CancelTask \/ TransitionToComplete \/ NotifyJoin \/ Release
    \/ TransitionToTerminal \/ TransitionToShutdown

DropStep == PopOwned \/ DrainQueue \/ TakeRemoteQueue

JoinStep ==
    \/ UnsetWaker \/ StoreWaker \/ SetJoinWaker \/ ClearWaker \/ TakeOutput
    \/ AbortSchedule \/ DropOutput \/ JoinDropReference

JoinCall == (\E w \in JoinWakers : JoinPoll(w)) \/ Abort \/ DropJoinHandleFast \/ UnsetJoinInterested

WakeStep == SubmitByVal \/ DropAfterSubmit \/ SubmitByRef

WakeCall == CloneWaker \/ DropWaker \/ WakeByVal \/ WakeByRef

Next ==
    \/ SpawnStep \/ PopNotified \/ PollStep \/ ExecStep
    \/ CloseOwned \/ DropStep
    \/ JoinCall \/ JoinStep \/ WakeCall \/ WakeStep

Spec == Init /\ [][Next]_vars

\* A call that has begun goes on to its end, the scheduler pops what is in its
\* queues while it is open, and a poll of the future returns.  Nobody has to
\* clone, wake, drop, join, abort or close.
Fairness ==
    /\ WF_vars(SpawnStep) /\ WF_vars(PopNotified) /\ WF_vars(PollStep)
    /\ WF_vars(ExecStep) /\ WF_vars(DropStep)
    /\ WF_vars(JoinStep) /\ WF_vars(WakeStep)

FairSpec == Spec /\ Fairness

-----------------------------------------------------------------------------
(* Properties *)

One(p) == IF p THEN 1 ELSE 0

\* TypeOK: the fields of the cell and the places of the threads keep their
\* kinds, the reference count is a natural number and the queues are counted.
TypeOK ==
    /\ bits \subseteq Flags /\ refs \in Nat /\ memory \in {"live", "freed"}
    /\ stage \in Stages /\ trailer \in JoinWakers \cup {NoWaker}
    /\ phase \in {"open", "closing", "closed"}
    /\ owned \in {0, 1} /\ local \in Nat /\ remote \in Nat
    /\ spc \in {"bind", "sched", "shutdown", "done"}
    /\ epc \in {"none", "run", "poll", "idle", "yield", "dropref", "cancel", "complete",
                "join", "release", "terminal", "shutdown"}
    /\ snap \subseteq Flags /\ ecount \in {1, 2}
    /\ jpc \in {"unborn", "idle", "unset", "store", "set", "clear", "take", "abort",
                "dropout", "dropref", "gone"}
    /\ jarg \in JoinWakers \cup {NoWaker} /\ jwait \in JoinWakers \cup {NoWaker}
    /\ woken \subseteq JoinWakers \cup {NoWaker}
    /\ jres \in {"none"} \cup Stages
    /\ wakers \in Nat /\ submitVal \in Nat /\ submitRef \in Nat /\ dropVal \in Nat

\* The references that the threads, the list and the queues own.
SpawnerRefs == 2 * One(spc = "bind") + One(spc = "sched")
ExecRefs    == IF epc = "terminal" THEN ecount ELSE One(epc # "none") + One(epc = "yield")
JoinRefs    == One(jpc # "gone") + One(jpc = "abort")
WakerRefs   == wakers + 2 * submitVal + 2 * submitRef + dropVal
Holders     == SpawnerRefs + ExecRefs + JoinRefs + WakerRefs + owned + local + remote

\* The count in the state word is the number of references that somebody
\* owns, and the cell is freed exactly when there is none: no use after free,
\* no double free, no leak (state.rs ref_dec, harness.rs dealloc).
RefCountExact == refs = Holders /\ (memory = "live" <=> Holders > 0)

\* Who owns a Notified, or is between making one and queueing it.
Notifieds == local + remote + One(spc \in {"bind", "sched"}) + One(epc \in {"run", "yield"})
             + submitVal + submitRef + One(jpc = "abort")

\* A task is in the queues at most once, and only while NOTIFIED is set: it is
\* never polled twice at a time, nor twice for one wake (state.rs,
\* transition_to_notified_by_val and by_ref).
SingleNotified == Notifieds <= 1 /\ (Notifieds = 1 => Has("NOTIFIED"))

\* A wake-up is never lost: an idle task whose NOTIFIED bit says that it will
\* be polled has a Notified on the way to the queues, until the runtime closes.
NoLostWakeup == phase = "open" /\ IsIdle /\ Has("NOTIFIED") => Notifieds = 1

\* The assert!, unwrap, unreachable! and panic! of state.rs, harness.rs and
\* core.rs, each at the point where it is evaluated.
NoPanic ==
    /\ epc = "run" => Has("NOTIFIED")
    /\ epc = "poll" => stage = "Running"
    /\ epc \in {"poll", "idle", "cancel", "complete"} => Has("RUNNING") /\ ~Has("COMPLETE")
    /\ epc = "join" /\ {"JOIN_INTEREST", "JOIN_WAKER"} \subseteq snap => trailer # NoWaker
    /\ epc = "terminal" => refs >= ecount
    /\ Has("RUNNING") => refs > wakers
    /\ jpc \notin {"unborn", "dropref", "gone"} => Has("JOIN_INTEREST")
    /\ jpc = "unset" => Has("JOIN_WAKER")
    /\ jpc \in {"store", "set"} => ~Has("JOIN_WAKER")
    /\ jpc = "idle" /\ Has("JOIN_WAKER") => trailer # NoWaker
    /\ jpc = "take" => stage \in Finished
    /\ phase = "closed" => owned = 0

\* The stage and the join waker are plain cells: the bits alone keep the
\* executor and the JoinHandle from using one at the same time (core.rs, "the
\* caller ensures mutual exclusion to the field").
ExclusiveAccess ==
    /\ ~(jpc \in {"store", "clear"} /\ epc = "join" /\ "JOIN_WAKER" \in snap)
    /\ ~(jpc \in {"take", "dropout"}
         /\ (epc \in {"poll", "cancel"} \/ (epc = "join" /\ "JOIN_INTEREST" \notin snap)))

\* Completion wakes whoever the JoinHandle told to wait (harness.rs complete
\* against set_join_waker).
JoinNotLost ==
    jwait # NoWaker /\ jpc \in {"idle", "abort"} /\ Has("COMPLETE") /\ epc # "join"
        => jwait \in woken

\* The output is dropped by the scheduler or by the JoinHandle, never by a
\* waker on some other thread: harness.rs:189-193.
OutputDroppedInTime == memory = "freed" => stage = "Consumed"

\* Once the runtime is gone the task is complete, so that a JoinHandle or a
\* waker that survives it never waits for ever (list.rs
\* close_and_shutdown_all, bind).
ShutdownCompletes == phase = "closed" /\ epc = "none" /\ spc # "bind" => Has("COMPLETE")

\* What keeps the cell sound under every interleaving: one Notified, and no wake
\* without one, cells used by one thread, no assertion that fails, an output
\* dropped in time and by the right thread, and no task that a dropped runtime
\* leaves waiting.
CellSound ==
    /\ SingleNotified /\ NoLostWakeup
    /\ ExclusiveAccess /\ NoPanic
    /\ OutputDroppedInTime /\ ShutdownCompletes

\* A future is never polled again once the task is cancelled, except by the
\* poll that was running (state.rs transition_to_running).
CancelledNeverPolled == [][Has("CANCELLED") /\ epc # "poll" => epc' # "poll"]_vars

\* What the two lifecycle bits and NOTIFIED mean to the rest of the runtime.
Status ==
    CASE Has("COMPLETE") -> "done"
      [] Has("RUNNING")  -> IF Has("NOTIFIED") THEN "again" ELSE "running"
      [] OTHER           -> IF Has("NOTIFIED") THEN "queued" ELSE "idle"

Promise == INSTANCE TaskContract WITH status <- Status

\* Contract: the protocol of state.rs, with its two dozen steps and three kinds
\* of threads, is the six steps of TaskContract: no wake-up is dropped by a
\* transition, none makes a running task run twice, and done is final.
Contract == Promise!Spec

\* A wake-up leads to a poll, as long as the runtime is open.
WakeLeadsToPoll ==
    (IsIdle /\ Has("NOTIFIED")) ~> (epc = "poll" \/ Has("COMPLETE") \/ phase # "open")

\* Abort and shutdown complete the task (harness.rs remote_abort, shutdown).
CancelLeadsToComplete == Has("CANCELLED") ~> Has("COMPLETE")

\* Neither a wake-up nor an abort comes to nothing.
Progress == WakeLeadsToPoll /\ CancelLeadsToComplete
=============================================================================
