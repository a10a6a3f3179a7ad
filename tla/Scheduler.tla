------------------------------ MODULE Scheduler ------------------------------
(***************************************************************************)
(* The single-threaded scheduler of runtime/spawner.rs: the two loops that *)
(* a thread holding the Core runs, poll_until_deadlock and block_on, the   *)
(* local queue in the Core, the remote queue in Shared, and the woken flag *)
(* by which the future given to block_on asks for another poll.            *)
(*                                                                         *)
(* A task is known here only by where its Notified is: module Task shows   *)
(* that there is at most one of it.  Other threads, and the same thread    *)
(* between two calls, hold wakers and Handles: they wake and spawn at any  *)
(* time, through the remote queue.                                         *)
(***************************************************************************)
EXTENDS Naturals, Sequences, FiniteSets

CONSTANTS
  Tasks,            \* the tasks a run may spawn
  BatchLimit,       \* tasks run before the loop starts over; 10 in the code
  GlobalInterval    \* every so many ticks the remote queue is first; 5 in the code

ASSUME SchedulerAssumption ==
  /\ IsFiniteSet(Tasks)
  /\ BatchLimit \in Nat \ {0}
  /\ GlobalInterval \in Nat \ {0}

VARIABLES
  at,        \* where the Core is: in its cell, at a point of the loop, or lost
  mode,      \* which loop the last call runs
  queue,     \* the local queue of the Core and the remote queue of Shared
  open,      \* the remote queue is Some: the runtime was not dropped
  status,    \* of each task
  running,   \* the tasks being polled: one or none
  tick,      \* Core.tick, modulo GlobalInterval
  batch,     \* tasks run since the loop last started over
  progress,  \* c > 0
  woken,     \* Shared.woken
  due,       \* history: block_on's future was woken since its last poll began
  late       \* history: an outside wake came since the loop last started over

vars == <<at, mode, queue, open, status, running, tick, batch, progress, woken, due, late>>

loop   == <<at, mode, tick, batch, progress>>
wakers == <<woken, due, late>>

Modes    == {"poll_until_deadlock", "block_on"}
Queues   == {"local", "remote"}
Points   == {"cell", "outer", "main", "first", "second", "run", "yield", "lost"}
Statuses == {"unborn", "idle", "queued", "running", "again", "done"}

Init ==
  /\ at = "cell" /\ mode = "poll_until_deadlock"
  /\ queue = [q \in Queues |-> <<>>]
  /\ open = TRUE
  /\ status = [t \in Tasks |-> "unborn"]
  /\ running = {}
  /\ tick = 0 /\ batch = 0 /\ progress = FALSE
  /\ woken = FALSE /\ due = FALSE /\ late = FALSE

(***************************************************************************)
(* Variants with a mistake: what each property is there to notice.  They   *)
(* are no part of Next.                                                    *)
(***************************************************************************)

\* Without a look at the tick the local queue always goes first.
LocalAlwaysFirst == "local"

\* The loop gives up at the first empty look, whatever it has just done.
GiveUpAtOnce ==
  /\ at' = "cell"
  /\ tick' = (tick + 1) % GlobalInterval
  /\ UNCHANGED <<queue, status, running, progress>>

\* The flag is cleared after the poll and not before it.
ResetAfterPoll ==
  /\ at = "main"
  /\ at' \in {"cell", "first"}
  /\ woken' = FALSE
  /\ UNCHANGED <<mode, queue, open, status, running, tick, batch, progress, due, late>>

\* A wake-up of the task that is being polled marks it as queued at once.
RenotifyQueued(t) ==
  /\ status[t] = "running"
  /\ status' = [status EXCEPT ![t] = "queued"]
  /\ UNCHANGED queue

(***************************************************************************)
(* Waking and spawning.                                                    *)
(***************************************************************************)

\* Which queue takes a task: a thread inside the loop finds its Context in
\* CURRENT, and the Core in it; every other thread uses the shared queue.
Push(t, q) ==
  /\ status[t] \in {"unborn", "idle"}
  /\ status' = [status EXCEPT ![t] = "queued"]
  /\ queue' = [queue EXCEPT ![q] = Append(@, t)]

\* A wake-up of the task that is being polled is left for the end of the poll.
Renotify(t) ==
  /\ status[t] = "running"
  /\ status' = [status EXCEPT ![t] = "again"]
  /\ UNCHANGED queue

\* The future that is being polled wakes or spawns t.
WakeInside(t) ==
  /\ at \in {"main", "run"}
  /\ Push(t, "local") \/ Renotify(t)
  /\ UNCHANGED <<loop, open, running, wakers>>

\* Another thread, or this one between two calls (Runtime::spawn,
\* take_timestep), wakes or spawns t; the remote queue is gone with the runtime.
WakeOutside(t) ==
  /\ open
  /\ Push(t, "remote") \/ Renotify(t)
  /\ late' = (late \/ at \in {"first", "second"})
  /\ UNCHANGED <<loop, open, running, woken, due>>

\* Somebody uses the waker of the block_on future.
WakeMain ==
  /\ mode = "block_on"
  /\ ~(woken /\ due)
  /\ woken' = TRUE /\ due' = TRUE
  /\ late' = (late \/ at \in {"first", "second"})
  /\ UNCHANGED <<loop, queue, open, status, running>>

(***************************************************************************)
(* The loop of the thread that has the Core.                               *)
(***************************************************************************)

\* take_core; block_on raises the flag so that its future gets a first poll.
Call(m) ==
  /\ at = "cell" /\ open
  /\ at' = "outer" /\ mode' = m
  /\ woken' = (IF m = "block_on" THEN TRUE ELSE woken)
  /\ due' = (IF m = "block_on" THEN TRUE ELSE due)
  /\ UNCHANGED <<queue, open, status, running, tick, batch, progress, late>>

\* The head of 'outer: block_on polls its future if the flag was up.
StartOver ==
  /\ at = "outer"
  /\ batch' = 0 /\ late' = FALSE
  /\ IF mode = "block_on" /\ woken
     THEN /\ at' = "main" /\ progress' = TRUE
          /\ woken' = FALSE /\ due' = FALSE
     ELSE /\ at' = "first" /\ progress' = FALSE
          /\ UNCHANGED <<woken, due>>
  /\ UNCHANGED <<mode, queue, open, status, running, tick>>

\* The poll of the block_on future: Ready gives the Core back.
MainPolled ==
  /\ at = "main"
  /\ at' \in {"cell", "first"}
  /\ UNCHANGED <<mode, queue, open, status, running, tick, batch, progress, wakers>>

FirstQueue == IF tick = 0 THEN "remote" ELSE "local"

OtherQueue == IF FirstQueue = "remote" THEN "local" ELSE "remote"

\* pop_front of queue q, and run_task up to the poll.
PopAndRun(q) ==
  /\ queue[q] # <<>>
  /\ running' = {Head(queue[q])}
  /\ status' = [status EXCEPT ![Head(queue[q])] = "running"]
  /\ queue' = [queue EXCEPT ![q] = Tail(@)]
  /\ tick' = (tick + 1) % GlobalInterval
  /\ progress' = TRUE
  /\ at' = "run"

\* The first look, at the queue that the tick prefers.
LookFirst ==
  /\ at = "first"
  /\ \/ PopAndRun(FirstQueue)
     \/ /\ queue[FirstQueue] = <<>>
        /\ at' = "second"
        /\ UNCHANGED <<queue, status, running, progress, tick>>
  /\ UNCHANGED <<mode, open, batch, wakers>>

\* Both queues were empty: a deadlock, unless something was done since 'outer.
Empty ==
  /\ at' = (IF progress THEN "outer" ELSE "cell")
  /\ tick' = (tick + 1) % GlobalInterval
  /\ UNCHANGED <<queue, status, running, progress>>

\* The second look, at the other queue.
LookSecond ==
  /\ at = "second"
  /\ \/ PopAndRun(OtherQueue)
     \/ /\ queue[OtherQueue] = <<>>
        /\ Empty
  /\ UNCHANGED <<mode, open, batch, wakers>>

\* Task::run returns: a task woken meanwhile goes to the back of the local
\* queue.  At the end of a batch block_on turns to its driver.
TaskPolled(t) ==
  /\ at = "run" /\ t \in running
  /\ running' = {}
  /\ \/ /\ status' = [status EXCEPT ![t] = "done"]
        /\ UNCHANGED queue
     \/ /\ status[t] = "running"
        /\ status' = [status EXCEPT ![t] = "idle"]
        /\ UNCHANGED queue
     \/ /\ status[t] = "again"
        /\ status' = [status EXCEPT ![t] = "queued"]
        /\ queue' = [queue EXCEPT !["local"] = Append(@, t)]
  /\ batch' = batch + 1
  /\ at' = (IF batch' < BatchLimit THEN "first"
            ELSE IF mode = "block_on" THEN "yield" ELSE "outer")
  /\ UNCHANGED <<mode, open, progress, tick, wakers>>

\* park_yield is unimplemented!(): the panic drops the Core and its queue.
ParkYield ==
  /\ at = "yield"
  /\ at' = "lost"
  /\ queue' = [queue EXCEPT !["local"] = <<>>]
  /\ UNCHANGED <<mode, open, status, running, tick, batch, progress, wakers>>

\* BasicScheduler::drop: every task is shut down and both queues are emptied.
DropRuntime ==
  /\ at = "cell" /\ open
  /\ open' = FALSE
  /\ status' = [t \in Tasks |-> IF status[t] = "unborn" THEN "unborn" ELSE "done"]
  /\ queue' = [q \in Queues |-> <<>>]
  /\ UNCHANGED <<loop, running, wakers>>

LoopStep ==
  \/ StartOver \/ MainPolled \/ LookFirst \/ LookSecond \/ ParkYield
  \/ \E t \in Tasks : TaskPolled(t)

Wake ==
  \/ WakeMain
  \/ \E t \in Tasks : WakeInside(t) \/ WakeOutside(t)

Next ==
  \/ LoopStep \/ Wake \/ DropRuntime
  \/ \E m \in Modes : Call(m)

Spec == Init /\ [][Next]_vars

\* A thread inside a loop keeps running and futures return from poll; the owner
\* of the runtime calls poll_until_deadlock again and again, as the programs in
\* bin/ do, whatever else it calls in between.
FairSpec == Spec /\ WF_vars(LoopStep) /\ SF_vars(Call("poll_until_deadlock"))
(***************************************************************************)
(* Properties.                                                             *)
(***************************************************************************)

\* TypeOK: every variable keeps its kind, and a batch never runs more than
\* BatchLimit tasks before the loop starts over.
TypeOK ==
  /\ at \in Points /\ mode \in Modes
  /\ queue \in [Queues -> Seq(Tasks)]
  /\ status \in [Tasks -> Statuses]
  /\ running \in SUBSET Tasks
  /\ tick \in 0 .. GlobalInterval - 1
  /\ batch \in 0 .. BatchLimit
  /\ open \in BOOLEAN /\ progress \in BOOLEAN
  /\ woken \in BOOLEAN /\ due \in BOOLEAN /\ late \in BOOLEAN

\* The places of t in the two queues.
Places(t) ==
  {p \in Queues \X (1 .. Cardinality(Tasks)) :
     p[2] <= Len(queue[p[1]]) /\ queue[p[1]][p[2]] = t}

\* QueueExact: a task that was scheduled is in one of the two queues, once,
\* until it is run, and no other task is in a queue: Shared::schedule and the
\* two pops neither lose nor double a Notified.  Only the panic of park_yield
\* takes the local queue with it.
QueueExact ==
  /\ at # "lost" =>
       \A t \in Tasks : Cardinality(Places(t)) = IF status[t] = "queued" THEN 1 ELSE 0
  /\ running = {t \in Tasks : status[t] \in {"running", "again"}}
  /\ Cardinality(running) = IF at = "run" THEN 1 ELSE 0

\* WakeKept: while block_on runs, a wake-up of its future that it has not
\* polled for yet is in Shared.woken, also one that came during the poll.
WakeKept == mode = "block_on" /\ due => woken

\* DeadlockIsReal: a loop gives up only when the local queue is empty, and the
\* remote queue too, and when its block_on future was polled after every
\* wake-up; it may only miss what another thread did during its last look.
DeadlockIsReal ==
  [][at = "second" /\ at' = "cell" =>
       /\ queue["local"] = <<>>
       /\ late \/ queue["remote"] = <<>>
       /\ late \/ mode = "poll_until_deadlock" \/ ~due]_vars

\* RunnableRuns: a scheduled task is run at last, whatever its queue and
\* however often the tasks of the other queue reschedule themselves: the tick
\* keeps either queue from starving the other.
RunnableRuns ==
  \A t \in Tasks : status[t] = "queued" ~> (status[t] # "queued" \/ at = "lost")

\* MainServed: a wake-up of the block_on future leads to a poll of it, unless
\* the call comes to its end before.
MainServed ==
  (due /\ mode = "block_on" /\ at \notin {"cell", "lost"})
    ~> (~due \/ at \in {"cell", "lost"})

Promise(t) == INSTANCE TaskContract WITH status <- status[t]

\* ContractsKept: the loops, the queues and the wakers treat every task as
\* TaskContract says, which is what module Task was shown to offer.
ContractsKept ==
  /\ \A t \in Tasks : Promise(t)!Init
  /\ [][\A t \in Tasks : [Promise(t)!Next]_(status[t])]_vars

\* CorePlacedBack: the Core is in its cell whenever no call is in progress;
\* BasicScheduler::drop asserts it ("We never placed the Core back").
CorePlacedBack == at # "lost"

\* LoopSound: the queues hold every scheduled task once, and no wake-up of the
\* block_on future is forgotten, over all steps of the two loops.
LoopSound == QueueExact /\ WakeKept

\* EveryoneServed: neither a queue nor the block_on future starves.
EveryoneServed == RunnableRuns /\ MainServed
=============================================================================
