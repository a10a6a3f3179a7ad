--------------------------- MODULE SchedulerProofs ---------------------------
(***************************************************************************)
(* What holds of the two loops for every set of tasks, every batch and     *)
(* every interval: no wake-up of the block_on future is lost, a loop       *)
(* reports a deadlock only when nothing is left to do, and every scheduled *)
(* task has one place in the queues.  LoopInv says what the loop knows at  *)
(* each of its points, QueueInv what is in the queues.                     *)
(***************************************************************************)
EXTENDS Scheduler, FiniteSetTheorems, TLAPS

\* The loop never fetches a task that its batch has no room for.
BatchRoom ==
  /\ at = "main" => batch = 0
  /\ at \in {"first", "second", "run"} => batch < BatchLimit

\* Between its two looks the loop has seen the preferred queue empty: it still
\* is, unless somebody outside has filled it.
FirstStaysEmpty ==
  at = "second" => queue[FirstQueue] = <<>> \/ (FirstQueue = "remote" /\ late)

\* A round that did nothing began with the flag down.
IdleRound ==
  /\ at \in {"main", "run"} => progress
  /\ at \in {"first", "second"} /\ mode = "block_on" /\ ~progress => ~woken \/ late

LoopInv == TypeOK /\ WakeKept /\ BatchRoom /\ FirstStaysEmpty /\ IdleRound

\* NextTick: the tick stays below the interval.
LEMMA NextTick ==
  ASSUME NEW n \in Nat PROVE (n + 1) % GlobalInterval \in 0 .. GlobalInterval - 1
  BY SchedulerAssumption

\* LoopInit: no loop runs and no flag is up.
LEMMA LoopInit == Init => LoopInv
<1> SUFFICES ASSUME Init PROVE LoopInv
  OBVIOUS
<1>1. queue \in [Queues -> Seq(Tasks)] /\ status \in [Tasks -> Statuses]
  BY DEF Init, Queues, Statuses
<1>2. tick \in 0 .. GlobalInterval - 1 /\ batch \in 0 .. BatchLimit
  BY SchedulerAssumption DEF Init
<1>3. TypeOK
  BY <1>1, <1>2 DEF Init, TypeOK, Points, Modes
<1> QED
  BY <1>3 DEF Init, LoopInv, WakeKept, BatchRoom, FirstStaysEmpty, IdleRound

\* Pushing: a wake-up or a spawn puts a task into a queue and keeps the kinds.
LEMMA Pushing ==
  ASSUME TypeOK, NEW t \in Tasks, NEW q \in Queues, Push(t, q)
  PROVE  queue' \in [Queues -> Seq(Tasks)] /\ status' \in [Tasks -> Statuses]
  BY DEF TypeOK, Push, Queues, Statuses

\* Renotifying: a wake-up of the polled task only marks it.
LEMMA Renotifying ==
  ASSUME TypeOK, NEW t \in Tasks, Renotify(t)
  PROVE  queue' = queue /\ status' \in [Tasks -> Statuses]
  BY DEF TypeOK, Renotify, Queues, Statuses

\* Popping: what a pop takes from a queue is a task.
LEMMA Popping ==
  ASSUME TypeOK, NEW q \in Queues, PopAndRun(q)
  PROVE  /\ queue' \in [Queues -> Seq(Tasks)] /\ status' \in [Tasks -> Statuses]
         /\ running' \in SUBSET Tasks
         /\ tick' \in 0 .. GlobalInterval - 1
         /\ progress' = TRUE /\ at' = "run"
<1>1. queue[q] \in Seq(Tasks) /\ queue[q] # <<>>
  BY DEF PopAndRun, TypeOK
<1>2. Head(queue[q]) \in Tasks /\ Tail(queue[q]) \in Seq(Tasks)
  BY <1>1
<1>3. tick \in Nat
  BY SchedulerAssumption DEF TypeOK
<1> QED
  BY <1>2, <1>3, NextTick DEF PopAndRun, TypeOK, Queues, Statuses

\* LoopKept: every step keeps what the loop knows.
LEMMA LoopKept == LoopInv /\ [Next]_vars => LoopInv'
<1> SUFFICES ASSUME LoopInv, [Next]_vars PROVE LoopInv'
  OBVIOUS
<1> USE SchedulerAssumption
<1>t. TypeOK
  BY DEF LoopInv
<1>b. 0 \in 0 .. BatchLimit
  OBVIOUS
<1>n. tick \in Nat /\ (tick + 1) % GlobalInterval \in 0 .. GlobalInterval - 1
  BY <1>t, NextTick DEF TypeOK
<1>1. ASSUME StartOver
     PROVE  LoopInv'
  <2>a. batch' \in 0 .. BatchLimit /\ late' \in BOOLEAN
    BY <1>1, <1>b DEF StartOver
  <2>b. at' \in Points /\ progress' \in BOOLEAN /\ woken' \in BOOLEAN /\ due' \in BOOLEAN
    BY <1>1, <1>t DEF StartOver, TypeOK, Points
  <2>1. TypeOK'
    BY <1>1, <1>t, <2>a, <2>b DEF StartOver, TypeOK
  <2>2. WakeKept' /\ BatchRoom'
    BY <1>1, <1>t DEF LoopInv, WakeKept, BatchRoom, loop, wakers, StartOver
  <2>3. FirstStaysEmpty' /\ IdleRound'
    BY <1>1, <1>t
    DEF LoopInv, FirstStaysEmpty, IdleRound, FirstQueue, TypeOK, loop, wakers,
        StartOver
  <2> QED
    BY <2>1, <2>2, <2>3 DEF LoopInv
<1>2. ASSUME MainPolled
     PROVE  LoopInv'
  <2>1. TypeOK'
    BY <1>2, <1>t, <1>n
    DEF TypeOK, Points, Modes, Queues, Statuses, loop, wakers, MainPolled
  <2>2. WakeKept' /\ BatchRoom'
    BY <1>2, <1>t DEF LoopInv, WakeKept, BatchRoom, loop, wakers, MainPolled
  <2>3. FirstStaysEmpty' /\ IdleRound'
    BY <1>2, <1>t
    DEF LoopInv, FirstStaysEmpty, IdleRound, FirstQueue, TypeOK, loop, wakers,
        MainPolled
  <2> QED
    BY <2>1, <2>2, <2>3 DEF LoopInv
<1>3. ASSUME LookFirst
     PROVE  LoopInv'
  <2>1. TypeOK'
    <3>1. CASE PopAndRun(FirstQueue)
      <4>1. FirstQueue \in Queues
        BY DEF FirstQueue, OtherQueue, Queues
      <4> QED
        BY <3>1, <4>1, <1>t, <1>3, Popping
        DEF LookFirst, TypeOK, Points, Modes, Queues, Statuses, loop, wakers
    <3>2. CASE /\ queue[FirstQueue] = <<>> /\ at' = "second"
               /\ UNCHANGED <<queue, status, running, progress, tick>>
      BY <3>2, <1>3, <1>t
      DEF LookFirst, TypeOK, Points, Modes, Queues, Statuses, loop, wakers
    <3> QED
      BY <1>3, <3>1, <3>2 DEF LookFirst
  <2>2. WakeKept' /\ BatchRoom'
    BY <1>3, <1>t
    DEF LoopInv, WakeKept, BatchRoom, loop, wakers, LookFirst, FirstQueue,
        PopAndRun
  <2>3. FirstStaysEmpty' /\ IdleRound'
    BY <1>3, <1>t
    DEF LoopInv, FirstStaysEmpty, IdleRound, FirstQueue, TypeOK, loop, wakers,
        LookFirst, PopAndRun
  <2> QED
    BY <2>1, <2>2, <2>3 DEF LoopInv
<1>4. ASSUME LookSecond
     PROVE  LoopInv'
  <2>1. TypeOK'
    <3>1. CASE PopAndRun(OtherQueue)
      <4>1. OtherQueue \in Queues
        BY DEF FirstQueue, OtherQueue, Queues
      <4> QED
        BY <3>1, <4>1, <1>t, <1>4, Popping
        DEF LookSecond, TypeOK, Points, Modes, Queues, Statuses, loop,
            wakers
    <3>2. CASE Empty
      BY <3>2, <1>4, <1>t, <1>n
      DEF LookSecond, Empty, TypeOK, Points, Modes, Queues, Statuses, loop,
          wakers
    <3> QED
      BY <1>4, <3>1, <3>2 DEF LookSecond
  <2>2. WakeKept' /\ BatchRoom'
    BY <1>4, <1>t
    DEF LoopInv, WakeKept, BatchRoom, loop, wakers, LookSecond, OtherQueue,
        FirstQueue, Empty, PopAndRun
  <2>3. FirstStaysEmpty' /\ IdleRound'
    BY <1>4, <1>t
    DEF LoopInv, FirstStaysEmpty, IdleRound, FirstQueue, TypeOK, loop, wakers,
        LookSecond, OtherQueue, Empty, PopAndRun
  <2> QED
    BY <2>1, <2>2, <2>3 DEF LoopInv
<1>5. ASSUME NEW t \in Tasks, TaskPolled(t)
     PROVE  LoopInv'
  <2>a. batch' \in 0 .. BatchLimit
    BY <1>5, <1>t DEF TaskPolled, LoopInv, BatchRoom, TypeOK
  <2>b. queue' \in [Queues -> Seq(Tasks)]
    <3>1. "local" \in Queues
      BY DEF Queues
    <3>2. Append(queue["local"], t) \in Seq(Tasks)
      BY <3>1, <1>5, <1>t DEF TypeOK
    <3>3. queue' = queue \/ queue' = [queue EXCEPT !["local"] = Append(@, t)]
      BY <1>5 DEF TaskPolled
    <3>4. queue \in [Queues -> Seq(Tasks)]
      BY <1>t DEF TypeOK
    <3> QED
      BY <3>1, <3>2, <3>3, <3>4
  <2>c. status' \in [Tasks -> Statuses] /\ at' \in Points
    BY <1>5, <1>t DEF TaskPolled, TypeOK, Statuses, Points
  <2>1. TypeOK'
    BY <1>5, <1>t, <2>a, <2>b, <2>c DEF TaskPolled, TypeOK, wakers
  <2>2. WakeKept' /\ BatchRoom'
    BY <1>5, <1>t DEF LoopInv, WakeKept, BatchRoom, loop, wakers, TaskPolled
  <2>3. FirstStaysEmpty' /\ IdleRound'
    BY <1>5, <1>t
    DEF LoopInv, FirstStaysEmpty, IdleRound, FirstQueue, TypeOK, loop, wakers,
        TaskPolled
  <2> QED
    BY <2>1, <2>2, <2>3 DEF LoopInv
<1>6. ASSUME ParkYield
     PROVE  LoopInv'
  <2>1. TypeOK'
    BY <1>6, <1>t, <1>n
    DEF TypeOK, Points, Modes, Queues, Statuses, loop, wakers, ParkYield
  <2>2. WakeKept' /\ BatchRoom'
    BY <1>6, <1>t DEF LoopInv, WakeKept, BatchRoom, loop, wakers, ParkYield
  <2>3. FirstStaysEmpty' /\ IdleRound'
    BY <1>6, <1>t
    DEF LoopInv, FirstStaysEmpty, IdleRound, FirstQueue, TypeOK, loop, wakers,
        ParkYield
  <2> QED
    BY <2>1, <2>2, <2>3 DEF LoopInv
<1>7. ASSUME NEW m \in Modes, Call(m)
     PROVE  LoopInv'
  <2>1. TypeOK'
    BY <1>7, <1>t, <1>n DEF TypeOK, Points, Modes, Queues, Statuses, loop, wakers, Call
  <2>2. WakeKept' /\ BatchRoom'
    BY <1>7, <1>t DEF LoopInv, WakeKept, BatchRoom, loop, wakers, Call
  <2>3. FirstStaysEmpty' /\ IdleRound'
    BY <1>7, <1>t
    DEF LoopInv, FirstStaysEmpty, IdleRound, FirstQueue, TypeOK, loop, wakers,
        Call
  <2> QED
    BY <2>1, <2>2, <2>3 DEF LoopInv
<1>8. ASSUME WakeMain
     PROVE  LoopInv'
  <2>1. TypeOK'
    BY <1>8, <1>t, <1>n
    DEF TypeOK, Points, Modes, Queues, Statuses, loop, wakers, WakeMain
  <2>2. WakeKept' /\ BatchRoom'
    BY <1>8, <1>t DEF LoopInv, WakeKept, BatchRoom, loop, wakers, WakeMain
  <2>3. FirstStaysEmpty' /\ IdleRound'
    BY <1>8, <1>t
    DEF LoopInv, FirstStaysEmpty, IdleRound, FirstQueue, TypeOK, loop, wakers,
        WakeMain
  <2> QED
    BY <2>1, <2>2, <2>3 DEF LoopInv
<1>9. ASSUME NEW t \in Tasks, WakeInside(t)
     PROVE  LoopInv'
  <2>p. queue' \in [Queues -> Seq(Tasks)] /\ status' \in [Tasks -> Statuses]
    <3>1. CASE Push(t, "local")
      <4>1. "local" \in Queues
        BY DEF Queues
      <4> QED
        BY <3>1, <4>1, <1>t, Pushing
    <3>2. CASE Renotify(t)
      BY <3>2, <1>t, Renotifying DEF TypeOK
    <3> QED
      BY <1>9, <3>1, <3>2 DEF WakeInside
  <2>1. TypeOK'
    BY <1>9, <1>t, <2>p
    DEF TypeOK, Points, Modes, Queues, Statuses, loop, wakers, WakeInside
  <2>2. WakeKept' /\ BatchRoom'
    BY <1>9, <1>t
    DEF LoopInv, WakeKept, BatchRoom, loop, wakers, WakeInside, Push, Renotify
  <2>3. FirstStaysEmpty' /\ IdleRound'
    BY <1>9, <1>t
    DEF LoopInv, FirstStaysEmpty, IdleRound, FirstQueue, TypeOK, loop, wakers,
        WakeInside, Push, Renotify
  <2> QED
    BY <2>1, <2>2, <2>3 DEF LoopInv
<1>10. ASSUME NEW t \in Tasks, WakeOutside(t)
     PROVE  LoopInv'
  <2>p. queue' \in [Queues -> Seq(Tasks)] /\ status' \in [Tasks -> Statuses]
    <3>1. CASE Push(t, "remote")
      <4>1. "remote" \in Queues
        BY DEF Queues
      <4> QED
        BY <3>1, <4>1, <1>t, Pushing
    <3>2. CASE Renotify(t)
      BY <3>2, <1>t, Renotifying DEF TypeOK
    <3> QED
      BY <1>10, <3>1, <3>2 DEF WakeOutside
  <2>1. TypeOK'
    BY <1>10, <1>t, <2>p
    DEF TypeOK, Points, Modes, Queues, Statuses, loop, wakers, WakeOutside
  <2>2. WakeKept' /\ BatchRoom'
    BY <1>10, <1>t
    DEF LoopInv, WakeKept, BatchRoom, loop, wakers, WakeOutside, Push, Renotify
  <2>3. FirstStaysEmpty' /\ IdleRound'
    BY <1>10, <1>t
    DEF LoopInv, FirstStaysEmpty, IdleRound, FirstQueue, TypeOK, Queues, loop, wakers,
        WakeOutside, Push, Renotify
  <2> QED
    BY <2>1, <2>2, <2>3 DEF LoopInv
<1>11. ASSUME DropRuntime
     PROVE  LoopInv'
  <2>a. queue' \in [Queues -> Seq(Tasks)] /\ status' \in [Tasks -> Statuses]
    BY <1>11, <1>t DEF DropRuntime, TypeOK, Queues, Statuses
  <2>1. TypeOK'
    BY <1>11, <1>t, <2>a DEF DropRuntime, TypeOK, loop, wakers
  <2>2. WakeKept' /\ BatchRoom'
    BY <1>11, <1>t DEF LoopInv, WakeKept, BatchRoom, loop, wakers, DropRuntime
  <2>3. FirstStaysEmpty' /\ IdleRound'
    BY <1>11, <1>t
    DEF LoopInv, FirstStaysEmpty, IdleRound, FirstQueue, TypeOK, loop, wakers,
        DropRuntime
  <2> QED
    BY <2>1, <2>2, <2>3 DEF LoopInv
<1>12. ASSUME UNCHANGED vars
     PROVE  LoopInv'
  <2>1. TypeOK'
    BY <1>12, <1>t, <1>n DEF TypeOK, Points, Modes, Queues, Statuses, loop, wakers, vars
  <2>2. WakeKept' /\ BatchRoom'
    BY <1>12, <1>t DEF LoopInv, WakeKept, BatchRoom, loop, wakers, vars
  <2>3. FirstStaysEmpty' /\ IdleRound'
    BY <1>12, <1>t
    DEF LoopInv, FirstStaysEmpty, IdleRound, FirstQueue, TypeOK, loop, wakers,
        vars
  <2> QED
    BY <2>1, <2>2, <2>3 DEF LoopInv
<1> QED
  BY <1>1, <1>2, <1>3, <1>4, <1>5, <1>6, <1>7, <1>8, <1>9, <1>10, <1>11, <1>12
  DEF Next, LoopStep, Wake

\* TypeOK: every variable keeps its kind, and no loop runs more than
\* BatchLimit tasks before it starts over or turns to its driver.
THEOREM TypeCorrect == Spec => []TypeOK
<1>1. LoopInv => TypeOK
  BY DEF LoopInv
<1> QED
  BY <1>1, LoopInit, LoopKept, PTL DEF Spec

\* A wake-up of the block_on future stays in Shared.woken until it is polled,
\* also one that comes in the middle of a poll: reset_woken goes first.
THEOREM MainWakeKept == Spec => []WakeKept
<1>1. LoopInv => WakeKept
  BY DEF LoopInv
<1> QED
  BY <1>1, LoopInit, LoopKept, PTL DEF Spec

\* poll_until_deadlock and block_on give up only when both queues are empty and
\* the block_on future was polled for every wake-up, but for what another
\* thread did between the last two looks.
THEOREM DeadlockReal == Spec => DeadlockIsReal
<1>1. ASSUME LoopInv, [Next]_vars, at = "second", at' = "cell"
      PROVE  /\ queue["local"] = <<>>
             /\ late \/ queue["remote"] = <<>>
             /\ late \/ mode = "poll_until_deadlock" \/ ~due
  <2>1. LookSecond /\ Empty
    BY <1>1 DEF Next, LoopStep, Wake, vars, loop, wakers, StartOver, MainPolled,
       LookFirst, LookSecond, PopAndRun, TaskPolled, ParkYield, Call, WakeMain,
       WakeInside, WakeOutside, DropRuntime
  <2>2. ~progress /\ queue[OtherQueue] = <<>>
    BY <2>1, <1>1 DEF LookSecond, Empty, PopAndRun
  <2>3. queue["local"] = <<>> /\ (late \/ queue["remote"] = <<>>)
    BY <2>2, <1>1 DEF LoopInv, FirstStaysEmpty, OtherQueue, FirstQueue
  <2>4. late \/ mode = "poll_until_deadlock" \/ ~due
    BY <2>2, <1>1 DEF LoopInv, TypeOK, Modes, IdleRound, WakeKept
  <2> QED
    BY <2>3, <2>4
<1> QED
  BY <1>1, LoopInit, LoopKept, PTL DEF Spec, DeadlockIsReal

-----------------------------------------------------------------------------
(* The two queues.  Counting places is nothing to be inductive: QueueInv   *)
(* says of each place whose it is, and LoopSound counts them at the end.   *)

\* Who is in a queue is scheduled.
Filed ==
  \A q \in Queues : \A i \in 1 .. Len(queue[q]) : status[queue[q][i]] = "queued"

\* Nobody is there twice.
Once ==
  \A q, r \in Queues : \A i \in 1 .. Len(queue[q]), j \in 1 .. Len(queue[r]) :
    queue[q][i] = queue[r][j] => q = r /\ i = j

\* t has a place.
Placed(t) == \E q \in Queues : \E i \in 1 .. Len(queue[q]) : queue[q][i] = t

NoneLost == at # "lost" => \A t \in Tasks : status[t] = "queued" => Placed(t)

\* One task is polled at a time, and none outside the loop.
OnePolled ==
  /\ running = {t \in Tasks : status[t] \in {"running", "again"}}
  /\ at = "run" => \E t \in Tasks : running = {t}
  /\ at # "run" => running = {}

QueueInv == Filed /\ Once /\ NoneLost /\ OnePolled

\* QueueInit: nobody is scheduled.
LEMMA QueueInit == Init => QueueInv
  BY DEF Init, QueueInv, Filed, Once, NoneLost, OnePolled, Queues

\* Joining: a task that was in no queue is in this one, behind the others.
LEMMA Joining ==
  ASSUME TypeOK, QueueInv, NEW t \in Tasks, NEW q \in Queues, status[t] # "queued",
         status' = [status EXCEPT ![t] = "queued"],
         queue' = [queue EXCEPT ![q] = Append(@, t)]
  PROVE  /\ Filed' /\ Once'
         /\ Placed(t)' /\ \A u \in Tasks : Placed(u) => Placed(u)'
<1>1. queue[q] \in Seq(Tasks) /\ queue'[q] = Append(queue[q], t)
      /\ \A r \in Queues : r # q => queue'[r] = queue[r]
  BY DEF TypeOK
<1> DEFINE n == Len(queue[q]) + 1
<1>2. /\ n \in Nat /\ Len(queue'[q]) = n /\ queue'[q][n] = t
      /\ 1 .. n = (1 .. Len(queue[q])) \cup {n} /\ n \notin 1 .. Len(queue[q])
      /\ \A i \in 1 .. Len(queue[q]) : queue'[q][i] = queue[q][i]
  BY <1>1
<1> HIDE DEF n
<1>3. \A r \in Queues : \A i \in 1 .. Len(queue[r]) :
        /\ queue[r][i] \in Tasks /\ queue[r][i] # t
        /\ i \in 1 .. Len(queue'[r]) /\ queue'[r][i] = queue[r][i]
  BY <1>1, <1>2 DEF TypeOK, QueueInv, Filed
<1>4. \A r \in Queues : \A i \in 1 .. Len(queue'[r]) :
        i \in 1 .. Len(queue[r]) \/ (r = q /\ i = n)
  BY <1>1, <1>2
<1>5. Filed'
  <2>1. status'[t] = "queued" /\ \A u \in Tasks : u # t => status'[u] = status[u]
    BY DEF TypeOK
  <2>2. \A r \in Queues : \A i \in 1 .. Len(queue[r]) : status'[queue'[r][i]] = "queued"
    BY <1>3, <2>1 DEF QueueInv, Filed
  <2> QED BY <1>2, <1>4, <2>1, <2>2 DEF Filed
<1>6. Once'
  <2> SUFFICES ASSUME NEW p \in Queues, NEW r \in Queues,
                      NEW i \in 1 .. Len(queue'[p]), NEW j \in 1 .. Len(queue'[r]),
                      queue'[p][i] = queue'[r][j]
               PROVE  p = r /\ i = j
    BY DEF Once
  <2>1. CASE i \in 1 .. Len(queue[p]) /\ j \in 1 .. Len(queue[r])
    BY <2>1, <1>3 DEF QueueInv, Once
  <2>2. CASE p = q /\ i = n
    BY <2>2, <1>2, <1>3, <1>4
  <2>3. CASE r = q /\ j = n
    BY <2>3, <1>2, <1>3, <1>4
  <2> QED BY <1>4, <2>1, <2>2, <2>3
<1>7. Placed(t)'
  <2>1. n \in 1 .. Len(queue'[q])
    BY <1>2
  <2> QED BY <2>1, <1>2 DEF Placed
<1>8. \A u \in Tasks : Placed(u) => Placed(u)'
  BY <1>3 DEF Placed
<1> QED BY <1>5, <1>6, <1>7, <1>8

\* Leaving: the head of a queue is scheduled no more, and nobody else goes.
LEMMA Leaving ==
  ASSUME TypeOK, QueueInv, NEW q \in Queues, at # "lost", at # "run", PopAndRun(q)
  PROVE  QueueInv'
<1> DEFINE s == queue[q]
           h == Head(queue[q])
<1>1. /\ s \in Seq(Tasks) /\ s # <<>> /\ queue'[q] = Tail(s)
      /\ \A r \in Queues : r # q => queue'[r] = queue[r]
  BY DEF TypeOK, PopAndRun
<1>2. /\ Len(s) \in Nat \ {0} /\ h \in Tasks /\ h = s[1] /\ Len(queue'[q]) = Len(s) - 1
      /\ \A i \in 1 .. Len(s) - 1 : queue'[q][i] = s[i + 1]
      /\ 1 \in 1 .. Len(s) /\ \A i \in 1 .. Len(s) - 1 : i + 1 \in 1 .. Len(s)
      /\ \A i \in 1 .. Len(s) : i = 1 \/ (i - 1 \in 1 .. Len(s) - 1 /\ i - 1 + 1 = i)
  BY <1>1
<1> HIDE DEF h
<1>3. /\ status[h] = "queued"
      /\ status' = [status EXCEPT ![h] = "running"] /\ running' = {h} /\ at' = "run"
  BY <1>2 DEF QueueInv, Filed, PopAndRun, h
<1> DEFINE old(r, i) == IF r = q THEN i + 1 ELSE i
<1>4. \A r \in Queues : \A i \in 1 .. Len(queue'[r]) :
        /\ old(r, i) \in 1 .. Len(queue[r])
        /\ queue'[r][i] = queue[r][old(r, i)]
        /\ queue[r][old(r, i)] \in Tasks
        /\ ~(r = q /\ old(r, i) = 1)
  <2> SUFFICES ASSUME NEW r \in Queues, NEW i \in 1 .. Len(queue'[r])
               PROVE  /\ old(r, i) \in 1 .. Len(queue[r])
                      /\ queue'[r][i] = queue[r][old(r, i)]
                      /\ queue[r][old(r, i)] \in Tasks
                      /\ ~(r = q /\ old(r, i) = 1)
    OBVIOUS
  <2>1. queue[r] \in Seq(Tasks)
    BY DEF TypeOK
  <2>2. CASE r = q
    BY <2>1, <2>2, <1>2
  <2>3. CASE r # q
    BY <2>1, <2>3, <1>1
  <2> QED BY <2>2, <2>3
<1> HIDE DEF old
<1>5. \A r \in Queues : \A i \in 1 .. Len(queue'[r]) :
        queue'[r][i] \in Tasks /\ queue'[r][i] # h
  <2> SUFFICES ASSUME NEW r \in Queues, NEW i \in 1 .. Len(queue'[r])
               PROVE  queue'[r][i] \in Tasks /\ queue'[r][i] # h
    OBVIOUS
  <2>1. queue[r][old(r, i)] # queue[q][1]
    BY <1>2, <1>4 DEF QueueInv, Once
  <2> QED BY <1>2, <1>4, <2>1
<1>6. Filed'
  <2>1. \A t \in Tasks : t # h => status'[t] = status[t]
    BY <1>3 DEF TypeOK
  <2>2. \A r \in Queues : \A i \in 1 .. Len(queue'[r]) : status[queue'[r][i]] = "queued"
    BY <1>4 DEF QueueInv, Filed
  <2> QED BY <1>5, <2>1, <2>2 DEF Filed
<1>7. Once'
  <2> SUFFICES ASSUME NEW p \in Queues, NEW r \in Queues,
                      NEW i \in 1 .. Len(queue'[p]), NEW j \in 1 .. Len(queue'[r]),
                      queue'[p][i] = queue'[r][j]
               PROVE  p = r /\ i = j
    BY DEF Once
  <2>1. queue[p][old(p, i)] = queue[r][old(r, j)]
    BY <1>4
  <2>2. p = r /\ old(p, i) = old(r, j)
    BY <1>4, <2>1 DEF QueueInv, Once
  <2> QED BY <2>2 DEF old
<1>8. NoneLost'
  <2> SUFFICES ASSUME NEW t \in Tasks, status'[t] = "queued"
               PROVE  Placed(t)'
    BY DEF NoneLost
  <2>0. status \in [Tasks -> Statuses]
    BY DEF TypeOK
  <2>1. t # h /\ status[t] = "queued"
    BY <2>0, <1>2, <1>3
  <2>p. PICK r \in Queues : \E i \in 1 .. Len(queue[r]) : queue[r][i] = t
    BY <2>1 DEF QueueInv, NoneLost, Placed
  <2>2. PICK i \in 1 .. Len(queue[r]) : queue[r][i] = t
    BY <2>p
  <2>3. CASE r # q
    BY <2>2, <2>3, <1>1 DEF Placed
  <2>4. CASE r = q
    <3>1. i # 1 /\ i - 1 \in 1 .. Len(queue'[q]) /\ queue'[q][i - 1] = t
      BY <2>1, <2>2, <2>4, <1>2
    <3> QED BY <3>1 DEF Placed
  <2> QED BY <2>3, <2>4
<1>9. OnePolled'
  <2>1. \A t \in Tasks : status[t] \notin {"running", "again"}
    BY DEF QueueInv, OnePolled
  <2>2. \A t \in Tasks : status'[t] = IF t = h THEN "running" ELSE status[t]
    BY <1>3 DEF TypeOK
  <2> QED BY <1>2, <1>3, <2>1, <2>2 DEF OnePolled
<1> QED BY <1>6, <1>7, <1>8, <1>9 DEF QueueInv

\* WakingKeeps: a wake-up or a spawn, from inside or outside.
LEMMA WakingKeeps ==
  ASSUME TypeOK, QueueInv, NEW t \in Tasks, NEW q \in Queues,
         Push(t, q) \/ Renotify(t), UNCHANGED <<at, running>>
  PROVE  QueueInv'
<1>1. CASE Push(t, q)
  <2>1. status[t] \notin {"queued", "running", "again"}
    BY <1>1 DEF Push
  <2>2. /\ Filed' /\ Once'
        /\ Placed(t)' /\ \A u \in Tasks : Placed(u) => Placed(u)'
    BY <1>1, <2>1, Joining DEF Push
  <2>3. NoneLost'
    BY <1>1, <2>2 DEF Push, TypeOK, QueueInv, NoneLost
  <2>4. OnePolled'
    BY <1>1, <2>1 DEF Push, TypeOK, QueueInv, OnePolled
  <2> QED BY <2>2, <2>3, <2>4 DEF QueueInv
<1>2. CASE Renotify(t)
  <2>1. status[t] = "running" /\ queue' = queue /\ status' = [status EXCEPT ![t] = "again"]
    BY <1>2 DEF Renotify
  <2>2. \A u \in Tasks : status'[u] = "queued" <=> status[u] = "queued"
    BY <2>1 DEF TypeOK
  <2>3. \A r \in Queues : \A i \in 1 .. Len(queue[r]) : queue[r][i] \in Tasks
    BY DEF TypeOK
  <2>4. Filed' /\ Once'
    BY <2>1, <2>2, <2>3 DEF QueueInv, Filed, Once
  <2>5. NoneLost'
    BY <2>1, <2>2 DEF QueueInv, NoneLost, Placed
  <2>6. OnePolled'
    BY <2>1 DEF TypeOK, QueueInv, OnePolled
  <2> QED BY <2>4, <2>5, <2>6 DEF QueueInv
<1> QED BY <1>1, <1>2

\* PollEnds: the polled task is done, waits, or goes to the back of the queue.
LEMMA PollEnds ==
  ASSUME TypeOK, QueueInv, NEW t \in Tasks, TaskPolled(t)
  PROVE  QueueInv'
<1>1. at = "run" /\ at' # "run" /\ at' # "lost" /\ running = {t} /\ running' = {}
  BY DEF TaskPolled, QueueInv, OnePolled
<1>2. /\ status[t] \in {"running", "again"}
      /\ \A u \in Tasks : status[u] \in {"running", "again"} => u = t
  BY <1>1 DEF QueueInv, OnePolled
<1>3. CASE /\ status' = [status EXCEPT ![t] = "queued"]
           /\ queue' = [queue EXCEPT !["local"] = Append(@, t)]
  <2>1. "local" \in Queues
    BY DEF Queues
  <2>2. /\ Filed' /\ Once'
        /\ Placed(t)' /\ \A u \in Tasks : Placed(u) => Placed(u)'
    BY <1>2, <1>3, <2>1, Joining
  <2>3. NoneLost'
    BY <1>1, <1>3, <2>2 DEF TypeOK, QueueInv, NoneLost
  <2>4. OnePolled'
    BY <1>1, <1>2, <1>3 DEF TypeOK, OnePolled
  <2> QED BY <2>2, <2>3, <2>4 DEF QueueInv
<1>4. CASE /\ \/ status' = [status EXCEPT ![t] = "done"]
              \/ status' = [status EXCEPT ![t] = "idle"]
           /\ queue' = queue
  <2>1. \A u \in Tasks : status'[u] = "queued" <=> status[u] = "queued"
    BY <1>2, <1>4 DEF TypeOK
  <2>2. \A r \in Queues : \A i \in 1 .. Len(queue[r]) : queue[r][i] \in Tasks
    BY DEF TypeOK
  <2>3. Filed' /\ Once'
    BY <1>4, <2>1, <2>2 DEF QueueInv, Filed, Once
  <2>4. NoneLost'
    BY <1>1, <1>4, <2>1 DEF QueueInv, NoneLost, Placed
  <2>5. OnePolled'
    BY <1>1, <1>2, <1>4 DEF TypeOK, OnePolled
  <2> QED BY <2>3, <2>4, <2>5 DEF QueueInv
<1> QED BY <1>3, <1>4 DEF TaskPolled

\* Elsewhere: a step that leaves queues and tasks alone.
LEMMA Elsewhere ==
  ASSUME QueueInv, UNCHANGED <<queue, status, running>>,
         at # "run", at' # "run", at = "lost" => at' = "lost"
  PROVE  QueueInv'
  BY DEF QueueInv, Filed, Once, NoneLost, Placed, OnePolled

\* QueueKept: every step keeps each scheduled task in its one place.
LEMMA QueueKept ==
  ASSUME LoopInv, QueueInv, [Next]_vars
  PROVE  QueueInv'
<1>1. TypeOK
  BY DEF LoopInv
<1>2. ASSUME StartOver \/ MainPolled \/ WakeMain \/ \E m \in Modes : Call(m)
      PROVE  QueueInv'
  <2>1. CASE WakeMain
    BY <2>1 DEF WakeMain, loop, QueueInv, Filed, Once, NoneLost, Placed, OnePolled
  <2>2. CASE StartOver \/ MainPolled \/ \E m \in Modes : Call(m)
    BY <2>2, Elsewhere DEF StartOver, MainPolled, Call
  <2> QED BY <1>2, <2>1, <2>2
<1>3. FirstQueue \in Queues /\ OtherQueue \in Queues
  BY DEF FirstQueue, OtherQueue, Queues
<1>4. ASSUME LookFirst
      PROVE  QueueInv'
  <2>1. CASE PopAndRun(FirstQueue)
    BY <1>1, <1>3, <1>4, <2>1, Leaving DEF LookFirst
  <2>2. CASE at' = "second" /\ UNCHANGED <<queue, status, running>>
    BY <1>4, <2>2, Elsewhere DEF LookFirst
  <2> QED BY <1>4, <2>1, <2>2 DEF LookFirst
<1>5. ASSUME LookSecond
      PROVE  QueueInv'
  <2>1. CASE PopAndRun(OtherQueue)
    BY <1>1, <1>3, <1>5, <2>1, Leaving DEF LookSecond
  <2>2. CASE Empty
    BY <1>5, <2>2, Elsewhere DEF LookSecond, Empty
  <2> QED BY <1>5, <2>1, <2>2 DEF LookSecond
<1>6. ASSUME NEW t \in Tasks, TaskPolled(t)
      PROVE  QueueInv'
  BY <1>1, <1>6, PollEnds
<1>7. ASSUME ParkYield
      PROVE  QueueInv'
  <2>1. /\ queue' = [queue EXCEPT !["local"] = <<>>]
        /\ at = "yield" /\ at' = "lost" /\ status' = status /\ running' = running
    BY <1>7 DEF ParkYield
  <2>2. \A q \in Queues :
          Len(queue'[q]) = 0 \/ queue'[q] = queue[q]
    BY <1>1, <2>1 DEF TypeOK
  <2>3. Filed' /\ Once'
    BY <2>1, <2>2 DEF QueueInv, Filed, Once
  <2> QED BY <2>1, <2>3 DEF QueueInv, NoneLost, OnePolled
<1>8. ASSUME NEW t \in Tasks, WakeInside(t)
      PROVE  QueueInv'
  <2>1. "local" \in Queues
    BY DEF Queues
  <2> QED BY <1>1, <1>8, <2>1, WakingKeeps DEF WakeInside, loop
<1>9. ASSUME NEW t \in Tasks, WakeOutside(t)
      PROVE  QueueInv'
  <2>1. "remote" \in Queues
    BY DEF Queues
  <2> QED BY <1>1, <1>9, <2>1, WakingKeeps DEF WakeOutside, loop
<1>10. ASSUME DropRuntime
       PROVE  QueueInv'
  <2>1. /\ \A q \in Queues : Len(queue'[q]) = 0
        /\ \A t \in Tasks : status'[t] \in {"unborn", "done"}
        /\ at = "cell" /\ at' = at /\ running' = running
    BY <1>10 DEF DropRuntime, loop
  <2> QED BY <2>1 DEF QueueInv, Filed, Once, NoneLost, OnePolled
<1>11. CASE UNCHANGED vars
  BY <1>11 DEF vars, QueueInv, Filed, Once, NoneLost, Placed, OnePolled
<1> QED
  BY <1>2, <1>4, <1>5, <1>6, <1>7, <1>8, <1>9, <1>10, <1>11 DEF Next, LoopStep, Wake

\* QueueFits: a queue is no longer than there are tasks.
LEMMA QueueFits ==
  ASSUME TypeOK, QueueInv, NEW q \in Queues
  PROVE  Len(queue[q]) \in Nat /\ Len(queue[q]) <= Cardinality(Tasks)
<1> DEFINE n == Len(queue[q])
<1>1. n \in Nat /\ queue[q] \in [1 .. n -> Tasks]
  BY DEF TypeOK
<1>2. queue[q] \in Injection(1 .. n, Tasks)
  BY <1>1 DEF QueueInv, Once, Injection, IsInjective
<1>3. Cardinality(1 .. n) <= Cardinality(Tasks)
  BY <1>2, SchedulerAssumption, FS_Injection
<1>4. Cardinality(1 .. n) = n
  BY <1>1, FS_Interval
<1> QED BY <1>1, <1>3, <1>4

\* PlacesCounted: with every place accounted for, counting them is easy.
LEMMA PlacesCounted ==
  ASSUME TypeOK, QueueInv
  PROVE  QueueExact
<1>1. ASSUME at # "lost", NEW t \in Tasks
      PROVE  Cardinality(Places(t)) = IF status[t] = "queued" THEN 1 ELSE 0
  <2>1. CASE status[t] = "queued"
    <3>q. PICK q \in Queues : \E i \in 1 .. Len(queue[q]) : queue[q][i] = t
      BY <1>1, <2>1 DEF QueueInv, NoneLost, Placed
    <3>1. PICK i \in 1 .. Len(queue[q]) : queue[q][i] = t
      BY <3>q
    <3>2. Cardinality(Tasks) \in Nat
      BY SchedulerAssumption, FS_CardinalityType
    <3>3. i \in 1 .. Cardinality(Tasks) /\ i <= Len(queue[q])
      BY <3>1, <3>2, QueueFits
    <3>4. ASSUME NEW r \in Queues, NEW j \in 1 .. Cardinality(Tasks),
                 j <= Len(queue[r]), queue[r][j] = t
          PROVE  r = q /\ j = i
      <4>1. j \in 1 .. Len(queue[r])
        BY <3>2, <3>4, QueueFits
      <4> QED BY <3>1, <3>4, <4>1 DEF QueueInv, Once
    <3>5. Places(t) = {<<q, i>>}
      BY <3>1, <3>3, <3>4 DEF Places
    <3> QED BY <2>1, <3>5, FS_Singleton
  <2>2. CASE status[t] # "queued"
    <3>1. ASSUME NEW r \in Queues, NEW j \in 1 .. Cardinality(Tasks),
                 j <= Len(queue[r]), queue[r][j] = t
          PROVE  FALSE
      <4>1. Cardinality(Tasks) \in Nat
        BY SchedulerAssumption, FS_CardinalityType
      <4>2. j \in 1 .. Len(queue[r])
        BY <3>1, <4>1, QueueFits
      <4> QED BY <2>2, <3>1, <4>2 DEF QueueInv, Filed
    <3>2. Places(t) = {}
      BY <3>1 DEF Places
    <3> QED BY <2>2, <3>2, FS_EmptySet
  <2> QED BY <2>1, <2>2
<1>2. Cardinality(running) = IF at = "run" THEN 1 ELSE 0
  BY FS_EmptySet, FS_Singleton DEF QueueInv, OnePolled
<1> QED BY <1>1, <1>2 DEF QueueExact, QueueInv, OnePolled

\* Shared::schedule, the two pops and the end of a poll neither lose nor double
\* a Notified, whatever other threads wake and spawn, and no wake-up of the
\* block_on future is forgotten.
THEOREM LoopIsSound == Spec => []LoopSound
<1>1. LoopInv /\ QueueInv => LoopSound
  BY PlacesCounted DEF LoopInv, LoopSound
<1>2. LoopInv /\ QueueInv /\ [Next]_vars => LoopInv' /\ QueueInv'
  BY LoopKept, QueueKept
<1> QED
  BY <1>1, <1>2, LoopInit, QueueInit, PTL DEF Spec

-----------------------------------------------------------------------------
(* The contract of each task.                                              *)

\* What a step makes of the status of one task.
Turns(t) == Promise(t)!Next \/ status'[t] = status[t]

\* OneTurns: an assignment to the status of one task, if the contract has it.
LEMMA OneTurns ==
  ASSUME TypeOK, NEW t \in Tasks, NEW s, status' = [status EXCEPT ![t] = s],
         \/ status[t] = "unborn" /\ s = "queued"
         \/ status[t] = "idle" /\ s = "queued"
         \/ status[t] = "running" /\ s \in {"again", "idle"}
         \/ status[t] = "queued" /\ s = "running"
         \/ status[t] = "again" /\ s = "queued"
         \/ status[t] \in {"running", "again"} /\ s = "done"
  PROVE  \A u \in Tasks : Turns(u)
<1> SUFFICES ASSUME NEW u \in Tasks PROVE Turns(u)
  OBVIOUS
<1>1. status'[u] = IF u = t THEN s ELSE status[u]
  BY DEF TypeOK
<1> QED
  BY <1>1 DEF Turns, Promise!Next, Promise!Spawn, Promise!Wake, Promise!Run,
     Promise!Rest, Promise!Complete

\* Turned: every step of the scheduler, for every task.
LEMMA Turned ==
  ASSUME LoopInv, QueueInv, [Next]_vars
  PROVE  \A t \in Tasks : Turns(t)
<1> USE DEF LoopInv
<1>1. ASSUME NEW t \in Tasks, NEW q \in Queues, Push(t, q) \/ Renotify(t)
      PROVE  \A u \in Tasks : Turns(u)
  BY <1>1, OneTurns DEF Push, Renotify
<1>2. ASSUME NEW q \in Queues, PopAndRun(q)
      PROVE  \A u \in Tasks : Turns(u)
  <2>1. Head(queue[q]) \in Tasks
    BY <1>2 DEF TypeOK, PopAndRun
  <2>2. status[Head(queue[q])] = "queued"
    BY <1>2 DEF TypeOK, PopAndRun, QueueInv, Filed
  <2> QED
    BY <1>2, <2>1, <2>2, OneTurns DEF PopAndRun
<1>3. ASSUME status' = status
      PROVE  \A u \in Tasks : Turns(u)
  BY <1>3 DEF Turns
<1>4. ASSUME NEW t \in Tasks, WakeInside(t) \/ WakeOutside(t)
      PROVE  \A u \in Tasks : Turns(u)
  BY <1>1, <1>4 DEF WakeInside, WakeOutside, Queues
<1>5. CASE LookFirst \/ LookSecond
  BY <1>2, <1>3, <1>5 DEF LookFirst, LookSecond, Empty, FirstQueue, OtherQueue, Queues
<1>6. ASSUME NEW t \in Tasks, TaskPolled(t)
      PROVE  \A u \in Tasks : Turns(u)
  <2>1. status[t] \in {"running", "again"}
    BY <1>6 DEF TaskPolled, QueueInv, OnePolled
  <2> QED
    BY <1>6, <2>1, OneTurns DEF TaskPolled
<1>7. CASE DropRuntime
  <2> SUFFICES ASSUME NEW u \in Tasks PROVE Turns(u)
    OBVIOUS
  <2>1. status[u] \in {"unborn", "idle", "queued", "done"}
    BY <1>7 DEF DropRuntime, QueueInv, OnePolled, TypeOK, Statuses
  <2>2. status'[u] = IF status[u] = "unborn" THEN "unborn" ELSE "done"
    BY <1>7 DEF DropRuntime
  <2> QED
    BY <2>1, <2>2 DEF Turns, Promise!Next, Promise!Claim
<1>8. CASE StartOver \/ MainPolled \/ ParkYield \/ WakeMain \/ UNCHANGED vars
           \/ \E m \in Modes : Call(m)
  BY <1>3, <1>8 DEF StartOver, MainPolled, ParkYield, WakeMain, Call, vars
<1> QED
  BY <1>4, <1>5, <1>6, <1>7, <1>8 DEF Next, LoopStep, Wake

\* The loops, the queues, the wakers and the drop of the runtime treat every
\* task as the contract says that Task implements: no step runs a task that
\* was not scheduled, or schedules one that is done.
THEOREM ContractsAreKept == Spec => ContractsKept
<1>1. Init => \A t \in Tasks : Promise(t)!Init
  BY DEF Init, Promise!Init
<1>2. LoopInv /\ QueueInv /\ [Next]_vars
         => [\A t \in Tasks : [Promise(t)!Next]_(status[t])]_vars
  BY Turned DEF Turns
<1>3. LoopInv /\ QueueInv /\ [Next]_vars => LoopInv' /\ QueueInv'
  BY LoopKept, QueueKept
<1> QED
  BY <1>1, <1>2, <1>3, LoopInit, QueueInit, PTL DEF Spec, ContractsKept
=============================================================================
