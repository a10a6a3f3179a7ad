----------------------------- MODULE TaskProofs -----------------------------
(***************************************************************************)
(* What holds of a task cell for every bound on its wakers and every set   *)
(* of join wakers.  An invariant is proved in three facts: it holds in     *)
(* Init, every action keeps it (one step for each, and under it one for    *)
(* each conjunct), and it implies the property.  The invariants build on   *)
(* each other: RefInv (types and references), NotifyInv (the one Notified) *)
(* and JoinInv (the JoinHandle, the stage and the join waker).             *)
(***************************************************************************)
EXTENDS Task, TLAPS

USE DEF cell, sched, exec, join, wake

\* FlagNames: the bits that the actions name are bits of the state word.
LEMMA FlagNames ==
    /\ "RUNNING" \in Flags /\ "COMPLETE" \in Flags /\ "NOTIFIED" \in Flags
    /\ "JOIN_INTEREST" \in Flags /\ "JOIN_WAKER" \in Flags /\ "CANCELLED" \in Flags
  BY DEF Flags

-----------------------------------------------------------------------------
(* Types and references *)

\* The RUNNING bit is a lock: it is set while the executor owns the future.
RunningExec ==
    /\ Has("RUNNING") <=> epc \in {"poll", "idle", "cancel", "complete"}
    /\ ~(Has("RUNNING") /\ Has("COMPLETE"))

\* Before the spawner is done, nobody has the JoinHandle; before it has bound
\* the task, the list does not have it either.
Newborn ==
    /\ spc = "bind" => owned = 0
    /\ spc # "done" => jpc = "unborn"

RefInv == TypeOK /\ RefCountExact /\ RunningExec /\ Newborn

\* RefInit: a newly allocated cell has three references, all accounted for.
LEMMA RefInit == Init => RefInv
  BY TaskAssumption, FlagNames DEF Init, RefInv, TypeOK, RunningExec,
     Newborn, Has, InitialBits, InitialRefs, Stages, Finished, RefCountExact,
     Holders, SpawnerRefs, ExecRefs, JoinRefs, WakerRefs, One

\* RefStep: every step that takes or gives up a reference changes the count
\* with it, and no other step does.
LEMMA RefStep == RefInv /\ [Next]_vars => RefInv'
<1> SUFFICES ASSUME RefInv, [Next]_vars PROVE RefInv'
  OBVIOUS
<1> USE TaskAssumption, FlagNames DEF RefInv
<1>1. CASE Bind
  <2>1. RefCountExact' /\ refs' \in Nat
    BY <1>1 DEF Bind, RefDec, TypeOK, RunningExec, Newborn, Has,
       RefCountExact, Holders, SpawnerRefs, ExecRefs, JoinRefs, WakerRefs, One
  <2>2. RunningExec' /\ Newborn'
    BY <1>1 DEF Bind, RefDec, TypeOK, RunningExec, Newborn, Has
  <2>3. TypeOK'
    BY <1>1, <2>1 DEF Bind, RefDec, TypeOK, Stages, Finished
  <2> QED
    BY <2>1, <2>2, <2>3 DEF RefInv
<1>2. CASE ScheduleNew
  <2>1. RefCountExact' /\ refs' \in Nat
    BY <1>2 DEF ScheduleNew, ScheduleOn, RefDec, TypeOK, RunningExec,
       Newborn, Has, RefCountExact, Holders, SpawnerRefs, ExecRefs, JoinRefs,
       WakerRefs, One
  <2>2. RunningExec' /\ Newborn'
    BY <1>2 DEF ScheduleNew, ScheduleOn, RefDec, TypeOK, RunningExec,
       Newborn, Has
  <2>3. TypeOK'
    BY <1>2, <2>1 DEF ScheduleNew, ScheduleOn, RefDec, TypeOK, Stages,
       Finished
  <2> QED
    BY <2>1, <2>2, <2>3 DEF RefInv
<1>3. CASE ReturnHandle
  <2>1. RefCountExact' /\ refs' \in Nat
    BY <1>3 DEF ReturnHandle, TypeOK, RunningExec, Newborn, Has,
       RefCountExact, Holders, SpawnerRefs, ExecRefs, JoinRefs, WakerRefs, One
  <2>2. RunningExec' /\ Newborn'
    BY <1>3 DEF ReturnHandle, TypeOK, RunningExec, Newborn, Has
  <2>3. TypeOK'
    BY <1>3, <2>1 DEF ReturnHandle, TypeOK, Stages, Finished
  <2> QED
    BY <2>1, <2>2, <2>3 DEF RefInv
<1>4. CASE PopNotified
  <2>1. RefCountExact' /\ refs' \in Nat
    BY <1>4 DEF PopNotified, TypeOK, RunningExec, Newborn, Has,
       RefCountExact, Holders, SpawnerRefs, ExecRefs, JoinRefs, WakerRefs, One
  <2>2. RunningExec' /\ Newborn'
    BY <1>4 DEF PopNotified, TypeOK, RunningExec, Newborn, Has
  <2>3. TypeOK'
    BY <1>4, <2>1 DEF PopNotified, TypeOK, Stages, Finished
  <2> QED
    BY <2>1, <2>2, <2>3 DEF RefInv
<1>5. CASE TransitionToRunning
  <2>1. RefCountExact' /\ refs' \in Nat
    BY <1>5 DEF TransitionToRunning, Has, IsIdle, RefDec, TypeOK,
       RunningExec, Newborn, RefCountExact, Holders, SpawnerRefs, ExecRefs,
       JoinRefs, WakerRefs, One
  <2>2. RunningExec' /\ Newborn'
    BY <1>5 DEF TransitionToRunning, Has, IsIdle, RefDec, TypeOK,
       RunningExec, Newborn
  <2>3. TypeOK'
    BY <1>5, <2>1 DEF TransitionToRunning, Has, IsIdle, RefDec, TypeOK,
       Stages, Finished
  <2> QED
    BY <2>1, <2>2, <2>3 DEF RefInv
<1>6. CASE PollReady
  <2>1. RefCountExact' /\ refs' \in Nat
    BY <1>6 DEF PollReady, TypeOK, RunningExec, Newborn, Has,
       RefCountExact, Holders, SpawnerRefs, ExecRefs, JoinRefs, WakerRefs, One
  <2>2. RunningExec' /\ Newborn'
    BY <1>6 DEF PollReady, TypeOK, RunningExec, Newborn, Has
  <2>3. TypeOK'
    BY <1>6, <2>1 DEF PollReady, TypeOK, Stages, Finished
  <2> QED
    BY <2>1, <2>2, <2>3 DEF RefInv
<1>7. CASE PollPending
  <2>1. RefCountExact' /\ refs' \in Nat
    BY <1>7 DEF PollPending, TypeOK, RunningExec, Newborn, Has,
       RefCountExact, Holders, SpawnerRefs, ExecRefs, JoinRefs, WakerRefs, One
  <2>2. RunningExec' /\ Newborn'
    BY <1>7 DEF PollPending, TypeOK, RunningExec, Newborn, Has
  <2>3. TypeOK'
    BY <1>7, <2>1 DEF PollPending, TypeOK, Stages, Finished
  <2> QED
    BY <2>1, <2>2, <2>3 DEF RefInv
<1>8. CASE TransitionToIdle
  <2>1. RefCountExact' /\ refs' \in Nat
    BY <1>8 DEF TransitionToIdle, Has, RefInc, RefDec, TypeOK, RunningExec,
       Newborn, RefCountExact, Holders, SpawnerRefs, ExecRefs, JoinRefs,
       WakerRefs, One
  <2>2. RunningExec' /\ Newborn'
    BY <1>8 DEF TransitionToIdle, Has, RefInc, RefDec, TypeOK, RunningExec,
       Newborn
  <2>3. TypeOK'
    BY <1>8, <2>1 DEF TransitionToIdle, Has, RefInc, RefDec, TypeOK,
       Stages, Finished
  <2> QED
    BY <2>1, <2>2, <2>3 DEF RefInv
<1>9. CASE YieldNow
  <2>1. RefCountExact' /\ refs' \in Nat
    BY <1>9 DEF YieldNow, TypeOK, RunningExec, Newborn, Has, RefCountExact,
       Holders, SpawnerRefs, ExecRefs, JoinRefs, WakerRefs, One
  <2>2. RunningExec' /\ Newborn'
    BY <1>9 DEF YieldNow, TypeOK, RunningExec, Newborn, Has
  <2>3. TypeOK'
    BY <1>9, <2>1 DEF YieldNow, TypeOK, Stages, Finished
  <2> QED
    BY <2>1, <2>2, <2>3 DEF RefInv
<1>10. CASE DropReference
  <2>1. RefCountExact' /\ refs' \in Nat
    BY <1>10 DEF DropReference, RefDec, TypeOK, RunningExec, Newborn, Has,
       RefCountExact, Holders, SpawnerRefs, ExecRefs, JoinRefs, WakerRefs, One
  <2>2. RunningExec' /\ Newborn'
    BY <1>10 DEF DropReference, RefDec, TypeOK, RunningExec, Newborn, Has
  <2>3. TypeOK'
    BY <1>10, <2>1 DEF DropReference, RefDec, TypeOK, Stages, Finished
  <2> QED
    BY <2>1, <2>2, <2>3 DEF RefInv
<1>11. CASE CancelTask
  <2>1. RefCountExact' /\ refs' \in Nat
    BY <1>11 DEF CancelTask, TypeOK, RunningExec, Newborn, Has,
       RefCountExact, Holders, SpawnerRefs, ExecRefs, JoinRefs, WakerRefs, One
  <2>2. RunningExec' /\ Newborn'
    BY <1>11 DEF CancelTask, TypeOK, RunningExec, Newborn, Has
  <2>3. TypeOK'
    BY <1>11, <2>1 DEF CancelTask, TypeOK, Stages, Finished
  <2> QED
    BY <2>1, <2>2, <2>3 DEF RefInv
<1>12. CASE TransitionToComplete
  <2>1. RefCountExact' /\ refs' \in Nat
    BY <1>12 DEF TransitionToComplete, TypeOK, RunningExec, Newborn, Has,
       RefCountExact, Holders, SpawnerRefs, ExecRefs, JoinRefs, WakerRefs, One
  <2>2. RunningExec' /\ Newborn'
    BY <1>12 DEF TransitionToComplete, TypeOK, RunningExec, Newborn, Has
  <2>3. TypeOK'
    BY <1>12, <2>1 DEF TransitionToComplete, TypeOK, Stages, Finished
  <2> QED
    BY <2>1, <2>2, <2>3 DEF RefInv
<1>13. CASE NotifyJoin
  <2>1. RefCountExact' /\ refs' \in Nat
    BY <1>13 DEF NotifyJoin, TypeOK, RunningExec, Newborn, Has,
       RefCountExact, Holders, SpawnerRefs, ExecRefs, JoinRefs, WakerRefs, One
  <2>2. RunningExec' /\ Newborn'
    BY <1>13 DEF NotifyJoin, TypeOK, RunningExec, Newborn, Has
  <2>3. TypeOK'
    BY <1>13, <2>1 DEF NotifyJoin, TypeOK, Stages, Finished
  <2> QED
    BY <2>1, <2>2, <2>3 DEF RefInv
<1>14. CASE Release
  <2>1. RefCountExact' /\ refs' \in Nat
    BY <1>14 DEF Release, TypeOK, RunningExec, Newborn, Has, RefCountExact,
       Holders, SpawnerRefs, ExecRefs, JoinRefs, WakerRefs, One
  <2>2. RunningExec' /\ Newborn'
    BY <1>14 DEF Release, TypeOK, RunningExec, Newborn, Has
  <2>3. TypeOK'
    BY <1>14, <2>1 DEF Release, TypeOK, Stages, Finished
  <2> QED
    BY <2>1, <2>2, <2>3 DEF RefInv
<1>15. CASE TransitionToTerminal
  <2>1. RefCountExact' /\ refs' \in Nat
    BY <1>15 DEF TransitionToTerminal, RefDec, TypeOK, RunningExec,
       Newborn, Has, RefCountExact, Holders, SpawnerRefs, ExecRefs, JoinRefs,
       WakerRefs, One
  <2>2. RunningExec' /\ Newborn'
    BY <1>15 DEF TransitionToTerminal, RefDec, TypeOK, RunningExec,
       Newborn, Has
  <2>3. TypeOK'
    BY <1>15, <2>1 DEF TransitionToTerminal, RefDec, TypeOK, Stages,
       Finished
  <2> QED
    BY <2>1, <2>2, <2>3 DEF RefInv
<1>16. CASE CloseOwned
  <2>1. RefCountExact' /\ refs' \in Nat
    BY <1>16 DEF CloseOwned, TypeOK, RunningExec, Newborn, Has,
       RefCountExact, Holders, SpawnerRefs, ExecRefs, JoinRefs, WakerRefs, One
  <2>2. RunningExec' /\ Newborn'
    BY <1>16 DEF CloseOwned, TypeOK, RunningExec, Newborn, Has
  <2>3. TypeOK'
    BY <1>16, <2>1 DEF CloseOwned, TypeOK, Stages, Finished
  <2> QED
    BY <2>1, <2>2, <2>3 DEF RefInv
<1>17. CASE PopOwned
  <2>1. RefCountExact' /\ refs' \in Nat
    BY <1>17 DEF PopOwned, TypeOK, RunningExec, Newborn, Has,
       RefCountExact, Holders, SpawnerRefs, ExecRefs, JoinRefs, WakerRefs, One
  <2>2. RunningExec' /\ Newborn'
    BY <1>17 DEF PopOwned, TypeOK, RunningExec, Newborn, Has
  <2>3. TypeOK'
    BY <1>17, <2>1 DEF PopOwned, TypeOK, Stages, Finished
  <2> QED
    BY <2>1, <2>2, <2>3 DEF RefInv
<1>18. CASE TransitionToShutdown
  <2>1. RefCountExact' /\ refs' \in Nat
    BY <1>18 DEF TransitionToShutdown, IsIdle, Has, TypeOK, RunningExec,
       Newborn, RefCountExact, Holders, SpawnerRefs, ExecRefs, JoinRefs,
       WakerRefs, One
  <2>2. RunningExec' /\ Newborn'
    BY <1>18 DEF TransitionToShutdown, IsIdle, Has, TypeOK, RunningExec,
       Newborn
  <2>3. TypeOK'
    BY <1>18, <2>1 DEF TransitionToShutdown, IsIdle, Has, TypeOK, Stages,
       Finished
  <2> QED
    BY <2>1, <2>2, <2>3 DEF RefInv
<1>19. CASE DrainQueue
  <2>1. RefCountExact' /\ refs' \in Nat
    BY <1>19 DEF DrainQueue, RefDec, TypeOK, RunningExec, Newborn, Has,
       RefCountExact, Holders, SpawnerRefs, ExecRefs, JoinRefs, WakerRefs, One
  <2>2. RunningExec' /\ Newborn'
    BY <1>19 DEF DrainQueue, RefDec, TypeOK, RunningExec, Newborn, Has
  <2>3. TypeOK'
    BY <1>19, <2>1 DEF DrainQueue, RefDec, TypeOK, Stages, Finished
  <2> QED
    BY <2>1, <2>2, <2>3 DEF RefInv
<1>20. CASE TakeRemoteQueue
  <2>1. RefCountExact' /\ refs' \in Nat
    BY <1>20 DEF TakeRemoteQueue, TypeOK, RunningExec, Newborn, Has,
       RefCountExact, Holders, SpawnerRefs, ExecRefs, JoinRefs, WakerRefs, One
  <2>2. RunningExec' /\ Newborn'
    BY <1>20 DEF TakeRemoteQueue, TypeOK, RunningExec, Newborn, Has
  <2>3. TypeOK'
    BY <1>20, <2>1 DEF TakeRemoteQueue, TypeOK, Stages, Finished
  <2> QED
    BY <2>1, <2>2, <2>3 DEF RefInv
<1>21. ASSUME NEW w \in JoinWakers, JoinPoll(w) PROVE RefInv'
  <2>1. RefCountExact' /\ refs' \in Nat
    BY <1>21 DEF JoinPoll, Has, TypeOK, RunningExec, Newborn,
       RefCountExact, Holders, SpawnerRefs, ExecRefs, JoinRefs, WakerRefs, One
  <2>2. RunningExec' /\ Newborn'
    BY <1>21 DEF JoinPoll, Has, TypeOK, RunningExec, Newborn
  <2>3. TypeOK'
    BY <1>21, <2>1 DEF JoinPoll, Has, TypeOK, Stages, Finished
  <2> QED
    BY <2>1, <2>2, <2>3 DEF RefInv
<1>22. CASE UnsetWaker
  <2>1. RefCountExact' /\ refs' \in Nat
    BY <1>22 DEF UnsetWaker, Has, TypeOK, RunningExec, Newborn,
       RefCountExact, Holders, SpawnerRefs, ExecRefs, JoinRefs, WakerRefs, One
  <2>2. RunningExec' /\ Newborn'
    BY <1>22 DEF UnsetWaker, Has, TypeOK, RunningExec, Newborn
  <2>3. TypeOK'
    BY <1>22, <2>1 DEF UnsetWaker, Has, TypeOK, Stages, Finished
  <2> QED
    BY <2>1, <2>2, <2>3 DEF RefInv
<1>23. CASE StoreWaker
  <2>1. RefCountExact' /\ refs' \in Nat
    BY <1>23 DEF StoreWaker, TypeOK, RunningExec, Newborn, Has,
       RefCountExact, Holders, SpawnerRefs, ExecRefs, JoinRefs, WakerRefs, One
  <2>2. RunningExec' /\ Newborn'
    BY <1>23 DEF StoreWaker, TypeOK, RunningExec, Newborn, Has
  <2>3. TypeOK'
    BY <1>23, <2>1 DEF StoreWaker, TypeOK, Stages, Finished
  <2> QED
    BY <2>1, <2>2, <2>3 DEF RefInv
<1>24. CASE SetJoinWaker
  <2>1. RefCountExact' /\ refs' \in Nat
    BY <1>24 DEF SetJoinWaker, Has, TypeOK, RunningExec, Newborn,
       RefCountExact, Holders, SpawnerRefs, ExecRefs, JoinRefs, WakerRefs, One
  <2>2. RunningExec' /\ Newborn'
    BY <1>24 DEF SetJoinWaker, Has, TypeOK, RunningExec, Newborn
  <2>3. TypeOK'
    BY <1>24, <2>1 DEF SetJoinWaker, Has, TypeOK, Stages, Finished
  <2> QED
    BY <2>1, <2>2, <2>3 DEF RefInv
<1>25. CASE ClearWaker
  <2>1. RefCountExact' /\ refs' \in Nat
    BY <1>25 DEF ClearWaker, TypeOK, RunningExec, Newborn, Has,
       RefCountExact, Holders, SpawnerRefs, ExecRefs, JoinRefs, WakerRefs, One
  <2>2. RunningExec' /\ Newborn'
    BY <1>25 DEF ClearWaker, TypeOK, RunningExec, Newborn, Has
  <2>3. TypeOK'
    BY <1>25, <2>1 DEF ClearWaker, TypeOK, Stages, Finished
  <2> QED
    BY <2>1, <2>2, <2>3 DEF RefInv
<1>26. CASE TakeOutput
  <2>1. RefCountExact' /\ refs' \in Nat
    BY <1>26 DEF TakeOutput, TypeOK, RunningExec, Newborn, Has,
       RefCountExact, Holders, SpawnerRefs, ExecRefs, JoinRefs, WakerRefs, One
  <2>2. RunningExec' /\ Newborn'
    BY <1>26 DEF TakeOutput, TypeOK, RunningExec, Newborn, Has
  <2>3. TypeOK'
    BY <1>26, <2>1 DEF TakeOutput, TypeOK, Stages, Finished
  <2> QED
    BY <2>1, <2>2, <2>3 DEF RefInv
<1>27. CASE Abort
  <2>1. RefCountExact' /\ refs' \in Nat
    BY <1>27 DEF Abort, Has, IsIdle, RefInc, TypeOK, RunningExec, Newborn,
       RefCountExact, Holders, SpawnerRefs, ExecRefs, JoinRefs, WakerRefs, One
  <2>2. RunningExec' /\ Newborn'
    BY <1>27 DEF Abort, Has, IsIdle, RefInc, TypeOK, RunningExec, Newborn
  <2>3. TypeOK'
    BY <1>27, <2>1 DEF Abort, Has, IsIdle, RefInc, TypeOK, Stages, Finished
  <2> QED
    BY <2>1, <2>2, <2>3 DEF RefInv
<1>28. CASE AbortSchedule
  <2>1. RefCountExact' /\ refs' \in Nat
    BY <1>28 DEF AbortSchedule, ScheduleOn, RefDec, TypeOK, RunningExec,
       Newborn, Has, RefCountExact, Holders, SpawnerRefs, ExecRefs, JoinRefs,
       WakerRefs, One
  <2>2. RunningExec' /\ Newborn'
    BY <1>28 DEF AbortSchedule, ScheduleOn, RefDec, TypeOK, RunningExec,
       Newborn, Has
  <2>3. TypeOK'
    BY <1>28, <2>1 DEF AbortSchedule, ScheduleOn, RefDec, TypeOK, Stages,
       Finished
  <2> QED
    BY <2>1, <2>2, <2>3 DEF RefInv
<1>29. CASE DropJoinHandleFast
  <2>1. RefCountExact' /\ refs' \in Nat
    BY <1>29 DEF DropJoinHandleFast, InitialBits, InitialRefs, TypeOK,
       RunningExec, Newborn, Has, RefCountExact, Holders, SpawnerRefs,
       ExecRefs, JoinRefs, WakerRefs, One
  <2>2. RunningExec' /\ Newborn'
    BY <1>29 DEF DropJoinHandleFast, InitialBits, InitialRefs, TypeOK,
       RunningExec, Newborn, Has
  <2>3. TypeOK'
    BY <1>29, <2>1 DEF DropJoinHandleFast, InitialBits, InitialRefs,
       TypeOK, Stages, Finished
  <2> QED
    BY <2>1, <2>2, <2>3 DEF RefInv
<1>30. CASE UnsetJoinInterested
  <2>1. RefCountExact' /\ refs' \in Nat
    BY <1>30 DEF UnsetJoinInterested, Has, TypeOK, RunningExec, Newborn,
       RefCountExact, Holders, SpawnerRefs, ExecRefs, JoinRefs, WakerRefs, One
  <2>2. RunningExec' /\ Newborn'
    BY <1>30 DEF UnsetJoinInterested, Has, TypeOK, RunningExec, Newborn
  <2>3. TypeOK'
    BY <1>30, <2>1 DEF UnsetJoinInterested, Has, TypeOK, Stages, Finished
  <2> QED
    BY <2>1, <2>2, <2>3 DEF RefInv
<1>31. CASE DropOutput
  <2>1. RefCountExact' /\ refs' \in Nat
    BY <1>31 DEF DropOutput, TypeOK, RunningExec, Newborn, Has,
       RefCountExact, Holders, SpawnerRefs, ExecRefs, JoinRefs, WakerRefs, One
  <2>2. RunningExec' /\ Newborn'
    BY <1>31 DEF DropOutput, TypeOK, RunningExec, Newborn, Has
  <2>3. TypeOK'
    BY <1>31, <2>1 DEF DropOutput, TypeOK, Stages, Finished
  <2> QED
    BY <2>1, <2>2, <2>3 DEF RefInv
<1>32. CASE JoinDropReference
  <2>1. RefCountExact' /\ refs' \in Nat
    BY <1>32 DEF JoinDropReference, RefDec, TypeOK, RunningExec, Newborn,
       Has, RefCountExact, Holders, SpawnerRefs, ExecRefs, JoinRefs,
       WakerRefs, One
  <2>2. RunningExec' /\ Newborn'
    BY <1>32 DEF JoinDropReference, RefDec, TypeOK, RunningExec, Newborn,
       Has
  <2>3. TypeOK'
    BY <1>32, <2>1 DEF JoinDropReference, RefDec, TypeOK, Stages, Finished
  <2> QED
    BY <2>1, <2>2, <2>3 DEF RefInv
<1>33. CASE CloneWaker
  <2>1. RefCountExact' /\ refs' \in Nat
    BY <1>33 DEF CloneWaker, RefInc, TypeOK, RunningExec, Newborn, Has,
       RefCountExact, Holders, SpawnerRefs, ExecRefs, JoinRefs, WakerRefs, One
  <2>2. RunningExec' /\ Newborn'
    BY <1>33 DEF CloneWaker, RefInc, TypeOK, RunningExec, Newborn, Has
  <2>3. TypeOK'
    BY <1>33, <2>1 DEF CloneWaker, RefInc, TypeOK, Stages, Finished
  <2> QED
    BY <2>1, <2>2, <2>3 DEF RefInv
<1>34. CASE DropWaker
  <2>1. RefCountExact' /\ refs' \in Nat
    BY <1>34 DEF DropWaker, RefDec, TypeOK, RunningExec, Newborn, Has,
       RefCountExact, Holders, SpawnerRefs, ExecRefs, JoinRefs, WakerRefs, One
  <2>2. RunningExec' /\ Newborn'
    BY <1>34 DEF DropWaker, RefDec, TypeOK, RunningExec, Newborn, Has
  <2>3. TypeOK'
    BY <1>34, <2>1 DEF DropWaker, RefDec, TypeOK, Stages, Finished
  <2> QED
    BY <2>1, <2>2, <2>3 DEF RefInv
<1>35. CASE WakeByVal
  <2>1. RefCountExact' /\ refs' \in Nat
    BY <1>35 DEF WakeByVal, Has, IsIdle, RefInc, RefDec, TypeOK,
       RunningExec, Newborn, RefCountExact, Holders, SpawnerRefs, ExecRefs,
       JoinRefs, WakerRefs, One
  <2>2. RunningExec' /\ Newborn'
    BY <1>35 DEF WakeByVal, Has, IsIdle, RefInc, RefDec, TypeOK,
       RunningExec, Newborn
  <2>3. TypeOK'
    BY <1>35, <2>1 DEF WakeByVal, Has, IsIdle, RefInc, RefDec, TypeOK,
       Stages, Finished
  <2> QED
    BY <2>1, <2>2, <2>3 DEF RefInv
<1>36. CASE SubmitByVal
  <2>1. RefCountExact' /\ refs' \in Nat
    BY <1>36 DEF SubmitByVal, ScheduleOn, RefDec, TypeOK, RunningExec,
       Newborn, Has, RefCountExact, Holders, SpawnerRefs, ExecRefs, JoinRefs,
       WakerRefs, One
  <2>2. RunningExec' /\ Newborn'
    BY <1>36 DEF SubmitByVal, ScheduleOn, RefDec, TypeOK, RunningExec,
       Newborn, Has
  <2>3. TypeOK'
    BY <1>36, <2>1 DEF SubmitByVal, ScheduleOn, RefDec, TypeOK, Stages,
       Finished
  <2> QED
    BY <2>1, <2>2, <2>3 DEF RefInv
<1>37. CASE DropAfterSubmit
  <2>1. RefCountExact' /\ refs' \in Nat
    BY <1>37 DEF DropAfterSubmit, RefDec, TypeOK, RunningExec, Newborn,
       Has, RefCountExact, Holders, SpawnerRefs, ExecRefs, JoinRefs,
       WakerRefs, One
  <2>2. RunningExec' /\ Newborn'
    BY <1>37 DEF DropAfterSubmit, RefDec, TypeOK, RunningExec, Newborn, Has
  <2>3. TypeOK'
    BY <1>37, <2>1 DEF DropAfterSubmit, RefDec, TypeOK, Stages, Finished
  <2> QED
    BY <2>1, <2>2, <2>3 DEF RefInv
<1>38. CASE WakeByRef
  <2>1. RefCountExact' /\ refs' \in Nat
    BY <1>38 DEF WakeByRef, Has, RefInc, TypeOK, RunningExec, Newborn,
       RefCountExact, Holders, SpawnerRefs, ExecRefs, JoinRefs, WakerRefs, One
  <2>2. RunningExec' /\ Newborn'
    BY <1>38 DEF WakeByRef, Has, RefInc, TypeOK, RunningExec, Newborn
  <2>3. TypeOK'
    BY <1>38, <2>1 DEF WakeByRef, Has, RefInc, TypeOK, Stages, Finished
  <2> QED
    BY <2>1, <2>2, <2>3 DEF RefInv
<1>39. CASE SubmitByRef
  <2>1. RefCountExact' /\ refs' \in Nat
    BY <1>39 DEF SubmitByRef, ScheduleOn, RefDec, TypeOK, RunningExec,
       Newborn, Has, RefCountExact, Holders, SpawnerRefs, ExecRefs, JoinRefs,
       WakerRefs, One
  <2>2. RunningExec' /\ Newborn'
    BY <1>39 DEF SubmitByRef, ScheduleOn, RefDec, TypeOK, RunningExec,
       Newborn, Has
  <2>3. TypeOK'
    BY <1>39, <2>1 DEF SubmitByRef, ScheduleOn, RefDec, TypeOK, Stages,
       Finished
  <2> QED
    BY <2>1, <2>2, <2>3 DEF RefInv
<1>40. CASE UNCHANGED vars
  BY <1>40 DEF vars, RefInv, TypeOK, RunningExec, Newborn, Has,
     RefCountExact, Holders, SpawnerRefs, ExecRefs, JoinRefs, WakerRefs, One,
     Stages, Finished
<1> QED
  BY <1>1, <1>2, <1>3, <1>4, <1>5, <1>6, <1>7, <1>8, <1>9, <1>10, <1>11,
     <1>12, <1>13, <1>14, <1>15, <1>16, <1>17, <1>18, <1>19, <1>20, <1>21,
     <1>22, <1>23, <1>24, <1>25, <1>26, <1>27, <1>28, <1>29, <1>30, <1>31,
     <1>32, <1>33, <1>34, <1>35, <1>36, <1>37, <1>38, <1>39, <1>40 DEF Next,
     SpawnStep, PollStep, ExecStep, DropStep, JoinStep, JoinCall, WakeStep,
     WakeCall

\* TypeOK: the fields of the cell and the places of the threads keep their
\* kinds, and the reference count never falls below zero.
THEOREM TypeCorrect == Spec => []TypeOK
<1>1. RefInv => TypeOK
  BY DEF RefInv
<1> QED
  BY <1>1, RefInit, RefStep, PTL DEF Spec

\* No use after free, no double free, no leak: the cell is freed when, and
\* only when, the last reference to it is given up.
THEOREM ReferencesExact == Spec => []RefCountExact
<1>1. RefInv => RefCountExact
  BY DEF RefInv
<1> QED
  BY <1>1, RefInit, RefStep, PTL DEF Spec

-----------------------------------------------------------------------------
(* Notifications *)

\* While the future is polled no Notified exists: the wakes of that time are
\* kept in the bit, for transition_to_idle to find.
PolledUnqueued == epc \in {"poll", "idle"} => Notifieds = 0

NotifyInv == SingleNotified /\ NoLostWakeup /\ PolledUnqueued

\* NotifyInit: at first the only Notified is with the spawner.
LEMMA NotifyInit == Init => NotifyInv
  BY  DEF Init, NotifyInv, SingleNotified, NoLostWakeup, PolledUnqueued,
     Notifieds, One, Has, InitialBits

\* NotifyStep: a Notified is made when NOTIFIED is set by an idle task's waker
\* and used up when the task starts to run.
LEMMA NotifyStep == RefInv /\ NotifyInv /\ [Next]_vars => NotifyInv'
<1> SUFFICES ASSUME RefInv, NotifyInv, [Next]_vars PROVE NotifyInv'
  OBVIOUS
<1> USE DEF NotifyInv
<1>a. TypeOK /\ RunningExec /\ Newborn
  BY DEF RefInv
<1>1. CASE Bind
  <2>1. SingleNotified'
    BY <1>1, <1>a DEF Bind, RefDec, TypeOK, RunningExec, Newborn, Has,
       IsIdle, SingleNotified, Notifieds, One, PolledUnqueued
  <2>2. NoLostWakeup'
    BY <1>1, <1>a DEF Bind, RefDec, TypeOK, RunningExec, Newborn, Has,
       IsIdle, SingleNotified, Notifieds, One, NoLostWakeup, PolledUnqueued
  <2>3. PolledUnqueued'
    BY <1>1, <1>a DEF Bind, RefDec, TypeOK, RunningExec, Newborn, Has,
       IsIdle, SingleNotified, Notifieds, One, PolledUnqueued
  <2> QED
    BY <2>1, <2>2, <2>3 DEF NotifyInv
<1>2. CASE ScheduleNew
  <2>1. SingleNotified'
    BY <1>2, <1>a DEF ScheduleNew, ScheduleOn, RefDec, TypeOK, RunningExec,
       Newborn, Has, IsIdle, SingleNotified, Notifieds, One, PolledUnqueued
  <2>2. NoLostWakeup'
    BY <1>2, <1>a DEF ScheduleNew, ScheduleOn, RefDec, TypeOK, RunningExec,
       Newborn, Has, IsIdle, SingleNotified, Notifieds, One, NoLostWakeup,
       PolledUnqueued
  <2>3. PolledUnqueued'
    BY <1>2, <1>a DEF ScheduleNew, ScheduleOn, RefDec, TypeOK, RunningExec,
       Newborn, Has, IsIdle, SingleNotified, Notifieds, One, PolledUnqueued
  <2> QED
    BY <2>1, <2>2, <2>3 DEF NotifyInv
<1>3. CASE ReturnHandle
  <2>1. SingleNotified'
    BY <1>3, <1>a DEF ReturnHandle, TypeOK, RunningExec, Newborn, Has,
       IsIdle, SingleNotified, Notifieds, One, PolledUnqueued
  <2>2. NoLostWakeup'
    BY <1>3, <1>a DEF ReturnHandle, TypeOK, RunningExec, Newborn, Has,
       IsIdle, SingleNotified, Notifieds, One, NoLostWakeup, PolledUnqueued
  <2>3. PolledUnqueued'
    BY <1>3, <1>a DEF ReturnHandle, TypeOK, RunningExec, Newborn, Has,
       IsIdle, SingleNotified, Notifieds, One, PolledUnqueued
  <2> QED
    BY <2>1, <2>2, <2>3 DEF NotifyInv
<1>4. CASE PopNotified
  <2>1. SingleNotified'
    BY <1>4, <1>a DEF PopNotified, TypeOK, RunningExec, Newborn, Has,
       IsIdle, SingleNotified, Notifieds, One, PolledUnqueued
  <2>2. NoLostWakeup'
    BY <1>4, <1>a DEF PopNotified, TypeOK, RunningExec, Newborn, Has,
       IsIdle, SingleNotified, Notifieds, One, NoLostWakeup, PolledUnqueued
  <2>3. PolledUnqueued'
    BY <1>4, <1>a DEF PopNotified, TypeOK, RunningExec, Newborn, Has,
       IsIdle, SingleNotified, Notifieds, One, PolledUnqueued
  <2> QED
    BY <2>1, <2>2, <2>3 DEF NotifyInv
<1>5. CASE TransitionToRunning
  <2>1. SingleNotified'
    BY <1>5, <1>a DEF TransitionToRunning, Has, IsIdle, RefDec, TypeOK,
       RunningExec, Newborn, SingleNotified, Notifieds, One, PolledUnqueued
  <2>2. NoLostWakeup'
    BY <1>5, <1>a DEF TransitionToRunning, Has, IsIdle, RefDec, TypeOK,
       RunningExec, Newborn, SingleNotified, Notifieds, One, NoLostWakeup,
       PolledUnqueued
  <2>3. PolledUnqueued'
    BY <1>5, <1>a DEF TransitionToRunning, Has, IsIdle, RefDec, TypeOK,
       RunningExec, Newborn, SingleNotified, Notifieds, One, PolledUnqueued
  <2> QED
    BY <2>1, <2>2, <2>3 DEF NotifyInv
<1>6. CASE PollReady
  <2>1. SingleNotified'
    BY <1>6, <1>a DEF PollReady, TypeOK, RunningExec, Newborn, Has, IsIdle,
       SingleNotified, Notifieds, One, PolledUnqueued
  <2>2. NoLostWakeup'
    BY <1>6, <1>a DEF PollReady, TypeOK, RunningExec, Newborn, Has, IsIdle,
       SingleNotified, Notifieds, One, NoLostWakeup, PolledUnqueued
  <2>3. PolledUnqueued'
    BY <1>6, <1>a DEF PollReady, TypeOK, RunningExec, Newborn, Has, IsIdle,
       SingleNotified, Notifieds, One, PolledUnqueued
  <2> QED
    BY <2>1, <2>2, <2>3 DEF NotifyInv
<1>7. CASE PollPending
  <2>1. SingleNotified'
    BY <1>7, <1>a DEF PollPending, TypeOK, RunningExec, Newborn, Has,
       IsIdle, SingleNotified, Notifieds, One, PolledUnqueued
  <2>2. NoLostWakeup'
    BY <1>7, <1>a DEF PollPending, TypeOK, RunningExec, Newborn, Has,
       IsIdle, SingleNotified, Notifieds, One, NoLostWakeup, PolledUnqueued
  <2>3. PolledUnqueued'
    BY <1>7, <1>a DEF PollPending, TypeOK, RunningExec, Newborn, Has,
       IsIdle, SingleNotified, Notifieds, One, PolledUnqueued
  <2> QED
    BY <2>1, <2>2, <2>3 DEF NotifyInv
<1>8. CASE TransitionToIdle
  <2>1. SingleNotified'
    BY <1>8, <1>a DEF TransitionToIdle, Has, RefInc, RefDec, TypeOK,
       RunningExec, Newborn, IsIdle, SingleNotified, Notifieds, One,
       PolledUnqueued
  <2>2. NoLostWakeup'
    BY <1>8, <1>a DEF TransitionToIdle, Has, RefInc, RefDec, TypeOK,
       RunningExec, Newborn, IsIdle, SingleNotified, Notifieds, One,
       NoLostWakeup, PolledUnqueued
  <2>3. PolledUnqueued'
    BY <1>8, <1>a DEF TransitionToIdle, Has, RefInc, RefDec, TypeOK,
       RunningExec, Newborn, IsIdle, SingleNotified, Notifieds, One,
       PolledUnqueued
  <2> QED
    BY <2>1, <2>2, <2>3 DEF NotifyInv
<1>9. CASE YieldNow
  <2>1. SingleNotified'
    BY <1>9, <1>a DEF YieldNow, TypeOK, RunningExec, Newborn, Has, IsIdle,
       SingleNotified, Notifieds, One, PolledUnqueued
  <2>2. NoLostWakeup'
    BY <1>9, <1>a DEF YieldNow, TypeOK, RunningExec, Newborn, Has, IsIdle,
       SingleNotified, Notifieds, One, NoLostWakeup, PolledUnqueued
  <2>3. PolledUnqueued'
    BY <1>9, <1>a DEF YieldNow, TypeOK, RunningExec, Newborn, Has, IsIdle,
       SingleNotified, Notifieds, One, PolledUnqueued
  <2> QED
    BY <2>1, <2>2, <2>3 DEF NotifyInv
<1>10. CASE DropReference
  <2>1. SingleNotified'
    BY <1>10, <1>a DEF DropReference, RefDec, TypeOK, RunningExec, Newborn,
       Has, IsIdle, SingleNotified, Notifieds, One, PolledUnqueued
  <2>2. NoLostWakeup'
    BY <1>10, <1>a DEF DropReference, RefDec, TypeOK, RunningExec, Newborn,
       Has, IsIdle, SingleNotified, Notifieds, One, NoLostWakeup,
       PolledUnqueued
  <2>3. PolledUnqueued'
    BY <1>10, <1>a DEF DropReference, RefDec, TypeOK, RunningExec, Newborn,
       Has, IsIdle, SingleNotified, Notifieds, One, PolledUnqueued
  <2> QED
    BY <2>1, <2>2, <2>3 DEF NotifyInv
<1>11. CASE CancelTask
  <2>1. SingleNotified'
    BY <1>11, <1>a DEF CancelTask, TypeOK, RunningExec, Newborn, Has,
       IsIdle, SingleNotified, Notifieds, One, PolledUnqueued
  <2>2. NoLostWakeup'
    BY <1>11, <1>a DEF CancelTask, TypeOK, RunningExec, Newborn, Has,
       IsIdle, SingleNotified, Notifieds, One, NoLostWakeup, PolledUnqueued
  <2>3. PolledUnqueued'
    BY <1>11, <1>a DEF CancelTask, TypeOK, RunningExec, Newborn, Has,
       IsIdle, SingleNotified, Notifieds, One, PolledUnqueued
  <2> QED
    BY <2>1, <2>2, <2>3 DEF NotifyInv
<1>12. CASE TransitionToComplete
  <2>1. SingleNotified'
    BY <1>12, <1>a DEF TransitionToComplete, TypeOK, RunningExec, Newborn,
       Has, IsIdle, SingleNotified, Notifieds, One, PolledUnqueued
  <2>2. NoLostWakeup'
    BY <1>12, <1>a DEF TransitionToComplete, TypeOK, RunningExec, Newborn,
       Has, IsIdle, SingleNotified, Notifieds, One, NoLostWakeup,
       PolledUnqueued
  <2>3. PolledUnqueued'
    BY <1>12, <1>a DEF TransitionToComplete, TypeOK, RunningExec, Newborn,
       Has, IsIdle, SingleNotified, Notifieds, One, PolledUnqueued
  <2> QED
    BY <2>1, <2>2, <2>3 DEF NotifyInv
<1>13. CASE NotifyJoin
  <2>1. SingleNotified'
    BY <1>13, <1>a DEF NotifyJoin, TypeOK, RunningExec, Newborn, Has,
       IsIdle, SingleNotified, Notifieds, One, PolledUnqueued
  <2>2. NoLostWakeup'
    BY <1>13, <1>a DEF NotifyJoin, TypeOK, RunningExec, Newborn, Has,
       IsIdle, SingleNotified, Notifieds, One, NoLostWakeup, PolledUnqueued
  <2>3. PolledUnqueued'
    BY <1>13, <1>a DEF NotifyJoin, TypeOK, RunningExec, Newborn, Has,
       IsIdle, SingleNotified, Notifieds, One, PolledUnqueued
  <2> QED
    BY <2>1, <2>2, <2>3 DEF NotifyInv
<1>14. CASE Release
  <2>1. SingleNotified'
    BY <1>14, <1>a DEF Release, TypeOK, RunningExec, Newborn, Has, IsIdle,
       SingleNotified, Notifieds, One, PolledUnqueued
  <2>2. NoLostWakeup'
    BY <1>14, <1>a DEF Release, TypeOK, RunningExec, Newborn, Has, IsIdle,
       SingleNotified, Notifieds, One, NoLostWakeup, PolledUnqueued
  <2>3. PolledUnqueued'
    BY <1>14, <1>a DEF Release, TypeOK, RunningExec, Newborn, Has, IsIdle,
       SingleNotified, Notifieds, One, PolledUnqueued
  <2> QED
    BY <2>1, <2>2, <2>3 DEF NotifyInv
<1>15. CASE TransitionToTerminal
  <2>1. SingleNotified'
    BY <1>15, <1>a DEF TransitionToTerminal, RefDec, TypeOK, RunningExec,
       Newborn, Has, IsIdle, SingleNotified, Notifieds, One, PolledUnqueued
  <2>2. NoLostWakeup'
    BY <1>15, <1>a DEF TransitionToTerminal, RefDec, TypeOK, RunningExec,
       Newborn, Has, IsIdle, SingleNotified, Notifieds, One, NoLostWakeup,
       PolledUnqueued
  <2>3. PolledUnqueued'
    BY <1>15, <1>a DEF TransitionToTerminal, RefDec, TypeOK, RunningExec,
       Newborn, Has, IsIdle, SingleNotified, Notifieds, One, PolledUnqueued
  <2> QED
    BY <2>1, <2>2, <2>3 DEF NotifyInv
<1>16. CASE CloseOwned
  <2>1. SingleNotified'
    BY <1>16, <1>a DEF CloseOwned, TypeOK, RunningExec, Newborn, Has,
       IsIdle, SingleNotified, Notifieds, One, PolledUnqueued
  <2>2. NoLostWakeup'
    BY <1>16, <1>a DEF CloseOwned, TypeOK, RunningExec, Newborn, Has,
       IsIdle, SingleNotified, Notifieds, One, NoLostWakeup, PolledUnqueued
  <2>3. PolledUnqueued'
    BY <1>16, <1>a DEF CloseOwned, TypeOK, RunningExec, Newborn, Has,
       IsIdle, SingleNotified, Notifieds, One, PolledUnqueued
  <2> QED
    BY <2>1, <2>2, <2>3 DEF NotifyInv
<1>17. CASE PopOwned
  <2>1. SingleNotified'
    BY <1>17, <1>a DEF PopOwned, TypeOK, RunningExec, Newborn, Has, IsIdle,
       SingleNotified, Notifieds, One, PolledUnqueued
  <2>2. NoLostWakeup'
    BY <1>17, <1>a DEF PopOwned, TypeOK, RunningExec, Newborn, Has, IsIdle,
       SingleNotified, Notifieds, One, NoLostWakeup, PolledUnqueued
  <2>3. PolledUnqueued'
    BY <1>17, <1>a DEF PopOwned, TypeOK, RunningExec, Newborn, Has, IsIdle,
       SingleNotified, Notifieds, One, PolledUnqueued
  <2> QED
    BY <2>1, <2>2, <2>3 DEF NotifyInv
<1>18. CASE TransitionToShutdown
  <2>1. SingleNotified'
    BY <1>18, <1>a DEF TransitionToShutdown, IsIdle, Has, TypeOK,
       RunningExec, Newborn, SingleNotified, Notifieds, One, PolledUnqueued
  <2>2. NoLostWakeup'
    BY <1>18, <1>a DEF TransitionToShutdown, IsIdle, Has, TypeOK,
       RunningExec, Newborn, SingleNotified, Notifieds, One, NoLostWakeup,
       PolledUnqueued
  <2>3. PolledUnqueued'
    BY <1>18, <1>a DEF TransitionToShutdown, IsIdle, Has, TypeOK,
       RunningExec, Newborn, SingleNotified, Notifieds, One, PolledUnqueued
  <2> QED
    BY <2>1, <2>2, <2>3 DEF NotifyInv
<1>19. CASE DrainQueue
  <2>1. SingleNotified'
    BY <1>19, <1>a DEF DrainQueue, RefDec, TypeOK, RunningExec, Newborn,
       Has, IsIdle, SingleNotified, Notifieds, One, PolledUnqueued
  <2>2. NoLostWakeup'
    BY <1>19, <1>a DEF DrainQueue, RefDec, TypeOK, RunningExec, Newborn,
       Has, IsIdle, SingleNotified, Notifieds, One, NoLostWakeup,
       PolledUnqueued
  <2>3. PolledUnqueued'
    BY <1>19, <1>a DEF DrainQueue, RefDec, TypeOK, RunningExec, Newborn,
       Has, IsIdle, SingleNotified, Notifieds, One, PolledUnqueued
  <2> QED
    BY <2>1, <2>2, <2>3 DEF NotifyInv
<1>20. CASE TakeRemoteQueue
  <2>1. SingleNotified'
    BY <1>20, <1>a DEF TakeRemoteQueue, TypeOK, RunningExec, Newborn, Has,
       IsIdle, SingleNotified, Notifieds, One, PolledUnqueued
  <2>2. NoLostWakeup'
    BY <1>20, <1>a DEF TakeRemoteQueue, TypeOK, RunningExec, Newborn, Has,
       IsIdle, SingleNotified, Notifieds, One, NoLostWakeup, PolledUnqueued
  <2>3. PolledUnqueued'
    BY <1>20, <1>a DEF TakeRemoteQueue, TypeOK, RunningExec, Newborn, Has,
       IsIdle, SingleNotified, Notifieds, One, PolledUnqueued
  <2> QED
    BY <2>1, <2>2, <2>3 DEF NotifyInv
<1>21. ASSUME NEW w \in JoinWakers, JoinPoll(w) PROVE NotifyInv'
  <2>1. SingleNotified'
    BY <1>21, <1>a DEF JoinPoll, Has, TypeOK, RunningExec, Newborn, IsIdle,
       SingleNotified, Notifieds, One, PolledUnqueued
  <2>2. NoLostWakeup'
    BY <1>21, <1>a DEF JoinPoll, Has, TypeOK, RunningExec, Newborn, IsIdle,
       SingleNotified, Notifieds, One, NoLostWakeup, PolledUnqueued
  <2>3. PolledUnqueued'
    BY <1>21, <1>a DEF JoinPoll, Has, TypeOK, RunningExec, Newborn, IsIdle,
       SingleNotified, Notifieds, One, PolledUnqueued
  <2> QED
    BY <2>1, <2>2, <2>3 DEF NotifyInv
<1>22. CASE UnsetWaker
  <2>1. SingleNotified'
    BY <1>22, <1>a DEF UnsetWaker, Has, TypeOK, RunningExec, Newborn,
       IsIdle, SingleNotified, Notifieds, One, PolledUnqueued
  <2>2. NoLostWakeup'
    BY <1>22, <1>a DEF UnsetWaker, Has, TypeOK, RunningExec, Newborn,
       IsIdle, SingleNotified, Notifieds, One, NoLostWakeup, PolledUnqueued
  <2>3. PolledUnqueued'
    BY <1>22, <1>a DEF UnsetWaker, Has, TypeOK, RunningExec, Newborn,
       IsIdle, SingleNotified, Notifieds, One, PolledUnqueued
  <2> QED
    BY <2>1, <2>2, <2>3 DEF NotifyInv
<1>23. CASE StoreWaker
  <2>1. SingleNotified'
    BY <1>23, <1>a DEF StoreWaker, TypeOK, RunningExec, Newborn, Has,
       IsIdle, SingleNotified, Notifieds, One, PolledUnqueued
  <2>2. NoLostWakeup'
    BY <1>23, <1>a DEF StoreWaker, TypeOK, RunningExec, Newborn, Has,
       IsIdle, SingleNotified, Notifieds, One, NoLostWakeup, PolledUnqueued
  <2>3. PolledUnqueued'
    BY <1>23, <1>a DEF StoreWaker, TypeOK, RunningExec, Newborn, Has,
       IsIdle, SingleNotified, Notifieds, One, PolledUnqueued
  <2> QED
    BY <2>1, <2>2, <2>3 DEF NotifyInv
<1>24. CASE SetJoinWaker
  <2>1. SingleNotified'
    BY <1>24, <1>a DEF SetJoinWaker, Has, TypeOK, RunningExec, Newborn,
       IsIdle, SingleNotified, Notifieds, One, PolledUnqueued
  <2>2. NoLostWakeup'
    BY <1>24, <1>a DEF SetJoinWaker, Has, TypeOK, RunningExec, Newborn,
       IsIdle, SingleNotified, Notifieds, One, NoLostWakeup, PolledUnqueued
  <2>3. PolledUnqueued'
    BY <1>24, <1>a DEF SetJoinWaker, Has, TypeOK, RunningExec, Newborn,
       IsIdle, SingleNotified, Notifieds, One, PolledUnqueued
  <2> QED
    BY <2>1, <2>2, <2>3 DEF NotifyInv
<1>25. CASE ClearWaker
  <2>1. SingleNotified'
    BY <1>25, <1>a DEF ClearWaker, TypeOK, RunningExec, Newborn, Has,
       IsIdle, SingleNotified, Notifieds, One, PolledUnqueued
  <2>2. NoLostWakeup'
    BY <1>25, <1>a DEF ClearWaker, TypeOK, RunningExec, Newborn, Has,
       IsIdle, SingleNotified, Notifieds, One, NoLostWakeup, PolledUnqueued
  <2>3. PolledUnqueued'
    BY <1>25, <1>a DEF ClearWaker, TypeOK, RunningExec, Newborn, Has,
       IsIdle, SingleNotified, Notifieds, One, PolledUnqueued
  <2> QED
    BY <2>1, <2>2, <2>3 DEF NotifyInv
<1>26. CASE TakeOutput
  <2>1. SingleNotified'
    BY <1>26, <1>a DEF TakeOutput, TypeOK, RunningExec, Newborn, Has,
       IsIdle, SingleNotified, Notifieds, One, PolledUnqueued
  <2>2. NoLostWakeup'
    BY <1>26, <1>a DEF TakeOutput, TypeOK, RunningExec, Newborn, Has,
       IsIdle, SingleNotified, Notifieds, One, NoLostWakeup, PolledUnqueued
  <2>3. PolledUnqueued'
    BY <1>26, <1>a DEF TakeOutput, TypeOK, RunningExec, Newborn, Has,
       IsIdle, SingleNotified, Notifieds, One, PolledUnqueued
  <2> QED
    BY <2>1, <2>2, <2>3 DEF NotifyInv
<1>27. CASE Abort
  <2>1. SingleNotified'
    BY <1>27, <1>a DEF Abort, Has, IsIdle, RefInc, TypeOK, RunningExec,
       Newborn, SingleNotified, Notifieds, One, PolledUnqueued
  <2>2. NoLostWakeup'
    BY <1>27, <1>a DEF Abort, Has, IsIdle, RefInc, TypeOK, RunningExec,
       Newborn, SingleNotified, Notifieds, One, NoLostWakeup, PolledUnqueued
  <2>3. PolledUnqueued'
    BY <1>27, <1>a DEF Abort, Has, IsIdle, RefInc, TypeOK, RunningExec,
       Newborn, SingleNotified, Notifieds, One, PolledUnqueued
  <2> QED
    BY <2>1, <2>2, <2>3 DEF NotifyInv
<1>28. CASE AbortSchedule
  <2>1. SingleNotified'
    BY <1>28, <1>a DEF AbortSchedule, ScheduleOn, RefDec, TypeOK,
       RunningExec, Newborn, Has, IsIdle, SingleNotified, Notifieds, One,
       PolledUnqueued
  <2>2. NoLostWakeup'
    BY <1>28, <1>a DEF AbortSchedule, ScheduleOn, RefDec, TypeOK,
       RunningExec, Newborn, Has, IsIdle, SingleNotified, Notifieds, One,
       NoLostWakeup, PolledUnqueued
  <2>3. PolledUnqueued'
    BY <1>28, <1>a DEF AbortSchedule, ScheduleOn, RefDec, TypeOK,
       RunningExec, Newborn, Has, IsIdle, SingleNotified, Notifieds, One,
       PolledUnqueued
  <2> QED
    BY <2>1, <2>2, <2>3 DEF NotifyInv
<1>29. CASE DropJoinHandleFast
  <2>1. SingleNotified'
    BY <1>29, <1>a DEF DropJoinHandleFast, InitialBits, InitialRefs,
       TypeOK, RunningExec, Newborn, Has, IsIdle, SingleNotified, Notifieds,
       One, PolledUnqueued
  <2>2. NoLostWakeup'
    BY <1>29, <1>a DEF DropJoinHandleFast, InitialBits, InitialRefs,
       TypeOK, RunningExec, Newborn, Has, IsIdle, SingleNotified, Notifieds,
       One, NoLostWakeup, PolledUnqueued
  <2>3. PolledUnqueued'
    BY <1>29, <1>a DEF DropJoinHandleFast, InitialBits, InitialRefs,
       TypeOK, RunningExec, Newborn, Has, IsIdle, SingleNotified, Notifieds,
       One, PolledUnqueued
  <2> QED
    BY <2>1, <2>2, <2>3 DEF NotifyInv
<1>30. CASE UnsetJoinInterested
  <2>1. SingleNotified'
    BY <1>30, <1>a DEF UnsetJoinInterested, Has, TypeOK, RunningExec,
       Newborn, IsIdle, SingleNotified, Notifieds, One, PolledUnqueued
  <2>2. NoLostWakeup'
    BY <1>30, <1>a DEF UnsetJoinInterested, Has, TypeOK, RunningExec,
       Newborn, IsIdle, SingleNotified, Notifieds, One, NoLostWakeup,
       PolledUnqueued
  <2>3. PolledUnqueued'
    BY <1>30, <1>a DEF UnsetJoinInterested, Has, TypeOK, RunningExec,
       Newborn, IsIdle, SingleNotified, Notifieds, One, PolledUnqueued
  <2> QED
    BY <2>1, <2>2, <2>3 DEF NotifyInv
<1>31. CASE DropOutput
  <2>1. SingleNotified'
    BY <1>31, <1>a DEF DropOutput, TypeOK, RunningExec, Newborn, Has,
       IsIdle, SingleNotified, Notifieds, One, PolledUnqueued
  <2>2. NoLostWakeup'
    BY <1>31, <1>a DEF DropOutput, TypeOK, RunningExec, Newborn, Has,
       IsIdle, SingleNotified, Notifieds, One, NoLostWakeup, PolledUnqueued
  <2>3. PolledUnqueued'
    BY <1>31, <1>a DEF DropOutput, TypeOK, RunningExec, Newborn, Has,
       IsIdle, SingleNotified, Notifieds, One, PolledUnqueued
  <2> QED
    BY <2>1, <2>2, <2>3 DEF NotifyInv
<1>32. CASE JoinDropReference
  <2>1. SingleNotified'
    BY <1>32, <1>a DEF JoinDropReference, RefDec, TypeOK, RunningExec,
       Newborn, Has, IsIdle, SingleNotified, Notifieds, One, PolledUnqueued
  <2>2. NoLostWakeup'
    BY <1>32, <1>a DEF JoinDropReference, RefDec, TypeOK, RunningExec,
       Newborn, Has, IsIdle, SingleNotified, Notifieds, One, NoLostWakeup,
       PolledUnqueued
  <2>3. PolledUnqueued'
    BY <1>32, <1>a DEF JoinDropReference, RefDec, TypeOK, RunningExec,
       Newborn, Has, IsIdle, SingleNotified, Notifieds, One, PolledUnqueued
  <2> QED
    BY <2>1, <2>2, <2>3 DEF NotifyInv
<1>33. CASE CloneWaker
  <2>1. SingleNotified'
    BY <1>33, <1>a DEF CloneWaker, RefInc, TypeOK, RunningExec, Newborn,
       Has, IsIdle, SingleNotified, Notifieds, One, PolledUnqueued
  <2>2. NoLostWakeup'
    BY <1>33, <1>a DEF CloneWaker, RefInc, TypeOK, RunningExec, Newborn,
       Has, IsIdle, SingleNotified, Notifieds, One, NoLostWakeup,
       PolledUnqueued
  <2>3. PolledUnqueued'
    BY <1>33, <1>a DEF CloneWaker, RefInc, TypeOK, RunningExec, Newborn,
       Has, IsIdle, SingleNotified, Notifieds, One, PolledUnqueued
  <2> QED
    BY <2>1, <2>2, <2>3 DEF NotifyInv
<1>34. CASE DropWaker
  <2>1. SingleNotified'
    BY <1>34, <1>a DEF DropWaker, RefDec, TypeOK, RunningExec, Newborn,
       Has, IsIdle, SingleNotified, Notifieds, One, PolledUnqueued
  <2>2. NoLostWakeup'
    BY <1>34, <1>a DEF DropWaker, RefDec, TypeOK, RunningExec, Newborn,
       Has, IsIdle, SingleNotified, Notifieds, One, NoLostWakeup,
       PolledUnqueued
  <2>3. PolledUnqueued'
    BY <1>34, <1>a DEF DropWaker, RefDec, TypeOK, RunningExec, Newborn,
       Has, IsIdle, SingleNotified, Notifieds, One, PolledUnqueued
  <2> QED
    BY <2>1, <2>2, <2>3 DEF NotifyInv
<1>35. CASE WakeByVal
  <2>1. SingleNotified'
    BY <1>35, <1>a DEF WakeByVal, Has, IsIdle, RefInc, RefDec, TypeOK,
       RunningExec, Newborn, SingleNotified, Notifieds, One, PolledUnqueued
  <2>2. NoLostWakeup'
    BY <1>35, <1>a DEF WakeByVal, Has, IsIdle, RefInc, RefDec, TypeOK,
       RunningExec, Newborn, SingleNotified, Notifieds, One, NoLostWakeup,
       PolledUnqueued
  <2>3. PolledUnqueued'
    BY <1>35, <1>a DEF WakeByVal, Has, IsIdle, RefInc, RefDec, TypeOK,
       RunningExec, Newborn, SingleNotified, Notifieds, One, PolledUnqueued
  <2> QED
    BY <2>1, <2>2, <2>3 DEF NotifyInv
<1>36. CASE SubmitByVal
  <2>1. SingleNotified'
    BY <1>36, <1>a DEF SubmitByVal, ScheduleOn, RefDec, TypeOK,
       RunningExec, Newborn, Has, IsIdle, SingleNotified, Notifieds, One,
       PolledUnqueued
  <2>2. NoLostWakeup'
    BY <1>36, <1>a DEF SubmitByVal, ScheduleOn, RefDec, TypeOK,
       RunningExec, Newborn, Has, IsIdle, SingleNotified, Notifieds, One,
       NoLostWakeup, PolledUnqueued
  <2>3. PolledUnqueued'
    BY <1>36, <1>a DEF SubmitByVal, ScheduleOn, RefDec, TypeOK,
       RunningExec, Newborn, Has, IsIdle, SingleNotified, Notifieds, One,
       PolledUnqueued
  <2> QED
    BY <2>1, <2>2, <2>3 DEF NotifyInv
<1>37. CASE DropAfterSubmit
  <2>1. SingleNotified'
    BY <1>37, <1>a DEF DropAfterSubmit, RefDec, TypeOK, RunningExec,
       Newborn, Has, IsIdle, SingleNotified, Notifieds, One, PolledUnqueued
  <2>2. NoLostWakeup'
    BY <1>37, <1>a DEF DropAfterSubmit, RefDec, TypeOK, RunningExec,
       Newborn, Has, IsIdle, SingleNotified, Notifieds, One, NoLostWakeup,
       PolledUnqueued
  <2>3. PolledUnqueued'
    BY <1>37, <1>a DEF DropAfterSubmit, RefDec, TypeOK, RunningExec,
       Newborn, Has, IsIdle, SingleNotified, Notifieds, One, PolledUnqueued
  <2> QED
    BY <2>1, <2>2, <2>3 DEF NotifyInv
<1>38. CASE WakeByRef
  <2>1. SingleNotified'
    BY <1>38, <1>a DEF WakeByRef, Has, RefInc, TypeOK, RunningExec,
       Newborn, IsIdle, SingleNotified, Notifieds, One, PolledUnqueued
  <2>2. NoLostWakeup'
    BY <1>38, <1>a DEF WakeByRef, Has, RefInc, TypeOK, RunningExec,
       Newborn, IsIdle, SingleNotified, Notifieds, One, NoLostWakeup,
       PolledUnqueued
  <2>3. PolledUnqueued'
    BY <1>38, <1>a DEF WakeByRef, Has, RefInc, TypeOK, RunningExec,
       Newborn, IsIdle, SingleNotified, Notifieds, One, PolledUnqueued
  <2> QED
    BY <2>1, <2>2, <2>3 DEF NotifyInv
<1>39. CASE SubmitByRef
  <2>1. SingleNotified'
    BY <1>39, <1>a DEF SubmitByRef, ScheduleOn, RefDec, TypeOK,
       RunningExec, Newborn, Has, IsIdle, SingleNotified, Notifieds, One,
       PolledUnqueued
  <2>2. NoLostWakeup'
    BY <1>39, <1>a DEF SubmitByRef, ScheduleOn, RefDec, TypeOK,
       RunningExec, Newborn, Has, IsIdle, SingleNotified, Notifieds, One,
       NoLostWakeup, PolledUnqueued
  <2>3. PolledUnqueued'
    BY <1>39, <1>a DEF SubmitByRef, ScheduleOn, RefDec, TypeOK,
       RunningExec, Newborn, Has, IsIdle, SingleNotified, Notifieds, One,
       PolledUnqueued
  <2> QED
    BY <2>1, <2>2, <2>3 DEF NotifyInv
<1>40. CASE UNCHANGED vars
  BY <1>40 DEF vars, NotifyInv, TypeOK, RunningExec, Newborn, Has, IsIdle,
     SingleNotified, Notifieds, One, PolledUnqueued, NoLostWakeup
<1> QED
  BY <1>1, <1>2, <1>3, <1>4, <1>5, <1>6, <1>7, <1>8, <1>9, <1>10, <1>11,
     <1>12, <1>13, <1>14, <1>15, <1>16, <1>17, <1>18, <1>19, <1>20, <1>21,
     <1>22, <1>23, <1>24, <1>25, <1>26, <1>27, <1>28, <1>29, <1>30, <1>31,
     <1>32, <1>33, <1>34, <1>35, <1>36, <1>37, <1>38, <1>39, <1>40 DEF Next,
     SpawnStep, PollStep, ExecStep, DropStep, JoinStep, JoinCall, WakeStep,
     WakeCall

\* The queues and the threads hold at most one Notified, and only under the
\* NOTIFIED bit: a task is never in the queues twice, nor polled by two.
THEOREM NotifiedAtMostOnce == Spec => []SingleNotified
<1>1. NotifyInv => SingleNotified
  BY DEF NotifyInv
<1> QED
  BY <1>1, RefInit, RefStep, NotifyInit, NotifyStep, PTL DEF Spec

\* While the runtime is open, an idle task that was notified has its Notified
\* in a queue or in the hands of a thread that is about to queue it.
THEOREM WakeupsKept == Spec => []NoLostWakeup
<1>1. NotifyInv => NoLostWakeup
  BY DEF NotifyInv
<1> QED
  BY <1>1, RefInit, RefStep, NotifyInit, NotifyStep, PTL DEF Spec

\* Only transition_to_running leads to a poll, and it looks at CANCELLED in
\* the same step.
THEOREM CancelledStaysUnpolled == Spec => CancelledNeverPolled
<1>1. ASSUME [Next]_vars, Has("CANCELLED"), epc # "poll"
      PROVE  epc' # "poll"
  <2>1. CASE Bind
    BY <1>1, <2>1 DEF Bind
  <2>2. CASE ScheduleNew
    BY <1>1, <2>2 DEF ScheduleNew
  <2>3. CASE ReturnHandle
    BY <1>1, <2>3 DEF ReturnHandle
  <2>4. CASE PopNotified
    BY <1>1, <2>4 DEF PopNotified
  <2>5. CASE TransitionToRunning
    BY <1>1, <2>5 DEF TransitionToRunning, Has
  <2>6. CASE PollReady
    BY <1>1, <2>6 DEF PollReady
  <2>7. CASE PollPending
    BY <1>1, <2>7 DEF PollPending
  <2>8. CASE TransitionToIdle
    BY <1>1, <2>8 DEF TransitionToIdle, Has
  <2>9. CASE YieldNow
    BY <1>1, <2>9 DEF YieldNow
  <2>10. CASE DropReference
    BY <1>1, <2>10 DEF DropReference
  <2>11. CASE CancelTask
    BY <1>1, <2>11 DEF CancelTask
  <2>12. CASE TransitionToComplete
    BY <1>1, <2>12 DEF TransitionToComplete
  <2>13. CASE NotifyJoin
    BY <1>1, <2>13 DEF NotifyJoin
  <2>14. CASE Release
    BY <1>1, <2>14 DEF Release
  <2>15. CASE TransitionToTerminal
    BY <1>1, <2>15 DEF TransitionToTerminal
  <2>16. CASE CloseOwned
    BY <1>1, <2>16 DEF CloseOwned
  <2>17. CASE PopOwned
    BY <1>1, <2>17 DEF PopOwned
  <2>18. CASE TransitionToShutdown
    BY <1>1, <2>18 DEF TransitionToShutdown, Has
  <2>19. CASE DrainQueue
    BY <1>1, <2>19 DEF DrainQueue
  <2>20. CASE TakeRemoteQueue
    BY <1>1, <2>20 DEF TakeRemoteQueue
  <2>21. ASSUME NEW w \in JoinWakers, JoinPoll(w) PROVE epc' # "poll"
    BY <1>1, <2>21 DEF JoinPoll, Has
  <2>22. CASE UnsetWaker
    BY <1>1, <2>22 DEF UnsetWaker, Has
  <2>23. CASE StoreWaker
    BY <1>1, <2>23 DEF StoreWaker
  <2>24. CASE SetJoinWaker
    BY <1>1, <2>24 DEF SetJoinWaker, Has
  <2>25. CASE ClearWaker
    BY <1>1, <2>25 DEF ClearWaker
  <2>26. CASE TakeOutput
    BY <1>1, <2>26 DEF TakeOutput
  <2>27. CASE Abort
    BY <1>1, <2>27 DEF Abort, Has
  <2>28. CASE AbortSchedule
    BY <1>1, <2>28 DEF AbortSchedule
  <2>29. CASE DropJoinHandleFast
    BY <1>1, <2>29 DEF DropJoinHandleFast
  <2>30. CASE UnsetJoinInterested
    BY <1>1, <2>30 DEF UnsetJoinInterested, Has
  <2>31. CASE DropOutput
    BY <1>1, <2>31 DEF DropOutput
  <2>32. CASE JoinDropReference
    BY <1>1, <2>32 DEF JoinDropReference
  <2>33. CASE CloneWaker
    BY <1>1, <2>33 DEF CloneWaker
  <2>34. CASE DropWaker
    BY <1>1, <2>34 DEF DropWaker
  <2>35. CASE WakeByVal
    BY <1>1, <2>35 DEF WakeByVal, Has
  <2>36. CASE SubmitByVal
    BY <1>1, <2>36 DEF SubmitByVal
  <2>37. CASE DropAfterSubmit
    BY <1>1, <2>37 DEF DropAfterSubmit
  <2>38. CASE WakeByRef
    BY <1>1, <2>38 DEF WakeByRef, Has
  <2>39. CASE SubmitByRef
    BY <1>1, <2>39 DEF SubmitByRef
  <2>40. CASE UNCHANGED vars
    BY <1>1, <2>40 DEF vars
  <2> QED
    BY <1>1, <2>1, <2>2, <2>3, <2>4, <2>5, <2>6, <2>7, <2>8, <2>9, <2>10,
       <2>11, <2>12, <2>13, <2>14, <2>15, <2>16, <2>17, <2>18, <2>19, <2>20,
       <2>21, <2>22, <2>23, <2>24, <2>25, <2>26, <2>27, <2>28, <2>29, <2>30,
       <2>31, <2>32, <2>33, <2>34, <2>35, <2>36, <2>37, <2>38, <2>39, <2>40
       DEF Next, SpawnStep, PollStep, ExecStep, DropStep, JoinStep, JoinCall,
       WakeStep, WakeCall
<1> QED
  BY <1>1, PTL DEF Spec, CancelledNeverPolled

-----------------------------------------------------------------------------
(* The JoinHandle and the output *)

\* Until the task is complete somebody is there to complete it.
Ownership ==
    /\ ~Has("COMPLETE") /\ owned = 0 => spc = "bind" \/ epc \in {"shutdown", "cancel", "complete"}
    /\ owned = 1 /\ Has("COMPLETE") => epc \in {"join", "release"}
    /\ epc = "shutdown" => ~Has("COMPLETE")
    /\ spc = "bind" => epc = "none" /\ ~Has("COMPLETE")
    /\ phase = "closed" => owned = 0

\* Both join bits are frozen once COMPLETE is set, so that what
\* transition_to_complete returned is still true when the executor uses it.
Completion ==
    /\ epc \in {"join", "release", "terminal"} => Has("COMPLETE")
    /\ epc = "join" => /\ "JOIN_INTEREST" \in snap <=> Has("JOIN_INTEREST")
                       /\ "JOIN_WAKER" \in snap <=> Has("JOIN_WAKER")

\* A handle that is dropped has either told the executor to drop the output,
\* by taking JOIN_INTEREST back in time, or dropped it itself.
Interest ==
    /\ jpc \notin {"dropref", "gone"} => Has("JOIN_INTEREST")
    /\ jpc \in {"clear", "take", "dropout"} \/ jres # "none" => Has("COMPLETE")
    /\ jpc \in {"dropref", "gone"} /\ Has("JOIN_INTEREST") => Has("COMPLETE") /\ stage = "Consumed"

\* JOIN_WAKER is a lock on the trailer: set, the field belongs to the
\* executor and holds the waker that the handle waits with.
JoinWaker ==
    /\ Has("JOIN_WAKER") => trailer # NoWaker
    /\ jpc \in {"store", "set", "clear"} => ~Has("JOIN_WAKER")
    /\ jpc = "unset" => Has("JOIN_WAKER")
    /\ jpc \in {"unset", "store", "set", "clear", "take"} =>
           jwait = NoWaker /\ jarg # NoWaker /\ jres = "none"
    /\ jpc = "unborn" => jwait = NoWaker
    /\ jpc = "set" => trailer = jarg
    /\ jwait # NoWaker => Has("JOIN_WAKER") /\ trailer = jwait

Output ==
    /\ ~Has("COMPLETE") => stage \in (IF epc = "complete" THEN Finished ELSE {"Running"})
    /\ Has("COMPLETE") /\ jpc \notin {"dropref", "gone"} /\ jres = "none" => stage \in Finished
    /\ Has("COMPLETE") /\ jpc \in {"dropref", "gone"} /\ epc # "join" => stage = "Consumed"

JoinInv == Ownership /\ Completion /\ Interest /\ JoinWaker /\ Output /\ JoinNotLost

\* JoinInit: at first nothing is finished and nobody waits.
LEMMA JoinInit == Init => JoinInv
  BY TaskAssumption DEF Init, JoinInv, Ownership, Completion, Interest,
     JoinWaker, Output, JoinNotLost, Finished, Has, InitialBits

\* JoinInvStep: completion and JoinHandle hand the stage and the join waker to
\* each other by the bits JOIN_INTEREST, JOIN_WAKER and COMPLETE.
LEMMA JoinInvStep == RefInv /\ NotifyInv /\ JoinInv /\ [Next]_vars => JoinInv'
<1> SUFFICES ASSUME RefInv, NotifyInv, JoinInv, [Next]_vars PROVE JoinInv'
  OBVIOUS
<1> USE TaskAssumption DEF JoinInv
<1>a. TypeOK /\ RunningExec /\ Newborn
  BY DEF RefInv
<1>b. spc = "bind" => local = 0 /\ remote = 0
  BY <1>a DEF NotifyInv, SingleNotified, Notifieds, One, TypeOK
<1>1. CASE Bind
  <2>1. Ownership' /\ Completion'
    BY <1>1, <1>a, <1>b DEF Bind, RefDec, TypeOK, RunningExec, Newborn,
       Has, IsIdle, Ownership, Completion
  <2>2. Interest' /\ JoinWaker'
    BY <1>1, <1>a DEF Bind, RefDec, TypeOK, RunningExec, Newborn, Has,
       IsIdle, Interest, JoinWaker
  <2>3. JoinNotLost'
    BY <1>1, <1>a DEF Bind, RefDec, TypeOK, RunningExec, Newborn, Has,
       IsIdle, Interest, JoinWaker, Completion, JoinNotLost
  <2>4. Output'
    BY <1>1, <1>a DEF Bind, RefDec, TypeOK, RunningExec, Newborn, Has,
       IsIdle, Output, Completion, Interest, JoinWaker, Finished, Ownership
  <2> QED
    BY <2>1, <2>2, <2>3, <2>4 DEF JoinInv
<1>2. CASE ScheduleNew
  <2>1. Ownership' /\ Completion'
    BY <1>2, <1>a, <1>b DEF ScheduleNew, ScheduleOn, RefDec, TypeOK,
       RunningExec, Newborn, Has, IsIdle, Ownership, Completion
  <2>2. Interest' /\ JoinWaker'
    BY <1>2, <1>a DEF ScheduleNew, ScheduleOn, RefDec, TypeOK, RunningExec,
       Newborn, Has, IsIdle, Interest, JoinWaker
  <2>3. JoinNotLost'
    BY <1>2, <1>a DEF ScheduleNew, ScheduleOn, RefDec, TypeOK, RunningExec,
       Newborn, Has, IsIdle, Interest, JoinWaker, Completion, JoinNotLost
  <2>4. Output'
    BY <1>2, <1>a DEF ScheduleNew, ScheduleOn, RefDec, TypeOK, RunningExec,
       Newborn, Has, IsIdle, Output, Completion, Interest, JoinWaker,
       Finished, Ownership
  <2> QED
    BY <2>1, <2>2, <2>3, <2>4 DEF JoinInv
<1>3. CASE ReturnHandle
  <2>1. Ownership' /\ Completion'
    BY <1>3, <1>a, <1>b DEF ReturnHandle, TypeOK, RunningExec, Newborn,
       Has, IsIdle, Ownership, Completion
  <2>2. Interest' /\ JoinWaker'
    BY <1>3, <1>a DEF ReturnHandle, TypeOK, RunningExec, Newborn, Has,
       IsIdle, Interest, JoinWaker
  <2>3. JoinNotLost'
    BY <1>3, <1>a DEF ReturnHandle, TypeOK, RunningExec, Newborn, Has,
       IsIdle, Interest, JoinWaker, Completion, JoinNotLost
  <2>4. Output'
    BY <1>3, <1>a DEF ReturnHandle, TypeOK, RunningExec, Newborn, Has,
       IsIdle, Output, Completion, Interest, JoinWaker, Finished, Ownership
  <2> QED
    BY <2>1, <2>2, <2>3, <2>4 DEF JoinInv
<1>4. CASE PopNotified
  <2>1. Ownership' /\ Completion'
    BY <1>4, <1>a, <1>b DEF PopNotified, TypeOK, RunningExec, Newborn, Has,
       IsIdle, Ownership, Completion
  <2>2. Interest' /\ JoinWaker'
    BY <1>4, <1>a DEF PopNotified, TypeOK, RunningExec, Newborn, Has,
       IsIdle, Interest, JoinWaker
  <2>3. JoinNotLost'
    BY <1>4, <1>a DEF PopNotified, TypeOK, RunningExec, Newborn, Has,
       IsIdle, Interest, JoinWaker, Completion, JoinNotLost
  <2>4. Output'
    BY <1>4, <1>a DEF PopNotified, TypeOK, RunningExec, Newborn, Has,
       IsIdle, Output, Completion, Interest, JoinWaker, Finished, Ownership
  <2> QED
    BY <2>1, <2>2, <2>3, <2>4 DEF JoinInv
<1>5. CASE TransitionToRunning
  <2>1. Ownership' /\ Completion'
    BY <1>5, <1>a, <1>b DEF TransitionToRunning, Has, IsIdle, RefDec,
       TypeOK, RunningExec, Newborn, Ownership, Completion
  <2>2. Interest' /\ JoinWaker'
    BY <1>5, <1>a DEF TransitionToRunning, Has, IsIdle, RefDec, TypeOK,
       RunningExec, Newborn, Interest, JoinWaker
  <2>3. JoinNotLost'
    BY <1>5, <1>a DEF TransitionToRunning, Has, IsIdle, RefDec, TypeOK,
       RunningExec, Newborn, Interest, JoinWaker, Completion, JoinNotLost
  <2>4. Output'
    BY <1>5, <1>a DEF TransitionToRunning, Has, IsIdle, RefDec, TypeOK,
       RunningExec, Newborn, Output, Completion, Interest, JoinWaker,
       Finished, Ownership
  <2> QED
    BY <2>1, <2>2, <2>3, <2>4 DEF JoinInv
<1>6. CASE PollReady
  <2>1. Ownership' /\ Completion'
    BY <1>6, <1>a, <1>b DEF PollReady, TypeOK, RunningExec, Newborn, Has,
       IsIdle, Ownership, Completion
  <2>2. Interest' /\ JoinWaker'
    BY <1>6, <1>a DEF PollReady, TypeOK, RunningExec, Newborn, Has, IsIdle,
       Interest, JoinWaker
  <2>3. JoinNotLost'
    BY <1>6, <1>a DEF PollReady, TypeOK, RunningExec, Newborn, Has, IsIdle,
       Interest, JoinWaker, Completion, JoinNotLost
  <2>4. Output'
    BY <1>6, <1>a DEF PollReady, TypeOK, RunningExec, Newborn, Has, IsIdle,
       Output, Completion, Interest, JoinWaker, Finished, Ownership
  <2> QED
    BY <2>1, <2>2, <2>3, <2>4 DEF JoinInv
<1>7. CASE PollPending
  <2>1. Ownership' /\ Completion'
    BY <1>7, <1>a, <1>b DEF PollPending, TypeOK, RunningExec, Newborn, Has,
       IsIdle, Ownership, Completion
  <2>2. Interest' /\ JoinWaker'
    BY <1>7, <1>a DEF PollPending, TypeOK, RunningExec, Newborn, Has,
       IsIdle, Interest, JoinWaker
  <2>3. JoinNotLost'
    BY <1>7, <1>a DEF PollPending, TypeOK, RunningExec, Newborn, Has,
       IsIdle, Interest, JoinWaker, Completion, JoinNotLost
  <2>4. Output'
    BY <1>7, <1>a DEF PollPending, TypeOK, RunningExec, Newborn, Has,
       IsIdle, Output, Completion, Interest, JoinWaker, Finished, Ownership
  <2> QED
    BY <2>1, <2>2, <2>3, <2>4 DEF JoinInv
<1>8. CASE TransitionToIdle
  <2>1. Ownership' /\ Completion'
    BY <1>8, <1>a, <1>b DEF TransitionToIdle, Has, RefInc, RefDec, TypeOK,
       RunningExec, Newborn, IsIdle, Ownership, Completion
  <2>2. Interest' /\ JoinWaker'
    BY <1>8, <1>a DEF TransitionToIdle, Has, RefInc, RefDec, TypeOK,
       RunningExec, Newborn, IsIdle, Interest, JoinWaker
  <2>3. JoinNotLost'
    BY <1>8, <1>a DEF TransitionToIdle, Has, RefInc, RefDec, TypeOK,
       RunningExec, Newborn, IsIdle, Interest, JoinWaker, Completion,
       JoinNotLost
  <2>4. Output'
    BY <1>8, <1>a DEF TransitionToIdle, Has, RefInc, RefDec, TypeOK,
       RunningExec, Newborn, IsIdle, Output, Completion, Interest, JoinWaker,
       Finished, Ownership
  <2> QED
    BY <2>1, <2>2, <2>3, <2>4 DEF JoinInv
<1>9. CASE YieldNow
  <2>1. Ownership' /\ Completion'
    BY <1>9, <1>a, <1>b DEF YieldNow, TypeOK, RunningExec, Newborn, Has,
       IsIdle, Ownership, Completion
  <2>2. Interest' /\ JoinWaker'
    BY <1>9, <1>a DEF YieldNow, TypeOK, RunningExec, Newborn, Has, IsIdle,
       Interest, JoinWaker
  <2>3. JoinNotLost'
    BY <1>9, <1>a DEF YieldNow, TypeOK, RunningExec, Newborn, Has, IsIdle,
       Interest, JoinWaker, Completion, JoinNotLost
  <2>4. Output'
    BY <1>9, <1>a DEF YieldNow, TypeOK, RunningExec, Newborn, Has, IsIdle,
       Output, Completion, Interest, JoinWaker, Finished, Ownership
  <2> QED
    BY <2>1, <2>2, <2>3, <2>4 DEF JoinInv
<1>10. CASE DropReference
  <2>1. Ownership' /\ Completion'
    BY <1>10, <1>a, <1>b DEF DropReference, RefDec, TypeOK, RunningExec,
       Newborn, Has, IsIdle, Ownership, Completion
  <2>2. Interest' /\ JoinWaker'
    BY <1>10, <1>a DEF DropReference, RefDec, TypeOK, RunningExec, Newborn,
       Has, IsIdle, Interest, JoinWaker
  <2>3. JoinNotLost'
    BY <1>10, <1>a DEF DropReference, RefDec, TypeOK, RunningExec, Newborn,
       Has, IsIdle, Interest, JoinWaker, Completion, JoinNotLost
  <2>4. Output'
    BY <1>10, <1>a DEF DropReference, RefDec, TypeOK, RunningExec, Newborn,
       Has, IsIdle, Output, Completion, Interest, JoinWaker, Finished,
       Ownership
  <2> QED
    BY <2>1, <2>2, <2>3, <2>4 DEF JoinInv
<1>11. CASE CancelTask
  <2>1. Ownership' /\ Completion'
    BY <1>11, <1>a, <1>b DEF CancelTask, TypeOK, RunningExec, Newborn, Has,
       IsIdle, Ownership, Completion
  <2>2. Interest' /\ JoinWaker'
    BY <1>11, <1>a DEF CancelTask, TypeOK, RunningExec, Newborn, Has,
       IsIdle, Interest, JoinWaker
  <2>3. JoinNotLost'
    BY <1>11, <1>a DEF CancelTask, TypeOK, RunningExec, Newborn, Has,
       IsIdle, Interest, JoinWaker, Completion, JoinNotLost
  <2>4. Output'
    BY <1>11, <1>a DEF CancelTask, TypeOK, RunningExec, Newborn, Has,
       IsIdle, Output, Completion, Interest, JoinWaker, Finished, Ownership
  <2> QED
    BY <2>1, <2>2, <2>3, <2>4 DEF JoinInv
<1>12. CASE TransitionToComplete
  <2>1. Ownership' /\ Completion'
    BY <1>12, <1>a, <1>b DEF TransitionToComplete, TypeOK, RunningExec,
       Newborn, Has, IsIdle, Ownership, Completion
  <2>2. Interest' /\ JoinWaker'
    BY <1>12, <1>a DEF TransitionToComplete, TypeOK, RunningExec, Newborn,
       Has, IsIdle, Interest, JoinWaker
  <2>3. JoinNotLost'
    BY <1>12, <1>a DEF TransitionToComplete, TypeOK, RunningExec, Newborn,
       Has, IsIdle, Interest, JoinWaker, Completion, JoinNotLost
  <2>4. Output'
    BY <1>12, <1>a DEF TransitionToComplete, TypeOK, RunningExec, Newborn,
       Has, IsIdle, Output, Completion, Interest, JoinWaker, Finished,
       Ownership
  <2> QED
    BY <2>1, <2>2, <2>3, <2>4 DEF JoinInv
<1>13. CASE NotifyJoin
  <2>1. Ownership' /\ Completion'
    BY <1>13, <1>a, <1>b DEF NotifyJoin, TypeOK, RunningExec, Newborn, Has,
       IsIdle, Ownership, Completion
  <2>2. Interest' /\ JoinWaker'
    BY <1>13, <1>a DEF NotifyJoin, TypeOK, RunningExec, Newborn, Has,
       IsIdle, Interest, JoinWaker
  <2>3. JoinNotLost'
    BY <1>13, <1>a DEF NotifyJoin, TypeOK, RunningExec, Newborn, Has,
       IsIdle, Interest, JoinWaker, Completion, JoinNotLost
  <2>4. Output'
    BY <1>13, <1>a DEF NotifyJoin, TypeOK, RunningExec, Newborn, Has,
       IsIdle, Output, Completion, Interest, JoinWaker, Finished, Ownership
  <2> QED
    BY <2>1, <2>2, <2>3, <2>4 DEF JoinInv
<1>14. CASE Release
  <2>1. Ownership' /\ Completion'
    BY <1>14, <1>a, <1>b DEF Release, TypeOK, RunningExec, Newborn, Has,
       IsIdle, Ownership, Completion
  <2>2. Interest' /\ JoinWaker'
    BY <1>14, <1>a DEF Release, TypeOK, RunningExec, Newborn, Has, IsIdle,
       Interest, JoinWaker
  <2>3. JoinNotLost'
    BY <1>14, <1>a DEF Release, TypeOK, RunningExec, Newborn, Has, IsIdle,
       Interest, JoinWaker, Completion, JoinNotLost
  <2>4. Output'
    BY <1>14, <1>a DEF Release, TypeOK, RunningExec, Newborn, Has, IsIdle,
       Output, Completion, Interest, JoinWaker, Finished, Ownership
  <2> QED
    BY <2>1, <2>2, <2>3, <2>4 DEF JoinInv
<1>15. CASE TransitionToTerminal
  <2>1. Ownership' /\ Completion'
    BY <1>15, <1>a, <1>b DEF TransitionToTerminal, RefDec, TypeOK,
       RunningExec, Newborn, Has, IsIdle, Ownership, Completion
  <2>2. Interest' /\ JoinWaker'
    BY <1>15, <1>a DEF TransitionToTerminal, RefDec, TypeOK, RunningExec,
       Newborn, Has, IsIdle, Interest, JoinWaker
  <2>3. JoinNotLost'
    BY <1>15, <1>a DEF TransitionToTerminal, RefDec, TypeOK, RunningExec,
       Newborn, Has, IsIdle, Interest, JoinWaker, Completion, JoinNotLost
  <2>4. Output'
    BY <1>15, <1>a DEF TransitionToTerminal, RefDec, TypeOK, RunningExec,
       Newborn, Has, IsIdle, Output, Completion, Interest, JoinWaker,
       Finished, Ownership
  <2> QED
    BY <2>1, <2>2, <2>3, <2>4 DEF JoinInv
<1>16. CASE CloseOwned
  <2>1. Ownership' /\ Completion'
    BY <1>16, <1>a, <1>b DEF CloseOwned, TypeOK, RunningExec, Newborn, Has,
       IsIdle, Ownership, Completion
  <2>2. Interest' /\ JoinWaker'
    BY <1>16, <1>a DEF CloseOwned, TypeOK, RunningExec, Newborn, Has,
       IsIdle, Interest, JoinWaker
  <2>3. JoinNotLost'
    BY <1>16, <1>a DEF CloseOwned, TypeOK, RunningExec, Newborn, Has,
       IsIdle, Interest, JoinWaker, Completion, JoinNotLost
  <2>4. Output'
    BY <1>16, <1>a DEF CloseOwned, TypeOK, RunningExec, Newborn, Has,
       IsIdle, Output, Completion, Interest, JoinWaker, Finished, Ownership
  <2> QED
    BY <2>1, <2>2, <2>3, <2>4 DEF JoinInv
<1>17. CASE PopOwned
  <2>1. Ownership' /\ Completion'
    BY <1>17, <1>a, <1>b DEF PopOwned, TypeOK, RunningExec, Newborn, Has,
       IsIdle, Ownership, Completion
  <2>2. Interest' /\ JoinWaker'
    BY <1>17, <1>a DEF PopOwned, TypeOK, RunningExec, Newborn, Has, IsIdle,
       Interest, JoinWaker
  <2>3. JoinNotLost'
    BY <1>17, <1>a DEF PopOwned, TypeOK, RunningExec, Newborn, Has, IsIdle,
       Interest, JoinWaker, Completion, JoinNotLost
  <2>4. Output'
    BY <1>17, <1>a DEF PopOwned, TypeOK, RunningExec, Newborn, Has, IsIdle,
       Output, Completion, Interest, JoinWaker, Finished, Ownership
  <2> QED
    BY <2>1, <2>2, <2>3, <2>4 DEF JoinInv
<1>18. CASE TransitionToShutdown
  <2>1. Ownership' /\ Completion'
    BY <1>18, <1>a, <1>b DEF TransitionToShutdown, IsIdle, Has, TypeOK,
       RunningExec, Newborn, Ownership, Completion
  <2>2. Interest' /\ JoinWaker'
    BY <1>18, <1>a DEF TransitionToShutdown, IsIdle, Has, TypeOK,
       RunningExec, Newborn, Interest, JoinWaker
  <2>3. JoinNotLost'
    BY <1>18, <1>a DEF TransitionToShutdown, IsIdle, Has, TypeOK,
       RunningExec, Newborn, Interest, JoinWaker, Completion, JoinNotLost
  <2>4. Output'
    BY <1>18, <1>a DEF TransitionToShutdown, IsIdle, Has, TypeOK,
       RunningExec, Newborn, Output, Completion, Interest, JoinWaker,
       Finished, Ownership
  <2> QED
    BY <2>1, <2>2, <2>3, <2>4 DEF JoinInv
<1>19. CASE DrainQueue
  <2>1. Ownership' /\ Completion'
    BY <1>19, <1>a, <1>b DEF DrainQueue, RefDec, TypeOK, RunningExec,
       Newborn, Has, IsIdle, Ownership, Completion
  <2>2. Interest' /\ JoinWaker'
    BY <1>19, <1>a DEF DrainQueue, RefDec, TypeOK, RunningExec, Newborn,
       Has, IsIdle, Interest, JoinWaker
  <2>3. JoinNotLost'
    BY <1>19, <1>a DEF DrainQueue, RefDec, TypeOK, RunningExec, Newborn,
       Has, IsIdle, Interest, JoinWaker, Completion, JoinNotLost
  <2>4. Output'
    BY <1>19, <1>a DEF DrainQueue, RefDec, TypeOK, RunningExec, Newborn,
       Has, IsIdle, Output, Completion, Interest, JoinWaker, Finished,
       Ownership
  <2> QED
    BY <2>1, <2>2, <2>3, <2>4 DEF JoinInv
<1>20. CASE TakeRemoteQueue
  <2>1. Ownership' /\ Completion'
    BY <1>20, <1>a, <1>b DEF TakeRemoteQueue, TypeOK, RunningExec, Newborn,
       Has, IsIdle, Ownership, Completion
  <2>2. Interest' /\ JoinWaker'
    BY <1>20, <1>a DEF TakeRemoteQueue, TypeOK, RunningExec, Newborn, Has,
       IsIdle, Interest, JoinWaker
  <2>3. JoinNotLost'
    BY <1>20, <1>a DEF TakeRemoteQueue, TypeOK, RunningExec, Newborn, Has,
       IsIdle, Interest, JoinWaker, Completion, JoinNotLost
  <2>4. Output'
    BY <1>20, <1>a DEF TakeRemoteQueue, TypeOK, RunningExec, Newborn, Has,
       IsIdle, Output, Completion, Interest, JoinWaker, Finished, Ownership
  <2> QED
    BY <2>1, <2>2, <2>3, <2>4 DEF JoinInv
<1>21. ASSUME NEW w \in JoinWakers, JoinPoll(w) PROVE JoinInv'
  <2>1. Ownership' /\ Completion'
    BY <1>21, <1>a, <1>b DEF JoinPoll, Has, TypeOK, RunningExec, Newborn,
       IsIdle, Ownership, Completion
  <2>2. Interest' /\ JoinWaker'
    BY <1>21, <1>a DEF JoinPoll, Has, TypeOK, RunningExec, Newborn, IsIdle,
       Interest, JoinWaker
  <2>3. JoinNotLost'
    BY <1>21, <1>a DEF JoinPoll, Has, TypeOK, RunningExec, Newborn, IsIdle,
       Interest, JoinWaker, Completion, JoinNotLost
  <2>4. Output'
    BY <1>21, <1>a DEF JoinPoll, Has, TypeOK, RunningExec, Newborn, IsIdle,
       Output, Completion, Interest, JoinWaker, Finished, Ownership
  <2> QED
    BY <2>1, <2>2, <2>3, <2>4 DEF JoinInv
<1>22. CASE UnsetWaker
  <2>1. Ownership' /\ Completion'
    BY <1>22, <1>a, <1>b DEF UnsetWaker, Has, TypeOK, RunningExec, Newborn,
       IsIdle, Ownership, Completion
  <2>2. Interest' /\ JoinWaker'
    BY <1>22, <1>a DEF UnsetWaker, Has, TypeOK, RunningExec, Newborn,
       IsIdle, Interest, JoinWaker
  <2>3. JoinNotLost'
    BY <1>22, <1>a DEF UnsetWaker, Has, TypeOK, RunningExec, Newborn,
       IsIdle, Interest, JoinWaker, Completion, JoinNotLost
  <2>4. Output'
    BY <1>22, <1>a DEF UnsetWaker, Has, TypeOK, RunningExec, Newborn,
       IsIdle, Output, Completion, Interest, JoinWaker, Finished, Ownership
  <2> QED
    BY <2>1, <2>2, <2>3, <2>4 DEF JoinInv
<1>23. CASE StoreWaker
  <2>1. Ownership' /\ Completion'
    BY <1>23, <1>a, <1>b DEF StoreWaker, TypeOK, RunningExec, Newborn, Has,
       IsIdle, Ownership, Completion
  <2>2. Interest' /\ JoinWaker'
    BY <1>23, <1>a DEF StoreWaker, TypeOK, RunningExec, Newborn, Has,
       IsIdle, Interest, JoinWaker
  <2>3. JoinNotLost'
    BY <1>23, <1>a DEF StoreWaker, TypeOK, RunningExec, Newborn, Has,
       IsIdle, Interest, JoinWaker, Completion, JoinNotLost
  <2>4. Output'
    BY <1>23, <1>a DEF StoreWaker, TypeOK, RunningExec, Newborn, Has,
       IsIdle, Output, Completion, Interest, JoinWaker, Finished, Ownership
  <2> QED
    BY <2>1, <2>2, <2>3, <2>4 DEF JoinInv
<1>24. CASE SetJoinWaker
  <2>1. Ownership' /\ Completion'
    BY <1>24, <1>a, <1>b DEF SetJoinWaker, Has, TypeOK, RunningExec,
       Newborn, IsIdle, Ownership, Completion
  <2>2. Interest' /\ JoinWaker'
    BY <1>24, <1>a DEF SetJoinWaker, Has, TypeOK, RunningExec, Newborn,
       IsIdle, Interest, JoinWaker
  <2>3. JoinNotLost'
    BY <1>24, <1>a DEF SetJoinWaker, Has, TypeOK, RunningExec, Newborn,
       IsIdle, Interest, JoinWaker, Completion, JoinNotLost
  <2>4. Output'
    BY <1>24, <1>a DEF SetJoinWaker, Has, TypeOK, RunningExec, Newborn,
       IsIdle, Output, Completion, Interest, JoinWaker, Finished, Ownership
  <2> QED
    BY <2>1, <2>2, <2>3, <2>4 DEF JoinInv
<1>25. CASE ClearWaker
  <2>1. Ownership' /\ Completion'
    BY <1>25, <1>a, <1>b DEF ClearWaker, TypeOK, RunningExec, Newborn, Has,
       IsIdle, Ownership, Completion
  <2>2. Interest' /\ JoinWaker'
    BY <1>25, <1>a DEF ClearWaker, TypeOK, RunningExec, Newborn, Has,
       IsIdle, Interest, JoinWaker
  <2>3. JoinNotLost'
    BY <1>25, <1>a DEF ClearWaker, TypeOK, RunningExec, Newborn, Has,
       IsIdle, Interest, JoinWaker, Completion, JoinNotLost
  <2>4. Output'
    BY <1>25, <1>a DEF ClearWaker, TypeOK, RunningExec, Newborn, Has,
       IsIdle, Output, Completion, Interest, JoinWaker, Finished, Ownership
  <2> QED
    BY <2>1, <2>2, <2>3, <2>4 DEF JoinInv
<1>26. CASE TakeOutput
  <2>1. Ownership' /\ Completion'
    BY <1>26, <1>a, <1>b DEF TakeOutput, TypeOK, RunningExec, Newborn, Has,
       IsIdle, Ownership, Completion
  <2>2. Interest' /\ JoinWaker'
    BY <1>26, <1>a DEF TakeOutput, TypeOK, RunningExec, Newborn, Has,
       IsIdle, Interest, JoinWaker
  <2>3. JoinNotLost'
    BY <1>26, <1>a DEF TakeOutput, TypeOK, RunningExec, Newborn, Has,
       IsIdle, Interest, JoinWaker, Completion, JoinNotLost
  <2>4. Output'
    BY <1>26, <1>a DEF TakeOutput, TypeOK, RunningExec, Newborn, Has,
       IsIdle, Output, Completion, Interest, JoinWaker, Finished, Ownership
  <2> QED
    BY <2>1, <2>2, <2>3, <2>4 DEF JoinInv
<1>27. CASE Abort
  <2>1. Ownership' /\ Completion'
    BY <1>27, <1>a, <1>b DEF Abort, Has, IsIdle, RefInc, TypeOK,
       RunningExec, Newborn, Ownership, Completion
  <2>2. Interest' /\ JoinWaker'
    BY <1>27, <1>a DEF Abort, Has, IsIdle, RefInc, TypeOK, RunningExec,
       Newborn, Interest, JoinWaker
  <2>3. JoinNotLost'
    BY <1>27, <1>a DEF Abort, Has, IsIdle, RefInc, TypeOK, RunningExec,
       Newborn, Interest, JoinWaker, Completion, JoinNotLost
  <2>4. Output'
    BY <1>27, <1>a DEF Abort, Has, IsIdle, RefInc, TypeOK, RunningExec,
       Newborn, Output, Completion, Interest, JoinWaker, Finished, Ownership
  <2> QED
    BY <2>1, <2>2, <2>3, <2>4 DEF JoinInv
<1>28. CASE AbortSchedule
  <2>1. Ownership' /\ Completion'
    BY <1>28, <1>a, <1>b DEF AbortSchedule, ScheduleOn, RefDec, TypeOK,
       RunningExec, Newborn, Has, IsIdle, Ownership, Completion
  <2>2. Interest' /\ JoinWaker'
    BY <1>28, <1>a DEF AbortSchedule, ScheduleOn, RefDec, TypeOK,
       RunningExec, Newborn, Has, IsIdle, Interest, JoinWaker
  <2>3. JoinNotLost'
    BY <1>28, <1>a DEF AbortSchedule, ScheduleOn, RefDec, TypeOK,
       RunningExec, Newborn, Has, IsIdle, Interest, JoinWaker, Completion,
       JoinNotLost
  <2>4. Output'
    BY <1>28, <1>a DEF AbortSchedule, ScheduleOn, RefDec, TypeOK,
       RunningExec, Newborn, Has, IsIdle, Output, Completion, Interest,
       JoinWaker, Finished, Ownership
  <2> QED
    BY <2>1, <2>2, <2>3, <2>4 DEF JoinInv
<1>29. CASE DropJoinHandleFast
  <2>1. Ownership' /\ Completion'
    BY <1>29, <1>a, <1>b DEF DropJoinHandleFast, InitialBits, InitialRefs,
       TypeOK, RunningExec, Newborn, Has, IsIdle, Ownership, Completion
  <2>2. Interest' /\ JoinWaker'
    BY <1>29, <1>a DEF DropJoinHandleFast, InitialBits, InitialRefs,
       TypeOK, RunningExec, Newborn, Has, IsIdle, Interest, JoinWaker
  <2>3. JoinNotLost'
    BY <1>29, <1>a DEF DropJoinHandleFast, InitialBits, InitialRefs,
       TypeOK, RunningExec, Newborn, Has, IsIdle, Interest, JoinWaker,
       Completion, JoinNotLost
  <2>4. Output'
    BY <1>29, <1>a DEF DropJoinHandleFast, InitialBits, InitialRefs,
       TypeOK, RunningExec, Newborn, Has, IsIdle, Output, Completion,
       Interest, JoinWaker, Finished, Ownership
  <2> QED
    BY <2>1, <2>2, <2>3, <2>4 DEF JoinInv
<1>30. CASE UnsetJoinInterested
  <2>1. Ownership' /\ Completion'
    BY <1>30, <1>a, <1>b DEF UnsetJoinInterested, Has, TypeOK, RunningExec,
       Newborn, IsIdle, Ownership, Completion
  <2>2. Interest' /\ JoinWaker'
    BY <1>30, <1>a DEF UnsetJoinInterested, Has, TypeOK, RunningExec,
       Newborn, IsIdle, Interest, JoinWaker
  <2>3. JoinNotLost'
    BY <1>30, <1>a DEF UnsetJoinInterested, Has, TypeOK, RunningExec,
       Newborn, IsIdle, Interest, JoinWaker, Completion, JoinNotLost
  <2>4. Output'
    BY <1>30, <1>a DEF UnsetJoinInterested, Has, TypeOK, RunningExec,
       Newborn, IsIdle, Output, Completion, Interest, JoinWaker, Finished,
       Ownership
  <2> QED
    BY <2>1, <2>2, <2>3, <2>4 DEF JoinInv
<1>31. CASE DropOutput
  <2>1. Ownership' /\ Completion'
    BY <1>31, <1>a, <1>b DEF DropOutput, TypeOK, RunningExec, Newborn, Has,
       IsIdle, Ownership, Completion
  <2>2. Interest' /\ JoinWaker'
    BY <1>31, <1>a DEF DropOutput, TypeOK, RunningExec, Newborn, Has,
       IsIdle, Interest, JoinWaker
  <2>3. JoinNotLost'
    BY <1>31, <1>a DEF DropOutput, TypeOK, RunningExec, Newborn, Has,
       IsIdle, Interest, JoinWaker, Completion, JoinNotLost
  <2>4. Output'
    BY <1>31, <1>a DEF DropOutput, TypeOK, RunningExec, Newborn, Has,
       IsIdle, Output, Completion, Interest, JoinWaker, Finished, Ownership
  <2> QED
    BY <2>1, <2>2, <2>3, <2>4 DEF JoinInv
<1>32. CASE JoinDropReference
  <2>1. Ownership' /\ Completion'
    BY <1>32, <1>a, <1>b DEF JoinDropReference, RefDec, TypeOK,
       RunningExec, Newborn, Has, IsIdle, Ownership, Completion
  <2>2. Interest' /\ JoinWaker'
    BY <1>32, <1>a DEF JoinDropReference, RefDec, TypeOK, RunningExec,
       Newborn, Has, IsIdle, Interest, JoinWaker
  <2>3. JoinNotLost'
    BY <1>32, <1>a DEF JoinDropReference, RefDec, TypeOK, RunningExec,
       Newborn, Has, IsIdle, Interest, JoinWaker, Completion, JoinNotLost
  <2>4. Output'
    BY <1>32, <1>a DEF JoinDropReference, RefDec, TypeOK, RunningExec,
       Newborn, Has, IsIdle, Output, Completion, Interest, JoinWaker,
       Finished, Ownership
  <2> QED
    BY <2>1, <2>2, <2>3, <2>4 DEF JoinInv
<1>33. CASE CloneWaker
  <2>1. Ownership' /\ Completion'
    BY <1>33, <1>a, <1>b DEF CloneWaker, RefInc, TypeOK, RunningExec,
       Newborn, Has, IsIdle, Ownership, Completion
  <2>2. Interest' /\ JoinWaker'
    BY <1>33, <1>a DEF CloneWaker, RefInc, TypeOK, RunningExec, Newborn,
       Has, IsIdle, Interest, JoinWaker
  <2>3. JoinNotLost'
    BY <1>33, <1>a DEF CloneWaker, RefInc, TypeOK, RunningExec, Newborn,
       Has, IsIdle, Interest, JoinWaker, Completion, JoinNotLost
  <2>4. Output'
    BY <1>33, <1>a DEF CloneWaker, RefInc, TypeOK, RunningExec, Newborn,
       Has, IsIdle, Output, Completion, Interest, JoinWaker, Finished,
       Ownership
  <2> QED
    BY <2>1, <2>2, <2>3, <2>4 DEF JoinInv
<1>34. CASE DropWaker
  <2>1. Ownership' /\ Completion'
    BY <1>34, <1>a, <1>b DEF DropWaker, RefDec, TypeOK, RunningExec,
       Newborn, Has, IsIdle, Ownership, Completion
  <2>2. Interest' /\ JoinWaker'
    BY <1>34, <1>a DEF DropWaker, RefDec, TypeOK, RunningExec, Newborn,
       Has, IsIdle, Interest, JoinWaker
  <2>3. JoinNotLost'
    BY <1>34, <1>a DEF DropWaker, RefDec, TypeOK, RunningExec, Newborn,
       Has, IsIdle, Interest, JoinWaker, Completion, JoinNotLost
  <2>4. Output'
    BY <1>34, <1>a DEF DropWaker, RefDec, TypeOK, RunningExec, Newborn,
       Has, IsIdle, Output, Completion, Interest, JoinWaker, Finished,
       Ownership
  <2> QED
    BY <2>1, <2>2, <2>3, <2>4 DEF JoinInv
<1>35. CASE WakeByVal
  <2>1. Ownership' /\ Completion'
    BY <1>35, <1>a, <1>b DEF WakeByVal, Has, IsIdle, RefInc, RefDec,
       TypeOK, RunningExec, Newborn, Ownership, Completion
  <2>2. Interest' /\ JoinWaker'
    BY <1>35, <1>a DEF WakeByVal, Has, IsIdle, RefInc, RefDec, TypeOK,
       RunningExec, Newborn, Interest, JoinWaker
  <2>3. JoinNotLost'
    BY <1>35, <1>a DEF WakeByVal, Has, IsIdle, RefInc, RefDec, TypeOK,
       RunningExec, Newborn, Interest, JoinWaker, Completion, JoinNotLost
  <2>4. Output'
    BY <1>35, <1>a DEF WakeByVal, Has, IsIdle, RefInc, RefDec, TypeOK,
       RunningExec, Newborn, Output, Completion, Interest, JoinWaker,
       Finished, Ownership
  <2> QED
    BY <2>1, <2>2, <2>3, <2>4 DEF JoinInv
<1>36. CASE SubmitByVal
  <2>1. Ownership' /\ Completion'
    BY <1>36, <1>a, <1>b DEF SubmitByVal, ScheduleOn, RefDec, TypeOK,
       RunningExec, Newborn, Has, IsIdle, Ownership, Completion
  <2>2. Interest' /\ JoinWaker'
    BY <1>36, <1>a DEF SubmitByVal, ScheduleOn, RefDec, TypeOK,
       RunningExec, Newborn, Has, IsIdle, Interest, JoinWaker
  <2>3. JoinNotLost'
    BY <1>36, <1>a DEF SubmitByVal, ScheduleOn, RefDec, TypeOK,
       RunningExec, Newborn, Has, IsIdle, Interest, JoinWaker, Completion,
       JoinNotLost
  <2>4. Output'
    BY <1>36, <1>a DEF SubmitByVal, ScheduleOn, RefDec, TypeOK,
       RunningExec, Newborn, Has, IsIdle, Output, Completion, Interest,
       JoinWaker, Finished, Ownership
  <2> QED
    BY <2>1, <2>2, <2>3, <2>4 DEF JoinInv
<1>37. CASE DropAfterSubmit
  <2>1. Ownership' /\ Completion'
    BY <1>37, <1>a, <1>b DEF DropAfterSubmit, RefDec, TypeOK, RunningExec,
       Newborn, Has, IsIdle, Ownership, Completion
  <2>2. Interest' /\ JoinWaker'
    BY <1>37, <1>a DEF DropAfterSubmit, RefDec, TypeOK, RunningExec,
       Newborn, Has, IsIdle, Interest, JoinWaker
  <2>3. JoinNotLost'
    BY <1>37, <1>a DEF DropAfterSubmit, RefDec, TypeOK, RunningExec,
       Newborn, Has, IsIdle, Interest, JoinWaker, Completion, JoinNotLost
  <2>4. Output'
    BY <1>37, <1>a DEF DropAfterSubmit, RefDec, TypeOK, RunningExec,
       Newborn, Has, IsIdle, Output, Completion, Interest, JoinWaker,
       Finished, Ownership
  <2> QED
    BY <2>1, <2>2, <2>3, <2>4 DEF JoinInv
<1>38. CASE WakeByRef
  <2>1. Ownership' /\ Completion'
    BY <1>38, <1>a, <1>b DEF WakeByRef, Has, RefInc, TypeOK, RunningExec,
       Newborn, IsIdle, Ownership, Completion
  <2>2. Interest' /\ JoinWaker'
    BY <1>38, <1>a DEF WakeByRef, Has, RefInc, TypeOK, RunningExec,
       Newborn, IsIdle, Interest, JoinWaker
  <2>3. JoinNotLost'
    BY <1>38, <1>a DEF WakeByRef, Has, RefInc, TypeOK, RunningExec,
       Newborn, IsIdle, Interest, JoinWaker, Completion, JoinNotLost
  <2>4. Output'
    BY <1>38, <1>a DEF WakeByRef, Has, RefInc, TypeOK, RunningExec,
       Newborn, IsIdle, Output, Completion, Interest, JoinWaker, Finished,
       Ownership
  <2> QED
    BY <2>1, <2>2, <2>3, <2>4 DEF JoinInv
<1>39. CASE SubmitByRef
  <2>1. Ownership' /\ Completion'
    BY <1>39, <1>a, <1>b DEF SubmitByRef, ScheduleOn, RefDec, TypeOK,
       RunningExec, Newborn, Has, IsIdle, Ownership, Completion
  <2>2. Interest' /\ JoinWaker'
    BY <1>39, <1>a DEF SubmitByRef, ScheduleOn, RefDec, TypeOK,
       RunningExec, Newborn, Has, IsIdle, Interest, JoinWaker
  <2>3. JoinNotLost'
    BY <1>39, <1>a DEF SubmitByRef, ScheduleOn, RefDec, TypeOK,
       RunningExec, Newborn, Has, IsIdle, Interest, JoinWaker, Completion,
       JoinNotLost
  <2>4. Output'
    BY <1>39, <1>a DEF SubmitByRef, ScheduleOn, RefDec, TypeOK,
       RunningExec, Newborn, Has, IsIdle, Output, Completion, Interest,
       JoinWaker, Finished, Ownership
  <2> QED
    BY <2>1, <2>2, <2>3, <2>4 DEF JoinInv
<1>40. CASE UNCHANGED vars
  BY <1>40 DEF vars, JoinInv, TypeOK, RunningExec, Newborn, Has, IsIdle,
     Ownership, Completion, Interest, JoinWaker, JoinNotLost, Output, Finished
<1> QED
  BY <1>1, <1>2, <1>3, <1>4, <1>5, <1>6, <1>7, <1>8, <1>9, <1>10, <1>11,
     <1>12, <1>13, <1>14, <1>15, <1>16, <1>17, <1>18, <1>19, <1>20, <1>21,
     <1>22, <1>23, <1>24, <1>25, <1>26, <1>27, <1>28, <1>29, <1>30, <1>31,
     <1>32, <1>33, <1>34, <1>35, <1>36, <1>37, <1>38, <1>39, <1>40 DEF Next,
     SpawnStep, PollStep, ExecStep, DropStep, JoinStep, JoinCall, WakeStep,
     WakeCall

\* A JoinHandle that waits is woken by the completion, whichever of the two
\* comes first at the state word.
THEOREM JoinersWoken == Spec => []JoinNotLost
<1>1. RefInv /\ NotifyInv /\ JoinInv => JoinNotLost
  BY DEF JoinInv
<1> QED
  BY <1>1, RefInit, RefStep, NotifyInit, NotifyStep, JoinInit, JoinInvStep, PTL DEF Spec

\* The stage and the join waker are never used by two threads at a time.
THEOREM CellsExclusive == Spec => []ExclusiveAccess
<1>1. RefInv /\ NotifyInv /\ JoinInv => ExclusiveAccess
  BY FlagNames DEF RefInv, JoinInv, RunningExec, Completion, Interest,
     JoinWaker, ExclusiveAccess, Has
<1> QED
  BY <1>1, RefInit, RefStep, NotifyInit, NotifyStep, JoinInit, JoinInvStep, PTL DEF Spec

\* The output never waits for the last waker to drop the cell.
THEOREM OutputDropped == Spec => []OutputDroppedInTime
<1>1. RefInv /\ NotifyInv /\ JoinInv => OutputDroppedInTime
  <2> SUFFICES ASSUME RefInv, NotifyInv, JoinInv, memory = "freed" PROVE stage = "Consumed"
    BY DEF OutputDroppedInTime
  <2>1. Holders = 0
    BY  DEF RefInv, TypeOK, RefCountExact, Holders, SpawnerRefs, ExecRefs,
       JoinRefs, WakerRefs, One
  <2>2. jpc = "gone" /\ epc = "none" /\ owned = 0 /\ spc # "bind"
    BY <2>1 DEF RefInv, TypeOK, Holders, SpawnerRefs, ExecRefs, JoinRefs,
       WakerRefs, One
  <2> QED
    BY <2>2 DEF JoinInv, Ownership, Output
<1> QED
  BY <1>1, RefInit, RefStep, NotifyInit, NotifyStep, JoinInit, JoinInvStep, PTL DEF Spec

\* A runtime that is gone leaves no task behind that could still be waited for.
THEOREM ShutdownComplete == Spec => []ShutdownCompletes
<1>1. RefInv /\ NotifyInv /\ JoinInv => ShutdownCompletes
  BY DEF JoinInv, Ownership, ShutdownCompletes
<1> QED
  BY <1>1, RefInit, RefStep, NotifyInit, NotifyStep, JoinInit, JoinInvStep, PTL DEF Spec

\* None of the assertions of state.rs, harness.rs and core.rs ever fails.
THEOREM Unpanicking == Spec => []NoPanic
<1>1. RefInv /\ NotifyInv /\ JoinInv => NoPanic
  <2> SUFFICES ASSUME RefInv, NotifyInv, JoinInv PROVE NoPanic
    OBVIOUS
  <2>1. epc = "run" => Has("NOTIFIED")
    BY  DEF NotifyInv, SingleNotified, Notifieds, One, RefInv, TypeOK
  <2>2. epc = "terminal" => refs >= ecount
    BY  DEF RefInv, TypeOK, RefCountExact, Holders, SpawnerRefs, ExecRefs,
       JoinRefs, WakerRefs, One
  <2>3. Has("RUNNING") => refs > wakers
    BY  DEF RefInv, TypeOK, RunningExec, RefCountExact, Holders,
       SpawnerRefs, ExecRefs, JoinRefs, WakerRefs, One
  <2>4. epc = "poll" => stage = "Running"
    BY DEF JoinInv, Output, RefInv, RunningExec
  <2>5. epc \in {"poll", "idle", "cancel", "complete"} => Has("RUNNING") /\ ~Has("COMPLETE")
    BY DEF RefInv, RunningExec
  <2>6. epc = "join" /\ {"JOIN_INTEREST", "JOIN_WAKER"} \subseteq snap => trailer # NoWaker
    BY DEF JoinInv, Completion, JoinWaker
  <2>7. /\ jpc \notin {"unborn", "dropref", "gone"} => Has("JOIN_INTEREST")
        /\ jpc = "take" => stage \in Finished
    BY DEF JoinInv, Interest, Output, JoinWaker
  <2>8. /\ jpc = "unset" => Has("JOIN_WAKER")
        /\ jpc \in {"store", "set"} => ~Has("JOIN_WAKER")
        /\ jpc = "idle" /\ Has("JOIN_WAKER") => trailer # NoWaker
        /\ phase = "closed" => owned = 0
    BY DEF JoinInv, JoinWaker, Ownership
  <2> QED
    BY <2>1, <2>2, <2>3, <2>4, <2>5, <2>6, <2>7, <2>8 DEF NoPanic
<1> QED
  BY <1>1, RefInit, RefStep, NotifyInit, NotifyStep, JoinInit, JoinInvStep, PTL DEF Spec

\* The cell is sound, all in all: no interleaving loses a wake-up, uses a plain
\* cell twice at a time, fails an assertion or leaves an output or a task behind.
THEOREM CellIsSound == Spec => []CellSound
<1>1. SingleNotified /\ NoLostWakeup /\ ExclusiveAccess /\ NoPanic
      /\ OutputDroppedInTime /\ ShutdownCompletes => CellSound
  BY DEF CellSound
<1> QED
  BY <1>1, NotifiedAtMostOnce, WakeupsKept, CellsExclusive, Unpanicking, OutputDropped,
     ShutdownComplete, PTL

-----------------------------------------------------------------------------
(* The contract: only the transitions of state.rs change the status of a   *)
(* task; each is one step of TaskContract, and everything else, the        *)
(* JoinHandle's own bits included, a stuttering step.                      *)

\* The bits that the status is read from.
StatusBits == {"RUNNING", "COMPLETE", "NOTIFIED"}

\* Stuttering: a step that leaves the three bits alone leaves the status alone.
LEMMA SameStatus ==
  ASSUME \A f \in StatusBits : f \in bits' <=> f \in bits
  PROVE  Status' = Status
  BY DEF StatusBits, Status, Has

\* StatusInit: a task starts with its Notified on the way to the queues.
LEMMA StatusInit == Init => Promise!Init
  BY DEF Init, InitialBits, Status, Has, Promise!Init

\* StatusStep: every step of the task is a step of its contract or none at all.
LEMMA StatusStep == RefInv /\ NotifyInv /\ [Next]_vars => [Promise!Next]_Status
<1> SUFFICES ASSUME RefInv, NotifyInv, [Next]_vars PROVE Promise!Next \/ Status' = Status
  OBVIOUS
<1>a. RunningExec /\ RunningExec'
  BY RefStep DEF RefInv
<1>b. epc = "run" => Has("NOTIFIED")
  BY DEF NotifyInv, SingleNotified, Notifieds, One, RefInv, TypeOK
<1>1. CASE TransitionToRunning
  <2>1. CASE ~IsIdle
    BY <1>1, <2>1, SameStatus DEF TransitionToRunning, IsIdle, Has
  <2>2. CASE IsIdle
    <3>1. Status = "queued" /\ Status' = "running"
      BY <1>1, <1>b, <2>2 DEF TransitionToRunning, IsIdle, Status, Has
    <3> QED
      BY <3>1 DEF Promise!Next, Promise!Run
  <2> QED
    BY <2>1, <2>2
<1>2. CASE TransitionToIdle
  <2>1. CASE Has("CANCELLED")
    BY <1>2, <2>1, SameStatus DEF TransitionToIdle
  <2>2. CASE ~Has("CANCELLED")
    <3>1. Has("RUNNING") /\ ~Has("COMPLETE")
      BY <1>2, <1>a DEF TransitionToIdle, RunningExec
    <3>2. bits' = bits \ {"RUNNING"}
      BY <1>2, <2>2 DEF TransitionToIdle
    <3>3. \/ Status = "running" /\ Status' = "idle"
          \/ Status = "again" /\ Status' = "queued"
      BY <3>1, <3>2 DEF Status, Has
    <3> QED
      BY <3>3 DEF Promise!Next, Promise!Rest
  <2> QED
    BY <2>1, <2>2
<1>3. CASE TransitionToComplete
  <2>1. Has("RUNNING") /\ ~Has("COMPLETE")
    BY <1>3, <1>a DEF TransitionToComplete, RunningExec
  <2>2. "COMPLETE" \in bits'
    BY <1>3, <2>1 DEF TransitionToComplete, Has
  <2>3. "RUNNING" \notin bits'
    BY <2>2, <1>a DEF RunningExec, Has
  <2>4. Status \in {"running", "again"} /\ Status' = "done"
    BY <2>1, <2>2, <2>3 DEF Status, Has
  <2> QED
    BY <2>4 DEF Promise!Next, Promise!Complete
<1>4. CASE TransitionToShutdown
  <2>1. CASE IsIdle
    <3>1. bits' = bits \cup {"RUNNING", "CANCELLED"} /\ ~Has("RUNNING") /\ ~Has("COMPLETE")
      BY <1>4, <2>1 DEF TransitionToShutdown, IsIdle
    <3>2. \/ Status = "idle" /\ Status' = "running"
          \/ Status = "queued" /\ Status' = "again"
      BY <3>1 DEF Status, Has
    <3> QED
      BY <3>2 DEF Promise!Next, Promise!Claim
  <2>2. CASE ~IsIdle
    BY <1>4, <2>2, SameStatus DEF TransitionToShutdown, StatusBits
  <2> QED
    BY <2>1, <2>2
<1>5. CASE Abort \/ WakeByVal \/ WakeByRef
  <2>1. CASE Has("COMPLETE")
    <3>1. "RUNNING" \notin bits /\ bits' = bits
      BY <1>5, <1>a, <2>1 DEF Abort, WakeByVal, WakeByRef, RunningExec, Has, IsIdle
    <3> QED
      BY <3>1, SameStatus
  <2>2. CASE ~Has("COMPLETE") /\ Has("NOTIFIED")
    <3>1. \A f \in StatusBits : f \in bits' <=> f \in bits
      BY <1>5, <2>2 DEF Abort, WakeByVal, WakeByRef, StatusBits, Has, IsIdle
    <3> QED
      BY <3>1, SameStatus
  <2>3. CASE ~Has("COMPLETE") /\ ~Has("NOTIFIED")
    <3>1. /\ "NOTIFIED" \in bits' /\ "COMPLETE" \notin bits'
          /\ "RUNNING" \in bits' <=> Has("RUNNING")
      BY <1>5, <2>3 DEF Abort, WakeByVal, WakeByRef, Has, IsIdle
    <3>2. \/ Status = "idle" /\ Status' = "queued"
          \/ Status = "running" /\ Status' = "again"
      BY <2>3, <3>1 DEF Status, Has
    <3> QED
      BY <3>2 DEF Promise!Next, Promise!Wake
  <2> QED
    BY <2>1, <2>2, <2>3
<1>6. CASE UnsetWaker \/ SetJoinWaker \/ DropJoinHandleFast \/ UnsetJoinInterested
  BY <1>6, SameStatus DEF UnsetWaker, SetJoinWaker, DropJoinHandleFast, UnsetJoinInterested, StatusBits
<1>7. CASE SpawnStep \/ PopNotified \/ PollStep \/ CloseOwned \/ DropStep
  <2>1. bits' = bits
    BY <1>7 DEF SpawnStep, Bind, ScheduleNew, ReturnHandle, PopNotified, PollStep,
       PollReady, PollPending, CloseOwned, DropStep, PopOwned, DrainQueue, TakeRemoteQueue
  <2> QED
    BY <2>1, SameStatus
<1>8. CASE YieldNow \/ DropReference \/ CancelTask \/ NotifyJoin \/ Release \/ TransitionToTerminal
  <2>1. bits' = bits
    BY <1>8 DEF YieldNow, DropReference, CancelTask, NotifyJoin, Release,
       TransitionToTerminal
  <2> QED
    BY <2>1, SameStatus
<1>9. CASE \/ \E w \in JoinWakers : JoinPoll(w)
           \/ StoreWaker \/ ClearWaker \/ TakeOutput \/ AbortSchedule \/ DropOutput
           \/ JoinDropReference
  <2>1. bits' = bits
    BY <1>9 DEF JoinPoll, StoreWaker, ClearWaker, TakeOutput, AbortSchedule,
       DropOutput, JoinDropReference
  <2> QED
    BY <2>1, SameStatus
<1>10. CASE CloneWaker \/ DropWaker \/ WakeStep
  <2>1. bits' = bits
    BY <1>10 DEF CloneWaker, DropWaker, WakeStep, SubmitByVal, DropAfterSubmit,
       SubmitByRef
  <2> QED
    BY <2>1, SameStatus
<1>11. CASE UNCHANGED vars
  <2>1. bits' = bits
    BY <1>11 DEF vars
  <2> QED
    BY <2>1, SameStatus
<1> QED
  BY <1>1, <1>2, <1>3, <1>4, <1>5, <1>6, <1>7, <1>8, <1>9, <1>10, <1>11
     DEF Next, ExecStep, JoinStep, JoinCall, WakeCall

\* Whatever the threads around it do, a task behaves to the scheduler like the
\* six steps of its contract: the protocol of state.rs taken as a whole.
THEOREM ImplementsContract == Spec => Contract
<1> QED
  BY StatusInit, StatusStep, RefInit, RefStep, NotifyInit, NotifyStep, PTL
     DEF Spec, Contract, Promise!Spec
=============================================================================
