------------------------------- MODULE MCTask -------------------------------
(***************************************************************************)
(* The cell of a task: two wakers for the JoinHandle, so that one replaces *)
(* the other, and up to MaxWakers wakers of the task.  In the same run, as *)
(* they have nothing to do with it, the watch channel and the barrier:     *)
(* `part` says which of the three moves, the others keep their initial     *)
(* state.                                                                  *)
(***************************************************************************)
EXTENDS Task, MCWatch

VARIABLE part

\* While the others move, it is always the same receiver that exists.
WatchRests == W!Init /\ spot[CHOOSE r \in Receivers : TRUE] # "none"

MCInit ==
    /\ Init /\ B!Init
    /\ \/ part \in {"task", "barrier"} /\ WatchRests
       \/ part = "watch" /\ W!Init

\* The cell of a task is freed in the end, the channel and the barrier go on.
MCNext ==
    \/ part = "task" /\ Next /\ UNCHANGED <<part, wvars, bvars>>
    \/ part = "watch" /\ W!Next /\ UNCHANGED <<part, vars, bvars>>
    \/ part = "barrier" /\ B!Next /\ UNCHANGED <<part, vars, wvars>>
    \/ part = "task" /\ memory = "freed" /\ UNCHANGED <<part, vars, wvars, bvars>>

MCSpec ==
    /\ MCInit /\ [][MCNext]_<<part, vars, wvars, bvars>>
    /\ WF_vars(part = "task" /\ SpawnStep) /\ WF_vars(part = "task" /\ PopNotified)
    /\ WF_vars(part = "task" /\ PollStep) /\ WF_vars(part = "task" /\ ExecStep)
    /\ WF_vars(part = "task" /\ DropStep) /\ WF_vars(part = "task" /\ JoinStep)
    /\ WF_vars(part = "task" /\ WakeStep)
    /\ \A w \in Writers : WF_wvars(part = "watch" /\ W!NotifyReceivers(w))
    /\ WF_wvars(part = "watch" /\ W!NotifyClosed)
    /\ WF_wvars(part = "watch" /\ W!CloserStep)
    /\ \A r \in Receivers : WF_wvars(part = "watch" /\ W!ReceiverStep(r))
    /\ \A t \in Waiters : WF_bvars(part = "barrier" /\ B!WaitStep(t))

\* Neither a wake-up nor an abort of a task comes to nothing (task/state.rs).
TaskProgress == part = "task" => Progress
=============================================================================
