------------------------------ MODULE Nesting ------------------------------
(***************************************************************************)
(* What a thread remembers of the runtimes it is in (runtime/mod.rs,       *)
(* context.rs, enter.rs, handle.rs, and spawner.rs around the two loops):  *)
(* whose TimeDriver is in the thread local, whose Handle osaka::spawn      *)
(* finds, whether a scheduler drives the thread, and where each runtime's  *)
(* own driver and Core are meanwhile.                                      *)
(*                                                                         *)
(* User code runs at the bottom, in the polls of poll_until_deadlock and   *)
(* block_on, and in the wakers take_timestep calls; from there it may call *)
(* any runtime again.  A panic unwinds one call after another, until user  *)
(* code, or the harness of a task, catches it.                             *)
(***************************************************************************)
EXTENDS Naturals, Sequences, SequencesExt

CONSTANTS Runtimes,
          None,
          MaxDepth,    \* bound of the model: calls within calls
          MaxGuards    \* bound of the model: EnterGuards at a time

VARIABLES
    alive,
    slot,       \* BasicScheduler::time_driver: whose driver it has, or None
    core,       \* whether BasicScheduler::core has it
    tls,        \* TIME_DRIVER of the thread
    context,    \* CONTEXT
    entered,    \* ENTERED
    stack,      \* calls, the innermost last
    guards,     \* live EnterGuards, the youngest last, with what they restore
    unwound,    \* history: a panic left with_time with a driver, or with a Core
    shuffled    \* history: an EnterGuard was dropped before a younger one

thread == <<tls, context, entered, stack, guards>>
vars == <<alive, slot, core, thread, unwound, shuffled>>

Init ==
    /\ alive = Runtimes
    /\ slot = [r \in Runtimes |-> r]
    /\ core = [r \in Runtimes |-> TRUE]
    /\ tls = None /\ context = None /\ entered = FALSE
    /\ stack = <<>> /\ guards = <<>>
    /\ unwound = FALSE /\ shuffled = FALSE

Top == Last(stack)
Depth == Len(stack)

\* Bounds of the model: how deep calls nest, and no call begins after a panic
\* has taken something with it; those that are under way end or unwind.
MayCall == Depth < MaxDepth /\ ~unwound

\* Calls that drive the thread.
Loops == {"poll", "block"}

-----------------------------------------------------------------------------
(* BasicScheduler::with_time                                               *)

\* The runtime's driver goes into the thread local, and the one that was
\* there waits in the call; without a driver of its own the runtime uses
\* whichever the thread has.
Begin(r, kind) ==
    /\ r \in alive /\ MayCall
    /\ slot[r] # None \/ tls # None
    /\ stack' = Append(stack, [rt |-> r, kind |-> kind,
                               own |-> slot[r] # None, saved |-> tls])
    /\ slot' = [slot EXCEPT ![r] = None]
    /\ tls' = IF slot[r] # None THEN slot[r] ELSE tls

\* Variant: the thread local is emptied, whatever was there.
Restore_Unset(f) ==
    IF f.own
    THEN slot' = [slot EXCEPT ![f.rt] = tls] /\ tls' = None
    ELSE UNCHANGED <<slot, tls>>

\* What the thread has is the runtime's own again.
Restore(f) ==
    IF f.own
    THEN /\ tls # None
         /\ slot' = [slot EXCEPT ![f.rt] = tls]
         /\ tls' = f.saved
    ELSE UNCHANGED <<slot, tls>>

-----------------------------------------------------------------------------
(* Handle::enter and the EnterGuard                                        *)

Enter(r, depth) ==
    /\ guards' = Append(guards, [rt |-> r, old |-> context, depth |-> depth])
    /\ context' = r

\* The guard puts back what was there when it was made.
Leave(i) ==
    /\ context' = guards[i].old
    /\ guards' = RemoveAt(guards, i)
    /\ shuffled' = (shuffled \/ i < Len(guards))

GuardOf(depth) == CHOOSE i \in DOMAIN guards : guards[i].depth = depth

EnterHandle(r) ==
    /\ r \in alive
    /\ Len(SelectSeq(guards, LAMBDA g : g.depth = 0)) < MaxGuards
    /\ Enter(r, 0)
    /\ UNCHANGED <<alive, slot, core, tls, entered, stack, unwound, shuffled>>

DropGuard ==
    /\ \E i \in DOMAIN guards : guards[i].depth = 0 /\ Leave(i)
    /\ UNCHANGED <<alive, slot, core, tls, entered, stack, unwound>>

-----------------------------------------------------------------------------
(* Runtime                                                                 *)

\* spawn, take_timestep, next_wakeup
Short(r) ==
    /\ Begin(r, "short")
    /\ UNCHANGED <<alive, core, context, entered, guards, unwound, shuffled>>

\* enter::enter(false), when the thread drives no runtime
try_enter == ~entered /\ entered' = TRUE

Poll(r) ==
    /\ Begin(r, "poll")
    /\ core[r] /\ core' = [core EXCEPT ![r] = FALSE]
    /\ try_enter
    /\ UNCHANGED <<alive, context, guards, unwound, shuffled>>

BlockOn(r) ==
    /\ Begin(r, "block")
    /\ Enter(r, Depth + 1)
    /\ core[r] /\ core' = [core EXCEPT ![r] = FALSE]
    /\ try_enter
    /\ UNCHANGED <<alive, unwound, shuffled>>

\* Both panic within a runtime, with the driver swapped, and with the Core
\* taken if there was one; the EnterGuard is dropped at once.  Nothing else is
\* undone.
Refused(r) ==
    /\ r \in alive /\ ~unwound /\ entered
    /\ slot[r] # None \/ tls # None
    /\ core' = [core EXCEPT ![r] = FALSE]
    /\ slot' = [slot EXCEPT ![r] = None]
    /\ tls' = IF slot[r] # None THEN slot[r] ELSE tls
    /\ unwound' = (unwound \/ core[r] \/ slot[r] # None)
    /\ UNCHANGED <<alive, context, entered, stack, guards, shuffled>>

\* The loop's own guards, when it ends or is unwound: ENTERED is reset, and
\* block_on drops its EnterGuard.
LoopEnds(f) ==
    /\ entered' = IF f.kind \in Loops THEN FALSE ELSE entered
    /\ IF f.kind = "block" THEN Leave(GuardOf(Depth))
       ELSE UNCHANGED <<context, guards, shuffled>>

Return ==
    /\ stack # <<>>
    /\ Restore(Top)
    /\ core' = IF Top.kind \in Loops THEN [core EXCEPT ![Top.rt] = TRUE] ELSE core
    /\ LoopEnds(Top)
    /\ stack' = Front(stack)
    /\ UNCHANGED <<alive, unwound>>

\* A panic leaves the call: nothing restores the driver, and the Core is lost
\* unless the loop had given it back, when block_on panics of a deadlock.
Unwind ==
    /\ stack # <<>>
    /\ \/ core' = core
       \/ Top.kind = "block" /\ core' = [core EXCEPT ![Top.rt] = TRUE]
    /\ LoopEnds(Top)
    /\ stack' = Front(stack)
    /\ unwound' = (unwound \/ Top.own \/ Top.kind \in Loops)
    /\ UNCHANGED <<alive, slot, tls>>

\* The scheduler's drop runs in its context, and asks for its Core; calls of
\* the runtime borrow it.
DropRuntime(r) ==
    /\ r \in alive /\ \A i \in DOMAIN stack : stack[i].rt # r
    /\ core[r]
    /\ alive' = alive \ {r}
    /\ UNCHANGED <<slot, core, thread, unwound, shuffled>>

\* All is over.
Gone ==
    /\ alive = {} /\ stack = <<>> /\ guards = <<>>
    /\ UNCHANGED vars

Next ==
    \/ \E r \in Runtimes :
          \/ Short(r) \/ Poll(r) \/ BlockOn(r) \/ Refused(r)
          \/ EnterHandle(r) \/ DropRuntime(r)
    \/ DropGuard
    \/ Return
    \/ Unwind
    \/ Gone

Spec == Init /\ [][Next]_vars

-----------------------------------------------------------------------------
(* Properties                                                              *)

TypeOK ==
    /\ alive \subseteq Runtimes
    /\ slot \in [Runtimes -> Runtimes \cup {None}]
    /\ core \in [Runtimes -> BOOLEAN]
    /\ tls \in Runtimes \cup {None} /\ context \in Runtimes \cup {None}
    /\ entered \in BOOLEAN /\ unwound \in BOOLEAN /\ shuffled \in BOOLEAN

\* The calls that took their runtime's driver out of its slot.
Owners == {i \in DOMAIN stack : stack[i].own}

\* Without a panic each runtime has its own driver: it is in its slot, or with
\* the one call that took it, and the thread local shows the driver of the
\* innermost such call.  Nobody steals it, whatever is called from within.
DriverNotStolen ==
    ~unwound =>
        /\ \A r \in Runtimes :
              slot[r] = IF \E i \in Owners : stack[i].rt = r THEN None ELSE r
        /\ tls = IF Owners = {} THEN None
                 ELSE stack[CHOOSE i \in Owners : \A j \in Owners : j <= i].rt

\* Without a panic a runtime's Core is in its cell but for the time its loop
\* runs, so that its drop finds it ("Oh no! We never placed the Core back").
CorePlacedBack ==
    ~unwound => \A r \in Runtimes :
        core[r] <=> ~\E i \in DOMAIN stack : stack[i].rt = r /\ stack[i].kind \in Loops

\* Also through panics, the thread counts as driven exactly while a loop is
\* running, and one loop runs at a time.
OneLoop ==
    /\ entered <=> \E i \in DOMAIN stack : stack[i].kind \in Loops
    /\ \A i, j \in DOMAIN stack :
          stack[i].kind \in Loops /\ stack[j].kind \in Loops => i = j

\* osaka::spawn goes to the runtime that was entered last and not left, also
\* through panics, as long as guards are dropped in the order they nest.
SpawnsIntoLast ==
    ~shuffled => context = IF guards = <<>> THEN None ELSE Last(guards).rt

\* What the thread remembers is right at every depth, also while panics unwind.
ThreadSound == DriverNotStolen /\ CorePlacedBack /\ OneLoop /\ SpawnsIntoLast
=============================================================================
