------------------------------ MODULE OnceCell ------------------------------
(***************************************************************************)
(* sync/once_cell.rs over the contract of the semaphore: whoever has its   *)
(* one permit may write the cell, and closes the semaphore when it has.  A *)
(* client is a call of get_or_init or get_or_try_init; f() may be ready at *)
(* once or not, fail, panic or be cancelled with the call.                 *)
(***************************************************************************)
EXTENDS Naturals

CONSTANTS Clients

VARIABLES
    pool, closed, queue, phase, need, held,   \* the semaphore
    value_set,
    value,      \* who wrote it; None before, and after it was taken
    answer      \* what a call returned, until it is made again

CONSTANT None

sem == <<pool, closed, queue, phase, need, held>>
vars == <<sem, value_set, value, answer>>

Sem == INSTANCE SemaphoreContract WITH Counts <- {1}

\* new, or From<T> and new_with: no permit, and closed at once.
New ==
    /\ Sem!InitWith(1)
    /\ value_set = FALSE /\ value = None

From ==
    /\ pool = 0 /\ closed = TRUE /\ queue = <<>>
    /\ phase = [c \in Clients |-> "out"]
    /\ need = [c \in Clients |-> 0] /\ held = [c \in Clients |-> 0]
    /\ value_set = TRUE /\ value = "from"

Init ==
    /\ New \/ From
    /\ answer = [c \in Clients |-> None]

-----------------------------------------------------------------------------

\* The value is written and published, and the waiters are woken to read it;
\* the permit of c, when it has one, is forgotten.
set_value(c) ==
    /\ value' = c
    /\ value_set' = TRUE
    /\ closed' = TRUE
    /\ queue' = <<>>
    /\ pool' = 0
    /\ held' = [held EXCEPT ![c] = 0]

\* Variant: it does not ask for the permit.
Set_Unguarded(c) ==
    /\ phase[c] = "out"
    /\ ~value_set
    /\ set_value(c)
    /\ UNCHANGED <<phase, need, answer>>

\* set: with a permit that can be had at once, or an error.
Set(c) ==
    /\ phase[c] = "out"
    /\ ~value_set /\ ~closed /\ pool = 1
    /\ set_value(c)
    /\ UNCHANGED <<phase, need, answer>>

\* get_or_init and get_or_try_init return what is there,
GetInitialized(c) ==
    /\ phase[c] = "out" /\ value_set
    /\ answer' = [answer EXCEPT ![c] = value]
    /\ UNCHANGED <<sem, value_set, value>>

\* or ask for the permit,
GetOrInit(c) ==
    /\ phase[c] = "out" /\ ~value_set
    /\ Sem!Acquire(c, 1) \/ Sem!Wait(c, 1)
    /\ UNCHANGED <<value_set, value, answer>>

GetsPermit(c) == Sem!Receive(c) /\ UNCHANGED <<value_set, value, answer>>

\* and read what another has written when the semaphore was closed before
\* they had it; the Acquire is gone then.
GetClosed(c) ==
    /\ phase[c] = "waiting" /\ closed
    /\ Sem!Drop(c)
    /\ answer' = [answer EXCEPT ![c] = value]
    /\ UNCHANGED <<value_set, value>>

\* f() is ready with a value.
InitReady(c) ==
    /\ phase[c] = "granted"
    /\ set_value(c)
    /\ phase' = [phase EXCEPT ![c] = "out"]
    /\ need' = [need EXCEPT ![c] = 0]
    /\ answer' = [answer EXCEPT ![c] = c]

\* f() fails, or panics; or the call is dropped, here or while it waits.
InitFails(c) ==
    /\ phase[c] = "granted"
    /\ Sem!Drop(c)
    /\ UNCHANGED <<value_set, value, answer>>

Cancel(c) ==
    /\ phase[c] = "waiting"
    /\ Sem!Drop(c)
    /\ UNCHANGED <<value_set, value, answer>>

\* take and into_inner borrow the cell alone; a new one takes its place.
Take ==
    /\ \A c \in Clients : phase[c] = "out"
    /\ value_set' = FALSE /\ value' = None
    /\ closed' = FALSE /\ pool' = 1
    /\ answer' = [c \in Clients |-> None]
    /\ UNCHANGED <<queue, phase, need, held>>

Next ==
    \/ \E c \in Clients :
          \/ Set(c) \/ GetInitialized(c) \/ GetOrInit(c)
          \/ GetsPermit(c) \/ GetClosed(c)
          \/ InitReady(c) \/ InitFails(c) \/ Cancel(c)
    \/ Take

Spec == Init /\ [][Next]_vars

\* A woken call is polled, and f() ends, one way or the other.
Fairness ==
    \A c \in Clients : /\ WF_vars(GetsPermit(c) \/ GetClosed(c))
                       /\ WF_vars(InitReady(c) \/ InitFails(c))

FairSpec == Spec /\ Fairness

-----------------------------------------------------------------------------
(* Properties                                                              *)

TypeOK ==
    /\ phase \in [Clients -> Sem!Phases]
    /\ value_set \in BOOLEAN /\ value \in Clients \cup {None, "from"}
    /\ answer \in [Clients -> Clients \cup {None, "from"}]

\* The file's own invariant: "if the semaphore is closed, then value_set is
\* true", and if value_set is true there is no permit any more; so a call that
\* fails to acquire reads an initialized cell, and one that has the permit
\* writes an empty one.
ClosedMeansSet ==
    /\ closed <=> value_set
    /\ value_set <=> value # None
    /\ value_set => pool = 0 /\ \A c \in Clients : phase[c] # "granted"

\* All calls on one cell return the same value, whoever wrote it, though many
\* start while it is empty and initializers fail or are cancelled.
OneAnswer ==
    \A c, d \in Clients : answer[c] # None /\ answer[d] # None => answer[c] = answer[d]

\* The flag, the semaphore, the cell and what the calls returned agree.
CellSound == ClosedMeansSet /\ OneAnswer

=============================================================================
