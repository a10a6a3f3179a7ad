-------------------------- MODULE TimeDriverProofs --------------------------
(***************************************************************************)
(* A Sleep that somebody waits for is never lost to the simulated clock,   *)
(* for any tasks, Sleeps and times, but for what the two history variables *)
(* remember.  SleepsCovered is not inductive: that the clock does not pass *)
(* a deadline follows from the event that the loop has for the head of the *)
(* driver's queue, which next_wakeup announces only once.                  *)
(***************************************************************************)
EXTENDS TimeDriver, WellFoundedInduction, NaturalsInduction, TLAPS

\* A set of times that is not empty has an earliest one.
LEMMA MinOf ==
    ASSUME NEW S, S \subseteq Nat, S # {}
    PROVE  Min(S) \in S /\ \A y \in S : Min(S) <= y
<1> DEFINE R == {ss \in Nat \X Nat : ss[1] < ss[2]}
<1>1. IsWellFoundedOn(OpToRel(<, Nat), Nat)
  BY NatLessThanWellFounded
<1>2. OpToRel(<, Nat) = R
  BY DEF OpToRel
<1>3. IsWellFoundedOn(R, Nat)
  BY <1>1, <1>2
<1>4. PICK x \in S : \A y \in S : ~(<<y, x>> \in R)
  BY <1>3, WFMin
<1>5. ASSUME NEW y \in S PROVE x <= y
  <2>1. x \in Nat /\ y \in Nat
    OBVIOUS
  <2>2. <<y, x>> \notin R
    BY <1>4
  <2>3. ~(y < x)
    BY <2>1, <2>2
  <2> QED
    BY <2>1, <2>3
<1> QED
  BY <1>5 DEF Min

-----------------------------------------------------------------------------
(* The inductive invariant *)

\* An entry has the deadline of its Sleep, as long as there is one.
EntryInv ==
    \A e \in heap : /\ status[e.id] # "free"
                    /\ status[e.id] # "dropped" => e.deadline = deadline[e.id]

\* Who owns a Sleep, and who waits for it.
HolderInv ==
    \A i \in Sleeps : /\ holder[i] # None => status[i] \in {"held", "waiting"}
                      /\ waiter[i] # None => status[i] = "waiting"

\* take_timestep leaves nothing that is due, and nothing was overdue before.
HeapAhead ==
    ~warped => /\ pc = "step" => \A e \in heap : e.deadline >= now
               /\ pc # "step" => \A e \in heap : e.deadline > now

\* The time that next_wakeup has announced is an event until it has come, so
\* that the loop has one no later than the head whenever it pops the next.
AgendaAhead ==
    /\ \A t \in Agenda : t >= now
    /\ emitted # None /\ emitted > now => events[emitted] > 0
    /\ pc = "pop" => \A e \in heap : \E t \in Agenda : t <= e.deadline

AgendaInv ==
    /\ running # None => pc = "poll"
    /\ ~warped => AgendaAhead

DriverInv == TypeOK /\ WaiterRegistered /\ EntryInv /\ HolderInv /\ HeapAhead /\ AgendaInv

LEMMA DriverInit == Init => DriverInv
<1> SUFFICES ASSUME Init PROVE DriverInv
  OBVIOUS
<1> USE TimeDriverAssumption DEF Init, Times
<1>1. TypeOK
  <2>1. messages \subseteq Times /\ now \in Times /\ 0 \in Times
    OBVIOUS
  <2>2. stale \subseteq Sleeps /\ warped \in BOOLEAN
    OBVIOUS
  <2>3. events \in [Times -> Nat] /\ deadline \in [Sleeps -> Times]
    BY <2>1
  <2> QED
    BY <2>1, <2>2, <2>3 DEF TypeOK
<1>2. WaiterRegistered /\ EntryInv /\ HolderInv /\ HeapAhead
  BY DEF WaiterRegistered, Waited, EntryInv, HolderInv, HeapAhead
<1>3. AgendaInv
  BY DEF AgendaInv, AgendaAhead, Agenda
<1> QED
  BY <1>1, <1>2, <1>3 DEF DriverInv

-----------------------------------------------------------------------------
(* What a running task does *)

\* It runs between two looks at the clock: the events are as they were.
LEMMA CallKeepsAgenda ==
    ASSUME DriverInv, running # None, UNCHANGED <<now, emitted, running, sim>>, ~warped' => ~warped
    PROVE  AgendaInv' /\ pc = "poll" /\ pc' = "poll"
<1>1. pc = "poll" /\ UNCHANGED <<now, emitted, running, pc, events, messages>>
  BY DEF DriverInv, AgendaInv, sim
<1>2. Agenda' = Agenda
  BY <1>1 DEF Agenda
<1>3. ASSUME ~warped' PROVE AgendaAhead'
  BY <1>1, <1>2, <1>3 DEF DriverInv, AgendaInv, AgendaAhead, TypeOK
<1> QED
  BY <1>1, <1>3 DEF AgendaInv

LEMMA NewKeeps ==
    ASSUME DriverInv, NEW i \in Sleeps, NEW d \in Times, NewSleep(i, d)
    PROVE  DriverInv'
<1> USE DEF NewSleep, driver, history
<1>1. AgendaInv' /\ pc = "poll" /\ pc' = "poll"
  BY CallKeepsAgenda
<1>2. TypeOK'
  BY DEF DriverInv, TypeOK, sim
<1>3. \A e \in heap : e.id \in Sleeps /\ e.id # i
  BY DEF DriverInv, TypeOK, EntryInv
<1>4. \A j \in Sleeps : j # i => /\ status'[j] = status[j] /\ holder'[j] = holder[j]
                                 /\ deadline'[j] = deadline[j]
  BY DEF DriverInv, TypeOK
<1>5. status'[i] = "held" /\ holder'[i] = running
  BY DEF DriverInv, TypeOK
<1>6. WaiterRegistered'
  BY <1>4, <1>5 DEF DriverInv, WaiterRegistered, Waited, Registered
<1>7. EntryInv' /\ HolderInv'
  BY <1>3, <1>4, <1>5 DEF DriverInv, EntryInv, HolderInv
<1>8. HeapAhead'
  BY <1>1 DEF DriverInv, HeapAhead
<1> QED
  BY <1>1, <1>2, <1>6, <1>7, <1>8 DEF DriverInv

LEMMA PollKeeps ==
    ASSUME DriverInv, NEW i \in Sleeps, PollSleep(i)
    PROVE  DriverInv'
<1> DEFINE new == [id |-> i, deadline |-> deadline[i], task |-> running]
<1> USE TimeDriverAssumption
<1>1. AgendaInv' /\ pc = "poll" /\ pc' = "poll"
  BY CallKeepsAgenda DEF PollSleep
<1>2. /\ \A j \in Sleeps : j # i => status'[j] = status[j] /\ waiter'[j] = waiter[j]
      /\ \/ status'[i] = "waiting" /\ waiter'[i] = running /\ deadline[i] > now
         \/ status'[i] = "held" /\ waiter'[i] = None /\ heap' = heap
      /\ UNCHANGED <<now, deadline, holder, warped>>
      /\ holder[i] = running /\ running # None /\ running \in Tasks
      /\ status[i] \in {"held", "waiting"}
  BY DEF PollSleep, DriverInv, TypeOK, HolderInv
<1>3. new \in [id : Sleeps, deadline : Times, task : Tasks]
  BY <1>2 DEF DriverInv, TypeOK
<1>4. \/ heap' = heap /\ (status'[i] = "waiting" => \E e \in heap : e.id = i)
      \/ heap' = heap \cup {new} /\ deadline[i] > now /\ \A e \in heap : e.id # i
  BY DEF PollSleep, Entry, DriverInv, TypeOK
<1>5. heap' \subseteq heap \cup {new} /\ heap \subseteq heap'
  BY <1>4
<1>6. /\ stale' \in SUBSET Sleeps
      /\ \A j \in Sleeps : j # i => (j \in stale' <=> j \in stale)
      /\ deadline[i] > now /\ i \notin stale' => \A e \in heap : e.id = i => e.task = running
  BY DEF PollSleep, Entry, DriverInv, TypeOK
<1>7. TypeOK'
  <2>1. \A e, f \in heap' : e.id = f.id => e = f
    BY <1>4 DEF DriverInv, TypeOK
  <2>2. heap' \subseteq [id : Sleeps, deadline : Times, task : Tasks]
    BY <1>3, <1>5 DEF DriverInv, TypeOK
  <2>3. waiter' \in [Sleeps -> Tasks \cup {None}]
    BY <1>2 DEF PollSleep, DriverInv, TypeOK
  <2>4. status' \in [Sleeps -> {"free", "held", "waiting", "dropped"}]
    BY DEF PollSleep, DriverInv, TypeOK
  <2> QED
    BY <1>6, <2>1, <2>2, <2>3, <2>4 DEF PollSleep, DriverInv, TypeOK, sim
<1>8. WaiterRegistered'
  <2>1. ASSUME NEW j \in Waited', j # i PROVE Registered(j)'
    <3>1. j \in Waited
      BY <1>2, <1>6, <2>1 DEF Waited
    <3> QED
      BY <1>2, <1>5, <2>1, <3>1 DEF DriverInv, WaiterRegistered, Registered, Waited
  <2>2. ASSUME i \in Waited' PROVE Registered(i)'
    <3>0. status'[i] = "waiting" /\ waiter'[i] = running /\ deadline[i] > now /\ i \notin stale'
      BY <1>2, <2>2 DEF Waited
    <3>1. CASE new \in heap'
      BY <1>2, <3>0, <3>1 DEF Registered
    <3>2. CASE new \notin heap'
      <4>0. heap' = heap /\ \E e \in heap : e.id = i
        BY <1>4, <3>0, <3>2
      <4>1. PICK e \in heap : e.id = i
        BY <4>0
      <4>2. e.task = running /\ e.deadline = deadline[i]
        BY <1>2, <1>6, <3>0, <4>1 DEF DriverInv, EntryInv
      <4> QED
        BY <1>2, <3>0, <4>0, <4>1, <4>2 DEF Registered
    <3> QED
      BY <3>1, <3>2
  <2> QED
    BY <2>1, <2>2 DEF WaiterRegistered
<1>9. EntryInv' /\ HolderInv'
  <2>1. ASSUME NEW e \in heap
        PROVE  /\ e.id \in Sleeps /\ status'[e.id] # "free"
               /\ status'[e.id] # "dropped" => e.deadline = deadline[e.id]
    BY <1>2 DEF DriverInv, EntryInv, TypeOK
  <2>2. EntryInv'
    BY <1>2, <1>5, <2>1 DEF EntryInv
  <2> QED
    BY <1>2, <2>2 DEF DriverInv, HolderInv
<1>10. HeapAhead'
  BY <1>1, <1>2, <1>4 DEF DriverInv, HeapAhead
<1> QED
  BY <1>1, <1>7, <1>8, <1>9, <1>10 DEF DriverInv

LEMMA ResetKeeps ==
    ASSUME DriverInv, NEW i \in Sleeps, NEW d \in Times, ResetSleep(i, d)
    PROVE  DriverInv'
<1> DEFINE moved(e) == IF e.id = i THEN [e EXCEPT !.deadline = d] ELSE e
<1>1. AgendaInv' /\ pc = "poll" /\ pc' = "poll"
  BY CallKeepsAgenda DEF ResetSleep
<1>2. /\ heap' = {moved(e) : e \in heap} /\ deadline' = [deadline EXCEPT ![i] = d]
      /\ ~warped' => ~warped /\ (d > now \/ \A e \in heap : e.id # i)
      /\ warped' \in BOOLEAN
      /\ UNCHANGED <<now, status, holder, waiter, stale>>
  <2>1. /\ heap' = {moved(e) : e \in heap} /\ deadline' = [deadline EXCEPT ![i] = d]
        /\ warped' = (warped \/ (d <= now /\ Entry(i) # {}))
        /\ UNCHANGED <<now, status, holder, waiter, stale>>
    BY DEF ResetSleep
  <2>2. d \in Nat /\ now \in Nat
    BY DEF DriverInv, TypeOK, Times
  <2>3. warped' \in BOOLEAN /\ (~warped' => ~warped /\ (~(d <= now) \/ Entry(i) = {}))
    BY <2>1, Zenon
  <2>4. Entry(i) = {} => \A e \in heap : e.id # i
    BY DEF Entry
  <2>5. ~(d <= now) => d > now
    BY <2>2
  <2> HIDE DEF moved
  <2> QED
    BY <2>1, <2>3, <2>4, <2>5
<1>3. \A e \in heap : /\ moved(e) \in [id : Sleeps, deadline : Times, task : Tasks]
                      /\ moved(e).id = e.id /\ moved(e).task = e.task
                      /\ moved(e).deadline = IF e.id = i THEN d ELSE e.deadline
  BY DEF DriverInv, TypeOK
<1> HIDE DEF moved
<1>4. TypeOK'
  <2>1. \A e, f \in heap' : e.id = f.id => e = f
    BY <1>2, <1>3 DEF DriverInv, TypeOK
  <2>2. heap' \subseteq [id : Sleeps, deadline : Times, task : Tasks]
    BY <1>2, <1>3
  <2> QED
    BY <1>2, <2>1, <2>2 DEF ResetSleep, DriverInv, TypeOK, sim
<1>5. \A j \in Sleeps : deadline'[j] = IF j = i THEN d ELSE deadline[j]
  BY <1>2 DEF DriverInv, TypeOK
<1>6. WaiterRegistered'
  <2> SUFFICES ASSUME NEW j \in Waited' PROVE Registered(j)'
    BY DEF WaiterRegistered
  <2>1. j \in Waited /\ j \in Sleeps
    BY <1>2 DEF Waited
  <2>2. PICK e \in heap : e.id = j /\ e.task = waiter[j] /\ e.deadline = deadline[j]
    BY <2>1 DEF DriverInv, WaiterRegistered, Registered
  <2>3. moved(e) \in heap'
    BY <1>2
  <2> QED
    BY <1>2, <1>3, <1>5, <2>1, <2>2, <2>3 DEF Registered
<1>7. EntryInv' /\ HolderInv'
  <2>1. \A e \in heap : e.id \in Sleeps
    BY DEF DriverInv, TypeOK
  <2>2. EntryInv'
    BY <1>2, <1>3, <1>5, <2>1 DEF DriverInv, EntryInv
  <2> QED
    BY <1>2, <2>2 DEF DriverInv, HolderInv
<1>8. HeapAhead'
  <2>1. ASSUME ~warped', NEW e \in heap PROVE moved(e).deadline > now
    <3>1. e.deadline > now
      BY <1>1, <1>2, <2>1 DEF DriverInv, HeapAhead
    <3> QED
      BY <1>2, <1>3, <2>1, <3>1
  <2> QED
    BY <1>1, <1>2, <2>1 DEF HeapAhead
<1> QED
  BY <1>1, <1>4, <1>6, <1>7, <1>8 DEF DriverInv

LEMMA HandKeeps ==
    ASSUME DriverInv, NEW i \in Sleeps,
           DropSleep(i) \/ \E t \in Tasks : MoveSleep(i, t)
    PROVE  DriverInv'
<1> USE TimeDriverAssumption
<1>1. AgendaInv' /\ pc = "poll" /\ pc' = "poll"
  BY CallKeepsAgenda DEF DropSleep, MoveSleep, driver, history
<1>2. TypeOK'
  <2>1. CASE DropSleep(i)
    <3>1. 0 \in Times
      BY DEF Times
    <3> QED
      BY <2>1, <3>1 DEF DropSleep, DriverInv, TypeOK, driver, sim
  <2>2. ASSUME NEW t \in Tasks, MoveSleep(i, t) PROVE TypeOK'
    BY <2>2 DEF MoveSleep, DriverInv, TypeOK, driver, sim, history
  <2> QED
    BY <2>1, <2>2
<1>3. /\ UNCHANGED <<heap, now, warped>>
      /\ \A j \in Sleeps : j # i => /\ status'[j] = status[j] /\ holder'[j] = holder[j]
                                     /\ waiter'[j] = waiter[j] /\ deadline'[j] = deadline[j]
                                     /\ (j \in stale' <=> j \in stale)
      /\ \/ status'[i] = "dropped" /\ holder'[i] = None /\ waiter'[i] = None
         \/ /\ status'[i] = status[i] /\ status[i] \in {"held", "waiting"}
            /\ waiter'[i] = waiter[i] /\ deadline'[i] = deadline[i]
            /\ (i \in stale' <=> i \in stale)
  BY DEF DropSleep, MoveSleep, driver, history, DriverInv, TypeOK, HolderInv
<1>4. \A e \in heap : e.id \in Sleeps
  BY DEF DriverInv, TypeOK
<1>5. WaiterRegistered'
  <2> SUFFICES ASSUME NEW j \in Waited' PROVE Registered(j)'
    BY DEF WaiterRegistered
  <2>1. j \in Sleeps /\ j \in Waited /\ waiter'[j] = waiter[j] /\ deadline'[j] = deadline[j]
    BY <1>3 DEF Waited
  <2> QED
    BY <1>3, <2>1 DEF DriverInv, WaiterRegistered, Registered
<1>6. EntryInv' /\ HolderInv'
  BY <1>3, <1>4 DEF DriverInv, EntryInv, HolderInv
<1>7. HeapAhead'
  BY <1>1, <1>3 DEF DriverInv, HeapAhead
<1> QED
  BY <1>1, <1>2, <1>5, <1>6, <1>7 DEF DriverInv

LEMMA SetNowKeeps ==
    ASSUME DriverInv, NEW d \in Times, SetNow(d)
    PROVE  DriverInv'
<1> USE TimeDriverAssumption
<1>1. /\ now' = d /\ d > now /\ warped' \in BOOLEAN /\ pc = "poll"
      /\ ~warped' => ~warped /\ (\A e \in heap : ~(e.deadline <= d)) /\ (\A t \in Agenda : ~(t < d))
      /\ UNCHANGED <<heap, emitted, deadline, status, holder, waiter, running, pc, events, messages, stale>>
  BY DEF SetNow, driver, sleeps, sim, DriverInv, AgendaInv, TypeOK
<1>2. TypeOK'
  BY <1>1 DEF SetNow, DriverInv, TypeOK
<1>3. WaiterRegistered' /\ EntryInv' /\ HolderInv'
  BY <1>1 DEF DriverInv, WaiterRegistered, Waited, Registered, EntryInv, HolderInv
<1>4. HeapAhead'
  <2>1. ASSUME ~warped', NEW e \in heap PROVE e.deadline > d
    BY <1>1, <2>1 DEF DriverInv, TypeOK, Times
  <2> QED
    BY <1>1, <2>1 DEF HeapAhead
<1>5. AgendaInv'
  <2>1. Agenda' = Agenda /\ Agenda \subseteq Times
    BY <1>1 DEF Agenda, DriverInv, TypeOK
  <2>2. ASSUME ~warped' PROVE AgendaAhead'
    <3>1. \A t \in Agenda' : t >= now'
      BY <1>1, <2>1, <2>2 DEF Times
    <3>2. emitted' # None /\ emitted' > now' => events'[emitted'] > 0
      BY <1>1, <2>2 DEF DriverInv, AgendaInv, AgendaAhead, TypeOK, Times
    <3> QED
      BY <1>1, <3>1, <3>2 DEF AgendaAhead
  <2> QED
    BY <1>1, <2>2 DEF AgendaInv
<1> QED
  BY <1>2, <1>3, <1>4, <1>5 DEF DriverInv

-----------------------------------------------------------------------------
(* The event loop *)

LEMMA EndPollKeeps == DriverInv /\ EndPoll => DriverInv'
<1> SUFFICES ASSUME DriverInv, EndPoll PROVE DriverInv'
  OBVIOUS
<1> USE TimeDriverAssumption DEF EndPoll, DriverInv, driver, sleeps, sim, history
<1>1. TypeOK'
  BY DEF TypeOK
<1>2. WaiterRegistered' /\ EntryInv' /\ HolderInv' /\ HeapAhead'
  BY DEF WaiterRegistered, Waited, Registered, EntryInv, HolderInv, HeapAhead
<1>3. AgendaInv'
  BY DEF AgendaInv, AgendaAhead, Agenda
<1> QED
  BY <1>1, <1>2, <1>3

\* The earliest event comes no later than the head, and not before now.
LEMMA PopKeeps == DriverInv /\ PopEvent => DriverInv'
<1> SUFFICES ASSUME DriverInv, PopEvent PROVE DriverInv'
  OBVIOUS
<1> USE TimeDriverAssumption
<1>1. Agenda \subseteq Times /\ Agenda \subseteq Nat
  <2>1. Agenda \subseteq Times
    BY DEF Agenda, DriverInv, TypeOK
  <2>2. Times \subseteq Nat
    BY DEF Times
  <2> QED
    BY <2>1, <2>2
<1>2. PICK t \in Agenda : t = Min(Agenda) /\ \A u \in Agenda : t <= u
  BY <1>1, MinOf DEF PopEvent
<1>3. /\ now' = t /\ pc = "pop" /\ pc' = "step" /\ running = None
      /\ UNCHANGED <<heap, emitted, deadline, status, holder, waiter, running, stale, warped>>
      /\ \/ /\ events[t] > 0 /\ events' = [events EXCEPT ![t] = @ - 1]
            /\ UNCHANGED <<messages, runnable>>
         \/ /\ events' = events /\ messages' \subseteq messages
            /\ \E woken \in SUBSET Tasks : runnable' = runnable \cup woken
  BY <1>2 DEF PopEvent, driver, sleeps, history, DriverInv, AgendaInv
<1>4. t \in Times /\ t \in Nat /\ (~warped => t >= now)
  BY <1>1, <1>2 DEF DriverInv, AgendaInv, AgendaAhead
<1>5. /\ events' \in [Times -> Nat] /\ messages' \subseteq messages
      /\ \A u \in Times : u # t => events'[u] = events[u]
      /\ \A u \in Times : events'[u] > 0 => events[u] > 0
  BY <1>3, <1>4 DEF DriverInv, TypeOK
<1>6. TypeOK'
  BY <1>3, <1>4, <1>5 DEF DriverInv, TypeOK
<1>7. WaiterRegistered' /\ EntryInv' /\ HolderInv'
  BY <1>3 DEF DriverInv, WaiterRegistered, Waited, Registered, EntryInv, HolderInv
<1>8. HeapAhead'
  <2>1. ASSUME ~warped, NEW e \in heap PROVE e.deadline >= t
    <3>1. PICK u \in Agenda : u <= e.deadline
      BY <1>3, <2>1 DEF DriverInv, AgendaInv, AgendaAhead
    <3>2. t \in Nat /\ u \in Nat /\ e.deadline \in Nat /\ t <= u
      BY <1>1, <1>2 DEF DriverInv, TypeOK, Times
    <3> QED
      BY <3>1, <3>2
  <2> QED
    BY <1>3, <2>1 DEF HeapAhead
<1>9. AgendaInv'
  <2>1. Agenda' \subseteq Agenda
    BY <1>5 DEF Agenda
  <2>2. \A u \in Agenda' : u >= now'
    BY <1>1, <1>2, <1>3, <2>1
  <2>3. ASSUME ~warped, emitted' # None, emitted' > now' PROVE events'[emitted'] > 0
    <3>1. emitted \in Times /\ emitted # t /\ emitted > now
      BY <1>3, <1>4, <2>3 DEF DriverInv, TypeOK, Times
    <3> QED
      BY <1>3, <1>5, <2>3, <3>1 DEF DriverInv, AgendaInv, AgendaAhead
  <2> QED
    BY <1>3, <2>2, <2>3 DEF AgendaInv, AgendaAhead
<1> QED
  BY <1>6, <1>7, <1>8, <1>9 DEF DriverInv

\* take_timestep takes all that is due: nothing of it was overdue before.
LEMMA TakeKeeps == DriverInv /\ TakeTimestep => DriverInv'
<1> SUFFICES ASSUME DriverInv, TakeTimestep PROVE DriverInv'
  OBVIOUS
<1> USE TimeDriverAssumption
<1> DEFINE popped == IF heap # {} /\ Head = now THEN Due ELSE {}
           woken == {i \in Sleeps : \E e \in popped : e.id = i /\ e.task = waiter[i]}
<1>1. /\ pc = "step" /\ pc' = "poll" /\ heap' = heap \ popped
      /\ runnable' = runnable \cup {e.task : e \in popped}
      /\ status' = [i \in Sleeps |-> IF i \in woken THEN "held" ELSE status[i]]
      /\ waiter' = [i \in Sleeps |-> IF i \in woken THEN None ELSE waiter[i]]
      /\ UNCHANGED <<now, emitted, deadline, holder, running, events, messages, stale, warped>>
  BY DEF TakeTimestep, Wake, history
<1>2. popped \subseteq heap
  BY DEF Due
<1>3. ~warped => \A e \in heap' : e.deadline > now
  <2> SUFFICES ASSUME ~warped PROVE \A e \in heap' : e.deadline > now
    OBVIOUS
  <2>1. ASSUME NEW e \in heap' PROVE e.deadline # now
    <3>1. CASE Head = now
      BY <1>1, <3>1 DEF Due
    <3>2. CASE Head # now
      <4> DEFINE S == {f.deadline : f \in heap}
      <4>1. e \in heap /\ S # {} /\ S \subseteq Nat
        BY <1>1 DEF DriverInv, TypeOK, Times
      <4>2. Min(S) \in S /\ \A y \in S : Min(S) <= y
        BY <4>1, MinOf
      <4>3. Head = Min(S)
        BY DEF Head
      <4> HIDE DEF S
      <4>4. e.deadline \in S /\ \A y \in S : y \in Nat /\ y >= now
        BY <4>1, <1>1 DEF S, DriverInv, HeapAhead
      <4>5. now \in Nat
        BY DEF DriverInv, TypeOK, Times
      <4> QED
        BY <3>2, <4>2, <4>3, <4>4, <4>5
    <3> QED
      BY <3>1, <3>2
  <2>2. ASSUME NEW e \in heap' PROVE e.deadline >= now /\ e.deadline \in Nat /\ now \in Nat
    BY <1>1 DEF DriverInv, HeapAhead, TypeOK, Times
  <2> QED
    BY <2>1, <2>2
<1>9. \A i \in woken : status[i] = "waiting"
  BY <1>2 DEF DriverInv, TypeOK, HolderInv
<1> HIDE DEF popped
<1>4. TypeOK'
  <2>1. \A e \in popped : e.task \in Tasks
    BY <1>2 DEF DriverInv, TypeOK
  <2>2. heap' \subseteq heap
    BY <1>1
  <2>3. status' \in [Sleeps -> {"free", "held", "waiting", "dropped"}]
    BY <1>1 DEF DriverInv, TypeOK
  <2>4. waiter' \in [Sleeps -> Tasks \cup {None}]
    BY <1>1 DEF DriverInv, TypeOK
  <2> QED
    BY <1>1, <2>1, <2>2, <2>3, <2>4 DEF DriverInv, TypeOK
<1>5. WaiterRegistered'
  <2> SUFFICES ASSUME NEW i \in Waited' PROVE Registered(i)'
    BY DEF WaiterRegistered
  <2>1. i \in Sleeps /\ i \in Waited /\ i \notin woken
    BY <1>1 DEF Waited
  <2>2. PICK e \in heap : e.id = i /\ e.task = waiter[i] /\ e.deadline = deadline[i]
    BY <2>1 DEF DriverInv, WaiterRegistered, Registered
  <2>3. e \notin popped
    BY <2>1, <2>2
  <2> QED
    BY <1>1, <2>1, <2>2, <2>3 DEF Registered
<1>6. EntryInv' /\ HolderInv'
  <2>1. \A e \in heap : e.id \in Sleeps
    BY DEF DriverInv, TypeOK
  <2>2. \A i \in Sleeps : /\ status'[i] = "free" => status[i] = "free"
                          /\ status[i] = "dropped" => status'[i] = "dropped"
    BY <1>1, <1>9
  <2>3. EntryInv'
    BY <1>1, <2>1, <2>2 DEF DriverInv, EntryInv
  <2> QED
    BY <1>1, <1>9, <2>3 DEF DriverInv, HolderInv
<1>7. HeapAhead'
  BY <1>1, <1>3 DEF HeapAhead
<1>8. AgendaInv'
  BY <1>1 DEF DriverInv, AgendaInv, AgendaAhead, Agenda
<1> QED
  BY <1>4, <1>5, <1>6, <1>7, <1>8 DEF DriverInv

\* The scheduler takes tasks until there is none.
LEMMA ScheduleKeeps ==
    DriverInv /\ (Deadlocked \/ \E t \in Tasks : PollTask(t)) => DriverInv'
<1> SUFFICES ASSUME DriverInv, Deadlocked \/ \E t \in Tasks : PollTask(t) PROVE DriverInv'
  OBVIOUS
<1> USE TimeDriverAssumption DEF PollTask, Deadlocked, driver, sleeps, sim, history
<1>1. TypeOK'
  BY DEF DriverInv, TypeOK
<1>2. WaiterRegistered' /\ EntryInv' /\ HolderInv' /\ HeapAhead'
  BY DEF DriverInv, WaiterRegistered, Waited, Registered, EntryInv, HolderInv, HeapAhead
<1>3. AgendaInv'
  BY DEF DriverInv, AgendaInv, AgendaAhead, Agenda
<1> QED
  BY <1>1, <1>2, <1>3 DEF DriverInv

\* next_wakeup keeps silent only of a time that it has announced and that is
\* still to come.
LEMMA NextWakeupKeeps == DriverInv /\ NextWakeup => DriverInv'
<1> SUFFICES ASSUME DriverInv, NextWakeup PROVE DriverInv'
  OBVIOUS
<1> USE TimeDriverAssumption
<1>1. /\ pc = "next" /\ pc' = "pop" /\ running = None
      /\ UNCHANGED <<now, heap, deadline, status, holder, waiter, runnable, running, messages, stale, warped>>
  BY DEF NextWakeup, sleeps, history, DriverInv, AgendaInv
<1>2. WaiterRegistered' /\ EntryInv' /\ HolderInv' /\ HeapAhead'
  BY <1>1 DEF DriverInv, WaiterRegistered, Waited, Registered, EntryInv, HolderInv, HeapAhead
<1>3. CASE heap = {}
  <2>1. UNCHANGED <<emitted, events>>
    BY <1>3 DEF NextWakeup
  <2>2. TypeOK'
    BY <1>1, <2>1 DEF DriverInv, TypeOK
  <2>3. AgendaInv'
    BY <1>1, <1>3, <2>1 DEF DriverInv, AgendaInv, AgendaAhead, Agenda
  <2> QED
    BY <1>2, <2>2, <2>3 DEF DriverInv
<1>4. CASE heap # {}
  <2>1. /\ Head \in Times /\ (~warped => Head > now) /\ \A e \in heap : Head <= e.deadline
    <3> DEFINE S == {f.deadline : f \in heap}
    <3>1. S # {} /\ S \subseteq Nat /\ S \subseteq Times /\ (~warped => \A y \in S : y > now)
      BY <1>1, <1>4 DEF DriverInv, TypeOK, Times, HeapAhead
    <3>2. Min(S) \in S /\ \A y \in S : Min(S) <= y
      BY <3>1, MinOf
    <3>3. \A e \in heap : e.deadline \in S
      OBVIOUS
    <3> HIDE DEF S
    <3>4. Head = Min(S)
      BY DEF Head, S
    <3> QED
      BY <3>1, <3>2, <3>3, <3>4
  <2>2. emitted' = Head
    BY <1>4 DEF NextWakeup
  <2>3. /\ events' \in [Times -> Nat] /\ (~warped => events'[Head] > 0)
        /\ \A u \in Times : events[u] > 0 => events'[u] > 0
        /\ \A u \in Times : u # Head => events'[u] = events[u]
    <3>1. CASE emitted = Head
      <4>1. events' = events /\ Head # None
        BY <2>1, <3>1 DEF NextWakeup, Times
      <4> QED
        BY <2>1, <3>1, <4>1 DEF DriverInv, TypeOK, AgendaInv, AgendaAhead
    <3>2. CASE emitted # Head
      <4>1. events' = [events EXCEPT ![Head] = @ + 1]
        BY <1>4, <3>2 DEF NextWakeup
      <4> QED
        BY <2>1, <4>1 DEF DriverInv, TypeOK
    <3> QED
      BY <3>1, <3>2
  <2>4. TypeOK'
    BY <1>1, <2>1, <2>2, <2>3 DEF DriverInv, TypeOK
  <2>5. AgendaInv'
    <3>1. ASSUME ~warped PROVE AgendaAhead'
      <4>1. Head \in Agenda'
        BY <2>1, <2>3, <3>1 DEF Agenda
      <4>2. \A t \in Agenda' : t = Head \/ t \in Agenda
        BY <1>1, <2>3 DEF Agenda
      <4>3. Head >= now
        BY <2>1, <3>1 DEF DriverInv, TypeOK, Times
      <4>4. \A t \in Agenda' : t >= now
        BY <3>1, <4>2, <4>3 DEF DriverInv, AgendaInv, AgendaAhead
      <4> QED
        BY <1>1, <2>1, <2>2, <2>3, <3>1, <4>1, <4>4 DEF AgendaAhead
    <3> QED
      BY <1>1, <3>1 DEF AgendaInv
  <2> QED
    BY <1>2, <2>4, <2>5 DEF DriverInv
<1> QED
  BY <1>3, <1>4

-----------------------------------------------------------------------------
(* The theorems *)

LEMMA DriverStep == DriverInv /\ [Next]_vars => DriverInv'
<1> SUFFICES ASSUME DriverInv, [Next]_vars PROVE DriverInv'
  OBVIOUS
<1>1. CASE TaskCall
  BY <1>1, NewKeeps, PollKeeps, ResetKeeps, HandKeeps, SetNowKeeps DEF TaskCall
<1>2. CASE EndPoll
  BY <1>2, EndPollKeeps
<1>3. CASE LoopStep
  BY <1>3, PopKeeps, TakeKeeps, ScheduleKeeps, NextWakeupKeeps DEF LoopStep
<1>4. CASE UNCHANGED vars
  <2> USE <1>4 DEF vars, driver, sleeps, sim, history, DriverInv
  <2>1. TypeOK'
    BY DEF TypeOK
  <2>2. WaiterRegistered' /\ EntryInv' /\ HolderInv' /\ HeapAhead'
    BY DEF WaiterRegistered, Waited, Registered, EntryInv, HolderInv, HeapAhead
  <2>3. AgendaInv'
    BY DEF AgendaInv, AgendaAhead, Agenda
  <2> QED
    BY <2>1, <2>2, <2>3
<1> QED
  BY <1>1, <1>2, <1>3, <1>4 DEF Next

LEMMA DriverSuffices == DriverInv => SleepsCovered
<1> SUFFICES ASSUME DriverInv PROVE SleepsCovered
  OBVIOUS
<1>1. ASSUME NEW i \in Waited PROVE \E e \in heap : e.deadline = deadline[i]
  BY <1>1 DEF DriverInv, WaiterRegistered, Registered
<1>2. NoOverdueSleep
  BY <1>1 DEF DriverInv, HeapAhead, NoOverdueSleep, Quiet
<1>3. AgendaCoversSleeps
  BY <1>1 DEF DriverInv, AgendaInv, AgendaAhead, AgendaCoversSleeps
<1> QED
  BY <1>2, <1>3 DEF DriverInv, SleepsCovered

\* Whatever tasks do with their Sleeps: one that was last polled Pending has an
\* entry at its deadline with the waker of that poll, unless the poll found the
\* entry of another task; and the loop has an event no later, and the clock has
\* not passed it, unless a task has reset a registered Sleep to now or earlier
\* or has set the clock over what was to come (time/driver/mod.rs:
\* wake_sleeper, reset_sleeper, take_timestep, next_wakeup).
THEOREM SleepsAreCovered == Spec => []SleepsCovered
<1>1. Init => DriverInv
  BY DriverInit
<1>2. DriverInv /\ [Next]_vars => DriverInv'
  BY DriverStep
<1> QED
  BY <1>1, <1>2, DriverSuffices, PTL DEF Spec
=============================================================================
