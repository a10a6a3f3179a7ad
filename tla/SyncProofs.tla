----------------------------- MODULE SyncProofs -----------------------------
(***************************************************************************)
(* Notify, for any number of futures, notifiers, tasks and calls.  Who has *)
(* the lock is told by where the threads stand (Held), the list holds the  *)
(* nodes that wait and were not told (Listed), and the word says WAITING   *)
(* when the list is not empty and nobody has the lock, and under the lock  *)
(* is what was loaded but for EMPTY and NOTIFIED (Tagged).  From these no  *)
(* assertion fails, every step is one of the contract or a stutter, and    *)
(* with Told nobody who was told sleeps on.                                *)
(*                                                                         *)
(* Watch and Barrier, which wait through it: what a receiver is shown      *)
(* under its Ref, and marks as seen, is one value; a generation opens with *)
(* exactly its N arrivals.                                                 *)
(*                                                                         *)
(* Broadcast, for a ring of any size and any number of handles: below      *)
(* Front the last Cap positions are in their slots (Ring), and each slot   *)
(* counts the receivers that owe its value a look, and keeps the value     *)
(* while there is one (Counting), but for the slot of the marker when the  *)
(* close fell into the drop of a receiver.  From these every receiver gets *)
(* every value in turn, and is told that it lagged only where the ring     *)
(* wrapped.                                                                *)
(***************************************************************************)
EXTENDS MCNotify, MCWatch, MCBroadcast, Integers, SequenceTheorems,
        FiniteSetTheorems, TLAPS

-----------------------------------------------------------------------------
(* Notify: the inductive invariant                                         *)

\* Where a thread may stand.
Places == {"idle", "one_cas", "one_lock", "notify_locked", "notify_store", "wake",
           "poll_cas", "poll_lock", "register"}

\* The kinds of the fields.
Types ==
    /\ state \in Word
    /\ lock \in Actors \cup {Nobody}
    /\ waiters \in Seq(Futures)
    /\ fut \in [Futures -> {"None", "Init", "Waiting", "Done"}]
    /\ calls0 \in [Futures -> 0 .. MaxCalls]
    /\ notified \in [Futures -> {"None", "OneWaiter", "AllWaiters"}]
    /\ waker \in [Futures -> Tasks \cup {NoTask}]
    /\ owner \in [Futures -> Tasks \cup {NoTask}]
    /\ pc \in [Actors -> Places]
    /\ curr \in [Actors -> Word]
    /\ arg \in [Actors -> Tasks \cup {NoTask}]
    /\ wakes \in [Actors -> SUBSET (Futures \X Tasks)]
    /\ woken \in SUBSET Futures

\* Where a thread has the lock.
Locked == {"notify_locked", "notify_store", "register"}
\* Where a future is in its first poll.
Polling == {"poll_cas", "poll_lock", "register"}

\* Where a thread stands says whether it has the lock, and what its future is.
Held ==
    /\ \A a \in Actors : lock = a <=> pc[a] \in Locked
    /\ \A n \in Notifiers :
        /\ pc[n] \notin Polling
        /\ pc[n] = "one_cas" => curr[n].tag # "WAITING"
    /\ \A f \in Futures :
        /\ pc[f] \notin {"one_cas", "one_lock"}
        /\ pc[f] \in Polling => fut[f] = "Init"
        /\ pc[f] \in {"notify_locked", "notify_store"} =>
              fut[f] = "Waiting" /\ notified[f] = "OneWaiter"
        /\ pc[f] = "wake" => fut[f] = "None"
        /\ pc[f] = "register" => calls0[f] = state.calls

\* Nobody is in a queue twice.
Once(q) == \A i, j \in 1 .. Len(q) : q[i] = q[j] => i = j

\* The list holds the nodes that wait and were not told, each of them once.
Listed ==
    /\ Once(waiters)
    /\ \A f \in Futures :
        /\ f \in Range(waiters) <=> fut[f] = "Waiting" /\ notified[f] = "None"
        /\ notified[f] # "None" => fut[f] = "Waiting"

\* Under the lock the word is as it was loaded, but for EMPTY and NOTIFIED.
Tagged ==
    /\ lock = Nobody => (state.tag = "WAITING" <=> waiters # <<>>)
    /\ \A a \in Actors : pc[a] \in Locked =>
        /\ curr[a].calls = state.calls
        /\ curr[a].tag = "WAITING" <=> state.tag = "WAITING"
        /\ curr[a].tag # "WAITING" => waiters = <<>>
        /\ pc[a] = "notify_store" => curr[a].tag # "WAITING"
        /\ pc[a] = "notify_locked" /\ curr[a].tag = "WAITING" => waiters # <<>>

\* The inductive invariant.
NotifyInv == Types /\ Held /\ Listed /\ Tagged

\* Who is in a queue has a place in it.
LEMMA RangeOf ==
    ASSUME NEW S, NEW q \in Seq(S)
    PROVE  Range(q) = {q[i] : i \in 1 .. Len(q)} /\ Range(q) \subseteq S
  BY DEF Range

\* The front of a queue leaves it.
LEMMA Popped ==
    ASSUME NEW S, NEW q \in Seq(S), Once(q), q # <<>>
    PROVE  /\ Tail(q) \in Seq(S) /\ Once(Tail(q))
           /\ Head(q) \in S /\ Head(q) \in Range(q)
           /\ \A x : x \in Range(Tail(q)) <=> x \in Range(q) /\ x # Head(q)
<1>1. /\ Len(q) \in Nat /\ Len(q) > 0 /\ Tail(q) \in Seq(S) /\ Len(Tail(q)) = Len(q) - 1
      /\ Head(q) = q[1] /\ \A i \in 1 .. Len(q) - 1 : Tail(q)[i] = q[i + 1]
  OBVIOUS
<1>2. q[1] \in S /\ q[1] \in Range(q)
  BY <1>1, RangeOf
<1> DEFINE t == Tail(q)
<1>3. t \in Seq(S) /\ Len(t) = Len(q) - 1 /\ \A i \in 1 .. Len(t) : t[i] = q[i + 1]
  BY <1>1
<1> HIDE DEF t
<1>4. Once(t)
  BY <1>1, <1>3 DEF Once
<1>5. ASSUME NEW x \in Range(t) PROVE x \in Range(q) /\ x # q[1]
  <2>1. PICK i \in 1 .. Len(t) : t[i] = x
    BY <1>3, RangeOf
  <2>2. i + 1 \in 1 .. Len(q) /\ q[i + 1] = x /\ i + 1 # 1 /\ 1 \in 1 .. Len(q)
    BY <2>1, <1>1, <1>3
  <2> QED BY <2>2, RangeOf DEF Once
<1>6. ASSUME NEW x \in Range(q), x # q[1] PROVE x \in Range(t)
  <2>1. PICK i \in 1 .. Len(q) : q[i] = x
    BY RangeOf
  <2>2. i - 1 \in 1 .. Len(t) /\ (i - 1) + 1 = i
    BY <2>1, <1>1, <1>3, <1>6
  <2>3. t[i - 1] = x
    BY <2>1, <2>2, <1>3
  <2> QED BY <2>2, <2>3, <1>3, RangeOf
<1> QED BY <1>1, <1>2, <1>3, <1>4, <1>5, <1>6 DEF t

\* Somebody who is not in a queue joins it.
LEMMA Pushed ==
    ASSUME NEW S, NEW q \in Seq(S), Once(q), NEW e \in S, e \notin Range(q)
    PROVE  /\ Append(q, e) \in Seq(S) /\ Once(Append(q, e)) /\ Append(q, e) # <<>>
           /\ \A x : x \in Range(Append(q, e)) <=> x \in Range(q) \/ x = e
<1> DEFINE t == Append(q, e)
<1>1. /\ t \in Seq(S) /\ Len(t) = Len(q) + 1 /\ Len(q) \in Nat /\ t # <<>>
      /\ t[Len(q) + 1] = e /\ \A i \in 1 .. Len(q) : t[i] = q[i]
  OBVIOUS
<1> HIDE DEF t
<1>2. \A i \in 1 .. Len(q) : q[i] # e
  BY RangeOf
<1>3. Once(t)
  BY <1>1, <1>2 DEF Once
<1>4. ASSUME NEW x \in Range(t) PROVE x \in Range(q) \/ x = e
  BY <1>1, RangeOf
<1>5. ASSUME NEW x, x \in Range(q) \/ x = e PROVE x \in Range(t)
  <2>1. CASE x = e
    BY <2>1, <1>1, RangeOf
  <2>2. CASE x \in Range(q)
    <3>1. PICK i \in 1 .. Len(q) : q[i] = x
      BY <2>2, RangeOf
    <3>2. i \in 1 .. Len(t) /\ t[i] = x
      BY <3>1, <1>1
    <3> QED BY <3>2, <1>1, RangeOf
  <2> QED BY <1>5, <2>1, <2>2
<1> QED BY <1>1, <1>3, <1>4, <1>5 DEF t

\* Who is in a queue and leaves it: the others keep their order.
LEMMA Unlinked ==
    ASSUME NEW S, NEW q \in Seq(S), Once(q), NEW e
    PROVE  /\ Without(q, e) \in Seq(S)
           /\ Once(Without(q, e))
           /\ Range(Without(q, e)) = Range(q) \ {e}
           /\ q # <<>> /\ q[1] # e => Without(q, e) # <<>> /\ Without(q, e)[1] = q[1]
<1> DEFINE I == {i \in 1 .. Len(q) : q[i] = e}
           r == Without(q, e)
<1>1. CASE I = {}
  <2>1. r = q
    BY <1>1 DEF Without
  <2>2. e \notin Range(q)
    BY <1>1, RangeOf
  <2> QED
    BY <2>1, <2>2
<1>2. CASE I # {}
  <2> DEFINE j == CHOOSE x \in 1 .. Len(q) : q[x] = e
  <2>1. \E x \in 1 .. Len(q) : q[x] = e
    BY <1>2
  <2>2. j \in 1 .. Len(q) /\ q[j] = e
    BY <2>1
  <2>3. r = SubSeq(q, 1, j - 1) \o SubSeq(q, j + 1, Len(q))
    BY <2>1 DEF Without
  <2> HIDE DEF j
  <2> HIDE DEF r
  <2>4. j \in 1 .. Len(q) /\ q[j] = e /\ Len(q) \in Nat
    BY <2>2
  <2> DEFINE a == SubSeq(q, 1, j - 1)
             b == SubSeq(q, j + 1, Len(q))
             n == Len(q)
  <2>5. /\ a \in Seq(S) /\ Len(a) = j - 1
        /\ b \in Seq(S) /\ Len(b) = n - j
        /\ \A i \in 1 .. j - 1 : a[i] = q[i]
        /\ \A i \in 1 .. n - j : b[i] = q[j + i]
    BY <2>4
  <2>6. r = a \o b /\ j \in 1 .. n /\ n \in Nat
    BY <2>3, <2>4
  <2> HIDE DEF a, b, n
  <2>c. /\ r \in Seq(S) /\ Len(r) = Len(a) + Len(b)
        /\ \A i \in 1 .. Len(a) + Len(b) :
              r[i] = IF i <= Len(a) THEN a[i] ELSE b[i - Len(a)]
    BY <2>5, <2>6, ConcatProperties
  <2>l. Len(r) = n - 1
    BY <2>5, <2>6, <2>c
  <2>7. ASSUME NEW i \in 1 .. Len(r)
        PROVE  r[i] = IF i < j THEN q[i] ELSE q[i + 1]
    <3>1. CASE i < j
      <4>1. i <= Len(a) /\ i \in 1 .. j - 1 /\ i \in 1 .. Len(a) + Len(b)
        BY <3>1, <2>5, <2>6, <2>l
      <4> QED
        BY <3>1, <4>1, <2>5, <2>c
    <3>2. CASE ~(i < j)
      <4>1. /\ ~(i <= Len(a)) /\ i - Len(a) \in 1 .. n - j /\ i \in 1 .. Len(a) + Len(b)
            /\ j + (i - Len(a)) = i + 1
        BY <3>2, <2>5, <2>6, <2>l
      <4>2. r[i] = b[i - Len(a)] /\ b[i - Len(a)] = q[i + 1]
        BY <4>1, <2>5, <2>c
      <4> QED
        BY <3>2, <4>2
    <3> QED
      BY <3>1, <3>2
  <2>8. Once(r)
    <3> SUFFICES ASSUME NEW x \in 1 .. Len(r), NEW y \in 1 .. Len(r), r[x] = r[y]
                 PROVE  x = y
      BY DEF Once
    <3> DEFINE nth(i) == IF i < j THEN i ELSE i + 1
    <3>1. ASSUME NEW i \in 1 .. Len(r)
          PROVE  nth(i) \in 1 .. n /\ r[i] = q[nth(i)]
      <4>1. i \in Nat /\ i >= 1 /\ i <= n - 1 /\ j \in Nat /\ j >= 1
        BY <2>6, <2>l
      <4>2. nth(i) \in 1 .. n
        BY <4>1, <2>6
      <4> QED BY <4>2, <2>7
    <3>2. nth(x) = nth(y)
      <4> HIDE DEF nth
      <4> QED
        BY <3>1 DEF Once, n
    <3> QED
      BY <3>2, <2>6, <2>l
  <2>9. ASSUME NEW x \in Range(r) PROVE x \in Range(q) \ {e}
    <3>1. PICK i \in 1 .. Len(r) : r[i] = x
      BY <2>c, RangeOf
    <3>2. PICK m \in 1 .. Len(q) : m # j /\ q[m] = x
      <4>1. CASE i < j
        BY <4>1, <3>1, <2>4, <2>6, <2>7, <2>l DEF n
      <4>2. CASE ~(i < j)
        BY <4>2, <3>1, <2>4, <2>6, <2>7, <2>l DEF n
      <4> QED
        BY <4>1, <4>2
    <3> QED
      BY <3>2, <2>4, RangeOf DEF Once
  <2>10. ASSUME NEW x \in Range(q) \ {e} PROVE x \in Range(r)
    <3>1. PICK m \in 1 .. Len(q) : q[m] = x
      BY RangeOf
    <3>2. m # j
      BY <3>1, <2>4
    <3>3. \E i \in 1 .. Len(r) : r[i] = x
      <4>1. CASE m < j
        <5>1. m \in 1 .. Len(r)
          BY <4>1, <2>6, <2>l
        <5> QED
          BY <5>1, <4>1, <3>1, <2>7
      <4>2. CASE ~(m < j)
        <5>1. m - 1 \in 1 .. Len(r) /\ ~(m - 1 < j) /\ (m - 1) + 1 = m
          BY <4>2, <3>2, <2>4, <2>6, <2>l DEF n
        <5> QED
          BY <5>1, <3>1, <2>7
      <4> QED
        BY <4>1, <4>2
    <3> QED
      BY <3>3, <2>c, RangeOf
  <2>11. ASSUME q[1] # e PROVE r # <<>> /\ r[1] = q[1]
    <3>1. 1 < j /\ 1 \in 1 .. Len(r)
      BY <2>11, <2>4, <2>6, <2>l DEF n
    <3>2. r[1] = q[1]
      BY <3>1, <2>7
    <3>3. Len(<<>>) = 0
      OBVIOUS
    <3> QED
      BY <3>1, <3>2, <3>3
  <2> QED
    BY <2>c, <2>8, <2>9, <2>10, <2>11 DEF r
<1> QED
  BY <1>1, <1>2

\* A new Notify has no waiters and no notification.
LEMMA NotifyInit == Init => NotifyInv
  <1> SUFFICES ASSUME Init PROVE NotifyInv
    OBVIOUS
  <1>1. Types
    BY MaxCallsAssumption DEF Init, Types, Word, Zero, Tags, Places
  <1>2. Range(waiters) = {}
    BY DEF Init, Range
  <1> QED
    BY <1>1, <1>2, ActorsAssumption
       DEF Init, NotifyInv, Held, Listed, Tagged, Once, Actors, Nobody, Locked, Polling, Zero

\* The thread a goes to l, with the locals c, k and w; the others stand still.
Moves(a, l, c, k, w) ==
    /\ /\ pc' \in [Actors -> Places]
       /\ pc'[a] = l /\ \A b \in Actors \ {a} : pc'[b] = pc[b]
    /\ /\ curr' \in [Actors -> Word]
       /\ curr'[a] = c /\ \A b \in Actors \ {a} : curr'[b] = curr[b]
    /\ /\ arg' \in [Actors -> Tasks \cup {NoTask}]
       /\ arg'[a] = k /\ \A b \in Actors \ {a} : arg'[b] = arg[b]
    /\ /\ wakes' \in [Actors -> SUBSET (Futures \X Tasks)]
       /\ wakes'[a] = w /\ \A b \in Actors \ {a} : wakes'[b] = wakes[b]

\* The words that set_state makes.
LEMMA Words ==
    /\ Zero \in Word /\ Zero.tag = "EMPTY"
    /\ \A w \in Word : w.calls \in 0 .. MaxCalls /\ w.tag \in Tags
    /\ \A w \in Word, t \in Tags :
          set_state(w, t) \in Word /\ set_state(w, t).calls = w.calls /\ set_state(w, t).tag = t
  BY MaxCallsAssumption DEF Word, Zero, Tags, set_state

\* A step that loads the word again.
LEMMA Loads ==
    ASSUME Types, NEW a \in Actors, NEW l \in Places, Goto(a, l), Load(a)
    PROVE  Moves(a, l, state, arg[a], wakes[a])
  BY DEF Types, Goto, Load, Moves

\* A call that returns, with wakers to wake or without.
LEMMA Returns ==
    ASSUME Types, NEW a \in Actors, NEW w \in SUBSET (Futures \X Tasks), Return(a, w)
    PROVE  Moves(a, IF w = {} THEN "idle" ELSE "wake", Zero, NoTask, w)
<1>1. "idle" \in Places /\ "wake" \in Places
  BY DEF Places
<1> QED
  BY <1>1, Words DEF Types, Goto, Return, Moves

\* notify_one loads the word.
LEMMA OneLoadKeeps ==
    ASSUME NotifyInv, NEW n \in Notifiers, OneLoad(n)
    PROVE  NotifyInv'
<1> USE ActorsAssumption
<1> DEFINE l == IF state.tag = "WAITING" THEN "one_lock" ELSE "one_cas"
<1>0. n \in Actors /\ l \in Places /\ pc[n] = "idle"
  BY DEF Actors, Places, OneLoad
<1>1. Moves(n, l, state, arg[n], wakes[n])
  BY <1>0, Loads DEF OneLoad, NotifyInv
<1>2. UNCHANGED <<state, lock, waiters, fut, calls0, notified, waker, owner, woken>>
  BY DEF OneLoad, node
<1> HIDE DEF l
<1>3. Types'
  BY <1>1, <1>2 DEF NotifyInv, Types, Moves
<1>4. Held'
  BY <1>0, <1>1, <1>2 DEF NotifyInv, Held, Moves, Locked, Polling, Actors, l
<1>5. Listed'
  BY <1>2 DEF NotifyInv, Listed
<1>6. Tagged'
  BY <1>0, <1>1, <1>2 DEF NotifyInv, Tagged, Moves, Locked, l
<1> QED BY <1>3, <1>4, <1>5, <1>6 DEF NotifyInv

\* notify_one takes the lock.
LEMMA OneLockKeeps ==
    ASSUME NotifyInv, NEW n \in Notifiers, OneLock(n)
    PROVE  NotifyInv'
<1> USE ActorsAssumption
<1>0. n \in Actors /\ "notify_locked" \in Places /\ pc[n] = "one_lock" /\ lock = Nobody /\ lock' = n
  BY DEF Actors, Places, OneLock, Lock
<1>1. Moves(n, "notify_locked", state, arg[n], wakes[n])
  BY <1>0, Loads DEF OneLock, NotifyInv
<1>2. UNCHANGED <<state, waiters, fut, calls0, notified, waker, owner, woken>>
  BY DEF OneLock, node
<1>3. Types'
  BY <1>0, <1>1, <1>2 DEF NotifyInv, Types, Moves
<1>4. Held'
  BY <1>0, <1>1, <1>2 DEF NotifyInv, Held, Moves, Locked, Polling, Actors, Nobody
<1>5. Listed'
  BY <1>2 DEF NotifyInv, Listed
<1>6. Tagged'
  BY <1>0, <1>1, <1>2 DEF NotifyInv, Held, Tagged, Moves, Locked, Nobody, Actors
<1> QED BY <1>3, <1>4, <1>5, <1>6 DEF NotifyInv

\* The exchange of EMPTY for NOTIFIED, without the lock.
LEMMA OneExchangeKeeps ==
    ASSUME NotifyInv, NEW n \in Notifiers, OneExchange(n)
    PROVE  NotifyInv'
<1> USE ActorsAssumption
<1>0. n \in Actors /\ pc[n] = "one_cas" /\ curr[n] \in Word /\ state \in Word /\ state.tag \in Tags
  BY Words DEF Actors, OneExchange, NotifyInv, Types
<1>2. UNCHANGED <<lock, waiters, fut, calls0, notified, waker, owner, woken>>
  BY DEF OneExchange, node
<1>5. Listed'
  BY <1>2 DEF NotifyInv, Listed
<1>a. CASE state = curr[n] /\ state' = set_state(curr[n], "NOTIFIED") /\ Return(n, {})
  <2>1. Moves(n, "idle", Zero, NoTask, {})
    BY <1>0, <1>a, Returns DEF NotifyInv
  <2>2. state' \in Word /\ state'.calls = state.calls /\ state'.tag = "NOTIFIED" /\ state.tag # "WAITING"
    BY <1>0, <1>a, Words DEF NotifyInv, Held, Tags
  <2>3. Types'
    BY <1>2, <2>1, <2>2 DEF NotifyInv, Types, Moves
  <2>4. Held'
    BY <1>0, <1>2, <2>1, <2>2 DEF NotifyInv, Held, Moves, Locked, Polling, Actors
  <2>6. Tagged'
    BY <1>0, <1>2, <2>1, <2>2 DEF NotifyInv, Tagged, Moves, Locked
  <2> QED BY <2>3, <2>4, <1>5, <2>6 DEF NotifyInv
<1>b. CASE /\ state # curr[n] /\ UNCHANGED state /\ Load(n)
           /\ Goto(n, IF state.tag = "WAITING" THEN "one_lock" ELSE "one_cas")
  <2> DEFINE l == IF state.tag = "WAITING" THEN "one_lock" ELSE "one_cas"
  <2>0. l \in Places
    BY DEF Places
  <2>1. Moves(n, l, state, arg[n], wakes[n])
    BY <1>0, <1>b, <2>0, Loads DEF NotifyInv
  <2> HIDE DEF l
  <2>3. Types'
    BY <1>2, <1>b, <2>1 DEF NotifyInv, Types, Moves
  <2>4. Held'
    BY <1>0, <1>2, <1>b, <2>1 DEF NotifyInv, Held, Moves, Locked, Polling, Actors, l
  <2>6. Tagged'
    BY <1>0, <1>2, <1>b, <2>1 DEF NotifyInv, Tagged, Moves, Locked, l
  <2> QED BY <2>3, <2>4, <1>5, <2>6 DEF NotifyInv
<1> QED BY <1>a, <1>b DEF OneExchange

\* The future a is gone, and the nodes of the others are as ntf and wkr say.
Ends(a, ntf, wkr) ==
    /\ /\ fut' \in [Futures -> {"None", "Init", "Waiting", "Done"}]
       /\ calls0' \in [Futures -> 0 .. MaxCalls]
       /\ notified' \in [Futures -> {"None", "OneWaiter", "AllWaiters"}]
       /\ waker' \in [Futures -> Tasks \cup {NoTask}]
       /\ owner' \in [Futures -> Tasks \cup {NoTask}]
       /\ woken' \in SUBSET Futures
    /\ \A f \in Futures \ {a} :
          /\ fut'[f] = fut[f] /\ calls0'[f] = calls0[f] /\ owner'[f] = owner[f]
          /\ notified'[f] = ntf[f] /\ waker'[f] = wkr[f]
          /\ f \in woken' <=> f \in woken
    /\ a \in Futures =>
          /\ fut'[a] = "None" /\ calls0'[a] = 0 /\ owner'[a] = NoTask
          /\ notified'[a] = "None" /\ waker'[a] = NoTask /\ a \notin woken'

\* Finished and Cleared, future by future.
LEMMA Clears ==
    ASSUME Types, NEW a, NEW ntf, NEW wkr,
           ntf \in [Futures -> {"None", "OneWaiter", "AllWaiters"}],
           wkr \in [Futures -> Tasks \cup {NoTask}],
           Finished(a), Cleared(a, ntf, wkr)
    PROVE  Ends(a, ntf, wkr)
<1>1. 0 \in 0 .. MaxCalls
  BY MaxCallsAssumption
<1>2. CASE a \in Futures
  BY <1>1, <1>2 DEF Types, Finished, Cleared, Ends
<1>3. CASE a \notin Futures
  BY <1>3 DEF Types, Finished, Cleared, Ends
<1> QED BY <1>2, <1>3

\* notify_locked finds no waiter and stores NOTIFIED, under the lock.
LEMMA StoreKeeps ==
    ASSUME NotifyInv, NEW a \in Actors, pc[a] \in {"notify_locked", "notify_store"},
           curr[a].tag # "WAITING",
           state' = set_state(curr[a], "NOTIFIED"), Unlock(a), Return(a, {}),
           Finished(a), Cleared(a, notified, waker), UNCHANGED waiters
    PROVE  NotifyInv'
<1> USE ActorsAssumption
<1>0. /\ curr[a] \in Word /\ state \in Word /\ lock = a /\ lock' = Nobody
      /\ curr[a].calls = state.calls /\ state.tag # "WAITING" /\ waiters = <<>>
  BY DEF NotifyInv, Types, Unlock, Tagged, Locked
<1>1. Moves(a, "idle", Zero, NoTask, {})
  BY Returns DEF NotifyInv
<1>2. state' \in Word /\ state'.calls = state.calls /\ state'.tag = "NOTIFIED"
  BY <1>0, Words DEF Tags
<1>3. Ends(a, notified, waker)
  BY Clears DEF NotifyInv, Types
<1>4. Types'
  BY <1>0, <1>1, <1>2, <1>3 DEF NotifyInv, Types, Moves, Ends
<1>5. Held'
  <2>1. \A b \in Actors : lock' = b <=> pc'[b] \in Locked
    BY <1>0, <1>1 DEF NotifyInv, Held, Moves, Locked, Actors, Nobody
  <2>2. ASSUME NEW n \in Notifiers
        PROVE  pc'[n] \notin Polling /\ (pc'[n] = "one_cas" => curr'[n].tag # "WAITING")
    BY <1>1 DEF NotifyInv, Held, Moves, Polling, Actors
  <2>3. ASSUME NEW f \in Futures
        PROVE  /\ pc'[f] \notin {"one_cas", "one_lock"}
               /\ pc'[f] \in Polling => fut'[f] = "Init"
               /\ pc'[f] \in {"notify_locked", "notify_store"} =>
                     fut'[f] = "Waiting" /\ notified'[f] = "OneWaiter"
               /\ pc'[f] = "wake" => fut'[f] = "None"
               /\ pc'[f] = "register" => calls0'[f] = state'.calls
    <3>1. CASE f = a
      BY <1>1, <3>1 DEF Moves, Polling
    <3>2. CASE f # a
      BY <1>1, <1>2, <1>3, <3>2 DEF NotifyInv, Held, Moves, Ends, Actors
    <3> QED BY <3>1, <3>2
  <2> QED BY <2>1, <2>2, <2>3 DEF Held
<1>6. a \notin Futures \/ notified[a] = "OneWaiter"
  BY DEF NotifyInv, Held
<1>7. Listed'
  BY <1>0, <1>3, <1>6 DEF NotifyInv, Listed, Ends
<1>8. Tagged'
  BY <1>0, <1>1, <1>2 DEF NotifyInv, Held, Tagged, Moves, Locked
<1> QED BY <1>4, <1>5, <1>7, <1>8 DEF NotifyInv

\* The exchange in notify_locked, which another notify_one may defeat.
LEMMA StoreExchangeKeeps ==
    ASSUME NotifyInv, NEW a \in Actors, StoreExchange(a)
    PROVE  NotifyInv'
<1> USE ActorsAssumption
<1>1. CASE /\ state = curr[a] /\ state' = set_state(curr[a], "NOTIFIED")
           /\ Unlock(a) /\ Return(a, {}) /\ Finished(a) /\ Cleared(a, notified, waker)
  BY <1>1, StoreKeeps DEF StoreExchange
<1>2. CASE /\ Load(a) /\ Goto(a, "notify_store")
           /\ UNCHANGED <<state, lock, fut, calls0, node, owner, woken>>
  <2>0. "notify_store" \in Places /\ state \in Word /\ pc[a] = "notify_locked" /\ curr[a].tag # "WAITING"
    BY DEF Places, NotifyInv, Types, StoreExchange
  <2>1. Moves(a, "notify_store", state, arg[a], wakes[a])
    BY <1>2, <2>0, Loads DEF NotifyInv
  <2>2. UNCHANGED <<state, lock, waiters, fut, calls0, notified, waker, owner, woken>>
    BY <1>2 DEF StoreExchange, node
  <2>3. Types'
    BY <2>1, <2>2 DEF NotifyInv, Types, Moves
  <2>4. Held'
    BY <2>0, <2>1, <2>2 DEF NotifyInv, Held, Moves, Locked, Polling, Actors
  <2>5. Listed'
    BY <2>2 DEF NotifyInv, Listed
  <2>6. Tagged'
    BY <2>0, <2>1, <2>2 DEF NotifyInv, Held, Tagged, Moves, Locked
  <2> QED BY <2>3, <2>4, <2>5, <2>6 DEF NotifyInv
<1> QED BY <1>1, <1>2 DEF StoreExchange

\* The store after a lost exchange.
LEMMA StoreAnywayKeeps ==
    ASSUME NotifyInv, NEW a \in Actors, StoreAnyway(a)
    PROVE  NotifyInv'
<1>1. curr[a].tag # "WAITING"
  BY DEF NotifyInv, Tagged, StoreAnyway, Locked
<1> QED BY <1>1, StoreKeeps DEF StoreAnyway

\* What PopOne does, and that whom it tells is not who tells.
LEMMA Pops ==
    ASSUME NotifyInv, NEW a \in Actors, PopOne(a)
    PROVE  LET w == Head(waiters) IN
           /\ w \in Futures /\ w # a /\ fut[w] = "Waiting" /\ notified[w] = "None"
           /\ waiters' = Tail(waiters) /\ waiters' \in Seq(Futures) /\ Once(waiters')
           /\ \A f : f \in Range(waiters') <=> f \in Range(waiters) /\ f # w
           /\ lock = a /\ lock' = Nobody
           /\ state' \in Word /\ state'.calls = state.calls
           /\ state.tag = "WAITING"
           /\ state'.tag = IF waiters' = <<>> THEN "EMPTY" ELSE "WAITING"
           /\ Taken(w) \in SUBSET (Futures \X Tasks)
           /\ Moves(a, IF Taken(w) = {} THEN "idle" ELSE "wake", Zero, NoTask, Taken(w))
           /\ Ends(a, [notified EXCEPT ![w] = "OneWaiter"], [waker EXCEPT ![w] = NoTask])
<1> DEFINE w == Head(waiters)
<1>1. waiters # <<>> /\ pc[a] = "notify_locked" /\ curr[a].tag = "WAITING" /\ waiters' = Tail(waiters)
  BY DEF PopOne
<1>2. waiters \in Seq(Futures) /\ Once(waiters)
  BY DEF NotifyInv, Types, Listed
<1>3. /\ Tail(waiters) \in Seq(Futures) /\ Once(Tail(waiters))
      /\ w \in Futures /\ w \in Range(waiters)
      /\ \A x : x \in Range(Tail(waiters)) <=> x \in Range(waiters) /\ x # w
  BY <1>1, <1>2, Popped
<1>4. fut[w] = "Waiting" /\ notified[w] = "None"
  BY <1>3 DEF NotifyInv, Listed
<1>5. w # a
  BY <1>1, <1>3, <1>4 DEF NotifyInv, Held
<1>6. lock = a /\ lock' = Nobody
  BY DEF PopOne, Unlock
<1>7. /\ curr[a] \in Word /\ state \in Word
      /\ curr[a].calls = state.calls /\ state.tag = "WAITING"
  BY <1>1 DEF NotifyInv, Types, Tagged, Locked
<1>8. state' = IF Tail(waiters) = <<>> THEN set_state(curr[a], "EMPTY") ELSE state
  BY DEF PopOne
<1>9. /\ state' \in Word /\ state'.calls = state.calls
      /\ state'.tag = IF Tail(waiters) = <<>> THEN "EMPTY" ELSE "WAITING"
  BY <1>7, <1>8, Words DEF Tags
<1>10. Taken(w) \in SUBSET (Futures \X Tasks)
  BY <1>3 DEF Taken, NotifyInv, Types
<1>11. Return(a, Taken(w)) /\ Finished(a)
       /\ Cleared(a, [notified EXCEPT ![w] = "OneWaiter"], [waker EXCEPT ![w] = NoTask])
  BY DEF PopOne
<1>12. Moves(a, IF Taken(w) = {} THEN "idle" ELSE "wake", Zero, NoTask, Taken(w))
  BY <1>10, <1>11, Returns DEF NotifyInv
<1>13. /\ [notified EXCEPT ![w] = "OneWaiter"] \in [Futures -> {"None", "OneWaiter", "AllWaiters"}]
       /\ [waker EXCEPT ![w] = NoTask] \in [Futures -> Tasks \cup {NoTask}]
  BY DEF NotifyInv, Types
<1>14. Ends(a, [notified EXCEPT ![w] = "OneWaiter"], [waker EXCEPT ![w] = NoTask])
  BY <1>11, <1>13, Clears DEF NotifyInv
<1> HIDE DEF w
<1> QED BY <1>1, <1>3, <1>4, <1>5, <1>6, <1>7, <1>9, <1>10, <1>12, <1>14 DEF w

\* notify_locked takes the last waiter of the list and tells it.
LEMMA PopOneKeeps ==
    ASSUME NotifyInv, NEW a \in Actors, PopOne(a)
    PROVE  NotifyInv'
<1> USE ActorsAssumption
<1> DEFINE w == Head(waiters)
           l == IF Taken(w) = {} THEN "idle" ELSE "wake"
<1>1. /\ w \in Futures /\ w # a /\ fut[w] = "Waiting" /\ notified[w] = "None"
      /\ waiters' \in Seq(Futures) /\ Once(waiters')
      /\ \A f : f \in Range(waiters') <=> f \in Range(waiters) /\ f # w
      /\ lock = a /\ lock' = Nobody
      /\ state' \in Word /\ state'.calls = state.calls
      /\ state'.tag = IF waiters' = <<>> THEN "EMPTY" ELSE "WAITING"
      /\ Moves(a, l, Zero, NoTask, Taken(w))
      /\ Ends(a, [notified EXCEPT ![w] = "OneWaiter"], [waker EXCEPT ![w] = NoTask])
  BY Pops
<1>2. l \in {"idle", "wake"}
  OBVIOUS
<1> HIDE DEF w, l
<1>3. /\ \A f \in Futures \ {a, w} : notified'[f] = notified[f]
      /\ notified'[w] = "OneWaiter" /\ fut'[w] = "Waiting"
  BY <1>1 DEF Ends, NotifyInv, Types
<1>4. Types'
  BY <1>1 DEF NotifyInv, Types, Moves, Ends
<1>5. pc[a] = "notify_locked"
  BY DEF PopOne
<1>6. Held'
  <2>1. \A b \in Actors : lock' = b <=> pc'[b] \in Locked
    BY <1>1, <1>2 DEF NotifyInv, Held, Moves, Locked, Actors, Nobody
  <2>2. ASSUME NEW n \in Notifiers
        PROVE  pc'[n] \notin Polling /\ (pc'[n] = "one_cas" => curr'[n].tag # "WAITING")
    BY <1>1, <1>2 DEF NotifyInv, Held, Moves, Polling, Actors
  <2>3. ASSUME NEW f \in Futures
        PROVE  /\ pc'[f] \notin {"one_cas", "one_lock"}
               /\ pc'[f] \in Polling => fut'[f] = "Init"
               /\ pc'[f] \in {"notify_locked", "notify_store"} =>
                     fut'[f] = "Waiting" /\ notified'[f] = "OneWaiter"
               /\ pc'[f] = "wake" => fut'[f] = "None"
               /\ pc'[f] = "register" => calls0'[f] = state'.calls
    <3>1. CASE f = a
      BY <1>1, <1>2, <3>1 DEF Moves, Ends, Polling
    <3>2. CASE f # a
      <4>1. /\ pc'[f] = pc[f] /\ fut'[f] = fut[f] /\ calls0'[f] = calls0[f]
            /\ state'.calls = state.calls
        BY <1>1, <3>2 DEF Moves, Ends, Actors
      <4>2. CASE f = w
        BY <1>1, <1>3, <4>1, <4>2 DEF NotifyInv, Held, Polling
      <4>3. CASE f # w
        BY <1>3, <3>2, <4>1, <4>3 DEF NotifyInv, Held
      <4> QED BY <4>2, <4>3
    <3> QED BY <3>1, <3>2
  <2> QED BY <2>1, <2>2, <2>3 DEF Held
<1>7. a \in Futures => notified[a] = "OneWaiter"
  BY <1>5 DEF NotifyInv, Held
<1>8. Listed'
  <2>1. ASSUME NEW f \in Futures
        PROVE  /\ f \in Range(waiters') <=> fut'[f] = "Waiting" /\ notified'[f] = "None"
               /\ notified'[f] # "None" => fut'[f] = "Waiting"
    <3>1. CASE f = a
      <4>1. fut'[f] = "None" /\ notified'[f] = "None" /\ f \notin Range(waiters)
        BY <1>1, <1>7, <3>1 DEF Ends, NotifyInv, Listed
      <4> QED BY <1>1, <4>1
    <3>2. CASE f = w
      BY <1>1, <1>3, <3>2
    <3>3. CASE f \notin {a, w}
      <4>1. fut'[f] = fut[f] /\ notified'[f] = notified[f]
        BY <1>1, <1>3, <3>3 DEF Ends
      <4>2. f \in Range(waiters') <=> f \in Range(waiters)
        BY <1>1, <3>3
      <4> QED BY <4>1, <4>2 DEF NotifyInv, Listed
    <3> QED BY <3>1, <3>2, <3>3
  <2> QED BY <1>1, <2>1 DEF Listed
<1>9. Tagged'
  BY <1>1, <1>2 DEF NotifyInv, Held, Tagged, Moves, Locked
<1> QED BY <1>4, <1>6, <1>8, <1>9 DEF NotifyInv

\* The free lock belongs to no thread.
LEMMA NobodyIsNone == \A a \in Actors : a # Nobody
  BY ActorsAssumption DEF Actors, Nobody

\* notify_waiters empties the list, or counts only.
LEMMA NotifyWaitersKeeps ==
    ASSUME NotifyInv, NEW n \in Notifiers, NotifyWaiters(n)
    PROVE  NotifyInv'
<1> USE ActorsAssumption
<1>0. /\ n \in Actors /\ pc[n] = "idle" /\ lock = Nobody /\ n \notin Futures
      /\ state \in Word /\ state.calls \in 0 .. MaxCalls /\ state.calls < MaxCalls
  BY Words DEF Actors, NotifyWaiters, NotifyInv, Types
<1>1. UNCHANGED <<lock, fut, calls0, owner, woken>>
  BY DEF NotifyWaiters
<1>2. \A a \in Actors : pc[a] \notin Locked
  BY <1>0, NobodyIsNone DEF NotifyInv, Held
<1>3. CASE /\ state.tag # "WAITING" /\ state' = [state EXCEPT !.calls = @ + 1]
           /\ UNCHANGED <<waiters, node, local>>
  <2>1. state.calls + 1 \in 0 .. MaxCalls
    BY <1>0, MaxCallsAssumption
  <2>2. state' \in Word /\ state'.tag = state.tag
    BY <1>0, <1>3, <2>1 DEF Word
  <2>3. UNCHANGED <<waiters, notified, waker, pc, curr, arg, wakes>>
    BY <1>3 DEF node, local
  <2>4. Types'
    BY <1>1, <2>2, <2>3 DEF NotifyInv, Types
  <2>5. Held'
    BY <1>1, <1>2, <2>3 DEF NotifyInv, Held, Locked, Actors
  <2>6. Listed'
    BY <1>1, <2>3 DEF NotifyInv, Listed
  <2>7. Tagged'
    BY <1>0, <1>1, <1>2, <2>2, <2>3 DEF NotifyInv, Tagged
  <2> QED BY <2>4, <2>5, <2>6, <2>7 DEF NotifyInv
<1>4. CASE /\ state.tag = "WAITING"
           /\ state' = [calls |-> state.calls + 1, tag |-> "EMPTY"]
           /\ waiters' = <<>>
           /\ notified' = [f \in Futures |-> IF f \in Range(waiters)
                                             THEN "AllWaiters" ELSE notified[f]]
           /\ waker' = [f \in Futures |-> IF f \in Range(waiters)
                                          THEN NoTask ELSE waker[f]]
           /\ Return(n, UNION {Taken(f) : f \in Range(waiters)})
  <2> DEFINE w == UNION {Taken(f) : f \in Range(waiters)}
             l == IF w = {} THEN "idle" ELSE "wake"
  <2>1. state.calls + 1 \in 0 .. MaxCalls
    BY <1>0, MaxCallsAssumption
  <2>2. state' \in Word /\ state'.tag = "EMPTY"
    BY <1>0, <1>4, <2>1 DEF Word, Tags
  <2>3. Range(waiters) \subseteq Futures
    BY RangeOf DEF NotifyInv, Types
  <2>4. w \in SUBSET (Futures \X Tasks)
    BY <2>3 DEF Taken, NotifyInv, Types
  <2>5. Moves(n, l, Zero, NoTask, w)
    BY <1>0, <1>4, <2>4, Returns DEF NotifyInv
  <2>6. l \in {"idle", "wake"}
    OBVIOUS
  <2> HIDE DEF w, l
  <2>7. Types'
    BY <1>1, <1>4, <2>2, <2>5 DEF NotifyInv, Types, Moves
  <2>8. \A f \in Futures : pc'[f] = pc[f] /\ pc[f] \notin Locked
    BY <1>0, <1>2, <2>5 DEF Moves, Actors
  <2>9. Held'
    <3>1. \A a \in Actors : lock' = a <=> pc'[a] \in Locked
      BY <1>0, <1>1, <1>2, <2>5, <2>6, NobodyIsNone DEF Moves, Locked
    <3>2. ASSUME NEW m \in Notifiers
          PROVE  pc'[m] \notin Polling /\ (pc'[m] = "one_cas" => curr'[m].tag # "WAITING")
      BY <2>5, <2>6 DEF NotifyInv, Held, Moves, Polling, Actors
    <3>3. ASSUME NEW f \in Futures
          PROVE  /\ pc'[f] \notin {"one_cas", "one_lock"}
                 /\ pc'[f] \in Polling => fut'[f] = "Init"
                 /\ pc'[f] \in {"notify_locked", "notify_store"} =>
                       fut'[f] = "Waiting" /\ notified'[f] = "OneWaiter"
                 /\ pc'[f] = "wake" => fut'[f] = "None"
                 /\ pc'[f] = "register" => calls0'[f] = state'.calls
      BY <1>1, <2>8 DEF NotifyInv, Held, Locked
    <3> QED BY <3>1, <3>2, <3>3 DEF Held
  <2>10. Listed'
    <3>1. Once(waiters') /\ Range(waiters') = {}
      BY <1>4 DEF Once, Range
    <3>2. ASSUME NEW f \in Futures
          PROVE  /\ ~(fut'[f] = "Waiting" /\ notified'[f] = "None")
                 /\ notified'[f] # "None" => fut'[f] = "Waiting"
      BY <1>1, <1>4 DEF NotifyInv, Listed
    <3> QED BY <3>1, <3>2 DEF Listed
  <2>11. Tagged'
    BY <1>0, <1>1, <1>2, <1>4, <2>2, <2>5, <2>6 DEF Tagged, Moves, Locked
  <2> QED BY <2>7, <2>9, <2>10, <2>11 DEF NotifyInv
<1> QED BY <1>3, <1>4 DEF NotifyWaiters

\* A waker that was taken under the lock is called without it.
LEMMA WakeKeeps ==
    ASSUME NotifyInv, NEW a \in Actors, Wake(a)
    PROVE  NotifyInv'
<1> USE ActorsAssumption
<1>0. PICK w \in wakes[a] :
        /\ woken' = IF owner[w[1]] = w[2] THEN woken \cup {w[1]} ELSE woken
        /\ wakes' = [wakes EXCEPT ![a] = @ \ {w}]
        /\ Goto(a, IF wakes[a] = {w} THEN "idle" ELSE "wake")
  BY DEF Wake
<1> DEFINE l == IF wakes[a] = {w} THEN "idle" ELSE "wake"
<1>1. pc[a] = "wake" /\ l \in {"idle", "wake"}
  BY DEF Wake
<1>2. UNCHANGED <<state, lock, waiters, fut, calls0, notified, waker, owner, curr, arg>>
  BY DEF Wake, node
<1>3. w[1] \in Futures
  BY DEF NotifyInv, Types
<1>4. /\ pc' \in [Actors -> Places] /\ pc'[a] = l /\ \A b \in Actors \ {a} : pc'[b] = pc[b]
  BY <1>0, <1>1 DEF Goto, NotifyInv, Types, Places
<1> HIDE DEF l
<1>5. Types'
  BY <1>0, <1>2, <1>3, <1>4 DEF NotifyInv, Types
<1>6. Held'
  BY <1>1, <1>2, <1>4 DEF NotifyInv, Held, Locked, Polling, Actors
<1>7. Listed'
  BY <1>2 DEF NotifyInv, Listed
<1>8. Tagged'
  BY <1>1, <1>2, <1>4 DEF NotifyInv, Tagged, Locked
<1> QED BY <1>5, <1>6, <1>7, <1>8 DEF NotifyInv

\* notified makes a future, with the count of the calls.
LEMMA CreateKeeps ==
    ASSUME NotifyInv, NEW f \in Futures, Create(f)
    PROVE  NotifyInv'
<1>0. fut[f] = "None" /\ pc[f] = "idle" /\ state.calls \in 0 .. MaxCalls
  BY Words DEF Create, NotifyInv, Types
<1>1. UNCHANGED <<state, lock, waiters, notified, waker, owner, pc, curr, arg, wakes, woken>>
  BY DEF Create, node, local
<1>2. /\ fut' \in [Futures -> {"None", "Init", "Waiting", "Done"}]
      /\ fut'[f] = "Init" /\ \A g \in Futures \ {f} : fut'[g] = fut[g]
      /\ calls0' \in [Futures -> 0 .. MaxCalls]
      /\ \A g \in Futures \ {f} : calls0'[g] = calls0[g]
  BY <1>0 DEF Create, NotifyInv, Types
<1>3. Types'
  BY <1>1, <1>2 DEF NotifyInv, Types
<1>4. Held'
  BY <1>0, <1>1, <1>2 DEF NotifyInv, Held
<1>5. Listed'
  BY <1>0, <1>1, <1>2 DEF NotifyInv, Listed
<1>6. Tagged'
  BY <1>1 DEF NotifyInv, Tagged
<1> QED BY <1>3, <1>4, <1>5, <1>6 DEF NotifyInv

\* The first poll loads the word.
LEMMA PollLoadKeeps ==
    ASSUME NotifyInv, NEW f \in Futures, NEW k \in Tasks \cup {NoTask}, PollLoad(f, k)
    PROVE  NotifyInv'
<1> USE ActorsAssumption
<1>0. /\ f \in Actors /\ fut[f] = "Init" /\ pc[f] = "idle" /\ "poll_cas" \in Places
      /\ f \notin Notifiers
  BY DEF PollLoad, Actors, Places
<1>1. UNCHANGED <<state, lock, waiters, fut, calls0, notified, waker, wakes>>
  BY DEF PollLoad, node
<1>2. Moves(f, "poll_cas", state, k, wakes[f])
  BY <1>0, <1>1 DEF PollLoad, Goto, Moves, NotifyInv, Types
<1>3. owner' \in [Futures -> Tasks \cup {NoTask}] /\ woken' \in SUBSET Futures
  BY DEF PollLoad, NotifyInv, Types
<1>4. Types'
  BY <1>1, <1>2, <1>3 DEF NotifyInv, Types, Moves
<1>5. Held'
  BY <1>0, <1>1, <1>2 DEF NotifyInv, Held, Moves, Locked, Polling, Actors
<1>6. Listed'
  BY <1>1 DEF NotifyInv, Listed
<1>7. Tagged'
  BY <1>0, <1>1, <1>2 DEF NotifyInv, Tagged, Moves, Locked
<1> QED BY <1>4, <1>5, <1>6, <1>7 DEF NotifyInv

\* One future changes its state, which is not that of a node.
Turns(f, s) ==
    /\ fut' \in [Futures -> {"None", "Init", "Waiting", "Done"}]
    /\ fut'[f] = s /\ \A g \in Futures \ {f} : fut'[g] = fut[g]

\* An assignment to one future.
LEMMA TurnsTo ==
    ASSUME Types, NEW f \in Futures, NEW s \in {"None", "Init", "Waiting", "Done"},
           fut' = [fut EXCEPT ![f] = s]
    PROVE  Turns(f, s)
  BY DEF Types, Turns

\* A future that has a thread of its own at work before it is registered goes
\* back to rest, and is done.
LEMMA DoneKeeps ==
    ASSUME NotifyInv, NEW f \in Futures, pc[f] \in Polling,
           state' \in Word, state'.calls = state.calls,
           state'.tag = "WAITING" <=> state.tag = "WAITING",
           IF pc[f] = "register" THEN lock' = Nobody /\ state'.tag # "WAITING" /\ waiters = <<>>
                                 ELSE UNCHANGED lock,
           fut' = [fut EXCEPT ![f] = "Done"], Return(f, {}),
           UNCHANGED <<waiters, calls0, notified, waker, owner, woken>>
    PROVE  NotifyInv'
<1> USE ActorsAssumption
<1>0. f \in Actors /\ f \notin Notifiers /\ fut[f] = "Init"
  BY DEF Actors, NotifyInv, Held
<1>1. Moves(f, "idle", Zero, NoTask, {})
  BY <1>0, Returns DEF NotifyInv
<1>2. Turns(f, "Done")
  BY TurnsTo DEF NotifyInv
<1>3. lock' \in {lock, Nobody}
  OBVIOUS
<1>4. Types'
  BY <1>1, <1>2, <1>3 DEF NotifyInv, Types, Moves, Turns
<1>5. \A a \in Actors : lock' = a <=> pc'[a] \in Locked
  <2>1. CASE pc[f] = "register"
    <3>1. lock = f
      BY <1>0, <2>1 DEF NotifyInv, Held, Locked
    <3> QED BY <1>0, <1>1, <2>1, <3>1, NobodyIsNone DEF NotifyInv, Held, Moves, Locked
  <2>2. CASE pc[f] # "register"
    <3>1. pc[f] \notin Locked
      BY <2>2 DEF Polling, Locked
    <3> QED BY <1>0, <1>1, <2>2, <3>1 DEF NotifyInv, Held, Moves, Locked
  <2> QED BY <2>1, <2>2
<1>6. Held'
  <2>1. ASSUME NEW n \in Notifiers
        PROVE  pc'[n] \notin Polling /\ (pc'[n] = "one_cas" => curr'[n].tag # "WAITING")
    BY <1>0, <1>1 DEF NotifyInv, Held, Moves, Actors
  <2>2. ASSUME NEW g \in Futures
        PROVE  /\ pc'[g] \notin {"one_cas", "one_lock"}
               /\ pc'[g] \in Polling => fut'[g] = "Init"
               /\ pc'[g] \in {"notify_locked", "notify_store"} =>
                     fut'[g] = "Waiting" /\ notified'[g] = "OneWaiter"
               /\ pc'[g] = "wake" => fut'[g] = "None"
               /\ pc'[g] = "register" => calls0'[g] = state'.calls
    <3>1. CASE g = f
      BY <1>1, <3>1 DEF Moves, Polling
    <3>2. CASE g # f
      BY <1>1, <1>2, <3>2 DEF NotifyInv, Held, Moves, Turns, Actors
    <3> QED BY <3>1, <3>2
  <2> QED BY <1>5, <2>1, <2>2 DEF Held
<1>7. Listed'
  BY <1>0, <1>2 DEF NotifyInv, Listed, Turns
<1>8. Tagged'
  <2>1. CASE pc[f] = "register"
    <3>1. lock = f /\ lock' = Nobody
      BY <1>0, <2>1 DEF NotifyInv, Held, Locked
    <3>2. \A a \in Actors : pc'[a] \notin Locked
      BY <1>5, <3>1, NobodyIsNone
    <3> QED BY <2>1, <3>1, <3>2 DEF Tagged
  <2>2. CASE pc[f] # "register"
    <3>1. \A a \in Actors : pc'[a] \in Locked => pc[a] = pc'[a] /\ curr'[a] = curr[a]
      BY <1>1 DEF Moves, Locked
    <3>2. UNCHANGED lock
      BY <2>2
    <3> QED BY <3>1, <3>2 DEF NotifyInv, Tagged
  <2> QED BY <2>1, <2>2
<1> QED BY <1>4, <1>6, <1>7, <1>8 DEF NotifyInv

\* A stored notification is taken without the lock.
LEMMA PollExchangeKeeps ==
    ASSUME NotifyInv, NEW f \in Futures, PollExchange(f)
    PROVE  NotifyInv'
<1> USE ActorsAssumption
<1>0. /\ f \in Actors /\ f \notin Notifiers /\ pc[f] = "poll_cas"
      /\ curr[f] \in Word /\ state \in Word /\ fut[f] = "Init"
  BY DEF Actors, PollExchange, NotifyInv, Types, Held, Polling
<1>1. UNCHANGED <<lock, waiters, calls0, notified, waker, owner, woken>>
  BY DEF PollExchange, node
<1>2. CASE /\ state = set_state(curr[f], "NOTIFIED")
           /\ state' = set_state(curr[f], "EMPTY")
           /\ fut' = [fut EXCEPT ![f] = "Done"]
           /\ Return(f, {})
  <2>1. /\ state' \in Word /\ state'.calls = state.calls
        /\ state'.tag = "EMPTY" /\ state.tag = "NOTIFIED"
    BY <1>0, <1>2, Words DEF Tags
  <2> QED BY <1>0, <1>1, <1>2, <2>1, DoneKeeps DEF Polling
<1>3. CASE Goto(f, "poll_lock") /\ UNCHANGED <<state, fut, curr, arg, wakes>>
  <2>1. Moves(f, "poll_lock", curr[f], arg[f], wakes[f])
    BY <1>0, <1>3 DEF Goto, Moves, NotifyInv, Types, Places
  <2>2. Types'
    BY <1>1, <1>3, <2>1 DEF NotifyInv, Types, Moves
  <2>3. Held'
    BY <1>0, <1>1, <1>3, <2>1 DEF NotifyInv, Held, Moves, Locked, Polling, Actors
  <2>4. Listed'
    BY <1>1, <1>3 DEF NotifyInv, Listed
  <2>5. Tagged'
    BY <1>0, <1>1, <1>3, <2>1 DEF NotifyInv, Tagged, Moves, Locked
  <2> QED BY <2>2, <2>3, <2>4, <2>5 DEF NotifyInv
<1> QED BY <1>2, <1>3 DEF PollExchange

\* The lock, and the second look at the count and the word.
LEMMA PollLockKeeps ==
    ASSUME NotifyInv, NEW f \in Futures, PollLock(f)
    PROVE  NotifyInv'
<1> USE ActorsAssumption
<1>0. /\ f \in Actors /\ f \notin Notifiers /\ pc[f] = "poll_lock" /\ lock = Nobody
      /\ state \in Word /\ fut[f] = "Init"
  BY DEF Actors, PollLock, NotifyInv, Types, Held, Polling
<1>1. UNCHANGED <<state, waiters, calls0, notified, waker, owner, woken>>
  BY DEF PollLock, node
<1>2. CASE fut' = [fut EXCEPT ![f] = "Done"] /\ Return(f, {}) /\ UNCHANGED lock
  BY <1>0, <1>1, <1>2, DoneKeeps DEF Polling
<1>3. CASE /\ state.calls = calls0[f] /\ lock' = f /\ Load(f) /\ Goto(f, "register")
           /\ UNCHANGED fut
  <2>1. Moves(f, "register", state, arg[f], wakes[f])
    <3>1. "register" \in Places
      BY DEF Places
    <3> QED BY <1>0, <1>3, <3>1, Loads DEF NotifyInv
  <2>2. Types'
    BY <1>0, <1>1, <1>3, <2>1 DEF NotifyInv, Types, Moves
  <2>3. Held'
    BY <1>0, <1>1, <1>3, <2>1, NobodyIsNone DEF NotifyInv, Held, Moves, Locked, Polling, Actors
  <2>4. Listed'
    BY <1>1, <1>3 DEF NotifyInv, Listed
  <2>5. Tagged'
    BY <1>0, <1>1, <1>3, <2>1, NobodyIsNone DEF NotifyInv, Held, Tagged, Moves, Locked
  <2> QED BY <2>2, <2>3, <2>4, <2>5 DEF NotifyInv
<1> QED BY <1>2, <1>3 DEF PollLock

\* Who holds the lock at "register", and what it knows of the word.
LEMMA AtRegister ==
    ASSUME NotifyInv, NEW f \in Futures, pc[f] = "register"
    PROVE  /\ f \in Actors /\ f \notin Notifiers /\ lock = f /\ fut[f] = "Init"
           /\ state \in Word /\ curr[f] \in Word /\ curr[f].calls = state.calls
           /\ calls0[f] = state.calls
           /\ f \notin Range(waiters) /\ notified[f] = "None"
           /\ curr[f].tag = "WAITING" <=> state.tag = "WAITING"
           /\ curr[f].tag # "WAITING" => waiters = <<>>
           /\ \A a \in Actors \ {f} : pc[a] \notin Locked
<1>1. f \in Actors /\ f \notin Notifiers
  BY ActorsAssumption DEF Actors
<1> QED BY <1>1 DEF NotifyInv, Types, Held, Listed, Tagged, Locked, Polling

\* The loop under the lock before the node is linked.
LEMMA RegisterLoopKeeps ==
    ASSUME NotifyInv, NEW f \in Futures, RegisterLoop(f)
    PROVE  NotifyInv'
<1> USE ActorsAssumption
<1>0. /\ pc[f] = "register" /\ curr[f].tag # "WAITING"
      /\ UNCHANGED <<waiters, calls0, notified, waker, owner, woken>>
  BY DEF RegisterLoop, node
<1>1. /\ f \in Actors /\ f \notin Notifiers /\ lock = f /\ fut[f] = "Init"
      /\ state \in Word /\ curr[f] \in Word /\ curr[f].calls = state.calls
      /\ state.tag # "WAITING" /\ waiters = <<>>
      /\ \A a \in Actors \ {f} : pc[a] \notin Locked
  BY <1>0, AtRegister
<1>2. CASE /\ curr' = [curr EXCEPT ![f] = state'] /\ UNCHANGED <<lock, fut, pc, arg, wakes>>
           /\ state' \in Word /\ state'.calls = state.calls
  <2>1. Moves(f, "register", state', arg[f], wakes[f])
    BY <1>0, <1>1, <1>2 DEF Moves, NotifyInv, Types
  <2>2. Types'
    BY <1>0, <1>2, <2>1 DEF NotifyInv, Types, Moves
  <2>3. Held'
    <3>1. \A a \in Actors : pc'[a] = pc[a] /\ (a # f => curr'[a] = curr[a])
      BY <1>2, <2>1 DEF Moves
    <3> QED BY <1>0, <1>1, <1>2, <3>1 DEF NotifyInv, Held, Actors
  <2>4. Listed'
    BY <1>0, <1>2 DEF NotifyInv, Listed
  <2>5. Tagged'
    BY <1>0, <1>1, <1>2, <2>1, NobodyIsNone DEF Tagged, Moves
  <2> QED BY <2>2, <2>3, <2>4, <2>5 DEF NotifyInv
<1>3. CASE /\ state = curr[f] /\ state' = set_state(curr[f], "WAITING")
           /\ curr' = [curr EXCEPT ![f] = state'] /\ UNCHANGED <<lock, fut, pc, arg, wakes>>
  <2>1. state' \in Word /\ state'.calls = state.calls
    BY <1>1, <1>3, Words DEF Tags
  <2> QED BY <1>2, <1>3, <2>1
<1>4. CASE Load(f) /\ UNCHANGED <<state, lock, fut, pc>>
  BY <1>1, <1>2, <1>4 DEF Load
<1>5. CASE /\ state = curr[f] /\ state' = set_state(curr[f], "EMPTY")
           /\ fut' = [fut EXCEPT ![f] = "Done"] /\ Unlock(f) /\ Return(f, {})
  <2>1. state' \in Word /\ state'.calls = state.calls /\ state'.tag = "EMPTY"
    BY <1>1, <1>5, Words DEF Tags
  <2> QED BY <1>0, <1>1, <1>5, <2>1, DoneKeeps DEF Polling, Unlock
<1> QED BY <1>3, <1>4, <1>5 DEF RegisterLoop

\* The node is linked.
LEMMA RegisterKeeps ==
    ASSUME NotifyInv, NEW f \in Futures, Register(f)
    PROVE  NotifyInv'
<1> USE ActorsAssumption
<1>0. /\ pc[f] = "register" /\ curr[f].tag = "WAITING" /\ lock' = Nobody
      /\ waiters' = Append(waiters, f)
      /\ UNCHANGED <<state, calls0, notified, owner, woken>>
  BY DEF Register, Unlock
<1>1. /\ f \in Actors /\ f \notin Notifiers /\ lock = f /\ fut[f] = "Init"
      /\ f \notin Range(waiters) /\ notified[f] = "None" /\ state.tag = "WAITING"
      /\ \A a \in Actors \ {f} : pc[a] \notin Locked
  BY <1>0, AtRegister
<1>2. Moves(f, "idle", Zero, NoTask, {})
  BY <1>1, Returns DEF NotifyInv, Register
<1>3. Turns(f, "Waiting")
  BY TurnsTo DEF NotifyInv, Register
<1>4. /\ waiters' \in Seq(Futures) /\ Once(waiters') /\ waiters' # <<>>
      /\ \A x : x \in Range(waiters') <=> x \in Range(waiters) \/ x = f
  <2>1. waiters \in Seq(Futures) /\ Once(waiters)
    BY DEF NotifyInv, Types, Listed
  <2>2. /\ Append(waiters, f) \in Seq(Futures) /\ Once(Append(waiters, f))
        /\ Append(waiters, f) # <<>>
        /\ \A x : x \in Range(Append(waiters, f)) <=> x \in Range(waiters) \/ x = f
    BY <1>1, <2>1, Pushed
  <2> QED BY <1>0, <2>2
<1>5. waker' \in [Futures -> Tasks \cup {NoTask}]
  BY <1>1 DEF Register, NotifyInv, Types
<1>6. Types'
  BY <1>0, <1>2, <1>3, <1>4, <1>5 DEF NotifyInv, Types, Moves, Turns
<1>7. \A a \in Actors : pc'[a] \notin Locked
  BY <1>1, <1>2 DEF Moves, Locked
<1>8. Held'
  <2>1. ASSUME NEW n \in Notifiers
        PROVE  pc'[n] \notin Polling /\ (pc'[n] = "one_cas" => curr'[n].tag # "WAITING")
    BY <1>1, <1>2 DEF NotifyInv, Held, Moves, Actors
  <2>2. ASSUME NEW g \in Futures
        PROVE  /\ pc'[g] \notin {"one_cas", "one_lock"}
               /\ pc'[g] \in Polling => fut'[g] = "Init"
               /\ pc'[g] \in {"notify_locked", "notify_store"} =>
                     fut'[g] = "Waiting" /\ notified'[g] = "OneWaiter"
               /\ pc'[g] = "wake" => fut'[g] = "None"
               /\ pc'[g] = "register" => calls0'[g] = state'.calls
    <3>1. CASE g = f
      BY <1>2, <3>1 DEF Moves, Polling
    <3>2. CASE g # f
      BY <1>0, <1>2, <1>3, <3>2 DEF NotifyInv, Held, Moves, Turns, Actors
    <3> QED BY <3>1, <3>2
  <2> QED BY <1>0, <1>7, <2>1, <2>2, NobodyIsNone DEF Held
<1>9. Listed'
  BY <1>0, <1>1, <1>3, <1>4 DEF NotifyInv, Listed, Turns
<1>10. Tagged'
  BY <1>0, <1>1, <1>4, <1>7 DEF Tagged
<1> QED BY <1>6, <1>8, <1>9, <1>10 DEF NotifyInv

\* A later poll: told, or the waker is exchanged.
LEMMA PollWaitingKeeps ==
    ASSUME NotifyInv, NEW f \in Futures, NEW k \in Tasks \cup {NoTask}, PollWaiting(f, k)
    PROVE  NotifyInv'
<1> USE ActorsAssumption
<1>0. /\ f \in Actors /\ f \notin Notifiers /\ fut[f] = "Waiting" /\ pc[f] = "idle"
      /\ UNCHANGED <<state, lock, waiters, calls0, pc, curr, arg, wakes>>
  BY DEF PollWaiting, Actors, local
<1>1. /\ owner' \in [Futures -> Tasks \cup {NoTask}] /\ woken' \in SUBSET Futures
      /\ waker' \in [Futures -> Tasks \cup {NoTask}]
  <2>1. owner' \in [Futures -> Tasks \cup {NoTask}]
    BY DEF PollWaiting, NotifyInv, Types
  <2>2. woken' \in SUBSET Futures
    BY DEF PollWaiting, NotifyInv, Types
  <2>3. waker' \in [Futures -> Tasks \cup {NoTask}]
    BY DEF PollWaiting, NotifyInv, Types
  <2> QED BY <2>1, <2>2, <2>3
<1>2. CASE notified[f] = "None" /\ UNCHANGED <<fut, notified>>
  BY <1>0, <1>1, <1>2 DEF NotifyInv, Types, Held, Listed, Tagged
<1>3. CASE /\ notified[f] # "None" /\ fut' = [fut EXCEPT ![f] = "Done"]
           /\ notified' = [notified EXCEPT ![f] = "None"]
  <2>1. Turns(f, "Done")
    BY <1>3, TurnsTo DEF NotifyInv
  <2>2. /\ notified' \in [Futures -> {"None", "OneWaiter", "AllWaiters"}]
        /\ notified'[f] = "None" /\ \A g \in Futures \ {f} : notified'[g] = notified[g]
    BY <1>3 DEF NotifyInv, Types
  <2>3. Types'
    BY <1>0, <1>1, <2>1, <2>2 DEF NotifyInv, Types, Turns
  <2>4. Held'
    BY <1>0, <2>1, <2>2 DEF NotifyInv, Held, Turns, Polling
  <2>5. Listed'
    BY <1>0, <1>3, <2>1, <2>2 DEF NotifyInv, Listed, Turns
  <2>6. Tagged'
    BY <1>0 DEF NotifyInv, Tagged
  <2> QED BY <2>3, <2>4, <2>5, <2>6 DEF NotifyInv
<1> QED BY <1>2, <1>3 DEF PollWaiting

\* A future that is dropped, and is not in the list (any more).
LEMMA GoneKeeps ==
    ASSUME NotifyInv, NEW f \in Futures, pc[f] = "idle", Finished(f),
           Cleared(f, notified, waker), UNCHANGED <<lock, local>>,
           waiters' \in Seq(Futures), Once(waiters'),
           \A x : x \in Range(waiters') <=> x \in Range(waiters) /\ x # f,
           state' \in Word, state'.calls = state.calls,
           IF lock = Nobody THEN state'.tag = "WAITING" <=> waiters' # <<>>
                            ELSE UNCHANGED <<state, waiters>>
    PROVE  NotifyInv'
<1> USE ActorsAssumption
<1>0. f \in Actors /\ f \notin Notifiers /\ UNCHANGED <<pc, curr, arg, wakes>>
  BY DEF Actors, local
<1>1. Ends(f, notified, waker)
  BY Clears DEF NotifyInv, Types
<1>2. Types'
  BY <1>0, <1>1 DEF NotifyInv, Types, Ends
<1>3. Held'
  <2>1. ASSUME NEW g \in Futures
        PROVE  /\ pc'[g] \notin {"one_cas", "one_lock"}
               /\ pc'[g] \in Polling => fut'[g] = "Init"
               /\ pc'[g] \in {"notify_locked", "notify_store"} =>
                     fut'[g] = "Waiting" /\ notified'[g] = "OneWaiter"
               /\ pc'[g] = "wake" => fut'[g] = "None"
               /\ pc'[g] = "register" => calls0'[g] = state'.calls
    <3>1. CASE g = f
      BY <1>0, <3>1 DEF Polling
    <3>2. CASE g # f
      BY <1>0, <1>1, <3>2 DEF NotifyInv, Held, Ends
    <3> QED BY <3>1, <3>2
  <2> QED BY <1>0, <2>1 DEF NotifyInv, Held
<1>4. Listed'
  BY <1>1 DEF NotifyInv, Listed, Ends
<1>5. Tagged'
  <2>1. CASE lock = Nobody
    <3>1. \A a \in Actors : pc'[a] \notin Locked
      BY <1>0, <2>1, NobodyIsNone DEF NotifyInv, Held
    <3> QED BY <2>1, <3>1 DEF Tagged
  <2>2. CASE lock # Nobody
    BY <1>0, <2>2 DEF NotifyInv, Tagged
  <2> QED BY <2>1, <2>2
<1> QED BY <1>2, <1>3, <1>4, <1>5 DEF NotifyInv

\* A future that was never registered, or is done, is dropped.
LEMMA DropUnregisteredKeeps ==
    ASSUME NotifyInv, NEW f \in Futures, DropUnregistered(f)
    PROVE  NotifyInv'
<1>1. /\ pc[f] = "idle" /\ Finished(f) /\ Cleared(f, notified, waker)
      /\ UNCHANGED <<state, lock, waiters, local>>
  BY DEF DropUnregistered
<1>2. f \notin Range(waiters) /\ state \in Word /\ waiters \in Seq(Futures) /\ Once(waiters)
  BY DEF DropUnregistered, NotifyInv, Types, Listed
<1>3. lock = Nobody => (state.tag = "WAITING" <=> waiters # <<>>)
  BY DEF NotifyInv, Tagged
<1> QED BY <1>1, <1>2, <1>3, GoneKeeps

\* What a registered future does to the list and the word when it is dropped.
LEMMA Unlinks ==
    ASSUME NotifyInv, NEW f \in Futures, DropWaiting(f)
    PROVE  /\ waiters' = Without(waiters, f)
           /\ waiters' \in Seq(Futures) /\ Once(waiters')
           /\ \A x : x \in Range(waiters') <=> x \in Range(waiters) /\ x # f
           /\ f \notin Range(waiters) => waiters' = waiters /\ state' = state
           /\ state' \in Word /\ state'.calls = state.calls
           /\ state'.tag = "WAITING" <=> waiters' # <<>>
           /\ (state'.tag = "NOTIFIED") <=> (state.tag = "NOTIFIED")
<1> DEFINE left == Without(waiters, f)
<1>1. /\ lock = Nobody /\ waiters' = left
      /\ state' = IF left = <<>> /\ state.tag = "WAITING"
                  THEN set_state(state, "EMPTY") ELSE state
  BY DEF DropWaiting
<1>2. /\ left \in Seq(Futures) /\ Once(left) /\ Range(left) = Range(waiters) \ {f}
  BY Unlinked DEF NotifyInv, Types, Listed
<1>3. ASSUME f \notin Range(waiters)
      PROVE  left = waiters
  <2>1. ~\E i \in 1 .. Len(waiters) : waiters[i] = f
    BY <1>3, RangeOf DEF NotifyInv, Types
  <2> QED BY <2>1 DEF Without
<1>4. state.tag = "WAITING" <=> waiters # <<>>
  BY <1>1 DEF NotifyInv, Tagged
<1>5. waiters = <<>> => left = <<>>
  BY DEF Without
<1>6. state \in Word
  BY DEF NotifyInv, Types
<1> HIDE DEF left
<1>7. /\ set_state(state, "EMPTY") \in Word
      /\ set_state(state, "EMPTY").calls = state.calls /\ set_state(state, "EMPTY").tag = "EMPTY"
  BY <1>6, Words DEF Tags
<1>8. /\ state' \in Word /\ state'.calls = state.calls
      /\ state'.tag = "WAITING" <=> waiters' # <<>>
      /\ (state'.tag = "NOTIFIED") <=> (state.tag = "NOTIFIED")
  BY <1>1, <1>4, <1>5, <1>6, <1>7
<1>9. ASSUME f \notin Range(waiters)
      PROVE  waiters' = waiters /\ state' = state
  BY <1>1, <1>3, <1>4, <1>9
<1>10. /\ waiters' \in Seq(Futures) /\ Once(waiters')
       /\ \A x : x \in Range(waiters') <=> x \in Range(waiters) /\ x # f
  BY <1>1, <1>2
<1> QED BY <1>1, <1>8, <1>9, <1>10 DEF left

\* A registered future is dropped, and hands over what it was told alone.
LEMMA DropWaitingKeeps ==
    ASSUME NotifyInv, NEW f \in Futures, DropWaiting(f)
    PROVE  NotifyInv'
<1> USE ActorsAssumption
<1>0. /\ f \in Actors /\ f \notin Notifiers /\ pc[f] = "idle" /\ lock = Nobody
      /\ fut[f] = "Waiting"
  BY DEF Actors, DropWaiting
<1>1. /\ waiters' \in Seq(Futures) /\ Once(waiters')
      /\ \A x : x \in Range(waiters') <=> x \in Range(waiters) /\ x # f
      /\ f \notin Range(waiters) => waiters' = waiters /\ state' = state
      /\ state' \in Word /\ state'.calls = state.calls
      /\ state'.tag = "WAITING" <=> waiters' # <<>>
  BY Unlinks
<1>2. CASE Finished(f) /\ Cleared(f, notified, waker) /\ UNCHANGED <<lock, local>>
  BY <1>0, <1>1, <1>2, GoneKeeps
<1>3. CASE /\ notified[f] = "OneWaiter" /\ lock' = f
           /\ curr' = [curr EXCEPT ![f] = state'] /\ Goto(f, "notify_locked")
           /\ UNCHANGED <<fut, calls0, node, owner, woken, arg, wakes>>
  <2>1. f \notin Range(waiters)
    BY <1>3 DEF NotifyInv, Listed
  <2>2. waiters' = waiters /\ state' = state
    BY <1>1, <2>1
  <2>3. UNCHANGED <<fut, calls0, notified, waker, owner, woken, arg, wakes>>
    BY <1>3 DEF node
  <2>4. Moves(f, "notify_locked", state, arg[f], wakes[f])
    BY <1>0, <1>3, <2>2, <2>3 DEF Goto, Moves, NotifyInv, Types, Places
  <2>5. Types'
    BY <1>0, <1>3, <2>2, <2>3, <2>4 DEF NotifyInv, Types, Moves
  <2>6. \A a \in Actors : lock' = a <=> pc'[a] \in Locked
    BY <1>0, <1>3, <2>4, NobodyIsNone DEF NotifyInv, Held, Moves, Locked
  <2>7. Held'
    <3>1. ASSUME NEW n \in Notifiers
          PROVE  pc'[n] \notin Polling /\ (pc'[n] = "one_cas" => curr'[n].tag # "WAITING")
      BY <1>0, <2>4 DEF NotifyInv, Held, Moves, Actors
    <3>2. ASSUME NEW g \in Futures
          PROVE  /\ pc'[g] \notin {"one_cas", "one_lock"}
                 /\ pc'[g] \in Polling => fut'[g] = "Init"
                 /\ pc'[g] \in {"notify_locked", "notify_store"} =>
                       fut'[g] = "Waiting" /\ notified'[g] = "OneWaiter"
                 /\ pc'[g] = "wake" => fut'[g] = "None"
                 /\ pc'[g] = "register" => calls0'[g] = state'.calls
      <4>1. CASE g = f
        BY <1>0, <1>3, <2>3, <2>4, <4>1 DEF Moves, Polling
      <4>2. CASE g # f
        BY <2>2, <2>3, <2>4, <4>2 DEF NotifyInv, Held, Moves, Actors
      <4> QED BY <4>1, <4>2
    <3> QED BY <2>6, <3>1, <3>2 DEF Held
  <2>8. Listed'
    BY <2>2, <2>3 DEF NotifyInv, Listed
  <2>9. Tagged'
    <3>1. \A a \in Actors : pc'[a] \in Locked => a = f
      BY <1>3, <2>6
    <3>2. pc'[f] = "notify_locked" /\ curr'[f] = state
      BY <2>4 DEF Moves
    <3> QED BY <1>0, <1>1, <1>3, <2>2, <3>1, <3>2, NobodyIsNone DEF Tagged
  <2> QED BY <2>5, <2>7, <2>8, <2>9 DEF NotifyInv
<1>4. \/ /\ notified[f] = "OneWaiter" /\ lock' = f
         /\ curr' = [curr EXCEPT ![f] = state'] /\ Goto(f, "notify_locked")
         /\ UNCHANGED <<fut, calls0, node, owner, woken, arg, wakes>>
      \/ Finished(f) /\ Cleared(f, notified, waker) /\ UNCHANGED <<lock, local>>
  BY DEF DropWaiting
<1> QED BY <1>2, <1>3, <1>4

\* A step that changes nothing.
LEMMA NotifyRests == ASSUME NotifyInv, UNCHANGED vars PROVE NotifyInv'
  BY DEF vars, node, local, NotifyInv, Types, Held, Listed, Tagged

\* Every step keeps the invariant.
LEMMA NotifyNext == ASSUME NotifyInv, [Next]_vars PROVE NotifyInv'
<1>1. ASSUME NEW n \in Notifiers, OneLoad(n) \/ NotifierStep(n) \/ NotifyWaiters(n)
      PROVE  NotifyInv'
  BY <1>1, OneLoadKeeps, OneExchangeKeeps, OneLockKeeps, NotifyWaitersKeeps DEF NotifierStep
<1>2. ASSUME NEW a \in Actors, ActorStep(a)
      PROVE  NotifyInv'
  BY <1>2, StoreExchangeKeeps, StoreAnywayKeeps, PopOneKeeps, WakeKeeps DEF ActorStep
<1>3. ASSUME NEW f \in Futures, NEW k \in Tasks \cup {NoTask}, Poll(f, k)
      PROVE  NotifyInv'
  BY <1>3, PollLoadKeeps, PollWaitingKeeps DEF Poll
<1>4. ASSUME NEW f \in Futures, Create(f) \/ FutureStep(f) \/ DropUnregistered(f) \/ DropWaiting(f)
      PROVE  NotifyInv'
  BY <1>4, CreateKeeps, PollExchangeKeeps, PollLockKeeps, RegisterLoopKeeps, RegisterKeeps,
     DropUnregisteredKeeps, DropWaitingKeeps DEF FutureStep
<1> QED BY <1>1, <1>2, <1>3, <1>4, NotifyRests DEF Next

\* None of the panics and asserts of notify.rs is reached, for any number of
\* futures, notifiers and calls: the unreachable!() arms of notify_locked and
\* poll_notified, the unwrap of pop_back, and the asserts on the node.
THEOREM NotifyNeverPanics == Spec => []NoPanic
<1>1. ASSUME NotifyInv PROVE NoPanic
  <2>1. ASSUME NEW f \in Range(waiters)
        PROVE  notified[f] = "None" /\ fut[f] = "Waiting"
    BY <1>1, RangeOf DEF NotifyInv, Types, Listed
  <2>2. ASSUME NEW a \in Actors
        PROVE  /\ pc[a] = "notify_store" => curr[a].tag \in {"EMPTY", "NOTIFIED"}
               /\ pc[a] = "notify_locked" /\ curr[a].tag = "WAITING" => waiters # <<>>
               /\ pc[a] = "register" /\ curr[a].tag # "WAITING" =>
                     state.tag \in {"EMPTY", "NOTIFIED"}
    <3>1. curr[a].tag \in Tags /\ state.tag \in Tags
      BY <1>1, Words DEF NotifyInv, Types
    <3> QED BY <1>1, <3>1 DEF NotifyInv, Tagged, Locked, Tags
  <2> QED BY <1>1, <2>1, <2>2 DEF NoPanic, NotifyInv, Tagged
<1> QED BY <1>1, NotifyInit, NotifyNext, PTL DEF Spec

-----------------------------------------------------------------------------
(* The contract *)

\* The phase that the two fields give.
Ph(u, n) ==
    CASE u = "None" -> "None"
      [] u = "Init" -> "Fresh"
      [] u = "Done" -> "Done"
      [] u = "Waiting" /\ n = "None" -> "Queued"
      [] u = "Waiting" /\ n = "OneWaiter" -> "One"
      [] u = "Waiting" /\ n = "AllWaiters" -> "All"

\* Phase is Ph of the two fields, in both states.
LEMMA Phasing ==
    /\ \A n : Ph("None", n) = "None" /\ Ph("Init", n) = "Fresh" /\ Ph("Done", n) = "Done"
    /\ Ph("Waiting", "None") = "Queued"
    /\ Ph("Waiting", "OneWaiter") = "One" /\ Ph("Waiting", "AllWaiters") = "All"
    /\ \A f \in Futures : Phase(f) = Ph(fut[f], notified[f])
    /\ \A f \in Futures : Phase(f)' = Ph(fut'[f], notified'[f])
  BY DEF Ph, Phase

\* The phases of all futures, as the contract sees them.
phases == [f \in Futures |-> Phase(f)]

\* One future changes its phase, or none does.
LEMMA PhaseTurns ==
    ASSUME NEW f \in Futures, NEW s, Ph(fut'[f], notified'[f]) = s,
           \A g \in Futures \ {f} : fut'[g] = fut[g] /\ notified'[g] = notified[g]
    PROVE  phases' = [phases EXCEPT ![f] = s]
<1>1. \A g \in Futures : phases'[g] = Ph(fut'[g], notified'[g]) /\ phases[g] = Ph(fut[g], notified[g])
  BY Phasing DEF phases
<1>2. phases' = [g \in Futures |-> phases'[g]] /\ phases = [g \in Futures |-> phases[g]]
  BY DEF phases
<1> QED BY <1>1, <1>2

\* The phases are those of before if the fields are.
LEMMA PhaseStays ==
    ASSUME \A g \in Futures : fut'[g] = fut[g] /\ notified'[g] = notified[g]
    PROVE  phases' = phases
  BY Phasing DEF phases

\* What the contract does not see.
LEMMA Stutters ==
    ASSUME (state'.tag = "NOTIFIED") <=> (state.tag = "NOTIFIED"), state'.calls = state.calls,
           UNCHANGED <<waiters, calls0>>, phases' = phases
    PROVE  [Promise!Next]_(Promise!vars)
  BY DEF Promise!vars, phases

\* The queue operation of the contract is that of the list.
LEMMA SameWithout == \A s, e : Promise!Without(s, e) = Without(s, e)
  BY DEF Promise!Without, Without

\* A notification for one that no future waits for is stored.
LEMMA StoreImplements ==
    ASSUME NotifyInv, NEW a \in Actors, pc[a] \in {"notify_locked", "notify_store"},
           curr[a].tag # "WAITING",
           state' = set_state(curr[a], "NOTIFIED"), Unlock(a),
           Finished(a), Cleared(a, notified, waker), UNCHANGED waiters
    PROVE  [Promise!Next]_(Promise!vars)
<1>1. /\ curr[a] \in Word /\ lock = a /\ curr[a].calls = state.calls /\ waiters = <<>>
  BY DEF NotifyInv, Types, Unlock, Tagged, Locked
<1>2. state'.calls = state.calls /\ state'.tag = "NOTIFIED"
  BY <1>1, Words DEF Tags
<1>3. Ends(a, notified, waker)
  BY Clears DEF NotifyInv, Types
<1>4. CASE a \notin Futures
  <2>1. phases' = phases
    BY <1>3, <1>4, PhaseStays DEF Ends
  <2>2. calls0' = calls0
    BY <1>4 DEF Cleared
  <2>3. Promise!NotifyOne
    BY <1>1, <1>2, <2>1, <2>2 DEF Promise!NotifyOne, Promise!Deliver, phases
  <2> QED BY <2>3 DEF Promise!Next
<1>5. CASE a \in Futures
  <2>1. phases' = [phases EXCEPT ![a] = "None"]
    BY <1>3, <1>5, PhaseTurns, Phasing DEF Ends
  <2>2. calls0' = [calls0 EXCEPT ![a] = 0]
    BY <1>5 DEF Cleared
  <2>3. phases[a] = "One"
    BY <1>5, Phasing DEF phases, NotifyInv, Held
  <2>4. Promise!Drop(a)
    BY <1>1, <1>2, <2>1, <2>2, <2>3 DEF Promise!Drop, Promise!Deliver, phases
  <2> QED BY <1>5, <2>4 DEF Promise!Next
<1> QED BY <1>4, <1>5

\* The last waiter of the list is told: the front of the queue.
LEMMA PopOneImplements ==
    ASSUME NotifyInv, NEW a \in Actors, PopOne(a)
    PROVE  [Promise!Next]_(Promise!vars)
<1> DEFINE w == Head(waiters)
<1>1. /\ w \in Futures /\ w # a /\ fut[w] = "Waiting" /\ notified[w] = "None"
      /\ waiters # <<>> /\ waiters' = Tail(waiters)
      /\ state'.calls = state.calls /\ state.tag = "WAITING"
      /\ state'.tag # "NOTIFIED"
      /\ Ends(a, [notified EXCEPT ![w] = "OneWaiter"], [waker EXCEPT ![w] = NoTask])
  BY Pops DEF PopOne
<1>2. Finished(a) /\ pc[a] = "notify_locked"
      /\ Cleared(a, [notified EXCEPT ![w] = "OneWaiter"], [waker EXCEPT ![w] = NoTask])
  BY DEF PopOne
<1> HIDE DEF w
<1>3. /\ \A f \in Futures \ {a, w} : fut'[f] = fut[f] /\ notified'[f] = notified[f]
      /\ notified'[w] = "OneWaiter" /\ fut'[w] = "Waiting"
  BY <1>1 DEF Ends, NotifyInv, Types
<1>4. CASE a \notin Futures
  <2>1. phases' = [phases EXCEPT ![w] = "One"]
    BY <1>1, <1>3, <1>4, PhaseTurns, Phasing
  <2>2. calls0' = calls0
    BY <1>2, <1>4 DEF Cleared
  <2>3. Promise!NotifyOne
    BY <1>1, <2>1, <2>2 DEF Promise!NotifyOne, Promise!Deliver, phases, w
  <2> QED BY <2>3 DEF Promise!Next
<1>5. CASE a \in Futures
  <2>1. fut'[a] = "None"
    BY <1>1, <1>5 DEF Ends
  <2>2. phases' = [[phases EXCEPT ![a] = "None"] EXCEPT ![w] = "One"]
    <3>1. \A g \in Futures : phases'[g] = Ph(fut'[g], notified'[g]) /\ phases[g] = Ph(fut[g], notified[g])
      BY Phasing DEF phases
    <3>2. phases' = [g \in Futures |-> phases'[g]] /\ phases = [g \in Futures |-> phases[g]]
      BY DEF phases
    <3>3. phases'[a] = "None" /\ phases'[w] = "One"
      BY <1>1, <1>3, <1>5, <2>1, <3>1, Phasing
    <3>4. \A g \in Futures \ {a, w} : phases'[g] = phases[g]
      BY <1>3, <3>1
    <3> QED BY <1>1, <1>5, <3>2, <3>3, <3>4
  <2>3. calls0' = [calls0 EXCEPT ![a] = 0]
    BY <1>2, <1>5 DEF Cleared
  <2>4. phases[a] = "One"
    BY <1>2, <1>5, Phasing DEF phases, NotifyInv, Held
  <2>5. Promise!Drop(a)
    BY <1>1, <2>2, <2>3, <2>4 DEF Promise!Drop, Promise!Deliver, phases, w
  <2> QED BY <1>5, <2>5 DEF Promise!Next
<1> QED BY <1>4, <1>5

\* The steps of a notifier.
LEMMA NotifierImplements ==
    ASSUME NotifyInv, NEW n \in Notifiers, OneLoad(n) \/ NotifierStep(n) \/ NotifyWaiters(n)
    PROVE  [Promise!Next]_(Promise!vars)
<1> USE ActorsAssumption
<1>0. n \in Actors
  BY DEF Actors
<1>1. CASE OneLoad(n) \/ OneLock(n)
  <2>1. UNCHANGED <<state, waiters, fut, calls0, notified>>
    BY <1>1 DEF OneLoad, OneLock, node
  <2> QED BY <2>1, PhaseStays, Stutters
<1>2. CASE OneExchange(n)
  <2>0. UNCHANGED <<lock, waiters, fut, calls0, notified>>
    BY <1>2 DEF OneExchange, node
  <2>1. phases' = phases
    BY <2>0, PhaseStays
  <2>2. CASE UNCHANGED state
    BY <2>0, <2>1, <2>2, Stutters
  <2>3. CASE state = curr[n] /\ state' = set_state(curr[n], "NOTIFIED")
    <3>1. curr[n] \in Word /\ pc[n] = "one_cas"
      BY <1>0, <1>2 DEF NotifyInv, Types, OneExchange
    <3>2. state'.calls = state.calls /\ state'.tag = "NOTIFIED" /\ state.tag # "WAITING"
      BY <2>3, <3>1, Words DEF Tags, NotifyInv, Held
    <3>3. waiters = <<>>
      <4>1. CASE lock = Nobody
        BY <3>2, <4>1 DEF NotifyInv, Tagged
      <4>2. CASE lock # Nobody
        BY <3>2, <4>2 DEF NotifyInv, Types, Held, Tagged
      <4> QED BY <4>1, <4>2
    <3>4. Promise!NotifyOne
      BY <2>0, <2>1, <3>2, <3>3 DEF Promise!NotifyOne, Promise!Deliver, phases
    <3> QED BY <3>4 DEF Promise!Next
  <2> QED BY <1>2, <2>2, <2>3 DEF OneExchange
<1>3. CASE NotifyWaiters(n)
  <2>0. UNCHANGED <<lock, fut, calls0>> /\ lock = Nobody /\ state \in Word /\ state.calls \in Nat
    BY <1>3, Words, MaxCallsAssumption DEF NotifyWaiters, NotifyInv, Types
  <2>1. \A f \in Futures : phases[f] = Ph(fut[f], notified[f]) /\ phases'[f] = Ph(fut'[f], notified'[f])
    BY Phasing DEF phases
  <2>2. phases' = [f \in Futures |-> phases'[f]]
    BY DEF phases
  <2>3. CASE /\ state.tag # "WAITING" /\ state' = [state EXCEPT !.calls = @ + 1]
             /\ UNCHANGED <<waiters, node, local>>
    <3>1. waiters = <<>> /\ Range(waiters) = {}
      BY <2>0, <2>3 DEF NotifyInv, Tagged, Range
    <3>2. state'.calls = state.calls + 1 /\ state'.tag = state.tag
      BY <2>0, <2>3 DEF Word
    <3>3. phases' = [f \in Futures |-> IF f \in Range(waiters) THEN "All" ELSE phases[f]]
      BY <2>0, <2>1, <2>2, <2>3, <3>1 DEF node
    <3>4. Promise!NotifyWaiters
      BY <2>0, <2>3, <3>1, <3>2, <3>3 DEF Promise!NotifyWaiters, phases, Promise!Range, Range
    <3> QED BY <3>4 DEF Promise!Next
  <2>4. CASE /\ state.tag = "WAITING"
             /\ state' = [calls |-> state.calls + 1, tag |-> "EMPTY"]
             /\ waiters' = <<>>
             /\ notified' = [f \in Futures |-> IF f \in Range(waiters)
                                               THEN "AllWaiters" ELSE notified[f]]
    <3>1. ASSUME NEW f \in Futures
          PROVE  phases'[f] = IF f \in Range(waiters) THEN "All" ELSE phases[f]
      <4>1. CASE f \in Range(waiters)
        <5>1. fut'[f] = "Waiting" /\ notified'[f] = "AllWaiters"
          BY <2>0, <2>4, <4>1 DEF NotifyInv, Listed
        <5> QED BY <2>1, <4>1, <5>1, Phasing
      <4>2. CASE f \notin Range(waiters)
        BY <2>0, <2>1, <2>4, <4>2
      <4> QED BY <4>1, <4>2
    <3>2. phases' = [f \in Futures |-> IF f \in Range(waiters) THEN "All" ELSE phases[f]]
      BY <2>2, <3>1
    <3>3. Promise!NotifyWaiters
      BY <2>0, <2>4, <3>2 DEF Promise!NotifyWaiters, phases, Promise!Range, Range
    <3> QED BY <3>3 DEF Promise!Next
  <2> QED BY <1>3, <2>3, <2>4 DEF NotifyWaiters
<1> QED BY <1>1, <1>2, <1>3 DEF NotifierStep

\* The steps of a future, of its first poll and of its drop.
LEMMA FutureImplements ==
    ASSUME NotifyInv, NEW f \in Futures,
           \/ Create(f) \/ FutureStep(f) \/ DropUnregistered(f) \/ DropWaiting(f)
           \/ \E k \in Tasks \cup {NoTask} : Poll(f, k)
    PROVE  [Promise!Next]_(Promise!vars)
<1>0. /\ phases[f] = Ph(fut[f], notified[f]) /\ state \in Word /\ curr[f] \in Word
      /\ waiters \in Seq(Futures) /\ Once(waiters)
  <2>1. f \in Actors
    BY DEF Actors
  <2> QED BY <2>1, Phasing DEF phases, NotifyInv, Types, Listed
<1>1. CASE Create(f)
  <2>1. /\ UNCHANGED <<state, waiters, notified>> /\ fut[f] = "None"
        /\ calls0' = [calls0 EXCEPT ![f] = state.calls]
        /\ fut' = [fut EXCEPT ![f] = "Init"]
    BY <1>1 DEF Create, node
  <2>2. phases' = [phases EXCEPT ![f] = "Fresh"]
    BY <2>1, PhaseTurns, Phasing DEF NotifyInv, Types
  <2>3. phases[f] = "None"
    BY <1>0, <2>1, Phasing
  <2>4. Promise!Create(f)
    BY <2>1, <2>2, <2>3 DEF Promise!Create, phases
  <2> QED BY <2>4 DEF Promise!Next
<1>2. ASSUME NEW k \in Tasks \cup {NoTask}, PollLoad(f, k)
      PROVE  [Promise!Next]_(Promise!vars)
  <2>1. UNCHANGED <<state, waiters, fut, calls0, notified>>
    BY <1>2 DEF PollLoad, node
  <2> QED BY <2>1, PhaseStays, Stutters
\* A permit is taken
<1>3. ASSUME fut[f] = "Init", state.tag = "NOTIFIED", state'.tag = "EMPTY",
             state'.calls = state.calls, UNCHANGED <<waiters, calls0, notified>>,
             fut' = [fut EXCEPT ![f] = "Done"]
      PROVE  [Promise!Next]_(Promise!vars)
  <2>1. phases' = [phases EXCEPT ![f] = "Done"]
    BY <1>3, PhaseTurns, Phasing DEF NotifyInv, Types
  <2>2. phases[f] = "Fresh"
    BY <1>0, <1>3, Phasing
  <2>3. Promise!TakePermit(f)
    BY <1>3, <2>1, <2>2 DEF Promise!TakePermit, phases
  <2> QED BY <2>3 DEF Promise!Next
<1>4. CASE PollExchange(f)
  <2>0. fut[f] = "Init" /\ UNCHANGED <<waiters, calls0, notified>>
    BY <1>4 DEF PollExchange, NotifyInv, Held, Polling, node
  <2>1. CASE /\ state = set_state(curr[f], "NOTIFIED")
             /\ state' = set_state(curr[f], "EMPTY")
             /\ fut' = [fut EXCEPT ![f] = "Done"]
    <3>1. state.tag = "NOTIFIED" /\ state'.tag = "EMPTY" /\ state'.calls = state.calls
      BY <1>0, <2>1, Words DEF Tags
    <3> QED BY <1>3, <2>0, <2>1, <3>1
  <2>2. CASE UNCHANGED <<state, fut>>
    BY <2>0, <2>2, PhaseStays, Stutters
  <2> QED BY <1>4, <2>1, <2>2 DEF PollExchange
<1>5. CASE PollLock(f)
  <2>0. fut[f] = "Init" /\ UNCHANGED <<state, waiters, calls0, notified>>
    BY <1>5 DEF PollLock, NotifyInv, Held, Polling, node
  <2>1. CASE state.calls # calls0[f] /\ fut' = [fut EXCEPT ![f] = "Done"]
    <3>1. phases' = [phases EXCEPT ![f] = "Done"]
      BY <2>0, <2>1, PhaseTurns, Phasing DEF NotifyInv, Types
    <3>2. phases[f] = "Fresh"
      BY <1>0, <2>0, Phasing
    <3>3. Promise!SeeCall(f)
      BY <2>0, <2>1, <3>1, <3>2 DEF Promise!SeeCall, phases
    <3> QED BY <3>3 DEF Promise!Next
  <2>2. CASE UNCHANGED fut
    BY <2>0, <2>2, PhaseStays, Stutters
  <2> QED BY <1>5, <2>1, <2>2 DEF PollLock
<1>6. CASE RegisterLoop(f)
  <2>0. /\ fut[f] = "Init" /\ UNCHANGED <<waiters, calls0, notified>>
        /\ pc[f] = "register" /\ curr[f].tag # "WAITING"
    BY <1>6 DEF RegisterLoop, NotifyInv, Held, Polling, node
  <2>1. CASE /\ state = curr[f] /\ curr[f].tag = "EMPTY"
             /\ state' = set_state(curr[f], "WAITING") /\ UNCHANGED fut
    <3>1. state'.tag = "WAITING" /\ state'.calls = state.calls
      BY <1>0, <2>1, Words DEF Tags
    <3> QED BY <2>0, <2>1, <3>1, PhaseStays, Stutters
  <2>2. CASE /\ state = curr[f] /\ curr[f].tag = "NOTIFIED"
             /\ state' = set_state(curr[f], "EMPTY") /\ fut' = [fut EXCEPT ![f] = "Done"]
    <3>1. state'.tag = "EMPTY" /\ state'.calls = state.calls
      BY <1>0, <2>2, Words DEF Tags
    <3> QED BY <1>3, <2>0, <2>2, <3>1
  <2>3. CASE UNCHANGED <<state, fut>>
    BY <2>0, <2>3, PhaseStays, Stutters
  <2> QED BY <1>6, <2>1, <2>2, <2>3 DEF RegisterLoop
<1>7. CASE Register(f)
  <2>0. /\ UNCHANGED <<state, calls0, notified>> /\ waiters' = Append(waiters, f)
        /\ fut' = [fut EXCEPT ![f] = "Waiting"] /\ pc[f] = "register"
        /\ curr[f].tag = "WAITING"
    BY <1>7 DEF Register
  <2>1. /\ fut[f] = "Init" /\ notified[f] = "None" /\ calls0[f] = state.calls
        /\ state.tag = "WAITING"
    BY <2>0, AtRegister
  <2>2. phases' = [phases EXCEPT ![f] = "Queued"]
    BY <2>0, <2>1, PhaseTurns, Phasing DEF NotifyInv, Types
  <2>3. phases[f] = "Fresh"
    BY <1>0, <2>1, Phasing
  <2>4. Promise!Enqueue(f)
    BY <2>0, <2>1, <2>2, <2>3 DEF Promise!Enqueue, phases
  <2> QED BY <2>4 DEF Promise!Next
<1>8. ASSUME NEW k \in Tasks \cup {NoTask}, PollWaiting(f, k)
      PROVE  [Promise!Next]_(Promise!vars)
  <2>0. fut[f] = "Waiting" /\ UNCHANGED <<state, waiters, calls0>>
    BY <1>8 DEF PollWaiting
  <2>1. CASE UNCHANGED <<fut, notified>>
    BY <2>0, <2>1, PhaseStays, Stutters
  <2>2. CASE /\ notified[f] # "None" /\ fut' = [fut EXCEPT ![f] = "Done"]
             /\ notified' = [notified EXCEPT ![f] = "None"]
    <3>1. phases' = [phases EXCEPT ![f] = "Done"]
      BY <2>2, PhaseTurns, Phasing DEF NotifyInv, Types
    <3>2. phases[f] \in {"One", "All"}
      <4>1. notified[f] \in {"OneWaiter", "AllWaiters"}
        BY <2>2 DEF NotifyInv, Types
      <4> QED BY <1>0, <2>0, <4>1, Phasing
    <3>3. Promise!Receive(f)
      BY <2>0, <3>1, <3>2 DEF Promise!Receive, phases
    <3> QED BY <3>3 DEF Promise!Next
  <2> QED BY <1>8, <2>1, <2>2 DEF PollWaiting
\* A future leaves, with no notification to hand on
<1>9. ASSUME Finished(f), Cleared(f, notified, waker), waiters' = Without(waiters, f),
             state'.calls = state.calls, (state'.tag = "NOTIFIED") <=> (state.tag = "NOTIFIED"),
             phases[f] \notin {"None", "One"}
      PROVE  [Promise!Next]_(Promise!vars)
  <2>1. Ends(f, notified, waker)
    BY <1>9, Clears DEF NotifyInv, Types
  <2>2. phases' = [phases EXCEPT ![f] = "None"]
    BY <2>1, PhaseTurns, Phasing DEF Ends
  <2>3. calls0' = [calls0 EXCEPT ![f] = 0]
    BY <1>9 DEF Cleared
  <2>4. Promise!Drop(f)
    BY <1>9, <2>2, <2>3, SameWithout DEF Promise!Drop, phases
  <2> QED BY <2>4 DEF Promise!Next
<1>10. CASE DropUnregistered(f)
  <2>1. /\ Finished(f) /\ Cleared(f, notified, waker) /\ UNCHANGED <<state, waiters>>
        /\ fut[f] \in {"Init", "Done"}
    BY <1>10 DEF DropUnregistered
  <2>2. phases[f] \in {"Fresh", "Done"}
    BY <1>0, <2>1, Phasing
  <2>3. ~\E i \in 1 .. Len(waiters) : waiters[i] = f
    BY <1>0, <2>1, RangeOf DEF NotifyInv, Listed
  <2>4. Without(waiters, f) = waiters
    BY <2>3 DEF Without
  <2> QED BY <1>9, <2>1, <2>2, <2>4
<1>11. CASE DropWaiting(f)
  <2>0. /\ waiters' = Without(waiters, f) /\ state'.calls = state.calls
        /\ f \notin Range(waiters) => waiters' = waiters /\ state' = state
        /\ (state'.tag = "NOTIFIED") <=> (state.tag = "NOTIFIED")
    BY <1>11, Unlinks
  <2>1. fut[f] = "Waiting" /\ notified[f] \in {"None", "OneWaiter", "AllWaiters"}
    BY <1>11 DEF DropWaiting, NotifyInv, Types
  <2>2. CASE notified[f] = "OneWaiter" /\ UNCHANGED <<fut, calls0, node>>
    <3>1. f \notin Range(waiters)
      BY <2>2 DEF NotifyInv, Listed
    <3> QED BY <2>0, <2>2, <3>1, PhaseStays, Stutters DEF node
  <2>3. CASE notified[f] # "OneWaiter" /\ Finished(f) /\ Cleared(f, notified, waker)
    <3>1. phases[f] \in {"Queued", "All"}
      BY <1>0, <2>1, <2>3, Phasing
    <3> QED BY <1>9, <2>0, <2>3, <3>1
  <2>4. \/ notified[f] = "OneWaiter" /\ UNCHANGED <<fut, calls0, node>>
        \/ notified[f] # "OneWaiter" /\ Finished(f) /\ Cleared(f, notified, waker)
    BY <1>11 DEF DropWaiting
  <2> QED BY <2>2, <2>3, <2>4
<1> QED BY <1>1, <1>2, <1>4, <1>5, <1>6, <1>7, <1>8, <1>10, <1>11 DEF FutureStep, Poll

\* The steps that any thread takes under the lock.
LEMMA ActorImplements ==
    ASSUME NotifyInv, NEW a \in Actors, ActorStep(a)
    PROVE  [Promise!Next]_(Promise!vars)
<1>1. CASE StoreExchange(a)
  <2>1. CASE /\ state = curr[a] /\ state' = set_state(curr[a], "NOTIFIED")
             /\ Unlock(a) /\ Finished(a) /\ Cleared(a, notified, waker)
    BY <1>1, <2>1, StoreImplements DEF StoreExchange
  <2>2. CASE UNCHANGED <<state, lock, fut, calls0, node, owner, woken>>
    <3>1. UNCHANGED <<state, waiters, fut, calls0, notified>>
      BY <1>1, <2>2 DEF StoreExchange, node
    <3> QED BY <3>1, PhaseStays, Stutters
  <2> QED BY <1>1, <2>1, <2>2 DEF StoreExchange
<1>2. CASE StoreAnyway(a)
  <2>1. curr[a].tag # "WAITING"
    BY <1>2 DEF NotifyInv, Tagged, StoreAnyway, Locked
  <2> QED BY <1>2, <2>1, StoreImplements DEF StoreAnyway
<1>3. CASE PopOne(a)
  BY <1>3, PopOneImplements
<1>4. CASE Wake(a)
  <2>1. UNCHANGED <<state, waiters, fut, calls0, notified>>
    BY <1>4 DEF Wake, node
  <2> QED BY <2>1, PhaseStays, Stutters
<1> QED BY <1>1, <1>2, <1>3, <1>4 DEF ActorStep

\* The word, the list and the nodes of notify.rs, at their atomics and under the
\* lock, do what NotifyContract says: one waiter per notify_one, first come first
\* served, or one stored permit, handed on by a future that is dropped, and all
\* that wait per notify_waiters.
THEOREM NotifyImplementsContract == Spec => Promise!Init /\ Contract
<1>1. Init => Promise!Init
  BY Phasing DEF Init, Promise!Init, Zero
<1>2. ASSUME NotifyInv, [Next]_vars
      PROVE  [Promise!Next]_(Promise!vars)
  <2>1. CASE UNCHANGED vars
    <3>1. UNCHANGED <<state, waiters, fut, calls0, notified>>
      BY <2>1 DEF vars, node
    <3> QED BY <3>1, PhaseStays, Stutters
  <2> QED BY <1>2, <2>1, NotifierImplements, ActorImplements, FutureImplements DEF Next
<1> QED BY <1>1, <1>2, NotifyInit, NotifyNext, PTL DEF Spec, Contract

-----------------------------------------------------------------------------
(* Wakers *)

\* The waker that a node keeps is that of the task that polled its future last,
\* and once the future was told, its task is woken or somebody has its waker in
\* hand and is about to wake it.
ToldAt(f) ==
    /\ fut[f] \in {"None", "Init"} => waker[f] = NoTask
    /\ fut[f] \in {"None", "Init"} /\ pc[f] \notin Polling => owner[f] = NoTask
    /\ pc[f] \in Polling => owner[f] = arg[f]
    /\ fut[f] = "Waiting" /\ notified[f] = "None" => waker[f] = owner[f]
    /\ fut[f] = "Waiting" /\ notified[f] # "None" /\ owner[f] # NoTask =>
          f \in woken \/ \E a \in Actors : <<f, owner[f]>> \in wakes[a]

\* Only a thread that is about to wake has wakers in hand.
InHand(a) == pc[a] # "wake" => wakes[a] = {}

\* Both, for all.
Told == (\A a \in Actors : InHand(a)) /\ (\A f \in Futures : ToldAt(f))

\* Nobody waits at first.
LEMMA ToldInit == Init => Told
<1> SUFFICES ASSUME Init PROVE Told
  OBVIOUS
<1>1. \A a \in Actors : InHand(a)
  BY DEF Init, InHand
<1>2. ASSUME NEW f \in Futures PROVE ToldAt(f)
  <2>1. f \in Actors
    BY DEF Actors
  <2> QED BY <2>1 DEF Init, ToldAt, Polling
<1> QED BY <1>1, <1>2 DEF Told

\* A thread that has no wakers in hand may take some.
LEMMA HandsFill ==
    ASSUME Told, NEW a \in Actors, pc[a] # "wake", NEW l, NEW c, NEW k, NEW w,
           Moves(a, l, c, k, w), w # {} => l = "wake"
    PROVE  /\ \A b \in Actors : InHand(b)'
           /\ \A b \in Actors : wakes[b] \subseteq wakes'[b]
<1>1. wakes[a] = {}
  BY DEF Told, InHand
<1> QED BY <1>1 DEF Told, InHand, Moves

\* A future of which nothing changes, and whose waker nobody has called.
LEMMA ToldSame ==
    ASSUME Told, NEW f \in Futures,
           fut'[f] = fut[f], notified'[f] = notified[f], waker'[f] = waker[f],
           owner'[f] = owner[f], pc'[f] \in Polling <=> pc[f] \in Polling,
           pc[f] \in Polling => arg'[f] = arg[f], f \in woken => f \in woken',
           \A b \in Actors : wakes[b] \subseteq wakes'[b]
    PROVE  ToldAt(f)'
  BY DEF Told, ToldAt

\* A future that is done, or gone, waits for nobody.
LEMMA ToldDone ==
    ASSUME NEW f, pc'[f] \notin Polling,
           \/ fut'[f] = "Done"
           \/ fut'[f] = "None" /\ waker'[f] = NoTask /\ owner'[f] = NoTask
    PROVE  ToldAt(f)'
  BY DEF ToldAt

\* A thread that acts on the word or the lock only.
LEMMA ToldElsewhere ==
    ASSUME Told, NEW a \in Actors, pc[a] # "wake", NEW l, NEW c,
           Moves(a, l, c, arg[a], wakes[a]), pc[a] \in Polling <=> l \in Polling,
           UNCHANGED <<fut, notified, waker, owner, woken>>
    PROVE  Told'
<1>1. wakes[a] = {}
  BY DEF Told, InHand
<1>2. /\ \A b \in Actors : InHand(b)'
      /\ \A b \in Actors : wakes[b] \subseteq wakes'[b]
  BY <1>1, HandsFill
<1>3. ASSUME NEW f \in Futures PROVE ToldAt(f)'
  <2>1. /\ pc'[f] \in Polling <=> pc[f] \in Polling
        /\ arg'[f] = arg[f]
    BY DEF Moves, Actors
  <2> QED BY <1>2, <2>1, ToldSame
<1> QED BY <1>2, <1>3 DEF Told

\* notify_locked tells nobody, and its future is gone.
LEMMA ToldStore ==
    ASSUME NotifyInv, Told, NEW a \in Actors, pc[a] \in {"notify_locked", "notify_store"},
           Return(a, {}), Finished(a), Cleared(a, notified, waker)
    PROVE  Told'
<1>1. Moves(a, "idle", Zero, NoTask, {})
  BY Returns DEF NotifyInv
<1>2. Ends(a, notified, waker)
  BY Clears DEF NotifyInv, Types
<1>3. /\ \A b \in Actors : InHand(b)'
      /\ \A b \in Actors : wakes[b] \subseteq wakes'[b]
  BY <1>1, HandsFill
<1>4. ASSUME NEW f \in Futures PROVE ToldAt(f)'
  <2>1. CASE f = a
    BY <1>1, <1>2, <2>1, ToldDone DEF Moves, Ends, Polling
  <2>2. CASE f # a
    <3>1. pc'[f] = pc[f] /\ arg'[f] = arg[f]
      BY <1>1, <2>2 DEF Moves, Actors
    <3> QED BY <1>2, <1>3, <2>2, <3>1, ToldSame DEF Ends
  <2> QED BY <2>1, <2>2
<1> QED BY <1>3, <1>4 DEF Told

\* notify_locked tells one, and has its waker in hand.
LEMMA ToldPop ==
    ASSUME NotifyInv, Told, NEW a \in Actors, PopOne(a)
    PROVE  Told'
<1> DEFINE w == Head(waiters)
           l == IF Taken(w) = {} THEN "idle" ELSE "wake"
<1>1. /\ w \in Futures /\ w # a /\ fut[w] = "Waiting" /\ notified[w] = "None"
      /\ Moves(a, l, Zero, NoTask, Taken(w))
      /\ Ends(a, [notified EXCEPT ![w] = "OneWaiter"], [waker EXCEPT ![w] = NoTask])
  BY Pops
<1>2. pc[a] = "notify_locked" /\ (Taken(w) # {} => l = "wake") /\ l \in {"idle", "wake"}
  BY DEF PopOne
<1> HIDE DEF w, l
<1>3. /\ \A b \in Actors : InHand(b)'
      /\ \A b \in Actors : wakes[b] \subseteq wakes'[b]
  BY <1>1, <1>2, HandsFill
<1>4. ASSUME NEW f \in Futures, f # a PROVE pc'[f] = pc[f] /\ arg'[f] = arg[f]
  BY <1>1, <1>4 DEF Moves, Actors
<1>5. ASSUME NEW f \in Futures PROVE ToldAt(f)'
  <2>1. CASE f = a
    BY <1>1, <1>2, <2>1, ToldDone DEF Moves, Ends, Polling
  <2>2. CASE f = w
    <3>1. /\ fut'[w] = "Waiting" /\ owner'[w] = owner[w] /\ pc'[w] = pc[w]
          /\ notified'[w] = "OneWaiter"
      BY <1>1, <1>4 DEF Ends, NotifyInv, Types
    <3>2. pc[w] \notin Polling /\ waker[w] = owner[w]
      BY <1>1 DEF NotifyInv, Held, Told, ToldAt
    <3>3. owner[w] # NoTask => <<w, owner[w]>> \in wakes'[a]
      BY <1>1, <3>2 DEF Taken, Moves
    <3> QED BY <2>2, <3>1, <3>2, <3>3 DEF ToldAt
  <2>3. CASE f \notin {a, w}
    <3>1. /\ fut'[f] = fut[f] /\ notified'[f] = notified[f] /\ waker'[f] = waker[f]
          /\ owner'[f] = owner[f] /\ (f \in woken' <=> f \in woken)
      BY <1>1, <2>3 DEF Ends, NotifyInv, Types
    <3> QED BY <1>3, <1>4, <2>3, <3>1, ToldSame
  <2> QED BY <2>1, <2>2, <2>3
<1> QED BY <1>3, <1>5 DEF Told

\* notify_waiters tells all, and has their wakers in hand.
LEMMA ToldAll ==
    ASSUME NotifyInv, Told, NEW n \in Notifiers, NotifyWaiters(n)
    PROVE  Told'
<1>0. n \in Actors /\ n \notin Futures /\ pc[n] = "idle" /\ UNCHANGED <<fut, owner, woken>>
  BY ActorsAssumption DEF Actors, NotifyWaiters
<1>1. CASE UNCHANGED <<node, local>>
  BY <1>0, <1>1 DEF node, local, Told, ToldAt, InHand
<1>2. CASE /\ notified' = [f \in Futures |-> IF f \in Range(waiters)
                                             THEN "AllWaiters" ELSE notified[f]]
           /\ waker' = [f \in Futures |-> IF f \in Range(waiters)
                                          THEN NoTask ELSE waker[f]]
           /\ Return(n, UNION {Taken(f) : f \in Range(waiters)})
  <2> DEFINE w == UNION {Taken(f) : f \in Range(waiters)}
             l == IF w = {} THEN "idle" ELSE "wake"
  <2>1. Range(waiters) \subseteq Futures
    BY RangeOf DEF NotifyInv, Types
  <2>2. w \in SUBSET (Futures \X Tasks)
    BY <2>1 DEF Taken, NotifyInv, Types
  <2>3. Moves(n, l, Zero, NoTask, w)
    BY <1>0, <1>2, <2>2, Returns DEF NotifyInv
  <2>4. w # {} => l = "wake"
    OBVIOUS
  <2>5. ASSUME NEW f \in Range(waiters), waker[f] # NoTask
        PROVE  <<f, waker[f]>> \in w
    BY <2>5 DEF Taken
  <2> HIDE DEF w, l
  <2>6. /\ \A b \in Actors : InHand(b)'
        /\ \A b \in Actors : wakes[b] \subseteq wakes'[b]
    BY <1>0, <2>3, <2>4, HandsFill
  <2>7. ASSUME NEW f \in Futures PROVE ToldAt(f)'
    <3>1. pc'[f] = pc[f] /\ arg'[f] = arg[f]
      BY <1>0, <2>3 DEF Moves, Actors
    <3>2. CASE f \in Range(waiters)
      <4>1. fut[f] = "Waiting" /\ notified[f] = "None" /\ waker[f] = owner[f]
        BY <3>2 DEF NotifyInv, Listed, Told, ToldAt
      <4>2. pc[f] \notin Polling
        BY <4>1 DEF NotifyInv, Held
      <4>3. owner[f] # NoTask => <<f, owner[f]>> \in wakes'[n]
        BY <2>3, <2>5, <3>2, <4>1 DEF Moves
      <4>4. notified'[f] = "AllWaiters"
        BY <1>2, <3>2
      <4> QED BY <1>0, <3>1, <4>1, <4>2, <4>3, <4>4 DEF ToldAt
    <3>3. CASE f \notin Range(waiters)
      <4>1. notified'[f] = notified[f] /\ waker'[f] = waker[f]
        BY <1>2, <3>3
      <4> QED BY <1>0, <2>6, <3>1, <4>1, ToldSame
    <3> QED BY <3>2, <3>3
  <2> QED BY <2>6, <2>7 DEF Told
<1> QED BY <1>1, <1>2 DEF NotifyWaiters

\* A waker is called, and its future is woken.
LEMMA ToldWake ==
    ASSUME NotifyInv, Told, NEW a \in Actors, Wake(a)
    PROVE  Told'
<1>0. PICK w \in wakes[a] :
        /\ woken' = IF owner[w[1]] = w[2] THEN woken \cup {w[1]} ELSE woken
        /\ wakes' = [wakes EXCEPT ![a] = @ \ {w}]
        /\ Goto(a, IF wakes[a] = {w} THEN "idle" ELSE "wake")
  BY DEF Wake
<1>1. pc[a] = "wake" /\ UNCHANGED <<fut, notified, waker, owner, arg>>
  BY DEF Wake, node
<1>2. w \in Futures \X Tasks
  BY DEF NotifyInv, Types
<1>3. /\ pc'[a] = IF wakes[a] = {w} THEN "idle" ELSE "wake"
      /\ \A b \in Actors \ {a} : pc'[b] = pc[b] /\ wakes'[b] = wakes[b]
      /\ wakes'[a] = wakes[a] \ {w}
  BY <1>0 DEF Goto, NotifyInv, Types
<1>4. \A b \in Actors : InHand(b)'
  BY <1>0, <1>3 DEF Told, InHand
<1>5. ASSUME NEW f \in Futures PROVE ToldAt(f)'
  <2>1. pc'[f] \in Polling <=> pc[f] \in Polling
    BY <1>1, <1>3 DEF Polling, Actors
  <2>2. ASSUME NEW b \in Actors, <<f, owner[f]>> \in wakes[b]
        PROVE  f \in woken' \/ <<f, owner[f]>> \in wakes'[b]
    BY <1>0, <1>2, <1>3, <2>2
  <2>3. f \in woken => f \in woken'
    BY <1>0
  <2>4. fut[f] = "Waiting" /\ notified[f] # "None" /\ owner[f] # NoTask =>
            f \in woken' \/ \E b \in Actors : <<f, owner[f]>> \in wakes'[b]
    BY <2>2, <2>3 DEF Told, ToldAt
  <2> QED BY <1>1, <2>1, <2>4 DEF Told, ToldAt
<1> QED BY <1>4, <1>5 DEF Told

\* One future is at work, and the others are as they were.
LEMMA ToldOthers ==
    ASSUME Told, NEW f \in Futures, pc[f] # "wake", NEW l, l # "wake", NEW c, NEW k,
           Moves(f, l, c, k, {}),
           \A g \in Futures \ {f} :
              /\ fut'[g] = fut[g] /\ notified'[g] = notified[g] /\ waker'[g] = waker[g]
              /\ owner'[g] = owner[g] /\ (g \in woken => g \in woken'),
           ToldAt(f)'
    PROVE  Told'
<1>0. f \in Actors
  BY DEF Actors
<1>1. /\ \A b \in Actors : InHand(b)'
      /\ \A b \in Actors : wakes[b] \subseteq wakes'[b]
  BY <1>0, HandsFill
<1>2. ASSUME NEW g \in Futures \ {f} PROVE ToldAt(g)'
  <2>1. pc'[g] = pc[g] /\ arg'[g] = arg[g]
    BY DEF Moves, Actors
  <2> QED BY <1>1, <2>1, ToldSame
<1> QED BY <1>1, <1>2 DEF Told

\* A future is done: with a permit, or for a call of notify_waiters.
LEMMA ToldDoneStep ==
    ASSUME NotifyInv, Told, NEW f \in Futures, pc[f] # "wake",
           fut' = [fut EXCEPT ![f] = "Done"], Return(f, {}),
           UNCHANGED <<notified, waker, owner, woken>>
    PROVE  Told'
<1>1. Moves(f, "idle", Zero, NoTask, {})
  BY Returns DEF NotifyInv, Actors
<1>2. Turns(f, "Done")
  BY TurnsTo DEF NotifyInv
<1>3. ToldAt(f)'
  <2>1. pc'[f] \notin Polling
    BY <1>1 DEF Moves, Polling
  <2>2. fut'[f] = "Done"
    BY <1>2 DEF Turns
  <2> QED BY <2>1, <2>2 DEF ToldAt
<1> QED BY <1>1, <1>2, <1>3, ToldOthers DEF Turns

\* The steps of a first poll.
LEMMA ToldFuture ==
    ASSUME NotifyInv, Told, NEW f \in Futures, FutureStep(f)
    PROVE  Told'
<1>0. f \in Actors
  BY DEF Actors
<1>1. CASE PollExchange(f)
  <2>1. pc[f] = "poll_cas" /\ UNCHANGED <<notified, waker, owner, woken>>
    BY <1>1 DEF PollExchange, node
  <2>2. CASE fut' = [fut EXCEPT ![f] = "Done"] /\ Return(f, {})
    BY <2>1, <2>2, ToldDoneStep
  <2>3. CASE Goto(f, "poll_lock") /\ UNCHANGED <<fut, curr, arg, wakes>>
    <3>1. Moves(f, "poll_lock", curr[f], arg[f], wakes[f])
      BY <1>0, <2>3 DEF Goto, Moves, NotifyInv, Types, Places
    <3> QED BY <1>0, <2>1, <2>3, <3>1, ToldElsewhere DEF Polling
  <2> QED BY <1>1, <2>2, <2>3 DEF PollExchange
<1>2. CASE PollLock(f)
  <2>1. pc[f] = "poll_lock" /\ UNCHANGED <<notified, waker, owner, woken>>
    BY <1>2 DEF PollLock, node
  <2>2. CASE fut' = [fut EXCEPT ![f] = "Done"] /\ Return(f, {})
    BY <2>1, <2>2, ToldDoneStep
  <2>3. CASE Load(f) /\ Goto(f, "register") /\ UNCHANGED fut
    <3>1. "register" \in Places
      BY DEF Places
    <3>2. Moves(f, "register", state, arg[f], wakes[f])
      BY <1>0, <2>3, <3>1, Loads DEF NotifyInv
    <3> QED BY <1>0, <2>1, <2>3, <3>2, ToldElsewhere DEF Polling
  <2> QED BY <1>2, <2>2, <2>3 DEF PollLock
<1>3. CASE RegisterLoop(f)
  <2>1. pc[f] = "register" /\ UNCHANGED <<notified, waker, owner, woken>>
    BY <1>3 DEF RegisterLoop, node
  <2>2. CASE fut' = [fut EXCEPT ![f] = "Done"] /\ Return(f, {})
    BY <2>1, <2>2, ToldDoneStep
  <2>3. CASE UNCHANGED <<fut, pc, arg, wakes>>
    BY <2>1, <2>3 DEF Told, ToldAt, InHand
  <2> QED BY <1>3, <2>2, <2>3 DEF RegisterLoop, Load
<1>4. CASE Register(f)
  <2>1. /\ pc[f] = "register" /\ UNCHANGED <<notified, owner, woken>>
        /\ waker' = [waker EXCEPT ![f] = IF arg[f] = NoTask THEN @ ELSE arg[f]]
        /\ fut' = [fut EXCEPT ![f] = "Waiting"] /\ Return(f, {})
    BY <1>4 DEF Register
  <2>2. Moves(f, "idle", Zero, NoTask, {})
    BY <1>0, <2>1, Returns DEF NotifyInv
  <2>3. /\ Turns(f, "Waiting") /\ fut[f] = "Init" /\ notified[f] = "None"
    BY <2>1, TurnsTo, AtRegister DEF NotifyInv
  <2>4. waker[f] = NoTask /\ owner[f] = arg[f]
    BY <2>1, <2>3 DEF Told, ToldAt, Polling
  <2>5. waker'[f] = owner'[f] /\ \A g \in Futures \ {f} : waker'[g] = waker[g]
    BY <2>1, <2>4 DEF NotifyInv, Types
  <2>6. ToldAt(f)'
    BY <2>1, <2>2, <2>3, <2>5 DEF ToldAt, Moves, Turns, Polling
  <2> QED BY <2>1, <2>2, <2>3, <2>5, <2>6, ToldOthers DEF Turns
<1> QED BY <1>1, <1>2, <1>3, <1>4 DEF FutureStep

\* The load of a first poll, and later polls.
LEMMA ToldPoll ==
    ASSUME NotifyInv, Told, NEW f \in Futures, NEW k \in Tasks \cup {NoTask}, Poll(f, k)
    PROVE  Told'
<1>0. f \in Actors
  BY DEF Actors
<1>1. CASE PollLoad(f, k)
  <2>1. /\ fut[f] = "Init" /\ pc[f] = "idle" /\ UNCHANGED <<fut, notified, waker, wakes>>
        /\ wakes[f] = {}
    BY <1>0, <1>1 DEF PollLoad, node, Told, InHand
  <2>2. Moves(f, "poll_cas", state, k, {})
    BY <1>0, <1>1, <2>1 DEF PollLoad, Goto, Moves, NotifyInv, Types, Places
  <2>3. waker[f] = NoTask /\ owner[f] = NoTask
    BY <2>1 DEF Told, ToldAt, Polling
  <2>4. /\ owner'[f] = k
        /\ \A g \in Futures \ {f} : owner'[g] = owner[g] /\ (g \in woken => g \in woken')
    BY <1>1, <2>3 DEF PollLoad, NotifyInv, Types
  <2>5. ToldAt(f)'
    BY <2>1, <2>2, <2>3, <2>4 DEF ToldAt, Moves, Polling
  <2> QED BY <2>1, <2>2, <2>4, <2>5, ToldOthers
<1>2. CASE PollWaiting(f, k)
  <2>1. /\ fut[f] = "Waiting" /\ pc[f] = "idle" /\ UNCHANGED <<pc, curr, arg, wakes>>
        /\ wakes[f] = {}
    BY <1>0, <1>2 DEF PollWaiting, local, Told, InHand
  <2>2. Moves(f, "idle", curr[f], arg[f], {})
    BY <1>0, <2>1 DEF Moves, NotifyInv, Types
  <2>3. /\ owner'[f] = IF k = NoTask THEN owner[f] ELSE k
        /\ \A g \in Futures \ {f} : owner'[g] = owner[g] /\ (g \in woken => g \in woken')
    BY <1>2 DEF PollWaiting, NotifyInv, Types
  <2>4. CASE notified[f] # "None" /\ fut' = [fut EXCEPT ![f] = "Done"]
             /\ notified' = [notified EXCEPT ![f] = "None"]
             /\ waker' = [waker EXCEPT ![f] = NoTask]
    <3>1. /\ fut'[f] = "Done"
          /\ \A g \in Futures \ {f} : /\ fut'[g] = fut[g] /\ notified'[g] = notified[g]
                                      /\ waker'[g] = waker[g]
      BY <2>4 DEF NotifyInv, Types
    <3>2. ToldAt(f)'
      <4>1. pc'[f] \notin Polling
        BY <2>2 DEF Moves, Polling
      <4> QED BY <3>1, <4>1 DEF ToldAt
    <3> QED BY <2>1, <2>2, <2>3, <3>1, <3>2, ToldOthers
  <2>5. CASE notified[f] = "None" /\ UNCHANGED <<fut, notified>>
             /\ waker' = [waker EXCEPT ![f] = IF k = NoTask THEN @ ELSE k]
    <3>1. /\ waker'[f] = IF k = NoTask THEN waker[f] ELSE k
          /\ \A g \in Futures \ {f} : waker'[g] = waker[g]
      BY <2>5 DEF NotifyInv, Types
    <3>2. waker'[f] = owner'[f]
      BY <2>1, <2>3, <2>5, <3>1 DEF Told, ToldAt
    <3>3. ToldAt(f)'
      BY <2>1, <2>5, <3>2 DEF ToldAt, Polling
    <3> QED BY <2>1, <2>2, <2>3, <2>5, <3>1, <3>3, ToldOthers
  <2> QED BY <1>2, <2>4, <2>5 DEF PollWaiting
<1> QED BY <1>1, <1>2 DEF Poll

\* Futures that are dropped.
LEMMA ToldDrop ==
    ASSUME NotifyInv, Told, NEW f \in Futures,
           Create(f) \/ DropUnregistered(f) \/ DropWaiting(f)
    PROVE  Told'
<1>0. f \in Actors
  BY DEF Actors
<1>1. pc[f] = "idle" /\ wakes[f] = {}
  BY <1>0 DEF Create, DropUnregistered, DropWaiting, Told, InHand
<1>2. CASE Create(f)
  <2>1. /\ fut[f] = "None" /\ fut' = [fut EXCEPT ![f] = "Init"]
        /\ UNCHANGED <<notified, waker, owner, pc, curr, arg, wakes, woken>>
    BY <1>2 DEF Create, node, local
  <2>2. Moves(f, "idle", curr[f], arg[f], {}) /\ Turns(f, "Init")
    BY <1>0, <1>1, <2>1, TurnsTo DEF Moves, NotifyInv, Types
  <2>3. waker[f] = NoTask /\ owner[f] = NoTask
    BY <1>1, <2>1 DEF Told, ToldAt, Polling
  <2>4. ToldAt(f)'
    BY <1>1, <2>1, <2>2, <2>3 DEF ToldAt, Turns, Polling
  <2> QED BY <1>1, <2>1, <2>2, <2>4, ToldOthers DEF Turns
<1>3. CASE Finished(f) /\ Cleared(f, notified, waker) /\ UNCHANGED local
  <2>1. Ends(f, notified, waker)
    BY <1>3, Clears DEF NotifyInv, Types
  <2>2. Moves(f, "idle", curr[f], arg[f], {})
    BY <1>0, <1>1, <1>3 DEF local, Moves, NotifyInv, Types
  <2>3. ToldAt(f)'
    BY <2>1, <2>2, ToldDone DEF Ends, Moves, Polling
  <2> QED BY <1>1, <2>1, <2>2, <2>3, ToldOthers DEF Ends
<1>4. CASE /\ Goto(f, "notify_locked") /\ UNCHANGED <<fut, calls0, node, owner, woken, arg, wakes>>
           /\ \E word \in Word : curr' = [curr EXCEPT ![f] = word]
  <2>1. PICK word \in Word : curr' = [curr EXCEPT ![f] = word]
    BY <1>4
  <2>2. Moves(f, "notify_locked", word, arg[f], wakes[f])
    BY <1>0, <1>4, <2>1 DEF Goto, Moves, NotifyInv, Types, Places
  <2>3. UNCHANGED <<fut, notified, waker, owner, woken>>
    BY <1>4 DEF node
  <2> QED BY <1>0, <1>1, <2>2, <2>3, ToldElsewhere DEF Polling
<1>5. CASE DropWaiting(f)
  <2>1. state' \in Word
    BY <1>5, Unlinks
  <2>2. \/ /\ curr' = [curr EXCEPT ![f] = state'] /\ Goto(f, "notify_locked")
           /\ UNCHANGED <<fut, calls0, node, owner, woken, arg, wakes>>
        \/ Finished(f) /\ Cleared(f, notified, waker) /\ UNCHANGED local
    BY <1>5 DEF DropWaiting
  <2> QED BY <1>3, <1>4, <2>1, <2>2
<1>6. CASE DropUnregistered(f)
  BY <1>3, <1>6 DEF DropUnregistered
<1> QED BY <1>2, <1>5, <1>6

\* Every step keeps it.
LEMMA ToldNext == ASSUME NotifyInv, Told, [Next]_vars PROVE Told'
<1>1. CASE UNCHANGED vars
  BY <1>1 DEF vars, node, local, Told, ToldAt, InHand
<1>2. ASSUME NEW n \in Notifiers, OneLoad(n) \/ NotifierStep(n) \/ NotifyWaiters(n)
      PROVE  Told'
  <2>0. n \in Actors
    BY DEF Actors
  <2>1. ASSUME UNCHANGED <<fut, notified, waker, owner, woken>>, Load(n), pc[n] # "wake",
               NEW l \in Places \ Polling, Goto(n, l)
        PROVE  Told'
    <3>1. Moves(n, l, state, arg[n], wakes[n])
      BY <2>0, <2>1, Loads DEF NotifyInv
    <3>2. pc[n] \notin Polling
      BY DEF NotifyInv, Held
    <3> QED BY <2>0, <2>1, <3>1, <3>2, ToldElsewhere
  <2>2. /\ {"one_lock", "one_cas", "notify_locked"} \subseteq Places \ Polling
        /\ (IF state.tag = "WAITING" THEN "one_lock" ELSE "one_cas") \in Places \ Polling
    BY DEF Places, Polling
  <2>3. CASE OneLoad(n)
    BY <2>1, <2>2, <2>3 DEF OneLoad, node
  <2>4. CASE OneLock(n)
    BY <2>1, <2>2, <2>4 DEF OneLock, node
  <2>5. CASE OneExchange(n)
    <3>1. pc[n] = "one_cas" /\ UNCHANGED <<fut, notified, waker, owner, woken>>
      BY <2>5 DEF OneExchange, node
    <3>2. CASE Return(n, {})
      <4>1. Moves(n, "idle", Zero, NoTask, {})
        BY <2>0, <3>2, Returns DEF NotifyInv
      <4>2. /\ \A b \in Actors : InHand(b)'
            /\ \A b \in Actors : wakes[b] \subseteq wakes'[b]
        BY <2>0, <3>1, <4>1, HandsFill
      <4>3. ASSUME NEW f \in Futures PROVE ToldAt(f)'
        <5>1. pc'[f] = pc[f] /\ arg'[f] = arg[f]
          BY <4>1, ActorsAssumption DEF Moves, Actors
        <5> QED BY <3>1, <4>2, <5>1, ToldSame
      <4> QED BY <4>2, <4>3 DEF Told
    <3>3. CASE Load(n) /\ Goto(n, IF state.tag = "WAITING" THEN "one_lock" ELSE "one_cas")
      BY <2>1, <2>2, <3>1, <3>3
    <3> QED BY <2>5, <3>2, <3>3 DEF OneExchange
  <2>6. CASE NotifyWaiters(n)
    BY <2>6, ToldAll
  <2> QED BY <1>2, <2>3, <2>4, <2>5, <2>6 DEF NotifierStep
<1>3. ASSUME NEW a \in Actors, ActorStep(a)
      PROVE  Told'
  <2>1. CASE StoreExchange(a)
    <3>1. CASE Return(a, {}) /\ Finished(a) /\ Cleared(a, notified, waker)
      BY <2>1, <3>1, ToldStore DEF StoreExchange
    <3>2. CASE /\ Load(a) /\ Goto(a, "notify_store")
               /\ UNCHANGED <<state, lock, fut, calls0, node, owner, woken>>
      <4>1. "notify_store" \in Places
        BY DEF Places
      <4>2. Moves(a, "notify_store", state, arg[a], wakes[a])
        BY <3>2, <4>1, Loads DEF NotifyInv
      <4>3. pc[a] = "notify_locked" /\ UNCHANGED <<fut, notified, waker, owner, woken>>
        BY <2>1, <3>2 DEF StoreExchange, node
      <4> QED BY <4>2, <4>3, ToldElsewhere DEF Polling
    <3> QED BY <2>1, <3>1, <3>2 DEF StoreExchange
  <2>2. CASE StoreAnyway(a)
    BY <2>2, ToldStore DEF StoreAnyway
  <2> QED BY <1>3, <2>1, <2>2, ToldPop, ToldWake DEF ActorStep
<1> QED BY <1>1, <1>2, <1>3, ToldFuture, ToldPoll, ToldDrop DEF Next

\* A future that waits and was told, by notify_one or by notify_waiters, has its
\* task woken, or its waker in the hands of a thread that is about to call it.
ToldIsWoken ==
    \A f \in Futures :
        fut[f] = "Waiting" /\ notified[f] # "None" /\ owner[f] # NoTask =>
            \/ f \in woken
            \/ \E a \in Actors : pc[a] = "wake" /\ <<f, owner[f]>> \in wakes[a]

\* No wake-up of notify.rs is lost: who was told while it waits will be polled
\* by the task that polled it last, wherever the future moved between its polls.
THEOREM ToldTaskIsWoken == Spec => []ToldIsWoken
<1>1. ASSUME Told PROVE ToldIsWoken
  BY <1>1 DEF Told, ToldAt, InHand, ToldIsWoken
<1> QED BY <1>1, NotifyInit, NotifyNext, ToldInit, ToldNext, PTL DEF Spec

-----------------------------------------------------------------------------
(* Watch                                                                   *)

\* The functions have a place for each receiver.
Handles ==
    /\ spot = [r \in Receivers |-> spot[r]]
    /\ ver = [r \in Receivers |-> ver[r]]
    /\ shown = [r \in Receivers |-> shown[r]]

\* Both words move together, under the write lock.
VersionIsValue == version = latest

WatchInv == Handles /\ VersionIsValue /\ MarkedWasShown

-----------------------------------------------------------------------------

\* No Ref is out when the channel is made.
LEMMA WatchInit == W!Init => WatchInv
  BY DEF W!Init, WatchInv, Handles, VersionIsValue, MarkedWasShown, W!MarkedWasShown

\* A step that leaves the lock and what receivers hold alone changes nothing.
LEMMA Elsewhere ==
    ASSUME WatchInv, UNCHANGED <<latest, version, spot, ver, shown>>
    PROVE  WatchInv'
  BY DEF WatchInv, Handles, VersionIsValue, MarkedWasShown, W!MarkedWasShown

\* Writers and the task in closed.
LEMMA SenderStepKeeps ==
    ASSUME WatchInv,
           \/ \E w \in Writers : W!Send(w) \/ W!SendReplace(w) \/ W!WriterStep(w)
           \/ W!DropSender \/ W!NotifyClosed
           \/ W!CloserLook \/ W!CloserStep \/ W!CancelClosed
    PROVE  WatchInv'
<1>1. ASSUME NEW w \in Writers, W!Modify(w)
      PROVE  WatchInv'
  BY <1>1 DEF W!Modify, W!Reading, W!rcv, WatchInv, Handles, VersionIsValue, MarkedWasShown, W!MarkedWasShown
<1>2. ASSUME NEW w \in Writers, W!Send(w) \/ W!SendReplace(w) \/ W!NotifyReceivers(w)
      PROVE  WatchInv'
  BY <1>2, Elsewhere DEF W!Send, W!SendReplace, W!NotifyReceivers, W!word, W!rcv
<1>3. CASE W!DropSender \/ W!NotifyClosed
  BY <1>3, Elsewhere DEF W!DropSender, W!NotifyClosed, W!word, W!rcv
<1>4. CASE W!CloserLook \/ W!CloserStep \/ W!CancelClosed
  BY <1>4, Elsewhere
     DEF W!CloserLook, W!CloserStep, W!CloserCreate, W!CloserCheck, W!CloserAwait,
         W!CancelClosed, W!word, W!rcv
<1> QED BY <1>1, <1>2, <1>3, <1>4 DEF W!WriterStep

\* Steps of a receiver leave the value where it is.
LEMMA ReceiverStepKeeps ==
    ASSUME WatchInv, NEW r \in Receivers,
           \/ W!Subscribe(r) \/ \E q \in Receivers : W!CloneReceiver(r, q)
           \/ W!DropReceiver(r) \/ W!Borrow(r) \/ W!BorrowAndUpdate(r) \/ W!MarkSeen(r)
           \/ W!DropRef(r) \/ W!Changed(r) \/ W!ReceiverStep(r) \/ W!CancelChanged(r)
    PROVE  WatchInv'
<1> USE DEF WatchInv, Handles, VersionIsValue, MarkedWasShown, W!MarkedWasShown, W!Goto, W!word
<1>1. CASE W!Subscribe(r)
  BY <1>1 DEF W!Subscribe
<1>2. ASSUME NEW q \in Receivers, W!CloneReceiver(r, q)
      PROVE  WatchInv'
  BY <1>2 DEF W!CloneReceiver
<1>3. CASE W!DropReceiver(r)
  BY <1>3 DEF W!DropReceiver
<1>4. CASE W!Borrow(r)
  BY <1>4 DEF W!Borrow
<1>5. CASE W!BorrowAndUpdate(r)
  BY <1>5 DEF W!BorrowAndUpdate
<1>6. CASE W!MarkSeen(r)
  BY <1>6 DEF W!MarkSeen
<1>7. CASE W!DropRef(r)
  BY <1>7 DEF W!DropRef
<1>8. CASE W!Changed(r)
  BY <1>8 DEF W!Changed
<1>9. CASE W!FromShared(r) \/ W!NotifyEmpty(r)
  BY <1>9 DEF W!FromShared, W!NotifyEmpty
<1>10. CASE W!MaybeChanged(r)
  BY <1>10 DEF W!MaybeChanged
<1>11. CASE W!AwaitNotified(r) \/ W!CancelChanged(r)
  BY <1>11 DEF W!AwaitNotified, W!CancelChanged
<1> QED
  BY <1>1, <1>2, <1>3, <1>4, <1>5, <1>6, <1>7, <1>8, <1>9, <1>10, <1>11
     DEF W!ReceiverStep

-----------------------------------------------------------------------------

\* The comment in send_modify (watch.rs, line 670): the version that
\* borrow_and_update marks is that of the value it shows, and no writer changes
\* a value under a Ref.
THEOREM MarksWhatItShows == W!Spec => []MarkedWasShown
<1>1. W!Init => WatchInv
  BY WatchInit
<1>2. ASSUME WatchInv, [W!Next]_(W!vars)
      PROVE  WatchInv'
  <2>1. CASE UNCHANGED W!vars
    BY <1>2, <2>1, Elsewhere DEF W!vars, W!word, W!rcv
  <2>2. CASE W!Stopped
    BY <2>1, <2>2 DEF W!Stopped
  <2> QED BY <1>2, <2>1, <2>2, SenderStepKeeps, ReceiverStepKeeps DEF W!Next
<1>3. WatchInv => MarkedWasShown
  BY DEF WatchInv
<1> QED BY <1>1, <1>2, <1>3, PTL DEF W!Spec

-----------------------------------------------------------------------------
(* The barrier *)

BarrierPlaces == {"out", "cloned", "changed", "borrow", "done"}

BarrierTypes ==
    /\ arrived \in Nat
    /\ generation \in 1 .. MaxGen + 1
    /\ opened = generation - 1
    /\ at \in [Waiters -> BarrierPlaces]
    /\ gen \in [Waiters -> Nat]
    /\ leads \in [Waiters -> BOOLEAN]
    /\ counted \in [1 .. MaxGen -> Nat]

\* The count of the lock's state is that of the generation it names, and the
\* next generation begins as soon as it is complete.
Count ==
    /\ arrived < BarrierN
    /\ \A g \in 1 .. MaxGen : g < generation => counted[g] = BarrierN
    /\ generation <= MaxGen => counted[generation] = arrived
    /\ \A g \in 1 .. MaxGen : g > generation => counted[g] = 0

\* Who is through, or leads, belongs to a generation that has opened.
Through ==
    \A t \in Waiters :
        /\ at[t] = "done" => gen[t] < generation
        /\ leads[t] => at[t] = "done"

OneLeader ==
    \A t, u \in Waiters : leads[t] /\ leads[u] /\ gen[t] = gen[u] => t = u

BarrierInv == BarrierTypes /\ Count /\ Through /\ OneLeader

-----------------------------------------------------------------------------

\* What `new` leaves behind: nobody has arrived in the first generation.
LEMMA BarrierInit ==
    ASSUME B!Init
    PROVE  BarrierInv
  BY BarrierAssumption DEF B!Init, BarrierInv, BarrierTypes, BarrierPlaces, Count, Through, OneLeader

\* Arriving is the one step that moves the count.
LEMMA ArriveStep ==
    ASSUME BarrierInv, NEW t \in Waiters, B!Arrive(t)
    PROVE  BarrierInv'
<1> USE BarrierAssumption DEF BarrierInv
<1>1. /\ generation \in 1 .. MaxGen
      /\ counted' = [counted EXCEPT ![generation] = @ + 1]
      /\ gen' = [gen EXCEPT ![t] = generation]
  BY DEF B!Arrive, BarrierTypes
<1>2. counted'[generation] = arrived + 1
  BY <1>1 DEF BarrierTypes, Count
<1>3. \A g \in 1 .. MaxGen : g # generation => counted'[g] = counted[g]
  BY <1>1 DEF BarrierTypes
<1>4. counted' \in [1 .. MaxGen -> Nat]
  BY <1>1 DEF BarrierTypes
<1>5. CASE arrived + 1 = BarrierN
  <2>1. /\ opened' = generation /\ arrived' = 0
        /\ generation' = generation + 1
        /\ at' = [at EXCEPT ![t] = "done"]
        /\ leads' = [leads EXCEPT ![t] = TRUE]
    BY <1>5 DEF B!Arrive
  <2>2. BarrierTypes'
    BY <1>1, <1>4, <2>1 DEF BarrierTypes, BarrierPlaces
  <2>3. Count'
    BY <1>1, <1>2, <1>3, <1>5, <2>1 DEF Count, BarrierTypes
  <2>4. Through'
    BY <1>1, <2>1 DEF Through, BarrierTypes, BarrierPlaces
  <2>5. ASSUME NEW u \in Waiters, u # t, leads[u]
        PROVE  gen[u] < generation
    BY <2>5 DEF Through
  <2>6. OneLeader'
    BY <1>1, <2>1, <2>5 DEF OneLeader, BarrierTypes
  <2> QED BY <2>2, <2>3, <2>4, <2>6
<1>6. CASE arrived + 1 # BarrierN
  <2>1. /\ arrived' = arrived + 1
        /\ at' = [at EXCEPT ![t] = "cloned"]
        /\ UNCHANGED <<generation, opened, leads>>
        /\ ~leads[t]
    BY <1>6 DEF B!Arrive, Through
  <2>2. BarrierTypes'
    BY <1>1, <1>4, <2>1 DEF BarrierTypes, BarrierPlaces
  <2>3. Count'
    BY <1>1, <1>2, <1>3, <1>6, <2>1 DEF Count, BarrierTypes
  <2>4. Through'
    BY <1>1, <2>1 DEF Through, BarrierTypes, BarrierPlaces
  <2>5. OneLeader'
    BY <1>1, <2>1 DEF OneLeader, BarrierTypes
  <2> QED BY <2>2, <2>3, <2>4, <2>5
<1> QED BY <1>5, <1>6

\* The other steps move one waiter and leave the count alone.
LEMMA BarrierStep ==
    ASSUME BarrierInv, [B!Next]_(B!vars)
    PROVE  BarrierInv'
<1>1. CASE UNCHANGED B!vars
  BY <1>1 DEF B!vars, BarrierInv, BarrierTypes, Count, Through, OneLeader
<1>2. CASE B!Idle
  BY <1>1, <1>2 DEF B!Idle
<1>3. ASSUME NEW t \in Waiters,
             B!Arrive(t) \/ B!WaitStep(t) \/ B!Leave(t) \/ B!Cancel(t)
      PROVE  BarrierInv'
  <2>1. CASE B!Arrive(t)
    BY <2>1, ArriveStep
  <2>2. CASE B!CloneWait(t)
    BY <2>2 DEF B!CloneWait, BarrierInv, BarrierTypes, BarrierPlaces, Count, Through, OneLeader
  <2>3. CASE B!WaitChanged(t)
    BY <2>3 DEF B!WaitChanged, BarrierInv, BarrierTypes, BarrierPlaces, Count, Through, OneLeader
  <2>4. CASE B!Look(t)
    BY <2>4 DEF B!Look, BarrierInv, BarrierTypes, BarrierPlaces, Count, Through, OneLeader
  <2>5. CASE B!Leave(t)
    BY <2>5 DEF B!Leave, BarrierInv, BarrierTypes, BarrierPlaces, Count, Through, OneLeader
  <2>6. CASE B!Cancel(t)
    BY <2>6 DEF B!Cancel, BarrierInv, BarrierTypes, BarrierPlaces, Count, Through, OneLeader
  <2> QED BY <1>3, <2>1, <2>2, <2>3, <2>4, <2>5, <2>6 DEF B!WaitStep
<1> QED BY <1>1, <1>2, <1>3 DEF B!Next

-----------------------------------------------------------------------------

\* The barrier's promise: a wait resolves only after exactly N waits were
\* counted for its generation, and one of them leads (barrier.rs, wait_internal).
THEOREM OpensWithAll == B!Spec => []OpensFull
<1>1. B!Init => BarrierInv
  BY BarrierInit
<1>2. BarrierInv /\ [B!Next]_(B!vars) => BarrierInv'
  BY BarrierStep
<1>3. BarrierInv => OpensFull
  BY DEF BarrierInv, Count, Through, OneLeader, OpensFull, B!OpensFull
<1> QED BY <1>1, <1>2, <1>3, PTL DEF B!Spec

-----------------------------------------------------------------------------
(* Broadcast: the inductive invariant                                      *)

\* Positions below Front are written; the sender that holds the tail has claimed
\* Front itself.
Front == IF holder = C!Nobody THEN tail.pos ELSE tail.pos - 1

\* The indices of the ring.
Slots == 0 .. Cap - 1

\* Where a receiver has a guard on a slot.
Reading == {"clone", "release"}

\* The kinds of the fields.
RingTypes ==
    /\ buffer \in [Slots -> [pos : Int, rem : 0 .. MaxRem, closed : BOOLEAN, val : Int]]
    /\ tail \in [pos : Nat, cnt : Nat, closed : BOOLEAN]
    /\ holder \in Senders \cup {C!Nobody}
    /\ tx \in [Senders -> {"none", "live", "writing", "closing", "writing_close", "gone"}]
    /\ rx \in [Consumers -> {"none", "live", "dropping"}]
    /\ next \in [Consumers -> Nat]
    /\ until \in [Consumers -> Nat]
    /\ place \in [Consumers -> Reading \cup {"idle", "slow", "unqueue", "drain", "gone"}]
    /\ mode \in [Consumers -> {"none", "recv", "try", "drop"}]

\* One sender has the tail over its wait for a slot; the last one closes.
Sending ==
    /\ \A s \in Senders : holder = s <=> tx[s] \in {"writing", "writing_close"}
    /\ holder # C!Nobody => tail.cnt > 0 /\ tail.pos > 0
    /\ tail.cnt = Cardinality(C!Live)
    /\ \A s \in Senders : tx[s] \in {"closing", "writing_close"} =>
          /\ ~tail.closed
          /\ \A t \in Senders \ {s} : tx[t] \in {"none", "gone"}
    /\ tail.closed => \A s \in Senders : tx[s] \in {"none", "gone"}

\* The ring holds the last Cap positions, the marker of the close at the end.
Ring ==
    \A i \in Slots :
        /\ buffer[i].pos \in Front - Cap .. Front - 1
        /\ C!Idx(buffer[i].pos) = i
        /\ buffer[i].closed <=> tail.closed /\ buffer[i].pos = Front - 1

\* The position of the value in a slot; the marker leaves the one before it there.
Base(i) == IF buffer[i].closed THEN buffer[i].pos - Cap ELSE buffer[i].pos

\* Where a receiver stands, and that who reads a slot reads the value in it.
Stands(r) ==
    /\ next[r] <= Front /\ until[r] <= Front
    /\ rx[r] = "none" => place[r] = "idle"
    /\ rx[r] = "live" => place[r] \in Reading \cup {"idle", "slow", "unqueue"}
    /\ rx[r] = "dropping" => place[r] \in {"drain", "slow", "release", "gone"}
    /\ place[r] \in Reading \cup {"slow"} =>
          mode[r] # "none" /\ (mode[r] = "drop" <=> rx[r] = "dropping")
    /\ rx[r] = "dropping" /\ place[r] = "slow" => next[r] < until[r]
    /\ place[r] = "gone" => next[r] = Front /\ tail.closed
    /\ place[r] \in Reading => next[r] >= 1 /\ Base(C!Idx(next[r] - 1)) = next[r] - 1

\* So for every receiver.
Standing == \A r \in Consumers : Stands(r)

\* The slot of the marker, if the close fell into the drop of a receiver: that
\* one may have taken the value that the marker left there.
Spoilt(i) == met /\ buffer[i].closed

\* A slot counts those who owe its value a look (the marker, maybe more), and
\* has the value while there are any.
Counts(i) ==
    /\ buffer[i].val \in {C!Absent, Base(i)}
    /\ ~buffer[i].closed =>
          /\ buffer[i].rem = Cardinality(C!Owing(Base(i)))
          /\ buffer[i].rem = 0 => buffer[i].val = C!Absent
    /\ ~Spoilt(i) =>
          /\ Cardinality(C!Owing(Base(i))) <= buffer[i].rem
          /\ C!Owing(Base(i)) # {} => buffer[i].val = Base(i)

\* So for every slot.
Counting == \A i \in Slots : Counts(i)

\* The inductive invariant.
RingInv == RingTypes /\ Sending /\ Ring /\ Standing /\ Counting

-----------------------------------------------------------------------------
(* The ring: positions and slots                                           *)

\* A position is so many turns of the ring and its slot.
LEMMA Turn ==
    ASSUME NEW p \in Int
    PROVE  \E k \in Int : p = Cap * k + C!Idx(p)
<1> USE RingAssumption
<1>1. PICK k \in Int : k = p \div Cap
  BY SMT
<1>2. Cap * k <= p /\ p < Cap * k + Cap
  BY <1>1, SMT
<1>3. PICK r \in 0 .. Cap - 1 : p = Cap * k + r
  <2>1. Cap * k \in Int
    BY SMT
  <2> DEFINE m == Cap * k
  <2>2. p - m \in 0 .. Cap - 1 /\ p = m + (p - m)
    BY <1>2, <2>1
  <2> QED BY <2>2
<1>4. p % Cap = r
  BY <1>3, SMT
<1> QED BY <1>3, <1>4 DEF C!Idx

\* Every slot of the ring is some position's; positions a ring apart share one.
LEMMA IdxIs ==
    ASSUME NEW p \in Int
    PROVE  /\ C!Idx(p) \in Slots
           /\ C!Idx(p + Cap) = C!Idx(p) /\ C!Idx(p - Cap) = C!Idx(p)
           /\ p \in Slots => C!Idx(p) = p
<1> USE RingAssumption
<1>1. C!Idx(p) \in Slots
  BY SMT DEF C!Idx, Slots
<1>2. PICK k \in Int : p = Cap * k + C!Idx(p)
  BY Turn
<1>3. PICK r \in 0 .. Cap - 1 : r = C!Idx(p)
  BY <1>1 DEF Slots
<1>4. \A j \in Int : (Cap * j + r) % Cap = r
  BY SMT
<1>5. p + Cap = Cap * (k + 1) + r /\ p - Cap = Cap * (k - 1) + r
  BY <1>2, <1>3, SMT
<1>6. k + 1 \in Int /\ k - 1 \in Int
  BY SMT
<1>7. C!Idx(p + Cap) = r /\ C!Idx(p - Cap) = r
  BY <1>4, <1>5, <1>6 DEF C!Idx
<1>8. p \in Slots => C!Idx(p) = p
  BY SMT DEF Slots, C!Idx
<1> QED BY <1>1, <1>3, <1>7, <1>8

\* Two positions of a slot are a ring apart, or more.
LEMMA IdxApart ==
    ASSUME NEW p \in Int, NEW q \in Int, C!Idx(p) = C!Idx(q),
           p < q + Cap, q < p + Cap
    PROVE  p = q
<1> USE RingAssumption
<1>1. PICK k \in Int : p = Cap * k + C!Idx(p)
  BY Turn
<1>2. PICK m \in Int : q = Cap * m + C!Idx(q)
  BY Turn
<1>3. PICK r \in Int : r = C!Idx(p)
  BY SMT DEF C!Idx
<1>4. p - q = Cap * (k - m)
  BY <1>1, <1>2, <1>3, SMT
<1>5. PICK d \in Int : d = k - m
  BY SMT
<1>6. d >= 1 => Cap * d >= Cap
  BY SMT
<1>7. d <= -1 => Cap * d <= -Cap
  BY SMT
<1>8. d = 0
  <2>1. PICK x \in Int : x = Cap * d
    BY SMT
  <2> QED BY <1>4, <1>5, <1>6, <1>7, <2>1
<1> QED BY <1>4, <1>5, <1>8

\* The initial positions.
LEMMA SlotsBefore == \A i \in Slots : C!Idx(i - Cap) = i
  BY IdxIs, RingAssumption DEF Slots

-----------------------------------------------------------------------------
(* What slots hold                                                         *)

\* The oldest position that a slot may hold the value of.
Oldest == Front - Cap - (IF tail.closed THEN 1 ELSE 0)

\* The front is never below the first position.
LEMMA FrontIsNat ==
    ASSUME RingTypes, Sending
    PROVE  Front \in Nat /\ Oldest \in Int
<1>1. tail.pos \in Nat
  BY DEF RingTypes
<1>2. holder # C!Nobody => tail.pos > 0
  BY DEF Sending
<1>3. Front \in Nat
  BY <1>1, <1>2 DEF Front
<1> QED BY <1>3, RingAssumption DEF Oldest

\* The slot of a position shows whether its value is still to come, is there, or
\* was overwritten.
LEMMA SlotOf ==
    ASSUME RingTypes, Sending, Ring, NEW n \in Int, n <= Front
    PROVE  /\ C!Idx(n) \in Slots
           /\ buffer[C!Idx(n)].pos \in Int
           /\ buffer[C!Idx(n)].pos = n <=> Front - Cap <= n /\ n < Front
           /\ buffer[C!Idx(n)].pos + Cap = n <=> n = Front
           /\ buffer[C!Idx(n)].pos = n - Cap <=> n = Front
<1>0. Cap \in Nat \ {0} /\ Front \in Nat
  BY RingAssumption, FrontIsNat
<1>1. C!Idx(n) \in Slots
  BY IdxIs
<1>2. PICK p \in Int : p = buffer[C!Idx(n)].pos
  BY <1>1 DEF RingTypes
<1>3. p \in Front - Cap .. Front - 1 /\ C!Idx(p) = C!Idx(n)
  BY <1>1, <1>2 DEF Ring
<1>4. Front - Cap <= n /\ n < Front => p = n
  BY <1>0, <1>3, IdxApart
<1>5. n = Front => p = n - Cap
  <2>1. n - Cap \in Int /\ C!Idx(n - Cap) = C!Idx(n)
    BY <1>0, IdxIs
  <2> QED BY <1>0, <1>3, <2>1, IdxApart
<1>6. p = n => Front - Cap <= n /\ n < Front
  BY <1>0, <1>3
<1>7. p = n - Cap => n = Front
  BY <1>0, <1>3
<1>8. p + Cap = n <=> p = n - Cap
  BY <1>0
<1> QED BY <1>1, <1>2, <1>4, <1>5, <1>6, <1>7, <1>8

\* The values in the ring are those of Cap positions in a row.
LEMMA BaseIs ==
    ASSUME RingTypes, Sending, Ring, NEW i \in Slots
    PROVE  /\ Base(i) \in Oldest .. Oldest + Cap - 1
           /\ C!Idx(Base(i)) = i
<1>0. Cap \in Nat \ {0} /\ Front \in Nat
  BY RingAssumption, FrontIsNat
<1>1. PICK p \in Int : p = buffer[i].pos
  BY DEF RingTypes
<1>2. /\ p \in Front - Cap .. Front - 1 /\ C!Idx(p) = i
      /\ buffer[i].closed <=> tail.closed /\ p = Front - 1
  BY <1>1 DEF Ring
<1>3. CASE ~tail.closed
  <2>1. Base(i) = p /\ Oldest = Front - Cap
    BY <1>0, <1>1, <1>2, <1>3 DEF Base, Oldest
  <2> QED BY <1>0, <1>2, <2>1
<1>4. CASE tail.closed
  <2>0. Oldest = Front - Cap - 1
    BY <1>0, <1>4 DEF Oldest
  <2>1. CASE p = Front - 1
    <3>1. Base(i) = p - Cap
      BY <1>1, <1>2, <1>4, <2>1 DEF Base
    <3>2. C!Idx(p - Cap) = i
      BY <1>2, IdxIs
    <3> QED BY <1>0, <2>0, <2>1, <3>1, <3>2
  <2>2. CASE p # Front - 1
    <3>1. Base(i) = p
      BY <1>1, <1>2, <1>4, <2>2 DEF Base
    <3>2. p # Front - Cap - 1
      BY <1>0, <1>2
    <3> QED BY <1>0, <1>2, <2>0, <2>2, <3>1
  <2> QED BY <2>1, <2>2
<1> QED BY <1>3, <1>4

\* And every one of these has its slot.
LEMMA BaseAt ==
    ASSUME RingTypes, Sending, Ring, NEW p \in Oldest .. Oldest + Cap - 1
    PROVE  C!Idx(p) \in Slots /\ Base(C!Idx(p)) = p
<1>0. Cap \in Nat \ {0} /\ Oldest \in Int
  BY RingAssumption, FrontIsNat
<1>1. p \in Int /\ C!Idx(p) \in Slots
  BY <1>0, IdxIs
<1>2. PICK b \in Oldest .. Oldest + Cap - 1 : b = Base(C!Idx(p)) /\ C!Idx(b) = C!Idx(p)
  BY <1>1, BaseIs
<1>3. b \in Int /\ b < p + Cap /\ p < b + Cap
  BY <1>0
<1> QED BY <1>1, <1>2, <1>3, IdxApart

-----------------------------------------------------------------------------
(* Who owes a slot a look                                                  *)

\* A receiver that is x, at n, and goes up to u if it is dropped, at the place l.
OwesAs(x, n, u, l, p) ==
    \/ x = "live" /\ n <= p
    \/ x = "dropping" /\ n <= p /\ p < u
    \/ l \in Reading /\ n = p + 1

\* Receiver by receiver
LEMMA OwingIs ==
    \A p : C!Owing(p) = {r \in Consumers : OwesAs(rx[r], next[r], until[r], place[r], p)}
  BY DEF C!Owing, OwesAs, Reading

\* Those who owe are those of before.
LEMMA OwingStays ==
    ASSUME NEW p,
           \A r \in Consumers :
              OwesAs(rx'[r], next'[r], until'[r], place'[r], p)
                 <=> OwesAs(rx[r], next[r], until[r], place[r], p)
    PROVE  C!Owing(p)' = C!Owing(p)
  BY DEF C!Owing, OwesAs, Reading

\* They are finitely many.
LEMMA OwingFinite ==
    ASSUME NEW p
    PROVE  IsFiniteSet(C!Owing(p)) /\ Cardinality(C!Owing(p)) \in Nat
<1>1. C!Owing(p) \subseteq Consumers
  BY DEF C!Owing
<1> QED BY <1>1, RingAssumption, FS_Subset, FS_CardinalityType

\* A slot is as sound as before if nobody came to owe it, or has looked.
LEMMA CountsStay ==
    ASSUME NEW i \in Slots, Counts(i), buffer'[i] = buffer[i], met => met',
           \A r \in Consumers :
              OwesAs(rx'[r], next'[r], until'[r], place'[r], Base(i))
                 <=> OwesAs(rx[r], next[r], until[r], place[r], Base(i))
    PROVE  Counts(i)'
<1>1. PICK b : b = Base(i)
  OBVIOUS
<1>2. Base(i)' = b
  BY <1>1 DEF Base
<1>3. C!Owing(b)' = C!Owing(b)
  BY <1>1, OwingStays
<1> QED BY <1>1, <1>2, <1>3 DEF Counts, Spoilt, C!Absent

-----------------------------------------------------------------------------
(* Receivers: steps that leave the slots alone                             *)

\* Where a receiver may stand.
Spots == Reading \cup {"idle", "slow", "unqueue", "drain", "gone"}

\* The call it may be in.
Modes == {"none", "recv", "try", "drop"}

\* What is said of one receiver, in the values of its fields.
StandsAs(x, n, u, l, m) ==
    /\ n <= Front /\ u <= Front
    /\ x = "none" => l = "idle"
    /\ x = "live" => l \in Reading \cup {"idle", "slow", "unqueue"}
    /\ x = "dropping" => l \in {"drain", "slow", "release", "gone"}
    /\ l \in Reading \cup {"slow"} => m # "none" /\ (m = "drop" <=> x = "dropping")
    /\ x = "dropping" /\ l = "slow" => n < u
    /\ l = "gone" => n = Front /\ tail.closed
    /\ l \in Reading => n >= 1 /\ Base(C!Idx(n - 1)) = n - 1

\* Stands is StandsAs of the fields of the receiver.
LEMMA StandsIs ==
    \A r : Stands(r) <=> StandsAs(rx[r], next[r], until[r], place[r], mode[r])
  BY DEF Stands, StandsAs

\* The receiver r is x, at n, up to u, at l, in the mode m; the others are as
\* they were.
Walks(r, x, n, u, l, m) ==
    /\ rx' \in [Consumers -> {"none", "live", "dropping"}] /\ rx'[r] = x
    /\ next' \in [Consumers -> Nat] /\ next'[r] = n
    /\ until' \in [Consumers -> Nat] /\ until'[r] = u
    /\ place' \in [Consumers -> Spots] /\ place'[r] = l
    /\ mode' \in [Consumers -> Modes] /\ mode'[r] = m
    /\ \A q \in Consumers \ {r} :
          /\ rx'[q] = rx[q] /\ next'[q] = next[q] /\ until'[q] = until[q]
          /\ place'[q] = place[q] /\ mode'[q] = mode[q]

\* A step that moves one receiver as Walks says, and no slot, keeps the invariant.
LEMMA WalkKeeps ==
    ASSUME RingInv, NEW r \in Consumers,
           NEW x, NEW n, NEW u, NEW l, NEW m, Walks(r, x, n, u, l, m),
           StandsAs(x, n, u, l, m),
           \A i \in Slots : OwesAs(x, n, u, l, Base(i))
                               <=> OwesAs(rx[r], next[r], until[r], place[r], Base(i)),
           UNCHANGED <<met, buffer, holder, tx>>,
           tail' \in [pos : Nat, cnt : Nat, closed : BOOLEAN],
           tail'.pos = tail.pos, tail'.closed = tail.closed, Sending'
    PROVE  RingInv'
<1>1. Front' = Front /\ \A j : Base(j)' = Base(j)
  BY DEF Front, Base
<1>2. RingTypes'
  BY DEF RingInv, RingTypes, Walks, Spots, Modes
<1>3. Ring'
  BY <1>1 DEF RingInv, Ring
<1>4. ASSUME NEW q \in Consumers
      PROVE  Stands(q)'
  <2>2. CASE q = r
    <3>1. rx'[q] = x /\ next'[q] = n /\ until'[q] = u /\ place'[q] = l /\ mode'[q] = m
      BY <2>2 DEF Walks
    <3> QED BY <1>1, <3>1 DEF Stands, StandsAs
  <2>3. CASE q # r
    <3>1. /\ rx'[q] = rx[q] /\ next'[q] = next[q] /\ until'[q] = until[q]
          /\ place'[q] = place[q] /\ mode'[q] = mode[q]
      BY <2>3 DEF Walks
    <3> QED BY <1>1, <3>1 DEF RingInv, Standing, Stands
  <2> QED BY <2>2, <2>3
<1>5. ASSUME NEW i \in Slots
      PROVE  Counts(i)'
  <2>1. ASSUME NEW q \in Consumers
        PROVE  OwesAs(rx'[q], next'[q], until'[q], place'[q], Base(i))
                  <=> OwesAs(rx[q], next[q], until[q], place[q], Base(i))
    BY <2>1 DEF Walks
  <2> QED BY <2>1, CountsStay DEF RingInv, Counting
<1> QED BY <1>2, <1>3, <1>4, <1>5 DEF RingInv, Standing, Counting

\* The senders are as they were if the tail and the receivers are.
LEMMA SendingStays ==
    ASSUME Sending, UNCHANGED <<tail, holder, tx, rx>>
    PROVE  Sending'
  BY DEF Sending, C!Live, C!Nobody

\* A receiver that goes on, and neither comes nor is dropped.
LEMMA GoesOn ==
    ASSUME RingInv, NEW r \in Consumers,
           NEW n \in Nat, NEW l \in Spots, NEW m \in Modes,
           next' = [next EXCEPT ![r] = n],
           place' = [place EXCEPT ![r] = l],
           mode' = [mode EXCEPT ![r] = m],
           UNCHANGED <<met, buffer, tail, holder, tx, rx, until>>,
           StandsAs(rx[r], n, until[r], l, m),
           \A p \in Int : (p < Front - 1 \/ (p < Front /\ ~tail.closed)) =>
              (OwesAs(rx[r], n, until[r], l, p)
                  <=> OwesAs(rx[r], next[r], until[r], place[r], p))
    PROVE  RingInv'
<1>1. Walks(r, rx[r], n, until[r], l, m)
  BY DEF RingInv, RingTypes, Walks, Spots, Modes
<1>2. Sending' /\ tail' \in [pos : Nat, cnt : Nat, closed : BOOLEAN]
  BY SendingStays DEF RingInv, RingTypes
<1>3. ASSUME NEW i \in Slots
      PROVE  OwesAs(rx[r], n, until[r], l, Base(i))
                <=> OwesAs(rx[r], next[r], until[r], place[r], Base(i))
  <2>1. Base(i) \in Oldest .. Oldest + Cap - 1 /\ Front \in Nat
    BY BaseIs, FrontIsNat DEF RingInv
  <2>2. PICK p \in Int : p = Base(i)
    BY <2>1
  <2>3. (p < Front - 1 \/ (p < Front /\ ~tail.closed))
    <3>1. CASE tail.closed
      <4>1. Oldest = Front - Cap - 1
        BY <3>1, <2>1, RingAssumption DEF Oldest
      <4>2. p <= Oldest + Cap - 1 /\ Cap \in Nat /\ Oldest \in Int
        BY <2>1, <2>2, <4>1, RingAssumption
      <4>3. p < Front - 1
        BY <2>1, <4>1, <4>2
      <4> QED BY <4>3
    <3>2. CASE ~tail.closed
      <4>1. Oldest = Front - Cap
        BY <3>2, <2>1, RingAssumption DEF Oldest
      <4> QED BY <2>1, <2>2, <3>2, <4>1, RingAssumption
    <3> QED BY <3>1, <3>2
  <2> QED BY <2>2, <2>3
<1> QED BY <1>1, <1>2, <1>3, WalkKeeps

\* The answer of a look that found nothing leaves the receiver where the call
\* goes on from.
LEMMA LeavesTo ==
    ASSUME NEW r \in Consumers, mode'[r] \in Modes \ {"none"}, C!Leave(r)
    PROVE  \E l \in {"unqueue", "idle", "drain"} :
              /\ place' = [place EXCEPT ![r] = l]
              /\ mode'[r] = "drop" <=> l = "drain"
<1>1. CASE mode'[r] = "drop"
  BY <1>1 DEF C!Leave, C!Goto
<1>2. CASE mode'[r] = "recv"
  BY <1>2 DEF C!Leave, C!Goto
<1>3. CASE mode'[r] = "try"
  BY <1>3 DEF C!Leave, C!Goto
<1> QED BY <1>1, <1>2, <1>3 DEF Modes

\* A receiver that asks for a position: recv, try_recv or its drop.
Asks(r, m) ==
    /\ m \in Modes \ {"none"}
    /\ m = "drop" <=> rx[r] = "dropping"
    /\ rx[r] \in {"live", "dropping"}
    /\ place[r] \in {"idle", "slow", "drain"}
    /\ rx[r] = "dropping" => next[r] < until[r]

\* It finds the position it asks for: the value, or the marker of the close.
LEMMA HitKeeps ==
    ASSUME RingInv, NEW r \in Consumers, NEW m, Asks(r, m),
           mode' = [mode EXCEPT ![r] = m],
           buffer[C!Idx(next[r])].pos = next[r],
           C!Hit(r, buffer[C!Idx(next[r])]),
           UNCHANGED <<met, buffer, tail, holder, tx, rx, until>>
    PROVE  RingInv'
<1>0. /\ next[r] \in Nat /\ until[r] \in Nat /\ m \in Modes /\ mode'[r] = m
      /\ next[r] <= Front /\ until[r] <= Front /\ Front \in Nat
      /\ Cap \in Nat \ {0}
  BY FrontIsNat, RingAssumption DEF RingInv, RingTypes, Standing, Stands, Asks, Modes
<1>1. PICK i : i = C!Idx(next[r])
  OBVIOUS
<1>2. i \in Slots /\ buffer[i].pos = next[r] /\ next[r] < Front
  BY <1>0, <1>1, SlotOf DEF RingInv
<1>3. buffer[i].closed <=> tail.closed /\ next[r] = Front - 1
  BY <1>2 DEF RingInv, Ring
<1>4. next' = [next EXCEPT ![r] = next[r] + 1] /\ next[r] + 1 \in Nat
  BY <1>0 DEF C!Hit
<1>5. CASE buffer[i].closed
  <2>1. PICK l \in Spots : /\ place' = [place EXCEPT ![r] = l]
                           /\ l \in {"unqueue", "idle", "drain", "gone"}
                           /\ m = "drop" <=> l \in {"drain", "gone"}
    <3>1. CASE m = "drop"
      BY <1>0, <1>1, <1>5, <3>1 DEF C!Hit, C!Goto, Spots
    <3>2. CASE m # "drop"
      <4>1. C!Leave(r) /\ m \in Modes \ {"none"}
        BY <1>0, <1>1, <1>5, <3>2 DEF C!Hit, Asks
      <4> QED BY <1>0, <3>2, <4>1, LeavesTo DEF Spots
    <3> QED BY <3>1, <3>2
  <2>2. StandsAs(rx[r], next[r] + 1, until[r], l, m)
    BY <1>0, <1>3, <1>5, <2>1 DEF StandsAs, Asks, Reading
  <2>3. ASSUME NEW p \in Int, (p < Front - 1 \/ (p < Front /\ ~tail.closed))
        PROVE  OwesAs(rx[r], next[r] + 1, until[r], l, p)
                  <=> OwesAs(rx[r], next[r], until[r], place[r], p)
    BY <1>0, <1>3, <1>5, <2>1, <2>3 DEF OwesAs, Asks, Reading
  <2> QED BY <1>0, <1>4, <2>1, <2>2, <2>3, GoesOn
<1>6. CASE ~buffer[i].closed
  <2>1. PICK l \in Reading : /\ place' = [place EXCEPT ![r] = l]
                             /\ m = "drop" <=> l = "release"
    BY <1>0, <1>1, <1>6 DEF C!Hit, C!Goto, Reading
  <2>2. Base(i) = next[r]
    BY <1>2, <1>6 DEF Base
  <2>3. StandsAs(rx[r], next[r] + 1, until[r], l, m)
    BY <1>0, <1>1, <1>2, <2>1, <2>2 DEF StandsAs, Asks, Reading
  <2>4. ASSUME NEW p \in Int
        PROVE  OwesAs(rx[r], next[r] + 1, until[r], l, p)
                  <=> OwesAs(rx[r], next[r], until[r], place[r], p)
    BY <1>0, <2>1 DEF OwesAs, Asks, Reading
  <2>5. l \in Spots
    BY DEF Spots
  <2> QED BY <1>0, <1>4, <2>1, <2>3, <2>4, <2>5, GoesOn
<1> QED BY <1>5, <1>6

\* The look without the tail
LEMMA LookKeeps ==
    ASSUME RingInv, NEW r \in Consumers, NEW m, Asks(r, m), place[r] # "slow",
           C!Look(r, m)
    PROVE  RingInv'
<1>0. /\ next[r] \in Nat /\ until[r] \in Nat /\ m \in Modes
      /\ next[r] <= Front /\ until[r] <= Front /\ Front \in Nat
  BY FrontIsNat DEF RingInv, RingTypes, Standing, Stands, Asks, Modes
<1>1. /\ mode' = [mode EXCEPT ![r] = m]
      /\ UNCHANGED <<met, buffer, tail, holder, tx, rx, until>>
  BY DEF C!Look
<1>2. CASE buffer[C!Idx(next[r])].pos = next[r]
  <2>1. C!Hit(r, buffer[C!Idx(next[r])])
    BY <1>2 DEF C!Look
  <2> QED BY <1>1, <1>2, <2>1, HitKeeps
<1>3. CASE buffer[C!Idx(next[r])].pos # next[r]
  <2>1. PICK l \in {"slow", "idle"} : /\ place' = [place EXCEPT ![r] = l]
                                      /\ next' = next
                                      /\ m = "drop" => l = "slow"
    <3>1. m = "drop" => next[r] < Front
      BY <1>0 DEF Asks
    <3>2. buffer[C!Idx(next[r])].pos + Cap = next[r] => next[r] = Front
      BY <1>0, SlotOf DEF RingInv
    <3> QED BY <1>0, <1>3, <3>1, <3>2 DEF C!Look, C!Goto
  <2>2. l \in Spots /\ next' = [next EXCEPT ![r] = next[r]]
    BY <2>1 DEF Spots, RingInv, RingTypes
  <2>3. StandsAs(rx[r], next[r], until[r], l, m)
    BY <1>0, <2>1 DEF StandsAs, Asks, Reading
  <2>4. ASSUME NEW p \in Int
        PROVE  OwesAs(rx[r], next[r], until[r], l, p)
                  <=> OwesAs(rx[r], next[r], until[r], place[r], p)
    BY <2>1 DEF OwesAs, Asks, Reading
  <2> QED BY <1>0, <1>1, <2>1, <2>2, <2>3, <2>4, GoesOn
<1> QED BY <1>2, <1>3

\* The third outcome of the second look: the ring has wrapped.  Without the tail
\* taken, the oldest position that is kept is OldestKept.
LEMMA Wrapped ==
    ASSUME RingInv, NEW r \in Consumers, C!Free,
           buffer[C!Idx(next[r])].pos \notin {next[r], next[r] - Cap}
    PROVE  /\ C!OldestKept = Oldest /\ Oldest \in Nat /\ Oldest <= Front
           /\ next[r] <= Oldest
           /\ next[r] = Oldest => tail.closed
<1>0. next[r] \in Nat /\ next[r] <= Front /\ Front \in Nat /\ Cap \in Nat \ {0}
  BY FrontIsNat, RingAssumption DEF RingInv, RingTypes, Standing, Stands
<1>1. next[r] < Front - Cap
  <2>1. next[r] # Front /\ ~(Front - Cap <= next[r] /\ next[r] < Front)
    BY <1>0, SlotOf DEF RingInv
  <2> QED BY <1>0, <2>1
<1>2. Front = tail.pos
  BY DEF C!Free, Front
<1>3. CASE tail.closed
  <2>1. Oldest = Front - Cap - 1 /\ C!OldestKept = Front - Cap - 1
    BY <1>0, <1>2, <1>3 DEF Oldest, C!OldestKept
  <2> QED BY <1>0, <1>1, <1>3, <2>1
<1>4. CASE ~tail.closed
  <2>1. Oldest = Front - Cap /\ C!OldestKept = Front - Cap
    BY <1>0, <1>2, <1>4 DEF Oldest, C!OldestKept
  <2> QED BY <1>0, <1>1, <1>4, <2>1
<1> QED BY <1>3, <1>4

\* The second look, with the tail
LEMMA SlowKeeps ==
    ASSUME RingInv, NEW r \in Consumers, C!Slow(r)
    PROVE  RingInv'
<1>0. /\ next[r] \in Nat /\ until[r] \in Nat
      /\ next[r] <= Front /\ until[r] <= Front /\ Front \in Nat
      /\ Cap \in Nat \ {0}
  BY FrontIsNat, RingAssumption DEF RingInv, RingTypes, Standing, Stands
<1>1. /\ place[r] = "slow" /\ C!Free
      /\ mode' = mode
      /\ UNCHANGED <<met, buffer, tail, holder, tx, rx, until>>
  BY DEF C!Slow
<1>2. PICK m \in Modes : m = mode[r] /\ mode' = [mode EXCEPT ![r] = m] /\ mode'[r] = m
  BY <1>1 DEF RingInv, RingTypes, Modes
<1>3. Asks(r, m)
  BY <1>1, <1>2 DEF RingInv, RingTypes, Standing, Stands, Asks, Reading
<1>4. CASE /\ buffer[C!Idx(next[r])].pos = next[r]
           /\ C!Hit(r, buffer[C!Idx(next[r])])
  BY <1>1, <1>2, <1>3, <1>4, HitKeeps
<1>5. CASE /\ buffer[C!Idx(next[r])].pos + Cap = next[r]
           /\ \/ mode[r] = "recv" /\ C!Goto(r, "idle")
              \/ mode[r] # "recv" /\ C!Goto(r, IF mode[r] = "drop" THEN "panic" ELSE "idle")
           /\ UNCHANGED next
  <2>1. next[r] = Front
    BY <1>0, <1>5, SlotOf DEF RingInv
  <2>2. m # "drop"
    BY <1>0, <1>3, <2>1 DEF Asks
  <2>3. place' = [place EXCEPT ![r] = "idle"] /\ next' = [next EXCEPT ![r] = next[r]]
    BY <1>2, <1>5, <2>2 DEF C!Goto, RingInv, RingTypes
  <2>4. StandsAs(rx[r], next[r], until[r], "idle", m)
    BY <1>0, <1>3, <2>2 DEF StandsAs, Asks, Reading
  <2>5. ASSUME NEW p \in Int
        PROVE  OwesAs(rx[r], next[r], until[r], "idle", p)
                  <=> OwesAs(rx[r], next[r], until[r], place[r], p)
    BY <1>1 DEF OwesAs, Reading
  <2>6. "idle" \in Spots
    BY DEF Spots
  <2> QED BY <1>0, <1>1, <1>2, <2>3, <2>4, <2>5, <2>6, GoesOn
<1>6. CASE /\ buffer[C!Idx(next[r])].pos \notin {next[r], next[r] - Cap}
           /\ IF C!OldestKept = next[r]
              THEN /\ next' = [next EXCEPT ![r] = @ + 1]
                   /\ C!Goto(r, IF mode[r] = "drop" THEN "release" ELSE "clone")
              ELSE /\ next' = [next EXCEPT ![r] = C!OldestKept]
                   /\ C!Leave(r)
  <2>1. /\ C!OldestKept = Oldest /\ Oldest \in Nat /\ Oldest <= Front
        /\ next[r] <= Oldest
        /\ next[r] = Oldest => tail.closed
    BY <1>1, <1>6, Wrapped
  <2>2. CASE Oldest = next[r]
    <3>1. next' = [next EXCEPT ![r] = next[r] + 1] /\ next[r] + 1 \in Nat
      BY <1>0, <1>6, <2>1, <2>2
    <3>2. PICK l \in Reading : /\ place' = [place EXCEPT ![r] = l]
                               /\ m = "drop" <=> l = "release"
      BY <1>2, <1>6, <2>1, <2>2 DEF C!Goto, Reading
    <3>3. Base(C!Idx(next[r])) = next[r]
      BY <1>0, <2>1, <2>2, BaseAt DEF RingInv
    <3>4. next[r] < Front
      BY <1>0, <2>1, <2>2 DEF Oldest
    <3>5. StandsAs(rx[r], next[r] + 1, until[r], l, m)
      BY <1>0, <1>3, <3>2, <3>3, <3>4 DEF StandsAs, Asks, Reading
    <3>6. ASSUME NEW p \in Int
          PROVE  OwesAs(rx[r], next[r] + 1, until[r], l, p)
                    <=> OwesAs(rx[r], next[r], until[r], place[r], p)
      BY <1>0, <1>1, <1>3, <3>2 DEF OwesAs, Asks, Reading
    <3>7. l \in Spots
      BY DEF Spots
    <3> QED BY <1>0, <1>1, <1>2, <3>1, <3>2, <3>5, <3>6, <3>7, GoesOn
  <2>3. CASE Oldest # next[r]
    <3>1. next' = [next EXCEPT ![r] = Oldest] /\ C!Leave(r)
      BY <1>6, <2>1, <2>3
    <3>2. PICK l \in {"unqueue", "idle", "drain"} : /\ place' = [place EXCEPT ![r] = l]
                                                    /\ m = "drop" <=> l = "drain"
      BY <1>2, <1>3, <3>1, LeavesTo DEF Asks
    <3>3. StandsAs(rx[r], Oldest, until[r], l, m)
      BY <1>0, <1>3, <2>1, <3>2 DEF StandsAs, Asks, Reading
    <3>4. ASSUME NEW i \in Slots
          PROVE  OwesAs(rx[r], Oldest, until[r], l, Base(i))
                    <=> OwesAs(rx[r], next[r], until[r], place[r], Base(i))
      <4>1. PICK p \in Int : p = Base(i) /\ Oldest <= p
        BY <2>1, BaseIs DEF RingInv
      <4> QED BY <1>0, <1>1, <2>1, <3>2, <4>1 DEF OwesAs, Reading
    <3>5. Walks(r, rx[r], Oldest, until[r], l, m)
      BY <1>1, <1>2, <2>1, <3>1, <3>2 DEF RingInv, RingTypes, Walks, Spots, Modes
    <3>6. Sending' /\ tail' \in [pos : Nat, cnt : Nat, closed : BOOLEAN]
      BY <1>1, SendingStays DEF RingInv, RingTypes
    <3> QED BY <1>1, <3>3, <3>4, <3>5, <3>6, WalkKeeps
  <2> QED BY <2>2, <2>3
<1> QED BY <1>4, <1>5, <1>6 DEF C!Slow

\* The value is cloned, and nothing moves but the receiver.
LEMMA CloneKeeps ==
    ASSUME RingInv, NEW r \in Consumers, C!CloneValue(r)
    PROVE  RingInv'
<1>0. /\ next[r] \in Nat /\ until[r] \in Nat /\ mode[r] \in Modes /\ Stands(r)
      /\ place' = [place EXCEPT ![r] = "release"] /\ place[r] = "clone"
      /\ next' = [next EXCEPT ![r] = next[r]] /\ mode' = [mode EXCEPT ![r] = mode[r]]
      /\ UNCHANGED <<met, buffer, tail, holder, tx, rx, until>>
  BY DEF RingInv, RingTypes, Standing, C!CloneValue, C!Goto, Modes
<1>1. StandsAs(rx[r], next[r], until[r], "release", mode[r])
  BY <1>0 DEF Stands, StandsAs, Reading, RingInv, RingTypes
<1>2. ASSUME NEW p \in Int
      PROVE  OwesAs(rx[r], next[r], until[r], "release", p)
                <=> OwesAs(rx[r], next[r], until[r], place[r], p)
  BY <1>0 DEF OwesAs, Reading
<1>3. "release" \in Spots
  BY DEF Spots, Reading
<1> QED BY <1>0, <1>1, <1>2, <1>3, GoesOn

\* A Recv future goes: its waker, if it is in the list, goes with it.
LEMMA DropRecvKeeps ==
    ASSUME RingInv, NEW r \in Consumers, C!DropRecv(r)
    PROVE  RingInv'
<1>0. /\ next[r] \in Nat /\ until[r] \in Nat /\ Stands(r)
      /\ place' = [place EXCEPT ![r] = "idle"] /\ place[r] \in {"unqueue", "idle"}
      /\ next' = [next EXCEPT ![r] = next[r]] /\ mode' = [mode EXCEPT ![r] = "none"]
      /\ UNCHANGED <<met, buffer, tail, holder, tx, rx, until>>
  BY DEF RingInv, RingTypes, Standing, C!DropRecv, C!Goto
<1>1. StandsAs(rx[r], next[r], until[r], "idle", "none")
  BY <1>0 DEF Stands, StandsAs, Reading
<1>2. ASSUME NEW p \in Int
      PROVE  OwesAs(rx[r], next[r], until[r], "idle", p)
                <=> OwesAs(rx[r], next[r], until[r], place[r], p)
  BY <1>0 DEF OwesAs, Reading
<1>3. "idle" \in Spots /\ "none" \in Modes
  BY DEF Spots, Modes
<1> QED BY <1>0, <1>1, <1>2, <1>3, GoesOn

\* recv, try_recv and the drop of a receiver look at the slot.
LEMMA PollKeeps ==
    ASSUME RingInv, NEW r \in Consumers, C!PollRecv(r) \/ C!TryRecv(r) \/ C!Drain(r)
    PROVE  RingInv'
<1>0. Stands(r) /\ rx[r] \in {"none", "live", "dropping"}
  BY DEF RingInv, RingTypes, Standing
<1>1. CASE C!PollRecv(r)
  BY <1>1, LookKeeps DEF C!PollRecv, Asks, Modes
<1>2. CASE C!TryRecv(r)
  BY <1>2, LookKeeps DEF C!TryRecv, Asks, Modes
<1>3. CASE C!Drain(r)
  BY <1>0, <1>3, LookKeeps DEF C!Drain, Asks, Modes, Stands, Reading
<1> QED BY <1>1, <1>2, <1>3

\* The values of the ring are below the front.
LEMMA BaseBelow ==
    ASSUME RingInv, NEW i \in Slots
    PROVE  Base(i) \in Int /\ Base(i) < Front
<1>1. Base(i) \in Oldest .. Oldest + Cap - 1 /\ Front \in Nat /\ Oldest \in Int
  BY BaseIs, FrontIsNat DEF RingInv
<1>2. Oldest <= Front - Cap
  BY <1>1, RingAssumption DEF Oldest
<1> QED BY <1>1, <1>2, RingAssumption

\* Without the tail taken nobody writes.
LEMMA NobodyWrites ==
    ASSUME RingInv, C!Free
    PROVE  Front = tail.pos /\ \A s \in Senders : tx[s] \notin {"writing", "writing_close"}
  BY RingAssumption DEF RingInv, Sending, C!Free, Front, C!Nobody

\* A receiver comes, behind all values.
LEMMA SubscribeKeeps ==
    ASSUME RingInv, NEW r \in Consumers, C!Subscribe(r)
    PROVE  RingInv'
<1>0. /\ rx[r] = "none" /\ place[r] = "idle" /\ C!Free
      /\ rx' = [rx EXCEPT ![r] = "live"]
      /\ next' = [next EXCEPT ![r] = tail.pos]
      /\ tail' = [tail EXCEPT !.cnt = @ + 1]
      /\ UNCHANGED <<met, buffer, holder, tx, until, place, mode>>
  BY DEF C!Subscribe, RingInv, Standing, Stands
<1>1. Front = tail.pos /\ \A s \in Senders : tx[s] \notin {"writing", "writing_close"}
  BY <1>0, NobodyWrites
<1>2. /\ tail' \in [pos : Nat, cnt : Nat, closed : BOOLEAN] /\ Front \in Nat
      /\ tail'.pos = tail.pos /\ tail'.closed = tail.closed /\ tail'.cnt = tail.cnt + 1
  BY <1>0, FrontIsNat DEF RingInv, RingTypes
<1>3. Walks(r, "live", Front, until[r], place[r], mode[r])
  BY <1>0, <1>1, <1>2 DEF RingInv, RingTypes, Walks, Spots, Modes
<1>4. StandsAs("live", Front, until[r], place[r], mode[r])
  BY <1>0, <1>2 DEF RingInv, Standing, Stands, StandsAs, Reading
<1>5. ASSUME NEW i \in Slots
      PROVE  OwesAs("live", Front, until[r], place[r], Base(i))
                <=> OwesAs(rx[r], next[r], until[r], place[r], Base(i))
  BY <1>0, <1>2, BaseBelow DEF OwesAs, Reading
<1>6. tail'.cnt = Cardinality(C!Live')
  <2>1. C!Live' = C!Live \cup {r} /\ r \notin C!Live
    BY <1>0 DEF C!Live, RingInv, RingTypes
  <2>2. IsFiniteSet(C!Live)
    BY RingAssumption, FS_Subset DEF C!Live
  <2>3. Cardinality(C!Live \cup {r}) = Cardinality(C!Live) + 1
    BY <2>1, <2>2, FS_AddElement
  <2>4. tail.cnt = Cardinality(C!Live)
    BY DEF RingInv, Sending
  <2>5. Cardinality(C!Live') = Cardinality(C!Live \cup {r})
    BY <2>1
  <2> QED BY <1>2, <2>3, <2>4, <2>5
<1>7. Sending'
  BY <1>0, <1>1, <1>2, <1>6 DEF RingInv, Sending, C!Free, C!Nobody
<1> QED BY <1>0, <1>2, <1>3, <1>4, <1>5, <1>7, WalkKeeps

\* A receiver goes, and has all values up to now to look at.
LEMMA DropReceiverKeeps ==
    ASSUME RingInv, NEW r \in Consumers, C!DropReceiver(r)
    PROVE  RingInv'
<1>0. /\ rx[r] = "live" /\ place[r] = "idle" /\ C!Free
      /\ rx' = [rx EXCEPT ![r] = "dropping"]
      /\ until' = [until EXCEPT ![r] = tail.pos]
      /\ place' = [place EXCEPT ![r] = "drain"]
      /\ tail' = [tail EXCEPT !.cnt = @ - 1]
      /\ UNCHANGED <<met, buffer, holder, tx, next, mode>>
  BY DEF C!DropReceiver, C!Goto
<1>1. Front = tail.pos /\ \A s \in Senders : tx[s] \notin {"writing", "writing_close"}
  BY <1>0, NobodyWrites
<1>2. /\ C!Live' = C!Live \ {r} /\ r \in C!Live /\ IsFiniteSet(C!Live)
      /\ tail.cnt = Cardinality(C!Live) /\ tail.cnt \in Nat
  <2>1. IsFiniteSet(C!Live)
    BY RingAssumption, FS_Subset DEF C!Live
  <2> QED BY <1>0, <2>1 DEF C!Live, RingInv, RingTypes, Sending
<1>3. tail.cnt - 1 = Cardinality(C!Live') /\ tail.cnt - 1 \in Nat
  <2>1. Cardinality(C!Live \ {r}) = Cardinality(C!Live) - 1
    BY <1>2, FS_RemoveElement
  <2>2. IsFiniteSet(C!Live \ {r})
    BY <1>2, FS_RemoveElement
  <2>3. Cardinality(C!Live \ {r}) \in Nat
    BY <2>2, FS_CardinalityType
  <2>4. Cardinality(C!Live') = Cardinality(C!Live \ {r})
    BY <1>2
  <2> QED BY <1>2, <2>1, <2>3, <2>4
<1>4. /\ tail' \in [pos : Nat, cnt : Nat, closed : BOOLEAN] /\ Front \in Nat
      /\ tail'.pos = tail.pos /\ tail'.closed = tail.closed /\ tail'.cnt = tail.cnt - 1
  BY <1>0, <1>3, FrontIsNat DEF RingInv, RingTypes
<1>5. Walks(r, "dropping", next[r], Front, "drain", mode[r])
  BY <1>0, <1>1, <1>4 DEF RingInv, RingTypes, Walks, Spots, Modes
<1>6. StandsAs("dropping", next[r], Front, "drain", mode[r])
  BY <1>0, <1>4 DEF RingInv, Standing, Stands, StandsAs, Reading
<1>7. ASSUME NEW i \in Slots
      PROVE  OwesAs("dropping", next[r], Front, "drain", Base(i))
                <=> OwesAs(rx[r], next[r], until[r], place[r], Base(i))
  BY <1>0, <1>4, BaseBelow DEF OwesAs, Reading
<1>8. Sending'
  BY <1>0, <1>1, <1>3, <1>4 DEF RingInv, Sending, C!Free, C!Nobody
<1> QED BY <1>0, <1>4, <1>5, <1>6, <1>7, <1>8, WalkKeeps

\* It has looked at all of them.
LEMMA GoneKeepsRing ==
    ASSUME RingInv, NEW r \in Consumers, C!Gone(r)
    PROVE  RingInv'
<1>0. /\ \/ place[r] = "gone"
         \/ place[r] = "drain" /\ next[r] >= until[r]
      /\ rx' = [rx EXCEPT ![r] = "none"]
      /\ next' = [next EXCEPT ![r] = 0]
      /\ until' = [until EXCEPT ![r] = 0]
      /\ place' = [place EXCEPT ![r] = "idle"]
      /\ mode' = [mode EXCEPT ![r] = "none"]
      /\ UNCHANGED <<met, buffer, tail, holder, tx>>
  BY DEF C!Gone, C!Goto
<1>1. /\ rx[r] = "dropping" /\ next[r] \in Nat /\ until[r] \in Nat /\ Front \in Nat
      /\ place[r] = "gone" => next[r] = Front
      /\ until[r] <= Front
  BY <1>0, FrontIsNat DEF RingInv, RingTypes, Standing, Stands, Reading
<1>2. Walks(r, "none", 0, 0, "idle", "none")
  BY <1>0 DEF RingInv, RingTypes, Walks, Spots, Modes
<1>3. StandsAs("none", 0, 0, "idle", "none")
  BY <1>1 DEF StandsAs, Reading
<1>4. ASSUME NEW i \in Slots
      PROVE  OwesAs("none", 0, 0, "idle", Base(i))
                <=> OwesAs(rx[r], next[r], until[r], place[r], Base(i))
  <2>1. PICK p \in Int : p = Base(i) /\ p < Front
    BY BaseBelow
  <2> QED BY <1>0, <1>1, <2>1 DEF OwesAs, Reading
<1>5. C!Live' = C!Live /\ \A q \in Consumers : rx'[q] = "dropping" => rx[q] = "dropping"
  BY <1>0, <1>1 DEF C!Live, RingInv, RingTypes
<1>6. Sending'
  BY <1>0, <1>5 DEF RingInv, Sending, C!Nobody
<1>7. tail' \in [pos : Nat, cnt : Nat, closed : BOOLEAN]
  BY <1>0 DEF RingInv, RingTypes
<1> QED BY <1>0, <1>2, <1>3, <1>4, <1>6, <1>7, WalkKeeps

\* A guard is dropped: its receiver is counted off, and the last one takes the
\* value out of the slot.
LEMMA GuardKeeps ==
    ASSUME RingInv, NEW r \in Consumers, C!DropGuard(r)
    PROVE  RingInv'
<1>0. /\ place[r] = "release" /\ Stands(r) /\ mode[r] \in Modes \ {"none"}
      /\ next[r] \in Nat /\ next[r] >= 1 /\ until[r] \in Nat
      /\ rx[r] \in {"live", "dropping"}
  BY DEF C!DropGuard, RingInv, RingTypes, Standing, Stands, Reading, Modes
<1>1. PICK b \in Int : b = next[r] - 1
  BY <1>0
<1>2. PICK i : i = C!Idx(b)
  OBVIOUS
<1>3. i \in Slots /\ Base(i) = b
  BY <1>0, <1>1, <1>2, IdxIs DEF Stands, Reading
<1>4. Counts(i) /\ buffer[i].rem \in 0 .. MaxRem
  BY <1>3 DEF RingInv, RingTypes, Counting
<1>5. /\ r \in C!Owing(b)
      /\ IsFiniteSet(C!Owing(b)) /\ Cardinality(C!Owing(b)) \in Nat
      /\ Cardinality(C!Owing(b) \ {r}) = Cardinality(C!Owing(b)) - 1
  <2>1. r \in C!Owing(b)
    BY <1>0, <1>1, OwingIs DEF OwesAs, Reading
  <2> QED BY <2>1, OwingFinite, FS_RemoveElement
<1>6. Cardinality(C!Owing(b) \ {r}) \in Nat
  BY <1>5, FS_RemoveElement, FS_CardinalityType
<1>7. /\ C!Wrap(buffer[i].rem - 1) \in 0 .. MaxRem
      /\ ~Spoilt(i) => buffer[i].rem >= 1 /\ C!Wrap(buffer[i].rem - 1) = buffer[i].rem - 1
  <2>1. ~Spoilt(i) => buffer[i].rem >= 1
    BY <1>3, <1>4, <1>5, <1>6 DEF Counts
  <2>2. PICK k \in Int : k = buffer[i].rem - 1 /\ k < MaxRem + 1
    BY <1>4, RingAssumption
  <2>3. k >= 0 => k % (MaxRem + 1) = k
    BY <2>2, RingAssumption, SMT
  <2>4. k % (MaxRem + 1) \in 0 .. MaxRem
    BY <2>2, RingAssumption, SMT
  <2>5. C!Wrap(buffer[i].rem - 1) = k % (MaxRem + 1)
    BY <2>2 DEF C!Wrap
  <2>6. PICK w : w = C!Wrap(buffer[i].rem - 1) /\ w \in 0 .. MaxRem /\ (k >= 0 => w = k)
    BY <2>3, <2>4, <2>5
  <2>7. ~Spoilt(i) => k >= 0
    BY <1>4, <2>1, <2>2
  <2> QED BY <2>1, <2>2, <2>6, <2>7
<1>8. /\ buffer' \in [Slots -> [pos : Int, rem : 0 .. MaxRem, closed : BOOLEAN, val : Int]]
      /\ \A j \in Slots : buffer'[j].pos = buffer[j].pos /\ buffer'[j].closed = buffer[j].closed
      /\ \A j \in Slots \ {i} : buffer'[j] = buffer[j]
      /\ buffer'[i].rem = C!Wrap(buffer[i].rem - 1)
      /\ buffer'[i].val = IF buffer[i].rem = 1 THEN C!Absent ELSE buffer[i].val
  <2>1. PICK k \in 0 .. MaxRem : k = C!Wrap(buffer[i].rem - 1)
    BY <1>7
  <2>2. PICK v \in Int : v = IF buffer[i].rem = 1 THEN C!Absent ELSE buffer[i].val
    <3>1. buffer[i].val \in Int
      BY <1>3 DEF RingInv, RingTypes
    <3>2. C!Absent \in Int
      BY RingAssumption DEF C!Absent
    <3> QED BY <3>1, <3>2
  <2>3. buffer' = [buffer EXCEPT ![i].rem = k, ![i].val = v]
    BY <1>1, <1>2, <1>7, <2>1, <2>2 DEF C!DropGuard
  <2>4. /\ buffer' \in [Slots -> [pos : Int, rem : 0 .. MaxRem, closed : BOOLEAN, val : Int]]
        /\ \A j \in Slots \ {i} : buffer'[j] = buffer[j]
        /\ buffer'[i].pos = buffer[i].pos /\ buffer'[i].closed = buffer[i].closed
        /\ buffer'[i].rem = k /\ buffer'[i].val = v
    <3> DEFINE Cells == [pos : Int, rem : 0 .. MaxRem, closed : BOOLEAN, val : Int]
    <3>1. buffer \in [Slots -> Cells] /\ buffer[i] \in Cells
      BY <1>3 DEF RingInv, RingTypes
    <3>2. PICK x \in Cells : /\ x.pos = buffer[i].pos /\ x.closed = buffer[i].closed
                             /\ x.rem = k /\ x.val = v
                             /\ x = [buffer[i] EXCEPT !.rem = k, !.val = v]
      BY <3>1
    <3>3. buffer' = [buffer EXCEPT ![i] = x]
      BY <1>3, <2>3, <3>1, <3>2
    <3> HIDE DEF Cells
    <3>4. buffer' \in [Slots -> Cells] /\ buffer'[i] = x
          /\ \A j \in Slots \ {i} : buffer'[j] = buffer[j]
      BY <1>3, <3>1, <3>3
    <3> QED BY <3>2, <3>4 DEF Cells
  <2> QED BY <2>1, <2>2, <2>4
<1>9. PICK l \in Spots : /\ place' = [place EXCEPT ![r] = l]
                         /\ l \in {"unqueue", "idle", "drain"}
                         /\ mode[r] = "drop" <=> l = "drain"
  BY <1>0, LeavesTo DEF C!DropGuard, Spots
<1>10. UNCHANGED <<met, tail, holder, tx, rx, next, until, mode>>
  BY DEF C!DropGuard
<1>11. Front' = Front /\ \A j \in Slots : Base(j)' = Base(j)
  BY <1>8, <1>10 DEF Front, Base
<1>12. RingTypes'
  BY <1>8, <1>9, <1>10 DEF RingInv, RingTypes, Spots
<1>13. Sending'
  BY <1>10, SendingStays DEF RingInv
<1>14. Ring'
  BY <1>8, <1>10, <1>11 DEF RingInv, Ring
<1>15. \A q \in Consumers \ {r} : place'[q] = place[q]
  BY <1>9 DEF RingInv, RingTypes
<1>16. place'[r] = l
  BY <1>9 DEF RingInv, RingTypes
<1>17. ASSUME NEW q \in Consumers
       PROVE  Stands(q)'
  <2>1. CASE q = r
    BY <1>0, <1>9, <1>10, <1>11, <1>16, <2>1 DEF Stands, Reading
  <2>2. CASE q # r
    <3>1. next[q] \in Nat /\ (next[q] >= 1 => C!Idx(next[q] - 1) \in Slots)
      BY IdxIs DEF RingInv, RingTypes
    <3> QED BY <1>10, <1>11, <1>15, <2>2, <3>1 DEF RingInv, Standing, Stands, Reading
  <2> QED BY <2>1, <2>2
<1>18. ASSUME NEW p \in Int
       PROVE  C!Owing(p)' = IF p = b THEN C!Owing(p) \ {r} ELSE C!Owing(p)
  <2>1. ASSUME NEW q \in Consumers
        PROVE  OwesAs(rx'[q], next'[q], until'[q], place'[q], p)
                  <=> OwesAs(rx[q], next[q], until[q], place[q], p) /\ ~(q = r /\ p = b)
    <3>1. CASE q = r
      BY <1>0, <1>1, <1>9, <1>10, <1>16, <3>1 DEF OwesAs, Reading
    <3>2. CASE q # r
      BY <1>10, <1>15, <3>2 DEF OwesAs
    <3> QED BY <3>1, <3>2
  <2>2. C!Owing(p)' = {q \in Consumers : OwesAs(rx'[q], next'[q], until'[q], place'[q], p)}
    BY DEF C!Owing, OwesAs, Reading
  <2> QED BY <2>1, <2>2, OwingIs
<1>19. ASSUME NEW j \in Slots
       PROVE  Counts(j)'
  <2>1. PICK p \in Int : p = Base(j) /\ Base(j)' = p
    BY <1>11, BaseBelow
  <2>2. CASE j # i
    <3>1. p # b
      BY <1>2, <1>3, <2>1, <2>2, BaseIs DEF RingInv
    <3>2. C!Owing(p)' = C!Owing(p)
      BY <1>18, <3>1
    <3> QED BY <1>8, <1>10, <2>1, <2>2, <3>2 DEF RingInv, Counting, Counts, Spoilt, C!Absent
  <2>3. CASE j = i /\ Spoilt(i)
    <3>1. buffer[i].val \in {C!Absent, b} /\ C!Absent' = C!Absent /\ p = b
      BY <1>3, <1>4, <2>1, <2>3 DEF Counts, C!Absent
    <3>2. buffer'[i].val \in {C!Absent, b} /\ buffer'[i].closed /\ Spoilt(i)'
      BY <1>3, <1>8, <1>10, <2>3, <3>1 DEF Spoilt
    <3> QED BY <2>1, <2>3, <3>1, <3>2 DEF Counts
  <2>4. CASE j = i /\ ~Spoilt(i)
    <3>1. p = b /\ C!Owing(p)' = C!Owing(b) \ {r}
      BY <1>3, <1>18, <2>1, <2>4
    <3>2. PICK c \in Nat : c = Cardinality(C!Owing(b)) /\ Cardinality(C!Owing(b) \ {r}) = c - 1
      BY <1>5
    <3>3. /\ c <= buffer[i].rem
          /\ ~buffer[i].closed => buffer[i].rem = c
          /\ buffer[i].val \in {C!Absent, b}
          /\ C!Owing(b) # {} => buffer[i].val = b
      BY <1>3, <1>4, <2>4, <3>2 DEF Counts
    <3>4. buffer[i].rem = 1 => C!Owing(b) \ {r} = {}
      <4>1. buffer[i].rem = 1 => Cardinality(C!Owing(b) \ {r}) = 0
        BY <1>6, <3>2, <3>3
      <4>2. IsFiniteSet(C!Owing(b) \ {r})
        BY <1>5, FS_RemoveElement
      <4> QED BY <4>1, <4>2, FS_EmptySet
    <3>5. C!Absent' = C!Absent
      BY DEF C!Absent
    <3>6. buffer'[i].rem = buffer[i].rem - 1 /\ buffer[i].rem \in Nat
      BY <1>4, <1>7, <1>8, <2>4
    <3>7. /\ c - 1 <= buffer'[i].rem
          /\ ~buffer'[i].closed => buffer'[i].rem = c - 1
          /\ buffer'[i].val \in {C!Absent, b}
          /\ C!Owing(b) \ {r} # {} => buffer'[i].val = b
          /\ ~buffer'[i].closed /\ buffer'[i].rem = 0 => buffer'[i].val = C!Absent
      BY <1>3, <1>5, <1>8, <3>3, <3>4, <3>6
    <3> QED BY <2>1, <2>4, <3>1, <3>2, <3>5, <3>7 DEF Counts
  <2> QED BY <2>2, <2>3, <2>4
<1> QED BY <1>12, <1>13, <1>14, <1>17, <1>19 DEF RingInv, Standing, Counting

-----------------------------------------------------------------------------
(* Senders                                                                 *)

\* Steps that leave slots and receivers alone
LEMMA SenderKeeps ==
    ASSUME RingInv, UNCHANGED <<met, buffer, rx, next, until, place, mode>>,
           tail' \in [pos : Nat, cnt : Nat, closed : BOOLEAN],
           holder' \in Senders \cup {C!Nobody},
           tx' \in [Senders -> {"none", "live", "writing", "closing", "writing_close", "gone"}],
           Front' = Front, tail'.closed = tail.closed, Sending'
    PROVE  RingInv'
<1>1. \A j : Base(j)' = Base(j)
  BY DEF Base
<1>2. RingTypes'
  BY DEF RingInv, RingTypes, C!Nobody
<1>3. Ring'
  BY DEF RingInv, Ring
<1>4. Standing'
  BY <1>1 DEF RingInv, Standing, Stands
<1>5. Counting'
  BY CountsStay DEF RingInv, Counting
<1> QED BY <1>2, <1>3, <1>4, <1>5 DEF RingInv

\* A handle comes or goes, and the last one begins to close.
LEMMA HandlesKeep ==
    ASSUME RingInv, NEW s \in Senders, C!CloneSender(s) \/ C!DropSender(s)
    PROVE  RingInv'
<1>1. CASE C!CloneSender(s)
  <2>1. /\ tx[s] = "none" /\ tx' = [tx EXCEPT ![s] = "live"]
        /\ UNCHANGED <<met, buffer, tail, holder, rx, next, until, place, mode>>
    BY <1>1 DEF C!CloneSender
  <2>2. PICK t \in Senders : tx[t] = "live"
    BY <1>1 DEF C!CloneSender
  <2>3. /\ ~tail.closed
        /\ \A q \in Senders : tx[q] \notin {"closing", "writing_close"}
    BY <2>2 DEF RingInv, Sending
  <2>4. tx' \in [Senders -> {"none", "live", "writing", "closing", "writing_close", "gone"}]
    BY <2>1 DEF RingInv, RingTypes
  <2>5. Sending'
    BY <2>1, <2>3 DEF RingInv, RingTypes, Sending, C!Live, C!Nobody
  <2> QED BY <2>1, <2>4, <2>5, SenderKeeps DEF Front, RingInv, RingTypes
<1>2. CASE C!DropSender(s)
  <2>1. PICK l \in {"closing", "gone"} :
           /\ tx' = [tx EXCEPT ![s] = l]
           /\ l = "closing" => \A t \in Senders \ {s} : tx[t] \notin {"live", "writing"}
    BY <1>2 DEF C!DropSender
  <2>2. /\ tx[s] = "live"
        /\ UNCHANGED <<met, buffer, tail, holder, rx, next, until, place, mode>>
    BY <1>2 DEF C!DropSender
  <2>3. /\ ~tail.closed
        /\ \A q \in Senders : tx[q] \notin {"closing", "writing_close"}
    BY <2>2 DEF RingInv, Sending
  <2>4. tx' \in [Senders -> {"none", "live", "writing", "closing", "writing_close", "gone"}]
    BY <2>1 DEF RingInv, RingTypes
  <2>5. Sending'
    BY <2>1, <2>2, <2>3 DEF RingInv, RingTypes, Sending, C!Live, C!Nobody
  <2> QED BY <2>2, <2>4, <2>5, SenderKeeps DEF Front, RingInv, RingTypes
<1> QED BY <1>1, <1>2

\* A sender takes the tail, and the position at its end.
LEMMA ClaimKeeps ==
    ASSUME RingInv, NEW s \in Senders, C!Send(s) \/ C!CloseChannel(s)
    PROVE  RingInv'
<1>0. /\ C!Free /\ UNCHANGED <<met, buffer, rx, next, until, place, mode>>
      /\ Front = tail.pos /\ \A t \in Senders : tx[t] \notin {"writing", "writing_close"}
      /\ tail.pos \in Nat
  BY NobodyWrites DEF C!Send, C!CloseChannel, RingInv, RingTypes
<1>1. ASSUME NEW l \in {"writing", "writing_close"}, C!ClaimPosition(s), tail.cnt > 0,
             tx' = [tx EXCEPT ![s] = l],
             tx[s] = IF l = "writing" THEN "live" ELSE "closing"
      PROVE  RingInv'
  <2>1. /\ holder' = s /\ tail' \in [pos : Nat, cnt : Nat, closed : BOOLEAN]
        /\ tail'.pos = tail.pos + 1 /\ tail'.closed = tail.closed /\ tail'.cnt = tail.cnt
    BY <1>1 DEF C!ClaimPosition, RingInv, RingTypes
  <2>2. s # C!Nobody
    BY RingAssumption DEF C!Nobody
  <2>3. Front' = Front
    BY <1>0, <2>1, <2>2 DEF Front, C!Nobody
  <2>4. tx' \in [Senders -> {"none", "live", "writing", "closing", "writing_close", "gone"}]
    BY <1>1 DEF RingInv, RingTypes
  <2>5. ~tail.closed
    BY <1>1 DEF RingInv, Sending
  <2>6. \A t \in Senders \ {s} : tx'[t] = tx[t]
    BY <1>1 DEF RingInv, RingTypes
  <2>7. tx'[s] = l
    BY <1>1 DEF RingInv, RingTypes
  <2>8. ASSUME NEW t \in Senders
        PROVE  /\ holder' = t <=> tx'[t] \in {"writing", "writing_close"}
               /\ tx'[t] \in {"closing", "writing_close"} =>
                     /\ ~tail'.closed
                     /\ \A q \in Senders \ {t} : tx'[q] \in {"none", "gone"}
    <3>1. CASE t = s
      <4>1. l = "writing_close" => \A q \in Senders \ {s} : tx[q] \in {"none", "gone"}
        BY <1>1 DEF RingInv, Sending
      <4> QED BY <1>1, <2>1, <2>5, <2>6, <2>7, <3>1, <4>1
    <3>2. CASE t # s
      <4>1. tx'[t] = tx[t] /\ tx[t] \notin {"writing", "writing_close"}
        BY <1>0, <2>6, <3>2
      <4>2. tx[t] # "closing"
        BY <1>1, <3>2 DEF RingInv, Sending
      <4> QED BY <2>1, <3>2, <4>1, <4>2
    <3> QED BY <3>1, <3>2
  <2>9. tail'.cnt = Cardinality(C!Live')
    BY <1>0, <2>1 DEF RingInv, Sending, C!Live
  <2>10. tail'.cnt > 0 /\ tail'.pos > 0 /\ ~tail'.closed
    BY <1>0, <1>1, <2>1, <2>5
  <2>11. Sending'
    BY <2>8, <2>9, <2>10 DEF Sending
  <2>12. holder' \in Senders \cup {C!Nobody}
    BY <2>1
  <2> QED BY <1>0, <2>1, <2>3, <2>4, <2>11, <2>12, SenderKeeps
<1>2. CASE C!Send(s)
  BY <1>1, <1>2 DEF C!Send
<1>3. CASE C!CloseChannel(s) /\ tail.cnt > 0
  BY <1>1, <1>3 DEF C!CloseChannel, RingInv, RingTypes
<1>4. CASE C!CloseChannel(s) /\ ~(tail.cnt > 0)
  <2>1. tx[s] = "closing" /\ tx' = [tx EXCEPT ![s] = "gone"] /\ UNCHANGED <<tail, holder>>
    BY <1>4 DEF C!CloseChannel, RingInv, RingTypes
  <2>2. tx' \in [Senders -> {"none", "live", "writing", "closing", "writing_close", "gone"}]
    BY <2>1 DEF RingInv, RingTypes
  <2>3. Sending'
    BY <1>0, <2>1 DEF RingInv, RingTypes, Sending, C!Live, C!Nobody
  <2> QED BY <1>0, <2>1, <2>2, <2>3, SenderKeeps DEF Front, RingInv, RingTypes
<1> QED BY <1>2, <1>3, <1>4

\* A sender writes its slot, once nobody reads it: the value, with the count of
\* all receivers there are, or the marker of the close.
LEMMA WriteSlotKeeps ==
    ASSUME RingInv, NEW s \in Senders, C!WriteSlot(s)
    PROVE  RingInv'
<1>0. /\ holder = s /\ holder' = C!Nobody /\ s # C!Nobody
      /\ UNCHANGED <<rx, next, until, place, mode>>
      /\ met => met'
  BY RingAssumption DEF C!WriteSlot, C!MeetsDrop, C!Nobody
<1>1. PICK p \in Nat : p = tail.pos - 1 /\ p = Front /\ Front' = p + 1
  <2>1. Front = tail.pos - 1 /\ Front \in Nat /\ tail.pos \in Nat
    BY <1>0, FrontIsNat DEF Front, RingInv, RingTypes
  <2>2. tail'.pos = tail.pos
    BY <2>1 DEF C!WriteSlot, RingInv, RingTypes
  <2> QED BY <1>0, <2>1, <2>2 DEF Front
<1>2. PICK i : i = C!Idx(p)
  OBVIOUS
<1>3. PICK close \in BOOLEAN : close <=> tx[s] = "writing_close"
  OBVIOUS
<1>4. /\ i \in Slots /\ C!Idx(p) = i /\ C!Idx(p - Cap) = i /\ p - Cap \in Int
      /\ buffer[i].pos = p - Cap /\ Cap \in Nat \ {0}
  <2>1. Cap \in Nat \ {0} /\ p - Cap \in Int
    BY RingAssumption
  <2>2. i \in Slots /\ C!Idx(p - Cap) = i
    BY <1>2, IdxIs
  <2>3. buffer[i].pos = p - Cap
    BY <1>1, <1>2, <2>1, SlotOf DEF RingInv
  <2> QED BY <1>2, <2>1, <2>2, <2>3
<1>5. /\ tx[s] \in {"writing", "writing_close"} /\ ~tail.closed
      /\ \A t \in Senders \ {s} : tx[t] \notin {"writing", "writing_close", "closing"}
      /\ close => \A t \in Senders \ {s} : tx[t] \in {"none", "gone"}
      /\ tail.cnt > 0 /\ tail.cnt = Cardinality(C!Live)
  BY <1>0, <1>3 DEF RingInv, Sending
<1>6. \A j \in Slots : ~buffer[j].closed /\ Base(j) = buffer[j].pos
  BY <1>5 DEF RingInv, Ring, Base
<1>7. tail.cnt \in 0 .. MaxRem
  <2>1. C!Live \subseteq Consumers
    BY DEF C!Live
  <2>2. Cardinality(C!Live) <= Cardinality(Consumers) /\ Cardinality(C!Live) \in Nat
        /\ Cardinality(Consumers) \in Nat
    BY <2>1, RingAssumption, FS_Subset, FS_CardinalityType
  <2> QED BY <1>5, <2>2, RingAssumption
<1>8. /\ C!Readers(i) = {}
      /\ buffer' = [buffer EXCEPT ![i] =
            [pos |-> p, rem |-> tail.cnt, closed |-> close,
             val |-> IF close THEN buffer[i].val ELSE p]]
      /\ tail' = [tail EXCEPT !.closed = close]
      /\ tx' = [tx EXCEPT ![s] = IF close THEN "gone" ELSE "live"]
  BY <1>1, <1>2, <1>3 DEF C!WriteSlot
<1>9. /\ buffer' \in [Slots -> [pos : Int, rem : 0 .. MaxRem, closed : BOOLEAN, val : Int]]
      /\ \A j \in Slots \ {i} : buffer'[j] = buffer[j]
      /\ buffer'[i].pos = p /\ buffer'[i].rem = tail.cnt /\ buffer'[i].closed = close
      /\ buffer'[i].val = IF close THEN buffer[i].val ELSE p
  <2>1. PICK v \in Int : v = IF close THEN buffer[i].val ELSE p
    BY <1>4 DEF RingInv, RingTypes
  <2>2. [pos |-> p, rem |-> tail.cnt, closed |-> close, val |-> v]
           \in [pos : Int, rem : 0 .. MaxRem, closed : BOOLEAN, val : Int]
    BY <1>7
  <2>3. buffer' = [buffer EXCEPT ![i] =
            [pos |-> p, rem |-> tail.cnt, closed |-> close, val |-> v]]
    BY <1>8, <2>1
  <2> QED BY <1>4, <2>1, <2>2, <2>3 DEF RingInv, RingTypes
<1>10. /\ tail' \in [pos : Nat, cnt : Nat, closed : BOOLEAN]
       /\ tail'.pos = tail.pos /\ tail'.cnt = tail.cnt /\ tail'.closed = close
  BY <1>8 DEF RingInv, RingTypes
<1>11. /\ tx' \in [Senders -> {"none", "live", "writing", "closing", "writing_close", "gone"}]
       /\ tx'[s] = IF close THEN "gone" ELSE "live"
       /\ \A t \in Senders \ {s} : tx'[t] = tx[t]
  BY <1>8 DEF RingInv, RingTypes
<1>12. RingTypes'
  BY <1>0, <1>9, <1>10, <1>11 DEF RingInv, RingTypes, C!Nobody
<1>13. Sending'
  <2>1. \A t \in Senders : holder' # t /\ tx'[t] \notin {"writing", "writing_close", "closing"}
    BY <1>0, <1>5, <1>11, RingAssumption DEF C!Nobody
  <2>2. tail'.closed => \A t \in Senders : tx'[t] \in {"none", "gone"}
    BY <1>5, <1>10, <1>11
  <2>3. tail'.cnt = Cardinality(C!Live')
    BY <1>0, <1>5, <1>10 DEF C!Live
  <2> QED BY <1>0, <2>1, <2>2, <2>3 DEF Sending, C!Nobody
<1>14. Ring'
  <2>1. ASSUME NEW j \in Slots
        PROVE  /\ buffer'[j].pos \in Front' - Cap .. Front' - 1
               /\ C!Idx(buffer'[j].pos) = j
               /\ buffer'[j].closed <=> tail'.closed /\ buffer'[j].pos = Front' - 1
    <3>1. CASE j = i
      BY <1>1, <1>4, <1>9, <1>10, <3>1
    <3>2. CASE j # i
      <4>1. PICK q \in Int : q = buffer[j].pos
        BY DEF RingInv, RingTypes
      <4>2. q \in p - Cap .. p - 1 /\ C!Idx(q) = j
        BY <1>1, <4>1 DEF RingInv, Ring
      <4>3. q # p - Cap
        BY <1>4, <3>2, <4>2
      <4>4. q \in p + 1 - Cap .. p /\ q # p
        BY <1>4, <4>2, <4>3
      <4>5. buffer'[j].pos = q /\ ~buffer'[j].closed
        BY <1>6, <1>9, <3>2, <4>1
      <4>6. Front' - Cap = p + 1 - Cap /\ Front' - 1 = p
        BY <1>1, <1>4
      <4> QED BY <4>2, <4>4, <4>5, <4>6
    <3> QED BY <3>1, <3>2
  <2> QED BY <2>1 DEF Ring, C!Idx
<1>15. /\ \A j \in Slots \ {i} : Base(j)' = Base(j)
       /\ Base(i)' = IF close THEN p - Cap ELSE p
       /\ Base(i) = p - Cap
  BY <1>4, <1>6, <1>9 DEF Base
<1>16. ASSUME NEW r \in Consumers
       PROVE  Stands(r)'
  <2>1. next[r] \in Nat /\ until[r] \in Nat /\ next[r] <= p /\ until[r] <= p /\ Stands(r)
    BY <1>1 DEF RingInv, RingTypes, Standing, Stands
  <2>2. place[r] # "gone"
    BY <1>5, <2>1 DEF Stands
  <2>3. ASSUME place[r] \in Reading
        PROVE  C!Idx(next[r] - 1) \in Slots \ {i}
    <3>1. C!Idx(next[r] - 1) # i
      BY <1>8, <2>3 DEF C!Readers, Reading
    <3> QED BY <2>1, <3>1, IdxIs
  <2>4. place[r] \in Reading => Base(C!Idx(next[r] - 1))' = next[r] - 1
    BY <1>0, <1>15, <2>1, <2>3 DEF Stands
  <2> QED BY <1>0, <1>1, <2>1, <2>2, <2>4 DEF Stands, Reading
<1>17. ASSUME NEW b
       PROVE  C!Owing(b)' = C!Owing(b)
  BY <1>0 DEF C!Owing
<1>18. ASSUME NEW j \in Slots
       PROVE  Counts(j)'
  <2>1. CASE j # i
    BY <1>0, <1>9, <1>15, <2>1, CountsStay DEF RingInv, Counting
  <2>2. CASE j = i /\ ~close
    <3>1. C!Owing(p) = C!Live
      <4>1. ASSUME NEW r \in Consumers
            PROVE  OwesAs(rx[r], next[r], until[r], place[r], p) <=> rx[r] = "live"
        <5>1. next[r] \in Nat /\ until[r] \in Nat /\ next[r] <= p /\ until[r] <= p
          BY <1>1 DEF RingInv, RingTypes, Standing, Stands
        <5> QED BY <5>1 DEF OwesAs, Reading
      <4> QED BY <4>1, OwingIs DEF C!Live
    <3>2. C!Owing(p)' = C!Live /\ Base(i)' = p /\ buffer'[i].val = p /\ buffer'[i].rem = Cardinality(C!Live)
      BY <1>5, <1>9, <1>15, <1>17, <2>2, <3>1
    <3>3. Cardinality(C!Live) \in Nat \ {0}
      BY <1>5, <1>7
    <3> QED BY <2>2, <3>2, <3>3 DEF Counts
  <2>3. CASE j = i /\ close
    <3>1. PICK o : o = p - Cap
      OBVIOUS
    <3>2. Counts(i) /\ Base(i) = o /\ Base(i)' = o /\ C!Owing(o)' = C!Owing(o) /\ C!Absent' = C!Absent
      BY <1>4, <1>15, <1>17, <2>3, <3>1 DEF RingInv, Counting, C!Absent
    <3>3. buffer'[i].val = buffer[i].val /\ buffer'[i].rem = Cardinality(C!Live) /\ buffer'[i].closed
      BY <1>5, <1>9, <2>3
    <3>4. ASSUME ~met' PROVE Cardinality(C!Owing(o)) <= Cardinality(C!Live)
      <4>1. ASSUME NEW r \in Consumers, OwesAs(rx[r], next[r], until[r], place[r], o)
            PROVE  rx[r] = "live"
        <5>1. Stands(r) /\ rx[r] \in {"none", "live", "dropping"}
          BY DEF RingInv, RingTypes, Standing
        <5>2. ~(rx[r] = "dropping" /\ next[r] <= o /\ o < until[r])
          BY <1>1, <1>3, <2>3, <3>1, <3>4 DEF C!WriteSlot, C!MeetsDrop
        <5>3. place[r] \notin Reading \/ next[r] # o + 1
          <6>1. C!Idx(o) = i /\ o \in Int
            BY <1>4, <3>1
          <6>2. next[r] = o + 1 => next[r] - 1 = o
            BY <6>1
          <6> QED BY <1>8, <6>1, <6>2 DEF C!Readers, Reading
        <5> QED BY <4>1, <5>1, <5>2, <5>3 DEF OwesAs
      <4>2. C!Owing(o) \subseteq C!Live
        BY <4>1, OwingIs DEF C!Live
      <4>3. IsFiniteSet(C!Live)
        BY RingAssumption, FS_Subset DEF C!Live
      <4> QED BY <4>2, <4>3, FS_Subset
    <3>5. ~buffer[i].closed
      BY <1>4, <1>6
    <3> QED BY <2>3, <3>2, <3>3, <3>4, <3>5 DEF Counts, Spoilt
  <2> QED BY <2>1, <2>2, <2>3
<1> QED BY <1>12, <1>13, <1>14, <1>16, <1>18 DEF RingInv, Standing, Counting

-----------------------------------------------------------------------------
(* The promises of the ring                                                *)

\* A new channel: empty slots, one sender, one receiver.
LEMMA RingStarts == C!Init => RingInv
<1> SUFFICES ASSUME C!Init PROVE RingInv
  OBVIOUS
<1>0. Cap \in Nat \ {0}
  BY RingAssumption
<1>1. PICK r \in Consumers : rx = [q \in Consumers |-> IF q = r THEN "live" ELSE "none"]
  BY DEF C!Init
<1>2. PICK s \in Senders : tx = [t \in Senders |-> IF t = s THEN "live" ELSE "none"]
  BY DEF C!Init
<1>3. RingTypes
  BY <1>0, <1>1, <1>2, RingAssumption
     DEF C!Init, RingTypes, Slots, Reading, C!Nobody, C!Absent
<1>4. Front = 0
  BY DEF C!Init, Front
<1>5. tail.cnt = Cardinality(C!Live)
  <2>1. C!Live = {r}
    BY <1>1 DEF C!Live
  <2> QED BY <2>1, FS_Singleton DEF C!Init
<1>6. Sending
  BY <1>1, <1>2, <1>5, RingAssumption DEF C!Init, Sending, C!Nobody
<1>7. \A i \in Slots : buffer[i].pos = i - Cap /\ Base(i) = i - Cap
  BY DEF C!Init, Base, Slots
<1>8. Ring
  BY <1>0, <1>4, <1>7, SlotsBefore DEF Ring, C!Init, Slots
<1>9. Standing
  BY <1>1, <1>4 DEF C!Init, Standing, Stands, Reading
<1>10. ASSUME NEW i \in Slots
       PROVE  Counts(i)
  <2>1. PICK b \in Int : b = Base(i) /\ b < 0
    BY <1>0, <1>7 DEF Slots
  <2>2. C!Owing(b) = {}
    <3>1. ASSUME NEW q \in Consumers
          PROVE  ~OwesAs(rx[q], next[q], until[q], place[q], b)
      <4>1. next[q] = 0 /\ until[q] = 0 /\ place[q] = "idle"
        BY DEF C!Init
      <4> QED BY <2>1, <4>1 DEF OwesAs, Reading
    <3> QED BY <3>1, OwingIs
  <2>3. Cardinality(C!Owing(b)) = 0
    BY <2>2, FS_EmptySet
  <2>4. buffer[i].rem = 0 /\ buffer[i].val = C!Absent
    BY DEF C!Init, Slots
  <2> QED BY <2>1, <2>2, <2>3, <2>4 DEF Counts
<1> QED BY <1>3, <1>6, <1>8, <1>9, <1>10 DEF RingInv, Counting

\* A step that changes nothing
LEMMA RingRests == ASSUME RingInv, UNCHANGED C!vars PROVE RingInv'
<1>1. tail' \in [pos : Nat, cnt : Nat, closed : BOOLEAN] /\ Front' = Front
  BY DEF C!vars, RingInv, RingTypes, Front
<1>2. Sending'
  BY SendingStays DEF C!vars, RingInv
<1> QED BY <1>1, <1>2, SenderKeeps DEF C!vars, RingInv, RingTypes

\* Every step keeps the invariant.
LEMMA RingStep == ASSUME RingInv, [C!Next]_(C!vars) PROVE RingInv'
<1>1. ASSUME NEW s \in Senders,
             C!CloneSender(s) \/ C!Send(s) \/ C!DropSender(s) \/ C!SenderStep(s)
      PROVE  RingInv'
  BY <1>1, HandlesKeep, ClaimKeeps, WriteSlotKeeps DEF C!SenderStep
<1>2. ASSUME NEW r \in Consumers,
             \/ C!Subscribe(r) \/ C!PollRecv(r) \/ C!TryRecv(r) \/ C!DropRecv(r)
             \/ C!DropReceiver(r) \/ C!ReceiverStep(r)
      PROVE  RingInv'
  BY <1>2, SubscribeKeeps, PollKeeps, DropRecvKeeps, DropReceiverKeeps, SlowKeeps,
     CloneKeeps, GuardKeeps, GoneKeepsRing DEF C!ReceiverStep
<1>3. CASE C!Finished \/ UNCHANGED C!vars
  BY <1>3, RingRests DEF C!Finished
<1> QED BY <1>1, <1>2, <1>3 DEF C!Next

\* The invariant holds in every state of every run.
LEMMA RingAlways == RingSpec => []RingInv
<1>1. RingInv /\ [C!Next]_(C!vars) => RingInv'
  BY RingStep
<1> QED BY <1>1, RingStarts, PTL DEF RingSpec, C!Spec

\* A reader's slot has the value at the position it asked for, or the marker.
LEMMA InTurn == RingInv => C!ValueInTurn
<1> SUFFICES ASSUME RingInv, NEW r \in Consumers
             PROVE  /\ place[r] = "clone" =>
                          C!Shown(r) \/ (met /\ buffer[C!Idx(next[r] - 1)].closed)
                    /\ place[r] # "panic"
  BY DEF C!ValueInTurn
<1>1. place[r] # "panic"
  BY DEF RingInv, RingTypes, Reading
<1>2. ASSUME place[r] = "clone", ~(met /\ buffer[C!Idx(next[r] - 1)].closed)
      PROVE  C!Shown(r)
  <2>1. PICK b \in Int : b = next[r] - 1
    BY DEF RingInv, RingTypes
  <2>2. C!Idx(b) \in Slots /\ Base(C!Idx(b)) = b
    BY <1>2, <2>1, IdxIs DEF RingInv, Standing, Stands, Reading
  <2>3. r \in C!Owing(b)
    BY <1>2, <2>1 DEF C!Owing, RingInv, RingTypes
  <2> QED BY <1>2, <2>1, <2>2, <2>3 DEF RingInv, Counting, Counts, Spoilt, C!Shown
<1> QED BY <1>1, <1>2

\* The instance counts as the library does.
LEMMA SameCount == \A S : C!Cardinality(S) = Cardinality(S)
  BY DEF C!Cardinality, Cardinality

\* A slot that holds a value counts exactly who owes it a look.
LEMMA RemIsExact == RingInv => C!RemExact
<1> SUFFICES ASSUME RingInv PROVE C!RemExact
  OBVIOUS
<1>1. ASSUME NEW i \in Slots, ~buffer[i].closed
      PROVE  /\ buffer[i].rem = Cardinality(C!Owing(buffer[i].pos))
             /\ buffer[i].val = IF buffer[i].rem = 0 THEN C!Absent
                                                     ELSE buffer[i].pos
  <2>1. Base(i) = buffer[i].pos /\ Counts(i)
    BY <1>1 DEF Base, RingInv, Counting
  <2>2. buffer[i].rem = Cardinality(C!Owing(buffer[i].pos))
    BY <1>1, <2>1 DEF Counts
  <2>3. buffer[i].rem # 0 => C!Owing(buffer[i].pos) # {}
    BY <2>2, FS_EmptySet
  <2> QED BY <1>1, <2>1, <2>2, <2>3 DEF Counts, Spoilt
<1> QED BY <1>1, SameCount DEF C!RemExact, Slots

\* The promises of the module documentation of broadcast.rs: every receiver is
\* shown each value in its turn (line 1), and a value is dropped exactly when the
\* last one has seen it (line 12).  The code breaks the first for one value only:
\* the one in the slot of the marker, when the close fell into the drop of
\* another receiver.
THEOREM SlotsAreSound == RingSpec => []SlotsSound
<1>1. RingInv => SlotsSound
  BY InTurn, RemIsExact DEF SlotsSound, C!SlotsSound
<1> QED BY <1>1, RingAlways, PTL

-----------------------------------------------------------------------------
(* Receivers that lag                                                      *)

\* No slot has a value older than the oldest.
LEMMA NoneOlder ==
    ASSUME RingInv, NEW p \in Nat, p < Oldest
    PROVE  ~C!Kept(p)
<1> SUFFICES ASSUME NEW i \in Slots, buffer[i].val = p
             PROVE  FALSE
  BY DEF C!Kept, Slots
<1>1. Base(i) \in Oldest .. Oldest + Cap - 1 /\ Oldest \in Int /\ Cap \in Nat
  BY BaseIs, FrontIsNat, RingAssumption DEF RingInv
<1>2. p \in {C!Absent, Base(i)}
  BY DEF RingInv, Counting, Counts
<1>3. C!Absent < 0
  BY <1>1 DEF C!Absent
<1> QED BY <1>1, <1>2, <1>3

\* The oldest has its value as long as a receiver is not past it, unless it was
\* taken along with the marker.
LEMMA OldestIsKept ==
    ASSUME RingInv, NEW r \in Consumers, rx[r] = "live", Oldest \in Nat, next[r] <= Oldest
    PROVE  C!Kept(Oldest) \/ met
<1>1. PICK i : i = C!Idx(Oldest)
  OBVIOUS
<1>2. i \in Slots /\ Base(i) = Oldest
  BY <1>1, BaseAt, RingAssumption DEF RingInv
<1>3. r \in C!Owing(Oldest)
  BY DEF C!Owing
<1>4. Cardinality(C!Owing(Oldest)) \in Nat \ {0}
  <2>1. IsFiniteSet(C!Owing(Oldest)) /\ Cardinality(C!Owing(Oldest)) \in Nat
    BY OwingFinite
  <2> QED BY <1>3, <2>1, FS_EmptySet
<1>5. Counts(i) /\ buffer[i].rem \in 0 .. MaxRem
  BY <1>2 DEF RingInv, RingTypes, Counting
<1>6. met \/ (buffer[i].val = Oldest /\ buffer[i].rem > 0)
  BY <1>2, <1>3, <1>4, <1>5 DEF Counts, Spoilt
<1> QED BY <1>2, <1>6 DEF C!Kept, Slots

\* Where a receiver that stays goes in a step.
Honest(r) ==
    rx[r] = "live" /\ rx'[r] = "live" /\ next'[r] # next[r] =>
       \/ next'[r] = next[r] + 1
       \/ /\ next'[r] > next[r]
          /\ \A p \in next[r] .. next'[r] - 1 : ~C!Kept(p)
          /\ C!Kept(next'[r]) \/ met

\* The steps of one receiver leave the positions of the others alone.
LEMMA OthersStay ==
    ASSUME RingInv, NEW q \in Consumers, NEW r \in Consumers, r # q,
           \/ C!Subscribe(q) \/ C!PollRecv(q) \/ C!TryRecv(q) \/ C!DropRecv(q)
           \/ C!DropReceiver(q) \/ C!ReceiverStep(q)
    PROVE  next'[r] = next[r]
<1>0. next \in [Consumers -> Nat]
  BY DEF RingInv, RingTypes
<1>1. CASE C!Subscribe(q) \/ C!DropRecv(q) \/ C!DropReceiver(q) \/ C!Gone(q)
  BY <1>0, <1>1 DEF C!Subscribe, C!DropRecv, C!DropReceiver, C!Gone
<1>2. CASE C!PollRecv(q) \/ C!TryRecv(q) \/ C!Drain(q)
  BY <1>0, <1>2 DEF C!PollRecv, C!TryRecv, C!Drain, C!Look, C!Hit
<1>3. CASE C!Slow(q)
  BY <1>0, <1>3 DEF C!Slow, C!Hit
<1>4. CASE C!CloneValue(q) \/ C!DropGuard(q)
  BY <1>4 DEF C!CloneValue, C!DropGuard
<1> QED BY <1>1, <1>2, <1>3, <1>4 DEF C!ReceiverStep

\* A receiver goes on by one, or to the oldest value there is.
LEMMA SlowIsHonest ==
    ASSUME RingInv, NEW r \in Consumers, C!Slow(r)
    PROVE  Honest(r)
<1>0. next[r] \in Nat /\ next \in [Consumers -> Nat] /\ C!Free
  BY DEF RingInv, RingTypes, C!Slow
<1>1. CASE C!Hit(r, buffer[C!Idx(next[r])]) \/ UNCHANGED next
  BY <1>0, <1>1 DEF C!Hit, Honest
<1>2. CASE /\ buffer[C!Idx(next[r])].pos \notin {next[r], next[r] - Cap}
           /\ IF C!OldestKept = next[r]
              THEN next' = [next EXCEPT ![r] = @ + 1]
              ELSE next' = [next EXCEPT ![r] = C!OldestKept]
  <2>1. C!OldestKept = Oldest /\ Oldest \in Nat /\ next[r] <= Oldest
    BY <1>0, <1>2, Wrapped
  <2>2. CASE Oldest = next[r]
    BY <1>0, <1>2, <2>1, <2>2 DEF Honest
  <2>3. CASE Oldest # next[r] /\ rx[r] = "live"
    <3>1. next'[r] = Oldest /\ Oldest > next[r]
      BY <1>0, <1>2, <2>1, <2>3
    <3>2. C!Kept(Oldest) \/ met
      BY <2>1, <2>3, OldestIsKept
    <3>3. \A p \in next[r] .. Oldest - 1 : ~C!Kept(p)
      BY <1>0, <2>1, NoneOlder
    <3> QED BY <3>1, <3>2, <3>3 DEF Honest
  <2> QED BY <2>2, <2>3 DEF Honest
<1> QED BY <1>1, <1>2 DEF C!Slow

\* So does every step.
LEMMA StepIsHonest ==
    ASSUME RingInv, [C!Next]_(C!vars), NEW r \in Consumers
    PROVE  Honest(r)
<1>0. next[r] \in Nat /\ next \in [Consumers -> Nat] /\ rx \in [Consumers -> {"none", "live", "dropping"}]
  BY DEF RingInv, RingTypes
<1>1. ASSUME NEW q \in Consumers,
             \/ C!Subscribe(q) \/ C!PollRecv(q) \/ C!TryRecv(q) \/ C!DropRecv(q)
             \/ C!DropReceiver(q) \/ C!ReceiverStep(q)
      PROVE  Honest(r)
  <2>1. CASE r # q
    BY <1>1, <2>1, OthersStay DEF Honest
  <2>2. CASE r = q
    <3>1. CASE C!Subscribe(r) \/ C!Gone(r)
      BY <1>0, <3>1 DEF C!Subscribe, C!Gone, Honest
    <3>2. CASE C!DropRecv(r) \/ C!DropReceiver(r) \/ C!CloneValue(r) \/ C!DropGuard(r)
      BY <3>2 DEF C!DropRecv, C!DropReceiver, C!CloneValue, C!DropGuard, Honest
    <3>3. CASE C!PollRecv(r) \/ C!TryRecv(r) \/ C!Drain(r)
      BY <1>0, <3>3 DEF C!PollRecv, C!TryRecv, C!Drain, C!Look, C!Hit, Honest
    <3>4. CASE C!Slow(r)
      BY <3>4, SlowIsHonest
    <3> QED BY <1>1, <2>2, <3>1, <3>2, <3>3, <3>4 DEF C!ReceiverStep
  <2> QED BY <2>1, <2>2
<1>2. ASSUME NEW s \in Senders,
             C!CloneSender(s) \/ C!Send(s) \/ C!DropSender(s) \/ C!SenderStep(s)
      PROVE  Honest(r)
  BY <1>2
     DEF C!CloneSender, C!Send, C!DropSender, C!SenderStep, C!WriteSlot, C!CloseChannel, Honest
<1>3. CASE C!Finished \/ UNCHANGED C!vars
  BY <1>3 DEF C!Finished, C!vars, Honest
<1> QED BY <1>1, <1>2, <1>3 DEF C!Next

\* "Lagging" in the module documentation of broadcast.rs: a receiver takes the
\* values one by one, and when it is told that it lagged, all it skips is
\* overwritten, and where it goes on is the oldest value still there, unless a
\* receiver in its drop has taken that one from the slot of the marker.
THEOREM LagsAreHonest == RingSpec => LagIsHonest
<1>1. RingInv /\ [C!Next]_(C!vars) => [\A r \in Consumers : Honest(r)]_(C!vars)
  BY StepIsHonest
<1>2. (\A r \in Consumers : Honest(r)) =>
         \A r \in Consumers :
            rx[r] = "live" /\ rx'[r] = "live" /\ next'[r] # next[r] =>
               \/ next'[r] = next[r] + 1
               \/ /\ next'[r] > next[r]
                  /\ \A p \in next[r] .. next'[r] - 1 : ~C!Kept(p)
                  /\ C!Kept(next'[r]) \/ met
  BY DEF Honest
<1> QED BY <1>1, <1>2, RingAlways, PTL DEF RingSpec, C!Spec, LagIsHonest, C!LagIsHonest
=============================================================================
