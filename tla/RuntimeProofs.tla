--------------------------- MODULE RuntimeProofs ---------------------------
(***************************************************************************)
(* The small parts around the scheduler.  Nesting: what a thread remembers *)
(* of its runtimes is right for any number of runtimes, at any depth of    *)
(* calls within calls; each guard, and each call, keeps what the one below *)
(* it stands for (NestingInv).                                             *)
(*                                                                         *)
(* Park: the parker has the mutex from the exchange to the sleep, so an    *)
(* unpark is kept, or has somebody who will signal it (ParkInv).           *)
(* Interval: each deadline is a multiple of the period away from the first *)
(* one, by what `%` returns (IntervalInv).                                 *)
(* Executor: a task that waits for a connection is registered with the     *)
(* source, or in the queue; the wakers of the sources that are reported    *)
(* all reach the queue (ExecutorInv).                                      *)
(***************************************************************************)
EXTENDS MCRuntime, Integers, FiniteSetTheorems, SequenceTheorems,
        NaturalsInduction, WellFoundedInduction, TLAPS

-----------------------------------------------------------------------------
(* Nesting                                                                 *)

\* The calls that the thread is in, and its guards.
Kinds == {"short", "poll", "block"}
Frames == [rt : Runtimes, kind : Kinds, own : BOOLEAN, saved : Runtimes \cup {None}]
Guards == [rt : Runtimes, old : Runtimes \cup {None}, depth : Nat]

NestingTypes ==
    /\ N!TypeOK
    /\ stack \in Seq(Frames)
    /\ guards \in Seq(Guards)

\* block_on holds a guard of its own as long as it runs.
LoopsGuarded ==
    \A i \in 1 .. Len(stack) :
        stack[i].kind = "block" => \E k \in 1 .. Len(guards) : guards[k].depth = i

\* Each guard puts back what the one below it stands for.
GuardsLinked ==
    ~shuffled =>
        /\ context = IF Len(guards) = 0 THEN None ELSE guards[Len(guards)].rt
        /\ \A k \in 1 .. Len(guards) :
              guards[k].old = IF k = 1 THEN None ELSE guards[k - 1].rt

\* d is the driver that the calls below n have left in the thread local.
LeftBelow(d, n) ==
    \/ d = None /\ \A j \in N!Owners : j >= n
    \/ \E i \in N!Owners : /\ i < n /\ d = stack[i].rt
                           /\ \A j \in N!Owners : j < n => j <= i

\* A driver is in its slot or with one call, and each call keeps for its end
\* what the calls below it had left.
DriversLinked ==
    ~unwound =>
        /\ \A r \in Runtimes :
              slot[r] = IF \E i \in N!Owners : stack[i].rt = r THEN None ELSE r
        /\ \A i, j \in N!Owners : stack[i].rt = stack[j].rt => i = j
        /\ LeftBelow(tls, Len(stack) + 1)
        /\ \A i \in N!Owners : LeftBelow(stack[i].saved, i)

NestingInv ==
    /\ NestingTypes /\ LoopsGuarded /\ GuardsLinked
    /\ DriversLinked /\ N!CorePlacedBack /\ N!OneLoop

-----------------------------------------------------------------------------
(* The two stacks                                                          *)

\* What Append does to a stack of calls, or of guards.
LEMMA Pushed ==
    ASSUME NEW S, NEW s \in Seq(S), NEW e \in S
    PROVE  /\ Append(s, e) \in Seq(S) /\ Len(Append(s, e)) = Len(s) + 1
           /\ Append(s, e)[Len(s) + 1] = e
           /\ \A i \in 1 .. Len(s) : Append(s, e)[i] = s[i]
  OBVIOUS

\* What N!Front does.
LEMMA Popped ==
    ASSUME NEW S, NEW s \in Seq(S), s # <<>>
    PROVE  /\ N!Front(s) \in Seq(S) /\ Len(N!Front(s)) = Len(s) - 1
           /\ Len(s) \in Nat \ {0}
           /\ N!Last(s) = s[Len(s)] /\ s[Len(s)] \in S
           /\ \A i \in 1 .. Len(s) - 1 : N!Front(s)[i] = s[i]
<1>1. Len(s) \in Nat \ {0} /\ \A i \in 1 .. Len(s) : s[i] \in S
  OBVIOUS
<1> DEFINE m == Len(s) - 1
<1>2. m \in Int /\ 1 \in Int /\ \A i \in 1 .. m : s[i] \in S
  BY <1>1
<1>3. /\ N!Front(s) = SubSeq(s, 1, m)
      /\ N!Last(s) = s[Len(s)]
  BY DEF N!Front, N!Last
<1> HIDE DEF m
<1>4. /\ SubSeq(s, 1, m) \in Seq(S)
      /\ Len(SubSeq(s, 1, m)) = IF 1 <= m THEN m - 1 + 1 ELSE 0
      /\ \A i \in 1 .. m - 1 + 1 : SubSeq(s, 1, m)[i] = s[1 + i - 1]
  BY <1>2, SubSeqProperties
<1>5. \A i \in 1 .. m : N!Front(s)[i] = s[i]
  BY <1>2, <1>3, <1>4
<1>6. m = Len(s) - 1
  BY DEF m
<1>7. Len(N!Front(s)) = m
  BY <1>1, <1>3, <1>4, <1>6
<1> QED BY <1>1, <1>3, <1>4, <1>5, <1>6, <1>7

\* What N!RemoveAt does.
LEMMA Removed ==
    ASSUME NEW S, NEW s \in Seq(S), NEW n \in 1 .. Len(s)
    PROVE  /\ N!RemoveAt(s, n) \in Seq(S) /\ Len(N!RemoveAt(s, n)) = Len(s) - 1
           /\ \A i \in 1 .. n - 1 : N!RemoveAt(s, n)[i] = s[i]
           /\ \A i \in n .. Len(s) - 1 : N!RemoveAt(s, n)[i] = s[i + 1]
<1> DEFINE low == SubSeq(s, 1, n - 1)
           high == SubSeq(s, n + 1, Len(s))
<1>1. Len(s) \in Nat /\ \A i \in 1 .. Len(s) : s[i] \in S
  OBVIOUS
<1>2. /\ low \in Seq(S) /\ Len(low) = n - 1
      /\ \A i \in 1 .. n - 1 : low[i] = s[i]
  BY <1>1, SubSeqProperties
<1>3. /\ high \in Seq(S) /\ Len(high) = Len(s) - n
      /\ \A i \in 1 .. Len(s) - n : high[i] = s[n + i]
  BY <1>1, SubSeqProperties
<1> HIDE DEF low, high
<1>4. /\ low \o high \in Seq(S) /\ Len(low \o high) = Len(s) - 1
      /\ \A i \in 1 .. Len(s) - 1 :
            (low \o high)[i] = IF i <= n - 1 THEN low[i] ELSE high[i - (n - 1)]
  <2>1. /\ low \o high \in Seq(S)
        /\ Len(low \o high) = Len(low) + Len(high)
        /\ \A i \in 1 .. Len(low) + Len(high) :
              (low \o high)[i] = IF i <= Len(low) THEN low[i] ELSE high[i - Len(low)]
    BY <1>2, <1>3, ConcatProperties
  <2>2. Len(low) = n - 1 /\ Len(low) + Len(high) = Len(s) - 1
    BY <1>1, <1>2, <1>3
  <2> QED BY <2>1, <2>2
<1>5. N!RemoveAt(s, n) = low \o high
  BY DEF N!RemoveAt, low, high
<1>6. \A i \in 1 .. n - 1 : (low \o high)[i] = s[i]
  BY <1>1, <1>2, <1>4
<1>7. \A i \in n .. Len(s) - 1 : (low \o high)[i] = s[i + 1]
  BY <1>1, <1>3, <1>4
<1> QED BY <1>4, <1>5, <1>6, <1>7

-----------------------------------------------------------------------------
(* with_time: a call begins and returns                                    *)

\* with_time at the start of a call lends the driver.
LEMMA BeginKeeps ==
    ASSUME NestingInv, NEW r \in Runtimes, NEW kind \in Kinds, N!Begin(r, kind),
           unwound' = unwound
    PROVE  /\ stack' \in Seq(Frames) /\ Len(stack') = Len(stack) + 1
           /\ \A i \in 1 .. Len(stack) : stack'[i] = stack[i]
           /\ stack'[Len(stack) + 1].rt = r /\ stack'[Len(stack) + 1].kind = kind
           /\ slot' \in [Runtimes -> Runtimes \cup {None}]
           /\ tls' \in Runtimes \cup {None}
           /\ DriversLinked'
<1> DEFINE f == [rt |-> r, kind |-> kind, own |-> slot[r] # None, saved |-> tls]
           n == Len(stack) + 1
<1>1. /\ stack' = Append(stack, f) /\ f \in Frames /\ ~unwound
      /\ stack \in Seq(Frames) /\ n \in Nat
  BY DEF N!Begin, N!MayCall, NestingInv, NestingTypes, N!TypeOK, Frames
<1>2. /\ stack' \in Seq(Frames) /\ Len(stack') = n
      /\ stack'[n] = f
      /\ \A i \in 1 .. Len(stack) : stack'[i] = stack[i]
  BY <1>1, Pushed
<1>3. /\ slot' \in [Runtimes -> Runtimes \cup {None}]
      /\ tls' \in Runtimes \cup {None}
  BY DEF N!Begin, NestingInv, NestingTypes, N!TypeOK
<1>4. N!Owners' = IF slot[r] # None THEN N!Owners \cup {n} ELSE N!Owners
  <2>1. DOMAIN stack = 1 .. Len(stack) /\ DOMAIN stack' = 1 .. n
    BY <1>1, <1>2
  <2>2. stack'[n].own = (slot[r] # None)
    BY <1>2
  <2>3. \A i \in 1 .. Len(stack) : stack'[i].own = stack[i].own
    BY <1>2
  <2>4. 1 .. n = (1 .. Len(stack)) \cup {n}
    BY <1>1
  <2> QED BY <2>1, <2>2, <2>3, <2>4 DEF N!Owners
<1>5. \A i \in N!Owners : i \in 1 .. Len(stack) /\ stack'[i] = stack[i]
  BY <1>1, <1>2 DEF N!Owners
<1>6. CASE slot[r] = None
  <2>1. slot' = slot /\ tls' = tls /\ N!Owners' = N!Owners
    BY <1>4, <1>6 DEF N!Begin, NestingInv, NestingTypes, N!TypeOK
  <2>2. DriversLinked'
    BY <1>1, <1>2, <1>5, <2>1 DEF NestingInv, DriversLinked, LeftBelow
  <2> QED BY <1>2, <1>3, <2>2
<1>7. CASE slot[r] # None
  <2>1. /\ slot' = [slot EXCEPT ![r] = None] /\ tls' = slot[r]
        /\ N!Owners' = N!Owners \cup {n}
    BY <1>4, <1>7 DEF N!Begin
  <2>2. slot[r] = r /\ ~\E i \in N!Owners : stack[i].rt = r
    BY <1>1, <1>7 DEF NestingInv, DriversLinked
  <2>3. \A q \in Runtimes :
           slot'[q] = IF \E i \in N!Owners' : stack'[i].rt = q THEN None ELSE q
    BY <1>1, <1>2, <1>5, <2>1, <2>2 DEF NestingInv, DriversLinked, NestingTypes, N!TypeOK
  <2>4. \A i, j \in N!Owners' : stack'[i].rt = stack'[j].rt => i = j
    BY <1>1, <1>2, <1>5, <2>1, <2>2 DEF NestingInv, DriversLinked
  <2>5. LeftBelow(tls, n) /\ \A i \in N!Owners : LeftBelow(stack[i].saved, i)
    BY <1>1 DEF NestingInv, DriversLinked
  <2>6. LeftBelow(tls, Len(stack) + 1)'
    BY <1>1, <1>2, <1>5, <2>1, <2>2 DEF LeftBelow
  <2>7. \A i \in N!Owners' : LeftBelow(stack[i].saved, i)'
    BY <1>1, <1>2, <1>5, <2>1, <2>5 DEF LeftBelow
  <2> QED BY <1>2, <1>3, <2>3, <2>4, <2>6, <2>7 DEF DriversLinked
<1> QED BY <1>6, <1>7

\* At its end the driver it lent goes back, and so does the one it displaced.
LEMMA RestoreKeeps ==
    ASSUME NestingInv, stack # <<>>, N!Restore(N!Top), stack' = N!Front(stack),
           unwound' = unwound
    PROVE  /\ slot' \in [Runtimes -> Runtimes \cup {None}]
           /\ tls' \in Runtimes \cup {None}
           /\ DriversLinked'
<1> DEFINE n == Len(stack)
<1>1. /\ stack \in Seq(Frames)
      /\ slot \in [Runtimes -> Runtimes \cup {None}] /\ tls \in Runtimes \cup {None}
  BY DEF NestingInv, NestingTypes, N!TypeOK
<1>2. /\ stack' \in Seq(Frames) /\ Len(stack') = n - 1 /\ n \in Nat \ {0}
      /\ N!Top = stack[n] /\ stack[n] \in Frames
      /\ \A i \in 1 .. n - 1 : stack'[i] = stack[i]
  BY <1>1, Popped DEF N!Top
<1>3. /\ slot' \in [Runtimes -> Runtimes \cup {None}]
      /\ tls' \in Runtimes \cup {None}
  BY <1>1, <1>2 DEF N!Restore, Frames
<1>4. N!Owners' = N!Owners \ {n}
  <2>1. DOMAIN stack = 1 .. n /\ DOMAIN stack' = 1 .. n - 1
    BY <1>1, <1>2
  <2>2. 1 .. n - 1 = (1 .. n) \ {n}
    BY <1>2
  <2>3. \A i \in 1 .. n - 1 : stack'[i].own = stack[i].own
    BY <1>2
  <2> QED BY <2>1, <2>2, <2>3 DEF N!Owners
<1>5. \A i \in N!Owners : i \in 1 .. n
  BY <1>1 DEF N!Owners
<1>6. \A i \in N!Owners' : i \in 1 .. n - 1 /\ i \in N!Owners /\ stack'[i] = stack[i]
  BY <1>2, <1>4, <1>5
<1>7. ASSUME ~unwound, N!Top.own
      PROVE  DriversLinked'
  <2>1. n \in N!Owners
    BY <1>1, <1>2, <1>7 DEF N!Owners
  <2>2. /\ \A r \in Runtimes :
              slot[r] = IF \E i \in N!Owners : stack[i].rt = r THEN None ELSE r
        /\ \A i, j \in N!Owners : stack[i].rt = stack[j].rt => i = j
        /\ LeftBelow(tls, n + 1)
        /\ \A i \in N!Owners : LeftBelow(stack[i].saved, i)
    BY <1>7 DEF NestingInv, DriversLinked
  <2>3. tls = stack[n].rt
    BY <1>2, <1>5, <2>1, <2>2 DEF LeftBelow
  <2>4. slot' = [slot EXCEPT ![stack[n].rt] = stack[n].rt] /\ tls' = stack[n].saved
    BY <1>2, <1>7, <2>3 DEF N!Restore
  <2>5. \A r \in Runtimes :
           slot'[r] = IF \E i \in N!Owners' : stack'[i].rt = r THEN None ELSE r
    BY <1>1, <1>4, <1>6, <2>1, <2>2, <2>4
  <2>6. \A i, j \in N!Owners' : stack'[i].rt = stack'[j].rt => i = j
    BY <1>6, <2>2
  <2>7. LeftBelow(tls, Len(stack) + 1)'
    <3>1. LeftBelow(stack[n].saved, n)
      BY <2>1, <2>2
    <3> QED BY <1>2, <1>4, <1>6, <2>4, <3>1 DEF LeftBelow
  <2>8. ASSUME NEW i \in N!Owners' PROVE LeftBelow(stack[i].saved, i)'
    <3>1. i \in N!Owners /\ i \in 1 .. n - 1 /\ stack'[i] = stack[i]
      BY <1>6
    <3>2. LeftBelow(stack[i].saved, i)
      BY <2>2, <3>1
    <3>3. \A j \in N!Owners' : j \in N!Owners /\ stack'[j] = stack[j]
      BY <1>6
    <3>4. \A j \in N!Owners : j < i => j \in N!Owners'
      BY <1>2, <1>4, <3>1
    <3>5. CASE stack[i].saved = None /\ \A j \in N!Owners : j >= i
      BY <3>1, <3>3, <3>5 DEF LeftBelow
    <3>6. CASE \E k \in N!Owners : /\ k < i /\ stack[i].saved = stack[k].rt
                                  /\ \A j \in N!Owners : j < i => j <= k
      BY <3>1, <3>3, <3>4, <3>6 DEF LeftBelow
    <3> QED BY <3>2, <3>5, <3>6 DEF LeftBelow
  <2> QED BY <2>5, <2>6, <2>7, <2>8 DEF DriversLinked
<1>8. ASSUME ~unwound, ~N!Top.own
      PROVE  DriversLinked'
  <2>1. N!Owners' = N!Owners /\ slot' = slot /\ tls' = tls
    BY <1>2, <1>4, <1>8 DEF N!Owners, N!Restore
  <2>2. LeftBelow(tls, n + 1) /\ \A i \in N!Owners : LeftBelow(stack[i].saved, i)
    BY <1>8 DEF NestingInv, DriversLinked
  <2>3. LeftBelow(tls, Len(stack) + 1)'
    BY <1>2, <1>6, <2>1, <2>2 DEF LeftBelow
  <2>4. \A i \in N!Owners' : LeftBelow(stack[i].saved, i)'
    BY <1>6, <2>1, <2>2 DEF LeftBelow
  <2> QED BY <1>6, <1>8, <2>1, <2>3, <2>4 DEF NestingInv, DriversLinked
<1>9. unwound => DriversLinked'
  BY DEF DriversLinked
<1> QED BY <1>3, <1>7, <1>8, <1>9

-----------------------------------------------------------------------------
(* enter and the EnterGuard                                                *)

\* A guard keeps what was in the context.
LEMMA EnterKeeps ==
    ASSUME NestingInv, NEW r \in Runtimes, NEW d \in Nat, N!Enter(r, d),
           shuffled' = shuffled
    PROVE  /\ guards' \in Seq(Guards) /\ context' \in Runtimes \cup {None}
           /\ Len(guards') = Len(guards) + 1 /\ guards'[Len(guards) + 1].depth = d
           /\ \A k \in 1 .. Len(guards) : guards'[k] = guards[k]
           /\ GuardsLinked'
<1> DEFINE g == [rt |-> r, old |-> context, depth |-> d]
           n == Len(guards) + 1
<1>1. /\ guards \in Seq(Guards) /\ g \in Guards /\ n \in Nat \ {0}
      /\ guards' = Append(guards, g) /\ context' = r
  BY DEF N!Enter, NestingInv, NestingTypes, N!TypeOK, Guards
<1>2. /\ guards' \in Seq(Guards) /\ Len(guards') = n /\ guards'[n] = g
      /\ \A k \in 1 .. Len(guards) : guards'[k] = guards[k]
  BY <1>1, Pushed
<1>3. ASSUME ~shuffled
      PROVE  \A k \in 1 .. n :
                guards'[k].old = IF k = 1 THEN None ELSE guards'[k - 1].rt
  <2>1. guards'[n].old = IF n = 1 THEN None ELSE guards'[n - 1].rt
    BY <1>1, <1>2, <1>3 DEF NestingInv, GuardsLinked
  <2>2. \A k \in 1 .. Len(guards) :
           guards'[k].old = IF k = 1 THEN None ELSE guards'[k - 1].rt
    BY <1>1, <1>2, <1>3 DEF NestingInv, GuardsLinked
  <2> QED BY <1>1, <2>1, <2>2
<1>4. GuardsLinked'
  BY <1>1, <1>2, <1>3 DEF GuardsLinked
<1> QED BY <1>1, <1>2, <1>4

\* The youngest guard puts back what the next one stands for; an older one that
\* goes first is remembered in shuffled.
LEMMA LeaveKeeps ==
    ASSUME NestingInv, NEW n \in 1 .. Len(guards), N!Leave(n)
    PROVE  /\ guards' \in Seq(Guards) /\ context' \in Runtimes \cup {None}
           /\ shuffled' \in BOOLEAN
           /\ \A k \in 1 .. Len(guards) :
                 k # n => \E l \in 1 .. Len(guards') : guards'[l] = guards[k]
           /\ GuardsLinked'
<1>1. /\ guards \in Seq(Guards) /\ shuffled \in BOOLEAN /\ Len(guards) \in Nat
      /\ guards' = N!RemoveAt(guards, n) /\ context' = guards[n].old
      /\ shuffled' = (shuffled \/ n < Len(guards))
  BY DEF N!Leave, NestingInv, NestingTypes, N!TypeOK
<1>2. /\ guards' \in Seq(Guards) /\ Len(guards') = Len(guards) - 1
      /\ \A i \in 1 .. n - 1 : guards'[i] = guards[i]
      /\ \A i \in n .. Len(guards) - 1 : guards'[i] = guards[i + 1]
  BY <1>1, Removed
<1>3. context' \in Runtimes \cup {None} /\ shuffled' \in BOOLEAN
  <2>1. guards[n] \in Guards
    BY <1>1
  <2> QED BY <1>1, <2>1 DEF Guards
<1>4. ASSUME NEW k \in 1 .. Len(guards), k # n
      PROVE  \E l \in 1 .. Len(guards') : guards'[l] = guards[k]
  <2>1. CASE k < n
    BY <1>1, <1>2, <2>1
  <2>2. CASE k > n
    <3>1. k - 1 \in n .. Len(guards) - 1 /\ (k - 1) + 1 = k
      BY <1>1, <2>2
    <3>2. k - 1 \in 1 .. Len(guards') /\ guards'[k - 1] = guards[k]
      BY <1>1, <1>2, <3>1
    <3> QED BY <3>2
  <2> QED BY <1>1, <1>4, <2>1, <2>2
<1>5. GuardsLinked'
  <2> SUFFICES ASSUME ~shuffled'
               PROVE  /\ context' = IF Len(guards') = 0 THEN None
                                    ELSE guards'[Len(guards')].rt
                      /\ \A k \in 1 .. Len(guards') :
                            guards'[k].old = IF k = 1 THEN None ELSE guards'[k - 1].rt
    BY DEF GuardsLinked
  <2>1. ~shuffled /\ ~(n < Len(guards))
    BY <1>1, Zenon
  <2>2. n = Len(guards)
    BY <1>1, <2>1
  <2>3. \A k \in 1 .. Len(guards) :
           guards[k].old = IF k = 1 THEN None ELSE guards[k - 1].rt
    BY <2>1 DEF NestingInv, GuardsLinked
  <2>4. /\ Len(guards') \in Nat /\ Len(guards') = n - 1
        /\ \A i \in 1 .. Len(guards') : guards'[i] = guards[i]
    BY <1>1, <1>2, <2>2
  <2>5. ASSUME NEW k \in 1 .. Len(guards')
        PROVE  guards'[k].old = IF k = 1 THEN None ELSE guards'[k - 1].rt
    <3>1. k \in 1 .. Len(guards) /\ guards'[k] = guards[k]
      BY <1>1, <2>2, <2>4
    <3>2. k # 1 => guards'[k - 1] = guards[k - 1]
      BY <1>1, <2>4
    <3> QED BY <2>3, <3>1, <3>2
  <2>6. n = 1 => Len(guards') = 0 /\ context' = None
    BY <1>1, <2>3, <2>4
  <2>7. n # 1 => Len(guards') # 0 /\ context' = guards'[Len(guards')].rt
    <3>1. n # 1 => n - 1 \in 1 .. Len(guards')
      BY <1>1, <2>2, <2>4
    <3> QED BY <1>1, <2>3, <2>4, <3>1
  <2> QED BY <2>5, <2>6, <2>7
<1> QED BY <1>2, <1>3, <1>4, <1>5

\* The end of a call, returned from or unwound.
LEMMA LoopEndsKeeps ==
    ASSUME NestingInv, stack # <<>>, N!LoopEnds(N!Top), stack' = N!Front(stack)
    PROVE  /\ stack' \in Seq(Frames) /\ N!Top \in Frames
           /\ Len(stack) \in Nat \ {0} /\ Len(stack') = Len(stack) - 1
           /\ N!Top = stack[Len(stack)]
           /\ \A i \in 1 .. Len(stack) - 1 : stack'[i] = stack[i]
           /\ guards' \in Seq(Guards) /\ context' \in Runtimes \cup {None}
           /\ shuffled' \in BOOLEAN /\ entered' \in BOOLEAN
           /\ LoopsGuarded' /\ GuardsLinked' /\ N!OneLoop'
<1> DEFINE n == Len(stack)
<1>1. /\ stack \in Seq(Frames) /\ guards \in Seq(Guards) /\ entered \in BOOLEAN
      /\ context \in Runtimes \cup {None} /\ shuffled \in BOOLEAN
  BY DEF NestingInv, NestingTypes, N!TypeOK
<1>2. /\ stack' \in Seq(Frames) /\ Len(stack') = n - 1 /\ n \in Nat \ {0}
      /\ N!Top = stack[n] /\ stack[n] \in Frames
      /\ \A i \in 1 .. n - 1 : stack'[i] = stack[i]
  BY <1>1, Popped DEF N!Top
<1>3. DOMAIN stack = 1 .. n /\ DOMAIN stack' = 1 .. n - 1
  BY <1>1, <1>2
<1>4. /\ entered' = IF N!Top.kind \in N!Loops THEN FALSE ELSE entered
      /\ entered' \in BOOLEAN
  BY <1>1 DEF N!LoopEnds
<1>5. N!OneLoop'
  <2>1. /\ entered <=> \E i \in 1 .. n : stack[i].kind \in N!Loops
        /\ \A i, j \in 1 .. n :
              stack[i].kind \in N!Loops /\ stack[j].kind \in N!Loops => i = j
    BY <1>3 DEF NestingInv, N!OneLoop
  <2>2. entered' <=> \E i \in 1 .. n - 1 : stack'[i].kind \in N!Loops
    <3>1. CASE N!Top.kind \in N!Loops
      BY <1>2, <1>4, <2>1, <3>1
    <3>2. CASE N!Top.kind \notin N!Loops
      BY <1>2, <1>4, <2>1, <3>2
    <3> QED BY <3>1, <3>2
  <2>3. \A i, j \in 1 .. n - 1 :
           stack'[i].kind \in N!Loops /\ stack'[j].kind \in N!Loops => i = j
    BY <1>2, <2>1
  <2> QED BY <1>3, <2>2, <2>3 DEF N!OneLoop
<1>6. CASE N!Top.kind = "block"
  <2>1. \E k \in 1 .. Len(guards) : N!Leave(k)
    <3>1. \E k \in 1 .. Len(guards) : guards[k].depth = n
      BY <1>2, <1>6 DEF NestingInv, LoopsGuarded
    <3>2. DOMAIN guards = 1 .. Len(guards)
      BY <1>1
    <3>3. N!GuardOf(N!Depth) \in 1 .. Len(guards)
      BY <3>1, <3>2 DEF N!GuardOf, N!Depth
    <3> QED BY <1>6, <3>3 DEF N!LoopEnds
  <2>2. \A i \in 1 .. n - 1 : stack'[i].kind # "block"
    BY <1>2, <1>3, <1>6 DEF NestingInv, N!OneLoop, N!Loops
  <2>3. LoopsGuarded'
    BY <1>2, <2>2 DEF LoopsGuarded
  <2> QED BY <1>2, <1>4, <1>5, <2>1, <2>3, LeaveKeeps
<1>7. CASE N!Top.kind # "block"
  <2>1. UNCHANGED <<context, guards, shuffled>>
    BY <1>7 DEF N!LoopEnds
  <2>2. LoopsGuarded'
    BY <1>2, <2>1 DEF NestingInv, LoopsGuarded
  <2>3. GuardsLinked'
    BY <2>1 DEF NestingInv, GuardsLinked
  <2> QED BY <1>1, <1>2, <1>4, <1>5, <2>1, <2>2, <2>3
<1> QED BY <1>6, <1>7

-----------------------------------------------------------------------------
(* The steps                                                               *)

\* A thread that has entered no runtime.
LEMMA NestingInit == N!Init => NestingInv
<1> SUFFICES ASSUME N!Init
             PROVE  NestingInv
  OBVIOUS
<1>1. /\ stack = <<>> /\ guards = <<>> /\ Len(stack) = 0 /\ Len(guards) = 0
      /\ DOMAIN stack = {} /\ N!Owners = {}
  BY DEF N!Init, N!Owners
<1>2. NestingTypes
  <2>1. N!TypeOK
    BY RuntimeAssumption DEF N!Init, N!TypeOK
  <2>2. stack \in Seq(Frames) /\ guards \in Seq(Guards)
    BY <1>1
  <2> QED BY <2>1, <2>2 DEF NestingTypes
<1>3. LoopsGuarded /\ GuardsLinked
  BY <1>1 DEF N!Init, LoopsGuarded, GuardsLinked
<1>4. DriversLinked
  BY <1>1 DEF N!Init, DriversLinked, LeftBelow
<1>5. N!CorePlacedBack /\ N!OneLoop
  BY <1>1 DEF N!Init, N!CorePlacedBack, N!OneLoop
<1> QED BY <1>2, <1>3, <1>4, <1>5 DEF NestingInv

\* spawn, take_timestep, next_wakeup; poll_until_deadlock; block_on
LEMMA CallKeeps ==
    ASSUME NestingInv, NEW r \in Runtimes, N!Short(r) \/ N!Poll(r) \/ N!BlockOn(r)
    PROVE  NestingInv'
<1> DEFINE n == Len(stack) + 1
<1>1. PICK kind \in Kinds :
        /\ N!Begin(r, kind)
        /\ UNCHANGED <<alive, unwound, shuffled>>
        /\ kind = "short" => UNCHANGED <<core, entered>>
        /\ kind # "short" => /\ core[r] /\ core' = [core EXCEPT ![r] = FALSE]
                             /\ ~entered /\ entered' = TRUE
        /\ IF kind = "block" THEN N!Enter(r, N!Depth + 1) ELSE UNCHANGED <<context, guards>>
  <2>1. CASE N!Short(r)
    BY <2>1 DEF N!Short, Kinds
  <2>2. CASE N!Poll(r)
    BY <2>2 DEF N!Poll, Kinds, N!try_enter
  <2>3. CASE N!BlockOn(r)
    BY <2>3 DEF N!BlockOn, Kinds, N!try_enter
  <2> QED BY <2>1, <2>2, <2>3
<1>2. /\ N!TypeOK /\ stack \in Seq(Frames) /\ guards \in Seq(Guards)
      /\ DOMAIN stack = 1 .. Len(stack) /\ Len(stack) \in Nat /\ Len(guards) \in Nat
  BY DEF NestingInv, NestingTypes
<1>3. /\ stack' \in Seq(Frames) /\ Len(stack') = n /\ DOMAIN stack' = 1 .. n
      /\ stack'[n].rt = r /\ stack'[n].kind = kind
      /\ \A i \in 1 .. Len(stack) : stack'[i] = stack[i]
      /\ slot' \in [Runtimes -> Runtimes \cup {None}] /\ tls' \in Runtimes \cup {None}
      /\ DriversLinked'
  BY <1>1, <1>2, BeginKeeps
<1>4. /\ guards' \in Seq(Guards) /\ context' \in Runtimes \cup {None} /\ GuardsLinked'
      /\ \A k \in 1 .. Len(guards) : k \in 1 .. Len(guards') /\ guards'[k] = guards[k]
      /\ kind = "block" => \E k \in 1 .. Len(guards') : guards'[k].depth = n
  <2>1. CASE kind = "block"
    <3>1. PICK d \in Nat : d = n
      BY <1>2
    <3>2. N!Enter(r, d)
      BY <1>1, <2>1, <3>1 DEF N!Depth
    <3> QED BY <1>1, <1>2, <3>1, <3>2, EnterKeeps
  <2>2. CASE kind # "block"
    BY <1>1, <1>2, <2>2 DEF NestingInv, GuardsLinked, N!TypeOK
  <2> QED BY <2>1, <2>2
<1>5. NestingTypes'
  BY <1>1, <1>2, <1>3, <1>4 DEF NestingTypes, N!TypeOK
<1>6. LoopsGuarded'
  <2>1. ASSUME NEW i \in 1 .. Len(stack), stack'[i].kind = "block"
        PROVE  \E k \in 1 .. Len(guards') : guards'[k].depth = i
    <3>1. PICK k \in 1 .. Len(guards) : guards[k].depth = i
      BY <1>3, <2>1 DEF NestingInv, LoopsGuarded
    <3> QED BY <1>4, <3>1
  <2>2. 1 .. n = (1 .. Len(stack)) \cup {n}
    BY <1>2
  <2> QED BY <1>3, <1>4, <2>1, <2>2 DEF LoopsGuarded
<1>7. N!CorePlacedBack' /\ N!OneLoop'
  <2>1. kind # "short" <=> kind \in N!Loops
    BY DEF Kinds, N!Loops
  <2>2. 1 .. n = (1 .. Len(stack)) \cup {n}
    BY <1>2
  <2>3. ASSUME NEW q \in Runtimes, ~unwound
        PROVE  core'[q] <=> ~\E i \in 1 .. n : stack'[i].rt = q /\ stack'[i].kind \in N!Loops
    <3>1. core[q] <=> ~\E i \in 1 .. Len(stack) : stack[i].rt = q /\ stack[i].kind \in N!Loops
      BY <1>2, <2>3 DEF NestingInv, N!CorePlacedBack
    <3>2. core'[q] = IF kind # "short" /\ q = r THEN FALSE ELSE core[q]
      BY <1>1, <1>2 DEF N!TypeOK
    <3> QED BY <1>3, <2>1, <2>2, <3>1, <3>2
  <2>4. N!CorePlacedBack'
    BY <1>1, <1>3, <2>3 DEF N!CorePlacedBack
  <2>5. N!OneLoop'
    <3>1. /\ entered <=> \E i \in 1 .. Len(stack) : stack[i].kind \in N!Loops
          /\ \A i, j \in 1 .. Len(stack) :
                stack[i].kind \in N!Loops /\ stack[j].kind \in N!Loops => i = j
      BY <1>2 DEF NestingInv, N!OneLoop
    <3>2. entered' <=> entered \/ kind \in N!Loops
      BY <1>1, <2>1
    <3>3. (\E i \in 1 .. n : stack'[i].kind \in N!Loops)
            <=> (\E i \in 1 .. Len(stack) : stack[i].kind \in N!Loops) \/ kind \in N!Loops
      BY <1>3, <2>2
    <3>4. ASSUME NEW i \in 1 .. n, NEW j \in 1 .. n,
                 stack'[i].kind \in N!Loops, stack'[j].kind \in N!Loops
          PROVE  i = j
      <4>1. kind \in N!Loops => ~entered
        BY <1>1, <2>1
      <4> QED BY <1>3, <2>2, <3>1, <3>4, <4>1
    <3> QED BY <1>3, <3>1, <3>2, <3>3, <3>4 DEF N!OneLoop
  <2> QED BY <2>4, <2>5
<1> QED BY <1>3, <1>4, <1>5, <1>6, <1>7 DEF NestingInv

\* A loop that is refused within another one takes the driver and the Core along,
\* if they were there.
LEMMA RefusedKeeps ==
    ASSUME NestingInv, NEW r \in Runtimes, N!Refused(r)
    PROVE  NestingInv'
<1>1. N!TypeOK
  BY DEF NestingInv, NestingTypes
<1>2. NestingTypes'
  BY <1>1 DEF N!Refused, NestingInv, NestingTypes, N!TypeOK
<1>3. LoopsGuarded' /\ GuardsLinked' /\ N!OneLoop'
  BY DEF N!Refused, NestingInv, LoopsGuarded, GuardsLinked, N!OneLoop
<1>4. CASE core[r] \/ slot[r] # None
  BY <1>2, <1>3, <1>4
     DEF N!Refused, NestingInv, DriversLinked, N!CorePlacedBack
<1>5. CASE ~core[r] /\ slot[r] = None
  <2>1. UNCHANGED <<core, slot, tls, stack>> /\ ~unwound
    BY <1>1, <1>5 DEF N!Refused, N!TypeOK
  <2> QED BY <1>2, <1>3, <2>1
          DEF NestingInv, DriversLinked, LeftBelow, N!Owners, N!CorePlacedBack
<1> QED BY <1>4, <1>5

\* Handle::enter, its guard, and the drop of a runtime
LEMMA GuardKeeps ==
    ASSUME NestingInv,
           N!DropGuard \/ \E r \in Runtimes : N!EnterHandle(r) \/ N!DropRuntime(r)
    PROVE  NestingInv'
<1>1. /\ N!TypeOK /\ guards \in Seq(Guards) /\ stack \in Seq(Frames)
      /\ DOMAIN guards = 1 .. Len(guards) /\ Len(guards) \in Nat
  BY DEF NestingInv, NestingTypes
<1>2. ASSUME UNCHANGED <<slot, core, tls, entered, stack, unwound>>
      PROVE  DriversLinked' /\ N!CorePlacedBack' /\ N!OneLoop'
  BY <1>2 DEF NestingInv, DriversLinked, LeftBelow, N!Owners, N!CorePlacedBack, N!OneLoop
<1>3. ASSUME NEW r \in Runtimes, N!EnterHandle(r)
      PROVE  NestingInv'
  <2>1. /\ guards' \in Seq(Guards) /\ context' \in Runtimes \cup {None}
        /\ Len(guards') = Len(guards) + 1 /\ GuardsLinked'
        /\ \A k \in 1 .. Len(guards) : guards'[k] = guards[k]
    BY <1>3, EnterKeeps DEF N!EnterHandle
  <2>2. NestingTypes'
    BY <1>1, <1>3, <2>1 DEF N!EnterHandle, NestingTypes, N!TypeOK
  <2>3. LoopsGuarded'
    <3>1. stack' = stack
      BY <1>3 DEF N!EnterHandle
    <3>2. \A k \in 1 .. Len(guards) : k \in 1 .. Len(guards')
      BY <1>1, <2>1
    <3> QED BY <2>1, <3>1, <3>2 DEF NestingInv, LoopsGuarded
  <2> QED BY <1>2, <1>3, <2>1, <2>2, <2>3 DEF N!EnterHandle, NestingInv
<1>4. CASE N!DropGuard
  <2>1. PICK n \in 1 .. Len(guards) : guards[n].depth = 0 /\ N!Leave(n)
    BY <1>1, <1>4 DEF N!DropGuard
  <2>2. /\ guards' \in Seq(Guards) /\ context' \in Runtimes \cup {None}
        /\ shuffled' \in BOOLEAN /\ GuardsLinked'
        /\ \A k \in 1 .. Len(guards) :
              k # n => \E l \in 1 .. Len(guards') : guards'[l] = guards[k]
    BY <2>1, LeaveKeeps
  <2>3. NestingTypes'
    BY <1>1, <1>4, <2>2 DEF N!DropGuard, NestingTypes, N!TypeOK
  <2>4. LoopsGuarded'
    <3>1. stack' = stack
      BY <1>4 DEF N!DropGuard
    <3>2. ASSUME NEW i \in 1 .. Len(stack), stack[i].kind = "block"
          PROVE  \E l \in 1 .. Len(guards') : guards'[l].depth = i
      <4>1. PICK k \in 1 .. Len(guards) : guards[k].depth = i
        BY <3>2 DEF NestingInv, LoopsGuarded
      <4>2. k # n
        BY <1>1, <2>1, <4>1
      <4> QED BY <2>2, <4>1, <4>2
    <3> QED BY <3>1, <3>2 DEF LoopsGuarded
  <2> QED BY <1>2, <1>4, <2>2, <2>3, <2>4 DEF N!DropGuard, NestingInv
<1>5. ASSUME NEW r \in Runtimes, N!DropRuntime(r)
      PROVE  NestingInv'
  <2>1. NestingTypes' /\ LoopsGuarded' /\ GuardsLinked'
    BY <1>1, <1>5 DEF N!DropRuntime, N!thread, NestingInv, NestingTypes, N!TypeOK,
                      LoopsGuarded, GuardsLinked
  <2> QED BY <1>2, <1>5, <2>1 DEF N!DropRuntime, N!thread, NestingInv
<1> QED BY <1>3, <1>4, <1>5

\* A call ends: everything is put back by a return, and but for the loop's own
\* guards nothing by a panic.
LEMMA EndKeeps ==
    ASSUME NestingInv, N!Return \/ N!Unwind
    PROVE  NestingInv'
<1> DEFINE n == Len(stack)
<1>1. stack # <<>> /\ N!LoopEnds(N!Top) /\ stack' = N!Front(stack) /\ alive' = alive
  BY DEF N!Return, N!Unwind
<1>2. /\ stack' \in Seq(Frames) /\ N!Top \in Frames
      /\ n \in Nat \ {0} /\ Len(stack') = n - 1 /\ N!Top = stack[n]
      /\ \A i \in 1 .. n - 1 : stack'[i] = stack[i]
      /\ guards' \in Seq(Guards) /\ context' \in Runtimes \cup {None}
      /\ shuffled' \in BOOLEAN /\ entered' \in BOOLEAN
      /\ LoopsGuarded' /\ GuardsLinked' /\ N!OneLoop'
  BY <1>1, LoopEndsKeeps
<1>3. /\ N!TypeOK /\ DOMAIN stack = 1 .. n /\ DOMAIN stack' = 1 .. n - 1
  BY <1>2 DEF NestingInv, NestingTypes
<1>4. CASE N!Return
  <2>1. /\ slot' \in [Runtimes -> Runtimes \cup {None}] /\ tls' \in Runtimes \cup {None}
        /\ DriversLinked'
    BY <1>1, <1>4, RestoreKeeps DEF N!Return
  <2>2. NestingTypes'
    BY <1>1, <1>2, <1>3, <1>4, <2>1 DEF N!Return, NestingTypes, N!TypeOK
  <2>3. N!CorePlacedBack'
    <3>1. CASE N!Top.kind \in N!Loops
      <4>1. core' = [core EXCEPT ![stack[n].rt] = TRUE] /\ unwound' = unwound
        BY <1>2, <1>4, <3>1 DEF N!Return
      <4>2. \A i \in 1 .. n - 1 : stack[i].kind \notin N!Loops
        BY <1>2, <1>3, <3>1 DEF NestingInv, N!OneLoop
      <4> QED BY <1>2, <1>3, <3>1, <4>1, <4>2 DEF NestingInv, N!CorePlacedBack, N!TypeOK
    <3>2. CASE N!Top.kind \notin N!Loops
      <4>1. core' = core /\ unwound' = unwound
        BY <1>4, <3>2 DEF N!Return
      <4> QED BY <1>2, <1>3, <3>2, <4>1 DEF NestingInv, N!CorePlacedBack
    <3> QED BY <3>1, <3>2
  <2> QED BY <1>2, <2>1, <2>2, <2>3 DEF NestingInv
<1>5. CASE N!Unwind
  <2>1. UNCHANGED <<slot, tls>> /\ core' \in [Runtimes -> BOOLEAN] /\ unwound' \in BOOLEAN
    BY <1>2, <1>3, <1>5 DEF N!Unwind, N!TypeOK, Frames
  <2>2. NestingTypes'
    BY <1>1, <1>2, <1>3, <2>1 DEF NestingTypes, N!TypeOK
  <2>3. CASE unwound'
    BY <1>2, <2>2, <2>3 DEF NestingInv, DriversLinked, N!CorePlacedBack
  <2>4. CASE ~unwound'
    <3>1. ~unwound /\ ~N!Top.own /\ N!Top.kind \notin N!Loops /\ core' = core
      BY <1>5, <2>4 DEF N!Unwind, N!Loops
    <3>2. N!Restore(N!Top) /\ unwound' = unwound
      BY <1>3, <2>1, <2>4, <3>1 DEF N!Restore, N!TypeOK
    <3>3. DriversLinked'
      BY <1>1, <3>2, RestoreKeeps
    <3>4. N!CorePlacedBack'
      BY <1>2, <1>3, <3>1 DEF NestingInv, N!CorePlacedBack
    <3> QED BY <1>2, <2>2, <3>3, <3>4 DEF NestingInv
  <2> QED BY <2>3, <2>4
<1> QED BY <1>4, <1>5

LEMMA NestingStep == NestingInv /\ [N!Next]_(N!vars) => NestingInv'
<1> SUFFICES ASSUME NestingInv, [N!Next]_(N!vars)
             PROVE  NestingInv'
  OBVIOUS
<1>1. CASE UNCHANGED N!vars
  <2>1. UNCHANGED <<alive, slot, core, tls, context, entered, stack, guards, unwound, shuffled>>
    BY <1>1 DEF N!vars, N!thread
  <2>2. (NestingTypes /\ LoopsGuarded /\ GuardsLinked)'
    BY <2>1 DEF NestingInv, NestingTypes, N!TypeOK, LoopsGuarded, GuardsLinked
  <2>3. DriversLinked'
    BY <2>1 DEF NestingInv, DriversLinked, LeftBelow, N!Owners
  <2>4. (N!CorePlacedBack /\ N!OneLoop)'
    BY <2>1 DEF NestingInv, N!CorePlacedBack, N!OneLoop
  <2> QED
    BY <2>2, <2>3, <2>4 DEF NestingInv
<1>2. CASE N!Gone
  BY <1>1, <1>2 DEF N!Gone
<1>3. ASSUME NEW r \in Runtimes,
             \/ N!Short(r) \/ N!Poll(r) \/ N!BlockOn(r) \/ N!Refused(r)
             \/ N!EnterHandle(r) \/ N!DropRuntime(r)
      PROVE  NestingInv'
  BY <1>3, CallKeeps, RefusedKeeps, GuardKeeps
<1>4. CASE N!DropGuard \/ N!Return \/ N!Unwind
  BY <1>4, GuardKeeps, EndKeeps
<1> QED BY <1>1, <1>2, <1>3, <1>4 DEF N!Next

\* The properties are what the links amount to.
LEMMA LinksSuffice == NestingInv => N!ThreadSound
<1> SUFFICES ASSUME NestingInv
             PROVE  N!ThreadSound
  OBVIOUS
<1>1. /\ stack \in Seq(Frames) /\ guards \in Seq(Guards)
      /\ Len(guards) \in Nat /\ Len(stack) \in Nat /\ N!Owners \subseteq 1 .. Len(stack)
  BY DEF NestingInv, NestingTypes, N!Owners
<1>2. DriversLinked /\ N!CorePlacedBack /\ N!OneLoop /\ GuardsLinked
  BY DEF NestingInv
<1> DEFINE youngest == CHOOSE i \in N!Owners : \A j \in N!Owners : j <= i
<1>3. (\E i \in N!Owners : \A j \in N!Owners : j <= i) =>
         youngest \in N!Owners /\ \A j \in N!Owners : j <= youngest
  OBVIOUS
<1> HIDE DEF youngest
<1>4. ASSUME ~unwound
      PROVE  tls = IF N!Owners = {} THEN None ELSE stack[youngest].rt
  <2>1. LeftBelow(tls, Len(stack) + 1)
    BY <1>2, <1>4 DEF DriversLinked
  <2>2. CASE N!Owners = {}
    BY <2>1, <2>2 DEF LeftBelow
  <2>3. CASE N!Owners # {}
    <3>1. \A j \in N!Owners : j \in Nat /\ j < Len(stack) + 1
      BY <1>1
    <3>2. PICK i \in N!Owners : tls = stack[i].rt /\ \A j \in N!Owners : j <= i
      <4>1. ~\A j \in N!Owners : j >= Len(stack) + 1
        <5>1. PICK i \in N!Owners : TRUE
          BY <2>3
        <5> QED BY <1>1, <3>1, <5>1
      <4>2. PICK i \in N!Owners :
               tls = stack[i].rt /\ \A j \in N!Owners : j < Len(stack) + 1 => j <= i
        BY <2>1, <4>1, Zenon DEF LeftBelow
      <4> QED BY <3>1, <4>2
    <3>3. youngest = i
      BY <1>3, <3>1, <3>2
    <3> QED BY <2>3, <3>2, <3>3
  <2> QED BY <2>2, <2>3
<1>5. N!DriverNotStolen
  BY <1>2, <1>4 DEF DriversLinked, N!DriverNotStolen, youngest
<1>6. N!SpawnsIntoLast
  <2>1. guards = <<>> <=> Len(guards) = 0
    BY <1>1
  <2> QED BY <1>1, <1>2, <2>1 DEF GuardsLinked, N!SpawnsIntoLast, N!Last
<1> QED BY <1>2, <1>5, <1>6 DEF N!ThreadSound

\* No runtime loses its driver to another, a Core is back whenever its loop is
\* not running, one loop runs on the thread, and osaka::spawn finds the runtime
\* entered last (with_time, take_core, enter, EnterGuard).
THEOREM ThreadIsSound == N!Spec => []ThreadSound
  BY NestingInit, NestingStep, LinksSuffice, PTL DEF N!Spec, ThreadSound

-----------------------------------------------------------------------------
(* Park                                                                    *)

\* Where the parker and the unparkers stand.
ParkerSpots == {"poll", "enter", "lock", "parking", "wait", "asleep", "check"}
UnparkerSpots == {"idle", "lock", "signal"}

\* The mutex is the parker's from the exchange to the sleep, and over the look
\* after it: an unpark that finds PARKED gets it only when the parker sleeps.
\* Then a notification that came meanwhile has somebody who will signal it.
ParkInv ==
    /\ state \in P!States
    /\ pc \in [Unparkers \cup {"parker"} -> ParkerSpots \cup UnparkerSpots]
    /\ pc["parker"] \in ParkerSpots
    /\ \A u \in Unparkers : pc[u] \in UnparkerSpots
    /\ pc["parker"] \in {"parking", "wait", "check"} => mutex = "parker"
    /\ asleep <=> pc["parker"] = "asleep"
    /\ P!ParkedExact
    /\ state = "NOTIFIED" /\ pc["parker"] = "wait" => \E u \in Unparkers : pc[u] = "lock"
    /\ state = "NOTIFIED" /\ asleep =>
          signaled \/ \E u \in Unparkers : pc[u] \in {"lock", "signal"}
    /\ owed => state = "NOTIFIED" \/ pc["parker"] = "poll"

\* Nobody is parked at first.
LEMMA ParkInit == P!Init => ParkInv
<1> SUFFICES ASSUME P!Init PROVE ParkInv
  OBVIOUS
<1>1. /\ pc \in [Unparkers \cup {"parker"} -> ParkerSpots \cup UnparkerSpots]
      /\ pc["parker"] = "poll" /\ \A u \in Unparkers : pc[u] = "idle"
  BY RuntimeAssumption DEF P!Init, P!Parker, ParkerSpots, UnparkerSpots
<1> QED
  BY <1>1 DEF P!Init, ParkInv, P!ParkedExact, P!Parker, P!States, ParkerSpots,
     UnparkerSpots

\* A move of one thread.
LEMMA ParkMoves ==
    ASSUME ParkInv, NEW p \in Unparkers \cup {"parker"}, NEW l, P!Goto(p, l),
           IF p = "parker" THEN l \in ParkerSpots ELSE l \in UnparkerSpots
    PROVE  /\ pc' \in [Unparkers \cup {"parker"} -> ParkerSpots \cup UnparkerSpots]
           /\ pc'["parker"] \in ParkerSpots
           /\ \A u \in Unparkers : pc'[u] \in UnparkerSpots
           /\ pc'[p] = l
           /\ \A q \in Unparkers \cup {"parker"} : q # p => pc'[q] = pc[q]
<1>1. pc' = [pc EXCEPT ![p] = l]
  BY DEF P!Goto
<1>2. l \in ParkerSpots \cup UnparkerSpots
  OBVIOUS
<1>3. /\ pc' \in [Unparkers \cup {"parker"} -> ParkerSpots \cup UnparkerSpots]
      /\ \A q \in Unparkers \cup {"parker"} : pc'[q] = IF q = p THEN l ELSE pc[q]
  BY <1>1, <1>2 DEF ParkInv
<1>4. "parker" \notin Unparkers
  BY RuntimeAssumption
<1> QED
  BY <1>3, <1>4 DEF ParkInv

\* The steps of the parker.
LEMMA ParkerKeeps ==
    ASSUME ParkInv, P!ParkerStep
    PROVE  ParkInv'
<1>0. "parker" \notin Unparkers /\ P!Parker = "parker" /\ "parker" # None
  BY RuntimeAssumption DEF P!Parker
<1>1. PICK l \in ParkerSpots : P!Goto("parker", l)
  BY <1>0 DEF P!ParkerStep, P!PollFuture, P!ConsumeEarly, P!NoWait, P!LockParker,
     P!SetParked, P!Sleep, P!Awaken, P!Check, ParkerSpots
<1>2. /\ pc' \in [Unparkers \cup {"parker"} -> ParkerSpots \cup UnparkerSpots]
      /\ pc'["parker"] = l /\ \A u \in Unparkers : pc'[u] = pc[u]
      /\ \A k : P!Goto("parker", k) => k = l
  BY <1>0, <1>1, ParkMoves DEF P!Goto, ParkInv
<1> USE <1>0, <1>2 DEF P!At, P!Condvar
<1>3. CASE P!PollFuture
  BY <1>3 DEF P!PollFuture, ParkInv, P!ParkedExact, ParkerSpots
<1>4. CASE P!ConsumeEarly
  BY <1>4 DEF P!ConsumeEarly, ParkInv, P!ParkedExact, P!States, ParkerSpots
<1>5. CASE P!NoWait
  BY <1>5 DEF P!NoWait, ParkInv, P!ParkedExact, ParkerSpots
<1>6. CASE P!LockParker
  BY <1>6 DEF P!LockParker, P!Acquire, ParkInv, P!ParkedExact, ParkerSpots
<1>7. CASE P!SetParked
  BY <1>7 DEF P!SetParked, P!Release, ParkInv, P!ParkedExact, P!States, ParkerSpots
<1>8. CASE P!Sleep
  BY <1>8 DEF P!Sleep, P!Release, ParkInv, P!ParkedExact, ParkerSpots
<1>9. CASE P!Awaken
  BY <1>9 DEF P!Awaken, P!Acquire, ParkInv, P!ParkedExact, ParkerSpots
<1>10. CASE P!Check
  BY <1>10 DEF P!Check, P!Release, ParkInv, P!ParkedExact, P!States, ParkerSpots
<1> QED
  BY <1>3, <1>4, <1>5, <1>6, <1>7, <1>8, <1>9, <1>10 DEF P!ParkerStep

\* The steps of unpark.
LEMMA UnparkerKeeps ==
    ASSUME ParkInv, NEW u \in Unparkers, P!Notify(u) \/ P!UnparkerStep(u)
    PROVE  ParkInv'
<1>0. u # "parker" /\ "parker" \notin Unparkers /\ P!Parker = "parker" /\ "parker" # None
  BY RuntimeAssumption DEF P!Parker
<1>1. PICK l \in UnparkerSpots : P!Goto(u, l)
  BY DEF P!Notify, P!UnparkerStep, P!LockUnlock, P!Signal, UnparkerSpots
<1>2. /\ pc' \in [Unparkers \cup {"parker"} -> ParkerSpots \cup UnparkerSpots]
      /\ \A v \in Unparkers : pc'[v] = IF v = u THEN l ELSE pc[v]
      /\ pc'["parker"] = pc["parker"]
      /\ \A k : P!Goto(u, k) => k = l
  BY <1>0, <1>1, ParkMoves DEF P!Goto, ParkInv
<1> USE <1>0, <1>2 DEF P!At, P!Condvar
<1>3. CASE P!Notify(u)
  BY <1>3 DEF P!Notify, ParkInv, P!ParkedExact, P!States, UnparkerSpots
<1>4. CASE P!LockUnlock(u)
  BY <1>4 DEF P!LockUnlock, ParkInv, P!ParkedExact, UnparkerSpots
<1>5. CASE P!Signal(u)
  BY <1>5 DEF P!Signal, ParkInv, P!ParkedExact, UnparkerSpots
<1> QED
  BY <1>3, <1>4, <1>5 DEF P!UnparkerStep

-----------------------------------------------------------------------------
(* Interval                                                                *)

\* What the remainder is.
LEMMA Remainder ==
    ASSUME NEW x \in Int, NEW p \in Nat \ {0}
    PROVE  /\ x % p \in 0 .. p - 1
           /\ \E k \in Int : x = p * k + (x % p)
<1>1. PICK k \in Int : k = x \div p
  BY SMT
<1>2. p * k <= x /\ x < p * k + p
  BY <1>1, SMT
<1>3. PICK r \in 0 .. p - 1 : x = p * k + r
  <2>1. PICK m \in Int : m = p * k
    BY SMT
  <2>2. x - m \in 0 .. p - 1 /\ x = m + (x - m)
    BY <1>2, <2>1
  <2> QED
    BY <2>1, <2>2
<1>4. x % p = r
  BY <1>3, SMT
<1> QED
  BY <1>3, <1>4

\* Multiples leave no remainder, and their sums are multiples.
LEMMA Multiples ==
    ASSUME NEW x \in Int, NEW y \in Int, NEW p \in Nat \ {0}, x % p = 0
    PROVE  /\ (x + p) % p = 0
           /\ (x + (y - (y % p))) % p = 0
           /\ (x + p + (y - (y % p))) % p = 0
<1>0. \A j \in Int : (p * j) % p = 0
  BY SMT
<1>1. PICK k \in Int : x = p * k
  <2>1. PICK k \in Int : x = p * k + (x % p)
    BY Remainder
  <2>2. PICK m \in Int : m = p * k
    BY SMT
  <2> QED
    BY <2>1, <2>2
<1>2. PICK m \in Int : y = p * m + (y % p)
  BY Remainder
<1>3. y % p \in Int
  BY Remainder
<1>4. PICK a, b \in Int : a = p * k /\ b = p * m
  BY SMT
<1>5. y - (y % p) = b
  BY <1>2, <1>3, <1>4
<1>6. p * (k + 1) = a + p /\ p * (k + m) = a + b /\ p * (k + m + 1) = a + b + p
  BY <1>4, SMT
<1>7. x + p = p * (k + 1) /\ x + b = p * (k + m) /\ x + p + b = p * (k + m + 1)
  BY <1>1, <1>4, <1>6
<1>8. k + 1 \in Int /\ k + m \in Int /\ k + m + 1 \in Int
  OBVIOUS
<1> QED
  BY <1>0, <1>5, <1>7, <1>8

\* The grid, the kinds, and that no tick is ahead of the time.
IntervalInv ==
    /\ now \in Nat /\ period \in Periods /\ period \in Nat \ {0}
    /\ deadline \in Nat /\ start \in Nat /\ ticks \in Nat
    /\ behavior \in I!Behaviors /\ missed \subseteq I!Behaviors
    /\ last \in Int /\ last <= now
    /\ I!TicksOnGrid

\* A new Interval stands on its first deadline.
LEMMA IntervalInit == I!Init => IntervalInv
<1> SUFFICES ASSUME I!Init PROVE IntervalInv
  OBVIOUS
<1>1. period \in Nat \ {0} /\ deadline \in Nat /\ start = deadline
  BY RuntimeAssumption DEF I!Init
<1>2. (deadline - start) % period = 0 /\ deadline = start + 0 * period
  BY <1>1, SMT
<1> QED
  BY <1>1, <1>2 DEF I!Init, IntervalInv, I!Behaviors, I!TicksOnGrid

\* Where the next deadline is, tick by tick.
LEMMA NextDeadline ==
    ASSUME IntervalInv, I!PollTick
    PROVE  /\ deadline' \in Nat /\ deadline' > deadline
           /\ missed' \subseteq {"Burst"} => deadline' = deadline + period
           /\ missed' \subseteq {"Burst", "Skip"} /\ (deadline - start) % period = 0
                 => (deadline' - start) % period = 0
           /\ I!Missed /\ behavior # "Burst" => deadline' > now /\ deadline' <= now + period
<1>0. /\ period \in Nat \ {0} /\ deadline \in Nat /\ start \in Nat /\ now \in Nat
      /\ Slack \in Nat /\ deadline <= now
  BY RuntimeAssumption DEF IntervalInv, I!PollTick
<1>1. PICK r \in 0 .. period - 1 : r = (now - deadline) % period
  <2>1. now - deadline \in Int
    BY <1>0
  <2> QED
    BY <1>0, <2>1, Remainder
<1>2. PICK x \in Int : x = deadline - start
  BY <1>0
<1>3. PICK y \in Int : y = now - deadline
  BY <1>0
<1>4. x % period = 0 => /\ (x + period) % period = 0
                        /\ (x + period + (y - r)) % period = 0
  BY <1>0, <1>1, <1>3, Multiples
<1>5. CASE ~I!Missed \/ behavior = "Burst"
  <2>1. deadline' = deadline + period
    BY <1>5 DEF I!PollTick, I!next_timeout
  <2>2. deadline' - start = x + period
    BY <1>0, <1>2, <2>1
  <2> QED
    BY <1>0, <1>2, <1>4, <1>5, <2>1, <2>2
<1>6. CASE I!Missed /\ behavior = "Delay"
  <2>1. deadline' = now + period /\ "Delay" \in missed'
    BY <1>6 DEF I!PollTick, I!next_timeout
  <2> QED
    BY <1>0, <1>6, <2>1 DEF I!Missed
<1>7. CASE I!Missed /\ behavior = "Skip"
  <2>1. deadline' = now + period - r /\ "Skip" \in missed'
    BY <1>1, <1>7 DEF I!PollTick, I!next_timeout
  <2>2. deadline' - start = x + period + (y - r)
    <3>1. r \in Int
      BY <1>0
    <3> QED
      BY <1>0, <1>2, <1>3, <2>1, <3>1
  <2> QED
    BY <1>0, <1>1, <1>2, <1>4, <1>7, <2>1, <2>2 DEF I!Missed
<1> QED
  BY <1>5, <1>6, <1>7 DEF IntervalInv, I!Behaviors

\* Ticks, resets and changes of the behavior keep to the grid.
LEMMA IntervalKeeps == IntervalInv /\ I!Next => IntervalInv'
<1> SUFFICES ASSUME IntervalInv, I!Next PROVE IntervalInv'
  OBVIOUS
<1>1. CASE I!Advance \/ I!SetBehavior
  <2>1. UNCHANGED <<period, deadline, start, ticks, missed, last>>
    BY <1>1 DEF I!Advance, I!SetBehavior
  <2>2. I!TicksOnGrid'
    BY <2>1, Zenon DEF I!TicksOnGrid, IntervalInv
  <2>3. now' \in Nat /\ now' >= now /\ behavior' \in I!Behaviors
    BY <1>1 DEF I!Advance, I!SetBehavior, IntervalInv
  <2> QED
    BY <2>1, <2>2, <2>3 DEF IntervalInv, I!Behaviors
<1>2. CASE I!PollTick
  <2>1. /\ last' = deadline /\ ticks' = ticks + 1 /\ deadline <= now
        /\ missed \subseteq missed' /\ missed' \subseteq I!Behaviors
        /\ UNCHANGED <<now, period, behavior, start>>
    BY <1>2 DEF I!PollTick, IntervalInv
  <2>2. missed' \subseteq {"Burst"} => deadline' = start' + ticks' * period'
    <3> SUFFICES ASSUME missed' \subseteq {"Burst"}
                 PROVE  deadline' = start + (ticks + 1) * period
      BY <2>1
    <3>1. deadline = start + ticks * period /\ deadline' = deadline + period
      BY <1>2, <2>1, NextDeadline DEF IntervalInv, I!TicksOnGrid
    <3>2. (ticks + 1) * period = ticks * period + period /\ ticks * period \in Nat
      BY SMT DEF IntervalInv
    <3> QED
      BY <3>1, <3>2 DEF IntervalInv
  <2>3. missed' \subseteq {"Burst", "Skip"} => (deadline' - start') % period' = 0
    BY <1>2, <2>1, NextDeadline DEF IntervalInv, I!TicksOnGrid
  <2> QED
    BY <1>2, <2>1, <2>2, <2>3, NextDeadline DEF IntervalInv, I!TicksOnGrid
<1>3. CASE I!Reset
  <2>1. /\ deadline' = now + period /\ start' = deadline' /\ ticks' = 0 /\ missed' = {}
        /\ UNCHANGED <<now, period, behavior, last>>
    BY <1>3 DEF I!Reset
  <2>2. deadline' \in Nat /\ last < deadline' /\ deadline' - start' = 0
    BY <2>1 DEF IntervalInv
  <2>3. 0 % period = 0 /\ deadline' = start' + 0 * period
    BY <2>1, <2>2, SMT DEF IntervalInv
  <2> QED
    BY <2>1, <2>2, <2>3 DEF IntervalInv, I!TicksOnGrid
<1> QED
  BY <1>1, <1>2, <1>3 DEF I!Next

-----------------------------------------------------------------------------
(* Executor                                                                *)

\* A set of naturals that has zero, and each successor, has all.
LEMMA Induction ==
    ASSUME NEW S \in SUBSET Nat, 0 \in S, \A n \in S : n + 1 \in S
    PROVE  S = Nat
<1> SUFFICES ASSUME Nat \ S # {} PROVE FALSE
  OBVIOUS
<1> DEFINE R == {ss \in Nat \X Nat : ss[1] < ss[2]}
<1>1. IsWellFoundedOn(R, Nat)
  BY NatLessThanWellFounded DEF OpToRel
<1>2. PICK x \in Nat \ S : \A y \in Nat \ S : <<y, x>> \notin R
  BY <1>1, WFMin
<1>3. x # 0 /\ x - 1 \in Nat
  BY <1>2
<1>4. x - 1 \in S
  <2>1. <<x - 1, x>> \in R
    BY <1>2, <1>3
  <2> QED
    BY <1>2, <1>3, <2>1
<1>5. (x - 1) + 1 = x
  BY <1>2
<1> QED
  BY <1>2, <1>4, <1>5

\* What one step of FlattenSeq makes of those before it.
Joined(q, f, i) == IF i = 1 THEN q[i] ELSE f[i - 1] \o q[i]

\* There is such a function, for so many steps.
LEMMA JoinedExists ==
    ASSUME NEW Elems, NEW n \in Nat, NEW q \in [1 .. n -> Seq(Elems)]
    PROVE  \E f : f = [i \in 1 .. n |-> Joined(q, f, i)]
<1> DEFINE Upto(m) == \E f \in [1 .. m -> Seq(Elems)] : \A i \in 1 .. m : f[i] = Joined(q, f, i)
           S == {m \in Nat : m <= n => Upto(m)}
<1>1. 0 \in S
  <2>1. PICK f : f = [i \in 1 .. 0 |-> <<>>]
    OBVIOUS
  <2>2. f \in [1 .. 0 -> Seq(Elems)] /\ \A i \in 1 .. 0 : f[i] = Joined(q, f, i)
    BY <2>1
  <2> QED
    BY <2>2
<1>2. ASSUME NEW m \in S PROVE m + 1 \in S
  <2> HIDE DEF Upto
  <2> SUFFICES ASSUME m + 1 <= n PROVE Upto(m + 1)
    OBVIOUS
  <2>0. Upto(m)
    OBVIOUS
  <2> USE DEF Upto
  <2>1. PICK f \in [1 .. m -> Seq(Elems)] : \A i \in 1 .. m : f[i] = Joined(q, f, i)
    BY <2>0
  <2>2. PICK g : g = [i \in 1 .. m + 1 |-> IF i <= m THEN f[i] ELSE Joined(q, f, i)]
    OBVIOUS
  <2>3. q[m + 1] \in Seq(Elems)
    OBVIOUS
  <2>4. Joined(q, f, m + 1) \in Seq(Elems)
    BY <2>3 DEF Joined
  <2>5. g \in [1 .. m + 1 -> Seq(Elems)]
    BY <2>2, <2>4
  <2>6. \A i \in 1 .. m : g[i] = f[i]
    BY <2>2
  <2>7. g[m + 1] = Joined(q, f, m + 1)
    BY <2>2
  <2>8. ASSUME NEW i \in 1 .. m + 1 PROVE g[i] = Joined(q, g, i)
    <3>1. Joined(q, g, i) = Joined(q, f, i)
      BY <2>6 DEF Joined
    <3>2. CASE i = m + 1
      BY <2>7, <3>1, <3>2
    <3>3. CASE i # m + 1
      BY <2>1, <2>6, <3>1, <3>3
    <3> QED
      BY <3>2, <3>3
  <2> QED
    BY <2>5, <2>8
<1>3. S = Nat
  <2> HIDE DEF Upto
  <2>1. S \in SUBSET Nat
    OBVIOUS
  <2> HIDE DEF S
  <2> QED
    BY <1>1, <1>2, <2>1, Induction
<1>4. Upto(n)
  <2> HIDE DEF Upto
  <2>1. n \in S
    BY <1>3
  <2> QED
    BY <2>1
<1>5. PICK f \in [1 .. n -> Seq(Elems)] : \A i \in 1 .. n : f[i] = Joined(q, f, i)
  BY <1>4
<1>6. f = [i \in 1 .. n |-> Joined(q, f, i)]
  BY <1>5
<1> QED
  BY <1>6

\* A sequence of sequences, one after the other, has the elements of each.
LEMMA Flattened ==
    ASSUME NEW Elems, NEW n \in Nat, NEW q \in [1 .. n -> Seq(Elems)]
    PROVE  /\ E!FlattenSeq(q) \in Seq(Elems)
           /\ \A j \in 1 .. n : \A k \in 1 .. Len(q[j]) : E!Contains(E!FlattenSeq(q), q[j][k])
<1>1. q \in Seq(Seq(Elems)) /\ Len(q) = n
  OBVIOUS
<1>2. CASE n = 0
  <2>1. E!FlattenSeq(q) = q /\ q = <<>>
    BY <1>1, <1>2 DEF E!FlattenSeq
  <2> QED
    BY <1>2, <2>1
<1>3. CASE n > 0
  <2> DEFINE f == CHOOSE f : f = [i \in 1 .. n |-> Joined(q, f, i)]
  <2>1. f = [i \in 1 .. n |-> Joined(q, f, i)]
    BY JoinedExists
  <2>2. E!FlattenSeq(q) = f[n]
    <3>1. f = CHOOSE g : g = [i \in 1 .. Len(q) |-> IF i = 1 THEN q[i] ELSE g[i - 1] \o q[i]]
      BY <1>1, Zenon DEF Joined
    <3>2. Len(q) # 0
      BY <1>1, <1>3
    <3> HIDE DEF f
    <3> QED
      BY <1>1, <3>1, <3>2, Zenon DEF E!FlattenSeq
  <2> HIDE DEF f
  <2> DEFINE Has(m) == /\ f[m] \in Seq(Elems)
                       /\ \A j \in 1 .. m : \A k \in 1 .. Len(q[j]) :
                             \E l \in 1 .. Len(f[m]) : f[m][l] = q[j][k]
             S == {m \in Nat : m + 1 <= n => Has(m + 1)}
  <2>3. 0 \in S
    <3>1. f[1] = q[1] /\ q[1] \in Seq(Elems)
      BY <1>3, <2>1 DEF Joined
    <3> QED
      BY <3>1
  <2>4. ASSUME NEW m \in S PROVE m + 1 \in S
    <3> SUFFICES ASSUME m + 2 <= n PROVE Has(m + 2)
      OBVIOUS
    <3>1. m \in Nat /\ m + 2 \in 1 .. n /\ m + 2 # 1 /\ (m + 2) - 1 = m + 1
      OBVIOUS
    <3>2. Has(m + 1)
      BY <3>1
    <3>3. f[m + 2] = f[m + 1] \o q[m + 2]
      BY <2>1, <3>1 DEF Joined
    <3>4. PICK a \in Seq(Elems) : a = f[m + 1]
      BY <3>2
    <3>5. PICK b \in Seq(Elems) : b = q[m + 2]
      BY <3>1
    <3>6. f[m + 2] = a \o b /\ a \o b \in Seq(Elems) /\ Len(a \o b) = Len(a) + Len(b)
          /\ Len(a) \in Nat /\ Len(b) \in Nat
      BY <3>3, <3>4, <3>5
    <3>7. ASSUME NEW j \in 1 .. m + 2, NEW k \in 1 .. Len(q[j])
          PROVE  \E l \in 1 .. Len(a \o b) : (a \o b)[l] = q[j][k]
      <4>1. CASE j = m + 2
        <5>1. k \in 1 .. Len(b) /\ q[j][k] = b[k]
          BY <3>5, <4>1
        <5>2. Len(a) + k \in 1 .. Len(a \o b) /\ (a \o b)[Len(a) + k] = b[k]
          BY <3>6, <5>1
        <5> QED
          BY <5>1, <5>2
      <4>2. CASE j # m + 2
        <5>1. j \in 1 .. m + 1
          BY <3>1, <4>2
        <5>2. PICK l \in 1 .. Len(a) : a[l] = q[j][k]
          BY <3>2, <3>4, <5>1
        <5>3. l \in 1 .. Len(a \o b) /\ (a \o b)[l] = a[l]
          BY <3>6, <5>2
        <5> QED
          BY <5>2, <5>3
      <4> QED
        BY <4>1, <4>2
    <3>8. f[m + 2] \in Seq(Elems)
      BY <3>6
    <3>9. \A j \in 1 .. m + 2 : \A k \in 1 .. Len(q[j]) :
             \E l \in 1 .. Len(f[m + 2]) : f[m + 2][l] = q[j][k]
      <4> SUFFICES ASSUME NEW j \in 1 .. m + 2, NEW k \in 1 .. Len(q[j])
                   PROVE  \E l \in 1 .. Len(f[m + 2]) : f[m + 2][l] = q[j][k]
        OBVIOUS
      <4>1. \E l \in 1 .. Len(a \o b) : (a \o b)[l] = q[j][k]
        BY <3>7
      <4>2. f[m + 2] = a \o b
        BY <3>6
      <4> QED
        BY <4>1, <4>2, Zenon
    <3> QED
      BY <3>8, <3>9
  <2>5. S = Nat
    <3> HIDE DEF Has
    <3>1. S \in SUBSET Nat
      OBVIOUS
    <3> HIDE DEF S
    <3> QED
      BY <2>3, <2>4, <3>1, Induction
  <2>6. n - 1 \in Nat /\ (n - 1) + 1 = n
    BY <1>3
  <2>7. Has(n)
    <3> HIDE DEF Has
    <3>1. n - 1 \in S
      BY <2>5, <2>6
    <3> QED
      BY <2>6, <3>1
  <2> QED
    BY <2>2, <2>7 DEF E!Contains
<1> QED
  BY <1>2, <1>3

\* Each listener has one Accept; who waits for one is registered, or about to be
\* polled; and a task that is not alive waits for none.
ExecutorInv ==
    /\ E!TypeOK
    /\ \A t, u \in Accepting : accepts[t] = accepts[u] /\ accepts[t] # None => t = u
    /\ \A t \in Accepting : accepts[t] # None =>
          /\ spawned[t] = "live"
          /\ polled # "returned"
          /\ \/ E!Contains(ready, t)
             \/ E!Contains(readable[accepts[t]], t) /\ accepts[t] \in interest

\* Nothing is registered at first.
LEMMA ExecutorInit == E!Init => ExecutorInv
<1> SUFFICES ASSUME E!Init PROVE ExecutorInv
  OBVIOUS
<1>1. readable \in [Sources -> Seq(Accepting)] /\ ready \in Seq(Accepting) /\ channel \in Seq(Accepting)
  BY DEF E!Init
<1> QED
  BY <1>1 DEF E!Init, ExecutorInv, E!TypeOK

\* A queue that gains or loses an element at its end.
LEMMA QueueEnds ==
    ASSUME NEW S, NEW q \in Seq(S), NEW e \in S
    PROVE  /\ Append(q, e) \in Seq(S) /\ E!Contains(Append(q, e), e)
           /\ \A x : E!Contains(q, x) => E!Contains(Append(q, e), x)
           /\ q # <<>> => /\ Tail(q) \in Seq(S)
                          /\ \A x : E!Contains(q, x) /\ x # Head(q) => E!Contains(Tail(q), x)
<1>1. /\ Append(q, e) \in Seq(S) /\ Len(Append(q, e)) = Len(q) + 1
      /\ Append(q, e)[Len(q) + 1] = e /\ Len(q) \in Nat
      /\ \A i \in 1 .. Len(q) : Append(q, e)[i] = q[i]
  OBVIOUS
<1>2. ASSUME NEW x, E!Contains(q, x) PROVE E!Contains(Append(q, e), x)
  <2>1. PICK i \in 1 .. Len(q) : q[i] = x
    BY <1>2 DEF E!Contains
  <2>2. i \in 1 .. Len(Append(q, e)) /\ Append(q, e)[i] = x
    BY <1>1, <2>1
  <2> QED
    BY <2>2 DEF E!Contains
<1>3. E!Contains(Append(q, e), e)
  <2>1. Len(q) + 1 \in 1 .. Len(Append(q, e))
    BY <1>1
  <2> QED
    BY <1>1, <2>1 DEF E!Contains
<1>4. ASSUME q # <<>>
      PROVE  /\ Tail(q) \in Seq(S) /\ Len(Tail(q)) = Len(q) - 1 /\ Head(q) = q[1]
             /\ \A i \in 1 .. Len(Tail(q)) : Tail(q)[i] = q[i + 1]
  BY <1>4
<1>5. ASSUME q # <<>>, NEW x, E!Contains(q, x), x # Head(q)
      PROVE  E!Contains(Tail(q), x)
  <2>1. PICK i \in 1 .. Len(q) : q[i] = x
    BY <1>5 DEF E!Contains
  <2>2. i # 1
    BY <1>4, <1>5, <2>1
  <2>3. i - 1 \in 1 .. Len(Tail(q)) /\ (i - 1) + 1 = i
    BY <1>1, <1>4, <1>5, <2>1, <2>2
  <2>4. Tail(q)[i - 1] = x
    BY <1>4, <1>5, <2>1, <2>3
  <2> QED
    BY <2>3, <2>4 DEF E!Contains
<1> QED
  BY <1>1, <1>2, <1>3, <1>4, <1>5

\* Connections, wakes and new tasks.
LEMMA ArrivalsKeep ==
    ASSUME ExecutorInv,
           \/ \E s \in Sources : E!Arrive(s)
           \/ \E t \in Accepting : E!BlockOn(t) \/ E!Wake(t) \/ E!Spawn(t)
           \/ E!Finish
    PROVE  ExecutorInv'
<1> USE DEF E!reactor
<1>1. CASE \E s \in Sources : E!Arrive(s)
  BY <1>1 DEF E!Arrive, ExecutorInv, E!TypeOK
<1>2. ASSUME NEW t \in Accepting, E!BlockOn(t) \/ E!Spawn(t) PROVE ExecutorInv'
  <2>1. /\ ready' = Append(ready, t) /\ spawned' = [spawned EXCEPT ![t] = "live"]
        /\ spawned[t] = "unborn"
        /\ UNCHANGED <<channel, accepts, readable, interest, avail>>
        /\ polled' = "run"
    BY <1>2 DEF E!BlockOn, E!Spawn
  <2>2. ready' \in Seq(Accepting) /\ \A x : E!Contains(ready, x) => E!Contains(ready', x)
    BY <2>1, QueueEnds DEF ExecutorInv, E!TypeOK
  <2>3. spawned' \in [Accepting -> {"unborn", "live", "done"}]
        /\ \A u \in Accepting : spawned[u] = "live" => spawned'[u] = "live"
    BY <2>1 DEF ExecutorInv, E!TypeOK
  <2> QED
    BY <2>1, <2>2, <2>3 DEF ExecutorInv, E!TypeOK
<1>3. ASSUME NEW t \in Accepting, E!Wake(t) PROVE ExecutorInv'
  <2>1. channel' \in Seq(Accepting)
    BY <1>3 DEF E!Wake, ExecutorInv, E!TypeOK
  <2> QED
    BY <1>3, <2>1 DEF E!Wake, ExecutorInv, E!TypeOK
<1>4. CASE E!Finish
  <2>1. ASSUME NEW t \in Accepting, accepts[t] # None PROVE FALSE
    <3>1. ~E!Contains(ready, t)
      BY <1>4 DEF E!Finish, E!Contains
    <3>2. accepts[t] \in Sources /\ E!Contains(readable[accepts[t]], t)
      BY <2>1, <3>1 DEF ExecutorInv, E!TypeOK
    <3>3. readable[accepts[t]] = <<>>
      BY <1>4, <3>2 DEF E!Finish, E!Waiting
    <3> QED
      BY <3>2, <3>3 DEF E!Contains
  <2> QED
    BY <1>4, <2>1 DEF E!Finish, ExecutorInv, E!TypeOK
<1> QED
  BY <1>1, <1>2, <1>3, <1>4

\* A poll that leaves an Accept pending, for a source that no other has.
LEMMA RegisterKeeps ==
    ASSUME ExecutorInv, NEW t \in Accepting, E!Popped(t), spawned[t] = "live",
           NEW s \in Sources, NEW told, NEW asked,
           told \in [Sources -> Seq(Accepting)], asked \subseteq Sources,
           \A u \in Accepting \ {t} : accepts[u] # s,
           \A u \in Accepting \ {t} : accepts[u] # None =>
              /\ told[accepts[u]] = readable[accepts[u]]
              /\ accepts[u] \in interest => accepts[u] \in asked,
           E!Register(t, s, told, asked), avail' \subseteq Sources,
           UNCHANGED <<polled, channel, spawned>>
    PROVE  ExecutorInv'
<1>0. /\ polled = "run" /\ ready # <<>> /\ t = Head(ready) /\ ready' = Tail(ready)
      /\ s # None
  BY RuntimeAssumption DEF E!Popped
<1>1. ready' \in Seq(Accepting) /\ \A u \in Accepting \ {t} : E!Contains(ready, u) => E!Contains(ready', u)
  BY <1>0, QueueEnds DEF ExecutorInv, E!TypeOK
<1>2. /\ accepts' \in [Accepting -> Sources \cup {None}] /\ accepts'[t] = s
      /\ \A u \in Accepting \ {t} : accepts'[u] = accepts[u]
  BY DEF E!Register, ExecutorInv, E!TypeOK
<1>3. PICK q \in Seq(Accepting) : q = Append(told[s], t)
  BY QueueEnds
<1>4. /\ readable' \in [Sources -> Seq(Accepting)] /\ readable'[s] = q
      /\ \A r \in Sources \ {s} : readable'[r] = told[r]
  BY <1>3 DEF E!Register
<1>5. E!Contains(q, t)
  BY <1>3, QueueEnds
<1>6. interest' = asked \cup {s}
  BY DEF E!Register
<1>7. ASSUME NEW u \in Accepting, accepts'[u] # None
      PROVE  /\ spawned'[u] = "live" /\ polled' # "returned"
             /\ \/ E!Contains(ready', u)
                \/ E!Contains(readable'[accepts'[u]], u) /\ accepts'[u] \in interest'
  <2>1. CASE u = t
    BY <1>0, <1>2, <1>4, <1>5, <1>6, <2>1
  <2>2. CASE u # t
    <3>1. accepts'[u] = accepts[u] /\ accepts[u] # s /\ accepts[u] \in Sources
      BY <1>2, <1>7, <2>2 DEF ExecutorInv, E!TypeOK
    <3>2. readable'[accepts[u]] = readable[accepts[u]]
      BY <1>4, <1>7, <2>2, <3>1
    <3>3. accepts[u] \in interest => accepts[u] \in interest'
      BY <1>6, <1>7, <2>2, <3>1
    <3> QED
      BY <1>0, <1>1, <1>7, <2>2, <3>1, <3>2, <3>3 DEF ExecutorInv
  <2> QED
    BY <2>1, <2>2
<1>8. \A u, v \in Accepting : accepts'[u] = accepts'[v] /\ accepts'[u] # None => u = v
  BY <1>2 DEF ExecutorInv
<1>9. E!TypeOK'
  BY <1>1, <1>2, <1>4, <1>6 DEF ExecutorInv, E!TypeOK
<1> QED
  BY <1>7, <1>8, <1>9 DEF ExecutorInv

\* What a drop of an Accept leaves of the reactor.
LEMMA ForgottenIs ==
    ASSUME ExecutorInv, NEW s \in Sources
    PROVE  /\ E!Forgotten(s) \in [Sources -> Seq(Accepting)]
           /\ \A r \in Sources \ {s} : E!Forgotten(s)[r] = readable[r]
  BY DEF E!Forgotten, ExecutorInv, E!TypeOK

\* The polls.
LEMMA PollsKeep ==
    ASSUME ExecutorInv, NEW t \in Accepting, E!Poll(t)
    PROVE  ExecutorInv'
<1>1. CASE E!PollPending(t)
  <2>1. PICK s \in Sources \ avail : E!Free(t, s) /\ E!Register(t, s, readable, interest)
    BY <1>1 DEF E!PollPending
  <2>2. /\ E!Popped(t) /\ spawned[t] = "live"
        /\ UNCHANGED <<polled, channel, spawned, avail>>
    BY <1>1 DEF E!PollPending
  <2>3. \A u \in Accepting \ {t} : accepts[u] # s
    BY <2>1 DEF E!Free
  <2>4. readable \in [Sources -> Seq(Accepting)] /\ interest \subseteq Sources /\ avail' \subseteq Sources
    BY <2>2 DEF ExecutorInv, E!TypeOK
  <2> QED
    BY <2>1, <2>2, <2>3, <2>4, RegisterKeeps
<1>2. CASE E!PollReady(t)
  <2>1. PICK s \in avail, r \in Sources \ avail' :
           /\ E!Free(t, s) /\ avail' = avail \ {s}
           /\ \A u \in Accepting \ {t} : accepts[u] # r
           /\ E!Register(t, r, E!Forgotten(s), interest \ {s})
    BY <1>2 DEF E!PollReady
  <2>2. /\ E!Popped(t) /\ spawned[t] = "live" /\ UNCHANGED <<polled, channel, spawned>>
    BY <1>2 DEF E!PollReady
  <2>3. s \in Sources /\ avail' \subseteq Sources /\ interest \ {s} \subseteq Sources
    BY <2>1 DEF ExecutorInv, E!TypeOK
  <2>4. \A u \in Accepting \ {t} : accepts[u] # None =>
           /\ E!Forgotten(s)[accepts[u]] = readable[accepts[u]]
           /\ accepts[u] \in interest => accepts[u] \in interest \ {s}
    BY <2>1, <2>3, ForgottenIs DEF E!Free, ExecutorInv, E!TypeOK
  <2>5. E!Forgotten(s) \in [Sources -> Seq(Accepting)]
    BY <2>3, ForgottenIs
  <2>6. PICK w, q : w = E!Forgotten(s) /\ q = interest \ {s}
    OBVIOUS
  <2>7. /\ w \in [Sources -> Seq(Accepting)] /\ q \subseteq Sources
        /\ E!Register(t, r, w, q)
        /\ \A u \in Accepting \ {t} : accepts[u] # None =>
              /\ w[accepts[u]] = readable[accepts[u]]
              /\ accepts[u] \in interest => accepts[u] \in q
    BY <2>1, <2>3, <2>4, <2>5, <2>6
  <2> QED
    BY <2>1, <2>2, <2>3, <2>7, RegisterKeeps
<1>3. CASE E!PollDone(t)
  <2>1. /\ polled = "run" /\ ready # <<>> /\ t = Head(ready) /\ ready' = Tail(ready)
        /\ UNCHANGED <<polled, channel>>
    BY <1>3 DEF E!PollDone, E!Popped
  <2>2. ready' \in Seq(Accepting) /\ \A u \in Accepting \ {t} : E!Contains(ready, u) => E!Contains(ready', u)
    BY <2>1, QueueEnds DEF ExecutorInv, E!TypeOK
  <2>3. /\ accepts' \in [Accepting -> Sources \cup {None}] /\ accepts'[t] = None
        /\ spawned' \in [Accepting -> {"unborn", "live", "done"}]
        /\ \A u \in Accepting \ {t} : accepts'[u] = accepts[u] /\ spawned'[u] = spawned[u]
    BY <1>3 DEF E!PollDone, ExecutorInv, E!TypeOK
  <2>4. /\ readable' \in [Sources -> Seq(Accepting)] /\ interest' \subseteq Sources
        /\ \A s \in Sources : s # accepts[t] =>
              readable'[s] = readable[s] /\ (s \in interest => s \in interest')
    <3>1. CASE accepts[t] = None
      BY <1>3, <3>1 DEF E!PollDone, E!reactor, ExecutorInv, E!TypeOK
    <3>2. CASE accepts[t] # None
      <4>1. accepts[t] \in Sources
        BY <3>2 DEF ExecutorInv, E!TypeOK
      <4>2. readable' = E!Forgotten(accepts[t]) /\ interest' = interest \ {accepts[t]}
        BY <1>3, <3>2 DEF E!PollDone
      <4> QED
        BY <4>1, <4>2, ForgottenIs DEF ExecutorInv, E!TypeOK
    <3> QED
      BY <3>1, <3>2
  <2>5. avail' \subseteq Sources
    BY <1>3 DEF E!PollDone, ExecutorInv, E!TypeOK
  <2>6. ASSUME NEW u \in Accepting, accepts'[u] # None
        PROVE  /\ spawned'[u] = "live" /\ polled' # "returned"
               /\ \/ E!Contains(ready', u)
                  \/ E!Contains(readable'[accepts'[u]], u) /\ accepts'[u] \in interest'
    <3>1. u # t /\ accepts'[u] = accepts[u] /\ spawned'[u] = spawned[u]
      BY <2>3, <2>6
    <3>2. accepts[u] \in Sources /\ accepts[u] # accepts[t]
      BY <2>6, <3>1 DEF ExecutorInv, E!TypeOK
    <3> QED
      BY <2>1, <2>2, <2>4, <2>6, <3>1, <3>2 DEF ExecutorInv
  <2>7. \A u, v \in Accepting : accepts'[u] = accepts'[v] /\ accepts'[u] # None => u = v
    BY <2>3 DEF ExecutorInv
  <2>8. E!TypeOK'
    BY <2>1, <2>2, <2>3, <2>4, <2>5 DEF ExecutorInv, E!TypeOK
  <2> QED
    BY <2>6, <2>7, <2>8 DEF ExecutorInv
<1>4. CASE E!PollAgain(t)
  <2>1. /\ polled' = "panicked" /\ ready # <<>> /\ t = Head(ready) /\ ready' = Tail(ready)
        /\ spawned[t] = "done" /\ UNCHANGED <<channel, spawned, accepts, readable, interest, avail>>
    BY <1>4 DEF E!PollAgain, E!Popped, E!reactor
  <2>2. ready' \in Seq(Accepting) /\ \A u \in Accepting \ {t} : E!Contains(ready, u) => E!Contains(ready', u)
    BY <2>1, QueueEnds DEF ExecutorInv, E!TypeOK
  <2> QED
    BY <2>1, <2>2 DEF ExecutorInv, E!TypeOK
<1> QED
  BY <1>1, <1>2, <1>3, <1>4 DEF E!Poll

\* The order in which a Poller reports its events has them all.
LEMMA Ordered ==
    ASSUME NEW S, IsFiniteSet(S)
    PROVE  /\ Cardinality(S) \in Nat
           /\ E!SetToSeq(S) \in [1 .. Cardinality(S) -> S]
           /\ \A s \in S : \E i \in 1 .. Cardinality(S) : E!SetToSeq(S)[i] = s
<1>1. E!Cardinality(S) = Cardinality(S)
  BY DEF E!Cardinality, Cardinality
<1>2. PICK n \in Nat : n = Cardinality(S) /\ ExistsBijection(1 .. n, S)
  BY FS_CardinalityType
<1>3. \E f \in [1 .. n -> S] : E!IsInjective(f)
  BY <1>2 DEF ExistsBijection, Bijection, Injection, IsInjective, E!IsInjective
<1>4. E!SetToSeq(S) \in [1 .. n -> S] /\ E!IsInjective(E!SetToSeq(S))
  BY <1>1, <1>2, <1>3 DEF E!SetToSeq
<1>5. PICK f : f = E!SetToSeq(S)
  OBVIOUS
<1>6. f \in Injection(1 .. n, S)
  BY <1>4, <1>5 DEF Injection, IsInjective, E!IsInjective
<1>7. IsFiniteSet(1 .. n) /\ Cardinality(1 .. n) = n
  BY FS_Interval
<1>8. f \in Surjection(1 .. n, S)
  BY <1>2, <1>6, <1>7, FS_Injection
<1> QED
  BY <1>2, <1>4, <1>5, <1>8 DEF Surjection

\* The Poller reports: the wakers of the events go to the queue, behind what was
\* sent before.
LEMMA ReportsKeep == ASSUME ExecutorInv, E!WaitForIo PROVE ExecutorInv'
<1>1. PICK events \in SUBSET (interest \cap avail) \ {{}} :
         /\ interest' = interest \ events
         /\ readable' = [s \in Sources |-> IF s \in events THEN <<>> ELSE readable[s]]
         /\ ready' = channel \o E!FlattenSeq([i \in 1 .. Len(E!SetToSeq(events)) |->
                                                 readable[E!SetToSeq(events)[i]]])
  BY DEF E!WaitForIo
<1>2. /\ channel' = <<>> /\ polled = "run" /\ ready = <<>>
      /\ UNCHANGED <<polled, spawned, accepts, avail>>
  BY DEF E!WaitForIo
<1>3. events \subseteq Sources /\ IsFiniteSet(events)
  <2>1. events \subseteq Sources
    BY DEF ExecutorInv, E!TypeOK
  <2> QED
    BY <2>1, RuntimeAssumption, FS_Subset
<1>0. PICK n : n = Cardinality(events)
  OBVIOUS
<1>4. PICK f \in [1 .. n -> events] :
         /\ n \in Nat /\ f = E!SetToSeq(events)
         /\ \A s \in events : \E i \in 1 .. n : f[i] = s
  BY <1>0, <1>3, Ordered
<1>5. Len(E!SetToSeq(events)) = n
  <2>1. f \in Seq(events) /\ Len(f) = n
    BY <1>4
  <2> QED
    BY <1>4, <2>1
<1>6. PICK q : q = [i \in 1 .. n |-> readable[f[i]]]
  OBVIOUS
<1>7. q \in [1 .. n -> Seq(Accepting)] /\ ready' = channel \o E!FlattenSeq(q)
  BY <1>1, <1>3, <1>4, <1>5, <1>6 DEF ExecutorInv, E!TypeOK
<1>8. PICK w \in Seq(Accepting) :
         /\ w = E!FlattenSeq(q)
         /\ \A j \in 1 .. n : \A k \in 1 .. Len(q[j]) : E!Contains(w, q[j][k])
  BY <1>4, <1>7, Flattened
<1>9. PICK c \in Seq(Accepting) : c = channel
  BY DEF ExecutorInv, E!TypeOK
<1>10. ready' = c \o w /\ ready' \in Seq(Accepting)
  BY <1>7, <1>8, <1>9
<1>11. ASSUME NEW x, E!Contains(w, x) PROVE E!Contains(ready', x)
  <2>1. PICK i \in 1 .. Len(w) : w[i] = x
    BY <1>11 DEF E!Contains
  <2>2. Len(c) \in Nat /\ Len(w) \in Nat /\ Len(c \o w) = Len(c) + Len(w)
    OBVIOUS
  <2>3. Len(c) + i \in 1 .. Len(c \o w) /\ (c \o w)[Len(c) + i] = x
    BY <2>1, <2>2
  <2> QED
    BY <1>10, <2>3 DEF E!Contains
<1>12. ASSUME NEW t \in Accepting, accepts'[t] # None
       PROVE  /\ spawned'[t] = "live" /\ polled' # "returned"
              /\ \/ E!Contains(ready', t)
                 \/ E!Contains(readable'[accepts'[t]], t) /\ accepts'[t] \in interest'
  <2>1. PICK s \in Sources : s = accepts[t] /\ accepts'[t] = s
    BY <1>2, <1>12 DEF ExecutorInv, E!TypeOK
  <2>2. ~E!Contains(ready, t)
    BY <1>2 DEF E!Contains
  <2>3. spawned[t] = "live" /\ E!Contains(readable[s], t) /\ s \in interest
    BY <1>2, <1>12, <2>1, <2>2 DEF ExecutorInv
  <2>4. CASE s \in events
    <3>1. PICK i \in 1 .. n : f[i] = s
      BY <1>4, <2>4
    <3>2. PICK k \in 1 .. Len(q[i]) : q[i][k] = t
      BY <1>6, <2>3, <3>1 DEF E!Contains
    <3>3. E!Contains(ready', t)
      BY <1>8, <1>11, <3>2
    <3> QED
      BY <1>2, <2>3, <3>3
  <2>5. CASE s \notin events
    BY <1>1, <1>2, <2>1, <2>3, <2>5
  <2> QED
    BY <2>4, <2>5
<1>13. readable' \in [Sources -> Seq(Accepting)] /\ interest' \subseteq Sources
  BY <1>1 DEF ExecutorInv, E!TypeOK
<1>14. E!TypeOK'
  BY <1>2, <1>10, <1>13 DEF ExecutorInv, E!TypeOK
<1> QED
  BY <1>2, <1>12, <1>14 DEF ExecutorInv

-----------------------------------------------------------------------------
(* All parts                                                               *)

\* The invariant of the part that moves.
PartInv ==
    /\ part = "park" => ParkInv
    /\ part = "interval" => IntervalInv
    /\ part = "executor" => ExecutorInv

\* Each part starts with its own.
LEMMA PartInit == MCInit => PartInv
  BY ParkInit, IntervalInit, ExecutorInit DEF MCInit, PartInv

\* One part moves, and keeps its own.
LEMMA PartKeeps ==
    ASSUME PartInv, [MCNext]_allVars
    PROVE  PartInv'
<1>1. CASE part = "park" /\ P!Next /\ part' = part
  BY <1>1, ParkerKeeps, UnparkerKeeps DEF P!Next, PartInv
<1>2. CASE part = "interval" /\ I!Next /\ part' = part
  BY <1>2, IntervalKeeps DEF PartInv
<1>3. CASE part = "executor" /\ E!Next /\ part' = part
  BY <1>3, ArrivalsKeep, PollsKeep, ReportsKeep DEF E!Next, PartInv
<1>4. CASE part \in {"scheduler", "nesting", "timeout"} /\ part' = part
  BY <1>4 DEF PartInv
<1>5. CASE UNCHANGED allVars
  <2>1. UNCHANGED <<part, state, asleep, signaled, pc, owed, mutex>>
    BY <1>5 DEF allVars, parkVars
  <2>2. UNCHANGED <<now, period, deadline, behavior, start, ticks, missed, last>>
    BY <1>5 DEF allVars, intervalVars
  <2>3. UNCHANGED <<polled, ready, channel, spawned, accepts, readable, interest, avail>>
    BY <1>5 DEF allVars, executorVars
  <2>4. ParkInv => ParkInv'
    BY <2>1 DEF ParkInv, P!ParkedExact
  <2>5. IntervalInv => IntervalInv'
    BY <2>2, Zenon DEF IntervalInv, I!TicksOnGrid
  <2>6. ExecutorInv => ExecutorInv'
    BY <2>3 DEF ExecutorInv, E!TypeOK, E!Contains
  <2> QED
    BY <2>1, <2>4, <2>5, <2>6 DEF PartInv
<1> QED
  BY <1>1, <1>2, <1>3, <1>4, <1>5 DEF MCNext

\* The steps of the run.
LEMMA OnePart == MCSpec => MCInit /\ [][MCNext]_allVars
  BY PTL DEF MCSpec

\* It holds always.
LEMMA PartAlways == MCSpec => []PartInv
<1>1. PartInv /\ [MCNext]_allVars => PartInv'
  BY PartKeeps
<1> QED
  BY <1>1, PartInit, OnePart, PTL

\* An unpark at any point of the way to sleep is kept until the future is
\* polled, and who sleeps on it is signaled (unpark's comment on the lock); an
\* Interval leaves no tick out and keeps its phase as its behaviors say; and an
\* Accept that is pending has its task registered or queued, while run goes on:
\* for any number of unparkers, any periods and times, tasks and listeners.
THEOREM NothingIsForgotten == MCSpec => []NothingForgotten
<1>1. ParkInv => P!ParkedExact /\ P!UnparkKept
  BY DEF ParkInv, P!UnparkKept, P!At, P!Parker
<1>2. IntervalInv => I!TicksOnGrid
  BY DEF IntervalInv
<1>3. ExecutorInv => E!AcceptRegistered
  BY DEF ExecutorInv, E!AcceptRegistered
<1>4. PartInv => NothingForgotten
  BY <1>1, <1>2, <1>3 DEF PartInv, NothingForgotten
<1> QED
  BY <1>4, PartAlways, PTL

\* After a missed tick the next one is in the future, and at most a period away,
\* unless the Interval is to catch up (poll_tick and next_timeout); and a poll
\* that finds a value returns it, whatever the time is (Timeout::poll).
THEOREM TimersAreTrue == MCSpec => TimersTrue
<1>1. PartInv /\ [MCNext]_allVars => [I!Rests]_(I!vars)
  <2> SUFFICES ASSUME PartInv, [MCNext]_allVars, I!PollTick, now > deadline + Slack,
                      behavior # "Burst", I!vars' # I!vars
               PROVE  deadline' > now /\ deadline' <= now + period
    BY DEF I!Rests
  <2>1. part = "interval"
    BY DEF MCNext, allVars, intervalVars, I!vars
  <2> QED
    BY <2>1, NextDeadline DEF PartInv, I!Missed
<1>2. [MCNext]_allVars => [value /\ outcome' # outcome => outcome' = "ok"]_(T!vars)
  <2> SUFFICES ASSUME [MCNext]_allVars, value, outcome' # outcome
               PROVE  outcome' = "ok"
    OBVIOUS
  <2>1. T!Next
    BY DEF MCNext, allVars, timeoutVars, T!vars
  <2> QED
    BY <2>1 DEF T!Next, T!Advance, T!Complete, T!Fire, T!Poll, T!vars
<1> QED
  BY <1>1, <1>2, PartAlways, OnePart, PTL
     DEF TimersTrue, I!RestAfterMissed, T!ValueWins
=============================================================================
