--------------------------- MODULE SemaphoreProofs ---------------------------
(***************************************************************************)
(* What the batch semaphore and those who stand on it promise, for any     *)
(* number of futures, permits, readers, senders and slots.                 *)
(*                                                                         *)
(* SemInv is the inductive invariant of the contract, and what the users   *)
(* share: the queue is the waiters, and the pool is short of what the      *)
(* first of them wants.  CellInv, ChannelInv and LockInv add what each     *)
(* user keeps: whose permits are where, and how many there are together.   *)
(* BatchInv is the inductive invariant of the batch semaphore itself, and  *)
(* OrderInv what its refinement needs besides: only the waiter at the      *)
(* front of the list has been given a part of what it asked for.           *)
(***************************************************************************)
EXTENDS MCSemaphore, Queues, Functions, FiniteSetTheorems, SequenceTheorems,
        NaturalsInduction, WellFoundedInduction, TLAPS

-----------------------------------------------------------------------------
(* Induction over a set, and the least element                             *)

\* A set of naturals that has an element has a least one.
LEMMA LeastOf ==
    ASSUME NEW S \in SUBSET Nat, S # {}
    PROVE  \E x \in S : \A y \in S : x <= y
<1> DEFINE R == {ss \in Nat \X Nat : ss[1] < ss[2]}
<1>1. IsWellFoundedOn(R, Nat)
  BY NatLessThanWellFounded DEF OpToRel
<1>2. PICK x \in S : \A y \in S : ~(<<y, x>> \in R)
  BY <1>1, WFMin
<1>3. ASSUME NEW y \in S PROVE x <= y
  <2>1. x \in Nat /\ y \in Nat /\ <<y, x>> \notin R
    BY <1>2
  <2> QED
    BY <2>1
<1> QED
  BY <1>3

LEMMA Induction ==
    ASSUME NEW S \in SUBSET Nat, 0 \in S, \A n \in S : n + 1 \in S
    PROVE  S = Nat
<1> SUFFICES ASSUME Nat \ S # {} PROVE FALSE
  OBVIOUS
<1>1. PICK x \in Nat \ S : \A y \in Nat \ S : x <= y
  BY LeastOf
<1>2. x # 0 /\ x - 1 \in Nat
  BY <1>1
<1>3. x - 1 \in S
  BY <1>1, <1>2
<1>4. (x - 1) + 1 = x
  BY <1>1
<1> QED
  BY <1>1, <1>3, <1>4

-----------------------------------------------------------------------------
(* Sums                                                                    *)

\* One step of the fold that SumFunctionOnSet is.
Fold(f, s, g) ==
    IF s = {} THEN 0
    ELSE f[CHOOSE x \in s : TRUE] + g[s \ {CHOOSE x \in s : TRUE}]

NatOn(f, T) == \A x \in T : f[x] \in Nat

LEMMA Smaller ==
    ASSUME NEW T, IsFiniteSet(T), NEW x \in T
    PROVE  /\ IsFiniteSet(T \ {x})
           /\ Cardinality(T) \in Nat /\ Cardinality(T \ {x}) \in Nat
           /\ Cardinality(T) = Cardinality(T \ {x}) + 1
<1>1. IsFiniteSet(T \ {x}) /\ Cardinality(T \ {x}) = Cardinality(T) - 1
  BY FS_RemoveElement
<1>2. Cardinality(T) \in Nat /\ Cardinality(T \ {x}) \in Nat
  BY <1>1, FS_CardinalityType
<1> QED
  BY <1>1, <1>2

\* There is a function that the fold defines,
LEMMA FoldExists ==
    ASSUME NEW f, NEW T, IsFiniteSet(T), NatOn(f, T)
    PROVE  \E g : g = [s \in SUBSET T |-> Fold(f, s, g)]
<1> DEFINE Small(n) == {s \in SUBSET T : Cardinality(s) <= n}
           P(n) == \E g \in [Small(n) -> Nat] : \A s \in Small(n) : g[s] = Fold(f, s, g)
           S == {n \in Nat : P(n)}
<1>0. \A s \in SUBSET T : IsFiniteSet(s) /\ Cardinality(s) \in Nat
  BY FS_Subset, FS_CardinalityType
<1>a. \A s \in SUBSET T : s # {} => /\ (CHOOSE x \in s : TRUE) \in s
                                    /\ f[CHOOSE x \in s : TRUE] \in Nat
  BY DEF NatOn
<1>1. 0 \in S
  <2> DEFINE g == [s \in Small(0) |-> 0]
  <2>1. \A s \in Small(0) : s = {}
    BY <1>0, FS_EmptySet
  <2>2. g \in [Small(0) -> Nat] /\ \A s \in Small(0) : g[s] = Fold(f, s, g)
    BY <2>1 DEF Fold
  <2> QED
    BY <2>2
<1>2. ASSUME NEW n \in S PROVE n + 1 \in S
  <2> n \in Nat
    OBVIOUS
  <2>1. PICK g \in [Small(n) -> Nat] : \A s \in Small(n) : g[s] = Fold(f, s, g)
    OBVIOUS
  <2> DEFINE h == [s \in Small(n + 1) |-> Fold(f, s, g)]
             c(s) == CHOOSE x \in s : TRUE
  <2> HIDE DEF S, P
  <2>2. \A s \in Small(n + 1) : s # {} => c(s) \in s /\ s \ {c(s)} \in Small(n)
    <3> TAKE s \in Small(n + 1)
    <3> HAVE s # {}
    <3>1. c(s) \in s
      OBVIOUS
    <3>2. Cardinality(s) = Cardinality(s \ {c(s)}) + 1 /\ Cardinality(s \ {c(s)}) \in Nat
      BY <3>1, <1>0, Smaller
    <3> QED
      BY <3>1, <3>2, <1>0
  <2>3. \A s \in Small(n) : s \in Small(n + 1) /\ h[s] = g[s]
    BY <2>1, <1>0
  <2>4. \A s \in Small(n + 1) : Fold(f, s, g) \in Nat /\ Fold(f, s, g) = Fold(f, s, h)
    <3> TAKE s \in Small(n + 1)
    <3>1. CASE s = {}
      BY <3>1 DEF Fold
    <3>2. CASE s # {}
      <4> DEFINE t == s \ {c(s)}
      <4>1. t \in Small(n) /\ f[c(s)] \in Nat
        BY <2>2, <3>2, <1>a
      <4>2. g[t] \in Nat /\ h[t] = g[t]
        BY <2>1, <2>3, <4>1
      <4> QED
        BY <3>2, <4>1, <4>2 DEF Fold
    <3> QED
      BY <3>1, <3>2
  <2>5. h \in [Small(n + 1) -> Nat] /\ \A s \in Small(n + 1) : h[s] = Fold(f, s, h)
    BY <2>4
  <2> QED
    <3>1. P(n + 1)
      BY <2>5 DEF P
    <3> QED
      BY <3>1 DEF S
<1> HIDE DEF S, P
<1>3. S = Nat
  <2>1. S \in SUBSET Nat
    BY DEF S
  <2> QED
    BY <1>1, <1>2, <2>1, Induction
<1>4. P(Cardinality(T))
  BY <1>3, <1>0 DEF S
<1>5. Small(Cardinality(T)) = SUBSET T
  BY FS_Subset, <1>0
<1>6. PICK g \in [SUBSET T -> Nat] : \A s \in SUBSET T : g[s] = Fold(f, s, g)
  BY <1>4, <1>5 DEF P
<1>7. g = [s \in SUBSET T |-> Fold(f, s, g)]
  BY <1>6
<1> QED
  BY <1>7

\* SumFunctionOnSet is it, also for every part of the set.
LEMMA SumFold ==
    ASSUME NEW f, NEW T, IsFiniteSet(T), NatOn(f, T)
    PROVE  /\ SumFunctionOnSet(f, T) \in Nat
           /\ T = {} => SumFunctionOnSet(f, T) = 0
           /\ T # {} => LET c == CHOOSE x \in T : TRUE
                        IN  SumFunctionOnSet(f, T) = f[c] + SumFunctionOnSet(f, T \ {c})
<1> DEFINE It(U) == CHOOSE g : g = [s \in SUBSET U |-> Fold(f, s, g)]
           c(s) == CHOOSE x \in s : TRUE
<1>1. ASSUME NEW U
      PROVE  SumFunctionOnSet(f, U) = It(U)[U]
  BY DEF SumFunctionOnSet, FoldFunctionOnSet, MapThenFoldSet, Fold
<1>2. ASSUME NEW U \in SUBSET T
      PROVE  \A s \in SUBSET U : It(U)[s] = Fold(f, s, It(U))
  <2>1. \E g : g = [s \in SUBSET U |-> Fold(f, s, g)]
    <3>1. IsFiniteSet(U) /\ NatOn(f, U)
      BY FS_Subset DEF NatOn
    <3> QED
      BY <3>1, FoldExists
  <2>2. It(U) = [s \in SUBSET U |-> Fold(f, s, It(U))]
    BY <2>1
  <2> HIDE DEF It
  <2> QED
    BY <2>2
<1> HIDE DEF It
<1> DEFINE D == {n \in Nat : \A s \in SUBSET T : Cardinality(s) <= n =>
                   /\ It(T)[s] \in Nat
                   /\ \A U \in SUBSET T : s \subseteq U => It(U)[s] = It(T)[s]}
<1>3. ASSUME NEW s \in SUBSET T, s # {}
      PROVE  /\ c(s) \in s /\ f[c(s)] \in Nat
             /\ s \ {c(s)} \in SUBSET T
             /\ Cardinality(s) \in Nat
             /\ Cardinality(s \ {c(s)}) \in Nat
             /\ Cardinality(s) = Cardinality(s \ {c(s)}) + 1
  <2>1. c(s) \in s /\ f[c(s)] \in Nat
    BY <1>3 DEF NatOn
  <2>2. IsFiniteSet(s)
    BY FS_Subset
  <2> HIDE DEF c
  <2> QED
    BY <2>1, <2>2, Smaller
<1>4. \A U \in SUBSET T : It(U)[{}] = 0
  BY <1>2 DEF Fold
<1>5. ASSUME NEW U \in SUBSET T, NEW s \in SUBSET U, s # {}
      PROVE  It(U)[s] = f[c(s)] + It(U)[s \ {c(s)}]
  BY <1>2, <1>5 DEF Fold
<1> HIDE DEF c
<1>6. 0 \in D
  <2>1. \A s \in SUBSET T : Cardinality(s) <= 0 => s = {}
    <3> SUFFICES ASSUME NEW s \in SUBSET T, s # {} PROVE ~(Cardinality(s) <= 0)
      OBVIOUS
    <3> QED
      <4>1. Cardinality(s) \in Nat /\ IsFiniteSet(s)
        BY FS_Subset, FS_CardinalityType
      <4> QED
        BY <4>1, FS_EmptySet
  <2> QED
    BY <2>1, <1>4
<1>7. ASSUME NEW n \in D PROVE n + 1 \in D
  <2> SUFFICES ASSUME NEW s \in SUBSET T, Cardinality(s) <= n + 1
               PROVE  /\ It(T)[s] \in Nat
                      /\ \A U \in SUBSET T : s \subseteq U => It(U)[s] = It(T)[s]
    OBVIOUS
  <2>1. CASE s = {}
    BY <2>1, <1>4
  <2>2. CASE s # {}
    <3> DEFINE t == s \ {c(s)}
    <3>1. t \in SUBSET T /\ Cardinality(t) <= n
      BY <2>2, <1>3
    <3>2. It(T)[t] \in Nat /\ \A U \in SUBSET T : t \subseteq U => It(U)[t] = It(T)[t]
      BY <3>1
    <3>3. It(T)[s] = f[c(s)] + It(T)[t] /\ f[c(s)] \in Nat
      BY <2>2, <1>3, <1>5
    <3>4. ASSUME NEW U \in SUBSET T, s \subseteq U
          PROVE  It(U)[s] = f[c(s)] + It(U)[t]
      BY <2>2, <3>4, <1>5
    <3>5. t \subseteq s
      OBVIOUS
    <3> HIDE DEF D, It, t
    <3> QED
      BY <3>2, <3>3, <3>4, <3>5
  <2> QED
    BY <2>1, <2>2
<1>8. D = Nat
  <2> HIDE DEF D
  <2>1. D \in SUBSET Nat
    BY DEF D
  <2> QED
    BY <1>6, <1>7, <2>1, Induction
<1>9. ASSUME NEW U \in SUBSET T
      PROVE  SumFunctionOnSet(f, U) = It(T)[U] /\ It(T)[U] \in Nat
  <2>1. Cardinality(U) \in Nat
    BY FS_Subset, FS_CardinalityType
  <2>2. Cardinality(U) \in D
    BY <2>1, <1>8
  <2> QED
    BY <2>1, <2>2, <1>1
<1> HIDE DEF D
<1>10. T # {} => It(T)[T] = f[c(T)] + It(T)[T \ {c(T)}]
  BY <1>5
<1> QED
  BY <1>4, <1>9, <1>10 DEF c

\* The order in which the fold takes its elements does not matter.
LEMMA SumTakes ==
    ASSUME NEW f, NEW T, IsFiniteSet(T), NatOn(f, T), NEW x \in T
    PROVE  SumFunctionOnSet(f, T) = f[x] + SumFunctionOnSet(f, T \ {x})
<1> DEFINE Sum(s) == SumFunctionOnSet(f, s)
           D == {n \in Nat : \A s \in SUBSET T : Cardinality(s) <= n =>
                   \A y \in s : Sum(s) = f[y] + Sum(s \ {y})}
<1>1. ASSUME NEW s \in SUBSET T
      PROVE  /\ IsFiniteSet(s) /\ NatOn(f, s) /\ Cardinality(s) \in Nat
             /\ Sum(s) \in Nat
             /\ s # {} => \E z \in s : Sum(s) = f[z] + Sum(s \ {z})
  <2>1. IsFiniteSet(s) /\ NatOn(f, s) /\ Cardinality(s) \in Nat
    BY FS_Subset, FS_CardinalityType DEF NatOn
  <2> QED
    BY <2>1, SumFold
<1> HIDE DEF Sum
<1>2. 0 \in D
  <2>1. \A s \in SUBSET T : Cardinality(s) <= 0 => s = {}
    BY <1>1, FS_EmptySet
  <2> QED
    BY <2>1
<1>3. ASSUME NEW n \in D PROVE n + 1 \in D
  <2> SUFFICES ASSUME NEW s \in SUBSET T, Cardinality(s) <= n + 1, NEW y \in s
               PROVE  Sum(s) = f[y] + Sum(s \ {y})
    OBVIOUS
  <2>1. PICK z \in s : Sum(s) = f[z] + Sum(s \ {z})
    BY <1>1
  <2>2. CASE z = y
    BY <2>1, <2>2
  <2>3. CASE z # y
    <3> DEFINE t == s \ {z}
               u == s \ {y}
    <3>1. /\ Cardinality(t) \in Nat /\ Cardinality(s) = Cardinality(t) + 1
          /\ Cardinality(u) \in Nat /\ Cardinality(s) = Cardinality(u) + 1
      BY <1>1, Smaller
    <3>2. t \in SUBSET T /\ u \in SUBSET T /\ Cardinality(t) <= n /\ Cardinality(u) <= n
      BY <3>1
    <3>3. y \in t /\ z \in u /\ t \ {y} = u \ {z}
      BY <2>3
    <3>4. Sum(t) = f[y] + Sum(t \ {y}) /\ Sum(u) = f[z] + Sum(u \ {z})
      BY <3>2, <3>3
    <3>5. /\ f[y] \in Nat /\ f[z] \in Nat
          /\ Sum(t \ {y}) \in Nat
      BY <1>1, <3>2 DEF NatOn
    <3>6. Sum(s) = f[z] + Sum(t)
      BY <2>1
    <3> HIDE DEF t, u, D
    <3> QED
      BY <3>3, <3>4, <3>5, <3>6 DEF u
  <2> QED
    BY <2>2, <2>3
<1>4. D = Nat
  <2> HIDE DEF D
  <2>1. D \in SUBSET Nat
    BY DEF D
  <2> QED
    BY <1>2, <1>3, <2>1, Induction
<1>5. Cardinality(T) \in D
  BY <1>1, <1>4
<1> QED
  BY <1>1, <1>5 DEF Sum

\* What the empty part has, and no element takes away, the whole has.
LEMMA SetInduction ==
    ASSUME NEW T, IsFiniteSet(T), NEW G \in SUBSET (SUBSET T), {} \in G,
           \A U \in G : \A x \in T \ U : U \cup {x} \in G
    PROVE  T \in G
<1> DEFINE D == {n \in Nat : \A U \in SUBSET T : Cardinality(U) <= n => U \in G}
<1>1. \A U \in SUBSET T : IsFiniteSet(U) /\ Cardinality(U) \in Nat
  BY FS_Subset, FS_CardinalityType
<1>2. 0 \in D
  <2>1. \A U \in SUBSET T : Cardinality(U) <= 0 => U = {}
    BY <1>1, FS_EmptySet
  <2> QED
    BY <2>1
<1>3. ASSUME NEW n \in D PROVE n + 1 \in D
  <2> SUFFICES ASSUME NEW U \in SUBSET T, Cardinality(U) <= n + 1, U # {} PROVE U \in G
    OBVIOUS
  <2>1. PICK x \in U : TRUE
    OBVIOUS
  <2>2. Cardinality(U) = Cardinality(U \ {x}) + 1 /\ U \ {x} \in SUBSET T
    BY <1>1, Smaller
  <2>3. U \ {x} \in G
    BY <1>1, <2>2
  <2>4. (U \ {x}) \cup {x} = U
    BY <2>1
  <2> QED
    BY <2>3, <2>4
<1>4. D = Nat
  <2> HIDE DEF D
  <2>1. D \in SUBSET Nat
    BY DEF D
  <2> QED
    BY <1>2, <1>3, <2>1, Induction
<1> QED
  BY <1>1, <1>4

LEMMA SumType ==
    ASSUME NEW f, NEW T, IsFiniteSet(T), NatOn(f, T), NEW U \in SUBSET T
    PROVE  IsFiniteSet(U) /\ NatOn(f, U) /\ SumFunctionOnSet(f, U) \in Nat
<1>1. IsFiniteSet(U) /\ NatOn(f, U)
  BY FS_Subset DEF NatOn
<1> QED
  BY <1>1, SumFold

LEMMA SumNone ==
    ASSUME NEW f
    PROVE  SumFunctionOnSet(f, {}) = 0
  BY SumFold, FS_EmptySet DEF NatOn

LEMMA SumAdds ==
    ASSUME NEW f, NEW T, IsFiniteSet(T), NatOn(f, T), NEW U \in SUBSET T, NEW x \in T \ U
    PROVE  SumFunctionOnSet(f, U \cup {x}) = f[x] + SumFunctionOnSet(f, U)
<1> DEFINE V == U \cup {x}
<1>1. IsFiniteSet(V) /\ NatOn(f, V)
  BY SumType
<1>2. x \in V /\ V \ {x} = U
  OBVIOUS
<1> HIDE DEF V
<1>3. SumFunctionOnSet(f, V) = f[x] + SumFunctionOnSet(f, V \ {x})
  BY <1>1, <1>2, SumTakes
<1> QED
  BY <1>2, <1>3 DEF V

LEMMA SumSame ==
    ASSUME NEW f, NEW g, NEW T, IsFiniteSet(T), NatOn(f, T), \A x \in T : f[x] = g[x]
    PROVE  SumFunctionOnSet(f, T) = SumFunctionOnSet(g, T)
<1> DEFINE G == {U \in SUBSET T : SumFunctionOnSet(f, U) = SumFunctionOnSet(g, U)}
<1>1. NatOn(g, T)
  BY DEF NatOn
<1>2. {} \in G
  BY SumNone
<1>3. ASSUME NEW U \in G, NEW x \in T \ U PROVE U \cup {x} \in G
  <2>1. SumFunctionOnSet(f, U \cup {x}) = f[x] + SumFunctionOnSet(f, U)
    BY SumAdds
  <2>2. SumFunctionOnSet(g, U \cup {x}) = g[x] + SumFunctionOnSet(g, U)
    BY <1>1, SumAdds
  <2> QED
    BY <2>1, <2>2
<1>4. G \in SUBSET (SUBSET T)
  OBVIOUS
<1> HIDE DEF G
<1>5. T \in G
  BY <1>2, <1>3, <1>4, SetInduction
<1> QED
  BY <1>5 DEF G

\* Where one addend changes the sum changes with it.
LEMMA SumChanges ==
    ASSUME NEW f, NEW g, NEW T, IsFiniteSet(T), NatOn(f, T), NatOn(g, T), NEW x \in T,
           \A y \in T \ {x} : f[y] = g[y]
    PROVE  SumFunctionOnSet(f, T) + g[x] = SumFunctionOnSet(g, T) + f[x]
<1> DEFINE U == T \ {x}
<1>1. IsFiniteSet(U) /\ NatOn(f, U) /\ SumFunctionOnSet(f, U) \in Nat
  BY SumType
<1>2. SumFunctionOnSet(f, U) = SumFunctionOnSet(g, U)
  BY <1>1, SumSame
<1>3. /\ SumFunctionOnSet(f, T) = f[x] + SumFunctionOnSet(f, U)
      /\ SumFunctionOnSet(g, T) = g[x] + SumFunctionOnSet(g, U)
  BY SumTakes
<1>4. f[x] \in Nat /\ g[x] \in Nat
  BY DEF NatOn
<1> HIDE DEF U
<1> QED
  BY <1>1, <1>2, <1>3, <1>4

\* Addends that are zero can be left out.
LEMMA SumOfPart ==
    ASSUME NEW f, NEW T, IsFiniteSet(T), NatOn(f, T), NEW R \in SUBSET T,
           \A x \in T \ R : f[x] = 0
    PROVE  SumFunctionOnSet(f, R) = SumFunctionOnSet(f, T)
<1> DEFINE G == {U \in SUBSET T : SumFunctionOnSet(f, U) = SumFunctionOnSet(f, U \cap R)}
<1>1. {} \in G
  <2>1. {} \cap R = {}
    OBVIOUS
  <2> QED
    BY <2>1
<1>2. ASSUME NEW U \in G, NEW x \in T \ U PROVE U \cup {x} \in G
  <2> SUFFICES SumFunctionOnSet(f, U \cup {x}) = SumFunctionOnSet(f, (U \cup {x}) \cap R)
    OBVIOUS
  <2>1. SumFunctionOnSet(f, U \cup {x}) = f[x] + SumFunctionOnSet(f, U)
    BY SumAdds
  <2>2. CASE x \in R
    <3>1. (U \cup {x}) \cap R = (U \cap R) \cup {x}
      BY <2>2
    <3>2. SumFunctionOnSet(f, (U \cap R) \cup {x}) = f[x] + SumFunctionOnSet(f, U \cap R)
      BY SumAdds
    <3> QED
      BY <2>1, <3>1, <3>2
  <2>3. CASE x \notin R
    <3>1. (U \cup {x}) \cap R = U \cap R
      BY <2>3
    <3>2. f[x] = 0 /\ SumFunctionOnSet(f, U) \in Nat
      BY <2>3, SumType
    <3> QED
      BY <2>1, <3>1, <3>2
  <2> QED
    BY <2>2, <2>3
<1>3. G \in SUBSET (SUBSET T)
  OBVIOUS
<1> HIDE DEF G
<1>4. T \in G
  BY <1>1, <1>2, <1>3, SetInduction
<1>5. T \cap R = R
  OBVIOUS
<1> QED
  BY <1>4, <1>5 DEF G

\* Two addends are at most the sum.
LEMMA SumOfTwo ==
    ASSUME NEW f, NEW T, IsFiniteSet(T), NatOn(f, T), NEW x \in T
    PROVE  /\ f[x] <= SumFunctionOnSet(f, T)
           /\ \A y \in T \ {x} : f[x] + f[y] <= SumFunctionOnSet(f, T)
<1> DEFINE U == T \ {x}
<1>1. IsFiniteSet(U) /\ NatOn(f, U) /\ SumFunctionOnSet(f, U) \in Nat
  BY SumType
<1>2. SumFunctionOnSet(f, T) = f[x] + SumFunctionOnSet(f, U)
  BY SumTakes
<1>3. ASSUME NEW y \in U
      PROVE  /\ SumFunctionOnSet(f, U) = f[y] + SumFunctionOnSet(f, U \ {y})
             /\ SumFunctionOnSet(f, U \ {y}) \in Nat /\ f[y] \in Nat
  <2> HIDE DEF U
  <2> QED
    BY <1>1, SumTakes, SumType DEF NatOn
<1>4. f[x] \in Nat
  BY DEF NatOn
<1> HIDE DEF U
<1>5. f[x] <= SumFunctionOnSet(f, T)
  BY <1>1, <1>2, <1>4
<1>6. ASSUME NEW y \in U PROVE f[x] + f[y] <= SumFunctionOnSet(f, T)
  <2> DEFINE V == SumFunctionOnSet(f, U \ {y})
  <2>1. SumFunctionOnSet(f, T) = f[x] + (f[y] + V) /\ V \in Nat /\ f[y] \in Nat
    BY <1>2, <1>3
  <2> HIDE DEF V
  <2> QED
    BY <2>1, <1>4
<1> QED
  BY <1>5, <1>6 DEF U

\* The sum is at least the number of addends that count, and is that number
\* when nothing else counts and none counts more than once.
LEMMA SumCounts ==
    ASSUME NEW f, NEW T, IsFiniteSet(T), NatOn(f, T), NEW R \in SUBSET T,
           \A x \in R : f[x] >= 1
    PROVE  /\ Cardinality(R) <= SumFunctionOnSet(f, T)
           /\ (\A x \in T : f[x] = IF x \in R THEN 1 ELSE 0)
                 => Cardinality(R) = SumFunctionOnSet(f, T)
<1> DEFINE One == \A x \in T : f[x] = IF x \in R THEN 1 ELSE 0
           G == {U \in SUBSET T : /\ Cardinality(U \cap R) <= SumFunctionOnSet(f, U)
                                  /\ One => Cardinality(U \cap R) = SumFunctionOnSet(f, U)}
<1>1. {} \in G
  <2>1. {} \cap R = {}
    OBVIOUS
  <2> QED
    BY <2>1, SumNone, FS_EmptySet
<1>2. ASSUME NEW U \in G, NEW x \in T \ U PROVE U \cup {x} \in G
  <2>1. SumFunctionOnSet(f, U \cup {x}) = f[x] + SumFunctionOnSet(f, U)
    BY SumAdds
  <2>2. SumFunctionOnSet(f, U) \in Nat /\ f[x] \in Nat
    BY SumType DEF NatOn
  <2>3. IsFiniteSet(U \cap R) /\ Cardinality(U \cap R) \in Nat
    BY FS_Subset, FS_CardinalityType
  <2>4. CASE x \in R
    <3>1. (U \cup {x}) \cap R = (U \cap R) \cup {x}
      BY <2>4
    <3>2. Cardinality((U \cap R) \cup {x}) = Cardinality(U \cap R) + 1
      BY <2>3, FS_AddElement
    <3>3. f[x] >= 1 /\ (One => f[x] = 1)
      BY <2>4
    <3> DEFINE a == Cardinality(U \cap R)
               b == SumFunctionOnSet(f, U)
    <3>4. a <= b /\ (One => a = b)
      OBVIOUS
    <3>5. /\ Cardinality((U \cup {x}) \cap R) = a + 1
          /\ SumFunctionOnSet(f, U \cup {x}) = f[x] + b
          /\ a \in Nat /\ b \in Nat /\ f[x] \in Nat
      BY <2>1, <2>2, <2>3, <3>1, <3>2
    <3> HIDE DEF One, a, b
    <3>6. a + 1 <= f[x] + b /\ (One => a + 1 = f[x] + b)
      BY <3>3, <3>4, <3>5
    <3> QED
      BY <3>5, <3>6
  <2>5. CASE x \notin R
    <3>1. (U \cup {x}) \cap R = U \cap R
      BY <2>5
    <3>2. One => f[x] = 0
      BY <2>5
    <3> HIDE DEF One
    <3> QED
      BY <2>1, <2>2, <2>3, <3>1, <3>2
  <2> QED
    BY <2>4, <2>5
<1>3. G \in SUBSET (SUBSET T)
  OBVIOUS
<1> HIDE DEF G
<1>4. T \in G
  BY <1>1, <1>2, <1>3, SetInduction
<1>5. T \cap R = R
  OBVIOUS
<1> QED
  BY <1>4, <1>5 DEF G

-----------------------------------------------------------------------------
(* Queues                                                                  *)

\* Nobody is in the queue twice.
Once(q) == \A i, j \in 1 .. Len(q) : q[i] = q[j] => i = j

LEMMA RangeOf ==
    ASSUME NEW S, NEW q \in Seq(S)
    PROVE  Range(q) = {q[i] : i \in 1 .. Len(q)} /\ Range(q) \subseteq S
  BY DEF Range

\* Who is unlinked is not in the queue any more, and the others still are.
LEMMA Unlinked ==
    ASSUME NEW S, NEW q \in Seq(S), Once(q), NEW e
    PROVE  /\ Without(q, e) \in Seq(S)
           /\ Once(Without(q, e))
           /\ Range(Without(q, e)) = Range(q) \ {e}
           /\ q # <<>> /\ q[1] # e => Without(q, e) # <<>> /\ Without(q, e)[1] = q[1]
<1> DEFINE I == {i \in 1 .. Len(q) : q[i] = e}
           r == Without(q, e)
<1>1. CASE I = {}
  <2>1. r = q
    BY <1>1 DEF Without
  <2>2. e \notin Range(q)
    BY <1>1, RangeOf
  <2> QED
    BY <2>1, <2>2
<1>2. CASE I # {}
  <2> DEFINE j == CHOOSE x \in 1 .. Len(q) : q[x] = e
  <2>1. \E x \in 1 .. Len(q) : q[x] = e
    BY <1>2
  <2>2. j \in 1 .. Len(q) /\ q[j] = e
    BY <2>1
  <2>3. r = SubSeq(q, 1, j - 1) \o SubSeq(q, j + 1, Len(q))
    BY <2>1 DEF Without
  <2> HIDE DEF j
  <2> HIDE DEF r
  <2>4. j \in 1 .. Len(q) /\ q[j] = e /\ Len(q) \in Nat
    BY <2>2
  <2> DEFINE a == SubSeq(q, 1, j - 1)
             b == SubSeq(q, j + 1, Len(q))
             n == Len(q)
  <2>5. /\ a \in Seq(S) /\ Len(a) = j - 1
        /\ b \in Seq(S) /\ Len(b) = n - j
        /\ \A i \in 1 .. j - 1 : a[i] = q[i]
        /\ \A i \in 1 .. n - j : b[i] = q[j + i]
    BY <2>4
  <2>6. r = a \o b /\ j \in 1 .. n /\ n \in Nat
    BY <2>3, <2>4
  <2> HIDE DEF a, b, n
  <2>c. /\ r \in Seq(S) /\ Len(r) = Len(a) + Len(b)
        /\ \A i \in 1 .. Len(a) + Len(b) :
              r[i] = IF i <= Len(a) THEN a[i] ELSE b[i - Len(a)]
    BY <2>5, <2>6, ConcatProperties
  <2>l. Len(r) = n - 1
    BY <2>5, <2>6, <2>c
  <2>7. ASSUME NEW i \in 1 .. Len(r)
        PROVE  r[i] = IF i < j THEN q[i] ELSE q[i + 1]
    <3>1. CASE i < j
      <4>1. i <= Len(a) /\ i \in 1 .. j - 1 /\ i \in 1 .. Len(a) + Len(b)
        BY <3>1, <2>5, <2>6, <2>l
      <4> QED
        BY <3>1, <4>1, <2>5, <2>c
    <3>2. CASE ~(i < j)
      <4>1. /\ ~(i <= Len(a)) /\ i - Len(a) \in 1 .. n - j /\ i \in 1 .. Len(a) + Len(b)
            /\ j + (i - Len(a)) = i + 1
        BY <3>2, <2>5, <2>6, <2>l
      <4>2. r[i] = b[i - Len(a)] /\ b[i - Len(a)] = q[i + 1]
        BY <4>1, <2>5, <2>c
      <4> QED
        BY <3>2, <4>2
    <3> QED
      BY <3>1, <3>2
  <2>8. Once(r)
    <3> SUFFICES ASSUME NEW x \in 1 .. Len(r), NEW y \in 1 .. Len(r), r[x] = r[y]
                 PROVE  x = y
      BY DEF Once
    <3> DEFINE at(i) == IF i < j THEN i ELSE i + 1
    <3>1. \A i \in 1 .. Len(r) : at(i) \in 1 .. n /\ r[i] = q[at(i)]
      BY <2>6, <2>7, <2>l
    <3>2. at(x) = at(y)
      <4> HIDE DEF at
      <4> QED
        BY <3>1 DEF Once, n
    <3> QED
      BY <3>2, <2>6, <2>l
  <2>9. ASSUME NEW x \in Range(r) PROVE x \in Range(q) \ {e}
    <3>1. PICK i \in 1 .. Len(r) : r[i] = x
      BY <2>c, RangeOf
    <3>2. PICK m \in 1 .. Len(q) : m # j /\ q[m] = x
      <4>1. CASE i < j
        BY <4>1, <3>1, <2>4, <2>6, <2>7, <2>l DEF n
      <4>2. CASE ~(i < j)
        BY <4>2, <3>1, <2>4, <2>6, <2>7, <2>l DEF n
      <4> QED
        BY <4>1, <4>2
    <3> QED
      BY <3>2, <2>4, RangeOf DEF Once
  <2>10. ASSUME NEW x \in Range(q) \ {e} PROVE x \in Range(r)
    <3>1. PICK m \in 1 .. Len(q) : q[m] = x
      BY RangeOf
    <3>2. m # j
      BY <3>1, <2>4
    <3>3. \E i \in 1 .. Len(r) : r[i] = x
      <4>1. CASE m < j
        <5>1. m \in 1 .. Len(r)
          BY <4>1, <2>6, <2>l
        <5> QED
          BY <5>1, <4>1, <3>1, <2>7
      <4>2. CASE ~(m < j)
        <5>1. m - 1 \in 1 .. Len(r) /\ ~(m - 1 < j) /\ (m - 1) + 1 = m
          BY <4>2, <3>2, <2>4, <2>6, <2>l DEF n
        <5> QED
          BY <5>1, <3>1, <2>7
      <4> QED
        BY <4>1, <4>2
    <3> QED
      BY <3>3, <2>c, RangeOf
  <2>11. ASSUME q[1] # e PROVE r # <<>> /\ r[1] = q[1]
    <3>1. 1 < j /\ 1 \in 1 .. Len(r)
      BY <2>11, <2>4, <2>6, <2>l DEF n
    <3>2. r[1] = q[1]
      BY <3>1, <2>7
    <3>3. Len(<<>>) = 0
      OBVIOUS
    <3> QED
      BY <3>1, <3>2, <3>3
  <2> QED
    BY <2>c, <2>8, <2>9, <2>10, <2>11 DEF r
<1> QED
  BY <1>1, <1>2

\* r is what is left of q when its first k have gone.
IsRest(r, q, k, S) ==
    /\ r \in Seq(S) /\ Once(r) /\ Len(r) = Len(q) - k
    /\ \A i \in 1 .. Len(r) : r[i] = q[k + i]
    /\ \A x : x \in Range(r) <=> x \in Range(q) /\ ~\E i \in 1 .. k : q[i] = x

LEMMA Rest ==
    ASSUME NEW S, NEW q \in Seq(S), Once(q), NEW k \in 0 .. Len(q)
    PROVE  IsRest(SubSeq(q, k + 1, Len(q)), q, k, S)
<1> DEFINE r == SubSeq(q, k + 1, Len(q))
<1>1. r \in Seq(S) /\ Len(r) = Len(q) - k /\ \A i \in 1 .. Len(r) : r[i] = q[k + i]
  OBVIOUS
<1> HIDE DEF r
<1>2. Len(q) \in Nat /\ k \in Nat
  OBVIOUS
<1>3. Once(r)
  BY <1>1, <1>2 DEF Once
<1>4. ASSUME NEW x \in Range(r) PROVE x \in Range(q) /\ ~\E i \in 1 .. k : q[i] = x
  <2>1. PICK i \in 1 .. Len(r) : r[i] = x
    BY <1>1, RangeOf
  <2>2. k + i \in 1 .. Len(q) /\ q[k + i] = x
    BY <2>1, <1>1, <1>2
  <2>3. \A m \in 1 .. k : q[m] # x
    BY <2>1, <2>2, <1>2 DEF Once
  <2> QED
    BY <2>2, <2>3, RangeOf
<1>5. ASSUME NEW x \in Range(q), ~\E i \in 1 .. k : q[i] = x PROVE x \in Range(r)
  <2>1. PICK m \in 1 .. Len(q) : q[m] = x
    BY RangeOf
  <2>2. m - k \in 1 .. Len(r) /\ k + (m - k) = m
    <3>1. ~(m \in 1 .. k)
      BY <2>1, <1>5
    <3> QED
      BY <2>1, <3>1, <1>1, <1>2
  <2>3. r[m - k] = x
    BY <2>1, <2>2, <1>1
  <2> QED
    BY <2>2, <2>3, <1>1, RangeOf
<1> QED
  BY <1>1, <1>3, <1>4, <1>5 DEF r, IsRest

-----------------------------------------------------------------------------
(* Dealing permits out                                                     *)

Sum(f) == SumFunctionOnSet(f, Clients)

\* What the first k of a queue ask for, when f says what each does.
Asked(f, q, k) == SumFunctionOnSet([i \in 1 .. Len(q) |-> f[q[i]]], 1 .. k)

\* The first k of q have what f says, the others what kept says.
Given(f, q, k, kept) ==
    [c \in Clients |-> IF \E i \in 1 .. k : q[i] = c THEN f[c] ELSE kept[c]]

LEMMA AskedGrows ==
    ASSUME NEW f \in [Clients -> Nat], NEW q \in Seq(Clients)
    PROVE  /\ Asked(f, q, 0) = 0
           /\ \A k \in 0 .. Len(q) : Asked(f, q, k) \in Nat
           /\ \A k \in 0 .. Len(q) : k < Len(q) => Asked(f, q, k + 1) = Asked(f, q, k) + f[q[k + 1]]
<1> DEFINE w == [i \in 1 .. Len(q) |-> f[q[i]]]
<1>1. NatOn(w, 1 .. Len(q)) /\ Len(q) \in Nat
  BY DEF NatOn
<1>2. IsFiniteSet(1 .. Len(q))
  BY <1>1, FS_Interval
<1>3. \A i \in 1 .. Len(q) : w[i] = f[q[i]]
  OBVIOUS
<1>4. \A k : Asked(f, q, k) = SumFunctionOnSet(w, 1 .. k)
  BY DEF Asked
<1> HIDE DEF w
<1>5. Asked(f, q, 0) = 0
  <2>1. 1 .. 0 = {}
    OBVIOUS
  <2> QED
    BY <2>1, <1>4, SumNone
<1>6. ASSUME NEW k \in 0 .. Len(q)
      PROVE  1 .. k \in SUBSET (1 .. Len(q)) /\ Asked(f, q, k) \in Nat
  <2>1. 1 .. k \in SUBSET (1 .. Len(q))
    BY <1>1
  <2> QED
    BY <2>1, <1>1, <1>2, <1>4, SumType
<1>7. ASSUME NEW k \in 0 .. Len(q), k < Len(q)
      PROVE  Asked(f, q, k + 1) = Asked(f, q, k) + f[q[k + 1]]
  <2>1. /\ k + 1 \in (1 .. Len(q)) \ (1 .. k)
        /\ 1 .. (k + 1) = (1 .. k) \cup {k + 1}
    BY <1>1, <1>7
  <2>2. SumFunctionOnSet(w, (1 .. k) \cup {k + 1}) = w[k + 1] + SumFunctionOnSet(w, 1 .. k)
    <3> DEFINE T == 1 .. Len(q)
               U == 1 .. k
               x == k + 1
    <3>1. IsFiniteSet(T) /\ NatOn(w, T) /\ U \in SUBSET T /\ x \in T \ U
      BY <2>1, <1>1, <1>2, <1>6
    <3> HIDE DEF T, U, x
    <3>2. SumFunctionOnSet(w, U \cup {x}) = w[x] + SumFunctionOnSet(w, U)
      BY <3>1, SumAdds
    <3> QED
      BY <3>2 DEF U, x
  <2>3. Asked(f, q, k) \in Nat /\ w[k + 1] = f[q[k + 1]] /\ w[k + 1] \in Nat
    BY <2>1, <1>1, <1>3, <1>6 DEF NatOn
  <2>4. Asked(f, q, k + 1) = w[k + 1] + Asked(f, q, k)
    BY <2>1, <2>2, <1>4
  <2> QED
    BY <2>3, <2>4
<1> QED
  BY <1>5, <1>6, <1>7

\* What is given to the first k is what they ask for.
LEMMA GivenIsAsked ==
    ASSUME IsFiniteSet(Clients),
           NEW f \in [Clients -> Nat], NEW kept \in [Clients -> Nat],
           NEW q \in Seq(Clients), Once(q), \A i \in 1 .. Len(q) : kept[q[i]] = 0,
           NEW k \in 0 .. Len(q)
    PROVE  /\ Given(f, q, k, kept) \in [Clients -> Nat]
           /\ Sum(Given(f, q, k, kept)) = Sum(kept) + Asked(f, q, k)
<1> DEFINE G(m) == Given(f, q, m, kept)
           D == {m \in Nat : m <= Len(q) => Sum(G(m)) = Sum(kept) + Asked(f, q, m)}
<1>1. \A m \in Nat : G(m) \in [Clients -> Nat]
  BY DEF Given
<1>2. NatOn(kept, Clients) /\ \A m \in Nat : NatOn(G(m), Clients)
  BY <1>1 DEF NatOn
<1>3. Sum(kept) \in Nat
  BY <1>2, SumType DEF Sum
<1>4. 0 \in D
  <2>1. G(0) = kept
    BY DEF Given
  <2> QED
    BY <2>1, <1>3, AskedGrows
<1>5. ASSUME NEW m \in D PROVE m + 1 \in D
  <2> SUFFICES ASSUME m + 1 <= Len(q)
               PROVE  Sum(G(m + 1)) = Sum(kept) + Asked(f, q, m + 1)
    OBVIOUS
  <2>1. m \in 0 .. Len(q) /\ m < Len(q) /\ m + 1 \in 1 .. Len(q) /\ Len(q) \in Nat
    OBVIOUS
  <2> DEFINE c == q[m + 1]
  <2>2. c \in Clients
    BY <2>1
  <2>3. ASSUME NEW i \in 1 .. m, q[i] = c
        PROVE  FALSE
    <3>1. i \in 1 .. Len(q) /\ i # m + 1
      BY <2>1
    <3> QED
      BY <2>1, <2>3, <3>1 DEF Once
  <2>4. G(m)[c] = 0 /\ G(m + 1)[c] = f[c]
    <3>1. ~\E i \in 1 .. m : q[i] = c
      BY <2>3
    <3>2. \E i \in 1 .. m + 1 : q[i] = c
      <4>1. m + 1 \in 1 .. m + 1
        BY <2>1
      <4> QED
        BY <4>1
    <3>3. G(m)[c] = kept[c] /\ G(m + 1)[c] = f[c]
      BY <2>2, <3>1, <3>2 DEF Given
    <3> QED
      BY <2>1, <2>2, <3>3
  <2>5. \A d \in Clients \ {c} : G(m)[d] = G(m + 1)[d]
    <3> TAKE d \in Clients \ {c}
    <3>1. 1 .. m + 1 = (1 .. m) \cup {m + 1}
      BY <2>1
    <3>2. (\E i \in 1 .. m + 1 : q[i] = d) <=> (\E i \in 1 .. m : q[i] = d)
      BY <3>1
    <3> QED
      BY <3>2 DEF Given
  <2>6. Sum(kept) + Asked(f, q, m) + f[c] = Sum(kept) + Asked(f, q, m + 1)
    <3>1. /\ Asked(f, q, m + 1) = Asked(f, q, m) + f[c]
          /\ Asked(f, q, m) \in Nat
      BY <2>1, AskedGrows
    <3>2. f[c] \in Nat
      BY <2>2
    <3> QED
      BY <3>1, <3>2, <1>3
  <2>7. m + 1 \in Nat /\ m \in Nat
    BY <2>1
  <2> HIDE DEF G, c
  <2>8. Sum(G(m)) + f[c] = Sum(G(m + 1)) + 0
    <3>1. NatOn(G(m), Clients) /\ NatOn(G(m + 1), Clients)
      BY <2>7, <1>2
    <3> DEFINE g == G(m)
               h == G(m + 1)
    <3>2. NatOn(g, Clients) /\ NatOn(h, Clients) /\ g[c] = 0 /\ h[c] = f[c]
      BY <2>4, <3>1
    <3>3. \A d \in Clients \ {c} : g[d] = h[d]
      BY <2>5
    <3> HIDE DEF g, h
    <3>4. \A x \in Clients : (\A y \in Clients \ {x} : g[y] = h[y]) =>
             SumFunctionOnSet(g, Clients) + h[x] = SumFunctionOnSet(h, Clients) + g[x]
      BY <3>2, SumChanges
    <3>5. Sum(g) + h[c] = Sum(h) + g[c]
      BY <2>2, <3>3, <3>4 DEF Sum
    <3> QED
      BY <3>2, <3>5 DEF g, h
  <2>9. Sum(G(m + 1)) \in Nat /\ Sum(G(m)) = Sum(kept) + Asked(f, q, m)
    BY <1>2, <2>1, <2>7, SumType DEF Sum
  <2> QED
    BY <2>6, <2>8, <2>9
<1>6. D = Nat
  <2> HIDE DEF D
  <2>1. D \in SUBSET Nat
    BY DEF D
  <2> QED
    BY <1>4, <1>5, <2>1, Induction
<1>7. k \in D /\ k <= Len(q) /\ k \in Nat
  BY <1>6
<1> QED
  BY <1>1, <1>7

LEMMA SumNat ==
    ASSUME IsFiniteSet(Clients), NEW f \in [Clients -> Nat]
    PROVE  Sum(f) \in Nat
  BY SumType DEF NatOn, Sum

LEMMA SumExcept ==
    ASSUME IsFiniteSet(Clients), NEW f \in [Clients -> Nat], NEW c \in Clients, NEW v \in Nat
    PROVE  Sum([f EXCEPT ![c] = v]) + f[c] = Sum(f) + v
<1> DEFINE g == [f EXCEPT ![c] = v]
<1>1. NatOn(f, Clients) /\ NatOn(g, Clients) /\ g[c] = v /\ g \in [Clients -> Nat]
  BY DEF NatOn
<1>2. \A d \in Clients \ {c} : f[d] = g[d]
  OBVIOUS
<1>3. Sum(f) \in Nat /\ Sum(g) \in Nat /\ f[c] \in Nat
  BY <1>1, SumNat
<1> HIDE DEF g
<1>4. Sum(f) + g[c] = Sum(g) + f[c]
  BY <1>1, <1>2, SumChanges DEF Sum
<1> QED
  BY <1>1, <1>3, <1>4 DEF g

\* The operators that the contract takes from the library.
LEMMA SemOperators ==
    /\ \A f, S : Sem!SumFunctionOnSet(f, S) = SumFunctionOnSet(f, S)
    /\ \A s, e : Sem!Without(s, e) = Without(s, e)
<1>1. \A f, S : Sem!SumFunctionOnSet(f, S) = SumFunctionOnSet(f, S)
  BY DEF SumFunctionOnSet, FoldFunctionOnSet, MapThenFoldSet,
         Sem!SumFunctionOnSet, Sem!FoldFunctionOnSet, Sem!MapThenFoldSet
<1>2. \A s, e : Sem!Without(s, e) = Without(s, e)
  BY DEF Without, Sem!Without
<1> QED
  BY <1>1, <1>2

\* After a deal the pool is short of what the oldest waiter wants; who has left
\* the queue has all it asked for; and no permit is lost.
LEMMA Dealt ==
    ASSUME IsFiniteSet(Clients), need \in [Clients -> Nat],
           NEW p \in Nat, NEW q \in Seq(Clients), Once(q),
           NEW kept \in [Clients -> Nat], \A c \in Range(q) : kept[c] = 0,
           Sem!Deal(p, q, kept)
    PROVE  /\ pool' \in Nat /\ queue' \in Seq(Clients) /\ held' \in [Clients -> Nat]
           /\ Once(queue') /\ Range(queue') \subseteq Range(q)
           /\ \A c \in Clients :
                 held'[c] = IF c \in Range(q) \ Range(queue') THEN need[c] ELSE kept[c]
           /\ queue' # <<>> => pool' < need[queue'[1]]
           /\ pool' + Sum(held') = p + Sum(kept)
           /\ q = <<>> => queue' = <<>> /\ held' = kept /\ pool' = p
<1> DEFINE D(k) == Asked(need, q, k)
<1>1. PICK k \in 0 .. Len(q) :
        /\ D(k) <= p
        /\ k < Len(q) => D(k + 1) > p
        /\ pool' = p - D(k)
        /\ queue' = SubSeq(q, k + 1, Len(q))
        /\ held' = Given(need, q, k, kept)
  <2>1. \A k : Sem!Demand(q, k) = D(k)
    BY SemOperators DEF Sem!Demand, Asked
  <2>2. \A k : Given(need, q, k, kept) =
                 [c \in Clients |-> IF \E i \in 1 .. k : q[i] = c THEN need[c] ELSE kept[c]]
    BY DEF Given
  <2>3. PICK k \in 0 .. Len(q) :
          /\ Sem!Demand(q, k) <= p
          /\ k < Len(q) => Sem!Demand(q, k + 1) > p
          /\ pool' = p - Sem!Demand(q, k)
          /\ queue' = SubSeq(q, k + 1, Len(q))
          /\ held' = [c \in Clients |-> IF \E i \in 1 .. k : q[i] = c THEN need[c] ELSE kept[c]]
    BY DEF Sem!Deal
  <2>4. Sem!Demand(q, k) = D(k) /\ Sem!Demand(q, k + 1) = D(k + 1)
    BY <2>1
  <2>5. held' = Given(need, q, k, kept)
    BY <2>2, <2>3
  <2> HIDE DEF D
  <2> QED
    BY <2>3, <2>4, <2>5
<1>2. \A i \in 1 .. Len(q) : kept[q[i]] = 0
  BY RangeOf
<1>3. held' \in [Clients -> Nat] /\ Sum(held') = Sum(kept) + D(k)
  BY <1>1, <1>2, GivenIsAsked
<1>4. Sum(kept) \in Nat /\ D(k) \in Nat
  BY SumNat, AskedGrows
<1>5. /\ queue' \in Seq(Clients) /\ Once(queue') /\ Len(queue') = Len(q) - k
      /\ \A i \in 1 .. Len(queue') : queue'[i] = q[k + i]
      /\ \A x : x \in Range(queue') <=> x \in Range(q) /\ ~\E i \in 1 .. k : q[i] = x
  <2>1. queue' = SubSeq(q, k + 1, Len(q))
    BY <1>1
  <2>2. IsRest(queue', q, k, Clients)
    BY <2>1, Rest
  <2> QED
    BY <2>2 DEF IsRest
<1>6. k < Len(q) => D(k + 1) = D(k) + need[q[k + 1]]
  BY AskedGrows
<1> HIDE DEF D
<1>7. pool' \in Nat /\ pool' + Sum(held') = p + Sum(kept)
  BY <1>1, <1>3, <1>4
<1>8. ASSUME queue' # <<>> PROVE pool' < need[queue'[1]]
  <2>1. Len(queue') \in Nat /\ Len(queue') # 0 /\ Len(q) \in Nat
    BY <1>5, <1>8, EmptySeq
  <2>2. k < Len(q) /\ queue'[1] = q[k + 1] /\ k + 1 \in 1 .. Len(q)
    <3>1. Len(queue') = Len(q) - k /\ 1 \in 1 .. Len(queue') /\ k \in Nat
      BY <2>1, <1>5
    <3>2. queue'[1] = q[k + 1]
      BY <3>1, <1>5
    <3> QED
      BY <2>1, <3>1, <3>2
  <2>3. need[q[k + 1]] \in Nat
    BY <2>2
  <2>4. D(k) + need[q[k + 1]] > p /\ pool' = p - D(k)
    BY <2>2, <1>1, <1>6
  <2> QED
    BY <2>2, <2>3, <2>4, <1>4
<1>9. ASSUME NEW c \in Clients
      PROVE  held'[c] = IF c \in Range(q) \ Range(queue') THEN need[c] ELSE kept[c]
  <2>1. \A i \in 1 .. k : q[i] \in Range(q)
    BY RangeOf
  <2>2. c \in Range(queue') <=> c \in Range(q) /\ ~\E i \in 1 .. k : q[i] = c
    BY <1>5
  <2>3. c \in Range(q) \ Range(queue') <=> \E i \in 1 .. k : q[i] = c
    BY <2>1, <2>2
  <2> QED
    BY <2>3, <1>1 DEF Given
<1>10. ASSUME q = <<>> PROVE queue' = <<>> /\ held' = kept /\ pool' = p
  <2>1. Len(q) = 0 /\ k = 0
    BY <1>10
  <2>2. D(0) = 0
    BY AskedGrows DEF D
  <2>4. queue' = <<>>
    BY <2>1, <1>5, EmptySeq
  <2>3. held' = kept
    BY <2>1, <1>1 DEF Given
  <2> QED
    BY <2>1, <2>2, <2>3, <2>4, <1>1
<1> QED
  BY <1>3, <1>5, <1>7, <1>8, <1>9, <1>10

-----------------------------------------------------------------------------
(* The contract of the semaphore                                           *)

\* Permits in the pool and with clients.
Existing == pool + Sum(held)

ClientInv(c) ==
    /\ c \in Range(queue) => phase[c] = "waiting" /\ need[c] > 0 /\ held[c] = 0
    /\ phase[c] = "waiting" /\ c \notin Range(queue) /\ ~closed => held[c] = need[c]
    /\ phase[c] = "granted" => held[c] = need[c]
    /\ phase[c] = "out" => held[c] = 0 /\ need[c] = 0
    /\ held[c] <= need[c]

\* The oldest waiter is short of permits, and who waits no more is not.
SemInv ==
    /\ pool \in Nat /\ closed \in BOOLEAN
    /\ queue \in Seq(Clients) /\ Once(queue)
    /\ phase \in [Clients -> Sem!Phases]
    /\ need \in [Clients -> Nat] /\ held \in [Clients -> Nat]
    /\ closed => queue = <<>>
    /\ queue # <<>> => pool < need[queue[1]]
    /\ \A c \in Clients : ClientInv(c)

LEMMA InitKeeps ==
    ASSUME IsFiniteSet(Clients), NEW n \in Nat, Sem!InitWith(n)
    PROVE  SemInv /\ Existing = n
<1>1. SemInv
  <2>1. queue \in Seq(Clients) /\ Once(queue) /\ Range(queue) = {}
    BY DEF Sem!InitWith, Once, Range
  <2>2. \A c \in Clients : phase[c] = "out" /\ need[c] = 0 /\ held[c] = 0
    BY DEF Sem!InitWith
  <2>3. \A c \in Clients : ClientInv(c)
    BY <2>1, <2>2 DEF ClientInv
  <2> QED
    BY <2>1, <2>3 DEF Sem!InitWith, SemInv, Sem!Phases
<1>2. Sum(held) = 0
  <2>1. NatOn(held, Clients) /\ \A c \in Clients \ {} : held[c] = 0
    BY DEF Sem!InitWith, NatOn
  <2>2. SumFunctionOnSet(held, {}) = SumFunctionOnSet(held, Clients)
    BY <2>1, SumOfPart
  <2> QED
    BY <2>2, SumNone DEF Sum
<1> QED
  BY <1>1, <1>2 DEF Existing, Sem!InitWith

LEMMA AcquireKeeps ==
    ASSUME IsFiniteSet(Clients), SemInv, NEW c \in Clients, NEW n \in Nat, Sem!Acquire(c, n)
    PROVE  SemInv' /\ Existing' = Existing
<1> USE DEF Sem!Acquire, SemInv, ClientInv
<1>1. c \notin Range(queue)
  OBVIOUS
<1>2. SemInv'
  BY <1>1 DEF Sem!Phases
<1>3. held' = [held EXCEPT ![c] = n] /\ held[c] = 0
  OBVIOUS
<1>4. Sum(held') + held[c] = Sum(held) + n /\ Sum(held) \in Nat /\ Sum(held') \in Nat
  <2>1. held \in [Clients -> Nat] /\ held' \in [Clients -> Nat]
    BY <1>2
  <2> HIDE DEF Sem!Acquire, SemInv, ClientInv
  <2> QED
    BY <2>1, <1>3, SumExcept, SumNat
<1>5. pool \in Nat /\ pool' \in Nat /\ pool' = pool - n
  BY <1>2
<1> QED
  BY <1>2, <1>3, <1>4, <1>5 DEF Existing

LEMMA WaitKeeps ==
    ASSUME IsFiniteSet(Clients), SemInv, NEW c \in Clients, NEW n \in Nat, Sem!Wait(c, n)
    PROVE  SemInv' /\ Existing' = Existing
<1> USE DEF Sem!Wait, SemInv
<1>1. c \notin Range(queue)
  BY DEF ClientInv
<1>2. /\ queue' = Append(queue, c) /\ queue' \in Seq(Clients) /\ Len(queue') = Len(queue) + 1
      /\ \A i \in 1 .. Len(queue) : queue'[i] = queue[i]
      /\ queue'[Len(queue) + 1] = c /\ Len(queue) \in Nat
  BY AppendProperties
<1>3. Once(queue')
  BY <1>1, <1>2, RangeOf DEF Once
<1>4. \A x : x \in Range(queue') <=> x \in Range(queue) \/ x = c
  <2>1. Range(queue') = {queue'[i] : i \in 1 .. Len(queue')}
    BY <1>2, RangeOf
  <2>2. Range(queue) = {queue[i] : i \in 1 .. Len(queue)}
    BY RangeOf
  <2> QED
    BY <1>2, <2>1, <2>2
<1>5. \A d \in Clients : ClientInv(d)'
  BY <1>1, <1>4 DEF ClientInv
<1>6. pool' < need'[queue'[1]]
  <2>1. CASE queue = <<>>
    BY <2>1, <1>2
  <2>2. CASE queue # <<>>
    <3>1. 1 \in 1 .. Len(queue) /\ queue'[1] = queue[1] /\ queue[1] \in Clients
      BY <2>2, <1>2, EmptySeq
    <3>2. queue[1] # c
      BY <3>1, <1>1, RangeOf
    <3> QED
      BY <2>2, <3>1, <3>2
  <2> QED
    BY <2>1, <2>2
<1> QED
  BY <1>2, <1>3, <1>5, <1>6 DEF Existing, Sem!Phases

LEMMA ReceiveKeeps ==
    ASSUME SemInv, NEW c \in Clients, Sem!Receive(c)
    PROVE  SemInv' /\ Existing' = Existing
  BY DEF Sem!Receive, SemInv, ClientInv, Existing, Sem!Phases

\* What a deal that starts from kept does, and leaves of the queue q.
LEMMA DealKeeps ==
    ASSUME IsFiniteSet(Clients), SemInv,
           NEW p \in Nat, NEW q \in Seq(Clients), Once(q), Range(q) \subseteq Range(queue),
           NEW kept \in [Clients -> Nat], \A c \in Range(q) : kept[c] = 0,
           Sem!Deal(p, q, kept),
           UNCHANGED closed, need' \in [Clients -> Nat], phase' \in [Clients -> Sem!Phases],
           \A c \in Range(q) : phase'[c] = phase[c] /\ need'[c] = need[c],
           closed => q = <<>>,
           \A c \in Clients : c \notin Range(q) =>
              /\ phase'[c] = "waiting" /\ ~closed => kept[c] = need'[c]
              /\ phase'[c] = "granted" => kept[c] = need'[c]
              /\ phase'[c] = "out" => kept[c] = 0 /\ need'[c] = 0
              /\ kept[c] <= need'[c]
    PROVE  SemInv' /\ Existing' = p + Sum(kept)
<1>1. /\ pool' \in Nat /\ queue' \in Seq(Clients) /\ held' \in [Clients -> Nat]
      /\ Once(queue') /\ Range(queue') \subseteq Range(q)
      /\ \A c \in Clients :
            held'[c] = IF c \in Range(q) \ Range(queue') THEN need[c] ELSE kept[c]
      /\ queue' # <<>> => pool' < need[queue'[1]]
      /\ pool' + Sum(held') = p + Sum(kept)
      /\ q = <<>> => queue' = <<>> /\ held' = kept /\ pool' = p
  BY Dealt DEF SemInv
<1>2. queue' # <<>> => queue'[1] \in Range(q)
  <2>1. queue' # <<>> => 1 \in 1 .. Len(queue')
    BY <1>1, EmptySeq
  <2> QED
    BY <2>1, <1>1, RangeOf
<1>3. ASSUME NEW c \in Clients PROVE ClientInv(c)'
  <2>1. need[c] \in Nat /\ need'[c] \in Nat /\ kept[c] \in Nat
    BY DEF SemInv
  <2>2. CASE c \in Range(q)
    <3>1. /\ phase[c] = "waiting" /\ need[c] > 0 /\ kept[c] = 0
          /\ phase'[c] = phase[c] /\ need'[c] = need[c]
      BY <2>2 DEF SemInv, ClientInv
    <3>2. held'[c] = IF c \in Range(queue') THEN 0 ELSE need[c]
      BY <2>2, <3>1, <1>1
    <3> QED
      BY <2>1, <3>1, <3>2 DEF ClientInv
  <2>3. CASE c \notin Range(q)
    <3>1. held'[c] = kept[c] /\ c \notin Range(queue')
      BY <2>3, <1>1
    <3> QED
      BY <2>3, <3>1 DEF ClientInv
  <2> QED
    BY <2>2, <2>3
<1> QED
  BY <1>1, <1>2, <1>3 DEF SemInv, Existing

LEMMA DropKeeps ==
    ASSUME IsFiniteSet(Clients), SemInv, NEW c \in Clients, Sem!Drop(c)
    PROVE  SemInv' /\ Existing' = Existing
<1> DEFINE q == Without(queue, c)
           kept == [held EXCEPT ![c] = 0]
           p == pool + held[c]
<1>1. q \in Seq(Clients) /\ Once(q) /\ Range(q) = Range(queue) \ {c}
  BY Unlinked DEF SemInv
<1>2. p \in Nat /\ kept \in [Clients -> Nat]
  BY DEF SemInv
<1>3. Sem!Deal(p, q, kept)
  BY SemOperators DEF Sem!Drop
<1>4. closed => q = <<>>
  BY DEF SemInv, Without
<1>5. \A d \in Range(q) : kept[d] = 0 /\ d # c /\ d \in Clients
  BY <1>1, RangeOf DEF SemInv, ClientInv
<1>6. /\ phase' = [phase EXCEPT ![c] = "out"] /\ need' = [need EXCEPT ![c] = 0]
      /\ UNCHANGED closed
  BY DEF Sem!Drop
<1>7. need' \in [Clients -> Nat] /\ phase' \in [Clients -> Sem!Phases]
  BY <1>6 DEF SemInv, Sem!Phases
<1>8. \A d \in Range(q) : phase'[d] = phase[d] /\ need'[d] = need[d]
  BY <1>5, <1>6 DEF SemInv
<1>9. ASSUME NEW d \in Clients, d \notin Range(q)
      PROVE  /\ phase'[d] = "waiting" /\ ~closed => kept[d] = need'[d]
             /\ phase'[d] = "granted" => kept[d] = need'[d]
             /\ phase'[d] = "out" => kept[d] = 0 /\ need'[d] = 0
             /\ kept[d] <= need'[d]
  BY <1>1, <1>6, <1>9 DEF SemInv, ClientInv
<1>10. Sum(kept) + held[c] = Sum(held) + 0 /\ Sum(kept) \in Nat /\ Sum(held) \in Nat
  BY <1>2, SumExcept, SumNat DEF SemInv
<1>11. p + Sum(kept) = Existing
  BY <1>10 DEF Existing, SemInv
<1>12. Range(q) \subseteq Range(queue)
  BY <1>1
<1> HIDE DEF q, kept, p
<1>13. SemInv' /\ Existing' = p + Sum(kept)
  BY <1>1, <1>2, <1>3, <1>4, <1>5, <1>6, <1>7, <1>8, <1>9, <1>12, DealKeeps
<1> QED
  BY <1>11, <1>13

LEMMA ForgetKeeps ==
    ASSUME IsFiniteSet(Clients), SemInv, NEW c \in Clients, Sem!Forget(c)
    PROVE  SemInv' /\ Existing' + held[c] = Existing
<1>1. SemInv'
  <2>1. queue # <<>> => queue[1] # c
    <3>1. queue # <<>> => 1 \in 1 .. Len(queue)
      BY EmptySeq DEF SemInv
    <3>2. c \notin Range(queue)
      BY DEF SemInv, ClientInv, Sem!Forget
    <3> QED
      BY <3>1, <3>2, RangeOf DEF SemInv
  <2> QED
    BY <2>1 DEF Sem!Forget, SemInv, ClientInv, Sem!Phases
<1>2. held' = [held EXCEPT ![c] = 0] /\ pool' = pool
  BY DEF Sem!Forget
<1>3. held \in [Clients -> Nat] /\ held' \in [Clients -> Nat] /\ pool \in Nat /\ held[c] \in Nat
  BY <1>1 DEF SemInv
<1>4. Sum(held') + held[c] = Sum(held) + 0 /\ Sum(held) \in Nat /\ Sum(held') \in Nat
  BY <1>2, <1>3, SumExcept, SumNat
<1> QED
  BY <1>1, <1>2, <1>3, <1>4 DEF Existing

LEMMA ReturnKeeps ==
    ASSUME IsFiniteSet(Clients), SemInv, NEW c \in Clients, NEW n \in Nat, Sem!Return(c, n)
    PROVE  SemInv' /\ Existing' = Existing
<1> DEFINE kept == [held EXCEPT ![c] = held[c] - n]
           p == pool + n
<1>1. c \notin Range(queue) /\ held[c] = need[c] /\ held[c] - n \in Nat
  BY DEF SemInv, ClientInv, Sem!Return
<1>2. p \in Nat /\ kept \in [Clients -> Nat]
  BY <1>1 DEF SemInv
<1>3. Sem!Deal(p, queue, kept)
  BY DEF Sem!Return
<1>4. \A d \in Range(queue) : kept[d] = 0 /\ d # c /\ d \in Clients
  BY <1>1, RangeOf DEF SemInv, ClientInv
<1>5. /\ phase' = phase /\ need' = [need EXCEPT ![c] = need[c] - n]
      /\ UNCHANGED closed
  BY DEF Sem!Return
<1>6. need' \in [Clients -> Nat] /\ phase' \in [Clients -> Sem!Phases]
  BY <1>1, <1>5 DEF SemInv
<1>7. \A d \in Range(queue) : phase'[d] = phase[d] /\ need'[d] = need[d]
  BY <1>4, <1>5 DEF SemInv
<1>8. ASSUME NEW d \in Clients, d \notin Range(queue)
      PROVE  /\ phase'[d] = "waiting" /\ ~closed => kept[d] = need'[d]
             /\ phase'[d] = "granted" => kept[d] = need'[d]
             /\ phase'[d] = "out" => kept[d] = 0 /\ need'[d] = 0
             /\ kept[d] <= need'[d]
  BY <1>1, <1>5, <1>8 DEF SemInv, ClientInv, Sem!Return
<1>9. Sum(kept) + held[c] = Sum(held) + (held[c] - n) /\ Sum(kept) \in Nat /\ Sum(held) \in Nat
  BY <1>1, <1>2, SumExcept, SumNat DEF SemInv
<1>10. p + Sum(kept) = Existing
  <2>1. held[c] \in Nat /\ pool \in Nat
    BY DEF SemInv
  <2> HIDE DEF kept
  <2> QED
    BY <2>1, <1>1, <1>9 DEF Existing
<1> HIDE DEF kept, p
<1>11. queue \in Seq(Clients) /\ Once(queue) /\ (closed => queue = <<>>)
  BY DEF SemInv
<1>12. SemInv' /\ Existing' = p + Sum(kept)
  BY <1>2, <1>3, <1>4, <1>5, <1>6, <1>7, <1>8, <1>11, DealKeeps
<1> QED
  BY <1>10, <1>12

LEMMA AddKeeps ==
    ASSUME IsFiniteSet(Clients), SemInv, NEW n \in Nat, Sem!Add(n)
    PROVE  SemInv' /\ Existing' = Existing + n
<1>1. pool + n \in Nat /\ Sem!Deal(pool + n, queue, held) /\ UNCHANGED <<closed, phase, need>>
  BY DEF SemInv, Sem!Add
<1>2. \A d \in Range(queue) : held[d] = 0
  BY RangeOf DEF SemInv, ClientInv
<1>3. SemInv' /\ Existing' = (pool + n) + Sum(held)
  <2> DEFINE p == pool + n
  <2>1. p \in Nat /\ Sem!Deal(p, queue, held)
    BY <1>1
  <2>2. \A d \in Clients : d \notin Range(queue) =>
           /\ phase'[d] = "waiting" /\ ~closed => held[d] = need'[d]
           /\ phase'[d] = "granted" => held[d] = need'[d]
           /\ phase'[d] = "out" => held[d] = 0 /\ need'[d] = 0
           /\ held[d] <= need'[d]
    BY <1>1 DEF SemInv, ClientInv
  <2>3. /\ need' \in [Clients -> Nat] /\ phase' \in [Clients -> Sem!Phases]
        /\ \A d \in Range(queue) : phase'[d] = phase[d] /\ need'[d] = need[d]
    BY <1>1 DEF SemInv
  <2> HIDE DEF p
  <2>4. SemInv' /\ Existing' = p + Sum(held)
    BY <2>1, <2>2, <2>3, <1>1, <1>2, DealKeeps DEF SemInv
  <2> QED
    BY <2>4 DEF p
<1>4. Sum(held) \in Nat /\ pool \in Nat
  BY SumNat DEF SemInv
<1> QED
  BY <1>3, <1>4 DEF Existing

LEMMA CloseKeeps ==
    ASSUME IsFiniteSet(Clients), SemInv, Sem!Close
    PROVE  /\ SemInv' /\ Existing' = Existing
           /\ queue = <<>> => pool' = pool /\ held' = held
           /\ \A c \in Clients : held'[c] # held[c] => c \in Range(queue)
<1>1. CASE queue = <<>>
  BY <1>1 DEF Sem!Close, SemInv, ClientInv, Existing
<1>2. CASE queue # <<>>
  <2>1. 1 \in 1 .. Len(queue) /\ Head(queue) = queue[1]
    BY <1>2, EmptySeq, HeadTailProperties DEF SemInv
  <2>2. queue[1] \in Range(queue) /\ queue[1] \in Clients
    BY <2>1, RangeOf DEF SemInv
  <2>3. queue' = <<>> /\ queue' \in Seq(Clients) /\ Once(queue') /\ Range(queue') = {}
    BY DEF Sem!Close, Once, Range
  <2>4. pool' = 0 /\ held' = [held EXCEPT ![queue[1]] = pool] /\ closed'
        /\ UNCHANGED <<phase, need>>
    BY <1>2, <2>1 DEF Sem!Close
  <2>5. phase[queue[1]] = "waiting" /\ held[queue[1]] = 0
    BY <2>2 DEF SemInv, ClientInv
  <2>6. SemInv'
    BY <2>2, <2>3, <2>4, <2>5 DEF SemInv, ClientInv
  <2>7. held \in [Clients -> Nat] /\ held' \in [Clients -> Nat] /\ pool \in Nat
    BY <2>6 DEF SemInv
  <2>8. Sum(held') + 0 = Sum(held) + pool /\ Sum(held) \in Nat /\ Sum(held') \in Nat
    <3> DEFINE h == queue[1]
    <3>1. h \in Clients /\ held' = [held EXCEPT ![h] = pool] /\ held[h] = 0
      BY <2>2, <2>4, <2>5
    <3> HIDE DEF h
    <3> QED
      BY <3>1, <2>7, SumExcept, SumNat
  <2>9. Existing' = Existing
    BY <2>4, <2>7, <2>8 DEF Existing
  <2>10. \A c \in Clients : held'[c] # held[c] => c \in Range(queue)
    BY <2>2, <2>4, <2>7
  <2> QED
    BY <1>2, <2>6, <2>9, <2>10
<1> QED
  BY <1>1, <1>2

\* Nobody holds more than there is, and with all zero there is nothing.
LEMMA HeldExists ==
    ASSUME IsFiniteSet(Clients), SemInv
    PROVE  /\ Existing \in Nat /\ Sum(held) \in Nat /\ Existing = pool + Sum(held)
           /\ \A c \in Clients : pool + held[c] <= Existing
           /\ \A c, d \in Clients : c # d => pool + held[c] + held[d] <= Existing
           /\ (\A c \in Clients : held[c] = 0) => Existing = pool
<1>1. NatOn(held, Clients) /\ held \in [Clients -> Nat] /\ pool \in Nat
  BY DEF NatOn, SemInv
<1>2. Sum(held) \in Nat
  BY <1>1, SumNat
<1>3. /\ \A c \in Clients : held[c] <= Sum(held)
      /\ \A c, d \in Clients : c # d => held[c] + held[d] <= Sum(held)
  BY <1>1, SumOfTwo DEF Sum
<1>4. ASSUME \A c \in Clients : held[c] = 0
      PROVE  Sum(held) = 0
  <2>1. SumFunctionOnSet(held, {}) = SumFunctionOnSet(held, Clients)
    BY <1>1, <1>4, SumOfPart
  <2> QED
    BY <2>1, SumNone DEF Sum
<1>5. \A c, d \in Clients : c # d => pool + held[c] + held[d] <= pool + Sum(held)
  <2> TAKE c, d \in Clients
  <2>1. held[c] \in Nat /\ held[d] \in Nat
    BY <1>1
  <2> QED
    BY <2>1, <1>1, <1>2, <1>3
<1>6. \A c \in Clients : pool + held[c] <= pool + Sum(held)
  BY <1>1, <1>2, <1>3
<1> QED
  BY <1>1, <1>2, <1>4, <1>5, <1>6 DEF Existing

-----------------------------------------------------------------------------
(* OnceCell                                                                *)

\* The cell uses the contract as it is.
LEMMA CellContract ==
    /\ \A n : C!Sem!InitWith(n) => Sem!InitWith(n)
    /\ \A c, n : /\ C!Sem!Acquire(c, n) => Sem!Acquire(c, n)
                 /\ C!Sem!Wait(c, n) => Sem!Wait(c, n)
    /\ \A c : /\ C!Sem!Receive(c) => Sem!Receive(c)
              /\ C!Sem!Drop(c) => Sem!Drop(c)
<1>1. \A f, S : C!Sem!SumFunctionOnSet(f, S) = Sem!SumFunctionOnSet(f, S)
  BY DEF Sem!SumFunctionOnSet, Sem!FoldFunctionOnSet, Sem!MapThenFoldSet,
         C!Sem!SumFunctionOnSet, C!Sem!FoldFunctionOnSet, C!Sem!MapThenFoldSet
<1>2. \A s, e : C!Sem!Without(s, e) = Sem!Without(s, e)
  BY DEF Sem!Without, C!Sem!Without
<1>3. \A p, q, kept : C!Sem!Deal(p, q, kept) => Sem!Deal(p, q, kept)
  BY <1>1 DEF C!Sem!Deal, C!Sem!Demand, Sem!Deal, Sem!Demand
<1>4. \A c : C!Sem!Drop(c) => Sem!Drop(c)
  BY <1>2, <1>3 DEF C!Sem!Drop, Sem!Drop
<1> QED
  BY <1>4 DEF C!Sem!InitWith, Sem!InitWith, C!Sem!Acquire, Sem!Acquire,
              C!Sem!Wait, Sem!Wait, C!Sem!Receive, Sem!Receive

\* An empty cell has one permit, a written one none; and what a call returned is
\* what the cell holds.
CellInv ==
    /\ SemInv
    /\ value_set \in BOOLEAN
    /\ answer = [c \in Clients |-> answer[c]]
    /\ closed <=> value_set
    /\ value_set <=> value # None
    /\ Existing = IF value_set THEN 0 ELSE 1
    /\ \A c \in Clients : /\ phase[c] \in {"waiting", "granted"} => need[c] = 1
                          /\ answer[c] # None => answer[c] = value

NoneAssumption == None \notin Clients /\ None # "from"

LEMMA CellInvSound ==
    ASSUME IsFiniteSet(Clients), CellInv
    PROVE  C!CellSound
<1>1. C!OneAnswer
  BY DEF CellInv, C!OneAnswer
<1>2. ASSUME value_set PROVE pool = 0 /\ \A c \in Clients : phase[c] # "granted"
  <2>1. \A c \in Clients : pool + held[c] <= 0 /\ held[c] \in Nat /\ pool \in Nat
    BY <1>2, HeldExists DEF CellInv, SemInv
  <2>2. \A c \in Clients : phase[c] = "granted" => held[c] = 1
    BY DEF CellInv, SemInv, ClientInv
  <2>3. pool = 0
    BY <1>2, HeldExists DEF CellInv, SemInv
  <2> QED
    BY <2>1, <2>2, <2>3
<1> QED
  BY <1>1, <1>2 DEF CellInv, C!CellSound, C!ClosedMeansSet

LEMMA CellInit ==
    ASSUME IsFiniteSet(Clients), NoneAssumption, C!Init
    PROVE  CellInv
<1>1. CASE C!New
  <2>1. SemInv /\ Existing = 1
    BY <1>1, CellContract, InitKeeps DEF C!New
  <2> QED
    BY <1>1, <2>1 DEF C!Init, C!New, C!Sem!InitWith, CellInv
<1>2. CASE C!From
  <2>1. queue \in Seq(Clients) /\ Once(queue) /\ Range(queue) = {}
    BY <1>2 DEF C!From, Once, Range
  <2>2. SemInv
    BY <1>2, <2>1 DEF C!From, SemInv, ClientInv, Sem!Phases
  <2>3. Existing = 0
    BY <1>2, <2>2, HeldExists DEF C!From
  <2> QED
    BY <1>2, <2>2, <2>3 DEF C!Init, C!From, CellInv, NoneAssumption
<1> QED
  BY <1>1, <1>2 DEF C!Init

\* A client that waits for the permit or has it.
LEMMA CellPermitSteps ==
    ASSUME IsFiniteSet(Clients), CellInv, NEW c \in Clients,
           \/ C!GetOrInit(c) \/ C!GetsPermit(c) \/ C!GetClosed(c)
           \/ C!InitFails(c) \/ C!Cancel(c)
    PROVE  CellInv'
<1>1. SemInv' /\ Existing' = Existing /\ closed' = closed
  <2>1. CASE C!GetOrInit(c)
    BY <2>1, CellContract, AcquireKeeps, WaitKeeps
       DEF CellInv, C!GetOrInit, C!Sem!Acquire, C!Sem!Wait
  <2>2. CASE C!GetsPermit(c)
    BY <2>2, CellContract, ReceiveKeeps DEF CellInv, C!GetsPermit, C!Sem!Receive
  <2>3. CASE C!GetClosed(c) \/ C!InitFails(c) \/ C!Cancel(c)
    BY <2>3, CellContract, DropKeeps
       DEF CellInv, C!GetClosed, C!InitFails, C!Cancel, C!Sem!Drop
  <2> QED
    BY <2>1, <2>2, <2>3
<1>2. UNCHANGED <<value_set, value>>
  BY DEF C!GetOrInit, C!GetsPermit, C!GetClosed, C!InitFails, C!Cancel
<1>3. answer' = answer \/ answer' = [answer EXCEPT ![c] = value]
  BY DEF C!GetOrInit, C!GetsPermit, C!GetClosed, C!InitFails, C!Cancel
<1>4. \A d \in Clients : phase'[d] \in {"waiting", "granted"} => need'[d] = 1
  <2>1. CASE C!GetOrInit(c)
    BY <2>1 DEF CellInv, SemInv, C!GetOrInit, C!Sem!Acquire, C!Sem!Wait
  <2>2. CASE C!GetsPermit(c)
    BY <2>2 DEF CellInv, SemInv, C!GetsPermit, C!Sem!Receive
  <2>3. CASE C!GetClosed(c) \/ C!InitFails(c) \/ C!Cancel(c)
    BY <2>3 DEF CellInv, SemInv, C!GetClosed, C!InitFails, C!Cancel, C!Sem!Drop
  <2> QED
    BY <2>1, <2>2, <2>3
<1> QED
  BY <1>1, <1>2, <1>3, <1>4 DEF CellInv

\* The cell is written: by a call that has its permit, or takes it here.
LEMMA CellWrites ==
    ASSUME IsFiniteSet(Clients), NoneAssumption, CellInv, NEW c \in Clients,
           C!Set(c) \/ C!InitReady(c)
    PROVE  CellInv'
<1>1. C!set_value(c)
  BY DEF C!Set, C!InitReady
<1>2. pool \in Nat /\ held \in [Clients -> Nat] /\ Existing \in Nat
  BY HeldExists DEF CellInv, SemInv
<1>3. pool + held[c] = 1 /\ ~value_set /\ \A d \in Clients \ {c} : held[d] = 0
  <2>1. pool + held[c] >= 1
    BY <1>2 DEF C!Set, C!InitReady, CellInv, SemInv, ClientInv
  <2>2. pool + held[c] <= Existing
    BY HeldExists DEF CellInv
  <2>3. Existing = 1 /\ ~value_set
    BY <1>2, <2>1, <2>2 DEF CellInv
  <2>4. \A d \in Clients \ {c} : pool + held[c] + held[d] <= 1 /\ held[d] \in Nat
    BY <1>2, <2>3, HeldExists DEF CellInv
  <2>5. held[c] \in Nat
    BY <1>2
  <2> QED
    BY <1>2, <2>1, <2>2, <2>3, <2>4, <2>5
<1>4. \A d \in Clients : held'[d] = 0 /\ answer[d] = None /\ (d # c => phase'[d] # "granted")
  BY <1>1, <1>2, <1>3 DEF C!set_value, CellInv, SemInv, ClientInv, C!Set, C!InitReady
<1>5. queue' \in Seq(Clients) /\ Once(queue') /\ Range(queue') = {} /\ queue' = <<>>
  BY <1>1 DEF C!set_value, Once, Range
<1>6. SemInv'
  <2>1. CASE C!Set(c)
    BY <2>1, <1>1, <1>2, <1>3, <1>4, <1>5
       DEF CellInv, SemInv, ClientInv, C!Set, C!set_value
  <2>2. CASE C!InitReady(c)
    BY <2>2, <1>1, <1>2, <1>3, <1>4, <1>5
       DEF CellInv, SemInv, ClientInv, C!InitReady, C!set_value, Sem!Phases
  <2> QED
    BY <2>1, <2>2
<1>7. Existing' = 0
  <2>1. IsFiniteSet(Clients) /\ SemInv' /\ pool' = 0
    BY <1>1, <1>6 DEF C!set_value
  <2>2. Sum(held') = 0
    <3>1. NatOn(held', Clients) /\ \A d \in Clients \ {} : held'[d] = 0
      BY <1>4 DEF NatOn
    <3>2. SumFunctionOnSet(held', {}) = SumFunctionOnSet(held', Clients)
      BY <3>1, SumOfPart
    <3> QED
      BY <3>2, SumNone DEF Sum
  <2> QED
    BY <2>1, <2>2 DEF Existing
<1>8. value' = c /\ value_set' /\ closed' /\ c # None
  BY <1>1 DEF C!set_value, NoneAssumption
<1>9. \A d \in Clients : /\ phase'[d] \in {"waiting", "granted"} => need'[d] = 1
                         /\ answer'[d] # None => answer'[d] = c
  BY <1>4 DEF CellInv, SemInv, C!Set, C!InitReady
<1>10. answer' = [d \in Clients |-> answer'[d]] /\ value_set' \in BOOLEAN
  BY <1>1 DEF C!set_value, CellInv, C!Set, C!InitReady
<1> QED
  BY <1>6, <1>7, <1>8, <1>9, <1>10 DEF CellInv

LEMMA CellOtherSteps ==
    ASSUME IsFiniteSet(Clients), CellInv,
           \/ \E c \in Clients : C!GetInitialized(c)
           \/ C!Take
           \/ UNCHANGED <<sem, cvars>>
    PROVE  CellInv'
<1>1. CASE \E c \in Clients : C!GetInitialized(c)
  <2>1. PICK c \in Clients : C!GetInitialized(c)
    BY <1>1
  <2>2. SemInv' /\ Existing' = Existing /\ UNCHANGED <<value_set, value, closed, phase, need>>
    BY <2>1 DEF CellInv, SemInv, ClientInv, Existing, C!GetInitialized, C!sem
  <2>3. answer' = [answer EXCEPT ![c] = value]
    BY <2>1 DEF C!GetInitialized
  <2> QED
    BY <2>2, <2>3 DEF CellInv
<1>2. CASE C!Take
  <2>1. \A c \in Clients : held[c] = 0 /\ c \notin Range(queue)
    BY <1>2 DEF C!Take, CellInv, SemInv, ClientInv
  <2>2. queue = <<>>
    <3>1. queue # <<>> => 1 \in 1 .. Len(queue) /\ queue[1] \in Range(queue) /\ queue[1] \in Clients
      BY EmptySeq, RangeOf DEF CellInv, SemInv
    <3> QED
      BY <3>1, <2>1
  <2>3. SemInv'
    BY <1>2, <2>1, <2>2 DEF C!Take, CellInv, SemInv, ClientInv
  <2>4. Existing' = 1
    <3>1. Sum(held) = 0
      BY <2>1, HeldExists DEF CellInv, SemInv
    <3> QED
      BY <3>1, <1>2 DEF C!Take, Existing
  <2> QED
    BY <1>2, <2>3, <2>4 DEF C!Take, CellInv
<1>3. CASE UNCHANGED <<sem, cvars>>
  BY <1>3 DEF sem, cvars, CellInv, SemInv, ClientInv, Existing
<1> QED
  BY <1>1, <1>2, <1>3

\* The run moves one part; the others rest.
LEMMA OnePart ==
    MCSpec => MCInit /\ [][MCNext]_<<part, vars, cvars, mvars, bvars>>
  BY PTL DEF MCSpec

\* All calls on one cell return one value, the flag of the cell is set exactly
\* when its semaphore is closed, and no permit is left then by which it could be
\* written again (set_value and the SAFETY comments of once_cell.rs): for any
\* number of calls that fail, panic, are cancelled or take the cell.
THEOREM CellIsWrittenOnce ==
    ASSUME IsFiniteSet(Clients), None \notin Clients, None # "from"
    PROVE  MCSpec => []CellSafe
<1> DEFINE Inv == part = "cell" => CellInv
<1> NoneAssumption
  BY DEF NoneAssumption
<1>1. MCInit => Inv
  BY CellInit DEF MCInit
<1>2. Inv /\ [MCNext]_<<part, vars, cvars, mvars, bvars>> => Inv'
  <2> SUFFICES ASSUME Inv, [MCNext]_<<part, vars, cvars, mvars, bvars>>, part' = "cell"
               PROVE  CellInv'
    OBVIOUS
  <2>1. part = "cell" /\ CellInv
    BY DEF MCNext
  <2>2. C!Next \/ UNCHANGED <<sem, cvars>>
    BY <2>1 DEF MCNext, vars
  <2> QED
    BY <2>1, <2>2, CellPermitSteps, CellWrites, CellOtherSteps DEF C!Next
<1>3. Inv => CellSafe
  BY CellInvSound DEF CellSafe
<1> QED
  BY <1>1, <1>2, <1>3, OnePart, PTL

-----------------------------------------------------------------------------
(* The bounded channel                                                     *)

LEMMA ChannelContract ==
    /\ \A n : M!Sem!InitWith(n) => Sem!InitWith(n)
    /\ \A c, n : /\ M!Sem!Acquire(c, n) => Sem!Acquire(c, n)
                 /\ M!Sem!Wait(c, n) => Sem!Wait(c, n)
    /\ \A c : /\ M!Sem!Receive(c) => Sem!Receive(c)
              /\ M!Sem!Drop(c) => Sem!Drop(c)
              /\ M!Sem!Forget(c) => Sem!Forget(c)
    /\ \A n : M!Sem!Add(n) => Sem!Add(n)
    /\ M!Sem!Close => Sem!Close
<1>1. \A f, S : M!Sem!SumFunctionOnSet(f, S) = Sem!SumFunctionOnSet(f, S)
  BY DEF Sem!SumFunctionOnSet, Sem!FoldFunctionOnSet, Sem!MapThenFoldSet,
         M!Sem!SumFunctionOnSet, M!Sem!FoldFunctionOnSet, M!Sem!MapThenFoldSet
<1>2. \A s, e : M!Sem!Without(s, e) = Sem!Without(s, e)
  BY DEF Sem!Without, M!Sem!Without
<1>3. \A p, q, kept : M!Sem!Deal(p, q, kept) => Sem!Deal(p, q, kept)
  BY <1>1 DEF M!Sem!Deal, M!Sem!Demand, Sem!Deal, Sem!Demand
<1>4. /\ \A c : M!Sem!Drop(c) => Sem!Drop(c)
      /\ \A n : M!Sem!Add(n) => Sem!Add(n)
  BY <1>2, <1>3 DEF M!Sem!Drop, Sem!Drop, M!Sem!Add, Sem!Add
<1> QED
  BY <1>4 DEF M!Sem!InitWith, Sem!InitWith, M!Sem!Acquire, Sem!Acquire,
              M!Sem!Wait, Sem!Wait, M!Sem!Receive, Sem!Receive,
              M!Sem!Forget, Sem!Forget, M!Sem!Close, Sem!Close

\* A permit for each slot that holds no message.
SlotInv ==
    /\ SemInv
    /\ buffer \in Seq(Nat) /\ sent \in Nat
    /\ Existing + Len(buffer) = Cap

\* A reservation is for one slot, and has the handle that made it.
SenderInv ==
    /\ sender = [c \in Clients |-> sender[c]]
    /\ closed = rxClosed
    /\ \A c \in Clients :
          /\ need[c] <= 1
          /\ phase[c] \in {"waiting", "granted"} => need[c] = 1 /\ sender[c] \in {"live", "owned"}
          /\ sender[c] = "owned" => phase[c] = "granted"

ChannelInv == SlotInv /\ SenderInv /\ M!NoneIsFinal /\ M!ReceiverWoken

\* The steps of one sender that concern its reservation alone,
Reserving(c) ==
    M!Reserve(c) \/ M!ReserveWaits(c) \/ M!ReserveServed(c)

\* end it,
Returning(c) ==
    \/ M!ReserveFails(c) \/ M!CancelReserve(c)
    \/ M!DropPermit(c) \/ M!Release(c) \/ M!DropOwned(c)

\* or are about its handle.
Handling(c) ==
    \/ M!Own(c) \/ \E new \in Clients : M!CloneSender(c, new)
    \/ M!DropSender(c)

Finishing == M!RecvNone \/ M!RecvPending \/ M!Stopped \/ UNCHANGED <<sem, mvars>>

LEMMA ChannelSteps ==
    ASSUME M!Next \/ UNCHANGED <<sem, mvars>>
    PROVE  \/ \E c \in Clients : \/ Reserving(c) \/ Returning(c) \/ Handling(c)
                                 \/ M!SendPermit(c)
           \/ M!RecvValue \/ M!CloseRx \/ M!DropRx
           \/ Finishing
  BY DEF M!Next, M!RecvPoll, Reserving, Returning, Handling, Finishing

\* What each of them does to the semaphore.
LEMMA ReservingKeeps ==
    ASSUME IsFiniteSet(Clients), SemInv, NEW c \in Clients, Reserving(c)
    PROVE  SemInv' /\ Existing' = Existing /\ ~closed /\ ~closed'
  BY ChannelContract, AcquireKeeps, WaitKeeps, ReceiveKeeps
     DEF Reserving, M!Reserve, M!ReserveWaits, M!ReserveServed,
         M!Sem!Acquire, M!Sem!Wait, M!Sem!Receive

LEMMA ReturningKeeps ==
    ASSUME IsFiniteSet(Clients), SemInv, NEW c \in Clients, Returning(c)
    PROVE  /\ SemInv' /\ Existing' = Existing /\ closed' = closed
           /\ phase[c] # "out"
           /\ phase' = [phase EXCEPT ![c] = "out"] /\ need' = [need EXCEPT ![c] = 0]
<1>1. M!Sem!Drop(c)
  BY DEF Returning, M!ReserveFails, M!CancelReserve, M!DropPermit, M!Release, M!DropOwned
<1> QED
  BY <1>1, ChannelContract, DropKeeps DEF M!Sem!Drop

LEMMA SlotsKept ==
    ASSUME IsFiniteSet(Clients), SlotInv, SenderInv, M!Next \/ UNCHANGED <<sem, mvars>>
    PROVE  SlotInv'
<1>1. ASSUME NEW c \in Clients, Reserving(c)
      PROVE  SlotInv'
  <2>1. UNCHANGED <<buffer, sent>>
    BY <1>1 DEF Reserving, M!Reserve, M!ReserveWaits, M!ReserveServed, M!chan
  <2> QED
    BY <2>1, <1>1, ReservingKeeps DEF SlotInv
<1>2. ASSUME NEW c \in Clients, Returning(c)
      PROVE  SlotInv'
  <2>1. UNCHANGED <<buffer, sent>>
    BY <1>2 DEF Returning, M!ReserveFails, M!CancelReserve, M!DropPermit, M!Release,
                M!DropOwned, M!Leave, M!chan
  <2> QED
    BY <2>1, <1>2, ReturningKeeps DEF SlotInv
<1>3. ASSUME Finishing \/ \E c \in Clients : Handling(c)
      PROVE  SlotInv'
  <2>1. UNCHANGED <<pool, closed, queue, phase, need, held, buffer, sent>>
    BY <1>3 DEF Handling, Finishing, M!Own, M!CloneSender, M!DropSender, M!Leave, M!RecvNone,
                M!RecvPending, M!Stopped, M!vars, M!sem, M!chan, sem, mvars
  <2> QED
    BY <2>1 DEF SlotInv, SemInv, ClientInv, Existing
<1>4. ASSUME NEW c \in Clients, M!SendPermit(c)
      PROVE  SlotInv'
  <2>1. SemInv' /\ Existing' + held[c] = Existing /\ held[c] = 1
    <3>1. M!Sem!Forget(c) /\ Sem!Forget(c)
      BY <1>4, ChannelContract DEF M!SendPermit
    <3>2. held[c] = 1
      BY <3>1 DEF Sem!Forget, SlotInv, SemInv, ClientInv, SenderInv
    <3> QED
      BY <3>1, <3>2, ForgetKeeps DEF SlotInv
  <2>2. Existing' \in Nat /\ Existing \in Nat
    <3>1. pool' \in Nat /\ held' \in [Clients -> Nat]
      BY <2>1 DEF SemInv
    <3>2. Sum(held') \in Nat
      BY <3>1, SumNat
    <3> QED
      BY <3>1, <3>2, HeldExists DEF SlotInv, Existing
  <2>3. buffer' = Append(buffer, sent') /\ sent' = sent + 1 /\ sent' \in Nat
    BY <1>4 DEF M!SendPermit, SlotInv
  <2>4. buffer' \in Seq(Nat) /\ Len(buffer') = Len(buffer) + 1 /\ Len(buffer) \in Nat
    BY <2>3, AppendProperties DEF SlotInv
  <2>5. Existing + Len(buffer) = Cap
    BY DEF SlotInv
  <2>6. Existing' + Len(buffer') = Cap
    <3>1. \A x, y, n \in Nat : y + 1 = x => y + (n + 1) = x + n
      OBVIOUS
    <3>2. Existing' + 1 = Existing
      BY <2>1
    <3>3. Existing' + (Len(buffer) + 1) = Existing + Len(buffer)
      BY <3>1, <3>2, <2>2, <2>4
    <3> QED
      BY <3>3, <2>4, <2>5
  <2> QED
    BY <2>1, <2>3, <2>4, <2>6 DEF SlotInv
<1>5. ASSUME M!RecvValue
      PROVE  SlotInv'
  <2>1. SemInv' /\ Existing' = Existing + 1
    BY <1>5, ChannelContract, AddKeeps DEF M!RecvValue, SlotInv
  <2>2. Existing \in Nat
    BY HeldExists DEF SlotInv
  <2>3. buffer' = Tail(buffer) /\ buffer # <<>> /\ sent' = sent
    BY <1>5 DEF M!RecvValue
  <2>4. buffer' \in Seq(Nat) /\ Len(buffer') = Len(buffer) - 1 /\ Len(buffer) \in Nat
    BY <2>3, HeadTailProperties DEF SlotInv
  <2> QED
    BY <2>1, <2>2, <2>3, <2>4 DEF SlotInv
<1>6. ASSUME M!DropRx
      PROVE  SlotInv'
  <2>1. Len(buffer) \in Nat
    BY DEF SlotInv
  <2>2. SemInv' /\ Existing' = Existing + Len(buffer)
    BY <1>6, <2>1, ChannelContract, AddKeeps DEF M!DropRx, SlotInv
  <2>3. buffer' \in Seq(Nat) /\ Len(buffer') = 0 /\ sent' = sent
    BY <1>6 DEF M!DropRx
  <2>4. Existing \in Nat
    BY HeldExists DEF SlotInv
  <2> QED
    BY <2>1, <2>2, <2>3, <2>4 DEF SlotInv
<1>7. ASSUME M!CloseRx
      PROVE  SlotInv'
  <2>1. SemInv' /\ Existing' = Existing
    BY <1>7, ChannelContract, CloseKeeps DEF M!CloseRx, SlotInv
  <2> QED
    BY <2>1, <1>7 DEF SlotInv, M!CloseRx
<1> QED
  BY <1>1, <1>2, <1>3, <1>4, <1>5, <1>6, <1>7, ChannelSteps

\* Reservations and handles.
LEMMA SendersKept ==
    ASSUME IsFiniteSet(Clients), SlotInv, SenderInv, M!Next \/ UNCHANGED <<sem, mvars>>
    PROVE  SenderInv'
<1> USE DEF SenderInv
<1>0. phase \in [Clients -> Sem!Phases] /\ need \in [Clients -> Nat]
  BY DEF SlotInv, SemInv
<1>1. ASSUME NEW c \in Clients, Reserving(c)
      PROVE  SenderInv'
  <2>1. UNCHANGED <<sender, rxClosed, closed>>
    BY <1>1 DEF Reserving, M!Reserve, M!ReserveWaits, M!ReserveServed, M!chan,
                M!Sem!Acquire, M!Sem!Wait, M!Sem!Receive
  <2>2. \/ sender[c] = "live" /\ phase[c] = "out" /\ need' = [need EXCEPT ![c] = 1]
        \/ phase[c] = "waiting" /\ need' = need
    BY <1>1 DEF Reserving, M!Reserve, M!ReserveWaits, M!ReserveServed,
                M!Sem!Acquire, M!Sem!Wait, M!Sem!Receive
  <2>3. phase' = [phase EXCEPT ![c] = "granted"] \/ phase' = [phase EXCEPT ![c] = "waiting"]
    BY <1>1 DEF Reserving, M!Reserve, M!ReserveWaits, M!ReserveServed,
                M!Sem!Acquire, M!Sem!Wait, M!Sem!Receive
  <2> QED
    BY <2>1, <2>2, <2>3, <1>0
<1>2. ASSUME NEW c \in Clients, Returning(c)
      PROVE  SenderInv'
  <2>1. /\ closed' = closed /\ phase[c] # "out"
        /\ phase' = [phase EXCEPT ![c] = "out"] /\ need' = [need EXCEPT ![c] = 0]
    BY <1>2, ReturningKeeps DEF SlotInv
  <2>2. rxClosed' = rxClosed
    BY <1>2 DEF Returning, M!ReserveFails, M!CancelReserve, M!DropPermit, M!Release,
                M!DropOwned, M!Leave, M!chan
  <2>3. \/ sender' = sender /\ sender[c] # "owned"
        \/ sender' = [sender EXCEPT ![c] = "live"]
        \/ sender' = [sender EXCEPT ![c] = "gone"]
    BY <1>2 DEF Returning, M!ReserveFails, M!CancelReserve, M!DropPermit, M!Release,
                M!DropOwned, M!Leave, M!Disown, M!chan
  <2> QED
    BY <2>1, <2>2, <2>3, <1>0
<1>3. ASSUME NEW c \in Clients, Handling(c)
      PROVE  SenderInv'
  BY <1>3, <1>0 DEF Handling, M!Own, M!CloneSender, M!DropSender, M!Leave, M!sem
<1>4. ASSUME NEW c \in Clients, M!SendPermit(c)
      PROVE  SenderInv'
  <2>1. /\ phase' = [phase EXCEPT ![c] = "out"] /\ need' = [need EXCEPT ![c] = 0]
        /\ sender' = [sender EXCEPT ![c] = "live"]
        /\ UNCHANGED <<closed, rxClosed>>
    BY <1>4 DEF M!SendPermit, M!Sem!Forget, M!Disown
  <2> QED
    BY <2>1, <1>0
<1>5. CASE M!RecvValue \/ M!DropRx
  BY <1>5, <1>0 DEF M!RecvValue, M!DropRx, M!Sem!Add
<1>6. CASE M!CloseRx
  BY <1>6, <1>0 DEF M!CloseRx, M!Sem!Close
<1>7. CASE Finishing
  BY <1>7, <1>0 DEF Finishing, M!RecvNone, M!RecvPending, M!Stopped, M!vars, M!sem, M!chan,
                    sem, mvars
<1> QED
  BY <1>1, <1>2, <1>3, <1>4, <1>5, <1>6, <1>7, ChannelSteps

\* Who has handles, in words that the provers share.
LEMMA HandlesAre ==
    /\ \A c : c \in M!Handles <=> c \in Clients /\ sender[c] \in {"live", "owned"}
    /\ \A c : c \in M!Handles' <=> c \in Clients /\ sender'[c] \in {"live", "owned"}
  BY DEF M!Handles

\* A channel that is over has no reservation left, and the rest follows.
LEMMA OverIsEmpty ==
    ASSUME IsFiniteSet(Clients), SlotInv, SenderInv, buffer = <<>>, M!Over
    PROVE  /\ closed \/ M!Handles = {}
           /\ \A c \in Clients : phase[c] # "granted"
<1>1. CASE M!Handles = {}
  BY <1>1, HandlesAre DEF SenderInv
<1>2. CASE rxClosed /\ pool = Cap
  <2>1. Existing = pool /\ Existing = pool + Sum(held) /\ pool \in Nat
    <3>1. Len(buffer) = 0 /\ Existing \in Nat
      BY HeldExists DEF SlotInv
    <3> QED
      BY <3>1, <1>2, HeldExists DEF SlotInv, SemInv
  <2>2. \A c \in Clients : pool + held[c] <= pool /\ held[c] \in Nat
    BY <2>1, HeldExists DEF SlotInv, SemInv
  <2>3. \A c \in Clients : held[c] = 0
    BY <2>1, <2>2
  <2>4. \A c \in Clients : phase[c] = "granted" => held[c] = need[c] /\ need[c] = 1
    BY DEF SlotInv, SemInv, ClientInv, SenderInv
  <2> QED
    BY <1>2, <2>3, <2>4 DEF SenderInv
<1> QED
  BY <1>1, <1>2 DEF M!Over

LEMMA NoneStaysFinal ==
    ASSUME IsFiniteSet(Clients), ChannelInv, M!Next \/ UNCHANGED <<sem, mvars>>
    PROVE  M!NoneIsFinal'
<1> USE DEF M!NoneIsFinal
<1>0. /\ phase \in [Clients -> Sem!Phases] /\ M!NoneIsFinal
      /\ \A c \in Clients : phase[c] \in {"waiting", "granted"} => sender[c] \in {"live", "owned"}
      /\ sender = [c \in Clients |-> sender[c]]
  BY DEF ChannelInv, SlotInv, SemInv, SenderInv
<1>1. ASSUME NEW c \in Clients, Reserving(c)
      PROVE  M!NoneIsFinal'
  <2>1. ~closed /\ rx' = rx
    BY <1>1, ReservingKeeps
       DEF ChannelInv, SlotInv, Reserving, M!Reserve, M!ReserveWaits, M!ReserveServed, M!chan
  <2>2. c \in M!Handles
    BY <1>0, <1>1, HandlesAre
       DEF Reserving, M!Reserve, M!ReserveWaits, M!ReserveServed, M!Sem!Receive
  <2> QED
    BY <1>0, <2>1, <2>2
<1>2. ASSUME NEW c \in Clients, Returning(c)
      PROVE  M!NoneIsFinal'
  <2>1. closed' = closed /\ phase[c] # "out" /\ phase' = [phase EXCEPT ![c] = "out"]
    BY <1>2, ReturningKeeps DEF ChannelInv, SlotInv
  <2>2. UNCHANGED <<rx, buffer>>
    BY <1>2 DEF Returning, M!ReserveFails, M!CancelReserve, M!DropPermit, M!Release,
                M!DropOwned, M!Leave, M!chan
  <2>3. \/ sender' = sender
        \/ c \in M!Handles /\ sender' = [sender EXCEPT ![c] = "live"]
        \/ sender' = [sender EXCEPT ![c] = "gone"]
    BY <1>2, HandlesAre
       DEF Returning, M!ReserveFails, M!CancelReserve, M!DropPermit, M!Release,
           M!DropOwned, M!Leave, M!Disown, M!chan
  <2>4. M!Handles = {} => M!Handles' = {}
    BY <1>0, <2>3, HandlesAre
  <2> QED
    BY <1>0, <2>1, <2>2, <2>4
<1>3. ASSUME NEW c \in Clients, Handling(c)
      PROVE  M!NoneIsFinal'
  <2>1. UNCHANGED <<phase, closed, buffer, rx>>
    BY <1>3 DEF Handling, M!Own, M!CloneSender, M!DropSender, M!Leave, M!sem
  <2>2. M!Handles = {} => M!Handles' = {}
    <3>1. \/ c \in M!Handles
          \/ sender' = [sender EXCEPT ![c] = "gone"]
      BY <1>3, HandlesAre DEF Handling, M!Own, M!CloneSender, M!DropSender, M!Leave
    <3> QED
      BY <1>0, <3>1, HandlesAre
  <2> QED
    BY <1>0, <2>1, <2>2
<1>4. ASSUME NEW c \in Clients, M!SendPermit(c)
      PROVE  M!NoneIsFinal'
  BY <1>0, <1>4 DEF M!SendPermit, M!Sem!Forget
<1>5. CASE M!RecvValue \/ M!DropRx
  BY <1>5 DEF M!RecvValue, M!DropRx
<1>6. CASE M!CloseRx
  BY <1>0, <1>6, HandlesAre DEF M!CloseRx, M!Sem!Close
<1>7. CASE M!RecvNone
  <2>1. UNCHANGED <<phase, closed, buffer, sender>> /\ buffer = <<>> /\ M!Over
    BY <1>7 DEF M!RecvNone, M!sem
  <2> QED
    BY <2>1, OverIsEmpty, HandlesAre DEF ChannelInv
<1>8. CASE M!RecvPending
  BY <1>8 DEF M!RecvPending
<1>9. CASE M!Stopped \/ UNCHANGED <<sem, mvars>>
  <2>1. UNCHANGED <<phase, closed, buffer, sender, rx>>
    BY <1>9 DEF M!Stopped, M!vars, M!sem, M!chan, sem, mvars
  <2> QED
    BY <1>0, <2>1, HandlesAre
<1> QED
  BY <1>1, <1>2, <1>3, <1>4, <1>5, <1>6, <1>7, <1>8, <1>9, ChannelSteps DEF Finishing

\* Whatever ends the wait of the receiver wakes it, or is the return of the last
\* permit by one of the two that `untold` remembers.
LEMMA WokenStays ==
    ASSUME IsFiniteSet(Clients), "rx" \notin Clients, ChannelInv,
           M!Next \/ UNCHANGED <<sem, mvars>>
    PROVE  M!ReceiverWoken'
<1> USE DEF M!ReceiverWoken, M!Rx
<1>0. /\ closed = rxClosed /\ M!ReceiverWoken
      /\ sender = [c \in Clients |-> sender[c]]
  BY DEF ChannelInv, SenderInv
<1>1. ASSUME NEW c \in Clients, Reserving(c)
      PROVE  M!ReceiverWoken'
  <2>1. /\ ~closed /\ UNCHANGED <<sender, buffer, rx, rxClosed, untold>>
        /\ "rx" \in woken => "rx" \in woken'
    BY <1>1, ReservingKeeps
       DEF ChannelInv, SlotInv, Reserving, M!Reserve, M!ReserveWaits, M!ReserveServed, M!chan
  <2>2. M!Handles' = {} => M!Handles = {}
    BY <2>1, HandlesAre
  <2>3. M!Over' => M!Over
    BY <2>1, <2>2, <1>0 DEF M!Over
  <2> QED
    BY <1>0, <2>1, <2>2, <2>3
<1>2. ASSUME NEW c \in Clients, M!ReserveFails(c) \/ M!CancelReserve(c) \/ M!DropPermit(c)
      PROVE  M!ReceiverWoken'
  <2>1. UNCHANGED <<sender, buffer, rx, rxClosed>>
    BY <1>2 DEF M!ReserveFails, M!CancelReserve, M!DropPermit, M!chan
  <2>2. /\ "rx" \in woken => "rx" \in woken'
        /\ untold # {} => untold' # {}
        /\ M!LastPermit => "rx" \in woken' \/ untold' # {}
    <3>1. CASE M!ReserveFails(c) \/ M!CancelReserve(c)
      BY <3>1 DEF M!ReserveFails, M!CancelReserve, M!NotTold
    <3>2. CASE M!DropPermit(c)
      <4>1. CASE M!LastPermit
        BY <3>2, <4>1 DEF M!DropPermit, M!WakeServedAndRx
      <4>2. CASE ~M!LastPermit
        BY <3>2, <4>2 DEF M!DropPermit, M!WakeServed
      <4> QED
        BY <4>1, <4>2
    <3> QED
      BY <1>2, <3>1, <3>2
  <2>3. M!Handles' = {} => M!Handles = {}
    BY <2>1, HandlesAre
  <2>4. rx = "pending" /\ M!Over' => M!Over \/ M!LastPermit
    BY <1>0, <2>1, <2>3 DEF M!Over, M!LastPermit
  <2> QED
    BY <1>0, <2>1, <2>2, <2>3, <2>4
<1>3. ASSUME NEW c \in Clients, M!Release(c)
      PROVE  M!ReceiverWoken'
  <2>1. UNCHANGED <<buffer, rx, rxClosed>> /\ sender' = [sender EXCEPT ![c] = "live"]
    BY <1>3 DEF M!Release, M!Disown
  <2>2. /\ "rx" \in woken => "rx" \in woken'
        /\ untold # {} => untold' # {}
        /\ M!LastPermit => untold' # {}
    BY <1>3 DEF M!Release, M!NotTold, M!WakeServed
  <2>3. c \in M!Handles'
    BY <1>0, <2>1, HandlesAre
  <2>4. rx = "pending" /\ M!Over' => M!LastPermit
    BY <1>0, <2>1, <2>3 DEF M!Over, M!LastPermit
  <2>5. M!Handles' # {}
    BY <2>3
  <2> QED
    BY <1>0, <2>1, <2>2, <2>4, <2>5
<1>4. ASSUME NEW c \in Clients, M!DropOwned(c) \/ M!DropSender(c)
      PROVE  M!ReceiverWoken'
  <2>1. UNCHANGED <<buffer, rx, rxClosed, untold>> /\ sender' = [sender EXCEPT ![c] = "gone"]
    BY <1>4 DEF M!DropOwned, M!DropSender, M!Leave
  <2>2. /\ "rx" \in woken => "rx" \in woken'
        /\ rx = "pending" /\ M!Handles = {c} => "rx" \in woken'
        /\ M!LastPermit => "rx" \in woken' \/ pool' = pool
    BY <1>4 DEF M!DropOwned, M!DropSender, M!WakeServed, M!WakeServedAndRx, M!sem
  <2>3. M!Handles' = {} => M!Handles = {c}
    <3>1. c \in M!Handles
      BY <1>4, HandlesAre DEF M!DropOwned, M!DropSender
    <3> QED
      BY <1>0, <2>1, <3>1, HandlesAre
  <2>4. rx = "pending" /\ M!Over' => M!Handles = {c} \/ M!LastPermit
    BY <1>0, <2>1, <2>3 DEF M!Over, M!LastPermit
  <2>5. M!LastPermit /\ pool' = pool => M!Over
    BY <1>0 DEF M!Over, M!LastPermit
  <2>6. /\ rx = "pending" /\ M!Handles' = {} => "rx" \in woken'
        /\ rx = "pending" /\ buffer' # <<>> => "rx" \in woken'
    BY <1>0, <2>1, <2>2, <2>3
  <2>7. rx = "pending" /\ M!Over' => "rx" \in woken' \/ untold' # {}
    <3>1. CASE M!Handles = {c}
      BY <2>2, <3>1
    <3>2. CASE M!LastPermit
      BY <1>0, <2>1, <2>2, <2>5, <3>2
    <3> QED
      BY <2>4, <3>1, <3>2
  <2> QED
    BY <2>1, <2>6, <2>7
<1>5. ASSUME NEW c \in Clients, M!SendPermit(c)
      PROVE  M!ReceiverWoken'
  <2>1. rx' = rx /\ (rx = "pending" => "rx" \in woken')
    BY <1>5 DEF M!SendPermit
  <2> QED
    BY <2>1
<1>6. ASSUME NEW c \in Clients, M!Own(c) \/ \E new \in Clients : M!CloneSender(c, new)
      PROVE  M!ReceiverWoken'
  <2>1. UNCHANGED <<pool, buffer, rx, rxClosed, woken, untold>>
    BY <1>6 DEF M!Own, M!CloneSender, M!sem
  <2>2. c \in M!Handles'
    BY <1>0, <1>6, HandlesAre DEF M!Own, M!CloneSender
  <2>3. M!Over' => M!Over
    BY <2>1, <2>2 DEF M!Over
  <2>4. M!Handles' # {}
    BY <2>2
  <2> QED
    BY <1>0, <2>1, <2>3, <2>4
<1>7. CASE M!RecvValue \/ M!RecvNone \/ M!CloseRx \/ M!DropRx
  <2>1. rx' # "pending"
    BY <1>7 DEF M!RecvValue, M!RecvNone, M!CloseRx, M!DropRx
  <2> QED
    BY <2>1
<1>8. CASE M!RecvPending
  <2>1. UNCHANGED <<pool, sender, buffer, rxClosed>> /\ buffer = <<>> /\ ~M!Over
    BY <1>8 DEF M!RecvPending, M!sem
  <2>2. M!Handles' = {} => M!Handles = {}
    BY <2>1, HandlesAre
  <2>3. ~M!Over' /\ M!Handles # {}
    BY <2>1, <2>2 DEF M!Over
  <2> QED
    BY <2>1, <2>2, <2>3
<1>9. CASE M!Stopped \/ UNCHANGED <<sem, mvars>>
  <2>1. UNCHANGED <<pool, sender, buffer, rx, rxClosed, woken, untold>>
    BY <1>9 DEF M!Stopped, M!vars, M!sem, M!chan, sem, mvars
  <2>2. M!Handles' = {} => M!Handles = {}
    BY <2>1, HandlesAre
  <2>3. M!Over' => M!Over
    BY <2>1, <2>2 DEF M!Over
  <2> QED
    BY <1>0, <2>1, <2>2, <2>3
<1> QED
  BY <1>1, <1>2, <1>3, <1>4, <1>5, <1>6, <1>7, <1>8, <1>9, ChannelSteps
     DEF Returning, Handling, Finishing

LEMMA ChannelInit ==
    ASSUME IsFiniteSet(Clients), Cap \in Nat, M!Init
    PROVE  ChannelInv
<1>1. SemInv /\ Existing = Cap
  BY ChannelContract, InitKeeps DEF M!Init
<1>2. SlotInv
  BY <1>1, EmptySeq DEF M!Init, SlotInv
<1>3. SenderInv
  <2>1. PICK s \in Clients : sender = [t \in Clients |-> IF t = s THEN "live" ELSE "unborn"]
    BY DEF M!Init
  <2>2. \A c \in Clients : need[c] = 0 /\ phase[c] = "out" /\ sender[c] # "owned"
    BY <2>1 DEF M!Init, M!Sem!InitWith
  <2>3. sender = [t \in Clients |-> sender[t]] /\ closed = rxClosed
    BY <2>1 DEF M!Init, M!Sem!InitWith
  <2> QED
    BY <2>2, <2>3 DEF SenderInv
<1>4. M!NoneIsFinal /\ M!ReceiverWoken
  BY DEF M!Init, M!NoneIsFinal, M!ReceiverWoken
<1> QED
  BY <1>2, <1>3, <1>4 DEF ChannelInv

LEMMA ChannelStep ==
    ASSUME IsFiniteSet(Clients), Cap \in Nat, "rx" \notin Clients
    PROVE  /\ MCInit => (part = "bounded" => ChannelInv)
           /\ /\ part = "bounded" => ChannelInv
              /\ [MCNext]_<<part, vars, cvars, mvars, bvars>>
              => (part = "bounded" => ChannelInv)'
<1>1. MCInit => (part = "bounded" => ChannelInv)
  BY ChannelInit DEF MCInit
<1>2. ASSUME part = "bounded" => ChannelInv,
             [MCNext]_<<part, vars, cvars, mvars, bvars>>, part' = "bounded"
      PROVE  ChannelInv'
  <2>1. part = "bounded" /\ ChannelInv
    BY <1>2 DEF MCNext
  <2>2. M!Next \/ UNCHANGED <<sem, mvars>>
    BY <1>2, <2>1 DEF MCNext, vars
  <2>3. SlotInv' /\ SenderInv'
    BY <2>1, <2>2, SlotsKept, SendersKept DEF ChannelInv
  <2> QED
    BY <2>1, <2>2, <2>3, NoneStaysFinal, WokenStays DEF ChannelInv
<1> QED
  BY <1>1, <1>2

\* Every slot of the buffer is free, reserved or full, and None is final (the
\* semaphore of bounded.rs has one permit for each slot): for any number of
\* senders, slots and messages.
THEOREM ChannelKeepsItsSlots ==
    ASSUME IsFiniteSet(Clients), Cap \in Nat, "rx" \notin Clients
    PROVE  MCSpec => []CapacitySafe
<1> DEFINE Inv == part = "bounded" => ChannelInv
<1>1. Inv => CapacitySafe
  <2> SUFFICES ASSUME part = "bounded", ChannelInv PROVE M!CapacitySound
    BY DEF CapacitySafe
  <2> DEFINE R == {c \in Clients : held[c] = 1}
  <2>1. \A c \in Clients : held[c] \in Nat /\ held[c] <= 1
    BY DEF ChannelInv, SlotInv, SemInv, ClientInv, SenderInv
  <2>2. NatOn(held, Clients) /\ \A c \in Clients : held[c] = IF c \in R THEN 1 ELSE 0
    BY <2>1 DEF NatOn
  <2>3. R \in SUBSET Clients /\ \A c \in R : held[c] >= 1
    OBVIOUS
  <2> HIDE DEF R
  <2>4. Cardinality(R) = Sum(held)
    BY <2>2, <2>3, SumCounts DEF Sum
  <2>5. pool + Cardinality(R) + Len(buffer) = Cap
    BY <2>4, HeldExists DEF ChannelInv, SlotInv, Existing
  <2>6. M!Cardinality(R) = Cardinality(R)
    BY DEF M!Cardinality, Cardinality
  <2> QED
    BY <2>5, <2>6 DEF R, ChannelInv, M!CapacitySound, M!SlotsConserved
<1>2. MCInit => Inv
  BY ChannelStep
<1>3. Inv /\ [MCNext]_<<part, vars, cvars, mvars, bvars>> => Inv'
  BY ChannelStep
<1> QED
  BY <1>1, <1>2, <1>3, OnePart, PTL

\* A receiver that waits is woken for a message and for the end of the last
\* handle; for the return of the last permit after a close too, but for the two
\* returns that the code tells nobody of, OwnedPermit::release (bounded.rs:1153)
\* and the Acquire of a served reserve (batch_semaphore.rs:375): for any number
\* of senders, slots and messages.
THEOREM ChannelWakesItsReceiver ==
    ASSUME IsFiniteSet(Clients), Cap \in Nat, "rx" \notin Clients
    PROVE  MCSpec => []ReceiverWoken
<1> DEFINE Inv == part = "bounded" => ChannelInv
<1>1. Inv => ReceiverWoken
  BY DEF ReceiverWoken, ChannelInv
<1>2. MCInit => Inv
  BY ChannelStep
<1>3. Inv /\ [MCNext]_<<part, vars, cvars, mvars, bvars>> => Inv'
  BY ChannelStep
<1> QED
  BY <1>1, <1>2, <1>3, OnePart, PTL

-----------------------------------------------------------------------------
(* Mutex, RwLock and Semaphore                                             *)

\* What a client has or waits for says how many permits it is about.
GuardInv(c) ==
    /\ guard[c] \in {"none", "read", "write", "mapped", "permit"}
    /\ guard[c] = "none" <=> phase[c] = "out"
    /\ guard[c] = "permit" => kind = "semaphore"
    /\ guard[c] = "read" => kind = "rwlock" /\ need[c] = 1
    /\ guard[c] \in {"write", "mapped"} => kind # "semaphore" /\ need[c] = total

PermitInv ==
    /\ SemInv
    /\ total \in Nat /\ Existing = total
    /\ kind = "mutex" => total = 1
    /\ kind = "rwlock" => total > 0
    /\ kind \in {"mutex", "rwlock", "semaphore"}
    /\ guard = [c \in Clients |-> guard[c]]
    /\ \A c \in Clients : GuardInv(c)

\* The lock is kept alive for every client that is not out of it.
ArcInv ==
    /\ owned \subseteq Clients /\ handle \in BOOLEAN
    /\ refs = Cardinality(owned) + (IF handle THEN 1 ELSE 0)
    /\ \A c \in owned : phase[c] # "out"
    /\ \A c \in Clients \ owned : phase[c] # "out" => handle

LockInv == PermitInv /\ ArcInv

LEMMA LockInvSound ==
    ASSUME IsFiniteSet(Clients), LockInv
    PROVE  LocksSound
<1>1. /\ total \in Nat /\ pool \in Nat /\ Sum(held) \in Nat /\ pool + Sum(held) = total
      /\ \A c \in Clients : held[c] \in Nat
      /\ held \in [Clients -> Nat]
  BY HeldExists DEF LockInv, PermitInv, SemInv
<1>2. \A c, d \in Clients : c # d => pool + held[c] + held[d] <= total
  BY HeldExists DEF LockInv, PermitInv
<1>3. \A c \in Clients : /\ Has(c, {"write", "mapped"}) => held[c] = total /\ total > 0
                         /\ Has(c, {"read"}) => held[c] = 1
                         /\ Has(c, {"read", "write", "mapped"}) => held[c] >= 1
  BY <1>1 DEF Has, LockInv, PermitInv, SemInv, ClientInv, GuardInv
<1>4. \A c, d \in Clients :
         Has(c, {"write", "mapped"}) /\ Has(d, {"read", "write", "mapped"}) => c = d
  BY <1>1, <1>2, <1>3
<1>5. Cardinality({c \in Clients : Has(c, {"read"})}) <= total
  <2> DEFINE R == {c \in Clients : Has(c, {"read"})}
  <2>1. R \in SUBSET Clients /\ NatOn(held, Clients) /\ \A c \in R : held[c] >= 1
    BY <1>1, <1>3 DEF NatOn
  <2>2. IsFiniteSet(R) /\ Cardinality(R) \in Nat
    BY <2>1, FS_Subset, FS_CardinalityType
  <2> HIDE DEF R
  <2>3. Cardinality(R) <= Sum(held)
    BY <2>1, SumCounts DEF Sum
  <2> QED
    BY <2>2, <2>3, <1>1 DEF R
<1>6. PermitsConserved
  <2> DEFINE R == {c \in Clients : held[c] > 0}
  <2>1. R \in SUBSET Clients /\ NatOn(held, Clients) /\ \A c \in Clients \ R : held[c] = 0
    BY <1>1 DEF NatOn
  <2> HIDE DEF R
  <2>2. SumFunctionOnSet(held, R) = Sum(held)
    BY <2>1, SumOfPart DEF Sum
  <2> QED
    BY <2>2, <1>1 DEF R, PermitsConserved
<1>7. FreedOnce
  <2>1. IsFiniteSet(owned) /\ Cardinality(owned) \in Nat
    BY FS_Subset, FS_CardinalityType DEF LockInv, ArcInv
  <2>2. refs = 0 => ~handle /\ owned = {}
    BY <2>1, FS_EmptySet DEF LockInv, ArcInv
  <2> QED
    BY <2>2 DEF FreedOnce, LockInv, ArcInv
<1> QED
  BY <1>4, <1>5, <1>6, <1>7 DEF LocksSound, ReadersXorWriter

LEMMA LockInit ==
    ASSUME IsFiniteSet(Clients), MaxTotal \in Nat, Init
    PROVE  LockInv
<1>1. total \in Nat /\ Sem!InitWith(total)
  <2>1. total = 1 \/ total \in MaxReaders \/ total \in 0 .. MaxTotal
    BY DEF Init
  <2>2. \A n \in MaxReaders : n \in Nat
    BY MaxReadersAssumption
  <2>3. total \in Nat
    <3>1. CASE total \in MaxReaders
      BY <3>1, <2>2
    <3>2. CASE total = 1 \/ total \in 0 .. MaxTotal
      BY <3>2
    <3> QED
      BY <2>1, <3>1, <3>2
  <2> QED
    BY <2>3 DEF Init
<1>2. SemInv /\ Existing = total
  BY <1>1, InitKeeps
<1>3. PermitInv
  <2>1. \A c \in Clients : guard[c] = "none" /\ phase[c] = "out"
    BY <1>1 DEF Init, Sem!InitWith
  <2>2. \A c \in Clients : GuardInv(c)
    BY <2>1 DEF GuardInv
  <2> QED
    BY <1>1, <1>2, <2>2, MaxReadersAssumption DEF PermitInv, Init
<1>4. ArcInv
  <2>1. \A c \in Clients : phase[c] = "out"
    BY <1>1 DEF Sem!InitWith
  <2> QED
    BY <2>1, FS_EmptySet DEF ArcInv, Init
<1> QED
  BY <1>3, <1>4 DEF LockInv

\* A call for n permits, of the kind that guard g is about.
Asks(c, n, g) ==
    /\ \/ g = "permit" /\ kind = "semaphore"
       \/ g = "read" /\ kind = "rwlock" /\ n = 1
       \/ g = "write" /\ kind # "semaphore" /\ n = total
    /\ Now(c, n, g) \/ Later(c, n, g)
    /\ Borrowed(c) \/ Cloned(c)

LEMMA Asking ==
    ASSUME MaxTotal \in Nat, LockInv, NEW c \in Clients, Acquiring(c)
    PROVE  \E n \in Nat, g \in {"permit", "read", "write"} : Asks(c, n, g)
<1>1. ASSUME Lock(c) \/ LockOwned(c)
      PROVE  Asks(c, 1, "write")
  BY <1>1 DEF Lock, LockOwned, TryLock, TryLockOwned, AcquireOne, Asks, LockInv, PermitInv
<1>2. ASSUME Read(c) \/ ReadOwned(c)
      PROVE  Asks(c, 1, "read")
  BY <1>2 DEF Read, ReadOwned, TryRead, TryReadOwned, Asks
<1>3. ASSUME Write(c) \/ WriteOwned(c)
      PROVE  Asks(c, total, "write")
  BY <1>3 DEF Write, WriteOwned, TryWrite, TryWriteOwned, Asks
<1>4. ASSUME NEW n \in 0 .. MaxTotal, AcquireMany(c, n) \/ AcquireManyOwned(c, n)
      PROVE  Asks(c, n, "permit") /\ n \in Nat
  BY <1>4 DEF AcquireMany, AcquireManyOwned, TryAcquireMany, TryAcquireManyOwned, Asks
<1>5. total \in Nat
  BY DEF LockInv, PermitInv
<1> QED
  BY <1>1, <1>2, <1>3, <1>4, <1>5 DEF Acquiring

LEMMA LockAsks ==
    ASSUME IsFiniteSet(Clients), LockInv, NEW c \in Clients, NEW n \in Nat, NEW g,
           Asks(c, n, g)
    PROVE  LockInv'
<1>1. /\ SemInv' /\ Existing' = Existing
      /\ phase[c] = "out"
      /\ \/ phase' = [phase EXCEPT ![c] = "granted"]
         \/ phase' = [phase EXCEPT ![c] = "waiting"]
      /\ need' = [need EXCEPT ![c] = n]
      /\ guard' = [guard EXCEPT ![c] = g]
      /\ UNCHANGED <<kind, total>>
  BY AcquireKeeps, WaitKeeps
     DEF Asks, Now, Later, LockInv, PermitInv, Sem!Acquire, Sem!Wait
<1>2. phase \in [Clients -> Sem!Phases] /\ need \in [Clients -> Nat]
  BY DEF LockInv, PermitInv, SemInv
<1>3. \A d \in Clients : GuardInv(d)'
  <2> TAKE d \in Clients
  <2>1. CASE d # c
    <3>1. phase'[d] = phase[d] /\ need'[d] = need[d] /\ guard'[d] = guard[d] /\ GuardInv(d)
      BY <2>1, <1>1, <1>2 DEF LockInv, PermitInv
    <3> QED
      BY <3>1, <1>1 DEF GuardInv
  <2>2. CASE d = c
    <3>1. phase'[c] \in {"granted", "waiting"} /\ need'[c] = n /\ guard'[c] = g
      BY <1>1, <1>2 DEF LockInv, PermitInv
    <3> QED
      BY <2>2, <3>1, <1>1 DEF GuardInv, Asks
  <2> QED
    BY <2>1, <2>2
<1>4. PermitInv'
  BY <1>1, <1>3 DEF LockInv, PermitInv
<1>5. ArcInv'
  <2>1. c \notin owned /\ IsFiniteSet(owned) /\ Cardinality(owned) \in Nat
    BY <1>1, FS_Subset, FS_CardinalityType DEF LockInv, ArcInv
  <2>2. Cardinality(owned \cup {c}) = Cardinality(owned) + 1
    BY <2>1, FS_AddElement
  <2>3. handle
    BY DEF Asks, Borrowed, Cloned
  <2>4. \A d \in Clients : d # c => phase'[d] = phase[d]
    BY <1>1, <1>2
  <2>5. phase'[c] # "out"
    BY <1>1, <1>2
  <2>6. CASE Borrowed(c)
    BY <2>3, <2>4, <2>5, <2>6 DEF Borrowed, arc, LockInv, ArcInv
  <2>7. CASE Cloned(c)
    BY <2>1, <2>2, <2>3, <2>4, <2>5, <2>7 DEF Cloned, LockInv, ArcInv
  <2> QED
    BY <2>6, <2>7 DEF Asks
<1> QED
  BY <1>4, <1>5 DEF LockInv

\* A future or a guard goes, by itself or for what it was.
Leaving(c) == Cancel(c) \/ Unlocking(c) \/ DropPermit(c) \/ DropPermitOwned(c)

\* The reference that goes with it.
LEMMA ArcLeaves ==
    ASSUME IsFiniteSet(Clients), ArcInv, NEW c \in Clients, Leaves(c),
           phase \in [Clients -> Sem!Phases],
           phase' = [phase EXCEPT ![c] = "out"]
    PROVE  ArcInv'
<1>1. IsFiniteSet(owned) /\ Cardinality(owned) \in Nat
  BY FS_Subset, FS_CardinalityType DEF ArcInv
<1>2. c \in owned => Cardinality(owned \ {c}) = Cardinality(owned) - 1
  BY <1>1, FS_RemoveElement
<1>3. c \notin owned => owned \ {c} = owned
  OBVIOUS
<1>4. \A d \in Clients : d # c => phase'[d] = phase[d]
  OBVIOUS
<1>5. phase'[c] = "out"
  OBVIOUS
<1>6. owned' = owned \ {c} /\ refs' = (IF c \in owned THEN refs - 1 ELSE refs) /\ handle' = handle
  BY DEF Leaves
<1>7. refs' = Cardinality(owned') + (IF handle' THEN 1 ELSE 0)
  <2>1. refs = Cardinality(owned) + (IF handle THEN 1 ELSE 0)
    BY DEF ArcInv
  <2>2. CASE c \in owned
    BY <2>1, <2>2, <1>1, <1>2, <1>6
  <2>3. CASE c \notin owned
    BY <2>1, <2>3, <1>3, <1>6
  <2> QED
    BY <2>2, <2>3
<1>8. \A d \in owned' : phase'[d] # "out"
  BY <1>4, <1>6 DEF ArcInv
<1>9. \A d \in Clients \ owned' : phase'[d] # "out" => handle'
  BY <1>4, <1>5, <1>6 DEF ArcInv
<1>10. owned' \subseteq Clients /\ handle' \in BOOLEAN
  BY <1>6 DEF ArcInv
<1> QED
  BY <1>7, <1>8, <1>9, <1>10 DEF ArcInv

LEMMA LockLeaves ==
    ASSUME IsFiniteSet(Clients), LockInv, NEW c \in Clients, Leaving(c)
    PROVE  LockInv'
<1>1. Sem!Drop(c) /\ Gone(c)
  BY DEF Leaving, Cancel, Unlocking, DropPermit, DropPermitOwned, Ends,
         Unlock, UnlockOwned, UnlockMapped, DropRead, DropReadOwned, DropWrite,
         DropWriteOwned, DropMapped, DropMappedOwned
<1>2. /\ SemInv' /\ Existing' = Existing
      /\ phase' = [phase EXCEPT ![c] = "out"] /\ need' = [need EXCEPT ![c] = 0]
      /\ guard' = [guard EXCEPT ![c] = "none"]
      /\ Leaves(c) /\ UNCHANGED <<kind, total>>
  BY <1>1, DropKeeps DEF LockInv, PermitInv, Sem!Drop, Gone, Leaves
<1>3. phase \in [Clients -> Sem!Phases] /\ need \in [Clients -> Nat]
  BY DEF LockInv, PermitInv, SemInv
<1>4. \A d \in Clients : GuardInv(d)'
  BY <1>2, <1>3 DEF LockInv, PermitInv, GuardInv
<1>5. PermitInv'
  BY <1>2, <1>4 DEF LockInv, PermitInv
<1>6. ArcInv'
  BY <1>2, <1>3, ArcLeaves DEF LockInv
<1> QED
  BY <1>5, <1>6 DEF LockInv

\* A guard that becomes another one keeps what the other one is about.
LEMMA LockConverts ==
    ASSUME IsFiniteSet(Clients), LockInv, NEW c \in Clients, Converting(c)
    PROVE  LockInv'
<1>0. /\ phase \in [Clients -> Sem!Phases] /\ need \in [Clients -> Nat]
      /\ held \in [Clients -> Nat] /\ total \in Nat
  BY DEF LockInv, PermitInv, SemInv
<1>1. ASSUME NEW g, Becomes(c, g), phase[c] = "granted",
             \/ guard[c] \in {"write", "mapped"} /\ g = "mapped"
             \/ guard[c] = "read" /\ g = "read"
      PROVE  LockInv'
  <2>1. guard' = [guard EXCEPT ![c] = g] /\ UNCHANGED <<sem, kind, total, arc>>
    BY <1>1 DEF Becomes
  <2>2. SemInv' /\ Existing' = Existing /\ UNCHANGED <<phase, need>>
    BY <2>1 DEF sem, LockInv, PermitInv, SemInv, ClientInv, Existing
  <2>3. \A d \in Clients : GuardInv(d)'
    BY <1>1, <2>1, <2>2 DEF LockInv, PermitInv, GuardInv
  <2> QED
    BY <2>1, <2>2, <2>3 DEF LockInv, PermitInv, ArcInv, arc
<1>2. ASSUME ToReader(c), NEW o \in BOOLEAN, Holds(c, "rwlock", "write", o)
      PROVE  LockInv'
  <2>1. /\ total - 1 \in Nat /\ need[c] = total /\ phase[c] = "granted" /\ kind = "rwlock"
        /\ total > 0
    BY <1>2, <1>0 DEF Holds, LockInv, PermitInv, GuardInv
  <2>2. /\ SemInv' /\ Existing' = Existing
        /\ UNCHANGED phase /\ need' = [need EXCEPT ![c] = need[c] - (total - 1)]
    BY <1>2, <2>1, ReturnKeeps DEF ToReader, LockInv, PermitInv, Sem!Return
  <2>3. guard' = [guard EXCEPT ![c] = "read"] /\ UNCHANGED <<kind, total, arc>>
    BY <1>2 DEF ToReader
  <2>4. need'[c] = 1 /\ \A d \in Clients \ {c} : need'[d] = need[d]
    BY <2>1, <2>2, <1>0
  <2>5. \A d \in Clients : GuardInv(d)'
    <3> TAKE d \in Clients
    <3>1. CASE d # c
      BY <3>1, <2>2, <2>3, <2>4 DEF LockInv, PermitInv, GuardInv
    <3>2. CASE d = c
      <4>1. guard'[c] = "read"
        BY <2>3 DEF LockInv, PermitInv
      <4> QED
        BY <3>2, <4>1, <2>1, <2>2, <2>3, <2>4 DEF GuardInv
    <3> QED
      BY <3>1, <3>2
  <2> QED
    BY <2>2, <2>3, <2>5 DEF LockInv, PermitInv, ArcInv, arc
<1>3. CASE Downgrade(c) \/ DowngradeOwned(c)
  BY <1>2, <1>3 DEF Downgrade, DowngradeOwned
<1>4. CASE MapMutex(c) \/ RemapMutex(c) \/ MapWrite(c) \/ MapWriteOwned(c)
           \/ Remap(c) \/ RemapOwned(c) \/ MapRead(c) \/ MapReadOwned(c)
  BY <1>1, <1>4 DEF MapMutex, RemapMutex, MapWrite, MapWriteOwned, Remap, RemapOwned,
                    MapRead, MapReadOwned, Holds
<1> QED
  BY <1>3, <1>4 DEF Converting

LEMMA LockForgets ==
    ASSUME IsFiniteSet(Clients), LockInv, NEW c \in Clients, ForgetPermit(c)
    PROVE  LockInv'
<1>1. /\ SemInv' /\ Existing' + held[c] = Existing
      /\ phase' = [phase EXCEPT ![c] = "out"] /\ need' = [need EXCEPT ![c] = 0]
      /\ guard' = [guard EXCEPT ![c] = "none"]
      /\ Leaves(c) /\ kind = "semaphore" /\ kind' = kind /\ total' = total - held[c]
  BY ForgetKeeps DEF ForgetPermit, LockInv, PermitInv, Sem!Forget, Leaves
<1>2. /\ phase \in [Clients -> Sem!Phases] /\ need \in [Clients -> Nat]
      /\ held[c] \in Nat /\ total \in Nat /\ Existing = total
  BY DEF LockInv, PermitInv, SemInv
<1>3. Existing' \in Nat
  <2>1. pool' \in Nat /\ held' \in [Clients -> Nat]
    BY <1>1 DEF SemInv
  <2> QED
    BY <2>1, SumNat DEF Existing
<1>4. \A d \in Clients : GuardInv(d)'
  BY <1>1, <1>2 DEF LockInv, PermitInv, GuardInv
<1>5. total' \in Nat /\ Existing' = total'
  BY <1>1, <1>2, <1>3
<1>6. PermitInv'
  BY <1>1, <1>4, <1>5 DEF LockInv, PermitInv
<1>7. ArcInv'
  BY <1>1, <1>2, ArcLeaves DEF LockInv
<1> QED
  BY <1>6, <1>7 DEF LockInv

LEMMA LockOthers ==
    ASSUME IsFiniteSet(Clients), LockInv,
           \/ \E c \in Clients : Served(c)
           \/ \E n \in 1 .. MaxTotal : AddPermits(n)
           \/ Close \/ DropHandle \/ Freed \/ UNCHANGED vars
    PROVE  LockInv'
<1>0. phase \in [Clients -> Sem!Phases] /\ need \in [Clients -> Nat]
  BY DEF LockInv, PermitInv, SemInv
<1>1. ASSUME NEW c \in Clients, Served(c)
      PROVE  LockInv'
  <2>1. /\ SemInv' /\ Existing' = Existing
        /\ phase[c] = "waiting" /\ phase' = [phase EXCEPT ![c] = "granted"]
        /\ UNCHANGED <<need, kind, total, guard, arc>>
    BY <1>1, ReceiveKeeps DEF Served, LockInv, PermitInv, Sem!Receive
  <2>2. \A d \in Clients : GuardInv(d)'
    BY <1>0, <2>1 DEF LockInv, PermitInv, GuardInv
  <2> QED
    BY <1>0, <2>1, <2>2 DEF LockInv, PermitInv, ArcInv, arc
<1>2. ASSUME NEW n \in 1 .. MaxTotal, AddPermits(n)
      PROVE  LockInv'
  <2>1. /\ SemInv' /\ Existing' = Existing + n
        /\ kind = "semaphore" /\ total' = total + n
        /\ UNCHANGED <<phase, need, kind, guard, arc>>
    <3>1. n \in Nat
      OBVIOUS
    <3> QED
      BY <1>2, <3>1, AddKeeps DEF AddPermits, LockInv, PermitInv, Sem!Add
  <2>2. total' \in Nat /\ Existing' = total'
    BY <2>1 DEF LockInv, PermitInv
  <2>3. \A d \in Clients : GuardInv(d)'
    BY <2>1 DEF LockInv, PermitInv, GuardInv
  <2> QED
    BY <2>1, <2>2, <2>3 DEF LockInv, PermitInv, ArcInv, arc
<1>3. CASE Close
  <2>1. /\ SemInv' /\ Existing' = Existing
        /\ UNCHANGED <<phase, need, kind, total, guard, arc>>
    BY <1>3, CloseKeeps DEF Close, LockInv, PermitInv, Sem!Close
  <2>2. \A d \in Clients : GuardInv(d)'
    BY <2>1 DEF LockInv, PermitInv, GuardInv
  <2> QED
    BY <2>1, <2>2 DEF LockInv, PermitInv, ArcInv, arc
<1>4. CASE DropHandle \/ Freed \/ UNCHANGED vars
  <2>1. UNCHANGED <<sem, kind, total, guard, owned>>
    BY <1>4 DEF DropHandle, Freed, vars, arc
  <2>2. PermitInv'
    BY <2>1 DEF sem, LockInv, PermitInv, SemInv, ClientInv, GuardInv, Existing
  <2>3. ArcInv'
    <3>1. IsFiniteSet(owned) /\ Cardinality(owned) \in Nat
      BY FS_Subset, FS_CardinalityType DEF LockInv, ArcInv
    <3>2. CASE DropHandle
      <4>1. /\ handle /\ handle' = FALSE /\ refs' = refs - 1 /\ owned' = owned
            /\ phase' = phase /\ \A c \in Clients : phase[c] = "out" \/ c \in owned
        BY <3>2 DEF DropHandle, sem
      <4>2. refs = Cardinality(owned) + 1
        BY <4>1 DEF LockInv, ArcInv
      <4>3. refs' = Cardinality(owned') + 0
        BY <4>1, <4>2, <3>1
      <4> QED
        BY <4>1, <4>3 DEF LockInv, ArcInv
    <3>3. CASE Freed \/ UNCHANGED vars
      BY <3>3 DEF Freed, vars, sem, arc, LockInv, ArcInv
    <3> QED
      BY <1>4, <3>2, <3>3
  <2> QED
    BY <2>2, <2>3 DEF LockInv
<1> QED
  BY <1>1, <1>2, <1>3, <1>4

LEMMA LockStep ==
    ASSUME IsFiniteSet(Clients), MaxTotal \in Nat, LockInv, [Next]_vars
    PROVE  LockInv'
<1>1. ASSUME NEW c \in Clients, Acquiring(c)
      PROVE  LockInv'
  BY <1>1, Asking, LockAsks
<1>2. ASSUME NEW c \in Clients,
             \/ Cancel(c) \/ Unlocking(c) \/ DropPermit(c) \/ DropPermitOwned(c)
             \/ Converting(c) \/ ForgetPermit(c)
      PROVE  LockInv'
  BY <1>2, LockLeaves, LockConverts, LockForgets DEF Leaving
<1> QED
  BY <1>1, <1>2, LockOthers DEF Next
-----------------------------------------------------------------------------
(* The batch semaphore                                                     *)

\* Two sums are the sum of both.
LEMMA SumPlus ==
    ASSUME NEW f, NEW g, NEW h, NEW T, IsFiniteSet(T), NatOn(f, T), NatOn(g, T),
           \A x \in T : h[x] = f[x] + g[x]
    PROVE  SumFunctionOnSet(h, T) = SumFunctionOnSet(f, T) + SumFunctionOnSet(g, T)
<1> DEFINE G == {U \in SUBSET T :
                   SumFunctionOnSet(h, U) = SumFunctionOnSet(f, U) + SumFunctionOnSet(g, U)}
<1>1. NatOn(h, T)
  BY DEF NatOn
<1>2. {} \in G
  BY SumNone
<1>3. ASSUME NEW U \in G, NEW x \in T \ U PROVE U \cup {x} \in G
  <2>1. /\ SumFunctionOnSet(f, U \cup {x}) = f[x] + SumFunctionOnSet(f, U)
        /\ SumFunctionOnSet(g, U \cup {x}) = g[x] + SumFunctionOnSet(g, U)
        /\ SumFunctionOnSet(h, U \cup {x}) = h[x] + SumFunctionOnSet(h, U)
    BY <1>1, SumAdds
  <2>2. f[x] \in Nat /\ g[x] \in Nat /\ h[x] = f[x] + g[x]
    BY DEF NatOn
  <2>3. SumFunctionOnSet(f, U) \in Nat /\ SumFunctionOnSet(g, U) \in Nat
    BY SumType
  <2>4. SumFunctionOnSet(h, U) = SumFunctionOnSet(f, U) + SumFunctionOnSet(g, U)
    OBVIOUS
  <2>5. SumFunctionOnSet(h, U \cup {x})
          = SumFunctionOnSet(f, U \cup {x}) + SumFunctionOnSet(g, U \cup {x})
    BY <2>1, <2>2, <2>3, <2>4
  <2> QED
    BY <2>5
<1>4. G \in SUBSET (SUBSET T)
  OBVIOUS
<1> HIDE DEF G
<1>5. T \in G
  BY <1>2, <1>3, <1>4, SetInduction
<1> QED
  BY <1>5 DEF G

\* The instance's bounds: no more permits than fit in the word.
BatchConstants ==
    /\ IsFiniteSet(Clients) /\ Sizes \subseteq Nat
    /\ MAX_PERMIT \in Nat /\ MinTotal \in Nat /\ MaxPermits \in Nat
    /\ MinTotal <= MaxPermits /\ MaxPermits < B!PermitRange

\* What a future or a guard has been given.
Assigned == [c \in Clients |-> num[c] - missing[c]]

FutureInv(c) ==
    /\ missing[c] <= num[c]
    /\ c \in Range(list) <=> stage[c] = "queued" /\ ~shut /\ missing[c] > 0
    /\ stage[c] = "unused" => num[c] = 0 /\ missing[c] = 0
    /\ stage[c] = "created" => missing[c] = num[c]
    /\ stage[c] = "granted" => missing[c] = 0
    /\ stage[c] = "queued" /\ c \notin Range(list) => c \in awake
    /\ c \in Range(list) => waker[c] = poller[c]

BatchType ==
    /\ permits \in Nat /\ circulating \in Nat /\ circulating <= MaxPermits
    /\ shut \in BOOLEAN
    /\ list \in Seq(Clients) /\ Once(list)
    /\ stage \in [Clients -> B!Stages]
    /\ num \in [Clients -> Nat] /\ missing \in [Clients -> Nat]
    /\ waker = [c \in Clients |-> waker[c]] /\ poller = [c \in Clients |-> poller[c]]
    /\ awake \subseteq Clients

\* Nothing is in the word while somebody waits.
BatchInv ==
    /\ BatchType
    /\ list # <<>> => permits = 0
    /\ \A c \in Clients : FutureInv(c)
    /\ permits + Sum(Assigned) = circulating

LEMMA BatchOperators ==
    /\ \A f, S : B!SumFunctionOnSet(f, S) = SumFunctionOnSet(f, S)
    /\ \A s, e : B!Without(s, e) = Without(s, e)
    /\ \A s : B!Range(s) = Range(s)
<1>1. \A f, S : B!SumFunctionOnSet(f, S) = SumFunctionOnSet(f, S)
  BY DEF SumFunctionOnSet, FoldFunctionOnSet, MapThenFoldSet,
         B!SumFunctionOnSet, B!FoldFunctionOnSet, B!MapThenFoldSet
<1>2. \A s, e : B!Without(s, e) = Without(s, e)
  BY DEF Without, B!Without
<1>3. \A s : B!Range(s) = Range(s)
  BY DEF Range, B!Range
<1> QED
  BY <1>1, <1>2, <1>3

LEMMA AssignedType ==
    ASSUME BatchInv
    PROVE  /\ Assigned \in [Clients -> Nat] /\ NatOn(Assigned, Clients)
           /\ \A c \in Clients : Assigned[c] = num[c] - missing[c]
  BY DEF BatchInv, BatchType, FutureInv, Assigned, NatOn

LEMMA BatchInvSound ==
    ASSUME BatchConstants, BatchInv
    PROVE  B!SemaphoreSound
<1> DEFINE P == B!InStage({"granted"})
           Q == B!InStage({"queued", "failed"})
           f == [c \in Clients |-> IF c \in P THEN Assigned[c] ELSE 0]
           g == [c \in Clients |-> IF c \in Q THEN Assigned[c] ELSE 0]
<1>1. /\ IsFiniteSet(Clients) /\ Assigned \in [Clients -> Nat]
      /\ \A c \in Clients : Assigned[c] = num[c] - missing[c]
  BY AssignedType DEF BatchConstants
<1>2. /\ P \in SUBSET Clients /\ \A c \in Clients : c \in P <=> stage[c] = "granted"
      /\ Q \in SUBSET Clients /\ \A c \in Clients : c \in Q <=> stage[c] \in {"queued", "failed"}
  BY DEF B!InStage
<1> HIDE DEF P, Q
<1>3. /\ \A c \in P : Assigned[c] = num[c]
      /\ \A c \in Clients \ (P \cup Q) : Assigned[c] = 0
  <2>1. ASSUME NEW c \in Clients
        PROVE  /\ num[c] \in Nat /\ missing[c] \in Nat /\ stage[c] \in B!Stages
               /\ stage[c] = "granted" => missing[c] = 0
               /\ stage[c] \in {"unused", "created"} => missing[c] = num[c]
    BY DEF BatchInv, BatchType, FutureInv
  <2>2. \A c \in P : Assigned[c] = num[c]
    BY <2>1, <1>1, <1>2
  <2>3. ASSUME NEW c \in Clients \ (P \cup Q)
        PROVE  Assigned[c] = 0
    <3>1. stage[c] \in {"unused", "created"}
      BY <2>1, <1>2 DEF B!Stages
    <3> QED
      BY <3>1, <2>1, <1>1
  <2> QED
    BY <2>2, <2>3
<1>4. /\ f \in [Clients -> Nat] /\ g \in [Clients -> Nat]
      /\ \A c \in Clients : Assigned[c] = f[c] + g[c]
      /\ \A c \in P : f[c] = num[c]
      /\ \A c \in Clients \ P : f[c] = 0
      /\ \A c \in Q : g[c] = num[c] - missing[c]
      /\ \A c \in Clients \ Q : g[c] = 0
  BY <1>1, <1>2, <1>3
<1> HIDE DEF f, g
<1>5. NatOn(f, Clients) /\ NatOn(g, Clients)
  BY <1>4 DEF NatOn
<1>6. Sum(Assigned) = Sum(f) + Sum(g)
  BY <1>1, <1>4, <1>5, SumPlus DEF Sum
<1>7. Sum(f) = SumFunctionOnSet(num, P)
  <2>1. SumFunctionOnSet(f, P) = Sum(f)
    BY <1>1, <1>2, <1>4, <1>5, SumOfPart DEF Sum
  <2>2. IsFiniteSet(P) /\ NatOn(f, P)
    BY <1>1, <1>2, <1>5, SumType
  <2> QED
    BY <2>1, <2>2, <1>4, SumSame
<1>8. Sum(g) = SumFunctionOnSet([c \in Clients |-> num[c] - missing[c]], Q)
  <2> DEFINE h == [c \in Clients |-> num[c] - missing[c]]
  <2>1. SumFunctionOnSet(g, Q) = Sum(g)
    BY <1>1, <1>2, <1>4, <1>5, SumOfPart DEF Sum
  <2>2. IsFiniteSet(Q) /\ NatOn(g, Q)
    BY <1>1, <1>2, <1>5, SumType
  <2>3. \A c \in Q : g[c] = h[c]
    BY <1>2, <1>4
  <2> HIDE DEF h
  <2>4. SumFunctionOnSet(g, Q) = SumFunctionOnSet(h, Q)
    BY <2>2, <2>3, SumSame
  <2> QED
    BY <2>1, <2>4 DEF h
<1>9. Sum(f) \in Nat /\ Sum(g) \in Nat /\ permits \in Nat
  BY <1>1, <1>4, SumNat DEF BatchInv, BatchType
<1>10. B!PermitsConserved
  <2>1. circulating = permits + SumFunctionOnSet(num, P)
          + SumFunctionOnSet([c \in Clients |-> num[c] - missing[c]], Q)
    BY <1>6, <1>7, <1>8, <1>9 DEF BatchInv
  <2> QED
    BY <2>1, BatchOperators DEF B!PermitsConserved, P, Q
<1>11. B!NoBarging
  BY DEF B!NoBarging, BatchInv
<1>12. B!NoDanglingNode
  <2>1. Range(list) = {c \in Clients : stage[c] = "queued" /\ ~shut /\ missing[c] > 0}
    BY RangeOf DEF BatchInv, BatchType, FutureInv
  <2>2. {c \in Clients : stage[c] = "queued" /\ ~shut /\ missing[c] > 0}
          = {c \in B!InStage({"queued"}) : ~shut /\ missing[c] > 0}
    BY DEF B!InStage
  <2> QED
    BY <2>1, <2>2, BatchOperators DEF B!NoDanglingNode, BatchInv, BatchType, Once
<1>13. B!WokenWhenServed
  BY BatchOperators DEF B!WokenWhenServed, B!InStage, BatchInv, FutureInv
<1> QED
  BY <1>10, <1>11, <1>12, <1>13 DEF B!SemaphoreSound

\* r permits serve the first k of l, and the next one in part.
Serves(k, r, l, gone) ==
    /\ Asked(missing, l, k) <= r
    /\ k < Len(l) => Asked(missing, l, k + 1) > r
    /\ list' = SubSeq(l, k + 1, Len(l))
    /\ missing' = [c \in Clients |->
         IF c \in {l[i] : i \in 1 .. k} \cup gone THEN 0
         ELSE IF k < Len(l) /\ c = l[k + 1] THEN missing[c] - (r - Asked(missing, l, k))
         ELSE missing[c]]
    /\ permits' = IF k = Len(l)
                  THEN (permits + (r - Asked(missing, l, k))) % B!PermitRange ELSE permits
    /\ B!WakeAll({l[i] : i \in 1 .. k}, gone)

LEMMA ServesSome ==
    ASSUME NEW r, NEW l, NEW gone, B!AddPermits(r, l, gone)
    PROVE  \E k \in 0 .. Len(l) : Serves(k, r, l, gone)
<1>1. \A k : B!Demand(l, k) = Asked(missing, l, k)
  BY BatchOperators DEF B!Demand, Asked
<1>2. PICK k \in 0 .. Len(l) :
        /\ B!Demand(l, k) <= r
        /\ k < Len(l) => B!Demand(l, k + 1) > r
        /\ list' = SubSeq(l, k + 1, Len(l))
        /\ missing' = [c \in Clients |->
             IF c \in {l[i] : i \in 1 .. k} \cup gone THEN 0
             ELSE IF k < Len(l) /\ c = l[k + 1] THEN missing[c] - (r - B!Demand(l, k))
             ELSE missing[c]]
        /\ permits' = IF k = Len(l)
                      THEN (permits + (r - B!Demand(l, k))) % B!PermitRange ELSE permits
        /\ B!WakeAll({l[i] : i \in 1 .. k}, gone)
  BY DEF B!AddPermits
<1>3. B!Demand(l, k) = Asked(missing, l, k) /\ B!Demand(l, k + 1) = Asked(missing, l, k + 1)
  BY <1>1
<1>4. missing' = [c \in Clients |->
           IF c \in {l[i] : i \in 1 .. k} \cup gone THEN 0
           ELSE IF k < Len(l) /\ c = l[k + 1] THEN missing[c] - (r - Asked(missing, l, k))
           ELSE missing[c]]
  BY <1>2, <1>3
<1> QED
  BY <1>2, <1>3, <1>4 DEF Serves

\* What a deal of r permits to the queue l does when it gives each what g says.
Gives(g, r, l, gone) ==
    /\ \A c \in Clients :
          /\ missing'[c] = IF c \in gone THEN 0 ELSE missing[c] - g[c]
          /\ g[c] > 0 => c \in Range(l)
          /\ g[c] <= missing[c]
          /\ c \in Range(list') <=> c \in Range(l) /\ g[c] < missing[c]
    /\ missing' = [c \in Clients |-> missing'[c]]
    /\ list' \in Seq(Clients) /\ Once(list')
    /\ list' # <<>> => permits' = 0
    /\ permits' \in Nat /\ permits' + Sum(g) = permits + r
    /\ B!WakeAll(Range(l) \ Range(list'), gone)
    /\ r = 0 => list' = l /\ permits' = permits /\ \A c \in Clients : g[c] = 0

LEMMA BatchDealt ==
    ASSUME BatchConstants, missing \in [Clients -> Nat], permits \in Nat,
           NEW r \in Nat, permits + r <= MaxPermits,
           NEW l \in Seq(Clients), Once(l), \A c \in Range(l) : missing[c] > 0,
           l # <<>> => permits = 0,
           NEW gone \in SUBSET Clients, \A c \in Range(l) : c \notin gone,
           B!AddPermits(r, l, gone)
    PROVE  \E g \in [Clients -> Nat] : Gives(g, r, l, gone)
<1> DEFINE D(k) == Asked(missing, l, k)
<1>0. IsFiniteSet(Clients) /\ Len(l) \in Nat
  BY DEF BatchConstants
<1>p. PICK k \in 0 .. Len(l) : Serves(k, r, l, gone)
  BY ServesSome
<1>1. /\ D(k) <= r
      /\ k < Len(l) => D(k + 1) > r
      /\ list' = SubSeq(l, k + 1, Len(l))
      /\ missing' = [c \in Clients |->
           IF c \in {l[i] : i \in 1 .. k} \cup gone THEN 0
           ELSE IF k < Len(l) /\ c = l[k + 1] THEN missing[c] - (r - D(k))
           ELSE missing[c]]
      /\ permits' = IF k = Len(l) THEN (permits + (r - D(k))) % B!PermitRange ELSE permits
      /\ B!WakeAll({l[i] : i \in 1 .. k}, gone)
  BY <1>p DEF Serves
<1>2. /\ D(k) \in Nat /\ k \in Nat
      /\ k < Len(l) => D(k + 1) = D(k) + missing[l[k + 1]] /\ l[k + 1] \in Clients
  BY AskedGrows
<1>3. IsRest(list', l, k, Clients)
  BY <1>1, Rest
<1> DEFINE left == r - D(k)
           front(c) == \E i \in 1 .. k : l[i] = c
           zero == [c \in Clients |-> 0]
           g0 == Given(missing, l, k, zero)
           g == [c \in Clients |-> IF front(c) THEN missing[c]
                                   ELSE IF k < Len(l) /\ c = l[k + 1] THEN left ELSE 0]
<1>4. g0 \in [Clients -> Nat] /\ Sum(g0) = D(k)
  <2>1. zero \in [Clients -> Nat] /\ \A i \in 1 .. Len(l) : zero[l[i]] = 0
    OBVIOUS
  <2>2. Sum(zero) = 0
    <3>1. NatOn(zero, Clients) /\ \A c \in Clients \ {} : zero[c] = 0
      BY DEF NatOn
    <3> HIDE DEF zero
    <3>2. SumFunctionOnSet(zero, {}) = SumFunctionOnSet(zero, Clients)
      BY <1>0, <3>1, SumOfPart
    <3> QED
      BY <3>2, SumNone DEF Sum
  <2> HIDE DEF zero
  <2>3. g0 \in [Clients -> Nat] /\ Sum(g0) = Sum(zero) + D(k)
    BY <2>1, <1>0, GivenIsAsked
  <2> QED
    BY <2>2, <2>3, <1>2
<1>5. \A c \in Clients : g0[c] = IF front(c) THEN missing[c] ELSE 0
  BY DEF Given
<1>6. k < Len(l) => ~front(l[k + 1]) /\ l[k + 1] \in Range(l) /\ left < missing[l[k + 1]]
  <2> SUFFICES ASSUME k < Len(l)
               PROVE  ~front(l[k + 1]) /\ l[k + 1] \in Range(l) /\ left < missing[l[k + 1]]
    OBVIOUS
  <2>1. k + 1 \in 1 .. Len(l) /\ \A i \in 1 .. k : i \in 1 .. Len(l) /\ i # k + 1
    BY <1>0, <1>2
  <2>2. ~front(l[k + 1])
    BY <2>1 DEF Once
  <2>3. missing[l[k + 1]] \in Nat
    BY <1>2
  <2>4. r - D(k) < missing[l[k + 1]]
    BY <2>3, <1>1, <1>2
  <2> QED
    BY <2>1, <2>2, <2>4, RangeOf
<1>7. left \in Nat
  BY <1>1, <1>2
<1>8. \A c \in Clients : front(c) => c \in Range(l)
  BY RangeOf
<1> HIDE DEF D, left, g0, zero
<1>9. /\ g \in [Clients -> Nat]
      /\ \A c \in Clients : g[c] = IF front(c) THEN missing[c]
                                   ELSE IF k < Len(l) /\ c = l[k + 1] THEN left ELSE 0
  BY <1>7
<1> HIDE DEF g
<1>10. Sum(g) = D(k) + (IF k < Len(l) THEN left ELSE 0)
  <2>1. CASE k < Len(l)
    <3> DEFINE h == l[k + 1]
    <3>1. h \in Clients /\ g0[h] = 0
      BY <2>1, <1>2, <1>5, <1>6
    <3>2. g = [g0 EXCEPT ![h] = left]
      <4>1. [g0 EXCEPT ![h] = left] \in [Clients -> Nat]
        BY <1>4, <1>7
      <4>2. \A c \in Clients : g[c] = [g0 EXCEPT ![h] = left][c]
        BY <2>1, <3>1, <1>4, <1>5, <1>6, <1>9
      <4> HIDE DEF h
      <4> QED
        BY <4>1, <4>2, <1>9
    <3> HIDE DEF h
    <3>3. Sum(g) + 0 = Sum(g0) + left
      BY <3>1, <3>2, <1>0, <1>4, <1>7, SumExcept
    <3>4. Sum(g) \in Nat
      BY <1>0, <1>9, SumNat
    <3> QED
      BY <2>1, <3>3, <3>4, <1>4
  <2>2. CASE ~(k < Len(l))
    <3>1. g = g0
      BY <2>2, <1>4, <1>5, <1>9
    <3> QED
      BY <2>2, <3>1, <1>2, <1>4
  <2> QED
    BY <2>1, <2>2
<1>11. /\ list' \in Seq(Clients) /\ Once(list') /\ Len(list') = Len(l) - k
       /\ \A c : c \in Range(list') <=> c \in Range(l) /\ ~front(c)
  BY <1>3 DEF IsRest
<1>12. ASSUME NEW c \in Clients
       PROVE  /\ missing'[c] = IF c \in gone THEN 0 ELSE missing[c] - g[c]
              /\ g[c] > 0 => c \in Range(l)
              /\ g[c] <= missing[c]
              /\ c \in Range(list') <=> c \in Range(l) /\ g[c] < missing[c]
  <2>1. c \in {l[i] : i \in 1 .. k} <=> front(c)
    OBVIOUS
  <2> HIDE DEF front
  <2>2. missing'[c] = IF front(c) \/ c \in gone THEN 0
                      ELSE IF k < Len(l) /\ c = l[k + 1] THEN missing[c] - left
                      ELSE missing[c]
    BY <2>1, <1>1 DEF left
  <2>3. missing[c] \in Nat /\ g[c] \in Nat
    BY <1>9
  <2>4. c \in Range(l) => missing[c] > 0 /\ c \notin gone
    OBVIOUS
  <2> QED
    BY <2>2, <2>3, <2>4, <1>6, <1>7, <1>8, <1>9, <1>11
<1>13. /\ list' # <<>> => permits' = 0
       /\ permits' \in Nat /\ permits' + Sum(g) = permits + r
  <2>1. CASE k < Len(l)
    <3>1. l # <<>>
      BY <2>1, <1>2
    <3> QED
      BY <2>1, <3>1, <1>1, <1>2, <1>10 DEF left
  <2>2. CASE ~(k < Len(l))
    <3>0. k = Len(l)
      BY <2>2, <1>0
    <3>1. k = Len(l) /\ Len(list') = 0
      <4>1. Len(list') = Len(l) - k
        BY <1>11
      <4> QED
        BY <3>0, <4>1, <1>0
    <3>2. list' = <<>>
      BY <3>1, <1>11, EmptySeq
    <3>3. permits + left \in Nat /\ permits + left < B!PermitRange /\ B!PermitRange \in Nat
      BY <1>1, <1>2, <1>7 DEF left, BatchConstants, B!PermitRange
    <3>4. permits' = (permits + left) % B!PermitRange
      BY <3>1, <1>1 DEF left
    <3>5. permits' = permits + left
      <4> DEFINE R == B!PermitRange
                 x == permits + left
      <4>1. R \in Nat /\ x \in Nat /\ x < R /\ permits' = x % R
        BY <3>3, <3>4
      <4> HIDE DEF R, x
      <4>2. permits' = x
        BY <4>1
      <4> QED
        BY <4>2 DEF x
    <3> QED
      BY <2>2, <3>2, <3>3, <3>5, <1>1, <1>2, <1>10 DEF left
  <2> QED
    BY <2>1, <2>2
<1>14. B!WakeAll(Range(l) \ Range(list'), gone)
  <2>1. ASSUME NEW c PROVE c \in Range(l) \ Range(list') <=> c \in {l[i] : i \in 1 .. k}
    <3>1. c \in {l[i] : i \in 1 .. k} <=> front(c)
      OBVIOUS
    <3>2. front(c) => c \in Range(l)
      BY <1>2, RangeOf
    <3> QED
      BY <3>1, <3>2, <1>11
  <2> QED
    BY <2>1, <1>1
<1>15. missing' = [c \in Clients |-> missing'[c]]
  BY <1>1
<1>16. ASSUME r = 0
       PROVE  list' = l /\ permits' = permits /\ \A c \in Clients : g[c] = 0
  <2>1. permits' + Sum(g) = permits /\ NatOn(g, Clients)
    BY <1>9, <1>13, <1>16 DEF NatOn
  <2>2. \A c \in Clients : g[c] <= Sum(g) /\ g[c] \in Nat
    BY <1>0, <1>9, <2>1, SumOfTwo DEF Sum
  <2>3. \A c \in Clients : g[c] = 0
    <3>1. CASE l = <<>>
      <4>1. Range(l) = {}
        BY <3>1 DEF Range
      <4> QED
        BY <4>1, <2>2, <1>12
    <3>2. CASE l # <<>>
      <4>1. Sum(g) = 0
        <5>1. Sum(g) \in Nat
          BY <1>0, <1>9, SumNat
        <5> QED
          BY <5>1, <3>2, <2>1, <1>13
      <4> QED
        BY <4>1, <2>2
    <3> QED
      BY <3>1, <3>2
  <2>4. permits' = permits
    <3>1. \A c \in Clients \ {} : g[c] = 0
      BY <2>3
    <3>2. SumFunctionOnSet(g, {}) = SumFunctionOnSet(g, Clients)
      BY <3>1, <2>1, <1>0, SumOfPart
    <3>3. Sum(g) = 0
      BY <3>2, SumNone DEF Sum
    <3>4. permits' \in Nat /\ permits' + 0 = permits
      BY <3>3, <2>1, <1>13
    <3>5. \A x \in Nat : x + 0 = x
      OBVIOUS
    <3> QED
      BY <3>4, <3>5, Zenon
  <2>5. k = 0
    <3> SUFFICES ASSUME 1 \in 1 .. k PROVE FALSE
      BY <1>2
    <3>1. front(l[1]) /\ l[1] \in Range(l) /\ l[1] \in Clients
      BY <1>2, RangeOf
    <3>2. g[l[1]] = missing[l[1]] /\ missing[l[1]] > 0
      BY <3>1, <1>9
    <3> QED
      BY <3>1, <3>2, <2>3
  <2>6. list' = l
    BY <2>5, <1>0, <1>1
  <2> QED
    BY <2>3, <2>4, <2>6
<1> QED
  BY <1>9, <1>11, <1>12, <1>13, <1>14, <1>15, <1>16 DEF Gives

\* What a dealing of r permits does when the futures in gone are freed: each of
\* the others has what it had and what it is given.
LEMMA BatchDealKeeps ==
    ASSUME BatchConstants, BatchInv, NEW r \in Nat, NEW l \in Seq(Clients), Once(l),
           NEW gone \in SUBSET Clients,
           \A c : c \in Range(l) <=> c \in Range(list) /\ c \notin gone,
           B!AddPermits(r, l, gone),
           UNCHANGED shut,
           stage' = [c \in Clients |-> IF c \in gone THEN "unused" ELSE stage[c]],
           num' = [c \in Clients |-> IF c \in gone THEN 0 ELSE num[c]],
           poller' = [c \in Clients |-> IF c \in gone THEN NoWaker ELSE poller[c]],
           circulating' \in Nat, circulating' <= MaxPermits,
           NEW kept \in [Clients -> Nat],
           \A c \in Clients : kept[c] = IF c \in gone THEN 0 ELSE Assigned[c],
           permits + r + Sum(kept) = circulating'
    PROVE  BatchInv'
<1>0. /\ IsFiniteSet(Clients) /\ permits \in Nat /\ MaxPermits \in Nat
      /\ missing \in [Clients -> Nat] /\ num \in [Clients -> Nat]
      /\ stage \in [Clients -> B!Stages] /\ shut \in BOOLEAN /\ awake \subseteq Clients
      /\ list \in Seq(Clients)
  BY DEF BatchConstants, BatchInv, BatchType
<1>1. Sum(kept) \in Nat
  BY <1>0, SumNat
<1>2. \A c \in Range(l) : c \in Clients /\ c \notin gone /\ missing[c] > 0
  BY RangeOf DEF BatchInv, FutureInv
<1>3. l # <<>> => permits = 0
  <2>1. l # <<>> => 1 \in 1 .. Len(l)
    BY EmptySeq
  <2>2. l # <<>> => Range(list) # {}
    BY <2>1, RangeOf
  <2>3. Range(<<>>) = {}
    BY DEF Range
  <2> QED
    BY <2>2, <2>3 DEF BatchInv
<1>4. permits + r <= MaxPermits
  BY <1>0, <1>1
<1>g. PICK g \in [Clients -> Nat] : Gives(g, r, l, gone)
  BY <1>0, <1>2, <1>3, <1>4, BatchDealt
<1>5. /\ \A c \in Clients :
            /\ missing'[c] = IF c \in gone THEN 0 ELSE missing[c] - g[c]
            /\ g[c] > 0 => c \in Range(l)
            /\ g[c] <= missing[c]
            /\ c \in Range(list') <=> c \in Range(l) /\ g[c] < missing[c]
      /\ missing' = [c \in Clients |-> missing'[c]]
      /\ list' \in Seq(Clients) /\ Once(list')
      /\ list' # <<>> => permits' = 0
      /\ permits' \in Nat /\ permits' + Sum(g) = permits + r
      /\ B!WakeAll(Range(l) \ Range(list'), gone)
  BY <1>g DEF Gives
<1>6. /\ waker' = [c \in Clients |->
             IF c \in (Range(l) \ Range(list')) \cup gone THEN NoWaker ELSE waker[c]]
      /\ awake' = (awake \cup {c \in Range(l) \ Range(list') : waker[c] = poller[c]}) \ gone
  BY <1>5 DEF B!WakeAll
<1>7. ASSUME NEW c \in Clients
      PROVE  /\ missing'[c] \in Nat
             /\ FutureInv(c)'
             /\ num'[c] - missing'[c] = kept[c] + g[c]
  <2>1. CASE c \in gone
    <3>1. stage'[c] = "unused" /\ num'[c] = 0 /\ missing'[c] = 0
      BY <2>1, <1>5
    <3>2. c \notin Range(list') /\ ~(g[c] > 0) /\ kept[c] = 0 /\ g[c] \in Nat
      BY <2>1, <1>2, <1>5
    <3> QED
      BY <3>1, <3>2 DEF FutureInv
  <2>2. CASE c \notin gone
    <3>1. /\ stage'[c] = stage[c] /\ num'[c] = num[c] /\ poller'[c] = poller[c]
          /\ missing'[c] = missing[c] - g[c] /\ g[c] <= missing[c] /\ g[c] \in Nat
          /\ missing[c] \in Nat /\ num[c] \in Nat /\ missing[c] <= num[c]
          /\ kept[c] = num[c] - missing[c] /\ shut' = shut
      BY <2>2, <1>0, <1>5, AssignedType DEF BatchInv, FutureInv
    <3>2. c \in Range(l) <=> c \in Range(list)
      BY <2>2
    <3>3. c \notin Range(l) => g[c] = 0
      BY <1>5, <3>1
    <3>4. c \in Range(list') <=> c \in Range(l) /\ g[c] < missing[c]
      BY <1>5
    <3>5. /\ c \in Range(list') => waker'[c] = waker[c]
          /\ c \in awake => c \in awake'
          /\ c \in Range(l) /\ c \notin Range(list') /\ waker[c] = poller[c] => c \in awake'
      BY <2>2, <1>6, <3>4
    <3>6. FutureInv(c)
      BY DEF BatchInv
    <3>7. /\ missing'[c] \in Nat /\ missing'[c] <= num'[c]
          /\ num'[c] - missing'[c] = kept[c] + g[c]
      BY <3>1
    <3>8. c \in Range(list') <=> stage'[c] = "queued" /\ ~shut' /\ missing'[c] > 0
      <4>1. c \in Range(l) <=> stage[c] = "queued" /\ ~shut /\ missing[c] > 0
        BY <3>2, <3>6 DEF FutureInv
      <4>2. missing'[c] > 0 <=> g[c] < missing[c]
        BY <3>1
      <4>3. c \notin Range(l) => missing'[c] = missing[c]
        BY <3>1, <3>3
      <4> QED
        BY <3>1, <3>4, <4>1, <4>2, <4>3
    <3>9. stage[c] # "queued" => g[c] = 0 /\ missing'[c] = missing[c]
      BY <3>1, <3>2, <3>3, <3>6 DEF FutureInv
    <3> QED
      BY <3>1, <3>2, <3>4, <3>5, <3>6, <3>7, <3>8, <3>9 DEF FutureInv
  <2> QED
    BY <2>1, <2>2
<1>8. /\ stage' \in [Clients -> B!Stages] /\ num' \in [Clients -> Nat]
      /\ missing' \in [Clients -> Nat]
  BY <1>0, <1>5, <1>7 DEF B!Stages
<1>9. BatchType'
  <2>1. awake' \subseteq Clients
    BY <1>0, <1>2, <1>6
  <2> QED
    BY <1>0, <1>5, <1>6, <1>8, <2>1 DEF BatchType
<1>10. permits' + Sum(Assigned') = circulating'
  <2>1. Assigned' = [c \in Clients |-> num'[c] - missing'[c]]
    BY DEF Assigned
  <2>2. \A c \in Clients : Assigned'[c] = kept[c] + g[c]
    BY <2>1, <1>7
  <2>3. NatOn(kept, Clients) /\ NatOn(g, Clients)
    BY DEF NatOn
  <2> DEFINE h == Assigned'
  <2>4. \A c \in Clients : h[c] = kept[c] + g[c]
    BY <2>2
  <2> HIDE DEF h
  <2>5. Sum(h) = Sum(kept) + Sum(g)
    BY <2>3, <2>4, <1>0, SumPlus DEF Sum
  <2>6. Sum(g) \in Nat
    BY <1>0, SumNat
  <2>7. permits' + Sum(h) = circulating'
    BY <2>5, <2>6, <1>0, <1>1, <1>5
  <2>8. Sum(h) = Sum(Assigned)'
    BY DEF h, Sum
  <2> QED
    BY <2>7 DEF h
<1> QED
  BY <1>5, <1>7, <1>9, <1>10 DEF BatchInv

\* Where what one future has changes, the sum changes with it.
LEMMA AssignedChanges ==
    ASSUME IsFiniteSet(Clients), BatchInv, NEW c \in Clients,
           num'[c] \in Nat, missing'[c] \in Nat, missing'[c] <= num'[c],
           \A d \in Clients \ {c} : num'[d] = num[d] /\ missing'[d] = missing[d]
    PROVE  /\ Sum(Assigned)' + Assigned[c] = Sum(Assigned) + (num'[c] - missing'[c])
           /\ Sum(Assigned)' \in Nat /\ Sum(Assigned) \in Nat
           /\ Assigned[c] = num[c] - missing[c] /\ Assigned[c] \in Nat
<1> DEFINE v == num'[c] - missing'[c]
           h == Assigned'
<1>1. /\ Assigned \in [Clients -> Nat] /\ v \in Nat
      /\ \A d \in Clients : Assigned[d] = num[d] - missing[d]
  BY AssignedType
<1>2. h = [d \in Clients |-> num'[d] - missing'[d]]
  BY DEF Assigned
<1>3. h = [Assigned EXCEPT ![c] = v]
  BY <1>1, <1>2
<1>4. Sum(h) = Sum(Assigned)'
  BY DEF Sum
<1> HIDE DEF v, h
<1>5. h \in [Clients -> Nat]
  BY <1>1, <1>3
<1>6. Sum(h) + Assigned[c] = Sum(Assigned) + v
  BY <1>1, <1>3, SumExcept
<1>7. Sum(h) \in Nat /\ Sum(Assigned) \in Nat
  BY <1>1, <1>5, SumNat
<1> QED
  BY <1>1, <1>4, <1>6, <1>7 DEF v

LEMMA BatchCreates ==
    ASSUME BatchConstants, BatchInv, NEW c \in Clients, NEW n \in Sizes,
           B!Create(c, n) \/ B!TryAcquire(c, n)
    PROVE  BatchInv'
<1>1. n \in Nat /\ IsFiniteSet(Clients)
  BY DEF BatchConstants
<1>2. /\ stage[c] = "unused" /\ num' = [num EXCEPT ![c] = n]
      /\ UNCHANGED <<shut, list, waker, poller, awake, circulating>>
      /\ \/ /\ stage' = [stage EXCEPT ![c] = "created"]
            /\ missing' = [missing EXCEPT ![c] = n] /\ permits' = permits
         \/ /\ stage' = [stage EXCEPT ![c] = "granted"] /\ permits >= n
            /\ missing' = missing /\ permits' = permits - n
  BY DEF B!Create, B!TryAcquire
<1>3. /\ permits \in Nat /\ circulating \in Nat
      /\ stage \in [Clients -> B!Stages]
      /\ num \in [Clients -> Nat] /\ missing \in [Clients -> Nat]
      /\ num[c] = 0 /\ missing[c] = 0 /\ c \notin Range(list)
  BY <1>2 DEF BatchInv, BatchType, FutureInv
<1>4. /\ stage' \in [Clients -> B!Stages] /\ num' \in [Clients -> Nat]
      /\ missing' \in [Clients -> Nat] /\ permits' \in Nat
      /\ \A d \in Clients \ {c} : /\ num'[d] = num[d] /\ missing'[d] = missing[d]
                                  /\ stage'[d] = stage[d]
      /\ num'[c] = n
      /\ \/ stage'[c] = "created" /\ missing'[c] = n /\ permits' = permits
         \/ stage'[c] = "granted" /\ missing'[c] = 0 /\ permits' = permits - n
  BY <1>1, <1>2, <1>3 DEF B!Stages
<1>5. BatchType'
  BY <1>2, <1>4 DEF BatchInv, BatchType
<1>6. \A d \in Clients : FutureInv(d)'
  <2> TAKE d \in Clients
  <2>1. FutureInv(d)
    BY DEF BatchInv
  <2>2. CASE d # c
    BY <2>1, <2>2, <1>2, <1>4 DEF FutureInv
  <2>3. CASE d = c
    BY <2>3, <1>1, <1>2, <1>3, <1>4 DEF FutureInv
  <2> QED
    BY <2>2, <2>3
<1>7. permits' + Sum(Assigned)' = circulating'
  <2>1. /\ Sum(Assigned)' + Assigned[c] = Sum(Assigned) + (num'[c] - missing'[c])
        /\ Sum(Assigned)' \in Nat /\ Sum(Assigned) \in Nat
        /\ Assigned[c] = num[c] - missing[c]
    BY <1>1, <1>4, AssignedChanges
  <2>2. permits + Sum(Assigned) = circulating /\ circulating' = circulating
    BY <1>2 DEF BatchInv
  <2> QED
    BY <2>1, <2>2, <1>1, <1>3, <1>4
<1>8. list' # <<>> => permits' = 0
  BY <1>1, <1>2, <1>3 DEF BatchInv
<1> QED
  BY <1>5, <1>6, <1>7, <1>8 DEF BatchInv

LEMMA BatchPolls ==
    ASSUME BatchConstants, BatchInv, NEW c \in Clients, B!PollClosed(c) \/ B!PollGranted(c)
    PROVE  BatchInv'
<1>0. IsFiniteSet(Clients)
  BY DEF BatchConstants
<1>1. /\ stage[c] \in {"created", "queued"}
      /\ poller' = [poller EXCEPT ![c] = NoWaker] /\ awake' = awake \ {c}
      /\ UNCHANGED <<shut, list, num, waker, circulating>>
      /\ \/ /\ stage' = [stage EXCEPT ![c] = "failed"] /\ shut
            /\ missing' = missing /\ permits' = permits
         \/ /\ stage' = [stage EXCEPT ![c] = "granted"] /\ ~shut /\ permits >= missing[c]
            /\ missing' = [missing EXCEPT ![c] = 0] /\ permits' = permits - missing[c]
  BY DEF B!PollClosed, B!PollGranted, B!PolledBy
<1>2. /\ permits \in Nat /\ circulating \in Nat /\ awake \subseteq Clients
      /\ stage \in [Clients -> B!Stages] /\ poller = [d \in Clients |-> poller[d]]
      /\ num \in [Clients -> Nat] /\ missing \in [Clients -> Nat]
      /\ missing[c] <= num[c] /\ list \in Seq(Clients)
  BY DEF BatchInv, BatchType, FutureInv
<1>3. c \in Range(list) => ~shut /\ missing[c] > 0 /\ permits = 0
  <2>1. Range(<<>>) = {}
    BY DEF Range
  <2> QED
    BY <2>1 DEF BatchInv, FutureInv
<1>4. c \notin Range(list)
  BY <1>1, <1>2, <1>3
<1>5. /\ stage' \in [Clients -> B!Stages] /\ num' \in [Clients -> Nat]
      /\ missing' \in [Clients -> Nat] /\ permits' \in Nat
      /\ poller' = [d \in Clients |-> poller'[d]]
      /\ \A d \in Clients \ {c} : /\ num'[d] = num[d] /\ missing'[d] = missing[d]
                                  /\ stage'[d] = stage[d] /\ poller'[d] = poller[d]
      /\ num'[c] = num[c]
      /\ \/ stage'[c] = "failed" /\ missing'[c] = missing[c] /\ permits' = permits
         \/ stage'[c] = "granted" /\ missing'[c] = 0 /\ permits' = permits - missing[c]
  <2>1. stage' \in [Clients -> B!Stages] /\ num' \in [Clients -> Nat]
    BY <1>1, <1>2 DEF B!Stages
  <2>2. poller' = [d \in Clients |-> poller'[d]]
    BY <1>1, <1>2
  <2>3. missing' \in [Clients -> Nat] /\ permits' \in Nat
    <3>1. missing[c] \in Nat /\ missing \in [Clients -> Nat] /\ permits \in Nat
      BY <1>2
    <3>2. CASE missing' = missing /\ permits' = permits
      BY <3>1, <3>2
    <3>3. CASE /\ permits >= missing[c]
               /\ missing' = [missing EXCEPT ![c] = 0] /\ permits' = permits - missing[c]
      BY <3>1, <3>3
    <3> QED
      BY <3>2, <3>3, <1>1
  <2>4. \A d \in Clients \ {c} : /\ num'[d] = num[d] /\ missing'[d] = missing[d]
                                 /\ stage'[d] = stage[d] /\ poller'[d] = poller[d]
    BY <1>1, <1>2
  <2>5. /\ num'[c] = num[c]
        /\ \/ stage'[c] = "failed" /\ missing'[c] = missing[c] /\ permits' = permits
           \/ stage'[c] = "granted" /\ missing'[c] = 0 /\ permits' = permits - missing[c]
    BY <1>1, <1>2
  <2> QED
    BY <2>1, <2>2, <2>3, <2>4, <2>5
<1>6. BatchType'
  BY <1>1, <1>5 DEF BatchInv, BatchType
<1>7. \A d \in Clients : FutureInv(d)'
  <2> TAKE d \in Clients
  <2>1. FutureInv(d)
    BY DEF BatchInv
  <2>2. CASE d # c
    BY <2>1, <2>2, <1>1, <1>5 DEF FutureInv
  <2>3. CASE d = c
    BY <2>3, <1>1, <1>2, <1>4, <1>5 DEF FutureInv
  <2> QED
    BY <2>2, <2>3
<1>8. permits' + Sum(Assigned)' = circulating'
  <2>1. /\ Sum(Assigned)' + Assigned[c] = Sum(Assigned) + (num'[c] - missing'[c])
        /\ Sum(Assigned)' \in Nat /\ Sum(Assigned) \in Nat
        /\ Assigned[c] = num[c] - missing[c]
    <3>1. num'[c] \in Nat /\ missing'[c] \in Nat /\ missing'[c] <= num'[c]
      BY <1>2, <1>5
    <3> QED
      BY <3>1, <1>0, <1>5, AssignedChanges
  <2>2. permits + Sum(Assigned) = circulating /\ circulating' = circulating
    BY <1>1 DEF BatchInv
  <2>3. missing[c] \in Nat /\ num[c] \in Nat /\ permits \in Nat /\ num'[c] = num[c]
    BY <1>2, <1>5
  <2>4. CASE missing'[c] = missing[c] /\ permits' = permits
    BY <2>1, <2>2, <2>3, <2>4
  <2>5. CASE missing'[c] = 0 /\ permits' = permits - missing[c]
    BY <2>1, <2>2, <2>3, <2>5
  <2> QED
    BY <2>4, <2>5, <1>5
<1>9. list' # <<>> => permits' = 0
  <2>1. list # <<>> => ~shut /\ permits = 0
    <3>1. list # <<>> => 1 \in 1 .. Len(list)
      BY <1>2, EmptySeq
    <3>2. list # <<>> => list[1] \in Range(list) /\ list[1] \in Clients
      BY <3>1, <1>2, RangeOf
    <3> QED
      BY <3>2 DEF BatchInv, FutureInv
  <2> QED
    BY <2>1, <1>1, <1>2
<1> QED
  BY <1>6, <1>7, <1>8, <1>9 DEF BatchInv

LEMMA BatchWaits ==
    ASSUME BatchConstants, BatchInv, NEW c \in Clients, NEW w, B!PollPending(c, w)
    PROVE  BatchInv'
<1>0. IsFiniteSet(Clients)
  BY DEF BatchConstants
<1>1. /\ permits \in Nat /\ circulating \in Nat /\ awake \subseteq Clients
      /\ stage \in [Clients -> B!Stages]
      /\ poller = [d \in Clients |-> poller[d]] /\ waker = [d \in Clients |-> waker[d]]
      /\ num \in [Clients -> Nat] /\ missing \in [Clients -> Nat]
      /\ missing[c] <= num[c] /\ list \in Seq(Clients)
  BY DEF BatchInv, BatchType, FutureInv
<1>2. /\ stage[c] \in {"created", "queued"} /\ ~shut /\ permits < missing[c]
      /\ poller' = [poller EXCEPT ![c] = w] /\ awake' = awake \ {c}
      /\ permits' = 0 /\ missing' = [missing EXCEPT ![c] = missing[c] - permits]
      /\ waker' = [waker EXCEPT ![c] = w]
      /\ list' = (IF stage[c] = "created" THEN Append(list, c) ELSE list)
      /\ stage' = [stage EXCEPT ![c] = "queued"]
      /\ UNCHANGED <<shut, num, circulating>>
  <2>1. B!Register(c, w) = w
    BY DEF B!Register
  <2> QED
    BY <2>1 DEF B!PollPending, B!PolledBy
<1>3. c \in Range(list) <=> stage[c] = "queued"
  BY <1>1, <1>2 DEF BatchInv, FutureInv
<1>4. /\ list' \in Seq(Clients) /\ Once(list')
      /\ \A d : d \in Range(list') <=> d \in Range(list) \/ d = c
  <2>1. CASE stage[c] = "queued"
    BY <2>1, <1>1, <1>2, <1>3 DEF BatchInv, BatchType
  <2>2. CASE stage[c] = "created"
    <3>1. /\ list' = Append(list, c) /\ list' \in Seq(Clients) /\ Len(list') = Len(list) + 1
          /\ \A i \in 1 .. Len(list) : list'[i] = list[i]
          /\ list'[Len(list) + 1] = c /\ Len(list) \in Nat
      BY <2>2, <1>1, <1>2, AppendProperties
    <3>2. c \notin Range(list)
      BY <2>2, <1>3
    <3>3. Once(list')
      BY <3>1, <3>2, <1>1, RangeOf DEF Once, BatchInv, BatchType
    <3>4. list' \in Seq(Clients) /\ list \in Seq(Clients)
      BY <3>1, <1>1
    <3>5. /\ Range(list') = {list'[i] : i \in 1 .. Len(list')}
          /\ Range(list) = {list[i] : i \in 1 .. Len(list)}
      BY <3>4, RangeOf
    <3> QED
      BY <3>1, <3>3, <3>5
  <2> QED
    BY <2>1, <2>2, <1>2
<1>5. /\ stage' \in [Clients -> B!Stages] /\ num' \in [Clients -> Nat]
      /\ missing' \in [Clients -> Nat]
      /\ poller' = [d \in Clients |-> poller'[d]] /\ waker' = [d \in Clients |-> waker'[d]]
      /\ \A d \in Clients \ {c} : /\ num'[d] = num[d] /\ missing'[d] = missing[d]
                                  /\ stage'[d] = stage[d] /\ poller'[d] = poller[d]
                                  /\ waker'[d] = waker[d]
      /\ num'[c] = num[c] /\ missing'[c] = missing[c] - permits /\ missing'[c] > 0
      /\ missing'[c] <= num'[c]
      /\ stage'[c] = "queued" /\ poller'[c] = w /\ waker'[c] = w
  <2>1. /\ missing[c] \in Nat /\ num[c] \in Nat /\ missing[c] - permits \in Nat
        /\ missing[c] - permits > 0 /\ missing[c] - permits <= num[c]
    <3>1. missing[c] \in Nat /\ num[c] \in Nat
      BY <1>1
    <3> QED
      BY <3>1, <1>1, <1>2
  <2>2. stage' \in [Clients -> B!Stages] /\ num' \in [Clients -> Nat]
    BY <1>1, <1>2 DEF B!Stages
  <2>3. missing' \in [Clients -> Nat]
    BY <2>1, <1>1, <1>2
  <2>4. poller' = [d \in Clients |-> poller'[d]] /\ waker' = [d \in Clients |-> waker'[d]]
    BY <1>1, <1>2
  <2>5. \A d \in Clients \ {c} : /\ num'[d] = num[d] /\ missing'[d] = missing[d]
                                 /\ stage'[d] = stage[d] /\ poller'[d] = poller[d]
                                 /\ waker'[d] = waker[d]
    BY <1>1, <1>2
  <2>6. stage'[c] = "queued" /\ poller'[c] = w /\ waker'[c] = w
    BY <1>1, <1>2
  <2>7. num'[c] = num[c] /\ missing'[c] = missing[c] - permits
    BY <1>1, <1>2
  <2> QED
    BY <2>1, <2>2, <2>3, <2>4, <2>5, <2>6, <2>7
<1>6. BatchType'
  BY <1>1, <1>2, <1>4, <1>5 DEF BatchInv, BatchType
<1>7. \A d \in Clients : FutureInv(d)'
  <2> TAKE d \in Clients
  <2>1. FutureInv(d)
    BY DEF BatchInv
  <2>2. CASE d # c
    BY <2>1, <2>2, <1>2, <1>4, <1>5 DEF FutureInv
  <2>3. CASE d = c
    BY <2>3, <1>2, <1>4, <1>5 DEF FutureInv
  <2> QED
    BY <2>2, <2>3
<1>8. permits' + Sum(Assigned)' = circulating'
  <2>1. /\ Sum(Assigned)' + Assigned[c] = Sum(Assigned) + (num'[c] - missing'[c])
        /\ Sum(Assigned)' \in Nat /\ Sum(Assigned) \in Nat
        /\ Assigned[c] = num[c] - missing[c]
    <3>1. num'[c] \in Nat /\ missing'[c] \in Nat
      BY <1>5
    <3> QED
      BY <3>1, <1>0, <1>5, AssignedChanges
  <2>2. permits + Sum(Assigned) = circulating /\ circulating' = circulating
    BY <1>2 DEF BatchInv
  <2>3. missing[c] \in Nat /\ num[c] \in Nat
    BY <1>1
  <2> QED
    BY <2>1, <2>2, <2>3, <1>1, <1>2, <1>5
<1> QED
  BY <1>2, <1>6, <1>7, <1>8 DEF BatchInv

\* A future or a guard goes, or permits are added: what comes in is dealt out.
\* Who goes leaves what it has been given to those behind.
LEMMA FutureLeaves ==
    ASSUME BatchConstants, BatchInv, NEW c \in Clients, B!Cancel(c) \/ B!Release(c)
    PROVE  /\ num[c] - missing[c] \in Nat
           /\ permits + (num[c] - missing[c]) + Sum([Assigned EXCEPT ![c] = 0]) = circulating
           /\ permits + (num[c] - missing[c]) <= MaxPermits
           /\ B!AddPermits(num[c] - missing[c], Without(list, c), {c})
           /\ stage' = [d \in Clients |-> IF d \in {c} THEN "unused" ELSE stage[d]]
           /\ num' = [d \in Clients |-> IF d \in {c} THEN 0 ELSE num[d]]
           /\ poller' = [d \in Clients |-> IF d \in {c} THEN NoWaker ELSE poller[d]]
           /\ shut' = shut /\ circulating' = circulating
           /\ stage[c] # "unused"
<1> DEFINE r == num[c] - missing[c]
           l == Without(list, c)
           kept == [Assigned EXCEPT ![c] = 0]
<1>0. /\ IsFiniteSet(Clients) /\ MaxPermits \in Nat
      /\ permits \in Nat /\ circulating \in Nat /\ circulating <= MaxPermits
      /\ num \in [Clients -> Nat] /\ missing \in [Clients -> Nat]
      /\ list \in Seq(Clients) /\ stage \in [Clients -> B!Stages]
      /\ poller = [d \in Clients |-> poller[d]]
      /\ permits + Sum(Assigned) = circulating
  BY DEF BatchConstants, BatchInv, BatchType
<1>2. r \in Nat /\ Assigned \in [Clients -> Nat] /\ Assigned[c] = r
  BY <1>0, AssignedType
<1>3. B!AddPermits(r, l, {c})
  <2>1. CASE B!Cancel(c)
    BY <2>1, BatchOperators DEF B!Cancel
  <2>2. CASE B!Release(c)
    <3>1. missing[c] = 0 /\ c \notin Range(list)
      BY <2>2 DEF B!Release, BatchInv, FutureInv
    <3>2. r = num[c]
      BY <3>1, <1>0
    <3>3. l = list
      <4>1. \A i \in 1 .. Len(list) : list[i] # c
        BY <3>1, <1>0, RangeOf
      <4> QED
        BY <4>1 DEF Without
    <3> QED
      BY <2>2, <3>2, <3>3 DEF B!Release
  <2> QED
    BY <2>1, <2>2
<1>4. /\ stage' = [stage EXCEPT ![c] = "unused"] /\ num' = [num EXCEPT ![c] = 0]
      /\ poller' = [poller EXCEPT ![c] = NoWaker]
      /\ shut' = shut /\ circulating' = circulating
      /\ stage[c] # "unused"
  BY DEF B!Cancel, B!Release, B!Recycle
<1>5. kept \in [Clients -> Nat] /\ Sum(kept) + r = Sum(Assigned) + 0
  <2> DEFINE f == Assigned
  <2>1. f \in [Clients -> Nat] /\ f[c] = r /\ 0 \in Nat
    BY <1>2
  <2> HIDE DEF f
  <2>2. Sum([f EXCEPT ![c] = 0]) + f[c] = Sum(f) + 0
    BY <2>1, <1>0, SumExcept
  <2> QED
    BY <2>1, <2>2 DEF f
<1>6. permits + r + Sum(kept) = circulating /\ permits + r <= MaxPermits
  <2>1. Sum(kept) \in Nat /\ Sum(Assigned) \in Nat
    BY <1>0, <1>2, <1>5, SumNat
  <2> HIDE DEF kept, r
  <2> QED
    BY <2>1, <1>0, <1>2, <1>5
<1>7. /\ stage' = [d \in Clients |-> IF d \in {c} THEN "unused" ELSE stage[d]]
      /\ num' = [d \in Clients |-> IF d \in {c} THEN 0 ELSE num[d]]
      /\ poller' = [d \in Clients |-> IF d \in {c} THEN NoWaker ELSE poller[d]]
  BY <1>0, <1>4
<1> QED
  BY <1>2, <1>3, <1>4, <1>6, <1>7

LEMMA BatchLeaves ==
    ASSUME BatchConstants, BatchInv, NEW c \in Clients, B!Cancel(c) \/ B!Release(c)
    PROVE  BatchInv'
<1> DEFINE r == num[c] - missing[c]
           l == Without(list, c)
           kept == [Assigned EXCEPT ![c] = 0]
           gone == {c}
<1>0. /\ circulating \in Nat /\ circulating <= MaxPermits
      /\ list \in Seq(Clients) /\ Once(list)
  BY DEF BatchConstants, BatchInv, BatchType
<1>1. l \in Seq(Clients) /\ Once(l) /\ \A d : d \in Range(l) <=> d \in Range(list) /\ d \notin gone
  BY <1>0, Unlinked
<1>2. /\ r \in Nat /\ permits + r + Sum(kept) = circulating
      /\ B!AddPermits(r, l, gone)
      /\ stage' = [d \in Clients |-> IF d \in gone THEN "unused" ELSE stage[d]]
      /\ num' = [d \in Clients |-> IF d \in gone THEN 0 ELSE num[d]]
      /\ poller' = [d \in Clients |-> IF d \in gone THEN NoWaker ELSE poller[d]]
      /\ UNCHANGED shut /\ circulating' = circulating
  BY FutureLeaves
<1>3. /\ kept \in [Clients -> Nat] /\ gone \in SUBSET Clients
      /\ \A d \in Clients : kept[d] = IF d \in gone THEN 0 ELSE Assigned[d]
  BY AssignedType
<1>4. permits + r + Sum(kept) = circulating' /\ circulating' \in Nat /\ circulating' <= MaxPermits
  BY <1>0, <1>2
<1> HIDE DEF r, l, kept, gone
<1> QED
  BY <1>1, <1>2, <1>3, <1>4, BatchDealKeeps

LEMMA BatchAdds ==
    ASSUME BatchConstants, BatchInv, NEW n \in Sizes, B!AddNew(n)
    PROVE  BatchInv'
<1>1. /\ n \in Nat /\ IsFiniteSet(Clients)
      /\ permits \in Nat /\ circulating \in Nat
      /\ num \in [Clients -> Nat] /\ stage \in [Clients -> B!Stages]
      /\ list \in Seq(Clients) /\ Once(list) /\ poller = [d \in Clients |-> poller[d]]
      /\ permits + Sum(Assigned) = circulating
  BY DEF BatchConstants, BatchInv, BatchType
<1>2. /\ B!AddPermits(n, list, {}) /\ circulating' = circulating + n
      /\ circulating + n <= MaxPermits
      /\ UNCHANGED <<shut, stage, num, poller>>
  BY DEF B!AddNew
<1>3. /\ Assigned \in [Clients -> Nat]
      /\ \A d \in Clients : Assigned[d] = IF d \in {} THEN 0 ELSE Assigned[d]
  BY AssignedType
<1>4. permits + n + Sum(Assigned) = circulating'
  <2>1. Sum(Assigned) \in Nat
    BY <1>1, <1>3, SumNat
  <2> QED
    BY <2>1, <1>1, <1>2
<1>5. /\ stage' = [d \in Clients |-> IF d \in {} THEN "unused" ELSE stage[d]]
      /\ num' = [d \in Clients |-> IF d \in {} THEN 0 ELSE num[d]]
      /\ poller' = [d \in Clients |-> IF d \in {} THEN NoWaker ELSE poller[d]]
  BY <1>1, <1>2
<1>6. \A d : d \in Range(list) <=> d \in Range(list) /\ d \notin {}
  OBVIOUS
<1>7. {} \in SUBSET Clients /\ circulating' \in Nat /\ circulating' <= MaxPermits
  BY <1>1, <1>2
<1> QED
  BY <1>1, <1>2, <1>3, <1>4, <1>5, <1>6, <1>7, BatchDealKeeps

LEMMA BatchForgets ==
    ASSUME BatchConstants, BatchInv, NEW c \in Clients, B!Forget(c)
    PROVE  BatchInv'
<1>0. IsFiniteSet(Clients) /\ MinTotal \in Nat /\ MaxPermits \in Nat
  BY DEF BatchConstants
<1>1. /\ stage[c] = "granted" /\ circulating - num[c] >= MinTotal
      /\ circulating' = circulating - num[c]
      /\ stage' = [stage EXCEPT ![c] = "unused"] /\ num' = [num EXCEPT ![c] = 0]
      /\ poller' = [poller EXCEPT ![c] = NoWaker]
      /\ UNCHANGED <<shut, permits, list, missing, waker, awake>>
  BY DEF B!Forget, B!Recycle
<1>2. /\ permits \in Nat /\ circulating \in Nat /\ circulating <= MaxPermits
      /\ stage \in [Clients -> B!Stages] /\ poller = [d \in Clients |-> poller[d]]
      /\ num \in [Clients -> Nat] /\ missing \in [Clients -> Nat]
      /\ missing[c] = 0 /\ c \notin Range(list) /\ num[c] \in Nat
  BY <1>1 DEF BatchInv, BatchType, FutureInv
<1>3. /\ stage' \in [Clients -> B!Stages] /\ num' \in [Clients -> Nat]
      /\ poller' = [d \in Clients |-> poller'[d]]
      /\ \A d \in Clients \ {c} : /\ num'[d] = num[d] /\ missing'[d] = missing[d]
                                  /\ stage'[d] = stage[d] /\ poller'[d] = poller[d]
      /\ num'[c] = 0 /\ missing'[c] = 0 /\ stage'[c] = "unused"
  BY <1>1, <1>2 DEF B!Stages
<1>4. circulating' \in Nat /\ circulating' <= MaxPermits
  BY <1>0, <1>1, <1>2
<1>5. BatchType'
  BY <1>1, <1>2, <1>3, <1>4 DEF BatchInv, BatchType
<1>6. \A d \in Clients : FutureInv(d)'
  <2> TAKE d \in Clients
  <2>1. FutureInv(d)
    BY DEF BatchInv
  <2>2. CASE d # c
    BY <2>1, <2>2, <1>1, <1>3 DEF FutureInv
  <2>3. CASE d = c
    BY <2>3, <1>1, <1>2, <1>3 DEF FutureInv
  <2> QED
    BY <2>2, <2>3
<1>7. permits' + Sum(Assigned)' = circulating'
  <2>1. /\ Sum(Assigned)' + Assigned[c] = Sum(Assigned) + (num'[c] - missing'[c])
        /\ Sum(Assigned)' \in Nat /\ Sum(Assigned) \in Nat
        /\ Assigned[c] = num[c] - missing[c]
    BY <1>0, <1>3, AssignedChanges
  <2>2. permits + Sum(Assigned) = circulating
    BY DEF BatchInv
  <2> QED
    BY <2>1, <2>2, <1>1, <1>2, <1>3
<1> QED
  BY <1>1, <1>5, <1>6, <1>7 DEF BatchInv

LEMMA BatchCloses ==
    ASSUME BatchInv, B!Close
    PROVE  BatchInv'
<1>1. /\ shut' = TRUE /\ list' = <<>>
      /\ waker' = [d \in Clients |-> IF d \in Range(list) \cup {} THEN NoWaker ELSE waker[d]]
      /\ awake' = (awake \cup {d \in Range(list) : waker[d] = poller[d]}) \ {}
      /\ UNCHANGED <<permits, stage, num, missing, poller, circulating>>
  BY BatchOperators DEF B!Close, B!WakeAll
<1>2. list' \in Seq(Clients) /\ Once(list') /\ Range(list') = {}
  BY <1>1 DEF Once, Range
<1>3. Range(list) \subseteq Clients
  BY RangeOf DEF BatchInv, BatchType
<1>4. BatchType'
  BY <1>1, <1>2, <1>3 DEF BatchInv, BatchType
<1>5. \A d \in Clients : FutureInv(d)'
  <2> TAKE d \in Clients
  <2>1. FutureInv(d)
    BY DEF BatchInv
  <2>2. d \in awake \/ (d \in Range(list) /\ waker[d] = poller[d]) => d \in awake'
    BY <1>1
  <2> QED
    BY <2>1, <2>2, <1>1, <1>2 DEF FutureInv
<1>6. permits' + Sum(Assigned)' = circulating'
  <2>1. Sum(Assigned)' = Sum(Assigned)
    BY <1>1 DEF Assigned, Sum
  <2> QED
    BY <2>1, <1>1 DEF BatchInv
<1> QED
  BY <1>1, <1>4, <1>5, <1>6 DEF BatchInv

LEMMA BatchInit ==
    ASSUME BatchConstants, B!Init
    PROVE  BatchInv
<1>1. /\ permits = MinTotal /\ circulating = MinTotal /\ shut = FALSE /\ list = <<>>
      /\ stage = [c \in Clients |-> "unused"]
      /\ num = [c \in Clients |-> 0] /\ missing = [c \in Clients |-> 0]
      /\ waker = [c \in Clients |-> NoWaker] /\ poller = [c \in Clients |-> NoWaker]
      /\ awake = {}
  BY DEF B!Init
<1>2. list \in Seq(Clients) /\ Once(list) /\ Range(list) = {}
  BY <1>1 DEF Once, Range
<1>3. BatchType
  BY <1>1, <1>2 DEF BatchType, BatchConstants, B!Stages
<1>4. \A c \in Clients : FutureInv(c)
  BY <1>1, <1>2 DEF FutureInv
<1>5. permits + Sum(Assigned) = circulating
  <2>1. Assigned = [c \in Clients |-> 0]
    BY <1>1 DEF Assigned
  <2>2. NatOn(Assigned, Clients) /\ \A c \in Clients \ {} : Assigned[c] = 0
    BY <2>1 DEF NatOn
  <2>3. SumFunctionOnSet(Assigned, {}) = SumFunctionOnSet(Assigned, Clients)
    BY <2>2, SumOfPart DEF BatchConstants
  <2>4. Sum(Assigned) = 0
    BY <2>3, SumNone DEF Sum
  <2> QED
    BY <2>4, <1>1 DEF BatchConstants
<1> QED
  BY <1>1, <1>3, <1>4, <1>5 DEF BatchInv

LEMMA BatchStep ==
    ASSUME BatchConstants, BatchInv, B!Next \/ UNCHANGED bvars
    PROVE  BatchInv'
<1>1. CASE UNCHANGED bvars
  <2>1. Sum(Assigned)' = Sum(Assigned)
    BY <1>1 DEF bvars, Assigned, Sum
  <2> QED
    BY <1>1, <2>1 DEF bvars, BatchInv, BatchType, FutureInv
<1>2. ASSUME NEW c \in Clients,
             \/ \E n \in Sizes : B!Create(c, n) \/ B!TryAcquire(c, n)
             \/ B!Poll(c) \/ B!Cancel(c) \/ B!Release(c) \/ B!Forget(c)
      PROVE  BatchInv'
  BY <1>2, BatchCreates, BatchPolls, BatchWaits, BatchLeaves, BatchForgets DEF B!Poll
<1>3. CASE \E n \in Sizes : B!AddNew(n)
  BY <1>3, BatchAdds
<1>4. CASE B!Close
  BY <1>4, BatchCloses
<1> QED
  BY <1>1, <1>2, <1>3, <1>4 DEF B!Next

\* PermitsSafe: neither the batch semaphore, whose waiters are given their
\* permits in parts as they come in, nor the guards of what stands on it ever
\* lose a permit or make one up, for any number of futures, readers and permits
\* that fit in the word (batch_semaphore.rs, mutex.rs, rwlock, semaphore.rs).
THEOREM PermitsAreSafe ==
    ASSUME BatchConstants, MaxTotal \in Nat
    PROVE  MCSpec => []PermitsSafe
<1> DEFINE Inv == /\ part = "batch" => BatchInv
                  /\ part = "locks" => LockInv
<1>0. IsFiniteSet(Clients)
  BY DEF BatchConstants
<1>1. Inv => PermitsSafe
  BY <1>0, BatchInvSound, LockInvSound DEF PermitsSafe
<1>2. MCInit => Inv
  BY <1>0, BatchInit, LockInit DEF MCInit
<1>3. Inv /\ [MCNext]_<<part, vars, cvars, mvars, bvars>> => Inv'
  BY <1>0, BatchStep, LockStep DEF MCNext
<1> QED
  BY <1>1, <1>2, <1>3, PTL DEF MCSpec

-----------------------------------------------------------------------------
(* The batch semaphore implements its contract                             *)

\* What the oldest waiter has been given so far.
Part(l) == IF l = <<>> THEN 0 ELSE num[Head(l)] - missing[Head(l)]

\* What the contract sees.
PoolOf == permits + Part(list)
PhaseOf == [a \in Clients |->
               IF stage[a] \in {"unused", "created"} THEN "out"
               ELSE IF stage[a] = "queued" THEN "waiting" ELSE stage[a]]
NeedOf == [a \in Clients |-> IF stage[a] = "created" THEN 0 ELSE num[a]]
HeldOf == [a \in Clients |-> IF a \in B!Range(list) \/ stage[a] = "created" THEN 0
                             ELSE num[a] - missing[a]]
sc == <<PoolOf, shut, list, PhaseOf, NeedOf, HeldOf>>

\* Only the oldest waiter is served in part, and what a call asks for is a size.
OrderInv ==
    /\ \A c \in Clients : stage[c] = "created" => num[c] \in Sizes
    /\ \A i \in 1 .. Len(list) : i > 1 => missing[list[i]] = num[list[i]]

LEMMA HeadOf ==
    ASSUME NEW S, NEW q \in Seq(S), q # <<>>
    PROVE  Head(q) = q[1] /\ 1 \in 1 .. Len(q) /\ q[1] \in S /\ q[1] \in Range(q)
<1>1. 1 \in 1 .. Len(q)
  BY EmptySeq
<1>2. Head(q) = q[1] /\ q[1] \in S
  BY <1>1, HeadTailProperties
<1> QED
  BY <1>1, <1>2, RangeOf

LEMMA ContractVars ==
    /\ UNCHANGED B!SC!semVars <=> sc' = sc
    /\ sc' = sc <=> UNCHANGED <<PoolOf, shut, list, PhaseOf, NeedOf, HeldOf>>
<1>1. UNCHANGED B!SC!semVars <=> sc' = sc
  BY DEF B!SC!semVars, sc, PoolOf, Part, PhaseOf, NeedOf, HeldOf
<1>2. sc' = sc <=> UNCHANGED <<PoolOf, shut, list, PhaseOf, NeedOf, HeldOf>>
  BY DEF sc
<1> QED
  BY <1>1, <1>2

\* A step of one future that is not in the list.
LEMMA Alone ==
    ASSUME BatchInv, NEW c \in Clients, c \notin Range(list), list' = list,
           \A d \in Clients \ {c} : /\ num'[d] = num[d] /\ missing'[d] = missing[d]
                                    /\ stage'[d] = stage[d]
    PROVE  /\ \E p \in Nat : /\ PoolOf = permits + p /\ PoolOf' = permits' + p
                             /\ list = <<>> => p = 0
           /\ \A x : PhaseOf'[c] = x => PhaseOf' = [PhaseOf EXCEPT ![c] = x]
           /\ \A x : NeedOf'[c] = x => NeedOf' = [NeedOf EXCEPT ![c] = x]
           /\ \A x : HeldOf'[c] = x => HeldOf' = [HeldOf EXCEPT ![c] = x]
           /\ PhaseOf'[c] = PhaseOf[c] => PhaseOf' = PhaseOf
           /\ NeedOf'[c] = NeedOf[c] => NeedOf' = NeedOf
           /\ HeldOf'[c] = HeldOf[c] => HeldOf' = HeldOf
           /\ \A n \in Nat : num'[c] = n /\ missing'[c] = n => HeldOf'[c] = 0
<1>0. /\ list \in Seq(Clients) /\ num \in [Clients -> Nat] /\ missing \in [Clients -> Nat]
      /\ \A d \in Clients : missing[d] <= num[d]
  BY DEF BatchInv, BatchType, FutureInv
<1>1. \E p \in Nat : PoolOf = permits + p /\ PoolOf' = permits' + p /\ (list = <<>> => p = 0)
  <2>1. CASE list = <<>>
    BY <2>1 DEF PoolOf, Part
  <2>2. CASE list # <<>>
    <3> DEFINE h == Head(list)
    <3>1. h \in Clients /\ h # c
      BY <2>2, <1>0, HeadOf
    <3>2. num'[h] = num[h] /\ missing'[h] = missing[h] /\ num[h] - missing[h] \in Nat
      <4> HIDE DEF h
      <4> QED
        BY <3>1, <1>0
    <3>3. PoolOf = permits + (num[h] - missing[h]) /\ PoolOf' = permits' + (num'[h] - missing'[h])
      BY <2>2 DEF PoolOf, Part
    <3> HIDE DEF h
    <3> QED
      BY <2>2, <3>2, <3>3
  <2> QED
    BY <2>1, <2>2
<1>2. \A d \in Clients \ {c} :
         PhaseOf'[d] = PhaseOf[d] /\ NeedOf'[d] = NeedOf[d] /\ HeldOf'[d] = HeldOf[d]
  BY DEF PhaseOf, NeedOf, HeldOf
<1>3. /\ PhaseOf = [d \in Clients |-> PhaseOf[d]] /\ PhaseOf' = [d \in Clients |-> PhaseOf'[d]]
      /\ NeedOf = [d \in Clients |-> NeedOf[d]] /\ NeedOf' = [d \in Clients |-> NeedOf'[d]]
      /\ HeldOf = [d \in Clients |-> HeldOf[d]] /\ HeldOf' = [d \in Clients |-> HeldOf'[d]]
  BY DEF PhaseOf, NeedOf, HeldOf
<1>4. ASSUME NEW f, NEW g, f = [d \in Clients |-> f[d]], g = [d \in Clients |-> g[d]],
             \A d \in Clients \ {c} : g[d] = f[d]
      PROVE  /\ \A x : g[c] = x => g = [f EXCEPT ![c] = x]
             /\ g[c] = f[c] => g = f
  BY <1>4
<1>5. \A n \in Nat : num'[c] = n /\ missing'[c] = n => HeldOf'[c] = 0
  BY DEF HeldOf
<1> QED
  BY <1>1, <1>2, <1>3, <1>4, <1>5

LEMMA CreatesMaps ==
    ASSUME BatchConstants, BatchInv, OrderInv, NEW c \in Clients, NEW n \in Sizes,
           B!Create(c, n)
    PROVE  sc' = sc /\ OrderInv'
<1>1. /\ stage[c] = "unused" /\ stage' = [stage EXCEPT ![c] = "created"]
      /\ num' = [num EXCEPT ![c] = n] /\ missing' = [missing EXCEPT ![c] = n]
      /\ UNCHANGED <<permits, shut, list>>
  BY DEF B!Create
<1>2. /\ stage \in [Clients -> B!Stages] /\ num \in [Clients -> Nat]
      /\ missing \in [Clients -> Nat] /\ list \in Seq(Clients)
      /\ num[c] = 0 /\ missing[c] = 0 /\ c \notin Range(list)
  BY <1>1 DEF BatchInv, BatchType, FutureInv
<1>3. /\ \A d \in Clients \ {c} : /\ num'[d] = num[d] /\ missing'[d] = missing[d]
                                  /\ stage'[d] = stage[d]
      /\ num'[c] = n /\ missing'[c] = n /\ stage'[c] = "created"
  BY <1>1, <1>2
<1>4. PhaseOf'[c] = PhaseOf[c] /\ NeedOf'[c] = NeedOf[c] /\ HeldOf'[c] = HeldOf[c]
  BY <1>1, <1>2, <1>3 DEF PhaseOf, NeedOf, HeldOf
<1>5. PoolOf' = PoolOf /\ PhaseOf' = PhaseOf /\ NeedOf' = NeedOf /\ HeldOf' = HeldOf
  BY <1>1, <1>2, <1>3, <1>4, Alone
<1>6. OrderInv'
  <2>1. \A i \in 1 .. Len(list) : list[i] \in Clients \ {c}
    BY <1>2, RangeOf
  <2> QED
    BY <2>1, <1>1, <1>3 DEF OrderInv
<1> QED
  BY <1>1, <1>5, <1>6, ContractVars

LEMMA TakesMaps ==
    ASSUME BatchConstants, BatchInv, OrderInv, NEW c \in Clients, NEW n \in Sizes,
           B!TryAcquire(c, n)
    PROVE  B!SC!Acquire(c, n) /\ OrderInv'
<1>1. /\ stage[c] = "unused" /\ stage' = [stage EXCEPT ![c] = "granted"]
      /\ num' = [num EXCEPT ![c] = n] /\ ~shut /\ permits >= n /\ permits' = permits - n
      /\ UNCHANGED <<shut, list, missing>>
  BY DEF B!TryAcquire
<1>2. /\ stage \in [Clients -> B!Stages] /\ num \in [Clients -> Nat]
      /\ missing \in [Clients -> Nat] /\ list \in Seq(Clients) /\ permits \in Nat /\ n \in Nat
      /\ num[c] = 0 /\ missing[c] = 0 /\ c \notin Range(list)
      /\ list # <<>> => permits = 0
  BY <1>1 DEF BatchConstants, BatchInv, BatchType, FutureInv
<1>3. /\ \A d \in Clients \ {c} : /\ num'[d] = num[d] /\ missing'[d] = missing[d]
                                  /\ stage'[d] = stage[d]
      /\ num'[c] = n /\ missing'[c] = 0 /\ stage'[c] = "granted"
  BY <1>1, <1>2
<1>4. PhaseOf[c] = "out" /\ PhaseOf'[c] = "granted" /\ NeedOf'[c] = n /\ HeldOf'[c] = n
  BY <1>1, <1>2, <1>3, BatchOperators DEF PhaseOf, NeedOf, HeldOf
<1>5. /\ PhaseOf' = [PhaseOf EXCEPT ![c] = "granted"]
      /\ NeedOf' = [NeedOf EXCEPT ![c] = n] /\ HeldOf' = [HeldOf EXCEPT ![c] = n]
      /\ \E p \in Nat : PoolOf = permits + p /\ PoolOf' = permits' + p /\ (list = <<>> => p = 0)
  BY <1>1, <1>2, <1>3, <1>4, Alone
<1>6. PoolOf' = PoolOf - n /\ (n > 0 => list = <<>> /\ n <= PoolOf)
  BY <1>1, <1>2, <1>5
<1>7. B!SC!Acquire(c, n)
  BY <1>1, <1>4, <1>5, <1>6 DEF B!SC!Acquire, PoolOf, Part, PhaseOf, NeedOf, HeldOf
<1>8. OrderInv'
  <2>1. \A i \in 1 .. Len(list) : list[i] \in Clients \ {c}
    BY <1>2, RangeOf
  <2> QED
    BY <2>1, <1>1, <1>3 DEF OrderInv
<1> QED
  BY <1>7, <1>8

LEMMA FailsMaps ==
    ASSUME BatchInv, OrderInv, NEW c \in Clients, B!PollClosed(c)
    PROVE  (B!SC!Fail(c) \/ \E n \in Sizes : B!SC!Refuse(c, n)) /\ OrderInv'
<1>1. /\ stage[c] \in {"created", "queued"} /\ stage' = [stage EXCEPT ![c] = "failed"] /\ shut
      /\ UNCHANGED <<permits, shut, list, num, missing>>
  BY DEF B!PollClosed, B!PolledBy
<1>2. /\ stage \in [Clients -> B!Stages] /\ num \in [Clients -> Nat]
      /\ missing \in [Clients -> Nat] /\ list \in Seq(Clients)
      /\ c \notin Range(list) /\ (stage[c] = "created" => missing[c] = num[c])
  BY <1>1 DEF BatchInv, BatchType, FutureInv
<1>3. /\ \A d \in Clients \ {c} : /\ num'[d] = num[d] /\ missing'[d] = missing[d]
                                  /\ stage'[d] = stage[d]
      /\ num'[c] = num[c] /\ missing'[c] = missing[c] /\ stage'[c] = "failed"
  BY <1>1, <1>2
<1>4. /\ PhaseOf[c] = IF stage[c] = "created" THEN "out" ELSE "waiting"
      /\ PhaseOf'[c] = "failed" /\ NeedOf'[c] = num[c] /\ HeldOf'[c] = HeldOf[c]
      /\ stage[c] = "queued" => NeedOf'[c] = NeedOf[c]
  <2>1. num[c] - num[c] = 0
    BY <1>2
  <2> QED
    BY <2>1, <1>1, <1>2, <1>3, BatchOperators DEF PhaseOf, NeedOf, HeldOf
<1>5. /\ PhaseOf' = [PhaseOf EXCEPT ![c] = "failed"]
      /\ NeedOf' = [NeedOf EXCEPT ![c] = num[c]] /\ HeldOf' = HeldOf
      /\ stage[c] = "queued" => NeedOf' = NeedOf
  BY <1>1, <1>2, <1>3, <1>4, Alone
<1>6. PoolOf' = PoolOf
  BY <1>1 DEF PoolOf, Part
<1>7. stage[c] = "queued" => B!SC!Fail(c)
  BY <1>1, <1>4, <1>5, <1>6 DEF B!SC!Fail, PoolOf, Part, PhaseOf, NeedOf, HeldOf
<1>8. ASSUME NEW n \in Sizes, n = num[c], stage[c] = "created"
      PROVE  B!SC!Refuse(c, n)
  <2>1. /\ PhaseOf[c] = "out" /\ shut /\ PhaseOf' = [PhaseOf EXCEPT ![c] = "failed"]
        /\ NeedOf' = [NeedOf EXCEPT ![c] = n]
        /\ UNCHANGED <<PoolOf, shut, list, HeldOf>>
    BY <1>1, <1>4, <1>5, <1>6, <1>8
  <2> QED
    BY <2>1 DEF B!SC!Refuse, PoolOf, Part, PhaseOf, NeedOf, HeldOf
<1>9. OrderInv'
  <2>1. \A d \in Clients : stage'[d] = "created" => stage[d] = "created"
    BY <1>3
  <2> QED
    BY <2>1, <1>1 DEF OrderInv
<1>10. CASE stage[c] = "created"
  <2>1. num[c] \in Sizes
    BY <1>10 DEF OrderInv
  <2>2. PICK n \in Sizes : n = num[c]
    BY <2>1
  <2>3. B!SC!Refuse(c, n)
    BY <2>2, <1>8, <1>10
  <2> QED
    BY <2>3, <1>9
<1> QED
  BY <1>1, <1>7, <1>9, <1>10

LEMMA GrantsMaps ==
    ASSUME BatchInv, OrderInv, NEW c \in Clients, B!PollGranted(c)
    PROVE  (B!SC!Receive(c) \/ \E n \in Sizes : B!SC!Acquire(c, n)) /\ OrderInv'
<1>1. /\ stage[c] \in {"created", "queued"} /\ stage' = [stage EXCEPT ![c] = "granted"]
      /\ ~shut /\ permits >= missing[c]
      /\ permits' = permits - missing[c] /\ missing' = [missing EXCEPT ![c] = 0]
      /\ UNCHANGED <<shut, list, num>>
  BY DEF B!PollGranted, B!PolledBy
<1>2. /\ stage \in [Clients -> B!Stages] /\ num \in [Clients -> Nat] /\ permits \in Nat
      /\ missing \in [Clients -> Nat] /\ list \in Seq(Clients)
      /\ list # <<>> => permits = 0
      /\ (stage[c] = "created" => missing[c] = num[c])
      /\ c \in Range(list) <=> stage[c] = "queued" /\ missing[c] > 0
  BY <1>1 DEF BatchInv, BatchType, FutureInv
<1>3. c \notin Range(list) /\ (stage[c] = "queued" => missing[c] = 0)
  <2>1. Range(<<>>) = {}
    BY DEF Range
  <2>2. c \in Range(list) => permits = 0 /\ missing[c] > 0
    BY <2>1, <1>2
  <2>3. missing[c] \in Nat
    BY <1>2
  <2> QED
    BY <2>2, <2>3, <1>1, <1>2
<1>4. /\ \A d \in Clients \ {c} : /\ num'[d] = num[d] /\ missing'[d] = missing[d]
                                  /\ stage'[d] = stage[d]
      /\ num'[c] = num[c] /\ missing'[c] = 0 /\ stage'[c] = "granted"
  BY <1>1, <1>2
<1>5. /\ PhaseOf[c] = IF stage[c] = "created" THEN "out" ELSE "waiting"
      /\ PhaseOf'[c] = "granted" /\ NeedOf'[c] = num[c] /\ HeldOf'[c] = num[c]
      /\ stage[c] = "queued" => NeedOf[c] = num[c] /\ HeldOf[c] = num[c]
  <2>1. num[c] - 0 = num[c]
    BY <1>2
  <2> QED
    BY <2>1, <1>1, <1>3, <1>4, BatchOperators DEF PhaseOf, NeedOf, HeldOf
<1>6. /\ PhaseOf' = [PhaseOf EXCEPT ![c] = "granted"]
      /\ NeedOf' = [NeedOf EXCEPT ![c] = num[c]] /\ HeldOf' = [HeldOf EXCEPT ![c] = num[c]]
      /\ stage[c] = "queued" => NeedOf' = NeedOf /\ HeldOf' = HeldOf
      /\ \E p \in Nat : PoolOf = permits + p /\ PoolOf' = permits' + p /\ (list = <<>> => p = 0)
  BY <1>1, <1>3, <1>4, <1>5, Alone
<1>7. stage[c] = "queued" => B!SC!Receive(c)
  <2>1. stage[c] = "queued" => PoolOf' = PoolOf
    BY <1>1, <1>2, <1>3, <1>6
  <2> QED
    BY <2>1, <1>1, <1>5, <1>6 DEF B!SC!Receive, PoolOf, Part, PhaseOf, NeedOf, HeldOf
<1>8. ASSUME NEW n \in Sizes, n = num[c], stage[c] = "created"
      PROVE  B!SC!Acquire(c, n)
  <2>1. n \in Nat
    BY <1>2, <1>8
  <2>2. PoolOf' = PoolOf - n /\ (n > 0 => list = <<>> /\ n <= PoolOf)
    BY <2>1, <1>1, <1>2, <1>6, <1>8
  <2>3. /\ PhaseOf[c] = "out" /\ ~shut /\ PhaseOf' = [PhaseOf EXCEPT ![c] = "granted"]
        /\ NeedOf' = [NeedOf EXCEPT ![c] = n] /\ HeldOf' = [HeldOf EXCEPT ![c] = n]
        /\ UNCHANGED <<shut, list>>
    BY <1>1, <1>5, <1>6, <1>8
  <2> QED
    BY <2>2, <2>3 DEF B!SC!Acquire, PoolOf, Part, PhaseOf, NeedOf, HeldOf
<1>9. OrderInv'
  <2>1. \A i \in 1 .. Len(list) : list[i] \in Clients \ {c}
    BY <1>2, <1>3, RangeOf
  <2>2. \A d \in Clients : stage'[d] = "created" => stage[d] = "created"
    BY <1>4
  <2> QED
    BY <2>1, <2>2, <1>1, <1>4 DEF OrderInv
<1>10. CASE stage[c] = "created"
  <2>1. num[c] \in Sizes
    BY <1>10 DEF OrderInv
  <2>2. PICK n \in Sizes : n = num[c]
    BY <2>1
  <2>3. B!SC!Acquire(c, n)
    BY <2>2, <1>8, <1>10
  <2> QED
    BY <2>3, <1>9
<1> QED
  BY <1>1, <1>7, <1>9, <1>10

LEMMA ForgetsMaps ==
    ASSUME BatchInv, OrderInv, NEW c \in Clients, B!Forget(c)
    PROVE  B!SC!Forget(c) /\ OrderInv'
<1>1. /\ stage[c] = "granted" /\ stage' = [stage EXCEPT ![c] = "unused"]
      /\ num' = [num EXCEPT ![c] = 0]
      /\ UNCHANGED <<permits, shut, list, missing>>
  BY DEF B!Forget, B!Recycle
<1>2. /\ stage \in [Clients -> B!Stages] /\ num \in [Clients -> Nat]
      /\ missing \in [Clients -> Nat] /\ list \in Seq(Clients)
      /\ missing[c] = 0 /\ c \notin Range(list)
  BY <1>1 DEF BatchInv, BatchType, FutureInv
<1>3. /\ \A d \in Clients \ {c} : /\ num'[d] = num[d] /\ missing'[d] = missing[d]
                                  /\ stage'[d] = stage[d]
      /\ num'[c] = 0 /\ missing'[c] = 0 /\ stage'[c] = "unused"
  BY <1>1, <1>2
<1>4. PhaseOf[c] = "granted" /\ PhaseOf'[c] = "out" /\ NeedOf'[c] = 0 /\ HeldOf'[c] = 0
  BY <1>1, <1>2, <1>3, BatchOperators DEF PhaseOf, NeedOf, HeldOf
<1>5. /\ PhaseOf' = [PhaseOf EXCEPT ![c] = "out"]
      /\ NeedOf' = [NeedOf EXCEPT ![c] = 0] /\ HeldOf' = [HeldOf EXCEPT ![c] = 0]
      /\ \E p \in Nat : PoolOf = permits + p /\ PoolOf' = permits' + p /\ (list = <<>> => p = 0)
  BY <1>1, <1>2, <1>3, <1>4, Alone
<1>6. PoolOf' = PoolOf
  BY <1>1, <1>5
<1>7. B!SC!Forget(c)
  BY <1>1, <1>4, <1>5, <1>6 DEF B!SC!Forget, PoolOf, Part, PhaseOf, NeedOf, HeldOf
<1>8. OrderInv'
  <2>1. \A i \in 1 .. Len(list) : list[i] \in Clients \ {c}
    BY <1>2, RangeOf
  <2>2. \A d \in Clients : stage'[d] = "created" => stage[d] = "created" /\ d # c
    BY <1>3
  <2> QED
    BY <2>1, <2>2, <1>1, <1>3 DEF OrderInv
<1> QED
  BY <1>7, <1>8

LEMMA WaitsMaps ==
    ASSUME BatchInv, OrderInv, NEW c \in Clients, NEW w, B!PollPending(c, w)
    PROVE  (sc' = sc \/ \E n \in Sizes : B!SC!Wait(c, n)) /\ OrderInv'
<1>1. /\ stage[c] \in {"created", "queued"} /\ ~shut /\ permits < missing[c]
      /\ permits' = 0 /\ missing' = [missing EXCEPT ![c] = missing[c] - permits]
      /\ list' = (IF stage[c] = "created" THEN Append(list, c) ELSE list)
      /\ stage' = [stage EXCEPT ![c] = "queued"]
      /\ UNCHANGED <<shut, num>>
  BY DEF B!PollPending, B!PolledBy
<1>2. /\ stage \in [Clients -> B!Stages] /\ num \in [Clients -> Nat] /\ permits \in Nat
      /\ missing \in [Clients -> Nat] /\ list \in Seq(Clients)
      /\ list # <<>> => permits = 0
      /\ (stage[c] = "created" => missing[c] = num[c])
      /\ missing[c] \in Nat
  BY <1>1 DEF BatchInv, BatchType, FutureInv
<1>3. c \in Range(list) <=> stage[c] = "queued"
  BY <1>1, <1>2 DEF BatchInv, FutureInv
<1>4. CASE stage[c] = "queued"
  <2>1. Range(<<>>) = {}
    BY DEF Range
  <2>2. permits = 0
    BY <2>1, <1>2, <1>3, <1>4
  <2>3. UNCHANGED <<permits, shut, list, num, missing, stage>>
    BY <2>2, <1>1, <1>2, <1>4
  <2>4. UNCHANGED <<PoolOf, PhaseOf, NeedOf, HeldOf>>
    BY <2>3 DEF PoolOf, Part, PhaseOf, NeedOf, HeldOf
  <2> QED
    BY <2>3, <2>4, ContractVars DEF OrderInv
<1>5. CASE stage[c] = "created"
  <2>1. /\ list' = Append(list, c) /\ list' \in Seq(Clients) /\ Len(list') = Len(list) + 1
        /\ \A i \in 1 .. Len(list) : list'[i] = list[i]
        /\ list'[Len(list) + 1] = c /\ Len(list) \in Nat
    BY <1>1, <1>2, <1>5, AppendProperties
  <2>2. /\ \A d \in Clients \ {c} : /\ num'[d] = num[d] /\ missing'[d] = missing[d]
                                    /\ stage'[d] = stage[d]
        /\ num'[c] = num[c] /\ missing'[c] = num[c] - permits /\ stage'[c] = "queued"
    BY <1>1, <1>2, <1>5
  <2>3. num[c] \in Nat /\ num[c] > permits
    BY <1>1, <1>2, <1>5
  <2>4. list # <<>> => Head(list') = Head(list) /\ Head(list) \in Clients \ {c}
    <3> SUFFICES ASSUME list # <<>>
                 PROVE  Head(list') = Head(list) /\ Head(list) \in Clients \ {c}
      OBVIOUS
    <3>1. Head(list) = list[1] /\ 1 \in 1 .. Len(list) /\ list[1] \in Clients \ {c}
      BY <1>2, <1>3, <1>5, HeadOf
    <3>2. list' # <<>>
      BY <2>1
    <3>3. Head(list') = list'[1]
      BY <3>2, <2>1, HeadOf
    <3> QED
      BY <3>1, <3>3, <2>1
  <2>5. list' # <<>> /\ (list = <<>> => Head(list') = c)
    <3>1. list' # <<>>
      BY <2>1
    <3>2. Head(list') = list'[1]
      BY <3>1, <2>1, HeadOf
    <3> QED
      BY <3>1, <3>2, <2>1
  <2>6. PoolOf' = PoolOf /\ (list = <<>> => num[c] > PoolOf)
    <3>1. CASE list = <<>>
      <4>1. PoolOf = permits + 0 /\ PoolOf' = 0 + (num'[c] - missing'[c])
        BY <3>1, <1>1, <2>5 DEF PoolOf, Part
      <4> QED
        BY <4>1, <2>2, <2>3, <1>2
    <3>2. CASE list # <<>>
      <4> DEFINE h == Head(list)
      <4>1. h \in Clients \ {c} /\ permits = 0
        BY <3>2, <2>4, <1>2
      <4>2. /\ PoolOf = 0 + (num[h] - missing[h])
            /\ PoolOf' = 0 + (num'[h] - missing'[h])
        BY <4>1, <3>2, <2>4, <2>5, <1>1 DEF PoolOf, Part
      <4>3. num'[h] = num[h] /\ missing'[h] = missing[h]
        <5> HIDE DEF h
        <5> QED
          BY <4>1, <2>2
      <4> QED
        BY <3>2, <4>2, <4>3
    <3> QED
      BY <3>1, <3>2
  <2>7. \A d : d \in Range(list') <=> d \in Range(list) \/ d = c
    <3>1. list' \in Seq(Clients) /\ list \in Seq(Clients)
      BY <2>1, <1>2
    <3>2. /\ Range(list') = {list'[i] : i \in 1 .. Len(list')}
          /\ Range(list) = {list[i] : i \in 1 .. Len(list)}
      BY <3>1, RangeOf
    <3> QED
      BY <2>1, <3>2
  <2>8. HeldOf' = HeldOf
    <3>1. \A d \in Clients : d \in B!Range(list)' <=> d \in B!Range(list) \/ d = c
      BY <2>7, BatchOperators
    <3>2. \A d \in Clients : HeldOf'[d] = HeldOf[d]
      <4> TAKE d \in Clients
      <4>1. CASE d = c
        BY <4>1, <3>1, <1>5 DEF HeldOf
      <4>2. CASE d # c
        BY <4>2, <3>1, <2>2 DEF HeldOf
      <4> QED
        BY <4>1, <4>2
    <3>3. HeldOf = [d \in Clients |-> HeldOf[d]] /\ HeldOf' = [d \in Clients |-> HeldOf'[d]]
      BY DEF HeldOf
    <3> QED
      BY <3>2, <3>3
  <2>9. /\ PhaseOf[c] = "out" /\ PhaseOf' = [PhaseOf EXCEPT ![c] = "waiting"]
        /\ NeedOf' = [NeedOf EXCEPT ![c] = num[c]]
    BY <1>5, <2>2 DEF PhaseOf, NeedOf
  <2>12. num[c] \in Sizes
    BY <1>5 DEF OrderInv
  <2>13. PICK n \in Sizes : n = num[c]
    BY <2>12
  <2>10. B!SC!Wait(c, n)
    <3>1. /\ PhaseOf[c] = "out" /\ ~shut
          /\ n > 0 /\ (list = <<>> => n > PoolOf)
          /\ list' = Append(list, c)
          /\ PhaseOf' = [PhaseOf EXCEPT ![c] = "waiting"]
          /\ NeedOf' = [NeedOf EXCEPT ![c] = n]
          /\ PoolOf' = PoolOf /\ shut' = shut /\ HeldOf' = HeldOf
      BY <1>1, <1>2, <2>1, <2>3, <2>6, <2>8, <2>9, <2>13
    <3> QED
      BY <3>1 DEF B!SC!Wait, PoolOf, Part, PhaseOf, NeedOf, HeldOf
  <2>11. OrderInv'
    <3>1. \A d \in Clients : stage'[d] = "created" => stage[d] = "created"
      BY <2>2
    <3>2. ASSUME NEW i \in 1 .. Len(list'), i > 1
          PROVE  missing'[list'[i]] = num'[list'[i]]
      <4>1. CASE i \in 1 .. Len(list)
        <5>1. list'[i] = list[i] /\ list[i] \in Clients \ {c}
          BY <4>1, <2>1, <1>2, <1>3, <1>5, RangeOf
        <5>2. missing[list[i]] = num[list[i]]
          BY <4>1, <3>2 DEF OrderInv
        <5> QED
          BY <5>1, <5>2, <2>2
      <4>2. CASE i \notin 1 .. Len(list)
        <5>1. i = Len(list) + 1 /\ Len(list) > 0
          BY <4>2, <3>2, <2>1
        <5>2. list # <<>>
          BY <5>1
        <5> QED
          BY <5>1, <5>2, <2>1, <2>2, <2>3, <1>2
      <4> QED
        BY <4>1, <4>2
    <3> QED
      BY <3>1, <3>2, <1>1 DEF OrderInv
  <2> QED
    BY <2>10, <2>11
<1> QED
  BY <1>1, <1>4, <1>5

\* A deal of the contract, of p permits to the queue q, that serves k clients.
DealsTo(k, p, q, kept) ==
    /\ Asked(NeedOf, q, k) <= p
    /\ k < Len(q) => Asked(NeedOf, q, k + 1) > p
    /\ PoolOf' = p - Asked(NeedOf, q, k)
    /\ list' = SubSeq(q, k + 1, Len(q))
    /\ HeldOf' = [d \in Clients |-> IF \E i \in 1 .. k : q[i] = d THEN NeedOf[d] ELSE kept[d]]

LEMMA ContractOperators ==
    /\ \A s, e : B!SC!Without(s, e) = Without(s, e)
    /\ \A q, k : B!SC!Demand(q, k) = Asked(NeedOf, q, k)
<1>1. \A f, S : B!SC!SumFunctionOnSet(f, S) = SumFunctionOnSet(f, S)
  BY DEF SumFunctionOnSet, FoldFunctionOnSet, MapThenFoldSet,
         B!SC!SumFunctionOnSet, B!SC!FoldFunctionOnSet, B!SC!MapThenFoldSet
<1>2. \A s, e : B!SC!Without(s, e) = Without(s, e)
  BY DEF Without, B!SC!Without
<1>3. \A q, k : B!SC!Demand(q, k) = Asked(NeedOf, q, k)
  BY <1>1 DEF B!SC!Demand, Asked, NeedOf
<1> QED
  BY <1>2, <1>3

LEMMA SmallMod ==
    ASSUME NEW R \in Nat, NEW x \in Nat, x < R
    PROVE  x % R = x
  OBVIOUS

LEMMA DropIs ==
    ASSUME NEW c \in Clients, NEW p, NEW q, NEW kept, NEW k \in 0 .. Len(q),
           p = PoolOf + HeldOf[c], q = Without(list, c), kept = [HeldOf EXCEPT ![c] = 0],
           DealsTo(k, p, q, kept),
           PhaseOf[c] # "out", PhaseOf' = [PhaseOf EXCEPT ![c] = "out"],
           NeedOf' = [NeedOf EXCEPT ![c] = 0], UNCHANGED shut
    PROVE  B!SC!Drop(c)
<1>1. q = B!SC!Without(list, c)
  BY ContractOperators
<1>2. /\ B!SC!Demand(q, k) <= p /\ (k < Len(q) => B!SC!Demand(q, k + 1) > p)
      /\ PoolOf' = p - B!SC!Demand(q, k)
      /\ list' = SubSeq(q, k + 1, Len(q))
      /\ HeldOf' = [d \in Clients |-> IF \E i \in 1 .. k : q[i] = d THEN NeedOf[d] ELSE kept[d]]
  BY ContractOperators DEF DealsTo
<1> QED
  BY <1>1, <1>2 DEF B!SC!Drop, B!SC!Deal, PoolOf, Part, PhaseOf, NeedOf, HeldOf

LEMMA AddIs ==
    ASSUME NEW n, NEW p, NEW q, NEW kept, NEW k \in 0 .. Len(q),
           p = PoolOf + n, q = list, kept = HeldOf,
           DealsTo(k, p, q, kept), UNCHANGED <<shut, PhaseOf, NeedOf>>
    PROVE  B!SC!Add(n)
<1>2. /\ B!SC!Demand(q, k) <= p /\ (k < Len(q) => B!SC!Demand(q, k + 1) > p)
      /\ PoolOf' = p - B!SC!Demand(q, k)
      /\ list' = SubSeq(q, k + 1, Len(q))
      /\ HeldOf' = [d \in Clients |-> IF \E i \in 1 .. k : q[i] = d THEN NeedOf[d] ELSE kept[d]]
  BY ContractOperators DEF DealsTo
<1>3. /\ k \in 0 .. Len(list)
      /\ B!SC!Demand(list, k) <= PoolOf + n
      /\ k < Len(list) => B!SC!Demand(list, k + 1) > PoolOf + n
      /\ PoolOf' = (PoolOf + n) - B!SC!Demand(list, k)
      /\ list' = SubSeq(list, k + 1, Len(list))
      /\ HeldOf' = [d \in Clients |->
                       IF \E i \in 1 .. k : list[i] = d THEN NeedOf[d] ELSE HeldOf[d]]
  BY <1>2
<1> QED
  BY <1>3 DEF B!SC!Add, B!SC!Deal, PoolOf, Part, PhaseOf, NeedOf, HeldOf

\* The permits that come in are dealt out as the contract says: what the oldest
\* waiter had before counts for the pool.
LEMMA DealMaps ==
    ASSUME BatchConstants, BatchInv, NEW r \in Nat, permits + r <= MaxPermits,
           NEW l \in Seq(Clients), Once(l), NEW gone \in SUBSET Clients,
           \A d : d \in Range(l) <=> d \in Range(list) /\ d \notin gone,
           \A i \in 1 .. Len(l) : i > 1 => missing[l[i]] = num[l[i]],
           B!AddPermits(r, l, gone),
           stage' = [d \in Clients |-> IF d \in gone THEN "unused" ELSE stage[d]],
           num' = [d \in Clients |-> IF d \in gone THEN 0 ELSE num[d]],
           NEW kept \in [Clients -> Nat],
           \A d \in Clients : kept[d] = IF d \in gone THEN 0 ELSE HeldOf[d]
    PROVE  /\ \E k \in 0 .. Len(l) : DealsTo(k, permits + r + Part(l), l, kept)
           /\ \A i \in 1 .. Len(list') : i > 1 => missing'[list'[i]] = num'[list'[i]]
<1>0. /\ IsFiniteSet(Clients) /\ permits \in Nat /\ MaxPermits \in Nat
      /\ missing \in [Clients -> Nat] /\ num \in [Clients -> Nat]
      /\ stage \in [Clients -> B!Stages] /\ list \in Seq(Clients)
      /\ Len(l) \in Nat /\ MaxPermits < B!PermitRange /\ B!PermitRange \in Nat
  BY DEF BatchConstants, BatchInv, BatchType, B!PermitRange
<1>1. ASSUME NEW d \in Range(l)
      PROVE  /\ d \in Clients /\ d \notin gone /\ stage[d] = "queued" /\ stage'[d] = "queued"
             /\ num'[d] = num[d] /\ 0 < missing[d] /\ missing[d] <= num[d]
             /\ NeedOf[d] = num[d] /\ kept[d] = 0
             /\ num[d] \in Nat /\ missing[d] \in Nat
  <2>1. d \in Clients /\ d \notin gone /\ d \in Range(list)
    BY RangeOf
  <2>2. stage[d] = "queued" /\ missing[d] > 0 /\ missing[d] <= num[d]
    BY <2>1 DEF BatchInv, FutureInv
  <2>3. NeedOf[d] = num[d] /\ kept[d] = 0
    BY <2>1, <2>2, BatchOperators DEF NeedOf, HeldOf
  <2> QED
    BY <2>1, <2>2, <2>3, <1>0
<1>2. \A i \in 1 .. Len(l) : l[i] \in Range(l)
  BY RangeOf
<1>3. l # <<>> => permits = 0 /\ Head(l) = l[1] /\ 1 \in 1 .. Len(l)
  <2>1. l # <<>> => l[1] \in Range(list) /\ Head(l) = l[1] /\ 1 \in 1 .. Len(l)
    BY HeadOf
  <2>2. Range(<<>>) = {}
    BY DEF Range
  <2> QED
    BY <2>1, <2>2 DEF BatchInv
<1> DEFINE a == Part(l)
           p == permits + r + Part(l)
           D(j) == Asked(missing, l, j)
           N(j) == Asked(NeedOf, l, j)
<1>4. a \in Nat /\ (l = <<>> => a = 0) /\ (l # <<>> => a = num[l[1]] - missing[l[1]])
  <2>1. l = <<>> => a = 0
    BY DEF Part
  <2>2. ASSUME l # <<>>
        PROVE  a = num[l[1]] - missing[l[1]] /\ num[l[1]] - missing[l[1]] \in Nat
    <3>1. Head(l) = l[1] /\ l[1] \in Range(l)
      BY <2>2, <1>2, <1>3
    <3>2. num[l[1]] \in Nat /\ missing[l[1]] \in Nat /\ missing[l[1]] <= num[l[1]]
      BY <3>1, <1>1
    <3>3. a = num[l[1]] - missing[l[1]]
      BY <2>2, <3>1 DEF Part
    <3> HIDE DEF a
    <3> QED
      BY <3>2, <3>3
  <2> HIDE DEF a
  <2>3. 0 \in Nat
    OBVIOUS
  <2> QED
    BY <2>1, <2>2, <2>3
<1>5. NeedOf \in [Clients -> Nat]
  BY <1>0 DEF NeedOf
<1>6. /\ \A j \in 0 .. Len(l) : D(j) \in Nat /\ N(j) \in Nat
      /\ D(0) = 0 /\ N(0) = 0
      /\ \A j \in 0 .. Len(l) : j < Len(l) => /\ D(j + 1) = D(j) + missing[l[j + 1]]
                                              /\ N(j + 1) = N(j) + num[l[j + 1]]
  <2>1. /\ \A j \in 0 .. Len(l) : D(j) \in Nat /\ D(0) = 0
        /\ \A j \in 0 .. Len(l) : j < Len(l) => D(j + 1) = D(j) + missing[l[j + 1]]
    BY <1>0, AskedGrows
  <2>2. /\ \A j \in 0 .. Len(l) : N(j) \in Nat /\ N(0) = 0
        /\ \A j \in 0 .. Len(l) : j < Len(l) => N(j + 1) = N(j) + NeedOf[l[j + 1]]
    BY <1>5, AskedGrows
  <2>3. \A j \in 0 .. Len(l) : j < Len(l) => NeedOf[l[j + 1]] = num[l[j + 1]]
    <3> TAKE j \in 0 .. Len(l)
    <3>1. j < Len(l) => j + 1 \in 1 .. Len(l)
      BY <1>0
    <3> QED
      BY <3>1, <1>1, <1>2
  <2>4. 0 \in 0 .. Len(l)
    BY <1>0
  <2> HIDE DEF D, N
  <2> QED
    BY <2>1, <2>2, <2>3, <2>4
<1>p. PICK k \in 0 .. Len(l) : Serves(k, r, l, gone)
  BY ServesSome
<1>7. /\ D(k) <= r
      /\ k < Len(l) => D(k + 1) > r
      /\ list' = SubSeq(l, k + 1, Len(l))
      /\ missing' = [c \in Clients |->
           IF c \in {l[i] : i \in 1 .. k} \cup gone THEN 0
           ELSE IF k < Len(l) /\ c = l[k + 1] THEN missing[c] - (r - D(k))
           ELSE missing[c]]
      /\ permits' = IF k = Len(l) THEN (permits + (r - D(k))) % B!PermitRange ELSE permits
  BY <1>p DEF Serves
<1>8. IsRest(list', l, k, Clients)
  BY <1>7, Rest
<1> HIDE DEF a, p, D, N
<1>9. \A j \in 0 .. Len(l) : N(j) = D(j) + (IF j = 0 THEN 0 ELSE a)
  <2> DEFINE S == {j \in Nat : j <= Len(l) => N(j) = D(j) + (IF j = 0 THEN 0 ELSE a)}
  <2>1. 0 \in S
    BY <1>6
  <2>2. ASSUME NEW j \in S PROVE j + 1 \in S
    <3> SUFFICES ASSUME j + 1 <= Len(l) PROVE N(j + 1) = D(j + 1) + a
      OBVIOUS
    <3>1. j \in 0 .. Len(l) /\ j < Len(l) /\ j + 1 \in 1 .. Len(l)
      BY <1>0
    <3>2. D(j + 1) = D(j) + missing[l[j + 1]] /\ N(j + 1) = N(j) + num[l[j + 1]]
      BY <3>1, <1>6
    <3>3. D(j) \in Nat /\ N(j) \in Nat /\ missing[l[j + 1]] \in Nat /\ num[l[j + 1]] \in Nat
      BY <3>1, <1>1, <1>2, <1>6
    <3>4. N(j) = D(j) + (IF j = 0 THEN 0 ELSE a)
      BY <3>1
    <3>5. CASE j = 0
      <4>1. a = num[l[1]] - missing[l[1]]
        BY <3>1, <3>5, <1>4
      <4> QED
        BY <3>2, <3>3, <3>4, <3>5, <4>1
    <3>6. CASE j # 0
      <4>1. missing[l[j + 1]] = num[l[j + 1]]
        BY <3>1, <3>6
      <4>2. N(j) = D(j) + a
        BY <3>4, <3>6
      <4>3. \A x, y, z, m \in Nat : x = y + z => x + m = (y + m) + z
        OBVIOUS
      <4>4. N(j) + num[l[j + 1]] = (D(j) + num[l[j + 1]]) + a
        BY <3>3, <4>2, <4>3, <1>4
      <4> QED
        BY <3>2, <4>1, <4>4
    <3> QED
      BY <3>5, <3>6
  <2> HIDE DEF S
  <2>3. S \in SUBSET Nat
    BY DEF S
  <2>4. S = Nat
    BY <2>1, <2>2, <2>3, Induction
  <2> SUFFICES ASSUME NEW j \in 0 .. Len(l)
               PROVE  N(j) = D(j) + (IF j = 0 THEN 0 ELSE a)
    OBVIOUS
  <2>5. j \in S /\ j <= Len(l)
    BY <2>4, <1>0
  <2> QED
    BY <2>5 DEF S
<1>10. p = permits + r + a
  BY DEF a, p
<1>11. /\ D(k) \in Nat /\ N(k) \in Nat /\ k \in Nat /\ r \in Nat
       /\ N(k) = D(k) + (IF k = 0 THEN 0 ELSE a)
       /\ l # <<>> => permits = 0
       /\ k # 0 => l # <<>>
  <2>1. k # 0 => l # <<>>
    OBVIOUS
  <2> QED
    BY <2>1, <1>3, <1>6, <1>9
<1>12. N(k) <= p
  BY <1>0, <1>4, <1>7, <1>10, <1>11
<1>13. k < Len(l) => N(k + 1) > p
  <2> SUFFICES ASSUME k < Len(l) PROVE N(k + 1) > p
    OBVIOUS
  <2>1. k + 1 \in 0 .. Len(l) /\ l # <<>>
    BY <1>0
  <2>2. N(k + 1) = D(k + 1) + a /\ D(k + 1) \in Nat
    BY <2>1, <1>6, <1>9, <1>11
  <2>3. p = r + a
    BY <2>1, <1>10, <1>11
  <2> QED
    BY <2>2, <2>3, <1>4, <1>7, <1>11
<1> DEFINE front(c) == \E i \in 1 .. k : l[i] = c
<1>14. /\ list' \in Seq(Clients) /\ Len(list') = Len(l) - k
       /\ \A i \in 1 .. Len(list') : list'[i] = l[k + i]
       /\ \A c : c \in Range(list') <=> c \in Range(l) /\ ~front(c)
  BY <1>8 DEF IsRest
<1>15. \A c \in Clients :
          missing'[c] = IF front(c) \/ c \in gone THEN 0
                        ELSE IF k < Len(l) /\ c = l[k + 1] THEN missing[c] - (r - D(k))
                        ELSE missing[c]
  <2> TAKE c \in Clients
  <2>1. c \in {l[i] : i \in 1 .. k} <=> front(c)
    OBVIOUS
  <2> HIDE DEF front
  <2> QED
    BY <2>1, <1>7
<1>16. \A i \in k + 1 .. Len(l) : l[i] \in Range(l) /\ ~front(l[i])
  <2> TAKE i \in k + 1 .. Len(l)
  <2>1. i \in 1 .. Len(l) /\ \A j \in 1 .. k : j \in 1 .. Len(l) /\ j # i
    BY <1>0, <1>11
  <2> QED
    BY <2>1, <1>2 DEF Once
<1>17. PoolOf' = p - N(k)
  <2>1. CASE k < Len(l)
    <3> DEFINE h == l[k + 1]
    <3>1. h \in Range(l) /\ ~front(h) /\ k + 1 \in 1 .. Len(l)
      BY <2>1, <1>0, <1>11, <1>16
    <3>2. list' # <<>> /\ Head(list') = h
      <4>0. Len(list') = Len(l) - k /\ k \in Nat
        BY <1>11, <1>14
      <4>1. Len(list') # 0 /\ 1 \in 1 .. Len(list')
        BY <4>0, <2>1, <1>0
      <4>2. list' # <<>>
        BY <4>1
      <4>3. Head(list') = list'[1] /\ list'[1] = l[k + 1]
        <5>1. list' \in Seq(Clients)
          BY <1>14
        <5>2. Head(list') = list'[1]
          BY <5>1, <4>2, HeadOf
        <5> QED
          BY <5>2, <4>1, <1>14
      <4> QED
        BY <4>2, <4>3
    <3>3. missing'[h] = missing[h] - (r - D(k)) /\ num'[h] = num[h]
      BY <2>1, <3>1, <1>1, <1>15
    <3>4. num[h] \in Nat /\ missing[h] \in Nat
      BY <3>1, <1>1
    <3>5. permits' = 0 /\ p = r + a
      <4>1. l # <<>> /\ k # Len(l)
        BY <2>1, <1>0, <1>11
      <4>2. permits = 0 /\ permits' = permits
        BY <4>1, <1>7, <1>11
      <4>3. r + a = 0 + r + a
        BY <1>4
      <4> QED
        BY <4>2, <4>3, <1>10
    <3>6. PoolOf' = permits' + (num'[h] - missing'[h])
      BY <3>2 DEF PoolOf, Part
    <3>7. k = 0 => a = num[h] - missing[h]
      BY <2>1, <1>4
    <3>8. k # 0 => num[h] = missing[h]
      BY <3>1, <1>11
    <3> HIDE DEF h
    <3>9. CASE k = 0
      BY <3>9, <3>3, <3>4, <3>5, <3>6, <3>7, <1>11
    <3>10. CASE k # 0
      <4>1. num[h] = missing[h] /\ N(k) = D(k) + a
        BY <3>10, <3>8, <1>11
      <4>2. \A x, y, z, m \in Nat : 0 + (x - (x - (y - z))) = (y + m) - (z + m)
        OBVIOUS
      <4>3. 0 + (num[h] - (num[h] - (r - D(k)))) = (r + a) - (D(k) + a)
        BY <4>2, <3>4, <1>4, <1>11
      <4> QED
        BY <4>1, <4>3, <3>3, <3>5, <3>6
    <3> QED
      BY <3>9, <3>10
  <2>2. CASE ~(k < Len(l))
    <3>1. k = Len(l)
      BY <2>2, <1>0
    <3>2. list' = <<>>
      <4>1. Len(list') = Len(l) - k
        BY <1>14
      <4>2. Len(list') = 0
        BY <4>1, <3>1, <1>0
      <4> QED
        BY <4>2, <1>14, EmptySeq
    <3>3. permits' = permits + (r - D(k))
      <4> DEFINE R == B!PermitRange
                 x == permits + (r - D(k))
      <4>0. \A y \in Nat : y <= r /\ permits + r < R =>
               permits + (r - y) \in Nat /\ permits + (r - y) < R
        BY <1>0
      <4>1. R \in Nat /\ x \in Nat /\ x < R /\ permits' = x % R
        <5>1. permits + r < R /\ D(k) \in Nat /\ D(k) <= r
          BY <1>0, <1>7, <1>11
        <5> QED
          BY <5>1, <4>0, <3>1, <1>0, <1>7
      <4> HIDE DEF R, x
      <4>3. permits' = x
        BY <4>1, SmallMod
      <4> QED
        BY <4>3 DEF x
    <3>4. PoolOf' = permits' + 0
      BY <3>2 DEF PoolOf, Part
    <3>5. CASE k = 0
      <4>1. a = 0
        BY <3>1, <3>5, <1>4, EmptySeq
      <4>2. N(k) = D(k) + 0 /\ D(k) \in Nat
        BY <3>5, <1>11
      <4>3. \A x, y, z \in Nat : (x + (y - z)) + 0 = (x + y + 0) - (z + 0)
        OBVIOUS
      <4>4. (permits + (r - D(k))) + 0 = (permits + r + 0) - (D(k) + 0)
        BY <4>2, <4>3, <1>0
      <4> QED
        BY <4>1, <4>2, <4>4, <3>3, <3>4, <1>10
    <3>6. CASE k # 0
      <4>1. N(k) = D(k) + a /\ D(k) \in Nat
        BY <3>6, <1>11
      <4>2. \A x, y, z, m \in Nat : (x + (y - z)) + 0 = (x + y + m) - (z + m)
        OBVIOUS
      <4>3. (permits + (r - D(k))) + 0 = (permits + r + a) - (D(k) + a)
        BY <4>1, <4>2, <1>0, <1>4
      <4> QED
        BY <4>1, <4>3, <3>3, <3>4, <1>10
    <3> QED
      BY <3>5, <3>6
  <2> QED
    BY <2>1, <2>2
<1>18. \A c \in Clients : HeldOf'[c] = IF front(c) THEN NeedOf[c] ELSE kept[c]
  <2> TAKE c \in Clients
  <2>1. HeldOf'[c] = IF c \in Range(list') \/ stage'[c] = "created" THEN 0
                     ELSE num'[c] - missing'[c]
    BY BatchOperators DEF HeldOf
  <2>2. front(c) => c \in Range(l)
    BY <1>2, <1>11
  <2>3. num[c] \in Nat /\ missing[c] \in Nat
    BY <1>0
  <2>4. CASE c \in Range(l)
    <3>1. front(c) => missing'[c] = 0
      BY <1>15
    <3>2. c \in Range(list') <=> ~front(c)
      BY <2>4, <1>14
    <3>3. /\ stage'[c] = "queued" /\ num'[c] = num[c] /\ NeedOf[c] = num[c] /\ kept[c] = 0
      BY <2>4, <1>1
    <3> HIDE DEF front
    <3> QED
      BY <2>1, <2>3, <3>1, <3>2, <3>3
  <2>5. CASE c \in gone
    <3>1. c \notin Range(l) /\ kept[c] = 0 /\ stage'[c] = "unused" /\ num'[c] = 0
      BY <2>5, <1>1
    <3>2. missing'[c] = 0 /\ c \notin Range(list') /\ ~front(c)
      BY <2>2, <2>5, <3>1, <1>14, <1>15
    <3> HIDE DEF front
    <3> QED
      BY <2>1, <3>1, <3>2
  <2>6. CASE c \notin Range(l) /\ c \notin gone
    <3>1. ~front(c) /\ c \notin Range(list') /\ c \notin Range(list)
      BY <2>2, <2>6, <1>14
    <3>2. ~(k < Len(l) /\ c = l[k + 1])
      BY <2>6, <1>0, <1>2, <1>11
    <3>3. missing'[c] = missing[c] /\ num'[c] = num[c] /\ stage'[c] = stage[c]
      BY <2>6, <3>1, <3>2, <1>15
    <3>4. kept[c] = IF stage[c] = "created" THEN 0 ELSE num[c] - missing[c]
      BY <2>6, <3>1, BatchOperators DEF HeldOf
    <3> HIDE DEF front
    <3> QED
      BY <2>1, <3>1, <3>3, <3>4
  <2> QED
    BY <2>4, <2>5, <2>6
<1>19. HeldOf' = [c \in Clients |-> IF front(c) THEN NeedOf[c] ELSE kept[c]]
  <2>1. HeldOf' = [c \in Clients |-> HeldOf'[c]]
    BY DEF HeldOf
  <2> HIDE DEF front
  <2> QED
    BY <2>1, <1>18
<1>20. DealsTo(k, p, l, kept)
  BY <1>7, <1>12, <1>13, <1>17, <1>19 DEF DealsTo, N
<1>21. ASSUME NEW i \in 1 .. Len(list'), i > 1
       PROVE  missing'[list'[i]] = num'[list'[i]]
  <2> DEFINE j == k + i
             c == l[j]
  <2>1. j \in k + 1 .. Len(l) /\ j \in 1 .. Len(l) /\ j > 1 /\ j # k + 1
    BY <1>0, <1>11, <1>14, <1>21
  <2>2. list'[i] = c /\ c \in Range(l) /\ ~front(c)
    <3>1. list'[i] = c
      BY <1>14
    <3>2. c \in Range(l) /\ ~front(c)
      BY <2>1, <1>16
    <3> QED
      BY <3>1, <3>2
  <2>3. missing[c] = num[c]
    BY <2>1
  <2>4. k < Len(l) => c # l[k + 1]
    <3>1. k < Len(l) => k + 1 \in 1 .. Len(l)
      BY <1>0, <1>11
    <3> QED
      BY <3>1, <2>1 DEF Once
  <2> HIDE DEF j, c, front
  <2>5. missing'[c] = missing[c] /\ num'[c] = num[c]
    BY <2>2, <2>4, <1>1, <1>15
  <2> QED
    BY <2>2, <2>3, <2>5
<1> QED
  BY <1>20, <1>21 DEF p

LEMMA PartOf ==
    ASSUME BatchInv, NEW q \in Seq(Clients)
    PROVE  /\ Part(q) \in Nat
           /\ q = <<>> => Part(q) = 0
           /\ q # <<>> => /\ q[1] \in Clients /\ q[1] \in Range(q)
                          /\ Part(q) = num[q[1]] - missing[q[1]]
<1>1. q = <<>> => Part(q) = 0
  BY DEF Part
<1>2. ASSUME q # <<>>
      PROVE  /\ q[1] \in Clients /\ q[1] \in Range(q)
             /\ Part(q) = num[q[1]] - missing[q[1]] /\ Part(q) \in Nat
  <2> DEFINE h == q[1]
  <2>1. Head(q) = h /\ h \in Clients /\ h \in Range(q)
    BY <1>2, HeadOf
  <2>2. Part(q) = num[h] - missing[h]
    BY <1>2, <2>1 DEF Part
  <2> HIDE DEF h
  <2>3. num[h] \in Nat /\ missing[h] \in Nat /\ missing[h] <= num[h]
    BY <2>1 DEF BatchInv, BatchType, FutureInv
  <2> QED
    BY <2>1, <2>2, <2>3 DEF h
<1>3. 0 \in Nat
  OBVIOUS
<1> QED
  BY <1>1, <1>2, <1>3

\* A future that goes takes nobody's place at the head of the queue but its own.
LEMMA QueueWithout ==
    ASSUME BatchInv, OrderInv, NEW c \in Clients, NEW l, l = Without(list, c)
    PROVE  /\ l \in Seq(Clients) /\ Once(l) /\ Range(l) = Range(list) \ {c}
           /\ \A d \in Range(list) : d # list[1] => missing[d] = num[d]
           /\ \A i \in 1 .. Len(l) : i > 1 => missing[l[i]] = num[l[i]]
           /\ list # <<>> /\ list[1] # c => l # <<>> /\ l[1] = list[1]
           /\ list = <<>> => l = <<>>
<1>0. list \in Seq(Clients) /\ Once(list)
  BY DEF BatchInv, BatchType
<1>1. /\ l \in Seq(Clients) /\ Once(l) /\ Range(l) = Range(list) \ {c}
      /\ list # <<>> /\ list[1] # c => l # <<>> /\ l[1] = list[1]
  BY <1>0, Unlinked
<1>2. ASSUME NEW d \in Range(list), d # list[1]
      PROVE  missing[d] = num[d]
  <2>1. PICK i \in 1 .. Len(list) : list[i] = d
    BY <1>0, RangeOf
  <2>2. i > 1
    BY <2>1, <1>2
  <2> QED
    BY <2>1, <2>2 DEF OrderInv
<1>3. ASSUME NEW i \in 1 .. Len(l), i > 1
      PROVE  missing[l[i]] = num[l[i]]
  <2>1. l[i] \in Range(l) /\ 1 \in 1 .. Len(l)
    BY <1>1, <1>3, RangeOf
  <2>2. l[i] # l[1]
    BY <2>1, <1>1, <1>3 DEF Once
  <2>3. l[i] \in Range(list) /\ l[i] # c
    BY <2>1, <1>1
  <2>4. list # <<>>
    BY <2>3 DEF Range
  <2>5. l[i] # list[1]
    BY <2>2, <2>3, <2>4, <1>1
  <2> QED
    BY <2>3, <2>5, <1>2
<1>4. list = <<>> => l = <<>>
  <2> SUFFICES ASSUME list = <<>>, l # <<>> PROVE FALSE
    OBVIOUS
  <2>1. l[1] \in Range(l)
    BY <1>1, HeadOf
  <2>2. Range(<<>>) = {}
    BY DEF Range
  <2> QED
    BY <2>1, <2>2, <1>1
<1> QED
  BY <1>1, <1>2, <1>3, <1>4

LEMMA PoolWithout ==
    ASSUME BatchInv, OrderInv, NEW c \in Clients, NEW l, l = Without(list, c),
           stage[c] # "created"
    PROVE  PoolOf + HeldOf[c] = permits + (num[c] - missing[c]) + Part(l)
<1>0. list \in Seq(Clients) /\ permits \in Nat /\ Range(<<>>) = {}
  BY DEF BatchInv, BatchType, Range
<1>1. /\ l \in Seq(Clients) /\ Range(l) = Range(list) \ {c}
      /\ \A d \in Range(list) : d # list[1] => missing[d] = num[d]
      /\ list # <<>> /\ list[1] # c => l # <<>> /\ l[1] = list[1]
      /\ list = <<>> => l = <<>>
  BY QueueWithout
<1>2. /\ Part(list) \in Nat /\ Part(l) \in Nat
      /\ list = <<>> => Part(list) = 0
      /\ l = <<>> => Part(l) = 0
      /\ list # <<>> => list[1] \in Range(list) /\ Part(list) = num[list[1]] - missing[list[1]]
      /\ l # <<>> => l[1] \in Range(l) /\ Part(l) = num[l[1]] - missing[l[1]]
  BY <1>0, <1>1, PartOf
<1>3. num[c] \in Nat /\ missing[c] \in Nat /\ missing[c] <= num[c]
  BY DEF BatchInv, BatchType, FutureInv
<1>4. HeldOf[c] = IF c \in Range(list) THEN 0 ELSE num[c] - missing[c]
  BY BatchOperators DEF HeldOf
<1>5. PoolOf = permits + Part(list)
  BY DEF PoolOf
<1> DEFINE r == num[c] - missing[c]
<1>6. r \in Nat
  BY <1>3
<1>7. CASE c \notin Range(list)
  <2>1. Part(l) = Part(list)
    <3>1. list # <<>> => list[1] # c
      BY <1>2, <1>7
    <3> QED
      BY <3>1, <1>1, <1>2
  <2>2. HeldOf[c] = r
    BY <1>4, <1>7
  <2> HIDE DEF r
  <2>3. \A x, y, z \in Nat : (x + y) + z = x + z + y
    OBVIOUS
  <2>4. (permits + Part(l)) + r = permits + r + Part(l)
    BY <2>3, <1>0, <1>2, <1>6
  <2> QED
    BY <2>1, <2>2, <2>4, <1>5 DEF r
<1>8. CASE c \in Range(list)
  <2>1. list # <<>> /\ HeldOf[c] = 0
    BY <1>0, <1>4, <1>8
  <2>2. CASE list[1] = c
    <3>1. Part(list) = r
      BY <2>1, <2>2, <1>2
    <3>2. Part(l) = 0
      <4>1. ASSUME l # <<>> PROVE num[l[1]] - missing[l[1]] = 0
        <5>1. l[1] \in Range(list) /\ l[1] # list[1]
          BY <4>1, <2>2, <1>1, <1>2
        <5>2. missing[l[1]] = num[l[1]] /\ l[1] \in Clients
          BY <5>1, <1>0, <1>1, RangeOf
        <5>3. num[l[1]] \in Nat
          BY <5>2 DEF BatchInv, BatchType
        <5> QED
          BY <5>2, <5>3
      <4> QED
        BY <4>1, <1>2
    <3> HIDE DEF r
    <3> QED
      BY <3>1, <3>2, <2>1, <1>0, <1>5, <1>6 DEF r
  <2>3. CASE list[1] # c
    <3>1. Part(l) = Part(list)
      BY <2>1, <2>3, <1>1, <1>2
    <3>2. r = 0
      BY <2>3, <1>1, <1>3, <1>8
    <3> HIDE DEF r
    <3>3. (permits + Part(l)) + 0 = permits + 0 + Part(l)
      BY <1>0, <1>2
    <3> QED
      BY <3>1, <3>2, <3>3, <2>1, <1>5 DEF r
  <2> QED
    BY <2>2, <2>3
<1> QED
  BY <1>7, <1>8

\* Dropped before it was polled.
LEMMA UnpolledMaps ==
    ASSUME BatchConstants, BatchInv, OrderInv, NEW c \in Clients, B!Cancel(c),
           stage[c] = "created"
    PROVE  sc' = sc /\ OrderInv'
<1> DEFINE r == num[c] - missing[c]
           l == Without(list, c)
<1>0. /\ list \in Seq(Clients) /\ Once(list) /\ permits \in Nat /\ missing \in [Clients -> Nat]
      /\ c \notin Range(list) /\ num[c] \in Nat /\ missing[c] = num[c]
      /\ list # <<>> => permits = 0
      /\ \A d \in Clients : d \in Range(list) => missing[d] > 0
  BY DEF BatchInv, BatchType, FutureInv
<1>1. /\ r \in Nat /\ permits + r <= MaxPermits /\ B!AddPermits(r, l, {c})
      /\ \A d \in Clients \ {c} : stage'[d] = stage[d] /\ num'[d] = num[d]
      /\ stage'[c] = "unused" /\ num'[c] = 0
      /\ UNCHANGED shut
  BY FutureLeaves
<1>2. l = list /\ r = 0
  <2>1. \A i \in 1 .. Len(list) : list[i] # c
    BY <1>0, RangeOf
  <2>2. l = list
    BY <2>1 DEF Without
  <2> QED
    BY <2>2, <1>0
<1>3. \A d \in Range(list) : d \in Clients /\ missing[d] > 0 /\ d \notin {c}
  <2>1. \A d \in Range(list) : d \in Clients
    BY <1>0, RangeOf
  <2> QED
    BY <2>1, <1>0
<1> HIDE DEF r, l
<1>4. PICK g \in [Clients -> Nat] : Gives(g, r, l, {c})
  BY <1>0, <1>1, <1>2, <1>3, BatchDealt
<1>5. /\ list' = list /\ permits' = permits
      /\ \A d \in Clients \ {c} : missing'[d] = missing[d]
      /\ missing'[c] = 0
  BY <1>0, <1>2, <1>4 DEF Gives
<1>6. \A d \in Clients \ {c} : /\ num'[d] = num[d] /\ missing'[d] = missing[d]
                               /\ stage'[d] = stage[d]
  BY <1>1, <1>5
<1>7. PhaseOf'[c] = PhaseOf[c] /\ NeedOf'[c] = NeedOf[c] /\ HeldOf'[c] = HeldOf[c]
  <2>1. HeldOf'[c] = IF c \in B!Range(list') \/ stage'[c] = "created" THEN 0 ELSE 0 - 0
    BY <1>1, <1>5 DEF HeldOf
  <2> QED
    BY <2>1, <1>1 DEF PhaseOf, NeedOf, HeldOf
<1>8. PoolOf' = PoolOf /\ PhaseOf' = PhaseOf /\ NeedOf' = NeedOf /\ HeldOf' = HeldOf
  BY <1>0, <1>5, <1>6, <1>7, Alone
<1>9. OrderInv'
  <2>1. \A i \in 1 .. Len(list) : list[i] \in Clients \ {c}
    BY <1>0, <1>3, RangeOf
  <2> QED
    BY <2>1, <1>1, <1>5, <1>6 DEF OrderInv
<1> QED
  BY <1>1, <1>5, <1>8, <1>9, ContractVars

LEMMA LeavesMaps ==
    ASSUME BatchConstants, BatchInv, OrderInv, NEW c \in Clients,
           B!Cancel(c) \/ B!Release(c), stage[c] # "created"
    PROVE  B!SC!Drop(c) /\ OrderInv'
<1> DEFINE r == num[c] - missing[c]
           l == Without(list, c)
           p == permits + r + Part(l)
           kept == [HeldOf EXCEPT ![c] = 0]
           gone == {c}
<1>1. /\ r \in Nat /\ permits + r <= MaxPermits /\ B!AddPermits(r, l, gone)
      /\ stage' = [d \in Clients |-> IF d \in gone THEN "unused" ELSE stage[d]]
      /\ num' = [d \in Clients |-> IF d \in gone THEN 0 ELSE num[d]]
      /\ UNCHANGED shut /\ stage[c] # "unused"
  BY FutureLeaves
<1>2. /\ l \in Seq(Clients) /\ Once(l) /\ gone \in SUBSET Clients
      /\ \A d : d \in Range(l) <=> d \in Range(list) /\ d \notin gone
      /\ \A i \in 1 .. Len(l) : i > 1 => missing[l[i]] = num[l[i]]
  <2>1. /\ l \in Seq(Clients) /\ Once(l) /\ Range(l) = Range(list) \ {c}
        /\ \A i \in 1 .. Len(l) : i > 1 => missing[l[i]] = num[l[i]]
    <3> HIDE DEF l
    <3>1. l = Without(list, c)
      BY DEF l
    <3> QED
      BY <3>1, QueueWithout
  <2> HIDE DEF l
  <2> QED
    BY <2>1
<1>3. p = PoolOf + HeldOf[c]
  BY PoolWithout
<1>4. HeldOf \in [Clients -> Nat]
  BY DEF HeldOf, BatchInv, BatchType, FutureInv
<1>5. /\ kept \in [Clients -> Nat]
      /\ \A d \in Clients : kept[d] = IF d \in gone THEN 0 ELSE HeldOf[d]
  BY <1>4
<1>6. PhaseOf[c] # "out" /\ PhaseOf' = [PhaseOf EXCEPT ![c] = "out"]
  BY <1>1 DEF PhaseOf, BatchInv, BatchType, B!Stages
<1>7. NeedOf' = [NeedOf EXCEPT ![c] = 0]
  BY <1>1 DEF NeedOf
<1>8. \A d \in Clients : stage'[d] = "created" => stage[d] = "created" /\ num'[d] = num[d]
  BY <1>1
<1> HIDE DEF r, gone
<1>9. /\ p = permits + r + Part(l) /\ l = Without(list, c)
      /\ kept = [HeldOf EXCEPT ![c] = 0]
  OBVIOUS
<1> HIDE DEF l, kept
<1>10. /\ \E k \in 0 .. Len(l) : DealsTo(k, p, l, kept)
       /\ \A i \in 1 .. Len(list') : i > 1 => missing'[list'[i]] = num'[list'[i]]
  BY <1>1, <1>2, <1>5, DealMaps
<1> HIDE DEF p
<1>11. PICK k \in 0 .. Len(l) : DealsTo(k, p, l, kept)
  BY <1>10
<1>12. B!SC!Drop(c)
  BY <1>1, <1>3, <1>6, <1>7, <1>9, <1>11, DropIs
<1>13. OrderInv'
  BY <1>8, <1>10 DEF OrderInv
<1> QED
  BY <1>12, <1>13

LEMMA AddsMaps ==
    ASSUME BatchConstants, BatchInv, OrderInv, NEW n \in Sizes, B!AddNew(n)
    PROVE  B!SC!Add(n) /\ OrderInv'
<1> DEFINE l == list
           kept == HeldOf
           gone == {}
           p == permits + n + Part(l)
<1>1. /\ n \in Nat /\ permits \in Nat /\ circulating \in Nat
      /\ num \in [Clients -> Nat] /\ missing \in [Clients -> Nat]
      /\ stage \in [Clients -> B!Stages]
      /\ list \in Seq(Clients) /\ Once(list) /\ permits + Sum(Assigned) = circulating
      /\ IsFiniteSet(Clients) /\ MaxPermits \in Nat
  BY DEF BatchConstants, BatchInv, BatchType
<1>2. /\ B!AddPermits(n, list, {}) /\ circulating + n <= MaxPermits
      /\ UNCHANGED <<shut, stage, num>>
  BY DEF B!AddNew
<1>3. n \in Nat /\ permits + n <= MaxPermits
  <2>1. Sum(Assigned) \in Nat
    BY <1>1, AssignedType, SumNat
  <2> QED
    BY <2>1, <1>1, <1>2
<1>4. /\ kept \in [Clients -> Nat]
      /\ \A d \in Clients : kept[d] = IF d \in gone THEN 0 ELSE HeldOf[d]
  BY DEF HeldOf, BatchInv, BatchType, FutureInv
<1>5. /\ stage' = [d \in Clients |-> IF d \in gone THEN "unused" ELSE stage[d]]
      /\ num' = [d \in Clients |-> IF d \in gone THEN 0 ELSE num[d]]
      /\ \A d : d \in Range(l) <=> d \in Range(list) /\ d \notin gone
      /\ gone \in SUBSET Clients /\ B!AddPermits(n, l, gone)
      /\ l \in Seq(Clients) /\ Once(l)
  BY <1>1, <1>2
<1>6. \A i \in 1 .. Len(l) : i > 1 => missing[l[i]] = num[l[i]]
  BY DEF OrderInv
<1> HIDE DEF l, kept, gone
<1>7. /\ \E k \in 0 .. Len(l) : DealsTo(k, p, l, kept)
      /\ \A i \in 1 .. Len(list') : i > 1 => missing'[list'[i]] = num'[list'[i]]
  BY <1>3, <1>4, <1>5, <1>6, DealMaps
<1>8. p = PoolOf + n
  <2>1. Part(list) \in Nat /\ PoolOf = permits + Part(list)
    BY <1>1, PartOf DEF PoolOf
  <2>2. \A x, y, z \in Nat : x + y + z = (x + z) + y
    OBVIOUS
  <2>3. permits + n + Part(list) = (permits + Part(list)) + n
    BY <2>1, <2>2, <1>1
  <2> QED
    BY <2>1, <2>3 DEF l
<1> HIDE DEF p
<1>9. PICK k \in 0 .. Len(l) : DealsTo(k, p, l, kept)
  BY <1>7
<1>10. UNCHANGED <<shut, PhaseOf, NeedOf>>
  BY <1>2 DEF PhaseOf, NeedOf
<1>11. B!SC!Add(n)
  BY <1>8, <1>9, <1>10, AddIs DEF l, kept
<1>12. OrderInv'
  BY <1>2, <1>7 DEF OrderInv
<1> QED
  BY <1>11, <1>12

\* What the oldest waiter was given in part is its own from then on.
LEMMA ClosesMaps ==
    ASSUME BatchInv, OrderInv, B!Close
    PROVE  B!SC!Close /\ OrderInv'
<1>1. shut' = TRUE /\ list' = <<>> /\ UNCHANGED <<permits, stage, num, missing>>
  BY DEF B!Close
<1>2. /\ list \in Seq(Clients) /\ permits \in Nat /\ (list # <<>> => permits = 0)
      /\ Range(<<>>) = {}
      /\ num \in [Clients -> Nat] /\ missing \in [Clients -> Nat]
  BY DEF BatchInv, BatchType, Range
<1>3. PoolOf' = permits
  <2>1. Part(list)' = 0
    BY <1>1 DEF Part
  <2> QED
    BY <2>1, <1>1, <1>2 DEF PoolOf
<1>4. PoolOf' = IF list = <<>> THEN PoolOf ELSE 0
  <2>1. list = <<>> => Part(list) = 0
    BY DEF Part
  <2>2. PoolOf = permits + Part(list) /\ permits + 0 = permits
    BY <1>2 DEF PoolOf
  <2> QED
    BY <2>1, <2>2, <1>2, <1>3
<1>5. \A d \in Clients : HeldOf'[d] = IF stage[d] = "created" THEN 0 ELSE num[d] - missing[d]
  BY <1>1, <1>2, BatchOperators DEF HeldOf
<1>6. \A d \in Clients : HeldOf[d] = IF d \in Range(list) \/ stage[d] = "created" THEN 0
                                     ELSE num[d] - missing[d]
  BY BatchOperators DEF HeldOf
<1>7. HeldOf = [d \in Clients |-> HeldOf[d]] /\ HeldOf' = [d \in Clients |-> HeldOf'[d]]
  BY DEF HeldOf
<1>8. HeldOf' = IF list = <<>> THEN HeldOf ELSE [HeldOf EXCEPT ![Head(list)] = PoolOf]
  <2>1. CASE list = <<>>
    <3>1. \A d \in Clients : HeldOf'[d] = HeldOf[d]
      BY <2>1, <1>2, <1>5, <1>6
    <3> QED
      BY <2>1, <3>1, <1>7
  <2>2. CASE list # <<>>
    <3> DEFINE h == list[1]
    <3>1. Head(list) = h /\ h \in Clients /\ h \in Range(list) /\ Part(list) = num[h] - missing[h]
      BY <2>2, <1>2, HeadOf, PartOf
    <3>2. stage[h] = "queued" /\ num[h] - missing[h] \in Nat
      BY <3>1 DEF BatchInv, BatchType, FutureInv
    <3>3. HeldOf'[h] = PoolOf
      <4>1. PoolOf = 0 + (num[h] - missing[h])
        BY <2>2, <3>1, <1>2 DEF PoolOf
      <4> HIDE DEF h
      <4> QED
        BY <4>1, <3>1, <3>2, <1>5
    <3>4. ASSUME NEW d \in Clients, d # h
          PROVE  HeldOf'[d] = HeldOf[d]
      <4>1. CASE d \in Range(list)
        <5>1. missing[d] = num[d] /\ num[d] \in Nat
          BY <3>4, <4>1, <1>2, QueueWithout
        <5> HIDE DEF h
        <5> QED
          BY <4>1, <5>1, <1>5, <1>6
      <4>2. CASE d \notin Range(list)
        BY <4>2, <1>5, <1>6
      <4> QED
        BY <4>1, <4>2
    <3> HIDE DEF h
    <3> QED
      BY <2>2, <3>1, <3>3, <3>4, <1>7
  <2> QED
    BY <2>1, <2>2
<1>9. UNCHANGED <<PhaseOf, NeedOf>>
  BY <1>1 DEF PhaseOf, NeedOf
<1>10. B!SC!Close
  BY <1>1, <1>4, <1>8, <1>9 DEF B!SC!Close, PoolOf, Part, PhaseOf, NeedOf, HeldOf
<1>11. OrderInv'
  <2>1. Len(<<>>) = 0
    OBVIOUS
  <2> QED
    BY <2>1, <1>1 DEF OrderInv
<1> QED
  BY <1>10, <1>11

LEMMA ContractInit ==
    ASSUME BatchConstants, B!Init
    PROVE  B!SC!Init /\ OrderInv
<1>1. /\ permits = MinTotal /\ shut = FALSE /\ list = <<>> /\ MinTotal \in Nat
      /\ stage = [c \in Clients |-> "unused"]
      /\ num = [c \in Clients |-> 0] /\ missing = [c \in Clients |-> 0]
  BY DEF B!Init, BatchConstants
<1>2. PoolOf \in Nat
  BY <1>1 DEF PoolOf, Part
<1>3. PhaseOf = [c \in Clients |-> "out"] /\ NeedOf = [c \in Clients |-> 0]
  BY <1>1 DEF PhaseOf, NeedOf
<1>4. HeldOf = [c \in Clients |-> 0]
  BY <1>1 DEF HeldOf
<1>5. B!SC!Init
  BY <1>1, <1>2, <1>3, <1>4
     DEF B!SC!Init, B!SC!InitWith, PoolOf, Part, PhaseOf, NeedOf, HeldOf
<1>6. OrderInv
  <2>1. Len(<<>>) = 0
    OBVIOUS
  <2> QED
    BY <2>1, <1>1 DEF OrderInv
<1> QED
  BY <1>5, <1>6

LEMMA ContractStep ==
    ASSUME BatchConstants, BatchInv, OrderInv, B!Next \/ UNCHANGED bvars
    PROVE  (B!SC!Next \/ UNCHANGED B!SC!semVars) /\ OrderInv'
<1>0. UNCHANGED B!SC!semVars <=> sc' = sc
  BY ContractVars
<1>1. CASE UNCHANGED bvars
  <2>1. UNCHANGED <<PoolOf, shut, list, PhaseOf, NeedOf, HeldOf>>
    BY <1>1 DEF bvars, PoolOf, Part, PhaseOf, NeedOf, HeldOf
  <2>2. OrderInv'
    BY <1>1 DEF bvars, OrderInv
  <2> QED
    BY <2>1, <2>2, <1>0, ContractVars
<1>2. ASSUME NEW c \in Clients, NEW n \in Sizes, B!Create(c, n) \/ B!TryAcquire(c, n)
      PROVE  (B!SC!Next \/ sc' = sc) /\ OrderInv'
  <2>1. CASE B!Create(c, n)
    BY <2>1, CreatesMaps
  <2>2. CASE B!TryAcquire(c, n)
    BY <2>2, TakesMaps DEF B!SC!Next
  <2> QED
    BY <1>2, <2>1, <2>2
<1>3. ASSUME NEW c \in Clients, B!Poll(c) \/ B!Cancel(c) \/ B!Release(c) \/ B!Forget(c)
      PROVE  (B!SC!Next \/ sc' = sc) /\ OrderInv'
  <2>1. CASE B!PollClosed(c)
    BY <2>1, FailsMaps DEF B!SC!Next
  <2>2. CASE B!PollGranted(c)
    BY <2>2, GrantsMaps DEF B!SC!Next
  <2>3. CASE \E w \in Wakers : B!PollPending(c, w)
    BY <2>3, WaitsMaps DEF B!SC!Next
  <2>4. CASE B!Cancel(c) /\ stage[c] = "created"
    BY <2>4, UnpolledMaps
  <2>5. CASE (B!Cancel(c) \/ B!Release(c)) /\ stage[c] # "created"
    BY <2>5, LeavesMaps DEF B!SC!Next
  <2>6. CASE B!Forget(c)
    BY <2>6, ForgetsMaps DEF B!SC!Next
  <2>7. B!Release(c) => stage[c] # "created"
    BY DEF B!Release
  <2> QED
    BY <1>3, <2>1, <2>2, <2>3, <2>4, <2>5, <2>6, <2>7 DEF B!Poll
<1>4. ASSUME NEW n \in Sizes, B!AddNew(n)
      PROVE  B!SC!Next /\ OrderInv'
  BY <1>4, AddsMaps DEF B!SC!Next
<1>5. CASE B!Close
  BY <1>5, ClosesMaps DEF B!SC!Next
<1> QED
  BY <1>0, <1>1, <1>2, <1>3, <1>4, <1>5 DEF B!Next

\* Contract: the batch semaphore is the pool with a first-come first-served
\* queue that mutex.rs, rwlock, once_cell.rs and the bounded channel build on.
\* Its word of permits, its partial assignments and its futures that are polled,
\* dropped and closed in any order (batch_semaphore.rs) take no step that the
\* contract does not allow, for any number of futures.
THEOREM SemaphoreImplementsContract ==
    ASSUME BatchConstants
    PROVE  MCSpec => Contract
<1> DEFINE Inv == BatchInv /\ OrderInv
<1>1. MCInit => Inv /\ B!SC!Init
  BY BatchInit, ContractInit DEF MCInit
<1>2. Inv /\ [MCNext]_<<part, vars, cvars, mvars, bvars>>
        => Inv' /\ [B!SC!Next]_B!SC!semVars
  <2> SUFFICES ASSUME Inv, [MCNext]_<<part, vars, cvars, mvars, bvars>>
               PROVE  Inv' /\ [B!SC!Next]_B!SC!semVars
    OBVIOUS
  <2>1. B!Next \/ UNCHANGED bvars
    BY DEF MCNext
  <2> QED
    BY <2>1, BatchStep, ContractStep
<1> QED
  BY <1>1, <1>2, PTL DEF MCSpec, Contract, B!Contract, B!SC!Spec

=============================================================================
