---------------------------- MODULE DetectorsProofs ----------------------------
(***************************************************************************)
(* Theorems about the flow tracker and the rules of main.py, for any       *)
(* packets, gaps, windows and thresholds. The argument: each deque mirrors *)
(* the packets of the log it is for, those since some moment that is never *)
(* after the cutoff (Windows); a packet that pushes to a deque makes it    *)
(* exact; and the flow table is the one the log describes. From the exact  *)
(* signals the rules fire as the evidence of the log says.                 *)
(***************************************************************************)
EXTENDS Detectors, FiniteSetTheorems, SequenceTheorems, WellFoundedInduction, TLAPS

-----------------------------------------------------------------------------
(* Least elements: the provers have no induction over data, so a fact about every     *)
(* finite set is proved by looking at a smallest set for which it fails.              *)

\* Among the subsets of a finite set with some property there is a smallest one.
LEMMA SmallestSet ==
    ASSUME NEW S, IsFiniteSet(S), NEW bad \in SUBSET SUBSET S, bad # {}
    PROVE  \E T \in bad : \A U \in bad : U \subseteq T => U = T
<1>1. IsWellFoundedOn(StrictSubsetOrdering(S), SUBSET S)
  BY FS_StrictSubsetOrderingWellFounded, FS_FiniteSubsetsOfFinite
<1>2. PICK T \in bad : \A U \in bad : <<U, T>> \notin StrictSubsetOrdering(S)
  BY <1>1, WFMin
<1>3. \A U \in bad : U \subseteq T => U = T
  BY <1>2 DEF StrictSubsetOrdering
<1> QED
  BY <1>3

\* Min is what its name says.
LEMMA LeastOf ==
    ASSUME NEW S \in SUBSET Nat, S # {}
    PROVE  /\ Min(S) \in S
           /\ \A i \in S : Min(S) <= i
<1>1. PICK m \in S : \A i \in S : <<i, m>> \notin OpToRel(<, Nat)
  BY NatLessThanWellFounded, WFMin
<1>2. ASSUME NEW i \in S PROVE m <= i
  <2>1. /\ i \in Nat /\ m \in Nat
        /\ <<i, m>> \in Nat \X Nat
        /\ <<i, m>> \notin OpToRel(<, Nat)
    BY <1>1
  <2> QED
    BY <2>1 DEF OpToRel
<1> QED
  BY <1>2 DEF Min

\* Max is what its name says, for a bounded set.
LEMMA GreatestOf ==
    ASSUME NEW S \in SUBSET Nat, S # {}, NEW n \in Nat, \A i \in S : i <= n
    PROVE  /\ Max(S) \in S
           /\ \A i \in S : i <= Max(S)
<1> DEFINE above == {n - i : i \in S}
<1>1. PICK m \in above : \A i \in above : m <= i
  <2>1. ASSUME NEW i \in S PROVE n - i \in Nat
    <3>1. i \in Nat /\ i <= n
      OBVIOUS
    <3> QED
      BY <3>1
  <2>2. above \in SUBSET Nat /\ above # {}
    BY <2>1
  <2> HIDE DEF above
  <2>3. Min(above) \in above /\ \A i \in above : Min(above) <= i
    BY <2>2, LeastOf
  <2> QED
    BY <2>3
<1>2. PICK x \in S : m = n - x
  OBVIOUS
<1>3. ASSUME NEW i \in S PROVE i <= x
  <2>1. n - x <= n - i
    BY <1>1, <1>2
  <2>2. i \in Nat /\ x \in Nat
    OBVIOUS
  <2> QED
    BY <2>1, <2>2
<1> QED
  BY <1>3 DEF Max

-----------------------------------------------------------------------------
(* Sums: what SumFunctionOnSet computes by a fold. *)

Pick(s) == CHOOSE x \in s : TRUE

Adds(g, f, S) ==
    g = [s \in SUBSET S |-> IF s = {} THEN 0 ELSE f[Pick(s)] + g[s \ {Pick(s)}]]

\* The element that a fold takes next is one of the set.
LEMMA PickIsIn == \A s : s # {} => Pick(s) \in s
BY DEF Pick

\* A function that adds up sets one element at a time is the only one,
LEMMA AddsUnique ==
    ASSUME NEW f, NEW S, NEW T, NEW g, NEW h, Adds(g, f, S), Adds(h, f, T),
           NEW U \in SUBSET (S \cap T), IsFiniteSet(U)
    PROVE  g[U] = h[U]
<1> DEFINE bad == {V \in SUBSET U : g[V] # h[V]}
<1>1. SUFFICES ASSUME bad # {} PROVE FALSE
  OBVIOUS
<1>2. PICK V \in bad : \A W \in bad : W \subseteq V => W = V
  <2>1. bad \in SUBSET SUBSET U
    OBVIOUS
  <2> HIDE DEF bad
  <2> QED
    BY <1>1, <2>1, SmallestSet
<1>3. V # {}
  BY DEF Adds
<1>4. Pick(V) \in V
  BY <1>3, PickIsIn
<1> DEFINE W == V \ {Pick(V)}
<1>5. g[W] = h[W]
  BY <1>2, <1>4
<1>6. g[V] = f[Pick(V)] + g[W]
  BY <1>3 DEF Adds
<1>7. h[V] = f[Pick(V)] + h[W]
  BY <1>3 DEF Adds
<1> QED
  BY <1>5, <1>6, <1>7

\* and there is one for every finite set.
LEMMA AddsExists ==
    ASSUME NEW f, NEW S, IsFiniteSet(S)
    PROVE  \E g : Adds(g, f, S)
<1> DEFINE bad == {U \in SUBSET S : ~ \E g : Adds(g, f, U)}
<1>1. SUFFICES ASSUME bad # {} PROVE FALSE
  OBVIOUS
<1>2. PICK T \in bad : \A U \in bad : U \subseteq T => U = T
  <2>1. bad \in SUBSET SUBSET S
    OBVIOUS
  <2> HIDE DEF bad
  <2> QED
    BY <1>1, <2>1, SmallestSet
<1> DEFINE G(u) == CHOOSE g : Adds(g, f, u)
<1>3. ASSUME NEW u \in SUBSET T, u # T
      PROVE  Adds(G(u), f, u)
  BY <1>2, <1>3
<1> DEFINE h == [s \in SUBSET T |-> IF s = {} THEN 0
                     ELSE f[Pick(s)] + G(s \ {Pick(s)})[s \ {Pick(s)}]]
<1>4. ASSUME NEW u \in SUBSET T, u # T
      PROVE  h[u] = G(u)[u]
  <2>1. Adds(G(u), f, u)
    BY <1>3, <1>4
  <2>2. CASE u = {}
    BY <2>1, <2>2 DEF Adds
  <2>3. CASE u # {}
    <3> DEFINE v == u \ {Pick(u)}
    <3>1. Pick(u) \in u
      BY <2>3, PickIsIn
    <3>2. v \in SUBSET T /\ v # T
      BY <3>1
    <3>3. Adds(G(v), f, v)
      BY <1>3, <3>2
    <3>4. IsFiniteSet(v)
      BY FS_Subset
    <3>5. G(u)[v] = G(v)[v]
      <4> HIDE DEF G
      <4>1. v \in SUBSET (u \cap v)
        OBVIOUS
      <4> QED
        BY <2>1, <3>3, <3>4, <4>1, AddsUnique
    <3>6. G(u)[u] = f[Pick(u)] + G(u)[v]
      <4> HIDE DEF G
      <4> QED
        BY <2>1, <2>3 DEF Adds
    <3>7. h[u] = f[Pick(u)] + G(v)[v]
      BY <2>3
    <3> QED
      BY <3>5, <3>6, <3>7
  <2> QED
    BY <2>2, <2>3
<1>5. \A s \in SUBSET T : s # {} => h[s \ {Pick(s)}] = G(s \ {Pick(s)})[s \ {Pick(s)}]
  <2> HIDE DEF h, G
  <2> QED
    BY <1>4, PickIsIn
<1>6. Adds(h, f, T)
  <2>1. \A s \in SUBSET T : (IF s = {} THEN 0 ELSE f[Pick(s)] + G(s \ {Pick(s)})[s \ {Pick(s)}])
                          = (IF s = {} THEN 0 ELSE f[Pick(s)] + h[s \ {Pick(s)}])
    <3> HIDE DEF h, G
    <3> QED
      BY <1>5
  <2>2. h = [s \in SUBSET T |-> IF s = {} THEN 0 ELSE f[Pick(s)] + h[s \ {Pick(s)}]]
    <3>1. h = [s \in SUBSET T |-> IF s = {} THEN 0
                     ELSE f[Pick(s)] + G(s \ {Pick(s)})[s \ {Pick(s)}]]
      OBVIOUS
    <3> HIDE DEF h, G
    <3> QED
      BY <2>1, <3>1
  <2> QED
    BY <2>2 DEF Adds
<1> QED
  BY <1>6

\* It is what SumFunctionOnSet computes.
LEMMA SumIs ==
    ASSUME NEW f, NEW S, NEW T \in SUBSET S, IsFiniteSet(S), NEW g, Adds(g, f, S)
    PROVE  SumFunctionOnSet(f, T) = g[T]
<1> DEFINE h == CHOOSE x : Adds(x, f, T)
<1>1. IsFiniteSet(T)
  BY FS_Subset
<1>2. Adds(h, f, T)
  BY <1>1, AddsExists
<1>3. SumFunctionOnSet(f, T) = h[T]
  BY DEF SumFunctionOnSet, FoldFunctionOnSet, MapThenFoldSet, Adds, Pick
<1> HIDE DEF h
<1>4. h[T] = g[T]
  <2>1. T \in SUBSET (T \cap S)
    OBVIOUS
  <2> QED
    BY <1>1, <1>2, <2>1, AddsUnique
<1> QED
  BY <1>3, <1>4

\* The sum, one element at a time in the order of the fold.
LEMMA SumStep ==
    ASSUME NEW f, NEW S, IsFiniteSet(S)
    PROVE  /\ S = {} => SumFunctionOnSet(f, S) = 0
           /\ S # {} => SumFunctionOnSet(f, S)
                            = f[Pick(S)] + SumFunctionOnSet(f, S \ {Pick(S)})
<1>1. PICK g : Adds(g, f, S)
  BY AddsExists
<1>2. SumFunctionOnSet(f, S) = g[S]
  BY <1>1, SumIs
<1>3. SumFunctionOnSet(f, S \ {Pick(S)}) = g[S \ {Pick(S)}]
  BY <1>1, SumIs
<1> QED
  BY <1>1, <1>2, <1>3 DEF Adds

\* A sum of naturals is a natural.
LEMMA SumType ==
    ASSUME NEW f, NEW S, IsFiniteSet(S), \A x \in S : f[x] \in Nat
    PROVE  SumFunctionOnSet(f, S) \in Nat
<1> DEFINE bad == {U \in SUBSET S : SumFunctionOnSet(f, U) \notin Nat}
<1>1. SUFFICES ASSUME bad # {} PROVE FALSE
  OBVIOUS
<1>2. PICK T \in bad : \A U \in bad : U \subseteq T => U = T
  <2>1. bad \in SUBSET SUBSET S
    OBVIOUS
  <2> HIDE DEF bad
  <2> QED
    BY <1>1, <2>1, SmallestSet
<1>3. IsFiniteSet(T)
  BY FS_Subset
<1>4. T # {}
  <2>1. T = {} => SumFunctionOnSet(f, T) = 0
    BY <1>3, SumStep
  <2> QED
    BY <2>1
<1>5. Pick(T) \in T
  BY <1>4, PickIsIn
<1>6. SumFunctionOnSet(f, T \ {Pick(T)}) \in Nat
  BY <1>2, <1>5
<1>7. SumFunctionOnSet(f, T) = f[Pick(T)] + SumFunctionOnSet(f, T \ {Pick(T)})
  BY <1>3, <1>4, SumStep
<1> QED
  BY <1>5, <1>6, <1>7

\* A sum depends on its summands only.
LEMMA SumSame ==
    ASSUME NEW f, NEW g, NEW S, IsFiniteSet(S), \A x \in S : f[x] = g[x]
    PROVE  SumFunctionOnSet(f, S) = SumFunctionOnSet(g, S)
<1> DEFINE bad == {U \in SUBSET S : SumFunctionOnSet(f, U) # SumFunctionOnSet(g, U)}
<1>1. SUFFICES ASSUME bad # {} PROVE FALSE
  OBVIOUS
<1>2. PICK T \in bad : \A U \in bad : U \subseteq T => U = T
  <2>1. bad \in SUBSET SUBSET S
    OBVIOUS
  <2> HIDE DEF bad
  <2> QED
    BY <1>1, <2>1, SmallestSet
<1>3. IsFiniteSet(T)
  BY FS_Subset
<1>4. T # {}
  <2>1. T = {} => SumFunctionOnSet(f, T) = 0 /\ SumFunctionOnSet(g, T) = 0
    BY <1>3, SumStep
  <2> QED
    BY <2>1
<1>5. Pick(T) \in T
  BY <1>4, PickIsIn
<1>6. SumFunctionOnSet(f, T \ {Pick(T)}) = SumFunctionOnSet(g, T \ {Pick(T)})
  BY <1>2, <1>5
<1>7. SumFunctionOnSet(f, T) = f[Pick(T)] + SumFunctionOnSet(f, T \ {Pick(T)})
  BY <1>3, <1>4, SumStep
<1>8. SumFunctionOnSet(g, T) = g[Pick(T)] + SumFunctionOnSet(g, T \ {Pick(T)})
  BY <1>3, <1>4, SumStep
<1> QED
  BY <1>5, <1>6, <1>7, <1>8

\* Any summand, not only the one the fold takes first, may be taken out of a sum.
LEMMA SumWithout ==
    ASSUME NEW f, NEW S, IsFiniteSet(S), \A x \in S : f[x] \in Nat, NEW e \in S
    PROVE  SumFunctionOnSet(f, S) = f[e] + SumFunctionOnSet(f, S \ {e})
<1> DEFINE sum(U) == SumFunctionOnSet(f, U)
<1> DEFINE bad == {U \in SUBSET S : \E x \in U : sum(U) # f[x] + sum(U \ {x})}
<1>1. SUFFICES ASSUME bad # {} PROVE FALSE
  OBVIOUS
<1>2. PICK T \in bad : \A U \in bad : U \subseteq T => U = T
  <2>1. bad \in SUBSET SUBSET S
    OBVIOUS
  <2> HIDE DEF bad
  <2> QED
    BY <1>1, <2>1, SmallestSet
<1>3. \A U \in SUBSET T : /\ sum(U) \in Nat
                          /\ U # {} => sum(U) = f[Pick(U)] + sum(U \ {Pick(U)})
  BY FS_Subset, SumType, SumStep
<1> HIDE DEF sum
<1>4. PICK x \in T : sum(T) # f[x] + sum(T \ {x})
  OBVIOUS
<1> DEFINE y == Pick(T)
<1>5. y \in T
  BY PickIsIn
<1>6. sum(T) = f[y] + sum(T \ {y})
  BY <1>3
<1>7. y # x
  BY <1>4, <1>6
<1> HIDE DEF y
<1>8. \A U \in SUBSET T : U # T => \A z \in U : sum(U) = f[z] + sum(U \ {z})
  BY <1>2
<1>9. /\ sum(T \ {y}) = f[x] + sum((T \ {y}) \ {x})
      /\ sum(T \ {x}) = f[y] + sum((T \ {x}) \ {y})
  <2>1. T \ {y} # T /\ T \ {x} # T /\ x \in T \ {y} /\ y \in T \ {x}
    BY <1>5, <1>7
  <2> HIDE DEF bad
  <2> QED
    BY <1>8, <2>1
<1>10. PICK q \in Nat : q = sum((T \ {y}) \ {x})
  BY <1>3
<1>11. (T \ {x}) \ {y} = (T \ {y}) \ {x}
  OBVIOUS
<1>12. sum(T \ {y}) = f[x] + q /\ sum(T \ {x}) = f[y] + q
  BY <1>9, <1>10, <1>11
<1>13. f[x] \in Nat /\ f[y] \in Nat
  BY <1>5
<1>14. PICK u \in Nat, v \in Nat : u = f[x] /\ v = f[y]
  BY <1>13
<1>15. sum(T) = v + (u + q) /\ sum(T) # u + (v + q)
  BY <1>4, <1>6, <1>12, <1>14
<1> QED
  BY <1>15

-----------------------------------------------------------------------------
(* Windows: a deque holds what a set of the log's packets left in it, in order. *)

\* hist holds e[i] for the i in chosen, in the order of the i.
Mirrors(hist, e, chosen) ==
    \E at \in [1..Len(hist) -> chosen] :
        /\ \A i, j \in 1..Len(hist) : i < j => at[i] < at[j]
        /\ \A c \in chosen : \E i \in 1..Len(hist) : at[i] = c
        /\ \A i \in 1..Len(hist) : hist[i] = e[at[i]]

\* Only the chosen entries matter.
LEMMA MirrorSame ==
    ASSUME NEW hist, NEW e, NEW f, NEW chosen, Mirrors(hist, e, chosen),
           \A i \in chosen : e[i] = f[i]
    PROVE  Mirrors(hist, f, chosen)
<1>1. PICK at \in [1..Len(hist) -> chosen] :
          /\ \A i, j \in 1..Len(hist) : i < j => at[i] < at[j]
          /\ \A c \in chosen : \E i \in 1..Len(hist) : at[i] = c
          /\ \A i \in 1..Len(hist) : hist[i] = e[at[i]]
  BY DEF Mirrors
<1>2. \A i \in 1..Len(hist) : hist[i] = f[at[i]]
  BY <1>1
<1> QED
  BY <1>1, <1>2 DEF Mirrors

\* How many indices a log of n packets has.
LEMMA CountOneTo ==
    ASSUME NEW n \in Nat
    PROVE  IsFiniteSet(1..n) /\ Cardinality(1..n) = n
<1>1. /\ IsFiniteSet(1..n)
      /\ Cardinality(1..n) = IF 1 > n THEN 0 ELSE n - 1 + 1
  BY FS_Interval
<1> QED
  BY <1>1

\* A deque is as long as there are packets it mirrors.
LEMMA MirrorCount ==
    ASSUME NEW S, NEW hist \in Seq(S), NEW e, NEW chosen \in SUBSET Int,
           Mirrors(hist, e, chosen)
    PROVE  IsFiniteSet(chosen) /\ Cardinality(chosen) = Len(hist)
<1>1. PICK at \in [1..Len(hist) -> chosen] :
          /\ \A i, j \in 1..Len(hist) : i < j => at[i] < at[j]
          /\ \A c \in chosen : \E i \in 1..Len(hist) : at[i] = c
  BY DEF Mirrors
<1>2. Len(hist) \in Nat
  OBVIOUS
<1>3. ASSUME NEW i \in 1..Len(hist), NEW j \in 1..Len(hist), at[i] = at[j]
      PROVE  i = j
  <2>1. at[i] \in Int
    OBVIOUS
  <2>2. ~ (i < j) /\ ~ (j < i)
    BY <1>1, <1>3, <2>1
  <2> QED
    BY <2>2
<1>4. at \in Bijection(1..Len(hist), chosen)
  BY <1>1, <1>3 DEF Bijection, Injection, Surjection, IsInjective
<1>5. IsFiniteSet(1..Len(hist)) /\ Cardinality(1..Len(hist)) = Len(hist)
  BY <1>2, CountOneTo
<1> QED
  BY <1>4, <1>5, FS_Bijection DEF ExistsBijection

\* hist.append(entry).
LEMMA MirrorAppended ==
    ASSUME NEW S, NEW hist \in Seq(S), NEW e, NEW n \in Nat, NEW chosen \in SUBSET (1..n),
           Mirrors(hist, e, chosen), e[n + 1] \in S
    PROVE  Mirrors(Append(hist, e[n + 1]), e, chosen \cup {n + 1})
<1> DEFINE m == Len(hist)
<1> DEFINE new == Append(hist, e[n + 1])
<1>1. PICK at \in [1..m -> chosen] :
          /\ \A i, j \in 1..m : i < j => at[i] < at[j]
          /\ \A c \in chosen : \E i \in 1..m : at[i] = c
          /\ \A i \in 1..m : hist[i] = e[at[i]]
  BY DEF Mirrors
<1> DEFINE on == [i \in 1..(m + 1) |-> IF i = m + 1 THEN n + 1 ELSE at[i]]
<1>2. /\ m \in Nat /\ Len(new) = m + 1
      /\ new[m + 1] = e[n + 1]
      /\ \A i \in 1..m : new[i] = hist[i]
  OBVIOUS
<1>3. \A i \in 1..m : i \in 1..(m + 1) /\ i # m + 1 /\ on[i] = at[i] /\ at[i] \in 1..n
  <2>1. \A i \in 1..m : at[i] \in chosen
    OBVIOUS
  <2>2. \A i \in 1..m : i \in 1..(m + 1) /\ i # m + 1
    BY <1>2
  <2>3. \A i \in 1..m : on[i] = at[i]
    BY <2>2
  <2> HIDE DEF on
  <2> QED
    BY <2>1, <2>2, <2>3
<1>4. on[m + 1] = n + 1
  BY <1>2
<1>5. on \in [1..(m + 1) -> chosen \cup {n + 1}]
  BY <1>3, <1>4
<1>6. ASSUME NEW i \in 1..(m + 1), NEW j \in 1..(m + 1), i < j
      PROVE  on[i] < on[j]
  <2>1. i \in 1..m
    BY <1>2, <1>6
  <2>2. CASE j = m + 1
    <3>1. on[i] \in 1..n /\ on[j] = n + 1
      <4> HIDE DEF on
      <4> QED
        BY <1>3, <1>4, <2>1, <2>2
    <3> HIDE DEF on
    <3> QED
      BY <3>1
  <2>3. CASE j # m + 1
    <3> HIDE DEF on, m
    <3>1. j \in 1..m
      BY <1>2, <2>3
    <3>2. on[i] = at[i] /\ on[j] = at[j]
      BY <1>3, <2>1, <3>1
    <3>3. at[i] < at[j]
      BY <1>1, <1>6, <2>1, <3>1
    <3> QED
      BY <3>2, <3>3
  <2> QED
    BY <2>2, <2>3
<1>7. \A c \in chosen \cup {n + 1} : \E i \in 1..(m + 1) : on[i] = c
  <2>1. \A c \in chosen : \E i \in 1..(m + 1) : on[i] = c
    BY <1>1, <1>3
  <2>2. m + 1 \in 1..(m + 1)
    BY <1>2
  <2> QED
    BY <1>4, <2>1, <2>2
<1>8. \A i \in 1..(m + 1) : new[i] = e[on[i]]
  <2>1. \A i \in 1..m : new[i] = e[on[i]]
    BY <1>1, <1>2, <1>3
  <2>2. \A i \in 1..(m + 1) : i \in 1..m \/ i = m + 1
    BY <1>2
  <2> HIDE DEF new, on
  <2> QED
    BY <1>2, <1>4, <2>1, <2>2
<1> HIDE DEF new, on, m
<1> QED
  BY <1>2, <1>5, <1>6, <1>7, <1>8 DEF Mirrors, new

\* A deque in the order of time is pruned to what is young enough.
LEMMA PrunedIs ==
    ASSUME NEW S, NEW hist \in Seq(S), NEW cutoff \in Int,
           \A i \in 1..Len(hist) : hist[i].ts \in Nat,
           \A i, j \in 1..Len(hist) : i < j => hist[i].ts <= hist[j].ts
    PROVE  \E k \in 0..Len(hist) :
              /\ Pruned(hist, cutoff) = SubSeq(hist, k + 1, Len(hist))
              /\ \A i \in 1..Len(hist) : hist[i].ts < cutoff <=> i <= k
<1> DEFINE m == Len(hist)
<1> DEFINE stale == {i \in DOMAIN hist : \A j \in 1..i : hist[j].ts < cutoff}
<1>1. m \in Nat /\ DOMAIN hist = 1..m
  OBVIOUS
<1>2. \A i \in 1..m : i \in stale <=> hist[i].ts < cutoff
  <2>1. ASSUME NEW i \in 1..m, hist[i].ts < cutoff, NEW j \in 1..i
        PROVE  hist[j].ts < cutoff
    <3>1. j \in 1..m /\ (j < i \/ j = i)
      BY <1>1
    <3>2. hist[j].ts \in Nat /\ hist[i].ts \in Nat /\ hist[j].ts <= hist[i].ts
      BY <3>1
    <3> QED
      BY <2>1, <3>2
  <2>2. \A i \in 1..m : i \in 1..i
    BY <1>1
  <2> QED
    BY <1>1, <2>1, <2>2
<1>3. \E k \in 0..m : stale = 1..k
  <2>1. CASE stale = {}
    <3>1. 1..0 = {} /\ 0 \in 0..m
      BY <1>1
    <3> QED
      BY <2>1, <3>1
  <2>2. CASE stale # {}
    <3>1. stale \in SUBSET Nat /\ \A i \in stale : i <= m
      BY <1>1
    <3> DEFINE k == Max(stale)
    <3>2. k \in stale /\ \A i \in stale : i <= k
      <4> HIDE DEF stale
      <4> QED
        BY <1>1, <2>2, <3>1, GreatestOf
    <3> HIDE DEF k
    <3>3. k \in 1..m
      BY <1>1, <3>2
    <3>4. ASSUME NEW i \in 1..k
          PROVE  i \in stale
      <4>1. i \in 1..m /\ (i < k \/ i = k)
        BY <3>3
      <4>2. hist[i].ts \in Nat /\ hist[k].ts \in Nat /\ hist[i].ts <= hist[k].ts
        BY <3>3, <4>1
      <4>3. hist[k].ts < cutoff
        BY <1>2, <3>2, <3>3
      <4>4. hist[i].ts < cutoff
        BY <4>2, <4>3
      <4> QED
        BY <1>2, <4>1, <4>4
    <3>5. \A i \in stale : i \in 1..k
      BY <1>1, <3>2, <3>3
    <3>6. stale = 1..k
      BY <3>4, <3>5
    <3> QED
      BY <1>1, <3>3, <3>6
  <2> QED
    BY <2>1, <2>2
<1>4. PICK k \in 0..m : stale = 1..k
  BY <1>3
<1>5. Cardinality(stale) = k
  <2>1. k \in Nat /\ 0 \in Int
    BY <1>1
  <2> QED
    BY <1>4, <2>1, CountOneTo
<1>6. Pruned(hist, cutoff) = SubSeq(hist, k + 1, m)
  BY <1>5 DEF Pruned
<1>7. \A i \in 1..m : hist[i].ts < cutoff <=> i <= k
  <2>1. \A i \in 1..m : i \in 1..k <=> i <= k
    BY <1>1
  <2> HIDE DEF stale
  <2> QED
    BY <1>2, <1>4, <2>1
<1> QED
  BY <1>6, <1>7

\* while hist and hist[0] < cutoff: hist.popleft(), for entries in the order of time.
LEMMA MirrorPruned ==
    ASSUME NEW S, NEW hist \in Seq(S), NEW e, NEW n \in Nat, NEW chosen \in SUBSET (1..n),
           Mirrors(hist, e, chosen), NEW cutoff \in Int,
           \A i \in 1..n : e[i].ts \in Nat,
           \A i, j \in 1..n : i < j => e[i].ts <= e[j].ts,
           NEW young, young = {i \in chosen : e[i].ts >= cutoff}
    PROVE  Pruned(hist, cutoff) \in Seq(S) /\ Mirrors(Pruned(hist, cutoff), e, young)
<1> DEFINE m == Len(hist)
<1>1. PICK at \in [1..m -> chosen] :
          /\ \A i, j \in 1..m : i < j => at[i] < at[j]
          /\ \A c \in chosen : \E i \in 1..m : at[i] = c
          /\ \A i \in 1..m : hist[i] = e[at[i]]
  BY DEF Mirrors
<1>2. m \in Nat /\ \A i \in 1..m : at[i] \in 1..n /\ at[i] \in chosen
  <2>1. m \in Nat
    OBVIOUS
  <2>2. \A i \in 1..m : at[i] \in chosen
    OBVIOUS
  <2>3. \A c \in chosen : c \in 1..n
    OBVIOUS
  <2> QED
    BY <2>1, <2>2, <2>3
<1>3. \A i \in 1..m : hist[i].ts \in Nat
  BY <1>1, <1>2
<1>4. \A i, j \in 1..m : i < j => hist[i].ts <= hist[j].ts
  BY <1>1, <1>2
<1>5. PICK k \in 0..m : /\ Pruned(hist, cutoff) = SubSeq(hist, k + 1, m)
                        /\ \A i \in 1..m : hist[i].ts < cutoff <=> i <= k
  BY <1>3, <1>4, PrunedIs
<1> DEFINE new == SubSeq(hist, k + 1, m)
<1>6. /\ new \in Seq(S) /\ Len(new) = m - k
      /\ \A i \in 1..(m - k) : new[i] = hist[i + k]
  <2>1. \A i \in (k + 1)..m : hist[i] \in S
    BY <1>2
  <2>2. /\ new \in Seq(S)
        /\ Len(new) = IF k + 1 <= m THEN m - (k + 1) + 1 ELSE 0
    BY <1>2, <2>1, SubSeqProperties
  <2>3. Len(new) = m - k
    BY <1>2, <2>2
  <2>4. \A i \in 1..(m - k) : new[i] = hist[i + k]
    BY <1>2
  <2> QED
    BY <2>2, <2>3, <2>4
<1> DEFINE on == [i \in 1..(m - k) |-> at[i + k]]
<1>7. \A i \in 1..(m - k) : /\ i + k \in 1..m /\ on[i] = at[i + k] /\ i + k > k
  BY <1>2
<1>8. \A i \in 1..m : i > k <=> at[i] \in young
  <2>1. \A i \in 1..m : /\ hist[i].ts < cutoff <=> i <= k
                        /\ hist[i].ts = e[at[i]].ts /\ e[at[i]].ts \in Nat /\ at[i] \in chosen
    BY <1>1, <1>2, <1>5
  <2>2. ASSUME NEW i \in 1..m PROVE i > k <=> at[i] \in young
    <3>1. e[at[i]].ts >= cutoff <=> ~ (e[at[i]].ts < cutoff)
      BY <2>1
    <3> QED
      BY <2>1, <3>1
  <2> QED
    BY <2>2
<1>9. on \in [1..(m - k) -> young]
  BY <1>7, <1>8
<1>10. ASSUME NEW i \in 1..(m - k), NEW j \in 1..(m - k), i < j
       PROVE  on[i] < on[j]
  <2>1. PICK x \in 1..m, y \in 1..m : x = i + k /\ y = j + k /\ x < y
    BY <1>2, <1>7, <1>10
  <2>2. at[x] < at[y]
    BY <1>1, <2>1
  <2> QED
    BY <1>7, <2>1, <2>2
<1>11. ASSUME NEW c \in young
       PROVE  \E i \in 1..(m - k) : on[i] = c
  <2>1. PICK x \in 1..m : at[x] = c
    BY <1>1
  <2>2. x > k
    BY <1>8, <2>1
  <2>3. PICK i \in 1..(m - k) : x = i + k
    <3>1. x - k \in 1..(m - k) /\ x = (x - k) + k
      BY <1>2, <2>2
    <3> QED
      BY <3>1
  <2> QED
    BY <1>7, <2>1, <2>3
<1>12. ASSUME NEW i \in 1..(m - k)
       PROVE  new[i] = e[on[i]]
  <2>1. PICK x \in 1..m : x = i + k
    BY <1>7
  <2>2. hist[x] = e[at[x]]
    BY <1>1
  <2>3. new[i] = hist[x] /\ on[i] = at[x]
    BY <1>6, <1>7, <2>1
  <2> QED
    BY <2>2, <2>3
<1> HIDE DEF new, on, m
<1>13. Mirrors(new, e, young)
  <2>1. Len(new) = m - k
    BY <1>6
  <2>2. \E at2 \in [1..(m - k) -> young] :
            /\ \A i, j \in 1..(m - k) : i < j => at2[i] < at2[j]
            /\ \A c \in young : \E i \in 1..(m - k) : at2[i] = c
            /\ \A i \in 1..(m - k) : new[i] = e[at2[i]]
    BY <1>9, <1>10, <1>11, <1>12
  <2> QED
    BY <2>1, <2>2 DEF Mirrors
<1> QED
  BY <1>5, <1>6, <1>13 DEF new

\* What is left of the picked entries once those from before some moment are gone,
\* a moment that is not after latest.
Kept(hist, e, picked, latest) ==
    \E cut \in Int : cut <= latest /\ Mirrors(hist, e, {i \in picked : e[i].ts >= cut})

\* The deques of all keys, each with the entries picked for its key.
Windows(H, K, S, e, picked, latest) ==
    H \in [K -> Seq(S)] /\ \A k \in K : Kept(H[k], e, picked[k], latest)

\* Entries in the order of time.
Ordered(e, n, S) ==
    /\ \A i \in 1..n : e[i] \in S /\ e[i].ts \in Nat
    /\ \A i, j \in 1..n : i < j => e[i].ts <= e[j].ts

\* A deque that is left alone lags behind the clock, no more.
LEMMA KeptStays ==
    ASSUME NEW hist, NEW e, NEW f, NEW picked, NEW latest \in Int, NEW later \in Int,
           Kept(hist, e, picked, latest), latest <= later,
           \A i \in picked : e[i] = f[i]
    PROVE  Kept(hist, f, picked, later)
<1>1. PICK cut \in Int : cut <= latest /\ Mirrors(hist, e, {i \in picked : e[i].ts >= cut})
  BY DEF Kept
<1>2. {i \in picked : e[i].ts >= cut} = {i \in picked : f[i].ts >= cut}
  OBVIOUS
<1> DEFINE old == {i \in picked : f[i].ts >= cut}
<1>3. Mirrors(hist, e, old)
  BY <1>1, <1>2
<1>4. \A i \in old : e[i] = f[i]
  OBVIOUS
<1>5. Mirrors(hist, f, old)
  <2> HIDE DEF old
  <2> QED
    BY <1>3, <1>4, MirrorSame
<1>6. cut <= later
  BY <1>1
<1> QED
  BY <1>5, <1>6 DEF Kept

\* A deque that is pushed to and pruned is exact.
LEMMA KeptMoves ==
    ASSUME NEW S, NEW n \in Nat, NEW e, NEW f, Ordered(f, n + 1, S),
           \A i \in 1..n : e[i] = f[i],
           NEW hist \in Seq(S), NEW picked \in SUBSET (1..n), NEW latest \in Int,
           Kept(hist, e, picked, latest), NEW cutoff \in Int,
           latest <= cutoff, cutoff <= f[n + 1].ts, NEW fits \in BOOLEAN,
           NEW now, now = IF fits THEN picked \cup {n + 1} ELSE picked,
           NEW young, young = {i \in now : f[i].ts >= cutoff}
    PROVE  LET new == Pruned(AppendIf(fits, hist, f[n + 1]), cutoff)
           IN  new \in Seq(S) /\ Mirrors(new, f, young)
<1> DEFINE more == AppendIf(fits, hist, f[n + 1])
<1>1. n + 1 \in 1..(n + 1) /\ \A i \in 1..n : i \in 1..(n + 1)
  OBVIOUS
<1>2. /\ f[n + 1] \in S /\ f[n + 1].ts \in Nat
      /\ \A i \in 1..(n + 1) : f[i].ts \in Nat
      /\ \A i, j \in 1..(n + 1) : i < j => f[i].ts <= f[j].ts
  BY <1>1 DEF Ordered
<1>3. Kept(hist, f, picked, cutoff)
  BY KeptStays
<1>4. PICK cut \in Int : cut <= cutoff /\ Mirrors(hist, f, {i \in picked : f[i].ts >= cut})
  BY <1>3 DEF Kept
<1> DEFINE left(set) == {i \in set : f[i].ts >= cut}
<1>5. left(picked) \in SUBSET (1..n)
  OBVIOUS
<1>6. more \in Seq(S) /\ Mirrors(more, f, left(now))
  <2>1. CASE fits
    <3>1. Mirrors(Append(hist, f[n + 1]), f, left(picked) \cup {n + 1})
      <4> HIDE DEF left
      <4>1. Mirrors(hist, f, left(picked))
        BY <1>4 DEF left
      <4> QED
        BY <1>2, <1>5, <4>1, MirrorAppended
    <3>2. cut <= f[n + 1].ts
      BY <1>2, <1>4
    <3>3. left(picked) \cup {n + 1} = left(now)
      BY <2>1, <3>2
    <3>4. more = Append(hist, f[n + 1])
      BY <2>1 DEF AppendIf
    <3>5. more \in Seq(S)
      BY <1>2, <3>4
    <3> HIDE DEF left, more
    <3> QED
      BY <3>1, <3>3, <3>4, <3>5
  <2>2. CASE ~ fits
    BY <1>4, <2>2 DEF AppendIf
  <2> QED
    BY <2>1, <2>2
<1>7. left(now) \in SUBSET (1..(n + 1))
  BY <1>1
<1>8. {i \in left(now) : f[i].ts >= cutoff} = young
  <2>1. ASSUME NEW i \in now, f[i].ts >= cutoff PROVE f[i].ts >= cut
    <3>1. f[i].ts \in Nat
      BY <1>1, <1>2
    <3> QED
      BY <1>4, <2>1, <3>1
  <2> QED
    BY <2>1
<1>9. Pruned(more, cutoff) \in Seq(S) /\ Mirrors(Pruned(more, cutoff), f, young)
  <2>1. PICK N \in Nat : N = n + 1
    OBVIOUS
  <2>2. /\ \A i \in 1..N : f[i].ts \in Nat
        /\ \A i, j \in 1..N : i < j => f[i].ts <= f[j].ts
    BY <1>2, <2>1
  <2>3. PICK chosen \in SUBSET (1..N) : chosen = left(now)
    BY <1>7, <2>1
  <2> HIDE DEF left, more
  <2>4. Mirrors(more, f, chosen) /\ young = {i \in chosen : f[i].ts >= cutoff}
    BY <1>6, <1>8, <2>3
  <2> QED
    BY <1>6, <2>2, <2>4, MirrorPruned
<1> QED
  BY <1>9

\* The entries of the picked packets since the cutoff.
Recent(e, picked, cutoff) == {i \in picked : e[i].ts >= cutoff}

\* The packet after n is picked for key if it fits there, and for no other key,
PicksGrow(picked, now, K, n, key, fits) ==
    /\ n \in Nat /\ key \in K
    /\ picked \in [K -> SUBSET (1..n)] /\ now \in [K -> SUBSET (1..(n + 1))]
    /\ \A k \in K : now[k] = IF k = key /\ fits THEN picked[k] \cup {n + 1} ELSE picked[k]

\* and so the deque of key is pushed to and pruned.
Pushed(H, G, key, fits, entry, cutoff) ==
    G = [H EXCEPT ![key] = Pruned(AppendIf(fits, H[key], entry), cutoff)]

\* A packet that may add to the deque of key.
LEMMA WindowsMove ==
    ASSUME NEW S, NEW n \in Nat, NEW N, N = n + 1, NEW e, NEW f, Ordered(f, N, S),
           \A i \in 1..n : e[i] = f[i],
           NEW K, NEW H, NEW G, NEW picked, NEW now, NEW key, NEW fits \in BOOLEAN,
           PicksGrow(picked, now, K, n, key, fits),
           NEW latest \in Int, Windows(H, K, S, e, picked, latest),
           NEW cutoff \in Int, latest <= cutoff, NEW entry, entry = f[N], cutoff <= entry.ts,
           Pushed(H, G, key, fits, entry, cutoff)
    PROVE  Windows(G, K, S, f, now, cutoff) /\ Mirrors(G[key], f, Recent(f, now[key], cutoff))
<1>a. /\ key \in K
      /\ picked \in [K -> SUBSET (1..n)] /\ now \in [K -> SUBSET (1..(n + 1))]
      /\ \A k \in K : now[k] = IF k = key /\ fits THEN picked[k] \cup {n + 1} ELSE picked[k]
  BY DEF PicksGrow
<1>b. Ordered(f, n + 1, S) /\ entry = f[n + 1]
  OBVIOUS
<1>c. G = [H EXCEPT ![key] = Pruned(AppendIf(fits, H[key], f[n + 1]), cutoff)]
  BY <1>b DEF Pushed
<1> DEFINE young == Recent(f, now[key], cutoff)
<1> DEFINE new == Pruned(AppendIf(fits, H[key], f[n + 1]), cutoff)
<1>1. H \in [K -> Seq(S)] /\ \A k \in K : Kept(H[k], e, picked[k], latest)
  BY DEF Windows
<1>2. new \in Seq(S) /\ Mirrors(new, f, young)
  <2>1. H[key] \in Seq(S) /\ picked[key] \in SUBSET (1..n) /\ Kept(H[key], e, picked[key], latest)
    BY <1>1, <1>a
  <2>2. PICK hist \in Seq(S), old \in SUBSET (1..n) :
            hist = H[key] /\ old = picked[key] /\ Kept(hist, e, old, latest)
    BY <2>1
  <2>3. PICK set : set = now[key]
    OBVIOUS
  <2>4. set = (IF fits THEN old \cup {n + 1} ELSE old) /\ young = {i \in set : f[i].ts >= cutoff}
    BY <1>a, <2>2, <2>3 DEF Recent
  <2>5. /\ Pruned(AppendIf(fits, hist, f[n + 1]), cutoff) \in Seq(S)
        /\ Mirrors(Pruned(AppendIf(fits, hist, f[n + 1]), cutoff), f, young)
    BY <1>b, <2>2, <2>4, KeptMoves
  <2> QED
    BY <1>b, <2>2, <2>5
<1> HIDE DEF new
<1>3. G = [H EXCEPT ![key] = new]
  BY <1>c DEF new
<1>4. G \in [K -> Seq(S)] /\ G[key] = new /\ \A k \in K : k # key => G[k] = H[k]
  BY <1>1, <1>2, <1>3, <1>a
<1>5. Kept(G[key], f, now[key], cutoff)
  <2>1. cutoff <= cutoff
    OBVIOUS
  <2>2. Mirrors(G[key], f, {i \in now[key] : f[i].ts >= cutoff})
    BY <1>2, <1>4 DEF Recent
  <2> QED
    BY <2>1, <2>2 DEF Kept
<1>6. ASSUME NEW k \in K, k # key PROVE Kept(G[k], f, now[k], cutoff)
  <2>1. G[k] = H[k] /\ now[k] = picked[k] /\ picked[k] \in SUBSET (1..n)
    BY <1>4, <1>6, <1>a
  <2>2. Kept(H[k], e, picked[k], latest) /\ \A i \in picked[k] : e[i] = f[i]
    BY <1>1, <2>1
  <2>3. Kept(H[k], f, picked[k], cutoff)
    BY <2>2, KeptStays
  <2> QED
    BY <2>1, <2>3
<1> QED
  BY <1>2, <1>4, <1>5, <1>6 DEF Windows

\* A packet that none of the deques is for.
LEMMA WindowsStay ==
    ASSUME NEW S, NEW n \in Nat, NEW e, NEW f, \A i \in 1..n : e[i] = f[i],
           NEW K, NEW H, NEW picked \in [K -> SUBSET (1..n)], NEW now,
           \A k \in K : now[k] = picked[k],
           NEW latest \in Int, Windows(H, K, S, e, picked, latest),
           NEW later \in Int, latest <= later
    PROVE  Windows(H, K, S, f, now, later)
<1>1. H \in [K -> Seq(S)] /\ \A k \in K : Kept(H[k], e, picked[k], latest)
  BY DEF Windows
<1>2. ASSUME NEW k \in K PROVE Kept(H[k], f, now[k], later)
  <2>1. picked[k] \in SUBSET (1..n) /\ now[k] = picked[k]
    OBVIOUS
  <2>2. Kept(H[k], e, picked[k], latest) /\ \A i \in picked[k] : e[i] = f[i]
    BY <1>1, <2>1
  <2> QED
    BY <2>1, <2>2, KeptStays
<1> QED
  BY <1>1, <1>2 DEF Windows

-----------------------------------------------------------------------------
(* The log *)

Entry == [ts : Nat, pkt : Packets]

Timed ==
    /\ log \in Seq(Entry)
    /\ Len(log) <= MaxPackets
    /\ \A i, j \in 1..Len(log) : i < j => log[i].ts <= log[j].ts

\* The packet p comes in at ts.
Arrives(p, ts) ==
    /\ p \in Packets /\ ts \in Nat /\ Now <= ts
    /\ log' = Append(log, [ts |-> ts, pkt |-> p])
    /\ Len(log) < MaxPackets

\* It gets as far as decide(), or not.
Judges(whether) ==
    /\ judged \subseteq DOMAIN log
    /\ judged' = IF whether THEN judged \cup {Len(log) + 1} ELSE judged

\* The log has its types, and nothing in it is from the future.
LEMMA LogFacts ==
    ASSUME Timed
    PROVE  /\ Len(log) \in Nat /\ DOMAIN log = 1..Len(log)
           /\ \A i \in 1..Len(log) : log[i].ts \in Nat /\ log[i].pkt \in Packets
           /\ Now \in Nat
           /\ \A i \in 1..Len(log) : log[i].ts <= Now
<1>1. /\ Len(log) \in Nat /\ DOMAIN log = 1..Len(log)
      /\ \A i \in 1..Len(log) : log[i].ts \in Nat /\ log[i].pkt \in Packets
  <2>1. Len(log) \in Nat /\ log \in [1..Len(log) -> Entry]
    BY LenProperties DEF Timed
  <2>2. \A i \in 1..Len(log) : log[i] \in Entry
    BY <2>1
  <2> QED
    BY <2>1, <2>2 DEF Entry
<1>2. CASE log = <<>>
  BY <1>1, <1>2 DEF Now
<1>3. CASE log # <<>>
  <2>1. Len(log) \in 1..Len(log)
    BY <1>1, <1>3 DEF Timed
  <2>2. Now = log[Len(log)].ts
    BY <1>3 DEF Now
  <2>3. ASSUME NEW i \in 1..Len(log) PROVE log[i].ts <= Now
    <3>1. i < Len(log) \/ i = Len(log)
      <4>1. PICK m \in Nat : m = Len(log)
        BY <1>1
      <4>2. i \in 1..m
        BY <4>1
      <4>3. i < m \/ i = m
        BY <4>2
      <4> QED
        BY <4>1, <4>3
    <3>2. CASE i < Len(log)
      BY <2>1, <2>2, <3>2 DEF Timed
    <3>3. CASE i = Len(log)
      BY <1>1, <2>1, <2>2, <3>3
    <3> QED
      BY <3>1, <3>2, <3>3
  <2> QED
    BY <1>1, <2>1, <2>2, <2>3
<1> QED
  BY <1>2, <1>3

LogHasTypes == \A i \in 1..Len(log) : log[i].ts \in Nat /\ log[i].pkt \in Packets

\* The types of the log, for the log after a step too.
LEMMA LogTyped == Timed => LogHasTypes
BY LogFacts DEF LogHasTypes

\* The log with one more packet.
LEMMA LogGrows ==
    ASSUME Timed, NEW p, NEW ts, Arrives(p, ts)
    PROVE  /\ Len(log') = Len(log) + 1
           /\ DOMAIN log = 1..Len(log) /\ DOMAIN log' = 1..(Len(log) + 1)
           /\ \A i \in 1..Len(log) : log'[i] = log[i] /\ i \in 1..(Len(log) + 1)
           /\ \A i \in 1..(Len(log) + 1) : i \in 1..Len(log) \/ i = Len(log) + 1
           /\ log'[Len(log) + 1] = [ts |-> ts, pkt |-> p]
           /\ Len(log) + 1 \in 1..(Len(log) + 1) /\ Len(log) + 1 \notin 1..Len(log)
           /\ log' # <<>>
           /\ Now' = ts /\ Last' = p
           /\ Timed'
<1> DEFINE n == Len(log)
<1>1. /\ n \in Nat /\ DOMAIN log = 1..n
      /\ [ts |-> ts, pkt |-> p] \in Entry
  BY LogFacts DEF Arrives, Entry
<1>2. /\ \A i \in 1..n : i \in 1..(n + 1)
      /\ \A i \in 1..(n + 1) : i \in 1..n \/ i = n + 1
      /\ n + 1 \in 1..(n + 1) /\ n + 1 \notin 1..n
  BY <1>1
<1>3. /\ log' \in Seq(Entry)
      /\ Len(log') = n + 1 /\ DOMAIN log' = 1..(n + 1)
      /\ \A i \in 1..n : log'[i] = log[i]
      /\ log'[n + 1] = [ts |-> ts, pkt |-> p]
  BY <1>1 DEF Arrives, Timed
<1>4. log' # <<>> /\ Now' = ts /\ Last' = p
  <2>1. log' # <<>>
    BY <1>1, <1>3
  <2>2. log'[Len(log')] = [ts |-> ts, pkt |-> p]
    BY <1>3
  <2> QED
    BY <2>1, <2>2 DEF Now, Last
<1>5. ASSUME NEW i \in 1..(n + 1), NEW j \in 1..(n + 1), i < j
      PROVE  log'[i].ts <= log'[j].ts
  <2>1. i \in 1..n /\ log'[i] = log[i]
    BY <1>1, <1>3, <1>5
  <2>2. CASE j = n + 1
    <3>1. log'[j].ts = ts
      BY <1>3, <2>2
    <3>2. log[i].ts <= Now /\ log[i].ts \in Nat /\ Now \in Nat /\ Now <= ts /\ ts \in Nat
      BY <2>1, LogFacts DEF Arrives
    <3> QED
      BY <2>1, <3>1, <3>2
  <2>3. CASE j # n + 1
    <3>1. j \in 1..n /\ log'[j] = log[j]
      BY <1>1, <1>3, <2>3
    <3> QED
      BY <1>5, <2>1, <3>1 DEF Timed
  <2> QED
    BY <2>2, <2>3
<1>6. n + 1 <= MaxPackets
  BY <1>1, WindowsAssumption DEF Arrives
<1>7. Timed'
  BY <1>3, <1>5, <1>6 DEF Timed
<1> QED
  BY <1>1, <1>2, <1>3, <1>4, <1>7

-----------------------------------------------------------------------------
(* The deques of the tracker *)

\* What the packets of the log leave in a deque,
Stamps == [i \in DOMAIN log |-> [ts |-> log[i].ts]]
Ports == [i \in DOMAIN log |-> [ts |-> log[i].ts, port |-> log[i].pkt.dport]]
QueriesSeen == [i \in DOMAIN log |-> [ts |-> log[i].ts, label |-> log[i].pkt.query.label]]

Stamp == [ts : Nat]
PortEntry == [ts : Nat, port : {p.dport : p \in Packets}]
QueryEntry == [ts : Nat, label : {p.query.label : p \in Packets}]

\* and in which.
Scans == [s \in Srcs |-> {i \in DOMAIN log : log[i].pkt.src = s /\ ~ IsDns(log[i].pkt)}]
Syns == [s \in Srcs |-> {i \in DOMAIN log : log[i].pkt.src = s /\ IsBareSyn(log[i].pkt)}]
Attempts == [e \in Endpoints |->
    {i \in DOMAIN log : Endpoint(log[i].pkt) = e /\ IsBareSyn(log[i].pkt)}]
Icmps == [s \in Srcs |-> {i \in DOMAIN log : log[i].pkt.src = s /\ log[i].pkt.proto = "ICMP"}]
ZoneQueries == [z \in Zones |->
    {i \in DOMAIN log : i \in judged /\ IsQuery(log[i].pkt) /\ Zone(log[i].pkt) = z}]

ScanWindows == Windows(scanHistory, Srcs, PortEntry, Ports, Scans, Now - ScanWindow)
SynWindows == Windows(synHistory, Srcs, Stamp, Stamps, Syns, Now - SynWindow)
AttemptWindows == Windows(portAttempts, Endpoints, Stamp, Stamps, Attempts, Now - PortRepeatWindow)
IcmpWindows == Windows(icmpHistory, Srcs, Stamp, Stamps, Icmps, Now - IcmpWindow)
DnsWindows == Windows(dnsHistory, Zones, QueryEntry, QueriesSeen, ZoneQueries, Now - DnsWindow)

\* What the lemmas on windows ask of the log and of what it leaves in a deque.
LEMMA EntriesGrow ==
    ASSUME Timed, NEW p, NEW ts, Arrives(p, ts), NEW e, NEW f, NEW S,
           DOMAIN f = DOMAIN log',
           \A i \in 1..Len(log) : e[i] = f[i],
           \A i \in DOMAIN log' : f[i] \in S /\ f[i].ts = log'[i].ts
    PROVE  /\ Ordered(f, Len(log) + 1, S)
           /\ f[Len(log) + 1].ts = ts
<1>1. /\ DOMAIN log' = 1..(Len(log) + 1) /\ log'[Len(log) + 1] = [ts |-> ts, pkt |-> p]
      /\ Len(log') = Len(log) + 1 /\ Len(log) + 1 \in 1..(Len(log) + 1) /\ Timed'
  BY LogGrows
<1>2. \A i, j \in 1..(Len(log) + 1) : i < j => log'[i].ts <= log'[j].ts
  BY <1>1 DEF Timed
<1>3. \A i \in 1..(Len(log) + 1) : log'[i].ts \in Nat
  <2>1. Timed' => LogHasTypes'
    BY LogTyped, PTL
  <2> QED
    BY <1>1, <2>1 DEF LogHasTypes
<1>4. /\ \A i \in 1..(Len(log) + 1) : f[i] \in S /\ f[i].ts \in Nat
      /\ \A i, j \in 1..(Len(log) + 1) : i < j => f[i].ts <= f[j].ts
  BY <1>1, <1>2, <1>3
<1> QED
  BY <1>1, <1>4 DEF Ordered

\* The types of the log with one more packet.
LEMMA LaterLogFacts ==
    ASSUME Timed, NEW p, NEW ts, Arrives(p, ts)
    PROVE  \A i \in DOMAIN log' : log'[i].ts \in Nat /\ log'[i].pkt \in Packets
<1>1. Timed' => LogHasTypes'
  BY LogTyped, PTL
<1> QED
  BY <1>1, LogGrows DEF LogHasTypes

\* What the new packet leaves in the deques of timestamps,
LEMMA StampsGrow ==
    ASSUME Timed, NEW p, NEW ts, Arrives(p, ts)
    PROVE  /\ \A i \in 1..Len(log) : Stamps[i] = Stamps'[i]
           /\ Ordered(Stamps', Len(log) + 1, Stamp)
           /\ Stamps'[Len(log) + 1] = [ts |-> ts]
<1>1. /\ \A i \in 1..Len(log) : Stamps[i] = Stamps'[i]
      /\ Stamps'[Len(log) + 1] = [ts |-> ts]
  <2>1. ASSUME NEW i \in 1..Len(log) PROVE Stamps[i] = Stamps'[i]
    <3>1. i \in DOMAIN log /\ i \in DOMAIN log' /\ log'[i] = log[i]
      BY LogGrows
    <3> QED
      BY <3>1 DEF Stamps
  <2>2. /\ Len(log) + 1 \in DOMAIN log'
        /\ log'[Len(log) + 1] = [ts |-> ts, pkt |-> p]
    BY LogGrows
  <2>3. Stamps'[Len(log) + 1] = [ts |-> ts]
    BY <2>2 DEF Stamps
  <2> QED
    BY <2>1, <2>3
<1>2. ASSUME NEW i \in DOMAIN log'
      PROVE  Stamps'[i] \in Stamp /\ Stamps'[i].ts = log'[i].ts
  BY <1>2, LaterLogFacts DEF Stamps, Stamp
<1>3. DOMAIN Stamps' = DOMAIN log'
  BY DEF Stamps
<1>4. Ordered(Stamps', Len(log) + 1, Stamp)
  BY <1>1, <1>2, <1>3, EntriesGrow
<1> QED
  BY <1>1, <1>4

\* in that of scans,
LEMMA PortsGrow ==
    ASSUME Timed, NEW p, NEW ts, Arrives(p, ts)
    PROVE  /\ \A i \in 1..Len(log) : Ports[i] = Ports'[i]
           /\ Ordered(Ports', Len(log) + 1, PortEntry)
           /\ Ports'[Len(log) + 1] = [ts |-> ts, port |-> p.dport]
<1>1. /\ \A i \in 1..Len(log) : Ports[i] = Ports'[i]
      /\ Ports'[Len(log) + 1] = [ts |-> ts, port |-> p.dport]
  <2>1. ASSUME NEW i \in 1..Len(log) PROVE Ports[i] = Ports'[i]
    <3>1. i \in DOMAIN log /\ i \in DOMAIN log' /\ log'[i] = log[i]
      BY LogGrows
    <3> QED
      BY <3>1 DEF Ports
  <2>2. /\ Len(log) + 1 \in DOMAIN log'
        /\ log'[Len(log) + 1] = [ts |-> ts, pkt |-> p]
    BY LogGrows
  <2>3. Ports'[Len(log) + 1] = [ts |-> ts, port |-> p.dport]
    BY <2>2 DEF Ports
  <2> QED
    BY <2>1, <2>3
<1>2. ASSUME NEW i \in DOMAIN log'
      PROVE  Ports'[i] \in PortEntry /\ Ports'[i].ts = log'[i].ts
  BY <1>2, LaterLogFacts DEF Ports, PortEntry
<1>3. DOMAIN Ports' = DOMAIN log'
  BY DEF Ports
<1>4. Ordered(Ports', Len(log) + 1, PortEntry)
  BY <1>1, <1>2, <1>3, EntriesGrow
<1> QED
  BY <1>1, <1>4

\* and in that of queries.
LEMMA QueriesSeenGrow ==
    ASSUME Timed, NEW p, NEW ts, Arrives(p, ts)
    PROVE  /\ \A i \in 1..Len(log) : QueriesSeen[i] = QueriesSeen'[i]
           /\ Ordered(QueriesSeen', Len(log) + 1, QueryEntry)
           /\ QueriesSeen'[Len(log) + 1] = [ts |-> ts, label |-> p.query.label]
<1>1. /\ \A i \in 1..Len(log) : QueriesSeen[i] = QueriesSeen'[i]
      /\ QueriesSeen'[Len(log) + 1] = [ts |-> ts, label |-> p.query.label]
  <2>1. ASSUME NEW i \in 1..Len(log) PROVE QueriesSeen[i] = QueriesSeen'[i]
    <3>1. i \in DOMAIN log /\ i \in DOMAIN log' /\ log'[i] = log[i]
      BY LogGrows
    <3> QED
      BY <3>1 DEF QueriesSeen
  <2>2. /\ Len(log) + 1 \in DOMAIN log'
        /\ log'[Len(log) + 1] = [ts |-> ts, pkt |-> p]
    BY LogGrows
  <2>3. QueriesSeen'[Len(log) + 1] = [ts |-> ts, label |-> p.query.label]
    BY <2>2 DEF QueriesSeen
  <2> QED
    BY <2>1, <2>3
<1>2. ASSUME NEW i \in DOMAIN log'
      PROVE  QueriesSeen'[i] \in QueryEntry /\ QueriesSeen'[i].ts = log'[i].ts
  BY <1>2, LaterLogFacts DEF QueriesSeen, QueryEntry
<1>3. DOMAIN QueriesSeen' = DOMAIN log'
  BY DEF QueriesSeen
<1>4. Ordered(QueriesSeen', Len(log) + 1, QueryEntry)
  BY <1>1, <1>2, <1>3, EntriesGrow
<1> QED
  BY <1>1, <1>4

\* A set of packets before and after the new one.
LEMMA SetGrows ==
    ASSUME NEW n \in Nat, NEW old \in SUBSET (1..n), NEW new \in SUBSET (1..(n + 1)),
           \A i \in 1..n : i \in new <=> i \in old, NEW fits \in BOOLEAN, n + 1 \in new <=> fits
    PROVE  new = IF fits THEN old \cup {n + 1} ELSE old
<1>1. \A i \in 1..(n + 1) : i \in 1..n \/ i = n + 1
  OBVIOUS
<1>2. \A i \in old : i \in 1..n /\ i \in 1..(n + 1) /\ i # n + 1
  OBVIOUS
<1>3. CASE fits
  BY <1>1, <1>2, <1>3
<1>4. CASE ~ fits
  <2>1. \A i \in new : i \in old
    BY <1>1, <1>4
  <2> QED
    BY <1>2, <1>4, <2>1
<1> QED
  BY <1>3, <1>4

\* The new packet is a scan of its source unless it is DNS.
LEMMA ScansGrow ==
    ASSUME Timed, NEW p, NEW ts, Arrives(p, ts)
    PROVE  /\ Scans \in [Srcs -> SUBSET (1..Len(log))]
           /\ Scans' \in [Srcs -> SUBSET (1..(Len(log) + 1))]
           /\ \A k \in Srcs : Scans'[k] = IF k = p.src /\ ~ IsDns(p)
                                           THEN Scans[k] \cup {Len(log) + 1} ELSE Scans[k]
<1>1. /\ Scans \in [Srcs -> SUBSET (1..Len(log))]
      /\ Scans' \in [Srcs -> SUBSET (1..(Len(log) + 1))]
  BY LogGrows DEF Scans
<1>2. ASSUME NEW k \in Srcs
      PROVE  Scans'[k] = IF k = p.src /\ ~ IsDns(p) THEN Scans[k] \cup {Len(log) + 1} ELSE Scans[k]
  <2>1. \A i \in 1..Len(log) : i \in Scans'[k] <=> i \in Scans[k]
    BY LogGrows DEF Scans
  <2>2. Len(log) + 1 \in Scans'[k] <=> (k = p.src /\ ~ IsDns(p))
    <3>1. Len(log) + 1 \in DOMAIN log' /\ log'[Len(log) + 1] = [ts |-> ts, pkt |-> p]
      BY LogGrows
    <3>2. log'[Len(log) + 1].pkt = p
      BY <3>1
    <3> QED
      BY <3>1, <3>2 DEF Scans
  <2>3. Scans[k] \in SUBSET (1..Len(log)) /\ Scans'[k] \in SUBSET (1..(Len(log) + 1))
    BY <1>1
  <2>4. Len(log) \in Nat
    BY LogFacts
  <2> QED
    BY <2>1, <2>2, <2>3, <2>4, SetGrows
<1> QED
  BY <1>1, <1>2

\* It is a SYN of its source if its flags are SYN without ACK,
LEMMA SynsGrow ==
    ASSUME Timed, NEW p, NEW ts, Arrives(p, ts)
    PROVE  /\ Syns \in [Srcs -> SUBSET (1..Len(log))]
           /\ Syns' \in [Srcs -> SUBSET (1..(Len(log) + 1))]
           /\ \A k \in Srcs : Syns'[k] = IF k = p.src /\ IsBareSyn(p)
                                           THEN Syns[k] \cup {Len(log) + 1} ELSE Syns[k]
<1>1. /\ Syns \in [Srcs -> SUBSET (1..Len(log))]
      /\ Syns' \in [Srcs -> SUBSET (1..(Len(log) + 1))]
  BY LogGrows DEF Syns
<1>2. ASSUME NEW k \in Srcs
      PROVE  Syns'[k] = IF k = p.src /\ IsBareSyn(p) THEN Syns[k] \cup {Len(log) + 1} ELSE Syns[k]
  <2>1. \A i \in 1..Len(log) : i \in Syns'[k] <=> i \in Syns[k]
    BY LogGrows DEF Syns
  <2>2. Len(log) + 1 \in Syns'[k] <=> (k = p.src /\ IsBareSyn(p))
    <3>1. Len(log) + 1 \in DOMAIN log' /\ log'[Len(log) + 1] = [ts |-> ts, pkt |-> p]
      BY LogGrows
    <3>2. log'[Len(log) + 1].pkt = p
      BY <3>1
    <3> QED
      BY <3>1, <3>2 DEF Syns
  <2>3. Syns[k] \in SUBSET (1..Len(log)) /\ Syns'[k] \in SUBSET (1..(Len(log) + 1))
    BY <1>1
  <2>4. Len(log) \in Nat
    BY LogFacts
  <2> QED
    BY <2>1, <2>2, <2>3, <2>4, SetGrows
<1> QED
  BY <1>1, <1>2

\* and then an attempt at its endpoint.
LEMMA AttemptsGrow ==
    ASSUME Timed, NEW p, NEW ts, Arrives(p, ts)
    PROVE  /\ Attempts \in [Endpoints -> SUBSET (1..Len(log))]
           /\ Attempts' \in [Endpoints -> SUBSET (1..(Len(log) + 1))]
           /\ \A k \in Endpoints : Attempts'[k] = IF k = Endpoint(p) /\ IsBareSyn(p)
                                           THEN Attempts[k] \cup {Len(log) + 1} ELSE Attempts[k]
<1>1. /\ Attempts \in [Endpoints -> SUBSET (1..Len(log))]
      /\ Attempts' \in [Endpoints -> SUBSET (1..(Len(log) + 1))]
  BY LogGrows DEF Attempts
<1>2. ASSUME NEW k \in Endpoints
      PROVE  Attempts'[k] = IF k = Endpoint(p) /\ IsBareSyn(p) THEN Attempts[k] \cup {Len(log) + 1} ELSE Attempts[k]
  <2>1. \A i \in 1..Len(log) : i \in Attempts'[k] <=> i \in Attempts[k]
    BY LogGrows DEF Attempts
  <2>2. Len(log) + 1 \in Attempts'[k] <=> (k = Endpoint(p) /\ IsBareSyn(p))
    <3>1. Len(log) + 1 \in DOMAIN log' /\ log'[Len(log) + 1] = [ts |-> ts, pkt |-> p]
      BY LogGrows
    <3>2. log'[Len(log) + 1].pkt = p
      BY <3>1
    <3> QED
      BY <3>1, <3>2 DEF Attempts
  <2>3. Attempts[k] \in SUBSET (1..Len(log)) /\ Attempts'[k] \in SUBSET (1..(Len(log) + 1))
    BY <1>1
  <2>4. Len(log) \in Nat
    BY LogFacts
  <2> QED
    BY <2>1, <2>2, <2>3, <2>4, SetGrows
<1> QED
  BY <1>1, <1>2

\* An ICMP packet is one of its source.
LEMMA IcmpsGrow ==
    ASSUME Timed, NEW p, NEW ts, Arrives(p, ts)
    PROVE  /\ Icmps \in [Srcs -> SUBSET (1..Len(log))]
           /\ Icmps' \in [Srcs -> SUBSET (1..(Len(log) + 1))]
           /\ \A k \in Srcs : Icmps'[k] = IF k = p.src /\ p.proto = "ICMP"
                                           THEN Icmps[k] \cup {Len(log) + 1} ELSE Icmps[k]
<1>1. /\ Icmps \in [Srcs -> SUBSET (1..Len(log))]
      /\ Icmps' \in [Srcs -> SUBSET (1..(Len(log) + 1))]
  BY LogGrows DEF Icmps
<1>2. ASSUME NEW k \in Srcs
      PROVE  Icmps'[k] = IF k = p.src /\ p.proto = "ICMP" THEN Icmps[k] \cup {Len(log) + 1} ELSE Icmps[k]
  <2>1. \A i \in 1..Len(log) : i \in Icmps'[k] <=> i \in Icmps[k]
    BY LogGrows DEF Icmps
  <2>2. Len(log) + 1 \in Icmps'[k] <=> (k = p.src /\ p.proto = "ICMP")
    <3>1. Len(log) + 1 \in DOMAIN log' /\ log'[Len(log) + 1] = [ts |-> ts, pkt |-> p]
      BY LogGrows
    <3>2. log'[Len(log) + 1].pkt = p
      BY <3>1
    <3> QED
      BY <3>1, <3>2 DEF Icmps
  <2>3. Icmps[k] \in SUBSET (1..Len(log)) /\ Icmps'[k] \in SUBSET (1..(Len(log) + 1))
    BY <1>1
  <2>4. Len(log) \in Nat
    BY LogFacts
  <2> QED
    BY <2>1, <2>2, <2>3, <2>4, SetGrows
<1> QED
  BY <1>1, <1>2

\* A query is one of its source for its zone, if it was judged.
LEMMA ZoneQueriesGrow ==
    ASSUME Timed, NEW p, NEW ts, Arrives(p, ts), NEW whether \in BOOLEAN, Judges(whether)
    PROVE  /\ ZoneQueries \in [Zones -> SUBSET (1..Len(log))]
           /\ ZoneQueries' \in [Zones -> SUBSET (1..(Len(log) + 1))]
           /\ \A k \in Zones : ZoneQueries'[k] = IF k = Zone(p) /\ IsQuery(p) /\ whether
                                           THEN ZoneQueries[k] \cup {Len(log) + 1} ELSE ZoneQueries[k]
<1>1. /\ ZoneQueries \in [Zones -> SUBSET (1..Len(log))]
      /\ ZoneQueries' \in [Zones -> SUBSET (1..(Len(log) + 1))]
  BY LogGrows DEF ZoneQueries
<1>2. ASSUME NEW k \in Zones
      PROVE  ZoneQueries'[k] = IF k = Zone(p) /\ IsQuery(p) /\ whether THEN ZoneQueries[k] \cup {Len(log) + 1} ELSE ZoneQueries[k]
  <2>1. \A i \in 1..Len(log) : i \in ZoneQueries'[k] <=> i \in ZoneQueries[k]
    <3>1. \A i \in 1..Len(log) : i \in judged' <=> i \in judged
      BY LogGrows DEF Judges
    <3> QED
      BY <3>1, LogGrows DEF ZoneQueries
  <2>2. Len(log) + 1 \in ZoneQueries'[k] <=> (k = Zone(p) /\ IsQuery(p) /\ whether)
    <3>1. Len(log) + 1 \in DOMAIN log' /\ log'[Len(log) + 1] = [ts |-> ts, pkt |-> p]
      BY LogGrows
    <3>2. log'[Len(log) + 1].pkt = p
      BY <3>1
    <3>3. Len(log) + 1 \in judged' <=> whether
      BY LogGrows DEF Judges
    <3> QED
      BY <3>1, <3>2, <3>3 DEF ZoneQueries
  <2>3. ZoneQueries[k] \in SUBSET (1..Len(log)) /\ ZoneQueries'[k] \in SUBSET (1..(Len(log) + 1))
    BY <1>1
  <2>4. Len(log) \in Nat
    BY LogFacts
  <2> QED
    BY <2>1, <2>2, <2>3, <2>4, SetGrows
<1> QED
  BY <1>1, <1>2

\* update() on the deques of scans,
LEMMA ScanWindowsMove ==
    ASSUME Timed, NEW p, NEW ts, Arrives(p, ts), ScanWindows,
           scanHistory' = [scanHistory EXCEPT ![p.src] =
               Pruned(AppendIf(~ IsDns(p), scanHistory[p.src], [ts |-> ts, port |-> p.dport]), ts - ScanWindow)]
    PROVE  /\ ScanWindows'
           /\ Mirrors(scanHistory'[p.src], Ports',
                      Recent(Ports', Scans'[p.src], ts - ScanWindow))
<1> DEFINE n == Len(log)
<1>1. /\ n \in Nat /\ p.src \in Srcs
      /\ Now - ScanWindow \in Int /\ ts - ScanWindow \in Int
      /\ Now - ScanWindow <= ts - ScanWindow /\ ts - ScanWindow <= ts
  BY LogFacts, WindowsAssumption DEF Arrives, Srcs
<1>3. /\ \A i \in 1..n : Ports[i] = Ports'[i]
      /\ Ordered(Ports', n + 1, PortEntry)
      /\ Ports'[n + 1] = [ts |-> ts, port |-> p.dport]
  BY PortsGrow
<1>4. PICK fits \in BOOLEAN : fits = (~ IsDns(p))
  BY DEF IsDns
<1>5. PicksGrow(Scans, Scans', Srcs, n, p.src, fits)
  BY <1>1, <1>4, ScansGrow DEF PicksGrow
<1>6. PICK N, entry : N = n + 1 /\ entry = Ports'[N]
  OBVIOUS
<1>7. PICK latest \in Int, cutoff \in Int : latest = Now - ScanWindow /\ cutoff = ts - ScanWindow
  BY <1>1
<1>8. Pushed(scanHistory, scanHistory', p.src, fits, entry, cutoff)
  <2>1. entry = [ts |-> ts, port |-> p.dport]
    BY <1>3, <1>6
  <2>2. AppendIf(~ IsDns(p), scanHistory[p.src], [ts |-> ts, port |-> p.dport]) = AppendIf(fits, scanHistory[p.src], entry)
    BY <1>4, <2>1 DEF AppendIf
  <2> QED
    BY <1>7, <2>2 DEF Pushed
<1>9. /\ Windows(scanHistory, Srcs, PortEntry, Ports, Scans, latest)
      /\ Ordered(Ports', N, PortEntry)
      /\ latest <= cutoff /\ cutoff <= entry.ts
  BY <1>1, <1>3, <1>6, <1>7 DEF ScanWindows
<1> HIDE DEF n
<1>10. /\ Windows(scanHistory', Srcs, PortEntry, Ports', Scans', cutoff)
       /\ Mirrors(scanHistory'[p.src], Ports', Recent(Ports', Scans'[p.src], cutoff))
  <2>1. PICK e, f, H, G, picked, now, key, K, S :
            /\ e = Ports /\ f = Ports' /\ H = scanHistory /\ G = scanHistory'
            /\ picked = Scans /\ now = Scans' /\ key = p.src /\ K = Srcs /\ S = PortEntry
    OBVIOUS
  <2>2. /\ n \in Nat /\ N = n + 1 /\ Ordered(f, N, S) /\ entry = f[N]
        /\ \A i \in 1..n : e[i] = f[i]
    BY <1>1, <1>3, <1>6, <1>9, <2>1
  <2>3. /\ PicksGrow(picked, now, K, n, key, fits)
        /\ Windows(H, K, S, e, picked, latest)
        /\ Pushed(H, G, key, fits, entry, cutoff)
        /\ latest <= cutoff /\ cutoff <= entry.ts
    BY <1>5, <1>8, <1>9, <2>1
  <2>4. Windows(G, K, S, f, now, cutoff) /\ Mirrors(G[key], f, Recent(f, now[key], cutoff))
    BY ONLY <2>2, <2>3, fits \in BOOLEAN, latest \in Int, cutoff \in Int, WindowsMove
  <2> QED
    BY <2>1, <2>4
<1>11. Now' = ts
  BY LogGrows
<1> QED
  BY <1>7, <1>10, <1>11 DEF ScanWindows

\* on those of SYNs,
LEMMA SynWindowsMove ==
    ASSUME Timed, NEW p, NEW ts, Arrives(p, ts), SynWindows,
           synHistory' = [synHistory EXCEPT ![p.src] =
               Pruned(AppendIf(IsBareSyn(p), synHistory[p.src], [ts |-> ts]), ts - SynWindow)]
    PROVE  /\ SynWindows'
           /\ Mirrors(synHistory'[p.src], Stamps',
                      Recent(Stamps', Syns'[p.src], ts - SynWindow))
<1> DEFINE n == Len(log)
<1>1. /\ n \in Nat /\ p.src \in Srcs
      /\ Now - SynWindow \in Int /\ ts - SynWindow \in Int
      /\ Now - SynWindow <= ts - SynWindow /\ ts - SynWindow <= ts
  BY LogFacts, WindowsAssumption DEF Arrives, Srcs
<1>3. /\ \A i \in 1..n : Stamps[i] = Stamps'[i]
      /\ Ordered(Stamps', n + 1, Stamp)
      /\ Stamps'[n + 1] = [ts |-> ts]
  BY StampsGrow
<1>4. PICK fits \in BOOLEAN : fits = (IsBareSyn(p))
  BY DEF IsBareSyn
<1>5. PicksGrow(Syns, Syns', Srcs, n, p.src, fits)
  BY <1>1, <1>4, SynsGrow DEF PicksGrow
<1>6. PICK N, entry : N = n + 1 /\ entry = Stamps'[N]
  OBVIOUS
<1>7. PICK latest \in Int, cutoff \in Int : latest = Now - SynWindow /\ cutoff = ts - SynWindow
  BY <1>1
<1>8. Pushed(synHistory, synHistory', p.src, fits, entry, cutoff)
  <2>1. entry = [ts |-> ts]
    BY <1>3, <1>6
  <2>2. AppendIf(IsBareSyn(p), synHistory[p.src], [ts |-> ts]) = AppendIf(fits, synHistory[p.src], entry)
    BY <1>4, <2>1 DEF AppendIf
  <2> QED
    BY <1>7, <2>2 DEF Pushed
<1>9. /\ Windows(synHistory, Srcs, Stamp, Stamps, Syns, latest)
      /\ Ordered(Stamps', N, Stamp)
      /\ latest <= cutoff /\ cutoff <= entry.ts
  BY <1>1, <1>3, <1>6, <1>7 DEF SynWindows
<1> HIDE DEF n
<1>10. /\ Windows(synHistory', Srcs, Stamp, Stamps', Syns', cutoff)
       /\ Mirrors(synHistory'[p.src], Stamps', Recent(Stamps', Syns'[p.src], cutoff))
  <2>1. PICK e, f, H, G, picked, now, key, K, S :
            /\ e = Stamps /\ f = Stamps' /\ H = synHistory /\ G = synHistory'
            /\ picked = Syns /\ now = Syns' /\ key = p.src /\ K = Srcs /\ S = Stamp
    OBVIOUS
  <2>2. /\ n \in Nat /\ N = n + 1 /\ Ordered(f, N, S) /\ entry = f[N]
        /\ \A i \in 1..n : e[i] = f[i]
    BY <1>1, <1>3, <1>6, <1>9, <2>1
  <2>3. /\ PicksGrow(picked, now, K, n, key, fits)
        /\ Windows(H, K, S, e, picked, latest)
        /\ Pushed(H, G, key, fits, entry, cutoff)
        /\ latest <= cutoff /\ cutoff <= entry.ts
    BY <1>5, <1>8, <1>9, <2>1
  <2>4. Windows(G, K, S, f, now, cutoff) /\ Mirrors(G[key], f, Recent(f, now[key], cutoff))
    BY ONLY <2>2, <2>3, fits \in BOOLEAN, latest \in Int, cutoff \in Int, WindowsMove
  <2> QED
    BY <2>1, <2>4
<1>11. Now' = ts
  BY LogGrows
<1> QED
  BY <1>7, <1>10, <1>11 DEF SynWindows

\* on those of attempts,
LEMMA AttemptWindowsMove ==
    ASSUME Timed, NEW p, NEW ts, Arrives(p, ts), AttemptWindows,
           portAttempts' = [portAttempts EXCEPT ![Endpoint(p)] =
               Pruned(AppendIf(IsBareSyn(p), portAttempts[Endpoint(p)], [ts |-> ts]), ts - PortRepeatWindow)]
    PROVE  /\ AttemptWindows'
           /\ Mirrors(portAttempts'[Endpoint(p)], Stamps',
                      Recent(Stamps', Attempts'[Endpoint(p)], ts - PortRepeatWindow))
<1> DEFINE n == Len(log)
<1>1. /\ n \in Nat /\ Endpoint(p) \in Endpoints
      /\ Now - PortRepeatWindow \in Int /\ ts - PortRepeatWindow \in Int
      /\ Now - PortRepeatWindow <= ts - PortRepeatWindow /\ ts - PortRepeatWindow <= ts
  BY LogFacts, WindowsAssumption DEF Arrives, Endpoints
<1>3. /\ \A i \in 1..n : Stamps[i] = Stamps'[i]
      /\ Ordered(Stamps', n + 1, Stamp)
      /\ Stamps'[n + 1] = [ts |-> ts]
  BY StampsGrow
<1>4. PICK fits \in BOOLEAN : fits = (IsBareSyn(p))
  BY DEF IsBareSyn
<1>5. PicksGrow(Attempts, Attempts', Endpoints, n, Endpoint(p), fits)
  BY <1>1, <1>4, AttemptsGrow DEF PicksGrow
<1>6. PICK N, entry : N = n + 1 /\ entry = Stamps'[N]
  OBVIOUS
<1>7. PICK latest \in Int, cutoff \in Int : latest = Now - PortRepeatWindow /\ cutoff = ts - PortRepeatWindow
  BY <1>1
<1>8. Pushed(portAttempts, portAttempts', Endpoint(p), fits, entry, cutoff)
  <2>1. entry = [ts |-> ts]
    BY <1>3, <1>6
  <2>2. AppendIf(IsBareSyn(p), portAttempts[Endpoint(p)], [ts |-> ts]) = AppendIf(fits, portAttempts[Endpoint(p)], entry)
    BY <1>4, <2>1 DEF AppendIf
  <2> QED
    BY <1>7, <2>2 DEF Pushed
<1>9. /\ Windows(portAttempts, Endpoints, Stamp, Stamps, Attempts, latest)
      /\ Ordered(Stamps', N, Stamp)
      /\ latest <= cutoff /\ cutoff <= entry.ts
  BY <1>1, <1>3, <1>6, <1>7 DEF AttemptWindows
<1> HIDE DEF n
<1>10. /\ Windows(portAttempts', Endpoints, Stamp, Stamps', Attempts', cutoff)
       /\ Mirrors(portAttempts'[Endpoint(p)], Stamps', Recent(Stamps', Attempts'[Endpoint(p)], cutoff))
  <2>1. PICK e, f, H, G, picked, now, key, K, S :
            /\ e = Stamps /\ f = Stamps' /\ H = portAttempts /\ G = portAttempts'
            /\ picked = Attempts /\ now = Attempts' /\ key = Endpoint(p) /\ K = Endpoints /\ S = Stamp
    OBVIOUS
  <2>2. /\ n \in Nat /\ N = n + 1 /\ Ordered(f, N, S) /\ entry = f[N]
        /\ \A i \in 1..n : e[i] = f[i]
    BY <1>1, <1>3, <1>6, <1>9, <2>1
  <2>3. /\ PicksGrow(picked, now, K, n, key, fits)
        /\ Windows(H, K, S, e, picked, latest)
        /\ Pushed(H, G, key, fits, entry, cutoff)
        /\ latest <= cutoff /\ cutoff <= entry.ts
    BY <1>5, <1>8, <1>9, <2>1
  <2>4. Windows(G, K, S, f, now, cutoff) /\ Mirrors(G[key], f, Recent(f, now[key], cutoff))
    BY ONLY <2>2, <2>3, fits \in BOOLEAN, latest \in Int, cutoff \in Int, WindowsMove
  <2> QED
    BY <2>1, <2>4
<1>11. Now' = ts
  BY LogGrows
<1> QED
  BY <1>7, <1>10, <1>11 DEF AttemptWindows

\* and on those of ICMP packets,
LEMMA IcmpWindowsMove ==
    ASSUME Timed, NEW p, NEW ts, Arrives(p, ts), IcmpWindows,
           p.proto = "ICMP", icmpHistory' = [icmpHistory EXCEPT ![p.src] =
               Pruned(Append(icmpHistory[p.src], [ts |-> ts]), ts - IcmpWindow)]
    PROVE  /\ IcmpWindows'
           /\ Mirrors(icmpHistory'[p.src], Stamps',
                      Recent(Stamps', Icmps'[p.src], ts - IcmpWindow))
<1> DEFINE n == Len(log)
<1>1. /\ n \in Nat /\ p.src \in Srcs
      /\ Now - IcmpWindow \in Int /\ ts - IcmpWindow \in Int
      /\ Now - IcmpWindow <= ts - IcmpWindow /\ ts - IcmpWindow <= ts
  BY LogFacts, WindowsAssumption DEF Arrives, Srcs
<1>3. /\ \A i \in 1..n : Stamps[i] = Stamps'[i]
      /\ Ordered(Stamps', n + 1, Stamp)
      /\ Stamps'[n + 1] = [ts |-> ts]
  BY StampsGrow
<1>4. PICK fits \in BOOLEAN : fits = (p.proto = "ICMP")
  OBVIOUS
<1>5. PicksGrow(Icmps, Icmps', Srcs, n, p.src, fits)
  BY <1>1, <1>4, IcmpsGrow DEF PicksGrow
<1>6. PICK N, entry : N = n + 1 /\ entry = Stamps'[N]
  OBVIOUS
<1>7. PICK latest \in Int, cutoff \in Int : latest = Now - IcmpWindow /\ cutoff = ts - IcmpWindow
  BY <1>1
<1>8. Pushed(icmpHistory, icmpHistory', p.src, fits, entry, cutoff)
  <2>1. entry = [ts |-> ts]
    BY <1>3, <1>6
  <2>2. Append(icmpHistory[p.src], [ts |-> ts]) = AppendIf(fits, icmpHistory[p.src], entry)
    BY <1>4, <2>1 DEF AppendIf
  <2> QED
    BY <1>7, <2>2 DEF Pushed
<1>9. /\ Windows(icmpHistory, Srcs, Stamp, Stamps, Icmps, latest)
      /\ Ordered(Stamps', N, Stamp)
      /\ latest <= cutoff /\ cutoff <= entry.ts
  BY <1>1, <1>3, <1>6, <1>7 DEF IcmpWindows
<1> HIDE DEF n
<1>10. /\ Windows(icmpHistory', Srcs, Stamp, Stamps', Icmps', cutoff)
       /\ Mirrors(icmpHistory'[p.src], Stamps', Recent(Stamps', Icmps'[p.src], cutoff))
  <2>1. PICK e, f, H, G, picked, now, key, K, S :
            /\ e = Stamps /\ f = Stamps' /\ H = icmpHistory /\ G = icmpHistory'
            /\ picked = Icmps /\ now = Icmps' /\ key = p.src /\ K = Srcs /\ S = Stamp
    OBVIOUS
  <2>2. /\ n \in Nat /\ N = n + 1 /\ Ordered(f, N, S) /\ entry = f[N]
        /\ \A i \in 1..n : e[i] = f[i]
    BY <1>1, <1>3, <1>6, <1>9, <2>1
  <2>3. /\ PicksGrow(picked, now, K, n, key, fits)
        /\ Windows(H, K, S, e, picked, latest)
        /\ Pushed(H, G, key, fits, entry, cutoff)
        /\ latest <= cutoff /\ cutoff <= entry.ts
    BY <1>5, <1>8, <1>9, <2>1
  <2>4. Windows(G, K, S, f, now, cutoff) /\ Mirrors(G[key], f, Recent(f, now[key], cutoff))
    BY ONLY <2>2, <2>3, fits \in BOOLEAN, latest \in Int, cutoff \in Int, WindowsMove
  <2> QED
    BY <2>1, <2>4
<1>11. Now' = ts
  BY LogGrows
<1> QED
  BY <1>7, <1>10, <1>11 DEF IcmpWindows

\* which no other packet touches.
LEMMA IcmpWindowsStay ==
    ASSUME Timed, NEW p, NEW ts, Arrives(p, ts), IcmpWindows, ~ (p.proto = "ICMP"), icmpHistory' = icmpHistory
    PROVE  IcmpWindows'
<1>1. /\ Len(log) \in Nat /\ Now - IcmpWindow \in Int /\ Now' - IcmpWindow \in Int
      /\ Now - IcmpWindow <= Now' - IcmpWindow
  <2>1. Now' = ts
    BY LogGrows
  <2> QED
    BY <2>1, LogFacts, WindowsAssumption DEF Arrives
<1>2. \A i \in 1..Len(log) : Stamps[i] = Stamps'[i]
  BY StampsGrow
<1>3. Icmps \in [Srcs -> SUBSET (1..Len(log))] /\ \A k \in Srcs : Icmps'[k] = Icmps[k]
  BY IcmpsGrow
<1>4. Windows(icmpHistory, Srcs, Stamp, Stamps, Icmps, Now - IcmpWindow)
  BY DEF IcmpWindows
<1>5. Windows(icmpHistory, Srcs, Stamp, Stamps', Icmps', Now' - IcmpWindow)
  BY <1>1, <1>2, <1>3, <1>4, WindowsStay
<1> QED
  BY <1>5 DEF IcmpWindows

\* DnsTunnelTracker.record on the windows of queries,
LEMMA DnsWindowsMove ==
    ASSUME Timed, NEW p, NEW ts, Arrives(p, ts), DnsWindows, Judges(TRUE),
           IsQuery(p), dnsHistory' = [dnsHistory EXCEPT ![Zone(p)] =
               Pruned(Append(dnsHistory[Zone(p)], [ts |-> ts, label |-> p.query.label]), ts - DnsWindow)]
    PROVE  /\ DnsWindows'
           /\ Mirrors(dnsHistory'[Zone(p)], QueriesSeen',
                      Recent(QueriesSeen', ZoneQueries'[Zone(p)], ts - DnsWindow))
<1> DEFINE n == Len(log)
<1>1. /\ n \in Nat /\ Zone(p) \in Zones
      /\ Now - DnsWindow \in Int /\ ts - DnsWindow \in Int
      /\ Now - DnsWindow <= ts - DnsWindow /\ ts - DnsWindow <= ts
  BY LogFacts, TrackersAssumption DEF Arrives, Zones
<1>3. /\ \A i \in 1..n : QueriesSeen[i] = QueriesSeen'[i]
      /\ Ordered(QueriesSeen', n + 1, QueryEntry)
      /\ QueriesSeen'[n + 1] = [ts |-> ts, label |-> p.query.label]
  BY QueriesSeenGrow
<1>4. PICK fits \in BOOLEAN : fits = (IsQuery(p))
  BY DEF IsQuery
<1>5. PicksGrow(ZoneQueries, ZoneQueries', Zones, n, Zone(p), fits)
  <2>1. /\ ZoneQueries \in [Zones -> SUBSET (1..n)]
        /\ ZoneQueries' \in [Zones -> SUBSET (1..(n + 1))]
        /\ \A k \in Zones : ZoneQueries'[k] = IF k = Zone(p) /\ IsQuery(p) /\ TRUE
                                           THEN ZoneQueries[k] \cup {n + 1} ELSE ZoneQueries[k]
    BY ZoneQueriesGrow
  <2> QED
    BY <1>1, <1>4, <2>1 DEF PicksGrow
<1>6. PICK N, entry : N = n + 1 /\ entry = QueriesSeen'[N]
  OBVIOUS
<1>7. PICK latest \in Int, cutoff \in Int : latest = Now - DnsWindow /\ cutoff = ts - DnsWindow
  BY <1>1
<1>8. Pushed(dnsHistory, dnsHistory', Zone(p), fits, entry, cutoff)
  <2>1. entry = [ts |-> ts, label |-> p.query.label]
    BY <1>3, <1>6
  <2>2. Append(dnsHistory[Zone(p)], [ts |-> ts, label |-> p.query.label]) = AppendIf(fits, dnsHistory[Zone(p)], entry)
    BY <1>4, <2>1 DEF AppendIf
  <2> QED
    BY <1>7, <2>2 DEF Pushed
<1>9. /\ Windows(dnsHistory, Zones, QueryEntry, QueriesSeen, ZoneQueries, latest)
      /\ Ordered(QueriesSeen', N, QueryEntry)
      /\ latest <= cutoff /\ cutoff <= entry.ts
  BY <1>1, <1>3, <1>6, <1>7 DEF DnsWindows
<1> HIDE DEF n
<1>10. /\ Windows(dnsHistory', Zones, QueryEntry, QueriesSeen', ZoneQueries', cutoff)
       /\ Mirrors(dnsHistory'[Zone(p)], QueriesSeen', Recent(QueriesSeen', ZoneQueries'[Zone(p)], cutoff))
  <2>1. PICK e, f, H, G, picked, now, key, K, S :
            /\ e = QueriesSeen /\ f = QueriesSeen' /\ H = dnsHistory /\ G = dnsHistory'
            /\ picked = ZoneQueries /\ now = ZoneQueries' /\ key = Zone(p) /\ K = Zones /\ S = QueryEntry
    OBVIOUS
  <2>2. /\ n \in Nat /\ N = n + 1 /\ Ordered(f, N, S) /\ entry = f[N]
        /\ \A i \in 1..n : e[i] = f[i]
    BY <1>1, <1>3, <1>6, <1>9, <2>1
  <2>3. /\ PicksGrow(picked, now, K, n, key, fits)
        /\ Windows(H, K, S, e, picked, latest)
        /\ Pushed(H, G, key, fits, entry, cutoff)
        /\ latest <= cutoff /\ cutoff <= entry.ts
    BY <1>5, <1>8, <1>9, <2>1
  <2>4. Windows(G, K, S, f, now, cutoff) /\ Mirrors(G[key], f, Recent(f, now[key], cutoff))
    BY ONLY <2>2, <2>3, fits \in BOOLEAN, latest \in Int, cutoff \in Int, WindowsMove
  <2> QED
    BY <2>1, <2>4
<1>11. Now' = ts
  BY LogGrows
<1> QED
  BY <1>7, <1>10, <1>11 DEF DnsWindows

\* which no other packet touches.
LEMMA DnsWindowsStay ==
    ASSUME Timed, NEW p, NEW ts, Arrives(p, ts), DnsWindows, NEW whether \in BOOLEAN, Judges(whether),
           ~ (IsQuery(p) /\ whether), dnsHistory' = dnsHistory
    PROVE  DnsWindows'
<1>1. /\ Len(log) \in Nat /\ Now - DnsWindow \in Int /\ Now' - DnsWindow \in Int
      /\ Now - DnsWindow <= Now' - DnsWindow
  <2>1. Now' = ts
    BY LogGrows
  <2> QED
    BY <2>1, LogFacts, TrackersAssumption DEF Arrives
<1>2. \A i \in 1..Len(log) : QueriesSeen[i] = QueriesSeen'[i]
  BY QueriesSeenGrow
<1>3. ZoneQueries \in [Zones -> SUBSET (1..Len(log))] /\ \A k \in Zones : ZoneQueries'[k] = ZoneQueries[k]
  BY ZoneQueriesGrow
<1>4. Windows(dnsHistory, Zones, QueryEntry, QueriesSeen, ZoneQueries, Now - DnsWindow)
  BY DEF DnsWindows
<1>5. Windows(dnsHistory, Zones, QueryEntry, QueriesSeen', ZoneQueries', Now' - DnsWindow)
  BY <1>1, <1>2, <1>3, <1>4, WindowsStay
<1> QED
  BY <1>5 DEF DnsWindows

\* The recent entries of the packet's own deques are the packets of the references.
LEMMA Recents ==
    ASSUME Timed, NEW p, NEW ts, Arrives(p, ts)
    PROVE  /\ Recent(Ports', Scans'[p.src], ts - ScanWindow)
                  = {i \in FromSource(ScanWindow)' : ~ IsDns(log'[i].pkt)}
           /\ Recent(Stamps', Syns'[p.src], ts - SynWindow) = SynsWithin(SynWindow)'
           /\ Recent(Stamps', Attempts'[Endpoint(p)], ts - PortRepeatWindow)
                  = AttemptsWithin(PortRepeatWindow)'
           /\ Recent(Stamps', Icmps'[p.src], ts - IcmpWindow) = IcmpsWithin(IcmpWindow)'
           /\ IsQuery(p) => Recent(QueriesSeen', ZoneQueries'[Zone(p)], ts - DnsWindow)
                                = QueriesWithin(DnsWindow)'
<1>1. Now' = ts /\ Last' = p /\ p \in Packets
  BY LogGrows DEF Arrives
<1>2. Recent(Ports', Scans'[p.src], ts - ScanWindow)
          = {i \in FromSource(ScanWindow)' : ~ IsDns(log'[i].pkt)}
  BY <1>1 DEF Recent, Ports, Scans, FromSource, Srcs
<1>3. Recent(Stamps', Syns'[p.src], ts - SynWindow) = SynsWithin(SynWindow)'
  BY <1>1 DEF Recent, Stamps, Syns, SynsWithin, FromSource, Srcs
<1>4. Recent(Stamps', Attempts'[Endpoint(p)], ts - PortRepeatWindow)
          = AttemptsWithin(PortRepeatWindow)'
  <2>1. \A q : Endpoint(q) = Endpoint(p) => q.src = p.src
    BY DEF Endpoint
  <2> QED
    BY <1>1, <2>1 DEF Recent, Stamps, Attempts, AttemptsWithin, SynsWithin, FromSource, Endpoints
<1>5. Recent(Stamps', Icmps'[p.src], ts - IcmpWindow) = IcmpsWithin(IcmpWindow)'
  BY <1>1 DEF Recent, Stamps, Icmps, IcmpsWithin, FromSource, Srcs
<1>6. ASSUME IsQuery(p)
      PROVE  Recent(QueriesSeen', ZoneQueries'[Zone(p)], ts - DnsWindow) = QueriesWithin(DnsWindow)'
  <2>1. \A q : Zone(q) = Zone(p) => q.src = p.src
    BY DEF Zone
  <2> QED
    BY <1>1, <1>6, <2>1 DEF Recent, QueriesSeen, ZoneQueries, QueriesWithin, FromSource, Zones
<1> QED
  BY <1>2, <1>3, <1>4, <1>5, <1>6

\* The deque of SYNs is as long as there are SYNs in the window,
LEMMA SynsCounted ==
    ASSUME Timed, NEW p, NEW ts, Arrives(p, ts), SynWindows',
           Mirrors(synHistory'[p.src], Stamps', Recent(Stamps', Syns'[p.src], ts - SynWindow))
    PROVE  /\ Len(synHistory'[p.src]) = Cardinality(SynsWithin(SynWindow)')
           /\ Len(synHistory'[p.src]) \in Nat
<1>1. synHistory'[p.src] \in Seq(Stamp)
  BY DEF SynWindows, Windows, Arrives, Srcs
<1>2. Recent(Stamps', Syns'[p.src], ts - SynWindow) = SynsWithin(SynWindow)'
  BY Recents
<1>3. SynsWithin(SynWindow)' \in SUBSET Int
  <2>1. SynsWithin(SynWindow)' \subseteq DOMAIN log'
    BY DEF SynsWithin, FromSource
  <2>2. DOMAIN log' \subseteq Int
    <3>1. DOMAIN log' = 1..(Len(log) + 1) /\ Len(log) \in Nat
      BY LogGrows, LogFacts
    <3> QED
      BY <3>1
  <2> QED
    BY <2>1, <2>2
<1>4. PICK hist, e, chosen : /\ hist = synHistory'[p.src] /\ e = Stamps' /\ chosen = SynsWithin(SynWindow)'
  OBVIOUS
<1>5. Cardinality(chosen) = Len(hist)
  BY <1>1, <1>2, <1>3, <1>4, MirrorCount
<1>6. Len(synHistory'[p.src]) \in Nat
  BY <1>1
<1> QED
  BY <1>4, <1>5, <1>6

\* that of attempts as there are attempts,
LEMMA AttemptsCounted ==
    ASSUME Timed, NEW p, NEW ts, Arrives(p, ts), AttemptWindows',
           Mirrors(portAttempts'[Endpoint(p)], Stamps', Recent(Stamps', Attempts'[Endpoint(p)], ts - PortRepeatWindow))
    PROVE  /\ Len(portAttempts'[Endpoint(p)]) = Cardinality(AttemptsWithin(PortRepeatWindow)')
           /\ Len(portAttempts'[Endpoint(p)]) \in Nat
<1>1. portAttempts'[Endpoint(p)] \in Seq(Stamp)
  BY DEF AttemptWindows, Windows, Arrives, Endpoints
<1>2. Recent(Stamps', Attempts'[Endpoint(p)], ts - PortRepeatWindow) = AttemptsWithin(PortRepeatWindow)'
  BY Recents
<1>3. AttemptsWithin(PortRepeatWindow)' \in SUBSET Int
  <2>1. AttemptsWithin(PortRepeatWindow)' \subseteq DOMAIN log'
    BY DEF AttemptsWithin, SynsWithin, FromSource
  <2>2. DOMAIN log' \subseteq Int
    <3>1. DOMAIN log' = 1..(Len(log) + 1) /\ Len(log) \in Nat
      BY LogGrows, LogFacts
    <3> QED
      BY <3>1
  <2> QED
    BY <2>1, <2>2
<1>4. PICK hist, e, chosen : /\ hist = portAttempts'[Endpoint(p)] /\ e = Stamps' /\ chosen = AttemptsWithin(PortRepeatWindow)'
  OBVIOUS
<1>5. Cardinality(chosen) = Len(hist)
  BY <1>1, <1>2, <1>3, <1>4, MirrorCount
<1>6. Len(portAttempts'[Endpoint(p)]) \in Nat
  BY <1>1
<1> QED
  BY <1>4, <1>5, <1>6

\* that of ICMP packets as there are such packets.
LEMMA IcmpsCounted ==
    ASSUME Timed, NEW p, NEW ts, Arrives(p, ts), IcmpWindows',
           Mirrors(icmpHistory'[p.src], Stamps', Recent(Stamps', Icmps'[p.src], ts - IcmpWindow))
    PROVE  /\ Len(icmpHistory'[p.src]) = Cardinality(IcmpsWithin(IcmpWindow)')
           /\ Len(icmpHistory'[p.src]) \in Nat
<1>1. icmpHistory'[p.src] \in Seq(Stamp)
  BY DEF IcmpWindows, Windows, Arrives, Srcs
<1>2. Recent(Stamps', Icmps'[p.src], ts - IcmpWindow) = IcmpsWithin(IcmpWindow)'
  BY Recents
<1>3. IcmpsWithin(IcmpWindow)' \in SUBSET Int
  <2>1. IcmpsWithin(IcmpWindow)' \subseteq DOMAIN log'
    BY DEF IcmpsWithin, FromSource
  <2>2. DOMAIN log' \subseteq Int
    <3>1. DOMAIN log' = 1..(Len(log) + 1) /\ Len(log) \in Nat
      BY LogGrows, LogFacts
    <3> QED
      BY <3>1
  <2> QED
    BY <2>1, <2>2
<1>4. PICK hist, e, chosen : /\ hist = icmpHistory'[p.src] /\ e = Stamps' /\ chosen = IcmpsWithin(IcmpWindow)'
  OBVIOUS
<1>5. Cardinality(chosen) = Len(hist)
  BY <1>1, <1>2, <1>3, <1>4, MirrorCount
<1>6. Len(icmpHistory'[p.src]) \in Nat
  BY <1>1
<1> QED
  BY <1>4, <1>5, <1>6

\* The ports in the deque of scans are those of the window.
LEMMA PortsCounted ==
    ASSUME Timed, NEW p, NEW ts, Arrives(p, ts),
           Mirrors(scanHistory'[p.src], Ports', Recent(Ports', Scans'[p.src], ts - ScanWindow)),
           scanHistory'[p.src] \in Seq(PortEntry)
    PROVE  LET scans == scanHistory'[p.src]
               ports == {scans[i].port : i \in DOMAIN scans} \ {Null}
           IN  ports = PortsWithin(ScanWindow)' /\ Cardinality(ports) \in Nat
<1> DEFINE scans == scanHistory'[p.src]
<1> DEFINE chosen == {i \in FromSource(ScanWindow)' : ~ IsDns(log'[i].pkt)}
<1>1. chosen = Recent(Ports', Scans'[p.src], ts - ScanWindow)
  BY Recents
<1>2. \A c \in chosen : Ports'[c].port = log'[c].pkt.dport
  BY DEF Ports, FromSource
<1>3. DOMAIN scans = 1..Len(scans) /\ Len(scans) \in Nat
  OBVIOUS
<1> HIDE DEF chosen, scans
<1>4. PICK at \in [1..Len(scans) -> chosen] :
          /\ \A c \in chosen : \E i \in 1..Len(scans) : at[i] = c
          /\ \A i \in 1..Len(scans) : scans[i] = Ports'[at[i]]
  BY <1>1 DEF Mirrors, scans
<1>5. \A i \in DOMAIN scans : at[i] \in chosen /\ scans[i].port = log'[at[i]].pkt.dport
  BY <1>2, <1>3, <1>4
<1> DEFINE all == {scans[i].port : i \in DOMAIN scans}
<1> DEFINE reference == {log'[i].pkt.dport : i \in chosen}
<1>6. all = reference
  <2>1. \A i \in DOMAIN scans : scans[i].port \in reference
    BY <1>5
  <2>2. \A c \in chosen : log'[c].pkt.dport \in all
    BY <1>3, <1>4, <1>5
  <2> QED
    BY <2>1, <2>2
<1>7. reference \ {Null} = PortsWithin(ScanWindow)'
  BY DEF PortsWithin, chosen
<1>8. IsFiniteSet(all)
  <2>1. [i \in DOMAIN scans |-> scans[i].port] \in Surjection(DOMAIN scans, all)
    BY DEF Surjection
  <2>2. IsFiniteSet(DOMAIN scans)
    BY <1>3, CountOneTo
  <2> HIDE DEF all
  <2> QED
    BY <2>1, <2>2, FS_Surjection
<1>9. Cardinality(all \ {Null}) \in Nat
  <2> HIDE DEF all
  <2> QED
    BY <1>8, FS_RemoveElement, FS_CardinalityType
<1> QED
  BY <1>6, <1>7, <1>9 DEF scans

\* The labels in the window of queries are those of the log.
LEMMA LabelsCollected ==
    ASSUME Timed, NEW p, NEW ts, Arrives(p, ts), IsQuery(p),
           Mirrors(dnsHistory'[Zone(p)], QueriesSeen',
                   Recent(QueriesSeen', ZoneQueries'[Zone(p)], ts - DnsWindow)),
           dnsHistory'[Zone(p)] \in Seq(QueryEntry)
    PROVE  Labels(dnsHistory'[Zone(p)])
               = {log'[i].pkt.query.label : i \in QueriesWithin(DnsWindow)'}
<1> DEFINE history == dnsHistory'[Zone(p)]
<1> DEFINE chosen == QueriesWithin(DnsWindow)'
<1>1. chosen = Recent(QueriesSeen', ZoneQueries'[Zone(p)], ts - DnsWindow)
  BY Recents
<1>2. \A c \in chosen : QueriesSeen'[c].label = log'[c].pkt.query.label
  BY DEF QueriesSeen, QueriesWithin, FromSource
<1>3. DOMAIN history = 1..Len(history) /\ Len(history) \in Nat
  OBVIOUS
<1> HIDE DEF chosen, history
<1>4. PICK at \in [1..Len(history) -> chosen] :
          /\ \A c \in chosen : \E i \in 1..Len(history) : at[i] = c
          /\ \A i \in 1..Len(history) : history[i] = QueriesSeen'[at[i]]
  BY <1>1 DEF Mirrors, history
<1>5. \A i \in DOMAIN history :
          at[i] \in chosen /\ history[i].label = log'[at[i]].pkt.query.label
  BY <1>2, <1>3, <1>4
<1>6. {history[i].label : i \in DOMAIN history} = {log'[i].pkt.query.label : i \in chosen}
  <2>1. \A i \in DOMAIN history : \E c \in chosen : history[i].label = log'[c].pkt.query.label
    BY <1>5
  <2>2. \A c \in chosen : \E i \in DOMAIN history : history[i].label = log'[c].pkt.query.label
    BY <1>3, <1>4, <1>5
  <2> QED
    BY <2>1, <2>2
<1> QED
  BY <1>6 DEF history, chosen, Labels

-----------------------------------------------------------------------------
(* The flow table *)

Lengths == [i \in DOMAIN log |-> log[i].pkt.length]

\* The packets of a connection, and the current flow among them.
LEMMA CurrentFacts ==
    ASSUME Timed, NEW k, Of(k) # {}
    PROVE  /\ Current(k) # {} /\ IsFiniteSet(Current(k))
           /\ Current(k) \subseteq Of(k) /\ Of(k) \subseteq 1..Len(log)
           /\ \A i \in Of(k) : i <= Max(Current(k))
           /\ Min(Current(k)) \in Current(k) /\ Max(Current(k)) \in Current(k)
           /\ \A i \in Current(k) : Min(Current(k)) <= i /\ i <= Max(Current(k))
<1> DEFINE openers == {j \in Of(k) : Opens(j)}
<1> DEFINE first == Max(openers)
<1>1. /\ Len(log) \in Nat /\ Of(k) \subseteq 1..Len(log)
      /\ Of(k) \in SUBSET Nat /\ \A i \in Of(k) : i <= Len(log)
  BY LogFacts DEF Of
<1>2. Min(Of(k)) \in Of(k) /\ \A i \in Of(k) : Min(Of(k)) <= i
  BY <1>1, LeastOf
<1>3. Min(Of(k)) \in openers
  <2>1. Key(log[Min(Of(k))].pkt) = k
    BY <1>2 DEF Of
  <2>2. \A j \in Of(k) : ~ (j < Min(Of(k)))
    BY <1>1, <1>2
  <2> QED
    BY <1>2, <2>1, <2>2 DEF Opens
<1>4. first \in openers
  <2>1. openers \in SUBSET Nat /\ openers # {} /\ \A i \in openers : i <= Len(log)
    BY <1>1, <1>3
  <2> HIDE DEF openers
  <2> QED
    BY <1>1, <2>1, GreatestOf
<1>5. Current(k) = {i \in Of(k) : i >= first}
  BY DEF Current
<1> HIDE DEF first
<1>6. first \in Current(k) /\ Current(k) \subseteq Of(k)
  BY <1>1, <1>4, <1>5
<1>7. IsFiniteSet(Current(k))
  <2>1. IsFiniteSet(1..Len(log)) /\ Current(k) \in SUBSET (1..Len(log))
    BY <1>1, <1>6, CountOneTo
  <2> QED
    BY <2>1, FS_Subset
<1>8. Current(k) \in SUBSET Nat /\ Current(k) # {} /\ \A i \in Current(k) : i <= Len(log)
  BY <1>1, <1>6
<1>9. /\ Min(Current(k)) \in Current(k) /\ Max(Current(k)) \in Current(k)
      /\ \A i \in Current(k) : Min(Current(k)) <= i /\ i <= Max(Current(k))
  BY <1>1, <1>8, LeastOf, GreatestOf
<1>10. ASSUME NEW i \in Of(k) PROVE i <= Max(Current(k))
  <2>1. CASE i >= first
    BY <1>5, <1>9, <2>1
  <2>2. CASE ~ (i >= first)
    <3>1. i \in Nat /\ first \in Nat /\ Max(Current(k)) \in Nat /\ first <= Max(Current(k))
      BY <1>1, <1>6, <1>8, <1>9
    <3> QED
      BY <2>2, <3>1
  <2> QED
    BY <2>1, <2>2
<1> QED
  BY <1>1, <1>6, <1>7, <1>9, <1>10

\* The flow that the log describes, typed and in the order of time.
LEMMA ReferenceFacts ==
    ASSUME Timed, NEW k, Of(k) # {}
    PROVE  /\ Reference(k) \in Flow
           /\ Reference(k).start <= Reference(k).last /\ Reference(k).last <= Now
           /\ \E i \in Of(k) : Reference(k).last = log[i].ts
           /\ \A i \in Of(k) : log[i].ts <= Reference(k).last
           /\ Reference(k) = [start |-> log[Min(Current(k))].ts, last |-> log[Max(Current(k))].ts,
                              packets |-> Cardinality(Current(k)),
                              bytes |-> SumFunctionOnSet(Lengths, Current(k))]
<1> DEFINE min == Min(Current(k))
<1> DEFINE max == Max(Current(k))
<1>1. /\ IsFiniteSet(Current(k)) /\ Of(k) \subseteq 1..Len(log) /\ Current(k) \subseteq Of(k)
      /\ min \in Of(k) /\ max \in Of(k)
      /\ min <= max /\ \A i \in Of(k) : i <= max
  BY CurrentFacts
<1>2. Reference(k) = [start |-> log[min].ts, last |-> log[max].ts,
                      packets |-> Cardinality(Current(k)),
                      bytes |-> SumFunctionOnSet(Lengths, Current(k))]
  BY DEF Reference, Lengths
<1> HIDE DEF min, max
<1>3. /\ Len(log) \in Nat /\ DOMAIN log = 1..Len(log)
      /\ \A i \in 1..Len(log) : log[i].ts \in Nat /\ log[i].pkt.length \in Nat /\ log[i].ts <= Now
  BY LogFacts, LengthsAssumption
<1>4. ASSUME NEW i \in Of(k), NEW j \in Of(k), i <= j
      PROVE  log[i].ts <= log[j].ts
  <2>1. i \in 1..Len(log) /\ j \in 1..Len(log) /\ (i < j \/ i = j)
    BY <1>1, <1>3, <1>4
  <2>2. log[i].ts \in Nat /\ log[j].ts \in Nat
    BY <1>3, <2>1
  <2> QED
    BY <2>1, <2>2 DEF Timed
<1>5. Cardinality(Current(k)) \in Nat
  BY <1>1, FS_CardinalityType
<1>6. SumFunctionOnSet(Lengths, Current(k)) \in Nat
  <2>1. \A i \in Current(k) : Lengths[i] \in Nat
    BY <1>1, <1>3 DEF Lengths
  <2> QED
    BY <1>1, <2>1, SumType
<1>7. log[min].ts \in Nat /\ log[max].ts \in Nat
  BY <1>1, <1>3
<1> QED
  <2>1. Reference(k) \in Flow
    BY <1>2, <1>5, <1>6, <1>7 DEF Flow
  <2>2. Reference(k).start = log[min].ts /\ Reference(k).last = log[max].ts
    BY <1>2
  <2>3. log[min].ts <= log[max].ts /\ log[max].ts <= Now
    BY <1>1, <1>3, <1>4
  <2>4. \A i \in Of(k) : log[i].ts <= log[max].ts
    BY <1>1, <1>4
  <2> QED
    BY <1>1, <1>2, <2>1, <2>2, <2>3, <2>4 DEF min, max

\* A new packet changes nothing for the packets before it,
LEMMA OpensSame ==
    ASSUME Timed, NEW p, NEW ts, Arrives(p, ts)
    PROVE  /\ \A k : k # Key(p) => Of(k)' = Of(k)
           /\ Of(Key(p))' = Of(Key(p)) \cup {Len(log) + 1}
           /\ \A i \in 1..Len(log) : Opens(i)' <=> Opens(i)
<1>1. \A k : /\ \A i \in 1..Len(log) : i \in Of(k)' <=> i \in Of(k)
             /\ Len(log) + 1 \in Of(k)' <=> k = Key(p)
             /\ Of(k)' \subseteq 1..(Len(log) + 1) /\ Of(k) \subseteq 1..Len(log)
  <2>1. Len(log) + 1 \in DOMAIN log' /\ log'[Len(log) + 1] = [ts |-> ts, pkt |-> p]
    BY LogGrows
  <2>2. log'[Len(log) + 1].pkt = p
    BY <2>1
  <2> QED
    BY <2>1, <2>2, LogGrows DEF Of
<1>2. \A i \in 1..(Len(log) + 1) : i \in 1..Len(log) \/ i = Len(log) + 1
  BY LogGrows
<1>3. \A k : k # Key(p) => Of(k)' = Of(k)
  BY <1>1, <1>2
<1>4. Of(Key(p))' = Of(Key(p)) \cup {Len(log) + 1}
  BY <1>1, <1>2
<1>5. ASSUME NEW i \in 1..Len(log)
      PROVE  Opens(i)' <=> Opens(i)
  <2> DEFINE k == Key(log[i].pkt)
  <2>1. Len(log) \in Nat /\ log'[i] = log[i]
    BY LogFacts, LogGrows
  <2>2. \A j : j \in Of(k)' /\ j < i <=> j \in Of(k) /\ j < i
    BY <1>1, <1>2, <2>1
  <2>3. ASSUME NEW j \in Of(k), j < i
        PROVE  log'[i - 1] = log[i - 1] /\ log'[j] = log[j]
    <3>1. j \in 1..Len(log) /\ i - 1 \in 1..Len(log)
      BY <1>1, <2>1, <2>3
    <3> QED
      BY <3>1, LogGrows
  <2>4. Opens(i) <=> \A j \in Of(k) : j < i => log[i - 1].ts - log[j].ts > FlowTimeout
    BY DEF Opens
  <2>5. Opens(i)' <=> \A j \in Of(k)' : j < i => log'[i - 1].ts - log'[j].ts > FlowTimeout
    BY <2>1 DEF Opens
  <2> QED
    BY <2>2, <2>3, <2>4, <2>5
<1> QED
  BY <1>3, <1>4, <1>5

\* and opens a flow itself unless its connection is tracked.
LEMMA OpensNew ==
    ASSUME Timed, NEW p, NEW ts, Arrives(p, ts), NEW new, new = Len(log) + 1
    PROVE  Opens(new)' <=> Key(p) \notin Tracked
<1> DEFINE n == Len(log)
<1>1. n \in Nat /\ Key(p) \in Keys
  BY LogFacts DEF Arrives, Keys
<1>2. log'[n + 1].pkt = p
  <2>1. log'[n + 1] = [ts |-> ts, pkt |-> p]
    BY LogGrows
  <2> QED
    BY <2>1
<1>3. Of(Key(p)) \subseteq 1..n /\ Of(Key(p))' = Of(Key(p)) \cup {n + 1}
  BY OpensSame, LogFacts DEF Of
<1>4. Opens(new)' <=> \A j \in Of(Key(p))' : j < new => log'[new - 1].ts - log'[j].ts > FlowTimeout
  BY <1>2 DEF Opens
<1>5. \A j : j \in Of(Key(p))' /\ j < new <=> j \in Of(Key(p))
  BY <1>1, <1>3
<1>6. ASSUME NEW j \in Of(Key(p))
      PROVE  log'[new - 1].ts = Now /\ log'[j].ts = log[j].ts /\ Now \in Nat /\ log[j].ts \in Nat
  <2>1. j \in 1..n /\ n \in 1..n /\ new - 1 = n /\ log # <<>>
    BY <1>1, <1>3
  <2>2. log'[j] = log[j] /\ log'[n] = log[n] /\ Now = log[n].ts
    BY <2>1, LogGrows DEF Now
  <2> QED
    BY <2>1, <2>2, LogFacts
<1>7. Key(p) \in Tracked <=> \E j \in Of(Key(p)) : Now - log[j].ts <= FlowTimeout
  BY <1>1 DEF Tracked
<1>8. \A j \in Of(Key(p)) : Now - log[j].ts > FlowTimeout <=> ~ (Now - log[j].ts <= FlowTimeout)
  BY <1>6, WindowsAssumption
<1> QED
  BY <1>4, <1>5, <1>6, <1>7, <1>8

\* A sum with one more summand.
LEMMA SumGrows ==
    ASSUME NEW f, NEW old, NEW new, NEW now, now = old \cup {new}, new \notin old,
           IsFiniteSet(old), \A i \in old : f[i] \in Nat, f[new] \in Nat
    PROVE  SumFunctionOnSet(f, now) = SumFunctionOnSet(f, old) + f[new]
<1>1. IsFiniteSet(now) /\ new \in now /\ \A i \in now : f[i] \in Nat
  BY FS_AddElement
<1>2. PICK rest : rest = now \ {new}
  OBVIOUS
<1>3. rest = old
  BY <1>2
<1>4. SumFunctionOnSet(f, now) = f[new] + SumFunctionOnSet(f, rest)
  <2>1. SumFunctionOnSet(f, now) = f[new] + SumFunctionOnSet(f, now \ {new})
    BY <1>1, SumWithout
  <2> QED
    BY <1>2, <2>1
<1>5. PICK sum \in Nat : sum = SumFunctionOnSet(f, old)
  BY SumType
<1>6. SumFunctionOnSet(f, rest) = sum
  BY <1>3, <1>5
<1> QED
  BY <1>4, <1>5, <1>6

\* What the new packet makes of the current flow of its connection.
LEMMA CurrentGrows ==
    ASSUME Timed, NEW p, NEW ts, Arrives(p, ts), NEW new, new = Len(log) + 1
    PROVE  /\ Key(p) \in Tracked => Current(Key(p))' = Current(Key(p)) \cup {new}
           /\ Key(p) \notin Tracked => Current(Key(p))' = {new}
<1> DEFINE k == Key(p)
<1> DEFINE openers == {j \in Of(k) : Opens(j)}
<1> DEFINE after == {j \in Of(k)' : Opens(j)'}
<1>1. /\ Len(log) \in Nat /\ Of(k) \subseteq 1..Len(log) /\ Of(k)' = Of(k) \cup {new}
      /\ \A i \in 1..Len(log) : Opens(i)' <=> Opens(i)
      /\ Opens(new)' <=> k \notin Tracked
  BY LogFacts, OpensSame, OpensNew DEF Of
<1>2. /\ Current(k) = {i \in Of(k) : i >= Max(openers)}
      /\ Current(k)' = {i \in Of(k)' : i >= Max(after)}
  BY DEF Current
<1>3. ASSUME k \in Tracked
      PROVE  Current(k)' = Current(k) \cup {new}
  <2>1. after = openers
    BY <1>1, <1>3
  <2>2. Of(k) # {}
    BY <1>3 DEF Tracked
  <2>3. openers # {} /\ openers \in SUBSET Nat /\ \A i \in openers : i <= Len(log)
    <3>1. openers # {}
      <4>1. Min(Of(k)) \in Of(k) /\ \A i \in Of(k) : Min(Of(k)) <= i
        BY <1>1, <2>2, LeastOf
      <4>2. Key(log[Min(Of(k))].pkt) = k
        BY <4>1 DEF Of
      <4>3. \A j \in Of(k) : ~ (j < Min(Of(k)))
        BY <1>1, <4>1
      <4>4. Opens(Min(Of(k)))
        BY <4>2, <4>3 DEF Opens
      <4> QED
        BY <4>1, <4>4
    <3> QED
      BY <1>1, <3>1
  <2> HIDE DEF openers, after
  <2>4. Max(openers) \in Nat /\ Max(openers) <= Len(log)
    BY <1>1, <2>3, GreatestOf
  <2>5. new >= Max(openers)
    BY <1>1, <2>4
  <2> QED
    BY <1>1, <1>2, <2>1, <2>5
<1>4. ASSUME k \notin Tracked
      PROVE  Current(k)' = {new}
  <2>1. new \in after /\ after \in SUBSET Nat /\ \A i \in after : i <= new
    BY <1>1, <1>4
  <2>2. new \in Nat
    BY <1>1
  <2> HIDE DEF openers, after
  <2>3. Max(after) \in after /\ new <= Max(after)
    BY <2>1, <2>2, GreatestOf
  <2>4. Max(after) = new
    <3>1. Max(after) \in Nat /\ Max(after) <= new
      BY <2>1, <2>3
    <3> QED
      BY <2>2, <2>3, <3>1
  <2>5. \A i \in Of(k) : ~ (i >= new)
    BY <1>1
  <2>6. new >= new
    BY <2>2
  <2> QED
    BY <1>1, <1>2, <2>4, <2>5, <2>6
<1> QED
  BY <1>3, <1>4

\* The new packet adds no bytes to a flow it is not of.
LEMMA LengthsSame ==
    ASSUME Timed, NEW p, NEW ts, Arrives(p, ts), NEW set \in SUBSET (1..Len(log))
    PROVE  SumFunctionOnSet(Lengths', set) = SumFunctionOnSet(Lengths, set)
<1>1. \A i \in set : Lengths'[i] = Lengths[i]
  BY LogGrows DEF Lengths
<1>2. IsFiniteSet(set)
  BY LogFacts, CountOneTo, FS_Subset
<1> QED
  BY <1>1, <1>2, SumSame

\* The flow of another connection stays as it is.
LEMMA ReferenceSame ==
    ASSUME Timed, NEW p, NEW ts, Arrives(p, ts), NEW k, k # Key(p), Of(k) # {}
    PROVE  Reference(k)' = Reference(k)
<1>1. /\ Of(k)' = Of(k) /\ Of(k) \subseteq 1..Len(log)
      /\ \A i \in 1..Len(log) : Opens(i)' <=> Opens(i)
  BY OpensSame, LogFacts DEF Of
<1>2. {j \in Of(k)' : Opens(j)'} = {j \in Of(k) : Opens(j)}
  BY <1>1
<1>3. Current(k)' = Current(k)
  BY <1>1, <1>2 DEF Current
<1>4. /\ Current(k) \in SUBSET (1..Len(log))
      /\ Min(Current(k)) \in 1..Len(log) /\ Max(Current(k)) \in 1..Len(log)
  BY CurrentFacts
<1>5. /\ log'[Min(Current(k))] = log[Min(Current(k))]
      /\ log'[Max(Current(k))] = log[Max(Current(k))]
  BY <1>4, LogGrows
<1>6. SumFunctionOnSet(Lengths', Current(k)) = SumFunctionOnSet(Lengths, Current(k))
  BY <1>4, LengthsSame
<1>7. Reference(k)' = [start |-> log'[Min(Current(k))].ts, last |-> log'[Max(Current(k))].ts,
                       packets |-> Cardinality(Current(k)),
                       bytes |-> SumFunctionOnSet(Lengths', Current(k))]
  BY <1>3 DEF Reference, Lengths
<1>8. Reference(k) = [start |-> log[Min(Current(k))].ts, last |-> log[Max(Current(k))].ts,
                      packets |-> Cardinality(Current(k)),
                      bytes |-> SumFunctionOnSet(Lengths, Current(k))]
  BY DEF Reference, Lengths
<1> QED
  BY <1>5, <1>6, <1>7, <1>8

\* The flow that update() bumps is the one of the reference.
LEMMA ReferenceGrows ==
    ASSUME Timed, FlowTableIsExact, NEW p, NEW ts, Arrives(p, ts)
    PROVE  Reference(Key(p))' = Bumped(p, ts)
<1> DEFINE k == Key(p)
<1>a. PICK current, lengths : current = Current(k)' /\ lengths = Lengths'
  OBVIOUS
<1> DEFINE sum(set) == SumFunctionOnSet(lengths, set)
<1>1. PICK new \in Nat : new = Len(log) + 1
  BY LogFacts
<1>2. Reference(k)' = [start |-> log'[Min(current)].ts, last |-> log'[Max(current)].ts,
                       packets |-> Cardinality(current), bytes |-> sum(current)]
  BY <1>a DEF Reference, Lengths
<1>3. /\ log'[new] = [ts |-> ts, pkt |-> p]
      /\ lengths[new] = p.length /\ p.length \in Nat
      /\ \A i \in 1..Len(log) : lengths[i] \in Nat /\ log'[i] = log[i]
  <2>1. log'[new] = [ts |-> ts, pkt |-> p] /\ new \in DOMAIN log'
    BY <1>1, LogGrows
  <2>2. log'[new].pkt = p
    BY <2>1
  <2>3. Lengths'[new] = p.length /\ p.length \in Nat
    BY <2>1, <2>2, LengthsAssumption DEF Lengths, Arrives
  <2>4. ASSUME NEW i \in 1..Len(log) PROVE Lengths'[i] \in Nat /\ log'[i] = log[i]
    <3>1. i \in DOMAIN log' /\ log'[i] = log[i] /\ log[i].pkt \in Packets
      BY LogGrows, LogFacts
    <3> QED
      BY <3>1, LengthsAssumption DEF Lengths
  <2> QED
    BY <1>a, <2>1, <2>3, <2>4
<1>4. flows = [x \in Tracked |-> Reference(x)]
  BY DEF FlowTableIsExact
<1>5. CASE k \in Tracked
  <2>1. Of(k) # {}
    BY <1>5 DEF Tracked
  <2> DEFINE old == Current(k)
  <2>2. /\ IsFiniteSet(old) /\ old \subseteq 1..Len(log)
        /\ Min(old) \in old /\ Max(old) \in old
        /\ \A i \in old : Min(old) <= i
    BY <2>1, CurrentFacts
  <2>3. current = old \cup {new}
    BY <1>a, <1>1, <1>5, CurrentGrows
  <2>4. Reference(k) = [start |-> log[Min(old)].ts, last |-> log[Max(old)].ts,
                        packets |-> Cardinality(old), bytes |-> SumFunctionOnSet(Lengths, old)]
    BY DEF Reference, Lengths
  <2>5. SumFunctionOnSet(Lengths, old) = sum(old)
    BY <1>a, <2>2, LengthsSame
  <2> HIDE DEF old, sum
  <2>6. Len(log) \in Nat /\ new \notin old /\ \A i \in old : i \in Nat /\ i < new
    <3>1. PICK m \in Nat : m = Len(log)
      BY LogFacts
    <3>2. new = m + 1 /\ \A i \in old : i \in 1..m
      BY <1>1, <2>2, <3>1
    <3>3. \A i \in 1..m : i \in Nat /\ i < m + 1
      OBVIOUS
    <3>4. \A i \in old : i \in Nat /\ i < new
      BY <3>2, <3>3
    <3> QED
      BY <3>1, <3>4
  <2>7. current \in SUBSET Nat /\ current # {} /\ \A i \in current : i <= new
    BY <1>1, <2>3, <2>6
  <2>8. Min(current) = Min(old)
    <3>1. Min(current) \in current /\ \A i \in current : Min(current) <= i
      BY <2>7, LeastOf
    <3>2. Min(current) <= Min(old) /\ Min(old) \in Nat /\ Min(old) < new
      BY <2>2, <2>3, <2>6, <3>1
    <3>3. Min(current) \in Nat /\ Min(old) <= Min(current)
      BY <1>1, <2>2, <2>3, <2>7, <3>1, <3>2
    <3> QED
      BY <3>2, <3>3
  <2>9. Max(current) = new
    <3>1. Max(current) \in current /\ \A i \in current : i <= Max(current)
      BY <1>1, <2>7, GreatestOf
    <3>2. new \in current /\ Max(current) \in Nat /\ Max(current) <= new /\ new <= Max(current)
      BY <2>3, <2>7, <3>1
    <3> QED
      BY <1>1, <3>2
  <2>10. Cardinality(current) = Cardinality(old) + 1
    BY <2>2, <2>3, <2>6, FS_AddElement
  <2>11. sum(current) = sum(old) + p.length
    <3>1. \A i \in old : lengths[i] \in Nat
      BY <1>3, <2>2
    <3>2. SumFunctionOnSet(lengths, current)
              = SumFunctionOnSet(lengths, old) + lengths[new]
      <4>1. PICK before : before = old
        OBVIOUS
      <4>2. /\ IsFiniteSet(before) /\ new \notin before /\ current = before \cup {new}
            /\ \A i \in before : lengths[i] \in Nat
        BY <2>2, <2>3, <2>6, <3>1, <4>1
      <4>3. SumFunctionOnSet(lengths, current)
                = SumFunctionOnSet(lengths, before) + lengths[new]
        BY ONLY <1>3, <4>2, SumGrows
      <4> QED
        BY <4>1, <4>3
    <3> QED
      BY <1>3, <3>2 DEF sum
  <2>12. log'[Min(old)].ts = log[Min(old)].ts /\ log'[new].ts = ts
    <3>1. Min(old) \in 1..Len(log)
      BY <2>2
    <3>2. log'[Min(old)] = log[Min(old)]
      BY <1>3, <3>1
    <3> QED
      BY <1>3, <3>2
  <2>13. Bumped(p, ts) = [start |-> Reference(k).start, last |-> ts,
                          packets |-> Reference(k).packets + 1,
                          bytes |-> Reference(k).bytes + p.length]
    BY <1>4, <1>5 DEF Bumped
  <2>14. Bumped(p, ts) = [start |-> log[Min(old)].ts, last |-> ts,
                          packets |-> Cardinality(old) + 1, bytes |-> sum(old) + p.length]
    BY <2>4, <2>5, <2>13
  <2> QED
    BY <1>2, <2>8, <2>9, <2>10, <2>11, <2>12, <2>14
<1>6. CASE k \notin Tracked
  <2>1. current = {new}
    BY <1>a, <1>1, <1>6, CurrentGrows
  <2> HIDE DEF sum
  <2>2. /\ current \in SUBSET Nat /\ current # {} /\ \A i \in current : i <= new
    BY <1>1, <2>1
  <2>3. Min(current) = new /\ Max(current) = new
    <3>1. Min(current) \in current /\ Max(current) \in current
      BY <1>1, <2>2, LeastOf, GreatestOf
    <3> QED
      BY <2>1, <3>1
  <2>4. IsFiniteSet(current) /\ Cardinality(current) = 1
    BY <2>1, FS_Singleton
  <2>5. sum(current) = p.length
    <3>1. SumFunctionOnSet(lengths, current) = SumFunctionOnSet(lengths, {}) + lengths[new]
      <4>1. PICK none : none = {}
        OBVIOUS
      <4>2. /\ IsFiniteSet(none) /\ new \notin none /\ current = none \cup {new}
            /\ \A i \in none : lengths[i] \in Nat
        BY <2>1, <4>1, FS_EmptySet
      <4>3. SumFunctionOnSet(lengths, current)
                = SumFunctionOnSet(lengths, none) + lengths[new]
        BY ONLY <1>3, <4>2, SumGrows
      <4> QED
        BY <4>1, <4>3
    <3>2. SumFunctionOnSet(lengths, {}) = 0
      BY FS_EmptySet, SumStep
    <3> QED
      BY <1>3, <3>1, <3>2 DEF sum
  <2>6. log'[new].ts = ts
    BY <1>3
  <2>7. Bumped(p, ts) = [start |-> ts, last |-> ts, packets |-> 0 + 1, bytes |-> 0 + p.length]
    BY <1>4, <1>6 DEF Bumped
  <2>8. 0 + 1 = 1 /\ 0 + p.length = p.length
    BY <1>3
  <2> QED
    BY <1>2, <2>3, <2>4, <2>5, <2>6, <2>7, <2>8
<1> QED
  BY <1>5, <1>6

\* A flow is still tracked after the packet if it is the packet's or has not timed out.
LEMMA TrackedMoves ==
    ASSUME Timed, NEW p, NEW ts, Arrives(p, ts)
    PROVE  /\ Key(p) \in Tracked'
           /\ \A k : k # Key(p) =>
                  (k \in Tracked' <=> k \in Tracked /\ ts - Reference(k).last <= FlowTimeout)
<1>1. /\ Now' = ts /\ ts \in Nat /\ Now <= ts /\ Now \in Nat /\ Key(p) \in Keys
      /\ Len(log) \in Nat /\ \A i \in 1..Len(log) : log[i].ts \in Nat
  BY LogFacts, LogGrows DEF Arrives, Keys
<1>2. Key(p) \in Tracked'
  <2>1. Len(log) + 1 \in Of(Key(p))'
    BY OpensSame
  <2>2. log'[Len(log) + 1].ts = ts
    <3>1. log'[Len(log) + 1] = [ts |-> ts, pkt |-> p]
      BY LogGrows
    <3> QED
      BY <3>1
  <2>3. ts - ts <= FlowTimeout
    BY <1>1, WindowsAssumption
  <2> QED
    BY <1>1, <2>1, <2>2, <2>3 DEF Tracked
<1>3. ASSUME NEW k, k # Key(p)
      PROVE  k \in Tracked' <=> k \in Tracked /\ ts - Reference(k).last <= FlowTimeout
  <2>1. Of(k)' = Of(k) /\ Of(k) \subseteq 1..Len(log)
    BY <1>3, OpensSame, LogFacts DEF Of
  <2>2. \A i \in Of(k) : log'[i] = log[i] /\ log[i].ts \in Nat
    BY <1>1, <2>1, LogGrows
  <2>3. k \in Tracked' <=> k \in Keys /\ \E i \in Of(k) : ts - log[i].ts <= FlowTimeout
    BY <1>1, <2>1, <2>2 DEF Tracked
  <2>4. k \in Tracked <=> k \in Keys /\ \E i \in Of(k) : Now - log[i].ts <= FlowTimeout
    BY DEF Tracked
  <2>5. CASE Of(k) = {}
    BY <2>3, <2>4, <2>5
  <2>6. CASE Of(k) # {}
    <3>1. PICK last \in Nat : /\ last = Reference(k).last
                              /\ \E i \in Of(k) : last = log[i].ts
                              /\ \A i \in Of(k) : log[i].ts <= last
      BY <2>2, <2>6, ReferenceFacts
    <3>2. (\E i \in Of(k) : ts - log[i].ts <= FlowTimeout) <=> ts - last <= FlowTimeout
      <4>1. \A i \in Of(k) : ts - log[i].ts <= FlowTimeout => ts - last <= FlowTimeout
        BY <1>1, <2>2, <3>1, WindowsAssumption
      <4> QED
        BY <3>1, <4>1
    <3>3. ts - last <= FlowTimeout => \E i \in Of(k) : Now - log[i].ts <= FlowTimeout
      <4>1. ts - last <= FlowTimeout => Now - last <= FlowTimeout
        BY <1>1, <3>1, WindowsAssumption
      <4> QED
        BY <3>1, <4>1
    <3> QED
      BY <2>3, <2>4, <3>1, <3>2, <3>3
  <2> QED
    BY <2>5, <2>6
<1> QED
  BY <1>2, <1>3

\* update() and _expire_flows keep the table exact.
LEMMA FlowsMove ==
    ASSUME Timed, FlowTableIsExact, NEW p, NEW ts, Arrives(p, ts),
           flows' = Expired(WithFlow(p, ts), ts)
    PROVE  FlowTableIsExact'
<1> DEFINE table == WithFlow(p, ts)
<1> DEFINE live == {k \in DOMAIN table : ts - table[k].last <= FlowTimeout}
<1>1. flows = [k \in Tracked |-> Reference(k)]
  BY DEF FlowTableIsExact
<1>2. /\ DOMAIN table = Tracked \cup {Key(p)}
      /\ table[Key(p)] = Bumped(p, ts)
      /\ \A k \in Tracked : k # Key(p) => table[k] = Reference(k)
  BY <1>1 DEF WithFlow
<1>3. Bumped(p, ts).last = ts
  BY DEF Bumped
<1>4. live = Tracked'
  <2>1. Key(p) \in live
    <3>1. ts - ts <= FlowTimeout
      BY WindowsAssumption DEF Arrives
    <3> QED
      BY <1>2, <1>3, <3>1
  <2>2. \A k : k # Key(p) =>
            (k \in live <=> k \in Tracked /\ ts - Reference(k).last <= FlowTimeout)
    BY <1>2
  <2> HIDE DEF live
  <2>3. \A k : k \in live <=> k \in Tracked'
    BY <2>1, <2>2, TrackedMoves
  <2> QED
    BY <2>3
<1>5. flows' = [k \in live |-> table[k]]
  BY <1>2 DEF Expired, Restrict
<1>6. \A k \in Tracked' : table[k] = Reference(k)'
  <2>1. table[Key(p)] = Reference(Key(p))'
    BY <1>2, ReferenceGrows
  <2>2. ASSUME NEW k \in Tracked', k # Key(p) PROVE table[k] = Reference(k)'
    <3>1. k \in Tracked /\ Of(k) # {}
      BY <2>2, TrackedMoves DEF Tracked
    <3>2. Reference(k)' = Reference(k)
      BY <2>2, <3>1, ReferenceSame
    <3> QED
      BY <1>2, <2>2, <3>1, <3>2
  <2> QED
    BY <2>1, <2>2
<1>7. flows' = [k \in Tracked' |-> Reference(k)']
  <2> HIDE DEF live, table
  <2> QED
    BY <1>4, <1>5, <1>6
<1> QED
  BY <1>7 DEF FlowTableIsExact

\* The flow that update() bumps has the types of a flow, and does not go back in time.
LEMMA BumpedFacts ==
    ASSUME Timed, FlowTableIsExact, NEW p, NEW ts, Arrives(p, ts)
    PROVE  /\ Bumped(p, ts) \in Flow
           /\ Duration(Bumped(p, ts)) \in Nat
<1>1. ts \in Nat /\ p.length \in Nat /\ Now \in Nat /\ Now <= ts
  BY LogFacts, LengthsAssumption DEF Arrives
<1>2. flows = [k \in Tracked |-> Reference(k)]
  BY DEF FlowTableIsExact
<1>3. CASE Key(p) \in Tracked
  <2>1. Of(Key(p)) # {}
    BY <1>3 DEF Tracked
  <2>2. PICK old \in Flow : old = Reference(Key(p)) /\ old.start <= old.last /\ old.last <= Now
    BY <2>1, ReferenceFacts
  <2>3. Bumped(p, ts) = [start |-> old.start, last |-> ts,
                         packets |-> old.packets + 1, bytes |-> old.bytes + p.length]
    BY <1>2, <1>3, <2>2 DEF Bumped
  <2>4. /\ old.start \in Nat /\ old.last \in Nat
        /\ old.packets + 1 \in Nat /\ old.bytes + p.length \in Nat
    BY <1>1 DEF Flow
  <2>5. ts - old.start \in Nat
    BY <1>1, <2>2, <2>4
  <2>6. Bumped(p, ts) \in Flow
    BY <1>1, <2>3, <2>4 DEF Flow
  <2>7. Duration(Bumped(p, ts)) = ts - old.start
    BY <2>3 DEF Duration
  <2> QED
    BY <2>5, <2>6, <2>7
<1>4. CASE Key(p) \notin Tracked
  <2>1. Bumped(p, ts) = [start |-> ts, last |-> ts, packets |-> 0 + 1, bytes |-> 0 + p.length]
    BY <1>2, <1>4 DEF Bumped
  <2>2. 0 + 1 \in Nat /\ 0 + p.length \in Nat /\ ts - ts \in Nat
    BY <1>1
  <2>3. Bumped(p, ts) \in Flow
    BY <1>1, <2>1, <2>2 DEF Flow
  <2>4. Duration(Bumped(p, ts)) = ts - ts
    BY <2>1 DEF Duration
  <2> QED
    BY <2>2, <2>3, <2>4
<1> QED
  BY <1>3, <1>4

\* The table is finite: each of its flows has a packet in the log.
LEMMA TrackedIsFinite == ASSUME Timed PROVE IsFiniteSet(Tracked)
<1> DEFINE all == {Key(log[i].pkt) : i \in 1..Len(log)}
<1>1. Len(log) \in Nat /\ DOMAIN log = 1..Len(log)
  BY LogFacts
<1>2. [i \in 1..Len(log) |-> Key(log[i].pkt)] \in Surjection(1..Len(log), all)
  BY DEF Surjection
<1>3. Tracked \in SUBSET all
  BY <1>1 DEF Tracked, Of
<1>4. IsFiniteSet(all)
  <2> HIDE DEF all
  <2> QED
    BY <1>1, <1>2, CountOneTo, FS_Surjection
<1> HIDE DEF all
<1> QED
  BY <1>3, <1>4, FS_Subset

\* The long and thin flows can be counted,
LEMMA SlowCounted ==
    ASSUME Timed, FlowTableIsExact, NEW p
    PROVE  Cardinality(SlowFlows(flows, p)) \in Nat
<1>1. DOMAIN flows = Tracked
  BY DEF FlowTableIsExact
<1>2. SlowFlows(flows, p) \in SUBSET Tracked
  BY <1>1 DEF SlowFlows
<1> HIDE DEF SlowFlows
<1>3. IsFiniteSet(SlowFlows(flows, p))
  BY <1>2, TrackedIsFinite, FS_Subset
<1> QED
  BY <1>3, FS_CardinalityType

TableIsCounted == \A p : Cardinality(SlowFlows(flows, p)) \in Nat

\* after a step too.
LEMMA TableCounts == Timed /\ FlowTableIsExact => TableIsCounted
BY SlowCounted DEF TableIsCounted

\* The deques of the tracker hold what they should.
DequesHold == ScanWindows /\ SynWindows /\ AttemptWindows /\ IcmpWindows

SignalsTyped ==
    /\ DOMAIN signals = DOMAIN NoSignals
    /\ \A s \in DOMAIN signals : signals[s] \in Nat

FlowIsSignalled ==
    log # <<>> => /\ signals.bytes = LastFlow.bytes
                  /\ signals.duration = LastFlow.last - LastFlow.start

\* update() keeps its four deques, and those of the packet are exact.
LEMMA DequesMove ==
    ASSUME Timed, NEW p, NEW ts, Arrives(p, ts), DequesHold, Update(p, ts)
    PROVE  /\ DequesHold'
           /\ Mirrors(scanHistory'[p.src], Ports', Recent(Ports', Scans'[p.src], ts - ScanWindow))
           /\ Mirrors(synHistory'[p.src], Stamps', Recent(Stamps', Syns'[p.src], ts - SynWindow))
           /\ Mirrors(portAttempts'[Endpoint(p)], Stamps',
                      Recent(Stamps', Attempts'[Endpoint(p)], ts - PortRepeatWindow))
           /\ p.proto = "ICMP" =>
                  Mirrors(icmpHistory'[p.src], Stamps', Recent(Stamps', Icmps'[p.src], ts - IcmpWindow))
<1>1. ScanWindows /\ SynWindows /\ AttemptWindows /\ IcmpWindows
  BY DEF DequesHold
<1>2. /\ scanHistory' = [scanHistory EXCEPT ![p.src] =
             Pruned(AppendIf(~ IsDns(p), scanHistory[p.src], [ts |-> ts, port |-> p.dport]),
                    ts - ScanWindow)]
      /\ synHistory' = [synHistory EXCEPT ![p.src] =
             Pruned(AppendIf(IsBareSyn(p), synHistory[p.src], [ts |-> ts]), ts - SynWindow)]
      /\ portAttempts' = [portAttempts EXCEPT ![Endpoint(p)] =
             Pruned(AppendIf(IsBareSyn(p), portAttempts[Endpoint(p)], [ts |-> ts]),
                    ts - PortRepeatWindow)]
      /\ icmpHistory' = IF p.proto = "ICMP"
                        THEN [icmpHistory EXCEPT ![p.src] =
                                  Pruned(Append(icmpHistory[p.src], [ts |-> ts]), ts - IcmpWindow)]
                        ELSE icmpHistory
  BY DEF Update
<1>3. /\ ScanWindows'
      /\ Mirrors(scanHistory'[p.src], Ports', Recent(Ports', Scans'[p.src], ts - ScanWindow))
  BY <1>1, <1>2, ScanWindowsMove
<1>4. /\ SynWindows'
      /\ Mirrors(synHistory'[p.src], Stamps', Recent(Stamps', Syns'[p.src], ts - SynWindow))
  BY <1>1, <1>2, SynWindowsMove
<1>5. /\ AttemptWindows'
      /\ Mirrors(portAttempts'[Endpoint(p)], Stamps',
                 Recent(Stamps', Attempts'[Endpoint(p)], ts - PortRepeatWindow))
  BY <1>1, <1>2, AttemptWindowsMove
<1>6. CASE p.proto = "ICMP"
  <2>1. /\ IcmpWindows'
        /\ Mirrors(icmpHistory'[p.src], Stamps', Recent(Stamps', Icmps'[p.src], ts - IcmpWindow))
    BY <1>1, <1>2, <1>6, IcmpWindowsMove DEF AppendIf
  <2> QED
    BY <1>3, <1>4, <1>5, <2>1 DEF DequesHold
<1>7. CASE p.proto # "ICMP"
  <2>1. IcmpWindows'
    BY <1>1, <1>2, <1>7, IcmpWindowsStay
  <2> QED
    BY <1>3, <1>4, <1>5, <1>7, <2>1 DEF DequesHold
<1> QED
  BY <1>6, <1>7

\* What update() returns, read off the deques and the table it leaves.
LEMMA SignalsAre ==
    ASSUME Timed, NEW p, NEW ts, Arrives(p, ts), DequesHold, Update(p, ts)
    PROVE  signals' =
             [packets |-> Bumped(p, ts).packets, duration |-> Duration(Bumped(p, ts)),
              bytes |-> Bumped(p, ts).bytes,
              ports |-> Cardinality({scanHistory'[p.src][i].port :
                                         i \in DOMAIN scanHistory'[p.src]} \ {Null}),
              syns |-> Len(synHistory'[p.src]), repeats |-> Len(portAttempts'[Endpoint(p)]),
              icmps |-> IF p.proto = "ICMP" THEN Len(icmpHistory'[p.src]) ELSE 0,
              slow |-> Cardinality(SlowFlows(flows', p))]
<1> DEFINE scans == Pruned(AppendIf(~ IsDns(p), scanHistory[p.src],
                                    [ts |-> ts, port |-> p.dport]), ts - ScanWindow)
<1> DEFINE syns == Pruned(AppendIf(IsBareSyn(p), synHistory[p.src], [ts |-> ts]), ts - SynWindow)
<1> DEFINE repeats == Pruned(AppendIf(IsBareSyn(p), portAttempts[Endpoint(p)], [ts |-> ts]),
                             ts - PortRepeatWindow)
<1> DEFINE icmps == Pruned(Append(icmpHistory[p.src], [ts |-> ts]), ts - IcmpWindow)
<1>1. /\ scanHistory' = [scanHistory EXCEPT ![p.src] = scans]
      /\ synHistory' = [synHistory EXCEPT ![p.src] = syns]
      /\ portAttempts' = [portAttempts EXCEPT ![Endpoint(p)] = repeats]
      /\ icmpHistory' = IF p.proto = "ICMP" THEN [icmpHistory EXCEPT ![p.src] = icmps]
                        ELSE icmpHistory
      /\ signals' = [packets |-> Bumped(p, ts).packets, duration |-> Duration(Bumped(p, ts)),
                     bytes |-> Bumped(p, ts).bytes,
                     ports |-> Cardinality({scans[i].port : i \in DOMAIN scans} \ {Null}),
                     syns |-> Len(syns), repeats |-> Len(repeats),
                     icmps |-> IF p.proto = "ICMP" THEN Len(icmps) ELSE 0,
                     slow |-> Cardinality(SlowFlows(flows', p))]
  BY DEF Update
<1>2. /\ p.src \in DOMAIN scanHistory /\ p.src \in DOMAIN synHistory
      /\ Endpoint(p) \in DOMAIN portAttempts /\ p.src \in DOMAIN icmpHistory
  BY DEF DequesHold, ScanWindows, SynWindows, AttemptWindows, IcmpWindows, Windows, Arrives,
         Srcs, Endpoints
<1> HIDE DEF scans, syns, repeats, icmps
<1>3. /\ scanHistory'[p.src] = scans /\ synHistory'[p.src] = syns
      /\ portAttempts'[Endpoint(p)] = repeats
      /\ p.proto = "ICMP" => icmpHistory'[p.src] = icmps
  BY <1>1, <1>2
<1>4. CASE p.proto = "ICMP"
  BY <1>1, <1>3, <1>4
<1>5. CASE p.proto # "ICMP"
  BY <1>1, <1>3, <1>5
<1> QED
  BY <1>4, <1>5

\* The signals of the packet are those of the log with it.
LEMMA SignalsMove ==
    ASSUME Timed, FlowTableIsExact, NEW p, NEW ts, Arrives(p, ts), DequesHold, Update(p, ts)
    PROVE  SignalsAreExact' /\ SignalsTyped' /\ FlowIsSignalled'
<1>1. Timed' /\ Last' = p /\ FlowTableIsExact'
  BY LogGrows, FlowsMove DEF Update
<1>2. signals' =
             [packets |-> Bumped(p, ts).packets, duration |-> Duration(Bumped(p, ts)),
              bytes |-> Bumped(p, ts).bytes,
              ports |-> Cardinality({scanHistory'[p.src][i].port :
                                         i \in DOMAIN scanHistory'[p.src]} \ {Null}),
              syns |-> Len(synHistory'[p.src]), repeats |-> Len(portAttempts'[Endpoint(p)]),
              icmps |-> IF p.proto = "ICMP" THEN Len(icmpHistory'[p.src]) ELSE 0,
              slow |-> Cardinality(SlowFlows(flows', p))]
  BY SignalsAre
<1>3. /\ Len(synHistory'[p.src]) = Cardinality(SynsWithin(SynWindow)')
      /\ Len(synHistory'[p.src]) \in Nat
  BY DequesMove, SynsCounted DEF DequesHold
<1>4. /\ Len(portAttempts'[Endpoint(p)]) = Cardinality(AttemptsWithin(PortRepeatWindow)')
      /\ Len(portAttempts'[Endpoint(p)]) \in Nat
  BY DequesMove, AttemptsCounted DEF DequesHold
<1>5. p.proto = "ICMP" => /\ Len(icmpHistory'[p.src]) = Cardinality(IcmpsWithin(IcmpWindow)')
                          /\ Len(icmpHistory'[p.src]) \in Nat
  BY DequesMove, IcmpsCounted DEF DequesHold
<1>6. /\ {scanHistory'[p.src][i].port : i \in DOMAIN scanHistory'[p.src]} \ {Null}
             = PortsWithin(ScanWindow)'
      /\ Cardinality(PortsWithin(ScanWindow)') \in Nat
  <2>1. scanHistory'[p.src] \in Seq(PortEntry)
    BY DequesMove DEF DequesHold, ScanWindows, Windows, Arrives, Srcs
  <2> QED
    BY <2>1, DequesMove, PortsCounted
<1>7. /\ SlowFlows(flows', p) = SlowFlows([k \in Tracked |-> Reference(k)], Last)'
      /\ Cardinality(SlowFlows(flows', p)) \in Nat
  <2>1. flows' = [k \in Tracked' |-> Reference(k)']
    BY <1>1 DEF FlowTableIsExact
  <2>2. SlowFlows([k \in Tracked |-> Reference(k)], Last)'
            = SlowFlows([k \in Tracked' |-> Reference(k)'], p)
    BY <1>1 DEF SlowFlows, Duration
  <2>3. TableIsCounted'
    BY <1>1, TableCounts, PTL
  <2>4. Cardinality(SlowFlows(flows', p)) \in Nat
    BY <2>3 DEF TableIsCounted, SlowFlows, Duration
  <2> QED
    BY <2>1, <2>2, <2>4
<1>8. /\ Bumped(p, ts) \in Flow /\ Duration(Bumped(p, ts)) \in Nat
      /\ Reference(Key(p))' = Bumped(p, ts)
  BY BumpedFacts, ReferenceGrows
<1>9. SignalsAreExact'
  BY <1>1, <1>2, <1>3, <1>4, <1>5, <1>6, <1>7 DEF SignalsAreExact
<1>10. SignalsTyped'
  <2>1. PICK a \in Nat, b \in Nat, c \in Nat, d \in Nat, e \in Nat, f \in Nat, g \in Nat, h \in Nat :
            signals' = [packets |-> a, duration |-> b, bytes |-> c, ports |-> d,
                        syns |-> e, repeats |-> f, icmps |-> g, slow |-> h]
    <3>1. PICK a \in Nat, c \in Nat : a = Bumped(p, ts).packets /\ c = Bumped(p, ts).bytes
      BY <1>8 DEF Flow
    <3>2. PICK b \in Nat, d \in Nat : /\ b = Duration(Bumped(p, ts))
                                     /\ d = Cardinality(PortsWithin(ScanWindow)')
      BY <1>6, <1>8
    <3>3. PICK e \in Nat, f \in Nat : e = Len(synHistory'[p.src]) /\ f = Len(portAttempts'[Endpoint(p)])
      BY <1>3, <1>4
    <3>4. PICK g \in Nat, h \in Nat : /\ g = (IF p.proto = "ICMP" THEN Len(icmpHistory'[p.src]) ELSE 0)
                                     /\ h = Cardinality(SlowFlows(flows', p))
      BY <1>5, <1>7
    <3>5. signals' = [packets |-> a, duration |-> b, bytes |-> c, ports |-> d,
                      syns |-> e, repeats |-> f, icmps |-> g, slow |-> h]
      BY <1>2, <1>6, <3>1, <3>2, <3>3, <3>4
    <3> QED
      BY <3>5
  <2>2. DOMAIN signals' = DOMAIN NoSignals
    BY <2>1 DEF NoSignals
  <2>3. DOMAIN signals' = {"packets", "duration", "bytes", "ports", "syns", "repeats", "icmps",
                           "slow"}
    BY <2>1
  <2>4. /\ signals'.packets \in Nat /\ signals'.duration \in Nat /\ signals'.bytes \in Nat
        /\ signals'.ports \in Nat /\ signals'.syns \in Nat /\ signals'.repeats \in Nat
        /\ signals'.icmps \in Nat /\ signals'.slow \in Nat
    BY <2>1
  <2> QED
    BY <2>2, <2>3, <2>4 DEF SignalsTyped
<1>11. FlowIsSignalled'
  <2>1. LastFlow' = Bumped(p, ts)
    BY <1>1, <1>8 DEF LastFlow, Key
  <2>2. /\ signals'.bytes = Bumped(p, ts).bytes
        /\ signals'.duration = Bumped(p, ts).last - Bumped(p, ts).start
    BY <1>2 DEF Duration
  <2> QED
    BY <2>1, <2>2 DEF FlowIsSignalled
<1> QED
  BY <1>9, <1>10, <1>11

-----------------------------------------------------------------------------
(* The trackers *)

From(s) == {i \in DOMAIN log : i \in judged /\ log[i].pkt.src = s}
Offers == {i \in DOMAIN log : i \in judged /\ log[i].pkt.offer}

\* What the trackers keep is what the judged packets of the log say.
BaselineIsFirst ==
    /\ ttlBaseline \in [Srcs -> Nat \cup {Null}]
    /\ \A s \in Srcs :
          ttlBaseline[s] = IF From(s) = {} THEN Null ELSE log[Min(From(s))].pkt.ttl

ServersHaveOffered == dhcpServers = {log[i].pkt.src : i \in Offers}

\* What the trackers look for in the log, with one more packet.
LEMMA FromGrows ==
    ASSUME Timed, NEW p, NEW ts, Arrives(p, ts), NEW whether \in BOOLEAN, Judges(whether)
    PROVE  /\ \A s : From(s)' = IF s = p.src /\ whether THEN From(s) \cup {Len(log) + 1} ELSE From(s)
           /\ Offers' = IF p.offer /\ whether THEN Offers \cup {Len(log) + 1} ELSE Offers
           /\ Earlier' = From(p.src) /\ EarlierOffers' = Offers
           /\ \A i \in DOMAIN log : log'[i] = log[i]
           /\ log'[Len(log) + 1].pkt = p
<1> DEFINE n == Len(log)
<1>1. /\ DOMAIN log = 1..n /\ DOMAIN log' = 1..(n + 1) /\ n \in Nat
      /\ \A i \in 1..n : log'[i] = log[i] /\ i \in 1..(n + 1)
      /\ \A i \in 1..(n + 1) : i \in 1..n \/ i = n + 1
      /\ n + 1 \in 1..(n + 1) /\ n + 1 \notin 1..n
      /\ Last' = p /\ Len(log') = n + 1
  BY LogFacts, LogGrows
<1>2. log'[n + 1].pkt = p
  <2>1. log'[n + 1] = [ts |-> ts, pkt |-> p]
    BY LogGrows
  <2> QED
    BY <2>1
<1>3. Len(log') - 1 = n
  BY <1>1
<1>7. /\ \A i \in 1..n : i \in judged' <=> i \in judged
      /\ n + 1 \in judged' <=> whether
  BY <1>1 DEF Judges
<1>4. \A s : From(s)' = IF s = p.src /\ whether THEN From(s) \cup {n + 1} ELSE From(s)
  BY <1>1, <1>2, <1>7 DEF From
<1>5. Offers' = IF p.offer /\ whether THEN Offers \cup {n + 1} ELSE Offers
  BY <1>1, <1>2, <1>7 DEF Offers
<1>6. Earlier' = From(p.src) /\ EarlierOffers' = Offers
  BY <1>1, <1>3, <1>7 DEF Earlier, EarlierOffers, From, Offers
<1> QED
  BY <1>1, <1>2, <1>4, <1>5, <1>6

\* TtlTracker remembers the first judged packet of each source.
LEMMA BaselineMoves ==
    ASSUME Timed, NEW p, NEW ts, Arrives(p, ts), Judges(TRUE), BaselineIsFirst,
           ttlBaseline' = [ttlBaseline EXCEPT ![p.src] = IF @ = Null THEN p.ttl ELSE @]
    PROVE  BaselineIsFirst'
<1>1. /\ p \in Packets /\ p.src \in Srcs /\ p.ttl \in Nat /\ Null \notin Nat
      /\ Len(log) \in Nat /\ DOMAIN log = 1..Len(log)
      /\ \A i \in 1..Len(log) : log[i].pkt \in Packets
  BY LogFacts, TrackersAssumption DEF Arrives, Srcs
<1>2. /\ ttlBaseline \in [Srcs -> Nat \cup {Null}]
      /\ ttlBaseline'[p.src] = IF ttlBaseline[p.src] = Null THEN p.ttl ELSE ttlBaseline[p.src]
      /\ \A s \in Srcs : s # p.src => ttlBaseline'[s] = ttlBaseline[s]
      /\ ttlBaseline' \in [Srcs -> Nat \cup {Null}]
  BY <1>1 DEF BaselineIsFirst
<1>3. \A s : From(s) # {} => /\ Min(From(s)) \in From(s) /\ \A i \in From(s) : Min(From(s)) <= i
                             /\ Min(From(s)) \in 1..Len(log)
  <2>1. \A s : From(s) \in SUBSET Nat /\ From(s) \subseteq 1..Len(log)
    BY <1>1 DEF From
  <2> QED
    BY <2>1, LeastOf
<1>5. /\ \A s : From(s)' = IF s = p.src THEN From(s) \cup {Len(log) + 1} ELSE From(s)
      /\ \A i \in DOMAIN log : log'[i] = log[i]
      /\ log'[Len(log) + 1].pkt = p
  <2>1. /\ \A s : From(s)' = IF s = p.src /\ TRUE THEN From(s) \cup {Len(log) + 1} ELSE From(s)
        /\ \A i \in DOMAIN log : log'[i] = log[i]
        /\ log'[Len(log) + 1].pkt = p
    BY FromGrows
  <2> QED
    BY <2>1
<1>4. ASSUME NEW s \in Srcs
      PROVE  ttlBaseline'[s] = IF From(s)' = {} THEN Null ELSE log'[Min(From(s)')].pkt.ttl
  <2>1. CASE s # p.src
    <3>1. From(s)' = From(s) /\ ttlBaseline'[s] = ttlBaseline[s]
      BY <1>2, <2>1, <1>5
    <3>2. From(s) # {} => log'[Min(From(s))] = log[Min(From(s))]
      BY <1>1, <1>3, <1>5
    <3>3. ttlBaseline[s] = IF From(s) = {} THEN Null ELSE log[Min(From(s))].pkt.ttl
      BY DEF BaselineIsFirst
    <3> QED
      BY <3>1, <3>2, <3>3
  <2>2. CASE s = p.src
    <3> DEFINE new == Len(log) + 1
    <3>1. From(s)' = From(s) \cup {new} /\ new \in Nat
      BY <1>1, <2>2, <1>5
    <3>2. PICK now \in SUBSET Nat : now = From(s) \cup {new} /\ now # {}
      <4>1. \A i \in From(s) : i \in Nat
        BY <1>1 DEF From
      <4>2. From(s) \cup {new} \in SUBSET Nat
        BY <3>1, <4>1
      <4> HIDE DEF new
      <4> QED
        BY <4>2
    <3>3. Min(now) \in now /\ \A i \in now : Min(now) <= i
      BY <3>2, LeastOf
    <3>4. CASE From(s) = {}
      <4>1. Min(now) = new
        BY <3>2, <3>3, <3>4
      <4>2. ttlBaseline[s] = Null
        BY <3>4 DEF BaselineIsFirst
      <4>3. log'[new].pkt = p
        BY <1>5
      <4> QED
        BY <1>2, <2>2, <3>1, <3>2, <4>1, <4>2, <4>3
    <3>5. CASE From(s) # {}
      <4>1. PICK first \in 1..Len(log) : /\ first = Min(From(s)) /\ first \in From(s)
                                         /\ \A i \in From(s) : first <= i
        BY <1>3, <3>5
      <4>2. Min(now) = first
        <5>1. first \in now /\ first <= new /\ first \in Nat /\ Min(now) \in Nat
          BY <1>1, <3>2, <3>3, <4>1
        <5>2. \A i \in now : first <= i
          BY <3>2, <4>1, <5>1
        <5> QED
          BY <3>3, <5>1, <5>2
      <4>3. log'[first] = log[first] /\ log[first].pkt.ttl \in Nat
        BY <1>1, <4>1, <1>5, TrackersAssumption
      <4>4. ttlBaseline[s] = log[first].pkt.ttl
        BY <3>5, <4>1 DEF BaselineIsFirst
      <4>5. ttlBaseline'[s] = log[first].pkt.ttl
        BY <1>1, <1>2, <2>2, <4>3, <4>4
      <4> QED
        BY <3>1, <3>2, <4>2, <4>3, <4>5
    <3> QED
      BY <3>4, <3>5
  <2> QED
    BY <2>1, <2>2
<1> QED
  BY <1>2, <1>4 DEF BaselineIsFirst

\* It learns nothing from a packet that an exception ends.
LEMMA BaselineStays ==
    ASSUME Timed, NEW p, NEW ts, Arrives(p, ts), Judges(FALSE), BaselineIsFirst,
           ttlBaseline' = ttlBaseline
    PROVE  BaselineIsFirst'
<1>1. /\ \A s : From(s)' = IF s = p.src /\ FALSE THEN From(s) \cup {Len(log) + 1} ELSE From(s)
      /\ \A i \in DOMAIN log : log'[i] = log[i]
  BY FromGrows
<1>2. \A s : From(s)' = From(s)
  BY <1>1
<1>3. ASSUME NEW s, From(s) # {} PROVE log'[Min(From(s))] = log[Min(From(s))]
  <2>1. From(s) \in SUBSET Nat /\ From(s) \subseteq DOMAIN log
    BY LogFacts DEF From
  <2>2. Min(From(s)) \in DOMAIN log
    BY <1>3, <2>1, LeastOf
  <2> QED
    BY <1>1, <2>2
<1> QED
  BY <1>2, <1>3 DEF BaselineIsFirst

\* DhcpServerTracker remembers each source of a judged offer.
LEMMA ServersMove ==
    ASSUME Timed, NEW p, NEW ts, Arrives(p, ts), Judges(TRUE), ServersHaveOffered,
           dhcpServers' = IF p.offer THEN dhcpServers \cup {p.src} ELSE dhcpServers
    PROVE  ServersHaveOffered'
<1>6. /\ Offers' = IF p.offer THEN Offers \cup {Len(log) + 1} ELSE Offers
      /\ \A i \in DOMAIN log : log'[i] = log[i]
      /\ log'[Len(log) + 1].pkt = p
  <2>1. /\ Offers' = IF p.offer /\ TRUE THEN Offers \cup {Len(log) + 1} ELSE Offers
        /\ \A i \in DOMAIN log : log'[i] = log[i]
        /\ log'[Len(log) + 1].pkt = p
    BY FromGrows
  <2> QED
    BY <2>1
<1>1. Offers \subseteq DOMAIN log
  BY DEF Offers
<1>2. \A i \in Offers : log'[i] = log[i]
  BY <1>1, <1>6
<1>3. {log'[i].pkt.src : i \in Offers} = dhcpServers
  BY <1>2 DEF ServersHaveOffered
<1>4. CASE p.offer
  <2>1. Offers' = Offers \cup {Len(log) + 1} /\ log'[Len(log) + 1].pkt = p
    BY <1>4, <1>6
  <2>2. {log'[i].pkt.src : i \in Offers'} = {log'[i].pkt.src : i \in Offers} \cup {p.src}
    BY <2>1
  <2> QED
    BY <1>3, <1>4, <2>2 DEF ServersHaveOffered
<1>5. CASE ~ p.offer
  <2>1. Offers' = Offers
    BY <1>5, <1>6
  <2> QED
    BY <1>3, <1>5, <2>1 DEF ServersHaveOffered
<1> QED
  BY <1>4, <1>5

\* It learns nothing from a packet that an exception ends.
LEMMA ServersStay ==
    ASSUME Timed, NEW p, NEW ts, Arrives(p, ts), Judges(FALSE), ServersHaveOffered,
           dhcpServers' = dhcpServers
    PROVE  ServersHaveOffered'
<1>1. /\ Offers' = IF p.offer /\ FALSE THEN Offers \cup {Len(log) + 1} ELSE Offers
      /\ \A i \in DOMAIN log : log'[i] = log[i]
  BY FromGrows
<1>2. Offers' = Offers
  BY <1>1
<1>3. \A i \in Offers : log'[i] = log[i]
  BY <1>1 DEF Offers
<1> QED
  BY <1>2, <1>3 DEF ServersHaveOffered

\* The window of queries, and with it the labels that check_dns_tunnel counts.
LEMMA DnsMoves ==
    ASSUME Timed, NEW p, NEW ts, Arrives(p, ts), Judges(TRUE), DnsWindows,
           dnsHistory' = IF IsQuery(p) THEN [dnsHistory EXCEPT ![Zone(p)] = Queries(p, ts)]
                         ELSE dnsHistory
    PROVE  /\ DnsWindows'
           /\ IsQuery(p) => Labels(Queries(p, ts))
                                = {log'[i].pkt.query.label : i \in QueriesWithin(DnsWindow)'}
<1>1. CASE IsQuery(p)
  <2>1. dnsHistory' = [dnsHistory EXCEPT ![Zone(p)] =
            Pruned(Append(dnsHistory[Zone(p)], [ts |-> ts, label |-> p.query.label]),
                   ts - DnsWindow)]
    BY <1>1 DEF Queries
  <2>2. /\ DnsWindows'
        /\ Mirrors(dnsHistory'[Zone(p)], QueriesSeen',
                   Recent(QueriesSeen', ZoneQueries'[Zone(p)], ts - DnsWindow))
    BY <1>1, <2>1, DnsWindowsMove
  <2>3. Zone(p) \in Zones
    BY <1>1 DEF Zones, Arrives
  <2>4. dnsHistory'[Zone(p)] \in Seq(QueryEntry)
    BY <2>2, <2>3 DEF DnsWindows, Windows
  <2>5. dnsHistory'[Zone(p)] = Queries(p, ts)
    BY <1>1, <2>3 DEF DnsWindows, Windows
  <2> QED
    BY <1>1, <2>2, <2>4, <2>5, LabelsCollected
<1>2. CASE ~ IsQuery(p)
  BY <1>2, DnsWindowsStay
<1> QED
  BY <1>1, <1>2

\* The conditions of the trackers are the evidence of the log with the packet.
LEMMA TrackersAreRight ==
    ASSUME Timed, NEW p, NEW ts, Arrives(p, ts), Judges(TRUE), DnsWindows, BaselineIsFirst, ServersHaveOffered,
           dnsHistory' = IF IsQuery(p) THEN [dnsHistory EXCEPT ![Zone(p)] = Queries(p, ts)]
                         ELSE dnsHistory
    PROVE  /\ TrackerEvidence'.dns_tunneling <=> Tunnels(p, ts)
           /\ TrackerEvidence'.ttl_anomaly <=> Spoofed(p)
           /\ TrackerEvidence'.rogue_dhcp <=> Rogue(p)
           /\ TrackerEvidence'.threat_intel <=> Listed(p)
           /\ DOMAIN TrackerEvidence' = {"dns_tunneling", "ttl_anomaly", "rogue_dhcp", "threat_intel"}
<1>1. Last' = p /\ p \in Packets /\ p.src \in Srcs
  BY LogGrows DEF Arrives, Srcs
<1>2. Earlier' = From(p.src) /\ EarlierOffers' = Offers
  BY FromGrows
<1>3. TrackerEvidence'.dns_tunneling <=> Tunnels(p, ts)
  <2>1. TrackerEvidence'.dns_tunneling <=>
            IsQuery(p) /\ \/ p.query.label \in EncodedLabels
                          \/ Cardinality({log'[i].pkt.query.label : i \in QueriesWithin(DnsWindow)'})
                                 >= DnsMinDistinct
    BY <1>1 DEF TrackerEvidence
  <2> QED
    BY <2>1, DnsMoves DEF Tunnels
<1>4. TrackerEvidence'.ttl_anomaly <=> Spoofed(p)
  <2>1. TrackerEvidence'.ttl_anomaly <=>
            /\ From(p.src) # {}
            /\ Distance(log'[Min(From(p.src))].pkt.ttl, p.ttl) >= TtlThreshold
    BY <1>1, <1>2 DEF TrackerEvidence
  <2>2. CASE From(p.src) = {}
    <3>1. ttlBaseline[p.src] = Null
      BY <1>1, <2>2 DEF BaselineIsFirst
    <3> QED
      BY <2>1, <2>2, <3>1 DEF Spoofed
  <2>3. CASE From(p.src) # {}
    <3>1. ttlBaseline[p.src] = log[Min(From(p.src))].pkt.ttl
      BY <1>1, <2>3 DEF BaselineIsFirst
    <3>2. Min(From(p.src)) \in DOMAIN log
      <4>1. From(p.src) \in SUBSET Nat /\ From(p.src) \subseteq DOMAIN log
        BY LogFacts DEF From
      <4> QED
        BY <2>3, <4>1, LeastOf
    <3>3. log'[Min(From(p.src))] = log[Min(From(p.src))]
      BY <3>2, FromGrows
    <3>4. log[Min(From(p.src))].pkt.ttl \in Nat /\ Null \notin Nat
      BY <3>2, LogFacts, TrackersAssumption
    <3> QED
      BY <2>1, <2>3, <3>1, <3>3, <3>4 DEF Spoofed
  <2> QED
    BY <2>2, <2>3
<1>5. TrackerEvidence'.rogue_dhcp <=> Rogue(p)
  <2>1. TrackerEvidence'.rogue_dhcp <=> p.offer /\ Offers # {} /\ Offers \cap From(p.src) = {}
    BY <1>1, <1>2 DEF TrackerEvidence
  <2>2. Offers \cap From(p.src) = {} <=> p.src \notin dhcpServers
    BY DEF ServersHaveOffered, Offers, From
  <2>3. Offers # {} <=> dhcpServers # {}
    BY DEF ServersHaveOffered
  <2> QED
    BY <2>1, <2>2, <2>3 DEF Rogue
<1>6. TrackerEvidence'.threat_intel <=> Listed(p)
  BY <1>1 DEF TrackerEvidence, Listed
<1>7. DOMAIN TrackerEvidence' = {"dns_tunneling", "ttl_anomaly", "rogue_dhcp", "threat_intel"}
  BY DEF TrackerEvidence
<1> QED
  BY <1>3, <1>4, <1>5, <1>6, <1>7

-----------------------------------------------------------------------------
(* The reasons *)

Entries(seq) == {seq[i] : i \in DOMAIN seq}

TrackerCategories == {"dns_tunneling", "ttl_anomaly", "rogue_dhcp", "threat_intel"}

HybridCategories == {"stealth_scan", "invalid_flags", "smurf_attack", "port_scan", "syn_flood",
                     "brute_force", "repeated_port_probe", "slowloris", "icmp_flood",
                     "possible_exfiltration"}

\* When the hybrid rule of a category fires.
Fires(c, p, s) == \E i \in DOMAIN HybridRules(p, s) :
                      HybridRules(p, s)[i].category = c /\ HybridRules(p, s)[i].fires

\* The conditions of the rules, by their category.
LEMMA FiresWhen ==
    ASSUME NEW p, NEW s
    PROVE  /\ DOMAIN HybridRules(p, s) = 1..10
           /\ \A i \in 1..10 : HybridRules(p, s)[i].category \in HybridCategories
           /\ Fires("port_scan", p, s) <=> s.ports > ScanDeviation /\ s.ports >= ScanMinPorts
           /\ Fires("syn_flood", p, s) <=> s.syns >= SynThreshold
           /\ Fires("brute_force", p, s) <=>
                  p.dport \in BruteForcePorts /\ s.repeats >= BruteForceThreshold
           /\ Fires("repeated_port_probe", p, s) <=> s.repeats >= PortRepeatThreshold
           /\ Fires("slowloris", p, s) <=> s.slow >= SlowMinConnections
           /\ Fires("icmp_flood", p, s) <=> s.icmps >= IcmpThreshold
           /\ Fires("possible_exfiltration", p, s) <=>
                  s.bytes >= ExfilBytes /\ s.duration >= ExfilMinDuration
<1> DEFINE rules == HybridRules(p, s)
<1>1. /\ DOMAIN rules = 1..10
      /\ rules[1].category = "stealth_scan" /\ rules[2].category = "invalid_flags"
      /\ rules[3].category = "smurf_attack"
  BY DEF HybridRules
<1>2. /\ rules[4].category = "port_scan" /\ rules[5].category = "syn_flood"
      /\ rules[6].category = "brute_force" /\ rules[7].category = "repeated_port_probe"
      /\ rules[8].category = "slowloris" /\ rules[9].category = "icmp_flood"
      /\ rules[10].category = "possible_exfiltration"
  BY DEF HybridRules
<1>3. /\ rules[4].fires <=> s.ports > ScanDeviation /\ s.ports >= ScanMinPorts
      /\ rules[5].fires <=> s.syns >= SynThreshold
      /\ rules[6].fires <=> p.dport \in BruteForcePorts /\ s.repeats >= BruteForceThreshold
      /\ rules[7].fires <=> s.repeats >= PortRepeatThreshold
      /\ rules[8].fires <=> s.slow >= SlowMinConnections
      /\ rules[9].fires <=> s.icmps >= IcmpThreshold
      /\ rules[10].fires <=> s.bytes >= ExfilBytes /\ s.duration >= ExfilMinDuration
  BY DEF HybridRules
<1>4. \A c : Fires(c, p, s) <=> \E i \in 1..10 : rules[i].category = c /\ rules[i].fires
  BY <1>1 DEF Fires
<1>5. \A i \in 1..10 : i = 1 \/ i = 2 \/ i = 3 \/ i = 4 \/ i = 5 \/ i = 6 \/ i = 7 \/ i = 8
                       \/ i = 9 \/ i = 10
  OBVIOUS
<1> HIDE DEF rules
<1>6. \A i \in 1..10 : rules[i].category \in HybridCategories
  BY <1>1, <1>2, <1>5 DEF HybridCategories
<1>7. /\ Fires("port_scan", p, s) <=> rules[4].fires
      /\ Fires("syn_flood", p, s) <=> rules[5].fires
      /\ Fires("brute_force", p, s) <=> rules[6].fires
      /\ Fires("repeated_port_probe", p, s) <=> rules[7].fires
      /\ Fires("slowloris", p, s) <=> rules[8].fires
      /\ Fires("icmp_flood", p, s) <=> rules[9].fires
      /\ Fires("possible_exfiltration", p, s) <=> rules[10].fires
  BY <1>1, <1>2, <1>4, <1>5
<1> QED
  BY <1>1, <1>3, <1>6, <1>7 DEF rules

\* check_hybrid_rules reports one category that fires, if any does.
LEMMA HybridReasonIs ==
    ASSUME NEW p, NEW s
    PROVE  LET found == HybridReason(p, s)
           IN  /\ found \in Seq(HybridCategories) /\ Len(found) <= 1
               /\ \A c \in Entries(found) : Fires(c, p, s)
               /\ \A c : Fires(c, p, s) => found # <<>>
<1> DEFINE rules == HybridRules(p, s)
<1> DEFINE hits == {i \in DOMAIN rules : rules[i].fires}
<1>1. HybridReason(p, s) = IF hits = {} THEN <<>> ELSE <<rules[Min(hits)].category>>
  BY DEF HybridReason
<1>2. DOMAIN rules = 1..10 /\ \A i \in 1..10 : rules[i].category \in HybridCategories
  BY FiresWhen
<1>3. \A c : Fires(c, p, s) => hits # {}
  BY DEF Fires
<1>4. CASE hits = {}
  <2>1. HybridReason(p, s) = <<>> /\ Entries(<<>>) = {} /\ <<>> \in Seq(HybridCategories)
    BY <1>1, <1>4 DEF Entries
  <2> QED
    BY <1>3, <1>4, <2>1
<1>5. CASE hits # {}
  <2>1. hits \in SUBSET Nat
    BY <1>2
  <2>2. Min(hits) \in hits
    BY <1>5, <2>1, LeastOf
  <2>3. PICK i \in 1..10 : i = Min(hits) /\ rules[i].fires
    BY <1>2, <2>2
  <2>4. PICK c \in HybridCategories : c = rules[i].category /\ Fires(c, p, s)
    BY <1>2, <2>3 DEF Fires
  <2>5. HybridReason(p, s) = <<c>>
    BY <1>1, <1>5, <2>3, <2>4
  <2>6. /\ <<c>> \in Seq(HybridCategories) /\ Len(<<c>>) = 1 /\ <<c>> # <<>>
        /\ Entries(<<c>>) = {c}
    BY DEF Entries
  <2> QED
    BY <2>4, <2>5, <2>6
<1> QED
  BY <1>4, <1>5

\* What a tracker adds to the reasons found before.
Extended(new, found, condition, category, S) ==
    /\ new \in Seq(S) /\ Len(new) <= Len(found) + 1
    /\ \A c \in Entries(new) : c \in Entries(found) \/ (c = category /\ condition)
    /\ \A c \in Entries(found) : c \in Entries(new)
    /\ condition => category \in Entries(new)
    /\ found # <<>> => new # <<>> /\ new[1] = found[1]

\* rule_reason = new if not rule_reason else f"{rule_reason}; {new}".
LEMMA AddReasonIs ==
    ASSUME NEW S, NEW found \in Seq(S), NEW category \in S, NEW condition \in BOOLEAN,
           NEW new, new = AddReason(found, condition, category)
    PROVE  Extended(new, found, condition, category, S)
<1>1. Len(found) \in Nat /\ DOMAIN found = 1..Len(found)
  OBVIOUS
<1>2. CASE condition
  <2>1. new = Append(found, category)
    BY <1>2 DEF AddReason
  <2>2. /\ new \in Seq(S) /\ Len(new) = Len(found) + 1
        /\ DOMAIN new = 1..(Len(found) + 1) /\ new[Len(found) + 1] = category
        /\ \A i \in 1..Len(found) : new[i] = found[i]
    BY <2>1
  <2>3. /\ \A i \in 1..(Len(found) + 1) : i \in 1..Len(found) \/ i = Len(found) + 1
        /\ \A i \in 1..Len(found) : i \in 1..(Len(found) + 1)
        /\ Len(found) + 1 \in 1..(Len(found) + 1)
    BY <1>1
  <2>4. /\ \A c \in Entries(new) : c \in Entries(found) \/ c = category
        /\ \A c \in Entries(found) : c \in Entries(new)
        /\ category \in Entries(new)
    BY <1>1, <2>2, <2>3 DEF Entries
  <2>5. found # <<>> => new # <<>> /\ new[1] = found[1]
    <3>1. found # <<>> => 1 \in 1..Len(found)
      BY <1>1
    <3>2. new # <<>>
      BY <1>1, <2>2
    <3> QED
      BY <2>2, <3>1, <3>2
  <2>6. Len(new) <= Len(found) + 1
    BY <1>1, <2>2
  <2> QED
    BY <1>2, <2>2, <2>4, <2>5, <2>6 DEF Extended
<1>3. CASE ~ condition
  <2>1. new = found
    BY <1>3 DEF AddReason
  <2>2. Len(new) <= Len(found) + 1
    BY <1>1, <2>1
  <2> QED
    BY <1>3, <2>1, <2>2 DEF Extended
<1> QED
  BY <1>2, <1>3

\* The combined reason.
LEMMA ReasonsAre ==
    ASSUME NEW p, NEW ts, Receive(p, ts)
    PROVE  LET found == HybridReason(p, signals')
           IN  /\ reasons' \in Seq(Categories) /\ Len(reasons') <= 5
               /\ \A c \in Entries(reasons') :
                      \/ c \in HybridCategories /\ Fires(c, p, signals')
                      \/ c = "dns_tunneling" /\ Tunnels(p, ts)
                      \/ c = "ttl_anomaly" /\ Spoofed(p)
                      \/ c = "rogue_dhcp" /\ Rogue(p)
                      \/ c = "threat_intel" /\ Listed(p)
               /\ Tunnels(p, ts) => "dns_tunneling" \in Entries(reasons')
               /\ Spoofed(p) => "ttl_anomaly" \in Entries(reasons')
               /\ Rogue(p) => "rogue_dhcp" \in Entries(reasons')
               /\ Listed(p) => "threat_intel" \in Entries(reasons')
               /\ (\E c : Fires(c, p, signals')) =>
                      reasons' # <<>> /\ reasons'[1] \in HybridCategories
<1> DEFINE T == Categories
<1>1. PICK s : s = signals'
  OBVIOUS
<1> DEFINE f == HybridReason(p, s)
<1>a. PICK tunnels \in BOOLEAN : tunnels = Tunnels(p, ts)
  BY DEF Tunnels
<1>b. PICK spoofed \in BOOLEAN : spoofed = Spoofed(p)
  BY DEF Spoofed
<1>c. PICK rogue \in BOOLEAN : rogue = Rogue(p)
  BY DEF Rogue
<1>d. PICK listed \in BOOLEAN : listed = Listed(p)
  <2>1. Listed(p) = TRUE \/ Listed(p) = FALSE
    BY DEF Listed
  <2> QED
    BY <2>1
<1>3. /\ tunnels = Tunnels(p, ts) /\ spoofed = Spoofed(p)
      /\ rogue = Rogue(p) /\ listed = Listed(p)
  BY <1>a, <1>b, <1>c, <1>d
<1> DEFINE f1 == AddReason(f, tunnels, "dns_tunneling")
<1> DEFINE f2 == AddReason(f1, spoofed, "ttl_anomaly")
<1> DEFINE f3 == AddReason(f2, rogue, "rogue_dhcp")
<1> DEFINE f4 == AddReason(f3, listed, "threat_intel")
<1>2. reasons' = f4
  BY <1>1, <1>3 DEF Receive
<1>4. /\ "dns_tunneling" \in T /\ "ttl_anomaly" \in T /\ "rogue_dhcp" \in T /\ "threat_intel" \in T
      /\ HybridCategories \subseteq T
  BY DEF Categories, HybridCategories
<1>5. /\ f \in Seq(HybridCategories) /\ Len(f) <= 1
      /\ \A c \in Entries(f) : c \in HybridCategories /\ Fires(c, p, s)
      /\ \A c : Fires(c, p, s) => f # <<>>
      /\ f # <<>> => f[1] \in HybridCategories
  <2>1. /\ f \in Seq(HybridCategories) /\ Len(f) <= 1
        /\ \A c \in Entries(f) : Fires(c, p, s)
        /\ \A c : Fires(c, p, s) => f # <<>>
    BY HybridReasonIs
  <2> HIDE DEF f
  <2>2. \A c \in Entries(f) : c \in HybridCategories
    BY <2>1 DEF Entries
  <2>3. f # <<>> => f[1] \in HybridCategories
    BY <2>1
  <2> QED
    BY <2>1, <2>2, <2>3
<1> HIDE DEF T, f
<1>6. f \in Seq(T)
  BY <1>4, <1>5
<1>7. Extended(f1, f, tunnels, "dns_tunneling", T)
  BY <1>4, <1>6, AddReasonIs
<1> HIDE DEF f1
<1>8. Extended(f2, f1, spoofed, "ttl_anomaly", T)
  <2>1. f1 \in Seq(T)
    BY <1>7 DEF Extended
  <2> QED
    BY <1>4, <2>1, AddReasonIs
<1> HIDE DEF f2
<1>9. Extended(f3, f2, rogue, "rogue_dhcp", T)
  <2>1. f2 \in Seq(T)
    BY <1>8 DEF Extended
  <2> QED
    BY <1>4, <2>1, AddReasonIs
<1> HIDE DEF f3
<1>10. Extended(f4, f3, listed, "threat_intel", T)
  <2>1. f3 \in Seq(T)
    BY <1>9 DEF Extended
  <2> QED
    BY <1>4, <2>1, AddReasonIs
<1> HIDE DEF f4
<1>11. Len(f4) <= 5
  <2>1. Len(f) \in Nat /\ Len(f1) \in Nat /\ Len(f2) \in Nat /\ Len(f3) \in Nat /\ Len(f4) \in Nat
    BY <1>6, <1>7, <1>8, <1>9, <1>10 DEF Extended
  <2> QED
    BY <1>5, <1>7, <1>8, <1>9, <1>10, <2>1 DEF Extended
<1>12. \A c \in Entries(f4) :
           \/ c \in Entries(f)
           \/ c = "dns_tunneling" /\ tunnels
           \/ c = "ttl_anomaly" /\ spoofed
           \/ c = "rogue_dhcp" /\ rogue
           \/ c = "threat_intel" /\ listed
  BY <1>7, <1>8, <1>9, <1>10 DEF Extended
<1>13. /\ tunnels => "dns_tunneling" \in Entries(f4)
       /\ spoofed => "ttl_anomaly" \in Entries(f4)
       /\ rogue => "rogue_dhcp" \in Entries(f4)
       /\ listed => "threat_intel" \in Entries(f4)
  BY <1>7, <1>8, <1>9, <1>10 DEF Extended
<1>14. (\E c : Fires(c, p, s)) => f4 # <<>> /\ f4[1] \in HybridCategories
  BY <1>5, <1>7, <1>8, <1>9, <1>10 DEF Extended
<1> QED
  BY <1>1, <1>2, <1>3, <1>5, <1>10, <1>11, <1>12, <1>13, <1>14 DEF T, Extended

-----------------------------------------------------------------------------
(* The evidence *)

\* A volume rule whose evidence the log holds fires, and the other way round unless the
\* threshold for ICMP is 0, which every packet reaches.
LEMMA EvidenceFires ==
    ASSUME log' # <<>>, NEW p, Last' = p, SignalsAreExact', FlowIsSignalled', SignalsTyped',
           NEW c \in DOMAIN VolumeEvidence'
    PROVE  /\ VolumeEvidence'[c] => Fires(c, p, signals')
           /\ IcmpThreshold \in Nat \ {0} /\ Fires(c, p, signals') => VolumeEvidence'[c]
<1> DEFINE attempts == Cardinality(AttemptsWithin(PortRepeatWindow)')
<1> DEFINE ports == Cardinality(PortsWithin(ScanWindow)')
<1>1. PICK s : s = signals'
  OBVIOUS
<1>2. /\ s.syns = Cardinality(SynsWithin(SynWindow)')
      /\ s.repeats = attempts /\ s.ports = ports
      /\ s.icmps = IF p.proto = "ICMP" THEN Cardinality(IcmpsWithin(IcmpWindow)') ELSE 0
      /\ s.slow = Cardinality(SlowFlows([k \in Tracked |-> Reference(k)], Last)')
  BY <1>1 DEF SignalsAreExact
<1>3. s.bytes = LastFlow'.bytes /\ s.duration = LastFlow'.last - LastFlow'.start
  BY <1>1 DEF FlowIsSignalled
<1>4. VolumeEvidence' =
        [port_scan |-> ports >= ScanMinPorts /\ ports > ScanDeviation,
         syn_flood |-> Cardinality(SynsWithin(SynWindow)') >= SynThreshold,
         brute_force |-> p.dport \in BruteForcePorts /\ attempts >= BruteForceThreshold,
         repeated_port_probe |-> attempts >= PortRepeatThreshold,
         slowloris |-> Cardinality(SlowFlows([k \in Tracked |-> Reference(k)], Last)')
                           >= SlowMinConnections,
         icmp_flood |-> p.proto = "ICMP" /\ Cardinality(IcmpsWithin(IcmpWindow)') >= IcmpThreshold,
         possible_exfiltration |-> /\ LastFlow'.bytes >= ExfilBytes
                                   /\ LastFlow'.last - LastFlow'.start >= ExfilMinDuration]
  BY DEF VolumeEvidence
<1>5. c \in {"port_scan", "syn_flood", "brute_force", "repeated_port_probe", "slowloris",
             "icmp_flood", "possible_exfiltration"}
  BY <1>4
<1> HIDE DEF attempts, ports
<1>6. CASE c = "port_scan"
  <2>1. VolumeEvidence'.port_scan <=> ports >= ScanMinPorts /\ ports > ScanDeviation
    BY <1>4
  <2> QED
    BY <1>1, <1>2, <1>6, <2>1, FiresWhen
<1>7. CASE c = "syn_flood"
  <2>1. VolumeEvidence'.syn_flood <=> Cardinality(SynsWithin(SynWindow)') >= SynThreshold
    BY <1>4
  <2> QED
    BY <1>1, <1>2, <1>7, <2>1, FiresWhen
<1>8. CASE c = "brute_force"
  <2>1. VolumeEvidence'.brute_force <=> p.dport \in BruteForcePorts /\ attempts >= BruteForceThreshold
    BY <1>4
  <2> QED
    BY <1>1, <1>2, <1>8, <2>1, FiresWhen
<1>9. CASE c = "repeated_port_probe"
  <2>1. VolumeEvidence'.repeated_port_probe <=> attempts >= PortRepeatThreshold
    BY <1>4
  <2> QED
    BY <1>1, <1>2, <1>9, <2>1, FiresWhen
<1>10. CASE c = "slowloris"
  <2>1. VolumeEvidence'.slowloris <=>
            Cardinality(SlowFlows([k \in Tracked |-> Reference(k)], Last)') >= SlowMinConnections
    BY <1>4
  <2> QED
    BY <1>1, <1>2, <1>10, <2>1, FiresWhen
<1>11. CASE c = "icmp_flood"
  <2>1. VolumeEvidence'.icmp_flood <=>
            p.proto = "ICMP" /\ Cardinality(IcmpsWithin(IcmpWindow)') >= IcmpThreshold
    BY <1>4
  <2>2. IcmpThreshold \in Nat \ {0} => ~ (0 >= IcmpThreshold)
    OBVIOUS
  <2>3. Fires("icmp_flood", p, s) <=> s.icmps >= IcmpThreshold
    BY FiresWhen
  <2>4. CASE p.proto = "ICMP"
    BY <1>1, <1>2, <1>11, <2>1, <2>3, <2>4
  <2>5. CASE p.proto # "ICMP"
    BY <1>1, <1>2, <1>11, <2>1, <2>2, <2>3, <2>5
  <2> QED
    BY <2>4, <2>5
<1>12. CASE c = "possible_exfiltration"
  <2>1. VolumeEvidence'.possible_exfiltration <=>
            LastFlow'.bytes >= ExfilBytes /\ LastFlow'.last - LastFlow'.start >= ExfilMinDuration
    BY <1>4
  <2> QED
    BY <1>1, <1>3, <1>12, <2>1, FiresWhen
<1> QED
  BY <1>5, <1>6, <1>7, <1>8, <1>9, <1>10, <1>11, <1>12

DetectorsInv ==
    /\ judged \subseteq DOMAIN log
    /\ Timed /\ FlowTableIsExact /\ DequesHold /\ DnsWindows
    /\ BaselineIsFirst /\ ServersHaveOffered
    /\ SignalsTyped /\ SignalsAreExact
    /\ reasons \in Seq(Categories) /\ Len(reasons) <= 5
    /\ EvidenceIsReported
    /\ IcmpThreshold \in Nat \ {0} => ReasonsAreJustified

\* An empty deque mirrors an empty log.
LEMMA WindowsStart ==
    ASSUME NEW K, NEW H, H = [k \in K |-> <<>>], NEW S, NEW e, NEW picked,
           \A k \in K : picked[k] = {}, NEW latest \in Int
    PROVE  Windows(H, K, S, e, picked, latest)
<1>1. Mirrors(<<>>, e, {})
  <2>1. 1..Len(<<>>) = {}
    OBVIOUS
  <2>2. [i \in {} |-> i] \in [1..Len(<<>>) -> {}]
    BY <2>1
  <2> QED
    BY <2>1, <2>2 DEF Mirrors
<1>2. ASSUME NEW k \in K PROVE Kept(H[k], e, picked[k], latest)
  <2>1. {i \in picked[k] : e[i].ts >= latest} = {} /\ H[k] = <<>> /\ latest <= latest
    OBVIOUS
  <2> QED
    BY <1>1, <2>1 DEF Kept
<1>3. H \in [K -> Seq(S)]
  OBVIOUS
<1> QED
  BY <1>2, <1>3 DEF Windows

\* The engine starts with nothing, as the log does.
LEMMA DetectorsStart == DetectorsInit => DetectorsInv
<1> SUFFICES ASSUME DetectorsInit PROVE DetectorsInv
  OBVIOUS
<1>1. /\ log = <<>> /\ DOMAIN log = {} /\ Len(log) = 0 /\ Now = 0
  BY DEF DetectorsInit, Init, Now
<1>2. Timed
  BY <1>1, WindowsAssumption DEF Timed, Entry
<1>3. FlowTableIsExact
  <2>1. Tracked = {}
    BY <1>1 DEF Tracked, Of
  <2>2. flows = <<>>
    BY DEF DetectorsInit, Init
  <2> QED
    BY <2>1, <2>2 DEF FlowTableIsExact
<1>4. /\ Now - ScanWindow \in Int /\ Now - SynWindow \in Int /\ Now - PortRepeatWindow \in Int
      /\ Now - IcmpWindow \in Int /\ Now - DnsWindow \in Int
  BY <1>1, WindowsAssumption, TrackersAssumption
<1>5. ScanWindows
  <2>1. \A k \in Srcs : Scans[k] = {}
    BY <1>1 DEF Scans
  <2> QED
    BY <1>4, <2>1, WindowsStart DEF ScanWindows, DetectorsInit, Init
<1>6. SynWindows
  <2>1. \A k \in Srcs : Syns[k] = {}
    BY <1>1 DEF Syns
  <2> QED
    BY <1>4, <2>1, WindowsStart DEF SynWindows, DetectorsInit, Init
<1>7. AttemptWindows
  <2>1. \A k \in Endpoints : Attempts[k] = {}
    BY <1>1 DEF Attempts
  <2> QED
    BY <1>4, <2>1, WindowsStart DEF AttemptWindows, DetectorsInit, Init
<1>8. IcmpWindows
  <2>1. \A k \in Srcs : Icmps[k] = {}
    BY <1>1 DEF Icmps
  <2> QED
    BY <1>4, <2>1, WindowsStart DEF IcmpWindows, DetectorsInit, Init
<1>9. DnsWindows
  <2>1. \A k \in Zones : ZoneQueries[k] = {}
    BY <1>1 DEF ZoneQueries
  <2> QED
    BY <1>4, <2>1, WindowsStart DEF DnsWindows, DetectorsInit
<1>10. BaselineIsFirst /\ ServersHaveOffered
  <2>1. \A s \in Srcs : From(s) = {}
    BY <1>1 DEF From
  <2>2. Offers = {}
    BY <1>1 DEF Offers
  <2> QED
    BY <2>1, <2>2 DEF BaselineIsFirst, ServersHaveOffered, DetectorsInit
<1>11. SignalsTyped
  BY DEF SignalsTyped, DetectorsInit, Init, NoSignals
<1>12. SignalsAreExact /\ EvidenceIsReported /\ ReasonsAreJustified
  <2>1. judged = {}
    BY DEF DetectorsInit
  <2> QED
    BY <1>1, <2>1 DEF SignalsAreExact, EvidenceIsReported, ReasonsAreJustified
<1>13. reasons \in Seq(Categories) /\ Len(reasons) <= 5 /\ judged \subseteq DOMAIN log
  BY DEF DetectorsInit
<1> QED
  BY <1>2, <1>3, <1>5, <1>6, <1>7, <1>8, <1>9, <1>10, <1>11, <1>12, <1>13
  DEF DetectorsInv, DequesHold

\* handle() keeps the invariant when nothing raises,
LEMMA DetectorsStep ==
    ASSUME DetectorsInv, NEW p \in Packets, NEW ts \in Nat, Now <= ts, Len(log) < MaxPackets,
           Receive(p, ts)
    PROVE  DetectorsInv'
<1>1. Timed /\ FlowTableIsExact /\ DequesHold /\ DnsWindows /\ BaselineIsFirst /\ ServersHaveOffered
  BY DEF DetectorsInv
<1>2. /\ Update(p, ts)
      /\ dnsHistory' = IF IsQuery(p) THEN [dnsHistory EXCEPT ![Zone(p)] = Queries(p, ts)]
                       ELSE dnsHistory
      /\ ttlBaseline' = [ttlBaseline EXCEPT ![p.src] = IF @ = Null THEN p.ttl ELSE @]
      /\ dhcpServers' = IF p.offer THEN dhcpServers \cup {p.src} ELSE dhcpServers
  BY DEF Receive
<1>3. Arrives(p, ts)
  BY <1>2 DEF Arrives, Update
<1>18. Judges(TRUE)
  BY DEF DetectorsInv, Receive, Judges
<1>19. judged' \subseteq DOMAIN log'
  BY <1>1, <1>3, <1>18, LogGrows DEF Judges
<1>4. Timed' /\ log' # <<>> /\ Last' = p
  BY <1>1, <1>3, LogGrows
<1>5. FlowTableIsExact'
  BY <1>1, <1>2, <1>3, FlowsMove DEF Update
<1>6. DequesHold'
  BY <1>1, <1>2, <1>3, DequesMove
<1>7. DnsWindows'
  BY <1>1, <1>2, <1>3, <1>18, DnsMoves
<1>8. BaselineIsFirst' /\ ServersHaveOffered'
  BY <1>1, <1>2, <1>3, <1>18, BaselineMoves, ServersMove
<1>9. SignalsTyped' /\ SignalsAreExact' /\ FlowIsSignalled'
  BY <1>1, <1>2, <1>3, SignalsMove
<1>10. /\ reasons' \in Seq(Categories) /\ Len(reasons') <= 5
       /\ \A c \in Entries(reasons') :
              \/ c \in HybridCategories /\ Fires(c, p, signals')
              \/ c = "dns_tunneling" /\ Tunnels(p, ts)
              \/ c = "ttl_anomaly" /\ Spoofed(p)
              \/ c = "rogue_dhcp" /\ Rogue(p)
              \/ c = "threat_intel" /\ Listed(p)
       /\ Tunnels(p, ts) => "dns_tunneling" \in Entries(reasons')
       /\ Spoofed(p) => "ttl_anomaly" \in Entries(reasons')
       /\ Rogue(p) => "rogue_dhcp" \in Entries(reasons')
       /\ Listed(p) => "threat_intel" \in Entries(reasons')
       /\ (\E c : Fires(c, p, signals')) =>
              reasons' # <<>> /\ reasons'[1] \in HybridCategories
  BY ReasonsAre
<1>11. /\ TrackerEvidence'.dns_tunneling <=> Tunnels(p, ts)
       /\ TrackerEvidence'.ttl_anomaly <=> Spoofed(p)
       /\ TrackerEvidence'.rogue_dhcp <=> Rogue(p)
       /\ TrackerEvidence'.threat_intel <=> Listed(p)
       /\ DOMAIN TrackerEvidence' = TrackerCategories
  BY <1>1, <1>2, <1>3, <1>18, TrackersAreRight DEF TrackerCategories
<1>12. Reported' = Entries(reasons')
  BY DEF Reported, Entries
<1>13. \A c \in DOMAIN VolumeEvidence' :
           /\ VolumeEvidence'[c] => Fires(c, p, signals')
           /\ IcmpThreshold \in Nat \ {0} /\ Fires(c, p, signals') => VolumeEvidence'[c]
  BY <1>4, <1>9, EvidenceFires
<1>14. TrackerCategories \cap HybridCategories = {}
  BY DEF TrackerCategories, HybridCategories
<1>15. DOMAIN VolumeEvidence' \cap TrackerCategories = {}
  BY DEF VolumeEvidence, TrackerCategories
<1>16. EvidenceIsReported'
  <2>1. ASSUME NEW c \in DOMAIN VolumeEvidence', VolumeEvidence'[c]
        PROVE  reasons' # <<>> /\ reasons'[1] \notin DOMAIN TrackerEvidence'
    <3>1. Fires(c, p, signals')
      BY <1>13, <2>1
    <3> QED
      BY <1>10, <1>11, <1>14, <3>1
  <2>2. ASSUME NEW c \in DOMAIN TrackerEvidence', TrackerEvidence'[c]
        PROVE  c \in Reported'
    <3>1. c \in {"dns_tunneling", "ttl_anomaly", "rogue_dhcp", "threat_intel"}
      BY <1>11 DEF TrackerCategories
    <3> QED
      BY <1>10, <1>11, <1>12, <2>2, <3>1
  <2> QED
    BY <2>1, <2>2 DEF EvidenceIsReported
<1>17. IcmpThreshold \in Nat \ {0} => ReasonsAreJustified'
  <2>1. SUFFICES ASSUME IcmpThreshold \in Nat \ {0}
                 PROVE  ReasonsAreJustified'
    OBVIOUS
  <2>2. ASSUME NEW c \in Reported', c \in DOMAIN VolumeEvidence'
        PROVE  VolumeEvidence'[c]
    <3>1. c \notin {"dns_tunneling", "ttl_anomaly", "rogue_dhcp", "threat_intel"}
      BY <1>15, <2>2 DEF TrackerCategories
    <3>2. Fires(c, p, signals')
      BY <1>10, <1>12, <3>1
    <3> QED
      BY <1>13, <2>1, <2>2, <3>2
  <2>3. ASSUME NEW c \in Reported', c \in DOMAIN TrackerEvidence'
        PROVE  TrackerEvidence'[c]
    <3>1. c \notin HybridCategories
      BY <1>11, <1>14, <2>3
    <3> QED
      BY <1>10, <1>11, <1>12, <3>1
  <2> QED
    BY <2>2, <2>3 DEF ReasonsAreJustified
<1> QED
  BY <1>4, <1>5, <1>6, <1>7, <1>8, <1>9, <1>10, <1>16, <1>17, <1>19 DEF DetectorsInv

\* and when an exception ends it.
LEMMA DetectorsFail ==
    ASSUME DetectorsInv, NEW p \in Packets, NEW ts \in Nat, Now <= ts, Len(log) < MaxPackets,
           ReceiveFails(p, ts)
    PROVE  DetectorsInv'
<1>1. /\ Timed /\ FlowTableIsExact /\ DequesHold /\ DnsWindows /\ BaselineIsFirst
      /\ ServersHaveOffered /\ judged \subseteq DOMAIN log
  BY DEF DetectorsInv
<1>2. /\ Update(p, ts) /\ reasons' = <<>> /\ judged' = judged
      /\ dnsHistory' = dnsHistory /\ ttlBaseline' = ttlBaseline /\ dhcpServers' = dhcpServers
  BY DEF ReceiveFails, trackerVars
<1>3. Arrives(p, ts)
  BY <1>2 DEF Arrives, Update
<1>4. Judges(FALSE)
  BY <1>1, <1>2 DEF Judges
<1>5. /\ Timed' /\ judged' \subseteq DOMAIN log' /\ Len(log') \notin judged'
  BY <1>1, <1>2, <1>3, LogGrows
<1>6. FlowTableIsExact'
  BY <1>1, <1>2, <1>3, FlowsMove DEF Update
<1>7. DequesHold'
  BY <1>1, <1>2, <1>3, DequesMove
<1>8. DnsWindows'
  BY <1>1, <1>2, <1>3, <1>4, DnsWindowsStay
<1>9. BaselineIsFirst' /\ ServersHaveOffered'
  BY <1>1, <1>2, <1>3, <1>4, BaselineStays, ServersStay
<1>10. SignalsTyped' /\ SignalsAreExact'
  BY <1>1, <1>2, <1>3, SignalsMove
<1>11. reasons' \in Seq(Categories) /\ Len(reasons') <= 5
  BY <1>2
<1>12. EvidenceIsReported'
  BY <1>5 DEF EvidenceIsReported
<1>13. ReasonsAreJustified'
  <2>1. Reported' = {}
    BY <1>2 DEF Reported
  <2> QED
    BY <2>1 DEF ReasonsAreJustified
<1> QED
  BY <1>5, <1>6, <1>7, <1>8, <1>9, <1>10, <1>11, <1>12, <1>13 DEF DetectorsInv

\* No step breaks the invariant.
LEMMA DetectorsMove == DetectorsInv /\ [DetectorsNext]_detectorVars => DetectorsInv'
<1> SUFFICES ASSUME DetectorsInv, [DetectorsNext]_detectorVars
             PROVE  DetectorsInv'
  OBVIOUS
<1>1. CASE DetectorsNext
  <2>1. PICK p \in Packets, gap \in Gaps : Receive(p, Now + gap) \/ ReceiveFails(p, Now + gap)
    BY <1>1 DEF DetectorsNext
  <2>2. Now \in Nat
    BY LogFacts DEF DetectorsInv
  <2>3. PICK ts \in Nat : ts = Now + gap /\ Now <= ts
    BY <2>2, GapsAssumption
  <2>4. Len(log) < MaxPackets
    BY <1>1 DEF DetectorsNext
  <2> QED
    BY <2>1, <2>3, <2>4, DetectorsStep, DetectorsFail
<1>2. CASE UNCHANGED detectorVars
  <2>1. /\ flows' = flows /\ scanHistory' = scanHistory /\ synHistory' = synHistory
        /\ portAttempts' = portAttempts /\ icmpHistory' = icmpHistory /\ signals' = signals
        /\ log' = log /\ dnsHistory' = dnsHistory /\ ttlBaseline' = ttlBaseline
        /\ dhcpServers' = dhcpServers /\ reasons' = reasons /\ judged' = judged
    BY <1>2 DEF detectorVars, vars, historyVars, ruleVars, trackerVars
  <2>2. /\ Now' = Now /\ Last' = Last /\ Stamps' = Stamps /\ Ports' = Ports
        /\ QueriesSeen' = QueriesSeen /\ Scans' = Scans /\ Syns' = Syns
        /\ Attempts' = Attempts /\ Icmps' = Icmps /\ ZoneQueries' = ZoneQueries
    BY <2>1 DEF Now, Last, Stamps, Ports, QueriesSeen, Scans, Syns, Attempts, Icmps, ZoneQueries
  <2>3. \A k : Reference(k)' = Reference(k)
    BY <2>1 DEF Reference, Current, Opens, Of
  <2>4. Tracked' = Tracked
    BY <2>1, <2>2 DEF Tracked, Of
  <2>5. /\ SynsWithin(SynWindow)' = SynsWithin(SynWindow)
        /\ AttemptsWithin(PortRepeatWindow)' = AttemptsWithin(PortRepeatWindow)
        /\ PortsWithin(ScanWindow)' = PortsWithin(ScanWindow)
        /\ IcmpsWithin(IcmpWindow)' = IcmpsWithin(IcmpWindow)
        /\ QueriesWithin(DnsWindow)' = QueriesWithin(DnsWindow)
    BY <2>1, <2>2 DEF SynsWithin, AttemptsWithin, PortsWithin, IcmpsWithin, QueriesWithin, FromSource
  <2>6. [k \in Tracked |-> Reference(k)]' = [k \in Tracked |-> Reference(k)]
    BY <2>3, <2>4
  <2>7. /\ Earlier' = Earlier /\ EarlierOffers' = EarlierOffers /\ LastFlow' = LastFlow
        /\ Reported' = Reported
    BY <2>1, <2>2, <2>3 DEF Earlier, EarlierOffers, LastFlow, Reported
  <2>8. SlowFlows([k \in Tracked |-> Reference(k)], Last)'
            = SlowFlows([k \in Tracked |-> Reference(k)], Last)
    BY <2>2, <2>6 DEF SlowFlows, Duration
  <2>9. VolumeEvidence' = VolumeEvidence
    BY <2>1, <2>2, <2>5, <2>7, <2>8 DEF VolumeEvidence
  <2>10. TrackerEvidence' = TrackerEvidence
    BY <2>1, <2>2, <2>5, <2>7 DEF TrackerEvidence
  <2>11. Timed' /\ FlowTableIsExact' /\ DequesHold' /\ DnsWindows'
    BY <2>1, <2>2, <2>6 DEF DetectorsInv, Timed, FlowTableIsExact, DequesHold, DnsWindows,
                            ScanWindows, SynWindows, AttemptWindows, IcmpWindows
  <2>12. BaselineIsFirst' /\ ServersHaveOffered' /\ SignalsTyped'
    BY <2>1 DEF DetectorsInv, BaselineIsFirst, ServersHaveOffered, SignalsTyped, From, Offers
  <2>13. SignalsAreExact'
    BY <2>1, <2>2, <2>5, <2>8 DEF DetectorsInv, SignalsAreExact
  <2>14. EvidenceIsReported'
    BY <2>1, <2>7, <2>9, <2>10 DEF DetectorsInv, EvidenceIsReported
  <2>15. IcmpThreshold \in Nat \ {0} => ReasonsAreJustified'
    BY <2>1, <2>7, <2>9, <2>10 DEF DetectorsInv, ReasonsAreJustified
  <2> QED
    BY <2>1, <2>11, <2>12, <2>13, <2>14, <2>15 DEF DetectorsInv
<1> QED
  BY <1>1, <1>2

\* A deque has no more entries than there were packets.
LEMMA KeptIsShort ==
    ASSUME NEW S, NEW hist \in Seq(S), NEW n \in Nat, NEW e, NEW picked \in SUBSET (1..n),
           NEW latest, Kept(hist, e, picked, latest)
    PROVE  Len(hist) <= n
<1>1. PICK cut \in Int : Mirrors(hist, e, {i \in picked : e[i].ts >= cut})
  BY DEF Kept
<1>2. PICK chosen \in SUBSET (1..n) : Mirrors(hist, e, chosen)
  BY <1>1
<1>3. chosen \in SUBSET Int
  OBVIOUS
<1>4. Cardinality(chosen) = Len(hist)
  BY <1>2, <1>3, MirrorCount
<1>5. IsFiniteSet(1..n) /\ Cardinality(1..n) = n
  BY CountOneTo
<1>6. Cardinality(chosen) <= Cardinality(1..n)
  BY <1>5, FS_Subset
<1> QED
  BY <1>4, <1>5, <1>6

\* The invariant implies the types.
LEMMA DetectorsTyped == DetectorsInv => DetectorsTypeOK
<1> SUFFICES ASSUME DetectorsInv PROVE DetectorsTypeOK
  OBVIOUS
<1>1. /\ Timed /\ Len(log) \in Nat /\ DOMAIN log = 1..Len(log)
      /\ \A i \in 1..Len(log) : log[i].pkt \in Packets
  BY LogFacts DEF DetectorsInv
<1>2. DOMAIN flows \subseteq Keys /\ \A k \in DOMAIN flows : flows[k] \in Flow
  <2>1. flows = [k \in Tracked |-> Reference(k)]
    BY DEF DetectorsInv, FlowTableIsExact
  <2>2. \A k \in Tracked : k \in Keys /\ Of(k) # {}
    BY DEF Tracked
  <2> QED
    BY <1>1, <2>1, <2>2, ReferenceFacts
<1>3. /\ DOMAIN scanHistory = Srcs
      /\ \A s \in Srcs : Len(scanHistory[s]) <= Len(log)
  <2>1. ScanWindows
    BY DEF DetectorsInv, DequesHold
  <2>2. \A s \in Srcs : Scans[s] \in SUBSET (1..Len(log))
    BY <1>1 DEF Scans
  <2>3. \A s \in Srcs : /\ scanHistory[s] \in Seq(PortEntry)
                        /\ Kept(scanHistory[s], Ports, Scans[s], Now - ScanWindow)
    BY <2>1 DEF ScanWindows, Windows
  <2>4. DOMAIN scanHistory = Srcs
    BY <2>1 DEF ScanWindows, Windows
  <2> QED
    BY <1>1, <2>2, <2>3, <2>4, KeptIsShort
<1>4. /\ DOMAIN dnsHistory = Zones
      /\ \A z \in Zones : Len(dnsHistory[z]) <= Len(log)
  <2>1. DnsWindows
    BY DEF DetectorsInv
  <2>2. \A z \in Zones : ZoneQueries[z] \in SUBSET (1..Len(log))
    BY <1>1 DEF ZoneQueries
  <2>3. \A z \in Zones : /\ dnsHistory[z] \in Seq(QueryEntry)
                         /\ Kept(dnsHistory[z], QueriesSeen, ZoneQueries[z], Now - DnsWindow)
    BY <2>1 DEF DnsWindows, Windows
  <2>4. DOMAIN dnsHistory = Zones
    BY <2>1 DEF DnsWindows, Windows
  <2> QED
    BY <1>1, <2>2, <2>3, <2>4, KeptIsShort
<1>5. /\ synHistory \in [Srcs -> Seq([ts : Nat])]
      /\ portAttempts \in [Endpoints -> Seq([ts : Nat])]
      /\ icmpHistory \in [Srcs -> Seq([ts : Nat])]
  BY DEF DetectorsInv, DequesHold, SynWindows, AttemptWindows, IcmpWindows, Windows, Stamp
<1>6. DOMAIN signals = DOMAIN NoSignals /\ \A s \in DOMAIN signals : signals[s] \in Nat
  BY DEF DetectorsInv, SignalsTyped
<1>7. Len(log) <= MaxPackets
  BY <1>1 DEF Timed
<1>8. ttlBaseline \in [Srcs -> Nat \cup {Null}]
  BY DEF DetectorsInv, BaselineIsFirst
<1>9. dhcpServers \subseteq Srcs
  <2>1. dhcpServers = {log[i].pkt.src : i \in Offers}
    BY DEF DetectorsInv, ServersHaveOffered
  <2>2. \A i \in Offers : log[i].pkt.src \in Srcs
    BY <1>1 DEF Offers, Srcs
  <2> QED
    BY <2>1, <2>2
<1>12. judged \subseteq DOMAIN log
  BY DEF DetectorsInv
<1>10. Len(reasons) <= 5 /\ \A i \in DOMAIN reasons : reasons[i] \in Categories
  BY DEF DetectorsInv
<1>11. TypeOK
  BY <1>2, <1>3, <1>5, <1>6, <1>7 DEF TypeOK
<1> QED
  BY <1>4, <1>8, <1>9, <1>10, <1>11, <1>12 DEF DetectorsTypeOK

-----------------------------------------------------------------------------
(* The theorems *)

\* The inductive invariant, in every reachable state: each deque mirrors the packets of the
\* log it is for, those since a moment never after its cutoff; the flow table, the trackers,
\* the signals and the reasons are what the log says.
THEOREM DetectorsInductive == DetectorsSpec => []DetectorsInv
  BY DetectorsStart, DetectorsMove, PTL DEF DetectorsSpec

\* The flow table, the deques, the trackers and the reasons keep their types, no deque has
\* more entries than there were packets, and a packet is given at most five reasons.
THEOREM DetectorsTypeCorrect == DetectorsSpec => []DetectorsTypeOK
<1>1. DetectorsInv => DetectorsTypeOK
  BY DetectorsTyped
<1> QED
  BY <1>1, DetectorsInductive, PTL

\* The table of flows (FlowTracker.update and _expire_flows) is what the packets say.
THEOREM FlowTableExact == DetectorsSpec => []FlowTableIsExact
<1>1. DetectorsInv => FlowTableIsExact
  BY DEF DetectorsInv
<1> QED
  BY <1>1, DetectorsInductive, PTL

\* Whatever the windows, gaps and packets, what update() counts for a packet are the
\* packets of its windows.
THEOREM SignalsExact == DetectorsSpec => []SignalsAreExact
<1>1. DetectorsInv => SignalsAreExact
  BY DEF DetectorsInv
<1> QED
  BY <1>1, DetectorsInductive, PTL

\* For a packet that no exception ends, no rule, tracker or list hides what another has
\* found (main.py's handle()); packets that exceptions have ended count for the volume rules.
THEOREM EvidenceReported == DetectorsSpec => []EvidenceIsReported
<1>1. DetectorsInv => EvidenceIsReported
  BY DEF DetectorsInv
<1> QED
  BY <1>1, DetectorsInductive, PTL

\* No reason is given that the packets do not bear out, provided the threshold for ICMP
\* is above 0: at 0 every packet would be reported as a flood of ICMP.
THEOREM ReasonsJustified ==
    ASSUME IcmpThreshold \in Nat \ {0}
    PROVE  DetectorsSpec => []ReasonsAreJustified
<1>1. DetectorsInv => ReasonsAreJustified
  BY DEF DetectorsInv
<1> QED
  BY <1>1, DetectorsInductive, PTL
================================================================================
