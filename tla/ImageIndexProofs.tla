-------------------------- MODULE ImageIndexProofs --------------------------
(***************************************************************************)
(* What the operators of ImageIndex return, for every list.                *)
(*                                                                         *)
(* Without is a loop over a list of any length, so its lemmas need an      *)
(* induction.  The induction theorems of the library take the formula to   *)
(* be proved as a parameter; here it is the set of the numbers that        *)
(* satisfy it.                                                             *)
(***************************************************************************)
EXTENDS ImageIndex, SequenceTheorems, WellFoundedInduction, TLAPS

-----------------------------------------------------------------------------
(* Natural numbers.                                                        *)

\* A set of natural numbers that is not empty has a least member.
LEMMA LeastNumber ==
  ASSUME NEW T, T \subseteq Nat, T # {}
  PROVE  \E m \in T : \A n \in T : m <= n
<1> DEFINE Less == OpToRel(<, Nat)
<1>1. IsWellFoundedOn(Less, Nat)
  BY NatLessThanWellFounded
<1> HIDE DEF Less
<1>2. PICK m \in T : \A n \in T : <<n, m>> \notin Less
  BY <1>1, WFMin
<1>3. ASSUME NEW n \in T PROVE ~(n < m)
  BY <1>2 DEF Less, OpToRel
<1> QED
  BY <1>2, <1>3

\* A set that has 0 and the successors of its numbers has all natural numbers.
LEMMA NatInductionSet ==
  ASSUME NEW P, 0 \in P, \A n \in P : n + 1 \in P
  PROVE  Nat \subseteq P
<1> DEFINE Bad == Nat \ P
<1>1. SUFFICES ASSUME Bad # {} PROVE FALSE
  OBVIOUS
<1>2. PICK x \in Bad : \A y \in Bad : x <= y
  <2>1. Bad \subseteq Nat
    OBVIOUS
  <2> HIDE DEF Bad
  <2> QED
    BY <1>1, <2>1, LeastNumber
<1>3. x \in Nat /\ x # 0 /\ x - 1 \in Nat /\ (x - 1) + 1 = x /\ ~(x <= x - 1)
  OBVIOUS
<1>4. x - 1 \in P
  BY <1>2, <1>3
<1> QED
  BY <1>3, <1>4

-----------------------------------------------------------------------------
(* The loop of Without.                                                    *)

\* What it keeps after entry n, when it has kept s before.
LoopStep(idx, i, n, s) == IF idx[n].id = i THEN s ELSE Append(s, idx[n])

\* g is what it has kept after each of the first n entries.
IsLoop(idx, i, n, g) ==
  /\ g = [k \in 0..n |-> g[k]]
  /\ g[0] = <<>>
  /\ \A k \in 1..n : g[k] = LoopStep(idx, i, k, g[k - 1])

\* There is such a g, for any number of entries.
LEMMA LoopExists ==
  ASSUME NEW idx, NEW i, NEW m \in Nat
  PROVE  \E g : IsLoop(idx, i, m, g)
<1> DEFINE P == {n \in Nat : \E g : IsLoop(idx, i, n, g)}
<1>1. 0 \in P
  <2>1. IsLoop(idx, i, 0, [k \in 0..0 |-> <<>>])
    BY DEF IsLoop
  <2> QED
    BY <2>1
<1>2. ASSUME NEW n \in P PROVE n + 1 \in P
  <2>1. n \in Nat /\ n + 1 \in Nat
    OBVIOUS
  <2>2. PICK g : IsLoop(idx, i, n, g)
    OBVIOUS
  <2> DEFINE h == [k \in 0..(n + 1) |-> IF k = n + 1 THEN LoopStep(idx, i, n + 1, g[n]) ELSE g[k]]
  <2>3. h[0] = <<>>
    BY <2>1, <2>2 DEF IsLoop
  <2>4. ASSUME NEW k \in 1..(n + 1) PROVE h[k] = LoopStep(idx, i, k, h[k - 1])
    <3>1. CASE k = n + 1
      <4>1. h[k - 1] = g[n]
        BY <2>1, <3>1
      <4> QED
        BY <2>1, <3>1, <4>1
    <3>2. CASE k # n + 1
      <4>1. k \in 1..n /\ h[k] = g[k] /\ h[k - 1] = g[k - 1]
        BY <2>1, <3>2
      <4> QED
        BY <2>2, <4>1 DEF IsLoop
    <3> QED
      BY <3>1, <3>2
  <2>5. IsLoop(idx, i, n + 1, h)
    BY <2>3, <2>4 DEF IsLoop
  <2> QED
    BY <2>1, <2>5
<1>3. Nat \subseteq P
  <2> HIDE DEF P
  <2> QED
    BY <1>1, <1>2, NatInductionSet
<1> QED
  BY <1>3

\* Without returns what the loop has kept after the last entry: its recursive
\* definition does define a function.
LEMMA WithoutIsLoop ==
  ASSUME NEW idx, NEW i, Len(idx) \in Nat
  PROVE  \E g : IsLoop(idx, i, Len(idx), g) /\ Without(idx, i) = g[Len(idx)]
<1> DEFINE body(g) == [n \in 0..Len(idx) |->
                         IF n = 0 THEN <<>>
                         ELSE IF idx[n].id = i THEN g[n - 1] ELSE Append(g[n - 1], idx[n])]
           kept == CHOOSE g : g = body(g)
<1>1. PICK g : IsLoop(idx, i, Len(idx), g)
  BY LoopExists
<1>2. g = body(g)
  <2>1. g = [n \in 0..Len(idx) |-> g[n]] /\ g[0] = <<>>
    BY <1>1 DEF IsLoop
  <2>2. ASSUME NEW n \in 0..Len(idx), n # 0
        PROVE  g[n] = IF idx[n].id = i THEN g[n - 1] ELSE Append(g[n - 1], idx[n])
    <3>1. n \in 1..Len(idx)
      BY <2>2
    <3> QED
      BY <1>1, <3>1 DEF IsLoop, LoopStep
  <2>3. ASSUME NEW n \in 0..Len(idx)
        PROVE  g[n] = IF n = 0 THEN <<>>
                      ELSE IF idx[n].id = i THEN g[n - 1] ELSE Append(g[n - 1], idx[n])
    BY <2>1, <2>2
  <2> QED
    BY <2>1, <2>3
<1>3. kept = body(kept)
  <2> HIDE DEF body
  <2>1. \E f : f = body(f)
    BY <1>2
  <2> QED
    BY <2>1
<1>4. Without(idx, i) = kept[Len(idx)]
  BY DEF Without
<1>5. IsLoop(idx, i, Len(idx), kept)
  <2> HIDE DEF kept
  <2>1. kept[0] = <<>>
    BY <1>3
  <2>2. ASSUME NEW n \in 1..Len(idx) PROVE kept[n] = LoopStep(idx, i, n, kept[n - 1])
    <3>1. n \in 0..Len(idx) /\ n # 0
      OBVIOUS
    <3> QED
      BY <1>3, <3>1 DEF LoopStep
  <2>3. kept = [n \in 0..Len(idx) |-> kept[n]]
    BY <1>3
  <2> QED
    BY <2>1, <2>2, <2>3 DEF IsLoop
<1> QED
  BY <1>4, <1>5

\* w holds those of the first n entries that have another id, in their order: `at`
\* says where each of them was.
Selects(S, idx, i, n, w, at) ==
  /\ w \in Seq(S) /\ Len(w) <= n
  /\ at \in [1..Len(w) -> 1..n]
  /\ \A k, l \in 1..Len(w) : k < l => at[k] < at[l]
  /\ \A k \in 1..Len(w) : w[k] = idx[at[k]] /\ idx[at[k]].id # i
  /\ \A l \in 1..n : idx[l].id # i => \E k \in 1..Len(w) : at[k] = l

\* One step of the loop keeps that.
LEMMA StepSelects ==
  ASSUME NEW S, NEW idx \in Seq(S), NEW i, NEW n \in Nat, n + 1 <= Len(idx),
         NEW w, NEW at, Selects(S, idx, i, n, w, at)
  PROVE  \E a : Selects(S, idx, i, n + 1, LoopStep(idx, i, n + 1, w), a)
<1>0. /\ w \in Seq(S) /\ Len(w) <= n /\ Len(w) \in Nat
      /\ at \in [1..Len(w) -> 1..n]
      /\ \A k, l \in 1..Len(w) : k < l => at[k] < at[l]
      /\ \A k \in 1..Len(w) : w[k] = idx[at[k]] /\ idx[at[k]].id # i
      /\ \A l \in 1..n : idx[l].id # i => \E k \in 1..Len(w) : at[k] = l
  BY DEF Selects
<1>1. CASE idx[n + 1].id = i
  <2>1. LoopStep(idx, i, n + 1, w) = w
    BY <1>1 DEF LoopStep
  <2>2. at \in [1..Len(w) -> 1..(n + 1)]
    BY <1>0
  <2>3. ASSUME NEW l \in 1..(n + 1), idx[l].id # i PROVE \E k \in 1..Len(w) : at[k] = l
    <3>1. l \in 1..n
      BY <1>1, <2>3
    <3> QED
      BY <1>0, <2>3, <3>1
  <2>4. Selects(S, idx, i, n + 1, w, at)
    BY <1>0, <2>2, <2>3 DEF Selects
  <2> QED
    BY <2>1, <2>4
<1>2. CASE idx[n + 1].id # i
  <2> DEFINE v == Append(w, idx[n + 1])
             a == [k \in 1..Len(v) |-> IF k = Len(v) THEN n + 1 ELSE at[k]]
  <2>1. LoopStep(idx, i, n + 1, w) = v
    BY <1>2 DEF LoopStep
  <2>2. idx[n + 1] \in S
    BY ElementOfSeq
  <2>3. /\ v \in Seq(S) /\ Len(v) = Len(w) + 1
        /\ v[Len(w) + 1] = idx[n + 1]
        /\ \A k \in 1..Len(w) : v[k] = w[k]
    BY <1>0, <2>2, AppendProperties
  <2> HIDE DEF v
  <2>4. /\ a \in [1..Len(v) -> 1..(n + 1)]
        /\ a[Len(w) + 1] = n + 1
        /\ \A k \in 1..Len(w) : a[k] = at[k]
    BY <1>0, <2>3
  <2> HIDE DEF a
  <2>5. ASSUME NEW k \in 1..Len(v), NEW l \in 1..Len(v), k < l
        PROVE  a[k] < a[l]
    <3>1. CASE l = Len(w) + 1
      <4>1. k \in 1..Len(w)
        BY <1>0, <2>3, <2>5, <3>1
      <4>2. a[k] = at[k] /\ at[k] \in 1..n
        BY <1>0, <2>4, <4>1
      <4> QED
        BY <2>4, <3>1, <4>2
    <3>2. CASE l # Len(w) + 1
      <4>1. k \in 1..Len(w) /\ l \in 1..Len(w)
        BY <1>0, <2>3, <2>5, <3>2
      <4> QED
        BY <1>0, <2>4, <2>5, <4>1
    <3> QED
      BY <3>1, <3>2
  <2>6. ASSUME NEW k \in 1..Len(v)
        PROVE  v[k] = idx[a[k]] /\ idx[a[k]].id # i
    <3>1. CASE k = Len(w) + 1
      BY <1>2, <2>3, <2>4, <3>1
    <3>2. CASE k # Len(w) + 1
      <4>1. k \in 1..Len(w)
        BY <1>0, <2>3, <3>2
      <4> QED
        BY <1>0, <2>3, <2>4, <4>1
    <3> QED
      BY <3>1, <3>2
  <2>7. ASSUME NEW l \in 1..(n + 1), idx[l].id # i
        PROVE  \E k \in 1..Len(v) : a[k] = l
    <3>1. CASE l = n + 1
      <4>1. Len(w) + 1 \in 1..Len(v)
        BY <1>0, <2>3
      <4> QED
        BY <2>4, <3>1, <4>1
    <3>2. CASE l # n + 1
      <4>1. PICK k \in 1..Len(w) : at[k] = l
        BY <1>0, <2>7, <3>2
      <4>2. k \in 1..Len(v)
        BY <1>0, <2>3
      <4> QED
        BY <2>4, <4>1, <4>2
    <3> QED
      BY <3>1, <3>2
  <2>8. Len(v) <= n + 1
    BY <1>0, <2>3
  <2>9. Selects(S, idx, i, n + 1, v, a)
    BY <2>3, <2>4, <2>5, <2>6, <2>7, <2>8 DEF Selects
  <2> QED
    BY <2>1, <2>9
<1> QED
  BY <1>1, <1>2

\* Without selects the entries with another id.
LEMMA WithoutSelects ==
  ASSUME NEW S, NEW idx \in Seq(S), NEW i
  PROVE  \E at : Selects(S, idx, i, Len(idx), Without(idx, i), at)
<1>1. Len(idx) \in Nat
  OBVIOUS
<1>2. PICK g : IsLoop(idx, i, Len(idx), g) /\ Without(idx, i) = g[Len(idx)]
  BY <1>1, WithoutIsLoop
<1> DEFINE P == {n \in Nat : n <= Len(idx) => \E at : Selects(S, idx, i, n, g[n], at)}
<1>3. 0 \in P
  <2> DEFINE none == [k \in 1..0 |-> 0]
  <2>1. g[0] = <<>>
    BY <1>2 DEF IsLoop
  <2>2. none \in [1..0 -> 1..0]
    OBVIOUS
  <2> HIDE DEF none
  <2>3. Selects(S, idx, i, 0, <<>>, none)
    BY <2>2 DEF Selects
  <2> QED
    BY <2>1, <2>3
<1>4. ASSUME NEW n \in P PROVE n + 1 \in P
  <2>1. n \in Nat /\ n + 1 \in Nat
    OBVIOUS
  <2>2. SUFFICES ASSUME n + 1 <= Len(idx)
                 PROVE  \E at : Selects(S, idx, i, n + 1, g[n + 1], at)
    BY <2>1
  <2>3. n <= Len(idx) /\ n + 1 \in 1..Len(idx)
    BY <1>1, <2>1, <2>2
  <2>4. PICK at : Selects(S, idx, i, n, g[n], at)
    BY <2>3
  <2>5. g[n + 1] = LoopStep(idx, i, n + 1, g[n])
    <3>1. (n + 1) - 1 = n
      BY <2>1
    <3> QED
      BY <1>2, <2>3, <3>1 DEF IsLoop
  <2> QED
    BY <2>1, <2>2, <2>4, <2>5, StepSelects
<1>5. Nat \subseteq P
  <2> HIDE DEF P
  <2> QED
    BY <1>3, <1>4, NatInductionSet
<1> QED
  BY <1>1, <1>2, <1>5

-----------------------------------------------------------------------------
(* What the modules that use a list rely on.                               *)

\* A list without an id is no longer than before, its entries are entries of the
\* list before, different ones in different places, and no other id is lost.
LEMMA WithoutProperties ==
  ASSUME NEW S, NEW idx \in Seq(S), NEW i
  PROVE  /\ Without(idx, i) \in Seq(S)
         /\ Len(Without(idx, i)) <= Len(idx)
         /\ \A k \in DOMAIN Without(idx, i) :
              \E m \in DOMAIN idx : Without(idx, i)[k] = idx[m] /\ idx[m].id # i
         /\ \A k, l \in DOMAIN Without(idx, i) : k # l =>
              \E m, n \in DOMAIN idx : /\ m # n
                                       /\ Without(idx, i)[k] = idx[m]
                                       /\ Without(idx, i)[l] = idx[n]
         /\ IdsIn(Without(idx, i)) = IdsIn(idx) \ {i}
<1> DEFINE w == Without(idx, i)
<1>1. PICK at : Selects(S, idx, i, Len(idx), w, at)
  BY WithoutSelects
<1> HIDE DEF w
<1>2. /\ w \in Seq(S) /\ Len(w) <= Len(idx) /\ Len(w) \in Nat /\ Len(idx) \in Nat
      /\ DOMAIN w = 1..Len(w) /\ DOMAIN idx = 1..Len(idx)
      /\ at \in [1..Len(w) -> 1..Len(idx)]
      /\ \A k, l \in 1..Len(w) : k < l => at[k] < at[l]
      /\ \A k \in 1..Len(w) : w[k] = idx[at[k]] /\ idx[at[k]].id # i
      /\ \A l \in 1..Len(idx) : idx[l].id # i => \E k \in 1..Len(w) : at[k] = l
  BY <1>1 DEF Selects
<1>3. ASSUME NEW k \in DOMAIN w
      PROVE  \E m \in DOMAIN idx : w[k] = idx[m] /\ idx[m].id # i
  BY <1>2
<1>4. ASSUME NEW k \in DOMAIN w, NEW l \in DOMAIN w, k # l
      PROVE  \E m, n \in DOMAIN idx : m # n /\ w[k] = idx[m] /\ w[l] = idx[n]
  <2>1. k < l \/ l < k
    BY <1>2, <1>4
  <2>2. at[k] # at[l] /\ at[k] \in DOMAIN idx /\ at[l] \in DOMAIN idx
    BY <1>2, <2>1
  <2> QED
    BY <1>2, <2>2
<1>5. IdsIn(w) = IdsIn(idx) \ {i}
  <2>1. ASSUME NEW x \in IdsIn(w) PROVE x \in IdsIn(idx) \ {i}
    <3>1. PICK k \in DOMAIN w : x = w[k].id
      BY DEF IdsIn
    <3> QED
      BY <1>3, <3>1 DEF IdsIn
  <2>2. ASSUME NEW x \in IdsIn(idx) \ {i} PROVE x \in IdsIn(w)
    <3>1. PICK l \in DOMAIN idx : x = idx[l].id
      BY DEF IdsIn
    <3>2. PICK k \in 1..Len(w) : at[k] = l
      BY <1>2, <2>2, <3>1
    <3> QED
      BY <1>2, <3>1, <3>2 DEF IdsIn
  <2> QED
    BY <2>1, <2>2
<1> QED
  BY <1>2, <1>3, <1>4, <1>5 DEF w

\* The first entry with an id is where FirstAt says, if there is one.
LEMMA FirstAtProperties ==
  ASSUME NEW S, NEW idx \in Seq(S), NEW i \in IdsIn(idx)
  PROVE  /\ FirstAt(idx, i) \in DOMAIN idx
         /\ idx[FirstAt(idx, i)].id = i
         /\ \A l \in 1..(FirstAt(idx, i) - 1) : idx[l].id # i
<1> DEFINE T == {k \in DOMAIN idx : idx[k].id = i}
<1>1. T \subseteq Nat /\ T # {} /\ DOMAIN idx = 1..Len(idx) /\ Len(idx) \in Nat
  BY DEF IdsIn
<1>2. PICK m \in T : \A n \in T : m <= n
  <2> HIDE DEF T
  <2> QED
    BY <1>1, LeastNumber
<1>3. ASSUME NEW l \in 1..(m - 1) PROVE idx[l].id # i
  BY <1>1, <1>2
<1> QED
  BY <1>2, <1>3 DEF FirstAt

\* The last entry with an id is where LastAt says, if there is one.
LEMMA LastAtProperties ==
  ASSUME NEW S, NEW idx \in Seq(S), NEW i \in IdsIn(idx)
  PROVE  /\ LastAt(idx, i) \in DOMAIN idx
         /\ idx[LastAt(idx, i)].id = i
         /\ \A l \in DOMAIN idx : idx[l].id = i => l <= LastAt(idx, i)
<1> DEFINE T == {d \in Nat : d <= Len(idx) /\ Len(idx) - d \in DOMAIN idx /\ idx[Len(idx) - d].id = i}
<1>1. DOMAIN idx = 1..Len(idx) /\ Len(idx) \in Nat
  OBVIOUS
<1>2. ASSUME NEW k \in DOMAIN idx, idx[k].id = i PROVE Len(idx) - k \in T
  <2>1. /\ Len(idx) - k \in Nat /\ Len(idx) - k <= Len(idx)
        /\ Len(idx) - (Len(idx) - k) = k
    BY <1>1
  <2> QED
    BY <1>2, <2>1
<1>3. T \subseteq Nat /\ T # {}
  BY <1>2 DEF IdsIn
<1>4. PICK d \in T : \A e \in T : d <= e
  <2> HIDE DEF T
  <2> QED
    BY <1>3, LeastNumber
<1>5. Len(idx) - d \in DOMAIN idx /\ idx[Len(idx) - d].id = i
  OBVIOUS
<1>6. ASSUME NEW l \in DOMAIN idx, idx[l].id = i PROVE l <= Len(idx) - d
  <2>1. d <= Len(idx) - l
    BY <1>2, <1>4, <1>6
  <2> QED
    BY <1>1, <2>1
<1> QED
  BY <1>5, <1>6 DEF LastAt
=============================================================================
