--------------------------- MODULE Recursion_proofs ---------------------------
(***************************************************************************)
(* Induction over the natural numbers stated with sets, and the functions  *)
(* it defines: what the other proofs cite where a model counts, doubles or *)
(* sums.                                                                   *)
(***************************************************************************)
EXTENDS Integers, FiniteSets, FiniteSetsExt, FiniteSetTheorems, WellFoundedInduction, TLAPS

\* A set of natural numbers that is not empty has a least element.
LEMMA NatLeast ==
  ASSUME NEW S, S \subseteq Nat, S # {}
  PROVE  \E m \in S : \A k \in S : m <= k
<1>1. PICK m \in S : \A k \in S : ~(<<k, m>> \in OpToRel(<, Nat))
  BY NatLessThanWellFounded, WFMin
<1>2. \A k \in S : ~(k < m)
  BY <1>1 DEF OpToRel
<1> QED
  BY <1>2

\* A set with zero and the successor of each of its elements has every number.
THEOREM NatInduct ==
  ASSUME NEW S, 0 \in S, \A n \in Nat : n \in S => n + 1 \in S
  PROVE  Nat \subseteq S
<1> SUFFICES ASSUME NEW x \in Nat, x \notin S PROVE FALSE
  OBVIOUS
<1>1. PICK m \in Nat \ S : \A k \in Nat \ S : m <= k
  <2>1. Nat \ S \subseteq Nat /\ Nat \ S # {}
    OBVIOUS
  <2> QED
    BY <2>1, NatLeast
<1>2. m # 0 /\ m - 1 \in Nat
  BY <1>1
<1>3. m - 1 \in S
  BY <1>1, <1>2
<1>4. (m - 1) + 1 = m
  BY <1>1
<1> QED
  BY <1>1, <1>2, <1>3, <1>4

(***************************************************************************)
(* Functions by recursion: f[0] is the base and f[n + 1] is what step makes *)
(* of n and f[n].                                                          *)
(***************************************************************************)
Follows(f, base, step, upto) ==
  /\ f[0] = base
  /\ \A n \in upto : n # 0 => f[n] = step[<<n - 1, f[n - 1]>>]

\* Two functions that follow the same step agree.
LEMMA FollowsUnique ==
  ASSUME NEW f, NEW g, NEW base, NEW step, NEW n \in Nat,
         Follows(f, base, step, 0..n), Follows(g, base, step, 0..n)
  PROVE  f[n] = g[n]
<1> DEFINE S == {k \in Nat : k <= n => f[k] = g[k]}
<1>1. 0 \in S
  BY DEF Follows
<1>2. ASSUME NEW k \in Nat, k \in S PROVE k + 1 \in S
  <2> SUFFICES ASSUME k + 1 <= n PROVE f[k + 1] = g[k + 1]
    OBVIOUS
  <2>1. f[k] = g[k] /\ k + 1 \in 0..n /\ k + 1 # 0 /\ (k + 1) - 1 = k
    BY <1>2
  <2> QED
    BY <2>1 DEF Follows
<1>3. n \in S
  <2> HIDE DEF S
  <2> QED
    BY <1>1, <1>2, NatInduct
<1> QED
  BY <1>3

\* There is a function by recursion.
THEOREM RecursionExists ==
  ASSUME NEW V, NEW base \in V, NEW step \in [Nat \X V -> V]
  PROVE  \E f \in [Nat -> V] : Follows(f, base, step, Nat)
<1> DEFINE Upto(n) == {g \in [0..n -> V] : Follows(g, base, step, 0..n)}
           S == {n \in Nat : Upto(n) # {}}
<1>1. 0 \in S
  <2> DEFINE g == [i \in 0..0 |-> base]
  <2>1. g \in [0..0 -> V] /\ Follows(g, base, step, 0..0)
    BY DEF Follows
  <2> QED
    BY <2>1
<1>2. ASSUME NEW n \in Nat, n \in S PROVE n + 1 \in S
  <2>1. PICK g \in [0..n -> V] : Follows(g, base, step, 0..n)
    BY <1>2
  <2> DEFINE h == [i \in 0..n + 1 |-> IF i = n + 1 THEN step[<<n, g[n]>>] ELSE g[i]]
  <2>2. g[n] \in V /\ <<n, g[n]>> \in Nat \X V
    BY <2>1
  <2>3. h \in [0..n + 1 -> V]
    <3>1. step[<<n, g[n]>>] \in V
      BY <2>2
    <3>2. \A i \in 0..n + 1 : i = n + 1 \/ i \in 0..n
      OBVIOUS
    <3> QED
      BY <2>1, <3>1, <3>2
  <2>4. Follows(h, base, step, 0..n + 1)
    <3>1. h[0] = base
      BY <2>1 DEF Follows
    <3>2. ASSUME NEW i \in 0..n + 1, i # 0 PROVE h[i] = step[<<i - 1, h[i - 1]>>]
      <4>1. i - 1 \in 0..n /\ i - 1 # n + 1 /\ i - 1 \in 0..n + 1 /\ h[i - 1] = g[i - 1]
        BY <3>2
      <4>2. CASE i = n + 1
        BY <4>1, <4>2
      <4>3. CASE i # n + 1
        <5>1. i \in 0..n /\ h[i] = g[i]
          BY <3>2, <4>3
        <5> QED
          BY <2>1, <3>2, <4>1, <5>1 DEF Follows
      <4> QED
        BY <4>2, <4>3
    <3> QED
      BY <3>1, <3>2 DEF Follows
  <2> HIDE DEF h
  <2> QED
    BY <2>3, <2>4
<1>3. \A n \in Nat : Upto(n) # {}
  <2> HIDE DEF S
  <2>1. Nat \subseteq S
    BY <1>1, <1>2, NatInduct
  <2> QED
    BY <2>1 DEF S
<1> DEFINE G(n) == CHOOSE g \in Upto(n) : TRUE
           f == [n \in Nat |-> G(n)[n]]
<1>4. ASSUME NEW n \in Nat
      PROVE  G(n) \in [0..n -> V] /\ Follows(G(n), base, step, 0..n)
  <2>1. G(n) \in Upto(n)
    BY <1>3
  <2> HIDE DEF G
  <2> QED
    BY <2>1
<1>5. f \in [Nat -> V]
  <2>1. \A n \in Nat : G(n)[n] \in V
    <3> HIDE DEF G
    <3>1. \A n \in Nat : n \in 0..n
      OBVIOUS
    <3> QED
      BY <1>4, <3>1
  <2> HIDE DEF G
  <2> QED
    BY <2>1
<1>6. f[0] = base
  <2> HIDE DEF G
  <2>1. G(0)[0] = base
    BY <1>4 DEF Follows
  <2> QED
    BY <2>1
<1>7. ASSUME NEW n \in Nat, n # 0 PROVE f[n] = step[<<n - 1, f[n - 1]>>]
  <2> HIDE DEF G
  <2>1. n - 1 \in Nat /\ n \in 0..n /\ \A i \in 0..n - 1 : i \in 0..n
    BY <1>7
  <2>2. G(n)[n] = step[<<n - 1, G(n)[n - 1]>>]
    BY <1>4, <1>7, <2>1 DEF Follows
  <2>3. Follows(G(n), base, step, 0..n - 1) /\ Follows(G(n - 1), base, step, 0..n - 1)
    BY <1>4, <2>1 DEF Follows
  <2>4. G(n)[n - 1] = G(n - 1)[n - 1]
    BY <2>1, <2>3, FollowsUnique
  <2> QED
    BY <2>1, <2>2, <2>4
<1> HIDE DEF f
<1> QED
  BY <1>5, <1>6, <1>7 DEF Follows
-----------------------------------------------------------------------------
(***************************************************************************)
(* Sums over a finite set, as FiniteSetsExt's MapThenSumSet takes them: one *)
(* chosen element after another.                                           *)
(***************************************************************************)
Chosen(s) == CHOOSE x \in s : TRUE
SumBy(g, s, sum) == IF s = {} THEN 0 ELSE g[Chosen(s)] + sum[s \ {Chosen(s)}]
Sums(g, S) == CHOOSE sum : sum = [s \in SUBSET S |-> SumBy(g, s, sum)]

\* Taking the chosen element away leaves a subset with one element less.
LEMMA ChosenTaken ==
  ASSUME NEW S, IsFiniteSet(S), NEW s \in SUBSET S, s # {}
  PROVE  /\ Chosen(s) \in s /\ Chosen(s) \in S /\ s \ {Chosen(s)} \in SUBSET S
         /\ Cardinality(s) \in Nat \ {0}
         /\ Cardinality(s \ {Chosen(s)}) = Cardinality(s) - 1
<1>1. Chosen(s) \in s
  BY DEF Chosen
<1>2. IsFiniteSet(s)
  BY FS_Subset
<1>3. Cardinality(s) \in Nat \ {0}
  BY <1>2, FS_CardinalityType, FS_EmptySet
<1> QED
  BY <1>1, <1>2, <1>3, FS_RemoveElement

\* Every subset has its sum: after n steps the sums of those with at most n
\* elements are right.
THEOREM SumsExist ==
  ASSUME NEW S, IsFiniteSet(S), NEW g \in [S -> Int]
  PROVE  /\ Sums(g, S) \in [SUBSET S -> Int]
         /\ \A s \in SUBSET S : Sums(g, S)[s] = SumBy(g, s, Sums(g, S))
<1> DEFINE V == [SUBSET S -> Int]
           base == [s \in SUBSET S |-> 0]
           Better(f) == [s \in SUBSET S |-> SumBy(g, s, f)]
           step == [m \in Nat \X V |-> Better(m[2])]
<1>1. ASSUME NEW f \in V PROVE Better(f) \in V
  <2>1. ASSUME NEW s \in SUBSET S, s # {} PROVE g[Chosen(s)] + f[s \ {Chosen(s)}] \in Int
    <3>1. Chosen(s) \in S /\ s \ {Chosen(s)} \in SUBSET S
      BY <2>1, ChosenTaken
    <3>2. g[Chosen(s)] \in Int /\ f[s \ {Chosen(s)}] \in Int
      BY <3>1
    <3> QED
      BY <3>2
  <2> QED
    BY <2>1 DEF SumBy
<1>2. base \in V /\ step \in [Nat \X V -> V]
  <2>1. base \in V
    OBVIOUS
  <2>2. ASSUME NEW m \in Nat \X V PROVE Better(m[2]) \in V
    <3>1. m[2] \in V
      OBVIOUS
    <3> HIDE DEF V, Better
    <3> QED
      BY <1>1, <3>1
  <2> HIDE DEF V, Better, base
  <2> QED
    BY <2>1, <2>2
<1>3. PICK f \in [Nat -> V] : Follows(f, base, step, Nat)
  <2> HIDE DEF V, base, step
  <2> QED
    BY <1>2, RecursionExists
<1>4. f[0] = base /\ \A n \in Nat : n # 0 => f[n] = Better(f[n - 1])
  <2>1. ASSUME NEW n \in Nat, n # 0 PROVE step[<<n - 1, f[n - 1]>>] = Better(f[n - 1])
    <3>1. n - 1 \in Nat /\ f[n - 1] \in V
      BY <1>3, <2>1
    <3> HIDE DEF V, Better
    <3> QED
      BY <3>1
  <2> HIDE DEF V, base, step, Better
  <2> QED
    BY <1>3, <2>1 DEF Follows
<1> DEFINE h == [s \in SUBSET S |-> f[Cardinality(s)][s]]
<1>5. ASSUME NEW s \in SUBSET S PROVE Cardinality(s) \in Nat /\ f[Cardinality(s)] \in V
  <2>1. Cardinality(s) \in Nat
    BY FS_Subset, FS_CardinalityType
  <2> HIDE DEF V
  <2> QED
    BY <1>3, <2>1
<1>6. h \in [SUBSET S -> Int]
  BY <1>5
<1>7. ASSUME NEW s \in SUBSET S PROVE h[s] = SumBy(g, s, h)
  <2>1. CASE s = {}
    <3>1. Cardinality(s) = 0 /\ f[0][s] = 0
      BY <1>4, <2>1, FS_EmptySet
    <3> QED
      BY <2>1, <3>1 DEF SumBy
  <2>2. CASE s # {}
    <3> DEFINE n == Cardinality(s)
               rest == s \ {Chosen(s)}
    <3>1. n \in Nat /\ n # 0 /\ rest \in SUBSET S /\ Cardinality(rest) = n - 1
      BY <2>2, ChosenTaken
    <3>2. f[n] = Better(f[n - 1])
      BY <1>4, <3>1
    <3>3. h[s] = g[Chosen(s)] + f[n - 1][rest]
      BY <2>2, <3>2 DEF SumBy
    <3>4. h[rest] = f[n - 1][rest]
      BY <3>1
    <3> QED
      BY <2>2, <3>3, <3>4 DEF SumBy
  <2> QED
    BY <2>1, <2>2
<1>8. h = [s \in SUBSET S |-> SumBy(g, s, h)]
  BY <1>7
<1>9. Sums(g, S) = [s \in SUBSET S |-> SumBy(g, s, Sums(g, S))]
  <2> HIDE DEF h
  <2> QED
    BY <1>8 DEF Sums
<1>10. ASSUME NEW s \in SUBSET S PROVE Sums(g, S)[s] = SumBy(g, s, Sums(g, S))
  BY <1>9
<1> DEFINE Same == {n \in Nat : \A s \in SUBSET S : Cardinality(s) = n => Sums(g, S)[s] = h[s]}
<1>11. 0 \in Same
  <2>1. ASSUME NEW s \in SUBSET S, Cardinality(s) = 0 PROVE Sums(g, S)[s] = h[s]
    <3>1. s = {}
      BY <2>1, FS_Subset, FS_EmptySet
    <3> HIDE DEF h
    <3> QED
      BY <1>7, <1>10, <3>1 DEF SumBy
  <2> QED
    BY <2>1
<1>12. ASSUME NEW n \in Nat, n \in Same PROVE n + 1 \in Same
  <2>1. ASSUME NEW s \in SUBSET S, Cardinality(s) = n + 1 PROVE Sums(g, S)[s] = h[s]
    <3>1. s # {}
      <4>1. n + 1 # 0 /\ Cardinality({}) = 0
        BY FS_EmptySet
      <4> HIDE DEF V, base, step, Better, h, Same
      <4> QED
        BY <2>1, <4>1
    <3>2. s \ {Chosen(s)} \in SUBSET S /\ Cardinality(s \ {Chosen(s)}) = n
      BY <2>1, <3>1, ChosenTaken
    <3> HIDE DEF h
    <3>3. Sums(g, S)[s \ {Chosen(s)}] = h[s \ {Chosen(s)}]
      BY <1>12, <3>2
    <3> QED
      BY <1>7, <1>10, <3>1, <3>3 DEF SumBy
  <2> HIDE DEF h
  <2> QED
    BY <2>1
<1>13. ASSUME NEW s \in SUBSET S PROVE Sums(g, S)[s] = h[s]
  <2>1. Cardinality(s) \in Nat
    BY <1>5
  <2>2. Cardinality(s) \in Same
    <3> HIDE DEF Same
    <3> QED
      BY <1>11, <1>12, <2>1, NatInduct
  <2> QED
    BY <2>2
<1>14. Sums(g, S) \in [SUBSET S -> Int]
  <2> HIDE DEF h
  <2> QED
    BY <1>6, <1>9, <1>13
<1> QED
  BY <1>10, <1>14

\* The sum of a subset, unfolded once.
LEMMA SumOf ==
  ASSUME NEW S, IsFiniteSet(S), NEW g \in [S -> Int], NEW s \in SUBSET S
  PROVE  /\ Sums(g, S)[s] \in Int
         /\ s = {} => Sums(g, S)[s] = 0
         /\ s # {} => Sums(g, S)[s] = g[Chosen(s)] + Sums(g, S)[s \ {Chosen(s)}]
<1>1. Sums(g, S) \in [SUBSET S -> Int]
  BY SumsExist
<1>2. Sums(g, S)[s] = SumBy(g, s, Sums(g, S))
  BY SumsExist
<1> QED
  BY <1>1, <1>2 DEF SumBy

\* The sum of zeros is zero.
LEMMA SumOfZeros ==
  ASSUME NEW S, IsFiniteSet(S), NEW g \in [S -> Int], \A x \in S : g[x] = 0
  PROVE  Sums(g, S)[S] = 0
<1> DEFINE Zero == {n \in Nat : \A s \in SUBSET S : Cardinality(s) = n => Sums(g, S)[s] = 0}
<1>1. 0 \in Zero
  <2>1. ASSUME NEW s \in SUBSET S, Cardinality(s) = 0 PROVE Sums(g, S)[s] = 0
    <3>1. s = {}
      BY <2>1, FS_Subset, FS_EmptySet
    <3> QED
      BY <3>1, SumOf
  <2> QED
    BY <2>1
<1>2. ASSUME NEW n \in Nat, n \in Zero PROVE n + 1 \in Zero
  <2>1. ASSUME NEW s \in SUBSET S, Cardinality(s) = n + 1 PROVE Sums(g, S)[s] = 0
    <3> DEFINE rest == s \ {Chosen(s)}
    <3>1. s # {}
      <4>1. n + 1 # 0 /\ Cardinality({}) = 0
        BY FS_EmptySet
      <4> QED
        BY <2>1, <4>1
    <3>2. Chosen(s) \in S /\ rest \in SUBSET S /\ Cardinality(rest) = n
      BY <2>1, <3>1, ChosenTaken
    <3>3. Sums(g, S)[rest] = 0
      BY <1>2, <3>2
    <3>4. Sums(g, S)[s] = g[Chosen(s)] + Sums(g, S)[rest]
      BY <3>1, SumOf
    <3> QED
      BY <3>2, <3>3, <3>4
  <2> QED
    BY <2>1
<1>3. Cardinality(S) \in Nat
  BY FS_CardinalityType
<1>4. Cardinality(S) \in Zero
  <2> HIDE DEF Zero
  <2> QED
    BY <1>1, <1>2, <1>3, NatInduct
<1> QED
  BY <1>4

\* When one value changes the sum changes by the difference.
THEOREM SumChanges ==
  ASSUME NEW S, IsFiniteSet(S), NEW g \in [S -> Int], NEW h \in [S -> Int], NEW a \in S,
         \A x \in S \ {a} : h[x] = g[x]
  PROVE  /\ Sums(g, S)[S] \in Int
         /\ Sums(h, S)[S] = Sums(g, S)[S] + (h[a] - g[a])
<1> DEFINE Gain(s) == IF a \in s THEN h[a] - g[a] ELSE 0
           Moved == {n \in Nat : \A s \in SUBSET S :
                       Cardinality(s) = n => Sums(h, S)[s] = Sums(g, S)[s] + Gain(s)}
<1>1. 0 \in Moved
  <2>1. ASSUME NEW s \in SUBSET S, Cardinality(s) = 0
        PROVE  Sums(h, S)[s] = Sums(g, S)[s] + Gain(s)
    <3>1. s = {}
      BY <2>1, FS_Subset, FS_EmptySet
    <3>2. Sums(g, S)[s] = 0 /\ Sums(h, S)[s] = 0 /\ Gain(s) = 0
      BY <3>1, SumOf
    <3> QED
      BY <3>2
  <2> QED
    BY <2>1
<1>2. ASSUME NEW n \in Nat, n \in Moved PROVE n + 1 \in Moved
  <2>1. ASSUME NEW s \in SUBSET S, Cardinality(s) = n + 1
        PROVE  Sums(h, S)[s] = Sums(g, S)[s] + Gain(s)
    <3> DEFINE c == Chosen(s)
               rest == s \ {c}
    <3>1. s # {}
      <4>1. n + 1 # 0 /\ Cardinality({}) = 0
        BY FS_EmptySet
      <4> QED
        BY <2>1, <4>1
    <3>2. c \in s /\ c \in S /\ rest \in SUBSET S /\ Cardinality(rest) = n
      BY <2>1, <3>1, ChosenTaken
    <3>3. Sums(h, S)[rest] = Sums(g, S)[rest] + Gain(rest)
      BY <1>2, <3>2
    <3>4. /\ Sums(g, S)[s] = g[c] + Sums(g, S)[rest] /\ Sums(h, S)[s] = h[c] + Sums(h, S)[rest]
          /\ Sums(g, S)[rest] \in Int
      BY <3>1, <3>2, SumOf
    <3>5. g[c] \in Int /\ h[c] \in Int /\ g[a] \in Int /\ h[a] \in Int
      BY <3>2
    <3> HIDE DEF c
    <3>6. CASE c = a
      <4>1. a \in s /\ a \notin rest
        BY <3>2, <3>6
      <4> HIDE DEF rest
      <4> QED
        BY <3>3, <3>4, <3>5, <3>6, <4>1
    <3>7. CASE c # a
      <4>1. (a \in s <=> a \in rest) /\ h[c] = g[c]
        BY <3>2, <3>7
      <4> HIDE DEF rest
      <4> QED
        BY <3>3, <3>4, <3>5, <4>1
    <3> QED
      BY <3>6, <3>7
  <2> QED
    BY <2>1
<1>3. Cardinality(S) \in Nat
  BY FS_CardinalityType
<1>4. Cardinality(S) \in Moved
  <2> HIDE DEF Moved
  <2> QED
    BY <1>1, <1>2, <1>3, NatInduct
<1> QED
  BY <1>4, SumOf

=============================================================================
