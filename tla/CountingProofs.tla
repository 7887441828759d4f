---------------------------- MODULE CountingProofs ---------------------------
(***************************************************************************)
(* What moving one thread does to the numbers of module Counting, the      *)
(* least element of a set of numbers, which several programs search for,   *)
(* and what the library's folds and sums over a finite set amount to.      *)
(***************************************************************************)
EXTENDS Counting, FiniteSetsExt, FiniteSetTheorems, WellFoundedInduction, TLAPS

(* The number of members of a finite set is a natural number.              *)
LEMMA HowManyType ==
  ASSUME NEW S, IsFiniteSet(S), NEW at, NEW L
  PROVE  /\ IsFiniteSet({t \in S : at[t] \in L})
         /\ HowMany(S, at, L) \in Nat
  BY FS_Subset, FS_CardinalityType DEF HowMany

(* Nobody of S stands at L exactly when the number is 0.                   *)
LEMMA HowManyZero ==
  ASSUME NEW S, IsFiniteSet(S), NEW at, NEW L
  PROVE  HowMany(S, at, L) = 0 <=> \A t \in S : at[t] \notin L
  <1>1. IsFiniteSet({t \in S : at[t] \in L})
    BY HowManyType
  <1>2. HowMany(S, at, L) = 0 <=> {t \in S : at[t] \in L} = {}
    BY <1>1, FS_EmptySet DEF HowMany
  <1> QED
    BY <1>2

(* A number of at most 1 leaves room for one thread only.                  *)
LEMMA HowManyUnique ==
  ASSUME NEW S, IsFiniteSet(S), NEW at, NEW L, HowMany(S, at, L) <= 1,
         NEW t \in S, NEW u \in S, at[t] \in L, at[u] \in L
  PROVE  t = u
  <1> DEFINE A == {x \in S : at[x] \in L}
  <1>1. IsFiniteSet(A) /\ Cardinality(A) \in Nat /\ Cardinality(A) <= 1
    BY HowManyType DEF HowMany
  <1>2. t \in A /\ u \in A
    OBVIOUS
  <1>3. Cardinality(A) # 0
    BY <1>1, <1>2, FS_EmptySet
  <1>4. Cardinality(A) = 1
    BY <1>1, <1>3
  <1>5. PICK x : A = {x}
    BY <1>1, <1>4, FS_Singleton
  <1> QED
    BY <1>2, <1>5

(* When only t moves, the number changes by what its two places contribute.*)
LEMMA HowManyMove ==
  ASSUME NEW S, IsFiniteSet(S), NEW at, NEW after, NEW t \in S, NEW L,
         \A x \in S : x # t => after[x] = at[x]
  PROVE  HowMany(S, after, L) = HowMany(S, at, L) + Share(after[t], L) - Share(at[t], L)
  <1> DEFINE A == {x \in S : at[x] \in L}
             B == {x \in S : after[x] \in L}
  <1>1. IsFiniteSet(A) /\ Cardinality(A) \in Nat
    BY FS_Subset, FS_CardinalityType
  <1>2. HowMany(S, at, L) = Cardinality(A)
    BY DEF HowMany
  <1>3. HowMany(S, after, L) = Cardinality(B)
    BY DEF HowMany
  <1>4. t \in A <=> at[t] \in L
    OBVIOUS
  <1>5. CASE after[t] \in L
    <2>1. B = A \cup {t}
      <3>1. \A x \in S : x # t => (after[x] \in L <=> at[x] \in L)
        OBVIOUS
      <3> QED
        BY <1>5, <3>1
    <2>2. Cardinality(B) = IF t \in A THEN Cardinality(A) ELSE Cardinality(A) + 1
      BY <1>1, <2>1, FS_AddElement
    <2> HIDE DEF A, B
    <2> QED
      BY <1>1, <1>2, <1>3, <1>4, <1>5, <2>2 DEF Share
  <1>6. CASE after[t] \notin L
    <2>1. B = A \ {t}
      <3>1. \A x \in S : x # t => (after[x] \in L <=> at[x] \in L)
        OBVIOUS
      <3> QED
        BY <1>6, <3>1
    <2>2. Cardinality(B) = IF t \in A THEN Cardinality(A) - 1 ELSE Cardinality(A)
      BY <1>1, <2>1, FS_RemoveElement
    <2> HIDE DEF A, B
    <2> QED
      BY <1>1, <1>2, <1>3, <1>4, <1>6, <2>2 DEF Share
  <1> QED
    BY <1>5, <1>6

(* When nobody of S moves, it does not change.                             *)
LEMMA HowManyStay ==
  ASSUME NEW S, NEW at, NEW after, NEW L,
         \A x \in S : after[x] = at[x]
  PROVE  HowMany(S, after, L) = HowMany(S, at, L)
  <1>1. {x \in S : after[x] \in L} = {x \in S : at[x] \in L}
    OBVIOUS
  <1> QED
    BY <1>1 DEF HowMany

(* Min finds the least element of any set of natural numbers.              *)
LEMMA MinIsLeast ==
  ASSUME NEW S, S \subseteq Nat, S # {}
  PROVE  /\ Min(S) \in S
         /\ \A y \in S : Min(S) <= y
  <1>1. PICK x \in S : \A y \in S : <<y, x>> \notin OpToRel(<, Nat)
    BY WFMin, NatLessThanWellFounded, Zenon
  <1>2. \A y \in S : ~ (y < x)
    BY <1>1, Zenon DEF OpToRel
  <1>3. \A y \in S : x <= y
    BY <1>2
  <1> QED
    BY <1>3 DEF Min

(* The positions of a sequence of n elements.                              *)
LEMMA Positions ==
  ASSUME NEW n \in Nat
  PROVE  IsFiniteSet(1 .. n) /\ Cardinality(1 .. n) = n
  <1> DEFINE low == 1
  <1>1. low \in Int /\ n \in Int /\ low = 1
    OBVIOUS
  <1> HIDE DEF low
  <1>2. IsFiniteSet(low .. n) /\ Cardinality(low .. n) = IF low > n THEN 0 ELSE n - low + 1
    BY <1>1, FS_Interval
  <1>3. Cardinality(low .. n) = n
    BY <1>1, <1>2
  <1> QED
    BY <1>1, <1>2, <1>3

(* A non-empty set of positions has a last one.                            *)
LEMMA MaxMember ==
  ASSUME NEW n \in Nat, NEW t \in SUBSET (1 .. n), t # {}
  PROVE  Max(t) \in t
  <1> DEFINE below == {n - k : k \in t}
  <1>1. below \subseteq Nat /\ below # {}
    <2>1. \A k \in t : n - k \in Nat
      OBVIOUS
    <2>2. PICK k : k \in t
      OBVIOUS
    <2>3. n - k \in below
      BY <2>2
    <2> QED
      BY <2>1, <2>3
  <1>2. Min(below) \in below /\ \A j \in below : Min(below) <= j
    <2> HIDE DEF below
    <2> QED
      BY <1>1, MinIsLeast
  <1>3. PICK x \in t : Min(below) = n - x
    BY <1>2
  <1>4. \A y \in t : n - x <= n - y
    BY <1>2, <1>3
  <1>5. \A y \in t : x >= y
    BY <1>4
  <1> QED
    BY <1>5 DEF Max

(* A product grows with its factors.                                       *)
LEMMA Products ==
  ASSUME NEW a \in Nat, NEW b \in Nat, NEW c \in Nat, a <= b
  PROVE  a * c <= b * c
  <1>1. PICK d \in Nat : b = a + d
    <2>1. b - a \in Nat /\ b = a + (b - a)
      OBVIOUS
    <2> QED
      BY <2>1
  <1>2. (a + d) * c = a * c + d * c /\ a * c \in Nat /\ d * c \in Nat
    OBVIOUS
  <1> QED
    BY <1>1, <1>2

------------------------------------------------------------------------------
(* Folds and sums over finite sets *)

(* f tells, of every set of D, what it is folded to, one element picked    *)
(* after the other.                                                        *)
Folded(f, D, V, base, step, pick) ==
    /\ f \in [D -> V]
    /\ \A s \in D : f[s] = IF s = {} THEN base ELSE step[<<pick[s], f[s \ {pick[s]}]>>]

(* A fold over the subsets of a finite set exists.                         *)
LEMMA FoldExists ==
  ASSUME NEW S, IsFiniteSet(S), NEW V, NEW base \in V, NEW step \in [S \X V -> V],
         NEW pick, \A s \in SUBSET S : s # {} => pick[s] \in s
  PROVE  \E f : Folded(f, SUBSET S, V, base, step, pick)
  <1> DEFINE Small(m) == {s \in SUBSET S : Cardinality(s) <= m}
             Bad == {m \in Nat : ~\E f : Folded(f, Small(m), V, base, step, pick)}
  <1>1. \A s \in SUBSET S : IsFiniteSet(s) /\ Cardinality(s) \in Nat /\ Cardinality(s) <= Cardinality(S)
    BY FS_Subset, FS_CardinalityType
  <1>2. Cardinality(S) \in Nat /\ Small(Cardinality(S)) = SUBSET S
    BY <1>1
  <1>3. SUFFICES ASSUME Bad # {} PROVE FALSE
    <2> HIDE DEF Small
    <2>1. SUFFICES ASSUME Bad = {} PROVE \E f : Folded(f, SUBSET S, V, base, step, pick)
      OBVIOUS
    <2>2. PICK f : Folded(f, Small(Cardinality(S)), V, base, step, pick)
      BY <1>2, <2>1
    <2>3. Folded(f, SUBSET S, V, base, step, pick)
      BY <1>2, <2>2, Zenon
    <2> QED
      BY <2>3
  <1> DEFINE m == Min(Bad)
  <1>4. m \in Bad /\ \A j \in Bad : m <= j
    <2>1. Bad \subseteq Nat
      OBVIOUS
    <2> HIDE DEF Bad
    <2> QED
      BY <1>3, <2>1, MinIsLeast
  <1> HIDE DEF m
  <1>5. m # 0
    <2>1. \A s \in Small(0) : s = {}
      BY <1>1, FS_EmptySet
    <2>2. Folded([s \in Small(0) |-> base], Small(0), V, base, step, pick)
      BY <2>1 DEF Folded
    <2> HIDE DEF Small
    <2>3. 0 \notin Bad
      BY <2>2
    <2> QED
      BY <1>4, <2>3
  <1>6. m \in Nat /\ m - 1 \in Nat /\ m - 1 \notin Bad
    <2>1. m \in Nat
      BY <1>4
    <2> HIDE DEF Bad
    <2> QED
      BY <1>4, <1>5, <2>1
  <1>7. PICK f : Folded(f, Small(m - 1), V, base, step, pick)
    BY <1>6
  <1> DEFINE g == [s \in Small(m) |-> IF s = {} THEN base ELSE step[<<pick[s], f[s \ {pick[s]}]>>]]
  <1>8. ASSUME NEW s \in Small(m), s # {}
        PROVE  s \ {pick[s]} \in Small(m - 1) /\ pick[s] \in S
    <2>1. pick[s] \in s /\ IsFiniteSet(s) /\ Cardinality(s) \in Nat /\ Cardinality(s) <= m
      BY <1>1, <1>8
    <2>2. Cardinality(s \ {pick[s]}) = Cardinality(s) - 1
      BY <2>1, FS_RemoveElement
    <2> QED
      BY <1>6, <2>1, <2>2
  <1>9. \A s \in Small(m - 1) : s \in Small(m)
    BY <1>1, <1>6
  <1> HIDE DEF Small, Bad
  <1>10. \A s \in Small(m - 1) : f[s] \in V
    BY <1>7 DEF Folded
  <1>11. \A s \in Small(m - 1) : g[s] = f[s]
    BY <1>7, <1>9 DEF Folded
  <1>12. g \in [Small(m) -> V]
    BY <1>8, <1>10
  <1>13. \A s \in Small(m) : g[s] = IF s = {} THEN base ELSE step[<<pick[s], g[s \ {pick[s]}]>>]
    BY <1>8, <1>11
  <1>14. Folded(g, Small(m), V, base, step, pick)
    BY <1>12, <1>13 DEF Folded
  <1> QED
    BY <1>4, <1>14 DEF Bad

(* The definition of SumFunctionOnSet, with the fold named.                *)
Anyone(s) == CHOOSE x \in s : TRUE
SumEquation(f, g, S) ==
    f = [s \in SUBSET S |-> IF s = {} THEN 0 ELSE g[Anyone(s)] + f[s \ {Anyone(s)}]]

(* The sum of g over S, with its fold named.                               *)
LEMMA SumUnfolded ==
  ASSUME NEW g, NEW S
  PROVE  SumFunctionOnSet(g, S) = (CHOOSE f : SumEquation(f, g, S))[S]
  BY DEF SumFunctionOnSet, FoldFunctionOnSet, MapThenFoldSet, SumEquation, Anyone

(* f tells the sums of g over the subsets of S.                            *)
Sums(f, g, S) ==
    /\ f \in [SUBSET S -> Int]
    /\ \A s \in SUBSET S : f[s] = IF s = {} THEN 0 ELSE g[Anyone(s)] + f[s \ {Anyone(s)}]

(* SumFunctionOnSet is found among the sums over the subsets.              *)
LEMMA SumFound ==
  ASSUME NEW S, IsFiniteSet(S), NEW g, \A x \in S : g[x] \in Int
  PROVE  \E f : Sums(f, g, S) /\ SumFunctionOnSet(g, S) = f[S]
  <1> DEFINE f == CHOOSE f : SumEquation(f, g, S)
             step == [p \in S \X Int |-> g[p[1]] + p[2]]
             pick == [s \in SUBSET S |-> Anyone(s)]
  <1>1. \A s : s # {} => Anyone(s) \in s
    BY DEF Anyone
  <1>2. step \in [S \X Int -> Int] /\ \A s \in SUBSET S : s # {} => pick[s] \in s
    BY <1>1
  <1>3. PICK e : Folded(e, SUBSET S, Int, 0, step, pick)
    <2>1. step \in [S \X Int -> Int]
      BY <1>2
    <2>2. \A s \in SUBSET S : s # {} => pick[s] \in s
      BY <1>2
    <2> HIDE DEF step, pick
    <2>3. 0 \in Int
      OBVIOUS
    <2>4. \E e : Folded(e, SUBSET S, Int, 0, step, pick)
      BY <2>1, <2>2, <2>3, FoldExists, Zenon
    <2> QED
      BY <2>4
  <1>4. SumEquation(e, g, S)
    <2>1. e \in [SUBSET S -> Int]
      BY <1>3 DEF Folded
    <2>2. ASSUME NEW s \in SUBSET S
          PROVE  e[s] = IF s = {} THEN 0 ELSE g[Anyone(s)] + e[s \ {Anyone(s)}]
      <3>1. e[s] = IF s = {} THEN 0 ELSE step[<<Anyone(s), e[s \ {Anyone(s)}]>>]
        BY <1>3 DEF Folded
      <3>2. CASE s # {}
        <4>1. Anyone(s) \in S /\ e[s \ {Anyone(s)}] \in Int
          BY <1>1, <2>1, <3>2
        <4> DEFINE a == Anyone(s)
                   b == e[s \ {a}]
        <4> HIDE DEF a, b
        <4>2. <<a, b>> \in S \X Int
          BY <4>1 DEF a, b
        <4>3. step[<<a, b>>] = g[a] + b
          BY <4>2
        <4> QED
          BY <3>1, <3>2, <4>3 DEF a, b
      <3> QED
        BY <3>1, <3>2
    <2> QED
      BY <2>1, <2>2 DEF SumEquation
  <1>5. SumEquation(f, g, S)
    BY <1>4
  <1> HIDE DEF f
  <1>6. Sums(f, g, S)
    <2> DEFINE Bad == {m \in Nat : \E s \in SUBSET S : Cardinality(s) = m /\ f[s] \notin Int}
    <2>1. \A s \in SUBSET S : f[s] = IF s = {} THEN 0 ELSE g[Anyone(s)] + f[s \ {Anyone(s)}]
      BY <1>5 DEF SumEquation
    <2>2. \A s \in SUBSET S : IsFiniteSet(s) /\ Cardinality(s) \in Nat
      BY FS_Subset, FS_CardinalityType
    <2>3. Bad = {}
      <3> SUFFICES ASSUME Bad # {} PROVE FALSE
        OBVIOUS
      <3>1. PICK m \in Bad : \A j \in Bad : m <= j
        <4>1. Bad \subseteq Nat
          OBVIOUS
        <4> HIDE DEF Bad
        <4> QED
          BY <4>1, MinIsLeast
      <3>2. PICK s \in SUBSET S : Cardinality(s) = m /\ f[s] \notin Int
        BY <3>1
      <3>3. s # {}
        <4> SUFFICES ASSUME s = {} PROVE FALSE
          OBVIOUS
        <4>1. f[s] = 0
          BY <2>1
        <4> QED
          BY <3>2, <4>1
      <3> DEFINE t == s \ {Anyone(s)}
      <3>4. Anyone(s) \in s /\ t \in SUBSET S /\ Cardinality(t) = m - 1
        BY <1>1, <2>2, <3>2, <3>3, FS_RemoveElement
      <3>5. f[t] \in Int
        BY <2>2, <3>1, <3>4
      <3> QED
        BY <2>1, <3>2, <3>3, <3>4, <3>5
    <2>4. \A s \in SUBSET S : f[s] \in Int
      BY <2>2, <2>3
    <2>5. f \in [SUBSET S -> Int]
      <3>1. f = [s \in SUBSET S |-> IF s = {} THEN 0 ELSE g[Anyone(s)] + f[s \ {Anyone(s)}]]
        BY <1>5 DEF SumEquation
      <3>2. \A s \in SUBSET S : (IF s = {} THEN 0 ELSE g[Anyone(s)] + f[s \ {Anyone(s)}]) \in Int
        BY <2>1, <2>4
      <3> QED
        BY <3>1, <3>2
    <2> QED
      BY <2>1, <2>5 DEF Sums
  <1> QED
    BY <1>6, SumUnfolded DEF f

(* Two that sum the same numbers agree.                                    *)
LEMMA SumsAgree ==
  ASSUME NEW S, NEW T, NEW f, NEW e, NEW g, NEW h, Sums(f, g, S), Sums(e, h, T),
         NEW s, s \in SUBSET S, s \in SUBSET T, IsFiniteSet(s), \A x \in s : g[x] = h[x]
  PROVE  f[s] = e[s]
  <1> DEFINE Bad == {m \in Nat : \E t \in SUBSET s : Cardinality(t) = m /\ f[t] # e[t]}
  <1>1. \A t \in SUBSET s : IsFiniteSet(t) /\ Cardinality(t) \in Nat
    BY FS_Subset, FS_CardinalityType
  <1>2. SUFFICES ASSUME Bad # {} PROVE FALSE
    BY <1>1
  <1>3. PICK m \in Bad : \A j \in Bad : m <= j
    <2>1. Bad \subseteq Nat
      OBVIOUS
    <2> HIDE DEF Bad
    <2> QED
      BY <1>2, <2>1, MinIsLeast
  <1>4. PICK t \in SUBSET s : Cardinality(t) = m /\ f[t] # e[t]
    BY <1>3
  <1>5. /\ f[t] = IF t = {} THEN 0 ELSE g[Anyone(t)] + f[t \ {Anyone(t)}]
        /\ e[t] = IF t = {} THEN 0 ELSE h[Anyone(t)] + e[t \ {Anyone(t)}]
    BY DEF Sums
  <1>6. t # {} /\ Anyone(t) \in t
    BY <1>4, <1>5 DEF Anyone
  <1>7. Cardinality(t \ {Anyone(t)}) = m - 1
    BY <1>1, <1>4, <1>6, FS_RemoveElement
  <1>8. f[t \ {Anyone(t)}] = e[t \ {Anyone(t)}]
    <2>1. t \ {Anyone(t)} \in SUBSET s /\ m - 1 \in Nat
      BY <1>1, <1>7
    <2> QED
      BY <1>3, <1>7, <2>1
  <1> QED
    BY <1>4, <1>5, <1>6, <1>8

(* The sum over a finite set.                                              *)
LEMMA SumType ==
  ASSUME NEW S, IsFiniteSet(S), NEW g, \A x \in S : g[x] \in Int
  PROVE  /\ SumFunctionOnSet(g, S) \in Int
         /\ S = {} => SumFunctionOnSet(g, S) = 0
  <1>1. PICK f : Sums(f, g, S) /\ SumFunctionOnSet(g, S) = f[S]
    BY SumFound
  <1>2. S \in SUBSET S
    OBVIOUS
  <1>3. f[S] \in Int
    BY <1>1, <1>2 DEF Sums
  <1>4. S = {} => f[S] = 0
    BY <1>1, <1>2 DEF Sums
  <1> QED
    BY <1>1, <1>3, <1>4

(* It only depends on the numbers summed.                                  *)
LEMMA SumSame ==
  ASSUME NEW S, IsFiniteSet(S), NEW g, \A x \in S : g[x] \in Int, NEW h, \A x \in S : h[x] = g[x]
  PROVE  SumFunctionOnSet(h, S) = SumFunctionOnSet(g, S)
  <1>1. PICK f : Sums(f, g, S) /\ SumFunctionOnSet(g, S) = f[S]
    BY SumFound
  <1>2. PICK e : Sums(e, h, S) /\ SumFunctionOnSet(h, S) = e[S]
    BY SumFound
  <1> QED
    BY <1>1, <1>2, SumsAgree

(* Any element can be added last.                                          *)
LEMMA SumElement ==
  ASSUME NEW S, IsFiniteSet(S), NEW g, \A x \in S : g[x] \in Int, NEW y \in S
  PROVE  SumFunctionOnSet(g, S) = g[y] + SumFunctionOnSet(g, S \ {y})
  <1>1. PICK f : Sums(f, g, S) /\ SumFunctionOnSet(g, S) = f[S]
    BY SumFound
  <1>2. IsFiniteSet(S \ {y})
    BY FS_Subset
  <1>3. PICK e : Sums(e, g, S \ {y}) /\ SumFunctionOnSet(g, S \ {y}) = e[S \ {y}]
    BY <1>2, SumFound
  <1>4. e[S \ {y}] = f[S \ {y}]
    BY <1>1, <1>2, <1>3, SumsAgree
  <1> DEFINE Bad == {m \in Nat : \E s \in SUBSET S : \E z \in s :
                                     Cardinality(s) = m /\ f[s] # g[z] + f[s \ {z}]}
  <1>5. \A s \in SUBSET S : IsFiniteSet(s) /\ Cardinality(s) \in Nat
    BY FS_Subset, FS_CardinalityType
  <1>6. SUFFICES ASSUME Bad # {} PROVE FALSE
    <2>1. Bad = {} => f[S] = g[y] + f[S \ {y}]
      <3>1. S \in SUBSET S /\ Cardinality(S) \in Nat
        BY <1>5
      <3> QED
        BY <3>1
    <2> QED
      BY <1>1, <1>3, <1>4, <2>1
  <1>7. PICK m \in Bad : \A j \in Bad : m <= j
    <2>1. Bad \subseteq Nat
      OBVIOUS
    <2> HIDE DEF Bad
    <2> QED
      BY <1>6, <2>1, MinIsLeast
  <1>8. PICK s \in SUBSET S : \E z \in s : Cardinality(s) = m /\ f[s] # g[z] + f[s \ {z}]
    BY <1>7
  <1>16. PICK z \in s : Cardinality(s) = m /\ f[s] # g[z] + f[s \ {z}]
    BY <1>8
  <1> DEFINE c == Anyone(s)
  <1>9. c \in s /\ f[s] = g[c] + f[s \ {c}]
    BY <1>1 DEF Sums, Anyone
  <1> HIDE DEF c
  <1>10. c # z
    BY <1>16, <1>9
  <1>11. ASSUME NEW x \in s
         PROVE  Cardinality(s \ {x}) = m - 1 /\ s \ {x} \in SUBSET S
    BY <1>5, <1>16, FS_RemoveElement
  <1>12. ASSUME NEW x \in s, NEW w \in s \ {x}
         PROVE  f[s \ {x}] = g[w] + f[(s \ {x}) \ {w}]
    <2>1. m - 1 \in Nat
      BY <1>5, <1>11
    <2>2. m - 1 \notin Bad
      BY <1>7, <2>1
    <2> QED
      BY <1>11, <2>1, <2>2
  <1>13. f[s \ {c}] = g[z] + f[(s \ {c}) \ {z}] /\ f[s \ {z}] = g[c] + f[(s \ {z}) \ {c}]
    BY <1>9, <1>10, <1>12
  <1>14. (s \ {c}) \ {z} = (s \ {z}) \ {c}
    OBVIOUS
  <1>15. g[c] \in Int /\ g[z] \in Int /\ f[(s \ {z}) \ {c}] \in Int
    <2>1. (s \ {z}) \ {c} \in SUBSET S
      OBVIOUS
    <2> QED
      BY <1>1, <1>9, <2>1 DEF Sums
  <1> DEFINE rest == f[(s \ {z}) \ {c}]
  <1>17. f[s] = g[c] + (g[z] + rest) /\ f[s \ {z}] = g[c] + rest
    BY <1>9, <1>13, <1>14
  <1>18. g[c] + (g[z] + rest) = g[z] + (g[c] + rest)
    <2> HIDE DEF rest
    <2> QED
      BY <1>15 DEF rest
  <1> QED
    BY <1>16, <1>17, <1>18

(* What natural numbers sum up to is one.                                  *)
LEMMA SumNat ==
  ASSUME NEW S, IsFiniteSet(S), NEW g, \A x \in S : g[x] \in Nat
  PROVE  SumFunctionOnSet(g, S) \in Nat
  <1> DEFINE Bad == {m \in Nat : \E s \in SUBSET S :
                                    Cardinality(s) = m /\ SumFunctionOnSet(g, s) \notin Nat}
  <1>1. \A s \in SUBSET S : IsFiniteSet(s) /\ Cardinality(s) \in Nat
    BY FS_Subset, FS_CardinalityType
  <1>2. SUFFICES ASSUME Bad # {} PROVE FALSE
    BY <1>1
  <1>3. PICK m \in Bad : \A j \in Bad : m <= j
    <2>1. Bad \subseteq Nat
      OBVIOUS
    <2> HIDE DEF Bad
    <2> QED
      BY <1>2, <2>1, MinIsLeast
  <1>4. PICK s \in SUBSET S : Cardinality(s) = m /\ SumFunctionOnSet(g, s) \notin Nat
    BY <1>3
  <1>5. s # {}
    BY <1>1, <1>4, SumType
  <1>6. PICK x \in s : TRUE
    BY <1>5
  <1>7. SumFunctionOnSet(g, s) = g[x] + SumFunctionOnSet(g, s \ {x})
    <2>1. IsFiniteSet(s) /\ \A y \in s : g[y] \in Int
      BY <1>1
    <2> QED
      BY <2>1, SumElement
  <1>8. Cardinality(s \ {x}) = m - 1 /\ m - 1 \in Nat
    BY <1>1, <1>4, FS_RemoveElement
  <1>9. SumFunctionOnSet(g, s \ {x}) \in Nat
    BY <1>3, <1>8
  <1> QED
    BY <1>4, <1>7, <1>9
==============================================================================
