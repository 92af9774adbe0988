------------------------- MODULE SubsequencesProofs -------------------------
(* What Subsequence returns, for every sequence, with the induction that   *)
(* the proofs about sequences of this project rest on.                     *)
EXTENDS Subsequences, Integers, SequencesExt, FiniteSetTheorems, WellFoundedInduction, TLAPS

-----------------------------------------------------------------------------
(* Induction over a set of numbers, and recursive functions.               *)

LEMMA LeastNumber ==
  ASSUME NEW S \in SUBSET Nat, S # {}
  PROVE  \E n \in S : \A m \in S : n <= m
<1> DEFINE R == OpToRel(<, Nat)
<1>1. IsWellFoundedOn(R, Nat)
  BY NatLessThanWellFounded
<1>2. PICK n \in S : \A m \in S : <<m, n>> \notin R
  <2> HIDE DEF R
  <2> QED BY <1>1, WFMin
<1>3. \A m \in S : ~(m < n)
  BY <1>2 DEF OpToRel
<1> QED BY <1>3

LEMMA UpToInduction ==
  ASSUME NEW n \in Nat, NEW S, 0 \in S, \A i \in 1..n : i - 1 \in S => i \in S
  PROVE  0..n \subseteq S
<1> SUFFICES ASSUME (0..n) \ S # {} PROVE FALSE
  OBVIOUS
<1>1. (0..n) \ S \in SUBSET Nat
  OBVIOUS
<1>2. PICK i \in (0..n) \ S : \A m \in (0..n) \ S : i <= m
  BY <1>1, LeastNumber
<1>3. i \in 1..n /\ i - 1 \in 0..n
  BY <1>2
<1>4. i - 1 \in S
  BY <1>2, <1>3
<1> QED BY <1>2, <1>3, <1>4

\* The n steps of a recursion over S, and the values that it takes.
StepsOn(n, S) == [1..n -> [S -> S]]
IsRecursion(f, n, S, base, Step) ==
  f \in [0..n -> S] /\ f[0] = base /\ \A i \in 1..n : f[i] = Step[i][f[i - 1]]

LEMMA RecursionExists ==
  ASSUME NEW S, NEW n \in Nat, NEW base \in S, NEW Step \in StepsOn(n, S)
  PROVE  \E f : IsRecursion(f, n, S, base, Step)
<1> USE DEF StepsOn
<1> DEFINE Prefix(m, f) == f[0] = base /\ \A i \in 1..m : f[i] = Step[i][f[i - 1]]
           Done == {m \in 0..n : \E f \in [0..n -> S] : Prefix(m, f)}
<1>0. \A i \in 1..n : i \in 0..n /\ i - 1 \in 0..n /\ i # 0
  OBVIOUS
<1>1. 0 \in Done
  <2> DEFINE f == [i \in 0..n |-> base]
  <2>1. f \in [0..n -> S] /\ f[0] = base
    OBVIOUS
  <2> HIDE DEF f
  <2>2. Prefix(0, f)
    BY <2>1
  <2>3. 0 \in 0..n
    OBVIOUS
  <2> HIDE DEF Prefix
  <2> QED BY <2>1, <2>2, <2>3
<1>2. ASSUME NEW m \in 1..n, m - 1 \in Done
      PROVE  m \in Done
  <2>1. PICK f \in [0..n -> S] : Prefix(m - 1, f)
    <3> HIDE DEF Prefix
    <3> QED BY <1>2
  <2>2. m - 1 \in 0..n /\ m \in 0..n /\ m # 0
    BY <1>0
  <2> DEFINE next == Step[m][f[m - 1]]
             g == [f EXCEPT ![m] = next]
  <2>3. next \in S
    BY <2>2
  <2> HIDE DEF next
  <2>4. g \in [0..n -> S] /\ g[m] = next /\ \A i \in 0..n : i # m => g[i] = f[i]
    BY <2>2, <2>3
  <2> HIDE DEF g
  <2>5. g[0] = base
    BY <2>1, <2>2, <2>4
  <2>6. ASSUME NEW i \in 1..m PROVE g[i] = Step[i][g[i - 1]]
    <3>1. i \in 0..n /\ i - 1 \in 0..n /\ i - 1 # m
      BY <2>2
    <3>2. g[i - 1] = f[i - 1]
      BY <3>1, <2>4
    <3>3. CASE i = m
      BY <3>2, <3>3, <2>4 DEF next
    <3>4. CASE i # m
      <4>1. i \in 1..(m - 1)
        BY <3>4
      <4>2. f[i] = Step[i][f[i - 1]]
        BY <2>1, <4>1
      <4> QED BY <4>2, <3>1, <3>2, <3>4, <2>4
    <3> QED BY <3>3, <3>4
  <2>7. Prefix(m, g)
    BY <2>5, <2>6
  <2> HIDE DEF Prefix
  <2> QED BY <2>2, <2>4, <2>7
<1>3. n \in Done
  <2> HIDE DEF Done
  <2>1. 0..n \subseteq Done
    BY <1>1, <1>2, UpToInduction
  <2> QED BY <2>1
<1> HIDE DEF Prefix
<1>4. PICK f \in [0..n -> S] : Prefix(n, f)
  BY <1>3
<1> QED BY <1>4 DEF Prefix, IsRecursion

-----------------------------------------------------------------------------
(* Subsequences.                                                           *)

\* upTo is the function by which Subsequence is defined.
IsUnfolding(upTo, s, chosen, T) ==
  /\ upTo \in [0..Len(s) -> Seq(T)]
  /\ upTo[0] = <<>>
  /\ \A i \in 1..Len(s) :
       upTo[i] = IF i \in chosen THEN Append(upTo[i - 1], s[i]) ELSE upTo[i - 1]
  /\ Subsequence(s, chosen) = upTo[Len(s)]

LEMMA SubsequenceUnfolds ==
  ASSUME NEW T, NEW s \in Seq(T), NEW chosen
  PROVE  \E upTo : IsUnfolding(upTo, s, chosen, T)
<1>0. PICK n \in Nat : n = Len(s)
  OBVIOUS
<1> DEFINE Q == Seq(T)
           Extended(i, q) == IF i \in chosen THEN Append(q, s[i]) ELSE q
           Is(upTo) == upTo = [i \in 0..n |-> IF i = 0 THEN <<>> ELSE Extended(i, upTo[i - 1])]
           Step == [i \in 1..n |-> [q \in Q |-> Extended(i, q)]]
           f == CHOOSE upTo : Is(upTo)
<1>1. <<>> \in Q /\ \A i \in 1..n, q \in Q : Extended(i, q) \in Q
  BY <1>0
<1>2. Subsequence(s, chosen) = f[n]
  BY <1>0 DEF Subsequence
<1> HIDE DEF Q, Extended
<1>3. Step \in [1..n -> [Q -> Q]] /\ \A i \in 1..n, q \in Q : Step[i][q] = Extended(i, q)
  BY <1>1
<1> HIDE DEF Step
<1>4. PICK g : IsRecursion(g, n, Q, <<>>, Step)
  <2>1. <<>> \in Q /\ Step \in StepsOn(n, Q)
    BY <1>1, <1>3 DEF StepsOn
  <2> QED BY <2>1, RecursionExists
<1>5. \A i \in 1..n : i \in 0..n /\ i - 1 \in 0..n /\ i # 0
  OBVIOUS
<1>6. Is(g)
  <2>1. \A i \in 1..n : g[i] = Extended(i, g[i - 1])
    BY <1>3, <1>4, <1>5 DEF IsRecursion
  <2>2. \A i \in 0..n : g[i] = IF i = 0 THEN <<>> ELSE Extended(i, g[i - 1])
    BY <2>1, <1>4 DEF IsRecursion
  <2> QED BY <2>2, <1>4 DEF IsRecursion
<1>7. Is(f)
  <2> HIDE DEF Is
  <2> QED BY <1>6
<1> HIDE DEF f
<1>8. DOMAIN f = 0..n /\ f[0] = <<>> /\ \A i \in 1..n : f[i] = Extended(i, f[i - 1])
  BY <1>5, <1>7
<1>9. f \in [0..n -> Q]
  <2> DEFINE Good == {i \in 0..n : f[i] \in Q}
  <2>1. 0 \in Good
    BY <1>1, <1>8
  <2>2. \A i \in 1..n : i - 1 \in Good => i \in Good
    BY <1>1, <1>5, <1>8
  <2>3. 0..n \subseteq Good
    <3> HIDE DEF Good
    <3> QED BY <2>1, <2>2, UpToInduction
  <2>4. f = [i \in 0..n |-> f[i]]
    BY <1>7
  <2> QED BY <2>3, <2>4
<1> QED BY <1>0, <1>2, <1>8, <1>9 DEF Q, Extended, IsUnfolding

LEMMA SubsequenceIsPlaced ==
  ASSUME NEW T, NEW s \in Seq(T), NEW chosen
  PROVE  /\ Subsequence(s, chosen) \in Seq(T)
         /\ \E place : IsPlacement(place, Subsequence(s, chosen), s, chosen)
<1>1. PICK upTo : IsUnfolding(upTo, s, chosen, T)
  BY SubsequenceUnfolds
<1> USE DEF IsUnfolding
<1>2. PICK n \in Nat : n = Len(s)
  OBVIOUS
<1> DEFINE Initial(i) == chosen \cap (1..i)
           Placed(place, i) ==
             /\ place \in [1..Len(upTo[i]) -> Initial(i)]
             /\ \A k \in 1..Len(upTo[i]) : upTo[i][k] = s[place[k]]
             /\ \A k, l \in 1..Len(upTo[i]) : k < l => place[k] < place[l]
             /\ \A j \in Initial(i) : \E k \in 1..Len(upTo[i]) : place[k] = j
           Good == {i \in 0..n : \E place : Placed(place, i)}
<1>3. 0 \in Good
  <2>1. Len(upTo[0]) = 0 /\ Initial(0) = {} /\ 0 \in 0..n
    BY <1>1
  <2>2. Placed(<<>>, 0)
    BY <2>1
  <2> HIDE DEF Placed
  <2> QED BY <2>1, <2>2
<1>4. ASSUME NEW i \in 1..n, i - 1 \in Good
      PROVE  i \in Good
  <2>1. PICK place : Placed(place, i - 1)
    <3> HIDE DEF Placed
    <3> QED BY <1>4
  <2>2. i \in 0..n /\ i - 1 \in 0..n /\ i \in 1..Len(s) /\ s[i] \in T
    BY <1>2
  <2>3. upTo[i - 1] \in Seq(T)
    BY <1>1, <1>2, <2>2
  <2>4. CASE i \notin chosen
    <3>1. upTo[i] = upTo[i - 1]
      BY <1>1, <2>2, <2>4
    <3>2. Initial(i) = Initial(i - 1)
      BY <2>4, <2>2
    <3> HIDE DEF Initial
    <3>3. Placed(place, i)
      BY <2>1, <3>1, <3>2
    <3> HIDE DEF Placed
    <3> QED BY <3>3, <2>2
  <2>5. CASE i \in chosen
    <3>1. PICK q \in Seq(T) : q = upTo[i - 1]
      BY <2>3
    <3>2. PICK m \in Nat : m = Len(q)
      OBVIOUS
    <3>3. upTo[i] = Append(q, s[i])
      BY <1>1, <2>2, <2>5, <3>1
    <3>4. Len(upTo[i]) = m + 1 /\ upTo[i][m + 1] = s[i] /\ \A k \in 1..m : upTo[i][k] = q[k]
      BY <3>2, <3>3, <2>2
    <3>5. Initial(i) = Initial(i - 1) \cup {i} /\ \A j \in Initial(i - 1) : j < i /\ j \in Nat
      BY <2>5, <2>2
    <3>6. /\ place \in [1..m -> Initial(i - 1)]
          /\ \A k \in 1..m : q[k] = s[place[k]]
          /\ \A k, l \in 1..m : k < l => place[k] < place[l]
          /\ \A j \in Initial(i - 1) : \E k \in 1..m : place[k] = j
      BY <2>1, <3>1, <3>2
    <3> DEFINE longer == [k \in 1..(m + 1) |-> IF k = m + 1 THEN i ELSE place[k]]
    <3>7. longer[m + 1] = i /\ \A k \in 1..m : longer[k] = place[k]
      OBVIOUS
    <3> HIDE DEF Initial
    <3>8. longer \in [1..(m + 1) -> Initial(i)]
      BY <3>5, <3>6
    <3> HIDE DEF longer
    <3>9. \A k \in 1..(m + 1) : k \in 1..m \/ k = m + 1
      OBVIOUS
    <3>10. \A k \in 1..(m + 1) : upTo[i][k] = s[longer[k]]
      BY <3>4, <3>6, <3>7, <3>9
    <3>11. \A k, l \in 1..(m + 1) : k < l => longer[k] < longer[l]
      <4> SUFFICES ASSUME NEW k \in 1..(m + 1), NEW l \in 1..(m + 1), k < l
                   PROVE  longer[k] < longer[l]
        OBVIOUS
      <4>1. k \in 1..m
        OBVIOUS
      <4>2. CASE l = m + 1
        BY <4>1, <4>2, <3>5, <3>6, <3>7
      <4>3. CASE l \in 1..m
        BY <4>1, <4>3, <3>6, <3>7
      <4> QED BY <4>2, <4>3, <3>9
    <3>12. \A j \in Initial(i) : \E k \in 1..(m + 1) : longer[k] = j
      <4>1. m + 1 \in 1..(m + 1) /\ 1..m \subseteq 1..(m + 1)
        OBVIOUS
      <4>2. \A j \in Initial(i - 1) : \E k \in 1..m : longer[k] = j
        BY <3>6, <3>7
      <4> QED BY <4>1, <4>2, <3>5, <3>7
    <3>13. Placed(longer, i)
      BY <3>4, <3>8, <3>10, <3>11, <3>12
    <3> HIDE DEF Placed
    <3> QED BY <3>13, <2>2
  <2> QED BY <2>4, <2>5
<1>5. n \in Good
  <2> HIDE DEF Good
  <2>1. 0..n \subseteq Good
    BY <1>3, <1>4, UpToInduction
  <2> QED BY <2>1
<1>6. PICK place : Placed(place, n)
  <2> HIDE DEF Placed
  <2> QED BY <1>5
<1>7. upTo[n] \in Seq(T) /\ upTo[n] = Subsequence(s, chosen)
  BY <1>1, <1>2
<1>8. IsPlacement(place, upTo[n], s, chosen)
  <2>1. DOMAIN upTo[n] = 1..Len(upTo[n]) /\ Initial(n) = chosen \cap DOMAIN s
    BY <1>2, <1>7
  <2> HIDE DEF Initial
  <2> QED BY <1>6, <2>1 DEF IsPlacement
<1> QED BY <1>7, <1>8

\* The elements of a subsequence are those at the indices chosen, each at a
\* place of its own.
LEMMA SubsequenceElements ==
  ASSUME NEW T, NEW s \in Seq(T), NEW chosen, NEW q, q = Subsequence(s, chosen)
  PROVE  /\ q \in Seq(T)
         /\ \A k \in DOMAIN q : \E i \in chosen \cap DOMAIN s : q[k] = s[i]
         /\ \A i \in chosen \cap DOMAIN s : \E k \in DOMAIN q : q[k] = s[i]
<1>1. q \in Seq(T)
  BY SubsequenceIsPlaced
<1>2. PICK place : IsPlacement(place, q, s, chosen)
  BY SubsequenceIsPlaced
<1> QED BY <1>1, <1>2 DEF IsPlacement

LEMMA SubsequenceLength ==
  ASSUME NEW T, NEW s \in Seq(T), NEW chosen
  PROVE  /\ IsFiniteSet(chosen \cap DOMAIN s)
         /\ Len(Subsequence(s, chosen)) = Cardinality(chosen \cap DOMAIN s)
         /\ Len(Subsequence(s, chosen)) <= Len(s)
<1> DEFINE q == Subsequence(s, chosen)
           D == chosen \cap DOMAIN s
<1>1. q \in Seq(T)
  BY SubsequenceIsPlaced
<1>2. PICK place : IsPlacement(place, q, s, chosen)
  BY SubsequenceIsPlaced
<1> HIDE DEF q
<1>3. Len(q) \in Nat /\ DOMAIN q = 1..Len(q) /\ DOMAIN s = 1..Len(s) /\ Len(s) \in Nat
  BY <1>1
<1>4. place \in Bijection(1..Len(q), D)
  <2>1. place \in [1..Len(q) -> D] /\ \A i \in D : \E k \in 1..Len(q) : place[k] = i
    BY <1>2, <1>3 DEF IsPlacement
  <2>2. \A k, l \in 1..Len(q) : k < l => place[k] < place[l]
    BY <1>2, <1>3 DEF IsPlacement
  <2>3. \A k, l \in 1..Len(q) : place[k] = place[l] => k = l
    <3> SUFFICES ASSUME NEW k \in 1..Len(q), NEW l \in 1..Len(q), place[k] = place[l], k # l
                 PROVE  FALSE
      OBVIOUS
    <3>1. place[k] \in Nat /\ k \in Nat /\ l \in Nat
      BY <2>1, <1>3
    <3>2. k < l \/ l < k
      BY <3>1
    <3> QED BY <3>1, <3>2, <2>2
  <2> HIDE DEF D
  <2> QED BY <2>1, <2>3 DEF Bijection, Injection, Surjection, IsInjective
<1>5. ExistsBijection(1..Len(q), D)
  BY <1>4 DEF ExistsBijection
<1>6. IsFiniteSet(D) /\ Cardinality(D) = Len(q)
  <2> HIDE DEF D
  <2> QED BY <1>3, <1>5, FS_NatBijection, FS_CountingElements
<1>7. IsFiniteSet(1..Len(s)) /\ Cardinality(1..Len(s)) = Len(s)
  <2>1. PICK n \in Nat : n = Len(s)
    BY <1>3
  <2>2. 1 \in Int /\ n \in Int
    OBVIOUS
  <2>3. IsFiniteSet(1..n) /\ Cardinality(1..n) = IF 1 > n THEN 0 ELSE n - 1 + 1
    BY ONLY <2>2, FS_Interval
  <2> QED BY <2>1, <2>3
<1>8. D \in SUBSET (1..Len(s))
  BY <1>3
<1>9. Cardinality(D) <= Cardinality(1..Len(s))
  BY <1>7, <1>8, FS_Subset
<1> QED BY <1>6, <1>7, <1>9 DEF q

-----------------------------------------------------------------------------
(* Sequences without repetitions.                                          *)

\* A concatenation has the elements of its parts.
LEMMA ConcatElements ==
  ASSUME NEW T, NEW a \in Seq(T), NEW b \in Seq(T)
  PROVE  ToSet(a \o b) = ToSet(a) \cup ToSet(b)
<1>0. PICK m \in Nat, n \in Nat : m = Len(a) /\ n = Len(b)
  OBVIOUS
<1> DEFINE c == a \o b
<1>1. /\ c \in Seq(T) /\ Len(c) = m + n
      /\ \A i \in 1..m : c[i] = a[i]
      /\ \A i \in 1..n : c[m + i] = b[i]
  BY <1>0
<1> HIDE DEF c
<1>2. DOMAIN c = 1..(m + n) /\ DOMAIN a = 1..m /\ DOMAIN b = 1..n
  BY <1>0, <1>1
<1>3. ASSUME NEW i \in 1..(m + n) PROVE c[i] \in ToSet(a) \cup ToSet(b)
  <2>1. CASE i \in 1..m
    BY <1>1, <1>2, <2>1 DEF ToSet
  <2>2. CASE i \notin 1..m
    <3>1. i - m \in 1..n /\ m + (i - m) = i
      BY <2>2
    <3>2. c[i] = b[i - m]
      BY <1>1, <3>1
    <3> QED BY <1>2, <3>1, <3>2 DEF ToSet
  <2> QED BY <2>1, <2>2
<1>4. ASSUME NEW i \in 1..m PROVE a[i] \in ToSet(c)
  <2>1. i \in 1..(m + n)
    OBVIOUS
  <2> QED BY <1>1, <1>2, <2>1 DEF ToSet
<1>5. ASSUME NEW i \in 1..n PROVE b[i] \in ToSet(c)
  <2>1. m + i \in 1..(m + n)
    OBVIOUS
  <2> QED BY <1>1, <1>2, <2>1 DEF ToSet
<1> QED BY <1>2, <1>3, <1>4, <1>5 DEF c, ToSet

\* It repeats nothing when its parts repeat nothing and share nothing.
LEMMA ConcatOnce ==
  ASSUME NEW T, NEW a \in Seq(T), NEW b \in Seq(T)
  PROVE  IsInjective(a \o b)
           <=> IsInjective(a) /\ IsInjective(b) /\ ToSet(a) \cap ToSet(b) = {}
<1>0. PICK m \in Nat, n \in Nat : m = Len(a) /\ n = Len(b)
  OBVIOUS
<1> DEFINE c == a \o b
<1>1. /\ c \in Seq(T) /\ Len(c) = m + n
      /\ \A i \in 1..m : c[i] = a[i]
      /\ \A i \in 1..n : c[m + i] = b[i]
  BY <1>0
<1> HIDE DEF c
<1>2. DOMAIN c = 1..(m + n) /\ DOMAIN a = 1..m /\ DOMAIN b = 1..n
  BY <1>0, <1>1
<1>3. ASSUME IsInjective(a), IsInjective(b), ToSet(a) \cap ToSet(b) = {},
             NEW i \in 1..(m + n), NEW j \in 1..(m + n), c[i] = c[j]
      PROVE  i = j
  <2>1. \A k \in 1..(m + n) : k \in 1..m \/ (k - m \in 1..n /\ m + (k - m) = k)
    OBVIOUS
  <2>2. \A k \in 1..(m + n) : \/ k \in 1..m /\ c[k] = a[k]
                              \/ k - m \in 1..n /\ c[k] = b[k - m]
    BY <1>1, <2>1
  <2>3. \A k \in 1..m, l \in 1..n : a[k] # b[l]
    BY <1>2, <1>3 DEF ToSet
  <2>4. CASE i \in 1..m /\ c[i] = a[i]
    <3>1. j \in 1..m /\ c[j] = a[j]
      BY <1>3, <2>2, <2>3, <2>4
    <3> QED BY <1>2, <1>3, <2>4, <3>1 DEF IsInjective
  <2>5. CASE i - m \in 1..n /\ c[i] = b[i - m]
    <3>1. j - m \in 1..n /\ c[j] = b[j - m]
      BY <1>3, <2>2, <2>3, <2>5
    <3>2. i - m = j - m
      BY <1>2, <1>3, <2>5, <3>1 DEF IsInjective
    <3> QED BY <3>2
  <2> QED BY <2>2, <2>4, <2>5
<1>4. ASSUME IsInjective(c) PROVE IsInjective(a) /\ IsInjective(b) /\ ToSet(a) \cap ToSet(b) = {}
  <2>1. \A i \in 1..m : i \in DOMAIN c /\ c[i] = a[i]
    BY <1>1, <1>2
  <2>2. \A i \in 1..n : m + i \in DOMAIN c /\ c[m + i] = b[i]
    BY <1>1, <1>2
  <2>3. IsInjective(a)
    BY <1>2, <1>4, <2>1 DEF IsInjective
  <2>4. ASSUME NEW i \in 1..n, NEW j \in 1..n, b[i] = b[j] PROVE i = j
    <3>1. m + i = m + j
      BY <1>4, <2>2, <2>4 DEF IsInjective
    <3> QED BY <3>1
  <2>5. ASSUME NEW i \in 1..m, NEW j \in 1..n, a[i] = b[j] PROVE FALSE
    <3>1. i = m + j
      BY <1>4, <2>1, <2>2, <2>5 DEF IsInjective
    <3> QED BY <3>1
  <2> QED BY <1>2, <2>3, <2>4, <2>5 DEF IsInjective, ToSet
<1> QED BY <1>2, <1>3, <1>4 DEF c, IsInjective

\* A part of a sequence without repetitions has none.
LEMMA SubsequenceKeepsOnce ==
  ASSUME NEW T, NEW s \in Seq(T), NEW chosen, IsInjective(s)
  PROVE  IsInjective(Subsequence(s, chosen))
<1> DEFINE q == Subsequence(s, chosen)
<1>1. q \in Seq(T)
  BY SubsequenceIsPlaced
<1>2. PICK place : IsPlacement(place, q, s, chosen)
  BY SubsequenceIsPlaced
<1> HIDE DEF q
<1> SUFFICES ASSUME NEW k \in DOMAIN q, NEW l \in DOMAIN q, q[k] = q[l], k # l
             PROVE  FALSE
  BY DEF IsInjective, q
<1>3. place[k] \in DOMAIN s /\ place[l] \in DOMAIN s /\ q[k] = s[place[k]] /\ q[l] = s[place[l]]
  BY <1>2 DEF IsPlacement
<1>4. place[k] = place[l]
  BY <1>3 DEF IsInjective
<1>5. k \in Nat /\ l \in Nat /\ place[k] \in Nat
  BY <1>1, <1>3
<1>6. k < l \/ l < k
  BY <1>5
<1>7. k < l => place[k] < place[l]
  BY <1>2 DEF IsPlacement
<1>8. l < k => place[l] < place[k]
  BY <1>2 DEF IsPlacement
<1> QED BY <1>4, <1>5, <1>6, <1>7, <1>8

-----------------------------------------------------------------------------
(* Greatest and least numbers.                                             *)

\* The least number of a set is one of them.
LEMMA MinIsMember ==
  ASSUME NEW S, S \subseteq Nat, S # {}
  PROVE  Min(S) \in S
<1>1. PICK n \in S : \A m \in S : n <= m
  BY LeastNumber
<1> QED BY <1>1 DEF Min

\* So is the greatest of a finite set, and none is above it.
LEMMA MaxIsGreatest ==
  ASSUME NEW S \in SUBSET Nat, S # {}, IsFiniteSet(S)
  PROVE  Max(S) \in S /\ \A m \in S : m <= Max(S)
<1>0. PICK n \in Nat : ExistsBijection(1..n, S)
  BY FS_NatBijection
<1>1. PICK f \in [1..n -> S] : \A m \in S : \E i \in 1..n : f[i] = m
  <2>1. PICK f \in Bijection(1..n, S) : TRUE
    BY <1>0 DEF ExistsBijection
  <2> QED BY <2>1 DEF Bijection, Injection, Surjection
<1>10. \A i \in 1..n : f[i] \in Nat
  BY <1>1
<1> DEFINE Done == {i \in 0..n : i = 0 \/ \E k \in 1..i : \A j \in 1..i : f[j] <= f[k]}
<1>2. 0 \in Done
  OBVIOUS
<1>3. ASSUME NEW i \in 1..n, i - 1 \in Done PROVE i \in Done
  <2>1. CASE i = 1
    <3>1. \A j \in 1..i : f[j] <= f[i]
      BY <2>1, <1>10
    <3> QED BY <3>1
  <2>2. CASE i # 1
    <3>1. PICK k \in 1..(i - 1) : \A j \in 1..(i - 1) : f[j] <= f[k]
      BY <1>3, <2>2
    <3>2. \A j \in 1..i : j \in 1..(i - 1) \/ j = i
      OBVIOUS
    <3>3. f[k] \in Nat /\ f[i] \in Nat /\ \A j \in 1..i : f[j] \in Nat
      BY <1>3, <1>10, <3>1
    <3>4. CASE f[i] <= f[k]
      <4>1. k \in 1..i /\ \A j \in 1..i : f[j] <= f[k]
        BY <3>1, <3>2, <3>4
      <4> QED BY <4>1
    <3>5. CASE f[k] <= f[i]
      <4>1. \A j \in 1..(i - 1) : f[j] <= f[i]
        BY <3>1, <3>3, <3>5
      <4>2. i \in 1..i /\ \A j \in 1..i : f[j] <= f[i]
        BY <3>2, <3>3, <4>1
      <4> QED BY <4>2
    <3> QED BY <3>3, <3>4, <3>5
  <2> QED BY <2>1, <2>2
<1>4. 0..n \subseteq Done
  <2> HIDE DEF Done
  <2> QED BY <1>2, <1>3, UpToInduction
<1>5. n # 0 /\ n \in 0..n
  <2>1. PICK m \in S : TRUE
    OBVIOUS
  <2>2. PICK i \in 1..n : f[i] = m
    BY <1>1, <2>1
  <2> QED BY <2>2
<1>6. PICK k \in 1..n : \A j \in 1..n : f[j] <= f[k]
  BY <1>4, <1>5
<1>7. f[k] \in S /\ \A m \in S : f[k] >= m
  BY <1>1, <1>6
<1>8. \A x \in S : (\A m \in S : x >= m) => Max(S) \in S /\ \A m \in S : Max(S) >= m
  BY DEF Max
<1>9. Max(S) \in S /\ \A m \in S : Max(S) >= m
  BY <1>7, <1>8
<1> QED BY <1>9

=============================================================================
