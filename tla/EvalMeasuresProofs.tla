-------------------------- MODULE EvalMeasuresProofs --------------------------
(* What the measures of EvalMeasures compute, for rankings of any length.   *)
(*                                                                         *)
(* The loops are folds, which are recursive functions of sets.  That such a *)
(* function exists, and what it is at each rank, is shown from the minimal   *)
(* element of a set that is not empty (WFMin), which is as good as an        *)
(* induction.                                                              *)
EXTENDS EvalMeasures, FiniteSetTheorems, SequenceTheorems, TLAPS

(* Induction, for the numbers that are in a set.                           *)
LEMMA NatSetInduction ==
  ASSUME NEW T, 0 \in T, \A n \in Nat : n \in T => n + 1 \in T
  PROVE  Nat \subseteq T
<1> DEFINE B == Nat \ T
           R == OpToRel(<, Nat)
<1> SUFFICES ASSUME B # {} PROVE FALSE
  OBVIOUS
<1>0. R = {xy \in Nat \X Nat : xy[1] < xy[2]}
  BY DEF OpToRel
<1>1. IsWellFoundedOn(R, Nat)
  BY NatLessThanWellFounded
<1> HIDE DEF R
<1>2. PICK x \in B : \A y \in B : ~(<<y, x>> \in R)
  BY <1>1, WFMin
<1>3. x \in Nat /\ x # 0 /\ x - 1 \in Nat
  BY <1>2
<1>4. x - 1 \in B
  BY <1>2, <1>3
<1>5. <<x - 1, x>> \in R
  BY <1>0, <1>3
<1> QED
  BY <1>2, <1>4, <1>5

LEMMA UpToInduction ==
  ASSUME NEW n \in Nat, NEW T, 0 \in T, \A k \in 1 .. n : k - 1 \in T => k \in T
  PROVE  0 .. n \subseteq T
<1> DEFINE U == {k \in Nat : k > n \/ k \in T}
<1>1. 0 \in U
  OBVIOUS
<1>2. \A k \in Nat : k \in U => k + 1 \in U
  <2> SUFFICES ASSUME NEW k \in Nat, k \in U PROVE k + 1 \in U
    OBVIOUS
  <2>1. CASE k + 1 > n
    BY <2>1
  <2>2. CASE k + 1 <= n
    <3>1. k + 1 \in 1 .. n /\ k + 1 - 1 = k /\ k \in T
      BY <2>2
    <3> QED
      BY <3>1
  <2> QED
    BY <2>1, <2>2
<1> HIDE DEF U
<1>3. Nat \subseteq U
  BY <1>1, <1>2, NatSetInduction
<1> QED
  BY <1>3 DEF U

FoldsBy(g, D, base, pick, step) ==
  \A s \in SUBSET D : g[s] = IF s = {} THEN base ELSE step[<<g[s \ {pick[s]}], pick[s]>>]
FoldsUpTo(g, n, base, step) ==
  \A s \in SUBSET (1 .. n) :
    g[s] = IF s = {} THEN base ELSE step[<<g[s \ {Max(s)}], Max(s)>>]

(* A function of the subsets of a finite set that takes an element of its   *)
(* argument, applies step to it and to the function of the others.          *)
LEMMA FoldExists ==
  ASSUME NEW D, IsFiniteSet(D), NEW A, NEW base \in A,
         NEW pick, \A s \in SUBSET D : s # {} => pick[s] \in s,
         NEW step \in [A \X D -> A]
  PROVE  \E g \in [SUBSET D -> A] : FoldsBy(g, D, base, pick, step)
<1> DEFINE Small(n) == {s \in SUBSET D : Cardinality(s) <= n}
           Is(g, s) == g[s] = IF s = {} THEN base ELSE step[<<g[s \ {pick[s]}], pick[s]>>]
           Q == {n \in Nat : \E g \in [Small(n) -> A] : \A s \in Small(n) : Is(g, s)}
<1>1. \A s \in SUBSET D : IsFiniteSet(s) /\ Cardinality(s) \in Nat
  BY FS_Subset, FS_CardinalityType
<1>2. 0 \in Q
  <2> DEFINE g == [s \in Small(0) |-> base]
  <2>1. \A s \in Small(0) : s = {}
    BY <1>1, FS_EmptySet
  <2>2. g \in [Small(0) -> A] /\ \A s \in Small(0) : Is(g, s)
    BY <2>1
  <2> QED
    BY <2>2
<1>3. ASSUME NEW n \in Nat, n \in Q PROVE n + 1 \in Q
  <2>1. PICK g \in [Small(n) -> A] : \A s \in Small(n) : Is(g, s)
    BY <1>3
  <2> DEFINE h == [s \in Small(n + 1) |->
                     IF s = {} THEN base ELSE step[<<g[s \ {pick[s]}], pick[s]>>]]
  <2>2. ASSUME NEW s \in Small(n + 1), s # {}
        PROVE  pick[s] \in D /\ s \ {pick[s]} \in Small(n)
    <3>1. pick[s] \in s /\ IsFiniteSet(s) /\ Cardinality(s) \in Nat
      BY <1>1, <2>2
    <3>2. Cardinality(s \ {pick[s]}) = Cardinality(s) - 1
      BY <3>1, FS_RemoveElement
    <3>3. s \in SUBSET D /\ Cardinality(s) <= n + 1
      OBVIOUS
    <3> QED
      BY <3>1, <3>2, <3>3
  <2>3. h \in [Small(n + 1) -> A]
    BY <2>2
  <2>4. \A s \in Small(n) : s \in Small(n + 1) /\ h[s] = g[s]
    BY <1>1, <2>1
  <2>5. ASSUME NEW s \in Small(n + 1) PROVE Is(h, s)
    BY <2>2, <2>4
  <2> HIDE DEF h
  <2>6. \E f \in [Small(n + 1) -> A] : \A s \in Small(n + 1) : Is(f, s)
    BY <2>3, <2>5, Zenon
  <2>7. n + 1 \in Nat
    OBVIOUS
  <2> QED
    BY <2>6, <2>7, Zenon
<1> HIDE DEF Q
<1>4. Cardinality(D) \in Q
  <2>1. Nat \subseteq Q
    BY <1>2, <1>3, NatSetInduction
  <2> QED
    BY <2>1, FS_CardinalityType
<1>5. Small(Cardinality(D)) = SUBSET D
  BY FS_Subset
<1> QED
  BY <1>4, <1>5 DEF Q, FoldsBy

(* The largest of some numbers up to n.                                    *)
LEMMA MaxOfNumbers ==
  ASSUME NEW n \in Nat, NEW S \in SUBSET (1 .. n), S # {}
  PROVE  Max(S) \in S /\ \A x \in S : x <= Max(S)
<1>0. ASSUME NEW y \in S, \A z \in S : y >= z PROVE Max(S) \in S /\ \A z \in S : Max(S) >= z
  BY <1>0, Zenon DEF Max
<1> SUFFICES ASSUME \A y \in S : \E z \in S : ~(y >= z) PROVE FALSE
  BY <1>0
<1> DEFINE Above == {k \in Nat : \E x \in S : x > k}
<1>1. 0 \in Above
  <2>1. PICK x \in S : x \in 1 .. n
    OBVIOUS
  <2> QED
    BY <2>1
<1>2. ASSUME NEW k \in Nat, k \in Above PROVE k + 1 \in Above
  <2>1. PICK x \in S : x > k
    BY <1>2
  <2>2. PICK z \in S : ~(x >= z)
    OBVIOUS
  <2> QED
    BY <2>1, <2>2
<1> HIDE DEF Above
<1>3. n \in Above
  BY <1>1, <1>2, NatSetInduction
<1> QED
  BY <1>3 DEF Above

(* The same for a fold over a sequence of n elements, which takes the last   *)
(* element first.                                                          *)
LEMMA SeqFoldExists ==
  ASSUME NEW n \in Nat, NEW A, NEW base \in A, NEW step \in [A \X (1 .. n) -> A]
  PROVE  \E g \in [SUBSET (1 .. n) -> A] : FoldsUpTo(g, n, base, step)
<1> DEFINE pick == [s \in SUBSET (1 .. n) |-> Max(s)]
<1>1. \A s \in SUBSET (1 .. n) : pick[s] = Max(s) /\ (s # {} => pick[s] \in s)
  BY MaxOfNumbers
<1>2. IsFiniteSet(1 .. n)
  BY FS_Interval
<1> HIDE DEF pick
<1>3. PICK g \in [SUBSET (1 .. n) -> A] : FoldsBy(g, 1 .. n, base, pick, step)
  BY <1>1, <1>2, FoldExists
<1>4. FoldsUpTo(g, n, base, step)
  BY <1>1, <1>3 DEF FoldsBy, FoldsUpTo
<1> QED
  BY <1>4

(* Its prefixes.                                                           *)
LEMMA Segments ==
  ASSUME NEW n \in Nat
  PROVE  /\ 1 .. 0 = {} /\ \A k \in 0 .. n : 1 .. k \in SUBSET (1 .. n)
         /\ \A k \in 1 .. n : /\ 1 .. k # {} /\ Max(1 .. k) = k
                             /\ (1 .. k) \ {k} = 1 .. (k - 1)
<1>1. ASSUME NEW k \in 1 .. n PROVE Max(1 .. k) = k
  <2>1. 1 .. k \in SUBSET (1 .. n) /\ k \in 1 .. k
    BY <1>1
  <2>2. Max(1 .. k) \in 1 .. k /\ k <= Max(1 .. k)
    BY <2>1, MaxOfNumbers
  <2> QED
    BY <2>2
<1>2. \A k \in 1 .. n : (1 .. k) \ {k} = 1 .. (k - 1)
  OBVIOUS
<1>3. 1 .. 0 = {} /\ \A k \in 0 .. n : 1 .. k \in SUBSET (1 .. n)
  OBVIOUS
<1> QED
  BY <1>1, <1>2, <1>3
-----------------------------------------------------------------------------
(* The sum of a sequence, term by term.                                    *)
LEMMA TotalSteps ==
  ASSUME NEW q \in Seq(Nat)
  PROVE  \E sum \in [0 .. Len(q) -> Nat] :
           /\ sum[0] = 0 /\ \A k \in 1 .. Len(q) : sum[k] = sum[k - 1] + q[k]
           /\ Total(q) = sum[Len(q)]
<1> DEFINE n == Len(q)
           D == 1 .. n
           step == [p \in Nat \X D |-> p[1] + q[p[2]]]
           iter == CHOOSE g : g = [s \in SUBSET D |->
                     IF s = {} THEN 0 ELSE g[s \ {Max(s)}] + q[Max(s)]]
           sum == [k \in 0 .. n |-> iter[1 .. k]]
<1>1. n \in Nat /\ DOMAIN q = D /\ \A k \in D : q[k] \in Nat
  BY LenProperties, ElementOfSeq
<1>2. Total(q) = iter[D]
  BY <1>1 DEF Total, FoldLeft, MapThenFoldSet
<1>3. step \in [Nat \X D -> Nat]
  BY <1>1
<1>4. \E g : g = [s \in SUBSET D |-> IF s = {} THEN 0 ELSE g[s \ {Max(s)}] + q[Max(s)]]
  <2>1. PICK g \in [SUBSET D -> Nat] : FoldsUpTo(g, n, 0, step)
    <3> HIDE DEF step
    <3> QED
      BY <1>1, <1>3, SeqFoldExists
  <2>2. ASSUME NEW s \in SUBSET D, s # {}
        PROVE  step[<<g[s \ {Max(s)}], Max(s)>>] = g[s \ {Max(s)}] + q[Max(s)]
    BY <1>1, <2>2, MaxOfNumbers
  <2> QED
    BY <2>1, <2>2 DEF FoldsUpTo
<1>5. iter = [s \in SUBSET D |-> IF s = {} THEN 0 ELSE iter[s \ {Max(s)}] + q[Max(s)]]
  BY <1>4, Zenon
<1> HIDE DEF iter
<1>6. iter[{}] = 0 /\ \A k \in D : iter[1 .. k] = iter[1 .. (k - 1)] + q[k]
  <2>1. \A s \in SUBSET D : iter[s] = IF s = {} THEN 0 ELSE iter[s \ {Max(s)}] + q[Max(s)]
    BY <1>5
  <2>2. ASSUME NEW k \in D PROVE iter[1 .. k] = iter[1 .. (k - 1)] + q[k]
    <3>1. /\ 1 .. k \in SUBSET D /\ 1 .. k # {}
          /\ Max(1 .. k) = k /\ (1 .. k) \ {k} = 1 .. (k - 1)
      BY <1>1, Segments
    <3>2. iter[1 .. k] = iter[(1 .. k) \ {Max(1 .. k)}] + q[Max(1 .. k)]
      BY <2>1, <3>1, Zenon
    <3> QED
      BY <3>1, <3>2
  <2> QED
    BY <2>1, <2>2
<1>7. sum[0] = 0 /\ \A k \in D : sum[k] = sum[k - 1] + q[k]
  <2>1. sum[0] = iter[{}]
    BY <1>1, Segments
  <2>2. ASSUME NEW k \in D PROVE sum[k] = sum[k - 1] + q[k]
    <3>1. k \in 0 .. n /\ k - 1 \in 0 .. n
      BY <1>1
    <3>2. sum[k] = iter[1 .. k] /\ sum[k - 1] = iter[1 .. (k - 1)]
      BY <3>1
    <3> QED
      BY <1>6, <3>2
  <2> QED
    BY <1>6, <2>1, <2>2
<1>8. Total(q) = sum[n]
  BY <1>1, <1>2
<1>9. sum \in [0 .. n -> Nat]
  <2> DEFINE T == {k \in 0 .. n : sum[k] \in Nat}
  <2>1. sum = [k \in 0 .. n |-> sum[k]]
    OBVIOUS
  <2> HIDE DEF sum
  <2>2. 0 \in T
    BY <1>1, <1>7
  <2>3. ASSUME NEW k \in 1 .. n, k - 1 \in T PROVE k \in T
    <3>1. k \in 0 .. n /\ q[k] \in Nat /\ sum[k - 1] \in Nat
      BY <1>1, <2>3
    <3> QED
      BY <1>7, <3>1
  <2>4. 0 .. n \subseteq T
    <3> HIDE DEF T
    <3> QED
      BY <1>1, <2>2, <2>3, UpToInduction
  <2> QED
    BY <2>1, <2>4
<1> HIDE DEF sum
<1> QED
  BY <1>7, <1>8, <1>9

(* A fold that is known at the prefixes, as a function of their length.    *)
IteratesTo(iter, n, A, base, step) ==
  \E acc \in [0 .. n -> A] :
    /\ acc[0] = base /\ \A k \in 1 .. n : acc[k] = step[<<acc[k - 1], k>>]
    /\ iter[1 .. n] = acc[n]

LEMMA Accumulates ==
  ASSUME NEW n \in Nat, NEW A, NEW base \in A, NEW step \in [A \X (1 .. n) -> A],
         NEW iter, iter[{}] = base,
         \A k \in 1 .. n : iter[1 .. (k - 1)] \in A => iter[1 .. k] = step[<<iter[1 .. (k - 1)], k>>]
  PROVE  IteratesTo(iter, n, A, base, step)
<1> DEFINE acc == [k \in 0 .. n |-> iter[1 .. k]]
           T == {k \in 0 .. n : acc[k] \in A}
<1>1. acc = [k \in 0 .. n |-> acc[k]] /\ acc[0] = base /\ acc[n] = iter[1 .. n]
  BY Segments
<1>2. ASSUME NEW k \in 1 .. n, acc[k - 1] \in A PROVE acc[k] = step[<<acc[k - 1], k>>] /\ acc[k] \in A
  <2>1. k \in 0 .. n /\ k - 1 \in 0 .. n
    OBVIOUS
  <2>2. acc[k] = iter[1 .. k] /\ acc[k - 1] = iter[1 .. (k - 1)]
    BY <2>1
  <2> HIDE DEF acc
  <2>3. acc[k] = step[<<acc[k - 1], k>>]
    BY <1>2, <2>2
  <2> QED
    BY <1>2, <2>3
<1> HIDE DEF acc
<1>3. 0 .. n \subseteq T
  <2>1. 0 \in T
    BY <1>1
  <2>2. ASSUME NEW k \in 1 .. n, k - 1 \in T PROVE k \in T
    <3>1. k \in 0 .. n
      OBVIOUS
    <3> QED
      BY <1>2, <2>2, <3>1
  <2> HIDE DEF T
  <2>3. 0 .. n \subseteq T
    BY <2>1, <2>2, UpToInduction
  <2> QED
    BY <2>3 DEF T
<1>4. \A k \in 1 .. n : k - 1 \in 0 .. n
  OBVIOUS
<1> QED
  BY <1>1, <1>2, <1>3, <1>4 DEF IteratesTo

(* The gain of a grade, and what is left of 16.                            *)
LEMMA Gains ==
  /\ Gain(0) = 0 /\ Gain(1) = 1 /\ Gain(2) = 3 /\ Gain(3) = 7 /\ Gain(4) = 15
  /\ 2 ^ MaxGrade = 16
  /\ \A rel \in 0 .. 4 : Gain(rel) \in 0 .. 15
<1>1. 2 ^ 0 = 1 /\ 2 ^ 1 = 2 /\ 2 ^ 2 = 4 /\ 2 ^ 3 = 8 /\ 2 ^ 4 = 16
  OBVIOUS
<1>2. Gain(0) = 0 /\ Gain(1) = 1 /\ Gain(2) = 3 /\ Gain(3) = 7 /\ Gain(4) = 15
  BY <1>1 DEF Gain
<1>3. \A rel \in 0 .. 4 : rel = 0 \/ rel = 1 \/ rel = 2 \/ rel = 3 \/ rel = 4
  OBVIOUS
<1> QED
  BY <1>1, <1>2, <1>3 DEF MaxGrade

LEMMA PaddedGrades ==
  ASSUME NEW ranking \in Seq(0 .. 4)
  PROVE  Padded(ranking) \in [1 .. MaxRank -> 0 .. 4]
<1>1. \A k \in 1 .. Len(ranking) : ranking[k] \in 0 .. 4
  BY ElementOfSeq
<1>2. Len(ranking) \in Nat
  BY LenProperties
<1> QED
  BY <1>1, <1>2, MeasuresAssumption DEF Padded

LEMMA TimesNat == \A a, b \in Nat : a * b \in Nat
OBVIOUS
LEMMA ShareOfRanks == \A k \in Nat \ {0} : Ranks \div k \in Nat
<1>1. Ranks \in Nat
  BY MeasuresAssumption
<1> QED
  BY <1>1

(* ERR, rank by rank.                                                      *)
ERRsOf(f, down, sum) ==
  /\ down \in [0 .. MaxRank -> Nat] /\ sum \in [0 .. MaxRank -> Nat]
  /\ down[0] = 1 /\ sum[0] = 0
  /\ \A k \in 1 .. MaxRank :
       /\ down[k] = down[k - 1] * (16 - Gain(f[k]))
       /\ sum[k] = sum[k - 1] * 16 + down[k - 1] * Gain(f[k]) * (Ranks \div k)

LEMMA ERRSteps ==
  ASSUME NEW ranking \in Seq(0 .. 4)
  PROVE  \E down, sum : ERRsOf(Padded(ranking), down, sum) /\ ERR(ranking) = sum[MaxRank]
<1> DEFINE n == MaxRank
           D == 1 .. n
           f == Padded(ranking)
           A == [rank : Nat \ {0}, down : Nat, sum : Nat]
           base == [rank |-> 1, down |-> 1, sum |-> 0]
           Next(a, rel) == [rank |-> a.rank + 1, down |-> a.down * (2 ^ MaxGrade - Gain(rel)),
                            sum  |-> a.sum * 2 ^ MaxGrade
                                     + a.down * Gain(rel) * (Ranks \div a.rank)]
           step == [p \in A \X D |-> Next(p[1], f[p[2]])]
           Is(g) == g = [s \in SUBSET D |->
                           IF s = {} THEN base ELSE Next(g[s \ {Max(s)}], f[Max(s)])]
           iter == CHOOSE g : Is(g)
<1>1. n \in Nat /\ f \in [D -> 0 .. 4]
  BY MeasuresAssumption, PaddedGrades
<1>2. DOMAIN f = D /\ Len(f) = n
  <2>1. f \in Seq(0 .. 4)
    BY <1>1, SeqDef
  <2>2. DOMAIN f = 1 .. Len(f) /\ Len(f) \in Nat
    BY <2>1, LenProperties
  <2> QED
    BY <1>1, <2>2
<1>3. ERR(ranking) = iter[D].sum
  <2> HIDE DEF f
  <2>1. DOMAIN f = D
    BY <1>2
  <2> QED
    BY <2>1 DEF ERR, FoldLeft, MapThenFoldSet, f
<1> HIDE DEF f
<1>4. base \in A
  OBVIOUS
<1>5. ASSUME NEW a \in A, NEW rel \in 0 .. 4 PROVE Next(a, rel) \in A
  <2>1. Gain(rel) \in Nat /\ 16 - Gain(rel) \in Nat /\ 2 ^ MaxGrade = 16
    BY Gains
  <2>2. a.rank + 1 \in Nat \ {0} /\ a.down \in Nat /\ a.sum \in Nat /\ Ranks \div a.rank \in Nat
    BY ShareOfRanks
  <2>3. a.down * (2 ^ MaxGrade - Gain(rel)) \in Nat
    BY <2>1, <2>2, TimesNat
  <2>4. a.sum * 2 ^ MaxGrade \in Nat /\ a.down * Gain(rel) * (Ranks \div a.rank) \in Nat
    BY <2>1, <2>2, TimesNat
  <2>5. a.sum * 2 ^ MaxGrade + a.down * Gain(rel) * (Ranks \div a.rank) \in Nat
    BY <2>4
  <2> QED
    BY <2>2, <2>3, <2>5, Zenon
<1> HIDE DEF A, base, Next
<1>6. step \in [A \X D -> A]
  BY <1>1, <1>5
<1>7. \E g : Is(g)
  <2>1. PICK g \in [SUBSET D -> A] : FoldsUpTo(g, n, base, step)
    <3> HIDE DEF step
    <3> QED
      BY <1>1, <1>4, <1>6, SeqFoldExists
  <2>2. ASSUME NEW s \in SUBSET D, s # {}
        PROVE  step[<<g[s \ {Max(s)}], Max(s)>>] = Next(g[s \ {Max(s)}], f[Max(s)])
    BY <1>1, <2>2, MaxOfNumbers
  <2> QED
    BY <2>1, <2>2 DEF FoldsUpTo
<1>8. Is(iter)
  BY <1>7, Zenon
<1> HIDE DEF iter
<1>9. iter[{}] = base /\ \A k \in D : iter[1 .. k] = Next(iter[1 .. (k - 1)], f[k])
  <2>1. \A s \in SUBSET D : iter[s] = IF s = {} THEN base ELSE Next(iter[s \ {Max(s)}], f[Max(s)])
    BY <1>8
  <2>2. ASSUME NEW k \in D PROVE iter[1 .. k] = Next(iter[1 .. (k - 1)], f[k])
    <3>1. /\ 1 .. k \in SUBSET D /\ 1 .. k # {}
          /\ Max(1 .. k) = k /\ (1 .. k) \ {k} = 1 .. (k - 1)
      BY <1>1, Segments
    <3>2. iter[1 .. k] = Next(iter[(1 .. k) \ {Max(1 .. k)}], f[Max(1 .. k)])
      BY <2>1, <3>1, Zenon
    <3> QED
      BY <3>1, <3>2
  <2> QED
    BY <2>1, <2>2
<1>10. PICK acc \in [0 .. n -> A] :
         /\ acc[0] = base /\ \A k \in 1 .. n : acc[k] = step[<<acc[k - 1], k>>]
         /\ iter[1 .. n] = acc[n]
  <2>1. \A k \in D : iter[1 .. (k - 1)] \in A => iter[1 .. k] = step[<<iter[1 .. (k - 1)], k>>]
    BY <1>9
  <2>2. iter[{}] = base
    BY <1>9
  <2>3. IteratesTo(iter, n, A, base, step)
    <3> HIDE DEF step
    <3> QED
      BY <1>1, <1>4, <1>6, <2>1, <2>2, Accumulates
  <2> QED
    BY <2>3, Zenon DEF IteratesTo
<1>11. ASSUME NEW k \in 1 .. n
       PROVE  /\ k \in 0 .. n /\ k - 1 \in 0 .. n /\ k - 1 + 1 = k
              /\ acc[k] = Next(acc[k - 1], f[k])
  <2>1. k \in 0 .. n /\ k - 1 \in 0 .. n /\ k - 1 + 1 = k
    BY <1>1
  <2>2. <<acc[k - 1], k>> \in A \X D
    BY <2>1
  <2> QED
    BY <1>10, <2>1, <2>2
<1>12. \A k \in 0 .. n : acc[k].rank = k + 1
  <2> DEFINE T == {k \in 0 .. n : acc[k].rank = k + 1}
  <2>1. 0 \in T
    BY <1>1, <1>10 DEF base
  <2>2. ASSUME NEW k \in 1 .. n, k - 1 \in T PROVE k \in T
    <3>1. acc[k] = Next(acc[k - 1], f[k])
      BY <1>11
    <3>2. acc[k].rank = acc[k - 1].rank + 1
      BY <3>1 DEF Next
    <3> QED
      BY <1>11, <2>2, <3>2
  <2> HIDE DEF T
  <2>3. 0 .. n \subseteq T
    BY <1>1, <2>1, <2>2, UpToInduction
  <2> QED
    BY <2>3 DEF T
<1> DEFINE down == [k \in 0 .. n |-> acc[k].down]
           sum  == [k \in 0 .. n |-> acc[k].sum]
<1>13. down \in [0 .. n -> Nat] /\ sum \in [0 .. n -> Nat]
  BY <1>10 DEF A
<1>14. down[0] = 1 /\ sum[0] = 0
  BY <1>1, <1>10 DEF base
<1>15. ASSUME NEW k \in 1 .. n
       PROVE  /\ down[k] = down[k - 1] * (16 - Gain(f[k]))
              /\ sum[k] = sum[k - 1] * 16 + down[k - 1] * Gain(f[k]) * (Ranks \div k)
  <2>1. k \in 0 .. n /\ k - 1 \in 0 .. n /\ k - 1 + 1 = k
    BY <1>11
  <2>2. acc[k - 1].rank = k
    BY <1>12, <2>1
  <2>3. acc[k] = Next(acc[k - 1], f[k]) /\ 2 ^ MaxGrade = 16
    BY <1>11, Gains
  <2>4. down[k] = acc[k].down /\ down[k - 1] = acc[k - 1].down
        /\ sum[k] = acc[k].sum /\ sum[k - 1] = acc[k - 1].sum
    BY <2>1
  <2> HIDE DEF down, sum
  <2> QED
    BY <2>2, <2>3, <2>4 DEF Next
<1>16. ERR(ranking) = sum[n]
  BY <1>1, <1>3, <1>10
<1> HIDE DEF down, sum
<1>17. ERRsOf(f, down, sum)
  BY <1>13, <1>14, <1>15 DEF ERRsOf
<1> QED
  BY <1>16, <1>17 DEF f
-----------------------------------------------------------------------------
(* How many of the first k grades are at least t.                          *)
Count(f, k, t) == Cardinality({r \in 1 .. k : f[r] >= t})

LEMMA CountSteps ==
  ASSUME NEW f, NEW t
  PROVE  /\ Count(f, 0, t) = 0
         /\ \A k \in Nat : Count(f, k, t) \in 0 .. k
         /\ \A k \in Nat \ {0} :
              Count(f, k, t) = Count(f, k - 1, t) + (IF f[k] >= t THEN 1 ELSE 0)
<1> DEFINE S(k) == {r \in 1 .. k : f[r] >= t}
<1>1. ASSUME NEW k \in Nat PROVE IsFiniteSet(S(k)) /\ Cardinality(S(k)) \in 0 .. k
  <2>1. IsFiniteSet(1 .. k) /\ Cardinality(1 .. k) = k
    BY FS_Interval
  <2>2. S(k) \subseteq 1 .. k
    OBVIOUS
  <2>3. IsFiniteSet(S(k)) /\ Cardinality(S(k)) <= k
    BY <2>1, <2>2, FS_Subset
  <2>4. Cardinality(S(k)) \in Nat
    BY <2>3, FS_CardinalityType
  <2> QED
    BY <2>3, <2>4
<1>2. Count(f, 0, t) = 0
  <2>1. S(0) = {}
    OBVIOUS
  <2> QED
    BY <2>1, FS_EmptySet DEF Count
<1>3. ASSUME NEW k \in Nat \ {0}
      PROVE  Count(f, k, t) = Count(f, k - 1, t) + (IF f[k] >= t THEN 1 ELSE 0)
  <2>1. k - 1 \in Nat
    OBVIOUS
  <2>2. CASE f[k] >= t
    <3>1. S(k) = S(k - 1) \cup {k} /\ ~(k \in S(k - 1))
      BY <2>2
    <3> HIDE DEF S
    <3>2. Cardinality(S(k)) = Cardinality(S(k - 1)) + 1
      BY <1>1, <2>1, <3>1, FS_AddElement
    <3> QED
      BY <2>2, <3>2 DEF Count, S
  <2>3. CASE ~(f[k] >= t)
    <3>1. S(k) = S(k - 1)
      BY <2>3
    <3> HIDE DEF S
    <3>2. Cardinality(S(k)) = Cardinality(S(k - 1)) /\ Cardinality(S(k - 1)) \in Nat
      BY <1>1, <2>1, <3>1
    <3>3. Count(f, k, t) = Cardinality(S(k)) /\ Count(f, k - 1, t) = Cardinality(S(k - 1))
      BY DEF Count, S
    <3> QED
      BY <2>3, <3>2, <3>3
  <2> QED
    BY <2>2, <2>3
<1> QED
  BY <1>1, <1>2, <1>3 DEF Count

(* The first ranks of a ranking.                                           *)
LEMMA CutProperties ==
  ASSUME NEW S, NEW ranking \in Seq(S), NEW cutoff \in Nat
  PROVE  /\ Cut(ranking, cutoff) \in Seq(S)
         /\ Len(Cut(ranking, cutoff)) = IF Len(ranking) < cutoff THEN Len(ranking) ELSE cutoff
         /\ DOMAIN Cut(ranking, cutoff) = {r \in DOMAIN ranking : r <= cutoff}
         /\ \A r \in DOMAIN Cut(ranking, cutoff) : Cut(ranking, cutoff)[r] = ranking[r]
<1> DEFINE m == IF Len(ranking) < cutoff THEN Len(ranking) ELSE cutoff
           top == Cut(ranking, cutoff)
<1>1. Len(ranking) \in Nat /\ DOMAIN ranking = 1 .. Len(ranking)
  BY LenProperties
<1>2. m \in 0 .. Len(ranking)
  BY <1>1
<1>3. top = SubSeq(ranking, 1, m)
  BY DEF Cut
<1> HIDE DEF m
<1>4. /\ top \in Seq(S)
      /\ Len(top) = IF 1 <= m THEN m - 1 + 1 ELSE 0
      /\ \A i \in 1 .. m - 1 + 1 : top[i] = ranking[1 + i - 1]
  BY <1>1, <1>2, <1>3, SubSeqProperties
<1> HIDE DEF top
<1>5. Len(top) = m /\ \A i \in 1 .. m : top[i] = ranking[i]
  BY <1>1, <1>2, <1>4
<1>6. DOMAIN top = 1 .. m
  BY <1>4, <1>5, LenProperties
<1>7. DOMAIN top = {r \in DOMAIN ranking : r <= cutoff}
  BY <1>1, <1>2, <1>6 DEF m
<1> QED
  BY <1>4, <1>5, <1>6, <1>7 DEF top, m

(* Precision at a rank counts the relevant documents up to it.             *)
LEMMA PrecisionCounts ==
  ASSUME NEW ranking \in Seq(0 .. 4), NEW cutoff \in Nat
  PROVE  /\ PrecisionAtK(ranking, cutoff)
               = Cardinality({r \in DOMAIN ranking : r <= cutoff /\ ranking[r] > 0})
         /\ PrecisionAtK(ranking, cutoff) \in 0 .. cutoff
<1> DEFINE top == Cut(ranking, cutoff)
           n == Len(top)
           terms == [rank \in DOMAIN top |-> Binary(top[rank])]
           Found(k) == {r \in 1 .. k : top[r] >= 1}
<1>1. top \in Seq(0 .. 4) /\ n \in Nat /\ DOMAIN top = 1 .. n /\ n <= cutoff
  <2>1. top \in Seq(0 .. 4) /\ n \in Nat /\ DOMAIN top = 1 .. n
    BY CutProperties, LenProperties
  <2>2. n = IF Len(ranking) < cutoff THEN Len(ranking) ELSE cutoff
    BY CutProperties
  <2>3. Len(ranking) \in Nat
    BY LenProperties
  <2> QED
    BY <2>1, <2>2, <2>3
<1>2. \A r \in 1 .. n : top[r] \in 0 .. 4 /\ top[r] = ranking[r]
  BY <1>1, CutProperties, ElementOfSeq
<1>3. DOMAIN top = {r \in DOMAIN ranking : r <= cutoff}
  BY CutProperties
<1>4. PrecisionAtK(ranking, cutoff) = Total(terms)
  BY DEF PrecisionAtK
<1> HIDE DEF top
<1>5. terms \in Seq(Nat) /\ Len(terms) = n /\ \A k \in 1 .. n : terms[k] = IF top[k] >= 1 THEN 1 ELSE 0
  <2>1. \A k \in 1 .. n : terms[k] = (IF top[k] >= 1 THEN 1 ELSE 0)
    BY <1>1, <1>2 DEF Binary
  <2>2. terms \in [1 .. n -> Nat]
    BY <1>1, <2>1
  <2>3. terms \in Seq(Nat)
    BY <1>1, <2>2, SeqDef
  <2>4. DOMAIN terms = 1 .. n /\ DOMAIN terms = 1 .. Len(terms) /\ Len(terms) \in Nat
    BY <1>1, <2>3, LenProperties
  <2>5. Len(terms) = n
    BY <1>1, <2>4
  <2> QED
    BY <2>1, <2>3, <2>5
<1> HIDE DEF terms, n
<1>6. PICK sum \in [0 .. n -> Nat] :
        sum[0] = 0 /\ (\A k \in 1 .. n : sum[k] = sum[k - 1] + terms[k]) /\ Total(terms) = sum[n]
  BY <1>5, TotalSteps
<1> DEFINE T == {k \in 0 .. n : sum[k] = Count(top, k, 1)}
<1>7. 0 \in T
  BY <1>1, <1>6, CountSteps
<1>8. ASSUME NEW k \in 1 .. n, k - 1 \in T PROVE k \in T
  <2>1. k \in Nat \ {0} /\ k \in 0 .. n
    BY <1>1
  <2>2. Count(top, k, 1) = Count(top, k - 1, 1) + (IF top[k] >= 1 THEN 1 ELSE 0)
    BY <2>1, CountSteps
  <2>3. sum[k] = sum[k - 1] + terms[k] /\ sum[k - 1] = Count(top, k - 1, 1)
    BY <1>6, <1>8
  <2> QED
    BY <1>5, <2>1, <2>2, <2>3
<1>9. Total(terms) = Count(top, n, 1)
  <2> HIDE DEF T
  <2>1. 0 .. n \subseteq T
    BY <1>1, <1>7, <1>8, UpToInduction
  <2> QED
    BY <1>1, <1>6, <2>1 DEF T
<1>10. Found(n) = {r \in DOMAIN ranking : r <= cutoff /\ ranking[r] > 0}
  <2>1. ASSUME NEW r \in 1 .. n PROVE top[r] >= 1 <=> ranking[r] > 0
    BY <1>2
  <2>2. 1 .. n = {r \in DOMAIN ranking : r <= cutoff}
    BY <1>1, <1>3
  <2> QED
    BY <2>1, <2>2
<1>11. Count(top, n, 1) = Cardinality(Found(n)) /\ Count(top, n, 1) \in 0 .. n
  BY <1>1, CountSteps DEF Count
<1>12. PrecisionAtK(ranking, cutoff)
          = Cardinality({r \in DOMAIN ranking : r <= cutoff /\ ranking[r] > 0})
  <2> HIDE DEF Found
  <2> QED
    BY <1>4, <1>9, <1>10, <1>11
<1>13. PrecisionAtK(ranking, cutoff) \in 0 .. cutoff
  BY <1>1, <1>4, <1>9, <1>11
<1> QED
  BY <1>12, <1>13

(* A sum over a set of ranks, in whatever order it takes them.             *)
SumsOver(iter, S, w) ==
  iter = [s \in SUBSET S |-> IF s = {} THEN 0 ELSE LET x == CHOOSE x \in s : TRUE
                                                   IN  w[x] + iter[s \ {x}]]

SumsInAnyOrder(iter, S, w) ==
  /\ iter[{}] = 0
  /\ \A s \in SUBSET S : iter[s] \in Nat /\ \A x \in s : iter[s] = w[x] + iter[s \ {x}]

LEMMA AnyOrder ==
  ASSUME NEW S, IsFiniteSet(S), NEW w \in [S -> Nat], NEW iter, SumsOver(iter, S, w)
  PROVE  SumsInAnyOrder(iter, S, w)
<1> DEFINE pick(s) == CHOOSE x \in s : TRUE
           Good(s) == iter[s] \in Nat /\ \A x \in s : iter[s] = w[x] + iter[s \ {x}]
           T == {m \in Nat : \A s \in SUBSET S : Cardinality(s) <= m => Good(s)}
<1>1. \A s \in SUBSET S : IsFiniteSet(s) /\ Cardinality(s) \in Nat
  BY FS_Subset, FS_CardinalityType
<1>2. iter[{}] = 0
  <2>1. {} \in SUBSET S
    OBVIOUS
  <2> QED
    BY <2>1 DEF SumsOver
<1>3. ASSUME NEW s \in SUBSET S, s # {}
      PROVE  pick(s) \in s /\ iter[s] = w[pick(s)] + iter[s \ {pick(s)}]
  <2>1. \E x : x \in s
    BY <1>3
  <2>2. pick(s) \in s
    BY <2>1, Zenon
  <2>3. iter[s] = w[pick(s)] + iter[s \ {pick(s)}]
    BY <1>3, Zenon DEF SumsOver
  <2> QED
    BY <2>2, <2>3
<1>4. 0 \in T
  <2>1. ASSUME NEW s \in SUBSET S, Cardinality(s) <= 0 PROVE s = {}
    BY <1>1, <2>1, FS_EmptySet
  <2> QED
    BY <1>2, <2>1
<1>5. ASSUME NEW m \in Nat, m \in T PROVE m + 1 \in T
  <2> SUFFICES ASSUME NEW s \in SUBSET S, Cardinality(s) <= m + 1 PROVE Good(s)
    OBVIOUS
  <2> SUFFICES ASSUME s # {} PROVE Good(s)
    BY <1>2
  <2>1. ASSUME NEW x \in s, NEW less \in SUBSET (s \ {x}) PROVE less \in SUBSET S /\ Good(less)
    <3>1. IsFiniteSet(s) /\ Cardinality(s) \in Nat
      BY <1>1
    <3>2. Cardinality(s \ {x}) = Cardinality(s) - 1 /\ IsFiniteSet(s \ {x})
      BY <2>1, <3>1, FS_RemoveElement
    <3>3. Cardinality(less) <= Cardinality(s \ {x}) /\ Cardinality(less) \in Nat
      BY <3>2, FS_Subset, FS_CardinalityType
    <3>4. Cardinality(less) <= m
      BY <3>1, <3>2, <3>3
    <3>5. less \in SUBSET S
      OBVIOUS
    <3> QED
      BY <1>5, <3>4, <3>5, Zenon
  <2> DEFINE c == pick(s)
  <2>3. c \in s /\ iter[s] = w[c] + iter[s \ {c}] /\ iter[s \ {c}] \in Nat /\ w[c] \in Nat
    BY <1>3, <2>1
  <2> HIDE DEF c, T
  <2>2. ASSUME NEW x \in s PROVE iter[s] = w[x] + iter[s \ {x}]
    <3>1. CASE x = c
      BY <2>3, <3>1
    <3>2. CASE x # c
      <4>1. c \in s \ {x} /\ x \in s \ {c}
        BY <2>3, <3>2
      <4>2. iter[s \ {c}] = w[x] + iter[(s \ {c}) \ {x}]
        BY <2>1, <2>3, <4>1
      <4>3. iter[s \ {x}] = w[c] + iter[(s \ {x}) \ {c}]
        BY <2>1, <4>1
      <4>4. (s \ {c}) \ {x} = (s \ {x}) \ {c} /\ (s \ {c}) \ {x} = (s \ {c}) \ {x}
        OBVIOUS
      <4> DEFINE both == iter[(s \ {x}) \ {c}]
      <4>5. both \in Nat
        BY <2>1
      <4>6. w[x] \in Nat
        OBVIOUS
      <4> QED
        BY <2>3, <4>2, <4>3, <4>4, <4>5, <4>6
    <3> QED
      BY <3>1, <3>2
  <2>4. iter[s] \in Nat
    BY <2>3
  <2> QED
    BY <2>2, <2>4
<1> HIDE DEF T
<1>6. Nat \subseteq T
  BY <1>4, <1>5, NatSetInduction
<1> QED
  BY <1>1, <1>2, <1>6 DEF T, SumsInAnyOrder

LEMMA SumsOverExists ==
  ASSUME NEW S, IsFiniteSet(S), NEW w \in [S -> Nat]
  PROVE  \E iter : SumsOver(iter, S, w)
<1> DEFINE pick == [s \in SUBSET S |-> CHOOSE x \in s : TRUE]
           step == [p \in Nat \X S |-> w[p[2]] + p[1]]
<1>1. \A s \in SUBSET S : s # {} => pick[s] \in s
  <2> SUFFICES ASSUME NEW s \in SUBSET S, s # {} PROVE pick[s] \in s
    OBVIOUS
  <2>1. \E x : x \in s
    OBVIOUS
  <2>2. (CHOOSE x \in s : TRUE) \in s
    BY <2>1, Zenon
  <2> QED
    BY <2>2
<1>2. step \in [Nat \X S -> Nat]
  OBVIOUS
<1>3. PICK iter \in [SUBSET S -> Nat] : FoldsBy(iter, S, 0, pick, step)
  <2> HIDE DEF pick, step
  <2> QED
    BY <1>1, <1>2, FoldExists
<1>4. ASSUME NEW s \in SUBSET S
      PROVE  iter[s] = IF s = {} THEN 0 ELSE w[CHOOSE x \in s : TRUE] + iter[s \ {CHOOSE x \in s : TRUE}]
  <2>1. CASE s = {}
    BY <1>3, <2>1 DEF FoldsBy
  <2>2. CASE s # {}
    <3>1. pick[s] \in s /\ pick[s] = CHOOSE x \in s : TRUE
      BY <1>1, <2>2
    <3> HIDE DEF pick
    <3>2. iter[s] = step[<<iter[s \ {pick[s]}], pick[s]>>]
      BY <1>3, <2>2 DEF FoldsBy
    <3>3. iter[s] = w[pick[s]] + iter[s \ {pick[s]}]
      BY <3>1, <3>2
    <3> QED
      BY <2>2, <3>1, <3>3
  <2> QED
    BY <2>1, <2>2
<1>5. iter = [s \in SUBSET S |-> iter[s]]
  OBVIOUS
<1>6. SumsOver(iter, S, w)
  BY <1>4, <1>5, Zenon DEF SumsOver
<1> QED
  BY <1>6

SumsUpTo(acc, n, S, w) ==
  acc[0] = 0 /\ \A k \in 1 .. n : acc[k] = acc[k - 1] + (IF k \in S THEN w[k] ELSE 0)

LEMMA SumByRank ==
  ASSUME NEW n \in Nat, NEW S \in SUBSET (1 .. n), NEW w \in [S -> Nat],
         NEW iter, SumsOver(iter, S, w), NEW acc, SumsUpTo(acc, n, S, w)
  PROVE  iter[S] = acc[n]
<1> USE DEF SumsUpTo
<1>1. IsFiniteSet(S)
  <2>1. IsFiniteSet(1 .. n)
    BY FS_Interval
  <2> QED
    BY <2>1, FS_Subset
<1>2. /\ iter[{}] = 0
      /\ \A s \in SUBSET S : iter[s] \in Nat /\ \A x \in s : iter[s] = w[x] + iter[s \ {x}]
  <2>1. SumsInAnyOrder(iter, S, w)
    BY <1>1, AnyOrder
  <2> QED
    BY <2>1, Zenon DEF SumsInAnyOrder
<1> DEFINE T == {k \in 0 .. n : iter[S \cap (1 .. k)] = acc[k]}
<1>3. 0 \in T
  <2>1. S \cap (1 .. 0) = {}
    OBVIOUS
  <2> QED
    BY <1>2, <2>1
<1>4. ASSUME NEW k \in 1 .. n, k - 1 \in T PROVE k \in T
  <2> DEFINE s == S \cap (1 .. k)
             less == S \cap (1 .. (k - 1))
  <2>1. iter[less] = acc[k - 1] /\ k \in 0 .. n /\ s \in SUBSET S /\ less \in SUBSET S
    BY <1>4
  <2>2. CASE k \in S
    <3>1. s \ {k} = less /\ k \in s
      BY <2>2
    <3> HIDE DEF s, less
    <3>2. iter[s] = w[k] + iter[less] /\ iter[less] \in Nat /\ w[k] \in Nat
      BY <1>2, <2>1, <2>2, <3>1
    <3>3. acc[k] = acc[k - 1] + w[k]
      BY <2>2
    <3>4. iter[s] = acc[k]
      BY <2>1, <3>2, <3>3
    <3> QED
      BY <2>1, <3>4 DEF s
  <2>3. CASE k \notin S
    <3>1. s = less
      BY <2>3
    <3>2. acc[k] = acc[k - 1] + 0
      BY <2>3
    <3> HIDE DEF s, less
    <3>3. iter[less] \in Nat
      BY <1>2, <2>1
    <3>4. iter[s] = acc[k]
      BY <2>1, <3>1, <3>2, <3>3
    <3> QED
      BY <2>1, <3>4 DEF s
  <2> QED
    BY <2>2, <2>3
<1> HIDE DEF T
<1>5. 0 .. n \subseteq T
  BY <1>3, <1>4, UpToInduction
<1>6. S \cap (1 .. n) = S
  BY Zenon
<1>7. n \in 0 .. n
  OBVIOUS
<1> QED
  BY <1>5, <1>6, <1>7 DEF T

LEMMA Exactly == \A x, y \in Nat : y # 0 /\ x % y = 0 => x = y * (x \div y) /\ x \div y \in Nat
OBVIOUS
LEMMA TimesMonotonic == \A x, y, z \in Nat : x <= y => x * z <= y * z /\ x * z \in Nat
OBVIOUS

LEMMA BoundedShare ==
  \A r \in 1 .. MaxRank : \A p \in 0 .. r : p * (Ranks \div r) \in 0 .. Ranks
<1> SUFFICES ASSUME NEW r \in 1 .. MaxRank, NEW p \in 0 .. r PROVE p * (Ranks \div r) \in 0 .. Ranks
  OBVIOUS
<1> DEFINE a == Ranks \div r
<1>1. r \in Nat \ {0} /\ Ranks \in Nat /\ Ranks % r = 0
  <2>1. r \in Nat \ {0} /\ Ranks \in Nat
    BY MeasuresAssumption
  <2>2. Ranks % r = 0
    BY MeasuresAssumption, Zenon
  <2> QED
    BY <2>1, <2>2
<1>2. a \in Nat /\ Ranks = r * a
  <2>1. r \in Nat /\ r # 0 /\ Ranks \in Nat /\ Ranks % r = 0
    BY <1>1
  <2> QED
    BY <2>1, Exactly, Zenon
<1> HIDE DEF a
<1>4. p \in Nat /\ p <= r
  BY <1>1
<1>5. p * a <= r * a /\ p * a \in Nat
  BY <1>1, <1>2, <1>4, TimesMonotonic
<1>6. p * a \in 0 .. Ranks
  BY <1>1, <1>2, <1>5
<1> QED
  BY <1>6 DEF a

(* Average precision sums the precision at the ranks of the relevant        *)
(* documents.                                                              *)
LEMMA AveragePrecisionSums ==
  ASSUME NEW ranking \in Seq(0 .. 4), Len(ranking) <= MaxRank, NEW S, NEW hits,
         S = {r \in DOMAIN ranking : ranking[r] > 0},
         hits = [k \in DOMAIN ranking |-> Cardinality({r \in DOMAIN ranking : r <= k /\ ranking[r] > 0})]
  PROVE  /\ AveragePrecision(ranking)
               = MapThenSumSet(LAMBDA k : Cardinality({r \in DOMAIN ranking : r <= k /\ ranking[r] > 0})
                                          * (Ranks \div k),
                               {r \in DOMAIN ranking : ranking[r] > 0})
         /\ AveragePrecision(ranking) <= Cardinality(S) * Ranks
         /\ AveragePrecision(ranking) \in Nat
<1> DEFINE n == Len(ranking)
           HitsAt(k) == Cardinality({r \in DOMAIN ranking : r <= k /\ ranking[r] > 0})
           terms == [rank \in DOMAIN ranking |->
                       Binary(ranking[rank]) * PrecisionAtK(ranking, rank) * (Ranks \div rank)]
           w == [r \in S |-> hits[r] * (Ranks \div r)]
<1>1. n \in Nat /\ DOMAIN ranking = 1 .. n /\ MaxRank \in Nat /\ Ranks \in Nat \ {0}
  BY LenProperties, MeasuresAssumption
<1>2. \A r \in 1 .. n : ranking[r] \in 0 .. 4 /\ r \in Nat /\ r \in 1 .. MaxRank
  BY <1>1, ElementOfSeq
<1>3. \A r \in 1 .. n : PrecisionAtK(ranking, r) = hits[r] /\ hits[r] \in 0 .. r
  BY <1>1, <1>2, PrecisionCounts
<1>4. S \in SUBSET (1 .. n) /\ IsFiniteSet(S)
  <2>1. S \in SUBSET (1 .. n)
    BY <1>1
  <2>2. IsFiniteSet(1 .. n)
    BY <1>1, FS_Interval
  <2> QED
    BY <2>1, <2>2, FS_Subset
<1>5. ASSUME NEW r \in 1 .. n PROVE hits[r] * (Ranks \div r) \in 0 .. Ranks
  BY <1>2, <1>3, BoundedShare
<1>6. w \in [S -> Nat]
  BY <1>1, <1>4, <1>5
<1>7. ASSUME NEW r \in 1 .. n
      PROVE  terms[r] = (IF r \in S THEN w[r] ELSE 0) /\ terms[r] \in Nat
  <2> DEFINE t == hits[r] * (Ranks \div r)
  <2>1. Binary(ranking[r]) = IF r \in S THEN 1 ELSE 0
    BY <1>1, <1>2 DEF Binary
  <2>2. terms[r] = Binary(ranking[r]) * hits[r] * (Ranks \div r)
    BY <1>1, <1>3
  <2>3. hits[r] \in Nat /\ Ranks \div r \in Nat
    BY <1>1, <1>2, <1>3, ShareOfRanks
  <2>4. CASE r \in S
    <3>1. Binary(ranking[r]) * hits[r] = hits[r]
      BY <2>1, <2>3, <2>4
    <3>2. terms[r] = t /\ t \in Nat
      BY <1>1, <1>5, <2>2, <3>1
    <3> QED
      BY <2>4, <3>2
  <2>5. CASE r \notin S
    <3>1. Binary(ranking[r]) * hits[r] = 0
      BY <2>1, <2>3, <2>5
    <3>2. terms[r] = 0
      BY <2>2, <2>3, <3>1
    <3> QED
      BY <2>5, <3>2
  <2> QED
    BY <2>4, <2>5
<1>8. terms \in Seq(Nat) /\ Len(terms) = n
  <2>1. terms \in [1 .. n -> Nat]
    BY <1>1, <1>7
  <2> HIDE DEF terms
  <2>2. terms \in Seq(Nat)
    BY <1>1, <2>1, SeqDef
  <2>3. DOMAIN terms = 1 .. n /\ DOMAIN terms = 1 .. Len(terms) /\ Len(terms) \in Nat
    BY <2>1, <2>2, LenProperties
  <2> QED
    BY <1>1, <2>2, <2>3
<1>9. AveragePrecision(ranking) = Total(terms)
  BY DEF AveragePrecision
<1> HIDE DEF terms
<1>10. PICK sum \in [0 .. n -> Nat] :
         sum[0] = 0 /\ (\A k \in 1 .. n : sum[k] = sum[k - 1] + terms[k]) /\ Total(terms) = sum[n]
  BY <1>8, TotalSteps
<1> DEFINE Is(g) == g = [s \in SUBSET S |-> IF s = {} THEN 0 ELSE LET x == CHOOSE x \in s : TRUE
                          IN HitsAt(x) * (Ranks \div x) + g[s \ {x}]]
           iter == CHOOSE g : Is(g)
<1>11. MapThenSumSet(LAMBDA k : Cardinality({r \in DOMAIN ranking : r <= k /\ ranking[r] > 0})
                                * (Ranks \div k),
                     {r \in DOMAIN ranking : ranking[r] > 0}) = iter[S]
  BY DEF MapThenSumSet, MapThenFoldSet
<1>12. SumsOver(iter, S, w)
  <2>1. ASSUME NEW g PROVE Is(g) <=> SumsOver(g, S, w)
    <3>1. ASSUME NEW s \in SUBSET S, s # {}
          PROVE  w[CHOOSE x \in s : TRUE]
                   = HitsAt(CHOOSE x \in s : TRUE) * (Ranks \div (CHOOSE x \in s : TRUE))
      <4>1. \E x : x \in s
        BY <3>1
      <4>2. (CHOOSE x \in s : TRUE) \in s
        BY <4>1, Zenon
      <4>3. ASSUME NEW x \in S PROVE w[x] = HitsAt(x) * (Ranks \div x)
        BY <1>1
      <4> HIDE DEF w, HitsAt
      <4> QED
        BY <4>2, <4>3
    <3> HIDE DEF w, HitsAt
    <3>2. [s \in SUBSET S |-> IF s = {} THEN 0 ELSE LET x == CHOOSE x \in s : TRUE
                              IN  HitsAt(x) * (Ranks \div x) + g[s \ {x}]]
          = [s \in SUBSET S |-> IF s = {} THEN 0 ELSE LET x == CHOOSE x \in s : TRUE
                                                     IN  w[x] + g[s \ {x}]]
      BY <3>1
    <3> QED
      BY <3>2, Zenon DEF SumsOver
  <2>2. \E g : Is(g)
    <3> HIDE DEF Is, w
    <3> QED
      BY <1>4, <1>6, <2>1, SumsOverExists
  <2> HIDE DEF Is
  <2>3. Is(iter)
    BY <2>2, Zenon
  <2> QED
    BY <2>1, <2>3
<1> HIDE DEF iter, w
<1>13. iter[S] = sum[n]
  <2>1. SumsUpTo(sum, n, S, w)
    BY <1>7, <1>10 DEF SumsUpTo
  <2> QED
    BY <1>1, <1>4, <1>6, <1>10, <1>12, <2>1, SumByRank
<1>14. sum[n] <= Cardinality(S) * Ranks
  <2> DEFINE T == {k \in 0 .. n : sum[k] <= Count(ranking, k, 1) * Ranks}
  <2>1. 0 \in T
    BY <1>1, <1>10, CountSteps
  <2>2. ASSUME NEW k \in 1 .. n, k - 1 \in T PROVE k \in T
    <3>1. k \in Nat \ {0} /\ k - 1 \in Nat /\ k \in 0 .. n /\ k - 1 \in 0 .. n
      BY <1>1
    <3> DEFINE c == Count(ranking, k - 1, 1)
    <3>2. Count(ranking, k, 1) = c + (IF ranking[k] >= 1 THEN 1 ELSE 0) /\ c \in Nat
      <4>1. c \in 0 .. (k - 1)
        BY <3>1, CountSteps
      <4>2. Count(ranking, k, 1) = c + (IF ranking[k] >= 1 THEN 1 ELSE 0)
        BY <3>1, CountSteps
      <4> QED
        BY <3>1, <4>1, <4>2
    <3>3. k \in S <=> ranking[k] >= 1
      BY <1>1, <1>2
    <3>4. terms[k] = (IF k \in S THEN w[k] ELSE 0) /\ (k \in S => w[k] <= Ranks)
      <4>1. k \in S => w[k] = hits[k] * (Ranks \div k)
        BY DEF w
      <4>2. hits[k] * (Ranks \div k) <= Ranks
        BY <1>1, <1>5
      <4> QED
        BY <1>7, <4>1, <4>2
    <3>5. sum[k] = sum[k - 1] + terms[k] /\ sum[k - 1] \in Nat /\ sum[k - 1] <= c * Ranks
      BY <1>10, <2>2, <3>1
    <3> HIDE DEF c
    <3>6. (c + 1) * Ranks = c * Ranks + Ranks /\ (c + 0) * Ranks = c * Ranks /\ c * Ranks \in Nat
      BY <1>1, <3>2
    <3>7. sum[k] <= Count(ranking, k, 1) * Ranks
      <4>1. CASE k \in S
        <5>1. Count(ranking, k, 1) = c + 1 /\ terms[k] = w[k] /\ w[k] <= Ranks /\ w[k] \in Nat
          BY <1>6, <3>2, <3>3, <3>4, <4>1
        <5> QED
          BY <1>1, <3>5, <3>6, <5>1
      <4>2. CASE k \notin S
        <5>1. Count(ranking, k, 1) = c + 0 /\ terms[k] = 0
          BY <3>2, <3>3, <3>4, <4>2
        <5> QED
          BY <3>5, <3>6, <5>1
      <4> QED
        BY <4>1, <4>2
    <3> QED
      BY <3>1, <3>7
  <2> HIDE DEF T
  <2>3. 0 .. n \subseteq T
    BY <1>1, <2>1, <2>2, UpToInduction
  <2>4. sum[n] <= Count(ranking, n, 1) * Ranks
    BY <1>1, <2>3 DEF T
  <2>5. S = {r \in 1 .. n : ranking[r] >= 1}
    BY <1>1, <1>2
  <2> QED
    BY <2>4, <2>5 DEF Count
<1>15. sum[n] \in Nat
  BY <1>1, <1>10
<1> QED
  BY <1>9, <1>10, <1>11, <1>13, <1>14, <1>15
-----------------------------------------------------------------------------
(* DCG, rank by rank.                                                      *)
DCGOf(f, sum) ==
  /\ sum \in [0 .. MaxRank -> Nat] /\ sum[0] = 0
  /\ \A k \in 1 .. MaxRank : sum[k] = sum[k - 1] + Gain(f[k]) * Discount[k]

LEMMA DCGSteps ==
  ASSUME NEW ranking \in Seq(0 .. 4), Len(ranking) <= MaxRank
  PROVE  \E sum : DCGOf(Padded(ranking), sum) /\ DCG(ranking) = sum[MaxRank]
<1> DEFINE n == Len(ranking)
           f == Padded(ranking)
           terms == [rank \in DOMAIN ranking |-> Gain(ranking[rank]) * Discount[rank]]
<1>1. n \in Nat /\ DOMAIN ranking = 1 .. n /\ MaxRank \in Nat /\ n \in 0 .. MaxRank
  BY LenProperties, MeasuresAssumption
<1>2. \A k \in 1 .. MaxRank : f[k] = IF k <= n THEN ranking[k] ELSE 0
  BY DEF Padded
<1>3. f \in [1 .. MaxRank -> 0 .. 4]
  BY PaddedGrades
<1> HIDE DEF f
<1>4. ASSUME NEW k \in 1 .. MaxRank
      PROVE  Gain(f[k]) * Discount[k] \in Nat
  <2>1. Gain(f[k]) \in Nat
    BY <1>3, Gains
  <2>2. Discount[k] \in Nat
    BY MeasuresAssumption
  <2> QED
    BY <2>1, <2>2, TimesNat
<1>5. ASSUME NEW k \in 1 .. n PROVE k \in 1 .. MaxRank /\ terms[k] = Gain(f[k]) * Discount[k] /\ terms[k] \in Nat
  <2>1. k \in 1 .. MaxRank
    BY <1>1
  <2>2. terms[k] = Gain(f[k]) * Discount[k]
    BY <1>1, <1>2, <2>1
  <2> QED
    BY <1>4, <2>1, <2>2
<1>6. terms \in Seq(Nat) /\ Len(terms) = n
  <2>1. terms \in [1 .. n -> Nat]
    BY <1>1, <1>5
  <2> HIDE DEF terms
  <2>2. terms \in Seq(Nat)
    BY <1>1, <2>1, SeqDef
  <2>3. DOMAIN terms = 1 .. n /\ DOMAIN terms = 1 .. Len(terms) /\ Len(terms) \in Nat
    BY <2>1, <2>2, LenProperties
  <2> QED
    BY <1>1, <2>2, <2>3
<1>7. DCG(ranking) = Total(terms)
  BY DEF DCG
<1> HIDE DEF terms
<1>8. PICK part \in [0 .. n -> Nat] :
        part[0] = 0 /\ (\A k \in 1 .. n : part[k] = part[k - 1] + terms[k]) /\ Total(terms) = part[n]
  BY <1>6, TotalSteps
<1> DEFINE sum == [k \in 0 .. MaxRank |-> IF k <= n THEN part[k] ELSE part[n]]
<1>9. sum \in [0 .. MaxRank -> Nat] /\ sum[0] = 0 /\ sum[MaxRank] = part[n]
  BY <1>1, <1>8
<1>10. ASSUME NEW k \in 1 .. MaxRank PROVE sum[k] = sum[k - 1] + Gain(f[k]) * Discount[k]
  <2>1. k \in 0 .. MaxRank /\ k - 1 \in 0 .. MaxRank
    BY <1>1
  <2>2. CASE k <= n
    <3>1. k \in 1 .. n /\ k - 1 <= n
      BY <1>1, <2>2
    <3>2. sum[k] = part[k] /\ sum[k - 1] = part[k - 1]
      BY <2>1, <2>2, <3>1
    <3> QED
      BY <1>5, <1>8, <3>1, <3>2
  <2>3. CASE ~(k <= n)
    <3>1. f[k] = 0 /\ Gain(f[k]) * Discount[k] = 0
      <4>1. f[k] = 0
        BY <1>2, <2>3
      <4>2. Discount[k] \in Nat
        BY MeasuresAssumption
      <4> QED
        BY <4>1, <4>2, Gains
    <3>2. sum[k] = part[n] /\ sum[k - 1] = part[n]
      <4>1. sum[k] = part[n]
        BY <2>1, <2>3
      <4>2. k - 1 = n \/ ~(k - 1 <= n)
        BY <1>1, <2>3
      <4> QED
        BY <2>1, <4>1, <4>2
    <3>3. part[n] \in Nat
      BY <1>1, <1>8
    <3> QED
      BY <3>1, <3>2, <3>3
  <2> QED
    BY <2>2, <2>3
<1> HIDE DEF sum
<1>11. DCGOf(f, sum)
  BY <1>9, <1>10 DEF DCGOf
<1> QED
  BY <1>7, <1>8, <1>9, <1>11 DEF f

(* Up to every rank, the ranking f has no more documents of any grade or    *)
(* better than the ranking g.                                               *)
Dominates(g, f) == \A k \in 0 .. MaxRank, t \in 1 .. 4 : Count(f, k, t) <= Count(g, k, t)

GainTo(f, k) == Count(f, k, 1) + 2 * Count(f, k, 2) + 4 * Count(f, k, 3) + 8 * Count(f, k, 4)

LEMMA GainToSteps ==
  ASSUME NEW f \in [1 .. MaxRank -> 0 .. 4]
  PROVE  /\ GainTo(f, 0) = 0
         /\ \A k \in 0 .. MaxRank : GainTo(f, k) \in Nat
         /\ \A k \in 1 .. MaxRank : GainTo(f, k) = GainTo(f, k - 1) + Gain(f[k])
<1>1. ASSUME NEW k \in 0 .. MaxRank, NEW t \in 1 .. 4 PROVE Count(f, k, t) \in Nat
  <2>1. k \in Nat
    BY MeasuresAssumption
  <2>2. Count(f, k, t) \in 0 .. k
    BY <2>1, CountSteps
  <2> QED
    BY <2>1, <2>2
<1>2. GainTo(f, 0) = 0
  BY CountSteps DEF GainTo
<1>3. ASSUME NEW k \in 0 .. MaxRank PROVE GainTo(f, k) \in Nat
  <2>1. Count(f, k, 1) \in Nat /\ Count(f, k, 2) \in Nat /\ Count(f, k, 3) \in Nat
        /\ Count(f, k, 4) \in Nat
    BY <1>1
  <2> QED
    BY <2>1 DEF GainTo
<1>4. ASSUME NEW k \in 1 .. MaxRank PROVE GainTo(f, k) = GainTo(f, k - 1) + Gain(f[k])
  <2>1. k \in Nat \ {0} /\ k - 1 \in 0 .. MaxRank
    BY MeasuresAssumption
  <2>2. /\ Count(f, k, 1) = Count(f, k - 1, 1) + (IF f[k] >= 1 THEN 1 ELSE 0)
        /\ Count(f, k, 2) = Count(f, k - 1, 2) + (IF f[k] >= 2 THEN 1 ELSE 0)
        /\ Count(f, k, 3) = Count(f, k - 1, 3) + (IF f[k] >= 3 THEN 1 ELSE 0)
        /\ Count(f, k, 4) = Count(f, k - 1, 4) + (IF f[k] >= 4 THEN 1 ELSE 0)
    BY <2>1, CountSteps
  <2>3. /\ Count(f, k - 1, 1) \in Nat /\ Count(f, k - 1, 2) \in Nat
        /\ Count(f, k - 1, 3) \in Nat /\ Count(f, k - 1, 4) \in Nat
    BY <1>1, <2>1
  <2>4. f[k] = 0 \/ f[k] = 1 \/ f[k] = 2 \/ f[k] = 3 \/ f[k] = 4
    BY <2>1
  <2> DEFINE c1 == Count(f, k - 1, 1)  c2 == Count(f, k - 1, 2)
             c3 == Count(f, k - 1, 3)  c4 == Count(f, k - 1, 4)
             up(t) == IF f[k] >= t THEN 1 ELSE 0
  <2>5. /\ GainTo(f, k - 1) = c1 + 2 * c2 + 4 * c3 + 8 * c4
        /\ GainTo(f, k) = (c1 + up(1)) + 2 * (c2 + up(2)) + 4 * (c3 + up(3)) + 8 * (c4 + up(4))
    BY <2>2 DEF GainTo
  <2> HIDE DEF c1, c2, c3, c4
  <2>6. c1 \in Nat /\ c2 \in Nat /\ c3 \in Nat /\ c4 \in Nat
    BY <2>3 DEF c1, c2, c3, c4
  <2>7. CASE f[k] = 0
    BY <2>5, <2>6, <2>7, Gains
  <2>8. CASE f[k] = 1
    BY <2>5, <2>6, <2>8, Gains
  <2>9. CASE f[k] = 2
    BY <2>5, <2>6, <2>9, Gains
  <2>10. CASE f[k] = 3
    BY <2>5, <2>6, <2>10, Gains
  <2>11. CASE f[k] = 4
    BY <2>5, <2>6, <2>11, Gains
  <2> QED
    BY <2>4, <2>7, <2>8, <2>9, <2>10, <2>11
<1> QED
  BY <1>2, <1>3, <1>4

LEMMA GainDominated ==
  ASSUME NEW f \in [1 .. MaxRank -> 0 .. 4], NEW g \in [1 .. MaxRank -> 0 .. 4], Dominates(g, f),
         NEW k \in 0 .. MaxRank
  PROVE  GainTo(g, k) - GainTo(f, k) \in Nat
<1>1. k \in Nat
  BY MeasuresAssumption
<1>2. \A t \in 1 .. 4 : Count(f, k, t) \in 0 .. k /\ Count(g, k, t) \in 0 .. k
  BY <1>1, CountSteps
<1>3. \A t \in 1 .. 4 : Count(f, k, t) <= Count(g, k, t)
  BY DEF Dominates
<1>4. /\ Count(f, k, 1) \in Nat /\ Count(g, k, 1) \in Nat /\ Count(f, k, 1) <= Count(g, k, 1)
      /\ Count(f, k, 2) \in Nat /\ Count(g, k, 2) \in Nat /\ Count(f, k, 2) <= Count(g, k, 2)
      /\ Count(f, k, 3) \in Nat /\ Count(g, k, 3) \in Nat /\ Count(f, k, 3) <= Count(g, k, 3)
      /\ Count(f, k, 4) \in Nat /\ Count(g, k, 4) \in Nat /\ Count(f, k, 4) <= Count(g, k, 4)
  BY <1>1, <1>2, <1>3
<1> DEFINE a1 == Count(f, k, 1)  b1 == Count(g, k, 1)
           a2 == Count(f, k, 2)  b2 == Count(g, k, 2)
           a3 == Count(f, k, 3)  b3 == Count(g, k, 3)
           a4 == Count(f, k, 4)  b4 == Count(g, k, 4)
<1>5. /\ GainTo(f, k) = a1 + 2 * a2 + 4 * a3 + 8 * a4
      /\ GainTo(g, k) = b1 + 2 * b2 + 4 * b3 + 8 * b4
  BY DEF GainTo
<1> HIDE DEF a1, a2, a3, a4, b1, b2, b3, b4
<1>6. /\ a1 \in Nat /\ b1 \in Nat /\ a1 <= b1 /\ a2 \in Nat /\ b2 \in Nat /\ a2 <= b2
      /\ a3 \in Nat /\ b3 \in Nat /\ a3 <= b3 /\ a4 \in Nat /\ b4 \in Nat /\ a4 <= b4
  BY <1>4 DEF a1, a2, a3, a4, b1, b2, b3, b4
<1> QED
  BY <1>5, <1>6

LEMMA StepDCG ==
  \A a, b, i, j, x, y, d, e \in Nat :
    e <= d /\ a + d * i <= b /\ j + x = i + y => a + x * e + e * j <= b + y * e
<1> SUFFICES ASSUME NEW a \in Nat, NEW b \in Nat, NEW i \in Nat, NEW j \in Nat, NEW x \in Nat,
                    NEW y \in Nat, NEW d \in Nat, NEW e \in Nat,
                    e <= d, a + d * i <= b, j + x = i + y
             PROVE  a + x * e + e * j <= b + y * e
  OBVIOUS
<1>1. x * e + e * j = (j + x) * e /\ y * e + e * i = (i + y) * e
  OBVIOUS
<1>2. e * i <= d * i /\ e * i \in Nat /\ d * i \in Nat
  BY TimesMonotonic
<1>3. x * e \in Nat /\ e * j \in Nat /\ y * e \in Nat
  BY TimesNat
<1>4. x * e + e * j = y * e + e * i
  BY <1>1
<1> QED
  BY <1>2, <1>3, <1>4

LEMMA DCGDominated ==
  ASSUME NEW f \in [1 .. MaxRank -> 0 .. 4], NEW g \in [1 .. MaxRank -> 0 .. 4], Dominates(g, f),
         NEW a, NEW b, DCGOf(f, a), DCGOf(g, b)
  PROVE  a[MaxRank] <= b[MaxRank]
<1> DEFINE D(k) == IF k = 0 THEN 0 ELSE Discount[k]
           Ahead(k) == GainTo(g, k) - GainTo(f, k)
           T == {k \in 0 .. MaxRank : a[k] + D(k) * Ahead(k) <= b[k]}
<1>1. MaxRank \in Nat /\ a \in [0 .. MaxRank -> Nat] /\ b \in [0 .. MaxRank -> Nat]
  BY MeasuresAssumption DEF DCGOf
<1>2. \A k \in 0 .. MaxRank : Ahead(k) \in Nat
  BY GainDominated
<1>3. Ahead(0) = 0
  BY GainToSteps
<1>4. \A k \in 1 .. MaxRank : D(k) = Discount[k] /\ D(k) \in Nat
  BY MeasuresAssumption
<1>5. 0 \in T
  BY <1>1, <1>3 DEF DCGOf
<1>6. ASSUME NEW k \in 1 .. MaxRank, k - 1 \in T PROVE k \in T
  <2> DEFINE x == Gain(f[k])
             y == Gain(g[k])
             d == IF k = 1 THEN D(1) ELSE D(k - 1)
  <2>1. k \in 0 .. MaxRank /\ k - 1 \in 0 .. MaxRank
    BY <1>1
  <2>2. x \in Nat /\ y \in Nat
    BY Gains
  <2>3. d \in Nat /\ D(k) <= d
    <3>1. CASE k = 1
      BY <1>1, <1>4, <3>1
    <3>2. CASE k # 1
      <4>1. k \in 2 .. MaxRank /\ k - 1 \in 1 .. MaxRank
        BY <1>1, <3>2
      <4>2. Discount[k] <= Discount[k - 1]
        BY <4>1, MeasuresAssumption, Zenon
      <4> HIDE DEF D
      <4> QED
        BY <1>4, <3>2, <4>1, <4>2
    <3> QED
      BY <3>1, <3>2
  <2>4. Ahead(k) + x = Ahead(k - 1) + y
    <3>1. /\ GainTo(f, k) = GainTo(f, k - 1) + x /\ GainTo(g, k) = GainTo(g, k - 1) + y
          /\ GainTo(f, k - 1) \in Nat /\ GainTo(g, k - 1) \in Nat
      BY <2>1, GainToSteps
    <3> HIDE DEF x, y
    <3> QED
      BY <2>2, <3>1
  <2>5. a[k - 1] + d * Ahead(k - 1) <= b[k - 1]
    <3>1. CASE k = 1
      <4>1. Ahead(k - 1) = 0 /\ d * 0 = 0
        BY <1>3, <2>3, <3>1
      <4>2. a[k - 1] = 0 /\ b[k - 1] = 0
        BY <3>1 DEF DCGOf
      <4> QED
        BY <4>1, <4>2
    <3>2. CASE k # 1
      BY <1>6, <3>2
    <3> QED
      BY <3>1, <3>2
  <2>6. a[k] = a[k - 1] + x * D(k) /\ b[k] = b[k - 1] + y * D(k)
    BY <1>4 DEF DCGOf
  <2>7. a[k - 1] \in Nat /\ b[k - 1] \in Nat /\ Ahead(k) \in Nat /\ Ahead(k - 1) \in Nat /\ D(k) \in Nat
    BY <1>1, <1>2, <1>4, <2>1
  <2> HIDE DEF x, y, d, D, Ahead
  <2>8. a[k - 1] + x * D(k) + D(k) * Ahead(k) <= b[k - 1] + y * D(k)
    BY <2>2, <2>3, <2>4, <2>5, <2>7, StepDCG
  <2> QED
    BY <2>1, <2>6, <2>8
<1>7. MaxRank \in T
  <2> HIDE DEF T
  <2>1. 0 .. MaxRank \subseteq T
    BY <1>1, <1>5, <1>6, UpToInduction
  <2> QED
    BY <1>1, <2>1
<1>8. D(MaxRank) * Ahead(MaxRank) \in Nat
  <2>1. D(MaxRank) \in Nat /\ Ahead(MaxRank) \in Nat
    BY <1>1, <1>2, <1>4
  <2> HIDE DEF D, Ahead
  <2> QED
    BY <2>1, TimesNat
<1> HIDE DEF D, Ahead
<1> QED
  BY <1>1, <1>7, <1>8

(* With a relevant document at the first rank it is not zero.              *)
LEMMA DCGPositive ==
  ASSUME NEW f \in [1 .. MaxRank -> 0 .. 4], MaxRank > 0, f[1] >= 1, NEW sum, DCGOf(f, sum)
  PROVE  sum[MaxRank] > 0
<1> DEFINE T == {k \in 0 .. MaxRank : k > 0 => sum[k] > 0}
<1>1. MaxRank \in Nat /\ sum \in [0 .. MaxRank -> Nat]
  BY MeasuresAssumption DEF DCGOf
<1>2. 0 \in T
  BY <1>1
<1>3. ASSUME NEW k \in 1 .. MaxRank, k - 1 \in T PROVE k \in T
  <2>1. /\ sum[k] = sum[k - 1] + Gain(f[k]) * Discount[k]
        /\ k \in 0 .. MaxRank /\ k - 1 \in 0 .. MaxRank /\ sum[k - 1] \in Nat
    BY <1>1 DEF DCGOf
  <2>2. Gain(f[k]) \in Nat /\ Discount[k] \in Nat \ {0}
    <3>1. Gain(f[k]) \in Nat
      BY Gains
    <3>2. Discount[k] \in Nat \ {0}
      BY MeasuresAssumption
    <3> QED
      BY <3>1, <3>2
  <2>3. Gain(f[k]) * Discount[k] \in Nat
    BY <2>2, TimesNat
  <2>4. CASE k = 1
    <3>1. f[k] \in 1 .. 4
      BY <2>4
    <3>2. f[k] = 1 \/ f[k] = 2 \/ f[k] = 3 \/ f[k] = 4
      BY <3>1
    <3>3. 1 <= Gain(f[k])
      BY <3>2, Gains
    <3>4. 1 * Discount[k] <= Gain(f[k]) * Discount[k]
      BY <2>2, <3>3, TimesMonotonic
    <3>5. 1 * Discount[k] > 0
      BY <2>2
    <3> QED
      BY <2>1, <2>2, <2>3, <3>4, <3>5
  <2>5. CASE k # 1
    <3>1. k - 1 > 0
      BY <1>1, <2>5
    <3>2. sum[k - 1] > 0
      BY <1>3, <3>1
    <3> QED
      BY <2>1, <2>3, <3>2
  <2> QED
    BY <2>4, <2>5
<1> HIDE DEF T
<1>4. 0 .. MaxRank \subseteq T
  BY <1>1, <1>2, <1>3, UpToInduction
<1> QED
  BY <1>1, <1>4 DEF T
-----------------------------------------------------------------------------
(* The powers of a number.                                                 *)
PowersOf(b, p) == /\ p \in [0 .. MaxRank -> Nat] /\ p[0] = 1
                  /\ \A k \in 1 .. MaxRank : p[k] = b * p[k - 1]

LEMMA PowersExist == ASSUME NEW b \in Nat PROVE \E p : PowersOf(b, p)
<1> DEFINE n == MaxRank
           step == [x \in Nat \X (1 .. n) |-> b * x[1]]
<1>1. n \in Nat /\ 1 \in Nat
  BY MeasuresAssumption
<1>2. step \in [Nat \X (1 .. n) -> Nat]
  BY TimesNat
<1>3. PICK g \in [SUBSET (1 .. n) -> Nat] : FoldsUpTo(g, n, 1, step)
  <2> HIDE DEF step
  <2> QED
    BY <1>1, <1>2, SeqFoldExists
<1> DEFINE p == [k \in 0 .. n |-> g[1 .. k]]
<1>4. p \in [0 .. n -> Nat]
  BY <1>1, Segments
<1>5. p[0] = 1
  <2>1. p[0] = g[{}]
    BY <1>1, Segments
  <2> QED
    BY <1>3, <2>1 DEF FoldsUpTo
<1>6. ASSUME NEW k \in 1 .. n PROVE p[k] = b * p[k - 1]
  <2>1. /\ 1 .. k \in SUBSET (1 .. n) /\ 1 .. k # {}
        /\ Max(1 .. k) = k /\ (1 .. k) \ {k} = 1 .. (k - 1)
    BY <1>1, Segments
  <2>2. g[1 .. k] = step[<<g[(1 .. k) \ {Max(1 .. k)}], Max(1 .. k)>>]
    BY <1>3, <2>1, Zenon DEF FoldsUpTo
  <2>3. k \in 0 .. n /\ k - 1 \in 0 .. n
    BY <1>1
  <2>4. p[k] = g[1 .. k] /\ p[k - 1] = g[1 .. (k - 1)] /\ p[k - 1] \in Nat
    BY <1>4, <2>3
  <2>5. g[1 .. k] = step[<<p[k - 1], k>>]
    BY <2>1, <2>2, <2>4
  <2> HIDE DEF p
  <2> QED
    BY <2>4, <2>5
<1> HIDE DEF p
<1> QED
  BY <1>4, <1>5, <1>6 DEF PowersOf

LEMMA TradeStep == \A u, v, x, y \in Nat : y <= x => u * (y * v) <= (x * u) * v
<1> SUFFICES ASSUME NEW u \in Nat, NEW v \in Nat, NEW x \in Nat, NEW y \in Nat, y <= x
             PROVE  u * (y * v) <= (x * u) * v
  OBVIOUS
<1>1. u * v \in Nat
  BY TimesNat
<1>2. y * (u * v) <= x * (u * v)
  BY <1>1, TimesMonotonic
<1>3. y * (u * v) = u * (y * v) /\ x * (u * v) = (x * u) * v
  OBVIOUS
<1> QED
  BY <1>2, <1>3

(* Factors of a smaller number instead of as many of a larger one.         *)
LEMMA Trade ==
  ASSUME NEW x \in Nat, NEW y \in Nat, y <= x, NEW p, NEW q, PowersOf(x, p), PowersOf(y, q),
         NEW i \in Nat, NEW j \in Nat, NEW m \in Nat, m <= i, i <= MaxRank, j + m <= MaxRank
  PROVE  p[i - m] * q[j + m] <= p[i] * q[j]
<1> DEFINE T == {k \in 0 .. m : p[i - k] * q[j + k] <= p[i] * q[j]}
<1>1. MaxRank \in Nat /\ p \in [0 .. MaxRank -> Nat] /\ q \in [0 .. MaxRank -> Nat]
  BY MeasuresAssumption DEF PowersOf
<1>2. \A k \in 0 .. m : i - k \in 0 .. MaxRank /\ j + k \in 0 .. MaxRank
  BY <1>1
<1>3. 0 \in T
  <2>1. i - 0 = i /\ j + 0 = j /\ i \in 0 .. MaxRank /\ j \in 0 .. MaxRank
    BY <1>1
  <2>2. p[i] * q[j] \in Nat
    BY <1>1, <2>1, TimesNat
  <2> QED
    BY <2>1, <2>2
<1>4. ASSUME NEW k \in 1 .. m, k - 1 \in T PROVE k \in T
  <2> DEFINE u == p[i - k]
             v == q[j + (k - 1)]
  <2>1. k \in 0 .. m /\ k - 1 \in 0 .. m
    OBVIOUS
  <2>2. /\ i - (k - 1) \in 1 .. MaxRank /\ i - (k - 1) - 1 = i - k
        /\ j + k \in 1 .. MaxRank /\ j + k - 1 = j + (k - 1)
    BY <1>1
  <2>3. p[i - (k - 1)] = x * u /\ q[j + k] = y * v
    <3>1. \A l \in 1 .. MaxRank : p[l] = x * p[l - 1] /\ q[l] = y * q[l - 1]
      BY DEF PowersOf
    <3> QED
      BY <2>2, <3>1
  <2>4. u \in Nat /\ v \in Nat
    BY <1>1, <1>2, <2>1
  <2>5. (x * u) * v <= p[i] * q[j]
    BY <1>4, <2>3
  <2>6. p[i] * q[j] \in Nat
    <3>1. i \in 0 .. MaxRank /\ j \in 0 .. MaxRank
      BY <1>1
    <3> QED
      BY <1>1, <3>1, TimesNat
  <2> HIDE DEF u, v
  <2>7. u * (y * v) <= (x * u) * v
    BY <2>4, TradeStep
  <2>8. u * (y * v) \in Nat /\ (x * u) * v \in Nat
    BY <2>4, TimesNat
  <2>9. u * (y * v) <= p[i] * q[j]
    <3> DEFINE X == u * (y * v)
               Y == (x * u) * v
               Z == p[i] * q[j]
    <3>1. X \in Nat /\ Y \in Nat /\ Z \in Nat /\ X <= Y /\ Y <= Z
      BY <2>5, <2>6, <2>7, <2>8
    <3> HIDE DEF X, Y, Z
    <3>2. X <= Z
      BY <3>1
    <3> QED
      BY <3>2 DEF X, Z
  <2> QED
    BY <2>1, <2>3, <2>9 DEF u
<1>5. m \in T
  <2> HIDE DEF T
  <2>1. 0 .. m \subseteq T
    BY <1>3, <1>4, UpToInduction
  <2> QED
    BY <2>1
<1> QED
  BY <1>5

(* What is left after k ranks: a factor for each of them.                  *)
LEMMA DownIsProduct ==
  ASSUME NEW f \in [1 .. MaxRank -> 0 .. 4], NEW down, NEW sum, ERRsOf(f, down, sum),
         NEW p16, NEW p15, NEW p13, NEW p9,
         PowersOf(16, p16), PowersOf(15, p15), PowersOf(13, p13), PowersOf(9, p9)
  PROVE  \A k \in 0 .. MaxRank :
           /\ Count(f, k, 4) <= Count(f, k, 3) /\ Count(f, k, 3) <= Count(f, k, 2)
           /\ Count(f, k, 2) <= Count(f, k, 1) /\ Count(f, k, 1) <= k
           /\ down[k] = p16[k - Count(f, k, 1)] * p15[Count(f, k, 1) - Count(f, k, 2)]
                        * p13[Count(f, k, 2) - Count(f, k, 3)]
                        * p9[Count(f, k, 3) - Count(f, k, 4)]
<1> DEFINE Is(k, a, b, c, d) ==
             /\ d <= c /\ c <= b /\ b <= a /\ a <= k
             /\ down[k] = p16[k - a] * p15[a - b] * p13[b - c] * p9[c - d]
           Good(k) == Is(k, Count(f, k, 1), Count(f, k, 2), Count(f, k, 3), Count(f, k, 4))
           T == {k \in 0 .. MaxRank : Good(k)}
<1>1. /\ MaxRank \in Nat /\ down \in [0 .. MaxRank -> Nat]
      /\ p16 \in [0 .. MaxRank -> Nat] /\ p15 \in [0 .. MaxRank -> Nat]
      /\ p13 \in [0 .. MaxRank -> Nat] /\ p9 \in [0 .. MaxRank -> Nat]
  BY MeasuresAssumption DEF ERRsOf, PowersOf
<1>2. 0 \in T
  <2>1. Count(f, 0, 1) = 0 /\ Count(f, 0, 2) = 0 /\ Count(f, 0, 3) = 0 /\ Count(f, 0, 4) = 0
    BY CountSteps
  <2>2. down[0] = 1 /\ p16[0] = 1 /\ p15[0] = 1 /\ p13[0] = 1 /\ p9[0] = 1
    BY DEF ERRsOf, PowersOf
  <2> QED
    BY <1>1, <2>1, <2>2
<1>3. ASSUME NEW k \in 1 .. MaxRank, k - 1 \in T PROVE k \in T
  <2> DEFINE a == Count(f, k - 1, 1)  b == Count(f, k - 1, 2)
             c == Count(f, k - 1, 3)  d == Count(f, k - 1, 4)
             up(t) == IF f[k] >= t THEN 1 ELSE 0
  <2>1. k \in 0 .. MaxRank /\ k - 1 \in 0 .. MaxRank /\ k \in Nat \ {0} /\ k - 1 \in Nat
    BY <1>1
  <2>2. /\ Count(f, k, 1) = a + up(1) /\ Count(f, k, 2) = b + up(2)
        /\ Count(f, k, 3) = c + up(3) /\ Count(f, k, 4) = d + up(4)
    BY <2>1, CountSteps
  <2>3. a \in Nat /\ b \in Nat /\ c \in Nat /\ d \in Nat
    <3>1. \A t \in 1 .. 4 : Count(f, k - 1, t) \in 0 .. (k - 1)
      BY <2>1, CountSteps
    <3> QED
      BY <2>1, <3>1
  <2>4. Is(k - 1, a, b, c, d)
    BY <1>3
  <2>5. down[k] = down[k - 1] * (16 - Gain(f[k]))
    BY DEF ERRsOf
  <2>6. f[k] = 0 \/ f[k] = 1 \/ f[k] = 2 \/ f[k] = 3 \/ f[k] = 4
    OBVIOUS
  <2> HIDE DEF a, b, c, d
  <2> DEFINE A == p16[k - 1 - a]
             B == p15[a - b]
             C == p13[b - c]
             E == p9[c - d]
  <2>7. /\ k - 1 - a \in 0 .. MaxRank /\ a - b \in 0 .. MaxRank
        /\ b - c \in 0 .. MaxRank /\ c - d \in 0 .. MaxRank
        /\ k - a \in 1 .. MaxRank /\ a + 1 - b \in 1 .. MaxRank
        /\ b + 1 - c \in 1 .. MaxRank /\ c + 1 - d \in 1 .. MaxRank
    <3>1. d <= c /\ c <= b /\ b <= a /\ a <= k - 1
      BY <2>4
    <3>2. k - 1 < MaxRank /\ k - 1 \in Nat /\ MaxRank \in Nat /\ k \in Nat
      BY <1>1, <2>1
    <3> HIDE DEF Is
    <3> QED
      BY <2>3, <3>1, <3>2
  <2>8. A \in Nat /\ B \in Nat /\ C \in Nat /\ E \in Nat /\ down[k - 1] = A * B * C * E
    BY <1>1, <2>4, <2>7
  <2>9. /\ p16[k - a] = 16 * A /\ p15[a + 1 - b] = 15 * B
        /\ p13[b + 1 - c] = 13 * C /\ p9[c + 1 - d] = 9 * E
    <3>1. \A l \in 1 .. MaxRank : /\ p16[l] = 16 * p16[l - 1] /\ p15[l] = 15 * p15[l - 1]
                                   /\ p13[l] = 13 * p13[l - 1] /\ p9[l] = 9 * p9[l - 1]
      BY DEF PowersOf
    <3>2. k - a - 1 = k - 1 - a /\ a + 1 - b - 1 = a - b /\ b + 1 - c - 1 = b - c
          /\ c + 1 - d - 1 = c - d
      BY <2>1, <2>3
    <3>3. p16[k - a] = 16 * p16[k - a - 1] /\ p15[a + 1 - b] = 15 * p15[a + 1 - b - 1]
      BY <2>1, <2>3, <2>7, <3>1
    <3>4. p13[b + 1 - c] = 13 * p13[b + 1 - c - 1] /\ p9[c + 1 - d] = 9 * p9[c + 1 - d - 1]
      BY <2>1, <2>3, <2>7, <3>1
    <3> QED
      BY <3>2, <3>3, <3>4
  <2>10. Is(k, a + up(1), b + up(2), c + up(3), d + up(4))
    <3>1. CASE f[k] = 0
      <4>1. down[k] = A * B * C * E * 16
        BY <2>5, <2>8, <3>1, Gains
      <4>2. A * B * C * E * 16 = (16 * A) * B * C * E
        BY <2>8
      <4>3. up(1) = 0 /\ up(2) = 0 /\ up(3) = 0 /\ up(4) = 0
        BY <3>1
      <4> QED
        BY <2>1, <2>3, <2>4, <2>9, <4>1, <4>2, <4>3
    <3>2. CASE f[k] = 1
      <4>1. down[k] = A * B * C * E * 15
        BY <2>5, <2>8, <3>2, Gains
      <4>2. A * B * C * E * 15 = A * (15 * B) * C * E
        BY <2>8
      <4>3. up(1) = 1 /\ up(2) = 0 /\ up(3) = 0 /\ up(4) = 0 /\ k - (a + 1) = k - 1 - a
        BY <2>1, <2>3, <3>2
      <4> QED
        BY <2>1, <2>3, <2>4, <2>9, <4>1, <4>2, <4>3
    <3>3. CASE f[k] = 2
      <4>1. down[k] = A * B * C * E * 13
        BY <2>5, <2>8, <3>3, Gains
      <4>2. A * B * C * E * 13 = A * B * (13 * C) * E
        BY <2>8
      <4>3. up(1) = 1 /\ up(2) = 1 /\ up(3) = 0 /\ up(4) = 0 /\ k - (a + 1) = k - 1 - a
            /\ (a + 1) - (b + 1) = a - b
        BY <2>1, <2>3, <3>3
      <4> QED
        BY <2>1, <2>3, <2>4, <2>9, <4>1, <4>2, <4>3
    <3>4. CASE f[k] = 3
      <4>1. down[k] = A * B * C * E * 9
        BY <2>5, <2>8, <3>4, Gains
      <4>2. A * B * C * E * 9 = A * B * C * (9 * E)
        BY <2>8
      <4>3. up(1) = 1 /\ up(2) = 1 /\ up(3) = 1 /\ up(4) = 0 /\ k - (a + 1) = k - 1 - a
            /\ (a + 1) - (b + 1) = a - b /\ (b + 1) - (c + 1) = b - c
        BY <2>1, <2>3, <3>4
      <4> QED
        BY <2>1, <2>3, <2>4, <2>9, <4>1, <4>2, <4>3
    <3>5. CASE f[k] = 4
      <4>1. down[k] = A * B * C * E * 1
        BY <2>5, <2>8, <3>5, Gains
      <4>2. A * B * C * E * 1 = A * B * C * E
        BY <2>8
      <4>3. up(1) = 1 /\ up(2) = 1 /\ up(3) = 1 /\ up(4) = 1 /\ k - (a + 1) = k - 1 - a
            /\ (a + 1) - (b + 1) = a - b /\ (b + 1) - (c + 1) = b - c /\ (c + 1) - (d + 1) = c - d
        BY <2>1, <2>3, <3>5
      <4> QED
        BY <2>1, <2>3, <2>4, <2>9, <4>1, <4>2, <4>3
    <3> QED
      BY <2>6, <3>1, <3>2, <3>3, <3>4, <3>5
  <2> QED
    BY <2>1, <2>2, <2>10
<1> HIDE DEF T
<1>4. 0 .. MaxRank \subseteq T
  BY <1>1, <1>2, <1>3, UpToInduction
<1> QED
  BY <1>4 DEF T

LEMMA PowersGrow ==
  ASSUME NEW x \in Nat, 1 <= x, NEW p, PowersOf(x, p), NEW i \in Nat, i <= MaxRank, NEW j \in 0 .. i
  PROVE  p[j] <= p[i]
<1> DEFINE T == {k \in 0 .. i : \A l \in 0 .. k : p[l] <= p[k]}
<1>1. MaxRank \in Nat /\ p \in [0 .. MaxRank -> Nat]
  BY MeasuresAssumption DEF PowersOf
<1>2. 0 \in T
  BY <1>1
<1>3. ASSUME NEW k \in 1 .. i, k - 1 \in T PROVE k \in T
  <2>1. k \in 1 .. MaxRank /\ k \in 0 .. i /\ k - 1 \in 0 .. MaxRank /\ k \in 0 .. MaxRank
    BY <1>1
  <2>2. p[k] = x * p[k - 1] /\ p[k - 1] \in Nat /\ p[k] \in Nat
    BY <1>1, <2>1 DEF PowersOf
  <2>3. 1 * p[k - 1] <= x * p[k - 1]
    BY <2>2, TimesMonotonic
  <2>4. p[k - 1] <= p[k]
    BY <2>2, <2>3
  <2>5. ASSUME NEW l \in 0 .. k PROVE p[l] <= p[k]
    <3>1. CASE l = k
      BY <2>2, <3>1
    <3>2. CASE l # k
      <4>1. l \in 0 .. (k - 1) /\ l \in 0 .. MaxRank
        <5>1. k \in Nat /\ MaxRank \in Nat /\ k <= MaxRank /\ l \in Nat /\ l <= k
          BY <1>1, <2>1
        <5> QED
          BY <3>2, <5>1
      <4>2. p[l] <= p[k - 1] /\ p[l] \in Nat
        BY <1>1, <1>3, <4>1
      <4> QED
        BY <2>2, <2>4, <4>2
    <3> QED
      BY <3>1, <3>2
  <2> QED
    BY <2>1, <2>5
<1> HIDE DEF T
<1>4. 0 .. i \subseteq T
  BY <1>2, <1>3, UpToInduction
<1> QED
  BY <1>4 DEF T

LEMMA Chain ==
  ASSUME NEW A0 \in Nat, NEW A1 \in Nat, NEW B0 \in Nat, NEW B1 \in Nat, NEW B2 \in Nat,
         NEW C0 \in Nat, NEW C1 \in Nat, NEW C2 \in Nat, NEW E0 \in Nat, NEW E1 \in Nat, NEW E2 \in Nat,
         A1 * B1 <= A0 * B0, B2 * C1 <= B1 * C0, C2 * E1 <= C1 * E0, E2 <= E1
  PROVE  A1 * B2 * C2 * E2 <= A0 * B0 * C0 * E0
<1>1. /\ A1 * B1 \in Nat /\ A0 * B0 \in Nat /\ B2 * C1 \in Nat /\ B1 * C0 \in Nat
      /\ C2 * E1 \in Nat /\ C1 * E0 \in Nat /\ A1 * B2 \in Nat /\ A1 * E0 \in Nat
      /\ C0 * E0 \in Nat /\ A1 * B2 * C2 \in Nat
  BY TimesNat
<1> DEFINE P0 == (A0 * B0) * (C0 * E0)
           P1 == (A1 * B1) * (C0 * E0)
           P2 == (B2 * C1) * (A1 * E0)
           P3 == (C2 * E1) * (A1 * B2)
           P4 == E2 * (A1 * B2 * C2)
<1>2. P0 \in Nat /\ P1 \in Nat /\ P2 \in Nat /\ P3 \in Nat /\ P4 \in Nat
  BY <1>1, TimesNat
<1>3. P1 <= P0
  BY <1>1, TimesMonotonic
<1>4. P2 <= P1
  <2>1. (B2 * C1) * (A1 * E0) <= (B1 * C0) * (A1 * E0)
    BY <1>1, TimesMonotonic
  <2>2. (B1 * C0) * (A1 * E0) = P1
    OBVIOUS
  <2> QED
    BY <2>1, <2>2
<1>5. P3 <= P2
  <2>1. (C2 * E1) * (A1 * B2) <= (C1 * E0) * (A1 * B2)
    BY <1>1, TimesMonotonic
  <2>2. (C1 * E0) * (A1 * B2) = P2
    OBVIOUS
  <2> QED
    BY <2>1, <2>2
<1>6. P4 <= P3
  <2>1. E2 * (A1 * B2 * C2) <= E1 * (A1 * B2 * C2)
    BY <1>1, TimesMonotonic
  <2>2. E1 * (A1 * B2 * C2) = P3
    OBVIOUS
  <2> QED
    BY <2>1, <2>2
<1>7. P4 = A1 * B2 * C2 * E2 /\ P0 = A0 * B0 * C0 * E0
  OBVIOUS
<1> HIDE DEF P0, P1, P2, P3, P4
<1>8. P4 <= P0
  BY <1>2, <1>3, <1>4, <1>5, <1>6
<1> QED
  BY <1>7, <1>8

(* A ranking that has better documents leaves less.                        *)
LEMMA DownDominated ==
  ASSUME NEW f \in [1 .. MaxRank -> 0 .. 4], NEW g \in [1 .. MaxRank -> 0 .. 4], Dominates(g, f),
         NEW df, NEW sf, NEW dg, NEW sg, ERRsOf(f, df, sf), ERRsOf(g, dg, sg),
         NEW k \in 0 .. MaxRank
  PROVE  dg[k] <= df[k]
<1>1. PICK p16 : PowersOf(16, p16)
  BY PowersExist
<1>2. PICK p15 : PowersOf(15, p15)
  BY PowersExist
<1>3. PICK p13 : PowersOf(13, p13)
  BY PowersExist
<1>4. PICK p9 : PowersOf(9, p9)
  BY PowersExist
<1> DEFINE a1 == Count(f, k, 1)  b1 == Count(g, k, 1)
           a2 == Count(f, k, 2)  b2 == Count(g, k, 2)
           a3 == Count(f, k, 3)  b3 == Count(g, k, 3)
           a4 == Count(f, k, 4)  b4 == Count(g, k, 4)
<1>5. k \in Nat /\ MaxRank \in Nat /\ k <= MaxRank
  BY MeasuresAssumption
<1>6. \A t \in 1 .. 4 : Count(f, k, t) \in Nat /\ Count(g, k, t) \in Nat /\ Count(f, k, t) <= Count(g, k, t)
  <2>1. \A t \in 1 .. 4 : Count(f, k, t) \in 0 .. k /\ Count(g, k, t) \in 0 .. k
    BY <1>5, CountSteps
  <2>2. \A t \in 1 .. 4 : Count(f, k, t) <= Count(g, k, t)
    BY DEF Dominates
  <2> QED
    BY <1>5, <2>1, <2>2
<1>7. /\ a1 \in Nat /\ b1 \in Nat /\ a1 <= b1 /\ a2 \in Nat /\ b2 \in Nat /\ a2 <= b2
      /\ a3 \in Nat /\ b3 \in Nat /\ a3 <= b3 /\ a4 \in Nat /\ b4 \in Nat /\ a4 <= b4
  BY <1>6
<1>8. /\ a4 <= a3 /\ a3 <= a2 /\ a2 <= a1 /\ a1 <= k
      /\ df[k] = p16[k - a1] * p15[a1 - a2] * p13[a2 - a3] * p9[a3 - a4]
  BY <1>1, <1>2, <1>3, <1>4, DownIsProduct
<1>9. /\ b4 <= b3 /\ b3 <= b2 /\ b2 <= b1 /\ b1 <= k
      /\ dg[k] = p16[k - b1] * p15[b1 - b2] * p13[b2 - b3] * p9[b3 - b4]
  BY <1>1, <1>2, <1>3, <1>4, DownIsProduct
<1> HIDE DEF a1, a2, a3, a4, b1, b2, b3, b4
<1>10. p16[k - b1] * p15[b1 - a2] <= p16[k - a1] * p15[a1 - a2]
  <2> DEFINE i == k - a1
             j == a1 - a2
             m == b1 - a1
  <2>1. /\ i \in Nat /\ j \in Nat /\ m \in Nat /\ m <= i /\ i <= MaxRank /\ j + m <= MaxRank
        /\ i - m = k - b1 /\ j + m = b1 - a2
    BY <1>5, <1>7, <1>8, <1>9
  <2> HIDE DEF i, j, m
  <2>2. \A u, v, w \in Nat : w <= u /\ u <= MaxRank /\ v + w <= MaxRank
                              => p16[u - w] * p15[v + w] <= p16[u] * p15[v]
    BY <1>1, <1>2, Trade
  <2>3. p16[i - m] * p15[j + m] <= p16[i] * p15[j]
    BY <2>1, <2>2
  <2> QED
    BY <2>1, <2>3 DEF i, j
<1>11. p15[b1 - b2] * p13[b2 - a3] <= p15[b1 - a2] * p13[a2 - a3]
  <2> DEFINE i == b1 - a2
             j == a2 - a3
             m == b2 - a2
  <2>1. /\ i \in Nat /\ j \in Nat /\ m \in Nat /\ m <= i /\ i <= MaxRank /\ j + m <= MaxRank
        /\ i - m = b1 - b2 /\ j + m = b2 - a3
    BY <1>5, <1>7, <1>8, <1>9
  <2> HIDE DEF i, j, m
  <2>2. \A u, v, w \in Nat : w <= u /\ u <= MaxRank /\ v + w <= MaxRank
                              => p15[u - w] * p13[v + w] <= p15[u] * p13[v]
    BY <1>2, <1>3, Trade
  <2>3. p15[i - m] * p13[j + m] <= p15[i] * p13[j]
    BY <2>1, <2>2
  <2> QED
    BY <2>1, <2>3 DEF i, j
<1>12. p13[b2 - b3] * p9[b3 - a4] <= p13[b2 - a3] * p9[a3 - a4]
  <2> DEFINE i == b2 - a3
             j == a3 - a4
             m == b3 - a3
  <2>1. /\ i \in Nat /\ j \in Nat /\ m \in Nat /\ m <= i /\ i <= MaxRank /\ j + m <= MaxRank
        /\ i - m = b2 - b3 /\ j + m = b3 - a4
    BY <1>5, <1>7, <1>8, <1>9
  <2> HIDE DEF i, j, m
  <2>2. \A u, v, w \in Nat : w <= u /\ u <= MaxRank /\ v + w <= MaxRank
                              => p13[u - w] * p9[v + w] <= p13[u] * p9[v]
    BY <1>3, <1>4, Trade
  <2>3. p13[i - m] * p9[j + m] <= p13[i] * p9[j]
    BY <2>1, <2>2
  <2> QED
    BY <2>1, <2>3 DEF i, j
<1>13. p9[b3 - b4] <= p9[b3 - a4]
  <2>1. b3 - a4 \in Nat /\ b3 - a4 <= MaxRank /\ b3 - b4 \in 0 .. (b3 - a4)
    BY <1>5, <1>7, <1>8, <1>9
  <2> QED
    BY <1>4, <2>1, PowersGrow
<1>14. /\ p16[k - a1] \in Nat /\ p16[k - b1] \in Nat
       /\ p15[a1 - a2] \in Nat /\ p15[b1 - a2] \in Nat /\ p15[b1 - b2] \in Nat
       /\ p13[a2 - a3] \in Nat /\ p13[b2 - a3] \in Nat /\ p13[b2 - b3] \in Nat
       /\ p9[a3 - a4] \in Nat /\ p9[b3 - a4] \in Nat /\ p9[b3 - b4] \in Nat
  <2>1. /\ k - a1 \in 0 .. MaxRank /\ k - b1 \in 0 .. MaxRank
        /\ a1 - a2 \in 0 .. MaxRank /\ b1 - a2 \in 0 .. MaxRank /\ b1 - b2 \in 0 .. MaxRank
        /\ a2 - a3 \in 0 .. MaxRank /\ b2 - a3 \in 0 .. MaxRank /\ b2 - b3 \in 0 .. MaxRank
        /\ a3 - a4 \in 0 .. MaxRank /\ b3 - a4 \in 0 .. MaxRank /\ b3 - b4 \in 0 .. MaxRank
    BY <1>5, <1>7, <1>8, <1>9
  <2>2. /\ p16 \in [0 .. MaxRank -> Nat] /\ p15 \in [0 .. MaxRank -> Nat]
        /\ p13 \in [0 .. MaxRank -> Nat] /\ p9 \in [0 .. MaxRank -> Nat]
    BY <1>1, <1>2, <1>3, <1>4 DEF PowersOf
  <2> QED
    BY <2>1, <2>2
<1>15. p16[k - b1] * p15[b1 - b2] * p13[b2 - b3] * p9[b3 - b4]
       <= p16[k - a1] * p15[a1 - a2] * p13[a2 - a3] * p9[a3 - a4]
  BY <1>10, <1>11, <1>12, <1>13, <1>14, Chain, Zenon
<1> QED
  BY <1>8, <1>9, <1>15

LEMMA StepERR ==
  ASSUME NEW x \in Nat, NEW y \in Nat, NEW D \in Nat, NEW E \in Nat, NEW s \in Nat, NEW t \in Nat,
         NEW v \in Nat, NEW w \in Nat, E <= D, w <= v, v * (D - E) + s <= t
  PROVE  w * (D * (16 - x) - E * (16 - y)) + (s * 16 + D * x * w) <= t * 16 + E * y * w
<1> DEFINE d == D - E
<1>1. d \in Nat /\ D = E + d
  OBVIOUS
<1> HIDE DEF d
<1>2. w * d <= v * d /\ w * d \in Nat /\ v * d \in Nat
  BY <1>1, TimesMonotonic
<1>3. D - E = d
  BY <1>1
<1>4. v * d + s <= t
  BY <1>3
<1>5. w * d + s <= t
  BY <1>2, <1>4
<1>6. w * (D * (16 - x) - E * (16 - y)) + (s * 16 + D * x * w) = 16 * (w * d + s) + E * y * w
  BY <1>1
<1>7. E * y * w \in Nat
  BY TimesNat
<1> QED
  BY <1>2, <1>5, <1>6, <1>7

LEMMA SharesShrink ==
  ASSUME NEW k \in Nat \ {0}
  PROVE  Ranks \div (k + 1) <= Ranks \div k
<1> DEFINE a == Ranks \div (k + 1)
           b == Ranks \div k
<1>1. Ranks \in Nat
  BY MeasuresAssumption
<1>2. a \in Nat /\ (k + 1) * a <= Ranks
  BY <1>1
<1>3. b \in Nat /\ Ranks < k * (b + 1)
  BY <1>1
<1> HIDE DEF a, b
<1>4. \A x, y \in Nat : ~(x <= y) => y + 1 <= x
  OBVIOUS
<1>5. SUFFICES ASSUME ~(a <= b) PROVE FALSE
  BY DEF a, b
<1>6. (b + 1) * k <= a * k
  BY <1>2, <1>3, <1>4, <1>5, TimesMonotonic
<1>7. (k + 1) * a = a * k + a
  BY <1>2
<1>8. (b + 1) * k = k * (b + 1) /\ (b + 1) * k \in Nat /\ a * k \in Nat
  BY <1>2, <1>3, TimesNat
<1> QED
  BY <1>1, <1>2, <1>3, <1>6, <1>7, <1>8

LEMMA ERRDominated ==
  ASSUME NEW f \in [1 .. MaxRank -> 0 .. 4], NEW g \in [1 .. MaxRank -> 0 .. 4], Dominates(g, f),
         NEW df, NEW sf, NEW dg, NEW sg, ERRsOf(f, df, sf), ERRsOf(g, dg, sg)
  PROVE  sf[MaxRank] <= sg[MaxRank]
<1> DEFINE w(k) == IF k = 0 THEN Ranks ELSE Ranks \div k
           T == {k \in 0 .. MaxRank : w(k) * (df[k] - dg[k]) + sf[k] <= sg[k]}
<1>1. /\ MaxRank \in Nat /\ Ranks \in Nat
      /\ df \in [0 .. MaxRank -> Nat] /\ dg \in [0 .. MaxRank -> Nat]
      /\ sf \in [0 .. MaxRank -> Nat] /\ sg \in [0 .. MaxRank -> Nat]
  BY MeasuresAssumption DEF ERRsOf
<1>2. \A k \in 0 .. MaxRank : dg[k] <= df[k]
  BY DownDominated
<1>3. ASSUME NEW k \in 0 .. MaxRank PROVE w(k) \in Nat
  <2>1. CASE k = 0
    BY <1>1, <2>1
  <2>2. CASE k # 0
    <3>1. k \in Nat \ {0}
      BY <1>1, <2>2
    <3>2. Ranks \div k \in Nat
      BY <3>1, ShareOfRanks, Zenon
    <3> QED
      BY <2>2, <3>2
  <2> QED
    BY <2>1, <2>2
<1>4. 0 \in T
  <2>1. df[0] = 1 /\ dg[0] = 1 /\ sf[0] = 0 /\ sg[0] = 0
    BY DEF ERRsOf
  <2>2. w(0) * (1 - 1) = 0
    BY <1>1
  <2> QED
    BY <1>1, <2>1, <2>2
<1>5. ASSUME NEW k \in 1 .. MaxRank, k - 1 \in T PROVE k \in T
  <2>1. k \in 0 .. MaxRank /\ k - 1 \in 0 .. MaxRank /\ w(k) = Ranks \div k
    BY <1>1
  <2>2. w(k) <= w(k - 1)
    <3>1. CASE k = 1
      <4>1. Ranks \div 1 = Ranks
        BY <1>1
      <4> QED
        BY <1>1, <3>1, <4>1
    <3>2. CASE k # 1
      <4> DEFINE l == k - 1
      <4>1. l \in Nat \ {0} /\ k = l + 1 /\ w(l) = Ranks \div l
        BY <1>1, <3>2
      <4> HIDE DEF l
      <4>2. Ranks \div (l + 1) <= Ranks \div l
        BY <4>1, SharesShrink
      <4> QED
        BY <2>1, <4>1, <4>2 DEF l
    <3> QED
      BY <3>1, <3>2
  <2> DEFINE x == Gain(f[k])
             y == Gain(g[k])
  <2>3. x \in Nat /\ y \in Nat
    BY Gains
  <2>4. /\ df[k] = df[k - 1] * (16 - x) /\ dg[k] = dg[k - 1] * (16 - y)
        /\ sf[k] = sf[k - 1] * 16 + df[k - 1] * x * w(k)
        /\ sg[k] = sg[k - 1] * 16 + dg[k - 1] * y * w(k)
    BY <2>1 DEF ERRsOf
  <2>5. /\ df[k - 1] \in Nat /\ dg[k - 1] \in Nat /\ sf[k - 1] \in Nat /\ sg[k - 1] \in Nat
        /\ dg[k - 1] <= df[k - 1] /\ w(k) \in Nat /\ w(k - 1) \in Nat
    BY <1>1, <1>2, <1>3, <2>1
  <2>6. w(k - 1) * (df[k - 1] - dg[k - 1]) + sf[k - 1] <= sg[k - 1]
    BY <1>5
  <2> HIDE DEF x, y, w
  <2>7. w(k) * (df[k - 1] * (16 - x) - dg[k - 1] * (16 - y)) + (sf[k - 1] * 16 + df[k - 1] * x * w(k))
        <= sg[k - 1] * 16 + dg[k - 1] * y * w(k)
    BY <2>2, <2>3, <2>5, <2>6, StepERR, Zenon
  <2> QED
    BY <2>1, <2>4, <2>7
<1>6. MaxRank \in T
  <2> HIDE DEF T
  <2>1. 0 .. MaxRank \subseteq T
    BY <1>1, <1>4, <1>5, UpToInduction
  <2> QED
    BY <1>1, <2>1
<1>7. w(MaxRank) * (df[MaxRank] - dg[MaxRank]) \in Nat
  <2>1. w(MaxRank) \in Nat /\ df[MaxRank] - dg[MaxRank] \in Nat
    BY <1>1, <1>2, <1>3
  <2> HIDE DEF w
  <2> QED
    BY <2>1, TimesNat
<1> HIDE DEF w
<1> QED
  BY <1>1, <1>6, <1>7

LEMMA ERRPositive ==
  ASSUME NEW f \in [1 .. MaxRank -> 0 .. 4], MaxRank > 0, f[1] >= 1,
         NEW down, NEW sum, ERRsOf(f, down, sum)
  PROVE  sum[MaxRank] > 0
<1> DEFINE T == {k \in 0 .. MaxRank : k > 0 => sum[k] > 0}
<1>1. /\ MaxRank \in Nat /\ down \in [0 .. MaxRank -> Nat] /\ sum \in [0 .. MaxRank -> Nat]
      /\ down[0] = 1 /\ sum[0] = 0
  BY MeasuresAssumption DEF ERRsOf
<1>2. 0 \in T
  BY <1>1
<1>3. ASSUME NEW k \in 1 .. MaxRank, k - 1 \in T PROVE k \in T
  <2> DEFINE more == down[k - 1] * Gain(f[k]) * (Ranks \div k)
  <2>1. /\ sum[k] = sum[k - 1] * 16 + more
        /\ k \in 0 .. MaxRank /\ k - 1 \in 0 .. MaxRank /\ k \in Nat \ {0}
    BY <1>1 DEF ERRsOf
  <2>2. sum[k - 1] \in Nat /\ down[k - 1] \in Nat
    BY <1>1, <2>1
  <2>3. more \in Nat
    <3>1. Gain(f[k]) \in Nat
      BY Gains
    <3>2. Ranks \div k \in Nat
      BY <2>1, ShareOfRanks, Zenon
    <3> QED
      BY <2>2, <3>1, <3>2, TimesNat
  <2>4. CASE k = 1
    <3>1. f[k] = 1 \/ f[k] = 2 \/ f[k] = 3 \/ f[k] = 4
      <4>1. f[k] \in 1 .. 4
        BY <2>4
      <4> QED
        BY <4>1
    <3>2. Gain(f[k]) \in Nat /\ 1 <= Gain(f[k])
      BY <3>1, Gains
    <3>3. Ranks \div k = Ranks /\ Ranks \in Nat \ {0}
      BY <2>4, MeasuresAssumption
    <3>4. 1 * Ranks <= Gain(f[k]) * Ranks
      BY <3>2, <3>3, TimesMonotonic
    <3>5. down[k - 1] = 1 /\ sum[k - 1] = 0
      BY <1>1, <2>4
    <3>6. more = Gain(f[k]) * Ranks
      BY <3>2, <3>3, <3>5
    <3> HIDE DEF more
    <3>7. sum[k] = more
      BY <2>1, <2>3, <3>5
    <3>8. more >= Ranks /\ Ranks > 0
      BY <3>3, <3>4, <3>6
    <3> QED
      BY <2>1, <2>3, <3>3, <3>7, <3>8
  <2>5. CASE k # 1
    <3>1. k - 1 > 0
      BY <1>1, <2>5
    <3>2. sum[k - 1] > 0
      BY <1>3, <3>1
    <3> HIDE DEF more
    <3> QED
      BY <2>1, <2>2, <2>3, <3>2
  <2> QED
    BY <2>4, <2>5
<1> HIDE DEF T
<1>4. 0 .. MaxRank \subseteq T
  BY <1>1, <1>2, <1>3, UpToInduction
<1> QED
  BY <1>1, <1>4 DEF T

(* The better the documents, the better DCG and ERR of session_eval.py: of  *)
(* two rankings, the one that has, up to every rank and of every grade or   *)
(* better, as many documents as the other has no smaller DCG and ERR.       *)
THEOREM BetterRanking ==
  ASSUME NEW ranking \in Seq(0 .. 4), NEW other \in Seq(0 .. 4),
         Len(ranking) <= MaxRank, Len(other) <= MaxRank, Dominates(Padded(other), Padded(ranking))
  PROVE  DCG(ranking) <= DCG(other) /\ ERR(ranking) <= ERR(other)
<1> DEFINE f == Padded(ranking)
           g == Padded(other)
<1>1. f \in [1 .. MaxRank -> 0 .. 4] /\ g \in [1 .. MaxRank -> 0 .. 4] /\ Dominates(g, f)
  BY PaddedGrades
<1>2. PICK a : DCGOf(f, a) /\ DCG(ranking) = a[MaxRank]
  BY DCGSteps
<1>3. PICK b : DCGOf(g, b) /\ DCG(other) = b[MaxRank]
  BY DCGSteps
<1>4. PICK df, sf : ERRsOf(f, df, sf) /\ ERR(ranking) = sf[MaxRank]
  BY ERRSteps
<1>5. PICK dg, sg : ERRsOf(g, dg, sg) /\ ERR(other) = sg[MaxRank]
  BY ERRSteps
<1> HIDE DEF f, g
<1>6. a[MaxRank] <= b[MaxRank]
  BY <1>1, <1>2, <1>3, DCGDominated
<1>7. sf[MaxRank] <= sg[MaxRank]
  BY <1>1, <1>4, <1>5, ERRDominated
<1> QED
  BY <1>2, <1>3, <1>4, <1>5, <1>6, <1>7

LEMMA NotZero ==
  ASSUME NEW ranking \in Seq(0 .. 4), Len(ranking) \in 1 .. MaxRank, ranking[1] >= 1
  PROVE  DCG(ranking) > 0 /\ ERR(ranking) > 0
<1> DEFINE f == Padded(ranking)
<1>1. f \in [1 .. MaxRank -> 0 .. 4]
  BY PaddedGrades
<1>2. MaxRank \in Nat /\ MaxRank > 0 /\ f[1] >= 1
  <2>1. MaxRank \in Nat /\ Len(ranking) >= 1 /\ Len(ranking) <= MaxRank /\ Len(ranking) \in Nat
    BY LenProperties, MeasuresAssumption
  <2>2. 1 \in 1 .. MaxRank /\ MaxRank > 0
    BY <2>1
  <2>3. f[1] = ranking[1]
    BY <2>1, <2>2 DEF Padded
  <2> HIDE DEF f
  <2> QED
    BY <2>1, <2>2, <2>3
<1>3. PICK a : DCGOf(f, a) /\ DCG(ranking) = a[MaxRank]
  BY <1>2, DCGSteps
<1>4. PICK df, sf : ERRsOf(f, df, sf) /\ ERR(ranking) = sf[MaxRank]
  BY ERRSteps
<1> HIDE DEF f
<1> QED
  BY <1>1, <1>2, <1>3, <1>4, DCGPositive, ERRPositive

(* A ranking that is cut has the same first ranks.                         *)
LEMMA CutCounts ==
  ASSUME NEW ranking \in Seq(0 .. 4), NEW cutoff \in Nat, NEW t \in 1 .. 4, NEW k \in 0 .. MaxRank
  PROVE  Count(Padded(Cut(ranking, cutoff)), k, t)
           = Count(Padded(ranking), IF k < cutoff THEN k ELSE cutoff, t)
<1> DEFINE n == Len(ranking)
           top == Cut(ranking, cutoff)
           m == IF k < cutoff THEN k ELSE cutoff
           f == Padded(ranking)
           c == Padded(top)
<1>1. MaxRank \in Nat /\ k \in Nat /\ k <= MaxRank /\ n \in Nat /\ DOMAIN ranking = 1 .. n
  BY LenProperties, MeasuresAssumption
<1>2. Len(top) = (IF n < cutoff THEN n ELSE cutoff) /\ \A r \in DOMAIN top : top[r] = ranking[r]
  BY CutProperties
<1>3. DOMAIN top = {r \in 1 .. n : r <= cutoff}
  <2>1. DOMAIN top = {r \in DOMAIN ranking : r <= cutoff}
    BY CutProperties
  <2> QED
    BY <1>1, <2>1
<1>4. \A r \in 1 .. MaxRank : f[r] = IF r <= n THEN ranking[r] ELSE 0
  BY DEF Padded
<1>5. \A r \in 1 .. MaxRank : c[r] = IF r <= Len(top) THEN top[r] ELSE 0
  BY DEF Padded
<1> HIDE DEF top, f, c, n
<1>6. ASSUME NEW r \in 1 .. MaxRank PROVE c[r] = IF r <= cutoff THEN f[r] ELSE 0
  <2>1. CASE r <= Len(top)
    <3>1. r \in DOMAIN top /\ r <= n /\ r <= cutoff
      BY <1>1, <1>2, <1>3, <2>1
    <3> QED
      BY <1>2, <1>4, <1>5, <2>1, <3>1
  <2>2. CASE ~(r <= Len(top))
    <3>1. ~(r <= n) \/ ~(r <= cutoff)
      BY <1>1, <1>2, <2>2
    <3> QED
      BY <1>4, <1>5, <2>2, <3>1
  <2> QED
    BY <2>1, <2>2
<1>7. {r \in 1 .. k : c[r] >= t} = {r \in 1 .. m : f[r] >= t}
  <2>1. ASSUME NEW r, r \in 1 .. k, c[r] >= t PROVE r \in 1 .. m /\ f[r] >= t
    <3>1. r \in 1 .. MaxRank
      BY <1>1, <2>1
    <3>2. r <= cutoff
      <4> SUFFICES ASSUME ~(r <= cutoff) PROVE FALSE
        OBVIOUS
      <4>1. c[r] = 0
        BY <1>6, <3>1
      <4> QED
        BY <2>1, <4>1
    <3> QED
      BY <1>1, <1>6, <2>1, <3>1, <3>2
  <2>2. ASSUME NEW r, r \in 1 .. m, f[r] >= t PROVE r \in 1 .. k /\ c[r] >= t
    <3>1. r \in 1 .. k /\ r \in 1 .. MaxRank /\ r <= cutoff
      BY <1>1, <2>2
    <3> QED
      BY <1>6, <2>2, <3>1
  <2> HIDE DEF m
  <2> QED
    BY <2>1, <2>2
<1> QED
  BY <1>7 DEF Count, c, f, top

LEMMA CutDominates ==
  ASSUME NEW ranking \in Seq(0 .. 4), NEW other \in Seq(0 .. 4), NEW cutoff \in Nat,
         Dominates(Padded(other), Padded(ranking))
  PROVE  Dominates(Padded(Cut(other, cutoff)), Padded(Cut(ranking, cutoff)))
<1> SUFFICES ASSUME NEW k \in 0 .. MaxRank, NEW t \in 1 .. 4
             PROVE  Count(Padded(Cut(ranking, cutoff)), k, t) <= Count(Padded(Cut(other, cutoff)), k, t)
  BY DEF Dominates
<1> DEFINE m == IF k < cutoff THEN k ELSE cutoff
<1>1. m \in 0 .. MaxRank
  BY MeasuresAssumption
<1>2. /\ Count(Padded(Cut(ranking, cutoff)), k, t) = Count(Padded(ranking), m, t)
      /\ Count(Padded(Cut(other, cutoff)), k, t) = Count(Padded(other), m, t)
  BY CutCounts
<1> HIDE DEF m
<1>3. Count(Padded(ranking), m, t) <= Count(Padded(other), m, t)
  BY <1>1 DEF Dominates
<1> QED
  BY <1>2, <1>3
=============================================================================
