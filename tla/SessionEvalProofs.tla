-------------------------- MODULE SessionEvalProofs --------------------------
(* Theorems about SessionEval, for any topics, documents, judgments, lines, *)
(* sessions and runs, from EvalAssumption and MeasuresAssumption.           *)
(*                                                                         *)
(* That ReadQrels keeps the largest judgment is inductive with Typed, the   *)
(* types of the lines and, while they are read, of the judgments.  All the  *)
(* others follow from EvalInv, which adds what is known of the judgments    *)
(* (Judged), of the rankings and the measures so far (Listed) and of what   *)
(* each pass has left in its dictionary for the next ones (Staged).         *)
(*                                                                         *)
(* That no run is better than the ideal one is then a matter of counting:   *)
(* up to each rank, and for each grade, the ideal ranking has all the       *)
(* documents of that grade or better, or nothing else, while a run without  *)
(* repetition has each of them at most once (IdealDominates); and more good *)
(* documents make a better DCG and ERR (EvalMeasuresProofs).                *)
EXTENDS SessionEval, EvalMeasuresProofs

Typed ==
  /\ judged \in Seq(Line)
  /\ pc = "qrels" => rel \in [Topics \cup {NoTopic} -> [Docs -> Int \cup {Unjudged}]]

LEMMA JudgmentsKnown ==
  Judgments \subseteq Int /\ Unjudged \notin Int /\ NoTopic \notin Topics
BY EvalAssumption

LEMMA LinesKnown == \A line \in Line : line.topic \in Topics /\ line.doc \in Docs
                                       /\ line.judgment \in Int
BY JudgmentsKnown DEF Line

LEMMA JudgmentsAreNumbers ==
  ASSUME Typed, NEW t \in Topics, NEW d \in Docs PROVE JudgmentsOf(t, d) \subseteq Int
<1>1. \A k \in DOMAIN judged : judged[k] \in Line
  BY ElementOfSeq, LenProperties DEF Typed
<1> QED
  BY <1>1, LinesKnown DEF JudgmentsOf

LEMMA Initially == Init => Typed /\ LargestJudgment
<1> SUFFICES ASSUME Init PROVE Typed /\ LargestJudgment
  OBVIOUS
<1>1. <<>> \in Seq(Line) /\ DOMAIN <<>> = {}
  BY EmptySeq
<1>2. Typed
  BY <1>1 DEF Init, Typed
<1>3. \A t \in Topics, d \in Docs : JudgmentsOf(t, d) = {} /\ rel[t][d] = Unjudged
  BY <1>1 DEF Init, JudgmentsOf
<1> QED
  BY <1>2, <1>3 DEF LargestJudgment

(* The judgments of one more line.                                         *)
LEMMA OneMoreLine ==
  ASSUME Typed, NEW line \in Line, judged' = Append(judged, line), NEW t \in Topics, NEW d \in Docs
  PROVE  JudgmentsOf(t, d)' = JudgmentsOf(t, d) \cup
                              (IF line.topic = t /\ line.doc = d THEN {line.judgment} ELSE {})
<1>1. judged \in Seq(Line) /\ Len(judged) \in Nat
  BY LenProperties DEF Typed
<1>2. /\ DOMAIN judged' = 1 .. Len(judged) + 1 /\ DOMAIN judged = 1 .. Len(judged)
      /\ \A k \in 1 .. Len(judged) : judged'[k] = judged[k]
      /\ judged'[Len(judged) + 1] = line
  BY <1>1, AppendProperties, LenProperties
<1>3. \A k \in DOMAIN judged' : k \in DOMAIN judged \/ k = Len(judged) + 1
  BY <1>1, <1>2
<1>4. DOMAIN judged \subseteq DOMAIN judged' /\ Len(judged) + 1 \in DOMAIN judged'
  BY <1>1, <1>2
<1> QED
  BY <1>2, <1>3, <1>4 DEF JudgmentsOf

LEMMA ReadQrelKeeps == Typed /\ LargestJudgment /\ ReadQrel => Typed' /\ LargestJudgment'
<1> SUFFICES ASSUME Typed, LargestJudgment, ReadQrel PROVE Typed' /\ LargestJudgment'
  OBVIOUS
<1>1. pc = "qrels" /\ pc' = "qrels"
  BY DEF ReadQrel, Stage, At
<1>2. PICK line \in Line :
        /\ judged' = Append(judged, line)
        /\ rel' = IF Smaller(line) THEN rel ELSE [rel EXCEPT ![line.topic][line.doc] = line.judgment]
  BY DEF ReadQrel
<1>3. line.topic \in Topics /\ line.doc \in Docs /\ line.judgment \in Int
  BY LinesKnown
<1>4. Typed'
  <2>1. judged' \in Seq(Line)
    BY <1>2, AppendProperties DEF Typed
  <2>2. rel' \in [Topics \cup {NoTopic} -> [Docs -> Int \cup {Unjudged}]]
    BY <1>1, <1>2, <1>3 DEF Typed
  <2> QED
    BY <1>1, <2>1, <2>2 DEF Typed
<1>5. ASSUME NEW t \in Topics, NEW d \in Docs
      PROVE  \/ JudgmentsOf(t, d)' = {} /\ rel'[t][d] = Unjudged
             \/ \E j \in JudgmentsOf(t, d)' : /\ \A i \in JudgmentsOf(t, d)' : i <= j
                                             /\ rel'[t][d] = j
  <2>1. \/ JudgmentsOf(t, d) = {} /\ rel[t][d] = Unjudged
        \/ \E j \in JudgmentsOf(t, d) : /\ \A i \in JudgmentsOf(t, d) : i <= j
                                        /\ rel[t][d] = j
    <3>1. \A j : Kept(j) = j
      BY <1>1 DEF Kept
    <3> QED
      BY <3>1 DEF LargestJudgment
  <2>2. CASE line.topic # t \/ line.doc # d
    <3>1. JudgmentsOf(t, d)' = JudgmentsOf(t, d) \cup {}
      BY <1>2, <2>2, OneMoreLine, Zenon
    <3>2. rel'[t][d] = rel[t][d]
      BY <1>1, <1>2, <1>3, <2>2 DEF Typed
    <3> QED
      BY <2>1, <3>1, <3>2
  <2>3. CASE line.topic = t /\ line.doc = d
    <3>1. JudgmentsOf(t, d)' = JudgmentsOf(t, d) \cup {line.judgment}
      BY <1>2, <2>3, OneMoreLine
    <3>2. JudgmentsOf(t, d) \subseteq Int
      BY JudgmentsAreNumbers
    <3>3. CASE Smaller(line)
      <4>1. rel'[t][d] = rel[t][d] /\ rel[t][d] # Unjudged /\ rel[t][d] > line.judgment
        BY <1>2, <2>3, <3>3 DEF Smaller
      <4>2. PICK j \in JudgmentsOf(t, d) : (\A i \in JudgmentsOf(t, d) : i <= j) /\ rel[t][d] = j
        BY <2>1, <4>1
      <4>3. line.judgment <= j
        BY <1>3, <3>2, <4>1, <4>2
      <4> QED
        BY <3>1, <4>1, <4>2, <4>3
    <3>4. CASE ~Smaller(line)
      <4>1. rel'[t][d] = line.judgment
        BY <1>1, <1>2, <1>3, <2>3, <3>4 DEF Typed
      <4>2. \A i \in JudgmentsOf(t, d) : i <= line.judgment
        <5>1. CASE JudgmentsOf(t, d) = {}
          BY <5>1
        <5>2. ASSUME NEW j \in JudgmentsOf(t, d), \A i \in JudgmentsOf(t, d) : i <= j, rel[t][d] = j
              PROVE  \A i \in JudgmentsOf(t, d) : i <= line.judgment
          <6>1. j \in Int /\ j # Unjudged
            BY <3>2, JudgmentsKnown
          <6>2. ~(j > line.judgment)
            BY <2>3, <3>4, <5>2, <6>1 DEF Smaller
          <6> QED
            BY <1>3, <3>2, <5>2, <6>1, <6>2
        <5> QED
          BY <2>1, <5>1, <5>2
      <4>3. line.judgment <= line.judgment
        BY <1>3
      <4> QED
        BY <3>1, <4>1, <4>2, <4>3
    <3> QED
      BY <3>3, <3>4
  <2> QED
    BY <2>2, <2>3
<1>6. LargestJudgment'
  BY <1>1, <1>5 DEF LargestJudgment, Kept
<1> QED
  BY <1>4, <1>6

LEMMA MapJudgmentsKeeps == Typed /\ LargestJudgment /\ MapJudgments => Typed' /\ LargestJudgment'
<1> SUFFICES ASSUME Typed, LargestJudgment, MapJudgments PROVE Typed' /\ LargestJudgment'
  OBVIOUS
<1>1. pc = "qrels" /\ pc' = "mapping" /\ judged' = judged
  BY DEF MapJudgments, Stage, At, inputs
<1>2. rel' = [t \in Topics \cup {NoTopic} |-> [d \in Docs |->
               IF rel[t][d] = Unjudged THEN Unjudged ELSE Mapping[rel[t][d]]]]
  BY DEF MapJudgments
<1>3. \A t \in Topics, d \in Docs : JudgmentsOf(t, d)' = JudgmentsOf(t, d)
  BY <1>1 DEF JudgmentsOf
<1>4. ASSUME NEW t \in Topics, NEW d \in Docs
      PROVE  \/ JudgmentsOf(t, d) = {} /\ rel'[t][d] = Unjudged
             \/ \E j \in JudgmentsOf(t, d) : /\ \A i \in JudgmentsOf(t, d) : i <= j
                                             /\ rel'[t][d] = Mapping[j]
  <2>1. rel'[t][d] = IF rel[t][d] = Unjudged THEN Unjudged ELSE Mapping[rel[t][d]]
    BY <1>2
  <2>2. CASE JudgmentsOf(t, d) = {} /\ rel[t][d] = Unjudged
    BY <2>1, <2>2
  <2>3. ASSUME NEW j \in JudgmentsOf(t, d), \A i \in JudgmentsOf(t, d) : i <= j, rel[t][d] = j
        PROVE  rel'[t][d] = Mapping[j]
    <3>1. j # Unjudged
      BY JudgmentsAreNumbers, JudgmentsKnown
    <3> QED
      BY <2>1, <2>3, <3>1
  <2> QED
    BY <1>1, <2>2, <2>3 DEF LargestJudgment, Kept
<1>5. LargestJudgment'
  BY <1>1, <1>3, <1>4 DEF LargestJudgment, Kept
<1> QED
  BY <1>1, <1>5 DEF Typed

(* After the qrels nothing changes the judgments any more, whatever the     *)
(* passes over them add to the dictionaries of topics and sessions.         *)
LEMMA OthersKeep ==
  ASSUME Typed, LargestJudgment, UNCHANGED <<judged, rel>>, (pc = "qrels") <=> (pc' = "qrels")
  PROVE  Typed' /\ LargestJudgment'
<1>1. \A t \in Topics, d \in Docs : JudgmentsOf(t, d)' = JudgmentsOf(t, d)
  BY DEF JudgmentsOf
<1>2. \A j : Kept(j)' = Kept(j)
  BY DEF Kept
<1>3. LargestJudgment'
  BY <1>1, <1>2 DEF LargestJudgment
<1> QED
  BY <1>3 DEF Typed

LEMMA StepKeeps == Typed /\ LargestJudgment /\ [Next]_vars => Typed' /\ LargestJudgment'
<1> SUFFICES ASSUME Typed, LargestJudgment, [Next]_vars PROVE Typed' /\ LargestJudgment'
  OBVIOUS
<1>1. CASE Malformed
  BY <1>1, OthersKeep DEF Malformed, Raise, At
<1>2. CASE ReadQrel
  BY <1>2, ReadQrelKeeps
<1>3. CASE MapJudgments
  BY <1>3, MapJudgmentsKeeps
<1>4. CASE NotMapped
  BY <1>4, OthersKeep DEF NotMapped, At, inputs
<1>5. CASE MapSessions
  BY <1>5, OthersKeep DEF MapSessions, Stage, At, inputs
<1>6. CASE ReadRanking
  BY <1>6, OthersKeep DEF ReadRanking, Stage, At, inputs
<1>7. CASE MapRelevance
  BY <1>7, OthersKeep DEF MapRelevance, Stage, At, inputs
<1>8. CASE GenerateIdealRanking
  BY <1>8, OthersKeep DEF GenerateIdealRanking, Stage, At, inputs
<1>9. CASE GenerateRelevanceCounts
  BY <1>9, OthersKeep DEF GenerateRelevanceCounts, Stage, At, inputs
<1>10. CASE ComputeMeasures
  BY <1>10, OthersKeep DEF ComputeMeasures, At, inputs
<1>11. CASE NextRun
  BY <1>11, OthersKeep DEF NextRun, Stage, At, inputs
<1>12. CASE PrettyPrint
  BY <1>12, OthersKeep DEF PrettyPrint, At, inputs
<1>13. CASE PrettyPrintFails
  BY <1>13, OthersKeep DEF PrettyPrintFails, Raise, At
<1>14. CASE UNCHANGED vars
  BY <1>14, OthersKeep DEF vars
<1> QED
  BY <1>1, <1>2, <1>3, <1>4, <1>5, <1>6, <1>7, <1>8, <1>9, <1>10, <1>11, <1>12, <1>13, <1>14
  DEF Next

(* Of the judgments of a topic and a document the largest one is kept, and  *)
(* is mapped to its grade once (QrelsParser.ReadQrels and                   *)
(* MapJudgmentsToGrades), to the end of the evaluation.                     *)
THEOREM LargestJudgmentKept == Spec => []LargestJudgment
<1>1. Init => Typed /\ LargestJudgment
  BY Initially
<1>2. Typed /\ LargestJudgment /\ [Next]_vars => Typed' /\ LargestJudgment'
  BY StepKeeps
<1> QED
  BY <1>1, <1>2, PTL DEF Spec
-----------------------------------------------------------------------------
(* The documents a run has for a session: no more than it has lines, and    *)
(* none with a goal type.                                                  *)
DocsOf(run, s) ==
  FoldLeft(LAMBDA docs, line : IF line.session = s /\ ~goal THEN Append(docs, line.doc) ELSE docs,
           <<>>, run)

LEMMA DocsRead ==
  ASSUME NEW run \in Seq([session : Sessions, doc : Docs]), NEW s \in Sessions
  PROVE  /\ DocsOf(run, s) \in Seq(Docs) /\ Len(DocsOf(run, s)) <= Len(run)
         /\ goal => DocsOf(run, s) = <<>>
<1> DEFINE n == Len(run)
           D == 1 .. n
           A == Seq(Docs)
           base == <<>>
           Step(docs, line) == IF line.session = s /\ ~goal THEN Append(docs, line.doc) ELSE docs
           step == [p \in A \X D |-> Step(p[1], run[p[2]])]
           Is(g) == g = [u \in SUBSET D |-> IF u = {} THEN base ELSE Step(g[u \ {Max(u)}], run[Max(u)])]
           iter == CHOOSE g : Is(g)
<1>1. n \in Nat /\ DOMAIN run = D /\ \A k \in D : run[k] \in [session : Sessions, doc : Docs]
  BY LenProperties, ElementOfSeq
<1>2. DocsOf(run, s) = iter[D]
  BY <1>1 DEF DocsOf, FoldLeft, MapThenFoldSet
<1>3. base \in A
  BY EmptySeq
<1>4. \A docs \in A, k \in D : Step(docs, run[k]) \in A
  BY <1>1, AppendProperties
<1>5. ASSUME NEW docs \in A, NEW k \in D
      PROVE  Len(Step(docs, run[k])) <= Len(docs) + 1 /\ (goal => Step(docs, run[k]) = docs)
  <2>1. run[k].doc \in Docs /\ Len(docs) \in Nat
    BY <1>1, LenProperties
  <2>2. Len(Append(docs, run[k].doc)) = Len(docs) + 1
    BY <2>1, AppendProperties
  <2> QED
    BY <2>1, <2>2
<1> HIDE DEF A, base, Step
<1>6. step \in [A \X D -> A]
  BY <1>4
<1>7. \E g : Is(g)
  <2>1. PICK g \in [SUBSET D -> A] : FoldsUpTo(g, n, base, step)
    <3> HIDE DEF step
    <3> QED
      BY <1>1, <1>3, <1>6, SeqFoldExists
  <2>2. ASSUME NEW u \in SUBSET D, u # {}
        PROVE  step[<<g[u \ {Max(u)}], Max(u)>>] = Step(g[u \ {Max(u)}], run[Max(u)])
    BY <1>1, <2>2, MaxOfNumbers
  <2> QED
    BY <2>1, <2>2 DEF FoldsUpTo
<1>8. Is(iter)
  BY <1>7, Zenon
<1> HIDE DEF iter
<1>9. iter[{}] = base /\ \A k \in D : iter[1 .. k] = Step(iter[1 .. (k - 1)], run[k])
  <2>1. \A u \in SUBSET D : iter[u] = IF u = {} THEN base ELSE Step(iter[u \ {Max(u)}], run[Max(u)])
    BY <1>8
  <2>2. ASSUME NEW k \in D PROVE iter[1 .. k] = Step(iter[1 .. (k - 1)], run[k])
    <3>1. /\ 1 .. k \in SUBSET D /\ 1 .. k # {}
          /\ Max(1 .. k) = k /\ (1 .. k) \ {k} = 1 .. (k - 1)
      BY <1>1, Segments
    <3>2. iter[1 .. k] = Step(iter[(1 .. k) \ {Max(1 .. k)}], run[Max(1 .. k)])
      BY <2>1, <3>1, Zenon
    <3> QED
      BY <3>1, <3>2
  <2> QED
    BY <2>1, <2>2
<1>10. PICK acc \in [0 .. n -> A] :
         /\ acc[0] = base /\ \A k \in 1 .. n : acc[k] = step[<<acc[k - 1], k>>]
         /\ iter[1 .. n] = acc[n]
  <2>1. \A k \in D : iter[1 .. (k - 1)] \in A => iter[1 .. k] = step[<<iter[1 .. (k - 1)], k>>]
    BY <1>9
  <2>2. iter[{}] = base
    BY <1>9
  <2>3. IteratesTo(iter, n, A, base, step)
    <3> HIDE DEF step
    <3> QED
      BY <1>1, <1>3, <1>6, <2>1, <2>2, Accumulates
  <2> QED
    BY <2>3, Zenon DEF IteratesTo
<1> DEFINE T == {k \in 0 .. n : Len(acc[k]) <= k /\ (goal => acc[k] = <<>>)}
<1>11. 0 \in T
  BY <1>1, <1>10, EmptySeq DEF base
<1>12. ASSUME NEW k \in 1 .. n, k - 1 \in T PROVE k \in T
  <2>1. k \in 0 .. n /\ k - 1 \in 0 .. n /\ acc[k - 1] \in A /\ acc[k] \in A
    BY <1>1
  <2>2. acc[k] = Step(acc[k - 1], run[k])
    BY <1>10, <2>1
  <2>3. Len(acc[k]) <= Len(acc[k - 1]) + 1 /\ (goal => acc[k] = acc[k - 1])
    BY <1>5, <2>1, <2>2
  <2>4. Len(acc[k]) \in Nat /\ Len(acc[k - 1]) \in Nat
    BY <2>1, LenProperties DEF A
  <2> QED
    BY <1>12, <2>1, <2>3, <2>4
<1>13. n \in T
  <2> HIDE DEF T
  <2>1. 0 .. n \subseteq T
    BY <1>1, <1>11, <1>12, UpToInduction
  <2> QED
    BY <1>1, <2>1
<1>14. DocsOf(run, s) = acc[n] /\ acc[n] \in A
  BY <1>1, <1>2, <1>10
<1> QED
  BY <1>13, <1>14 DEF A

(* The grades.                                                             *)
LEMMA GradesAre == Grades = 0 .. 4 /\ Mapped \subseteq Int /\ \A j \in Mapped : Mapping[j] \in 0 .. 4
<1>1. \A j \in Mapped : j = -2 \/ j = 0 \/ j = 1 \/ j = 4 \/ j = 2 \/ j = 3
  BY DEF Mapped
<1>2. /\ Mapping[-2] = 0 /\ Mapping[0] = 0 /\ Mapping[1] = 1 /\ Mapping[4] = 2
      /\ Mapping[2] = 3 /\ Mapping[3] = 4
  BY DEF Mapping, Mapped
<1>3. Mapped \subseteq Int /\ \A j \in Mapped : Mapping[j] \in 0 .. 4
  BY <1>1, <1>2
<1>4. 0 .. 4 \subseteq Grades
  <2>1. 0 \in Mapped /\ 1 \in Mapped /\ 4 \in Mapped /\ 2 \in Mapped /\ 3 \in Mapped
    BY DEF Mapped
  <2>2. 0 \in Grades /\ 1 \in Grades /\ 2 \in Grades /\ 3 \in Grades /\ 4 \in Grades
    BY <1>2, <2>1 DEF Grades
  <2>3. \A j \in 0 .. 4 : j = 0 \/ j = 1 \/ j = 2 \/ j = 3 \/ j = 4
    OBVIOUS
  <2> QED
    BY <2>2, <2>3
<1> QED
  BY <1>3, <1>4 DEF Grades
-----------------------------------------------------------------------------
LEMMA LeastNumber ==
  ASSUME NEW W \in SUBSET Nat, W # {} PROVE \E m \in W : \A y \in W : m <= y
<1> DEFINE R == OpToRel(<, Nat)
<1>1. R = {xy \in Nat \X Nat : xy[1] < xy[2]}
  BY DEF OpToRel
<1>2. IsWellFoundedOn(R, Nat)
  BY NatLessThanWellFounded
<1> HIDE DEF R
<1>3. PICK m \in W : \A y \in W : ~(<<y, m>> \in R)
  BY <1>2, WFMin
<1>4. ASSUME NEW y \in W PROVE m <= y
  <2>1. <<y, m>> \in Nat \X Nat /\ ~(<<y, m>> \in R)
    BY <1>3
  <2>2. ~(y < m)
    BY <1>1, <2>1
  <2> QED
    BY <2>2
<1> QED
  BY <1>4

(* Documents can be put in the order of their grades.                      *)
LEMMA OrderExists ==
  ASSUME NEW S, IsFiniteSet(S), NEW v \in [S -> 0 .. 4]
  PROVE  \E o \in [1 .. Cardinality(S) -> S] :
           IsInjective(o) /\ \A j, k \in 1 .. Cardinality(S) : j < k => v[o[j]] >= v[o[k]]
<1> DEFINE Order(X, n, o) == /\ o \in [1 .. n -> X] /\ IsInjective(o)
                             /\ \A j, k \in 1 .. n : j < k => v[o[j]] >= v[o[k]]
           Q == {n \in Nat : \A X \in SUBSET S : Cardinality(X) = n => \E o : Order(X, n, o)}
<1>1. \A X \in SUBSET S : IsFiniteSet(X) /\ Cardinality(X) \in Nat
  BY FS_Subset, FS_CardinalityType
<1>2. 0 \in Q
  <2> DEFINE o == [k \in 1 .. 0 |-> k]
  <2>1. \A X \in SUBSET S : Order(X, 0, o)
    BY DEF IsInjective
  <2> HIDE DEF o, Order
  <2> QED
    BY <2>1
<1>3. ASSUME NEW n \in Nat, n \in Q PROVE n + 1 \in Q
  <2> SUFFICES ASSUME NEW X \in SUBSET S, Cardinality(X) = n + 1 PROVE \E o : Order(X, n + 1, o)
    OBVIOUS
  <2> DEFINE W == {v[x] : x \in X}
  <2>1. X # {}
    BY FS_EmptySet
  <2>2. PICK m \in W : \A y \in W : m <= y
    <3>1. W \in SUBSET Nat /\ W # {}
      BY <2>1
    <3> HIDE DEF W
    <3> QED
      BY <3>1, LeastNumber
  <2>3. PICK x \in X : v[x] = m
    OBVIOUS
  <2>4. \A y \in X : v[x] <= v[y]
    BY <2>2, <2>3
  <2>5. Cardinality(X \ {x}) = n /\ X \ {x} \in SUBSET S
    <3>1. IsFiniteSet(X) /\ x \in X
      BY <1>1
    <3>2. Cardinality(X \ {x}) = Cardinality(X) - 1
      BY <3>1, FS_RemoveElement
    <3>3. X \ {x} \in SUBSET S
      OBVIOUS
    <3> QED
      BY <3>2, <3>3
  <2>6. PICK o : Order(X \ {x}, n, o)
    <3> HIDE DEF Order
    <3> QED
      BY <1>3, <2>5
  <2> DEFINE p == [k \in 1 .. (n + 1) |-> IF k = n + 1 THEN x ELSE o[k]]
  <2>7. \A k \in 1 .. n : k \in 1 .. (n + 1) /\ k # n + 1 /\ p[k] = o[k] /\ o[k] \in X \ {x}
    BY <2>6
  <2>8. n + 1 \in 1 .. (n + 1) /\ p[n + 1] = x
    OBVIOUS
  <2>9. \A k \in 1 .. (n + 1) : k = n + 1 \/ k \in 1 .. n
    OBVIOUS
  <2>10. p \in [1 .. (n + 1) -> X]
    BY <2>7, <2>9
  <2>11. DOMAIN p = 1 .. (n + 1) /\ DOMAIN o = 1 .. n
    BY <2>6
  <2> HIDE DEF p
  <2>12. IsInjective(p)
    <3> SUFFICES ASSUME NEW j \in 1 .. (n + 1), NEW k \in 1 .. (n + 1), p[j] = p[k] PROVE j = k
      BY <2>11 DEF IsInjective
    <3>1. CASE j \in 1 .. n /\ k \in 1 .. n
      BY <2>6, <2>7, <2>11, <3>1 DEF IsInjective
    <3>2. CASE j = n + 1 \/ k = n + 1
      BY <2>7, <2>8, <2>9, <3>2
    <3> QED
      BY <2>9, <3>1, <3>2
  <2>13. ASSUME NEW j \in 1 .. (n + 1), NEW k \in 1 .. (n + 1), j < k PROVE v[p[j]] >= v[p[k]]
    <3>1. j \in 1 .. n
      BY <2>13
    <3>2. CASE k \in 1 .. n
      BY <2>6, <2>7, <2>13, <3>1, <3>2
    <3>3. CASE k = n + 1
      <4>1. p[j] = o[j] /\ o[j] \in X /\ p[k] = x
        BY <2>7, <2>8, <3>1, <3>3
      <4>2. v[x] <= v[o[j]] /\ v[x] \in 0 .. 4 /\ v[o[j]] \in 0 .. 4
        BY <2>4, <4>1
      <4> QED
        BY <4>1, <4>2
    <3> QED
      BY <2>9, <3>2, <3>3
  <2>14. Order(X, n + 1, p)
    BY <2>10, <2>12, <2>13
  <2> HIDE DEF Order
  <2> QED
    BY <2>14
<1> HIDE DEF Q
<1>4. Cardinality(S) \in Q
  <2>1. Nat \subseteq Q
    BY <1>2, <1>3, NatSetInduction
  <2> QED
    BY <1>1, <2>1
<1>5. \E o : Order(S, Cardinality(S), o)
  <2> HIDE DEF Order
  <2> QED
    BY <1>4 DEF Q
<1> QED
  BY <1>5
-----------------------------------------------------------------------------
(* What the passes leave for one another.  Each dictionary is described from *)
(* the stage that fills it to the stage that reads it; the next run of a     *)
(* directory fills them again.                                             *)
Named(results) ==
  results \in Seq(Range(results)) /\ \A r \in Range(results) : DOMAIN r \subseteq Sessions

Judged ==
  /\ Len(judged) <= MaxLines
  /\ \A d \in Docs : rel[NoTopic][d] = Unjudged
  /\ pc = "qrels" => \A t \in Topics \ keys, d \in Docs : rel[t][d] = Unjudged
  /\ pc # "qrels" => rel \in [Topics \cup {NoTopic} -> [Docs -> 0 .. 4 \cup {Unjudged}]]

Listed ==
  /\ \A s \in Sessions : Len(ranking[s]) <= MaxRank
  /\ goal => ranking = NoRanking
  /\ Named(measures)
  /\ pc \in {"print", "end"} => measures # <<>>

RelevanceRead ==
  \A s \in Sessions :
    /\ DOMAIN relevance[s] = DOMAIN ranking[s]
    /\ \A k \in DOMAIN ranking[s] :
         relevance[s][k] # 0 => relevance[s][k] = rel[topicOf[s]][ranking[s][k]]
TopicsKnown == \A s \in Ranked : topicOf[s] \in keys
IdealRead   == ideal = [s \in IF goal THEN {} ELSE MappedSessions |-> DescendingGrades(topicOf[s])]
CountsRead  ==
  relCount = [s \in Sessions |->
    IF topicOf[s] \in keys \cap Topics
      THEN Cardinality({d \in JudgedDocs(topicOf[s]) : rel[topicOf[s]][d] > 0})
      ELSE NoCount]
MeasuresRead == Last(measures) = [s \in Counted |-> Measure(s)]

Staged ==
  /\ pc \in {"ideal", "counts", "measures", "print"} => RelevanceRead /\ TopicsKnown
  /\ pc \in {"counts", "measures", "print"} => IdealRead
  /\ pc \in {"measures", "print"} => CountsRead
  /\ pc = "print" => MeasuresRead
  /\ result = "running" => output = {} /\ pc # "end"

(* The inductive invariant.                                                *)
EvalInv == TypeOK /\ LargestJudgment /\ Judged /\ Listed /\ Staged /\ OutcomeAsRead

LEMMA Assumed ==
  /\ Judgments \subseteq Int /\ Unjudged \notin Int /\ NoTopic \notin Topics
  /\ Mappings \subseteq [Sessions -> Topics \cup {NoTopic}]
  /\ RunFiles \subseteq Seq([session : Sessions, doc : Docs])
  /\ Cutoff \in Nat \ {0} /\ MaxLines \in 0 .. MaxRank /\ MaxRank \in Nat /\ Ranks \in Nat \ {0}
  /\ \A run \in RunFiles : Len(run) <= MaxRank
BY EvalAssumption, MeasuresAssumption

LEMMA TypedJudgments == TypeOK => Typed
BY DEF TypeOK, Typed

LEMMA MappedGrades ==
  ASSUME TypeOK, Judged, MapJudgments
  PROVE  /\ rel' \in [Topics \cup {NoTopic} -> [Docs -> 0 .. 4 \cup {Unjudged}]]
         /\ \A d \in Docs : rel'[NoTopic][d] = Unjudged
<1>1. pc = "qrels" /\ AllMapped
  BY DEF MapJudgments, Stage, At
<1>2. rel' = [t \in Topics \cup {NoTopic} |-> [d \in Docs |->
               IF rel[t][d] = Unjudged THEN Unjudged ELSE Mapping[rel[t][d]]]]
  BY DEF MapJudgments
<1>3. ASSUME NEW t \in Topics \cup {NoTopic}, NEW d \in Docs, rel[t][d] # Unjudged
      PROVE  Mapping[rel[t][d]] \in 0 .. 4
  <2>1. t \in keys
    BY <1>1, <1>3 DEF Judged
  <2>2. rel[t][d] \in Mapped
    BY <1>1, <1>3, <2>1 DEF AllMapped
  <2> QED
    BY <2>2, GradesAre
<1>4. rel' \in [Topics \cup {NoTopic} -> [Docs -> 0 .. 4 \cup {Unjudged}]]
  BY <1>2, <1>3
<1>5. \A d \in Docs : rel'[NoTopic][d] = Unjudged
  BY <1>2 DEF Judged
<1> QED
  BY <1>4, <1>5

(* The documents of a topic that are judged are no more than the lines.    *)
LEMMA JudgedFew ==
  ASSUME TypeOK, LargestJudgment, Judged, NEW t \in Topics \cup {NoTopic}
  PROVE  IsFiniteSet(JudgedDocs(t)) /\ Cardinality(JudgedDocs(t)) \in 0 .. MaxRank
<1>1. CASE t = NoTopic
  <2>1. JudgedDocs(t) = {}
    BY <1>1 DEF JudgedDocs, Judged
  <2>2. IsFiniteSet(JudgedDocs(t)) /\ Cardinality(JudgedDocs(t)) = 0
    BY <2>1, FS_EmptySet
  <2> QED
    BY <2>2, Assumed
<1>2. CASE t \in Topics
  <2> DEFINE S == JudgedDocs(t)
             K == {k \in DOMAIN judged : judged[k].topic = t /\ judged[k].doc \in S}
             f == [k \in K |-> judged[k].doc]
  <2>1. Len(judged) \in Nat /\ DOMAIN judged = 1 .. Len(judged)
    <3>1. judged \in Seq(Line)
      BY DEF TypeOK
    <3> HIDE DEF S, K, f
    <3> QED
      BY <3>1, LenProperties
  <2>2. IsFiniteSet(K) /\ Cardinality(K) <= Len(judged) /\ Cardinality(K) \in Nat
    <3>1. \A n \in Nat : IsFiniteSet(1 .. n) /\ Cardinality(1 .. n) = n
      BY FS_Interval
    <3>2. K \in SUBSET (1 .. Len(judged))
      BY <2>1
    <3> HIDE DEF K
    <3>3. IsFiniteSet(1 .. Len(judged)) /\ Cardinality(1 .. Len(judged)) = Len(judged)
      BY <2>1, <3>1
    <3>4. IsFiniteSet(K) /\ Cardinality(K) <= Cardinality(1 .. Len(judged))
      BY <3>2, <3>3, FS_Subset
    <3>5. Cardinality(K) \in Nat
      BY <3>4, FS_CardinalityType
    <3> QED
      BY <3>3, <3>4, <3>5
  <2>3. ASSUME NEW d \in S PROVE \E k \in K : f[k] = d
    <3>1. d \in Docs /\ rel[t][d] # Unjudged
      BY DEF JudgedDocs
    <3>2. JudgmentsOf(t, d) # {}
      BY <1>2, <3>1 DEF LargestJudgment
    <3>3. PICK k \in DOMAIN judged : judged[k].topic = t /\ judged[k].doc = d
      BY <3>2 DEF JudgmentsOf
    <3> QED
      BY <3>3
  <2>4. f \in Surjection(K, S)
    <3>1. f \in [K -> S]
      OBVIOUS
    <3> HIDE DEF f, K, S
    <3> QED
      BY <2>3, <3>1 DEF Surjection
  <2> HIDE DEF f, K, S
  <2>5. IsFiniteSet(S) /\ Cardinality(S) <= Cardinality(K)
    BY <2>2, <2>4, FS_Surjection
  <2>6. Cardinality(S) \in Nat
    BY <2>5, FS_CardinalityType
  <2>7. Len(judged) <= MaxLines /\ MaxLines \in Nat /\ MaxLines <= MaxRank /\ MaxRank \in Nat
    BY Assumed DEF Judged
  <2>8. Cardinality(S) \in 0 .. MaxRank
    BY <2>1, <2>2, <2>5, <2>6, <2>7
  <2> QED
    BY <2>5, <2>8 DEF S
<1> QED
  BY <1>1, <1>2

(* The judgments, while they are read and after.                           *)
LEMMA JudgedSame ==
  ASSUME Judged, UNCHANGED <<judged, rel>>, keys \subseteq keys', (pc = "qrels") <=> (pc' = "qrels")
  PROVE  Judged'
BY DEF Judged

LEMMA JudgedReads ==
  ASSUME TypeOK, LargestJudgment, Judged, ReadQrel PROVE Judged'
<1>1. pc = "qrels" /\ pc' = "qrels" /\ Len(judged) < MaxLines
  BY DEF ReadQrel, Stage, At
<1>2. PICK line \in Line :
        /\ judged' = Append(judged, line) /\ keys' = keys \cup {line.topic}
        /\ rel' = IF Smaller(line) THEN rel ELSE [rel EXCEPT ![line.topic][line.doc] = line.judgment]
  BY DEF ReadQrel
<1>3. line.topic \in Topics /\ line.doc \in Docs
  BY LinesKnown
<1>4. Len(judged') <= MaxLines
  <2>1. Len(judged') = Len(judged) + 1 /\ Len(judged) \in Nat
    BY <1>2, AppendProperties, LenProperties DEF TypeOK
  <2> QED
    BY <1>1, <2>1, Assumed
<1>5. \A t \in Topics \cup {NoTopic}, d \in Docs : t # line.topic => rel'[t][d] = rel[t][d]
  BY <1>2, <1>3 DEF TypeOK
<1>6. \A d \in Docs : rel'[NoTopic][d] = Unjudged
  BY <1>3, <1>5, Assumed DEF Judged
<1>7. \A t \in Topics \ keys', d \in Docs : rel'[t][d] = Unjudged
  BY <1>1, <1>2, <1>5 DEF Judged
<1> QED
  BY <1>1, <1>4, <1>6, <1>7 DEF Judged

LEMMA JudgedStep == TypeOK /\ LargestJudgment /\ Judged /\ [Next]_vars => Judged'
<1> SUFFICES ASSUME TypeOK, LargestJudgment, Judged, [Next]_vars PROVE Judged'
  OBVIOUS
<1>1. CASE Malformed
  BY <1>1, JudgedSame DEF Malformed, Raise, At
<1>2. CASE ReadQrel
  BY <1>2, JudgedReads
<1>3. CASE MapJudgments
  BY <1>3, MappedGrades DEF MapJudgments, Judged, Stage, At, inputs
<1>4. CASE NotMapped
  BY <1>4, JudgedSame DEF NotMapped, At, inputs
<1>5. CASE MapSessions
  BY <1>5, JudgedSame DEF MapSessions, Stage, At, inputs
<1>6. CASE ReadRanking
  BY <1>6, JudgedSame DEF ReadRanking, Stage, At, inputs
<1>7. CASE MapRelevance
  BY <1>7, JudgedSame DEF MapRelevance, Stage, At, inputs
<1>8. CASE GenerateIdealRanking
  BY <1>8, JudgedSame DEF GenerateIdealRanking, Stage, At, inputs
<1>9. CASE GenerateRelevanceCounts
  BY <1>9, JudgedSame DEF GenerateRelevanceCounts, Stage, At, inputs
<1>10. CASE ComputeMeasures
  BY <1>10, JudgedSame DEF ComputeMeasures, At, inputs
<1>11. CASE NextRun
  BY <1>11, JudgedSame DEF NextRun, Stage, At, inputs
<1>12. CASE PrettyPrint
  BY <1>12, JudgedSame DEF PrettyPrint, At, inputs
<1>13. CASE PrettyPrintFails
  BY <1>13, JudgedSame DEF PrettyPrintFails, Raise, At
<1>14. CASE UNCHANGED vars
  BY <1>14, JudgedSame DEF vars
<1> QED
  BY <1>1, <1>2, <1>3, <1>4, <1>5, <1>6, <1>7, <1>8, <1>9, <1>10, <1>11, <1>12, <1>13, <1>14
  DEF Next

(* The rankings, and the measures so far.                                  *)
LEMMA RangeTyped ==
  ASSUME NEW V, NEW results \in Seq(V)
  PROVE  results \in Seq(Range(results)) /\ Range(results) \subseteq V
<1>1. Len(results) \in Nat /\ DOMAIN results = 1 .. Len(results) /\ results \in [1 .. Len(results) -> V]
  BY LenProperties
<1>2. results \in [1 .. Len(results) -> Range(results)]
  BY <1>1 DEF Range
<1>3. results \in Seq(Range(results))
  BY <1>1, <1>2, SeqDef
<1>4. Range(results) \subseteq V
  BY <1>1 DEF Range
<1> QED
  BY <1>3, <1>4

LEMMA NamedSame ==
  ASSUME Named(measures) PROVE measures # <<>> => Printed \subseteq Sessions
<1> SUFFICES ASSUME measures # <<>> PROVE Printed \subseteq Sessions
  OBVIOUS
<1>1. measures \in Seq(Range(measures))
  BY DEF Named
<1>2. 1 \in DOMAIN measures
  <2>1. Len(measures) \in Nat /\ DOMAIN measures = 1 .. Len(measures)
    BY <1>1, LenProperties
  <2>2. Len(measures) # 0
    BY <1>1, EmptySeq
  <2> QED
    BY <2>1, <2>2
<1>3. measures[1] \in Range(measures)
  BY <1>2 DEF Range
<1> QED
  BY <1>3 DEF Printed, Named

LEMMA NamedAppended ==
  ASSUME NEW results, Named(results), NEW run, DOMAIN run \subseteq Sessions
  PROVE  /\ Named(Append(results, run)) /\ Append(results, run) # <<>>
         /\ Last(Append(results, run)) = run
<1> DEFINE R == Range(results)
           V == R \cup {run}
           more == Append(results, run)
<1>1. results \in Seq(V) /\ Len(results) \in Nat
  <2>1. results \in Seq(R)
    BY DEF Named
  <2> HIDE DEF R
  <2>2. Len(results) \in Nat /\ results \in [1 .. Len(results) -> R]
    BY <2>1, LenProperties
  <2>3. results \in [1 .. Len(results) -> V]
    BY <2>2
  <2> HIDE DEF V
  <2> QED
    BY <2>2, <2>3, SeqDef
<1>2. \A r \in V : DOMAIN r \subseteq Sessions
  BY DEF Named
<1>3. run \in V
  OBVIOUS
<1> HIDE DEF V, R
<1>4. more \in Seq(V) /\ Len(more) = Len(results) + 1 /\ more[Len(results) + 1] = run
  BY <1>1, <1>3, AppendProperties
<1>5. more \in Seq(Range(more)) /\ Range(more) \subseteq V
  <2>1. more \in Seq(V)
    BY <1>4
  <2> HIDE DEF more
  <2> QED
    BY <2>1, RangeTyped
<1>6. more # <<>>
  <2>1. Len(more) # 0
    BY <1>1, <1>4
  <2> HIDE DEF more
  <2> QED
    BY <2>1, <1>4, EmptySeq
<1>7. Last(more) = run
  BY <1>4 DEF Last
<1> QED
  BY <1>2, <1>5, <1>6, <1>7 DEF Named

LEMMA ListedSame ==
  ASSUME Listed, UNCHANGED <<goal, ranking, measures>>,
         pc' \in {"print", "end"} => pc \in {"print", "end"}
  PROVE  Listed'
BY DEF Listed, Named

LEMMA ListedStep == TypeOK /\ Listed /\ [Next]_vars => Listed'
<1> SUFFICES ASSUME TypeOK, Listed, [Next]_vars PROVE Listed'
  OBVIOUS
<1>1. CASE Malformed
  BY <1>1, ListedSame DEF Malformed, Raise, At
<1>2. CASE ReadQrel
  BY <1>2, ListedSame DEF ReadQrel, Stage, At
<1>3. CASE MapJudgments
  BY <1>3, ListedSame DEF MapJudgments, Stage, At, inputs
<1>4. CASE NotMapped
  BY <1>4, ListedSame DEF NotMapped, At, inputs
<1>5. CASE MapSessions
  BY <1>5, ListedSame DEF MapSessions, Stage, At, inputs
<1>6. CASE ReadRanking
  <2>1. PICK run \in RunFiles : ranking' = [s \in Sessions |-> DocsOf(run, s)]
    BY <1>6 DEF ReadRanking, DocsOf
  <2>2. pc' = "relevance" /\ goal' = goal /\ measures' = measures
    BY <1>6 DEF ReadRanking, Stage, inputs
  <2>3. run \in Seq([session : Sessions, doc : Docs]) /\ Len(run) <= MaxRank /\ Len(run) \in Nat
    BY Assumed, LenProperties
  <2>4. \A s \in Sessions : /\ DocsOf(run, s) \in Seq(Docs) /\ Len(DocsOf(run, s)) <= Len(run)
                            /\ goal => DocsOf(run, s) = <<>>
    BY <2>3, DocsRead
  <2>5. \A s \in Sessions : Len(ranking'[s]) <= MaxRank
    BY <2>1, <2>3, <2>4, Assumed, LenProperties
  <2>6. goal' => ranking' = NoRanking
    BY <2>1, <2>2, <2>4 DEF NoRanking
  <2> QED
    BY <2>2, <2>5, <2>6 DEF Listed, Named
<1>7. CASE MapRelevance
  BY <1>7, ListedSame DEF MapRelevance, Stage, At, inputs
<1>8. CASE GenerateIdealRanking
  BY <1>8, ListedSame DEF GenerateIdealRanking, Stage, At, inputs
<1>9. CASE GenerateRelevanceCounts
  BY <1>9, ListedSame DEF GenerateRelevanceCounts, Stage, At, inputs
<1>10. CASE ComputeMeasures
  <2>1. UNCHANGED <<goal, ranking>> /\ pc = "measures"
    BY <1>10 DEF ComputeMeasures, At, inputs
  <2>2. CASE Missing
    BY <1>10, <2>1, <2>2, ListedSame DEF ComputeMeasures
  <2>3. CASE ~Missing
    <3>1. measures' = Append(measures, [s \in Counted |-> Measure(s)])
      BY <1>10, <2>3 DEF ComputeMeasures
    <3>2. Counted \subseteq Sessions
      BY DEF Counted, Ranked
    <3>3. Named(measures') /\ measures' # <<>>
      BY <3>1, <3>2, NamedAppended DEF Listed
    <3> QED
      BY <2>1, <3>3 DEF Listed, Named
  <2> QED
    BY <2>2, <2>3
<1>11. CASE NextRun
  <2>1. \A s \in Sessions : NoRanking[s] = <<>> /\ Len(NoRanking[s]) = 0
    BY DEF NoRanking
  <2>2. ranking' = NoRanking /\ measures' = measures /\ pc' = "mapping"
    BY <1>11 DEF NextRun, Stage
  <2> QED
    BY <2>1, <2>2, Assumed DEF Listed, Named
<1>12. CASE PrettyPrint
  BY <1>12, ListedSame DEF PrettyPrint, At, inputs
<1>13. CASE PrettyPrintFails
  BY <1>13, ListedSame DEF PrettyPrintFails, Raise, At
<1>14. CASE UNCHANGED vars
  BY <1>14, ListedSame DEF vars
<1> QED
  BY <1>1, <1>2, <1>3, <1>4, <1>5, <1>6, <1>7, <1>8, <1>9, <1>10, <1>11, <1>12, <1>13, <1>14
  DEF Next

(* The types.                                                              *)
LEMMA RelevanceTyped ==
  ASSUME TypeOK, Judged, MapRelevance PROVE relevance' \in [Sessions -> Seq(Grades)]
<1>1. pc # "qrels"
  BY DEF MapRelevance, Stage, At
<1>2. PICK dup \in Duplicates :
       relevance' = [s \in Sessions |-> [k \in DOMAIN ranking[s] |->
         LET grade == rel[topicOf[s]][ranking[s][k]]
         IN  IF grade = Unjudged \/ <<s, ranking[s][k]>> \in dup THEN 0 ELSE grade]]
  BY DEF MapRelevance
<1>3. ASSUME NEW s \in Sessions PROVE relevance'[s] \in Seq(0 .. 4)
  <2> DEFINE n == Len(ranking[s])
  <2>1. ranking[s] \in Seq(Docs) /\ topicOf[s] \in Topics \cup {NoTopic}
    BY DEF TypeOK
  <2>2. n \in Nat /\ DOMAIN ranking[s] = 1 .. n /\ \A k \in 1 .. n : ranking[s][k] \in Docs
    BY <2>1, LenProperties, ElementOfSeq
  <2>3. \A k \in 1 .. n : rel[topicOf[s]][ranking[s][k]] \in 0 .. 4 \cup {Unjudged}
    BY <1>1, <2>1, <2>2 DEF Judged
  <2>4. relevance'[s] \in [1 .. n -> 0 .. 4]
    BY <1>2, <2>2, <2>3
  <2> HIDE DEF n
  <2> QED
    BY <2>2, <2>4, SeqDef
<1>4. relevance' \in [Sessions -> Seq(0 .. 4)]
  BY <1>2, <1>3
<1> QED
  BY <1>4, GradesAre

LEMMA CountsTyped ==
  ASSUME TypeOK, LargestJudgment, Judged, GenerateRelevanceCounts
  PROVE  relCount' \in [Sessions -> Nat \cup {NoCount}]
<1>1. ASSUME NEW t \in Topics PROVE Cardinality({d \in JudgedDocs(t) : rel[t][d] > 0}) \in Nat
  <2>1. IsFiniteSet(JudgedDocs(t))
    BY JudgedFew
  <2>2. {d \in JudgedDocs(t) : rel[t][d] > 0} \in SUBSET JudgedDocs(t)
    OBVIOUS
  <2> QED
    BY <2>1, <2>2, FS_Subset, FS_CardinalityType
<1> QED
  BY <1>1 DEF GenerateRelevanceCounts

LEMMA TypeStep == TypeOK /\ LargestJudgment /\ Judged /\ Listed /\ [Next]_vars => TypeOK'
<1> SUFFICES ASSUME TypeOK, LargestJudgment, Judged, Listed, [Next]_vars PROVE TypeOK'
  OBVIOUS
<1>1. CASE Malformed
  BY <1>1 DEF Malformed, Raise, At, TypeOK
<1>2. CASE ReadQrel
  <2>1. pc = "qrels" /\ pc' = "qrels"
    BY <1>2 DEF ReadQrel, Stage, At
  <2>2. Typed'
    BY <1>2, ReadQrelKeeps, TypedJudgments
  <2>3. keys' \subseteq Topics \cup {NoTopic}
    <3>1. PICK line \in Line : keys' = keys \cup {line.topic}
      BY <1>2 DEF ReadQrel
    <3> QED
      BY <3>1, LinesKnown DEF TypeOK
  <2>4. /\ judged' \in Seq(Line)
        /\ rel' \in [Topics \cup {NoTopic} -> [Docs -> Int \cup {Unjudged}]]
    BY <2>1, <2>2 DEF Typed
  <2> QED
    BY <1>2, <2>3, <2>4 DEF ReadQrel, Stage, At, TypeOK
<1>3. CASE MapJudgments
  <2>1. rel' \in [Topics \cup {NoTopic} -> [Docs -> Int \cup {Unjudged}]]
    BY <1>3, MappedGrades
  <2> QED
    BY <1>3, <2>1 DEF MapJudgments, Stage, At, inputs, TypeOK, Stages
<1>4. CASE NotMapped
  BY <1>4 DEF NotMapped, At, inputs, TypeOK
<1>5. CASE MapSessions
  <2>1. topicOf' \in [Sessions -> Topics \cup {NoTopic}]
    BY <1>5, Assumed DEF MapSessions, TypeOK
  <2> QED
    BY <1>5, <2>1 DEF MapSessions, Stage, At, inputs, TypeOK, Stages
<1>6. CASE ReadRanking
  <2>1. PICK run \in RunFiles : ranking' = [s \in Sessions |-> DocsOf(run, s)]
    BY <1>6 DEF ReadRanking, DocsOf
  <2>2. run \in Seq([session : Sessions, doc : Docs])
    BY Assumed
  <2>3. \A s \in Sessions : DocsOf(run, s) \in Seq(Docs)
    BY <2>2, DocsRead
  <2>4. ranking' \in [Sessions -> Seq(Docs)]
    BY <2>1, <2>3
  <2> QED
    BY <1>6, <2>4 DEF ReadRanking, Stage, At, inputs, TypeOK, Stages
<1>7. CASE MapRelevance
  <2>1. relevance' \in [Sessions -> Seq(Grades)]
    BY <1>7, RelevanceTyped
  <2>2. keys' \subseteq Topics \cup {NoTopic}
    BY <1>7 DEF MapRelevance, TypeOK, Ranked
  <2> QED
    BY <1>7, <2>1, <2>2 DEF MapRelevance, Stage, At, inputs, TypeOK, Stages
<1>8. CASE GenerateIdealRanking
  BY <1>8 DEF GenerateIdealRanking, Stage, At, inputs, TypeOK, Stages
<1>9. CASE GenerateRelevanceCounts
  <2>1. relCount' \in [Sessions -> Nat \cup {NoCount}]
    BY <1>9, CountsTyped
  <2> QED
    BY <1>9, <2>1 DEF GenerateRelevanceCounts, Stage, At, inputs, TypeOK, Stages
<1>10. CASE ComputeMeasures
  BY <1>10 DEF ComputeMeasures, At, inputs, TypeOK, Stages
<1>11. CASE NextRun
  <2>1. NoRanking \in [Sessions -> Seq(Docs)] /\ NoRanking \in [Sessions -> Seq(Grades)]
    BY EmptySeq DEF NoRanking
  <2> QED
    BY <1>11, <2>1 DEF NextRun, Stage, At, inputs, TypeOK, Stages
<1>12. CASE PrettyPrint
  <2>1. Printed \subseteq Sessions
    BY <1>12, NamedSame DEF PrettyPrint, At, Listed
  <2> QED
    BY <1>12, <2>1 DEF PrettyPrint, At, inputs, TypeOK, Stages
<1>13. CASE PrettyPrintFails
  <2>1. output' \subseteq {"header", "all"} \cup Sessions
    BY <1>13 DEF PrettyPrintFails
  <2>2. malformed' \in BOOLEAN
    BY <1>13 DEF PrettyPrintFails, TypeOK
  <2> QED
    BY <1>13, <2>1, <2>2 DEF PrettyPrintFails, Raise, At, TypeOK
<1>14. CASE UNCHANGED vars
  BY <1>14 DEF vars, TypeOK
<1> QED
  BY <1>1, <1>2, <1>3, <1>4, <1>5, <1>6, <1>7, <1>8, <1>9, <1>10, <1>11, <1>12, <1>13, <1>14
  DEF Next

(* The dictionaries.                                                       *)
LEMMA DictionariesSame ==
  ASSUME UNCHANGED <<goal, rel, keys, topicOf, ranking, relevance>>
  PROVE  /\ RelevanceRead' = RelevanceRead /\ TopicsKnown' = TopicsKnown
         /\ (ideal' = ideal => IdealRead' = IdealRead)
         /\ (relCount' = relCount => CountsRead' = CountsRead)
         /\ (UNCHANGED <<relCount, ideal, measures>> => MeasuresRead' = MeasuresRead)
<1>1. RelevanceRead' = RelevanceRead
  BY DEF RelevanceRead
<1>2. TopicsKnown' = TopicsKnown
  BY DEF TopicsKnown, Ranked
<1>3. ideal' = ideal => IdealRead' = IdealRead
  BY DEF IdealRead, MappedSessions, DescendingGrades, JudgedDocs
<1>4. relCount' = relCount => CountsRead' = CountsRead
  BY DEF CountsRead, JudgedDocs
<1>5. UNCHANGED <<relCount, ideal, measures>> => MeasuresRead' = MeasuresRead
  BY DEF MeasuresRead, Counted, Ranked, MappedSessions, Measure
<1> QED
  BY <1>1, <1>2, <1>3, <1>4, <1>5

LEMMA StagedSame ==
  ASSUME Staged, UNCHANGED <<goal, rel, keys, topicOf, ranking, relevance, relCount, ideal, measures>>,
         pc' = pc \/ pc' \notin {"ideal", "counts", "measures", "print"},
         result' = "running" => result = "running" /\ output' = output /\ pc' # "end"
  PROVE  Staged'
BY DictionariesSame DEF Staged

LEMMA StagedOver ==
  ASSUME Staged, result = "running", pc' \in Stages \ {"ideal", "counts", "measures", "print", "end"},
         output' = output
  PROVE  Staged'
BY DEF Staged, Stages

LEMMA StagedStep == TypeOK /\ Listed /\ Staged /\ [Next]_vars => Staged'
<1> SUFFICES ASSUME TypeOK, Listed, Staged, [Next]_vars PROVE Staged'
  OBVIOUS
<1>1. CASE Malformed
  BY <1>1, StagedSame DEF Malformed, Raise, At
<1>2. CASE ReadQrel
  BY <1>2, StagedOver DEF ReadQrel, Stage, At, Stages
<1>3. CASE MapJudgments
  BY <1>3, StagedOver DEF MapJudgments, Stage, At, Stages
<1>4. CASE NotMapped
  BY <1>4, StagedSame DEF NotMapped, At, inputs
<1>5. CASE MapSessions
  BY <1>5, StagedOver DEF MapSessions, Stage, At, Stages
<1>6. CASE ReadRanking
  BY <1>6, StagedOver DEF ReadRanking, Stage, At, Stages
<1>7. CASE MapRelevance
  <2>1. /\ pc' = "ideal" /\ result' = result /\ result = "running" /\ output' = output
        /\ UNCHANGED <<rel, topicOf, ranking>>
        /\ keys' = keys \cup {topicOf[s] : s \in Ranked}
    BY <1>7 DEF MapRelevance, Stage, At, inputs
  <2>2. PICK dup \in Duplicates :
       relevance' = [s \in Sessions |-> [k \in DOMAIN ranking[s] |->
         LET grade == rel[topicOf[s]][ranking[s][k]]
         IN  IF grade = Unjudged \/ <<s, ranking[s][k]>> \in dup THEN 0 ELSE grade]]
    BY <1>7 DEF MapRelevance
  <2>3. RelevanceRead'
    <3> SUFFICES ASSUME NEW s \in Sessions
                 PROVE  /\ DOMAIN relevance'[s] = DOMAIN ranking[s]
                        /\ \A k \in DOMAIN ranking[s] : relevance'[s][k] # 0 =>
                             relevance'[s][k] = rel[topicOf[s]][ranking[s][k]]
      BY <2>1 DEF RelevanceRead
    <3> QED
      BY <2>2
  <2>4. TopicsKnown'
    BY <2>1 DEF TopicsKnown, Ranked
  <2> QED
    BY <2>1, <2>3, <2>4 DEF Staged
<1>8. CASE GenerateIdealRanking
  <2>1. /\ pc = "ideal" /\ pc' = "counts" /\ result' = result /\ result = "running" /\ output' = output
        /\ UNCHANGED <<goal, rel, keys, topicOf, ranking, relevance>>
    BY <1>8 DEF GenerateIdealRanking, Stage, At, inputs
  <2>2. ideal' = [s \in IF goal THEN {} ELSE MappedSessions |-> DescendingGrades(topicOf[s])]
    BY <1>8 DEF GenerateIdealRanking
  <2>3. IdealRead'
    BY <2>1, <2>2 DEF IdealRead, MappedSessions, DescendingGrades, JudgedDocs
  <2> QED
    BY <2>1, <2>3, DictionariesSame DEF Staged
<1>9. CASE GenerateRelevanceCounts
  <2>1. /\ pc = "counts" /\ pc' = "measures" /\ result' = result /\ result = "running"
        /\ UNCHANGED <<goal, rel, keys, topicOf, ranking, relevance, ideal, output>>
    BY <1>9 DEF GenerateRelevanceCounts, Stage, At, inputs
  <2>2. CountsRead'
    BY <1>9, <2>1 DEF GenerateRelevanceCounts, CountsRead, JudgedDocs
  <2> QED
    BY <2>1, <2>2, DictionariesSame DEF Staged
<1>10. CASE ComputeMeasures
  <2>1. /\ pc = "measures" /\ result = "running"
        /\ UNCHANGED <<goal, rel, keys, topicOf, ranking, relevance, relCount, ideal, output>>
    BY <1>10 DEF ComputeMeasures, At, inputs
  <2>2. CASE Missing
    BY <1>10, <2>1, <2>2, StagedSame DEF ComputeMeasures
  <2>3. CASE ~Missing
    <3>1. /\ measures' = Append(measures, [s \in Counted |-> Measure(s)])
          /\ pc' = "print" /\ result' = result
      BY <1>10, <2>3 DEF ComputeMeasures
    <3>2. Counted \subseteq Sessions
      BY DEF Counted, Ranked
    <3>3. Last(measures') = [s \in Counted |-> Measure(s)]
      BY <3>1, <3>2, NamedAppended DEF Listed
    <3>4. MeasuresRead'
      BY <2>1, <3>3 DEF MeasuresRead, Counted, Ranked, MappedSessions, Measure
    <3> QED
      BY <2>1, <3>1, <3>4, DictionariesSame DEF Staged
  <2> QED
    BY <2>2, <2>3
<1>11. CASE NextRun
  BY <1>11, StagedOver DEF NextRun, Stage, At, Stages
<1>12. CASE PrettyPrint
  BY <1>12, StagedSame DEF PrettyPrint, At, inputs
<1>13. CASE PrettyPrintFails
  BY <1>13, StagedSame DEF PrettyPrintFails, Raise, At
<1>14. CASE UNCHANGED vars
  BY <1>14, StagedSame DEF vars, Staged
<1> QED
  BY <1>1, <1>2, <1>3, <1>4, <1>5, <1>6, <1>7, <1>8, <1>9, <1>10, <1>11, <1>12, <1>13, <1>14
  DEF Next

(* The outcome.  Every topic of a run is counted: MapRelevance, which only  *)
(* looks it up, has added it to the judgments.                              *)
LEMMA NoneMissing ==
  ASSUME TypeOK, LargestJudgment, Judged, Staged, pc \in {"measures", "print"} PROVE ~Missing
<1> SUFFICES ASSUME NEW s \in Counted, relCount[s] = NoCount PROVE FALSE
  BY DEF Missing
<1>1. s \in Sessions /\ s \in Ranked /\ topicOf[s] # NoTopic
  BY DEF Counted, Ranked, MappedSessions
<1>2. topicOf[s] \in keys \cap Topics
  BY <1>1 DEF Staged, TopicsKnown, TypeOK
<1> DEFINE found == {d \in JudgedDocs(topicOf[s]) : rel[topicOf[s]][d] > 0}
<1>3. relCount[s] = Cardinality(found)
  BY <1>1, <1>2 DEF Staged, CountsRead
<1>4. Cardinality(found) \in Nat
  <2>1. IsFiniteSet(JudgedDocs(topicOf[s])) /\ found \in SUBSET JudgedDocs(topicOf[s])
    BY <1>2, JudgedFew
  <2> QED
    BY <2>1, FS_Subset, FS_CardinalityType
<1> HIDE DEF found
<1> QED
  BY <1>3, <1>4 DEF NoCount

LEMMA OutcomeStep ==
  TypeOK /\ LargestJudgment /\ Judged /\ Staged /\ OutcomeAsRead /\ [Next]_vars => OutcomeAsRead'
<1> SUFFICES ASSUME TypeOK, LargestJudgment, Judged, Staged, OutcomeAsRead, [Next]_vars
             PROVE  OutcomeAsRead'
  OBVIOUS
<1>0. ASSUME result' = "running" PROVE OutcomeAsRead'
  BY <1>0 DEF OutcomeAsRead
<1>1. CASE Malformed
  BY <1>1 DEF Malformed, Raise, OutcomeAsRead
<1>2. CASE ReadQrel
  BY <1>0, <1>2 DEF ReadQrel, Stage, At
<1>3. CASE MapJudgments
  BY <1>0, <1>3 DEF MapJudgments, Stage, At
<1>4. CASE NotMapped
  BY <1>4 DEF NotMapped, At, OutcomeAsRead, Staged
<1>5. CASE MapSessions
  BY <1>0, <1>5 DEF MapSessions, Stage, At
<1>6. CASE ReadRanking
  BY <1>0, <1>6 DEF ReadRanking, Stage, At
<1>7. CASE MapRelevance
  BY <1>0, <1>7 DEF MapRelevance, Stage, At
<1>8. CASE GenerateIdealRanking
  BY <1>0, <1>8 DEF GenerateIdealRanking, Stage, At
<1>9. CASE GenerateRelevanceCounts
  BY <1>0, <1>9 DEF GenerateRelevanceCounts, Stage, At
<1>10. CASE ComputeMeasures
  <2>1. ~Missing
    BY <1>10, NoneMissing DEF ComputeMeasures, At
  <2> QED
    BY <1>0, <1>10, <2>1 DEF ComputeMeasures, At
<1>11. CASE NextRun
  BY <1>0, <1>11 DEF NextRun, Stage, At
<1>12. CASE PrettyPrint
  BY <1>12 DEF PrettyPrint, OutcomeAsRead, Printed
<1>13. CASE PrettyPrintFails
  <2>1. result' = "fails" /\ goal' = goal /\ pc = "print"
    BY <1>13 DEF PrettyPrintFails, Raise, At
  <2>2. ASSUME ~goal PROVE malformed'
    <3>1. DOMAIN ideal = MappedSessions
      BY <2>1, <2>2 DEF Staged, IdealRead
    <3>2. MappedSessions = {} \/ ~Sortable
      BY <1>13, <3>1 DEF PrettyPrintFails
    <3> QED
      BY <1>13, <3>2 DEF PrettyPrintFails
  <2> QED
    BY <2>1, <2>2 DEF OutcomeAsRead
<1>14. CASE UNCHANGED vars
  BY <1>14 DEF vars, OutcomeAsRead, Printed
<1> QED
  BY <1>1, <1>2, <1>3, <1>4, <1>5, <1>6, <1>7, <1>8, <1>9, <1>10, <1>11, <1>12, <1>13, <1>14
  DEF Next

LEMMA InitInv == Init => EvalInv
<1> SUFFICES ASSUME Init PROVE EvalInv
  OBVIOUS
<1>1. <<>> \in Seq(Line) /\ <<>> \in Seq(Docs) /\ <<>> \in Seq(Grades) /\ <<>> \in Seq({}) /\ Len(<<>>) = 0
  BY EmptySeq
<1>2. LargestJudgment
  BY Initially
<1>3. TypeOK
  <2>1. NoRanking \in [Sessions -> Seq(Docs)] /\ NoRanking \in [Sessions -> Seq(Grades)]
    BY <1>1 DEF NoRanking
  <2>2. goal \in BOOLEAN
    BY EvalAssumption DEF Init
  <2> QED
    BY <1>1, <2>1, <2>2 DEF Init, TypeOK, Stages
<1>4. Judged
  BY <1>1, Assumed DEF Init, Judged
<1>5. Listed
  <2>1. Named(<<>>)
    BY <1>1 DEF Named, Range
  <2>2. \A s \in Sessions : Len(NoRanking[s]) <= MaxRank
    BY <1>1, Assumed DEF NoRanking
  <2> QED
    BY <2>1, <2>2 DEF Init, Listed
<1>6. Staged /\ OutcomeAsRead
  BY DEF Init, Staged, OutcomeAsRead
<1> QED
  BY <1>2, <1>3, <1>4, <1>5, <1>6 DEF EvalInv

LEMMA StepInv == EvalInv /\ [Next]_vars => EvalInv'
<1> SUFFICES ASSUME EvalInv, [Next]_vars PROVE EvalInv'
  OBVIOUS
<1>1. TypeOK /\ LargestJudgment /\ Judged /\ Listed /\ Staged /\ OutcomeAsRead
  BY DEF EvalInv
<1>2. TypeOK'
  BY <1>1, TypeStep
<1>3. LargestJudgment'
  BY <1>1, TypedJudgments, StepKeeps
<1>4. Judged'
  BY <1>1, JudgedStep
<1>5. Listed'
  BY <1>1, ListedStep
<1>6. Staged'
  BY <1>1, StagedStep
<1>7. OutcomeAsRead'
  BY <1>1, OutcomeStep
<1> QED
  BY <1>2, <1>3, <1>4, <1>5, <1>6, <1>7 DEF EvalInv

LEMMA InvHolds == Spec => []EvalInv
<1> QED
  BY InitInv, StepInv, PTL DEF Spec

(* The dictionaries of the evaluation hold what session_eval_main.py takes  *)
(* them for, at every stage: judgments and grades, the documents of the     *)
(* sessions, their grades, their counts.                                   *)
THEOREM EvalTypeCorrect == Spec => []TypeOK
<1>1. EvalInv => TypeOK
  BY DEF EvalInv
<1> QED
  BY <1>1, InvHolds, PTL

(* What Leaderboard::submit takes the evaluation for, for any qrels, any    *)
(* file of sessions and any runs: exit code 0 comes with every line of the  *)
(* sessions or with none, and it fails only when a file cannot be read or   *)
(* has no session (main of session_eval_main.py).                          *)
THEOREM OutcomesAsRead == Spec => []OutcomeAsRead
<1>1. EvalInv => OutcomeAsRead
  BY DEF EvalInv
<1> QED
  BY <1>1, InvHolds, PTL
-----------------------------------------------------------------------------
(* The measures that are printed next, session by session.                 *)
LEMMA Measured ==
  ASSUME EvalInv, pc = "print", NEW s \in DOMAIN Last(measures)
  PROVE  /\ s \in Sessions /\ s \in MappedSessions /\ topicOf[s] \in keys \cap Topics /\ ~goal
         /\ Last(measures)[s] = Measure(s)
         /\ relevance[s] \in Seq(0 .. 4) /\ Len(relevance[s]) <= MaxRank
         /\ relCount[s] \in Nat
         /\ ideal[s] = DescendingGrades(topicOf[s])
<1>0. TypeOK /\ LargestJudgment /\ Judged /\ Listed /\ Staged
  BY DEF EvalInv
<1>1. Last(measures) = [x \in Counted |-> Measure(x)]
  BY <1>0 DEF Staged, MeasuresRead
<1>2. s \in Counted /\ Last(measures)[s] = Measure(s)
  <2> DEFINE m == Last(measures)
  <2> HIDE DEF m
  <2>1. m = [x \in Counted |-> Measure(x)]
    BY <1>1 DEF m
  <2>2. s \in DOMAIN m
    BY DEF m
  <2>3. s \in Counted /\ m[s] = Measure(s)
    BY <2>1, <2>2
  <2> QED
    BY <2>3 DEF m
<1>3. s \in Sessions /\ s \in MappedSessions /\ s \in Ranked
  BY <1>2 DEF Counted, Ranked
<1>4. topicOf[s] \in keys \cap Topics
  BY <1>0, <1>3 DEF Staged, TopicsKnown, TypeOK, MappedSessions
<1>5. ~goal
  BY <1>0, <1>3 DEF Listed, Ranked, NoRanking
<1>6. relevance[s] \in Seq(0 .. 4)
  BY <1>0, <1>3, GradesAre DEF TypeOK
<1>7. Len(relevance[s]) <= MaxRank
  <2>1. DOMAIN relevance[s] = DOMAIN ranking[s] /\ Len(ranking[s]) <= MaxRank
    BY <1>0, <1>3 DEF Staged, RelevanceRead, Listed
  <2>2. ranking[s] \in Seq(Docs)
    BY <1>0, <1>3 DEF TypeOK
  <2>3. /\ DOMAIN relevance[s] = 1 .. Len(relevance[s]) /\ Len(relevance[s]) \in Nat
        /\ DOMAIN ranking[s] = 1 .. Len(ranking[s]) /\ Len(ranking[s]) \in Nat
    BY <1>6, <2>2, LenProperties
  <2>4. \A m, n \in Nat : 1 .. m = 1 .. n => m = n
    <3> SUFFICES ASSUME NEW m \in Nat, NEW n \in Nat, 1 .. m = 1 .. n PROVE m = n
      OBVIOUS
    <3>1. m \in 1 .. m \/ m = 0
      OBVIOUS
    <3>2. n \in 1 .. n \/ n = 0
      OBVIOUS
    <3> QED
      BY <3>1, <3>2
  <2>5. Len(relevance[s]) = Len(ranking[s])
    BY <2>1, <2>3, <2>4
  <2> QED
    BY <2>1, <2>5
<1>8. relCount[s] \in Nat
  <2>1. ~Missing
    BY <1>0, NoneMissing
  <2>2. relCount[s] # NoCount
    BY <1>2, <2>1 DEF Missing
  <2> QED
    BY <1>0, <1>3, <2>2 DEF TypeOK
<1>9. ideal[s] = DescendingGrades(topicOf[s])
  BY <1>0, <1>3, <1>5 DEF Staged, IdealRead
<1> QED
  BY <1>2, <1>3, <1>4, <1>5, <1>6, <1>7, <1>8, <1>9

LEMMA MeasuresDefined == EvalInv => MeasuresAsDefined
<1> SUFFICES ASSUME EvalInv, pc = "print", NEW s \in DOMAIN Last(measures)
             PROVE  /\ Last(measures)[s].precision = (IF relCount[s] = 0 THEN 0 ELSE Hits(s, Cutoff))
                    /\ Last(measures)[s].ap
                         = (IF relCount[s] = 0 THEN 0
                            ELSE MapThenSumSet(LAMBDA r : Hits(s, r) * (Ranks \div r), RelevantRanks(s)))
  BY DEF MeasuresAsDefined
<1>1. /\ Last(measures)[s] = Measure(s)
      /\ relevance[s] \in Seq(0 .. 4) /\ Len(relevance[s]) <= MaxRank
  BY Measured
<1>2. CASE relCount[s] = 0
  <2>1. Measure(s) = Zeros
    BY <1>2 DEF Measure
  <2>2. Zeros.precision = 0 /\ Zeros.ap = 0
    BY DEF Zeros
  <2> QED
    BY <1>1, <1>2, <2>1, <2>2
<1>3. CASE relCount[s] # 0
  <2>1. /\ Measure(s).precision = PrecisionAtK(relevance[s], Cutoff)
        /\ Measure(s).ap = AveragePrecision(relevance[s])
    BY <1>3 DEF Measure
  <2>2. PrecisionAtK(relevance[s], Cutoff) = Hits(s, Cutoff)
    BY <1>1, PrecisionCounts, Assumed DEF Hits
  <2>3. AveragePrecision(relevance[s])
          = MapThenSumSet(LAMBDA r : Hits(s, r) * (Ranks \div r), RelevantRanks(s))
    <3> DEFINE S == {r \in DOMAIN relevance[s] : relevance[s][r] > 0}
               hits == [k \in DOMAIN relevance[s] |->
                          Cardinality({r \in DOMAIN relevance[s] : r <= k /\ relevance[s][r] > 0})]
    <3>1. S = {r \in DOMAIN relevance[s] : relevance[s][r] > 0}
      OBVIOUS
    <3>2. hits = [k \in DOMAIN relevance[s] |->
                    Cardinality({r \in DOMAIN relevance[s] : r <= k /\ relevance[s][r] > 0})]
      OBVIOUS
    <3> HIDE DEF S, hits
    <3>3. AveragePrecision(relevance[s])
            = MapThenSumSet(LAMBDA k : Cardinality({r \in DOMAIN relevance[s] :
                                                      r <= k /\ relevance[s][r] > 0}) * (Ranks \div k),
                            {r \in DOMAIN relevance[s] : relevance[s][r] > 0})
      BY <1>1, <3>1, <3>2, AveragePrecisionSums
    <3> QED
      BY <3>3 DEF Hits, RelevantRanks
  <2> QED
    BY <1>1, <1>3, <2>1, <2>2, <2>3
<1> QED
  BY <1>2, <1>3

(* The measures that MeasureEvaluator computes for a session are those of   *)
(* the textbook, for any judgments and any run of at most MaxRank lines     *)
(* (PrecisionAtK and AveragePrecision of session_eval.py).                  *)
THEOREM MeasuresAreAsDefined == Spec => []MeasuresAsDefined
<1> QED
  BY InvHolds, MeasuresDefined, PTL
-----------------------------------------------------------------------------
(* The ideal ranking: the grades of all the documents of the topic that are *)
(* judged, in descending order.                                            *)
OrderOf(t, o) ==
  /\ o \in [1 .. Cardinality(JudgedDocs(t)) -> JudgedDocs(t)]
  /\ IsInjective(o)
  /\ \A j, k \in 1 .. Cardinality(JudgedDocs(t)) : j < k => rel[t][o[j]] >= rel[t][o[k]]
  /\ DescendingGrades(t) = [k \in 1 .. Cardinality(JudgedDocs(t)) |-> rel[t][o[k]]]

LEMMA IdealOrder ==
  ASSUME TypeOK, LargestJudgment, Judged, pc # "qrels", NEW t \in Topics
  PROVE  \E o : OrderOf(t, o)
<1> DEFINE S == JudgedDocs(t)
           N == Cardinality(S)
           v == [d \in S |-> rel[t][d]]
           Is(o) == IsInjective(o) /\ Descending([k \in DOMAIN o |-> rel[t][o[k]]])
           order == CHOOSE o \in [1 .. N -> S] : Is(o)
<1>1. IsFiniteSet(S)
  BY JudgedFew
<1>2. v \in [S -> 0 .. 4]
  BY DEF JudgedDocs, Judged
<1>3. PICK p \in [1 .. N -> S] :
        IsInjective(p) /\ \A j, k \in 1 .. N : j < k => v[p[j]] >= v[p[k]]
  <2> HIDE DEF v, S
  <2> QED
    BY <1>1, <1>2, OrderExists
<1>4. ASSUME NEW o \in [1 .. N -> S]
      PROVE  Is(o) <=> IsInjective(o) /\ \A j, k \in 1 .. N : j < k => rel[t][o[j]] >= rel[t][o[k]]
  <2> HIDE DEF S, N
  <2> QED
    BY DEF Descending
<1>5. Is(p)
  <2>1. \A k \in 1 .. N : v[p[k]] = rel[t][p[k]]
    OBVIOUS
  <2> HIDE DEF v, S, N, Is
  <2> QED
    BY <1>3, <1>4, <2>1
<1>6. order \in [1 .. N -> S] /\ Is(order)
  <2> HIDE DEF Is
  <2> QED
    BY <1>3, <1>5
<1>7. DescendingGrades(t) = [k \in DOMAIN order |-> rel[t][order[k]]]
  BY DEF DescendingGrades
<1>8. OrderOf(t, order)
  <2> HIDE DEF order, Is
  <2>1. DOMAIN order = 1 .. N
    BY <1>6
  <2> QED
    BY <1>4, <1>6, <1>7, <2>1 DEF OrderOf
<1> QED
  BY <1>8

LEMMA IdealIs ==
  ASSUME TypeOK, LargestJudgment, Judged, pc # "qrels", NEW t \in Topics, NEW o, OrderOf(t, o)
  PROVE  /\ DescendingGrades(t) \in Seq(0 .. 4)
         /\ Len(DescendingGrades(t)) = Cardinality(JudgedDocs(t))
         /\ Cardinality(JudgedDocs(t)) \in 0 .. MaxRank
         /\ \A d \in JudgedDocs(t) : \E k \in 1 .. Cardinality(JudgedDocs(t)) : o[k] = d
<1> DEFINE S == JudgedDocs(t)
           N == Cardinality(S)
           f == DescendingGrades(t)
<1>1. IsFiniteSet(S) /\ N \in 0 .. MaxRank /\ N \in Nat
  BY JudgedFew, Assumed
<1>2. \A d \in S : rel[t][d] \in 0 .. 4
  BY DEF JudgedDocs, Judged
<1>3. o \in [1 .. N -> S] /\ IsInjective(o) /\ f = [k \in 1 .. N |-> rel[t][o[k]]]
  BY DEF OrderOf
<1> HIDE DEF S, N, f
<1>4. f \in [1 .. N -> 0 .. 4]
  BY <1>2, <1>3
<1>5. f \in Seq(0 .. 4)
  BY <1>1, <1>4, SeqDef
<1>6. Len(f) = N
  BY <1>1, <1>4, <1>5, LenProperties
<1>7. o \in Surjection(1 .. N, S)
  <2>1. o \in Injection(1 .. N, S)
    BY <1>3 DEF Injection
  <2>2. Cardinality(1 .. N) = N
    BY <1>1, FS_Interval
  <2>3. Cardinality(1 .. N) = Cardinality(S)
    BY <2>2 DEF N
  <2> QED
    BY <1>1, <2>1, <2>3, FS_Injection
<1>8. \A d \in S : \E k \in 1 .. N : o[k] = d
  BY <1>7 DEF Surjection
<1> QED
  BY <1>1, <1>5, <1>6, <1>8 DEF S, N, f

(* Among its first k ranks the ideal one has every document of a grade, or  *)
(* nothing else.                                                           *)
JudgedAs(t, g) == {d \in JudgedDocs(t) : rel[t][d] >= g}

LEMMA JudgedAsFew ==
  ASSUME TypeOK, LargestJudgment, Judged, NEW t \in Topics, NEW g
  PROVE  IsFiniteSet(JudgedAs(t, g)) /\ Cardinality(JudgedAs(t, g)) \in Nat
<1>1. IsFiniteSet(JudgedDocs(t))
  BY JudgedFew
<1>2. JudgedAs(t, g) \in SUBSET JudgedDocs(t)
  BY DEF JudgedAs
<1> QED
  BY <1>1, <1>2, FS_Subset, FS_CardinalityType

LEMMA IdealCounts ==
  ASSUME TypeOK, LargestJudgment, Judged, pc # "qrels", NEW t \in Topics,
         NEW k \in 0 .. MaxRank, NEW g \in 1 .. 4
  PROVE  \/ Count(Padded(DescendingGrades(t)), k, g) = k
         \/ Cardinality(JudgedAs(t, g)) <= Count(Padded(DescendingGrades(t)), k, g)
<1> DEFINE N == Cardinality(JudgedDocs(t))
           f == Padded(DescendingGrades(t))
           R == {r \in 1 .. k : f[r] >= g}
<1>1. PICK o : OrderOf(t, o)
  BY IdealOrder
<1>2. /\ DescendingGrades(t) \in Seq(0 .. 4) /\ Len(DescendingGrades(t)) = N /\ N \in 0 .. MaxRank
      /\ \A d \in JudgedDocs(t) : \E j \in 1 .. N : o[j] = d
  BY <1>1, IdealIs
<1>3. k \in Nat /\ N \in Nat /\ MaxRank \in Nat /\ N <= MaxRank /\ k <= MaxRank
  BY <1>2, Assumed
<1>4. \A r \in 1 .. MaxRank : f[r] = IF r <= N THEN rel[t][o[r]] ELSE 0
  <2>1. \A r \in 1 .. N : DescendingGrades(t)[r] = rel[t][o[r]]
    BY <1>1 DEF OrderOf
  <2>2. \A r \in 1 .. MaxRank : r <= N => r \in 1 .. N
    BY <1>3
  <2> QED
    BY <1>2, <2>1, <2>2 DEF Padded
<1>5. \A j \in 1 .. N : o[j] \in JudgedDocs(t) /\ rel[t][o[j]] \in 0 .. 4
  <2>1. \A d \in JudgedDocs(t) : rel[t][d] \in 0 .. 4
    BY DEF JudgedDocs, Judged
  <2> QED
    BY <1>1, <2>1 DEF OrderOf
<1>10. f \in [1 .. MaxRank -> 0 .. 4]
  BY <1>2, PaddedGrades
<1> HIDE DEF f
<1>6. Count(f, k, g) = Cardinality(R)
  BY DEF Count
<1>7. IsFiniteSet(R)
  <2>1. IsFiniteSet(1 .. k)
    BY <1>3, FS_Interval
  <2>2. R \in SUBSET (1 .. k)
    OBVIOUS
  <2> HIDE DEF R
  <2> QED
    BY <2>1, <2>2, FS_Subset
<1>8. CASE \A r \in 1 .. k : f[r] >= g
  <2>1. R = 1 .. k
    BY <1>8
  <2>2. Cardinality(1 .. k) = k
    BY <1>3, FS_Interval
  <2> QED
    BY <1>6, <2>1, <2>2 DEF f
<1>9. CASE \E r \in 1 .. k : ~(f[r] >= g)
  <2>1. PICK r \in 1 .. k : ~(f[r] >= g)
    BY <1>9
  <2> DEFINE h == [x \in R |-> o[x]]
             S == JudgedAs(t, g)
  <2>2. ASSUME NEW x \in R PROVE o[x] \in S
    <3>0. x \in 1 .. MaxRank /\ f[x] >= g
      BY <1>3
    <3>1. x \in 1 .. MaxRank /\ f[x] >= 1
      BY <1>10, <3>0
    <3>2. x <= N /\ f[x] = rel[t][o[x]]
      BY <1>3, <1>4, <3>1
    <3>3. x \in 1 .. N
      BY <1>3, <3>1, <3>2
    <3> QED
      BY <1>5, <3>2, <3>3 DEF JudgedAs
  <2>3. ASSUME NEW d \in S PROVE \E x \in R : h[x] = d
    <3>1. d \in JudgedDocs(t) /\ rel[t][d] >= g
      BY DEF JudgedAs
    <3>2. PICK j \in 1 .. N : o[j] = d
      BY <1>2, <3>1
    <3>3. j \in 1 .. MaxRank /\ f[j] = rel[t][d]
      BY <1>3, <1>4, <3>2
    <3>4. ASSUME j > k PROVE FALSE
      <4>1. r \in 1 .. N /\ r < j /\ r \in 1 .. MaxRank
        BY <1>3, <3>2, <3>4
      <4>2. rel[t][o[r]] >= rel[t][o[j]]
        BY <1>1, <3>2, <4>1 DEF OrderOf
      <4>3. f[r] = rel[t][o[r]]
        BY <1>3, <1>4, <4>1
      <4>4. rel[t][o[r]] \in Nat /\ rel[t][o[j]] \in Nat
        BY <1>5, <4>1
      <4> QED
        BY <2>1, <3>1, <3>2, <4>2, <4>3, <4>4
    <3>5. j \in R
      <4>1. j \in 1 .. k
        BY <1>3, <3>4
      <4> QED
        BY <3>1, <3>3, <4>1
    <3> QED
      BY <3>2, <3>5
  <2>4. h \in [R -> S]
    <3> HIDE DEF R, S
    <3> QED
      BY <2>2
  <2> HIDE DEF h, S, R
  <2>5. h \in Surjection(R, S)
    BY <2>3, <2>4 DEF Surjection
  <2>6. Cardinality(S) <= Cardinality(R)
    BY <1>7, <2>5, FS_Surjection
  <2> QED
    BY <1>6, <2>6 DEF f, S
<1> QED
  BY <1>8, <1>9

(* A run that lists no document twice has none of them more often.         *)
LEMMA RunInjects ==
  ASSUME TypeOK, LargestJudgment, Judged, RelevanceRead, pc # "qrels", NEW s \in Sessions,
         topicOf[s] \in Topics, IsInjective(ranking[s]), NEW g \in 1 .. 4,
         NEW R \in SUBSET {r \in DOMAIN relevance[s] : relevance[s][r] >= g}
  PROVE  IsFiniteSet(R) /\ Cardinality(R) <= Cardinality(JudgedAs(topicOf[s], g))
<1> DEFINE t == topicOf[s]
           S == JudgedAs(t, g)
           h == [r \in R |-> ranking[s][r]]
<1>1. DOMAIN relevance[s] = DOMAIN ranking[s]
  BY DEF RelevanceRead
<1>2. \A r \in DOMAIN ranking[s] : ranking[s][r] \in Docs
  <2>1. ranking[s] \in Seq(Docs)
    BY DEF TypeOK
  <2> QED
    BY <2>1, LenProperties, ElementOfSeq
<1>3. ASSUME NEW r \in R PROVE ranking[s][r] \in S
  <2>1. r \in DOMAIN relevance[s] /\ relevance[s][r] >= g
    OBVIOUS
  <2>2. relevance[s][r] \in 0 .. 4
    <3>1. relevance[s] \in Seq(0 .. 4)
      BY GradesAre DEF TypeOK
    <3> QED
      BY <2>1, <3>1, LenProperties, ElementOfSeq
  <2>3. relevance[s][r] = rel[t][ranking[s][r]] /\ ranking[s][r] \in Docs
    BY <1>1, <1>2, <2>1, <2>2 DEF RelevanceRead
  <2>4. rel[t][ranking[s][r]] # Unjudged
    BY <2>2, <2>3, Assumed
  <2> QED
    BY <2>1, <2>3, <2>4 DEF JudgedAs, JudgedDocs
<1>4. h \in [R -> S]
  <2> HIDE DEF S
  <2> QED
    BY <1>3
<1>5. \A q, r \in R : h[q] = h[r] => q = r
  BY <1>1 DEF IsInjective
<1>6. h \in Injection(R, S)
  <2>1. DOMAIN h = R
    OBVIOUS
  <2> HIDE DEF h, S
  <2> QED
    BY <1>4, <1>5, <2>1 DEF Injection, IsInjective
<1>7. IsFiniteSet(S)
  BY JudgedAsFew
<1> HIDE DEF h, S
<1>8. IsFiniteSet(R) /\ Cardinality(R) <= Cardinality(S)
  BY <1>6, <1>7, FS_Injection
<1> QED
  BY <1>8 DEF S

LEMMA IdealDominates ==
  ASSUME TypeOK, LargestJudgment, Judged, RelevanceRead, pc # "qrels", NEW s \in Sessions,
         topicOf[s] \in Topics, IsInjective(ranking[s])
  PROVE  Dominates(Padded(DescendingGrades(topicOf[s])), Padded(relevance[s]))
<1> DEFINE t == topicOf[s]
           f == Padded(relevance[s])
           ideals == Padded(DescendingGrades(t))
<1> SUFFICES ASSUME NEW k \in 0 .. MaxRank, NEW g \in 1 .. 4
             PROVE  Count(f, k, g) <= Count(ideals, k, g)
  BY DEF Dominates
<1>1. relevance[s] \in Seq(0 .. 4)
  BY GradesAre DEF TypeOK
<1>2. DOMAIN relevance[s] = 1 .. Len(relevance[s]) /\ Len(relevance[s]) \in Nat
  BY <1>1, LenProperties
<1>3. k \in Nat /\ MaxRank \in Nat /\ k <= MaxRank
  BY Assumed
<1>4. Count(f, k, g) \in 0 .. k /\ Count(ideals, k, g) \in 0 .. k
  BY <1>3, CountSteps
<1>5. Count(f, k, g) <= Cardinality(JudgedAs(t, g))
  <2> DEFINE R == {r \in 1 .. k : f[r] >= g}
  <2>1. ASSUME NEW r \in R PROVE r \in DOMAIN relevance[s] /\ relevance[s][r] >= g
    <3>1. r \in 1 .. MaxRank /\ f[r] >= g
      BY <1>3
    <3>2. f[r] = IF r <= Len(relevance[s]) THEN relevance[s][r] ELSE 0
      BY <3>1 DEF Padded
    <3>3. r <= Len(relevance[s])
      BY <3>1, <3>2
    <3> QED
      BY <1>2, <3>1, <3>2, <3>3
  <2>2. R \in SUBSET {r \in DOMAIN relevance[s] : relevance[s][r] >= g}
    <3> HIDE DEF R
    <3> QED
      BY <2>1
  <2>3. Count(f, k, g) = Cardinality(R)
    BY DEF Count
  <2> HIDE DEF R
  <2>4. Cardinality(R) <= Cardinality(JudgedAs(t, g))
    BY <2>2, RunInjects
  <2> QED
    BY <2>3, <2>4
<1>6. Cardinality(JudgedAs(t, g)) \in Nat
  BY JudgedAsFew
<1>7. Count(ideals, k, g) = k \/ Cardinality(JudgedAs(t, g)) <= Count(ideals, k, g)
  BY IdealCounts
<1> HIDE DEF f, ideals, t
<1> QED
  BY <1>3, <1>4, <1>5, <1>6, <1>7

(* A topic with a relevant document has one at the first rank of the ideal. *)
LEMMA FirstIsRelevant ==
  ASSUME TypeOK, LargestJudgment, Judged, pc # "qrels", NEW t \in Topics, JudgedAs(t, 1) # {}
  PROVE  Len(DescendingGrades(t)) \in 1 .. MaxRank /\ DescendingGrades(t)[1] >= 1
<1> DEFINE N == Cardinality(JudgedDocs(t))
<1>1. PICK o : OrderOf(t, o)
  BY IdealOrder
<1>2. /\ DescendingGrades(t) \in Seq(0 .. 4) /\ Len(DescendingGrades(t)) = N /\ N \in 0 .. MaxRank
      /\ \A d \in JudgedDocs(t) : \E j \in 1 .. N : o[j] = d
  BY <1>1, IdealIs
<1>3. PICK d \in JudgedDocs(t) : rel[t][d] >= 1
  BY DEF JudgedAs
<1>4. PICK j \in 1 .. N : o[j] = d
  BY <1>2, <1>3
<1>5. N \in 1 .. MaxRank /\ 1 \in 1 .. N
  BY <1>2, <1>4, Assumed
<1>6. \A x \in JudgedDocs(t) : rel[t][x] \in 0 .. 4
  BY DEF JudgedDocs, Judged
<1>7. o[1] \in JudgedDocs(t) /\ rel[t][o[1]] \in 0 .. 4 /\ rel[t][o[j]] \in 0 .. 4
  BY <1>1, <1>4, <1>5, <1>6 DEF OrderOf
<1>8. rel[t][o[1]] >= rel[t][o[j]]
  <2>1. CASE j = 1
    BY <1>7, <2>1
  <2>2. CASE 1 < j
    BY <1>1, <1>5, <2>2 DEF OrderOf
  <2> QED
    BY <1>2, <2>1, <2>2
<1>9. DescendingGrades(t)[1] = rel[t][o[1]]
  BY <1>1, <1>5 DEF OrderOf
<1>10. DescendingGrades(t)[1] >= 1
  BY <1>3, <1>4, <1>7, <1>8, <1>9
<1> QED
  BY <1>2, <1>5, <1>10

(* A quotient of a run and the ideal one.                                  *)
Quotient(q) == q[1] <= q[2] /\ q[2] > 0

LEMMA QuotientOfZero == Quotient(<<0, 1>>)
BY DEF Quotient

LEMMA Quotients ==
  ASSUME NEW run \in Seq(0 .. 4), NEW best \in Seq(0 .. 4), Len(run) <= MaxRank,
         Len(best) \in 1 .. MaxRank, best[1] >= 1, Dominates(Padded(best), Padded(run))
  PROVE  Quotient(<<DCG(run), DCG(best)>>) /\ Quotient(<<ERR(run), ERR(best)>>)
<1>1. Len(best) <= MaxRank
  BY Assumed
<1>2. DCG(run) <= DCG(best) /\ ERR(run) <= ERR(best)
  BY <1>1, BetterRanking
<1>3. DCG(best) > 0 /\ ERR(best) > 0
  BY NotZero
<1> QED
  BY <1>2, <1>3 DEF Quotient

LEMMA CutQuotients ==
  ASSUME NEW run \in Seq(0 .. 4), NEW best \in Seq(0 .. 4), Len(run) <= MaxRank,
         Len(best) \in 1 .. MaxRank, best[1] >= 1, Dominates(Padded(best), Padded(run))
  PROVE  /\ Quotient(<<DCG(Cut(run, Cutoff)), DCG(Cut(best, Cutoff))>>)
         /\ Quotient(<<ERR(Cut(run, Cutoff)), ERR(Cut(best, Cutoff))>>)
<1> DEFINE r == Cut(run, Cutoff)
           b == Cut(best, Cutoff)
<1>0. Cutoff \in Nat /\ Cutoff >= 1 /\ MaxRank \in Nat /\ Len(run) \in Nat /\ Len(best) \in Nat
  BY Assumed, LenProperties
<1>1. r \in Seq(0 .. 4) /\ Len(r) = IF Len(run) < Cutoff THEN Len(run) ELSE Cutoff
  BY <1>0, CutProperties
<1>2. /\ b \in Seq(0 .. 4) /\ Len(b) = IF Len(best) < Cutoff THEN Len(best) ELSE Cutoff
      /\ \A x \in DOMAIN b : b[x] = best[x]
  BY <1>0, CutProperties
<1>3. DOMAIN b = 1 .. Len(b)
  BY <1>2, LenProperties
<1>4. Dominates(Padded(b), Padded(r))
  BY <1>0, CutDominates
<1> HIDE DEF r, b
<1>5. Len(r) <= MaxRank
  BY <1>0, <1>1
<1>6. Len(b) \in 1 .. MaxRank /\ b[1] >= 1
  <2>1. Len(b) \in 1 .. MaxRank
    BY <1>0, <1>2
  <2>2. 1 \in DOMAIN b
    BY <1>3, <2>1
  <2> QED
    BY <1>2, <2>1, <2>2
<1>7. Quotient(<<DCG(r), DCG(b)>>) /\ Quotient(<<ERR(r), ERR(b)>>)
  BY <1>1, <1>2, <1>4, <1>5, <1>6, Quotients
<1> QED
  BY <1>7 DEF r, b

LEMMA MeasuresBelowIdeal == EvalInv => MeasuresBounded
<1> SUFFICES ASSUME EvalInv, pc = "print", NEW s \in DOMAIN Last(measures), IsInjective(ranking[s])
             PROVE  /\ Last(measures)[s].precision <= Cutoff
                    /\ Last(measures)[s].ap <= relCount[s] * Ranks
                    /\ \A q \in {Last(measures)[s].ndcg, Last(measures)[s].nerr,
                                 Last(measures)[s].ndcg_at_k, Last(measures)[s].nerr_at_k} :
                         q[1] <= q[2] /\ q[2] > 0
  BY DEF MeasuresBounded
<1> DEFINE t == topicOf[s]
           run == relevance[s]
           best == DescendingGrades(t)
<1>1. TypeOK /\ LargestJudgment /\ Judged /\ Staged /\ RelevanceRead /\ CountsRead /\ pc # "qrels"
  BY DEF EvalInv, Staged
<1>2. /\ s \in Sessions /\ t \in keys \cap Topics /\ Last(measures)[s] = Measure(s)
      /\ run \in Seq(0 .. 4) /\ Len(run) <= MaxRank /\ relCount[s] \in Nat /\ ideal[s] = best
  BY Measured
<1>3. Cutoff \in Nat /\ Ranks \in Nat
  BY Assumed
<1>4. CASE relCount[s] = 0
  <2>1. Measure(s) = Zeros
    BY <1>4 DEF Measure
  <2>2. Zeros.precision = 0 /\ Zeros.ap = 0
    BY DEF Zeros
  <2>3. \A q \in {Zeros.ndcg, Zeros.nerr, Zeros.ndcg_at_k, Zeros.nerr_at_k} : Quotient(q)
    BY QuotientOfZero DEF Zeros
  <2>4. relCount[s] * Ranks = 0
    BY <1>3, <1>4
  <2> HIDE DEF Zeros
  <2> QED
    BY <1>2, <1>3, <2>1, <2>2, <2>3, <2>4 DEF Quotient
<1>5. CASE relCount[s] # 0
  <2> DEFINE found == JudgedAs(t, 1)
             S == {r \in DOMAIN run : run[r] > 0}
             hits == [k \in DOMAIN run |-> Cardinality({r \in DOMAIN run : r <= k /\ run[r] > 0})]
  <2>1. relCount[s] = Cardinality(found)
    <3>1. relCount[s] = Cardinality({d \in JudgedDocs(t) : rel[t][d] > 0})
      BY <1>1, <1>2 DEF CountsRead
    <3>2. \A d \in JudgedDocs(t) : rel[t][d] > 0 <=> rel[t][d] >= 1
      <4>1. \A d \in JudgedDocs(t) : rel[t][d] \in 0 .. 4
        BY <1>1, <1>2 DEF JudgedDocs, Judged
      <4> QED
        BY <4>1
    <3>3. {d \in JudgedDocs(t) : rel[t][d] > 0} = found
      BY <3>2 DEF JudgedAs
    <3> QED
      BY <3>1, <3>3
  <2>2. Dominates(Padded(best), Padded(run))
    BY <1>1, <1>2, IdealDominates
  <2>3. found # {}
    <3>1. Cardinality({}) = 0
      BY FS_EmptySet
    <3> HIDE DEF found
    <3> QED
      BY <1>5, <2>1, <3>1
  <2>4. Len(best) \in 1 .. MaxRank /\ best[1] >= 1
    BY <1>1, <1>2, <2>3, FirstIsRelevant
  <2>5. best \in Seq(0 .. 4)
    <3>1. PICK o : OrderOf(t, o)
      BY <1>1, <1>2, IdealOrder
    <3> QED
      BY <1>1, <1>2, <3>1, IdealIs
  <2>6. /\ Measure(s).precision = PrecisionAtK(run, Cutoff)
        /\ Measure(s).ap = AveragePrecision(run)
        /\ Measure(s).ndcg = <<DCG(run), DCG(best)>>
        /\ Measure(s).nerr = <<ERR(run), ERR(best)>>
        /\ Measure(s).ndcg_at_k = <<DCG(Cut(run, Cutoff)), DCG(Cut(best, Cutoff))>>
        /\ Measure(s).nerr_at_k = <<ERR(Cut(run, Cutoff)), ERR(Cut(best, Cutoff))>>
    BY <1>2, <1>5 DEF Measure
  <2>7. PrecisionAtK(run, Cutoff) <= Cutoff
    <3>1. PrecisionAtK(run, Cutoff) \in 0 .. Cutoff
      BY <1>2, <1>3, PrecisionCounts
    <3> QED
      BY <1>3, <3>1
  <2>8. AveragePrecision(run) <= relCount[s] * Ranks
    <3>1. S \in SUBSET {r \in DOMAIN run : run[r] >= 1}
      <4>1. \A r \in DOMAIN run : run[r] \in 0 .. 4
        BY <1>2, LenProperties, ElementOfSeq
      <4> QED
        BY <4>1
    <3>2. S = {r \in DOMAIN run : run[r] > 0}
      OBVIOUS
    <3>3. hits = [k \in DOMAIN run |-> Cardinality({r \in DOMAIN run : r <= k /\ run[r] > 0})]
      OBVIOUS
    <3> HIDE DEF S, hits
    <3>4. AveragePrecision(run) <= Cardinality(S) * Ranks
      <4> HIDE DEF run
      <4> QED
        BY <1>2, <3>2, <3>3, AveragePrecisionSums
    <3>5. IsFiniteSet(S) /\ Cardinality(S) <= Cardinality(found)
      BY <1>1, <1>2, <3>1, RunInjects
    <3>6. Cardinality(S) \in Nat
      BY <3>5, FS_CardinalityType
    <3>7. AveragePrecision(run) \in Nat
      <4> HIDE DEF run
      <4> QED
        BY <1>2, <3>2, <3>3, AveragePrecisionSums
    <3>8. Cardinality(S) * Ranks <= relCount[s] * Ranks
      BY <1>2, <1>3, <2>1, <3>5, <3>6, TimesMonotonic
    <3> QED
      BY <1>2, <1>3, <3>4, <3>6, <3>7, <3>8
  <2> HIDE DEF run, best, t, found, S, hits
  <2>9. Quotient(Measure(s).ndcg) /\ Quotient(Measure(s).nerr)
    BY <1>2, <2>2, <2>4, <2>5, <2>6, Quotients
  <2>10. Quotient(Measure(s).ndcg_at_k) /\ Quotient(Measure(s).nerr_at_k)
    BY <1>2, <2>2, <2>4, <2>5, <2>6, CutQuotients
  <2> QED
    BY <1>2, <2>6, <2>7, <2>8, <2>9, <2>10 DEF Quotient
<1> QED
  BY <1>4, <1>5

(* No run is better than the ideal one, unless it lists a document twice,   *)
(* and no quotient is by zero (MeasureEvaluator, whose ideal ranking comes  *)
(* from the judgments of all the documents of the topic): for any topics,   *)
(* documents and grades, any run of at most MaxRank lines, any cutoff and   *)
(* any discount that falls with the rank.                                  *)
THEOREM NoRunBeatsTheIdeal == Spec => []MeasuresBounded
<1> QED
  BY InvHolds, MeasuresBelowIdeal, PTL
=============================================================================
