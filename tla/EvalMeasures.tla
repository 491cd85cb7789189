---------------------------- MODULE EvalMeasures ----------------------------
(* The measures of www/docs/session_eval.py (MeasureEvaluator), loop by     *)
(* loop.  A ranking is the sequence of the grades of its documents, 0 for   *)
(* those that are not relevant.  The quotients of the code are numerators   *)
(* over a common denominator: Ranks for the inverse of a rank, 16 for the   *)
(* probabilities of ERR (pow(2, max_grade)); the discount of DCG, of which  *)
(* only the order matters here, is a table.                                 *)
EXTENDS Integers, SequencesExt

CONSTANTS MaxRank,   \* bound: length of a ranking
          Ranks,     \* a multiple of every rank
          Discount   \* one over log(rank + 1, 2), in some unit

ASSUME MeasuresAssumption ==
  /\ MaxRank \in Nat /\ Ranks \in Nat \ {0}
  /\ \A rank \in 1 .. MaxRank : Ranks % rank = 0
  /\ Discount \in [1 .. MaxRank -> Nat \ {0}]
  /\ \A rank \in 2 .. MaxRank : Discount[rank] <= Discount[rank - 1]

MaxGrade == 4

(* ranking[:cutoff]                                                        *)
Cut(ranking, cutoff) == SubSeq(ranking, 1, IF Len(ranking) < cutoff THEN Len(ranking) ELSE cutoff)

Total(terms) == FoldLeft(LAMBDA y, term : y + term, 0, terms)

Binary(rel) == IF rel > 0 THEN 1 ELSE 0

PrecisionAtK(ranking, cutoff) ==
  LET top == Cut(ranking, cutoff) IN Total([rank \in DOMAIN top |-> Binary(top[rank])])

(* cum_relevance[rank - 1] is over the ranks up to this one.               *)
AveragePrecision_OneRankOff(ranking) ==
  Total([rank \in DOMAIN ranking |->
           Binary(ranking[rank]) * PrecisionAtK(ranking, rank - 1) * (Ranks \div rank)])

AveragePrecision(ranking) ==
  Total([rank \in DOMAIN ranking |->
           Binary(ranking[rank]) * PrecisionAtK(ranking, rank) * (Ranks \div rank)])

Gain(rel) == 2 ^ rel - 1

DCG(ranking) == Total([rank \in DOMAIN ranking |-> Gain(ranking[rank]) * Discount[rank]])

(* Over 16 ^ MaxRank: a ranking goes on with documents that are of no use.  *)
Padded(ranking) == [rank \in 1 .. MaxRank |-> IF rank <= Len(ranking) THEN ranking[rank] ELSE 0]
ERR(ranking) ==
  FoldLeft(LAMBDA a, rel : [rank |-> a.rank + 1, down |-> a.down * (2 ^ MaxGrade - Gain(rel)),
                            sum  |-> a.sum * 2 ^ MaxGrade
                                     + a.down * Gain(rel) * (Ranks \div a.rank)],
           [rank |-> 1, down |-> 1, sum |-> 0], Padded(ranking)).sum
=============================================================================
