---------------------------- MODULE MCSessionEval ----------------------------
(* A small instance of SessionEval: two topics, two documents, and runs of   *)
(* at most three lines that list documents of known and unknown sessions,   *)
(* some of them twice.                                                      *)
EXTENDS SessionEval

CONSTANTS s1, s2, d1, d2

MCDiscount   == <<10, 6, 5>>
MCJudgments  == {-2, 2, 3, 4, 9}
AllMappings  == [Sessions -> Topics \cup {NoTopic}]
Hit(s, d)    == [session |-> s, doc |-> d]
SomeRuns     == {<<>>, <<Hit(s1, d1)>>, <<Hit(s1, d1), Hit(s1, d2)>>, <<Hit(s1, d2), Hit(s2, d1)>>,
                 <<Hit(s2, d2), Hit(s1, d1), Hit(s1, d2)>>, <<Hit(s1, d2), Hit(s1, d2), Hit(s1, d1)>>}
OneDuplicate == {{}, {<<s1, d2>>}}
=============================================================================
