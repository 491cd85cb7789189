---------------------------- MODULE MCQueryPool ----------------------------
(* Small instances of QueryPool: the query commands TLC starts from.       *)
EXTENDS QueryPool

CONSTANTS MaxQueries,  \* bound: the longest list of queries
          MCKinds      \* the kinds of queries in it

(* Lists with the default numbers, and lists whose first query has the     *)
(* number the second one gets by default.                                  *)
Plain(kinds)  == [k \in DOMAIN kinds |-> [number |-> NoNumber, kind |-> kinds[k]]]
Clash(kinds)  == [k \in DOMAIN kinds |-> [number |-> IF k = 1 THEN 1 ELSE NoNumber,
                                         kind |-> kinds[k]]]
Command(b, r, f, qs) == [baseline |-> b, rule |-> r, fbDocs |-> f,
                         queryOffset |-> 0, query |-> qs]

(* Operators are refused under a baseline only, so no other command needs  *)
(* them; feedback, a failure and a wrong type are left to the plain ones.  *)
(* What cannot be sent matters where it may be overwritten, by a number    *)
(* that clashes, or sent again, under a baseline; two queries do for both. *)
(* With fbDocs no query is run, whatever its kind.                         *)
KindLists(kinds) == {ks \in UNION {[1 .. n -> kinds] : n \in 0 .. MaxQueries} :
                       Len(ks) <= 2 \/ \A k \in DOMAIN ks : ks[k] # "unencodable"}
Lists            == KindLists(MCKinds \ {"operators", "unencodable"})
BaselineLists    == KindLists(MCKinds \cap {"plain", "operators", "unencodable"})
ClashingLists    == KindLists(MCKinds \cap {"plain", "feedback", "unencodable"})

MCNames == 0 .. MaxQueries - 1

PlainCommands    == {Command(FALSE, FALSE, FALSE, Plain(ks)) : ks \in Lists}
BaselineCommands == {Command(TRUE, FALSE, FALSE, Plain(ks)) : ks \in BaselineLists}
ClashingCommands == {Command(FALSE, FALSE, FALSE, Clash(ks)) : ks \in ClashingLists}
FeedbackCommands == {Command(FALSE, FALSE, TRUE, Plain(ks)) : ks \in KindLists({"plain"})}
RefusedCommands  == {Command(TRUE, TRUE, FALSE, Plain(ks)) : ks \in BaselineLists}
AllCommands == UNION {PlainCommands, BaselineCommands, ClashingCommands,
                      FeedbackCommands, RefusedCommands}
=============================================================================
