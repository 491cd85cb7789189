---------------------------- MODULE QueryCommands ----------------------------
(* The "query" command of the API as handleQuery reads it, and the answer  *)
(* a handler would give that runs its queries one after the other.         *)
(*                                                                         *)
(* A query is its number and what it does to the code that runs it:        *)
(*   plain      Indri finds something                                      *)
(*   operators  its text holds '#' or '.'; refused under a baseline        *)
(*   feedback   it has feedback documents ("feedbackDocno")                *)
(*   failing    Indri throws (a syntax error, say)                         *)
(*   unencodable  Indri finds something, and the number or a passage of    *)
(*              what it finds is not UTF-8, which a text frame has to be   *)
(*   malformed  a field has the wrong JSON type                            *)
EXTENDS Integers, Sequences

CONSTANTS
  Requests,      \* the query commands handleQuery may be called with
  Names,         \* the query numbers, the keys of the JSON response
  NoNumber,      \* the "number" field is absent
  NoResults,     \* an empty list of Indri results
  NoAnswer       \* the JSON response has no such key

Kinds == {"plain", "operators", "feedback", "failing", "unencodable", "malformed"}
Items == [number : Names \cup {NoNumber}, kind : Kinds]
RequestType == [baseline : BOOLEAN, rule : BOOLEAN, fbDocs : BOOLEAN,
                queryOffset : Nat, query : Seq(Items)]

(* Positions in the list start at 0, sequences at 1.                       *)
IndicesOf(r) == 0 .. Len(r.query) - 1
KindOf(r, i) == r.query[i + 1].kind

(* The key an answer is filed under: the "number" of the query, else its   *)
(* position shifted by queryOffset.                                        *)
QueryNumber(r, i) ==
  LET n == r.query[i + 1].number
  IN  IF n = NoNumber THEN r.queryOffset + i ELSE n

ASSUME CommandAssumption ==
  /\ Requests \subseteq RequestType
  /\ \A r \in Requests : \A i \in IndicesOf(r) : QueryNumber(r, i) \in Names
  /\ NoNumber \notin Names
  /\ NoResults \notin Nat /\ NoAnswer \notin Nat /\ NoResults # NoAnswer

(* A baseline with smoothing rules is refused; a query whose fields have   *)
(* the wrong JSON type makes push_queue throw, before any worker exists.   *)
Accepts(r) == /\ ~(r.baseline /\ r.rule)
              /\ \A i \in IndicesOf(r) : KindOf(r, i) # "malformed"

(* work() refuses operators under a baseline before it calls _runQuery;    *)
(* _runQuery runs nothing when there are feedback documents, for there is  *)
(* never an expander.                                                      *)
NotRun(r, i) == \/ KindOf(r, i) = "operators" /\ r.baseline
                \/ KindOf(r, i) = "feedback"

(* The results of query i are its index, or none when Indri throws.        *)
ResultOf(r, i) == IF KindOf(r, i) = "failing" THEN NoResults ELSE i

(* The response of a sequential handler: under each number the results of  *)
(* the last query of that number (a later one overwrites an earlier one),  *)
(* nothing under any other key.  What a query that is not run leaves under *)
(* its number is open.                                                     *)
LastOf(r, n, i) == /\ QueryNumber(r, i) = n
                   /\ \A j \in IndicesOf(r) : QueryNumber(r, j) = n => j <= i
Faithful(r, response) ==
  \A n \in Names :
    /\ \A i \in IndicesOf(r) : LastOf(r, n, i) /\ ~NotRun(r, i) => response[n] = ResultOf(r, i)
    /\ (\A i \in IndicesOf(r) : QueryNumber(r, i) # n) => response[n] = NoAnswer

(* A response that holds what cannot be encoded is refused by websocketpp,  *)
(* whichever query it is the answer to.                                     *)
Sendable(r, response) ==
  \A n \in Names : \A i \in IndicesOf(r) :
    KindOf(r, i) = "unencodable" => response[n] # i
=============================================================================
