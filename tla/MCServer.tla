------------------------------ MODULE MCServer ------------------------------
(* Small instances of Server: the commands TLC starts from, around the      *)
(* first, the last and an unknown document.                                 *)
EXTENDS Server

Plain(op)    == [op |-> op, id |-> Absent, form |-> "other"]
Doc(i, form) == [op |-> "document", id |-> i, form |-> form]
Named(op, i) == [op |-> op, id |-> i, form |-> "other"]

AllCommands ==
  {Plain(op) : op \in {"garbage", "query", "leaderboard"}}
  \cup {Doc(i, "raw") : i \in {Absent, Wrong, 0, 1}} \cup {Doc(1, "bow"), Doc(1, "other")}
  \cup {Named("docid", i) : i \in {Absent, 0, 2}} \cup {Named("submit", i) : i \in {Absent, 1}}
LastDocument == {Named("docid", NDocuments), Doc(NDocuments, "raw")}
=============================================================================
