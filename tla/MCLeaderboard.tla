---------------------------- MODULE MCLeaderboard ----------------------------
(* Small instances of Leaderboard: a good run, the half of it that a full    *)
(* disk or a reader in a hurry may be left with, and the empty run, each     *)
(* with a score of its own.                                                  *)
EXTENDS Leaderboard

CONSTANTS good, half, empty

MCScore  == [c \in Contents |-> CASE c = good -> 2 [] c = half -> 1 [] c = empty -> 0]
MCPieces == [S \in SUBSET Contents |->
               S \cup {empty} \cup (IF good \in S THEN {half} ELSE {})]
=============================================================================
