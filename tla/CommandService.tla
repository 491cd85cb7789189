--------------------------- MODULE CommandService ---------------------------
(* What one connection may count on of the server, commands and replies    *)
(* being known by their numbers: a command gets no more than one reply,    *)
(* replies come in the order of the commands, and none comes from a server *)
(* that has ended.  It is what ClientConnection takes the server for, and  *)
(* what Server is shown to be.                                             *)
EXTENDS Integers

VARIABLES asked,    \* commands sent on the connection
          answered, \* replies written on the connection
          ended     \* the server has ended the connection, or itself

vars == <<asked, answered, ended>>

Init == asked = 0 /\ answered = 0 /\ ended = FALSE

Ask == /\ asked' = asked + 1
       /\ UNCHANGED <<answered, ended>>

(* Replies that have waited for each other are written together.           *)
Answer == /\ ~ended
          /\ answered' \in answered + 1 .. asked
          /\ UNCHANGED <<asked, ended>>

End == /\ ended' = TRUE
       /\ \/ answered' = answered
          \/ ~ended /\ answered' \in answered + 1 .. asked
       /\ UNCHANGED asked

Next == Ask \/ Answer \/ End

Spec == Init /\ [][Next]_vars
=============================================================================
