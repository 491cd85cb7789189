---------------------------- MODULE QueryService ----------------------------
(* What handleQuery promises for one "query" command, threads left out: at *)
(* most one reply, an error exactly when the command is not accepted or    *)
(* its response cannot be sent, else the response of a sequential handler. *)
(* It may also never reply, or take the process down.                      *)
EXTENDS QueryCommands

VARIABLES req,       \* the command
          reply,     \* "none", "results" or "error"
          response,  \* the response that was made, sent or not
          dead       \* the process has ended

vars == <<req, reply, response, dead>>

Empty == [n \in Names |-> NoAnswer]

Init == req \in Requests /\ reply = "none" /\ response = Empty /\ dead = FALSE

Pending == reply = "none" /\ ~dead

Refuse == /\ Pending
          /\ ~Accepts(req)
          /\ reply' = "error"
          /\ UNCHANGED <<req, response, dead>>

Serve == /\ Pending
         /\ Accepts(req)
         /\ Faithful(req, response') /\ Sendable(req, response')
         /\ reply' = "results"
         /\ UNCHANGED <<req, dead>>

(* An accepted command is answered with an error for what it has found.    *)
FailToSend == /\ Pending
              /\ Accepts(req)
              /\ Faithful(req, response') /\ ~Sendable(req, response')
              /\ reply' = "error"
              /\ UNCHANGED <<req, dead>>

Die == /\ Pending
       /\ Accepts(req)
       /\ dead' = TRUE
       /\ UNCHANGED <<req, reply, response>>

Next == Refuse \/ Serve \/ FailToSend \/ Die

Spec == Init /\ [][Next]_vars
=============================================================================
