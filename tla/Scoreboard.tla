----------------------------- MODULE Scoreboard -----------------------------
(* What Leaderboard::submit promises of the table of scores: the table      *)
(* changes by one whole row, at most once for a submission and on behalf of *)
(* the one under way; a score is returned only after it has been stored.  A *)
(* submission may also be refused, fail, or die with the server, before or  *)
(* after its row has changed.                                               *)
CONSTANTS Names,     \* the names of the file of logins
          Runs,      \* the runs that may be submitted
          Pieces,    \* what pieces of some contents may make up
          Score,     \* what the evaluation says of some contents
          NoScore,   \* there is no such line, or no such row
          NoJob,     \* no submission is under way
          Nothing    \* the last submission has returned no scores

VARIABLES scores,     \* the table SCORES
          submitted,  \* the runs that were submitted under each name
          job,        \* the submission under way
          stored,     \* its row has been replaced
          returned    \* what the last submission has returned

vars == <<scores, submitted, job, stored, returned>>

Jobs == [name : Names, run : Runs]

Init == /\ scores = [n \in Names |-> NoScore]
        /\ submitted = [n \in Names |-> {}]
        /\ job = NoJob /\ stored = FALSE
        /\ returned = Nothing

Submit == /\ job = NoJob
          /\ job' \in Jobs
          /\ submitted' = [submitted EXCEPT ![job'.name] = @ \cup {job'.run}]
          /\ returned' = Nothing
          /\ UNCHANGED <<scores, stored>>

(* What was evaluated is a run of the owner, or pieces of the owner's runs *)
(* when a file was cut short, or was read while it was written.            *)
Store == /\ job # NoJob /\ ~stored
         /\ \E c \in Pieces[submitted[job.name]] :
              scores' = [scores EXCEPT ![job.name] = Score[c]]
         /\ stored' = TRUE
         /\ UNCHANGED <<submitted, job, returned>>

Return == /\ stored
          /\ returned' = [name |-> job.name, score |-> scores[job.name]]
          /\ job' = NoJob /\ stored' = FALSE
          /\ UNCHANGED <<scores, submitted>>

(* Refused, failed, or stopped.                                            *)
Abandon == /\ returned' = Nothing
           /\ job' = NoJob /\ stored' = FALSE
           /\ UNCHANGED <<scores, submitted>>

Next == Submit \/ Store \/ Return \/ Abandon

Spec == Init /\ [][Next]_vars
=============================================================================
