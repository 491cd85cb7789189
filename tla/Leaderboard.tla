----------------------------- MODULE Leaderboard -----------------------------
(* indriserver/Leaderboard.cpp: submit() as its steps on the disk, on a     *)
(* child process and on the database, with a signal that may end the server *)
(* between any two of them (main.cpp, stopServer).  The I/O thread runs one *)
(* submission at a time.  std::system waits for its own evaluation, but one *)
(* whose server was stopped goes on, and writes on the same output file as  *)
(* the next one.  leaderboard.php reads the table from a process of its own *)
(* and keeps SQLite from committing while it does.                          *)
(*                                                                         *)
(* A run stands for the contents of a run file; an output file is known by  *)
(* the contents whose result it holds.  A run file is written in pieces     *)
(* and read in pieces, so what is written, or read, may be a beginning of a *)
(* run or be put together from several.                                     *)
EXTENDS Integers, FiniteSets

CONSTANTS
  Names,        \* the names of the file of logins
  Runs,         \* the runs that may be submitted
  Contents,     \* what a run file may hold
  Pieces,       \* what pieces of some contents may make up: Pieces[{r}]
                \* holds r and its beginnings, Pieces[S] mixtures too
  EmptyRun,     \* the contents of an empty file
  Score,        \* what the evaluation says of some contents, in its line "all"
  NoScore,      \* there is no such line, or no such row
  NoJob,        \* no submission is under way
  Nothing,      \* the last submission has returned no scores
  Blank,        \* an output file without a line
  Header,       \* an output file without a line "all"
  DiskMayFill,  \* may a write to a file be cut short?
  MaxStops      \* bound: how often the server is stopped

ASSUME LeaderboardAssumption ==
  /\ Runs \subseteq Contents /\ EmptyRun \in Contents
  /\ Pieces \in [SUBSET Contents -> SUBSET Contents]
  /\ \A S \in SUBSET Contents : S \cup {EmptyRun} \subseteq Pieces[S]
  /\ \A S, T \in SUBSET Contents : S \subseteq Pieces[T] => Pieces[S] \subseteq Pieces[T]
  /\ NoScore \notin {Score[c] : c \in Contents}
  /\ NoJob \notin [name : Names, run : Runs]
  /\ Nothing \notin [name : Names, score : {Score[c] : c \in Contents}]
  /\ Blank \notin Contents /\ Header \notin Contents /\ Blank # Header
  /\ DiskMayFill \in BOOLEAN
  /\ MaxStops \in Nat

VARIABLES
  pc,         \* control point of submit()
  job,        \* its arguments name and run
  all,        \* r_ap["all"]
  code,       \* what std::system returned
  returned,   \* the scores the last submission has returned
  runFile,    \* <name>.run
  outFile,    \* <name>.run.out
  scores,     \* the table SCORES
  evals,      \* the evaluations that are running
  stops,      \* how often the server was stopped
  submitted,  \* history: the runs that were submitted under each name
  spoiled     \* history: the files of the submission under way were cut
              \* short, or shared with an evaluation of a former server

local == <<job, all, code, returned>>
files == <<runFile, outFile>>
ghost == <<submitted, spoiled>>
vars  == <<pc, job, all, code, returned, runFile, outFile, scores, evals, stops,
           submitted, spoiled>>

Scores  == {Score[c] : c \in Contents}
Jobs    == [name : Names, run : Runs]

(* An evaluation is known by the name it is for and the server it was      *)
(* started by; it has begun to read its run file or is about to.           *)
Evaluations == [name : Names, server : 0 .. MaxStops, loaded : BOOLEAN, run : Contents]
Started     == [name |-> job.name, server |-> stops, loaded |-> FALSE, run |-> EmptyRun]
Own(e)      == pc = "waiting" /\ e.server = stops
-----------------------------------------------------------------------------
Init ==
  /\ pc = "idle" /\ job = NoJob /\ all = NoScore /\ code = 0 /\ returned = Nothing
  /\ runFile = [n \in Names |-> EmptyRun] /\ outFile = [n \in Names |-> Blank]
  /\ scores = [n \in Names |-> NoScore]
  /\ evals = {} /\ stops = 0
  /\ submitted = [n \in Names |-> {}] /\ spoiled = FALSE

Move(from, to) == pc = from /\ pc' = to

(* submit() ends with scores or an error, or by an exception, which the    *)
(* dispatcher answers with an error.                                       *)
Leave(result) == /\ job' = NoJob /\ all' = NoScore /\ code' = 0
                 /\ returned' = result

(* An unknown login or a wrong password: nothing is touched.               *)
Refuse == /\ Move("idle", "idle")
          /\ Leave(Nothing)
          /\ UNCHANGED <<files, scores, evals, stops, ghost>>

(* The ofstream truncates the file, and writes the run piece by piece.     *)
OpenRun == /\ Move("idle", "opened")
           /\ job' \in Jobs
           /\ runFile' = [runFile EXCEPT ![job'.name] = EmptyRun]
           /\ submitted' = [submitted EXCEPT ![job'.name] = @ \cup {job'.run}]
           /\ spoiled' = \E e \in evals : e.name = job'.name
           /\ returned' = Nothing
           /\ UNCHANGED <<all, code, outFile, scores, evals, stops>>

WritePart == /\ Move("opened", "opened")
             /\ \E c \in Pieces[{job.run}] :
                  /\ c # runFile[job.name] /\ runFile[job.name] \in Pieces[{c}]
                  /\ runFile' = [runFile EXCEPT ![job.name] = c]
             /\ UNCHANGED <<local, outFile, scores, evals, stops, ghost>>

WriteRun == /\ Move("opened", "written")
            /\ runFile' = [runFile EXCEPT ![job.name] = job.run]
            /\ UNCHANGED <<local, outFile, scores, evals, stops, ghost>>

(* Nobody asks the stream whether it has failed: what was written stays.   *)
WriteRunShort == /\ Move("opened", "written")
                 /\ DiskMayFill
                 /\ spoiled' = TRUE
                 /\ UNCHANGED <<local, files, scores, evals, stops, submitted>>

Evaluate_Appends ==
  /\ Move("written", "waiting")
  /\ evals' = evals \cup {Started}
  /\ UNCHANGED <<local, files, scores, stops, ghost>>

(* The shell truncates the output before it starts the interpreter.        *)
Evaluate == /\ Move("written", "waiting")
            /\ outFile' = [outFile EXCEPT ![job.name] = Blank]
            /\ evals' = evals \cup {Started}
            /\ UNCHANGED <<local, runFile, scores, stops, ghost>>

Load_AnyFile(e) ==
  /\ ~e.loaded
  /\ \E n \in Names : evals' = (evals \ {e}) \cup
                               {[e EXCEPT !.loaded = TRUE, !.run = runFile[n]]}
  /\ UNCHANGED <<pc, local, files, scores, stops, ghost>>

Load(e) == /\ ~e.loaded
           /\ evals' = (evals \ {e}) \cup
                       {[e EXCEPT !.loaded = TRUE, !.run = runFile[e.name]]}
           /\ UNCHANGED <<pc, local, files, scores, stops, ghost>>

(* The file changes under an evaluation that is still reading it.          *)
ReadOn(e) == /\ e.loaded /\ runFile[e.name] # e.run
             /\ \E c \in Pieces[{e.run, runFile[e.name]}] :
                  evals' = (evals \ {e}) \cup {[e EXCEPT !.run = c]}
             /\ UNCHANGED <<pc, local, files, scores, stops, ghost>>

(* An evaluation ends; a server that still waits for it goes on.           *)
Exit(e, c) == /\ e.loaded
              /\ evals' = evals \ {e}
              /\ pc' = IF Own(e) THEN "ended" ELSE pc
              /\ code' = IF Own(e) THEN c ELSE code
              /\ UNCHANGED <<job, all, returned, runFile, scores, stops, submitted>>

(* All lines are written at once, from the first byte of the file on, and  *)
(* "all" is the first of them: another process loses its line to this one. *)
PrintAll(e) == /\ Exit(e, 0)
               /\ outFile' = [outFile EXCEPT ![e.name] = e.run]
               /\ UNCHANGED spoiled

(* The exit code does not tell.  Every output begins with the same header. *)
PrintShort(e) == /\ DiskMayFill
                 /\ Exit(e, 0)
                 /\ outFile' = [outFile EXCEPT ![e.name] = IF @ = Blank THEN Header ELSE @]
                 /\ UNCHANGED spoiled

(* An exception before the first line, exit code 1, or exit(), code 0: for  *)
(* any run, as the other files the evaluation reads decide it too.          *)
PrintNothing(e) == /\ \E c \in {0, 1} : Exit(e, c)
                   /\ UNCHANGED <<outFile, spoiled>>

Evaluation(e) == Load(e) \/ ReadOn(e) \/ PrintAll(e) \/ PrintShort(e) \/ PrintNothing(e)

Fail_Negative ==
  /\ Move("ended", "idle")
  /\ code < 0
  /\ Leave(Nothing)
  /\ UNCHANGED <<files, scores, evals, stops, ghost>>

Fail == /\ Move("ended", "idle")
        /\ code # 0
        /\ Leave(Nothing)
        /\ UNCHANGED <<files, scores, evals, stops, ghost>>

(* The header has three words, and is wrong when all of them are.          *)
BadHeader == /\ Move("ended", "idle")
             /\ code = 0 /\ outFile[job.name] = Blank
             /\ Leave(Nothing)
             /\ UNCHANGED <<files, scores, evals, stops, ghost>>

Parse_Unconverted ==
  /\ Move("ended", "parsed")
  /\ code = 0 /\ outFile[job.name] # Blank
  /\ all' = outFile[job.name]
  /\ UNCHANGED <<job, code, returned, files, scores, evals, stops, ghost>>

Parse == /\ Move("ended", "parsed")
         /\ code = 0 /\ outFile[job.name] # Blank
         /\ all' = IF outFile[job.name] = Header THEN NoScore ELSE Score[outFile[job.name]]
         /\ UNCHANGED <<job, code, returned, files, scores, evals, stops, ghost>>

(* null is not a number, and SQLite does not commit while the page reads,   *)
(* which it may do at any time: both are exceptions.                       *)
NoAll == /\ Move("parsed", "idle")
         /\ all = NoScore
         /\ Leave(Nothing)
         /\ UNCHANGED <<files, scores, evals, stops, ghost>>

Busy_Ignored ==
  /\ Move("parsed", "stored")
  /\ all # NoScore
  /\ UNCHANGED <<local, files, scores, evals, stops, ghost>>

Busy == /\ Move("parsed", "idle")
        /\ all # NoScore
        /\ Leave(Nothing)
        /\ UNCHANGED <<files, scores, evals, stops, ghost>>

Replace == /\ Move("parsed", "stored")
           /\ all # NoScore
           /\ scores' = [scores EXCEPT ![job.name] = all]
           /\ UNCHANGED <<local, files, evals, stops, ghost>>

Return == /\ Move("stored", "idle")
          /\ Leave([name |-> job.name, score |-> all])
          /\ UNCHANGED <<files, scores, evals, stops, ghost>>

Submission == \/ OpenRun \/ WritePart \/ WriteRun \/ WriteRunShort \/ Evaluate
              \/ Fail \/ BadHeader \/ Parse \/ NoAll \/ Busy \/ Replace \/ Return
-----------------------------------------------------------------------------
(* A signal ends the server; what it has started goes on, what it has      *)
(* written stays.                                                          *)
Stop == /\ pc # "down" /\ pc' = "down"
        /\ stops < MaxStops
        /\ stops' = stops + 1
        /\ Leave(Nothing)
        /\ UNCHANGED <<files, scores, evals, ghost>>

(* The constructor: the table is only created when it is not there.        *)
Start == /\ Move("down", "idle")
         /\ UNCHANGED <<local, files, scores, evals, stops, ghost>>

Next == Refuse \/ Submission \/ (\E e \in evals : Evaluation(e)) \/ Stop \/ Start

(* A submission goes on, and so does the evaluation the server waits for.  *)
Fairness == /\ WF_vars(Submission /\ pc # "idle")
            /\ WF_vars(\E e \in evals : Own(e) /\ Evaluation(e))

Spec == Init /\ [][Next]_vars /\ Fairness
-----------------------------------------------------------------------------
TypeOK ==
  /\ pc \in {"down", "idle", "opened", "written", "waiting", "ended", "parsed", "stored"}
  /\ job \in Jobs \cup {NoJob}
  /\ all \in Scores \cup {NoScore} /\ code \in {0, 1}
  /\ returned \in [name : Names, score : Scores] \cup {Nothing}
  /\ runFile \in [Names -> Contents] /\ outFile \in [Names -> Contents \cup {Blank, Header}]
  /\ scores \in [Names -> Scores \cup {NoScore}]
  /\ evals \subseteq Evaluations /\ stops \in 0 .. MaxStops
  /\ submitted \in [Names -> SUBSET Runs] /\ spoiled \in BOOLEAN

(* Whatever is stopped, cut short or shared: the score in the table is that *)
(* of a run of its owner, or of pieces of the runs of its owner.            *)
OwnScore == \A n \in Names : scores[n] # NoScore =>
              \E c \in Pieces[submitted[n]] : scores[n] = Score[c]

(* With files of its own, a submission returns the score of the run it was *)
(* called with, and no other: neither an old output nor an old row.         *)
ScoreOfThisRun == pc \in {"parsed", "stored"} /\ ~spoiled /\ all # NoScore =>
                    /\ all = Score[job.run]
                    /\ runFile[job.name] = job.run

(* Scores are returned only after they are in the table, and the table      *)
(* changes for the submission under way only.                               *)
Board == INSTANCE Scoreboard WITH stored <- pc = "stored"
ImplementsBoard == Board!Spec

(* A submission ends, however its evaluation does.                          *)
SubmissionEnds == (pc = "opened") ~> (pc \in {"idle", "down"})
=============================================================================
