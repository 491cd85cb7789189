-------------------------- MODULE LeaderboardProofs --------------------------
(* Safety of Leaderboard for every set of names and runs, whatever their    *)
(* evaluations do and however often the server is stopped, proved from      *)
(* LeaderboardAssumption alone.                                             *)
(*                                                                         *)
(* The inductive invariant is Typed, Owned (every file, evaluation and row  *)
(* of a name holds a run of that name, or pieces of its runs) and Unspoiled *)
(* (as long as nothing was cut short or shared, they hold the run of this   *)
(* submission).                                                             *)
EXTENDS Leaderboard, TLAPS

Out == pc \in {"down", "idle"}

(* The server has at most one evaluation of its own, and waits for it.     *)
Waited == /\ \A e \in evals : e.server <= stops
          /\ \A e \in evals : e.server = stops => pc = "waiting" /\ e.name = job.name
          /\ \A e, f \in evals : e.server = stops /\ f.server = stops => e = f

Typed == /\ TypeOK
         /\ Out <=> job = NoJob
         /\ pc \in {"parsed", "stored"} \/ all = NoScore
         /\ pc = "stored" => all # NoScore

Known(n) == Pieces[submitted[n]]
Owned ==
  /\ \A n \in Names : runFile[n] \in Known(n) /\ outFile[n] \in Known(n) \cup {Blank, Header}
  /\ \A e \in evals : e.run \in Known(e.name)
  /\ job # NoJob => job.run \in submitted[job.name]
  /\ all # NoScore => \E c \in Known(job.name) : all = Score[c]

Unspoiled ==
  ~spoiled /\ ~Out =>
    /\ \A e \in evals : e.name = job.name => e.server = stops /\ (e.loaded => e.run = job.run)
    /\ pc # "opened" => runFile[job.name] = job.run
    /\ pc \in {"waiting", "ended"} => outFile[job.name] \in {Blank, Header, job.run}
    /\ all \in {NoScore, Score[job.run]}

Inv == Typed /\ Waited

LEMMA MaxStopsKnown == MaxStops \in Nat
BY LeaderboardAssumption

(* Pieces adds to a set of contents, and adds nothing when done again.     *)
LEMMA PiecesClosed ==
  /\ EmptyRun \in Contents /\ Runs \subseteq Contents
  /\ \A S \in SUBSET Contents : /\ S \subseteq Pieces[S] /\ EmptyRun \in Pieces[S]
                                /\ Pieces[S] \subseteq Contents
  /\ \A S, T \in SUBSET Contents : S \subseteq Pieces[T] => Pieces[S] \subseteq Pieces[T]
BY LeaderboardAssumption

LEMMA TypedInit == Init => Inv
<1> SUFFICES ASSUME Init PROVE Inv
  OBVIOUS
<1>1. /\ job \in Jobs \cup {NoJob} /\ all \in Scores \cup {NoScore}
      /\ runFile \in [Names -> Contents] /\ outFile \in [Names -> Contents \cup {Blank, Header}]
      /\ scores \in [Names -> Scores \cup {NoScore}]
      /\ submitted \in [Names -> SUBSET Runs]
  BY LeaderboardAssumption DEF Init
<1>2. stops \in 0 .. MaxStops
  BY MaxStopsKnown DEF Init
<1>3. TypeOK
  BY <1>1, <1>2 DEF Init, TypeOK
<1> QED
  BY <1>3 DEF Init, Inv, Typed, Waited, Out

LEMMA LeaveTyped ==
  ASSUME NEW result, Leave(result)
  PROVE  job' = NoJob /\ all' = NoScore /\ code' = 0 /\ returned' = result
BY DEF Leave

(* Type correctness, one step for each action.                             *)
LEMMA TypedNext == Inv /\ [Next]_vars => Inv'
<1> SUFFICES ASSUME Inv, [Next]_vars PROVE Inv'
  OBVIOUS
<1> USE LeaderboardAssumption DEF Inv, Typed, Waited, Out, Move, Leave, local, files, ghost
<1>1. CASE Refuse
  BY <1>1 DEF Refuse, TypeOK, Jobs, Scores
<1>2. CASE OpenRun
  BY <1>2 DEF OpenRun, TypeOK, Jobs, Scores
<1>3. CASE WriteRun
  BY <1>3 DEF WriteRun, TypeOK, Jobs, Scores
<1>4. CASE WriteRunShort
  BY <1>4 DEF WriteRunShort, TypeOK, Jobs, Scores
<1>18. CASE WritePart
  <2>1. PICK c \in Pieces[{job.run}] : runFile' = [runFile EXCEPT ![job.name] = c]
    BY <1>18 DEF WritePart
  <2>2. {job.run} \in SUBSET Contents
    BY <1>18, PiecesClosed DEF WritePart, TypeOK, Jobs
  <2>3. c \in Contents
    BY <2>1, <2>2, PiecesClosed
  <2>4. runFile' \in [Names -> Contents]
    BY <2>1, <2>3 DEF TypeOK
  <2> QED
    BY <1>18, <2>4 DEF WritePart, TypeOK, Jobs, Scores
<1>5. CASE Evaluate
  <2>1. Started \in Evaluations
    BY <1>5 DEF Evaluate, Started, Evaluations, TypeOK, Jobs
  <2>2. outFile' \in [Names -> Contents \cup {Blank, Header}]
    BY <1>5 DEF Evaluate, TypeOK
  <2>3. evals' \subseteq Evaluations
    BY <1>5, <2>1 DEF Evaluate, TypeOK
  <2>4. TypeOK'
    <3> USE DEF Evaluate
    <3> HIDE DEF Started
    <3> QED
      BY <1>5, <2>2, <2>3 DEF TypeOK
  <2>5. Started.server = stops /\ Started.name = job.name
    BY DEF Started
  <2>6. stops \in Int
    BY DEF TypeOK
  <2>7. pc' = "waiting" /\ job' = job /\ stops' = stops /\ all' = all /\ pc = "written"
    BY <1>5 DEF Evaluate
  <2>8. Waited'
    <3> HIDE DEF Started
    <3> QED
      BY <1>5, <2>5, <2>6, <2>7 DEF Evaluate
  <2> QED
    BY <2>4, <2>7, <2>8
<1>6. ASSUME NEW e \in evals, Evaluation(e) PROVE Inv'
  <2>0. e \in Evaluations
    BY DEF TypeOK
  <2>1. CASE Load(e)
    <3> DEFINE g == [e EXCEPT !.loaded = TRUE, !.run = runFile[e.name]]
    <3>1. g \in Evaluations /\ g.server = e.server /\ g.name = e.name
      BY <2>0 DEF Evaluations, TypeOK
    <3>2. evals' = (evals \ {e}) \cup {g}
      BY <2>1 DEF Load
    <3> HIDE DEF g
    <3>3. TypeOK'
      BY <2>1, <3>1, <3>2 DEF Load, TypeOK
    <3> QED
      BY <2>1, <3>1, <3>2, <3>3 DEF Load
  <2>6. CASE ReadOn(e)
    <3>1. PICK c \in Pieces[{e.run, runFile[e.name]}] :
             evals' = (evals \ {e}) \cup {[e EXCEPT !.run = c]}
      BY <2>6 DEF ReadOn
    <3> DEFINE g == [e EXCEPT !.run = c]
    <3>2. {e.run, runFile[e.name]} \in SUBSET Contents
      BY <2>0 DEF Evaluations, TypeOK
    <3>3. c \in Contents
      BY <3>1, <3>2, PiecesClosed
    <3>4. g \in Evaluations /\ g.server = e.server /\ g.name = e.name
      BY <2>0, <3>3 DEF Evaluations
    <3>5. evals' = (evals \ {e}) \cup {g}
      BY <3>1
    <3> HIDE DEF g
    <3>6. TypeOK'
      BY <2>6, <3>4, <3>5 DEF ReadOn, TypeOK
    <3> QED
      BY <2>6, <3>4, <3>5, <3>6 DEF ReadOn
  <2>2. ASSUME NEW c \in {0, 1}, Exit(e, c),
               outFile' \in [Names -> Contents \cup {Blank, Header}],
               UNCHANGED spoiled
        PROVE  Inv'
    <3>1. TypeOK'
      BY <2>2 DEF Exit, TypeOK
    <3> QED
      BY <2>2, <3>1 DEF Exit, Own
  <2>3. CASE PrintAll(e)
    BY <2>0, <2>2, <2>3 DEF PrintAll, TypeOK, Evaluations
  <2>4. CASE PrintShort(e)
    BY <2>0, <2>2, <2>4 DEF PrintShort, TypeOK, Evaluations
  <2>5. CASE PrintNothing(e)
    BY <2>0, <2>2, <2>5 DEF PrintNothing, TypeOK, Evaluations
  <2> QED
    BY <1>6, <2>1, <2>3, <2>4, <2>5, <2>6 DEF Evaluation
<1>7. CASE Fail
  BY <1>7 DEF Fail, TypeOK, Jobs, Scores
<1>8. CASE BadHeader
  BY <1>8 DEF BadHeader, TypeOK, Jobs, Scores
<1>9. CASE Parse
  BY <1>9 DEF Parse, TypeOK, Jobs, Scores
<1>10. CASE NoAll
  BY <1>10 DEF NoAll, TypeOK, Jobs, Scores
<1>11. CASE Busy
  BY <1>11 DEF Busy, TypeOK, Jobs, Scores
<1>12. CASE Replace
  BY <1>12 DEF Replace, TypeOK, Jobs, Scores
<1>13. CASE Return
  BY <1>13 DEF Return, TypeOK, Jobs, Scores
<1>14. CASE Stop
  <2>1. stops' \in 0 .. MaxStops
    BY <1>14, MaxStopsKnown DEF Stop, TypeOK
  <2>2. \A e \in evals' : e.server <= stops' /\ e.server # stops'
    <3> SUFFICES ASSUME NEW e \in evals PROVE e.server <= stops + 1 /\ e.server # stops + 1
      BY <1>14 DEF Stop
    <3>1. e \in Evaluations
      BY DEF TypeOK
    <3> QED
      BY <3>1, MaxStopsKnown DEF TypeOK, Evaluations
  <2>3. TypeOK'
    BY <1>14, <2>1 DEF Stop, TypeOK
  <2> QED
    BY <1>14, <2>2, <2>3 DEF Stop
<1>15. CASE Start
  BY <1>15 DEF Start, TypeOK, Jobs, Scores
<1>17. CASE UNCHANGED vars
  BY <1>17 DEF vars, TypeOK, Jobs, Scores
<1> HIDE DEF Inv, Typed, Waited, Out, Move, Leave, local, files, ghost
<1> QED
  BY <1>1, <1>2, <1>3, <1>4, <1>5, <1>6, <1>7, <1>8, <1>9, <1>10, <1>11, <1>12, <1>13,
     <1>14, <1>15, <1>17, <1>18 DEF Next, Submission

(* Every variable of the leaderboard keeps its type.                       *)
THEOREM BoardTypeCorrect == Spec => []TypeOK
<1>1. Inv => TypeOK
  BY DEF Inv, Typed
<1> QED
  BY TypedInit, TypedNext, <1>1, PTL DEF Spec
-----------------------------------------------------------------------------
LEMMA OwnedInit == Init => Owned
<1> SUFFICES ASSUME Init PROVE Owned
  OBVIOUS
<1>1. \A n \in Names : submitted[n] \in SUBSET Contents
  BY DEF Init
<1>2. \A n \in Names : EmptyRun \in Known(n)
  BY <1>1, PiecesClosed DEF Known
<1> QED
  BY <1>2 DEF Init, Owned

(* What pieces of a name's runs make up, more pieces do not leave.         *)
LEMMA KnownClosed ==
  ASSUME TypeOK, NEW n \in Names
  PROVE  /\ EmptyRun \in Known(n) /\ submitted[n] \subseteq Known(n)
         /\ Known(n) \subseteq Contents
         /\ \A S \in SUBSET Contents : S \subseteq Known(n) => Pieces[S] \subseteq Known(n)
<1>1. submitted[n] \in SUBSET Contents
  BY PiecesClosed DEF TypeOK
<1> QED
  BY <1>1, PiecesClosed DEF Known

(* No step mixes the names up.                                             *)
LEMMA OwnedNext == Inv /\ Owned /\ [Next]_vars => Owned'
<1> SUFFICES ASSUME Inv, Owned, [Next]_vars PROVE Owned'
  OBVIOUS
<1> USE LeaderboardAssumption DEF Inv, Typed, Out, Move, local, files, ghost
<1>0. job # NoJob => job.name \in Names /\ job.run \in Runs
  BY DEF TypeOK, Jobs
<1>1. CASE Refuse \/ Fail \/ BadHeader \/ NoAll \/ Busy \/ Return \/ Stop
  BY <1>1 DEF Refuse, Fail, BadHeader, NoAll, Busy, Return, Stop, Leave, Owned, Known
<1>2. CASE OpenRun
  <2>1. job' \in Jobs /\ job'.name \in Names /\ all = NoScore /\ job' # NoJob
    BY <1>2 DEF OpenRun, Jobs
  <2>2. /\ submitted' = [submitted EXCEPT ![job'.name] = @ \cup {job'.run}]
        /\ runFile' = [runFile EXCEPT ![job'.name] = EmptyRun]
        /\ UNCHANGED <<all, outFile, scores, evals>>
    BY <1>2 DEF OpenRun
  <2>3. submitted \in [Names -> SUBSET Runs] /\ runFile \in [Names -> Contents]
    BY DEF TypeOK
  <2>4. ASSUME NEW n \in Names PROVE Known(n) \subseteq Known(n)' /\ EmptyRun \in Known(n)'
    <3>1. /\ submitted[n] \in SUBSET Contents /\ submitted'[n] \in SUBSET Contents
          /\ submitted[n] \subseteq submitted'[n]
      BY <1>0, <2>1, <2>2, <2>3, PiecesClosed DEF Jobs
    <3>2. submitted[n] \subseteq Pieces[submitted'[n]] /\ EmptyRun \in Pieces[submitted'[n]]
      BY <3>1, PiecesClosed
    <3> QED
      BY <3>1, <3>2, PiecesClosed DEF Known
  <2>5. job'.run \in submitted'[job'.name]
    BY <2>1, <2>2, <2>3
  <2>6. \A n \in Names : runFile'[n] \in Known(n)'
    <3> SUFFICES ASSUME NEW n \in Names PROVE runFile'[n] \in Known(n)'
      OBVIOUS
    <3>1. runFile'[n] \in {EmptyRun, runFile[n]}
      BY <2>2, <2>3
    <3> QED
      BY <3>1, <2>4 DEF Owned
  <2>7. \A e \in evals : e.name \in Names
    BY DEF TypeOK, Evaluations
  <2> QED
    BY <2>1, <2>2, <2>4, <2>5, <2>6, <2>7 DEF Owned
<1>3. CASE WriteRun
  <2>1. job # NoJob /\ runFile \in [Names -> Contents]
    BY <1>3 DEF WriteRun, TypeOK
  <2>2. runFile' = [runFile EXCEPT ![job.name] = job.run]
    BY <1>3 DEF WriteRun
  <2>3. job.run \in Known(job.name)
    BY <1>0, <2>1, KnownClosed DEF Owned
  <2>4. \A n \in Names : runFile'[n] \in Known(n)
    BY <1>0, <2>1, <2>2, <2>3 DEF Owned
  <2> QED
    BY <1>3, <2>4 DEF WriteRun, Owned, Known
<1>10. CASE WritePart
  <2>1. job # NoJob /\ runFile \in [Names -> Contents]
    BY <1>10 DEF WritePart, TypeOK
  <2>2. PICK c \in Pieces[{job.run}] : runFile' = [runFile EXCEPT ![job.name] = c]
    BY <1>10 DEF WritePart
  <2>3. {job.run} \in SUBSET Contents /\ {job.run} \subseteq Known(job.name)
    BY <1>0, <2>1, KnownClosed DEF Owned
  <2>4. c \in Known(job.name)
    BY <1>0, <2>1, <2>2, <2>3, KnownClosed
  <2>5. \A n \in Names : runFile'[n] \in Known(n)
    BY <1>0, <2>1, <2>2, <2>4 DEF Owned
  <2> QED
    BY <1>10, <2>5 DEF WritePart, Owned, Known
<1>4. CASE WriteRunShort
  BY <1>4 DEF WriteRunShort, Owned, Known
<1>5. CASE Evaluate
  <2>1. Started.run = EmptyRun
    BY DEF Started
  <2>2. \A n \in Names : outFile'[n] \in {Blank, outFile[n]}
    BY <1>5 DEF Evaluate, TypeOK
  <2>3. evals' = evals \cup {Started} /\ UNCHANGED <<job, all, runFile, scores, submitted>>
    BY <1>5 DEF Evaluate
  <2>4. EmptyRun \in Known(Started.name)
    BY <1>0, <1>5, KnownClosed DEF Evaluate, Started
  <2> HIDE DEF Started
  <2> QED
    BY <2>1, <2>2, <2>3, <2>4 DEF Owned, Known
<1>6. ASSUME NEW e \in evals, Evaluation(e) PROVE Owned'
  <2>0. e \in Evaluations /\ e.name \in Names
    BY DEF TypeOK, Evaluations
  <2>1. CASE Load(e)
    <3> DEFINE g == [e EXCEPT !.loaded = TRUE, !.run = runFile[e.name]]
    <3>1. g.run = runFile[e.name] /\ g.name = e.name
      BY <2>0 DEF Evaluations
    <3>2. evals' = (evals \ {e}) \cup {g}
      BY <2>1 DEF Load
    <3> HIDE DEF g
    <3>3. UNCHANGED <<job, all, runFile, outFile, scores, submitted>>
      BY <2>1 DEF Load
    <3> QED
      BY <2>0, <3>1, <3>2, <3>3 DEF Owned, Known
  <2>6. CASE ReadOn(e)
    <3>1. PICK c \in Pieces[{e.run, runFile[e.name]}] :
             evals' = (evals \ {e}) \cup {[e EXCEPT !.run = c]}
      BY <2>6 DEF ReadOn
    <3> DEFINE g == [e EXCEPT !.run = c]
    <3>2. g.run = c /\ g.name = e.name
      BY <2>0 DEF Evaluations
    <3>3. {e.run, runFile[e.name]} \subseteq Known(e.name)
      BY <2>0 DEF Owned
    <3>4. c \in Known(e.name)
      BY <2>0, <3>1, <3>3, KnownClosed
    <3>5. evals' = (evals \ {e}) \cup {g}
      BY <3>1
    <3> HIDE DEF g
    <3>6. UNCHANGED <<job, all, runFile, outFile, scores, submitted>>
      BY <2>6 DEF ReadOn
    <3> QED
      BY <2>0, <3>2, <3>4, <3>5, <3>6 DEF Owned, Known
  <2>2. ASSUME NEW c, Exit(e, c), UNCHANGED spoiled,
               \A n \in Names : outFile'[n] \in {outFile[n], Header, Blank}
                                \/ (n = e.name /\ outFile'[n] = e.run)
        PROVE  Owned'
    <3>1. evals' \subseteq evals /\ UNCHANGED <<job, all, runFile, scores, submitted>>
      BY <2>2 DEF Exit
    <3> QED
      BY <2>2, <3>1 DEF Owned, Known
  <2>3. CASE PrintAll(e)
    BY <2>0, <2>2, <2>3 DEF PrintAll, TypeOK
  <2>4. CASE PrintShort(e)
    BY <2>0, <2>2, <2>4 DEF PrintShort, TypeOK
  <2>5. CASE PrintNothing(e)
    BY <2>0, <2>2, <2>5 DEF PrintNothing, TypeOK
  <2> QED
    BY <1>6, <2>1, <2>3, <2>4, <2>5, <2>6 DEF Evaluation
<1>7. CASE Parse
  <2>1. job # NoJob /\ outFile[job.name] \in Known(job.name) \cup {Header}
    BY <1>0, <1>7 DEF Parse, Owned
  <2>2. all' # NoScore => \E c \in Known(job.name) : all' = Score[c]
    BY <1>7, <2>1 DEF Parse
  <2> QED
    BY <1>7, <2>2 DEF Parse, Owned, Known
<1>8. CASE Replace
  BY <1>8 DEF Replace, Owned, Known
<1>9. CASE Start \/ UNCHANGED vars
  BY <1>9 DEF Start, vars, Owned, Known
<1> HIDE DEF Inv, Typed, Out, Move, local, files, ghost
<1> QED
  BY <1>1, <1>2, <1>3, <1>4, <1>5, <1>6, <1>7, <1>8, <1>9, <1>10 DEF Next, Submission

(* The rows hold what the evaluation said of files of their owner.         *)
LEMMA ScoresOwned == Inv /\ Owned /\ OwnScore /\ [Next]_vars => OwnScore'
<1> SUFFICES ASSUME Inv, Owned, OwnScore, [Next]_vars PROVE OwnScore'
  OBVIOUS
<1>1. CASE Replace
  <2>1. /\ scores' = [scores EXCEPT ![job.name] = all] /\ submitted' = submitted
        /\ all # NoScore /\ scores \in [Names -> Scores \cup {NoScore}]
    BY <1>1 DEF Replace, ghost, Inv, Typed, TypeOK
  <2>2. \E c \in Pieces[submitted[job.name]] : all = Score[c]
    BY <2>1 DEF Owned, Known
  <2> QED
    BY <2>1, <2>2 DEF OwnScore
<1>2. CASE OpenRun
  <2>1. /\ submitted' = [submitted EXCEPT ![job'.name] = @ \cup {job'.run}]
        /\ submitted \in [Names -> SUBSET Runs] /\ scores' = scores
    BY <1>2 DEF OpenRun, Inv, Typed, TypeOK
  <2>2. \A n \in Names : Pieces[submitted[n]] \subseteq Pieces[submitted'[n]]
    <3> SUFFICES ASSUME NEW n \in Names
                 PROVE  Pieces[submitted[n]] \subseteq Pieces[submitted'[n]]
      OBVIOUS
    <3>1. submitted'[n] \in SUBSET Runs
      BY <1>2, TypedNext DEF Inv, Typed, TypeOK
    <3>2. /\ submitted[n] \in SUBSET Contents /\ submitted'[n] \in SUBSET Contents
          /\ submitted[n] \subseteq submitted'[n]
      BY <2>1, <3>1, PiecesClosed
    <3> QED
      BY <3>2, PiecesClosed
  <2> QED
    BY <2>1, <2>2 DEF OwnScore
<1>3. ASSUME ~Replace, ~OpenRun PROVE UNCHANGED <<scores, submitted>>
  BY <1>3 DEF Next, Submission, vars, Refuse, WritePart, WriteRun, WriteRunShort, Evaluate,
     Evaluation, Load, ReadOn, PrintAll, PrintShort, PrintNothing, Exit, Fail, BadHeader, Parse, NoAll, Busy, Return,
     Stop, Start, ghost
<1> QED
  BY <1>1, <1>2, <1>3 DEF OwnScore

(* The score in the table is that of a run of its owner, or of what pieces  *)
(* of the owner's runs make up, whatever is cut short or read too early,    *)
(* and however often the server is stopped in between.                      *)
THEOREM RowsAreOwned == Spec => []OwnScore
<1>1. Init => OwnScore
  BY DEF Init, OwnScore
<1> QED
  BY TypedInit, TypedNext, OwnedInit, OwnedNext, ScoresOwned, <1>1, PTL DEF Spec
-----------------------------------------------------------------------------
(* The files of a submission that nobody shares hold its run.              *)
LEMMA UnspoiledNext == Inv /\ Unspoiled /\ [Next]_vars => Unspoiled'
<1> SUFFICES ASSUME Inv, Unspoiled, [Next]_vars PROVE Unspoiled'
  OBVIOUS
<1> USE LeaderboardAssumption DEF Inv, Typed, Out, Move, local, files, ghost
<1>0. job # NoJob => job.name \in Names /\ job.run \in Runs
  BY DEF TypeOK, Jobs
<1>1. CASE Refuse \/ Fail \/ BadHeader \/ NoAll \/ Busy \/ Return \/ Stop \/ Start
  BY <1>1 DEF Refuse, Fail, BadHeader, NoAll, Busy, Return, Stop, Start, Unspoiled
<1>2. CASE OpenRun
  BY <1>2 DEF OpenRun, Unspoiled
<1>3. CASE WriteRun
  <2>1. runFile'[job.name] = job.run
    BY <1>0, <1>3 DEF WriteRun, TypeOK
  <2> QED
    BY <1>3, <2>1 DEF WriteRun, Unspoiled
<1>4. CASE WriteRunShort \/ WritePart
  BY <1>4 DEF WriteRunShort, WritePart, Unspoiled
<1>5. CASE Evaluate
  <2>1. Started.server = stops /\ ~Started.loaded
    BY DEF Started
  <2>2. outFile'[job.name] = Blank
    BY <1>0, <1>5 DEF Evaluate, TypeOK
  <2>3. /\ evals' = evals \cup {Started} /\ pc = "written" /\ pc' = "waiting"
        /\ UNCHANGED <<job, all, runFile, stops, spoiled>>
    BY <1>5 DEF Evaluate
  <2> HIDE DEF Started
  <2> QED
    BY <2>1, <2>2, <2>3 DEF Unspoiled
<1>6. ASSUME NEW e \in evals, Evaluation(e) PROVE Unspoiled'
  <2>0. e \in Evaluations /\ e.name \in Names
    BY DEF TypeOK, Evaluations
  <2>1. CASE Load(e)
    <3> DEFINE g == [e EXCEPT !.loaded = TRUE, !.run = runFile[e.name]]
    <3>1. g.run = runFile[e.name] /\ g.name = e.name /\ g.server = e.server
      BY <2>0 DEF Evaluations
    <3>2. evals' = (evals \ {e}) \cup {g}
      BY <2>1 DEF Load
    <3> HIDE DEF g
    <3>3. UNCHANGED <<pc, job, all, runFile, outFile, stops, spoiled>>
      BY <2>1 DEF Load
    <3>4. ASSUME ~spoiled, ~Out, e.name = job.name PROVE g.server = stops /\ g.run = job.run
      <4>1. e.server = stops /\ pc = "waiting"
        BY <3>4 DEF Unspoiled, Waited
      <4> QED
        BY <3>1, <3>4, <4>1 DEF Unspoiled
    <3> QED
      BY <3>1, <3>2, <3>3, <3>4 DEF Unspoiled
  <2>6. CASE ReadOn(e)
    <3>1. PICK c : evals' = (evals \ {e}) \cup {[e EXCEPT !.run = c]}
      BY <2>6 DEF ReadOn
    <3> DEFINE g == [e EXCEPT !.run = c]
    <3>2. g.name = e.name
      BY <2>0 DEF Evaluations
    <3>3. evals' = (evals \ {e}) \cup {g}
      BY <3>1
    <3> HIDE DEF g
    <3>4. /\ UNCHANGED <<pc, job, all, runFile, outFile, stops, spoiled>>
          /\ e.loaded /\ runFile[e.name] # e.run
      BY <2>6 DEF ReadOn
    <3>5. ASSUME ~spoiled, ~Out PROVE e.name # job.name
      <4> SUFFICES ASSUME e.name = job.name PROVE FALSE
        OBVIOUS
      <4>1. e.server = stops /\ e.run = job.run /\ pc = "waiting"
        BY <3>4, <3>5 DEF Unspoiled, Waited
      <4>2. runFile[job.name] = job.run
        BY <3>5, <4>1 DEF Unspoiled
      <4> QED
        BY <3>4, <4>1, <4>2
    <3> QED
      BY <3>2, <3>3, <3>4, <3>5 DEF Unspoiled
  <2>2. ASSUME NEW c, Exit(e, c), UNCHANGED spoiled,
               \A n \in Names : outFile'[n] \in {outFile[n], Header, Blank}
                                \/ (n = e.name /\ outFile'[n] = e.run)
        PROVE  Unspoiled'
    <3>1. evals' = evals \ {e} /\ UNCHANGED <<job, all, runFile, stops>> /\ e.loaded
      BY <2>2 DEF Exit
    <3>2. pc' = IF Own(e) THEN "ended" ELSE pc
      BY <2>2 DEF Exit
    <3> SUFFICES ASSUME ~spoiled, ~(pc' \in {"down", "idle"})
                 PROVE  /\ \A f \in evals' : f.name = job.name =>
                              f.server = stops /\ (f.loaded => f.run = job.run)
                        /\ pc' # "opened" => runFile[job.name] = job.run
                        /\ pc' \in {"waiting", "ended"} =>
                             outFile'[job.name] \in {Blank, Header, job.run}
                        /\ all \in {NoScore, Score[job.run]}
      BY <2>2, <3>1 DEF Unspoiled
    <3>3. ~Out /\ job # NoJob
      BY <3>2 DEF Own
    <3>4. pc' \in {"waiting", "ended"} => outFile[job.name] \in {Blank, Header, job.run}
      BY <3>2, <3>3 DEF Unspoiled, Own
    <3>5. e.name = job.name => e.run = job.run
      BY <3>1, <3>3 DEF Unspoiled
    <3>6. pc' \in {"waiting", "ended"} => outFile'[job.name] \in {Blank, Header, job.run}
      BY <1>0, <2>2, <3>3, <3>4, <3>5
    <3> QED
      BY <3>1, <3>2, <3>3, <3>6 DEF Unspoiled, Own
  <2>3. CASE PrintAll(e)
    BY <2>0, <2>2, <2>3 DEF PrintAll, TypeOK
  <2>4. CASE PrintShort(e)
    BY <2>0, <2>2, <2>4 DEF PrintShort, TypeOK
  <2>5. CASE PrintNothing(e)
    BY <2>0, <2>2, <2>5 DEF PrintNothing, TypeOK
  <2> QED
    BY <1>6, <2>1, <2>3, <2>4, <2>5, <2>6 DEF Evaluation
<1>7. CASE Parse
  BY <1>7 DEF Parse, Unspoiled
<1>8. CASE Replace
  BY <1>8 DEF Replace, Unspoiled
<1>9. CASE UNCHANGED vars
  BY <1>9 DEF vars, Unspoiled
<1> HIDE DEF Inv, Typed, Out, Move, local, files, ghost
<1> QED
  BY <1>1, <1>2, <1>3, <1>4, <1>5, <1>6, <1>7, <1>8, <1>9 DEF Next, Submission

(* A submission that has its files to itself returns the score of the run   *)
(* it was called with: no output and no row of another one.                 *)
THEOREM ScoresAreOfTheRun == Spec => []ScoreOfThisRun
<1>1. Init => Unspoiled
  BY DEF Init, Unspoiled, Out
<1>2. Inv /\ Unspoiled => ScoreOfThisRun
  BY DEF Inv, Typed, Unspoiled, ScoreOfThisRun, Out
<1> QED
  BY TypedInit, TypedNext, UnspoiledNext, <1>1, <1>2, PTL DEF Spec
-----------------------------------------------------------------------------
LEMMA BoardInit == Init => Board!Init
BY DEF Init, Board!Init

(* Opening the run file is Submit, replacing the row is Store, leaving with *)
(* scores is Return, leaving without them and stopping are Abandon.         *)
LEMMA BoardNext ==
  Inv /\ Owned /\ OwnScore /\ (pc = "stored" => scores[job.name] = all) /\ [Next]_vars
    => [Board!Next]_Board!vars
<1> SUFFICES ASSUME Inv, Owned, pc = "stored" => scores[job.name] = all, [Next]_vars
             PROVE  [Board!Next]_Board!vars
  OBVIOUS
<1> USE DEF Move, local, files, ghost, Board!vars
<1>1. CASE Refuse \/ Fail \/ BadHeader \/ NoAll \/ Busy \/ Stop
  <2>1. Board!Abandon
    BY <1>1 DEF Refuse, Fail, BadHeader, NoAll, Busy, Stop, Leave, Board!Abandon
  <2> QED
    BY <2>1 DEF Board!Next
<1>2. CASE OpenRun
  <2>1. job = NoJob
    BY <1>2 DEF OpenRun, Inv, Typed, Out
  <2>2. Board!Submit
    BY <1>2, <2>1 DEF OpenRun, Board!Submit, Jobs, Board!Jobs
  <2> QED
    BY <2>2 DEF Board!Next
<1>3. CASE Replace
  <2>1. job # NoJob /\ all # NoScore
    BY <1>3 DEF Replace, Inv, Typed, Out
  <2>2. \E c \in Pieces[submitted[job.name]] : all = Score[c]
    BY <2>1 DEF Owned, Known
  <2>3. Board!Store
    BY <1>3, <2>1, <2>2 DEF Replace, Board!Store
  <2> QED
    BY <2>3 DEF Board!Next
<1>4. CASE Return
  <2>1. Board!Return
    BY <1>4 DEF Return, Leave, Board!Return
  <2> QED
    BY <2>1 DEF Board!Next
<1>5. CASE \/ WritePart \/ WriteRun \/ WriteRunShort \/ Evaluate \/ Parse \/ Start
           \/ UNCHANGED vars
  BY <1>5 DEF WritePart, WriteRun, WriteRunShort, Evaluate, Parse, Start, vars
<1>6. ASSUME NEW e \in evals, Evaluation(e) PROVE UNCHANGED Board!vars
  BY <1>6 DEF Evaluation, Load, ReadOn, PrintAll, PrintShort, PrintNothing, Exit, Own
<1> HIDE DEF Board!vars
<1> QED
  BY <1>1, <1>2, <1>3, <1>4, <1>5, <1>6 DEF Next, Submission

(* Between the replacement of the row and the reply, the row is the reply. *)
Replaced == pc = "stored" => scores[job.name] = all

LEMMA ReplacedNext == Inv /\ Replaced /\ [Next]_vars => Replaced'
<1> SUFFICES ASSUME Inv, Replaced, [Next]_vars PROVE Replaced'
  OBVIOUS
<1> USE DEF Move, local, files, ghost
<1>1. CASE Replace
  <2>1. job.name \in Names /\ scores \in [Names -> Scores \cup {NoScore}]
    BY <1>1 DEF Replace, Inv, Typed, TypeOK, Out, Jobs
  <2> QED
    BY <1>1, <2>1 DEF Replace, Replaced
<1>2. ASSUME ~Replace, pc' = "stored" PROVE UNCHANGED <<pc, scores, job, all>>
  BY <1>2 DEF Next, Submission, vars, Refuse, OpenRun, WritePart, WriteRun, WriteRunShort,
     Evaluate, Evaluation, Load, ReadOn, PrintAll, PrintShort, PrintNothing, Exit, Own, Fail, BadHeader, Parse, NoAll,
     Busy, Return, Stop, Start
<1> QED
  BY <1>1, <1>2 DEF Replaced

(* submit(), with its files, processes and failures, implements the table   *)
(* of scores: one row at a time, and no score returned before it is stored. *)
THEOREM LeaderboardImplementsBoard == Spec => ImplementsBoard
<1>1. Init => OwnScore /\ Replaced
  BY DEF Init, OwnScore, Replaced
<1>2. Inv /\ Owned /\ OwnScore /\ Replaced /\ [Next]_vars => [Board!Next]_Board!vars
  BY BoardNext DEF Replaced
<1> QED
  BY TypedInit, TypedNext, OwnedInit, OwnedNext, ScoresOwned, ReplacedNext, BoardInit,
     <1>1, <1>2, PTL DEF Spec, ImplementsBoard, Board!Spec
=============================================================================
