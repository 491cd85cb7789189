----------------------------- MODULE SessionEval -----------------------------
(* www/docs/session_eval.py and session_eval_main.py: the evaluation that   *)
(* Leaderboard::submit starts, and that participants run on a directory of  *)
(* runs.  One action for each file it reads and each pass over its          *)
(* dictionaries; the qrels are read line by line, as the judgment that is   *)
(* kept depends on it.  It ends by reaching the end, by an exception (exit  *)
(* code 1) or by exit() (exit code 0).                                      *)
(*                                                                         *)
(* Lines are known by what is taken from them; a line that is too short, or *)
(* holds no number where one is expected, raises an exception.  A session   *)
(* or a topic without an entry in a dictionary is where the code's          *)
(* defaultdicts add one.                                                    *)
EXTENDS EvalMeasures

CONSTANTS
  Topics, Docs,  \* identifiers
  NoTopic,       \* the topic of a session without one: int()
  Sessions,      \* identifiers of sessions; those in NotNumbers are no
  NotNumbers,    \*   numbers
  Judgments,     \* what the last column of the qrels may hold
  Unjudged,      \* there is no entry for a topic and a document
  Mappings,      \* contents of the file of sessions: topic of a session
  RunFiles,      \* contents of a run: sequences of a session and a document
  Duplicates,    \* contents of the file of duplicates, {} without one
  Cutoff,        \* --cutoff
  GoalTypes,     \* may --goal_type be given?
  MaxLines,      \* bound: lines of the qrels
  MaxRuns        \* bound: runs in a directory, 1 for a single file

ASSUME EvalAssumption ==
  /\ Judgments \subseteq Int /\ Unjudged \notin Int
  /\ NoTopic \notin Topics
  /\ NotNumbers \subseteq Sessions
  /\ Mappings \subseteq [Sessions -> Topics \cup {NoTopic}]
  /\ RunFiles \subseteq Seq([session : Sessions, doc : Docs])
  /\ Duplicates \subseteq SUBSET (Sessions \X Docs)
  /\ Cutoff \in Nat \ {0}
  /\ GoalTypes \subseteq BOOLEAN
  /\ MaxLines \in 0 .. MaxRank /\ MaxRuns \in Nat \ {0}
  /\ \A run \in RunFiles : Len(run) <= MaxRank

VARIABLES
  pc,         \* the stage of main()
  result,     \* "running", "scored", "fails" or "silent"
  goal,       \* a goal type was given
  judged,     \* history: the lines of the qrels
  malformed,  \* history: a line could not be read, or no session can be
  rel,        \* rel_judgments, first judgments and then grades
  keys,       \* its topics
  topicOf,    \* session_topic
  ranking,    \* ranking_docs
  relevance,  \* ranking_rel
  relCount,   \* relevance_counts[session]['rel']
  ideal,      \* ideal_ranking
  measures,   \* the measures of each run
  output      \* lines on the standard output

inputs == <<goal, judged, malformed>>
vars   == <<pc, result, goal, judged, malformed, rel, keys, topicOf, ranking, relevance,
            relCount, ideal, measures, output>>

(* mapping, of main().                                                     *)
Mapped  == {-2, 0, 1, 4, 2, 3}
Mapping == [j \in Mapped |-> CASE j \in {-2, 0} -> 0 [] j = 1 -> 1 [] j = 4 -> 2
                               [] j = 2 -> 3 [] j = 3 -> 4]
Grades  == {Mapping[j] : j \in Mapped}

Line      == [topic : Topics, doc : Docs, judgment : Judgments]
NoCount   == -1
NoRanking == [s \in Sessions |-> <<>>]
-----------------------------------------------------------------------------
Init ==
  /\ pc = "qrels" /\ result = "running"
  /\ goal \in GoalTypes /\ judged = <<>> /\ malformed = FALSE
  /\ rel = [t \in Topics \cup {NoTopic} |-> [d \in Docs |-> Unjudged]] /\ keys = {}
  /\ topicOf = [s \in Sessions |-> NoTopic]
  /\ ranking = NoRanking /\ relevance = NoRanking
  /\ relCount = [s \in Sessions |-> NoCount] /\ ideal = [s \in {} |-> <<>>]
  /\ measures = <<>> /\ output = {}

At(stage) == result = "running" /\ pc = stage
Stage(from, to) == At(from) /\ pc' = to /\ UNCHANGED result

(* An exception: what is printed stays printed.                            *)
Raise(stage) == At(stage) /\ pc' = stage /\ result' = "fails"

(* A line that cannot be read, of any of the files.                        *)
Malformed == /\ \E stage \in {"qrels", "mapping", "ranking"} : Raise(stage)
             /\ malformed' = TRUE
             /\ UNCHANGED <<goal, judged, rel, keys, topicOf, ranking, relevance, relCount, ideal,
                            measures, output>>

ReadQrel_Last ==
  /\ Stage("qrels", "qrels") /\ Len(judged) < MaxLines
  /\ \E line \in Line :
       /\ judged' = Append(judged, line)
       /\ keys' = keys \cup {line.topic}
       /\ rel' = [rel EXCEPT ![line.topic][line.doc] = line.judgment]
  /\ UNCHANGED <<goal, malformed, topicOf, ranking, relevance, relCount, ideal, measures, output>>

(* Another judgment of the document only counts when it is no smaller.     *)
Smaller(line) == LET old == rel[line.topic][line.doc] IN old # Unjudged /\ old > line.judgment
ReadQrel ==
  /\ Stage("qrels", "qrels") /\ Len(judged) < MaxLines
  /\ \E line \in Line :
       /\ judged' = Append(judged, line)
       /\ keys' = keys \cup {line.topic}
       /\ rel' = IF Smaller(line) THEN rel
                 ELSE [rel EXCEPT ![line.topic][line.doc] = line.judgment]
  /\ UNCHANGED <<goal, malformed, topicOf, ranking, relevance, relCount, ideal, measures, output>>

AllMapped == \A t \in keys, d \in Docs : rel[t][d] \in Mapped \cup {Unjudged}

MapJudgments ==
  /\ Stage("qrels", "mapping") /\ AllMapped
  /\ rel' = [t \in Topics \cup {NoTopic} |-> [d \in Docs |->
               IF rel[t][d] = Unjudged THEN Unjudged ELSE Mapping[rel[t][d]]]]
  /\ UNCHANGED <<inputs, keys, topicOf, ranking, relevance, relCount, ideal, measures, output>>

(* exit(), without an argument, is a success.                              *)
NotMapped ==
  /\ At("qrels") /\ ~AllMapped
  /\ pc' = pc /\ result' = "silent"
  /\ UNCHANGED <<inputs, rel, keys, topicOf, ranking, relevance, relCount, ideal, measures, output>>

MapSessions ==
  /\ Stage("mapping", "ranking")
  /\ topicOf' \in IF measures = <<>> THEN Mappings ELSE {topicOf}
  /\ UNCHANGED <<inputs, rel, keys, ranking, relevance, relCount, ideal, measures, output>>

ReadRanking_WrongColumn ==
  /\ Stage("ranking", "relevance")
  /\ \E run \in RunFiles :
       ranking' = [s \in Sessions |->
         FoldLeft(LAMBDA docs, line : IF line.session = s /\ ~goal THEN Append(docs, line.session)
                                      ELSE docs, <<>>, run)]
  /\ UNCHANGED <<inputs, rel, keys, topicOf, relevance, relCount, ideal, measures, output>>

(* With a goal type no session passes: session_goal is never filled.       *)
ReadRanking ==
  /\ Stage("ranking", "relevance")
  /\ \E run \in RunFiles :
       ranking' = [s \in Sessions |->
         FoldLeft(LAMBDA docs, line : IF line.session = s /\ ~goal THEN Append(docs, line.doc)
                                      ELSE docs, <<>>, run)]
  /\ UNCHANGED <<inputs, rel, keys, topicOf, relevance, relCount, ideal, measures, output>>

Ranked == {s \in Sessions : ranking[s] # <<>>}

MapRelevance_NoKeys ==
  /\ Stage("relevance", "ideal")
  /\ \E dup \in Duplicates :
       relevance' = [s \in Sessions |-> [k \in DOMAIN ranking[s] |->
         LET grade == rel[topicOf[s]][ranking[s][k]]
         IN  IF grade = Unjudged \/ <<s, ranking[s][k]>> \in dup THEN 0 ELSE grade]]
  /\ UNCHANGED <<inputs, rel, keys, topicOf, ranking, relCount, ideal, measures, output>>

(* Looking a topic up adds it to the judgments.                            *)
MapRelevance ==
  /\ Stage("relevance", "ideal")
  /\ \E dup \in Duplicates :
       relevance' = [s \in Sessions |-> [k \in DOMAIN ranking[s] |->
         LET grade == rel[topicOf[s]][ranking[s][k]]
         IN  IF grade = Unjudged \/ <<s, ranking[s][k]>> \in dup THEN 0 ELSE grade]]
  /\ keys' = keys \cup {topicOf[s] : s \in Ranked}
  /\ UNCHANGED <<inputs, rel, topicOf, ranking, relCount, ideal, measures, output>>

(* The evaluator's own session_topic has the sessions of the file only.    *)
MappedSessions == {s \in Sessions : topicOf[s] # NoTopic}
JudgedDocs(t) == {d \in Docs : rel[t][d] # Unjudged}
Descending(grades) ==
  \A j, k \in DOMAIN grades : j < k => grades[j] >= grades[k]
DescendingGrades(t) ==
  LET docs  == JudgedDocs(t)
      order == CHOOSE o \in [1 .. Cardinality(docs) -> docs] :
                 IsInjective(o) /\ Descending([k \in DOMAIN o |-> rel[t][o[k]]])
  IN  [k \in DOMAIN order |-> rel[t][order[k]]]
UnsortedGrades(t) ==
  LET docs == SetToSeq(JudgedDocs(t)) IN [k \in DOMAIN docs |-> rel[t][docs[k]]]

GenerateIdealRanking_Unsorted ==
  /\ Stage("ideal", "counts")
  /\ ideal' = [s \in IF goal THEN {} ELSE MappedSessions |-> UnsortedGrades(topicOf[s])]
  /\ UNCHANGED <<inputs, rel, keys, topicOf, ranking, relevance, relCount, measures, output>>

GenerateIdealRanking ==
  /\ Stage("ideal", "counts")
  /\ ideal' = [s \in IF goal THEN {} ELSE MappedSessions |-> DescendingGrades(topicOf[s])]
  /\ UNCHANGED <<inputs, rel, keys, topicOf, ranking, relevance, relCount, measures, output>>

(* The counts of a topic that is not in the judgments are an empty         *)
(* dictionary.                                                             *)
GenerateRelevanceCounts ==
  /\ Stage("counts", "measures")
  /\ relCount' = [s \in Sessions |->
       IF topicOf[s] \in keys \cap Topics
         THEN Cardinality({d \in JudgedDocs(topicOf[s]) : rel[topicOf[s]][d] > 0})
         ELSE NoCount]
  /\ UNCHANGED <<inputs, rel, keys, topicOf, ranking, relevance, ideal, measures, output>>

Zeros == [precision |-> 0, ap |-> 0, ndcg |-> <<0, 1>>, nerr |-> <<0, 1>>,
          ndcg_at_k |-> <<0, 1>>, nerr_at_k |-> <<0, 1>>]

(* A measure that is a quotient is a pair: of a ranking and of the ideal.  *)
Measure(s) ==
  IF relCount[s] = 0 THEN Zeros
  ELSE [precision |-> PrecisionAtK(relevance[s], Cutoff),
        ap   |-> AveragePrecision(relevance[s]),
        ndcg |-> <<DCG(relevance[s]), DCG(ideal[s])>>,
        nerr |-> <<ERR(relevance[s]), ERR(ideal[s])>>,
        ndcg_at_k |-> <<DCG(Cut(relevance[s], Cutoff)), DCG(Cut(ideal[s], Cutoff))>>,
        nerr_at_k |-> <<ERR(Cut(relevance[s], Cutoff)), ERR(Cut(ideal[s], Cutoff))>>]

(* The sessions of the run that are in the file of sessions.               *)
Counted == Ranked \cap MappedSessions

(* relevance_counts[session]['rel'] without the key is a KeyError.         *)
Missing == \E s \in Counted : relCount[s] = NoCount

ComputeMeasures ==
  /\ At("measures")
  /\ IF Missing
       THEN pc' = pc /\ result' = "fails" /\ UNCHANGED measures
       ELSE /\ pc' = "print" /\ UNCHANGED result
            /\ measures' = Append(measures, [s \in Counted |-> Measure(s)])
  /\ UNCHANGED <<inputs, rel, keys, topicOf, ranking, relevance, relCount, ideal, output>>

(* A directory: the next of its runs, with the judgments and the topics    *)
(* as they are now.                                                        *)
NextRun ==
  /\ Stage("print", "mapping") /\ Len(measures) < MaxRuns
  /\ ranking' = NoRanking /\ relevance' = NoRanking
  /\ UNCHANGED <<inputs, rel, keys, topicOf, relCount, ideal, measures, output>>

(* The lines of the sessions are sorted by int(session), the first of them *)
(* being printed after that.                                               *)
Printed == DOMAIN measures[1]
Directory == Len(measures) > 1
Sortable == Printed \cap NotNumbers = {}

PrettyPrint ==
  /\ At("print") /\ pc' = "end" /\ result' = "scored"
  /\ Sortable /\ (Directory \/ DOMAIN ideal # {})
  /\ output' = {"header", "all"} \cup Printed
  /\ UNCHANGED <<inputs, rel, keys, topicOf, ranking, relevance, relCount, ideal, measures>>

PrettyPrintFails ==
  /\ Raise("print")
  /\ \/ ~Directory /\ DOMAIN ideal = {} /\ output' = {"header"}
     \/ ~Directory /\ DOMAIN ideal # {} /\ ~Sortable /\ output' = {"header", "all"}
     \/ Directory /\ ~Sortable /\ output' = {"header"}
  /\ malformed' = (malformed \/ MappedSessions = {} \/ ~Sortable)
  /\ UNCHANGED <<goal, judged, rel, keys, topicOf, ranking, relevance, relCount, ideal, measures>>

Next == \/ Malformed \/ ReadQrel \/ MapJudgments \/ NotMapped \/ MapSessions \/ ReadRanking
        \/ MapRelevance \/ GenerateIdealRanking \/ GenerateRelevanceCounts \/ ComputeMeasures
        \/ NextRun \/ PrettyPrint \/ PrettyPrintFails

Spec == Init /\ [][Next]_vars
-----------------------------------------------------------------------------
Stages == {"qrels", "mapping", "ranking", "relevance", "ideal", "counts", "measures", "print",
           "end"}
TypeOK ==
  /\ pc \in Stages /\ result \in {"running", "scored", "fails", "silent"}
  /\ goal \in BOOLEAN /\ judged \in Seq(Line) /\ malformed \in BOOLEAN
  /\ rel \in [Topics \cup {NoTopic} -> [Docs -> Int \cup {Unjudged}]]
  /\ keys \subseteq Topics \cup {NoTopic}
  /\ topicOf \in [Sessions -> Topics \cup {NoTopic}]
  /\ ranking \in [Sessions -> Seq(Docs)] /\ relevance \in [Sessions -> Seq(Grades)]
  /\ relCount \in [Sessions -> Nat \cup {NoCount}]
  /\ output \subseteq {"header", "all"} \cup Sessions

(* "Considers the largest relevance grade": of all the judgments of a topic *)
(* and a document the largest one is kept, in whatever order and however    *)
(* often they come, and is mapped to its grade once.                        *)
JudgmentsOf(t, d) ==
  {judged[k].judgment : k \in {k \in DOMAIN judged : judged[k].topic = t /\ judged[k].doc = d}}
Kept(j) == IF pc = "qrels" THEN j ELSE Mapping[j]
LargestJudgment ==
  \A t \in Topics, d \in Docs :
    \/ JudgmentsOf(t, d) = {} /\ rel[t][d] = Unjudged
    \/ \E j \in JudgmentsOf(t, d) : /\ \A i \in JudgmentsOf(t, d) : i <= j
                                    /\ rel[t][d] = Kept(j)

(* The measures are those of the textbook: of the relevant documents, the  *)
(* share that is in the first Cutoff ranks, and the precision at the ranks *)
(* they are at.                                                            *)
Hits(s, k) == Cardinality({r \in DOMAIN relevance[s] : r <= k /\ relevance[s][r] > 0})
RelevantRanks(s) == {r \in DOMAIN relevance[s] : relevance[s][r] > 0}
MeasuresAsDefined ==
  measures # <<>> /\ pc = "print" => \A s \in DOMAIN Last(measures) :
    LET m == Last(measures)[s] IN
    /\ m.precision = (IF relCount[s] = 0 THEN 0 ELSE Hits(s, Cutoff))
    /\ m.ap = (IF relCount[s] = 0 THEN 0
               ELSE MapThenSumSet(LAMBDA r : Hits(s, r) * (Ranks \div r), RelevantRanks(s)))

(* No run is better than the ideal one, unless it lists a document twice,   *)
(* and no quotient is by zero.                                             *)
MeasuresBounded ==
  measures # <<>> /\ pc = "print" => \A s \in DOMAIN Last(measures) : IsInjective(ranking[s]) =>
    LET m == Last(measures)[s] IN
    /\ m.precision <= Cutoff
    /\ m.ap <= relCount[s] * Ranks
    /\ \A quotient \in {m.ndcg, m.nerr, m.ndcg_at_k, m.nerr_at_k} :
         quotient[1] <= quotient[2] /\ quotient[2] > 0

(* What Leaderboard takes the evaluation for: exit code 0 comes with every *)
(* line or with none; and it fails only when a file cannot be read or has  *)
(* no session, whatever the run says of unknown sessions and documents.    *)
OutcomeAsRead ==
  /\ result = "scored" => {"header", "all"} \subseteq output /\ Printed \subseteq output
  /\ result = "silent" => output = {}
  /\ result = "fails" /\ ~goal => malformed
=============================================================================
