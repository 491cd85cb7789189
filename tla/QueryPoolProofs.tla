--------------------------- MODULE QueryPoolProofs ---------------------------
(* Safety of QueryPool for every list of queries, every number of workers  *)
(* and every failure of Indri, proved from PoolAssumption alone.           *)
(*                                                                         *)
(* The inductive invariant comes in layers, each of which uses the ones    *)
(* before it: Typed (types, and what a carried index is), Phased (which    *)
(* workers exist at which control point of the collector), Placed (each    *)
(* query is in exactly one place), Answered (what the places hold).        *)
EXTENDS QueryPool, SequenceTheorems, TLAPS

(* A worker carries, and the collector files, indices of the command.      *)
CarriesIndex == \A t \in Threads :
                  tpc[t] \in {"initPop", "initAnswer", "run", "push"} => current[t] \in Indices
StoresNext   == mpc = "store" => result \in [index : Indices, response : Answers]
                                 /\ result.index = query
Typed == req \in Requests /\ TypeOK /\ CarriesIndex /\ StoresNext

LEMMA CommandTyped ==
  ASSUME req \in Requests
  PROVE  /\ req \in RequestType
         /\ QueryCount \in Nat
         /\ ThreadCount \in Nat /\ ThreadCount <= ThreadLimit /\ ThreadCount <= QueryCount
         /\ Indices = IndicesOf(req)
         /\ \A i \in Indices : QueryNumber(req, i) \in Names /\ i \in Nat
BY CommandAssumption, PoolAssumption DEF RequestType, QueryCount, ThreadCount, Indices, IndicesOf

LEMMA TypedInit == Init => Typed
<1> SUFFICES ASSUME Init PROVE Typed
  OBVIOUS
<1> USE DEF Init
<1>1. req \in Requests
  OBVIOUS
<1>2. TypeOK
  <2>1. req \in RequestType /\ launched \in 0 .. ThreadCount /\ query \in 0 .. QueryCount
    BY CommandTyped
  <2>2. mpc \in CollectorPoints /\ tpc \in [Threads -> WorkerPoints]
    BY DEF CollectorPoints, WorkerPoints
  <2>3. /\ result \in Outputs \cup {NoAnswer}
        /\ response \in [Names -> Answers \cup {NoAnswer}]
        /\ results \in [Threads -> Nat \cup {NoResults}]
        /\ current \in [Threads -> Nat]
    OBVIOUS
  <2>4. queries \in Seq(Indices)
    BY EmptySeq
  <2>5. spurious \in 0 .. MaxSpurious
    BY PoolAssumption
  <2>6. /\ reply \in {"none", "results", "error"} /\ crashed \in BOOLEAN
        /\ output \subseteq [index : Indices, response : Answers]
    OBVIOUS
  <2> QED
    BY <2>1, <2>2, <2>3, <2>4, <2>5, <2>6 DEF TypeOK
<1>3. CarriesIndex /\ StoresNext
  BY DEF CarriesIndex, StoresNext
<1> QED
  BY <1>1, <1>2, <1>3 DEF Typed

(* No step changes the command, nor what is computed from it alone.        *)
LEMMA SameCommand ==
  [Next]_vars => /\ req' = req
                 /\ QueryCount' = QueryCount /\ Indices' = Indices
                 /\ ThreadCount' = ThreadCount
<1>1. [Next]_vars => req' = req
  BY DEF Next, vars, Collector, Refuse, PushQueue, StartThread, Launched, Lock, Wait, Wake,
       Collect, NothingToCollect, Store, Relock, AllCollected, JoinAndSend, SpuriousWakeup,
       Worker, Initialized, InitFront, InitPop, InitAnswers, InitThrows, HasWork, NoWork,
       PopQuery, PopNothing, RunQuery, PrintThrows, PushOutput, collectorVars
<1> QED
  BY <1>1 DEF QueryCount, Indices, ThreadCount

LEMMA TypedStep == Typed /\ [Next]_vars => Typed'
<1> SUFFICES ASSUME Typed, [Next]_vars PROVE Typed'
  OBVIOUS
<1>1. /\ req' = req /\ req \in Requests
      /\ QueryCount' = QueryCount /\ Indices' = Indices /\ ThreadCount' = ThreadCount
  BY SameCommand DEF Typed
<1>2. /\ QueryCount \in Nat /\ ThreadCount \in Nat /\ ThreadCount <= ThreadLimit
      /\ ThreadLimit \in Nat /\ MaxSpurious \in Nat
      /\ \A i \in Indices : QueryNumber(req, i) \in Names /\ i \in Nat
  BY <1>1, CommandTyped, PoolAssumption
<1> USE <1>1, <1>2 DEF Typed, TypeOK, CarriesIndex, StoresNext, CollectorPoints, WorkerPoints,
        collectorVars, workerVars, sharedVars, fate, MoveMain, MoveThread
<1>3. CASE Refuse
  BY <1>3 DEF Refuse
<1>4. CASE PushQueue
  <2>1. [k \in 1 .. QueryCount |-> k - 1] \in [1 .. QueryCount -> Indices]
    BY DEF Indices
  <2>2. [k \in 1 .. QueryCount |-> k - 1] \in Seq(Indices)
    BY <2>1, SeqDef
  <2> QED
    BY <1>4, <2>2 DEF PushQueue
<1>5. CASE StartThread
  BY <1>5 DEF StartThread, Threads
<1>6. CASE Launched \/ Lock \/ Wake \/ NothingToCollect \/ Relock \/ AllCollected
  BY <1>6 DEF Launched, Lock, Wake, NothingToCollect, Relock, AllCollected
<1>7. CASE Wait
  BY <1>7 DEF Wait
<1>8. CASE SpuriousWakeup
  BY <1>8 DEF SpuriousWakeup
<1>9. CASE Collect
  <2>1. result' \in [index : Indices, response : Answers] /\ result' \in Outputs
    BY <1>9 DEF Collect, Outputs
  <2> QED
    BY <1>9, <2>1 DEF Collect
<1>10. CASE Store
  <2>1. query \in Indices /\ result.response \in Answers /\ result.index = query
    BY <1>10 DEF Store
  <2>2. query' \in 0 .. QueryCount
    BY <1>10, <2>1 DEF Store, Indices
  <2>3. response' \in [Names -> Answers \cup {NoAnswer}]
    BY <1>10, <2>1 DEF Store
  <2> QED
    BY <1>10, <2>2, <2>3 DEF Store
<1>11. CASE JoinAndSend
  BY <1>11 DEF JoinAndSend, Sent
<1>12. ASSUME NEW t \in Threads, Worker(t) PROVE Typed'
  <2> USE <1>12
  <2>1. CASE Initialized(t) \/ InitThrows(t) \/ HasWork(t) \/ NoWork(t)
             \/ PopNothing(t) \/ PrintThrows(t)
    BY <2>1 DEF Initialized, InitThrows, HasWork, NoWork, PopNothing, PrintThrows
  <2>2. queries # <<>> => Head(queries) \in Indices /\ Tail(queries) \in Seq(Indices)
    BY HeadTailProperties
  <2>3. CASE InitFront(t)
    BY <2>2, <2>3 DEF InitFront
  <2>4. CASE InitPop(t)
    BY <2>2, <2>4 DEF InitPop
  <2>5. CASE InitAnswers(t)
    <3>1. InitError \in Answers
      BY DEF Answers
    <3> QED
      BY <2>5, <3>1 DEF InitAnswers, Answer, NotifyAll
  <2>6. CASE PopQuery(t)
    BY <2>2, <2>6 DEF PopQuery
  <2>7. CASE RunQuery(t)
    BY <2>7 DEF RunQuery, Found, ResultOf
  <2>8. CASE PushOutput(t)
    BY <2>8 DEF PushOutput, Answer, NotifyAll, Answers
  <2> QED
    BY <2>1, <2>3, <2>4, <2>5, <2>6, <2>7, <2>8 DEF Worker
<1>13. CASE UNCHANGED vars
  BY <1>13 DEF vars
<1> QED
  BY <1>3, <1>4, <1>5, <1>6, <1>7, <1>8, <1>9, <1>10, <1>11, <1>12, <1>13 DEF Next, Collector

(* Every variable keeps its type, whatever the commands and the failures.  *)
THEOREM TypeCorrect == Spec => []TypeOK
<1>1. Spec => []Typed
  BY TypedInit, TypedStep, PTL DEF Spec
<1>2. Typed => TypeOK
  BY DEF Typed
<1> QED
  BY <1>1, <1>2, PTL
-----------------------------------------------------------------------------
(* The workers are started before anything is collected, and the reply is  *)
(* sent when they have all ended.                                          *)
Untouched == launched = 0 /\ query = 0 /\ queries = <<>> /\ output = {}
Phased ==
  /\ \A t \in Threads : tpc[t] = "new" <=> t > launched
  /\ mpc = "done" <=> reply # "none"
  /\ mpc \notin {"start", "done"} => Accepts(req)
  /\ mpc = "start" \/ ~Accepts(req) => Untouched
  /\ mpc \in {"launch", "lock"} => query = 0
  /\ mpc \notin {"start", "launch"} /\ Accepts(req) => launched = ThreadCount
  /\ mpc = "join" \/ (mpc = "done" /\ Accepts(req)) => query = QueryCount
  /\ mpc = "done" /\ Accepts(req) => \A t \in 1 .. ThreadCount : tpc[t] = "ended"

LEMMA PhasedInit == Init => Phased
BY CommandTyped DEF Init, Phased, Untouched, Threads

(* A worker that takes a step is between its start and its end, and        *)
(* changes nothing of the collector but waking it up.                      *)
LEMMA WorkerFrame ==
  ASSUME Typed, Phased, NEW t \in Threads, Worker(t)
  PROVE  /\ tpc[t] \notin {"new", "ended"} /\ t <= launched
         /\ mpc \notin {"start", "done"} /\ reply = "none"
         /\ tpc' = [tpc EXCEPT ![t] = tpc'[t]] /\ tpc'[t] # "new"
         /\ UNCHANGED collectorVars
         /\ mpc' = mpc \/ (mpc = "wait" /\ mpc' = "woken")
<1> USE DEF Worker, Initialized, InitFront, InitPop, InitAnswers, InitThrows, HasWork, NoWork,
            PopQuery, PopNothing, RunQuery, PrintThrows, PushOutput, MoveThread
<1>1. tpc \in [Threads -> WorkerPoints] /\ launched \in Nat /\ Threads \subseteq Nat
  BY CommandTyped DEF Typed, TypeOK, Threads
<1>2. tpc[t] \notin {"new", "ended"}
  OBVIOUS
<1>3. tpc' = [tpc EXCEPT ![t] = tpc'[t]] /\ tpc'[t] # "new"
  <2>1. tpc'[t] # "new" /\ (tpc' = tpc \/ tpc' = [tpc EXCEPT ![t] = tpc'[t]])
    BY <1>1, <1>2 DEF workerVars
  <2>2. tpc = [tpc EXCEPT ![t] = tpc[t]]
    BY <1>1
  <2> QED
    BY <2>1, <2>2
<1>4. UNCHANGED collectorVars
  OBVIOUS
<1>5. mpc' = mpc \/ (mpc = "wait" /\ mpc' = "woken")
  BY DEF Answer, NotifyAll
<1>6. t <= launched
  BY <1>1, <1>2 DEF Phased
<1>7. mpc \notin {"start", "done"} /\ reply = "none"
  <2>1. launched # 0
    BY <1>1, <1>6 DEF Threads
  <2>2. mpc # "start" /\ Accepts(req)
    BY <2>1 DEF Phased, Untouched
  <2>3. mpc # "done"
    <3>1. SUFFICES ASSUME mpc = "done" PROVE FALSE
      OBVIOUS
    <3>2. launched = ThreadCount
      BY <2>2, <3>1 DEF Phased
    <3>3. t \in 1 .. ThreadCount
      BY <1>1, <1>6, <3>2 DEF Threads
    <3> QED
      BY <1>2, <2>2, <3>1, <3>3 DEF Phased
  <2> QED
    BY <2>2, <2>3 DEF Phased, Typed, TypeOK
<1> QED
  BY <1>2, <1>3, <1>4, <1>5, <1>6, <1>7

LEMMA PhasedStep == Typed /\ Phased /\ [Next]_vars => Phased'
<1> SUFFICES ASSUME Typed, Phased, [Next]_vars PROVE Phased'
  OBVIOUS
<1>1. /\ req' = req /\ QueryCount' = QueryCount /\ ThreadCount' = ThreadCount
      /\ QueryCount \in Nat /\ ThreadCount \in Nat /\ ThreadCount <= ThreadLimit
      /\ launched \in 0 .. ThreadCount /\ query \in 0 .. QueryCount /\ ThreadLimit \in Nat
      /\ reply \in {"none", "results", "error"} /\ tpc \in [Threads -> WorkerPoints]
  BY SameCommand, CommandTyped, PoolAssumption DEF Typed, TypeOK
<1> USE <1>1 DEF Phased, Untouched, collectorVars, workerVars, sharedVars, MoveMain
<1>2. CASE Refuse \/ PushQueue
  BY <1>2 DEF Refuse, PushQueue
<1>3. CASE StartThread
  BY <1>3 DEF StartThread, Threads
<1>4. CASE Launched \/ Lock \/ Wake \/ NothingToCollect \/ Relock \/ AllCollected
  BY <1>4 DEF Launched, Lock, Wake, NothingToCollect, Relock, AllCollected
<1>5. CASE Wait \/ SpuriousWakeup \/ Collect
  BY <1>5 DEF Wait, SpuriousWakeup, Collect
<1>6. CASE Store
  BY <1>6 DEF Store
<1>7. CASE JoinAndSend
  BY <1>7 DEF JoinAndSend, Sent
<1>8. ASSUME NEW t \in Threads, Worker(t) PROVE Phased'
  BY <1>8, WorkerFrame, PoolAssumption DEF Threads
<1>9. CASE UNCHANGED vars
  BY <1>9 DEF vars
<1> QED
  BY <1>2, <1>3, <1>4, <1>5, <1>6, <1>7, <1>8, <1>9 DEF Next, Collector

LEMMA PhasedHolds == Spec => [](Typed /\ Phased)
BY TypedInit, TypedStep, PhasedInit, PhasedStep, PTL DEF Spec

(* When handleQuery returns, no worker still uses its local variables.     *)
THEOREM ReturnIsSafe == Spec => []WorkersGone
<1>1. Typed /\ Phased => WorkersGone
  <2> SUFFICES ASSUME Typed, Phased, mpc = "done", NEW t \in Threads
               PROVE  tpc[t] \in {"new", "ended"}
    BY DEF WorkersGone
  <2>1. /\ t \in Nat /\ t >= 1 /\ ThreadCount \in Nat
    BY CommandTyped, PoolAssumption DEF Typed, TypeOK, Threads
  <2>2. CASE ~Accepts(req)
    BY <2>1, <2>2 DEF Phased, Untouched
  <2>3. CASE Accepts(req)
    BY <2>1, <2>3 DEF Phased
  <2> QED
    BY <2>1, <2>2, <2>3 DEF Phased
<1> QED
  BY <1>1, PhasedHolds, PTL
-----------------------------------------------------------------------------
(* The workers take the indices in order, those below Taken so far, and    *)
(* each index that is taken is in exactly one place.                       *)
Taken      == QueryCount - Len(queries)
QueueShape == /\ Len(queries) <= QueryCount
              /\ \A k \in 1 .. Len(queries) : queries[k] = Taken + k - 1
Located(i) == InOutput(i) \/ InHand(i) \/ Filed(i) \/ \E t \in Threads : Carried(t, i)
Covered    == \A i \in Indices : i < Taken <=> Located(i)
Once ==
  /\ \A t, u \in Threads, i \in Indices : Carried(t, i) /\ Carried(u, i) => t = u
  /\ \A o, p \in output : o.index = p.index => o = p
  /\ \A i \in Indices : InOutput(i) => ~InHand(i) /\ ~Filed(i)
  /\ \A t \in Threads, i \in Indices :
       Carried(t, i) => ~InOutput(i) /\ ~InHand(i) /\ ~Filed(i)
Placed == Working /\ Healthy => QueueShape /\ Covered /\ Once

(* A worker that fails in initialize() stays where it is, or ends it all.  *)
LEMMA StaysHealthy ==
  ASSUME Typed, Phased, [Next]_vars, Healthy'
  PROVE  Healthy
<1>1. tpc \in [Threads -> WorkerPoints]
  BY DEF Typed, TypeOK
<1> USE <1>1 DEF Healthy, Failing, MoveThread, workerVars
<1>2. CASE Collector
  <2>1. CASE StartThread
    <3>1. launched + 1 > launched
      BY CommandTyped DEF Typed, TypeOK
    <3>2. launched + 1 \in Threads => tpc[launched + 1] = "new"
      BY <3>1 DEF Phased
    <3> QED
      BY <2>1, <3>2 DEF StartThread
  <2>2. CASE ~StartThread
    BY <1>2, <2>2 DEF Collector, Refuse, PushQueue, Launched, Lock, Wait, Wake, Collect,
                      NothingToCollect, Store, Relock, AllCollected, JoinAndSend
  <2> QED
    BY <2>1, <2>2
<1>3. CASE SpuriousWakeup
  BY <1>3 DEF SpuriousWakeup
<1>4. ASSUME NEW t \in Threads, Worker(t) PROVE Healthy
  BY <1>4 DEF Worker, Initialized, InitFront, InitPop, InitAnswers, InitThrows, HasWork,
              NoWork, PopQuery, PopNothing, RunQuery, PrintThrows, PushOutput
<1>5. CASE UNCHANGED vars
  BY <1>5 DEF vars
<1> QED
  BY <1>2, <1>3, <1>4, <1>5 DEF Next

(* All steps but the first are steps of a command that is being handled.    *)
LEMMA WasWorking ==
  ASSUME Typed, Phased, [Next]_vars, Working', ~PushQueue
  PROVE  Working
<1>1. ~Refuse
  BY DEF Refuse, Working
<1>2. CASE Collector
  BY <1>1, <1>2 DEF Collector, Working, StartThread, Launched, Lock, Wait, Wake,
       Collect, NothingToCollect, Store, Relock, AllCollected, JoinAndSend, MoveMain,
       Phased, collectorVars
<1>3. CASE SpuriousWakeup
  BY <1>3 DEF SpuriousWakeup, MoveMain, Working, collectorVars
<1>4. ASSUME NEW t \in Threads, Worker(t) PROVE Working
  BY <1>4, WorkerFrame DEF Working, collectorVars
<1>5. CASE UNCHANGED vars
  BY <1>5 DEF vars, Working
<1> QED
  BY <1>2, <1>3, <1>4, <1>5 DEF Next

(* A step that moves no query keeps all of them in their places.           *)
LEMMA SamePlaces ==
  ASSUME Typed, QueryCount' = QueryCount, Indices' = Indices,
         QueueShape, Covered, Once, queries' = queries, output' = output, query' = query,
         \A i \in Indices : InHand(i)' <=> InHand(i),
         \A t \in Threads, i \in Indices : Carried(t, i)' <=> Carried(t, i)
  PROVE  QueueShape' /\ Covered' /\ Once'
<1>1. QueueShape' /\ Taken' = Taken
  BY DEF QueueShape, Taken
<1>2. \A i \in Indices : (InOutput(i)' <=> InOutput(i)) /\ (Filed(i)' <=> Filed(i))
  BY DEF InOutput, Filed
<1>3. \A i \in Indices : Located(i)' <=> Located(i)
  BY <1>2 DEF Located
<1>4. Covered'
  BY <1>1, <1>3 DEF Covered
<1>5. Once'
  BY <1>2 DEF Once
<1> QED
  BY <1>1, <1>4, <1>5

LEMMA PlacedStep == Typed /\ Phased /\ Placed /\ [Next]_vars => Placed'
<1> SUFFICES ASSUME Typed, Phased, Placed, [Next]_vars, Working', Healthy'
             PROVE  QueueShape' /\ Covered' /\ Once'
  BY DEF Placed
<1>1. /\ req' = req /\ QueryCount' = QueryCount /\ Indices' = Indices /\ QueryCount \in Nat
      /\ tpc \in [Threads -> WorkerPoints] /\ query \in 0 .. QueryCount
      /\ queries \in Seq(Indices) /\ Len(queries) \in Nat
      /\ output \subseteq [index : Indices, response : Answers]
      /\ Indices = 0 .. QueryCount - 1
  BY SameCommand, CommandTyped, LenProperties DEF Typed, TypeOK, Indices
<1>2. Healthy
  BY StaysHealthy
<1>3. CASE PushQueue
  <2>1. query' = 0 /\ output' = {} /\ queries' = [k \in 1 .. QueryCount |-> k - 1]
        /\ Len(queries') = QueryCount /\ mpc' = "launch"
        /\ \A t \in Threads : tpc'[t] = "new"
    BY <1>1, <1>3, PoolAssumption DEF PushQueue, MoveMain, Phased, Untouched, collectorVars,
                                      workerVars, Threads
  <2>2. Taken' = 0 /\ QueueShape'
    BY <1>1, <2>1 DEF QueueShape, Taken
  <2>3. \A i \in Indices : /\ ~InOutput(i)' /\ ~InHand(i)' /\ ~Filed(i)'
                           /\ \A t \in Threads : ~Carried(t, i)'
    BY <1>1, <2>1 DEF InOutput, InHand, Filed, Carried
  <2>4. Covered'
    BY <1>1, <2>2, <2>3 DEF Covered, Located
  <2>5. Once'
    BY <1>1, <2>1, <2>3 DEF Once
  <2> QED
    BY <2>2, <2>4, <2>5
<1>4. ASSUME ~PushQueue PROVE Working
  BY <1>4, WasWorking
<1>5. ASSUME ~PushQueue PROVE QueueShape /\ Covered /\ Once
  BY <1>2, <1>4, <1>5 DEF Placed
<1>6. ASSUME ~PushQueue, UNCHANGED <<queries, output, query>>,
             mpc # "store", mpc' # "store",
             \A t \in Threads, i \in Indices : Carried(t, i)' <=> Carried(t, i)
      PROVE  QueueShape' /\ Covered' /\ Once'
  BY <1>1, <1>5, <1>6, SamePlaces DEF InHand
<1>7. CASE \/ Launched \/ Lock \/ Wait \/ Wake \/ SpuriousWakeup \/ NothingToCollect
           \/ Relock \/ AllCollected \/ JoinAndSend
  <2>1. /\ ~PushQueue /\ UNCHANGED <<queries, output, query>> /\ UNCHANGED <<tpc, current>>
        /\ mpc # "store" /\ mpc' # "store"
    BY <1>7 DEF PushQueue, Launched, Lock, Wait, Wake, SpuriousWakeup, NothingToCollect, Relock,
         AllCollected, JoinAndSend, MoveMain, collectorVars, workerVars, sharedVars
  <2> QED
    BY <1>6, <2>1 DEF Carried
<1>8. CASE StartThread
  <2>1. /\ ~PushQueue /\ UNCHANGED <<queries, output, query, current>>
        /\ mpc # "store" /\ mpc' # "store" /\ tpc' = [tpc EXCEPT ![launched + 1] = "init"]
    BY <1>8 DEF PushQueue, StartThread, MoveMain, sharedVars
  <2>2. launched + 1 > launched
    BY CommandTyped DEF Typed, TypeOK
  <2>3. launched + 1 \in Threads => tpc[launched + 1] = "new"
    BY <2>2 DEF Phased
  <2> QED
    BY <1>1, <1>6, <2>1, <2>3 DEF Carried
<1>9. CASE Collect
  <2>1. PICK o \in output : /\ o.index = query /\ result' = o /\ output' = output \ {o}
                            /\ mpc = "inner" /\ mpc' = "store"
                            /\ UNCHANGED <<queries, query, tpc, current>>
    BY <1>9 DEF Collect, MoveMain, workerVars
  <2>2. ~PushQueue
    BY <2>1 DEF PushQueue, MoveMain
  <2>3. QueueShape' /\ Taken' = Taken
    BY <1>1, <1>5, <2>1, <2>2 DEF QueueShape, Taken
  <2>4. \A i \in Indices : /\ InOutput(i)' <=> InOutput(i) /\ i # query
                           /\ InHand(i)' <=> i = query
                           /\ ~InHand(i)
                           /\ Filed(i)' <=> Filed(i)
                           /\ \A t \in Threads : Carried(t, i)' <=> Carried(t, i)
    BY <1>5, <2>1, <2>2 DEF InOutput, InHand, Filed, Carried, Once
  <2>5. InOutput(query)
    BY <2>1 DEF InOutput
  <2>6. Covered'
    BY <1>1, <1>5, <2>2, <2>3, <2>4, <2>5 DEF Covered, Located
  <2>7. Once'
    BY <1>1, <1>5, <2>1, <2>2, <2>4, <2>5 DEF Once
  <2> QED
    BY <2>3, <2>6, <2>7
<1>10. CASE Store
  <2>1. /\ mpc = "store" /\ mpc' = "relock" /\ query' = query + 1
        /\ UNCHANGED <<queries, output, tpc, current>>
        /\ result.index = query
    BY <1>10 DEF Store, MoveMain, workerVars, sharedVars, Typed, StoresNext
  <2>2. ~PushQueue
    BY <2>1 DEF PushQueue, MoveMain
  <2>3. QueueShape' /\ Taken' = Taken
    BY <1>1, <1>5, <2>1, <2>2 DEF QueueShape, Taken
  <2>4. \A i \in Indices : /\ InOutput(i)' <=> InOutput(i)
                           /\ InHand(i) <=> i = query
                           /\ ~InHand(i)'
                           /\ Filed(i)' <=> Filed(i) \/ i = query
                           /\ \A t \in Threads : Carried(t, i)' <=> Carried(t, i)
    BY <1>1, <2>1 DEF InOutput, InHand, Filed, Carried
  <2>5. Covered'
    BY <1>1, <1>5, <2>2, <2>3, <2>4 DEF Covered, Located
  <2>6. Once'
    BY <1>1, <1>5, <2>1, <2>2, <2>4 DEF Once
  <2> QED
    BY <2>3, <2>5, <2>6
<1>11. ASSUME NEW t \in Threads, Worker(t)
       PROVE  QueueShape' /\ Covered' /\ Once'
  <2>1. /\ ~PushQueue /\ query' = query /\ result' = result
        /\ mpc' = mpc \/ (mpc = "wait" /\ mpc' = "woken")
    BY <1>11, WorkerFrame DEF PushQueue, MoveMain, collectorVars
  <2>2. \A i \in Indices : (InHand(i)' <=> InHand(i)) /\ (Filed(i)' <=> Filed(i))
    BY <2>1 DEF InHand, Filed
  <2>3. ASSUME UNCHANGED <<queries, output>>,
               \A u \in Threads, i \in Indices : Carried(u, i)' <=> Carried(u, i)
        PROVE  QueueShape' /\ Covered' /\ Once'
    BY <1>1, <1>5, <2>1, <2>2, <2>3, SamePlaces
  <2>4. CASE InitFront(t) \/ InitPop(t) \/ InitAnswers(t) \/ InitThrows(t)
    <3>1. Failing(t)'
      BY <1>1, <2>4 DEF InitFront, InitPop, InitAnswers, InitThrows, MoveThread, Failing, workerVars
    <3> QED
      BY <3>1 DEF Healthy
  <2>5. CASE Initialized(t) \/ HasWork(t) \/ NoWork(t) \/ PopNothing(t)
             \/ RunQuery(t) \/ PrintThrows(t)
    <3>1. \A u \in Threads, i \in Indices : Carried(u, i)' <=> Carried(u, i)
      BY <1>1, <2>5 DEF Initialized, HasWork, NoWork, PopNothing, RunQuery, PrintThrows,
                        MoveThread, workerVars, Carried
    <3>2. UNCHANGED <<queries, output>>
      BY <2>5 DEF Initialized, HasWork, NoWork, PopNothing, RunQuery, PrintThrows, sharedVars
    <3> QED
      BY <2>3, <3>1, <3>2
  <2>6. CASE PopQuery(t)
    <3> DEFINE h == Head(queries)
    <3>1. /\ queries # <<>> /\ queries' = Tail(queries) /\ output' = output
          /\ tpc[t] = "pop" /\ tpc' = [tpc EXCEPT ![t] = "run"]
          /\ current' = [current EXCEPT ![t] = h]
      BY <2>6 DEF PopQuery, MoveThread
    <3>2. /\ Len(queries) > 0 /\ h = queries[1] /\ h \in Indices
          /\ Len(Tail(queries)) = Len(queries) - 1
          /\ \A k \in 1 .. Len(Tail(queries)) : Tail(queries)[k] = queries[k + 1]
      BY <1>1, <3>1, HeadTailProperties, EmptySeq
    <3>3. h = Taken /\ Taken' = Taken + 1 /\ Taken \in Nat
      BY <1>1, <1>5, <2>1, <3>1, <3>2 DEF QueueShape, Taken
    <3>4. QueueShape'
      <4>1. Len(queries') <= QueryCount'
        BY <1>1, <1>5, <2>1, <3>1, <3>2 DEF QueueShape
      <4>2. ASSUME NEW k \in 1 .. Len(queries')
            PROVE  queries'[k] = Taken' + k - 1
        <5>1. k + 1 \in 1 .. Len(queries) /\ queries'[k] = queries[k + 1]
          BY <1>1, <3>1, <3>2
        <5> QED
          BY <1>1, <1>5, <2>1, <3>3, <5>1 DEF QueueShape
      <4> QED
        BY <4>1, <4>2 DEF QueueShape
    <3>5. ~Located(h) /\ ~InOutput(h) /\ ~InHand(h) /\ ~Filed(h)
          /\ \A u \in Threads : ~Carried(u, h)
      BY <1>1, <1>5, <2>1, <3>2, <3>3 DEF Covered, Located
    <3>6. \A i \in Indices :
            /\ InOutput(i)' <=> InOutput(i)
            /\ \A u \in Threads : Carried(u, i)' <=> Carried(u, i) \/ (u = t /\ i = h)
      BY <1>1, <3>1, <3>2 DEF InOutput, Carried, Typed, TypeOK
    <3>7. Covered'
      BY <1>1, <1>5, <2>1, <2>2, <3>2, <3>3, <3>6 DEF Covered, Located
    <3>8. Once'
      BY <1>1, <1>5, <2>1, <2>2, <3>1, <3>2, <3>5, <3>6 DEF Once, Carried
    <3> QED
      BY <3>4, <3>7, <3>8
  <2>7. CASE PushOutput(t)
    <3> DEFINE c == current[t]
    <3>1. /\ queries' = queries /\ current' = current
          /\ output' = output \cup {[index |-> c, response |-> results[t]]}
          /\ tpc[t] = "push" /\ tpc' = [tpc EXCEPT ![t] = "idle"]
      BY <2>7 DEF PushOutput, Answer, MoveThread
    <3>2. c \in Indices /\ Carried(t, c)
      BY <3>1 DEF Typed, CarriesIndex, Carried
    <3>3. ~InOutput(c) /\ ~InHand(c) /\ ~Filed(c)
      BY <1>5, <2>1, <3>2 DEF Once
    <3>4. \A i \in Indices :
            /\ InOutput(i)' <=> InOutput(i) \/ i = c
            /\ \A u \in Threads : Carried(u, i)' <=> Carried(u, i) /\ u # t
      <4>1. ASSUME NEW i \in Indices PROVE InOutput(i)' <=> InOutput(i) \/ i = c
        <5>1. PICK a : a.index = c /\ output' = output \cup {a}
          BY <3>1
        <5> QED
          BY <5>1 DEF InOutput
      <4>2. ASSUME NEW i \in Indices, NEW u \in Threads
            PROVE  Carried(u, i)' <=> Carried(u, i) /\ u # t
        BY <1>1, <3>1 DEF Carried
      <4> QED
        BY <4>1, <4>2
    <3>5. \A i \in Indices : Carried(t, i) => i = c
      BY <3>1 DEF Carried
    <3>6. QueueShape' /\ Taken' = Taken
      BY <1>1, <1>5, <2>1, <3>1 DEF QueueShape, Taken
    <3>7. Covered'
      BY <1>1, <1>5, <2>1, <2>2, <3>2, <3>4, <3>5, <3>6 DEF Covered, Located
    <3>8. Once'
      <4>1. \A u \in Threads : Carried(u, c) => u = t
        BY <1>5, <2>1, <3>2 DEF Once
      <4>2. \A o, p \in output' : o.index = p.index => o = p
        BY <1>1, <1>5, <2>1, <3>1, <3>3 DEF Once, InOutput
      <4> QED
        BY <1>1, <1>5, <2>1, <2>2, <3>3, <3>4, <4>1, <4>2 DEF Once
    <3> QED
      BY <3>6, <3>7, <3>8
  <2> QED
    BY <1>11, <2>4, <2>5, <2>6, <2>7 DEF Worker
<1>12. CASE UNCHANGED vars
  <2>1. ~PushQueue /\ UNCHANGED <<queries, output, query, mpc, result, tpc, current>>
    BY <1>12 DEF vars, PushQueue, MoveMain
  <2> QED
    BY <1>1, <1>5, <2>1, SamePlaces DEF InHand, Carried
<1>13. ~Refuse
  BY DEF Refuse, Working
<1> QED
  BY <1>3, <1>7, <1>8, <1>9, <1>10, <1>11, <1>12, <1>13 DEF Next, Collector

LEMMA PlacedHolds == Spec => [](Typed /\ Phased /\ Placed)
<1>1. Init => Placed
  BY DEF Init, Placed, Working
<1> QED
  BY TypedInit, TypedStep, PhasedInit, PhasedStep, PlacedStep, <1>1, PTL DEF Spec

(* No query is lost, however the workers interleave.                       *)
THEOREM NoQueryLost == Spec => []NoneLost
<1>1. Typed /\ Placed => NoneLost
  <2> SUFFICES ASSUME Typed, Placed, Working, Healthy, NEW i \in Indices, ~Located(i)
               PROVE  Queued(i)
    BY DEF NoneLost, Located
  <2>1. /\ QueryCount \in Nat /\ Len(queries) \in Nat /\ i \in 0 .. QueryCount - 1
        /\ QueueShape /\ Covered
    BY CommandTyped, LenProperties DEF Typed, TypeOK, Placed, Indices
  <2>2. i >= Taken
    BY <2>1 DEF Covered, Taken
  <2>3. i - Taken + 1 \in 1 .. Len(queries)
    BY <2>1, <2>2 DEF Taken, QueueShape
  <2>4. queries[i - Taken + 1] = i
    BY <2>1, <2>3 DEF QueueShape, Taken
  <2> QED
    BY <2>3, <2>4 DEF Queued
<1> QED
  BY <1>1, PlacedHolds, PTL

(* No query is run, answered or filed twice.                               *)
THEOREM NoQueryDoubled == Spec => []NoneDoubled
<1>1. Typed /\ Phased /\ Placed => NoneDoubled
  <2> SUFFICES ASSUME Typed, Phased, Placed, Healthy, NEW i \in Indices
               PROVE  /\ \A t, u \in Threads : Carried(t, i) /\ Carried(u, i) => t = u
                      /\ \A o, p \in output : o.index = i /\ p.index = i => o = p
                      /\ Queued(i) => ~InOutput(i) /\ ~InHand(i) /\ ~Filed(i)
                      /\ InOutput(i) => ~InHand(i) /\ ~Filed(i)
                      /\ (\E t \in Threads : Carried(t, i)) =>
                            ~Queued(i) /\ ~InOutput(i) /\ ~InHand(i) /\ ~Filed(i)
    BY DEF NoneDoubled
  <2>1. QueryCount \in Nat /\ Len(queries) \in Nat /\ i \in Nat
    BY CommandTyped, LenProperties DEF Typed, TypeOK, Indices
  <2>2. CASE Working
    <3>1. QueueShape /\ Covered /\ Once
      BY <2>2 DEF Placed
    <3>2. Queued(i) => ~Located(i)
      BY <2>1, <3>1 DEF Queued, QueueShape, Covered, Taken
    <3> QED
      BY <3>1, <3>2 DEF Once, Located
  <2>3. CASE ~Working
    <3>1. mpc # "store" /\ output = {} /\ query = 0 /\ queries = <<>> /\ launched = 0
      BY <2>3 DEF Working, Phased, Untouched
    <3>2. \A t \in Threads : ~Carried(t, i)
      BY <3>1, PoolAssumption DEF Phased, Carried, Threads
    <3>3. ~Queued(i) /\ ~InOutput(i) /\ ~InHand(i) /\ ~Filed(i)
      BY <2>1, <3>1, EmptySeq DEF Queued, InOutput, InHand, Filed
    <3> QED
      BY <3>1, <3>2, <3>3
  <2> QED
    BY <2>2, <2>3
<1> QED
  BY <1>1, PlacedHolds, PTL
-----------------------------------------------------------------------------
(* The answers on their way are those of a handler that runs the queries   *)
(* in turn, and so are the answers that are filed.                         *)
Right(i, r)     == ~Skipped(i) => r = Found(i)
FiledLast(n, i) == /\ i < query /\ QueryNumber(req, i) = n
                   /\ \A j \in Indices : j < query /\ QueryNumber(req, j) = n => j <= i
PushRight  == \A t \in Threads : tpc[t] = "push" => Right(current[t], results[t])
OutRight   == \A o \in output : Right(o.index, o.response)
HandRight  == mpc = "store" => Right(result.index, result.response)
FiledRight ==
  \A n \in Names :
    /\ \A i \in Indices : FiledLast(n, i) => Right(i, response[n])
    /\ (\A i \in Indices : i < query => QueryNumber(req, i) # n) => response[n] = NoAnswer
Answered ==
  /\ mpc = "start" => \A n \in Names : response[n] = NoAnswer
  /\ Working /\ Healthy => PushRight /\ OutRight /\ HandRight /\ FiledRight

LEMMA AnsweredStep == Typed /\ Phased /\ Placed /\ Answered /\ [Next]_vars => Answered'
<1> SUFFICES ASSUME Typed, Phased, Placed, Answered, [Next]_vars PROVE Answered'
  OBVIOUS
<1>1. /\ req' = req /\ QueryCount' = QueryCount /\ Indices' = Indices /\ QueryCount \in Nat
      /\ tpc \in [Threads -> WorkerPoints] /\ query \in 0 .. QueryCount
      /\ response \in [Names -> Answers \cup {NoAnswer}]
      /\ results \in [Threads -> Nat \cup {NoResults}]
      /\ Indices = 0 .. QueryCount - 1
      /\ \A i \in Indices : QueryNumber(req, i) \in Names
  BY SameCommand, CommandTyped DEF Typed, TypeOK, Indices
<1>2. \A i, r : Right(i, r)' <=> Right(i, r)
  BY <1>1 DEF Right, Skipped, Found
<1>3. ASSUME mpc' = "start"
      PROVE  \A n \in Names : response'[n] = NoAnswer
  <2>1. ASSUME NEW t \in Threads, Worker(t) PROVE FALSE
    BY <1>3, <2>1, WorkerFrame
  <2>2. mpc = "start" /\ response' = response
    BY <1>3, <2>1 DEF Next, Collector, Refuse, PushQueue, StartThread, Launched, Lock, Wait,
         Wake, Collect, NothingToCollect, Store, Relock, AllCollected, JoinAndSend,
         SpuriousWakeup, MoveMain, vars
  <2> QED
    BY <2>2 DEF Answered
<1>4. SUFFICES ASSUME Working', Healthy'
               PROVE  PushRight' /\ OutRight' /\ HandRight' /\ FiledRight'
  BY <1>3 DEF Answered
<1>5. CASE PushQueue
  <2>1. /\ query' = 0 /\ output' = {} /\ mpc' = "launch" /\ response' = response
        /\ \A t \in Threads : tpc'[t] = "new"
        /\ \A n \in Names : response[n] = NoAnswer
    BY <1>1, <1>5, PoolAssumption DEF PushQueue, MoveMain, Phased, Untouched, collectorVars,
                                      workerVars, Threads, Answered
  <2>2. PushRight' /\ OutRight' /\ HandRight'
    BY <2>1 DEF PushRight, OutRight, HandRight
  <2>3. FiledRight'
    BY <1>1, <2>1 DEF FiledRight, FiledLast
  <2> QED
    BY <2>2, <2>3
<1>6. ASSUME ~PushQueue PROVE PushRight /\ OutRight /\ HandRight /\ FiledRight
  BY <1>4, <1>6, WasWorking, StaysHealthy DEF Answered
<1>7. ASSUME ~PushQueue, UNCHANGED <<query, response>> PROVE FiledRight'
  <2>1. \A n, i : FiledLast(n, i)' <=> FiledLast(n, i)
    BY <1>1, <1>7 DEF FiledLast
  <2> QED
    BY <1>1, <1>2, <1>6, <1>7, <2>1 DEF FiledRight
<1>8. ASSUME ~PushQueue, output' = output PROVE OutRight'
  BY <1>2, <1>6, <1>8 DEF OutRight
<1>9. ASSUME ~PushQueue, UNCHANGED <<current, results>>,
             \A t \in Threads : tpc'[t] = "push" => tpc[t] = "push"
      PROVE  PushRight'
  BY <1>2, <1>6, <1>9 DEF PushRight
<1>10. CASE \/ Launched \/ Lock \/ Wait \/ Wake \/ SpuriousWakeup \/ NothingToCollect
            \/ Relock \/ AllCollected \/ JoinAndSend \/ StartThread
  <2>1. /\ ~PushQueue /\ UNCHANGED <<output, query, response, current, results>>
        /\ mpc' # "store"
        /\ tpc' = tpc \/ tpc' = [tpc EXCEPT ![launched + 1] = "init"]
    BY <1>10 DEF PushQueue, Launched, Lock, Wait, Wake, SpuriousWakeup, NothingToCollect, Relock,
         AllCollected, JoinAndSend, StartThread, MoveMain, collectorVars, workerVars, sharedVars
  <2>2. \A t \in Threads : tpc'[t] = "push" => tpc[t] = "push"
    BY <1>1, <2>1
  <2> QED
    BY <1>7, <1>8, <1>9, <2>1, <2>2 DEF HandRight
<1>11. CASE Collect
  <2>1. PICK o \in output : /\ result' = o /\ output' = output \ {o}
                            /\ mpc = "inner" /\ mpc' = "store"
                            /\ UNCHANGED <<query, response, tpc, current, results>>
    BY <1>11 DEF Collect, MoveMain, workerVars
  <2>2. ~PushQueue
    BY <2>1 DEF PushQueue, MoveMain
  <2>3. OutRight' /\ HandRight'
    BY <1>2, <1>6, <2>1, <2>2 DEF OutRight, HandRight
  <2> QED
    BY <1>7, <1>9, <2>1, <2>2, <2>3
<1>12. CASE Store
  <2> DEFINE m == QueryNumber(req, query)
  <2>1. /\ mpc = "store" /\ mpc' = "relock" /\ query' = query + 1
        /\ response' = [response EXCEPT ![m] = result.response]
        /\ UNCHANGED <<output, tpc, current, results>>
        /\ result.index = query /\ result.index \in Indices
    BY <1>12 DEF Store, MoveMain, workerVars, sharedVars, Typed, StoresNext
  <2>2. ~PushQueue
    BY <2>1 DEF PushQueue, MoveMain
  <2>3. Right(query, result.response) /\ FiledRight
    BY <1>6, <2>1, <2>2 DEF HandRight
  <2>4. /\ m \in Names /\ response'[m] = result.response
        /\ \A n \in Names \ {m} : response'[n] = response[n]
    BY <1>1, <2>1
  <2>5. ASSUME NEW n \in Names, NEW i \in Indices, FiledLast(n, i)'
        PROVE  Right(i, response'[n])
    <3>1. /\ i < query + 1 /\ QueryNumber(req, i) = n
          /\ \A j \in Indices : j < query + 1 /\ QueryNumber(req, j) = n => j <= i
      BY <1>1, <2>1, <2>5 DEF FiledLast
    <3>2. CASE i = query
      BY <2>3, <2>4, <3>1, <3>2
    <3>3. CASE i < query
      <4>1. n # m
        BY <1>1, <2>1, <3>1, <3>3
      <4>2. FiledLast(n, i)
        BY <1>1, <3>1, <3>3 DEF FiledLast
      <4> QED
        BY <2>3, <2>4, <4>1, <4>2 DEF FiledRight
    <3> QED
      BY <1>1, <3>1, <3>2, <3>3
  <2>6. ASSUME NEW n \in Names, \A i \in Indices : i < query' => QueryNumber(req, i) # n
        PROVE  response'[n] = NoAnswer
    BY <1>1, <2>1, <2>3, <2>4, <2>6 DEF FiledRight
  <2>7. FiledRight'
    BY <1>1, <1>2, <2>5, <2>6 DEF FiledRight
  <2>8. HandRight'
    BY <2>1 DEF HandRight
  <2> QED
    BY <1>8, <1>9, <2>1, <2>2, <2>7, <2>8
<1>13. ASSUME NEW t \in Threads, Worker(t)
       PROVE  PushRight' /\ OutRight' /\ HandRight' /\ FiledRight'
  <2>1. /\ ~PushQueue /\ UNCHANGED <<query, response, result>>
        /\ mpc' = mpc \/ (mpc = "wait" /\ mpc' = "woken")
    BY <1>13, WorkerFrame DEF PushQueue, MoveMain, collectorVars
  <2>2. HandRight' /\ FiledRight'
    BY <1>2, <1>6, <1>7, <2>1 DEF HandRight
  <2>3. CASE InitFront(t) \/ InitPop(t) \/ InitAnswers(t) \/ InitThrows(t)
    <3>1. Failing(t)'
      BY <1>1, <2>3 DEF InitFront, InitPop, InitAnswers, InitThrows, MoveThread, Failing, workerVars
    <3> QED
      BY <1>4, <3>1 DEF Healthy
  <2>4. CASE Initialized(t) \/ HasWork(t) \/ NoWork(t) \/ PopNothing(t) \/ PrintThrows(t)
    <3>1. /\ UNCHANGED <<output, current, results>>
          /\ \A u \in Threads : tpc'[u] = "push" => tpc[u] = "push"
      BY <1>1, <2>4 DEF Initialized, HasWork, NoWork, PopNothing, PrintThrows,
                        MoveThread, workerVars, sharedVars
    <3> QED
      BY <1>8, <1>9, <2>1, <2>2, <3>1
  <2>5. CASE PopQuery(t)
    <3>1. /\ UNCHANGED <<output, results>> /\ tpc' = [tpc EXCEPT ![t] = "run"]
          /\ \A u \in Threads \ {t} : current'[u] = current[u]
      BY <2>5 DEF PopQuery, MoveThread, Typed, TypeOK
    <3>2. PushRight'
      BY <1>1, <1>2, <1>6, <2>1, <3>1 DEF PushRight
    <3> QED
      BY <1>8, <2>1, <2>2, <3>1, <3>2
  <2>6. CASE RunQuery(t)
    <3>1. /\ UNCHANGED <<output, current>> /\ tpc' = [tpc EXCEPT ![t] = "push"]
          /\ \A u \in Threads \ {t} : results'[u] = results[u]
          /\ ~Skipped(current[t]) => results'[t] = Found(current[t])
      BY <1>1, <2>6 DEF RunQuery, MoveThread, sharedVars
    <3>2. Right(current[t], results'[t])
      BY <3>1 DEF Right
    <3>3. PushRight'
      BY <1>1, <1>2, <1>6, <2>1, <3>1, <3>2 DEF PushRight
    <3> QED
      BY <1>8, <2>1, <2>2, <3>1, <3>3
  <2>7. CASE PushOutput(t)
    <3>1. /\ UNCHANGED <<current, results>>
          /\ output' = output \cup {[index |-> current[t], response |-> results[t]]}
          /\ tpc[t] = "push" /\ tpc' = [tpc EXCEPT ![t] = "idle"]
      BY <2>7 DEF PushOutput, Answer, MoveThread
    <3>2. Right(current[t], results[t])
      BY <1>6, <2>1, <3>1 DEF PushRight
    <3>3. OutRight'
      BY <1>2, <1>6, <2>1, <3>1, <3>2 DEF OutRight
    <3>4. \A u \in Threads : tpc'[u] = "push" => tpc[u] = "push"
      BY <1>1, <3>1
    <3> QED
      BY <1>9, <2>1, <2>2, <3>1, <3>3, <3>4
  <2> QED
    BY <1>13, <2>3, <2>4, <2>5, <2>6, <2>7 DEF Worker
<1>14. CASE UNCHANGED vars
  <2>1. /\ UNCHANGED <<query, response, output, current, results, tpc, mpc, result>>
        /\ ~PushQueue
    BY <1>14 DEF vars, PushQueue, MoveMain
  <2> QED
    BY <1>2, <1>6, <1>7, <1>8, <1>9, <2>1 DEF HandRight
<1>15. ~Refuse
  BY <1>4 DEF Refuse, Working
<1> QED
  BY <1>5, <1>10, <1>11, <1>12, <1>13, <1>14, <1>15 DEF Next, Collector

LEMMA AnsweredFaithful == Typed /\ Phased /\ Answered => ReplyFaithful
<1> SUFFICES ASSUME Typed, Phased, Answered, mpc = "done", Accepts(req), NEW n \in Names
             PROVE  /\ \A i \in IndicesOf(req) :
                         LastOf(req, n, i) /\ ~NotRun(req, i) => response[n] = ResultOf(req, i)
                    /\ (\A i \in IndicesOf(req) : QueryNumber(req, i) # n)
                          => response[n] = NoAnswer
  BY DEF ReplyFaithful, Faithful
<1>1. /\ query = QueryCount /\ launched = ThreadCount
      /\ \A t \in 1 .. ThreadCount : tpc[t] = "ended"
  BY DEF Phased
<1>2. Working /\ Healthy
  BY <1>1, CommandTyped, PoolAssumption DEF Working, Healthy, Failing, Phased, Threads, Typed
<1>3. FiledRight /\ \A i \in Indices : i < query
  BY <1>1, <1>2, CommandTyped DEF Answered, Typed, Indices
<1> QED
  BY <1>3, CommandTyped DEF FiledRight, FiledLast, LastOf, Right, Skipped, Found, Typed

LEMMA AnsweredHolds == Spec => [](Typed /\ Phased /\ Answered)
<1>1. Init => Placed /\ Answered
  BY DEF Init, Placed, Answered, Working
<1> QED
  BY TypedInit, TypedStep, PhasedInit, PhasedStep, PlacedStep, AnsweredStep, <1>1, PTL DEF Spec

(* The reply holds, under each number, the answer a sequential handler     *)
(* would have given, whatever the order in which the workers finish.       *)
THEOREM ReplyIsFaithful == Spec => []ReplyFaithful
BY AnsweredHolds, AnsweredFaithful, PTL

(* QueryService reads commands as QueryPool does.                          *)
LEMMA SameReading ==
  ASSUME NEW r, NEW f
  PROVE  /\ Service!Accepts(r) <=> Accepts(r)
         /\ Service!Faithful(r, f) <=> Faithful(r, f)
         /\ Service!Sendable(r, f) <=> Sendable(r, f)
BY DEF Service!Accepts, Accepts, Service!Faithful, Faithful, Service!IndicesOf, IndicesOf,
       Service!KindOf, KindOf, Service!QueryNumber, QueryNumber, Service!LastOf, LastOf,
       Service!NotRun, NotRun, Service!ResultOf, ResultOf, Service!Sendable, Sendable

LEMMA ServiceInit == Init => Service!Init
BY DEF Init, Service!Init, Service!Empty, Shown

LEMMA ServiceStep ==
  Typed /\ Phased /\ Answered /\ ReplyFaithful' /\ [Next]_vars
    => [Service!Next]_(Service!vars)
<1> SUFFICES ASSUME Typed, Phased, Answered, ReplyFaithful', [Next]_vars
             PROVE  [Service!Next]_(Service!vars)
  OBVIOUS
<1> USE DEF Service!Next, Service!vars, Service!Pending
<1>1. req' = req
  BY SameCommand
<1>2. ASSUME UNCHANGED <<reply, crashed>>, mpc = "done" <=> mpc' = "done",
             mpc = "done" => response' = response
      PROVE  UNCHANGED Service!vars
  BY <1>1, <1>2 DEF Shown
<1>3. CASE Refuse
  <2>1. /\ reply = "none" /\ reply' = "error" /\ ~crashed /\ crashed' = crashed /\ ~Accepts(req)
        /\ mpc = "start" /\ mpc' = "done" /\ response' = response
    BY <1>3 DEF Refuse, MoveMain, Phased, fate
  <2>2. response = [n \in Names |-> NoAnswer]
    BY <2>1 DEF Answered, Typed, TypeOK
  <2>3. Shown' = Shown
    BY <2>1, <2>2 DEF Shown
  <2> QED
    BY <1>1, <2>1, <2>3, SameReading DEF Service!Refuse
<1>4. CASE JoinAndSend
  <2>1. /\ mpc = "join" /\ ~crashed /\ crashed' = crashed /\ reply' = Sent /\ mpc' = "done"
        /\ response' = response
    BY <1>4 DEF JoinAndSend, MoveMain, fate
  <2>2. reply = "none" /\ Accepts(req)
    BY <2>1 DEF Phased
  <2>3. Faithful(req, Shown') /\ Shown' = response
    BY <1>1, <2>1, <2>2 DEF ReplyFaithful, Shown
  <2>4. CASE Sendable(req, response)
    <3>1. reply' = "results"
      BY <2>1, <2>4 DEF Sent
    <3> QED
      BY <1>1, <2>1, <2>2, <2>3, <2>4, <3>1, SameReading DEF Service!Serve
  <2>5. CASE ~Sendable(req, response)
    <3>1. reply' = "error"
      BY <2>1, <2>5 DEF Sent
    <3> QED
      BY <1>1, <2>1, <2>2, <2>3, <2>5, <3>1, SameReading DEF Service!FailToSend
  <2> QED
    BY <2>4, <2>5
<1>5. CASE Store
  BY <1>2, <1>5 DEF Store, MoveMain, Phased, fate
<1>6. CASE \/ PushQueue \/ StartThread \/ Launched \/ Lock \/ Wait \/ Wake \/ SpuriousWakeup
           \/ Collect \/ NothingToCollect \/ Relock \/ AllCollected
  BY <1>2, <1>6 DEF PushQueue, StartThread, Launched, Lock, Wait, Wake, SpuriousWakeup, Collect,
                    NothingToCollect, Relock, AllCollected, MoveMain, collectorVars, fate
<1>7. ASSUME NEW t \in Threads, Worker(t) PROVE [Service!Next]_(Service!vars)
  <2>1. /\ UNCHANGED <<reply, response>> /\ reply = "none"
        /\ mpc # "done" /\ mpc' # "done" /\ Accepts(req)
    BY <1>7, WorkerFrame DEF collectorVars, Phased
  <2>2. CASE crashed' = crashed
    BY <1>2, <2>1, <2>2
  <2>3. CASE crashed' # crashed
    <3>1. ~crashed /\ (crashed' = TRUE \/ crashed' = crashed)
      <4>1. CASE InitPop(t)
        BY <4>1 DEF InitPop, MoveThread, Typed, TypeOK
      <4>2. CASE InitThrows(t) \/ PrintThrows(t)
        BY <4>2 DEF InitThrows, PrintThrows
      <4>3. CASE \/ Initialized(t) \/ InitFront(t) \/ InitAnswers(t) \/ HasWork(t) \/ NoWork(t)
                 \/ PopQuery(t) \/ PopNothing(t) \/ RunQuery(t) \/ PushOutput(t)
        <5>1. UNCHANGED fate
          BY <4>3 DEF Initialized, InitFront, InitAnswers, HasWork, NoWork, PopQuery,
                      PopNothing, RunQuery, PushOutput, fate
        <5> QED
          BY <2>3, <5>1 DEF fate
      <4> QED
        BY <1>7, <4>1, <4>2, <4>3 DEF Worker
    <3>2. Shown' = Shown
      BY <2>1 DEF Shown
    <3> QED
      BY <1>1, <2>1, <2>3, <3>1, <3>2, SameReading DEF Service!Die
  <2> QED
    BY <2>2, <2>3
<1>8. CASE UNCHANGED vars
  BY <1>2, <1>8 DEF vars
<1> QED
  BY <1>3, <1>4, <1>5, <1>6, <1>7, <1>8 DEF Next, Collector

(* handleQuery, with all its threads, implements QueryService.             *)
THEOREM PoolImplementsService == Spec => ImplementsService
BY ServiceInit, ServiceStep, AnsweredHolds, ReplyIsFaithful, PTL
DEF Spec, ImplementsService, Service!Spec
-----------------------------------------------------------------------------
(* From its look at the output to its sleep the collector holds queueLock, *)
(* so that it misses nothing it has not been told of.                      *)
Alert == mpc \in {"outer", "wait"} /\ query > 0 /\ Healthy => ~InOutput(query)

LEMMA AlertStep == Typed /\ Phased /\ Placed /\ Alert /\ [Next]_vars => Alert'
<1> SUFFICES ASSUME Typed, Phased, Placed, Alert, [Next]_vars,
                    mpc' \in {"outer", "wait"}, query' > 0, Healthy'
             PROVE  ~InOutput(query)'
  BY DEF Alert
<1>1. Healthy
  BY StaysHealthy
<1>2. CASE Lock
  BY <1>2 DEF Lock, MoveMain, Phased, collectorVars
<1>3. CASE NothingToCollect
  <2>1. Working /\ mpc = "inner" /\ UNCHANGED <<query, output>> /\ QueryCount \in Nat
        /\ ~ \E o \in output : IsTop(o) /\ o.index = query
    BY <1>3, CommandTyped DEF NothingToCollect, MoveMain, Working, Phased, collectorVars,
                              sharedVars, Typed
  <2>2. SUFFICES ASSUME NEW o \in output, o.index = query PROVE FALSE
    BY <2>1 DEF InOutput
  <2>3. PICK p \in output : p.index < query
    BY <2>1, <2>2 DEF IsTop, Typed, TypeOK, Indices
  <2>4. p.index \in Indices /\ InOutput(p.index) /\ Filed(p.index)
    BY <2>3 DEF InOutput, Filed, Typed, TypeOK
  <2> QED
    BY <1>1, <2>1, <2>4 DEF Placed, Once
<1>4. CASE Wait
  BY <1>1, <1>4 DEF Wait, MoveMain, Alert, InOutput, sharedVars
<1>5. CASE \/ Refuse \/ PushQueue \/ StartThread \/ Launched \/ Wake \/ SpuriousWakeup \/ Collect
           \/ Store \/ Relock \/ AllCollected \/ JoinAndSend
  BY <1>5 DEF Refuse, PushQueue, StartThread, Launched, Wake, SpuriousWakeup, Collect, Store,
              Relock, AllCollected, JoinAndSend, MoveMain
<1>6. ASSUME NEW t \in Threads, Worker(t) PROVE ~InOutput(query)'
  <2>1. mpc = mpc' /\ query' = query
    BY <1>6, WorkerFrame DEF collectorVars
  <2>2. CASE PushOutput(t)
    BY <2>1, <2>2 DEF PushOutput, LockFree, HoldsLock, Answer, NotifyAll
  <2>3. CASE InitFront(t) \/ InitPop(t) \/ InitAnswers(t) \/ InitThrows(t)
    <3>1. Failing(t)'
      BY <2>3 DEF InitFront, InitPop, InitAnswers, InitThrows, MoveThread, Failing,
                  workerVars, Typed, TypeOK
    <3> QED
      BY <3>1 DEF Healthy
  <2>4. CASE \/ Initialized(t) \/ HasWork(t) \/ NoWork(t) \/ PopQuery(t) \/ PopNothing(t)
             \/ RunQuery(t) \/ PrintThrows(t)
    <3>1. output' = output
      BY <2>4 DEF Initialized, HasWork, NoWork, PopQuery, PopNothing, RunQuery, PrintThrows,
                  sharedVars
    <3> QED
      BY <1>1, <2>1, <3>1 DEF Alert, InOutput
  <2> QED
    BY <1>6, <2>2, <2>3, <2>4 DEF Worker
<1>7. CASE UNCHANGED vars
  BY <1>1, <1>7 DEF vars, Alert, InOutput
<1> QED
  BY <1>2, <1>3, <1>4, <1>5, <1>6, <1>7 DEF Next, Collector

(* Once it has collected an answer, the collector never sleeps on the next *)
(* one while that one is there.                                            *)
THEOREM NoWakeupMissed == Spec => []NoMissedWakeup
<1>1. Init => Placed /\ Alert
  BY DEF Init, Placed, Alert, Working
<1>2. Alert => NoMissedWakeup
  BY DEF Alert, NoMissedWakeup
<1> QED
  BY TypedInit, TypedStep, PhasedInit, PhasedStep, PlacedStep, AlertStep, <1>1, <1>2, PTL DEF Spec
=============================================================================
