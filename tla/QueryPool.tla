------------------------------ MODULE QueryPool ------------------------------
(***************************************************************************)
(* handleQuery and QueryThread of indriserver/QueryHandler.cpp.            *)
(*                                                                         *)
(* One "query" command carries a list of queries.  The thread that calls   *)
(* handleQuery (the collector) pushes them on a std::queue, starts up to   *)
(* ThreadLimit workers, and then collects their answers, in the order of   *)
(* the list, from a priority queue.  Queue and output share one mutex, the *)
(* collector sleeps on one condition variable.                             *)
(*                                                                         *)
(* A critical section of a worker is one action, enabled when the          *)
(* collector does not hold queueLock.  The collector holds it exactly in   *)
(* the control points of HoldsLock.  The error path of initialize() takes  *)
(* no lock, as in the code: each of its accesses to the queue and to the   *)
(* output is a step of its own, which may fall anywhere.                   *)
(***************************************************************************)
EXTENDS QueryCommands

CONSTANTS
  ThreadLimit,   \* the most workers one command is given
  InitError,     \* "Error while answering query: ..."
  IndriMayFail,  \* may an Indri call fail for no reason found in the request?
  MaxSpurious    \* bound: spurious wakeups of the condition variable

ASSUME PoolAssumption ==
  /\ ThreadLimit \in Nat \ {0}
  /\ MaxSpurious \in Nat
  /\ IndriMayFail \in BOOLEAN
  /\ InitError \notin Nat \cup {NoResults, NoAnswer}

VARIABLES
  req,        \* the command being handled
  mpc,        \* control point of the collector
  launched,   \* how many workers have been started
  query,      \* next index to collect (local variable "query")
  result,     \* the answer the collector took off the output last
  response,   \* the JSON object under construction
  reply,      \* what handleQuery sent: "none", "results" or "error"
  tpc,        \* control point of each worker
  current,    \* index of the query a worker holds
  results,    \* _results, a member that outlives the query it was computed for
  queries,    \* std::queue of the indices nobody has taken yet
  output,     \* priority queue of answers, least index first
  spurious,   \* spurious wakeups so far
  crashed     \* an exception left a thread function: std::terminate

collectorVars == <<req, launched, query, result, response, reply>>
workerVars    == <<tpc, current, results>>
sharedVars    == <<queries, output>>
fate          == <<spurious, crashed>>
vars == <<req, mpc, launched, query, result, response, reply, tpc, current,
          results, queries, output, spurious, crashed>>

Threads     == 1 .. ThreadLimit
QueryCount  == Len(req.query)
Indices     == 0 .. QueryCount - 1
ThreadCount == IF QueryCount < ThreadLimit THEN QueryCount ELSE ThreadLimit
HoldsLock   == {"outer", "inner"}
LockFree    == mpc \notin HoldsLock

CollectorPoints == {"start", "launch", "lock", "outer", "wait", "woken",
                    "inner", "store", "relock", "join", "done"}
WorkerPoints == {"new", "init", "initPop", "initAnswer", "initThrow", "idle",
                 "pop", "run", "push", "ended"}
-----------------------------------------------------------------------------
Init ==
  /\ req \in Requests
  /\ mpc = "start" /\ launched = 0 /\ query = 0 /\ result = NoAnswer
  /\ response = [n \in Names |-> NoAnswer]
  /\ reply = "none"
  /\ tpc = [t \in Threads |-> "new"]
  /\ current = [t \in Threads |-> 0]
  /\ results = [t \in Threads |-> NoResults]
  /\ queries = <<>> /\ output = {}
  /\ spurious = 0 /\ crashed = FALSE

(* No thread takes a step in a process that std::terminate has ended.      *)
MoveMain(from, to)      == ~crashed /\ mpc = from /\ mpc' = to
MoveThread(t, from, to) == ~crashed /\ tpc[t] = from /\ tpc' = [tpc EXCEPT ![t] = to]

(* notifyAll: the collector, if it sleeps, has to take the lock again.     *)
NotifyAll == mpc' = IF mpc = "wait" THEN "woken" ELSE mpc

(* The least index of the priority queue (query_t::greater orders it).     *)
IsTop_Greatest(o) == o \in output /\ \A p \in output : o.index >= p.index
IsTop(o) == o \in output /\ \A p \in output : o.index <= p.index
-----------------------------------------------------------------------------
(* The collector.                                                          *)

Refuse == /\ MoveMain("start", "done")
          /\ ~Accepts(req)
          /\ reply' = "error"
          /\ UNCHANGED <<req, launched, query, result, response, workerVars, sharedVars, fate>>

PushQueue == /\ MoveMain("start", "launch")
             /\ Accepts(req)
             /\ queries' = [k \in 1 .. QueryCount |-> k - 1]
             /\ UNCHANGED <<collectorVars, workerVars, output, fate>>

StartThread_OneTooMany == /\ ~crashed /\ mpc = "launch"
                          /\ launched <= ThreadCount
                          /\ launched' = launched + 1
                          /\ tpc' = [tpc EXCEPT ![launched + 1] = "init"]
                          /\ UNCHANGED <<req, mpc, query, result, response, reply,
                                         current, results, sharedVars, fate>>

StartThread == /\ ~crashed /\ mpc = "launch"
               /\ launched < ThreadCount
               /\ launched' = launched + 1
               /\ tpc' = [tpc EXCEPT ![launched + 1] = "init"]
               /\ UNCHANGED <<req, mpc, query, result, response, reply, current,
                              results, sharedVars, fate>>

Launched == /\ MoveMain("launch", "lock")
            /\ launched = ThreadCount
            /\ UNCHANGED <<collectorVars, workerVars, sharedVars, fate>>

(* queueLock.lock() before the outer loop.                                 *)
Lock == /\ MoveMain("lock", "outer")
        /\ UNCHANGED <<collectorVars, workerVars, sharedVars, fate>>

(* An iteration of the outer loop sleeps without looking at the output.    *)
Wait == /\ MoveMain("outer", "wait")
        /\ query < QueryCount
        /\ result' = NoAnswer
        /\ UNCHANGED <<req, launched, query, response, reply, workerVars, sharedVars, fate>>

SpuriousWakeup == /\ MoveMain("wait", "woken")
                  /\ spurious < MaxSpurious
                  /\ spurious' = spurious + 1
                  /\ UNCHANGED <<collectorVars, workerVars, sharedVars, crashed>>

Wake == /\ MoveMain("woken", "inner")
        /\ UNCHANGED <<collectorVars, workerVars, sharedVars, fate>>

(* The inner loop takes the top of the output while it is the next answer, *)
(* and files it with the lock released.                                    *)
Collect == /\ MoveMain("inner", "store")
           /\ \E o \in output : /\ IsTop(o)
                               /\ o.index = query
                               /\ result' = o
                               /\ output' = output \ {o}
           /\ UNCHANGED <<req, launched, query, response, reply, workerVars, queries, fate>>

NothingToCollect == /\ MoveMain("inner", "outer")
                    /\ ~ \E o \in output : IsTop(o) /\ o.index = query
                    /\ UNCHANGED <<collectorVars, workerVars, sharedVars, fate>>

Store_ByPosition ==
         /\ MoveMain("store", "relock")
         /\ response' = [response EXCEPT ![req.queryOffset + query] = result.response]
         /\ query' = query + 1
         /\ UNCHANGED <<req, launched, result, reply, workerVars, sharedVars, fate>>

Store == /\ MoveMain("store", "relock")
         /\ response' = [response EXCEPT ![QueryNumber(req, result.index)] = result.response]
         /\ query' = query + 1
         /\ UNCHANGED <<req, launched, result, reply, workerVars, sharedVars, fate>>

Relock == /\ MoveMain("relock", "inner")
          /\ UNCHANGED <<collectorVars, workerVars, sharedVars, fate>>

AllCollected == /\ MoveMain("outer", "join")
                /\ query >= QueryCount
                /\ UNCHANGED <<collectorVars, workerVars, sharedVars, fate>>

(* A text frame that is not UTF-8 makes send throw; the handlers of        *)
(* handleQuery then reply with the error.                                  *)
Sent == IF Sendable(req, response) THEN "results" ELSE "error"

JoinAndSend_NoJoin == /\ MoveMain("join", "done")
                      /\ reply' = Sent
                      /\ UNCHANGED <<req, launched, query, result, response,
                                     workerVars, sharedVars, fate>>

JoinAndSend == /\ MoveMain("join", "done")
               /\ \A t \in 1 .. ThreadCount : tpc[t] = "ended"
               /\ reply' = Sent
               /\ UNCHANGED <<req, launched, query, result, response, workerVars, sharedVars, fate>>

Collector == \/ Refuse \/ PushQueue \/ StartThread \/ Launched \/ Lock \/ Wait
             \/ Wake \/ Collect \/ NothingToCollect \/ Store \/ Relock
             \/ AllCollected \/ JoinAndSend
-----------------------------------------------------------------------------
(* The workers.  UtilityThread (Indri) runs initialize(), then work() as   *)
(* long as hasWork() says so; join() lets it end once there is none.       *)

(* An answer joins the priority queue and the collector is notified.       *)
Answer_Overwrites(i, r) == output' = {[index |-> i, response |-> r]} /\ NotifyAll

Answer(i, r) == /\ output' = output \cup {[index |-> i, response |-> r]}
                /\ NotifyAll

(* asIndriParameters throws, so a command with feedback documents cannot   *)
(* build its expander; opening the index or setting a rule may fail too.   *)
InitFails    == req.fbDocs \/ IndriMayFail
InitSucceeds == ~req.fbDocs

Initialized(t) == /\ MoveThread(t, "init", "idle")
                  /\ InitSucceeds \/ queries = <<>>
                  /\ UNCHANGED <<mpc, collectorVars, current, results, sharedVars, fate>>

(* The handlers of initialize() take one query, answer it with the error   *)
(* and rethrow; nothing catches what they rethrow.  front() and pop() race *)
(* with the other workers, who may take the same query, or empty the queue *)
(* in between: pop() of an empty queue is undefined and ends the process   *)
(* here.  A push on the output that races with another one may be lost.    *)
InitFront(t) == /\ MoveThread(t, "init", "initPop")
                /\ InitFails
                /\ queries # <<>>
                /\ current' = [current EXCEPT ![t] = Head(queries)]
                /\ UNCHANGED <<mpc, collectorVars, results, sharedVars, fate>>

InitPop(t) == /\ MoveThread(t, "initPop", "initAnswer")
              /\ IF queries = <<>> THEN queries' = queries /\ crashed' = TRUE
                                  ELSE queries' = Tail(queries) /\ crashed' = FALSE
              /\ UNCHANGED <<mpc, collectorVars, current, results, output, spurious>>

InitAnswers(t) == /\ MoveThread(t, "initAnswer", "initThrow")
                  /\ \/ Answer(current[t], InitError)
                     \/ output' = output /\ NotifyAll
                  /\ UNCHANGED <<collectorVars, current, results, queries, fate>>

InitThrows(t) == /\ ~crashed /\ tpc[t] = "initThrow"
                 /\ crashed' = TRUE
                 /\ UNCHANGED <<mpc, collectorVars, workerVars, sharedVars, spurious>>

HasWork(t) == /\ LockFree
              /\ queries # <<>>
              /\ MoveThread(t, "idle", "pop")
              /\ UNCHANGED <<mpc, collectorVars, current, results, sharedVars, fate>>

NoWork(t) == /\ LockFree
             /\ queries = <<>>
             /\ MoveThread(t, "idle", "ended")
             /\ UNCHANGED <<mpc, collectorVars, current, results, sharedVars, fate>>

(* work() looks again: another worker may have been faster.                *)
PopQuery_Keeps(t) == /\ LockFree
                     /\ queries # <<>>
                     /\ MoveThread(t, "pop", "run")
                     /\ current' = [current EXCEPT ![t] = Head(queries)]
                     /\ UNCHANGED <<mpc, collectorVars, results, sharedVars, fate>>

PopQuery(t) == /\ LockFree
               /\ queries # <<>>
               /\ MoveThread(t, "pop", "run")
               /\ current' = [current EXCEPT ![t] = Head(queries)]
               /\ queries' = Tail(queries)
               /\ UNCHANGED <<mpc, collectorVars, results, output, fate>>

PopNothing(t) == /\ LockFree
                 /\ queries = <<>>
                 /\ MoveThread(t, "pop", "idle")
                 /\ UNCHANGED <<mpc, collectorVars, current, results, sharedVars, fate>>

(* _results stays what it was when the query is not run.                   *)
Skipped(i) == NotRun(req, i)
Found(i)   == ResultOf(req, i)

RunQuery_KeepsOnFailure(t) ==
  LET i == current[t]
  IN  /\ MoveThread(t, "run", "push")
      /\ results' = IF Skipped(i) \/ KindOf(req, i) = "failing" THEN results
                    ELSE [results EXCEPT ![t] = Found(i)]
      /\ UNCHANGED <<mpc, collectorVars, current, sharedVars, fate>>

RunQuery(t) ==
  LET i == current[t]
  IN  /\ MoveThread(t, "run", "push")
      /\ results' = IF Skipped(i) THEN results ELSE [results EXCEPT ![t] = Found(i)]
      /\ UNCHANGED <<mpc, collectorVars, current, sharedVars, fate>>

(* _printResults asks Indri for document names, outside the try block.     *)
PrintThrows(t) == /\ ~crashed /\ tpc[t] = "push"
                  /\ IndriMayFail
                  /\ results[t] # NoResults
                  /\ crashed' = TRUE
                  /\ UNCHANGED <<mpc, collectorVars, workerVars, sharedVars, spurious>>

PushOutput_Silent(t) ==
  /\ LockFree
  /\ MoveThread(t, "push", "idle")
  /\ output' = output \cup {[index |-> current[t], response |-> results[t]]}
  /\ UNCHANGED <<mpc, collectorVars, current, results, queries, fate>>

PushOutput(t) == /\ LockFree
                 /\ MoveThread(t, "push", "idle")
                 /\ Answer(current[t], results[t])
                 /\ UNCHANGED <<collectorVars, current, results, queries, fate>>

Worker(t) == \/ Initialized(t) \/ InitFront(t) \/ InitPop(t) \/ InitAnswers(t)
             \/ InitThrows(t) \/ HasWork(t) \/ NoWork(t) \/ PopQuery(t) \/ PopNothing(t)
             \/ RunQuery(t) \/ PrintThrows(t) \/ PushOutput(t)
-----------------------------------------------------------------------------
Next == \/ Collector
        \/ SpuriousWakeup
        \/ \E t \in Threads : Worker(t)

(* Every thread that can run does run eventually.  No strong fairness is   *)
(* needed on queueLock: the collector gives it back for good when it       *)
(* sleeps, and it is woken only finitely often.                            *)
Fairness == WF_vars(Collector) /\ \A t \in Threads : WF_vars(Worker(t))

Spec == Init /\ [][Next]_vars /\ Fairness
-----------------------------------------------------------------------------
Answers == Nat \cup {NoResults, InitError}
Outputs == [index : Nat, response : Answers]

(* Types.  Between PushQueue and the reply, query never passes QueryCount. *)
TypeOK ==
  /\ req \in RequestType
  /\ mpc \in CollectorPoints
  /\ launched \in 0 .. ThreadCount
  /\ query \in 0 .. QueryCount
  /\ result \in Outputs \cup {NoAnswer}
  /\ response \in [Names -> Answers \cup {NoAnswer}]
  /\ reply \in {"none", "results", "error"}
  /\ tpc \in [Threads -> WorkerPoints]
  /\ current \in [Threads -> Nat]
  /\ results \in [Threads -> Nat \cup {NoResults}]
  /\ queries \in Seq(Indices)
  /\ output \subseteq [index : Indices, response : Answers]
  /\ spurious \in 0 .. MaxSpurious
  /\ crashed \in BOOLEAN

(* Where the query of index i can be.                                      *)
Queued(i)     == \E k \in 1 .. Len(queries) : queries[k] = i
Carried(t, i) == tpc[t] \in {"run", "push"} /\ current[t] = i
InOutput(i)   == \E o \in output : o.index = i
InHand(i)     == mpc = "store" /\ result.index = i
Filed(i)      == i < query

(* A worker that is in a handler of initialize() never leaves it alive.    *)
Failing(t)    == tpc[t] \in {"initPop", "initAnswer", "initThrow"}
Healthy       == \A t \in Threads : ~Failing(t)
Working       == mpc # "start" /\ Accepts(req)

(* No query is lost: from the moment the list is pushed every one of them  *)
(* is waiting, being run, answered or filed, whatever the workers do, for  *)
(* as long as no initialize() has failed.                                  *)
NoneLost ==
  Working /\ Healthy =>
    \A i \in Indices : \/ Queued(i) \/ InOutput(i) \/ InHand(i) \/ Filed(i)
                       \/ \E t \in Threads : Carried(t, i)

(* No query is run or answered twice: two workers never carry the same     *)
(* one, and one that is carried, answered or filed is not to be had again. *)
NoneDoubled ==
  Healthy =>
    \A i \in Indices :
      /\ \A t, u \in Threads : Carried(t, i) /\ Carried(u, i) => t = u
      /\ \A o, p \in output : o.index = i /\ p.index = i => o = p
      /\ Queued(i) => ~InOutput(i) /\ ~InHand(i) /\ ~Filed(i)
      /\ InOutput(i) => ~InHand(i) /\ ~Filed(i)
      /\ (\E t \in Threads : Carried(t, i)) =>
            ~Queued(i) /\ ~InOutput(i) /\ ~InHand(i) /\ ~Filed(i)

(* The response is the one a sequential handler would make, whatever the   *)
(* order in which the workers finish, and whether it can be sent or not.   *)
ReplyFaithful == mpc = "done" /\ Accepts(req) => Faithful(req, response)

(* handleQuery implements QueryService: the response is seen when it is    *)
(* sent, or refused, and an exception that leaves a thread function is its *)
(* death.                                                                  *)
Shown   == IF mpc = "done" THEN response ELSE [n \in Names |-> NoAnswer]
Service == INSTANCE QueryService WITH response <- Shown, dead <- crashed
ImplementsService == Service!Spec

(* Once it has collected an answer, the collector never sleeps on one that *)
(* is already there: between its look at the output and its sleep nobody   *)
(* can push without waking it.  (An initialize() that fails pushes without *)
(* the lock and may slip in; it takes the process down.)                   *)
NoMissedWakeup == mpc = "wait" /\ query > 0 /\ Healthy => ~InOutput(query)

(* The queue, the output, the mutex and the condition variable are locals  *)
(* of handleQuery: when it returns no worker may still be using them.      *)
WorkersGone ==
  mpc = "done" => \A t \in Threads : tpc[t] \in {"new", "ended"}

(* A command whose collector falls asleep before its last answer is pushed *)
(* is answered, unless an exception takes the process down.                *)
OutputToCome == \E i \in Indices : ~InOutput(i) /\ ~Filed(i)
SleeperServed == (mpc = "wait" /\ OutputToCome) ~> (reply # "none" \/ crashed)

(* Stronger, and what "process output as it appears on the queue" says:    *)
(* when the next answer is on the output, the collector takes it.          *)
NextReady       == Working /\ query < QueryCount /\ InOutput(query)
OutputProcessed == NextReady ~> (~NextReady \/ crashed)

(* An entry of the reply never holds the results of another query.         *)
OwnResults ==
  reply = "results" =>
    \A n \in Names : response[n] \in Nat => QueryNumber(req, response[n]) = n
=============================================================================
