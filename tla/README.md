# A TLA+ verification of the EARIA 2016 Indri server

The repository holds the material of a summer school on information retrieval: a
WebSocket server around the Indri search engine (`src/indriserver`), a C++ and a
Python client, a leaderboard with its evaluation scripts, and the web page that
documents all of it. This directory holds TLA+ modules that model the parts of
it that have behaviour worth checking, the configurations TLC runs them with,
and proofs checked by TLAPS.

## The system

| part | code | state it keeps | operations |
|---|---|---|---|
| query pool | `indriserver/QueryHandler.cpp` | queue of queries, priority queue of answers, one mutex, one condition variable, up to four worker threads, the response under construction | `handleQuery`, `push_queue`, `QueryThread::initialize/hasWork/work` |
| dispatch | `indriserver/handler.cpp` | number of documents of the repository | `IndriServer::handle`, the five commands `query`, `document`, `docid`, `submit`, `leaderboard`, `Request::assertion` |
| leaderboard | `indriserver/Leaderboard.cpp` | logins read at start, one run file per name, SQLite table of scores | constructor, `submit`, `status` |
| server main | `indriserver/main.cpp` | the endpoint, one I/O thread, signal handlers | `serve`, `on_message`, `WebSocketRequest::send` |
| C++ client | `indriserver/clients/cpp/Connection.cpp`, `Application.cpp` | connection handle, queue of incoming messages, two mutexes with a condition variable each, one I/O thread | `send`, `receive`, open/close/message handlers, destructor |
| evaluation | `www/docs/session_eval.py`, `session_eval_main.py` | dictionaries of judgments, rankings, duplicates | reading and mapping judgments, precision measures, means |
| `websocketpp` | `websocketpp/impl/connection_impl.hpp`, its asio transport (vendored) | state of a connection, queue of frames, write flag, timer of the closing handshake | `send`, `close`, the handlers of reads, writes and timers, `terminate` |
| web page | `www/leaderboard.php`, `www/index.html`, `www/src/script.js` | none | table of scores, documentation of the API |

How they interact: the endpoint calls `on_message` in its only I/O thread; the
message goes through `IndriServer::handle` to one command, which answers on the
same connection before the I/O thread does anything else. A `query` command
starts its own threads and blocks the I/O thread until all of its queries are
answered. `submit` writes a file, runs the evaluation as a child process and
replaces a row of the table that `leaderboard.php` reads from another process.
A client has an I/O thread of its own, which communicates with the user's thread
through two condition variables.

### What is hard in it

- **Query pool.** Several threads share a queue, an output, one mutex and one
  condition variable; the collector sleeps before it has looked; the error path
  of a worker takes no lock and leaves its thread by an exception; a member of
  the worker outlives the query it was computed for; everything shared lives in
  the frame of a function that is about to return.
- **C++ client.** Two threads, two mutexes, a handle that is set and reset by
  handlers and read by calls, a destructor that closes, waits and joins, a
  connection that may never open and a server that may hang or go at any moment.
- **Dispatch.** Replies are sent by the commands and again by the handlers of
  their exceptions; a command holds the only I/O thread for as long as it takes,
  frames that arrive together are handled before any of their replies is
  written, `docid` deletes the collection of the repository a second time.
- **websocketpp.** `send` and `close` are called by another thread than the one
  that reads and writes; the write is handed over by a flag; the state is tested
  under a lock that `terminate` does not take; both ends may close at once.
- **Leaderboard.** A file, a child process and a database row are changed one
  after the other, without anything that ties them together, while another
  process reads the table.
- **Evaluation.** Sequential, but its arithmetic on judgments has corners: the
  largest judgment is kept before judgments are mapped by a mapping that is not
  monotone, documents may be listed twice, a topic may have no judgment.

`PROJECT.json` lists every such hazard at its line with the properties that
would catch it going wrong.

### What makes each part correct

| part | properties |
|---|---|
| query pool | no query is lost, run twice or answered under another's number; the response is that of a sequential handler, and is sent or, if it cannot be, replied to with one error; nobody sleeps on an answer that is there; no worker outlives the call; a command is answered |
| C++ client | the k-th receive returns the answer to the k-th send; a destroyed connection has no thread left; an exception ends the client only when the server has gone; receive returns, and so does the destructor unless the close handler is called twice |
| dispatch, server main | exactly one reply to each command, in the order of the commands of a connection, of its kind and about its document; a command is answered unless the server hangs or ends or the client has gone; every document that `docid` names is one that `document` returns |
| leaderboard | a row holds the score of a run its owner submitted, or of pieces of such runs; a submission with files of its own is given its own score; no score is returned before it is stored; a submission ends |
| evaluation | the largest judgment is kept; measures are those of their definitions and at most those of the ideal ranking; an exit code of success comes with every line or with none |
| `websocketpp` | messages arrive in order; a queued frame has a writer; a close overtakes no message; the server's close handler is called once; nothing moves once the client's destructor has returned, and it returns unless the client's close handler is called twice |

## Modules

| module | what it is | models |
|---|---|---|
| `QueryCommands` | constants, types and the reading of a `query` command, the answer of a sequential handler | `push_queue`, what `work` and `_runQuery` do with a query |
| `QueryService` | abstract specification: at most one reply, the right one, or an error if that cannot be sent | what `handleQuery` promises |
| `QueryPool` | the collector and its workers, step by step | `handleQuery`, `QueryThread` |
| `MCQueryPool` | the commands TLC starts from | |
| `QueryPoolProofs` | theorems about `QueryPool` | |
| `ClientConnection` | the user's thread, the I/O thread, the two directions of the connection and the server | `_Connection`, with the part of `websocketpp` it meets |
| `ClientConnectionProofs` | theorems about `ClientConnection` | |
| `WebSocket` | an open connection at both of its ends, with the steps between which threads and handlers interleave | `websocketpp`'s `connection`: `send`, `close`, writing, reading, the closing handshake, `terminate` |
| `WebSocketProofs` | theorems about `WebSocket` | |
| `Teardown` | the destructor of the client over the steps of `WebSocket` | `~_Connection`, the close handler |
| `TeardownProofs` | theorems about `Teardown` | |
| `CommandService` | abstract specification: what a connection may count on | what the server promises a client |
| `Server` | the I/O thread, its connections and the five commands | `serve`, `on_message`, `IndriServer::handle` |
| `MCServer` | the commands TLC starts from | |
| `ServerProofs` | theorems about `Server` | |
| `Scoreboard` | abstract specification: a table that changes by whole rows | what `submit` promises |
| `Leaderboard` | `submit` by its steps on files, a child process and a database | `Leaderboard.cpp`, `leaderboard.php` |
| `MCLeaderboard` | the runs TLC starts from, and the pieces of them | |
| `LeaderboardProofs` | theorems about `Leaderboard` | |
| `EvalMeasures` | precision, average precision, DCG and ERR, loop by loop | `MeasureEvaluator` |
| `EvalMeasuresProofs` | theorems about `EvalMeasures` | |
| `SessionEval` | the evaluation, pass by pass | `session_eval.py`, `session_eval_main.py` |
| `MCSessionEval` | the files TLC starts from | |
| `SessionEvalProofs` | theorems about `SessionEval` | |

How they fit together: `Server` takes a query for what `QueryService` promises
and a submission for what `Scoreboard` promises, and is itself shown to be
`CommandService` to each connection, which is what `ClientConnection` takes its
server for. `Leaderboard` takes the evaluation for what `SessionEval` shows of
its outcomes (`OutcomeAsRead`). `Teardown` extends `WebSocket` with the client's
destructor.

### Query pool

The collector is the thread that calls `handleQuery`; `mpc` is its place in the
function, `query`, `result`, `response`, `launched` are the local variables
`query`, `result`, `response` and the length of `threads`; `queries` and `output`
are the two queues; `tpc[t]`, `current[t]` and `results[t]` are the place of a
worker, its local `query` and its member `_results`. `reply` is what was sent: the response
or an error.

A critical section of a worker is one action that needs the lock to be free
(`LockFree`); the collector has the lock in the control points of `HoldsLock`
and gives it back when it sleeps or files an answer. The condition variable is
the control point `wait`: a notification moves the collector to `woken`, and one
that comes earlier is lost. The handlers of `initialize` take no lock in the
code, so `InitFront`, `InitPop`, `InitAnswers` and `InitThrows` are four steps
that may fall anywhere.

| code | actions |
|---|---|
| `handleQuery` 438-457 | `Refuse`, `PushQueue` |
| 460-464 | `StartThread`, `Launched` |
| 469, 474-478 | `Lock`, `Wait`, `Wake`, `AllCollected` |
| 480-490 | `Collect`, `NothingToCollect`, `Store`, `Relock` |
| 492-505 | `JoinAndSend` |
| `initialize` | `Initialized`, `InitFront`, `InitPop`, `InitAnswers`, `InitThrows` |
| `hasWork`, `work` | `HasWork`, `NoWork`, `PopQuery`, `PopNothing`, `RunQuery`, `PrintThrows`, `PushOutput` |

A query is its number and a kind, which says what happens to it: Indri finds
something, it has operators (refused under a baseline), it has feedback
documents (never run, because there never is an expander), Indri throws, its
results hold text that is not UTF-8, or a field has the wrong JSON type. Nobody
looks at the encoding of a passage or a document number before `request.send`,
which then throws (`Sendable`, `hybi13.hpp:600`): `JoinAndSend` replies with the
error of the handlers of `handleQuery`. Its results are its index: that is enough to tell
whose results an entry of the reply holds. Scores, passages and snippets are left
out.

Assumptions about code outside the repository: Indri's `UtilityThread` runs
`initialize`, then `work` as long as `hasWork` says so, and `join` returns when
the thread has found no work; an exception that leaves a thread function ends the
process. One access to a container is one step: two simultaneous accesses of the
unlocked error path are interleaved, an answer pushed in a race may be lost, and
a `pop` of an empty queue ends the process; memory that such a race corrupts
otherwise is not modelled.

### C++ client

`user` is the place of the user's thread (`send` and `sendWoken`: asleep on
`cv_open` and woken, and so on), `io` that of the I/O thread; `conn` is the state
of the `websocketpp` connection, `hdl` whether the member `hdl` refers to it,
`incoming` the queue of messages; `up` and `down` are the two directions of the
TCP connection, `peer` is the server. `fault` names the call an exception left.

| code | actions |
|---|---|
| `send` 129-138 | `BeginSend`, `SendAgain`, `SendMessage`, `SendThrows` |
| `receive` 148-154 | `BeginReceive`, `ReceiveAgain`, `Receive` |
| destructor 54-66 | `Destroy`, `SetClosing`, `DestroyThrows`, `CloseAgain`, `Closed`, `Join` |
| `start` 74-127 | `StartThrows`, `ConnectFails`, `Connect` |
| handlers 92-107, 140-146 | `OpenHandler`, `OpenNotify`, `OnMessage`, `MessageNotify`, `CloseHandler`, `CloseNotify` |
| `websocketpp` | `DropMessage`, `CloseAck`, `Terminate`, `CloseTimeout` |
| server (`main.cpp`) | `ServerReplies`, `ServerCloses`, `ServerHangs`, `ServerGoes` |

A handler and the notification after its critical section are two steps, because
the code releases the mutex in between. The mutexes are held within a step
otherwise, except `m_open`, which the destructor keeps while it joins
(`joining`). The destructor reads `hdl` without the mutex: it finds the handle
from before or from after the handler that is changing it. `close` is two
steps, its test of the state of the connection (`Destroy`) and its change of it
(`SetClosing`), because `terminate` takes no lock and may come in between; then the
close handler is called a second time (`CloseNotify` goes back to the loop), and
waits for the destructor that joins its thread (`Deadlocked`). Any other change of
that state is one step. The user calls as `Application.cpp` does, one `receive` for each `send`,
and destroys the connection between two calls.

### A connection and its end

`WebSocket` has the steps of both ends that `ClientConnection` takes for one. `state[e]`, `queue[e]`,
`current[e]`, `timer[e]` and `clean[e]` are `m_state`, `m_send_queue`,
`m_current_msgs`, `m_handshake_timer` and `m_was_clean` of end `e`; `write[e]` is
the transport write under way, `posted[e]` the `write_frame` handlers that wait to
run; `app[e]` is the place of the call of the application. A frame is its number
and its kind, which is what order and loss are about.

A handler is one step. A call is several (`Send`, `PushMessage`, `Post`;
`BeginClose`, `SetClosing`, `SetTimer`, `PushClose`), between which the handlers
of an end in `Threads` may run; the server calls from its handlers, so that
nothing runs between the steps of its calls. `send` and `close` hold
`m_connection_state_lock` while they test and set `m_state`, but `terminate` and
the reading of a close do not: the lock keeps no step away and is left out.

| code | actions |
|---|---|
| `send` 104-150, `write_push` | `Send`, `PushMessage`, `Post` |
| `close` 303-325, `send_close_frame` 2063-2150 | `BeginClose`, `SetClosing`, `SetTimer`, `PushClose` |
| `write_frame`, `handle_write_frame` 1790-1925 | `WriteFrame`, `NothingToWrite`, `Transmit`, `Written`, `WrittenLast`, `WriteFails` |
| `handle_read_frame`, `process_control_frame` | `ReadMessage`, `Acknowledge`, `Acknowledged`, `IgnoreClose`, `ReadFails` |
| `terminate`, `handle_close_handshake_timeout` | `Terminate` (in other steps), `TimerExpires`, `StaleTimerExpires` |

`NewTimer` keeps the timer that is replaced: when both ends close, the handler of
the first one still runs (`stale`). `Break` is the network or a process failing,
which may lose what is on its way.

`Teardown` adds `destructor`: `Destroy` is the beginning of its `close`,
`HandleExpired` its wait for the close handler, `Join` its join of the I/O thread,
whose loop has ended when nothing is left to do (`LoopEnded`). `Unlocked` is
`m_open`: the destructor has it while it joins, so that a close handler waits.

### Server

`pc` is the place of the only thread, `cur` the connection whose frames it
handles, `read[c]` and `done[c]` how many frames it was handed and has handled,
`queue[c]` the replies that wait for the thread to be free. A command is its
operation and what `handle` can tell of its fields (`id`, `form`), or what is
wrong with its JSON.

| code | actions |
|---|---|
| `main.cpp` `serve`, the event loop | `Accept`, `Read`, `Write`, `Drop`, `Stop` |
| `handle` 176-211 | `Reject`, `DocumentFails`, `DocidFails`, `DocidCaught`, `SubmitFails` |
| `document` 55-129 | `Document`, `DocumentReply`, `DocumentAborts` |
| `docid` 131-148 | `Docid`, `DocidReturns`, `DocidThrows`, `DeletedTwice` |
| `query`, `submit`, `leaderboard` | `Query`, `QueryReply`, `QueryDies`, `QueryHangs`; `Submit`, `SubmitReply`; `Leaderboard` |
| the close frame | `AckClose` |

`docid` puts the collection of the repository into a `unique_ptr` although the
repository deletes it too: `DeletedTwice` may end the process after the reply is
queued, and may also do nothing, as undefined behaviour may.

### Leaderboard

`pc` and `job` are the place and the arguments of `submit`, `runFile` and
`outFile` the two files of each name, `evals` the child processes, `scores` the
table. `leaderboard.php` may read the table at any time, which keeps SQLite from
committing: `Busy` is the exception a replacement may always end in. `Stop` is a
signal at any step: files and rows stay, and an evaluation goes on. `spoiled` remembers that a
file of this submission was cut short, or shared with an evaluation a former
server has started.

| code | actions |
|---|---|
| login 60-69 | `Refuse` |
| run file 71-75 | `OpenRun`, `WritePart`, `WriteRun`, `WriteRunShort` |
| `std::system` 79-88 | `Evaluate`; the child: `Load`, `ReadOn`, `PrintAll`, `PrintShort`, `PrintNothing` |
| 90-114 | `Fail`, `BadHeader`, `Parse` |
| 117-124 | `NoAll`, `Busy`, `Replace`, `Return` |

A run is written in pieces (`WritePart`): a stop, or a disk that is full
(`WriteRunShort`), leaves what has been written so far. The evaluation of a stopped
server may read the run file while the next submission writes it, and the file may
change while it reads (`ReadOn`), so that what it evaluates is put together from
more than one run. `Pieces[S]` is whatever the contents `S` may be broken and put
together into. All that is assumed of it is that it holds `S` and the empty file,
and that pieces of pieces are pieces. The score of a beginning of a run, which is
neither the score of a run nor that of an empty file, may get into the table:
`OwnScore` says that it is of the owner's runs all the same.

### Evaluation

One action for each pass over the dictionaries; the judgments are read line by
line, since the one that is kept depends on the others. A dictionary with a
default is a function with `Unjudged`, `NoTopic` or `NoCount` where there is no
entry, and `keys` is where looking up adds one. `MapRelevance` adds the topics of
the run to `keys`, which is what keeps `ComputeMeasures` from a `KeyError`.

The measures are exact: a float is the numerator of a fraction whose denominator
is the same for all (`Ranks` for the inverse of a rank, 16 for a probability of
ERR), and the logarithm of DCG, of which only the order matters, is a table of
decreasing integers. Rounding is left out. `ndcg_at_k` and `nerr_at_k` are the two
quotients of the rankings cut at the cutoff. The ideal ranking is any order of the
judged documents that descends by grade, as documents of one grade are in the order
of a Python dictionary.

The directory mode and the flags are simplified. A directory is a number of runs
evaluated one after the other (`NextRun`); their grouping by the suffixes `RL1` to
`RL4` and the files of `--write_to_file` are left out. `goal` stands for
`--goal_type` and for `--product_type`, which skip sessions in the same way, and
`--per_session` is on, as it is by default.

## Runs

| run | question | result |
|---|---|---|
| `pool_safety` | does the pool implement `QueryService`, errors of sending included, and is no query lost, doubled, answered wrongly or slept on? | holds |
| `client_safety` | do answers come in order, does an exception need a server that has gone, does `receive` return, and the destructor unless the close handler is called twice? | holds |
| `server_safety` | does each command get one reply, in turn and fit, does each connection get `CommandService`, is a command answered? | holds |
| `board_safety` | does `submit` implement `Scoreboard`, are rows owned, is a score the one of this run, does a submission end? | holds |
| `eval_safety` | is the largest judgment kept, are the measures those of the definitions, is an outcome what `submit` takes it for? | holds |
| `connection_order` | do several messages, written one by one or in batches, come in order and before the close that follows them? | holds |
| `teardown` | has every frame a writer, is a close handled once by the server, whoever closes, and is the connection safe to destroy? | holds |
| `pool_missed_wakeup` | is an answer that is next always taken? | violated |
| `pool_stale` | does an entry of the reply hold its own query's results? | violated |
| `client_send` | does `send` return on an open connection? | violated |
| `server_last` | is every document `docid` names one that `document` returns? | violated |
| `teardown_deadlock` | does the destructor return? | violated |

What the violated ones show:

- `pool_missed_wakeup`: `handleQuery` waits at the top of each round before it
  looks at the output. When the workers have pushed everything before its first
  wait, which takes no more than fast queries, no notification is left to wake it: the
  command is never answered, and the I/O thread with it is gone for all clients.
- `pool_stale`: a query with operators under a baseline is refused inside `work`,
  which goes on to print `_results`: the results of the worker's previous query.
- `client_send`: `send` waits before it looks at the handle, and only the open
  and the close handlers notify. A first `send` after the open handler, and every
  second `send`, sleeps until a spurious wakeup.
- `server_last`: documents are numbered from 1 and `document` tests
  `documentID < _ndocuments`: it refuses the last one.
- `teardown_deadlock`: the server goes after `close` has tested the state and
  before it sets it to closing, over the closed of `terminate`. The next
  `terminate` calls the close handler again, which waits for the mutex the
  destructor holds while it joins its thread. `DestructorReturnsOrDeadlocks`
  shows that this is the only way for it not to return. The same race is why
  `HandledOnce` speaks of the ends without a second thread: what the race does to
  the client is the business of `DestructorReturnsOrDeadlocks`, which `ClientConnection`
  has too, over the whole life of a client.

Divergences met while modelling, which no run is spent on: they follow from a
line or two.

- `asIndriParameters` always throws, so the documented parameter `fbDocs` makes
  `initialize` throw; its handler rethrows out of the thread, and the process ends
  (`QueryHandler.cpp:346`, `InitFails`, `InitThrows`; `www/index.html:389`).
- `document` with the documented field `docno` reads `message["docid"]` of a
  constant object, which asserts that the key is there: the process ends
  (`handler.cpp:58`, `DocumentAborts`; `www/index.html:914`).
- `docid` of an unknown document replies an empty list, not the documented error
  (`handler.cpp:144`, `Docid`; `www/index.html:937`).
- Judgments 2, 3 and 4 become grades 3, 4 and 2: the largest judgment need not be
  the largest grade the comment of `ReadQrels` speaks of
  (`session_eval_main.py:124`, `Mapping`).
- With `--goal_type` every session is skipped, and `PrettyPrint` divides by their
  number (`session_eval.py:176`, `ReadRanking`, `PrettyPrintFails`).
- The client's destructor throws on a connection that has not opened yet or that
  the server has ended (`Connection.cpp:56`, `DestroyThrows`); `FaultNeedsLoss`
  says when that may happen.

### Bounds, and why they are enough

- Pool: lists of up to three queries and two workers (`ThreadLimit`, 4 in the
  code). Two workers race for a queue that one of them empties, and a third query
  lets one of them work twice, which is what stale results and answers out of
  turn need. `MaxSpurious` is 1: a spurious wakeup is like a notification without
  an answer. Commands are plain, under a baseline, with clashing numbers (the
  first query has the default number of the second), with `fbDocs`, or refused.
  Results that cannot be sent are in lists of one or two queries under a baseline
  or with clashing numbers: they may be overwritten by a later answer, or be sent
  again by a query that is refused. Lists with `fbDocs` are plain, as none of
  their queries is run. Lists under a baseline have no failing queries, and those
  with clashing numbers only plain, feedback and these: what a query fails of does
  not depend on the rest. The proofs lift all of these bounds.
- Client: three messages and three spurious wakeups, for only a spurious wakeup
  lets a second `send` through. The proofs lift these bounds too. The violated
  run needs one message and no spurious wakeup.
- Connection: `connection_order` has up to three messages of the client, its close,
  and two messages of the server. Three are enough for
  a batch of two behind a write under way, and two messages for each end to be
  given them out of order. In `teardown` both ends close, and each sends at most
  one message: its races are between a call and the handlers, and one call of each
  kind on each side makes all of them. The proofs lift both bounds for safety. The
  deadlock needs no message.
- Server: two frames, both on one of two connections or one on each, of all the
  kinds that take a different path, around a repository of two documents. Two
  frames are read together or apart, and one connection waits while the other is
  served. The proofs lift the bound for safety.
- Leaderboard: two names, one stop, a run that is good and one that is empty,
  and a beginning of the good one, each with a score of its own. One stop is
  enough for an evaluation of a former server to meet a submission of the next
  one. The proofs lift the bounds for safety, and hold for any `Pieces`, mixtures of
  several runs included.
- Evaluation: two lines of judgments over two topics and two documents, which may
  be of the same document, with the judgments -2, 2, 3, 4 and one without a
  grade; six runs of up to three lines, with repetitions and sessions without a
  topic; one or two runs; a cutoff of two. The proofs lift these bounds. What is
  left is `MaxRank`, the length of the longest ranking: ERR is a fraction of
  `16 ^ MaxRank`. It may be any number, `MaxLines` and the runs being no longer.

Deadlock is not checked: a command that has been answered, a process that has
ended, a connection that is closed and a client that waits for a lost
notification all stop for good. That somebody waits for ever where nobody should
is the business of the liveness properties.

### Fairness

Weak fairness of each thread: a thread that can take a step and goes on being
able to take one does so, which is what the scheduler of the operating system
gives. In the pool the lock needs no strong fairness: the collector keeps it for
a bounded number of steps and then sleeps, and it is woken finitely often. In the
client a call that was made goes on and the I/O thread runs its handlers, the
timer of the closing handshake among them; nothing is asked of the server, which
may hang for ever, and the user need not make another call. Spurious wakeups are
never required.

A connection: the calls of the client go on, and its handlers run, the timers
among them; nothing is asked of the server or of the network. The server: the
thread goes on with the frame it handles, and the event loop does not forget a
connection with frames to read or replies to write; neither a client nor a hung
query need do anything. The leaderboard: a submission that has begun goes on, and
so does the evaluation it waits for; the one of a former server need not end. The evaluation is sequential, its properties are
safety ones and it has no fairness.

## Proofs

All theorems hold for every value of the constants that satisfies the named
assumptions (`CommandAssumption`, `PoolAssumption`, `ClientAssumption`, `WebSocketAssumption`,
`TeardownAssumption`, `ServerAssumption`, `LeaderboardAssumption`,
`EvalAssumption`, `MeasuresAssumption`): any list of queries, any number of workers, messages,
connections, names, runs and stops.

`QueryPoolProofs` proves the type invariant, that no query is lost or doubled,
that the reply is the sequential one, that no answer after the first is slept on,
that `handleQuery` does not return under its workers, and that the pool
implements `QueryService`. The inductive invariant is built in layers, each of
which uses those before it:

1. `Typed`: types, and that what a worker carries is the index of a query.
2. `Phased`: which workers exist at which place of the collector, and that a
   reply is only sent when all of them have ended. `ReturnIsSafe` follows.
3. `Placed`: each query is in exactly one of the queue, a worker, the output, the
   collector's hand and the reply, and the queue holds its indices in order.
   `NoQueryLost` and `NoQueryDoubled` follow. Neither is inductive by itself: a
   second copy in the queue would be popped later.
4. `Answered`: what is in each place is the answer of that query, and the reply
   holds, under each number, the answer of the last query filed so far.
   `ReplyIsFaithful` follows, and with it `PoolImplementsService`: the step that
   sends is `Serve`, or `FailToSend` when what the workers have found cannot be
   sent, the step that lets an exception out is `Die`, all others stutter.
5. `Alert`: between its look at the output and its sleep the collector holds the
   lock, so the next answer cannot slip in. `NoWakeupMissed` follows.

Layers 3 to 5 speak of a process in which no `initialize` has failed (`Healthy`):
its error path works without the lock, and ends the process in a bounded number
of its own steps.

`ClientConnectionProofs` proves the type invariant and three properties:

1. `Typed`: types, that a server that is there has ended nothing, and that a
   `send` under way is within the bound.
2. `Handled`: what the handle, the state of the connection and both control
   points say of each other. `DestructionIsSafe` follows.
3. `Lost`: a connection that its user did not close is closed because the server
   has gone, or it never opened. `FaultsNeedLoss` follows.
4. `Numbered` and `InFlight`: the numbers of the messages received, queued, and
   on their way in both directions are consecutive for as long as the connection
   is open, and what has been received stays a prefix afterwards. This is the
   strengthening `AnswersInOrder` needs: the prefix alone does not say what the
   next frame will be.

`WebSocketProofs` proves the type invariant and four properties:

1. `NoFrameStranded`: inductive with the types.
2. `Once`: a closed connection was shut down and, at an end whose calls run in
   its handlers, handled once. `ServerHandledOnce` follows; for a client with a
   thread of its own the step `SetClosing` breaks it, as `teardown_deadlock` shows.
3. `Numbered` and `Streamed`: the frames that are queued, under way and on the
   network are numbered one after the other, and go on where the other end has
   read to. `MessagesInOrder` follows: the prefix alone does not say what the next
   frame will be.
4. `Marked` and `Unclosed`: which of these frames is the first close, and that an
   open end has read none. `CloseOvertakesNone` follows, an action property: the
   step that reads the close is the one to look at.

`TeardownProofs` carries the five of them over to `Teardown`, each step of which is
one of `WebSocket` or leaves the connection alone (`TeardownSteps`; its client
closes, hence `TeardownAssumption`). `MembersOutliveUse` needs `Over`: the
destructor joins with no call of its own under way, and returns with nothing left
for a handler to do. Then no step of the client is enabled (`LoopDone`), and those
of the server and the network change no member of the client (`StepElsewhere`).

`ServerProofs` proves, on top of `Typed` (types, and a frame at hand when one is
being handled) and `AtHand` (a handler handles a frame of its command), that
replies are one to each frame and in turn, that they fit, and that the server is
`CommandService` to each connection: a handling step stutters there, a write is
`Answer` or `End`.

`LeaderboardProofs` proves, on top of `Typed` and `Waited` (a server has one
evaluation of its own, and waits for it), `Owned` (files, evaluations and rows of
a name hold pieces of its runs, to which pieces of them add nothing,
`KnownClosed`; `RowsAreOwned` follows, which is not inductive by itself as
the row is written from a file) and `Unspoiled` (while nothing was cut short or
shared, they hold this run; `ScoresAreOfTheRun` follows). With `Owned`,
`LeaderboardImplementsBoard` maps `Replace` to `Store` and the ends of a
submission to `Return` and `Abandon`.

`EvalMeasuresProofs` is about the loops of `MeasureEvaluator`, which are folds
over rankings of any length, from `MeasuresAssumption`: `Ranks` is a multiple of
every rank, `Discount` is positive and falls with the rank. A fold is a recursive
function of sets; that there is one, and what it is at each rank, is shown without
an induction rule, from a smallest element at which it would fail (`WFMin` of the
library, in `NatSetInduction`). With it,

1. `TotalSteps`, `ERRSteps`, `DCGSteps`, `SumByRank` give the loops as values by
   rank, `PrecisionCounts` and `AveragePrecisionSums` turn two of them into the
   definitions of precision and average precision;
2. `BetterRanking`: a ranking that has, up to every rank and of every grade, as
   many documents of that grade or better as another one (`Dominates`) has no
   smaller DCG and ERR. For DCG the invariant of the comparison is that it leads
   by what its gains so far are ahead, at the discount of this rank
   (`DCGDominated`). In ERR a better document lowers all the terms after it: the
   probability of going on is a product with a factor for each grade
   (`DownIsProduct`), a better document trades a factor for a smaller one (`Trade`),
   so that the better ranking goes on less (`DownDominated`), and what it has
   stopped more so far, at the share of this rank, is its lead (`ERRDominated`).
3. `NotZero`: neither is zero for a ranking that begins with a relevant document.

`SessionEvalProofs` proves that the largest judgment is kept, for any number of
lines in any order, and, from the invariant `EvalInv`, the types, the outcomes and
the measures:

1. `Judged`: the session without a topic has no judgment, and after the mapping
   all judgments are grades. With `LargestJudgment`, a topic has no more judged
   documents than there are lines (`JudgedFew`).
2. `Listed`: no ranking is longer than its run, and with a goal type there is none.
3. `Staged`: what each pass has put in its dictionary, from its own stage to the
   one that reads it. The last two need one another: `NoneMissing`, that no session of
   the run is without a count, holds only because `MapRelevance` has added the
   topics of the run to the judgments. `OutcomesAsRead` and
   `MeasuresAreAsDefined` follow.
4. `IdealDominates`: up to each rank the ideal ranking has all documents of a
   grade or better or nothing else (`IdealCounts`, by a surjection onto them), and
   a run that repeats no document has each of them at most once (`RunInjects`, an
   injection into them). With `BetterRanking` it gives `NoRunBeatsTheIdeal`, at the
   cutoff too (`CutDominates`).

Only model-checked: the liveness properties (`SleeperServed`, `ReceiveServed`,
`EveryCommandAnswered`, `SubmissionEnds`,
`DestructorReturnsOrDeadlocks`), which are out of the prover's reach, and the five
violated properties, which are counterexamples. Every invariant and every
action property of the passing runs is proved.

## Plan

Done: the query pool, the C++ client, the leaderboard, the server, the
evaluation, the connection of `websocketpp` and the client's teardown over it,
with the proofs above. Left for later:

1. the opening handshake of `websocketpp` (`handle_open_handshake_timeout`, the
   reading of the request and of the response), which `ClientConnection` takes as
   `Connect` and `ConnectFails`;
2. clients and server together: `ClientConnection` over `WebSocket` against
   `Server`, for which the two ends would have to share their frames.

## Not modelled

- `asio` and `json.hpp`, and of `websocketpp` the parsing of frames and of HTTP,
  the extensions, the pings, the TLS transport and the opening handshake. They
  are vendored. What the program relies on is in the models as assumptions
  (the handlers of a thread run one at a time; a JSON value of the wrong type
  throws) or as choices. They are also most of the
  lines of the repository, so that the lines the models stand for are a small
  share of all of them.
- Indri, which is not in the repository: a query finds something, fails or never
  returns.
- `www/index.html`, `www/src/script.js`: a static page and its layout.
- `www/docs/ReadSessions.java`, `www/code/read_word2vec.py`,
  `clients/python/test.py`: linear scripts that read and print.
- The memory a race on an unlocked container corrupts; what the unlocked error
  path of the pool does is modelled as interleaved accesses.
- `Application.cpp` calls `send` and `receive` in turn; other uses of the C++
  client, by several threads at once, are not modelled: nothing in the
  repository makes them.
- Binary frames, and text frames of a client that are not UTF-8, which
  `websocketpp` refuses before `on_message` is called: the frames of `Server` are the
  ones it is called with.
