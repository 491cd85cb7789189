------------------------------- MODULE Server -------------------------------
(* The server: main.cpp and IndriServer::handle of handler.cpp, around the  *)
(* only thread that runs the handlers of every connection (_server.run).    *)
(*                                                                         *)
(* A read hands over all the frames that have come on a connection; the     *)
(* thread handles them one by one before it does anything else.  A handler  *)
(* queues its reply, and the write of a connection's queue is posted: it    *)
(* waits until the thread is free.  A frame is a command or a close.        *)
(*                                                                         *)
(* A command is what IndriServer::handle can tell of it:                    *)
(*   op     what it asks for, or what is wrong with its JSON                *)
(*   id     the document meant by document and docid, Absent when there is  *)
(*          no such field and Wrong when it has the wrong JSON type; for    *)
(*          submit, Absent when its name, run or password is missing        *)
(*   form   the type "raw", "bow" or any other one, of document             *)
(* The answers of Indri and of the evaluation are choices: QueryService and *)
(* Scoreboard are the specifications of what these two promise.             *)
EXTENDS Integers, SequencesExt

CONSTANTS
  Conns,          \* the connections there will be
  Commands,       \* the commands clients send
  MaxCommands,    \* bound: frames sent on all the connections
  NDocuments,     \* documents in the repository, numbered from 1
  IndriMayFail,   \* may reading the repository throw, or its text not be UTF-8?
  QueriesMayHang, \* may a query never return?
  DeleteMayKill,  \* may deleting a collection twice end the process?
  MayStop,        \* may a signal end the server?
  Absent, Wrong   \* see above

Ops   == {"garbage", "array", "nameless", "unknown", "query", "document", "docid",
          "submit", "leaderboard"}
Forms == {"raw", "bow", "other"}
Command == [op : Ops, id : Int \cup {Absent, Wrong}, form : Forms]

ASSUME ServerAssumption ==
  /\ Commands \subseteq Command
  /\ MaxCommands \in Nat /\ NDocuments \in Nat
  /\ {IndriMayFail, QueriesMayHang, DeleteMayKill, MayStop} \subseteq BOOLEAN
  /\ Absent \notin Int /\ Wrong \notin Int /\ Absent # Wrong

VARIABLES
  server,   \* "up", "hung" in a query, or "ended"
  conn,     \* state of each connection
  sent,     \* the frames clients have sent on it
  read,     \* how many of them the thread has been handed
  done,     \* how many of them it has handled
  pc,       \* control point of the thread
  cur,      \* the connection it handles frames of
  queue,    \* replies to be written on each connection
  written   \* replies that were

vars == <<server, conn, sent, read, done, pc, cur, queue, written>>

Close    == [op |-> "close", id |-> Absent, form |-> "other"]
Frame    == Commands \cup {Close}
Kinds    == {"error", "results", "text", "bow", "ids", "scores", "null", "close"}
Reply    == [to : Nat, kind : Kinds, ids : SUBSET Int]
Known    == 1 .. NDocuments
-----------------------------------------------------------------------------
Init ==
  /\ server = "up" /\ conn = [c \in Conns |-> "none"]
  /\ sent = [c \in Conns |-> <<>>]
  /\ read = [c \in Conns |-> 0] /\ done = [c \in Conns |-> 0]
  /\ pc = "loop" /\ cur \in Conns
  /\ queue = [c \in Conns |-> <<>>] /\ written = [c \in Conns |-> <<>>]

Sent == MapThenSumSet(LAMBDA c : Len(sent[c]), Conns)

(* The clients.  A client sends what it likes, and nothing after a close.  *)
(* A frame that websocketpp ignores because a close came before is one of  *)
(* a client that breaks the protocol, and is left out.                     *)
Send(c) == /\ conn[c] = "open" /\ Sent < MaxCommands
           /\ Close \notin Range(sent[c])
           /\ \E f \in Frame : sent' = [sent EXCEPT ![c] = Append(@, f)]
           /\ UNCHANGED <<server, conn, read, done, pc, cur, queue, written>>
-----------------------------------------------------------------------------
(* The event loop.                                                         *)
Free == server = "up" /\ pc = "loop"
Move(from, to) == server = "up" /\ pc = from /\ pc' = to

Accept(c) == /\ Free
             /\ conn[c] = "none"
             /\ conn' = [conn EXCEPT ![c] = "open"]
             /\ UNCHANGED <<server, sent, read, done, pc, cur, queue, written>>

(* The frames that have come, as many as the buffer holds of them.         *)
Read_OneTooMany(c) == /\ Move("loop", "frame")
                      /\ conn[c] = "open"
                      /\ \E k \in read[c] + 1 .. Len(sent[c]) + 1 : read' = [read EXCEPT ![c] = k]
                      /\ cur' = c
                      /\ UNCHANGED <<server, conn, sent, done, queue, written>>

Read(c) == /\ Move("loop", "frame")
           /\ conn[c] = "open"
           /\ \E k \in read[c] + 1 .. Len(sent[c]) : read' = [read EXCEPT ![c] = k]
           /\ cur' = c
           /\ UNCHANGED <<server, conn, sent, done, queue, written>>

(* All that is queued goes out at once; after the acknowledgement of a     *)
(* close the server ends the connection.                                   *)
Write_Keeps(c) == /\ Free
                  /\ conn[c] \in {"open", "closing"} /\ queue[c] # <<>>
                  /\ written' = [written EXCEPT ![c] = @ \o queue[c]]
                  /\ UNCHANGED <<server, conn, sent, read, done, pc, cur, queue>>

Write(c) == /\ Free
            /\ conn[c] \in {"open", "closing"} /\ queue[c] # <<>>
            /\ written' = [written EXCEPT ![c] = @ \o queue[c]]
            /\ queue' = [queue EXCEPT ![c] = <<>>]
            /\ conn' = [conn EXCEPT ![c] = IF Last(queue[c]).kind = "close" THEN "closed" ELSE @]
            /\ UNCHANGED <<server, sent, read, done, pc, cur>>

(* The client has gone: a read or a write fails.                           *)
Drop(c) == /\ Free
           /\ conn[c] \in {"open", "closing"}
           /\ conn' = [conn EXCEPT ![c] = "closed"]
           /\ queue' = [queue EXCEPT ![c] = <<>>]
           /\ UNCHANGED <<server, sent, read, done, pc, cur, written>>
-----------------------------------------------------------------------------
(* The frame under way, and the end of its handling.                       *)
This_Last == sent[cur][read[cur]]
This   == sent[cur][done[cur] + 1]
Number == done[cur] + 1

Done == /\ done' = [done EXCEPT ![cur] = @ + 1]
        /\ pc' = IF done[cur] + 1 = read[cur] THEN "loop" ELSE "frame"

Say(kind, ids) ==
  queue' = [queue EXCEPT ![cur] = Append(@, [to |-> Number, kind |-> kind, ids |-> ids])]

(* A command ends with its only reply; assertion and the handlers of all   *)
(* exceptions reply "error".                                               *)
Answer(kind, ids) == /\ Say(kind, ids)
                     /\ Done
                     /\ UNCHANGED <<server, conn, sent, read, cur, written>>

Takes(op) == /\ server = "up" /\ pc = "frame"
             /\ This.op = op

Goes(to) == /\ pc' = to
            /\ UNCHANGED <<server, conn, sent, read, done, cur, queue, written>>

(* websocketpp acknowledges a close itself, through the same queue.        *)
AckClose == /\ Takes("close")
            /\ conn' = [conn EXCEPT ![cur] = "closing"]
            /\ Say("close", {})
            /\ Done
            /\ UNCHANGED <<server, sent, read, cur, written>>

Reject_Silent == /\ \E op \in {"garbage", "array", "nameless", "unknown"} : Takes(op)
                 /\ Done
                 /\ UNCHANGED <<server, conn, sent, read, cur, queue, written>>

Reject == /\ \E op \in {"garbage", "array", "nameless", "unknown"} : Takes(op)
          /\ Answer("error", {})

(* status() is a null.                                                     *)
Leaderboard == /\ Takes("leaderboard")
               /\ Answer("null", {})

(* command["docid"] of a constant object without it fails an assertion.    *)
DocumentAborts == /\ Takes("document")
                  /\ This.id = Absent
                  /\ server' = "ended"
                  /\ UNCHANGED <<conn, sent, read, done, pc, cur, queue, written>>

DocumentFails == /\ Takes("document")
                 /\ This.id = Wrong \/ (This.id # Absent /\ IndriMayFail)
                 /\ Answer("error", {})

Document == /\ Takes("document")
            /\ This.id \in Int
            /\ Goes("document")

InRange == This.id > 0 /\ This.id < NDocuments

DocumentReply_GoesOn ==
  /\ server = "up" /\ pc = "document"
  /\ queue' = [queue EXCEPT ![cur] = @ \o
       (IF InRange THEN <<>> ELSE <<[to |-> Number, kind |-> "error", ids |-> {}]>>)
         \o <<[to |-> Number, kind |-> "text", ids |-> {This.id}]>>]
  /\ Done
  /\ UNCHANGED <<server, conn, sent, read, cur, written>>

DocumentReply ==
  /\ server = "up" /\ pc = "document"
  /\ \/ /\ ~InRange \/ This.form = "other" \/ IndriMayFail
        /\ Answer("error", {})
     \/ /\ InRange /\ This.form = "raw"
        /\ Answer("text", {This.id})
     \/ /\ InRange /\ This.form = "bow"
        /\ Answer("bow", {This.id})

DocidFails == /\ Takes("docid")
              /\ IndriMayFail
              /\ Answer("error", {})

(* The collection of the repository is given to a unique_ptr: it is        *)
(* deleted on the way out, and by the repository again, after the reply    *)
(* has been queued or before the exception is caught.                      *)
Docid == /\ Takes("docid")
         /\ This.id \in Int
         /\ Say("ids", {This.id} \cap Known)
         /\ pc' = "cleanup"
         /\ UNCHANGED <<server, conn, sent, read, done, cur, written>>

DocidThrows == /\ Takes("docid")
               /\ This.id \in {Absent, Wrong}
               /\ Goes("unwind")

DocidReturns == /\ server = "up" /\ pc = "cleanup"
                /\ Done
                /\ UNCHANGED <<server, conn, sent, read, cur, queue, written>>

DocidCaught == /\ server = "up" /\ pc = "unwind"
               /\ Answer("error", {})

DeletedTwice == /\ server = "up" /\ pc \in {"cleanup", "unwind"}
                /\ DeleteMayKill
                /\ server' = "ended"
                /\ UNCHANGED <<conn, sent, read, done, pc, cur, queue, written>>

(* What a query promises is QueryService: a reply, or the end of the       *)
(* process, or nothing ever.                                               *)
Query == /\ Takes("query")
         /\ Goes("query")

QueryReply == /\ server = "up" /\ pc = "query"
              /\ \E kind \in {"results", "error"} : Answer(kind, {})

QueryDies == /\ server = "up" /\ pc = "query"
             /\ server' = "ended"
             /\ UNCHANGED <<conn, sent, read, done, pc, cur, queue, written>>

QueryHangs == /\ server = "up" /\ pc = "query"
              /\ QueriesMayHang
              /\ server' = "hung"
              /\ UNCHANGED <<conn, sent, read, done, pc, cur, queue, written>>

SubmitFails == /\ Takes("submit")
               /\ This.id \in {Absent, Wrong}
               /\ Answer("error", {})

(* What a submission promises is Scoreboard.                               *)
Submit == /\ Takes("submit")
          /\ This.id \in Int
          /\ Goes("submit")

SubmitReply == /\ server = "up" /\ pc = "submit"
               /\ \E kind \in {"scores", "error"} : Answer(kind, {})

Handle == \/ AckClose \/ Reject \/ Leaderboard \/ DocumentAborts \/ DocumentFails
          \/ Document \/ DocumentReply \/ DocidFails \/ Docid \/ DocidThrows \/ DocidReturns
          \/ DocidCaught \/ DeletedTwice \/ Query \/ QueryReply \/ QueryDies \/ QueryHangs
          \/ SubmitFails \/ Submit \/ SubmitReply

(* stopServer: the handler of a signal ends the process where it stands.   *)
Stop == /\ MayStop /\ server # "ended"
        /\ server' = "ended"
        /\ UNCHANGED <<conn, sent, read, done, pc, cur, queue, written>>

Next == \/ \E c \in Conns : Send(c) \/ Accept(c) \/ Read(c) \/ Write(c) \/ Drop(c)
        \/ Handle \/ Stop

(* The thread goes on, and the event loop forgets no connection.           *)
Fairness == /\ WF_vars(Handle)
            /\ \A c \in Conns : WF_vars(Read(c)) /\ WF_vars(Write(c))

Spec == Init /\ [][Next]_vars /\ Fairness
-----------------------------------------------------------------------------
TypeOK ==
  /\ server \in {"up", "hung", "ended"}
  /\ conn \in [Conns -> {"none", "open", "closing", "closed"}]
  /\ sent \in [Conns -> Seq(Frame)]
  /\ read \in [Conns -> Nat] /\ done \in [Conns -> Nat]
  /\ \A c \in Conns : done[c] <= read[c] /\ read[c] <= Len(sent[c])
  /\ pc \in {"loop", "frame", "document", "cleanup", "unwind", "query", "submit"}
  /\ cur \in Conns
  /\ queue \in [Conns -> Seq(Reply)] /\ written \in [Conns -> Seq(Reply)]

Replies(c) == written[c] \o queue[c]

(* A frame gets one reply, in its turn, whatever it is and whatever goes   *)
(* wrong with it: never two, none by the handler of an exception after the *)
(* first, none missing.                                                    *)
OneReplyEach ==
  \A c \in Conns :
    /\ \A k \in 1 .. Len(Replies(c)) : Replies(c)[k].to = k
    /\ conn[c] # "closed" =>
         Len(Replies(c)) = done[c] + (IF pc = "cleanup" /\ cur = c THEN 1 ELSE 0)

(* A reply is of the kind its frame asks for, and about the same document. *)
Fits(f, r) ==
  \/ r.kind = "results" /\ f.op = "query"
  \/ r.kind = "text" /\ f.op = "document" /\ f.form = "raw" /\ r.ids = {f.id}
  \/ r.kind = "bow" /\ f.op = "document" /\ f.form = "bow" /\ r.ids = {f.id}
  \/ r.kind = "ids" /\ f.op = "docid" /\ r.ids = {f.id} \cap Known
  \/ r.kind = "scores" /\ f.op = "submit"
  \/ r.kind = "null" /\ f.op = "leaderboard"
  \/ r.kind = "close" /\ f.op = "close"
  \/ r.kind = "error" /\ f.op \notin {"leaderboard", "close"}
RepliesFit ==
  \A c \in Conns : \A k \in 1 .. Len(Replies(c)) : Fits(sent[c][k], Replies(c)[k])

(* What a connection may count on.                                         *)
Service(c) == INSTANCE CommandService WITH
  asked    <- Len(sent[c]),
  answered <- Len(written[c]),
  ended    <- server = "ended" \/ conn[c] = "closed"
ServesEach ==
  /\ \A c \in Conns : Service(c)!Init
  /\ [][\A c \in Conns : Service(c)!Next \/ UNCHANGED Service(c)!vars]_vars

(* A frame is answered, unless the server hangs or ends, or the client has *)
(* gone: a reply does not wait for the next command of its client.         *)
EveryCommandAnswered ==
  \A c \in Conns : \A k \in 1 .. MaxCommands :
    Len(sent[c]) >= k
      ~> (Len(written[c]) >= k \/ conn[c] = "closed" \/ server # "up")

(* "Il est possible d'acceder au texte des documents": a document whose    *)
(* identifier a docid command has returned is not refused by document.     *)
NamedDocumentsKnown ==
  \A c \in Conns : \A r, s \in Range(Replies(c)) :
    r.kind = "ids" /\ sent[c][s.to].op = "document" /\ sent[c][s.to].id \in r.ids
      => s.kind # "error"
=============================================================================
