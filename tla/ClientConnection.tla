--------------------------- MODULE ClientConnection ---------------------------
(* _Connection of indriserver/clients/cpp/Connection.cpp, between the      *)
(* thread that uses it and its I/O thread, which runs the websocketpp      *)
(* client and its handlers.                                                *)
(*                                                                         *)
(* The user's thread calls send and receive as Application.cpp does, one   *)
(* receive for each send, and destroys the connection when it likes.  Both *)
(* mutexes are only held within a step, but for m_open, which the          *)
(* destructor keeps while it joins.  The destructor reads hdl without      *)
(* m_open: it finds the handle as it was before or after the handler that  *)
(* is changing it.  websocketpp's close is two steps, its test of the      *)
(* state of the connection and its change of it, for terminate takes no    *)
(* lock and may end the connection in between.  Messages are numbered as   *)
(* they are sent; the server answers each one (main.cpp), may hang, and    *)
(* may go.                                                                 *)
EXTENDS Integers, SequencesExt

CONSTANTS
  MaxSends,      \* bound: messages the user sends
  MaxSpurious,   \* bound: spurious wakeups of the condition variables
  MayFailToStart \* may the URI be bad, or the server refuse?

ASSUME ClientAssumption ==
  /\ MaxSends \in Nat \ {0}
  /\ MaxSpurious \in Nat
  /\ MayFailToStart \in BOOLEAN

VARIABLES
  user,       \* control point of the user's thread
  sent,       \* messages send() has returned for
  received,   \* messages receive() has returned
  io,         \* control point of the I/O thread
  conn,       \* state of the websocketpp connection
  hdl,        \* the member hdl refers to the connection
  incoming,   \* queue of messages nobody has received
  joining,    \* m_open is held by the destructor
  up, down,   \* the two directions of the TCP connection
  peer,       \* the server: "up", "hung" (in a query) or "gone"
  fault,      \* who let an exception out: std::terminate
  spurious    \* spurious wakeups so far

userVars == <<sent, received>>
linkVars == <<up, down, peer>>
vars == <<user, sent, received, io, conn, hdl, incoming, joining, up, down, peer,
          fault, spurious>>

Message == 1 .. MaxSends
Close   == 0                \* the closing frame of the protocol
Eof     == -1               \* the end of the stream
Frames  == Message \cup {Close, Eof}
Alive   == fault = "none"

Sleeping == {"send", "receive", "close"}
Woken(u) == CASE u = "send"    -> "sendWoken"
              [] u = "receive" -> "receiveWoken"
              [] u = "close"   -> "closeWoken"
-----------------------------------------------------------------------------
Init ==
  /\ user = "idle" /\ sent = <<>> /\ received = <<>>
  /\ io = "start" /\ conn = "connecting" /\ hdl = FALSE
  /\ incoming = <<>> /\ joining = FALSE
  /\ up = <<>> /\ down = <<>> /\ peer = "up"
  /\ fault = "none" /\ spurious = 0

MoveUser(from, to) == Alive /\ user = from /\ user' = to
MoveIo(from, to)   == Alive /\ io = from /\ io' = to
Throw(who)         == fault' = who

(* cv_open.notify_all and cv_incoming_message.notify_one.                  *)
NotifyOpen     == user' = IF user \in {"send", "close"} THEN Woken(user) ELSE user
NotifyIncoming == user' = IF user = "receive" THEN Woken(user) ELSE user
-----------------------------------------------------------------------------
(* The user's thread.                                                      *)

(* send() waits on cv_open before it looks at the handle.                  *)
BeginSend == /\ MoveUser("idle", "send")
             /\ Len(sent) < MaxSends
             /\ UNCHANGED <<userVars, io, conn, hdl, incoming, joining, linkVars, fault, spurious>>

SendAgain == /\ MoveUser("sendWoken", "send")
             /\ ~hdl
             /\ UNCHANGED <<userVars, io, conn, hdl, incoming, joining, linkVars, fault, spurious>>

SendMessage == /\ MoveUser("sendWoken", "idle")
               /\ hdl /\ conn = "open"
               /\ sent' = Append(sent, Len(sent) + 1)
               /\ up' = Append(up, Len(sent) + 1)
               /\ UNCHANGED <<received, io, conn, hdl, incoming, joining, down, peer, fault, spurious>>

(* The connection is closed, its handler has yet to reset the handle.      *)
SendThrows == /\ MoveUser("sendWoken", "sendWoken")
              /\ hdl /\ conn # "open"
              /\ Throw("send")
              /\ UNCHANGED <<userVars, io, conn, hdl, incoming, joining, linkVars, spurious>>

BeginReceive == /\ MoveUser("idle", "receiveWoken")
                /\ Len(received) < Len(sent)
                /\ UNCHANGED <<userVars, io, conn, hdl, incoming, joining, linkVars, fault, spurious>>

Receive_Peeks == /\ MoveUser("receiveWoken", "idle")
                 /\ incoming # <<>>
                 /\ received' = Append(received, Head(incoming))
                 /\ UNCHANGED <<sent, io, conn, hdl, incoming, joining, linkVars, fault, spurious>>

Receive == /\ MoveUser("receiveWoken", "idle")
           /\ incoming # <<>>
           /\ received' = Append(received, Head(incoming))
           /\ incoming' = Tail(incoming)
           /\ UNCHANGED <<sent, io, conn, hdl, joining, linkVars, fault, spurious>>

ReceiveAgain == /\ MoveUser("receiveWoken", "receive")
                /\ incoming = <<>>
                /\ UNCHANGED <<userVars, io, conn, hdl, incoming, joining, linkVars, fault, spurious>>

(* ~_Connection.  close() reads hdl without m_open; on a handle that does  *)
(* not refer to an open connection it throws, out of a destructor.         *)
Destroy == /\ MoveUser("idle", "closing")
           /\ hdl /\ conn = "open"
           /\ UNCHANGED <<userVars, io, conn, hdl, incoming, joining, linkVars, fault, spurious>>

DestroyThrows == /\ MoveUser("idle", "idle")
                 /\ ~(hdl /\ conn = "open")
                 /\ Throw("close")
                 /\ UNCHANGED <<userVars, io, conn, hdl, incoming, joining, linkVars, spurious>>

(* The connection may have ended since its state was tested.               *)
SetClosing == /\ MoveUser("closing", "closeWoken")
              /\ conn' = "closing"
              /\ up' = Append(up, Close)
              /\ UNCHANGED <<userVars, io, hdl, incoming, joining, down, peer, fault, spurious>>

CloseAgain == /\ MoveUser("closeWoken", "close")
              /\ hdl
              /\ UNCHANGED <<userVars, io, conn, hdl, incoming, joining, linkVars, fault, spurious>>

Closed == /\ MoveUser("closeWoken", "join")
          /\ ~hdl
          /\ joining' = TRUE
          /\ UNCHANGED <<userVars, io, conn, hdl, incoming, linkVars, fault, spurious>>

Join_Detaches == /\ MoveUser("join", "gone")
                 /\ joining' = FALSE
                 /\ UNCHANGED <<userVars, io, conn, hdl, incoming, linkVars, fault, spurious>>

Join == /\ MoveUser("join", "gone")
        /\ io = "ended"
        /\ joining' = FALSE
        /\ UNCHANGED <<userVars, io, conn, hdl, incoming, linkVars, fault, spurious>>

(* What the thread does within a call, and what it may call next.          *)
InCall == SendAgain \/ SendMessage \/ SendThrows \/ Receive \/ ReceiveAgain
          \/ SetClosing \/ CloseAgain \/ Closed \/ Join
Call   == BeginSend \/ BeginReceive \/ Destroy \/ DestroyThrows

SpuriousWakeup == /\ Alive /\ user \in Sleeping /\ user' = Woken(user)
                  /\ spurious < MaxSpurious
                  /\ spurious' = spurious + 1
                  /\ UNCHANGED <<userVars, io, conn, hdl, incoming, joining, linkVars, fault>>
-----------------------------------------------------------------------------
(* The I/O thread.                                                         *)

(* get_connection refuses a bad URI: start() throws out of the thread.     *)
StartThrows == /\ MoveIo("start", "start")
               /\ MayFailToStart
               /\ Throw("start")
               /\ UNCHANGED <<user, userVars, conn, hdl, incoming, joining, linkVars, spurious>>

(* Refused, or no answer to the handshake in time.  There is no fail       *)
(* handler: run() has nothing left to do and returns.                      *)
ConnectFails == /\ MoveIo("start", "ended")
                /\ MayFailToStart \/ peer # "up"
                /\ conn' = "closed"
                /\ UNCHANGED <<user, userVars, hdl, incoming, joining, linkVars, fault, spurious>>

Connect == /\ MoveIo("start", "opened")
           /\ peer = "up"
           /\ conn' = "open"
           /\ UNCHANGED <<user, userVars, hdl, incoming, joining, linkVars, fault, spurious>>

OpenHandler == /\ MoveIo("opened", "openNotify")
               /\ ~joining
               /\ hdl' = TRUE
               /\ UNCHANGED <<user, userVars, conn, incoming, joining, linkVars, fault, spurious>>

OpenNotify == /\ MoveIo("openNotify", "loop")
              /\ NotifyOpen
              /\ UNCHANGED <<userVars, conn, hdl, incoming, joining, linkVars, fault, spurious>>

Reads(frame) == /\ down # <<>> /\ Head(down) = frame
                /\ down' = Tail(down)

(* websocketpp drops a message that comes after the connection has begun   *)
(* to close; on_message queues any other one.                              *)
OnMessage_AnyFrame ==
  \E f \in Frames :
    /\ Reads(f)
    /\ MoveIo("loop", "messageNotify")
    /\ incoming' = Append(incoming, f)
    /\ UNCHANGED <<user, userVars, conn, hdl, joining, up, peer, fault, spurious>>

OnMessage ==
  \E m \in Message :
    /\ Reads(m)
    /\ conn = "open"
    /\ MoveIo("loop", "messageNotify")
    /\ incoming' = Append(incoming, m)
    /\ UNCHANGED <<user, userVars, conn, hdl, joining, up, peer, fault, spurious>>

DropMessage ==
  \E m \in Message :
    /\ Reads(m)
    /\ conn # "open"
    /\ MoveIo("loop", "loop")
    /\ UNCHANGED <<user, userVars, conn, hdl, incoming, joining, up, peer, fault, spurious>>

MessageNotify_Forgets ==
  /\ MoveIo("messageNotify", "loop")
  /\ UNCHANGED <<user, userVars, conn, hdl, incoming, joining, linkVars, fault, spurious>>

MessageNotify == /\ MoveIo("messageNotify", "loop")
                 /\ NotifyIncoming
                 /\ UNCHANGED <<userVars, conn, hdl, incoming, joining, linkVars, fault, spurious>>

(* The acknowledgement of our close: the server is to end the connection.  *)
CloseAck == /\ Reads(Close)
            /\ MoveIo("loop", "loop")
            /\ UNCHANGED <<user, userVars, conn, hdl, incoming, joining, up, peer, fault, spurious>>

Terminate == /\ Reads(Eof)
             /\ MoveIo("loop", "closed")
             /\ conn' = "closed"
             /\ UNCHANGED <<user, userVars, hdl, incoming, joining, up, peer, fault, spurious>>

(* websocketpp does not wait forever for the end of a closing handshake;   *)
(* the write of the closing frame on a socket that is shut fails at once.  *)
CloseTimeout_Always ==
  /\ MoveIo("loop", "closed")
  /\ conn' = "closed"
  /\ UNCHANGED <<user, userVars, hdl, incoming, joining, linkVars, fault, spurious>>

CloseTimeout == /\ MoveIo("loop", "closed")
                /\ conn = "closing"
                /\ conn' = "closed"
                /\ UNCHANGED <<user, userVars, hdl, incoming, joining, linkVars, fault, spurious>>

CloseHandler_Keeps ==
  /\ MoveIo("closed", "closeNotify")
  /\ UNCHANGED <<user, userVars, conn, hdl, incoming, joining, linkVars, fault, spurious>>

CloseHandler == /\ MoveIo("closed", "closeNotify")
                /\ ~joining
                /\ hdl' = FALSE
                /\ UNCHANGED <<user, userVars, conn, incoming, joining, linkVars, fault, spurious>>

(* After its notification run() returns and the thread ends, unless the    *)
(* connection has been set to closing since it ended: the closing frame    *)
(* and its timer are still to be served.                                   *)
CloseNotify == /\ MoveIo("closeNotify", IF conn = "closed" THEN "ended" ELSE "loop")
               /\ NotifyOpen
               /\ UNCHANGED <<userVars, conn, hdl, incoming, joining, linkVars, fault, spurious>>

IoThread == \/ StartThrows \/ ConnectFails \/ Connect \/ OpenHandler \/ OpenNotify
            \/ OnMessage \/ DropMessage \/ MessageNotify \/ CloseAck \/ Terminate
            \/ CloseTimeout \/ CloseHandler \/ CloseNotify
-----------------------------------------------------------------------------
(* The server: one reply for each message, in order; a close is answered   *)
(* with a close and the end of the connection.                             *)
ServerReplies == /\ Alive /\ peer = "up"
                 /\ \E m \in Message : /\ up # <<>> /\ Head(up) = m
                                       /\ down' = Append(down, m)
                 /\ up' = Tail(up)
                 /\ UNCHANGED <<user, userVars, io, conn, hdl, incoming, joining, peer, fault, spurious>>

ServerCloses == /\ Alive /\ peer = "up"
                /\ up # <<>> /\ Head(up) = Close
                /\ up' = Tail(up)
                /\ down' = Append(Append(down, Close), Eof)
                /\ peer' = "gone"
                /\ UNCHANGED <<user, userVars, io, conn, hdl, incoming, joining, fault, spurious>>

(* A query command that is never answered, of this client or of another    *)
(* one, keeps the server from everything else, handshakes included.        *)
ServerHangs == /\ Alive /\ peer = "up"
               /\ peer' = "hung"
               /\ UNCHANGED <<user, userVars, io, conn, hdl, incoming, joining, up, down, fault, spurious>>

(* The process ends; what it has not delivered yet may be lost.            *)
ServerGoes == /\ Alive /\ peer # "gone"
              /\ peer' = "gone"
              /\ \E k \in 0 .. Len(down) : down' = Append(SubSeq(down, 1, k), Eof)
              /\ UNCHANGED <<user, userVars, io, conn, hdl, incoming, joining, up, fault, spurious>>

Next == InCall \/ Call \/ SpuriousWakeup \/ IoThread
        \/ ServerReplies \/ ServerCloses \/ ServerHangs \/ ServerGoes

(* Both threads run when they can; a call once made goes on.  Nothing is   *)
(* asked of the server, and nobody has to make another call.               *)
Fairness == WF_vars(InCall) /\ WF_vars(IoThread)

Spec == Init /\ [][Next]_vars /\ Fairness
-----------------------------------------------------------------------------
TypeOK ==
  /\ user \in {"idle", "send", "sendWoken", "receive", "receiveWoken", "closing",
               "close", "closeWoken", "join", "gone"}
  /\ sent \in Seq(Message) /\ Len(sent) <= MaxSends
  /\ received \in Seq(Message) /\ incoming \in Seq(Message)
  /\ io \in {"start", "opened", "openNotify", "loop", "messageNotify", "closed",
             "closeNotify", "ended"}
  /\ conn \in {"connecting", "open", "closing", "closed"}
  /\ hdl \in BOOLEAN /\ joining \in BOOLEAN
  /\ up \in Seq(Frames) /\ down \in Seq(Frames)
  /\ peer \in {"up", "hung", "gone"}
  /\ fault \in {"none", "send", "close", "start"}
  /\ spurious \in 0 .. MaxSpurious

(* The k-th receive returns the answer to the k-th send: nothing between   *)
(* the socket and the user is lost, doubled or reordered, until the end.   *)
AnswersMatch == IsPrefix(received \o incoming, sent)

(* A destroyed connection has no thread left that uses it, and it was      *)
(* closed before it was destroyed.                                         *)
DestroyedAlone == user = "gone" => io = "ended" /\ ~hdl /\ conn \in {"closing", "closed"}

(* A client that has sent something is terminated by an exception only     *)
(* when the server has gone first.                                         *)
FaultNeedsLoss == fault # "none" /\ sent # <<>> => peer = "gone"

(* Nobody sleeps in receive() beside a message that is there.              *)
ReceiveServed == (user = "receive" /\ incoming # <<>>) ~> (user = "idle")

(* The close handler, called a second time, waits for the thread that      *)
(* joins it.                                                               *)
Deadlocked == joining /\ io = "closed"

(* A destructor that found an open connection returns, even when the       *)
(* server hangs, unless the server went in the middle of close() and the   *)
(* close handler is called twice.                                          *)
DestructorReturnsOrDeadlocks ==
  (user \in {"closing", "close", "closeWoken"})
  ~> (user = "gone" \/ (Deadlocked /\ peer = "gone"))

(* "Send a JSON message": on a connection that is and stays open, send()   *)
(* returns.                                                                *)
SendReturns == (user = "send" /\ io = "loop" /\ conn = "open")
               ~> (user # "send" \/ conn # "open" \/ ~Alive)
=============================================================================
