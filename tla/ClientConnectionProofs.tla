----------------------- MODULE ClientConnectionProofs -----------------------
(* Safety of ClientConnection for every number of messages and of spurious *)
(* wakeups, proved from ClientAssumption alone.                            *)
(*                                                                         *)
(* The inductive invariant is Typed (types, and that a server that is      *)
(* there has ended nothing), Handled (what the handle, the state of the    *)
(* connection and the control points of both threads say of each other)    *)
(* and Numbered (where in the two directions of the connection, and in the *)
(* queues, the k-th message is).                                           *)
EXTENDS ClientConnection, SequenceTheorems, TLAPS

Typed == /\ TypeOK
         /\ peer # "gone" => down \in Seq(Message)
         /\ user \in {"send", "sendWoken"} => Len(sent) < MaxSends

(* The user has set the connection to closing; one that is at "closing" is *)
(* about to, whatever has become of the connection.                        *)
Destroying == user \in {"close", "closeWoken", "join", "gone"}

(* The loop is entered a second time, without a handle, when the           *)
(* connection was set to closing after its end.                            *)
Handled ==
  /\ io = "start" => conn = "connecting" /\ ~hdl /\ sent = <<>>
  /\ io = "opened" => conn = "open" /\ ~hdl /\ sent = <<>>
  /\ io \in {"openNotify", "loop", "messageNotify"} =>
       conn \in {"open", "closing"} /\ (conn = "open" => hdl)
  /\ io \in {"closed", "closeNotify", "ended"} => conn \in {"closing", "closed"}
  /\ io \in {"closeNotify", "ended"} => ~hdl
  /\ user = "closing" => io \notin {"start", "opened"}
  /\ Destroying => conn \in {"closing", "closed"}
  /\ conn = "closing" => Destroying
  /\ user = "gone" => io = "ended"

(* A connection the user has not closed is closed because the server went, *)
(* or it never was open.                                                   *)
Lost == conn = "closed" /\ ~Destroying =>
          peer = "gone" \/ (io = "ended" /\ sent = <<>>)

Seen == Len(received) + Len(incoming)
Numbered ==
  /\ \A i \in 1 .. Len(sent) : sent[i] = i
  /\ \A i \in 1 .. Len(received) : received[i] = i
  /\ \A i \in 1 .. Len(incoming) : incoming[i] = Len(received) + i
  /\ Seen <= Len(sent)
InFlight ==
  conn \in {"connecting", "open"} =>
    /\ \A i \in 1 .. Len(down) :
         /\ down[i] # Close
         /\ down[i] \in Message => down[i] = Seen + i /\ down[i] <= Len(sent)
    /\ peer # "gone" => /\ \A i \in 1 .. Len(up) : up[i] = Seen + Len(down) + i
                        /\ Seen + Len(down) + Len(up) = Len(sent)

LEMMA FramesKnown ==
  /\ MaxSends \in Nat /\ MaxSpurious \in Nat
  /\ Message \subseteq Frames /\ Close \in Frames /\ Eof \in Frames
  /\ Close \notin Message /\ Eof \notin Message
BY ClientAssumption DEF Message, Frames, Close, Eof

LEMMA TypedInit == Init => Typed
<1> SUFFICES ASSUME Init PROVE Typed
  OBVIOUS
<1>1. /\ sent \in Seq(Message) /\ received \in Seq(Message) /\ incoming \in Seq(Message)
      /\ up \in Seq(Frames) /\ down \in Seq(Frames) /\ down \in Seq(Message)
  BY EmptySeq DEF Init
<1>2. Len(sent) <= MaxSends /\ spurious \in 0 .. MaxSpurious
  BY FramesKnown DEF Init
<1> QED
  BY <1>1, <1>2 DEF Init, Typed, TypeOK

LEMMA TypedStep == Typed /\ [Next]_vars => Typed'
<1> SUFFICES ASSUME Typed, [Next]_vars PROVE Typed'
  OBVIOUS
<1> USE DEF Typed, TypeOK
<1> DEFINE Points == {"idle", "send", "sendWoken", "receive", "receiveWoken", "closing",
                      "close", "closeWoken", "join", "gone"}
<1>0. /\ \A u \in Sleeping : Woken(u) \in Points
      /\ \A u \in Sleeping : Woken(u) \in {"send", "sendWoken"} => u = "send"
  BY DEF Sleeping, Woken
<1>1. CASE InCall
  <2> USE DEF MoveUser, userVars, linkVars
  <2>1. CASE SendAgain
    BY <2>1 DEF SendAgain
  <2>2. CASE SendMessage
    <3>1. Len(sent) + 1 \in Message
      BY <2>2, FramesKnown DEF SendMessage, Message
    <3>2. /\ sent' \in Seq(Message) /\ Len(sent') = Len(sent) + 1
          /\ up' \in Seq(Frames)
      BY <2>2, <3>1, FramesKnown, AppendProperties DEF SendMessage
    <3> QED
      BY <2>2, <3>2, FramesKnown DEF SendMessage
  <2>3. CASE SendThrows
    BY <2>3 DEF SendThrows, Throw
  <2>4. CASE Receive
    <3>1. Head(incoming) \in Message /\ Tail(incoming) \in Seq(Message)
      BY <2>4, HeadTailProperties DEF Receive
    <3> QED
      BY <2>4, <3>1 DEF Receive
  <2>5. CASE ReceiveAgain
    BY <2>5 DEF ReceiveAgain
  <2>6. CASE CloseAgain
    BY <2>6 DEF CloseAgain
  <2>7. CASE Closed
    BY <2>7 DEF Closed
  <2>8. CASE Join
    BY <2>8 DEF Join
  <2>9. CASE SetClosing
    <3>1. up' \in Seq(Frames)
      BY <2>9, FramesKnown, AppendProperties DEF SetClosing
    <3> QED
      BY <2>9, <3>1 DEF SetClosing
  <2> QED
    BY <1>1, <2>1, <2>2, <2>3, <2>4, <2>5, <2>6, <2>7, <2>8, <2>9 DEF InCall
<1>2. CASE Call
  BY <1>2 DEF Call, BeginSend, BeginReceive, Destroy, DestroyThrows, MoveUser, Throw,
              userVars, linkVars
<1>3. CASE SpuriousWakeup
  BY <1>0, <1>3, FramesKnown DEF SpuriousWakeup, userVars, linkVars
<1>4. CASE IoThread
  <2> USE DEF MoveIo, userVars, linkVars
  <2>1. CASE StartThrows \/ ConnectFails \/ Connect \/ OpenHandler \/ CloseTimeout
             \/ CloseHandler
    <3>1. UNCHANGED <<user, sent, received, incoming, joining, up, down, peer, spurious>>
      BY <2>1 DEF StartThrows, ConnectFails, Connect, OpenHandler, CloseTimeout, CloseHandler
    <3>2. /\ io' \in {"start", "opened", "openNotify", "closed", "closeNotify", "ended"}
          /\ conn' \in {conn, "open", "closed"} /\ hdl' \in BOOLEAN
          /\ fault' \in {fault, "start"}
      BY <2>1 DEF StartThrows, ConnectFails, Connect, OpenHandler, CloseTimeout,
                  CloseHandler, Throw
    <3> QED
      BY <3>1, <3>2
  <2>2. CASE OpenNotify \/ CloseNotify \/ MessageNotify
    <3>1. user' \in Points /\ (user' \in {"send", "sendWoken"} => user \in {"send", "sendWoken"})
      BY <1>0, <2>2 DEF OpenNotify, CloseNotify, MessageNotify, NotifyOpen,
                        NotifyIncoming, Sleeping
    <3>2. io' \in {"loop", "ended"}
      BY <2>2 DEF OpenNotify, CloseNotify, MessageNotify
    <3> QED
      BY <2>2, <3>1, <3>2 DEF OpenNotify, CloseNotify, MessageNotify
  <2>3. CASE OnMessage \/ DropMessage \/ CloseAck \/ Terminate
    <3>1. down # <<>> /\ down' = Tail(down)
      BY <2>3 DEF OnMessage, DropMessage, CloseAck, Terminate, Reads
    <3>2. /\ Tail(down) \in Seq(Frames)
          /\ down \in Seq(Message) => Tail(down) \in Seq(Message)
      BY <3>1, HeadTailProperties
    <3>3. UNCHANGED <<up, peer, sent, received, hdl, joining, spurious, fault, user>>
      BY <2>3 DEF OnMessage, DropMessage, CloseAck, Terminate
    <3>4. incoming' \in Seq(Message)
      <4>1. incoming' = incoming \/ \E m \in Message : incoming' = Append(incoming, m)
        BY <2>3 DEF OnMessage, DropMessage, CloseAck, Terminate
      <4>2. \A m \in Message : Append(incoming, m) \in Seq(Message)
        BY AppendProperties
      <4> QED
        BY <4>1, <4>2
    <3>5. io' \in {"loop", "messageNotify", "closed"} /\ conn' \in {conn, "closed"}
      BY <2>3 DEF OnMessage, DropMessage, CloseAck, Terminate
    <3> QED
      BY <3>1, <3>2, <3>3, <3>4, <3>5
  <2> QED
    BY <1>4, <2>1, <2>2, <2>3 DEF IoThread
<1>5. CASE ServerReplies \/ ServerCloses
  <2>1. up # <<>> /\ up' = Tail(up) /\ Tail(up) \in Seq(Frames)
    BY <1>5, HeadTailProperties DEF ServerReplies, ServerCloses
  <2>2. CASE ServerReplies
    <3>1. down' \in Seq(Frames) /\ (down \in Seq(Message) => down' \in Seq(Message))
      BY <2>2, FramesKnown, AppendProperties DEF ServerReplies
    <3> QED
      BY <2>1, <2>2, <3>1 DEF ServerReplies, userVars
  <2>3. CASE ServerCloses
    <3>1. Append(down, Close) \in Seq(Frames)
      BY FramesKnown, AppendProperties
    <3>2. down' \in Seq(Frames)
      BY <2>3, <3>1, FramesKnown, AppendProperties DEF ServerCloses
    <3> QED
      BY <2>1, <2>3, <3>2 DEF ServerCloses, userVars
  <2> QED
    BY <1>5, <2>2, <2>3
<1>6. CASE ServerHangs
  BY <1>6 DEF ServerHangs, userVars
<1>7. CASE ServerGoes
  <2>1. PICK k \in 0 .. Len(down) : down' = Append(SubSeq(down, 1, k), Eof)
    BY <1>7 DEF ServerGoes
  <2>2. SubSeq(down, 1, k) \in Seq(Frames)
    BY SubSeqProperties
  <2>3. down' \in Seq(Frames)
    BY <2>1, <2>2, FramesKnown, AppendProperties
  <2> QED
    BY <1>7, <2>3 DEF ServerGoes, userVars
<1>8. CASE UNCHANGED vars
  BY <1>8 DEF vars
<1> QED
  BY <1>1, <1>2, <1>3, <1>4, <1>5, <1>6, <1>7, <1>8 DEF Next

(* Every variable keeps its type, for any number of messages.              *)
THEOREM ClientTypeCorrect == Spec => []TypeOK
<1>1. Typed => TypeOK
  BY DEF Typed
<1> QED
  BY <1>1, TypedInit, TypedStep, PTL DEF Spec

LEMMA HandledInit == Init => Handled /\ Lost
BY DEF Init, Handled, Lost, Destroying

LEMMA HandledStep == Typed /\ Handled /\ [Next]_vars => Handled'
<1> SUFFICES ASSUME Typed, Handled, [Next]_vars PROVE Handled'
  OBVIOUS
<1> USE DEF Handled, Destroying
<1>1. CASE InCall
  <2>1. CASE SetClosing
    BY <2>1 DEF SetClosing, MoveUser, userVars, Typed, TypeOK
  <2>2. CASE SendMessage
    BY <2>2 DEF SendMessage, MoveUser
  <2>3. CASE SendAgain \/ SendThrows \/ Receive \/ ReceiveAgain \/ CloseAgain
    BY <2>3 DEF SendAgain, SendThrows, Receive, ReceiveAgain, CloseAgain, MoveUser, userVars
  <2>4. CASE Closed \/ Join
    BY <2>4 DEF Closed, Join, MoveUser, userVars, Typed, TypeOK
  <2> QED
    BY <1>1, <2>1, <2>2, <2>3, <2>4 DEF InCall
<1>2. CASE Call
  <2>1. CASE BeginSend \/ BeginReceive \/ DestroyThrows
    <3>1. UNCHANGED <<io, conn, hdl, sent>> /\ user = "idle"
          /\ user' \in {"idle", "send", "receiveWoken"}
      BY <2>1 DEF BeginSend, BeginReceive, DestroyThrows, MoveUser, userVars
    <3> QED
      BY <3>1
  <2>2. CASE Destroy
    <3>1. UNCHANGED <<io, conn, hdl, sent>> /\ hdl /\ conn = "open"
          /\ user = "idle" /\ user' = "closing"
      BY <2>2 DEF Destroy, MoveUser, userVars
    <3> QED
      BY <3>1
  <2> QED
    BY <1>2, <2>1, <2>2 DEF Call
<1>3. CASE SpuriousWakeup
  BY <1>3 DEF SpuriousWakeup, Sleeping, Woken, userVars
<1>4. CASE IoThread
  <2>1. CASE StartThrows \/ ConnectFails \/ Connect \/ OpenHandler \/ CloseTimeout
             \/ CloseHandler
    BY <1>4, <2>1 DEF StartThrows, ConnectFails, Connect, OpenHandler, CloseTimeout,
                CloseHandler, MoveIo, userVars
  <2>2. CASE OpenNotify \/ CloseNotify \/ MessageNotify
    BY <2>2 DEF OpenNotify, CloseNotify, MessageNotify, NotifyOpen, NotifyIncoming, Woken,
                MoveIo, userVars
  <2>3. CASE OnMessage \/ DropMessage \/ CloseAck \/ Terminate
    <3>1. UNCHANGED <<user, sent, hdl>>
      BY <2>3 DEF OnMessage, DropMessage, CloseAck, Terminate, userVars
    <3>2. \/ io \in {"loop"} /\ io' \in {"loop", "messageNotify"} /\ conn' = conn
          \/ io = "loop" /\ io' = "closed" /\ conn' = "closed"
      BY <2>3 DEF OnMessage, DropMessage, CloseAck, Terminate, MoveIo
    <3> QED
      BY <3>1, <3>2
  <2> QED
    BY <1>4, <2>1, <2>2, <2>3 DEF IoThread
<1>5. CASE ServerReplies \/ ServerCloses \/ ServerHangs \/ ServerGoes
  <2>1. UNCHANGED <<user, sent, hdl, io, conn>>
    BY <1>5 DEF ServerReplies, ServerCloses, ServerHangs, ServerGoes, userVars
  <2> QED
    BY <2>1
<1>6. CASE UNCHANGED vars
  BY <1>6 DEF vars
<1> QED
  BY <1>1, <1>2, <1>3, <1>4, <1>5, <1>6 DEF Next

(* The end of the stream is there to be read only when the server has gone.*)
LEMMA EndMeansGone ==
  ASSUME Typed, down # <<>>, Head(down) = Eof
  PROVE  peer = "gone"
<1>1. peer # "gone" => Head(down) \in Message
  BY HeadTailProperties DEF Typed
<1> QED
  BY <1>1, FramesKnown

LEMMA LostStep == Typed /\ Handled /\ Lost /\ [Next]_vars => Lost'
<1> SUFFICES ASSUME Typed, Handled, Lost, [Next]_vars PROVE Lost'
  OBVIOUS
<1> USE DEF Handled, Lost, Destroying
<1>1. CASE InCall
  BY <1>1 DEF InCall, SendAgain, SendMessage, SendThrows, Receive, ReceiveAgain, CloseAgain,
              SetClosing, Closed, Join, MoveUser, userVars, linkVars
<1>2. CASE Call
  BY <1>2 DEF Call, BeginSend, BeginReceive, Destroy, DestroyThrows, MoveUser, userVars, linkVars
<1>3. CASE SpuriousWakeup
  BY <1>3 DEF SpuriousWakeup, Sleeping, Woken, userVars, linkVars
<1>4. CASE IoThread
  <2>1. CASE StartThrows \/ ConnectFails \/ Connect \/ OpenHandler \/ CloseTimeout
             \/ CloseHandler
    BY <1>4, <2>1 DEF StartThrows, ConnectFails, Connect, OpenHandler, CloseTimeout,
                CloseHandler, MoveIo, userVars, linkVars
  <2>2. CASE OpenNotify \/ CloseNotify \/ MessageNotify
    BY <2>2 DEF OpenNotify, CloseNotify, MessageNotify, NotifyOpen, NotifyIncoming, Woken,
                MoveIo, userVars, linkVars
  <2>3. CASE OnMessage \/ DropMessage \/ CloseAck
    <3>1. UNCHANGED <<user, sent, conn, peer>> /\ io = "loop" /\ io' # "ended"
      BY <2>3 DEF OnMessage, DropMessage, CloseAck, MoveIo, userVars
    <3> QED
      BY <3>1
  <2>4. CASE Terminate
    <3>1. peer = "gone" /\ peer' = peer
      BY <2>4, EndMeansGone DEF Terminate, Reads
    <3> QED
      BY <3>1
  <2> QED
    BY <1>4, <2>1, <2>2, <2>3, <2>4 DEF IoThread
<1>5. CASE ServerReplies \/ ServerCloses \/ ServerHangs \/ ServerGoes
  <2>1. UNCHANGED <<user, sent, io, conn>> /\ (peer = "gone" => peer' = "gone")
    BY <1>5 DEF ServerReplies, ServerCloses, ServerHangs, ServerGoes, userVars
  <2> QED
    BY <2>1
<1>6. CASE UNCHANGED vars
  BY <1>6 DEF vars
<1> QED
  BY <1>1, <1>2, <1>3, <1>4, <1>5, <1>6 DEF Next

(* An exception of a client that has sent something: no other step may     *)
(* follow, so it is enough to look at the step that throws.                *)
LEMMA FaultStep == Typed /\ Handled /\ Lost /\ FaultNeedsLoss /\ [Next]_vars => FaultNeedsLoss'
<1> SUFFICES ASSUME Typed, Handled, Lost, FaultNeedsLoss, [Next]_vars PROVE FaultNeedsLoss'
  OBVIOUS
<1> USE DEF FaultNeedsLoss
<1>1. CASE fault # "none"
  <2>1. UNCHANGED vars
    BY <1>1 DEF Next, InCall, SendAgain, SendMessage, SendThrows, Receive, ReceiveAgain,
      SetClosing, CloseAgain, Closed, Join, Call, BeginSend, BeginReceive, Destroy, DestroyThrows,
      SpuriousWakeup, IoThread, StartThrows, ConnectFails, Connect, OpenHandler, OpenNotify,
      OnMessage, DropMessage, MessageNotify, CloseAck, Terminate, CloseTimeout, CloseHandler,
      CloseNotify, ServerReplies, ServerCloses, ServerHangs, ServerGoes, MoveUser, MoveIo, Alive
  <2> QED
    BY <2>1 DEF vars
<1>2. CASE fault = "none" /\ fault' # "none"
  <2>1. SendThrows \/ DestroyThrows \/ StartThrows
    BY <1>2 DEF Next, InCall, SendAgain, SendMessage, Receive, ReceiveAgain,
      SetClosing, CloseAgain, Closed, Join, Call, BeginSend, BeginReceive, Destroy,
      SpuriousWakeup, IoThread, ConnectFails, Connect, OpenHandler, OpenNotify,
      OnMessage, DropMessage, MessageNotify, CloseAck, Terminate, CloseTimeout, CloseHandler,
      CloseNotify, ServerReplies, ServerCloses, ServerHangs, ServerGoes, vars
  <2>2. UNCHANGED <<sent, peer>>
    BY <2>1 DEF SendThrows, DestroyThrows, StartThrows, userVars, linkVars
  <2>3. sent # <<>> => peer = "gone"
    BY <2>1 DEF SendThrows, DestroyThrows, StartThrows, MoveUser, MoveIo, Handled, Lost,
                Destroying, Typed, TypeOK
  <2> QED
    BY <2>2, <2>3
<1>3. CASE fault' = "none"
  BY <1>3
<1> QED
  BY <1>1, <1>2, <1>3

(* When the destructor has returned nobody uses the connection any more,   *)
(* whatever the server did meanwhile.                                      *)
THEOREM DestructionIsSafe == Spec => []DestroyedAlone
<1>1. Handled => DestroyedAlone
  BY DEF Handled, DestroyedAlone
<1> QED
  BY <1>1, TypedInit, TypedStep, HandledInit, HandledStep, PTL DEF Spec

(* Only the loss of the server turns a call of a client that has sent      *)
(* something into an exception that ends the process.                      *)
THEOREM FaultsNeedLoss == Spec => []FaultNeedsLoss
<1>1. Init => FaultNeedsLoss
  BY DEF Init, FaultNeedsLoss
<1> QED
  BY <1>1, TypedInit, TypedStep, HandledInit, HandledStep, LostStep, FaultStep, PTL DEF Spec

LEMMA NumberedInit == Init => Numbered /\ InFlight
BY EmptySeq DEF Init, Numbered, InFlight, Seen

LEMMA Lengths ==
  ASSUME Typed
  PROVE  /\ Len(sent) \in Nat /\ Len(received) \in Nat /\ Len(incoming) \in Nat
         /\ Len(up) \in Nat /\ Len(down) \in Nat /\ Seen \in Nat
         /\ sent \in Seq(Message) /\ received \in Seq(Message) /\ incoming \in Seq(Message)
         /\ up \in Seq(Frames) /\ down \in Seq(Frames)
BY LenProperties DEF Typed, TypeOK, Seen

LEMMA Sizes ==
  ASSUME Typed
  PROVE  /\ Len(sent) \in Nat /\ Len(received) \in Nat /\ Len(incoming) \in Nat
         /\ Len(up) \in Nat /\ Len(down) \in Nat /\ Seen \in Nat
BY Lengths

(* The two steps that move a message between the queues of the client, and *)
(* the one that adds a message.                                            *)
LEMMA SendKeepsNumbers ==
  ASSUME Typed, Numbered, InFlight, SendMessage
  PROVE  Numbered' /\ InFlight'
<1> DEFINE n == Len(sent) + 1
<1>0. n \in Message
  BY Sizes, FramesKnown DEF SendMessage, MoveUser, Typed, Message
<1>1. /\ sent' = Append(sent, n) /\ Len(sent') = n
      /\ \A i \in 1 .. Len(sent) : sent'[i] = sent[i]
      /\ sent'[n] = n
  BY <1>0, Lengths, AppendProperties DEF SendMessage
<1>2. /\ Len(up') = Len(up) + 1 /\ up'[Len(up) + 1] = n
      /\ \A i \in 1 .. Len(up) : up'[i] = up[i]
  BY <1>0, Lengths, FramesKnown, AppendProperties DEF SendMessage
<1>3. UNCHANGED <<received, incoming, down, peer, conn, Seen>>
  BY DEF SendMessage, Seen
<1>4. Numbered'
  BY <1>1, <1>3, Sizes DEF Numbered, Seen
<1>5. InFlight'
  <2>1. conn = "open"
    BY DEF SendMessage
  <2>2. \A i \in 1 .. Len(down) :
          down[i] # Close /\ (down[i] \in Message => down[i] = Seen + i /\ down[i] <= n)
    BY <2>1, Sizes DEF InFlight, Message
  <2>3. peer # "gone" => /\ \A i \in 1 .. Len(up') : up'[i] = Seen + Len(down) + i
                         /\ Seen + Len(down) + Len(up') = n
    <3> SUFFICES ASSUME peer # "gone"
                 PROVE  /\ \A i \in 1 .. Len(up') : up'[i] = Seen + Len(down) + i
                        /\ Seen + Len(down) + Len(up') = n
      OBVIOUS
    <3>1. /\ \A i \in 1 .. Len(up) : up[i] = Seen + Len(down) + i
          /\ Seen + Len(down) + Len(up) = Len(sent)
      BY <2>1 DEF InFlight
    <3>2. ASSUME NEW i \in 1 .. Len(up') PROVE up'[i] = Seen + Len(down) + i
      <4>1. i \in 1 .. Len(up) \/ i = Len(up) + 1
        BY <1>2, Sizes
      <4>2. CASE i \in 1 .. Len(up)
        BY <1>2, <3>1, <4>2
      <4>3. CASE i = Len(up) + 1
        BY <1>2, <3>1, <4>3, Sizes
      <4> QED
        BY <4>1, <4>2, <4>3
    <3>3. Seen + Len(down) + Len(up') = n
      BY <1>2, <3>1, Sizes
    <3> QED
      BY <3>2, <3>3
  <2> QED
    BY <1>1, <1>3, <2>2, <2>3 DEF InFlight
<1> QED
  BY <1>4, <1>5

LEMMA ReceiveKeepsNumbers ==
  ASSUME Typed, Numbered, InFlight, Receive
  PROVE  Numbered' /\ InFlight'
<1>1. /\ Head(incoming) \in Message /\ Head(incoming) = incoming[1]
      /\ Len(incoming) >= 1 /\ Len(incoming') = Len(incoming) - 1
      /\ \A i \in 1 .. Len(incoming') : incoming'[i] = incoming[i + 1]
  BY Lengths, HeadTailProperties, EmptySeq DEF Receive
<1>2. /\ Len(received') = Len(received) + 1
      /\ received'[Len(received) + 1] = Head(incoming)
      /\ \A i \in 1 .. Len(received) : received'[i] = received[i]
  BY <1>1, Lengths, AppendProperties DEF Receive
<1>3. UNCHANGED <<sent, up, down, peer, conn>>
  BY DEF Receive, linkVars
<1>4. Seen' = Seen
  BY <1>1, <1>2, Sizes DEF Seen
<1>5. incoming[1] = Len(received) + 1
  BY <1>1, Sizes DEF Numbered
<1>6. ASSUME NEW i \in 1 .. Len(received') PROVE received'[i] = i
  <2>1. i \in 1 .. Len(received) \/ i = Len(received) + 1
    BY <1>2, Sizes
  <2> QED
    BY <1>1, <1>2, <1>5, <2>1 DEF Numbered
<1>7. ASSUME NEW i \in 1 .. Len(incoming') PROVE incoming'[i] = Len(received') + i
  <2>1. i + 1 \in 1 .. Len(incoming) /\ i \in Nat
    BY <1>1, Sizes
  <2>2. incoming[i + 1] = Len(received) + (i + 1)
    BY <2>1 DEF Numbered
  <2> QED
    BY <1>1, <1>2, <2>1, <2>2, Sizes
<1> QED
  BY <1>3, <1>4, <1>6, <1>7 DEF Numbered, InFlight

LEMMA MessageKeepsNumbers ==
  ASSUME Typed, Numbered, InFlight, OnMessage
  PROVE  Numbered' /\ InFlight'
<1>0. conn = "open" /\ conn' = "open" /\ UNCHANGED <<sent, received, up, peer>>
  BY DEF OnMessage, userVars
<1>1. PICK m \in Message : Reads(m) /\ incoming' = Append(incoming, m)
  BY DEF OnMessage
<1>2. /\ down[1] = m /\ Len(down) >= 1 /\ Len(down') = Len(down) - 1
      /\ \A i \in 1 .. Len(down') : down'[i] = down[i + 1]
  BY <1>1, Lengths, HeadTailProperties, EmptySeq DEF Reads
<1>3. /\ Len(incoming') = Len(incoming) + 1
      /\ incoming'[Len(incoming) + 1] = m
      /\ \A i \in 1 .. Len(incoming) : incoming'[i] = incoming[i]
  BY <1>1, Lengths, AppendProperties
<1>4. m = Seen + 1 /\ m <= Len(sent)
  BY <1>0, <1>2, Sizes DEF InFlight
<1>5. Seen' = Seen + 1
  BY <1>0, <1>3, Sizes DEF Seen
<1>6. Numbered'
  <2>1. ASSUME NEW i \in 1 .. Len(incoming') PROVE incoming'[i] = Len(received) + i
    <3>1. i \in 1 .. Len(incoming) \/ i = Len(incoming) + 1
      BY <1>3, Sizes
    <3>2. CASE i \in 1 .. Len(incoming)
      BY <1>3, <3>2 DEF Numbered
    <3>3. CASE i = Len(incoming) + 1
      BY <1>3, <1>4, <3>3, Sizes DEF Seen
    <3> QED
      BY <3>1, <3>2, <3>3
  <2> QED
    BY <1>0, <1>4, <1>5, <2>1, Sizes DEF Numbered
<1>7. InFlight'
  <2>1. ASSUME NEW i \in 1 .. Len(down')
        PROVE  /\ down'[i] # Close
               /\ down'[i] \in Message => down'[i] = Seen' + i /\ down'[i] <= Len(sent)
    <3>1. i + 1 \in 1 .. Len(down) /\ i \in Nat
      BY <1>2, Sizes
    <3>2. /\ down[i + 1] # Close
          /\ down[i + 1] \in Message => down[i + 1] = Seen + (i + 1) /\ down[i + 1] <= Len(sent)
      BY <1>0, <3>1 DEF InFlight
    <3>3. down'[i] = down[i + 1]
      BY <1>2
    <3>4. Seen' + i = Seen + (i + 1)
      BY <1>5, <3>1, Sizes
    <3> QED
      BY <3>2, <3>3, <3>4
  <2>2. ASSUME peer # "gone"
        PROVE  /\ \A i \in 1 .. Len(up) : up[i] = Seen' + Len(down') + i
               /\ Seen' + Len(down') + Len(up) = Len(sent)
    <3>1. Seen' + Len(down') = Seen + Len(down)
      BY <1>2, <1>5, Sizes
    <3> QED
      BY <1>0, <2>2, <3>1 DEF InFlight
  <2> QED
    BY <1>0, <2>1, <2>2 DEF InFlight
<1> QED
  BY <1>6, <1>7

(* The steps of the server.                                                *)
LEMMA ReplyKeepsNumbers ==
  ASSUME Typed, InFlight, ServerReplies
  PROVE  InFlight'
<1> SUFFICES ASSUME conn \in {"connecting", "open"} PROVE InFlight'
  BY DEF ServerReplies, InFlight
<1>0. UNCHANGED <<sent, received, incoming, conn, peer, Seen>> /\ peer # "gone"
  BY DEF ServerReplies, userVars, Seen
<1>1. PICK m \in Message : up # <<>> /\ Head(up) = m /\ down' = Append(down, m)
  BY DEF ServerReplies
<1>2. /\ up[1] = m /\ Len(up) >= 1 /\ Len(up') = Len(up) - 1
      /\ \A i \in 1 .. Len(up') : up'[i] = up[i + 1]
  BY <1>1, Lengths, HeadTailProperties, EmptySeq DEF ServerReplies
<1>3. /\ Len(down') = Len(down) + 1 /\ down'[Len(down) + 1] = m
      /\ \A i \in 1 .. Len(down) : down'[i] = down[i]
  BY <1>1, Lengths, FramesKnown, AppendProperties
<1>4. /\ \A i \in 1 .. Len(up) : up[i] = Seen + Len(down) + i
      /\ Seen + Len(down) + Len(up) = Len(sent)
  BY <1>0 DEF InFlight
<1>5. m = Seen + Len(down) + 1 /\ m <= Len(sent)
  BY <1>2, <1>4, Sizes
<1>6. ASSUME NEW i \in 1 .. Len(down')
      PROVE  /\ down'[i] # Close
             /\ down'[i] \in Message => down'[i] = Seen + i /\ down'[i] <= Len(sent)
  <2>1. i \in 1 .. Len(down) \/ i = Len(down) + 1
    BY <1>3, Sizes
  <2>2. CASE i \in 1 .. Len(down)
    BY <1>3, <2>2 DEF InFlight
  <2>3. CASE i = Len(down) + 1
    <3>1. down'[i] = m /\ Seen + i = m
      BY <1>3, <1>5, <2>3, Sizes
    <3> QED
      BY <1>5, <3>1, FramesKnown
  <2> QED
    BY <2>1, <2>2, <2>3
<1>7. ASSUME NEW i \in 1 .. Len(up') PROVE up'[i] = Seen + Len(down') + i
  <2>1. i + 1 \in 1 .. Len(up) /\ i \in Nat
    BY <1>2, Sizes
  <2>2. up'[i] = Seen + Len(down) + (i + 1)
    BY <1>2, <1>4, <2>1
  <2> QED
    BY <1>3, <2>1, <2>2, Sizes
<1>8. Seen + Len(down') + Len(up') = Len(sent)
  BY <1>2, <1>3, <1>4, Sizes
<1> QED
  BY <1>0, <1>6, <1>7, <1>8 DEF InFlight

(* The server does not find a close frame before the user has closed.      *)
LEMMA CloseMeansClosing ==
  ASSUME Typed, InFlight, ServerCloses
  PROVE  conn \notin {"connecting", "open"}
<1> SUFFICES ASSUME conn \in {"connecting", "open"} PROVE FALSE
  OBVIOUS
<1>1. up # <<>> /\ up[1] = Close /\ Len(up) >= 1 /\ peer # "gone"
  BY Lengths, HeadTailProperties, EmptySeq DEF ServerCloses
<1>2. Close = Seen + Len(down) + 1
  BY <1>1, Sizes DEF InFlight
<1> QED
  BY <1>2, Sizes DEF Close

LEMMA LossKeepsNumbers ==
  ASSUME Typed, InFlight, ServerGoes
  PROVE  InFlight'
<1> SUFFICES ASSUME conn \in {"connecting", "open"} PROVE InFlight'
  BY DEF ServerGoes, InFlight
<1>0. UNCHANGED <<sent, received, incoming, conn, Seen>> /\ peer' = "gone"
  BY DEF ServerGoes, userVars, Seen
<1>1. PICK k \in 0 .. Len(down) : down' = Append(SubSeq(down, 1, k), Eof)
  BY DEF ServerGoes
<1> DEFINE kept == SubSeq(down, 1, k)
<1>2. kept \in Seq(Frames) /\ Len(kept) = k /\ \A i \in 1 .. k : kept[i] = down[i]
  <2>1. \A i \in 1 .. k : down[i] \in Frames
    BY Lengths, ElementOfSeq
  <2>2. k \in Nat /\ 1 \in Int /\ k \in Int
    BY Sizes
  <2>3. /\ kept \in Seq(Frames)
        /\ Len(kept) = IF 1 <= k THEN k - 1 + 1 ELSE 0
        /\ \A i \in 1 .. k - 1 + 1 : kept[i] = down[1 + i - 1]
    BY <2>1, <2>2, SubSeqProperties
  <2> QED
    BY <2>2, <2>3
<1> HIDE DEF kept
<1>3. /\ Len(down') = k + 1 /\ down'[k + 1] = Eof
      /\ \A i \in 1 .. k : down'[i] = down[i]
  <2>1. down' = Append(kept, Eof)
    BY <1>1 DEF kept
  <2> QED
    BY <1>2, <2>1, FramesKnown, AppendProperties
<1>4. ASSUME NEW i \in 1 .. Len(down')
      PROVE  /\ down'[i] # Close
             /\ down'[i] \in Message => down'[i] = Seen + i /\ down'[i] <= Len(sent)
  <2>1. i \in 1 .. k \/ i = k + 1
    BY <1>3, Sizes
  <2>2. CASE i \in 1 .. k
    <3>1. i \in 1 .. Len(down) /\ down'[i] = down[i]
      BY <1>3, <2>2, Sizes
    <3> QED
      BY <3>1 DEF InFlight
  <2>3. CASE i = k + 1
    <3>1. Eof # Close
      BY DEF Eof, Close
    <3> QED
      BY <1>3, <2>3, <3>1, FramesKnown
  <2> QED
    BY <2>1, <2>2, <2>3
<1> QED
  BY <1>0, <1>4 DEF InFlight

LEMMA NumberedStep ==
  Typed /\ Handled /\ Numbered /\ InFlight /\ [Next]_vars => Numbered' /\ InFlight'
<1> SUFFICES ASSUME Typed, Handled, Numbered, InFlight, [Next]_vars
             PROVE  Numbered' /\ InFlight'
  OBVIOUS
<1> DEFINE Quiet == UNCHANGED <<sent, received, incoming, up, down, peer>>
<1>0. ASSUME Quiet, conn' \in {"connecting", "open"} => conn \in {"connecting", "open"}
      PROVE  Numbered' /\ InFlight'
  BY <1>0 DEF Numbered, InFlight, Seen
<1>1. CASE InCall \/ Call
  <2>1. CASE SendMessage \/ Receive
    BY <2>1, SendKeepsNumbers, ReceiveKeepsNumbers
  <2>2. CASE SetClosing
    <3>1. UNCHANGED <<sent, received, incoming>> /\ conn' = "closing"
      BY <2>2 DEF SetClosing, userVars
    <3> QED
      BY <3>1 DEF Numbered, InFlight, Seen
  <2>3. CASE SendAgain \/ SendThrows \/ ReceiveAgain \/ CloseAgain \/ Closed \/ Join
             \/ BeginSend \/ BeginReceive \/ Destroy \/ DestroyThrows
    <3>1. Quiet /\ conn' = conn
      BY <2>3 DEF SendAgain, SendThrows, ReceiveAgain, CloseAgain, Closed, Join, BeginSend,
                  BeginReceive, Destroy, DestroyThrows, userVars, linkVars
    <3> QED
      BY <1>0, <3>1
  <2> QED
    BY <1>1, <2>1, <2>2, <2>3 DEF InCall, Call
<1>2. CASE SpuriousWakeup \/ UNCHANGED vars \/ ServerHangs
  <2>1. UNCHANGED <<sent, received, incoming, up, down, conn>> /\ (peer' = peer \/ peer = "up")
    BY <1>2 DEF SpuriousWakeup, ServerHangs, vars, userVars, linkVars
  <2> QED
    BY <2>1 DEF Numbered, InFlight, Seen
<1>3. CASE IoThread
  <2>1. CASE OnMessage
    BY <2>1, MessageKeepsNumbers
  <2>2. CASE DropMessage \/ CloseAck \/ Terminate
    <3>1. UNCHANGED <<sent, received, incoming>>
      BY <2>2 DEF DropMessage, CloseAck, Terminate, userVars
    <3>2. conn' \notin {"connecting", "open"}
      <4>1. CASE DropMessage
        BY <4>1 DEF DropMessage, MoveIo, Handled
      <4>2. CASE Terminate
        BY <4>2 DEF Terminate
      <4>3. CASE CloseAck
        <5>1. down[1] = Close /\ Len(down) >= 1 /\ conn' = conn
          BY <4>3, Lengths, HeadTailProperties, EmptySeq DEF CloseAck, Reads
        <5>2. 1 \in 1 .. Len(down)
          BY <5>1, Sizes
        <5> QED
          BY <5>1, <5>2 DEF InFlight
      <4> QED
        BY <2>2, <4>1, <4>2, <4>3
    <3> QED
      BY <3>1, <3>2 DEF Numbered, InFlight, Seen
  <2>3. CASE StartThrows \/ ConnectFails \/ Connect \/ OpenHandler \/ OpenNotify
             \/ MessageNotify \/ CloseTimeout \/ CloseHandler \/ CloseNotify
    <3>1. Quiet
      BY <2>3 DEF StartThrows, ConnectFails, Connect, OpenHandler, OpenNotify,
                  MessageNotify, CloseTimeout, CloseHandler, CloseNotify, userVars, linkVars
    <3>2. conn' \in {"connecting", "open"} => conn \in {"connecting", "open"}
      BY <2>3 DEF StartThrows, ConnectFails, Connect, OpenHandler, OpenNotify,
                  MessageNotify, CloseTimeout, CloseHandler, CloseNotify, MoveIo, Handled
    <3> QED
      BY <1>0, <3>1, <3>2
  <2> QED
    BY <1>3, <2>1, <2>2, <2>3 DEF IoThread
<1>4. CASE ServerReplies \/ ServerCloses \/ ServerGoes
  <2>1. UNCHANGED <<sent, received, incoming, conn>>
    BY <1>4 DEF ServerReplies, ServerCloses, ServerGoes, userVars
  <2>2. Numbered'
    BY <2>1 DEF Numbered, Seen
  <2>3. ServerCloses => InFlight'
    BY <2>1, CloseMeansClosing DEF InFlight
  <2> QED
    BY <1>4, <2>2, <2>3, ReplyKeepsNumbers, LossKeepsNumbers
<1> QED
  BY <1>1, <1>2, <1>3, <1>4 DEF Next

LEMMA PrefixByIndex ==
  ASSUME NEW S, NEW s \in Seq(S), NEW t \in Seq(S), Len(s) <= Len(t),
         \A i \in 1 .. Len(s) : s[i] = t[i]
  PROVE  IsPrefix(s, t)
<1> DEFINE p == SubSeq(t, 1, Len(s))
<1>0. Len(s) \in Nat /\ Len(t) \in Nat /\ 1 \in Int /\ Len(s) \in Int
  BY LenProperties
<1>1. \A i \in 1 .. Len(s) : t[i] \in S
  BY <1>0, ElementOfSeq
<1>2. /\ p \in Seq(S)
      /\ Len(p) = IF 1 <= Len(s) THEN Len(s) - 1 + 1 ELSE 0
      /\ \A i \in 1 .. Len(s) - 1 + 1 : p[i] = t[1 + i - 1]
  BY <1>0, <1>1, SubSeqProperties
<1> HIDE DEF p
<1>3. Len(p) = Len(s) /\ \A i \in 1 .. Len(s) : p[i] = s[i]
  BY <1>0, <1>2
<1>4. p = s
  BY <1>2, <1>3, SeqEqual
<1>5. SubSeq(s, 1, Len(s)) = s
  BY SubSeqFull
<1> QED
  BY <1>4, <1>5 DEF IsPrefix, p

LEMMA NumbersMatch ==
  ASSUME Typed, Numbered
  PROVE  AnswersMatch
<1> DEFINE got == received \o incoming
<1>1. /\ got \in Seq(Message) /\ Len(got) = Seen
      /\ \A i \in 1 .. Seen : got[i] = IF i <= Len(received) THEN received[i]
                                      ELSE incoming[i - Len(received)]
  BY Lengths, ConcatProperties DEF Seen
<1> HIDE DEF got
<1>2. ASSUME NEW i \in 1 .. Seen PROVE got[i] = sent[i]
  <2>1. sent[i] = i
    BY Sizes DEF Numbered
  <2>2. CASE i <= Len(received)
    <3>1. i \in 1 .. Len(received)
      BY <2>2, Sizes
    <3>2. received[i] = i
      BY <3>1 DEF Numbered
    <3> QED
      BY <1>1, <2>1, <2>2, <3>2
  <2>3. CASE ~(i <= Len(received))
    <3>1. i - Len(received) \in 1 .. Len(incoming)
      BY <2>3, Sizes DEF Seen
    <3>2. incoming[i - Len(received)] = Len(received) + (i - Len(received))
      BY <3>1 DEF Numbered
    <3> QED
      BY <1>1, <2>1, <2>3, <3>2, Sizes
  <2> QED
    BY <2>2, <2>3
<1>3. Len(got) <= Len(sent)
  BY <1>1 DEF Numbered
<1> QED
  BY <1>1, <1>2, <1>3, Lengths, PrefixByIndex DEF AnswersMatch, got

(* The k-th receive returns the answer to the k-th send, for any number of *)
(* messages, whatever the server loses when it goes.                       *)
THEOREM AnswersInOrder == Spec => []AnswersMatch
<1>1. Typed /\ Numbered => AnswersMatch
  BY NumbersMatch
<1> QED
  BY <1>1, TypedInit, TypedStep, HandledInit, HandledStep, NumberedInit, NumberedStep, PTL
  DEF Spec
=============================================================================
