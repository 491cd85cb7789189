--------------------------- MODULE WebSocketProofs ---------------------------
(* Safety of WebSocket, for any threads and closers, any number of messages *)
(* and any failures: its type invariant, that no frame is stranded, that    *)
(* the close handler of an end of one thread is called once, that messages  *)
(* arrive in order, and that a close overtakes none.                        *)
(*                                                                         *)
(* Each invariant is proved on top of those before it.  What is new in the  *)
(* last two is what the frames on their way say: Numbered and Streamed give *)
(* each of them its number, by what was queued and what was read, and       *)
(* Marked says which of them may be the first close.                        *)
EXTENDS WebSocket, SequenceTheorems, TLAPS

(* A closed connection is shut down, and was closed once.                  *)
Once == \A e \in Ends :
  /\ state[e] = "closed" => shut[e]
  /\ e \notin Threads => /\ closes[e] = IF state[e] = "closed" THEN 1 ELSE 0
                         /\ app[e] = "close" => state[e] = "open"

(* Frames that are numbered one after the other, up to n.                  *)
UpTo(q, n) == Len(q) <= n /\ \A i \in 1 .. Len(q) : q[i].n = n - Len(q) + i

(* What an end has not transmitted yet ends with its last frame.           *)
Taken(e) == pushed[e] - Len(queue[e])
Numbered == \A e \in Ends :
  /\ UpTo(queue[e], pushed[e])
  /\ write[e] = "started" => UpTo(current[e], Taken(e))

(* What is on its way to an open end begins with the next frame, and goes   *)
(* on with what the other end has not transmitted.                          *)
Transmitted(e) == Taken(e) - (IF write[e] = "started" THEN Len(current[e]) ELSE 0)
Arriving(e)    == Len(received[e]) + Len(net[e])
Streamed == \A e \in Ends :
  /\ Len(received[e]) <= pushed[Other(e)]
  /\ \A k \in 1 .. Len(received[e]) : received[e][k] = k
  /\ state[e] = "open" =>
       /\ UpTo(net[e], Arriving(e)) /\ Arriving(e) <= pushed[Other(e)]
       /\ broken \/ shut[Other(e)] \/ Arriving(e) = Transmitted(Other(e))

(* The first close of an end is a close, and the first one.                *)
Mark(f, last, first) == /\ f.n <= last
                        /\ IF f.kind = "data" THEN f.n # first
                           ELSE first # 0 /\ first <= f.n
Marks(q, last, first) == \A i \in 1 .. Len(q) : Mark(q[i], last, first)
Marked == \A e \in Ends :
  /\ firstClose[e] <= pushed[e]
  /\ Marks(queue[e], pushed[e], firstClose[e])
  /\ Marks(current[e], pushed[e], firstClose[e])
  /\ Marks(net[Other(e)], pushed[e], firstClose[e])

(* An open end has read no close.                                          *)
Unclosed == \A e \in Ends :
  state[e] = "open" => /\ ~clean[e]
                       /\ firstClose[Other(e)] = 0 \/ firstClose[Other(e)] > Len(received[e])

LEMMA EndsKnown ==
  /\ Client \in Ends /\ Server \in Ends
  /\ \A e \in Ends : Other(e) \in Ends /\ Other(e) # e /\ Other(Other(e)) = e
  /\ \A e, f \in Ends : f = e \/ f = Other(e)
BY WebSocketAssumption DEF Ends, Other

LEMMA TypeInit == Init => TypeOK
<1> SUFFICES ASSUME Init PROVE TypeOK
  OBVIOUS
<1>1. \A S : <<>> \in Seq(S)
  BY EmptySeq
<1> QED
  BY <1>1 DEF Init, TypeOK

(* What the parts of actions do to the types.                              *)
LEMMA PushTyped ==
  ASSUME TypeOK, NEW e \in Ends, NEW kind \in {"data", "close", "last"}, Push(e, kind)
  PROVE  /\ queue' \in [Ends -> Seq(Frame)]
         /\ pushed' \in [Ends -> Nat] /\ firstClose' \in [Ends -> Nat]
<1>1. pushed[e] \in Nat /\ queue[e] \in Seq(Frame) /\ firstClose[e] \in Nat
  BY DEF TypeOK
<1>2. [n |-> pushed[e] + 1, kind |-> kind] \in Frame
  BY <1>1 DEF Frame
<1>3. Append(queue[e], [n |-> pushed[e] + 1, kind |-> kind]) \in Seq(Frame)
  BY <1>1, <1>2, AppendProperties
<1> QED
  BY <1>1, <1>3 DEF TypeOK, Push

LEMMA TerminateTyped ==
  ASSUME TypeOK, NEW e \in Ends, Terminate(e)
  PROVE  /\ state' \in [Ends -> {"open", "closing", "closed"}]
         /\ timer' \in [Ends -> BOOLEAN] /\ shut' \in [Ends -> BOOLEAN]
         /\ closes' \in [Ends -> Nat]
BY DEF TypeOK, Terminate

LEMMA NewTimerTyped ==
  ASSUME TypeOK, NEW e \in Ends, NewTimer(e)
  PROVE  timer' \in [Ends -> BOOLEAN] /\ stale' \in [Ends -> Nat]
BY DEF TypeOK, NewTimer

LEMMA ReadsTyped ==
  ASSUME TypeOK, NEW e \in Ends, NEW kinds, Reads(e, kinds)
  PROVE  /\ net' \in [Ends -> Seq(Frame)]
         /\ Head(net[e]) \in Frame /\ Head(net[e]).kind \in kinds
<1>1. Head(net[e]) \in Frame /\ Tail(net[e]) \in Seq(Frame)
  BY HeadTailProperties DEF TypeOK, Reads
<1> QED
  BY <1>1 DEF TypeOK, Reads

(* The two parts of a sequence.                                            *)
LEMMA Split ==
  ASSUME NEW S, NEW q \in Seq(S), NEW k \in 0 .. Len(q)
  PROVE  /\ Len(q) \in Nat
         /\ SubSeq(q, 1, k) \in Seq(S) /\ Len(SubSeq(q, 1, k)) = k
         /\ \A i \in 1 .. k : SubSeq(q, 1, k)[i] = q[i]
         /\ SubSeq(q, k + 1, Len(q)) \in Seq(S) /\ Len(SubSeq(q, k + 1, Len(q))) = Len(q) - k
         /\ \A i \in 1 .. Len(q) - k : SubSeq(q, k + 1, Len(q))[i] = q[k + i]
<1>1. Len(q) \in Nat /\ \A i \in 1 .. Len(q) : q[i] \in S
  BY LenProperties, ElementOfSeq
<1>2. /\ SubSeq(q, 1, k) \in Seq(S) /\ Len(SubSeq(q, 1, k)) = IF 1 <= k THEN k - 1 + 1 ELSE 0
      /\ \A i \in 1 .. k - 1 + 1 : SubSeq(q, 1, k)[i] = q[1 + i - 1]
  <2>1. \A i \in 1 .. k : q[i] \in S
    BY <1>1
  <2>2. 1 \in Int /\ k \in Int
    BY <1>1
  <2> QED
    BY <2>1, <2>2, SubSeqProperties
<1>3. /\ SubSeq(q, k + 1, Len(q)) \in Seq(S)
      /\ Len(SubSeq(q, k + 1, Len(q))) = IF k + 1 <= Len(q) THEN Len(q) - (k + 1) + 1 ELSE 0
      /\ \A i \in 1 .. Len(q) - (k + 1) + 1 : SubSeq(q, k + 1, Len(q))[i] = q[k + 1 + i - 1]
  <2>1. \A i \in k + 1 .. Len(q) : q[i] \in S
    BY <1>1
  <2>2. k + 1 \in Int /\ Len(q) \in Int
    BY <1>1
  <2> QED
    BY <2>1, <2>2, SubSeqProperties
<1>4. Len(SubSeq(q, 1, k)) = k /\ \A i \in 1 .. k : SubSeq(q, 1, k)[i] = q[i]
  BY <1>1, <1>2
<1>5. /\ Len(SubSeq(q, k + 1, Len(q))) = Len(q) - k
      /\ \A i \in 1 .. Len(q) - k : SubSeq(q, k + 1, Len(q))[i] = q[k + i]
  BY <1>1, <1>3
<1> QED
  BY <1>1, <1>2, <1>3, <1>4, <1>5

LEMMA CallsTyped ==
  ASSUME TypeOK, NEW e \in Ends, Send(e) \/ Close(e) \/ InCall(e)
  PROVE  TypeOK'
<1> USE DEF endVars, writeVars, readVars, netVars
<1> DEFINE Points == {"idle", "send", "post", "close", "timer", "push"}
<1>1. \A to \in Points : [app EXCEPT ![e] = to] \in [Ends -> Points]
  BY DEF TypeOK
<1>2. Then(e) \in Points
  BY DEF Then
<1>3. CASE Send(e)
  <2>1. app' \in [Ends -> Points]
    BY <1>1, <1>3 DEF Send, Call
  <2> QED
    BY <1>3, <2>1 DEF Send, TypeOK
<1>4. CASE Close(e)
  <2>1. app' \in [Ends -> Points]
    BY <1>1, <1>4 DEF Close, BeginClose, Call
  <2> QED
    BY <1>4, <2>1 DEF Close, BeginClose, TypeOK
<1>5. CASE PushMessage(e) \/ PushClose(e)
  <2>1. app' \in [Ends -> Points]
    BY <1>1, <1>2, <1>5 DEF PushMessage, PushClose, Call
  <2>2. Push(e, "data") \/ Push(e, "close")
    BY <1>5 DEF PushMessage, PushClose
  <2>3. queue' \in [Ends -> Seq(Frame)] /\ pushed' \in [Ends -> Nat] /\ firstClose' \in [Ends -> Nat]
    BY <2>2, PushTyped
  <2> QED
    BY <1>5, <2>1, <2>3 DEF PushMessage, PushClose, TypeOK
<1>6. CASE Post(e)
  <2>1. app' \in [Ends -> Points] /\ posted' \in [Ends -> Nat]
    BY <1>1, <1>6 DEF Post, Call, TypeOK
  <2> QED
    BY <1>6, <2>1 DEF Post, TypeOK
<1>7. CASE SetClosing(e)
  <2>1. app' \in [Ends -> Points] /\ state' \in [Ends -> {"open", "closing", "closed"}]
    BY <1>1, <1>7 DEF SetClosing, Call, TypeOK
  <2> QED
    BY <1>7, <2>1 DEF SetClosing, TypeOK
<1>8. CASE SetTimer(e)
  <2>1. app' \in [Ends -> Points] /\ timer' \in [Ends -> BOOLEAN] /\ stale' \in [Ends -> Nat]
    BY <1>1, <1>8, NewTimerTyped DEF SetTimer, Call
  <2> QED
    BY <1>8, <2>1 DEF SetTimer, TypeOK
<1> QED
  BY <1>3, <1>4, <1>5, <1>6, <1>7, <1>8 DEF InCall

LEMMA WritesTyped ==
  ASSUME TypeOK, NEW e \in Ends,
         WriteFrame(e) \/ NothingToWrite(e) \/ Transmit(e) \/ Written(e) \/ WrittenLast(e)
           \/ WriteFails(e)
  PROVE  TypeOK'
<1> USE DEF callVars, endVars, readVars, netVars
<1>1. <<>> \in Seq(Frame)
  BY EmptySeq
<1>2. CASE WriteFrame(e)
  <2>1. posted' \in [Ends -> Nat] /\ write' \in [Ends -> {"idle", "started", "sent", "stuck"}]
    BY <1>2 DEF WriteFrame, TypeOK
  <2>2. PICK k \in 1 .. Len(queue[e]) :
          /\ current' = [current EXCEPT ![e] = SubSeq(queue[e], 1, k)]
          /\ queue' = [queue EXCEPT ![e] = SubSeq(queue[e], k + 1, Len(queue[e]))]
    BY <1>2 DEF WriteFrame
  <2>3. queue[e] \in Seq(Frame) /\ Len(queue[e]) \in Nat
    BY LenProperties DEF TypeOK
  <2>4. k \in 0 .. Len(queue[e])
    BY <2>3
  <2>5. SubSeq(queue[e], 1, k) \in Seq(Frame) /\ SubSeq(queue[e], k + 1, Len(queue[e])) \in Seq(Frame)
    BY <2>3, <2>4, Split
  <2>6. current' \in [Ends -> Seq(Frame)] /\ queue' \in [Ends -> Seq(Frame)]
    BY <2>2, <2>5 DEF TypeOK
  <2> QED
    BY <1>2, <2>1, <2>6 DEF WriteFrame, TypeOK
<1>3. CASE NothingToWrite(e)
  <2>1. posted' \in [Ends -> Nat]
    BY <1>3 DEF NothingToWrite, TypeOK
  <2> QED
    BY <1>3, <2>1 DEF NothingToWrite, TypeOK
<1>4. CASE Transmit(e)
  <2>1. net[Other(e)] \o current[e] \in Seq(Frame)
    BY EndsKnown, ConcatProperties DEF TypeOK
  <2>2. net' \in [Ends -> Seq(Frame)] /\ write' \in [Ends -> {"idle", "started", "sent", "stuck"}]
    BY <1>4, <2>1 DEF Transmit, TypeOK
  <2> QED
    BY <1>4, <2>2 DEF Transmit, TypeOK
<1>5. CASE Written(e)
  <2>1. /\ current' \in [Ends -> Seq(Frame)] /\ posted' \in [Ends -> Nat]
        /\ write' \in [Ends -> {"idle", "started", "sent", "stuck"}]
    BY <1>1, <1>5 DEF Written, TypeOK
  <2> QED
    BY <1>5, <2>1 DEF Written, TypeOK
<1>6. CASE WrittenLast(e) \/ WriteFails(e)
  <2>1. /\ current' \in [Ends -> Seq(Frame)]
        /\ write' \in [Ends -> {"idle", "started", "sent", "stuck"}]
    BY <1>1, <1>6 DEF WrittenLast, WriteFails, TypeOK
  <2>2. Terminate(e)
    BY <1>6 DEF WrittenLast, WriteFails
  <2> QED
    BY <1>6, <2>1, <2>2, TerminateTyped DEF WrittenLast, WriteFails, TypeOK
<1> QED
  BY <1>2, <1>3, <1>4, <1>5, <1>6

LEMMA ReadsAreTyped ==
  ASSUME TypeOK, NEW e \in Ends,
         ReadMessage(e) \/ Acknowledge(e) \/ Acknowledged(e) \/ IgnoreClose(e) \/ ReadFails(e)
           \/ TimerExpires(e) \/ StaleTimerExpires(e)
  PROVE  TypeOK'
<1> USE DEF callVars, writeVars, netVars
<1>1. CASE ReadMessage(e)
  <2>1. net' \in [Ends -> Seq(Frame)] /\ Head(net[e]).n \in Nat
    BY <1>1, ReadsTyped DEF ReadMessage, Frame
  <2>2. Append(received[e], Head(net[e]).n) \in Seq(Nat)
    BY <2>1, AppendProperties DEF TypeOK
  <2>3. received' \in [Ends -> Seq(Nat)]
    BY <1>1, <2>2 DEF ReadMessage, TypeOK
  <2> QED
    BY <1>1, <2>1, <2>3 DEF ReadMessage, TypeOK, endVars
<1>2. CASE Acknowledge(e)
  <2>1. net' \in [Ends -> Seq(Frame)]
    BY <1>2, ReadsTyped DEF Acknowledge
  <2>2. queue' \in [Ends -> Seq(Frame)] /\ pushed' \in [Ends -> Nat] /\ firstClose' \in [Ends -> Nat]
    BY <1>2, PushTyped DEF Acknowledge
  <2>3. timer' \in [Ends -> BOOLEAN] /\ stale' \in [Ends -> Nat]
    BY <1>2, NewTimerTyped DEF Acknowledge
  <2>4. /\ state' \in [Ends -> {"open", "closing", "closed"}] /\ clean' \in [Ends -> BOOLEAN]
        /\ posted' \in [Ends -> Nat]
    BY <1>2 DEF Acknowledge, TypeOK
  <2> QED
    BY <1>2, <2>1, <2>2, <2>3, <2>4 DEF Acknowledge, TypeOK
<1>3. CASE Acknowledged(e)
  <2>1. net' \in [Ends -> Seq(Frame)]
    BY <1>3, ReadsTyped DEF Acknowledged
  <2>2. clean' \in [Ends -> BOOLEAN]
    BY <1>3 DEF Acknowledged, TypeOK
  <2>3. Terminate(e) \/ UNCHANGED endVars
    BY <1>3 DEF Acknowledged
  <2>4. /\ state' \in [Ends -> {"open", "closing", "closed"}] /\ timer' \in [Ends -> BOOLEAN]
        /\ shut' \in [Ends -> BOOLEAN] /\ closes' \in [Ends -> Nat]
    BY <2>3, TerminateTyped DEF endVars, TypeOK
  <2> QED
    BY <1>3, <2>1, <2>2, <2>4 DEF Acknowledged, TypeOK
<1>4. CASE IgnoreClose(e)
  <2>1. net' \in [Ends -> Seq(Frame)]
    BY <1>4, ReadsTyped DEF IgnoreClose
  <2> QED
    BY <1>4, <2>1 DEF IgnoreClose, TypeOK, readVars, endVars
<1>5. CASE ReadFails(e)
  <2>1. reading' \in [Ends -> BOOLEAN]
    BY <1>5 DEF ReadFails, TypeOK
  <2>2. Terminate(e) \/ UNCHANGED endVars
    BY <1>5 DEF ReadFails
  <2>3. /\ state' \in [Ends -> {"open", "closing", "closed"}] /\ timer' \in [Ends -> BOOLEAN]
        /\ shut' \in [Ends -> BOOLEAN] /\ closes' \in [Ends -> Nat]
    BY <2>2, TerminateTyped DEF endVars, TypeOK
  <2> QED
    BY <1>5, <2>1, <2>3 DEF ReadFails, TypeOK
<1>6. CASE TimerExpires(e)
  BY <1>6, TerminateTyped DEF TimerExpires, TypeOK, readVars
<1>7. CASE StaleTimerExpires(e)
  <2>1. stale' \in [Ends -> Nat]
    BY <1>7 DEF StaleTimerExpires, TypeOK
  <2> QED
    BY <1>7, <2>1, TerminateTyped DEF StaleTimerExpires, TypeOK
<1> QED
  BY <1>1, <1>2, <1>3, <1>4, <1>5, <1>6, <1>7

(* What a failure of the network leaves of the frames on their way.        *)
LEMMA BreakCuts ==
  ASSUME TypeOK, Break
  PROVE  /\ net' \in [Ends -> Seq(Frame)]
         /\ \A e \in Ends : /\ Len(net'[e]) <= Len(net[e])
                            /\ \A i \in 1 .. Len(net'[e]) : net'[e][i] = net[e][i]
<1>1. PICK k \in 0 .. Len(net[Client]), l \in 0 .. Len(net[Server]) :
        net' = [net EXCEPT ![Client] = SubSeq(@, 1, k), ![Server] = SubSeq(@, 1, l)]
  BY DEF Break
<1>2. net[Client] \in Seq(Frame) /\ net[Server] \in Seq(Frame)
  BY EndsKnown DEF TypeOK
<1>3. /\ net'[Client] = SubSeq(net[Client], 1, k) /\ net'[Server] = SubSeq(net[Server], 1, l)
      /\ DOMAIN net' = Ends
  BY <1>1, EndsKnown, WebSocketAssumption DEF TypeOK
<1>4. /\ net'[Client] \in Seq(Frame) /\ Len(net'[Client]) <= Len(net[Client])
      /\ \A i \in 1 .. Len(net'[Client]) : net'[Client][i] = net[Client][i]
  BY <1>2, <1>3, Split
<1>5. /\ net'[Server] \in Seq(Frame) /\ Len(net'[Server]) <= Len(net[Server])
      /\ \A i \in 1 .. Len(net'[Server]) : net'[Server][i] = net[Server][i]
  BY <1>2, <1>3, Split
<1>6. net' = [e \in Ends |-> net'[e]]
  BY <1>1 DEF TypeOK
<1> QED
  BY <1>3, <1>4, <1>5, <1>6 DEF Ends

(* The steps of an end, once the guard of its handlers is left behind.     *)
Writes(e) == WriteFrame(e) \/ NothingToWrite(e) \/ Transmit(e) \/ Written(e) \/ WrittenLast(e)
             \/ WriteFails(e)
ReadsOrTimes(e) == ReadMessage(e) \/ Acknowledge(e) \/ Acknowledged(e) \/ IgnoreClose(e)
                   \/ ReadFails(e) \/ TimerExpires(e) \/ StaleTimerExpires(e)

LEMMA StepsOfEnds ==
  ASSUME [Next]_vars
  PROVE  \/ \E e \in Ends : Send(e) \/ Close(e) \/ InCall(e) \/ Writes(e) \/ ReadsOrTimes(e)
         \/ Break \/ UNCHANGED vars
BY DEF Next, Handler, Writes, ReadsOrTimes

LEMMA TypeStep == TypeOK /\ [Next]_vars => TypeOK'
<1> SUFFICES ASSUME TypeOK, [Next]_vars PROVE TypeOK'
  OBVIOUS
<1>1. ASSUME NEW e \in Ends, Send(e) \/ Close(e) \/ InCall(e) PROVE TypeOK'
  BY <1>1, CallsTyped
<1>2. ASSUME NEW e \in Ends, Writes(e) PROVE TypeOK'
  BY <1>2, WritesTyped DEF Writes
<1>3. ASSUME NEW e \in Ends, ReadsOrTimes(e) PROVE TypeOK'
  BY <1>3, ReadsAreTyped DEF ReadsOrTimes
<1>4. CASE Break
  BY <1>4, BreakCuts DEF Break, TypeOK, readVars, callVars, endVars, writeVars
<1>5. CASE UNCHANGED vars
  BY <1>5 DEF vars, callVars, endVars, writeVars, readVars, netVars, TypeOK
<1> QED
  BY <1>1, <1>2, <1>3, <1>4, <1>5, StepsOfEnds

(* Every variable of a connection keeps its type (websocketpp's connection).  *)
THEOREM ConnectionTypeCorrect == Spec => []TypeOK
BY TypeInit, TypeStep, PTL DEF Spec
-----------------------------------------------------------------------------
(* Nothing is stranded.                                                    *)
LEMMA StrandedInit == Init => NothingStranded
BY DEF Init, NothingStranded

LEMMA StrandedStep == TypeOK /\ NothingStranded /\ [Next]_vars => NothingStranded'
<1> SUFFICES ASSUME TypeOK, NothingStranded, [Next]_vars PROVE NothingStranded'
  OBVIOUS
<1> DEFINE Safe(e) == queue[e] # <<>> => write[e] # "idle" \/ posted[e] > 0 \/ app[e] = "post"
<1>0. \A e \in Ends : posted[e] \in Nat /\ Safe(e)
  BY DEF TypeOK, NothingStranded
<1>1. ASSUME NEW e \in Ends, Send(e) \/ Close(e) \/ InCall(e), NEW f \in Ends PROVE Safe(f)'
  <2>1. CASE Send(e) \/ Close(e) \/ SetClosing(e) \/ SetTimer(e)
    <3>1. UNCHANGED <<queue, write, posted>> /\ (app[f] = "post" => app'[f] = "post")
      BY <2>1 DEF Send, Close, BeginClose, SetClosing, SetTimer, Call, writeVars, TypeOK
    <3> QED
      BY <1>0, <3>1
  <2>2. CASE PushMessage(e) \/ PushClose(e)
    <3>1. /\ UNCHANGED <<write, posted>>
          /\ app'[e] = Then(e) /\ (f # e => app'[f] = app[f] /\ queue'[f] = queue[f])
      BY <2>2 DEF PushMessage, PushClose, Push, Call, TypeOK
    <3>2. write[e] = "idle" => app'[e] = "post"
      BY <3>1 DEF Then
    <3>3. CASE f = e
      BY <1>0, <3>1, <3>2, <3>3
    <3>4. CASE f # e
      BY <1>0, <3>1, <3>4
    <3> QED
      BY <3>3, <3>4
  <2>3. CASE Post(e)
    <3>1. UNCHANGED <<queue, write>>
      BY <2>3 DEF Post
    <3>2. posted[e] \in Nat /\ posted'[e] = posted[e] + 1
      BY <1>0, <2>3 DEF Post, TypeOK
    <3>3. f # e => app'[f] = app[f] /\ posted'[f] = posted[f]
      BY <2>3 DEF Post, Call, TypeOK
    <3>4. CASE f = e
      BY <3>2, <3>4
    <3>5. CASE f # e
      BY <1>0, <3>1, <3>3, <3>5
    <3> QED
      BY <3>4, <3>5
  <2> QED
    BY <1>1, <2>1, <2>2, <2>3 DEF InCall
<1>2. ASSUME NEW e \in Ends, Writes(e), NEW f \in Ends PROVE Safe(f)'
  <2>1. app' = app
    BY <1>2 DEF Writes, WriteFrame, NothingToWrite, Transmit, Written, WrittenLast, WriteFails, callVars
  <2>2. f # e => queue'[f] = queue[f] /\ write'[f] = write[f] /\ posted'[f] = posted[f]
    BY <1>2 DEF Writes, WriteFrame, NothingToWrite, Transmit, Written, WrittenLast, WriteFails, TypeOK
  <2>3. \/ write'[e] # "idle"
        \/ write'[e] = "idle" /\ queue'[e] # <<>> => posted'[e] > 0
        \/ queue'[e] = <<>>
    <3>1. CASE WriteFrame(e) \/ Transmit(e) \/ WrittenLast(e) \/ WriteFails(e)
      BY <3>1 DEF WriteFrame, Transmit, WrittenLast, WriteFails, TypeOK
    <3>2. CASE NothingToWrite(e)
      BY <3>2 DEF NothingToWrite
    <3>3. CASE Written(e)
      <4>1. posted \in [Ends -> Nat] /\ posted[e] \in Nat
        BY <1>0 DEF TypeOK
      <4>2. queue' = queue
        BY <3>3 DEF Written
      <4>3. queue[e] # <<>> => posted'[e] = posted[e] + 1
        BY <1>0, <3>3, <4>1 DEF Written
      <4> QED
        BY <4>1, <4>2, <4>3
    <3> QED
      BY <1>2, <3>1, <3>2, <3>3 DEF Writes
  <2> QED
    BY <1>0, <2>1, <2>2, <2>3
<1>3. ASSUME NEW e \in Ends, ReadsOrTimes(e), NEW f \in Ends PROVE Safe(f)'
  <2>1. CASE Acknowledge(e)
    <3>1. UNCHANGED <<app, write>>
      BY <2>1 DEF Acknowledge
    <3>2. posted[e] \in Nat /\ DOMAIN posted = Ends /\ DOMAIN queue = Ends
      BY DEF TypeOK
    <3>3. /\ write[e] = "idle" => posted'[e] > 0
          /\ f # e => posted'[f] = posted[f]
      BY <2>1, <3>2 DEF Acknowledge
    <3>4. f # e => queue'[f] = queue[f]
      BY <2>1, <3>2 DEF Acknowledge, Push
    <3> QED
      BY <1>0, <3>1, <3>3, <3>4
  <2>2. CASE ~Acknowledge(e)
    <3>1. UNCHANGED <<app, queue, write, posted>>
      BY <1>3, <2>2 DEF ReadsOrTimes, ReadMessage, Acknowledged, IgnoreClose, ReadFails,
                        TimerExpires, StaleTimerExpires, callVars, writeVars
    <3> QED
      BY <1>0, <3>1
  <2> QED
    BY <2>1, <2>2
<1>4. ASSUME Break \/ UNCHANGED vars, NEW f \in Ends PROVE Safe(f)'
  <2>1. UNCHANGED <<app, queue, write, posted>>
    BY <1>4 DEF Break, vars, callVars, writeVars
  <2> QED
    BY <1>0, <2>1
<1>5. \A f \in Ends : Safe(f)'
  BY <1>1, <1>2, <1>3, <1>4, StepsOfEnds
<1> QED
  BY <1>5 DEF NothingStranded

(* A queued frame never depends on another call to be written: send,        *)
(* send_close_frame, write_frame and handle_write_frame hand the duty to    *)
(* write over without a gap, whichever threads they run in.                 *)
THEOREM NoFrameStranded == Spec => []NothingStranded
BY TypeInit, TypeStep, StrandedInit, StrandedStep, PTL DEF Spec
-----------------------------------------------------------------------------
(* The close handler of an end of one thread.                              *)
LEMMA OnceInit == Init => Once
BY DEF Init, Once

LEMMA OnceStep == TypeOK /\ Once /\ [Next]_vars => Once'
<1> SUFFICES ASSUME TypeOK, Once, [Next]_vars PROVE Once'
  OBVIOUS
<1> DEFINE OnceOf(e) == /\ state[e] = "closed" => shut[e]
                        /\ e \notin Threads => /\ closes[e] = IF state[e] = "closed" THEN 1 ELSE 0
                                               /\ app[e] = "close" => state[e] = "open"
<1>0. \A e \in Ends : OnceOf(e)
  BY DEF Once
<1>1. ASSUME NEW e \in Ends, Send(e) \/ Close(e) \/ InCall(e), NEW f \in Ends PROVE OnceOf(f)'
  <2>1. CASE SetClosing(e)
    <3>1. /\ UNCHANGED <<shut, closes>>
          /\ app[e] = "close" /\ app'[e] = "timer" /\ state'[e] = "closing"
          /\ f # e => app'[f] = app[f] /\ state'[f] = state[f]
      BY <2>1 DEF SetClosing, Call, TypeOK
    <3> QED
      BY <1>0, <3>1
  <2>2. CASE Close(e)
    <3>1. /\ UNCHANGED <<shut, closes, state>> /\ state[e] = "open"
          /\ f # e => app'[f] = app[f]
      BY <2>2 DEF Close, BeginClose, Call, endVars, TypeOK
    <3> QED
      BY <1>0, <3>1
  <2>3. CASE Send(e) \/ PushMessage(e) \/ Post(e) \/ SetTimer(e) \/ PushClose(e)
    <3>1. /\ UNCHANGED <<shut, closes, state>> /\ app'[e] # "close"
          /\ f # e => app'[f] = app[f]
      BY <2>3 DEF Send, PushMessage, Post, SetTimer, PushClose, Call, Then, endVars, TypeOK
    <3> QED
      BY <1>0, <3>1
  <2> QED
    BY <1>1, <2>1, <2>2, <2>3 DEF InCall
<1>2. ASSUME NEW e \in Ends, Handler(e), NEW f \in Ends PROVE OnceOf(f)'
  <2>1. e \in Threads \/ app[e] = "idle"
    BY <1>2 DEF Handler
  <2>2. app' = app
    BY <1>2 DEF Handler, WriteFrame, NothingToWrite, Written, WrittenLast, WriteFails, ReadMessage,
                Acknowledge, Acknowledged, IgnoreClose, ReadFails, TimerExpires,
                StaleTimerExpires, callVars
  <2>3. CASE Terminate(e)
    <3>1. /\ shut'[e] /\ state'[e] = "closed"
          /\ closes'[e] = IF state[e] = "closed" THEN closes[e] ELSE closes[e] + 1
          /\ f # e => shut'[f] = shut[f] /\ state'[f] = state[f] /\ closes'[f] = closes[f]
      BY <2>3 DEF Terminate, TypeOK
    <3> QED
      BY <1>0, <2>1, <2>2, <3>1
  <2>4. CASE Acknowledge(e)
    <3>1. /\ UNCHANGED <<shut, closes>> /\ state[e] = "open" /\ state'[e] = "closing"
          /\ f # e => state'[f] = state[f]
      BY <2>4 DEF Acknowledge, TypeOK
    <3> QED
      BY <1>0, <2>1, <2>2, <3>1
  <2>5. CASE ~Terminate(e) /\ ~Acknowledge(e)
    <3>1. UNCHANGED <<shut, closes, state>>
      BY <1>2, <2>5 DEF Handler, WriteFrame, NothingToWrite, Written, WrittenLast, WriteFails,
                        ReadMessage, Acknowledged, IgnoreClose, ReadFails, TimerExpires,
                        StaleTimerExpires, endVars
    <3> QED
      BY <1>0, <2>2, <3>1
  <2> QED
    BY <2>3, <2>4, <2>5
<1>3. ASSUME (\E e \in Ends : Transmit(e)) \/ Break \/ UNCHANGED vars, NEW f \in Ends
      PROVE  OnceOf(f)'
  <2>1. UNCHANGED <<app, shut, closes, state>>
    BY <1>3 DEF Transmit, Break, vars, callVars, endVars
  <2> QED
    BY <1>0, <2>1
<1>4. \A f \in Ends : OnceOf(f)'
  BY <1>1, <1>2, <1>3 DEF Next
<1> QED
  BY <1>4 DEF Once

(* The close handler of an end whose calls are made in its handlers, as the *)
(* server's are, is called once at most.                                   *)
THEOREM ServerHandledOnce == Spec => []HandledOnce
<1>1. Once => HandledOnce
  BY DEF Once, HandledOnce
<1> QED
  BY <1>1, TypeInit, TypeStep, OnceInit, OnceStep, PTL DEF Spec
-----------------------------------------------------------------------------
(* Numbered frames.                                                        *)
LEMMA UpToAppend ==
  ASSUME NEW q \in Seq(Frame), NEW n \in Nat, UpTo(q, n), NEW f \in Frame, f.n = n + 1
  PROVE  Append(q, f) \in Seq(Frame) /\ Len(Append(q, f)) = Len(q) + 1 /\ UpTo(Append(q, f), n + 1)
<1> DEFINE r == Append(q, f)
<1>1. /\ Len(q) \in Nat /\ r \in Seq(Frame) /\ Len(r) = Len(q) + 1 /\ r[Len(q) + 1] = f
      /\ \A i \in 1 .. Len(q) : r[i] = q[i]
  BY AppendProperties, LenProperties
<1>2. Len(r) <= n + 1
  BY <1>1 DEF UpTo
<1>3. ASSUME NEW i \in 1 .. Len(r) PROVE r[i].n = n + 1 - Len(r) + i
  <2> HIDE DEF r
  <2>1. CASE i = Len(q) + 1
    BY <1>1, <2>1
  <2>2. CASE i \in 1 .. Len(q)
    BY <1>1, <2>2 DEF UpTo
  <2> QED
    BY <1>1, <1>3, <2>1, <2>2
<1> QED
  BY <1>1, <1>2, <1>3 DEF UpTo

LEMMA UpToSplit ==
  ASSUME NEW q \in Seq(Frame), NEW n \in Nat, UpTo(q, n), NEW k \in 0 .. Len(q)
  PROVE  /\ UpTo(SubSeq(q, 1, k), n - (Len(q) - k))
         /\ UpTo(SubSeq(q, k + 1, Len(q)), n)
<1> DEFINE r == SubSeq(q, 1, k)
           s == SubSeq(q, k + 1, Len(q))
<1>1. /\ Len(q) \in Nat /\ Len(r) = k /\ Len(s) = Len(q) - k
      /\ \A i \in 1 .. k : r[i] = q[i]
      /\ \A i \in 1 .. Len(q) - k : s[i] = q[k + i]
  BY Split
<1>2. Len(q) <= n /\ \A i \in 1 .. Len(q) : q[i].n = n - Len(q) + i
  BY DEF UpTo
<1> HIDE DEF r, s
<1>3. UpTo(r, n - (Len(q) - k))
  BY <1>1, <1>2 DEF UpTo
<1>4. UpTo(s, n)
  <2>1. ASSUME NEW i \in 1 .. Len(s) PROVE s[i].n = n - Len(s) + i
    <3>1. k + i \in 1 .. Len(q) /\ i \in 1 .. Len(q) - k
      BY <1>1
    <3>2. s[i].n = n - Len(q) + (k + i)
      BY <1>1, <1>2, <3>1
    <3> QED
      BY <1>1, <3>2
  <2> QED
    BY <1>1, <1>2, <2>1 DEF UpTo
<1> QED
  BY <1>3, <1>4 DEF r, s

LEMMA UpToConcat ==
  ASSUME NEW q \in Seq(Frame), NEW r \in Seq(Frame), NEW n \in Nat, NEW m \in Nat,
         UpTo(q, n), UpTo(r, m), m = n + Len(r)
  PROVE  /\ q \o r \in Seq(Frame) /\ Len(q \o r) = Len(q) + Len(r)
         /\ UpTo(q \o r, m)
<1> DEFINE s == q \o r
<1>1. /\ Len(q) \in Nat /\ Len(r) \in Nat
      /\ s \in Seq(Frame) /\ Len(s) = Len(q) + Len(r)
      /\ \A i \in 1 .. Len(q) + Len(r) : s[i] = IF i <= Len(q) THEN q[i] ELSE r[i - Len(q)]
  BY ConcatProperties, LenProperties
<1> HIDE DEF s
<1>2. ASSUME NEW i \in 1 .. Len(s) PROVE s[i].n = m - Len(s) + i
  <2>1. CASE i <= Len(q)
    <3>1. i \in 1 .. Len(q) /\ s[i] = q[i]
      BY <1>1, <2>1
    <3>2. s[i].n = n - Len(q) + i
      BY <3>1 DEF UpTo
    <3> QED
      BY <1>1, <3>2
  <2>2. CASE ~(i <= Len(q))
    <3>1. i - Len(q) \in 1 .. Len(r) /\ s[i] = r[i - Len(q)]
      BY <1>1, <2>2
    <3>2. s[i].n = m - Len(r) + (i - Len(q))
      BY <3>1 DEF UpTo
    <3> QED
      BY <1>1, <3>2
  <2> QED
    BY <2>1, <2>2
<1>3. Len(s) <= m
  BY <1>1 DEF UpTo
<1> QED
  BY <1>1, <1>2, <1>3 DEF UpTo, s

LEMMA UpToTail ==
  ASSUME NEW q \in Seq(Frame), NEW n \in Nat, UpTo(q, n), q # <<>>
  PROVE  /\ Len(q) \in Nat /\ Len(Tail(q)) = Len(q) - 1 /\ Tail(q) \in Seq(Frame)
         /\ Head(q) = q[1] /\ Head(q).n = n - Len(q) + 1 /\ UpTo(Tail(q), n)
<1> DEFINE t == Tail(q)
<1>1. /\ Len(q) \in Nat \ {0} /\ t \in Seq(Frame) /\ Len(t) = Len(q) - 1
      /\ \A i \in 1 .. Len(t) : t[i] = q[i + 1]
  BY HeadTailProperties, LenProperties, EmptySeq
<1>2. Head(q) = q[1] /\ Head(q).n = n - Len(q) + 1
  BY <1>1 DEF UpTo
<1> HIDE DEF t
<1>3. ASSUME NEW i \in 1 .. Len(t) PROVE t[i].n = n - Len(t) + i
  <2>1. i + 1 \in 1 .. Len(q) /\ t[i] = q[i + 1]
    BY <1>1
  <2>2. t[i].n = n - Len(q) + (i + 1)
    BY <2>1 DEF UpTo
  <2> QED
    BY <1>1, <2>2
<1>4. UpTo(t, n)
  BY <1>1, <1>3 DEF UpTo
<1> QED
  BY <1>1, <1>2, <1>4 DEF t
-----------------------------------------------------------------------------
(* What an end has not transmitted.                                        *)
LEMMA Differences == \A p, l, j \in Nat : p - (l - j) - j = p - l
OBVIOUS

LEMMA PushNumbered ==
  ASSUME TypeOK, Numbered, NEW e \in Ends, NEW kind \in {"data", "close", "last"}, Push(e, kind)
  PROVE  /\ pushed'[e] = pushed[e] + 1 /\ Len(queue'[e]) = Len(queue[e]) + 1
         /\ UpTo(queue'[e], pushed'[e]) /\ Taken(e)' = Taken(e)
         /\ \A f \in Ends : f # e => queue'[f] = queue[f] /\ pushed'[f] = pushed[f]
<1> DEFINE f == [n |-> pushed[e] + 1, kind |-> kind]
<1>1. pushed[e] \in Nat /\ queue[e] \in Seq(Frame) /\ UpTo(queue[e], pushed[e])
  BY DEF TypeOK, Numbered
<1>2. f \in Frame /\ f.n = pushed[e] + 1
  BY <1>1 DEF Frame
<1> HIDE DEF f
<1>3. Len(Append(queue[e], f)) = Len(queue[e]) + 1 /\ UpTo(Append(queue[e], f), pushed[e] + 1)
  BY <1>1, <1>2, UpToAppend
<1>4. /\ queue'[e] = Append(queue[e], f) /\ pushed'[e] = pushed[e] + 1
      /\ \A g \in Ends : g # e => queue'[g] = queue[g] /\ pushed'[g] = pushed[g]
  BY DEF Push, TypeOK, f
<1>5. Len(queue[e]) \in Nat
  BY <1>1, LenProperties
<1>6. Taken(e)' = Taken(e)
  <2>1. pushed'[e] = pushed[e] + 1
    BY <1>4
  <2>2. \A l, m \in Nat : m = l + 1 => pushed'[e] - m = pushed[e] - l
    BY <1>1, <2>1
  <2>3. Len(queue'[e]) = Len(queue[e]) + 1
    BY <1>3, <1>4
  <2>4. Len(queue'[e]) \in Nat
    BY <1>5, <2>3
  <2> QED
    BY <1>5, <2>2, <2>3, <2>4, Zenon DEF Taken
<1> QED
  BY <1>3, <1>4, <1>6

LEMMA WriteFrameNumbered ==
  ASSUME TypeOK, Numbered, NEW e \in Ends, WriteFrame(e)
  PROVE  /\ UpTo(queue'[e], pushed[e]) /\ UpTo(current'[e], pushed[e] - Len(queue'[e]))
         /\ Transmitted(e)' = Transmitted(e)
         /\ write[e] = "idle" /\ write'[e] = "started" /\ pushed' = pushed
         /\ \A f \in Ends : f # e =>
              queue'[f] = queue[f] /\ write'[f] = write[f] /\ current'[f] = current[f]
<1>1. PICK k \in 1 .. Len(queue[e]) :
        /\ current' = [current EXCEPT ![e] = SubSeq(queue[e], 1, k)]
        /\ queue' = [queue EXCEPT ![e] = SubSeq(queue[e], k + 1, Len(queue[e]))]
  BY DEF WriteFrame
<1>2. /\ queue[e] \in Seq(Frame) /\ Len(queue[e]) \in Nat /\ pushed[e] \in Nat
      /\ UpTo(queue[e], pushed[e])
  BY LenProperties DEF TypeOK, Numbered
<1>3. k \in 0 .. Len(queue[e])
  BY <1>2
<1>4. /\ queue'[e] = SubSeq(queue[e], k + 1, Len(queue[e])) /\ current'[e] = SubSeq(queue[e], 1, k)
      /\ \A f \in Ends : f # e => queue'[f] = queue[f] /\ current'[f] = current[f]
  BY <1>1 DEF TypeOK
<1>5. /\ UpTo(current'[e], pushed[e] - (Len(queue[e]) - k)) /\ UpTo(queue'[e], pushed[e])
      /\ Len(queue'[e]) = Len(queue[e]) - k /\ Len(current'[e]) = k
  <2>1. /\ UpTo(SubSeq(queue[e], 1, k), pushed[e] - (Len(queue[e]) - k))
        /\ UpTo(SubSeq(queue[e], k + 1, Len(queue[e])), pushed[e])
    BY <1>2, <1>3, UpToSplit, Zenon
  <2>2. /\ Len(SubSeq(queue[e], 1, k)) = k
        /\ Len(SubSeq(queue[e], k + 1, Len(queue[e]))) = Len(queue[e]) - k
    BY <1>2, <1>3, Split, Zenon
  <2> QED
    BY <1>4, <2>1, <2>2, Zenon
<1>6. /\ pushed' = pushed /\ write[e] = "idle" /\ write'[e] = "started"
      /\ \A f \in Ends : f # e => write'[f] = write[f]
  BY DEF WriteFrame, callVars, TypeOK
<1>7. Transmitted(e) = pushed[e] - Len(queue[e])
  <2>1. Transmitted(e) = pushed[e] - Len(queue[e]) - 0
    BY <1>6, Zenon DEF Transmitted, Taken
  <2> QED
    BY <1>2, <2>1
<1>8. Transmitted(e)' = pushed[e] - (Len(queue[e]) - k) - k
  BY <1>5, <1>6, Zenon DEF Transmitted, Taken
<1>9. k \in Nat
  BY <1>2
<1>10. Transmitted(e)' = Transmitted(e)
  BY <1>2, <1>7, <1>8, <1>9, Differences, Zenon
<1> QED
  BY <1>4, <1>5, <1>6, <1>10

LEMMA NumberedInit == Init => Numbered
<1>1. UpTo(<<>>, 0)
  BY DEF UpTo
<1> QED
  BY <1>1 DEF Init, Numbered

(* The steps that neither queue a frame nor take one.                      *)
LEMMA Others ==
  ASSUME TypeOK, [Next]_vars, NEW f \in Ends,
         ~WriteFrame(f), ~PushMessage(f), ~PushClose(f), ~Acknowledge(f)
  PROVE  /\ queue'[f] = queue[f] /\ pushed'[f] = pushed[f] /\ firstClose'[f] = firstClose[f]
         /\ write'[f] = "started" => write[f] = "started"
         /\ \/ current'[f] = current[f] /\ (write'[f] = write[f] \/ (Transmit(f) /\ write[f] = "started"))
            \/ /\ current'[f] = <<>>
               /\ write'[f] # "started"
               /\ write[f] = "sent" \/ shut'[f]
<1> DEFINE Kept == /\ queue'[f] = queue[f] /\ pushed'[f] = pushed[f] /\ firstClose'[f] = firstClose[f]
                   /\ write'[f] = write[f] /\ current'[f] = current[f]
<1>1. ASSUME NEW e \in Ends, Send(e) \/ Close(e) \/ Post(e) \/ SetClosing(e) \/ SetTimer(e) PROVE Kept
  BY <1>1 DEF Send, Close, BeginClose, Post, SetClosing, SetTimer, writeVars
<1>2. ASSUME NEW e \in Ends, PushMessage(e) \/ PushClose(e) \/ Acknowledge(e) PROVE Kept
  <2>1. e # f
    BY <1>2
  <2>2. Push(e, "data") \/ Push(e, "close") \/ Push(e, "last")
    BY <1>2 DEF PushMessage, PushClose, Acknowledge
  <2>3. queue'[f] = queue[f] /\ pushed'[f] = pushed[f] /\ firstClose'[f] = firstClose[f]
    BY <2>1, <2>2 DEF Push, TypeOK
  <2> QED
    BY <1>2, <2>3 DEF PushMessage, PushClose, Acknowledge
<1>3. ASSUME NEW e \in Ends, WriteFrame(e) PROVE Kept
  <2>1. e # f
    BY <1>3
  <2> QED
    BY <1>3, <2>1 DEF WriteFrame, callVars, TypeOK
<1>4. ASSUME NEW e \in Ends,
             NothingToWrite(e) \/ ReadMessage(e) \/ Acknowledged(e) \/ IgnoreClose(e) \/ ReadFails(e)
               \/ TimerExpires(e) \/ StaleTimerExpires(e) \/ Break \/ UNCHANGED vars
      PROVE  Kept
  BY <1>4 DEF NothingToWrite, ReadMessage, Acknowledged, IgnoreClose, ReadFails, TimerExpires,
              StaleTimerExpires, Break, vars, callVars, writeVars
<1>5. ASSUME NEW e \in Ends, Transmit(e)
      PROVE  /\ queue'[f] = queue[f] /\ pushed'[f] = pushed[f] /\ firstClose'[f] = firstClose[f]
             /\ current'[f] = current[f]
             /\ write'[f] = write[f] \/ (Transmit(f) /\ write[f] = "started" /\ write'[f] = "sent")
  <2>1. /\ queue' = queue /\ current' = current /\ pushed' = pushed /\ firstClose' = firstClose
        /\ write[e] = "started" /\ write' = [write EXCEPT ![e] = "sent"]
    BY <1>5 DEF Transmit, callVars
  <2>2. CASE e = f
    BY <1>5, <2>1, <2>2 DEF TypeOK
  <2>3. CASE e # f
    BY <2>1, <2>3
  <2> QED
    BY <2>2, <2>3
<1>6. ASSUME NEW e \in Ends, Written(e) \/ WrittenLast(e) \/ WriteFails(e)
      PROVE  /\ queue'[f] = queue[f] /\ pushed'[f] = pushed[f] /\ firstClose'[f] = firstClose[f]
             /\ \/ current'[f] = current[f] /\ write'[f] = write[f]
                \/ /\ current'[f] = <<>> /\ write'[f] # "started"
                   /\ write[f] = "sent" \/ shut'[f]
  <2>1. CASE e = f
    BY <1>6, <2>1 DEF Written, WrittenLast, WriteFails, Terminate, callVars, TypeOK
  <2>2. CASE e # f
    BY <1>6, <2>2 DEF Written, WrittenLast, WriteFails, callVars, TypeOK
  <2> QED
    BY <2>1, <2>2
<1> HIDE DEF Kept
<1>7. \/ Kept \/ (\E e \in Ends : Transmit(e))
      \/ \E e \in Ends : Written(e) \/ WrittenLast(e) \/ WriteFails(e)
  BY <1>1, <1>2, <1>3, <1>4, EndsKnown, StepsOfEnds DEF InCall, Writes, ReadsOrTimes
<1> QED
  BY <1>5, <1>6, <1>7 DEF Kept

LEMMA PushesNumbered ==
  ASSUME TypeOK, Numbered, NEW e \in Ends, PushMessage(e) \/ PushClose(e) \/ Acknowledge(e)
  PROVE  /\ \E kind \in {"data", "close", "last"} : Push(e, kind)
         /\ pushed'[e] = pushed[e] + 1 /\ Len(queue'[e]) = Len(queue[e]) + 1
         /\ UpTo(queue'[e], pushed'[e]) /\ Taken(e)' = Taken(e)
         /\ \A f \in Ends : f # e => queue'[f] = queue[f] /\ pushed'[f] = pushed[f]
         /\ write' = write /\ current' = current
<1>1. PICK kind \in {"data", "close", "last"} : Push(e, kind)
  BY DEF PushMessage, PushClose, Acknowledge
<1>2. write' = write /\ current' = current
  BY DEF PushMessage, PushClose, Acknowledge
<1> QED
  BY <1>1, <1>2, PushNumbered

LEMMA NumberedStep == TypeOK /\ Numbered /\ [Next]_vars => Numbered'
<1> SUFFICES ASSUME TypeOK, Numbered, [Next]_vars, NEW f \in Ends
             PROVE  /\ UpTo(queue'[f], pushed'[f])
                    /\ write'[f] = "started" => UpTo(current'[f], Taken(f)')
  BY DEF Numbered
<1>0. UpTo(queue[f], pushed[f]) /\ (write[f] = "started" => UpTo(current[f], Taken(f)))
  BY DEF Numbered
<1>1. CASE WriteFrame(f)
  BY <1>1, WriteFrameNumbered DEF Taken
<1>2. CASE PushMessage(f) \/ PushClose(f) \/ Acknowledge(f)
  <2>1. UpTo(queue'[f], pushed'[f]) /\ Taken(f)' = Taken(f) /\ write' = write /\ current' = current
    BY <1>2, PushesNumbered
  <2> QED
    BY <1>0, <2>1
<1>3. CASE ~(WriteFrame(f) \/ PushMessage(f) \/ PushClose(f) \/ Acknowledge(f))
  <2>1. /\ queue'[f] = queue[f] /\ pushed'[f] = pushed[f]
        /\ write'[f] = "started" => write[f] = "started" /\ current'[f] = current[f]
    BY <1>3, Others
  <2>2. Taken(f)' = Taken(f)
    BY <2>1, Zenon DEF Taken
  <2> QED
    BY <1>0, <2>1, <2>2
<1> QED
  BY <1>1, <1>2, <1>3

(* An end takes back nothing it has transmitted.                           *)
LEMMA SendingStep ==
  ASSUME TypeOK, Numbered, [Next]_vars, NEW f \in Ends
  PROVE  /\ pushed'[f] >= pushed[f]
         /\ \/ Transmit(f) \/ shut'[f]
            \/ Transmitted(f)' = Transmitted(f)
<1>0. pushed[f] \in Nat
  BY DEF TypeOK
<1>1. CASE WriteFrame(f)
  <2>1. pushed' = pushed /\ Transmitted(f)' = Transmitted(f)
    BY <1>1, WriteFrameNumbered
  <2> QED
    BY <1>0, <2>1
<1>2. CASE PushMessage(f) \/ PushClose(f) \/ Acknowledge(f)
  <2>1. pushed'[f] = pushed[f] + 1 /\ Taken(f)' = Taken(f) /\ write' = write /\ current' = current
    BY <1>2, PushesNumbered
  <2>2. Transmitted(f)' = Transmitted(f)
    BY <2>1, Zenon DEF Transmitted
  <2> QED
    BY <1>0, <2>1, <2>2
<1>3. CASE ~(WriteFrame(f) \/ PushMessage(f) \/ PushClose(f) \/ Acknowledge(f))
  <2>1. /\ queue'[f] = queue[f] /\ pushed'[f] = pushed[f]
        /\ \/ current'[f] = current[f] /\ (write'[f] = write[f] \/ Transmit(f))
           \/ write'[f] # "started" /\ (write[f] = "sent" \/ shut'[f])
    BY <1>3, Others
  <2>2. Taken(f)' = Taken(f)
    BY <2>1, Zenon DEF Taken
  <2>3. ASSUME current'[f] = current[f] /\ write'[f] = write[f]
        PROVE  Transmitted(f)' = Transmitted(f)
    BY <2>2, <2>3, Zenon DEF Transmitted
  <2>4. ASSUME write'[f] # "started" /\ write[f] # "started"
        PROVE  Transmitted(f)' = Transmitted(f)
    <3>1. Transmitted(f)' = Taken(f)' - 0 /\ Transmitted(f) = Taken(f) - 0
      BY <2>4, Zenon DEF Transmitted
    <3> QED
      BY <2>2, <3>1, Zenon
  <2>5. write[f] = "sent" => write[f] # "started"
    OBVIOUS
  <2>6. pushed'[f] >= pushed[f]
    BY <1>0, <2>1
  <2> QED
    BY <2>1, <2>3, <2>4, <2>5, <2>6
<1> QED
  BY <1>1, <1>2, <1>3
-----------------------------------------------------------------------------
(* What an end has read, and what is on its way to it.                     *)
LEMMA StreamedInit == Init => Streamed
<1> SUFFICES ASSUME Init, NEW e \in Ends
             PROVE  /\ Len(received[e]) <= pushed[Other(e)]
                    /\ \A k \in 1 .. Len(received[e]) : received[e][k] = k
                    /\ UpTo(net[e], Arriving(e)) /\ Arriving(e) <= pushed[Other(e)]
                    /\ Arriving(e) = Transmitted(Other(e))
  BY DEF Streamed
<1>1. Len(<<>>) = 0 /\ Other(e) \in Ends
  BY EndsKnown
<1>2. /\ received[e] = <<>> /\ net[e] = <<>> /\ pushed[Other(e)] = 0
      /\ queue[Other(e)] = <<>> /\ write[Other(e)] = "idle"
  BY <1>1 DEF Init
<1>3. Arriving(e) = 0
  <2>1. Arriving(e) = 0 + 0
    BY <1>1, <1>2, Zenon DEF Arriving
  <2> QED
    BY <2>1
<1>4. Transmitted(Other(e)) = 0
  <2>1. Transmitted(Other(e)) = 0 - 0 - 0
    BY <1>1, <1>2, Zenon DEF Transmitted, Taken
  <2> QED
    BY <2>1
<1>5. UpTo(<<>>, 0)
  BY DEF UpTo
<1> QED
  BY <1>1, <1>2, <1>3, <1>4, <1>5

(* The steps that neither bring an end a frame nor give it a message.      *)
LEMMA Quiet ==
  ASSUME TypeOK, [Next]_vars, NEW f \in Ends,
         ~Transmit(Other(f)), ~ReadMessage(f), ~Break
  PROVE  /\ received'[f] = received[f]
         /\ net'[f] = net[f] \/ (net[f] # <<>> /\ net'[f] = Tail(net[f]) /\ state'[f] # "open")
         /\ state'[f] = "open" => state[f] = "open"
         /\ broken' = broken /\ \A e \in Ends : shut[e] => shut'[e]
<1> DEFINE Done == /\ received'[f] = received[f]
                   /\ \/ net'[f] = net[f]
                      \/ net[f] # <<>> /\ net'[f] = Tail(net[f]) /\ state'[f] # "open"
                   /\ state'[f] = "open" => state[f] = "open"
                   /\ broken' = broken /\ \A e \in Ends : shut[e] => shut'[e]
<1>0. Other(f) \in Ends /\ Other(Other(f)) = f /\ \A e \in Ends : e = f \/ e = Other(f)
  BY EndsKnown
<1>1. ASSUME NEW e \in Ends, Send(e) \/ Close(e) \/ InCall(e) PROVE Done
  BY <1>1 DEF Send, Close, BeginClose, InCall, PushMessage, Post, SetClosing, SetTimer, PushClose,
              endVars, readVars, netVars, TypeOK
<1>2. ASSUME NEW e \in Ends, WriteFrame(e) \/ NothingToWrite(e) \/ Written(e) PROVE Done
  BY <1>2 DEF WriteFrame, NothingToWrite, Written, endVars, readVars, netVars
<1>3. ASSUME NEW e \in Ends, Terminate(e)
      PROVE  /\ state'[f] = "open" => state[f] = "open"
             /\ \A g \in Ends : shut[g] => shut'[g]
             /\ state'[e] # "open"
  BY <1>3 DEF Terminate, TypeOK
<1>4. ASSUME NEW e \in Ends, WrittenLast(e) \/ WriteFails(e) \/ TimerExpires(e) \/ StaleTimerExpires(e)
      PROVE  Done
  BY <1>3, <1>4 DEF WrittenLast, WriteFails, TimerExpires, StaleTimerExpires, readVars, netVars
<1>5. ASSUME NEW e \in Ends, Transmit(e) PROVE Done
  <2>1. e = f /\ Other(e) # f
    BY <1>0, <1>5, EndsKnown
  <2> QED
    BY <1>5, <2>1 DEF Transmit, endVars, readVars, TypeOK
<1>6. ASSUME NEW e \in Ends, ReadMessage(e) PROVE Done
  <2>1. e # f
    BY <1>6
  <2> QED
    BY <1>6, <2>1 DEF ReadMessage, Reads, endVars, TypeOK
<1>7. ASSUME NEW e \in Ends, Acknowledge(e) \/ Acknowledged(e) \/ IgnoreClose(e) PROVE Done
  <2>1. /\ received' = received /\ broken' = broken
        /\ net[e] # <<>> /\ net' = [net EXCEPT ![e] = Tail(@)]
    BY <1>7 DEF Acknowledge, Acknowledged, IgnoreClose, Reads, readVars
  <2>2. /\ state'[e] # "open"
        /\ state'[f] = "open" => state[f] = "open"
        /\ \A g \in Ends : shut[g] => shut'[g]
    <3>1. CASE Acknowledge(e)
      BY <3>1 DEF Acknowledge, TypeOK
    <3>2. CASE Acknowledged(e)
      BY <1>3, <3>2 DEF Acknowledged, endVars
    <3>3. CASE IgnoreClose(e)
      BY <3>3 DEF IgnoreClose, endVars
    <3> QED
      BY <1>7, <3>1, <3>2, <3>3
  <2>3. net'[f] = net[f] \/ (net[f] # <<>> /\ net'[f] = Tail(net[f]) /\ f = e)
    BY <2>1 DEF TypeOK
  <2> QED
    BY <2>1, <2>2, <2>3
<1>8. ASSUME NEW e \in Ends, ReadFails(e) PROVE Done
  <2>1. Terminate(e) \/ UNCHANGED endVars
    BY <1>8 DEF ReadFails
  <2>2. received' = received /\ UNCHANGED netVars
    BY <1>8 DEF ReadFails
  <2> QED
    BY <1>3, <2>1, <2>2 DEF endVars, netVars
<1>9. ASSUME UNCHANGED vars PROVE Done
  BY <1>9 DEF vars, endVars, readVars, netVars
<1> HIDE DEF Done
<1>10. Done
  <2>1. ASSUME NEW e \in Ends, Writes(e) PROVE Done
    BY <1>2, <1>4, <1>5, <2>1 DEF Writes
  <2>2. ASSUME NEW e \in Ends, ReadsOrTimes(e) PROVE Done
    BY <1>4, <1>6, <1>7, <1>8, <2>2 DEF ReadsOrTimes
  <2> QED
    BY <1>1, <1>9, <2>1, <2>2, StepsOfEnds
<1> QED
  BY <1>10 DEF Done

LEMMA Sums == /\ \A r, n \in Nat : r + n \in Nat
              /\ \A r, n, c \in Nat : r + (n + c) = r + n + c
OBVIOUS

LEMMA ArrivingNat == ASSUME TypeOK, NEW f \in Ends PROVE Arriving(f) \in Nat
<1>1. Len(received[f]) \in Nat /\ Len(net[f]) \in Nat
  BY LenProperties DEF TypeOK
<1> QED
  BY <1>1, Sums, Zenon DEF Arriving

(* Streamed, of one end.                                                   *)
Stream(f) ==
  /\ Len(received[f]) <= pushed[Other(f)]
  /\ \A k \in 1 .. Len(received[f]) : received[f][k] = k
  /\ state[f] = "open" =>
       /\ UpTo(net[f], Arriving(f)) /\ Arriving(f) <= pushed[Other(f)]
       /\ broken \/ shut[Other(f)] \/ Arriving(f) = Transmitted(Other(f))

LEMMA StreamQuiet ==
  ASSUME TypeOK, Numbered, Streamed, [Next]_vars, NEW f \in Ends,
         ~Transmit(Other(f)), ~ReadMessage(f), ~Break
  PROVE  Stream(f)'
<1>1. Stream(f) /\ Other(f) \in Ends
  BY EndsKnown DEF Stream, Streamed
<1>2. /\ received'[f] = received[f]
      /\ state'[f] = "open" => state[f] = "open" /\ net'[f] = net[f]
      /\ broken' = broken /\ (shut[Other(f)] => shut'[Other(f)])
  BY <1>1, Quiet
<1>3. /\ pushed'[Other(f)] >= pushed[Other(f)]
      /\ shut'[Other(f)] \/ Transmitted(Other(f))' = Transmitted(Other(f))
  BY <1>1, SendingStep
<1>4. /\ pushed[Other(f)] \in Nat /\ pushed'[Other(f)] \in Nat
      /\ Len(received[f]) \in Nat /\ Len(net[f]) \in Nat
  BY <1>1, TypeStep, LenProperties DEF TypeOK
<1>5. Arriving(f) \in Nat
  BY ArrivingNat
<1>6. Len(received[f]) <= pushed'[Other(f)]
  BY <1>1, <1>3, <1>4 DEF Stream
<1>7. ASSUME state'[f] = "open"
      PROVE  /\ UpTo(net[f], Arriving(f)) /\ Arriving(f) <= pushed'[Other(f)]
             /\ broken' \/ shut'[Other(f)] \/ Arriving(f) = Transmitted(Other(f))'
             /\ net'[f] = net[f] /\ Arriving(f)' = Arriving(f)
  <2>1. Arriving(f)' = Arriving(f) /\ net'[f] = net[f]
    BY <1>2, <1>7, Zenon DEF Arriving
  <2>2. Arriving(f) <= pushed'[Other(f)]
    BY <1>1, <1>2, <1>3, <1>4, <1>5, <1>7 DEF Stream
  <2>3. UpTo(net[f], Arriving(f))
    BY <1>1, <1>2, <1>7 DEF Stream
  <2>4. broken' \/ shut'[Other(f)] \/ Arriving(f) = Transmitted(Other(f))'
    BY <1>1, <1>2, <1>3, <1>7 DEF Stream
  <2> QED
    BY <2>1, <2>2, <2>3, <2>4
<1>8. \A k \in 1 .. Len(received[f]) : received[f][k] = k
  BY <1>1 DEF Stream
<1>9. /\ Len(received'[f]) <= pushed'[Other(f)]
      /\ \A k \in 1 .. Len(received'[f]) : received'[f][k] = k
  BY <1>2, <1>6, <1>8
<1>10. state'[f] = "open" =>
         /\ UpTo(net'[f], Arriving(f)') /\ Arriving(f)' <= pushed'[Other(f)]
         /\ broken' \/ shut'[Other(f)] \/ Arriving(f)' = Transmitted(Other(f))'
  BY <1>7
<1> QED
  BY <1>9, <1>10, Zenon DEF Stream

LEMMA StreamTransmit ==
  ASSUME TypeOK, Numbered, Streamed, NEW f \in Ends, Transmit(Other(f))
  PROVE  Stream(f)'
<1> DEFINE e == Other(f)
<1>1. Stream(f) /\ e \in Ends /\ Other(e) = f
  BY EndsKnown DEF Stream, Streamed
<1> HIDE DEF e
<1>2. /\ net'[f] = net[f] \o current[e] /\ write[e] = "started" /\ write'[e] = "sent"
      /\ ~shut[e] /\ ~broken /\ state' = state /\ received' = received /\ pushed' = pushed
      /\ queue' = queue
  BY <1>1 DEF Transmit, endVars, readVars, callVars, TypeOK, e
<1>3. /\ net[f] \in Seq(Frame) /\ current[e] \in Seq(Frame) /\ pushed[e] \in Nat
      /\ Len(received[f]) \in Nat /\ Len(net[f]) \in Nat /\ Len(current[e]) \in Nat
      /\ Len(queue[e]) \in Nat
  BY <1>1, LenProperties DEF TypeOK
<1>4. Stream(f)' <=>
        /\ Len(received[f]) <= pushed[e]
        /\ \A k \in 1 .. Len(received[f]) : received[f][k] = k
        /\ state[f] = "open" =>
             /\ UpTo(net'[f], Arriving(f)') /\ Arriving(f)' <= pushed[e]
             /\ broken' \/ shut'[e] \/ Arriving(f)' = Transmitted(e)'
  BY <1>2, Zenon DEF Stream, e
<1>5. Len(received[f]) <= pushed[e] /\ \A k \in 1 .. Len(received[f]) : received[f][k] = k
  BY <1>1 DEF Stream, e
<1>6. ASSUME state[f] = "open"
      PROVE  /\ UpTo(net'[f], Arriving(f)') /\ Arriving(f)' <= pushed[e]
             /\ Arriving(f)' = Transmitted(e)'
  <2>1. UpTo(net[f], Arriving(f)) /\ Arriving(f) = Transmitted(e)
    BY <1>1, <1>2, <1>6 DEF Stream, e
  <2>2. UpTo(queue[e], pushed[e]) /\ UpTo(current[e], Taken(e))
    BY <1>1, <1>2 DEF Numbered
  <2>3. Transmitted(e) = Taken(e) - Len(current[e])
    BY <1>2, Zenon DEF Transmitted
  <2>4. Transmitted(e)' = Taken(e)
    <3>1. Taken(e)' = Taken(e)
      BY <1>2, Zenon DEF Taken
    <3>2. Transmitted(e)' = Taken(e)' - 0
      BY <1>2, Zenon DEF Transmitted
    <3>3. Taken(e) \in Int
      BY <1>3 DEF Taken
    <3>4. Taken(e) - 0 = Taken(e)
      BY <3>3
    <3> QED
      BY <3>1, <3>2, <3>4, Zenon
  <2>5. Taken(e) <= pushed[e] /\ Taken(e) \in Nat
    <3>1. Len(queue[e]) <= pushed[e]
      BY <2>2 DEF UpTo
    <3> QED
      BY <1>3, <3>1 DEF Taken
  <2>6. Arriving(f) \in Nat
    BY ArrivingNat
  <2>7. Taken(e) = Arriving(f) + Len(current[e])
    BY <1>3, <2>1, <2>3, <2>5, <2>6
  <2>8. UpTo(net'[f], Taken(e)) /\ Len(net'[f]) = Len(net[f]) + Len(current[e])
    BY <1>2, <1>3, <2>1, <2>2, <2>5, <2>6, <2>7, UpToConcat
  <2>9. Arriving(f)' = Taken(e)
    <3>1. Arriving(f)' = Len(received[f]) + (Len(net[f]) + Len(current[e]))
      BY <1>2, <2>8, Zenon DEF Arriving
    <3> QED
      BY <1>3, <2>7, <3>1, Sums, Zenon DEF Arriving
  <2> QED
    BY <2>4, <2>5, <2>8, <2>9
<1> QED
  BY <1>4, <1>5, <1>6

LEMMA StreamRead ==
  ASSUME TypeOK, Numbered, Streamed, NEW f \in Ends, ReadMessage(f)
  PROVE  Stream(f)'
<1>1. Stream(f) /\ Other(f) \in Ends
  BY EndsKnown DEF Stream, Streamed
<1>2. /\ net[f] # <<>> /\ net'[f] = Tail(net[f])
      /\ received'[f] = IF state[f] = "open" THEN Append(received[f], Head(net[f]).n) ELSE received[f]
      /\ UNCHANGED <<state, broken, shut, pushed, queue, current, write>>
  BY DEF ReadMessage, Reads, callVars, endVars, writeVars, TypeOK
<1>3. /\ net[f] \in Seq(Frame) /\ received[f] \in Seq(Nat)
      /\ Len(received[f]) \in Nat /\ Len(net[f]) \in Nat /\ pushed[Other(f)] \in Nat
  BY <1>1, LenProperties DEF TypeOK
<1>4. /\ Len(received[f]) <= pushed[Other(f)]
      /\ \A k \in 1 .. Len(received[f]) : received[f][k] = k
  BY <1>1 DEF Stream
<1>5. CASE state[f] # "open"
  <2>1. received'[f] = received[f] /\ state'[f] # "open" /\ pushed' = pushed
    BY <1>2, <1>5
  <2> QED
    BY <1>4, <2>1, Zenon DEF Stream
<1>6. CASE state[f] = "open"
  <2>1. /\ UpTo(net[f], Arriving(f)) /\ Arriving(f) <= pushed[Other(f)]
        /\ broken \/ shut[Other(f)] \/ Arriving(f) = Transmitted(Other(f))
    BY <1>1, <1>6 DEF Stream
  <2>2. Arriving(f) \in Nat
    BY ArrivingNat
  <2>3. /\ Len(Tail(net[f])) = Len(net[f]) - 1 /\ UpTo(Tail(net[f]), Arriving(f))
        /\ Head(net[f]).n = Arriving(f) - Len(net[f]) + 1
    BY <1>2, <1>3, <2>1, <2>2, UpToTail
  <2>4. Head(net[f]).n = Len(received[f]) + 1
    <3>1. \A r, n \in Nat : ((r + n) - n) + 1 = r + 1
      OBVIOUS
    <3> QED
      BY <1>3, <2>3, <3>1, Zenon DEF Arriving
  <2>5. Len(net[f]) # 0 /\ Len(received[f]) + 1 \in Nat
    BY <1>2, <1>3, EmptySeq
  <2>6. received'[f] = Append(received[f], Len(received[f]) + 1)
    BY <1>2, <1>6, <2>4
  <2>7. /\ Len(received'[f]) = Len(received[f]) + 1
        /\ received'[f][Len(received[f]) + 1] = Len(received[f]) + 1
        /\ \A k \in 1 .. Len(received[f]) : received'[f][k] = received[f][k]
    BY <1>3, <2>5, <2>6, AppendProperties
  <2>8. \A k \in 1 .. Len(received'[f]) : received'[f][k] = k
    <3> SUFFICES ASSUME NEW k \in 1 .. Len(received[f]) + 1 PROVE received'[f][k] = k
      BY <2>7
    <3>1. CASE k = Len(received[f]) + 1
      BY <2>7, <3>1
    <3>2. CASE k \in 1 .. Len(received[f])
      BY <1>4, <2>7, <3>2
    <3> QED
      BY <1>3, <3>1, <3>2
  <2>9. Arriving(f)' = Arriving(f)
    <3>1. \A r, n \in Nat : n # 0 => r + 1 + (n - 1) = r + n
      OBVIOUS
    <3>2. Arriving(f)' = Len(received[f]) + 1 + (Len(net[f]) - 1)
      BY <1>2, <2>3, <2>7, Zenon DEF Arriving
    <3> QED
      BY <1>3, <2>5, <3>1, <3>2, Zenon DEF Arriving
  <2>10. Len(received'[f]) <= pushed[Other(f)]
    <3>1. \A r, n, p \in Nat : n # 0 /\ r + n <= p => r + 1 <= p
      OBVIOUS
    <3>2. Len(received[f]) + Len(net[f]) <= pushed[Other(f)]
      BY <2>1, Zenon DEF Arriving
    <3>3. Len(received[f]) + 1 <= pushed[Other(f)]
      BY <1>3, <2>5, <3>1, <3>2, Zenon
    <3> QED
      BY <2>7, <3>3, Zenon
  <2>11. Transmitted(Other(f))' = Transmitted(Other(f))
    BY <1>2, Zenon DEF Transmitted, Taken
  <2>12. /\ UpTo(net'[f], Arriving(f)') /\ Arriving(f)' <= pushed'[Other(f)]
         /\ broken' \/ shut'[Other(f)] \/ Arriving(f)' = Transmitted(Other(f))'
    BY <1>2, <2>1, <2>3, <2>9, <2>11
  <2>13. pushed' = pushed
    BY <1>2
  <2> QED
    BY <2>8, <2>10, <2>12, <2>13, Zenon DEF Stream
<1> QED
  BY <1>5, <1>6

LEMMA StreamBreak ==
  ASSUME TypeOK, Streamed, NEW f \in Ends, Break
  PROVE  Stream(f)'
<1>1. Stream(f) /\ Other(f) \in Ends
  BY EndsKnown DEF Stream, Streamed
<1>2. broken' /\ received' = received /\ pushed' = pushed /\ state' = state
  BY DEF Break, readVars, callVars, endVars
<1>3. /\ net[f] \in Seq(Frame) /\ net'[f] \in Seq(Frame) /\ Len(net'[f]) <= Len(net[f])
      /\ \A i \in 1 .. Len(net'[f]) : net'[f][i] = net[f][i]
  BY BreakCuts DEF TypeOK
<1>4. /\ Len(received[f]) \in Nat /\ Len(net[f]) \in Nat /\ Len(net'[f]) \in Nat
      /\ pushed[Other(f)] \in Nat
  BY <1>1, <1>3, LenProperties DEF TypeOK
<1>5. ASSUME NEW r \in Nat, NEW m \in Nat, NEW n \in Nat, NEW p \in Nat, NEW q, NEW old,
             m <= n, r + n <= p, UpTo(old, r + n), Len(old) = n, Len(q) = m,
             \A i \in 1 .. m : q[i] = old[i]
      PROVE  UpTo(q, r + m) /\ r + m <= p
  <2>1. ASSUME NEW i \in 1 .. m PROVE q[i].n = r + m - m + i
    <3>1. i \in 1 .. n
      BY <1>5
    <3>2. old[i].n = r + n - n + i
      BY <1>5, <3>1 DEF UpTo
    <3> QED
      BY <1>5, <3>2
  <2> QED
    BY <1>5, <2>1 DEF UpTo
<1>6. ASSUME state[f] = "open" PROVE UpTo(net'[f], Arriving(f)') /\ Arriving(f)' <= pushed[Other(f)]
  <2>1. UpTo(net[f], Len(received[f]) + Len(net[f])) /\ Len(received[f]) + Len(net[f]) <= pushed[Other(f)]
    BY <1>1, <1>6, Zenon DEF Stream, Arriving
  <2>2. /\ UpTo(net'[f], Len(received[f]) + Len(net'[f]))
        /\ Len(received[f]) + Len(net'[f]) <= pushed[Other(f)]
    BY <1>3, <1>4, <1>5, <2>1, Zenon
  <2> QED
    BY <1>2, <2>2, Zenon DEF Arriving
<1>7. /\ Len(received'[f]) <= pushed'[Other(f)]
      /\ \A k \in 1 .. Len(received'[f]) : received'[f][k] = k
  BY <1>1, <1>2 DEF Stream
<1>8. state'[f] = "open" => UpTo(net'[f], Arriving(f)') /\ Arriving(f)' <= pushed'[Other(f)]
  BY <1>2, <1>6
<1> QED
  BY <1>2, <1>7, <1>8, Zenon DEF Stream

LEMMA StreamedStep == TypeOK /\ Numbered /\ Streamed /\ [Next]_vars => Streamed'
<1> SUFFICES ASSUME TypeOK, Numbered, Streamed, [Next]_vars, NEW f \in Ends PROVE Stream(f)'
  BY DEF Streamed, Stream
<1> QED
  BY StreamQuiet, StreamTransmit, StreamRead, StreamBreak

(* The k-th message an end is given is the k-th one the other end has sent: *)
(* the hand-over of the write between threads, the batches of write_frame,   *)
(* closes and failures lose, repeat and swap none before it.                *)
THEOREM MessagesInOrder == Spec => []InOrder
<1>1. TypeOK /\ Streamed => InOrder
  <2> SUFFICES ASSUME TypeOK, Streamed, NEW e \in Ends
               PROVE  /\ Len(received[e]) <= pushed[Other(e)]
                      /\ \A k \in DOMAIN received[e] : received[e][k] = k
    BY DEF InOrder
  <2>1. DOMAIN received[e] = 1 .. Len(received[e])
    BY LenProperties DEF TypeOK
  <2> QED
    BY <2>1 DEF Streamed
<1> QED
  BY <1>1, TypeInit, TypeStep, NumberedInit, NumberedStep, StreamedInit, StreamedStep, PTL DEF Spec
-----------------------------------------------------------------------------
(* The closes.                                                             *)
LEMMA MarkedInit == Init => Marked
<1>1. \A e \in Ends : Other(e) \in Ends
  BY EndsKnown
<1> QED
  BY <1>1 DEF Init, Marked, Marks

(* A frame that is marked stays so, and the next one is marked.            *)
LEMMA PushMarks ==
  ASSUME NEW p \in Nat, NEW c \in Nat, c <= p, NEW kind \in {"data", "close", "last"}, NEW d,
         d = IF c = 0 /\ kind # "data" THEN p + 1 ELSE c
  PROVE  /\ d \in Nat /\ d <= p + 1 /\ (c # 0 => d = c) /\ d \in {c, p + 1}
         /\ \A f \in Frame : Mark(f, p, c) => Mark(f, p + 1, d)
         /\ Mark([n |-> p + 1, kind |-> kind], p + 1, d)
<1>1. ASSUME NEW f \in Frame, Mark(f, p, c) PROVE Mark(f, p + 1, d)
  BY <1>1 DEF Mark, Frame
<1>2. Mark([n |-> p + 1, kind |-> kind], p + 1, d)
  BY DEF Mark
<1> QED
  BY <1>1, <1>2

(* The frames of what goes from one sequence to another.                   *)
LEMMA MarksCut ==
  ASSUME NEW p, NEW c, NEW q \in Seq(Frame), Marks(q, p, c), NEW k \in 0 .. Len(q)
  PROVE  Marks(SubSeq(q, 1, k), p, c) /\ Marks(SubSeq(q, k + 1, Len(q)), p, c)
<1> DEFINE r == SubSeq(q, 1, k)
           s == SubSeq(q, k + 1, Len(q))
<1>1. /\ Len(q) \in Nat /\ Len(r) = k /\ Len(s) = Len(q) - k
      /\ \A i \in 1 .. k : r[i] = q[i]
      /\ \A i \in 1 .. Len(q) - k : s[i] = q[k + i]
  BY Split
<1>2. \A i \in 1 .. Len(q) : Mark(q[i], p, c)
  BY DEF Marks
<1> HIDE DEF r, s
<1>3. \A i \in 1 .. Len(r) : Mark(r[i], p, c)
  BY <1>1, <1>2
<1>4. ASSUME NEW i \in 1 .. Len(s) PROVE Mark(s[i], p, c)
  <2>1. k + i \in 1 .. Len(q) /\ s[i] = q[k + i]
    BY <1>1
  <2> QED
    BY <1>2, <2>1
<1>5. Marks(r, p, c) /\ Marks(s, p, c)
  BY <1>3, <1>4 DEF Marks
<1> QED
  BY <1>5 DEF r, s

LEMMA MarksConcat ==
  ASSUME NEW p, NEW c, NEW q \in Seq(Frame), NEW r \in Seq(Frame),
         Marks(q, p, c), Marks(r, p, c)
  PROVE  Marks(q \o r, p, c)
<1> DEFINE s == q \o r
<1>1. /\ Len(q) \in Nat /\ Len(r) \in Nat /\ Len(s) = Len(q) + Len(r)
      /\ \A i \in 1 .. Len(q) + Len(r) : s[i] = IF i <= Len(q) THEN q[i] ELSE r[i - Len(q)]
  BY ConcatProperties, LenProperties
<1>2. (\A i \in 1 .. Len(q) : Mark(q[i], p, c)) /\ (\A i \in 1 .. Len(r) : Mark(r[i], p, c))
  BY DEF Marks
<1> HIDE DEF s
<1>3. ASSUME NEW i \in 1 .. Len(s) PROVE Mark(s[i], p, c)
  <2>1. CASE i <= Len(q)
    BY <1>1, <1>2, <2>1
  <2>2. CASE ~(i <= Len(q))
    <3>1. i - Len(q) \in 1 .. Len(r) /\ s[i] = r[i - Len(q)]
      BY <1>1, <2>2
    <3> QED
      BY <1>2, <3>1
  <2> QED
    BY <2>1, <2>2
<1>4. Marks(s, p, c)
  BY <1>3 DEF Marks
<1> QED
  BY <1>4 DEF s

LEMMA MarksTail ==
  ASSUME NEW p, NEW c, NEW q \in Seq(Frame), Marks(q, p, c), q # <<>>
  PROVE  Marks(Tail(q), p, c) /\ Mark(Head(q), p, c) /\ Head(q) \in Frame
<1> DEFINE t == Tail(q)
<1>1. /\ Len(q) \in Nat \ {0} /\ Len(t) = Len(q) - 1 /\ Head(q) = q[1] /\ Head(q) \in Frame
      /\ \A i \in 1 .. Len(t) : t[i] = q[i + 1]
  BY HeadTailProperties, LenProperties, EmptySeq
<1>2. \A i \in 1 .. Len(q) : Mark(q[i], p, c)
  BY DEF Marks
<1> HIDE DEF t
<1>3. ASSUME NEW i \in 1 .. Len(t) PROVE Mark(t[i], p, c)
  <2>1. i + 1 \in 1 .. Len(q) /\ t[i] = q[i + 1]
    BY <1>1
  <2> QED
    BY <1>2, <2>1
<1>4. Marks(t, p, c)
  BY <1>3 DEF Marks
<1>5. Mark(Head(q), p, c)
  BY <1>1, <1>2
<1> QED
  BY <1>1, <1>4, <1>5 DEF t

LEMMA MarksAppend ==
  ASSUME NEW p \in Nat, NEW c \in Nat, c <= p, NEW kind \in {"data", "close", "last"}, NEW d,
         d = IF c = 0 /\ kind # "data" THEN p + 1 ELSE c, NEW q \in Seq(Frame), Marks(q, p, c)
  PROVE  Marks(q, p + 1, d) /\ Marks(Append(q, [n |-> p + 1, kind |-> kind]), p + 1, d)
<1> DEFINE f == [n |-> p + 1, kind |-> kind]
<1>1. Len(q) \in Nat /\ \A i \in 1 .. Len(q) : q[i] \in Frame
  BY LenProperties, ElementOfSeq
<1>2. ASSUME NEW i \in 1 .. Len(q) PROVE Mark(q[i], p + 1, d)
  <2>1. q[i] \in Frame /\ Mark(q[i], p, c)
    BY <1>1 DEF Marks
  <2> QED
    BY <2>1, PushMarks
<1>3. Mark(f, p + 1, d)
  BY PushMarks
<1>4. f \in Frame
  BY DEF Frame
<1> HIDE DEF f
<1>5. /\ Len(Append(q, f)) = Len(q) + 1 /\ Append(q, f)[Len(q) + 1] = f
      /\ \A i \in 1 .. Len(q) : Append(q, f)[i] = q[i]
  BY <1>4, AppendProperties
<1>6. ASSUME NEW i \in 1 .. Len(Append(q, f)) PROVE Mark(Append(q, f)[i], p + 1, d)
  <2>1. CASE i = Len(q) + 1
    BY <1>3, <1>5, <2>1
  <2>2. CASE i \in 1 .. Len(q)
    BY <1>2, <1>5, <2>2
  <2> QED
    BY <1>1, <1>5, <1>6, <2>1, <2>2
<1>7. Marks(q, p + 1, d) /\ Marks(Append(q, f), p + 1, d)
  BY <1>2, <1>6 DEF Marks
<1> QED
  BY <1>7 DEF f

LEMMA NetMarks ==
  ASSUME TypeOK, [Next]_vars, NEW f \in Ends, NEW p, NEW c,
         Marks(net[Other(f)], p, c), Marks(current[f], p, c)
  PROVE  Marks(net'[Other(f)], p, c)
<1> DEFINE g == Other(f)
<1>1. g \in Ends /\ Other(g) = f /\ net[g] \in Seq(Frame) /\ current[f] \in Seq(Frame)
  BY EndsKnown DEF TypeOK
<1>2. Marks(net[g], p, c)
  OBVIOUS
<1> HIDE DEF g
<1>3. CASE Transmit(f)
  <2>1. net'[g] = net[g] \o current[f]
    BY <1>1, <1>3 DEF Transmit, TypeOK, g
  <2>2. Marks(net[g] \o current[f], p, c)
    BY <1>1, <1>2, MarksConcat
  <2> QED
    BY <2>1, <2>2 DEF g
<1>4. CASE Break
  <2>1. Len(net'[g]) <= Len(net[g]) /\ \A i \in 1 .. Len(net'[g]) : net'[g][i] = net[g][i]
    BY <1>1, <1>4, BreakCuts
  <2>2. Len(net[g]) \in Nat /\ Len(net'[g]) \in Nat
    BY <1>1, <1>4, BreakCuts, LenProperties
  <2>3. \A i \in 1 .. Len(net'[g]) : i \in 1 .. Len(net[g])
    BY <2>1, <2>2
  <2>4. Marks(net'[g], p, c)
    BY <1>2, <2>1, <2>3, Zenon DEF Marks
  <2> QED
    BY <2>4 DEF g
<1>5. CASE ~Transmit(f) /\ ~Break
  <2>1. net'[g] = net[g] \/ (net[g] # <<>> /\ net'[g] = Tail(net[g]))
    <3>1. CASE ReadMessage(g)
      BY <1>1, <3>1 DEF ReadMessage, Reads, TypeOK
    <3>2. CASE ~ReadMessage(g)
      BY <1>1, <1>5, <3>2, Quiet
    <3> QED
      BY <3>1, <3>2
  <2>2. Marks(net'[g], p, c)
    BY <1>1, <1>2, <2>1, MarksTail
  <2> QED
    BY <2>2 DEF g
<1> QED
  BY <1>3, <1>4, <1>5

LEMMA MarkedStep == TypeOK /\ Numbered /\ Marked /\ [Next]_vars => Marked'
<1> SUFFICES ASSUME TypeOK, Numbered, Marked, [Next]_vars, NEW f \in Ends
             PROVE  /\ firstClose'[f] <= pushed'[f]
                    /\ Marks(queue'[f], pushed'[f], firstClose'[f])
                    /\ Marks(current'[f], pushed'[f], firstClose'[f])
                    /\ Marks(net'[Other(f)], pushed'[f], firstClose'[f])
  BY DEF Marked
<1>1. /\ firstClose[f] <= pushed[f]
      /\ Marks(queue[f], pushed[f], firstClose[f]) /\ Marks(current[f], pushed[f], firstClose[f])
      /\ Marks(net[Other(f)], pushed[f], firstClose[f])
  BY DEF Marked
<1>2. /\ pushed[f] \in Nat /\ firstClose[f] \in Nat /\ Other(f) \in Ends
      /\ queue[f] \in Seq(Frame) /\ current[f] \in Seq(Frame)
      /\ net[Other(f)] \in Seq(Frame) /\ net'[Other(f)] \in Seq(Frame)
  BY EndsKnown, TypeStep DEF TypeOK
<1>3. Marks(net'[Other(f)], pushed[f], firstClose[f])
  BY <1>1, NetMarks
<1>4. CASE PushMessage(f) \/ PushClose(f) \/ Acknowledge(f)
  <2>1. PICK kind \in {"data", "close", "last"} : Push(f, kind)
    BY <1>4, PushesNumbered
  <2>2. current' = current
    BY <1>4, PushesNumbered
  <2>3. /\ pushed'[f] = pushed[f] + 1
        /\ queue'[f] = Append(queue[f], [n |-> pushed[f] + 1, kind |-> kind])
        /\ firstClose'[f] = IF firstClose[f] = 0 /\ kind # "data" THEN pushed[f] + 1 ELSE firstClose[f]
    BY <2>1 DEF Push, TypeOK
  <2>4. firstClose'[f] <= pushed[f] + 1
    BY <1>1, <1>2, <2>3, PushMarks
  <2>5. /\ Marks(Append(queue[f], [n |-> pushed[f] + 1, kind |-> kind]), pushed[f] + 1, firstClose'[f])
        /\ Marks(current[f], pushed[f] + 1, firstClose'[f])
        /\ Marks(net'[Other(f)], pushed[f] + 1, firstClose'[f])
    BY <1>1, <1>2, <1>3, <2>3, MarksAppend
  <2> QED
    BY <2>2, <2>3, <2>4, <2>5
<1>5. CASE WriteFrame(f)
  <2>1. PICK k \in 1 .. Len(queue[f]) :
          /\ current' = [current EXCEPT ![f] = SubSeq(queue[f], 1, k)]
          /\ queue' = [queue EXCEPT ![f] = SubSeq(queue[f], k + 1, Len(queue[f]))]
    BY <1>5 DEF WriteFrame
  <2>2. k \in 0 .. Len(queue[f])
    BY <1>2, LenProperties
  <2>3. current'[f] = SubSeq(queue[f], 1, k) /\ queue'[f] = SubSeq(queue[f], k + 1, Len(queue[f]))
    BY <2>1 DEF TypeOK
  <2>4. Marks(current'[f], pushed[f], firstClose[f]) /\ Marks(queue'[f], pushed[f], firstClose[f])
    BY <1>1, <1>2, <2>2, <2>3, MarksCut
  <2>5. pushed' = pushed /\ firstClose' = firstClose
    BY <1>5 DEF WriteFrame, callVars
  <2> QED
    BY <1>1, <1>3, <2>4, <2>5
<1>6. CASE ~(WriteFrame(f) \/ PushMessage(f) \/ PushClose(f) \/ Acknowledge(f))
  <2>1. /\ queue'[f] = queue[f] /\ pushed'[f] = pushed[f] /\ firstClose'[f] = firstClose[f]
        /\ current'[f] = current[f] \/ current'[f] = <<>>
    BY <1>6, Others
  <2>2. Marks(<<>>, pushed[f], firstClose[f])
    BY DEF Marks
  <2> QED
    BY <1>1, <1>3, <2>1, <2>2
<1> QED
  BY <1>4, <1>5, <1>6

LEMMA UnclosedInit == Init => Unclosed
<1>1. \A e \in Ends : Other(e) \in Ends
  BY EndsKnown
<1> QED
  BY <1>1 DEF Init, Unclosed

(* A first close is the frame that is queued with it.                      *)
LEMMA FirstCloseStep ==
  ASSUME TypeOK, Numbered, [Next]_vars, NEW f \in Ends
  PROVE  firstClose'[f] = firstClose[f] \/ (firstClose[f] = 0 /\ firstClose'[f] = pushed[f] + 1)
<1>1. CASE PushMessage(f) \/ PushClose(f) \/ Acknowledge(f)
  <2>1. PICK kind \in {"data", "close", "last"} : Push(f, kind)
    BY <1>1, PushesNumbered
  <2> QED
    BY <2>1 DEF Push, TypeOK
<1>2. CASE WriteFrame(f)
  BY <1>2 DEF WriteFrame, callVars
<1>3. CASE ~(WriteFrame(f) \/ PushMessage(f) \/ PushClose(f) \/ Acknowledge(f))
  BY <1>3, Others
<1> QED
  BY <1>1, <1>2, <1>3

(* What the next frame of an open end says.                                *)
LEMMA NextFrame ==
  ASSUME TypeOK, Streamed, Marked, NEW f \in Ends, state[f] = "open", net[f] # <<>>
  PROVE  /\ Head(net[f]).n = Len(received[f]) + 1
         /\ Mark(Head(net[f]), pushed[Other(f)], firstClose[Other(f)])
<1>1. Other(f) \in Ends /\ Other(Other(f)) = f
  BY EndsKnown
<1>2. /\ net[f] \in Seq(Frame) /\ Len(received[f]) \in Nat /\ Len(net[f]) \in Nat
      /\ Arriving(f) \in Nat
  BY LenProperties, ArrivingNat DEF TypeOK
<1>3. UpTo(net[f], Arriving(f))
  BY DEF Streamed
<1>4. Head(net[f]).n = Arriving(f) - Len(net[f]) + 1
  BY <1>2, <1>3, UpToTail
<1>5. Head(net[f]).n = Len(received[f]) + 1
  <2>1. \A r, n \in Nat : ((r + n) - n) + 1 = r + 1
    OBVIOUS
  <2> QED
    BY <1>2, <1>4, <2>1, Zenon DEF Arriving
<1>6. Marks(net[f], pushed[Other(f)], firstClose[Other(f)])
  <2>1. Marks(net[Other(Other(f))], pushed[Other(f)], firstClose[Other(f)])
    BY <1>1 DEF Marked
  <2> QED
    BY <1>1, <2>1
<1> QED
  BY <1>2, <1>5, <1>6, MarksTail

(* The steps in which an end gets no message and acknowledges no close.    *)
Calm(f) == /\ received'[f] = received[f]
           /\ state'[f] = "open" => state[f] = "open"
           /\ state[f] = "open" => clean'[f] = clean[f]

LEMMA CalmStep ==
  ASSUME TypeOK, [Next]_vars, NEW f \in Ends, ~ReadMessage(f), ~Acknowledge(f)
  PROVE  Calm(f)
<1>1. CASE UNCHANGED <<state[f], clean[f], received[f]>>
  BY <1>1 DEF Calm
<1>2. ASSUME NEW e \in Ends, e # f,
             Send(e) \/ Close(e) \/ InCall(e) \/ Writes(e) \/ ReadsOrTimes(e)
      PROVE  UNCHANGED <<state[f], clean[f], received[f]>>
  <2>1. CASE Send(e) \/ Close(e) \/ InCall(e)
    BY <1>2, <2>1 DEF Send, Close, BeginClose, InCall, PushMessage, Post, SetClosing, SetTimer, PushClose,
                      endVars, readVars, TypeOK
  <2>2. CASE Writes(e)
    BY <1>2, <2>2 DEF Writes, WriteFrame, NothingToWrite, Transmit, Written, WrittenLast, WriteFails,
                      Terminate, endVars, readVars, TypeOK
  <2>3. CASE ReadMessage(e) \/ Acknowledge(e) \/ IgnoreClose(e)
    BY <1>2, <2>3 DEF ReadMessage, Acknowledge, IgnoreClose, endVars, readVars, TypeOK
  <2>4. CASE Acknowledged(e) \/ ReadFails(e) \/ TimerExpires(e) \/ StaleTimerExpires(e)
    <3>1. Terminate(e) \/ UNCHANGED endVars
      BY <2>4 DEF Acknowledged, ReadFails, TimerExpires, StaleTimerExpires
    <3>2. state'[f] = state[f]
      BY <1>2, <3>1 DEF Terminate, endVars, TypeOK
    <3>3. received' = received /\ clean'[f] = clean[f]
      BY <1>2, <2>4 DEF Acknowledged, ReadFails, TimerExpires, StaleTimerExpires, readVars, TypeOK
    <3> QED
      BY <3>2, <3>3
  <2> QED
    BY <1>2, <2>1, <2>2, <2>3, <2>4 DEF ReadsOrTimes
<1>3. CASE Break \/ UNCHANGED vars
  BY <1>1, <1>3 DEF Break, vars, endVars, readVars
<1>4. ASSUME Send(f) \/ Close(f) \/ InCall(f) PROVE Calm(f)
  <2>1. received' = received /\ clean' = clean
    BY <1>4 DEF Send, Close, BeginClose, InCall, PushMessage, Post, SetClosing, SetTimer, PushClose, readVars
  <2>2. state' = state \/ state'[f] = "closing"
    <3>1. CASE SetClosing(f)
      BY <3>1 DEF SetClosing, TypeOK
    <3>2. CASE ~SetClosing(f)
      BY <1>4, <3>2 DEF Send, Close, BeginClose, InCall, PushMessage, Post, SetTimer, PushClose, endVars
    <3> QED
      BY <3>1, <3>2
  <2> QED
    BY <2>1, <2>2 DEF Calm
<1>5. ASSUME Terminate(f) \/ UNCHANGED endVars, received' = received,
             clean'[f] = clean[f] \/ state[f] = "closing"
      PROVE  Calm(f)
  <2>1. state'[f] = "closed" \/ state'[f] = state[f]
    BY <1>5 DEF Terminate, endVars, TypeOK
  <2> QED
    BY <1>5, <2>1 DEF Calm
<1>6. ASSUME Writes(f) PROVE Calm(f)
  <2>1. Terminate(f) \/ UNCHANGED endVars
    BY <1>6 DEF Writes, WriteFrame, NothingToWrite, Transmit, Written, WrittenLast, WriteFails
  <2>2. received' = received /\ clean' = clean
    BY <1>6 DEF Writes, WriteFrame, NothingToWrite, Transmit, Written, WrittenLast, WriteFails, readVars
  <2> QED
    BY <1>5, <2>1, <2>2
<1>7. ASSUME Acknowledged(f) \/ IgnoreClose(f) \/ ReadFails(f) \/ TimerExpires(f) \/ StaleTimerExpires(f)
      PROVE  Calm(f)
  <2>1. Terminate(f) \/ UNCHANGED endVars
    BY <1>7 DEF Acknowledged, IgnoreClose, ReadFails, TimerExpires, StaleTimerExpires
  <2>2. received' = received /\ (clean' = clean \/ state[f] = "closing")
    BY <1>7 DEF Acknowledged, IgnoreClose, ReadFails, TimerExpires, StaleTimerExpires, readVars
  <2> QED
    BY <1>5, <2>1, <2>2
<1>8. ASSUME NEW e \in Ends, Send(e) \/ Close(e) \/ InCall(e) \/ Writes(e) \/ ReadsOrTimes(e)
      PROVE  Calm(f)
  <2>1. CASE e # f
    <3>1. UNCHANGED <<state[f], clean[f], received[f]>>
      BY <1>2, <1>8, <2>1
    <3> QED
      BY <1>1, <3>1
  <2>2. CASE e = f
    BY <1>4, <1>6, <1>7, <1>8, <2>2 DEF ReadsOrTimes
  <2> QED
    BY <2>1, <2>2
<1> QED
  BY <1>3, <1>8, StepsOfEnds

LEMMA UnclosedStep ==
  TypeOK /\ Numbered /\ Streamed /\ Marked /\ Unclosed /\ [Next]_vars => Unclosed'
<1> SUFFICES ASSUME TypeOK, Numbered, Streamed, Marked, Unclosed, [Next]_vars,
                    NEW f \in Ends, state'[f] = "open"
             PROVE  /\ ~clean'[f]
                    /\ firstClose'[Other(f)] = 0 \/ firstClose'[Other(f)] > Len(received'[f])
  BY DEF Unclosed
<1> DEFINE first == firstClose[Other(f)]
           n     == Len(received[f])
<1>1. state[f] = "open" => ~clean[f] /\ (first = 0 \/ first > n)
  BY DEF Unclosed
<1>2. /\ Other(f) \in Ends /\ first \in Nat /\ n \in Nat /\ pushed[Other(f)] \in Nat
      /\ received[f] \in Seq(Nat) /\ n <= pushed[Other(f)]
  BY EndsKnown, LenProperties DEF TypeOK, Streamed
<1>3. \/ firstClose'[Other(f)] = first
      \/ first = 0 /\ firstClose'[Other(f)] = pushed[Other(f)] + 1
  BY <1>2, FirstCloseStep
<1> HIDE DEF first, n
<1>4. CASE ReadMessage(f)
  <2>1. /\ net[f] # <<>> /\ Head(net[f]).kind = "data" /\ state[f] = "open"
        /\ received'[f] = Append(received[f], Head(net[f]).n)
        /\ UNCHANGED <<clean, firstClose>>
    BY <1>4 DEF ReadMessage, Reads, callVars, endVars, TypeOK
  <2>2. firstClose'[Other(f)] = first
    BY <2>1 DEF first
  <2>3. Head(net[f]).n = n + 1 /\ Mark(Head(net[f]), pushed[Other(f)], first)
    BY <2>1, NextFrame DEF first, n
  <2>4. first # n + 1
    BY <2>1, <2>3 DEF Mark
  <2>5. Len(received'[f]) = n + 1
    <3>1. n + 1 \in Nat /\ received'[f] = Append(received[f], n + 1)
      BY <1>2, <2>1, <2>3
    <3> QED
      BY <1>2, <3>1, AppendProperties DEF n
  <2>6. first = 0 \/ first > n + 1
    BY <1>1, <1>2, <2>1, <2>4
  <2> QED
    BY <1>1, <2>1, <2>2, <2>5, <2>6
<1>5. CASE Acknowledge(f)
  BY <1>5 DEF Acknowledge, TypeOK
<1>6. CASE ~ReadMessage(f) /\ ~Acknowledge(f)
  <2>1. Calm(f)
    BY <1>6, CalmStep
  <2>2. Len(received'[f]) = n
    BY <2>1 DEF Calm, n
  <2>3. /\ first # 0 => firstClose'[Other(f)] = first
        /\ first = 0 => firstClose'[Other(f)] = 0 \/ firstClose'[Other(f)] > n
    BY <1>2, <1>3
  <2> QED
    BY <1>1, <2>1, <2>2, <2>3 DEF Calm
<1> QED
  BY <1>4, <1>5, <1>6

(* The step with which an open end reads a close.                          *)
LEMMA ReadsClose ==
  ASSUME TypeOK, Streamed, Marked, Unclosed, [Next]_vars,
         NEW f \in Ends, state[f] = "open", clean'[f]
  PROVE  Len(received[f]) = firstClose[Other(f)] - 1
<1> DEFINE first == firstClose[Other(f)]
           n     == Len(received[f])
<1>1. ~clean[f] /\ (first = 0 \/ first > n)
  BY DEF Unclosed
<1>2. first \in Nat /\ n \in Nat
  BY EndsKnown, LenProperties DEF TypeOK
<1>3. ~ReadMessage(f)
  BY <1>1 DEF ReadMessage
<1>4. Acknowledge(f)
  BY <1>1, <1>3, CalmStep DEF Calm
<1>5. net[f] # <<>> /\ Head(net[f]).kind # "data"
  BY <1>4 DEF Acknowledge, Reads
<1>6. Head(net[f]).n = n + 1 /\ Mark(Head(net[f]), pushed[Other(f)], first)
  BY <1>5, NextFrame
<1> HIDE DEF first, n
<1>7. first # 0 /\ first <= n + 1
  BY <1>5, <1>6 DEF Mark
<1>8. n = first - 1
  BY <1>1, <1>2, <1>7
<1> QED
  BY <1>8 DEF first, n

(* An open end that reads a close was given all the messages sent before    *)
(* the first close: close queues its frame behind them, also when it runs   *)
(* in another thread than the write, which keeps the order.                 *)
THEOREM CloseOvertakesNone == Spec => NothingLostByClose
<1>1. TypeOK /\ Streamed /\ Marked /\ Unclosed /\ [Next]_vars =>
        [\A e \in Ends : state[e] = "open" /\ clean'[e] =>
                          Len(received[e]) = firstClose[Other(e)] - 1]_vars
  BY ReadsClose
<1> QED
  BY <1>1, TypeInit, TypeStep, NumberedInit, NumberedStep, StreamedInit, StreamedStep, MarkedInit,
     MarkedStep, UnclosedInit, UnclosedStep, PTL DEF Spec, NothingLostByClose
=============================================================================
