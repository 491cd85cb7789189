---------------------------- MODULE TeardownProofs ----------------------------
(* Safety of Teardown: what holds of a connection of WebSocket holds while   *)
(* its client is destroyed, and nothing of the client moves afterwards.     *)
EXTENDS Teardown, WebSocketProofs

(* The destructor has no call under way when it joins, and no handler left   *)
(* when it returns.                                                        *)
Over == /\ destructor \in {"joining", "gone"} => app[Client] = "idle"
        /\ destructor = "gone" => LoopEnded

(* A step of the teardown is one of the connection, or changes only the      *)
(* destructor.                                                             *)
LEMMA TeardownSteps == [TeardownNext]_allVars => [Next]_vars
<1> SUFFICES ASSUME [TeardownNext]_allVars PROVE [Next]_vars
  OBVIOUS
<1>1. CASE Destroy
  BY <1>1, EndsKnown DEF Destroy, Next
<1>2. CASE DestroyThrows \/ Destructor
  BY <1>2 DEF DestroyThrows, Destructor, HandleExpired, Join
<1>3. CASE Connection
  BY <1>3, EndsKnown DEF Connection, Next
<1>4. CASE UNCHANGED allVars
  BY <1>4 DEF allVars
<1> QED
  BY <1>1, <1>2, <1>3, <1>4 DEF TeardownNext

(* A connection whose client is destroyed, with its close handler held up    *)
(* by the destructor, keeps its types and strands no frame; its messages     *)
(* come in order and its server handles its close once.                     *)
THEOREM TeardownStaysSafe ==
  TeardownSpec => [](TypeOK /\ InOrder /\ NothingStranded /\ HandledOnce)
<1>1. TeardownInit => Init
  BY DEF TeardownInit
<1>2. TypeOK /\ Streamed => InOrder
  <2> SUFFICES ASSUME TypeOK, Streamed, NEW e \in Ends
               PROVE  /\ Len(received[e]) <= pushed[Other(e)]
                      /\ \A k \in DOMAIN received[e] : received[e][k] = k
    BY DEF InOrder
  <2>1. DOMAIN received[e] = 1 .. Len(received[e])
    BY LenProperties DEF TypeOK
  <2> QED
    BY <2>1 DEF Streamed
<1>3. Once => HandledOnce
  BY DEF Once, HandledOnce
<1> QED
  BY <1>1, <1>2, <1>3, TeardownSteps, TypeInit, TypeStep, NumberedInit, NumberedStep, StreamedInit,
     StreamedStep, StrandedInit, StrandedStep, OnceInit, OnceStep, PTL DEF TeardownSpec

(* A close overtakes no message then either.                               *)
THEOREM TeardownLosesNone == TeardownSpec => NothingLostByClose
<1>1. TeardownInit => Init
  BY DEF TeardownInit
<1>2. TypeOK /\ Streamed /\ Marked /\ Unclosed /\ [Next]_vars =>
        [\A e \in Ends : state[e] = "open" /\ clean'[e] =>
                          Len(received[e]) = firstClose[Other(e)] - 1]_vars
  BY ReadsClose
<1> QED
  BY <1>1, <1>2, TeardownSteps, TypeInit, TypeStep, NumberedInit, NumberedStep, StreamedInit,
     StreamedStep, MarkedInit, MarkedStep, UnclosedInit, UnclosedStep, PTL
  DEF TeardownSpec, NothingLostByClose
-----------------------------------------------------------------------------
LEMMA PushElsewhere ==
  ASSUME TypeOK, NEW e \in Ends, e # Client, NEW kind, Push(e, kind)
  PROVE  queue'[Client] = queue[Client]
BY EndsKnown DEF TypeOK, Push

LEMMA TerminateElsewhere ==
  ASSUME TypeOK, NEW e \in Ends, e # Client, Terminate(e)
  PROVE  UNCHANGED <<state[Client], timer[Client], closes[Client]>>
BY EndsKnown DEF TypeOK, Terminate

(* The members of the client are changed by its own steps.                 *)
LEMMA StepElsewhere ==
  ASSUME TypeOK, NEW e \in Ends, e # Client,
         Send(e) \/ Close(e) \/ InCall(e) \/ Transmit(e) \/ Handler(e)
  PROVE  UNCHANGED Members
<1> USE DEF Members, callVars, endVars, writeVars, readVars, netVars
<1>0. /\ Client \in Ends
      /\ DOMAIN state = Ends /\ DOMAIN app = Ends /\ DOMAIN write = Ends /\ DOMAIN posted = Ends
      /\ DOMAIN timer = Ends /\ DOMAIN stale = Ends /\ DOMAIN reading = Ends
      /\ DOMAIN queue = Ends
  BY EndsKnown DEF TypeOK
<1>1. CASE Send(e) \/ Close(e) \/ Post(e) \/ SetClosing(e) \/ SetTimer(e)
  BY <1>0, <1>1 DEF Send, Close, BeginClose, Post, SetClosing, SetTimer, NewTimer, Call
<1>2. CASE PushMessage(e) \/ PushClose(e)
  <2>1. queue'[Client] = queue[Client]
    BY <1>2, PushElsewhere DEF PushMessage, PushClose
  <2> QED
    BY <1>0, <1>2, <2>1 DEF PushMessage, PushClose, Call
<1>3. CASE WriteFrame(e) \/ NothingToWrite(e) \/ Transmit(e) \/ Written(e)
  BY <1>0, <1>3 DEF WriteFrame, NothingToWrite, Transmit, Written
<1>4. CASE WrittenLast(e) \/ WriteFails(e) \/ TimerExpires(e) \/ StaleTimerExpires(e)
  <2>1. UNCHANGED <<state[Client], timer[Client], closes[Client]>>
    BY <1>4, TerminateElsewhere DEF WrittenLast, WriteFails, TimerExpires, StaleTimerExpires
  <2> QED
    BY <1>0, <1>4, <2>1 DEF WrittenLast, WriteFails, TimerExpires, StaleTimerExpires
<1>5. CASE ReadMessage(e) \/ IgnoreClose(e)
  BY <1>0, <1>5 DEF ReadMessage, IgnoreClose
<1>6. CASE Acknowledge(e)
  <2>1. queue'[Client] = queue[Client]
    BY <1>6, PushElsewhere DEF Acknowledge
  <2> QED
    BY <1>0, <1>6, <2>1 DEF Acknowledge, NewTimer
<1>7. CASE Acknowledged(e) \/ ReadFails(e)
  <2>1. UNCHANGED <<state[Client], timer[Client], closes[Client]>>
    BY <1>7, TerminateElsewhere DEF Acknowledged, ReadFails
  <2> QED
    BY <1>0, <1>7, <2>1 DEF Acknowledged, ReadFails
<1> QED
  BY <1>1, <1>2, <1>3, <1>4, <1>5, <1>6, <1>7 DEF InCall, Handler

(* Nothing is left to do in the client when its loop has ended and it has    *)
(* no call under way.                                                      *)
LEMMA LoopDone ==
  ASSUME TypeOK, app[Client] = "idle", LoopEnded
  PROVE  ~(InCall(Client) \/ Transmit(Client) \/ Handler(Client))
<1>1. ~InCall(Client)
  BY DEF InCall, PushMessage, Post, SetClosing, SetTimer, PushClose, Call
<1>2. ~Transmit(Client)
  BY DEF LoopEnded, Transmit
<1>3. ~(WriteFrame(Client) \/ NothingToWrite(Client))
  BY DEF LoopEnded, WriteFrame, NothingToWrite
<1>4. ~(Written(Client) \/ WrittenLast(Client) \/ WriteFails(Client))
  BY DEF LoopEnded, Written, WrittenLast, WriteFails
<1>5. ~(ReadMessage(Client) \/ Acknowledge(Client) \/ Acknowledged(Client) \/ IgnoreClose(Client)
        \/ ReadFails(Client))
  BY DEF LoopEnded, ReadMessage, Acknowledge, Acknowledged, IgnoreClose, ReadFails, Reads
<1>6. ~(TimerExpires(Client) \/ StaleTimerExpires(Client))
  BY DEF LoopEnded, TimerExpires, StaleTimerExpires
<1> QED
  BY <1>1, <1>2, <1>3, <1>4, <1>5, <1>6 DEF Handler

LEMMA AfterwardsStill ==
  ASSUME TypeOK, Over, destructor = "gone", [TeardownNext]_allVars
  PROVE  UNCHANGED Members /\ UNCHANGED destructor
<1>0. app[Client] = "idle" /\ LoopEnded
  BY DEF Over
<1>1. CASE Connection
  <2>1. UNCHANGED destructor
    BY <1>1 DEF Connection
  <2>2. Server \in Ends /\ Server # Client
    BY EndsKnown, WebSocketAssumption
  <2>3. CASE Break
    BY <2>1, <2>3 DEF Break, Members, readVars, callVars, endVars, writeVars
  <2>4. CASE ~Break
    <3>1. \E e \in Ends : e # Client /\ (Send(e) \/ Close(e) \/ InCall(e) \/ Transmit(e) \/ Handler(e))
      BY <1>0, <1>1, <2>2, <2>4, LoopDone DEF Connection
    <3> QED
      BY <2>1, <3>1, StepElsewhere
  <2> QED
    BY <2>3, <2>4
<1>2. CASE UNCHANGED allVars
  BY <1>2 DEF allVars, vars, callVars, endVars, writeVars, readVars, Members
<1> QED
  BY <1>1, <1>2 DEF TeardownNext, Destroy, DestroyThrows, Destructor, HandleExpired, Join

LEMMA OverStep == TypeOK /\ Over /\ [TeardownNext]_allVars => Over'
<1> SUFFICES ASSUME TypeOK, Over, [TeardownNext]_allVars PROVE Over'
  OBVIOUS
<1>1. CASE destructor = "gone"
  <2>1. UNCHANGED Members /\ UNCHANGED destructor
    BY <1>1, AfterwardsStill
  <2> QED
    BY <2>1 DEF Over, LoopEnded, Members
<1>2. CASE destructor # "gone"
  <2>1. CASE Destroy \/ DestroyThrows
    BY <2>1 DEF Destroy, DestroyThrows, Over
  <2>2. CASE Destructor
    BY <2>2 DEF Destructor, HandleExpired, Join, Over, LoopEnded, vars, callVars, endVars,
                writeVars, readVars
  <2>3. CASE Connection
    <3>1. destructor' = destructor
      BY <2>3 DEF Connection
    <3>2. ASSUME destructor = "joining" PROVE app'[Client] = app[Client]
      <4>1. app[Client] = "idle"
        BY <3>2 DEF Over
      <4>2. ~InCall(Client)
        BY <4>1 DEF InCall, PushMessage, Post, SetClosing, SetTimer, PushClose, Call
      <4>3. Server \in Ends /\ Server # Client
        BY EndsKnown, WebSocketAssumption
      <4>4. CASE Transmit(Client) \/ Handler(Client) \/ Break
        BY <4>4 DEF Transmit, Handler, WriteFrame, NothingToWrite, Written, WrittenLast, WriteFails,
                    ReadMessage, Acknowledge, Acknowledged, IgnoreClose, ReadFails, TimerExpires,
                    StaleTimerExpires, Break, callVars
      <4>5. CASE \E e \in Ends : e # Client /\ (Send(e) \/ Close(e) \/ InCall(e) \/ Transmit(e) \/ Handler(e))
        BY <4>5, StepElsewhere DEF Members
      <4> QED
        BY <2>3, <3>2, <4>2, <4>3, <4>4, <4>5 DEF Connection
    <3> QED
      BY <1>2, <3>1, <3>2 DEF Over
  <2>4. CASE UNCHANGED allVars
    BY <2>4 DEF allVars, vars, callVars, endVars, writeVars, readVars, Over, LoopEnded
  <2> QED
    BY <2>1, <2>2, <2>3, <2>4 DEF TeardownNext
<1> QED
  BY <1>1, <1>2

(* Once the destructor has joined the I/O thread no call and no handler of   *)
(* the client touches its members, which are freed, whatever the server and  *)
(* the network still do.                                                   *)
THEOREM MembersOutliveUse == TeardownSpec => NothingAfterwards
<1>1. TeardownInit => Init /\ Over
  BY DEF TeardownInit, Over
<1>2. TypeOK /\ Over /\ [TeardownNext]_allVars =>
        [destructor = "gone" => UNCHANGED Members]_allVars
  BY AfterwardsStill
<1> QED
  BY <1>1, <1>2, TeardownSteps, TypeInit, TypeStep, OverStep, PTL DEF TeardownSpec, NothingAfterwards
=============================================================================
