------------------------------ MODULE WebSocket ------------------------------
(* An open connection of websocketpp (impl/connection_impl.hpp), at both of  *)
(* its ends: sending and closing, writing what is queued, reading, and the  *)
(* closing handshake with its timer.                                        *)
(*                                                                         *)
(* The handlers of an end run one by one in its I/O thread, each one is a   *)
(* step.  The calls of its application do too, at the server, whose calls   *)
(* are made in handlers; a client in Threads calls send and close from a    *)
(* thread of its own, and its calls are the steps between which a handler   *)
(* may run.  send and close hold m_connection_state_lock over their test of *)
(* m_state, and the handlers change m_state without it: the lock keeps       *)
(* nothing away from a call and is left out, and an access of a member in   *)
(* such a race is one step.                                                 *)
(*                                                                         *)
(* A frame is its place among the frames its end has queued, and its kind:  *)
(* a message, a close, or a close that is marked terminal, after which the  *)
(* connection is to be ended.  Pings are left out, nobody sends any.        *)
EXTENDS Integers, SequencesExt

CONSTANTS
  Client, Server,
  Threads,     \* ends whose application calls from a thread of its own
  Closers,     \* ends whose application may close the connection
  MaxSends,    \* bounds: frames the client, and the server, may have queued
  MaxReplies,  \*   after a message
  MayBreak     \* may the network, or the process of an end, fail?

ASSUME WebSocketAssumption ==
  /\ Client # Server
  /\ Threads \subseteq {Client, Server} /\ Closers \subseteq {Client, Server}
  /\ MaxSends \in Nat /\ MaxReplies \in Nat /\ MayBreak \in BOOLEAN

VARIABLES
  state,    \* m_state
  clean,    \* m_was_clean: the other end's close has been read
  app,      \* control point of the call of the application, if any
  queue,    \* m_send_queue
  current,  \* m_current_msgs
  write,    \* the transport write; m_write_flag is its not being "idle"
  posted,   \* write_frame handlers that are posted
  timer,    \* m_handshake_timer runs
  stale,    \* timers that run and are no longer m_handshake_timer
  reading,  \* a read is pending
  net,      \* frames on their way to an end
  shut,     \* an end has shut its socket down
  broken,   \* the network has failed
  pushed,   \* history: frames queued
  firstClose, \* history: which of them was the first close, or 0
  received, \* history: messages given to the message handler, by their frames
  closes    \* history: calls of the close handler

callVars  == <<app, pushed, firstClose>>
endVars   == <<state, timer, shut, closes>>
writeVars == <<queue, current, write, posted>>
readVars  == <<clean, stale, reading, received>>
netVars   == <<net, broken>>
vars      == <<callVars, endVars, writeVars, readVars, netVars>>

Ends     == {Client, Server}
Other(e) == IF e = Client THEN Server ELSE Client
Frame    == [n : Nat, kind : {"data", "close", "last"}]
-----------------------------------------------------------------------------
Init ==
  /\ state = [e \in Ends |-> "open"] /\ clean = [e \in Ends |-> FALSE]
  /\ app = [e \in Ends |-> "idle"]
  /\ queue = [e \in Ends |-> <<>>] /\ current = [e \in Ends |-> <<>>]
  /\ write = [e \in Ends |-> "idle"] /\ posted = [e \in Ends |-> 0]
  /\ timer = [e \in Ends |-> FALSE] /\ stale = [e \in Ends |-> 0]
  /\ reading = [e \in Ends |-> TRUE]
  /\ net = [e \in Ends |-> <<>>] /\ shut = [e \in Ends |-> FALSE] /\ broken = FALSE
  /\ pushed = [e \in Ends |-> 0] /\ firstClose = [e \in Ends |-> 0]
  /\ received = [e \in Ends |-> <<>>] /\ closes = [e \in Ends |-> 0]

Push_Front(e, kind) ==
  LET n == pushed[e] + 1 IN
  /\ queue' = [queue EXCEPT ![e] = <<[n |-> n, kind |-> kind]>> \o @]
  /\ pushed' = [pushed EXCEPT ![e] = n]
  /\ firstClose' = [firstClose EXCEPT ![e] = IF @ = 0 /\ kind # "data" THEN n ELSE @]

(* write_push, and the number of the first close.                          *)
Push(e, kind) ==
  LET n == pushed[e] + 1 IN
  /\ queue' = [queue EXCEPT ![e] = Append(@, [n |-> n, kind |-> kind])]
  /\ pushed' = [pushed EXCEPT ![e] = n]
  /\ firstClose' = [firstClose EXCEPT ![e] = IF @ = 0 /\ kind # "data" THEN n ELSE @]

Call(e, from, to) == app[e] = from /\ app' = [app EXCEPT ![e] = to]

(* needs_writing, taken under m_write_lock with the push.                  *)
Then(e) == IF write[e] = "idle" THEN "post" ELSE "idle"
-----------------------------------------------------------------------------
(* The calls of the application.                                           *)

(* send: on a connection that is not open it returns an error.             *)
Send(e) == /\ Call(e, "idle", "send")
           /\ state[e] = "open" /\ pushed[e] < (IF e = Client THEN MaxSends ELSE MaxReplies)
           /\ UNCHANGED <<pushed, firstClose, endVars, writeVars, readVars, netVars>>

PushMessage(e) == /\ Call(e, "send", Then(e))
                  /\ Push(e, "data")
                  /\ UNCHANGED <<current, write, posted, endVars, readVars, netVars>>

Post(e) == /\ Call(e, "post", "idle")
           /\ posted' = [posted EXCEPT ![e] = @ + 1]
           /\ UNCHANGED <<pushed, firstClose, queue, current, write, endVars, readVars, netVars>>

(* close, with a code that is not terminal: the test of m_state, its        *)
(* change, the timer and the push.                                          *)
BeginClose(e) == /\ Call(e, "idle", "close")
                 /\ state[e] = "open"
                 /\ UNCHANGED <<pushed, firstClose, endVars, writeVars, readVars, netVars>>

SetClosing(e) == /\ Call(e, "close", "timer")
                 /\ state' = [state EXCEPT ![e] = "closing"]
                 /\ UNCHANGED <<pushed, firstClose, timer, shut, closes, writeVars, readVars, netVars>>

NewTimer(e) == /\ timer' = [timer EXCEPT ![e] = TRUE]
               /\ stale' = [stale EXCEPT ![e] = IF timer[e] THEN @ + 1 ELSE @]

SetTimer_Never(e) ==
  /\ Call(e, "timer", "push")
  /\ UNCHANGED <<pushed, firstClose, endVars, writeVars, readVars, netVars>>

SetTimer(e) == /\ Call(e, "timer", "push")
               /\ NewTimer(e)
               /\ UNCHANGED <<pushed, firstClose, state, shut, closes, writeVars,
                              clean, reading, received, netVars>>

PushClose_First(e) ==
  /\ Call(e, "push", Then(e))
  /\ queue' = [queue EXCEPT ![e] = <<[n |-> pushed[e] + 1, kind |-> "close"]>> \o @]
  /\ pushed' = [pushed EXCEPT ![e] = @ + 1]
  /\ firstClose' = [firstClose EXCEPT ![e] = IF @ = 0 THEN pushed[e] + 1 ELSE @]
  /\ UNCHANGED <<current, write, posted, endVars, readVars, netVars>>

PushClose(e) == /\ Call(e, "push", Then(e))
                /\ Push(e, "close")
                /\ UNCHANGED <<current, write, posted, endVars, readVars, netVars>>

Close(e) == e \in Closers /\ BeginClose(e)

(* What a call goes on with.                                               *)
InCall(e) == PushMessage(e) \/ Post(e) \/ SetClosing(e) \/ SetTimer(e) \/ PushClose(e)
-----------------------------------------------------------------------------
(* terminate: it cancels the timer, and shuts the socket down and calls the *)
(* close handler unless the connection is closed already.                   *)
Terminate_Again(e) ==
  /\ timer' = [timer EXCEPT ![e] = FALSE]
  /\ state' = [state EXCEPT ![e] = "closed"]
  /\ shut' = [shut EXCEPT ![e] = TRUE]
  /\ closes' = [closes EXCEPT ![e] = @ + 1]

Terminate(e) ==
  /\ timer' = [timer EXCEPT ![e] = FALSE]
  /\ state' = [state EXCEPT ![e] = "closed"]
  /\ shut' = [shut EXCEPT ![e] = TRUE]
  /\ closes' = [closes EXCEPT ![e] = IF state[e] = "closed" THEN @ ELSE @ + 1]

(* The messages that are written together end with a terminal one.         *)
Ready(q, k) == /\ \A i \in 1 .. k - 1 : q[i].kind # "last"
               /\ k = Len(q) \/ q[k].kind = "last"

WriteFrame(e) ==
  /\ posted[e] > 0 /\ posted' = [posted EXCEPT ![e] = @ - 1]
  /\ write[e] = "idle" /\ queue[e] # <<>>
  /\ \E k \in 1 .. Len(queue[e]) :
       /\ Ready(queue[e], k)
       /\ current' = [current EXCEPT ![e] = SubSeq(queue[e], 1, k)]
       /\ queue' = [queue EXCEPT ![e] = SubSeq(queue[e], k + 1, Len(queue[e]))]
  /\ write' = [write EXCEPT ![e] = "started"]
  /\ UNCHANGED <<callVars, endVars, readVars, netVars>>

NothingToWrite_Unposted(e) ==
  /\ posted' = [posted EXCEPT ![e] = @ - 1]
  /\ write[e] # "idle" \/ queue[e] = <<>>
  /\ UNCHANGED <<queue, current, write, callVars, endVars, readVars, netVars>>

NothingToWrite(e) ==
  /\ posted[e] > 0 /\ posted' = [posted EXCEPT ![e] = @ - 1]
  /\ write[e] # "idle" \/ queue[e] = <<>>
  /\ UNCHANGED <<queue, current, write, callVars, endVars, readVars, netVars>>

(* The transport: the frames are on their way before the handler is called. *)
Transmit(e) ==
  /\ write[e] = "started" /\ ~shut[e] /\ ~broken
  /\ net' = [net EXCEPT ![Other(e)] = @ \o current[e]]
  /\ write' = [write EXCEPT ![e] = "sent"]
  /\ UNCHANGED <<queue, current, posted, callVars, endVars, readVars, broken>>

(* handle_write_frame: after a terminal message, and after an error, it      *)
(* keeps the flag.                                                          *)
Written_Forgets(e) ==
  /\ write[e] = "sent" /\ Last(current[e]).kind # "last"
  /\ current' = [current EXCEPT ![e] = <<>>]
  /\ write' = [write EXCEPT ![e] = "idle"]
  /\ UNCHANGED <<queue, posted, callVars, endVars, readVars, netVars>>

Written(e) ==
  /\ write[e] = "sent" /\ Last(current[e]).kind # "last"
  /\ current' = [current EXCEPT ![e] = <<>>]
  /\ write' = [write EXCEPT ![e] = "idle"]
  /\ posted' = [posted EXCEPT ![e] = IF queue[e] # <<>> THEN @ + 1 ELSE @]
  /\ UNCHANGED <<queue, callVars, endVars, readVars, netVars>>

WrittenLast(e) ==
  /\ write[e] = "sent" /\ Last(current[e]).kind = "last"
  /\ current' = [current EXCEPT ![e] = <<>>]
  /\ write' = [write EXCEPT ![e] = "stuck"]
  /\ Terminate(e)
  /\ UNCHANGED <<queue, posted, callVars, readVars, netVars>>

WriteFails(e) ==
  /\ write[e] = "started" /\ (broken \/ shut[e] \/ shut[Other(e)])
  /\ current' = [current EXCEPT ![e] = <<>>]
  /\ write' = [write EXCEPT ![e] = "stuck"]
  /\ Terminate(e)
  /\ UNCHANGED <<queue, posted, callVars, readVars, netVars>>
-----------------------------------------------------------------------------
(* handle_read_frame, frame by frame.                                      *)
Reads(e, kinds) == /\ reading[e] /\ net[e] # <<>> /\ Head(net[e]).kind \in kinds
                   /\ net' = [net EXCEPT ![e] = Tail(@)]

(* A message that comes when the connection is not open is dropped.        *)
ReadMessage(e) ==
  /\ Reads(e, {"data"})
  /\ received' = [received EXCEPT ![e] = IF state[e] = "open" THEN Append(@, Head(net[e]).n) ELSE @]
  /\ UNCHANGED <<broken, clean, stale, reading, callVars, endVars, writeVars>>

(* send_close_ack, terminal at the server.                                 *)
Acknowledge(e) ==
  /\ Reads(e, {"close", "last"}) /\ state[e] = "open"
  /\ state' = [state EXCEPT ![e] = "closing"]
  /\ clean' = [clean EXCEPT ![e] = TRUE]
  /\ NewTimer(e)
  /\ Push(e, IF e = Server THEN "last" ELSE "close")
  /\ posted' = [posted EXCEPT ![e] = IF write[e] = "idle" THEN @ + 1 ELSE @]
  /\ UNCHANGED <<app, shut, closes, current, write, reading, received, broken>>

(* The acknowledgement of our own close: the server ends the connection,    *)
(* the client waits for it to do so.                                        *)
Acknowledged(e) ==
  /\ Reads(e, {"close", "last"}) /\ state[e] = "closing" /\ ~clean[e]
  /\ clean' = [clean EXCEPT ![e] = TRUE]
  /\ IF e = Server THEN Terminate(e) ELSE UNCHANGED endVars
  /\ UNCHANGED <<stale, reading, received, broken, callVars, writeVars>>

IgnoreClose(e) ==
  /\ Reads(e, {"close", "last"}) /\ (state[e] = "closed" \/ (state[e] = "closing" /\ clean[e]))
  /\ UNCHANGED <<readVars, broken, callVars, endVars, writeVars>>

(* The end of the stream, which a closed connection ignores, or an error.  *)
ReadFails(e) ==
  /\ reading[e] /\ net[e] = <<>> /\ (broken \/ shut[e] \/ shut[Other(e)])
  /\ reading' = [reading EXCEPT ![e] = FALSE]
  /\ \/ state[e] = "closed" /\ UNCHANGED endVars
     \/ (state[e] # "closed" \/ broken) /\ Terminate(e)
  /\ UNCHANGED <<clean, stale, received, netVars, callVars, writeVars>>

(* handle_close_handshake_timeout.                                         *)
TimerExpires(e) == /\ timer[e]
                   /\ Terminate(e)
                   /\ UNCHANGED <<readVars, netVars, callVars, writeVars>>

StaleTimerExpires(e) == /\ stale[e] > 0
                        /\ stale' = [stale EXCEPT ![e] = @ - 1]
                        /\ Terminate(e)
                        /\ UNCHANGED <<clean, reading, received, netVars, callVars, writeVars>>

Handler(e) ==
  /\ e \in Threads \/ app[e] = "idle"
  /\ \/ WriteFrame(e) \/ NothingToWrite(e) \/ Written(e) \/ WrittenLast(e) \/ WriteFails(e)
     \/ ReadMessage(e) \/ Acknowledge(e) \/ Acknowledged(e) \/ IgnoreClose(e) \/ ReadFails(e)
     \/ TimerExpires(e) \/ StaleTimerExpires(e)

(* The network fails, or a process ends: what is on its way may be lost.   *)
Break ==
  /\ MayBreak /\ ~broken
  /\ broken' = TRUE
  /\ \E k \in 0 .. Len(net[Client]), l \in 0 .. Len(net[Server]) :
       net' = [net EXCEPT ![Client] = SubSeq(@, 1, k), ![Server] = SubSeq(@, 1, l)]
  /\ UNCHANGED <<readVars, callVars, endVars, writeVars>>

Next == \/ \E e \in Ends : Send(e) \/ Close(e) \/ InCall(e) \/ Transmit(e) \/ Handler(e)
        \/ Break

(* The threads of the client go on, its timers expire.  Nothing is asked    *)
(* of the server and of the network.                                        *)
Fairness == WF_vars(InCall(Client)) /\ WF_vars(Handler(Client))

Spec == Init /\ [][Next]_vars /\ Fairness
-----------------------------------------------------------------------------
TypeOK ==
  /\ state \in [Ends -> {"open", "closing", "closed"}]
  /\ clean \in [Ends -> BOOLEAN] /\ timer \in [Ends -> BOOLEAN]
  /\ reading \in [Ends -> BOOLEAN] /\ shut \in [Ends -> BOOLEAN] /\ broken \in BOOLEAN
  /\ app \in [Ends -> {"idle", "send", "post", "close", "timer", "push"}]
  /\ queue \in [Ends -> Seq(Frame)] /\ current \in [Ends -> Seq(Frame)]
  /\ net \in [Ends -> Seq(Frame)] /\ received \in [Ends -> Seq(Nat)]
  /\ write \in [Ends -> {"idle", "started", "sent", "stuck"}]
  /\ posted \in [Ends -> Nat] /\ stale \in [Ends -> Nat] /\ closes \in [Ends -> Nat]
  /\ pushed \in [Ends -> Nat] /\ firstClose \in [Ends -> Nat]

(* The k-th message an end is given is the k-th one the other end has sent, *)
(* whichever thread sends, and however writes, closes and failures fall.    *)
InOrder == \A e \in Ends : /\ Len(received[e]) <= pushed[Other(e)]
                           /\ \A k \in DOMAIN received[e] : received[e][k] = k

(* A frame in the queue does not depend on another call to be written:      *)
(* somebody holds the write flag, or has posted or is about to post a       *)
(* write, whoever found the flag set when the write was ending.             *)
NothingStranded ==
  \A e \in Ends : queue[e] # <<>> => write[e] # "idle" \/ posted[e] > 0 \/ app[e] = "post"

(* "All messages sent prior to calling close will be written out before    *)
(* the connection is closed": an open end that reads a close has been given *)
(* all that was sent before the first close, whoever else is closing.       *)
NothingLostByClose ==
  [][\A e \in Ends : state[e] = "open" /\ clean'[e] =>
                      Len(received[e]) = firstClose[Other(e)] - 1]_vars

(* The close handler of an end that has one thread is called once.         *)
HandledOnce == \A e \in Ends \ Threads : closes[e] <= 1
=============================================================================
