------------------------------- MODULE Teardown -------------------------------
(* The destructor of the C++ client (clients/cpp/Connection.cpp) over        *)
(* WebSocket: it closes the connection, waits for the close handler, and    *)
(* joins the I/O thread, holding m_open, which the close handler takes.     *)
(* ClientConnection has all of the client, over a connection of which only   *)
(* close is more than one step; here the steps are those of WebSocket.      *)
EXTENDS WebSocket

ASSUME TeardownAssumption == Client \in Closers

VARIABLE destructor  \* "unborn", "closing", "joining", "gone" or "throws"

allVars == <<vars, destructor>>
-----------------------------------------------------------------------------
TeardownInit == Init /\ destructor = "unborn"

(* ~_Connection begins with close, which throws on a connection that is not *)
(* open; an exception that leaves a destructor ends the process.            *)
Destroy == /\ destructor = "unborn" /\ destructor' = "closing"
           /\ Close(Client)

DestroyThrows == /\ destructor = "unborn" /\ destructor' = "throws"
                 /\ app[Client] = "idle" /\ state[Client] # "open"
                 /\ UNCHANGED vars

(* hdl.expired(): the close handler has been called.                       *)
HandleExpired == /\ destructor = "closing" /\ destructor' = "joining"
                 /\ app[Client] = "idle" /\ closes[Client] > 0
                 /\ UNCHANGED vars

(* run() returns when nothing is left to do for its handlers.              *)
LoopEnded == /\ posted[Client] = 0 /\ write[Client] \notin {"started", "sent"}
             /\ ~reading[Client] /\ ~timer[Client] /\ stale[Client] = 0

Join_Early == /\ destructor = "joining" /\ destructor' = "gone"
              /\ UNCHANGED vars

Join == /\ destructor = "joining" /\ destructor' = "gone"
        /\ LoopEnded
        /\ UNCHANGED vars

Destructor == HandleExpired \/ Join

(* The close handler waits for m_open.                                     *)
Unlocked == closes'[Client] # closes[Client] => destructor # "joining"

(* Nobody sends on a connection that is being destroyed.                   *)
Connection == /\ destructor # "throws" /\ UNCHANGED destructor
              /\ \/ \E e \in Ends : InCall(e) \/ Transmit(e) \/ Handler(e)
                 \/ Send(Server) \/ Close(Server)
                 \/ (destructor = "unborn" /\ Send(Client))
                 \/ Break
              /\ Unlocked

Calls   == InCall(Client) /\ Connection
Handles == Handler(Client) /\ Connection

TeardownNext == Destroy \/ DestroyThrows \/ Destructor \/ Connection

TeardownSpec ==
  /\ TeardownInit /\ [][TeardownNext]_allVars
  /\ WF_allVars(Destructor)
  /\ WF_allVars(Calls) /\ WF_allVars(Handles)
-----------------------------------------------------------------------------
(* After the destructor has returned no handler of the connection runs and  *)
(* none of its calls goes on: its members are gone.                        *)
Members == <<state[Client], app[Client], queue[Client], write[Client], posted[Client],
             timer[Client], stale[Client], reading[Client], closes[Client]>>
NothingAfterwards == [][destructor = "gone" => UNCHANGED Members]_allVars

(* The close handler, called again, waits for the thread that joins it.     *)
Deadlocked == destructor = "joining" /\ state[Client] # "closed"

(* A destructor that closes returns, unless the close handler is called     *)
(* twice: the server need not answer, nor the network deliver.              *)
DestructorReturnsOrDeadlocks == (destructor = "closing") ~> (destructor = "gone" \/ Deadlocked)

(* "Wait for websocket to be closed": the destructor returns.              *)
DestructorReturns == (destructor = "closing") ~> (destructor = "gone")
=============================================================================
