------------------------------- MODULE Server -------------------------------
(***************************************************************************)
(* The SSH server: Serve and handleConn of internal/server/server.go with  *)
(* the goroutines they start.  A channel handler is counted from its start *)
(* to its return; the other modules say what it does in between, and that  *)
(* it returns when its context is done and its connection is closed.       *)
(***************************************************************************)
EXTENDS Naturals

CONSTANTS Conn,         \* the connections of all clients
          MaxChannels   \* bound on the channels of a connection

ASSUME ServerAssumption == MaxChannels \in Nat

VARIABLES shutdown,     \* Serve's context is done
          listener,     \* the listener is open
          serve,        \* where Serve is
          conn,         \* where handleConn is with each connection
          sock,         \* its transport works
          deadline,     \* its transport has a deadline
          cancelled,    \* its own cancel was called
          opened,       \* how many channels the client has asked for
          queue,        \* those not yet received from chans
          handlers      \* the channel handlers that run

serverVars == <<shutdown, listener, serve>>
channelVars == <<opened, queue, handlers>>
vars == <<serverVars, conn, sock, deadline, cancelled, channelVars>>

TypeOK == /\ shutdown \in BOOLEAN /\ listener \in BOOLEAN
          /\ serve \in {"accept", "wait", "returned"}
          /\ conn \in [Conn -> {"none", "handshake", "greeted", "serving", "waiting", "done"}]
          /\ sock \in [Conn -> BOOLEAN] /\ deadline \in [Conn -> BOOLEAN]
          /\ cancelled \in [Conn -> BOOLEAN]
          /\ opened \in [Conn -> 0..MaxChannels] /\ queue \in [Conn -> 0..MaxChannels]
          /\ handlers \in [Conn -> 0..MaxChannels]

Init == /\ shutdown = FALSE /\ listener = TRUE /\ serve = "accept"
        /\ conn = [c \in Conn |-> "none"]
        /\ sock = [c \in Conn |-> FALSE] /\ deadline = [c \in Conn |-> FALSE]
        /\ cancelled = [c \in Conn |-> FALSE]
        /\ opened = [c \in Conn |-> 0] /\ queue = [c \in Conn |-> 0]
        /\ handlers = [c \in Conn |-> 0]

Active(c) == conn[c] \notin {"none", "done"}

(* The context of the connection is derived from Serve's.                   *)
Done(c) == shutdown \/ cancelled[c]

-----------------------------------------------------------------------------
(* Serve.                                                                   *)
Shutdown == /\ ~shutdown
            /\ shutdown' = TRUE
            /\ UNCHANGED <<listener, serve, conn, sock, deadline, cancelled, channelVars>>

CloseListener == /\ shutdown /\ listener
                 /\ listener' = FALSE
                 /\ UNCHANGED <<shutdown, serve, conn, sock, deadline, cancelled, channelVars>>

(* A connection may still be accepted between the signal and the close.     *)
Accept(c) == /\ serve = "accept" /\ listener /\ conn[c] = "none"
             /\ conn' = [conn EXCEPT ![c] = "handshake"]
             /\ sock' = [sock EXCEPT ![c] = TRUE]
             /\ deadline' = [deadline EXCEPT ![c] = TRUE]
             /\ UNCHANGED <<serverVars, cancelled, channelVars>>

(* Accept fails when the listener is closed, and may fail before; the error *)
(* ends the loop only when the context is done.                             *)
AcceptFails == /\ serve = "accept" /\ shutdown
               /\ serve' = "wait"
               /\ UNCHANGED <<shutdown, listener, conn, sock, deadline, cancelled, channelVars>>

(* Mutant of ServeReturns: connections.Wait is missing.                     *)
ServeReturnsAtOnce == /\ serve = "wait"
                      /\ serve' = "returned"
                      /\ UNCHANGED <<shutdown, listener, conn, sock, deadline, cancelled, channelVars>>

ServeReturns == /\ serve = "wait" /\ \A c \in Conn : ~Active(c)
                /\ serve' = "returned"
                /\ UNCHANGED <<shutdown, listener, conn, sock, deadline, cancelled, channelVars>>

-----------------------------------------------------------------------------
(* handleConn.                                                              *)
Leaves(c) == /\ conn' = [conn EXCEPT ![c] = "done"]
             /\ sock' = [sock EXCEPT ![c] = FALSE]
             /\ cancelled' = [cancelled EXCEPT ![c] = TRUE]
             /\ UNCHANGED <<serverVars, deadline, channelVars>>

(* ssh.NewServerConn fails: an unknown key, a client that speaks nonsense or *)
(* nothing, a transport that was closed.                                    *)
HandshakeFails(c) == conn[c] = "handshake" /\ Leaves(c)

HandshakeSucceeds(c) == /\ conn[c] = "handshake" /\ sock[c]
                        /\ conn' = [conn EXCEPT ![c] = "greeted"]
                        /\ UNCHANGED <<serverVars, sock, deadline, cancelled, channelVars>>

ClearDeadline(c) == /\ conn[c] = "greeted"
                    /\ conn' = [conn EXCEPT ![c] = "serving"]
                    /\ deadline' = [deadline EXCEPT ![c] = FALSE]
                    /\ UNCHANGED <<serverVars, sock, cancelled, channelVars>>

(* A channel is received: its handler starts, or its type is refused.       *)
NewChannel(c, known) ==
    /\ conn[c] = "serving" /\ queue[c] > 0
    /\ queue' = [queue EXCEPT ![c] = @ - 1]
    /\ handlers' = [handlers EXCEPT ![c] = IF known THEN @ + 1 ELSE @]
    /\ UNCHANGED <<serverVars, conn, sock, deadline, cancelled, opened>>

(* chans is closed and empty: cancel.                                       *)
ChannelsEnd(c) == /\ conn[c] = "serving" /\ queue[c] = 0 /\ ~sock[c]
                  /\ conn' = [conn EXCEPT ![c] = "waiting"]
                  /\ cancelled' = [cancelled EXCEPT ![c] = TRUE]
                  /\ UNCHANGED <<serverVars, sock, deadline, channelVars>>

(* Mutant of ConnReturns: channels.Wait is missing.                         *)
ConnReturnsAtOnce(c) == conn[c] = "waiting" /\ Leaves(c)

ConnReturns(c) == conn[c] = "waiting" /\ handlers[c] = 0 /\ Leaves(c)

HandlerReturns(c) == /\ handlers[c] > 0
                     /\ handlers' = [handlers EXCEPT ![c] = @ - 1]
                     /\ UNCHANGED <<serverVars, conn, sock, deadline, cancelled, opened, queue>>

(* The transport is closed: by the client, the network or the deadline ...  *)
Drops(c) == /\ sock[c]
            /\ sock' = [sock EXCEPT ![c] = FALSE]
            /\ UNCHANGED <<serverVars, conn, deadline, cancelled, channelVars>>
DeadlinePasses(c) == deadline[c] /\ Drops(c)

(* Mutant of ContextCloses: only the connection's own cancel is seen.       *)
ContextClosesOwn(c) == cancelled[c] /\ Drops(c)

(* ... or by the goroutine that waits for the context.                      *)
ContextCloses(c) == Done(c) /\ Drops(c)

(* sshConn.Wait returns: cancel.                                            *)
WaitCancels(c) == /\ conn[c] \in {"serving", "waiting"} /\ ~sock[c] /\ ~cancelled[c]
                  /\ cancelled' = [cancelled EXCEPT ![c] = TRUE]
                  /\ UNCHANGED <<serverVars, conn, sock, deadline, channelVars>>

ClientOpens(c) == /\ conn[c] \in {"greeted", "serving"} /\ sock[c] /\ opened[c] < MaxChannels
                  /\ opened' = [opened EXCEPT ![c] = @ + 1]
                  /\ queue' = [queue EXCEPT ![c] = @ + 1]
                  /\ UNCHANGED <<serverVars, conn, sock, deadline, cancelled, handlers>>

ConnStep(c) == \/ ClearDeadline(c) \/ ChannelsEnd(c) \/ ConnReturns(c)
               \/ \E known \in BOOLEAN : NewChannel(c, known)
Step(c) == \/ Accept(c) \/ HandshakeFails(c) \/ HandshakeSucceeds(c) \/ ConnStep(c)
           \/ HandlerReturns(c) \/ Drops(c) \/ DeadlinePasses(c) \/ ContextCloses(c)
           \/ WaitCancels(c) \/ ClientOpens(c)
ServeStep == CloseListener \/ ServeReturns \/ (~listener /\ AcceptFails)

Next == Shutdown \/ ServeStep \/ AcceptFails \/ \E c \in Conn : Step(c)

(* Runnable goroutines run and the deadline passes; a handshake over a      *)
(* closed transport fails, its look at GitHub being bounded; a handler      *)
(* returns when its connection is over.  Nothing is assumed of the clients. *)
Fairness == /\ WF_vars(ServeStep)
            /\ \A c \in Conn : /\ WF_vars(ConnStep(c)) /\ WF_vars(ContextCloses(c))
                               /\ WF_vars(DeadlinePasses(c)) /\ WF_vars(WaitCancels(c))
                               /\ WF_vars(~sock[c] /\ HandshakeFails(c))
                               /\ WF_vars(Done(c) /\ ~sock[c] /\ HandlerReturns(c))

Spec == Init /\ [][Next]_vars /\ Fairness

-----------------------------------------------------------------------------
(* "The proxy waits for connection cleanup on shutdown" (docs/adr/004, line *)
(* 44): when Serve has returned, and the process is about to exit, no       *)
(* handler runs on any connection, even on one that was accepted or a       *)
(* channel that was received after the signal.                              *)
ServeReturnsLast == serve = "returned" =>
    \A c \in Conn : handlers[c] = 0 /\ ~sock[c] /\ conn[c] \in {"none", "done"}

(* "Bound unauthenticated connections" (server.go:124): no client stays in  *)
(* the handshake for ever; a connection whose transport is gone ends, with  *)
(* all its handlers; and a signal ends Serve.                               *)
ConnectionsEnd == /\ \A c \in Conn : /\ conn[c] = "handshake" ~> conn[c] # "handshake"
                                     /\ Active(c) /\ ~sock[c] ~> conn[c] = "done" /\ handlers[c] = 0
                  /\ shutdown ~> serve = "returned"

=============================================================================
