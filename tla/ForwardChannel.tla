--------------------------- MODULE ForwardChannel ---------------------------
(***************************************************************************)
(* What both backends of a direct-tcpip channel share: the client's end of *)
(* it, the handler handleDirectTCPIP of internal/server/portfwd.go, the    *)
(* transport towards the pod and the two copiers.  SSHForward and          *)
(* KubeForward are the two bodies of Manager.Forward.                      *)
(***************************************************************************)
EXTENDS Naturals

CONSTANTS Width,        \* a port has 16 bits: 2^16
          MaxBuffer     \* bound on the data waiting in each buffer

ASSUME ForwardAssumption == Width \in Nat \ {0} /\ MaxBuffer \in Nat \ {0}

VARIABLES direct,       \* DirectSSHEnabled
          target,       \* the destination the client asks for
          port,         \* the port passed to Forward
          handler, lease,
          clientOpen,   \* the client has not closed and is connected
          clientEOF,    \* the client has ended its input
          buffered,     \* its input that the proxy has and has not copied
          cancelled,    \* the handler's context is done
          at, result,   \* where Forward is and what it returns
          conn,         \* the transport towards the pod
          closer,       \* context.AfterFunc(ctx, close the transport)
          input, output,    \* the copiers; "ok" and "error" are their results
          unread,       \* output the proxy has and has not copied
          remoteEOF,    \* the service has ended its output
          eofSent,      \* the client has been told so
          broken,       \* ghost: the transport or the service failed
          polite        \* ghost: the client closed after it saw that end

handlerVars == <<direct, target, port, handler, lease>>
clientVars == <<clientOpen, clientEOF, polite>>
progress == <<at, result>>
streamVars == <<conn, closer, input, output, unread, remoteEOF, eofSent, broken>>
baseVars == <<handlerVars, clientVars, buffered, cancelled, progress, streamVars>>

Target == [loopback : BOOLEAN, port : 0..2 * Width]
Copier == {"none", "copying", "marked", "closing", "ok", "error"}
Place == {"idle", "returned"} \cup {"dial", "handshake", "checkDial", "open", "checkCtx", "loop"}
           \cup {"negotiate", "errorStream", "dataStream", "select", "afterRemote", "afterError"}

BaseTypeOK ==
    /\ direct \in BOOLEAN /\ target \in Target /\ port \in 0..Width - 1
    /\ handler \in {"start", "acquire", "forward", "done"}
    /\ lease \in {"none", "held", "released"}
    /\ clientOpen \in BOOLEAN /\ clientEOF \in BOOLEAN /\ polite \in BOOLEAN
    /\ buffered \in 0..MaxBuffer /\ cancelled \in BOOLEAN
    /\ at \in Place /\ result \in {"none", "ok", "error", "cancelled"}
    /\ conn \in {"none", "open", "closed"} /\ closer \in {"off", "armed", "fired", "ran"}
    /\ input \in Copier /\ output \in Copier /\ unread \in 0..MaxBuffer
    /\ remoteEOF \in BOOLEAN /\ eofSent \in BOOLEAN /\ broken \in BOOLEAN

BaseInit ==
    /\ direct \in BOOLEAN /\ target \in Target /\ port = 0
    /\ handler = "start" /\ lease = "none"
    /\ clientOpen = TRUE /\ clientEOF = FALSE /\ polite = FALSE
    /\ buffered = 0 /\ cancelled = FALSE
    /\ at = "idle" /\ result = "none"
    /\ conn = "none" /\ closer = "off" /\ input = "none" /\ output = "none"
    /\ unread = 0 /\ remoteEOF = FALSE /\ eofSent = FALSE /\ broken = FALSE

-----------------------------------------------------------------------------
(* The client.                                                              *)
ClientFrame == UNCHANGED <<handlerVars, progress, streamVars>>

ClientSends == /\ clientOpen /\ ~clientEOF /\ buffered < MaxBuffer
               /\ buffered' = buffered + 1
               /\ UNCHANGED <<clientVars, cancelled>> /\ ClientFrame

ClientEOF == /\ clientOpen /\ ~clientEOF
             /\ clientEOF' = TRUE
             /\ UNCHANGED <<clientOpen, polite, buffered, cancelled>> /\ ClientFrame

(* It closes the channel; or the connection is lost or the server stops,    *)
(* which ends the context of the connection as well.                        *)
ClientLeaves(connectionToo) ==
    /\ clientOpen
    /\ clientOpen' = FALSE
    /\ polite' = (eofSent /\ ~cancelled)
    /\ cancelled' = (cancelled \/ connectionToo)
    /\ UNCHANGED <<clientEOF, buffered>> /\ ClientFrame

-----------------------------------------------------------------------------
(* handleDirectTCPIP.                                                       *)

(* Mutant of ValidTarget: one port too many.                                *)
ValidTargetWide == target.loopback /\ target.port > 0 /\ target.port <= Width

ValidTarget == target.loopback /\ target.port > 0 /\ target.port < Width

HandlerFrame == UNCHANGED <<clientVars, buffered, streamVars, direct, target>>

(* The other rejection, of an attacher that cannot forward, has the same    *)
(* outcome and is not made: the program's only attacher is the Manager.     *)
Reject == /\ handler = "start" /\ ~ValidTarget
          /\ handler' = "done"
          /\ UNCHANGED <<port, lease, cancelled, progress>> /\ HandlerFrame

Accept == /\ handler = "start" /\ ValidTarget
          /\ handler' = "acquire"
          /\ port' = target.port % Width
          /\ UNCHANGED <<lease, cancelled, progress>> /\ HandlerFrame

(* DiscardRequests ends when the channel is closed.                         *)
RequestsEnd == /\ handler \in {"acquire", "forward"} /\ ~clientOpen /\ ~cancelled
               /\ cancelled' = TRUE
               /\ UNCHANGED <<handler, port, lease, progress>> /\ HandlerFrame

Acquire(ok) == /\ handler = "acquire"
               /\ IF ok
                  THEN /\ handler' = "forward" /\ lease' = "held"
                       /\ at' = IF direct THEN "dial" ELSE "negotiate"
                       /\ UNCHANGED cancelled
                  ELSE handler' = "done" /\ cancelled' = TRUE /\ UNCHANGED <<lease, at>>
               /\ UNCHANGED <<port, result>> /\ HandlerFrame

(* Forward has returned; the deferred release, cancel and Close.            *)
Finish == /\ handler = "forward" /\ at = "returned"
          /\ handler' = "done" /\ lease' = "released" /\ cancelled' = TRUE
          /\ UNCHANGED <<port, progress>> /\ HandlerFrame

HandlerStep == Reject \/ Accept \/ RequestsEnd \/ Finish \/ \E ok \in BOOLEAN : Acquire(ok)
ClientStep == ClientSends \/ ClientEOF \/ \E connectionToo \in BOOLEAN : ClientLeaves(connectionToo)

-----------------------------------------------------------------------------
(* Parts of the two bodies.                                                 *)
Return(r) == at' = "returned" /\ result' = r
Goto(place) == at' = place /\ UNCHANGED result

(* A stop() comes too late for a function that has been started.            *)
Stopped(function) == IF function = "armed" THEN "off" ELSE function

CloserFires == /\ closer = "armed" /\ cancelled
               /\ closer' = "fired"
               /\ UNCHANGED <<conn, input, output, unread, remoteEOF, eofSent, broken>>
               /\ UNCHANGED <<handlerVars, clientVars, buffered, cancelled, progress>>

(* The service in the pod writes and ends its output.                       *)
ServiceFrame == UNCHANGED <<handlerVars, clientVars, buffered, cancelled, progress,
                            conn, closer, input, output, eofSent, broken>>
ServiceWrites == /\ unread < MaxBuffer /\ ~remoteEOF
                 /\ unread' = unread + 1
                 /\ UNCHANGED remoteEOF /\ ServiceFrame
ServiceEnds == /\ ~remoteEOF
               /\ remoteEOF' = TRUE
               /\ UNCHANGED unread /\ ServiceFrame

(* io.Copy writes output to the channel.                                    *)
CopyOutput == /\ output = "copying" /\ unread > 0 /\ clientOpen
              /\ unread' = unread - 1
              /\ UNCHANGED <<handlerVars, clientVars, buffered, cancelled, progress,
                             conn, closer, input, output, remoteEOF, eofSent, broken>>
=============================================================================
