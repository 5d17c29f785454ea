----------------------------- MODULE SSHForward -----------------------------
(***************************************************************************)
(* Forwarding over the SSH backend: OpenWorkspaceSSH and forwardSSH of     *)
(* internal/k8s/ssh.go.  Beside the body run the functions started by the  *)
(* two contexts, the copiers, and the sshd of the pod, which passes input  *)
(* on to the service and closes the channel when both directions ended.    *)
(***************************************************************************)
EXTENDS ForwardChannel

VARIABLES dialDone,     \* dialCtx has timed out or was cancelled
          dialCloser,   \* context.AfterFunc(dialCtx, conn.Close)
          deadline,     \* the connection has a deadline
          channel,      \* the direct-tcpip channel to the sshd
          inputEOF,     \* conn.CloseWrite: the sshd knows the input has ended
          queued,       \* input the sshd has and has not written to the service
          outputEOF,    \* the atomic flag
          waiting,      \* the completion channels that are not nil
          drain         \* the drain timer

dialVars == <<dialDone, dialCloser, deadline>>
sshdVars == <<channel, inputEOF, queued>>
loopVars == <<outputEOF, waiting, drain>>
sshVars == <<dialVars, sshdVars, loopVars>>

SSHTypeOK ==
    /\ dialDone \in BOOLEAN /\ dialCloser \in {"off", "armed", "fired", "ran"}
    /\ deadline \in BOOLEAN /\ channel \in {"none", "open", "closed"}
    /\ inputEOF \in BOOLEAN /\ queued \in 0..MaxBuffer /\ outputEOF \in BOOLEAN
    /\ waiting \subseteq {"input", "output", "closed"}
    /\ drain \in {"off", "running", "expired"}

SSHInit == /\ dialDone = FALSE /\ dialCloser = "off" /\ deadline = FALSE
           /\ channel = "none" /\ inputEOF = FALSE /\ queued = 0
           /\ outputEOF = FALSE /\ waiting = {"input", "output", "closed"} /\ drain = "off"

(* Closing the transport closes the channel.                                *)
CloseConn == /\ conn' = "closed"
             /\ channel' = IF channel = "open" THEN "closed" ELSE channel
KeepConn == UNCHANGED <<conn, channel>>

-----------------------------------------------------------------------------
(* OpenWorkspaceSSH.                                                        *)
SetupFrame == UNCHANGED <<handlerVars, clientVars, buffered, cancelled,
                          unread, remoteEOF, eofSent, broken, inputEOF, queued, loopVars>>

Dial(ok) == /\ at = "dial"
            /\ IF ok
               THEN /\ Goto("handshake")
                    /\ conn' = "open" /\ dialCloser' = "armed" /\ deadline' = TRUE
               ELSE Return("error") /\ UNCHANGED <<conn, dialCloser, deadline>>
            /\ UNCHANGED <<dialDone, channel, closer, input, output>> /\ SetupFrame

(* The 15 seconds of dialCtx are over.                                      *)
DialTimeout == /\ at \in {"dial", "handshake", "checkDial"} /\ ~dialDone
               /\ dialDone' = TRUE
               /\ UNCHANGED <<dialCloser, deadline, progress, closer, input, output>>
               /\ KeepConn /\ SetupFrame

DialCloserFires == /\ dialCloser = "armed" /\ (cancelled \/ dialDone)
                   /\ dialCloser' = "fired"
                   /\ UNCHANGED <<dialDone, deadline, progress, closer, input, output>>
                   /\ KeepConn /\ SetupFrame

DialCloserRuns == /\ dialCloser = "fired"
                  /\ dialCloser' = "ran"
                  /\ CloseConn
                  /\ UNCHANGED <<dialDone, deadline, progress, closer, input, output>> /\ SetupFrame

(* The deadline passes: every later use of the connection fails.            *)
DeadlinePasses == /\ deadline /\ conn = "open"
                  /\ CloseConn
                  /\ UNCHANGED <<dialVars, progress, closer, input, output>> /\ SetupFrame

(* ssh.NewClientConn and stop().                                            *)
Handshake(ok) == /\ at = "handshake" /\ (ok => conn = "open")
                 /\ dialCloser' = Stopped(dialCloser)
                 /\ IF ok
                    THEN Goto("checkDial") /\ KeepConn
                    ELSE Return("error") /\ CloseConn
                 /\ UNCHANGED <<dialDone, deadline, closer, input, output>> /\ SetupFrame

(* Mutant of DialExpired: the check is left out.                            *)
DialNeverExpired == FALSE
DialExpired == cancelled \/ dialDone

(* The client is handed over, or refused because dialCtx is done; forwardSSH *)
(* then arms its own function.                                              *)
CheckDial == /\ at = "checkDial"
             /\ IF DialExpired
                THEN Return("error") /\ CloseConn /\ UNCHANGED <<deadline, closer>>
                ELSE Goto("open") /\ deadline' = FALSE /\ closer' = "armed" /\ KeepConn
             /\ dialDone' = TRUE
             /\ UNCHANGED <<dialCloser, input, output>> /\ SetupFrame

-----------------------------------------------------------------------------
(* forwardSSH.                                                              *)
CloserRuns == /\ closer = "fired"
              /\ closer' = "ran"
              /\ CloseConn
              /\ UNCHANGED <<dialVars, progress, input, output>> /\ SetupFrame

(* OpenChannel and stop().                                                  *)
OpenChannel(ok) == /\ at = "open" /\ (ok => conn = "open")
                   /\ closer' = Stopped(closer)
                   /\ IF ok
                      THEN Goto("checkCtx") /\ channel' = "open" /\ UNCHANGED conn
                      ELSE Return("error") /\ CloseConn
                   /\ UNCHANGED <<dialVars, input, output>> /\ SetupFrame

CheckCtx == /\ at = "checkCtx"
            /\ IF cancelled
               THEN Return("cancelled") /\ CloseConn /\ UNCHANGED <<input, output>>
               ELSE Goto("loop") /\ input' = "copying" /\ output' = "copying" /\ KeepConn
            /\ UNCHANGED <<dialVars, closer>> /\ SetupFrame

(* The copiers.                                                             *)
CopyFrame == UNCHANGED <<handlerVars, clientVars, cancelled, progress, conn, closer,
                         remoteEOF, broken, dialVars, channel, waiting, drain>>
InputFrame == UNCHANGED <<output, unread, eofSent, outputEOF>> /\ CopyFrame

CopyInput == /\ input = "copying" /\ buffered > 0 /\ channel = "open" /\ queued < MaxBuffer
             /\ buffered' = buffered - 1 /\ queued' = queued + 1
             /\ UNCHANGED <<input, inputEOF>> /\ InputFrame

(* The input ends with the client's, or with a write to a closed channel.   *)
InputEnds == /\ input = "copying"
             /\ \/ buffered = 0 /\ (clientEOF \/ ~clientOpen) /\ input' = "ok"
                \/ buffered > 0 /\ channel = "closed" /\ input' = "error"
             /\ inputEOF' = TRUE
             /\ UNCHANGED <<buffered, queued>> /\ InputFrame

OutputFrame == UNCHANGED <<input, buffered, unread, inputEOF, queued>> /\ CopyFrame

(* Mutant of OutputEnds: the flag is not set.                               *)
OutputEndsUnmarked == /\ output = "copying" /\ unread = 0 /\ (remoteEOF \/ channel = "closed")
                      /\ output' = "marked"
                      /\ UNCHANGED <<eofSent, outputEOF>> /\ OutputFrame

(* The flag is set, the client told, and then the loop.                     *)
OutputEnds == /\ output = "copying" /\ unread = 0 /\ (remoteEOF \/ channel = "closed")
              /\ output' = "marked"
              /\ outputEOF' = TRUE
              /\ UNCHANGED eofSent /\ OutputFrame

OutputCloses == /\ output = "marked"
                /\ output' = "closing"
                /\ eofSent' = TRUE
                /\ UNCHANGED outputEOF /\ OutputFrame

OutputReports == /\ \/ output = "closing" /\ output' = "ok"
                    \/ output = "copying" /\ unread > 0 /\ ~clientOpen /\ output' = "error"
                 /\ UNCHANGED <<eofSent, outputEOF>> /\ OutputFrame

(* The loop.                                                                *)
LoopFrame == UNCHANGED <<handlerVars, clientVars, buffered, cancelled, closer, input, output,
                         unread, remoteEOF, eofSent, broken, dialVars, inputEOF, queued, outputEOF>>
Leaves(r) == Return(r) /\ CloseConn /\ UNCHANGED <<waiting, drain>>

(* Mutant of Completes: the channel is not set to nil.                      *)
CompletesForgotten(c, copier) ==
    /\ at = "loop" /\ c \in waiting /\ copier = "error"
    /\ Leaves("error")
    /\ LoopFrame

(* inputDone or outputDone: an error ends the loop.                         *)
Completes(c, copier) ==
    /\ at = "loop" /\ c \in waiting
    /\ IF copier = "error"
       THEN Leaves("error")
       ELSE copier = "ok" /\ waiting' = waiting \ {c} /\ KeepConn /\ UNCHANGED <<progress, drain>>
    /\ LoopFrame

RemoteClosed == /\ at = "loop" /\ "closed" \in waiting /\ channel = "closed"
                /\ waiting' = waiting \ {"closed"}
                /\ KeepConn /\ UNCHANGED <<progress, drain>> /\ LoopFrame

(* Mutant of LoopCancelled: the drain is not bounded.                       *)
LoopCancelledForever == /\ at = "loop" /\ waiting # {} /\ cancelled /\ ~outputEOF
                        /\ Leaves("cancelled")
                        /\ LoopFrame

LoopCancelled == /\ at = "loop" /\ waiting # {} /\ cancelled /\ drain = "off"
                 /\ IF ~outputEOF
                    THEN Leaves("cancelled")
                    ELSE drain' = "running" /\ KeepConn /\ UNCHANGED <<progress, waiting>>
                 /\ LoopFrame

DrainExpires == /\ at = "loop" /\ waiting # {} /\ drain = "running"
                /\ Return("cancelled") /\ CloseConn /\ drain' = "expired" /\ UNCHANGED waiting
                /\ LoopFrame

LoopEnds == /\ at = "loop" /\ waiting = {}
            /\ Leaves("ok")
            /\ LoopFrame

-----------------------------------------------------------------------------
(* The sshd of the pod.                                                     *)
SshdFrame == UNCHANGED <<handlerVars, clientVars, buffered, cancelled, progress, closer, input, output,
                         unread, remoteEOF, eofSent, dialVars, inputEOF, loopVars>>

SshdFlushes == /\ channel = "open" /\ queued > 0
               /\ queued' = queued - 1
               /\ KeepConn /\ UNCHANGED broken /\ SshdFrame

SshdCloses == /\ channel = "open" /\ inputEOF /\ queued = 0 /\ remoteEOF
              /\ channel' = "closed"
              /\ UNCHANGED <<conn, queued, broken>> /\ SshdFrame

(* The transport breaks, or the service goes away and the sshd closes.      *)
Breaks == /\ conn = "open" /\ at # "returned"
          /\ broken' = TRUE
          /\ CloseConn \/ (channel = "open" /\ channel' = "closed" /\ UNCHANGED conn)
          /\ UNCHANGED queued /\ SshdFrame

DialStep == \/ \E ok \in BOOLEAN : Dial(ok) \/ Handshake(ok)
            \/ DialTimeout \/ DialCloserFires \/ DialCloserRuns \/ DeadlinePasses
            \/ CheckDial \/ CheckCtx \/ CloserRuns
CopierEnds == InputEnds \/ OutputEnds \/ OutputCloses \/ OutputReports
LoopStep == \/ Completes("input", input) \/ Completes("output", output) \/ RemoteClosed
            \/ LoopCancelled \/ DrainExpires \/ LoopEnds

SSHStep == \/ DialStep \/ CopyInput \/ CopierEnds \/ LoopStep
           \/ \E ok \in BOOLEAN : OpenChannel(ok)
           \/ SshdFlushes \/ SshdCloses \/ Breaks
           \/ (CloserFires \/ CopyOutput) /\ UNCHANGED sshVars
           \/ channel = "open" /\ (ServiceWrites \/ ServiceEnds) /\ UNCHANGED sshVars
=============================================================================
