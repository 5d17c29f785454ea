---------------------------- MODULE KubeForward ----------------------------
(***************************************************************************)
(* Forwarding over the Kubernetes API: the second half of Manager.Forward  *)
(* of internal/k8s/portfwd.go.  One SPDY connection carries a stream for   *)
(* the data and one for the kubelet's errors; the body selects among the   *)
(* completions of the readers and copiers of both, and its context.        *)
(***************************************************************************)
EXTENDS ForwardChannel

VARIABLES errors,       \* the error stream, and how the kubelet ended it
          errorResult,  \* what its reader has sent
          reset         \* data.Reset

kubeVars == <<errors, errorResult, reset>>

KubeTypeOK == /\ errors \in {"none", "open", "clean", "message"}
              /\ errorResult \in {"none", "nil", "error"} /\ reset \in BOOLEAN

KubeInit == errors = "none" /\ errorResult = "none" /\ reset = FALSE

BodyFrame == UNCHANGED <<handlerVars, clientVars, buffered, cancelled, unread, remoteEOF, eofSent, broken>>
Leave(r) == Return(r) /\ conn' = "closed"

(* spdy.Negotiate: no connection, or one with another protocol; otherwise   *)
(* the function that closes it is armed.                                    *)
Negotiate(ok) == /\ at = "negotiate"
                 /\ IF ok
                    THEN Goto("errorStream") /\ conn' = "open" /\ closer' = "armed"
                    ELSE Return("error") /\ UNCHANGED <<conn, closer>>
                 /\ UNCHANGED <<kubeVars, input, output>> /\ BodyFrame

KubeCloserRuns == /\ closer = "fired"
                  /\ closer' = "ran" /\ conn' = "closed"
                  /\ UNCHANGED <<kubeVars, progress, input, output>> /\ BodyFrame

CreateErrorStream(ok) == /\ at = "errorStream" /\ (ok => conn = "open")
                         /\ IF ok
                            THEN Goto("dataStream") /\ errors' = "open" /\ UNCHANGED conn
                            ELSE Leave("error") /\ UNCHANGED errors
                         /\ UNCHANGED <<errorResult, reset, closer, input, output>> /\ BodyFrame

CreateDataStream(ok) == /\ at = "dataStream" /\ (ok => conn = "open")
                        /\ IF ok
                           THEN Goto("select") /\ input' = "copying" /\ output' = "copying" /\ UNCHANGED conn
                           ELSE Leave("error") /\ UNCHANGED <<input, output>>
                        /\ UNCHANGED <<kubeVars, closer>> /\ BodyFrame

-----------------------------------------------------------------------------
(* The reader of the error stream, and the copiers.                         *)
GoFrame == UNCHANGED <<handlerVars, clientVars, cancelled, progress, conn, closer,
                       unread, remoteEOF, eofSent, broken, errors, reset>>

ReadErrors == /\ errors # "none" /\ errorResult = "none"
              /\ \/ errors = "clean" /\ errorResult' = "nil"
                 \/ errors = "message" /\ errorResult' = "error"
                 \/ errors = "open" /\ conn = "closed" /\ errorResult' \in {"nil", "error"}
              /\ UNCHANGED <<buffered, input, output>> /\ GoFrame

DataGone == conn = "closed" \/ reset

CopyData == /\ input = "copying" /\ buffered > 0 /\ ~DataGone
            /\ buffered' = buffered - 1
            /\ UNCHANGED <<errorResult, input, output>> /\ GoFrame

(* data.Close, and localError only for an error.                            *)
DataInputEnds == /\ input = "copying"
                 /\ \/ buffered = 0 /\ (clientEOF \/ ~clientOpen) /\ input' = "ok"
                    \/ buffered > 0 /\ DataGone /\ input' = "error"
                 /\ UNCHANGED <<errorResult, buffered, output>> /\ GoFrame

DataOutputEnds == /\ output = "copying"
                  /\ \/ unread = 0 /\ remoteEOF /\ output' = "ok"
                     \/ DataGone /\ output' \in {"ok", "error"}
                     \/ unread > 0 /\ ~clientOpen /\ output' = "error"
                  /\ UNCHANGED <<errorResult, buffered, input>> /\ GoFrame

-----------------------------------------------------------------------------
(* The selects.                                                             *)
SelectFrame == UNCHANGED <<errors, errorResult, closer, input, output>> /\ BodyFrame

SelectDone == /\ at \in {"select", "afterRemote", "afterError"} /\ cancelled
              /\ Leave("cancelled")
              /\ UNCHANGED reset /\ SelectFrame

SelectLocal == /\ at \in {"select", "afterError"} /\ input = "error"
               /\ Leave("error")
               /\ UNCHANGED reset /\ SelectFrame

(* Mutant of SelectRemote: does not wait for the kubelet's verdict.         *)
SelectRemoteOnly == /\ at = "select" /\ output \in {"ok", "error"}
                    /\ Leave(output)
                    /\ UNCHANGED reset /\ SelectFrame

SelectRemote == /\ at = "select" /\ output \in {"ok", "error"}
                /\ Goto("afterRemote")
                /\ reset' = TRUE
                /\ UNCHANGED conn /\ SelectFrame

AfterRemote == /\ at = "afterRemote" /\ errorResult # "none"
               /\ Leave(IF errorResult = "error" THEN "error" ELSE output)
               /\ UNCHANGED reset /\ SelectFrame

SelectErrors == /\ at = "select" /\ errorResult # "none"
                /\ IF errorResult = "error"
                   THEN Leave("error")
                   ELSE Goto("afterError") /\ UNCHANGED conn
                /\ UNCHANGED reset /\ SelectFrame

AfterError == /\ at = "afterError" /\ output \in {"ok", "error"}
              /\ Leave(output)
              /\ UNCHANGED reset /\ SelectFrame

-----------------------------------------------------------------------------
(* The kubelet ends the error stream, empty when the port was reached; the  *)
(* connection may break.                                                    *)
KubeletEnds(how) == /\ errors = "open" /\ conn = "open"
                    /\ errors' = how
                    /\ UNCHANGED <<baseVars, errorResult, reset>>

KubeBreaks == /\ conn = "open" /\ at # "returned"
              /\ conn' = "closed" /\ broken' = TRUE
              /\ UNCHANGED <<handlerVars, clientVars, buffered, cancelled, progress, closer,
                             input, output, unread, remoteEOF, eofSent, kubeVars>>

ReaderStep == ReadErrors \/ DataInputEnds \/ DataOutputEnds
Select == SelectDone \/ SelectLocal \/ SelectRemote \/ SelectErrors \/ AfterRemote \/ AfterError

KubeStep == \/ \E ok \in BOOLEAN : Negotiate(ok) \/ CreateErrorStream(ok) \/ CreateDataStream(ok)
            \/ KubeCloserRuns \/ ReaderStep \/ CopyData \/ Select
            \/ \E how \in {"clean", "message"} : KubeletEnds(how)
            \/ KubeBreaks
            \/ (CloserFires \/ CopyOutput) /\ UNCHANGED kubeVars
            \/ /\ output # "none" /\ ~DataGone
               /\ ServiceWrites \/ ServiceEnds
               /\ UNCHANGED kubeVars
=============================================================================
