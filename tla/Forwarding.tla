----------------------------- MODULE Forwarding -----------------------------
(***************************************************************************)
(* A direct-tcpip channel as a whole: handleDirectTCPIP, and Forward with  *)
(* the backend that DirectSSHEnabled selects.                              *)
(***************************************************************************)
EXTENDS SSHForward, KubeForward

vars == <<baseVars, sshVars, kubeVars>>

TypeOK == BaseTypeOK /\ SSHTypeOK /\ KubeTypeOK
Init == BaseInit /\ SSHInit /\ KubeInit

Around == (ClientStep \/ HandlerStep) /\ UNCHANGED <<sshVars, kubeVars>>
ForwardSSH == direct /\ SSHStep /\ UNCHANGED kubeVars
Forward == ~direct /\ KubeStep /\ UNCHANGED sshVars

Next == Around \/ ForwardSSH \/ Forward

Safety == Init /\ [][Next]_vars

(* Runnable goroutines run, timers fire and the dial is bounded.  A channel *)
(* may stay unopened until the transport is closed.  The API server is      *)
(* assumed to answer the requests of the setup: the code does not bound the *)
(* answer to the upgrade in spdy.Negotiate (k8s/portfwd.go:35).  Nothing is *)
(* assumed of the client, the pod or the kubelet afterwards: input, output  *)
(* and completions may stay away for ever.                                  *)
Fairness ==
    /\ WF_vars(HandlerStep /\ UNCHANGED <<sshVars, kubeVars>>)
    /\ WF_vars(direct /\ DialStep /\ UNCHANGED kubeVars)
    /\ WF_vars(direct /\ conn = "closed" /\ OpenChannel(FALSE) /\ UNCHANGED kubeVars)
    /\ WF_vars(direct /\ CopierEnds /\ UNCHANGED kubeVars)
    /\ WF_vars(direct /\ LoopStep /\ UNCHANGED kubeVars)
    /\ WF_vars(CloserFires /\ UNCHANGED <<sshVars, kubeVars>>)
    /\ WF_vars(~direct /\ (Select \/ ReaderStep \/ KubeCloserRuns) /\ UNCHANGED sshVars)
    /\ WF_vars(~direct /\ \E ok \in BOOLEAN : (Negotiate(ok) \/ CreateErrorStream(ok) \/ CreateDataStream(ok))
                 /\ UNCHANGED sshVars)

Spec == Safety /\ Fairness

-----------------------------------------------------------------------------
(* A workspace is provisioned, and a port dialled, only for a loopback      *)
(* destination, and the 16 bits passed to Forward are the port asked for.   *)
TargetExact == handler \in {"acquire", "forward"} =>
                  target.loopback /\ port = target.port /\ port > 0

-----------------------------------------------------------------------------
(* The abstract view of a forward: the stream to the pod is the sshd's      *)
(* channel or the SPDY connection, and what it reaches is the port on the   *)
(* pod's loopback.  Only the SSH backend has half-close in both directions. *)
Streams == IF direct THEN channel = "open" ELSE conn = "open"
OutputOver == output \in {"ok", "error"}

Use == INSTANCE WorkspaceUse
         WITH Ask <- Target, Allowed <- [loopback : {TRUE}, port : 1..Width - 1], asked <- target,
              client <- IF ~clientOpen THEN "gone" ELSE IF clientEOF THEN "ended" ELSE "writes",
              attached <- IF Streams THEN {[loopback |-> TRUE, port |-> port]} ELSE {},
              halfClose <- direct, outputEnded <- OutputOver,
              inputEnded <- IF direct THEN inputEOF ELSE input \in {"ok", "error"},
              told <- handler = "done"

(* A forward uses its workspace as every channel must, over either backend: *)
(* it reaches the destination asked for and no other, and its stream is     *)
(* closed before the lease is free and the client's channel closed.  Over   *)
(* SSH the end of the output leaves the input of a client that still writes *)
(* alone: the copiers of forwardSSH end independently (ssh.go:210-224).     *)
(* Over the API it does not: data.Reset (k8s/portfwd.go:83) takes the input *)
(* away, but not before the output has ended.                               *)
ImplementsUse == Use!UseSafety

(* The functions and the deadline that guard the setup never reach into the *)
(* stream: once it runs, only a failure closes its transport.               *)
SetupLeavesTransport == direct /\ at = "loop" /\ conn = "closed" => broken

(* "Preserve them and await the backend's CLOSE before dropping that        *)
(* transport" (ssh.go:235-236): a client that leaves after the end of the   *)
(* output loses no input, wherever it is buffered, unless the backend fails *)
(* or the five seconds run out.                                             *)
InputDrained == direct /\ polite /\ at = "returned" =>
    \/ broken \/ drain = "expired"
    \/ result = "ok" /\ buffered = 0 /\ queued = 0

(* A forward over the API ends well only after all output was copied and    *)
(* the kubelet has ended the error stream without a message, whichever of   *)
(* the completions the select took first.  Two exceptions: when the SPDY    *)
(* connection breaks, or the cancelled context has closed it, both reads    *)
(* can end as at a normal EOF, and the nil that Forward returns then hides  *)
(* that output was lost (k8s/portfwd.go:77-105).                            *)
NothingLostOrHidden == ~direct /\ result = "ok" =>
    \/ broken \/ closer = "ran"
    \/ unread = 0 /\ remoteEOF /\ errors = "clean"

(* A forward whose client has left ends and frees the lease and all its     *)
(* goroutines, whatever the pod does.                                       *)
ForwardEnds == ~clientOpen ~> /\ handler = "done" /\ lease # "held"
                              /\ input # "copying" /\ output \in {"none", "ok", "error"}

(* Without any cancellation, a forward over SSH ends when the client has    *)
(* ended its input and the sshd has closed the channel.                     *)
CompletionsArrive == (direct /\ at = "loop" /\ clientEOF /\ channel = "closed" /\ unread = 0 /\ buffered = 0)
                        ~> at = "returned"

=============================================================================
