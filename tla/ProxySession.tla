---------------------------- MODULE ProxySession ----------------------------
(***************************************************************************)
(* One session channel of the SSH backend: proxySession and                *)
(* validProxyRequest of internal/server/sshproxy.go.  Between the client   *)
(* and the sshd of the pod work the handler, the reader of the client's    *)
(* requests, the forwarder of the requests, the copier of the input, one   *)
(* copier for each output stream and the function that closes the backend  *)
(* transport when the context is done.  The lease is represented by what   *)
(* acquireWorkspace and release, which always return, leave.               *)
(***************************************************************************)
EXTENDS Naturals, Sequences

CONSTANTS Cap,          \* capacity of pending, 16
          Requests,     \* the requests the client chooses from
          MaxRequests,  \* bound on the requests of the client
          MaxUnread     \* bound on the output received and not yet copied

(* "shell" stands for shell and exec, "bad" for all that is never forwarded: *)
(* a malformed payload, an environment variable, an unknown subsystem.      *)
Request == [type : {"pty", "shell", "sftp", "window", "signal", "bad"}, wantReply : BOOLEAN]

ASSUME ProxyAssumption == /\ Cap \in Nat \ {0} /\ MaxRequests \in Nat /\ MaxUnread \in Nat
                          /\ Requests \subseteq Request

VARIABLES reqs, budget,     \* the client's requests not yet read, and how many may follow
          clientOpen,       \* the client has not closed and is connected
          clientEOF,        \* the client has ended its input
          cancelled,        \* the handler's context is done
          reader, pending,  \* the goroutine that reads reqs, and its channel
          pc, lease,        \* the handler and its lease
          exit, reported,   \* its local exit, and the exit the client was told
          forwarder,        \* the goroutine that forwards requests
          asked,            \* its request that awaits the backend's reply
          started, pty,     \* its locals
          input, inputEOF,  \* the copier of the input, and its CloseWrite
          output,           \* the copier of each output stream
          outputDone,       \* ch.CloseWrite is done and outputDone is closed
          remote,           \* the channel to the backend
          remoteEOF,        \* the backend has ended its output
          unread,           \* output received from it and not yet copied
          remoteExit,       \* its exit request, not yet read by the handler
          granted           \* ghost: terminals and processes it has granted

clientVars == <<reqs, budget, clientOpen, clientEOF>>
readerVars == <<reader, pending>>
handlerVars == <<pc, lease, exit, reported>>
forwardVars == <<forwarder, asked, started, pty>>
copyVars == <<input, inputEOF, output, outputDone>>
remoteVars == <<remote, remoteEOF, unread, remoteExit, granted>>
vars == <<clientVars, cancelled, readerVars, handlerVars, forwardVars, copyVars, remoteVars>>

Stream == {"stdout", "stderr"}
Exit == {"status", "signal"}

TypeOK == /\ reqs \in Seq(Requests) /\ budget \in 0..MaxRequests
          /\ clientOpen \in BOOLEAN /\ clientEOF \in BOOLEAN /\ cancelled \in BOOLEAN
          /\ reader \in {"reading", "ended"}
          /\ pending \in Seq(Requests) /\ Len(pending) <= Cap
          /\ pc \in {"acquire", "dial", "open", "serve", "drain", "complain", "release", "report", "done"}
          /\ lease \in {"none", "held", "released"}
          /\ exit \in Exit \cup {"none"} /\ reported \in Exit \cup {"none", "failure"}
          /\ forwarder \in {"none", "running", "failed", "ended"}
          /\ asked \in Seq(Requests) /\ started \in BOOLEAN /\ pty \in BOOLEAN
          /\ input \in {"none", "copying", "ended"} /\ inputEOF \in BOOLEAN
          /\ output \in [Stream -> {"none", "copying", "ended"}] /\ outputDone \in BOOLEAN
          /\ remote \in {"none", "open", "closed"} /\ remoteEOF \in BOOLEAN
          /\ unread \in [Stream -> 0..MaxUnread] /\ remoteExit \in Exit \cup {"none"}
          /\ granted \in Seq({"pty", "shell", "sftp"})

Init == /\ reqs = <<>> /\ budget = MaxRequests /\ clientOpen = TRUE /\ clientEOF = FALSE
        /\ cancelled = FALSE /\ reader = "reading" /\ pending = <<>>
        /\ pc = "acquire" /\ lease = "none" /\ exit = "none" /\ reported = "none"
        /\ forwarder = "none" /\ asked = <<>> /\ started = FALSE /\ pty = FALSE
        /\ input = "none" /\ inputEOF = FALSE
        /\ output = [s \in Stream |-> "none"] /\ outputDone = FALSE
        /\ remote = "none" /\ remoteEOF = FALSE /\ unread = [s \in Stream |-> 0]
        /\ remoteExit = "none" /\ granted = <<>>

-----------------------------------------------------------------------------
(* The client.                                                              *)
ClientFrame == UNCHANGED <<readerVars, handlerVars, forwardVars, copyVars, remoteVars>>

Send(r) == /\ clientOpen /\ budget > 0
           /\ reqs' = Append(reqs, r) /\ budget' = budget - 1
           /\ UNCHANGED <<clientOpen, clientEOF, cancelled>> /\ ClientFrame

ClientEOF == /\ clientOpen /\ ~clientEOF
             /\ clientEOF' = TRUE
             /\ UNCHANGED <<reqs, budget, clientOpen, cancelled>> /\ ClientFrame

(* It closes the channel; or the connection is lost or the server stops,    *)
(* which ends the context of the connection as well.  That the loss is      *)
(* noticed at once is an idealisation: the SSH library's reader can itself  *)
(* wait for a channel whose buffer of requests is full.                     *)
ClientLeaves(connectionToo) ==
    /\ clientOpen
    /\ clientOpen' = FALSE
    /\ cancelled' = (cancelled \/ connectionToo)
    /\ UNCHANGED <<reqs, budget, clientEOF>> /\ ClientFrame

-----------------------------------------------------------------------------
(* The reader of the client's requests.  A request that does not fit into   *)
(* pending is the head of reqs until it does.                               *)
ReaderFrame == UNCHANGED <<budget, clientOpen, clientEOF, handlerVars, forwardVars, copyVars, remoteVars>>

(* Mutant of HasRoom: one too many.                                         *)
HasRoomForOneMore == Len(pending) <= Cap
HasRoom == Len(pending) < Cap

ReaderPush == /\ reader = "reading" /\ reqs # <<>> /\ HasRoom
              /\ pending' = Append(pending, Head(reqs))
              /\ reqs' = Tail(reqs)
              /\ UNCHANGED <<reader, cancelled>> /\ ReaderFrame

(* Mutant of ReaderEnds: the context is not cancelled.                      *)
ReaderEndsOnly == /\ reader = "reading"
                  /\ \/ reqs = <<>> /\ ~clientOpen
                     \/ reqs # <<>> /\ cancelled
                  /\ reader' = "ended"
                  /\ UNCHANGED <<reqs, pending, cancelled>> /\ ReaderFrame

(* No more requests, or the context is done while one waits for its place;  *)
(* cancel, and close pending.                                               *)
ReaderEnds == /\ reader = "reading"
              /\ \/ reqs = <<>> /\ ~clientOpen
                 \/ reqs # <<>> /\ cancelled
              /\ reader' = "ended"
              /\ cancelled' = TRUE
              /\ UNCHANGED <<reqs, pending>> /\ ReaderFrame

-----------------------------------------------------------------------------
(* The handler.                                                             *)
HandlerFrame == UNCHANGED <<clientVars, readerVars>>
Stay == UNCHANGED <<forwardVars, copyVars, remoteVars, cancelled>> /\ HandlerFrame

Acquire(ok) == /\ pc = "acquire"
               /\ lease' = IF ok THEN "held" ELSE "none"
               /\ pc' = IF ok THEN "dial" ELSE "complain"
               /\ UNCHANGED <<exit, reported>> /\ Stay

(* OpenWorkspaceSSH, which ends within its own bound.                       *)
Dial(ok) == /\ pc = "dial"
            /\ pc' = IF ok THEN "open" ELSE "complain"
            /\ UNCHANGED <<lease, exit, reported>> /\ Stay

OpenFails == /\ pc = "open"
             /\ pc' = "complain"
             /\ UNCHANGED <<lease, exit, reported>> /\ Stay

(* OpenChannel, then start the copiers and the forwarder.                   *)
Opens == /\ pc = "open"
         /\ pc' = "serve"
         /\ remote' = "open"
         /\ forwarder' = "running" /\ input' = "copying"
         /\ output' = [s \in Stream |-> "copying"]
         /\ UNCHANGED <<lease, exit, reported, asked, started, pty, inputEOF, outputDone,
                        remoteEOF, unread, remoteExit, granted, cancelled>>
         /\ HandlerFrame

(* The error is written, which waits for the client to read it or to close. *)
Complain == /\ pc = "complain"
            /\ pc' = IF lease = "held" THEN "release" ELSE "report"
            /\ UNCHANGED <<lease, exit, reported>> /\ Stay

(* Read the backend's requests until its channel closes.                    *)
TakeExit == /\ pc = "serve" /\ remoteExit # "none"
            /\ exit' = remoteExit
            /\ remoteExit' = "none"
            /\ UNCHANGED <<pc, lease, reported, remote, remoteEOF, unread, granted>>
            /\ UNCHANGED <<forwardVars, copyVars, cancelled>> /\ HandlerFrame

(* Mutant of AfterRequests: does not wait for the output.                   *)
Undrained == "release"
AfterRequests == "drain"

RequestsEnd == /\ pc = "serve" /\ remote = "closed" /\ remoteExit = "none"
               /\ pc' = AfterRequests
               /\ UNCHANGED <<lease, exit, reported>> /\ Stay

Drained == /\ pc = "drain" /\ outputDone
           /\ pc' = "release"
           /\ UNCHANGED <<lease, exit, reported>> /\ Stay

Release == /\ pc = "release"
           /\ lease' = "released"
           /\ pc' = "report"
           /\ UNCHANGED <<exit, reported>> /\ Stay

(* Mutant of ExitReport: an own failure replaces the backend's exit.        *)
OwnExitReport == IF cancelled THEN exit ELSE "failure"

(* The exit the client is told: the backend's own; a failure when the       *)
(* session was not set up, or ended by itself without an exit.              *)
ExitReport == IF exit # "none" THEN exit
              ELSE IF remote = "none" \/ ~cancelled THEN "failure" ELSE "none"

(* Report and return: the deferred calls close the transport and cancel,    *)
(* and handleSession closes the channel.                                    *)
Report == /\ pc = "report"
          /\ reported' = ExitReport
          /\ pc' = "done"
          /\ cancelled' = TRUE
          /\ UNCHANGED <<lease, exit, forwardVars, copyVars, remoteVars>> /\ HandlerFrame

-----------------------------------------------------------------------------
(* The forwarder.  validProxyRequest:                                       *)
validProxyRequest(r) == \/ r.type = "pty" /\ ~started /\ ~pty
                        \/ r.type = "shell" /\ ~started
                        \/ r.type = "sftp" /\ ~started /\ ~pty
                        \/ r.type = "window" /\ pty
                        \/ r.type = "signal" /\ started

ForwarderFrame == UNCHANGED <<clientVars, reader, handlerVars, copyVars,
                              remote, remoteEOF, unread, remoteExit>>

Receives(r) == /\ forwarder = "running" /\ asked = <<>> /\ pending # <<>>
               /\ r = Head(pending)
               /\ pending' = Tail(pending)

ForwarderRefuses(r) == /\ Receives(r) /\ ~validProxyRequest(r)
                       /\ UNCHANGED <<forwardVars, granted, cancelled>> /\ ForwarderFrame

ForwarderAsks(r) == /\ Receives(r) /\ validProxyRequest(r) /\ remote = "open" /\ r.wantReply
                    /\ asked' = <<r>>
                    /\ UNCHANGED <<forwarder, started, pty, granted, cancelled>> /\ ForwarderFrame

(* Mutant of Settle: an answer of the backend is needed.                    *)
SettleAnswered(r, ok) == /\ pty' = (pty \/ (r.type = "pty" /\ r.wantReply /\ ok))
                         /\ started' = (started \/ (r.type \in {"shell", "sftp"} /\ r.wantReply /\ ok))

(* What the forwarder remembers of a request: it counts as done when no     *)
(* answer was asked for, or the answer was yes.                             *)
Settle(r, ok) == LET done == ~r.wantReply \/ ok
                 IN /\ pty' = (pty \/ (r.type = "pty" /\ done))
                    /\ started' = (started \/ (r.type \in {"shell", "sftp"} /\ done))

(* The backend grants a request or not.                                     *)
Grant(r, ok) ==
    granted' = IF ok /\ r.type \in {"pty", "shell", "sftp"} THEN Append(granted, r.type) ELSE granted

ForwarderTells(r, ok) == /\ Receives(r) /\ validProxyRequest(r) /\ remote = "open" /\ ~r.wantReply
                         /\ Settle(r, ok) /\ Grant(r, ok)
                         /\ UNCHANGED <<forwarder, asked, cancelled>> /\ ForwarderFrame

Answered(r, ok) == /\ asked # <<>> /\ remote = "open" /\ r = Head(asked)
                   /\ asked' = <<>>
                   /\ Settle(r, ok) /\ Grant(r, ok)
                   /\ UNCHANGED <<forwarder, pending, cancelled>> /\ ForwarderFrame

(* SendRequest fails: cancel.                                               *)
SendFails(r) == /\ remote = "closed"
                /\ \/ Receives(r) /\ validProxyRequest(r)
                   \/ asked # <<>> /\ r = Head(asked) /\ UNCHANGED pending
                /\ forwarder' = "failed" /\ asked' = <<>>
                /\ cancelled' = TRUE
                /\ UNCHANGED <<started, pty, granted>> /\ ForwarderFrame

(* pending is closed and empty.                                             *)
ForwarderEnds == /\ forwarder = "running" /\ asked = <<>> /\ pending = <<>> /\ reader = "ended"
                 /\ forwarder' = "ended"
                 /\ UNCHANGED <<asked, started, pty, pending, granted, cancelled>> /\ ForwarderFrame

-----------------------------------------------------------------------------
(* The copiers.                                                             *)
CopyFrame == UNCHANGED <<clientVars, cancelled, readerVars, handlerVars, forwardVars,
                         remote, remoteEOF, remoteExit, granted>>

(* The input ends with the client's or, for a write, with the backend's.    *)
InputEnds == /\ input = "copying"
             /\ clientEOF \/ ~clientOpen \/ remote = "closed"
             /\ input' = "ended" /\ inputEOF' = TRUE
             /\ UNCHANGED <<output, outputDone, unread>> /\ CopyFrame

Copy(s) == /\ output[s] = "copying" /\ unread[s] > 0 /\ clientOpen
           /\ unread' = [unread EXCEPT ![s] = @ - 1]
           /\ UNCHANGED <<input, inputEOF, output, outputDone>> /\ CopyFrame

(* Nothing more to read, or a write to a channel that is closed.            *)
CopyEnds(s) == /\ output[s] = "copying"
               /\ \/ unread[s] = 0 /\ (remoteEOF \/ remote = "closed")
                  \/ unread[s] > 0 /\ ~clientOpen
               /\ output' = [output EXCEPT ![s] = "ended"]
               /\ UNCHANGED <<input, inputEOF, outputDone, unread>> /\ CopyFrame

(* Mutant of OutputEnds: it ends the input too.                             *)
OutputEndsBoth == /\ \A s \in Stream : output[s] = "ended"
                  /\ ~outputDone
                  /\ outputDone' = TRUE /\ inputEOF' = TRUE
                  /\ UNCHANGED <<input, output, unread>> /\ CopyFrame

OutputEnds == /\ \A s \in Stream : output[s] = "ended"
              /\ ~outputDone
              /\ outputDone' = TRUE
              /\ UNCHANGED <<input, inputEOF, output, unread>> /\ CopyFrame

-----------------------------------------------------------------------------
(* The sshd of the pod.                                                     *)
RemoteFrame == UNCHANGED <<clientVars, cancelled, readerVars, handlerVars, forwardVars, copyVars, granted>>
Process == remote = "open" /\ \E i \in DOMAIN granted : granted[i] # "pty"

Writes(s) == /\ Process /\ ~remoteEOF /\ unread[s] < MaxUnread
             /\ unread' = [unread EXCEPT ![s] = @ + 1]
             /\ UNCHANGED <<remote, remoteEOF, remoteExit>> /\ RemoteFrame

RemoteEnds == /\ Process /\ ~remoteEOF
              /\ remoteEOF' = TRUE
              /\ UNCHANGED <<remote, unread, remoteExit>> /\ RemoteFrame

(* The process exits; this is sent once.                                    *)
Exits(e) == /\ Process /\ remoteExit = "none" /\ exit = "none"
            /\ remoteExit' = e
            /\ UNCHANGED <<remote, remoteEOF, unread>> /\ RemoteFrame

(* The backend closes the channel, or its transport breaks.                 *)
RemoteCloses == /\ remote = "open"
                /\ remote' = "closed"
                /\ UNCHANGED <<remoteEOF, unread, remoteExit>> /\ RemoteFrame

(* client.Close, by context.AfterFunc or on return.                         *)
Abort == /\ cancelled /\ remote = "open"
         /\ remote' = "closed"
         /\ UNCHANGED <<remoteEOF, unread, remoteExit>> /\ RemoteFrame

Read == ReaderPush \/ ReaderEnds
Handle == \/ \E ok \in BOOLEAN : Acquire(ok) \/ Dial(ok)
          \/ TakeExit \/ RequestsEnd \/ Drained \/ Release \/ Report
OpenEnds == OpenFails \/ Opens
Forward == \/ \E r \in Requests : ForwarderRefuses(r) \/ ForwarderAsks(r) \/ SendFails(r)
           \/ \E r \in Requests, ok \in BOOLEAN : ForwarderTells(r, ok)
           \/ ForwarderEnds
OutputEnd == OutputEnds \/ \E s \in Stream : CopyEnds(s)

Next == \/ \E r \in Requests : Send(r)
        \/ ClientEOF \/ \E connectionToo \in BOOLEAN : ClientLeaves(connectionToo)
        \/ Read \/ Handle \/ OpenEnds \/ Complain \/ Forward
        \/ \E r \in Requests, ok \in BOOLEAN : Answered(r, ok)
        \/ InputEnds \/ OutputEnd \/ \E s \in Stream : Copy(s) \/ Writes(s)
        \/ RemoteEnds \/ \E e \in Exit : Exits(e)
        \/ RemoteCloses \/ Abort

Safety == Init /\ [][Next]_vars

(* Runnable goroutines run, and acquireWorkspace and the dial are bounded.  *)
(* The channel may wait for the backend to be opened until the context is   *)
(* done, the input until the backend reads or is closed, and a message for  *)
(* the client until it reads or leaves.  Nothing is assumed of the pod.     *)
Fairness == /\ WF_vars(Read) /\ WF_vars(Handle) /\ WF_vars(Forward) /\ WF_vars(Abort)
            /\ WF_vars(OutputEnd)
            /\ WF_vars((clientEOF \/ ~clientOpen) /\ remote = "closed" /\ InputEnds)
            /\ WF_vars(cancelled /\ OpenEnds) /\ WF_vars(~clientOpen /\ Complain)

Spec == Safety /\ Fairness

-----------------------------------------------------------------------------
(* "release the workspace before reporting completion so an immediate       *)
(* reconnect cannot reuse a dying pod" (sshproxy.go:105-106), and "Process  *)
(* completion drains stdout and stderr" (docs/adr/005, lines 17-18): a      *)
(* client that learns of the exit has all the output, and its lease is gone. *)
ReportComesLast == reported # "none" =>
    /\ lease # "held"
    /\ clientOpen => \A s \in Stream : output[s] # "copying" /\ unread[s] = 0

(* "Preserve exit-status/exit-signal payloads exactly" (sshproxy.go:105):   *)
(* the exit of the process is never lost once it has been received, and     *)
(* never replaced; a client that has not left is left without a report only *)
(* when the backend failed under a request of its own.                      *)
ExitPreserved == pc = "done" =>
    /\ remoteExit = "none"
    /\ exit # "none" => reported = exit
    /\ reported = "none" => ~clientOpen \/ forwarder = "failed"

(* "It rejects ... repeated start requests" (docs/adr/005, line 29): the    *)
(* backend is asked for at most one terminal and then one process, and SFTP *)
(* never runs on a terminal, even when the client waits for no reply.       *)
OneProcess == /\ Len(granted) <= 2
              /\ Len(granted) = 2 => granted[1] = "pty" /\ granted[2] = "shell"

(* "The backend may still be reading stdin, which must remain open after    *)
(* both output streams end" (sshproxy.go:73-74).                            *)
InputStaysOpen == inputEOF => clientEOF \/ ~clientOpen \/ remote = "closed"

-----------------------------------------------------------------------------
(* The abstract view of a proxied session: it streams while the channel to  *)
(* the backend is open.                                                     *)
Use == INSTANCE WorkspaceUse
         WITH Ask <- {"session"}, Allowed <- {"session"}, asked <- "session",
              client <- IF ~clientOpen THEN "gone" ELSE IF clientEOF THEN "ended" ELSE "writes",
              attached <- IF remote = "open" THEN {"session"} ELSE {},
              halfClose <- TRUE, outputEnded <- FALSE, inputEnded <- inputEOF,
              told <- pc = "done"

(* A proxied session uses its workspace as every channel must: "release the *)
(* workspace before reporting completion" (sshproxy.go:105-106), with the   *)
(* backend's channel closed before, and "stdin ... must remain open after   *)
(* both output streams end" (sshproxy.go:73-74).                            *)
ImplementsUse == Use!UseSafety

(* When the connection is lost, or the client closes with no more requests  *)
(* outstanding than pending takes, at whatever point, every goroutine of    *)
(* the session ends and the lease is free, whatever the backend does.       *)
ProxyEnds == ~clientOpen /\ (cancelled \/ Len(reqs) + Len(pending) <= Cap)
                ~> /\ pc = "done" /\ lease # "held"
                   /\ reader = "ended" /\ forwarder # "running"
                   /\ input # "copying" /\ \A s \in Stream : output[s] # "copying"

(* "Observe client channel closure even while provisioning or handshaking"  *)
(* (sshproxy.go:24).                                                        *)
ClosureObserved == ~clientOpen ~> cancelled

=============================================================================
