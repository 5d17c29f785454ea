------------------------------ MODULE Session ------------------------------
(***************************************************************************)
(* One session channel of the Kubernetes backend: handleSession, runSession*)
(* and drainRequests of internal/server/session.go, with the resize queue. *)
(* Four parties work on it at once: the client, the handler, the goroutine *)
(* that consumes requests once the session has started, and the goroutine  *)
(* of the exec stream that reads terminal sizes.  The lease is represented *)
(* by what acquireWorkspace and release, which always return, leave.       *)
(***************************************************************************)
EXTENDS Naturals, Sequences

CONSTANTS Cap,          \* capacity of the resize queue, 16
          Width,        \* a terminal size has 16 bits: 2^16
          MaxRequests   \* bound on the requests of the client

ASSUME SessionAssumption == Cap \in Nat \ {0} /\ Width \in Nat \ {0} /\ MaxRequests \in Nat

VARIABLES reqs,         \* requests sent by the client and not yet consumed
          budget,       \* requests the client may still send
          clientOpen,   \* the client has not closed and is connected
          pc,           \* where the handler is
          tty, size,    \* its locals tty and (cols, rows)
          cancelled,    \* its context is done
          lease,        \* its lease
          exitSent,     \* the exit-status has been sent
          drainer,      \* the goroutine in drainRequests
          queue,        \* terminalSizeQueue.ch
          queueOpen,    \* the queue has not been closed
          resizer,      \* the exec stream's reader of the queue
          current,      \* the size of the pod's terminal
          latest,       \* ghost: the size the client asked for last
          lost,         \* ghost: that request was discarded
          panicked      \* ghost: a send on the closed queue

clientVars == <<reqs, budget, clientOpen>>
asks == <<latest, lost>>
queueVars == <<queue, panicked, asks>>
handlerVars == <<pc, tty, size, lease, exitSent, queueOpen>>
readerVars == <<resizer, current>>
vars == <<clientVars, queueVars, handlerVars, readerVars, cancelled, drainer>>

(* (cols, rows) is one number, and 0 stands for a size with a zero in it.   *)
Size == 0..Width
DefaultSize == 1
Request == [type : {"pty", "window"}, size : Size]
             \cup [type : {"shell", "sftp", "bad"}, size : {0}]

TypeOK == /\ reqs \in Seq(Request) /\ budget \in 0..MaxRequests /\ clientOpen \in BOOLEAN
          /\ pc \in {"requests", "acquire", "run", "complain", "release", "report", "join", "done"}
          /\ tty \in BOOLEAN /\ size \in Size /\ cancelled \in BOOLEAN
          /\ lease \in {"none", "held", "released"} /\ exitSent \in BOOLEAN
          /\ drainer \in {"none", "running", "ended"}
          /\ queue \in Seq(0..Width - 1) /\ Len(queue) <= Cap /\ queueOpen \in BOOLEAN
          /\ resizer \in {"none", "reading", "ended"}
          /\ current \in 0..Width - 1 /\ latest \in Size
          /\ lost \in BOOLEAN /\ panicked \in BOOLEAN

Init == /\ reqs = <<>> /\ budget = MaxRequests /\ clientOpen = TRUE
        /\ pc = "requests" /\ tty = FALSE /\ size = DefaultSize
        /\ cancelled = FALSE /\ lease = "none" /\ exitSent = FALSE
        /\ drainer = "none" /\ queue = <<>> /\ queueOpen = TRUE
        /\ resizer = "none" /\ current = 0 /\ latest = DefaultSize
        /\ lost = FALSE /\ panicked = FALSE

-----------------------------------------------------------------------------
(* The client.                                                              *)
Send(r) == /\ clientOpen /\ budget > 0
           /\ reqs' = Append(reqs, r)
           /\ budget' = budget - 1
           /\ UNCHANGED <<clientOpen, queueVars, handlerVars, readerVars, cancelled, drainer>>

ClientClose == /\ clientOpen
               /\ clientOpen' = FALSE
               /\ UNCHANGED <<reqs, budget, queueVars, handlerVars, readerVars, cancelled, drainer>>

(* The connection is lost or the server stops.                              *)
Disconnect == /\ clientOpen
              /\ clientOpen' = FALSE
              /\ cancelled' = TRUE
              /\ UNCHANGED <<reqs, budget, queueVars, handlerVars, readerVars, drainer>>

(* The requests end when the client has closed and all have been consumed.  *)
Ended == ~clientOpen /\ reqs = <<>>
Consume(r) == /\ reqs # <<>> /\ r = Head(reqs)
              /\ reqs' = Tail(reqs)
              /\ UNCHANGED <<budget, clientOpen>>

-----------------------------------------------------------------------------
(* The client asks for size s, and is heard or not.                         *)
Asks(s, heard) == latest' = s /\ lost' = ~heard

Fits == queueOpen /\ Len(queue) < Cap

(* Mutant of Push: no default case, and no capacity.                        *)
PushAlways(s) == queue' = Append(queue, s % Width) /\ UNCHANGED panicked

(* push: drop the size when the queue is full.                              *)
Push(s) == /\ queue' = IF Fits THEN Append(queue, s % Width) ELSE queue
           /\ panicked' = (panicked \/ ~queueOpen)

(* The loop of handleSession before the session starts.  The first pty-req  *)
(* is accepted; a size with a zero in it leaves the default.                *)
Pty(r) == /\ pc = "requests" /\ Consume(r) /\ r.type = "pty"
          /\ IF tty
             THEN UNCHANGED <<tty, size, asks>>
             ELSE /\ tty' = TRUE
                  /\ size' = IF r.size > 0 THEN r.size ELSE size
                  /\ Asks(size', TRUE)
          /\ UNCHANGED <<pc, lease, exitSent, queueOpen, queue, panicked, readerVars, cancelled, drainer>>

(* A malformed or unsupported request, SFTP on a session with a terminal, or *)
(* a resize that comes before the start, which is discarded.                *)
Refuse(r) == /\ pc = "requests" /\ Consume(r)
             /\ r.type \in {"bad", "window"} \/ (r.type = "sftp" /\ tty)
             /\ IF r.type = "window" THEN Asks(r.size, FALSE) ELSE UNCHANGED asks
             /\ UNCHANGED <<handlerVars, queue, panicked, readerVars, cancelled, drainer>>

Starts(r) == r.type = "shell" \/ (r.type = "sftp" /\ ~tty)

(* Mutant of Start: the terminal's first size is not pushed.                *)
StartUnsized(r) == /\ pc = "requests" /\ Consume(r) /\ Starts(r)
                   /\ drainer' = "running"
                   /\ pc' = "acquire"
                   /\ UNCHANGED <<tty, size, lease, exitSent, queueOpen, queueVars, readerVars,
                                  cancelled>>

Start(r) == /\ pc = "requests" /\ Consume(r) /\ Starts(r)
            /\ Push(size)
            /\ drainer' = "running"
            /\ pc' = "acquire"
            /\ UNCHANGED <<tty, size, lease, exitSent, queueOpen, asks, readerVars, cancelled>>

(* The requests end before a session has started: the deferred calls run.   *)
NeverStarted == /\ pc = "requests" /\ Ended
                /\ queueOpen' = FALSE
                /\ cancelled' = TRUE
                /\ pc' = "done"
                /\ UNCHANGED <<tty, size, lease, exitSent, clientVars, queueVars, readerVars, drainer>>

-----------------------------------------------------------------------------
(* drainRequests.                                                           *)
DrainWindow(r) == /\ drainer = "running" /\ Consume(r) /\ r.type = "window"
                  /\ Push(r.size) /\ Asks(r.size, Fits)
                  /\ UNCHANGED <<handlerVars, readerVars, cancelled, drainer>>

DrainOther(r) == /\ drainer = "running" /\ Consume(r) /\ r.type # "window"
                 /\ UNCHANGED <<handlerVars, queueVars, readerVars, cancelled, drainer>>

(* Mutant of DrainEnd: the context is not cancelled.                        *)
DrainEndOnly == /\ drainer = "running" /\ Ended
                /\ drainer' = "ended"
                /\ UNCHANGED <<clientVars, handlerVars, queueVars, readerVars, cancelled>>

DrainEnd == /\ drainer = "running" /\ Ended
            /\ drainer' = "ended"
            /\ cancelled' = TRUE
            /\ UNCHANGED <<clientVars, handlerVars, queueVars, readerVars>>

-----------------------------------------------------------------------------
(* runSession.                                                              *)
RunFrame == UNCHANGED <<tty, size, queueOpen, clientVars, queueVars, cancelled, drainer>>

(* acquireWorkspace returns a lease; with a terminal the exec stream then   *)
(* starts a goroutine that reads sizes.                                     *)
Acquired == /\ pc = "acquire"
            /\ lease' = "held"
            /\ pc' = "run"
            /\ resizer' = IF tty THEN "reading" ELSE "none"
            /\ UNCHANGED <<exitSent, current>> /\ RunFrame

(* Mutant of NotAcquired: the early return is missing.                      *)
NotAcquiredRuns == /\ pc = "acquire"
                   /\ pc' = "run"
                   /\ UNCHANGED <<lease, exitSent, readerVars>> /\ RunFrame

(* It fails, or the context is done.                                        *)
NotAcquired == /\ pc = "acquire"
               /\ pc' = "complain"
               /\ UNCHANGED <<lease, exitSent, readerVars>> /\ RunFrame

(* Mutant of RunEnds: exit-status is sent before the release.               *)
RunEndsReported(ok) == /\ pc = "run"
                       /\ exitSent' = TRUE
                       /\ pc' = IF ok THEN "release" ELSE "complain"
                       /\ UNCHANGED <<lease, readerVars>> /\ RunFrame

(* Attach or Exec returns, with an exit code or an error.                   *)
RunEnds(ok) == /\ pc = "run"
               /\ pc' = IF ok THEN "release" ELSE "complain"
               /\ UNCHANGED <<lease, exitSent, readerVars>> /\ RunFrame

(* The error message is written; this waits for the client to read it or to *)
(* close.                                                                   *)
Complain == /\ pc = "complain"
            /\ pc' = IF lease = "held" THEN "release" ELSE "report"
            /\ UNCHANGED <<lease, exitSent, readerVars>> /\ RunFrame

(* The deferred release, which ends with the cleanup of the pod.            *)
Release == /\ pc = "release"
           /\ lease' = "released"
           /\ pc' = "report"
           /\ UNCHANGED <<exitSent, readerVars>> /\ RunFrame

(* The deferred sendExitStatus; handleSession then closes the channel.      *)
Report == /\ pc = "report"
          /\ exitSent' = TRUE
          /\ pc' = "join"
          /\ UNCHANGED <<lease, readerVars>> /\ RunFrame

(* Mutant of Join: does not wait for the request consumer.                  *)
JoinNobody == /\ pc = "join"
              /\ queueOpen' = FALSE
              /\ cancelled' = TRUE
              /\ pc' = "done"
              /\ UNCHANGED <<tty, size, lease, exitSent, clientVars, queueVars, readerVars, drainer>>

(* Wait for the request consumer, then close the queue and cancel.          *)
Join == /\ pc = "join"
        /\ drainer = "ended"
        /\ queueOpen' = FALSE
        /\ cancelled' = TRUE
        /\ pc' = "done"
        /\ UNCHANGED <<tty, size, lease, exitSent, clientVars, queueVars, readerVars, drainer>>

-----------------------------------------------------------------------------
(* The exec stream's reader of the queue: Next until it returns nil.        *)
Resize == /\ resizer = "reading" /\ queue # <<>>
          /\ current' = Head(queue)
          /\ queue' = Tail(queue)
          /\ UNCHANGED <<resizer, asks, panicked, clientVars, handlerVars, cancelled, drainer>>

NoMoreSizes == /\ resizer = "reading" /\ queue = <<>> /\ ~queueOpen
               /\ resizer' = "ended"
               /\ UNCHANGED <<current, clientVars, queueVars, handlerVars, cancelled, drainer>>

Handle == \/ \E r \in Request : Pty(r) \/ Refuse(r) \/ Start(r)
          \/ NeverStarted \/ Acquired \/ NotAcquired \/ Release \/ Report \/ Join

Drain == DrainEnd \/ \E r \in Request : DrainWindow(r) \/ DrainOther(r)

ReadSizes == Resize \/ NoMoreSizes

Next == \/ \E r \in Request : Send(r)
        \/ ClientClose \/ Disconnect
        \/ Handle
        \/ \E ok \in BOOLEAN : RunEnds(ok)
        \/ Complain
        \/ Drain
        \/ ReadSizes

Safety == Init /\ [][Next]_vars

(* Runnable goroutines run, and acquireWorkspace and release return.  The   *)
(* process in the pod may run for ever, but a stream whose context is done  *)
(* ends; a message to a client that does not read may wait until it closes. *)
Fairness == /\ WF_vars(Handle) /\ WF_vars(Drain) /\ WF_vars(ReadSizes)
            /\ WF_vars(cancelled /\ \E ok \in BOOLEAN : RunEnds(ok))
            /\ WF_vars(~clientOpen /\ Complain)

Spec == Safety /\ Fairness

-----------------------------------------------------------------------------
(* "Join the request consumer before closing the resize queue"              *)
(* (session.go:116): nobody ever sends on the closed queue, which would     *)
(* panic the proxy and end the sessions of every user.                      *)
NoSendOnClosedQueue == ~panicked

(* "Cleanup finishes before exit-status is sent" (session.go:151-152), on   *)
(* every way out of runSession, and no session ends without a report.       *)
ExitStatusAfterRelease == /\ exitSent => lease # "held"
                          /\ pc = "done" /\ drainer # "none" => exitSent

(* Once the reader of sizes has caught up, the terminal has the size of the *)
(* last pty-req that was accepted or window-change that was sent, cut to 16 *)
(* bits (session.go:55), unless that very request was lost: a window-change *)
(* before the start is discarded (session.go:127-130), and one that finds   *)
(* the queue full is dropped (session.go:56).  An earlier loss does not     *)
(* matter: the next resize that fits makes up for it.                       *)
TerminalFollows ==
    (resizer = "reading" /\ queue = <<>> /\ ~lost) => current = latest % Width

-----------------------------------------------------------------------------
(* The abstract view of a session: the exec stream runs while the handler   *)
(* is in Attach or Exec; the library copies the input and ends it, and when *)
(* that happens is not modelled.                                            *)
Use == INSTANCE WorkspaceUse
         WITH Ask <- {"session"}, Allowed <- {"session"}, asked <- "session",
              client <- IF clientOpen THEN "writes" ELSE "gone",
              attached <- IF pc = "run" THEN {"session"} ELSE {},
              halfClose <- TRUE, outputEnded <- FALSE, inputEnded <- FALSE,
              told <- exitSent \/ pc = "done"

(* A session uses its workspace as every channel must (lifecycle.go,        *)
(* session.go:156-160): it streams only under its lease, and the client is  *)
(* told the end only when the lease is free, for good.                      *)
ImplementsUse == Use!UseSafety

(* When the client has gone, everything the session started ends and the    *)
(* lease is free again, at whatever point the client left.                  *)
SessionEnds == ~clientOpen ~> /\ pc = "done" /\ lease # "held"
                              /\ drainer # "running" /\ resizer # "reading"

=============================================================================
