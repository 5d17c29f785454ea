--------------------------- MODULE ProxyProofs ---------------------------
(***************************************************************************)
(* Proofs about ProxySession for a pending channel of every capacity, any  *)
(* requests and any amount of output.                                      *)
(***************************************************************************)
EXTENDS ProxySession, SequenceTheorems, TLAPS

(* The handler: how far the setup is, who holds the lease, and what is over *)
(* when a session that was set up goes on to its release.                   *)
Stage ==
    /\ pc \in {"acquire", "dial", "open", "complain"} => remote = "none"
    /\ pc \in {"serve", "drain"} => remote # "none"
    /\ pc = "acquire" => lease = "none"
    /\ pc \in {"dial", "open", "serve", "drain", "release"} => lease = "held"
    /\ pc \in {"report", "done"} => lease # "held"
    /\ reported # "none" => pc = "done"
    /\ pc \in {"drain", "release", "report", "done"} =>
          remote \in {"none", "closed"} /\ remoteExit = "none"
    /\ pc \in {"release", "report", "done"} => remote = "none" \/ outputDone

(* Before the backend channel is open nothing has come through it.          *)
Untouched == remote = "none" =>
    /\ forwarder = "none" /\ asked = <<>> /\ granted = <<>>
    /\ input = "none" /\ ~inputEOF /\ ~outputDone
    /\ remoteExit = "none" /\ exit = "none" /\ ~remoteEOF
    /\ \A s \in Stream : output[s] = "none" /\ unread[s] = 0

(* A copier that has ended has left nothing behind, and nothing follows,    *)
(* unless it ended because the client is gone.                              *)
Copied == /\ remote # "none" => \A s \in Stream : output[s] # "none"
          /\ outputDone => \A s \in Stream : output[s] = "ended"
          /\ clientOpen => \A s \in Stream :
                output[s] = "ended" => unread[s] = 0 /\ (remoteEOF \/ remote = "closed")

(* Who has cancelled, and what the client was told.                         *)
Causes == /\ cancelled /\ pc # "done" => ~clientOpen \/ forwarder = "failed"
          /\ pc = "done" => /\ exit # "none" => reported = exit
                            /\ reported = "none" => ~clientOpen \/ forwarder = "failed"

(* What the forwarder remembers covers what the backend has granted, and a  *)
(* request under way is still valid when its answer comes.                  *)
Filter == /\ asked # <<>> => /\ forwarder = "running" /\ Len(asked) = 1
                             /\ validProxyRequest(Head(asked))
          /\ OneProcess
          /\ ~started => Len(granted) <= 1 /\ (Len(granted) = 1 => granted[1] = "pty")
          /\ ~pty => Len(granted) <= 1 /\ (Len(granted) = 1 => granted[1] # "pty")

IInv == TypeOK /\ Stage /\ Untouched /\ Copied /\ Causes /\ Filter /\ InputStaysOpen

USE ProxyAssumption

(* What Filter says of the grants, with the types it needs.                 *)
Granted == /\ pty \in BOOLEAN /\ started \in BOOLEAN
           /\ granted \in Seq({"pty", "shell", "sftp"})
           /\ OneProcess
           /\ ~started => Len(granted) <= 1 /\ (Len(granted) = 1 => granted[1] = "pty")
           /\ ~pty => Len(granted) <= 1 /\ (Len(granted) = 1 => granted[1] # "pty")

(* A valid request that is settled and granted keeps them.                  *)
LEMMA GrantKeeps ==
    ASSUME TypeOK, Filter, NEW r \in Requests, NEW ok \in BOOLEAN,
           validProxyRequest(r), Settle(r, ok), Grant(r, ok)
    PROVE  Granted'
<1>1. r \in Request
  OBVIOUS
<1>2. pty' \in BOOLEAN /\ started' \in BOOLEAN
  BY DEF Settle, TypeOK
<1>3. (pty => pty') /\ (started => started')
  BY DEF Settle
<1>4. /\ granted \in Seq({"pty", "shell", "sftp"})
      /\ granted' \in Seq({"pty", "shell", "sftp"})
  BY DEF Grant, TypeOK
<1>5. CASE ~(ok /\ r.type \in {"pty", "shell", "sftp"})
  <2>1. granted' = granted
    BY <1>5 DEF Grant
  <2> QED BY <1>2, <1>3, <1>4, <2>1 DEF Granted, Filter, OneProcess
<1>6. ASSUME ok, r.type \in {"pty", "shell", "sftp"}
      PROVE  /\ Len(granted') = Len(granted) + 1
             /\ granted'[Len(granted) + 1] = r.type
             /\ Len(granted) = 1 => granted'[1] = granted[1]
  <2>1. granted' = Append(granted, r.type)
    BY <1>6 DEF Grant
  <2> QED BY <1>4, <1>6, <2>1
<1>7. Len(granted) <= 1 => Len(granted) = 0 \/ Len(granted) = 1
  <2>1. \A n \in Nat : n <= 1 => n = 0 \/ n = 1
    OBVIOUS
  <2>2. Len(granted) \in Nat
    BY <1>4
  <2> QED BY <2>1, <2>2, Zenon
<1>8. CASE ok /\ r.type = "pty"
  <2>1. ~started /\ ~pty
    BY <1>8 DEF validProxyRequest
  <2>2. pty'
    BY <1>8 DEF Settle
  <2>3. Len(granted) <= 1 /\ Len(granted) # 1
    BY <2>1, Zenon DEF Filter
  <2>4. Len(granted') = 1 /\ granted'[1] = "pty"
    BY <1>6, <1>7, <1>8, <2>3
  <2> QED BY <1>2, <1>4, <2>2, <2>4 DEF Granted, OneProcess
<1>9. CASE ok /\ r.type \in {"shell", "sftp"}
  <2>1. started'
    BY <1>9 DEF Settle
  <2>2. ~started /\ (r.type = "sftp" => ~pty)
    BY <1>9 DEF validProxyRequest
  <2>3. CASE Len(granted) = 0
    <3>1. Len(granted') = 1 /\ granted'[1] = r.type
      BY <1>6, <1>9, <2>3
    <3> QED BY <1>2, <1>4, <1>9, <2>1, <3>1 DEF Granted, OneProcess
  <2>4. CASE Len(granted) = 1
    <3>1. granted[1] = "pty" /\ pty
      BY <2>2, <2>4 DEF Filter
    <3>2. r.type = "shell"
      BY <1>9, <2>2, <3>1
    <3>3. Len(granted') = 2 /\ granted'[1] = "pty" /\ granted'[2] = "shell"
      BY <1>6, <1>9, <2>4, <3>1, <3>2
    <3> QED BY <1>2, <1>3, <1>4, <2>1, <3>1, <3>3 DEF Granted, OneProcess
  <2>5. Len(granted) <= 1
    BY <2>2, Zenon DEF Filter
  <2> QED BY <1>7, <2>3, <2>4, <2>5
<1> QED BY <1>5, <1>8, <1>9

(* The invariant holds at first.                                            *)
LEMMA IInvInit == Init => IInv
<1> SUFFICES ASSUME Init PROVE IInv
  OBVIOUS
<1>1. <<>> \in Seq(Requests) /\ Len(<<>>) = 0 /\ <<>> \in Seq({"pty", "shell", "sftp"})
  OBVIOUS
<1>2. /\ reqs \in Seq(Requests) /\ pending \in Seq(Requests) /\ Len(pending) <= Cap
      /\ asked \in Seq(Requests) /\ granted \in Seq({"pty", "shell", "sftp"})
  BY <1>1 DEF Init
<1>3. budget \in 0..MaxRequests
  BY DEF Init
<1>4. /\ unread \in [Stream -> 0..MaxUnread]
      /\ output \in [Stream -> {"none", "copying", "ended"}]
  BY DEF Init
<1>5. TypeOK
  BY <1>2, <1>3, <1>4 DEF Init, TypeOK
<1> QED BY <1>5 DEF Init, IInv, Stage, Untouched, Copied, Causes, Filter, OneProcess, InputStaysOpen, Stream

(* Every step keeps it.                                                     *)
LEMMA IInvNext == IInv /\ [Next]_vars => IInv'
<1> SUFFICES ASSUME IInv, [Next]_vars PROVE IInv'
  OBVIOUS
<1> USE DEF IInv, clientVars, readerVars, handlerVars, forwardVars, copyVars, remoteVars
<1>1. ASSUME NEW r \in Requests, Send(r) PROVE IInv'
  <2>1. reqs' \in Seq(Requests) /\ budget' \in 0..MaxRequests
    BY <1>1 DEF Send, TypeOK
  <2> QED BY <1>1, <2>1 DEF Send, ClientFrame, TypeOK, Stage, Untouched, Copied, Causes, Filter, OneProcess,
     InputStaysOpen, validProxyRequest
<1>2. CASE ClientEOF
  BY <1>2 DEF ClientEOF, ClientFrame, TypeOK, Stage, Untouched, Copied, Causes, Filter, OneProcess,
     InputStaysOpen, validProxyRequest
<1>3. ASSUME NEW all \in BOOLEAN, ClientLeaves(all) PROVE IInv'
  <2>1. cancelled' \in BOOLEAN
    BY <1>3 DEF ClientLeaves, TypeOK
  <2>2. Causes'
    BY <1>3 DEF ClientLeaves, ClientFrame, Causes
  <2>3. clientOpen' = FALSE /\ UNCHANGED <<reqs, budget, clientEOF>> /\ ClientFrame
    BY <1>3 DEF ClientLeaves
  <2>4. TypeOK'
    <3>1. UNCHANGED <<reqs, budget, clientEOF, readerVars, handlerVars, forwardVars, copyVars, remoteVars>>
      BY <2>3 DEF ClientFrame
    <3>2. clientOpen' \in BOOLEAN
      BY <2>3
    <3> QED BY <2>1, <3>1, <3>2 DEF TypeOK
  <2>5. (Stage /\ Untouched /\ Copied)'
    BY <2>3 DEF ClientFrame, Stage, Untouched, Copied
  <2>6. (Filter /\ InputStaysOpen)'
    BY <2>3 DEF ClientFrame, Filter, OneProcess, validProxyRequest, InputStaysOpen
  <2> QED BY <2>2, <2>4, <2>5, <2>6
<1>4. CASE ReaderPush
  <2>1. pending' \in Seq(Requests) /\ Len(pending') <= Cap /\ reqs' \in Seq(Requests)
    BY <1>4 DEF ReaderPush, HasRoom, TypeOK
  <2> QED BY <1>4, <2>1 DEF ReaderPush, HasRoom, ReaderFrame, TypeOK, Stage, Untouched, Copied, Causes,
     Filter, OneProcess, InputStaysOpen, validProxyRequest
<1>5. CASE ReaderEnds
  BY <1>5 DEF ReaderEnds, ReaderFrame, TypeOK, Stage, Untouched, Copied, Causes, Filter, OneProcess,
     InputStaysOpen, validProxyRequest
<1>6. ASSUME NEW ok \in BOOLEAN, Acquire(ok) PROVE IInv'
  BY <1>6 DEF Acquire, Stay, HandlerFrame, TypeOK, Stage, Untouched, Copied, Causes, Filter, OneProcess,
     InputStaysOpen, validProxyRequest
<1>7. ASSUME NEW ok \in BOOLEAN, Dial(ok) PROVE IInv'
  BY <1>7 DEF Dial, Stay, HandlerFrame, TypeOK, Stage, Untouched, Copied, Causes, Filter, OneProcess,
     InputStaysOpen, validProxyRequest
<1>8. CASE OpenFails
  BY <1>8 DEF OpenFails, Stay, HandlerFrame, TypeOK, Stage, Untouched, Copied, Causes, Filter, OneProcess,
     InputStaysOpen, validProxyRequest
<1>9. CASE Opens
  BY <1>9 DEF Opens, HandlerFrame, TypeOK, Stage, Untouched, Copied, Causes, Filter, OneProcess,
     InputStaysOpen, validProxyRequest
<1>10. CASE Complain
  BY <1>10 DEF Complain, Stay, HandlerFrame, TypeOK, Stage, Untouched, Copied, Causes, Filter, OneProcess,
     InputStaysOpen, validProxyRequest
<1>11. CASE TakeExit
  BY <1>11 DEF TakeExit, HandlerFrame, TypeOK, Stage, Untouched, Copied, Causes, Filter, OneProcess,
     InputStaysOpen, validProxyRequest
<1>12. CASE RequestsEnd
  BY <1>12 DEF RequestsEnd, AfterRequests, Stay, HandlerFrame, TypeOK, Stage, Untouched, Copied, Causes,
     Filter, OneProcess, InputStaysOpen, validProxyRequest
<1>13. CASE Drained
  BY <1>13 DEF Drained, Stay, HandlerFrame, TypeOK, Stage, Untouched, Copied, Causes, Filter, OneProcess,
     InputStaysOpen, validProxyRequest
<1>14. CASE Release
  BY <1>14 DEF Release, Stay, HandlerFrame, TypeOK, Stage, Untouched, Copied, Causes, Filter, OneProcess,
     InputStaysOpen, validProxyRequest
<1>15. CASE Report
  BY <1>15 DEF Report, ExitReport, HandlerFrame, TypeOK, Stage, Untouched, Copied, Causes, Filter, OneProcess,
     InputStaysOpen, validProxyRequest
<1>16. ASSUME NEW r \in Requests, ForwarderRefuses(r) PROVE IInv'
  <2>1. pending' \in Seq(Requests) /\ Len(pending') <= Cap
    BY <1>16 DEF ForwarderRefuses, Receives, TypeOK
  <2> QED BY <1>16, <2>1 DEF ForwarderRefuses, Receives, ForwarderFrame, TypeOK, Stage, Untouched, Copied,
     Causes, Filter, OneProcess, InputStaysOpen, validProxyRequest
<1>17. ASSUME NEW r \in Requests, ForwarderAsks(r) PROVE IInv'
  <2>1. pending' \in Seq(Requests) /\ Len(pending') <= Cap
    BY <1>17 DEF ForwarderAsks, Receives, TypeOK
  <2> QED BY <1>17, <2>1 DEF ForwarderAsks, Receives, ForwarderFrame, TypeOK, Stage, Untouched, Copied,
     Causes, Filter, OneProcess, InputStaysOpen, validProxyRequest
<1>18. ASSUME NEW r \in Requests, NEW ok \in BOOLEAN, ForwarderTells(r, ok) PROVE IInv'
  <2>1. pending' \in Seq(Requests) /\ Len(pending') <= Cap
    BY <1>18 DEF ForwarderTells, Receives, TypeOK
  <2>2. Granted'
    BY <1>18, GrantKeeps DEF ForwarderTells
  <2>3. forwarder = "running" /\ asked = <<>> /\ remote = "open"
    BY <1>18 DEF ForwarderTells, Receives
  <2> QED BY <1>18, <2>1, <2>2, <2>3 DEF ForwarderTells, ForwarderFrame, Granted, TypeOK, Stage, Untouched,
     Copied, Causes, Filter, OneProcess, InputStaysOpen, validProxyRequest
<1>19. ASSUME NEW r \in Requests, NEW ok \in BOOLEAN, Answered(r, ok) PROVE IInv'
  <2>1. validProxyRequest(r) /\ remote = "open" /\ forwarder = "running"
    BY <1>19 DEF Answered, Filter
  <2>2. Granted'
    BY <1>19, <2>1, GrantKeeps DEF Answered
  <2>3. asked' = <<>> /\ asked' \in Seq(Requests)
    BY <1>19 DEF Answered
  <2> QED BY <1>19, <2>1, <2>2, <2>3 DEF Answered, ForwarderFrame, Granted, TypeOK, Stage, Untouched, Copied,
     Causes, Filter, OneProcess, InputStaysOpen, validProxyRequest
<1>20. ASSUME NEW r \in Requests, SendFails(r) PROVE IInv'
  <2>1. pending' \in Seq(Requests) /\ Len(pending') <= Cap
    <3>1. CASE Receives(r)
      BY <3>1 DEF Receives, TypeOK
    <3>2. CASE UNCHANGED pending
      BY <3>2 DEF TypeOK
    <3> QED BY <1>20, <3>1, <3>2 DEF SendFails
  <2>2. asked' = <<>> /\ asked' \in Seq(Requests)
    BY <1>20 DEF SendFails
  <2> QED BY <1>20, <2>1, <2>2 DEF SendFails, ForwarderFrame, TypeOK, Stage, Untouched, Copied, Causes,
     Filter, OneProcess, InputStaysOpen, validProxyRequest
<1>21. CASE ForwarderEnds
  BY <1>21 DEF ForwarderEnds, ForwarderFrame, TypeOK, Stage, Untouched, Copied, Causes, Filter, OneProcess,
     InputStaysOpen, validProxyRequest
<1>22. CASE InputEnds
  BY <1>22 DEF InputEnds, CopyFrame, TypeOK, Stage, Untouched, Copied, Causes, Filter, OneProcess,
     InputStaysOpen, validProxyRequest
<1>23. ASSUME NEW s \in Stream, Copy(s) PROVE IInv'
  BY <1>23 DEF Copy, CopyFrame, TypeOK, Stage, Untouched, Copied, Causes, Filter, OneProcess, InputStaysOpen,
     validProxyRequest
<1>24. ASSUME NEW s \in Stream, CopyEnds(s) PROVE IInv'
  BY <1>24 DEF CopyEnds, CopyFrame, TypeOK, Stage, Untouched, Copied, Causes, Filter, OneProcess,
     InputStaysOpen, validProxyRequest
<1>25. CASE OutputEnds
  <2>1. "stdout" \in Stream /\ output["stdout"] = "ended"
    BY <1>25 DEF OutputEnds, Stream
  <2>2. remote # "none"
    BY <2>1 DEF Untouched
  <2> QED BY <1>25, <2>2 DEF OutputEnds, CopyFrame, TypeOK, Stage, Untouched, Copied, Causes, Filter,
     OneProcess, InputStaysOpen, validProxyRequest
<1>26. ASSUME NEW s \in Stream, Writes(s) PROVE IInv'
  BY <1>26 DEF Writes, Process, RemoteFrame, TypeOK, Stage, Untouched, Copied, Causes, Filter, OneProcess,
     InputStaysOpen, validProxyRequest
<1>27. CASE RemoteEnds
  BY <1>27 DEF RemoteEnds, Process, RemoteFrame, TypeOK, Stage, Untouched, Copied, Causes, Filter, OneProcess,
     InputStaysOpen, validProxyRequest
<1>28. ASSUME NEW e \in Exit, Exits(e) PROVE IInv'
  BY <1>28 DEF Exits, Process, RemoteFrame, TypeOK, Stage, Untouched, Copied, Causes, Filter, OneProcess,
     InputStaysOpen, validProxyRequest
<1>29. CASE RemoteCloses
  BY <1>29 DEF RemoteCloses, RemoteFrame, TypeOK, Stage, Untouched, Copied, Causes, Filter, OneProcess,
     InputStaysOpen, validProxyRequest
<1>30. CASE Abort
  BY <1>30 DEF Abort, RemoteFrame, TypeOK, Stage, Untouched, Copied, Causes, Filter, OneProcess,
     InputStaysOpen, validProxyRequest
<1>31. CASE UNCHANGED vars
  BY <1>31 DEF vars, TypeOK, Stage, Untouched, Copied, Causes, Filter, OneProcess, InputStaysOpen,
     validProxyRequest
<1> QED BY <1>1, <1>2, <1>3, <1>4, <1>5, <1>6, <1>7, <1>8, <1>9, <1>10, <1>11, <1>12, <1>13, <1>14, <1>15,
   <1>16, <1>17, <1>18, <1>19, <1>20, <1>21, <1>22, <1>23, <1>24, <1>25, <1>26, <1>27, <1>28, <1>29, <1>30,
   <1>31 DEF Next, Read, Handle, OpenEnds, Forward, OutputEnd

(* The inductive invariant holds in every reachable state.                  *)
THEOREM ProxyInvariant == Spec => []IInv
BY IInvInit, IInvNext, PTL DEF Spec, Safety

(* The state keeps its types; pending never exceeds its capacity.           *)
THEOREM ProxyTypes == Spec => []TypeOK
BY ProxyInvariant, PTL DEF IInv

(* "release the workspace before reporting completion": a report follows    *)
(* the release and, for a client that is there, all of the output.          *)
THEOREM ProxyReportsLast == Spec => []ReportComesLast
<1>1. IInv => ReportComesLast
  BY DEF IInv, Stage, Untouched, Copied, ReportComesLast, TypeOK
<1> QED BY <1>1, ProxyInvariant, PTL

(* The backend's exit is neither lost nor replaced, and no client that is   *)
(* there is left without a report unless its own request met the failure.   *)
THEOREM ProxyPreservesExit == Spec => []ExitPreserved
<1>1. IInv => ExitPreserved
  BY DEF IInv, Stage, Causes, ExitPreserved
<1> QED BY <1>1, ProxyInvariant, PTL

(* Whatever the client asks, with or without replies, the backend grants at *)
(* most one terminal and then one process.                                  *)
THEOREM ProxyOneProcess == Spec => []OneProcess
<1>1. IInv => OneProcess
  BY DEF IInv, Filter, OneProcess
<1> QED BY <1>1, ProxyInvariant, PTL

(* The end of the output does not end the input.                            *)
THEOREM ProxyKeepsInput == Spec => []InputStaysOpen
BY ProxyInvariant, PTL DEF IInv

-----------------------------------------------------------------------------
(* What the contract of a workspace's users sees of a proxied session.      *)
LEMMA UseSees ==
    ASSUME UNCHANGED <<clientOpen, clientEOF, lease, remote, inputEOF>>, pc = "done" <=> pc' = "done"
    PROVE  UNCHANGED Use!uvars
BY DEF Use!uvars, Use!ends

(* Every step is a step of the contract, or invisible to it.                *)
LEMMA UseStep ==
    ASSUME IInv, [Next]_vars
    PROVE  Use!UseNext \/ UNCHANGED Use!uvars
<1> USE DEF clientVars, readerVars, handlerVars, forwardVars, copyVars, remoteVars, Use!ends
<1>1. CASE ClientEOF
  <2>1. Use!ClientEnds
    BY <1>1 DEF ClientEOF, ClientFrame, Use!ClientEnds
  <2> QED BY <2>1 DEF Use!UseNext
<1>2. ASSUME NEW all \in BOOLEAN, ClientLeaves(all) PROVE Use!UseNext
  <2>1. clientOpen /\ ~clientOpen' /\ UNCHANGED <<clientEOF, lease, pc, remote, inputEOF>>
    BY <1>2 DEF ClientLeaves, ClientFrame
  <2>2. Use!ClientEnds
    BY <2>1 DEF Use!ClientEnds
  <2> QED BY <2>2 DEF Use!UseNext
<1>3. ASSUME NEW ok \in BOOLEAN, Acquire(ok) PROVE Use!UseNext \/ UNCHANGED Use!uvars
  <2>1. /\ pc = "acquire" /\ lease = "none" /\ remote = "none" /\ pc' # "done"
        /\ UNCHANGED <<clientOpen, clientEOF, remote, inputEOF>>
    BY <1>3 DEF Acquire, Stay, HandlerFrame, IInv, Stage
  <2>2. CASE ok
    <3>1. Use!Take
      BY <1>3, <2>1, <2>2 DEF Acquire, Use!Take
    <3> QED BY <3>1 DEF Use!UseNext
  <2>3. CASE ~ok
    BY <1>3, <2>1, <2>3, UseSees DEF Acquire
  <2> QED BY <2>2, <2>3
<1>4. CASE Opens
  <2>1. Use!Attach
    BY <1>4 DEF Opens, HandlerFrame, IInv, Stage, Use!Attach
  <2> QED BY <2>1 DEF Use!UseNext
<1>5. CASE RemoteCloses \/ Abort
  <2>1. Use!Detach
    BY <1>5 DEF RemoteCloses, Abort, RemoteFrame, Use!Detach
  <2> QED BY <2>1 DEF Use!UseNext
<1>6. CASE InputEnds
  <2>1. Use!EndInput
    BY <1>6 DEF InputEnds, CopyFrame, Use!EndInput
  <2> QED BY <2>1 DEF Use!UseNext
<1>7. CASE Release
  <2>1. Use!Release
    BY <1>7 DEF Release, Stay, HandlerFrame, IInv, Stage, Use!Release
  <2> QED BY <2>1 DEF Use!UseNext
<1>8. CASE Report
  <2>1. Use!Tell
    BY <1>8 DEF Report, HandlerFrame, IInv, Stage, Use!Tell
  <2> QED BY <2>1 DEF Use!UseNext
<1>9. ASSUME NEW ok \in BOOLEAN, Dial(ok) PROVE UNCHANGED Use!uvars
  BY <1>9, UseSees DEF Dial, Stay, HandlerFrame
<1>10. CASE OpenFails \/ Complain \/ TakeExit \/ RequestsEnd \/ Drained
  BY <1>10, UseSees DEF OpenFails, Complain, TakeExit, RequestsEnd, AfterRequests, Drained, Stay, HandlerFrame
<1>11. CASE ReaderPush \/ ReaderEnds \/ ForwarderEnds \/ OutputEnds \/ RemoteEnds \/ UNCHANGED vars
  BY <1>11, UseSees DEF ReaderPush, ReaderEnds, ReaderFrame, ForwarderEnds, ForwarderFrame, OutputEnds,
     CopyFrame, RemoteEnds, RemoteFrame, vars
<1>12. ASSUME NEW r \in Requests, Send(r) \/ ForwarderRefuses(r) \/ ForwarderAsks(r) \/ SendFails(r)
       PROVE  UNCHANGED Use!uvars
  BY <1>12, UseSees DEF Send, ClientFrame, ForwarderRefuses, ForwarderAsks, SendFails, ForwarderFrame
<1>13. ASSUME NEW r \in Requests, NEW ok \in BOOLEAN, ForwarderTells(r, ok) \/ Answered(r, ok)
       PROVE  UNCHANGED Use!uvars
  BY <1>13, UseSees DEF ForwarderTells, Answered, ForwarderFrame
<1>14. ASSUME NEW s \in Stream, Copy(s) \/ CopyEnds(s) \/ Writes(s) PROVE UNCHANGED Use!uvars
  BY <1>14, UseSees DEF Copy, CopyEnds, CopyFrame, Writes, RemoteFrame
<1>15. ASSUME NEW e \in Exit, Exits(e) PROVE UNCHANGED Use!uvars
  BY <1>15, UseSees DEF Exits, RemoteFrame
<1> QED BY <1>1, <1>2, <1>3, <1>4, <1>5, <1>6, <1>7, <1>8, <1>9, <1>10, <1>11, <1>12, <1>13, <1>14, <1>15
   DEF Next, Read, Handle, OpenEnds, Forward, OutputEnd

(* A proxied session uses its workspace as every channel must: it           *)
(* implements WorkspaceUse.                                                 *)
THEOREM ProxyImplementsUse == Spec => ImplementsUse
<1>1. Init => Use!UseInit
  BY DEF Init, Use!UseInit
<1>2. IInv /\ [Next]_vars => [Use!UseNext]_(Use!uvars)
  BY UseStep
<1> QED BY <1>1, <1>2, ProxyInvariant, PTL DEF Spec, Safety, ImplementsUse, Use!UseSafety

(* Hence the backend's channel is open only under the lease, and once the   *)
(* client was told the end nothing is taken or opened again.                *)
THEOREM ProxyKeepsUse == Spec => []Use!UseInv /\ Use!UseStays
<1>1. Use!UseInit => Use!UseInv
  BY DEF Use!UseInit, Use!UseInv
<1>2. Use!UseInv /\ [Use!UseNext]_(Use!uvars) => Use!UseInv' /\ [Use!Stays]_(Use!uvars)
  BY DEF Use!UseInv, Use!Stays, Use!UseNext, Use!uvars, Use!ClientEnds, Use!Take, Use!Attach,
         Use!Detach, Use!OutputEnds, Use!EndInput, Use!Release, Use!Tell, Use!ends
<1> QED
  BY <1>1, <1>2, ProxyImplementsUse, PTL DEF ImplementsUse, Use!UseSafety, Use!UseStays

-----------------------------------------------------------------------------
(* Why a proxied session ends.                                              *)

(* The end of the requests cancels, and an exit is taken once.              *)
Wake == /\ reader = "ended" => cancelled
        /\ exit # "none" => remoteExit = "none"

LEMMA WakeNext == IInv /\ Wake /\ [Next]_vars => Wake'
<1> SUFFICES ASSUME IInv, Wake, [Next]_vars PROVE Wake'
  OBVIOUS
<1> USE DEF clientVars, readerVars, handlerVars, forwardVars, copyVars, remoteVars, Wake
<1>1. CASE ClientEOF \/ ReaderPush \/ ReaderEnds
  BY <1>1 DEF ClientEOF, ClientFrame, ReaderPush, ReaderEnds, ReaderFrame
<1>2. ASSUME NEW all \in BOOLEAN, ClientLeaves(all) PROVE Wake'
  <2>1. (cancelled => cancelled') /\ UNCHANGED <<reader, exit, remoteExit>>
    BY <1>2 DEF ClientLeaves, ClientFrame
  <2> QED BY <2>1
<1>3. ASSUME NEW ok \in BOOLEAN, Acquire(ok) \/ Dial(ok) PROVE Wake'
  BY <1>3 DEF Acquire, Dial, Stay, HandlerFrame
<1>4. CASE OpenFails \/ Opens \/ Complain \/ TakeExit \/ RequestsEnd \/ Drained \/ Release \/ Report
  BY <1>4 DEF OpenFails, Opens, Complain, TakeExit, RequestsEnd, AfterRequests, Drained, Release, Report,
     Stay, HandlerFrame
<1>5. ASSUME NEW r \in Requests, Send(r) \/ ForwarderRefuses(r) \/ ForwarderAsks(r) \/ SendFails(r)
      PROVE  Wake'
  BY <1>5 DEF Send, ClientFrame, ForwarderRefuses, ForwarderAsks, SendFails, ForwarderFrame
<1>6. ASSUME NEW r \in Requests, NEW ok \in BOOLEAN, ForwarderTells(r, ok) \/ Answered(r, ok)
      PROVE  Wake'
  BY <1>6 DEF ForwarderTells, Answered, ForwarderFrame
<1>7. ASSUME NEW s \in Stream, Copy(s) \/ CopyEnds(s) \/ Writes(s) PROVE Wake'
  BY <1>7 DEF Copy, CopyEnds, CopyFrame, Writes, RemoteFrame
<1>8. ASSUME NEW e \in Exit, Exits(e) PROVE Wake'
  BY <1>8 DEF Exits, RemoteFrame
<1>9. CASE ForwarderEnds \/ InputEnds \/ OutputEnds \/ RemoteEnds \/ RemoteCloses \/ Abort \/ UNCHANGED vars
  BY <1>9 DEF ForwarderEnds, ForwarderFrame, InputEnds, OutputEnds, CopyFrame, RemoteEnds, RemoteCloses, Abort,
     RemoteFrame, vars
<1> QED BY <1>1, <1>2, <1>3, <1>4, <1>5, <1>6, <1>7, <1>8, <1>9 DEF Next, Read, Handle, OpenEnds, Forward,
   OutputEnd

Finished == /\ pc = "done" /\ reader = "ended" /\ forwarder # "running"
            /\ input # "copying" /\ \A s \in Stream : output[s] # "copying"

(* The guards of the actions that Fairness names, for a client that is gone.*)
CanMove ==
    \/ reader = "reading" /\ (reqs = <<>> \/ cancelled \/ HasRoom)
    \/ pc \in {"acquire", "dial", "complain", "release", "report"}
    \/ pc = "open" /\ cancelled
    \/ pc = "serve" /\ (remoteExit # "none" \/ remote = "closed")
    \/ pc = "drain" /\ outputDone
    \/ forwarder = "running" /\ asked = <<>> /\ (pending # <<>> \/ reader = "ended")
    \/ asked # <<>> /\ remote = "closed"
    \/ cancelled /\ remote = "open"
    \/ input = "copying" /\ remote = "closed"
    \/ \E s \in Stream : output[s] = "copying" /\ (unread[s] > 0 \/ remoteEOF \/ remote = "closed")
    \/ ~outputDone /\ \A s \in Stream : output[s] = "ended"

(* A session that was cancelled, or whose outstanding requests all find     *)
(* room in pending, is never stuck, even when the backend never answers,    *)
(* reads or closes: the only circle of waits goes through a full pending.   *)
Free == cancelled \/ Len(reqs) + Len(pending) <= Cap
ProxyNotStuck == ~clientOpen /\ Free => Finished \/ CanMove

(* proxySession never waits for ever for the sshd once its client is        *)
(* gone, unless the reader of requests is held up by a full pending.        *)
THEOREM ProxyNeverStuck == Spec => []ProxyNotStuck
<1>1. Init => Wake
  BY DEF Init, Wake
<1>2. IInv /\ Wake => ProxyNotStuck
  <2> SUFFICES ASSUME IInv, Wake, ~clientOpen, cancelled \/ Len(reqs) + Len(pending) <= Cap, ~CanMove
               PROVE  Finished
    BY DEF ProxyNotStuck, Free
  <2>1. reader = "ended"
    <3> SUFFICES ASSUME reader # "ended" PROVE FALSE
      OBVIOUS
    <3>1. reader = "reading" /\ reqs # <<>> /\ ~cancelled /\ ~(Len(pending) < Cap)
      BY DEF IInv, TypeOK, CanMove, HasRoom
    <3>2. Len(reqs) \in Nat /\ Len(reqs) # 0 /\ Len(pending) \in Nat
      BY <3>1 DEF IInv, TypeOK
    <3> QED BY <3>1, <3>2
  <2>2. cancelled /\ remote # "open"
    BY <2>1 DEF Wake, CanMove
  <2>3. \A s \in Stream : remote = "closed" => output[s] = "ended"
    BY <2>2 DEF IInv, TypeOK, Copied, CanMove
  <2>4. pc = "done"
    BY <2>2, <2>3 DEF IInv, TypeOK, Stage, CanMove
  <2>5. CASE remote = "none"
    BY <2>1, <2>4, <2>5 DEF IInv, Untouched, Finished
  <2>6. CASE remote = "closed"
    BY <2>1, <2>3, <2>4, <2>6 DEF CanMove, Finished
  <2> QED BY <2>2, <2>5, <2>6 DEF IInv, TypeOK
<1> QED BY <1>1, <1>2, ProxyInvariant, WakeNext, PTL DEF Spec, Safety

(* How much is left to do: with the requests, by the goroutines, and by the *)
(* backend.                                                                 *)
PcRank == [acquire |-> 8, dial |-> 7, open |-> 6, serve |-> 5, drain |-> 4, complain |-> 3, release |-> 2,
           report |-> 1, done |-> 0]
Over == [none |-> 2, reading |-> 1, running |-> 1, copying |-> 1, open |-> 1, failed |-> 0, ended |-> 0,
         closed |-> 0]
Waiting == 3 * Len(reqs) + 2 * Len(pending) + Len(asked)
Running == Over[reader] + PcRank[pc] + Over[forwarder] + Over[input]
             + Over[output["stdout"]] + Over[output["stderr"]] + (IF outputDone THEN 0 ELSE 1)
Coming == Over[remote] + (IF remoteEOF THEN 0 ELSE 1)
            + (MaxUnread - unread["stdout"]) + (MaxUnread - unread["stderr"])
            + (IF exit # "none" THEN 0 ELSE IF remoteExit # "none" THEN 1 ELSE 2)
Work == Waiting + Running + Coming

(* A sum gets smaller when a part does and no other gets larger.            *)
LEMMA SmallerSum ==
    \A a, b, c, x, y, z \in Nat :
        /\ x = a \/ x < a
        /\ y = b \/ y < b
        /\ z = c \/ z < c
        /\ x < a \/ y < b \/ z < c
        => x + y + z < a + b + c
OBVIOUS

LEMMA SumTyped == \A a, b, c \in Nat : a + b + c \in Nat
OBVIOUS

Measured == Waiting \in Nat /\ Running \in Nat /\ Coming \in Nat

LEMMA PlacesRanked ==
    ASSUME TypeOK
    PROVE  Over[reader] \in Nat /\ Over[forwarder] \in Nat /\ Over[input] \in Nat /\ PcRank[pc] \in Nat
<1>1. /\ reader \in {"reading", "ended"} /\ forwarder \in {"none", "running", "failed", "ended"}
      /\ input \in {"none", "copying", "ended"}
      /\ pc \in {"acquire", "dial", "open", "complain", "serve", "drain", "release", "report", "done"}
  BY DEF TypeOK
<1>2. Over[reader] \in Nat
  BY <1>1 DEF Over
<1>3. Over[forwarder] \in Nat
  BY <1>1 DEF Over
<1>4. Over[input] \in Nat
  BY <1>1 DEF Over
<1>5. PcRank[pc] \in Nat
  BY <1>1 DEF PcRank
<1> QED BY <1>2, <1>3, <1>4, <1>5

LEMMA Ranked == TypeOK => Measured
<1> SUFFICES ASSUME TypeOK PROVE Measured
  OBVIOUS
<1>1. Waiting \in Nat
  BY DEF TypeOK, Waiting
<1>2. Running \in Nat
  <2>1. output["stdout"] \in {"none", "copying", "ended"} /\ output["stderr"] \in {"none", "copying", "ended"}
    BY DEF TypeOK, Stream
  <2>2. Over[output["stdout"]] \in Nat /\ Over[output["stderr"]] \in Nat
    BY <2>1 DEF Over
  <2>3. Over[reader] \in Nat /\ Over[forwarder] \in Nat /\ Over[input] \in Nat /\ PcRank[pc] \in Nat
    BY PlacesRanked
  <2> QED BY <2>2, <2>3 DEF Running
<1>3. Coming \in Nat
  <2>1. unread["stdout"] \in 0..MaxUnread /\ unread["stderr"] \in 0..MaxUnread
    BY DEF TypeOK, Stream
  <2>2. Over[remote] \in Nat
    BY DEF TypeOK, Over
  <2>3. (IF remoteEOF THEN 0 ELSE 1) \in Nat
        /\ (IF exit # "none" THEN 0 ELSE IF remoteExit # "none" THEN 1 ELSE 2) \in Nat
    OBVIOUS
  <2> QED BY <2>1, <2>2, <2>3 DEF Coming
<1> QED BY <1>1, <1>2, <1>3 DEF Measured

LEMMA RankedNext == TypeOK' => Measured'
BY Ranked, PTL

(* A request that is received leaves pending, and none is under way.        *)
LEMMA ReceivesShortens ==
    ASSUME IInv, NEW r \in Requests, Receives(r)
    PROVE  /\ Len(pending) \in Nat /\ Len(pending') = Len(pending) - 1
           /\ Len(asked) = 0 /\ Len(reqs) \in Nat /\ forwarder = "running"
BY DEF IInv, TypeOK, Receives

(* A client that is gone stays away and sends no more, so that a pending    *)
(* with room for all that is outstanding keeps it.                          *)
LEMMA GoneStays ==
    ASSUME IInv, Next, ~clientOpen
    PROVE  ~clientOpen' /\ (Free => Free')
<1> USE DEF clientVars, readerVars, handlerVars, forwardVars, copyVars, remoteVars
<1>a. Len(reqs) \in Nat /\ Len(pending) \in Nat
  BY DEF IInv, TypeOK
<1>1. CASE ReaderPush
  <2>1. Len(reqs') = Len(reqs) - 1 /\ Len(pending') = Len(pending) + 1
    BY <1>1 DEF ReaderPush, IInv, TypeOK
  <2>2. clientOpen' = clientOpen /\ cancelled' = cancelled
    BY <1>1 DEF ReaderPush, ReaderFrame
  <2> QED BY <1>a, <2>1, <2>2 DEF Free
<1>2. ASSUME NEW r \in Requests, Receives(r), clientOpen' = clientOpen, reqs' = reqs, cancelled' = cancelled
      PROVE  ~clientOpen' /\ (Free => Free')
  <2>1. Len(pending') = Len(pending) - 1
    BY <1>2, ReceivesShortens
  <2> QED BY <1>a, <1>2, <2>1 DEF Free
<1>3. ASSUME NEW r \in Requests, SendFails(r) PROVE ~clientOpen' /\ (Free => Free')
  BY <1>3 DEF SendFails, ForwarderFrame, Free
<1>4. ASSUME UNCHANGED <<clientOpen, reqs, pending>>,
   cancelled => cancelled' PROVE ~clientOpen' /\ (Free => Free')
  BY <1>4 DEF Free
<1>5. ASSUME NEW r \in Requests, NEW ok \in BOOLEAN, Answered(r, ok) PROVE ~clientOpen' /\ (Free => Free')
  BY <1>4, <1>5 DEF Answered, ForwarderFrame
<1>6. CASE Forward
  <2>1. ASSUME NEW r \in Requests, ForwarderRefuses(r) \/ ForwarderAsks(r) PROVE ~clientOpen' /\ (Free => Free')
    BY <1>2, <2>1 DEF ForwarderRefuses, ForwarderAsks, ForwarderFrame
  <2>2. ASSUME NEW r \in Requests, NEW ok \in BOOLEAN, ForwarderTells(r,
     ok) PROVE ~clientOpen' /\ (Free => Free')
    BY <1>2, <2>2 DEF ForwarderTells, ForwarderFrame
  <2>3. CASE ForwarderEnds
    BY <1>4, <2>3 DEF ForwarderEnds, ForwarderFrame
  <2> QED BY <1>3, <1>6, <2>1, <2>2, <2>3 DEF Forward
<1>7. CASE ReaderEnds
  BY <1>4, <1>7 DEF ReaderEnds, ReaderFrame
<1>8. CASE Handle \/ OpenEnds \/ Complain
  BY <1>4, <1>8 DEF Handle, OpenEnds, Acquire, Dial, OpenFails, Opens, Complain, TakeExit, RequestsEnd, Drained,
     Release, Report, Stay, HandlerFrame
<1>9. CASE InputEnds \/ OutputEnd \/ \E s \in Stream : Writes(s)
  BY <1>4, <1>9 DEF InputEnds, OutputEnd, OutputEnds, CopyEnds, CopyFrame, Writes, RemoteFrame
<1>10. CASE RemoteEnds \/ RemoteCloses \/ Abort \/ \E e \in Exit : Exits(e)
  BY <1>4, <1>10 DEF RemoteEnds, RemoteCloses, Abort, Exits, RemoteFrame
<1>11. /\ ~(\E r \in Requests : Send(r)) /\ ~ClientEOF /\ ~(\E all \in BOOLEAN : ClientLeaves(all))
       /\ ~(\E s \in Stream : Copy(s))
  BY DEF Send, ClientEOF, ClientLeaves, Copy
<1> QED BY <1>1, <1>5, <1>6, <1>7, <1>8, <1>9, <1>10, <1>11 DEF Next, Read

(* Once the client is gone, every step, of whichever goroutine or of the    *)
(* backend, brings the session closer to its end: it takes at most Work     *)
(* more of them, however much the backend still writes, and a session that  *)
(* is free of the circle of waits stays so.                                 *)
WindsDown == ~clientOpen => ~clientOpen' /\ (Free => Free') /\ Work \in Nat /\ Work' < Work

(* Every step of a proxied session whose client is gone makes Work smaller, *)
(* and none fills pending again.                                            *)
THEOREM ProxyWindsDown == Spec => [][WindsDown]_vars
<1>1. IInv /\ IInv' /\ Wake /\ [Next]_vars => [WindsDown]_vars
  <2> SUFFICES ASSUME IInv, IInv', Wake, Next, ~clientOpen PROVE Work \in Nat /\ Work' < Work
    BY GoneStays DEF WindsDown
  <2>a. Waiting \in Nat /\ Running \in Nat /\ Coming \in Nat
    BY Ranked DEF IInv, Measured
  <2>b. Waiting' \in Nat /\ Running' \in Nat /\ Coming' \in Nat
    BY RankedNext DEF IInv, Measured
  <2>c. Work = Waiting + Running + Coming /\ Work' = Waiting' + Running' + Coming'
    BY DEF Work
  <2>g. Work \in Nat
    BY <2>a, <2>c, SumTyped, Zenon
  <2> SUFFICES Work' < Work
    BY <2>g
  <2> USE DEF clientVars, readerVars, handlerVars, forwardVars, copyVars, remoteVars
  <2>d. /\ UNCHANGED <<reqs, pending, asked>> => UNCHANGED Waiting
        /\ UNCHANGED <<reader, pc, forwarder, input, output, outputDone>> => UNCHANGED Running
        /\ UNCHANGED <<remote, remoteEOF, unread, exit, remoteExit>> => UNCHANGED Coming
    BY DEF Waiting, Running, Coming
  <2>e. /\ output \in [Stream -> {"none", "copying", "ended"}]
        /\ Over[reader] \in Nat /\ Over[forwarder] \in Nat /\ Over[input] \in Nat /\ PcRank[pc] \in Nat
        /\ Over[output["stdout"]] \in Nat /\ Over[output["stderr"]] \in Nat
    <3>1. output \in [Stream -> {"none", "copying", "ended"}]
      BY DEF IInv, TypeOK
    <3>2. output["stdout"] \in {"none", "copying", "ended"} /\ output["stderr"] \in {"none", "copying", "ended"}
      BY <3>1 DEF Stream
    <3>3. Over[output["stdout"]] \in Nat /\ Over[output["stderr"]] \in Nat
      BY <3>2 DEF Over
    <3>4. Over[reader] \in Nat /\ Over[forwarder] \in Nat /\ Over[input] \in Nat /\ PcRank[pc] \in Nat
      BY PlacesRanked DEF IInv
    <3> QED BY <3>1, <3>3, <3>4
  <2>f. /\ unread \in [Stream -> 0..MaxUnread] /\ Over[remote] \in Nat
        /\ unread["stdout"] \in 0..MaxUnread /\ unread["stderr"] \in 0..MaxUnread
    <3>1. unread \in [Stream -> 0..MaxUnread] /\ remote \in {"none", "open", "closed"}
      BY DEF IInv, TypeOK
    <3>2. Over[remote] \in Nat
      BY <3>1 DEF Over
    <3>3. unread["stdout"] \in 0..MaxUnread /\ unread["stderr"] \in 0..MaxUnread
      BY <3>1 DEF Stream
    <3> QED BY <3>1, <3>2, <3>3
  <2>1. CASE ReaderPush
    <3>1. Len(reqs') = Len(reqs) - 1 /\ Len(pending') = Len(pending) + 1 /\ Len(reqs) \in Nat
          /\ Len(pending) \in Nat
      BY <2>1 DEF ReaderPush, IInv, TypeOK
    <3>2. Len(asked) \in Nat /\ asked' = asked
      BY <2>1 DEF ReaderPush, ReaderFrame, IInv, TypeOK
    <3>3. Waiting' < Waiting
      BY <3>1, <3>2 DEF Waiting
    <3>4. Running' = Running /\ Coming' = Coming
      BY <2>1, <2>d DEF ReaderPush, ReaderFrame
    <3> QED BY <2>a, <2>b, <2>c, <3>3, <3>4, SmallerSum, Zenon
  <2>2. CASE ReaderEnds \/ ForwarderEnds \/ InputEnds
    <3>a. /\ UNCHANGED <<pc, output, outputDone>>
          /\ \/ reader = "reading" /\ reader' = "ended" /\ UNCHANGED <<forwarder, input>>
             \/ forwarder = "running" /\ forwarder' = "ended" /\ UNCHANGED <<reader, input>>
             \/ input = "copying" /\ input' = "ended" /\ UNCHANGED <<reader, forwarder>>
      BY <2>2 DEF ReaderEnds, ReaderFrame, ForwarderEnds, ForwarderFrame, InputEnds, CopyFrame
    <3>1. Running' < Running
      BY <2>e, <3>a DEF Running, Over
    <3>2. Waiting' = Waiting /\ Coming' = Coming
      BY <2>2, <2>d DEF ReaderEnds, ReaderFrame, ForwarderEnds, ForwarderFrame, InputEnds, CopyFrame
    <3> QED BY <2>a, <2>b, <2>c, <3>1, <3>2, SmallerSum, Zenon
  <2>3. ASSUME NEW ok \in BOOLEAN, Acquire(ok) \/ Dial(ok) PROVE Work' < Work
    <3>1. PcRank[pc'] < PcRank[pc]
      BY <2>3 DEF Acquire, Dial, PcRank
    <3>2. UNCHANGED <<reader, forwarder, input, output, outputDone>> /\ Waiting' = Waiting /\ Coming' = Coming
      BY <2>3, <2>d DEF Acquire, Dial, Stay, HandlerFrame
    <3>3. PcRank[pc'] \in Nat
      BY DEF IInv, TypeOK, PcRank
    <3>4. Running' < Running
      BY <2>e, <3>1, <3>2, <3>3 DEF Running
    <3> QED BY <2>a, <2>b, <2>c, <3>2, <3>4, SmallerSum, Zenon
  <2>4. CASE OpenFails \/ Complain \/ RequestsEnd \/ Drained \/ Release \/ Report
    <3>1. PcRank[pc'] < PcRank[pc]
      BY <2>4 DEF OpenFails, Complain, RequestsEnd, AfterRequests, Drained, Release, Report, PcRank
    <3>2. UNCHANGED <<reader, forwarder, input, output, outputDone>> /\ Waiting' = Waiting /\ Coming' = Coming
      BY <2>4, <2>d DEF OpenFails, Complain, RequestsEnd, Drained, Release, Report, Stay, HandlerFrame
    <3>3. PcRank[pc'] \in Nat
      BY DEF IInv, TypeOK, PcRank
    <3>4. Running' < Running
      BY <2>e, <3>1, <3>2, <3>3 DEF Running
    <3> QED BY <2>a, <2>b, <2>c, <3>2, <3>4, SmallerSum, Zenon
  <2>5. CASE Opens
    <3>1. UNCHANGED <<reader, outputDone, remoteEOF, unread, exit, remoteExit>> /\ Waiting' = Waiting
      BY <2>5, <2>d DEF Opens, HandlerFrame
    <3>2. remote = "none" /\ remote' = "open" /\ forwarder = "none" /\ forwarder' = "running"
      BY <2>5 DEF Opens, IInv, Stage, Untouched
    <3>3. input = "none" /\ output["stdout"] = "none" /\ output["stderr"] = "none"
      BY <3>2 DEF IInv, Untouched, Stream
    <3>4. input' = "copying" /\ output'["stdout"] = "copying" /\ output'["stderr"] = "copying"
          /\ pc = "open" /\ pc' = "serve"
      BY <2>5 DEF Opens, Stream
    <3>5. Running' < Running
      BY <2>e, <3>1, <3>2, <3>3, <3>4 DEF Running, Over, PcRank
    <3>6. Coming' < Coming
      BY <2>f, <3>1, <3>2 DEF Coming, Over
    <3> QED BY <2>a, <2>b, <2>c, <3>1, <3>5, <3>6, SmallerSum, Zenon
  <2>6. CASE TakeExit \/ \E e \in Exit : Exits(e)
    <3>1. UNCHANGED <<remote, remoteEOF, unread>> /\ Waiting' = Waiting /\ Running' = Running
      BY <2>6, <2>d DEF TakeExit, Exits, HandlerFrame, RemoteFrame
    <3>2. \/ exit = "none" /\ remoteExit # "none" /\ exit' # "none"
          \/ exit = "none" /\ exit' = exit /\ remoteExit = "none" /\ remoteExit' # "none"
      BY <2>6 DEF TakeExit, Exits, Exit, RemoteFrame, Wake
    <3>3. Coming' < Coming
      BY <2>f, <3>1, <3>2 DEF Coming
    <3> QED BY <2>a, <2>b, <2>c, <3>1, <3>3, SmallerSum, Zenon
  <2>7. ASSUME NEW r \in Requests, ForwarderRefuses(r) \/ ForwarderAsks(r) PROVE Work' < Work
    <3>1. /\ Len(pending) \in Nat /\ Len(pending') = Len(pending) - 1 /\ Len(asked) = 0 /\ Len(reqs) \in Nat
          /\ Len(asked') = 0 \/ Len(asked') = 1
      BY <2>7, ReceivesShortens DEF ForwarderRefuses, ForwarderAsks
    <3>2. reqs' = reqs /\ Running' = Running /\ Coming' = Coming
      BY <2>7, <2>d DEF ForwarderRefuses, ForwarderAsks, ForwarderFrame
    <3>3. ASSUME Len(asked') = 0 PROVE Waiting' < Waiting
      BY <3>1, <3>2, <3>3 DEF Waiting
    <3>4. ASSUME Len(asked') = 1 PROVE Waiting' < Waiting
      BY <3>1, <3>2, <3>4 DEF Waiting
    <3>5. Waiting' < Waiting
      BY <3>1, <3>3, <3>4
    <3> QED BY <2>a, <2>b, <2>c, <3>2, <3>5, SmallerSum, Zenon
  <2>8. ASSUME NEW r \in Requests, NEW ok \in BOOLEAN, ForwarderTells(r, ok) PROVE Work' < Work
    <3>1. /\ Len(pending) \in Nat /\ Len(pending') = Len(pending) - 1 /\ Len(asked) = 0 /\ Len(reqs) \in Nat
      BY <2>8, ReceivesShortens DEF ForwarderTells
    <3>2. reqs' = reqs /\ asked' = asked /\ Running' = Running /\ Coming' = Coming
      BY <2>8, <2>d DEF ForwarderTells, ForwarderFrame
    <3>3. Waiting' < Waiting
      BY <3>1, <3>2 DEF Waiting
    <3> QED BY <2>a, <2>b, <2>c, <3>2, <3>3, SmallerSum, Zenon
  <2>9. ASSUME NEW r \in Requests, NEW ok \in BOOLEAN, Answered(r, ok) PROVE Work' < Work
    <3>1. Len(asked) \in Nat /\ Len(asked) # 0 /\ Len(asked') = 0 /\ Len(reqs) \in Nat /\ Len(pending) \in Nat
      BY <2>9 DEF Answered, IInv, TypeOK
    <3>2. reqs' = reqs /\ pending' = pending /\ Running' = Running /\ Coming' = Coming
      BY <2>9, <2>d DEF Answered, ForwarderFrame
    <3>3. Waiting' < Waiting
      BY <3>1, <3>2 DEF Waiting
    <3> QED BY <2>a, <2>b, <2>c, <3>2, <3>3, SmallerSum, Zenon
  <2>10. ASSUME NEW r \in Requests, SendFails(r) PROVE Work' < Work
    <3>1. UNCHANGED <<reqs, reader, pc, input, output, outputDone>> /\ Coming' = Coming
      BY <2>10, <2>d DEF SendFails, ForwarderFrame
    <3>2. forwarder = "running" /\ forwarder' = "failed"
      BY <2>10 DEF SendFails, Receives, IInv, Filter
    <3>3. Running' < Running
      BY <2>e, <3>1, <3>2 DEF Running, Over
    <3>4. /\ Len(asked) \in Nat /\ Len(asked') = 0 /\ Len(reqs) \in Nat
          /\ Len(pending) \in Nat /\ Len(pending') \in Nat /\ Len(pending') <= Len(pending)
      BY <2>10, ReceivesShortens DEF SendFails, IInv, TypeOK
    <3>5. Waiting' = Waiting \/ Waiting' < Waiting
      BY <3>1, <3>4 DEF Waiting
    <3> QED BY <2>a, <2>b, <2>c, <3>1, <3>3, <3>5, SmallerSum, Zenon
  <2>11. ASSUME NEW s \in Stream, CopyEnds(s) PROVE Work' < Work
    <3>1. UNCHANGED <<reader, pc, forwarder, input, outputDone>> /\ Waiting' = Waiting /\ Coming' = Coming
      BY <2>11, <2>d DEF CopyEnds, CopyFrame
    <3>2. output[s] = "copying" /\ output' = [output EXCEPT ![s] = "ended"]
      BY <2>11 DEF CopyEnds
    <3>3. Running' < Running
      BY <2>e, <3>1, <3>2 DEF Running, Over, Stream
    <3> QED BY <2>a, <2>b, <2>c, <3>1, <3>3, SmallerSum, Zenon
  <2>12. CASE OutputEnds
    <3>1. UNCHANGED <<reader, pc, forwarder, input, output>> /\ Waiting' = Waiting /\ Coming' = Coming
          /\ ~outputDone /\ outputDone'
      BY <2>12, <2>d DEF OutputEnds, CopyFrame
    <3>2. Running' < Running
      BY <2>e, <3>1 DEF Running
    <3> QED BY <2>a, <2>b, <2>c, <3>1, <3>2, SmallerSum, Zenon
  <2>13. ASSUME NEW s \in Stream, Writes(s) PROVE Work' < Work
    <3>1. UNCHANGED <<remote, remoteEOF, exit, remoteExit>> /\ Waiting' = Waiting /\ Running' = Running
      BY <2>13, <2>d DEF Writes, RemoteFrame
    <3>2. unread' = [unread EXCEPT ![s] = @ + 1]
      BY <2>13 DEF Writes
    <3>3. (MaxUnread - unread'["stdout"]) + (MaxUnread - unread'["stderr"])
             < (MaxUnread - unread["stdout"]) + (MaxUnread - unread["stderr"])
      BY <2>f, <3>2 DEF Stream
    <3>4. unread'["stdout"] \in Nat /\ unread'["stderr"] \in Nat
      BY <2>f, <3>2 DEF Stream
    <3>5. Coming' < Coming
      BY <2>f, <3>1, <3>3, <3>4 DEF Coming
    <3> QED BY <2>a, <2>b, <2>c, <3>1, <3>5, SmallerSum, Zenon
  <2>14. CASE RemoteEnds \/ RemoteCloses \/ Abort
    <3>1. UNCHANGED <<unread, exit, remoteExit>> /\ Waiting' = Waiting /\ Running' = Running
      BY <2>14, <2>d DEF RemoteEnds, RemoteCloses, Abort, RemoteFrame
    <3>2. \/ remote' = remote /\ ~remoteEOF /\ remoteEOF'
          \/ remoteEOF' = remoteEOF /\ remote = "open" /\ remote' = "closed"
      BY <2>14 DEF RemoteEnds, RemoteCloses, Abort
    <3>3. Coming' < Coming
      BY <2>f, <3>1, <3>2 DEF Coming, Over
    <3> QED BY <2>a, <2>b, <2>c, <3>1, <3>3, SmallerSum, Zenon
  <2>15. /\ ~(\E r \in Requests : Send(r)) /\ ~ClientEOF /\ ~(\E all \in BOOLEAN : ClientLeaves(all))
         /\ ~(\E s \in Stream : Copy(s))
    BY DEF Send, ClientEOF, ClientLeaves, Copy
  <2> QED
    BY <2>1, <2>2, <2>3, <2>4, <2>5, <2>6, <2>7, <2>8, <2>9, <2>10, <2>11, <2>12, <2>13, <2>14, <2>15
       DEF Next, Read, Handle, OpenEnds, Forward, OutputEnd
<1>2. Init => Wake
  BY DEF Init, Wake
<1> QED BY <1>1, <1>2, ProxyInvariant, WakeNext, PTL DEF Spec, Safety

=============================================================================
