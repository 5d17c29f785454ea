--------------------------- MODULE SessionProofs ---------------------------
(***************************************************************************)
(* Proofs about Session for queues and terminals of every size and any     *)
(* number of requests.                                                     *)
(***************************************************************************)
EXTENDS Session, SequenceTheorems, TLAPS

(* What holds at each place of the handler: the queue is open and, from the *)
(* start on, somebody consumes requests; who holds the lease; what has been *)
(* reported.                                                                *)
Stage ==
    /\ pc = "requests" => /\ queueOpen /\ drainer = "none" /\ lease = "none"
                          /\ resizer = "none" /\ queue = <<>>
    /\ pc \notin {"requests", "done"} => queueOpen /\ drainer # "none"
    /\ pc = "acquire" => lease = "none" /\ resizer = "none"
    /\ pc \in {"run", "release"} => lease = "held"
    /\ pc \in {"report", "join", "done"} => lease # "held"
    /\ exitSent => pc \in {"join", "done"}
    /\ pc = "join" => exitSent
    /\ pc = "done" => drainer # "running" /\ (drainer # "none" => exitSent)
    /\ drainer = "none" => resizer = "none"
    /\ ~panicked

(* Unless it was lost, the size asked for last is the handler's local       *)
(* before the start, and then the newest in the queue or, when the reader   *)
(* has emptied it, the size of the terminal.                                *)
Newest ==
    /\ pc = "requests" /\ ~lost => size = latest
    /\ drainer # "none" /\ ~lost =>
          IF queue = <<>>
          THEN resizer # "none" /\ current = latest % Width
          ELSE queue[Len(queue)] = latest % Width

IInv == TypeOK /\ Stage /\ Newest

USE SessionAssumption

(* push on the open queue keeps it a bounded queue of sizes that ends with  *)
(* the size pushed, if that fits.                                           *)
LEMMA PushKeeps ==
    ASSUME TypeOK, queueOpen, NEW s \in Size, Push(s)
    PROVE  /\ queue' \in Seq(0..Width - 1) /\ Len(queue') <= Cap /\ panicked' = panicked
           /\ Fits => queue' # <<>> /\ queue'[Len(queue')] = s % Width
<1>1. s % Width \in 0..Width - 1
  BY DEF Size
<1>2. CASE Fits
  <2>1. queue' = Append(queue, s % Width)
    BY <1>2 DEF Push
  <2>2. queue' \in Seq(0..Width - 1) /\ Len(queue') = Len(queue) + 1
    BY <1>1, <2>1 DEF TypeOK
  <2>3. queue' # <<>> /\ queue'[Len(queue')] = s % Width
    BY <1>1, <2>1, <2>2 DEF TypeOK
  <2> QED BY <1>2, <2>2, <2>3 DEF Push, Fits, TypeOK
<1>3. CASE ~Fits
  BY <1>3 DEF Push, TypeOK
<1> QED BY <1>2, <1>3

(* Consuming a request leaves a sequence of requests.                       *)
LEMMA ConsumeKeeps ==
    ASSUME TypeOK, NEW r \in Request, Consume(r)
    PROVE  reqs' \in Seq(Request) /\ budget' = budget /\ clientOpen' = clientOpen
BY DEF TypeOK, Consume

(* The invariant holds at first.                                            *)
LEMMA IInvInit == Init => IInv
<1> SUFFICES ASSUME Init PROVE IInv
  OBVIOUS
<1>1. 1 \in Size /\ 0 \in Size /\ 0 \in 0..Width - 1
  BY DEF Size
<1>2. <<>> \in Seq(Request) /\ <<>> \in Seq(0..Width - 1) /\ Len(<<>>) = 0
  OBVIOUS
<1>3. reqs \in Seq(Request) /\ queue \in Seq(0..Width - 1)
  BY <1>2 DEF Init
<1>4. Len(queue) <= Cap /\ budget \in 0..MaxRequests
  BY <1>2 DEF Init
<1>5. size \in Size /\ latest \in Size /\ size = latest /\ current \in 0..Width - 1
  BY <1>1 DEF Init, DefaultSize
<1>6. TypeOK
  BY <1>3, <1>4, <1>5 DEF Init, TypeOK
<1> QED BY <1>5, <1>6 DEF Init, IInv, Stage, Newest

(* Every step keeps it.                                                     *)
LEMMA IInvNext == IInv /\ [Next]_vars => IInv'
<1> SUFFICES ASSUME IInv, [Next]_vars PROVE IInv'
  OBVIOUS
<1> USE DEF IInv
<1>1. ASSUME NEW r \in Request, Send(r) PROVE IInv'
  <2>1. reqs' \in Seq(Request) /\ budget' \in 0..MaxRequests
    BY <1>1 DEF Send, TypeOK
  <2> QED BY <1>1, <2>1 DEF Send, TypeOK, Stage, Newest, queueVars, asks, handlerVars, readerVars
<1>2. CASE ClientClose
  BY <1>2 DEF ClientClose, TypeOK, Stage, Newest, queueVars, asks, handlerVars, readerVars
<1>3. CASE Disconnect
  BY <1>3 DEF Disconnect, TypeOK, Stage, Newest, queueVars, asks, handlerVars, readerVars
<1>4. ASSUME NEW r \in Request, Pty(r) PROVE IInv'
  <2>1. /\ tty' \in BOOLEAN /\ size' \in Size /\ latest' \in Size /\ lost' \in BOOLEAN
        /\ pc = "requests" /\ drainer = "none"
        /\ ~lost' => size' = latest'
    BY <1>4 DEF Pty, Asks, asks, TypeOK, Request, Stage, Newest
  <2>2. reqs' \in Seq(Request) /\ budget' = budget /\ clientOpen' = clientOpen
    BY <1>4, ConsumeKeeps DEF Pty
  <2> QED BY <1>4, <2>1, <2>2 DEF Pty, TypeOK, Stage, Newest, readerVars
<1>5. ASSUME NEW r \in Request, Refuse(r) PROVE IInv'
  <2>1. reqs' \in Seq(Request) /\ budget' = budget /\ clientOpen' = clientOpen
    BY <1>5, ConsumeKeeps DEF Refuse
  <2>2. /\ latest' \in Size /\ lost' \in BOOLEAN /\ drainer = "none"
        /\ ~lost' => latest' = latest /\ ~lost
    BY <1>5 DEF Refuse, Asks, asks, TypeOK, Request, Stage
  <2> QED BY <1>5, <2>1, <2>2 DEF Refuse, TypeOK, Stage, Newest, handlerVars, readerVars
<1>6. ASSUME NEW r \in Request, Start(r) PROVE IInv'
  <2>1. reqs' \in Seq(Request) /\ budget' = budget /\ clientOpen' = clientOpen
    BY <1>6, ConsumeKeeps DEF Start
  <2>2. queueOpen /\ size \in Size
    BY <1>6 DEF Start, Stage, TypeOK
  <2>a. Fits
    BY <1>6 DEF Start, Stage, Fits
  <2>3. /\ queue' \in Seq(0..Width - 1) /\ Len(queue') <= Cap /\ panicked' = panicked
        /\ queue' # <<>> /\ queue'[Len(queue')] = size % Width
    BY <1>6, <2>2, <2>a, PushKeeps DEF Start
  <2>4. TypeOK'
    BY <1>6, <2>1, <2>3 DEF Start, TypeOK, asks, readerVars
  <2>5. Stage'
    BY <1>6, <2>3 DEF Start, Stage, TypeOK, readerVars
  <2>6. Newest'
    BY <1>6, <2>3 DEF Start, Newest, asks
  <2> QED BY <2>4, <2>5, <2>6
<1>7. CASE NeverStarted
  BY <1>7 DEF NeverStarted, TypeOK, Stage, Newest, clientVars, queueVars, asks, readerVars
<1>8. ASSUME NEW r \in Request, DrainWindow(r) PROVE IInv'
  <2>1. reqs' \in Seq(Request) /\ budget' = budget /\ clientOpen' = clientOpen
    BY <1>8, ConsumeKeeps DEF DrainWindow
  <2>2. queueOpen /\ r.size \in Size
    BY <1>8 DEF DrainWindow, Stage, TypeOK, Request
  <2>a. latest' = r.size /\ lost' \in BOOLEAN /\ (~lost' => Fits)
    BY <1>8 DEF DrainWindow, Asks, Fits, TypeOK
  <2>3. /\ queue' \in Seq(0..Width - 1) /\ Len(queue') <= Cap /\ panicked' = panicked
        /\ ~lost' => queue' # <<>> /\ queue'[Len(queue')] = r.size % Width
    BY <1>8, <2>2, <2>a, PushKeeps DEF DrainWindow
  <2>4. TypeOK'
    BY <1>8, <2>1, <2>2, <2>a, <2>3 DEF DrainWindow, TypeOK, handlerVars, readerVars
  <2>5. Stage'
    BY <1>8, <2>3 DEF DrainWindow, Stage, handlerVars, readerVars
  <2>6. Newest'
    BY <1>8, <2>a, <2>3 DEF DrainWindow, Newest, Stage, handlerVars
  <2> QED BY <2>4, <2>5, <2>6
<1>9. ASSUME NEW r \in Request, DrainOther(r) PROVE IInv'
  <2>1. reqs' \in Seq(Request) /\ budget' = budget /\ clientOpen' = clientOpen
    BY <1>9, ConsumeKeeps DEF DrainOther
  <2> QED BY <1>9, <2>1 DEF DrainOther, TypeOK, Stage, Newest, queueVars, asks, handlerVars, readerVars
<1>10. CASE DrainEnd
  BY <1>10 DEF DrainEnd, TypeOK, Stage, Newest, clientVars, queueVars, asks, handlerVars, readerVars
<1>11. CASE Acquired
  BY <1>11 DEF Acquired, RunFrame, TypeOK, Stage, Newest, clientVars, queueVars, asks
<1>12. CASE NotAcquired
  BY <1>12 DEF NotAcquired, RunFrame, TypeOK, Stage, Newest, clientVars, queueVars, asks, readerVars
<1>13. ASSUME NEW ok \in BOOLEAN, RunEnds(ok) PROVE IInv'
  BY <1>13 DEF RunEnds, RunFrame, TypeOK, Stage, Newest, clientVars, queueVars, asks, readerVars
<1>14. CASE Complain
  BY <1>14 DEF Complain, RunFrame, TypeOK, Stage, Newest, clientVars, queueVars, asks, readerVars
<1>15. CASE Release
  BY <1>15 DEF Release, RunFrame, TypeOK, Stage, Newest, clientVars, queueVars, asks, readerVars
<1>16. CASE Report
  BY <1>16 DEF Report, RunFrame, TypeOK, Stage, Newest, clientVars, queueVars, asks, readerVars
<1>17. CASE Join
  BY <1>17 DEF Join, TypeOK, Stage, Newest, clientVars, queueVars, asks, readerVars
<1>18. CASE Resize
  <2>1. /\ current' \in 0..Width - 1
        /\ queue' \in Seq(0..Width - 1) /\ Len(queue') = Len(queue) - 1
    BY <1>18 DEF Resize, TypeOK
  <2>2. CASE Len(queue) = 1
    BY <1>18, <2>1, <2>2 DEF Resize, asks, TypeOK, Stage, Newest, clientVars, handlerVars
  <2>3. CASE Len(queue) # 1
    <3>1. queue' = Tail(queue) /\ queue \in Seq(0..Width - 1) /\ Len(queue) \in Nat
          /\ Len(queue) > 1
      BY <1>18, <2>1, <2>3 DEF Resize, TypeOK
    <3>2. /\ Len(Tail(queue)) = Len(queue) - 1
          /\ \A i \in 1..Len(Tail(queue)) : Tail(queue)[i] = queue[i + 1]
      <4>1. queue # <<>>
        BY <3>1
      <4> QED BY <3>1, <4>1, HeadTailProperties, Zenon
    <3>3. queue' # <<>> /\ queue'[Len(queue')] = queue[Len(queue)]
      <4>1. Len(queue) - 1 \in 1..Len(Tail(queue)) /\ Len(queue) - 1 + 1 = Len(queue)
        BY <3>1, <3>2
      <4>2. Tail(queue)[Len(queue) - 1] = queue[Len(queue) - 1 + 1]
        BY <3>2, <4>1
      <4>3. Tail(queue) # <<>>
        <5>1. Len(Tail(queue)) # 0
          BY <3>1, <3>2
        <5>2. Len(<<>>) = 0
          OBVIOUS
        <5> QED BY <5>1, <5>2, Zenon
      <4>4. queue[Len(queue) - 1 + 1] = queue[Len(queue)]
        BY <4>1, Zenon
      <4>5. Tail(queue)[Len(Tail(queue))] = queue[Len(queue)]
        BY <3>2, <4>2, <4>4, Zenon
      <4> QED BY <3>1, <4>3, <4>5, Zenon
    <3> QED BY <1>18, <2>1, <3>1, <3>3 DEF Resize, asks, TypeOK, Stage, Newest, clientVars, handlerVars
  <2> QED BY <2>2, <2>3
<1>19. CASE NoMoreSizes
  BY <1>19 DEF NoMoreSizes, TypeOK, Stage, Newest, clientVars, queueVars, asks, handlerVars
<1>20. CASE UNCHANGED vars
  BY <1>20 DEF vars, TypeOK, Stage, Newest, clientVars, queueVars, asks, handlerVars, readerVars
<1> QED
  BY <1>1, <1>2, <1>3, <1>4, <1>5, <1>6, <1>7, <1>8, <1>9, <1>10, <1>11, <1>12, <1>13,
     <1>14, <1>15, <1>16, <1>17, <1>18, <1>19, <1>20 DEF Next, Handle, Drain, ReadSizes

(* The inductive invariant of a session.                                    *)
THEOREM SessionInvariant == Safety => []IInv
BY IInvInit, IInvNext, PTL DEF Safety

(* The state keeps its types, and the queue its capacity.                   *)
THEOREM SessionTypes == Safety => []TypeOK
<1>1. IInv => TypeOK
  BY DEF IInv
<1> QED BY <1>1, SessionInvariant, PTL

(* Nobody sends on the closed resize queue.                                 *)
THEOREM SessionNeverPanics == Safety => []NoSendOnClosedQueue
<1>1. IInv => NoSendOnClosedQueue
  BY DEF IInv, Stage, NoSendOnClosedQueue
<1> QED BY <1>1, SessionInvariant, PTL

(* exit-status follows the release, and no session ends unreported.         *)
THEOREM SessionReports == Safety => []ExitStatusAfterRelease
<1>1. IInv => ExitStatusAfterRelease
  BY DEF IInv, Stage, ExitStatusAfterRelease
<1> QED BY <1>1, SessionInvariant, PTL

(* The terminal takes the size of the last request, cut to its width,       *)
(* unless that very request was lost; an earlier loss does not matter.      *)
THEOREM SessionFollows == Safety => []TerminalFollows
<1>1. IInv => TerminalFollows
  <2> SUFFICES ASSUME IInv, resizer = "reading", queue = <<>>, ~lost
               PROVE  current = latest % Width
    BY DEF TerminalFollows
  <2>1. drainer # "none"
    BY DEF IInv, Stage, TypeOK
  <2> QED BY <2>1 DEF IInv, Newest
<1> QED BY <1>1, SessionInvariant, PTL

-----------------------------------------------------------------------------
(* What the contract of a workspace's users sees of a session.              *)
LEMMA UseSees == UNCHANGED <<clientOpen, pc, lease, exitSent>> => UNCHANGED Use!uvars
BY DEF Use!uvars, Use!ends

(* Every step is a step of the contract, or invisible to it.                *)
LEMMA UseStep ==
    ASSUME IInv, [Next]_vars
    PROVE  Use!UseNext \/ UNCHANGED Use!uvars
<1> USE DEF clientVars, queueVars, asks, handlerVars, readerVars, Use!ends
<1>1. CASE ClientClose \/ Disconnect
  <2>1. Use!ClientEnds
    BY <1>1 DEF ClientClose, Disconnect, Use!ClientEnds
  <2> QED BY <2>1 DEF Use!UseNext
<1>2. CASE NeverStarted
  <2>1. Use!Tell
    BY <1>2 DEF NeverStarted, IInv, Stage, Use!Tell
  <2> QED BY <2>1 DEF Use!UseNext
<1>3. CASE Acquired
  <2>1. lease = "none" /\ ~exitSent
    BY <1>3 DEF Acquired, IInv, Stage
  <2>2. Use!Take
    BY <1>3, <2>1 DEF Acquired, RunFrame, Use!Take
  <2> QED BY <2>2 DEF Use!UseNext
<1>4. ASSUME NEW ok \in BOOLEAN, RunEnds(ok) PROVE Use!UseNext
  <2>1. Use!Detach
    BY <1>4 DEF RunEnds, RunFrame, Use!Detach
  <2> QED BY <2>1 DEF Use!UseNext
<1>5. CASE Release
  <2>1. Use!Release
    BY <1>5 DEF Release, RunFrame, IInv, Stage, Use!Release
  <2> QED BY <2>1 DEF Use!UseNext
<1>6. CASE Report
  <2>1. Use!Tell
    BY <1>6 DEF Report, RunFrame, IInv, Stage, Use!Tell
  <2> QED BY <2>1 DEF Use!UseNext
<1>7. CASE NotAcquired \/ Complain \/ Join
  <2>1. /\ UNCHANGED <<clientOpen, lease, exitSent>>
        /\ pc # "run" /\ pc' # "run"
        /\ (exitSent \/ pc = "done") <=> (exitSent' \/ pc' = "done")
    BY <1>7 DEF NotAcquired, Complain, Join, RunFrame, IInv, Stage
  <2> QED BY <2>1 DEF Use!uvars
<1>8. ASSUME NEW r \in Request, Send(r) \/ Pty(r) \/ Refuse(r) \/ DrainWindow(r) \/ DrainOther(r)
      PROVE  UNCHANGED Use!uvars
  BY <1>8, UseSees DEF Send, Pty, Refuse, DrainWindow, DrainOther, Consume
<1>9. ASSUME NEW r \in Request, Start(r) PROVE UNCHANGED Use!uvars
  BY <1>9 DEF Start, Consume, Use!uvars
<1>10. CASE DrainEnd \/ Resize \/ NoMoreSizes \/ UNCHANGED vars
  BY <1>10, UseSees DEF DrainEnd, Resize, NoMoreSizes, vars
<1> QED
  BY <1>1, <1>2, <1>3, <1>4, <1>5, <1>6, <1>7, <1>8, <1>9, <1>10
     DEF Next, Handle, Drain, ReadSizes

(* A session uses its workspace as every channel must: it implements        *)
(* WorkspaceUse.                                                            *)
THEOREM SessionImplementsUse == Safety => ImplementsUse
<1>1. Init => Use!UseInit
  BY DEF Init, Use!UseInit
<1>2. IInv /\ [Next]_vars => [Use!UseNext]_(Use!uvars)
  BY UseStep
<1> QED BY <1>1, <1>2, SessionInvariant, PTL DEF Safety, ImplementsUse, Use!UseSafety

(* Hence the exec stream runs only under the lease, and once the client has *)
(* its exit-status nothing is taken or streamed again.                      *)
THEOREM SessionKeepsUse == Safety => []Use!UseInv /\ Use!UseStays
<1>1. Use!UseInit => Use!UseInv
  BY DEF Use!UseInit, Use!UseInv
<1>2. Use!UseInv /\ [Use!UseNext]_(Use!uvars) => Use!UseInv' /\ [Use!Stays]_(Use!uvars)
  BY DEF Use!UseInv, Use!Stays, Use!UseNext, Use!uvars, Use!ClientEnds, Use!Take, Use!Attach,
         Use!Detach, Use!OutputEnds, Use!EndInput, Use!Release, Use!Tell, Use!ends
<1> QED
  BY <1>1, <1>2, SessionImplementsUse, PTL DEF ImplementsUse, Use!UseSafety, Use!UseStays

-----------------------------------------------------------------------------
(* Why a session ends.  Once the client is gone, every step of whichever    *)
(* party brings it closer to its end, by this measure, and until then some  *)
(* party that the scheduler has to serve can take one.                      *)
PcRank == [requests |-> 9, acquire |-> 8, run |-> 6, complain |-> 5, release |-> 4, report |-> 3,
           join |-> 2, done |-> 0]
DrainerRank == [none |-> 2, running |-> 1, ended |-> 0]
ResizerRank == [none |-> 0, reading |-> 1, ended |-> 0]
Work == 2 * Len(reqs) + Len(queue) + PcRank[pc] + DrainerRank[drainer] + ResizerRank[resizer]

Finished == pc = "done" /\ drainer # "running" /\ resizer # "reading"

(* What the closing of the queue and of the requests leaves behind.         *)
Wake == /\ drainer = "ended" => cancelled
        /\ pc = "done" => ~queueOpen

LEMMA WakeNext == IInv /\ Wake /\ [Next]_vars => Wake'
<1> SUFFICES ASSUME IInv, Wake, [Next]_vars PROVE Wake'
  OBVIOUS
<1> USE DEF clientVars, queueVars, asks, handlerVars, readerVars, Wake
<1>1. ASSUME NEW r \in Request, Send(r) \/ Pty(r) \/ Refuse(r) \/ Start(r) \/ DrainWindow(r) \/ DrainOther(r)
      PROVE  Wake'
  <2>1. UNCHANGED <<cancelled, queueOpen>>
    BY <1>1 DEF Send, Pty, Refuse, Start, DrainWindow, DrainOther
  <2>2. (drainer' = "ended" => drainer = "ended") /\ (pc' = "done" => pc = "done")
    BY <1>1 DEF Send, Pty, Refuse, Start, DrainWindow, DrainOther
  <2> QED BY <2>1, <2>2
<1>2. ASSUME NEW ok \in BOOLEAN, RunEnds(ok) PROVE Wake'
  BY <1>2 DEF RunEnds, RunFrame
<1>3. CASE ClientClose \/ Disconnect \/ NeverStarted \/ Acquired \/ NotAcquired \/ Complain \/ Release
           \/ Report \/ Join
  BY <1>3 DEF ClientClose, Disconnect, NeverStarted, Acquired, NotAcquired, Complain, Release, Report, Join,
     RunFrame
<1>4. CASE DrainEnd \/ Resize \/ NoMoreSizes \/ UNCHANGED vars
  BY <1>4 DEF DrainEnd, Resize, NoMoreSizes, vars
<1> QED BY <1>1, <1>2, <1>3, <1>4 DEF Next, Handle, Drain, ReadSizes

(* The guards of the actions that Fairness names, for a client that is gone.*)
CanMove ==
    \/ pc \in {"requests", "acquire", "complain", "release", "report"}
    \/ pc = "run" /\ cancelled
    \/ pc = "join" /\ drainer = "ended"
    \/ drainer = "running"
    \/ resizer = "reading" /\ (queue # <<>> \/ ~queueOpen)

(* Nobody waits for ever: the exec stream for a context that nobody will    *)
(* cancel, the handler for the consumer of requests, the reader of sizes    *)
(* for the queue to be closed.                                              *)
SessionNotStuck == ~clientOpen => Finished \/ CanMove

(* A session whose client is gone has a step to take until the handler, the *)
(* consumer and the reader of sizes have all ended.                         *)
THEOREM SessionNeverStuck == Safety => []SessionNotStuck
<1>1. Init => Wake
  BY DEF Init, Wake
<1>2. IInv /\ Wake => SessionNotStuck
  BY DEF IInv, TypeOK, Stage, Wake, SessionNotStuck, Finished, CanMove
<1> QED BY <1>1, <1>2, SessionInvariant, WakeNext, PTL DEF Safety

(* What a request that is consumed, and a size that is pushed, weigh.       *)
LEMMA ConsumeShortens ==
    ASSUME IInv, NEW r \in Request, Consume(r)
    PROVE  Len(reqs) \in Nat /\ Len(reqs') \in Nat /\ Len(reqs') = Len(reqs) - 1
BY DEF IInv, TypeOK, Consume

LEMMA PushLengthens ==
    ASSUME IInv, NEW s \in Size, Push(s)
    PROVE  Len(queue) \in Nat /\ Len(queue') \in Nat /\ Len(queue') <= Len(queue) + 1
<1>1. s % Width \in 0..Width - 1
  BY DEF Size
<1>2. CASE queue' = Append(queue, s % Width)
  BY <1>1, <1>2 DEF IInv, TypeOK
<1>3. CASE queue' = queue
  BY <1>3 DEF IInv, TypeOK
<1> QED BY <1>2, <1>3 DEF Push

Measured == /\ PcRank[pc] \in Nat /\ DrainerRank[drainer] \in Nat /\ ResizerRank[resizer] \in Nat
            /\ Len(reqs) \in Nat /\ Len(queue) \in Nat

LEMMA Ranked == TypeOK => Measured
<1> SUFFICES ASSUME TypeOK PROVE Measured
  OBVIOUS
<1>1. Len(reqs) \in Nat /\ Len(queue) \in Nat
  BY DEF TypeOK
<1>2. PcRank[pc] \in Nat /\ DrainerRank[drainer] \in Nat /\ ResizerRank[resizer] \in Nat
  BY DEF TypeOK, PcRank, DrainerRank, ResizerRank
<1> QED BY <1>1, <1>2 DEF Measured

LEMMA RankedNext == TypeOK' => Measured'
BY Ranked, PTL

LEMMA GoneStays ==
    ASSUME Next, ~clientOpen
    PROVE  ~clientOpen'
BY DEF Next, Send, ClientClose, Disconnect, Handle, Pty, Refuse, Start, Consume, NeverStarted, Acquired,
   NotAcquired, Release, Report, Join, RunFrame, RunEnds, Complain, Drain, DrainEnd, DrainWindow, DrainOther,
   ReadSizes, Resize, NoMoreSizes, clientVars

(* A client that is gone stays away, and the session takes at most Work     *)
(* more steps.                                                              *)
WindsDown == ~clientOpen => ~clientOpen' /\ Work \in Nat /\ Work' < Work

(* Every step of a session whose client is gone makes Work smaller.         *)
THEOREM SessionWindsDown == Safety => [][WindsDown]_vars
<1>1. IInv /\ IInv' /\ [Next]_vars => [WindsDown]_vars
  <2> SUFFICES ASSUME IInv, IInv', Next, ~clientOpen PROVE Work \in Nat /\ Work' < Work
    BY GoneStays DEF WindsDown
  <2> DEFINE a == Len(reqs)
             b == Len(queue)
             p == PcRank[pc]
             d == DrainerRank[drainer]
             z == ResizerRank[resizer]
  <2>a. a \in Nat /\ b \in Nat /\ p \in Nat /\ d \in Nat /\ z \in Nat
    BY Ranked DEF IInv, Measured
  <2>b. a' \in Nat /\ b' \in Nat /\ p' \in Nat /\ d' \in Nat /\ z' \in Nat
    BY RankedNext DEF IInv, Measured
  <2>c. Work = 2 * a + b + p + d + z /\ Work' = 2 * a' + b' + p' + d' + z'
    BY DEF Work
  <2>d. Work \in Nat
    BY <2>a, <2>c
  <2> SUFFICES Work' < Work
    BY <2>d
  <2> USE DEF clientVars, queueVars, asks, handlerVars, readerVars
  <2>1. ASSUME NEW r \in Request, Pty(r) \/ Refuse(r) \/ DrainOther(r) PROVE Work' < Work
    <3>1. a' = a - 1 /\ UNCHANGED <<b, p, d, z>>
      BY <2>1, ConsumeShortens DEF Pty, Refuse, DrainOther
    <3> QED BY <2>a, <2>b, <2>c, <3>1
  <2>2. ASSUME NEW r \in Request, Start(r) PROVE Work' < Work
    <3>1. a' = a - 1
      BY <2>2, ConsumeShortens DEF Start
    <3>2. b' <= b + 1
      BY <2>2, PushLengthens DEF Start, IInv, TypeOK
    <3>3. p = 9 /\ p' = 8 /\ d = 2 /\ d' = 1 /\ z' = z
      BY <2>2 DEF Start, IInv, Stage, PcRank, DrainerRank
    <3> QED BY <2>a, <2>b, <2>c, <3>1, <3>2, <3>3
  <2>3. ASSUME NEW r \in Request, DrainWindow(r) PROVE Work' < Work
    <3>1. a' = a - 1
      BY <2>3, ConsumeShortens DEF DrainWindow
    <3>2. b' <= b + 1
      <4>1. r.size \in Size
        BY <2>3 DEF DrainWindow, Request
      <4> QED BY <2>3, <4>1, PushLengthens DEF DrainWindow
    <3>3. UNCHANGED <<p, d, z>>
      BY <2>3 DEF DrainWindow
    <3> QED BY <2>a, <2>b, <2>c, <3>1, <3>2, <3>3
  <2>4. CASE NeverStarted \/ NotAcquired \/ Complain \/ Release \/ Report \/ Join
    <3>1. p' < p /\ UNCHANGED <<a, b, d, z>>
      BY <2>4 DEF NeverStarted, NotAcquired, Complain, Release, Report, Join, RunFrame, PcRank
    <3> QED BY <2>a, <2>b, <2>c, <3>1
  <2>5. ASSUME NEW ok \in BOOLEAN, RunEnds(ok) PROVE Work' < Work
    <3>1. p' < p /\ UNCHANGED <<a, b, d, z>>
      BY <2>5 DEF RunEnds, RunFrame, PcRank
    <3> QED BY <2>a, <2>b, <2>c, <3>1
  <2>6. CASE Acquired
    <3>1. p = 8 /\ p' = 6 /\ z = 0 /\ z' <= 1 /\ UNCHANGED <<a, b, d>>
      BY <2>6 DEF Acquired, RunFrame, IInv, Stage, PcRank, ResizerRank
    <3> QED BY <2>a, <2>b, <2>c, <3>1
  <2>7. CASE DrainEnd
    <3>1. d' < d
      BY <2>7 DEF DrainEnd, DrainerRank
    <3>2. UNCHANGED <<a, b, p, z>>
      BY <2>7 DEF DrainEnd
    <3> QED BY <2>a, <2>b, <2>c, <3>1, <3>2
  <2>8. CASE Resize
    <3>1. b' = b - 1
      BY <2>8 DEF Resize, IInv, TypeOK
    <3>2. UNCHANGED <<a, p, d, z>>
      BY <2>8 DEF Resize
    <3> QED BY <2>a, <2>b, <2>c, <3>1, <3>2
  <2>9. CASE NoMoreSizes
    <3>1. z' < z /\ UNCHANGED <<a, b, p, d>>
      BY <2>9 DEF NoMoreSizes, ResizerRank
    <3> QED BY <2>a, <2>b, <2>c, <3>1
  <2>10. ~(\E r \in Request : Send(r)) /\ ~ClientClose /\ ~Disconnect
    BY DEF Send, ClientClose, Disconnect
  <2> QED
    BY <2>1, <2>2, <2>3, <2>4, <2>5, <2>6, <2>7, <2>8, <2>9, <2>10 DEF Next, Handle, Drain, ReadSizes
<1> QED BY <1>1, SessionInvariant, PTL DEF Safety

=============================================================================
