--------------------------- MODULE ForwardProofs ---------------------------
(***************************************************************************)
(* Proofs about Forwarding for every width of a port and every amount of   *)
(* buffered data.                                                          *)
(***************************************************************************)
EXTENDS Forwarding, TLAPS

(* The handler and the body: what is still untouched, and which body runs.  *)
Stages ==
    /\ handler \in {"start", "acquire"} => at = "idle"
    /\ at # "returned" => result = "none"
    /\ at \in {"dial", "handshake", "checkDial", "open", "checkCtx", "loop"} => direct
    /\ at \in {"negotiate", "errorStream", "dataStream", "select", "afterRemote", "afterError"} => ~direct
    /\ at \in {"idle", "dial", "handshake", "checkDial", "open", "checkCtx", "negotiate", "errorStream",
       "dataStream"}
          => input = "none" /\ output = "none"
    /\ at \in {"idle", "dial", "handshake", "checkDial", "negotiate"} => closer = "off"
    /\ closer \in {"fired", "ran"} => cancelled
    /\ polite => eofSent /\ ~clientOpen

(* The functions and the deadline that guard the setup: which of them may   *)
(* still close the transport, and which causes a closed transport has.      *)
Guards == direct =>
    /\ at = "checkDial" => dialCloser # "armed"
    /\ dialCloser \in {"fired", "ran"} => cancelled \/ dialDone
    /\ at \in {"open", "checkCtx", "loop"} => dialCloser = "off" /\ ~deadline
    /\ at = "checkCtx" => closer # "armed"
    /\ at = "loop" => closer = "off"
    /\ at = "checkCtx" /\ (conn = "closed" \/ channel = "closed") => broken \/ cancelled
    /\ at = "loop" /\ conn = "closed" => broken

(* The two copiers over SSH: what an end of theirs says of the client's     *)
(* input, of the flag and of the end the client was told.                   *)
Copiers == direct =>
    /\ inputEOF => input \in {"ok", "error"}
    /\ input = "ok" => buffered = 0 /\ (clientEOF \/ ~clientOpen)
    /\ eofSent => outputEOF /\ output \in {"closing", "ok"}
    /\ output = "marked" => outputEOF

(* The loop: what a completion that was taken says, and that a channel is   *)
(* closed by the sshd only once all input has reached the service.          *)
Loop == direct =>
    /\ "input" \notin waiting => input = "ok"
    /\ "closed" \notin waiting => channel = "closed" /\ at \in {"loop", "returned"}
    /\ at = "loop" /\ channel = "closed" => broken \/ (queued = 0 /\ inputEOF)
    /\ at = "loop" /\ input = "error" => broken
    /\ at = "returned" =>
          \/ result = "error" /\ (broken \/ (~eofSent /\ output \in {"none", "error"}))
          \/ result = "cancelled" /\ (drain = "expired" \/ (cancelled /\ ~polite))
          \/ /\ result = "ok" /\ channel = "closed" /\ (clientEOF \/ ~clientOpen)
             /\ broken \/ (buffered = 0 /\ queued = 0)

(* Over the API: what the two readers have seen, unless the transport was   *)
(* cut under them.                                                          *)
Cut == broken \/ closer = "ran"
Readers == ~direct =>
    /\ ~eofSent
    /\ conn = "closed" /\ at # "returned" => Cut
    /\ at \in {"idle", "negotiate", "errorStream"} => errors = "none"
    /\ errors = "none" => errorResult = "none"
    /\ reset => output \in {"ok", "error"}
    /\ at = "afterRemote" => output \in {"ok", "error"}
    /\ at = "afterError" => errorResult = "nil"
    /\ at # "returned" /\ errorResult = "nil" => Cut \/ errors = "clean"
    /\ at # "returned" /\ output = "ok" => Cut \/ (unread = 0 /\ remoteEOF)
    /\ result = "ok" => Cut \/ (unread = 0 /\ remoteEOF /\ errors = "clean")

IInv == TypeOK /\ TargetExact /\ Stages /\ Guards /\ Copiers /\ Loop /\ Readers

USE ForwardAssumption

(* A port that passed the check is not changed by the conversion.           *)
LEMMA PortFits == \A p \in Nat : p < Width => p % Width = p
OBVIOUS

LEMMA PortTyped == \A p \in Nat : p % Width \in 0..Width - 1
OBVIOUS

(* The invariant holds at first.                                            *)
LEMMA IInvInit == Init => IInv
<1> SUFFICES ASSUME Init PROVE IInv
  OBVIOUS
<1>a. port \in 0..Width - 1 /\ buffered \in 0..MaxBuffer /\ unread \in 0..MaxBuffer /\ queued \in 0..MaxBuffer
  BY DEF Init, BaseInit, SSHInit
<1>b. direct \in BOOLEAN /\ target \in Target
  BY DEF Init, BaseInit
<1>1. BaseTypeOK
  BY <1>a, <1>b, Zenon DEF Init, BaseInit, BaseTypeOK, Copier, Place
<1>2. SSHTypeOK /\ KubeTypeOK
  BY <1>a, Zenon DEF Init, SSHInit, KubeInit, SSHTypeOK, KubeTypeOK
<1> QED BY <1>1, <1>2 DEF TypeOK, Init, BaseInit, SSHInit, KubeInit, IInv, TargetExact, Stages, Guards,
   Copiers, Loop, Cut, Readers

(* The client and the handler keep it.                                      *)
LEMMA AroundKeeps ==
    ASSUME IInv, Around
    PROVE  IInv'
<1> USE DEF IInv, handlerVars, clientVars, progress, streamVars, baseVars, dialVars, sshdVars, loopVars,
   sshVars, kubeVars
<1>a. UNCHANGED <<sshVars, kubeVars>>
  BY DEF Around
<1>1. CASE ClientSends
  BY <1>a, <1>1 DEF ClientSends, ClientFrame, TypeOK, BaseTypeOK, SSHTypeOK, KubeTypeOK, Target, Copier,
     Place, TargetExact, Stages, Guards, Copiers, Loop, Cut, Readers
<1>2. CASE ClientEOF
  BY <1>a, <1>2 DEF ClientEOF, ClientFrame, TypeOK, BaseTypeOK, SSHTypeOK, KubeTypeOK, Target, Copier, Place,
     TargetExact, Stages, Guards, Copiers, Loop, Cut, Readers
<1>3. ASSUME NEW too \in BOOLEAN, ClientLeaves(too) PROVE IInv'
  <2>1. cancelled' \in BOOLEAN /\ polite' \in BOOLEAN
    BY <1>3 DEF ClientLeaves, TypeOK, BaseTypeOK
  <2>2. (polite' => eofSent /\ ~cancelled) /\ (cancelled => cancelled')
    BY <1>3 DEF ClientLeaves
  <2>3. clientOpen' = FALSE /\ UNCHANGED <<clientEOF, buffered, handlerVars, progress, streamVars>>
    BY <1>3 DEF ClientLeaves, ClientFrame
  <2>4. TypeOK'
    <3>1. clientOpen' \in BOOLEAN
      BY <2>3
    <3> QED BY <1>a, <2>1, <2>3, <3>1 DEF TypeOK, BaseTypeOK, SSHTypeOK, KubeTypeOK
  <2> QED BY <1>a, <2>1, <2>2, <2>3, <2>4 DEF TargetExact, Stages, Guards, Copiers, Loop, Cut, Readers
<1>4. CASE Reject
  BY <1>a, <1>4 DEF Reject, ValidTarget, HandlerFrame, TypeOK, BaseTypeOK, SSHTypeOK, KubeTypeOK, Target,
     Copier, Place, TargetExact, Stages, Guards, Copiers, Loop, Cut, Readers
<1>5. CASE Accept
  BY <1>a, <1>5 DEF Accept, ValidTarget, HandlerFrame, TypeOK, BaseTypeOK, SSHTypeOK, KubeTypeOK, Target,
     Copier, Place, TargetExact, Stages, Guards, Copiers, Loop, Cut, Readers
<1>6. CASE RequestsEnd
  BY <1>a, <1>6 DEF RequestsEnd, HandlerFrame, TypeOK, BaseTypeOK, SSHTypeOK, KubeTypeOK, Target, Copier,
     Place, TargetExact, Stages, Guards, Copiers, Loop, Cut, Readers
<1>7. ASSUME NEW ok \in BOOLEAN, Acquire(ok) PROVE IInv'
  <2>1. CASE ok
    BY <1>a, <1>7, <2>1 DEF Acquire, HandlerFrame, TypeOK, BaseTypeOK, SSHTypeOK, KubeTypeOK, Target, Copier,
       Place, TargetExact, Stages, Guards, Copiers, Loop, Cut, Readers
  <2>2. CASE ~ok
    BY <1>a, <1>7, <2>2 DEF Acquire, HandlerFrame, TypeOK, BaseTypeOK, SSHTypeOK, KubeTypeOK, Target, Copier,
       Place, TargetExact, Stages, Guards, Copiers, Loop, Cut, Readers
  <2> QED BY <2>1, <2>2
<1>8. CASE Finish
  BY <1>a, <1>8 DEF Finish, HandlerFrame, TypeOK, BaseTypeOK, SSHTypeOK, KubeTypeOK, Target, Copier, Place,
     TargetExact, Stages, Guards, Copiers, Loop, Cut, Readers
<1> QED BY <1>1, <1>2, <1>3, <1>4, <1>5, <1>6, <1>7, <1>8 DEF Around, ClientStep, HandlerStep

(* The body over SSH keeps it.                                              *)
LEMMA SSHKeeps ==
    ASSUME IInv, ForwardSSH
    PROVE  IInv'
<1> USE DEF IInv, handlerVars, clientVars, progress, streamVars, baseVars, dialVars, sshdVars, loopVars,
   sshVars, kubeVars
<1>a. direct /\ UNCHANGED kubeVars
  BY DEF ForwardSSH
<1>1. ASSUME NEW ok \in BOOLEAN, Dial(ok) PROVE IInv'
  <2>1. CASE ok
    BY <1>a, <1>1, <2>1 DEF Dial, Goto, Return, SetupFrame, TypeOK, BaseTypeOK, SSHTypeOK, KubeTypeOK, Target,
       Copier, Place, TargetExact, Stages, Guards, Copiers, Loop, Cut, Readers
  <2>2. CASE ~ok
    BY <1>a, <1>1, <2>2 DEF Dial, Goto, Return, SetupFrame, TypeOK, BaseTypeOK, SSHTypeOK, KubeTypeOK, Target,
       Copier, Place, TargetExact, Stages, Guards, Copiers, Loop, Cut, Readers
  <2> QED BY <2>1, <2>2
<1>2. CASE DialTimeout
  BY <1>a, <1>2 DEF DialTimeout, KeepConn, SetupFrame, TypeOK, BaseTypeOK, SSHTypeOK, KubeTypeOK, Target,
     Copier, Place, TargetExact, Stages, Guards, Copiers, Loop, Cut, Readers
<1>3. CASE DialCloserFires
  BY <1>a, <1>3 DEF DialCloserFires, KeepConn, SetupFrame, TypeOK, BaseTypeOK, SSHTypeOK, KubeTypeOK, Target,
     Copier, Place, TargetExact, Stages, Guards, Copiers, Loop, Cut, Readers
<1>4. CASE DialCloserRuns
  BY <1>a, <1>4 DEF DialCloserRuns, CloseConn, SetupFrame, TypeOK, BaseTypeOK, SSHTypeOK, KubeTypeOK, Target,
     Copier, Place, TargetExact, Stages, Guards, Copiers, Loop, Cut, Readers
<1>5. CASE DeadlinePasses
  BY <1>a, <1>5 DEF DeadlinePasses, CloseConn, SetupFrame, TypeOK, BaseTypeOK, SSHTypeOK, KubeTypeOK, Target,
     Copier, Place, TargetExact, Stages, Guards, Copiers, Loop, Cut, Readers
<1>6. ASSUME NEW ok \in BOOLEAN, Handshake(ok) PROVE IInv'
  BY <1>a, <1>6 DEF Handshake, Stopped, Goto, Return, KeepConn, CloseConn, SetupFrame, TypeOK, BaseTypeOK,
     SSHTypeOK, KubeTypeOK, Target, Copier, Place, TargetExact, Stages, Guards, Copiers, Loop, Cut, Readers
<1>7. CASE CheckDial
  <2>1. BaseTypeOK'
    BY <1>a, <1>7 DEF CheckDial, DialExpired, Goto, Return, KeepConn, CloseConn, SetupFrame, TypeOK,
       BaseTypeOK, Target, Copier, Place, Readers
  <2>2. (SSHTypeOK /\ KubeTypeOK)'
    BY <1>a, <1>7 DEF CheckDial, DialExpired, Goto, Return, KeepConn, CloseConn, SetupFrame, TypeOK,
       SSHTypeOK, KubeTypeOK
  <2>3. (TargetExact /\ Stages)'
    BY <1>a, <1>7 DEF CheckDial, DialExpired, Goto, Return, KeepConn, CloseConn, SetupFrame, TypeOK,
       BaseTypeOK, SSHTypeOK, KubeTypeOK, TargetExact, Stages, Guards, Copiers, Readers
  <2>4. Guards'
    BY <1>a, <1>7 DEF CheckDial, DialExpired, Goto, Return, KeepConn, CloseConn, SetupFrame, TypeOK,
       BaseTypeOK, SSHTypeOK, KubeTypeOK, Stages, Guards
  <2>5. Copiers'
    BY <1>a, <1>7 DEF CheckDial, DialExpired, Goto, Return, KeepConn, CloseConn, SetupFrame, TypeOK,
       BaseTypeOK, SSHTypeOK, KubeTypeOK, Stages, Copiers
  <2>6. Loop'
    BY <1>a, <1>7 DEF CheckDial, DialExpired, Goto, Return, KeepConn, CloseConn, SetupFrame, TypeOK,
       BaseTypeOK, SSHTypeOK, KubeTypeOK, Stages, Guards, Copiers, Loop
  <2>7. Readers'
    BY <1>a, <1>7 DEF CheckDial, DialExpired, Goto, Return, KeepConn, CloseConn, SetupFrame, TypeOK,
       BaseTypeOK, SSHTypeOK, KubeTypeOK, Stages, Cut, Readers
  <2> QED BY <2>1, <2>2, <2>3, <2>4, <2>5, <2>6, <2>7 DEF TypeOK
<1>8. CASE CloserRuns
  BY <1>a, <1>8 DEF CloserRuns, CloseConn, SetupFrame, TypeOK, BaseTypeOK, SSHTypeOK, KubeTypeOK, Target,
     Copier, Place, TargetExact, Stages, Guards, Copiers, Loop, Cut, Readers
<1>9. ASSUME NEW ok \in BOOLEAN, OpenChannel(ok) PROVE IInv'
  <2>1. BaseTypeOK'
    BY <1>a, <1>9 DEF OpenChannel, Stopped, Goto, Return, CloseConn, SetupFrame, TypeOK, BaseTypeOK, Target,
       Copier, Place, Readers
  <2>2. (SSHTypeOK /\ KubeTypeOK)'
    BY <1>a, <1>9 DEF OpenChannel, Stopped, Goto, Return, CloseConn, SetupFrame, TypeOK, SSHTypeOK, KubeTypeOK
  <2>3. (TargetExact /\ Stages)'
    BY <1>a, <1>9 DEF OpenChannel, Stopped, Goto, Return, CloseConn, SetupFrame, TypeOK, BaseTypeOK,
       SSHTypeOK, KubeTypeOK, TargetExact, Stages, Guards, Copiers, Readers
  <2>4. Guards'
    BY <1>a, <1>9 DEF OpenChannel, Stopped, Goto, Return, CloseConn, SetupFrame, TypeOK, BaseTypeOK,
       SSHTypeOK, KubeTypeOK, Stages, Guards
  <2>5. Copiers'
    BY <1>a, <1>9 DEF OpenChannel, Stopped, Goto, Return, CloseConn, SetupFrame, TypeOK, BaseTypeOK,
       SSHTypeOK, KubeTypeOK, Stages, Copiers
  <2>6. Loop'
    BY <1>a, <1>9 DEF OpenChannel, Stopped, Goto, Return, CloseConn, SetupFrame, TypeOK, BaseTypeOK,
       SSHTypeOK, KubeTypeOK, Stages, Guards, Copiers, Loop
  <2>7. Readers'
    BY <1>a, <1>9 DEF OpenChannel, Stopped, Goto, Return, CloseConn, SetupFrame, TypeOK, BaseTypeOK,
       SSHTypeOK, KubeTypeOK, Stages, Cut, Readers
  <2> QED BY <2>1, <2>2, <2>3, <2>4, <2>5, <2>6, <2>7 DEF TypeOK
<1>10. CASE CheckCtx
  BY <1>a, <1>10 DEF CheckCtx, Goto, Return, KeepConn, CloseConn, SetupFrame, TypeOK, BaseTypeOK, SSHTypeOK,
     KubeTypeOK, Target, Copier, Place, TargetExact, Stages, Guards, Copiers, Loop, Cut, Readers
<1>11. CASE CopyInput
  BY <1>a, <1>11 DEF CopyInput, InputFrame, CopyFrame, TypeOK, BaseTypeOK, SSHTypeOK, KubeTypeOK, Target,
     Copier, Place, TargetExact, Stages, Guards, Copiers, Loop, Cut, Readers
<1>12. CASE InputEnds
  BY <1>a, <1>12 DEF InputEnds, InputFrame, CopyFrame, TypeOK, BaseTypeOK, SSHTypeOK, KubeTypeOK, Target,
     Copier, Place, TargetExact, Stages, Guards, Copiers, Loop, Cut, Readers
<1>13. CASE OutputEnds
  BY <1>a, <1>13 DEF OutputEnds, OutputFrame, CopyFrame, TypeOK, BaseTypeOK, SSHTypeOK, KubeTypeOK, Target,
     Copier, Place, TargetExact, Stages, Guards, Copiers, Loop, Cut, Readers
<1>14. CASE OutputCloses
  BY <1>a, <1>14 DEF OutputCloses, OutputFrame, CopyFrame, TypeOK, BaseTypeOK, SSHTypeOK, KubeTypeOK, Target,
     Copier, Place, TargetExact, Stages, Guards, Copiers, Loop, Cut, Readers
<1>15. CASE OutputReports
  BY <1>a, <1>15 DEF OutputReports, OutputFrame, CopyFrame, TypeOK, BaseTypeOK, SSHTypeOK, KubeTypeOK, Target,
     Copier, Place, TargetExact, Stages, Guards, Copiers, Loop, Cut, Readers
<1>16. CASE Completes("input", input)
  <2>1. BaseTypeOK'
    BY <1>a, <1>16 DEF Completes, Leaves, Return, CloseConn, KeepConn, LoopFrame, TypeOK, BaseTypeOK, Target,
       Copier, Place, Readers
  <2>a. waiting' \subseteq waiting
    BY <1>16, Zenon DEF Completes, Leaves
  <2>2. (SSHTypeOK /\ KubeTypeOK)'
    <3>1. channel' \in {"none", "open", "closed"} /\ drain' = drain
      BY <1>16 DEF Completes, Leaves, CloseConn, KeepConn, TypeOK, SSHTypeOK
    <3>2. LoopFrame
      BY <1>16 DEF Completes
    <3> QED BY <1>a, <2>a, <3>1, <3>2 DEF LoopFrame, TypeOK, SSHTypeOK, KubeTypeOK
  <2>3. (TargetExact /\ Stages)'
    BY <1>a, <1>16 DEF Completes, Leaves, Return, CloseConn, KeepConn, LoopFrame, TypeOK, BaseTypeOK,
       SSHTypeOK, KubeTypeOK, TargetExact, Stages, Guards, Copiers, Readers
  <2>4. Guards'
    BY <1>a, <1>16 DEF Completes, Leaves, Return, CloseConn, KeepConn, LoopFrame, TypeOK, BaseTypeOK,
       SSHTypeOK, KubeTypeOK, Stages, Guards
  <2>5. Copiers'
    BY <1>a, <1>16 DEF Completes, Leaves, Return, CloseConn, KeepConn, LoopFrame, TypeOK, BaseTypeOK,
       SSHTypeOK, KubeTypeOK, Stages, Copiers
  <2>6. Loop'
    BY <1>a, <1>16 DEF Completes, Leaves, Return, CloseConn, KeepConn, LoopFrame, TypeOK, BaseTypeOK,
       SSHTypeOK, KubeTypeOK, Stages, Guards, Copiers, Loop
  <2>7. Readers'
    BY <1>a, <1>16 DEF Completes, Leaves, Return, CloseConn, KeepConn, LoopFrame, TypeOK, BaseTypeOK,
       SSHTypeOK, KubeTypeOK, Stages, Cut, Readers
  <2> QED BY <2>1, <2>2, <2>3, <2>4, <2>5, <2>6, <2>7 DEF TypeOK
<1>17. CASE Completes("output", output)
  <2>1. BaseTypeOK'
    BY <1>a, <1>17 DEF Completes, Leaves, Return, CloseConn, KeepConn, LoopFrame, TypeOK, BaseTypeOK, Target,
       Copier, Place, Readers
  <2>a. waiting' \subseteq waiting
    BY <1>17, Zenon DEF Completes, Leaves
  <2>2. (SSHTypeOK /\ KubeTypeOK)'
    <3>1. channel' \in {"none", "open", "closed"} /\ drain' = drain
      BY <1>17 DEF Completes, Leaves, CloseConn, KeepConn, TypeOK, SSHTypeOK
    <3>2. LoopFrame
      BY <1>17 DEF Completes
    <3> QED BY <1>a, <2>a, <3>1, <3>2 DEF LoopFrame, TypeOK, SSHTypeOK, KubeTypeOK
  <2>3. (TargetExact /\ Stages)'
    BY <1>a, <1>17 DEF Completes, Leaves, Return, CloseConn, KeepConn, LoopFrame, TypeOK, BaseTypeOK,
       SSHTypeOK, KubeTypeOK, TargetExact, Stages, Guards, Copiers, Readers
  <2>4. Guards'
    BY <1>a, <1>17 DEF Completes, Leaves, Return, CloseConn, KeepConn, LoopFrame, TypeOK, BaseTypeOK,
       SSHTypeOK, KubeTypeOK, Stages, Guards
  <2>5. Copiers'
    BY <1>a, <1>17 DEF Completes, Leaves, Return, CloseConn, KeepConn, LoopFrame, TypeOK, BaseTypeOK,
       SSHTypeOK, KubeTypeOK, Stages, Copiers
  <2>6. Loop'
    BY <1>a, <1>17 DEF Completes, Leaves, Return, CloseConn, KeepConn, LoopFrame, TypeOK, BaseTypeOK,
       SSHTypeOK, KubeTypeOK, Stages, Guards, Copiers, Loop
  <2>7. Readers'
    BY <1>a, <1>17 DEF Completes, Leaves, Return, CloseConn, KeepConn, LoopFrame, TypeOK, BaseTypeOK,
       SSHTypeOK, KubeTypeOK, Stages, Cut, Readers
  <2> QED BY <2>1, <2>2, <2>3, <2>4, <2>5, <2>6, <2>7 DEF TypeOK
<1>18. CASE RemoteClosed
  BY <1>a, <1>18 DEF RemoteClosed, KeepConn, LoopFrame, TypeOK, BaseTypeOK, SSHTypeOK, KubeTypeOK, Target,
     Copier, Place, TargetExact, Stages, Guards, Copiers, Loop, Cut, Readers
<1>19. CASE LoopCancelled
  <2>1. BaseTypeOK'
    BY <1>a, <1>19 DEF LoopCancelled, Leaves, Return, CloseConn, KeepConn, LoopFrame, TypeOK, BaseTypeOK,
       Target, Copier, Place, Readers
  <2>2. (SSHTypeOK /\ KubeTypeOK)'
    BY <1>a, <1>19 DEF LoopCancelled, Leaves, Return, CloseConn, KeepConn, LoopFrame, TypeOK, SSHTypeOK,
       KubeTypeOK
  <2>3. (TargetExact /\ Stages)'
    BY <1>a, <1>19 DEF LoopCancelled, Leaves, Return, CloseConn, KeepConn, LoopFrame, TypeOK, BaseTypeOK,
       SSHTypeOK, KubeTypeOK, TargetExact, Stages, Guards, Copiers, Readers
  <2>4. Guards'
    BY <1>a, <1>19 DEF LoopCancelled, Leaves, Return, CloseConn, KeepConn, LoopFrame, TypeOK, BaseTypeOK,
       SSHTypeOK, KubeTypeOK, Stages, Guards
  <2>5. Copiers'
    BY <1>a, <1>19 DEF LoopCancelled, Leaves, Return, CloseConn, KeepConn, LoopFrame, TypeOK, BaseTypeOK,
       SSHTypeOK, KubeTypeOK, Stages, Copiers
  <2>6. Loop'
    BY <1>a, <1>19 DEF LoopCancelled, Leaves, Return, CloseConn, KeepConn, LoopFrame, TypeOK, BaseTypeOK,
       SSHTypeOK, KubeTypeOK, Stages, Guards, Copiers, Loop
  <2>7. Readers'
    BY <1>a, <1>19 DEF LoopCancelled, Leaves, Return, CloseConn, KeepConn, LoopFrame, TypeOK, BaseTypeOK,
       SSHTypeOK, KubeTypeOK, Stages, Cut, Readers
  <2> QED BY <2>1, <2>2, <2>3, <2>4, <2>5, <2>6, <2>7 DEF TypeOK
<1>20. CASE DrainExpires
  BY <1>a, <1>20 DEF DrainExpires, Return, CloseConn, LoopFrame, TypeOK, BaseTypeOK, SSHTypeOK, KubeTypeOK,
     Target, Copier, Place, TargetExact, Stages, Guards, Copiers, Loop, Cut, Readers
<1>21. CASE LoopEnds
  BY <1>a, <1>21 DEF LoopEnds, Leaves, Return, CloseConn, LoopFrame, TypeOK, BaseTypeOK, SSHTypeOK,
     KubeTypeOK, Target, Copier, Place, TargetExact, Stages, Guards, Copiers, Loop, Cut, Readers
<1>22. CASE SshdFlushes
  BY <1>a, <1>22 DEF SshdFlushes, KeepConn, SshdFrame, TypeOK, BaseTypeOK, SSHTypeOK, KubeTypeOK, Target,
     Copier, Place, TargetExact, Stages, Guards, Copiers, Loop, Cut, Readers
<1>23. CASE SshdCloses
  BY <1>a, <1>23 DEF SshdCloses, SshdFrame, TypeOK, BaseTypeOK, SSHTypeOK, KubeTypeOK, Target, Copier, Place,
     TargetExact, Stages, Guards, Copiers, Loop, Cut, Readers
<1>24. CASE Breaks
  BY <1>a, <1>24 DEF Breaks, CloseConn, SshdFrame, TypeOK, BaseTypeOK, SSHTypeOK, KubeTypeOK, Target, Copier,
     Place, TargetExact, Stages, Guards, Copiers, Loop, Cut, Readers
<1>25. CASE CloserFires /\ UNCHANGED sshVars
  BY <1>a, <1>25 DEF CloserFires, TypeOK, BaseTypeOK, SSHTypeOK, KubeTypeOK, Target, Copier, Place,
     TargetExact, Stages, Guards, Copiers, Loop, Cut, Readers
<1>26. CASE CopyOutput /\ UNCHANGED sshVars
  BY <1>a, <1>26 DEF CopyOutput, TypeOK, BaseTypeOK, SSHTypeOK, KubeTypeOK, Target, Copier, Place,
     TargetExact, Stages, Guards, Copiers, Loop, Cut, Readers
<1>27. CASE ServiceWrites /\ UNCHANGED sshVars
  BY <1>a, <1>27 DEF ServiceWrites, ServiceFrame, TypeOK, BaseTypeOK, SSHTypeOK, KubeTypeOK, Target, Copier,
     Place, TargetExact, Stages, Guards, Copiers, Loop, Cut, Readers
<1>28. CASE ServiceEnds /\ UNCHANGED sshVars
  BY <1>a, <1>28 DEF ServiceEnds, ServiceFrame, TypeOK, BaseTypeOK, SSHTypeOK, KubeTypeOK, Target, Copier,
     Place, TargetExact, Stages, Guards, Copiers, Loop, Cut, Readers
<1> QED BY <1>1, <1>2, <1>3, <1>4, <1>5, <1>6, <1>7, <1>8, <1>9, <1>10, <1>11, <1>12, <1>13, <1>14, <1>15,
   <1>16, <1>17, <1>18, <1>19, <1>20, <1>21, <1>22, <1>23, <1>24, <1>25, <1>26, <1>27, <1>28 DEF ForwardSSH,
   SSHStep, DialStep, CopierEnds, LoopStep

(* The body over the API keeps it.                                          *)
LEMMA KubeKeeps ==
    ASSUME IInv, Forward
    PROVE  IInv'
<1> USE DEF IInv, handlerVars, clientVars, progress, streamVars, baseVars, dialVars, sshdVars, loopVars,
   sshVars, kubeVars
<1>a. ~direct /\ UNCHANGED sshVars
  BY DEF Forward
<1>1. ASSUME NEW ok \in BOOLEAN, Negotiate(ok) PROVE IInv'
  <2>1. CASE ok
    BY <1>a, <1>1, <2>1 DEF Negotiate, Goto, Return, BodyFrame, TypeOK, BaseTypeOK, SSHTypeOK, KubeTypeOK,
       Target, Copier, Place, TargetExact, Stages, Guards, Copiers, Loop, Cut, Readers
  <2>2. CASE ~ok
    BY <1>a, <1>1, <2>2 DEF Negotiate, Goto, Return, BodyFrame, TypeOK, BaseTypeOK, SSHTypeOK, KubeTypeOK,
       Target, Copier, Place, TargetExact, Stages, Guards, Copiers, Loop, Cut, Readers
  <2> QED BY <2>1, <2>2
<1>2. CASE KubeCloserRuns
  BY <1>a, <1>2 DEF KubeCloserRuns, BodyFrame, TypeOK, BaseTypeOK, SSHTypeOK, KubeTypeOK, Target, Copier,
     Place, TargetExact, Stages, Guards, Copiers, Loop, Cut, Readers
<1>3. ASSUME NEW ok \in BOOLEAN, CreateErrorStream(ok) PROVE IInv'
  <2>1. CASE ok
    BY <1>a, <1>3, <2>1 DEF CreateErrorStream, Goto, Leave, Return, BodyFrame, TypeOK, BaseTypeOK, SSHTypeOK,
       KubeTypeOK, Target, Copier, Place, TargetExact, Stages, Guards, Copiers, Loop, Cut, Readers
  <2>2. CASE ~ok
    BY <1>a, <1>3, <2>2 DEF CreateErrorStream, Goto, Leave, Return, BodyFrame, TypeOK, BaseTypeOK, SSHTypeOK,
       KubeTypeOK, Target, Copier, Place, TargetExact, Stages, Guards, Copiers, Loop, Cut, Readers
  <2> QED BY <2>1, <2>2
<1>4. ASSUME NEW ok \in BOOLEAN, CreateDataStream(ok) PROVE IInv'
  BY <1>a, <1>4 DEF CreateDataStream, Goto, Leave, Return, BodyFrame, TypeOK, BaseTypeOK, SSHTypeOK,
     KubeTypeOK, Target, Copier, Place, TargetExact, Stages, Guards, Copiers, Loop, Cut, Readers
<1>5. CASE ReadErrors
  BY <1>a, <1>5 DEF ReadErrors, GoFrame, TypeOK, BaseTypeOK, SSHTypeOK, KubeTypeOK, Target, Copier, Place,
     TargetExact, Stages, Guards, Copiers, Loop, Cut, Readers
<1>6. CASE CopyData
  BY <1>a, <1>6 DEF CopyData, DataGone, GoFrame, TypeOK, BaseTypeOK, SSHTypeOK, KubeTypeOK, Target, Copier,
     Place, TargetExact, Stages, Guards, Copiers, Loop, Cut, Readers
<1>7. CASE DataInputEnds
  BY <1>a, <1>7 DEF DataInputEnds, DataGone, GoFrame, TypeOK, BaseTypeOK, SSHTypeOK, KubeTypeOK, Target,
     Copier, Place, TargetExact, Stages, Guards, Copiers, Loop, Cut, Readers
<1>8. CASE DataOutputEnds
  BY <1>a, <1>8 DEF DataOutputEnds, DataGone, GoFrame, TypeOK, BaseTypeOK, SSHTypeOK, KubeTypeOK, Target,
     Copier, Place, TargetExact, Stages, Guards, Copiers, Loop, Cut, Readers
<1>9. CASE SelectDone
  BY <1>a, <1>9 DEF SelectDone, Leave, Return, SelectFrame, BodyFrame, TypeOK, BaseTypeOK, SSHTypeOK,
     KubeTypeOK, Target, Copier, Place, TargetExact, Stages, Guards, Copiers, Loop, Cut, Readers
<1>10. CASE SelectLocal
  BY <1>a, <1>10 DEF SelectLocal, Leave, Return, SelectFrame, BodyFrame, TypeOK, BaseTypeOK, SSHTypeOK,
     KubeTypeOK, Target, Copier, Place, TargetExact, Stages, Guards, Copiers, Loop, Cut, Readers
<1>11. CASE SelectRemote
  BY <1>a, <1>11 DEF SelectRemote, Goto, SelectFrame, BodyFrame, TypeOK, BaseTypeOK, SSHTypeOK, KubeTypeOK,
     Target, Copier, Place, TargetExact, Stages, Guards, Copiers, Loop, Cut, Readers
<1>12. CASE AfterRemote
  BY <1>a, <1>12 DEF AfterRemote, Leave, Return, SelectFrame, BodyFrame, TypeOK, BaseTypeOK, SSHTypeOK,
     KubeTypeOK, Target, Copier, Place, TargetExact, Stages, Guards, Copiers, Loop, Cut, Readers
<1>13. CASE SelectErrors
  BY <1>a, <1>13 DEF SelectErrors, Leave, Return, Goto, SelectFrame, BodyFrame, TypeOK, BaseTypeOK, SSHTypeOK,
     KubeTypeOK, Target, Copier, Place, TargetExact, Stages, Guards, Copiers, Loop, Cut, Readers
<1>14. CASE AfterError
  BY <1>a, <1>14 DEF AfterError, Leave, Return, SelectFrame, BodyFrame, TypeOK, BaseTypeOK, SSHTypeOK,
     KubeTypeOK, Target, Copier, Place, TargetExact, Stages, Guards, Copiers, Loop, Cut, Readers
<1>15. ASSUME NEW how \in {"clean", "message"}, KubeletEnds(how) PROVE IInv'
  BY <1>a, <1>15 DEF KubeletEnds, TypeOK, BaseTypeOK, SSHTypeOK, KubeTypeOK, Target, Copier, Place,
     TargetExact, Stages, Guards, Copiers, Loop, Cut, Readers
<1>16. CASE KubeBreaks
  BY <1>a, <1>16 DEF KubeBreaks, TypeOK, BaseTypeOK, SSHTypeOK, KubeTypeOK, Target, Copier, Place,
     TargetExact, Stages, Guards, Copiers, Loop, Cut, Readers
<1>17. CASE CloserFires /\ UNCHANGED kubeVars
  BY <1>a, <1>17 DEF CloserFires, TypeOK, BaseTypeOK, SSHTypeOK, KubeTypeOK, Target, Copier, Place,
     TargetExact, Stages, Guards, Copiers, Loop, Cut, Readers
<1>18. CASE CopyOutput /\ UNCHANGED kubeVars
  BY <1>a, <1>18 DEF CopyOutput, TypeOK, BaseTypeOK, SSHTypeOK, KubeTypeOK, Target, Copier, Place,
     TargetExact, Stages, Guards, Copiers, Loop, Cut, Readers
<1>19. CASE ServiceWrites /\ UNCHANGED kubeVars
  BY <1>a, <1>19 DEF ServiceWrites, ServiceFrame, TypeOK, BaseTypeOK, SSHTypeOK, KubeTypeOK, Target, Copier,
     Place, TargetExact, Stages, Guards, Copiers, Loop, Cut, Readers
<1>20. CASE ServiceEnds /\ UNCHANGED kubeVars
  BY <1>a, <1>20 DEF ServiceEnds, ServiceFrame, TypeOK, BaseTypeOK, SSHTypeOK, KubeTypeOK, Target, Copier,
     Place, TargetExact, Stages, Guards, Copiers, Loop, Cut, Readers
<1> QED BY <1>1, <1>2, <1>3, <1>4, <1>5, <1>6, <1>7, <1>8, <1>9, <1>10, <1>11, <1>12, <1>13, <1>14, <1>15,
   <1>16, <1>17, <1>18, <1>19, <1>20 DEF Forward, KubeStep, ReaderStep, Select

(* IInv is inductive, and so always holds.                                  *)
THEOREM ForwardInvariant == Spec => []IInv
<1>1. IInv /\ [Next]_vars => IInv'
  <2> SUFFICES ASSUME IInv, [Next]_vars PROVE IInv'
    OBVIOUS
  <2>1. CASE UNCHANGED vars
    BY <2>1 DEF vars, baseVars, handlerVars, clientVars, progress, streamVars, dialVars, sshdVars, loopVars,
       sshVars, kubeVars, IInv, TypeOK, BaseTypeOK, SSHTypeOK, KubeTypeOK, Target, Copier, Place, TargetExact,
          Stages, Guards, Copiers, Loop, Cut, Readers
  <2> QED BY <2>1, AroundKeeps, SSHKeeps, KubeKeeps DEF Next
<1> QED BY <1>1, IInvInit, PTL DEF Spec, Safety

(* The state keeps its types: a port has its 16 bits.                       *)
THEOREM ForwardTypes == Spec => []TypeOK
BY ForwardInvariant, PTL DEF IInv

(* No workspace is provisioned for a destination that is not loopback, and  *)
(* no port is dialled but the one asked for.                                *)
THEOREM ForwardsTarget == Spec => []TargetExact
BY ForwardInvariant, PTL DEF IInv

(* The guards of the setup never close the transport of a running forward.  *)
THEOREM ForwardKeepsTransport == Spec => []SetupLeavesTransport
<1>1. IInv => SetupLeavesTransport
  BY DEF IInv, Guards, SetupLeavesTransport
<1> QED BY <1>1, ForwardInvariant, PTL

(* The input of a client that leaves after the end of the output reaches    *)
(* the service, unless the backend fails or the drain times out.            *)
THEOREM ForwardDrainsInput == Spec => []InputDrained
<1>1. IInv => InputDrained
  BY DEF IInv, TypeOK, BaseTypeOK, Stages, Copiers, Loop, InputDrained
<1> QED BY <1>1, ForwardInvariant, PTL

(* A forward over the API that ends well has copied all the output and has  *)
(* the kubelet's word for it, unless it was cut.                            *)
THEOREM ForwardHidesNothing == Spec => []NothingLostOrHidden
<1>1. IInv => NothingLostOrHidden
  BY DEF IInv, Readers, Cut, NothingLostOrHidden
<1> QED BY <1>1, ForwardInvariant, PTL

-----------------------------------------------------------------------------
(* What the handler holds while Forward runs: the lease, and a transport    *)
(* that is closed when Forward has returned.                                *)
Holding ==
    /\ handler \in {"start", "acquire"} => lease = "none"
    /\ handler = "forward" => lease = "held" /\ at # "idle"
    /\ handler = "done" => lease # "held"
    /\ at \notin {"idle", "returned"} => handler = "forward"
    /\ at \in {"idle", "dial", "negotiate", "returned"} => conn # "open"
    /\ at \in {"idle", "dial", "handshake", "checkDial", "open"} => channel = "none"
    /\ ~direct => channel = "none"
    /\ channel = "open" => conn = "open"

(* Neither the client nor a step of the handler touches the transport.      *)
LEMMA AroundHolds ==
    ASSUME IInv, Holding, Around
    PROVE  Holding'
<1> USE DEF handlerVars, clientVars, progress, streamVars, dialVars, sshdVars, loopVars, sshVars
<1>a. UNCHANGED <<sshVars, direct, conn>>
  BY DEF Around, ClientStep, HandlerStep, ClientSends, ClientEOF, ClientLeaves, ClientFrame, Reject, Accept,
     RequestsEnd, Acquire, Finish, HandlerFrame
<1>1. CASE ClientStep \/ RequestsEnd
  BY <1>a, <1>1 DEF ClientStep, ClientSends, ClientEOF, ClientLeaves, ClientFrame, RequestsEnd, Holding
<1>2. CASE Reject \/ Accept \/ Finish
  BY <1>a, <1>2 DEF Reject, Accept, Finish, Holding, IInv, Stages
<1>3. ASSUME NEW ok \in BOOLEAN, Acquire(ok) PROVE Holding'
  <2>1. CASE ok
    BY <1>a, <1>3, <2>1 DEF Acquire, Holding, IInv, Stages
  <2>2. CASE ~ok
    BY <1>a, <1>3, <2>2 DEF Acquire, Holding, IInv, Stages
  <2> QED BY <2>1, <2>2
<1> QED BY <1>1, <1>2, <1>3 DEF Around, HandlerStep

(* Over SSH the transport is open from the dial on; whoever returns closes  *)
(* it, and the channel with it.                                             *)
LEMMA SSHHolds ==
    ASSUME IInv, Holding, ForwardSSH
    PROVE  Holding'
<1> USE DEF handlerVars, clientVars, progress, streamVars, dialVars, sshdVars, loopVars, sshVars
<1>a. direct
  BY DEF ForwardSSH
<1>1. ASSUME NEW ok \in BOOLEAN, Dial(ok) \/ Handshake(ok) \/ OpenChannel(ok) PROVE Holding'
  <2>1. UNCHANGED <<handler, lease, direct>>
    BY <1>1 DEF Dial, Handshake, OpenChannel, SetupFrame
  <2>2. CASE Dial(ok)
    BY <1>a, <2>1, <2>2 DEF Dial, Goto, Return, Holding
  <2>3. CASE Handshake(ok)
    BY <1>a, <2>1, <2>3 DEF Handshake, Goto, Return, KeepConn, CloseConn, Holding
  <2>4. CASE OpenChannel(ok)
    BY <1>a, <2>1, <2>4 DEF OpenChannel, Goto, Return, CloseConn, Holding
  <2> QED BY <1>1, <2>2, <2>3, <2>4
<1>2. CASE DialTimeout \/ DialCloserFires \/ DialCloserRuns \/ DeadlinePasses \/ CloserRuns
  BY <1>a, <1>2 DEF DialTimeout, DialCloserFires, DialCloserRuns, DeadlinePasses, CloserRuns, KeepConn,
     CloseConn, SetupFrame, Holding
<1>3. CASE CheckDial \/ CheckCtx
  BY <1>a, <1>3 DEF CheckDial, CheckCtx, Goto, Return, KeepConn, CloseConn, SetupFrame, Holding
<1>4. CASE CopyInput \/ CopierEnds
  BY <1>a, <1>4 DEF CopyInput, CopierEnds, InputEnds, OutputEnds, OutputCloses, OutputReports, InputFrame,
     OutputFrame, CopyFrame, Holding
<1>5. CASE LoopStep
  BY <1>a, <1>5 DEF LoopStep, Completes, RemoteClosed, LoopCancelled, DrainExpires, LoopEnds, Leaves, Return,
     CloseConn, KeepConn, LoopFrame, Holding
<1>6. CASE SshdFlushes \/ SshdCloses \/ Breaks
  BY <1>a, <1>6 DEF SshdFlushes, SshdCloses, Breaks, KeepConn, CloseConn, SshdFrame, Holding
<1>7. CASE (CloserFires \/ CopyOutput \/ ServiceWrites \/ ServiceEnds) /\ UNCHANGED sshVars
  BY <1>a, <1>7 DEF CloserFires, CopyOutput, ServiceWrites, ServiceEnds, ServiceFrame, Holding
<1> QED BY <1>1, <1>2, <1>3, <1>4, <1>5, <1>6, <1>7 DEF ForwardSSH, SSHStep, DialStep

(* Over the API likewise, from the negotiation on.                          *)
LEMMA KubeHolds ==
    ASSUME IInv, Holding, Forward
    PROVE  Holding'
<1> USE DEF handlerVars, clientVars, progress, streamVars, dialVars, sshdVars, loopVars, sshVars, baseVars
<1>a. ~direct /\ UNCHANGED sshVars
  BY DEF Forward
<1>1. ASSUME NEW ok \in BOOLEAN, Negotiate(ok) \/ CreateErrorStream(ok) \/ CreateDataStream(ok) PROVE Holding'
  <2>1. CASE ok
    BY <1>a, <1>1, <2>1 DEF Negotiate, CreateErrorStream, CreateDataStream, Goto, BodyFrame, Holding
  <2>2. CASE ~ok
    BY <1>a, <1>1, <2>2 DEF Negotiate, CreateErrorStream, CreateDataStream, Leave, Return, BodyFrame, Holding
  <2> QED BY <2>1, <2>2
<1>2. CASE KubeCloserRuns \/ KubeBreaks
  BY <1>a, <1>2 DEF KubeCloserRuns, KubeBreaks, BodyFrame, Holding
<1>3. CASE ReaderStep \/ CopyData
  BY <1>a, <1>3 DEF ReaderStep, ReadErrors, DataInputEnds, DataOutputEnds, CopyData, GoFrame, Holding
<1>4. CASE Select
  BY <1>a, <1>4 DEF Select, SelectDone, SelectLocal, SelectRemote, SelectErrors, AfterRemote, AfterError,
     Leave, Return, Goto, SelectFrame, BodyFrame, Holding
<1>5. ASSUME NEW how \in {"clean", "message"}, KubeletEnds(how) PROVE Holding'
  BY <1>a, <1>5 DEF KubeletEnds, Holding
<1>6. CASE CloserFires \/ CopyOutput \/ ServiceWrites \/ ServiceEnds
  BY <1>a, <1>6 DEF CloserFires, CopyOutput, ServiceWrites, ServiceEnds, ServiceFrame, Holding
<1> QED BY <1>1, <1>2, <1>3, <1>4, <1>5, <1>6 DEF Forward, KubeStep

(* No transport outlives its forward: one is open only while Forward runs   *)
(* under the lease.                                                         *)
THEOREM ForwardHolds == Spec => []Holding
<1>1. Init => Holding
  BY DEF Init, BaseInit, SSHInit, Holding
<1>2. IInv /\ Holding /\ [Next]_vars => Holding'
  <2> SUFFICES ASSUME IInv, Holding, [Next]_vars PROVE Holding'
    OBVIOUS
  <2>1. CASE UNCHANGED vars
    BY <2>1 DEF vars, baseVars, handlerVars, progress, streamVars, sshdVars, sshVars, Holding
  <2> QED BY <2>1, AroundHolds, SSHHolds, KubeHolds DEF Next
<1> QED BY <1>1, <1>2, ForwardInvariant, PTL DEF Spec, Safety

-----------------------------------------------------------------------------
(* The contract sees of a forward its client, the destination, the lease,   *)
(* whether it streams, the ends of output, input and handler.  A step that  *)
(* leaves these alone, or that only ends the stream, is allowed.            *)
Quiet == /\ UNCHANGED <<direct, target, port, handler, lease, clientOpen, clientEOF>>
         /\ direct => UNCHANGED inputEOF
         /\ ~direct => (input \in {"ok", "error"}) = (input' \in {"ok", "error"})
         /\ OutputOver' = OutputOver

LEMMA QuietStep ==
    ASSUME Quiet, Streams' => Streams
    PROVE  Use!UseNext \/ UNCHANGED Use!uvars
<1> USE DEF Use!ends
<1>1. UNCHANGED <<IF ~clientOpen THEN "gone" ELSE IF clientEOF THEN "ended" ELSE "writes", target, lease,
         direct, OutputOver, IF direct THEN inputEOF ELSE input \in {"ok", "error"}, handler = "done">>
  BY DEF Quiet
<1>2. CASE Streams' = Streams
  BY <1>1, <1>2 DEF Quiet, Use!uvars
<1>3. CASE Streams /\ ~Streams'
  <2>1. Use!Detach
    BY <1>1, <1>3 DEF Use!Detach
  <2> QED BY <2>1 DEF Use!UseNext
<1> QED BY <1>2, <1>3 DEF Streams

(* A stream that starts: under the lease, to the destination asked for.     *)
LEMMA AttachStep ==
    ASSUME IInv, Holding, Quiet, handler = "forward", ~Streams, Streams'
    PROVE  Use!UseNext
<1> USE DEF Use!ends
<1>1. UNCHANGED <<IF ~clientOpen THEN "gone" ELSE IF clientEOF THEN "ended" ELSE "writes", target, lease,
         direct, OutputOver, IF direct THEN inputEOF ELSE input \in {"ok", "error"}, handler = "done">>
  BY DEF Quiet
<1>2. target.loopback /\ port = target.port /\ port > 0 /\ lease = "held"
  BY DEF IInv, TargetExact, Holding
<1>3. target \in Target /\ port \in 0..Width - 1 /\ Width \in Nat
  BY DEF IInv, TypeOK, BaseTypeOK
<1>4. target = [loopback |-> TRUE, port |-> port] /\ target \in [loopback : {TRUE}, port : 1..Width - 1]
  <2>1. target = [loopback |-> target.loopback, port |-> target.port]
    BY <1>3 DEF Target
  <2>2. target.loopback = TRUE
    BY <1>2, <1>3 DEF Target
  <2>3. port \in 1..Width - 1
    BY <1>2, <1>3
  <2> QED BY <1>2, <2>1, <2>2, <2>3
<1>5. port' = port
  BY DEF Quiet
<1>6. Use!Attach
  BY <1>1, <1>2, <1>4, <1>5 DEF Use!Attach
<1> QED BY <1>6 DEF Use!UseNext

(* The handler and the client, step by step.                                *)
LEMMA AroundUse ==
    ASSUME IInv, Holding, Around
    PROVE  Use!UseNext \/ UNCHANGED Use!uvars
<1> USE DEF handlerVars, clientVars, progress, streamVars, dialVars, sshdVars, loopVars, sshVars, kubeVars,
           Use!ends
<1>a. UNCHANGED <<direct, target, conn, channel, inputEOF, input, output>>
  BY DEF Around, ClientStep, HandlerStep, ClientSends, ClientEOF, ClientLeaves, ClientFrame, Reject, Accept,
     RequestsEnd, Acquire, Finish, HandlerFrame
<1>b. Streams' = Streams /\ OutputOver' = OutputOver
  BY <1>a DEF Streams, OutputOver
<1>c. Streams => handler = "forward" /\ at \notin {"idle", "returned"}
  BY DEF Holding, IInv, TypeOK, BaseTypeOK, Streams
<1>1. CASE ClientSends \/ RequestsEnd
  BY <1>a, <1>b, <1>1, QuietStep DEF Quiet, ClientSends, RequestsEnd, ClientFrame, HandlerFrame
<1>2. CASE ClientEOF
  <2>1. UNCHANGED <<clientOpen, port, lease, handler>> /\ clientOpen /\ ~clientEOF /\ clientEOF'
    BY <1>2 DEF ClientEOF, ClientFrame
  <2>2. Use!ClientEnds
    BY <1>a, <1>b, <2>1 DEF Use!ClientEnds
  <2> QED BY <2>2 DEF Use!UseNext
<1>3. ASSUME NEW too \in BOOLEAN, ClientLeaves(too) PROVE Use!UseNext
  <2>1. UNCHANGED <<port, lease, handler>> /\ clientOpen /\ ~clientOpen'
    BY <1>3 DEF ClientLeaves, ClientFrame
  <2>2. Use!ClientEnds
    BY <1>a, <1>b, <2>1 DEF Use!ClientEnds
  <2> QED BY <2>2 DEF Use!UseNext
<1>4. CASE Reject
  <2>1. ~Streams /\ lease = "none" /\ UNCHANGED <<lease, clientOpen, clientEOF>>
        /\ handler = "start" /\ handler' = "done"
    BY <1>c, <1>4 DEF Reject, HandlerFrame, Holding
  <2>2. Use!Tell
    BY <1>a, <1>b, <2>1 DEF Use!Tell
  <2> QED BY <2>2 DEF Use!UseNext
<1>5. CASE Accept
  <2>1. ~Streams /\ UNCHANGED <<lease, clientOpen, clientEOF>> /\ handler # "done" /\ handler' # "done"
    BY <1>c, <1>5 DEF Accept, HandlerFrame
  <2>2. UNCHANGED Use!uvars
    BY <1>a, <1>b, <2>1 DEF Use!uvars
  <2> QED BY <2>2
<1>6. ASSUME NEW ok \in BOOLEAN, Acquire(ok) PROVE Use!UseNext
  <2>1. ~Streams /\ lease = "none" /\ UNCHANGED <<port, clientOpen, clientEOF>> /\ handler # "done"
    BY <1>c, <1>6 DEF Acquire, HandlerFrame, Holding
  <2>2. CASE ok
    <3>1. lease' = "held" /\ handler' = "forward"
      BY <1>6, <2>2 DEF Acquire
    <3>2. Use!Take
      BY <1>a, <1>b, <2>1, <3>1 DEF Use!Take
    <3> QED BY <3>2 DEF Use!UseNext
  <2>3. CASE ~ok
    <3>1. lease' = lease /\ handler' = "done"
      BY <1>6, <2>3 DEF Acquire
    <3>2. Use!Tell
      BY <1>a, <1>b, <2>1, <3>1 DEF Use!Tell
    <3> QED BY <3>2 DEF Use!UseNext
  <2> QED BY <2>2, <2>3
<1>7. CASE Finish
  <2>1. ~Streams /\ lease = "held" /\ lease' = "released" /\ UNCHANGED <<clientOpen, clientEOF>>
        /\ handler # "done" /\ handler' = "done"
    BY <1>c, <1>7 DEF Finish, HandlerFrame, Holding
  <2>2. Use!Release
    BY <1>a, <1>b, <2>1 DEF Use!Release
  <2> QED BY <2>2 DEF Use!UseNext
<1> QED BY <1>1, <1>2, <1>3, <1>4, <1>5, <1>6, <1>7 DEF Around, ClientStep, HandlerStep

(* The body over SSH: the channel to the sshd opens once, and the input     *)
(* ends with the client's or with a channel that is closed.                 *)
LEMMA SSHUse ==
    ASSUME IInv, Holding, ForwardSSH
    PROVE  Use!UseNext \/ UNCHANGED Use!uvars
<1> USE DEF handlerVars, clientVars, progress, streamVars, dialVars, sshdVars, loopVars, sshVars, Use!ends
<1>a. direct /\ direct' = direct
  BY DEF ForwardSSH, SSHStep, DialStep, CopierEnds, LoopStep, Dial, Handshake, DialTimeout, DialCloserFires,
     DialCloserRuns, DeadlinePasses, CheckDial, CheckCtx, CloserRuns, CopyInput, InputEnds, OutputEnds,
     OutputCloses, OutputReports, Completes, RemoteClosed, LoopCancelled, DrainExpires, LoopEnds, OpenChannel,
     SshdFlushes, SshdCloses, Breaks, CloserFires, CopyOutput, ServiceWrites, ServiceEnds, ServiceFrame,
     SetupFrame, InputFrame, OutputFrame, CopyFrame, LoopFrame, SshdFrame
<1>b. (Streams <=> channel = "open") /\ (Streams' <=> channel' = "open")
  BY <1>a DEF Streams
<1>1. ASSUME NEW ok \in BOOLEAN, OpenChannel(ok) PROVE Use!UseNext \/ UNCHANGED Use!uvars
  <2>1. Quiet /\ handler = "forward" /\ channel = "none"
    BY <1>a, <1>1 DEF OpenChannel, SetupFrame, Quiet, Holding, OutputOver
  <2>2. CASE channel' = "open"
    BY <1>b, <2>1, <2>2, AttachStep
  <2>3. CASE channel' # "open"
    BY <1>b, <2>1, <2>3, QuietStep
  <2> QED BY <2>2, <2>3
<1>2. CASE InputEnds
  <2>1. /\ inputEOF' /\ UNCHANGED <<direct, target, port, handler, lease, clientOpen, clientEOF, channel>>
        /\ ~clientOpen \/ clientEOF \/ channel # "open"
    BY <1>2 DEF InputEnds, InputFrame, CopyFrame
  <2>2. inputEOF' = TRUE
    BY <1>2 DEF InputEnds
  <2>3. Streams' = Streams /\ OutputOver' = OutputOver
    <3>1. UNCHANGED <<direct, channel, output>>
      BY <1>2, <2>1 DEF InputEnds, InputFrame
    <3> QED BY <1>a, <3>1 DEF Streams, OutputOver
  <2>4. Use!EndInput
    BY <1>a, <1>b, <2>1, <2>2, <2>3 DEF Use!EndInput
  <2> QED BY <2>4 DEF Use!UseNext
<1>3. ASSUME NEW ok \in BOOLEAN, Dial(ok) \/ Handshake(ok) PROVE Quiet /\ (Streams' => Streams)
  BY <1>a, <1>b, <1>3 DEF Dial, Handshake, KeepConn, CloseConn, SetupFrame, Quiet, OutputOver
<1>4. CASE DialTimeout \/ DialCloserFires \/ DialCloserRuns \/ DeadlinePasses \/ CheckDial \/ CloserRuns
  <2>1. Quiet /\ (Streams' => Streams)
    BY <1>a, <1>b, <1>4 DEF DialTimeout, DialCloserFires, DialCloserRuns, DeadlinePasses, CheckDial, CloserRuns,
       KeepConn, CloseConn, SetupFrame, Quiet, OutputOver
  <2> QED BY <2>1, QuietStep
<1>5. CASE CopyInput \/ OutputEnds \/ OutputCloses \/ LoopStep
  <2>1. Quiet /\ (Streams' => Streams)
    BY <1>a, <1>b, <1>5 DEF CopyInput, OutputEnds, OutputCloses, InputFrame, OutputFrame,
       CopyFrame, LoopStep, Completes, RemoteClosed, LoopCancelled, DrainExpires, LoopEnds, Leaves, KeepConn,
       CloseConn, LoopFrame, Quiet, OutputOver
  <2> QED BY <2>1, QuietStep
<1>6. CASE SshdFlushes \/ SshdCloses \/ Breaks
  <2>1. Quiet /\ (Streams' => Streams)
    BY <1>a, <1>b, <1>6 DEF SshdFlushes, SshdCloses, Breaks, KeepConn, CloseConn, SshdFrame, Quiet, OutputOver
  <2> QED BY <2>1, QuietStep
<1>7. CASE (CloserFires \/ CopyOutput \/ ServiceWrites \/ ServiceEnds) /\ UNCHANGED sshVars
  <2>1. Quiet /\ (Streams' => Streams)
    BY <1>a, <1>b, <1>7 DEF CloserFires, CopyOutput, ServiceWrites, ServiceEnds, ServiceFrame, Quiet, OutputOver
  <2> QED BY <2>1, QuietStep
<1>8. CASE CheckCtx
  <2>1. output = "none" /\ output' \in {"none", "copying"}
    BY <1>8 DEF CheckCtx, IInv, Stages
  <2>2. ~OutputOver /\ ~OutputOver'
    BY <2>1 DEF OutputOver
  <2>3. OutputOver' = OutputOver
    BY <2>2 DEF OutputOver
  <2>4. Streams' => Streams
    BY <1>b, <1>8 DEF CheckCtx, KeepConn, CloseConn
  <2>5. Quiet
    BY <1>a, <1>8, <2>3 DEF CheckCtx, SetupFrame, Quiet
  <2> QED BY <2>4, <2>5, QuietStep
<1>9. CASE OutputReports
  <2>1. UNCHANGED <<target, port, handler, lease, clientOpen, clientEOF, channel, conn, inputEOF>>
    BY <1>9 DEF OutputReports, OutputFrame, CopyFrame
  <2>2. ~OutputOver
    BY <1>9 DEF OutputReports, OutputOver
  <2>3. OutputOver' = TRUE
    BY <1>9 DEF OutputReports, OutputOver
  <2>4. Streams' = Streams
    BY <1>a, <2>1 DEF Streams
  <2>5. Use!OutputEnds
    BY <1>a, <2>1, <2>2, <2>3, <2>4 DEF Use!OutputEnds
  <2> QED BY <2>5 DEF Use!UseNext
<1> QED BY <1>1, <1>2, <1>3, <1>4, <1>5, <1>6, <1>7, <1>8, <1>9, QuietStep DEF ForwardSSH, SSHStep, DialStep, CopierEnds

(* The body over the API: the SPDY connection is negotiated once.           *)
LEMMA KubeUse ==
    ASSUME IInv, Holding, Forward
    PROVE  Use!UseNext \/ UNCHANGED Use!uvars
<1> USE DEF handlerVars, clientVars, progress, streamVars, kubeVars, baseVars, Use!ends
<1>a. ~direct /\ direct' = direct
  BY DEF Forward, KubeStep, ReaderStep, Select, Negotiate, CreateErrorStream, CreateDataStream, KubeCloserRuns,
     ReadErrors, DataInputEnds, DataOutputEnds, CopyData, SelectDone, SelectLocal, SelectRemote, SelectErrors,
     AfterRemote, AfterError, KubeletEnds, KubeBreaks, CloserFires, CopyOutput, ServiceWrites, ServiceEnds,
     ServiceFrame, BodyFrame, GoFrame, SelectFrame
<1>b. (Streams <=> conn = "open") /\ (Streams' <=> conn' = "open")
  BY <1>a DEF Streams
<1>1. ASSUME NEW ok \in BOOLEAN, Negotiate(ok) PROVE Use!UseNext \/ UNCHANGED Use!uvars
  <2>1. Quiet /\ handler = "forward" /\ conn # "open"
    BY <1>a, <1>1 DEF Negotiate, BodyFrame, Quiet, Holding, OutputOver
  <2>2. CASE Streams'
    BY <1>b, <2>1, <2>2, AttachStep
  <2>3. CASE ~Streams'
    BY <2>1, <2>3, QuietStep
  <2> QED BY <2>2, <2>3
<1>2. CASE DataInputEnds
  <2>1. /\ input' \in {"ok", "error"}
        /\ UNCHANGED <<target, port, handler, lease, clientOpen, clientEOF, conn, output>>
        /\ ~clientOpen \/ clientEOF \/ conn = "closed" \/ reset
    BY <1>2 DEF DataInputEnds, DataGone, GoFrame
  <2>2. Streams' = Streams /\ OutputOver' = OutputOver
    BY <1>a, <2>1 DEF Streams, OutputOver
  <2>3. ~clientOpen \/ clientEOF \/ ~Streams \/ (OutputOver /\ ~direct)
    BY <1>a, <1>b, <2>1 DEF IInv, Readers, OutputOver
  <2>4. (IF direct THEN inputEOF ELSE input \in {"ok", "error"})' = TRUE
    BY <1>a, <2>1
  <2>5. Use!EndInput
    BY <1>a, <2>1, <2>2, <2>3, <2>4 DEF Use!EndInput
  <2> QED BY <2>5 DEF Use!UseNext
<1>3. ASSUME NEW ok \in BOOLEAN,
   CreateErrorStream(ok) \/ CreateDataStream(ok) PROVE Quiet /\ (Streams' => Streams)
  BY <1>a, <1>b, <1>3 DEF CreateErrorStream, CreateDataStream, Leave, BodyFrame, Quiet, OutputOver, IInv, Stages
<1>4. CASE ReadErrors \/ CopyData
  <2>1. Quiet /\ (Streams' => Streams)
    BY <1>a, <1>b, <1>4 DEF ReadErrors, CopyData, GoFrame, Quiet, OutputOver
  <2> QED BY <2>1, QuietStep
<1>5. CASE KubeCloserRuns \/ KubeBreaks
  <2>1. Quiet /\ (Streams' => Streams)
    BY <1>a, <1>b, <1>5 DEF KubeCloserRuns, KubeBreaks, BodyFrame, Quiet, OutputOver
  <2> QED BY <2>1, QuietStep
<1>6. CASE Select
  <2>1. Quiet /\ (Streams' => Streams)
    BY <1>a, <1>b, <1>6 DEF Select, SelectDone, SelectLocal, SelectRemote, SelectErrors, AfterRemote,
       AfterError, Leave, SelectFrame, BodyFrame, Quiet, OutputOver
  <2> QED BY <2>1, QuietStep
<1>7. ASSUME NEW how \in {"clean", "message"}, KubeletEnds(how) PROVE Quiet /\ (Streams' => Streams)
  BY <1>a, <1>b, <1>7 DEF KubeletEnds, Quiet, OutputOver
<1>8. CASE (CloserFires \/ CopyOutput \/ ServiceWrites \/ ServiceEnds) /\ UNCHANGED kubeVars
  <2>1. Quiet /\ (Streams' => Streams)
    BY <1>a, <1>b, <1>8 DEF CloserFires, CopyOutput, ServiceWrites, ServiceEnds, ServiceFrame, Quiet, OutputOver
  <2> QED BY <2>1, QuietStep
<1>9. CASE DataOutputEnds
  <2>1. UNCHANGED <<target, port, handler, lease, clientOpen, clientEOF, conn, input>>
    BY <1>9 DEF DataOutputEnds, GoFrame
  <2>2. ~OutputOver
    BY <1>9 DEF DataOutputEnds, OutputOver
  <2>3. OutputOver' = TRUE
    BY <1>9 DEF DataOutputEnds, OutputOver
  <2>4. Streams' = Streams
    BY <1>a, <2>1 DEF Streams
  <2>5. Use!OutputEnds
    BY <1>a, <2>1, <2>2, <2>3, <2>4 DEF Use!OutputEnds
  <2> QED BY <2>5 DEF Use!UseNext
<1> QED BY <1>1, <1>2, <1>3, <1>4, <1>5, <1>6, <1>7, <1>8, <1>9, QuietStep DEF Forward, KubeStep, ReaderStep

(* A forward, over either backend, uses its workspace as every channel      *)
(* must: it implements WorkspaceUse.                                        *)
THEOREM ForwardImplementsUse == Spec => ImplementsUse
<1>1. Init => Use!UseInit
  BY DEF Init, BaseInit, SSHInit, KubeInit, Streams, OutputOver, Use!UseInit
<1>2. IInv /\ Holding /\ [Next]_vars => [Use!UseNext]_(Use!uvars)
  <2> SUFFICES ASSUME IInv, Holding, [Next]_vars PROVE Use!UseNext \/ UNCHANGED Use!uvars
    OBVIOUS
  <2>1. CASE UNCHANGED vars
    BY <2>1 DEF vars, baseVars, handlerVars, clientVars, streamVars, sshdVars, sshVars, kubeVars, Streams,
       OutputOver, Use!uvars, Use!ends
  <2> QED BY <2>1, AroundUse, SSHUse, KubeUse DEF Next
<1> QED BY <1>1, <1>2, ForwardInvariant, ForwardHolds, PTL DEF Spec, Safety, ImplementsUse, Use!UseSafety

(* Hence bytes pass between the client and the pod only under the lease and *)
(* only to the port asked for on its loopback, and a client whose channel   *)
(* was closed has nothing running for it any more.                          *)
THEOREM ForwardKeepsUse == Spec => []Use!UseInv /\ Use!UseStays
<1>1. Use!UseInit => Use!UseInv
  BY DEF Use!UseInit, Use!UseInv
<1>2. Use!UseInv /\ [Use!UseNext]_(Use!uvars) => Use!UseInv' /\ [Use!Stays]_(Use!uvars)
  BY DEF Use!UseInv, Use!Stays, Use!UseNext, Use!uvars, Use!ClientEnds, Use!Take, Use!Attach,
         Use!Detach, Use!OutputEnds, Use!EndInput, Use!Release, Use!Tell, Use!ends
<1> QED
  BY <1>1, <1>2, ForwardImplementsUse, PTL DEF ImplementsUse, Use!UseSafety, Use!UseStays

-----------------------------------------------------------------------------
(* Why a forward ends.                                                      *)

(* What a cancellation or the end of the body leaves nobody waiting for.    *)
Wake ==
    /\ direct /\ at = "open" => closer # "off" /\ (closer = "ran" => conn = "closed")
    /\ drain = "expired" => at = "returned"
    /\ direct /\ (at = "checkCtx" \/ input # "none" \/ output # "none") => channel # "none"
    /\ ~direct => /\ input # "none" \/ output # "none" => conn # "none"
                  /\ output \notin {"marked", "closing"}

LEMMA WakeNext ==
    ASSUME IInv, Wake, [Next]_vars
    PROVE  Wake'
<1> USE DEF handlerVars, clientVars, progress, streamVars, dialVars, sshdVars, loopVars, sshVars, baseVars, Wake
<1>1. CASE Around
  <2>1. ASSUME NEW ok \in BOOLEAN, Acquire(ok) PROVE Wake'
    <3>1. UNCHANGED <<direct, closer, conn, drain, input, output, channel>> /\ at = "idle"
      BY <1>1, <2>1 DEF Around, Acquire, HandlerFrame, IInv, Stages
    <3>2. at' \in {"idle", "dial", "negotiate"}
      BY <2>1, <3>1 DEF Acquire
    <3> QED BY <3>1, <3>2
  <2>2. CASE ~\E ok \in BOOLEAN : Acquire(ok)
    BY <1>1, <2>2 DEF Around, ClientStep, HandlerStep, ClientSends, ClientEOF, ClientLeaves, ClientFrame,
       Reject, Accept, RequestsEnd, Finish, HandlerFrame
  <2> QED BY <2>1, <2>2
<1>2. CASE ForwardSSH
  <2>a. direct
    BY <1>2 DEF ForwardSSH
  <2>1. ASSUME NEW ok \in BOOLEAN, Dial(ok) \/ Handshake(ok) PROVE Wake'
    BY <2>a, <2>1 DEF Dial, Handshake, Goto, Return, KeepConn, CloseConn, SetupFrame
  <2>2. ASSUME NEW ok \in BOOLEAN, OpenChannel(ok) PROVE Wake'
    BY <2>a, <2>2 DEF OpenChannel, Goto, Return, CloseConn, SetupFrame, IInv, Stages
  <2>3. CASE DialTimeout \/ DialCloserFires \/ DialCloserRuns \/ DeadlinePasses \/ CloserRuns
    BY <2>a, <2>3 DEF DialTimeout, DialCloserFires, DialCloserRuns, DeadlinePasses, CloserRuns, KeepConn,
       CloseConn, SetupFrame
  <2>4. CASE CheckDial
    BY <2>a, <2>4 DEF CheckDial, Goto, Return, KeepConn, CloseConn, SetupFrame
  <2>5. CASE CheckCtx
    BY <2>a, <2>5 DEF CheckCtx, Goto, Return, KeepConn, CloseConn, SetupFrame
  <2>6. CASE CopyInput \/ CopierEnds
    BY <2>a, <2>6 DEF CopyInput, CopierEnds, InputEnds, OutputEnds, OutputCloses, OutputReports, InputFrame,
       OutputFrame, CopyFrame
  <2>7. CASE LoopStep
    BY <2>a, <2>7 DEF LoopStep, Completes, RemoteClosed, LoopCancelled, DrainExpires, LoopEnds, Leaves, Return,
       CloseConn, KeepConn, LoopFrame
  <2>8. CASE SshdFlushes \/ SshdCloses \/ Breaks
    BY <2>a, <2>8 DEF SshdFlushes, SshdCloses, Breaks, KeepConn, CloseConn, SshdFrame
  <2>9. CASE (CloserFires \/ CopyOutput \/ ServiceWrites \/ ServiceEnds) /\ UNCHANGED sshVars
    BY <2>a, <2>9 DEF CloserFires, CopyOutput, ServiceWrites, ServiceEnds, ServiceFrame
  <2> QED BY <1>2, <2>1, <2>2, <2>3, <2>4, <2>5, <2>6, <2>7, <2>8, <2>9 DEF ForwardSSH, SSHStep, DialStep
<1>3. CASE Forward
  <2>a. ~direct /\ UNCHANGED sshVars
    BY <1>3 DEF Forward
  <2>1. ASSUME NEW ok \in BOOLEAN, Negotiate(ok) \/ CreateErrorStream(ok) PROVE Wake'
    BY <2>a, <2>1 DEF Negotiate, CreateErrorStream, Goto, Leave, Return, BodyFrame, IInv, Stages
  <2>2. ASSUME NEW ok \in BOOLEAN, CreateDataStream(ok) PROVE Wake'
    BY <2>a, <2>2 DEF CreateDataStream, Goto, Leave, Return, BodyFrame, IInv, Stages
  <2>3. CASE KubeCloserRuns \/ KubeBreaks
    BY <2>a, <2>3 DEF KubeCloserRuns, KubeBreaks, BodyFrame
  <2>4. CASE ReaderStep \/ CopyData
    BY <2>a, <2>4 DEF ReaderStep, ReadErrors, DataInputEnds, DataOutputEnds, CopyData, GoFrame
  <2>5. CASE Select
    BY <2>a, <2>5 DEF Select, SelectDone, SelectLocal, SelectRemote, SelectErrors, AfterRemote, AfterError,
       Leave, Return, Goto, SelectFrame, BodyFrame
  <2>6. ASSUME NEW how \in {"clean", "message"}, KubeletEnds(how) PROVE Wake'
    BY <2>a, <2>6 DEF KubeletEnds
  <2>7. CASE CloserFires \/ CopyOutput \/ ServiceWrites \/ ServiceEnds
    BY <2>a, <2>7 DEF CloserFires, CopyOutput, ServiceWrites, ServiceEnds, ServiceFrame
  <2> QED BY <1>3, <2>1, <2>2, <2>3, <2>4, <2>5, <2>6, <2>7 DEF Forward, KubeStep
<1>4. CASE UNCHANGED vars
  BY <1>4 DEF vars
<1> QED BY <1>1, <1>2, <1>3, <1>4 DEF Next

Finished == handler = "done" /\ input # "copying" /\ output \in {"none", "ok", "error"}

(* The guards of the actions that Fairness names, for a client that is gone.*)
CanMove ==
    \/ handler \in {"start", "acquire"}
    \/ handler = "forward" /\ (~cancelled \/ at = "returned")
    \/ closer = "armed" /\ cancelled
    \/ closer = "fired"
    \/ /\ direct
       /\ \/ at \in {"dial", "handshake", "checkDial", "checkCtx"}
          \/ dialCloser = "armed" /\ (cancelled \/ dialDone)
          \/ dialCloser = "fired"
          \/ deadline /\ conn = "open"
          \/ at = "open" /\ conn = "closed"
          \/ input = "copying" /\ (buffered = 0 \/ channel = "closed")
          \/ output = "copying" /\ (unread > 0 \/ remoteEOF \/ channel = "closed")
          \/ output \in {"marked", "closing"}
          \/ at = "loop" /\ waiting = {}
          \/ at = "loop" /\ "closed" \in waiting /\ channel = "closed"
          \/ at = "loop" /\ "input" \in waiting /\ input \in {"ok", "error"}
          \/ at = "loop" /\ "output" \in waiting /\ output \in {"ok", "error"}
          \/ at = "loop" /\ (drain = "running" \/ (cancelled /\ drain = "off"))
    \/ /\ ~direct
       /\ \/ at \in {"negotiate", "errorStream", "dataStream"}
          \/ at \in {"select", "afterRemote", "afterError"} /\ cancelled
          \/ at \in {"select", "afterError"} /\ (input = "error" \/ output \in {"ok", "error"})
          \/ at \in {"select", "afterRemote"} /\ errorResult # "none"
          \/ errors # "none" /\ errorResult = "none" /\ (errors # "open" \/ conn = "closed")
          \/ input = "copying" /\ (buffered = 0 \/ DataGone)
          \/ output = "copying" /\ (unread > 0 \/ remoteEOF \/ DataGone)

(* A forward whose client is gone is never stuck, over either backend and   *)
(* wherever the client left it: what the pod, the sshd and the kubelet do   *)
(* is not needed for it to move on.                                         *)
ForwardNotStuck == ~clientOpen => Finished \/ CanMove

(* Proved from the invariant, from what the handler holds and from Wake: a  *)
(* cancelled body has a way out at every place, and copiers outlive it only *)
(* over a closed transport.                                                 *)
THEOREM ForwardNeverStuck == Spec => []ForwardNotStuck
<1>1. Init => Wake
  BY DEF Init, BaseInit, SSHInit, Wake
<1>2. IInv /\ Holding /\ Wake => ForwardNotStuck
  <2> SUFFICES ASSUME IInv, Holding, Wake, ~clientOpen, ~CanMove
               PROVE  Finished
    BY DEF ForwardNotStuck
  <2>1. handler = "done" \/ (handler = "forward" /\ cancelled /\ at \notin {"idle", "returned"})
    BY DEF IInv, TypeOK, BaseTypeOK, CanMove, Holding
  <2>2. at # "open"
    BY <2>1 DEF IInv, TypeOK, BaseTypeOK, Stages, Holding, Wake, CanMove
  <2>3. at # "loop"
    BY <2>1 DEF IInv, TypeOK, SSHTypeOK, Stages, Holding, Wake, CanMove
  <2>4. handler = "done" /\ at \in {"idle", "returned"}
    BY <2>1, <2>2, <2>3 DEF IInv, TypeOK, BaseTypeOK, Place, Stages, Holding, CanMove
  <2>5. buffered = 0 \/ buffered > 0
    BY DEF IInv, TypeOK, BaseTypeOK
  <2>6. CASE direct
    <3>1. input # "none" \/ output # "none" => channel = "closed"
      BY <2>4, <2>6 DEF Wake, Holding, IInv, TypeOK, SSHTypeOK
    <3> QED BY <2>4, <2>6, <3>1 DEF CanMove, Finished, IInv, TypeOK, BaseTypeOK, Copier
  <2>7. CASE ~direct
    <3>1. input # "none" \/ output # "none" => conn = "closed"
      BY <2>4, <2>7 DEF Wake, Holding, IInv, TypeOK, BaseTypeOK
    <3> QED BY <2>4, <2>7, <3>1 DEF CanMove, DataGone, Wake, Finished, IInv, TypeOK, BaseTypeOK, Copier
  <2> QED BY <2>6, <2>7
<1> QED BY <1>1, <1>2, ForwardInvariant, ForwardHolds, WakeNext, PTL DEF Spec, Safety

(* How much is left to do: by the body and everything that it starts, with  *)
(* the data, by the handler and the loop, and with the kubelet's verdict.   *)
AtRank == [idle |-> 10, dial |-> 9, negotiate |-> 9, handshake |-> 8, errorStream |-> 8, checkDial |-> 7,
           dataStream |-> 7, open |-> 6, select |-> 6, checkCtx |-> 5, afterRemote |-> 5, afterError |-> 5,
           loop |-> 4, returned |-> 0]
Pending == [copying |-> 3, marked |-> 2, closing |-> 1, armed |-> 2, fired |-> 1, open |-> 1,
            none |-> 0, ok |-> 0, error |-> 0, off |-> 0, ran |-> 0, closed |-> 0]
HandlerRank == [start |-> 3, acquire |-> 2, forward |-> 1, done |-> 0]
DrainRank == [off |-> 2, running |-> 1, expired |-> 0]
ErrorRank == [none |-> 2, open |-> 1, clean |-> 0, message |-> 0]
Yet(b) == IF b THEN 1 ELSE 0

Started == Pending[closer] + Pending[dialCloser] + Pending[conn] + Pending[channel]
             + Pending[input] + Pending[output]
Body == 7 * AtRank[at] + Started
Data == 2 * buffered + queued + (MaxBuffer - unread) + Yet(~remoteEOF)
Control == HandlerRank[handler] + Yet(~cancelled) + Yet(~dialDone) + DrainRank[drain]
             + Yet("input" \in waiting) + Yet("output" \in waiting) + Yet("closed" \in waiting)
Verdict == ErrorRank[errors] + Yet(errorResult = "none") + Yet(~reset)
Work == Body + Data + Control + Verdict

LEMMA SmallerSum ==
    \A a, b, c, d, w, x, y, z \in Nat :
        /\ w = a \/ w < a
        /\ x = b \/ x < b
        /\ y = c \/ y < c
        /\ z = d \/ z < d
        /\ w < a \/ x < b \/ y < c \/ z < d
        => w + x + y + z < a + b + c + d
OBVIOUS

LEMMA SumTyped == \A a, b, c, d \in Nat : a + b + c + d \in Nat
OBVIOUS

(* A body that moves on may start six units of work and is still ahead.     *)
LEMMA Ahead == \A a, b, p, q \in Nat : b < a /\ q <= p + 6 => 7 * b + q < 7 * a + p
OBVIOUS

Measured == /\ AtRank[at] \in Nat /\ Started \in Nat
            /\ Pending[closer] \in 0..3 /\ Pending[dialCloser] \in 0..3 /\ Pending[conn] \in 0..3
            /\ Pending[channel] \in 0..3 /\ Pending[input] \in 0..3 /\ Pending[output] \in 0..3
            /\ HandlerRank[handler] \in Nat /\ DrainRank[drain] \in Nat /\ ErrorRank[errors] \in Nat
            /\ Body \in Nat /\ Data \in Nat /\ Control \in Nat /\ Verdict \in Nat

LEMMA Ranked == TypeOK => Measured
<1> SUFFICES ASSUME TypeOK PROVE Measured
  OBVIOUS
<1>1. /\ AtRank[at] \in Nat /\ HandlerRank[handler] \in Nat
      /\ DrainRank[drain] \in Nat /\ ErrorRank[errors] \in Nat
  BY DEF TypeOK, BaseTypeOK, SSHTypeOK, KubeTypeOK, Place, AtRank, HandlerRank, DrainRank, ErrorRank
<1>2. /\ Pending[closer] \in 0..3 /\ Pending[dialCloser] \in 0..3 /\ Pending[conn] \in 0..3
      /\ Pending[channel] \in 0..3 /\ Pending[input] \in 0..3 /\ Pending[output] \in 0..3
  BY DEF TypeOK, BaseTypeOK, SSHTypeOK, Copier, Pending
<1>3. Started \in Nat
  BY <1>2 DEF Started
<1>4. Body \in Nat
  BY <1>1, <1>3 DEF Body
<1>5. Data \in Nat
  BY DEF TypeOK, BaseTypeOK, SSHTypeOK, Data, Yet
<1>6. Control \in Nat /\ Verdict \in Nat
  BY <1>1 DEF Control, Verdict, Yet
<1> QED BY <1>1, <1>2, <1>3, <1>4, <1>5, <1>6 DEF Measured

LEMMA RankedNext == TypeOK' => Measured'
BY Ranked, PTL

(* No part of the work grows, and one gets smaller.                         *)
Falls == /\ Body' = Body \/ Body' < Body
         /\ Data' = Data \/ Data' < Data
         /\ Control' = Control \/ Control' < Control
         /\ Verdict' = Verdict \/ Verdict' < Verdict
         /\ Body' < Body \/ Data' < Data \/ Control' < Control \/ Verdict' < Verdict

(* The parts and the variables they are about.                              *)
LEMMA SameWork ==
    /\ UNCHANGED <<at, closer, dialCloser, conn, channel, input, output>> => Body' = Body
    /\ UNCHANGED <<buffered, queued, unread, remoteEOF>> => Data' = Data
    /\ UNCHANGED <<handler, cancelled, dialDone, drain, waiting>> => Control' = Control
    /\ UNCHANGED <<errors, errorResult, reset>> => Verdict' = Verdict
BY DEF Body, Started, Data, Control, Verdict

(* The body moves on.                                                       *)
LEMMA BodyMoves ==
    ASSUME Measured, Measured', AtRank[at'] < AtRank[at], Started' <= Started + 6
    PROVE  Body' < Body
BY Ahead DEF Body, Measured

(* The handler's steps.                                                     *)
LEMMA AroundFalls ==
    ASSUME IInv, Measured, Measured', ~clientOpen, Around
    PROVE  Falls
<1> USE DEF handlerVars, clientVars, progress, streamVars, dialVars, sshdVars, loopVars, sshVars, kubeVars
<1>a. /\ UNCHANGED <<closer, dialCloser, conn, channel, input, output, dialDone, drain, waiting>>
      /\ Data' = Data /\ Verdict' = Verdict
  BY SameWork DEF Around, ClientStep, HandlerStep, ClientSends, ClientEOF, ClientLeaves, Reject, Accept,
     RequestsEnd, Finish, Acquire, HandlerFrame
<1>b. Started' = Started
  BY <1>a DEF Started
<1>c. HandlerRank[handler] \in Nat /\ HandlerRank[handler'] \in Nat /\ DrainRank[drain] \in Nat
  BY DEF Measured
<1>1. CASE Reject \/ Accept \/ Finish
  <2>1. UNCHANGED <<at>> /\ (cancelled' = cancelled \/ cancelled')
    BY <1>1 DEF Reject, Accept, Finish
  <2>2. HandlerRank[handler'] < HandlerRank[handler]
    BY <1>1 DEF Reject, Accept, Finish, HandlerRank
  <2>3. Control' < Control
    BY <1>a, <1>c, <2>1, <2>2 DEF Control, Yet
  <2>4. Body' = Body
    BY <1>a, <2>1, SameWork
  <2> QED BY <1>a, <2>3, <2>4 DEF Falls
<1>2. CASE RequestsEnd
  <2>1. UNCHANGED <<at, handler>> /\ ~cancelled /\ cancelled'
    BY <1>2 DEF RequestsEnd
  <2>3. Control' < Control
    BY <1>a, <1>c, <2>1 DEF Control, Yet
  <2>4. Body' = Body
    BY <1>a, <2>1, SameWork
  <2> QED BY <1>a, <2>3, <2>4 DEF Falls
<1>3. ASSUME NEW ok \in BOOLEAN, Acquire(ok) PROVE Falls
  <2>1. handler = "acquire" /\ handler' \in {"forward", "done"} /\ (cancelled' = cancelled \/ cancelled')
    BY <1>3 DEF Acquire
  <2>2. HandlerRank[handler'] < HandlerRank[handler]
    BY <2>1 DEF HandlerRank
  <2>3. Control' < Control
    BY <1>a, <1>c, <2>1, <2>2 DEF Control, Yet
  <2>4. at = "idle" /\ at' \in {"idle", "dial", "negotiate"}
    BY <1>3, <2>1 DEF Acquire, IInv, Stages
  <2>5. at' = at \/ AtRank[at'] < AtRank[at]
    BY <2>4 DEF AtRank
  <2>6. Started' <= Started + 6
    BY <1>b DEF Measured
  <2>7. Body' = Body \/ Body' < Body
    BY <1>a, <2>5, <2>6, BodyMoves, SameWork
  <2> QED BY <1>a, <2>3, <2>7 DEF Falls
<1> QED BY <1>1, <1>2, <1>3 DEF Around, ClientStep, HandlerStep, ClientSends, ClientEOF, ClientLeaves

(* The body over SSH, what it has started, and the sshd.                    *)
LEMMA SSHFalls ==
    ASSUME IInv, Measured, Measured', Holding, ~clientOpen, ForwardSSH
    PROVE  Falls
<1> USE DEF handlerVars, clientVars, progress, streamVars, dialVars, sshdVars, loopVars, sshVars, baseVars,
   kubeVars
<1>a. /\ Pending[closer] \in 0..3 /\ Pending[dialCloser] \in 0..3 /\ Pending[conn] \in 0..3
      /\ Pending[channel] \in 0..3 /\ Pending[input] \in 0..3 /\ Pending[output] \in 0..3
      /\ Pending[closer'] \in 0..3 /\ Pending[dialCloser'] \in 0..3 /\ Pending[conn'] \in 0..3
      /\ Pending[channel'] \in 0..3 /\ Pending[input'] \in 0..3 /\ Pending[output'] \in 0..3
      /\ AtRank[at] \in Nat /\ HandlerRank[handler] \in Nat
      /\ DrainRank[drain] \in Nat /\ DrainRank[drain'] \in Nat
  BY DEF Measured
<1>b. Verdict' = Verdict
  BY SameWork DEF ForwardSSH
<1>c. /\ CloseConn => Pending[conn'] <= Pending[conn] /\ Pending[channel'] <= Pending[channel]
      /\ dialCloser' = Stopped(dialCloser) => Pending[dialCloser'] <= Pending[dialCloser]
      /\ closer' = Stopped(closer) => Pending[closer'] <= Pending[closer]
  <2>1. CloseConn => Pending[conn'] <= Pending[conn]
    BY <1>a DEF CloseConn, Pending
  <2>2. CloseConn => Pending[channel'] <= Pending[channel]
    BY <1>a DEF CloseConn, Pending
  <2>3. dialCloser' = Stopped(dialCloser) => Pending[dialCloser'] <= Pending[dialCloser]
    BY <1>a DEF Stopped, Pending
  <2>4. closer' = Stopped(closer) => Pending[closer'] <= Pending[closer]
    BY <1>a DEF Stopped, Pending
  <2> QED BY <2>1, <2>2, <2>3, <2>4
<1>d. ASSUME Data' = Data, Control' = Control \/ Control' < Control, Body' < Body PROVE Falls
  BY <1>b, <1>d DEF Falls
<1>1. ASSUME NEW ok \in BOOLEAN, Dial(ok) PROVE Falls
  <2>1. AtRank[at'] < AtRank[at]
    BY <1>1 DEF Dial, Goto, Return, AtRank
  <2>2. UNCHANGED <<closer, channel, input, output>>
    BY <1>1 DEF Dial
  <2>3. Started' <= Started + 6
    BY <1>a, <2>2 DEF Started
  <2>4. Data' = Data /\ Control' = Control
    BY <1>1, SameWork DEF Dial, SetupFrame
  <2> QED BY <1>d, <2>1, <2>3, <2>4, BodyMoves
<1>2. ASSUME NEW ok \in BOOLEAN, Handshake(ok) PROVE Falls
  <2>1. AtRank[at'] < AtRank[at]
    BY <1>2 DEF Handshake, Goto, Return, AtRank
  <2>2. UNCHANGED <<closer, input, output>> /\ Pending[dialCloser'] <= Pending[dialCloser]
    BY <1>2, <1>c DEF Handshake
  <2>3. Started' <= Started + 6
    BY <1>a, <2>2 DEF Started
  <2>4. Data' = Data /\ Control' = Control
    BY <1>2, SameWork DEF Handshake, SetupFrame
  <2> QED BY <1>d, <2>1, <2>3, <2>4, BodyMoves
<1>3. CASE CheckDial
  <2>1. AtRank[at'] < AtRank[at]
    BY <1>3 DEF CheckDial, Goto, Return, AtRank
  <2>2. UNCHANGED <<dialCloser, input, output>>
    BY <1>3 DEF CheckDial
  <2>3. (CloseConn \/ UNCHANGED <<conn, channel>>)
    BY <1>3 DEF CheckDial, KeepConn
  <2>4. Pending[conn'] <= Pending[conn] /\ Pending[channel'] <= Pending[channel]
    BY <1>a, <1>c, <2>3
  <2>5. Started' <= Started + 6
    BY <1>a, <2>2, <2>4 DEF Started
  <2>6. dialDone' = TRUE /\ UNCHANGED <<handler, cancelled, drain, waiting>>
    BY <1>3 DEF CheckDial, SetupFrame
  <2>7. Control' = Control \/ Control' < Control
    BY <1>a, <2>6 DEF Control, Yet
  <2>8. Data' = Data
    BY <1>3, SameWork DEF CheckDial, SetupFrame
  <2> QED BY <1>d, <2>1, <2>5, <2>7, <2>8, BodyMoves
<1>4. ASSUME NEW ok \in BOOLEAN, OpenChannel(ok) PROVE Falls
  <2>1. AtRank[at'] < AtRank[at]
    BY <1>4 DEF OpenChannel, Goto, Return, AtRank
  <2>2. UNCHANGED <<dialCloser, input, output>> /\ Pending[closer'] <= Pending[closer]
    BY <1>4, <1>c DEF OpenChannel
  <2>3. Started' <= Started + 6
    BY <1>a, <2>2 DEF Started
  <2>4. Data' = Data /\ Control' = Control
    BY <1>4, SameWork DEF OpenChannel, SetupFrame
  <2> QED BY <1>d, <2>1, <2>3, <2>4, BodyMoves
<1>5. CASE CheckCtx
  <2>1. AtRank[at'] < AtRank[at]
    BY <1>5 DEF CheckCtx, Goto, Return, AtRank
  <2>2. UNCHANGED <<dialCloser, closer>>
    BY <1>5 DEF CheckCtx
  <2>3. CloseConn \/ UNCHANGED <<conn, channel>>
    BY <1>5 DEF CheckCtx, KeepConn
  <2>4. Pending[conn'] <= Pending[conn] /\ Pending[channel'] <= Pending[channel]
    BY <1>a, <1>c, <2>3
  <2>5. Started' <= Started + 6
    BY <1>a, <2>2, <2>4 DEF Started
  <2>6. Data' = Data /\ Control' = Control
    BY <1>5, SameWork DEF CheckCtx, SetupFrame
  <2> QED BY <1>d, <2>1, <2>5, <2>6, BodyMoves
<1>6. CASE DialTimeout
  <2>1. ~dialDone /\ dialDone' /\ UNCHANGED <<handler, cancelled, drain, waiting>>
    BY <1>6 DEF DialTimeout, SetupFrame
  <2>2. Control' < Control
    BY <1>a, <2>1 DEF Control, Yet
  <2>3. Body' = Body /\ Data' = Data
    BY <1>6, SameWork DEF DialTimeout, KeepConn, SetupFrame
  <2> QED BY <1>b, <2>2, <2>3 DEF Falls
<1>7. CASE DialCloserFires \/ (CloserFires /\ UNCHANGED sshVars)
  <2>1. UNCHANGED <<at, conn, channel, input, output>>
        /\ \/ dialCloser = "armed" /\ dialCloser' = "fired" /\ closer' = closer
           \/ closer = "armed" /\ closer' = "fired" /\ dialCloser' = dialCloser
    BY <1>7 DEF DialCloserFires, CloserFires, KeepConn, SetupFrame
  <2>2. Body' < Body
    BY <1>a, <2>1 DEF Body, Started, Pending
  <2>3. Data' = Data /\ Control' = Control
    BY <1>7, SameWork DEF DialCloserFires, CloserFires, SetupFrame
  <2> QED BY <1>d, <2>2, <2>3
<1>8. CASE DialCloserRuns \/ CloserRuns
  <2>1. UNCHANGED <<at, input, output>> /\ CloseConn
        /\ \/ dialCloser = "fired" /\ dialCloser' = "ran" /\ closer' = closer
           \/ closer = "fired" /\ closer' = "ran" /\ dialCloser' = dialCloser
    BY <1>8 DEF DialCloserRuns, CloserRuns, SetupFrame
  <2>2. Pending[conn'] <= Pending[conn] /\ Pending[channel'] <= Pending[channel]
    BY <1>c, <2>1
  <2>3. Pending[closer'] + Pending[dialCloser'] < Pending[closer] + Pending[dialCloser]
    BY <1>a, <2>1 DEF Pending
  <2>4. Body' < Body
    BY <1>a, <2>1, <2>2, <2>3 DEF Body, Started
  <2>5. Data' = Data /\ Control' = Control
    BY <1>8, SameWork DEF DialCloserRuns, CloserRuns, SetupFrame
  <2> QED BY <1>d, <2>4, <2>5
<1>9. CASE DeadlinePasses \/ Breaks \/ SshdCloses
  <2>1. UNCHANGED <<at, closer, dialCloser, input, output>> /\ Data' = Data /\ Control' = Control
    BY <1>9, SameWork DEF DeadlinePasses, SetupFrame, Breaks, SshdCloses, SshdFrame
  <2>2. \/ conn = "open" /\ conn' = "closed" /\ CloseConn
        \/ channel = "open" /\ channel' = "closed" /\ conn' = conn
    BY <1>9 DEF DeadlinePasses, Breaks, SshdCloses, CloseConn
  <2>3. Pending[conn'] + Pending[channel'] < Pending[conn] + Pending[channel]
    <3>1. CASE conn = "open" /\ conn' = "closed" /\ CloseConn
      <4>1. Pending[conn] = 1 /\ Pending[conn'] = 0
        BY <3>1 DEF Pending
      <4> QED BY <1>a, <1>c, <3>1, <4>1
    <3>2. CASE channel = "open" /\ channel' = "closed" /\ conn' = conn
      BY <1>a, <3>2 DEF Pending
    <3> QED BY <2>2, <3>1, <3>2
  <2>4. Body' < Body
    BY <1>a, <2>1, <2>3 DEF Body, Started
  <2> QED BY <1>d, <2>1, <2>4
<1>10. CASE CopierEnds
  <2>1. UNCHANGED <<at, closer, dialCloser, conn, channel>> /\ Data' = Data /\ Control' = Control
    BY <1>10, SameWork DEF CopierEnds, InputEnds, OutputEnds, OutputCloses, OutputReports, InputFrame,
       OutputFrame,
       CopyFrame
  <2>2. \/ input = "copying" /\ input' \in {"ok", "error"} /\ output' = output
        \/ output = "copying" /\ output' \in {"marked", "error"} /\ input' = input
        \/ output = "marked" /\ output' = "closing" /\ input' = input
        \/ output = "closing" /\ output' = "ok" /\ input' = input
    BY <1>10 DEF CopierEnds, InputEnds, OutputEnds, OutputCloses, OutputReports, InputFrame, OutputFrame
  <2>3. Body' < Body
    BY <1>a, <2>1, <2>2 DEF Body, Started, Pending
  <2> QED BY <1>d, <2>1, <2>3
<1>11. CASE CopyInput \/ SshdFlushes \/ ((ServiceWrites \/ ServiceEnds) /\ UNCHANGED sshVars)
  <2>1. Body' = Body /\ Control' = Control
    BY <1>11, SameWork DEF CopyInput, InputFrame, CopyFrame, SshdFlushes, KeepConn, SshdFrame, ServiceWrites,
       ServiceEnds, ServiceFrame
  <2>2. buffered \in 0..MaxBuffer /\ queued \in 0..MaxBuffer /\ unread \in 0..MaxBuffer
    BY DEF IInv, TypeOK, BaseTypeOK, SSHTypeOK
  <2>3. \/ buffered' = buffered - 1 /\ queued' = queued + 1 /\ UNCHANGED <<unread, remoteEOF>>
        \/ queued' = queued - 1 /\ UNCHANGED <<buffered, unread, remoteEOF>>
        \/ unread' = unread + 1 /\ UNCHANGED <<buffered, queued, remoteEOF>>
        \/ ~remoteEOF /\ remoteEOF' /\ UNCHANGED <<buffered, queued, unread>>
    BY <1>11 DEF CopyInput, InputFrame, CopyFrame, SshdFlushes, SshdFrame, ServiceWrites, ServiceEnds,
       ServiceFrame
  <2>4. Data' < Data
    BY <2>2, <2>3 DEF Data, Yet
  <2> QED BY <1>b, <2>1, <2>4 DEF Falls
<1>12. CASE LoopStep
  <2>1. UNCHANGED <<closer, dialCloser, input, output, handler, cancelled, dialDone>> /\ Data' = Data
    BY <1>12, SameWork DEF LoopStep, Completes, RemoteClosed, LoopCancelled, DrainExpires, LoopEnds, LoopFrame
  <2>2. CASE at = "loop" /\ at' = "returned" /\ CloseConn /\ waiting' = waiting
             /\ (drain' = drain \/ (drain = "running" /\ drain' = "expired"))
    <3>1. AtRank[at'] < AtRank[at]
      BY <2>2 DEF AtRank
    <3>2. Pending[conn'] <= Pending[conn] /\ Pending[channel'] <= Pending[channel]
      BY <1>c, <2>2
    <3>3. Started' <= Started + 6
      BY <1>a, <2>1, <3>2 DEF Started
    <3>4. DrainRank[drain'] <= DrainRank[drain]
      BY <1>a, <2>2 DEF DrainRank
    <3>5. Control' = Control \/ Control' < Control
      BY <1>a, <2>1, <2>2, <3>4 DEF Control, Yet
    <3> QED BY <1>d, <2>1, <3>1, <3>3, <3>5, BodyMoves
  <2>3. ASSUME NEW c \in {"input", "output", "closed"}, c \in waiting, waiting' = waiting \ {c},
               UNCHANGED <<at, conn, channel, drain>>
        PROVE  Falls
    <3>1. Body' = Body
      BY <2>1, <2>3, SameWork
    <3>2. Control' < Control
      BY <1>a, <2>1, <2>3 DEF Control, Yet
    <3> QED BY <1>b, <2>1, <3>1, <3>2 DEF Falls
  <2>4. CASE drain = "off" /\ drain' = "running" /\ UNCHANGED <<at, conn, channel, waiting>>
    <3>1. Body' = Body
      BY <2>1, <2>4, SameWork
    <3>2. DrainRank[drain'] < DrainRank[drain]
      BY <2>4 DEF DrainRank
    <3>3. Control' < Control
      BY <1>a, <2>1, <2>4, <3>2 DEF Control, Yet
    <3> QED BY <1>b, <2>1, <3>1, <3>3 DEF Falls
  <2>5. ASSUME NEW c \in {"input", "output"}, NEW copier, Completes(c, copier) PROVE Falls
    BY <2>2, <2>3, <2>5 DEF Completes, Leaves, Return, KeepConn
  <2>6. CASE RemoteClosed
    BY <2>3, <2>6 DEF RemoteClosed, KeepConn
  <2>7. CASE LoopCancelled
    BY <2>2, <2>4, <2>7 DEF LoopCancelled, Leaves, Return, KeepConn
  <2>8. CASE DrainExpires \/ LoopEnds
    BY <2>2, <2>8 DEF DrainExpires, LoopEnds, Leaves, Return
  <2> QED BY <1>12, <2>5, <2>6, <2>7, <2>8 DEF LoopStep
<1> QED BY <1>1, <1>2, <1>3, <1>4, <1>5, <1>6, <1>7, <1>8, <1>9, <1>10, <1>11, <1>12
        DEF ForwardSSH, SSHStep, DialStep, CopyOutput

(* The body over the API, its readers, and the kubelet.                     *)
LEMMA KubeFalls ==
    ASSUME IInv, Measured, Measured', ~clientOpen, Forward
    PROVE  Falls
<1> USE DEF handlerVars, clientVars, progress, streamVars, dialVars, sshdVars, loopVars, sshVars, baseVars,
   kubeVars
<1>a. /\ Pending[closer] \in 0..3 /\ Pending[dialCloser] \in 0..3 /\ Pending[conn] \in 0..3
      /\ Pending[channel] \in 0..3 /\ Pending[input] \in 0..3 /\ Pending[output] \in 0..3
      /\ Pending[closer'] \in 0..3 /\ Pending[dialCloser'] \in 0..3 /\ Pending[conn'] \in 0..3
      /\ Pending[channel'] \in 0..3 /\ Pending[input'] \in 0..3 /\ Pending[output'] \in 0..3
      /\ AtRank[at] \in Nat /\ ErrorRank[errors] \in Nat /\ ErrorRank[errors'] \in Nat
  BY DEF Measured
<1>b. UNCHANGED <<dialCloser, channel, dialDone, drain, waiting, queued>>
  BY DEF Forward
<1>c. conn' = "closed" => Pending[conn'] <= Pending[conn]
  BY <1>a DEF Pending
<1>d. ASSUME Data' = Data, Control' = Control, Verdict' = Verdict \/ Verdict' < Verdict,
   Body' < Body PROVE Falls
  BY <1>d DEF Falls
<1>1. ASSUME NEW ok \in BOOLEAN, Negotiate(ok) PROVE Falls
  <2>1. AtRank[at'] < AtRank[at]
    BY <1>1 DEF Negotiate, Goto, Return, AtRank
  <2>2. UNCHANGED <<input, output>>
    BY <1>1 DEF Negotiate
  <2>3. Started' <= Started + 6
    BY <1>a, <1>b, <2>2 DEF Started
  <2>4. Data' = Data /\ Control' = Control /\ Verdict' = Verdict
    BY <1>1, <1>b, SameWork DEF Negotiate, BodyFrame
  <2> QED BY <1>d, <2>1, <2>3, <2>4, BodyMoves
<1>2. ASSUME NEW ok \in BOOLEAN, CreateErrorStream(ok) PROVE Falls
  <2>1. AtRank[at'] < AtRank[at]
    BY <1>2 DEF CreateErrorStream, Goto, Leave, Return, AtRank
  <2>2. UNCHANGED <<closer, input, output>>
    BY <1>2 DEF CreateErrorStream
  <2>3. Started' <= Started + 6
    BY <1>a, <1>b, <2>2 DEF Started
  <2>4. Data' = Data /\ Control' = Control
    BY <1>2, <1>b, SameWork DEF CreateErrorStream, BodyFrame
  <2>5. errors = "none" /\ errors' \in {"none", "open"} /\ UNCHANGED <<errorResult, reset>>
    BY <1>2 DEF CreateErrorStream, IInv, Readers, Stages
  <2>6. ErrorRank[errors'] <= ErrorRank[errors]
    BY <2>5 DEF ErrorRank
  <2>7. Verdict' = Verdict \/ Verdict' < Verdict
    BY <1>a, <2>5, <2>6 DEF Verdict, Yet
  <2> QED BY <1>d, <2>1, <2>3, <2>4, <2>7, BodyMoves
<1>3. ASSUME NEW ok \in BOOLEAN, CreateDataStream(ok) PROVE Falls
  <2>1. AtRank[at'] < AtRank[at]
    BY <1>3 DEF CreateDataStream, Goto, Leave, Return, AtRank
  <2>2. UNCHANGED closer /\ Pending[conn'] <= Pending[conn]
    BY <1>3, <1>a, <1>c DEF CreateDataStream, Leave
  <2>3. Started' <= Started + 6
    BY <1>a, <1>b, <2>2 DEF Started
  <2>4. Data' = Data /\ Control' = Control /\ Verdict' = Verdict
    BY <1>3, <1>b, SameWork DEF CreateDataStream, BodyFrame
  <2> QED BY <1>d, <2>1, <2>3, <2>4, BodyMoves
<1>4. CASE Select
  <2>1. AtRank[at'] < AtRank[at]
    BY <1>4 DEF Select, SelectDone, SelectLocal, SelectRemote, SelectErrors, AfterRemote, AfterError, Goto,
       Leave,
       Return, AtRank
  <2>2. UNCHANGED <<closer, input, output>>
    BY <1>4 DEF Select, SelectDone, SelectLocal, SelectRemote, SelectErrors, AfterRemote, AfterError,
       SelectFrame
  <2>3. Started' <= Started + 6
    BY <1>a, <1>b, <2>2 DEF Started
  <2>4. Data' = Data /\ Control' = Control
    BY <1>4, <1>b, SameWork DEF Select, SelectDone, SelectLocal, SelectRemote, SelectErrors, AfterRemote,
       AfterError,
       SelectFrame, BodyFrame
  <2>5. UNCHANGED <<errors, errorResult>> /\ (reset' = reset \/ reset')
    BY <1>4 DEF Select, SelectDone, SelectLocal, SelectRemote, SelectErrors, AfterRemote, AfterError,
       SelectFrame
  <2>6. Verdict' = Verdict \/ Verdict' < Verdict
    BY <1>a, <2>5 DEF Verdict, Yet
  <2> QED BY <1>d, <2>1, <2>3, <2>4, <2>6, BodyMoves
<1>5. CASE KubeCloserRuns \/ KubeBreaks \/ (CloserFires /\ UNCHANGED kubeVars)
  <2>1. UNCHANGED <<at, input, output>> /\ Data' = Data /\ Control' = Control
    BY <1>5, <1>b, SameWork DEF KubeCloserRuns, KubeBreaks, CloserFires, BodyFrame
  <2>2. \/ closer = "fired" /\ closer' = "ran" /\ conn' = "closed"
        \/ closer = "armed" /\ closer' = "fired" /\ conn' = conn
        \/ closer' = closer /\ conn = "open" /\ conn' = "closed"
    BY <1>5 DEF KubeCloserRuns, KubeBreaks, CloserFires
  <2>3. Pending[closer'] + Pending[conn'] < Pending[closer] + Pending[conn]
    BY <1>a, <2>2 DEF Pending
  <2>4. Body' < Body
    BY <1>a, <1>b, <2>1, <2>3 DEF Body, Started
  <2>5. Verdict' = Verdict
    BY <1>5, SameWork DEF KubeCloserRuns, KubeBreaks
  <2> QED BY <1>d, <2>1, <2>4, <2>5
<1>6. CASE DataInputEnds \/ DataOutputEnds
  <2>1. UNCHANGED <<at, closer, conn>> /\ Data' = Data /\ Control' = Control /\ Verdict' = Verdict
    BY <1>6, <1>b, SameWork DEF DataInputEnds, DataOutputEnds, GoFrame
  <2>2. \/ input = "copying" /\ input' \in {"ok", "error"} /\ output' = output
        \/ output = "copying" /\ output' \in {"ok", "error"} /\ input' = input
    BY <1>6 DEF DataInputEnds, DataOutputEnds
  <2>3. Body' < Body
    BY <1>a, <1>b, <2>1, <2>2 DEF Body, Started, Pending
  <2> QED BY <1>d, <2>1, <2>3
<1>7. CASE ReadErrors \/ \E how \in {"clean", "message"} : KubeletEnds(how)
  <2>1. Body' = Body /\ Data' = Data /\ Control' = Control
    BY <1>7, <1>b, SameWork DEF ReadErrors, GoFrame, KubeletEnds
  <2>2. \/ errorResult = "none" /\ errorResult' # "none" /\ UNCHANGED <<errors, reset>>
        \/ errors = "open" /\ errors' \in {"clean", "message"} /\ UNCHANGED <<errorResult, reset>>
    BY <1>7 DEF ReadErrors, GoFrame, KubeletEnds
  <2>3. Verdict' < Verdict
    BY <1>a, <2>2 DEF Verdict, Yet, ErrorRank
  <2> QED BY <2>1, <2>3 DEF Falls
<1>8. CASE CopyData \/ ((ServiceWrites \/ ServiceEnds) /\ UNCHANGED kubeVars)
  <2>1. Body' = Body /\ Control' = Control /\ Verdict' = Verdict
    BY <1>8, <1>b, SameWork DEF CopyData, GoFrame, ServiceWrites, ServiceEnds, ServiceFrame
  <2>2. buffered \in 0..MaxBuffer /\ queued \in 0..MaxBuffer /\ unread \in 0..MaxBuffer
    BY DEF IInv, TypeOK, BaseTypeOK, SSHTypeOK
  <2>3. \/ buffered' = buffered - 1 /\ UNCHANGED <<queued, unread, remoteEOF>>
        \/ unread' = unread + 1 /\ UNCHANGED <<buffered, queued, remoteEOF>>
        \/ ~remoteEOF /\ remoteEOF' /\ UNCHANGED <<buffered, queued, unread>>
    BY <1>8, <1>b DEF CopyData, GoFrame, ServiceWrites, ServiceEnds, ServiceFrame
  <2>4. Data' < Data
    BY <2>2, <2>3 DEF Data, Yet
  <2> QED BY <2>1, <2>4 DEF Falls
<1> QED BY <1>1, <1>2, <1>3, <1>4, <1>5, <1>6, <1>7, <1>8 DEF Forward, KubeStep, ReaderStep, CopyOutput

(* A client that is gone stays away, and every step from then on, of the    *)
(* handler, either body, its goroutines, the sshd or the kubelet, brings    *)
(* the forward closer to its end: it takes at most Work more of them,       *)
(* however much the service still writes.                                   *)
WindsDown == ~clientOpen => ~clientOpen' /\ Work \in Nat /\ Work' < Work

(* Every step of a forward whose client is gone makes Work smaller: with    *)
(* ForwardNeverStuck, such a forward ends as soon as its goroutines run.    *)
THEOREM ForwardWindsDown == Spec => [][WindsDown]_vars
<1>1. IInv /\ IInv' /\ Holding /\ [Next]_vars => [WindsDown]_vars
  <2> SUFFICES ASSUME IInv, IInv', Holding, Next, ~clientOpen PROVE ~clientOpen' /\ Work \in Nat /\ Work' < Work
    BY DEF WindsDown
  <2>a. Measured /\ Measured'
    BY Ranked, RankedNext DEF IInv
  <2>1. Falls
    BY <2>a, AroundFalls, SSHFalls, KubeFalls DEF Next
  <2>2. Body \in Nat /\ Data \in Nat /\ Control \in Nat /\ Verdict \in Nat
    BY <2>a DEF Measured
  <2>3. Body' \in Nat /\ Data' \in Nat /\ Control' \in Nat /\ Verdict' \in Nat
    BY <2>a DEF Measured
  <2>4. Work = Body + Data + Control + Verdict /\ Work' = Body' + Data' + Control' + Verdict'
    BY DEF Work
  <2>5. Work \in Nat
    BY <2>2, <2>4, SumTyped, Zenon
  <2>6. Work' < Work
    BY <2>1, <2>2, <2>3, <2>4, SmallerSum, Zenon DEF Falls
  <2>7. ~clientOpen'
    <3> USE DEF handlerVars, clientVars, progress, streamVars, baseVars
    <3>1. CASE Around
      BY <3>1 DEF Around, ClientStep, HandlerStep, ClientSends, ClientEOF, ClientLeaves, Reject, Accept,
         RequestsEnd, Finish, Acquire, HandlerFrame
    <3>2. CASE ForwardSSH
      BY <3>2 DEF ForwardSSH, SSHStep, DialStep, CopierEnds, LoopStep, Dial, Handshake, DialTimeout,
         DialCloserFires, DialCloserRuns, DeadlinePasses, CheckDial, CheckCtx, CloserRuns, OpenChannel,
         SetupFrame, CopyInput, InputEnds, OutputEnds, OutputCloses, OutputReports, InputFrame, OutputFrame,
         CopyFrame, Completes, RemoteClosed, LoopCancelled, DrainExpires, LoopEnds, LoopFrame, SshdFlushes,
         SshdCloses, Breaks, SshdFrame, CloserFires, CopyOutput, ServiceWrites, ServiceEnds, ServiceFrame
    <3>3. CASE Forward
      BY <3>3 DEF Forward, KubeStep, ReaderStep, Select, Negotiate, CreateErrorStream, CreateDataStream,
         KubeCloserRuns, ReadErrors, DataInputEnds, DataOutputEnds, CopyData, SelectDone, SelectLocal,
         SelectRemote, SelectErrors, AfterRemote, AfterError, KubeletEnds, KubeBreaks, CloserFires, CopyOutput,
         ServiceWrites, ServiceEnds, ServiceFrame, BodyFrame, GoFrame, SelectFrame
    <3> QED BY <3>1, <3>2, <3>3 DEF Next
  <2> QED BY <2>5, <2>6, <2>7
<1> QED BY <1>1, ForwardInvariant, ForwardHolds, PTL DEF Spec, Safety

=============================================================================
