---------------------------- MODULE ServerProofs ----------------------------
(***************************************************************************)
(* Proofs about Server for any number of connections and channels.         *)
(***************************************************************************)
EXTENDS Server, TLAPS

(* Every channel is in the queue, handled or over.                          *)
Counted == \A c \in Conn : queue[c] + handlers[c] <= opened[c]

(* Handlers run only between the handshake and the end of handleConn, which *)
(* leaves no transport open; and none of it is there when Serve returns.    *)
Quiet == /\ \A c \in Conn :
               /\ conn[c] \in {"none", "handshake", "greeted", "done"} => handlers[c] = 0
               /\ conn[c] \in {"none", "done"} => ~sock[c]
         /\ serve = "returned" => \A c \in Conn : conn[c] \in {"none", "done"}

IInv == TypeOK /\ Counted /\ Quiet

USE ServerAssumption

(* The invariant holds at first.                                            *)
LEMMA IInvInit == Init => IInv
<1> SUFFICES ASSUME Init PROVE IInv
  OBVIOUS
<1>1. /\ opened \in [Conn -> 0..MaxChannels] /\ queue \in [Conn -> 0..MaxChannels]
      /\ handlers \in [Conn -> 0..MaxChannels]
      /\ \A c \in Conn : opened[c] = 0 /\ queue[c] = 0 /\ handlers[c] = 0
  BY DEF Init
<1>2. Counted
  <2>1. 0 + 0 <= 0
    OBVIOUS
  <2> QED BY <1>1, <2>1, Zenon DEF Counted
<1>3. TypeOK
  BY <1>1 DEF Init, TypeOK
<1>4. Quiet
  BY <1>1 DEF Init, Quiet
<1> QED BY <1>2, <1>3, <1>4 DEF IInv

(* Every step keeps it.                                                     *)
LEMMA IInvNext == IInv /\ [Next]_vars => IInv'
<1> SUFFICES ASSUME IInv, [Next]_vars PROVE IInv'
  OBVIOUS
<1> USE DEF IInv, serverVars, channelVars
<1>1. CASE Shutdown
  BY <1>1 DEF Shutdown, TypeOK, Counted, Quiet
<1>2. CASE CloseListener
  BY <1>2 DEF CloseListener, TypeOK, Counted, Quiet
<1>3. CASE AcceptFails
  BY <1>3 DEF AcceptFails, TypeOK, Counted, Quiet
<1>4. CASE ServeReturns
  BY <1>4 DEF ServeReturns, Active, TypeOK, Counted, Quiet
<1>5. ASSUME NEW c \in Conn, Accept(c) PROVE IInv'
  BY <1>5 DEF Accept, TypeOK, Counted, Quiet
<1>6. ASSUME NEW c \in Conn, HandshakeFails(c) PROVE IInv'
  BY <1>6 DEF HandshakeFails, Leaves, TypeOK, Counted, Quiet
<1>7. ASSUME NEW c \in Conn, HandshakeSucceeds(c) PROVE IInv'
  BY <1>7 DEF HandshakeSucceeds, TypeOK, Counted, Quiet
<1>8. ASSUME NEW c \in Conn, ClearDeadline(c) PROVE IInv'
  BY <1>8 DEF ClearDeadline, TypeOK, Counted, Quiet
<1>9. ASSUME NEW c \in Conn, NEW known \in BOOLEAN, NewChannel(c, known) PROVE IInv'
  BY <1>9 DEF NewChannel, TypeOK, Counted, Quiet
<1>10. ASSUME NEW c \in Conn, ChannelsEnd(c) PROVE IInv'
  BY <1>10 DEF ChannelsEnd, TypeOK, Counted, Quiet
<1>11. ASSUME NEW c \in Conn, ConnReturns(c) PROVE IInv'
  BY <1>11 DEF ConnReturns, Leaves, TypeOK, Counted, Quiet
<1>12. ASSUME NEW c \in Conn, HandlerReturns(c) PROVE IInv'
  BY <1>12 DEF HandlerReturns, TypeOK, Counted, Quiet
<1>13. ASSUME NEW c \in Conn, Drops(c) PROVE IInv'
  BY <1>13 DEF Drops, TypeOK, Counted, Quiet
<1>14. ASSUME NEW c \in Conn, WaitCancels(c) PROVE IInv'
  BY <1>14 DEF WaitCancels, TypeOK, Counted, Quiet
<1>15. ASSUME NEW c \in Conn, ClientOpens(c) PROVE IInv'
  BY <1>15 DEF ClientOpens, TypeOK, Counted, Quiet
<1>16. CASE UNCHANGED vars
  BY <1>16 DEF vars, TypeOK, Counted, Quiet
<1> QED BY <1>1, <1>2, <1>3, <1>4, <1>5, <1>6, <1>7, <1>8, <1>9, <1>10, <1>11, <1>12, <1>13, <1>14, <1>15,
   <1>16 DEF Next, ServeStep, Step, ConnStep, DeadlinePasses, ContextCloses

(* IInv is inductive, and so always holds.                                  *)
THEOREM ServerInvariant == Spec => []IInv
BY IInvInit, IInvNext, PTL DEF Spec

(* The state of the server keeps its types, whatever connections come.      *)
THEOREM ServerTypes == Spec => []TypeOK
BY ServerInvariant, PTL DEF IInv

(* "The proxy waits for connection cleanup on shutdown": when Serve has     *)
(* returned, no handler runs and no transport is open.                      *)
THEOREM ServerReturnsLast == Spec => []ServeReturnsLast
<1>1. IInv => ServeReturnsLast
  BY DEF IInv, Quiet, ServeReturnsLast
<1> QED BY <1>1, ServerInvariant, PTL

-----------------------------------------------------------------------------
(* Why connections end, and Serve after them.                               *)

(* A handshake has its deadline until it is over; a connection that waits   *)
(* for its handlers has lost its transport and has cancelled them.          *)
Bounded == \A c \in Conn :
    /\ conn[c] \in {"handshake", "greeted"} => deadline[c]
    /\ conn[c] = "waiting" => ~sock[c] /\ cancelled[c]

LEMMA BoundedNext == IInv /\ Bounded /\ [Next]_vars => Bounded'
<1> SUFFICES ASSUME IInv, Bounded, [Next]_vars PROVE Bounded'
  OBVIOUS
<1> USE DEF IInv, TypeOK, Bounded, serverVars, channelVars
<1>1. CASE Shutdown \/ CloseListener \/ AcceptFails \/ ServeReturns \/ UNCHANGED vars
  BY <1>1 DEF Shutdown, CloseListener, AcceptFails, ServeReturns, vars
<1>2. ASSUME NEW c \in Conn, Accept(c) \/ HandshakeFails(c) \/ HandshakeSucceeds(c) \/ ClearDeadline(c)
      PROVE  Bounded'
  BY <1>2 DEF Accept, HandshakeFails, HandshakeSucceeds, ClearDeadline, Leaves
<1>3. ASSUME NEW c \in Conn, ChannelsEnd(c) \/ ConnReturns(c) \/ HandlerReturns(c) \/ Drops(c)
                               \/ WaitCancels(c) \/ ClientOpens(c)
      PROVE  Bounded'
  BY <1>3 DEF ChannelsEnd, ConnReturns, HandlerReturns, Drops, WaitCancels, ClientOpens, Leaves
<1>4. ASSUME NEW c \in Conn, NEW known \in BOOLEAN, NewChannel(c, known) PROVE Bounded'
  BY <1>4 DEF NewChannel
<1> QED BY <1>1, <1>2, <1>3, <1>4 DEF Next, ServeStep, Step, ConnStep, DeadlinePasses, ContextCloses

(* The guards of the actions that Fairness names, for a connection and for  *)
(* Serve.                                                                   *)
ConnMoves(c) ==
    \/ conn[c] = "greeted"
    \/ conn[c] = "handshake" /\ ~sock[c]
    \/ conn[c] = "serving" /\ (queue[c] > 0 \/ ~sock[c])
    \/ conn[c] = "waiting" /\ handlers[c] = 0
    \/ Done(c) /\ ~sock[c] /\ handlers[c] > 0
    \/ sock[c] /\ (Done(c) \/ deadline[c])
ServeMoves == \/ shutdown /\ listener
              \/ serve = "accept" /\ shutdown /\ ~listener
              \/ serve = "wait" /\ \A c \in Conn : ~Active(c)

(* No unauthenticated connection, none whose transport is gone and none     *)
(* that is told to end is ever stuck; and after the signal Serve moves on   *)
(* or waits for a connection that does.                                     *)
ServerNotStuck ==
    /\ \A c \in Conn : Active(c) /\ (conn[c] = "handshake" \/ ~sock[c] \/ Done(c)) => ConnMoves(c)
    /\ shutdown /\ serve # "returned" => ServeMoves \/ \E c \in Conn : Active(c) /\ ConnMoves(c)

(* No connection that has to end, and no Serve after the signal, is without *)
(* a step.                                                                  *)
THEOREM ServerNeverStuck == Spec => []ServerNotStuck
<1>1. Init => Bounded
  BY DEF Init, Bounded
<1>2. IInv /\ Bounded => ServerNotStuck
  <2> SUFFICES ASSUME IInv, Bounded PROVE ServerNotStuck
    OBVIOUS
  <2>1. ASSUME NEW c \in Conn, Active(c), conn[c] = "handshake" \/ ~sock[c] \/ Done(c)
        PROVE  ConnMoves(c)
    <3>1. /\ conn[c] \in {"handshake", "greeted", "serving", "waiting"}
          /\ queue[c] \in Nat /\ handlers[c] \in Nat
      BY <2>1 DEF IInv, TypeOK, Active
    <3>2. CASE conn[c] = "handshake"
      BY <3>2 DEF Bounded, ConnMoves
    <3>3. CASE conn[c] \in {"greeted", "serving"}
      BY <2>1, <3>1, <3>3 DEF ConnMoves
    <3>4. CASE conn[c] = "waiting"
      BY <3>1, <3>4 DEF Bounded, ConnMoves, Done
    <3> QED BY <3>1, <3>2, <3>3, <3>4
  <2>2. ASSUME shutdown, serve # "returned", ~ServeMoves
        PROVE  \E c \in Conn : Active(c) /\ ConnMoves(c)
    <3>1. serve = "wait"
      BY <2>2 DEF IInv, TypeOK, ServeMoves
    <3>2. PICK c \in Conn : Active(c)
      BY <2>2, <3>1 DEF ServeMoves
    <3> QED BY <2>1, <2>2, <3>2 DEF Done
  <2> QED BY <2>1, <2>2 DEF ServerNotStuck
<1> QED BY <1>1, <1>2, ServerInvariant, BoundedNext, PTL DEF Spec

(* Once its transport is gone, each step of a connection or of one of its   *)
(* handlers brings it closer to its end: no channel is opened, none is      *)
(* handled twice, and the connection is not accepted again.                 *)
ConnRank == [none |-> 0, handshake |-> 5, greeted |-> 4, serving |-> 3, waiting |-> 2, done |-> 0]
Left(c) == 2 * queue[c] + handlers[c] + ConnRank[conn[c]] + (IF cancelled[c] THEN 0 ELSE 1)
Untouched(c) == /\ queue'[c] = queue[c] /\ handlers'[c] = handlers[c] /\ conn'[c] = conn[c]
                /\ cancelled'[c] = cancelled[c] /\ sock'[c] = sock[c]
Closing == \A c \in Conn :
    /\ Active(c) /\ ~sock[c] => Untouched(c) \/ (~sock'[c] /\ Left(c) \in Nat /\ Left(c)' < Left(c))
    /\ conn[c] = "done" => Untouched(c)

(* Every step of a connection without a transport makes what is left of it  *)
(* smaller, whatever the other connections do.                              *)
THEOREM ServerClosesDown == Spec => [][Closing]_vars
<1>1. IInv /\ IInv' /\ [Next]_vars => [Closing]_vars
  <2> SUFFICES ASSUME IInv, IInv', Next, NEW c \in Conn
               PROVE  /\ Active(c) /\ ~sock[c] =>
                            Untouched(c) \/ (~sock'[c] /\ Left(c) \in Nat /\ Left(c)' < Left(c))
                      /\ conn[c] = "done" => Untouched(c)
    BY DEF Closing
  <2> USE DEF serverVars, channelVars
  <2>a. /\ conn \in [Conn -> {"none", "handshake", "greeted", "serving", "waiting", "done"}]
        /\ sock \in [Conn -> BOOLEAN] /\ cancelled \in [Conn -> BOOLEAN]
        /\ queue \in [Conn -> 0..MaxChannels] /\ handlers \in [Conn -> 0..MaxChannels]
    BY DEF IInv, TypeOK
  <2>b. queue'[c] \in Nat /\ handlers'[c] \in Nat
    BY DEF IInv, TypeOK
  <2>c. queue[c] \in Nat /\ handlers[c] \in Nat
    BY <2>a
  <2>d. conn[c] = "done" => handlers[c] = 0 /\ ~sock[c]
    BY DEF IInv, Quiet
  <2>e. Left(c) \in Nat
    BY <2>a, <2>c DEF Left, ConnRank
  <2>1. CASE ServeStep \/ AcceptFails \/ Shutdown
    BY <2>1 DEF ServeStep, Shutdown, CloseListener, AcceptFails, ServeReturns, Untouched
  <2>2. ASSUME NEW e \in Conn, Step(e), e # c PROVE Untouched(c)
    BY <2>2, <2>a DEF Step, ConnStep, Accept, HandshakeFails, HandshakeSucceeds, ClearDeadline, NewChannel,
       ChannelsEnd, ConnReturns, HandlerReturns, Drops, DeadlinePasses, ContextCloses, WaitCancels,
       ClientOpens, Leaves, Untouched
  <2>3. ASSUME Step(c), conn[c] = "done" PROVE Untouched(c)
    BY <2>3, <2>d DEF Step, ConnStep, Accept, HandshakeFails, HandshakeSucceeds, ClearDeadline, NewChannel,
       ChannelsEnd, ConnReturns, HandlerReturns, Drops, DeadlinePasses, ContextCloses, WaitCancels,
       ClientOpens, Leaves, Untouched
  <2>4. ASSUME Step(c), Active(c), ~sock[c] PROVE ~sock'[c] /\ Left(c)' < Left(c)
    <3>1. CASE HandshakeFails(c) \/ ConnReturns(c)
      BY <2>a, <2>c, <3>1 DEF HandshakeFails, ConnReturns, Leaves, Left, ConnRank
    <3>2. CASE ClearDeadline(c) \/ ChannelsEnd(c)
      BY <2>4, <2>a, <2>c, <3>2 DEF ClearDeadline, ChannelsEnd, Left, ConnRank
    <3>3. CASE HandlerReturns(c)
      BY <2>4, <2>a, <2>c, <3>3 DEF HandlerReturns, Left, ConnRank
    <3>4. CASE WaitCancels(c)
      BY <2>4, <2>a, <2>c, <3>4 DEF WaitCancels, Left, ConnRank
    <3>5. ASSUME NEW known \in BOOLEAN, NewChannel(c, known) PROVE ~sock'[c] /\ Left(c)' < Left(c)
      <4>1. queue'[c] = queue[c] - 1 /\ handlers'[c] <= handlers[c] + 1 /\ UNCHANGED <<conn, cancelled, sock>>
        BY <3>5, <2>a DEF NewChannel
      <4> QED BY <2>4, <2>a, <2>b, <2>c, <4>1 DEF Left, ConnRank
    <3> QED BY <2>4, <3>1, <3>2, <3>3, <3>4, <3>5 DEF Step, ConnStep, Accept, Active, HandshakeSucceeds,
       Drops, DeadlinePasses, ContextCloses, ClientOpens
  <2> QED BY <2>1, <2>2, <2>3, <2>4, <2>e DEF Next
<1> QED BY <1>1, ServerInvariant, PTL DEF Spec

=============================================================================
