--------------------------- MODULE LeaseRefinement ---------------------------
(***************************************************************************)
(* The leases implement WorkspaceService (safety), and what a shutdown may *)
(* no longer do.                                                           *)
(***************************************************************************)
EXTENDS LeaseProofs

Cleaning == {"setupCleanup", "lastCleanup"}

(* The handlers of a pod determine its phase, in any order of looking.      *)
PhasesAgree == \A k \in Key :
    /\ HandlersAt(k, {"ensure"}) # {} => PhaseOf(k) = "starting"
    /\ HandlersAt(k, Cleaning) # {} => PhaseOf(k) = "stopping"
    /\ SessionsOf(k) # {} => PhaseOf(k) = "up"
    /\ (HandlersAt(k, {"ensure"}) = {} /\ HandlersAt(k, Cleaning) = {} /\ SessionsOf(k) = {})
          => PhaseOf(k) = "down"

(* The abstract phase of a pod, read off the places of its handlers.        *)
LEMMA PhaseOfPod == IInv => PhasesAgree
<1>. SUFFICES ASSUME IInv, NEW k \in Key
              PROVE  /\ HandlersAt(k, {"ensure"}) = {} \/ HandlersAt(k, Cleaning) = {}
                     /\ SessionsOf(k) # {} => /\ HandlersAt(k, {"ensure"}) = {}
                                              /\ HandlersAt(k, Cleaning) = {}
    BY DEF PhasesAgree, PhaseOf, Cleaning
<1>1. HandlersAt(k, {"ensure"}) = {} \/ HandlersAt(k, Cleaning) = {}
    BY DEF IInv, GateInv, SerializedCalls, HandlersAt, Cleaning, Gated
<1>2. SessionsOf(k) # {} => HandlersAt(k, {"ensure"}) = {} /\ HandlersAt(k, Cleaning) = {}
    BY DEF IInv, CallInv, SessionsOf, HandlersAt, Cleaning, Gated, Counted
<1>. QED BY <1>1, <1>2

(* The same after a step.                                                   *)
LEMMA PhaseOfPodNext == IInv' => PhasesAgree'
<1>. QED BY PhaseOfPod, PTL

(* A step of h shows only in the pod of h, and there only when h starts or  *)
(* stops being a session, setting up or cleaning up.                        *)
LEMMA Unseen ==
    ASSUME NEW h \in Handler, NEW j,
           \A g \in Handler \ {h} : pc'[g] = pc[g] /\ key'[g] = key[g],
           \/ key[h] # j /\ key'[h] # j
           \/ /\ key'[h] = key[h]
              /\ {pc[h], pc'[h]} \subseteq Counted
           \/ {pc[h], pc'[h]} \cap (Counted \cup Cleaning \cup {"ensure"}) = {}
    PROVE  PhaseOf(j)' = PhaseOf(j) /\ SessionsOf(j)' = SessionsOf(j)
<1>1. HandlersAt(j, {"ensure"})' = HandlersAt(j, {"ensure"})
    BY DEF HandlersAt, Counted
<1>2. HandlersAt(j, {"setupCleanup", "lastCleanup"})' = HandlersAt(j, {"setupCleanup", "lastCleanup"})
    BY DEF HandlersAt, Cleaning, Counted
<1>3. HandlersAt(j, Counted)' = HandlersAt(j, Counted)
    BY DEF HandlersAt, Counted
<1>. QED BY <1>1, <1>2, <1>3 DEF PhaseOf, SessionsOf

(* What the step does to the pod of h is what it does to the whole view.    *)
LEMMA OnlyPod ==
    ASSUME NEW h \in Handler, key[h] \in Key, key' = key,
           \A g \in Handler \ {h} : pc'[g] = pc[g]
    PROVE  /\ [k \in Key |-> PhaseOf(k)]' =
                 [[k \in Key |-> PhaseOf(k)] EXCEPT ![key[h]] = PhaseOf(key[h])']
           /\ [k \in Key |-> SessionsOf(k)]' =
                 [[k \in Key |-> SessionsOf(k)] EXCEPT ![key[h]] = SessionsOf(key[h])']
<1>1. \A j \in Key \ {key[h]} : PhaseOf(j)' = PhaseOf(j) /\ SessionsOf(j)' = SessionsOf(j)
    BY Unseen
<1>. QED BY <1>1

(* Every step of a handler is a step of the service or invisible.           *)
LEMMA StepRefines ==
    ASSUME IInv, IInv', NEW h \in Handler, HandlerStep(h)
    PROVE  Service!ServiceNext \/ UNCHANGED Service!svars
<1>. DEFINE k == key[h]
            Moves == key' = key /\ \A g \in Handler \ {h} : pc'[g] = pc[g]
<1>. USE DEF Goto
<1>a. pc[h] # "idle" => k \in Key
    BY DEF IInv, SlotInv
<1>c. PhasesAgree /\ PhasesAgree'
    BY PhaseOfPod, PhaseOfPodNext
<1>b. ASSUME \A g \in Handler \ {h} : pc'[g] = pc[g] /\ key'[g] = key[g],
             \/ key' = key /\ {pc[h], pc'[h]} \subseteq Counted
             \/ {pc[h], pc'[h]} \cap (Counted \cup Cleaning \cup {"ensure"}) = {}
      PROVE  UNCHANGED Service!svars
  <2>1. \A j \in Key : PhaseOf(j)' = PhaseOf(j) /\ SessionsOf(j)' = SessionsOf(j)
    BY <1>b, Unseen
  <2>. QED BY <2>1 DEF Service!svars
<1>1. ASSUME NEW j \in Key, Lookup(h, j) PROVE UNCHANGED Service!svars
    BY <1>1, <1>b DEF Lookup, IInv, TypeOK, Counted, Cleaning
<1>2. CASE TakeGate(h) \/ GiveUp(h) \/ Refuse(h) \/ Drop(h)
    BY <1>2, <1>b DEF TakeGate, GiveUp, Refuse, Drop, IInv, TypeOK, Counted, Cleaning
<1>3. CASE CallRelease(h)
  <2>1. pc[h] = "held"
    BY <1>3 DEF CallRelease, IInv, SlotInv
  <2>. QED BY <1>3, <1>b, <2>1 DEF CallRelease, IInv, TypeOK, Counted
<1>4. CASE Exit(h)
    BY <1>4, <1>b DEF Exit, IInv, TypeOK, Counted, Cleaning
<1>5. CASE Cancel(h)
    BY <1>5 DEF Cancel, Service!svars, PhaseOf, SessionsOf, HandlersAt
<1>6. CASE Provision(h)
  <2>1. Moves /\ k \in Key /\ pc[h] = "gated" /\ pc'[h] = "ensure"
    BY <1>6, <1>a DEF Provision, IInv, TypeOK
  <2>2. SessionsOf(k) = {} /\ SessionsOf(k)' = {}
    <3>1. \A g \in Handler : key[g] = k => pc[g] \notin Counted
      BY <1>6, CountsTell DEF Provision, Using, Gated
    <3>. QED BY <2>1, <3>1 DEF SessionsOf, HandlersAt, Counted
  <2>3. HandlersAt(k, {"ensure"}) = {} /\ HandlersAt(k, Cleaning) = {}
    BY <2>1 DEF IInv, GateInv, SerializedCalls, HandlersAt, Cleaning, Gated
  <2>4. h \in HandlersAt(k, {"ensure"})'
    BY <2>1 DEF HandlersAt
  <2>5. PhaseOf(k) = "down" /\ PhaseOf(k)' = "starting"
    BY <2>1, <2>2, <2>3, <2>4, <1>c DEF PhasesAgree
  <2>6. Service!Start(k)
    BY <2>1, <2>2, <2>5, OnlyPod DEF Service!Start
  <2>. QED BY <2>1, <2>6 DEF Service!ServiceNext
<1>7. CASE EnsureOk(h)
  <2>1. Moves /\ k \in Key /\ pc[h] = "ensure" /\ pc'[h] = "held"
    BY <1>7, <1>a DEF EnsureOk, Grant, IInv, TypeOK
  <2>2. SessionsOf(k)' = {h}
    BY <2>1 DEF IInv, CallInv, SessionsOf, HandlersAt, Counted, Gated
  <2>3. h \in HandlersAt(k, {"ensure"})
    BY <2>1 DEF HandlersAt
  <2>4. PhaseOf(k) = "starting" /\ PhaseOf(k)' = "up"
    BY <2>1, <2>2, <2>3, <1>c DEF PhasesAgree
  <2>5. Service!Started(k, h)
    BY <2>1, <2>2, <2>4, OnlyPod DEF Service!Started
  <2>. QED BY <2>1, <2>5 DEF Service!ServiceNext
<1>8. CASE EnsureFail(h)
  <2>1. Moves /\ k \in Key /\ pc[h] = "ensure" /\ pc'[h] = "setupCleanup"
    BY <1>8, <1>a DEF EnsureFail, IInv, TypeOK
  <2>2. SessionsOf(k)' = SessionsOf(k)
    BY <2>1 DEF SessionsOf, HandlersAt, Counted
  <2>3. h \in HandlersAt(k, {"ensure"}) /\ h \in HandlersAt(k, Cleaning)'
    BY <2>1 DEF HandlersAt, Cleaning
  <2>4. PhaseOf(k) = "starting" /\ PhaseOf(k)' = "stopping"
    BY <2>1, <2>3, <1>c DEF PhasesAgree
  <2>5. Service!StartFailed(k)
    BY <2>1, <2>2, <2>4, OnlyPod DEF Service!StartFailed
  <2>. QED BY <2>1, <2>5 DEF Service!ServiceNext
<1>9. CASE Join(h)
  <2>1. Moves /\ k \in Key /\ pc[h] = "gated" /\ pc'[h] = "held"
    BY <1>9, <1>a DEF Join, Grant, IInv, TypeOK
  <2>2. SessionsOf(k) # {} /\ h \notin SessionsOf(k) /\ SessionsOf(k)' = SessionsOf(k) \cup {h}
    <3>1. ~\A g \in Handler : key[g] = k => pc[g] \notin Counted
      BY <1>9, CountsTell DEF Join, Using, Gated
    <3>. QED BY <2>1, <3>1 DEF SessionsOf, HandlersAt, Counted
  <2>3. PhaseOf(k) = "up" /\ PhaseOf(k)' = "up"
    BY <2>1, <2>2, <1>c DEF PhasesAgree
  <2>4. Service!Enter(k, h)
    BY <2>1, <2>2, <2>3, OnlyPod DEF Service!Enter
  <2>. QED BY <2>1, <2>4 DEF Service!ServiceNext
<1>10. CASE ReleaseGate(h)
  <2>1. Moves /\ k \in Key /\ pc[h] = "releasing"
    BY <1>10, <1>a DEF ReleaseGate, IInv, TypeOK
  <2>2. active[ref[h]] = 1 <=> SessionsOf(k) = {h}
    <3>1. active[ref[h]] = 1 <=>
             \A g \in Handler : (key[g] = k /\ pc[g] \in Counted) => g = h
      BY <2>1, CountsTell DEF Counted, Using
    <3>. QED BY <2>1, <3>1 DEF SessionsOf, HandlersAt, Counted
  <2>3. pc'[h] = IF active[ref[h]] = 1 THEN "lastCleanup" ELSE "drop"
    BY <1>10 DEF ReleaseGate, IInv, TypeOK
  <2>4. h \in SessionsOf(k) /\ SessionsOf(k)' = SessionsOf(k) \ {h}
    BY <2>1, <2>3 DEF SessionsOf, HandlersAt, Counted
  <2>5. PhaseOf(k)' = IF SessionsOf(k) = {h} THEN "stopping" ELSE "up"
    <3>1. CASE SessionsOf(k) = {h}
      <4>1. h \in HandlersAt(k, Cleaning)'
        BY <2>1, <2>2, <2>3, <3>1 DEF HandlersAt, Cleaning
      <4>. QED BY <2>1, <3>1, <4>1, <1>c DEF PhasesAgree
    <3>2. CASE SessionsOf(k) # {h}
      <4>1. SessionsOf(k)' # {}
        BY <2>4, <3>2
      <4>. QED BY <2>1, <3>2, <4>1, <1>c DEF PhasesAgree
    <3>. QED BY <3>1, <3>2
  <2>6. PhaseOf(k) = "up"
    BY <2>1, <2>4, <1>c DEF PhasesAgree
  <2>7. Service!Leave(k, h)
    BY <2>1, <2>4, <2>5, <2>6, OnlyPod DEF Service!Leave
  <2>. QED BY <2>1, <2>7 DEF Service!ServiceNext
<1>11. ASSUME NEW ok \in BOOLEAN, CleanupDone(h, ok)
       PROVE  Service!ServiceNext
  <2>1. Moves /\ k \in Key /\ pc[h] \in Cleaning /\ pc'[h] = "drop"
    BY <1>11, <1>a DEF CleanupDone, IInv, TypeOK, Cleaning
  <2>2. SessionsOf(k) = {} /\ SessionsOf(k)' = {}
    BY <2>1 DEF IInv, CallInv, SessionsOf, HandlersAt, Counted, Gated, Cleaning
  <2>3. HandlersAt(k, {"ensure"})' = {} /\ HandlersAt(k, Cleaning)' = {}
    BY <2>1 DEF IInv, GateInv, SerializedCalls, HandlersAt, Cleaning, Gated
  <2>4. h \in HandlersAt(k, Cleaning)
    BY <2>1 DEF HandlersAt
  <2>5. PhaseOf(k) = "stopping" /\ PhaseOf(k)' = "down"
    BY <2>1, <2>2, <2>3, <2>4, <1>c DEF PhasesAgree
  <2>6. Service!Stopped(k)
    BY <2>1, <2>2, <2>5, OnlyPod DEF Service!Stopped
  <2>. QED BY <2>1, <2>6 DEF Service!ServiceNext
<1>. QED
    BY <1>1, <1>2, <1>3, <1>4, <1>5, <1>6, <1>7, <1>8, <1>9, <1>10, <1>11 DEF HandlerStep

(* The leases implement the safety part of WorkspaceService: setup for the  *)
(* first session, teardown after the last or after a failed setup, and      *)
(* neither ever concurrent with the other or with a session.                *)
THEOREM LeaseImplementsService == Safety => ImplementsServiceSafety
<1>1. Init => Service!ServiceInit
    BY DEF Init, Service!ServiceInit, PhaseOf, SessionsOf, HandlersAt, Counted
<1>2. IInv /\ IInv' /\ [Next]_vars => [Service!ServiceNext]_(Service!svars)
  <2>. SUFFICES ASSUME IInv, IInv', [Next]_vars
                PROVE  Service!ServiceNext \/ UNCHANGED Service!svars
    OBVIOUS
  <2>1. CASE Shutdown \/ UNCHANGED vars
    BY <2>1 DEF Shutdown, vars, handlerVars, Service!svars, PhaseOf, SessionsOf, HandlersAt
  <2>2. CASE \E h \in Handler : HandlerStep(h)
    BY <2>2, StepRefines
  <2>. QED BY <2>1, <2>2 DEF Next
<1>. QED BY <1>1, <1>2, LeaseInvariant, PTL
     DEF Safety, ImplementsServiceSafety, Service!ServiceSafety

(* Once Serve's context is done every handler's context is, so no handler   *)
(* gets past the check that follows the gate: a pod that is down stays down.*)
THEOREM LeaseShutdownStartsNothing == Safety => ShutdownStartsNothing
<1>. DEFINE StaysDown == shutdown => \A k \in Key : PhaseOf(k) = "down" => PhaseOf(k)' = "down"
<1>1. IInv /\ IInv' /\ [Next]_vars => [StaysDown]_vars
  <2>. SUFFICES ASSUME IInv, IInv', Next, shutdown, NEW k \in Key, PhaseOf(k) = "down"
                PROVE  PhaseOf(k)' = "down"
    OBVIOUS
  <2>1. CASE Shutdown
    BY <2>1 DEF Shutdown
  <2>2. ASSUME NEW h \in Handler, HandlerStep(h)
        PROVE  PhaseOf(k)' = "down"
    <3>1. ~Provision(h)
      BY DEF Provision, IInv, CancelInv
    <3>2. ~(pc[h] # "ensure" /\ pc'[h] = "ensure")
      BY <2>2, <3>1 DEF HandlerStep, Lookup, TakeGate, GiveUp, Refuse, Join, EnsureOk,
         Grant, EnsureFail, CleanupDone, Drop, CallRelease, ReleaseGate, Exit, Cancel,
         Goto, IInv, TypeOK
    <3>3. pc[h] = "ensure" => key' = key
      BY <2>2 DEF HandlerStep, Lookup, TakeGate, GiveUp, Refuse, Join, Provision, EnsureOk,
         Grant, EnsureFail, CleanupDone, Drop, CallRelease, ReleaseGate, Exit, Cancel
    <3>4. \A g \in Handler \ {h} : pc'[g] = pc[g] /\ key'[g] = key[g]
      BY <2>2 DEF HandlerStep, Lookup, TakeGate, GiveUp, Refuse, Join, Provision, EnsureOk,
         Grant, EnsureFail, CleanupDone, Drop, CallRelease, ReleaseGate, Exit, Cancel,
         Goto, IInv, TypeOK
    <3>5. HandlersAt(k, {"ensure"}) = {}
      BY PhaseOfPod DEF PhasesAgree
    <3>6. HandlersAt(k, {"ensure"})' = {}
      BY <3>2, <3>3, <3>4, <3>5 DEF HandlersAt
    <3>7. PhaseOf(k)' # "starting"
      BY <3>6 DEF PhaseOf
    <3>8. PhaseOf(k)' \in {"down", "starting"}
      BY <2>2, StepRefines DEF Service!ServiceNext, Service!svars, Service!Start,
         Service!Started, Service!StartFailed, Service!Enter, Service!Leave, Service!Stopped
    <3>. QED BY <3>7, <3>8
  <2>. QED BY <2>1, <2>2 DEF Next
<1>. QED BY <1>1, LeaseInvariant, PTL DEF Safety, ShutdownStartsNothing

=============================================================================
