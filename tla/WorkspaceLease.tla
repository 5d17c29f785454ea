--------------------------- MODULE WorkspaceLease ---------------------------
(***************************************************************************)
(* acquireWorkspace of internal/server/lifecycle.go: the per-workspace     *)
(* leases of one voidshell process.  Every channel handler (session, proxy *)
(* session or port forward) is a goroutine that acquires the lease of its  *)
(* pod, holds it for as long as it runs, and releases it.                  *)
(*                                                                         *)
(* One action is one critical section or one blocking call: a section      *)
(* under Server.mu, a receive from or a send to a lease's gate, a call of  *)
(* the lifecycle backend.  The backend is represented by what its last     *)
(* call for a pod returned (lastCall).                                     *)
(***************************************************************************)
EXTENDS Naturals, FiniteSets

CONSTANTS Handler,      \* channel handler goroutines; a slot is reused
          Key,          \* pod names, the keys of Server.workspaces
          Lease,        \* addresses of workspaceLease objects
          Nil           \* Go's nil

ASSUME HandlersFinite == IsFiniteSet(Handler)
ASSUME NilIsNoObject == Nil \notin Lease \cup Key

VARIABLES pc,           \* where each handler is in acquireWorkspace / release
          key,          \* the pod name each handler asked for
          ref,          \* the handler's l: its pointer to a lease
          once,         \* TRUE unless the handler owns an unused release func
          cancelled,    \* the handler's context is done
          workspaces,   \* Server.workspaces: pod name -> lease
          users,        \* workspaceLease.users, protected by Server.mu
          active,       \* workspaceLease.active, protected by gate
          gate,         \* TRUE while the gate channel holds its token
          lastCall,     \* result of the backend's last call for each pod
          shutdown      \* Serve's context is done

handlerVars == <<pc, key, ref, once, cancelled>>
leaseVars   == <<workspaces, users, active, gate>>
vars        == <<handlerVars, leaseVars, lastCall, shutdown>>

-----------------------------------------------------------------------------
(* The places a handler can be.                                             *)
Gated   == {"gated", "ensure", "setupCleanup", "lastCleanup"} \* took the token
Counted == {"held", "releasing"}                  \* included in lease.active
Using   == {"wait", "drop"} \cup Gated \cup Counted   \* included in lease.users
PCs     == {"idle", "exit"} \cup Using

Calls   == {"none", "ensured", "ensureFailed", "deleted", "deleteFailed"}

HandlersAt(k, places) == {h \in Handler : key[h] = k /\ pc[h] \in places}
RefsAt(l, places)     == {h \in Handler : ref[h] = l /\ pc[h] \in places}

TypeOK == /\ pc \in [Handler -> PCs]
          /\ key \in [Handler -> Key \cup {Nil}]
          /\ ref \in [Handler -> Lease \cup {Nil}]
          /\ once \in [Handler -> BOOLEAN]
          /\ cancelled \in [Handler -> BOOLEAN]
          /\ workspaces \in [Key -> Lease \cup {Nil}]
          /\ users \in [Lease -> Nat]
          /\ active \in [Lease -> Nat]
          /\ gate \in [Lease -> BOOLEAN]
          /\ lastCall \in [Key -> Calls]
          /\ shutdown \in BOOLEAN

Init == /\ pc = [h \in Handler |-> "idle"]
        /\ key = [h \in Handler |-> Nil]
        /\ ref = [h \in Handler |-> Nil]
        /\ once = [h \in Handler |-> TRUE]
        /\ cancelled = [h \in Handler |-> FALSE]
        /\ workspaces = [k \in Key |-> Nil]
        /\ users = [l \in Lease |-> 0]
        /\ active = [l \in Lease |-> 0]
        /\ gate = [l \in Lease |-> TRUE]
        /\ lastCall = [k \in Key |-> "none"]
        /\ shutdown = FALSE

Goto(h, place) == pc' = [pc EXCEPT ![h] = place]

-----------------------------------------------------------------------------
(* acquireWorkspace, first section under Server.mu: find or make the lease  *)
(* and count the caller.  A new lease is an address nobody points to.  A    *)
(* connection accepted while the server stops starts out cancelled.         *)
Lookup(h, k) ==
    /\ pc[h] = "idle"
    /\ \/ /\ workspaces[k] # Nil
          /\ ref' = [ref EXCEPT ![h] = workspaces[k]]
          /\ users' = [users EXCEPT ![workspaces[k]] = @ + 1]
          /\ UNCHANGED <<workspaces, active, gate>>
       \/ /\ workspaces[k] = Nil
          /\ \E l \in Lease :
                /\ \A g \in Handler : ref[g] # l
                /\ \A j \in Key : workspaces[j] # l
                /\ ref' = [ref EXCEPT ![h] = l]
                /\ workspaces' = [workspaces EXCEPT ![k] = l]
                /\ users' = [users EXCEPT ![l] = 1]
                /\ active' = [active EXCEPT ![l] = 0]
                /\ gate' = [gate EXCEPT ![l] = TRUE]
    /\ Goto(h, "wait")
    /\ key' = [key EXCEPT ![h] = k]
    /\ cancelled' = [cancelled EXCEPT ![h] = shutdown]
    /\ UNCHANGED <<once, lastCall, shutdown>>

(* The select on ctx.Done() and the gate: either ready case may be taken.   *)
TakeGate(h) ==
    /\ pc[h] = "wait"
    /\ gate[ref[h]]
    /\ gate' = [gate EXCEPT ![ref[h]] = FALSE]
    /\ Goto(h, "gated")
    /\ UNCHANGED <<key, ref, once, cancelled, workspaces, users, active,
                   lastCall, shutdown>>

GiveUp(h) ==
    /\ pc[h] = "wait"
    /\ cancelled[h]
    /\ Goto(h, "drop")
    /\ UNCHANGED <<key, ref, once, cancelled, leaseVars, lastCall, shutdown>>

ReturnGate(h) == gate' = [gate EXCEPT ![ref[h]] = TRUE]

(* Mutant of Refuse: the token is not given back.                           *)
RefuseKeepsToken(h) ==
    /\ pc[h] = "gated"
    /\ cancelled[h]
    /\ Goto(h, "drop")
    /\ UNCHANGED <<key, ref, once, cancelled, leaseVars, lastCall, shutdown>>

(* ctx.Err() after the gate: give the token back and drop.                  *)
Refuse(h) ==
    /\ pc[h] = "gated"
    /\ cancelled[h]
    /\ ReturnGate(h)
    /\ Goto(h, "drop")
    /\ UNCHANGED <<key, ref, once, cancelled, workspaces, users, active,
                   lastCall, shutdown>>

(* Mutant of Grant: the token is not given back.                            *)
GrantKeepsToken(h) ==
    /\ active' = [active EXCEPT ![ref[h]] = @ + 1]
    /\ once' = [once EXCEPT ![h] = FALSE]
    /\ Goto(h, "held")
    /\ UNCHANGED <<key, ref, cancelled, workspaces, users, gate, shutdown>>

(* active++ and the token back; the caller now owns a release function.     *)
Grant(h) ==
    /\ active' = [active EXCEPT ![ref[h]] = @ + 1]
    /\ ReturnGate(h)
    /\ once' = [once EXCEPT ![h] = FALSE]
    /\ Goto(h, "held")
    /\ UNCHANGED <<key, ref, cancelled, workspaces, users, shutdown>>

(* Another session already runs in the pod: join it.                        *)
Join(h) ==
    /\ pc[h] = "gated"
    /\ ~cancelled[h]
    /\ active[ref[h]] # 0
    /\ Grant(h)
    /\ UNCHANGED lastCall

(* Mutants of Provision: the token is returned before the call, active is   *)
(* not looked at, the context is not looked at.                             *)
ProvisionWithoutToken(h) ==
    /\ pc[h] = "gated" /\ ~cancelled[h] /\ active[ref[h]] = 0
    /\ ReturnGate(h)
    /\ Goto(h, "ensure")
    /\ UNCHANGED <<key, ref, once, cancelled, workspaces, users, active,
                   lastCall, shutdown>>

ProvisionAlways(h) ==
    /\ pc[h] = "gated" /\ ~cancelled[h]
    /\ Goto(h, "ensure")
    /\ UNCHANGED <<key, ref, once, cancelled, leaseVars, lastCall, shutdown>>

ProvisionCancelled(h) ==
    /\ pc[h] = "gated" /\ active[ref[h]] = 0
    /\ Goto(h, "ensure")
    /\ UNCHANGED <<key, ref, once, cancelled, leaseVars, lastCall, shutdown>>

(* First session: call EnsureWorkspace, keeping the token.                  *)
Provision(h) ==
    /\ pc[h] = "gated"
    /\ ~cancelled[h]
    /\ active[ref[h]] = 0
    /\ Goto(h, "ensure")
    /\ UNCHANGED <<key, ref, once, cancelled, leaseVars, lastCall, shutdown>>

EnsureOk(h) ==
    /\ pc[h] = "ensure"
    /\ lastCall' = [lastCall EXCEPT ![key[h]] = "ensured"]
    /\ Grant(h)

(* Mutant of EnsureFail: returns the error without cleaning up.             *)
EnsureFailLeaves(h) ==
    /\ pc[h] = "ensure"
    /\ lastCall' = [lastCall EXCEPT ![key[h]] = "ensureFailed"]
    /\ ReturnGate(h)
    /\ Goto(h, "drop")
    /\ UNCHANGED <<key, ref, once, cancelled, workspaces, users, active, shutdown>>

(* A failed setup is cleaned up before anybody else gets the token.         *)
EnsureFail(h) ==
    /\ pc[h] = "ensure"
    /\ lastCall' = [lastCall EXCEPT ![key[h]] = "ensureFailed"]
    /\ Goto(h, "setupCleanup")
    /\ UNCHANGED <<key, ref, once, cancelled, leaseVars, shutdown>>

(* cleanup(): DeletePod on a background context of 30 s; an error is only   *)
(* logged, and the token goes back either way.                              *)
CleanupDone(h, ok) ==
    /\ pc[h] \in {"setupCleanup", "lastCleanup"}
    /\ lastCall' = [lastCall EXCEPT ![key[h]] =
                       IF ok THEN "deleted" ELSE "deleteFailed"]
    /\ ReturnGate(h)
    /\ Goto(h, "drop")
    /\ UNCHANGED <<key, ref, once, cancelled, workspaces, users, active, shutdown>>

(* Mutant of Drop: removes the entry although others still use the lease.   *)
DropAlwaysDeletes(h) ==
    /\ pc[h] = "drop"
    /\ users' = [users EXCEPT ![ref[h]] = @ - 1]
    /\ workspaces' = [workspaces EXCEPT ![key[h]] = Nil]
    /\ Goto(h, "exit")
    /\ UNCHANGED <<key, ref, once, cancelled, active, gate, lastCall, shutdown>>

(* drop(): under Server.mu, the last user removes the entry.                *)
Drop(h) ==
    /\ pc[h] = "drop"
    /\ users' = [users EXCEPT ![ref[h]] = @ - 1]
    /\ workspaces' = IF users[ref[h]] = 1
                     THEN [workspaces EXCEPT ![key[h]] = Nil]
                     ELSE workspaces
    /\ Goto(h, "exit")
    /\ UNCHANGED <<key, ref, once, cancelled, active, gate, lastCall, shutdown>>

(* Mutant of CallRelease: no sync.Once around the release function.         *)
CallReleaseTwice(h) ==
    /\ pc[h] \in {"held", "exit"}
    /\ ~once[h]
    /\ Goto(h, "releasing")
    /\ UNCHANGED <<key, ref, once, cancelled, leaseVars, lastCall, shutdown>>

(* The handler calls release, explicitly when its stream ends or deferred   *)
(* when it returns (after the explicit call, a second time).                *)
CallRelease(h) ==
    /\ pc[h] \in {"held", "exit"}
    /\ ~once[h]
    /\ once' = [once EXCEPT ![h] = TRUE]
    /\ Goto(h, "releasing")
    /\ UNCHANGED <<key, ref, cancelled, leaseVars, lastCall, shutdown>>

(* Mutant of ReleaseGate: every release cleans up.                          *)
ReleaseAlwaysCleans(h) ==
    /\ pc[h] = "releasing"
    /\ gate[ref[h]]
    /\ active' = [active EXCEPT ![ref[h]] = @ - 1]
    /\ gate' = [gate EXCEPT ![ref[h]] = FALSE]
    /\ Goto(h, "lastCleanup")
    /\ UNCHANGED <<key, ref, once, cancelled, workspaces, users, lastCall, shutdown>>

(* Inside once.Do: receive the token, active--, and clean up when last.     *)
ReleaseGate(h) ==
    /\ pc[h] = "releasing"
    /\ gate[ref[h]]
    /\ active' = [active EXCEPT ![ref[h]] = @ - 1]
    /\ \/ /\ active[ref[h]] = 1
          /\ gate' = [gate EXCEPT ![ref[h]] = FALSE]
          /\ Goto(h, "lastCleanup")
       \/ /\ active[ref[h]] # 1
          /\ UNCHANGED gate
          /\ Goto(h, "drop")
    /\ UNCHANGED <<key, ref, once, cancelled, workspaces, users, lastCall, shutdown>>

(* The handler returns: the deferred release finds once already done.       *)
Exit(h) ==
    /\ pc[h] = "exit"
    /\ once[h]
    /\ Goto(h, "idle")
    /\ ref' = [ref EXCEPT ![h] = Nil]
    /\ key' = [key EXCEPT ![h] = Nil]
    /\ cancelled' = [cancelled EXCEPT ![h] = FALSE]
    /\ UNCHANGED <<once, leaseVars, lastCall, shutdown>>

(* The client closes its channel or its connection is lost.                 *)
Cancel(h) ==
    /\ pc[h] # "idle"
    /\ ~cancelled[h]
    /\ cancelled' = [cancelled EXCEPT ![h] = TRUE]
    /\ UNCHANGED <<pc, key, ref, once, leaseVars, lastCall, shutdown>>

(* Mutant of Shutdown: the handlers' contexts do not derive from Serve's.   *)
ShutdownUnseen ==
    /\ ~shutdown
    /\ shutdown' = TRUE
    /\ UNCHANGED <<handlerVars, leaseVars, lastCall>>

(* SIGTERM: Serve's context, the parent of every handler's, is done.        *)
Shutdown ==
    /\ ~shutdown
    /\ shutdown' = TRUE
    /\ cancelled' = [h \in Handler |-> pc[h] # "idle"]
    /\ UNCHANGED <<pc, key, ref, once, leaseVars, lastCall>>

HandlerStep(h) ==
    \/ \E k \in Key : Lookup(h, k)
    \/ TakeGate(h)
    \/ GiveUp(h)
    \/ Refuse(h)
    \/ Join(h)
    \/ Provision(h)
    \/ EnsureOk(h)
    \/ EnsureFail(h)
    \/ \E ok \in BOOLEAN : CleanupDone(h, ok)
    \/ Drop(h)
    \/ CallRelease(h)
    \/ ReleaseGate(h)
    \/ Exit(h)
    \/ Cancel(h)

Next == Shutdown \/ \E h \in Handler : HandlerStep(h)

Safety == Init /\ [][Next]_vars

-----------------------------------------------------------------------------
(* Fairness.  A runnable goroutine runs; EnsureWorkspace and DeletePod have *)
(* timeouts and therefore return; blocked receivers of a Go channel are     *)
(* served in arrival order, hence strong fairness for the two receives from *)
(* the gate.  A handler whose context is done leaves its stream and calls   *)
(* release; one that is connected may stay for ever.                        *)
Running(h) ==
    \/ GiveUp(h) \/ Refuse(h) \/ Join(h) \/ Provision(h)
    \/ EnsureOk(h) \/ EnsureFail(h)
    \/ \E ok \in BOOLEAN : CleanupDone(h, ok)
    \/ Drop(h) \/ Exit(h)
    \/ cancelled[h] /\ CallRelease(h)

Fairness == \A h \in Handler : /\ WF_vars(Running(h))
                               /\ SF_vars(TakeGate(h))
                               /\ SF_vars(ReleaseGate(h))

Spec == Safety /\ Fairness

-----------------------------------------------------------------------------
(* The users and active counters are exactly the goroutines they stand for, *)
(* and a handler that still uses a lease always reaches it through the map: *)
(* two handlers of one pod can never work on different lease objects.       *)
LeaseAgreement ==
    /\ \A h \in Handler : pc[h] \in Using => workspaces[key[h]] = ref[h]
    /\ \A k \in Key : workspaces[k] # Nil =>
          /\ users[workspaces[k]] = Cardinality(HandlersAt(k, Using))
          /\ active[workspaces[k]] = Cardinality(HandlersAt(k, Counted))

(* Calls of the lifecycle backend for one pod never overlap, whatever lease *)
(* objects the callers got (gate, lifecycle.go:39-79).                      *)
SerializedCalls ==
    \A g, h \in Handler :
        (key[g] = key[h] /\ pc[g] \in Gated /\ pc[h] \in Gated) => g = h

(* From the moment acquireWorkspace returns until its release takes effect, *)
(* the last backend call for the pod is the EnsureWorkspace that succeeded: *)
(* no cleanup of another handler has run or is running.                     *)
SessionsKeepWorkspace ==
    \A k \in Key : HandlersAt(k, Counted) # {} =>
        /\ lastCall[k] = "ensured"
        /\ HandlersAt(k, Gated \ {"gated"}) = {}

(* Nothing is forgotten: when no handler uses a pod any more its lease is   *)
(* gone and, if the backend was ever called, the last call was a DeletePod. *)
NoAbandonedPod ==
    \A k \in Key : HandlersAt(k, Using) = {} =>
        /\ workspaces[k] = Nil
        /\ lastCall[k] \in {"none", "deleted", "deleteFailed"}

-----------------------------------------------------------------------------
(* The abstract view of the leases.                                         *)
SessionsOf(k) == HandlersAt(k, Counted)

PhaseOf(k) ==
    IF HandlersAt(k, {"ensure"}) # {} THEN "starting"
    ELSE IF HandlersAt(k, {"setupCleanup", "lastCleanup"}) # {} THEN "stopping"
    ELSE IF SessionsOf(k) # {} THEN "up"
    ELSE "down"

Service == INSTANCE WorkspaceService
             WITH phase <- [k \in Key |-> PhaseOf(k)],
                  sessions <- [k \in Key |-> SessionsOf(k)]

(* The leases implement WorkspaceService, including that a setup and a      *)
(* teardown that began come to an end.                                      *)
ImplementsService == Service!ServiceSpec

(* Its safety part alone, which is what the proofs establish.               *)
ImplementsServiceSafety == Service!ServiceSafety

(* While the process stops, a pod that is down is not started again, so     *)
(* each pod costs the grace period at most one cleanup of 30 s (the chart's *)
(* deployment.yaml allows 45 s).                                            *)
ShutdownStartsNothing ==
    [][shutdown => \A k \in Key : PhaseOf(k) = "down" => PhaseOf(k)' = "down"]_vars

(* A handler that waits for the gate gets it or leaves, whatever the other  *)
(* handlers of the pod do.                                                  *)
WaiterProceeds == \A h \in Handler : pc[h] = "wait" ~> pc[h] # "wait"

(* A handler whose client is gone ends; it does not keep the pod alive.     *)
DisconnectReleases == \A h \in Handler : cancelled[h] ~> pc[h] = "idle"

(* After SIGTERM every pod is torn down for good.                           *)
ShutdownDrains == shutdown ~> [](\A k \in Key : PhaseOf(k) = "down")

=============================================================================
