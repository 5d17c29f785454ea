--------------------------- MODULE WorkspaceSystem ---------------------------
(***************************************************************************)
(* The leases and the pod manager together, for one workspace pod.  The    *)
(* leases are represented by the service they implement (WorkspaceService, *)
(* see LeaseRefinement): they decide when EnsureWorkspace and DeletePod    *)
(* are called; the manager decides how the calls end.  The proxy process   *)
(* can crash and come back, with the other backend configured.             *)
(***************************************************************************)
EXTENDS PodManager

CONSTANTS Handler,      \* channel handlers
          PodName,      \* the one workspace pod
          MaxCrashes    \* bound on restarts of the process

ASSUME SystemAssumption == MaxCrashes \in Nat

VARIABLES phase, sessions,   \* WorkspaceService
          used,              \* uids of the pods sessions have run in
          lost,              \* uids whose removal an error or a crash cut short
          crashes

Lease == INSTANCE WorkspaceService WITH Key <- {PodName}

vars == <<podVars, phase, sessions, used, lost, crashes>>

TypeOK == /\ PodTypeOK /\ Lease!ServiceTypeOK
          /\ used \subseteq Uid /\ lost \subseteq Uid
          /\ crashes \in 0..MaxCrashes

Init == PodInit /\ Lease!ServiceInit /\ used = {} /\ lost = {} /\ crashes = 0

Here == IF Exists THEN {pod.uid} ELSE {}

(* The manager returns to the lease.                                        *)
Return(result) == pc = result /\ pc' = "idle"
                    /\ UNCHANGED <<config, cluster, endpoint, seen>>

CallEnsure == /\ Lease!Start(PodName)
              /\ BeginEnsure
              /\ UNCHANGED <<used, lost, crashes>>

EnsureReturns(h) == /\ Return("ensured")
                    /\ Lease!Started(PodName, h)
                    /\ used' = used \cup Here
                    /\ UNCHANGED <<lost, crashes>>

(* cleanup() after a failed setup.                                          *)
EnsureFails == /\ pc = "failed"
               /\ BeginDelete
               /\ Lease!StartFailed(PodName)
               /\ UNCHANGED <<used, lost, crashes>>

Enter(h) == /\ Lease!Enter(PodName, h)
            /\ used' = used \cup Here
            /\ UNCHANGED <<podVars, lost, crashes>>

(* release(): the last session calls cleanup().                             *)
Leave(h) == /\ Lease!Leave(PodName, h)
            /\ IF sessions[PodName] = {h} THEN BeginDelete ELSE UNCHANGED podVars
            /\ UNCHANGED <<used, lost, crashes>>

DeleteReturns == /\ \E result \in {"deleted", "deleteFailed"} : Return(result)
                 /\ Lease!Stopped(PodName)
                 /\ UNCHANGED <<used, lost, crashes>>

Step == /\ ManagerStep
        /\ lost' = CASE PodCreateLost -> lost \cup {built + 1}
                     [] DeleteError -> lost \cup Here
                     [] OTHER -> lost
        /\ UNCHANGED <<phase, sessions, used, crashes>>

Environment == ClusterStep /\ UNCHANGED <<phase, sessions, used, lost, crashes>>

(* The process dies; its successor knows nothing of pods and sessions.      *)
Crash == /\ crashes < MaxCrashes
         /\ crashes' = crashes + 1
         /\ pc' = "idle" /\ endpoint' = Absent /\ seen' = 1
         /\ directSSH' \in BOOLEAN
         /\ phase' = [k \in {PodName} |-> "down"]
         /\ sessions' = [k \in {PodName} |-> {}]
         /\ lost' = lost \cup Here
         /\ UNCHANGED <<persistent, cluster, used>>

Next == \/ CallEnsure
        \/ \E h \in Handler : EnsureReturns(h) \/ Enter(h) \/ Leave(h)
        \/ EnsureFails
        \/ DeleteReturns
        \/ Step
        \/ Environment
        \/ Crash

Spec == Init /\ [][Next]_vars

-----------------------------------------------------------------------------
Up == phase[PodName] = "up"

(* "valid for one workspace lease lifetime" (lifecycle.go:65): an SSH       *)
(* session always finds an endpoint, and none survives its lease.           *)
EndpointPerLease == /\ Up /\ directSSH => endpoint # Absent
                    /\ endpoint # Absent => Up \/ pc = "ensured"

(* The endpoint pairs a pod's address with the credentials of that very pod *)
(* (prepareSSH), and a container that has started there started with these, *)
(* whatever was deleted and created between the requests.                   *)
EndpointOwnsItsKeys == endpoint # Absent =>
    /\ endpoint.owner = endpoint.ip
    /\ Exists /\ pod.uid = endpoint.ip =>
          pod.status = "waiting" \/ pod.mounted = endpoint.owner

(* "Random names prevent a new pod from consuming a terminating pod's       *)
(* credentials" (ssh.go:90).                                                *)
OwnCredentials == Exists => pod.mounted \in {pod.uid, Absent, Foreign}

(* When no lease exists, a pod is left only if its removal failed, the      *)
(* process died, or its Create was given up on.                             *)
NoLeftoverPod == phase[PodName] = "down" /\ Exists => pod.uid \in lost

(* How far that promise of ADR 004 reaches (EphemeralStartsClean below does *)
(* not hold): a lease starts in a pod that served an earlier one only if a  *)
(* failed DeletePod, a crash or a Create that was given up on left the pod  *)
(* behind, whatever else deletes, creates and fails between two leases.     *)
ReuseNeedsFailure ==
    [][\A h \in Handler : EnsureReturns(h) => Here \cap used \subseteq lost]_vars

(* After a restart with the other backend, exec sessions never start in a   *)
(* pod of the SSH backend (ensurePod's check).  The one exception takes a   *)
(* Create that outlives its process and lands after ensurePod looked, and a *)
(* stranger who supplies the Secret that pod waits for.                     *)
BackendAgrees == [][WaitReady /\ pc' = "ensured" => ~pod.ssh \/ pod.mounted = Foreign]_vars

(* "Never execute in a dying pod" (lifecycle.go:218): EnsureWorkspace does  *)
(* not succeed on looking at a pod that is being deleted.                   *)
NeverEnsuredDying == [][WaitReady /\ pc' = "ensured" => Alive]_vars

(* "Ephemeral data remains available while at least one channel is active,  *)
(* and is discarded when the last closes" (docs/adr/004, lines 73-74):      *)
(* a new lease of an ephemeral pod starts in a pod no session has used.     *)
EphemeralStartsClean ==
    [][\A h \in Handler : EnsureReturns(h) /\ ~persistent => Here \cap used = {}]_vars

=============================================================================
