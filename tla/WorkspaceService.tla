-------------------------- MODULE WorkspaceService --------------------------
(***************************************************************************)
(* What the workspace leases of one voidshell process promise, without     *)
(* locks, counters or lease objects: each workspace pod is set up for its  *)
(* first session, shared by the sessions that join, and torn down exactly  *)
(* when the last of them has left or the setup has failed.  Setup and      *)
(* teardown of one pod never overlap each other or a running session.      *)
(***************************************************************************)
EXTENDS Naturals

CONSTANTS Handler,      \* the channel handlers that open sessions
          Key           \* the workspace pod names

VARIABLES phase,        \* what the process is doing with each pod
          sessions      \* the handlers that hold each pod

svars == <<phase, sessions>>

Phases == {"down", "starting", "up", "stopping"}

ServiceTypeOK == /\ phase \in [Key -> Phases]
                 /\ sessions \in [Key -> SUBSET Handler]

ServiceInit == /\ phase = [k \in Key |-> "down"]
               /\ sessions = [k \in Key |-> {}]

(* The first handler starts the pod; nobody holds it yet.                   *)
Start(k) == /\ phase[k] = "down"
            /\ phase' = [phase EXCEPT ![k] = "starting"]
            /\ UNCHANGED sessions

Started(k, h) == /\ phase[k] = "starting"
                 /\ phase' = [phase EXCEPT ![k] = "up"]
                 /\ sessions' = [sessions EXCEPT ![k] = {h}]

(* A failed setup may have left objects behind: it is always torn down.     *)
StartFailed(k) == /\ phase[k] = "starting"
                  /\ phase' = [phase EXCEPT ![k] = "stopping"]
                  /\ UNCHANGED sessions

Enter(k, h) == /\ phase[k] = "up"
               /\ h \notin sessions[k]
               /\ sessions' = [sessions EXCEPT ![k] = @ \cup {h}]
               /\ UNCHANGED phase

Leave(k, h) == /\ phase[k] = "up"
               /\ h \in sessions[k]
               /\ sessions' = [sessions EXCEPT ![k] = @ \ {h}]
               /\ phase' = [phase EXCEPT ![k] =
                               IF sessions[k] = {h} THEN "stopping" ELSE "up"]

Stopped(k) == /\ phase[k] = "stopping"
              /\ phase' = [phase EXCEPT ![k] = "down"]
              /\ UNCHANGED sessions

ServiceNext == \E k \in Key :
                  \/ Start(k)
                  \/ StartFailed(k)
                  \/ Stopped(k)
                  \/ \E h \in Handler : Started(k, h) \/ Enter(k, h) \/ Leave(k, h)

(* A setup and a teardown, once begun, end: both calls carry a timeout.     *)
ServiceFairness ==
    \A k \in Key : /\ WF_svars(StartFailed(k) \/ \E h \in Handler : Started(k, h))
                   /\ WF_svars(Stopped(k))

ServiceSafety == ServiceInit /\ [][ServiceNext]_svars

ServiceSpec == ServiceSafety /\ ServiceFairness

=============================================================================
