----------------------------- MODULE PodManager -----------------------------
(***************************************************************************)
(* k8s.Manager for one pod name: EnsureWorkspace, DeletePod and the steps  *)
(* they are made of (internal/k8s/lifecycle.go, ssh.go), one action per    *)
(* request to the Kubernetes API.  The API server, the kubelet, the garbage*)
(* collector and other users of the namespace act between any two of them. *)
(*                                                                         *)
(* Requests can fail.  A Create whose caller gave up may still take effect *)
(* later (inflight); a Delete that failed may have taken effect.  A poll   *)
(* that finds nothing new is a stuttering step.                            *)
(***************************************************************************)
EXTENDS Naturals

CONSTANTS MaxPods,      \* bound on the pods ever built for the name
          Absent,       \* no such object
          Foreign       \* an owner other than one of these pods

ASSUME BoundAssumption == MaxPods \in Nat \ {0}

Uid == 1..MaxPods

VARIABLES directSSH,    \* Config.Backend = "ssh"
          persistent,   \* the storage mode of the pod name
          pvc,          \* the claim exists
          pod,          \* the Pod object of that name, or Absent
          secrets,      \* SSH Secret name -> the uid of its controller, or Absent
          built,        \* how many pods have been built
          inflight,     \* a pod whose Create outlived its caller, or Absent
          endpoint,     \* the name's entry in Manager.sshEndpoints, or Absent
          pc,           \* the request the running call makes next
          seen          \* uid of the pod the running call looked at

cluster == <<pvc, pod, secrets, built, inflight>>
config == <<directSSH, persistent>>
manager == <<endpoint, pc, seen>>
podVars == <<config, cluster, manager>>

Pod == [uid : Uid, ssh : BOOLEAN, dying : BOOLEAN,
        status : {"waiting", "ready", "ended"},
        mounted : Uid \cup {Absent, Foreign}]

Ensuring == {"pvcGet", "pvcCreate", "podGet", "podCreate", "credentialsGet", "secretGet",
             "secretCreate", "waitReady", "prepareGet", "prepareSecret"}
Deleting == {"delete", "deletePoll"}
Returned == {"ensured", "failed", "deleted", "deleteFailed"}

Endpoint == [ip : Uid, owner : Uid \cup {Absent, Foreign}]

(* Absent stands for no object: it is none of them.                         *)
ASSUME NamesAssumption == /\ Absent # Foreign /\ {Absent, Foreign} \cap Nat = {}
                          /\ Absent \notin Pod \cup Endpoint

PodTypeOK == /\ directSSH \in BOOLEAN /\ persistent \in BOOLEAN /\ pvc \in BOOLEAN
             /\ pod \in Pod \cup {Absent}
             /\ secrets \in [Uid -> Uid \cup {Absent, Foreign}]
             /\ built \in 0..MaxPods
             /\ inflight \in Pod \cup {Absent}
             /\ endpoint \in Endpoint \cup {Absent}
             /\ pc \in {"idle"} \cup Ensuring \cup Deleting \cup Returned
             /\ seen \in Uid

PodInit == /\ directSSH \in BOOLEAN /\ persistent \in BOOLEAN /\ pvc = FALSE
           /\ pod = Absent
           /\ secrets = [n \in Uid |-> Absent]
           /\ built = 0
           /\ inflight = Absent
           /\ endpoint = Absent
           /\ pc = "idle"
           /\ seen = 1

Exists == pod # Absent
Alive == Exists /\ ~pod.dying

(* The running call goes on, or returns.                                    *)
Continue(place) == pc' = place /\ UNCHANGED <<config, cluster, endpoint, seen>>

-----------------------------------------------------------------------------
(* EnsureWorkspace.                                                         *)
BeginEnsure == /\ pc = "idle"
               /\ Continue(IF persistent THEN "pvcGet" ELSE "podGet")

(* ensurePVC                                                                *)
PvcGet == /\ pc = "pvcGet"
          /\ Continue(IF pvc THEN "podGet" ELSE "pvcCreate")

PvcCreate == /\ pc = "pvcCreate"
             /\ pvc' = TRUE
             /\ pc' = "podGet"
             /\ UNCHANGED <<config, pod, secrets, built, inflight, endpoint, seen>>

AfterPod == IF directSSH THEN "credentialsGet" ELSE "waitReady"

(* ensurePod: a dying pod is waited for, one of the other backend refused.  *)
PodGetAnyBackend == /\ pc = "podGet"
                    /\ \/ ~Exists /\ Continue("podCreate")
                       \/ Alive /\ Continue(AfterPod)

PodGet == /\ pc = "podGet"
          /\ \/ ~Exists /\ Continue("podCreate")
             \/ Alive /\ pod.ssh = directSSH /\ Continue(AfterPod)
             \/ Alive /\ pod.ssh # directSSH /\ Continue("failed")

(* configureSSHPod gives every pod it builds a Secret name of its own.      *)
SharedSecretName(uid) == 1
SecretName(uid) == uid

(* buildPod                                                                 *)
BuiltPod == [uid |-> built + 1, ssh |-> directSSH, dying |-> FALSE,
             status |-> "waiting", mounted |-> Absent]

(* Create, or AlreadyExists: look again.                                    *)
PodCreate == /\ pc = "podCreate"
             /\ built < MaxPods
             /\ \/ /\ ~Exists
                   /\ pod' = BuiltPod
                   /\ built' = built + 1
                   /\ pc' = AfterPod
                   /\ UNCHANGED <<config, pvc, secrets, inflight, endpoint, seen>>
                \/ Exists /\ Continue("podGet")

(* The caller gives up on Create while the request is on its way.           *)
PodCreateLost == /\ pc = "podCreate"
                 /\ built < MaxPods
                 /\ inflight = Absent
                 /\ inflight' = BuiltPod
                 /\ built' = built + 1
                 /\ pc' = "failed"
                 /\ UNCHANGED <<config, pvc, pod, secrets, endpoint, seen>>

(* ensureSSHCredentials: the pod, then its Secret, made when missing.       *)
CredentialsGet == /\ pc = "credentialsGet"
                  /\ \/ ~Exists /\ Continue("failed")
                     \/ Exists /\ ~pod.ssh /\ Continue("failed")
                     \/ /\ Exists /\ pod.ssh
                        /\ seen' = pod.uid
                        /\ pc' = "secretGet"
                        /\ UNCHANGED <<config, cluster, endpoint>>

SecretGet == /\ pc = "secretGet"
             /\ \/ secrets[SecretName(seen)] = seen /\ Continue("waitReady")
                \/ secrets[SecretName(seen)] = Absent /\ Continue("secretCreate")
                \/ secrets[SecretName(seen)] \notin {seen, Absent} /\ Continue("failed")

(* A failed Create may have made the Secret.                                *)
SecretCreate == /\ pc = "secretCreate"
                /\ \/ /\ secrets[SecretName(seen)] = Absent
                      /\ secrets' = [secrets EXCEPT ![SecretName(seen)] = seen]
                      /\ pc' \in {"waitReady", "failed"}
                      /\ UNCHANGED <<config, pvc, pod, built, inflight, endpoint, seen>>
                   \/ secrets[SecretName(seen)] # Absent /\ Continue("failed")

(* waitForPodReady looks at the phase and the container, not at whether the *)
(* pod is being deleted.                                                    *)
WaitReady == /\ pc = "waitReady"
             /\ \/ ~Exists /\ Continue("failed")
                \/ Exists /\ pod.status = "ready"
                     /\ Continue(IF directSSH THEN "prepareGet" ELSE "ensured")
                \/ Exists /\ pod.status = "ended" /\ Continue("failed")

(* prepareSSH: the pod and its Secret, snapshotted into the endpoint.  A pod  *)
(* with no address yet is one of the failures of EnsureError.               *)
Usable == Alive /\ pod.ssh

PrepareGet == /\ pc = "prepareGet"
              /\ \/ ~Usable /\ Continue("failed")
                 \/ /\ Usable
                    /\ seen' = pod.uid
                    /\ pc' = "prepareSecret"
                    /\ UNCHANGED <<config, cluster, endpoint>>

PrepareSecretUnchecked == /\ pc = "prepareSecret"
                          /\ secrets[SecretName(seen)] # Absent
                          /\ endpoint' = [ip |-> seen, owner |-> secrets[SecretName(seen)]]
                          /\ pc' = "ensured"
                          /\ UNCHANGED <<config, cluster, seen>>

PrepareSecret == /\ pc = "prepareSecret"
                 /\ \/ /\ secrets[SecretName(seen)] = seen
                       /\ endpoint' = [ip |-> seen, owner |-> secrets[SecretName(seen)]]
                       /\ pc' = "ensured"
                       /\ UNCHANGED <<config, cluster, seen>>
                    \/ secrets[SecretName(seen)] # seen /\ Continue("failed")

(* A request fails, the session is cancelled, or PodReadyTimeout passes.    *)
EnsureError == pc \in Ensuring /\ Continue("failed")

-----------------------------------------------------------------------------
(* DeletePod: forget the endpoint, delete by name, wait until it is gone.   *)
BeginDeleteKeepsEndpoint == Continue("delete")

BeginDeletePrepared == /\ endpoint' = Absent
                       /\ pc' = IF endpoint = Absent THEN "deleted" ELSE "delete"
                       /\ UNCHANGED <<config, cluster, seen>>

BeginDelete == /\ endpoint' = Absent
               /\ pc' = "delete"
               /\ UNCHANGED <<config, cluster, seen>>

MarkDying == pod' = [pod EXCEPT !.dying = TRUE]

DeleteWithoutWaiting == /\ pc = "delete"
                        /\ pc' = "deleted"
                        /\ IF Exists THEN MarkDying ELSE UNCHANGED pod
                        /\ UNCHANGED <<config, pvc, secrets, built, inflight, endpoint, seen>>

Delete == /\ pc = "delete"
          /\ \/ ~Exists /\ Continue("deleted")
             \/ /\ Exists
                /\ MarkDying
                /\ pc' = "deletePoll"
                /\ UNCHANGED <<config, pvc, secrets, built, inflight, endpoint, seen>>

DeletePoll == /\ pc = "deletePoll"
              /\ ~Exists
              /\ Continue("deleted")

(* The request fails, having taken effect or not, or 30 s pass.             *)
DeleteError == /\ pc \in Deleting
               /\ \/ Continue("deleteFailed")
                  \/ /\ pc = "delete" /\ Exists
                     /\ MarkDying
                     /\ pc' = "deleteFailed"
                     /\ UNCHANGED <<config, pvc, secrets, built, inflight, endpoint, seen>>

ManagerStep == \/ PvcGet \/ PvcCreate \/ PodGet \/ PodCreate \/ PodCreateLost
               \/ CredentialsGet \/ SecretGet \/ SecretCreate \/ WaitReady
               \/ PrepareGet \/ PrepareSecret \/ EnsureError
               \/ Delete \/ DeletePoll \/ DeleteError

-----------------------------------------------------------------------------
(* The cluster.                                                             *)
ClusterFrame == UNCHANGED <<config, pvc, built, manager>>

(* The kubelet starts the container; an SSH pod needs its Secret for that.  *)
PodStarts == /\ Alive /\ pod.status = "waiting"
             /\ pod.ssh => secrets[SecretName(pod.uid)] # Absent
             /\ pod' = [pod EXCEPT !.status = "ready",
                          !.mounted = IF pod.ssh THEN secrets[SecretName(pod.uid)] ELSE Absent]
             /\ UNCHANGED <<secrets, inflight>> /\ ClusterFrame

(* The container exits; restartPolicy is Never.                             *)
PodEnds == /\ Exists /\ pod.status = "ready"
           /\ pod' = [pod EXCEPT !.status = "ended"]
           /\ UNCHANGED <<secrets, inflight>> /\ ClusterFrame

(* Eviction, a drained node, an operator.                                   *)
ExternalDelete == /\ Alive
                  /\ MarkDying
                  /\ UNCHANGED <<secrets, inflight>> /\ ClusterFrame

PodGone == /\ Exists /\ pod.dying
           /\ pod' = Absent
           /\ UNCHANGED <<secrets, inflight>> /\ ClusterFrame

LateCreate == /\ inflight # Absent
              /\ pod' = IF Exists THEN pod ELSE inflight
              /\ inflight' = Absent
              /\ UNCHANGED secrets /\ ClusterFrame

(* Secrets of pods that are gone are collected.                             *)
CollectSecret(n) == /\ secrets[n] \in Uid
                    /\ Exists => pod.uid # secrets[n]
                    /\ secrets' = [secrets EXCEPT ![n] = Absent]
                    /\ UNCHANGED <<pod, inflight>> /\ ClusterFrame

(* Somebody else makes a Secret of that name.                               *)
ForeignSecret == /\ Exists /\ pod.ssh
                 /\ secrets[SecretName(pod.uid)] = Absent
                 /\ secrets' = [secrets EXCEPT ![SecretName(pod.uid)] = Foreign]
                 /\ UNCHANGED <<pod, inflight>> /\ ClusterFrame

ClusterStep == \/ PodStarts \/ PodEnds \/ ExternalDelete \/ PodGone \/ LateCreate
               \/ ForeignSecret \/ \E n \in Uid : CollectSecret(n)

=============================================================================
