---------------------------- MODULE SystemProofs ----------------------------
(***************************************************************************)
(* Proofs about WorkspaceSystem for any number of handlers, pods built for *)
(* the name and restarts of the process.                                   *)
(***************************************************************************)
EXTENDS WorkspaceSystem, TLAPS

(* The manager works exactly while the lease waits for it.                  *)
Calls == LET now == phase[PodName] IN
    /\ now \in {"down", "up"} => pc = "idle"
    /\ now = "starting" => pc \in Ensuring \cup {"ensured", "failed"}
    /\ now = "stopping" => pc \in Deleting \cup {"deleted", "deleteFailed"}
    /\ pc \in {"credentialsGet", "secretGet", "secretCreate"} => directSSH
    /\ pc = "ensured" /\ directSSH => endpoint # Absent

(* Uids are used once: what was built, what is on its way, and what the     *)
(* running call or the endpoint refers to.                                  *)
Referring == {"secretGet", "secretCreate", "prepareSecret"}
Unique ==
    /\ Exists => pod.uid <= built
    /\ endpoint # Absent => endpoint.ip <= built
    /\ pc \in Referring => seen <= built
    /\ \A n \in Uid : n > built => secrets[n] = Absent
    /\ inflight # Absent =>
          /\ inflight.uid <= built /\ secrets[inflight.uid] = Absent
          /\ inflight.status = "waiting" /\ inflight.mounted = Absent
          /\ Exists => pod.uid # inflight.uid
          /\ endpoint # Absent => endpoint.ip # inflight.uid
          /\ pc \in Referring => seen # inflight.uid

(* Secrets belong to their pod or to a stranger, for good; a container has  *)
(* started with the Secret that is still there.                             *)
Mounts ==
    /\ \A n \in Uid : secrets[n] \in {n, Absent, Foreign}
    /\ Exists =>
          /\ pod.status = "waiting" \/ ~pod.ssh => pod.mounted = Absent
          /\ pod.status # "waiting" /\ pod.ssh => pod.mounted \in {pod.uid, Foreign}
          /\ pod.mounted = Foreign => secrets[pod.uid] = Foreign

(* While it exists, the pod of the endpoint is an SSH pod with its Secret.  *)
Keys ==
    /\ Exists /\ pc = "prepareSecret" /\ pod.uid = seen => pod.ssh
    /\ endpoint # Absent =>
          /\ endpoint.owner = endpoint.ip
          /\ Exists /\ pod.uid = endpoint.ip => pod.ssh /\ secrets[pod.uid] = pod.uid

(* Under the exec backend, an SSH pod that slipped in has no Secret of its  *)
(* own.                                                                     *)
Backend == ~directSSH /\ pc = "waitReady" /\ Exists /\ pod.ssh =>
               secrets[pod.uid] # pod.uid /\ pod.mounted # pod.uid

(* Pods nobody will remove.                                                 *)
Leftovers ==
    /\ inflight # Absent => inflight.uid \in lost
    /\ pc \in {"deleted", "deleteFailed"} /\ Exists => pod.uid \in lost

IInv == /\ TypeOK /\ Calls /\ Unique /\ Mounts /\ Keys /\ Backend /\ Leftovers
        /\ EndpointPerLease /\ NoLeftoverPod

USE BoundAssumption, NamesAssumption, SystemAssumption

(* The invariant holds at first.                                            *)
LEMMA IInvInit == Init => IInv
<1> SUFFICES ASSUME Init PROVE IInv
  OBVIOUS
<1>a. built \in 0..MaxPods /\ seen \in Uid /\ secrets \in [Uid -> Uid \cup {Absent, Foreign}]
  BY DEF Init, PodInit, Uid
<1>1. PodTypeOK
  BY <1>a, Zenon DEF Init, PodInit, PodTypeOK
<1>2. Lease!ServiceTypeOK /\ phase[PodName] = "down"
  BY DEF Init, Lease!ServiceInit, Lease!ServiceTypeOK, Lease!Phases
<1>3. used \subseteq Uid /\ lost \subseteq Uid /\ crashes \in 0..MaxCrashes
  BY DEF Init
<1> QED BY <1>1, <1>2, <1>3 DEF Init, PodInit, IInv, TypeOK, Exists, Calls, Unique, Referring, Mounts, Keys,
   Backend, Leftovers, EndpointPerLease, NoLeftoverPod, Up, Uid

(* What a step of the manager leaves of the removals that were cut short.   *)
LEMMA Losing ==
    ASSUME IInv, Step
    PROVE  /\ lost \subseteq lost'
           /\ lost' \subseteq Uid
           /\ PodCreateLost => built + 1 \in lost'
           /\ DeleteError => Here \subseteq lost'
<1>1. DeleteError => ~PodCreateLost
  BY DEF DeleteError, PodCreateLost, Deleting
<1>2. CASE PodCreateLost
  <2>1. lost' = lost \cup {built + 1}
    BY <1>1, <1>2 DEF Step
  <2>2. built + 1 \in Uid
    BY <1>2 DEF PodCreateLost, IInv, TypeOK, PodTypeOK, Uid
  <2> QED BY <1>1, <1>2, <2>1, <2>2 DEF IInv, TypeOK
<1>3. CASE DeleteError
  <2>1. lost' = lost \cup Here
    BY <1>1, <1>3 DEF Step
  <2>2. Here \subseteq Uid
    BY DEF Here, Exists, IInv, TypeOK, PodTypeOK, Pod
  <2> QED BY <1>1, <1>3, <2>1, <2>2 DEF IInv, TypeOK
<1>4. CASE ~PodCreateLost /\ ~DeleteError
  BY <1>4 DEF Step, IInv, TypeOK
<1> QED BY <1>2, <1>3, <1>4

(* The requests of the manager keep it.                                     *)
LEMMA ManagerKeeps ==
    ASSUME IInv, Step
    PROVE  IInv'
<1> USE DEF IInv, podVars, config, cluster, manager, Continue
<1>a. /\ UNCHANGED <<phase, sessions, used, crashes>>
      /\ lost \subseteq lost' /\ lost' \subseteq Uid
  BY Losing DEF Step
<1>1. CASE PvcGet
  BY <1>a, <1>1 DEF PvcGet, TypeOK, PodTypeOK, Lease!ServiceTypeOK, Lease!Phases, Pod, Endpoint, Uid, Exists,
     Calls, Ensuring, Deleting, Returned, Unique, Referring, Mounts, Keys, Backend, Leftovers,
     EndpointPerLease, NoLeftoverPod, Up
<1>2. CASE PvcCreate
  BY <1>a, <1>2 DEF PvcCreate, TypeOK, PodTypeOK, Lease!ServiceTypeOK, Lease!Phases, Pod, Endpoint, Uid,
     Exists, Calls, Ensuring, Deleting, Returned, Unique, Referring, Mounts, Keys, Backend, Leftovers,
     EndpointPerLease, NoLeftoverPod, Up
<1>3. CASE PodGet
  BY <1>a, <1>3 DEF PodGet, AfterPod, Alive, TypeOK, PodTypeOK, Lease!ServiceTypeOK, Lease!Phases, Pod,
     Endpoint, Uid, Exists, Calls, Ensuring, Deleting, Returned, Unique, Referring, Mounts, Keys, Backend,
     Leftovers, EndpointPerLease, NoLeftoverPod, Up
<1>4. CASE PodCreate
  <2>a. built + 1 \in Uid /\ BuiltPod \in Pod /\ built + 1 \in 0..MaxPods
    BY <1>4 DEF PodCreate, BuiltPod, TypeOK, PodTypeOK, Pod, Uid
  <2>1. TypeOK'
    BY <1>a, <1>4, <2>a DEF PodCreate, BuiltPod, AfterPod, TypeOK, PodTypeOK, Lease!ServiceTypeOK,
       Lease!Phases, Pod, Endpoint, Uid, Exists, Calls, Ensuring, Deleting, Returned, Unique, Referring
  <2>2. Calls'
    BY <1>a, <1>4, <2>a DEF PodCreate, BuiltPod, AfterPod, TypeOK, PodTypeOK, Pod, Endpoint, Uid, Exists,
       Calls, Ensuring, Deleting, Returned
  <2>3. Unique'
    BY <1>a, <1>4, <2>a DEF PodCreate, BuiltPod, AfterPod, TypeOK, PodTypeOK, Pod, Endpoint, Uid, Exists,
       Calls, Ensuring, Deleting, Returned, Unique, Referring
  <2>4. Mounts'
    BY <1>a, <1>4, <2>a DEF PodCreate, BuiltPod, AfterPod, TypeOK, PodTypeOK, Pod, Endpoint, Uid, Exists,
       Calls, Ensuring, Deleting, Returned, Unique, Referring, Mounts
  <2>5. Keys'
    BY <1>a, <1>4, <2>a DEF PodCreate, BuiltPod, AfterPod, TypeOK, PodTypeOK, Pod, Endpoint, Uid, Exists,
       Calls, Ensuring, Deleting, Returned, Unique, Referring, Mounts, Keys
  <2>6. Backend'
    BY <1>a, <1>4, <2>a DEF PodCreate, BuiltPod, AfterPod, TypeOK, PodTypeOK, Pod, Endpoint, Uid, Exists,
       Calls, Ensuring, Deleting, Returned, Unique, Referring, Mounts, Backend
  <2>7. (Leftovers /\ EndpointPerLease /\ NoLeftoverPod)'
    BY <1>a, <1>4, <2>a DEF PodCreate, BuiltPod, AfterPod, TypeOK, PodTypeOK, Pod, Endpoint, Uid, Exists,
       Calls, Ensuring, Deleting, Returned, Leftovers, EndpointPerLease, NoLeftoverPod, Up
  <2> QED BY <2>1, <2>2, <2>3, <2>4, <2>5, <2>6, <2>7
<1>5. CASE PodCreateLost
  <2>a. built + 1 \in lost'
    BY <1>5, Losing
  <2>1. TypeOK'
    BY <1>a, <1>5, <2>a DEF PodCreateLost, BuiltPod, TypeOK, PodTypeOK, Lease!ServiceTypeOK, Lease!Phases,
       Pod, Endpoint, Uid, Exists, Calls, Ensuring, Deleting, Returned, Unique, Referring
  <2>2. Calls'
    BY <1>a, <1>5, <2>a DEF PodCreateLost, BuiltPod, TypeOK, PodTypeOK, Pod, Endpoint, Uid, Exists, Calls,
       Ensuring, Deleting, Returned
  <2>3. Unique'
    BY <1>a, <1>5, <2>a DEF PodCreateLost, BuiltPod, TypeOK, PodTypeOK, Pod, Endpoint, Uid, Exists, Calls,
       Ensuring, Deleting, Returned, Unique, Referring
  <2>4. Mounts'
    BY <1>a, <1>5, <2>a DEF PodCreateLost, BuiltPod, TypeOK, PodTypeOK, Pod, Endpoint, Uid, Exists, Calls,
       Ensuring, Deleting, Returned, Unique, Referring, Mounts
  <2>5. Keys'
    BY <1>a, <1>5, <2>a DEF PodCreateLost, BuiltPod, TypeOK, PodTypeOK, Pod, Endpoint, Uid, Exists, Calls,
       Ensuring, Deleting, Returned, Unique, Referring, Mounts, Keys
  <2>6. Backend'
    BY <1>a, <1>5, <2>a DEF PodCreateLost, BuiltPod, TypeOK, PodTypeOK, Pod, Endpoint, Uid, Exists, Calls,
       Ensuring, Deleting, Returned, Unique, Referring, Mounts, Backend
  <2>7. (Leftovers /\ EndpointPerLease /\ NoLeftoverPod)'
    BY <1>a, <1>5, <2>a DEF PodCreateLost, BuiltPod, TypeOK, PodTypeOK, Pod, Endpoint, Uid, Exists, Calls,
       Ensuring, Deleting, Returned, Leftovers, EndpointPerLease, NoLeftoverPod, Up
  <2> QED BY <2>1, <2>2, <2>3, <2>4, <2>5, <2>6, <2>7
<1>6. CASE CredentialsGet
  <2>1. TypeOK'
    BY <1>a, <1>6 DEF CredentialsGet, TypeOK, PodTypeOK, Lease!ServiceTypeOK, Lease!Phases, Pod, Endpoint,
       Uid, Exists, Calls, Ensuring, Deleting, Returned, Unique, Referring
  <2>2. Calls'
    BY <1>a, <1>6 DEF CredentialsGet, TypeOK, PodTypeOK, Pod, Endpoint, Uid, Exists, Calls, Ensuring,
       Deleting, Returned
  <2>3. Unique'
    BY <1>a, <1>6 DEF CredentialsGet, TypeOK, PodTypeOK, Pod, Endpoint, Uid, Exists, Calls, Ensuring,
       Deleting, Returned, Unique, Referring
  <2>4. Mounts'
    BY <1>a, <1>6 DEF CredentialsGet, TypeOK, PodTypeOK, Pod, Endpoint, Uid, Exists, Calls, Ensuring,
       Deleting, Returned, Unique, Referring, Mounts
  <2>5. Keys'
    BY <1>a, <1>6 DEF CredentialsGet, TypeOK, PodTypeOK, Pod, Endpoint, Uid, Exists, Calls, Ensuring,
       Deleting, Returned, Unique, Referring, Mounts, Keys
  <2>6. Backend'
    BY <1>a, <1>6 DEF CredentialsGet, TypeOK, PodTypeOK, Pod, Endpoint, Uid, Exists, Calls, Ensuring,
       Deleting, Returned, Unique, Referring, Mounts, Backend
  <2>7. (Leftovers /\ EndpointPerLease /\ NoLeftoverPod)'
    BY <1>a, <1>6 DEF CredentialsGet, TypeOK, PodTypeOK, Pod, Endpoint, Uid, Exists, Calls, Ensuring,
       Deleting, Returned, Leftovers, EndpointPerLease, NoLeftoverPod, Up
  <2> QED BY <2>1, <2>2, <2>3, <2>4, <2>5, <2>6, <2>7
<1>7. CASE SecretGet
  <2>1. TypeOK'
    BY <1>a, <1>7 DEF SecretGet, SecretName, TypeOK, PodTypeOK, Lease!ServiceTypeOK, Lease!Phases, Pod,
       Endpoint, Uid, Exists, Calls, Ensuring, Deleting, Returned, Unique, Referring
  <2>2. Calls'
    BY <1>a, <1>7 DEF SecretGet, SecretName, TypeOK, PodTypeOK, Pod, Endpoint, Uid, Exists, Calls, Ensuring,
       Deleting, Returned
  <2>3. Unique'
    BY <1>a, <1>7 DEF SecretGet, SecretName, TypeOK, PodTypeOK, Pod, Endpoint, Uid, Exists, Calls, Ensuring,
       Deleting, Returned, Unique, Referring
  <2>4. Mounts'
    BY <1>a, <1>7 DEF SecretGet, SecretName, TypeOK, PodTypeOK, Pod, Endpoint, Uid, Exists, Calls, Ensuring,
       Deleting, Returned, Unique, Referring, Mounts
  <2>5. Keys'
    BY <1>a, <1>7 DEF SecretGet, SecretName, TypeOK, PodTypeOK, Pod, Endpoint, Uid, Exists, Calls, Ensuring,
       Deleting, Returned, Unique, Referring, Mounts, Keys
  <2>6. Backend'
    BY <1>a, <1>7 DEF SecretGet, SecretName, TypeOK, PodTypeOK, Pod, Endpoint, Uid, Exists, Calls, Ensuring,
       Deleting, Returned, Unique, Referring, Mounts, Backend
  <2>7. (Leftovers /\ EndpointPerLease /\ NoLeftoverPod)'
    BY <1>a, <1>7 DEF SecretGet, SecretName, TypeOK, PodTypeOK, Pod, Endpoint, Uid, Exists, Calls, Ensuring,
       Deleting, Returned, Leftovers, EndpointPerLease, NoLeftoverPod, Up
  <2> QED BY <2>1, <2>2, <2>3, <2>4, <2>5, <2>6, <2>7
<1>8. CASE SecretCreate
  <2>a. /\ pc = "secretCreate" /\ pc' \in {"waitReady", "failed"}
        /\ UNCHANGED <<config, pvc, pod, built, inflight, endpoint, seen>>
    BY <1>8 DEF SecretCreate
  <2>b. /\ secrets' \in [Uid -> Uid \cup {Absent, Foreign}]
        /\ \A n \in Uid : \/ secrets'[n] = secrets[n]
                          \/ n = seen /\ secrets[n] = Absent /\ secrets'[n] = n
    BY <1>8 DEF SecretCreate, SecretName, TypeOK, PodTypeOK
  <2>1. TypeOK'
    BY <1>a, <2>a, <2>b DEF TypeOK, PodTypeOK, Lease!ServiceTypeOK, Lease!Phases, Pod, Endpoint, Uid, Exists,
       Calls, Ensuring, Deleting, Returned, Unique, Referring
  <2>2. Calls'
    BY <1>a, <2>a, <2>b DEF TypeOK, PodTypeOK, Pod, Endpoint, Uid, Exists, Calls, Ensuring, Deleting, Returned
  <2>3. Unique'
    BY <1>a, <2>a, <2>b DEF TypeOK, PodTypeOK, Pod, Endpoint, Uid, Exists, Calls, Ensuring, Deleting,
       Returned, Unique, Referring
  <2>4. Mounts'
    BY <1>a, <2>a, <2>b DEF TypeOK, PodTypeOK, Pod, Endpoint, Uid, Exists, Calls, Ensuring, Deleting,
       Returned, Unique, Referring, Mounts
  <2>5. Keys'
    BY <1>a, <2>a, <2>b DEF TypeOK, PodTypeOK, Pod, Endpoint, Uid, Exists, Calls, Ensuring, Deleting,
       Returned, Unique, Referring, Mounts, Keys
  <2>6. Backend'
    BY <1>a, <2>a, <2>b DEF TypeOK, PodTypeOK, Pod, Endpoint, Uid, Exists, Calls, Ensuring, Deleting,
       Returned, Unique, Referring, Mounts, Backend
  <2>7. (Leftovers /\ EndpointPerLease /\ NoLeftoverPod)'
    BY <1>a, <2>a, <2>b DEF TypeOK, PodTypeOK, Pod, Endpoint, Uid, Exists, Calls, Ensuring, Deleting,
       Returned, Leftovers, EndpointPerLease, NoLeftoverPod, Up
  <2> QED BY <2>1, <2>2, <2>3, <2>4, <2>5, <2>6, <2>7
<1>9. CASE WaitReady
  BY <1>a, <1>9 DEF WaitReady, TypeOK, PodTypeOK, Lease!ServiceTypeOK, Lease!Phases, Pod, Endpoint, Uid,
     Exists, Calls, Ensuring, Deleting, Returned, Unique, Referring, Mounts, Keys, Backend, Leftovers,
     EndpointPerLease, NoLeftoverPod, Up
<1>10. CASE PrepareGet
  BY <1>a, <1>10 DEF PrepareGet, Usable, Alive, TypeOK, PodTypeOK, Lease!ServiceTypeOK, Lease!Phases, Pod,
     Endpoint, Uid, Exists, Calls, Ensuring, Deleting, Returned, Unique, Referring, Mounts, Keys, Backend,
     Leftovers, EndpointPerLease, NoLeftoverPod, Up
<1>11. CASE PrepareSecret
  BY <1>a, <1>11 DEF PrepareSecret, SecretName, TypeOK, PodTypeOK, Lease!ServiceTypeOK, Lease!Phases, Pod,
     Endpoint, Uid, Exists, Calls, Ensuring, Deleting, Returned, Unique, Referring, Mounts, Keys, Backend,
     Leftovers, EndpointPerLease, NoLeftoverPod, Up
<1>12. CASE EnsureError
  BY <1>a, <1>12 DEF EnsureError, TypeOK, PodTypeOK, Lease!ServiceTypeOK, Lease!Phases, Pod, Endpoint, Uid,
     Exists, Calls, Ensuring, Deleting, Returned, Unique, Referring, Mounts, Keys, Backend, Leftovers,
     EndpointPerLease, NoLeftoverPod, Up
<1>13. CASE Delete
  <2>a. /\ UNCHANGED <<config, pvc, secrets, built, inflight, endpoint, seen>>
        /\ \/ pc = "delete" /\ pc' = "deletePoll"
           \/ pc = "delete" /\ pc' = "deleted" /\ ~Exists
        /\ pod' = pod \/ (Exists /\ pod' = [pod EXCEPT !.dying = TRUE])
    BY <1>13 DEF Delete, MarkDying
  <2>b. pod' \in Pod \cup {Absent} /\ (Exists => pod' \in Pod)
    BY <2>a DEF TypeOK, PodTypeOK, Exists, Pod
  <2>c. /\ Exists' = Exists
        /\ Exists => pod'.uid = pod.uid /\ pod'.ssh = pod.ssh /\ pod'.status = pod.status /\ pod'.mounted = pod.mounted
    BY <2>a, <2>b DEF TypeOK, PodTypeOK, Exists, Pod
  <2>1. TypeOK'
    BY <1>a, <2>a, <2>b, <2>c DEF TypeOK, PodTypeOK, Lease!ServiceTypeOK, Lease!Phases, Pod, Endpoint, Uid,
       Exists, Calls, Ensuring, Deleting, Returned, Unique, Referring
  <2>2. Calls'
    BY <1>a, <2>a, <2>b, <2>c DEF TypeOK, PodTypeOK, Pod, Endpoint, Uid, Exists, Calls, Ensuring, Deleting,
       Returned
  <2>3. Unique'
    BY <1>a, <2>a, <2>b, <2>c DEF TypeOK, PodTypeOK, Pod, Endpoint, Uid, Exists, Calls, Ensuring, Deleting,
       Returned, Unique, Referring
  <2>4. Mounts'
    BY <1>a, <2>a, <2>b, <2>c DEF TypeOK, PodTypeOK, Pod, Endpoint, Uid, Exists, Calls, Ensuring, Deleting,
       Returned, Unique, Referring, Mounts
  <2>5. Keys'
    BY <1>a, <2>a, <2>b, <2>c DEF TypeOK, PodTypeOK, Pod, Endpoint, Uid, Exists, Calls, Ensuring, Deleting,
       Returned, Unique, Referring, Mounts, Keys
  <2>6. Backend'
    BY <1>a, <2>a, <2>b, <2>c DEF TypeOK, PodTypeOK, Pod, Endpoint, Uid, Exists, Calls, Ensuring, Deleting,
       Returned, Unique, Referring, Mounts, Backend
  <2>7. (Leftovers /\ EndpointPerLease /\ NoLeftoverPod)'
    BY <1>a, <2>a, <2>b, <2>c DEF TypeOK, PodTypeOK, Pod, Endpoint, Uid, Exists, Calls, Ensuring, Deleting,
       Returned, Leftovers, EndpointPerLease, NoLeftoverPod, Up
  <2> QED BY <2>1, <2>2, <2>3, <2>4, <2>5, <2>6, <2>7
<1>14. CASE DeletePoll
  BY <1>a, <1>14 DEF DeletePoll, TypeOK, PodTypeOK, Lease!ServiceTypeOK, Lease!Phases, Pod, Endpoint, Uid,
     Exists, Calls, Ensuring, Deleting, Returned, Unique, Referring, Mounts, Keys, Backend, Leftovers,
     EndpointPerLease, NoLeftoverPod, Up
<1>15. CASE DeleteError
  <2>a. /\ UNCHANGED <<config, pvc, secrets, built, inflight, endpoint, seen>>
        /\ pc \in Deleting /\ pc' = "deleteFailed"
        /\ pod' = pod \/ (Exists /\ pod' = [pod EXCEPT !.dying = TRUE])
    BY <1>15 DEF DeleteError, MarkDying
  <2>b. pod' \in Pod \cup {Absent} /\ (Exists => pod' \in Pod)
    BY <2>a DEF TypeOK, PodTypeOK, Exists, Pod
  <2>c. /\ Exists' = Exists
        /\ Exists => pod'.uid = pod.uid /\ pod'.ssh = pod.ssh /\ pod'.status = pod.status /\ pod'.mounted = pod.mounted
    BY <2>a, <2>b DEF TypeOK, PodTypeOK, Exists, Pod
  <2>d. Exists => pod.uid \in lost'
    BY <1>15, Losing DEF Here
  <2>1. TypeOK'
    BY <1>a, <2>a, <2>b, <2>c, <2>d DEF TypeOK, PodTypeOK, Lease!ServiceTypeOK, Lease!Phases, Pod, Endpoint,
       Uid, Exists, Calls, Ensuring, Deleting, Returned, Unique, Referring
  <2>2. Calls'
    BY <1>a, <2>a, <2>b, <2>c, <2>d DEF TypeOK, PodTypeOK, Pod, Endpoint, Uid, Exists, Calls, Ensuring,
       Deleting, Returned
  <2>3. Unique'
    BY <1>a, <2>a, <2>b, <2>c, <2>d DEF TypeOK, PodTypeOK, Pod, Endpoint, Uid, Exists, Calls, Ensuring,
       Deleting, Returned, Unique, Referring
  <2>4. Mounts'
    BY <1>a, <2>a, <2>b, <2>c, <2>d DEF TypeOK, PodTypeOK, Pod, Endpoint, Uid, Exists, Calls, Ensuring,
       Deleting, Returned, Unique, Referring, Mounts
  <2>5. Keys'
    BY <1>a, <2>a, <2>b, <2>c, <2>d DEF TypeOK, PodTypeOK, Pod, Endpoint, Uid, Exists, Calls, Ensuring,
       Deleting, Returned, Unique, Referring, Mounts, Keys
  <2>6. Backend'
    BY <1>a, <2>a, <2>b, <2>c, <2>d DEF TypeOK, PodTypeOK, Pod, Endpoint, Uid, Exists, Calls, Ensuring,
       Deleting, Returned, Unique, Referring, Mounts, Backend
  <2>7. (Leftovers /\ EndpointPerLease /\ NoLeftoverPod)'
    BY <1>a, <2>a, <2>b, <2>c, <2>d DEF TypeOK, PodTypeOK, Pod, Endpoint, Uid, Exists, Calls, Ensuring,
       Deleting, Returned, Leftovers, EndpointPerLease, NoLeftoverPod, Up
  <2> QED BY <2>1, <2>2, <2>3, <2>4, <2>5, <2>6, <2>7
<1> QED BY <1>1, <1>2, <1>3, <1>4, <1>5, <1>6, <1>7, <1>8, <1>9, <1>10, <1>11, <1>12, <1>13, <1>14,
   <1>15 DEF Step, ManagerStep

(* The cluster keeps it.                                                    *)
LEMMA ClusterKeeps ==
    ASSUME IInv, Environment
    PROVE  IInv'
<1> USE DEF IInv, podVars, config, cluster, manager, Continue
<1>a. UNCHANGED <<phase, sessions, used, lost, crashes>>
  BY DEF Environment
<1>1. CASE PodStarts
  <2>a. /\ Exists /\ Exists' /\ pod' \in Pod
        /\ pod'.uid = pod.uid /\ pod'.ssh = pod.ssh /\ pod'.status = "ready"
        /\ pod'.mounted = IF pod.ssh THEN secrets[pod.uid] ELSE Absent
        /\ pod.ssh => secrets[pod.uid] # Absent
        /\ UNCHANGED <<config, pvc, secrets, built, inflight, manager>>
    BY <1>1 DEF PodStarts, Alive, SecretName, ClusterFrame, TypeOK, PodTypeOK, Exists, Pod
  <2>1. TypeOK'
    BY <1>a, <2>a DEF TypeOK, PodTypeOK, Lease!ServiceTypeOK, Lease!Phases, Pod, Endpoint, Uid, Exists, Calls,
       Ensuring, Deleting, Returned, Unique, Referring
  <2>2. Calls'
    BY <1>a, <2>a DEF TypeOK, PodTypeOK, Pod, Endpoint, Uid, Exists, Calls, Ensuring, Deleting, Returned
  <2>3. Unique'
    BY <1>a, <2>a DEF TypeOK, PodTypeOK, Pod, Endpoint, Uid, Exists, Calls, Ensuring, Deleting, Returned,
       Unique, Referring
  <2>4. Mounts'
    BY <1>a, <2>a DEF TypeOK, PodTypeOK, Pod, Endpoint, Uid, Exists, Calls, Ensuring, Deleting, Returned,
       Unique, Referring, Mounts
  <2>5. Keys'
    BY <1>a, <2>a DEF TypeOK, PodTypeOK, Pod, Endpoint, Uid, Exists, Calls, Ensuring, Deleting, Returned,
       Unique, Referring, Mounts, Keys
  <2>6. Backend'
    BY <1>a, <2>a DEF TypeOK, PodTypeOK, Pod, Endpoint, Uid, Exists, Calls, Ensuring, Deleting, Returned,
       Unique, Referring, Mounts, Backend
  <2>7. (Leftovers /\ EndpointPerLease /\ NoLeftoverPod)'
    BY <1>a, <2>a DEF TypeOK, PodTypeOK, Pod, Endpoint, Uid, Exists, Calls, Ensuring, Deleting, Returned,
       Leftovers, EndpointPerLease, NoLeftoverPod, Up
  <2> QED BY <2>1, <2>2, <2>3, <2>4, <2>5, <2>6, <2>7
<1>2. CASE PodEnds
  BY <1>a, <1>2 DEF PodEnds, ClusterFrame, TypeOK, PodTypeOK, Lease!ServiceTypeOK, Lease!Phases, Pod,
     Endpoint, Uid, Exists, Calls, Ensuring, Deleting, Returned, Unique, Referring, Mounts, Keys, Backend,
     Leftovers, EndpointPerLease, NoLeftoverPod, Up
<1>3. CASE ExternalDelete
  <2>a. /\ UNCHANGED <<config, pvc, secrets, built, inflight, endpoint, seen>>
        /\ pc' = pc
        /\ pod' = pod \/ (Exists /\ pod' = [pod EXCEPT !.dying = TRUE])
    BY <1>3 DEF ExternalDelete, Alive, ClusterFrame, MarkDying
  <2>b. pod' \in Pod \cup {Absent} /\ (Exists => pod' \in Pod)
    BY <2>a DEF TypeOK, PodTypeOK, Exists, Pod
  <2>c. /\ Exists' = Exists
        /\ Exists => pod'.uid = pod.uid /\ pod'.ssh = pod.ssh /\ pod'.status = pod.status /\ pod'.mounted = pod.mounted
    BY <2>a, <2>b DEF TypeOK, PodTypeOK, Exists, Pod
  <2>1. TypeOK'
    BY <1>a, <2>a, <2>b, <2>c DEF TypeOK, PodTypeOK, Lease!ServiceTypeOK, Lease!Phases, Pod, Endpoint, Uid,
       Exists, Calls, Ensuring, Deleting, Returned, Unique, Referring
  <2>2. Calls'
    BY <1>a, <2>a, <2>b, <2>c DEF TypeOK, PodTypeOK, Pod, Endpoint, Uid, Exists, Calls, Ensuring, Deleting,
       Returned
  <2>3. Unique'
    BY <1>a, <2>a, <2>b, <2>c DEF TypeOK, PodTypeOK, Pod, Endpoint, Uid, Exists, Calls, Ensuring, Deleting,
       Returned, Unique, Referring
  <2>4. Mounts'
    BY <1>a, <2>a, <2>b, <2>c DEF TypeOK, PodTypeOK, Pod, Endpoint, Uid, Exists, Calls, Ensuring, Deleting,
       Returned, Unique, Referring, Mounts
  <2>5. Keys'
    BY <1>a, <2>a, <2>b, <2>c DEF TypeOK, PodTypeOK, Pod, Endpoint, Uid, Exists, Calls, Ensuring, Deleting,
       Returned, Unique, Referring, Mounts, Keys
  <2>6. Backend'
    BY <1>a, <2>a, <2>b, <2>c DEF TypeOK, PodTypeOK, Pod, Endpoint, Uid, Exists, Calls, Ensuring, Deleting,
       Returned, Unique, Referring, Mounts, Backend
  <2>7. (Leftovers /\ EndpointPerLease /\ NoLeftoverPod)'
    BY <1>a, <2>a, <2>b, <2>c DEF TypeOK, PodTypeOK, Pod, Endpoint, Uid, Exists, Calls, Ensuring, Deleting,
       Returned, Leftovers, EndpointPerLease, NoLeftoverPod, Up
  <2> QED BY <2>1, <2>2, <2>3, <2>4, <2>5, <2>6, <2>7
<1>4. CASE PodGone
  BY <1>a, <1>4 DEF PodGone, ClusterFrame, TypeOK, PodTypeOK, Lease!ServiceTypeOK, Lease!Phases, Pod,
     Endpoint, Uid, Exists, Calls, Ensuring, Deleting, Returned, Unique, Referring, Mounts, Keys, Backend,
     Leftovers, EndpointPerLease, NoLeftoverPod, Up
<1>5. CASE LateCreate
  BY <1>a, <1>5 DEF LateCreate, ClusterFrame, TypeOK, PodTypeOK, Lease!ServiceTypeOK, Lease!Phases, Pod,
     Endpoint, Uid, Exists, Calls, Ensuring, Deleting, Returned, Unique, Referring, Mounts, Keys, Backend,
     Leftovers, EndpointPerLease, NoLeftoverPod, Up
<1>6. CASE ForeignSecret
  BY <1>a, <1>6 DEF ForeignSecret, SecretName, ClusterFrame, TypeOK, PodTypeOK, Lease!ServiceTypeOK,
     Lease!Phases, Pod, Endpoint, Uid, Exists, Calls, Ensuring, Deleting, Returned, Unique, Referring, Mounts,
     Keys, Backend, Leftovers, EndpointPerLease, NoLeftoverPod, Up
<1>7. ASSUME NEW n \in Uid, CollectSecret(n) PROVE IInv'
  BY <1>a, <1>7 DEF CollectSecret, ClusterFrame, TypeOK, PodTypeOK, Lease!ServiceTypeOK, Lease!Phases, Pod,
     Endpoint, Uid, Exists, Calls, Ensuring, Deleting, Returned, Unique, Referring, Mounts, Keys, Backend,
     Leftovers, EndpointPerLease, NoLeftoverPod, Up
<1> QED BY <1>1, <1>2, <1>3, <1>4, <1>5, <1>6, <1>7 DEF Environment, ClusterStep

(* The lease, and the death of the process, keep it.                        *)
LEMMA LeaseKeeps ==
    ASSUME IInv, Next, ~Step, ~Environment
    PROVE  IInv'
<1> USE DEF IInv, podVars, config, cluster, manager, Continue
<1>a. Here \subseteq Uid
  BY DEF Here, Exists, TypeOK, PodTypeOK, Pod
<1>1. CASE CallEnsure
  BY <1>a, <1>1 DEF CallEnsure, Lease!Start, BeginEnsure, TypeOK, PodTypeOK, Lease!ServiceTypeOK,
     Lease!Phases, Pod, Endpoint, Uid, Exists, Calls, Ensuring, Deleting, Returned, Unique, Referring, Mounts,
     Keys, Backend, Leftovers, EndpointPerLease, NoLeftoverPod, Up
<1>2. ASSUME NEW h \in Handler, EnsureReturns(h) PROVE IInv'
  BY <1>a, <1>2 DEF EnsureReturns, Return, Lease!Started, TypeOK, PodTypeOK, Lease!ServiceTypeOK,
     Lease!Phases, Pod, Endpoint, Uid, Exists, Calls, Ensuring, Deleting, Returned, Unique, Referring, Mounts,
     Keys, Backend, Leftovers, EndpointPerLease, NoLeftoverPod, Up
<1>3. CASE EnsureFails
  BY <1>a, <1>3 DEF EnsureFails, BeginDelete, Lease!StartFailed, TypeOK, PodTypeOK, Lease!ServiceTypeOK,
     Lease!Phases, Pod, Endpoint, Uid, Exists, Calls, Ensuring, Deleting, Returned, Unique, Referring, Mounts,
     Keys, Backend, Leftovers, EndpointPerLease, NoLeftoverPod, Up
<1>4. ASSUME NEW h \in Handler, Enter(h) PROVE IInv'
  BY <1>a, <1>4 DEF Enter, Lease!Enter, TypeOK, PodTypeOK, Lease!ServiceTypeOK, Lease!Phases, Pod, Endpoint,
     Uid, Exists, Calls, Ensuring, Deleting, Returned, Unique, Referring, Mounts, Keys, Backend, Leftovers,
     EndpointPerLease, NoLeftoverPod, Up
<1>5. ASSUME NEW h \in Handler, Leave(h) PROVE IInv'
  BY <1>a, <1>5 DEF Leave, Lease!Leave, BeginDelete, TypeOK, PodTypeOK, Lease!ServiceTypeOK, Lease!Phases,
     Pod, Endpoint, Uid, Exists, Calls, Ensuring, Deleting, Returned, Unique, Referring, Mounts, Keys,
     Backend, Leftovers, EndpointPerLease, NoLeftoverPod, Up
<1>6. CASE DeleteReturns
  BY <1>a, <1>6 DEF DeleteReturns, Return, Lease!Stopped, TypeOK, PodTypeOK, Lease!ServiceTypeOK,
     Lease!Phases, Pod, Endpoint, Uid, Exists, Calls, Ensuring, Deleting, Returned, Unique, Referring, Mounts,
     Keys, Backend, Leftovers, EndpointPerLease, NoLeftoverPod, Up
<1>7. CASE Crash
  <2>c. crashes' \in 0..MaxCrashes /\ seen' \in Uid
    BY <1>7 DEF Crash, TypeOK, Uid
  <2>a. /\ lost \subseteq lost' /\ lost' \subseteq Uid /\ (Exists => pod.uid \in lost')
        /\ directSSH' \in BOOLEAN /\ pc' = "idle" /\ endpoint' = Absent /\ UNCHANGED <<persistent, cluster,
           used>>
    BY <1>a, <1>7 DEF Crash, Here, TypeOK
  <2>b. /\ phase' \in [{PodName} -> Lease!Phases] /\ phase'[PodName] = "down"
        /\ sessions' \in [{PodName} -> SUBSET Handler]
    BY <1>7 DEF Crash, Lease!Phases
  <2>1. TypeOK'
    BY <2>a, <2>b, <2>c DEF TypeOK, PodTypeOK, Lease!ServiceTypeOK, Lease!Phases, Pod, Endpoint, Uid, Exists,
       Calls, Ensuring, Deleting, Returned, Unique, Referring
  <2>2. Calls'
    BY <2>a, <2>b, <2>c DEF TypeOK, PodTypeOK, Pod, Endpoint, Uid, Exists, Calls, Ensuring, Deleting, Returned
  <2>3. Unique'
    BY <2>a, <2>b, <2>c DEF TypeOK, PodTypeOK, Pod, Endpoint, Uid, Exists, Calls, Ensuring, Deleting,
       Returned, Unique, Referring
  <2>4. Mounts'
    BY <2>a, <2>b, <2>c DEF TypeOK, PodTypeOK, Pod, Endpoint, Uid, Exists, Calls, Ensuring, Deleting,
       Returned, Unique, Referring, Mounts
  <2>5. Keys'
    BY <2>a, <2>b, <2>c DEF TypeOK, PodTypeOK, Pod, Endpoint, Uid, Exists, Calls, Ensuring, Deleting,
       Returned, Unique, Referring, Mounts, Keys
  <2>6. Backend'
    BY <2>a, <2>b, <2>c DEF TypeOK, PodTypeOK, Pod, Endpoint, Uid, Exists, Calls, Ensuring, Deleting,
       Returned, Unique, Referring, Mounts, Backend
  <2>7. (Leftovers /\ EndpointPerLease /\ NoLeftoverPod)'
    BY <2>a, <2>b, <2>c DEF TypeOK, PodTypeOK, Pod, Endpoint, Uid, Exists, Calls, Ensuring, Deleting,
       Returned, Leftovers, EndpointPerLease, NoLeftoverPod, Up
  <2> QED BY <2>1, <2>2, <2>3, <2>4, <2>5, <2>6, <2>7
<1> QED BY <1>1, <1>2, <1>3, <1>4, <1>5, <1>6, <1>7 DEF Next

(* IInv is inductive, and so always holds.                                  *)
THEOREM SystemInvariant == Spec => []IInv
<1>1. IInv /\ [Next]_vars => IInv'
  <2> SUFFICES ASSUME IInv, [Next]_vars PROVE IInv'
    OBVIOUS
  <2>1. CASE UNCHANGED vars
    BY <2>1 DEF vars, IInv, podVars, config, cluster, manager, Continue, TypeOK, PodTypeOK,
       Lease!ServiceTypeOK, Lease!Phases, Pod, Endpoint, Uid, Exists, Calls, Ensuring, Deleting, Returned,
       Unique, Referring, Mounts, Keys, Backend, Leftovers, EndpointPerLease, NoLeftoverPod, Up
  <2> QED BY <2>1, ManagerKeeps, ClusterKeeps, LeaseKeeps
<1> QED BY <1>1, IInvInit, PTL DEF Spec

(* The state keeps its types.                                               *)
THEOREM SystemTypes == Spec => []TypeOK
BY SystemInvariant, PTL DEF IInv

(* An endpoint lives exactly as long as the lease it was prepared for.      *)
THEOREM SystemEndpoint == Spec => []EndpointPerLease
BY SystemInvariant, PTL DEF IInv

(* An endpoint never pairs a pod with the credentials of another.           *)
THEOREM SystemEndpointKeys == Spec => []EndpointOwnsItsKeys
<1>1. IInv => EndpointOwnsItsKeys
  BY DEF IInv, Mounts, Keys, EndpointOwnsItsKeys, Exists, TypeOK, PodTypeOK, Pod, Endpoint, Uid
<1> QED BY <1>1, SystemInvariant, PTL

(* No pod ever mounts the credentials of another pod.                       *)
THEOREM SystemOwnCredentials == Spec => []OwnCredentials
<1>1. IInv => OwnCredentials
  BY DEF IInv, Mounts, OwnCredentials, Exists, TypeOK, PodTypeOK, Pod
<1> QED BY <1>1, SystemInvariant, PTL

(* Without a lease a pod is left only by an error, a crash or a late Create. *)
THEOREM SystemLeavesNoPod == Spec => []NoLeftoverPod
BY SystemInvariant, PTL DEF IInv

(* Exec sessions do not start in a pod of the SSH backend.                  *)
THEOREM SystemBackends == Spec => BackendAgrees
<1>1. IInv /\ [Next]_vars => [WaitReady /\ pc' = "ensured" => ~pod.ssh \/ pod.mounted = Foreign]_vars
  BY DEF IInv, WaitReady, Continue, Mounts, Backend, Exists, TypeOK, PodTypeOK, Pod
<1> QED BY <1>1, SystemInvariant, PTL DEF Spec, BackendAgrees

(* A pod that served an earlier lease and is found by the next was left     *)
(* behind by a failure.                                                     *)
Served ==
    /\ \A u \in used : u <= built
    /\ phase[PodName] = "starting" /\ Exists /\ pod.uid \in used => pod.uid \in lost

(* Where the pod of the next state comes from.                              *)
LEMMA PodOrigin ==
    ASSUME IInv, [Next]_vars, Exists'
    PROVE  \/ Exists /\ pod'.uid = pod.uid
           \/ pod'.uid = built + 1
           \/ inflight # Absent /\ pod'.uid = inflight.uid
<1> USE DEF podVars, config, cluster, manager, Continue
<1>1. CASE Step
  BY <1>1 DEF Step, ManagerStep, PvcGet, PvcCreate, PodGet, PodCreate, PodCreateLost, CredentialsGet,
     SecretGet, SecretCreate, WaitReady, PrepareGet, PrepareSecret, EnsureError, Delete, DeletePoll,
     DeleteError, MarkDying, BuiltPod, Exists, IInv, TypeOK, PodTypeOK, Pod
<1>2. CASE Environment
  BY <1>2 DEF Environment, ClusterStep, PodStarts, PodEnds, ExternalDelete, PodGone, LateCreate,
     ForeignSecret, CollectSecret, MarkDying, Alive, Exists, IInv, TypeOK, PodTypeOK, Pod
<1>3. CASE ~Step /\ ~Environment
  <2>1. pod' = pod
    BY <1>3 DEF Next, CallEnsure, BeginEnsure, EnsureReturns, Return, EnsureFails, BeginDelete, Enter, Leave,
       DeleteReturns, Crash, vars
  <2> QED BY <2>1 DEF Exists
<1> QED BY <1>1, <1>2, <1>3

(* The counters only grow, and only sessions mark the pod as used.          *)
LEMMA Marks ==
    ASSUME IInv, [Next]_vars
    PROVE  /\ lost \subseteq lost' /\ built \in Nat /\ built' \in Nat /\ built <= built'
           /\ used' \subseteq used \cup Here
           /\ phase'[PodName] = "starting" => used' = used /\ phase[PodName] \in {"down", "starting"}
<1> USE DEF podVars, config, cluster, manager, Continue
<1>1. CASE Step
  <2>1. UNCHANGED <<phase, used>> /\ lost \subseteq lost'
    BY <1>1, Losing DEF Step
  <2>2. built \in Nat /\ (built' = built \/ built' = built + 1)
    BY <1>1 DEF Step, ManagerStep, PvcGet, PvcCreate, PodGet, PodCreate, PodCreateLost, CredentialsGet,
       SecretGet, SecretCreate, WaitReady, PrepareGet, PrepareSecret, EnsureError, Delete, DeletePoll,
       DeleteError, IInv, TypeOK, PodTypeOK
  <2> QED BY <2>1, <2>2
<1>2. CASE Environment
  <2>1. UNCHANGED <<phase, used, lost, built>>
    BY <1>2 DEF Environment, ClusterStep, PodStarts, PodEnds, ExternalDelete, PodGone, LateCreate,
       ForeignSecret, CollectSecret, ClusterFrame
  <2> QED BY <2>1 DEF IInv, TypeOK, PodTypeOK
<1>3. CASE ~Step /\ ~Environment
  <2>1. built' = built /\ built \in Nat /\ lost \subseteq lost' /\ used' \subseteq used \cup Here
    BY <1>3 DEF Next, CallEnsure, BeginEnsure, EnsureReturns, Return, EnsureFails, BeginDelete, Enter, Leave,
       DeleteReturns, Crash, vars, IInv, TypeOK, PodTypeOK
  <2>2. phase'[PodName] = "starting" => used' = used /\ phase[PodName] \in {"down", "starting"}
    BY <1>3 DEF Next, CallEnsure, EnsureReturns, EnsureFails, Enter, Leave, DeleteReturns, Crash, vars,
       Lease!Start, Lease!Started, Lease!StartFailed, Lease!Enter, Lease!Leave, Lease!Stopped, IInv, TypeOK,
       Lease!ServiceTypeOK
  <2> QED BY <2>1, <2>2
<1> QED BY <1>1, <1>2, <1>3

(* Served is kept: a new pod has a new uid, a late one is already lost.     *)
LEMMA ServedStep == IInv /\ Served /\ [Next]_vars => Served'
<1> SUFFICES ASSUME IInv, Served, [Next]_vars PROVE Served'
  OBVIOUS
<1>1. \A u \in Here : u <= built
  BY DEF Here, IInv, Unique
<1>2. \A u \in used' : u <= built'
  <2>1. \A u \in used \cup Here : u \in Nat
    BY DEF Here, Exists, IInv, TypeOK, PodTypeOK, Pod, Uid
  <2> QED BY <1>1, <2>1, Marks DEF Served
<1>3. ASSUME phase'[PodName] = "starting", Exists', pod'.uid \in used'
      PROVE  pod'.uid \in lost'
  <2>1. used' = used /\ phase[PodName] \in {"down", "starting"} /\ lost \subseteq lost' /\ built \in Nat
    BY <1>3, Marks
  <2>2. CASE Exists /\ pod'.uid = pod.uid
    BY <1>3, <2>1, <2>2 DEF Served, IInv, NoLeftoverPod
  <2>3. CASE inflight # Absent /\ pod'.uid = inflight.uid
    BY <2>1, <2>3 DEF IInv, Leftovers
  <2>4. pod'.uid # built + 1
    BY <1>3, <2>1 DEF Served
  <2> QED BY <1>3, <2>2, <2>3, <2>4, PodOrigin
<1> QED BY <1>2, <1>3 DEF Served

(* A lease starts in a used pod only if a failure left the pod behind.      *)
THEOREM SystemReuse == Spec => ReuseNeedsFailure
<1>1. Init => Served
  BY DEF Init, PodInit, Served, Exists
<1>2. IInv /\ Served /\ [Next]_vars =>
         [\A h \in Handler : EnsureReturns(h) => Here \cap used \subseteq lost]_vars
  BY DEF Served, EnsureReturns, Lease!Started, Here
<1> QED BY <1>1, <1>2, ServedStep, SystemInvariant, PTL DEF Spec, ReuseNeedsFailure

=============================================================================
