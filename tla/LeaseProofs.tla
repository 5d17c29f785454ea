----------------------------- MODULE LeaseProofs -----------------------------
(***************************************************************************)
(* Proofs about WorkspaceLease, for any number of handlers, pods and lease *)
(* objects.                                                                *)
(***************************************************************************)
EXTENDS WorkspaceLease, FiniteSetTheorems, TLAPS

(* The inductive invariant.                                                 *)

(* A slot is unused, or its handler works on a pod through a lease; it owns *)
(* an unused release function exactly while it holds the lease.             *)
SlotInv == \A h \in Handler :
    /\ pc[h] = "idle" => key[h] = Nil /\ ref[h] = Nil
    /\ pc[h] # "idle" => key[h] \in Key /\ ref[h] \in Lease
    /\ ~once[h] <=> pc[h] = "held"

(* The map is injective, and a lease in use is in the map.                  *)
MapInv ==
    /\ \A h \in Handler : pc[h] \in Using => workspaces[key[h]] = ref[h]
    /\ \A j, k \in Key : (workspaces[j] = workspaces[k] /\ workspaces[k] # Nil) => j = k

(* Both counters of a lease in the map are exact, and somebody uses it.     *)
CountInv == \A k \in Key : workspaces[k] # Nil =>
    /\ HandlersAt(k, Using) # {}
    /\ users[workspaces[k]] = Cardinality(HandlersAt(k, Using))
    /\ active[workspaces[k]] = Cardinality(HandlersAt(k, Counted))

(* The token of a lease is in its channel or with exactly one handler.      *)
GateInv ==
    /\ \A h \in Handler : pc[h] \in Gated => ~gate[ref[h]]
    /\ SerializedCalls

(* The backend's last call agrees with where the handlers of the pod are.   *)
CallInv ==
    /\ \A h \in Handler : pc[h] \in Counted => lastCall[key[h]] = "ensured"
    /\ \A g, h \in Handler :
          (pc[h] \in Gated \ {"gated"} /\ pc[g] \in Counted) => key[g] # key[h]
    /\ \A k \in Key :
          (\A h \in Handler : key[h] = k => pc[h] \notin Counted \cup {"setupCleanup", "lastCleanup"})
          => lastCall[k] \in {"none", "deleted", "deleteFailed"}

(* While the process stops, every handler's context is done.                *)
CancelInv == shutdown => \A h \in Handler : pc[h] # "idle" => cancelled[h]

IInv == TypeOK /\ SlotInv /\ MapInv /\ CountInv /\ GateInv /\ CallInv /\ CancelInv

-----------------------------------------------------------------------------
(* Counting handlers.                                                       *)

(* The handlers at a place are finitely many.                               *)
LEMMA HandlersAtFinite ==
    ASSUME NEW k, NEW P
    PROVE  /\ IsFiniteSet(HandlersAt(k, P))
           /\ Cardinality(HandlersAt(k, P)) \in Nat
<1>1. HandlersAt(k, P) \subseteq Handler
    BY DEF HandlersAt
<1>2. IsFiniteSet(HandlersAt(k, P))
    BY <1>1, HandlersFinite, FS_Subset
<1>. QED BY <1>2, FS_CardinalityType

(* When only handler h moves, a count changes by h arriving or leaving.     *)
LEMMA CountMoves ==
    ASSUME NEW h \in Handler, NEW CONSTANT k, NEW CONSTANT P,
           \A g \in Handler \ {h} : pc'[g] = pc[g] /\ key'[g] = key[g]
    PROVE  LET before == key[h] = k /\ pc[h] \in P
               after  == key'[h] = k /\ pc'[h] \in P
               c      == Cardinality(HandlersAt(k, P))
           IN  /\ (before <=> after) => HandlersAt(k, P)' = HandlersAt(k, P)
               /\ (~before /\ after) => Cardinality(HandlersAt(k, P))' = c + 1
               /\ (before /\ ~after) => Cardinality(HandlersAt(k, P))' = c - 1
<1>. DEFINE S == HandlersAt(k, P)
            T == HandlersAt(k, P)'
<1>1. IsFiniteSet(S)
    BY HandlersAtFinite
<1>2. CASE (key[h] = k /\ pc[h] \in P) <=> (key'[h] = k /\ pc'[h] \in P)
    BY <1>2 DEF HandlersAt
<1>3. CASE ~(key[h] = k /\ pc[h] \in P) /\ key'[h] = k /\ pc'[h] \in P
  <2>1. h \notin S /\ T = S \cup {h}
    BY <1>3 DEF HandlersAt
  <2>2. Cardinality(S \cup {h}) = Cardinality(S) + 1
    BY <1>1, <2>1, FS_AddElement
  <2>. QED BY <1>3, <2>1, <2>2
<1>4. CASE key[h] = k /\ pc[h] \in P /\ ~(key'[h] = k /\ pc'[h] \in P)
  <2>1. h \in S /\ T = S \ {h}
    BY <1>4 DEF HandlersAt
  <2>2. Cardinality(S \ {h}) = Cardinality(S) - 1
    BY <1>1, <2>1, FS_RemoveElement
  <2>. QED BY <1>4, <2>1, <2>2
<1>. QED BY <1>2, <1>3, <1>4

(* What the counters tell the handler that reads them: who else is there.   *)
LEMMA CountsTell ==
    ASSUME IInv, NEW h \in Handler, pc[h] \in Using
    PROVE  /\ active[ref[h]] = 0 <=>
                 \A g \in Handler : key[g] = key[h] => pc[g] \notin Counted
           /\ pc[h] \in Counted => (active[ref[h]] = 1 <=>
                 \A g \in Handler : (key[g] = key[h] /\ pc[g] \in Counted) => g = h)
           /\ users[ref[h]] = 1 <=>
                 \A g \in Handler : (key[g] = key[h] /\ pc[g] \in Using) => g = h
           /\ users[ref[h]] >= 1
<1>. DEFINE k == key[h]
            C == HandlersAt(k, Counted)
            U == HandlersAt(k, Using)
<1>1. /\ k \in Key /\ ref[h] \in Lease /\ workspaces[k] = ref[h] /\ ref[h] # Nil
      /\ users[ref[h]] = Cardinality(U)
      /\ active[ref[h]] = Cardinality(C)
  <2>1. pc[h] # "idle"
    BY DEF Using, Gated, Counted
  <2>2. k \in Key /\ ref[h] \in Lease /\ workspaces[k] = ref[h] /\ ref[h] # Nil
    BY <2>1, NilIsNoObject DEF IInv, SlotInv, MapInv
  <2>. QED BY <2>2 DEF IInv, CountInv
<1>2. IsFiniteSet(C) /\ IsFiniteSet(U) /\ Cardinality(U) \in Nat
    BY HandlersAtFinite
<1>3. Cardinality(C) = 0 <=> C = {}
    BY <1>2, FS_EmptySet
<1>4. Cardinality(U) = 0 <=> U = {}
    BY <1>2, FS_EmptySet
<1>5. Cardinality(C) = 1 <=> \E x : C = {x}
    BY <1>2, FS_Singleton
<1>6. Cardinality(U) = 1 <=> \E x : U = {x}
    BY <1>2, FS_Singleton
<1>7. \A g : g \in C <=> g \in Handler /\ key[g] = key[h] /\ pc[g] \in Counted
    BY DEF HandlersAt
<1>8. \A g : g \in U <=> g \in Handler /\ key[g] = key[h] /\ pc[g] \in Using
    BY DEF HandlersAt
<1>9. h \in U /\ (pc[h] \in Counted => h \in C)
    BY <1>7, <1>8
<1>10. (\E x : U = {x}) <=> \A g \in U : g = h
    BY <1>9
<1>11. pc[h] \in Counted => ((\E x : C = {x}) <=> \A g \in C : g = h)
    BY <1>9
<1>a. active[ref[h]] = 0 <=> \A g \in Handler : key[g] = key[h] => pc[g] \notin Counted
    BY <1>1, <1>3, <1>7
<1>b. pc[h] \in Counted => (active[ref[h]] = 1 <=>
          \A g \in Handler : (key[g] = key[h] /\ pc[g] \in Counted) => g = h)
    BY <1>1, <1>5, <1>7, <1>11
<1>c. users[ref[h]] = 1 <=>
          \A g \in Handler : (key[g] = key[h] /\ pc[g] \in Using) => g = h
    BY <1>1, <1>6, <1>8, <1>10
<1>d. users[ref[h]] >= 1
    BY <1>1, <1>2, <1>4, <1>9
<1>. QED BY <1>a, <1>b, <1>c, <1>d

-----------------------------------------------------------------------------
(* The inductive step.                                                      *)

(* A step that keeps h among the users of its lease, and counts h in or out *)
(* of active as h becomes or stops being a session, keeps the counters      *)
(* right.                                                                   *)
LEMMA CountsKept ==
    ASSUME IInv, NEW h \in Handler, pc[h] \in Using, pc'[h] \in Using,
           \A g \in Handler \ {h} : pc'[g] = pc[g],
           key' = key, workspaces' = workspaces, users' = users,
           \A l \in Lease \ {ref[h]} : active'[l] = active[l],
           active'[ref[h]] = active[ref[h]]
                               + (IF pc'[h] \in Counted THEN 1 ELSE 0)
                               - (IF pc[h] \in Counted THEN 1 ELSE 0)
    PROVE  CountInv'
<1>. SUFFICES ASSUME NEW k \in Key, workspaces[k] # Nil
              PROVE  /\ HandlersAt(k, Using)' # {}
                     /\ users[workspaces[k]] = Cardinality(HandlersAt(k, Using))'
                     /\ active'[workspaces[k]] = Cardinality(HandlersAt(k, Counted))'
    BY DEF CountInv
<1>1. /\ HandlersAt(k, Using) # {}
      /\ users[workspaces[k]] = Cardinality(HandlersAt(k, Using))
      /\ active[workspaces[k]] = Cardinality(HandlersAt(k, Counted))
    BY DEF IInv, CountInv
<1>2. HandlersAt(k, Using)' = HandlersAt(k, Using)
    BY DEF HandlersAt
<1>3. Cardinality(HandlersAt(k, Counted)) \in Nat
    BY HandlersAtFinite
<1>4. workspaces[k] \in Lease /\ (workspaces[k] = ref[h] <=> key[h] = k)
  <2>1. key[h] \in Key /\ workspaces[key[h]] = ref[h]
    BY DEF IInv, SlotInv, MapInv, Using, Gated, Counted
  <2>. QED BY <2>1 DEF IInv, TypeOK, MapInv
<1>5. LET before == key[h] = k /\ pc[h] \in Counted
          after  == key'[h] = k /\ pc'[h] \in Counted
          c      == Cardinality(HandlersAt(k, Counted))
      IN  /\ (before <=> after) => HandlersAt(k, Counted)' = HandlersAt(k, Counted)
          /\ (~before /\ after) => Cardinality(HandlersAt(k, Counted))' = c + 1
          /\ (before /\ ~after) => Cardinality(HandlersAt(k, Counted))' = c - 1
    BY CountMoves
<1>6. CASE key[h] = k
    BY <1>1, <1>2, <1>3, <1>4, <1>5, <1>6
<1>7. CASE key[h] # k
    BY <1>1, <1>2, <1>4, <1>5, <1>7
<1>. QED BY <1>6, <1>7

(* Handlers that use leases share one exactly when they want the same pod.  *)
LEMMA SameLease ==
    ASSUME IInv, NEW g \in Handler, NEW h \in Handler,
           pc[g] \in Using, pc[h] \in Using
    PROVE  ref[g] = ref[h] <=> key[g] = key[h]
<1>1. \A f \in {g, h} : key[f] \in Key /\ ref[f] # Nil /\ workspaces[key[f]] = ref[f]
    BY NilIsNoObject DEF IInv, SlotInv, MapInv, Using, Gated, Counted
<1>. QED BY <1>1 DEF IInv, MapInv

(* The token leaves the channel for exactly one handler.                    *)
LEMMA TakeGateStep ==
    ASSUME IInv, NEW h \in Handler, TakeGate(h)
    PROVE  IInv'
<1>. USE DEF TakeGate, Goto, leaseVars
<1>1. pc[h] \in Using /\ key[h] \in Key /\ ref[h] \in Lease
    BY DEF IInv, SlotInv, Using, Gated, Counted, PCs
<1>3. TypeOK'
    BY <1>1 DEF IInv, TypeOK, Calls, Using, Gated, Counted, PCs
<1>4. SlotInv'
    BY <1>1 DEF IInv, TypeOK, SlotInv, Using, Gated, Counted, PCs
<1>5. MapInv'
    BY <1>1 DEF IInv, TypeOK, MapInv, SlotInv, Using, Gated, Counted, PCs
<1>6. GateInv'
    BY <1>1, SameLease DEF IInv, TypeOK, GateInv, SerializedCalls, Using, Gated, Counted, PCs
<1>7. CallInv'
    BY <1>1 DEF IInv, TypeOK, SlotInv, GateInv, SerializedCalls, CallInv, Using, Gated, Counted, PCs
<1>8. CancelInv'
    BY <1>1 DEF IInv, TypeOK, CancelInv, Using, Gated, Counted, PCs
<1>9. CountInv'
    BY <1>1, CountsKept DEF IInv, TypeOK, Using, Gated, Counted, PCs
<1>. QED BY <1>3, <1>4, <1>5, <1>6, <1>7, <1>8, <1>9 DEF IInv

(* Giving up touches no lease.                                              *)
LEMMA GiveUpStep ==
    ASSUME IInv, NEW h \in Handler, GiveUp(h)
    PROVE  IInv'
<1>. USE DEF GiveUp, Goto, leaseVars
<1>1. pc[h] \in Using /\ key[h] \in Key /\ ref[h] \in Lease
    BY DEF IInv, SlotInv, Using, Gated, Counted, PCs
<1>3. TypeOK'
    BY <1>1 DEF IInv, TypeOK, Calls, Using, Gated, Counted, PCs
<1>4. SlotInv'
    BY <1>1 DEF IInv, TypeOK, SlotInv, Using, Gated, Counted, PCs
<1>5. MapInv'
    BY <1>1 DEF IInv, TypeOK, MapInv, SlotInv, Using, Gated, Counted, PCs
<1>6. GateInv'
    BY <1>1, SameLease DEF IInv, TypeOK, GateInv, SerializedCalls, Using, Gated, Counted, PCs
<1>7. CallInv'
    BY <1>1 DEF IInv, TypeOK, SlotInv, GateInv, SerializedCalls, CallInv, Using, Gated, Counted, PCs
<1>8. CancelInv'
    BY <1>1 DEF IInv, TypeOK, CancelInv, Using, Gated, Counted, PCs
<1>9. CountInv'
    BY <1>1, CountsKept DEF IInv, TypeOK, Using, Gated, Counted, PCs
<1>. QED BY <1>3, <1>4, <1>5, <1>6, <1>7, <1>8, <1>9 DEF IInv

(* A refused handler returns the token it took.                             *)
LEMMA RefuseStep ==
    ASSUME IInv, NEW h \in Handler, Refuse(h)
    PROVE  IInv'
<1>. USE DEF Refuse, ReturnGate, Goto, leaseVars
<1>1. pc[h] \in Using /\ key[h] \in Key /\ ref[h] \in Lease
    BY DEF IInv, SlotInv, Using, Gated, Counted, PCs
<1>3. TypeOK'
    BY <1>1 DEF IInv, TypeOK, Calls, Using, Gated, Counted, PCs
<1>4. SlotInv'
    BY <1>1 DEF IInv, TypeOK, SlotInv, Using, Gated, Counted, PCs
<1>5. MapInv'
    BY <1>1 DEF IInv, TypeOK, MapInv, SlotInv, Using, Gated, Counted, PCs
<1>6. GateInv'
    BY <1>1, SameLease DEF IInv, TypeOK, GateInv, SerializedCalls, Using, Gated, Counted, PCs
<1>7. CallInv'
    BY <1>1 DEF IInv, TypeOK, SlotInv, GateInv, SerializedCalls, CallInv, Using, Gated, Counted, PCs
<1>8. CancelInv'
    BY <1>1 DEF IInv, TypeOK, CancelInv, Using, Gated, Counted, PCs
<1>9. CountInv'
    BY <1>1, CountsKept DEF IInv, TypeOK, Using, Gated, Counted, PCs
<1>. QED BY <1>3, <1>4, <1>5, <1>6, <1>7, <1>8, <1>9 DEF IInv

(* active # 0: somebody is counted, so the pod is set up and stays so.      *)
LEMMA JoinStep ==
    ASSUME IInv, NEW h \in Handler, Join(h)
    PROVE  IInv'
<1>. USE DEF Join, Grant, ReturnGate, Goto, leaseVars
<1>1. pc[h] \in Using /\ key[h] \in Key /\ ref[h] \in Lease
    BY DEF IInv, SlotInv, Using, Gated, Counted, PCs
<1>2. ~\A g \in Handler : key[g] = key[h] => pc[g] \notin Counted
    BY <1>1, CountsTell
<1>3. TypeOK'
    BY <1>1, <1>2 DEF IInv, TypeOK, Calls, Using, Gated, Counted, PCs
<1>4. SlotInv'
    BY <1>1 DEF IInv, TypeOK, SlotInv, Using, Gated, Counted, PCs
<1>5. MapInv'
    BY <1>1 DEF IInv, TypeOK, MapInv, SlotInv, Using, Gated, Counted, PCs
<1>6. GateInv'
    BY <1>1, SameLease DEF IInv, TypeOK, GateInv, SerializedCalls, Using, Gated, Counted, PCs
<1>7. CallInv'
    BY <1>1, <1>2 DEF IInv, TypeOK, SlotInv, GateInv, SerializedCalls, CallInv, Using, Gated, Counted, PCs
<1>8. CancelInv'
    BY <1>1 DEF IInv, TypeOK, CancelInv, Using, Gated, Counted, PCs
<1>9. CountInv'
    BY <1>1, CountsKept DEF IInv, TypeOK, Using, Gated, Counted, PCs
<1>. QED BY <1>3, <1>4, <1>5, <1>6, <1>7, <1>8, <1>9 DEF IInv

(* active = 0: nobody is counted, so the setup meets no session.            *)
LEMMA ProvisionStep ==
    ASSUME IInv, NEW h \in Handler, Provision(h)
    PROVE  IInv'
<1>. USE DEF Provision, Goto, leaseVars
<1>1. pc[h] \in Using /\ key[h] \in Key /\ ref[h] \in Lease
    BY DEF IInv, SlotInv, Using, Gated, Counted, PCs
<1>2. \A g \in Handler : key[g] = key[h] => pc[g] \notin Counted
    BY <1>1, CountsTell
<1>3. TypeOK'
    BY <1>1, <1>2 DEF IInv, TypeOK, Calls, Using, Gated, Counted, PCs
<1>4. SlotInv'
    BY <1>1 DEF IInv, TypeOK, SlotInv, Using, Gated, Counted, PCs
<1>5. MapInv'
    BY <1>1 DEF IInv, TypeOK, MapInv, SlotInv, Using, Gated, Counted, PCs
<1>6. GateInv'
    BY <1>1, SameLease DEF IInv, TypeOK, GateInv, SerializedCalls, Using, Gated, Counted, PCs
<1>7. CallInv'
    BY <1>1, <1>2 DEF IInv, TypeOK, SlotInv, GateInv, SerializedCalls, CallInv, Using, Gated, Counted, PCs
<1>8. CancelInv'
    BY <1>1 DEF IInv, TypeOK, CancelInv, Using, Gated, Counted, PCs
<1>9. CountInv'
    BY <1>1, CountsKept DEF IInv, TypeOK, Using, Gated, Counted, PCs
<1>. QED BY <1>3, <1>4, <1>5, <1>6, <1>7, <1>8, <1>9 DEF IInv

(* The caller becomes the only session of the pod it set up.                *)
LEMMA EnsureOkStep ==
    ASSUME IInv, NEW h \in Handler, EnsureOk(h)
    PROVE  IInv'
<1>. USE DEF EnsureOk, Grant, ReturnGate, Goto, leaseVars
<1>1. pc[h] \in Using /\ key[h] \in Key /\ ref[h] \in Lease
    BY DEF IInv, SlotInv, Using, Gated, Counted, PCs
<1>3. TypeOK'
    BY <1>1 DEF IInv, TypeOK, Calls, Using, Gated, Counted, PCs
<1>4. SlotInv'
    BY <1>1 DEF IInv, TypeOK, SlotInv, Using, Gated, Counted, PCs
<1>5. MapInv'
    BY <1>1 DEF IInv, TypeOK, MapInv, SlotInv, Using, Gated, Counted, PCs
<1>6. GateInv'
    BY <1>1, SameLease DEF IInv, TypeOK, GateInv, SerializedCalls, Using, Gated, Counted, PCs
<1>7. CallInv'
    BY <1>1 DEF IInv, TypeOK, SlotInv, GateInv, SerializedCalls, CallInv, Using, Gated, Counted, PCs
<1>8. CancelInv'
    BY <1>1 DEF IInv, TypeOK, CancelInv, Using, Gated, Counted, PCs
<1>9. CountInv'
    BY <1>1, CountsKept DEF IInv, TypeOK, Using, Gated, Counted, PCs
<1>. QED BY <1>3, <1>4, <1>5, <1>6, <1>7, <1>8, <1>9 DEF IInv

(* The token stays with the handler for the cleanup.                        *)
LEMMA EnsureFailStep ==
    ASSUME IInv, NEW h \in Handler, EnsureFail(h)
    PROVE  IInv'
<1>. USE DEF EnsureFail, Goto, leaseVars
<1>1. pc[h] \in Using /\ key[h] \in Key /\ ref[h] \in Lease
    BY DEF IInv, SlotInv, Using, Gated, Counted, PCs
<1>3. TypeOK'
    BY <1>1 DEF IInv, TypeOK, Calls, Using, Gated, Counted, PCs
<1>4. SlotInv'
    BY <1>1 DEF IInv, TypeOK, SlotInv, Using, Gated, Counted, PCs
<1>5. MapInv'
    BY <1>1 DEF IInv, TypeOK, MapInv, SlotInv, Using, Gated, Counted, PCs
<1>6. GateInv'
    BY <1>1, SameLease DEF IInv, TypeOK, GateInv, SerializedCalls, Using, Gated, Counted, PCs
<1>7. CallInv'
    BY <1>1 DEF IInv, TypeOK, SlotInv, GateInv, SerializedCalls, CallInv, Using, Gated, Counted, PCs
<1>8. CancelInv'
    BY <1>1 DEF IInv, TypeOK, CancelInv, Using, Gated, Counted, PCs
<1>9. CountInv'
    BY <1>1, CountsKept DEF IInv, TypeOK, Using, Gated, Counted, PCs
<1>. QED BY <1>3, <1>4, <1>5, <1>6, <1>7, <1>8, <1>9 DEF IInv

(* Nobody is counted during a cleanup, so none loses its pod.               *)
LEMMA CleanupDoneStep ==
    ASSUME IInv, NEW h \in Handler, NEW ok \in BOOLEAN, CleanupDone(h, ok)
    PROVE  IInv'
<1>. USE DEF CleanupDone, ReturnGate, Goto, leaseVars
<1>1. pc[h] \in Using /\ key[h] \in Key /\ ref[h] \in Lease
    BY DEF IInv, SlotInv, Using, Gated, Counted, PCs
<1>3. TypeOK'
    BY <1>1 DEF IInv, TypeOK, Calls, Using, Gated, Counted, PCs
<1>4. SlotInv'
    BY <1>1 DEF IInv, TypeOK, SlotInv, Using, Gated, Counted, PCs
<1>5. MapInv'
    BY <1>1 DEF IInv, TypeOK, MapInv, SlotInv, Using, Gated, Counted, PCs
<1>6. GateInv'
    BY <1>1, SameLease DEF IInv, TypeOK, GateInv, SerializedCalls, Using, Gated, Counted, PCs
<1>7. CallInv'
    BY <1>1 DEF IInv, TypeOK, SlotInv, GateInv, SerializedCalls, CallInv, Using, Gated, Counted, PCs
<1>8. CancelInv'
    BY <1>1 DEF IInv, TypeOK, CancelInv, Using, Gated, Counted, PCs
<1>9. CountInv'
    BY <1>1, CountsKept DEF IInv, TypeOK, Using, Gated, Counted, PCs
<1>. QED BY <1>3, <1>4, <1>5, <1>6, <1>7, <1>8, <1>9 DEF IInv

(* The release function is used up; active still counts the handler.        *)
LEMMA CallReleaseStep ==
    ASSUME IInv, NEW h \in Handler, CallRelease(h)
    PROVE  IInv'
<1>. USE DEF CallRelease, Goto, leaseVars
<1>1. pc[h] \in Using /\ key[h] \in Key /\ ref[h] \in Lease
    BY DEF IInv, SlotInv, Using, Gated, Counted, PCs
<1>3. TypeOK'
    BY <1>1 DEF IInv, TypeOK, Calls, Using, Gated, Counted, PCs
<1>4. SlotInv'
    BY <1>1 DEF IInv, TypeOK, SlotInv, Using, Gated, Counted, PCs
<1>5. MapInv'
    BY <1>1 DEF IInv, TypeOK, MapInv, SlotInv, Using, Gated, Counted, PCs
<1>6. GateInv'
    BY <1>1, SameLease DEF IInv, TypeOK, GateInv, SerializedCalls, Using, Gated, Counted, PCs
<1>7. CallInv'
    BY <1>1 DEF IInv, TypeOK, SlotInv, GateInv, SerializedCalls, CallInv, Using, Gated, Counted, PCs
<1>8. CancelInv'
    BY <1>1 DEF IInv, TypeOK, CancelInv, Using, Gated, Counted, PCs
<1>9. CountInv'
    BY <1>1, CountsKept DEF IInv, TypeOK, Using, Gated, Counted, PCs
<1>. QED BY <1>3, <1>4, <1>5, <1>6, <1>7, <1>8, <1>9 DEF IInv

(* active = 1 means that the handler is the last session.                   *)
LEMMA ReleaseGateStep ==
    ASSUME IInv, NEW h \in Handler, ReleaseGate(h)
    PROVE  IInv'
<1>. USE DEF ReleaseGate, Goto, leaseVars
<1>1. pc[h] \in Using /\ key[h] \in Key /\ ref[h] \in Lease
    BY DEF IInv, SlotInv, Using, Gated, Counted, PCs
<1>2. /\ active[ref[h]] # 0 /\ active[ref[h]] - 1 \in Nat
      /\ active[ref[h]] = 1 <=>
           \A g \in Handler : (key[g] = key[h] /\ pc[g] \in Counted) => g = h
    BY <1>1, CountsTell DEF IInv, TypeOK, Counted
<1>3. TypeOK'
    BY <1>1, <1>2 DEF IInv, TypeOK, Calls, Using, Gated, Counted, PCs
<1>4. SlotInv'
    BY <1>1 DEF IInv, TypeOK, SlotInv, Using, Gated, Counted, PCs
<1>5. MapInv'
    BY <1>1 DEF IInv, TypeOK, MapInv, SlotInv, Using, Gated, Counted, PCs
<1>6. GateInv'
  <2>1. \A g \in Handler : pc[g] \in Gated => key[g] # key[h] /\ ref[g] # ref[h]
    BY <1>1, SameLease DEF IInv, GateInv, Using
  <2>2. \A g \in Handler : pc'[g] \in Gated => ~gate'[ref'[g]]
    <3>1. CASE active[ref[h]] = 1
      BY <1>1, <2>1, <3>1 DEF IInv, TypeOK, SlotInv, GateInv, Gated
    <3>2. CASE active[ref[h]] # 1
      BY <1>1, <2>1, <3>2 DEF IInv, TypeOK, GateInv, Gated
    <3>. QED BY <3>1, <3>2
  <2>3. SerializedCalls'
    BY <1>1, <2>1 DEF IInv, TypeOK, GateInv, SerializedCalls, Gated
  <2>. QED BY <2>2, <2>3 DEF GateInv
<1>7. CallInv'
    BY <1>1, <1>2 DEF IInv, TypeOK, SlotInv, GateInv, SerializedCalls, CallInv, Using, Gated, Counted, PCs
<1>8. CancelInv'
    BY <1>1 DEF IInv, TypeOK, CancelInv, Using, Gated, Counted, PCs
<1>9. CountInv'
    BY <1>1, CountsKept DEF IInv, TypeOK, Using, Gated, Counted, PCs
<1>. QED BY <1>3, <1>4, <1>5, <1>6, <1>7, <1>8, <1>9 DEF IInv

(* users = 1: nobody else uses the lease, so the entry may go.              *)
LEMMA DropStep ==
    ASSUME IInv, NEW h \in Handler, Drop(h)
    PROVE  IInv'
<1>. USE DEF Drop, Goto
<1>1. /\ pc[h] \in Using /\ key[h] \in Key /\ ref[h] \in Lease /\ ref[h] # Nil
      /\ workspaces[key[h]] = ref[h]
    BY NilIsNoObject DEF IInv, SlotInv, MapInv, Using, Gated, Counted
<1>2. /\ users[ref[h]] = 1 <=>
           \A g \in Handler : (key[g] = key[h] /\ pc[g] \in Using) => g = h
      /\ users[ref[h]] >= 1
    BY <1>1, CountsTell
<1>3. TypeOK'
    BY <1>1, <1>2 DEF IInv, TypeOK, Using, Gated, Counted, PCs
<1>4. SlotInv'
    BY <1>1 DEF IInv, TypeOK, SlotInv
<1>5. MapInv'
    BY <1>1, <1>2 DEF IInv, TypeOK, MapInv, SlotInv, Using, Gated, Counted
<1>6. GateInv'
    BY DEF IInv, TypeOK, GateInv, SerializedCalls, Gated
<1>7. CallInv'
    BY DEF IInv, TypeOK, CallInv, Gated, Counted
<1>8. CancelInv'
    BY DEF IInv, TypeOK, CancelInv
<1>9. CountInv'
  <2>. SUFFICES ASSUME NEW k \in Key, workspaces'[k] # Nil
                PROVE  /\ HandlersAt(k, Using)' # {}
                       /\ users'[workspaces'[k]] = Cardinality(HandlersAt(k, Using))'
                       /\ active[workspaces'[k]] = Cardinality(HandlersAt(k, Counted))'
    BY DEF CountInv
  <2>1. /\ workspaces'[k] = workspaces[k] /\ workspaces[k] \in Lease
        /\ workspaces[k] = ref[h] <=> key[h] = k
    BY <1>1 DEF IInv, TypeOK, MapInv
  <2>2. /\ HandlersAt(k, Using) # {}
        /\ users[workspaces[k]] = Cardinality(HandlersAt(k, Using))
        /\ active[workspaces[k]] = Cardinality(HandlersAt(k, Counted))
    BY <2>1 DEF IInv, CountInv
  <2>3. HandlersAt(k, Counted)' = HandlersAt(k, Counted)
    BY DEF IInv, TypeOK, HandlersAt, Counted
  <2>4. CASE key[h] # k
    <3>1. HandlersAt(k, Using)' = HandlersAt(k, Using)
      BY <2>4 DEF IInv, TypeOK, HandlersAt
    <3>. QED BY <1>1, <2>1, <2>2, <2>3, <2>4, <3>1 DEF IInv, TypeOK
  <2>5. CASE key[h] = k
    <3>1. users[ref[h]] # 1
      BY <1>1, <2>1, <2>5 DEF IInv, TypeOK
    <3>2. PICK g \in Handler : key[g] = k /\ pc[g] \in Using /\ g # h
      BY <1>2, <2>5, <3>1
    <3>3. g \in HandlersAt(k, Using)'
      BY <3>2 DEF IInv, TypeOK, HandlersAt
    <3>4. \A f \in Handler \ {h} : pc'[f] = pc[f] /\ key'[f] = key[f]
      BY DEF IInv, TypeOK
    <3>5. Cardinality(HandlersAt(k, Using))' = Cardinality(HandlersAt(k, Using)) - 1
      BY <1>1, <2>5, <3>4, CountMoves DEF IInv, TypeOK, Using, Gated, Counted
    <3>. QED BY <1>1, <2>1, <2>2, <2>3, <2>5, <3>3, <3>5 DEF IInv, TypeOK
  <2>. QED BY <2>4, <2>5
<1>. QED BY <1>3, <1>4, <1>5, <1>6, <1>7, <1>8, <1>9 DEF IInv

(* A caller either joins the lease in the map or puts a fresh one there.    *)
LEMMA LookupStep ==
    ASSUME IInv, NEW h \in Handler, NEW k \in Key, Lookup(h, k)
    PROVE  IInv'
<1>. USE DEF Lookup, Goto
<1>1. /\ pc[h] = "idle" /\ pc'[h] = "wait" /\ key'[h] = k
      /\ \A g \in Handler \ {h} : pc'[g] = pc[g] /\ key'[g] = key[g] /\ ref'[g] = ref[g]
    BY DEF IInv, TypeOK
<1>2. workspaces'[k] = ref'[h] /\ ref'[h] \in Lease
    BY DEF IInv, TypeOK
<1>3. \A j \in Key \ {k} : workspaces'[j] = workspaces[j] /\ workspaces[j] # ref'[h]
    BY NilIsNoObject DEF IInv, TypeOK, MapInv
<1>4. TypeOK'
  <2>1. /\ pc' \in [Handler -> PCs] /\ key' \in [Handler -> Key \cup {Nil}]
        /\ once' \in [Handler -> BOOLEAN] /\ cancelled' \in [Handler -> BOOLEAN]
        /\ lastCall' \in [Key -> Calls] /\ shutdown' \in BOOLEAN
    BY DEF IInv, TypeOK, PCs, Using
  <2>2. CASE workspaces[k] # Nil
    BY <2>1, <2>2 DEF IInv, TypeOK
  <2>3. CASE workspaces[k] = Nil
    <3>1. PICK l \in Lease : /\ ref' = [ref EXCEPT ![h] = l]
                             /\ workspaces' = [workspaces EXCEPT ![k] = l]
                             /\ users' = [users EXCEPT ![l] = 1]
                             /\ active' = [active EXCEPT ![l] = 0]
                             /\ gate' = [gate EXCEPT ![l] = TRUE]
      BY <2>3
    <3>. QED BY <2>1, <3>1 DEF IInv, TypeOK
  <2>. QED BY <2>2, <2>3
<1>5. SlotInv'
    BY <1>1, <1>2 DEF IInv, TypeOK, SlotInv
<1>6. MapInv'
  <2>1. workspaces[k] = Nil => \A g \in Handler : pc[g] \in Using => key[g] # k
    BY NilIsNoObject DEF IInv, SlotInv, MapInv, Using, Gated, Counted
  <2>2. workspaces[k] # Nil => workspaces' = workspaces
    OBVIOUS
  <2>3. ASSUME NEW g \in Handler, pc'[g] \in Using
        PROVE  workspaces'[key'[g]] = ref'[g]
    <3>1. CASE g = h
      BY <1>1, <1>2, <3>1
    <3>2. CASE g # h
      <4>1. key[g] \in Key /\ workspaces[key[g]] = ref[g]
        BY <1>1, <2>3, <3>2 DEF IInv, SlotInv, MapInv, Using, Gated, Counted
      <4>. QED BY <1>1, <1>3, <2>1, <2>2, <2>3, <3>2, <4>1
    <3>. QED BY <3>1, <3>2
  <2>4. \A i, j \in Key : (workspaces'[i] = workspaces'[j] /\ workspaces'[j] # Nil) => i = j
    BY <1>2, <1>3 DEF IInv, MapInv
  <2>. QED BY <2>3, <2>4 DEF MapInv
<1>7. GateInv'
  <2>1. \A g \in Handler : pc[g] \in Gated => g # h /\ gate'[ref[g]] = gate[ref[g]]
    BY <1>1 DEF IInv, TypeOK, SlotInv, Gated
  <2>. QED BY <1>1, <2>1 DEF IInv, GateInv, SerializedCalls, Gated
<1>8. CallInv'
  <2>1. key[h] = Nil /\ \A j \in Key : j # Nil
    BY NilIsNoObject DEF IInv, SlotInv
  <2>2. \A g \in Handler : pc'[g] \in Counted \cup (Gated \ {"gated"}) => g # h
    BY <1>1 DEF Gated, Counted
  <2>. QED BY <1>1, <2>1, <2>2 DEF IInv, CallInv, Gated, Counted
<1>9. CancelInv'
    BY <1>1 DEF IInv, TypeOK, CancelInv
<1>10. CountInv'
  <2>. SUFFICES ASSUME NEW j \in Key, workspaces'[j] # Nil
                PROVE  /\ HandlersAt(j, Using)' # {}
                       /\ users'[workspaces'[j]] = Cardinality(HandlersAt(j, Using))'
                       /\ active'[workspaces'[j]] = Cardinality(HandlersAt(j, Counted))'
    BY DEF CountInv
  <2>1. HandlersAt(j, Counted)' = HandlersAt(j, Counted)
    BY <1>1 DEF HandlersAt, Counted
  <2>2. CASE j # k
    <3>1. HandlersAt(j, Using)' = HandlersAt(j, Using)
      BY <1>1, <2>2 DEF IInv, SlotInv, HandlersAt, Using, Gated, Counted
    <3>2. /\ workspaces'[j] = workspaces[j] /\ workspaces[j] \in Lease
          /\ users'[workspaces[j]] = users[workspaces[j]]
          /\ active'[workspaces[j]] = active[workspaces[j]]
      BY <1>3, <2>2 DEF IInv, TypeOK
    <3>. QED BY <2>1, <3>1, <3>2 DEF IInv, CountInv
  <2>3. CASE j = k
    <3>1. h \in HandlersAt(j, Using)' /\ h \notin HandlersAt(j, Using)
      BY <1>1, <2>3 DEF HandlersAt, Using, Gated, Counted
    <3>2. Cardinality(HandlersAt(j, Using))' = Cardinality(HandlersAt(j, Using)) + 1
      BY <1>1, <2>3, CountMoves DEF Using, Gated, Counted
    <3>3. CASE workspaces[k] # Nil
      BY <2>1, <2>3, <3>1, <3>2, <3>3 DEF IInv, TypeOK, CountInv
    <3>4. CASE workspaces[k] = Nil
      <4>1. HandlersAt(k, Using) = {} /\ HandlersAt(k, Counted) = {}
        BY <3>4, NilIsNoObject
        DEF IInv, SlotInv, MapInv, HandlersAt, Using, Gated, Counted
      <4>2. users'[workspaces'[k]] = 1 /\ active'[workspaces'[k]] = 0
        BY <1>2, <3>4 DEF IInv, TypeOK
      <4>. QED BY <2>1, <2>3, <3>1, <3>2, <4>1, <4>2, FS_EmptySet
    <3>. QED BY <3>3, <3>4
  <2>. QED BY <2>2, <2>3
<1>. QED BY <1>4, <1>5, <1>6, <1>7, <1>8, <1>9, <1>10 DEF IInv

(* The handler that returns was no user of its lease any more.              *)
LEMMA ExitStep ==
    ASSUME IInv, NEW h \in Handler, Exit(h)
    PROVE  IInv'
<1>. USE DEF Exit, Goto, leaseVars
<1>1. /\ pc[h] = "exit" /\ pc'[h] = "idle" /\ key'[h] = Nil /\ ref'[h] = Nil
      /\ \A g \in Handler \ {h} : pc'[g] = pc[g] /\ key'[g] = key[g] /\ ref'[g] = ref[g]
    BY DEF IInv, TypeOK
<1>2. TypeOK'
    BY DEF IInv, TypeOK, PCs
<1>3. SlotInv'
    BY <1>1 DEF IInv, TypeOK, SlotInv
<1>4. MapInv'
    BY <1>1 DEF IInv, MapInv, Using, Gated, Counted
<1>5. GateInv'
    BY <1>1 DEF IInv, GateInv, SerializedCalls, Gated
<1>6. CallInv'
    BY <1>1, NilIsNoObject DEF IInv, CallInv, Gated, Counted
<1>7. CancelInv'
    BY <1>1 DEF IInv, TypeOK, CancelInv
<1>8. CountInv'
  <2>1. \A k \in Key : /\ HandlersAt(k, Using)' = HandlersAt(k, Using)
                       /\ HandlersAt(k, Counted)' = HandlersAt(k, Counted)
    BY <1>1 DEF HandlersAt, Using, Gated, Counted
  <2>. QED BY <2>1 DEF IInv, CountInv
<1>. QED BY <1>2, <1>3, <1>4, <1>5, <1>6, <1>7, <1>8 DEF IInv

(* Cancellation alone moves nobody.                                         *)
LEMMA CancelStep ==
    ASSUME IInv, UNCHANGED <<pc, key, ref, once, leaseVars, lastCall>>,
           cancelled' \in [Handler -> BOOLEAN], shutdown' \in BOOLEAN, CancelInv'
    PROVE  IInv'
<1>1. TypeOK' /\ SlotInv'
    BY DEF IInv, TypeOK, SlotInv, leaseVars
<1>2. MapInv' /\ CountInv'
    BY DEF IInv, MapInv, CountInv, HandlersAt, leaseVars
<1>3. GateInv' /\ CallInv'
    BY DEF IInv, GateInv, CallInv, SerializedCalls, leaseVars
<1>. QED BY <1>1, <1>2, <1>3 DEF IInv

(* The invariant holds at first.                                            *)
LEMMA IInvInit == Init => IInv
<1>. SUFFICES ASSUME Init PROVE IInv
    OBVIOUS
<1>. USE DEF Init
<1>1. TypeOK
    BY DEF TypeOK, PCs, Calls
<1>2. SlotInv /\ CancelInv
    BY DEF SlotInv, CancelInv
<1>3. MapInv /\ CountInv
    BY DEF MapInv, CountInv, Using, Gated, Counted
<1>4. GateInv /\ CallInv
    BY DEF GateInv, SerializedCalls, CallInv, Gated, Counted
<1>. QED BY <1>1, <1>2, <1>3, <1>4 DEF IInv

(* Every step of any handler, and the shutdown, keeps the invariant.        *)
LEMMA IInvStep == IInv /\ [Next]_vars => IInv'
<1>. SUFFICES ASSUME IInv, [Next]_vars PROVE IInv'
    OBVIOUS
<1>1. ASSUME NEW h \in Handler, HandlerStep(h) PROVE IInv'
  <2>1. CASE Cancel(h)
    <3>1. CancelInv' /\ cancelled' \in [Handler -> BOOLEAN]
      BY <2>1 DEF Cancel, IInv, TypeOK, CancelInv
    <3>. QED BY <2>1, <3>1, CancelStep DEF Cancel, IInv, TypeOK
  <2>. QED
    BY <1>1, <2>1, LookupStep, TakeGateStep, GiveUpStep, RefuseStep, JoinStep,
       ProvisionStep, EnsureOkStep, EnsureFailStep, CleanupDoneStep, DropStep,
       CallReleaseStep, ReleaseGateStep, ExitStep
    DEF HandlerStep
<1>2. CASE Shutdown
  <2>1. CancelInv' /\ cancelled' \in [Handler -> BOOLEAN]
    BY <1>2 DEF Shutdown, CancelInv
  <2>. QED BY <1>2, <2>1, CancelStep DEF Shutdown
<1>3. CASE UNCHANGED vars
  <2>1. CancelInv' /\ cancelled' \in [Handler -> BOOLEAN] /\ shutdown' \in BOOLEAN
    BY <1>3 DEF IInv, TypeOK, CancelInv, vars, handlerVars
  <2>. QED BY <1>3, <2>1, CancelStep DEF vars, handlerVars
<1>. QED BY <1>1, <1>2, <1>3 DEF Next

(* The invariant holds of every behaviour; so do its parts.                 *)
THEOREM LeaseInvariant == Safety => []IInv
<1>. QED BY IInvInit, IInvStep, PTL DEF Safety

(* Type correctness of the leases.                                          *)
THEOREM LeaseTypes == Safety => []TypeOK
<1>1. IInv => TypeOK
    BY DEF IInv
<1>. QED BY <1>1, LeaseInvariant, PTL

(* Backend calls for one pod never overlap.                                 *)
THEOREM LeaseSerializes == Safety => []SerializedCalls
<1>1. IInv => SerializedCalls
    BY DEF IInv, GateInv
<1>. QED BY <1>1, LeaseInvariant, PTL

(* The counters are the handlers they stand for, and all handlers of a pod  *)
(* use the lease in the map.                                                *)
THEOREM LeaseAgrees == Safety => []LeaseAgreement
<1>1. IInv => LeaseAgreement
    BY DEF IInv, MapInv, CountInv, LeaseAgreement
<1>. QED BY <1>1, LeaseInvariant, PTL

(* No session loses its pod to another handler's cleanup.                   *)
THEOREM LeaseKeepsSessions == Safety => []SessionsKeepWorkspace
<1>1. IInv => SessionsKeepWorkspace
    BY DEF IInv, CallInv, SessionsKeepWorkspace, HandlersAt
<1>. QED BY <1>1, LeaseInvariant, PTL

(* A pod nobody uses has no lease and was handed to DeletePod last.         *)
THEOREM LeaseAbandonsNothing == Safety => []NoAbandonedPod
<1>1. ASSUME IInv PROVE NoAbandonedPod
  <2>. SUFFICES ASSUME NEW k \in Key, HandlersAt(k, Using) = {}
                PROVE  /\ workspaces[k] = Nil
                       /\ lastCall[k] \in {"none", "deleted", "deleteFailed"}
    BY DEF NoAbandonedPod
  <2>1. workspaces[k] = Nil
    BY <1>1 DEF IInv, CountInv
  <2>2. \A h \in Handler : key[h] = k => pc[h] \notin Counted \cup {"setupCleanup", "lastCleanup"}
    BY DEF HandlersAt, Using, Gated
  <2>. QED BY <1>1, <2>1, <2>2 DEF IInv, CallInv
<1>. QED BY <1>1, LeaseInvariant, PTL

-----------------------------------------------------------------------------
(* The token is never lost: a lease in the map that has none in its channel *)
(* has a handler that took it and is yet to give it back.                   *)
TokenInv == \A k \in Key : workspaces[k] # Nil /\ ~gate[workspaces[k]] =>
                \E g \in Handler : ref[g] = workspaces[k] /\ pc[g] \in Gated

(* A step that creates no lease moves at most h: a holder other than h      *)
(* stays one, and h answers for the lease it uses itself.                   *)
LEMMA TokenMoves ==
    ASSUME TypeOK, TokenInv, NEW h \in Handler,
           \A g \in Handler \ {h} : pc'[g] = pc[g] /\ ref'[g] = ref[g],
           \A k \in Key : workspaces'[k] \in {workspaces[k], Nil},
           \A l \in Lease \ {ref[h]} : gate'[l] = gate[l],
           (ref[h] \in Lease /\ ~gate'[ref[h]]) =>
              (pc'[h] \in Gated /\ ref'[h] = ref[h]) \/ (pc[h] \notin Gated /\ ~gate[ref[h]])
    PROVE  TokenInv'
<1>. SUFFICES ASSUME NEW k \in Key, workspaces'[k] # Nil, ~gate'[workspaces'[k]]
              PROVE  \E g \in Handler : ref'[g] = workspaces'[k] /\ pc'[g] \in Gated
    BY DEF TokenInv
<1>1. workspaces'[k] = workspaces[k] /\ workspaces[k] \in Lease
    BY DEF TypeOK
<1>2. CASE workspaces[k] # ref[h]
  <2>1. PICK g \in Handler : ref[g] = workspaces[k] /\ pc[g] \in Gated
    BY <1>1, <1>2 DEF TokenInv
  <2>. QED BY <1>1, <1>2, <2>1
<1>3. CASE workspaces[k] = ref[h] /\ pc'[h] \in Gated /\ ref'[h] = ref[h]
    BY <1>1, <1>3
<1>4. CASE workspaces[k] = ref[h] /\ pc[h] \notin Gated /\ ~gate[ref[h]]
  <2>1. PICK g \in Handler : ref[g] = workspaces[k] /\ pc[g] \in Gated
    BY <1>1, <1>4 DEF TokenInv
  <2>. QED BY <1>1, <1>4, <2>1
<1>. QED BY <1>1, <1>2, <1>3, <1>4

LEMMA TokenStep ==
    ASSUME IInv, TokenInv, [Next]_vars
    PROVE  TokenInv'
<1>. USE DEF Goto, handlerVars, leaseVars
<1>a. TypeOK
    BY DEF IInv
<1>b. \A h \in Handler : pc[h] # "idle" => ref[h] \in Lease
    BY DEF IInv, SlotInv
<1>1. ASSUME NEW h \in Handler, NEW k \in Key, Lookup(h, k), workspaces[k] # Nil
      PROVE  TokenInv'
    BY <1>1, <1>a, TokenMoves DEF Lookup, TypeOK, Gated, IInv, SlotInv
<1>2. ASSUME NEW h \in Handler, NEW k \in Key, Lookup(h, k), workspaces[k] = Nil
      PROVE  TokenInv'
  <2>1. PICK l \in Lease : /\ \A j \in Key : workspaces[j] # l
                           /\ workspaces' = [workspaces EXCEPT ![k] = l]
                           /\ gate' = [gate EXCEPT ![l] = TRUE]
                           /\ ref' = [ref EXCEPT ![h] = l]
                           /\ pc[h] = "idle" /\ pc' = [pc EXCEPT ![h] = "wait"]
    BY <1>2, Zenon DEF Lookup
  <2>. SUFFICES ASSUME NEW j \in Key, workspaces'[j] # Nil, ~gate'[workspaces'[j]]
                PROVE  \E g \in Handler : ref'[g] = workspaces'[j] /\ pc'[g] \in Gated
    BY DEF TokenInv
  <2>2. j # k /\ workspaces'[j] = workspaces[j] /\ ~gate[workspaces[j]]
    BY <1>a, <2>1 DEF TypeOK
  <2>3. PICK g \in Handler : ref[g] = workspaces[j] /\ pc[g] \in Gated
    BY <2>2 DEF TokenInv
  <2>4. g # h
    BY <2>1, <2>3 DEF Gated
  <2>. QED BY <1>a, <2>1, <2>2, <2>3, <2>4 DEF TypeOK
<1>3. ASSUME NEW h \in Handler, TakeGate(h) \/ Refuse(h) \/ Provision(h) \/ EnsureFail(h)
      PROVE  TokenInv'
    BY <1>3, <1>a, <1>b, TokenMoves DEF TakeGate, Refuse, ReturnGate, Provision, EnsureFail, TypeOK, Gated
<1>4. ASSUME NEW h \in Handler, Join(h) \/ EnsureOk(h)
      PROVE  TokenInv'
    BY <1>4, <1>a, <1>b, TokenMoves DEF Join, EnsureOk, Grant, ReturnGate, TypeOK, Gated
<1>5. ASSUME NEW h \in Handler, NEW ok \in BOOLEAN, CleanupDone(h, ok)
      PROVE  TokenInv'
    BY <1>5, <1>a, <1>b, TokenMoves DEF CleanupDone, ReturnGate, TypeOK, Gated
<1>6. ASSUME NEW h \in Handler, GiveUp(h) \/ CallRelease(h) \/ Cancel(h) \/ Exit(h)
      PROVE  TokenInv'
    BY <1>6, <1>a, <1>b, TokenMoves DEF GiveUp, CallRelease, Cancel, Exit, TypeOK, Gated
<1>7. ASSUME NEW h \in Handler, Drop(h)
      PROVE  TokenInv'
    BY <1>7, <1>a, <1>b, TokenMoves DEF Drop, TypeOK, Gated
<1>8. ASSUME NEW h \in Handler, ReleaseGate(h)
      PROVE  TokenInv'
    BY <1>8, <1>a, <1>b, TokenMoves DEF ReleaseGate, TypeOK, Gated
<1>9. CASE Shutdown \/ UNCHANGED vars
    BY <1>9 DEF Shutdown, vars, TokenInv
<1>. QED BY <1>1, <1>2, <1>3, <1>4, <1>5, <1>6, <1>7, <1>8, <1>9 DEF Next, HandlerStep

(* Whoever waits for the token of a lease, to acquire or to release, finds  *)
(* it in the channel or waits for a handler of the same pod that has it     *)
(* and, at each of its places, has a step to take that waits for nobody:    *)
(* the waits cannot form a circle, and no call to release blocks for ever   *)
(* on a token that is gone.                                                 *)
NobodyStuck == \A h \in Handler : pc[h] \in {"wait", "releasing"} =>
    gate[ref[h]] \/ \E g \in Handler : key[g] = key[h] /\ ref[g] = ref[h] /\ pc[g] \in Gated

(* A handler in acquireWorkspace or in release waits for a gate that is     *)
(* free or whose holder can move.                                           *)
THEOREM LeaseNeverStuck == Safety => []NobodyStuck
<1>1. Init => TokenInv
    BY DEF Init, TokenInv
<1>2. IInv /\ TokenInv => NobodyStuck
  <2>. SUFFICES ASSUME IInv, TokenInv, NEW h \in Handler, pc[h] \in {"wait", "releasing"}, ~gate[ref[h]]
                PROVE  \E g \in Handler : key[g] = key[h] /\ ref[g] = ref[h] /\ pc[g] \in Gated
    BY DEF NobodyStuck
  <2>1. pc[h] \in Using /\ key[h] \in Key /\ workspaces[key[h]] = ref[h] /\ ref[h] # Nil
    BY NilIsNoObject DEF IInv, SlotInv, MapInv, Using, Counted
  <2>2. PICK g \in Handler : ref[g] = ref[h] /\ pc[g] \in Gated
    BY <2>1 DEF TokenInv
  <2>3. key[g] = key[h]
    BY <2>1, <2>2 DEF IInv, SlotInv, MapInv, Using, Gated
  <2>. QED BY <2>2, <2>3
<1>. QED BY <1>1, <1>2, LeaseInvariant, TokenStep, PTL DEF Safety

(* An acquisition passes its places in one direction only: no token is      *)
(* taken twice, no release takes effect twice, and every handler is done    *)
(* after at most eight steps of its own beside the cancellation.            *)
Rank == [wait |-> 9, gated |-> 8, ensure |-> 7, setupCleanup |-> 6, held |-> 6, releasing |-> 5,
         lastCleanup |-> 4, drop |-> 3, exit |-> 2, idle |-> 1]
Advances == \A h \in Handler : pc[h] # "idle" => pc'[h] = pc[h] \/ Rank[pc'[h]] < Rank[pc[h]]

(* Every step of a handler that is inside acquireWorkspace or release goes  *)
(* forward in Rank.                                                         *)
THEOREM LeaseAdvances == Safety => [][Advances]_vars
<1>1. IInv /\ [Next]_vars => [Advances]_vars
  <2>. SUFFICES ASSUME IInv, Next, NEW h \in Handler, pc[h] # "idle"
                PROVE  pc'[h] = pc[h] \/ Rank[pc'[h]] < Rank[pc[h]]
    BY DEF Advances
  <2>a. pc \in [Handler -> PCs]
    BY DEF IInv, TypeOK
  <2>b. pc[h] = "exit" => once[h]
    BY <2>a DEF IInv, SlotInv
  <2>1. CASE Shutdown
    BY <2>1 DEF Shutdown
  <2>2. ASSUME NEW g \in Handler, HandlerStep(g), g # h
        PROVE  pc'[h] = pc[h]
    BY <2>2, <2>a DEF HandlerStep, Lookup, TakeGate, GiveUp, Refuse, Join, Provision, EnsureOk,
       Grant, EnsureFail, CleanupDone, Drop, CallRelease, ReleaseGate, Exit, Cancel, Goto
  <2>3. CASE HandlerStep(h)
    <3>1. \/ pc'[h] = pc[h]
          \/ pc[h] = "wait" /\ pc'[h] \in {"gated", "drop"}
          \/ pc[h] = "gated" /\ pc'[h] \in {"ensure", "held", "drop"}
          \/ pc[h] = "ensure" /\ pc'[h] \in {"held", "setupCleanup"}
          \/ pc[h] \in {"setupCleanup", "lastCleanup"} /\ pc'[h] = "drop"
          \/ pc[h] = "held" /\ pc'[h] = "releasing"
          \/ pc[h] = "releasing" /\ pc'[h] \in {"lastCleanup", "drop"}
          \/ pc[h] = "drop" /\ pc'[h] = "exit"
          \/ pc[h] = "exit" /\ pc'[h] = "idle"
      BY <2>3, <2>a, <2>b DEF HandlerStep, Lookup, TakeGate, GiveUp, Refuse, Join, Provision, EnsureOk,
         Grant, EnsureFail, CleanupDone, Drop, CallRelease, ReleaseGate, Exit, Cancel, Goto
    <3>. QED BY <3>1 DEF Rank
  <2>. QED BY <2>1, <2>2, <2>3 DEF Next
<1>. QED BY <1>1, LeaseInvariant, PTL DEF Safety

=============================================================================
