----------------------------- MODULE AuthProofs -----------------------------
(***************************************************************************)
(* Proofs about Authenticator: how old the evidence of a login can be, for *)
(* any list of users, any timeouts and any number of connections.          *)
(***************************************************************************)
EXTENDS Authenticator, TLAPS

N == Len(AllowedUsers)

(* Whether a user's key list has a key is evidence, for the list's reader,  *)
(* that the key was published, or not, at some moment since t.              *)
Evidence(u, k, present, t) ==
    IF present THEN LastPublished(u, k) >= t ELSE LastUnpublished(u, k) >= t

ChangedInv == \A u \in User, k \in SSHKey : changed[u][k] <= now

(* A list in the cache is at most FetchTimeout older than its stamp.        *)
EntryInv == \A u \in User : entries[u] # None =>
    /\ entries[u].fetchedAt <= now
    /\ \A k \in SSHKey :
          Evidence(u, k, k \in entries[u].keys, entries[u].fetchedAt - FetchTimeout)

(* A list in flight is no older than the request for it.                    *)
FetchInv == \A c \in Conn : pc[c] \in {"fetch", "received"} =>
    /\ MoreUsers(c)
    /\ started[c] <= now /\ now <= started[c] + FetchTimeout
    /\ opened[c] <= started[c]
    /\ pc[c] = "received" =>
          \A k \in SSHKey : Evidence(Current(c), k, k \in response[c], started[c])

(* What a connection has concluded so far was true less than TTL and        *)
(* FetchTimeout before the connection was opened.                           *)
MatchInv == \A c \in Conn : pc[c] \in {"lookup", "fetch", "received", "verified"} =>
    /\ opened[c] <= now
    /\ \A i \in 1..N : i < next[c] =>
          Evidence(AllowedUsers[i], offered[c], i \in matched[c],
                   opened[c] - TTL - FetchTimeout + 1)
    /\ \A i \in matched[c] : i < next[c]
    /\ pc[c] = "verified" => next[c] = N + 1

HandshakeInv == \A c \in Conn :
    /\ pc[c] = "handshake" => opened[c] <= now
    /\ pc[c] \in {"closed", "handshake", "session"} => next[c] = 1 /\ matched[c] = {}

IInv == TypeOK /\ ChangedInv /\ EntryInv /\ FetchInv /\ MatchInv /\ HandshakeInv

-----------------------------------------------------------------------------
(* The list of allowed users is finite and names users.                     *)
LEMMA ListFacts == N \in Nat /\ \A i \in 1..N : AllowedUsers[i] \in User
    BY ListAssumption DEF N, User

(* Only the environment's steps change what is published, and when.         *)
LEMMA ConnSteps ==
    ASSUME NEW c \in Conn, ConnStep(c)
    PROVE  UNCHANGED <<now, github, changed>>
    BY DEF ConnStep, Connect, Offer, Establish, Close, CacheHit, StartFetch, Respond,
       Store, FetchFail, Accept, Reject

EvidenceStays == \A u \in User, k \in SSHKey, t \in Int :
    /\ LastPublished(u, k) >= t => LastPublished(u, k)' >= t
    /\ LastUnpublished(u, k) >= t => LastUnpublished(u, k)' >= t

(* Evidence never gets older by itself.                                     *)
LEMMA EvidenceKept ==
    ASSUME TypeOK, ChangedInv, [Next]_vars
    PROVE  now <= now' /\ ChangedInv' /\ EvidenceStays
<1>. USE DEF EvidenceStays
<1>1. CASE UNCHANGED <<now, github, changed>>
    BY <1>1 DEF TypeOK, ChangedInv, LastPublished, LastUnpublished
<1>2. CASE Tick
    BY <1>2 DEF Tick, TypeOK, ChangedInv, LastPublished, LastUnpublished
<1>3. ASSUME NEW u \in User, NEW k \in SSHKey, Publish(u, k)
      PROVE  now <= now' /\ ChangedInv' /\ EvidenceStays
  <2>1. now' = now /\ now \in Int
    BY <1>3 DEF Publish, TypeOK
  <2>2. ASSUME NEW v \in User, NEW j \in SSHKey
        PROVE  /\ changed[v][j] \in Int /\ changed[v][j] <= now
               /\ (v # u \/ j # k) => /\ changed'[v][j] = changed[v][j]
                                      /\ (j \in github'[v] <=> j \in github[v])
               /\ (v = u /\ j = k) => /\ changed'[v][j] = now
                                      /\ (j \in github'[v] <=> j \notin github[v])
    BY <1>3 DEF Publish, TypeOK, ChangedInv
  <2>3. ChangedInv'
    BY <2>1, <2>2 DEF ChangedInv
  <2>4. ASSUME NEW v \in User, NEW j \in SSHKey, NEW t \in Int
        PROVE  /\ LastPublished(v, j) >= t => LastPublished(v, j)' >= t
               /\ LastUnpublished(v, j) >= t => LastUnpublished(v, j)' >= t
    BY <2>1, <2>2 DEF LastPublished, LastUnpublished
  <2>. QED BY <2>1, <2>3, <2>4
<1>. QED BY <1>1, <1>2, <1>3, ConnSteps DEF Next, vars

(* The invariant holds at first.                                            *)
LEMMA IInvInit == Init => IInv
<1>. SUFFICES ASSUME Init PROVE IInv
    OBVIOUS
<1>. USE DEF Init
<1>1. TypeOK
  <2>1. 1 \in 1..Len(AllowedUsers) + 1 /\ 0 - Window \in Int /\ 0 \in 0..MaxTime
    BY ListFacts, TimesAssumption DEF N, Window
  <2>. QED BY <2>1 DEF TypeOK, PCs
<1>2. ChangedInv
    BY TimesAssumption DEF ChangedInv, Window
<1>3. EntryInv /\ FetchInv /\ MatchInv /\ HandshakeInv
    BY DEF EntryInv, FetchInv, MatchInv, HandshakeInv
<1>. QED BY <1>1, <1>2, <1>3 DEF IInv

(* Type correctness is inductive given that lookups stay inside the list.   *)
LEMMA TypeStep == IInv /\ [Next]_vars => TypeOK'
<1>. SUFFICES ASSUME IInv, [Next]_vars PROVE TypeOK'
    OBVIOUS
<1>. USE ListFacts, TimesAssumption DEF IInv, TypeOK
<1>1. CASE Tick
    BY <1>1 DEF Tick, connVars
<1>2. ASSUME NEW u \in User, NEW k \in SSHKey, Publish(u, k) PROVE TypeOK'
    BY <1>2 DEF Publish, connVars
<1>3. ASSUME NEW c \in Conn, ConnStep(c) PROVE TypeOK'
  <2>. USE DEF Goto, PCs
  <2>1. CASE Connect(c)
    BY <2>1 DEF Connect
  <2>2. ASSUME NEW k \in SSHKey, Offer(c, k) PROVE TypeOK'
    BY <2>2 DEF Offer
  <2>0. 1 \in 1..Len(AllowedUsers) + 1 /\ 0 \in 0..MaxTime
    BY DEF N
  <2>3. CASE Establish(c)
    BY <2>0, <2>3 DEF Establish, Forget
  <2>10. CASE Close(c)
    BY <2>0, <2>10 DEF Close, Forget
  <2>11. CASE Reject(c)
    BY <2>0, <2>11 DEF Reject, Forget
  <2>4. CASE CacheHit(c)
    BY <2>4 DEF CacheHit, Compare, MoreUsers, N
  <2>5. CASE StartFetch(c)
    BY <2>5 DEF StartFetch
  <2>6. CASE Respond(c)
    <3>1. Current(c) \in User
      BY <2>6 DEF Respond, FetchInv, MoreUsers, Current, N
    <3>. QED BY <2>6, <3>1 DEF Respond
  <2>7. CASE Store(c)
    <3>1. Current(c) \in User /\ next[c] \in 1..N
      BY <2>7 DEF Store, FetchInv, MoreUsers, Current, N
    <3>2. [keys |-> response[c], fetchedAt |-> now] \in Entry
      BY DEF Entry
    <3>. QED BY <2>7, <3>1, <3>2 DEF Store, Compare, EndFetch, N
  <2>8. CASE FetchFail(c)
    BY <2>8 DEF FetchFail, EndFetch, Forget, N
  <2>9. CASE Accept(c)
    BY <2>9 DEF Accept
  <2>. QED BY <1>3, <2>1, <2>2, <2>3, <2>4, <2>5, <2>6, <2>7, <2>8, <2>9,
       <2>10, <2>11 DEF ConnStep
<1>4. CASE UNCHANGED vars
    BY <1>4 DEF vars, connVars
<1>. QED BY <1>1, <1>2, <1>3, <1>4 DEF Next

(* The cache: a stamp is set when the list arrives, FetchTimeout after the  *)
(* request at the latest.                                                   *)
LEMMA EntryStep == IInv /\ [Next]_vars => EntryInv'
<1>. SUFFICES ASSUME IInv, [Next]_vars, NEW u \in User, entries'[u] # None
              PROVE  /\ entries'[u].fetchedAt <= now'
                     /\ \A k \in SSHKey :
                           Evidence(u, k, k \in entries[u].keys, entries[u].fetchedAt - FetchTimeout)'
    BY DEF EntryInv
<1>. USE TimesAssumption DEF Evidence
<1>1. /\ now <= now' /\ now \in Int /\ now' \in Int
      /\ EvidenceStays
  <2>1. TypeOK /\ TypeOK' /\ ChangedInv
    BY TypeStep DEF IInv
  <2>2. now <= now' /\ EvidenceStays
    BY <2>1, EvidenceKept
  <2>. QED BY <2>1, <2>2 DEF TypeOK
<1>2. CASE entries'[u] = entries[u]
  <2>1. entries[u].fetchedAt \in Int
    BY <1>2 DEF IInv, TypeOK, Entry
  <2>. QED BY <1>1, <1>2, <2>1 DEF IInv, EntryInv, EvidenceStays
<1>3. ASSUME NEW c \in Conn, Store(c), Current(c) = u
      PROVE  /\ entries'[u].fetchedAt <= now'
             /\ \A k \in SSHKey :
                   Evidence(u, k, k \in entries[u].keys, entries[u].fetchedAt - FetchTimeout)'
  <2>1. entries'[u] = [keys |-> response[c], fetchedAt |-> now] /\ now' = now
    BY <1>3 DEF Store, IInv, TypeOK
  <2>2. started[c] >= now - FetchTimeout /\ started[c] \in Int
    BY <1>3, <1>1 DEF Store, IInv, TypeOK, FetchInv
  <2>3. \A k \in SSHKey : Evidence(u, k, k \in response[c], started[c])
    BY <1>3 DEF Store, IInv, FetchInv
  <2>4. \A k \in SSHKey : LastPublished(u, k) \in Int /\ LastUnpublished(u, k) \in Int
    BY <1>1 DEF IInv, TypeOK, LastPublished, LastUnpublished
  <2>5. \A k \in SSHKey : Evidence(u, k, k \in response[c], now - FetchTimeout)
    BY <1>1, <2>2, <2>3, <2>4
  <2>. QED BY <1>1, <2>1, <2>5 DEF EvidenceStays
<1>4. entries'[u] = entries[u] \/ \E c \in Conn : Store(c) /\ Current(c) = u
    BY DEF Next, Tick, Publish, ConnStep, Connect, Offer, Establish, Close, CacheHit,
       StartFetch, Respond, Store, FetchFail, Accept, Reject, vars, IInv, TypeOK
<1>. QED BY <1>2, <1>3, <1>4

(* A step of another connection, or of the environment, leaves a waiting    *)
(* connection as it is.                                                     *)
LEMMA OthersKept ==
    ASSUME TypeOK, [Next]_vars, NEW c \in Conn, ~ConnStep(c)
    PROVE  /\ pc'[c] = pc[c] /\ opened'[c] = opened[c] /\ offered'[c] = offered[c]
           /\ next'[c] = next[c] /\ matched'[c] = matched[c]
           /\ started'[c] = started[c] /\ response'[c] = response[c]
<1>1. CASE Tick \/ UNCHANGED vars \/ \E u \in User, k \in SSHKey : Publish(u, k)
    BY <1>1 DEF Tick, Publish, vars, connVars
<1>2. ASSUME NEW d \in Conn, ConnStep(d), d # c
      PROVE  /\ pc'[c] = pc[c] /\ opened'[c] = opened[c] /\ offered'[c] = offered[c]
             /\ next'[c] = next[c] /\ matched'[c] = matched[c]
             /\ started'[c] = started[c] /\ response'[c] = response[c]
    BY <1>2 DEF ConnStep, Connect, Offer, Establish, Close, CacheHit, StartFetch, Respond,
       Store, FetchFail, Accept, Reject, Compare, Forget, EndFetch, Goto, TypeOK
<1>. QED BY <1>1, <1>2 DEF Next

(* Every step keeps the part of the invariant about handshakes.             *)
LEMMA HandshakeStep == IInv /\ [Next]_vars => HandshakeInv'
<1>. SUFFICES ASSUME IInv, [Next]_vars, NEW c \in Conn
              PROVE  /\ pc'[c] = "handshake" => opened'[c] <= now'
                     /\ pc'[c] \in {"closed", "handshake", "session"} => next'[c] = 1 /\ matched'[c] = {}
    BY DEF HandshakeInv
<1>1. now <= now' /\ now \in Int /\ now' \in Int /\ opened[c] \in Int
  <2>1. TypeOK /\ TypeOK' /\ ChangedInv
    BY TypeStep DEF IInv
  <2>2. now <= now' /\ EvidenceStays
    BY <2>1, EvidenceKept
  <2>. QED BY <2>1, <2>2 DEF TypeOK
<1>2. CASE ~ConnStep(c)
    BY <1>1, <1>2, OthersKept DEF IInv, HandshakeInv
<1>3. CASE Connect(c)
    BY <1>1, <1>3 DEF Connect, Goto, IInv, TypeOK, HandshakeInv
<1>4. CASE FetchFail(c) \/ Reject(c)
    BY <1>1, <1>4 DEF FetchFail, Reject, Forget, Goto, IInv, TypeOK, MatchInv
<1>5. CASE Establish(c) \/ Close(c)
    BY <1>5 DEF Establish, Close, Forget, Goto, IInv, TypeOK
<1>6. CASE ConnStep(c) /\ ~Connect(c) /\ ~FetchFail(c) /\ ~Reject(c) /\ ~Establish(c) /\ ~Close(c)
  <2>1. pc'[c] \in {"lookup", "fetch", "received", "verified"}
    BY <1>6 DEF ConnStep, Offer, CacheHit, StartFetch, Respond, Store, Accept, Compare,
       Goto, IInv, TypeOK
  <2>. QED BY <2>1
<1>. QED BY <1>2, <1>3, <1>4, <1>5, <1>6

(* A list in flight: its age is bounded from the request on.                *)
LEMMA FetchStep == IInv /\ [Next]_vars => FetchInv'
<1>. SUFFICES ASSUME IInv, [Next]_vars, NEW c \in Conn, pc'[c] \in {"fetch", "received"}
              PROVE  /\ MoreUsers(c)'
                     /\ started'[c] <= now' /\ now' <= started'[c] + FetchTimeout
                     /\ opened'[c] <= started'[c]
                     /\ pc'[c] = "received" =>
                          \A k \in SSHKey : Evidence(Current(c), k, k \in response[c], started[c])'
    BY DEF FetchInv
<1>. USE TimesAssumption DEF Evidence
<1>1. /\ now <= now' /\ now \in Int /\ now' \in Int /\ started[c] \in Int /\ opened[c] \in Int
      /\ EvidenceStays
  <2>1. TypeOK /\ TypeOK' /\ ChangedInv
    BY TypeStep DEF IInv
  <2>2. now <= now' /\ EvidenceStays
    BY <2>1, EvidenceKept
  <2>. QED BY <2>1, <2>2 DEF TypeOK
<1>2. CASE ~ConnStep(c)
  <2>1. /\ pc'[c] = pc[c] /\ opened'[c] = opened[c] /\ next'[c] = next[c]
        /\ started'[c] = started[c] /\ response'[c] = response[c]
    BY <1>2, OthersKept DEF IInv
  <2>2. /\ MoreUsers(c) /\ started[c] <= now /\ now <= started[c] + FetchTimeout
        /\ opened[c] <= started[c]
        /\ pc[c] = "received" =>
              \A k \in SSHKey : Evidence(Current(c), k, k \in response[c], started[c])
    BY <2>1 DEF IInv, FetchInv
  <2>3. Current(c) \in User /\ Current(c)' = Current(c) /\ MoreUsers(c)'
    BY <2>1, <2>2, ListFacts DEF Current, MoreUsers, IInv, TypeOK, N
  <2>4. now' <= started[c] + FetchTimeout
    <3>1. CASE Tick
      BY <2>1, <3>1, <1>1 DEF Tick
    <3>2. CASE ~Tick
      <4>1. now' = now
        BY <3>2, ConnSteps DEF Next, Publish, vars
      <4>. QED BY <2>2, <4>1
    <3>. QED BY <3>1, <3>2
  <2>. QED BY <1>1, <2>1, <2>2, <2>3, <2>4 DEF EvidenceStays
<1>3. CASE StartFetch(c)
    BY <1>1, <1>3 DEF StartFetch, Goto, MoreUsers, IInv, TypeOK, MatchInv
<1>4. CASE Respond(c)
  <2>1. /\ pc[c] = "fetch" /\ Current(c)' = Current(c) /\ next' = next /\ started' = started
        /\ opened' = opened /\ now' = now /\ response'[c] = github[Current(c)] /\ github' = github
    BY <1>4 DEF Respond, Current, IInv, TypeOK
  <2>2. /\ MoreUsers(c) /\ started[c] <= now /\ now <= started[c] + FetchTimeout
        /\ opened[c] <= started[c]
    BY <2>1 DEF IInv, FetchInv
  <2>3. \A k \in SSHKey : Evidence(Current(c), k, k \in response[c], started[c])'
    BY <2>1, <2>2 DEF LastPublished, LastUnpublished
  <2>. QED BY <2>1, <2>2, <2>3 DEF MoreUsers
<1>5. CASE ConnStep(c) /\ ~StartFetch(c) /\ ~Respond(c)
    BY <1>5 DEF ConnStep, Connect, Offer, Establish, Close, CacheHit, Store, FetchFail,
       Accept, Reject, Compare, Goto, IInv, TypeOK
<1>. QED BY <1>2, <1>3, <1>4, <1>5

(* Conclusions: a fresh entry is less than TTL old when it is read, and a   *)
(* fetched list is younger than the connection.                             *)
LEMMA MatchStep == IInv /\ [Next]_vars => MatchInv'
<1>. DEFINE Since(c) == opened[c] - TTL - FetchTimeout + 1
            Concluded(c) ==
                 /\ \A i \in 1..N : i < next[c] =>
                       Evidence(AllowedUsers[i], offered[c], i \in matched[c], Since(c))
                 /\ \A i \in matched[c] : i < next[c]
<1>. SUFFICES ASSUME IInv, [Next]_vars, NEW c \in Conn,
                     pc'[c] \in {"lookup", "fetch", "received", "verified"}
              PROVE  /\ opened'[c] <= now'
                     /\ Concluded(c)'
                     /\ pc'[c] = "verified" => next'[c] = N + 1
    BY DEF MatchInv
<1>. USE TimesAssumption, ListFacts DEF Evidence
<1>1. /\ now <= now' /\ now \in Int /\ now' \in Int /\ opened[c] \in Int /\ next[c] \in 1..N+1
      /\ offered[c] \in SSHKey /\ Since(c) \in Int
      /\ EvidenceStays
  <2>1. TypeOK /\ TypeOK' /\ ChangedInv
    BY TypeStep DEF IInv
  <2>2. now <= now' /\ EvidenceStays
    BY <2>1, EvidenceKept
  <2>. QED BY <2>1, <2>2 DEF TypeOK, N
<1>2. ASSUME pc[c] \in {"lookup", "fetch", "received", "verified"},
             opened'[c] = opened[c], offered'[c] = offered[c], next'[c] = next[c],
             matched'[c] = matched[c]
      PROVE  opened'[c] <= now' /\ Concluded(c)' /\ (pc[c] = "verified" => next'[c] = N + 1)
  <2>1. opened[c] <= now /\ Concluded(c) /\ (pc[c] = "verified" => next[c] = N + 1)
    BY <1>2 DEF IInv, MatchInv
  <2>. QED BY <1>1, <1>2, <2>1 DEF EvidenceStays
<1>3. CASE ~ConnStep(c)
    BY <1>2, <1>3, OthersKept DEF IInv
<1>4. CASE StartFetch(c) \/ Respond(c)
    BY <1>2, <1>4 DEF StartFetch, Respond, Goto, IInv, TypeOK
<1>5. CASE Accept(c)
  <2>1. next[c] = N + 1
    BY <1>1, <1>5 DEF Accept, MoreUsers, N
  <2>. QED BY <1>2, <1>5, <2>1 DEF Accept
<1>6. ASSUME NEW k \in SSHKey, Offer(c, k)
      PROVE  opened'[c] <= now' /\ Concluded(c)' /\ pc'[c] # "verified"
    BY <1>1, <1>6 DEF Offer, Goto, IInv, TypeOK, HandshakeInv
<1>7. ASSUME NEW keys, Compare(c, keys), MoreUsers(c), pc[c] \in {"lookup", "received"},
             UNCHANGED <<now, github, changed, opened, offered>>,
             Evidence(Current(c), offered[c], offered[c] \in keys, Since(c))
      PROVE  opened'[c] <= now' /\ Concluded(c)' /\ pc'[c] # "verified"
  <2>1. /\ next'[c] = next[c] + 1 /\ pc'[c] = "lookup" /\ next[c] \in 1..N
        /\ matched'[c] = IF offered[c] \in keys THEN matched[c] \cup {next[c]} ELSE matched[c]
    BY <1>1, <1>7 DEF Compare, Goto, MoreUsers, IInv, TypeOK, N
  <2>2. opened[c] <= now /\ Concluded(c) /\ next[c] \notin matched[c]
    BY <1>1, <1>7 DEF IInv, MatchInv
  <2>3. ASSUME NEW i \in 1..N, i < next'[c]
        PROVE  Evidence(AllowedUsers[i], offered[c], i \in matched'[c], Since(c))
    <3>1. CASE i = next[c]
      BY <1>7, <2>1, <2>2, <3>1 DEF Current
    <3>2. CASE i # next[c]
      BY <1>1, <2>1, <2>2, <2>3, <3>2
    <3>. QED BY <3>1, <3>2
  <2>4. Concluded(c)'
    <3>1. \A i \in matched'[c] : i < next'[c]
      BY <1>1, <2>1, <2>2 DEF IInv, TypeOK
    <3>2. ASSUME NEW i \in 1..N, i < next'[c]
          PROVE  Evidence(AllowedUsers[i], offered[c], i \in matched[c], Since(c))'
      BY <1>1, <1>7, <2>3, <3>2 DEF EvidenceStays
    <3>. QED BY <3>1, <3>2
  <2>. QED BY <1>7, <2>1, <2>2, <2>4
<1>8. CASE CacheHit(c)
  <2>1. /\ MoreUsers(c) /\ pc[c] = "lookup" /\ Fresh(Current(c)) /\ Compare(c, entries[Current(c)].keys)
        /\ UNCHANGED <<now, github, changed, opened, offered>>
    BY <1>8 DEF CacheHit
  <2>2. Current(c) \in User /\ opened[c] <= now
    BY <1>1, <2>1 DEF Current, MoreUsers, N, IInv, MatchInv
  <2>3. LET e == entries[Current(c)] IN
        /\ e.fetchedAt \in Int /\ now - e.fetchedAt < TTL
        /\ Evidence(Current(c), offered[c], offered[c] \in e.keys, e.fetchedAt - FetchTimeout)
    BY <1>1, <2>1, <2>2 DEF Fresh, IInv, TypeOK, Entry, EntryInv
  <2>4. Evidence(Current(c), offered[c], offered[c] \in entries[Current(c)].keys, Since(c))
    <3>1. LastPublished(Current(c), offered[c]) \in Int /\ LastUnpublished(Current(c), offered[c]) \in Int
      BY <1>1, <2>2 DEF IInv, TypeOK, LastPublished, LastUnpublished
    <3>2. Since(c) <= entries[Current(c)].fetchedAt - FetchTimeout
      BY <1>1, <2>2, <2>3
    <3>. QED BY <1>1, <2>3, <3>1, <3>2
  <2>. QED BY <1>7, <2>1, <2>4
<1>9. CASE Store(c)
  <2>1. /\ pc[c] = "received" /\ Compare(c, response[c])
        /\ UNCHANGED <<now, github, changed, opened, offered>>
    BY <1>9 DEF Store
  <2>2. /\ MoreUsers(c) /\ opened[c] <= started[c] /\ started[c] \in Int
        /\ Evidence(Current(c), offered[c], offered[c] \in response[c], started[c])
    BY <1>1, <2>1 DEF IInv, TypeOK, FetchInv
  <2>3. Current(c) \in User
    BY <1>1, <2>2 DEF Current, MoreUsers, N
  <2>4. Evidence(Current(c), offered[c], offered[c] \in response[c], Since(c))
    <3>1. LastPublished(Current(c), offered[c]) \in Int /\ LastUnpublished(Current(c), offered[c]) \in Int
      BY <1>1, <2>3 DEF IInv, TypeOK, LastPublished, LastUnpublished
    <3>2. Since(c) <= started[c]
      BY <1>1, <2>2
    <3>. QED BY <1>1, <2>2, <3>1, <3>2
  <2>. QED BY <1>7, <2>1, <2>2, <2>4
<1>10. CASE Connect(c) \/ Establish(c) \/ Close(c) \/ FetchFail(c) \/ Reject(c)
    BY <1>10 DEF Connect, Establish, Close, FetchFail, Reject, Goto, IInv, TypeOK
<1>. QED BY <1>3, <1>4, <1>5, <1>6, <1>8, <1>9, <1>10 DEF ConnStep

(* The invariant holds of every behaviour.                                  *)
THEOREM AuthInvariant == Spec => []IInv
<1>1. IInv /\ [Next]_vars => IInv'
    BY TypeStep, EntryStep, FetchStep, MatchStep, HandshakeStep, EvidenceKept DEF IInv
<1>. QED BY <1>1, IInvInit, PTL DEF Spec

(* Type correctness of the authenticator.                                   *)
THEOREM AuthTypes == Spec => []TypeOK
<1>1. IInv => TypeOK
    BY DEF IInv
<1>. QED BY <1>1, AuthInvariant, PTL

(* Whatever the cache would answer was true less than TTL + FetchTimeout    *)
(* ago: a fresh stamp is less than TTL old, and the list under it was       *)
(* requested at most FetchTimeout before the stamp.                         *)
THEOREM AuthCache == Spec => []CacheBound
<1>1. IInv => CacheBound
  <2>. SUFFICES ASSUME IInv, NEW u \in User, Fresh(u), NEW k \in SSHKey
                PROVE  now - (IF k \in entries[u].keys THEN LastPublished(u, k)
                                          ELSE LastUnpublished(u, k)) < TTL + FetchTimeout
    BY DEF CacheBound
  <2>1. /\ LastPublished(u, k) \in Int /\ LastUnpublished(u, k) \in Int
        /\ now \in Int /\ TTL \in Int /\ FetchTimeout \in Int
    BY TimesAssumption DEF IInv, TypeOK, LastPublished, LastUnpublished
  <2>2. entries[u].fetchedAt \in Int /\ now - entries[u].fetchedAt < TTL
    BY DEF Fresh, IInv, TypeOK, Entry
  <2>3. IF k \in entries[u].keys THEN LastPublished(u, k) >= entries[u].fetchedAt - FetchTimeout
                                 ELSE LastUnpublished(u, k) >= entries[u].fetchedAt - FetchTimeout
    BY DEF Fresh, IInv, EntryInv, Evidence
  <2>. QED BY <2>1, <2>2, <2>3
<1>. QED BY <1>1, AuthInvariant, PTL

(* A login's evidence is younger than TTL + FetchTimeout + Handshake.       *)
LEMMA LoginEvidence ==
    ASSUME IInv, [Next]_vars, NEW c \in Conn, LoggedIn(c), NEW i \in 1..N
    PROVE  Evidence(AllowedUsers[i], offered[c], i \in matched[c], now - Window + 1)
<1>. USE TimesAssumption, ListFacts DEF Evidence
<1>1. pc[c] = "verified" /\ now <= opened[c] + Handshake
  <2>1. ConnStep(c)
    BY OthersKept DEF LoggedIn, IInv
  <2>. QED BY <2>1 DEF LoggedIn, ConnStep, Connect, Offer, Establish, Close, CacheHit,
       StartFetch, Respond, Store, FetchFail, Accept, Reject, Compare, Goto, InTime, IInv, TypeOK
<1>2. i < next[c] /\ Evidence(AllowedUsers[i], offered[c], i \in matched[c], opened[c] - TTL - FetchTimeout + 1)
    BY <1>1 DEF IInv, MatchInv
<1>3. /\ LastPublished(AllowedUsers[i], offered[c]) \in Int
      /\ LastUnpublished(AllowedUsers[i], offered[c]) \in Int
      /\ now \in Int /\ opened[c] \in Int
    BY DEF IInv, TypeOK, LastPublished, LastUnpublished
<1>. QED BY <1>1, <1>2, <1>3 DEF Window

(* A removed key opens no session once the window has passed.               *)
THEOREM AuthRevocation == Spec => RevocationBound
<1>. DEFINE P == \A c \in Conn : LoggedIn(c) =>
               \A i \in matched[c] : now - LastPublished(AllowedUsers[i], offered[c]) < Window
<1>1. IInv /\ [Next]_vars => [P]_vars
  <2>. SUFFICES ASSUME IInv, [Next]_vars, NEW c \in Conn, LoggedIn(c), NEW i \in matched[c]
                PROVE  now - LastPublished(AllowedUsers[i], offered[c]) < Window
    OBVIOUS
  <2>1. i \in 1..N /\ AllowedUsers[i] \in User
    BY ListFacts DEF IInv, TypeOK, N
  <2>2. LastPublished(AllowedUsers[i], offered[c]) >= now - Window + 1
    BY <2>1, LoginEvidence DEF Evidence
  <2>3. LastPublished(AllowedUsers[i], offered[c]) \in Int /\ now \in Int /\ Window \in Int
    BY <2>1, TimesAssumption DEF IInv, TypeOK, LastPublished, Window
  <2>. QED BY <2>2, <2>3
<1>. QED BY <1>1, AuthInvariant, PTL DEF Spec, RevocationBound

(* A key that another allowed user has had for the window opens no session. *)
THEOREM AuthAmbiguity == Spec => AmbiguityBound
<1>. DEFINE P == \A c \in Conn : LoggedIn(c) =>
               \A i \in 1..Len(AllowedUsers) : i \notin matched[c] =>
                  now - LastUnpublished(AllowedUsers[i], offered[c]) < Window
<1>1. IInv /\ [Next]_vars => [P]_vars
  <2>. SUFFICES ASSUME IInv, [Next]_vars, NEW c \in Conn, LoggedIn(c),
                       NEW i \in 1..N, i \notin matched[c]
                PROVE  now - LastUnpublished(AllowedUsers[i], offered[c]) < Window
    BY DEF N
  <2>1. LastUnpublished(AllowedUsers[i], offered[c]) >= now - Window + 1
    BY LoginEvidence DEF Evidence
  <2>2. LastUnpublished(AllowedUsers[i], offered[c]) \in Int /\ now \in Int /\ Window \in Int
    BY ListFacts, TimesAssumption DEF IInv, TypeOK, LastUnpublished, Window
  <2>. QED BY <2>1, <2>2
<1>. QED BY <1>1, AuthInvariant, PTL DEF Spec, AmbiguityBound

=============================================================================
