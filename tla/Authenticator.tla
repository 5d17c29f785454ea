--------------------------- MODULE Authenticator ---------------------------
(***************************************************************************)
(* Public-key authentication: keyCache.keys and fetchKeys (internal/auth/  *)
(* github.go), Authenticate (internal/auth/authenticator.go) and the       *)
(* handshake around it (PublicKeyCallback and handleConn, internal/server/ *)
(* server.go).  Connections authenticate concurrently and share the cache, *)
(* whose mutex is not held while a list is fetched.                        *)
(*                                                                         *)
(* The clock advances only while every connection waits for somebody else: *)
(* for its client, or for GitHub.  What the process computes between two   *)
(* such waits takes no time.                                               *)
(***************************************************************************)
EXTENDS Integers, Sequences

CONSTANTS AllowedUsers,   \* the configured list of GitHub users
          SSHKey,         \* public keys
          Conn,           \* connection slots
          TTL,            \* keyCacheTTL
          FetchTimeout,   \* http.Client.Timeout, 15 s
          Handshake,      \* deadline of an unauthenticated connection, 15 s
          MaxTime,        \* bound on the clock
          None            \* no cache entry

User == {AllowedUsers[i] : i \in 1..Len(AllowedUsers)}

ASSUME ListAssumption == AllowedUsers \in Seq(User)
ASSUME TimesAssumption == /\ TTL \in Nat \ {0}
                          /\ FetchTimeout \in Nat
                          /\ Handshake \in Nat
                          /\ MaxTime \in Nat

VARIABLES now,        \* the clock
          github,     \* user -> the keys GitHub publishes now
          changed,    \* when a key was last added to or removed from a user
          entries,    \* keyCache.entries
          pc,         \* where each connection is
          opened,     \* when the connection was accepted
          offered,    \* the key the client offers
          next,       \* index of the user Authenticate looks at
          matched,    \* indices of the users that own the key so far
          started,    \* when the running fetch began
          response    \* the key list the running fetch received

connVars == <<pc, opened, offered, next, matched, started, response>>
vars == <<now, github, changed, entries, connVars>>

Window == TTL + FetchTimeout + Handshake
Entry == [keys : SUBSET SSHKey, fetchedAt : Nat]
PCs == {"closed", "handshake", "lookup", "fetch", "received", "verified", "session"}

TypeOK == /\ now \in 0..MaxTime
          /\ github \in [User -> SUBSET SSHKey]
          /\ changed \in [User -> [SSHKey -> Int]]
          /\ entries \in [User -> Entry \cup {None}]
          /\ pc \in [Conn -> PCs]
          /\ opened \in [Conn -> 0..MaxTime]
          /\ offered \in [Conn -> SSHKey]
          /\ next \in [Conn -> 1..Len(AllowedUsers) + 1]
          /\ matched \in [Conn -> SUBSET (1..Len(AllowedUsers))]
          /\ started \in [Conn -> 0..MaxTime]
          /\ response \in [Conn -> SUBSET SSHKey]

Init == /\ now = 0
        /\ github \in [User -> SUBSET SSHKey]
        /\ changed = [u \in User |-> [k \in SSHKey |-> 0 - Window]]
        /\ entries = [u \in User |-> None]
        /\ pc = [c \in Conn |-> "closed"]
        /\ opened = [c \in Conn |-> 0]
        /\ offered \in [Conn -> SSHKey]
        /\ next = [c \in Conn |-> 1]
        /\ matched = [c \in Conn |-> {}]
        /\ started = [c \in Conn |-> 0]
        /\ response = [c \in Conn |-> {}]

Goto(c, place) == pc' = [pc EXCEPT ![c] = place]
Current(c) == AllowedUsers[next[c]]
MoreUsers(c) == next[c] <= Len(AllowedUsers)

-----------------------------------------------------------------------------
(* GitHub and time.                                                         *)

(* The account's owner adds or removes a key.                               *)
Publish(u, k) ==
    /\ github' = [github EXCEPT ![u] = IF k \in @ THEN @ \ {k} ELSE @ \cup {k}]
    /\ changed' = [changed EXCEPT ![u][k] = now]
    /\ UNCHANGED <<now, entries, connVars>>

(* A fetch ends, with an error at the latest, when the client times out.    *)
Tick ==
    /\ now < MaxTime
    /\ \A c \in Conn : /\ pc[c] # "lookup"
                       /\ pc[c] \in {"fetch", "received"} => now < started[c] + FetchTimeout
    /\ now' = now + 1
    /\ UNCHANGED <<github, changed, entries, connVars>>

-----------------------------------------------------------------------------
(* The handshake.                                                           *)

(* handleConn sets the deadline of the new connection.                      *)
Connect(c) ==
    /\ pc[c] = "closed"
    /\ Goto(c, "handshake")
    /\ opened' = [opened EXCEPT ![c] = now]
    /\ UNCHANGED <<now, github, changed, entries, offered, next, matched, started, response>>

InTime(c) == now <= opened[c] + Handshake

(* The client offers a key, its first or, after a rejection, another one;   *)
(* PublicKeyCallback starts Authenticate.                                   *)
Offer(c, k) ==
    /\ pc[c] = "handshake"
    /\ InTime(c)
    /\ Goto(c, "lookup")
    /\ offered' = [offered EXCEPT ![c] = k]
    /\ UNCHANGED <<now, github, changed, entries, opened, next, matched, started, response>>

(* The locals of a call that has returned are gone.                         *)
Forget(c) == /\ next' = [next EXCEPT ![c] = 1]
             /\ matched' = [matched EXCEPT ![c] = {}]

(* The callback returned a user; the client proves that it owns the key.    *)
Establish(c) ==
    /\ pc[c] = "verified"
    /\ InTime(c)
    /\ Goto(c, "session")
    /\ Forget(c)
    /\ UNCHANGED <<now, github, changed, entries, opened, offered, started, response>>

(* The client leaves, or the deadline of the handshake has passed.          *)
Close(c) ==
    /\ pc[c] \in {"handshake", "verified", "session"}
    /\ Goto(c, "closed")
    /\ opened' = [opened EXCEPT ![c] = 0]
    /\ Forget(c)
    /\ UNCHANGED <<now, github, changed, entries, offered, started, response>>

-----------------------------------------------------------------------------
(* Authenticate and the cache.                                              *)

(* Mutant of Fresh: an entry never expires.                                 *)
Cached(u) == entries[u] # None

Fresh(u) == entries[u] # None /\ now - entries[u].fetchedAt < TTL

(* The fetch of c has ended.                                                *)
EndFetch(c) == /\ started' = [started EXCEPT ![c] = 0]
               /\ response' = [response EXCEPT ![c] = {}]

(* Mutant of Compare: the loop ends at the first owner of the key.          *)
CompareFirst(c, keys) ==
    /\ matched' = [matched EXCEPT ![c] = IF offered[c] \in keys THEN @ \cup {next[c]} ELSE @]
    /\ next' = [next EXCEPT ![c] = IF offered[c] \in keys THEN Len(AllowedUsers) + 1 ELSE @ + 1]
    /\ Goto(c, "lookup")

(* One turn of Authenticate's loop once the user's keys are known.          *)
Compare(c, keys) ==
    /\ matched' = [matched EXCEPT ![c] = IF offered[c] \in keys THEN @ \cup {next[c]} ELSE @]
    /\ next' = [next EXCEPT ![c] = @ + 1]
    /\ Goto(c, "lookup")

(* keys: the entry is fresh.                                                *)
CacheHit(c) ==
    /\ pc[c] = "lookup"
    /\ MoreUsers(c)
    /\ Fresh(Current(c))
    /\ Compare(c, entries[Current(c)].keys)
    /\ UNCHANGED <<now, github, changed, entries, opened, offered, started, response>>

(* keys: no entry, or an expired one; fetch without the mutex.              *)
StartFetch(c) ==
    /\ pc[c] = "lookup"
    /\ MoreUsers(c)
    /\ ~Fresh(Current(c))
    /\ Goto(c, "fetch")
    /\ started' = [started EXCEPT ![c] = now]
    /\ UNCHANGED <<now, github, changed, entries, opened, offered, next, matched, response>>

(* GitHub answers with the keys of this moment.                             *)
Respond(c) ==
    /\ pc[c] = "fetch"
    /\ response' = [response EXCEPT ![c] = github[Current(c)]]
    /\ Goto(c, "received")
    /\ UNCHANGED <<now, github, changed, entries, opened, offered, next, matched, started>>

(* The body is read: store it under the time of this moment, and use it.    *)
Store(c) ==
    /\ pc[c] = "received"
    /\ entries' = [entries EXCEPT ![Current(c)] = [keys |-> response[c], fetchedAt |-> now]]
    /\ Compare(c, response[c])
    /\ EndFetch(c)
    /\ UNCHANGED <<now, github, changed, opened, offered>>

(* Mutant of FetchFail: a failed fetch renews the expired entry.            *)
FetchFailRenews(c) ==
    /\ pc[c] \in {"fetch", "received"}
    /\ Goto(c, "handshake")
    /\ EndFetch(c)
    /\ Forget(c)
    /\ entries' = [entries EXCEPT ![Current(c)] =
                      IF @ = None THEN None ELSE [@ EXCEPT !.fetchedAt = now]]
    /\ UNCHANGED <<now, github, changed, opened, offered>>

(* A failed request, an HTTP error or an unreadable body rejects the key    *)
(* and leaves the entry alone.                                              *)
FetchFail(c) ==
    /\ pc[c] \in {"fetch", "received"}
    /\ Goto(c, "handshake")
    /\ EndFetch(c)
    /\ Forget(c)
    /\ UNCHANGED <<now, github, changed, entries, opened, offered>>

(* Exactly one allowed user owns the key.                                   *)
Accept(c) ==
    /\ pc[c] = "lookup"
    /\ ~MoreUsers(c)
    /\ \E i \in matched[c] : matched[c] = {i}
    /\ Goto(c, "verified")
    /\ UNCHANGED <<now, github, changed, entries, opened, offered, next, matched,
                   started, response>>

(* ErrUnknownKey or ErrAmbiguousKey.                                        *)
Reject(c) ==
    /\ pc[c] = "lookup"
    /\ ~MoreUsers(c)
    /\ ~\E i \in matched[c] : matched[c] = {i}
    /\ Goto(c, "handshake")
    /\ Forget(c)
    /\ UNCHANGED <<now, github, changed, entries, opened, offered, started, response>>

ConnStep(c) ==
    \/ Connect(c)
    \/ \E k \in SSHKey : Offer(c, k)
    \/ Establish(c)
    \/ Close(c)
    \/ CacheHit(c)
    \/ StartFetch(c)
    \/ Respond(c)
    \/ Store(c)
    \/ FetchFail(c)
    \/ Accept(c)
    \/ Reject(c)

Next == \/ Tick
        \/ \E u \in User, k \in SSHKey : Publish(u, k)
        \/ \E c \in Conn : ConnStep(c)

Spec == Init /\ [][Next]_vars

-----------------------------------------------------------------------------
(* The last moment up to now at which u did, or did not, publish k.         *)
LastPublished(u, k) == IF k \in github[u] THEN now ELSE changed[u][k]
LastUnpublished(u, k) == IF k \notin github[u] THEN now ELSE changed[u][k]

(* What the cache would answer now, without asking GitHub, was true less    *)
(* than TTL + FetchTimeout ago, for the keys in the list and for the keys   *)
(* missing from it: also when the fetch that wrote the entry was overtaken  *)
(* by a later one, waited long for its answer, or was followed by failures  *)
(* (fetchedAt is taken after the body was read, github.go:61-63, and the    *)
(* mutex is not held over the fetch).                                       *)
CacheBound ==
    \A u \in User : Fresh(u) =>
       \A k \in SSHKey :
          now - (IF k \in entries[u].keys THEN LastPublished(u, k)
                                          ELSE LastUnpublished(u, k)) < TTL + FetchTimeout

LoggedIn(c) == pc[c] = "verified" /\ pc'[c] = "session"

(* A removed key stops working: a session is established only with a key    *)
(* that its user published less than TTL + FetchTimeout + Handshake ago,    *)
(* however fetches of other connections overwrite the cache meanwhile.      *)
RevocationBound ==
    [][\A c \in Conn : LoggedIn(c) =>
          \A i \in matched[c] : now - LastPublished(AllowedUsers[i], offered[c]) < Window]_vars

(* A key that another allowed user has published for that long does not     *)
(* open a session: the ambiguity has been noticed.                          *)
AmbiguityBound ==
    [][\A c \in Conn : LoggedIn(c) =>
          \A i \in 1..Len(AllowedUsers) : i \notin matched[c] =>
             now - LastUnpublished(AllowedUsers[i], offered[c]) < Window]_vars

(* What github.go:19-20 and docs/operations.md:232 promise: removed keys    *)
(* stop working within one TTL, here when Authenticate accepts a key.       *)
RevokedWithinTTL ==
    [][\A c \in Conn : (pc[c] = "lookup" /\ pc'[c] = "verified") =>
          \A i \in matched[c] : now - LastPublished(AllowedUsers[i], offered[c]) <= TTL]_vars

=============================================================================
