# A TLA+ verification of voidshell

voidshell is an SSH proxy written in Go. It authenticates clients by the public
keys their GitHub accounts publish, gives every user (and storage mode) a
workspace pod in Kubernetes, runs shells, commands, SFTP and port forwards in
that pod, and deletes it when the last of them ends. This directory holds TLA+
models of the parts of it in which order, failure and time matter, the TLC
configurations that check them on small instances, and TLAPS proofs for all
instances. Paths below are relative to the repository.

## 1. Inventory

| Part | Source | State | Operations |
|---|---|---|---|
| Workspace leases | `internal/server/lifecycle.go` | `Server.workspaces` (pod name → lease), `users`, `active`, `gate` | `acquireWorkspace`, the release function |
| Server, connections | `internal/server/server.go` | contexts, wait groups, handshake deadline | `Serve`, `handleConn`, `PublicKeyCallback` |
| Session channels | `internal/server/session.go` | resize queue, request consumer, exit status | `handleSession`, `runSession`, `drainRequests` |
| Proxied SSH sessions | `internal/server/sshproxy.go` | pending requests, copying goroutines | `proxySession`, `validProxyRequest` |
| Port forwards | `internal/server/portfwd.go`, `internal/k8s/portfwd.go` | completion channels | `handleDirectTCPIP`, `Forward`, `forwardSSH` |
| Pod manager | `internal/k8s/lifecycle.go` | pods and claims in the cluster | `EnsureWorkspace`, `DeletePod` |
| Workspace SSH | `internal/k8s/ssh.go` | `sshEndpoints`, Secrets | `ensureSSHCredentials`, `prepareSSH`, `OpenWorkspaceSSH` |
| Exec | `internal/k8s/attacher.go` | none | `Attach`, `Exec` |
| Authentication | `internal/auth/*.go` | key cache | `Authenticate`, `keys`, `fetchKeys` |
| Names | `internal/workspace/*.go` | none | pod, claim and workspace names; the selector |
| Start | `cmd/voidshell`, `internal/config`, `hostkey.go`, `validate.go` | none after start | configuration, host key, user name check |
| Around it | `scripts/voidshell-sshd`, `charts/`, `.github/scripts/cleanup_images.py` | – | sshd in the pod, deployment, image retention |

How they interact. `Serve` starts a goroutine per connection; the handshake calls
`Authenticate`. Each accepted channel is a handler goroutine that calls
`acquireWorkspace`, which for the first handler of a pod calls
`EnsureWorkspace`; the handler then streams (exec, proxied SSH or a forward) and
calls release, which for the last handler calls `DeletePod`. All of a handler's
contexts derive from its connection's, and that from the server's, so a closed
channel, a lost connection and SIGTERM all arrive as cancellation. The
coordination is process-local; the cluster is shared with the kubelet, the
garbage collector and other users of the namespace.

What is hard, and what makes each part correct:

* **Leases**: handlers of many connections race for the map, the gate and two
  counters, each guarded by something else. Calls for one pod must not overlap, a
  pod in use must not be deleted, an unused one must not be forgotten, no handler
  may wait for ever.
* **Pod manager**: every request can fail or take effect late, and the cluster
  changes between any two. No pod may be left except after an error or a crash,
  an endpoint must match its pod.
* **Authentication**: fetches run without the mutex, lists have different ages,
  and time passes between the answer, its use and the login. A removed key must
  stop working within a known time.
* **Sessions**: four goroutines share a queue and a channel that are closed in
  between. No send on a closed queue, exit-status after the cleanup, nothing left
  running.
* **Proxied sessions**: the handler and six goroutines stand between two channels
  that end in halves and in any order, and a bounded queue stands between two of
  them. A report must come after all output and the release, the backend's exit
  must arrive as it is, the filter must not be fooled by requests without reply,
  and everything must end when the client goes.
* **Forwards**: contexts, deadlines and stop functions guard a setup in three
  steps, then completions of several goroutines arrive in any order while the
  context may be cancelled. Nothing of the setup may reach into the stream, input
  still buffered must be drained, an error of the kubelet must not be hidden.
* **Server**: a signal comes between any two steps of the accept loop, of a
  handshake and of the loop over channels. Serve must return, and last.

`PROJECT.json` lists the hazards line by line.

## 2. Modules

| Module | Role |
|---|---|
| `WorkspaceService` | abstract: what the leases promise, as a phase and a set of sessions per pod |
| `WorkspaceLease` | `acquireWorkspace` and release; implements `WorkspaceService` |
| `LeaseProofs`, `LeaseRefinement` | proofs: safety; the refinement |
| `Authenticator`, `AuthProofs` | key cache, `Authenticate`, handshake; proofs |
| `PodManager` | `EnsureWorkspace`, `DeletePod` and the SSH credentials for one pod name, and the cluster |
| `WorkspaceSystem`, `SystemProofs` | composition of `WorkspaceService` and `PodManager`, with crashes; proofs |
| `WorkspaceUse` | abstract: how a channel may use its workspace; `Session`, `ProxySession` and `Forwarding` implement it |
| `Session`, `SessionProofs` | one session channel of the Kubernetes backend; proofs |
| `ProxySession`, `ProxyProofs` | one session channel of the SSH backend; proofs |
| `ForwardChannel` | what both backends of a forward share: client, `handleDirectTCPIP`, copiers |
| `SSHForward`, `KubeForward` | `OpenWorkspaceSSH` with `forwardSSH`; `Forward` over the API |
| `Forwarding`, `ForwardProofs` | composition of the three; proofs |
| `Server`, `ServerProofs` | `Serve` and `handleConn`; proofs |
| `MC...` | small instances for TLC |

Definitions whose comment begins with "Mutant of" are faulty variants of the
definition after them. They are not used by any specification; `PROJECT.json`
pairs each with the property that notices the fault.

### WorkspaceLease

One action is one section under `Server.mu`, one receive or send on a gate, or one
backend call. Handler slots are reused, so a slot stands for one channel after
another. Lease objects are addresses: `Lookup` takes one that nobody references,
so an address is reused, as the allocator may, and a stale pointer would show.
`lastCall` remembers the result of the backend's last call for each pod.
`TakeGate` and `GiveUp` are the two cases of the `select`; when both are ready Go
takes either, and so does the model.

A handler that gives the token back does so in the step that also ends its
critical section: a send into the empty gate of capacity one never blocks, and
nobody else can act on the token before.

### Authenticator

Time is a counter. It advances only while every connection waits for its client
or for GitHub, and not past the timeout of a running fetch. The three steps of a
fetch (`StartFetch`, `Respond`, `Store`) interleave with those of other
connections and with `Publish`, the account owner's changes. A key list is the set
of its keys; the parsing of lines is left out. `changed` is a ghost: when a key
was last added or removed. After a rejection the client may offer another key on
the same connection, until the deadline.

### PodManager and WorkspaceSystem

One action is one API request. `pod` is the object of the workspace's name: its
uid, its backend label, whether it has a DeletionTimestamp, the state of its
container and the owner of the credentials it has mounted. A Create whose caller
gave up may land later (`inflight`), a Delete that failed may have worked. The
poll loops (a dying pod in `ensurePod`, an unready one in `waitForPodReady`, a
pod still there in `DeletePod`) are disabled actions until something changes.
The random Secret name of `configureSSHPod` is the pod's own number. The claim is
created and never deleted.

The cluster's steps (`PodStarts`, `PodEnds`, `ExternalDelete`, `PodGone`,
`LateCreate`, `CollectSecret`, `ForeignSecret`) are external and modelled as the
code relies on them. `WorkspaceSystem` lets `WorkspaceService`, which the leases
are proved to implement, call the manager. `Crash` forgets all state of the
process, keeps the cluster and may change the configured backend. `lost` is a
ghost: the pods whose removal an error or a crash cut short.

### Session

The handler's places are those of `handleSession` and `runSession`; the request
consumer starts with the session, the reader of sizes belongs to the exec stream
(external) and reads until the queue is closed. A terminal size is one number, cut
to its width as `push` does, and 0 stands for a size with a zero dimension. Two
ghosts record what the client asked for: `latest` is the size of its last accepted
pty-req or of its last window-change, heard or not, and `lost` says that this very
request was discarded, because it came before the start or found the queue full.
`TerminalFollows` excuses the lost request alone; a loss before it does not matter.
It states the cut to the width as the code makes it and does not judge it. The
lease appears by what acquire and release leave. Writing the error message waits
until the client reads or leaves.

### ProxySession

One variable per goroutine says where it is; the reader's channel is `pending`,
and a request that does not fit stays at the head of `reqs` until it does, as the
blocked reader holds it. `validProxyRequest` is kept with its two locals `started`
and `pty`; payloads are abstracted to what the filter lets through ("bad" stands
for everything it never does). The sshd of the pod may grant or refuse, write, end
its output, send its exit and close, in any order it likes or never; `granted` is
a ghost of what it has granted. Output is counted, per stream. The lease appears
by what `acquireWorkspace` and release leave. Replies to the client are left out.
A connection that is lost cancels at once (`ClientLeaves`). This is an
idealisation: the SSH library's reader of the connection can itself wait for a
channel whose buffer of 16 incoming requests is full, so with `pending` full as well
the loss may be noticed later.

### ForwardChannel, SSHForward, KubeForward, Forwarding

`at` is the place of the body of `Forward`; `direct` selects which body runs. A
function given to `context.AfterFunc` is off, armed, fired (its goroutine exists,
a stop comes too late) or has run: the races of `OpenWorkspaceSSH` and `forwardSSH`
are between "fired" and the stop. A deadline that passes makes the connection
useless, which is the same as closing it. Input is counted where it waits:
`buffered` in the proxy, `queued` at the sshd. `polite` is a ghost: the client left
after it was told of the end of the output and nobody had cancelled. `broken` is a
ghost: the transport or the service failed. In `KubeForward` a reader of a closed
or reset stream may see an error or an end, and `select` takes any ready case.
So a connection that breaks, or that the closer cuts, can end both copies with an end
and no error, and output is lost behind a nil result: `NothingLostOrHidden` excepts
exactly these two causes.

### WorkspaceUse

The contract that the three kinds of channel handlers have in common: the lease is
taken once; something streams between client and pod only while it is held, and
only what was asked for and is allowed (a loopback port); the pod is told of the
end of the input only when the client has ended, the stream is gone, or the output
has ended over a backend without `halfClose`; the lease is given back when nothing
streams any more, and the client is told the end after that. `Use` in each module is
the refinement mapping. For a session `attached` is the exec stream and the library
ends the input (external, so `inputEnded` stays FALSE); for a proxied one it is the
channel to the sshd; for a forward it is the sshd's channel or the SPDY connection,
labelled with the port that was really passed to `Forward`, so that a port changed
on the way would not refine.

`halfClose` is true of everything over SSH and false of a forward over the API:
there `data.Reset` (`internal/k8s/portfwd.go:83`) takes the input of a client that
still writes away once the service has ended its output. The contract allows this,
and promises only that it does not happen before.

### Server

`conn` is the place of `handleConn` for each connection, `sock` whether its
transport works, `queue` the channels the client has opened and the loop has not
received. Channel handlers are counted; what they do is in the other modules, which
also show that they return once their context is done and the client is gone
(`SessionEnds`, `ProxyEnds`, `ForwardEnds`): that is the fairness `Server` assumes
of them. A rejected channel type leaves the queue and starts nothing.

## 3. Runs

| Run | Instance | States | Shows |
|---|---|---|---|
| `lease_safety` | 3 handlers, 2 pods, 3 lease objects, symmetry | 16 thousand | types, exact counters, no overlapping calls, sessions keep their pod, nothing abandoned, refinement, nothing started during shutdown |
| `lease_liveness` | 3 handlers, 1 pod, 3 lease objects | 36 thousand | refinement with fairness, waiters proceed, disconnected clients let go, shutdown drains |
| `auth` | 2 users, 2 connections, 1 key, TTL 2, fetch 1, handshake 1, time 0–4 | 6 million | the age of what the cache answers, the bounds on revoked and on shared keys |
| `session` | queue of 1, sizes mod 3, 4 requests | 183 thousand | no send on the closed queue, exit-status last, the terminal follows, everything ends, `WorkspaceUse` is implemented |
| `system` | 3 pods built, 2 handlers, 1 crash, symmetry | 1.4 million | endpoints and credentials belong together, no leftover pod, no used pod for a new lease without a failure, no change of backend |
| `proxy` | `pending` of 1, 2 requests of 5 kinds, 1 unit of output per stream | 257 thousand | report last, exit preserved, one process, everything ends, `WorkspaceUse` is implemented (the input stays open) |
| `forward` | ports of 1 bit, buffers of 2, both backends | 101 thousand | setup leaves the transport alone, input drained, nothing lost or hidden, everything ends, `WorkspaceUse` is implemented (the port is exact, SSH keeps the input open) |
| `server` | 2 connections, 2 channels each | 12 thousand | Serve returns last; handshakes, connections and Serve end |
| `proxy_pending` | as `proxy` | – | **violation**, see below |
| `auth_ttl` | as `auth`, 1 user, fetch 2 | – | **violation**, see below |
| `system_dying`, `system_ephemeral` | 2 pods, no crash | – | **violations**, see below |

Why these bounds. Three handlers are the fewest of which one can hold the token
while one waits and one arrives, and with a second pod lease addresses move from
one pod to another. Two connections are enough for an old answer to overwrite a
new one; time 4 exceeds TTL + fetch, so entries are filled slowly, used late and
expire. Three pods give a predecessor, its successor and one whose Create is late.
Four requests are a terminal, a start and two resizes: with a queue of one the
first size already fills it, so that the first resize can be lost and the second
one make up for it. In `proxy`, with `pending` of 1 the second request
already blocks the reader, and two requests are a terminal and a start, or two
starts; one unit of output is enough to be left behind. In `forward`, destinations
up to twice the width reach the first number beyond it, 0 and the numbers that wrap
to a valid port; a buffer of 2 can be partly copied. In `server`, one connection
can be accepted late while the other one is served. The unbounded statements are the proofs'.

Symmetry is used only in runs without liveness. The runs
of channels and of the server (`session`, `proxy`, `forward`, `server`) turn the
deadlock check off: a channel that has ended does nothing more.

### Fairness

`lease_liveness`: weak fairness of each handler's own steps (a runnable goroutine
runs; `EnsureWorkspace` carries a timeout of two minutes and `DeletePod` one of
30 s, so both return), strong fairness of the two receives from a gate (blocked
receivers of a Go channel are served in order of arrival). A connected session
may last for ever; one whose context is done ends its stream and releases. Clients
need not come, leave or be cancelled.
`session`: weak fairness of the three goroutines; the process in the pod may run
for ever unless the context is done, and the error message may wait as long as
the client is there.

`proxy`: the reader, the handler, the forwarder, the output copiers and the function
that closes the transport run when they can. `OpenChannel` has no timeout: it is
sure to end only when the context is done, which closes the transport. The copier
of the input may wait in a write until the backend reads or is closed, and a message
for the client until it reads or leaves. Nothing is assumed of the client or the pod.
`forward`: the same, and timers fire (15 s for the dial, 5 s for the drain); the API
server answers the requests of the setup. The last is an assumption about the
cluster, not about the code: after the dial nothing bounds how long `spdy.Negotiate`
(`internal/k8s/portfwd.go:35`) waits for the answer to the upgrade. The kubelet and
the sshd may keep silent for ever.
`server`: runnable goroutines run, the 15 s deadline passes, a handshake over a
closed transport fails, and a handler returns once its context is done and its
transport closed.

### Disagreements with the documentation

* `auth_ttl`: "removed users/keys stop working within one TTL"
  (`internal/auth/github.go:19-20`). The entry is stamped when the answer has
  been read (line 62), so the time of the fetch comes on top. What holds, and is
  proved, is TTL + fetch timeout + handshake deadline up to the login.
* `system_dying`: "Never execute in a dying pod" (`internal/k8s/lifecycle.go:218`).
  `waitForPodReady` does not look at the DeletionTimestamp; a pod that is evicted
  after `ensurePod` looked is still handed to the session.
* `system_ephemeral`: ephemeral data "is discarded when the last closes" (ADR 004).
  A failed cleanup is logged and forgotten; the next session reuses the pod with
  its data.
* `proxy_pending`: "Observe client channel closure even while provisioning or
  handshaking" (`internal/server/sshproxy.go:24`). Once `pending` is full the reader
  is blocked on it and learns of the closure only when the forwarder takes a request
  or something else ends the context; a client that closes its channel (and keeps
  its connection) meanwhile goes unnoticed. With room in `pending`, or when the
  connection ends too, everything ends, which is `ProxyEnds`.

## 4. Proofs

All theorems hold for every value of the constants under the named assumptions of
the modules (finitely many handlers; `Nil` is no object; the timeouts are natural
numbers and the TTL is positive; the queues have room for one; `Absent` is no
object).

* **Leases** (`LeaseProofs`). None of the properties is inductive: that calls do
  not overlap needs that handlers of a pod share a lease, that needs the exact
  user count, and that a pod with sessions is not deleted needs the exact active
  count. `IInv` is the conjunction: `SlotInv` (what an idle or busy slot
  refers to), `MapInv` (a lease in use is in the map, and the map is injective),
  `CountInv` (both counters are cardinalities), `GateInv` (one token), `CallInv`
  (the last backend call agrees with the handlers' places), `CancelInv` (shutdown
  reached everybody). `CountMoves` says how a count changes when one handler moves.
  From it: `LeaseTypes`, `LeaseSerializes`, `LeaseAgrees`, `LeaseKeepsSessions`,
  `LeaseAbandonsNothing`.
* **Refinement** (`LeaseRefinement`). Under `IInv` the phase of a pod is a function
  of the places of its handlers; every action is then a step of `WorkspaceService`
  for one pod or leaves the abstract state alone (`LeaseImplementsService`). The
  same reading gives `LeaseShutdownStartsNothing`.
* **Authentication** (`AuthProofs`). The invariant carries evidence: a list that
  contains (or lacks) a key shows that the key was (or was not) published at some
  moment since t. Evidence never goes stale; `EntryInv` bounds t for the cache,
  `FetchInv` for a running fetch, `MatchInv` for what a connection has concluded.
  `AuthCache` is what `EntryInv` says of an entry that is still used;
  `AuthRevocation` and `AuthAmbiguity` follow at the login.
* **Sessions** (`SessionProofs`). `Stage` lists what is open, held, running and
  reported at each place of the handler, `Newest` says where the newest size is.
  From them: `SessionTypes`, `SessionNeverPanics`, `SessionReports`,
  `SessionFollows`.
* **System** (`SystemProofs`). `Calls` ties the manager's place to the phase of the
  lease, `Unique` says that a uid is used once (also by a Create still on its way
  and by what the running call has seen), `Mounts` that a Secret stays with its pod
  or a stranger and a container with the Secret it started with, `Keys` that the pod
  of the endpoint still has its Secret, `Backend` that an SSH pod that slipped under
  an exec lease has none of its own, `Leftovers` which pods are nobody's. From them:
  `SystemTypes`, `SystemEndpoint`, `SystemEndpointKeys`, `SystemOwnCredentials`,
  `SystemLeavesNoPod` and the action properties `SystemReuse` and `SystemBackends`,
  for any number of pods and restarts. `SystemReuse` needs two facts about every
  step beside the invariant: where a new pod comes from (`PodOrigin`) and what marks
  one as used (`Marks`).
* **Proxied sessions** (`ProxyProofs`). `Stage` and `Untouched` follow the setup,
  `Copied` says that an ended copier has left nothing for a client that is there,
  `Causes` who can have cancelled, `Filter` that what the forwarder remembers covers
  what was granted and that a request under way is still valid when it is answered
  (`GrantKeeps`). From them: `ProxyTypes`, `ProxyReportsLast`, `ProxyPreservesExit`,
  `ProxyOneProcess`, `ProxyKeepsInput`.
* **Forwards** (`ForwardProofs`). `Stages` says which body can be where, `Guards`
  which of the setup's functions can still fire and why a transport can be closed,
  `Copiers` and `Loop` what each completion says about the input, and why the loop
  can have been left; `Readers` the same for the API. From them: `ForwardTypes`,
  `ForwardsTarget`, `ForwardKeepsTransport`, `ForwardDrainsInput`,
  `ForwardHidesNothing`.
* **Server** (`ServerProofs`). `Quiet` says where handlers can run and transports be
  open; `ServerReturnsLast` follows. `Counted` bounds the handlers for `ServerTypes`.
* **Use of a workspace** (`SessionProofs`, `ProxyProofs`, `ForwardProofs`). Each
  handler implements `WorkspaceUse`: `SessionImplementsUse`, `ProxyImplementsUse`,
  `ForwardImplementsUse`, one case per action, under the invariants above. For
  forwards these do not say enough; `ForwardHolds` adds which place of the body
  holds the lease, a transport and a channel. What follows of every implementation
  is proved of the abstract specification and carried over
  (`SessionKeepsUse`, `ProxyKeepsUse`, `ForwardKeepsUse`): what streams is what was
  asked for, under the lease, and nothing happens to the lease after the client
  was told the end.

### Why things end

Liveness itself is out of the prover's reach, and so is ENABLED. What the argument
for it consists of is not, and is proved for every instance:

* *Never stuck.* Until everything has ended, one of the actions that the fairness
  assumption names can be taken. Its guard is written out (`CanMove`, `ConnMoves`,
  `ServeMoves`, `Gated`): `SessionNeverStuck`, `ProxyNeverStuck`,
  `ForwardNeverStuck`, `ServerNeverStuck`, `LeaseNeverStuck`. Nothing in them relies
  on the pod, the sshd, the kubelet or the client. The one circle of waits that
  exists, a proxied session that is not cancelled and whose `pending` is full
  (`proxy_pending`), is the hypothesis of `ProxyNeverStuck`, and `ProxyWindsDown`
  shows that a session outside it stays outside.
* *Winds down.* Once the client is gone, every step, of whoever it is, makes a
  natural number smaller: `SessionWindsDown`, `ProxyWindsDown`, `ForwardWindsDown`.
  For a connection without a transport it is `ServerClosesDown`, for a handler
  inside `acquireWorkspace` or release `LeaseAdvances`. So nothing can
  go round in circles, however much a service writes.

The strengthenings this needs (`Wake`, `Bounded`, `TokenInv`) say what a
cancellation wakes: a blocked open has a function armed that will cut its transport,
a copier that outlives the body has a closed stream, a gate without its token has a
holder. The last step, from these two facts and the fairness to "it ends", stays with
TLC (`SessionEnds`, `ProxyEnds`, `ForwardEnds`, `ConnectionsEnd`, `WaiterProceeds`).

Only model-checked: everything under fairness (`ImplementsService`,
`WaiterProceeds`, `DisconnectReleases`, `ShutdownDrains`, `SessionEnds`, `ProxyEnds`,
`ForwardEnds`, `CompletionsArrive`, `ConnectionsEnd`), which the prover does not
handle.  `InputStaysOpen` and `TargetExact` are proved by name (`ProxyKeepsInput`,
`ForwardsTarget`) and checked by TLC as parts of `WorkspaceUse`. The types of
authentication, the composed system, a forward and the server (`AuthTypes`,
`SystemTypes`, `ForwardTypes`, `ServerTypes`) are only proved.

## 5. Not modelled

* The replies to requests and to the server's global requests: they change no state.
* Byte streams, logging, the text of messages, the fields of pods and Secrets that
  no property tells apart.
* Names (`internal/workspace`) and the user name check: pure functions on strings
  called once per connection. A hash keeps pod names apart; what is left to say is
  about characters and lengths, which a model would repeat rather than check.
* `Attach` and `Exec` (one library call), configuration, host key, entry point:
  sequential code that runs once or keeps no state. The signal of the entry point is
  `Shutdown` of `Server` and of `WorkspaceLease`.
* The image, its sshd and the chart: outside the process; the sshd appears as the
  backend of `ProxySession` and `SSHForward` and as `PodStarts` and `PodEnds`. The
  image cleanup is a script of the repository's CI.
* Several voidshell instances on one namespace: excluded by ADR 004 and the chart.

## 6. Plan

1. *Done*: leases with their abstract specification and refinement;
   authentication; pod manager and composition; session channels.
2. *Done*: proxied sessions, forwards over both backends, the server; proofs of
   their safety and of the composed system's.
3. *Done*: the common abstract specification of the channel handlers and the three
   refinements; progress and termination measures of every component with
   goroutines of its own.
4. An abstract specification of the data of a forward (a pipe that loses nothing
   unless it is cut), implemented by both bodies; progress of the pod manager's
   calls.
