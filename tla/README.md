# SMESH: TLA+ models, checks and proofs

SMESH is a service mesh for Kubernetes pods. eBPF programs redirect the TCP
connections of a pod to a local proxy; the proxy carries them to the proxy of
the destination pod, with TLS when the pod has certificates; a controller
injects the proxy into pods and issues the certificates. This directory models
these parts in TLA+, checks them with TLC on small instances and proves the
central properties with TLAPS for all instances.

## 1. Inventory

| Part | State | Operations | Interacts with |
|---|---|---|---|
| eBPF programs (`ebpf/mirrors.c`, `mirrors.h`) | `map_config` (array of 1), `map_socks` (cookie -> destination), `map_ports` (source port -> cookie) | `cg_connect4`, `cg_sock_ops`, `cg_sock_opt` | every connect() of the cgroup, the proxy's getsockopt |
| Loader (`manager.LoadEPF`) | which programs are attached | attach x 3, config update | the programs; nothing is pinned |
| Tunnel (`connection.go`) | per connection: two handlers, four `io.Copy` loops, three TCP connections | `internalProxy`, `handleExternalConnection`, `handleTLSExternalConnection` | client, server, the other proxy |
| Destination lookup (`utils.go`) | none | `findTargetFromConnection` | `cg_sock_opt` |
| Sidecar (`manager.Setup`, `manager.Start`) | `c.Certificates`, `c.ClusterAddress`, three listeners | open listeners, `GetEnvCerts`, `GetFSCerts`, accept loops, dial | other sidecars' connections arrive meanwhile |
| dtunnel (`dtunnel/main.go`) | the sidecar's, with `ProxyFunc` | the same, and `getHost` before every TLS dial | as the sidecar |
| Controller (`controller/cmd`) | CA, last certificate, informer cache | start, `OnUpdate`, `OnDelete`, shutdown, `prestop.sh` | API server: pods of all namespaces, secrets, webhook configuration |
| Webhook (`webhook.go`, `sidecars.go`) | none | admission, patch | API server, which asks it about every Create and Update of a pod; the secret name it writes is meant to be the one the controller creates |
| watcher command, ephemeral, demo, manifests | see PROJECT.json | | |

What is hard, and what makes each part correct:

* **Maps** are shared by all connections of a node, never cleaned, keyed by
  source port: ports are reused, sockets are reset under the proxy's hands,
  the sidecar restarts. Correct: the proxy never takes one connection for
  another and finds the destination of every one it is sent; the proxy's own
  connections, to other proxies and to original destinations, are never
  redirected.
* **Tunnel**: header and ack travel in the data stream without framing; each
  direction ends on its own. Correct: each direction is a pipe, the end never
  overtakes data, every end is passed on, nobody waits forever.
* **Start** accepts before it has certificates. Correct: with certificates
  nothing leaves in the clear; nothing is served with unusable ones.
* **Controller**: events are lost between watches, the process restarts, API
  calls fail, and secrets go by the bare name of a pod while the informer sees
  all namespaces. Correct: one CA, every meshed pod gets a certificate for its
  own address, no secret outlives its pod.
* **Webhook**: it is asked again about every update of pods it has injected,
  and about pods created while it was away; requests fail while it is
  registered and down, and a controller without its CA never comes back.
  Correct: the mark "injected" is never a lie of the webhook's, a pod is
  admitted in the end, and an injected pod can be updated and let go.

PROJECT.json lists the hazards line by line with the properties aimed at them.

## 2. Modules

| Module | Models |
|---|---|
| `Mirrors` | the three programs, their maps, LoadEPF, restarts; external: the kernel's sockets |
| `MirrorsProofs` | TLAPS proofs about `Mirrors` |
| `Pipe` | abstract: one direction of a transparent connection |
| `Tunnel` | one connection through both proxies; each direction refines `Pipe` |
| `TunnelProofs` | TLAPS proofs about `Tunnel`: types, handshake, what a step does to the queues |
| `ChainProofs` | TLAPS lemmas about queues that hand numbered pieces on |
| `TunnelUpProofs` | TLAPS proof that the direction up implements `Pipe` |
| `TunnelDownProofs` | TLAPS proofs that with TLS the direction down does, that without it only its start is missing, and that its end comes last |
| `Sidecar` | `Start` of several sidecars and dtunnels against arriving connections |
| `SidecarProofs` | TLAPS proofs about `Sidecar` |
| `Controller` | the controller; external: API server, kubelet, informer |
| `ControllerProofs` | TLAPS proofs about `Controller` |
| `Webhook` | admission and patch of pods while the controller comes and goes; external: API server |
| `WebhookProofs` | TLAPS proofs about `Webhook` |
| `MCMirrors`, `MCTunnel`, `MCSidecar`, `MCController`, `MCWebhook` | constants for TLC |

`Mut...` operators in the modules are faulty forms of the definition that
follows them; each property of a passing run is violated when one of them
replaces the real definition.

### Mirrors

`phase` is how far the sidecar has got: programs attached (`Attach`, in the
order of LoadEPF), config written (`UpdateConfig`), listener open. `cg_connect4`
is a whole connect(): the tests of the program, `map_socks`, the rewritten peer,
then the kernel's choice of a source port whose 4-tuple is free.
`cg_sock_ops` is the end of the handshake; `findTargetFromConnection` is the
proxy's getsockopt with the lookups of `cg_sock_opt` (`Found`); when a lookup
misses, the kernel's own answer stands, which is an error or, with connection
tracking, the proxy's own address. `bpf_map_update_elem` fails silently on a
full map, as no caller looks at its result. `Key` is the low half of the cookie.
`InNetwork` is a set because the shift by 32 is undefined: both outcomes of a
build are in it. `Numbers` are the pids of a process from the node's namespace
inwards; `ns_pid_ppid` reads the one at the level of the namespace of its
children, which after an unshare() is below its own: the read then passes the end
of the array and gives any value, one that equals the proxy's pid included.
`Exit` empties the maps, since nothing is pinned; the history variable `orphans`
collects the connections that were redirected by then and are still alive.
`MayConnect` says which process dials what: an application anything, the proxy
both the tunnel ports of the cluster (`InternalDial`) and, for the connections
other proxies bring it, any original destination on any port but its own listener
(`ExternalDial`). Data left out:
byte order, IPv6 and UDP (returned from at once), printk.

### Tunnel and Pipe

Every direction of the three TCP connections is a bounded FIFO `ch[..]` with
`fin`, `dead` and `rst`; close() with unread input and writes to a closed end
reset the connection and may lose what was in flight. The handlers are the pc of
"I" and "E", the four `io.Copy` loops hold at most one piece. A read into the
256-byte buffer takes one TLS record or, in plain mode, any available pieces
up to `ReadBuf`; header and ack are one piece each (21 bytes and one byte, each the
first write in its direction, which come in one segment or record, so a read
is never shorter than they are); whether there is TLS is chosen at the start (`Mode`). `Returns` is
the deferred closes. `Pipe` says the receiver's
sequence only ever grows by the next piece the sender sent; `UpIsPipe` and
`DownIsPipe` instantiate it with the applications' histories, `TLSDownIsPipe` the
latter for behaviours with TLS. `DownSkipsOnlyStart` is what is left of it in plain
mode: up to `ReadBuf - 1` pieces, read together with the ack, are missing at the start
(`Missed`) and nothing after that; `EndAfterData` is stated for both modes.

### Sidecar

`stage` follows `Start` line by line; a connection is accepted from `INTERNAL`
on and dialled according to the `c.Certificates` of that moment. The unsynchronised
read of `c.Certificates` is a single word that changes once, so a read gives the
old or the new value; a step of the model is the moment the write is visible.
"bad" certificates are present but do not parse: fatal in
`StartExternalTLSListener` and in `internalProxy`. What a sidecar is given
(certificates in environment and files, the flag `-overrideAddress`,
`KUBE_NODE_NAME`, whether it is a dtunnel) is its `config`, one of several
setups chosen at the start. With the override (`ClusterAddress`) every dial goes to
the plain port of one address, also one with TLS: the state "hello", whose
handshake `Serve` takes for a destination. A dtunnel ends at its first TLS dial,
since its Kubernetes client is never set.

### Controller

A `Key` is a pod as the informer sees it, with `NsOf` its namespace and `NameOf` its
name; secrets are kept by namespace and bare name (`SecretOf`): `OnUpdate` stores them
in `default` whatever the pod's namespace, `OnDelete` deletes in the pod's. One action per step of `main`, then the informer's handlers: an object the
cache knows is an `OnUpdate`, a new one an `OnAdd` (which does nothing), a broken
watch is a new list compared with the cache, and pods deleted meanwhile arrive as
`DeletedFinalStateUnknown`, on which `OnDelete` panics. The informer and the
webhook server start in goroutines of their own (`StartWatcher`,
`ListenAndServeTLS`). A CA is named by the start that made it, a certificate by
its address and CA; `ctl.cert` is the last one made, at first the webhook's own,
which has no address. `CreatePod` is the admission as seen from here: refused
unless the registered webhook answers, injected or left alone. `EnvCA` says whether a start may find the stored CA in its
environment (as `watcher/deployment.yaml` arranges) or not. Calls of the API in
the handlers may fail (`CallFails`); a failed call during the start is fatal and
part of `Crash`.

### Webhook

A pod is the part of the object the webhook looks at or writes: name (empty while
there is only a generateName), namespace, the two annotations, init containers,
`shareProcessNamespace`, a finalizer and the deletion mark. `mutationRequired`,
`addInitContainer`, `updateAnnotation` and `createPatch` are operators; the result
of a patch is a set, empty when it does not apply: the path of the "replace" in
`updateAnnotation` has the slash of the annotation's key unescaped. `Admission`
is the API server: it passes objects by when the webhook is not registered
or the namespace is not labelled, and refuses them when nobody answers. An update
may not change containers (`Updates`), so one that is patched is refused. Owners may
bring the mark themselves, in a manifest or with an edit; the webhook believes
them, and the history variable `selfMarked` remembers whom. The
controller is reduced to finding its CA, registration, serving, `preStop.sh` and
its end, which may leave the registration behind. `LoadCA` is the start as far as
`loadCA`: with the CA in the environment (`env`), or with none stored, it goes on;
otherwise it is fatal, and so is every later one. `Abandoned` is the outcome of that
with a registration left: with the repository's own manifests, which give the
controller no CA, one crash is enough.

## 3. Runs

| Run | Instance | Shows |
|---|---|---|
| mirrors_pod | 1 pod, 3 sockets, 2 ports, room for 3 | every connection the running programs redirected is resolved to its own destination, others to that or to the kernel's own answer; the proxy is not redirected |
| mirrors_full_violation | map of 1 entry | finding: a connection that did not fit is misrouted |
| mirrors_node_violation | 2 pods on the node | finding: equal ports of two pods are mixed up |
| tunnel | with and without TLS, 2 pieces up, 3 down, queues of 2, fairness | direction up refines `Pipe`, with TLS down too, without it only the start of the direction down may be missing; end after data; handshake ends, loopback refused, ends reach the client |
| tunnel_plain_violation | plain mode | finding: the ack read swallows data |
| tunnel_hangup_violation | fairness | finding: the client's end is not passed on |
| sidecar | 3 pods in 4 setups (certificates in files, in the environment, unusable, none; override; dtunnel), 3 connections, 2 kills, fairness | nothing late in the clear; bad certificates serve nobody; backlog served |
| sidecar_violation | certificates in files | finding: early connections leave in the clear |
| controller | a pod made twice and one of the same name in another namespace, 2 starts with or without the CA in the environment, 1 of: moved sandbox, broken watch, failed call; fairness | one CA everywhere, certificates for the own address of the only pod of a name, watched pods get certificates, secrets are collected |
| controller_missed_violation | 2 starts, fairness | finding: pods with an address before the first list are missed |
| webhook | a named pod, one of a Job, one with a foreign status, one that brings the mark, one of the system; 2 edits (declining, asking, marking), 1 end of the controller, which has the CA in its environment or not, fairness | the mark is never the webhook's lie, pods are admitted and marked pods can go unless the webhook is abandoned |
| webhook_violation | the same pods | finding: a pod made from a template refers to a secret nobody makes |

**Bounds.** Three sockets and two ports are what port reuse needs: an old
owner, a new one, and a bystander. Queues of 2 and 2 or 3 pieces let every buffer
fill, and let the header, the ack and data share a queue. Two killed sidecars
(`MaxExits`) let both ends of a connection be restarted; those that end over their
certificates are not counted. Two pods under one key (`MaxInc`) show reuse of
the name with a secret before and after, a third in another namespace the
sharing of its secret; the second start of the controller (`MaxStarts`) meets
everything the first left behind, at any point of its life, and one trouble
(`MaxTrouble`) is enough because each is handled without memory of an earlier
one. In `Webhook` one end (`MaxEnds`) lets the webhook be away with and without its
registration, and come back or, without its CA, never; two edits (`MaxEdits`) let a pod
decline or be marked and be edited again. Every bound is a constant named in its module.
Deadlock is not checked: sockets, pieces, pods and starts are used up in every
model, and a system with nothing to do may rest.

**Fairness.** Weak fairness for what the code itself does: goroutines that can
run (the Go scheduler is fair), dials (they have timeouts), accept loops, the
informer's handlers, the restart of containers by the kubelet or the
Deployment: a start is attempted, and in `Controller` and `Webhook` it may still be
fatal in `loadCA`, every time. In `Webhook`, who wants a pod created or must release one tries
again (as Deployment and Job controllers do), and a controller whose `preStop.sh`
has run is ended. Applications are fair only in reading what arrives. Nothing
is assumed of clients' sends and closes, of deleting pods (and, outside `Webhook`,
of creating them), or of
failures.

**Findings.** The `violation` runs each check one sentence of the repository's
documentation or comments against the code; PROJECT.json quotes the sentence and
says what the counterexample shows.

## 4. Proofs

`MirrorsProofs`, for every number of processes, sockets, ports and map sizes:

* `TypeCorrect`.
* `TrackedCorrect`: assuming one namespace (`OneNamespace`) and cookies that do
  not collide in 32 bits (`DistinctKeys`), `TrackedNeverMisrouted`. The property
  is about resolved connections only; what makes it hold is earlier: a key
  belongs to its socket (`KeyOwner`), no two live connections to the proxy share
  a port (`PortUnique`), a connection waiting for its lookup is the last owner of
  its port (`PortOwner`), and only connections to the proxy are accepted
  (`SocketHistory`). Their conjunction `MapsConsistent` is inductive; the
  delicate steps are connect (no free 4-tuple is taken twice) and the
  handshake (the port gets its new owner before the proxy can accept).
* `MapsStayComplete`: with room for every socket (`Room`) also `MapsComplete`,
  which adds that every live connection the running programs have redirected is
  tracked (`RedirectedIsTracked`), that an unknown one finds no entry for its
  port (`NoStalePort`) and that keys belong to opened sockets; with `Room` and
  cardinality the latter shows that an insert never fails. `NeverMisrouted`,
  `ResolvesOwnDestination`, is its last conjunct.
* `RedirectedFound`: under the same conditions `RedirectedIsFound`. With
  `RedirectedIsTracked` it follows from the lemma `TrackedFound`: the lookup of a
  connection in the maps does not miss. `FoundInv` adds that a tracked connection
  waiting for its lookup has an entry for its port while the programs run
  (`WaitingIsFound`), and that no two entries of `map_ports` belong to one socket
  (`PortsRecorded`), so that there is always room for one more (`PortFits`).
* `ProxyDirect`: `ProxyNotProxied` without any of these conditions, for
  the cluster ports and for any original destination, from
  `ConfigWritten`: the proxy dials only after the config with its pid is written.

The conditions are not idle: without `Room` (mirrors_full_violation) and without
`OneNamespace` (mirrors_node_violation) TLC finds a counterexample. That
connections the maps know stay right when the maps are full is the theorem
`TrackedCorrect`; TLC checks its invariant as a part of `MapsComplete`.

`SidecarProofs`, for every number of pods and connections and any certificates:

* `SidecarTypeCorrect`.
* `LateEncrypted`: `NoLatePlain`. It is not inductive by itself: a late
  connection still waiting for its dial must belong to a sidecar that still has
  its certificates. `LateInv` adds `CertsFinal` (a stage past the search has what
  could be found) and `LateWaiting` (the end of a process takes its accepted
  connections with it). `LateStays` is that `LateInv` itself, which the run
  `sidecar` checks too, always holds.
* `BadServesNobody`: `BadCertsServeNothing`. `ServedInv` adds what makes it
  hold: a sidecar past the check of its certificates has no bad ones, and only
  such a sidecar has connections of others; the delicate step is its end, which
  must take along the connections it serves, those that reached it through an
  override included.

`TunnelProofs`, `TunnelUpProofs` and `TunnelDownProofs`, for any number of pieces,
any size of the buffers, with and without TLS unless said otherwise:

* `TunnelTypeCorrect` and `HandshakeOrder`. `Base` is inductive: the types, who has
  closed what given where the two handlers are (`EndsInv`), which handler waits
  for which (`Order`), and that the header is alone in its queue until it is read
  and the ack comes before all data (`HeaderAlone`, `AckFirst`). One group of
  lemmas says what each action does to the queues (`Put`, `Got`, `Cut`, `Shut`,
  `Gone`, `Refused`); all the other proofs use these instead of the actions.
* `UpPipe`: `UpIsPipe`, the refinement of `Pipe`. That the server's sequence is a
  prefix of the client's is not inductive. `UpInv` is about all six places a
  piece can be at (three queues, what two `io.Copy` loops hold, and the
  server's end), a `Chain` in `ChainProofs`: from the server's end on the places
  hold the pieces 1, 2, ... without a gap, at least as far as the first place
  that may have lost some. This bound is needed because an end that is closed or reset drops
  its queue while pieces behind it still move: what lies behind the hole must
  be shown never to pass it. Every step moves a piece one place, appends one, or
  cuts places off (`MoveChain`, `NewChain` and their kind); so every step
  of `Tunnel` is a step of `Pipe` or leaves it alone.
* `TLSDownPipe`: the same for the way down with TLS; without TLS the theorem is
  false (tunnel_plain_violation).
* `OnlyStartMissing`: `DownSkipsOnlyStart`, the exact extent of that finding. The
  ack is left out of the chain until it is read. What the read takes besides it
  counts as received: the first place of `DownPlaces(m)` starts with these m
  pieces, and `ReadAck` is the one step at which m changes (`SkipChain`). That it
  may jump over the places in between needs `NothingYet`: before the ack is
  read nothing has reached the client or its queue.
* `EndsAfterData`: `EndAfterData`, in both modes. It needs that nothing is lost without a reset:
  `DownInv` keeps count of the pieces ("all"), and `EndInv` says in which
  order the ends are passed on (the server's, the external handler's,
  internalProxy's, the client's). `NoLoss` is the step of a handler that closes:
  its queue and its hands are empty, and its unread input too unless that
  is the reset.

These invariants were checked with TLC on 3 pieces in each direction (with 4 down and 1 up in
both modes for `DownInv`) and queues of 2 before the
proofs.

`ControllerProofs`, for any pods, names, namespaces, addresses and bounds; the
assumptions on constants are that keys are finitely many and told apart by
namespace and name, and that `NoIP` is no address:

* `ControllerTypeCorrect`. It needs `HasCA`: a controller that goes on has a CA, or a
  secret could be written without one.
* `OneCA`: `AllFromStoredCA`. `CAInv` adds that a controller that has come to
  register has the stored CA (`HasStoredCA`): this is where `loadCA`, which
  ends the process over an existing secret it was not given, is needed.
* `OwnAddress`: `OwnCert`, for the only pod ever created under its name, in any
  namespace (`OnlyOne`). `OwnInv` is about everything that has heard of the
  address of such a pod: the events on their way from the watch (`Heard`) and the
  secrets of its name in all namespaces (`Holds`); what the cache holds decides
  whether a handler acts, never with which address. `Announced`, that no event
  tells of a pod never created, keeps pods of other keys from storing a
  certificate under the name (`NameUnused`). The delicate steps are `OnUpdate`, which acts on an event that may
  be older than the pod, and `Relist`, which lists everything again.

`WebhookProofs`, for any pods, manifests, namespaces and edits, those that bring the mark
included, and any number of ends of the controller:

* `WebhookTypeCorrect`.
* `MarkNeverLies`: `MarkedIsInjected`, which with the types is inductive. The argument
  is in `UpdatesEffect`: a patch always appends a container, no update that
  changes the containers passes, so the mark comes with the creation, where the patch brings it together
  with the proxy and the shared process namespace, or from the owner of the pod
  (`selfMarked`).

Every invariant of a passing run and both refinements are proved. Only
model-checked is liveness: `HandshakeEnds`, `LoopbackRefused`,
`ServerEndReachesClient`, `RemoteEndReachesClient`, `BacklogServed`,
`WatchedPodGetsCert`, `SecretsCollected`, `EveryPodAdmitted` and `MarkedPodsGo`.
They need fairness and ENABLED, which are outside the prover.

## 5. Limits the models show

Beyond the findings, these hold of the code and bound the properties above:

* `OwnCert` needs that no name is used again or in another namespace, and that no
  sandbox is moved: a secret is created once, under a bare name, and never updated.
  Otherwise a pod may run with the certificate of another of its name.
* The proofs of `Mirrors` assume that the low halves of the cookies differ, which
  takes 2^32 sockets to break, and (but for `ProxyDirect`) that all processes of
  the cgroup are in one network namespace.
* `RedirectedIsFound` leaves out connections that an earlier sidecar redirected
  and did not live to resolve: their entries are gone.
* `WatchedPodGetsCert` and `SecretsCollected` need pods in the default namespace,
  a controller that runs, no failed API call and no broken watch (`Disturbed`): secrets are always created in the
  default namespace, nothing is tried again, and `OnAdd` is empty.
* A start of the controller without certificates in its environment is fatal
  once the secret of an earlier start is there; this is what keeps
  `AllFromStoredCA`.
* Until LoadEPF writes the config, a build whose shift by 32 gives 0 rewrites
  every connect of the node to 0.0.0.0:0.
* With the manifests of the repository that start follows every crash, and if the
  registration is left behind no pod is created or updated any more: the case
  `Abandoned`, outside which `EveryPodAdmitted` and `MarkedPodsGo` hold.
* `MarkedIsInjected` leaves out pods whose owner wrote the mark: they are admitted
  as they are.
* `MarkedPodsGo` is about pods with the mark. A pod created while the webhook was
  not registered has none; once it is registered again each of its updates
  is patched and therefore refused, and a finalizer keeps it forever.
* `EveryPodAdmitted` leaves out pods that bring a status annotation of their own:
  the patch of such a pod never applies.
* With an override every TLS dial fails, and a dtunnel with certificates ends at
  its first connection.
* A process that called unshare() may be taken for the proxy and connect directly.

## 6. Not modelled, and the plan

* `ebpf/vmlinux.h` holds 149959 of the 150325 lines of C: generated declarations of
  kernel types without behaviour. The map can therefore name only a fraction
  of a percent of the C lines; of `mirrors.c` it names nearly all, of
  `mirrors.h` what the programs call (the rest is types and helpers nobody
  calls or that are commented out).
* The `watcher` command is superseded (README.md:119 of the repository); its handlers
  are the ones of `Controller`, what it has of its own (the CA in two files, the
  flags) is sequential.
* `ephemeral` makes one API call; `demo` is a workload; manifests are declarative.
* Left out of modelled parts: logging, byte order, X.509 contents beyond address
  and issuer, HTTP and JSON errors of the webhook, fixed ports and host name of
  `Setup`, two controllers at once during a rolling update, and several sidecars
  that each attach their programs to the node.

Next: the safety that lies beneath the liveness properties, as action properties
with proofs (a refused loopback never reaches a server; a secret is deleted only
when its pod is gone; no update takes the mark from a pod); then a node with
a set of programs per sidecar.
