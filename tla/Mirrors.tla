------------------------------- MODULE Mirrors -------------------------------
(***************************************************************************)
(* The eBPF programs of ebpf/mirrors.c and the part of manager.LoadEPF     *)
(* that attaches and configures them.                                      *)
(*                                                                         *)
(* Every IPv4 TCP connect() of a process in the cgroup runs cg_connect4,   *)
(* which may redirect the socket to the local proxy and remember where it  *)
(* was going in map_socks; the end of the TCP handshake runs cg_sock_ops,  *)
(* which remembers the socket of each source port in map_ports; and the    *)
(* proxy's getsockopt(SO_ORIGINAL_DST) runs cg_sock_opt, which goes back   *)
(* from the source port to the destination.  The programs are attached to  *)
(* the root cgroup, so processes of several network namespaces (pods) may  *)
(* run through the same maps.                                              *)
(*                                                                         *)
(* The kernel's part (source ports, handshakes, accept queues) is external *)
(* and follows Linux: the source port is chosen by connect() after         *)
(* cg_connect4, and the established callback runs before the last ACK of   *)
(* the handshake, hence before the proxy can accept.  A client leaves the  *)
(* choice of its source address to the kernel.                             *)
(***************************************************************************)
EXTENDS Integers, FiniteSets, Sequences

CONSTANTS
  Proc,            \* processes in the cgroup
  NetNs,           \* their network namespaces
  Home,            \* the namespace of the sidecar that loads the programs
  NsOf,            \* [Proc -> NetNs]
  Numbers,         \* [Proc -> Seq(Nat)]: the pids of a process, from that in
                   \* the namespace of the node to that in its own
  ForChildren,     \* [Proc -> Nat]: the level of the pid namespace its
                   \* children get: its own, or below after an unshare()
  Proxy,           \* [NetNs -> Proc]: the proxy of each namespace
  Cookie,          \* socket cookies; each socket of a behaviour has its own
  KeySpace,        \* number of keys of map_socks (a __u32 key: 2^32)
  SrcPort,         \* source ports the kernel may choose
  Dest,            \* destinations passed to connect(): [addr, port]
  AddrBits,        \* width of an address (32)
  PodNet, PodMask, \* the two halves of PodCIDR
  ProxyEP,         \* [addr, port] of the proxy's internal listener
  MAX_CONNECTIONS  \* max_entries of map_socks and of map_ports

ZeroEP == [addr |-> 0, port |-> 0]

ASSUME PlacementAssumption ==
  /\ Home \in NetNs
  /\ NsOf \in [Proc -> NetNs]
  /\ Numbers \in [Proc -> Seq(Nat \ {0})]
  /\ \A p \in Proc : Numbers[p] # <<>>
  /\ ForChildren \in [Proc -> Nat]
  /\ Proxy \in [NetNs -> Proc]
  /\ \A n \in NetNs : NsOf[Proxy[n]] = n
  /\ \A n \in NetNs : ForChildren[Proxy[n]] + 1 = Len(Numbers[Proxy[n]])
ASSUME SocketAssumption ==
  /\ Cookie \subseteq Nat
  /\ KeySpace \in Nat \ {0}
  /\ SrcPort \subseteq Nat \ {0}
  /\ MAX_CONNECTIONS \in Nat
ASSUME AddressAssumption ==
  /\ AddrBits \in Nat
  /\ PodNet \in Nat
  /\ PodMask \in 0 .. AddrBits
  /\ Dest \subseteq [addr : Nat, port : Nat]
  /\ ProxyEP \in [addr : Nat, port : Nat]
  /\ ZeroEP \notin Dest \cup {ProxyEP}

VARIABLES
  phase,       \* how far LoadEPF and Start have got in the sidecar of Home
  map_config,  \* the only element of the array map
  map_socks,   \* key -> original destination
  map_ports,   \* source port -> cookie
  sock,        \* [Cookie -> Socket \cup {Free, Closed}]
  orphans      \* history: the redirected sockets that were open when a
               \* sidecar ended; its maps went with it

vars == <<phase, map_config, map_socks, map_ports, sock, orphans>>

-----------------------------------------------------------------------------
(* The progress of the sidecar: which programs are attached, whether        *)
(* map_config has been written, whether the internal listener is open.      *)
DOWN       == 0
CONNECT4   == 1
SOCKOPS    == 2
SOCKOPT    == 3
CONFIGURED == 4
LISTENING  == 5

ClusterPorts == {18001, 18443}

(* struct Config.  An array map is born zeroed: the lookup of key 0 never   *)
(* fails, and before LoadEPF writes it every field is 0.                    *)
ZeroConfig ==
  [proxy |-> ZeroEP, proxy_pid |-> 0, network |-> 0, mask |-> 0]
Getpid(p) == Numbers[p][Len(Numbers[p])]
ProxyConfig ==
  [proxy |-> ProxyEP, proxy_pid |-> Getpid(Proxy[Home]),
   network |-> PodNet, mask |-> PodMask]

(* A client socket.  reset: the client is gone (RST, or an orphan the       *)
(* kernel timed out) while its connection is still in the proxy's hands.    *)
Free   == [st |-> "free"]
Closed == [st |-> "closed"]
Endpoint == Dest \cup {ProxyEP, ZeroEP}
Socket ==
  [st     : {"connecting", "established", "accepted", "resolved"},
   proc   : Proc,
   dst    : Dest,           \* the destination the process asked for
   peer   : Endpoint,       \* the one cg_connect4 left in the context
   port   : SrcPort,
   target : Endpoint,       \* what findTargetFromConnection returned
   reset  : BOOLEAN]

(* map_socks is declared with a __u32 key and called with a __u64 cookie:   *)
(* the low half of the cookie is the key.                                   *)
Key(c) == c % KeySpace
Keys == 0 .. KeySpace - 1

Tracked(c) == Key(c) \in DOMAIN map_socks
InUse(c) == sock[c] \notin {Free, Closed}
Ns(c) == NsOf[sock[c].proc]
Redirected(c) == sock[c].peer # sock[c].dst

(* The 4-tuple of a socket is taken from connect() until both ends are done *)
(* with it, or until the client's end is gone.                              *)
Holds(c, n, peer, port) ==
  /\ InUse(c)
  /\ Ns(c) = n
  /\ sock[c].peer = peer
  /\ sock[c].port = port
  /\ ~sock[c].reset

(* The other sidecars of the node are taken to be up.                       *)
Listening(n) == n = Home => phase = LISTENING

TypeOK ==
  /\ phase \in DOWN .. LISTENING
  /\ map_config \in {ZeroConfig, ProxyConfig}
  /\ DOMAIN map_socks \subseteq Keys
  /\ map_socks \in [DOMAIN map_socks -> Dest]
  /\ DOMAIN map_ports \subseteq SrcPort
  /\ map_ports \in [DOMAIN map_ports -> Cookie]
  /\ sock \in [Cookie -> Socket \cup {Free, Closed}]
  /\ orphans \subseteq Cookie

Empty == [x \in {} |-> 0]

Init ==
  /\ phase = DOWN
  /\ map_config = ZeroConfig
  /\ map_socks = Empty
  /\ map_ports = Empty
  /\ sock = [c \in Cookie |-> Free]
  /\ orphans = {}

-----------------------------------------------------------------------------
(* Faulty forms of definitions below, for mutation of the checks.           *)

(* The value of map_ports truncated like the key of map_socks.              *)
MutRecordKey(c) ==
  map_ports' = IF Tracked(c)
                 THEN [x \in DOMAIN map_ports \cup {sock[c].port} |->
                         IF x = sock[c].port THEN Key(c) ELSE map_ports[x]]
                 ELSE map_ports

(* BPF_NOEXIST instead of flag 0: an existing entry is kept.                *)
MutUpdateKeepsOld(m, k, v) ==
  IF k \notin DOMAIN m /\ Cardinality(DOMAIN m) < MAX_CONNECTIONS
    THEN [x \in DOMAIN m \cup {k} |-> IF x = k THEN v ELSE m[x]]
    ELSE m

(* BPF_EXIST instead of flag 0: a new entry is refused.                     *)
MutUpdateExistingOnly(m, k, v) == IF k \in DOMAIN m THEN [m EXCEPT ![k] = v] ELSE m

(* The pid in the namespace of the node, as bpf_get_current_pid_tgid has it. *)
MutNsPidHost(p) == {Numbers[p][1]}

-----------------------------------------------------------------------------
(* bpf_map_update_elem with flag 0 on a hash map: overwrite or insert, and  *)
(* E2BIG when a new key does not fit.  No caller looks at the result.       *)
bpf_map_update_elem(m, k, v) ==
  IF k \in DOMAIN m \/ Cardinality(DOMAIN m) < MAX_CONNECTIONS
    THEN [x \in DOMAIN m \cup {k} |-> IF x = k THEN v ELSE m[x]]
    ELSE m

(* The possible values of the test (addr & mask) = network.  A shift of -1  *)
(* by 32 is undefined: a 32-bit shift instruction uses the count modulo 32  *)
(* (mask -1), a 64-bit one leaves no bit in the low half (mask 0).          *)
InNetwork(addr, conf) ==
  IF conf.mask = 0
    THEN {addr = conf.network, conf.network = 0}
    ELSE LET block == 2 ^ (AddrBits - conf.mask)
         IN  {(addr \div block) * block = conf.network}

(* The pid that ns_pid_ppid finds: that of the thread group in the pid      *)
(* namespace of the children of the process.  Below its own namespace       *)
(* a process has no pid, and the read goes past the end of numbers: any     *)
(* value may be there, zero, that of the proxy, or another.                 *)
ns_pid_ppid(p) ==
  IF ForChildren[p] < Len(Numbers[p])
    THEN {Numbers[p][ForChildren[p] + 1]}
    ELSE {0, map_config.proxy_pid, map_config.proxy_pid + 1}

(* The remaining tests of cg_connect4 in front of the redirection.          *)
Redirects(pid, d, inNet) ==
  /\ inNet
  /\ pid # map_config.proxy_pid
  /\ d.port \notin {8080, 8181}
  /\ d.port \notin {18000, 18001}

(* internalProxy dials a cluster port of the original address.              *)
InternalDial(d) == d.port \in ClusterPorts

(* handleExternalConnection and its TLS twin (line 252) dial the address    *)
(* that the other proxy wrote, on any port, unless it is this proxy's own   *)
(* listener.                                                                *)
ExternalDial(d) == d # ProxyEP

(* An application connects where it likes; a proxy dials for connections    *)
(* that its listeners accepted, so only once they are open.                 *)
MayConnect(p, d) ==
  p = Proxy[NsOf[p]] =>
    /\ Listening(NsOf[p])
    /\ InternalDial(d) \/ ExternalDial(d)

(* connect(): cg_connect4, then the kernel's choice of a source port.       *)
cg_connect4(c, p, d, port) ==
  /\ sock[c] = Free
  /\ MayConnect(p, d)
  /\ \E inNet \in InNetwork(d.addr, map_config), pid \in ns_pid_ppid(p) :
       LET redirected == phase # DOWN /\ Redirects(pid, d, inNet)
           peer == IF redirected THEN map_config.proxy ELSE d
       IN  /\ \A o \in Cookie : ~Holds(o, NsOf[p], peer, port)
           /\ sock' = [sock EXCEPT ![c] =
                 [st |-> "connecting", proc |-> p, dst |-> d, peer |-> peer,
                  port |-> port, target |-> ZeroEP, reset |-> FALSE]]
           /\ map_socks' = IF redirected
                             THEN bpf_map_update_elem(map_socks, Key(c), d)
                             ELSE map_socks
  /\ UNCHANGED <<phase, map_config, map_ports, orphans>>

(* The body of cg_sock_ops for BPF_SOCK_OPS_ACTIVE_ESTABLISHED_CB.          *)
RecordPort(c) ==
  map_ports' = IF Tracked(c)
                 THEN bpf_map_update_elem(map_ports, sock[c].port, c)
                 ELSE map_ports

(* The handshake of c completes; cg_sock_ops runs if it is attached.        *)
cg_sock_ops(c) ==
  /\ sock[c] \notin {Free, Closed}
  /\ sock[c].st = "connecting"
  /\ sock[c].peer # ZeroEP
  /\ sock[c].peer = ProxyEP => Listening(Ns(c))
  /\ sock' = [sock EXCEPT ![c].st = "established"]
  /\ IF phase >= SOCKOPS THEN RecordPort(c) ELSE UNCHANGED map_ports
  /\ UNCHANGED <<phase, map_config, map_socks, orphans>>

(* The kernel refuses c, or the attempt times out.                          *)
ConnectFails(c) ==
  /\ InUse(c)
  /\ sock[c].st = "connecting"
  /\ sock' = [sock EXCEPT ![c] = Closed]
  /\ UNCHANGED <<phase, map_config, map_socks, map_ports, orphans>>

(* StartListeners takes c from the accept queue and starts internalProxy.   *)
Accept(c) ==
  /\ InUse(c)
  /\ sock[c].st = "established"
  /\ sock[c].peer = ProxyEP
  /\ Listening(Ns(c))
  /\ sock' = [sock EXCEPT ![c].st = "accepted"]
  /\ UNCHANGED <<phase, map_config, map_socks, map_ports, orphans>>

(* Where the two lookups of cg_sock_opt lead for the source port of c.      *)
Found(c) ==
  /\ phase >= SOCKOPT
  /\ sock[c].port \in DOMAIN map_ports
  /\ Key(map_ports[sock[c].port]) \in DOMAIN map_socks

(* findTargetFromConnection: getsockopt(SO_ORIGINAL_DST) of the proxy.      *)
(* When a lookup misses the kernel's own answer stands: an error, after     *)
(* which internalProxy returns, or with connection tracking the address     *)
(* the client really connected to.                                          *)
findTargetFromConnection(c) ==
  /\ InUse(c)
  /\ sock[c].st = "accepted"
  /\ \/ /\ Found(c)
        /\ sock' = [sock EXCEPT
             ![c].st = "resolved",
             ![c].target = map_socks[Key(map_ports[sock[c].port])]]
     \/ /\ ~Found(c)
        /\ \/ sock' = [sock EXCEPT ![c] = Closed]
           \/ sock' = [sock EXCEPT ![c].st = "resolved", ![c].target = ProxyEP]
  /\ UNCHANGED <<phase, map_config, map_socks, map_ports, orphans>>

(* Both ends of a resolved or of a direct connection are closed.  Nothing   *)
(* is ever deleted from the maps.                                           *)
Close(c) ==
  /\ InUse(c)
  /\ \/ sock[c].st = "resolved"
     \/ sock[c].st = "established" /\ sock[c].peer # ProxyEP
  /\ sock' = [sock EXCEPT ![c] = Closed]
  /\ UNCHANGED <<phase, map_config, map_socks, map_ports, orphans>>

(* The client's end disappears while the proxy still has the connection.    *)
ClientReset(c) ==
  /\ InUse(c)
  /\ sock[c].st \in {"established", "accepted"}
  /\ sock[c].peer = ProxyEP
  /\ ~sock[c].reset
  /\ sock' = [sock EXCEPT ![c].reset = TRUE]
  /\ UNCHANGED <<phase, map_config, map_socks, map_ports, orphans>>

-----------------------------------------------------------------------------
(* LoadEPF loads fresh maps and attaches the three programs one by one ...  *)
Attach ==
  /\ phase \in {DOWN, CONNECT4, SOCKOPS}
  /\ phase' = phase + 1
  /\ UNCHANGED <<map_config, map_socks, map_ports, sock, orphans>>

(* ... and writes map_config only after the last of them.                   *)
UpdateConfig ==
  /\ phase = SOCKOPT
  /\ phase' = CONFIGURED
  /\ map_config' = ProxyConfig
  /\ UNCHANGED <<map_socks, map_ports, sock, orphans>>

StartInternalListener ==
  /\ phase = CONFIGURED
  /\ phase' = LISTENING
  /\ UNCHANGED <<map_config, map_socks, map_ports, sock, orphans>>

(* The sidecar process ends: an attach or the config update failed, it was  *)
(* killed, or it got SIGTERM.  Links and maps are not pinned and go with    *)
(* it, and so do the connections its listener had.                          *)
Exit ==
  /\ phase # DOWN
  /\ phase' = DOWN
  /\ map_config' = ZeroConfig
  /\ map_socks' = Empty
  /\ map_ports' = Empty
  /\ sock' = [c \in Cookie |->
                IF /\ InUse(c)
                   /\ Ns(c) = Home
                   /\ sock[c].peer = ProxyEP
                   /\ sock[c].st # "connecting"
                  THEN Closed
                  ELSE sock[c]]
  /\ orphans' = {c \in Cookie : InUse(c) /\ Redirected(c)}

Next ==
  \/ Attach
  \/ UpdateConfig
  \/ StartInternalListener
  \/ Exit
  \/ \E c \in Cookie :
       \/ \E p \in Proc, d \in Dest, port \in SrcPort : cg_connect4(c, p, d, port)
       \/ cg_sock_ops(c)
       \/ ConnectFails(c)
       \/ Accept(c)
       \/ findTargetFromConnection(c)
       \/ Close(c)
       \/ ClientReset(c)

Spec == Init /\ [][Next]_vars

-----------------------------------------------------------------------------
(* Conditions under which the programs work as intended.                    *)

(* The cgroup holds the processes of one network namespace.                 *)
OneNamespace == \A p \in Proc : NsOf[p] = Home

(* Fewer than 2^32 sockets separate any two cookies.                        *)
DistinctKeys == \A c, d \in Cookie : Key(c) = Key(d) => c = d

(* map_socks has room for every socket that will be opened.                 *)
Room == IsFiniteSet(Cookie) /\ Cardinality(Cookie) <= MAX_CONNECTIONS

-----------------------------------------------------------------------------
(* Properties.                                                              *)

Resolved(c) ==
  /\ InUse(c)
  /\ sock[c].st = "resolved"
  /\ ~sock[c].reset
  /\ sock[c].dst # ProxyEP

(* The proxy never takes a connection for one with another destination:    *)
(* what getsockopt(SO_ORIGINAL_DST) answers is where the process asked to   *)
(* go, or the kernel's own answer for an unknown connection.                *)
ResolvesOwnDestination ==
  \A c \in Cookie : Resolved(c) => sock[c].target \in {sock[c].dst, ProxyEP}

(* Even when the maps are full, a connection whose destination is in        *)
(* map_socks is not taken for another one.                                  *)
TrackedNeverMisrouted ==
  \A c \in Cookie :
    Resolved(c) /\ Tracked(c) => sock[c].target \in {sock[c].dst, ProxyEP}

(* With room in the maps, a connection whose destination is in map_socks    *)
(* is always found again, whatever else happened to its source port.  (Of   *)
(* the strengthening below; the runs check RedirectedIsFound.)              *)
TrackedIsFound ==
  \A c \in Cookie :
    Resolved(c) /\ Tracked(c) => sock[c].target = sock[c].dst

(* With room in the maps, every connection that the running programs have   *)
(* redirected is resolved to where its process asked to go, whatever else   *)
(* happened to its source port before, meanwhile or since.  Excepted are    *)
(* those that an earlier sidecar redirected and did not live to resolve.    *)
RedirectedIsFound ==
  \A c \in Cookie :
    Resolved(c) /\ c \notin orphans => sock[c].target = sock[c].dst

(* "This prevents the proxy from proxying itself": no connection of the     *)
(* proxy that loaded the programs is redirected, neither those to cluster   *)
(* ports nor those to the original destinations in the pod network, which   *)
(* only the test of its pid keeps apart from an application's.              *)
ProxyNotProxied ==
  \A c \in Cookie :
    InUse(c) /\ sock[c].proc = Proxy[Home] => sock[c].peer = sock[c].dst

-----------------------------------------------------------------------------
(* The inductive strengthening of TrackedNeverMisrouted and, with Room, of  *)
(* ResolvesOwnDestination.                                                  *)

Waiting(c) == InUse(c) /\ sock[c].st \in {"established", "accepted"}
ToProxy(c) == InUse(c) /\ sock[c].peer = ProxyEP /\ ~sock[c].reset

(* A key is in map_socks only if its socket was opened and, while the       *)
(* socket lives, was redirected; its value is that socket's destination.    *)
KeyOwner ==
  \A c \in Cookie : Tracked(c) =>
    /\ sock[c] # Free
    /\ InUse(c) => /\ map_socks[Key(c)] = sock[c].dst
                   /\ sock[c].peer \in {ProxyEP, ZeroEP}

(* No two live connections to the proxy have the same source port.          *)
PortUnique ==
  \A c, d \in Cookie :
    ToProxy(c) /\ ToProxy(d) /\ sock[c].port = sock[d].port => c = d

(* A connection that waits for its lookup is the last owner of its port.    *)
PortOwner ==
  \A c \in Cookie :
    /\ Waiting(c) /\ ToProxy(c) /\ Tracked(c)
    /\ sock[c].port \in DOMAIN map_ports
    => map_ports[sock[c].port] = c

(* What a socket has been through: the proxy accepts only connections to    *)
(* itself, and only those can be reset under its hands.                     *)
SocketHistory ==
  \A c \in Cookie : InUse(c) =>
    /\ sock[c].st \in {"accepted", "resolved"} => sock[c].peer = ProxyEP
    /\ sock[c].st = "connecting" => ~sock[c].reset

(* Together: the maps are right about every connection they know.           *)
MapsConsistent ==
  /\ KeyOwner
  /\ PortUnique
  /\ PortOwner
  /\ SocketHistory
  /\ TrackedNeverMisrouted

(* With room in map_socks: a redirected connection that the maps do not     *)
(* know (the sidecar was restarted under it) finds no entry for its port.   *)
NoStalePort ==
  \A c \in Cookie :
    ToProxy(c) /\ sock[c].dst # ProxyEP /\ ~Tracked(c)
      => sock[c].port \notin DOMAIN map_ports

(* Every key of map_socks is that of a socket that was opened.              *)
KeysOpened ==
  \A k \in DOMAIN map_socks : \E c \in Cookie : Key(c) = k /\ sock[c] # Free

(* Every live connection that the running programs have redirected is in    *)
(* map_socks.                                                               *)
RedirectedIsTracked ==
  \A c \in Cookie :
    InUse(c) /\ Redirected(c) /\ c \notin orphans => Tracked(c)

MapsComplete ==
  /\ MapsConsistent
  /\ KeysOpened
  /\ RedirectedIsTracked
  /\ NoStalePort
  /\ ResolvesOwnDestination

(* The strengthening of TrackedIsFound: each socket has recorded at most    *)
(* one source port, and only once its handshake was over; what waits for    *)
(* its lookup has recorded it, and the programs are there to answer.        *)
PortsRecorded ==
  /\ \A p, q \in DOMAIN map_ports : map_ports[p] = map_ports[q] => p = q
  /\ \A p \in DOMAIN map_ports :
       LET c == map_ports[p]
       IN  sock[c] # Free /\ (InUse(c) => sock[c].st # "connecting")

WaitingIsFound ==
  \A c \in Cookie :
    Waiting(c) /\ ToProxy(c) =>
      /\ phase = LISTENING
      /\ Tracked(c) => sock[c].port \in DOMAIN map_ports

FoundInv == PortsRecorded /\ WaitingIsFound /\ TrackedIsFound

(* From the config update on, map_config says who the proxy is.             *)
ConfigWritten == phase >= CONFIGURED => map_config = ProxyConfig
=============================================================================
