--------------------------- MODULE MirrorsProofs ---------------------------
(* Proofs about Mirrors, for every number of processes, namespaces,         *)
(* sockets, ports and destinations and every size of the maps.              *)
EXTENDS Mirrors, FiniteSetTheorems, TLAPS

LEMMA KeyType == \A c \in Cookie : Key(c) \in Keys
  BY SocketAssumption DEF Key, Keys

LEMMA InUseType ==
  ASSUME TypeOK, NEW c \in Cookie
  PROVE  InUse(c) <=> sock[c] \in Socket
  BY DEF TypeOK, InUse, Socket, Free, Closed

LEMMA ConfigType ==
  TypeOK => map_config.proxy \in {ZeroEP, ProxyEP}
  BY DEF TypeOK, ZeroConfig, ProxyConfig

(* Every step keeps the maps and the sockets well formed.                   *)
LEMMA TypeStep == TypeOK /\ [Next]_vars => TypeOK'
<1> SUFFICES ASSUME TypeOK, [Next]_vars PROVE TypeOK'
  OBVIOUS
<1>1. CASE Attach
  BY <1>1 DEF TypeOK, Attach, DOWN, CONNECT4, SOCKOPS, LISTENING
<1>2. CASE UpdateConfig
  BY <1>2 DEF TypeOK, UpdateConfig, DOWN, CONFIGURED, LISTENING
<1>3. CASE StartInternalListener
  BY <1>3 DEF TypeOK, StartInternalListener, DOWN, LISTENING
<1>4. CASE Exit
  BY <1>4 DEF TypeOK, Exit, Empty, DOWN, LISTENING
<1>5. ASSUME NEW c \in Cookie, NEW p \in Proc, NEW d \in Dest,
             NEW port \in SrcPort, cg_connect4(c, p, d, port)
      PROVE  TypeOK'
  <2>1. PICK inNet \in InNetwork(d.addr, map_config), pid \in ns_pid_ppid(p) :
          LET redirected == phase # DOWN /\ Redirects(pid, d, inNet)
              peer == IF redirected THEN map_config.proxy ELSE d
          IN  /\ sock' = [sock EXCEPT ![c] =
                   [st |-> "connecting", proc |-> p, dst |-> d, peer |-> peer,
                    port |-> port, target |-> ZeroEP, reset |-> FALSE]]
              /\ map_socks' = IF redirected
                                THEN bpf_map_update_elem(map_socks, Key(c), d)
                                ELSE map_socks
    BY <1>5 DEF cg_connect4
  <2>2. sock' \in [Cookie -> Socket \cup {Free, Closed}]
    BY <2>1, ConfigType DEF TypeOK, Socket, Endpoint
  <2>3. /\ DOMAIN map_socks' \subseteq Keys
        /\ map_socks' \in [DOMAIN map_socks' -> Dest]
    <3>1. LET n == bpf_map_update_elem(map_socks, Key(c), d)
          IN  DOMAIN n \subseteq Keys /\ n \in [DOMAIN n -> Dest]
      BY KeyType DEF TypeOK, bpf_map_update_elem
    <3> QED
      BY <2>1, <3>1 DEF TypeOK
  <2> QED
    BY <1>5, <2>2, <2>3 DEF TypeOK, cg_connect4
<1>6. ASSUME NEW c \in Cookie, cg_sock_ops(c)
      PROVE  TypeOK'
  <2>1. sock[c] \in Socket
    BY <1>6, InUseType DEF cg_sock_ops, InUse
  <2>2. sock' \in [Cookie -> Socket \cup {Free, Closed}]
    BY <1>6, <2>1 DEF cg_sock_ops, TypeOK, Socket
  <2>3. /\ DOMAIN map_ports' \subseteq SrcPort
        /\ map_ports' \in [DOMAIN map_ports' -> Cookie]
    <3>1. LET n == bpf_map_update_elem(map_ports, sock[c].port, c)
          IN  DOMAIN n \subseteq SrcPort /\ n \in [DOMAIN n -> Cookie]
      <4>1. sock[c].port \in SrcPort
        BY <2>1 DEF Socket
      <4> QED
        BY <4>1 DEF TypeOK, bpf_map_update_elem
    <3> QED
      BY <1>6, <3>1 DEF TypeOK, cg_sock_ops, RecordPort
  <2> QED
    BY <1>6, <2>2, <2>3 DEF cg_sock_ops, TypeOK
<1>7. ASSUME NEW c \in Cookie, ConnectFails(c) \/ Close(c)
      PROVE  TypeOK'
  BY <1>7 DEF TypeOK, ConnectFails, Close
<1>8. ASSUME NEW c \in Cookie, Accept(c) \/ ClientReset(c)
      PROVE  TypeOK'
  <2>1. sock[c] \in Socket
    BY <1>8, InUseType DEF Accept, ClientReset
  <2>2. sock' \in [Cookie -> Socket \cup {Free, Closed}]
    <3>1. CASE Accept(c)
      BY <2>1, <3>1 DEF TypeOK, Accept, Socket
    <3>2. CASE ClientReset(c)
      BY <2>1, <3>2 DEF TypeOK, ClientReset, Socket
    <3> QED
      BY <1>8, <3>1, <3>2
  <2> QED
    BY <1>8, <2>2 DEF TypeOK, Accept, ClientReset
<1>9. ASSUME NEW c \in Cookie, findTargetFromConnection(c)
      PROVE  TypeOK'
  <2>1. sock[c] \in Socket
    BY <1>9, InUseType DEF findTargetFromConnection
  <2>2. Found(c) => map_socks[Key(map_ports[sock[c].port])] \in Endpoint
    BY DEF Found, TypeOK, Endpoint
  <2>3. sock' \in [Cookie -> Socket \cup {Free, Closed}]
    BY <1>9, <2>1, <2>2 DEF TypeOK, findTargetFromConnection, Socket, Endpoint
  <2> QED
    BY <1>9, <2>3 DEF TypeOK, findTargetFromConnection
<1>10. CASE UNCHANGED vars
  BY <1>10 DEF TypeOK, vars
<1> QED
  BY <1>1, <1>2, <1>3, <1>4, <1>5, <1>6, <1>7, <1>8, <1>9, <1>10 DEF Next

(* The maps hold only the keys and values their users expect, and every     *)
(* socket is in a state the programs know.                                  *)
THEOREM TypeCorrect == Spec => []TypeOK
<1>1. Init => TypeOK
  BY DEF Init, TypeOK, Empty, DOWN, LISTENING
<1> QED
  BY <1>1, TypeStep, PTL DEF Spec

-----------------------------------------------------------------------------
(* What cg_connect4 changes: the socket, and at most its own entry.         *)
LEMMA Connect4Effect ==
  ASSUME TypeOK, DistinctKeys, KeyOwner,
         NEW c \in Cookie, NEW p \in Proc, NEW d \in Dest, NEW port \in SrcPort,
         cg_connect4(c, p, d, port)
  PROVE  /\ ~Tracked(c)
         /\ \A o \in Cookie \ {c} :
              /\ sock'[o] = sock[o]
              /\ Tracked(o)' <=> Tracked(o)
              /\ Tracked(o) => map_socks'[Key(o)] = map_socks[Key(o)]
         /\ InUse(c)'
         /\ sock'[c].st = "connecting" /\ ~sock'[c].reset
         /\ sock'[c].proc = p /\ sock'[c].dst = d /\ sock'[c].port = port
         /\ \A o \in Cookie : ~Holds(o, NsOf[p], sock'[c].peer, port)
         /\ Tracked(c)' => /\ map_socks'[Key(c)] = d
                           /\ sock'[c].peer \in {ProxyEP, ZeroEP}
         /\ map_ports' = map_ports
<1>1. PICK inNet \in InNetwork(d.addr, map_config), pid \in ns_pid_ppid(p) :
        LET redirected == phase # DOWN /\ Redirects(pid, d, inNet)
            peer == IF redirected THEN map_config.proxy ELSE d
        IN  /\ \A o \in Cookie : ~Holds(o, NsOf[p], peer, port)
            /\ sock' = [sock EXCEPT ![c] =
                 [st |-> "connecting", proc |-> p, dst |-> d, peer |-> peer,
                  port |-> port, target |-> ZeroEP, reset |-> FALSE]]
            /\ map_socks' = IF redirected
                              THEN bpf_map_update_elem(map_socks, Key(c), d)
                              ELSE map_socks
  BY DEF cg_connect4
<1> DEFINE redirected == phase # DOWN /\ Redirects(pid, d, inNet)
           peer == IF redirected THEN map_config.proxy ELSE d
<1>2. sock[c] = Free
  BY DEF cg_connect4
<1>3. ~Tracked(c)
  BY <1>2 DEF KeyOwner
<1>4. /\ sock'[c] = [st |-> "connecting", proc |-> p, dst |-> d, peer |-> peer,
                     port |-> port, target |-> ZeroEP, reset |-> FALSE]
      /\ \A o \in Cookie \ {c} : sock'[o] = sock[o]
  BY <1>1 DEF TypeOK
<1>5. InUse(c)'
  BY <1>4 DEF InUse, Free, Closed
<1>6. ASSUME NEW o \in Cookie \ {c}
      PROVE  /\ Tracked(o)' <=> Tracked(o)
             /\ Tracked(o) => map_socks'[Key(o)] = map_socks[Key(o)]
  <2>1. Key(o) # Key(c)
    BY DEF DistinctKeys
  <2> QED
    BY <1>1, <2>1 DEF Tracked, bpf_map_update_elem
<1>7. Tracked(c)' => map_socks'[Key(c)] = d /\ redirected
  BY <1>1, <1>3 DEF Tracked, bpf_map_update_elem
<1>8. redirected => peer \in {ProxyEP, ZeroEP}
  BY ConfigType
<1>9. map_ports' = map_ports
  BY DEF cg_connect4
<1>10. \A o \in Cookie : ~Holds(o, NsOf[p], peer, port)
  BY <1>1
<1> QED
  BY <1>3, <1>4, <1>5, <1>6, <1>7, <1>8, <1>9, <1>10

(* What an action that moves one socket on leaves alone.                    *)
LEMMA MoveEffect ==
  ASSUME TypeOK, NEW c \in Cookie,
         \/ cg_sock_ops(c) \/ ConnectFails(c) \/ Accept(c)
         \/ findTargetFromConnection(c) \/ Close(c) \/ ClientReset(c)
  PROVE  /\ sock[c] \in Socket
         /\ map_socks' = map_socks
         /\ \A o \in Cookie \ {c} : sock'[o] = sock[o]
         /\ sock'[c] # Free
         /\ sock'[c] # Closed =>
              /\ sock'[c] \in Socket
              /\ sock'[c].dst = sock[c].dst
              /\ sock'[c].peer = sock[c].peer
              /\ sock'[c].port = sock[c].port
              /\ sock'[c].proc = sock[c].proc
              /\ ~sock'[c].reset => ~sock[c].reset
<1>1. sock[c] \in Socket
  BY InUseType DEF cg_sock_ops, ConnectFails, Accept, findTargetFromConnection, Close,
                   ClientReset, InUse
<1>2. TypeOK'
  BY TypeStep DEF Next
<1>3. /\ map_socks' = map_socks
      /\ \A o \in Cookie \ {c} : sock'[o] = sock[o]
  BY DEF cg_sock_ops, ConnectFails, Accept, findTargetFromConnection, Close, ClientReset,
         TypeOK
<1>4. CASE cg_sock_ops(c) \/ Accept(c)
  <2>1. \E s \in {"established", "accepted"} :
          sock' = [sock EXCEPT ![c] = [sock[c] EXCEPT !.st = s]]
    BY <1>4 DEF cg_sock_ops, Accept
  <2> QED
    BY <1>1, <1>2, <1>3, <2>1 DEF TypeOK, Socket, Free, Closed
<1>5. CASE ConnectFails(c) \/ Close(c)
  BY <1>1, <1>3, <1>5 DEF ConnectFails, Close, TypeOK, Free, Closed
<1>6. CASE ClientReset(c)
  BY <1>1, <1>2, <1>3, <1>6 DEF ClientReset, TypeOK, Socket, Free, Closed
<1>7. CASE findTargetFromConnection(c)
  <2>1. \/ sock' = [sock EXCEPT ![c] = Closed]
        \/ \E t : sock' = [sock EXCEPT
                   ![c] = [sock[c] EXCEPT !.st = "resolved", !.target = t]]
    BY <1>7 DEF findTargetFromConnection
  <2>2. CASE sock' = [sock EXCEPT ![c] = Closed]
    BY <1>1, <1>3, <2>2 DEF TypeOK, Free, Closed
  <2>3. ASSUME NEW t,
               sock' = [sock EXCEPT
                   ![c] = [sock[c] EXCEPT !.st = "resolved", !.target = t]]
        PROVE  /\ sock'[c] \in Socket
               /\ sock'[c].dst = sock[c].dst
               /\ sock'[c].peer = sock[c].peer
               /\ sock'[c].port = sock[c].port
               /\ sock'[c].proc = sock[c].proc
               /\ sock'[c].reset = sock[c].reset
               /\ sock'[c] # Free
    <3>1. sock'[c] = [sock[c] EXCEPT !.st = "resolved", !.target = t]
      BY <2>3 DEF TypeOK
    <3>2. /\ sock'[c].st = "resolved"
          /\ sock'[c].dst = sock[c].dst
          /\ sock'[c].peer = sock[c].peer
          /\ sock'[c].port = sock[c].port
          /\ sock'[c].proc = sock[c].proc
          /\ sock'[c].reset = sock[c].reset
      BY <1>1, <3>1 DEF Socket
    <3>3. sock'[c] # Free /\ sock'[c] # Closed
      BY <3>2 DEF Free, Closed
    <3>4. sock'[c] \in Socket
      BY <1>2, <3>3 DEF TypeOK
    <3> QED
      BY <3>2, <3>3, <3>4
  <2> QED
    BY <1>1, <1>3, <2>1, <2>2, <2>3
<1> QED
  BY <1>4, <1>5, <1>6, <1>7

(* A step that touches neither a socket nor a map of sockets.               *)
LEMMA ConsistentStutter ==
  ASSUME MapsConsistent, UNCHANGED <<map_socks, map_ports, sock>>
  PROVE  MapsConsistent'
  BY DEF MapsConsistent, KeyOwner, PortUnique, PortOwner, SocketHistory,
         TrackedNeverMisrouted, Resolved, Waiting, ToProxy, InUse, Tracked

(* MapsConsistent after a connect().                                        *)
LEMMA ConsistentConnect ==
  ASSUME TypeOK, OneNamespace, DistinctKeys, MapsConsistent,
         NEW c \in Cookie, NEW p \in Proc, NEW d \in Dest, NEW port \in SrcPort,
         cg_connect4(c, p, d, port)
  PROVE  MapsConsistent'
<1> USE DEF InUse
<1>1. KeyOwner
  BY DEF MapsConsistent
<1>2. /\ ~Tracked(c)
      /\ \A o \in Cookie \ {c} :
           /\ sock'[o] = sock[o]
           /\ Tracked(o)' <=> Tracked(o)
           /\ Tracked(o) => map_socks'[Key(o)] = map_socks[Key(o)]
      /\ InUse(c)'
      /\ sock'[c].st = "connecting" /\ ~sock'[c].reset
      /\ sock'[c].proc = p /\ sock'[c].dst = d /\ sock'[c].port = port
      /\ \A o \in Cookie : ~Holds(o, NsOf[p], sock'[c].peer, port)
      /\ Tracked(c)' => /\ map_socks'[Key(c)] = d
                        /\ sock'[c].peer \in {ProxyEP, ZeroEP}
      /\ map_ports' = map_ports
  BY <1>1, Connect4Effect
<1>3. KeyOwner'
  BY <1>1, <1>2 DEF KeyOwner
<1>4. PortUnique'
  <2>1. ASSUME NEW o \in Cookie, o # c, ToProxy(o)', sock'[o].port = port
        PROVE  sock'[c].peer # ProxyEP
    <3>1. sock[o] = sock'[o]
      BY <1>2, <2>1
    <3>2. Ns(o) = NsOf[p]
      <4>1. sock[o] \in Socket
        BY <2>1, <3>1, InUseType DEF ToProxy
      <4> QED
        BY <4>1 DEF OneNamespace, Ns, Socket
    <3> QED
      BY <1>2, <2>1, <3>1, <3>2 DEF ToProxy, Holds
  <2> QED
    BY <1>2, <2>1 DEF MapsConsistent, PortUnique, ToProxy
<1>5. PortOwner'
  BY <1>2 DEF MapsConsistent, PortOwner, Waiting, ToProxy
<1>6. SocketHistory'
  BY <1>2 DEF MapsConsistent, SocketHistory
<1>7. TrackedNeverMisrouted'
  BY <1>2 DEF MapsConsistent, TrackedNeverMisrouted, Resolved
<1> QED
  BY <1>3, <1>4, <1>5, <1>6, <1>7 DEF MapsConsistent

(* The handshake of a redirected connection completes only while the        *)
(* programs are attached.                                                   *)
LEMMA HandshakeAttached ==
  ASSUME TypeOK, OneNamespace, NEW c \in Cookie, cg_sock_ops(c),
         sock[c].peer = ProxyEP
  PROVE  phase >= SOCKOPS
<1>1. sock[c] \in Socket
  BY MoveEffect
<1>2. Ns(c) = Home
  BY <1>1 DEF OneNamespace, Ns, Socket
<1> QED
  BY <1>2 DEF cg_sock_ops, Listening, SOCKOPS, LISTENING

(* MapsConsistent after a step of one socket.                               *)
LEMMA ConsistentMove ==
  ASSUME TypeOK, OneNamespace, MapsConsistent, NEW c \in Cookie,
         \/ cg_sock_ops(c) \/ ConnectFails(c) \/ Accept(c)
         \/ findTargetFromConnection(c) \/ Close(c) \/ ClientReset(c)
  PROVE  MapsConsistent'
<1> USE DEF InUse
<1>1. /\ sock[c] \in Socket
      /\ map_socks' = map_socks
      /\ \A o \in Cookie \ {c} : sock'[o] = sock[o]
      /\ sock'[c] # Free
      /\ sock'[c] # Closed =>
           /\ sock'[c] \in Socket
           /\ sock'[c].dst = sock[c].dst
           /\ sock'[c].peer = sock[c].peer
           /\ sock'[c].port = sock[c].port
           /\ sock'[c].proc = sock[c].proc
           /\ ~sock'[c].reset => ~sock[c].reset
  BY MoveEffect
<1>2. InUse(c)
  BY <1>1, InUseType
<1>3. \A o \in Cookie : Tracked(o)' <=> Tracked(o)
  BY <1>1 DEF Tracked
<1>4. KeyOwner'
  BY <1>1, <1>2, <1>3 DEF MapsConsistent, KeyOwner
<1>5. \A o \in Cookie : ToProxy(o)' => ToProxy(o) /\ sock'[o].port = sock[o].port
  BY <1>1, <1>2 DEF ToProxy
<1>6. PortUnique'
  BY <1>5 DEF MapsConsistent, PortUnique
<1>7. SocketHistory'
  <2>1. CASE cg_sock_ops(c)
    BY <1>1, <2>1 DEF MapsConsistent, SocketHistory, cg_sock_ops, TypeOK, Socket
  <2>2. CASE ConnectFails(c) \/ Close(c)
    BY <1>1, <2>2 DEF MapsConsistent, SocketHistory, ConnectFails, Close, TypeOK
  <2>3. CASE Accept(c)
    BY <1>1, <2>3 DEF MapsConsistent, SocketHistory, Accept, TypeOK, Socket
  <2>4. CASE ClientReset(c)
    BY <1>1, <2>4 DEF MapsConsistent, SocketHistory, ClientReset, TypeOK, Socket
  <2>5. CASE findTargetFromConnection(c)
    <3>1. sock'[c] = Closed \/ sock'[c].st = "resolved"
      BY <1>1, <2>5 DEF findTargetFromConnection, TypeOK, Socket
    <3>2. sock[c].peer = ProxyEP
      BY <1>2, <2>5 DEF findTargetFromConnection, MapsConsistent, SocketHistory
    <3> QED
      BY <1>1, <3>1, <3>2 DEF MapsConsistent, SocketHistory
  <2> QED
    BY <2>1, <2>2, <2>3, <2>4, <2>5
<1>8. PortOwner'
  <2>1. CASE cg_sock_ops(c)
    <3>1. ~Tracked(c) => map_ports' = map_ports
      BY <2>1 DEF cg_sock_ops, RecordPort
    <3>2. Tracked(c) => ToProxy(c)
      BY <1>1, <1>2, <2>1
         DEF MapsConsistent, KeyOwner, SocketHistory, ToProxy, cg_sock_ops
    <3>3. Tracked(c) => map_ports' = bpf_map_update_elem(map_ports, sock[c].port, c)
      BY <2>1, <3>2, HandshakeAttached DEF cg_sock_ops, RecordPort, ToProxy
    <3>4. ASSUME NEW o \in Cookie, Waiting(o)', ToProxy(o)', Tracked(o),
                 sock'[o].port \in DOMAIN map_ports'
          PROVE  map_ports'[sock'[o].port] = o
      <4>1. CASE o = c
        BY <1>5, <3>3, <3>4, <4>1 DEF bpf_map_update_elem
      <4>2. CASE o # c
        <5>1. Waiting(o) /\ ToProxy(o) /\ sock'[o].port = sock[o].port
          BY <1>1, <3>4, <4>2 DEF Waiting, ToProxy
        <5>2. Tracked(c) => sock[o].port # sock[c].port
          BY <3>2, <4>2, <5>1 DEF MapsConsistent, PortUnique
        <5>3. /\ sock[o].port \in DOMAIN map_ports
              /\ map_ports'[sock[o].port] = map_ports[sock[o].port]
          BY <3>1, <3>3, <3>4, <5>1, <5>2 DEF bpf_map_update_elem
        <5> QED
          BY <3>4, <5>1, <5>3 DEF MapsConsistent, PortOwner
      <4> QED
        BY <4>1, <4>2
    <3> QED
      BY <1>3, <3>4 DEF PortOwner
  <2>2. CASE ~cg_sock_ops(c)
    <3>1. map_ports' = map_ports
      BY <2>2 DEF ConnectFails, Close, Accept, ClientReset, findTargetFromConnection
    <3>2. Waiting(c)' => Waiting(c)
      <4>1. CASE ConnectFails(c) \/ Close(c)
        BY <1>1, <4>1 DEF Waiting, ConnectFails, Close, TypeOK
      <4>2. CASE Accept(c) \/ ClientReset(c)
        BY <1>2, <4>2 DEF Waiting, Accept, ClientReset
      <4>3. CASE findTargetFromConnection(c)
        BY <1>2, <4>3 DEF Waiting, findTargetFromConnection
      <4> QED
        BY <2>2, <4>1, <4>2, <4>3
    <3>3. \A o \in Cookie : Waiting(o)' => Waiting(o)
      BY <1>1, <3>2 DEF Waiting
    <3> QED
      BY <1>3, <1>5, <3>1, <3>3 DEF MapsConsistent, PortOwner
  <2> QED
    BY <2>1, <2>2
<1>9. TrackedNeverMisrouted'
  <2>1. ASSUME Resolved(c)', Tracked(c)
        PROVE  sock'[c].target \in {sock'[c].dst, ProxyEP}
    <3>1. CASE findTargetFromConnection(c)
      <4>1. Waiting(c) /\ ToProxy(c)
        BY <1>1, <1>2, <2>1, <3>1
           DEF Resolved, findTargetFromConnection, Waiting, ToProxy, MapsConsistent, SocketHistory
      <4>2. CASE Found(c)
        <5>1. map_ports[sock[c].port] = c
          BY <2>1, <4>1, <4>2 DEF Found, MapsConsistent, PortOwner
        <5>2. map_socks[Key(c)] = sock[c].dst
          BY <1>2, <2>1 DEF MapsConsistent, KeyOwner
        <5> QED
          BY <1>1, <2>1, <3>1, <4>2, <5>1, <5>2
             DEF findTargetFromConnection, TypeOK, Socket, Resolved
      <4>3. CASE ~Found(c)
        BY <1>1, <2>1, <3>1, <4>3 DEF findTargetFromConnection, TypeOK, Socket, Resolved
      <4> QED
        BY <4>2, <4>3
    <3>2. CASE cg_sock_ops(c)
      BY <1>1, <2>1, <3>2 DEF cg_sock_ops, TypeOK, Socket, Resolved
    <3>3. CASE ConnectFails(c) \/ Close(c)
      BY <2>1, <3>3 DEF ConnectFails, Close, TypeOK, Resolved
    <3>4. CASE Accept(c) \/ ClientReset(c)
      BY <1>1, <2>1, <3>4 DEF Accept, ClientReset, TypeOK, Socket, Resolved
    <3> QED
      BY <3>1, <3>2, <3>3, <3>4
  <2> QED
    BY <1>1, <1>3, <2>1 DEF MapsConsistent, TrackedNeverMisrouted, Resolved
<1> QED
  BY <1>4, <1>6, <1>7, <1>8, <1>9 DEF MapsConsistent

(* The end of the sidecar empties the maps and opens no socket.             *)
LEMMA ExitEffect ==
  ASSUME TypeOK, Exit
  PROVE  /\ DOMAIN map_socks' = {} /\ DOMAIN map_ports' = {}
         /\ \A c \in Cookie : sock'[c] = sock[c] \/ sock'[c] = Closed
  BY DEF Exit, Empty

LEMMA ConsistentExit ==
  ASSUME TypeOK, MapsConsistent, Exit
  PROVE  MapsConsistent'
<1>1. \A c \in Cookie : ~Tracked(c)'
  BY ExitEffect DEF Tracked
<1>2. \A c \in Cookie : InUse(c)' => sock'[c] = sock[c]
  BY ExitEffect DEF InUse
<1>3. KeyOwner' /\ PortOwner' /\ TrackedNeverMisrouted'
  BY <1>1 DEF KeyOwner, PortOwner, TrackedNeverMisrouted
<1>4. PortUnique'
  BY <1>2 DEF MapsConsistent, PortUnique, ToProxy, InUse
<1>5. SocketHistory'
  BY <1>2 DEF MapsConsistent, SocketHistory, InUse
<1> QED
  BY <1>3, <1>4, <1>5 DEF MapsConsistent

LEMMA ConsistentStep ==
  ASSUME OneNamespace, DistinctKeys, TypeOK, MapsConsistent, [Next]_vars
  PROVE  MapsConsistent'
<1>1. CASE Attach \/ UpdateConfig \/ StartInternalListener \/ UNCHANGED vars
  BY <1>1, ConsistentStutter
     DEF Attach, UpdateConfig, StartInternalListener, vars
<1>2. CASE Exit
  BY <1>2, ConsistentExit
<1>3. ASSUME NEW c \in Cookie, NEW p \in Proc, NEW d \in Dest,
             NEW port \in SrcPort, cg_connect4(c, p, d, port)
      PROVE  MapsConsistent'
  BY <1>3, ConsistentConnect
<1>4. ASSUME NEW c \in Cookie,
             \/ cg_sock_ops(c) \/ ConnectFails(c) \/ Accept(c)
             \/ findTargetFromConnection(c) \/ Close(c) \/ ClientReset(c)
      PROVE  MapsConsistent'
  BY <1>4, ConsistentMove
<1> QED
  BY <1>1, <1>2, <1>3, <1>4 DEF Next

LEMMA ConsistentInit == Init => MapsConsistent
  BY DEF Init, MapsConsistent, KeyOwner, PortUnique, PortOwner, SocketHistory,
         TrackedNeverMisrouted, Resolved, Waiting, ToProxy, InUse, Tracked, Empty

(* In a pod of its own, whatever the size of the maps and however source    *)
(* ports are reused, the maps stay right about every connection they know:  *)
(* the lookup of a known connection never yields another's destination.     *)
THEOREM TrackedCorrect ==
  ASSUME OneNamespace, DistinctKeys
  PROVE  Spec => [](MapsConsistent /\ TrackedNeverMisrouted)
<1>1. Init => TypeOK /\ MapsConsistent
  BY ConsistentInit DEF Init, TypeOK, Empty, DOWN, LISTENING
<1>2. TypeOK /\ MapsConsistent /\ [Next]_vars => (TypeOK /\ MapsConsistent)'
  BY TypeStep, ConsistentStep
<1>3. MapsConsistent => TrackedNeverMisrouted
  BY DEF MapsConsistent
<1> QED
  BY <1>1, <1>2, <1>3, PTL DEF Spec

-----------------------------------------------------------------------------
(* With room in map_socks every redirected connection is known.             *)
LEMMA RedirectTracked ==
  ASSUME TypeOK, Room, KeysOpened, NEW c \in Cookie, sock[c] = Free,
         NEW d \in Dest
  PROVE  Key(c) \in DOMAIN bpf_map_update_elem(map_socks, Key(c), d)
<1> DEFINE S == Cookie \ {c}
           T == {Key(o) : o \in S}
           f == [o \in S |-> Key(o)]
<1>1. IsFiniteSet(S) /\ Cardinality(S) = Cardinality(Cookie) - 1
  BY FS_RemoveElement DEF Room
<1>2. f \in Surjection(S, T)
  BY DEF Surjection
<1>3. IsFiniteSet(T) /\ Cardinality(T) <= Cardinality(S)
  <2> HIDE DEF f, S, T
  <2> QED
    BY <1>1, <1>2, FS_Surjection
<1>4. DOMAIN map_socks \in SUBSET T
  BY DEF KeysOpened
<1>5. /\ Cardinality(DOMAIN map_socks) <= Cardinality(T)
      /\ IsFiniteSet(DOMAIN map_socks)
  <2> HIDE DEF T
  <2> QED
    BY <1>3, <1>4, FS_Subset
<1>6. /\ Cardinality(DOMAIN map_socks) \in Nat
      /\ Cardinality(T) \in Nat
      /\ Cardinality(S) \in Nat
      /\ Cardinality(Cookie) \in Nat
  <2> HIDE DEF S, T
  <2> QED
    BY <1>1, <1>3, <1>5, FS_CardinalityType DEF Room
<1>7. Cardinality(DOMAIN map_socks) < MAX_CONNECTIONS
  <2> HIDE DEF S, T
  <2> QED
    BY <1>1, <1>3, <1>5, <1>6, SocketAssumption DEF Room
<1> QED
  BY <1>7 DEF bpf_map_update_elem

(* A connection just redirected is in map_socks: the insert found room.     *)
LEMMA CompleteConnect ==
  ASSUME TypeOK, OneNamespace, DistinctKeys, Room, MapsComplete,
         NEW c \in Cookie, NEW p \in Proc, NEW d \in Dest, NEW port \in SrcPort,
         cg_connect4(c, p, d, port)
  PROVE  MapsComplete'
<1> USE DEF InUse
<1>1. KeyOwner /\ KeysOpened /\ sock[c] = Free
  BY DEF MapsComplete, MapsConsistent, cg_connect4
<1>2. /\ \A o \in Cookie \ {c} :
           sock'[o] = sock[o] /\ (Tracked(o)' <=> Tracked(o))
      /\ InUse(c)'
      /\ sock'[c].st = "connecting" /\ sock'[c].dst = d
      /\ map_ports' = map_ports
      /\ orphans' = orphans
  BY <1>1, Connect4Effect DEF cg_connect4
<1>3. /\ DOMAIN map_socks' \subseteq DOMAIN map_socks \cup {Key(c)}
      /\ Tracked(c)' \/ sock'[c].peer = d
  <2>1. PICK inNet \in InNetwork(d.addr, map_config), pid \in ns_pid_ppid(p) :
          LET redirected == phase # DOWN /\ Redirects(pid, d, inNet)
              peer == IF redirected THEN map_config.proxy ELSE d
          IN  /\ sock' = [sock EXCEPT ![c] =
                   [st |-> "connecting", proc |-> p, dst |-> d, peer |-> peer,
                    port |-> port, target |-> ZeroEP, reset |-> FALSE]]
              /\ map_socks' = IF redirected
                                THEN bpf_map_update_elem(map_socks, Key(c), d)
                                ELSE map_socks
    BY DEF cg_connect4
  <2>2. DOMAIN map_socks' \subseteq DOMAIN map_socks \cup {Key(c)}
    BY <2>1 DEF bpf_map_update_elem
  <2>3. Tracked(c)' \/ sock'[c].peer = d
    BY <1>1, <2>1, RedirectTracked DEF Tracked, TypeOK
  <2> QED
    BY <2>2, <2>3
<1>4. MapsConsistent'
  BY ConsistentConnect DEF MapsComplete
<1>5. KeysOpened'
  <2>1. \A o \in Cookie : sock[o] # Free => sock'[o] # Free
    BY <1>1, <1>2
  <2>2. sock'[c] # Free
    BY <1>2
  <2> QED
    BY <1>1, <1>3, <2>1, <2>2 DEF KeysOpened, Key
<1>6. NoStalePort'
  BY <1>2, <1>3 DEF MapsComplete, NoStalePort, ToProxy
<1>7. ResolvesOwnDestination'
  BY <1>2 DEF MapsComplete, ResolvesOwnDestination, Resolved
<1>8. RedirectedIsTracked'
  BY <1>2, <1>3 DEF MapsComplete, RedirectedIsTracked, Redirected
<1> QED
  BY <1>4, <1>5, <1>6, <1>7, <1>8 DEF MapsComplete

LEMMA CompleteMove ==
  ASSUME TypeOK, OneNamespace, MapsComplete, NEW c \in Cookie,
         \/ cg_sock_ops(c) \/ ConnectFails(c) \/ Accept(c)
         \/ findTargetFromConnection(c) \/ Close(c) \/ ClientReset(c)
  PROVE  MapsComplete'
<1> USE DEF InUse
<1>1. /\ sock[c] \in Socket
      /\ map_socks' = map_socks
      /\ \A o \in Cookie \ {c} : sock'[o] = sock[o]
      /\ sock'[c] # Free
      /\ sock'[c] # Closed =>
           /\ sock'[c].dst = sock[c].dst
           /\ sock'[c].peer = sock[c].peer
           /\ sock'[c].port = sock[c].port
           /\ ~sock'[c].reset => ~sock[c].reset
  BY MoveEffect
<1>2. InUse(c)
  BY <1>1, InUseType
<1>3. MapsConsistent /\ MapsConsistent'
  BY ConsistentMove DEF MapsComplete
<1>4. KeysOpened' /\ RedirectedIsTracked'
  <2>1. KeysOpened'
    BY <1>1 DEF MapsComplete, KeysOpened, Key
  <2>2. orphans' = orphans
    BY DEF cg_sock_ops, ConnectFails, Accept, findTargetFromConnection, Close, ClientReset
  <2>3. RedirectedIsTracked'
    BY <1>1, <1>2, <2>2 DEF MapsComplete, RedirectedIsTracked, Redirected, Tracked
  <2> QED
    BY <2>1, <2>3
<1>5. \A o \in Cookie :
        ToProxy(o)' => /\ ToProxy(o)
                       /\ sock'[o].port = sock[o].port
                       /\ sock'[o].dst = sock[o].dst
  BY <1>1, <1>2 DEF ToProxy
<1>6. NoStalePort'
  <2>1. CASE map_ports' = map_ports
    BY <1>1, <1>5, <2>1 DEF MapsComplete, NoStalePort, Tracked
  <2>2. CASE map_ports' # map_ports
    <3>1. /\ cg_sock_ops(c)
          /\ Tracked(c)
          /\ map_ports' = bpf_map_update_elem(map_ports, sock[c].port, c)
      BY <2>2 DEF cg_sock_ops, RecordPort, ConnectFails, Accept, findTargetFromConnection,
                  Close, ClientReset
    <3>2. ToProxy(c)
      BY <1>2, <1>3, <3>1
         DEF MapsConsistent, KeyOwner, SocketHistory, ToProxy, cg_sock_ops
    <3>3. ASSUME NEW o \in Cookie, ToProxy(o)', sock'[o].dst # ProxyEP, ~Tracked(o)'
          PROVE  sock'[o].port \notin DOMAIN map_ports'
      <4>1. ToProxy(o) /\ sock'[o].port = sock[o].port /\ sock[o].dst # ProxyEP
        BY <1>5, <3>3
      <4>2. ~Tracked(o)
        BY <1>1, <3>3 DEF Tracked
      <4>3. sock[o].port # sock[c].port
        BY <1>3, <3>1, <3>2, <4>1, <4>2 DEF MapsConsistent, PortUnique
      <4>4. sock[o].port \notin DOMAIN map_ports
        BY <4>1, <4>2 DEF MapsComplete, NoStalePort
      <4> QED
        BY <3>1, <4>1, <4>3, <4>4 DEF bpf_map_update_elem
    <3> QED
      BY <3>3 DEF NoStalePort
  <2> QED
    BY <2>1, <2>2
<1>7. ResolvesOwnDestination'
  <2>1. ASSUME Resolved(c)'
        PROVE  sock'[c].target \in {sock'[c].dst, ProxyEP}
    <3>1. CASE Tracked(c)
      BY <1>1, <1>3, <2>1, <3>1 DEF MapsConsistent, TrackedNeverMisrouted, Tracked
    <3>2. CASE ~Tracked(c) /\ findTargetFromConnection(c)
      <4>1. ToProxy(c) /\ sock[c].dst # ProxyEP
        BY <1>1, <1>2, <1>3, <2>1, <3>2
           DEF Resolved, ToProxy, findTargetFromConnection, MapsConsistent, SocketHistory
      <4>2. ~Found(c)
        BY <3>2, <4>1 DEF MapsComplete, NoStalePort, Found
      <4> QED
        BY <1>1, <2>1, <3>2, <4>2 DEF findTargetFromConnection, TypeOK, Socket, Resolved
    <3>3. CASE cg_sock_ops(c)
      BY <1>1, <2>1, <3>3 DEF cg_sock_ops, TypeOK, Socket, Resolved
    <3>4. CASE ConnectFails(c) \/ Close(c)
      BY <2>1, <3>4 DEF ConnectFails, Close, TypeOK, Resolved
    <3>5. CASE Accept(c) \/ ClientReset(c)
      BY <1>1, <2>1, <3>5 DEF Accept, ClientReset, TypeOK, Socket, Resolved
    <3> QED
      BY <3>1, <3>2, <3>3, <3>4, <3>5
  <2> QED
    BY <1>1, <2>1 DEF MapsComplete, ResolvesOwnDestination, Resolved
<1> QED
  BY <1>3, <1>4, <1>6, <1>7 DEF MapsComplete

LEMMA CompleteOther ==
  ASSUME TypeOK, MapsComplete,
         Exit \/ UNCHANGED <<map_socks, map_ports, sock, orphans>>
  PROVE  MapsComplete'
<1>1. CASE Exit
  <2>1. \A c \in Cookie : InUse(c)' => sock'[c] = sock[c]
    BY <1>1, ExitEffect DEF InUse
  <2>2. KeysOpened' /\ NoStalePort'
    BY <1>1, ExitEffect DEF KeysOpened, NoStalePort
  <2>3. ResolvesOwnDestination'
    BY <2>1 DEF MapsComplete, ResolvesOwnDestination, Resolved, InUse
  <2>4. RedirectedIsTracked'
    BY <1>1, <2>1 DEF Exit, RedirectedIsTracked, Redirected, InUse
  <2> QED
    BY <1>1, <2>2, <2>3, <2>4, ConsistentExit DEF MapsComplete
<1>2. CASE UNCHANGED <<map_socks, map_ports, sock, orphans>>
  BY <1>2, ConsistentStutter
     DEF MapsComplete, KeysOpened, NoStalePort, ResolvesOwnDestination,
         Resolved, ToProxy, InUse, Tracked, Key, RedirectedIsTracked, Redirected
<1> QED
  BY <1>1, <1>2

LEMMA CompleteInit == Init => MapsComplete
  BY ConsistentInit
     DEF Init, Empty, MapsComplete, KeysOpened, NoStalePort, RedirectedIsTracked,
         ResolvesOwnDestination, Resolved, InUse

LEMMA CompleteStep ==
  ASSUME OneNamespace, DistinctKeys, Room, TypeOK, MapsComplete, [Next]_vars
  PROVE  MapsComplete'
<1>1. CASE \/ Attach \/ UpdateConfig \/ StartInternalListener
           \/ Exit \/ UNCHANGED vars
  BY <1>1, CompleteOther
     DEF Attach, UpdateConfig, StartInternalListener, vars
<1>2. ASSUME NEW c \in Cookie, NEW p \in Proc, NEW d \in Dest,
             NEW port \in SrcPort, cg_connect4(c, p, d, port)
      PROVE  MapsComplete'
  BY <1>2, CompleteConnect
<1>3. ASSUME NEW c \in Cookie,
             \/ cg_sock_ops(c) \/ ConnectFails(c) \/ Accept(c)
             \/ findTargetFromConnection(c) \/ Close(c) \/ ClientReset(c)
      PROVE  MapsComplete'
  BY <1>3, CompleteMove
<1> QED
  BY <1>1, <1>2, <1>3 DEF Next

(* In a pod of its own, with room in map_socks for every socket it opens,   *)
(* the maps know every redirected connection made since they were loaded,   *)
(* and no port entry is left that could answer for another one.             *)
THEOREM MapsStayComplete ==
  ASSUME OneNamespace, DistinctKeys, Room
  PROVE  Spec => []MapsComplete
<1>1. Init => TypeOK /\ MapsComplete
  BY CompleteInit DEF Init, TypeOK, Empty, DOWN, LISTENING
<1>2. TypeOK /\ MapsComplete /\ [Next]_vars => (TypeOK /\ MapsComplete)'
  BY TypeStep, CompleteStep
<1> QED
  BY <1>1, <1>2, PTL DEF Spec

(* Hence no connection is ever taken for one with another destination, not  *)
(* even one that outlives a restart of the sidecar.                         *)
THEOREM NeverMisrouted ==
  ASSUME OneNamespace, DistinctKeys, Room
  PROVE  Spec => []ResolvesOwnDestination
<1>1. MapsComplete => ResolvesOwnDestination
  BY DEF MapsComplete
<1> QED
  BY <1>1, MapsStayComplete, PTL

-----------------------------------------------------------------------------
(* With room in map_ports, the handshake of a tracked connection records    *)
(* its port: every entry belongs to another socket than this one.           *)
LEMMA PortFits ==
  ASSUME TypeOK, Room, PortsRecorded, NEW c \in Cookie, cg_sock_ops(c)
  PROVE  sock[c].port \in DOMAIN bpf_map_update_elem(map_ports, sock[c].port, c)
<1> DEFINE S == DOMAIN map_ports
           T == Cookie \ {c}
<1>1. /\ IsFiniteSet(T) /\ Cardinality(T) = Cardinality(Cookie) - 1
      /\ Cardinality(Cookie) \in Nat
  BY FS_RemoveElement, FS_CardinalityType DEF Room
<1>2. map_ports \in Injection(S, T)
  <2>1. \A p \in S : map_ports[p] \in Cookie /\ map_ports[p] # c
    BY DEF TypeOK, PortsRecorded, cg_sock_ops, InUse
  <2> QED
    BY <2>1 DEF TypeOK, PortsRecorded, Injection, IsInjective
<1>3. IsFiniteSet(S) /\ Cardinality(S) <= Cardinality(T)
  <2> HIDE DEF S, T
  <2> QED
    BY <1>1, <1>2, FS_Injection
<1>4. Cardinality(S) \in Nat
  <2> HIDE DEF S
  <2> QED
    BY <1>3, FS_CardinalityType
<1>5. Cardinality(DOMAIN map_ports) < MAX_CONNECTIONS
  BY <1>1, <1>3, <1>4, SocketAssumption DEF Room
<1> QED
  BY <1>5 DEF bpf_map_update_elem

LEMMA FoundConnect ==
  ASSUME TypeOK, DistinctKeys, MapsConsistent, FoundInv,
         NEW c \in Cookie, NEW p \in Proc, NEW d \in Dest, NEW port \in SrcPort,
         cg_connect4(c, p, d, port)
  PROVE  FoundInv'
<1> USE DEF InUse
<1>1. KeyOwner /\ sock[c] = Free /\ phase' = phase
  BY DEF MapsConsistent, cg_connect4
<1>2. /\ \A o \in Cookie \ {c} :
           sock'[o] = sock[o] /\ (Tracked(o)' <=> Tracked(o))
      /\ InUse(c)'
      /\ sock'[c].st = "connecting"
      /\ map_ports' = map_ports
  BY <1>1, Connect4Effect
<1>3. \A q \in DOMAIN map_ports : map_ports[q] \in Cookie \ {c}
  BY <1>1 DEF FoundInv, PortsRecorded, TypeOK
<1>4. PortsRecorded'
  BY <1>2, <1>3 DEF FoundInv, PortsRecorded
<1>5. WaitingIsFound'
  BY <1>1, <1>2 DEF FoundInv, WaitingIsFound, Waiting, ToProxy
<1>6. TrackedIsFound'
  BY <1>2 DEF FoundInv, TrackedIsFound, Resolved
<1> QED
  BY <1>4, <1>5, <1>6 DEF FoundInv

LEMMA FoundHandshake ==
  ASSUME TypeOK, OneNamespace, Room, MapsConsistent, FoundInv,
         NEW c \in Cookie, cg_sock_ops(c)
  PROVE  FoundInv'
<1> USE DEF InUse
<1>1. /\ sock[c] \in Socket
      /\ map_socks' = map_socks
      /\ \A o \in Cookie \ {c} : sock'[o] = sock[o]
      /\ sock'[c] # Free
      /\ sock'[c] # Closed =>
           /\ sock'[c].peer = sock[c].peer
           /\ sock'[c].port = sock[c].port
           /\ ~sock'[c].reset => ~sock[c].reset
  BY MoveEffect
<1>2. InUse(c) /\ sock[c].st = "connecting" /\ sock'[c].st = "established"
  BY <1>1 DEF cg_sock_ops, TypeOK, Socket
<1>3. \A o \in Cookie : Tracked(o)' <=> Tracked(o)
  BY <1>1 DEF Tracked
<1>4. \A q \in DOMAIN map_ports : map_ports[q] \in Cookie \ {c}
  BY <1>2 DEF FoundInv, PortsRecorded, TypeOK
<1>5. \/ map_ports' = map_ports
      \/ /\ DOMAIN map_ports' = DOMAIN map_ports \cup {sock[c].port}
         /\ map_ports'[sock[c].port] = c
         /\ \A q \in DOMAIN map_ports \ {sock[c].port} :
              map_ports'[q] = map_ports[q]
  BY DEF cg_sock_ops, RecordPort, bpf_map_update_elem
<1>6. PortsRecorded'
  <2>1. \A q \in DOMAIN map_ports' :
          \/ q \in DOMAIN map_ports /\ map_ports'[q] = map_ports[q]
          \/ q = sock[c].port /\ map_ports'[q] = c
    BY <1>5
  <2>2. \A q \in DOMAIN map_ports' :
          map_ports'[q] = c => q = sock[c].port
    BY <1>4, <2>1
  <2>3. \A q, r \in DOMAIN map_ports' : map_ports'[q] = map_ports'[r] => q = r
    BY <1>4, <2>1 DEF FoundInv, PortsRecorded
  <2>4. ASSUME NEW q \in DOMAIN map_ports'
        PROVE  /\ sock'[map_ports'[q]] # Free
               /\ sock'[map_ports'[q]] # Closed =>
                    sock'[map_ports'[q]].st # "connecting"
    <3>1. CASE map_ports'[q] = c
      BY <1>1, <1>2, <3>1
    <3>2. CASE map_ports'[q] # c
      <4>1. q \in DOMAIN map_ports /\ map_ports'[q] = map_ports[q]
        BY <2>1, <3>2
      <4>2. sock'[map_ports'[q]] = sock[map_ports[q]]
        BY <1>1, <1>4, <4>1
      <4> QED
        BY <4>1, <4>2 DEF FoundInv, PortsRecorded
    <3> QED
      BY <3>1, <3>2
  <2> QED
    BY <2>3, <2>4 DEF PortsRecorded
<1>7. WaitingIsFound'
  <2>1. DOMAIN map_ports \subseteq DOMAIN map_ports' /\ phase' = phase
    BY <1>5 DEF cg_sock_ops
  <2>2. ASSUME ToProxy(c)'
        PROVE  /\ phase' = LISTENING
               /\ Tracked(c)' => sock'[c].port \in DOMAIN map_ports'
    <3>1. sock[c].peer = ProxyEP /\ sock'[c].port = sock[c].port
      BY <1>1, <2>2 DEF ToProxy
    <3>2. Ns(c) = Home
      BY <1>1 DEF OneNamespace, Ns, Socket
    <3>3. phase = LISTENING /\ phase >= SOCKOPS
      BY <3>1, <3>2 DEF cg_sock_ops, Listening, SOCKOPS, LISTENING
    <3>4. Tracked(c) => map_ports' = bpf_map_update_elem(map_ports, sock[c].port, c)
      BY <3>3 DEF cg_sock_ops, RecordPort
    <3>5. sock[c].port \in DOMAIN bpf_map_update_elem(map_ports, sock[c].port, c)
      BY PortFits DEF FoundInv
    <3> QED
      BY <1>3, <2>1, <3>1, <3>3, <3>4, <3>5
  <2> QED
    BY <1>1, <1>3, <2>1, <2>2 DEF FoundInv, WaitingIsFound, Waiting, ToProxy
<1>8. TrackedIsFound'
  BY <1>1, <1>2, <1>3 DEF FoundInv, TrackedIsFound, Resolved
<1> QED
  BY <1>6, <1>7, <1>8 DEF FoundInv

LEMMA FoundMove ==
  ASSUME TypeOK, MapsConsistent, FoundInv, NEW c \in Cookie,
         \/ ConnectFails(c) \/ Accept(c)
         \/ findTargetFromConnection(c) \/ Close(c) \/ ClientReset(c)
  PROVE  FoundInv'
<1> USE DEF InUse
<1>1. /\ sock[c] \in Socket
      /\ map_socks' = map_socks
      /\ \A o \in Cookie \ {c} : sock'[o] = sock[o]
      /\ sock'[c] # Free
      /\ sock'[c] # Closed =>
           /\ sock'[c].dst = sock[c].dst
           /\ sock'[c].peer = sock[c].peer
           /\ sock'[c].port = sock[c].port
           /\ ~sock'[c].reset => ~sock[c].reset
  BY MoveEffect
<1>2. map_ports' = map_ports /\ phase' = phase
  BY DEF ConnectFails, Accept, findTargetFromConnection, Close, ClientReset
<1>3. \A o \in Cookie : Tracked(o)' <=> Tracked(o)
  BY <1>1 DEF Tracked
<1>4. InUse(c)
  BY <1>1, InUseType
<1>5. /\ sock'[c] # Closed =>
           /\ sock'[c].st # "connecting"
           /\ sock'[c].st \in {"established", "accepted"} => Waiting(c)
           /\ sock'[c].st = "resolved" =>
                 findTargetFromConnection(c) /\ sock[c].st = "accepted"
  <2>1. CASE ConnectFails(c) \/ Close(c)
    BY <2>1 DEF ConnectFails, Close, TypeOK
  <2>2. CASE Accept(c)
    BY <1>1, <2>2 DEF Accept, TypeOK, Socket, Waiting
  <2>3. CASE ClientReset(c)
    BY <1>1, <2>3 DEF ClientReset, TypeOK, Socket, Waiting
  <2>4. CASE findTargetFromConnection(c)
    <3>1. sock'[c] = Closed \/ sock'[c].st = "resolved"
      BY <1>1, <2>4 DEF findTargetFromConnection, TypeOK, Socket
    <3> QED
      BY <2>4, <3>1 DEF findTargetFromConnection
  <2> QED
    BY <2>1, <2>2, <2>3, <2>4
<1>6. PortsRecorded'
  BY <1>1, <1>2, <1>5 DEF FoundInv, PortsRecorded, TypeOK
<1>7. WaitingIsFound'
  BY <1>1, <1>2, <1>3, <1>4, <1>5 DEF FoundInv, WaitingIsFound, Waiting, ToProxy
<1>8. TrackedIsFound'
  <2>1. ASSUME Resolved(c)', Tracked(c)'
        PROVE  sock'[c].target = sock'[c].dst
    <3>1. findTargetFromConnection(c) /\ Waiting(c) /\ Tracked(c)
      BY <1>3, <1>4, <1>5, <2>1 DEF Resolved, Waiting
    <3>2. ToProxy(c)
      BY <1>1, <1>4, <2>1, <3>1
         DEF Resolved, ToProxy, MapsConsistent, SocketHistory,
             findTargetFromConnection
    <3>3. phase = LISTENING /\ sock[c].port \in DOMAIN map_ports
      BY <3>1, <3>2 DEF FoundInv, WaitingIsFound
    <3>4. map_ports[sock[c].port] = c
      BY <3>1, <3>2, <3>3 DEF MapsConsistent, PortOwner
    <3>5. Found(c)
      BY <3>1, <3>3, <3>4 DEF Found, Tracked, LISTENING, SOCKOPT
    <3>6. sock' = [sock EXCEPT ![c] =
             [sock[c] EXCEPT !.st = "resolved", !.target = map_socks[Key(c)]]]
      BY <3>1, <3>4, <3>5 DEF findTargetFromConnection
    <3>7. sock'[c].target = map_socks[Key(c)] /\ sock'[c].dst = sock[c].dst
      BY <1>1, <3>6 DEF TypeOK, Socket
    <3> QED
      BY <1>4, <3>1, <3>7 DEF MapsConsistent, KeyOwner
  <2> QED
    BY <1>1, <1>3, <2>1 DEF FoundInv, TrackedIsFound, Resolved
<1> QED
  BY <1>6, <1>7, <1>8 DEF FoundInv

LEMMA FoundOther ==
  ASSUME TypeOK, OneNamespace, FoundInv,
         Exit \/ Attach \/ UpdateConfig \/ StartInternalListener \/ UNCHANGED vars
  PROVE  FoundInv'
<1>1. CASE Exit
  <2>1. /\ DOMAIN map_socks' = {} /\ DOMAIN map_ports' = {}
        /\ \A c \in Cookie : sock'[c] = sock[c] \/ sock'[c] = Closed
    BY <1>1, ExitEffect
  <2>2. PortsRecorded' /\ TrackedIsFound'
    BY <2>1 DEF PortsRecorded, TrackedIsFound, Tracked
  <2>3. \A c \in Cookie : ~(Waiting(c)' /\ ToProxy(c)')
    <3> SUFFICES ASSUME NEW c \in Cookie, Waiting(c)', ToProxy(c)'
                 PROVE  FALSE
      OBVIOUS
    <3>1. /\ sock'[c] = sock[c] /\ InUse(c) /\ sock[c].peer = ProxyEP
          /\ sock[c].st # "connecting"
      BY <2>1 DEF Waiting, ToProxy, InUse
    <3>2. Ns(c) = Home
      BY <3>1, InUseType DEF OneNamespace, Ns, Socket
    <3>3. sock'[c] = Closed
      BY <1>1, <3>1, <3>2 DEF Exit
    <3> QED
      BY <3>3 DEF Waiting, InUse
  <2> QED
    BY <2>2, <2>3 DEF FoundInv, WaitingIsFound
<1>2. CASE Attach \/ UpdateConfig \/ StartInternalListener
  <2>1. UNCHANGED <<map_socks, map_ports, sock>> /\ phase # LISTENING
    BY <1>2 DEF Attach, UpdateConfig, StartInternalListener, TypeOK,
                DOWN, CONNECT4, SOCKOPS, SOCKOPT, CONFIGURED, LISTENING
  <2> QED
    BY <2>1 DEF FoundInv, PortsRecorded, WaitingIsFound, TrackedIsFound,
                Waiting, ToProxy, Resolved, InUse, Tracked
<1>3. CASE UNCHANGED vars
  BY <1>3 DEF vars, FoundInv, PortsRecorded, WaitingIsFound, TrackedIsFound,
              Waiting, ToProxy, Resolved, InUse, Tracked
<1> QED
  BY <1>1, <1>2, <1>3

(* In a pod of its own with room in the maps, the proxy's lookup answers    *)
(* for every connection that is in map_socks: the handshake has recorded    *)
(* its port before the proxy can accept it, nobody has taken the port over, *)
(* and the programs outlive the connection.                                 *)
LEMMA TrackedFound ==
  ASSUME OneNamespace, DistinctKeys, Room
  PROVE  Spec => []TrackedIsFound
<1> DEFINE Inv == TypeOK /\ MapsConsistent /\ FoundInv
<1>1. Init => Inv
  BY ConsistentInit
     DEF Init, TypeOK, Empty, DOWN, LISTENING, FoundInv, PortsRecorded,
         WaitingIsFound, TrackedIsFound, Waiting, Resolved, InUse
<1>2. Inv /\ [Next]_vars => Inv'
  <2> SUFFICES ASSUME Inv, [Next]_vars PROVE FoundInv'
    BY TypeStep, ConsistentStep
  <2>1. CASE \/ Exit \/ Attach \/ UpdateConfig \/ StartInternalListener
             \/ UNCHANGED vars
    BY <2>1, FoundOther
  <2>2. ASSUME NEW c \in Cookie, NEW p \in Proc, NEW d \in Dest,
               NEW port \in SrcPort, cg_connect4(c, p, d, port)
        PROVE  FoundInv'
    BY <2>2, FoundConnect
  <2>3. ASSUME NEW c \in Cookie, cg_sock_ops(c)
        PROVE  FoundInv'
    BY <2>3, FoundHandshake
  <2>4. ASSUME NEW c \in Cookie,
               \/ ConnectFails(c) \/ Accept(c)
               \/ findTargetFromConnection(c) \/ Close(c) \/ ClientReset(c)
        PROVE  FoundInv'
    BY <2>4, FoundMove
  <2> QED
    BY <2>1, <2>2, <2>3, <2>4 DEF Next
<1>3. Inv => TrackedIsFound
  BY DEF FoundInv
<1> QED
  BY <1>1, <1>2, <1>3, PTL DEF Spec

(* Hence, with the maps complete, every connection the running programs     *)
(* have redirected is resolved to the destination its process asked for.    *)
THEOREM RedirectedFound ==
  ASSUME OneNamespace, DistinctKeys, Room
  PROVE  Spec => []RedirectedIsFound
<1>1. MapsComplete /\ TrackedIsFound => RedirectedIsFound
  <2> SUFFICES ASSUME MapsComplete, TrackedIsFound,
                      NEW c \in Cookie, Resolved(c), c \notin orphans
               PROVE  sock[c].target = sock[c].dst
    BY DEF RedirectedIsFound
  <2>1. sock[c].peer = ProxyEP /\ Redirected(c)
    BY DEF MapsComplete, MapsConsistent, SocketHistory, Resolved, Redirected
  <2>2. Tracked(c)
    BY <2>1 DEF MapsComplete, RedirectedIsTracked, Resolved
  <2> QED
    BY <2>2 DEF TrackedIsFound
<1> QED
  BY <1>1, MapsStayComplete, TrackedFound, PTL

-----------------------------------------------------------------------------
(* The proxy that loaded the programs is never redirected, whoever shares   *)
(* its cgroup and wherever it dials, the original destinations in the pod   *)
(* network included: it connects only once its listener is open, and by     *)
(* then map_config has its pid.                                             *)
THEOREM ProxyDirect == Spec => []ProxyNotProxied
<1> DEFINE Inv == TypeOK /\ ConfigWritten /\ ProxyNotProxied
<1> USE DEF InUse, DOWN, CONNECT4, SOCKOPS, SOCKOPT, CONFIGURED, LISTENING
<1>1. Init => Inv
  BY DEF Init, TypeOK, Empty, ConfigWritten, ProxyNotProxied
<1>2. Inv /\ [Next]_vars => Inv'
  <2> SUFFICES ASSUME Inv, [Next]_vars
               PROVE  ConfigWritten' /\ ProxyNotProxied'
    BY TypeStep
  <2>1. CASE Attach \/ UpdateConfig \/ StartInternalListener \/ UNCHANGED vars
    BY <2>1 DEF Attach, UpdateConfig, StartInternalListener, vars, TypeOK,
                ConfigWritten, ProxyNotProxied
  <2>2. CASE Exit
    <3>1. \A c \in Cookie : InUse(c)' => sock'[c] = sock[c]
      BY <2>2, ExitEffect
    <3> QED
      BY <2>2, <3>1 DEF Exit, ConfigWritten, ProxyNotProxied
  <2>3. ASSUME NEW c \in Cookie, NEW p \in Proc, NEW d \in Dest,
               NEW port \in SrcPort, cg_connect4(c, p, d, port)
        PROVE  ConfigWritten' /\ ProxyNotProxied'
    <3>1. PICK inNet \in InNetwork(d.addr, map_config), pid \in ns_pid_ppid(p) :
            LET redirected == phase # DOWN /\ Redirects(pid, d, inNet)
                peer == IF redirected THEN map_config.proxy ELSE d
            IN  sock' = [sock EXCEPT ![c] =
                  [st |-> "connecting", proc |-> p, dst |-> d, peer |-> peer,
                   port |-> port, target |-> ZeroEP, reset |-> FALSE]]
      BY <2>3 DEF cg_connect4
    <3>2. p = Proxy[Home] => ~Redirects(pid, d, inNet)
      <4>1. p = Proxy[Home] => phase = LISTENING
        BY <2>3, PlacementAssumption DEF cg_connect4, MayConnect, Listening
      <4>2. p = Proxy[Home] => map_config.proxy_pid = Getpid(p)
        BY <4>1 DEF ConfigWritten, ProxyConfig
      <4>3. p = Proxy[Home] => pid = Getpid(p)
        <5> SUFFICES ASSUME p = Proxy[Home] PROVE pid = Getpid(p)
          OBVIOUS
        <5>1. ForChildren[p] \in Nat /\ ForChildren[p] + 1 = Len(Numbers[p])
          BY PlacementAssumption
        <5> QED
          BY <5>1, <3>1 DEF ns_pid_ppid, Getpid
      <4> QED
        BY <4>2, <4>3 DEF Redirects
    <3>3. /\ sock'[c].proc = p /\ sock'[c].dst = d
          /\ p = Proxy[Home] => sock'[c].peer = d
          /\ \A o \in Cookie \ {c} : sock'[o] = sock[o]
      BY <3>1, <3>2 DEF TypeOK
    <3>4. ConfigWritten'
      BY <2>3 DEF cg_connect4, ConfigWritten, ProxyConfig
    <3> QED
      BY <3>3, <3>4 DEF ProxyNotProxied
  <2>4. ASSUME NEW c \in Cookie,
               \/ cg_sock_ops(c) \/ ConnectFails(c) \/ Accept(c)
               \/ findTargetFromConnection(c) \/ Close(c) \/ ClientReset(c)
        PROVE  ConfigWritten' /\ ProxyNotProxied'
    <3>1. /\ sock[c] \in Socket
          /\ \A o \in Cookie \ {c} : sock'[o] = sock[o]
          /\ sock'[c] # Closed => /\ sock'[c].dst = sock[c].dst
                                  /\ sock'[c].peer = sock[c].peer
                                  /\ sock'[c].proc = sock[c].proc
      BY <2>4, MoveEffect
    <3>2. sock[c] # Free /\ sock[c] # Closed
      BY <3>1, InUseType
    <3>3. ProxyNotProxied'
      BY <3>1, <3>2 DEF ProxyNotProxied
    <3>4. ConfigWritten'
      BY <2>4 DEF ConfigWritten, ProxyConfig, cg_sock_ops, ConnectFails, Accept,
                  findTargetFromConnection, Close, ClientReset
    <3> QED
      BY <3>3, <3>4
  <2> QED
    BY <2>1, <2>2, <2>3, <2>4 DEF Next
<1> QED
  BY <1>1, <1>2, PTL DEF Spec
=============================================================================
