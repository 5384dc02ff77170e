------------------------------ MODULE Sidecar ------------------------------
(***************************************************************************)
(* The life of the sidecar process (sidecar/main.go, manager.Setup and     *)
(* manager.Start): in which order it opens its listeners, reads its        *)
(* certificates and starts to accept, while connections of its application *)
(* and of other sidecars already arrive.  What happens on a connection     *)
(* once it is dialled is the subject of Tunnel.  dtunnel/main.go is the    *)
(* same process with c.Proxy set.                                          *)
(*                                                                         *)
(* Start writes c.Certificates and the handlers read it without any        *)
(* synchronisation.  It is one word that goes from nil to its final value  *)
(* once, so a read sees either; the steps GetEnvCerts and GetFSCerts stand *)
(* for the moment the write is seen by the other threads.                  *)
(***************************************************************************)
EXTENDS Naturals

CONSTANTS
  Pod,        \* pods with a sidecar
  Conn,       \* connections of their applications
  Src, Dst,   \* [Conn -> Pod]: between which pods
  Configs,    \* ways to set up the pods, each a function [Pod -> Config]
  MaxExits    \* bound: sidecars that are killed

Found == {"nil", "good", "bad"}    \* bad: present but not usable

(* What a sidecar is given: the certificates in its environment (SMESH-CA,  *)
(* -CERT and -KEY) and in the files of /tmp, the flag -overrideAddress and  *)
(* the variable KUBE_NODE_NAME ("" for none), and whether it is a dtunnel.  *)
Config == [EnvCerts : Found, FSCerts : Found,
           overrideAddress : Pod \cup {""}, KUBE_NODE_NAME : Pod \cup {""},
           Proxy : BOOLEAN]

ASSUME SidecarAssumption ==
  /\ Src \in [Conn -> Pod] /\ Dst \in [Conn -> Pod]
  /\ Configs \subseteq [Pod -> Config]
  /\ MaxExits \in Nat

VARIABLES
  config,        \* the way the pods are set up
  stage,         \* [Pod -> how far Start has got]
  Certificates,  \* [Pod -> c.Certificates of its process]
  conn,          \* [Conn -> [st, late]]
  exits          \* sidecars killed so far

vars == <<config, stage, Certificates, conn, exits>>

DOWN     == 0   \* not running (or still in Setup and LoadEPF)
INTERNAL == 1   \* 18000 is open, and StartListeners accepts on it
EXTERNAL == 2   \* 18001 is open, nobody accepts yet
NOENV    == 3   \* GetEnvCerts failed
CERTS    == 4   \* c.Certificates has its final value
TLSREADY == 5   \* with certificates: 18443 is open and accepting
SERVING  == 6   \* StartListeners accepts on 18001

(* new: not yet accepted by the source's sidecar; late: accepted when the   *)
(* sidecar had its certificates; queued: in the backlog of 18001; hello:    *)
(* there too, with the first message of a TLS handshake.                    *)
State == {"new", "accepted", "queued", "hello", "plain", "tls", "closed"}

TypeOK ==
  /\ config \in [Pod -> Config]
  /\ stage \in [Pod -> DOWN .. SERVING]
  /\ Certificates \in [Pod -> Found]
  /\ conn \in [Conn -> [st : State, late : BOOLEAN]]
  /\ exits \in 0 .. MaxExits

Init ==
  /\ config \in Configs
  /\ stage = [p \in Pod |-> DOWN]
  /\ Certificates = [p \in Pod |-> "nil"]
  /\ conn = [c \in Conn |-> [st |-> "new", late |-> FALSE]]
  /\ exits = 0

(* Setup: the environment has the last word on the debug override, ...      *)
ClusterAddress(p) ==
  IF config[p].KUBE_NODE_NAME # "" THEN config[p].KUBE_NODE_NAME
                                   ELSE config[p].overrideAddress

(* ... which takes the place of the destination in every dial.              *)
Endpoint(c) ==
  IF ClusterAddress(Src[c]) # "" THEN ClusterAddress(Src[c]) ELSE Dst[c]

-----------------------------------------------------------------------------
(* Start, step by step.                                                     *)

Advance(p, from, to) ==
  /\ stage[p] = from
  /\ stage' = [stage EXCEPT ![p] = to]
  /\ UNCHANGED <<config, conn, exits>>

(* The process ends, and every connection that is in its hands.             *)
Ends(p) ==
  /\ stage' = [stage EXCEPT ![p] = DOWN]
  /\ Certificates' = [Certificates EXCEPT ![p] = "nil"]
  /\ conn' = [c \in Conn |->
                IF \/ Src[c] = p /\ conn[c].st # "new"
                   \/ Endpoint(c) = p /\ conn[c].st \in {"queued", "hello", "plain", "tls"}
                  THEN [conn[c] EXCEPT !.st = "closed"]
                  ELSE conn[c]]
  /\ UNCHANGED config

StartInternalListener(p) ==
  Advance(p, DOWN, INTERNAL) /\ UNCHANGED Certificates

StartExternalListener(p) ==
  Advance(p, INTERNAL, EXTERNAL) /\ UNCHANGED Certificates

GetEnvCerts(p) ==
  /\ Advance(p, EXTERNAL, IF config[p].EnvCerts = "nil" THEN NOENV ELSE CERTS)
  /\ Certificates' = [Certificates EXCEPT ![p] = config[p].EnvCerts]

(* Mutant: the early returns are missing, what could be read is stored.     *)
MutGetFSCertsPartial(p) ==
  /\ Advance(p, NOENV, CERTS)
  /\ \E found \in {config[p].FSCerts, "partial"} :
       Certificates' = [Certificates EXCEPT ![p] = found]

GetFSCerts(p) ==
  /\ Advance(p, NOENV, CERTS)
  /\ Certificates' = [Certificates EXCEPT ![p] = config[p].FSCerts]

(* Mutant: unusable certificates are skipped instead of being fatal.        *)
MutStartTLSSkipsBad(p) ==
  Advance(p, CERTS, TLSREADY) /\ UNCHANGED Certificates

(* if c.Certificates != nil: StartExternalTLSListener (fatal on unusable    *)
(* certificates) and StartTLSListener.                                      *)
StartExternalTLSListener(p) ==
  \/ /\ Certificates[p] # "bad"
     /\ Advance(p, CERTS, TLSREADY)
     /\ UNCHANGED Certificates
  \/ /\ Certificates[p] = "bad"
     /\ stage[p] = CERTS
     /\ Ends(p) /\ UNCHANGED exits

(* Mutant: the accept loop is started only when there are no certificates.  *)
MutStartListenersPlainOnly(p) ==
  /\ Certificates[p] = "nil"
  /\ Advance(p, TLSREADY, SERVING)
  /\ UNCHANGED Certificates

StartListeners(p) ==
  Advance(p, TLSREADY, SERVING) /\ UNCHANGED Certificates

(* SIGTERM, SIGINT or a crash.                                              *)
Exit(p) ==
  /\ stage[p] # DOWN
  /\ exits < MaxExits
  /\ exits' = exits + 1
  /\ Ends(p)

-----------------------------------------------------------------------------
(* Connections.                                                             *)

(* The internal listener accepts c and starts internalProxy.                *)
Accept(c) ==
  /\ conn[c].st = "new"
  /\ stage[Src[c]] >= INTERNAL
  /\ conn' = [conn EXCEPT ![c] = [st |-> "accepted",
                                  late |-> stage[Src[c]] >= CERTS]]
  /\ UNCHANGED <<config, stage, Certificates, exits>>

Becomes(c, st) ==
  /\ conn' = [conn EXCEPT ![c].st = st]
  /\ UNCHANGED <<config, stage, Certificates, exits>>

(* Mutant: a failed TLS dial is tried again without TLS.                    *)
MutDialFallsBack(c) ==
  /\ conn[c].st = "accepted"
  /\ \/ /\ Certificates[Src[c]] = "good"
        /\ stage[Dst[c]] >= TLSREADY /\ Certificates[Dst[c]] = "good"
        /\ Becomes(c, "tls")
     \/ /\ stage[Dst[c]] >= EXTERNAL
        /\ Becomes(c, "queued")
     \/ Becomes(c, "closed")

(* Without certificates: a dial in the clear to 18001.                      *)
DialPlain(c) ==
  /\ Certificates[Src[c]] = "nil"
  /\ stage[Endpoint(c)] >= EXTERNAL
  /\ Becomes(c, "queued")

(* With certificates: to 18443 with TLS, which needs a listener there; but  *)
(* the override goes to 18001, also with TLS.                               *)
DialTLS(c) ==
  /\ Certificates[Src[c]] = "good" /\ ~config[Src[c]].Proxy
  /\ \/ /\ ClusterAddress(Src[c]) = ""
        /\ stage[Dst[c]] >= TLSREADY /\ Certificates[Dst[c]] = "good"
        /\ Becomes(c, "tls")
     \/ /\ ClusterAddress(Src[c]) # ""
        /\ stage[Endpoint(c)] >= EXTERNAL
        /\ Becomes(c, "hello")

(* internalProxy looks at c.Certificates and dials.  A failed lookup of the *)
(* target or a failed dial closes the connection; unusable certificates end *)
(* the process, and so does the ProxyFunc of a dtunnel (getHost), whose     *)
(* Kubernetes client is never set.                                          *)
Dial(c) ==
  /\ conn[c].st = "accepted"
  /\ \/ DialPlain(c)
     \/ DialTLS(c)
     \/ /\ \/ Certificates[Src[c]] = "bad"
           \/ Certificates[Src[c]] = "good" /\ config[Src[c]].Proxy
        /\ Ends(Src[c]) /\ UNCHANGED exits
     \/ Becomes(c, "closed")

(* The external listener accepts c.  The first message of a TLS handshake   *)
(* is taken for a destination that cannot be dialled.                       *)
Serve(c) ==
  /\ stage[Endpoint(c)] >= SERVING
  /\ \/ conn[c].st = "queued" /\ Becomes(c, "plain")
     \/ conn[c].st = "hello" /\ Becomes(c, "closed")

(* The end of a tunnel, or of a TLS handshake that times out.               *)
Close(c) ==
  /\ conn[c].st \in {"plain", "tls", "hello"}
  /\ Becomes(c, "closed")

Step(p) ==
  \/ StartInternalListener(p) \/ StartExternalListener(p)
  \/ GetEnvCerts(p) \/ GetFSCerts(p)
  \/ StartExternalTLSListener(p) \/ StartListeners(p)

Next ==
  \/ \E p \in Pod : Step(p) \/ Exit(p)
  \/ \E c \in Conn : Accept(c) \/ Dial(c) \/ Serve(c) \/ Close(c)

Spec == Init /\ [][Next]_vars

(* Start runs to its end, dials have timeouts, accept loops accept, and the *)
(* kubelet restarts the sidecar.                                            *)
Fairness ==
  /\ \A p \in Pod : WF_vars(Step(p))
  /\ \A c \in Conn : WF_vars(Dial(c)) /\ WF_vars(Serve(c))
FairSpec == Spec /\ Fairness

-----------------------------------------------------------------------------
(* Properties.                                                              *)

HasCerts(p) == config[p].EnvCerts # "nil" \/ config[p].FSCerts # "nil"
InClear(c) == conn[c].st \in {"queued", "plain"}

(* From the moment the sidecar has its certificates no connection it        *)
(* accepts leaves the pod in the clear, whatever the other side does.       *)
NoLatePlain ==
  \A c \in Conn : conn[c].late /\ HasCerts(Src[c]) => ~InClear(c)

(* A sidecar with unusable certificates takes no connection from others,    *)
(* not even one that was waiting before it looked at them.                  *)
BadCertsServeNothing ==
  \A c \in Conn : conn[c].st \in {"plain", "tls"} => Certificates[Endpoint(c)] # "bad"

(* A connection in the backlog of 18001 does not wait there forever,        *)
(* although the listener is opened long before anyone accepts.              *)
BacklogServed ==
  \A c \in Conn :
    conn[c].st \in {"queued", "hello"} ~> conn[c].st \in {"plain", "closed"}

(* "traffic will now be encrytped with the certificates": with certificates *)
(* in its environment a sidecar sends nothing in the clear.                 *)
EncryptedWithCerts ==
  \A c \in Conn : HasCerts(Src[c]) => ~InClear(c)

-----------------------------------------------------------------------------
(* The inductive strengthening of NoLatePlain: a sidecar past CERTS has     *)
(* what it could find, and a late connection still waiting for its dial     *)
(* belongs to such a sidecar (the end of a process takes its connections    *)
(* with it).                                                                *)
CertsFinal ==
  \A p \in Pod :
    /\ stage[p] = NOENV => config[p].EnvCerts = "nil"
    /\ stage[p] >= CERTS /\ HasCerts(p) => Certificates[p] # "nil"
LateWaiting ==
  \A c \in Conn : conn[c].late /\ conn[c].st = "accepted" => stage[Src[c]] >= CERTS
LateInv == CertsFinal /\ LateWaiting /\ NoLatePlain

(* The inductive strengthening of BadCertsServeNothing: only a sidecar that *)
(* is past the check of its certificates has connections of others, and it  *)
(* loses them when it ends.                                                 *)
ServedInv ==
  /\ \A p \in Pod : stage[p] >= TLSREADY => Certificates[p] # "bad"
  /\ \A c \in Conn : conn[c].st \in {"plain", "tls"} => stage[Endpoint(c)] >= TLSREADY
=============================================================================
