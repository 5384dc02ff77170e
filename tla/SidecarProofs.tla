--------------------------- MODULE SidecarProofs ---------------------------
(* Proofs about Sidecar, for any number of pods and connections, whatever   *)
(* certificates each pod finds and however often sidecars end.              *)
EXTENDS Sidecar, TLAPS

USE DEF DOWN, INTERNAL, EXTERNAL, NOENV, CERTS, TLSREADY, SERVING

(* What a sidecar can find, and whom it can dial.                           *)
LEMMA ConfigType ==
  ASSUME TypeOK, NEW p \in Pod
  PROVE  config[p].EnvCerts \in Found /\ config[p].FSCerts \in Found
<1>1. config[p] \in Config
  BY DEF TypeOK
<1> QED
  BY <1>1 DEF Config

(* The process ends: its connections are closed, the others stay.           *)
LEMMA EndsEffect ==
  ASSUME TypeOK, NEW p \in Pod, Ends(p)
  PROVE  /\ exits' \in 0 .. MaxExits => TypeOK'
         /\ config' = config
         /\ stage' = [stage EXCEPT ![p] = DOWN]
         /\ Certificates' = [Certificates EXCEPT ![p] = "nil"]
         /\ \A c \in Conn : /\ conn'[c].late = conn[c].late
                            /\ conn'[c].st \in {conn[c].st, "closed"}
                            /\ Src[c] = p => conn'[c].st \in {"new", "closed"}
<1>1. conn' \in [Conn -> [st : State, late : BOOLEAN]]
  BY DEF Ends, TypeOK, State
<1>2. \A c \in Conn : /\ conn'[c].late = conn[c].late
                      /\ conn'[c].st \in {conn[c].st, "closed"}
                      /\ Src[c] = p => conn'[c].st \in {"new", "closed"}
  BY DEF Ends, TypeOK
<1> QED
  BY <1>1, <1>2 DEF Ends, TypeOK, Found

(* Start moves on: no connection is touched, no stage is skipped backwards, *)
(* and c.Certificates is final from CERTS on.                               *)
Moved(p) ==
  /\ stage' \in [Pod -> DOWN .. SERVING]
  /\ Certificates' \in [Pod -> Found]
  /\ config' = config /\ conn' = conn /\ exits' = exits
  /\ \A q \in Pod : stage'[q] >= stage[q]
  /\ CertsFinal => CertsFinal'

LEMMA StepEffect ==
  ASSUME TypeOK, NEW p \in Pod, Step(p)
  PROVE  (Ends(p) /\ exits' = exits) \/ Moved(p)
<1>1. CASE StartInternalListener(p)
  BY <1>1 DEF StartInternalListener, Moved, Advance, TypeOK, CertsFinal, HasCerts
<1>2. CASE StartExternalListener(p)
  BY <1>2 DEF StartExternalListener, Moved, Advance, TypeOK, CertsFinal, HasCerts
<1>3. CASE GetEnvCerts(p)
  <2>1. /\ stage' \in [Pod -> DOWN .. SERVING]
        /\ Certificates' \in [Pod -> Found]
        /\ config' = config /\ conn' = conn /\ exits' = exits
        /\ \A q \in Pod : stage'[q] >= stage[q]
    BY <1>3, ConfigType DEF GetEnvCerts, Advance, TypeOK
  <2>2. CertsFinal => CertsFinal'
    BY <1>3 DEF GetEnvCerts, Advance, TypeOK, CertsFinal, HasCerts
  <2> QED
    BY <2>1, <2>2 DEF Moved
<1>4. CASE GetFSCerts(p)
  <2>1. /\ stage' \in [Pod -> DOWN .. SERVING]
        /\ Certificates' \in [Pod -> Found]
        /\ config' = config /\ conn' = conn /\ exits' = exits
        /\ \A q \in Pod : stage'[q] >= stage[q]
    BY <1>4, ConfigType DEF GetFSCerts, Advance, TypeOK
  <2>2. CertsFinal => CertsFinal'
    BY <1>4 DEF GetFSCerts, Advance, TypeOK, CertsFinal, HasCerts
  <2> QED
    BY <2>1, <2>2 DEF Moved
<1>5. CASE StartExternalTLSListener(p)
  BY <1>5 DEF StartExternalTLSListener, Moved, Advance, TypeOK, CertsFinal, HasCerts
<1>6. CASE StartListeners(p)
  BY <1>6 DEF StartListeners, Moved, Advance, TypeOK, CertsFinal, HasCerts
<1> QED
  BY <1>1, <1>2, <1>3, <1>4, <1>5, <1>6 DEF Step

(* What a connection goes through changes neither stages nor certificates,  *)
(* but for a process that ends over its unusable certificates.              *)
LEMMA ConnType ==
  ASSUME TypeOK, NEW c \in Conn, NEW st \in State, Becomes(c, st)
  PROVE  /\ TypeOK'
         /\ config' = config /\ stage' = stage /\ Certificates' = Certificates
         /\ \A d \in Conn \ {c} : conn'[d] = conn[d]
         /\ conn'[c].st = st /\ conn'[c].late = conn[c].late
  BY DEF Becomes, TypeOK

LEMMA AcceptType ==
  ASSUME TypeOK, NEW c \in Conn, Accept(c)
  PROVE  /\ TypeOK'
         /\ config' = config /\ stage' = stage /\ Certificates' = Certificates
         /\ \A d \in Conn \ {c} : conn'[d] = conn[d]
         /\ conn'[c].st = "accepted" /\ conn'[c].late = (stage[Src[c]] >= CERTS)
<1>1. conn' = [conn EXCEPT ![c] = [st |-> "accepted", late |-> stage[Src[c]] >= CERTS]]
  BY DEF Accept
<1>2. (stage[Src[c]] >= CERTS) \in BOOLEAN
  OBVIOUS
<1>3. conn'[c] = [st |-> "accepted", late |-> stage[Src[c]] >= CERTS]
  BY <1>1 DEF TypeOK
<1>4. conn' \in [Conn -> [st : State, late : BOOLEAN]]
  BY <1>1, <1>2 DEF TypeOK, State
<1> QED
  BY <1>1, <1>3, <1>4 DEF Accept, TypeOK

(* What internalProxy can do with an accepted connection.                   *)
LEMMA DialCases ==
  ASSUME TypeOK, NEW c \in Conn, Dial(c)
  PROVE  /\ conn[c].st = "accepted"
         /\ \/ Certificates[Src[c]] = "nil" /\ Becomes(c, "queued")
            \/ \E st \in {"tls", "hello", "closed"} : Becomes(c, st)
            \/ Src[c] \in Pod /\ Ends(Src[c]) /\ exits' = exits
<1>1. conn[c].st = "accepted" /\ Src[c] \in Pod
  BY SidecarAssumption DEF Dial
<1>2. CASE DialPlain(c)
  BY <1>1, <1>2 DEF DialPlain
<1>3. CASE DialTLS(c)
  <2>1. Becomes(c, "tls") \/ Becomes(c, "hello")
    BY <1>3 DEF DialTLS
  <2> QED
    BY <1>1, <2>1
<1> QED
  BY <1>1, <1>2, <1>3 DEF Dial

LEMMA TypeStep ==
  ASSUME TypeOK, [Next]_vars
  PROVE  TypeOK'
<1>1. ASSUME NEW p \in Pod, Step(p) PROVE TypeOK'
  BY <1>1, StepEffect, EndsEffect DEF Moved, TypeOK
<1>2. ASSUME NEW p \in Pod, Exit(p) PROVE TypeOK'
  <2>1. exits' \in 0 .. MaxExits
    BY <1>2, SidecarAssumption DEF Exit, TypeOK
  <2> QED
    BY <1>2, <2>1, EndsEffect DEF Exit
<1>3. ASSUME NEW c \in Conn, Accept(c) PROVE TypeOK'
  BY <1>3, AcceptType
<1>4. ASSUME NEW c \in Conn, Dial(c) PROVE TypeOK'
  BY <1>4, DialCases, ConnType, EndsEffect DEF State, TypeOK
<1>5. ASSUME NEW c \in Conn, Serve(c) PROVE TypeOK'
  BY <1>5, ConnType DEF Serve, State
<1>6. ASSUME NEW c \in Conn, Close(c) PROVE TypeOK'
  BY <1>6, ConnType DEF Close, State
<1>7. CASE UNCHANGED vars
  BY <1>7 DEF vars, TypeOK
<1> QED
  BY <1>1, <1>2, <1>3, <1>4, <1>5, <1>6, <1>7 DEF Next

(* Every variable has its type: for any pods, connections and certificates. *)
THEOREM SidecarTypeCorrect == Spec => []TypeOK
<1>1. Init => TypeOK
  BY SidecarAssumption DEF Init, TypeOK, State, Found
<1>2. TypeOK /\ [Next]_vars => TypeOK'
  BY TypeStep
<1> QED
  BY <1>1, <1>2, PTL DEF Spec

-----------------------------------------------------------------------------
(* NoLatePlain.                                                             *)

(* The end of a process keeps LateInv: it forgets its certificates, and     *)
(* takes with it every connection that relied on them.                      *)
LEMMA LateEnds ==
  ASSUME TypeOK, LateInv, NEW p \in Pod, Ends(p)
  PROVE  LateInv'
<1>1. CertsFinal'
  BY EndsEffect DEF LateInv, CertsFinal, HasCerts, TypeOK
<1>2. LateWaiting'
  <2> SUFFICES ASSUME NEW c \in Conn, conn'[c].late, conn'[c].st = "accepted"
               PROVE  stage'[Src[c]] >= CERTS
    BY DEF LateWaiting
  <2>1. Src[c] # p /\ conn[c].late /\ conn[c].st = "accepted"
    BY EndsEffect
  <2> QED
    BY <2>1, EndsEffect, SidecarAssumption DEF LateInv, LateWaiting, TypeOK
<1>3. NoLatePlain'
  BY EndsEffect DEF LateInv, NoLatePlain, InClear, HasCerts
<1> QED
  BY <1>1, <1>2, <1>3 DEF LateInv

(* A connection may become anything but "accepted", and waits in the clear  *)
(* only if it was accepted while c.Certificates was nil.                    *)
LEMMA LateBecomes ==
  ASSUME TypeOK, LateInv, NEW c \in Conn,
         NEW st \in State \ {"accepted"}, Becomes(c, st),
         st = "queued" => conn[c].st = "accepted" /\ Certificates[Src[c]] = "nil",
         st = "plain" => conn[c].st = "queued"
  PROVE  LateInv'
<1>1. CertsFinal'
  BY ConnType DEF LateInv, CertsFinal, HasCerts
<1>2. LateWaiting'
  BY ConnType DEF LateInv, LateWaiting
<1>3. NoLatePlain'
  <2>1. conn[c].late /\ HasCerts(Src[c]) => st \notin {"queued", "plain"}
    BY SidecarAssumption DEF LateInv, CertsFinal, LateWaiting, NoLatePlain, InClear
  <2> QED
    BY <2>1, ConnType DEF LateInv, NoLatePlain, InClear, HasCerts
<1> QED
  BY <1>1, <1>2, <1>3 DEF LateInv

LEMMA LateStep ==
  ASSUME TypeOK, LateInv, [Next]_vars
  PROVE  LateInv'
<1>1. ASSUME NEW p \in Pod, Step(p) PROVE LateInv'
  <2>1. CASE Ends(p)
    BY <2>1, LateEnds
  <2>2. CASE Moved(p)
    <3>1. CertsFinal' /\ NoLatePlain'
      BY <2>2 DEF Moved, LateInv, NoLatePlain, InClear, HasCerts
    <3>2. LateWaiting'
      <4> SUFFICES ASSUME NEW c \in Conn, conn[c].late, conn[c].st = "accepted"
                   PROVE  stage'[Src[c]] >= CERTS
        BY <2>2 DEF Moved, LateWaiting
      <4>1. Src[c] \in Pod
        BY SidecarAssumption
      <4>2. stage[Src[c]] \in Nat /\ stage'[Src[c]] \in Nat
        BY <2>2, <4>1 DEF Moved, TypeOK
      <4>3. stage[Src[c]] >= CERTS /\ stage'[Src[c]] >= stage[Src[c]]
        BY <2>2, <4>1 DEF Moved, LateInv, LateWaiting
      <4> QED
        BY <4>2, <4>3
    <3> QED
      BY <3>1, <3>2 DEF LateInv
  <2> QED
    BY <1>1, <2>1, <2>2, StepEffect
<1>2. ASSUME NEW p \in Pod, Exit(p) PROVE LateInv'
  BY <1>2, LateEnds DEF Exit
<1>3. ASSUME NEW c \in Conn, Accept(c) PROVE LateInv'
  <2>1. CertsFinal'
    BY <1>3, AcceptType DEF LateInv, CertsFinal, HasCerts
  <2>2. LateWaiting'
    BY <1>3, AcceptType DEF LateInv, LateWaiting
  <2>3. NoLatePlain'
    BY <1>3, AcceptType DEF LateInv, NoLatePlain, InClear, HasCerts
  <2> QED
    BY <2>1, <2>2, <2>3 DEF LateInv
<1>4. ASSUME NEW c \in Conn, Dial(c) PROVE LateInv'
  BY <1>4, DialCases, LateBecomes, LateEnds DEF State
<1>5. ASSUME NEW c \in Conn, Serve(c) PROVE LateInv'
  BY <1>5, LateBecomes DEF Serve, State
<1>6. ASSUME NEW c \in Conn, Close(c) PROVE LateInv'
  BY <1>6, LateBecomes DEF Close, State
<1>7. CASE UNCHANGED vars
  BY <1>7 DEF vars, LateInv, CertsFinal, LateWaiting, NoLatePlain, InClear, HasCerts
<1> QED
  BY <1>1, <1>2, <1>3, <1>4, <1>5, <1>6, <1>7 DEF Next

(* A sidecar past the loading of its certificates has those its pod was     *)
(* given, and a connection accepted after that still waits at such a        *)
(* sidecar: what internalProxy reads from c.Certificates is never older     *)
(* than its accept.                                                         *)
THEOREM LateStays == Spec => []LateInv
<1>1. Init => LateInv
  BY DEF Init, LateInv, CertsFinal, LateWaiting, NoLatePlain, InClear
<1>2. TypeOK /\ LateInv /\ [Next]_vars => LateInv'
  BY LateStep
<1> QED
  BY <1>1, <1>2, SidecarTypeCorrect, PTL DEF Spec

(* A connection that internalProxy accepts once Start has its certificates  *)
(* is never sent in the clear: not after any number of restarts of either   *)
(* sidecar, and whatever the other side has.                                *)
THEOREM LateEncrypted == Spec => []NoLatePlain
<1>1. LateInv => NoLatePlain
  BY DEF LateInv
<1> QED
  BY <1>1, LateStays, PTL

-----------------------------------------------------------------------------
(* BadCertsServeNothing.                                                    *)

LEMMA EndpointType ==
  ASSUME TypeOK, NEW c \in Conn
  PROVE  Endpoint(c) \in Pod
<1>1. Src[c] \in Pod /\ Dst[c] \in Pod
  BY SidecarAssumption
<1>2. config[Src[c]] \in Config
  BY <1>1 DEF TypeOK
<1>3. ClusterAddress(Src[c]) \in Pod \cup {""}
  BY <1>2 DEF Config, ClusterAddress
<1> QED
  BY <1>1, <1>3 DEF Endpoint

LEMMA EndpointStays ==
  ASSUME config' = config
  PROVE  \A c \in Conn : Endpoint(c)' = Endpoint(c)
  BY DEF Endpoint, ClusterAddress

LEMMA ServedEnds ==
  ASSUME TypeOK, ServedInv, NEW p \in Pod, Ends(p)
  PROVE  ServedInv'
<1>1. \A c \in Conn : Endpoint(c)' = Endpoint(c) /\ Endpoint(c) \in Pod
  BY EndpointStays, EndpointType, EndsEffect
<1>2. \A q \in Pod : stage'[q] >= TLSREADY => Certificates'[q] # "bad"
  BY EndsEffect DEF ServedInv, TypeOK
<1>3. ASSUME NEW c \in Conn, conn'[c].st \in {"plain", "tls"}
      PROVE  stage'[Endpoint(c)] >= TLSREADY
  <2>1. conn[c].st \in {"plain", "tls"} /\ Endpoint(c) # p
    BY <1>3 DEF Ends, TypeOK
  <2> QED
    BY <2>1, <1>1, EndsEffect DEF ServedInv, TypeOK
<1> QED
  BY <1>1, <1>2, <1>3 DEF ServedInv

LEMMA ServedBecomes ==
  ASSUME TypeOK, ServedInv, NEW c \in Conn, NEW st \in State, Becomes(c, st),
         st \in {"plain", "tls"} => stage[Endpoint(c)] >= TLSREADY
  PROVE  ServedInv'
<1>1. \A d \in Conn : Endpoint(d)' = Endpoint(d)
  BY EndpointStays, ConnType
<1> QED
  BY <1>1, ConnType DEF ServedInv

LEMMA ServedStep ==
  ASSUME TypeOK, ServedInv, [Next]_vars
  PROVE  ServedInv'
<1>1. ASSUME NEW p \in Pod, Step(p) PROVE ServedInv'
  <2>1. CASE Ends(p)
    BY <2>1, ServedEnds
  <2>2. CASE Moved(p)
    <3>1. \A q \in Pod : stage'[q] >= TLSREADY => Certificates'[q] # "bad"
      BY <1>1, <2>2 DEF Step, StartInternalListener, StartExternalListener,
         GetEnvCerts, GetFSCerts, StartExternalTLSListener, StartListeners,
         Advance, Ends, ServedInv, TypeOK
    <3>2. ASSUME NEW c \in Conn, conn'[c].st \in {"plain", "tls"}
          PROVE  stage'[Endpoint(c)'] >= TLSREADY
      <4>1. Endpoint(c)' = Endpoint(c) /\ Endpoint(c) \in Pod
        BY <2>2, EndpointStays, EndpointType DEF Moved
      <4>2. stage[Endpoint(c)] \in Nat /\ stage'[Endpoint(c)] \in Nat
        BY <2>2, <4>1 DEF Moved, TypeOK
      <4>3. stage[Endpoint(c)] >= TLSREADY /\ stage'[Endpoint(c)] >= stage[Endpoint(c)]
        BY <2>2, <3>2, <4>1 DEF Moved, ServedInv
      <4> QED
        BY <4>1, <4>2, <4>3
    <3> QED
      BY <3>1, <3>2 DEF ServedInv
  <2> QED
    BY <1>1, <2>1, <2>2, StepEffect
<1>2. ASSUME NEW p \in Pod, Exit(p) PROVE ServedInv'
  BY <1>2, ServedEnds DEF Exit
<1>3. ASSUME NEW c \in Conn, Accept(c) PROVE ServedInv'
  <2>1. \A d \in Conn : Endpoint(d)' = Endpoint(d)
    BY <1>3, EndpointStays, AcceptType
  <2> QED
    BY <1>3, <2>1, AcceptType DEF ServedInv
<1>4. ASSUME NEW c \in Conn, Dial(c) PROVE ServedInv'
  <2>1. CASE DialPlain(c)
    BY <2>1, ServedBecomes DEF DialPlain, State
  <2>2. CASE DialTLS(c)
    <3>1. \/ Becomes(c, "tls") /\ Endpoint(c) = Dst[c] /\ stage[Dst[c]] >= TLSREADY
          \/ Becomes(c, "hello")
      BY <2>2 DEF DialTLS, Endpoint
    <3> QED
      BY <3>1, ServedBecomes DEF State
  <2>3. CASE Ends(Src[c])
    BY <2>3, ServedEnds, SidecarAssumption
  <2>4. CASE Becomes(c, "closed")
    BY <2>4, ServedBecomes DEF State
  <2> QED
    BY <1>4, <2>1, <2>2, <2>3, <2>4 DEF Dial
<1>5. ASSUME NEW c \in Conn, Serve(c) PROVE ServedInv'
  <2>1. stage[Endpoint(c)] \in Nat /\ stage[Endpoint(c)] >= SERVING
    BY <1>5, EndpointType DEF Serve, TypeOK
  <2>2. Becomes(c, "plain") \/ Becomes(c, "closed")
    BY <1>5 DEF Serve
  <2> QED
    BY <2>1, <2>2, ServedBecomes DEF State
<1>6. ASSUME NEW c \in Conn, Close(c) PROVE ServedInv'
  BY <1>6, ServedBecomes DEF Close, State
<1>7. CASE UNCHANGED vars
  BY <1>7 DEF vars, ServedInv, Endpoint, ClusterAddress
<1> QED
  BY <1>1, <1>2, <1>3, <1>4, <1>5, <1>6, <1>7 DEF Next

(* A sidecar whose certificates are unusable never carries a connection of  *)
(* another one, not even one that waited in its backlog or was sent there   *)
(* by an override: Start ends over the certificates before it accepts.      *)
THEOREM BadServesNobody == Spec => []BadCertsServeNothing
<1>1. Init => ServedInv
  BY DEF Init, ServedInv
<1>2. TypeOK /\ ServedInv /\ [Next]_vars => ServedInv'
  BY ServedStep
<1>3. TypeOK /\ ServedInv => BadCertsServeNothing
  BY EndpointType DEF ServedInv, BadCertsServeNothing
<1> QED
  BY <1>1, <1>2, <1>3, SidecarTypeCorrect, PTL DEF Spec
=============================================================================
