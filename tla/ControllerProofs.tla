-------------------------- MODULE ControllerProofs --------------------------
(* Proofs about Controller, for any names, addresses and namespaces, any    *)
(* number of starts, of pods and of troubles.                               *)
EXTENDS Controller, FiniteSetTheorems, SequenceTheorems, TLAPS

-----------------------------------------------------------------------------
(* What the helpers return.                                                 *)

LEMMA BoundsType ==
  /\ MaxStarts \in Nat /\ MaxTrouble \in Nat
  /\ \A n \in Key : MaxInc[n] \in Nat
  BY ControllerAssumption

LEMMA ViewType ==
  ASSUME NEW p \in Pod \cup {Absent}
  PROVE  /\ View(p) \in Seen \cup {Absent}
         /\ p # Absent => View(p) \in Seen
  BY DEF View, Pod, Seen, Absent

(* The event that a change of a pod puts into a watch.                      *)
LEMMA NotifyType ==
  ASSUME events \in Seq(Event), NEW n \in Key, NEW obj \in Seen,
         NEW type \in {"ADDED", "MODIFIED", "DELETED"}, Notify(type, n, obj)
  PROVE  events' \in Seq(Event)
<1>1. [type |-> type, key |-> n, obj |-> obj] \in Event
  BY DEF Event
<1> QED
  BY <1>1 DEF Notify

LEMMA HeadEvent ==
  ASSUME events \in Seq(Event), events # <<>>
  PROVE  /\ Head(events) \in Event
         /\ Tail(events) \in Seq(Event)
         /\ Head(events).key \in Key
         /\ Head(events).type \in {"ADDED", "MODIFIED"} => Head(events).obj \in Seen
<1>1. Head(events) \in Event /\ Tail(events) \in Seq(Event)
  OBVIOUS
<1>2. \A e \in Event : e.key \in Key /\ (e.type \in {"ADDED", "MODIFIED"} => e.obj \in Seen)
  BY DEF Event
<1> QED
  BY <1>1, <1>2

(* A new list of the pods comes as a sequence of events.                    *)
LEMMA RelistEvents ==
  ASSUME TypeOK, Relist
  PROVE  events' \in Seq(Event)
<1> DEFINE delta(n) == IF pod[n] = Absent
                         THEN [type |-> "TOMBSTONE", key |-> n]
                         ELSE [type |-> "ADDED", key |-> n, obj |-> View(pod[n])]
           known == {n \in Key : cache[n] # Absent \/ pod[n] # Absent}
           N == Cardinality(known)
<1>1. \A n \in Key : delta(n) \in Event
  <2> SUFFICES ASSUME NEW n \in Key PROVE delta(n) \in Event
    OBVIOUS
  <2>1. pod[n] \in Pod \cup {Absent}
    BY DEF TypeOK
  <2>2. CASE pod[n] = Absent
    BY <2>2 DEF Event
  <2>3. CASE pod[n] # Absent
    BY <2>1, <2>3, ViewType DEF Event
  <2> QED
    BY <2>2, <2>3
<1>2. N \in Nat
  <2>1. IsFiniteSet(Key)
    BY ControllerAssumption
  <2>2. IsFiniteSet(known)
    BY <2>1, FS_Subset
  <2> QED
    BY <2>2, FS_CardinalityType
<1>3. PICK order \in [1 .. N -> known] : events' = [i \in DOMAIN order |-> delta(order[i])]
  BY DEF Relist
<1> HIDE DEF delta, N
<1>4. \A i \in 1 .. N : order[i] \in Key
  BY <1>3
<1>5. events' \in [1 .. N -> Event]
  BY <1>1, <1>3, <1>4
<1> QED
  BY <1>2, <1>5, SeqDef

-----------------------------------------------------------------------------
(* Types.  A controller that makes certificates has a CA, which is why      *)
(* HasCA is part of the induction.                                          *)

CtlType ==
  [pc : {"down", "ca", "register", "running", "fatal"},
   ca : 0 .. MaxStarts, cert : Made,
   synced : BOOLEAN, serving : BOOLEAN, stop : BOOLEAN,
   starts : 0 .. MaxStarts]

LEMMA MadeType ==
  /\ Certificate \subseteq Made
  /\ NoCert \in Made
  /\ \A ip \in IP \cup {NoIP}, ca \in 0 .. MaxStarts : [ip |-> ip, ca |-> ca] \in Made
<1>1. 0 \in 0 .. MaxStarts /\ 1 .. MaxStarts \subseteq 0 .. MaxStarts
  BY BoundsType
<1> QED
  BY <1>1 DEF Certificate, Made, NoCert

LEMMA SecretStored ==
  ASSUME TypeOK, NEW n \in Key, NEW cert \in Certificate, loadSecret(n, cert)
  PROVE  /\ DOMAIN secrets' \subseteq Namespace \X PodName
         /\ \A k \in DOMAIN secrets' : secrets'[k] \in Certificate
<1>1. SecretOf(Default, n) \in Namespace \X PodName
  BY DEF SecretOf, Namespace, PodName
<1> QED
  BY <1>1 DEF TypeOK, loadSecret

LEMMA TroubleType ==
  ASSUME TypeOK, MoreTrouble
  PROVE  /\ moves + 1 \in 0 .. MaxTrouble
         /\ relists + 1 \in 0 .. MaxTrouble
         /\ failures + 1 \in 0 .. MaxTrouble
<1>1. moves \in Nat /\ relists \in Nat /\ failures \in Nat /\ MaxTrouble \in Nat
  BY BoundsType DEF TypeOK
<1> QED
  BY <1>1 DEF MoreTrouble

LEMMA FailureType ==
  ASSUME TypeOK, CallFails
  PROVE  failures' \in 0 .. MaxTrouble /\ secrets' = secrets
  BY TroubleType DEF CallFails

LEMMA OnUpdateType ==
  ASSUME TypeOK, HasCA, ctl.pc = "running",
         NEW n \in Key, NEW old, NEW new \in Seen, OnUpdate(n, old, new)
  PROVE  /\ ctl' \in CtlType /\ HasCA'
         /\ DOMAIN secrets' \subseteq Namespace \X PodName
         /\ \A k \in DOMAIN secrets' : secrets'[k] \in Certificate
         /\ failures' \in 0 .. MaxTrouble
<1>0. ctl \in CtlType
  BY DEF TypeOK, CtlType
<1>1. CASE ~(old.ip # new.ip /\ new.ip # NoIP)
  BY <1>0, <1>1 DEF OnUpdate, TypeOK, HasCA
<1>2. CASE old.ip # new.ip /\ new.ip # NoIP
  <2>1. createCertificate(new.ip) \in Certificate
    BY <1>0, <1>2, BoundsType DEF createCertificate, Certificate, Seen, HasCA, CtlType
  <2>2. ctl' = [ctl EXCEPT !.cert = createCertificate(new.ip)]
    BY <1>2 DEF OnUpdate
  <2>3. ctl' \in CtlType /\ ctl'.pc = ctl.pc /\ ctl'.ca = ctl.ca
    BY <1>0, <2>1, <2>2, MadeType DEF CtlType
  <2>4. CASE loadSecret(n, createCertificate(new.ip)) /\ UNCHANGED failures
    BY <2>1, <2>3, <2>4, SecretStored DEF HasCA, TypeOK
  <2>5. CASE CallFails
    BY <2>3, <2>5, FailureType DEF HasCA, TypeOK
  <2> QED
    BY <1>2, <2>4, <2>5 DEF OnUpdate
<1> QED
  BY <1>1, <1>2

LEMMA OnDeleteType ==
  ASSUME TypeOK, NEW n \in Key, OnDelete(n)
  PROVE  /\ DOMAIN secrets' \subseteq Namespace \X PodName
         /\ \A k \in DOMAIN secrets' : secrets'[k] \in Certificate
         /\ failures' \in 0 .. MaxTrouble
<1>1. CASE CallFails
  BY <1>1, FailureType DEF TypeOK
<1>2. CASE /\ secrets' = [k \in DOMAIN secrets \ {SecretOf(NsOf[n], n)} |-> secrets[k]]
           /\ UNCHANGED failures
  BY <1>2 DEF TypeOK
<1> QED
  BY <1>1, <1>2 DEF OnDelete

LEMMA ForgetType ==
  ASSUME TypeOK, Forget
  PROVE  /\ ctl' \in CtlType /\ ctl'.pc = "down"
         /\ cache' \in [Key -> Seen \cup {Absent}]
         /\ events' \in Seq(Event)
<1>1. ctl \in CtlType /\ ctl' = [ctl EXCEPT !.pc = "down"]
  BY DEF TypeOK, CtlType, Forget
<1>2. ctl' \in CtlType /\ ctl'.pc = "down"
  BY <1>1 DEF CtlType
<1> QED
  BY <1>2 DEF Forget

(* The start of the controller.                                             *)
LEMMA TypeStart ==
  ASSUME TypeOK, HasCA,
         LoadOrGenerateCA \/ loadCA \/ RegisterWebhook \/ StartWatcher \/ ListenAndServeTLS
  PROVE  TypeOK' /\ HasCA'
<1>0. ctl \in CtlType /\ caSecret \in 0 .. MaxStarts
  BY DEF TypeOK, CtlType
<1>1. CASE LoadOrGenerateCA
  <2>1. PICK env \in BOOLEAN :
          /\ env => caSecret # 0
          /\ ctl' = [pc |-> IF env THEN "register" ELSE "ca",
                     ca |-> IF env THEN caSecret ELSE ctl.starts + 1,
                     cert |-> NoCert,
                     synced |-> FALSE, serving |-> FALSE, stop |-> FALSE,
                     starts |-> ctl.starts + 1]
    BY <1>1, ControllerAssumption DEF LoadOrGenerateCA
  <2>2. ctl.starts + 1 \in 1 .. MaxStarts
    BY <1>0, <1>1, BoundsType DEF LoadOrGenerateCA, CtlType
  <2>3. ctl' \in CtlType /\ ctl'.ca # 0
    <3>1. ctl.starts + 1 \in 0 .. MaxStarts /\ ctl.starts + 1 # 0
      BY <2>2, BoundsType
    <3> QED
      BY <1>0, <2>1, <3>1, MadeType DEF CtlType
  <2> QED
    BY <1>1, <2>3 DEF LoadOrGenerateCA, TypeOK, HasCA, CtlType
<1>2. CASE loadCA
  <2>1. \E p \in {"register", "fatal"} : ctl' = [ctl EXCEPT !.pc = p]
    BY <1>2 DEF loadCA
  <2>2. ctl' \in CtlType /\ ctl'.ca = ctl.ca
    BY <1>0, <2>1 DEF CtlType
  <2>3. caSecret' \in {caSecret, ctl.ca}
    BY <1>2 DEF loadCA
  <2>4. caSecret' \in 0 .. MaxStarts
    BY <1>0, <2>3 DEF CtlType
  <2>5. HasCA'
    BY <1>2, <2>2 DEF loadCA, HasCA
  <2> QED
    BY <1>2, <2>2, <2>4, <2>5 DEF loadCA, TypeOK, CtlType
<1>3. CASE RegisterWebhook
  <2>1. /\ ctl' = [ctl EXCEPT !.pc = "running", !.cert = createCertificate(NoIP)]
        /\ webhook' = ctl.ca /\ ctl.pc = "register"
    BY <1>3 DEF RegisterWebhook
  <2>2. createCertificate(NoIP) \in Made
    BY <1>0, MadeType DEF createCertificate, CtlType
  <2>3. ctl' \in CtlType /\ ctl'.ca = ctl.ca /\ webhook' \in 0 .. MaxStarts
    BY <1>0, <2>1, <2>2 DEF CtlType
  <2> QED
    BY <1>3, <2>1, <2>3 DEF RegisterWebhook, TypeOK, CtlType, HasCA
<1>4. CASE StartWatcher
  <2>1. ctl' \in CtlType /\ ctl'.ca = ctl.ca /\ ctl'.pc = ctl.pc
    BY <1>0, <1>4 DEF CtlType, StartWatcher
  <2>2. cache' \in [Key -> Seen \cup {Absent}]
    <3>1. \A n \in Key : View(pod[n]) \in Seen \cup {Absent}
      BY ViewType DEF TypeOK
    <3> QED
      BY <1>4, <3>1 DEF StartWatcher
  <2>3. events' \in Seq(Event)
    BY <1>4 DEF StartWatcher
  <2> QED
    BY <1>4, <2>1, <2>2, <2>3 DEF StartWatcher, TypeOK, CtlType, HasCA
<1>5. CASE ListenAndServeTLS
  <2>1. ctl' \in CtlType /\ ctl'.ca = ctl.ca /\ ctl'.pc = ctl.pc
    BY <1>0, <1>5 DEF CtlType, ListenAndServeTLS
  <2> QED
    BY <1>5, <2>1 DEF ListenAndServeTLS, TypeOK, CtlType, HasCA
<1> QED
  BY <1>1, <1>2, <1>3, <1>4, <1>5

(* The informer.                                                            *)
LEMMA TypeHandle ==
  ASSUME TypeOK, HasCA, HandleEvent
  PROVE  TypeOK' /\ HasCA'
<1> DEFINE e == Head(events)
<1>1. /\ ctl.pc = "running" /\ events # <<>>
      /\ UNCHANGED <<pod, incs, moves, caSecret, webhook, relists>>
  BY DEF HandleEvent, Up
<1>2. /\ Tail(events) \in Seq(Event)
      /\ e.key \in Key
      /\ e.type \in {"ADDED", "MODIFIED"} => e.obj \in Seen
  BY <1>1, HeadEvent DEF TypeOK
<1>3. CASE /\ e.type \in {"ADDED", "MODIFIED"}
           /\ cache' = [cache EXCEPT ![e.key] = e.obj]
           /\ IF cache[e.key] = Absent
                THEN UNCHANGED <<ctl, secrets, failures>>
                ELSE OnUpdate(e.key, cache[e.key], e.obj)
           /\ events' = Tail(events)
  <2> HIDE DEF e
  <2>1. cache' \in [Key -> Seen \cup {Absent}]
    BY <1>2, <1>3 DEF TypeOK
  <2>2. CASE UNCHANGED <<ctl, secrets, failures>>
    BY <1>1, <1>2, <1>3, <2>1, <2>2 DEF TypeOK, HasCA
  <2>3. CASE OnUpdate(e.key, cache[e.key], e.obj)
    <3>1. /\ ctl' \in CtlType /\ HasCA'
          /\ DOMAIN secrets' \subseteq Namespace \X PodName
          /\ \A k \in DOMAIN secrets' : secrets'[k] \in Certificate
          /\ failures' \in 0 .. MaxTrouble
      BY <1>1, <1>2, <1>3, <2>3, OnUpdateType
    <3> QED
      BY <1>1, <1>2, <1>3, <2>1, <3>1 DEF TypeOK, CtlType
  <2> QED
    BY <1>3, <2>2, <2>3
<1>4. CASE /\ e.type = "DELETED"
           /\ cache' = [cache EXCEPT ![e.key] = Absent]
           /\ OnDelete(e.key)
           /\ events' = Tail(events)
           /\ UNCHANGED ctl
  <2> HIDE DEF e
  <2>1. cache' \in [Key -> Seen \cup {Absent}]
    BY <1>2, <1>4 DEF TypeOK
  <2>2. /\ DOMAIN secrets' \subseteq Namespace \X PodName
        /\ \A k \in DOMAIN secrets' : secrets'[k] \in Certificate
        /\ failures' \in 0 .. MaxTrouble
    BY <1>2, <1>4, OnDeleteType
  <2> QED
    BY <1>1, <1>2, <1>4, <2>1, <2>2 DEF TypeOK, HasCA
<1>5. CASE Forget /\ UNCHANGED <<secrets, failures>>
  BY <1>1, <1>5, ForgetType DEF TypeOK, CtlType, HasCA
<1> QED
  BY <1>3, <1>4, <1>5 DEF HandleEvent

LEMMA TypeRelist ==
  ASSUME TypeOK, HasCA, Relist
  PROVE  TypeOK' /\ HasCA'
<1>1. relists' \in 0 .. MaxTrouble
  BY TroubleType DEF Relist
<1> QED
  BY <1>1, RelistEvents DEF Relist, TypeOK, HasCA

(* The end of the controller.                                               *)
LEMMA TypeEnd ==
  ASSUME TypeOK, HasCA, PreStop \/ Shutdown \/ Crash
  PROVE  TypeOK' /\ HasCA'
<1>1. CASE PreStop
  <2>1. ctl \in CtlType /\ ctl' = [ctl EXCEPT !.stop = TRUE] /\ webhook' = 0
    BY <1>1 DEF TypeOK, CtlType, PreStop
  <2>2. ctl' \in CtlType /\ ctl'.pc = ctl.pc /\ ctl'.ca = ctl.ca
    BY <2>1 DEF CtlType
  <2>3. webhook' \in 0 .. MaxStarts
    BY <2>1, BoundsType
  <2> QED
    BY <1>1, <2>2, <2>3 DEF PreStop, TypeOK, CtlType, HasCA
<1>2. CASE Shutdown \/ Crash
  <2>1. Forget /\ UNCHANGED <<pod, incs, moves, secrets, caSecret, relists, failures>>
    BY <1>2 DEF Shutdown, Crash
  <2>2. webhook' \in 0 .. MaxStarts
    BY <1>2, BoundsType DEF Shutdown, Crash, TypeOK
  <2> QED
    BY <2>1, <2>2, ForgetType DEF TypeOK, CtlType, HasCA
<1> QED
  BY <1>1, <1>2

(* The cluster: what becomes of a pod, and which event tells of it.         *)
ClusterStep(n, p, type, obj) ==
  /\ pod' = [pod EXCEPT ![n] = p]
  /\ Notify(type, n, obj)
  /\ UNCHANGED <<secrets, caSecret, webhook, ctl, cache, relists, failures>>

LEMMA CreateEffect ==
  ASSUME TypeOK, NEW n \in Key, CreatePod(n)
  PROVE  \E p \in Pod, obj \in Seen :
           /\ ClusterStep(n, p, "ADDED", obj)
           /\ p.sidecar = NoCert /\ p.ip = NoIP /\ obj.ip = NoIP
<1>1. incs[n] + 1 \in Nat \ {0}
  BY DEF TypeOK
<1>0. PICK injected \in BOOLEAN :
        pod' = [pod EXCEPT ![n] = [inc |-> incs[n] + 1, ip |-> NoIP,
                                   injected |-> injected, sidecar |-> NoCert]]
  BY DEF CreatePod
<1> DEFINE p == [inc |-> incs[n] + 1, ip |-> NoIP, injected |-> injected,
                 sidecar |-> NoCert]
           obj == [inc |-> incs[n] + 1, ip |-> NoIP]
<1>2. p \in Pod /\ obj \in Seen
  BY <1>1 DEF Pod, Seen
<1>3. ClusterStep(n, p, "ADDED", obj)
  BY <1>0 DEF CreatePod, ClusterStep
<1> QED
  BY <1>2, <1>3

LEMMA AssignEffect ==
  ASSUME TypeOK, NEW n \in Key, NEW ip \in FreeIP, AssignIP(n, ip)
  PROVE  \E p \in Pod, obj \in Seen :
           /\ ClusterStep(n, p, "MODIFIED", obj)
           /\ pod[n] \in Pod /\ pod[n].ip = NoIP
           /\ p.sidecar = pod[n].sidecar /\ p.injected = pod[n].injected
           /\ p.ip = ip /\ obj.ip = ip
<1>1. pod[n] \in Pod /\ ip \in IP
  BY DEF TypeOK, AssignIP, FreeIP
<1> DEFINE p == [pod[n] EXCEPT !.ip = ip]
           obj == [inc |-> pod[n].inc, ip |-> ip]
<1>2. /\ p \in Pod /\ obj \in Seen
      /\ p.sidecar = pod[n].sidecar /\ p.injected = pod[n].injected /\ p.ip = ip
  BY <1>1 DEF Pod, Seen
<1>3. pod[n].ip = NoIP /\ ClusterStep(n, p, "MODIFIED", obj)
  BY DEF AssignIP, ClusterStep
<1> QED
  BY <1>1, <1>2, <1>3

LEMMA MoveEffect ==
  ASSUME TypeOK, NEW n \in Key, NEW ip \in FreeIP, MoveSandbox(n, ip)
  PROVE  \E p \in Pod, obj \in Seen :
           ClusterStep(n, p, "MODIFIED", obj) /\ p.sidecar = NoCert
<1>1. pod[n] \in Pod /\ ip \in IP
  BY DEF TypeOK, MoveSandbox, FreeIP
<1> DEFINE p == [pod[n] EXCEPT !.ip = ip, !.sidecar = NoCert]
           obj == [inc |-> pod[n].inc, ip |-> ip]
<1>2. p \in Pod /\ obj \in Seen /\ p.sidecar = NoCert
  BY <1>1 DEF Pod, Seen
<1>3. ClusterStep(n, p, "MODIFIED", obj)
  BY DEF MoveSandbox, ClusterStep
<1> QED
  BY <1>2, <1>3

LEMMA StartSidecarEffect ==
  ASSUME TypeOK, NEW n \in Key, StartSidecar(n)
  PROVE  \E p \in Pod :
           /\ pod[n] \in Pod
           /\ pod' = [pod EXCEPT ![n] = p]
           /\ p.ip = pod[n].ip /\ p.injected = pod[n].injected
           /\ SecretOf(NsOf[n], n) \in DOMAIN secrets
           /\ p.sidecar = secrets[SecretOf(NsOf[n], n)]
<1>1. pod[n] \in Pod /\ secrets[SecretOf(NsOf[n], n)] \in Certificate
  BY DEF TypeOK, StartSidecar
<1> DEFINE p == [pod[n] EXCEPT !.sidecar = secrets[SecretOf(NsOf[n], n)]]
<1>2. /\ p \in Pod /\ p.ip = pod[n].ip /\ p.injected = pod[n].injected
      /\ p.sidecar = secrets[SecretOf(NsOf[n], n)]
  BY <1>1 DEF Pod
<1>3. pod' = [pod EXCEPT ![n] = p] /\ SecretOf(NsOf[n], n) \in DOMAIN secrets
  BY DEF StartSidecar
<1> QED
  BY <1>1, <1>2, <1>3

LEMMA TypeCluster ==
  ASSUME TypeOK, HasCA, NEW n \in Key,
         \/ CreatePod(n) \/ StartSidecar(n) \/ DeletePod(n)
         \/ \E ip \in FreeIP : AssignIP(n, ip) \/ MoveSandbox(n, ip)
  PROVE  TypeOK' /\ HasCA'
<1>1. ASSUME NEW p \in Pod, NEW obj \in Seen, NEW type \in {"ADDED", "MODIFIED"},
             ClusterStep(n, p, type, obj),
             incs' \in [Key -> Nat], \A m \in Key : incs'[m] <= MaxInc[m],
             moves' \in 0 .. MaxTrouble
      PROVE  TypeOK' /\ HasCA'
  <2>1. events' \in Seq(Event)
    BY <1>1, NotifyType DEF ClusterStep, TypeOK
  <2>2. pod' \in [Key -> Pod \cup {Absent}]
    BY <1>1 DEF ClusterStep, TypeOK
  <2> QED
    BY <1>1, <2>1, <2>2 DEF ClusterStep, TypeOK, HasCA
<1>2. CASE CreatePod(n)
  <2>1. incs' \in [Key -> Nat] /\ \A m \in Key : incs'[m] <= MaxInc[m]
    BY <1>2, BoundsType DEF CreatePod, TypeOK
  <2>2. moves' \in 0 .. MaxTrouble
    BY <1>2 DEF CreatePod, TypeOK
  <2> QED
    BY <1>1, <1>2, <2>1, <2>2, CreateEffect
<1>3. CASE StartSidecar(n)
  <2>1. pod' \in [Key -> Pod \cup {Absent}]
    BY <1>3, StartSidecarEffect DEF TypeOK
  <2> QED
    BY <1>3, <2>1 DEF StartSidecar, TypeOK, HasCA
<1>4. CASE DeletePod(n)
  <2>1. pod' \in [Key -> Pod \cup {Absent}]
    BY <1>4 DEF DeletePod, TypeOK
  <2>2. View(pod[n]) \in Seen
    BY <1>4, ViewType DEF DeletePod, TypeOK
  <2>3. events' \in Seq(Event)
    BY <1>4, <2>2, NotifyType DEF DeletePod, TypeOK
  <2> QED
    BY <1>4, <2>1, <2>3 DEF DeletePod, TypeOK, HasCA
<1>5. ASSUME NEW ip \in FreeIP, AssignIP(n, ip) PROVE TypeOK' /\ HasCA'
  <2>1. incs' = incs /\ moves' = moves
    BY <1>5 DEF AssignIP
  <2>2. PICK p \in Pod, obj \in Seen : ClusterStep(n, p, "MODIFIED", obj)
    BY <1>5, AssignEffect
  <2> QED
    BY <1>1, <2>1, <2>2 DEF TypeOK
<1>6. ASSUME NEW ip \in FreeIP, MoveSandbox(n, ip) PROVE TypeOK' /\ HasCA'
  <2>1. incs' = incs /\ moves' \in 0 .. MaxTrouble
    BY <1>6, TroubleType DEF MoveSandbox
  <2>2. PICK p \in Pod, obj \in Seen : ClusterStep(n, p, "MODIFIED", obj)
    BY <1>6, MoveEffect
  <2> QED
    BY <1>1, <2>1, <2>2 DEF TypeOK
<1> QED
  BY <1>2, <1>3, <1>4, <1>5, <1>6

LEMMA TypeStep ==
  ASSUME TypeOK, HasCA, [Next]_vars
  PROVE  TypeOK' /\ HasCA'
<1>1. CASE UNCHANGED vars
  BY <1>1 DEF vars, TypeOK, HasCA
<1> QED
  BY <1>1, TypeStart, TypeHandle, TypeRelist, TypeEnd, TypeCluster DEF Next

LEMMA TypeInit == Init => TypeOK /\ HasCA
<1> SUFFICES ASSUME Init PROVE TypeOK /\ HasCA
  OBVIOUS
<1>1. 0 \in 0 .. MaxStarts /\ 0 \in 0 .. MaxTrouble /\ \A n \in Key : 0 <= MaxInc[n]
  BY BoundsType
<1>2. ctl \in CtlType
  BY <1>1, MadeType DEF Init, CtlType
<1> QED
  BY <1>1, <1>2 DEF Init, TypeOK, CtlType, HasCA

(* Every variable has its type, for any cluster and through any number of   *)
(* starts; in particular no secret ever holds a certificate without a CA.   *)
THEOREM ControllerTypeCorrect == Spec => []TypeOK
<1>1. Init => TypeOK /\ HasCA
  BY TypeInit
<1>2. TypeOK /\ HasCA /\ [Next]_vars => (TypeOK /\ HasCA)'
  BY TypeStep
<1> QED
  BY <1>1, <1>2, PTL DEF Spec

-----------------------------------------------------------------------------
(* One CA.                                                                  *)

LEMMA StoredCAStart ==
  ASSUME TypeOK, CAInv,
         LoadOrGenerateCA \/ loadCA \/ RegisterWebhook \/ StartWatcher \/ ListenAndServeTLS
  PROVE  HasStoredCA' /\ AllFromStoredCA'
<1>0. ctl \in CtlType
  BY DEF TypeOK, CtlType
<1>1. CASE LoadOrGenerateCA
  <2>1. ctl'.pc \in {"register", "running"} => ctl'.ca = caSecret
    BY <1>1 DEF LoadOrGenerateCA
  <2> QED
    BY <1>1, <2>1 DEF LoadOrGenerateCA, CAInv, HasStoredCA, AllFromStoredCA,
                      Started, Meshed, Live
<1>2. CASE loadCA
  <2>1. CASE caSecret # 0
    <3>1. ctl'.pc = "fatal" /\ UNCHANGED <<pod, secrets, caSecret, webhook>>
      BY <1>0, <1>2, <2>1 DEF loadCA, CtlType
    <3> QED
      BY <3>1 DEF CAInv, HasStoredCA, AllFromStoredCA, Started, Meshed, Live
  <2>2. CASE caSecret = 0
    <3>1. /\ caSecret' = ctl.ca /\ ctl'.ca = ctl.ca
          /\ UNCHANGED <<pod, secrets, webhook>>
      BY <1>0, <1>2, <2>2 DEF loadCA, CtlType
    <3>2. webhook = 0
      BY <2>2 DEF CAInv, AllFromStoredCA
    <3>3. \A k \in DOMAIN secrets : FALSE
      BY <2>2 DEF CAInv, AllFromStoredCA, TypeOK, Certificate
    <3>4. \A n \in Key : ~Started(n)
      <4> SUFFICES ASSUME NEW n \in Key, Started(n) PROVE FALSE
        OBVIOUS
      <4>1. pod[n] \in Pod /\ pod[n].sidecar # NoCert /\ pod[n].sidecar.ca = 0
        BY <2>2 DEF CAInv, AllFromStoredCA, Started, Meshed, Live, TypeOK
      <4>2. pod[n].sidecar \in Certificate
        BY <4>1 DEF Pod
      <4> QED
        BY <4>1, <4>2 DEF Certificate
    <3> QED
      BY <3>1, <3>2, <3>3, <3>4 DEF HasStoredCA, AllFromStoredCA, Started, Meshed, Live
  <2> QED
    BY <2>1, <2>2
<1>3. CASE RegisterWebhook
  <2>1. ctl'.ca = ctl.ca /\ ctl.ca = caSecret
    BY <1>0, <1>3 DEF RegisterWebhook, CtlType, CAInv, HasStoredCA
  <2> QED
    BY <1>3, <2>1 DEF RegisterWebhook, CAInv, HasStoredCA, AllFromStoredCA,
                      Started, Meshed, Live
<1>4. CASE StartWatcher \/ ListenAndServeTLS
  <2>1. ctl'.ca = ctl.ca /\ ctl'.pc = ctl.pc /\ UNCHANGED <<pod, secrets, caSecret, webhook>>
    BY <1>0, <1>4 DEF StartWatcher, ListenAndServeTLS, CtlType
  <2> QED
    BY <2>1 DEF CAInv, HasStoredCA, AllFromStoredCA, Started, Meshed, Live
<1> QED
  BY <1>1, <1>2, <1>3, <1>4

(* What the handlers of the informer do to the controller and to secrets:   *)
(* the secrets that stay are the same, and a new one is for the address in  *)
(* the event and from the controller's CA.                                  *)
LEMMA HandleEffect ==
  ASSUME TypeOK, HandleEvent
  PROVE  /\ ctl'.ca = ctl.ca /\ ctl'.pc \in {ctl.pc, "down"}
         /\ \A k \in DOMAIN secrets' :
              \/ k \in DOMAIN secrets /\ secrets'[k] = secrets[k]
              \/ /\ k = SecretOf(Default, Head(events).key)
                 /\ Head(events).type \in {"ADDED", "MODIFIED"}
                 /\ Head(events).obj.ip # NoIP
                 /\ secrets'[k] = [ip |-> Head(events).obj.ip, ca |-> ctl.ca]
<1> DEFINE e == Head(events)
<1>0. ctl \in CtlType
  BY DEF TypeOK, CtlType
<1>1. CASE UNCHANGED <<ctl, secrets>>
  BY <1>1
<1>2. CASE Forget /\ UNCHANGED secrets
  <2>1. ctl'.ca = ctl.ca /\ ctl'.pc = "down"
    BY <1>0, <1>2 DEF Forget, CtlType
  <2> QED
    BY <1>2, <2>1
<1>3. CASE e.type \in {"ADDED", "MODIFIED"} /\ OnUpdate(e.key, cache[e.key], e.obj)
  <2> HIDE DEF e
  <2>1. CASE UNCHANGED <<ctl, secrets, failures>>
    BY <2>1
  <2>2. CASE /\ ctl' = [ctl EXCEPT !.cert = createCertificate(e.obj.ip)]
             /\ e.obj.ip # NoIP
             /\ loadSecret(e.key, createCertificate(e.obj.ip)) \/ CallFails
    <3>1. ctl'.ca = ctl.ca /\ ctl'.pc = ctl.pc
      BY <1>0, <2>2 DEF CtlType
    <3>2. CASE CallFails
      BY <3>1, <3>2 DEF CallFails
    <3>3. CASE loadSecret(e.key, createCertificate(e.obj.ip))
      BY <1>3, <2>2, <3>1, <3>3 DEF loadSecret, createCertificate, e
    <3> QED
      BY <2>2, <3>2, <3>3
  <2> QED
    BY <1>3, <2>1, <2>2 DEF OnUpdate
<1>4. CASE OnDelete(e.key) /\ UNCHANGED ctl
  BY <1>4 DEF OnDelete, CallFails
<1> QED
  BY <1>1, <1>2, <1>3, <1>4 DEF HandleEvent

LEMMA StoredCACluster ==
  ASSUME TypeOK, CAInv, NEW n \in Key,
         \/ CreatePod(n) \/ StartSidecar(n) \/ DeletePod(n)
         \/ \E ip \in FreeIP : AssignIP(n, ip) \/ MoveSandbox(n, ip)
  PROVE  HasStoredCA' /\ AllFromStoredCA'
<1>1. UNCHANGED <<secrets, caSecret, webhook, ctl>>
  BY DEF CreatePod, StartSidecar, DeletePod, AssignIP, MoveSandbox
<1>2. ASSUME NEW p \in Pod \cup {Absent}, pod' = [pod EXCEPT ![n] = p],
             p # Absent /\ p.injected /\ p.sidecar # NoCert => p.sidecar.ca = caSecret
      PROVE  HasStoredCA' /\ AllFromStoredCA'
  BY <1>1, <1>2 DEF CAInv, HasStoredCA, AllFromStoredCA, Started, Meshed, Live, TypeOK
<1>3. CASE CreatePod(n)
  BY <1>2, <1>3, CreateEffect DEF ClusterStep
<1>4. CASE StartSidecar(n)
  <2>1. PICK p \in Pod : /\ pod' = [pod EXCEPT ![n] = p]
                         /\ SecretOf(NsOf[n], n) \in DOMAIN secrets
                         /\ p.sidecar = secrets[SecretOf(NsOf[n], n)]
    BY <1>4, StartSidecarEffect
  <2>2. p.sidecar.ca = caSecret
    BY <2>1 DEF CAInv, AllFromStoredCA
  <2> QED
    BY <1>2, <2>1, <2>2
<1>5. CASE DeletePod(n)
  BY <1>2, <1>5 DEF DeletePod
<1>6. ASSUME NEW ip \in FreeIP, AssignIP(n, ip) PROVE HasStoredCA' /\ AllFromStoredCA'
  <2>1. PICK p \in Pod, obj \in Seen :
          /\ ClusterStep(n, p, "MODIFIED", obj) /\ pod[n] \in Pod
          /\ p.sidecar = pod[n].sidecar /\ p.injected = pod[n].injected
    BY <1>6, AssignEffect
  <2>2. pod[n] # Absent
    BY <1>6 DEF AssignIP
  <2>3. p.injected /\ p.sidecar # NoCert => p.sidecar.ca = caSecret
    BY <2>1, <2>2 DEF CAInv, AllFromStoredCA, Started, Meshed, Live
  <2> QED
    BY <1>2, <2>1, <2>3 DEF ClusterStep
<1>7. ASSUME NEW ip \in FreeIP, MoveSandbox(n, ip) PROVE HasStoredCA' /\ AllFromStoredCA'
  BY <1>2, <1>7, MoveEffect DEF ClusterStep
<1> QED
  BY <1>3, <1>4, <1>5, <1>6, <1>7

LEMMA StoredCAStep ==
  ASSUME TypeOK, CAInv, [Next]_vars
  PROVE  HasStoredCA' /\ AllFromStoredCA'
<1>0. ctl \in CtlType
  BY DEF TypeOK, CtlType
<1>1. CASE HandleEvent
  <2>1. UNCHANGED <<pod, caSecret, webhook>> /\ ctl.pc = "running"
    BY <1>1 DEF HandleEvent, Up
  <2>2. ctl.ca = caSecret
    BY <2>1 DEF CAInv, HasStoredCA
  <2>3. ctl'.ca = caSecret'
    BY <1>1, <2>1, <2>2, HandleEffect
  <2>4. \A k \in DOMAIN secrets' : secrets'[k].ca = caSecret
    BY <1>1, <2>2, HandleEffect DEF CAInv, AllFromStoredCA
  <2> QED
    BY <2>1, <2>3, <2>4 DEF CAInv, HasStoredCA, AllFromStoredCA, Started, Meshed, Live
<1>2. CASE Relist \/ UNCHANGED vars
  BY <1>2 DEF Relist, vars, CAInv, HasStoredCA, AllFromStoredCA, Started, Meshed, Live
<1>3. CASE PreStop \/ Shutdown \/ Crash
  <2>1. /\ UNCHANGED <<pod, secrets, caSecret>> /\ webhook' \in {0, webhook}
        /\ ctl'.ca = ctl.ca /\ ctl'.pc \in {ctl.pc, "down"}
    BY <1>0, <1>3 DEF PreStop, Shutdown, Crash, Forget, CtlType
  <2> QED
    BY <2>1 DEF CAInv, HasStoredCA, AllFromStoredCA, Started, Meshed, Live
<1> QED
  BY <1>1, <1>2, <1>3, StoredCAStart, StoredCACluster DEF Next

(* However often the controller starts, is given its CA or not, crashes and *)
(* is refused, all certificates and the trust of the API server in the      *)
(* webhook go back to the one CA in the secret.                             *)
THEOREM OneCA == Spec => []AllFromStoredCA
<1>1. Init => TypeOK /\ CAInv
  BY TypeInit DEF Init, CAInv, HasStoredCA, AllFromStoredCA, Started, Meshed, Live
<1>2. TypeOK /\ CAInv /\ [Next]_vars => (TypeOK /\ CAInv)'
  BY TypeStep, StoredCAStep DEF CAInv
<1>3. CAInv => AllFromStoredCA
  BY DEF CAInv
<1> QED
  BY <1>1, <1>2, <1>3, PTL DEF Spec

-----------------------------------------------------------------------------
(* The own address.                                                         *)

LEMMA OwnInvNext ==
  ASSUME Announced',
         \A n \in Key : /\ (incs[n] = 0 => ~Live(n))'
                        /\ First(n)' => Heard(n)' /\ Holds(n)'
  PROVE  OwnInv'
  BY DEF OwnInv

(* Events that go away do no harm.                                          *)
LEMMA HeardLess ==
  ASSUME TypeOK, NEW n \in Key, Heard(n), Address(n)' = Address(n),
         events' = <<>> \/ events' = events \/ (events # <<>> /\ events' = Tail(events))
  PROVE  Heard(n)'
<1>1. CASE events' = <<>>
  BY <1>1 DEF Heard
<1>2. CASE events' = events
  BY <1>2 DEF Heard, Tells
<1>3. CASE events # <<>> /\ events' = Tail(events)
  <2>1. events \in Seq(Event)
    BY DEF TypeOK
  <2>2. \A i \in DOMAIN Tail(events) : i + 1 \in DOMAIN events /\ Tail(events)[i] = events[i + 1]
    BY <1>3, <2>1
  <2> QED
    BY <1>3, <2>2 DEF Heard, Tells
<1> QED
  BY <1>1, <1>2, <1>3

(* A new event says nothing about other names, and for its own name says    *)
(* what is the address from then on.                                        *)
LEMMA HeardMore ==
  ASSUME TypeOK, NEW n \in Key, Heard(n), NEW m \in Key,
         NEW type \in {"ADDED", "MODIFIED", "DELETED"}, NEW obj \in Seen,
         Notify(type, m, obj),
         Address(n)' = Address(n) \/ Address(n) = NoIP,
         m = n => type = "DELETED" \/ obj.ip \in {NoIP, Address(n)'}
  PROVE  Heard(n)'
<1> DEFINE e == [type |-> type, key |-> m, obj |-> obj]
<1>1. events \in Seq(Event)
  BY DEF TypeOK
<1>2. \A i \in DOMAIN events : events[i].key = n /\ events[i].type \in {"ADDED", "MODIFIED"}
        => events[i].obj.ip \in {NoIP, Address(n)'}
  BY DEF Heard, Tells
<1>3. CASE events' = events
  BY <1>2, <1>3 DEF Heard, Tells
<1>4. CASE events' = Append(events, e)
  <2>1. /\ e.key = m /\ e.type = type /\ e.obj = obj
    OBVIOUS
  <2> HIDE DEF e
  <2>2. \A i \in DOMAIN events' :
          \/ i \in DOMAIN events /\ events'[i] = events[i]
          \/ events'[i] = e
    BY <1>1, <1>4
  <2>3. e.key = n /\ e.type \in {"ADDED", "MODIFIED"} => e.obj.ip \in {NoIP, Address(n)'}
    BY <2>1
  <2> QED
    BY <1>2, <2>2, <2>3 DEF Heard, Tells
<1> QED
  BY <1>3, <1>4 DEF Notify

(* Nothing is told of a name before there is a pod of it.                   *)
LEMMA AnnouncedLess ==
  ASSUME TypeOK, Announced, incs' = incs,
         events' = <<>> \/ events' = events \/ (events # <<>> /\ events' = Tail(events))
  PROVE  Announced'
<1>1. CASE events' = <<>>
  BY <1>1 DEF Announced
<1>2. CASE events' = events
  BY <1>2 DEF Announced, Tells
<1>3. CASE events # <<>> /\ events' = Tail(events)
  <2>1. events \in Seq(Event)
    BY DEF TypeOK
  <2>2. \A i \in DOMAIN Tail(events) : i + 1 \in DOMAIN events /\ Tail(events)[i] = events[i + 1]
    BY <1>3, <2>1
  <2> QED
    BY <1>3, <2>2 DEF Announced, Tells
<1> QED
  BY <1>1, <1>2, <1>3

LEMMA AnnouncedMore ==
  ASSUME TypeOK, Announced, NEW m \in Key,
         NEW type \in {"ADDED", "MODIFIED", "DELETED"}, NEW obj \in Seen,
         events' = events \/ Notify(type, m, obj),
         \A n \in Key : incs[n] # 0 => incs'[n] # 0,
         type = "DELETED" \/ incs'[m] # 0
  PROVE  Announced'
<1> DEFINE e == [type |-> type, key |-> m, obj |-> obj]
<1>1. events \in Seq(Event) /\ \A v \in Event : v.key \in Key
  BY DEF TypeOK, Event
<1>2. \A i \in DOMAIN events : Tells(i) => incs'[events[i].key] # 0
  BY <1>1 DEF Announced
<1>3. CASE events' = events
  BY <1>2, <1>3 DEF Announced, Tells
<1>4. CASE events' = Append(events, e)
  <2>1. e.key = m /\ (e.type \in {"ADDED", "MODIFIED"} => incs'[m] # 0)
    OBVIOUS
  <2> HIDE DEF e
  <2>2. \A i \in DOMAIN events' :
          \/ i \in DOMAIN events /\ events'[i] = events[i]
          \/ events'[i] = e
    BY <1>1, <1>4
  <2> QED
    BY <1>2, <2>1, <2>2 DEF Announced, Tells
<1> QED
  BY <1>3, <1>4 DEF Notify

LEMMA OwnQuiet ==
  ASSUME TypeOK, OwnInv, UNCHANGED <<pod, incs, moves, secrets>>,
         events' = <<>> \/ events' = events
  PROVE  OwnInv'
<1>0. Announced'
  BY AnnouncedLess DEF OwnInv
<1> SUFFICES ASSUME NEW n \in Key
             PROVE  /\ (incs[n] = 0 => ~Live(n))'
                    /\ First(n)' => Heard(n)' /\ Holds(n)'
  BY <1>0, OwnInvNext
<1>1. /\ incs[n] = 0 => ~Live(n)
      /\ First(n) => Heard(n) /\ Holds(n)
  BY DEF OwnInv
<1>2. (First(n)' <=> First(n)) /\ Address(n)' = Address(n)
  BY DEF First, NameUnused, Address, Live
<1>3. First(n) => Heard(n)'
  BY <1>1, <1>2, HeardLess
<1>4. First(n) => Holds(n)'
  BY <1>1, <1>2 DEF Holds, Started, Meshed, Live
<1> QED
  BY <1>1, <1>2, <1>3, <1>4 DEF Live

LEMMA OwnHandle ==
  ASSUME TypeOK, OwnInv, HandleEvent
  PROVE  OwnInv'
<1> DEFINE e == Head(events)
<1>0. /\ UNCHANGED <<pod, incs, moves>> /\ events # <<>>
      /\ events' = <<>> \/ events' = Tail(events)
  BY DEF HandleEvent, Forget
<1>1. ASSUME NEW n \in Key
      PROVE  /\ (incs[n] = 0 => ~Live(n))'
             /\ First(n)' => Heard(n)' /\ Holds(n)'
  <2>1. /\ incs[n] = 0 => ~Live(n)
        /\ First(n) => Heard(n) /\ Holds(n)
    BY DEF OwnInv
  <2>2. (First(n)' <=> First(n)) /\ Address(n)' = Address(n)
    BY <1>0 DEF First, NameUnused, Address, Live
  <2>3. First(n) => Heard(n)'
    BY <1>0, <2>1, <2>2, HeardLess
  <2>4. ASSUME First(n) PROVE Holds(n)'
    <3>1. 1 \in DOMAIN events /\ e = events[1]
      BY <1>0 DEF TypeOK
    <3>2. e.type \in {"ADDED", "MODIFIED"} /\ NameOf[e.key] = NameOf[n] /\ e.obj.ip # NoIP
            => e.obj.ip = Address(n)
      <4>1. ASSUME e.type \in {"ADDED", "MODIFIED"}, NameOf[e.key] = NameOf[n]
            PROVE  e.key = n
        <5>1. incs[e.key] # 0 /\ e.key \in Key
          BY <1>0, <3>1, <4>1, HeadEvent DEF OwnInv, Announced, Tells, TypeOK
        <5> QED
          BY <2>4, <4>1, <5>1 DEF First, NameUnused
      <4>2. e.type \in {"ADDED", "MODIFIED"} /\ e.key = n => e.obj.ip \in {NoIP, Address(n)}
        BY <2>1, <2>4, <3>1 DEF Heard, Tells
      <4> QED
        BY <4>1, <4>2
    <3>3. ASSUME NEW ns \in Namespace, SecretOf(ns, n) \in DOMAIN secrets'
          PROVE  secrets'[SecretOf(ns, n)].ip = Address(n)
      <4> DEFINE k == SecretOf(ns, n)
      <4>1. CASE k \in DOMAIN secrets /\ secrets'[k] = secrets[k]
        BY <2>1, <2>4, <4>1 DEF Holds
      <4>2. CASE /\ k = SecretOf(Default, e.key)
                 /\ e.type \in {"ADDED", "MODIFIED"} /\ e.obj.ip # NoIP
                 /\ secrets'[k] = [ip |-> e.obj.ip, ca |-> ctl.ca]
        <5>1. NameOf[e.key] = NameOf[n]
          BY <4>2 DEF SecretOf
        <5>2. secrets'[k].ip = e.obj.ip
          BY <4>2
        <5> QED
          BY <3>2, <4>2, <5>1, <5>2
      <4> QED
        BY <3>3, <4>1, <4>2, HandleEffect
    <3>4. Started(n)' => pod'[n].sidecar.ip = Address(n)
      BY <1>0, <2>1, <2>4 DEF Holds, Started, Meshed, Live
    <3> QED
      BY <2>2, <3>3, <3>4 DEF Holds
  <2> QED
    BY <1>0, <2>1, <2>2, <2>3, <2>4 DEF Live
<1>2. Announced'
  BY <1>0, AnnouncedLess DEF OwnInv
<1> QED
  BY <1>1, <1>2, OwnInvNext

LEMMA OwnRelist ==
  ASSUME TypeOK, OwnInv, Relist
  PROVE  OwnInv'
<1> DEFINE delta(n) == IF pod[n] = Absent
                         THEN [type |-> "TOMBSTONE", key |-> n]
                         ELSE [type |-> "ADDED", key |-> n, obj |-> View(pod[n])]
<1>0. UNCHANGED <<pod, incs, moves, secrets>>
  BY DEF Relist
<1>1. \A i \in DOMAIN events' : \E m \in Key : events'[i] = delta(m)
  BY DEF Relist
<1>2. ASSUME NEW m \in Key, delta(m).type \in {"ADDED", "MODIFIED"}
      PROVE  delta(m).key = m /\ delta(m).obj.ip = Address(m) /\ incs[m] # 0
  <2>1. pod[m] # Absent
    BY <1>2
  <2>2. delta(m) = [type |-> "ADDED", key |-> m, obj |-> View(pod[m])]
    BY <2>1
  <2> QED
    BY <2>1, <2>2 DEF View, Address, Live, OwnInv
<1>3. ASSUME NEW m \in Key PROVE delta(m).key = m
  BY <1>3
<1> HIDE DEF delta
<1>4. ASSUME NEW n \in Key
      PROVE  /\ (incs[n] = 0 => ~Live(n))'
             /\ First(n)' => Heard(n)' /\ Holds(n)'
  <2>1. /\ incs[n] = 0 => ~Live(n)
        /\ First(n) => Heard(n) /\ Holds(n)
    BY DEF OwnInv
  <2>2. (First(n)' <=> First(n)) /\ Address(n)' = Address(n)
    BY <1>0 DEF First, NameUnused, Address, Live
  <2>3. Heard(n)'
    BY <1>1, <1>2, <1>3, <2>2 DEF Heard, Tells
  <2>4. First(n) => Holds(n)'
    BY <1>0, <2>1, <2>2 DEF Holds, Started, Meshed, Live
  <2> QED
    BY <1>0, <2>1, <2>2, <2>3, <2>4 DEF Live
<1>5. Announced'
  BY <1>0, <1>1, <1>2 DEF Announced, Tells
<1> QED
  BY <1>4, <1>5, OwnInvNext

LEMMA OwnCluster ==
  ASSUME TypeOK, OwnInv, NEW m \in Key,
         \/ CreatePod(m) \/ StartSidecar(m) \/ DeletePod(m)
         \/ \E ip \in FreeIP : AssignIP(m, ip) \/ MoveSandbox(m, ip)
  PROVE  OwnInv'
<1>0. /\ secrets' = secrets
      /\ \A n \in Key \ {m} : pod'[n] = pod[n] /\ incs'[n] = incs[n]
  BY DEF CreatePod, StartSidecar, DeletePod, AssignIP, MoveSandbox, TypeOK
<1>1. \A n \in Key : /\ incs[n] = 0 => ~Live(n)
                     /\ First(n) => Heard(n) /\ Holds(n)
  BY DEF OwnInv
<1>2. \E type \in {"ADDED", "MODIFIED", "DELETED"}, obj \in Seen :
        /\ events' = events \/ Notify(type, m, obj)
        /\ events' = events \/ type = "DELETED" \/ incs'[m] # 0
  <2>1. CASE CreatePod(m)
    <3>1. incs'[m] # 0
      BY <2>1 DEF CreatePod, TypeOK
    <3> QED
      BY <2>1, <3>1, CreateEffect DEF ClusterStep
  <2>2. CASE StartSidecar(m)
    <3>1. [inc |-> 1, ip |-> NoIP] \in Seen
      BY DEF Seen
    <3> QED
      BY <2>2, <3>1 DEF StartSidecar
  <2>3. CASE DeletePod(m)
    <3>1. View(pod[m]) \in Seen
      BY <2>3, ViewType DEF DeletePod, TypeOK
    <3> QED
      BY <2>3, <3>1 DEF DeletePod
  <2>4. ASSUME NEW ip \in FreeIP, AssignIP(m, ip)
        PROVE  (\E obj \in Seen : Notify("MODIFIED", m, obj)) /\ incs'[m] # 0
    <3>1. incs'[m] # 0
      BY <2>4 DEF AssignIP, OwnInv, Live
    <3> QED
      BY <2>4, <3>1, AssignEffect DEF ClusterStep
  <2>5. ASSUME NEW ip \in FreeIP, MoveSandbox(m, ip)
        PROVE  (\E obj \in Seen : Notify("MODIFIED", m, obj)) /\ incs'[m] # 0
    <3>1. incs'[m] # 0
      BY <2>5 DEF MoveSandbox, OwnInv, Live
    <3> QED
      BY <2>5, <3>1, MoveEffect DEF ClusterStep
  <2> QED
    BY <2>1, <2>2, <2>3, <2>4, <2>5
<1>3. moves \in Nat /\ (moves' = moves \/ moves' = moves + 1)
  <2>1. moves \in Nat
    BY BoundsType DEF TypeOK
  <2>2. moves' = moves \/ moves' = moves + 1
    BY DEF CreatePod, StartSidecar, DeletePod, AssignIP, MoveSandbox
  <2> QED
    BY <2>1, <2>2
<1>4. incs[m] \in Nat /\ (incs'[m] = incs[m] \/ incs'[m] = incs[m] + 1)
  BY DEF CreatePod, StartSidecar, DeletePod, AssignIP, MoveSandbox, TypeOK
<1>5. ASSUME NEW n \in Key \ {m}
      PROVE  /\ (incs[n] = 0 => ~Live(n))'
             /\ First(n)' => Heard(n)' /\ Holds(n)'
  <2>1. (First(n)' => First(n)) /\ Address(n)' = Address(n)
    <3>1. NameUnused(n)' => NameUnused(n)
      BY <1>0, <1>4 DEF NameUnused
    <3> QED
      BY <1>0, <1>3, <3>1 DEF First, Address, Live
  <2>2. First(n) => Holds(n)'
    BY <1>0, <1>1, <2>1 DEF Holds, Started, Meshed, Live
  <2>3. First(n) => Heard(n)'
    BY <1>1, <1>2, <2>1, HeardLess, HeardMore
  <2> QED
    BY <1>0, <1>1, <2>1, <2>2, <2>3 DEF Live
<1>6. NameUnused(m)' <=> NameUnused(m)
  BY <1>0 DEF NameUnused
<1>7. /\ (incs[m] = 0 => ~Live(m))'
      /\ First(m)' => Heard(m)' /\ Holds(m)'
  <2>1. CASE CreatePod(m)
    <3>1. /\ incs[m] \in Nat /\ incs'[m] = incs[m] + 1 /\ moves' = moves /\ ~Live(m)
      BY <2>1 DEF CreatePod, TypeOK, Live
    <3>2. PICK p \in Pod, obj \in Seen :
            /\ ClusterStep(m, p, "ADDED", obj)
            /\ p.sidecar = NoCert /\ p.ip = NoIP /\ obj.ip = NoIP
      BY <2>1, CreateEffect
    <3>3. pod'[m] = p /\ Notify("ADDED", m, obj)
      BY <3>2 DEF ClusterStep, TypeOK
    <3>4. First(m)' => First(m)
      BY <1>6, <3>1 DEF First
    <3>5. Address(m) = NoIP /\ Address(m)' = NoIP
      BY <3>1, <3>2, <3>3 DEF Address
    <3>6. First(m) => Heard(m)'
      BY <1>1, <3>2, <3>3, <3>5, HeardMore
    <3>7. First(m) => Holds(m)'
      BY <1>0, <1>1, <3>2, <3>3, <3>5 DEF Holds, Started
    <3> QED
      BY <3>1, <3>4, <3>6, <3>7
  <2>2. CASE StartSidecar(m)
    <3>1. PICK p \in Pod :
            /\ pod[m] \in Pod /\ pod' = [pod EXCEPT ![m] = p]
            /\ p.ip = pod[m].ip /\ SecretOf(NsOf[m], m) \in DOMAIN secrets
            /\ p.sidecar = secrets[SecretOf(NsOf[m], m)]
      BY <2>2, StartSidecarEffect
    <3>2. /\ Live(m) /\ pod'[m] = p /\ incs' = incs /\ moves' = moves /\ events' = events
      BY <2>2, <3>1 DEF StartSidecar, Live, TypeOK
    <3>3. Live(m)' /\ Address(m)' = Address(m)
      BY <3>1, <3>2 DEF Live, Address, Pod, Absent
    <3>4. First(m)' <=> First(m)
      BY <1>6, <3>2, <3>3 DEF First
    <3>5. First(m) => Heard(m)'
      BY <1>1, <3>2, <3>3, HeardLess
    <3>6. NsOf[m] \in Namespace
      BY DEF Namespace
    <3>7. First(m) => Holds(m)'
      BY <1>0, <1>1, <3>1, <3>2, <3>3, <3>6 DEF Holds
    <3> QED
      BY <1>1, <3>2, <3>4, <3>5, <3>7
  <2>3. CASE DeletePod(m)
    <3>1. ~Live(m)' /\ Live(m) /\ incs' = incs
      BY <2>3 DEF DeletePod, Live, TypeOK
    <3> QED
      BY <1>1, <3>1 DEF First
  <2>4. ASSUME NEW ip \in FreeIP, AssignIP(m, ip)
        PROVE  /\ (incs[m] = 0 => ~Live(m))'
               /\ First(m)' => Heard(m)' /\ Holds(m)'
    <3>1. PICK p \in Pod, obj \in Seen :
            /\ ClusterStep(m, p, "MODIFIED", obj)
            /\ pod[m] \in Pod /\ pod[m].ip = NoIP
            /\ p.sidecar = pod[m].sidecar /\ p.injected = pod[m].injected
            /\ p.ip = ip /\ obj.ip = ip
      BY <2>4, AssignEffect
    <3>2. /\ Live(m) /\ incs' = incs /\ moves' = moves
          /\ pod'[m] = p /\ Notify("MODIFIED", m, obj)
      BY <2>4, <3>1 DEF AssignIP, Live, ClusterStep, TypeOK
    <3>3. Live(m)' /\ Address(m)' = ip /\ Address(m) = NoIP
      BY <3>1, <3>2 DEF Live, Address, Pod, Absent
    <3>4. First(m)' <=> First(m)
      BY <1>6, <3>2, <3>3 DEF First
    <3>5. First(m) => Heard(m)'
      BY <1>1, <3>1, <3>2, <3>3, HeardMore
    <3>6. ASSUME First(m) PROVE Holds(m)'
      <4>1. \A cert \in Certificate : cert.ip # NoIP
        BY ControllerAssumption DEF Certificate
      <4>2. \A ns \in Namespace : SecretOf(ns, m) \notin DOMAIN secrets
        BY <1>1, <3>3, <3>6, <4>1 DEF Holds, TypeOK
      <4>3. ~Started(m)
        <5>1. Started(m) => pod[m].sidecar \in Certificate
          BY <3>1 DEF Started, Pod
        <5> QED
          BY <1>1, <3>3, <3>6, <4>1, <5>1 DEF Holds
      <4>4. ~Started(m)'
        BY <3>1, <3>2, <3>3, <4>3 DEF Started, Meshed
      <4> QED
        BY <1>0, <4>2, <4>4 DEF Holds
    <3> QED
      BY <1>1, <3>2, <3>4, <3>5, <3>6
  <2>5. ASSUME NEW ip \in FreeIP, MoveSandbox(m, ip)
        PROVE  /\ (incs[m] = 0 => ~Live(m))'
               /\ First(m)' => Heard(m)' /\ Holds(m)'
    <3>1. Live(m) /\ incs' = incs /\ moves' = moves + 1
      BY <2>5 DEF MoveSandbox, Live
    <3>2. ~First(m)'
      BY <1>3, <3>1 DEF First
    <3> QED
      BY <1>1, <3>1, <3>2
  <2> QED
    BY <2>1, <2>2, <2>3, <2>4, <2>5
<1>8. Announced'
  <2>1. Announced /\ \A n \in Key : incs[n] # 0 => incs'[n] # 0
    BY <1>0, <1>4 DEF OwnInv
  <2>2. CASE \E obj \in Seen : events' = events
    <3>1. PICK obj \in Seen : events' = events
      BY <2>2
    <3> QED
      BY <2>1, <3>1, AnnouncedMore
  <2> QED
    BY <1>2, <2>1, <2>2, AnnouncedMore
<1> QED
  BY <1>5, <1>7, <1>8, OwnInvNext

LEMMA OwnStep ==
  ASSUME TypeOK, OwnInv, [Next]_vars
  PROVE  OwnInv'
<1>1. CASE \/ LoadOrGenerateCA \/ loadCA \/ RegisterWebhook
           \/ StartWatcher \/ ListenAndServeTLS
           \/ PreStop \/ Shutdown \/ Crash \/ UNCHANGED vars
  BY <1>1, OwnQuiet DEF LoadOrGenerateCA, loadCA, RegisterWebhook, StartWatcher,
     ListenAndServeTLS, PreStop, Shutdown, Crash, Forget, vars
<1> QED
  BY <1>1, OwnHandle, OwnRelist, OwnCluster DEF Next

(* A pod that is the only one ever created under its name, in any           *)
(* namespace, only ever runs in its first sandbox with a certificate for    *)
(* its own address, whatever is lost, repeated or restarted between the     *)
(* kubelet, the watch and the secret.                                       *)
THEOREM OwnAddress == Spec => []OwnCert
<1>1. Init => TypeOK /\ HasCA /\ OwnInv
  BY TypeInit DEF Init, OwnInv, Announced, Heard, Holds, Live, Started, Meshed
<1>2. TypeOK /\ HasCA /\ OwnInv /\ [Next]_vars => (TypeOK /\ HasCA /\ OwnInv)'
  BY TypeStep, OwnStep
<1>3. OwnInv => OwnCert
  BY DEF OwnInv, OwnCert, OnlyOne, First, Holds, Address, Started, Meshed
<1> QED
  BY <1>1, <1>2, <1>3, PTL DEF Spec
=============================================================================
