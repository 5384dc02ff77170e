---------------------------- MODULE WebhookProofs ----------------------------
(* Proofs about Webhook, for any pods, manifests, namespaces and edits, and *)
(* however often the controller that serves the webhook ends.               *)
EXTENDS Webhook, TLAPS

LEMMA BoundsType == MaxEdits \in Nat /\ MaxEnds \in Nat
  BY WebhookAssumption

(* What a patched object looks like.                                        *)
Patched(o, q) ==
  /\ q.init = Append(o.init, smeshproxy(o.name))
  /\ q.share
  /\ q.ann.status = "injected"

LEMMA AddInitContainerType ==
  ASSUME NEW o \in Object
  PROVE  /\ addInitContainer(o) \in Object
         /\ addInitContainer(o).init = Append(o.init, smeshproxy(o.name))
<1>1. smeshproxy(o.name) \in Container
  BY DEF smeshproxy, Container, Object
<1>2. Append(o.init, smeshproxy(o.name)) \in Seq(Container)
  <2>1. o.init \in Seq(Container)
    BY DEF Object
  <2> QED
    BY <1>1, <2>1
<1> QED
  BY <1>2 DEF addInitContainer, Object

LEMMA CreatePatchEffect ==
  ASSUME NEW o \in Object, NEW q \in createPatch(o)
  PROVE  q \in Object /\ Patched(o, q)
<1> DEFINE a == addInitContainer(o)
           p == [a EXCEPT !.ann = [inject |-> "", status |-> "injected"]]
<1>1. a \in Object /\ a.init = Append(o.init, smeshproxy(o.name))
  BY AddInitContainerType
<1>2. q = [p EXCEPT !.share = TRUE]
  BY DEF createPatch, updateAnnotation
<1> HIDE DEF a
<1>3. [inject |-> "", status |-> "injected"] \in Annotations
  BY DEF Annotations
<1>4. p \in Object /\ p.init = a.init /\ p.ann = [inject |-> "", status |-> "injected"]
  BY <1>1, <1>3 DEF Object
<1> HIDE DEF p
<1>5. q \in Object /\ q.init = p.init /\ q.ann = p.ann /\ q.share = TRUE
  BY <1>2, <1>4 DEF Object
<1>6. q.ann.status = "injected"
  <2>1. q.ann = [inject |-> "", status |-> "injected"]
    BY <1>4, <1>5, Zenon
  <2>2. [inject |-> "", status |-> "injected"].status = "injected"
    OBVIOUS
  <2> QED
    BY <2>1, <2>2, Zenon
<1>7. q.init = Append(o.init, smeshproxy(o.name))
  BY <1>1, <1>4, <1>5
<1> QED
  BY <1>5, <1>6, <1>7 DEF Patched

(* Admission leaves an object alone or patches it.                          *)
LEMMA AdmissionEffect ==
  ASSUME NEW o \in Object, NEW q \in Admission(o)
  PROVE  q \in Object /\ (q = o \/ Patched(o, q))
<1>1. q = o \/ q \in createPatch(o)
  BY DEF Admission, mutate
<1> QED
  BY <1>1, CreatePatchEffect

(* No update brings the mark to a pod: a patch would change the containers, *)
(* which the API server refuses.                                            *)
LEMMA UpdatesEffect ==
  ASSUME NEW n \in Pod, NEW o \in Object, o.init = pod[n].init, NEW q \in Updates(n, o)
  PROVE  q \in Object /\ q = o
<1>1. q \in Admission(o) /\ q.init = o.init
  BY DEF Updates
<1>2. o.init \in Seq(Container)
  BY DEF Object
<1>3. Append(o.init, smeshproxy(o.name)) # o.init
  <2>1. smeshproxy(o.name) \in Container
    BY DEF smeshproxy, Container, Object
  <2>2. Len(Append(o.init, smeshproxy(o.name))) = Len(o.init) + 1
    BY <1>2, <2>1
  <2> QED
    BY <1>2, <2>2
<1> QED
  BY <1>1, <1>3, AdmissionEffect DEF Patched

-----------------------------------------------------------------------------
LEMMA CreateEffect ==
  ASSUME TypeOK, NEW n \in Pod, Create(n)
  PROVE  \E o \in Object :
           /\ pod' = [pod EXCEPT ![n] = o]
           /\ n \notin selfMarked' /\ Mark(o.ann) => HasProxy(o) /\ o.share
<1>1. Manifest[n] \in Object
  BY WebhookAssumption
<1>2. PICK q \in Admission(Manifest[n]) : pod' = [pod EXCEPT ![n] = [q EXCEPT !.name = n]]
  BY DEF Create
<1>3. q \in Object /\ (q = Manifest[n] \/ Patched(Manifest[n], q))
  BY <1>1, AdmissionEffect
<1> DEFINE o == [q EXCEPT !.name = n]
<1>4. /\ o \in Object
      /\ o.init = q.init /\ o.share = q.share /\ o.ann = q.ann
  BY <1>3 DEF Object
<1> HIDE DEF o
<1>5. Patched(Manifest[n], q) => HasProxy(o)
  <2> SUFFICES ASSUME Patched(Manifest[n], q) PROVE HasProxy(o)
    OBVIOUS
  <2>1. Manifest[n].init \in Seq(Container)
    BY <1>1 DEF Object
  <2>2. smeshproxy(Manifest[n].name) \in Container
    BY <1>1 DEF smeshproxy, Container, Object
  <2>3. o.init = Append(Manifest[n].init, smeshproxy(Manifest[n].name))
    BY <1>4 DEF Patched
  <2>4. /\ Len(Manifest[n].init) + 1 \in DOMAIN o.init
        /\ o.init[Len(Manifest[n].init) + 1] = smeshproxy(Manifest[n].name)
    BY <2>1, <2>2, <2>3
  <2> QED
    BY <2>4 DEF HasProxy, smeshproxy
<1>6. n \notin selfMarked' => ~Mark(Manifest[n].ann)
  BY DEF Create
<1>7. n \notin selfMarked' /\ Mark(o.ann) => HasProxy(o) /\ o.share
  BY <1>3, <1>4, <1>5, <1>6 DEF Patched
<1> QED
  BY <1>2, <1>4, <1>7 DEF o

LEMMA AnnotateEffect ==
  ASSUME TypeOK, MarkedIsInjected, NEW n \in Pod, NEW a \in Edit, Annotate(n, a)
  PROVE  \E o \in Object :
           /\ pod' = [pod EXCEPT ![n] = o]
           /\ n \notin selfMarked' /\ Mark(o.ann) => HasProxy(o) /\ o.share
<1>1. pod[n] \in Object /\ Stored(n)
  BY DEF Annotate, Stored, TypeOK
<1>2. a \in Annotations
  BY WebhookAssumption
<1> DEFINE o == [pod[n] EXCEPT !.ann = a]
<1>3. /\ o \in Object /\ o.ann = a
      /\ o.init = pod[n].init /\ o.share = pod[n].share
  BY <1>1, <1>2 DEF Object
<1>4. PICK q \in Updates(n, o) : pod' = [pod EXCEPT ![n] = q]
  BY DEF Annotate
<1> HIDE DEF o
<1>5. q = o
  BY <1>3, <1>4, UpdatesEffect
<1>6. ASSUME n \notin selfMarked', Mark(a) PROVE HasProxy(o) /\ o.share
  <2>1. n \notin selfMarked /\ Mark(pod[n].ann)
    BY <1>6 DEF Annotate
  <2>2. HasProxy(pod[n]) /\ pod[n].share
    BY <1>1, <2>1 DEF MarkedIsInjected, Marked
  <2> QED
    BY <1>3, <2>2 DEF HasProxy
<1> QED
  BY <1>3, <1>4, <1>5, <1>6

LEMMA DeleteEffect ==
  ASSUME TypeOK, NEW n \in Pod, Delete(n)
  PROVE  /\ pod[n] \in Object
         /\ \/ pod' = [pod EXCEPT ![n] = Gone]
            \/ \E o \in Object : /\ pod' = [pod EXCEPT ![n] = o]
                                 /\ o.ann = pod[n].ann
                                 /\ o.init = pod[n].init /\ o.share = pod[n].share
<1>1. pod[n] \in Object
  BY DEF Delete, Stored, TypeOK
<1> DEFINE o == [pod[n] EXCEPT !.deleting = TRUE]
<1>2. /\ o \in Object /\ o.ann = pod[n].ann
      /\ o.init = pod[n].init /\ o.share = pod[n].share
  BY <1>1 DEF Object
<1>3. pod' = [pod EXCEPT ![n] = Gone] \/ pod' = [pod EXCEPT ![n] = o]
  BY DEF Delete
<1> QED
  BY <1>1, <1>2, <1>3

-----------------------------------------------------------------------------
LEMMA TypeStep ==
  ASSUME TypeOK, [Next]_vars
  PROVE  TypeOK'
<1>1. ASSUME NEW n \in Pod, Create(n) PROVE TypeOK'
  BY <1>1, CreateEffect DEF TypeOK, Create
<1>2. ASSUME NEW n \in Pod, Delete(n) PROVE TypeOK'
  BY <1>2, DeleteEffect DEF TypeOK, Delete
<1>3. ASSUME NEW n \in Pod, Release(n) PROVE TypeOK'
  BY <1>3 DEF TypeOK, Release
<1>4. ASSUME NEW n \in Pod, NEW a \in Edit, Annotate(n, a) PROVE TypeOK'
  <2>1. pod' \in [Pod -> Object \cup {New, Gone}]
    <3>1. pod[n] \in Object /\ a \in Annotations
      BY <1>4, WebhookAssumption DEF Annotate, Stored, TypeOK
    <3> DEFINE o == [pod[n] EXCEPT !.ann = a]
    <3>2. o \in Object /\ o.init = pod[n].init
      BY <3>1 DEF Object
    <3>3. PICK q \in Updates(n, o) : pod' = [pod EXCEPT ![n] = q]
      BY <1>4 DEF Annotate
    <3> HIDE DEF o
    <3>4. q \in Object
      BY <3>2, <3>3, UpdatesEffect
    <3> QED
      BY <3>3, <3>4 DEF TypeOK
  <2>2. edits' \in 0 .. MaxEdits
    BY <1>4, BoundsType DEF TypeOK, Annotate
  <2> QED
    BY <1>4, <2>1, <2>2 DEF TypeOK, Annotate
<1>5. CASE LoadCA \/ createOrUpdateMutatingWebhookConfiguration
  BY <1>5 DEF TypeOK, LoadCA, createOrUpdateMutatingWebhookConfiguration
<1>6. CASE ListenAndServeTLS
  BY <1>6 DEF TypeOK, ListenAndServeTLS
<1>7. CASE PreStop
  BY <1>7 DEF TypeOK, PreStop
<1>8. CASE Ends
  <2>1. ends' \in 0 .. MaxEnds
    <3>1. ends \in 0 .. MaxEnds /\ ends < MaxEnds /\ ends' = ends + 1
      BY <1>8 DEF Ends, TypeOK
    <3> QED
      BY <3>1, BoundsType
  <2>2. hook' \in BOOLEAN
    BY <1>8, Zenon DEF Ends, TypeOK
  <2>3. /\ pod' = pod /\ edits' = edits /\ ctl' = "down"
        /\ selfMarked' = selfMarked /\ env' = env /\ stored' = stored
    BY <1>8, Zenon DEF Ends
  <2> QED
    BY <2>1, <2>2, <2>3, Zenon DEF TypeOK
<1>9. CASE UNCHANGED vars
  BY <1>9 DEF vars, TypeOK
<1> QED
  BY <1>1, <1>2, <1>3, <1>4, <1>5, <1>6, <1>7, <1>8, <1>9 DEF Next

(* Every variable has its type, for any pods, manifests and edits.          *)
THEOREM WebhookTypeCorrect == Spec => []TypeOK
<1>1. Init => TypeOK
  <2>1. 0 \in 0 .. MaxEdits /\ 0 \in 0 .. MaxEnds
    BY BoundsType
  <2>2. [n \in Pod |-> New] \in [Pod -> Object \cup {New, Gone}]
    BY Zenon
  <2>3. EnvCA \subseteq BOOLEAN
    BY WebhookAssumption
  <2>4. Init => env \in BOOLEAN /\ stored \in BOOLEAN /\ hook \in BOOLEAN
    BY <2>3, Zenon DEF Init
  <2> QED
    BY <2>1, <2>2, <2>4, Zenon DEF Init, TypeOK
<1>2. TypeOK /\ [Next]_vars => TypeOK'
  BY TypeStep
<1> QED
  BY <1>1, <1>2, PTL DEF Spec

-----------------------------------------------------------------------------
LEMMA MarkStep ==
  ASSUME TypeOK, MarkedIsInjected, [Next]_vars
  PROVE  MarkedIsInjected'
<1>1. ASSUME NEW n \in Pod, NEW o \in Object, pod' = [pod EXCEPT ![n] = o],
             selfMarked \subseteq selfMarked',
             n \notin selfMarked' /\ Mark(o.ann) => HasProxy(o) /\ o.share
      PROVE  MarkedIsInjected'
  BY <1>1 DEF MarkedIsInjected, Marked, Stored, HasProxy, TypeOK
<1>2. ASSUME NEW n \in Pod, pod' = [pod EXCEPT ![n] = Gone], selfMarked' = selfMarked
      PROVE  MarkedIsInjected'
  BY <1>2 DEF MarkedIsInjected, Marked, Stored, HasProxy, TypeOK
<1>3. ASSUME pod' = pod, selfMarked' = selfMarked PROVE MarkedIsInjected'
  BY <1>3 DEF MarkedIsInjected, Marked, Stored, HasProxy
<1>4. ASSUME NEW n \in Pod, Create(n) PROVE MarkedIsInjected'
  <2>1. selfMarked \subseteq selfMarked'
    BY <1>4 DEF Create
  <2> QED
    BY <1>4, <1>1, <2>1, CreateEffect
<1>5. ASSUME NEW n \in Pod, Delete(n) PROVE MarkedIsInjected'
  <2>1. Stored(n) /\ selfMarked' = selfMarked
    BY <1>5 DEF Delete
  <2>2. CASE pod' = [pod EXCEPT ![n] = Gone]
    BY <2>1, <2>2, <1>2
  <2>3. CASE \E o \in Object : /\ pod' = [pod EXCEPT ![n] = o]
                               /\ o.ann = pod[n].ann
                               /\ o.init = pod[n].init /\ o.share = pod[n].share
    <3>1. n \notin selfMarked /\ Mark(pod[n].ann) => HasProxy(pod[n]) /\ pod[n].share
      BY <2>1 DEF MarkedIsInjected, Marked
    <3> QED
      BY <2>1, <2>3, <3>1, <1>1 DEF HasProxy, Mark
  <2> QED
    BY <1>5, <2>2, <2>3, DeleteEffect
<1>6. ASSUME NEW n \in Pod, NEW a \in Edit, Annotate(n, a) PROVE MarkedIsInjected'
  <2>1. selfMarked \subseteq selfMarked'
    BY <1>6 DEF Annotate
  <2> QED
    BY <1>6, <1>1, <2>1, AnnotateEffect
<1>7. ASSUME NEW n \in Pod, Release(n) PROVE MarkedIsInjected'
  BY <1>7, <1>2 DEF Release
<1> QED
  BY <1>3, <1>4, <1>5, <1>6, <1>7 DEF Next, vars, PreStop, Ends, ListenAndServeTLS,
     createOrUpdateMutatingWebhookConfiguration, LoadCA

(* A pod that has the mark, and not from its owner's manifest or edit, has  *)
(* the proxy and the shared process namespace, whatever is created, edited, *)
(* deleted and admitted while the webhook comes and goes.                   *)
THEOREM MarkNeverLies == Spec => []MarkedIsInjected
<1>1. Init => MarkedIsInjected
  BY DEF Init, MarkedIsInjected, Marked, Stored
<1>2. TypeOK /\ MarkedIsInjected /\ [Next]_vars => MarkedIsInjected'
  BY MarkStep
<1> QED
  BY <1>1, <1>2, WebhookTypeCorrect, PTL DEF Spec
=============================================================================
