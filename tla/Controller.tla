----------------------------- MODULE Controller -----------------------------
(***************************************************************************)
(* The controller (controller/cmd): it makes or is given a CA, registers   *)
(* the injecting webhook, and watches the pods: when a pod gets an address *)
(* it stores a certificate for that address in a secret, which the         *)
(* injected sidecar of the pod needs in order to start.                    *)
(*                                                                         *)
(* External, and modelled from how the controller uses them: the API       *)
(* server (pods, secrets, the webhook configuration, the watch stream),    *)
(* the kubelet, and the informer of client-go, which keeps a cache, turns  *)
(* watch events into OnAdd, OnUpdate and OnDelete one at a time, and lists *)
(* everything again when its watch breaks.                                 *)
(***************************************************************************)
EXTENDS Naturals, Sequences, FiniteSets

CONSTANTS
  Key,            \* pods, as the API and the informer know them:
  NameOf,         \* [Key -> name], and
  NsOf,           \* [Key -> namespace]
  IP,             \* addresses of pods
  EnvCA,          \* whether SMESH-CA-CERT and SMESH-CA-KEY are set from the
                  \* secret "watcher": the values it may have at a start
  MaxInc,         \* bound: [Key -> pods created under this key]
  MaxStarts,      \* bound: starts of the controller (its Deployment starts
                  \* it again whenever it ends, so it ends only below it)
  MaxTrouble      \* bound: sandboxes recreated with another address, broken
                  \* watches and failed calls of the API, taken together

NoIP == "none"

ASSUME ControllerAssumption ==
  /\ IsFiniteSet(Key)
  /\ DOMAIN NsOf = Key /\ DOMAIN NameOf = Key
  /\ \A m, n \in Key : NsOf[m] = NsOf[n] /\ NameOf[m] = NameOf[n] => m = n
  /\ NoIP \notin IP
  /\ EnvCA \subseteq BOOLEAN
  /\ MaxInc \in [Key -> Nat]
  /\ {MaxStarts, MaxTrouble} \subseteq Nat

VARIABLES
  pod,        \* [Key -> Absent | Pod]
  incs,       \* [Key -> pods created so far]
  moves,      \* sandboxes recreated so far
  secrets,    \* [<<namespace, pod name>> -> certificate]: the "-smesh" secrets
  caSecret,   \* the CA stored in the secret "watcher", or 0
  webhook,    \* the CABundle of the webhook configuration, or 0
  ctl,        \* the controller: [pc, ca, cert, synced, serving, stop, starts]
  cache,      \* the informer's store: [Key -> Absent | [inc, ip]]
  events,     \* watch events not yet handled
  relists,    \* broken watches so far
  failures    \* failed calls so far

vars == <<pod, incs, moves, secrets, caSecret, webhook, ctl, cache, events,
          relists, failures>>

-----------------------------------------------------------------------------
Default == "default"           \* v1.NamespaceDefault
Namespace == {NsOf[n] : n \in Key} \cup {Default}
PodName == {NameOf[n] : n \in Key}
SecretOf(ns, n) == <<ns, NameOf[n]>>  \* the secret "<name>-smesh" in ns
Absent == [inc |-> 0]
NoCert == [ip |-> NoIP, ca |-> 0]

(* A CA is named by the start of the controller that generated it.          *)
Certificate == [ip : IP, ca : 1 .. MaxStarts]
Made == [ip : IP \cup {NoIP}, ca : 0 .. MaxStarts]
Seen == [inc : Nat \ {0}, ip : IP \cup {NoIP}]
Pod == [inc : Nat \ {0}, ip : IP \cup {NoIP}, injected : BOOLEAN,
        sidecar : Certificate \cup {NoCert}]  \* the secret it was started with
View(p) == IF p = Absent THEN Absent ELSE [inc |-> p.inc, ip |-> p.ip]

Event == [type : {"ADDED", "MODIFIED", "DELETED"}, key : Key, obj : Seen]
         \cup [type : {"TOMBSTONE"}, key : Key]

(* The informer has listed the pods and watches them.                       *)
Up == ctl.pc = "running" /\ ctl.synced

(* More may still go wrong.                                                 *)
MoreTrouble == moves + relists + failures < MaxTrouble

TypeOK ==
  /\ pod \in [Key -> Pod \cup {Absent}]
  /\ incs \in [Key -> Nat] /\ \A n \in Key : incs[n] <= MaxInc[n]
  /\ moves \in 0 .. MaxTrouble
  /\ DOMAIN secrets \subseteq Namespace \X PodName
  /\ \A k \in DOMAIN secrets : secrets[k] \in Certificate
  /\ caSecret \in 0 .. MaxStarts
  /\ webhook \in 0 .. MaxStarts
  /\ ctl \in [pc : {"down", "ca", "register", "running", "fatal"},
              ca : 0 .. MaxStarts, cert : Made,
              synced : BOOLEAN, serving : BOOLEAN, stop : BOOLEAN,
              starts : 0 .. MaxStarts]
  /\ cache \in [Key -> Seen \cup {Absent}]
  /\ events \in Seq(Event)
  /\ relists \in 0 .. MaxTrouble
  /\ failures \in 0 .. MaxTrouble

Init ==
  /\ pod = [n \in Key |-> Absent]
  /\ incs = [n \in Key |-> 0]
  /\ moves = 0
  /\ secrets = [k \in {} |-> NoCert]
  /\ caSecret = 0
  /\ webhook = 0
  /\ ctl = [pc |-> "down", ca |-> 0, cert |-> NoCert, synced |-> FALSE,
            serving |-> FALSE, stop |-> FALSE, starts |-> 0]
  /\ cache = [n \in Key |-> Absent]
  /\ events = <<>>
  /\ relists = 0
  /\ failures = 0

-----------------------------------------------------------------------------
(* The start of the controller.                                             *)

(* getEnvCerts, which finds nothing while there is no secret, or else       *)
(* generateCA.                                                              *)
LoadOrGenerateCA ==
  /\ ctl.pc \in {"down", "fatal"}
  /\ ctl.starts < MaxStarts
  /\ \E env \in {e /\ caSecret # 0 : e \in EnvCA} :
       ctl' = [pc |-> IF env THEN "register" ELSE "ca",
               ca |-> IF env THEN caSecret ELSE ctl.starts + 1,
               cert |-> NoCert,
               synced |-> FALSE, serving |-> FALSE, stop |-> FALSE,
               starts |-> ctl.starts + 1]
  /\ UNCHANGED <<pod, incs, moves, secrets, caSecret, webhook, cache, events, relists, failures>>

(* Mutant: an existing secret is not an error.                              *)
MutLoadCAIgnoresConflict ==
  /\ ctl.pc = "ca"
  /\ ctl' = [ctl EXCEPT !.pc = "register"]
  /\ caSecret' = IF caSecret = 0 THEN ctl.ca ELSE caSecret
  /\ UNCHANGED <<pod, incs, moves, secrets, webhook, cache, events, relists, failures>>

(* loadCA: Create of the secret "watcher".  Fatal if there is one already.  *)
loadCA ==
  /\ ctl.pc = "ca"
  /\ \/ /\ caSecret = 0
        /\ caSecret' = ctl.ca
        /\ ctl' = [ctl EXCEPT !.pc = "register"]
     \/ /\ caSecret # 0
        /\ ctl' = [ctl EXCEPT !.pc = "fatal"]
        /\ UNCHANGED caSecret
  /\ UNCHANGED <<pod, incs, moves, secrets, webhook, cache, events, relists, failures>>

createCertificate(ip) == [ip |-> ip, ca |-> ctl.ca]

(* createCertificate for the webhook server, which is for no address, then  *)
(* createOrUpdateMutatingWebhookConfiguration.                              *)
RegisterWebhook ==
  /\ ctl.pc = "register"
  /\ ctl' = [ctl EXCEPT !.pc = "running", !.cert = createCertificate(NoIP)]
  /\ webhook' = ctl.ca
  /\ UNCHANGED <<pod, incs, moves, secrets, caSecret, cache, events, relists, failures>>

(* main has started the watcher and the webhook server, each in a goroutine *)
(* of its own.  The informer lists the pods (OnAdd does nothing with them)  *)
(* and watches from there ...                                               *)
StartWatcher ==
  /\ ctl.pc = "running" /\ ~ctl.synced
  /\ ctl' = [ctl EXCEPT !.synced = TRUE]
  /\ cache' = [n \in Key |-> View(pod[n])]
  /\ events' = <<>>
  /\ UNCHANGED <<pod, incs, moves, secrets, caSecret, webhook, relists, failures>>

(* ... and the webhook server begins to answer.                             *)
ListenAndServeTLS ==
  /\ ctl.pc = "running" /\ ~ctl.serving
  /\ ctl' = [ctl EXCEPT !.serving = TRUE]
  /\ UNCHANGED <<pod, incs, moves, secrets, caSecret, webhook, cache, events, relists, failures>>

-----------------------------------------------------------------------------
(* The informer's handlers.                                                 *)

(* Create in the default namespace, under the bare name of the pod: an      *)
(* existing secret stays as it is, also that of a pod of this name in       *)
(* another namespace, and the error is only logged.                         *)
loadSecret(n, cert) ==
  secrets' = [k \in DOMAIN secrets \cup {SecretOf(Default, n)} |->
                IF k \in DOMAIN secrets THEN secrets[k] ELSE cert]

(* A call of the API fails; the handlers log it and go on.                  *)
CallFails ==
  /\ MoreTrouble
  /\ failures' = failures + 1
  /\ UNCHANGED secrets

(* Mutant: the secret is stored before its certificate is made, with the    *)
(* one made before.                                                         *)
MutOnUpdateSwapped(n, old, new) ==
  IF old.ip # new.ip /\ new.ip # NoIP
    THEN /\ ctl' = [ctl EXCEPT !.cert = createCertificate(new.ip)]
         /\ loadSecret(n, ctl.cert) /\ UNCHANGED failures
    ELSE UNCHANGED <<ctl, secrets, failures>>

(* Mutant: only a change from one address to another counts.                *)
MutOnUpdateNeedsOld(n, old, new) ==
  IF old.ip # new.ip /\ new.ip # NoIP /\ old.ip # NoIP
    THEN /\ ctl' = [ctl EXCEPT !.cert = createCertificate(new.ip)]
         /\ loadSecret(n, createCertificate(new.ip)) /\ UNCHANGED failures
    ELSE UNCHANGED <<ctl, secrets, failures>>

(* The pod has got an address, or another one.                              *)
OnUpdate(n, old, new) ==
  IF old.ip # new.ip /\ new.ip # NoIP
    THEN /\ ctl' = [ctl EXCEPT !.cert = createCertificate(new.ip)]
         /\ \/ loadSecret(n, createCertificate(new.ip)) /\ UNCHANGED failures
            \/ CallFails
    ELSE UNCHANGED <<ctl, secrets, failures>>

(* Mutant: the name of the secret without its suffix; nothing is deleted.   *)
MutOnDeleteWrongName(n) == UNCHANGED <<secrets, failures>>

(* Delete in the namespace of the pod, an error is only logged.             *)
OnDelete(n) ==
  \/ /\ secrets' = [k \in DOMAIN secrets \ {SecretOf(NsOf[n], n)} |-> secrets[k]]
     /\ UNCHANGED failures
  \/ CallFails

(* The process ends, with what it had in memory.                            *)
Forget ==
  /\ ctl' = [ctl EXCEPT !.pc = "down"]
  /\ cache' = [n \in Key |-> Absent]
  /\ events' = <<>>

(* An object the cache has is an update, whatever the watch calls it.  The  *)
(* last state of a pod deleted during a broken watch comes as a             *)
(* DeletedFinalStateUnknown: the type assertion of OnDelete panics, which   *)
(* ends the process.                                                        *)
HandleEvent ==
  /\ Up
  /\ events # <<>>
  /\ LET e == Head(events) IN
       \/ /\ e.type \in {"ADDED", "MODIFIED"}
          /\ cache' = [cache EXCEPT ![e.key] = e.obj]
          /\ IF cache[e.key] = Absent
               THEN UNCHANGED <<ctl, secrets, failures>>
               ELSE OnUpdate(e.key, cache[e.key], e.obj)
          /\ events' = Tail(events)
       \/ /\ e.type = "DELETED"
          /\ cache' = [cache EXCEPT ![e.key] = Absent]
          /\ OnDelete(e.key)
          /\ events' = Tail(events)
          /\ UNCHANGED ctl
       \/ /\ e.type = "TOMBSTONE"
          /\ Forget
          /\ UNCHANGED <<secrets, failures>>
  /\ UNCHANGED <<pod, incs, moves, caSecret, webhook, relists>>

(* The watch breaks: what it had still to say is lost, and a new list is    *)
(* compared with the cache.                                                 *)
Relist ==
  /\ Up
  /\ MoreTrouble /\ ctl.starts < MaxStarts
  /\ relists' = relists + 1
  /\ LET delta(n) == IF pod[n] = Absent
                       THEN [type |-> "TOMBSTONE", key |-> n]
                       ELSE [type |-> "ADDED", key |-> n, obj |-> View(pod[n])]
         known == {n \in Key : cache[n] # Absent \/ pod[n] # Absent}
     IN  \E order \in [1 .. Cardinality(known) -> known] :
           /\ \A i, j \in DOMAIN order : order[i] = order[j] => i = j
           /\ events' = [i \in DOMAIN order |-> delta(order[i])]
  /\ UNCHANGED <<pod, incs, moves, secrets, caSecret, webhook, ctl, cache, failures>>

-----------------------------------------------------------------------------
(* The end of the controller.                                               *)

(* prestop.sh deletes the webhook configuration, however far the controller *)
(* has got, ...                                                             *)
PreStop ==
  /\ ctl.pc \notin {"down", "fatal"} /\ ~ctl.stop
  /\ ctl.starts < MaxStarts
  /\ ctl' = [ctl EXCEPT !.stop = TRUE]
  /\ webhook' = 0
  /\ UNCHANGED <<pod, incs, moves, secrets, caSecret, cache, events, relists, failures>>

(* ... and SIGTERM shuts the server down and deletes it again (tidyWebhook).*)
Shutdown ==
  /\ ctl.pc = "running"
  /\ ctl.starts < MaxStarts
  /\ Forget
  /\ webhook' = 0
  /\ UNCHANGED <<pod, incs, moves, secrets, caSecret, relists, failures>>

(* The process or its node dies, SIGTERM comes before main waits for it, or *)
(* a call of the API before that fails and is fatal.                        *)
Crash ==
  /\ ctl.pc \notin {"down", "fatal"}
  /\ ctl.starts < MaxStarts
  /\ Forget
  /\ UNCHANGED <<pod, incs, moves, secrets, caSecret, webhook, relists, failures>>

-----------------------------------------------------------------------------
(* The cluster.                                                             *)

Notify(type, n, obj) ==
  events' = IF Up THEN Append(events, [type |-> type, key |-> n, obj |-> obj])
                  ELSE events

(* Admission: with the webhook registered (FailurePolicy Fail) the pod is   *)
(* refused unless it answers, and the answer may be to inject the pod or to *)
(* leave it alone (module Webhook has the reasons); without the webhook the *)
(* pod is created as it is.                                                 *)
CreatePod(n) ==
  /\ pod[n] = Absent
  /\ incs[n] < MaxInc[n]
  /\ webhook # 0 => ctl.pc = "running" /\ ctl.serving /\ webhook = ctl.ca
  /\ incs' = [incs EXCEPT ![n] = @ + 1]
  /\ \E injected \in {FALSE, webhook # 0} :
       pod' = [pod EXCEPT ![n] = [inc |-> incs[n] + 1, ip |-> NoIP,
                                  injected |-> injected, sidecar |-> NoCert]]
  /\ Notify("ADDED", n, [inc |-> incs[n] + 1, ip |-> NoIP])
  /\ UNCHANGED <<moves, secrets, caSecret, webhook, ctl, cache, relists, failures>>

FreeIP == IP \ {pod[n].ip : n \in {m \in Key : pod[m] # Absent}}

(* The sandbox of the pod gets its address.                                 *)
AssignIP(n, ip) ==
  /\ pod[n] # Absent
  /\ pod[n].ip = NoIP
  /\ pod' = [pod EXCEPT ![n].ip = ip]
  /\ Notify("MODIFIED", n, [inc |-> pod[n].inc, ip |-> ip])
  /\ UNCHANGED <<incs, moves, secrets, caSecret, webhook, ctl, cache, relists, failures>>

(* The sandbox is made again, with another address and new containers.      *)
MoveSandbox(n, ip) ==
  /\ pod[n] # Absent
  /\ pod[n].ip # NoIP
  /\ MoreTrouble
  /\ moves' = moves + 1
  /\ pod' = [pod EXCEPT ![n].ip = ip, ![n].sidecar = NoCert]
  /\ Notify("MODIFIED", n, [inc |-> pod[n].inc, ip |-> ip])
  /\ UNCHANGED <<incs, secrets, caSecret, webhook, ctl, cache, relists, failures>>

(* The kubelet starts the injected sidecar as soon as the secret it refers  *)
(* to is there, in the namespace of the pod.                                *)
StartSidecar(n) ==
  /\ pod[n] # Absent
  /\ pod[n].injected /\ pod[n].ip # NoIP /\ pod[n].sidecar = NoCert
  /\ SecretOf(NsOf[n], n) \in DOMAIN secrets
  /\ pod' = [pod EXCEPT ![n].sidecar = secrets[SecretOf(NsOf[n], n)]]
  /\ UNCHANGED <<incs, moves, secrets, caSecret, webhook, ctl, cache, events, relists, failures>>

DeletePod(n) ==
  /\ pod[n] # Absent
  /\ pod' = [pod EXCEPT ![n] = Absent]
  /\ Notify("DELETED", n, View(pod[n]))
  /\ UNCHANGED <<incs, moves, secrets, caSecret, webhook, ctl, cache, relists, failures>>

Next ==
  \/ LoadOrGenerateCA \/ loadCA \/ RegisterWebhook
  \/ StartWatcher \/ ListenAndServeTLS
  \/ HandleEvent \/ Relist
  \/ PreStop \/ Shutdown \/ Crash
  \/ \E n \in Key :
       \/ CreatePod(n) \/ StartSidecar(n) \/ DeletePod(n)
       \/ \E ip \in FreeIP : AssignIP(n, ip) \/ MoveSandbox(n, ip)

Spec == Init /\ [][Next]_vars

(* The Deployment starts the controller again, its goroutines run, and the  *)
(* kubelet gives addresses and starts sidecars that can start.  Nobody has  *)
(* to create or delete pods, and nothing has to fail.                       *)
Fairness ==
  /\ WF_vars(LoadOrGenerateCA) /\ WF_vars(loadCA)
  /\ WF_vars(RegisterWebhook) /\ WF_vars(StartWatcher) /\ WF_vars(ListenAndServeTLS)
  /\ WF_vars(HandleEvent) /\ WF_vars(Shutdown /\ ctl.stop)
  /\ \A n \in Key : /\ WF_vars(\E ip \in FreeIP : AssignIP(n, ip))
                     /\ WF_vars(StartSidecar(n))
FairSpec == Spec /\ Fairness

-----------------------------------------------------------------------------
(* Properties.                                                              *)

Live(n) == pod[n] # Absent
Meshed(n) == Live(n) /\ pod[n].injected
Started(n) == Meshed(n) /\ pod[n].sidecar # NoCert

(* The controller ends, its watch broke or a call failed.                   *)
Disturbed == ~Up \/ relists > 0 \/ failures > 0

(* The first pod of its name, in any namespace.                             *)
NameUnused(n) == \A m \in Key \ {n} : NameOf[m] = NameOf[n] => incs[m] = 0
OnlyOne(n) == incs[n] = 1 /\ NameUnused(n)

(* A sidecar runs with a certificate for the address of its own pod, which  *)
(* the proxies that dial it verify, as long as its pod is the only one ever *)
(* created under its name, here or in another namespace, and no sandbox was *)
(* moved.  Without these conditions it need not: a secret is never updated, *)
(* and pods of one name share the one in the default namespace.             *)
OwnCert ==
  \A n \in Key :
    Started(n) /\ OnlyOne(n) /\ moves = 0 => pod[n].sidecar.ip = pod[n].ip

(* However often the controller ends and starts, every certificate in the   *)
(* cluster, and the trust in the webhook, goes back to the one stored CA:   *)
(* no two sidecars are ever unable to verify each other.                    *)
AllFromStoredCA ==
  /\ \A k \in DOMAIN secrets : secrets[k].ca = caSecret
  /\ \A n \in Key : Started(n) => pod[n].sidecar.ca = caSecret
  /\ webhook \in {0, caSecret}

(* An injected pod of the default namespace that the informer knows before  *)
(* it has an address has a secret to start its sidecar from in the end,     *)
(* after any number of starts of the controller: as long as this one is not *)
(* disturbed, since nothing is tried again.  (Of a name used before it may  *)
(* be the old secret: that is OwnCert's matter.)                            *)
KnownEarly(n) ==
  Meshed(n) /\ cache[n] # Absent /\ View(pod[n]).inc = cache[n].inc /\ cache[n].ip = NoIP
WatchedPodGetsCert ==
  \A n \in {m \in Key : NsOf[m] = Default} :
    KnownEarly(n) ~> Started(n) \/ ~Live(n) \/ Disturbed

(* "when a pod gets an IP, then it will create the certs/secret": every     *)
(* injected pod that stays gets a certificate, and its sidecar starts.      *)
EveryPodGetsCert ==
  \A n \in Key : Meshed(n) ~> Started(n) \/ ~Live(n)

(* The secret of a pod of the default namespace that is deleted while the   *)
(* informer knows it goes too, also one that an earlier controller made or  *)
(* that a pod of the same name elsewhere got, as long as this controller is *)
(* not disturbed.                                                           *)
SecretsCollected ==
  \A n \in {m \in Key : NsOf[m] = Default} :
    ~Live(n) /\ cache[n] # Absent
      ~> Live(n) \/ SecretOf(Default, n) \notin DOMAIN secrets \/ Disturbed

-----------------------------------------------------------------------------
(* The inductive strengthening of AllFromStoredCA: a controller that goes   *)
(* on to register has the stored CA, whether it stored it or was given it.  *)
HasCA == ctl.pc \in {"ca", "register", "running"} => ctl.ca # 0
HasStoredCA == ctl.pc \in {"register", "running"} => ctl.ca = caSecret
CAInv == HasCA /\ HasStoredCA /\ AllFromStoredCA

(* The inductive strengthening of OwnCert: of the first pod of a name, as   *)
(* long as no sandbox is moved, nobody has heard another address than its   *)
(* own, neither the watch nor the secret; and of a name that was never used *)
(* nobody has heard at all.                                                 *)
First(n) ==
  moves = 0 /\ NameUnused(n) /\ (incs[n] = 0 \/ (incs[n] = 1 /\ Live(n)))
Address(n) == IF Live(n) THEN pod[n].ip ELSE NoIP
Tells(i) == events[i].type \in {"ADDED", "MODIFIED"}
Announced == \A i \in DOMAIN events : Tells(i) => incs[events[i].key] # 0
Heard(n) ==
  \A i \in DOMAIN events :
    Tells(i) /\ events[i].key = n => events[i].obj.ip \in {NoIP, Address(n)}
Holds(n) ==
  /\ \A ns \in Namespace :
       SecretOf(ns, n) \in DOMAIN secrets => secrets[SecretOf(ns, n)].ip = Address(n)
  /\ Started(n) => pod[n].sidecar.ip = Address(n)
OwnInv ==
  /\ Announced
  /\ \A n \in Key : /\ incs[n] = 0 => ~Live(n)
                    /\ First(n) => Heard(n) /\ Holds(n)
=============================================================================
