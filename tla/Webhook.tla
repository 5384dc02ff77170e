------------------------------- MODULE Webhook -------------------------------
(***************************************************************************)
(* The injecting webhook (controller/cmd/webhook.go, sidecars.go): what it *)
(* answers when pods are created and updated, and what becomes of the pods *)
(* as the controller that serves it comes and goes.                        *)
(*                                                                         *)
(* External, from how webhookconfig.go registers the webhook: the API      *)
(* server asks it about every Create and Update of a pod in a labelled     *)
(* namespace, refuses the request when nobody answers (FailurePolicy Fail) *)
(* or the patch does not apply, never asks about a Delete, and lets no     *)
(* update change the containers of a pod.  It gives a name to a pod made   *)
(* from a template only after admission.                                   *)
(***************************************************************************)
EXTENDS Naturals, Sequences

CONSTANTS
  Pod,           \* pods that somebody wants created, once each
  Manifest,      \* [Pod -> Object]: as they are sent to the API server
  Labelled,      \* namespaces with the label sidecar-injection=enabled
  Edit,          \* annotations an owner may give to an existing pod
  EnvCA,         \* whether the Deployment of the controller puts the stored
                 \* CA into its environment: the values it may have
  MaxEdits,      \* bound: edits of annotations
  MaxEnds        \* bound: ends of the controller; it is started again

ignoredNamespaces == {"kube-system", "kube-public"}

(* The two annotations: inject is "no" for any of n, not, false, off.       *)
Annotations == [inject : {"", "no", "yes"}, status : {"", "injected", "other"}]

(* A container is known by its name; the proxy by the secret its            *)
(* environment refers to ("-smesh" left out).                               *)
Container == [name : {"init"}] \cup [name : {"smesh-proxy"}, secret : Pod \cup {""}]
Object ==
  [name      : Pod \cup {""},      \* "" while it has only a generateName
   ns        : STRING,
   ann       : Annotations,
   init      : Seq(Container),     \* spec.initContainers
   share     : BOOLEAN,            \* spec.shareProcessNamespace
   finalizer : BOOLEAN,            \* somebody must release it before it goes
   deleting  : BOOLEAN]

ASSUME WebhookAssumption ==
  /\ Manifest \in [Pod -> Object]
  /\ \A n \in Pod : Manifest[n].name \in {n, ""} /\ ~Manifest[n].deleting
  /\ Edit \subseteq Annotations
  /\ EnvCA \subseteq BOOLEAN
  /\ MaxEdits \in Nat /\ MaxEnds \in Nat

VARIABLES
  pod,         \* [Pod -> New | Object | Gone]
  selfMarked,  \* history: pods that an owner, by the manifest or by an edit,
               \* gave the mark they did not have
  hook,        \* the MutatingWebhookConfiguration exists
  env,         \* the CA is in the environment of the controller
  stored,      \* the CA is in the secret "watcher"
  ctl,         \* the controller: "register" with a CA, "up" (registered), ...
  edits, ends  \* what has happened so far

vars == <<pod, selfMarked, hook, env, stored, ctl, edits, ends>>

New  == [st |-> "new"]
Gone == [st |-> "gone"]
Stored(n) == pod[n] \notin {New, Gone}

TypeOK ==
  /\ pod \in [Pod -> Object \cup {New, Gone}]
  /\ selfMarked \subseteq Pod
  /\ hook \in BOOLEAN /\ env \in BOOLEAN /\ stored \in BOOLEAN
  /\ ctl \in {"down", "fatal", "register", "up", "serving"}
  /\ edits \in 0 .. MaxEdits
  /\ ends \in 0 .. MaxEnds

Init ==
  /\ pod = [n \in Pod |-> New]
  /\ selfMarked = {}
  /\ hook = FALSE
  /\ env \in EnvCA
  /\ stored = FALSE
  /\ ctl = "down"
  /\ edits = 0
  /\ ends = 0

-----------------------------------------------------------------------------
(* The webhook server.  What it makes of an object is a set: of the one     *)
(* object the API server goes on with, or empty when the patch does not     *)
(* apply.                                                                   *)

(* Mutant: the status annotation is not looked at.                          *)
MutMutationRequiredAlways(o) ==
  o.ns \notin ignoredNamespaces /\ o.ann.inject # "no"

mutationRequired(o) ==
  /\ o.ns \notin ignoredNamespaces
  /\ o.ann.status # "injected"
  /\ o.ann.inject # "no"

smeshproxy(podname) == [name |-> "smesh-proxy", secret |-> podname]

(* Mutant: the secret is named after the namespace.                         *)
MutAddInitContainerNamespace(o) == [o EXCEPT !.init = Append(@, smeshproxy(o.ns))]

addInitContainer(o) == [o EXCEPT !.init = Append(@, smeshproxy(o.name))]

(* Without a status the annotations become a map of the status alone: "add" *)
(* replaces what is there.  With one the path of the "replace" has the      *)
(* slash of the key unescaped and leads nowhere: the patch does not apply.  *)
updateAnnotation(o) ==
  IF o.ann.status = ""
    THEN {[o EXCEPT !.ann = [inject |-> "", status |-> "injected"]]}
    ELSE {}

(* Mutant: the process namespace is left alone.                             *)
MutCreatePatchNoShare(o) == updateAnnotation(addInitContainer(o))

createPatch(o) ==
  {[p EXCEPT !.share = TRUE] : p \in updateAnnotation(addInitContainer(o))}

mutate(o) == IF mutationRequired(o) THEN createPatch(o) ELSE {o}

-----------------------------------------------------------------------------
(* The API server.                                                          *)

Admission(o) ==
  CASE ~hook \/ o.ns \notin Labelled -> {o}
    [] hook /\ o.ns \in Labelled /\ ctl = "serving" -> mutate(o)
    [] hook /\ o.ns \in Labelled /\ ctl # "serving" -> {}

Mark(ann) == ann.status = "injected"

Create(n) ==
  /\ pod[n] = New
  /\ \E o \in Admission(Manifest[n]) :
       pod' = [pod EXCEPT ![n] = [o EXCEPT !.name = n]]
  /\ selfMarked' = IF Mark(Manifest[n].ann) THEN selfMarked \cup {n} ELSE selfMarked
  /\ UNCHANGED <<hook, env, stored, ctl, edits, ends>>

(* An update to o that is admitted and leaves the containers alone.         *)
Updates(n, o) ==
  {q \in Admission(o) : q.init = pod[n].init /\ q.share = pod[n].share}

Annotate(n, a) ==
  /\ Stored(n)
  /\ edits < MaxEdits
  /\ edits' = edits + 1
  /\ \E q \in Updates(n, [pod[n] EXCEPT !.ann = a]) : pod' = [pod EXCEPT ![n] = q]
  /\ selfMarked' = IF Mark(a) /\ ~Mark(pod[n].ann) THEN selfMarked \cup {n}
                                                  ELSE selfMarked
  /\ UNCHANGED <<hook, env, stored, ctl, ends>>

(* A pod with a finalizer is only marked, ...                               *)
Delete(n) ==
  /\ Stored(n)
  /\ ~pod[n].deleting
  /\ pod' = [pod EXCEPT ![n] = IF @.finalizer THEN [@ EXCEPT !.deleting = TRUE]
                                              ELSE Gone]
  /\ UNCHANGED <<selfMarked, hook, env, stored, ctl, edits, ends>>

(* ... and goes when an update has removed the finalizer.                   *)
Release(n) ==
  /\ Stored(n)
  /\ pod[n].deleting
  /\ Updates(n, [pod[n] EXCEPT !.finalizer = FALSE]) # {}
  /\ pod' = [pod EXCEPT ![n] = Gone]
  /\ UNCHANGED <<selfMarked, hook, env, stored, ctl, edits, ends>>

-----------------------------------------------------------------------------
(* The controller, as far as the webhook goes (Controller has the rest).    *)

(* Mutant: a CA that is already stored is an error also when it was found   *)
(* in the environment.                                                      *)
MutLoadCAAlways ==
  /\ ctl \in {"down", "fatal"}
  /\ ctl' = IF stored THEN "fatal" ELSE "register"
  /\ stored' = TRUE
  /\ UNCHANGED <<pod, selfMarked, hook, env, edits, ends>>

(* A start: getEnvCerts finds the stored CA, or loadCA stores a generated   *)
(* one, which is fatal if there is one already: so is every later start.    *)
LoadCA ==
  /\ ctl \in {"down", "fatal"}
  /\ ctl' = IF env \/ ~stored THEN "register" ELSE "fatal"
  /\ stored' = TRUE
  /\ UNCHANGED <<pod, selfMarked, hook, env, edits, ends>>

createOrUpdateMutatingWebhookConfiguration ==
  /\ ctl = "register"
  /\ ctl' = "up"
  /\ hook' = TRUE
  /\ UNCHANGED <<pod, selfMarked, env, stored, edits, ends>>

ListenAndServeTLS ==
  /\ ctl = "up"
  /\ ctl' = "serving"
  /\ UNCHANGED <<pod, selfMarked, hook, env, stored, edits, ends>>

Running == ctl \in {"register", "up", "serving"}

(* preStop.sh removes the registration while the server still answers; the  *)
(* shutdown that follows removes it again.  A crash leaves it.              *)
PreStop ==
  /\ Running /\ hook
  /\ ends < MaxEnds
  /\ hook' = FALSE
  /\ UNCHANGED <<pod, selfMarked, env, stored, ctl, edits, ends>>

Ends ==
  /\ Running
  /\ ends < MaxEnds
  /\ ends' = ends + 1
  /\ ctl' = "down"
  /\ hook' \in {hook, FALSE}
  /\ UNCHANGED <<pod, selfMarked, env, stored, edits>>

Next ==
  \/ LoadCA \/ createOrUpdateMutatingWebhookConfiguration \/ ListenAndServeTLS
  \/ PreStop \/ Ends
  \/ \E n \in Pod : Create(n) \/ Delete(n) \/ Release(n)
  \/ \E n \in Pod, a \in Edit : Annotate(n, a)

Spec == Init /\ [][Next]_vars

(* The Deployment starts the controller again and its goroutines run; who   *)
(* wants a pod, and who must release one, tries again until it succeeds.    *)
Fairness ==
  /\ WF_vars(LoadCA)
  /\ WF_vars(createOrUpdateMutatingWebhookConfiguration)
  /\ WF_vars(ListenAndServeTLS)
  /\ WF_vars(~hook /\ Ends)
  /\ \A n \in Pod : WF_vars(Create(n)) /\ WF_vars(Release(n))
FairSpec == Spec /\ Fairness

-----------------------------------------------------------------------------
(* Properties.                                                              *)

Marked(n) == Stored(n) /\ Mark(pod[n].ann)
HasProxy(o) == \E i \in DOMAIN o.init : o.init[i].name = "smesh-proxy"

(* The mark that keeps the webhook from injecting is not a lie of the       *)
(* webhook's: whatever is created, edited or updated while it comes and     *)
(* goes, a pod that has the mark from anybody but its own owner has the     *)
(* proxy and shares its process namespace with it (without which the pid of *)
(* the proxy means nothing to cg_connect4).  An owner who writes the mark   *)
(* into a manifest, or into a pod that was not injected, is believed: that  *)
(* pod is admitted as it is.                                                *)
MarkedIsInjected ==
  \A n \in Pod \ selfMarked : Marked(n) => HasProxy(pod[n]) /\ pod[n].share

(* The registration is left and nobody will ever answer for it: a           *)
(* controller that is not given the CA it stored once dies at every start.  *)
(* (manifests/controller.yaml and controller/deploy/deployment.yaml do not  *)
(* give it.)                                                                *)
Abandoned == ~env /\ hook /\ ctl = "fatal"

(* A pod is admitted in the end, however often the controller is down,      *)
(* unless the webhook is abandoned or the pod brings a status of its own    *)
(* making; and it is never abandoned if its CA is in the environment.       *)
EveryPodAdmitted ==
  \A n \in Pod :
    Manifest[n].ann.status # "other" => <>(pod[n] # New \/ Abandoned)

(* A marked pod can be let go: the update that removes its finalizer is not *)
(* taken for one more pod to inject (and then refused, since it would       *)
(* change the containers), as long as it keeps its mark and the webhook is  *)
(* not abandoned.                                                           *)
MarkedPodsGo ==
  \A n \in Pod :
    (Marked(n) /\ pod[n].deleting)
      ~> (pod[n] = Gone \/ (Stored(n) /\ ~Marked(n)) \/ Abandoned)

(* "Pod should start and traffic will now be encrytped with the             *)
(* certificates": the proxy waits for the secret that the controller makes  *)
(* for its pod.                                                             *)
RefersToOwnSecret ==
  \A n \in Pod \ selfMarked : Marked(n) =>
    \E i \in DOMAIN pod[n].init : pod[n].init[i] = smeshproxy(n)
=============================================================================
