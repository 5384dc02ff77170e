------------------------------ MODULE MCWebhook ------------------------------
(* A pod of every kind the webhook tells apart: one named by its owner, one   *)
(* of a Job (a template, with a finalizer and an init container), one         *)
(* with a status of its owner's making, one that brings the mark, and one of  *)
(* the system.  (Edits make a pod decline.)                                   *)
EXTENDS Webhook

Plain == [name |-> "", ns |-> "default", ann |-> [inject |-> "", status |-> ""],
          init |-> <<>>, share |-> FALSE, finalizer |-> FALSE, deleting |-> FALSE]

MCManifest ==
  [n \in Pod |->
     CASE n = "named"    -> [Plain EXCEPT !.name = n]
       [] n = "job"      -> [Plain EXCEPT !.init = <<[name |-> "init"]>>,
                                          !.ann.inject = "yes", !.finalizer = TRUE]
       [] n = "foreign"  -> [Plain EXCEPT !.name = n, !.ann.status = "other"]
       [] n = "marked"   -> [Plain EXCEPT !.name = n, !.ann.status = "injected"]
       [] n = "system"   -> [Plain EXCEPT !.name = n, !.ns = "kube-system"]]

MCEdit == [inject : {"no", "yes"}, status : {""}]
          \cup {[inject |-> "", status |-> "injected"]}
=============================================================================
