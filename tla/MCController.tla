---------------------------- MODULE MCController ----------------------------
(* Small clusters for Controller: a pod "p" of the default namespace that   *)
(* may be made twice, and a pod of the same name in another namespace.      *)
EXTENDS Controller
MCNameOf == [n \in Key |-> "p"]
MCNsOf == [n \in Key |-> IF n = "other/p" THEN "other" ELSE Default]
MCInc == [n \in Key |-> IF n = "p" THEN 2 ELSE 1]
MCOnce == [n \in Key |-> 1]
=============================================================================
