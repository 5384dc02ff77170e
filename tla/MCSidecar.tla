----------------------------- MODULE MCSidecar -----------------------------
(* Three pods, set up in four ways: "a" has its certificates in files, "b"  *)
(* in its environment, "bad" has unusable ones; or a has none; or a has an  *)
(* override that takes it to bad, with another in the environment of bad;   *)
(* or a is a dtunnel.                                                       *)
EXTENDS Sidecar

Default == [EnvCerts |-> "nil", FSCerts |-> "nil", overrideAddress |-> "",
            KUBE_NODE_NAME |-> "", Proxy |-> FALSE]

MCConfig ==
  [p \in {"a", "b", "bad"} |->
     CASE p = "a"   -> [Default EXCEPT !.FSCerts = "good"]
       [] p = "b"   -> [Default EXCEPT !.EnvCerts = "good"]
       [] p = "bad" -> [Default EXCEPT !.EnvCerts = "bad", !.overrideAddress = "bad",
                                       !.KUBE_NODE_NAME = "b"]]

MCConfigs ==
  {MCConfig,
   [MCConfig EXCEPT !["a"].FSCerts = "nil"],
   [MCConfig EXCEPT !["a"].overrideAddress = "bad"],
   [MCConfig EXCEPT !["a"].Proxy = TRUE]}

(* Between which pods.                                                      *)
MCSrc == [c \in Conn |-> CASE c = 1 -> "a" [] c = 2 -> "bad" [] c = 3 -> "b"]
MCDst == [c \in Conn |-> CASE c = 1 -> "b" [] c = 2 -> "a" [] c = 3 -> "bad"]
=============================================================================
