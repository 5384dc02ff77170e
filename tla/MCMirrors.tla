----------------------------- MODULE MCMirrors -----------------------------
(* Small nodes for Mirrors.  Addresses have 4 bits: 8 .. 15 is the pod      *)
(* network 8/1, 1 is the loopback address.                                  *)
EXTENDS Mirrors

\* Processes, namespaces and pids: a pod with one application, and a second
\* pod on the same node whose proxy has another pid in its own namespace.
MCOneNs == {"a"}
MCTwoNs == {"a", "b"}
MCOneProc == {"app_a", "proxy_a"}
MCTwoProc == {"app_a", "proxy_a", "app_b", "proxy_b"}

MCNsOf == [p \in Proc |-> IF p \in {"app_a", "proxy_a"} THEN "a" ELSE "b"]
\* The application of the first pod has unshared its pid namespace.
MCNumbers == [p \in Proc |-> CASE p = "app_a"   -> <<101, 1>>
                               [] p = "app_b"   -> <<102, 1>>
                               [] p = "proxy_a" -> <<103, 7>>
                               [] p = "proxy_b" -> <<104, 9>>]
MCForChildren == [p \in Proc |-> IF p = "app_a" THEN 2 ELSE 1]
MCProxy == [n \in NetNs |-> IF n = "a" THEN "proxy_a" ELSE "proxy_b"]

\* Two services inside the pod network, the tunnel port of one of them, and
\* the proxy's own listener, which is outside.
EP(a, p) == [addr |-> a, port |-> p]
MCProxyEP == EP(1, 18000)
MCPods == {EP(9, 80), EP(10, 80)}
MCDirect == MCPods \cup {EP(9, 18443), MCProxyEP}
=============================================================================
