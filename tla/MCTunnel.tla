------------------------------ MODULE MCTunnel ------------------------------
(* Small tunnels: the constants are given their values in the cfg files.    *)
EXTENDS Tunnel
=============================================================================
