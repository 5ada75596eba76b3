---------------------------- MODULE MCProxyConfig ----------------------------
(* Instances of ProxyConfig for TLC. *)
EXTENDS ProxyConfig

CONSTANTS p1, p2
=============================================================================
