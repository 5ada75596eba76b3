---------------------------- MODULE MCSwiftRing ----------------------------
(* Instances of SwiftRing for TLC. *)
EXTENDS SwiftRing

CONSTANTS d1, d2, n1, n2, p1, p2, account, object
=============================================================================
