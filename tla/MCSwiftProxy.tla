---------------------------- MODULE MCSwiftProxy ----------------------------
(* Instances of SwiftProxy for TLC. *)
EXTENDS SwiftProxy, TLC

CONSTANTS a1, a2, a3, t1, t2, p1, p2

(* No action tells two credentials or two replicas apart. *)
Perms == Permutations(ACs) \cup Permutations(Replicas)
=============================================================================
