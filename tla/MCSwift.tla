------------------------------ MODULE MCSwift ------------------------------
(* Instances of Swift for TLC. *)
EXTENDS Swift, TLC

CONSTANTS h1, h2, h3, t1, v1, v2

(* No action tells two hash values apart. *)
Perms == Permutations(Hashes)
=============================================================================
