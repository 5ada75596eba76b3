------------------------------ MODULE RingStore ------------------------------
(***************************************************************************)
(* What the ring ConfigMap promises to the Swift services that mount it:   *)
(* rings are published as a whole and only ever gain devices, and rings    *)
(* that a user has provided are left alone.  SwiftRing implements this     *)
(* with a Job whose pods fetch, change and push the ConfigMap.             *)
(***************************************************************************)
CONSTANTS Ring, Device

VARIABLES
    owner,      \* who has made the rings: "nobody", "user" or "operator"
    rings       \* the devices of each ring

Init ==
    /\ owner \in {"nobody", "user"}
    /\ rings = [r \in Ring |-> {}]

(* One atomic update of all rings. *)
Publish ==
    /\ owner # "user"
    /\ owner' = "operator"
    /\ rings' \in [Ring -> SUBSET Device]
    /\ \A r \in Ring : rings[r] \subseteq rings'[r]

Spec == Init /\ [][Publish]_<<owner, rings>>
=============================================================================
