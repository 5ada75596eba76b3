------------------------------ MODULE RingTool ------------------------------
(***************************************************************************)
(* The functions of templates/swiftring/bin/swift-ring-tool, as operators  *)
(* on the working directory of the rebalance pod (/etc/swift, an emptyDir  *)
(* that outlives a container restart).                                     *)
(*                                                                         *)
(* A directory holds one <ring>.builder and one <ring>.ring.gz per ring:   *)
(*   made  : rings whose .builder exists      b  : its devices             *)
(*   wrote : rings whose .ring.gz is nonempty gz : its devices             *)
(* A device entry keeps which host/disk it stands for, the attribute it    *)
(* was added with (weight and node name), and whether ip and meta are      *)
(* swapped.  Partition placement is not modelled.                          *)
(***************************************************************************)
CONSTANTS
    Devices,    \* the host/disk pairs that may be listed
    PVs,        \* those on a PersistentVolume: disk "pv", node name in meta
    Attrs,      \* weights and node names
    Rings       \* account, container, object

ASSUME RingToolAssumption == PVs \subseteq Devices

Line  == [dev : Devices, attr : Attrs]
Entry == [dev : Devices, attr : Attrs, swapped : BOOLEAN]
Files == [made  : SUBSET Rings, b  : [Rings -> SUBSET Entry],
          wrote : SUBSET Rings, gz : [Rings -> SUBSET Entry]]

EmptyDir == [made  |-> {}, b  |-> [r \in Rings |-> {}],
             wrote |-> {}, gz |-> [r \in Rings |-> {}]]

Names(entries) == {e.dev : e \in entries}

----------------------------------------------------------------------------
(* get, HTTP 200: the tar archive, when the ConfigMap has one, replaces    *)
(* the builders; the .ring.gz keys always replace the ring files.          *)
Untar(fs, stored) ==
    [made  |-> fs.made \cup stored.made,
     b     |-> [r \in Rings |-> IF r \in stored.made THEN stored.b[r] ELSE fs.b[r]],
     wrote |-> stored.wrote,
     gz    |-> stored.gz]

(* Mutant of ForeignRing: the check for rings without builders is missing. *)
NeverForeign(fs) == FALSE

(* init: a ring file without its builder is somebody else's ring. *)
ForeignRing(fs) == \E r \in Rings : r \notin fs.made /\ r \in fs.wrote

CreateBuilders(fs, rings) == [fs EXCEPT !.made = @ \cup rings]

(* swift-ring-builder search --ip $HOST --device $DEVICE_NAME *)
Search(entries, d) == \E e \in entries : e.dev = d /\ ~e.swapped

(* Mutant of Added: a device is added without searching for it first. *)
AddedUnchecked(entries, lines) ==
    {[dev |-> l.dev, attr |-> l.attr, swapped |-> FALSE] : l \in lines}

Added(entries, lines) ==
    {[dev |-> l.dev, attr |-> l.attr, swapped |-> FALSE] :
        l \in {m \in lines : ~Search(entries, m.dev)}}

(* update: only lines[r] have been processed for ring r. *)
Update(fs, lines) ==
    [fs EXCEPT !.b = [r \in Rings |-> @[r] \cup Added(@[r], lines[r])]]

Metaswap(entries) ==
    {[e EXCEPT !.swapped = IF e.dev \in PVs THEN ~@ ELSE @] : e \in entries}

(* rebalance of the rings in done: swap, rebalance, swap back, write_ring. *)
Rebalance(fs, done) ==
    LET swappedBack(r) == Metaswap(Metaswap(fs.b[r])) IN
    [made  |-> fs.made,
     b     |-> [r \in Rings |-> IF r \in done THEN swappedBack(r) ELSE fs.b[r]],
     wrote |-> fs.wrote \cup done,
     gz    |-> [r \in Rings |-> IF r \in done THEN swappedBack(r) ELSE fs.gz[r]]]

(* rebalance stopped between the two metaswaps of ring r. *)
HalfSwapped(fs, r) == [fs EXCEPT !.b[r] = Metaswap(@)]
=============================================================================
