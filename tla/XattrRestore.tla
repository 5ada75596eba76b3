---------------------------- MODULE XattrRestore ----------------------------
(***************************************************************************)
(* The init container of a storage pod (xattr-restore.sh, added by         *)
(* StatefulSet in internal/swiftstorage/statefulset.go) on the volume that *)
(* outlives the pod: it re-applies the extended attributes that a backup   *)
(* hook has dumped, before any Swift service may quarantine files without. *)
(*                                                                         *)
(* A file is one <timestamp>.data: its name is never used twice.  Hook,    *)
(* snapshot and restore of the volume are Velero's (docs/                  *)
(* backup-restore-xattrs.md); the copy of a volume has no attributes.      *)
(***************************************************************************)
EXTENDS Integers

CONSTANTS
    Files,          \* object data files
    None,
    MaxRestarts,    \* bound: pod restarts and kills of the init container
    MaxBackups      \* bound: runs of the backup hook

ASSUME XattrAssumption ==
    /\ MaxRestarts \in Nat /\ MaxBackups \in Nat
    /\ \A s \in SUBSET Files : s # None

VARIABLES
    vol,        \* files, those with attributes, dump, report, quarantine
    unused,     \* file names not yet given to an object
    backup,     \* the copy of the volume, without attributes
    hooked,     \* the hook has run and the snapshot is next
    source,     \* the copy that the volume was created from, if any
    pc,         \* the pod: a line of the script, or its services run
    restarts, backups

vars == <<vol, unused, backup, hooked, source, pc, restarts, backups>>

Reports == {None} \cup SUBSET Files     \* a file with a list of names, or none
Volume  == [data : SUBSET Files, xattr : SUBSET Files, quar : SUBSET Files,
            dump : Reports, missing : Reports]
Lines   == {"setfattr", "validate", "clean", "rename"}
Points  == Lines \cup {"check", "running"}
NoVol   == [data |-> {}, xattr |-> {}, quar |-> {}, dump |-> None, missing |-> None]

(* The volume, its copies and the pod have their types: attributes belong  *)
(* to files that are there, no file is both served and quarantined, and    *)
(* the lines behind the test for the dump find one.                        *)
TypeOK ==
    /\ vol \in Volume /\ vol.xattr \subseteq vol.data /\ vol.data \cap vol.quar = {}
    /\ unused \subseteq Files /\ unused \cap vol.data = {}
    /\ backup \in {None} \cup Volume /\ source \in {None} \cup Volume
    /\ hooked \in BOOLEAN
    /\ pc \in Points /\ (pc \in Lines => vol.dump # None)
    /\ restarts \in 0..MaxRestarts
    /\ backups \in 0..MaxBackups

----------------------------------------------------------------------------
(* Swift services, once the init container is done. *)
PutObject(f) ==
    /\ pc = "running"
    /\ f \in unused
    /\ unused' = unused \ {f}
    /\ vol' = [vol EXCEPT !.data = @ \cup {f}, !.xattr = @ \cup {f}]
    /\ UNCHANGED <<backup, hooked, source, pc, restarts, backups>>

DeleteObject(f) ==
    /\ pc = "running"
    /\ f \in vol.xattr
    /\ vol' = [vol EXCEPT !.data = @ \ {f}, !.xattr = @ \ {f}]
    /\ UNCHANGED <<unused, backup, hooked, source, pc, restarts, backups>>

(* object-auditor: a file without metadata is quarantined. *)
Audit(f) ==
    /\ pc = "running"
    /\ f \in vol.data \ vol.xattr
    /\ vol' = [vol EXCEPT !.data = @ \ {f}, !.quar = @ \cup {f}]
    /\ UNCHANGED <<unused, backup, hooked, source, pc, restarts, backups>>

(* The backup hook in the object-server container: rm -f, then getfattr    *)
(* into the dump; the snapshot follows unless it failed half-way (onError: *)
(* Fail).                                                                  *)
Hook ==
    /\ pc = "running"
    /\ backups < MaxBackups /\ backups' = backups + 1
    /\ \/ vol' = [vol EXCEPT !.dump = vol.xattr] /\ hooked' = TRUE
       \/ /\ \E part \in {None} \cup SUBSET vol.xattr : vol' = [vol EXCEPT !.dump = part]
          /\ hooked' = FALSE
    /\ UNCHANGED <<unused, backup, source, pc, restarts>>

(* Whatever has become of the pod since: when its init container has run,  *)
(* the dump is no longer there.                                            *)
Snapshot ==
    /\ hooked
    /\ backup' = [vol EXCEPT !.xattr = {}]
    /\ hooked' = FALSE
    /\ UNCHANGED <<vol, unused, source, pc, restarts, backups>>

(* The volume is created from the backup, the operator starts a new pod. *)
RestoreVolume ==
    /\ backup # None /\ source = None
    /\ vol' = backup /\ source' = backup
    /\ hooked' = FALSE
    /\ pc' = "check"
    /\ UNCHANGED <<unused, backup, restarts, backups>>

(* A pod that is stopped, or an init container that is killed, starts the  *)
(* script from its first line; the killed line has done a part.            *)
RestartPod ==
    /\ restarts < MaxRestarts /\ restarts' = restarts + 1
    /\ CASE pc = "setfattr" -> \E part \in SUBSET (vol.dump \cap vol.data) :
                                  vol' = [vol EXCEPT !.xattr = @ \cup part]
         [] pc = "validate" -> \E part \in SUBSET (vol.data \ vol.xattr) :
                                  vol' = [vol EXCEPT !.missing = part]
         [] OTHER           -> UNCHANGED vol
    /\ pc' = "check"
    /\ UNCHANGED <<unused, backup, hooked, source, backups>>

----------------------------------------------------------------------------
(* xattr-restore.sh *)
Script(from, to, v) ==
    /\ pc = from
    /\ pc' = to /\ vol' = v
    /\ UNCHANGED <<unused, backup, hooked, source, restarts, backups>>

(* Mutant of CheckDump: the test for the dump is missing. *)
CheckNothing == Script("check", "setfattr", vol)

CheckDump == Script("check", IF vol.dump = None THEN "running" ELSE "setfattr", vol)

(* Mutant of Setfattr: without set -e, the exit status is ignored. *)
SetfattrUnchecked ==
    /\ pc = "setfattr"
    /\ \E part \in SUBSET (vol.dump \cap vol.data) :
        /\ vol.dump \subseteq vol.data => part = vol.dump
        /\ Script("setfattr", "validate", [vol EXCEPT !.xattr = @ \cup part])

(* setfattr --restore applies the dump; it fails when a named file is not  *)
(* there, and set -e then ends the container, which is started again.      *)
Setfattr ==
    /\ pc = "setfattr"
    /\ \E part \in SUBSET (vol.dump \cap vol.data) :
        /\ vol.dump \subseteq vol.data => part = vol.dump
        /\ Script("setfattr", IF vol.dump \subseteq vol.data THEN "validate" ELSE "check",
                  [vol EXCEPT !.xattr = @ \cup part])

(* Mutant of Validate: an older report is kept. *)
ValidateOnce ==
    Script("validate", "clean",
           [vol EXCEPT !.missing = IF @ = None THEN vol.data \ vol.xattr ELSE @])

(* Mutant of Validate: files without attributes end the container. *)
ValidateStrict ==
    Script("validate", IF vol.data = vol.xattr THEN "clean" ELSE "check",
           [vol EXCEPT !.missing = vol.data \ vol.xattr])

(* The report is written from nothing, and files in it do not stop the pod. *)
Validate == Script("validate", "clean", [vol EXCEPT !.missing = vol.data \ vol.xattr])

(* An empty report is removed. *)
Clean == Script("clean", "rename", [vol EXCEPT !.missing = IF @ = {} THEN None ELSE @])

(* The dump becomes .applied. *)
Rename == Script("rename", "running", [vol EXCEPT !.dump = None])

----------------------------------------------------------------------------
Init ==
    /\ vol = NoVol /\ unused = Files
    /\ backup = None /\ hooked = FALSE /\ source = None
    /\ pc = "check"
    /\ restarts = 0 /\ backups = 0

InitContainer == CheckDump \/ Setfattr \/ Validate \/ Clean \/ Rename

Services == \E f \in Files : PutObject(f) \/ DeleteObject(f) \/ Audit(f)

Next == InitContainer \/ Services \/ Hook \/ Snapshot \/ RestoreVolume \/ RestartPod

Spec == Init /\ [][Next]_vars

(* The kubelet runs the init container, again after each failure. *)
FairSpec == Spec /\ WF_vars(InitContainer)

----------------------------------------------------------------------------
(* The volume was restored from a copy that holds a dump.  A pod that is   *)
(* restarted between hook and snapshot renames the dump, and the snapshot  *)
(* is then taken without.                                                  *)
RestoredWithDump == source # None /\ source.dump # None

(* "This prevents the object-auditor from quarantining data": a file in    *)
(* the dump of the restored snapshot is never quarantined, wherever the    *)
(* init container was killed on the way, and after later backups.          *)
DumpedNeverQuarantined ==
    RestoredWithDump => vol.quar \cap (source.dump \cap source.data) = {}

(* "Logs any files missing xattrs to .swift-xattrs.missing": on a volume   *)
(* that came with its dump, or was never restored, files without           *)
(* attributes are served only after they were reported, over restarts and  *)
(* later backups.                                                          *)
MissingReported ==
    (source = None \/ source.dump # None) /\ pc = "running" /\ vol.data # vol.xattr =>
        vol.missing # None /\ vol.data \ vol.xattr \subseteq vol.missing

(* A pod whose dump names only files that are still there gets through its *)
(* init container in the end, however often that is killed and whatever    *)
(* attributes are missing, unless the volume is replaced meanwhile.        *)
StartsWithIntactDump ==
    \A s \in BOOLEAN :
        ((source = None) = s /\ (vol.dump = None \/ vol.dump \subseteq vol.data))
            ~> ((source = None) # s \/ pc = "running")
=============================================================================
