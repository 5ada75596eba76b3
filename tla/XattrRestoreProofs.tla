------------------------- MODULE XattrRestoreProofs -------------------------
(***************************************************************************)
(* Theorems about XattrRestore, for any files and any number of restarts,  *)
(* kills and backups: types, and what holds after a restore from a         *)
(* snapshot with its dump: no dumped file is quarantined, and files        *)
(* without attributes are reported before they are served.                 *)
(***************************************************************************)
EXTENDS XattrRestore, TLAPS

(* Names are used once, on the volume and on its copy. *)
Separate(v) ==
    /\ v.data \cap v.quar = {}
    /\ unused \cap (v.data \cup v.quar) = {}

Copied == backup \in Volume /\ Separate(backup) /\ backup.xattr = {}

Names == Separate(vol) /\ (backup # None => Copied)

(* The files whose attributes the restored snapshot has in its dump. *)
Dumped == source.dump \cap source.data

(* They have their attributes again, or the dump that still has to be      *)
(* applied names them and no service runs yet.                             *)
Covered ==
    \/ Dumped \cap vol.data \subseteq vol.xattr
    \/ /\ pc \in {"check", "setfattr"} /\ vol.dump # None
       /\ Dumped \cap vol.data \subseteq vol.dump

Protected == RestoredWithDump => Dumped \cap vol.quar = {} /\ Covered

(* Files without attributes are in the report, or a dump is still there    *)
(* that makes the script write a new one before services run.              *)
Reported == vol.data # vol.xattr => /\ vol.missing # None
                                    /\ vol.data \ vol.xattr \subseteq vol.missing

Tracked == source = None \/ source.dump # None

ReportDue ==
    /\ pc = "clean" => vol.missing = vol.data \ vol.xattr
    /\ pc = "rename" => Reported
    /\ Tracked => Reported \/ (pc # "running" /\ vol.dump # None)

IInv == TypeOK /\ Names /\ Protected /\ ReportDue

----------------------------------------------------------------------------
(* No list of files is the missing list. *)
LEMMA ListNotNone == \A s \in SUBSET Files : s # None
BY XattrAssumption

(* A new volume. *)
LEMMA XattrInit == Init => IInv
<1> SUFFICES ASSUME Init PROVE IInv
  OBVIOUS
<1>1. TypeOK
  <2>1. NoVol \in Volume /\ NoVol.xattr = {} /\ NoVol.data = {} /\ NoVol.quar = {}
    BY DEF NoVol, Volume, Reports
  <2>2. 0 \in 0..MaxRestarts /\ 0 \in 0..MaxBackups
    BY XattrAssumption
  <2>. QED  BY <2>1, <2>2 DEF Init, TypeOK, Points, Lines
<1>2. Names /\ Protected /\ ReportDue
  BY DEF Init, Names, Copied, Separate, Protected, RestoredWithDump, ReportDue, Reported, Tracked, NoVol
<1>. QED  BY <1>1, <1>2 DEF IInv

(* What a step that only changes data, attributes and quarantine keeps. *)
LEMMA ServicesKeep ==
  ASSUME IInv, Services
  PROVE  IInv'
<1> USE DEF IInv
<1>1. PICK f \in Files : PutObject(f) \/ DeleteObject(f) \/ Audit(f)
  BY DEF Services
<1>2. pc = "running" /\ UNCHANGED <<backup, hooked, source, pc, restarts, backups>>
  BY <1>1 DEF PutObject, DeleteObject, Audit
<1>3. CASE PutObject(f)
  <2>1. /\ f \in unused /\ unused' = unused \ {f}
        /\ vol' \in Volume
        /\ vol'.data = vol.data \cup {f} /\ vol'.xattr = vol.xattr \cup {f}
        /\ vol'.quar = vol.quar /\ vol'.dump = vol.dump /\ vol'.missing = vol.missing
    BY <1>3 DEF PutObject, TypeOK, Volume
  <2>2. TypeOK'
    BY <1>2, <2>1 DEF TypeOK, Names, Copied, Separate
  <2>3. Names'
    BY <1>2, <2>1 DEF Names, Copied, Separate
  <2>5. Protected'
    BY <1>2, <2>1 DEF Protected, RestoredWithDump, Covered, Dumped, Names, Copied, Separate
  <2>6. ReportDue'
    BY <1>2, <2>1 DEF ReportDue, Reported, Tracked, TypeOK
  <2>. QED  BY <2>2, <2>3, <2>5, <2>6
<1>4. CASE DeleteObject(f)
  <2>1. /\ f \in vol.xattr /\ unused' = unused
        /\ vol' \in Volume
        /\ vol'.data = vol.data \ {f} /\ vol'.xattr = vol.xattr \ {f}
        /\ vol'.quar = vol.quar /\ vol'.dump = vol.dump /\ vol'.missing = vol.missing
    BY <1>4 DEF DeleteObject, TypeOK, Volume
  <2>2. TypeOK'
    BY <1>2, <2>1 DEF TypeOK, Names, Copied, Separate
  <2>3. Names'
    BY <1>2, <2>1 DEF Names, Copied, Separate
  <2>5. Protected'
    BY <1>2, <2>1 DEF Protected, RestoredWithDump, Covered, Dumped, Names, Copied, Separate
  <2>6. ReportDue'
    BY <1>2, <2>1 DEF ReportDue, Reported, Tracked, TypeOK
  <2>. QED  BY <2>2, <2>3, <2>5, <2>6
<1>5. CASE Audit(f)
  <2>1. /\ f \in vol.data \ vol.xattr /\ unused' = unused
        /\ vol' \in Volume
        /\ vol'.data = vol.data \ {f} /\ vol'.xattr = vol.xattr
        /\ vol'.quar = vol.quar \cup {f} /\ vol'.dump = vol.dump /\ vol'.missing = vol.missing
    BY <1>5 DEF Audit, TypeOK, Volume
  <2>2. TypeOK'
    BY <1>2, <2>1 DEF TypeOK, Names, Copied, Separate
  <2>3. Names'
    BY <1>2, <2>1 DEF Names, Copied, Separate
  <2>5. Protected'
    BY <1>2, <2>1 DEF Protected, RestoredWithDump, Covered, Dumped, Names, Copied, Separate
  <2>6. ReportDue'
    BY <1>2, <2>1 DEF ReportDue, Reported, Tracked, TypeOK
  <2>. QED  BY <2>2, <2>3, <2>5, <2>6
<1>. QED  BY <1>1, <1>3, <1>4, <1>5

(* Hook, snapshot and restore of the volume. *)
LEMMA BackupKeeps ==
  ASSUME IInv, Hook \/ Snapshot \/ RestoreVolume
  PROVE  IInv'
<1> USE DEF IInv
<1>1. CASE Hook
  <2>1. /\ pc = "running" /\ backups < MaxBackups /\ backups' = backups + 1
        /\ UNCHANGED <<unused, backup, source, pc, restarts>>
    BY <1>1 DEF Hook
  <2>2. PICK d \in Reports : /\ vol' = [vol EXCEPT !.dump = d]
                            /\ \/ hooked' = TRUE /\ d = vol.xattr
                               \/ hooked' = FALSE
    BY <1>1 DEF Hook, TypeOK, Volume, Reports
  <2>3. /\ vol' \in Volume /\ vol'.data = vol.data /\ vol'.xattr = vol.xattr
        /\ vol'.quar = vol.quar /\ vol'.dump = d /\ vol'.missing = vol.missing
    BY <2>2 DEF TypeOK, Volume
  <2>4. TypeOK'
    <3>1. backups' \in 0..MaxBackups
      BY <2>1, XattrAssumption DEF TypeOK
    <3>2. hooked' \in BOOLEAN
      BY <2>2
    <3>. QED  BY <2>1, <2>3, <3>1, <3>2 DEF TypeOK, Lines
  <2>6. Names'
    BY <2>1, <2>2, <2>3 DEF Names, Copied, Separate
  <2>7. Protected'
    BY <2>1, <2>3 DEF Protected, RestoredWithDump, Covered, Dumped, Copied, Separate
  <2>8. ReportDue'
    BY <2>1, <2>3 DEF ReportDue, Reported, Tracked
  <2>. QED  BY <2>4, <2>6, <2>7, <2>8
<1>2. CASE Snapshot
  <2>1. /\ hooked /\ hooked' = FALSE /\ backup' = [vol EXCEPT !.xattr = {}]
        /\ UNCHANGED <<vol, unused, source, pc, restarts, backups>>
    BY <1>2 DEF Snapshot, TypeOK
  <2>2. /\ backup' \in Volume /\ backup'.data = vol.data /\ backup'.xattr = {}
        /\ backup'.quar = vol.quar /\ backup'.dump = vol.dump
    BY <2>1 DEF TypeOK, Volume
  <2>3. TypeOK'
    BY <2>1, <2>2 DEF TypeOK
  <2>4. Copied' /\ Names'
    BY <2>1, <2>2 DEF Names, Copied, Separate
  <2>5. Protected'
    BY <2>1, <2>2, <2>4 DEF Protected, RestoredWithDump, Covered, Dumped, Names, Separate
  <2>6. ReportDue'
    BY <2>1 DEF ReportDue, Reported, Tracked
  <2>. QED  BY <2>3, <2>4, <2>5, <2>6
<1>3. CASE RestoreVolume
  <2>1. /\ vol' = backup /\ source' = backup /\ hooked' = FALSE /\ pc' = "check"
        /\ backup # None /\ Copied
        /\ UNCHANGED <<unused, backup, restarts, backups>>
    BY <1>3 DEF RestoreVolume, Names
  <2>2. TypeOK'
    BY <1>3, <2>1 DEF RestoreVolume, TypeOK, Copied, Separate, Points, Lines
  <2>3. Names' /\ Protected' /\ ReportDue'
    BY <2>1 DEF Names, Copied, Separate, Protected, RestoredWithDump, Covered, Dumped,
                ReportDue, Reported, Tracked
  <2>. QED  BY <2>2, <2>3
<1>. QED  BY <1>1, <1>2, <1>3

(* A part of the dump is applied, by a step of the script or by one that   *)
(* is interrupted.                                                         *)
LEMMA ApplyFacts ==
  ASSUME IInv, NEW part \in SUBSET (vol.dump \cap vol.data),
         vol' = [vol EXCEPT !.xattr = vol.xattr \cup part]
  PROVE  /\ vol' \in Volume
         /\ vol'.data = vol.data /\ vol'.xattr = vol.xattr \cup part
         /\ vol'.quar = vol.quar /\ vol'.dump = vol.dump /\ vol'.missing = vol.missing
BY DEF IInv, TypeOK, Volume

(* The lines of the script. *)
LEMMA ScriptKeeps ==
  ASSUME IInv, InitContainer
  PROVE  IInv'
<1> USE DEF IInv
<1>0. UNCHANGED <<unused, backup, hooked, source, restarts, backups>>
  BY DEF InitContainer, CheckDump, Setfattr, Validate, Clean, Rename, Script
<1>1. CASE CheckDump
  <2>1. /\ pc = "check" /\ vol' = vol
        /\ pc' = IF vol.dump = None THEN "running" ELSE "setfattr"
    BY <1>1 DEF CheckDump, Script
  <2>2. TypeOK'
    BY <1>0, <2>1 DEF TypeOK, Points, Lines
  <2>3. Names' /\ Protected'
    BY <1>0, <2>1 DEF Names, Copied, Separate, Protected, RestoredWithDump, Covered, Dumped
  <2>4. ReportDue'
    BY <1>0, <2>1 DEF ReportDue, Reported, Tracked
  <2>. QED  BY <2>2, <2>3, <2>4
<1>2. CASE Setfattr
  <2>1. PICK part \in SUBSET (vol.dump \cap vol.data) :
          /\ vol.dump \subseteq vol.data => part = vol.dump
          /\ vol' = [vol EXCEPT !.xattr = vol.xattr \cup part]
          /\ pc' = IF vol.dump \subseteq vol.data THEN "validate" ELSE "check"
    BY <1>2 DEF Setfattr, Script
  <2>2. pc = "setfattr"
    BY <1>2 DEF Setfattr
  <2>3. /\ vol' \in Volume
        /\ vol'.data = vol.data /\ vol'.xattr = vol.xattr \cup part
        /\ vol'.quar = vol.quar /\ vol'.dump = vol.dump /\ vol'.missing = vol.missing
    BY <2>1, ApplyFacts
  <2>4. TypeOK'
    BY <1>0, <2>1, <2>2, <2>3 DEF TypeOK, Points, Lines
  <2>5. Names'
    BY <1>0, <2>2, <2>3 DEF Names, Copied, Separate
  <2>6. Protected'
    BY <1>0, <2>1, <2>2, <2>3 DEF Protected, RestoredWithDump, Covered, Dumped, Copied, Separate
  <2>7. ReportDue'
    BY <1>0, <2>1, <2>2, <2>3 DEF ReportDue, Reported, Tracked
  <2>. QED  BY <2>4, <2>5, <2>6, <2>7
<1>3. CASE Validate
  <2>1. /\ pc = "validate" /\ pc' = "clean"
        /\ vol' = [vol EXCEPT !.missing = vol.data \ vol.xattr]
    BY <1>3 DEF Validate, Script
  <2>2. /\ vol' \in Volume
        /\ vol'.data = vol.data /\ vol'.xattr = vol.xattr
        /\ vol'.quar = vol.quar /\ vol'.dump = vol.dump /\ vol'.missing = vol.data \ vol.xattr
    BY <2>1 DEF TypeOK, Volume, Reports
  <2>3. TypeOK'
    BY <1>0, <2>1, <2>2 DEF TypeOK, Points, Lines
  <2>4. Names' /\ Protected'
    BY <1>0, <2>1, <2>2 DEF Names, Copied, Separate, Protected, RestoredWithDump, Covered, Dumped
  <2>5. ReportDue'
    BY <1>0, <2>1, <2>2 DEF TypeOK, Lines, ReportDue, Reported, Tracked
  <2>. QED  BY <2>3, <2>4, <2>5
<1>4. CASE Clean
  <2> DEFINE r == IF vol.missing = {} THEN None ELSE vol.missing
  <2>1. pc = "clean" /\ pc' = "rename" /\ vol' = [vol EXCEPT !.missing = r]
    BY <1>4 DEF Clean, Script
  <2>2. r \in Reports
    BY DEF TypeOK, Volume, Reports
  <2>3. /\ vol' \in Volume
        /\ vol'.data = vol.data /\ vol'.xattr = vol.xattr
        /\ vol'.quar = vol.quar /\ vol'.dump = vol.dump /\ vol'.missing = r
    <3> HIDE DEF r
    <3>. QED  BY <2>1, <2>2 DEF TypeOK, Volume
  <2>4. TypeOK'
    BY <1>0, <2>1, <2>3 DEF TypeOK, Points, Lines
  <2>5. Names' /\ Protected'
    BY <1>0, <2>1, <2>3 DEF Names, Copied, Separate, Protected, RestoredWithDump, Covered, Dumped
  <2>6. vol.missing = vol.data \ vol.xattr /\ vol.missing # None
    BY <2>1, ListNotNone DEF ReportDue, TypeOK, Volume
  <2>7. ReportDue'
    BY <1>0, <2>1, <2>3, <2>6 DEF ReportDue, Reported, TypeOK
  <2>. QED  BY <2>4, <2>5, <2>7
<1>5. CASE Rename
  <2>1. pc = "rename" /\ pc' = "running" /\ vol' = [vol EXCEPT !.dump = None]
    BY <1>5 DEF Rename, Script
  <2>2. /\ vol' \in Volume
        /\ vol'.data = vol.data /\ vol'.xattr = vol.xattr
        /\ vol'.quar = vol.quar /\ vol'.dump = None /\ vol'.missing = vol.missing
    BY <2>1 DEF TypeOK, Volume, Reports
  <2>3. TypeOK'
    BY <1>0, <2>1, <2>2 DEF TypeOK, Points, Lines
  <2>4. Names' /\ Protected'
    BY <1>0, <2>1, <2>2 DEF Names, Copied, Separate, Protected, RestoredWithDump, Covered, Dumped
  <2>5. ReportDue'
    BY <1>0, <2>1, <2>2 DEF ReportDue, Reported
  <2>. QED  BY <2>3, <2>4, <2>5
<1>. QED  BY <1>1, <1>2, <1>3, <1>4, <1>5 DEF InitContainer

(* Pod or container is killed, with a part of a line done. *)
LEMMA RestartKeeps ==
  ASSUME IInv, RestartPod
  PROVE  IInv'
<1> USE DEF IInv
<1>0. /\ restarts < MaxRestarts /\ restarts' = restarts + 1
      /\ pc' = "check"
      /\ UNCHANGED <<unused, backup, hooked, source, backups>>
  BY DEF RestartPod
<1>1. /\ vol' \in Volume
      /\ vol'.data = vol.data /\ vol.xattr \subseteq vol'.xattr
      /\ vol'.xattr \subseteq vol'.data
      /\ vol'.quar = vol.quar /\ vol'.dump = vol.dump
      /\ vol' = vol \/ vol.dump # None
  <2>1. CASE pc = "setfattr"
    <3>1. PICK part \in SUBSET (vol.dump \cap vol.data) :
             vol' = [vol EXCEPT !.xattr = vol.xattr \cup part]
      BY <2>1 DEF RestartPod
    <3>. QED  BY <2>1, <3>1, ApplyFacts DEF TypeOK, Lines
  <2>2. CASE pc = "validate"
    <3>1. PICK part \in SUBSET (vol.data \ vol.xattr) : vol' = [vol EXCEPT !.missing = part]
      BY <2>2 DEF RestartPod
    <3>2. part \in Reports
      BY <3>1 DEF TypeOK, Volume, Reports
    <3>. QED  BY <2>2, <3>1, <3>2 DEF TypeOK, Volume, Lines
  <2>3. CASE pc \notin {"setfattr", "validate"}
    BY <2>3 DEF RestartPod, TypeOK
  <2>. QED  BY <2>1, <2>2, <2>3
<1>2. TypeOK'
  <2>1. restarts' \in 0..MaxRestarts
    BY <1>0, XattrAssumption DEF TypeOK
  <2>. QED  BY <1>0, <1>1, <2>1 DEF TypeOK, Points, Lines
<1>3. Names'
  BY <1>0, <1>1 DEF Names, Copied, Separate
<1>4. Protected'
  BY <1>0, <1>1 DEF Protected, RestoredWithDump, Covered, Dumped, Copied, Separate
<1>5. ReportDue'
  BY <1>0, <1>1 DEF ReportDue, Reported, Tracked
<1>. QED  BY <1>2, <1>3, <1>4, <1>5

(* The invariant is inductive. *)
LEMMA XattrNext == IInv /\ [Next]_vars => IInv'
<1> SUFFICES ASSUME IInv, [Next]_vars PROVE IInv'
  OBVIOUS
<1>1. CASE UNCHANGED vars
  BY <1>1 DEF vars, IInv, TypeOK, Names, Copied, Separate, Protected, RestoredWithDump, Covered, Dumped,
              ReportDue, Reported, Tracked
<1>2. CASE Next
  BY <1>2, ServicesKeep, BackupKeeps, ScriptKeeps, RestartKeeps DEF Next
<1>. QED  BY <1>1, <1>2

(* IInv holds in every reachable state. *)
LEMMA XattrInvariant == Spec => []IInv
BY XattrInit, XattrNext, PTL DEF Spec

----------------------------------------------------------------------------
(* The volume, its copies and the report keep their types: setfattr gives  *)
(* attributes only to files that are there, the auditor and PUT never      *)
(* bring a quarantined file back, and past the test for the dump the       *)
(* script has one to work on, also when a kill starts it again.            *)
THEOREM XattrTypes == Spec => []TypeOK
<1>1. IInv => TypeOK
  BY DEF IInv
<1>. QED  BY <1>1, XattrInvariant, PTL

(* xattr-restore.sh "prevents the object-auditor from quarantining data":  *)
(* a file in dump and data of the restored snapshot is not quarantined,    *)
(* wherever and however often the init container of the restored pod is    *)
(* killed.  A snapshot without dump, left by a pod restarted between hook  *)
(* and snapshot, protects no file: the statement is about the others.      *)
THEOREM RestoreProtects == Spec => []DumpedNeverQuarantined
<1>1. IInv => DumpedNeverQuarantined
  BY DEF IInv, Protected, DumpedNeverQuarantined, Dumped
<1>. QED  BY <1>1, XattrInvariant, PTL

(* Files without attributes are served only after the script has written   *)
(* them to .swift-xattrs.missing, over restarts and later backups, on a    *)
(* volume that was restored with its dump or not restored at all.          *)
THEOREM ServedAreReported == Spec => []MissingReported
<1>1. IInv => MissingReported
  BY DEF IInv, ReportDue, Reported, Tracked, MissingReported
<1>. QED  BY <1>1, XattrInvariant, PTL
=============================================================================
