-------------------------- MODULE SwiftProxyProofs --------------------------
(***************************************************************************)
(* Theorems about SwiftProxy, for any secrets, replicas, changes and       *)
(* faults: types; a deleted SwiftProxy holds no secret; and, as long as    *)
(* rotations settle and the cache is current, no pod runs on a revoked     *)
(* credential.                                                             *)
(***************************************************************************)
EXTENDS SwiftProxy, TLAPS

Deleting == {"delac", "deltr", "delprune"}
Working  == {"inputs", "config", "acfin", "deploy", "ready", "fintr", "deltu", "finac",
             "prunetr", "pruneac"}
Normal   == Working \cup {"transport"}
Written  == Working \ {"inputs", "config"}
Guarded  == Written \ {"acfin"}
Rolled   == Guarded \ {"deploy"}
Judged   == {"fintr", "deltu", "finac"}

Unheld == \A s \in Secrets : ~sec[s].fin

(* The instance exists without its finalizer only before any reconcile,    *)
(* and the finalizer goes only after all of the secrets' have gone; a      *)
(* cache that once shows the deletion shows it for good.                   *)
HeldInv ==
    /\ ~cr.fin => Unheld /\ (seen.del \/ ~seen.fin)
    /\ ~cr.exists => ~cr.fin
    /\ cr.exists /\ cr.del => cr.fin
    /\ seen.del => cr.del
    /\ ctl.pc \in Normal => cr.fin
    /\ ctl.pc \in Deleting => seen.del
    /\ ctl.pc # "idle" /\ ~ctl.mem.fin => ctl.pc = "patch" /\ seen.del /\ Unheld

----------------------------------------------------------------------------
(* The two kinds of secrets are handled alike.  For each of them: what the *)
(* status tracks, what should be used, what the reconcile in flight renders *)
(* and what it is going to track.                                          *)
Kinds == {"ac", "tr"}

Status(k)  == IF k = "ac" THEN cr.sac ELSE cr.str
Current(k) == IF k = "ac" THEN cr.ac ELSE IF cr.ceil THEN tu.name ELSE None
Mem(k)     == IF k = "ac" THEN ctl.mem.sac ELSE ctl.mem.str

(* Everything is rendered from what should be used ... *)
Done(k) ==
    /\ config[k] = Current(k)
    /\ depl # None /\ depl[k] = Current(k)
    /\ \A p \in Replicas : /\ pods[p].tmpl # None /\ pods[p].tmpl[k] = Current(k)
                           /\ pods[p].cred[k] = Current(k)

(* ... or still from what is tracked. *)
Untouched(k) ==
    /\ config[k] = Status(k)
    /\ depl # None => depl[k] = Status(k)
    /\ \A p \in Replicas : pods[p].tmpl # None => pods[p].tmpl[k] = Status(k)

(* During a rotation, only two secrets are in use, and what has reached    *)
(* the Deployment has reached the configuration before.                    *)
Rendering(k) ==
    /\ config[k] \in {Status(k), Current(k)}
    /\ depl # None => depl[k] \in {Status(k), Current(k)}
    /\ depl # None /\ depl[k] = Current(k) => config[k] = Current(k)
    /\ \A p \in Replicas :
          /\ pods[p].tmpl # None => pods[p].tmpl[k] \in {None, Status(k), Current(k)}
          /\ pods[p].cred[k] \in {None, Status(k), Current(k)}
          /\ pods[p].tmpl # None /\ pods[p].tmpl[k] = Current(k) /\ Status(k) # Current(k) =>
                pods[p].cred[k] = Current(k) /\ config[k] = Current(k)

(* The tracked secret carries the finalizer until no one uses it; the      *)
(* current one is not superseded.                                          *)
Safe(k) ==
    /\ Status(k) # None => \/ Live(Status(k)) /\ sec[Status(k)].fin
                           \/ Status(k) # Current(k) /\ Done(k)
    /\ Current(k) # None => Live(Current(k))

(* The reconcile in flight renders one of the two, the older one only if   *)
(* nothing has been rendered from the newer yet; what it has rendered is   *)
(* still there; and what it is going to track instead is in use.           *)
Carrying(k) ==
    /\ ctl.pc \in Working =>
          Hash[k] \in {Current(k), Status(k)} /\ (Hash[k] # Current(k) => Untouched(k))
    /\ ctl.pc \in Written => config[k] = Hash[k]
    /\ ctl.pc \in Rolled => depl # None /\ depl[k] = Hash[k]
    /\ ctl.pc \in Judged /\ ctl.ok =>
          \A p \in Replicas : pods[p].tmpl # None /\ pods[p].tmpl[k] = Hash[k]
    /\ ctl.pc # "idle" /\ Mem(k) # Status(k) =>
          /\ Mem(k) = Current(k) /\ config[k] = Current(k)
          /\ depl # None /\ depl[k] = Current(k)
          /\ Current(k) # None => sec[Current(k)].fin
          /\ Status(k) = None \/ Done(k)

KindInv(k) == Rendering(k) /\ Safe(k) /\ Carrying(k)

(* The application credential is fixed when the reconcile begins, *)
CredentialInv ==
    /\ ctl.pc = "transport" => ctl.mem.ac \in {cr.ac, cr.sac}
                               /\ (ctl.mem.ac # cr.ac => Untouched("ac"))
    /\ ctl.pc \in Guarded /\ ctl.mem.ac # None => sec[ctl.mem.ac].fin

(* the transport secret when the TransportURL is read, which depends on    *)
(* what the instance said when the reconcile began.                        *)
TransportInv ==
    /\ ctl.pc = "transport" => ctl.tr = None
    /\ ctl.pc \in Working => IF ctl.mem.ceil THEN ctl.tr # None /\ sec[ctl.tr].fin
                                             ELSE ctl.tr = None
    /\ ctl.pc \in Normal /\ ctl.mem.ceil # cr.ceil =>
          /\ Untouched("tr")
          /\ IF ctl.mem.ceil THEN tu.name = cr.str /\ tu.exists /\ cr.str # None
                             ELSE cr.str = None
    /\ ctl.pc = "deltu" => ~ctl.mem.ceil /\ ctl.mem.str # None /\ ctl.ok
    /\ cr.ceil /\ cr.str # None => tu.name # None
    /\ ~tu.exists => tu.name = None
    /\ tu.name # None => Live(tu.name)

(* The status is written by this reconcile alone. *)
FlightInv ==
    /\ ctl.pc # "idle" => ctl.base.sac = cr.sac /\ ctl.base.str = cr.str
    /\ ctl.pc \in Normal \ {"prunetr", "pruneac"} => ctl.mem.sac = cr.sac
    /\ ctl.pc \in Normal \ {"finac", "prunetr", "pruneac"} => ctl.mem.str = cr.str

Serving == cr.exists /\ ~cr.del

PodInv == \A p \in Replicas : pods[p].tmpl = None => pods[p].cred = NoInputs

InUse == (\A k \in Kinds : KindInv(k)) /\ CredentialInv /\ TransportInv /\ FlightInv

UseInv == PodInv /\ (Serving => InUse)

----------------------------------------------------------------------------
(* Types. *)
CtlType == [pc : Points, base : CRType, mem : CRType, tr : MaybeTR, ok : BOOLEAN,
            again : BOOLEAN]
SecType == [Secrets -> [life : {"unborn", "live", "gone"}, fin : BOOLEAN]]

(* None is no secret and no rendered input, and secrets are of one kind. *)
LEMMA NoneFacts ==
  /\ None \notin Inputs /\ None \notin Secrets
  /\ ACs \cap TRs = {} /\ ACs \subseteq Secrets /\ TRs \subseteq Secrets
BY SwiftProxyAssumption DEF Inputs, MaybeAC, MaybeTR, Secrets

(* The fields of a new instance and of an idle controller. *)
LEMMA NewFacts ==
  ASSUME NEW a \in MaybeAC
  PROVE  /\ NewCR(a) \in CRType /\ NewCR(a).exists = TRUE /\ NewCR(a).fin = FALSE
         /\ NewCR(a).del = FALSE /\ NewCR(a).ac = a /\ NewCR(a).ceil = FALSE
         /\ NewCR(a).sac = None /\ NewCR(a).str = None
BY DEF NewCR, CRType, MaybeAC, MaybeTR

(* A controller at rest has its type. *)
LEMMA IdleFacts == IdleCtl \in CtlType /\ IdleCtl.pc = "idle"
<1>1. NewCR(None) \in CRType
  BY NewFacts DEF MaybeAC
<1>. QED  BY <1>1 DEF IdleCtl, CtlType, Points, MaybeTR

(* Going to another point changes nothing else in the reconcile. *)
LEMMA GotoFacts ==
  ASSUME ctl \in CtlType, NEW pc \in Points, Goto(pc)
  PROVE  /\ ctl' \in CtlType /\ ctl'.pc = pc /\ ctl'.mem = ctl.mem /\ ctl'.base = ctl.base
         /\ ctl'.tr = ctl.tr /\ ctl'.ok = ctl.ok /\ ctl'.again = ctl.again
BY DEF Goto, CtlType

(* A return with a requeue keeps what the memory holds. *)
LEMMA RequeueFacts ==
  ASSUME ctl \in CtlType, Requeue
  PROVE  /\ ctl' \in CtlType /\ ctl'.pc = "patch" /\ ctl'.mem = ctl.mem
         /\ ctl'.base = ctl.base /\ ctl'.tr = ctl.tr
BY DEF Requeue, CtlType, Points

(* A reconcile begins with the cached instance. *)
LEMMA BeginFacts ==
  ASSUME TypeOK, NEW pc \in Points, NEW fin \in BOOLEAN, Begin(pc, fin)
  PROVE  /\ ctl' \in CtlType /\ ctl'.pc = pc /\ ctl'.base = seen
         /\ ctl'.mem \in CRType /\ ctl'.mem.fin = fin /\ ctl'.mem.ac = seen.ac
         /\ ctl'.mem.ceil = seen.ceil /\ ctl'.mem.sac = seen.sac /\ ctl'.mem.str = seen.str
         /\ ctl'.tr = None /\ ctl'.ok = FALSE
         /\ Stale \/ seen = cr
         /\ UNCHANGED <<cr, seen, sec, world, changes, nfaults>>
         /\ queued' = FALSE
<1> DEFINE m == [seen EXCEPT !.ready = FALSE, !.fin = fin]
<1>1. /\ m \in CRType /\ m.fin = fin /\ m.ac = seen.ac /\ m.ceil = seen.ceil
      /\ m.sac = seen.sac /\ m.str = seen.str
  BY DEF TypeOK, CRType
<1>2. ctl' = [IdleCtl EXCEPT !.pc = pc, !.base = seen, !.mem = m]
  BY DEF Begin
<1> HIDE DEF m
<1>3. /\ ctl' \in CtlType /\ ctl'.pc = pc /\ ctl'.base = seen /\ ctl'.mem = m
      /\ ctl'.tr = IdleCtl.tr /\ ctl'.ok = IdleCtl.ok
  BY <1>1, <1>2, IdleFacts DEF TypeOK, CtlType
<1>4. IdleCtl.tr = None /\ IdleCtl.ok = FALSE
  BY DEF IdleCtl
<1>. QED  BY <1>1, <1>3, <1>4 DEF Begin

(* What putting a finalizer on a secret and taking it off do. *)
LEMMA ProtectFacts ==
  ASSUME sec \in SecType, NEW s \in Secrets, Protect(s)
  PROVE  /\ sec' \in SecType /\ sec'[s].fin = TRUE
         /\ \A x \in Secrets : sec'[x].life = sec[x].life /\ (sec[x].fin => sec'[x].fin)
BY DEF Protect, SecType

(* Releasing secrets takes their finalizers and nothing else. *)
LEMMA ReleaseFacts ==
  ASSUME sec \in SecType, NEW drop, Release(drop)
  PROVE  /\ sec' \in SecType
         /\ \A x \in Secrets : /\ sec'[x].life = sec[x].life
                               /\ sec'[x].fin <=> (sec[x].fin /\ x \notin drop)
BY DEF Release, SecType

(* What a reconcile tracks from then on is one of the two it compares. *)
LEMMA TrackedFacts ==
  ASSUME NEW old, NEW new, NEW ok \in BOOLEAN, NEW s \in Tracked(old, new, ok)
  PROVE  /\ s \in {old, new}
         /\ s # old => s = new /\ (ok \/ old = None)
BY DEF Tracked

(* The initial states are well typed. *)
LEMMA InitTypes == ASSUME Init PROVE TypeOK
<1>1. PICK a \in MaybeAC :
         /\ cr = NewCR(a)
         /\ sec = [s \in Secrets |-> [life |-> IF s = a THEN "live" ELSE "unborn", fin |-> FALSE]]
  BY DEF Init
<1>2. cr \in CRType /\ seen \in CRType
  BY <1>1, NewFacts DEF Init
<1>3. sec \in SecType
  BY <1>1 DEF SecType
<1>4. NoInputs \in Inputs
  BY DEF NoInputs, Inputs, MaybeAC, MaybeTR
<1>5. pods \in [Replicas -> [tmpl : {None} \cup Inputs, cred : Inputs]]
  BY <1>4 DEF Init, NoPod
<1>6. changes \in 0..MaxChanges /\ nfaults \in 0..MaxFaults
  BY SwiftProxyAssumption DEF Init
<1>. QED
  BY <1>2, <1>3, <1>4, <1>5, <1>6, IdleFacts DEF Init, TypeOK, SecType, CtlType, MaybeTR

(* Owners of secrets. *)
LEMMA OwnerTypes == ASSUME TypeOK, Owners PROVE TypeOK'
<1>0. ASSUME Change PROVE changes' \in 0..MaxChanges
  BY <1>0, SwiftProxyAssumption DEF Change, TypeOK
<1>1. ASSUME NEW s \in MaybeAC, RotateAC(s) PROVE TypeOK'
  <2>1. cr' \in CRType
    BY <1>1 DEF RotateAC, TypeOK, CRType
  <2>2. sec' \in SecType
    BY <1>1 DEF RotateAC, TypeOK, SecType, Secrets, MaybeAC
  <2>. QED  BY <1>0, <1>1, <2>1, <2>2 DEF RotateAC, TypeOK, world, SecType
<1>2. ASSUME ToggleCeilometer PROVE TypeOK'
  <2>1. cr' \in CRType
    BY <1>2 DEF ToggleCeilometer, TypeOK, CRType
  <2>. QED  BY <1>0, <1>2, <2>1 DEF ToggleCeilometer, TypeOK, world
<1>3. ASSUME NEW t \in TRs, IssueTransport(t) PROVE TypeOK'
  <2>1. sec' \in SecType /\ tu' \in [exists : BOOLEAN, name : MaybeTR]
    BY <1>3 DEF IssueTransport, TypeOK, SecType, Secrets, MaybeTR
  <2>2. changes' \in 0..MaxChanges
    BY <1>0, <1>3 DEF IssueTransport, TypeOK
  <2>. QED  BY <1>3, <2>1, <2>2 DEF IssueTransport, TypeOK, SecType
<1>4. ASSUME NEW s \in Secrets, Revoke(s) PROVE TypeOK'
  <2>1. sec' \in SecType
    BY <1>4 DEF Revoke, TypeOK, SecType
  <2>. QED  BY <1>4, <2>1 DEF Revoke, TypeOK, world, SecType
<1>5. ASSUME DeleteCR PROVE TypeOK'
  <2>1. cr' \in CRType
    BY <1>5 DEF DeleteCR, TypeOK, CRType
  <2>. QED  BY <1>0, <1>5, <2>1 DEF DeleteCR, TypeOK, world
<1>. QED  BY <1>1, <1>2, <1>3, <1>4, <1>5 DEF Owners

(* Kubernetes, failing calls and restarts. *)
LEMMA KubernetesTypes == ASSUME TypeOK, Kubernetes \/ CallFails \/ Crash PROVE TypeOK'
<1>0. ASSUME Fault PROVE nfaults' \in 0..MaxFaults
  BY <1>0, SwiftProxyAssumption DEF Fault, TypeOK
<1>1. ASSUME Sync \/ Resync PROVE TypeOK'
  BY <1>1 DEF Sync, Resync, TypeOK, world
<1>2. ASSUME Collect PROVE TypeOK'
  <2>1. NoPod \in [tmpl : {None} \cup Inputs, cred : Inputs]
    BY DEF NoPod, NoInputs, Inputs, MaybeAC, MaybeTR
  <2>2. /\ pods' \in [Replicas -> [tmpl : {None} \cup Inputs, cred : Inputs]]
        /\ tu' \in [exists : BOOLEAN, name : MaybeTR]
    BY <1>2, <2>1 DEF Collect, MaybeTR
  <2>. QED  BY <1>2, <2>2 DEF Collect, TypeOK
<1>3. ASSUME NEW p \in Replicas, Rollout(p) \/ RestartContainer(p) PROVE TypeOK'
  <2>1. pods' \in [Replicas -> [tmpl : {None} \cup Inputs, cred : Inputs]]
    BY <1>3 DEF Rollout, RestartContainer, TypeOK
  <2>. QED  BY <1>3, <2>1 DEF Rollout, RestartContainer, TypeOK
<1>4. ASSUME CallFails PROVE TypeOK'
  <2>1. ctl' \in CtlType
    BY <1>4, RequeueFacts DEF CallFails, TypeOK, CtlType
  <2>. QED  BY <1>0, <1>4, <2>1 DEF CallFails, TypeOK, CtlType, world
<1>5. ASSUME Crash PROVE TypeOK'
  BY <1>0, <1>5, IdleFacts DEF Crash, TypeOK, CtlType, world
<1>. QED  BY <1>1, <1>2, <1>3, <1>4, <1>5 DEF Kubernetes

(* What the reconcile renders is of the right type. *)
LEMMA HashType == ASSUME TypeOK PROVE Hash \in Inputs /\ Hash["ac"] = ctl.mem.ac /\ Hash["tr"] = ctl.tr
BY DEF TypeOK, Hash, Inputs, CRType

(* The steps of a reconcile change its point, sec and the objects they     *)
(* write.                                                                  *)
LEMMA ReconcileTypes == ASSUME TypeOK, Reconcile PROVE TypeOK'
<1>0. ctl \in CtlType /\ sec \in SecType
  BY DEF TypeOK, CtlType, SecType
<1>1. ASSUME ReconcileGone \/ ReconcileNew \/ ReconcileDelete \/ ReconcileNormal PROVE TypeOK'
  <2>1. CASE ReconcileGone
    BY <2>1 DEF ReconcileGone, TypeOK, world
  <2>2. ASSUME NEW pc \in Points, Begin(pc, TRUE) PROVE TypeOK'
    BY <2>2, BeginFacts DEF TypeOK, CtlType, world
  <2>. QED
    BY <1>1, <2>1, <2>2 DEF ReconcileNew, ReconcileDelete, ReconcileNormal, Points
<1>2. ASSUME Transport PROVE TypeOK'
  <2>1. ASSUME Goto("inputs"), UNCHANGED <<sec, tu>>
        PROVE  ctl' \in CtlType /\ sec' \in SecType /\ tu' \in [exists : BOOLEAN, name : MaybeTR]
    BY <1>0, <2>1, GotoFacts DEF Points, TypeOK
  <2>2. ASSUME Requeue, tu' = tu \/ tu' = [exists |-> TRUE, name |-> None], UNCHANGED sec
        PROVE  ctl' \in CtlType /\ sec' \in SecType /\ tu' \in [exists : BOOLEAN, name : MaybeTR]
    <3>1. [exists |-> TRUE, name |-> None] \in [exists : BOOLEAN, name : MaybeTR]
      BY DEF MaybeTR
    <3>. QED  BY <1>0, <2>2, <3>1, RequeueFacts DEF TypeOK
  <2>3. ASSUME Live(tu.name), Protect(tu.name), UNCHANGED tu,
               ctl' = [ctl EXCEPT !.pc = "inputs", !.tr = tu.name]
        PROVE  ctl' \in CtlType /\ sec' \in SecType /\ tu' \in [exists : BOOLEAN, name : MaybeTR]
    <3>1. tu.name \in Secrets /\ tu.name \in MaybeTR
      BY <2>3 DEF Live, TypeOK, MaybeTR, Secrets
    <3>2. ctl' \in CtlType
      BY <1>0, <2>3, <3>1 DEF CtlType, Points
    <3>. QED  BY <1>0, <2>3, <3>1, <3>2, ProtectFacts DEF TypeOK
  <2>4. ctl' \in CtlType /\ sec' \in SecType /\ tu' \in [exists : BOOLEAN, name : MaybeTR]
    BY <1>2, <2>1, <2>2, <2>3 DEF Transport
  <2>. QED  BY <1>2, <2>4 DEF Transport, Others, TypeOK, CtlType, SecType
<1>3. ASSUME ReadInputs PROVE TypeOK'
  <2>1. ctl' \in CtlType
    BY <1>0, <1>3, GotoFacts, RequeueFacts DEF ReadInputs, Points
  <2>. QED  BY <1>3, <2>1 DEF ReadInputs, Others, TypeOK, CtlType, world
<1>4. ASSUME EnsureConfig \/ Deploy PROVE TypeOK'
  <2>1. ctl' \in CtlType
    BY <1>0, <1>4, GotoFacts DEF EnsureConfig, Deploy, Points
  <2>. QED  BY <1>4, <2>1, HashType DEF EnsureConfig, Deploy, TypeOK, CtlType
<1>5. ASSUME ProtectAC PROVE TypeOK'
  <2>1. ctl' \in CtlType
    BY <1>0, <1>5, GotoFacts, RequeueFacts DEF ProtectAC, Points
  <2>2. sec' \in SecType
    <3>1. Live(ctl.mem.ac) => ctl.mem.ac \in Secrets
      BY DEF Live, TypeOK, CRType, MaybeAC, Secrets
    <3>. QED  BY <1>0, <1>5, <3>1, ProtectFacts DEF ProtectAC
  <2>. QED  BY <1>5, <2>1, <2>2 DEF ProtectAC, Others, TypeOK, CtlType, SecType, world
<1>6. ASSUME CheckReady PROVE TypeOK'
  <2>1. ctl' \in CtlType
    BY <1>0, <1>6 DEF CheckReady, CtlType, Points
  <2>. QED  BY <1>6, <2>1 DEF CheckReady, Others, TypeOK, CtlType, world
<1>7. ASSUME FinalizeTransport PROVE TypeOK'
  <2>1. ctl' \in CtlType
    <3>1. ASSUME NEW s \in Tracked(ctl.mem.str, ctl.tr, ctl.ok),
                 ctl' = [ctl EXCEPT !.pc = "finac", !.mem.str = s]
          PROVE  ctl' \in CtlType
      <4>1. s \in MaybeTR
        BY <1>0, TrackedFacts DEF CtlType, CRType
      <4>2. [ctl.mem EXCEPT !.str = s] \in CRType
        BY <1>0, <4>1 DEF CtlType, CRType
      <4>. QED  BY <1>0, <3>1, <4>2 DEF CtlType, Points
    <3>. QED  BY <1>0, <1>7, <3>1, GotoFacts DEF FinalizeTransport, Points
  <2>2. sec' \in SecType
    BY <1>0, <1>7, ReleaseFacts DEF FinalizeTransport
  <2>. QED  BY <1>7, <2>1, <2>2 DEF FinalizeTransport, Others, TypeOK, CtlType, SecType, world
<1>8. ASSUME DeleteTransport PROVE TypeOK'
  <2>1. [ctl.mem EXCEPT !.str = None] \in CRType
    BY <1>0 DEF CtlType, CRType, MaybeTR
  <2>2. ctl' \in CtlType /\ tu' \in [exists : BOOLEAN, name : MaybeTR]
    BY <1>0, <1>8, <2>1 DEF DeleteTransport, CtlType, Points, MaybeTR
  <2>. QED  BY <1>8, <2>2 DEF DeleteTransport, Others, TypeOK, CtlType
<1>9. ASSUME FinalizeAC PROVE TypeOK'
  <2>1. PICK s \in Tracked(ctl.mem.sac, ctl.mem.ac, ctl.ok) :
           /\ ctl' = [ctl EXCEPT !.pc = "prunetr", !.mem.sac = s]
           /\ Release(Superseded(ctl.mem.sac, ctl.mem.ac, ctl.ok))
    BY <1>9 DEF FinalizeAC
  <2>2. s \in MaybeAC
    BY <1>0, TrackedFacts DEF CtlType, CRType
  <2>3. [ctl.mem EXCEPT !.sac = s] \in CRType
    BY <1>0, <2>2 DEF CtlType, CRType
  <2>4. ctl' \in CtlType /\ sec' \in SecType
    BY <1>0, <2>1, <2>3, ReleaseFacts DEF CtlType, Points
  <2>. QED  BY <1>9, <2>4 DEF FinalizeAC, Others, TypeOK, CtlType, SecType, world
<1>10. ASSUME PruneTransport \/ DeleteReleaseAC \/ DeleteReleaseTransport PROVE TypeOK'
  <2>1. ctl' \in CtlType
    BY <1>0, <1>10, GotoFacts DEF PruneTransport, DeleteReleaseAC, DeleteReleaseTransport, Points
  <2>2. sec' \in SecType
    BY <1>0, <1>10, ReleaseFacts
    DEF PruneTransport, DeleteReleaseAC, DeleteReleaseTransport, Prune
  <2>. QED
    BY <1>10, <2>1, <2>2 DEF PruneTransport, DeleteReleaseAC, DeleteReleaseTransport, Others,
       TypeOK, CtlType, SecType, world
<1>11. ASSUME PruneAC \/ DeletePrune PROVE TypeOK'
  <2>1. [ctl.mem EXCEPT !.ready = ctl.ok] \in CRType /\ [ctl.mem EXCEPT !.fin = FALSE] \in CRType
    BY <1>0 DEF CtlType, CRType
  <2>2. ctl' \in CtlType
    BY <1>0, <1>11, <2>1 DEF PruneAC, DeletePrune, CtlType, Points
  <2>3. sec' \in SecType
    BY <1>0, <1>11, ReleaseFacts DEF PruneAC, DeletePrune, Prune
  <2>. QED  BY <1>11, <2>2, <2>3 DEF PruneAC, DeletePrune, Others, TypeOK, CtlType, SecType, world
<1>12. ASSUME PatchInstance PROVE TypeOK'
  <2>1. cr' \in CRType
    <3> DEFINE new == Merge(cr, ctl.base, ctl.mem)
    <3>1. new \in CRType
      BY <1>0 DEF Merge, TypeOK, CRType, CtlType
    <3>2. cr' = IF cr.exists THEN [new EXCEPT !.exists = ~(new.del /\ ~new.fin)] ELSE cr
      BY <1>12 DEF PatchInstance
    <3> HIDE DEF new
    <3>3. [new EXCEPT !.exists = ~(new.del /\ ~new.fin)] \in CRType
      BY <3>1 DEF CRType
    <3>. QED  BY <3>2, <3>3 DEF TypeOK
  <2>. QED  BY <1>12, <2>1, IdleFacts DEF PatchInstance, TypeOK, CtlType, world
<1>. QED
  BY <1>1, <1>2, <1>3, <1>4, <1>5, <1>6, <1>7, <1>8, <1>9, <1>10, <1>11, <1>12 DEF Reconcile

(* Every step keeps the types. *)
LEMMA NextTypes == ASSUME TypeOK, [Next]_vars PROVE TypeOK'
<1>1. CASE UNCHANGED vars
  BY <1>1 DEF vars, TypeOK
<1>. QED  BY <1>1, OwnerTypes, KubernetesTypes, ReconcileTypes DEF Next

(* The objects and the reconcile in flight keep their types, and each      *)
(* status field of SwiftProxy tracks secrets of its own kind only.         *)
THEOREM ProxyTypes == Spec => []TypeOK
<1>1. Init => TypeOK
  BY InitTypes
<1>2. TypeOK /\ [Next]_vars => TypeOK'
  BY NextTypes
<1>. QED  BY <1>1, <1>2, PTL DEF Spec

----------------------------------------------------------------------------
(* A deleted SwiftProxy holds nothing. *)
LEMMA InitHeld == ASSUME Init PROVE HeldInv
<1>1. PICK a \in MaybeAC :
         /\ cr = NewCR(a)
         /\ sec = [s \in Secrets |-> [life |-> IF s = a THEN "live" ELSE "unborn", fin |-> FALSE]]
  BY DEF Init
<1>2. Unheld
  BY <1>1 DEF Unheld
<1>3. cr.fin = FALSE /\ cr.exists = TRUE /\ cr.del = FALSE /\ seen = cr /\ ctl.pc = "idle"
  BY <1>1, NewFacts, IdleFacts DEF Init
<1>. QED  BY <1>2, <1>3 DEF HeldInv, Normal, Working, Deleting

(* Owners do not touch finalizers, and a deletion only waits for those     *)
(* that are there.                                                         *)
LEMMA OwnerHeld == ASSUME TypeOK, HeldInv, Owners PROVE HeldInv'
<1>1. ctl' = ctl /\ seen' = seen
  BY DEF Owners, RotateAC, ToggleCeilometer, IssueTransport, Revoke, DeleteCR
<1>2. \A s \in Secrets : sec'[s].fin = sec[s].fin
  <2>1. ASSUME NEW s \in MaybeAC, RotateAC(s) PROVE \A x \in Secrets : sec'[x].fin = sec[x].fin
    BY <2>1 DEF RotateAC, TypeOK
  <2>2. ASSUME NEW s \in Secrets, Revoke(s) PROVE \A x \in Secrets : sec'[x].fin = sec[x].fin
    BY <2>2 DEF Revoke, TypeOK
  <2>3. ASSUME NEW t \in TRs, IssueTransport(t) PROVE \A x \in Secrets : sec'[x].fin = sec[x].fin
    BY <2>3 DEF IssueTransport, TypeOK
  <2>. QED  BY <2>1, <2>2, <2>3 DEF Owners, ToggleCeilometer, DeleteCR
<1>3. /\ cr'.fin = cr.fin /\ (cr.del => cr'.del)
      /\ ~cr'.exists => ~cr'.fin
      /\ cr'.exists /\ cr'.del => cr'.fin
  <2>1. ASSUME NEW s \in MaybeAC, RotateAC(s)
        PROVE  cr'.fin = cr.fin /\ cr'.del = cr.del /\ cr'.exists = cr.exists
    BY <2>1 DEF RotateAC, TypeOK, CRType
  <2>2. ASSUME ToggleCeilometer
        PROVE  cr'.fin = cr.fin /\ cr'.del = cr.del /\ cr'.exists = cr.exists
    BY <2>2 DEF ToggleCeilometer, TypeOK, CRType
  <2>3. ASSUME DeleteCR
        PROVE  cr'.fin = cr.fin /\ cr'.del = TRUE /\ cr'.exists = cr.fin
    BY <2>3 DEF DeleteCR, TypeOK, CRType
  <2>4. ASSUME \/ \E t \in TRs : IssueTransport(t)
               \/ \E s \in Secrets : Revoke(s)
        PROVE  cr' = cr
    BY <2>4 DEF IssueTransport, Revoke
  <2>. QED  BY <2>1, <2>2, <2>3, <2>4 DEF Owners, HeldInv
<1>. QED  BY <1>1, <1>2, <1>3 DEF HeldInv, Unheld

(* Informers, pods and failing calls keep HeldInv. *)
LEMMA KubernetesHeld == ASSUME TypeOK, HeldInv, Kubernetes \/ CallFails \/ Crash PROVE HeldInv'
<1>1. ASSUME Sync PROVE HeldInv'
  BY <1>1 DEF Sync, HeldInv, Unheld
<1>2. ASSUME Resync \/ Collect \/ \E p \in Replicas : Rollout(p) \/ RestartContainer(p)
      PROVE  HeldInv'
  BY <1>2 DEF Resync, Collect, Rollout, RestartContainer, HeldInv, Unheld
<1>3. ASSUME CallFails PROVE HeldInv'
  <2>1. ctl'.pc = "patch" /\ ctl'.mem = ctl.mem
    BY <1>3, RequeueFacts DEF CallFails, TypeOK, CtlType
  <2>. QED  BY <1>3, <2>1 DEF CallFails, HeldInv, Unheld, Normal, Working, Deleting
<1>4. ASSUME Crash PROVE HeldInv'
  BY <1>4, IdleFacts DEF Crash, HeldInv, Unheld, Normal, Working, Deleting
<1>. QED  BY <1>1, <1>2, <1>3, <1>4 DEF Kubernetes

(* A normal reconcile begins only with an instance that has its finalizer, *)
(* and a deletion that has been seen keeps new ones from beginning.        *)
LEMMA BeginHeld ==
  ASSUME TypeOK, HeldInv, ReconcileGone \/ ReconcileNew \/ ReconcileDelete \/ ReconcileNormal
  PROVE  HeldInv'
<1>1. CASE ReconcileGone
  BY <1>1 DEF ReconcileGone, HeldInv, Unheld
<1>2. ASSUME NEW pc \in Points, Begin(pc, TRUE)
      PROVE  ctl'.pc = pc /\ ctl'.mem.fin = TRUE /\ UNCHANGED <<cr, seen, sec>>
  BY <1>2, BeginFacts
<1>3. CASE ReconcileNew
  BY <1>2, <1>3 DEF ReconcileNew, HeldInv, Unheld, Normal, Working, Deleting, Points
<1>4. CASE ReconcileDelete
  BY <1>2, <1>4 DEF ReconcileDelete, HeldInv, Unheld, Normal, Working, Deleting, Points
<1>5. CASE ReconcileNormal
  <2>1. cr.fin
    BY <1>5 DEF ReconcileNormal, HeldInv
  <2>. QED
    BY <1>2, <1>5, <2>1 DEF ReconcileNormal, HeldInv, Unheld, Normal, Working, Deleting, Points
<1>. QED  BY <1>1, <1>3, <1>4, <1>5

(* A step of a reconcile that goes on: it puts finalizers on secrets only  *)
(* if the instance has its own, and keeps that in memory.                  *)
LEMMA StepHeld ==
  ASSUME TypeOK, HeldInv, UNCHANGED <<cr, seen>>, ctl.pc # "idle", ctl.pc # "patch",
         ctl'.mem.fin = ctl.mem.fin,
         \/ ctl.pc \in Normal /\ ctl'.pc \in Normal \cup {"patch"}
         \/ /\ ctl.pc \in Deleting /\ ctl'.pc \in Deleting
            /\ \A s \in Secrets : sec'[s].fin => sec[s].fin
  PROVE  HeldInv'
<1>1. ctl.mem.fin
  BY DEF HeldInv
<1>. QED  BY <1>1 DEF HeldInv, Unheld, Normal, Working, Deleting

(* The reconcile keeps HeldInv: deletion releases what is held. *)
LEMMA ReconcileHeld == ASSUME TypeOK, HeldInv, Reconcile PROVE HeldInv'
<1>0. ctl \in CtlType /\ sec \in SecType
  BY DEF TypeOK, CtlType, SecType
<1>1. ASSUME Transport \/ ReadInputs \/ EnsureConfig \/ ProtectAC \/ Deploy PROVE HeldInv'
  <2>1. ctl'.mem = ctl.mem /\ ctl'.pc \in Normal \cup {"patch"}
    <3>1. ASSUME NEW pc \in Normal, Goto(pc) PROVE ctl'.mem = ctl.mem /\ ctl'.pc = pc
      BY <1>0, <3>1, GotoFacts DEF Normal, Working, Points
    <3>2. ASSUME Requeue PROVE ctl'.mem = ctl.mem /\ ctl'.pc = "patch"
      BY <1>0, <3>2, RequeueFacts
    <3>3. ASSUME ctl' = [ctl EXCEPT !.pc = "inputs", !.tr = tu.name]
          PROVE  ctl'.mem = ctl.mem /\ ctl'.pc = "inputs"
      BY <1>0, <3>3 DEF CtlType
    <3>4. "inputs" \in Normal /\ "config" \in Normal /\ "acfin" \in Normal
          /\ "deploy" \in Normal /\ "ready" \in Normal
      BY DEF Normal, Working
    <3>5. CASE Transport
      BY <3>1, <3>2, <3>3, <3>4, <3>5 DEF Transport
    <3>. QED
      BY <1>1, <3>1, <3>2, <3>4, <3>5 DEF ReadInputs, EnsureConfig, ProtectAC, Deploy
  <2>2. ctl.pc \in Normal /\ UNCHANGED <<cr, seen>>
    BY <1>1 DEF Transport, ReadInputs, EnsureConfig, ProtectAC, Deploy, Others, Normal, Working
  <2>. QED  BY <2>1, <2>2, StepHeld DEF Normal, Working
<1>2. ASSUME \/ CheckReady \/ FinalizeTransport \/ DeleteTransport
             \/ FinalizeAC \/ PruneTransport \/ PruneAC
      PROVE  HeldInv'
  <2>1. ctl'.mem.fin = ctl.mem.fin /\ ctl'.pc \in Normal \cup {"patch"}
    <3>1. CASE CheckReady
      BY <1>0, <3>1 DEF CheckReady, CtlType, Normal, Working
    <3>2. CASE FinalizeTransport
      <4>1. ASSUME NEW pc \in Normal, Goto(pc) PROVE ctl'.mem = ctl.mem /\ ctl'.pc = pc
        BY <1>0, <4>1, GotoFacts DEF Normal, Working, Points
      <4>2. ASSUME NEW s, ctl' = [ctl EXCEPT !.pc = "finac", !.mem.str = s]
            PROVE  ctl'.mem.fin = ctl.mem.fin /\ ctl'.pc = "finac"
        BY <1>0, <4>2 DEF CtlType, CRType
      <4>3. "finac" \in Normal /\ "deltu" \in Normal
        BY DEF Normal, Working
      <4>. QED  BY <3>2, <4>1, <4>2, <4>3 DEF FinalizeTransport
    <3>3. CASE DeleteTransport
      BY <1>0, <3>3 DEF DeleteTransport, CtlType, CRType, Normal, Working
    <3>4. CASE FinalizeAC
      BY <1>0, <3>4 DEF FinalizeAC, CtlType, CRType, Normal, Working
    <3>5. CASE PruneTransport
      BY <1>0, <3>5, GotoFacts DEF PruneTransport, Points, Normal, Working
    <3>6. CASE PruneAC
      BY <1>0, <3>6 DEF PruneAC, CtlType, CRType
    <3>. QED  BY <1>2, <3>1, <3>2, <3>3, <3>4, <3>5, <3>6
  <2>2. ctl.pc \in Normal /\ UNCHANGED <<cr, seen>>
    BY <1>2 DEF CheckReady, FinalizeTransport, DeleteTransport, FinalizeAC, PruneTransport,
       PruneAC, Others, Normal, Working
  <2>. QED  BY <2>1, <2>2, StepHeld DEF Normal, Working
<1>3. ASSUME DeleteReleaseAC \/ DeleteReleaseTransport PROVE HeldInv'
  <2>1. ctl'.mem = ctl.mem /\ ctl'.pc \in Deleting
    BY <1>0, <1>3, GotoFacts DEF DeleteReleaseAC, DeleteReleaseTransport, Points, Deleting
  <2>2. ctl.pc \in Deleting /\ UNCHANGED <<cr, seen>>
    BY <1>3 DEF DeleteReleaseAC, DeleteReleaseTransport, Others, Deleting
  <2>3. \A s \in Secrets : sec'[s].fin => sec[s].fin
    BY <1>0, <1>3, ReleaseFacts DEF DeleteReleaseAC, DeleteReleaseTransport
  <2>. QED  BY <2>1, <2>2, <2>3, StepHeld DEF Deleting
<1>4. ASSUME DeletePrune PROVE HeldInv'
  <2>1. Unheld'
    BY <1>0, <1>4, ReleaseFacts DEF DeletePrune, Prune, Unheld
  <2>2. ctl'.pc = "patch" /\ UNCHANGED <<cr, seen>> /\ seen.del
    BY <1>0, <1>4 DEF DeletePrune, Others, CtlType, HeldInv, Deleting
  <2>. QED  BY <2>1, <2>2 DEF HeldInv, Normal, Working, Deleting
<1>5. ASSUME PatchInstance PROVE HeldInv'
  <2> DEFINE new == Merge(cr, ctl.base, ctl.mem)
             f   == IF ctl.mem.fin # ctl.base.fin THEN ctl.mem.fin ELSE cr.fin
  <2>1. new \in CRType /\ new.fin = f /\ new.del = cr.del
    BY <1>0 DEF Merge, TypeOK, CRType, CtlType
  <2>2. cr' = IF cr.exists THEN [new EXCEPT !.exists = ~(new.del /\ ~new.fin)] ELSE cr
    BY <1>5 DEF PatchInstance
  <2> HIDE DEF new
  <2>3. cr.exists => cr'.fin = f /\ cr'.del = cr.del /\ cr'.exists = ~(cr.del /\ ~f)
    BY <2>1, <2>2 DEF CRType
  <2>4. ~cr.exists => cr' = cr
    BY <2>2
  <2>5. ctl'.pc = "idle" /\ UNCHANGED <<seen, sec>> /\ ctl.pc = "patch"
    BY <1>5, IdleFacts DEF PatchInstance
  <2>6. cr.exists /\ ~f => seen.del \/ (~cr.fin /\ ~cr.del)
    BY <2>5 DEF HeldInv
  <2>7. cr.exists /\ ~f => Unheld /\ (seen.del \/ ~seen.fin)
    BY <2>5 DEF HeldInv
  <2>8. cr.exists /\ ~f /\ ~cr.del => ~seen.del
    BY DEF HeldInv
  <2>9. ASSUME cr.exists PROVE HeldInv'
    <3> HIDE DEF f
    <3>. QED
      BY <2>3, <2>5, <2>6, <2>7, <2>8, <2>9 DEF HeldInv, Unheld, Normal, Working, Deleting
  <2>10. ASSUME ~cr.exists PROVE HeldInv'
    BY <2>4, <2>5, <2>10 DEF HeldInv, Unheld, Normal, Working, Deleting
  <2>. QED  BY <2>9, <2>10
<1>. QED  BY <1>1, <1>2, <1>3, <1>4, <1>5, BeginHeld DEF Reconcile

(* HeldInv is inductive. *)
LEMMA NextHeld == ASSUME TypeOK, HeldInv, [Next]_vars PROVE HeldInv'
<1>1. CASE UNCHANGED vars
  BY <1>1 DEF vars, HeldInv, Unheld
<1>. QED  BY <1>1, OwnerHeld, KubernetesHeld, ReconcileHeld DEF Next

(* A SwiftProxy that is gone has left no finalizer on any secret, however  *)
(* fast these rotated, however old the instance was that a reconcile read, *)
(* and wherever one was cut short.                                         *)
THEOREM DeletedHoldsNothing == Spec => []NothingHeldAfterDelete
<1>1. Init => TypeOK /\ HeldInv
  BY InitTypes, InitHeld
<1>2. TypeOK /\ HeldInv /\ [Next]_vars => TypeOK' /\ HeldInv'
  BY NextTypes, NextHeld
<1>3. HeldInv => NothingHeldAfterDelete
  BY DEF HeldInv, NothingHeldAfterDelete, Unheld
<1>. QED  BY <1>1, <1>2, <1>3, PTL DEF Spec

----------------------------------------------------------------------------
(* No pod runs on a revoked credential.  The types that the two kinds      *)
(* need: *)
LEMMA KindTypes ==
  ASSUME TypeOK, NEW k \in Kinds
  PROVE  /\ Status(k) \in {None} \cup Secrets /\ Current(k) \in {None} \cup Secrets
         /\ Mem(k) \in {None} \cup Secrets /\ Hash[k] \in {None} \cup Secrets
         /\ depl # None => depl \in Inputs
         /\ \A p \in Replicas : pods[p].tmpl # None => pods[p].tmpl \in Inputs
<1>1. Hash["ac"] \in MaybeAC /\ Hash["tr"] \in MaybeTR
  BY HashType DEF TypeOK, CRType
<1>2. MaybeAC \subseteq {None} \cup Secrets /\ MaybeTR \subseteq {None} \cup Secrets
  BY DEF MaybeAC, MaybeTR, Secrets
<1>3. Hash[k] \in {None} \cup Secrets
  BY <1>1, <1>2 DEF Kinds
<1>4. /\ Status(k) \in {None} \cup Secrets /\ Current(k) \in {None} \cup Secrets
      /\ Mem(k) \in {None} \cup Secrets
  BY <1>2 DEF TypeOK, CRType, Status, Current, Mem
<1>. QED  BY <1>3, <1>4 DEF TypeOK

(* While the instance is served no deletion is in flight. *)
LEMMA ServingFacts ==
  ASSUME HeldInv, Serving
  PROVE  ctl.pc \notin Deleting /\ (ctl.pc # "idle" => ctl.mem.fin)
BY DEF HeldInv, Serving

(* A step that leaves the rendered objects and the names alone. *)
LEMMA SameRendering ==
  ASSUME NEW k \in Kinds, Status(k)' = Status(k), Current(k)' = Current(k),
         UNCHANGED <<config, depl, pods>>
  PROVE  /\ Rendering(k) => Rendering(k)'
         /\ Done(k)' = Done(k) /\ Untouched(k)' = Untouched(k)
BY DEF Rendering, Done, Untouched

(* ... and takes no finalizer from the tracked secret. *)
LEMMA SameSafe ==
  ASSUME TypeOK, NEW k \in Kinds, Status(k)' = Status(k), Current(k)' = Current(k),
         Done(k) => Done(k)', Safe(k),
         \A x \in Secrets : sec'[x].life = sec[x].life,
         \/ Status(k) = None
         \/ sec[Status(k)].fin => sec'[Status(k)].fin
         \/ Status(k) # Current(k) /\ Done(k)
  PROVE  Safe(k)'
<1>1. Status(k) \in {None} \cup Secrets /\ Current(k) \in {None} \cup Secrets
  BY KindTypes
<1>. QED  BY <1>1 DEF Safe, Live

(* A secret is superseded by another: nothing has been rendered from that, *)
(* neither by the reconcile in flight.                                     *)
LEMMA Rotation ==
  ASSUME TypeOK, NEW k \in Kinds, Rendering(k), Safe(k), Carrying(k),
         Status(k) = Current(k), Status(k)' = Status(k),
         \A p \in Replicas : pods[p].tmpl # None => pods[p].tmpl[k] = Status(k),
         UNCHANGED <<config, depl, pods, ctl>>,
         \A x \in Secrets : sec'[x].fin = sec[x].fin /\ (Live(x) => sec'[x].life = "live"),
         Current(k)' # None => Live(Current(k))'
  PROVE  Rendering(k)' /\ Untouched(k)' /\ Safe(k)' /\ Carrying(k)'
<1>1. Status(k) \in {None} \cup Secrets
  BY KindTypes
<1>2. Rendering(k)' /\ Untouched(k)'
  BY DEF Rendering, Untouched
<1>3. Safe(k)'
  BY <1>1 DEF Safe, Live
<1>4. Hash' = Hash /\ Mem(k)' = Mem(k)
  BY DEF Hash, Mem
<1>5. Carrying(k)'
  BY <1>2, <1>4 DEF Carrying
<1>. QED  BY <1>2, <1>3, <1>5

(* At first no pod runs and nothing is tracked. *)
LEMMA InitUse == ASSUME Init PROVE UseInv
<1>1. PICK a \in MaybeAC :
         /\ cr = NewCR(a)
         /\ sec = [s \in Secrets |-> [life |-> IF s = a THEN "live" ELSE "unborn", fin |-> FALSE]]
  BY DEF Init
<1>2. cr.ac = a /\ cr.ceil = FALSE /\ cr.sac = None /\ cr.str = None /\ ctl.pc = "idle"
  BY <1>1, NewFacts, IdleFacts DEF Init
<1>3. \A k \in Kinds : Status(k) = None /\ config[k] = None
  BY <1>2 DEF Status, Kinds, Init, NoInputs
<1>4. \A p \in Replicas : pods[p].tmpl = None /\ pods[p].cred = NoInputs
  BY DEF Init, NoPod
<1>5. depl = None /\ tu.name = None
  BY DEF Init
<1>6. Live(a) \/ a = None
  BY <1>1 DEF Live, MaybeAC, Secrets
<1>7. \A k \in Kinds : Rendering(k)
  BY <1>3, <1>4, <1>5 DEF Rendering, Kinds, NoInputs
<1>8. \A k \in Kinds : Safe(k)
  BY <1>2, <1>3, <1>5, <1>6 DEF Safe, Current, Kinds
<1>9. \A k \in Kinds : Carrying(k)
  BY <1>2 DEF Carrying, Working, Written, Rolled, Guarded, Judged
<1>10. CredentialInv /\ TransportInv /\ FlightInv
  BY <1>2, <1>5 DEF CredentialInv, TransportInv, FlightInv, Normal, Working, Written, Guarded
<1>. QED  BY <1>4, <1>7, <1>8, <1>9, <1>10 DEF UseInv, PodInv, InUse, KindInv

(* What a step can only do to an instance that is not served. *)
LEMMA ServingStays == ASSUME TypeOK, HeldInv, Next, Serving' PROVE Serving
<1>1. ASSUME Owners PROVE Serving
  BY <1>1 DEF Owners, RotateAC, ToggleCeilometer, IssueTransport, Revoke, DeleteCR, Serving
<1>2. ASSUME Kubernetes \/ CallFails \/ Crash PROVE Serving
  BY <1>2 DEF Kubernetes, CallFails, Crash, Sync, Resync, Collect, Rollout, RestartContainer,
     Serving
<1>3. ASSUME Reconcile, cr' = cr PROVE Serving
  BY <1>3 DEF Serving
<1>4. ASSUME PatchInstance PROVE Serving
  <2> DEFINE new == Merge(cr, ctl.base, ctl.mem)
  <2>1. new \in CRType /\ new.del = cr.del
    BY DEF Merge, TypeOK, CRType
  <2>2. cr' = IF cr.exists THEN [new EXCEPT !.exists = ~(new.del /\ ~new.fin)] ELSE cr
    BY <1>4 DEF PatchInstance
  <2> HIDE DEF new
  <2>. QED  BY <2>1, <2>2 DEF Serving, CRType
<1>5. ASSUME Reconcile PROVE cr' = cr \/ PatchInstance
  BY <1>5 DEF Reconcile, ReconcileGone, ReconcileNew, ReconcileDelete, ReconcileNormal, Begin,
     Transport, ReadInputs, EnsureConfig, ProtectAC, Deploy, CheckReady, FinalizeTransport,
     DeleteTransport, FinalizeAC, PruneTransport, PruneAC, DeleteReleaseAC,
     DeleteReleaseTransport, DeletePrune, Others
<1>. QED  BY <1>1, <1>2, <1>3, <1>4, <1>5 DEF Next

(* A pod is rolled out or restarts a container: it moves towards what the  *)
(* reconcile has rendered.                                                 *)
LEMMA PodsUse ==
  ASSUME TypeOK, UseInv, NEW p \in Replicas, Rollout(p) \/ RestartContainer(p)
  PROVE  UseInv'
<1>1. /\ UNCHANGED <<cr, sec, tu, config, depl, ctl>>
      /\ \A q \in Replicas : q # p => pods'[q] = pods[q]
      /\ pods'[p].cred = config /\ pods'[p].tmpl # None
      /\ pods'[p].tmpl = depl \/ pods'[p].tmpl = pods[p].tmpl
  BY DEF Rollout, RestartContainer, TypeOK
<1>2. PodInv'
  BY <1>1 DEF UseInv, PodInv
<1>3. ASSUME Serving PROVE InUse'
  <2>1. ASSUME NEW k \in Kinds PROVE KindInv(k)'
    <3>0. Rendering(k) /\ Safe(k) /\ Carrying(k)
      BY <1>3 DEF UseInv, InUse, KindInv
    <3>1. /\ Status(k)' = Status(k) /\ Current(k)' = Current(k) /\ Mem(k)' = Mem(k)
          /\ Hash' = Hash
      BY <1>1 DEF Status, Current, Mem, Hash
    <3>2. Rendering(k)'
      BY <1>1, <3>0, <3>1 DEF Rendering
    <3>3. Done(k) => Done(k)'
      BY <1>1, <3>0, <3>1 DEF Rendering, Done
    <3>4. Untouched(k) => Untouched(k)'
      BY <1>1, <3>0, <3>1 DEF Rendering, Untouched
    <3>5. Safe(k)'
      BY <1>1, <3>0, <3>1, <3>3, SameSafe
    <3>6. Carrying(k)'
      BY <1>1, <3>0, <3>1, <3>3, <3>4 DEF Carrying, Judged, Rolled, Guarded, Written, Working
    <3>. QED  BY <3>2, <3>5, <3>6 DEF KindInv
  <2>2. Untouched("ac") => Untouched("ac")'
    <3>1. Rendering("ac")
      BY <1>3 DEF UseInv, InUse, KindInv, Kinds
    <3>. QED  BY <1>1, <3>1 DEF Rendering, Untouched, Status
  <2>3. Untouched("tr") => Untouched("tr")'
    <3>1. Rendering("tr")
      BY <1>3 DEF UseInv, InUse, KindInv, Kinds
    <3>. QED  BY <1>1, <3>1 DEF Rendering, Untouched, Status
  <2>4. CredentialInv' /\ TransportInv' /\ FlightInv'
    BY <1>1, <1>3, <2>2, <2>3 DEF UseInv, InUse, CredentialInv, TransportInv, FlightInv, Live
  <2>. QED  BY <2>1, <2>4 DEF InUse
<1>. QED  BY <1>1, <1>2, <1>3 DEF UseInv, Serving

(* A rotation that comes only when the last one has settled. *)
LEMMA RotateACUse ==
  ASSUME TypeOK, UseInv, Serving, ~Rapid, NEW s \in MaybeAC, RotateAC(s)
  PROVE  InUse'
<1>0. InUse /\ UNCHANGED <<tu, config, depl, pods, ctl>>
  BY DEF UseInv, RotateAC, world
<1>1. /\ cr.sac = cr.ac /\ \A p \in Replicas : pods[p].tmpl.ac = cr.ac
  BY DEF RotateAC, Settled, Wanted
<1>2. /\ cr'.ac = s /\ cr'.sac = cr.sac /\ cr'.str = cr.str /\ cr'.ceil = cr.ceil
  BY DEF RotateAC, TypeOK, CRType
<1>3. \A x \in Secrets : sec'[x].fin = sec[x].fin /\ (Live(x) => sec'[x].life = "live")
  BY DEF RotateAC, TypeOK, Live
<1>4. s # None => sec'[s].life = "live"
  BY DEF RotateAC, TypeOK, MaybeAC, Secrets
<1>5. KindInv("ac")' /\ Untouched("ac")'
  <2>1. Rendering("ac") /\ Safe("ac") /\ Carrying("ac")
    BY <1>0 DEF InUse, KindInv, Kinds
  <2>2. Status("ac") = cr.ac /\ Current("ac") = cr.ac /\ Status("ac")' = cr.ac
        /\ Current("ac")' = s
    BY <1>1, <1>2 DEF Status, Current
  <2>3. Current("ac")' # None => Live(Current("ac"))'
    BY <1>4, <2>2 DEF Live
  <2>. QED  BY <1>0, <1>1, <1>3, <2>1, <2>2, <2>3, Rotation DEF KindInv, Kinds
<1>6. KindInv("tr")'
  <2>1. Rendering("tr") /\ Safe("tr") /\ Carrying("tr")
    BY <1>0 DEF InUse, KindInv, Kinds
  <2>2. /\ Status("tr")' = Status("tr") /\ Current("tr")' = Current("tr")
        /\ Mem("tr")' = Mem("tr") /\ Hash' = Hash
    BY <1>0, <1>2 DEF Status, Current, Mem, Hash
  <2>3. Rendering("tr")' /\ Done("tr")' = Done("tr") /\ Untouched("tr")' = Untouched("tr")
    BY <1>0, <2>1, <2>2, SameRendering DEF Kinds
  <2>4. Status("tr") \in {None} \cup Secrets /\ Current("tr") \in {None} \cup Secrets
    BY KindTypes DEF Kinds
  <2>5. Safe("tr")'
    BY <1>3, <2>1, <2>2, <2>3, <2>4 DEF Safe, Live
  <2>6. Carrying("tr")'
    BY <1>0, <1>3, <2>1, <2>2, <2>3, <2>4 DEF Carrying
  <2>. QED  BY <2>3, <2>5, <2>6 DEF KindInv
<1>7. CredentialInv'
  <2>1. ctl.mem.ac \in {None} \cup Secrets
    BY DEF TypeOK, CRType, MaybeAC, Secrets
  <2>. QED  BY <1>0, <1>1, <1>2, <1>3, <1>5, <2>1 DEF InUse, CredentialInv
<1>8. TransportInv'
  <2>1. ctl.tr \in {None} \cup Secrets /\ tu.name \in {None} \cup Secrets
    BY DEF TypeOK, MaybeTR, Secrets
  <2>2. Untouched("tr")' = Untouched("tr")
    BY <1>0, <1>2 DEF Untouched, Status
  <2>3. TransportInv
    BY <1>0 DEF InUse
  <2>. QED  BY <1>0, <1>2, <1>3, <2>1, <2>2, <2>3 DEF TransportInv, Live
<1>9. FlightInv'
  BY <1>0, <1>2 DEF InUse, FlightInv
<1>. QED  BY <1>5, <1>6, <1>7, <1>8, <1>9 DEF InUse, Kinds

(* A kind that a step does not concern. *)
LEMMA SameKind ==
  ASSUME TypeOK, NEW k \in Kinds, KindInv(k), UNCHANGED <<config, depl, pods, ctl>>,
         Status(k)' = Status(k), Current(k)' = Current(k),
         \A x \in Secrets : sec'[x].fin = sec[x].fin,
         \A x \in Secrets : Live(x) /\ (sec[x].fin \/ x = Current(k)) => sec'[x].life = "live"
  PROVE  KindInv(k)' /\ Untouched(k)' = Untouched(k)
<1>1. Rendering(k) /\ Safe(k) /\ Carrying(k)
  BY DEF KindInv
<1>2. Mem(k)' = Mem(k) /\ Hash' = Hash
  BY DEF Mem, Hash
<1>3. Rendering(k)' /\ Done(k)' = Done(k) /\ Untouched(k)' = Untouched(k)
  BY <1>1, SameRendering
<1>4. Status(k) \in {None} \cup Secrets /\ Current(k) \in {None} \cup Secrets
  BY KindTypes
<1>5. Safe(k)'
  BY <1>1, <1>3, <1>4 DEF Safe, Live
<1>6. Carrying(k)'
  BY <1>1, <1>2, <1>3, <1>4 DEF Carrying
<1>. QED  BY <1>3, <1>5, <1>6 DEF KindInv

(* Telemetry is switched on or off only after a rotation has ended. *)
LEMMA ToggleUse ==
  ASSUME TypeOK, UseInv, Serving, ~Rapid, ToggleCeilometer
  PROVE  InUse'
<1>0. InUse /\ UNCHANGED <<sec, tu, config, depl, pods, ctl>>
  BY DEF UseInv, ToggleCeilometer, world
<1>1. /\ cr.str = Current("tr") /\ \A p \in Replicas : pods[p].tmpl.tr = cr.str
      /\ cr.ceil => tu.name # None
  BY DEF ToggleCeilometer, Settled, Wanted, Current
<1>2. /\ cr'.ac = cr.ac /\ cr'.sac = cr.sac /\ cr'.str = cr.str /\ cr'.ceil = ~cr.ceil
  BY DEF ToggleCeilometer, TypeOK, CRType
<1>3. KindInv("ac")' /\ Untouched("ac")' = Untouched("ac")
  <2>1. Status("ac")' = Status("ac") /\ Current("ac")' = Current("ac") /\ KindInv("ac")
    BY <1>0, <1>2 DEF Status, Current, InUse, Kinds
  <2>. QED  BY <1>0, <2>1, SameKind DEF Kinds, Live
<1>4. KindInv("tr")' /\ Untouched("tr")'
  <2>1. Rendering("tr") /\ Safe("tr") /\ Carrying("tr")
    BY <1>0 DEF InUse, KindInv, Kinds
  <2>2. Status("tr") = cr.str /\ Status("tr")' = cr.str /\ Current("tr") = cr.str
    BY <1>1, <1>2 DEF Status
  <2>3. Current("tr")' # None => Live(Current("tr"))'
    BY <1>0, <1>2 DEF InUse, TransportInv, Current, Live
  <2>. QED  BY <1>0, <1>1, <2>1, <2>2, <2>3, Rotation DEF KindInv, Kinds, Live
<1>5. CredentialInv' /\ FlightInv'
  BY <1>0, <1>2, <1>3 DEF InUse, CredentialInv, FlightInv
<1>6. TransportInv'
  <2>1. TransportInv
    BY <1>0 DEF InUse
  <2>2. cr.ceil => tu.name = cr.str /\ tu.exists /\ cr.str # None
    BY <1>1, <2>1 DEF TransportInv, Current
  <2>3. ~cr.ceil => cr.str = None
    BY <1>1 DEF Current
  <2>4. cr.ceil \in BOOLEAN /\ ctl.mem.ceil \in BOOLEAN
    BY DEF TypeOK, CRType
  <2>. QED  BY <1>0, <1>2, <1>4, <2>1, <2>2, <2>3, <2>4 DEF TransportInv, Live
<1>. QED  BY <1>3, <1>4, <1>5, <1>6 DEF InUse, Kinds

(* A transport secret is the first, or comes after a rotation has ended. *)
LEMMA IssueUse ==
  ASSUME TypeOK, UseInv, Serving, ~Rapid, NEW t \in TRs, IssueTransport(t)
  PROVE  InUse'
<1>0. InUse /\ UNCHANGED <<cr, config, depl, pods, ctl>>
  BY DEF UseInv, IssueTransport
<1>1. \A x \in Secrets : sec'[x].fin = sec[x].fin /\ (Live(x) => sec'[x].life = "live")
  BY DEF IssueTransport, TypeOK, Live
<1>2. t # None /\ sec'[t].life = "live" /\ tu'.name = t /\ tu.exists /\ tu'.exists
  BY NoneFacts DEF IssueTransport, TypeOK, Secrets
<1>3. TransportInv
  BY <1>0 DEF InUse
<1>4. tu.name # None => cr.str = Current("tr") /\ \A p \in Replicas : pods[p].tmpl.tr = cr.str
  BY DEF IssueTransport, Settled, Wanted, Current
<1>5. KindInv("ac")' /\ Untouched("ac")' = Untouched("ac")
  <2>1. Status("ac")' = Status("ac") /\ Current("ac")' = Current("ac") /\ KindInv("ac")
    BY <1>0 DEF Status, Current, InUse, Kinds
  <2>. QED  BY <1>0, <1>1, <2>1, SameKind DEF Kinds
<1>6. ASSUME cr.ceil PROVE KindInv("tr")' /\ Untouched("tr")'
  <2>1. Rendering("tr") /\ Safe("tr") /\ Carrying("tr")
    BY <1>0 DEF InUse, KindInv, Kinds
  <2>2. /\ Status("tr") = cr.str /\ Status("tr")' = cr.str /\ Current("tr") = tu.name
        /\ Current("tr")' = t
    BY <1>0, <1>2, <1>6 DEF Status, Current
  <2>3. Current("tr")' # None => Live(Current("tr"))'
    BY <1>2, <2>2 DEF Live
  <2>4. cr.str = Current("tr")
    BY <1>3, <1>4, <1>6, <2>2 DEF TransportInv
  <2>5. \A p \in Replicas : pods[p].tmpl # None => pods[p].tmpl["tr"] = cr.str
    <3>1. CASE tu.name = None
      BY <2>1, <2>2, <2>4, <3>1 DEF Rendering
    <3>2. CASE tu.name # None
      BY <1>4, <3>2
    <3>. QED  BY <3>1, <3>2
  <2>. QED  BY <1>0, <1>1, <2>1, <2>2, <2>3, <2>4, <2>5, Rotation DEF KindInv, Kinds
<1>7. ASSUME ~cr.ceil PROVE KindInv("tr")' /\ Untouched("tr")' = Untouched("tr")
  <2>1. Status("tr")' = Status("tr") /\ Current("tr")' = Current("tr") /\ KindInv("tr")
    BY <1>0, <1>7 DEF Status, Current, InUse, Kinds
  <2>. QED  BY <1>0, <1>1, <2>1, SameKind DEF Kinds
<1>8. CredentialInv' /\ FlightInv'
  <2>1. ctl.mem.ac \in {None} \cup Secrets
    BY DEF TypeOK, CRType, MaybeAC, Secrets
  <2>. QED  BY <1>0, <1>1, <1>5, <2>1 DEF InUse, CredentialInv, FlightInv
<1>9. TransportInv'
  <2>1. ctl.tr \in {None} \cup Secrets
    BY DEF TypeOK, MaybeTR, Secrets
  <2>2. ~cr.ceil => ~(tu.name # None /\ cr.str # None)
    BY <1>4 DEF Current
  <2>3. cr.ceil => Untouched("tr")'
    BY <1>6
  <2>4. ~cr.ceil => Untouched("tr")' = Untouched("tr")
    BY <1>7
  <2>5. (tu.name # None => Live(tu.name))'
    BY <1>2 DEF Live
  <2>6. ctl.pc \in Working => (IF ctl.mem.ceil THEN ctl.tr # None /\ sec'[ctl.tr].fin
                                               ELSE ctl.tr = None)
    BY <1>1, <1>3, <2>1 DEF TransportInv
  <2>7. ASSUME ctl.pc \in Normal, ctl.mem.ceil # cr.ceil
        PROVE  ~ctl.mem.ceil /\ cr.ceil /\ cr.str = None
    <3>1. cr.ceil \in BOOLEAN /\ ctl.mem.ceil \in BOOLEAN
      BY DEF TypeOK, CRType
    <3>. QED  BY <1>3, <2>2, <2>7, <3>1 DEF TransportInv
  <2>. QED  BY <1>0, <1>2, <1>3, <2>3, <2>5, <2>6, <2>7 DEF TransportInv
<1>. QED  BY <1>5, <1>6, <1>7, <1>8, <1>9 DEF InUse, Kinds

(* Revoked is only what neither carries a finalizer nor is current. *)
LEMMA RevokeUse ==
  ASSUME TypeOK, UseInv, Serving, NEW s \in Secrets, Revoke(s)
  PROVE  InUse'
<1>0. InUse /\ UNCHANGED <<cr, tu, config, depl, pods, ctl>>
  BY DEF UseInv, Revoke, world
<1>1. /\ \A x \in Secrets : sec'[x].fin = sec[x].fin /\ (Live(x) /\ x # s => sec'[x].life = "live")
      /\ ~sec[s].fin /\ s # tu.name /\ s # cr.ac /\ s # None
  BY DEF Revoke, TypeOK, Live, Serving
<1>2. ASSUME NEW k \in Kinds PROVE KindInv(k)' /\ Untouched(k)' = Untouched(k)
  <2>1. Status(k)' = Status(k) /\ Current(k)' = Current(k) /\ KindInv(k)
    BY <1>0 DEF Status, Current, InUse
  <2>2. s # Current(k)
    BY <1>1 DEF Current
  <2>3. \A x \in Secrets : Live(x) /\ (sec[x].fin \/ x = Current(k)) => sec'[x].life = "live"
    BY <1>1, <2>2
  <2>. QED  BY <1>0, <1>1, <2>1, <2>3, SameKind
<1>3. CredentialInv' /\ FlightInv'
  <2>1. ctl.mem.ac \in {None} \cup Secrets
    BY DEF TypeOK, CRType, MaybeAC, Secrets
  <2>. QED  BY <1>0, <1>1, <1>2, <2>1 DEF InUse, CredentialInv, FlightInv, Kinds
<1>4. TransportInv'
  <2>1. ctl.tr \in {None} \cup Secrets /\ tu.name \in {None} \cup Secrets
    BY DEF TypeOK, MaybeTR, Secrets
  <2>2. TransportInv
    BY <1>0 DEF InUse
  <2>3. (tu.name # None => Live(tu.name))'
    BY <1>0, <1>1, <2>1, <2>2 DEF TransportInv, Live
  <2>. QED  BY <1>0, <1>1, <1>2, <2>1, <2>2, <2>3 DEF TransportInv, Kinds
<1>. QED  BY <1>2, <1>3, <1>4 DEF InUse

(* Rotations, revocations and deletion keep UseInv. *)
LEMMA OwnerUse ==
  ASSUME TypeOK, HeldInv, UseInv, ~Rapid, Owners
  PROVE  UseInv'
<1>1. PodInv'
  BY DEF UseInv, PodInv, Owners, RotateAC, ToggleCeilometer, IssueTransport, Revoke, DeleteCR, world
<1>2. ASSUME Serving' PROVE InUse'
  <2>1. Serving
    BY <1>2, ServingStays DEF Next
  <2>2. ~DeleteCR
    BY <1>2 DEF DeleteCR, Serving, TypeOK, CRType
  <2>. QED  BY <2>1, <2>2, RotateACUse, ToggleUse, IssueUse, RevokeUse DEF Owners
<1>. QED  BY <1>1, <1>2 DEF UseInv

----------------------------------------------------------------------------
(* Steps of a reconcile.  A step that leaves the rendered objects alone    *)
(* and the finalizers of the two secrets in use where they are: *)
LEMMA StepKind ==
  ASSUME TypeOK, NEW k \in Kinds, KindInv(k), ctl.pc # "idle",
         UNCHANGED <<cr, config, depl, pods>>, Current(k)' = Current(k), Mem(k)' = Mem(k),
         \A x \in Secrets : sec'[x].life = sec[x].life,
         \A x \in {Status(k), Current(k)} \ {None} : sec[x].fin => sec'[x].fin,
         ctl'.pc \in Working => /\ Hash'[k] \in {Current(k), Status(k)}
                                /\ Hash'[k] # Current(k) => Untouched(k),
         ctl'.pc \in Written => config[k] = Hash'[k],
         ctl'.pc \in Rolled => depl # None /\ depl[k] = Hash'[k],
         ctl'.pc \in Judged /\ ctl'.ok =>
            \A p \in Replicas : pods[p].tmpl # None /\ pods[p].tmpl[k] = Hash'[k]
  PROVE  KindInv(k)' /\ Untouched(k)' = Untouched(k)
<1>1. Rendering(k) /\ Safe(k) /\ Carrying(k)
  BY DEF KindInv
<1>2. Status(k)' = Status(k)
  BY DEF Status
<1>3. Rendering(k)' /\ Done(k)' = Done(k) /\ Untouched(k)' = Untouched(k)
  BY <1>1, <1>2, SameRendering
<1>4. Safe(k)'
  BY <1>1, <1>2, <1>3, SameSafe
<1>5. ctl'.pc \in Working => Hash'[k] \in {Current(k)', Status(k)'}
                             /\ (Hash'[k] # Current(k)' => Untouched(k)')
  BY <1>2, <1>3
<1>6. Mem(k)' # Status(k)' =>
         /\ Mem(k)' = Current(k)' /\ config'[k] = Current(k)'
         /\ depl' # None /\ depl'[k] = Current(k)'
         /\ Current(k)' # None => sec'[Current(k)'].fin
         /\ Status(k)' = None \/ Done(k)'
  BY <1>1, <1>2, <1>3 DEF Carrying
<1>7. Carrying(k)'
  BY <1>5, <1>6 DEF Carrying
<1>. QED  BY <1>3, <1>4, <1>7 DEF KindInv

(* The point only moves on: what has been rendered stays rendered. *)
Onward ==
    /\ ctl.pc # "idle" /\ UNCHANGED <<cr, tu>> /\ Hash' = Hash
    /\ ctl'.pc \in Working => ctl.pc \in Working
    /\ ctl'.pc \in Written => ctl.pc \in Written
    /\ ctl'.pc \in Rolled => ctl.pc \in Rolled
    /\ ctl'.pc \in Judged => ctl.pc \in Judged /\ ctl'.ok = ctl.ok

(* A step onwards that keeps the finalizers in use keeps KindInv. *)
LEMMA OnwardKind ==
  ASSUME TypeOK, NEW k \in Kinds, KindInv(k), Onward, Mem(k)' = Mem(k),
         UNCHANGED <<config, depl, pods>>,
         \A x \in Secrets : sec'[x].life = sec[x].life,
         \A x \in {Status(k), Current(k)} \ {None} : sec[x].fin => sec'[x].fin
  PROVE  KindInv(k)' /\ Untouched(k)' = Untouched(k)
<1>1. Carrying(k) /\ Current(k)' = Current(k)
  BY DEF KindInv, Current, Onward
<1>2. /\ ctl'.pc \in Working => Hash'[k] \in {Current(k), Status(k)}
                                /\ (Hash'[k] # Current(k) => Untouched(k))
      /\ ctl'.pc \in Written => config[k] = Hash'[k]
      /\ ctl'.pc \in Rolled => depl # None /\ depl[k] = Hash'[k]
      /\ ctl'.pc \in Judged /\ ctl'.ok =>
            \A p \in Replicas : pods[p].tmpl # None /\ pods[p].tmpl[k] = Hash'[k]
  BY <1>1 DEF Carrying, Onward
<1>. QED  BY <1>1, <1>2, StepKind DEF Onward

(* When a step of the reconcile keeps the transport part. *)
LEMMA StepTransport ==
  ASSUME TypeOK, TransportInv, UNCHANGED <<cr, tu>>, Untouched("tr") => Untouched("tr")',
         \A x \in Secrets : sec'[x].life = sec[x].life,
         ctl'.mem.ceil = ctl.mem.ceil, ctl'.pc # "transport",
         ctl'.pc \in Normal => ctl.pc \in Normal,
         ctl'.pc \in Working => /\ ctl.pc \in Working /\ ctl'.tr = ctl.tr
                                /\ ctl.tr # None => (sec[ctl.tr].fin => sec'[ctl.tr].fin),
         ctl'.pc = "deltu" => ~ctl.mem.ceil /\ ctl'.mem.str # None /\ ctl'.ok
  PROVE  TransportInv'
<1>1. tu.name \in {None} \cup Secrets
  BY DEF TypeOK, MaybeTR, Secrets
<1>. QED  BY <1>1 DEF TransportInv, Live

(* When a step of the reconcile keeps the credential part. *)
LEMMA StepCredential ==
  ASSUME TypeOK, CredentialInv, UNCHANGED cr, Untouched("ac") => Untouched("ac")',
         ctl'.mem.ac = ctl.mem.ac, ctl'.pc # "transport",
         ctl'.pc \in Guarded /\ ctl.mem.ac # None =>
            (ctl.pc \in Guarded /\ sec[ctl.mem.ac].fin => sec'[ctl.mem.ac].fin),
         ctl'.pc \in Guarded /\ ctl.mem.ac # None /\ ctl.pc \notin Guarded => sec'[ctl.mem.ac].fin
  PROVE  CredentialInv'
BY DEF CredentialInv

(* When a step of the reconcile keeps what it has in flight. *)
LEMMA StepFlight ==
  ASSUME FlightInv, UNCHANGED cr, ctl.pc # "idle", ctl'.base = ctl.base,
         ctl'.pc \in Normal \ {"prunetr", "pruneac"} =>
            ctl.pc \in Normal \ {"prunetr", "pruneac"} /\ ctl'.mem.sac = ctl.mem.sac,
         ctl'.pc \in Normal \ {"finac", "prunetr", "pruneac"} =>
            ctl.pc \in Normal \ {"finac", "prunetr", "pruneac"} /\ ctl'.mem.str = ctl.mem.str
  PROVE  FlightInv'
BY DEF FlightInv

(* A call fails, the operator restarts, or the cache is brought up to date. *)
LEMMA KubernetesUse ==
  ASSUME TypeOK, HeldInv, UseInv, Kubernetes \/ CallFails \/ Crash
  PROVE  UseInv'
<1>1. ASSUME Sync \/ Resync PROVE UseInv'
  <2>1. UNCHANGED <<cr, sec, tu, config, depl, pods, ctl>>
    BY <1>1 DEF Sync, Resync, world
  <2>2. ASSUME NEW k \in Kinds, KindInv(k) PROVE KindInv(k)'
    BY <2>1, <2>2 DEF KindInv, Rendering, Safe, Carrying, Done, Untouched, Live, Status, Current,
       Mem, Hash
  <2>3. CredentialInv /\ TransportInv /\ FlightInv => (CredentialInv /\ TransportInv /\ FlightInv)'
    BY <2>1 DEF CredentialInv, TransportInv, FlightInv, Untouched, Status, Live
  <2>. QED  BY <2>1, <2>2, <2>3 DEF UseInv, PodInv, Serving, InUse
<1>2. ASSUME Collect PROVE UseInv'
  BY <1>2 DEF Collect, UseInv, PodInv, NoPod, Serving
<1>3. ASSUME CallFails PROVE UseInv'
  <2>1. /\ ctl'.pc = "patch" /\ ctl'.mem = ctl.mem /\ ctl'.base = ctl.base /\ ctl'.tr = ctl.tr
        /\ UNCHANGED <<cr, sec, tu, config, depl, pods>> /\ ctl.pc # "idle"
    BY <1>3, RequeueFacts DEF CallFails, TypeOK, CtlType, world
  <2>2. Onward
    BY <2>1 DEF Onward, Hash, Working, Written, Guarded, Rolled, Judged
  <2>3. ASSUME NEW k \in Kinds, KindInv(k) PROVE KindInv(k)'
    BY <2>1, <2>2, <2>3, OnwardKind DEF Mem
  <2>4. CredentialInv /\ TransportInv /\ FlightInv => (CredentialInv /\ TransportInv /\ FlightInv)'
    BY <2>1 DEF CredentialInv, TransportInv, FlightInv, Live, Normal, Working, Written, Guarded
  <2>. QED  BY <2>1, <2>3, <2>4 DEF UseInv, PodInv, Serving, InUse
<1>4. ASSUME Crash PROVE UseInv'
  <2>1. ctl'.pc = "idle" /\ UNCHANGED <<cr, sec, tu, config, depl, pods>>
    BY <1>4, IdleFacts DEF Crash, world
  <2>2. ASSUME NEW k \in Kinds, KindInv(k) PROVE KindInv(k)'
    BY <2>1, <2>2 DEF KindInv, Rendering, Safe, Carrying, Done, Live, Status, Current,
       Working, Written, Guarded, Rolled, Judged
  <2>3. CredentialInv /\ TransportInv /\ FlightInv => (CredentialInv /\ TransportInv /\ FlightInv)'
    BY <2>1 DEF CredentialInv, TransportInv, FlightInv, Live, Normal, Working, Written, Guarded
  <2>. QED  BY <2>1, <2>2, <2>3 DEF UseInv, PodInv, Serving, InUse
<1>. QED  BY <1>1, <1>2, <1>3, <1>4, PodsUse DEF Kubernetes

(* A reconcile begins: as the cache is current, with the instance as it is. *)
LEMMA BeginUse ==
  ASSUME TypeOK, UseInv, Serving, ~Stale, NEW pc \in {"patch", "transport"}, Begin(pc, TRUE)
  PROVE  InUse'
<1>1. /\ ctl'.pc = pc /\ ctl'.base = cr /\ ctl'.mem.ac = cr.ac /\ ctl'.mem.ceil = cr.ceil
      /\ ctl'.mem.sac = cr.sac /\ ctl'.mem.str = cr.str /\ ctl'.tr = None
      /\ UNCHANGED <<cr, sec, tu, config, depl, pods>>
  BY BeginFacts DEF Points, world
<1>2. ASSUME NEW k \in Kinds PROVE KindInv(k)'
  <2>1. Rendering(k) /\ Safe(k)
    BY DEF UseInv, InUse, KindInv
  <2>2. Mem(k)' = Status(k)'
    BY <1>1 DEF Mem, Status
  <2>3. Rendering(k)' /\ Safe(k)'
    BY <1>1, <2>1 DEF Rendering, Safe, Done, Live, Status, Current
  <2>4. Carrying(k)'
    BY <1>1, <2>2 DEF Carrying, Working, Written, Guarded, Rolled, Judged
  <2>. QED  BY <2>3, <2>4 DEF KindInv
<1>3. CredentialInv' /\ FlightInv'
  BY <1>1 DEF CredentialInv, FlightInv, Guarded, Written, Working
<1>4. TransportInv'
  BY <1>1 DEF UseInv, InUse, TransportInv, Live, Working
<1>. QED  BY <1>2, <1>3, <1>4 DEF InUse

(* The TransportURL is read: what it names is current, or still tracked    *)
(* when the instance has been changed since the reconcile began.           *)
LEMMA TransportUse ==
  ASSUME TypeOK, UseInv, Serving, Transport
  PROVE  InUse'
<1>0. /\ InUse /\ ctl \in CtlType /\ sec \in SecType /\ ctl.pc = "transport"
      /\ UNCHANGED <<cr, config, depl, pods>>
  BY DEF UseInv, TypeOK, CtlType, SecType, Transport, Others
<1>1. /\ TransportInv /\ CredentialInv /\ FlightInv
      /\ \A k \in Kinds : KindInv(k)
  BY <1>0 DEF InUse
<1>2. tu.name \in {None} \cup Secrets
  BY DEF TypeOK, MaybeTR, Secrets
<1>3. Hash = [ac |-> ctl.mem.ac, tr |-> ctl.tr] /\ Hash' = [ac |-> ctl'.mem.ac, tr |-> ctl'.tr]
  BY DEF Hash
<1>4. ASSUME Requeue, sec' = sec,
             \/ tu' = tu
             \/ ctl.mem.ceil /\ ~tu.exists /\ tu' = [exists |-> TRUE, name |-> None]
      PROVE  InUse'
  <2>1. /\ ctl'.pc = "patch" /\ ctl'.mem = ctl.mem /\ ctl'.base = ctl.base
    BY <1>0, <1>4, RequeueFacts
  <2>2. tu'.name = tu.name
    BY <1>1, <1>4 DEF TransportInv
  <2>3. ASSUME NEW k \in Kinds PROVE KindInv(k)'
    <3>1. Current(k)' = Current(k) /\ Mem(k)' = Mem(k)
      BY <1>0, <2>1, <2>2 DEF Current, Mem
    <3>2. ctl'.pc \notin Working /\ ctl'.pc \notin Written /\ ctl'.pc \notin Rolled
          /\ ctl'.pc \notin Judged
      BY <2>1 DEF Working, Written, Guarded, Rolled, Judged
    <3>. QED  BY <1>0, <1>1, <1>4, <3>1, <3>2, StepKind
  <2>4. CredentialInv' /\ FlightInv'
    BY <1>0, <1>1, <2>1 DEF CredentialInv, FlightInv, Guarded, Written, Working, Normal
  <2>5. TransportInv'
    BY <1>0, <1>1, <1>4, <2>1, <2>2 DEF TransportInv, Live, Working, Normal
  <2>. QED  BY <2>3, <2>4, <2>5 DEF InUse
<1>5. ASSUME ctl'.pc = "inputs", ctl'.mem = ctl.mem, ctl'.base = ctl.base, tu' = tu,
             IF ctl.mem.ceil THEN ctl'.tr = tu.name /\ tu.name # None /\ sec'[tu.name].fin
                             ELSE ctl'.tr = None,
             \A x \in Secrets : sec'[x].life = sec[x].life /\ (sec[x].fin => sec'[x].fin)
      PROVE  InUse'
  <2>0. ctl'.pc \in Working /\ ctl'.pc \notin Written /\ ctl'.pc \notin Rolled
        /\ ctl'.pc \notin Judged /\ ctl'.pc \notin Guarded
    BY <1>5 DEF Working, Written, Guarded, Rolled, Judged
  <2>1. ASSUME NEW k \in Kinds, Hash'[k] \in {Current(k), Status(k)},
               Hash'[k] # Current(k) => Untouched(k)
        PROVE  KindInv(k)' /\ Untouched(k)' = Untouched(k)
    <3>1. Current(k)' = Current(k) /\ Mem(k)' = Mem(k)
      BY <1>0, <1>5 DEF Current, Mem
    <3>2. \A x \in {Status(k), Current(k)} \ {None} : sec[x].fin => sec'[x].fin
      BY <1>5, KindTypes
    <3>. QED  BY <1>0, <1>1, <1>5, <2>0, <2>1, <3>1, <3>2, StepKind
  <2>2. KindInv("ac")' /\ Untouched("ac")' = Untouched("ac")
    <3>1. Hash'["ac"] = ctl.mem.ac /\ Current("ac") = cr.ac /\ Status("ac") = cr.sac
      BY <1>3, <1>5 DEF Current, Status
    <3>. QED  BY <1>0, <1>1, <2>1, <3>1 DEF CredentialInv, Kinds
  <2>3. KindInv("tr")' /\ Untouched("tr")' = Untouched("tr")
    <3>1. Hash'["tr"] = ctl'.tr /\ Status("tr") = cr.str
      BY <1>3 DEF Status
    <3>2. ctl.mem.ceil = cr.ceil => ctl'.tr = Current("tr")
      BY <1>5 DEF Current
    <3>3. ctl.mem.ceil # cr.ceil => ctl'.tr = cr.str /\ Untouched("tr")
      BY <1>0, <1>1, <1>5 DEF TransportInv, Normal
    <3>. QED  BY <2>1, <3>1, <3>2, <3>3 DEF Kinds
  <2>4. CredentialInv' /\ FlightInv'
    BY <1>0, <1>1, <1>5, <2>0 DEF CredentialInv, FlightInv, Normal
  <2>5. TransportInv'
    BY <1>0, <1>1, <1>2, <1>5, <2>0, <2>3 DEF TransportInv, Live, Normal
  <2>. QED  BY <2>2, <2>3, <2>4, <2>5 DEF InUse, Kinds
<1>6. CASE ~ctl.mem.ceil
  <2>1. Goto("inputs") /\ UNCHANGED <<sec, tu>>
    BY <1>6 DEF Transport
  <2>2. /\ ctl'.pc = "inputs" /\ ctl'.mem = ctl.mem /\ ctl'.base = ctl.base /\ ctl'.tr = ctl.tr
    BY <1>0, <2>1, GotoFacts DEF Points
  <2>3. ctl.tr = None
    BY <1>0, <1>1 DEF TransportInv
  <2>. QED  BY <1>5, <1>6, <2>1, <2>2, <2>3
<1>7. CASE ctl.mem.ceil /\ tu.exists /\ Live(tu.name)
  <2>1. Protect(tu.name) /\ tu' = tu /\ ctl' = [ctl EXCEPT !.pc = "inputs", !.tr = tu.name]
    BY <1>7 DEF Transport
  <2>2. /\ ctl'.pc = "inputs" /\ ctl'.mem = ctl.mem /\ ctl'.base = ctl.base
        /\ ctl'.tr = tu.name
    BY <1>0, <2>1 DEF CtlType
  <2>3. tu.name \in Secrets /\ tu.name # None
    BY <1>2, <1>7 DEF Live
  <2>. QED  BY <1>0, <1>5, <1>7, <2>1, <2>2, <2>3, ProtectFacts
<1>8. CASE ctl.mem.ceil /\ ~(tu.exists /\ Live(tu.name))
  BY <1>4, <1>8 DEF Transport
<1>. QED  BY <1>6, <1>7, <1>8

(* Reading the inputs, judging the rollout and protecting the credential   *)
(* leave the rendered objects alone.                                       *)
LEMMA QuietUse ==
  ASSUME TypeOK, UseInv, Serving, ReadInputs \/ ProtectAC \/ CheckReady
  PROVE  InUse'
<1>0. /\ InUse /\ ctl \in CtlType /\ sec \in SecType
      /\ UNCHANGED <<cr, tu, config, depl, pods>>
  BY DEF UseInv, TypeOK, CtlType, SecType, ReadInputs, ProtectAC, CheckReady, Others, world
<1>1. /\ TransportInv /\ CredentialInv /\ FlightInv
      /\ \A k \in Kinds : KindInv(k)
  BY <1>0 DEF InUse
<1>2. /\ ctl'.mem = ctl.mem /\ ctl'.base = ctl.base /\ ctl'.tr = ctl.tr
      /\ \/ ctl.pc = "inputs" /\ ctl'.pc \in {"config", "patch"}
         \/ ctl.pc = "acfin" /\ ctl'.pc \in {"deploy", "patch"}
         \/ ctl.pc = "ready" /\ ctl'.pc = "fintr" /\ CheckReady
  <2>1. CASE ReadInputs
    BY <1>0, <2>1, GotoFacts, RequeueFacts DEF ReadInputs, Points
  <2>2. CASE ProtectAC
    BY <1>0, <2>2, GotoFacts, RequeueFacts DEF ProtectAC, Points
  <2>3. CASE CheckReady
    BY <1>0, <2>3 DEF CheckReady, CtlType
  <2>. QED  BY <2>1, <2>2, <2>3
<1>3. /\ \A x \in Secrets : sec'[x].life = sec[x].life /\ (sec[x].fin => sec'[x].fin)
      /\ ctl'.pc = "deploy" /\ ctl.mem.ac # None => sec'[ctl.mem.ac].fin
  <2>1. Live(ctl.mem.ac) => ctl.mem.ac \in Secrets
    BY DEF Live, TypeOK, CRType, MaybeAC, Secrets
  <2>2. CASE ProtectAC
    <3>1. CASE Protect(ctl.mem.ac) /\ Live(ctl.mem.ac)
      BY <1>0, <2>1, <3>1, ProtectFacts
    <3>2. CASE UNCHANGED sec /\ Goto("deploy") /\ ctl.mem.ac = None
      BY <3>2
    <3>3. CASE UNCHANGED sec /\ Requeue
      BY <1>0, <3>3, RequeueFacts
    <3>. QED  BY <2>2, <3>1, <3>2, <3>3 DEF ProtectAC
  <2>3. CASE ReadInputs \/ CheckReady
    <3>1. sec' = sec /\ ctl'.pc # "deploy"
      BY <1>2, <2>3 DEF ReadInputs, CheckReady
    <3>. QED  BY <3>1
  <2>. QED  BY <2>2, <2>3
<1>4. Hash' = Hash
  BY <1>2 DEF Hash
<1>5. ASSUME NEW k \in Kinds PROVE KindInv(k)' /\ Untouched(k)' = Untouched(k)
  <2>1. Current(k)' = Current(k) /\ Mem(k)' = Mem(k) /\ Carrying(k)
    BY <1>0, <1>1, <1>2 DEF Current, Mem, KindInv
  <2>2. \A x \in {Status(k), Current(k)} \ {None} : sec[x].fin => sec'[x].fin
    BY <1>3, KindTypes
  <2>3. /\ ctl'.pc \in Working => ctl.pc \in Working
        /\ ctl'.pc \in Written => ctl.pc \in Written
        /\ ctl'.pc \in Rolled => ctl.pc \in Rolled
        /\ ctl'.pc \in Judged => CheckReady
    BY <1>2 DEF Working, Written, Guarded, Rolled, Judged
  <2>4. ASSUME CheckReady, ctl'.ok
        PROVE  \A p \in Replicas : pods[p].tmpl # None /\ pods[p].tmpl[k] = Hash'[k]
    <3>1. ctl'.ok = (depl = Hash /\ \A p \in Replicas : pods[p].tmpl = Hash)
      BY <1>0, <2>4 DEF CheckReady, CtlType
    <3>2. Hash # None
      BY HashType, NoneFacts
    <3>. QED  BY <1>4, <2>4, <3>1, <3>2
  <2>5. ctl.pc # "idle"
    BY <1>2
  <2>. QED  BY <1>0, <1>1, <1>3, <1>4, <2>1, <2>2, <2>3, <2>4, <2>5, StepKind DEF Carrying
<1>6. CredentialInv'
  <2>1. ctl.mem.ac \in {None} \cup Secrets
    BY DEF TypeOK, CRType, MaybeAC, Secrets
  <2>. QED
    BY <1>0, <1>1, <1>2, <1>3, <1>5, <2>1, StepCredential DEF Guarded, Written, Working, Kinds
<1>7. TransportInv'
  <2>1. ctl.tr \in {None} \cup Secrets
    BY DEF TypeOK, MaybeTR, Secrets
  <2>. QED
    BY <1>0, <1>1, <1>2, <1>3, <1>5, <2>1, StepTransport DEF Normal, Working, Kinds
<1>8. FlightInv'
  BY <1>0, <1>1, <1>2, StepFlight DEF Normal, Working
<1>. QED  BY <1>5, <1>6, <1>7, <1>8 DEF InUse

(* The configuration and then the Deployment are rendered. *)
LEMMA RenderUse ==
  ASSUME TypeOK, UseInv, Serving, EnsureConfig \/ Deploy
  PROVE  InUse'
<1>0. /\ InUse /\ ctl \in CtlType /\ UNCHANGED <<cr, sec, tu, pods>>
      /\ \/ ctl.pc = "config" /\ Goto("acfin") /\ config' = Hash /\ depl' = depl
         \/ ctl.pc = "deploy" /\ Goto("ready") /\ depl' = Hash /\ config' = config
  BY DEF UseInv, TypeOK, CtlType, EnsureConfig, Deploy
<1>1. /\ TransportInv /\ CredentialInv /\ FlightInv
      /\ \A k \in Kinds : KindInv(k)
  BY <1>0 DEF InUse
<1>2. /\ ctl'.mem = ctl.mem /\ ctl'.base = ctl.base /\ ctl'.tr = ctl.tr
      /\ \/ ctl.pc = "config" /\ ctl'.pc = "acfin" /\ config' = Hash /\ depl' = depl
         \/ ctl.pc = "deploy" /\ ctl'.pc = "ready" /\ depl' = Hash /\ config' = config
  BY <1>0, GotoFacts DEF Points
<1>3. Hash' = Hash /\ Hash # None
  BY <1>2, HashType, NoneFacts DEF Hash
<1>4. ASSUME NEW k \in Kinds PROVE KindInv(k)' /\ (Untouched(k) /\ Hash[k] = Status(k) => Untouched(k)')
  <2>1. Rendering(k) /\ Safe(k) /\ Carrying(k)
    BY <1>1 DEF KindInv
  <2>2. /\ Status(k)' = Status(k) /\ Current(k)' = Current(k)
        /\ Mem(k)' = Status(k)
    BY <1>0, <1>1, <1>2 DEF Status, Current, Mem, FlightInv, Normal, Working
  <2>3. /\ Hash[k] \in {Current(k), Status(k)} /\ (Hash[k] # Current(k) => Untouched(k))
        /\ ctl.pc = "deploy" => config[k] = Hash[k]
    BY <1>2, <2>1 DEF Carrying, Working, Written
  <2>4. Rendering(k)'
    BY <1>0, <1>2, <2>1, <2>2, <2>3 DEF Rendering, Untouched
  <2>5. Status(k) # Current(k) /\ Done(k) => Done(k)'
    BY <1>0, <1>2, <1>3, <2>2, <2>3 DEF Done, Untouched
  <2>6. Safe(k)'
    BY <1>0, <2>1, <2>2, <2>5 DEF Safe, Live
  <2>7. Untouched(k) /\ Hash[k] = Status(k) => Untouched(k)'
    BY <1>0, <1>2, <2>2 DEF Untouched
  <2>8. Carrying(k)'
    <3>1. /\ Hash[k] \in {Current(k)', Status(k)'}
          /\ Hash[k] # Current(k)' => Untouched(k)'
      BY <2>2, <2>3, <2>7
    <3>2. config'[k] = Hash[k] /\ (ctl'.pc = "ready" => depl' # None /\ depl'[k] = Hash[k])
      BY <1>2, <1>3, <2>3
    <3>3. ctl'.pc \notin Judged /\ (ctl'.pc \in Rolled => ctl'.pc = "ready")
      BY <1>2 DEF Judged, Rolled, Guarded, Written, Working
    <3>. QED  BY <1>3, <2>2, <3>1, <3>2, <3>3 DEF Carrying
  <2>. QED  BY <2>4, <2>6, <2>7, <2>8 DEF KindInv
<1>5. CredentialInv'
  BY <1>0, <1>1, <1>2 DEF CredentialInv, Guarded, Written, Working
<1>6. TransportInv'
  <2>1. ctl.mem.ceil # cr.ceil => Untouched("tr")'
    <3>1. ASSUME ctl.mem.ceil # cr.ceil PROVE Untouched("tr")'
      <4>1. Untouched("tr") /\ ctl.tr \in {Current("tr"), cr.str}
        BY <1>1, <1>2, <3>1, HashType DEF TransportInv, KindInv, Carrying, Kinds, Normal, Working,
           Status
      <4>2. ctl.tr = cr.str
        <5>1. cr.ceil \in BOOLEAN /\ ctl.mem.ceil \in BOOLEAN
          BY DEF TypeOK, CRType
        <5>2. CASE ctl.mem.ceil /\ ~cr.ceil
          BY <1>1, <1>2, <4>1, <5>2 DEF TransportInv, Normal, Working, Current
        <5>3. CASE ~ctl.mem.ceil /\ cr.ceil
          BY <1>1, <1>2, <3>1, <5>3 DEF TransportInv, Normal, Working
        <5>. QED  BY <3>1, <5>1, <5>2, <5>3
      <4>3. Hash["tr"] = Status("tr")
        BY <4>2, HashType DEF Status
      <4>. QED  BY <1>4, <4>1, <4>3 DEF Kinds
    <3>. QED  BY <3>1
  <2>. QED  BY <1>0, <1>1, <1>2, <2>1 DEF TransportInv, Normal, Working, Live
<1>7. FlightInv'
  BY <1>0, <1>1, <1>2, StepFlight DEF Normal, Working
<1>. QED  BY <1>4, <1>5, <1>6, <1>7 DEF InUse

(* The secrets of the two kinds differ. *)
LEMMA KindsDiffer ==
  ASSUME TypeOK
  PROVE  /\ \A x \in {Status("ac"), Current("ac")} \ {None} : x \in ACs /\ x \notin TRs
         /\ \A x \in {Status("tr"), Current("tr")} \ {None} : x \in TRs /\ x \notin ACs
         /\ ctl.mem.ac \in MaybeAC /\ ctl.mem.sac \in MaybeAC
         /\ ctl.mem.str \in MaybeTR /\ ctl.tr \in MaybeTR /\ tu.name \in MaybeTR
BY NoneFacts DEF TypeOK, CRType, Status, Current, MaybeAC, MaybeTR

(* A rollout that is judged complete with another secret than the tracked  *)
(* one has left no one on the tracked one.                                 *)
LEMMA JudgedDone ==
  ASSUME NEW k \in Kinds, KindInv(k), ctl.pc \in Judged, ctl.ok, Hash[k] # Status(k)
  PROVE  Done(k) /\ Hash[k] = Current(k) /\ Status(k) # Current(k)
<1>1. Rendering(k) /\ Carrying(k)
  BY DEF KindInv
<1>2. ctl.pc \in Working /\ ctl.pc \in Written /\ ctl.pc \in Rolled
  BY DEF Judged, Working, Written, Guarded, Rolled
<1>3. /\ Hash[k] = Current(k) /\ Status(k) # Current(k) /\ config[k] = Current(k)
      /\ depl # None /\ depl[k] = Current(k)
      /\ \A p \in Replicas : pods[p].tmpl # None /\ pods[p].tmpl[k] = Current(k)
  BY <1>1, <1>2 DEF Carrying
<1>. QED  BY <1>1, <1>3 DEF Rendering, Done

(* FinalizeSecretRotation for one kind. *)
LEMMA FinalizeKind ==
  ASSUME TypeOK, NEW k \in Kinds, KindInv(k), ctl.pc \in {"fintr", "finac"}, Onward,
         UNCHANGED <<config, depl, pods>>, Mem(k) = Status(k),
         \A x \in Secrets : sec'[x].life = sec[x].life,
         \A x \in Secrets : sec[x].fin =>
            sec'[x].fin \/ (x = Status(k) /\ ctl.ok /\ Hash[k] # Status(k)),
         Mem(k)' # Status(k) => /\ Mem(k)' = Hash[k] /\ (ctl.ok \/ Status(k) = None)
                                /\ Hash[k] # None => sec[Hash[k]].fin
  PROVE  KindInv(k)' /\ Untouched(k)' = Untouched(k)
<1>1. Rendering(k) /\ Safe(k) /\ Carrying(k)
  BY DEF KindInv
<1>2. ctl.pc \in Judged /\ ctl.pc \in Working /\ ctl.pc \in Written /\ ctl.pc \in Rolled
  BY DEF Judged, Working, Written, Guarded, Rolled
<1>3. ctl.ok /\ Hash[k] # Status(k) => Status(k) # Current(k) /\ Done(k)
  BY <1>2, JudgedDone
<1>4. Status(k)' = Status(k) /\ Current(k)' = Current(k) /\ Hash' = Hash
  BY DEF Status, Current, Onward
<1>5. Rendering(k)' /\ Done(k)' = Done(k) /\ Untouched(k)' = Untouched(k)
  BY <1>1, <1>4, SameRendering
<1>6. /\ Status(k) \in {None} \cup Secrets /\ Current(k) \in {None} \cup Secrets
      /\ Hash[k] \in {None} \cup Secrets
  BY KindTypes
<1>7. Safe(k)'
  BY <1>1, <1>3, <1>4, <1>5, <1>6, SameSafe
<1>8. Mem(k)' # Status(k)' =>
         /\ Mem(k)' = Current(k)' /\ config'[k] = Current(k)'
         /\ depl' # None /\ depl'[k] = Current(k)'
         /\ Current(k)' # None => sec'[Current(k)'].fin
         /\ Status(k)' = None \/ Done(k)'
  <2>1. ASSUME Mem(k)' # Status(k)
        PROVE  /\ Hash[k] = Current(k) /\ config[k] = Current(k) /\ Hash[k] # Status(k)
               /\ depl # None /\ depl[k] = Current(k)
    BY <1>1, <1>2, <2>1 DEF Carrying
  <2>2. ASSUME Mem(k)' # Status(k), Hash[k] # None PROVE sec'[Hash[k]].fin
    BY <1>6, <2>1, <2>2
  <2>. QED  BY <1>3, <1>4, <1>5, <2>1, <2>2
<1>9. Carrying(k)'
  BY <1>1, <1>4, <1>5, <1>8 DEF Carrying, Onward
<1>. QED  BY <1>5, <1>7, <1>9 DEF KindInv

(* The prune of one kind: what the reconcile renders and what it is going  *)
(* to track are kept.                                                      *)
LEMMA PruneKind ==
  ASSUME TypeOK, NEW k \in Kinds, KindInv(k), Onward, UNCHANGED <<config, depl, pods>>,
         Mem(k)' = Mem(k),
         \A x \in Secrets : sec'[x].life = sec[x].life,
         Mem(k) # None => (sec[Mem(k)].fin => sec'[Mem(k)].fin)
  PROVE  KindInv(k)' /\ Untouched(k)' = Untouched(k)
<1>1. Rendering(k) /\ Safe(k) /\ Carrying(k)
  BY DEF KindInv
<1>2. Status(k)' = Status(k) /\ Current(k)' = Current(k) /\ Hash' = Hash /\ ctl.pc # "idle"
  BY DEF Status, Current, Onward
<1>3. Rendering(k)' /\ Done(k)' = Done(k) /\ Untouched(k)' = Untouched(k)
  BY <1>1, <1>2, SameRendering
<1>4. Safe(k)'
  BY <1>1, <1>2, <1>3, SameSafe DEF Carrying
<1>5. Carrying(k)'
  BY <1>1, <1>2, <1>3 DEF Carrying, Onward
<1>. QED  BY <1>3, <1>4, <1>5 DEF KindInv

(* The old transport secret is released after the rollout only. *)
LEMMA FinalizeTransportUse ==
  ASSUME TypeOK, UseInv, Serving, FinalizeTransport
  PROVE  InUse'
<1>0. /\ InUse /\ ctl \in CtlType /\ sec \in SecType /\ ctl.pc = "fintr"
      /\ UNCHANGED <<cr, tu, config, depl, pods>>
  BY DEF UseInv, TypeOK, CtlType, SecType, FinalizeTransport, Others, world
<1>1. /\ TransportInv /\ CredentialInv /\ FlightInv
      /\ \A k \in Kinds : KindInv(k)
  BY <1>0 DEF InUse
<1>2. /\ ctl.mem.str = cr.str /\ ctl.mem.sac = cr.sac
      /\ IF ctl.mem.ceil THEN ctl.tr # None /\ sec[ctl.tr].fin ELSE ctl.tr = None
  BY <1>0, <1>1 DEF FlightInv, TransportInv, Normal, Working
<1>3. \E drop \in SUBSET TRs :
         /\ \A x \in Secrets : sec'[x].life = sec[x].life /\ (sec[x].fin /\ x \notin drop => sec'[x].fin)
         /\ drop # {} => drop = {cr.str} /\ ctl.ok /\ ctl.tr # cr.str
  <2>1. CASE UNCHANGED sec
    BY <2>1
  <2>2. ASSUME Release({ctl.mem.str}), ctl.ok, ctl.tr # cr.str
        PROVE  \E drop \in SUBSET TRs :
                  /\ \A x \in Secrets : sec'[x].life = sec[x].life
                                        /\ (sec[x].fin /\ x \notin drop => sec'[x].fin)
                  /\ drop # {} => drop = {cr.str} /\ ctl.ok /\ ctl.tr # cr.str
    <3> DEFINE drop == {cr.str} \cap TRs
    <3>1. \A x \in Secrets : sec'[x].life = sec[x].life /\ (sec[x].fin /\ x # cr.str => sec'[x].fin)
      BY <1>0, <1>2, <2>2, ReleaseFacts
    <3>2. cr.str \in {None} \cup TRs /\ None \notin Secrets
      BY NoneFacts DEF TypeOK, CRType, MaybeTR
    <3>. QED  BY <2>2, <3>1, <3>2
  <2>3. ASSUME Release({})
        PROVE  \A x \in Secrets : sec'[x].life = sec[x].life /\ (sec[x].fin => sec'[x].fin)
    BY <1>0, <2>3, ReleaseFacts
  <2>4. CASE ctl.mem.ceil
    <3>1. Release(Superseded(ctl.mem.str, ctl.tr, ctl.ok))
      BY <2>4 DEF FinalizeTransport
    <3>2. CASE ctl.ok /\ ctl.mem.str # ctl.tr
      BY <1>2, <2>2, <3>1, <3>2 DEF Superseded
    <3>3. CASE ~(ctl.ok /\ ctl.mem.str # ctl.tr)
      BY <2>3, <3>1, <3>3 DEF Superseded
    <3>. QED  BY <3>2, <3>3
  <2>5. CASE ~ctl.mem.ceil
    BY <1>2, <2>1, <2>2, <2>5 DEF FinalizeTransport
  <2>. QED  BY <2>4, <2>5
<1>4. /\ ctl'.mem.ac = ctl.mem.ac /\ ctl'.mem.sac = ctl.mem.sac /\ ctl'.mem.ceil = ctl.mem.ceil
      /\ ctl'.base = ctl.base /\ ctl'.tr = ctl.tr /\ ctl'.ok = ctl.ok
      /\ ctl'.pc \in {"finac", "deltu"}
      /\ ctl'.pc = "deltu" => ~ctl.mem.ceil /\ ctl'.mem.str # None /\ ctl.ok
                              /\ ctl'.mem.str = ctl.mem.str
      /\ ctl'.mem.str # cr.str => ctl'.mem.str = ctl.tr /\ (ctl.ok \/ cr.str = None)
  <2>1. CASE ctl.mem.ceil
    <3>1. PICK s \in Tracked(ctl.mem.str, ctl.tr, ctl.ok) :
             ctl' = [ctl EXCEPT !.pc = "finac", !.mem.str = s]
      BY <2>1 DEF FinalizeTransport
    <3>2. s # cr.str => s = ctl.tr /\ (ctl.ok \/ cr.str = None)
      BY <1>0, <1>2, TrackedFacts DEF CtlType
    <3>3. /\ ctl'.mem.ac = ctl.mem.ac /\ ctl'.mem.sac = ctl.mem.sac
          /\ ctl'.mem.ceil = ctl.mem.ceil /\ ctl'.mem.str = s
          /\ ctl'.base = ctl.base /\ ctl'.tr = ctl.tr /\ ctl'.ok = ctl.ok /\ ctl'.pc = "finac"
      BY <1>0, <3>1 DEF CtlType, CRType
    <3>. QED  BY <3>2, <3>3
  <2>2. CASE ~ctl.mem.ceil /\ ctl.mem.str # None /\ ctl.ok
    <3>1. Goto("deltu")
      BY <2>2 DEF FinalizeTransport
    <3>. QED  BY <1>0, <1>2, <2>2, <3>1, GotoFacts DEF Points
  <2>3. CASE ~ctl.mem.ceil /\ ~(ctl.mem.str # None /\ ctl.ok)
    <3>1. Goto("finac")
      BY <2>3 DEF FinalizeTransport
    <3>. QED  BY <1>0, <1>2, <2>3, <3>1, GotoFacts DEF Points
  <2>. QED  BY <2>1, <2>2, <2>3
<1>5. Onward
  BY <1>0, <1>4 DEF Onward, Hash, Working, Written, Guarded, Rolled, Judged
<1>6. PICK drop \in SUBSET TRs :
         /\ \A x \in Secrets : sec'[x].life = sec[x].life /\ (sec[x].fin /\ x \notin drop => sec'[x].fin)
         /\ drop # {} => drop = {cr.str} /\ ctl.ok /\ ctl.tr # cr.str
  BY <1>3
<1>7. KindInv("ac")' /\ Untouched("ac")' = Untouched("ac")
  <2>1. \A x \in {Status("ac"), Current("ac")} \ {None} : sec[x].fin => sec'[x].fin
    BY <1>6, KindsDiffer, NoneFacts
  <2>2. Mem("ac")' = Mem("ac")
    BY <1>4 DEF Mem
  <2>. QED  BY <1>0, <1>1, <1>5, <1>6, <2>1, <2>2, OnwardKind DEF Kinds
<1>8. KindInv("tr")' /\ Untouched("tr")' = Untouched("tr")
  <2>1. /\ Status("tr") = cr.str /\ Mem("tr") = cr.str /\ Mem("tr")' = ctl'.mem.str
        /\ Hash["tr"] = ctl.tr
    BY <1>2, HashType DEF Status, Mem
  <2>2. \A x \in Secrets : sec[x].fin =>
           sec'[x].fin \/ (x = Status("tr") /\ ctl.ok /\ Hash["tr"] # Status("tr"))
    BY <1>6, <2>1
  <2>3. Mem("tr")' # Status("tr") =>
           /\ Mem("tr")' = Hash["tr"] /\ (ctl.ok \/ Status("tr") = None)
           /\ Hash["tr"] # None => sec[Hash["tr"]].fin
    BY <1>2, <1>4, <2>1
  <2>. QED  BY <1>0, <1>1, <1>5, <1>6, <2>1, <2>2, <2>3, FinalizeKind DEF Kinds
<1>9. CredentialInv'
  <2>1. ctl.mem.ac # None => ctl.mem.ac \in Secrets /\ ctl.mem.ac \notin TRs
    BY KindsDiffer, NoneFacts DEF MaybeAC
  <2>. QED
    BY <1>0, <1>1, <1>4, <1>6, <1>7, <2>1, StepCredential DEF Guarded, Written, Working
<1>10. TransportInv'
  <2>1. ctl.tr \in {None} \cup Secrets
    BY DEF TypeOK, MaybeTR, Secrets
  <2>2. ctl.tr # None => (sec[ctl.tr].fin => sec'[ctl.tr].fin)
    BY <1>6, <2>1
  <2>. QED
    BY <1>0, <1>1, <1>4, <1>6, <1>8, <2>2, StepTransport DEF Normal, Working
<1>11. FlightInv'
  BY <1>0, <1>1, <1>4, StepFlight DEF Normal, Working
<1>. QED  BY <1>7, <1>8, <1>9, <1>10, <1>11 DEF InUse, Kinds

(* The TransportURL is deleted once no pod uses what it named. *)
LEMMA DeleteTransportUse ==
  ASSUME TypeOK, UseInv, Serving, DeleteTransport
  PROVE  InUse'
<1>0. /\ InUse /\ ctl \in CtlType /\ ctl.pc = "deltu"
      /\ UNCHANGED <<cr, sec, config, depl, pods>> /\ tu' = [exists |-> FALSE, name |-> None]
  BY DEF UseInv, TypeOK, CtlType, DeleteTransport, Others
<1>1. /\ TransportInv /\ CredentialInv /\ FlightInv
      /\ \A k \in Kinds : KindInv(k)
  BY <1>0 DEF InUse
<1>2. /\ ctl.mem.str = cr.str /\ cr.str # None /\ ~ctl.mem.ceil /\ ctl.tr = None /\ ctl.ok
      /\ ctl.mem.sac = cr.sac
  BY <1>0, <1>1 DEF FlightInv, TransportInv, Normal, Working
<1>3. ~cr.ceil
  BY <1>0, <1>1, <1>2 DEF TransportInv, Normal, Working
<1>4. /\ ctl'.mem.ac = ctl.mem.ac /\ ctl'.mem.sac = ctl.mem.sac /\ ctl'.mem.ceil = ctl.mem.ceil
      /\ ctl'.base = ctl.base /\ ctl'.tr = ctl.tr /\ ctl'.ok = ctl.ok
      /\ ctl'.pc = "finac" /\ ctl'.mem.str = None
  BY <1>0 DEF DeleteTransport, CtlType, CRType
<1>5. Hash' = Hash
  BY <1>4 DEF Hash
<1>6. ctl.pc \in Working /\ ctl.pc \in Written /\ ctl.pc \in Rolled /\ ctl.pc \in Judged
  BY <1>0 DEF Working, Written, Guarded, Rolled, Judged
<1>7. KindInv("ac")' /\ Untouched("ac")' = Untouched("ac")
  <2>1. Mem("ac")' = Mem("ac") /\ Current("ac")' = Current("ac") /\ Carrying("ac")
    BY <1>0, <1>1, <1>4 DEF Mem, Current, KindInv, Kinds
  <2>. QED  BY <1>0, <1>1, <1>4, <1>5, <1>6, <2>1, StepKind DEF Kinds, Carrying
<1>8. KindInv("tr")'
  <2>1. Rendering("tr") /\ Safe("tr") /\ Carrying("tr")
    BY <1>1 DEF KindInv, Kinds
  <2>2. /\ Status("tr") = cr.str /\ Status("tr")' = cr.str /\ Current("tr") = None
        /\ Current("tr")' = None /\ Mem("tr")' = None /\ Hash["tr"] = None
    BY <1>0, <1>2, <1>3, <1>4, HashType DEF Status, Current, Mem
  <2>3. Done("tr")
    BY <1>1, <1>2, <1>6, <2>2, JudgedDone DEF Kinds
  <2>4. Rendering("tr")' /\ Done("tr")' = Done("tr") /\ Untouched("tr")' = Untouched("tr")
    BY <1>0, <2>1, <2>2, SameRendering DEF Kinds
  <2>5. Safe("tr")'
    BY <1>0, <2>1, <2>2, <2>4, SameSafe DEF Kinds
  <2>6. Carrying("tr")'
    BY <1>0, <1>4, <1>5, <1>6, <2>1, <2>2, <2>3, <2>4 DEF Carrying, Done
  <2>. QED  BY <2>4, <2>5, <2>6 DEF KindInv
<1>9. CredentialInv'
  BY <1>0, <1>1, <1>4, <1>7, StepCredential DEF Guarded, Written, Working
<1>10. TransportInv'
  BY <1>0, <1>2, <1>3, <1>4 DEF TransportInv, TypeOK, CRType
<1>11. FlightInv'
  BY <1>0, <1>1, <1>4, StepFlight DEF Normal, Working
<1>. QED  BY <1>7, <1>8, <1>9, <1>10, <1>11 DEF InUse, Kinds

(* The old credential is released after the rollout only. *)
LEMMA FinalizeACUse ==
  ASSUME TypeOK, UseInv, Serving, FinalizeAC
  PROVE  InUse'
<1>0. /\ InUse /\ ctl \in CtlType /\ sec \in SecType /\ ctl.pc = "finac"
      /\ UNCHANGED <<cr, tu, config, depl, pods>>
  BY DEF UseInv, TypeOK, CtlType, SecType, FinalizeAC, Others, world
<1>1. /\ TransportInv /\ CredentialInv /\ FlightInv
      /\ \A k \in Kinds : KindInv(k)
  BY <1>0 DEF InUse
<1>2. /\ ctl.mem.sac = cr.sac
      /\ ctl.mem.ac # None => sec[ctl.mem.ac].fin
  BY <1>0, <1>1 DEF FlightInv, CredentialInv, Normal, Working, Guarded, Written
<1>3. PICK s \in Tracked(ctl.mem.sac, ctl.mem.ac, ctl.ok) :
         /\ ctl' = [ctl EXCEPT !.pc = "prunetr", !.mem.sac = s]
         /\ Release(Superseded(ctl.mem.sac, ctl.mem.ac, ctl.ok))
  BY DEF FinalizeAC
<1>4. s # cr.sac => s = ctl.mem.ac /\ (ctl.ok \/ cr.sac = None)
  BY <1>0, <1>2, TrackedFacts DEF CtlType
<1>5. /\ ctl'.mem.ac = ctl.mem.ac /\ ctl'.mem.sac = s /\ ctl'.mem.ceil = ctl.mem.ceil
      /\ ctl'.mem.str = ctl.mem.str /\ ctl'.base = ctl.base /\ ctl'.tr = ctl.tr
      /\ ctl'.pc = "prunetr"
  BY <1>0, <1>3 DEF CtlType, CRType
<1>6. /\ \A x \in Secrets : sec'[x].life = sec[x].life
      /\ \A x \in Secrets : sec[x].fin =>
            sec'[x].fin \/ (x = cr.sac /\ ctl.ok /\ ctl.mem.ac # cr.sac)
  BY <1>0, <1>2, <1>3, ReleaseFacts DEF Superseded
<1>7. Onward
  BY <1>0, <1>5 DEF Onward, Hash, Working, Written, Guarded, Rolled, Judged
<1>8. KindInv("ac")' /\ Untouched("ac")' = Untouched("ac")
  <2>1. Status("ac") = cr.sac /\ Mem("ac") = cr.sac /\ Mem("ac")' = s /\ Hash["ac"] = ctl.mem.ac
    BY <1>2, <1>5, HashType DEF Status, Mem
  <2>. QED  BY <1>0, <1>1, <1>2, <1>4, <1>6, <1>7, <2>1, FinalizeKind DEF Kinds
<1>9. KindInv("tr")' /\ Untouched("tr")' = Untouched("tr")
  <2>1. Mem("tr")' = Mem("tr")
    BY <1>5 DEF Mem
  <2>2. cr.sac \in {None} \cup ACs
    BY DEF TypeOK, CRType, MaybeAC
  <2>3. \A x \in {Status("tr"), Current("tr")} \ {None} : sec[x].fin => sec'[x].fin
    BY <1>6, <2>2, KindsDiffer, NoneFacts
  <2>. QED  BY <1>0, <1>1, <1>6, <1>7, <2>1, <2>3, OnwardKind DEF Kinds
<1>10. CredentialInv'
  <2>1. ctl.mem.ac \in {None} \cup Secrets
    BY DEF TypeOK, CRType, MaybeAC, Secrets
  <2>. QED
    BY <1>0, <1>1, <1>5, <1>6, <1>8, <2>1, StepCredential DEF Guarded, Written, Working
<1>11. TransportInv'
  <2>1. ctl.tr # None => ctl.tr \in Secrets /\ ctl.tr \notin ACs
    BY KindsDiffer, NoneFacts DEF MaybeTR
  <2>2. cr.sac \in {None} \cup ACs
    BY DEF TypeOK, CRType, MaybeAC
  <2>3. ctl.tr # None => (sec[ctl.tr].fin => sec'[ctl.tr].fin)
    BY <1>6, <2>1, <2>2
  <2>. QED
    BY <1>0, <1>1, <1>5, <1>6, <1>9, <2>3, StepTransport DEF Normal, Working
<1>12. FlightInv'
  BY <1>0, <1>1, <1>5, StepFlight DEF Normal, Working
<1>. QED  BY <1>8, <1>9, <1>10, <1>11, <1>12 DEF InUse, Kinds

(* The prunes spare what is tracked and what is current. *)
LEMMA PruneUse ==
  ASSUME TypeOK, UseInv, Serving, PruneTransport \/ PruneAC
  PROVE  InUse'
<1>0. /\ InUse /\ ctl \in CtlType /\ sec \in SecType /\ ctl.pc \in {"prunetr", "pruneac"}
      /\ UNCHANGED <<cr, tu, config, depl, pods>>
  BY DEF UseInv, TypeOK, CtlType, SecType, PruneTransport, PruneAC, Others, world
<1>1. /\ TransportInv /\ CredentialInv /\ FlightInv
      /\ \A k \in Kinds : KindInv(k)
  BY <1>0 DEF InUse
<1>2. /\ ctl'.mem.ac = ctl.mem.ac /\ ctl'.mem.sac = ctl.mem.sac /\ ctl'.mem.ceil = ctl.mem.ceil
      /\ ctl'.mem.str = ctl.mem.str /\ ctl'.base = ctl.base /\ ctl'.tr = ctl.tr
      /\ ctl'.pc \in {"pruneac", "patch"} /\ (ctl'.pc = "pruneac" => ctl.pc = "prunetr")
  <2>1. CASE PruneTransport
    BY <1>0, <2>1, GotoFacts DEF PruneTransport, Points
  <2>2. CASE PruneAC
    BY <1>0, <2>2 DEF PruneAC, CtlType, CRType
  <2>. QED  BY <2>1, <2>2
<1>3. /\ \A x \in Secrets : sec'[x].life = sec[x].life
      /\ \A x \in {ctl.mem.ac, ctl.mem.sac, ctl.mem.str, ctl.tr} \ {None} : sec[x].fin => sec'[x].fin
  <2>1. \/ Release(TRs \ {ctl.mem.str, ctl.tr})
        \/ Release(ACs \ {ctl.mem.sac, ctl.mem.ac})
    BY DEF PruneTransport, PruneAC, Prune
  <2>2. /\ \A x \in {ctl.mem.ac, ctl.mem.sac} \ {None} : x \in Secrets /\ x \notin TRs
        /\ \A x \in {ctl.mem.str, ctl.tr} \ {None} : x \in Secrets /\ x \notin ACs
    BY KindsDiffer, NoneFacts DEF MaybeAC, MaybeTR
  <2>. QED  BY <1>0, <2>1, <2>2, ReleaseFacts
<1>4. Onward
  BY <1>0, <1>2 DEF Onward, Hash, Working, Written, Guarded, Rolled, Judged
<1>5. ASSUME NEW k \in Kinds PROVE KindInv(k)' /\ Untouched(k)' = Untouched(k)
  <2>1. Mem(k)' = Mem(k) /\ (Mem(k) # None => (sec[Mem(k)].fin => sec'[Mem(k)].fin))
    BY <1>2, <1>3 DEF Mem
  <2>. QED  BY <1>0, <1>1, <1>3, <1>4, <2>1, PruneKind
<1>6. CredentialInv'
  BY <1>0, <1>1, <1>2, <1>3, <1>5, StepCredential DEF Guarded, Written, Working, Kinds
<1>7. TransportInv'
  BY <1>0, <1>1, <1>2, <1>3, <1>5, StepTransport DEF Normal, Working, Kinds
<1>8. FlightInv'
  BY <1>0, <1>1, <1>2, StepFlight DEF Normal, Working
<1>. QED  BY <1>5, <1>6, <1>7, <1>8 DEF InUse

(* The patch: what has been put into use is tracked from now on. *)
LEMMA PatchUse ==
  ASSUME TypeOK, UseInv, Serving, PatchInstance
  PROVE  InUse'
<1>0. /\ InUse /\ ctl.pc = "patch" /\ ctl'.pc = "idle"
      /\ UNCHANGED <<sec, tu, config, depl, pods>>
  BY IdleFacts DEF UseInv, PatchInstance, world
<1>1. /\ TransportInv /\ FlightInv
      /\ \A k \in Kinds : KindInv(k)
  BY <1>0 DEF InUse
<1>2. cr'.ac = cr.ac /\ cr'.ceil = cr.ceil /\ cr'.sac = ctl.mem.sac /\ cr'.str = ctl.mem.str
  <2> DEFINE new == Merge(cr, ctl.base, ctl.mem)
  <2>1. ctl.base.sac = cr.sac /\ ctl.base.str = cr.str
    BY <1>0, <1>1 DEF FlightInv
  <2>2. /\ new \in CRType /\ new.ac = cr.ac /\ new.ceil = cr.ceil
        /\ new.sac = ctl.mem.sac /\ new.str = ctl.mem.str
    BY <2>1 DEF Merge, TypeOK, CRType
  <2>3. cr' = [new EXCEPT !.exists = ~(new.del /\ ~new.fin)]
    BY DEF PatchInstance, Serving
  <2> HIDE DEF new
  <2>. QED  BY <2>2, <2>3 DEF CRType
<1>3. ASSUME NEW k \in Kinds PROVE KindInv(k)'
  <2>1. Rendering(k) /\ Safe(k) /\ Carrying(k)
    BY <1>1 DEF KindInv
  <2>2. Status(k)' = Mem(k) /\ Current(k)' = Current(k)
    BY <1>0, <1>2 DEF Status, Mem, Current
  <2>3. Carrying(k)'
    BY <1>0 DEF Carrying, Working, Written, Guarded, Rolled, Judged
  <2>4. CASE Mem(k) = Status(k)
    <3>1. Rendering(k)' /\ Done(k)' = Done(k)
      BY <1>0, <2>1, <2>2, <2>4, SameRendering
    <3>2. Safe(k)'
      BY <1>0, <2>1, <2>2, <2>4, <3>1 DEF Safe, Live
    <3>. QED  BY <2>3, <3>1, <3>2 DEF KindInv
  <2>5. CASE Mem(k) # Status(k)
    <3>1. /\ Mem(k) = Current(k) /\ config[k] = Current(k)
          /\ depl # None /\ depl[k] = Current(k)
          /\ Current(k) # None => sec[Current(k)].fin
          /\ Status(k) = None \/ Done(k)
      BY <1>0, <2>1, <2>5 DEF Carrying
    <3>2. \A p \in Replicas :
             /\ pods[p].tmpl # None => pods[p].tmpl[k] \in {None, Current(k)}
             /\ pods[p].cred[k] \in {None, Current(k)}
      BY <2>1, <3>1 DEF Rendering, Done
    <3>3. Rendering(k)'
      BY <1>0, <2>2, <3>1, <3>2 DEF Rendering
    <3>4. Safe(k)'
      BY <1>0, <2>1, <2>2, <3>1 DEF Safe, Live
    <3>. QED  BY <2>3, <3>3, <3>4 DEF KindInv
  <2>. QED  BY <2>4, <2>5
<1>4. CredentialInv' /\ FlightInv'
  BY <1>0 DEF CredentialInv, FlightInv, Normal, Working, Guarded, Written
<1>5. TransportInv'
  <2>1. cr.ceil /\ ctl.mem.str # None => tu.name # None
    <3>1. Carrying("tr")
      BY <1>1 DEF KindInv, Kinds
    <3>. QED  BY <1>0, <1>1, <3>1 DEF Carrying, TransportInv, Status, Mem, Current
  <2>. QED  BY <1>0, <1>1, <1>2, <2>1 DEF TransportInv, Normal, Working, Live
<1>. QED  BY <1>3, <1>4, <1>5 DEF InUse

(* The reconcile keeps UseInv. *)
LEMMA ReconcileUse ==
  ASSUME TypeOK, HeldInv, UseInv, ~Stale, Reconcile
  PROVE  UseInv'
<1>1. PodInv'
  <2>1. pods' = pods
    BY DEF Reconcile, ReconcileGone, ReconcileNew, ReconcileDelete, ReconcileNormal, Begin,
       Transport, ReadInputs, EnsureConfig, ProtectAC, Deploy, CheckReady, FinalizeTransport,
       DeleteTransport, FinalizeAC, PruneTransport, PruneAC, DeleteReleaseAC,
       DeleteReleaseTransport, DeletePrune, PatchInstance, Others, world
  <2>. QED  BY <2>1 DEF UseInv, PodInv
<1>2. ASSUME Serving' PROVE InUse'
  <2>1. Serving
    BY <1>2, ServingStays DEF Next
  <2>2. CASE DeleteReleaseAC \/ DeleteReleaseTransport \/ DeletePrune
    BY <2>1, <2>2, ServingFacts
    DEF DeleteReleaseAC, DeleteReleaseTransport, DeletePrune, Deleting
  <2>3. CASE ReconcileGone \/ ReconcileDelete
    <3>2. CASE ReconcileDelete
      <4>1. seen.del /\ seen = cr
        BY <3>2 DEF ReconcileDelete, Begin
      <4>. QED  BY <2>1, <4>1 DEF Serving
    <3>3. CASE ReconcileGone
      <4>1. UNCHANGED <<cr, sec, tu, config, depl, pods, ctl>>
        BY <3>3 DEF ReconcileGone, world
      <4>2. ASSUME NEW k \in Kinds, KindInv(k) PROVE KindInv(k)'
        BY <4>1, <4>2 DEF KindInv, Rendering, Safe, Carrying, Done, Untouched, Live, Status,
           Current, Mem, Hash
      <4>3. CredentialInv /\ TransportInv /\ FlightInv
            => (CredentialInv /\ TransportInv /\ FlightInv)'
        BY <4>1 DEF CredentialInv, TransportInv, FlightInv, Untouched, Status, Live
      <4>. QED  BY <2>1, <4>2, <4>3 DEF UseInv, InUse
    <3>. QED  BY <2>3, <3>2, <3>3
  <2>4. CASE ReconcileNew \/ ReconcileNormal
    BY <2>1, <2>4, BeginUse DEF ReconcileNew, ReconcileNormal
  <2>. QED
    BY <2>1, <2>2, <2>3, <2>4, TransportUse, QuietUse, RenderUse, FinalizeTransportUse,
       DeleteTransportUse, FinalizeACUse, PruneUse, PatchUse DEF Reconcile
<1>. QED  BY <1>1, <1>2 DEF UseInv

(* UseInv is inductive with rotations one at a time. *)
LEMMA NextUse ==
  ASSUME TypeOK, HeldInv, UseInv, ~Rapid, ~Stale, [Next]_vars
  PROVE  UseInv'
<1>1. CASE UNCHANGED vars
  <2>1. UNCHANGED <<cr, sec, tu, config, depl, pods, ctl>>
    BY <1>1 DEF vars
  <2>2. ASSUME NEW k \in Kinds, KindInv(k) PROVE KindInv(k)'
    BY <2>1, <2>2 DEF KindInv, Rendering, Safe, Carrying, Done, Untouched, Live, Status, Current,
       Mem, Hash
  <2>3. CredentialInv /\ TransportInv /\ FlightInv => (CredentialInv /\ TransportInv /\ FlightInv)'
    BY <2>1 DEF CredentialInv, TransportInv, FlightInv, Untouched, Status, Live
  <2>. QED  BY <2>1, <2>2, <2>3 DEF UseInv, PodInv, Serving, InUse
<1>. QED  BY <1>1, OwnerUse, KubernetesUse, ReconcileUse DEF Next

(* Whoever is in use is tracked and carries the finalizer, or is current.  *)
LEMMA UseIsLive == ASSUME TypeOK, UseInv PROVE NoRevokedCredentialInUse
<1>1. SUFFICES ASSUME Serving, NEW p \in Replicas, NEW k \in Kinds, pods[p].cred[k] # None
               PROVE  Live(pods[p].cred[k])
  BY DEF NoRevokedCredentialInUse, Serving, Kinds
<1>2. Rendering(k) /\ Safe(k)
  BY <1>1 DEF UseInv, InUse, KindInv
<1>3. pods[p].cred[k] \in {Status(k), Current(k)}
  BY <1>1, <1>2 DEF Rendering
<1>4. CASE pods[p].cred[k] = Current(k)
  BY <1>1, <1>2, <1>4 DEF Safe
<1>5. CASE pods[p].cred[k] = Status(k) /\ Status(k) # Current(k)
  BY <1>1, <1>2, <1>5 DEF Safe, Done
<1>. QED  BY <1>3, <1>4, <1>5

(* With rotations that settle and a current cache, no pod of a SwiftProxy  *)
(* that is not being deleted runs on a revoked credential, in any order of *)
(* rotations, switches of ceilometer, rollouts, container restarts,        *)
(* failing calls and operator restarts.                                    *)
THEOREM InUseNeverRevoked ==
  ASSUME ~Rapid, ~Stale
  PROVE  Spec => []NoRevokedCredentialInUse
<1>1. Init => TypeOK /\ HeldInv /\ UseInv
  BY InitTypes, InitHeld, InitUse
<1>2. TypeOK /\ HeldInv /\ UseInv /\ [Next]_vars => (TypeOK /\ HeldInv /\ UseInv)'
  BY NextTypes, NextHeld, NextUse
<1>3. TypeOK /\ UseInv => NoRevokedCredentialInUse
  BY UseIsLive
<1>. QED  BY <1>1, <1>2, <1>3, PTL DEF Spec
=============================================================================
