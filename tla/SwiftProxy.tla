----------------------------- MODULE SwiftProxy -----------------------------
(***************************************************************************)
(* The SwiftProxy controller (internal/controller/swiftproxy_controller.go)*)
(* as a consumer of rotating secrets: the Keystone application credential  *)
(* named in the spec and the RabbitMQ secret named by the TransportURL.    *)
(* The controller renders both into the config Secret, rolls the           *)
(* Deployment, and keeps a consumer finalizer on every secret that pods    *)
(* may still use; the owner of a secret revokes it as soon as it is        *)
(* superseded and carries no finalizer.                                    *)
(*                                                                         *)
(* Each API call of Reconcile is a step; the status is patched at the end. *)
(***************************************************************************)
EXTENDS Integers, FiniteSets

CONSTANTS
    ACs,            \* application credential secrets
    TRs,            \* transport secrets
    Replicas,       \* proxy pods
    None,
    Rapid,          \* TRUE: secrets rotate before the last rotation is done
    Stale,          \* TRUE: Reconcile may read an outdated instance
    MaxChanges,     \* bound: rotations and changes of the spec
    MaxFaults       \* bound: failing calls and operator restarts

ASSUME SwiftProxyAssumption ==
    /\ Rapid \in BOOLEAN /\ Stale \in BOOLEAN
    /\ MaxChanges \in Nat /\ MaxFaults \in Nat
    /\ ACs \cap TRs = {}
    /\ None \notin ACs \cup TRs
    /\ None \notin [ac : {None} \cup ACs, tr : {None} \cup TRs]

Secrets == ACs \cup TRs

VARIABLES
    cr,         \* SwiftProxy: spec, finalizer, deletion and status
    seen,       \* ... as the informer cache shows it
    sec,        \* per secret: life and consumer finalizer
    tu,         \* the TransportURL and the secret it names
    config,     \* what the config Secret was rendered from
    depl,       \* input hash in the Deployment's pod template
    pods,       \* per replica: template hash and what it was started with
    queued, ctl, changes, nfaults

vars == <<cr, seen, sec, tu, config, depl, pods, queued, ctl, changes, nfaults>>
world == <<tu, config, depl, pods>>

MaybeAC == {None} \cup ACs
MaybeTR == {None} \cup TRs
Inputs  == [ac : MaybeAC, tr : MaybeTR]     \* stands for the input hash too
CRType  == [exists : BOOLEAN, fin : BOOLEAN, del : BOOLEAN, ac : MaybeAC,
            ceil : BOOLEAN, sac : MaybeAC, str : MaybeTR, ready : BOOLEAN]
Points  == {"idle", "transport", "inputs", "config", "acfin", "deploy", "ready",
            "fintr", "deltu", "finac", "prunetr", "pruneac", "patch",
            "delac", "deltr", "delprune"}

NoInputs == [ac |-> None, tr |-> None]
NoPod    == [tmpl |-> None, cred |-> NoInputs]
NewCR(a) == [exists |-> TRUE, fin |-> FALSE, del |-> FALSE, ac |-> a, ceil |-> FALSE,
             sac |-> None, str |-> None, ready |-> FALSE]
IdleCtl  == [pc |-> "idle", base |-> NewCR(None), mem |-> NewCR(None), tr |-> None,
             ok |-> FALSE, again |-> FALSE]

(* The types of the API objects and of the reconcile in flight: each status *)
(* field tracks secrets of its own kind only.                               *)
TypeOK ==
    /\ cr \in CRType /\ seen \in CRType
    /\ sec \in [Secrets -> [life : {"unborn", "live", "gone"}, fin : BOOLEAN]]
    /\ tu \in [exists : BOOLEAN, name : MaybeTR]
    /\ config \in Inputs
    /\ depl \in {None} \cup Inputs
    /\ pods \in [Replicas -> [tmpl : {None} \cup Inputs, cred : Inputs]]
    /\ queued \in BOOLEAN
    /\ ctl \in [pc : Points, base : CRType, mem : CRType, tr : MaybeTR,
                ok : BOOLEAN, again : BOOLEAN]
    /\ changes \in 0..MaxChanges
    /\ nfaults \in 0..MaxFaults

----------------------------------------------------------------------------
(* Finalizers on secrets; releasing None or a missing secret does nothing. *)
Protect(s)     == sec' = [sec EXCEPT ![s].fin = TRUE]
Release(drop)  == sec' = [s \in Secrets |-> [sec[s] EXCEPT !.fin = @ /\ s \notin drop]]
Prune(of, keep) == Release(of \ keep)

Live(s) == s # None /\ sec[s].life = "live"

----------------------------------------------------------------------------
(* The owners of the secrets: Keystone and RabbitMQ operators, users. *)
Change == changes < MaxChanges /\ changes' = changes + 1

Wanted == [ac |-> cr.ac, tr |-> IF cr.ceil THEN tu.name ELSE None]

(* Without rapid rotations, the last one has reached every pod and status. *)
Settled ==
    \/ Rapid
    \/ /\ cr.ceil => tu.name # None
       /\ [ac |-> cr.sac, tr |-> cr.str] = Wanted
       /\ \A p \in Replicas : pods[p] = [tmpl |-> Wanted, cred |-> Wanted]

(* A new application credential, or none any more, is put into the spec. *)
RotateAC(s) ==
    /\ cr.exists /\ ~cr.del
    /\ Change
    /\ s # cr.ac /\ Settled
    /\ s # None => sec[s].life = "unborn"
    /\ cr' = [cr EXCEPT !.ac = s]
    /\ sec' = IF s = None THEN sec ELSE [sec EXCEPT ![s].life = "live"]
    /\ UNCHANGED <<seen, world, queued, ctl, nfaults>>

ToggleCeilometer ==
    /\ cr.exists /\ ~cr.del
    /\ Change
    /\ Settled
    /\ cr' = [cr EXCEPT !.ceil = ~@]
    /\ UNCHANGED <<seen, sec, world, queued, ctl, nfaults>>

(* The TransportURL gets its first secret or a new one.  SwiftProxy does   *)
(* not watch it: nothing is enqueued.                                      *)
IssueTransport(t) ==
    /\ tu.exists
    /\ sec[t].life = "unborn"
    /\ tu.name # None => Change /\ Settled
    /\ tu.name = None => UNCHANGED changes
    /\ tu' = [tu EXCEPT !.name = t]
    /\ sec' = [sec EXCEPT ![t].life = "live"]
    /\ UNCHANGED <<cr, seen, config, depl, pods, queued, ctl, nfaults>>

(* A superseded secret without consumers is revoked and deleted. *)
Revoke(s) ==
    /\ Live(s) /\ ~sec[s].fin
    /\ s # tu.name /\ ~(cr.exists /\ s = cr.ac)
    /\ sec' = [sec EXCEPT ![s].life = "gone"]
    /\ UNCHANGED <<cr, seen, world, queued, ctl, changes, nfaults>>

DeleteCR ==
    /\ cr.exists /\ ~cr.del
    /\ Change
    /\ cr' = [cr EXCEPT !.del = TRUE, !.exists = cr.fin]
    /\ UNCHANGED <<seen, sec, world, queued, ctl, nfaults>>

(* Kubernetes: informers, rolling update, restarts of single containers     *)
(* (they read the config Secret as it is then), garbage collection.         *)
Sync ==
    /\ seen # cr
    /\ seen' = cr
    /\ queued' = TRUE
    /\ UNCHANGED <<cr, sec, world, ctl, changes, nfaults>>

(* Any other watched object, or the periodic resync, enqueues as well. *)
Resync ==
    /\ ~queued
    /\ queued' = TRUE
    /\ UNCHANGED <<cr, seen, sec, world, ctl, changes, nfaults>>

Rollout(p) ==
    /\ depl # None /\ pods[p].tmpl # depl
    /\ pods' = [pods EXCEPT ![p] = [tmpl |-> depl, cred |-> config]]
    /\ queued' = TRUE
    /\ UNCHANGED <<cr, seen, sec, tu, config, depl, ctl, changes, nfaults>>

RestartContainer(p) ==
    /\ pods[p].tmpl # None /\ pods[p].cred # config
    /\ pods' = [pods EXCEPT ![p].cred = config]
    /\ UNCHANGED <<cr, seen, sec, tu, config, depl, queued, ctl, changes, nfaults>>

Collect ==
    /\ ~cr.exists /\ (depl # None \/ tu.exists)
    /\ depl' = None
    /\ pods' = [p \in Replicas |-> NoPod]
    /\ tu' = [exists |-> FALSE, name |-> None]
    /\ UNCHANGED <<cr, seen, sec, config, queued, ctl, changes, nfaults>>

----------------------------------------------------------------------------
(* Reconcile: the instance is read from the cache, Ready reset in memory. *)
Begin(pc, fin) ==
    /\ ctl.pc = "idle" /\ queued
    /\ Stale \/ seen = cr
    /\ queued' = FALSE
    /\ ctl' = [IdleCtl EXCEPT !.pc = pc, !.base = seen,
                              !.mem = [seen EXCEPT !.ready = FALSE, !.fin = fin]]
    /\ UNCHANGED <<cr, seen, sec, world, changes, nfaults>>

ReconcileGone ==
    /\ ctl.pc = "idle" /\ queued /\ ~seen.exists
    /\ queued' = FALSE
    /\ UNCHANGED <<cr, seen, sec, world, ctl, changes, nfaults>>

ReconcileNew    == seen.exists /\ ~seen.fin /\ ~seen.del /\ Begin("patch", TRUE)
ReconcileDelete == seen.exists /\ seen.del /\ Begin("delac", TRUE)
ReconcileNormal == seen.exists /\ seen.fin /\ ~seen.del /\ Begin("transport", TRUE)

Goto(pc)   == ctl' = [ctl EXCEPT !.pc = pc]
Requeue    == ctl' = [ctl EXCEPT !.pc = "patch", !.again = TRUE]
Others     == UNCHANGED <<cr, seen, queued, changes, nfaults>>

(* CeilometerEnabled: ensure the TransportURL, wait for its secret, put the *)
(* finalizer on that secret and read it (an error when it is gone).         *)
Transport ==
    /\ ctl.pc = "transport"
    /\ CASE ~ctl.mem.ceil   -> Goto("inputs") /\ UNCHANGED <<sec, tu>>
         [] ctl.mem.ceil /\ ~tu.exists ->
              Requeue /\ tu' = [exists |-> TRUE, name |-> None] /\ UNCHANGED sec
         [] ctl.mem.ceil /\ tu.exists /\ ~Live(tu.name) -> Requeue /\ UNCHANGED <<sec, tu>>
         [] ctl.mem.ceil /\ tu.exists /\ Live(tu.name) ->
              /\ Protect(tu.name)
              /\ ctl' = [ctl EXCEPT !.pc = "inputs", !.tr = tu.name]
              /\ UNCHANGED tu
    /\ UNCHANGED <<config, depl, pods>>
    /\ Others

(* Services, Keystone objects, password, memcached (they only delay), then  *)
(* the application credential is read; without it the request comes back.   *)
ReadInputs ==
    /\ ctl.pc = "inputs"
    /\ IF ctl.mem.ac # None /\ ~Live(ctl.mem.ac) THEN Requeue ELSE Goto("config")
    /\ UNCHANGED <<sec, world>>
    /\ Others

Hash == [ac |-> ctl.mem.ac, tr |-> ctl.tr]

(* EnsureSecrets; the config Secret is owned, a change enqueues. *)
EnsureConfig ==
    /\ ctl.pc = "config"
    /\ config' = Hash
    /\ queued' = (queued \/ config # Hash)
    /\ Goto("acfin")
    /\ UNCHANGED <<cr, seen, sec, tu, depl, pods, changes, nfaults>>

(* The finalizer on the new credential, "early, before deployment". *)
ProtectAC ==
    /\ ctl.pc = "acfin"
    /\ IF ctl.mem.ac = None THEN Goto("deploy") /\ UNCHANGED sec
       ELSE IF ~Live(ctl.mem.ac) THEN Requeue /\ UNCHANGED sec
       ELSE Goto("deploy") /\ Protect(ctl.mem.ac)
    /\ UNCHANGED world
    /\ Others

Deploy ==
    /\ ctl.pc = "deploy"
    /\ depl' = Hash
    /\ queued' = (queued \/ depl # Hash)
    /\ Goto("ready")
    /\ UNCHANGED <<cr, seen, sec, tu, config, pods, changes, nfaults>>

(* Mutant of CheckReady: IsReady alone, whatever the template of the pods. *)
CheckReadyAnyTemplate ==
    /\ ctl.pc = "ready"
    /\ ctl' = [ctl EXCEPT !.pc = "fintr",
                          !.ok = \A p \in Replicas : pods[p].tmpl # None]
    /\ UNCHANGED <<sec, world>>
    /\ Others

(* IsReady and IsReadyForInput, on the live Deployment. *)
CheckReady ==
    /\ ctl.pc = "ready"
    /\ ctl' = [ctl EXCEPT !.pc = "fintr",
                          !.ok = depl = Hash /\ \A p \in Replicas : pods[p].tmpl = Hash]
    /\ UNCHANGED <<sec, world>>
    /\ Others

(* FinalizeSecretRotation: the tracked secret is released once the workload *)
(* is ready with the new one; what it returns is tracked from then on.  For *)
(* a first secret and a workload that is not ready both answers are allowed.*)
Tracked(old, new, ok) ==
    IF old = new \/ ok THEN {new} ELSE IF old = None THEN {None, new} ELSE {old}
Superseded(old, new, ok) == IF ok /\ old # new THEN {old} ELSE {}

FinalizeTransport ==
    /\ ctl.pc = "fintr"
    /\ IF ctl.mem.ceil
       THEN \E s \in Tracked(ctl.mem.str, ctl.tr, ctl.ok) :
               /\ ctl' = [ctl EXCEPT !.pc = "finac", !.mem.str = s]
               /\ Release(Superseded(ctl.mem.str, ctl.tr, ctl.ok))
       ELSE IF ctl.mem.str # None /\ ctl.ok
            THEN Release({ctl.mem.str}) /\ Goto("deltu")
            ELSE Goto("finac") /\ UNCHANGED sec
    /\ UNCHANGED world
    /\ Others

DeleteTransport ==
    /\ ctl.pc = "deltu"
    /\ tu' = [exists |-> FALSE, name |-> None]
    /\ ctl' = [ctl EXCEPT !.pc = "finac", !.mem.str = None]
    /\ UNCHANGED <<sec, config, depl, pods>>
    /\ Others

(* Mutant of FinalizeAC: the result goes to the other status field. *)
FinalizeACWrongField ==
    /\ ctl.pc = "finac"
    /\ \E s \in Tracked(ctl.mem.sac, ctl.mem.ac, ctl.ok) :
          /\ ctl' = [ctl EXCEPT !.pc = "prunetr", !.mem.str = s]
          /\ Release(Superseded(ctl.mem.sac, ctl.mem.ac, ctl.ok))
    /\ UNCHANGED world
    /\ Others

FinalizeAC ==
    /\ ctl.pc = "finac"
    /\ \E s \in Tracked(ctl.mem.sac, ctl.mem.ac, ctl.ok) :
          /\ ctl' = [ctl EXCEPT !.pc = "prunetr", !.mem.sac = s]
          /\ Release(Superseded(ctl.mem.sac, ctl.mem.ac, ctl.ok))
    /\ UNCHANGED world
    /\ Others

(* Mutants of the two prunes: no self-healing of stranded finalizers. *)
PruneTransportMissing ==
    /\ ctl.pc = "prunetr"
    /\ Goto("pruneac")
    /\ UNCHANGED <<sec, world>>
    /\ Others

PruneACMissing ==
    /\ ctl.pc = "pruneac"
    /\ ctl' = [ctl EXCEPT !.pc = "patch", !.mem.ready = ctl.ok]
    /\ UNCHANGED <<sec, world>>
    /\ Others

(* Finalizers stranded by rapid rotations are pruned. *)
PruneTransport ==
    /\ ctl.pc = "prunetr"
    /\ Prune(TRs, {ctl.mem.str, ctl.tr})
    /\ Goto("pruneac")
    /\ UNCHANGED world
    /\ Others

PruneAC ==
    /\ ctl.pc = "pruneac"
    /\ Prune(ACs, {ctl.mem.sac, ctl.mem.ac})
    /\ ctl' = [ctl EXCEPT !.pc = "patch", !.mem.ready = ctl.ok]
    /\ UNCHANGED world
    /\ Others

(* reconcileDelete: release what status, spec and TransportURL name, prune  *)
(* the rest, and only then give up the instance.                            *)
DeleteReleaseAC ==
    /\ ctl.pc = "delac"
    /\ Release({ctl.mem.sac, ctl.mem.ac})
    /\ Goto("deltr")
    /\ UNCHANGED world
    /\ Others

DeleteReleaseTransport ==
    /\ ctl.pc = "deltr"
    /\ Release({ctl.mem.str, tu.name})
    /\ Goto("delprune")
    /\ UNCHANGED world
    /\ Others

(* Mutant of DeletePrune: only the names that were released explicitly. *)
DeletePruneMissing ==
    /\ ctl.pc = "delprune"
    /\ ctl' = [ctl EXCEPT !.pc = "patch", !.mem.fin = FALSE]
    /\ UNCHANGED <<sec, world>>
    /\ Others

DeletePrune ==
    /\ ctl.pc = "delprune"
    /\ Prune(Secrets, {})
    /\ ctl' = [ctl EXCEPT !.pc = "patch", !.mem.fin = FALSE]
    /\ UNCHANGED world
    /\ Others

(* The deferred merge patch; removing the finalizer of a deleted instance   *)
(* removes it.                                                              *)
Merge(now, base, mem) ==
    [now EXCEPT !.fin   = IF mem.fin # base.fin THEN mem.fin ELSE @,
                !.sac   = IF mem.sac # base.sac THEN mem.sac ELSE @,
                !.str   = IF mem.str # base.str THEN mem.str ELSE @,
                !.ready = IF mem.ready # base.ready THEN mem.ready ELSE @]

PatchInstance ==
    /\ ctl.pc = "patch"
    /\ LET new == Merge(cr, ctl.base, ctl.mem) IN
       cr' = IF cr.exists THEN [new EXCEPT !.exists = ~(new.del /\ ~new.fin)] ELSE cr
    /\ queued' = (queued \/ ctl.again)
    /\ ctl' = IdleCtl
    /\ UNCHANGED <<seen, sec, world, changes, nfaults>>

(* A call fails: return the error and patch; or the operator restarts.      *)
Fault == nfaults < MaxFaults /\ nfaults' = nfaults + 1

CallFails ==
    /\ ctl.pc \notin {"idle", "patch"}
    /\ Fault
    /\ Requeue
    /\ UNCHANGED <<cr, seen, sec, world, queued, changes>>

Crash ==
    /\ ctl.pc # "idle"
    /\ Fault
    /\ ctl' = IdleCtl /\ queued' = TRUE /\ seen' = cr
    /\ UNCHANGED <<cr, sec, world, changes>>

----------------------------------------------------------------------------
Init ==
    /\ \E a \in MaybeAC :
          /\ cr = NewCR(a)
          /\ sec = [s \in Secrets |-> [life |-> IF s = a THEN "live" ELSE "unborn",
                                       fin |-> FALSE]]
    /\ seen = cr
    /\ tu = [exists |-> FALSE, name |-> None]
    /\ config = NoInputs
    /\ depl = None
    /\ pods = [p \in Replicas |-> NoPod]
    /\ queued = TRUE
    /\ ctl = IdleCtl
    /\ changes = 0 /\ nfaults = 0

Reconcile ==
    \/ ReconcileGone \/ ReconcileNew \/ ReconcileDelete \/ ReconcileNormal
    \/ Transport \/ ReadInputs \/ EnsureConfig \/ ProtectAC \/ Deploy \/ CheckReady
    \/ FinalizeTransport \/ DeleteTransport \/ FinalizeAC
    \/ PruneTransport \/ PruneAC \/ PatchInstance
    \/ DeleteReleaseAC \/ DeleteReleaseTransport \/ DeletePrune

Owners ==
    \/ \E s \in MaybeAC : RotateAC(s)
    \/ ToggleCeilometer
    \/ \E t \in TRs : IssueTransport(t)
    \/ \E s \in Secrets : Revoke(s)
    \/ DeleteCR

Kubernetes ==
    \/ Sync \/ Resync \/ Collect
    \/ \E p \in Replicas : Rollout(p) \/ RestartContainer(p)

Next == Reconcile \/ Owners \/ Kubernetes \/ CallFails \/ Crash

Spec == Init /\ [][Next]_vars

(* Reconciles run when queued, informers deliver, rollouts progress, a      *)
(* TransportURL gets its first secret.                                      *)
Fairness ==
    /\ WF_vars(Reconcile) /\ WF_vars(Sync) /\ WF_vars(Collect)
    /\ \A p \in Replicas : WF_vars(Rollout(p))
    /\ WF_vars(tu.name = None /\ \E t \in TRs : IssueTransport(t))

FairSpec == Spec /\ Fairness

(* ... and the manager's resync period passes again and again. *)
ResyncSpec == FairSpec /\ WF_vars(Resync)

----------------------------------------------------------------------------
(* No proxy pod runs on a credential that its owner has revoked, while the  *)
(* SwiftProxy is not being deleted: finalizers are put on a secret before   *)
(* pods can lose it and taken off only when no pod of the old template is   *)
(* left, over crashes, failing calls and container restarts in between.     *)
NoRevokedCredentialInUse ==
    cr.exists /\ ~cr.del =>
        \A p \in Replicas : \A s \in {pods[p].cred.ac, pods[p].cred.tr} \ {None} : Live(s)

(* A deleted SwiftProxy leaves no consumer finalizer behind, also not on    *)
(* secrets superseded in a rapid rotation or by a crashed reconcile.        *)
NothingHeldAfterDelete == ~cr.exists => \A s \in Secrets : ~sec[s].fin

(* Every superseded application credential is released in the end, however  *)
(* fast the rotations came ("Self-heal consumer finalizers stranded").      *)
SupersededReleased == <>[](\A s \in ACs : sec[s].fin => cr.exists /\ s = cr.ac)

(* A transport secret that the TransportURL has replaced is released in the *)
(* end, over crashes between releasing, deleting and patching; as nothing   *)
(* watches the TransportURL, only the resync makes sure of it.              *)
TransportRotationFinalized == <>[](\A t \in TRs : sec[t].fin => cr.exists /\ cr.ceil /\ t = tu.name)
=============================================================================
