------------------------------- MODULE Swift -------------------------------
(***************************************************************************)
(* The Swift controller (internal/controller/swift_controller.go): it      *)
(* generates the swift-conf Secret once, writes the specs of SwiftStorage, *)
(* SwiftRing and SwiftProxy and mirrors their conditions.  The three       *)
(* sub-controllers appear by what they do to their own custom resource.    *)
(*                                                                         *)
(* Every API call is a step.  Reads go through informer caches, which may  *)
(* lag behind for the kinds of objects in Lag.                             *)
(***************************************************************************)
EXTENDS Integers, FiniteSets

CONSTANTS
    Hashes,         \* swift_hash_path prefixes and suffixes
    Topologies,     \* Topology references
    Versions,       \* values of everything else that is copied to sub-CRs
    None,
    Lag,            \* caches that may be outdated when read
    MaxChanges,     \* bound: what users do
    MaxFaults       \* bound: failing calls and operator restarts

ASSUME SwiftAssumption ==
    /\ None \notin Hashes \cup Topologies \cup Versions
    /\ Cardinality(Hashes) >= 3
    /\ Lag \subseteq {"cr", "conf", "sub"}
    /\ MaxChanges \in Nat /\ MaxFaults \in Nat

VARIABLES
    cr, seen,           \* the Swift instance, and the cached one
    conf, confSeen,     \* the swift-conf Secret; whether the cache holds it
    sub, subSeen,       \* SwiftStorage, SwiftRing, SwiftProxy, and as cached
    data,               \* the hash under which objects are stored on the disks
    queued, ctl, changes, nfaults

vars == <<cr, seen, conf, confSeen, sub, subSeen, data, queued, ctl, changes, nfaults>>
objects == <<cr, conf, sub, data>>
caches  == <<seen, confSeen, subSeen>>

Kinds     == {"storage", "ring", "proxy"}
Refs      == {None} \cup Topologies
Spec0     == [ring : BOOLEAN, ver : Versions,
              top : [{"swift", "proxy", "storage"} -> Refs]]
SubSpec   == [ver : Versions, top : Refs]
MaxGen    == MaxChanges + 1
CRType    == [exists : BOOLEAN, fin : BOOLEAN, del : BOOLEAN, spec : Spec0,
              gen : 1..MaxGen, obs : 0..MaxGen, ready : BOOLEAN]
SubType   == [exists : BOOLEAN, spec : {None} \cup SubSpec, gen : 0..MaxGen,
              obs : 0..MaxGen, ready : BOOLEAN]
ConfType  == [exists : BOOLEAN, hash : {None} \cup Hashes, fin : BOOLEAN, del : BOOLEAN]
Gens      == [storage |-> "storage_gen", ring |-> "ring_gen", proxy |-> "proxy_gen"]
Points    == {"idle", "conf", "ensure", "meta", "delete", "patch"}
                \cup Kinds \cup {Gens[k] : k \in Kinds}

NoConf == [exists |-> FALSE, hash |-> None, fin |-> FALSE, del |-> FALSE]
NoSub  == [exists |-> FALSE, spec |-> None, gen |-> 0, obs |-> 0, ready |-> FALSE]
Idle   == [pc |-> "idle", base |-> None, mem |-> None, got |-> FALSE, ok |-> FALSE,
           again |-> FALSE]

(* The types of the objects, of the caches and of the reconcile in flight; *)
(* a sub-CR gets at most one new generation for each one of the Swift CR.  *)
TypeOK ==
    /\ cr \in CRType /\ seen \in CRType
    /\ conf \in ConfType /\ confSeen \in BOOLEAN
    /\ sub \in [Kinds -> SubType] /\ subSeen \in [Kinds -> SubType]
    /\ \A k \in Kinds : sub[k].gen <= cr.gen
    /\ data \in {None} \cup Hashes
    /\ queued \in BOOLEAN
    /\ ctl.pc \in Points
    /\ ctl.pc # "idle" => ctl.base \in CRType /\ ctl.mem \in CRType
    /\ changes \in 0..MaxChanges
    /\ nfaults \in 0..MaxFaults

----------------------------------------------------------------------------
(* Users, and the services that store data. *)
Change == changes < MaxChanges /\ changes' = changes + 1

Edit(spec) ==
    /\ cr.exists /\ ~cr.del
    /\ Change
    /\ spec # cr.spec
    /\ cr' = [cr EXCEPT !.spec = spec, !.gen = @ + 1]
    /\ UNCHANGED <<caches, conf, sub, data, queued, ctl, nfaults>>

DeleteSwift ==
    /\ cr.exists /\ ~cr.del
    /\ Change
    /\ cr' = [cr EXCEPT !.del = TRUE, !.exists = cr.fin]
    /\ UNCHANGED <<caches, conf, sub, data, queued, ctl, nfaults>>

(* With Swift deployed the Secret is deleted by accident; a finalizer      *)
(* keeps it.  Left out is a Secret deleted before SwiftStorage exists:     *)
(* until ConfMetaData has run nothing keeps it, and one that was brought   *)
(* along for existing data would be replaced by a generated one.           *)
DeleteConf ==
    /\ sub["storage"].exists
    /\ conf.exists /\ ~conf.del
    /\ Change
    /\ conf' = IF conf.fin THEN [conf EXCEPT !.del = TRUE] ELSE NoConf
    /\ UNCHANGED <<caches, cr, sub, data, queued, ctl, nfaults>>

WriteData ==
    /\ data = None
    /\ conf.exists /\ sub["storage"].ready
    /\ data' = conf.hash
    /\ UNCHANGED <<caches, cr, conf, sub, queued, ctl, changes, nfaults>>

(* Mutant of SyncSub: the sub-CRs are not owned by the controller. *)
SyncSubNotOwned(k) ==
    /\ subSeen[k] # sub[k]
    /\ subSeen' = [subSeen EXCEPT ![k] = sub[k]]
    /\ UNCHANGED <<objects, seen, confSeen, queued, ctl, changes, nfaults>>

(* Informers: the Swift CR and the owned sub-CRs enqueue, Secrets do not. *)
SyncCR ==
    /\ seen # cr
    /\ seen' = cr /\ queued' = TRUE
    /\ UNCHANGED <<objects, confSeen, subSeen, ctl, changes, nfaults>>

SyncConf ==
    /\ confSeen # conf.exists
    /\ confSeen' = conf.exists
    /\ UNCHANGED <<objects, seen, subSeen, queued, ctl, changes, nfaults>>

SyncSub(k) ==
    /\ subSeen[k] # sub[k]
    /\ subSeen' = [subSeen EXCEPT ![k] = sub[k]] /\ queued' = TRUE
    /\ UNCHANGED <<objects, seen, confSeen, ctl, changes, nfaults>>

(* The controllers of the sub-CRs record the generation they have seen and *)
(* their conditions in one patch; later they become ready, or lose it.     *)
SubReconcile(k) ==
    /\ sub[k].exists /\ sub[k].obs # sub[k].gen
    /\ \E ready \in BOOLEAN :
          sub' = [sub EXCEPT ![k].obs = sub[k].gen, ![k].ready = ready]
    /\ UNCHANGED <<caches, cr, conf, data, queued, ctl, changes, nfaults>>

SubReady(k) ==
    /\ sub[k].exists /\ sub[k].obs = sub[k].gen /\ ~sub[k].ready
    /\ sub' = [sub EXCEPT ![k].ready = TRUE]
    /\ UNCHANGED <<caches, cr, conf, data, queued, ctl, changes, nfaults>>

SubDegrade(k) ==
    /\ sub[k].ready
    /\ Change
    /\ sub' = [sub EXCEPT ![k].ready = FALSE]
    /\ UNCHANGED <<caches, cr, conf, data, queued, ctl, nfaults>>

----------------------------------------------------------------------------
(* Reconcile of the Swift CR.  Conditions are reset in memory and the      *)
(* generation is recorded "before evaluating conditions".                  *)
Begin(pc, fin) ==
    /\ ctl.pc = "idle" /\ queued
    /\ "cr" \in Lag \/ seen = cr
    /\ seen.exists
    /\ queued' = FALSE
    /\ ctl' = [pc |-> pc, base |-> seen, got |-> FALSE, ok |-> TRUE, again |-> FALSE,
               mem |-> [seen EXCEPT !.ready = FALSE, !.obs = seen.gen, !.fin = fin]]
    /\ UNCHANGED <<objects, caches, changes, nfaults>>

ReconcileGone ==
    /\ ctl.pc = "idle" /\ queued /\ ~seen.exists
    /\ queued' = FALSE
    /\ UNCHANGED <<objects, caches, ctl, changes, nfaults>>

ReconcileNew    == ~seen.fin /\ ~seen.del /\ Begin("patch", TRUE)
ReconcileDelete == seen.del /\ Begin("delete", seen.fin)
ReconcileNormal == seen.fin /\ ~seen.del /\ Begin("conf", TRUE)

Goto(pc) == ctl' = [ctl EXCEPT !.pc = pc]
Requeue  == ctl' = [ctl EXCEPT !.pc = "patch", !.again = TRUE]
Rest     == UNCHANGED <<caches, queued, changes, nfaults>>

FreshConf == "conf" \in Lag \/ confSeen = conf.exists
FreshSub(k) == "sub" \in Lag \/ subSeen[k] = sub[k]

(* "Create a Secret populated with content from templates/, but only if it *)
(* does not exist yet."                                                    *)
GetConf ==
    /\ ctl.pc = "conf"
    /\ FreshConf
    /\ Goto(IF confSeen THEN "meta" ELSE "ensure")
    /\ UNCHANGED objects
    /\ Rest

(* EnsureSecrets reads the cache again, then creates or overwrites; the    *)
(* strings are random, so they differ from all those in use.               *)
EnsureConf ==
    /\ ctl.pc = "ensure"
    /\ FreshConf
    /\ IF confSeen = conf.exists
       THEN /\ \E h \in Hashes \ {conf.hash, data} :
                  conf' = [conf EXCEPT !.exists = TRUE, !.hash = h]
            /\ Goto("meta")
       ELSE Requeue /\ UNCHANGED conf
    /\ UNCHANGED <<cr, sub, data>>
    /\ Rest

(* Mutant of ConfMetaData: the labels only. *)
ConfMetaDataNoFinalizer ==
    /\ ctl.pc = "meta"
    /\ Goto("storage")
    /\ UNCHANGED objects
    /\ Rest

(* reconcileSwiftConfMetaData: nothing to do for a Secret it cannot see.   *)
ConfMetaData ==
    /\ ctl.pc = "meta"
    /\ FreshConf
    /\ IF ~confSeen THEN Goto("storage") /\ UNCHANGED conf
       ELSE IF ~conf.exists THEN Requeue /\ UNCHANGED conf
       ELSE Goto("storage") /\ conf' = [conf EXCEPT !.fin = TRUE]
    /\ UNCHANGED <<cr, sub, data>>
    /\ Rest

Inherit(own, all) == IF own = None THEN all ELSE own

(* The specs that storage-, ring- and proxyCreateOrUpdate write. *)
StorageSpec(s) == [ver |-> s.ver, top |-> Inherit(s.top["proxy"], s.top["swift"])]
RingSpec(s)    == [ver |-> s.ver, top |-> None]
ProxySpec(s)   == [ver |-> s.ver, top |-> Inherit(s.top["proxy"], s.top["swift"])]

Wanted(k, s) == IF k = "storage" THEN StorageSpec(s)
                ELSE IF k = "ring" THEN RingSpec(s) ELSE ProxySpec(s)

(* Mutant of CreateOrUpdate: writes whether or not anything differs. *)
UpdateAlways(k) ==
    /\ ctl.pc = k
    /\ FreshSub(k)
    /\ ctl' = [ctl EXCEPT !.pc = Gens[k], !.got = sub[k].ready]
    /\ sub' = [sub EXCEPT ![k].exists = TRUE, ![k].spec = Wanted(k, ctl.mem.spec),
                          ![k].gen = @ + 1]
    /\ UNCHANGED <<cr, conf, data>>
    /\ Rest

(* controllerutil.CreateOrUpdate: compares with the cached object; a write *)
(* based on an outdated one is refused.  The object comes back with its    *)
(* status, which is mirrored next.                                         *)
CreateOrUpdate(k) ==
    /\ ctl.pc = k
    /\ FreshSub(k)
    /\ LET want == Wanted(k, ctl.mem.spec) IN
       IF subSeen[k].spec = want
       THEN /\ ctl' = [ctl EXCEPT !.pc = Gens[k], !.got = subSeen[k].ready]
            /\ UNCHANGED sub
       ELSE IF subSeen[k] = sub[k]
       THEN /\ ctl' = [ctl EXCEPT !.pc = Gens[k], !.got = sub[k].ready]
            /\ sub' = [sub EXCEPT ![k].exists = TRUE, ![k].spec = want, ![k].gen = @ + 1]
       ELSE Requeue /\ UNCHANGED sub
    /\ UNCHANGED <<cr, conf, data>>
    /\ Rest

After(k) ==
    IF k = "storage" THEN IF ctl.mem.spec.ring THEN "ring" ELSE "proxy"
    ELSE IF k = "ring" THEN "proxy" ELSE "patch"

(* Mutant of CheckGeneration: mirrors without looking at generations. *)
MirrorOnly(k) ==
    /\ ctl.pc = Gens[k]
    /\ ctl' = [ctl EXCEPT !.pc = After(k), !.ok = ctl.ok /\ ctl.got,
                          !.mem.ready = k = "proxy" /\ ctl.ok /\ ctl.got]
    /\ UNCHANGED objects
    /\ Rest

(* check...Generation lists the sub-CRs: "make sure the controller is      *)
(* watching the last generation of the subCR"; then Mirror, and Ready at   *)
(* the end when every sub condition is True.                               *)
CheckGeneration(k) ==
    /\ ctl.pc = Gens[k]
    /\ FreshSub(k)
    /\ LET ok == ctl.ok /\ ctl.got /\ subSeen[k].gen = subSeen[k].obs IN
       ctl' = [ctl EXCEPT !.pc = After(k), !.ok = ok,
                          !.mem.ready = k = "proxy" /\ ok]
    /\ UNCHANGED objects
    /\ Rest

(* Mutant of ReleaseConf: the Secret keeps its finalizer. *)
ReleaseConfMissing ==
    /\ ctl.pc = "delete"
    /\ ctl' = [ctl EXCEPT !.pc = "patch", !.mem.fin = FALSE]
    /\ UNCHANGED objects
    /\ Rest

(* reconcileDelete: the finalizer of swift-conf goes first. *)
ReleaseConf ==
    /\ ctl.pc = "delete"
    /\ FreshConf
    /\ conf' = IF ~confSeen THEN conf
               ELSE IF conf.del THEN NoConf ELSE [conf EXCEPT !.fin = FALSE]
    /\ ctl' = [ctl EXCEPT !.pc = "patch", !.mem.fin = FALSE]
    /\ UNCHANGED <<cr, sub, data>>
    /\ Rest

(* The deferred merge patch. *)
Merge(now, base, mem) ==
    [now EXCEPT !.fin   = IF mem.fin # base.fin THEN mem.fin ELSE @,
                !.obs   = IF mem.obs # base.obs THEN mem.obs ELSE @,
                !.ready = IF mem.ready # base.ready THEN mem.ready ELSE @]

PatchInstance ==
    /\ ctl.pc = "patch"
    /\ LET new == Merge(cr, ctl.base, ctl.mem) IN
       cr' = IF cr.exists THEN [new EXCEPT !.exists = ~(new.del /\ ~new.fin)] ELSE cr
    /\ queued' = (queued \/ ctl.again)
    /\ ctl' = Idle
    /\ UNCHANGED <<caches, conf, sub, data, changes, nfaults>>

(* A call fails, RBAC or Memcached are not there yet: return and patch; or *)
(* the operator restarts.                                                  *)
Fault == nfaults < MaxFaults /\ nfaults' = nfaults + 1

CallFails ==
    /\ ctl.pc \notin {"idle", "patch"}
    /\ Fault
    /\ Requeue
    /\ UNCHANGED <<objects, caches, queued, changes>>

Crash ==
    /\ ctl.pc # "idle"
    /\ Fault
    /\ ctl' = Idle /\ queued' = TRUE
    /\ seen' = cr /\ confSeen' = conf.exists /\ subSeen' = sub
    /\ UNCHANGED <<objects, changes>>

----------------------------------------------------------------------------
(* A Swift CR has been created; swift-conf may have been created for it.   *)
Init ==
    /\ \E s \in Spec0 :
          cr = [exists |-> TRUE, fin |-> FALSE, del |-> FALSE, spec |-> s,
                gen |-> 1, obs |-> 0, ready |-> FALSE]
    /\ \/ conf = NoConf /\ data = None
       \/ \E h \in Hashes :
             conf = [NoConf EXCEPT !.exists = TRUE, !.hash = h] /\ data = h
    /\ sub = [k \in Kinds |-> NoSub]
    /\ seen = cr /\ confSeen = conf.exists /\ subSeen = sub
    /\ queued = TRUE
    /\ ctl = Idle
    /\ changes = 0 /\ nfaults = 0

Reconcile ==
    \/ ReconcileGone \/ ReconcileNew \/ ReconcileDelete \/ ReconcileNormal
    \/ GetConf \/ EnsureConf \/ ConfMetaData \/ ReleaseConf \/ PatchInstance
    \/ \E k \in Kinds : CreateOrUpdate(k) \/ CheckGeneration(k)

Users ==
    \/ \E s \in Spec0 : Edit(s)
    \/ DeleteSwift \/ DeleteConf \/ WriteData

Informers == SyncCR \/ SyncConf \/ \E k \in Kinds : SyncSub(k)

SubControllers == \E k \in Kinds : SubReconcile(k) \/ SubReady(k) \/ SubDegrade(k)

Next == Reconcile \/ Users \/ Informers \/ SubControllers \/ CallFails \/ Crash

Spec == Init /\ [][Next]_vars

(* Queued keys are worked on, informers deliver, and the sub-controllers   *)
(* get their resources ready when they are left in peace.                  *)
Fairness ==
    /\ WF_vars(Reconcile) /\ WF_vars(SyncCR) /\ WF_vars(SyncConf)
    /\ \A k \in Kinds : /\ WF_vars(SyncSub(k))
                        /\ WF_vars(SubReconcile(k)) /\ WF_vars(SubReady(k))

FairSpec == Spec /\ Fairness

----------------------------------------------------------------------------
(* "The finalizer prevents accidental deletion which would cause           *)
(* regeneration of swift_hash_path_prefix/suffix and data loss": as long   *)
(* as there is a swift-conf Secret, the data on the disks can be read with *)
(* it, over deletions of the Secret, failing calls and operator restarts.  *)
StoredDataReadable == data # None /\ conf.exists => conf.hash = data

EnabledKinds == IF cr.spec.ring THEN Kinds ELSE Kinds \ {"ring"}

(* Ready for the current generation means that every sub-CR carries the    *)
(* spec of that generation and its controller has seen it ("make sure the  *)
(* controller is watching the last generation of the subCR").              *)
ReadyMeansCurrent ==
    cr.ready /\ cr.obs = cr.gen =>
        \A k \in EnabledKinds : sub[k].spec = Wanted(k, cr.spec) /\ sub[k].obs = sub[k].gen

(* A deleted Swift leaves no finalizer on the swift-conf Secret, although  *)
(* a reconcile that was under way may have put it back.                    *)
ConfReleasedAfterDelete == ~cr.exists => ~conf.fin

(* Once users leave it alone the Swift CR becomes ready for its last       *)
(* generation and stays so, with caches that lag behind and retried calls. *)
EventuallyReady ==
    <>[](cr.exists /\ ~cr.del =>
           /\ cr.ready /\ cr.obs = cr.gen
           /\ \A k \in EnabledKinds : sub[k].spec = Wanted(k, cr.spec))

----------------------------------------------------------------------------
(* The inductive invariant behind StoredDataReadable and                   *)
(* ConfReleasedAfterDelete, for caches of Swift and Secret that are up to  *)
(* date when read.  As long as Swift is not being deleted, stored data has *)
(* its Secret and SwiftStorage exists only under a finalizer; a reconcile  *)
(* that started before a deletion still relies on both.                    *)
AfterMeta == Kinds \cup {Gens[k] : k \in Kinds}
Normal    == {"conf", "ensure", "meta"} \cup AfterMeta

Backed ==
    /\ data # None => conf.exists
    /\ sub["storage"].exists => conf.fin

ConfHeld ==
    /\ conf.fin => conf.exists /\ cr.exists /\ cr.fin
    /\ conf.exists /\ data # None => conf.hash = data
    /\ cr.exists /\ ~cr.del => Backed

InFlight ==
    /\ ctl.pc \in Normal => cr.exists /\ cr.fin /\ Backed
    /\ ctl.pc = "ensure" => ~conf.exists
    /\ ctl.pc = "meta" => conf.exists
    /\ ctl.pc \in AfterMeta => conf.fin
    /\ ctl.pc = "delete" => cr.del
    /\ ctl.pc \notin {"idle", "patch"} => ctl.mem.fin = ctl.base.fin
    /\ ctl.pc = "patch" /\ ctl.base.fin /\ ~ctl.mem.fin => cr.del /\ ~conf.fin

ConfInv == ConfHeld /\ InFlight
=============================================================================
