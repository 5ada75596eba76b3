---------------------------- MODULE SwiftStorage ----------------------------
(***************************************************************************)
(* The SwiftStorage controller (internal/controller/                       *)
(* swiftstorage_controller.go) between the Swift CR that it gets its spec  *)
(* from and the StatefulSet whose pods it publishes in DNS.                *)
(*                                                                         *)
(* Every API call is a step.  The instance and the StatefulSet are read    *)
(* from caches that lag behind; pods are listed from the API server.       *)
(***************************************************************************)
EXTENDS Admission, FiniteSets

CONSTANTS
    Ordinals,       \* 1..n, the pods of the StatefulSet
    IPs,            \* addresses of the pods with one name
    Local, Foreign, \* Topology references: this namespace, others
    Versions,       \* contents of a Secret, of Memcached, of the other fields
    None,
    Attached,       \* the spec names network attachments
    MaxChanges,     \* bound: what users do, and lost pods
    MaxFaults       \* bound: failing calls and operator restarts

ASSUME StorageAssumption ==
    /\ Cardinality(Ordinals) \in Nat \ {0} /\ Ordinals = 1..Cardinality(Ordinals)
    /\ IPs # {} /\ Versions # {}
    /\ Local \cap Foreign = {}
    /\ None \notin IPs \cup Local \cup Foreign \cup Versions
    /\ Attached \in BOOLEAN
    /\ MaxChanges \in Nat /\ MaxFaults \in Nat

VARIABLES
    swift,          \* the fields of the Swift CR that concern storage
    cr, seen,       \* the SwiftStorage instance, and the cached one
    inputs,         \* contents of the CA bundle and of Memcached
    owned,          \* ConfigMap, Service and NetworkPolicy
    sts, stsSeen,   \* the StatefulSet, and the cached one
    news,           \* the StatefulSet changed after the cache was filled
    pods, last, dns, \* its pods, their last addresses; the DNSData of each
    unlabelled,     \* pods whose volume claim lacks the backup labels
    held,           \* Topologies with the finalizer of this instance
    lost,           \* some reconcile ended without its status patch
    queued, ctl, changes, nfaults

vars == <<swift, cr, seen, inputs, owned, sts, stsSeen, news, pods,
          last, dns, unlabelled, held, lost, queued, ctl, changes, nfaults>>
cluster == <<sts, news, pods, last, dns, unlabelled>>
objects == <<cluster, cr, owned, held>>

Places   == {"swift", "proxy", "storage"}    \* where a reference may be given
Refs     == {None} \cup Local \cup Foreign
Fields   == [replicas : Ordinals, ver : Versions, top : Refs]
Swifts   == [replicas : Ordinals, ver : Versions,
             top : [Places -> Refs]]
Hash     == [ca : Versions, mc : Versions, ver : Versions]
Template == [hash : Hash, top : Refs]
Pod      == [tmpl : Template, ip : {None} \cup IPs, up : BOOLEAN]
MaxGen   == MaxChanges + 1
CRType   == [exists : BOOLEAN, fin : BOOLEAN, del : BOOLEAN, spec : Fields,
             gen : 1..MaxGen, obs : 0..MaxGen, ready : BOOLEAN,
             hash : {None} \cup Hash, top : Refs]
NoSts    == [exists |-> FALSE, gen |-> 0, obs |-> 0, replicas |-> 0, tmpl |-> None,
             ready |-> 0]
NoOwned  == [config |-> None, service |-> FALSE, policy |-> FALSE]
Idle     == [pc |-> "idle", base |-> None, mem |-> None, hash |-> None,
             count |-> 0, ips |-> None, again |-> FALSE]
Points   == {"idle", "config", "service", "policy", "release", "hold", "sset", "labels",
             "verify", "list", "dns", "patch"}

(* The types of all objects; a pod that is up has its last address.        *)
TypeOK ==
    /\ swift \in Swifts
    /\ cr \in CRType /\ seen \in CRType
    /\ owned.config \in {None} \cup [mc : Versions, ver : Versions]
    /\ sts.exists => sts.tmpl \in Template /\ sts.replicas \in Ordinals
    /\ sts.obs <= sts.gen /\ sts.ready \in 0..Cardinality(Ordinals)
    /\ pods \in [Ordinals -> {None} \cup Pod]
    /\ \A o \in Ordinals : pods[o] # None /\ pods[o].up => pods[o].ip = last[o]
    /\ last \in [Ordinals -> {None} \cup IPs]
    /\ dns \in [Ordinals -> {None} \cup IPs]
    /\ held \subseteq Local
    /\ inputs \in [{"ca", "mc"} -> {None} \cup Versions]
    /\ ctl.pc \in Points
    /\ ctl.pc # "idle" => ctl.base \in CRType /\ ctl.mem \in CRType
    /\ changes \in 0..MaxChanges
    /\ nfaults \in 0..MaxFaults

----------------------------------------------------------------------------
(* Users, through the webhook. *)
Change == changes < MaxChanges /\ changes' = changes + 1

Edit(new) ==
    /\ cr.exists /\ ~cr.del
    /\ new # swift
    /\ ValidateUpdate(swift, new, Foreign)
    /\ Change
    /\ swift' = new
    /\ UNCHANGED <<objects, seen, stsSeen, inputs, lost, queued, ctl, nfaults>>

EditOne ==
    \/ \E n \in Ordinals : Edit([swift EXCEPT !.replicas = n])
    \/ \E v \in Versions : Edit([swift EXCEPT !.ver = v])
    \/ \E k \in Places, t \in Refs : Edit([swift EXCEPT !.top[k] = t])

(* Mutant of StorageSpec: the reference of SwiftStorage is the one copied. *)
StorageSpecOwnTopology(s) ==
    [replicas |-> s.replicas, ver |-> s.ver,
     top |-> IF s.top["storage"] = None THEN s.top["swift"] ELSE s.top["storage"]]

(* The spec that storageCreateOrUpdate of the Swift controller writes. *)
StorageSpec(s) ==
    [replicas |-> s.replicas, ver |-> s.ver,
     top |-> IF s.top["proxy"] = None THEN s.top["swift"] ELSE s.top["proxy"]]

StorageCreateOrUpdate ==
    /\ cr.exists /\ ~cr.del
    /\ cr.spec # StorageSpec(swift)
    /\ cr' = [cr EXCEPT !.spec = StorageSpec(swift), !.gen = @ + 1]
    /\ UNCHANGED <<cluster, owned, held, swift, seen, stsSeen, inputs, lost, queued, ctl,
                   changes, nfaults>>

(* Deletion of the owner. *)
DeleteStorage ==
    /\ cr.exists /\ ~cr.del
    /\ Change
    /\ cr' = [cr EXCEPT !.del = TRUE, !.exists = cr.fin]
    /\ UNCHANGED <<cluster, owned, held, swift, seen, stsSeen, inputs, lost, queued, ctl,
                   nfaults>>

(* What the spec refers to appears or changes; the watches on Secrets and  *)
(* Memcached enqueue the instances that refer to them.                     *)
Provide(k, v) ==
    /\ inputs[k] = None
    /\ inputs' = [inputs EXCEPT ![k] = v]
    /\ queued' = (queued \/ seen.exists)
    /\ UNCHANGED <<objects, swift, seen, stsSeen, lost, ctl, changes, nfaults>>

(* Mutant of Replace: the Secret is not watched. *)
ReplaceUnseen(k, v) ==
    /\ inputs[k] \notin {None, v}
    /\ Change
    /\ inputs' = [inputs EXCEPT ![k] = v]
    /\ UNCHANGED <<objects, swift, seen, stsSeen, lost, queued, ctl, nfaults>>

Replace(k, v) ==
    /\ inputs[k] \notin {None, v}
    /\ Change
    /\ inputs' = [inputs EXCEPT ![k] = v]
    /\ queued' = (queued \/ seen.exists)
    /\ UNCHANGED <<objects, swift, seen, stsSeen, lost, ctl, nfaults>>

(* An object of the controller is deleted by hand; it is owned. *)
DeleteOwned ==
    /\ owned # NoOwned
    /\ Change
    /\ \E o \in {[owned EXCEPT !.config = None], [owned EXCEPT !.service = FALSE],
                 [owned EXCEPT !.policy = FALSE]} : o # owned /\ owned' = o
    /\ queued' = (queued \/ seen.exists)
    /\ UNCHANGED <<cluster, cr, held, swift, seen, stsSeen, inputs, lost, ctl, nfaults>>

----------------------------------------------------------------------------
(* The StatefulSet controller, the kubelet and the garbage collector. *)
Up == {o \in Ordinals : pods[o] # None /\ pods[o].up}
Addressed == {o \in Ordinals : pods[o] # None /\ pods[o].ip # None}

(* One sync: missing pods are created in parallel, the status is written. *)
StsSync ==
    /\ sts.exists /\ cr.exists
    /\ LET new == [sts EXCEPT !.obs = sts.gen, !.ready = Cardinality(Up)]
           missing == {o \in 1..sts.replicas : pods[o] = None} IN
       /\ new # sts \/ missing # {}
       /\ sts' = new /\ news' = (news \/ new # sts)
       /\ pods' = [o \in Ordinals |-> IF o \in missing
                      THEN [tmpl |-> sts.tmpl, ip |-> None, up |-> FALSE] ELSE pods[o]]
    /\ UNCHANGED <<last, dns, unlabelled, cr, owned, held, swift, seen, stsSeen, inputs,
                   lost, queued, ctl, changes, nfaults>>

(* A new pod has another address than the one before it. *)
PodStart(o) ==
    /\ pods[o] # None /\ pods[o].ip = None
    /\ \E ip \in IPs \ {last[o]} :
          pods' = [pods EXCEPT ![o].ip = ip] /\ last' = [last EXCEPT ![o] = ip]
    /\ UNCHANGED <<sts, news, dns, unlabelled, cr, owned, held, swift, seen, stsSeen, inputs,
                   lost, queued, ctl, changes, nfaults>>

PodUp(o) ==
    /\ o \in Addressed \ Up
    /\ pods' = [pods EXCEPT ![o].up = TRUE]
    /\ UNCHANGED <<sts, news, last, dns, unlabelled, cr, owned, held, swift, seen, stsSeen, inputs,
                   lost, queued, ctl, changes, nfaults>>

(* Rolling update, from the last pod down, each when those after it run. *)
StsRoll(o) ==
    /\ sts.exists /\ sts.obs = sts.gen
    /\ pods[o] # None /\ pods[o].tmpl # sts.tmpl
    /\ \A p \in Ordinals : p > o /\ p <= sts.replicas => p \in Up /\ pods[p].tmpl = sts.tmpl
    /\ pods' = [pods EXCEPT ![o] = None]
    /\ UNCHANGED <<sts, news, last, dns, unlabelled, cr, owned, held, swift, seen, stsSeen, inputs,
                   lost, queued, ctl, changes, nfaults>>

PodLost(o) ==
    /\ pods[o] # None
    /\ Change
    /\ pods' = [pods EXCEPT ![o] = None]
    /\ UNCHANGED <<sts, news, last, dns, unlabelled, cr, owned, held, swift, seen, stsSeen, inputs,
                   lost, queued, ctl, nfaults>>

CollectGarbage ==
    /\ ~cr.exists /\ (sts # NoSts \/ owned # NoOwned \/ \E o \in Ordinals : dns[o] # None)
    /\ sts' = NoSts /\ news' = TRUE /\ owned' = NoOwned
    /\ pods' = [o \in Ordinals |-> None] /\ dns' = [o \in Ordinals |-> None]
    /\ UNCHANGED <<last, unlabelled, cr, held, swift, seen, stsSeen, inputs, lost, queued, ctl,
                   changes, nfaults>>

(* Informers. *)
SyncCR ==
    /\ seen # cr
    /\ seen' = cr /\ queued' = TRUE
    /\ UNCHANGED <<objects, swift, stsSeen, inputs, lost, ctl, changes, nfaults>>

SyncSts ==
    /\ news
    /\ stsSeen' = sts /\ news' = FALSE /\ queued' = TRUE
    /\ UNCHANGED <<sts, pods, last, dns, unlabelled, cr, owned, held, swift, seen, inputs, lost, ctl, changes, nfaults>>

----------------------------------------------------------------------------
(* Reconcile.  Conditions are reset in memory, the generation is recorded. *)
Begin(pc, fin) ==
    /\ ctl.pc = "idle" /\ queued
    /\ seen.exists
    /\ queued' = FALSE
    /\ ctl' = [Idle EXCEPT !.pc = pc, !.base = seen,
                           !.mem = [seen EXCEPT !.ready = FALSE, !.obs = seen.gen, !.fin = fin]]
    /\ UNCHANGED <<objects, swift, seen, stsSeen, inputs, lost, changes, nfaults>>

ReconcileGone ==
    /\ ctl.pc = "idle" /\ queued /\ ~seen.exists
    /\ queued' = FALSE
    /\ UNCHANGED <<objects, swift, seen, stsSeen, inputs, lost, ctl, changes, nfaults>>

(* A deleted instance loses its finalizer and nothing else is done. *)
ReconcileNew    == ~seen.fin /\ ~seen.del /\ Begin("patch", TRUE)
ReconcileDelete == seen.del /\ Begin("patch", FALSE)
ReconcileNormal == seen.fin /\ ~seen.del /\ Begin("config", TRUE)

Goto(pc) == ctl' = [ctl EXCEPT !.pc = pc]
Requeue  == ctl' = [ctl EXCEPT !.pc = "patch", !.again = TRUE]
Rest     == UNCHANGED <<swift, seen, stsSeen, inputs, lost, queued, changes, nfaults>>

(* What the ConfigMap is rendered from, and all that the pods depend on.   *)
ConfigMapTemplates(c) == [mc |-> inputs.mc, ver |-> c.mem.spec.ver]

InputHash(c) == [ca |-> inputs.ca, mc |-> inputs.mc, ver |-> c.mem.spec.ver]

Service(o)       == [o EXCEPT !.service = TRUE]
NetworkPolicy(o) == [o EXCEPT !.policy = TRUE]

(* ValidateCACertSecret, GetMemcachedByName and EnsureConfigMaps.  A       *)
(* missing CA bundle ends the reconcile, its Secret is watched; a missing  *)
(* Memcached is asked for again.                                           *)
EnsureConfigMaps ==
    /\ ctl.pc = "config"
    /\ \/ inputs.ca = None /\ Goto("patch") /\ UNCHANGED owned
       \/ inputs.ca # None /\ inputs.mc = None /\ Requeue /\ UNCHANGED owned
       \/ /\ inputs.ca # None /\ inputs.mc # None
          /\ owned' = [owned EXCEPT !.config = ConfigMapTemplates(ctl)]
          /\ ctl' = [ctl EXCEPT !.pc = "service", !.hash = InputHash(ctl)]
    /\ UNCHANGED <<cluster, cr, held>>
    /\ Rest

(* The headless Service. *)
CreateService ==
    /\ ctl.pc = "service"
    /\ owned' = Service(owned)
    /\ Goto("policy")
    /\ UNCHANGED <<cluster, cr, held>>
    /\ Rest

(* GetNADWithName, NetworkPolicy, then createHashOfInputHashes: "Hash      *)
(* changed and instance status should be updated ... so we need to return  *)
(* and reconcile again".                                                   *)
CreatePolicy ==
    /\ ctl.pc = "policy"
    /\ owned' = NetworkPolicy(owned)
    /\ ctl' = [ctl EXCEPT !.pc = IF ctl.mem.hash = ctl.hash THEN "release" ELSE "patch",
                          !.mem.hash = ctl.hash]
    /\ UNCHANGED <<cluster, cr, held>>
    /\ Rest


(* ensureTopology: the finalizer leaves the Topology applied before, *)
ReleaseTopology ==
    /\ ctl.pc = "release"
    /\ held' = IF ctl.mem.top # ctl.mem.spec.top THEN held \ {ctl.mem.top} ELSE held
    /\ Goto("hold")
    /\ UNCHANGED <<cluster, cr, owned>>
    /\ Rest

(* Mutant of HoldTopology: no reference is taken for one. *)
HoldTopologyNil ==
    /\ ctl.pc = "hold"
    /\ held' = held \cup {ctl.mem.spec.top}
    /\ ctl' = [ctl EXCEPT !.pc = "sset", !.mem.top = ctl.mem.spec.top]
    /\ UNCHANGED <<cluster, cr, owned>>
    /\ Rest

(* and is put on the new one, which is recorded in the status. *)
HoldTopology ==
    /\ ctl.pc = "hold"
    /\ held' = held \cup ({ctl.mem.spec.top} \ {None})
    /\ ctl' = [ctl EXCEPT !.pc = "sset", !.mem.top = ctl.mem.spec.top]
    /\ UNCHANGED <<cluster, cr, owned>>
    /\ Rest

(* The StatefulSet for a spec: its replicas and the template of its pods.  *)
StatefulSet(set, c) ==
    [set EXCEPT !.exists = TRUE, !.replicas = c.mem.spec.replicas,
                !.tmpl = [hash |-> c.hash, top |-> c.mem.spec.top]]

(* CreateOrPatch of the StatefulSet: a merge patch against the cached one. *)
(* The object comes back with its status: the count of its pods, or 0 as   *)
(* long as it is not ready.                                                *)
CreateOrPatch ==
    /\ ctl.pc = "sset"
    /\ LET want == StatefulSet(stsSeen, ctl)
           new  == [sts EXCEPT
                      !.exists   = TRUE,
                      !.tmpl     = IF want.tmpl # stsSeen.tmpl THEN want.tmpl ELSE @,
                      !.replicas = IF want.replicas # stsSeen.replicas
                                   THEN want.replicas ELSE @,
                      !.gen      = @ + 1]
           Ready(got) == got.obs = got.gen /\ got.ready = got.replicas
           Done(got) == ctl' = [ctl EXCEPT !.pc = "labels",
                                           !.count = IF Ready(got) THEN got.ready ELSE 0]
       IN  IF want = stsSeen THEN Done(stsSeen) /\ UNCHANGED <<sts, news>>
           ELSE IF stsSeen.exists # sts.exists
           THEN Requeue /\ UNCHANGED <<sts, news>>
           ELSE IF [new EXCEPT !.gen = sts.gen] = sts
           THEN Done(sts) /\ UNCHANGED <<sts, news>>
           ELSE Done(new) /\ sts' = new /\ news' = TRUE
    /\ UNCHANGED <<pods, last, dns, unlabelled, cr, owned, held>>
    /\ Rest

(* All claims are labelled; then IsReady decides. *)
ReconcilePVCLabels ==
    /\ ctl.pc = "labels"
    /\ unlabelled' = {}
    /\ Goto(IF ctl.count = 0 THEN "patch" ELSE "verify")
    /\ UNCHANGED <<sts, news, pods, last, dns, cr, owned, held>>
    /\ Rest

(* VerifyNetworkStatusFromAnnotation: as many pods in the network as are   *)
(* ready, if the spec names one.  (Replicas are never 0 here.)             *)
VerifyNetworks ==
    /\ ctl.pc = "verify"
    /\ IF ~Attached \/ Cardinality(Addressed) = ctl.count THEN Goto("list") ELSE Requeue
    /\ UNCHANGED objects
    /\ Rest

(* A listed pod without address is an error. *)
ListPods ==
    /\ ctl.pc = "list"
    /\ IF \E o \in Ordinals \ Addressed : pods[o] # None THEN Requeue
       ELSE ctl' = [ctl EXCEPT !.pc = "dns", !.ips = [o \in Addressed |-> pods[o].ip]]
    /\ UNCHANGED objects
    /\ Rest

DNSData(o, ip) == dns' = [dns EXCEPT ![o] = ip]

(* DNSData of one listed pod after the other, then Ready. *)
WriteDNS ==
    /\ ctl.pc = "dns"
    /\ IF DOMAIN ctl.ips = {}
       THEN ctl' = [ctl EXCEPT !.pc = "patch", !.mem.ready = TRUE] /\ UNCHANGED dns
       ELSE \E o \in DOMAIN ctl.ips :
               /\ \A p \in DOMAIN ctl.ips : o <= p
               /\ DNSData(o, ctl.ips[o])
               /\ ctl' = [ctl EXCEPT !.ips = [p \in DOMAIN @ \ {o} |-> @[p]]]
    /\ UNCHANGED <<sts, news, pods, last, unlabelled, cr, owned, held>>
    /\ Rest

(* The deferred merge patch. *)
Merge(now, base, mem) ==
    LET Field(f) == IF mem[f] # base[f] THEN mem[f] ELSE now[f] IN
    [now EXCEPT !.fin = Field("fin"), !.obs = Field("obs"), !.ready = Field("ready"),
                !.hash = Field("hash"), !.top = Field("top")]

PatchInstance ==
    /\ ctl.pc = "patch"
    /\ LET new == Merge(cr, ctl.base, ctl.mem) IN
       cr' = IF cr.exists THEN [new EXCEPT !.exists = ~(new.del /\ ~new.fin)] ELSE cr
    /\ queued' = (queued \/ ctl.again)
    /\ ctl' = Idle
    /\ UNCHANGED <<cluster, owned, held, swift, seen, stsSeen, inputs, lost, changes, nfaults>>

(* A call fails, or does not find the network or the Topology: return and  *)
(* patch.  The patch fails, or the operator restarts: the status is lost.  *)
Fault == nfaults < MaxFaults /\ nfaults' = nfaults + 1

CallFails ==
    /\ ctl.pc \notin {"idle", "patch"}
    /\ Fault
    /\ Requeue
    /\ UNCHANGED <<objects, swift, seen, stsSeen, inputs, lost, queued, changes>>

PatchFails ==
    /\ ctl.pc = "patch"
    /\ Fault
    /\ ctl' = Idle /\ queued' = TRUE /\ lost' = TRUE
    /\ UNCHANGED <<objects, swift, seen, stsSeen, inputs, changes>>

Crash ==
    /\ ctl.pc # "idle"
    /\ Fault
    /\ ctl' = Idle /\ queued' = TRUE /\ lost' = TRUE
    /\ seen' = cr /\ stsSeen' = sts /\ news' = FALSE
    /\ UNCHANGED <<sts, pods, last, dns, unlabelled, cr, owned, held, swift, inputs, changes>>

----------------------------------------------------------------------------
(* Versions, addresses and Topologies are alike: any may come first. *)
Old     == CHOOSE v \in Versions : TRUE
FirstIP == CHOOSE i \in IPs : TRUE
InUse   == CHOOSE t \in Local : TRUE

Begun ==
    /\ seen = cr /\ stsSeen = sts /\ news = FALSE
    /\ lost = FALSE /\ ctl = Idle
    /\ changes = 0 /\ nfaults = 0

(* A SwiftStorage has just been created for a Swift that the webhook has   *)
(* let in, with a reference to a Topology elsewhere that it overlooks; an  *)
(* earlier one had pods and left a volume claim, and an input may be       *)
(* missing.                                                                *)
InitNew ==
    /\ \E t \in Foreign :
          swift = [replicas |-> 1, ver |-> Old,
                   top |-> [k \in Places |-> IF k = "storage" THEN t ELSE None]]
    /\ ValidateCreate(swift, Foreign)
    /\ cr = [exists |-> TRUE, fin |-> FALSE, del |-> FALSE, spec |-> StorageSpec(swift),
             gen |-> 1, obs |-> 0, ready |-> FALSE, hash |-> None, top |-> None]
    /\ inputs \in {[ca |-> Old, mc |-> Old], [ca |-> None, mc |-> Old], [ca |-> Old, mc |-> None]}
    /\ owned = NoOwned /\ sts = NoSts
    /\ pods = [o \in Ordinals |-> None]
    /\ last = [o \in Ordinals |-> FirstIP] /\ dns = [o \in Ordinals |-> None]
    /\ unlabelled = {1} /\ held = {}
    /\ queued = TRUE /\ Begun

(* Or one has been deployed, with all its pods, and a Topology. *)
InitDeployed ==
    \E t \in Local \cap {InUse} :
    LET hash == [ca |-> Old, mc |-> Old, ver |-> Old]
        tmpl == [hash |-> hash, top |-> t]
        all  == Cardinality(Ordinals) IN
    /\ swift = [replicas |-> all, ver |-> Old,
                top |-> [k \in Places |-> IF k = "proxy" THEN t ELSE None]]
    /\ cr = [exists |-> TRUE, fin |-> TRUE, del |-> FALSE, spec |-> StorageSpec(swift),
             gen |-> 1, obs |-> 1, ready |-> TRUE, hash |-> hash, top |-> t]
    /\ inputs = [ca |-> Old, mc |-> Old]
    /\ owned = [config |-> [mc |-> Old, ver |-> Old], service |-> TRUE, policy |-> TRUE]
    /\ sts = [exists |-> TRUE, gen |-> 1, obs |-> 1, replicas |-> all, tmpl |-> tmpl, ready |-> all]
    /\ pods = [o \in Ordinals |-> [tmpl |-> tmpl, ip |-> FirstIP, up |-> TRUE]]
    /\ last = [o \in Ordinals |-> FirstIP] /\ dns = last
    /\ unlabelled = {} /\ held = {t}
    /\ queued = FALSE /\ Begun

Init == InitNew \/ InitDeployed

Controller ==
    \/ ReconcileGone \/ ReconcileNew \/ ReconcileDelete \/ ReconcileNormal
    \/ EnsureConfigMaps \/ CreateService \/ CreatePolicy \/ ReleaseTopology \/ HoldTopology
    \/ CreateOrPatch \/ ReconcilePVCLabels \/ VerifyNetworks \/ ListPods \/ WriteDNS \/ PatchInstance

Providers == \E k \in {"ca", "mc"} : Provide(k, Old)

Kubelet(o) == PodStart(o) \/ PodUp(o) \/ StsRoll(o)

Users ==
    \/ EditOne \/ DeleteStorage \/ DeleteOwned
    \/ \E k \in {"ca", "mc"}, v \in Versions : Replace(k, v)
    \/ \E o \in Ordinals : PodLost(o)

Next ==
    \/ Controller \/ StorageCreateOrUpdate \/ Providers \/ Users
    \/ StsSync \/ CollectGarbage \/ SyncCR \/ SyncSts \/ CallFails \/ PatchFails \/ Crash
    \/ \E o \in Ordinals : Kubelet(o)

Spec == Init /\ [][Next]_vars

(* Everyone else takes turns; users, faults and lost pods are not owed.    *)
FairSpec ==
    /\ Spec
    /\ WF_vars(Controller) /\ WF_vars(StorageCreateOrUpdate) /\ WF_vars(Providers)
    /\ WF_vars(StsSync) /\ WF_vars(SyncCR) /\ WF_vars(SyncSts)
    /\ \A o \in Ordinals : WF_vars(Kubelet(o))

----------------------------------------------------------------------------
(* "SwiftStorage does not support scale-in": the StatefulSet never loses a *)
(* replica, and with it a disk, through edits, outdated caches, failed     *)
(* calls and restarts of the operator.                                     *)
NeverScaledIn == [][sts.exists /\ sts'.exists => sts'.replicas >= sts.replicas]_vars

(* "fail if a different Namespace is referenced": no Topology of another   *)
(* namespace reaches the spec of SwiftStorage or its pods, although the    *)
(* webhook checks the reference of SwiftProxy in place of its own.         *)
NoForeignTopology ==
    /\ cr.spec.top \notin Foreign
    /\ sts.exists => sts.tmpl.top \notin Foreign

(* A changed spec, CA bundle, Memcached or deleted object always reaches   *)
(* the pods in the end: they run with the current inputs and are ready,    *)
(* DNS has their addresses, claims have their labels, and the instance     *)
(* says so.                                                                *)
Current ==
    LET s == StorageSpec(swift)
        tmpl == [hash |-> [ca |-> inputs.ca, mc |-> inputs.mc, ver |-> s.ver], top |-> s.top] IN
    /\ cr.spec = s /\ cr.obs = cr.gen /\ cr.ready
    /\ owned = [config |-> [mc |-> inputs.mc, ver |-> s.ver], service |-> TRUE, policy |-> TRUE]
    /\ unlabelled = {}
    /\ \A o \in 1..s.replicas :
          /\ o \in Up /\ pods[o].tmpl = tmpl
          /\ dns[o] = pods[o].ip

EventuallyCurrent == <>[](~cr.exists \/ Current)

=============================================================================
