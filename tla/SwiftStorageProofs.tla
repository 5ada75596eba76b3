------------------------- MODULE SwiftStorageProofs -------------------------
(***************************************************************************)
(* Theorems about SwiftStorage, for any number of pods, addresses,         *)
(* Topologies, changes and faults: types, storage is never scaled in, and  *)
(* no Topology of another namespace reaches the pods.                      *)
(***************************************************************************)
EXTENDS SwiftStorage, FiniteSetTheorems, TLAPS

(* Instances, templates and StatefulSets without a foreign Topology. *)
CRGood    == {c \in CRType : c.spec.top \notin Foreign}
TmplGood  == {t \in Template : t.top \notin Foreign}
Counts    == 0..Cardinality(Ordinals)
StsSet    == [exists : {TRUE}, gen : Nat, obs : Nat, replicas : Ordinals,
              tmpl : TmplGood, ready : Counts]
StsGood   == {NoSts} \cup {s \in StsSet : s.obs <= s.gen}
Addresses == UNION {[S -> IPs] : S \in SUBSET Ordinals}
CtlShape  == [pc : Points, base : {None} \cup CRGood, mem : {None} \cup CRGood,
              hash : {None} \cup Hash, count : Nat, ips : {None} \cup Addresses,
              again : BOOLEAN]

(* The webhook keeps foreign references out of the two places that the     *)
(* Swift controller copies from.                                           *)
SwiftInv ==
    /\ swift \in Swifts
    /\ swift.top["swift"] \notin Foreign /\ swift.top["proxy"] \notin Foreign

(* A generation for each change, and one to come when the spec of          *)
(* SwiftStorage has not been written yet.                                  *)
CRInv ==
    /\ cr \in CRGood /\ seen \in CRGood
    /\ cr.gen <= changes + 1
    /\ cr.spec # StorageSpec(swift) => cr.gen <= changes
    /\ changes \in 0..MaxChanges /\ nfaults \in 0..MaxFaults

StsInv == sts \in StsGood /\ stsSeen \in StsGood

PodInv ==
    /\ pods \in [Ordinals -> {None} \cup Pod]
    /\ last \in [Ordinals -> {None} \cup IPs]
    /\ dns \in [Ordinals -> {None} \cup IPs]
    /\ \A o \in Ordinals : pods[o] # None =>
          (pods[o].ip # None => pods[o].ip = last[o]) /\ (pods[o].up => pods[o].ip # None)

InputInv ==
    /\ inputs \in [{"ca", "mc"} -> {None} \cup Versions]
    /\ owned \in [config : {None} \cup [mc : Versions, ver : Versions],
                  service : BOOLEAN, policy : BOOLEAN]
    /\ held \subseteq Local

(* What the reconcile in flight has at each of its points. *)
Hashed == {"service", "policy", "release", "hold", "sset", "labels", "verify", "list", "dns"}

CtlInv ==
    /\ ctl \in CtlShape
    /\ ctl.pc # "idle" => ctl.base \in CRGood /\ ctl.mem \in CRGood
    /\ ctl.pc \in Hashed => ctl.hash \in Hash
    /\ ctl.pc = "dns" => ctl.ips \in Addresses

(* Replicas grow from the StatefulSet over the reconcile in flight and the *)
(* cache to the instance and the Swift CR.                                 *)
GrowInv ==
    /\ sts.replicas <= seen.spec.replicas
    /\ seen.spec.replicas <= cr.spec.replicas
    /\ cr.spec.replicas <= swift.replicas
    /\ ctl.pc # "idle" => /\ sts.replicas <= ctl.mem.spec.replicas
                          /\ ctl.mem.spec.replicas <= seen.spec.replicas

StorageInv == SwiftInv /\ CRInv /\ StsInv /\ PodInv /\ InputInv /\ CtlInv /\ GrowInv

----------------------------------------------------------------------------
(* The pods are a finite interval, so that ready pods can be counted. *)
LEMMA OrdinalFacts ==
  /\ Cardinality(Ordinals) \in Nat /\ 1 \in Ordinals /\ Ordinals \subseteq Nat
  /\ Cardinality(Ordinals) \in Ordinals
  /\ IsFiniteSet(Ordinals)
<1>1. /\ Cardinality(Ordinals) \in Nat /\ 1 \in Ordinals /\ Ordinals \subseteq Nat
      /\ Cardinality(Ordinals) \in Ordinals
  BY StorageAssumption
<1>2. IsFiniteSet(1..Cardinality(Ordinals))
  BY <1>1, FS_Interval
<1>. QED  BY <1>1, <1>2, StorageAssumption

(* As many pods are up as there are ordinals, at most. *)
LEMMA UpCount == Cardinality(Up) \in Counts
<1>1. Up \subseteq Ordinals
  BY DEF Up
<1>2. IsFiniteSet(Up) /\ Cardinality(Up) <= Cardinality(Ordinals)
  BY <1>1, OrdinalFacts, FS_Subset
<1>. QED  BY <1>2, OrdinalFacts, FS_CardinalityType DEF Counts

(* The version of a deployed instance is a version. *)
LEMMA OldVersion == Old \in Versions
BY StorageAssumption DEF Old

(* What the Swift controller writes has no foreign Topology, although the  *)
(* reference for SwiftStorage itself may be one.                           *)
LEMMA StorageSpecGood ==
  ASSUME SwiftInv
  PROVE  /\ StorageSpec(swift) \in Fields
         /\ StorageSpec(swift).top \notin Foreign
         /\ StorageSpec(swift).replicas = swift.replicas
BY DEF SwiftInv, StorageSpec, Swifts, Fields, Places, Refs

(* A new instance, and one that is deployed. *)
LEMMA StorageInit == Init => StorageInv
<1>1. ASSUME InitNew PROVE StorageInv
  <2>1. SwiftInv
    <3>1. PICK t \in Foreign :
            swift = [replicas |-> 1, ver |-> Old,
                     top |-> [k \in Places |-> IF k = "storage" THEN t ELSE None]]
      BY <1>1 DEF InitNew
    <3>2. /\ swift.replicas = 1 /\ swift \in Swifts
          /\ swift.top["swift"] = None /\ swift.top["proxy"] = None
      BY <3>1, OrdinalFacts, OldVersion DEF Swifts, Places, Refs
    <3>. QED  BY <3>2, StorageAssumption DEF SwiftInv
  <2>2. cr \in CRGood /\ cr.gen = 1 /\ cr.spec = StorageSpec(swift)
    <3>1. cr = [exists |-> TRUE, fin |-> FALSE, del |-> FALSE, spec |-> StorageSpec(swift),
                gen |-> 1, obs |-> 0, ready |-> FALSE, hash |-> None, top |-> None]
      BY <1>1 DEF InitNew
    <3>2. 1 \in 1..MaxGen /\ 0 \in 0..MaxGen /\ None \in Refs
      BY StorageAssumption DEF MaxGen, Refs
    <3>. QED  BY <2>1, <3>1, <3>2, StorageSpecGood DEF CRGood, CRType
  <2>3. CRInv
    <3>1. changes = 0 /\ nfaults = 0 /\ seen = cr
      BY <1>1 DEF InitNew, Begun
    <3>. QED  BY <2>2, <3>1, StorageAssumption DEF CRInv
  <2>4. StsInv /\ sts.replicas = 0
    BY <1>1 DEF InitNew, Begun, StsInv, StsGood, NoSts
  <2>5. PodInv
    BY <1>1, StorageAssumption DEF InitNew, PodInv, FirstIP
  <2>6. InputInv
    BY <1>1, OldVersion DEF InitNew, InputInv, NoOwned
  <2>7. CtlInv /\ ctl.pc = "idle"
    BY <1>1 DEF InitNew, Begun, CtlInv, CtlShape, Idle, Points, Hashed
  <2>8. GrowInv
    <3>1. cr.spec.replicas = swift.replicas /\ swift.replicas \in Nat /\ seen = cr
      BY <2>1, <2>2, StorageSpecGood, OrdinalFacts, <1>1 DEF SwiftInv, Swifts, InitNew, Begun
    <3>. QED  BY <2>4, <2>7, <3>1 DEF GrowInv
  <2>. QED  BY <2>1, <2>3, <2>4, <2>5, <2>6, <2>7, <2>8 DEF StorageInv
<1>2. ASSUME InitDeployed PROVE StorageInv
  <2> DEFINE ip   == FirstIP
             hash == [ca |-> Old, mc |-> Old, ver |-> Old]
             all  == Cardinality(Ordinals)
  <2>0. ip \in IPs /\ hash \in Hash /\ all \in Ordinals /\ all \in Nat
    BY StorageAssumption, OldVersion, OrdinalFacts DEF Hash, FirstIP
  <2>1. PICK t \in Local :
    /\ swift = [replicas |-> all, ver |-> Old,
                top |-> [k \in Places |-> IF k = "proxy" THEN t ELSE None]]
    /\ cr = [exists |-> TRUE, fin |-> TRUE, del |-> FALSE, spec |-> StorageSpec(swift),
             gen |-> 1, obs |-> 1, ready |-> TRUE, hash |-> hash, top |-> t]
    /\ inputs = [ca |-> Old, mc |-> Old]
    /\ owned = [config |-> [mc |-> Old, ver |-> Old], service |-> TRUE, policy |-> TRUE]
    /\ sts = [exists |-> TRUE, gen |-> 1, obs |-> 1, replicas |-> all,
              tmpl |-> [hash |-> hash, top |-> t], ready |-> all]
    /\ pods = [o \in Ordinals |-> [tmpl |-> [hash |-> hash, top |-> t], ip |-> ip, up |-> TRUE]]
    /\ last = [o \in Ordinals |-> ip] /\ dns = last
    /\ unlabelled = {} /\ held = {t}
    BY <1>2 DEF InitDeployed
  <2>2. t \in Refs /\ t \notin Foreign /\ None \notin Foreign
    BY StorageAssumption DEF Refs
  <2> HIDE DEF ip, hash, all
  <2>3. SwiftInv /\ swift.replicas = all
    <3>1. /\ swift.replicas = all /\ swift \in Swifts
          /\ swift.top["swift"] = None /\ swift.top["proxy"] = t
      BY <2>0, <2>1, <2>2, OldVersion DEF Swifts, Places, Refs
    <3>. QED  BY <2>2, <3>1 DEF SwiftInv
  <2>4. cr \in CRGood /\ cr.gen = 1 /\ cr.spec = StorageSpec(swift)
    <3>1. 1 \in 1..MaxGen /\ 1 \in 0..MaxGen
      BY StorageAssumption DEF MaxGen
    <3>. QED  BY <2>0, <2>1, <2>2, <2>3, <3>1, StorageSpecGood DEF CRGood, CRType
  <2>5. changes = 0 /\ nfaults = 0 /\ seen = cr /\ stsSeen = sts /\ ctl = Idle
    BY <1>2 DEF InitDeployed, Begun
  <2>6. CRInv
    BY <2>4, <2>5, StorageAssumption DEF CRInv
  <2>7. StsInv /\ sts.replicas = all
    <3>1. [hash |-> hash, top |-> t] \in TmplGood
      BY <2>0, <2>2 DEF TmplGood, Template
    <3>2. all \in Counts
      BY <2>0 DEF all, Counts
    <3>3. sts \in StsSet /\ sts.obs <= sts.gen /\ sts.replicas = all
      BY <2>0, <2>1, <3>1, <3>2 DEF StsSet
    <3>. QED  BY <2>5, <3>3 DEF StsInv, StsGood
  <2>8. PodInv
    <3>1. \A o \in Ordinals : pods[o] \in Pod /\ pods[o].ip = ip /\ last[o] = ip
      BY <2>0, <2>1, <2>2 DEF Pod, Template
    <3>2. ip # None
      BY <2>0, StorageAssumption
    <3>. QED  BY <2>0, <2>1, <3>1, <3>2 DEF PodInv
  <2>9. InputInv
    BY <2>1, OldVersion DEF InputInv
  <2>10. CtlInv /\ ctl.pc = "idle"
    BY <2>5 DEF CtlInv, CtlShape, Idle, Points, Hashed
  <2>11. GrowInv
    BY <2>0, <2>3, <2>4, <2>5, <2>7, <2>10, StorageSpecGood DEF GrowInv
  <2>. QED  BY <2>3, <2>6, <2>7, <2>8, <2>9, <2>10, <2>11 DEF StorageInv
<1>. QED  BY <1>1, <1>2 DEF Init

----------------------------------------------------------------------------
(* The replicas of instances and StatefulSets are numbers. *)
LEMMA ReplicaFacts ==
  ASSUME StorageInv
  PROVE  /\ swift.replicas \in Nat /\ sts.replicas \in Nat
         /\ cr.spec.replicas \in Nat /\ seen.spec.replicas \in Nat
         /\ ctl.pc # "idle" => /\ ctl.mem.spec.replicas \in Ordinals
                               /\ ctl.mem.spec.replicas \in Nat
<1>1. \A c \in CRGood : c.spec.replicas \in Ordinals
  BY DEF CRGood, CRType, Fields
<1>2. \A s \in StsGood : s.replicas \in Nat
  <2>1. NoSts.replicas = 0
    BY DEF NoSts
  <2>2. \A s \in StsSet : s.replicas \in Nat
    BY OrdinalFacts DEF StsSet
  <2>. QED  BY <2>1, <2>2 DEF StsGood
<1>3. swift.replicas \in Nat
  BY OrdinalFacts DEF StorageInv, SwiftInv, Swifts
<1>4. sts \in StsGood /\ cr \in CRGood /\ seen \in CRGood
      /\ (ctl.pc # "idle" => ctl.mem \in CRGood)
  BY DEF StorageInv, CRInv, StsInv, CtlInv
<1>. QED  BY <1>1, <1>2, <1>3, <1>4, OrdinalFacts

(* An edit of the Swift CR that the webhook lets in. *)
LEMMA EditKeeps ==
  ASSUME StorageInv, NEW new \in Swifts, Edit(new)
  PROVE  StorageInv'
<1> USE DEF StorageInv
<1>1. /\ swift' = new /\ changes < MaxChanges /\ changes' = changes + 1
      /\ UNCHANGED <<cr, seen, sts, stsSeen, pods, last, dns, inputs, owned, held, ctl, nfaults>>
  BY DEF Edit, Change, objects, cluster
<1>2. /\ new.replicas >= swift.replicas
      /\ new.top["swift"] \notin Foreign /\ new.top["proxy"] \notin Foreign
  BY DEF Edit, ValidateUpdate, ValidateSwiftTopology, ValidateProxyTopology, ValidateTopologyRef
<1>3. SwiftInv'
  BY <1>1, <1>2 DEF SwiftInv
<1>4. CRInv'
  <2>1. cr.gen \in Int /\ changes \in 0..MaxChanges /\ MaxChanges \in Nat
    BY StorageAssumption DEF CRInv, CRGood, CRType
  <2>2. cr.gen <= changes' /\ changes' \in 0..MaxChanges
    BY <1>1, <2>1 DEF CRInv
  <2>. QED  BY <1>1, <2>1, <2>2 DEF CRInv
<1>5. StsInv' /\ PodInv' /\ InputInv' /\ CtlInv'
  BY <1>1 DEF StsInv, PodInv, InputInv, CtlInv
<1>6. GrowInv'
  <2>1. new.replicas \in Nat
    BY OrdinalFacts DEF Swifts
  <2>. QED  BY <1>1, <1>2, <2>1, ReplicaFacts DEF GrowInv
<1>. QED  BY <1>3, <1>4, <1>5, <1>6

(* Every single edit gives a Swift CR. *)
LEMMA EditOneKeeps ==
  ASSUME StorageInv, EditOne
  PROVE  StorageInv'
<1>1. ASSUME NEW n \in Ordinals PROVE [swift EXCEPT !.replicas = n] \in Swifts
  BY DEF StorageInv, SwiftInv, Swifts
<1>2. ASSUME NEW v \in Versions PROVE [swift EXCEPT !.ver = v] \in Swifts
  BY DEF StorageInv, SwiftInv, Swifts
<1>3. ASSUME NEW k \in Places, NEW t \in Refs PROVE [swift EXCEPT !.top[k] = t] \in Swifts
  <2> DEFINE tops == [swift.top EXCEPT ![k] = t]
  <2>1. tops \in [Places -> Refs]
    BY DEF StorageInv, SwiftInv, Swifts
  <2>2. [swift EXCEPT !.top[k] = t] = [swift EXCEPT !.top = tops]
    OBVIOUS
  <2> HIDE DEF tops
  <2>. QED  BY <2>1, <2>2 DEF StorageInv, SwiftInv, Swifts
<1>. QED  BY <1>1, <1>2, <1>3, EditKeeps DEF EditOne

(* The Swift controller writes the spec, or the instance is deleted. *)
LEMMA OwnerKeeps ==
  ASSUME StorageInv, StorageCreateOrUpdate \/ DeleteStorage
  PROVE  StorageInv'
<1> USE DEF StorageInv
<1>1. UNCHANGED <<swift, seen, sts, stsSeen, pods, last, dns, inputs, owned, held, ctl, nfaults>>
  BY DEF StorageCreateOrUpdate, DeleteStorage, cluster
<1>2. SwiftInv' /\ StsInv' /\ PodInv' /\ InputInv' /\ CtlInv'
  BY <1>1 DEF SwiftInv, StsInv, PodInv, InputInv, CtlInv
<1>3. cr.gen \in 1..MaxGen /\ changes \in 0..MaxChanges /\ MaxChanges \in Nat
  BY StorageAssumption DEF CRInv, CRGood, CRType
<1>4. CASE StorageCreateOrUpdate
  <2> DEFINE g == cr.gen + 1
             w == StorageSpec(swift)
  <2>1. cr.spec # w /\ cr' = [cr EXCEPT !.spec = w, !.gen = g] /\ changes' = changes
    BY <1>4 DEF StorageCreateOrUpdate
  <2>2. g \in 1..MaxGen /\ g <= changes + 1
    BY <1>3, <2>1 DEF CRInv, MaxGen
  <2>3. w \in Fields /\ w.top \notin Foreign /\ w.replicas = swift.replicas
    BY StorageSpecGood
  <2>4. StorageSpec(swift)' = w
    BY <1>1 DEF StorageSpec
  <2> HIDE DEF g, w
  <2>5. cr' \in CRGood /\ cr'.gen = g /\ cr'.spec = w
    BY <2>1, <2>2, <2>3 DEF CRInv, CRGood, CRType
  <2>6. CRInv'
    BY <1>1, <2>1, <2>2, <2>4, <2>5 DEF CRInv
  <2>7. GrowInv'
    BY <1>1, <2>3, <2>5, ReplicaFacts DEF GrowInv
  <2>. QED  BY <1>2, <2>6, <2>7
<1>5. CASE DeleteStorage
  <2>1. changes < MaxChanges /\ changes' = changes + 1
    BY <1>5 DEF DeleteStorage, Change
  <2>2. cr' \in CRGood /\ cr'.gen = cr.gen /\ cr'.spec = cr.spec
    BY <1>5 DEF DeleteStorage, CRInv, CRGood, CRType
  <2>3. StorageSpec(swift)' = StorageSpec(swift)
    BY <1>1 DEF StorageSpec
  <2>4. changes' \in 0..MaxChanges /\ cr.gen <= changes' + 1
        /\ (cr.spec # StorageSpec(swift) => cr.gen <= changes')
    BY <1>3, <2>1 DEF CRInv
  <2>5. CRInv'
    BY <1>1, <2>2, <2>3, <2>4 DEF CRInv
  <2>6. GrowInv'
    BY <1>1, <2>2 DEF GrowInv
  <2>. QED  BY <1>2, <2>5, <2>6
<1>. QED  BY <1>4, <1>5

(* A step that counts at most one change and touches no instance.          *)
LEMMA CountKeeps ==
  ASSUME StorageInv, UNCHANGED <<swift, cr, seen, nfaults>>,
         UNCHANGED changes \/ Change
  PROVE  SwiftInv' /\ CRInv'
<1>1. cr.gen \in Int /\ changes \in 0..MaxChanges /\ MaxChanges \in Nat
  BY StorageAssumption DEF StorageInv, CRInv, CRGood, CRType
<1>2. changes' \in 0..MaxChanges /\ changes <= changes'
  BY <1>1 DEF Change
<1>3. cr.gen <= changes' + 1 /\ (cr.spec # StorageSpec(swift) => cr.gen <= changes')
  BY <1>1, <1>2 DEF StorageInv, CRInv
<1>4. StorageSpec(swift)' = StorageSpec(swift)
  BY DEF StorageSpec
<1>. QED  BY <1>2, <1>3, <1>4 DEF StorageInv, SwiftInv, CRInv

(* Secrets, Memcached and owned objects. *)
LEMMA InputsKeep ==
  ASSUME StorageInv,
         \/ Providers \/ DeleteOwned
         \/ \E k \in {"ca", "mc"}, v \in Versions : Replace(k, v)
  PROVE  StorageInv'
<1> USE DEF StorageInv
<1>1. /\ UNCHANGED <<swift, cr, seen, sts, stsSeen, pods, last, dns, held, ctl, nfaults>>
      /\ UNCHANGED changes \/ Change
  BY DEF Providers, Provide, DeleteOwned, Replace, objects, cluster
<1>2. InputInv'
  <2>1. CASE Providers \/ \E k \in {"ca", "mc"}, v \in Versions : Replace(k, v)
    <3>1. PICK k \in {"ca", "mc"}, v \in Versions :
             inputs' = [inputs EXCEPT ![k] = v] /\ UNCHANGED <<owned, held>>
      BY <2>1, OldVersion DEF Providers, Provide, Replace, objects
    <3>. QED  BY <3>1 DEF InputInv
  <2>2. CASE DeleteOwned
    <3>1. /\ UNCHANGED <<inputs, held>>
          /\ \/ owned' = [owned EXCEPT !.config = None]
             \/ owned' = [owned EXCEPT !.service = FALSE]
             \/ owned' = [owned EXCEPT !.policy = FALSE]
      BY <2>2 DEF DeleteOwned
    <3>. QED  BY <3>1 DEF InputInv
  <2>. QED  BY <2>1, <2>2
<1>3. SwiftInv' /\ CRInv'
  BY <1>1, CountKeeps
<1>4. StsInv' /\ PodInv' /\ CtlInv' /\ GrowInv'
  BY <1>1 DEF StsInv, PodInv, CtlInv, GrowInv
<1>. QED  BY <1>2, <1>3, <1>4

----------------------------------------------------------------------------
(* The StatefulSet controller writes its status and creates pods.          *)
LEMMA StsSyncKeeps ==
  ASSUME StorageInv, StsSync
  PROVE  StorageInv' /\ sts'.replicas = sts.replicas
<1> USE DEF StorageInv
<1>1. UNCHANGED <<swift, cr, seen, stsSeen, last, dns, inputs, owned, held, ctl, changes, nfaults>>
  BY DEF StsSync
<1>2. sts \in StsSet /\ sts.obs <= sts.gen
  <2>1. NoSts.exists = FALSE
    BY DEF NoSts
  <2>. QED  BY <2>1 DEF StsSync, StsInv, StsGood
<1> DEFINE up == Cardinality(Up)
           missing == {o \in 1..sts.replicas : pods[o] = None}
<1>3. /\ sts' = [sts EXCEPT !.obs = sts.gen, !.ready = up]
      /\ pods' = [o \in Ordinals |-> IF o \in missing
                     THEN [tmpl |-> sts.tmpl, ip |-> None, up |-> FALSE] ELSE pods[o]]
  BY DEF StsSync
<1>4. up \in Counts
  BY UpCount
<1> HIDE DEF up, missing
<1>5. /\ sts' \in StsSet /\ sts'.obs <= sts'.gen
      /\ sts'.replicas = sts.replicas
  <2>1. sts.gen \in Nat /\ sts.gen <= sts.gen
    BY <1>2 DEF StsSet
  <2>. QED  BY <1>2, <1>3, <1>4, <2>1 DEF StsSet
<1>6. [tmpl |-> sts.tmpl, ip |-> None, up |-> FALSE] \in Pod
  BY <1>2 DEF StsSet, TmplGood, Pod
<1>7. PodInv'
  <2>1. pods' \in [Ordinals -> {None} \cup Pod]
    BY <1>3, <1>6 DEF PodInv
  <2>2. ASSUME NEW o \in Ordinals, pods'[o] # None
        PROVE  /\ pods'[o].ip # None => pods'[o].ip = last'[o]
               /\ pods'[o].up => pods'[o].ip # None
    BY <1>1, <1>3, <2>2 DEF PodInv
  <2>. QED  BY <1>1, <2>1, <2>2 DEF PodInv
<1>8. StsInv'
  BY <1>1, <1>5 DEF StsInv, StsGood
<1>9. SwiftInv' /\ CRInv'
  BY <1>1, CountKeeps
<1>10. InputInv' /\ CtlInv' /\ GrowInv'
  BY <1>1, <1>5 DEF InputInv, CtlInv, GrowInv
<1>. QED  BY <1>5, <1>7, <1>8, <1>9, <1>10

(* Pods start, run, are replaced and lost. *)
LEMMA PodsKeep ==
  ASSUME StorageInv, NEW o \in Ordinals, Kubelet(o) \/ PodLost(o)
  PROVE  StorageInv' /\ sts' = sts
<1> USE DEF StorageInv
<1>1. /\ UNCHANGED <<swift, cr, seen, sts, stsSeen, dns, inputs, owned, held, ctl, nfaults>>
      /\ UNCHANGED changes \/ Change
  BY DEF Kubelet, PodStart, PodUp, StsRoll, PodLost
<1>2. ASSUME PodStart(o) PROVE PodInv'
  <2>1. PICK ip \in IPs : pods' = [pods EXCEPT ![o].ip = ip] /\ last' = [last EXCEPT ![o] = ip]
    BY <1>2 DEF PodStart
  <2>2. pods[o] \in Pod
    BY <1>2 DEF PodStart, PodInv
  <2> DEFINE new == [pods[o] EXCEPT !.ip = ip]
  <2>3. new \in Pod /\ new.ip = ip /\ pods' = [pods EXCEPT ![o] = new]
    BY <2>1, <2>2 DEF Pod
  <2>4. ip # None
    BY StorageAssumption
  <2> HIDE DEF new
  <2>. QED  BY <1>1, <2>1, <2>3, <2>4 DEF PodInv
<1>3. ASSUME PodUp(o) PROVE PodInv'
  <2>1. pods[o] \in Pod /\ pods[o].ip # None /\ pods' = [pods EXCEPT ![o].up = TRUE]
        /\ last' = last
    BY <1>3 DEF PodUp, Addressed, PodInv
  <2> DEFINE new == [pods[o] EXCEPT !.up = TRUE]
  <2>2. new \in Pod /\ new.ip = pods[o].ip /\ pods' = [pods EXCEPT ![o] = new]
    BY <2>1 DEF Pod
  <2>3. pods[o] # None
    BY <1>3 DEF PodUp, Addressed
  <2> HIDE DEF new
  <2>. QED  BY <1>1, <2>1, <2>2, <2>3 DEF PodInv
<1>4. ASSUME StsRoll(o) \/ PodLost(o) PROVE PodInv'
  <2>1. pods' = [pods EXCEPT ![o] = None] /\ last' = last
    BY <1>4 DEF StsRoll, PodLost
  <2>. QED  BY <1>1, <2>1 DEF PodInv
<1>5. PodInv'
  BY <1>2, <1>3, <1>4 DEF Kubelet
<1>6. SwiftInv' /\ CRInv'
  BY <1>1, CountKeeps
<1>7. StsInv' /\ InputInv' /\ CtlInv' /\ GrowInv'
  BY <1>1 DEF StsInv, InputInv, CtlInv, GrowInv
<1>. QED  BY <1>1, <1>5, <1>6, <1>7

(* Garbage collection removes everything at once. *)
LEMMA CollectKeeps ==
  ASSUME StorageInv, CollectGarbage
  PROVE  StorageInv' /\ ~sts'.exists
<1> USE DEF StorageInv
<1>1. /\ UNCHANGED <<swift, cr, seen, stsSeen, last, inputs, held, ctl, changes, nfaults>>
      /\ sts' = NoSts /\ owned' = NoOwned
      /\ pods' = [o \in Ordinals |-> None] /\ dns' = [o \in Ordinals |-> None]
  BY DEF CollectGarbage
<1>2. StsInv' /\ ~sts'.exists /\ sts'.replicas = 0
  <2>1. NoSts.exists = FALSE /\ NoSts.replicas = 0
    BY DEF NoSts
  <2>. QED  BY <1>1, <2>1 DEF StsInv, StsGood
<1>3. PodInv'
  BY <1>1 DEF PodInv
<1>4. InputInv'
  BY <1>1 DEF InputInv, NoOwned
<1>5. SwiftInv' /\ CRInv'
  BY <1>1, CountKeeps
<1>6. CtlInv'
  BY <1>1 DEF CtlInv
<1>7. GrowInv'
  <2>1. ctl'.pc = ctl.pc /\ ctl'.mem = ctl.mem
    BY <1>1
  <2>. QED  BY <1>1, <1>2, <2>1, ReplicaFacts DEF GrowInv
<1>. QED  BY <1>2, <1>3, <1>4, <1>5, <1>6, <1>7

(* Informers, failing patches and restarts of the operator. *)
LEMMA CachesKeep ==
  ASSUME StorageInv, SyncCR \/ SyncSts \/ PatchFails \/ Crash
  PROVE  StorageInv' /\ sts' = sts
<1> USE DEF StorageInv
<1>1. /\ UNCHANGED <<swift, cr, sts, pods, last, dns, inputs, owned, held, changes>>
      /\ seen' \in {seen, cr} /\ stsSeen' \in {stsSeen, sts}
      /\ ctl' \in {ctl, Idle}
      /\ UNCHANGED nfaults \/ Fault
  BY DEF SyncCR, SyncSts, PatchFails, Crash, objects, cluster
<1>2. SwiftInv' /\ StsInv' /\ PodInv' /\ InputInv'
  BY <1>1 DEF SwiftInv, StsInv, PodInv, InputInv
<1>3. CRInv'
  <2>1. nfaults' \in 0..MaxFaults
    BY <1>1, StorageAssumption DEF Fault, CRInv
  <2>2. StorageSpec(swift)' = StorageSpec(swift)
    BY <1>1 DEF StorageSpec
  <2>. QED  BY <1>1, <2>1, <2>2 DEF CRInv
<1>4. Idle.pc = "idle" /\ Idle \in CtlShape
  BY DEF Idle, CtlShape, Points
<1>5. CtlInv'
  BY <1>1, <1>4 DEF CtlInv, Hashed
<1>6. GrowInv'
  <2>1. /\ sts'.replicas <= seen'.spec.replicas
        /\ seen'.spec.replicas <= cr'.spec.replicas
        /\ seen.spec.replicas <= seen'.spec.replicas
        /\ cr'.spec.replicas <= swift'.replicas
    BY <1>1, ReplicaFacts DEF GrowInv
  <2>2. CASE ctl' = Idle
    BY <1>4, <2>1, <2>2 DEF GrowInv
  <2>3. CASE ctl' = ctl
    <3>1. seen'.spec.replicas \in Nat
      BY <1>1, ReplicaFacts
    <3>. QED  BY <1>1, <2>1, <2>3, <3>1, ReplicaFacts DEF GrowInv
  <2>. QED  BY <1>1, <2>2, <2>3
<1>. QED  BY <1>1, <1>2, <1>3, <1>5, <1>6

----------------------------------------------------------------------------
(* A reconcile starts from the cached instance, or finds none. *)
LEMMA BeginKeeps ==
  ASSUME StorageInv,
         ReconcileGone \/ ReconcileNew \/ ReconcileDelete \/ ReconcileNormal
  PROVE  StorageInv' /\ sts' = sts
<1> USE DEF StorageInv
<1>1. UNCHANGED <<swift, cr, seen, sts, stsSeen, pods, last, dns, inputs, owned, held, changes,
                  nfaults>>
  BY DEF ReconcileGone, ReconcileNew, ReconcileDelete, ReconcileNormal, Begin, objects, cluster
<1>2. SwiftInv' /\ CRInv'
  BY <1>1, CountKeeps
<1>3. StsInv' /\ PodInv' /\ InputInv'
  BY <1>1 DEF StsInv, PodInv, InputInv
<1>4. CASE ReconcileGone
  BY <1>1, <1>2, <1>3, <1>4 DEF ReconcileGone, CtlInv, GrowInv
<1>5. ASSUME NEW pc \in {"patch", "config"}, NEW fin \in BOOLEAN, Begin(pc, fin)
      PROVE  CtlInv' /\ GrowInv'
  <2> DEFINE m == [seen EXCEPT !.ready = FALSE, !.obs = seen.gen, !.fin = fin]
  <2>1. ctl' = [Idle EXCEPT !.pc = pc, !.base = seen, !.mem = m]
    BY <1>5 DEF Begin
  <2>2. m \in CRGood /\ m.spec = seen.spec
    <3>1. seen \in CRGood /\ seen.gen \in 1..MaxGen
      BY DEF CRInv, CRGood, CRType
    <3>2. seen.gen \in 0..MaxGen
      BY <3>1, StorageAssumption DEF MaxGen
    <3>. QED  BY <3>1, <3>2 DEF CRGood, CRType
  <2> HIDE DEF m
  <2>3. /\ ctl' \in CtlShape /\ ctl'.pc = pc /\ ctl'.mem = m /\ ctl'.base = seen
    <3>1. ctl' = [pc |-> pc, base |-> seen, mem |-> m, hash |-> None, count |-> 0,
                  ips |-> None, again |-> FALSE]
      BY <2>1 DEF Idle
    <3>2. pc \in Points /\ seen \in CRGood
      BY DEF Points, CRInv
    <3>. QED  BY <2>2, <3>1, <3>2 DEF CtlShape
  <2>4. CtlInv'
    BY <2>2, <2>3 DEF CtlInv, Hashed, CRInv
  <2>. QED  BY <1>1, <2>2, <2>3, <2>4, ReplicaFacts DEF GrowInv
<1>. QED
  BY <1>1, <1>2, <1>3, <1>4, <1>5 DEF ReconcileNew, ReconcileDelete, ReconcileNormal

(* Going on, or returning with an error. *)
LEMMA GotoFacts ==
  ASSUME StorageInv, ctl.pc # "idle", NEW p \in Points \ {"idle"},
         Goto(p) \/ (p = "patch" /\ Requeue)
  PROVE  /\ ctl' \in CtlShape /\ ctl'.pc = p /\ ctl'.base = ctl.base /\ ctl'.mem = ctl.mem
         /\ ctl'.hash = ctl.hash /\ ctl'.ips = ctl.ips
BY DEF StorageInv, CtlInv, CtlShape, Goto, Requeue

(* A step of the reconcile that goes on with the same spec and leaves      *)
(* instances and StatefulSet alone.                                        *)
LEMMA StepKeeps ==
  ASSUME StorageInv, ctl.pc # "idle",
         UNCHANGED <<swift, cr, seen, sts, stsSeen, pods, last, changes, nfaults>>,
         PodInv', InputInv', CtlInv', ctl'.mem.spec = ctl.mem.spec
  PROVE  StorageInv' /\ sts' = sts
<1>1. SwiftInv' /\ CRInv'
  BY CountKeeps
<1>2. StsInv' /\ GrowInv'
  BY DEF StorageInv, StsInv, GrowInv
<1>. QED  BY <1>1, <1>2 DEF StorageInv

(* ConfigMap, Service, network policy and input hash. *)
LEMMA ConfigKeeps ==
  ASSUME StorageInv, EnsureConfigMaps \/ CreateService \/ CreatePolicy
  PROVE  StorageInv' /\ sts' = sts
<1> USE DEF StorageInv
<1>1. /\ UNCHANGED <<swift, cr, seen, sts, stsSeen, pods, last, dns, inputs, held, changes, nfaults>>
      /\ PodInv'
      /\ ctl.pc \in {"config", "service", "policy"}
  BY DEF EnsureConfigMaps, CreateService, CreatePolicy, cluster, Rest, PodInv
<1>2. ctl.mem \in CRGood /\ ctl.base \in CRGood /\ ctl.mem.spec.ver \in Versions
  BY <1>1 DEF CtlInv, CRGood, CRType, Fields
<1>3. CASE EnsureConfigMaps
  <2>1. CASE (Goto("patch") \/ Requeue) /\ UNCHANGED owned
    <3>1. ctl' \in CtlShape /\ ctl'.pc = "patch" /\ ctl'.base = ctl.base /\ ctl'.mem = ctl.mem
      BY <1>1, <2>1, GotoFacts DEF Points
    <3>2. CtlInv' /\ InputInv'
      BY <1>1, <1>2, <2>1, <3>1 DEF CtlInv, Hashed, InputInv
    <3>. QED  BY <1>1, <3>1, <3>2, StepKeeps
  <2>2. CASE /\ inputs.ca # None /\ inputs.mc # None
             /\ owned' = [owned EXCEPT !.config = ConfigMapTemplates(ctl)]
             /\ ctl' = [ctl EXCEPT !.pc = "service", !.hash = InputHash(ctl)]
    <3>1. inputs.ca \in Versions /\ inputs.mc \in Versions
      BY <2>2 DEF InputInv
    <3>2. InputHash(ctl) \in Hash /\ ConfigMapTemplates(ctl) \in [mc : Versions, ver : Versions]
      BY <1>2, <3>1 DEF InputHash, ConfigMapTemplates, Hash
    <3>3. InputInv'
      BY <1>1, <2>2, <3>2 DEF InputInv
    <3>4. /\ ctl' \in CtlShape /\ ctl'.pc = "service" /\ ctl'.base = ctl.base /\ ctl'.mem = ctl.mem
          /\ ctl'.hash \in Hash
      BY <2>2, <3>2 DEF CtlInv, CtlShape, Points
    <3>5. CtlInv'
      BY <1>2, <3>4 DEF CtlInv
    <3>. QED  BY <1>1, <3>3, <3>4, <3>5, StepKeeps
  <2>. QED  BY <1>3, <2>1, <2>2 DEF EnsureConfigMaps
<1>4. CASE CreatePolicy
  <2> DEFINE p == IF ctl.mem.hash = ctl.hash THEN "release" ELSE "patch"
             m == [ctl.mem EXCEPT !.hash = ctl.hash]
  <2>1. /\ ctl.pc = "policy" /\ owned' = NetworkPolicy(owned)
        /\ ctl' = [ctl EXCEPT !.pc = p, !.mem = m]
    BY <1>4 DEF CreatePolicy
  <2>2. ctl.hash \in Hash /\ p \in {"release", "patch"}
    BY <2>1 DEF CtlInv, Hashed
  <2>3. m \in CRGood /\ m.spec = ctl.mem.spec
    BY <1>2, <2>2 DEF CRGood, CRType
  <2> HIDE DEF p, m
  <2>4. /\ ctl' \in CtlShape /\ ctl'.pc = p /\ ctl'.base = ctl.base /\ ctl'.mem = m
        /\ ctl'.hash = ctl.hash
    BY <2>1, <2>2, <2>3 DEF CtlInv, CtlShape, Points
  <2>5. CtlInv'
    BY <1>2, <2>2, <2>3, <2>4 DEF CtlInv
  <2>6. InputInv'
    BY <1>1, <2>1 DEF InputInv, NetworkPolicy
  <2>. QED  BY <1>1, <2>3, <2>4, <2>5, <2>6, StepKeeps
<1>5. CASE CreateService
  <2>1. /\ ctl' \in CtlShape /\ ctl'.pc = "policy" /\ ctl'.base = ctl.base /\ ctl'.mem = ctl.mem
        /\ ctl'.hash = ctl.hash /\ ctl.hash \in Hash
    BY <1>5, GotoFacts DEF CreateService, Points, CtlInv, Hashed
  <2>2. CtlInv'
    BY <1>2, <2>1 DEF CtlInv
  <2>3. InputInv'
    BY <1>1, <1>5 DEF CreateService, InputInv, Service
  <2>. QED  BY <1>1, <2>1, <2>2, <2>3, StepKeeps
<1>. QED  BY <1>3, <1>4, <1>5

(* The finalizer moves from one Topology to another. *)
LEMMA TopologyKeeps ==
  ASSUME StorageInv, ReleaseTopology \/ HoldTopology
  PROVE  StorageInv' /\ sts' = sts
<1> USE DEF StorageInv
<1>1. /\ UNCHANGED <<swift, cr, seen, sts, stsSeen, pods, last, dns, inputs, owned, changes, nfaults>>
      /\ PodInv'
      /\ ctl.pc \in {"release", "hold"}
  BY DEF ReleaseTopology, HoldTopology, cluster, Rest, PodInv
<1>2. /\ ctl.mem \in CRGood /\ ctl.base \in CRGood /\ ctl.hash \in Hash
      /\ ctl.mem.spec.top \in {None} \cup Local
  BY <1>1 DEF CtlInv, Hashed, CRGood, CRType, Fields, Refs
<1>3. CASE ReleaseTopology
  <2>1. /\ ctl' \in CtlShape /\ ctl'.pc = "hold" /\ ctl'.base = ctl.base /\ ctl'.mem = ctl.mem
        /\ ctl'.hash = ctl.hash
    BY <1>1, <1>3, GotoFacts DEF ReleaseTopology, Points
  <2>2. CtlInv'
    BY <1>2, <2>1 DEF CtlInv
  <2>3. InputInv'
    BY <1>1, <1>3 DEF InputInv, ReleaseTopology
  <2>. QED  BY <1>1, <2>1, <2>2, <2>3, StepKeeps
<1>4. CASE HoldTopology
  <2> DEFINE m == [ctl.mem EXCEPT !.top = ctl.mem.spec.top]
  <2>1. /\ held' = held \cup ({ctl.mem.spec.top} \ {None})
        /\ ctl' = [ctl EXCEPT !.pc = "sset", !.mem = m]
    BY <1>4 DEF HoldTopology
  <2>2. m \in CRGood /\ m.spec = ctl.mem.spec
    BY <1>2 DEF CRGood, CRType, Refs
  <2> HIDE DEF m
  <2>3. /\ ctl' \in CtlShape /\ ctl'.pc = "sset" /\ ctl'.base = ctl.base /\ ctl'.mem = m
        /\ ctl'.hash = ctl.hash
    BY <2>1, <2>2 DEF CtlInv, CtlShape, Points
  <2>4. CtlInv'
    BY <1>2, <2>2, <2>3 DEF CtlInv
  <2>5. InputInv'
    BY <1>1, <1>2, <2>1 DEF InputInv
  <2>. QED  BY <1>1, <2>2, <2>3, <2>4, <2>5, StepKeeps
<1>. QED  BY <1>3, <1>4

(* The StatefulSet that the merge patch leaves has no fewer replicas. *)
LEMMA CreateOrPatchFacts ==
  ASSUME StorageInv, CreateOrPatch
  PROVE  /\ StsInv'
         /\ sts'.replicas <= ctl.mem.spec.replicas
         /\ sts.exists => sts'.replicas >= sts.replicas
         /\ \/ Requeue
            \/ \E n \in Nat : ctl' = [ctl EXCEPT !.pc = "labels", !.count = n]
<1> USE DEF StorageInv
<1> DEFINE want == StatefulSet(stsSeen, ctl)
           t == [hash |-> ctl.hash, top |-> ctl.mem.spec.top]
           r == ctl.mem.spec.replicas
           new == [sts EXCEPT
                      !.exists   = TRUE,
                      !.tmpl     = IF want.tmpl # stsSeen.tmpl THEN want.tmpl ELSE @,
                      !.replicas = IF want.replicas # stsSeen.replicas
                                   THEN want.replicas ELSE @,
                      !.gen      = @ + 1]
<1>1. ctl.pc = "sset" /\ stsSeen' = stsSeen
  BY DEF CreateOrPatch, Rest
<1>2. ctl.mem \in CRGood /\ ctl.hash \in Hash /\ r \in Ordinals /\ r \in Nat
  BY <1>1, ReplicaFacts DEF CtlInv, Hashed
<1>3. t \in TmplGood
  BY <1>2 DEF TmplGood, Template, CRGood, CRType, Fields
<1>4. want.tmpl = t /\ want.replicas = r
  <2>1. DOMAIN stsSeen = {"exists", "gen", "obs", "replicas", "tmpl", "ready"}
    BY DEF StsInv, StsGood, StsSet, NoSts
  <2>2. want = [stsSeen EXCEPT !.exists = TRUE, !.replicas = r, !.tmpl = t]
    BY DEF StatefulSet
  <2> HIDE DEF want, t, r
  <2>. QED  BY <2>1, <2>2
<1>5. ASSUME stsSeen.exists = sts.exists
      PROVE  /\ new \in StsSet /\ new.obs <= new.gen
             /\ new.replicas \in {sts.replicas, r}
             /\ sts.exists \/ new.replicas = r
  <2> HIDE DEF t, r, want
  <2>1. CASE sts = NoSts
    <3>1. stsSeen = NoSts
      BY <1>5, <2>1 DEF StsInv, StsGood, StsSet, NoSts
    <3>2. new = [exists |-> TRUE, gen |-> 1, obs |-> 0, replicas |-> r, tmpl |-> t, ready |-> 0]
      <4>1. stsSeen.replicas = 0 /\ stsSeen.tmpl = None /\ sts.gen + 1 = 1
        BY <2>1, <3>1 DEF NoSts
      <4>2. r # 0
        BY <1>2, StorageAssumption
      <4>3. /\ (IF want.tmpl # stsSeen.tmpl THEN want.tmpl ELSE sts.tmpl) = t
            /\ (IF want.replicas # stsSeen.replicas THEN want.replicas ELSE sts.replicas) = r
        BY <1>4, <2>1, <4>1, <4>2 DEF NoSts
      <4>4. new = [sts EXCEPT !.exists = TRUE, !.tmpl = t, !.replicas = r, !.gen = 1]
        BY <4>1, <4>3
      <4> HIDE DEF new
      <4>. QED  BY <2>1, <4>4 DEF NoSts
    <3>3. 0 \in Counts
      BY OrdinalFacts DEF Counts
    <3> HIDE DEF new
    <3>. QED  BY <1>2, <1>3, <3>2, <3>3 DEF StsSet
  <2>2. CASE sts \in StsSet /\ sts.obs <= sts.gen
    <3> DEFINE g == sts.gen + 1
               tt == IF want.tmpl # stsSeen.tmpl THEN want.tmpl ELSE sts.tmpl
               rr == IF want.replicas # stsSeen.replicas THEN want.replicas ELSE sts.replicas
    <3>1. g \in Nat /\ sts.obs <= g
      BY <2>2 DEF StsSet
    <3>2. tt \in TmplGood /\ rr \in Ordinals /\ rr \in {sts.replicas, r}
      BY <2>2, <1>2, <1>3, <1>4 DEF StsSet
    <3>3. new = [sts EXCEPT !.exists = TRUE, !.tmpl = tt, !.replicas = rr, !.gen = g]
      OBVIOUS
    <3>4. sts.exists
      BY <2>2 DEF StsSet
    <3> HIDE DEF g, tt, rr, new
    <3>5. /\ new \in StsSet /\ new.gen = g /\ new.obs = sts.obs /\ new.replicas = rr
      BY <2>2, <3>1, <3>2, <3>3 DEF StsSet
    <3>. QED  BY <3>1, <3>2, <3>4, <3>5
  <2>. QED  BY <2>1, <2>2 DEF StsInv, StsGood
<1>6. sts.replicas \in Nat /\ sts.replicas <= r
  BY <1>1, ReplicaFacts DEF GrowInv
<1>7. /\ \/ UNCHANGED sts
         \/ stsSeen.exists = sts.exists /\ sts' = new
      /\ \/ Requeue
         \/ ctl' = [ctl EXCEPT !.pc = "labels", !.count = 0]
         \/ \E s \in {stsSeen, sts, sts'} :
               ctl' = [ctl EXCEPT !.pc = "labels", !.count = s.ready]
  <2> HIDE DEF t, r
  <2>. QED  BY DEF CreateOrPatch
<1> HIDE DEF want, t, new
<1>8. sts'.replicas <= r /\ (sts.exists => sts'.replicas >= sts.replicas)
  BY <1>2, <1>5, <1>6, <1>7
<1>9. StsInv'
  BY <1>1, <1>5, <1>7 DEF StsInv, StsGood
<1>10. \A s \in StsGood : s.ready \in Nat
  <2>1. NoSts.ready = 0
    BY DEF NoSts
  <2>2. \A s \in StsSet : s.ready \in Nat
    BY OrdinalFacts DEF StsSet, Counts
  <2>. QED  BY <2>1, <2>2 DEF StsGood
<1>. QED  BY <1>7, <1>8, <1>9, <1>10 DEF StsInv

(* The StatefulSet is written. *)
LEMMA CreateOrPatchKeeps ==
  ASSUME StorageInv, CreateOrPatch
  PROVE  StorageInv'
<1> USE DEF StorageInv
<1>1. /\ UNCHANGED <<swift, cr, seen, pods, last, dns, inputs, owned, held, changes, nfaults>>
      /\ ctl.pc = "sset"
  BY DEF CreateOrPatch, Rest
<1>2. ctl.mem \in CRGood /\ ctl.base \in CRGood /\ ctl.hash \in Hash
  BY <1>1 DEF CtlInv, Hashed
<1>3. PICK p \in {"patch", "labels"} :
        /\ ctl' \in CtlShape /\ ctl'.pc = p /\ ctl'.base = ctl.base /\ ctl'.mem = ctl.mem
        /\ ctl'.hash = ctl.hash
  <2>1. CASE Requeue
    BY <1>1, <2>1, GotoFacts DEF Points
  <2>2. ASSUME NEW n \in Nat, ctl' = [ctl EXCEPT !.pc = "labels", !.count = n]
        PROVE  /\ ctl' \in CtlShape /\ ctl'.pc = "labels" /\ ctl'.base = ctl.base
               /\ ctl'.mem = ctl.mem /\ ctl'.hash = ctl.hash
    BY <2>2 DEF CtlInv, CtlShape, Points
  <2>. QED  BY <2>1, <2>2, CreateOrPatchFacts
<1>4. CtlInv'
  BY <1>2, <1>3 DEF CtlInv
<1>5. SwiftInv' /\ CRInv'
  BY <1>1, CountKeeps
<1>6. PodInv' /\ InputInv'
  BY <1>1 DEF PodInv, InputInv
<1>7. StsInv' /\ sts'.replicas <= ctl.mem.spec.replicas
  BY CreateOrPatchFacts
<1>8. GrowInv'
  <2>1. sts'.replicas \in Nat
    <3>1. NoSts.replicas = 0
      BY DEF NoSts
    <3>2. \A s \in StsSet : s.replicas \in Nat
      BY OrdinalFacts DEF StsSet
    <3>. QED  BY <1>7, <3>1, <3>2 DEF StsInv, StsGood
  <2>. QED  BY <1>1, <1>3, <1>7, <2>1, ReplicaFacts DEF GrowInv
<1>. QED  BY <1>4, <1>5, <1>6, <1>7, <1>8

(* Claims are labelled, pods are counted, listed and written to DNS. *)
LEMMA PublishKeeps ==
  ASSUME StorageInv, ReconcilePVCLabels \/ VerifyNetworks \/ ListPods \/ WriteDNS
  PROVE  StorageInv' /\ sts' = sts
<1> USE DEF StorageInv
<1>1. /\ UNCHANGED <<swift, cr, seen, sts, stsSeen, pods, last, inputs, owned, held, changes, nfaults>>
      /\ InputInv'
      /\ ctl.pc \in {"labels", "verify", "list", "dns"}
  BY DEF ReconcilePVCLabels, VerifyNetworks, ListPods, WriteDNS, objects, cluster, Rest, InputInv
<1>2. ctl.mem \in CRGood /\ ctl.base \in CRGood /\ ctl.hash \in Hash
  BY <1>1 DEF CtlInv, Hashed
<1>3. ASSUME NEW p \in {"verify", "list", "patch"}, Goto(p) \/ (p = "patch" /\ Requeue), UNCHANGED dns
      PROVE  StorageInv' /\ sts' = sts
  <2>1. /\ ctl' \in CtlShape /\ ctl'.pc = p /\ ctl'.base = ctl.base /\ ctl'.mem = ctl.mem
        /\ ctl'.hash = ctl.hash
    BY <1>1, <1>3, GotoFacts DEF Points
  <2>2. CtlInv'
    BY <1>2, <2>1 DEF CtlInv
  <2>3. PodInv'
    BY <1>1, <1>3 DEF PodInv
  <2>. QED  BY <1>1, <2>1, <2>2, <2>3, StepKeeps
<1>4. CASE VerifyNetworks
  BY <1>3, <1>4 DEF VerifyNetworks, objects, cluster
<1>5. CASE ListPods
  <2>1. UNCHANGED dns
    BY <1>5 DEF ListPods, objects, cluster
  <2>2. CASE Requeue
    BY <1>3, <2>1, <2>2
  <2>3. CASE ctl' = [ctl EXCEPT !.pc = "dns", !.ips = [o \in Addressed |-> pods[o].ip]]
    <3> DEFINE addr == [o \in Addressed |-> pods[o].ip]
    <3>1. addr \in [Addressed -> IPs] /\ Addressed \in SUBSET Ordinals
      BY DEF Addressed, PodInv, Pod
    <3>2. addr \in Addresses
      BY <3>1 DEF Addresses
    <3> HIDE DEF addr
    <3>3. /\ ctl' \in CtlShape /\ ctl'.pc = "dns" /\ ctl'.base = ctl.base /\ ctl'.mem = ctl.mem
          /\ ctl'.hash = ctl.hash /\ ctl'.ips = addr
      BY <2>3, <3>2 DEF CtlInv, CtlShape, Points, addr
    <3>4. CtlInv'
      BY <1>2, <3>2, <3>3 DEF CtlInv
    <3>5. PodInv'
      BY <1>1, <2>1 DEF PodInv
    <3>. QED  BY <1>1, <3>3, <3>4, <3>5, StepKeeps
  <2>. QED  BY <1>5, <2>2, <2>3 DEF ListPods
<1>6. CASE WriteDNS
  <2>1. ctl.pc = "dns" /\ ctl.ips \in Addresses
    BY <1>6 DEF WriteDNS, CtlInv
  <2>2. CASE ctl' = [ctl EXCEPT !.pc = "patch", !.mem.ready = TRUE] /\ UNCHANGED dns
    <3> DEFINE m == [ctl.mem EXCEPT !.ready = TRUE]
    <3>1. m \in CRGood /\ m.spec = ctl.mem.spec
      BY <1>2 DEF CRGood, CRType
    <3>2. ctl' = [ctl EXCEPT !.pc = "patch", !.mem = m]
      BY <2>2
    <3> HIDE DEF m
    <3>3. /\ ctl' \in CtlShape /\ ctl'.pc = "patch" /\ ctl'.base = ctl.base /\ ctl'.mem = m
      BY <3>1, <3>2 DEF CtlInv, CtlShape, Points
    <3>4. CtlInv' /\ PodInv'
      BY <1>1, <1>2, <2>2, <3>1, <3>3 DEF CtlInv, Hashed, PodInv
    <3>. QED  BY <1>1, <3>1, <3>3, <3>4, StepKeeps
  <2>3. ASSUME NEW o \in DOMAIN ctl.ips, dns' = [dns EXCEPT ![o] = ctl.ips[o]],
               ctl' = [ctl EXCEPT !.ips = [p \in DOMAIN ctl.ips \ {o} |-> ctl.ips[p]]]
        PROVE  StorageInv' /\ sts' = sts
    <3> DEFINE rest == [p \in DOMAIN ctl.ips \ {o} |-> ctl.ips[p]]
    <3>1. PICK S \in SUBSET Ordinals : ctl.ips \in [S -> IPs]
      BY <2>1 DEF Addresses
    <3>2. o \in Ordinals /\ ctl.ips[o] \in IPs
      BY <3>1
    <3>3. rest \in [S \ {o} -> IPs]
      BY <3>1
    <3>4. rest \in Addresses
      BY <3>3 DEF Addresses
    <3> HIDE DEF rest
    <3>5. /\ ctl' \in CtlShape /\ ctl'.pc = "dns" /\ ctl'.base = ctl.base /\ ctl'.mem = ctl.mem
          /\ ctl'.hash = ctl.hash /\ ctl'.ips = rest
      BY <2>1, <2>3, <3>4 DEF CtlInv, CtlShape, rest
    <3>6. CtlInv'
      BY <1>2, <3>4, <3>5 DEF CtlInv
    <3>7. PodInv'
      BY <1>1, <2>3, <3>2 DEF PodInv
    <3>. QED  BY <1>1, <3>5, <3>6, <3>7, StepKeeps
  <2>. QED  BY <1>6, <2>2, <2>3 DEF WriteDNS, DNSData
<1>7. CASE ReconcilePVCLabels
  <2>1. UNCHANGED dns /\ \E p \in {"verify", "patch"} : Goto(p)
    BY <1>7 DEF ReconcilePVCLabels
  <2>. QED  BY <1>3, <2>1
<1>. QED  BY <1>4, <1>5, <1>6, <1>7

(* A call that fails keeps the invariant and the StatefulSet. *)
LEMMA CallFailsKeeps ==
  ASSUME StorageInv, CallFails
  PROVE  StorageInv' /\ sts' = sts
<1> USE DEF StorageInv
<1>1. /\ UNCHANGED <<swift, cr, seen, sts, stsSeen, pods, last, dns, inputs, owned, held, changes>>
      /\ ctl.pc # "idle" /\ Requeue
  BY DEF CallFails, objects, cluster
<1>2. ctl' \in CtlShape /\ ctl'.pc = "patch" /\ ctl'.base = ctl.base /\ ctl'.mem = ctl.mem
  BY <1>1, GotoFacts DEF Points
<1>3. CtlInv'
  BY <1>1, <1>2 DEF CtlInv, Hashed
<1>4. CRInv'
  <2>1. nfaults' \in 0..MaxFaults
    BY StorageAssumption DEF CallFails, Fault, CRInv
  <2>2. StorageSpec(swift)' = StorageSpec(swift)
    BY <1>1 DEF StorageSpec
  <2>. QED  BY <1>1, <2>1, <2>2 DEF CRInv
<1>5. SwiftInv' /\ StsInv' /\ PodInv' /\ InputInv' /\ GrowInv'
  BY <1>1, <1>2 DEF SwiftInv, StsInv, PodInv, InputInv, GrowInv
<1>. QED  BY <1>1, <1>3, <1>4, <1>5

(* The deferred patch leaves spec and generation alone. *)
LEMMA PatchKeeps ==
  ASSUME StorageInv, PatchInstance
  PROVE  StorageInv' /\ sts' = sts
<1> USE DEF StorageInv
<1> DEFINE new == Merge(cr, ctl.base, ctl.mem)
<1>1. /\ UNCHANGED <<swift, seen, sts, stsSeen, pods, last, dns, inputs, owned, held, changes, nfaults>>
      /\ ctl.pc = "patch" /\ ctl' = Idle
      /\ cr' = IF cr.exists THEN [new EXCEPT !.exists = ~(new.del /\ ~new.fin)] ELSE cr
  BY DEF PatchInstance, cluster
<1>2. cr \in CRGood /\ ctl.base \in CRGood /\ ctl.mem \in CRGood
  BY <1>1 DEF CRInv, CtlInv
<1>3. new \in CRGood /\ new.spec = cr.spec /\ new.gen = cr.gen
  BY <1>2 DEF Merge, CRGood, CRType
<1> HIDE DEF new
<1>4. cr' \in CRGood /\ cr'.spec = cr.spec /\ cr'.gen = cr.gen
  BY <1>1, <1>2, <1>3 DEF CRGood, CRType
<1>5. CRInv'
  <2>1. StorageSpec(swift)' = StorageSpec(swift)
    BY <1>1 DEF StorageSpec
  <2>. QED  BY <1>1, <1>4, <2>1 DEF CRInv
<1>6. Idle.pc = "idle" /\ Idle \in CtlShape
  BY DEF Idle, CtlShape, Points
<1>7. CtlInv'
  BY <1>1, <1>6 DEF CtlInv, Hashed
<1>8. SwiftInv' /\ StsInv' /\ PodInv' /\ InputInv' /\ GrowInv'
  BY <1>1, <1>4, <1>6 DEF SwiftInv, StsInv, PodInv, InputInv, GrowInv
<1>. QED  BY <1>1, <1>5, <1>7, <1>8

----------------------------------------------------------------------------
(* Which of these lemmas are about a step of the controller. *)
LEMMA ControllerKeeps ==
  ASSUME StorageInv, Controller
  PROVE  StorageInv' /\ (sts.exists => sts'.replicas >= sts.replicas)
<1>1. sts' = sts => sts'.replicas >= sts.replicas
  BY ReplicaFacts
<1>2. CASE CreateOrPatch
  BY <1>2, CreateOrPatchKeeps, CreateOrPatchFacts
<1>3. CASE ~CreateOrPatch
  BY <1>1, <1>3, BeginKeeps, ConfigKeeps, TopologyKeeps, PublishKeeps, PatchKeeps DEF Controller
<1>. QED  BY <1>2, <1>3

(* The invariant is inductive, and no step takes replicas away. *)
LEMMA StorageStep ==
  ASSUME StorageInv, [Next]_vars
  PROVE  StorageInv' /\ (sts.exists /\ sts'.exists => sts'.replicas >= sts.replicas)
<1>1. sts'.replicas = sts.replicas => sts'.replicas >= sts.replicas
  BY ReplicaFacts
<1>2. CASE UNCHANGED vars
  BY <1>1, <1>2 DEF vars, StorageInv, SwiftInv, CRInv, StsInv, PodInv, InputInv, CtlInv, GrowInv,
                    StorageSpec
<1>3. CASE Controller
  BY <1>3, ControllerKeeps
<1>4. CASE StorageCreateOrUpdate \/ DeleteStorage
  BY <1>1, <1>4, OwnerKeeps DEF StorageCreateOrUpdate, DeleteStorage, cluster
<1>5. CASE Providers \/ DeleteOwned \/ \E k \in {"ca", "mc"}, v \in Versions : Replace(k, v)
  <2>1. sts' = sts
    BY <1>5 DEF Providers, Provide, DeleteOwned, Replace, objects, cluster
  <2>. QED  BY <1>1, <1>5, <2>1, InputsKeep
<1>6. CASE EditOne
  <2>1. sts' = sts
    BY <1>6 DEF EditOne, Edit, objects, cluster
  <2>. QED  BY <1>1, <1>6, <2>1, EditOneKeeps
<1>7. ASSUME NEW o \in Ordinals, Kubelet(o) \/ PodLost(o)
      PROVE  StorageInv' /\ (sts.exists /\ sts'.exists => sts'.replicas >= sts.replicas)
  BY <1>1, <1>7, PodsKeep
<1>8. CASE StsSync
  BY <1>1, <1>8, StsSyncKeeps
<1>9. CASE CollectGarbage
  BY <1>9, CollectKeeps
<1>10. CASE SyncCR \/ SyncSts \/ PatchFails \/ Crash
  BY <1>1, <1>10, CachesKeep
<1>11. CASE CallFails
  BY <1>1, <1>11, CallFailsKeeps
<1>. QED
  BY <1>2, <1>3, <1>4, <1>5, <1>6, <1>7, <1>8, <1>9, <1>10, <1>11 DEF Next, Users

(* StorageInv holds in every reachable state. *)
LEMMA StorageInvariant == Spec => []StorageInv
<1>1. StorageInv /\ [Next]_vars => StorageInv'
  BY StorageStep
<1>. QED  BY <1>1, StorageInit, PTL DEF Spec

(* Instances, caches, pods and DNS records keep their types, and the       *)
(* controller puts its finalizer only on Topologies of its own namespace   *)
(* (ensureTopology), for it never meets another one.                       *)
THEOREM StorageTypes == Spec => []TypeOK
<1>1. StorageInv => TypeOK
  <2> SUFFICES ASSUME StorageInv PROVE TypeOK
    OBVIOUS
  <2> USE DEF StorageInv
  <2>1. /\ sts.exists => sts.tmpl \in Template /\ sts.replicas \in Ordinals
        /\ sts.obs <= sts.gen /\ sts.ready \in 0..Cardinality(Ordinals)
    <3>1. CASE sts = NoSts
      <4>1. sts.exists = FALSE /\ sts.obs = 0 /\ sts.gen = 0 /\ sts.ready = 0
        BY <3>1 DEF NoSts
      <4>. QED  BY <4>1, OrdinalFacts
    <3>2. CASE sts \in StsSet /\ sts.obs <= sts.gen
      BY <3>2 DEF StsSet, TmplGood, Counts
    <3>. QED  BY <3>1, <3>2 DEF StsInv, StsGood
  <2>2. cr \in CRType /\ seen \in CRType /\ ctl.pc \in Points
        /\ (ctl.pc # "idle" => ctl.base \in CRType /\ ctl.mem \in CRType)
    BY DEF CRInv, CRGood, CtlInv, CtlShape
  <2>3. \A o \in Ordinals : pods[o] # None /\ pods[o].up => pods[o].ip = last[o]
    BY DEF PodInv
  <2>4. owned.config \in {None} \cup [mc : Versions, ver : Versions]
    BY DEF InputInv
  <2>. QED  BY <2>1, <2>2, <2>3, <2>4 DEF TypeOK, SwiftInv, CRInv, PodInv, InputInv
<1>. QED  BY <1>1, StorageInvariant, PTL

(* No Topology of another namespace reaches spec or pods, although the     *)
(* webhook does not look at the reference of SwiftStorage                  *)
(* (ValidateSwiftTopology): the Swift controller does not copy that one.   *)
THEOREM TopologiesAreLocal == Spec => []NoForeignTopology
<1>1. StorageInv => NoForeignTopology
  <2> SUFFICES ASSUME StorageInv PROVE NoForeignTopology
    OBVIOUS
  <2>1. sts.exists => sts.tmpl.top \notin Foreign
    <3>1. NoSts.exists = FALSE
      BY DEF NoSts
    <3>. QED  BY <3>1 DEF StorageInv, StsInv, StsGood, StsSet, TmplGood
  <2>. QED  BY <2>1 DEF StorageInv, CRInv, CRGood, NoForeignTopology
<1>. QED  BY <1>1, StorageInvariant, PTL

(* "SwiftStorage does not support scale-in": the StatefulSet never loses a *)
(* replica, with caches of instance and StatefulSet that lag, lost patches *)
(* and restarts, because the reconcile in flight is never older than the   *)
(* one that wrote the StatefulSet last.                                    *)
THEOREM ScaleInNever == Spec => NeverScaledIn
<1>1. StorageInv /\ [Next]_vars
        => [sts.exists /\ sts'.exists => sts'.replicas >= sts.replicas]_vars
  BY StorageStep
<1>. QED  BY <1>1, StorageInvariant, PTL DEF Spec, NeverScaledIn
=============================================================================
