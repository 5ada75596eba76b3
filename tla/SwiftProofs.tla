----------------------------- MODULE SwiftProofs -----------------------------
(***************************************************************************)
(* Theorems about Swift, for any number of changes, faults, hashes and     *)
(* versions: the swift-conf Secret (caches of Swift and Secret up to date  *)
(* when the reconcile reads them, those of the sub-CRs lagging or not),    *)
(* types and generations (any lag), and Ready (caches of Swift and sub-CRs *)
(* up to date when they are read).                                         *)
(***************************************************************************)
EXTENDS Swift, TLAPS

CRShape  == [exists : BOOLEAN, fin : BOOLEAN, del : BOOLEAN, spec : Spec0,
             gen : Nat, obs : Nat, ready : BOOLEAN]
SubShape == [exists : BOOLEAN, spec : {None} \cup SubSpec, gen : Nat, obs : Nat,
             ready : BOOLEAN]
CtlShape == [pc : Points, base : {None} \cup CRShape, mem : {None} \cup CRShape,
             got : BOOLEAN, ok : BOOLEAN, again : BOOLEAN]

(* The types without the bounds on generations, which is all that the      *)
(* proofs below need.                                                      *)
Shape ==
    /\ cr \in CRShape /\ seen \in CRShape
    /\ conf \in ConfType /\ confSeen \in BOOLEAN
    /\ sub \in [Kinds -> SubShape] /\ subSeen \in [Kinds -> SubShape]
    /\ data \in {None} \cup Hashes
    /\ ctl \in CtlShape
    /\ ctl.pc # "idle" => ctl.base \in CRShape /\ ctl.mem \in CRShape

----------------------------------------------------------------------------
(* The program points, listed. *)
LEMMA PointsListed ==
  /\ AfterMeta = {"storage", "ring", "proxy", "storage_gen", "ring_gen", "proxy_gen"}
  /\ Points = {"idle", "conf", "ensure", "meta", "delete", "patch"} \cup AfterMeta
  /\ \A k \in Kinds : Gens[k] \in AfterMeta /\ k \in AfterMeta
<1>1. Gens["storage"] = "storage_gen" /\ Gens["ring"] = "ring_gen" /\ Gens["proxy"] = "proxy_gen"
  BY DEF Gens
<1>2. {Gens[k] : k \in Kinds} = {"storage_gen", "ring_gen", "proxy_gen"}
  BY <1>1 DEF Kinds
<1>. QED  BY <1>1, <1>2 DEF AfterMeta, Points, Kinds

(* The specs written to sub-CRs are specs of sub-CRs. *)
LEMMA WantedType ==
  ASSUME NEW k \in Kinds, NEW s \in Spec0
  PROVE  Wanted(k, s) \in SubSpec
<1>1. StorageSpec(s) \in SubSpec
  BY DEF StorageSpec, Inherit, SubSpec, Spec0, Refs
<1>2. RingSpec(s) \in SubSpec
  BY DEF RingSpec, SubSpec, Spec0, Refs
<1>3. ProxySpec(s) \in SubSpec
  BY DEF ProxySpec, Inherit, SubSpec, Spec0, Refs
<1>. QED  BY <1>1, <1>2, <1>3 DEF Wanted

(* Each new Swift CR and its surroundings have the shape. *)
LEMMA ShapeInit == Init => Shape
<1> SUFFICES ASSUME Init PROVE Shape
  OBVIOUS
<1>1. cr \in CRShape
  <2>1. PICK s \in Spec0 :
           cr = [exists |-> TRUE, fin |-> FALSE, del |-> FALSE, spec |-> s,
                 gen |-> 1, obs |-> 0, ready |-> FALSE]
    BY DEF Init
  <2>. QED  BY <2>1 DEF CRShape
<1>2. conf \in ConfType /\ data \in {None} \cup Hashes
  <2>1. CASE conf = NoConf /\ data = None
    BY <2>1 DEF ConfType, NoConf
  <2>2. ASSUME NEW h \in Hashes,
               conf = [NoConf EXCEPT !.exists = TRUE, !.hash = h], data = h
        PROVE  conf \in ConfType /\ data \in {None} \cup Hashes
    BY <2>2 DEF ConfType, NoConf
  <2>. QED  BY <2>1, <2>2 DEF Init
<1>3. sub \in [Kinds -> SubShape]
  BY DEF Init, NoSub, SubShape
<1>4. ctl \in CtlShape /\ ctl.pc = "idle"
  BY PointsListed DEF Init, Idle, CtlShape
<1>. QED  BY <1>1, <1>2, <1>3, <1>4 DEF Init, Shape, ConfType

(* A merge patch gives a Swift CR. *)
LEMMA MergeType ==
  ASSUME NEW now \in CRShape, NEW base \in CRShape, NEW mem \in CRShape
  PROVE  /\ Merge(now, base, mem) \in CRShape
         /\ Merge(now, base, mem).del = now.del
         /\ Merge(now, base, mem).fin = IF mem.fin # base.fin THEN mem.fin ELSE now.fin
         /\ Merge(now, base, mem).gen = now.gen /\ Merge(now, base, mem).spec = now.spec
         /\ Merge(now, base, mem).obs = IF mem.obs # base.obs THEN mem.obs ELSE now.obs
         /\ Merge(now, base, mem).ready = IF mem.ready # base.ready THEN mem.ready ELSE now.ready
BY DEF Merge, CRShape

(* Users, data and informers keep the shape. *)
LEMMA ShapeWorld ==
  ASSUME Shape, Users \/ Informers \/ SubControllers
  PROVE  Shape'
<1> USE DEF Shape
<1>1. ASSUME NEW s \in Spec0, Edit(s) PROVE Shape'
  <2>1. cr' \in CRShape
    <3>1. cr \in CRShape /\ cr.gen + 1 \in Nat
      BY DEF CRShape
    <3>2. cr' = [cr EXCEPT !.spec = s, !.gen = cr.gen + 1]
      BY <1>1 DEF Edit
    <3> DEFINE g == cr.gen + 1
    <3>3. g \in Nat /\ cr' = [cr EXCEPT !.spec = s, !.gen = g]
      BY <3>1, <3>2
    <3> HIDE DEF g
    <3>. QED  BY <1>1, <3>1, <3>3 DEF CRShape
  <2>. QED  BY <1>1, <2>1 DEF Edit, caches
<1>2. CASE DeleteSwift
  <2>1. cr' \in CRShape
    BY <1>2 DEF DeleteSwift, CRShape
  <2>. QED  BY <1>2, <2>1 DEF DeleteSwift, caches
<1>3. CASE DeleteConf
  BY <1>3 DEF DeleteConf, NoConf, ConfType, caches
<1>4. CASE WriteData
  BY <1>4 DEF WriteData, ConfType, caches
<1>5. CASE SyncCR \/ SyncConf \/ \E k \in Kinds : SyncSub(k)
  BY <1>5 DEF SyncCR, SyncConf, SyncSub, ConfType, objects
<1>6. ASSUME NEW k \in Kinds, SubReconcile(k) \/ SubReady(k) \/ SubDegrade(k)
      PROVE  Shape'
  <2>1. sub' \in [Kinds -> SubShape]
    <3>1. ASSUME NEW ready \in BOOLEAN
          PROVE  /\ [sub EXCEPT ![k].obs = sub[k].gen, ![k].ready = ready] \in [Kinds -> SubShape]
                 /\ [sub EXCEPT ![k].ready = ready] \in [Kinds -> SubShape]
      BY DEF SubShape
    <3>. QED  BY <1>6, <3>1 DEF SubReconcile, SubReady, SubDegrade
  <2>. QED  BY <1>6, <2>1 DEF SubReconcile, SubReady, SubDegrade, caches
<1>. QED  BY <1>1, <1>2, <1>3, <1>4, <1>5, <1>6 DEF Users, Informers, SubControllers

(* The start of a reconcile keeps the shape. *)
LEMMA ShapeBegin ==
  ASSUME Shape, NEW pc \in Points, NEW fin \in BOOLEAN, Begin(pc, fin)
  PROVE  /\ Shape'
         /\ ctl' = [pc |-> pc, base |-> seen, got |-> FALSE, ok |-> TRUE, again |-> FALSE,
                    mem |-> [seen EXCEPT !.ready = FALSE, !.obs = seen.gen, !.fin = fin]]
         /\ ctl'.pc = pc /\ ctl'.base.fin = seen.fin /\ ctl'.mem.fin = fin
<1>1. [seen EXCEPT !.ready = FALSE, !.obs = seen.gen, !.fin = fin] \in CRShape
  BY DEF Shape, CRShape
<1>2. ctl' = [pc |-> pc, base |-> seen, got |-> FALSE, ok |-> TRUE, again |-> FALSE,
              mem |-> [seen EXCEPT !.ready = FALSE, !.obs = seen.gen, !.fin = fin]]
  BY DEF Begin
<1>3. ctl' \in CtlShape /\ ctl'.base \in CRShape /\ ctl'.mem \in CRShape
  BY <1>1, <1>2 DEF Shape, CtlShape
<1>4. ctl'.pc = pc /\ ctl'.base.fin = seen.fin /\ ctl'.mem.fin = fin
  BY <1>2 DEF Shape, CRShape
<1>. QED  BY <1>2, <1>3, <1>4 DEF Begin, Shape, objects, caches

(* Going to another program point, with or without a requeue. *)
LEMMA GotoFacts ==
  ASSUME Shape, ctl.pc # "idle", NEW p \in Points, Goto(p) \/ (p = "patch" /\ Requeue)
  PROVE  /\ ctl' \in CtlShape /\ ctl'.pc = p
         /\ ctl'.base = ctl.base /\ ctl'.mem = ctl.mem
BY DEF Shape, CtlShape, Goto, Requeue

(* The steps on swift-conf keep the shape. *)
LEMMA ShapeConf ==
  ASSUME Shape, GetConf \/ EnsureConf \/ ConfMetaData \/ ReleaseConf
  PROVE  Shape'
<1> USE DEF Shape
<1>1. CASE GetConf
  <2>1. PICK p \in Points : ctl.pc # "idle" /\ Goto(p)
    BY <1>1, PointsListed DEF GetConf
  <2>2. ctl' \in CtlShape /\ ctl'.base = ctl.base /\ ctl'.mem = ctl.mem
    BY <2>1, GotoFacts
  <2>. QED  BY <1>1, <2>1, <2>2 DEF GetConf, objects, Rest, caches
<1>2. CASE EnsureConf
  <2>1. PICK p \in Points : ctl.pc # "idle" /\ (Goto(p) \/ (p = "patch" /\ Requeue))
    BY <1>2, PointsListed DEF EnsureConf
  <2>2. ctl' \in CtlShape /\ ctl'.base = ctl.base /\ ctl'.mem = ctl.mem
    BY <2>1, GotoFacts
  <2>3. conf' \in ConfType
    BY <1>2 DEF EnsureConf, ConfType
  <2>. QED  BY <1>2, <2>1, <2>2, <2>3 DEF EnsureConf, Rest, caches
<1>3. CASE ConfMetaData
  <2>1. PICK p \in Points : ctl.pc # "idle" /\ (Goto(p) \/ (p = "patch" /\ Requeue))
    BY <1>3, PointsListed DEF ConfMetaData
  <2>2. ctl' \in CtlShape /\ ctl'.base = ctl.base /\ ctl'.mem = ctl.mem
    BY <2>1, GotoFacts
  <2>3. conf' \in ConfType
    BY <1>3 DEF ConfMetaData, ConfType
  <2>. QED  BY <1>3, <2>1, <2>2, <2>3 DEF ConfMetaData, Rest, caches
<1>4. CASE ReleaseConf
  <2>1. ctl' = [ctl EXCEPT !.pc = "patch", !.mem.fin = FALSE] /\ ctl.pc = "delete"
    BY <1>4 DEF ReleaseConf
  <2>2. ctl' \in CtlShape /\ ctl'.base \in CRShape /\ ctl'.mem \in CRShape
    BY <2>1, PointsListed DEF CtlShape, CRShape
  <2>3. conf' \in ConfType
    BY <1>4 DEF ReleaseConf, ConfType, NoConf
  <2>. QED  BY <1>4, <2>2, <2>3 DEF ReleaseConf, Rest, caches
<1>. QED  BY <1>1, <1>2, <1>3, <1>4

(* A write to one sub-CR leaves sub-CRs. *)
LEMMA SubWrite ==
  ASSUME NEW f \in [Kinds -> SubShape], NEW k \in Kinds, NEW w \in SubSpec, NEW g \in Nat
  PROVE  [f EXCEPT ![k].exists = TRUE, ![k].spec = w, ![k].gen = g] \in [Kinds -> SubShape]
<1> DEFINE r == [f[k] EXCEPT !.exists = TRUE, !.spec = w, !.gen = g]
<1>1. r \in SubShape
  BY DEF SubShape
<1>2. [f EXCEPT ![k] = r] \in [Kinds -> SubShape]
  <2> HIDE DEF r
  <2>. QED  BY <1>1
<1>3. [f EXCEPT ![k].exists = TRUE, ![k].spec = w, ![k].gen = g] = [f EXCEPT ![k] = r]
  OBVIOUS
<1>. QED  BY <1>2, <1>3

(* Writing sub-CRs and looking at their generations keeps the shape. *)
LEMMA ShapeSub ==
  ASSUME Shape, NEW k \in Kinds, CreateOrUpdate(k) \/ CheckGeneration(k)
  PROVE  /\ Shape'
         /\ ctl.pc \in AfterMeta
         /\ ctl'.pc \in AfterMeta \cup {"patch"}
         /\ ctl'.base.fin = ctl.base.fin /\ ctl'.mem.fin = ctl.mem.fin
<1>1. CASE CreateOrUpdate(k)
  <2> DEFINE want == Wanted(k, ctl.mem.spec)
  <2>1. ctl.pc = k /\ ctl.pc \in AfterMeta /\ ctl.pc # "idle" /\ Gens[k] \in AfterMeta
    BY <1>1, PointsListed DEF CreateOrUpdate
  <2>2. want \in SubSpec
    BY <2>1, WantedType DEF Shape, CRShape
  <2>3. sub' \in [Kinds -> SubShape]
    <3>1. CASE UNCHANGED sub
      BY <3>1 DEF Shape
    <3>2. CASE sub' = [sub EXCEPT ![k].exists = TRUE, ![k].spec = want, ![k].gen = sub[k].gen + 1]
      <4>1. sub[k].gen + 1 \in Nat
        BY DEF Shape, SubShape
      <4> HIDE DEF want
      <4>. QED  BY <3>2, <4>1, <2>2, SubWrite DEF Shape
    <3>. QED  BY <1>1, <3>1, <3>2 DEF CreateOrUpdate
  <2>4. \/ ctl' = [ctl EXCEPT !.pc = Gens[k], !.got = subSeen[k].ready]
        \/ ctl' = [ctl EXCEPT !.pc = Gens[k], !.got = sub[k].ready]
        \/ Requeue
    BY <1>1 DEF CreateOrUpdate
  <2>5. /\ ctl' \in CtlShape /\ ctl'.base = ctl.base /\ ctl'.mem = ctl.mem
        /\ ctl'.pc \in AfterMeta \cup {"patch"}
    <3>1. subSeen[k].ready \in BOOLEAN /\ sub[k].ready \in BOOLEAN /\ Gens[k] \in Points
      BY <2>1, PointsListed DEF Shape, SubShape
    <3>2. CASE Requeue
      BY <3>2, <2>1, GotoFacts, PointsListed
    <3>3. ASSUME NEW got \in BOOLEAN, ctl' = [ctl EXCEPT !.pc = Gens[k], !.got = got]
          PROVE  /\ ctl' \in CtlShape /\ ctl'.base = ctl.base /\ ctl'.mem = ctl.mem
                 /\ ctl'.pc \in AfterMeta \cup {"patch"}
      BY <3>1, <3>3, <2>1 DEF Shape, CtlShape
    <3>. QED  BY <2>4, <3>1, <3>2, <3>3
  <2>. QED  BY <1>1, <2>1, <2>3, <2>5 DEF CreateOrUpdate, Rest, caches, Shape
<1>2. CASE CheckGeneration(k)
  <2> DEFINE ok == ctl.ok /\ ctl.got /\ subSeen[k].gen = subSeen[k].obs
  <2>1. /\ ctl.pc \in AfterMeta /\ ctl.pc # "idle"
        /\ ctl' = [ctl EXCEPT !.pc = After(k), !.ok = ok, !.mem.ready = k = "proxy" /\ ok]
    BY <1>2, PointsListed DEF CheckGeneration
  <2>2. After(k) \in AfterMeta \cup {"patch"}
    BY PointsListed DEF After
  <2>3. ok \in BOOLEAN /\ (k = "proxy" /\ ok) \in BOOLEAN
    OBVIOUS
  <2> HIDE DEF ok
  <2>4. /\ ctl' \in CtlShape /\ ctl'.base \in CRShape /\ ctl'.mem \in CRShape
        /\ ctl'.pc \in AfterMeta \cup {"patch"}
        /\ ctl'.base.fin = ctl.base.fin /\ ctl'.mem.fin = ctl.mem.fin
    <3> DEFINE m == [ctl.mem EXCEPT !.ready = k = "proxy" /\ ok]
    <3>1. m \in CRShape /\ m.fin = ctl.mem.fin
      BY <2>1, <2>3 DEF Shape, CRShape
    <3>2. ctl' = [ctl EXCEPT !.pc = After(k), !.ok = ok, !.mem = m]
      BY <2>1
    <3>3. After(k) \in Points
      BY <2>2, PointsListed
    <3> HIDE DEF m
    <3>4. ctl' \in CtlShape /\ ctl'.pc = After(k) /\ ctl'.base = ctl.base /\ ctl'.mem = m
      BY <3>1, <3>2, <3>3, <2>3 DEF Shape, CtlShape
    <3>. QED  BY <2>1, <2>2, <3>1, <3>4 DEF Shape
  <2>. QED  BY <1>2, <2>1, <2>4 DEF CheckGeneration, Rest, caches, objects, Shape
<1>. QED  BY <1>1, <1>2

(* The final patch writes the merged instance, or none when it is gone. *)
LEMMA PatchFacts ==
  ASSUME Shape, PatchInstance
  PROVE  /\ Shape' /\ ctl'.pc = "idle"
         /\ cr.exists /\ ~cr'.exists => ~cr'.fin
         /\ cr.exists = FALSE => cr' = cr
         /\ cr'.del = cr.del
         /\ cr'.fin # cr.fin => cr'.fin = ctl.mem.fin /\ ctl.base.fin # ctl.mem.fin
         /\ cr'.exists => cr.exists
<1> DEFINE new == Merge(cr, ctl.base, ctl.mem)
<1>1. cr' = IF cr.exists THEN [new EXCEPT !.exists = ~(new.del /\ ~new.fin)] ELSE cr
  BY DEF PatchInstance
<1>2. /\ new \in CRShape /\ new.del = cr.del
      /\ new.fin = IF ctl.mem.fin # ctl.base.fin THEN ctl.mem.fin ELSE cr.fin
  BY MergeType DEF PatchInstance, Shape
<1>3. ctl' \in CtlShape /\ ctl'.pc = "idle"
  BY PointsListed DEF PatchInstance, Idle, CtlShape
<1> HIDE DEF new
<1>4. /\ cr' \in CRShape /\ cr'.del = cr.del
      /\ cr.exists /\ ~cr'.exists => ~cr'.fin
      /\ cr.exists => cr'.fin = new.fin
  BY <1>1, <1>2 DEF Shape, CRShape
<1>5. Shape'
  BY <1>3, <1>4 DEF PatchInstance, Shape, caches
<1>6. cr'.fin # cr.fin => cr'.fin = ctl.mem.fin /\ ctl.base.fin # ctl.mem.fin
  BY <1>1, <1>2, <1>4
<1>7. (cr.exists = FALSE => cr' = cr) /\ (cr'.exists => cr.exists)
  BY <1>1 DEF Shape, CRShape
<1>. QED  BY <1>3, <1>4, <1>5, <1>6, <1>7

(* Failing calls and restarts keep the shape. *)
LEMMA ShapeFaults ==
  ASSUME Shape, CallFails \/ Crash
  PROVE  Shape'
<1>1. CASE CallFails
  <2>1. ctl' \in CtlShape /\ ctl'.base = ctl.base /\ ctl'.mem = ctl.mem /\ ctl.pc # "idle"
    BY <1>1, GotoFacts, PointsListed DEF CallFails
  <2>. QED  BY <1>1, <2>1 DEF CallFails, objects, caches, Shape
<1>2. CASE Crash
  <2>1. ctl' \in CtlShape /\ ctl'.pc = "idle"
    BY <1>2, PointsListed DEF Crash, Idle, CtlShape
  <2>. QED  BY <1>2, <2>1 DEF Crash, objects, Shape, ConfType
<1>. QED  BY <1>1, <1>2

(* The four ways a reconcile starts. *)
LEMMA ShapeStart ==
  ASSUME Shape, ReconcileGone \/ ReconcileNew \/ ReconcileDelete \/ ReconcileNormal
  PROVE  Shape'
<1>1. CASE ReconcileGone
  BY <1>1 DEF ReconcileGone, objects, caches, Shape
<1>2. CASE ReconcileNew
  BY <1>2, ShapeBegin, PointsListed DEF ReconcileNew
<1>3. CASE ReconcileDelete
  <2>1. Begin("delete", seen.fin) /\ seen.fin \in BOOLEAN
    BY <1>3 DEF ReconcileDelete, Shape, CRShape
  <2>. QED  BY <2>1, ShapeBegin, PointsListed
<1>4. CASE ReconcileNormal
  BY <1>4, ShapeBegin, PointsListed DEF ReconcileNormal
<1>. QED  BY <1>1, <1>2, <1>3, <1>4

(* Every step keeps the shape. *)
LEMMA ShapeNext == Shape /\ [Next]_vars => Shape'
<1> SUFFICES ASSUME Shape, [Next]_vars PROVE Shape'
  OBVIOUS
<1>1. CASE UNCHANGED vars
  BY <1>1 DEF vars, Shape
<1>2. CASE Next
  BY <1>2, ShapeWorld, ShapeStart, ShapeConf, ShapeSub, PatchFacts, ShapeFaults
     DEF Next, Reconcile
<1>. QED  BY <1>1, <1>2

----------------------------------------------------------------------------
(* A new Swift CR: nothing is held, and data has its Secret. *)
LEMMA ConfInit == Init => ConfInv
<1> SUFFICES ASSUME Init PROVE ConfInv
  OBVIOUS
<1>1. ctl.pc = "idle" /\ "idle" \notin Normal /\ "idle" \notin AfterMeta
  BY PointsListed DEF Init, Idle, Normal
<1>2. sub["storage"].exists = FALSE
  BY DEF Init, NoSub, Kinds
<1>3. conf.fin = FALSE /\ (data # None => conf.exists /\ conf.hash = data)
  <2>1. CASE conf = NoConf /\ data = None
    BY <2>1 DEF NoConf
  <2>2. ASSUME NEW h \in Hashes,
               conf = [NoConf EXCEPT !.exists = TRUE, !.hash = h], data = h
        PROVE  conf.fin = FALSE /\ (data # None => conf.exists /\ conf.hash = data)
    BY <2>2 DEF NoConf
  <2>. QED  BY <2>1, <2>2 DEF Init
<1>. QED  BY <1>1, <1>2, <1>3 DEF ConfInv, ConfHeld, InFlight, Backed

(* What users, data and informers do while a reconcile is in flight. *)
LEMMA ConfWorld ==
  ASSUME Shape, ConfInv, Users \/ Informers \/ SubControllers
  PROVE  ConfInv'
<1> USE DEF ConfInv, ConfHeld, InFlight, Backed
<1>1. ASSUME NEW s \in Spec0, Edit(s) PROVE ConfInv'
  <2>1. cr'.exists = cr.exists /\ cr'.fin = cr.fin /\ cr'.del = cr.del
    BY <1>1 DEF Edit, Shape, CRShape
  <2>. QED  BY <1>1, <2>1 DEF Edit
<1>2. CASE DeleteSwift
  <2>1. cr'.exists = cr.fin /\ cr'.fin = cr.fin /\ cr'.del
    BY <1>2 DEF DeleteSwift, Shape, CRShape
  <2>. QED  BY <1>2, <2>1 DEF DeleteSwift
<1>3. CASE DeleteConf
  <2>1. CASE conf.fin
    <3>1. conf'.exists = conf.exists /\ conf'.fin = conf.fin /\ conf'.hash = conf.hash
      BY <1>3, <2>1 DEF DeleteConf, Shape, ConfType
    <3>. QED  BY <1>3, <3>1 DEF DeleteConf
  <2>2. CASE ~conf.fin
    <3>1. conf'.exists = FALSE /\ conf'.fin = FALSE
      BY <1>3, <2>2 DEF DeleteConf, NoConf
    <3>2. ~Backed
      BY <1>3, <2>2 DEF DeleteConf
    <3>3. ctl.pc \notin Normal /\ ctl.pc \notin AfterMeta /\ ctl.pc # "meta"
      BY <3>2 DEF Normal
    <3>. QED  BY <1>3, <3>1, <3>2, <3>3 DEF DeleteConf
  <2>. QED  BY <2>1, <2>2
<1>4. CASE WriteData
  BY <1>4 DEF WriteData
<1>5. CASE SyncCR \/ SyncConf \/ \E k \in Kinds : SyncSub(k)
  BY <1>5 DEF SyncCR, SyncConf, SyncSub, objects
<1>6. ASSUME NEW k \in Kinds, SubReconcile(k) \/ SubReady(k) \/ SubDegrade(k)
      PROVE  ConfInv'
  <2>1. sub'["storage"].exists = sub["storage"].exists
    BY <1>6 DEF SubReconcile, SubReady, SubDegrade, Shape, SubShape, Kinds
  <2>. QED  BY <1>6, <2>1 DEF SubReconcile, SubReady, SubDegrade
<1>. QED  BY <1>1, <1>2, <1>3, <1>4, <1>5, <1>6 DEF Users, Informers, SubControllers

(* A reconcile that starts has read the instance as it is. *)
LEMMA ConfStart ==
  ASSUME Shape, ConfInv, "cr" \notin Lag,
         ReconcileGone \/ ReconcileNew \/ ReconcileDelete \/ ReconcileNormal
  PROVE  ConfInv'
<1> USE DEF ConfInv, ConfHeld, InFlight, Backed
<1>1. CASE ReconcileGone
  BY <1>1 DEF ReconcileGone, objects
<1>2. CASE ReconcileNew
  <2>1. Begin("patch", TRUE)
    BY <1>2 DEF ReconcileNew
  <2>2. ctl'.pc = "patch" /\ ctl'.mem.fin
    BY <2>1, ShapeBegin, PointsListed
  <2>. QED  BY <2>1, <2>2, PointsListed DEF Begin, objects, Normal
<1>3. CASE ReconcileDelete
  <2>1. Begin("delete", seen.fin) /\ seen.fin \in BOOLEAN /\ seen.del
    BY <1>3 DEF ReconcileDelete, Shape, CRShape
  <2>2. ctl'.pc = "delete" /\ ctl'.mem.fin = ctl'.base.fin
    BY <2>1, ShapeBegin, PointsListed
  <2>. QED  BY <2>1, <2>2, PointsListed DEF Begin, objects, Normal
<1>4. CASE ReconcileNormal
  <2>1. Begin("conf", TRUE) /\ seen.fin /\ ~seen.del
    BY <1>4 DEF ReconcileNormal
  <2>2. ctl'.pc = "conf" /\ ctl'.mem.fin = ctl'.base.fin
    BY <2>1, ShapeBegin, PointsListed DEF Shape, CRShape
  <2>3. cr.exists /\ cr.fin /\ ~cr.del
    BY <2>1 DEF Begin
  <2>. QED  BY <2>1, <2>2, <2>3, PointsListed DEF Begin, objects, Normal
<1>. QED  BY <1>1, <1>2, <1>3, <1>4

(* Existence check, generation and finalizer of swift-conf, and its release. *)
LEMMA ConfSecret ==
  ASSUME Shape, ConfInv, "conf" \notin Lag,
         GetConf \/ EnsureConf \/ ConfMetaData \/ ReleaseConf
  PROVE  ConfInv'
<1> USE DEF ConfInv, ConfHeld, InFlight, Backed
<1>1. CASE GetConf
  <2>1. confSeen = conf.exists /\ ctl.pc = "conf" /\ Goto(IF confSeen THEN "meta" ELSE "ensure")
    BY <1>1 DEF GetConf, FreshConf
  <2>2. /\ ctl'.pc = IF conf.exists THEN "meta" ELSE "ensure"
        /\ ctl'.base = ctl.base /\ ctl'.mem = ctl.mem
    BY <2>1, GotoFacts, PointsListed
  <2>. QED  BY <1>1, <2>1, <2>2, PointsListed DEF GetConf, objects, Normal
<1>2. CASE EnsureConf
  <2>1. ctl.pc = "ensure" /\ confSeen = conf.exists /\ ~conf.exists /\ data = None /\ ~conf.fin
    BY <1>2 DEF EnsureConf, FreshConf, Normal
  <2>2. PICK h \in Hashes : conf' = [conf EXCEPT !.exists = TRUE, !.hash = h]
    BY <1>2, <2>1 DEF EnsureConf
  <2>3. conf'.exists /\ conf'.fin = conf.fin
    BY <2>2 DEF Shape, ConfType
  <2>4. ctl'.pc = "meta" /\ ctl'.base = ctl.base /\ ctl'.mem = ctl.mem
    BY <1>2, <2>1, GotoFacts, PointsListed DEF EnsureConf
  <2>. QED  BY <1>2, <2>1, <2>3, <2>4, PointsListed DEF EnsureConf, Normal
<1>3. CASE ConfMetaData
  <2>1. ctl.pc = "meta" /\ confSeen /\ conf.exists /\ cr.exists /\ cr.fin
    BY <1>3 DEF ConfMetaData, FreshConf, Normal
  <2>2. conf' = [conf EXCEPT !.fin = TRUE] /\ Goto("storage")
    BY <1>3, <2>1 DEF ConfMetaData
  <2>3. conf'.exists /\ conf'.fin /\ conf'.hash = conf.hash
    BY <2>1, <2>2 DEF Shape, ConfType
  <2>4. ctl'.pc = "storage" /\ ctl'.base = ctl.base /\ ctl'.mem = ctl.mem
    BY <2>1, <2>2, GotoFacts, PointsListed
  <2>. QED  BY <1>3, <2>1, <2>3, <2>4, PointsListed DEF ConfMetaData, Normal
<1>4. CASE ReleaseConf
  <2>1. ctl.pc = "delete" /\ cr.del /\ confSeen = conf.exists
    BY <1>4 DEF ReleaseConf, FreshConf
  <2>2. conf'.fin = FALSE /\ (conf'.exists => conf.exists /\ conf'.hash = conf.hash)
    BY <1>4, <2>1 DEF ReleaseConf, NoConf, Shape, ConfType
  <2>3. ctl'.pc = "patch"
    BY <1>4 DEF ReleaseConf, Shape, CtlShape
  <2>. QED  BY <1>4, <2>1, <2>2, <2>3, PointsListed DEF ReleaseConf, Normal
<1>. QED  BY <1>1, <1>2, <1>3, <1>4

(* The sub-CRs are written only under the finalizer. *)
LEMMA ConfSub ==
  ASSUME Shape, ConfInv, NEW k \in Kinds, CreateOrUpdate(k) \/ CheckGeneration(k)
  PROVE  ConfInv'
<1>1. /\ ctl.pc \in AfterMeta /\ ctl'.pc \in AfterMeta \cup {"patch"}
      /\ ctl'.base.fin = ctl.base.fin /\ ctl'.mem.fin = ctl.mem.fin
  BY ShapeSub
<1>2. conf.fin /\ conf.exists /\ cr.exists /\ cr.fin /\ ctl.mem.fin = ctl.base.fin
  BY <1>1, PointsListed DEF ConfInv, ConfHeld, InFlight, Normal
<1>3. UNCHANGED <<cr, conf, data>>
  BY DEF CreateOrUpdate, CheckGeneration, objects
<1>. QED  BY <1>1, <1>2, <1>3, PointsListed DEF ConfInv, ConfHeld, InFlight, Backed, Normal

(* The final patch gives up the instance only after the Secret. *)
LEMMA ConfPatch ==
  ASSUME Shape, ConfInv, PatchInstance
  PROVE  ConfInv'
<1> USE DEF ConfInv, ConfHeld, InFlight, Backed
<1>1. ctl.pc = "patch" /\ UNCHANGED <<conf, sub, data>>
  BY DEF PatchInstance
<1>2. /\ ctl'.pc = "idle"
      /\ cr.exists /\ ~cr'.exists => ~cr'.fin
      /\ cr.exists = FALSE => cr' = cr
      /\ cr'.del = cr.del
      /\ cr'.fin # cr.fin => cr'.fin = ctl.mem.fin /\ ctl.base.fin # ctl.mem.fin
      /\ cr'.exists => cr.exists
  BY PatchFacts
<1>3. cr.exists \in BOOLEAN /\ cr.fin \in BOOLEAN /\ ctl.base.fin \in BOOLEAN
      /\ ctl.mem.fin \in BOOLEAN
  BY <1>1 DEF Shape, CRShape
<1>4. conf.fin => cr'.fin /\ cr'.exists
  BY <1>1, <1>2, <1>3
<1>. QED  BY <1>1, <1>2, <1>4, PointsListed DEF Normal

(* A failing call or a restart drops the reconcile and touches no object. *)
LEMMA ConfFaults ==
  ASSUME Shape, ConfInv, CallFails \/ Crash
  PROVE  ConfInv'
<1> USE DEF ConfInv, ConfHeld, InFlight, Backed
<1>1. CASE CallFails
  <2>1. /\ ctl'.pc = "patch" /\ ctl'.base = ctl.base /\ ctl'.mem = ctl.mem
        /\ ctl.mem.fin = ctl.base.fin
    BY <1>1, GotoFacts, PointsListed DEF CallFails
  <2>. QED  BY <1>1, <2>1, PointsListed DEF CallFails, objects, Normal
<1>2. CASE Crash
  <2>1. ctl'.pc = "idle"
    BY <1>2 DEF Crash, Idle
  <2>. QED  BY <1>2, <2>1, PointsListed DEF Crash, objects, Normal
<1>. QED  BY <1>1, <1>2

(* The invariant is inductive when the caches of Swift and Secret are      *)
(* up to date as they are read.                                            *)
LEMMA ConfNext ==
  ASSUME "cr" \notin Lag, "conf" \notin Lag
  PROVE  Shape /\ ConfInv /\ [Next]_vars => ConfInv'
<1> SUFFICES ASSUME Shape, ConfInv, [Next]_vars PROVE ConfInv'
  OBVIOUS
<1>1. CASE UNCHANGED vars
  BY <1>1 DEF vars, ConfInv, ConfHeld, InFlight, Backed
<1>2. CASE Next
  BY <1>2, ConfWorld, ConfStart, ConfSecret, ConfSub, ConfPatch, ConfFaults
     DEF Next, Reconcile
<1>. QED  BY <1>1, <1>2

----------------------------------------------------------------------------
(* No accidental deletion of swift-conf, failing call or operator restart  *)
(* makes the Swift controller regenerate the hash under which data is      *)
(* stored (GetSecret, EnsureSecrets and reconcileSwiftConfMetaData).       *)
THEOREM DataStaysReadable ==
  ASSUME "cr" \notin Lag, "conf" \notin Lag
  PROVE  Spec => []StoredDataReadable
<1>1. ConfInv => StoredDataReadable
  BY DEF ConfInv, ConfHeld, StoredDataReadable
<1>. QED  BY <1>1, ShapeInit, ShapeNext, ConfInit, ConfNext, PTL DEF Spec

(* A Swift CR that is gone has left no finalizer on swift-conf             *)
(* (reconcileDelete), whatever reconciles were under way.                  *)
THEOREM ConfReleased ==
  ASSUME "cr" \notin Lag, "conf" \notin Lag
  PROVE  Spec => []ConfReleasedAfterDelete
<1>1. ConfInv => ConfReleasedAfterDelete
  BY DEF ConfInv, ConfHeld, ConfReleasedAfterDelete
<1>. QED  BY <1>1, ShapeInit, ShapeNext, ConfInit, ConfNext, PTL DEF Spec

----------------------------------------------------------------------------
(* Generations, for any lag of the caches. *)

(* A reconcile in flight works for generation g with spec s: no sub-CR is  *)
(* ahead of it, and one that has been written for every generation so far  *)
(* has the spec of this one.                                               *)
Behind(g, s) ==
    \A k \in Kinds : sub[k].gen <= g /\ (sub[k].gen = g => sub[k].spec = Wanted(k, s))

InOrder ==
    /\ ctl.mem.gen <= seen.gen /\ ctl.mem.gen >= 1
    /\ ctl.mem.gen = seen.gen => ctl.mem.spec = seen.spec
    /\ ctl.mem.obs = ctl.mem.gen
    /\ ctl.base.gen = ctl.mem.gen /\ ctl.base.obs <= ctl.base.gen
    /\ Behind(ctl.mem.gen, ctl.mem.spec)

SubOrder ==
    \A k \in Kinds : /\ sub[k].obs <= sub[k].gen
                     /\ subSeen[k].gen <= sub[k].gen /\ subSeen[k].obs <= subSeen[k].gen

GenInv ==
    /\ cr.gen >= 1 /\ cr.gen <= changes + 1 /\ cr.obs <= cr.gen
    /\ seen.gen >= 1 /\ seen.gen <= cr.gen /\ seen.obs <= seen.gen
    /\ seen.gen = cr.gen => seen.spec = cr.spec
    /\ Behind(seen.gen, seen.spec)
    /\ SubOrder
    /\ ctl.pc # "idle" => InOrder

(* Who has been counted. *)
Counted == queued \in BOOLEAN /\ changes \in 0..MaxChanges /\ nfaults \in 0..MaxFaults

----------------------------------------------------------------------------
(* Ready, for caches of Swift and sub-CRs that are up to date when read. *)
Enabled(s)    == IF s.ring THEN Kinds ELSE Kinds \ {"ring"}
Current(k, s) == sub[k].spec = Wanted(k, s) /\ sub[k].obs = sub[k].gen

(* The sub-CRs that the reconcile in flight has looked at. *)
Passed ==
    {k \in Enabled(ctl.mem.spec) :
        \/ k = "storage" /\ ctl.pc \in {"ring", "ring_gen", "proxy", "proxy_gen"}
        \/ k = "ring" /\ ctl.pc \in {"proxy", "proxy_gen"}}

(* Nobody else writes the status; what was current when it was looked at   *)
(* stays so, since its controller can only catch up.                       *)
Mirrored ==
    /\ ctl.base.obs = cr.obs /\ ctl.base.ready = cr.ready /\ cr.obs <= ctl.mem.gen
    /\ ctl.pc # "patch" => ctl.mem.ready = FALSE
    /\ ctl.mem.ready => \A k \in Enabled(ctl.mem.spec) : Current(k, ctl.mem.spec)
    /\ ctl.ok => \A k \in Passed : Current(k, ctl.mem.spec)
    /\ \A k \in Kinds : ctl.pc = Gens[k] => sub[k].spec = Wanted(k, ctl.mem.spec)

ReadyInv == ReadyMeansCurrent /\ (ctl.pc # "idle" => Mirrored)

----------------------------------------------------------------------------
(* All generations are numbers. *)
LEMMA GenTypes ==
  ASSUME Shape
  PROVE  /\ cr.gen \in Nat /\ cr.obs \in Nat /\ seen.gen \in Nat /\ seen.obs \in Nat
         /\ \A k \in Kinds : /\ sub[k].gen \in Nat /\ sub[k].obs \in Nat
                             /\ subSeen[k].gen \in Nat /\ subSeen[k].obs \in Nat
         /\ ctl.pc # "idle" => /\ ctl.mem.gen \in Nat /\ ctl.mem.obs \in Nat
                               /\ ctl.base.gen \in Nat /\ ctl.base.obs \in Nat
BY DEF Shape, CRShape, SubShape

(* A new Swift CR has generation one, and no sub-CR exists. *)
LEMMA GenInit == Init => GenInv /\ Counted
<1> SUFFICES ASSUME Init PROVE GenInv /\ Counted
  OBVIOUS
<1>1. cr.gen = 1 /\ cr.obs = 0 /\ seen = cr /\ changes = 0
  <2>1. PICK s \in Spec0 :
           cr = [exists |-> TRUE, fin |-> FALSE, del |-> FALSE, spec |-> s,
                 gen |-> 1, obs |-> 0, ready |-> FALSE]
    BY DEF Init
  <2>2. cr.gen = 1 /\ cr.obs = 0
    BY <2>1
  <2>. QED  BY <2>2 DEF Init
<1>2. \A k \in Kinds : sub[k].gen = 0 /\ sub[k].obs = 0 /\ subSeen[k] = sub[k]
  BY DEF Init, NoSub
<1>3. Behind(seen.gen, seen.spec) /\ SubOrder
  BY <1>1, <1>2 DEF Behind, SubOrder
<1>4. ctl.pc = "idle"
  BY DEF Init, Idle
<1>5. Counted
  <2>1. MaxChanges \in Nat /\ MaxFaults \in Nat
    BY SwiftAssumption
  <2>2. 0 \in 0..MaxChanges /\ 0 \in 0..MaxFaults
    BY <2>1
  <2>. QED  BY <2>2 DEF Init, Counted
<1>. QED  BY <1>1, <1>3, <1>4, <1>5 DEF GenInv

(* The counters. *)
LEMMA CountedNext == Counted /\ Shape /\ [Next]_vars => Counted'
<1> SUFFICES ASSUME Counted, Shape, [Next]_vars PROVE Counted'
  OBVIOUS
<1>1. changes' \in 0..MaxChanges
  <2>1. changes \in 0..MaxChanges /\ MaxChanges \in Nat
    BY SwiftAssumption DEF Counted
  <2>2. changes' = changes \/ Change
    BY DEF Next, Reconcile, ReconcileGone, ReconcileNew, ReconcileDelete, ReconcileNormal,
       Begin, GetConf, EnsureConf, ConfMetaData, ReleaseConf, PatchInstance, CreateOrUpdate,
       CheckGeneration, Rest, Users, Edit, DeleteSwift, DeleteConf, WriteData, Informers,
       SyncCR, SyncConf, SyncSub, SubControllers, SubReconcile, SubReady, SubDegrade,
       CallFails, Crash, vars
  <2>. QED  BY <2>1, <2>2 DEF Change
<1>2. nfaults' \in 0..MaxFaults
  <2>1. nfaults \in 0..MaxFaults /\ MaxFaults \in Nat
    BY SwiftAssumption DEF Counted
  <2>2. nfaults' = nfaults \/ Fault
    BY DEF Next, Reconcile, ReconcileGone, ReconcileNew, ReconcileDelete, ReconcileNormal,
       Begin, GetConf, EnsureConf, ConfMetaData, ReleaseConf, PatchInstance, CreateOrUpdate,
       CheckGeneration, Rest, Users, Edit, DeleteSwift, DeleteConf, WriteData, Informers,
       SyncCR, SyncConf, SyncSub, SubControllers, SubReconcile, SubReady, SubDegrade,
       CallFails, Crash, vars
  <2>. QED  BY <2>1, <2>2 DEF Fault
<1>3. queued' \in BOOLEAN
  <2>1. queued' = queued \/ queued' = TRUE \/ queued' = FALSE \/ queued' = (queued \/ ctl.again)
    BY DEF Next, Reconcile, ReconcileGone, ReconcileNew, ReconcileDelete, ReconcileNormal,
       Begin, GetConf, EnsureConf, ConfMetaData, ReleaseConf, PatchInstance, CreateOrUpdate,
       CheckGeneration, Rest, Users, Edit, DeleteSwift, DeleteConf, WriteData, Informers,
       SyncCR, SyncConf, SyncSub, SubControllers, SubReconcile, SubReady, SubDegrade,
       CallFails, Crash, vars
  <2>. QED  BY <2>1 DEF Counted
<1>. QED  BY <1>1, <1>2, <1>3 DEF Counted

(* A step that keeps all that generations are about. *)
LEMMA GenFrame ==
  ASSUME GenInv, UNCHANGED <<seen, sub, subSeen, changes>>,
         cr'.gen = cr.gen, cr'.obs = cr.obs, cr'.spec = cr.spec,
         ctl'.pc # "idle" => ctl.pc # "idle" /\ ctl'.base = ctl.base
                               /\ ctl'.mem.gen = ctl.mem.gen /\ ctl'.mem.spec = ctl.mem.spec
                               /\ ctl'.mem.obs = ctl.mem.obs
  PROVE  GenInv'
<1>1. Behind(seen.gen, seen.spec)' /\ SubOrder'
  BY DEF GenInv, Behind, SubOrder
<1>2. ctl'.pc # "idle" => InOrder'
  BY DEF GenInv, InOrder, Behind
<1>. QED  BY <1>1, <1>2 DEF GenInv

(* Users keep the order of generations. *)
LEMMA GenUsers == ASSUME Shape, GenInv, Counted, Users PROVE GenInv'
<1>1. ASSUME NEW s \in Spec0, Edit(s) PROVE GenInv'
  <2>1. cr'.gen = cr.gen + 1 /\ cr'.obs = cr.obs /\ changes' = changes + 1 /\ changes \in Nat
    BY <1>1 DEF Edit, Change, Shape, CRShape, Counted
  <2>2. Behind(seen.gen, seen.spec)' /\ SubOrder' /\ (ctl'.pc # "idle" => InOrder')
    BY <1>1 DEF Edit, caches, GenInv, Behind, SubOrder, InOrder
  <2>3. /\ cr'.gen >= 1 /\ cr'.gen <= changes' + 1 /\ cr'.obs <= cr'.gen
        /\ seen.gen <= cr'.gen /\ seen.gen # cr'.gen
    BY <2>1, GenTypes DEF GenInv
  <2>. QED  BY <1>1, <2>2, <2>3 DEF Edit, caches, GenInv
<1>2. CASE DeleteSwift \/ DeleteConf \/ WriteData
  <2>1. cr'.gen = cr.gen /\ cr'.obs = cr.obs /\ cr'.spec = cr.spec
    BY <1>2 DEF DeleteSwift, DeleteConf, WriteData, Shape, CRShape
  <2>2. UNCHANGED <<seen, sub, subSeen, ctl>> /\ (changes' = changes \/ changes' = changes + 1)
    BY <1>2 DEF DeleteSwift, DeleteConf, WriteData, Change, caches
  <2>3. Behind(seen.gen, seen.spec)' /\ SubOrder' /\ (ctl'.pc # "idle" => InOrder')
    BY <2>2 DEF GenInv, Behind, SubOrder, InOrder
  <2>4. cr'.gen <= changes' + 1
    BY <2>1, <2>2, GenTypes DEF GenInv, Counted
  <2>. QED  BY <2>1, <2>2, <2>3, <2>4 DEF GenInv
<1>. QED  BY <1>1, <1>2 DEF Users

(* Caches show an earlier or the present generation. *)
LEMMA GenInformers == ASSUME Shape, GenInv, Informers PROVE GenInv'
<1>1. CASE SyncCR
  <2>1. seen' = cr /\ UNCHANGED <<cr, sub, subSeen, ctl, changes>>
    BY <1>1 DEF SyncCR, objects
  <2>2. Behind(seen.gen, seen.spec)'
    <3> SUFFICES ASSUME NEW k \in Kinds
                 PROVE  sub[k].gen <= cr.gen /\ (sub[k].gen = cr.gen => sub[k].spec = Wanted(k, cr.spec))
      BY <2>1 DEF Behind
    <3>1. sub[k].gen <= seen.gen /\ seen.gen <= cr.gen
      BY DEF GenInv, Behind
    <3>2. sub[k].gen = cr.gen => sub[k].gen = seen.gen /\ seen.gen = cr.gen
      BY <3>1, GenTypes
    <3>. QED  BY <3>1, <3>2, GenTypes DEF GenInv, Behind
  <2>3. ASSUME ctl.pc # "idle" PROVE InOrder'
    <3>1. ctl.mem.gen <= cr.gen /\ (ctl.mem.gen = cr.gen => ctl.mem.spec = cr.spec)
      <4>1. ctl.mem.gen <= seen.gen /\ seen.gen <= cr.gen
        BY <2>3 DEF GenInv, InOrder
      <4>2. ctl.mem.gen = cr.gen => ctl.mem.gen = seen.gen /\ seen.gen = cr.gen
        BY <2>3, <4>1, GenTypes
      <4>. QED  BY <2>3, <4>1, <4>2, GenTypes DEF GenInv, InOrder
    <3>. QED  BY <2>1, <2>3, <3>1 DEF GenInv, InOrder, Behind
  <2>4. SubOrder'
    BY <2>1 DEF GenInv, SubOrder
  <2>. QED  BY <2>1, <2>2, <2>3, <2>4, GenTypes DEF GenInv
<1>2. CASE SyncConf
  BY <1>2, GenFrame DEF SyncConf, objects
<1>3. ASSUME NEW k \in Kinds, SyncSub(k) PROVE GenInv'
  <2>1. /\ \A j \in Kinds : subSeen'[j] = IF j = k THEN sub[k] ELSE subSeen[j]
        /\ UNCHANGED <<cr, seen, sub, ctl, changes>>
    BY <1>3 DEF SyncSub, objects, Shape
  <2>2. SubOrder'
    BY <2>1, GenTypes DEF GenInv, SubOrder
  <2>3. Behind(seen.gen, seen.spec)' /\ (ctl'.pc # "idle" => InOrder')
    BY <2>1 DEF GenInv, Behind, InOrder
  <2>. QED  BY <2>1, <2>2, <2>3 DEF GenInv
<1>. QED  BY <1>1, <1>2, <1>3 DEF Informers

(* Sub-controllers observe generations that exist. *)
LEMMA GenSubControllers ==
  ASSUME Shape, GenInv, Counted, NEW k \in Kinds, SubReconcile(k) \/ SubReady(k) \/ SubDegrade(k)
  PROVE  GenInv'
<1>1. /\ \A j \in Kinds : /\ sub'[j].gen = sub[j].gen /\ sub'[j].spec = sub[j].spec
                          /\ sub'[j].obs \in {sub[j].obs, sub[j].gen}
      /\ UNCHANGED <<cr, seen, subSeen, ctl>>
      /\ changes' = changes \/ changes' = changes + 1
  BY DEF SubReconcile, SubReady, SubDegrade, Change, caches, Shape, SubShape
<1>2. SubOrder'
  BY <1>1, GenTypes DEF GenInv, SubOrder
<1>3. Behind(seen.gen, seen.spec)' /\ (ctl'.pc # "idle" => InOrder')
  BY <1>1 DEF GenInv, Behind, InOrder
<1>4. cr.gen <= changes' + 1
  BY <1>1, GenTypes DEF GenInv, Counted
<1>. QED  BY <1>1, <1>2, <1>3, <1>4 DEF GenInv

(* A reconcile works for the generation it has read. *)
LEMMA GenBegin ==
  ASSUME Shape, GenInv, NEW pc \in Points, NEW fin \in BOOLEAN, Begin(pc, fin)
  PROVE  GenInv'
<1>1. /\ ctl'.base = seen /\ ctl'.mem.gen = seen.gen /\ ctl'.mem.obs = seen.gen
      /\ ctl'.mem.spec = seen.spec
  BY DEF Begin, Shape, CRShape
<1>2. UNCHANGED <<cr, seen, sub, subSeen, changes>>
  BY DEF Begin, objects, caches
<1>3. InOrder'
  BY <1>1, <1>2, GenTypes DEF GenInv, InOrder, Behind
<1>. QED  BY <1>2, <1>3 DEF GenInv, Behind, SubOrder

(* The steps on swift-conf and a failing call touch no generation. *)
LEMMA GenConf ==
  ASSUME Shape, GenInv, GetConf \/ EnsureConf \/ ConfMetaData \/ ReleaseConf \/ CallFails
  PROVE  GenInv'
<1>1. UNCHANGED <<cr, seen, sub, subSeen, changes>> /\ ctl.pc # "idle"
  BY DEF GetConf, EnsureConf, ConfMetaData, ReleaseConf, CallFails, Rest, caches, objects
<1>2. CASE ReleaseConf
  <2>1. ctl' = [ctl EXCEPT !.pc = "patch", !.mem.fin = FALSE]
    BY <1>2 DEF ReleaseConf
  <2>2. /\ ctl'.base = ctl.base /\ ctl'.mem.gen = ctl.mem.gen
        /\ ctl'.mem.spec = ctl.mem.spec /\ ctl'.mem.obs = ctl.mem.obs
    BY <2>1, <1>1 DEF Shape, CtlShape, CRShape
  <2>. QED  BY <1>1, <2>2, GenFrame
<1>3. CASE GetConf \/ EnsureConf \/ ConfMetaData \/ CallFails
  <2>1. PICK p \in Points : Goto(p) \/ (p = "patch" /\ Requeue)
    BY <1>3, PointsListed DEF GetConf, EnsureConf, ConfMetaData, CallFails
  <2>2. ctl'.base = ctl.base /\ ctl'.mem = ctl.mem
    BY <1>1, <2>1, GotoFacts
  <2>. QED  BY <1>1, <2>2, GenFrame
<1>. QED  BY <1>2, <1>3

(* What CreateOrUpdate does to sub-CRs: it writes one that differs, with   *)
(* the next generation.                                                    *)
SubWritten(k) ==
    LET want == Wanted(k, ctl.mem.spec) IN
    /\ sub[k].spec # want
    /\ sub'[k].spec = want /\ sub'[k].gen = sub[k].gen + 1 /\ sub'[k].obs = sub[k].obs
    /\ \A j \in Kinds \ {k} : sub'[j] = sub[j]

(* CreateOrUpdate writes one sub-CR at most and goes on or returns. *)
LEMMA CreateFacts ==
  ASSUME Shape, NEW k \in Kinds, CreateOrUpdate(k)
  PROVE  /\ sub' = sub \/ SubWritten(k)
         /\ ctl.pc = k /\ ctl.pc # "idle" /\ ctl'.pc \in {Gens[k], "patch"}
         /\ ctl'.base = ctl.base /\ ctl'.mem = ctl.mem /\ ctl'.ok = ctl.ok
         /\ UNCHANGED <<cr, seen, subSeen, changes>>
         /\ "sub" \notin Lag /\ ctl'.pc = Gens[k] => sub'[k].spec = Wanted(k, ctl.mem.spec)
<1>1. ctl.pc = k /\ ctl.pc # "idle"
  BY PointsListed DEF CreateOrUpdate, Kinds
<1>2. UNCHANGED <<cr, seen, subSeen, changes>>
  BY DEF CreateOrUpdate, Rest, caches
<1>3. /\ ctl'.pc \in {Gens[k], "patch"}
      /\ ctl'.base = ctl.base /\ ctl'.mem = ctl.mem /\ ctl'.ok = ctl.ok
  BY DEF CreateOrUpdate, Requeue, Shape, CtlShape
<1>4. sub' = sub \/ SubWritten(k)
  <2> DEFINE want == Wanted(k, ctl.mem.spec)
  <2> DEFINE g == sub[k].gen + 1
  <2>1. \/ sub' = sub
        \/ /\ subSeen[k].spec # want /\ subSeen[k] = sub[k]
           /\ sub' = [sub EXCEPT ![k].exists = TRUE, ![k].spec = want, ![k].gen = g]
    BY DEF CreateOrUpdate
  <2>2. SubWritten(k) <=> /\ sub[k].spec # want
                          /\ sub'[k].spec = want /\ sub'[k].gen = g /\ sub'[k].obs = sub[k].obs
                          /\ \A j \in Kinds \ {k} : sub'[j] = sub[j]
    BY DEF SubWritten
  <2>3. sub \in [Kinds -> SubShape] /\ sub[k] \in SubShape
    BY DEF Shape
  <2> HIDE DEF want, g
  <2>4. ASSUME sub' = [sub EXCEPT ![k].exists = TRUE, ![k].spec = want, ![k].gen = g]
        PROVE  /\ sub'[k].spec = want /\ sub'[k].gen = g /\ sub'[k].obs = sub[k].obs
               /\ \A j \in Kinds \ {k} : sub'[j] = sub[j]
    BY <2>3, <2>4 DEF SubShape
  <2>. QED  BY <2>1, <2>2, <2>4
<1>5. ASSUME "sub" \notin Lag, ctl'.pc = Gens[k] PROVE sub'[k].spec = Wanted(k, ctl.mem.spec)
  <2>1. subSeen[k] = sub[k]
    BY <1>5 DEF CreateOrUpdate, FreshSub
  <2>2. Gens[k] # "patch"
    BY PointsListed
  <2>3. CASE Requeue
    BY <1>1, <1>5, <2>2, <2>3, GotoFacts, PointsListed
  <2>4. CASE subSeen[k].spec = Wanted(k, ctl.mem.spec) /\ UNCHANGED sub
    BY <2>1, <2>4
  <2>5. CASE sub' # sub
    BY <1>4, <2>5 DEF SubWritten
  <2>6. \/ subSeen[k].spec = Wanted(k, ctl.mem.spec) /\ UNCHANGED sub
        \/ sub' = [sub EXCEPT ![k].exists = TRUE, ![k].spec = Wanted(k, ctl.mem.spec),
                              ![k].gen = @ + 1]
        \/ Requeue
    BY Zenon DEF CreateOrUpdate
  <2>7. ASSUME sub' = sub, subSeen[k].spec # Wanted(k, ctl.mem.spec)
        PROVE  Requeue
    BY <2>1, <2>6, <2>7 DEF Shape, SubShape
  <2>. QED  BY <2>3, <2>4, <2>5, <2>6, <2>7
<1>. QED  BY <1>1, <1>2, <1>3, <1>4, <1>5

(* A sub-CR that is written was behind the reconcile's generation. *)
LEMMA GenCreateOrUpdate ==
  ASSUME Shape, GenInv, NEW k \in Kinds, CreateOrUpdate(k)
  PROVE  GenInv'
<1>1. /\ ctl.pc # "idle" /\ ctl'.base = ctl.base /\ ctl'.mem = ctl.mem
      /\ UNCHANGED <<cr, seen, subSeen, changes>>
  BY CreateFacts
<1>2. CASE sub' = sub
  BY <1>1, <1>2, GenFrame
<1>3. CASE SubWritten(k)
  <2>1. InOrder /\ Behind(seen.gen, seen.spec) /\ SubOrder
    BY <1>1 DEF GenInv
  <2>2. ctl.mem.gen \in Nat /\ seen.gen \in Nat
        /\ \A j \in Kinds : sub[j].gen \in Nat /\ sub[j].obs \in Nat
                              /\ subSeen[j].gen \in Nat /\ subSeen[j].obs \in Nat
    BY <1>1, GenTypes
  <2>3. sub[k].gen < ctl.mem.gen
    BY <1>3, <2>1, <2>2 DEF InOrder, Behind, SubWritten
  <2>4. Behind(ctl.mem.gen, ctl.mem.spec)'
    <3> SUFFICES ASSUME NEW j \in Kinds
                 PROVE  /\ sub'[j].gen <= ctl.mem.gen
                        /\ sub'[j].gen = ctl.mem.gen => sub'[j].spec = Wanted(j, ctl.mem.spec)
      BY <1>1 DEF Behind
    <3>1. CASE j = k
      BY <3>1, <1>3, <2>2, <2>3 DEF SubWritten
    <3>2. CASE j # k
      BY <3>2, <1>3, <2>1 DEF SubWritten, InOrder, Behind
    <3>. QED  BY <3>1, <3>2
  <2>5. Behind(seen.gen, seen.spec)'
    <3> SUFFICES ASSUME NEW j \in Kinds
                 PROVE  /\ sub'[j].gen <= seen.gen
                        /\ sub'[j].gen = seen.gen => sub'[j].spec = Wanted(j, seen.spec)
      BY <1>1 DEF Behind
    <3>1. CASE j = k
      <4>1. ctl.mem.gen <= seen.gen /\ (ctl.mem.gen = seen.gen => ctl.mem.spec = seen.spec)
        BY <2>1 DEF InOrder
      <4>2. sub'[k].gen = sub[k].gen + 1 /\ sub'[k].spec = Wanted(k, ctl.mem.spec)
        BY <1>3 DEF SubWritten
      <4>3. sub'[k].gen <= seen.gen /\ (sub'[k].gen = seen.gen => ctl.mem.gen = seen.gen)
        BY <2>2, <2>3, <4>1, <4>2
      <4>. QED  BY <3>1, <4>1, <4>2, <4>3
    <3>2. CASE j # k
      BY <3>2, <1>3, <2>1 DEF SubWritten, Behind
    <3>. QED  BY <3>1, <3>2
  <2>6. SubOrder'
    <3> SUFFICES ASSUME NEW j \in Kinds
                 PROVE  /\ sub'[j].obs <= sub'[j].gen
                        /\ subSeen[j].gen <= sub'[j].gen /\ subSeen[j].obs <= subSeen[j].gen
      BY <1>1 DEF SubOrder
    <3>1. sub'[j].obs = sub[j].obs /\ (sub'[j].gen = sub[j].gen \/ sub'[j].gen = sub[j].gen + 1)
      BY <1>3 DEF SubWritten
    <3>. QED  BY <2>1, <2>2, <3>1 DEF SubOrder
  <2>7. InOrder'
    BY <1>1, <2>1, <2>4 DEF InOrder
  <2>. QED  BY <1>1, <2>5, <2>6, <2>7 DEF GenInv
<1>. QED  BY <1>2, <1>3, CreateFacts

(* What looking at generations does. *)
LEMMA CheckFacts ==
  ASSUME Shape, NEW k \in Kinds, CheckGeneration(k)
  PROVE  /\ ctl.pc = Gens[k] /\ ctl.pc # "idle" /\ ctl'.pc = After(k)
         /\ ctl'.base = ctl.base /\ ctl'.mem.gen = ctl.mem.gen
         /\ ctl'.mem.spec = ctl.mem.spec /\ ctl'.mem.obs = ctl.mem.obs
         /\ UNCHANGED <<cr, seen, sub, subSeen, changes>>
         /\ ctl'.ok => ctl.ok /\ subSeen[k].gen = subSeen[k].obs
         /\ ctl'.mem.ready = (k = "proxy" /\ ctl'.ok)
<1> DEFINE ok == ctl.ok /\ ctl.got /\ subSeen[k].gen = subSeen[k].obs
<1> DEFINE m == [ctl.mem EXCEPT !.ready = k = "proxy" /\ ok]
<1>1. ctl.pc = Gens[k] /\ ctl.pc # "idle"
  BY PointsListed DEF CheckGeneration
<1>2. ctl' = [ctl EXCEPT !.pc = After(k), !.ok = ok, !.mem = m]
  BY DEF CheckGeneration
<1>3. /\ m.gen = ctl.mem.gen /\ m.spec = ctl.mem.spec /\ m.obs = ctl.mem.obs
      /\ m.ready = (k = "proxy" /\ ok)
  BY <1>1 DEF Shape, CRShape
<1>4. /\ UNCHANGED <<cr, seen, sub, subSeen, changes>>
      /\ ok => ctl.ok /\ subSeen[k].gen = subSeen[k].obs
  BY DEF CheckGeneration, Rest, caches, objects
<1> HIDE DEF ok, m
<1>5. ctl'.pc = After(k) /\ ctl'.ok = ok /\ ctl'.mem = m /\ ctl'.base = ctl.base
  BY <1>2 DEF Shape, CtlShape
<1>. QED  BY <1>1, <1>3, <1>4, <1>5

(* The final patch records the generation that the reconcile worked for. *)
LEMMA GenPatch ==
  ASSUME Shape, GenInv, PatchInstance
  PROVE  /\ GenInv'
         /\ ctl'.pc = "idle" /\ UNCHANGED <<seen, sub, subSeen>>
         /\ cr'.gen = cr.gen /\ cr'.spec = cr.spec
         /\ cr'.obs = IF cr.exists /\ ctl.mem.obs # ctl.base.obs THEN ctl.mem.obs ELSE cr.obs
         /\ cr'.ready = IF cr.exists /\ ctl.mem.ready # ctl.base.ready
                        THEN ctl.mem.ready ELSE cr.ready
<1>1. ctl.pc # "idle" /\ ctl'.pc = "idle" /\ UNCHANGED <<seen, sub, subSeen, changes>>
  BY PatchFacts DEF PatchInstance, caches
<1> DEFINE new == Merge(cr, ctl.base, ctl.mem)
<1>2. /\ new \in CRShape /\ new.gen = cr.gen /\ new.spec = cr.spec
      /\ new.obs = IF ctl.mem.obs # ctl.base.obs THEN ctl.mem.obs ELSE cr.obs
      /\ new.ready = IF ctl.mem.ready # ctl.base.ready THEN ctl.mem.ready ELSE cr.ready
  BY <1>1, MergeType DEF Shape
<1>3. cr' = IF cr.exists THEN [new EXCEPT !.exists = ~(new.del /\ ~new.fin)] ELSE cr
  BY DEF PatchInstance
<1> HIDE DEF new
<1>4. cr' = cr \/ (cr.exists /\ cr'.gen = new.gen /\ cr'.spec = new.spec
                     /\ cr'.obs = new.obs /\ cr'.ready = new.ready)
  BY <1>2, <1>3 DEF CRShape
<1>5. /\ cr'.gen = cr.gen /\ cr'.spec = cr.spec
      /\ cr'.obs = IF cr.exists /\ ctl.mem.obs # ctl.base.obs THEN ctl.mem.obs ELSE cr.obs
      /\ cr'.ready = IF cr.exists /\ ctl.mem.ready # ctl.base.ready
                     THEN ctl.mem.ready ELSE cr.ready
  <2>1. CASE cr.exists
    <3>1. cr'.gen = new.gen /\ cr'.spec = new.spec /\ cr'.obs = new.obs /\ cr'.ready = new.ready
      BY <1>2, <1>3, <2>1 DEF CRShape
    <3>. QED  BY <1>2, <2>1, <3>1
  <2>2. CASE ~cr.exists
    BY <1>3, <2>2
  <2>. QED  BY <2>1, <2>2
<1>6. cr'.obs <= cr.gen
  <2>1. ctl.mem.obs = ctl.mem.gen /\ ctl.mem.gen <= seen.gen /\ seen.gen <= cr.gen /\ cr.obs <= cr.gen
    BY <1>1 DEF GenInv, InOrder
  <2>2. ctl.mem.obs <= cr.gen
    BY <1>1, <2>1, GenTypes
  <2>. QED  BY <1>5, <2>1, <2>2
<1>7. Behind(seen.gen, seen.spec)' /\ SubOrder'
  BY <1>1 DEF GenInv, Behind, SubOrder
<1>. QED  BY <1>1, <1>5, <1>6, <1>7 DEF GenInv

(* A restart lists the current objects. *)
LEMMA GenCrash ==
  ASSUME Shape, GenInv, Crash
  PROVE  GenInv'
<1>1. seen' = cr /\ subSeen' = sub /\ UNCHANGED <<cr, sub, changes>> /\ ctl'.pc = "idle"
  BY DEF Crash, objects, Idle
<1>2. Behind(seen.gen, seen.spec)'
  <2> SUFFICES ASSUME NEW k \in Kinds
               PROVE  sub[k].gen <= cr.gen /\ (sub[k].gen = cr.gen => sub[k].spec = Wanted(k, cr.spec))
    BY <1>1 DEF Behind
  <2>1. sub[k].gen <= seen.gen /\ seen.gen <= cr.gen
    BY DEF GenInv, Behind
  <2>2. sub[k].gen = cr.gen => sub[k].gen = seen.gen /\ seen.gen = cr.gen
    BY <2>1, GenTypes
  <2>. QED  BY <2>1, <2>2, GenTypes DEF GenInv, Behind
<1>3. SubOrder'
  BY <1>1, GenTypes DEF GenInv, SubOrder
<1>. QED  BY <1>1, <1>2, <1>3, GenTypes DEF GenInv

(* Generations stay in order over every step, whatever caches lag. *)
LEMMA GenNext == Shape /\ Counted /\ GenInv /\ [Next]_vars => GenInv'
<1> SUFFICES ASSUME Shape, Counted, GenInv, [Next]_vars PROVE GenInv'
  OBVIOUS
<1>1. CASE UNCHANGED vars
  BY <1>1, GenFrame DEF vars
<1>2. CASE ReconcileGone
  BY <1>2, GenFrame DEF ReconcileGone, objects, caches
<1>3. CASE ReconcileNew \/ ReconcileDelete \/ ReconcileNormal
  <2>1. PICK pc \in Points, fin \in BOOLEAN : Begin(pc, fin)
    <3>1. seen.fin \in BOOLEAN /\ "patch" \in Points /\ "delete" \in Points /\ "conf" \in Points
      BY PointsListed DEF Shape, CRShape
    <3>. QED  BY <1>3, <3>1 DEF ReconcileNew, ReconcileDelete, ReconcileNormal
  <2>. QED  BY <2>1, GenBegin
<1>4. ASSUME NEW k \in Kinds, CheckGeneration(k) PROVE GenInv'
  BY <1>4, CheckFacts, GenFrame
<1>. QED  BY <1>1, <1>2, <1>3, <1>4, GenUsers, GenInformers, GenSubControllers, GenConf,
             GenCreateOrUpdate, GenPatch, GenCrash DEF Next, Reconcile, SubControllers

----------------------------------------------------------------------------
(* The objects, the caches and the reconcile in flight keep their types    *)
(* over every schedule, and no sub-CR is ever rewritten for a generation   *)
(* of the Swift CR it already has (CreateOrUpdate compares before it       *)
(* writes), whichever informer caches lag behind.                          *)
THEOREM SwiftTypes == Spec => []TypeOK
<1>1. Shape /\ Counted /\ GenInv => TypeOK
  <2> SUFFICES ASSUME Shape, Counted, GenInv PROVE TypeOK
    OBVIOUS
  <2>1. MaxGen \in Nat /\ changes + 1 <= MaxGen /\ changes \in Nat
    BY SwiftAssumption DEF Counted, MaxGen
  <2>2. cr.gen \in 1..MaxGen /\ cr.obs \in 0..MaxGen /\ seen.gen \in 1..MaxGen /\ seen.obs \in 0..MaxGen
    BY <2>1, GenTypes DEF GenInv
  <2>3. cr \in CRType /\ seen \in CRType
    BY <2>2 DEF Shape, CRShape, CRType
  <2>4. ASSUME ctl.pc # "idle" PROVE ctl.base \in CRType /\ ctl.mem \in CRType
    <3>1. /\ ctl.mem.gen <= seen.gen /\ ctl.mem.gen >= 1 /\ ctl.mem.obs = ctl.mem.gen
          /\ ctl.base.gen = ctl.mem.gen /\ ctl.base.obs <= ctl.base.gen
      BY <2>4 DEF GenInv, InOrder
    <3>2. /\ ctl.mem.gen \in 1..MaxGen /\ ctl.mem.obs \in 0..MaxGen
          /\ ctl.base.gen \in 1..MaxGen /\ ctl.base.obs \in 0..MaxGen
      BY <2>1, <2>2, <2>4, <3>1, GenTypes
    <3>. QED  BY <2>4, <3>2 DEF Shape, CRShape, CRType
  <2>5. ASSUME NEW k \in Kinds
        PROVE  sub[k] \in SubType /\ subSeen[k] \in SubType /\ sub[k].gen <= cr.gen
    <3>1. /\ sub[k].gen <= seen.gen /\ seen.gen <= cr.gen /\ sub[k].obs <= sub[k].gen
          /\ subSeen[k].gen <= sub[k].gen /\ subSeen[k].obs <= subSeen[k].gen
      BY DEF GenInv, Behind, SubOrder
    <3>2. /\ sub[k].gen \in 0..MaxGen /\ sub[k].obs \in 0..MaxGen /\ sub[k].gen <= cr.gen
          /\ subSeen[k].gen \in 0..MaxGen /\ subSeen[k].obs \in 0..MaxGen
      BY <2>1, <2>2, <3>1, GenTypes
    <3>3. sub[k] \in SubShape /\ subSeen[k] \in SubShape
      BY DEF Shape
    <3>. QED  BY <3>2, <3>3 DEF SubShape, SubType
  <2>6. sub \in [Kinds -> SubType] /\ subSeen \in [Kinds -> SubType]
    BY <2>5 DEF Shape
  <2>7. ctl.pc \in Points
    BY DEF Shape, CtlShape
  <2>. QED  BY <2>3, <2>4, <2>5, <2>6, <2>7 DEF TypeOK, Shape, Counted
<1>. QED  BY <1>1, ShapeInit, ShapeNext, GenInit, CountedNext, GenNext, PTL DEF Spec

----------------------------------------------------------------------------
(* A reconcile that works for a generation the status already records      *)
(* works for the current spec.                                             *)
LEMMA SameSpec ==
  ASSUME Shape, GenInv, ReadyInv, ctl.pc # "idle", ctl.mem.gen = cr.gen \/ cr.obs = cr.gen
  PROVE  ctl.mem.gen = cr.gen /\ ctl.mem.spec = cr.spec
<1>1. /\ ctl.mem.gen <= seen.gen /\ seen.gen <= cr.gen
      /\ ctl.mem.gen = seen.gen => ctl.mem.spec = seen.spec
      /\ seen.gen = cr.gen => seen.spec = cr.spec
  BY DEF GenInv, InOrder
<1>2. cr.obs <= ctl.mem.gen
  BY DEF ReadyInv, Mirrored
<1>3. ctl.mem.gen = seen.gen /\ seen.gen = cr.gen
  BY <1>1, <1>2, GenTypes
<1>. QED  BY <1>1, <1>3

(* ReadyMeansCurrent in the terms of the invariant. *)
LEMMA ReadyAgain ==
  /\ ReadyMeansCurrent <=> (cr.ready /\ cr.obs = cr.gen =>
                               \A k \in Enabled(cr.spec) : Current(k, cr.spec))
  /\ \A s : Enabled(s) \subseteq Kinds
BY DEF ReadyMeansCurrent, EnabledKinds, Enabled, Current

(* A step that writes neither status nor specs, with sub-CRs that catch    *)
(* up; the reconcile stays where it is, or is still before the sub-CRs, or *)
(* gives up.                                                               *)
LEMMA ReadyFrame ==
  ASSUME ReadyInv,
         cr'.ready = cr.ready, cr'.obs = cr.obs,
         (cr'.gen = cr.gen /\ cr'.spec = cr.spec) \/ cr'.obs # cr'.gen,
         \A k \in Kinds : /\ sub'[k].spec = sub[k].spec
                          /\ sub[k].obs = sub[k].gen => sub'[k].obs = sub'[k].gen,
         \/ ctl' = ctl \/ ctl'.pc = "idle"
         \/ /\ ctl.pc \notin {"idle", "patch"} /\ ctl'.base = ctl.base
            /\ ctl'.mem.gen = ctl.mem.gen /\ ctl'.mem.spec = ctl.mem.spec
            /\ ctl'.mem.ready = ctl.mem.ready
            /\ ctl'.pc \in {"conf", "ensure", "meta", "delete", "patch", "storage"}
  PROVE  ReadyInv'
<1>1. \A k \in Kinds : \A s : Current(k, s) => Current(k, s)'
  BY DEF Current
<1>2. ReadyMeansCurrent'
  <2> SUFFICES ASSUME cr'.ready, cr'.obs = cr'.gen, NEW k \in EnabledKinds'
               PROVE  sub'[k].spec = Wanted(k, cr'.spec) /\ sub'[k].obs = sub'[k].gen
    BY DEF ReadyMeansCurrent
  <2>1. cr.ready /\ cr.obs = cr.gen /\ cr'.spec = cr.spec /\ k \in EnabledKinds /\ k \in Kinds
    BY DEF EnabledKinds
  <2>. QED  BY <2>1 DEF ReadyInv, ReadyMeansCurrent
<1>3. ASSUME ctl' = ctl, ctl.pc # "idle" PROVE Mirrored'
  <2>1. /\ ctl'.base.obs = cr'.obs /\ ctl'.base.ready = cr'.ready /\ cr'.obs <= ctl'.mem.gen
        /\ ctl'.pc # "patch" => ctl'.mem.ready = FALSE
    BY <1>3 DEF ReadyInv, Mirrored
  <2>2. ctl'.mem.ready => \A k \in Enabled(ctl'.mem.spec) : Current(k, ctl.mem.spec)'
    BY <1>1, <1>3, ReadyAgain DEF ReadyInv, Mirrored
  <2>3. ctl'.ok => \A k \in Passed' : Current(k, ctl.mem.spec)'
    <3>1. Passed' = Passed /\ \A k \in Passed : k \in Kinds
      BY <1>3, ReadyAgain DEF Passed
    <3>. QED  BY <1>1, <1>3, <3>1 DEF ReadyInv, Mirrored
  <2>4. \A k \in Kinds : ctl'.pc = Gens[k] => sub'[k].spec = Wanted(k, ctl'.mem.spec)
    BY <1>3 DEF ReadyInv, Mirrored
  <2>. QED  BY <2>1, <2>2, <2>3, <2>4 DEF Mirrored
<1>4. ASSUME ctl' # ctl, ctl'.pc # "idle" PROVE Mirrored'
  <2>1. /\ ctl'.base.obs = cr'.obs /\ ctl'.base.ready = cr'.ready /\ cr'.obs <= ctl'.mem.gen
        /\ ctl'.mem.ready = FALSE
    BY <1>4 DEF ReadyInv, Mirrored
  <2>2. Passed' = {} /\ \A k \in Kinds : ctl'.pc # Gens[k]
    BY <1>4, PointsListed DEF Passed, Kinds, Gens
  <2>. QED  BY <2>1, <2>2 DEF Mirrored
<1>. QED  BY <1>2, <1>3, <1>4 DEF ReadyInv

(* Users, informers and sub-controllers. *)
LEMMA ReadyWorld ==
  ASSUME Shape, GenInv, ReadyInv, Users \/ Informers \/ SubControllers
  PROVE  ReadyInv'
<1>1. ASSUME NEW s \in Spec0, Edit(s) PROVE ReadyInv'
  <2>1. /\ cr'.ready = cr.ready /\ cr'.obs = cr.obs /\ cr'.gen = cr.gen + 1
        /\ UNCHANGED <<sub, ctl>>
    BY <1>1 DEF Edit, Shape, CRShape
  <2>2. cr'.obs # cr'.gen
    BY <2>1, GenTypes DEF GenInv
  <2>. QED  BY <2>1, <2>2, ReadyFrame
<1>2. CASE DeleteSwift \/ DeleteConf \/ WriteData
  <2>1. /\ cr'.ready = cr.ready /\ cr'.obs = cr.obs /\ cr'.gen = cr.gen /\ cr'.spec = cr.spec
        /\ UNCHANGED <<sub, ctl>>
    BY <1>2 DEF DeleteSwift, DeleteConf, WriteData, Shape, CRShape
  <2>. QED  BY <2>1, ReadyFrame
<1>3. CASE Informers
  <2>1. UNCHANGED <<cr, sub, ctl>>
    BY <1>3 DEF Informers, SyncCR, SyncConf, SyncSub, objects
  <2>. QED  BY <2>1, ReadyFrame
<1>4. ASSUME NEW k \in Kinds, SubReconcile(k) \/ SubReady(k) \/ SubDegrade(k) PROVE ReadyInv'
  <2>1. /\ \A j \in Kinds : /\ sub'[j].spec = sub[j].spec
                            /\ sub[j].obs = sub[j].gen => sub'[j].obs = sub'[j].gen
        /\ UNCHANGED <<cr, ctl>>
    BY <1>4 DEF SubReconcile, SubReady, SubDegrade, Shape, SubShape
  <2>. QED  BY <2>1, ReadyFrame
<1>. QED  BY <1>1, <1>2, <1>3, <1>4 DEF Users, SubControllers

(* A reconcile starts from the current instance and resets Ready. *)
LEMMA ReadyBegin ==
  ASSUME "cr" \notin Lag, Shape, GenInv, ReadyInv,
         NEW pc \in {"patch", "delete", "conf"}, NEW fin \in BOOLEAN, Begin(pc, fin)
  PROVE  ReadyInv'
<1>1. seen = cr /\ UNCHANGED <<cr, sub>>
  BY DEF Begin, objects
<1>2. /\ ctl'.base = seen /\ ctl'.mem.gen = seen.gen
      /\ ctl'.mem.ready = FALSE /\ ctl'.pc = pc
  BY DEF Begin, Shape, CRShape
<1>3. ReadyMeansCurrent'
  BY <1>1 DEF ReadyInv, ReadyMeansCurrent, EnabledKinds
<1>4. Passed' = {} /\ \A k \in Kinds : ctl'.pc # Gens[k]
  BY <1>2 DEF Passed, Kinds, Gens
<1>5. Mirrored'
  BY <1>1, <1>2, <1>4 DEF Mirrored, GenInv
<1>. QED  BY <1>3, <1>5 DEF ReadyInv

(* The steps on swift-conf, a failing call and a restart. *)
LEMMA ReadyConf ==
  ASSUME Shape, ReadyInv,
         GetConf \/ EnsureConf \/ ConfMetaData \/ ReleaseConf \/ CallFails \/ Crash
  PROVE  ReadyInv'
<1>1. UNCHANGED <<cr, sub>>
  BY DEF GetConf, EnsureConf, ConfMetaData, ReleaseConf, CallFails, Crash, objects
<1>2. CASE ReleaseConf
  <2>1. ctl' = [ctl EXCEPT !.pc = "patch", !.mem.fin = FALSE] /\ ctl.pc = "delete"
    BY <1>2 DEF ReleaseConf
  <2>2. /\ ctl'.base = ctl.base /\ ctl'.mem.gen = ctl.mem.gen /\ ctl'.pc = "patch"
        /\ ctl'.mem.spec = ctl.mem.spec /\ ctl'.mem.ready = ctl.mem.ready
    BY <2>1 DEF Shape, CtlShape, CRShape
  <2>. QED  BY <1>1, <2>1, <2>2, ReadyFrame
<1>3. CASE GetConf \/ EnsureConf \/ ConfMetaData \/ CallFails
  <2>1. ctl.pc \notin {"idle", "patch"}
    BY <1>3 DEF GetConf, EnsureConf, ConfMetaData, CallFails
  <2>2. PICK p \in {"ensure", "meta", "patch", "storage"} : Goto(p) \/ (p = "patch" /\ Requeue)
    BY <1>3 DEF GetConf, EnsureConf, ConfMetaData, CallFails
  <2>3. p \in Points
    BY <2>2, PointsListed
  <2>4. ctl'.base = ctl.base /\ ctl'.mem = ctl.mem /\ ctl'.pc = p
    BY <2>1, <2>2, <2>3, GotoFacts
  <2>. QED  BY <1>1, <2>1, <2>2, <2>4, ReadyFrame
<1>4. CASE Crash
  <2>1. ctl'.pc = "idle"
    BY <1>4 DEF Crash, Idle
  <2>. QED  BY <1>1, <2>1, ReadyFrame
<1>. QED  BY <1>2, <1>3, <1>4

(* A sub-CR is written only when Ready is not recorded for the generation  *)
(* it is written for.                                                      *)
LEMMA ReadyCreateOrUpdate ==
  ASSUME "sub" \notin Lag, Shape, GenInv, ReadyInv, NEW k \in Kinds, CreateOrUpdate(k)
  PROVE  ReadyInv'
<1>1. /\ sub' = sub \/ SubWritten(k)
      /\ ctl.pc = k /\ ctl.pc # "idle" /\ ctl'.pc \in {Gens[k], "patch"}
      /\ ctl'.base = ctl.base /\ ctl'.mem = ctl.mem /\ ctl'.ok = ctl.ok
      /\ UNCHANGED cr
      /\ ctl'.pc = Gens[k] => sub'[k].spec = Wanted(k, ctl.mem.spec)
  BY CreateFacts
<1>2. Mirrored /\ ctl.pc # "patch"
  BY <1>1 DEF ReadyInv, Kinds
<1>3. ReadyMeansCurrent'
  <2> SUFFICES ASSUME cr.ready, cr.obs = cr.gen, NEW j \in Enabled(cr.spec)
               PROVE  sub'[j].spec = Wanted(j, cr.spec) /\ sub'[j].obs = sub'[j].gen
    BY <1>1 DEF ReadyMeansCurrent, EnabledKinds, Enabled
  <2>1. j \in Kinds /\ sub[j].spec = Wanted(j, cr.spec) /\ sub[j].obs = sub[j].gen
    BY ReadyAgain DEF ReadyInv, Current
  <2>2. ctl.mem.spec = cr.spec
    BY <1>1, SameSpec
  <2>3. sub'[j] = sub[j]
    BY <1>1, <2>1, <2>2 DEF SubWritten
  <2>. QED  BY <2>1, <2>3
<1>4. ctl'.ok => \A j \in Passed' : Current(j, ctl.mem.spec)'
  <2> SUFFICES ASSUME ctl.ok, NEW j \in Passed'
               PROVE  sub'[j].spec = Wanted(j, ctl.mem.spec) /\ sub'[j].obs = sub'[j].gen
    BY <1>1 DEF Current
  <2>1. j \in Passed /\ j # k /\ j \in Kinds
    BY <1>1, ReadyAgain DEF Passed, Kinds, Gens
  <2>2. sub'[j] = sub[j]
    BY <1>1, <2>1 DEF SubWritten
  <2>. QED  BY <1>2, <2>1, <2>2 DEF Mirrored, Current
<1>5. \A j \in Kinds : ctl'.pc = Gens[j] => sub'[j].spec = Wanted(j, ctl'.mem.spec)
  BY <1>1 DEF Kinds, Gens
<1>6. Mirrored'
  BY <1>1, <1>2, <1>4, <1>5 DEF Mirrored
<1>. QED  BY <1>3, <1>6 DEF ReadyInv

(* A sub-CR whose generation was looked at with success is current. *)
LEMMA ReadyCheckGeneration ==
  ASSUME "sub" \notin Lag, Shape, ReadyInv, NEW k \in Kinds, CheckGeneration(k)
  PROVE  ReadyInv'
<1>1. /\ ctl.pc = Gens[k] /\ ctl.pc # "idle" /\ ctl'.pc = After(k)
      /\ ctl'.base = ctl.base /\ ctl'.mem.gen = ctl.mem.gen
      /\ ctl'.mem.spec = ctl.mem.spec
      /\ UNCHANGED <<cr, sub>>
      /\ ctl'.ok => ctl.ok /\ subSeen[k].gen = subSeen[k].obs
      /\ ctl'.mem.ready = (k = "proxy" /\ ctl'.ok)
  BY CheckFacts
<1>2. Mirrored /\ subSeen[k] = sub[k]
  BY <1>1 DEF ReadyInv, CheckGeneration, FreshSub
<1>3. ReadyMeansCurrent'
  BY <1>1 DEF ReadyInv, ReadyMeansCurrent, EnabledKinds
<1>4. ASSUME ctl'.ok PROVE \A j \in Passed \cup {k} : Current(j, ctl.mem.spec)
  BY <1>1, <1>2, <1>4 DEF Mirrored, Current
<1>5. \A j \in Passed' : j \in Passed \cup {k}
  BY <1>1 DEF Passed, After, Kinds, Gens, Enabled
<1>6. k = "proxy" => \A j \in Enabled(ctl.mem.spec) : j \in Passed \cup {k}
  BY <1>1 DEF Passed, Kinds, Gens, Enabled
<1>7. \A j \in Kinds : Current(j, ctl.mem.spec) => Current(j, ctl.mem.spec)'
  BY <1>1 DEF Current
<1>8. (\A j \in Kinds : ctl'.pc # Gens[j]) /\ (ctl'.pc # "patch" => k # "proxy")
  BY <1>1 DEF After, Kinds, Gens
<1>9. ctl'.ok => \A j \in Passed' : Current(j, ctl.mem.spec)'
  BY <1>4, <1>5, <1>7, ReadyAgain DEF Passed
<1>10. ctl'.mem.ready => \A j \in Enabled(ctl'.mem.spec) : Current(j, ctl.mem.spec)'
  BY <1>1, <1>4, <1>6, <1>7, ReadyAgain
<1>11. ctl'.pc # "patch" => ctl'.mem.ready = FALSE
  BY <1>1, <1>8
<1>12. Mirrored'
  BY <1>1, <1>2, <1>8, <1>9, <1>10, <1>11 DEF Mirrored
<1>. QED  BY <1>3, <1>12 DEF ReadyInv

(* The final patch records Ready together with its generation. *)
LEMMA ReadyPatch ==
  ASSUME Shape, GenInv, ReadyInv, PatchInstance
  PROVE  ReadyInv'
<1>1. /\ ctl.pc # "idle" /\ ctl'.pc = "idle" /\ UNCHANGED sub
      /\ cr'.gen = cr.gen /\ cr'.spec = cr.spec
      /\ cr'.obs = IF cr.exists /\ ctl.mem.obs # ctl.base.obs THEN ctl.mem.obs ELSE cr.obs
      /\ cr'.ready = IF cr.exists /\ ctl.mem.ready # ctl.base.ready
                     THEN ctl.mem.ready ELSE cr.ready
  BY GenPatch DEF PatchInstance
<1>2. Mirrored /\ ctl.mem.obs = ctl.mem.gen
  BY <1>1 DEF ReadyInv, GenInv, InOrder
<1>3. CASE ~cr.exists
  BY <1>1, <1>3, ReadyFrame
<1>4. CASE cr.exists
  <2>1. cr'.obs = ctl.mem.gen /\ cr'.ready = ctl.mem.ready
    BY <1>1, <1>2, <1>4 DEF Mirrored
  <2>2. ASSUME cr'.ready, cr'.obs = cr'.gen
        PROVE  \A k \in Enabled(cr.spec) : Current(k, cr.spec)
    <3>1. ctl.mem.spec = cr.spec
      BY <1>1, <2>1, <2>2, SameSpec
    <3>. QED  BY <1>2, <2>1, <2>2, <3>1 DEF Mirrored
  <2>3. ReadyMeansCurrent'
    BY <1>1, <2>2 DEF ReadyMeansCurrent, EnabledKinds, Enabled, Current
  <2>. QED  BY <1>1, <2>3 DEF ReadyInv
<1>. QED  BY <1>3, <1>4

(* ReadyInv is inductive with caches that have caught up. *)
LEMMA ReadyNext ==
  ASSUME "cr" \notin Lag, "sub" \notin Lag
  PROVE  Shape /\ GenInv /\ ReadyInv /\ [Next]_vars => ReadyInv'
<1> SUFFICES ASSUME Shape, GenInv, ReadyInv, [Next]_vars PROVE ReadyInv'
  OBVIOUS
<1>1. CASE UNCHANGED vars \/ ReconcileGone
  <2>1. UNCHANGED <<cr, sub, ctl>>
    BY <1>1 DEF vars, ReconcileGone, objects
  <2>. QED  BY <2>1, ReadyFrame
<1>2. CASE ReconcileNew \/ ReconcileDelete \/ ReconcileNormal
  <2>1. seen.fin \in BOOLEAN
    BY DEF Shape, CRShape
  <2>2. PICK pc \in {"patch", "delete", "conf"}, fin \in BOOLEAN : Begin(pc, fin)
    BY <1>2, <2>1 DEF ReconcileNew, ReconcileDelete, ReconcileNormal
  <2>. QED  BY <2>2, ReadyBegin
<1>. QED  BY <1>1, <1>2, ReadyWorld, ReadyConf, ReadyCreateOrUpdate, ReadyCheckGeneration,
             ReadyPatch DEF Next, Reconcile

(* Swift is Ready for its current generation only while every sub-CR it    *)
(* uses carries the spec of that generation and its controller has seen it *)
(* (CreateOrUpdate, the checks of generations and the deferred patch), for *)
(* caches of Swift and sub-CRs that are up to date when they are read.     *)
THEOREM ReadyIsCurrent ==
  ASSUME "cr" \notin Lag, "sub" \notin Lag
  PROVE  Spec => []ReadyMeansCurrent
<1>1. Init => ReadyInv
  <2> SUFFICES ASSUME Init PROVE ReadyInv
    OBVIOUS
  <2>1. PICK s \in Spec0 :
           cr = [exists |-> TRUE, fin |-> FALSE, del |-> FALSE, spec |-> s,
                 gen |-> 1, obs |-> 0, ready |-> FALSE]
    BY DEF Init
  <2>2. cr.ready = FALSE
    BY <2>1
  <2>3. ctl.pc = "idle"
    BY DEF Init, Idle
  <2>. QED  BY <2>2, <2>3 DEF ReadyInv, ReadyMeansCurrent
<1>2. ReadyInv => ReadyMeansCurrent
  BY DEF ReadyInv
<1>. QED  BY <1>1, <1>2, ShapeInit, ShapeNext, GenInit, CountedNext, GenNext, ReadyNext, PTL
          DEF Spec
=============================================================================
