--------------------------- MODULE SwiftRingProofs ---------------------------
(***************************************************************************)
(* Theorems about SwiftRing, for any devices, rings, pods and bounds.      *)
(* With every kind of fault: type correctness, that no push ever loses a   *)
(* device, that rings of the user are kept, and that all of this           *)
(* implements RingStore.  Without some of them, each theorem says which:   *)
(* that no device is entered twice, that a SwiftRing which is ready serves *)
(* its list, and that it gets ready with labelled rings only.              *)
(***************************************************************************)
EXTENDS SwiftRing, TLAPS

----------------------------------------------------------------------------
(* What the functions of swift-ring-tool do to a directory. *)

(* Swapping ip and meta keeps the devices of a builder. *)
LEMMA MetaswapFacts ==
  ASSUME NEW S \in SUBSET Entry
  PROVE  /\ Metaswap(S) \in SUBSET Entry
         /\ Names(Metaswap(S)) = Names(S)
<1> DEFINE sw(e) == [e EXCEPT !.swapped = IF e.dev \in PVs THEN ~@ ELSE @]
<1>1. \A e \in S : sw(e) \in Entry /\ sw(e).dev = e.dev
  BY DEF Entry
<1>2. Metaswap(S) = {sw(e) : e \in S}
  BY DEF Metaswap
<1> HIDE DEF sw
<1>3. Names(Metaswap(S)) \subseteq Names(S)
  BY <1>1, <1>2 DEF Names
<1>4. ASSUME NEW e \in S  PROVE  e.dev \in Names(Metaswap(S))
  <2>1. sw(e) \in Metaswap(S)
    BY <1>2
  <2>. QED  BY <2>1, <1>1 DEF Names
<1>5. Names(S) \subseteq Names(Metaswap(S))
  BY <1>4 DEF Names
<1>. QED  BY <1>1, <1>2, <1>3, <1>5

(* An empty pod directory is a directory. *)
LEMMA EmptyDirType == EmptyDir \in Files
BY DEF EmptyDir, Files

(* Unpacking a stored directory over a directory gives a directory. *)
LEMMA UntarType ==
  ASSUME NEW fs \in Files, NEW stored \in Files
  PROVE  Untar(fs, stored) \in Files
BY DEF Untar, Files

(* Creating builders gives a directory. *)
LEMMA CreateType ==
  ASSUME NEW fs \in Files, NEW rings \in SUBSET Rings
  PROVE  CreateBuilders(fs, rings) \in Files
BY DEF CreateBuilders, Files

(* Adding lines to builders gives a directory whose builders have grown. *)
LEMMA UpdateFacts ==
  ASSUME NEW fs \in Files, NEW lines \in [Rings -> SUBSET Line]
  PROVE  /\ Update(fs, lines) \in Files
         /\ Update(fs, lines).made = fs.made
         /\ \A r \in Rings : fs.b[r] \subseteq Update(fs, lines).b[r]
<1>1. \A r \in Rings : Added(fs.b[r], lines[r]) \in SUBSET Entry
  <2> SUFFICES ASSUME NEW r \in Rings, NEW x \in Added(fs.b[r], lines[r])
               PROVE  x \in Entry
    OBVIOUS
  <2>1. PICK l \in lines[r] : x = [dev |-> l.dev, attr |-> l.attr, swapped |-> FALSE]
    BY DEF Added
  <2>2. l \in Line
    OBVIOUS
  <2>. QED  BY <2>1, <2>2 DEF Line, Entry
<1>2. Update(fs, lines) = [fs EXCEPT !.b = [r \in Rings |-> fs.b[r] \cup Added(fs.b[r], lines[r])]]
  BY DEF Update
<1>. QED  BY <1>1, <1>2 DEF Files

(* Rebalancing some rings keeps every builder's devices and writes them to *)
(* the ring files.                                                         *)
LEMMA RebalanceFacts ==
  ASSUME NEW fs \in Files, NEW done \in SUBSET Rings
  PROVE  /\ Rebalance(fs, done) \in Files
         /\ Rebalance(fs, done).made = fs.made
         /\ \A r \in Rings : Names(Rebalance(fs, done).b[r]) = Names(fs.b[r])
         /\ \A r \in done : Rebalance(fs, done).gz[r] = Rebalance(fs, done).b[r]
<1>1. \A r \in Rings : /\ Metaswap(Metaswap(fs.b[r])) \in SUBSET Entry
                       /\ Names(Metaswap(Metaswap(fs.b[r]))) = Names(fs.b[r])
  BY MetaswapFacts DEF Files
<1>. QED  BY <1>1 DEF Rebalance, Files

(* A directory left between two metaswaps is still a directory. *)
LEMMA HalfSwappedType ==
  ASSUME NEW fs \in Files, NEW r \in Rings
  PROVE  HalfSwapped(fs, r) \in Files
BY MetaswapFacts DEF HalfSwapped, Files
----------------------------------------------------------------------------
(* Type correctness. *)

(* The records the controller and the kubelet start from have their types. *)
LEMMA ConstantTypes ==
  /\ NewStatus \in Status /\ IdleCtl \in CtlType
  /\ NoJob \in JobType /\ NoPod \in PodType
  /\ NoCM \in CMType /\ ExternalCM \in CMType
<1>1. NewStatus \in Status
  BY DEF NewStatus, Status, Conditions
<1>2. IdleCtl \in CtlType
  BY <1>1 DEF IdleCtl, CtlType, CtlPoints, Lists
<1>3. NoPod \in PodType
  BY SwiftRingAssumption, EmptyDirType DEF NoPod, PodType, PodPoints, Lists
<1>4. ExternalCM \in CMType
  BY DEF ExternalCM, CMType, EmptyDir, Files
<1>. QED  BY <1>1, <1>2, <1>3, <1>4, EmptyDirType DEF NoJob, JobType, NoCM, CMType

(* A device list is a set of lines. *)
LEMMA DeviceListType ==
  ASSUME NEW e \in EnvType
  PROVE  DeviceList(e) \in Lists
BY DEF EnvType, DeviceList, Lists, Line

(* Making pods outdated keeps everything but their json file. *)
LEMMA OutdateFacts ==
  ASSUME NEW f \in [Pods -> PodType]
  PROVE  /\ Outdate(f) \in [Pods -> PodType]
         /\ \A p \in Pods : /\ Outdate(f)[p].pc = f[p].pc
                            /\ Outdate(f)[p].fs = f[p].fs
                            /\ Outdate(f)[p].json # "current"
BY DEF Outdate, PodType

(* A restarted container has its type. *)
LEMMA RestartType ==
  ASSUME TypeOK, NEW p \in Pods, NEW fs \in Files
  PROVE  Restart(p, fs) \in PodType
<1>1. pod[p] \in PodType
  BY DEF TypeOK
<1>2. pod[p].restarts \in 0..MaxRestarts
  BY <1>1 DEF PodType
<1>3. pod[p].restarts # MaxRestarts => pod[p].restarts + 1 \in 0..MaxRestarts
  BY SwiftRingAssumption, <1>2
<1>. QED  BY <1>1, <1>2, <1>3 DEF Restart, PodType, PodPoints, ToolPoints

(* The initial state has its type. *)
LEMMA TypeInit == Init => TypeOK
<1> SUFFICES ASSUME Init  PROVE  TypeOK
  OBVIOUS
<1>1. env \in EnvType /\ seen \in EnvType
  <2>1. SomeAttr \in Attrs
    BY SwiftRingAssumption DEF SomeAttr
  <2>. QED  BY <2>1 DEF Init, InitEnv, EnvType
<1>2. pod \in [Pods -> PodType]
  BY ConstantTypes DEF Init
<1>3. cm \in CMType /\ cmSeen \in {"absent", "bare", "labelled"}
  BY ConstantTypes DEF Init, CMView
<1>. QED  BY SwiftRingAssumption, <1>1, <1>2, <1>3, ConstantTypes DEF Init, TypeOK

(* Users, claims and nodes only move within the types of the inputs. *)
LEMMA TypeEnvironment ==
  ASSUME TypeOK, Environment \/ (\E d \in PVs : Bind(d))
  PROVE  TypeOK'
<1>1. ASSUME NEW d \in Devices, AddDevice(d) \/ RemoveDevice(d)  PROVE TypeOK'
  BY SwiftRingAssumption, <1>1 DEF AddDevice, RemoveDevice, Change, TypeOK, EnvType, ctlVars, envVars
<1>2. ASSUME NEW d \in Devices, NEW a \in Attrs, SetAttr(d, a)  PROVE TypeOK'
  BY SwiftRingAssumption, <1>2 DEF SetAttr, Change, TypeOK, EnvType, ctlVars, envVars
<1>3. ASSUME NEW d \in PVs, LosePod(d) \/ Bind(d)  PROVE TypeOK'
  BY SwiftRingAssumption, <1>3 DEF LosePod, Bind, Change, TypeOK, EnvType, ctlVars, envVars
<1>. QED  BY <1>1, <1>2, <1>3 DEF Environment

(* Delivering an event copies typed objects into the caches. *)
LEMMA TypeInformers ==
  ASSUME TypeOK, Informers
  PROVE  TypeOK'
<1>1. CASE SyncWant \/ SyncAttr \/ SyncAvail
  BY <1>1 DEF SyncWant, SyncAttr, SyncAvail, TypeOK, EnvType, ctlVars, envVars
<1>2. CASE SyncCR \/ SyncCM
  BY <1>2 DEF SyncCR, SyncCM, CMView, TypeOK, ctlVars, envVars
<1>. QED  BY <1>1, <1>2 DEF Informers

(* Every step of Reconcile, up to the final patch, keeps the types. *)
LEMMA TypeReconcile ==
  ASSUME TypeOK, Reconcile
  PROVE  TypeOK'
<1>1. Reset \in Status /\ [Reset EXCEPT !.fin = TRUE] \in Status
      /\ [Reset EXCEPT !.cond = "False"] \in Status
  BY DEF TypeOK, Reset, Status, Conditions
<1>2. ASSUME NEW pc \in CtlPoints, NEW mem \in Status, NEW lines \in Lists,
             NEW again \in BOOLEAN, Begin(pc, mem, lines, again)
      PROVE  TypeOK'
  BY <1>2 DEF Begin, TypeOK, CtlType, ctlVars, envVars
<1>3. DeviceList(seen) \in Lists /\ {} \in Lists
  BY DeviceListType DEF TypeOK, Lists
<1>4. CASE ReconcileNew \/ ReconcileNoDevices \/ ReconcileListChanged \/ ReconcileListSame
  BY <1>1, <1>2, <1>3, <1>4
     DEF ReconcileNew, ReconcileNoDevices, ReconcileListChanged, ReconcileListSame, CtlPoints
<1>5. CASE EnsureConfigMaps
  BY <1>5 DEF EnsureConfigMaps, TypeOK, CtlType, CtlPoints, ctlVars, envVars
<1>6. CASE GetJob
  <2>1. ctl' \in CtlType
    BY <1>6 DEF GetJob, TypeOK, CtlType, CtlPoints, Status
  <2>. QED  BY <1>6, <2>1 DEF GetJob, TypeOK, ctlVars, envVars
<1>7. CASE DeleteJob
  BY <1>7, ConstantTypes DEF DeleteJob, TypeOK, CtlType, CtlPoints, ctlVars, envVars
<1>8. CASE DoJobSkip \/ DoJobWait \/ DoJobComplete
  <2>1. ctl' \in CtlType
    <3>1. [ctl.mem EXCEPT !.rch = TRUE] \in Status
      BY DEF TypeOK, CtlType, Status
    <3>. QED  BY <1>8, <3>1 DEF DoJobSkip, DoJobWait, DoJobComplete, TypeOK, CtlType, CtlPoints
  <2>. QED  BY <1>8, <2>1 DEF DoJobSkip, DoJobWait, DoJobComplete, TypeOK, ctlVars, envVars
<1>9. CASE DoJobCreate
  <2>1. job' \in JobType
    BY <1>9, ConstantTypes DEF DoJobCreate, JobType
  <2>. QED  BY <1>9, <2>1 DEF DoJobCreate, TypeOK, CtlType, CtlPoints, ctlVars, envVars
<1>10. CASE Label
  <2>1. ctl' \in CtlType
    <3>1. [ctl.mem EXCEPT !.cond = "True"] \in Status
      BY DEF TypeOK, CtlType, Status, Conditions
    <3>. QED  BY <1>10, <3>1 DEF Label, TypeOK, CtlType, CtlPoints
  <2>2. cm' \in CMType /\ pod' \in [Pods -> PodType]
    BY <1>10, OutdateFacts DEF Label, TypeOK, CMType
  <2>. QED  BY <1>10, <2>1, <2>2 DEF Label, TypeOK, ctlVars, envVars
<1>11. CASE PatchInstance
  <2>1. cr' \in Status
    BY <1>11 DEF PatchInstance, Merge, TypeOK, CtlType, Status
  <2>. QED  BY <1>11, <2>1, ConstantTypes DEF PatchInstance, TypeOK, CtlType, ctlVars, envVars
<1>. QED  BY <1>4, <1>5, <1>6, <1>7, <1>8, <1>9, <1>10, <1>11 DEF Reconcile

(* The Job controller and the garbage collector keep the types. *)
LEMMA TypeKubernetes ==
  ASSUME TypeOK, Kubernetes
  PROVE  TypeOK'
<1>1. CASE JobActive \/ JobFinished
  BY <1>1 DEF JobActive, JobFinished, TypeOK, JobType, ctlVars, envVars
<1>2. ASSUME NEW p \in Pods, CreatePod(p)  PROVE TypeOK'
  <2>1. pod' \in [Pods -> PodType]
    BY <1>2, ConstantTypes DEF CreatePod, TypeOK, PodType, PodPoints, ToolPoints
  <2>. QED  BY <1>2, <2>1 DEF CreatePod, TypeOK, JobType, ctlVars, envVars
<1>3. ASSUME NEW p \in Pods, CollectPod(p)  PROVE TypeOK'
  BY <1>3, ConstantTypes DEF CollectPod, TypeOK, ctlVars, envVars
<1>. QED  BY <1>1, <1>2, <1>3 DEF Kubernetes

(* A pod that moves on with a well-typed directory stays well typed. *)
LEMMA StepType ==
  ASSUME TypeOK, NEW p \in Pods, NEW from, NEW to \in PodPoints, NEW fs \in Files,
         Step(p, from, to, fs)
  PROVE  TypeOK'
<1>1. pod' \in [Pods -> PodType]
  BY DEF Step, TypeOK, PodType
<1>. QED  BY <1>1 DEF Step, TypeOK, ctlVars, envVars

(* Every step of swift-ring-tool leaves a well-typed directory. *)
LEMMA TypeTool ==
  ASSUME TypeOK, NEW p \in Pods, Tool(p)
  PROVE  TypeOK'
<1>1. pod[p].fs \in Files /\ cm.fs \in Files
  BY DEF TypeOK, PodType, CMType
<1>2. CASE ToolGet(p)
  <2>1. Untar(pod[p].fs, cm.fs) \in Files
    BY <1>1, UntarType
  <2>2. ASSUME NEW fs \in Files, NEW json \in {"absent", "current"}
        PROVE  [pod[p] EXCEPT !.pc = "init", !.json = json, !.fs = fs] \in PodType
    BY DEF TypeOK, PodType, PodPoints, ToolPoints
  <2>3. pod' = [pod EXCEPT ![p] = [pod[p] EXCEPT
                  !.pc = "init",
                  !.json = IF cm.exists THEN "current" ELSE "absent",
                  !.fs = IF cm.exists THEN Untar(pod[p].fs, cm.fs) ELSE pod[p].fs]]
    BY <1>2 DEF ToolGet, TypeOK
  <2>4. pod' \in [Pods -> PodType]
    BY <1>1, <2>1, <2>2, <2>3 DEF TypeOK
  <2>. QED  BY <1>2, <2>4 DEF ToolGet, TypeOK, ctlVars, envVars
<1>3. CASE ToolInit(p)
  BY <1>1, <1>3, CreateType, StepType DEF ToolInit, PodPoints, ToolPoints
<1>4. CASE ToolUpdate(p)
  <2>1. PICK lines \in {pod[p].vol, devCM} \ {None} :
             Step(p, "update", "rebalance", Update(pod[p].fs, [r \in Rings |-> lines]))
    BY <1>4 DEF ToolUpdate
  <2>2. [r \in Rings |-> lines] \in [Rings -> SUBSET Line]
    BY DEF TypeOK, PodType, Lists
  <2>. QED  BY <1>1, <2>1, <2>2, UpdateFacts, StepType DEF PodPoints, ToolPoints
<1>5. CASE ToolRebalance(p)
  BY <1>1, <1>5, RebalanceFacts, StepType DEF ToolRebalance, PodPoints, ToolPoints
<1>6. CASE ToolPush(p)
  <2>1. pod' \in [Pods -> PodType]
    BY <1>6, OutdateFacts DEF ToolPush, TypeOK, PodType, PodPoints
  <2>. QED  BY <1>1, <1>6, <2>1 DEF ToolPush, Pushed, TypeOK, CMType, ctlVars, envVars
<1>7. CASE ToolPushConflict(p)
  BY <1>1, <1>7, StepType DEF ToolPushConflict, PodPoints
<1>. QED  BY <1>2, <1>3, <1>4, <1>5, <1>6, <1>7 DEF Tool

(* Failing calls, crashes, evictions and killed containers keep the types. *)
LEMMA TypeFailures ==
  ASSUME TypeOK, Failures
  PROVE  TypeOK'
<1>1. ASSUME NEW kind, Fault(kind)  PROVE nfaults' \in 0..MaxFaults
  BY SwiftRingAssumption, <1>1 DEF Fault, TypeOK
<1>2. CASE CallFails \/ PatchFails
  BY <1>1, <1>2, ConstantTypes
     DEF CallFails, PatchFails, TypeOK, CtlType, CtlPoints, ctlVars, envVars
<1>3. CASE Crash
  BY <1>1, <1>3, ConstantTypes DEF Crash, CMView, TypeOK, ctlVars, envVars
<1>4. ASSUME NEW p \in Pods, EvictPod(p)  PROVE TypeOK'
  BY <1>1, <1>4, ConstantTypes DEF EvictPod, TypeOK, JobType, ctlVars, envVars
<1>5. ASSUME NEW p \in Pods, ToolPushLost(p)  PROVE TypeOK'
  <2>1. pod' \in [Pods -> PodType]
    BY <1>5 DEF ToolPushLost, TypeOK, PodType, PodPoints
  <2>. QED  BY <1>1, <1>5, <2>1 DEF ToolPushLost, TypeOK, ctlVars, envVars
<1>6. ASSUME NEW p \in Pods, NEW kind, NEW fs \in Files, Dies(p, kind, fs)  PROVE TypeOK'
  <2>1. pod' \in [Pods -> PodType]
    BY <1>6, RestartType DEF Dies, TypeOK
  <2>. QED  BY <1>1, <1>6, <2>1 DEF Dies, TypeOK, ctlVars, envVars
<1>7. \A p \in Pods : pod[p].fs \in Files
  BY DEF TypeOK, PodType
<1>8. ASSUME NEW p \in Pods, DiesInGet(p) \/ DiesInInit(p)  PROVE TypeOK'
  BY <1>6, <1>7, <1>8, CreateType DEF DiesInGet, DiesInInit
<1>9. ASSUME NEW p \in Pods, DiesInUpdate(p)  PROVE TypeOK'
  <2>1. PICK lines \in {pod[p].vol, devCM} \ {None} : \E part \in [Rings -> SUBSET lines] :
             Dies(p, "kill", Update(pod[p].fs, part))
    BY <1>9 DEF DiesInUpdate
  <2>2. PICK part \in [Rings -> SUBSET lines] : Dies(p, "kill", Update(pod[p].fs, part))
    BY <2>1
  <2>3. part \in [Rings -> SUBSET Line]
    BY DEF TypeOK, PodType, Lists
  <2>. QED  BY <1>6, <1>7, <2>2, <2>3, UpdateFacts
<1>10. ASSUME NEW p \in Pods, DiesInRebalance(p) \/ DiesInMetaswap(p) \/ DiesInPush(p)
       PROVE  TypeOK'
  BY <1>6, <1>7, <1>10, RebalanceFacts, HalfSwappedType
     DEF DiesInRebalance, DiesInMetaswap, DiesInPush
<1>11. ASSUME NEW p \in Pods, DiesAfterPush(p)  PROVE TypeOK'
  <2>1. pod' \in [Pods -> PodType]
    BY <1>7, <1>11, RestartType, OutdateFacts DEF DiesAfterPush, TypeOK
  <2>. QED  BY <1>1, <1>7, <1>11, <2>1 DEF DiesAfterPush, Pushed, TypeOK, CMType, ctlVars, envVars
<1>. QED  BY <1>2, <1>3, <1>4, <1>5, <1>8, <1>9, <1>10, <1>11 DEF Failures, Killed

(* Type correctness is inductive. *)
LEMMA TypeNext == TypeOK /\ [Next]_vars => TypeOK'
<1>1. TypeOK /\ UNCHANGED vars => TypeOK'
  BY DEF TypeOK, vars
<1>. QED
  BY <1>1, TypeEnvironment, TypeInformers, TypeReconcile, TypeKubernetes, TypeTool,
     TypeFailures DEF Next

(* Every reachable state is well typed: in particular no container is      *)
(* restarted beyond the backoff limit and every file the rebalance job     *)
(* stores in the ring ConfigMap is a set of devices.                       *)
THEOREM TypeCorrect == Spec => []TypeOK
BY TypeInit, TypeNext, PTL DEF Spec

----------------------------------------------------------------------------
(* No device is ever lost. *)

(* The steps that touch neither the ring ConfigMap nor a pod. *)
LEMMA OtherSteps ==
  ASSUME \/ Environment \/ (\E d \in PVs : Bind(d)) \/ Informers
         \/ Reconcile /\ ~Label
         \/ JobActive \/ JobFinished
         \/ CallFails \/ PatchFails \/ Crash
         \/ UNCHANGED vars
  PROVE  UNCHANGED <<cm, pod>>
<1>1. CASE Environment \/ (\E d \in PVs : Bind(d))
  BY <1>1 DEF Environment, AddDevice, RemoveDevice, SetAttr, LosePod, Bind
<1>2. CASE Informers
  BY <1>2 DEF Informers, SyncWant, SyncAttr, SyncAvail, SyncCR, SyncCM
<1>3. CASE Reconcile /\ ~Label
  BY <1>3 DEF Reconcile, ReconcileNew, ReconcileNoDevices, ReconcileListChanged,
     ReconcileListSame, Begin, EnsureConfigMaps, GetJob, DeleteJob, DoJobSkip, DoJobCreate,
     DoJobWait, DoJobComplete, PatchInstance
<1>4. CASE JobActive \/ JobFinished \/ CallFails \/ PatchFails \/ Crash \/ UNCHANGED vars
  BY <1>4 DEF JobActive, JobFinished, CallFails, PatchFails, Crash, vars
<1>. QED  BY <1>1, <1>2, <1>3, <1>4

(* A killed container dies at some point of the tool. *)
LEMMA KilledDies ==
  ASSUME NEW p \in Pods, Killed(p)
  PROVE  pod[p].pc \in ToolPoints /\ \E kind, fs : Dies(p, kind, fs)
<1>1. pod[p].pc \in ToolPoints
  BY DEF Killed, DiesInGet, DiesInInit, DiesInUpdate, DiesInRebalance, DiesInMetaswap,
     DiesInPush, ToolPoints
<1>2. \E kind, fs : Dies(p, kind, fs)
  BY Zenon DEF Killed, DiesInGet, DiesInInit, DiesInUpdate, DiesInRebalance, DiesInMetaswap,
     DiesInPush
<1>. QED  BY <1>1, <1>2

(* A pod step that leaves the ConfigMap alone only concerns that pod. *)
LEMMA LocalStep ==
  ASSUME DeviceInv, NEW p \in Pods, cm' = cm, PodBasedOnStored(p)',
         \A q \in Pods \ {p} : pod'[q] = pod[q]
  PROVE  DeviceInv'
<1>1. StoredConsistent'
  BY DEF DeviceInv, StoredConsistent
<1>2. ASSUME NEW q \in Pods \ {p}  PROVE PodBasedOnStored(q)'
  BY DEF DeviceInv, PodBasedOnStored
<1>. QED  BY <1>1, <1>2 DEF DeviceInv

(* An accepted push leaves every other pod outdated. *)
LEMMA PushStep ==
  ASSUME TypeOK, DeviceInv, NEW p \in Pods, pod[p].pc = "push", cm' = Pushed(p),
         pod'[p].pc \in {"done", "get", "failed"},
         \A q \in Pods \ {p} : pod'[q] = Outdate(pod)[q]
  PROVE  DeviceInv'
<1>1. StoredConsistent'
  BY DEF DeviceInv, PodBasedOnStored, StoredConsistent, Pushed
<1>2. PodBasedOnStored(p)'
  BY DEF PodBasedOnStored, ToolPoints
<1>3. ASSUME NEW q \in Pods \ {p}  PROVE PodBasedOnStored(q)'
  BY OutdateFacts DEF TypeOK, DeviceInv, PodBasedOnStored
<1>. QED  BY <1>1, <1>2, <1>3 DEF DeviceInv

(* Nothing is stored and no pod runs, or only foreign rings are stored. *)
LEMMA DeviceInit == Init => DeviceInv
<1> SUFFICES ASSUME Init  PROVE DeviceInv
  OBVIOUS
<1>1. StoredConsistent
  <2>1. cm.fs.b = EmptyDir.b /\ cm.fs.gz = EmptyDir.gz
    <3>1. cm = NoCM \/ cm = ExternalCM
      BY DEF Init
    <3>2. NoCM.fs.b = EmptyDir.b /\ NoCM.fs.gz = EmptyDir.gz
      BY DEF NoCM
    <3>3. ExternalCM.fs.b = EmptyDir.b /\ ExternalCM.fs.gz = EmptyDir.gz
      BY DEF ExternalCM, EmptyDir
    <3>. QED  BY <3>1, <3>2, <3>3
  <2>2. \A r \in Rings : cm.fs.b[r] = {} /\ cm.fs.gz[r] = {}
    BY <2>1 DEF EmptyDir
  <2>. QED  BY <2>2 DEF StoredConsistent, Names
<1>2. ASSUME NEW p \in Pods  PROVE PodBasedOnStored(p)
  BY DEF Init, PodBasedOnStored, NoPod, ToolPoints
<1>. QED  BY <1>1, <1>2 DEF DeviceInv

(* Labelling the ring ConfigMap makes every pod's copy outdated. *)
LEMMA DeviceLabel ==
  ASSUME TypeOK, DeviceInv, Label
  PROVE  DeviceInv'
<1>1. cm'.fs = cm.fs /\ cm'.exists = cm.exists
  BY DEF Label, TypeOK, CMType
<1>2. \A p \in Pods : /\ pod'[p].pc = pod[p].pc /\ pod'[p].fs = pod[p].fs
                      /\ pod'[p].json = "current" => pod[p].json = "current"
  BY OutdateFacts DEF Label, TypeOK
<1>. QED  BY <1>1, <1>2 DEF DeviceInv, StoredConsistent, PodBasedOnStored

(* What a pod does between get and push keeps it based on what is stored. *)
LEMMA DeviceTool ==
  ASSUME TypeOK, DeviceInv, NEW p \in Pods, Tool(p)
  PROVE  DeviceInv'
<1>1. /\ pod[p].fs \in Files /\ cm.fs \in Files /\ pod[p] \in PodType
      /\ pod \in [Pods -> PodType] /\ PodBasedOnStored(p)
  BY DEF TypeOK, PodType, CMType, DeviceInv
<1>2. ASSUME NEW from, NEW to, NEW fs, Step(p, from, to, fs)
      PROVE  /\ cm' = cm /\ pod[p].pc = from
             /\ \A q \in Pods \ {p} : pod'[q] = pod[q]
             /\ pod'[p].pc = to /\ pod'[p].fs = fs /\ pod'[p].json = pod[p].json
  BY <1>1, <1>2 DEF Step, PodType
<1>3. CASE ToolGet(p)
  <2>1. /\ cm' = cm /\ pod'[p].pc = "init"
        /\ pod'[p].json = "current" => cm.exists /\ pod'[p].fs = Untar(pod[p].fs, cm.fs)
        /\ \A q \in Pods \ {p} : pod'[q] = pod[q]
    BY <1>1, <1>3 DEF ToolGet, PodType
  <2>2. \A r \in Rings : Names(cm.fs.b[r]) \subseteq Names(Untar(pod[p].fs, cm.fs).b[r])
    BY <1>1 DEF Untar, Names, DeviceInv, StoredConsistent
  <2>3. PodBasedOnStored(p)'
    BY <2>1, <2>2 DEF PodBasedOnStored
  <2>. QED  BY <2>1, <2>3, LocalStep
<1>4. CASE ToolInit(p)
  <2>1. PICK to \in {"done", "update"}, fs \in {pod[p].fs, CreateBuilders(pod[p].fs, Rings)} :
             /\ Step(p, "init", to, fs)
             /\ to = "update" => fs = CreateBuilders(pod[p].fs, Rings)
    BY <1>4 DEF ToolInit
  <2>2. fs.b = pod[p].fs.b /\ (to = "update" => fs.made = Rings)
    <3>1. /\ CreateBuilders(pod[p].fs, Rings).b = pod[p].fs.b
          /\ CreateBuilders(pod[p].fs, Rings).made = pod[p].fs.made \cup Rings
          /\ pod[p].fs.made \subseteq Rings
      BY <1>1 DEF CreateBuilders, Files
    <3>2. pod[p].fs.made \cup Rings = Rings
      BY <3>1
    <3>. QED  BY <2>1, <3>1, <3>2
  <2>3. PodBasedOnStored(p)'
    BY <1>1, <1>2, <2>1, <2>2 DEF PodBasedOnStored, ToolPoints
  <2>. QED  BY <1>2, <2>1, <2>3, LocalStep
<1>5. CASE ToolUpdate(p)
  <2>1. PICK lines \in {pod[p].vol, devCM} \ {None} :
             Step(p, "update", "rebalance", Update(pod[p].fs, [r \in Rings |-> lines]))
    BY <1>5 DEF ToolUpdate
  <2> DEFINE fs == Update(pod[p].fs, [r \in Rings |-> lines])
  <2>2. [r \in Rings |-> lines] \in [Rings -> SUBSET Line]
    BY DEF TypeOK, PodType, Lists
  <2>3. fs.made = pod[p].fs.made /\ \A r \in Rings : Names(pod[p].fs.b[r]) \subseteq Names(fs.b[r])
    BY <1>1, <2>2, UpdateFacts DEF Names
  <2>4. PodBasedOnStored(p)'
    BY <1>1, <1>2, <2>1, <2>3 DEF PodBasedOnStored, ToolPoints
  <2>. QED  BY <1>2, <2>1, <2>4, LocalStep
<1>6. CASE ToolRebalance(p)
  <2> DEFINE fs == Rebalance(pod[p].fs, Rings)
  <2>1. Step(p, "rebalance", "push", fs)
    BY <1>6 DEF ToolRebalance
  <2>2. /\ fs.made = pod[p].fs.made
        /\ \A r \in Rings : Names(fs.b[r]) = Names(pod[p].fs.b[r]) /\ fs.gz[r] = fs.b[r]
    BY <1>1, RebalanceFacts
  <2> HIDE DEF fs
  <2>3. PodBasedOnStored(p)'
    BY <1>1, <1>2, <2>1, <2>2 DEF PodBasedOnStored, ToolPoints
  <2>. QED  BY <1>2, <2>1, <2>3, LocalStep
<1>7. CASE ToolPush(p)
  <2>1. /\ pod'[p].pc = "done" /\ \A q \in Pods \ {p} : pod'[q] = Outdate(pod)[q]
    BY <1>1, <1>7, OutdateFacts DEF ToolPush, PodType
  <2>. QED  BY <1>7, <2>1, PushStep DEF ToolPush
<1>8. CASE ToolPushConflict(p)
  <2>1. PodBasedOnStored(p)'
    BY <1>2, <1>8 DEF ToolPushConflict, PodBasedOnStored, ToolPoints
  <2>. QED  BY <1>2, <1>8, <2>1, LocalStep DEF ToolPushConflict
<1>. QED  BY <1>3, <1>4, <1>5, <1>6, <1>7, <1>8 DEF Tool

(* Pods that are created, collected, evicted or killed keep the invariant. *)
LEMMA DevicePods ==
  ASSUME TypeOK, DeviceInv, NEW p \in Pods,
         \/ CreatePod(p) \/ CollectPod(p) \/ EvictPod(p) \/ ToolPushLost(p)
         \/ Killed(p) \/ DiesAfterPush(p)
  PROVE  DeviceInv'
<1>1. pod \in [Pods -> PodType] /\ PodBasedOnStored(p)
  BY DEF TypeOK, DeviceInv
<1>2. \A fs : Restart(p, fs).pc \in {"get", "failed"}
  BY <1>1 DEF Restart, PodType
<1>3. CASE DiesAfterPush(p)
  <2>1. /\ pod'[p].pc \in {"get", "failed"}
        /\ \A q \in Pods \ {p} : pod'[q] = Outdate(pod)[q]
    BY <1>1, <1>2, <1>3, OutdateFacts DEF DiesAfterPush
  <2>. QED  BY <1>3, <2>1, PushStep DEF DiesAfterPush
<1>4. CASE ~DiesAfterPush(p)
  <2>1. /\ cm' = cm /\ pod'[p].pc \in {"get", "none", "done", "failed"}
        /\ \A q \in Pods \ {p} : pod'[q] = pod[q]
    <3>1. CASE CreatePod(p) \/ CollectPod(p) \/ EvictPod(p)
      <4>1. NoPod.pc = "none" /\ \A l : [NoPod EXCEPT !.pc = "get", !.vol = l].pc = "get"
        BY DEF NoPod
      <4>2. cm' = cm
        BY <3>1 DEF CreatePod, CollectPod, EvictPod
      <4>3. CASE CreatePod(p)
        BY <1>1, <4>1, <4>2, <4>3 DEF CreatePod
      <4>4. CASE CollectPod(p) \/ EvictPod(p)
        BY <1>1, <4>1, <4>2, <4>4 DEF CollectPod, EvictPod
      <4>. QED  BY <3>1, <4>3, <4>4
    <3>2. CASE ToolPushLost(p)
      BY <1>1, <3>2 DEF ToolPushLost, PodType
    <3>3. ASSUME NEW kind, NEW fs, Dies(p, kind, fs)
          PROVE  /\ cm' = cm /\ pod'[p].pc \in {"get", "failed"}
                 /\ \A q \in Pods \ {p} : pod'[q] = pod[q]
      BY <1>1, <1>2, <3>3 DEF Dies
    <3>4. CASE Killed(p)
      BY <3>3, <3>4, KilledDies
    <3>. QED  BY <1>4, <3>1, <3>2, <3>4
  <2>2. PodBasedOnStored(p)'
    BY <2>1 DEF PodBasedOnStored, ToolPoints
  <2>. QED  BY <2>1, <2>2, LocalStep
<1>. QED  BY <1>3, <1>4

(* The split of Next that the two proofs below go through. *)
LEMMA NextSplit ==
  ASSUME [Next]_vars
  PROVE  \/ UNCHANGED <<cm, pod>>
         \/ Label
         \/ \E p \in Pods :
               \/ Tool(p)
               \/ CreatePod(p) \/ CollectPod(p) \/ EvictPod(p) \/ ToolPushLost(p)
               \/ Killed(p) \/ DiesAfterPush(p)
BY OtherSteps DEF Next, Kubernetes, Failures

(* The invariant behind NoDeviceLost is inductive. *)
LEMMA DeviceNext == TypeOK /\ DeviceInv /\ [Next]_vars => DeviceInv'
<1> SUFFICES ASSUME TypeOK, DeviceInv, [Next]_vars  PROVE DeviceInv'
  OBVIOUS
<1>1. CASE UNCHANGED <<cm, pod>>
  BY <1>1 DEF DeviceInv, StoredConsistent, PodBasedOnStored
<1>. QED  BY <1>1, NextSplit, DeviceLabel, DeviceTool, DevicePods

(* Who writes the ring ConfigMap: labelling, which keeps the files, and an *)
(* accepted push.                                                          *)
LEMMA StoredWrites ==
  ASSUME TypeOK, [Next]_vars
  PROVE  \/ cm'.fs = cm.fs /\ cm'.exists = cm.exists
         \/ \E p \in Pods : pod[p].pc = "push" /\ Accepted(p) /\ cm' = Pushed(p)
<1>1. CASE Label
  BY <1>1 DEF Label, TypeOK, CMType
<1>2. CASE \E p \in Pods : ToolPush(p) \/ DiesAfterPush(p)
  BY <1>2 DEF ToolPush, DiesAfterPush
<1>3. ASSUME NEW p \in Pods, Tool(p), ~ToolPush(p)  PROVE cm' = cm
  BY <1>3 DEF Tool, ToolGet, ToolInit, ToolUpdate, ToolRebalance, ToolPushConflict, Step
<1>4. ASSUME NEW p \in Pods,
             \/ CreatePod(p) \/ CollectPod(p) \/ EvictPod(p) \/ ToolPushLost(p)
             \/ Killed(p)
      PROVE  cm' = cm
  BY <1>4, KilledDies DEF CreatePod, CollectPod, EvictPod, ToolPushLost, Dies
<1>. QED  BY <1>1, <1>2, <1>3, <1>4, NextSplit

(* What is stored only grows: an accepted push comes from a pod that is     *)
(* based on what it replaces.                                               *)
LEMMA GrowNext ==
  ASSUME TypeOK, DeviceInv, [Next]_vars, NEW r \in Rings
  PROVE  /\ Names(cm.fs.b[r]) \subseteq Names(cm'.fs.b[r])
         /\ Names(cm.fs.gz[r]) \subseteq Names(cm'.fs.gz[r])
<1>1. CASE cm'.fs = cm.fs
  BY <1>1
<1>2. ASSUME NEW p \in Pods, pod[p].pc = "push", Accepted(p), cm' = Pushed(p)
      PROVE  /\ Names(cm.fs.b[r]) \subseteq Names(cm'.fs.b[r])
             /\ Names(cm.fs.gz[r]) \subseteq Names(cm'.fs.gz[r])
  <2>1. /\ Names(cm.fs.gz[r]) \subseteq Names(cm.fs.b[r])
        /\ ~cm.exists => Names(cm.fs.b[r]) = {}
        /\ pod[p].fs.gz[r] = pod[p].fs.b[r]
        /\ cm.exists => Names(cm.fs.b[r]) \subseteq Names(pod[p].fs.b[r])
    BY <1>2 DEF DeviceInv, StoredConsistent, PodBasedOnStored, Accepted, Names, ToolPoints
  <2>2. cm'.fs = pod[p].fs
    BY <1>2 DEF Pushed
  <2>. QED  BY <2>1, <2>2
<1>. QED  BY <1>1, <1>2, StoredWrites

(* For any set of faults, any number of pods and any devices, the rings and *)
(* builders in the ring ConfigMap never lose a device (NoDeviceLost): the   *)
(* resourceVersion of push is enough, although failed pushes go unnoticed.  *)
THEOREM DevicesNeverLost == Spec => NoDeviceLost
<1>1. Spec => [](TypeOK /\ DeviceInv)
  BY TypeInit, TypeNext, DeviceInit, DeviceNext, PTL DEF Spec
<1>2. TypeOK /\ DeviceInv /\ [Next]_vars
        => [StoredGrows]_vars
  BY GrowNext DEF StoredGrows
<1>. QED  BY <1>1, <1>2, PTL DEF Spec, NoDeviceLost
----------------------------------------------------------------------------
(* Rings of a user are kept, and what is served is a RingStore. *)

(* What is pushed has a builder for every ring, so it is not a user's. *)
LEMMA PushedByOperator ==
  ASSUME DeviceInv, NEW p \in Pods, pod[p].pc = "push", cm' = Pushed(p)
  PROVE  cm'.exists /\ cm'.fs.made = Rings /\ cm'.fs.made # {}
<1>1. cm'.exists /\ cm'.fs.made = Rings
  BY DEF DeviceInv, PodBasedOnStored, Pushed
<1>. QED  BY <1>1, SwiftRingAssumption

(* At first no pod exists, and a user's ConfigMap has a file for each ring. *)
LEMMA UserInit == Init => UserInv
<1> SUFFICES ASSUME Init  PROVE UserInv
  OBVIOUS
<1>1. cm.exists => cm.fs.wrote = Rings
  <2>1. cm = NoCM \/ cm = ExternalCM
    BY DEF Init
  <2>2. ~NoCM.exists /\ ExternalCM.fs.wrote = Rings
    BY DEF NoCM, ExternalCM, EmptyDir
  <2>. QED  BY <2>1, <2>2
<1>2. NoPod.pc = "none" /\ NoPod.fs.made = {}
  BY DEF NoPod, EmptyDir
<1>3. ASSUME NEW p \in Pods  PROVE StoppedByUserRings(p)
  BY <1>2 DEF Init, StoppedByUserRings
<1>. QED  BY <1>1, <1>3 DEF UserInv

(* A pod that finds a user's rings stops in init, also when it is restarted *)
(* or replaced.                                                             *)
LEMMA UserPods ==
  ASSUME TypeOK, cm.exists, cm.fs.made = {}, cm.fs.wrote = Rings, NEW p \in Pods,
         StoppedByUserRings(p),
         \/ Tool(p)
         \/ CreatePod(p) \/ CollectPod(p) \/ EvictPod(p) \/ ToolPushLost(p)
         \/ Killed(p) \/ DiesAfterPush(p)
  PROVE  StoppedByUserRings(p)' /\ \A q \in Pods \ {p} : pod'[q] = pod[q]
<1>1. pod \in [Pods -> PodType] /\ pod[p] \in PodType /\ pod[p].fs \in Files /\ cm.fs \in Files
  BY DEF TypeOK, PodType, CMType
<1>2. pod[p].pc \notin {"update", "rebalance", "push"} /\ pod[p].fs.made = {}
  BY DEF StoppedByUserRings
<1>3. pod[p].pc = "init" => ForeignRing(pod[p].fs)
  BY SwiftRingAssumption DEF StoppedByUserRings, ForeignRing
<1>4. CASE ToolGet(p)
  <2>1. /\ pod'[p].pc = "init" /\ pod'[p].fs = Untar(pod[p].fs, cm.fs)
        /\ \A q \in Pods \ {p} : pod'[q] = pod[q]
    BY <1>1, <1>4 DEF ToolGet, PodType
  <2>2. Untar(pod[p].fs, cm.fs).made = {} /\ Untar(pod[p].fs, cm.fs).wrote = Rings
    BY <1>2 DEF Untar
  <2>. QED  BY <2>1, <2>2 DEF StoppedByUserRings
<1>5. CASE ToolInit(p)
  <2>1. Step(p, "init", "done", pod[p].fs)
    BY <1>3, <1>5 DEF ToolInit, Step
  <2>2. /\ pod'[p].pc = "done" /\ pod'[p].fs = pod[p].fs
        /\ \A q \in Pods \ {p} : pod'[q] = pod[q]
    BY <1>1, <2>1 DEF Step, PodType
  <2>. QED  BY <1>2, <2>2 DEF StoppedByUserRings
<1>6. CASE CreatePod(p) \/ CollectPod(p) \/ EvictPod(p)
  <2>1. /\ NoPod.pc = "none" /\ NoPod.fs.made = {}
        /\ \A l : LET n == [NoPod EXCEPT !.pc = "get", !.vol = l]
                  IN  n.pc = "get" /\ n.fs.made = {}
    BY DEF NoPod, EmptyDir
  <2>2. CASE CreatePod(p)
    <3>1. /\ pod'[p] = [NoPod EXCEPT !.pc = "get", !.vol = devCM]
          /\ \A q \in Pods \ {p} : pod'[q] = pod[q]
      BY <1>1, <2>2 DEF CreatePod
    <3>. QED  BY <2>1, <3>1 DEF StoppedByUserRings
  <2>3. CASE CollectPod(p) \/ EvictPod(p)
    <3>1. pod'[p] = NoPod /\ \A q \in Pods \ {p} : pod'[q] = pod[q]
      BY <1>1, <2>3 DEF CollectPod, EvictPod
    <3>. QED  BY <2>1, <3>1 DEF StoppedByUserRings
  <2>. QED  BY <1>6, <2>2, <2>3
<1>7. CASE DiesInGet(p)
  <2>1. /\ pod'[p] = Restart(p, pod[p].fs)
        /\ \A q \in Pods \ {p} : pod'[q] = pod[q]
    BY <1>1, <1>7 DEF DiesInGet, Dies
  <2>2. /\ Restart(p, pod[p].fs).pc \in {"get", "failed"}
        /\ Restart(p, pod[p].fs).fs = pod[p].fs
    BY <1>1 DEF Restart, PodType
  <2>. QED  BY <1>2, <2>1, <2>2 DEF StoppedByUserRings
<1>8. CASE DiesInInit(p)
  BY <1>3, <1>8 DEF DiesInInit
<1>9. ~(ToolUpdate(p) \/ ToolRebalance(p) \/ ToolPush(p) \/ ToolPushConflict(p)
        \/ ToolPushLost(p) \/ DiesInUpdate(p) \/ DiesInRebalance(p) \/ DiesInMetaswap(p)
        \/ DiesInPush(p) \/ DiesAfterPush(p))
  BY <1>2 DEF ToolUpdate, ToolRebalance, ToolPush, ToolPushConflict, ToolPushLost, Step,
     DiesInUpdate, DiesInRebalance, DiesInPush, DiesInMetaswap, DiesAfterPush
<1>. QED  BY <1>4, <1>5, <1>6, <1>7, <1>8, <1>9 DEF Tool, Killed

(* The invariant behind ExternalRingsKept is inductive. *)
LEMMA UserNext == TypeOK /\ DeviceInv /\ UserInv /\ [Next]_vars => UserInv'
<1> SUFFICES ASSUME TypeOK, DeviceInv, UserInv, [Next]_vars, cm'.exists, cm'.fs.made = {}
             PROVE  cm'.fs.wrote = Rings /\ \A p \in Pods : StoppedByUserRings(p)'
  BY DEF UserInv
<1>1. cm'.fs = cm.fs /\ cm'.exists = cm.exists
  BY StoredWrites, PushedByOperator
<1>2. cm.exists /\ cm.fs.made = {} /\ cm.fs.wrote = Rings
      /\ \A p \in Pods : StoppedByUserRings(p)
  BY <1>1 DEF UserInv
<1>3. CASE UNCHANGED <<cm, pod>>
  BY <1>1, <1>2, <1>3 DEF StoppedByUserRings
<1>4. CASE Label
  <2>1. \A p \in Pods : pod'[p].pc = pod[p].pc /\ pod'[p].fs = pod[p].fs
    BY <1>4, OutdateFacts DEF Label, TypeOK
  <2>. QED  BY <1>1, <1>2, <2>1 DEF StoppedByUserRings
<1>5. ASSUME NEW p \in Pods, StoppedByUserRings(p)',
             \A q \in Pods \ {p} : pod'[q] = pod[q], NEW q \in Pods
      PROVE  StoppedByUserRings(q)'
  BY <1>2, <1>5 DEF StoppedByUserRings
<1>. QED  BY <1>1, <1>2, <1>3, <1>4, <1>5, NextSplit, UserPods

(* The two invariants hold of every reachable state. *)
LEMMA RingInvariant == Spec => [](TypeOK /\ DeviceInv /\ UserInv)
BY TypeInit, TypeNext, DeviceInit, DeviceNext, UserInit, UserNext, PTL DEF Spec

(* An accepted push needs builders, which no pod has under a user's rings. *)
LEMMA UserKept ==
  ASSUME TypeOK, DeviceInv, UserInv, [Next]_vars, cm.exists, cm.fs.made = {}
  PROVE  cm'.fs = cm.fs /\ cm'.exists
<1>1. \A p \in Pods : pod[p].pc # "push"
  BY DEF UserInv, StoppedByUserRings
<1>. QED  BY <1>1, StoredWrites

(* For any number of pods, restarts and faults the rebalance job never      *)
(* replaces rings that a user has provided (ExternalRingsKept).             *)
THEOREM UserRingsKept == Spec => ExternalRingsKept
<1>1. TypeOK /\ DeviceInv /\ UserInv /\ [Next]_vars
        => [cm.exists /\ cm.fs.made = {} => cm'.fs = cm.fs]_vars
  BY UserKept
<1>. QED  BY <1>1, RingInvariant, PTL DEF Spec, ExternalRingsKept

(* The initial ConfigMap is nobody's or a user's, and names no device. *)
LEMMA StoreInit == Init => Store!Init
<1> SUFFICES ASSUME Init  PROVE Store!Init
  OBVIOUS
<1>1. cm = NoCM \/ cm = ExternalCM
  BY DEF Init
<1>2. ~NoCM.exists /\ NoCM.fs.gz = [r \in Rings |-> {}]
  BY DEF NoCM, EmptyDir
<1>3. ExternalCM.exists /\ ExternalCM.fs.made = {} /\ ExternalCM.fs.gz = [r \in Rings |-> {}]
  BY DEF ExternalCM, EmptyDir
<1>4. Owner \in {"nobody", "user"}
  BY <1>1, <1>2, <1>3 DEF Owner
<1>5. \A r \in Rings : Names(cm.fs.gz[r]) = {}
  BY <1>1, <1>2, <1>3 DEF Names
<1>. QED  BY <1>4, <1>5 DEF Store!Init

(* Every step of the controller, the Job and its pods publishes rings or    *)
(* leaves what is served as it was.                                         *)
LEMMA StoreNext ==
  ASSUME TypeOK, TypeOK', DeviceInv, UserInv, [Next]_vars
  PROVE  [Store!Publish]_<<Owner, [r \in Rings |-> Names(cm.fs.gz[r])]>>
<1>1. CASE cm'.fs = cm.fs /\ cm'.exists = cm.exists
  BY <1>1 DEF Owner
<1>2. CASE \E p \in Pods : pod[p].pc = "push" /\ Accepted(p) /\ cm' = Pushed(p)
  <2>1. Owner' = "operator"
    BY <1>2, PushedByOperator DEF Owner
  <2>2. Owner # "user"
    BY <1>2 DEF Owner, UserInv, StoppedByUserRings
  <2>3. \A r \in Rings : Names(cm'.fs.gz[r]) \in SUBSET Devices
    BY DEF TypeOK, CMType, Files, Entry, Names
  <2>4. \A r \in Rings : Names(cm.fs.gz[r]) \subseteq Names(cm'.fs.gz[r])
    BY GrowNext
  <2>. QED  BY <2>1, <2>2, <2>3, <2>4 DEF Store!Publish
<1>. QED  BY <1>1, <1>2, StoredWrites

(* SwiftRing implements RingStore (ImplementsRingStore): whatever pods do   *)
(* next to each other, the services see rings that are published as a       *)
(* whole, only gain devices, and are never taken from a user.               *)
THEOREM Implementation == Spec => ImplementsRingStore
<1>1. TypeOK /\ DeviceInv /\ UserInv /\ (TypeOK /\ DeviceInv /\ UserInv)' /\ [Next]_vars
        => [Store!Publish]_<<Owner, [r \in Rings |-> Names(cm.fs.gz[r])]>>
  BY StoreNext
<1>. QED  BY <1>1, StoreInit, RingInvariant, PTL DEF Spec, ImplementsRingStore, Store!Spec

----------------------------------------------------------------------------
(* No host/disk is in a ring twice. *)

(* No two entries of a host/disk, none with a swapped address; one line    *)
(* for each host/disk.                                                     *)
Unique(entries) == \A e, f \in entries : ~e.swapped /\ (e.dev = f.dev => e = f)
UniqueDir(fs)   == \A r \in Rings : Unique(fs.b[r]) /\ Unique(fs.gz[r])
OneLine(lines)  == \A l, m \in lines : l.dev = m.dev => l = m

(* The inductive invariant behind NoDuplicateDevice: it speaks of every    *)
(* directory that may still be pushed, and of every list that update may   *)
(* read, since each line is searched for before any of them is added.      *)
UniqueInv ==
    /\ UniqueDir(cm.fs)
    /\ OneLine(ctl.lines) /\ (devCM # None => OneLine(devCM))
    /\ \A p \in Pods : UniqueDir(pod[p].fs) /\ OneLine(pod[p].vol)

(* DeviceList writes one line for each host/disk. *)
LEMMA DeviceListOneLine ==
  ASSUME NEW e \in EnvType
  PROVE  OneLine(DeviceList(e))
<1> SUFFICES ASSUME NEW l \in DeviceList(e), NEW m \in DeviceList(e), l.dev = m.dev
             PROVE  l = m
  BY DEF OneLine
<1>1. PICK d \in e.want : l = [dev |-> d, attr |-> e.attr[d]]
  BY DEF DeviceList
<1>2. PICK c \in e.want : m = [dev |-> c, attr |-> e.attr[c]]
  BY DEF DeviceList
<1>. QED  BY <1>1, <1>2

(* Swapping ip and meta twice gives back every entry. *)
LEMMA MetaswapTwice ==
  ASSUME NEW S \in SUBSET Entry
  PROVE  Metaswap(Metaswap(S)) = S
<1> DEFINE sw(e) == [e EXCEPT !.swapped = IF e.dev \in PVs THEN ~@ ELSE @]
<1>1. \A e \in S : sw(sw(e)) = e
  <2> SUFFICES ASSUME NEW e \in S PROVE sw(sw(e)) = e
    OBVIOUS
  <2>1. e \in Entry
    OBVIOUS
  <2>2. PICK d \in Devices, a \in Attrs, c \in BOOLEAN : e = [dev |-> d, attr |-> a, swapped |-> c]
    BY <2>1 DEF Entry
  <2>3. CASE d \in PVs
    <3>1. \A x \in BOOLEAN : sw([dev |-> d, attr |-> a, swapped |-> x])
                               = [dev |-> d, attr |-> a, swapped |-> ~x]
      BY <2>3
    <3>2. c = TRUE \/ c = FALSE
      OBVIOUS
    <3> HIDE DEF sw
    <3>3. /\ sw([dev |-> d, attr |-> a, swapped |-> TRUE]) = [dev |-> d, attr |-> a, swapped |-> FALSE]
          /\ sw([dev |-> d, attr |-> a, swapped |-> FALSE]) = [dev |-> d, attr |-> a, swapped |-> TRUE]
      BY <3>1
    <3>. QED  BY <2>2, <3>2, <3>3
  <2>4. CASE d \notin PVs
    BY <2>2, <2>4
  <2>. QED  BY <2>3, <2>4
<1>2. Metaswap(S) = {sw(e) : e \in S}
  BY DEF Metaswap
<1>3. Metaswap(Metaswap(S)) = {sw(e) : e \in Metaswap(S)}
  BY DEF Metaswap
<1> HIDE DEF sw
<1>. QED  BY <1>1, <1>2, <1>3

(* What the functions of swift-ring-tool do to directories without         *)
(* duplicates.                                                             *)
LEMMA UniqueEmpty == UniqueDir(EmptyDir)
BY DEF UniqueDir, EmptyDir, Unique

(* Unpacking a stored directory brings no duplicates. *)
LEMMA UniqueUntar ==
  ASSUME NEW fs \in Files, NEW stored \in Files, UniqueDir(fs), UniqueDir(stored)
  PROVE  UniqueDir(Untar(fs, stored))
BY DEF UniqueDir, Untar, Files

(* New builders are empty. *)
LEMMA UniqueCreate ==
  ASSUME NEW fs \in Files, UniqueDir(fs), NEW rings
  PROVE  UniqueDir(CreateBuilders(fs, rings))
<1>1. CreateBuilders(fs, rings).b = fs.b /\ CreateBuilders(fs, rings).gz = fs.gz
  BY DEF CreateBuilders, Files
<1>. QED  BY <1>1 DEF UniqueDir

(* "Check if host/disk exists and only add if not" *)
LEMMA UniqueUpdate ==
  ASSUME NEW fs \in Files, UniqueDir(fs), NEW lines \in [Rings -> SUBSET Line],
         \A r \in Rings : OneLine(lines[r])
  PROVE  UniqueDir(Update(fs, lines))
<1>1. Update(fs, lines) = [fs EXCEPT !.b = [r \in Rings |-> fs.b[r] \cup Added(fs.b[r], lines[r])]]
  BY DEF Update
<1>2. /\ Update(fs, lines).gz = fs.gz
      /\ \A r \in Rings : Update(fs, lines).b[r] = fs.b[r] \cup Added(fs.b[r], lines[r])
  BY <1>1 DEF Files
<1>3. ASSUME NEW r \in Rings PROVE Unique(fs.b[r] \cup Added(fs.b[r], lines[r]))
  <2>1. \A x \in Added(fs.b[r], lines[r]) :
           \E l \in lines[r] : /\ ~Search(fs.b[r], l.dev)
                               /\ x = [dev |-> l.dev, attr |-> l.attr, swapped |-> FALSE]
    BY DEF Added
  <2>2. \A x \in Added(fs.b[r], lines[r]) :
           x.swapped = FALSE /\ \A e \in fs.b[r] : e.dev # x.dev
    BY <2>1 DEF Search, UniqueDir, Unique
  <2>3. ASSUME NEW x \in Added(fs.b[r], lines[r]), NEW y \in Added(fs.b[r], lines[r]),
               x.dev = y.dev
        PROVE  x = y
    <3>1. PICK l \in lines[r] : x = [dev |-> l.dev, attr |-> l.attr, swapped |-> FALSE]
      BY <2>1
    <3>2. PICK m \in lines[r] : y = [dev |-> m.dev, attr |-> m.attr, swapped |-> FALSE]
      BY <2>1
    <3>3. l = m
      BY <2>3, <3>1, <3>2 DEF OneLine
    <3>. QED  BY <3>1, <3>2, <3>3
  <2>4. Unique(fs.b[r])
    BY DEF UniqueDir
  <2>. QED  BY <2>2, <2>3, <2>4 DEF Unique
<1>. QED  BY <1>2, <1>3 DEF UniqueDir

(* Two metaswaps cancel, so rebalance brings no duplicates. *)
LEMMA UniqueRebalance ==
  ASSUME NEW fs \in Files, UniqueDir(fs), NEW done \in SUBSET Rings
  PROVE  UniqueDir(Rebalance(fs, done))
<1>1. \A r \in Rings : Unique(Metaswap(Metaswap(fs.b[r])))
  BY MetaswapTwice DEF Files, UniqueDir, Unique
<1>. QED  BY <1>1 DEF Rebalance, UniqueDir

(* The lists that the controller computes and writes. *)
LEMMA UniqueLists ==
  ASSUME TypeOK, UniqueInv, [Next]_vars
  PROVE  OneLine(ctl'.lines) /\ (devCM' # None => OneLine(devCM'))
<1>1. OneLine({}) /\ OneLine(DeviceList(seen)) /\ OneLine(ctl.lines) /\ IdleCtl.lines = {}
  BY DeviceListOneLine DEF TypeOK, UniqueInv, OneLine, IdleCtl
<1>2. ASSUME UNCHANGED <<ctl, devCM>> PROVE OneLine(ctl'.lines) /\ (devCM' # None => OneLine(devCM'))
  BY <1>2 DEF UniqueInv
<1>3. ASSUME devCM' = devCM, ctl'.lines \in {{}, ctl.lines, DeviceList(seen)}
      PROVE  OneLine(ctl'.lines) /\ (devCM' # None => OneLine(devCM'))
  BY <1>1, <1>3 DEF UniqueInv
<1>4. CASE Environment \/ (\E d \in PVs : Bind(d)) \/ Informers \/ UNCHANGED vars
  BY <1>2, <1>4 DEF Environment, AddDevice, RemoveDevice, SetAttr, LosePod, Bind, Informers,
     SyncWant, SyncAttr, SyncAvail, SyncCR, SyncCM, ctlVars, vars
<1>5. CASE Kubernetes \/ \E p \in Pods : Tool(p)
  BY <1>2, <1>5 DEF Kubernetes, JobActive, JobFinished, CreatePod, CollectPod, Tool, ToolGet,
     ToolInit, ToolUpdate, ToolRebalance, ToolPush, ToolPushConflict, Step, ctlVars
<1>6. CASE Failures
  <2>1. CASE CallFails \/ PatchFails \/ Crash
    BY <1>1, <1>3, <2>1 DEF CallFails, PatchFails, Crash, TypeOK, CtlType
  <2>2. ASSUME NEW p \in Pods,
               EvictPod(p) \/ ToolPushLost(p) \/ Killed(p) \/ DiesAfterPush(p)
        PROVE  UNCHANGED <<ctl, devCM>>
    BY <2>2, KilledDies DEF EvictPod, ToolPushLost, DiesAfterPush, Dies, ctlVars
  <2>. QED  BY <1>2, <1>6, <2>1, <2>2 DEF Failures
<1>7. CASE Reconcile
  <2>1. CASE ReconcileNew \/ ReconcileNoDevices \/ ReconcileListChanged \/ ReconcileListSame
    BY <1>3, <2>1 DEF ReconcileNew, ReconcileNoDevices, ReconcileListChanged,
       ReconcileListSame, Begin
  <2>2. CASE EnsureConfigMaps
    <3>1. devCM' = ctl.lines /\ ctl'.lines = ctl.lines
      BY <2>2 DEF EnsureConfigMaps, TypeOK, CtlType
    <3>. QED  BY <1>1, <3>1
  <2>3. CASE \/ GetJob \/ DeleteJob \/ DoJobSkip \/ DoJobCreate \/ DoJobWait
             \/ DoJobComplete \/ Label
    <3>1. devCM' = devCM /\ ctl'.lines = ctl.lines
      BY <2>3 DEF GetJob, DeleteJob, DoJobSkip, DoJobCreate, DoJobWait, DoJobComplete, Label,
         TypeOK, CtlType
    <3>. QED  BY <1>3, <3>1
  <2>4. CASE PatchInstance
    BY <1>1, <1>3, <2>4 DEF PatchInstance
  <2>. QED  BY <1>7, <2>1, <2>2, <2>3, <2>4 DEF Reconcile
<1>. QED  BY <1>4, <1>5, <1>6, <1>7 DEF Next

(* What a pod leaves in its directory, and keeps mounted. *)
LEMMA UniqueTool ==
  ASSUME TypeOK, UniqueInv, NEW p \in Pods, Tool(p)
  PROVE  /\ UniqueDir(cm'.fs)
         /\ \A q \in Pods : UniqueDir(pod'[q].fs) /\ OneLine(pod'[q].vol)
<1>1. /\ pod[p].fs \in Files /\ cm.fs \in Files /\ pod \in [Pods -> PodType]
      /\ UniqueDir(cm.fs) /\ UniqueDir(pod[p].fs)
      /\ \A q \in Pods : UniqueDir(pod[q].fs) /\ OneLine(pod[q].vol)
  BY DEF TypeOK, PodType, CMType, UniqueInv
<1>2. ASSUME NEW from, NEW to, NEW fs, Step(p, from, to, fs), UniqueDir(fs)
      PROVE  /\ UniqueDir(cm'.fs)
             /\ \A q \in Pods : UniqueDir(pod'[q].fs) /\ OneLine(pod'[q].vol)
  <2>1. /\ cm' = cm /\ pod'[p].fs = fs /\ pod'[p].vol = pod[p].vol
        /\ \A q \in Pods \ {p} : pod'[q] = pod[q]
    BY <1>1, <1>2 DEF Step, PodType
  <2>. QED  BY <1>1, <1>2, <2>1
<1>3. CASE ToolGet(p)
  <2>1. /\ cm' = cm /\ pod'[p].vol = pod[p].vol
        /\ pod'[p].fs = IF cm.exists THEN Untar(pod[p].fs, cm.fs) ELSE pod[p].fs
        /\ \A q \in Pods \ {p} : pod'[q] = pod[q]
    BY <1>1, <1>3 DEF ToolGet, PodType
  <2>2. UniqueDir(Untar(pod[p].fs, cm.fs))
    BY <1>1, UniqueUntar
  <2>. QED  BY <1>1, <2>1, <2>2
<1>4. CASE ToolInit(p)
  BY <1>1, <1>2, <1>4, UniqueCreate DEF ToolInit
<1>5. CASE ToolUpdate(p)
  <2>1. PICK lines \in {pod[p].vol, devCM} \ {None} :
             Step(p, "update", "rebalance", Update(pod[p].fs, [r \in Rings |-> lines]))
    BY <1>5 DEF ToolUpdate
  <2>2. [r \in Rings |-> lines] \in [Rings -> SUBSET Line]
    BY DEF TypeOK, PodType, Lists
  <2>3. \A r \in Rings : OneLine([s \in Rings |-> lines][r])
    BY DEF UniqueInv
  <2>. QED  BY <1>1, <1>2, <2>1, <2>2, <2>3, UniqueUpdate
<1>6. CASE ToolRebalance(p)
  BY <1>1, <1>2, <1>6, UniqueRebalance DEF ToolRebalance
<1>7. CASE ToolPush(p)
  <2>1. cm'.fs = pod[p].fs
    BY <1>7 DEF ToolPush, Pushed
  <2>2. \A q \in Pods : pod'[q].fs = pod[q].fs /\ pod'[q].vol = pod[q].vol
    BY <1>1, <1>7 DEF ToolPush, Outdate, PodType
  <2>. QED  BY <1>1, <2>1, <2>2
<1>8. CASE ToolPushConflict(p)
  BY <1>1, <1>2, <1>8 DEF ToolPushConflict
<1>. QED  BY <1>3, <1>4, <1>5, <1>6, <1>7, <1>8 DEF Tool

(* A directory that outlives its container has no duplicates either,       *)
(* unless the container was killed between two metaswaps.                  *)
LEMMA UniquePods ==
  ASSUME "kill_rebalance" \notin Faults, TypeOK, UniqueInv, NEW p \in Pods,
         \/ CreatePod(p) \/ CollectPod(p) \/ EvictPod(p) \/ ToolPushLost(p)
         \/ Killed(p) \/ DiesAfterPush(p)
  PROVE  /\ UniqueDir(cm'.fs)
         /\ \A q \in Pods : UniqueDir(pod'[q].fs) /\ OneLine(pod'[q].vol)
<1>1. /\ pod[p].fs \in Files /\ pod \in [Pods -> PodType]
      /\ UniqueDir(cm.fs) /\ UniqueDir(pod[p].fs)
      /\ \A q \in Pods : UniqueDir(pod[q].fs) /\ OneLine(pod[q].vol)
  BY DEF TypeOK, PodType, UniqueInv
<1>2. \A fs : Restart(p, fs).fs = fs /\ Restart(p, fs).vol = pod[p].vol
  BY <1>1 DEF Restart, PodType
<1>3. ASSUME NEW kind, NEW fs, Dies(p, kind, fs), UniqueDir(fs)
      PROVE  /\ UniqueDir(cm'.fs)
             /\ \A q \in Pods : UniqueDir(pod'[q].fs) /\ OneLine(pod'[q].vol)
  <2>1. /\ cm' = cm /\ pod'[p].fs = fs /\ pod'[p].vol = pod[p].vol
        /\ \A q \in Pods \ {p} : pod'[q] = pod[q]
    BY <1>1, <1>2, <1>3 DEF Dies
  <2>. QED  BY <1>1, <1>3, <2>1
<1>4. /\ NoPod.fs = EmptyDir /\ OneLine(NoPod.vol)
      /\ \A l : /\ [NoPod EXCEPT !.pc = "get", !.vol = l].fs = EmptyDir
                /\ [NoPod EXCEPT !.pc = "get", !.vol = l].vol = l
  BY DEF NoPod, OneLine
<1>5. CASE CreatePod(p)
  <2>1. /\ cm' = cm /\ pod'[p].fs = EmptyDir /\ pod'[p].vol = devCM /\ devCM # None
        /\ \A q \in Pods \ {p} : pod'[q] = pod[q]
    BY <1>1, <1>4, <1>5 DEF CreatePod
  <2>. QED  BY <1>1, <2>1, UniqueEmpty DEF UniqueInv
<1>6. CASE CollectPod(p) \/ EvictPod(p)
  <2>1. cm' = cm /\ pod'[p] = NoPod /\ \A q \in Pods \ {p} : pod'[q] = pod[q]
    BY <1>1, <1>6 DEF CollectPod, EvictPod
  <2>. QED  BY <1>1, <1>4, <2>1, UniqueEmpty
<1>7. CASE ToolPushLost(p)
  <2>1. cm' = cm /\ \A q \in Pods : pod'[q].fs = pod[q].fs /\ pod'[q].vol = pod[q].vol
    BY <1>1, <1>7 DEF ToolPushLost, PodType
  <2>. QED  BY <1>1, <2>1
<1>8. CASE DiesInGet(p)
  BY <1>1, <1>3, <1>8 DEF DiesInGet
<1>9. CASE DiesInInit(p)
  BY <1>1, <1>3, <1>9, UniqueCreate DEF DiesInInit
<1>10. CASE DiesInUpdate(p)
  <2>1. PICK lines \in {pod[p].vol, devCM} \ {None} : \E part \in [Rings -> SUBSET lines] :
             Dies(p, "kill", Update(pod[p].fs, part))
    BY <1>10 DEF DiesInUpdate
  <2>2. PICK part \in [Rings -> SUBSET lines] : Dies(p, "kill", Update(pod[p].fs, part))
    BY <2>1
  <2>3. part \in [Rings -> SUBSET Line]
    BY DEF TypeOK, PodType, Lists
  <2>4. OneLine(lines)
    BY DEF UniqueInv
  <2>5. \A r \in Rings : OneLine(part[r])
    BY <2>4 DEF OneLine
  <2>. QED  BY <1>1, <1>3, <2>2, <2>3, <2>5, UniqueUpdate
<1>11. CASE DiesInRebalance(p) \/ DiesInMetaswap(p) \/ DiesInPush(p)
  <2>1. ~DiesInMetaswap(p)
    BY DEF DiesInMetaswap, Dies, Fault
  <2>. QED  BY <1>1, <1>3, <1>11, <2>1, UniqueRebalance DEF DiesInRebalance, DiesInPush
<1>12. CASE DiesAfterPush(p)
  <2>1. cm'.fs = pod[p].fs
    BY <1>12 DEF DiesAfterPush, Pushed
  <2>2. \A q \in Pods : pod'[q].fs = pod[q].fs /\ pod'[q].vol = pod[q].vol
    BY <1>1, <1>2, <1>12 DEF DiesAfterPush, Outdate, PodType
  <2>. QED  BY <1>1, <2>1, <2>2
<1>. QED  BY <1>5, <1>6, <1>7, <1>8, <1>9, <1>10, <1>11, <1>12 DEF Killed

(* Nothing is stored at first, or rings without entries. *)
LEMMA UniqueInit == Init => UniqueInv
<1> SUFFICES ASSUME Init PROVE UniqueInv
  OBVIOUS
<1>1. UniqueDir(NoCM.fs) /\ UniqueDir(ExternalCM.fs)
  <2>1. ExternalCM.fs.b = EmptyDir.b /\ ExternalCM.fs.gz = EmptyDir.gz
    BY DEF ExternalCM, EmptyDir
  <2>. QED  BY <2>1, UniqueEmpty DEF NoCM, UniqueDir
<1>2. UniqueDir(cm.fs)
  BY <1>1 DEF Init
<1>3. OneLine(ctl.lines) /\ devCM = None
  BY DEF Init, IdleCtl, OneLine
<1>4. \A p \in Pods : UniqueDir(pod[p].fs) /\ OneLine(pod[p].vol)
  BY UniqueEmpty DEF Init, NoPod, OneLine
<1>. QED  BY <1>2, <1>3, <1>4 DEF UniqueInv

(* UniqueInv is inductive without kills between two metaswaps. *)
LEMMA UniqueNext ==
  ASSUME "kill_rebalance" \notin Faults
  PROVE  TypeOK /\ UniqueInv /\ [Next]_vars => UniqueInv'
<1> SUFFICES ASSUME TypeOK, UniqueInv, [Next]_vars PROVE UniqueInv'
  OBVIOUS
<1> DEFINE Pushable == /\ UniqueDir(cm'.fs)
                       /\ \A q \in Pods : UniqueDir(pod'[q].fs) /\ OneLine(pod'[q].vol)
<1>1. ASSUME UNCHANGED <<cm, pod>> PROVE Pushable
  BY <1>1 DEF UniqueInv
<1>2. ASSUME Label PROVE Pushable
  <2>1. cm'.fs = cm.fs
    BY <1>2 DEF Label, TypeOK, CMType
  <2>2. \A q \in Pods : pod'[q].fs = pod[q].fs /\ pod'[q].vol = pod[q].vol
    BY <1>2 DEF Label, Outdate, TypeOK, PodType
  <2>. QED  BY <2>1, <2>2 DEF UniqueInv
<1>3. Pushable
  BY <1>1, <1>2, NextSplit, UniqueTool, UniquePods
<1>. QED  BY <1>3, UniqueLists DEF UniqueInv

(* Whatever is re-run after failing calls, lost pushes, evictions, pods    *)
(* that overlap and containers killed anywhere but between the metaswaps   *)
(* of rebalance: the rings hold no host/disk twice and none under a        *)
(* swapped address (NoDuplicateDevice).  The exception is needed: a        *)
(* builder left swapped is not found by search.                            *)
THEOREM DevicesAreUnique ==
  ASSUME "kill_rebalance" \notin Faults
  PROVE  Spec => []NoDuplicateDevice
<1>1. UniqueInv => NoDuplicateDevice
  BY DEF UniqueInv, UniqueDir, Unique, NoDuplicateDevice
<1>. QED  BY <1>1, TypeInit, TypeNext, UniqueInit, UniqueNext, PTL DEF Spec

----------------------------------------------------------------------------
(* What pods do to the stored rings: one pod at a time, each building on   *)
(* what is stored.                                                         *)

(* The host/disks of a list, the entries that search finds, and the lists  *)
(* that the stored rings contain.                                          *)
Listed(l)      == IF l = None THEN {} ELSE {x.dev : x \in l}
Plain(entries) == {e.dev : e \in {f \in entries : ~f.swapped}}
Covered(l)     == \A r \in Rings : Listed(l) \subseteq Plain(cm.fs.gz[r])

(* One pod at a time, and a Job's status is that of its pod. *)
Alone ==
    /\ \A p, q \in Pods : pod[p].pc # "none" /\ pod[q].pc # "none" => p = q
    /\ job.pod # None => job.exists /\ pod[job.pod].pc # "none"
    /\ job.result = "complete" => job.pod # None /\ pod[job.pod].pc = "done"

(* What is stored was made by the tool. *)
StoredWhole ==
    /\ cm.fs.wrote \subseteq cm.fs.made
    /\ cm.exists => cm.fs.made = Rings
    /\ \A r \in Rings : cm.fs.gz[r] = cm.fs.b[r] /\ (~cm.exists => cm.fs.b[r] = {})

(* A pod that may still push has what is stored. *)
Working(p) ==
    /\ pod[p].fs.wrote \subseteq pod[p].fs.made
    /\ pod[p].pc \in ToolPoints \ {"get"} /\ pod[p].json = "absent" => ~cm.exists
    /\ pod[p].pc \in ToolPoints \ {"get"} /\ pod[p].json = "current"
          => cm.exists /\ \A r \in Rings : Plain(cm.fs.b[r]) \subseteq Plain(pod[p].fs.b[r])

WholeInv == StoredWhole /\ \A p \in Pods : Working(p)

(* What search finds in the stored rings it will always find. *)
RingsKept == \A r \in Rings : Plain(cm.fs.gz[r]) \subseteq Plain(cm'.fs.gz[r])

(* What a step of the tool in pod p, or its end, amounts to: the container *)
(* starts again or has failed, get reads the ConfigMap, update adds the    *)
(* lines it finds, and a push is refused or stores the builders.           *)
Advances(p) ==
    \/ pod'[p].pc \in {"get", "failed"}
    \/ pod'[p].pc = "init" /\ pod'[p].json # "outdated"
    \/ pod[p].pc = "init" /\ pod'[p].pc = "update" /\ pod'[p].json = pod[p].json
    \/ /\ pod[p].pc = "update" /\ pod'[p].pc = "rebalance" /\ pod'[p].json = pod[p].json
       /\ \E lines \in {pod[p].vol, devCM} \ {None} :
             \A r \in Rings : Listed(lines) \subseteq Plain(pod'[p].fs.b[r])
    \/ /\ pod[p].pc = "rebalance" /\ pod'[p].pc = "push" /\ pod'[p].json = pod[p].json
       /\ \A r \in Rings : pod'[p].fs.b[r] = pod[p].fs.b[r]
    \/ /\ pod[p].pc = "push" /\ pod'[p].pc = "done"
       /\ \/ pod[p].json = "outdated"
          \/ \A r \in Rings : cm'.fs.gz[r] = pod[p].fs.b[r]

(* Such a step concerns the pod, which is there and stays, and the rings. *)
Runs(p) ==
    /\ UNCHANGED <<env, seen, cr, ctl, devCM, job>>
    /\ pod[p].pc \in ToolPoints /\ pod'[p].pc # "none" /\ pod'[p].vol = pod[p].vol
    /\ \A q \in Pods \ {p} : /\ pod'[q].pc = pod[q].pc /\ pod'[q].fs = pod[q].fs
                             /\ pod'[q].vol = pod[q].vol

(* The steps of a pod by itself. *)
PodStep(p) == Tool(p) \/ ToolPushLost(p) \/ Killed(p) \/ DiesAfterPush(p)

----------------------------------------------------------------------------
(* What is known of lists and entries. *)
LEMMA ListedDeviceList ==
  ASSUME NEW e \in EnvType
  PROVE  Listed(DeviceList(e)) = e.want /\ Listed({}) = {}
<1>1. DeviceList(e) # None /\ {} # None
  <2>1. DeviceList(e) \in SUBSET Line /\ {} \in SUBSET Line
    BY DeviceListType DEF Lists
  <2>. QED  BY <2>1, SwiftRingAssumption
<1>2. {x.dev : x \in DeviceList(e)} = e.want
  <2> DEFINE line(d) == [dev |-> d, attr |-> e.attr[d]]
  <2>1. DeviceList(e) = {line(d) : d \in e.want} /\ \A d \in e.want : line(d).dev = d
    BY DEF DeviceList
  <2> HIDE DEF line
  <2>. QED  BY <2>1
<1>. QED  BY <1>1, <1>2 DEF Listed

(* After update search finds what it found before and the lines. *)
LEMMA PlainUpdate ==
  ASSUME NEW fs \in Files, NEW lines \in [Rings -> SUBSET Line], NEW r \in Rings
  PROVE  /\ Plain(fs.b[r]) \subseteq Plain(Update(fs, lines).b[r])
         /\ Listed(lines[r]) \subseteq Plain(Update(fs, lines).b[r])
         /\ Update(fs, lines).wrote = fs.wrote /\ Update(fs, lines).made = fs.made
<1>1. /\ Update(fs, lines).b[r] = fs.b[r] \cup Added(fs.b[r], lines[r])
      /\ Update(fs, lines).wrote = fs.wrote /\ Update(fs, lines).made = fs.made
  BY DEF Update, Files
<1>2. ASSUME NEW l \in lines[r] PROVE l.dev \in Plain(Update(fs, lines).b[r])
  <2>1. CASE Search(fs.b[r], l.dev)
    BY <1>1, <2>1 DEF Search, Plain
  <2>2. CASE ~Search(fs.b[r], l.dev)
    <3> DEFINE x == [dev |-> l.dev, attr |-> l.attr, swapped |-> FALSE]
    <3>1. x \in Added(fs.b[r], lines[r])
      BY <2>2 DEF Added
    <3>2. x.dev = l.dev /\ ~x.swapped
      OBVIOUS
    <3> HIDE DEF x
    <3>. QED  BY <1>1, <3>1, <3>2 DEF Plain
  <2>. QED  BY <2>1, <2>2
<1>3. Listed(lines[r]) \subseteq Plain(Update(fs, lines).b[r])
  BY <1>2 DEF Listed
<1>. QED  BY <1>1, <1>3 DEF Plain

(* Rebalance keeps the builders and writes them to the rings. *)
LEMMA PlainRebalance ==
  ASSUME NEW fs \in Files, NEW done \in SUBSET Rings
  PROVE  /\ \A r \in Rings : Rebalance(fs, done).b[r] = fs.b[r]
         /\ \A r \in done : Rebalance(fs, done).gz[r] = fs.b[r]
         /\ Rebalance(fs, done).made = fs.made
         /\ Rebalance(fs, done).wrote = fs.wrote \cup done
<1>1. \A r \in Rings : Metaswap(Metaswap(fs.b[r])) = fs.b[r]
  BY MetaswapTwice DEF Files
<1>. QED  BY <1>1 DEF Rebalance

----------------------------------------------------------------------------
(* A step of a pod leaves the controller, the Job and the other pods. *)
LEMMA PodRuns ==
  ASSUME TypeOK, NEW p \in Pods, PodStep(p)
  PROVE  Runs(p)
<1>1. pod \in [Pods -> PodType] /\ pod[p] \in PodType
  BY DEF TypeOK
<1>2. \A fs : Restart(p, fs).pc # "none" /\ Restart(p, fs).vol = pod[p].vol
  BY <1>1 DEF Restart, PodType
<1>3. \A q \in Pods : /\ Outdate(pod)[q].pc = pod[q].pc /\ Outdate(pod)[q].fs = pod[q].fs
                      /\ Outdate(pod)[q].vol = pod[q].vol
                      /\ Outdate(pod) \in [Pods -> PodType]
  BY <1>1, OutdateFacts DEF Outdate, PodType
<1>4. ASSUME NEW from \in ToolPoints, NEW to \in PodPoints \ {"none"}, NEW fs,
             Step(p, from, to, fs)
      PROVE  Runs(p)
  BY <1>1, <1>4 DEF Step, PodType, envVars, ctlVars, Runs
<1>5. ASSUME NEW kind, NEW fs, Dies(p, kind, fs), pod[p].pc \in ToolPoints
      PROVE  Runs(p)
  BY <1>1, <1>2, <1>5 DEF Dies, envVars, ctlVars, Runs
<1>6. CASE ToolGet(p) \/ ToolPushLost(p)
  BY <1>1, <1>6 DEF ToolGet, ToolPushLost, PodType, envVars, ctlVars, ToolPoints, Runs
<1>7. CASE ToolInit(p) \/ ToolUpdate(p) \/ ToolRebalance(p) \/ ToolPushConflict(p)
  <2>1. PICK from \in ToolPoints, to \in PodPoints \ {"none"} : \E fs : Step(p, from, to, fs)
    BY <1>7 DEF ToolInit, ToolUpdate, ToolRebalance, ToolPushConflict, ToolPoints, PodPoints
  <2>. QED  BY <1>4, <2>1
<1>8. CASE ToolPush(p)
  BY <1>3, <1>8 DEF ToolPush, PodType, envVars, ctlVars, ToolPoints, Runs
<1>9. CASE DiesAfterPush(p)
  BY <1>2, <1>3, <1>9 DEF DiesAfterPush, envVars, ctlVars, ToolPoints, Runs
<1>10. CASE Killed(p)
  BY <1>5, <1>10, KilledDies
<1>. QED  BY <1>6, <1>7, <1>8, <1>9, <1>10 DEF PodStep, Tool

(* Pods come one at a time unless one of a deleted Job still runs. *)
LEMMA AloneNext ==
  ASSUME "overlap" \notin Faults
  PROVE  TypeOK /\ Alone /\ [Next]_vars => Alone'
<1> SUFFICES ASSUME TypeOK, Alone, [Next]_vars PROVE Alone'
  OBVIOUS
<1>0. job \in JobType /\ (job.pod # None => job.pod \in Pods)
  BY DEF TypeOK, JobType
<1>1. CASE \/ Environment \/ (\E d \in PVs : Bind(d)) \/ Informers \/ UNCHANGED vars
           \/ Reconcile /\ ~DeleteJob /\ ~DoJobCreate
           \/ CallFails \/ PatchFails \/ Crash
  <2>1. job' = job
    BY <1>1 DEF Environment, AddDevice, RemoveDevice, SetAttr, LosePod, Bind, Informers,
       SyncWant, SyncAttr, SyncAvail, SyncCR, SyncCM, vars, Reconcile, ReconcileNew,
       ReconcileNoDevices, ReconcileListChanged, ReconcileListSame, Begin, EnsureConfigMaps,
       GetJob, DoJobSkip, DoJobWait, DoJobComplete, Label, PatchInstance, CallFails,
       PatchFails, Crash
  <2>2. \A q \in Pods : pod'[q].pc = pod[q].pc
    <3>1. CASE Label
      BY <3>1, OutdateFacts DEF Label, TypeOK
    <3>2. CASE ~Label
      BY <1>1, <3>2, OtherSteps
    <3>. QED  BY <3>1, <3>2
  <2>. QED  BY <1>0, <2>1, <2>2 DEF Alone
<1>2. CASE DeleteJob \/ DoJobCreate
  <2>1. pod' = pod /\ job'.pod = None /\ job'.result = "none"
    BY <1>2 DEF DeleteJob, DoJobCreate, NoJob
  <2>. QED  BY <2>1 DEF Alone
<1>3. CASE JobActive \/ JobFinished
  <2>1. /\ pod' = pod /\ job'.pod = job.pod /\ job'.exists = job.exists
        /\ job'.result = "complete" => job.result = "complete" \/ pod[job.pod].pc = "done"
    BY <1>0, <1>3 DEF JobActive, JobFinished, JobType
  <2>2. job.pod # None
    BY <1>3 DEF JobActive, JobFinished
  <2>. QED  BY <1>0, <2>1, <2>2 DEF Alone
<1>4. ASSUME NEW p \in Pods, CreatePod(p) PROVE Alone'
  <2>1. \A q \in Pods : pod[q].pc = "none"
    BY <1>4 DEF CreatePod
  <2>2. job'.pod = p /\ job'.exists /\ job'.result = "none"
    BY <1>0, <1>4 DEF CreatePod, JobType
  <2>3. pod'[p].pc = "get" /\ \A q \in Pods \ {p} : pod'[q].pc = "none"
    <3>1. \A l : [NoPod EXCEPT !.pc = "get", !.vol = l].pc = "get"
      BY DEF NoPod
    <3>. QED  BY <1>4, <2>1, <3>1 DEF CreatePod, TypeOK
  <2>. QED  BY <2>2, <2>3 DEF Alone
<1>5. ASSUME NEW p \in Pods, CollectPod(p) \/ EvictPod(p) PROVE Alone'
  <2>1. pod'[p].pc = "none" /\ \A q \in Pods \ {p} : pod'[q] = pod[q]
    BY <1>5 DEF CollectPod, EvictPod, TypeOK, NoPod
  <2>2. /\ job'.exists = job.exists /\ job'.result = job.result /\ job'.pod # p
        /\ job' = job \/ (job'.pod = None /\ job.result # "complete")
    <3>1. CASE CollectPod(p)
      BY <3>1 DEF CollectPod
    <3>2. CASE EvictPod(p)
      <4>1. job.result # "complete"
        BY <3>2 DEF EvictPod, Alone, ToolPoints
      <4>. QED  BY <1>0, <3>2, <4>1, SwiftRingAssumption DEF EvictPod, JobType
    <3>. QED  BY <1>5, <3>1, <3>2
  <2>3. job'.pod # None => job'.pod \in Pods \ {p} /\ job'.pod = job.pod
    BY <1>0, <2>2
  <2>. QED  BY <2>1, <2>2, <2>3 DEF Alone
<1>6. ASSUME NEW p \in Pods, PodStep(p) PROVE Alone'
  <2>1. Runs(p) /\ pod[p].pc # "none" /\ pod[p].pc # "done"
    BY <1>6, PodRuns DEF Runs, ToolPoints
  <2>2. \A q \in Pods \ {p} : pod[q].pc = "none" /\ pod'[q].pc = "none"
    BY <2>1 DEF Alone, Runs
  <2>3. (job.pod = None \/ job.pod = p) /\ job.result # "complete"
    BY <1>0, <2>1, <2>2 DEF Alone
  <2>. QED  BY <2>1, <2>2, <2>3 DEF Alone, Runs
<1>. QED  BY <1>1, <1>2, <1>3, <1>4, <1>5, <1>6 DEF Next, Kubernetes, Failures, Reconcile, PodStep

(* What a step of a pod does to its directory and its json file. *)
LEMMA PodAdvances ==
  ASSUME TypeOK, DeviceInv, WholeInv, NEW p \in Pods, PodStep(p), ~ToolPushLost(p)
  PROVE  Advances(p)
<1>1. /\ pod[p].fs \in Files /\ pod[p] \in PodType /\ pod \in [Pods -> PodType]
      /\ PodBasedOnStored(p) /\ Working(p)
  BY DEF TypeOK, PodType, DeviceInv, WholeInv
<1>2. \A fs : Restart(p, fs).pc \in {"get", "failed"}
  BY <1>1 DEF Restart, PodType
<1>3. ASSUME NEW from, NEW to, NEW fs, Step(p, from, to, fs)
      PROVE  /\ pod[p].pc = from /\ pod'[p].pc = to /\ pod'[p].fs = fs
             /\ pod'[p].json = pod[p].json
  BY <1>1, <1>3 DEF Step, PodType
<1>4. CASE ToolGet(p)
  BY <1>1, <1>4 DEF ToolGet, PodType, Advances
<1>5. CASE ToolInit(p)
  <2>1. ~ForeignRing(pod[p].fs)
    BY <1>1 DEF ForeignRing, Working
  <2>. QED  BY <1>3, <1>5, <2>1 DEF ToolInit, Advances
<1>6. CASE ToolUpdate(p)
  <2>1. PICK lines \in {pod[p].vol, devCM} \ {None} :
             Step(p, "update", "rebalance", Update(pod[p].fs, [r \in Rings |-> lines]))
    BY <1>6 DEF ToolUpdate
  <2>2. [r \in Rings |-> lines] \in [Rings -> SUBSET Line]
    BY DEF TypeOK, PodType, Lists
  <2>3. \A r \in Rings :
           Listed(lines) \subseteq Plain(Update(pod[p].fs, [s \in Rings |-> lines]).b[r])
    BY <1>1, <2>2, PlainUpdate
  <2>. QED  BY <1>3, <2>1, <2>3 DEF Advances
<1>7. CASE ToolRebalance(p)
  BY <1>1, <1>3, <1>7, PlainRebalance DEF ToolRebalance, Advances
<1>8. CASE ToolPush(p)
  <2>1. \A r \in Rings : pod[p].fs.gz[r] = pod[p].fs.b[r]
    BY <1>1, <1>8 DEF PodBasedOnStored, ToolPush
  <2>2. pod[p].pc = "push" /\ pod'[p].pc = "done" /\ cm'.fs = pod[p].fs
    BY <1>1, <1>8, OutdateFacts DEF ToolPush, Pushed, PodType
  <2>. QED  BY <2>1, <2>2 DEF Advances
<1>9. CASE ToolPushConflict(p)
  <2>1. pod[p].pc = "push" /\ pod'[p].pc = "done" /\ ~Accepted(p)
    BY <1>3, <1>9 DEF ToolPushConflict
  <2>2. pod[p].json = "outdated"
    BY <1>1, <2>1 DEF Working, Accepted, ToolPoints, PodType
  <2>. QED  BY <2>1, <2>2 DEF Advances
<1>10. CASE Killed(p)
  <2>1. PICK kind, fs : Dies(p, kind, fs)
    BY <1>10, KilledDies
  <2>. QED  BY <1>1, <1>2, <2>1 DEF Dies, Advances
<1>11. CASE DiesAfterPush(p)
  <2>1. Outdate(pod) \in [Pods -> PodType]
    BY <1>1, OutdateFacts
  <2>. QED  BY <1>2, <1>11, <2>1 DEF DiesAfterPush, Advances
<1>. QED  BY <1>4, <1>5, <1>6, <1>7, <1>8, <1>9, <1>10, <1>11 DEF PodStep, Tool
(* A pod builds on what is stored, and an accepted push replaces it. *)
LEMMA WholePods ==
  ASSUME TypeOK, DeviceInv, Alone, WholeInv, NEW p \in Pods, PodStep(p)
  PROVE  WholeInv' /\ RingsKept
<1>1. /\ pod[p].fs \in Files /\ cm.fs \in Files /\ pod[p] \in PodType
      /\ pod \in [Pods -> PodType] /\ PodBasedOnStored(p) /\ StoredWhole /\ Working(p)
  BY DEF TypeOK, PodType, CMType, DeviceInv, WholeInv
<1>2. Runs(p)
  BY PodRuns
<1>3. ASSUME StoredWhole', RingsKept, Working(p)' PROVE WholeInv' /\ RingsKept
  <2>1. ASSUME NEW q \in Pods \ {p} PROVE Working(q)'
    <3>1. pod'[q].pc = "none" /\ pod'[q].fs = pod[q].fs
      BY <1>2, <2>1 DEF Runs, Alone, ToolPoints
    <3>. QED  BY <3>1 DEF WholeInv, Working, ToolPoints
  <2>. QED  BY <1>3, <2>1 DEF WholeInv
<1>4. ASSUME cm' = cm PROVE StoredWhole' /\ RingsKept
  BY <1>1, <1>4 DEF StoredWhole, RingsKept
<1>5. ASSUME NEW from, NEW to, NEW fs, Step(p, from, to, fs)
      PROVE  /\ cm' = cm /\ pod[p].pc = from /\ pod'[p].pc = to /\ pod'[p].fs = fs
             /\ pod'[p].json = pod[p].json
  BY <1>1, <1>5 DEF Step, PodType
<1>6. ASSUME NEW kind, NEW fs, Dies(p, kind, fs), fs.wrote \subseteq fs.made
      PROVE  WholeInv' /\ RingsKept
  <2>1. Restart(p, fs).pc \in {"get", "failed"} /\ Restart(p, fs).fs = fs
    BY <1>1 DEF Restart, PodType
  <2>2. cm' = cm /\ pod'[p] = Restart(p, fs)
    BY <1>1, <1>6 DEF Dies
  <2>3. Working(p)'
    BY <1>6, <2>1, <2>2 DEF Working, ToolPoints
  <2>. QED  BY <1>3, <1>4, <2>2, <2>3
<1>7. CASE ToolGet(p)
  <2>1. /\ cm' = cm /\ pod'[p].pc = "init"
        /\ pod'[p].json = IF cm.exists THEN "current" ELSE "absent"
        /\ pod'[p].fs = IF cm.exists THEN Untar(pod[p].fs, cm.fs) ELSE pod[p].fs
    BY <1>1, <1>7 DEF ToolGet, PodType
  <2>2. cm.exists => /\ Untar(pod[p].fs, cm.fs).wrote \subseteq Untar(pod[p].fs, cm.fs).made
                     /\ \A r \in Rings : Untar(pod[p].fs, cm.fs).b[r] = cm.fs.b[r]
    BY <1>1 DEF Untar, StoredWhole
  <2>3. Working(p)'
    BY <1>1, <2>1, <2>2 DEF Working
  <2>. QED  BY <1>3, <1>4, <2>1, <2>3
<1>8. CASE ToolInit(p)
  <2> DEFINE fs == CreateBuilders(pod[p].fs, Rings)
  <2>1. Step(p, "init", "update", fs)
    BY <1>1, <1>8 DEF ToolInit, ForeignRing, Working
  <2>2. fs.b = pod[p].fs.b /\ fs.wrote = pod[p].fs.wrote /\ pod[p].fs.made \subseteq fs.made
    BY <1>1 DEF CreateBuilders, Files
  <2> HIDE DEF fs
  <2>3. /\ cm' = cm /\ pod[p].pc = "init" /\ pod'[p].pc = "update" /\ pod'[p].fs = fs
        /\ pod'[p].json = pod[p].json
    BY <1>5, <2>1
  <2>4. Working(p)'
    BY <1>1, <2>2, <2>3 DEF Working, ToolPoints
  <2>. QED  BY <1>3, <1>4, <2>3, <2>4
<1>9. CASE ToolUpdate(p)
  <2>1. PICK lines \in {pod[p].vol, devCM} \ {None} :
             Step(p, "update", "rebalance", Update(pod[p].fs, [r \in Rings |-> lines]))
    BY <1>9 DEF ToolUpdate
  <2> DEFINE fs == Update(pod[p].fs, [r \in Rings |-> lines])
  <2>2. [r \in Rings |-> lines] \in [Rings -> SUBSET Line]
    BY DEF TypeOK, PodType, Lists
  <2>3. /\ fs.wrote = pod[p].fs.wrote /\ fs.made = pod[p].fs.made
        /\ \A r \in Rings : Plain(pod[p].fs.b[r]) \subseteq Plain(fs.b[r])
    BY <1>1, <2>2, PlainUpdate, SwiftRingAssumption
  <2> HIDE DEF fs
  <2>4. /\ cm' = cm /\ pod[p].pc = "update" /\ pod'[p].pc = "rebalance" /\ pod'[p].fs = fs
        /\ pod'[p].json = pod[p].json
    <3>1. Step(p, "update", "rebalance", fs)
      BY <2>1 DEF fs
    <3>. QED  BY <1>5, <3>1
  <2>5. Working(p)'
    BY <1>1, <2>3, <2>4 DEF Working, ToolPoints
  <2>. QED  BY <1>3, <1>4, <2>4, <2>5
<1>10. CASE ToolRebalance(p)
  <2> DEFINE fs == Rebalance(pod[p].fs, Rings)
  <2>1. Step(p, "rebalance", "push", fs) /\ pod[p].pc = "rebalance"
    BY <1>10 DEF ToolRebalance, Step
  <2>2. fs.wrote \subseteq fs.made /\ \A r \in Rings : fs.b[r] = pod[p].fs.b[r]
    <3>1. pod[p].fs.made = Rings /\ pod[p].fs.wrote \subseteq Rings
      BY <1>1, <2>1 DEF PodBasedOnStored, Files
    <3>. QED  BY <1>1, <3>1, PlainRebalance
  <2> HIDE DEF fs
  <2>3. cm' = cm /\ pod'[p].pc = "push" /\ pod'[p].fs = fs /\ pod'[p].json = pod[p].json
    BY <1>5, <2>1
  <2>4. Working(p)'
    BY <1>1, <2>1, <2>2, <2>3 DEF Working, ToolPoints
  <2>. QED  BY <1>3, <1>4, <2>3, <2>4
<1>11. CASE ToolPushConflict(p) \/ ToolPushLost(p)
  <2>1. cm' = cm /\ pod'[p].pc = "done" /\ pod'[p].fs = pod[p].fs
    BY <1>1, <1>5, <1>11 DEF ToolPushConflict, ToolPushLost, PodType
  <2>2. Working(p)'
    BY <1>1, <2>1 DEF Working, ToolPoints
  <2>. QED  BY <1>3, <1>4, <2>1, <2>2
<1>12. CASE ToolPush(p) \/ DiesAfterPush(p)
  <2>1. pod[p].pc = "push" /\ Accepted(p) /\ cm' = Pushed(p)
    BY <1>12 DEF ToolPush, DiesAfterPush
  <2>2. pod'[p].pc \in {"done", "get", "failed"} /\ pod'[p].fs = pod[p].fs
    <3>1. Outdate(pod) \in [Pods -> PodType] /\ Outdate(pod)[p].fs = pod[p].fs
      BY <1>1, OutdateFacts
    <3>2. CASE ToolPush(p)
      BY <3>1, <3>2 DEF ToolPush, PodType
    <3>3. CASE DiesAfterPush(p)
      <4>1. \A fs : Restart(p, fs).pc \in {"get", "failed"} /\ Restart(p, fs).fs = fs
        BY <1>1 DEF Restart, PodType
      <4>. QED  BY <3>1, <3>3, <4>1 DEF DiesAfterPush
    <3>. QED  BY <1>12, <3>2, <3>3
  <2>3. cm'.fs = pod[p].fs /\ cm'.exists
    BY <2>1 DEF Pushed
  <2>4. pod[p].fs.made = Rings /\ \A r \in Rings : pod[p].fs.gz[r] = pod[p].fs.b[r]
    BY <1>1, <2>1 DEF PodBasedOnStored
  <2>5. StoredWhole'
    BY <1>1, <2>3, <2>4 DEF StoredWhole, Working
  <2>6. ASSUME NEW r \in Rings PROVE Plain(cm.fs.gz[r]) \subseteq Plain(cm'.fs.gz[r])
    <3>1. CASE ~cm.exists
      BY <1>1, <3>1 DEF StoredWhole, Plain
    <3>2. CASE cm.exists
      <4>1. pod[p].json = "current"
        BY <2>1, <3>2 DEF Accepted
      <4>. QED  BY <1>1, <2>1, <2>3, <2>4, <4>1 DEF StoredWhole, Working, ToolPoints
    <3>. QED  BY <3>1, <3>2
  <2>7. Working(p)'
    BY <1>1, <2>2 DEF Working, ToolPoints
  <2>. QED  BY <1>3, <2>5, <2>6, <2>7 DEF RingsKept
<1>13. CASE DiesInGet(p) \/ DiesInPush(p)
  BY <1>1, <1>6, <1>13 DEF DiesInGet, DiesInPush, Working
<1>14. CASE DiesInInit(p)
  <2>1. PICK created \in SUBSET Rings : Dies(p, "kill", CreateBuilders(pod[p].fs, created))
    BY <1>14 DEF DiesInInit
  <2>2. CreateBuilders(pod[p].fs, created).wrote \subseteq CreateBuilders(pod[p].fs, created).made
    BY <1>1 DEF CreateBuilders, Files, Working
  <2>. QED  BY <1>6, <2>1, <2>2
<1>15. CASE DiesInUpdate(p)
  <2>1. PICK part : Dies(p, "kill", Update(pod[p].fs, part))
    BY <1>15 DEF DiesInUpdate
  <2>2. Update(pod[p].fs, part).wrote \subseteq Update(pod[p].fs, part).made
    BY <1>1 DEF Update, Files, Working
  <2>. QED  BY <1>6, <2>1, <2>2
<1>16. CASE DiesInRebalance(p)
  <2>1. PICK done \in SUBSET Rings : Dies(p, "kill", Rebalance(pod[p].fs, done))
    BY <1>16 DEF DiesInRebalance
  <2>2. pod[p].fs.made = Rings
    BY <1>1, <1>16 DEF PodBasedOnStored, DiesInRebalance
  <2>3. Rebalance(pod[p].fs, done).wrote \subseteq Rebalance(pod[p].fs, done).made
    BY <1>1, <2>2, PlainRebalance DEF Files
  <2>. QED  BY <1>6, <2>1, <2>3
<1>17. CASE DiesInMetaswap(p)
  <2>1. PICK r \in Rings, done \in SUBSET Rings :
             Dies(p, "kill_rebalance", HalfSwapped(Rebalance(pod[p].fs, done), r))
    BY <1>17 DEF DiesInMetaswap
  <2> DEFINE fs == HalfSwapped(Rebalance(pod[p].fs, done), r)
  <2>2. fs.wrote = pod[p].fs.wrote \cup done /\ fs.made = pod[p].fs.made
    BY <1>1 DEF HalfSwapped, Rebalance, Files
  <2>3. pod[p].fs.made = Rings
    BY <1>1, <1>17 DEF PodBasedOnStored, DiesInMetaswap
  <2>4. fs.wrote \subseteq fs.made
    BY <1>1, <2>2, <2>3 DEF Files
  <2>. QED  BY <1>6, <2>1, <2>4
<1>. QED  BY <1>7, <1>8, <1>9, <1>10, <1>11, <1>12, <1>13, <1>14, <1>15, <1>16, <1>17
          DEF PodStep, Tool, Killed

(* The tool's own rings: at first there are none. *)
LEMMA WholeInit ==
  ASSUME "external" \notin Faults
  PROVE  Init => WholeInv /\ Alone
<1> SUFFICES ASSUME Init PROVE WholeInv /\ Alone
  OBVIOUS
<1>1. /\ job.pod = None /\ job.result = "none" /\ cm = NoCM
      /\ \A p \in Pods : pod[p].pc = "none" /\ pod[p].fs = EmptyDir
  BY DEF Init, NoJob, NoPod
<1>2. Alone /\ \A p \in Pods : Working(p)
  BY <1>1 DEF Alone, Working, EmptyDir, ToolPoints
<1>3. StoredWhole
  BY <1>1 DEF StoredWhole, NoCM, EmptyDir
<1>. QED  BY <1>2, <1>3 DEF WholeInv

(* WholeInv is inductive, and no step takes a device out of the rings. *)
LEMMA WholeNext ==
  TypeOK /\ DeviceInv /\ Alone /\ WholeInv /\ [Next]_vars => WholeInv' /\ RingsKept
<1> SUFFICES ASSUME TypeOK, DeviceInv, Alone, WholeInv, [Next]_vars
             PROVE  WholeInv' /\ RingsKept
  OBVIOUS
<1>1. CASE UNCHANGED <<cm, pod>>
  BY <1>1 DEF WholeInv, StoredWhole, Working, RingsKept
<1>2. CASE Label
  <2>1. cm'.fs = cm.fs /\ cm'.exists = cm.exists
    BY <1>2 DEF Label, TypeOK, CMType
  <2>2. \A p \in Pods : /\ pod'[p].pc = pod[p].pc /\ pod'[p].fs = pod[p].fs
                        /\ pod'[p].json = "current" => pod[p].json = "current"
                        /\ pod'[p].json = "absent" => pod[p].json = "absent"
    BY <1>2 DEF Label, Outdate, TypeOK, PodType
  <2>. QED  BY <2>1, <2>2 DEF WholeInv, StoredWhole, Working, RingsKept
<1>3. ASSUME NEW p \in Pods, CreatePod(p) \/ CollectPod(p) \/ EvictPod(p)
      PROVE  WholeInv' /\ RingsKept
  <2>1. /\ NoPod.pc = "none" /\ NoPod.fs = EmptyDir
        /\ \A l : /\ [NoPod EXCEPT !.pc = "get", !.vol = l].pc = "get"
                  /\ [NoPod EXCEPT !.pc = "get", !.vol = l].fs = EmptyDir
    BY DEF NoPod
  <2>2. /\ cm' = cm /\ \A q \in Pods \ {p} : pod'[q] = pod[q]
        /\ pod'[p].pc \in {"none", "get"} /\ pod'[p].fs = EmptyDir
    <3>1. CASE CreatePod(p)
      BY <2>1, <3>1 DEF CreatePod, TypeOK
    <3>2. CASE CollectPod(p) \/ EvictPod(p)
      BY <2>1, <3>2 DEF CollectPod, EvictPod, TypeOK
    <3>. QED  BY <1>3, <3>1, <3>2
  <2>3. Working(p)'
    BY <2>2 DEF Working, EmptyDir, ToolPoints
  <2>4. ASSUME NEW q \in Pods PROVE Working(q)'
    <3>1. CASE q # p
      BY <2>2, <3>1 DEF WholeInv, Working
    <3>. QED  BY <2>3, <3>1
  <2>. QED  BY <2>2, <2>4 DEF WholeInv, StoredWhole, RingsKept
<1>. QED  BY <1>1, <1>2, <1>3, NextSplit, WholePods DEF PodStep
----------------------------------------------------------------------------
(* A ready SwiftRing covers its list. *)

(* The recorded hash of the Job stands, whatever becomes of a running pod. *)
Recorded == cr.rch /\ (ctl.pc # "idle" => ctl.mem.rch)

(* Lists only grow on their way from the cluster to a pod. *)
Growing ==
    /\ seen.want \subseteq env.want
    /\ Listed(devCM) \subseteq seen.want
    /\ Listed(cr.dlh) \subseteq Listed(devCM)
    /\ \A p \in Pods : Listed(pod[p].vol) \subseteq Listed(devCM)

(* The reconcile in flight: nobody else writes the status, the hash of a   *)
(* new list is taken only after devices.txt was written and the Job has    *)
(* gone, and the hash of the Job only from a Job that is complete.         *)
Reconciling ==
    /\ ctl.base = cr
    /\ ctl.pc \in {"ensure", "getjob", "deljob"}
          => ctl.mem.dlh = cr.dlh /\ ctl.mem.rch = cr.rch
    /\ Listed(ctl.mem.dlh) \subseteq Listed(devCM)
    /\ Listed(ctl.lines) \subseteq seen.want
    /\ ctl.pc = "ensure" => Listed(devCM) \subseteq Listed(ctl.lines)
    /\ ctl.pc = "getjob" => devCM = ctl.lines
    /\ ctl.pc = "label" => ctl.mem.rch
    /\ ctl.mem.cond = "True" => ctl.pc = "patch" /\ ctl.mem.rch
    /\ ctl.mem.rch => Covered(ctl.mem.dlh)
    /\ ctl.mem.rch /\ ~cr.rch => job.exists /\ job.result = "complete"

(* After update a pod has what its list says. *)
Prepared(p) ==
    pod[p].pc \in {"rebalance", "push"}
        => \A r \in Rings : Listed(pod[p].vol) \subseteq Plain(pod[p].fs.b[r])

(* The pod of the present Job works for the lists that the status may      *)
(* record; its push is refused only when it makes no difference.           *)
Relevant(p) ==
    /\ Listed(cr.dlh) \subseteq Listed(pod[p].vol)
    /\ ctl.pc # "idle" => Listed(ctl.mem.dlh) \subseteq Listed(pod[p].vol)
Useful(p) ==
    /\ pod[p].pc \in ToolPoints \ {"get"} /\ pod[p].json = "outdated" => Recorded
    /\ pod[p].pc = "done" => Covered(pod[p].vol) \/ Recorded

CoverInv ==
    /\ Growing
    /\ ctl.pc # "idle" => Reconciling
    /\ cr.cond = "True" => cr.rch
    /\ cr.rch => Covered(cr.dlh)
    /\ \A p \in Pods : Prepared(p) /\ (job.pod = p => Relevant(p) /\ Useful(p))

(* The faults under which the controller cannot keep its promise for every *)
(* list: pods next to each other, lost pushes, reconciles that do not see  *)
(* their last patch, rings of a user, and devices that leave the list.     *)
Undisturbed == {"overlap", "push", "stale_cr", "external", "removal"} \cap Faults = {}

----------------------------------------------------------------------------
(* The controller leaves pods and rings alone. *)
LEMMA CoverControl ==
  ASSUME CoverInv, UNCHANGED <<pod, cm>>, Growing',
         ctl'.pc # "idle" => Reconciling',
         cr'.cond = "True" => cr'.rch,
         cr'.rch => Covered(cr.dlh)',
         \A p \in Pods : job'.pod = p => /\ job.pod = p /\ Relevant(p)'
                                         /\ Recorded => Recorded'
  PROVE  CoverInv'
<1>1. \A p \in Pods : Prepared(p)'
  BY DEF CoverInv, Prepared
<1>2. ASSUME NEW p \in Pods, job'.pod = p PROVE Relevant(p)' /\ Useful(p)'
  <2>1. Useful(p) /\ Relevant(p)' /\ (Recorded => Recorded')
    BY <1>2 DEF CoverInv
  <2>2. Covered(pod[p].vol)' <=> Covered(pod[p].vol)
    BY DEF Covered
  <2>. QED  BY <2>1, <2>2 DEF Useful
<1>. QED  BY <1>1, <1>2 DEF CoverInv

(* Users, claims and informers make lists grow. *)
LEMMA CoverWorld ==
  ASSUME Undisturbed, TypeOK, CoverInv,
         Environment \/ (\E d \in PVs : Bind(d)) \/ Informers \/ UNCHANGED vars
  PROVE  CoverInv'
<1>1. UNCHANGED <<cr, ctl, devCM, job, pod, cm>>
  BY DEF Environment, AddDevice, RemoveDevice, SetAttr, LosePod, Bind, Informers,
     SyncWant, SyncAttr, SyncAvail, SyncCR, SyncCM, ctlVars, vars
<1>2. env.want \subseteq env'.want /\ seen.want \subseteq seen'.want /\ seen'.want \subseteq env'.want
  <2>0. seen.want \subseteq env.want
    BY DEF CoverInv, Growing
  <2>1. CASE Environment \/ (\E d \in PVs : Bind(d))
    <3>1. seen' = seen /\ env.want \subseteq env'.want
      BY <2>1 DEF Undisturbed, Environment, AddDevice, RemoveDevice, SetAttr, LosePod, Bind,
         TypeOK, EnvType
    <3>. QED  BY <2>0, <3>1
  <2>2. CASE Informers
    <3>1. env' = env /\ (seen'.want = seen.want \/ seen'.want = env.want)
      BY <2>2 DEF Informers, SyncWant, SyncAttr, SyncAvail, SyncCR, SyncCM, envVars,
         TypeOK, EnvType
    <3>. QED  BY <2>0, <3>1
  <2>3. CASE UNCHANGED vars
    BY <2>0, <2>3 DEF vars
  <2>. QED  BY <2>1, <2>2, <2>3
<1>3. Growing' /\ Recorded' = Recorded
  BY <1>1, <1>2 DEF CoverInv, Growing, Recorded
<1>4. ctl'.pc # "idle" => Reconciling'
  BY <1>1, <1>2 DEF CoverInv, Reconciling, Covered
<1>5. cr'.rch => Covered(cr.dlh)'
  BY <1>1 DEF CoverInv, Covered
<1>6. \A p \in Pods : job'.pod = p => job.pod = p /\ Relevant(p)'
  BY <1>1 DEF CoverInv, Relevant
<1>. QED  BY <1>1, <1>3, <1>4, <1>5, <1>6, CoverControl DEF CoverInv

(* A reconcile starts from the current status, with its condition reset. *)
LEMMA BeginFacts ==
  ASSUME "stale_cr" \notin Faults, TypeOK,
         ReconcileNew \/ ReconcileNoDevices \/ ReconcileListChanged \/ ReconcileListSame
  PROVE  /\ ctl.pc = "idle" /\ crSeen = cr
         /\ UNCHANGED <<env, seen, cr, devCM, job, pod, cm>>
         /\ ctl'.base = cr /\ ctl'.mem.dlh = cr.dlh /\ ctl'.mem.rch = cr.rch
         /\ ctl'.mem.cond # "True" /\ ctl'.pc \in {"patch", "ensure", "dojob"}
         /\ ctl'.lines \in {{}, DeviceList(seen)}
         /\ ctl'.pc = "ensure" => ctl'.lines = DeviceList(seen) /\ ctl'.lines # cr.dlh
<1>1. /\ ctl.pc = "idle" /\ crSeen = cr
      /\ UNCHANGED <<env, seen, cr, devCM, job, pod, cm>>
  BY DEF ReconcileNew, ReconcileNoDevices, ReconcileListChanged,
     ReconcileListSame, Begin, envVars
<1>2. /\ ctl'.base = cr /\ ctl'.mem.dlh = cr.dlh /\ ctl'.mem.rch = cr.rch
      /\ ctl'.mem.cond # "True" /\ ctl'.pc \in {"patch", "ensure", "dojob"}
      /\ ctl'.lines \in {{}, DeviceList(seen)}
      /\ ctl'.pc = "ensure" => ctl'.lines = DeviceList(seen) /\ ctl'.lines # cr.dlh
  <2>1. Reset.dlh = crSeen.dlh /\ Reset.rch = crSeen.rch /\ Reset.cond = "Unknown"
    BY DEF Reset, TypeOK, Status
  <2>2. \A f : [Reset EXCEPT !.fin = f].dlh = crSeen.dlh
                 /\ [Reset EXCEPT !.fin = f].rch = crSeen.rch
                 /\ [Reset EXCEPT !.fin = f].cond = "Unknown"
    BY DEF Reset, TypeOK, Status
  <2>3. /\ [Reset EXCEPT !.cond = "False"].dlh = crSeen.dlh
        /\ [Reset EXCEPT !.cond = "False"].rch = crSeen.rch
        /\ [Reset EXCEPT !.cond = "False"].cond = "False"
    BY DEF Reset, TypeOK, Status
  <2>4. PICK pc \in {"patch", "ensure", "dojob"},
             m \in {Reset, [Reset EXCEPT !.fin = TRUE], [Reset EXCEPT !.cond = "False"]},
             l \in {{}, DeviceList(seen)}, again \in BOOLEAN :
               /\ Begin(pc, m, l, again)
               /\ pc = "ensure" => l = DeviceList(seen) /\ l # crSeen.dlh
    BY DEF ReconcileNew, ReconcileNoDevices, ReconcileListChanged, ReconcileListSame
  <2>5. ctl'.base = crSeen /\ ctl'.mem = m /\ ctl'.pc = pc /\ ctl'.lines = l
    BY <2>4 DEF Begin
  <2>6. m.dlh = crSeen.dlh /\ m.rch = crSeen.rch /\ m.cond # "True"
    <3>1. CASE m = Reset
      BY <2>1, <3>1
    <3>2. CASE m = [Reset EXCEPT !.fin = TRUE]
      BY <2>2, <3>2
    <3>3. CASE m = [Reset EXCEPT !.cond = "False"]
      BY <2>3, <3>3
    <3>. QED  BY <2>4, <3>1, <3>2, <3>3
  <2>. QED  BY <1>1, <2>4, <2>5, <2>6
<1>. QED  BY <1>1, <1>2

(* The start of a reconcile keeps CoverInv. *)
LEMMA CoverBegin ==
  ASSUME Undisturbed, TypeOK, CoverInv,
         ReconcileNew \/ ReconcileNoDevices \/ ReconcileListChanged \/ ReconcileListSame
  PROVE  CoverInv'
<1>1. /\ ctl.pc = "idle" /\ crSeen = cr
      /\ UNCHANGED <<env, seen, cr, devCM, job, pod, cm>>
  BY BeginFacts DEF Undisturbed
<1>2. /\ ctl'.base = cr /\ ctl'.mem.dlh = cr.dlh /\ ctl'.mem.rch = cr.rch
      /\ ctl'.mem.cond # "True" /\ ctl'.pc \in {"patch", "ensure", "dojob"}
      /\ ctl'.lines \in {{}, DeviceList(seen)}
      /\ ctl'.pc = "ensure" => ctl'.lines = DeviceList(seen)
  BY BeginFacts DEF Undisturbed
<1>3. Listed(ctl'.lines) \subseteq seen.want /\ (ctl'.pc = "ensure" => Listed(ctl'.lines) = seen.want)
  BY <1>2, ListedDeviceList DEF TypeOK
<1>4. Growing'
  BY <1>1 DEF CoverInv, Growing
<1>5. Reconciling'
  BY <1>1, <1>2, <1>3 DEF CoverInv, Growing, Reconciling, Covered
<1>6. cr'.rch => Covered(cr.dlh)'
  BY <1>1 DEF CoverInv, Covered
<1>7. \A p \in Pods : job'.pod = p => job.pod = p /\ Relevant(p)' /\ (Recorded => Recorded')
  BY <1>1, <1>2 DEF CoverInv, Relevant, Recorded
<1>. QED  BY <1>1, <1>4, <1>5, <1>6, <1>7, CoverControl DEF CoverInv

(* devices.txt, the old Job and the hashes. *)
LEMMA CoverHashes ==
  ASSUME TypeOK, Alone, CoverInv, EnsureConfigMaps \/ GetJob \/ DeleteJob
  PROVE  CoverInv'
<1>0. ctl \in CtlType /\ ctl.mem \in Status /\ ctl.pc # "idle" /\ Reconciling /\ Growing
  BY DEF TypeOK, CtlType, CoverInv, EnsureConfigMaps, GetJob, DeleteJob
<1>1. CASE EnsureConfigMaps
  <2>1. /\ ctl.pc = "ensure" /\ ctl'.pc = "getjob" /\ devCM' = ctl.lines
        /\ ctl'.base = ctl.base /\ ctl'.mem = ctl.mem /\ ctl'.lines = ctl.lines
        /\ UNCHANGED <<env, seen, cr, job, pod, cm>>
    BY <1>0, <1>1 DEF EnsureConfigMaps, CtlType, envVars
  <2>2. Growing'
    BY <1>0, <2>1 DEF Growing, Reconciling
  <2>3. Reconciling'
    BY <1>0, <2>1 DEF Reconciling, Covered
  <2>4. cr'.rch => Covered(cr.dlh)'
    BY <2>1 DEF CoverInv, Covered
  <2>5. \A p \in Pods : job'.pod = p => job.pod = p /\ Relevant(p)' /\ (Recorded => Recorded')
    BY <1>0, <2>1 DEF CoverInv, Relevant, Recorded
  <2>. QED  BY <2>1, <2>2, <2>3, <2>4, <2>5, CoverControl DEF CoverInv
<1>2. CASE GetJob /\ job.exists
  <2>1. /\ ctl.pc = "getjob" /\ ctl'.pc \in {"deljob", "patch"}
        /\ ctl'.base = ctl.base /\ ctl'.mem = ctl.mem /\ ctl'.lines = ctl.lines
        /\ UNCHANGED <<env, seen, cr, devCM, job, pod, cm>>
    BY <1>0, <1>2 DEF GetJob, CtlType, envVars
  <2>2. Growing'
    BY <1>0, <2>1 DEF Growing
  <2>3. Reconciling'
    BY <1>0, <2>1 DEF Reconciling, Covered
  <2>4. cr'.rch => Covered(cr.dlh)'
    BY <2>1 DEF CoverInv, Covered
  <2>5. \A p \in Pods : job'.pod = p => job.pod = p /\ Relevant(p)' /\ (Recorded => Recorded')
    BY <1>0, <2>1 DEF CoverInv, Relevant, Recorded
  <2>. QED  BY <2>1, <2>2, <2>3, <2>4, <2>5, CoverControl DEF CoverInv
<1>3. CASE GetJob /\ ~job.exists
  <2>1. /\ ctl.pc = "getjob" /\ ctl'.pc = "dojob" /\ ctl'.mem.rch = FALSE
        /\ ctl'.mem.dlh = ctl.lines /\ ctl'.mem.cond = ctl.mem.cond
        /\ ctl'.base = ctl.base /\ ctl'.lines = ctl.lines
        /\ UNCHANGED <<env, seen, cr, devCM, job, pod, cm>>
    BY <1>0, <1>3 DEF GetJob, CtlType, Status, envVars
  <2>2. Growing'
    BY <1>0, <2>1 DEF Growing
  <2>3. Reconciling'
    BY <1>0, <2>1 DEF Reconciling
  <2>4. cr'.rch => Covered(cr.dlh)'
    BY <2>1 DEF CoverInv, Covered
  <2>5. \A p \in Pods : job'.pod # p
    BY <1>0, <1>3, <2>1, SwiftRingAssumption DEF Alone
  <2>. QED  BY <2>1, <2>2, <2>3, <2>4, <2>5, CoverControl DEF CoverInv
<1>4. CASE DeleteJob
  <2>1. /\ ctl.pc = "deljob" /\ ctl'.pc = "patch" /\ job' = NoJob
        /\ ctl'.base = ctl.base /\ ctl'.mem = ctl.mem /\ ctl'.lines = ctl.lines
        /\ UNCHANGED <<env, seen, cr, devCM, pod, cm>>
    BY <1>0, <1>4 DEF DeleteJob, CtlType, envVars
  <2>2. job'.pod = None /\ job'.result = "none"
    BY <2>1 DEF NoJob
  <2>3. Growing'
    BY <1>0, <2>1, <2>2 DEF Growing
  <2>4. Reconciling'
    BY <1>0, <2>1 DEF Reconciling, Covered
  <2>5. cr'.rch => Covered(cr.dlh)'
    BY <2>1 DEF CoverInv, Covered
  <2>6. \A p \in Pods : job'.pod # p
    BY <2>2, SwiftRingAssumption
  <2>. QED  BY <2>1, <2>3, <2>4, <2>5, <2>6, CoverControl DEF CoverInv
<1>. QED  BY <1>1, <1>2, <1>3, <1>4

(* DoJob: only a complete Job is recorded, and its pod has pushed what the *)
(* status is about to record.                                              *)
LEMMA CoverDoJob ==
  ASSUME TypeOK, Alone, CoverInv, DoJobSkip \/ DoJobCreate \/ DoJobWait \/ DoJobComplete \/ CallFails
  PROVE  CoverInv'
<1>0. ctl \in CtlType /\ ctl.mem \in Status /\ ctl.pc \notin {"idle", "patch"}
      /\ Reconciling /\ Growing
  BY DEF TypeOK, CtlType, CoverInv, DoJobSkip, DoJobCreate, DoJobWait, DoJobComplete, CallFails
<1>1. UNCHANGED <<env, seen, cr, devCM, pod, cm>>
  BY DEF DoJobSkip, DoJobCreate, DoJobWait, DoJobComplete, CallFails, envVars
<1>2. cr'.rch => Covered(cr.dlh)'
  BY <1>1 DEF CoverInv, Covered
<1>3. ctl.mem.cond # "True"
  BY <1>0 DEF Reconciling
<1>4. CASE DoJobSkip \/ DoJobWait \/ CallFails
  <2>1. /\ ctl'.pc \in {"label", "patch"} /\ (ctl'.pc = "label" => ctl.mem.rch)
        /\ ctl'.base = ctl.base /\ ctl'.mem = ctl.mem /\ ctl'.lines = ctl.lines
        /\ job' = job
    BY <1>0, <1>4 DEF DoJobSkip, DoJobWait, CallFails, CtlType
  <2>2. Growing'
    BY <1>0, <1>1, <2>1 DEF Growing
  <2>3. Reconciling'
    BY <1>0, <1>1, <1>3, <2>1 DEF Reconciling, Covered
  <2>4. \A p \in Pods : job'.pod = p => job.pod = p /\ Relevant(p)' /\ (Recorded => Recorded')
    BY <1>0, <1>1, <2>1 DEF CoverInv, Relevant, Recorded
  <2>. QED  BY <1>1, <1>2, <2>2, <2>3, <2>4, CoverControl DEF CoverInv
<1>5. CASE DoJobCreate
  <2>1. /\ ctl'.pc = "patch" /\ ~ctl.mem.rch
        /\ ctl'.base = ctl.base /\ ctl'.mem = ctl.mem /\ ctl'.lines = ctl.lines
    BY <1>0, <1>5 DEF DoJobCreate, CtlType
  <2>2. job'.pod = None /\ job'.result = "none"
    BY <1>5 DEF DoJobCreate, NoJob
  <2>3. Growing'
    BY <1>0, <1>1, <2>2 DEF Growing
  <2>4. Reconciling'
    BY <1>0, <1>1, <1>3, <2>1 DEF Reconciling
  <2>5. \A p \in Pods : job'.pod # p
    BY <2>2, SwiftRingAssumption
  <2>. QED  BY <1>1, <1>2, <2>3, <2>4, <2>5, CoverControl DEF CoverInv
<1>6. CASE DoJobComplete
  <2>1. /\ ctl'.pc = "label" /\ ctl'.mem.rch = TRUE /\ ctl'.mem.dlh = ctl.mem.dlh
        /\ ctl'.mem.cond = ctl.mem.cond /\ ctl'.base = ctl.base /\ ctl'.lines = ctl.lines
        /\ job' = job /\ job.exists /\ job.result = "complete" /\ ~ctl.mem.rch
    BY <1>0, <1>6 DEF DoJobComplete, CtlType, Status
  <2>2. PICK p \in Pods : job.pod = p /\ pod[p].pc = "done"
    BY <1>0, <2>1 DEF Alone, TypeOK, JobType
  <2>3. Covered(ctl.mem.dlh)
    <3>1. Relevant(p) /\ Useful(p) /\ ~Recorded
      BY <1>0, <2>1, <2>2 DEF CoverInv, Recorded
    <3>2. Covered(pod[p].vol) /\ Listed(ctl.mem.dlh) \subseteq Listed(pod[p].vol)
      BY <1>0, <2>2, <3>1 DEF Relevant, Useful
    <3>. QED  BY <3>2 DEF Covered
  <2>4. Growing'
    BY <1>0, <1>1, <2>1 DEF Growing
  <2>5. Reconciling'
    BY <1>0, <1>1, <1>3, <2>1, <2>3 DEF Reconciling, Covered
  <2>6. \A q \in Pods : job'.pod = q => job.pod = q /\ Relevant(q)' /\ (Recorded => Recorded')
    BY <1>0, <1>1, <2>1 DEF CoverInv, Relevant, Recorded
  <2>. QED  BY <1>1, <1>2, <2>4, <2>5, <2>6, CoverControl DEF CoverInv
<1>. QED  BY <1>4, <1>5, <1>6

(* The patch writes what the reconcile has in memory, and nothing else. *)
LEMMA CoverPatch ==
  ASSUME TypeOK, CoverInv, PatchInstance \/ PatchFails \/ Crash
  PROVE  CoverInv'
<1>0. ctl.pc # "idle" /\ ctl'.pc = "idle" /\ Reconciling /\ Growing
  BY DEF PatchInstance, PatchFails, Crash, IdleCtl, CoverInv
<1>1. UNCHANGED <<env, devCM, job, pod, cm>> /\ (seen' = seen \/ seen' = env)
  BY DEF PatchInstance, PatchFails, Crash, envVars
<1>2. \/ cr' = cr
      \/ ctl.pc = "patch" /\ cr'.dlh = ctl.mem.dlh /\ cr'.rch = ctl.mem.rch /\ cr'.cond = ctl.mem.cond
  <2>1. CASE PatchInstance
    <3>1. cr' = Merge(cr, ctl.base, ctl.mem) /\ ctl.base = cr /\ ctl.pc = "patch"
      BY <1>0, <2>1 DEF PatchInstance, Reconciling
    <3>2. /\ Merge(cr, cr, ctl.mem).dlh = ctl.mem.dlh
          /\ Merge(cr, cr, ctl.mem).rch = ctl.mem.rch
          /\ Merge(cr, cr, ctl.mem).cond = ctl.mem.cond
      BY DEF Merge
    <3>. QED  BY <3>1, <3>2
  <2>. QED  BY <2>1 DEF PatchFails, Crash
<1>3. Growing'
  BY <1>0, <1>1, <1>2 DEF Growing, Reconciling
<1>4. cr'.cond = "True" => cr'.rch
  BY <1>0, <1>2 DEF CoverInv, Reconciling
<1>5. cr'.rch => Covered(cr.dlh)'
  <2>1. \A l : Covered(l) => \A r \in Rings : Listed(l) \subseteq Plain(cm'.fs.gz[r])
    BY <1>1 DEF Covered
  <2>2. cr'.rch => Covered(cr'.dlh)
    BY <1>0, <1>2 DEF CoverInv, Reconciling
  <2>. QED  BY <2>1, <2>2 DEF Covered
<1>6. \A p \in Pods : job'.pod = p => job.pod = p /\ Relevant(p)' /\ (Recorded => Recorded')
  BY <1>0, <1>1, <1>2 DEF CoverInv, Relevant, Recorded
<1>. QED  BY <1>0, <1>1, <1>3, <1>4, <1>5, <1>6, CoverControl

(* Labels make pods outdated; one that still runs is one whose work the    *)
(* status does not wait for.                                               *)
LEMMA CoverLabel ==
  ASSUME TypeOK, Alone, CoverInv, Label
  PROVE  CoverInv'
<1>0. ctl \in CtlType /\ ctl.mem \in Status /\ ctl.pc = "label" /\ ctl.mem.rch
      /\ Reconciling /\ Growing
  BY DEF TypeOK, CtlType, CoverInv, Label, Reconciling
<1>1. /\ cm'.fs = cm.fs /\ cm'.exists = cm.exists
      /\ UNCHANGED <<env, seen, cr, devCM, job>>
  BY DEF Label, TypeOK, CMType, envVars
<1>2. /\ ctl'.pc = "patch" /\ ctl'.mem.rch = ctl.mem.rch /\ ctl'.mem.dlh = ctl.mem.dlh
      /\ ctl'.base = ctl.base /\ ctl'.lines = ctl.lines
  BY <1>0 DEF Label, CtlType, Status
<1>3. \A p \in Pods : /\ pod'[p].pc = pod[p].pc /\ pod'[p].fs = pod[p].fs
                      /\ pod'[p].vol = pod[p].vol
  BY DEF Label, Outdate, TypeOK, PodType
<1>4. Growing'
  BY <1>0, <1>1, <1>3 DEF CoverInv, Growing
<1>5. Reconciling'
  BY <1>0, <1>1, <1>2 DEF Reconciling, Covered
<1>6. ASSUME NEW p \in Pods PROVE Prepared(p)'
  BY <1>3 DEF CoverInv, Prepared
<1>7. ASSUME NEW p \in Pods, job.pod = p PROVE Relevant(p)' /\ Useful(p)'
  <2>1. Relevant(p)'
    BY <1>0, <1>1, <1>2, <1>3, <1>7 DEF CoverInv, Relevant
  <2>2. pod[p].pc \in ToolPoints => Recorded'
    <3>1. pod[p].pc \in ToolPoints => job.result # "complete"
      BY <1>0, <1>7 DEF Alone, ToolPoints
    <3>. QED  BY <1>0, <1>1, <1>2, <3>1 DEF Reconciling, Recorded
  <2>3. pod[p].pc = "done" => Covered(pod[p].vol)' \/ Recorded'
    BY <1>0, <1>1, <1>2, <1>3, <1>7 DEF CoverInv, Useful, Covered, Recorded
  <2>. QED  BY <1>3, <2>1, <2>2, <2>3 DEF Useful
<1>8. cr'.rch => Covered(cr.dlh)'
  BY <1>1 DEF CoverInv, Covered
<1>. QED  BY <1>1, <1>4, <1>5, <1>6, <1>7, <1>8 DEF CoverInv

(* The Job controller only reports; pods come and go one at a time. *)
LEMMA CoverJob ==
  ASSUME TypeOK, CoverInv, JobActive \/ JobFinished
  PROVE  CoverInv'
<1>1. UNCHANGED <<env, seen, cr, ctl, devCM, pod, cm>>
  BY DEF JobActive, JobFinished, envVars, ctlVars
<1>2. /\ job'.pod = job.pod /\ job'.exists = job.exists
      /\ job'.result # job.result => job.result = "none"
  <2>1. CASE JobActive
    BY <2>1 DEF JobActive, TypeOK, JobType
  <2>2. CASE JobFinished
    BY <2>2 DEF JobFinished, TypeOK, JobType
  <2>. QED  BY <2>1, <2>2
<1>3. Growing' /\ Recorded' = Recorded
  BY <1>1 DEF CoverInv, Growing, Recorded
<1>5. ctl'.pc # "idle" => Reconciling'
  BY <1>1, <1>2 DEF CoverInv, Reconciling, Covered
<1>6. cr'.rch => Covered(cr.dlh)'
  BY <1>1 DEF CoverInv, Covered
<1>7. \A p \in Pods : job'.pod = p => job.pod = p /\ Relevant(p)'
  BY <1>1, <1>2 DEF CoverInv, Relevant
<1>. QED  BY <1>1, <1>3, <1>5, <1>6, <1>7, CoverControl DEF CoverInv

(* A new pod mounts a list that contains what may be recorded. *)
LEMMA CoverCreate ==
  ASSUME Undisturbed, TypeOK, CoverInv, NEW p \in Pods, CreatePod(p)
  PROVE  CoverInv'
<1>1. /\ UNCHANGED <<env, seen, cr, ctl, devCM, cm>> /\ devCM # None
      /\ \A q \in Pods : pod[q].pc = "none"
      /\ job.exists /\ job.result = "none"
  BY DEF Undisturbed, CreatePod, envVars, ctlVars
<1>2. job'.pod = p /\ job'.exists /\ job'.result = "none"
  BY <1>1 DEF CreatePod, TypeOK, JobType
<1>3. /\ pod'[p].pc = "get" /\ pod'[p].vol = devCM
      /\ \A q \in Pods \ {p} : pod'[q] = pod[q]
  <2>1. \A l : /\ [NoPod EXCEPT !.pc = "get", !.vol = l].pc = "get"
               /\ [NoPod EXCEPT !.pc = "get", !.vol = l].vol = l
    BY DEF NoPod
  <2>. QED  BY <2>1 DEF CreatePod, TypeOK
<1>4. Growing'
  <2>1. \A q \in Pods : Listed(pod'[q].vol) \subseteq Listed(devCM)
    BY <1>3 DEF CoverInv, Growing
  <2>. QED  BY <1>1, <2>1 DEF CoverInv, Growing
<1>5. ctl'.pc # "idle" => Reconciling'
  BY <1>1, <1>2 DEF CoverInv, Reconciling, Covered
<1>6. cr'.rch => Covered(cr.dlh)'
  BY <1>1 DEF CoverInv, Covered
<1>7. ASSUME NEW q \in Pods PROVE Prepared(q)'
  BY <1>3 DEF CoverInv, Prepared
<1>8. Relevant(p)' /\ Useful(p)'
  <2>1. Relevant(p)'
    BY <1>1, <1>3 DEF CoverInv, Growing, Reconciling, Relevant
  <2>. QED  BY <1>3, <2>1 DEF Useful
<1>. QED  BY <1>1, <1>2, <1>4, <1>5, <1>6, <1>7, <1>8 DEF CoverInv

(* A pod that has gone is not taken for a complete one. *)
LEMMA CoverGone ==
  ASSUME TypeOK, Alone, CoverInv, NEW p \in Pods, CollectPod(p) \/ EvictPod(p)
  PROVE  CoverInv'
<1>1. /\ UNCHANGED <<env, seen, cr, ctl, devCM, cm>> /\ Growing
      /\ pod'[p] = NoPod /\ \A q \in Pods \ {p} : pod'[q] = pod[q]
  BY DEF CollectPod, EvictPod, envVars, ctlVars, CoverInv, TypeOK
<1>2. NoPod.pc = "none" /\ NoPod.vol = {}
  BY DEF NoPod
<1>3. /\ job'.exists = job.exists /\ job'.result = job.result /\ job'.pod # p
      /\ job' = job \/ (job'.pod = None /\ job.result # "complete")
  <2>1. CASE CollectPod(p)
    BY <2>1 DEF CollectPod
  <2>2. CASE EvictPod(p)
    <3>1. job.result # "complete"
      BY <1>1, <2>2 DEF EvictPod, Alone, ToolPoints
    <3>. QED  BY <2>2, <3>1, SwiftRingAssumption DEF EvictPod, TypeOK, JobType
  <2>. QED  BY <2>1, <2>2
<1>4. Growing'
  <2>1. Listed({}) = {}
    BY DEF Listed
  <2>2. \A q \in Pods : Listed(pod'[q].vol) \subseteq Listed(devCM)
    BY <1>1, <1>2, <2>1 DEF Growing
  <2>. QED  BY <1>1, <2>2 DEF Growing
<1>5. ctl'.pc # "idle" => Reconciling'
  BY <1>1, <1>3 DEF CoverInv, Reconciling, Covered
<1>6. cr'.rch => Covered(cr.dlh)'
  BY <1>1 DEF CoverInv, Covered
<1>7. ASSUME NEW q \in Pods PROVE Prepared(q)'
  BY <1>1, <1>2 DEF CoverInv, Prepared
<1>8. ASSUME NEW q \in Pods, job'.pod = q PROVE Relevant(q)' /\ Useful(q)'
  <2>1. q # p /\ job.pod = q
    BY <1>3, <1>8, SwiftRingAssumption
  <2>. QED  BY <1>1, <2>1 DEF CoverInv, Relevant, Useful, Covered, Recorded
<1>. QED  BY <1>1, <1>4, <1>5, <1>6, <1>7, <1>8 DEF CoverInv

(* A step of the one pod that runs: it adds what its list says, and what   *)
(* is stored only grows.                                                   *)
LEMMA CoverPods ==
  ASSUME TypeOK, Alone, CoverInv, NEW p \in Pods, Runs(p), Advances(p), RingsKept
  PROVE  CoverInv'
<1>1. Growing /\ pod[p].pc \notin {"none", "done"} /\ Prepared(p)
  BY DEF CoverInv, Runs, ToolPoints
<1>2. \A q \in Pods \ {p} : pod[q].pc = "none"
  BY <1>1 DEF Alone
<1>3. job.pod = None \/ job.pod = p
  BY <1>1, <1>2 DEF Alone, TypeOK, JobType
<1>4. Growing'
  <2>1. \A q \in Pods : pod'[q].vol = pod[q].vol
    BY DEF Runs
  <2>. QED  BY <1>1, <2>1 DEF Growing, Runs
<1>5. \A l : Covered(l) => \A r \in Rings : Listed(l) \subseteq Plain(cm'.fs.gz[r])
  BY DEF Covered, RingsKept
<1>6. ctl'.pc # "idle" => Reconciling'
  BY <1>5 DEF CoverInv, Reconciling, Covered, Runs
<1>7. cr'.rch => Covered(cr.dlh)'
  BY <1>5 DEF CoverInv, Covered, Runs
<1>8. Prepared(p)'
  <2>1. CASE pod'[p].pc = "rebalance"
    <3>1. PICK lines \in {pod[p].vol, devCM} \ {None} :
               \A r \in Rings : Listed(lines) \subseteq Plain(pod'[p].fs.b[r])
      BY <2>1 DEF Advances
    <3>2. Listed(pod[p].vol) \subseteq Listed(lines)
      BY <1>1 DEF Growing
    <3>. QED  BY <3>1, <3>2 DEF Prepared, Runs
  <2>2. CASE pod'[p].pc = "push"
    BY <1>1, <2>2 DEF Advances, Prepared, Runs
  <2>. QED  BY <2>1, <2>2 DEF Prepared
<1>9. ASSUME NEW q \in Pods PROVE Prepared(q)'
  <2>1. CASE q # p
    BY <1>2, <2>1 DEF Prepared, Runs
  <2>. QED  BY <1>8, <2>1
<1>10. ASSUME job.pod = p PROVE Relevant(p)' /\ Useful(p)'
  <2>1. Relevant(p) /\ Useful(p) /\ Recorded' = Recorded
    BY <1>10 DEF CoverInv, Recorded, Runs
  <2>2. Relevant(p)'
    BY <2>1 DEF Relevant, Runs
  <2>3. ASSUME pod'[p].pc = "done" PROVE Covered(pod[p].vol)' \/ Recorded'
    <3>1. pod[p].pc = "push"
      BY <2>3 DEF Advances
    <3>2. CASE pod[p].json = "outdated"
      BY <2>1, <3>1, <3>2 DEF Useful, ToolPoints
    <3>3. CASE \A r \in Rings : cm'.fs.gz[r] = pod[p].fs.b[r]
      BY <1>1, <3>1, <3>3 DEF Prepared, Covered, Runs
    <3>. QED  BY <2>3, <3>2, <3>3 DEF Advances
  <2>4. pod'[p].pc \in ToolPoints \ {"get"} /\ pod'[p].json = "outdated" => Recorded'
    BY <2>1 DEF Advances, Useful, ToolPoints
  <2>. QED  BY <2>2, <2>3, <2>4 DEF Useful
<1>. QED  BY <1>3, <1>4, <1>6, <1>7, <1>9, <1>10, SwiftRingAssumption DEF CoverInv, Runs

(* At first nothing is stored, listed or recorded. *)
LEMMA CoverInit ==
  ASSUME Undisturbed
  PROVE  Init => CoverInv
<1> SUFFICES ASSUME Init PROVE CoverInv
  OBVIOUS
<1>1. /\ cr.dlh = None /\ cr.rch = FALSE /\ cr.cond = "nil" /\ ctl.pc = "idle"
      /\ seen = env /\ devCM = None /\ job.pod = None
      /\ \A p \in Pods : pod[p].pc = "none" /\ pod[p].vol = {}
  BY DEF Init, NewStatus, IdleCtl, NoJob, NoPod
<1>2. Listed(None) = {} /\ Listed({}) = {}
  BY DEF Listed
<1>3. Growing
  BY <1>1, <1>2 DEF Growing
<1>4. \A p \in Pods : Prepared(p)
  BY <1>1 DEF Prepared
<1>. QED  BY <1>1, <1>3, <1>4, SwiftRingAssumption DEF CoverInv

(* The invariant behind ReadyMeansRingsCoverList is inductive. *)
LEMMA CoverNext ==
  ASSUME Undisturbed
  PROVE  TypeOK /\ DeviceInv /\ Alone /\ WholeInv /\ CoverInv /\ [Next]_vars => CoverInv'
<1> SUFFICES ASSUME TypeOK, DeviceInv, Alone, WholeInv, CoverInv, [Next]_vars PROVE CoverInv'
  OBVIOUS
<1>1. CASE Environment \/ (\E d \in PVs : Bind(d)) \/ Informers \/ UNCHANGED vars
  BY <1>1, CoverWorld
<1>2. CASE Reconcile
  BY <1>2, CoverBegin, CoverHashes, CoverDoJob, CoverLabel, CoverPatch DEF Reconcile
<1>3. CASE Kubernetes
  BY <1>3, CoverJob, CoverCreate, CoverGone DEF Kubernetes
<1>4. ASSUME NEW p \in Pods, PodStep(p) PROVE CoverInv'
  <2>1. ~ToolPushLost(p)
    BY DEF ToolPushLost, Fault, Undisturbed
  <2>. QED  BY <1>4, <2>1, PodRuns, PodAdvances, WholePods, CoverPods
<1>5. CASE Failures
  BY <1>4, <1>5, CoverDoJob, CoverPatch, CoverGone DEF Failures, PodStep
<1>. QED  BY <1>1, <1>2, <1>3, <1>4, <1>5 DEF Next, PodStep

(* With any number of failing calls, operator restarts, containers killed  *)
(* anywhere (between the metaswaps of rebalance too), evicted pods and a   *)
(* stale cache of the ring ConfigMap, and with devices that are added,     *)
(* reweighted, lost and bound in any order but never leave the list: a     *)
(* SwiftRing that is Ready with the hash of a list is served by rings that *)
(* contain each device of that list under its own host name, also when the *)
(* list changed back meanwhile (ReadyMeansRingsCoverList).                 *)
THEOREM ReadyRingsCover ==
  ASSUME Undisturbed
  PROVE  Spec => []ReadyMeansRingsCoverList
<1>1. CoverInv => ReadyMeansRingsCoverList
  <2>1. \A r \in Rings : Served(r) = Plain(cm.fs.gz[r])
    BY DEF Served, Plain
  <2>. QED  BY <2>1 DEF CoverInv, Covered, Listed, RingsCover, ReadyMeansRingsCoverList
<1>2. "overlap" \notin Faults /\ "external" \notin Faults
  BY DEF Undisturbed
<1>3. Spec => [](TypeOK /\ DeviceInv /\ Alone /\ WholeInv)
  BY <1>2, TypeInit, TypeNext, DeviceInit, DeviceNext, AloneNext, WholeInit, WholeNext, PTL
  DEF Spec
<1>. QED  BY <1>1, <1>3, CoverInit, CoverNext, PTL DEF Spec
----------------------------------------------------------------------------
(* While the hash of a Job counts for the list in devices.txt, that Job is *)
(* over, also when lists change back and devices leave them.               *)

(* The Job has gone or is complete and no pod can push any more. *)
Over ==
    /\ job.exists => job.result = "complete"
    /\ \A p \in Pods : pod[p].pc \notin ToolPoints

(* A status whose hash of the Job counts for devices.txt. *)
Counts(s) == s.rch /\ s.dlh = devCM

(* The reconcile in flight: it starts from the status, writes devices.txt  *)
(* only for a list that is not the recorded one, takes over the hash of    *)
(* the new list when there is no Job, and creates a Job only when no hash  *)
(* of a Job counts.                                                        *)
InFlight ==
    /\ ctl.base = cr
    /\ ctl.pc = "ensure" => ctl.lines # cr.dlh
    /\ ctl.pc \in {"getjob", "deljob"} => ctl.lines = devCM /\ cr.dlh # devCM
    /\ ctl.pc \in {"ensure", "getjob", "deljob"} => ctl.mem.dlh = cr.dlh
    /\ ctl.mem.dlh = cr.dlh \/ (ctl.mem.dlh = devCM /\ cr.dlh # devCM)
    /\ ctl.pc = "dojob" /\ ~ctl.mem.rch => ~Counts(cr)
    /\ ctl.pc = "label" => ctl.mem.rch
    /\ ctl.mem.cond = "True" => ctl.pc = "patch" /\ ctl.mem.rch
    /\ Counts(ctl.mem) => Over

OverInv ==
    /\ cr.cond = "True" => cr.rch
    /\ Counts(cr) => Over
    /\ ctl.pc # "idle" => InFlight

(* The controller: the hash of a Job counts only when that Job is over, and *)
(* is dropped before the next one is created.                               *)
LEMMA OverReconcile ==
  ASSUME "stale_cr" \notin Faults, TypeOK, Alone, OverInv, Reconcile \/ CallFails
  PROVE  OverInv'
<1>0. ctl \in CtlType /\ ctl.mem \in Status /\ job \in JobType
  BY DEF TypeOK, CtlType
<1>1. CASE ReconcileNew \/ ReconcileNoDevices \/ ReconcileListChanged \/ ReconcileListSame
  <2>1. /\ ctl.pc = "idle" /\ UNCHANGED <<cr, devCM, job, pod>>
        /\ ctl'.base = cr /\ ctl'.mem.rch = cr.rch /\ ctl'.mem.dlh = cr.dlh
        /\ ctl'.mem.cond # "True" /\ ctl'.pc \in {"patch", "ensure", "dojob"}
        /\ ctl'.pc = "ensure" => ctl'.lines # cr.dlh
    BY <1>1, BeginFacts
  <2>. QED  BY <2>1 DEF OverInv, Over, Counts, InFlight
<1>2. CASE EnsureConfigMaps
  <2>1. /\ UNCHANGED <<cr, job, pod>> /\ ctl.pc = "ensure" /\ ctl'.pc = "getjob"
        /\ devCM' = ctl.lines /\ ctl'.lines = ctl.lines
        /\ ctl'.base = ctl.base /\ ctl'.mem = ctl.mem
    BY <1>0, <1>2 DEF EnsureConfigMaps, CtlType
  <2>. QED  BY <2>1 DEF OverInv, Over, Counts, InFlight
<1>3. CASE GetJob /\ job.exists
  <2>1. /\ UNCHANGED <<cr, devCM, job, pod>> /\ ctl.pc = "getjob"
        /\ ctl'.pc \in {"deljob", "patch"} /\ ctl'.lines = ctl.lines
        /\ ctl'.base = ctl.base /\ ctl'.mem = ctl.mem
    BY <1>0, <1>3 DEF GetJob, CtlType
  <2>. QED  BY <2>1 DEF OverInv, Over, Counts, InFlight
<1>4. CASE GetJob /\ ~job.exists
  <2>1. /\ UNCHANGED <<cr, devCM, job, pod>> /\ ctl.pc = "getjob" /\ ctl'.pc = "dojob"
        /\ ctl'.base = ctl.base /\ ctl'.mem.rch = FALSE
        /\ ctl'.mem.dlh = ctl.lines /\ ctl'.mem.cond = ctl.mem.cond
    BY <1>0, <1>4 DEF GetJob, CtlType, Status
  <2>. QED  BY <2>1 DEF OverInv, Over, Counts, InFlight
<1>5. CASE DeleteJob
  <2>1. /\ UNCHANGED <<cr, devCM, pod>> /\ ctl.pc = "deljob" /\ ctl'.pc = "patch"
        /\ ctl'.base = ctl.base /\ ctl'.mem = ctl.mem
    BY <1>0, <1>5 DEF DeleteJob, CtlType
  <2>. QED  BY <2>1 DEF OverInv, Counts, InFlight
<1>6. CASE DoJobSkip \/ DoJobWait \/ CallFails
  <2>1. /\ UNCHANGED <<cr, devCM, job, pod>> /\ ctl.pc \notin {"idle", "patch"}
        /\ ctl'.pc \in {"label", "patch"} /\ (ctl'.pc = "label" => ctl.mem.rch)
        /\ ctl'.base = ctl.base /\ ctl'.mem = ctl.mem
    BY <1>0, <1>6 DEF DoJobSkip, DoJobWait, CallFails, CtlType
  <2>. QED  BY <2>1 DEF OverInv, Over, Counts, InFlight
<1>7. CASE DoJobCreate
  <2>1. /\ UNCHANGED <<cr, devCM, pod>> /\ ctl.pc = "dojob" /\ ctl'.pc = "patch"
        /\ ~ctl.mem.rch /\ ctl'.base = ctl.base /\ ctl'.mem = ctl.mem
    BY <1>0, <1>7 DEF DoJobCreate, CtlType
  <2>. QED  BY <2>1 DEF OverInv, Counts, InFlight
<1>8. CASE DoJobComplete
  <2>1. /\ UNCHANGED <<cr, devCM, job, pod>> /\ ctl.pc = "dojob" /\ ctl'.pc = "label"
        /\ ctl'.mem.rch = TRUE /\ ctl'.mem.dlh = ctl.mem.dlh
        /\ ctl'.mem.cond = ctl.mem.cond /\ ctl'.base = ctl.base
        /\ job.result = "complete"
    BY <1>0, <1>8 DEF DoJobComplete, CtlType, Status
  <2>2. Over
    <3>1. PICK p \in Pods : job.pod = p /\ pod[p].pc = "done"
      BY <1>0, <2>1 DEF Alone, JobType
    <3>2. \A q \in Pods : q # p => pod[q].pc = "none"
      BY <3>1 DEF Alone
    <3>. QED  BY <2>1, <3>1, <3>2 DEF Over, ToolPoints
  <2>. QED  BY <2>1, <2>2 DEF OverInv, Over, Counts, InFlight
<1>9. CASE Label
  <2>1. /\ UNCHANGED <<cr, devCM, job>> /\ ctl.pc = "label" /\ ctl'.pc = "patch"
        /\ ctl'.base = ctl.base /\ ctl'.mem.rch = ctl.mem.rch /\ ctl'.mem.dlh = ctl.mem.dlh
    BY <1>0, <1>9 DEF Label, CtlType, Status
  <2>2. \A p \in Pods : pod'[p].pc = pod[p].pc
    BY <1>9, OutdateFacts DEF Label, TypeOK
  <2>3. Over => Over'
    BY <2>1, <2>2 DEF Over
  <2>. QED  BY <2>1, <2>3 DEF OverInv, Counts, InFlight
<1>10. CASE PatchInstance
  <2>1. /\ UNCHANGED <<devCM, job, pod>> /\ ctl.pc = "patch" /\ ctl'.pc = "idle"
        /\ cr' = Merge(cr, cr, ctl.mem)
    BY <1>10 DEF PatchInstance, IdleCtl, OverInv, InFlight
  <2>2. /\ Merge(cr, cr, ctl.mem).rch = ctl.mem.rch /\ Merge(cr, cr, ctl.mem).dlh = ctl.mem.dlh
        /\ Merge(cr, cr, ctl.mem).cond = ctl.mem.cond
    BY DEF Merge
  <2>. QED  BY <2>1, <2>2 DEF OverInv, Over, Counts, InFlight
<1>. QED  BY <1>1, <1>2, <1>3, <1>4, <1>5, <1>6, <1>7, <1>8, <1>9, <1>10 DEF Reconcile

(* OverInv is inductive: a pod that may push is a pod that is not over. *)
LEMMA OverNext ==
  ASSUME {"stale_cr", "overlap"} \cap Faults = {}
  PROVE  TypeOK /\ Alone /\ OverInv /\ [Next]_vars => OverInv'
<1> SUFFICES ASSUME TypeOK, Alone, OverInv, [Next]_vars PROVE OverInv'
  OBVIOUS
<1>0. job \in JobType
  BY DEF TypeOK
<1>1. ASSUME UNCHANGED <<cr, ctl, devCM>>, ~Over \/ Over' PROVE OverInv'
  BY <1>1 DEF OverInv, Counts, InFlight
<1>2. CASE Environment \/ (\E d \in PVs : Bind(d)) \/ Informers \/ UNCHANGED vars
  <2>1. UNCHANGED <<cr, ctl, devCM, job, pod>>
    BY <1>2 DEF Environment, AddDevice, RemoveDevice, SetAttr, LosePod, Bind, Informers,
       SyncWant, SyncAttr, SyncAvail, SyncCR, SyncCM, ctlVars, vars
  <2>. QED  BY <1>1, <2>1 DEF Over
<1>3. CASE JobActive \/ JobFinished
  <2>1. /\ UNCHANGED <<cr, ctl, devCM, pod>> /\ job'.exists = job.exists
        /\ job'.result # job.result => job.result = "none"
    BY <1>0, <1>3 DEF JobActive, JobFinished, ctlVars, JobType
  <2>. QED  BY <1>1, <2>1 DEF Over
<1>4. ASSUME NEW p \in Pods, CreatePod(p) PROVE OverInv'
  <2>1. UNCHANGED <<cr, ctl, devCM>> /\ job.exists /\ job.result = "none"
    BY <1>4 DEF CreatePod, ctlVars
  <2>. QED  BY <1>1, <2>1 DEF Over
<1>5. ASSUME NEW p \in Pods, CollectPod(p) \/ EvictPod(p) PROVE OverInv'
  <2>1. /\ UNCHANGED <<cr, ctl, devCM>> /\ job'.exists = job.exists /\ job'.result = job.result
        /\ pod'[p].pc = "none" /\ \A q \in Pods \ {p} : pod'[q] = pod[q]
    <3>1. CASE CollectPod(p)
      BY <3>1 DEF CollectPod, ctlVars, TypeOK, NoPod
    <3>2. CASE EvictPod(p)
      BY <1>0, <3>2 DEF EvictPod, ctlVars, TypeOK, JobType, NoPod
    <3>. QED  BY <1>5, <3>1, <3>2
  <2>. QED  BY <1>1, <2>1 DEF Over, ToolPoints
<1>6. ASSUME NEW p \in Pods, PodStep(p) PROVE OverInv'
  <2>1. UNCHANGED <<cr, ctl, devCM>> /\ pod[p].pc \in ToolPoints
    BY <1>6, PodRuns DEF Runs
  <2>. QED  BY <1>1, <2>1 DEF Over
<1>7. CASE PatchFails \/ Crash
  <2>1. UNCHANGED <<cr, devCM, job, pod>> /\ ctl'.pc = "idle"
    BY <1>7 DEF PatchFails, Crash, IdleCtl
  <2>. QED  BY <2>1 DEF OverInv, Counts, Over
<1>. QED  BY <1>2, <1>3, <1>4, <1>5, <1>6, <1>7, OverReconcile
          DEF Next, Kubernetes, Failures, PodStep

(* At first nothing is recorded. *)
LEMMA OverInit == Init => OverInv /\ Alone
BY DEF Init, OverInv, Alone, Counts, NewStatus, IdleCtl, NoJob, NoPod

----------------------------------------------------------------------------
(* A SwiftRing becomes ready with labelled rings. *)

(* The faults under which a push may come after the labels: caches lag, or *)
(* pods run side by side.                                                  *)
Calm == {"stale_cr", "stale_cm", "overlap"} \cap Faults = {}

(* Between the label step and the patch nothing replaces the ConfigMap. *)
LabelInv ==
    ctl.pc # "idle" /\ ctl.mem.cond = "True" /\ ctl.mem.dlh = devCM /\ cm.exists => cm.lab

(* LabelInv is inductive: whoever pushes is not over. *)
LEMMA LabelNext ==
  ASSUME Calm
  PROVE  TypeOK /\ OverInv /\ LabelInv /\ [Next]_vars => LabelInv'
<1> SUFFICES ASSUME TypeOK, OverInv, LabelInv, [Next]_vars PROVE LabelInv'
  OBVIOUS
<1>0. ctl \in CtlType /\ ctl.mem \in Status
  BY DEF TypeOK, CtlType
<1>1. ASSUME UNCHANGED <<ctl, devCM, cm>> PROVE LabelInv'
  BY <1>1 DEF LabelInv
<1>2. CASE \/ Environment \/ (\E d \in PVs : Bind(d)) \/ Informers \/ JobActive \/ JobFinished
           \/ (\E p \in Pods : CreatePod(p) \/ CollectPod(p) \/ EvictPod(p)) \/ UNCHANGED vars
  BY <1>1, <1>2 DEF Environment, AddDevice, RemoveDevice, SetAttr, LosePod, Bind, Informers,
     SyncWant, SyncAttr, SyncAvail, SyncCR, SyncCM, JobActive, JobFinished, CreatePod,
     CollectPod, EvictPod, ctlVars, vars
<1>3. ASSUME NEW p \in Pods, PodStep(p) PROVE LabelInv'
  <2>1. UNCHANGED <<ctl, devCM>> /\ pod[p].pc \in ToolPoints
    BY <1>3, PodRuns DEF Runs
  <2>2. ctl.pc # "idle" /\ ctl.mem.cond = "True" => ctl.mem.dlh # devCM
    BY <2>1 DEF OverInv, InFlight, Counts, Over
  <2>. QED  BY <2>1, <2>2 DEF LabelInv
<1>4. CASE ReconcileNew \/ ReconcileNoDevices \/ ReconcileListChanged \/ ReconcileListSame
  BY <1>4, BeginFacts DEF Calm, LabelInv
<1>5. CASE \/ EnsureConfigMaps \/ GetJob \/ DeleteJob \/ DoJobSkip \/ DoJobCreate \/ DoJobWait
           \/ DoJobComplete \/ CallFails
  <2>1. ctl.pc \notin {"idle", "patch"} /\ ctl'.mem.cond = ctl.mem.cond
    <3>1. CASE GetJob
      BY <1>0, <3>1 DEF GetJob, CtlType, Status
    <3>2. CASE DoJobComplete
      BY <1>0, <3>2 DEF DoJobComplete, CtlType, Status
    <3>3. CASE EnsureConfigMaps \/ DeleteJob
      BY <1>0, <3>3 DEF EnsureConfigMaps, DeleteJob, CtlType
    <3>4. CASE DoJobSkip \/ DoJobCreate \/ DoJobWait \/ CallFails
      BY <1>0, <3>4 DEF DoJobSkip, DoJobCreate, DoJobWait, CallFails, CtlType
    <3>. QED  BY <1>5, <3>1, <3>2, <3>3, <3>4
  <2>. QED  BY <2>1 DEF OverInv, InFlight, LabelInv
<1>6. CASE Label
  BY <1>6 DEF Label, Calm, CMView, TypeOK, CMType, LabelInv
<1>7. CASE PatchInstance \/ PatchFails \/ Crash
  BY <1>7 DEF PatchInstance, PatchFails, Crash, IdleCtl, LabelInv
<1>. QED  BY <1>2, <1>3, <1>4, <1>5, <1>6, <1>7
          DEF Next, Reconcile, Kubernetes, Failures, PodStep

(* Only the patch of the controller writes the status. *)
LEMMA StatusWrites ==
  ASSUME TypeOK, [Next]_vars, cr' # cr
  PROVE  PatchInstance
<1>1. ASSUME NEW p \in Pods, PodStep(p) \/ CreatePod(p) \/ CollectPod(p) \/ EvictPod(p)
      PROVE  cr' = cr
  BY <1>1, PodRuns DEF Runs, CreatePod, CollectPod, EvictPod, ctlVars
<1>2. ASSUME \/ Environment \/ (\E d \in PVs : Bind(d)) \/ Informers \/ UNCHANGED vars
             \/ JobActive \/ JobFinished \/ CallFails \/ PatchFails \/ Crash
      PROVE  cr' = cr
  BY <1>2 DEF Environment, AddDevice, RemoveDevice, SetAttr, LosePod, Bind, Informers,
     SyncWant, SyncAttr, SyncAvail, SyncCR, SyncCM, ctlVars, vars, JobActive, JobFinished,
     CallFails, PatchFails, Crash
<1>3. ASSUME Reconcile, ~PatchInstance PROVE cr' = cr
  BY <1>3 DEF Reconcile, ReconcileNew, ReconcileNoDevices, ReconcileListChanged,
     ReconcileListSame, Begin, EnsureConfigMaps, GetJob, DeleteJob, DoJobSkip, DoJobCreate,
     DoJobWait, DoJobComplete, Label
<1>. QED  BY <1>1, <1>2, <1>3 DEF Next, Kubernetes, Failures, PodStep

(* As long as reads have caught up and pods do not overlap, a SwiftRing    *)
(* becomes ready for the list in devices.txt only with a labelled ring     *)
(* ConfigMap (LabelledWhenReady), whatever calls, patches and pushes fail, *)
(* whenever the operator restarts, pods die and lists change, and in       *)
(* whatever order they change back.                                        *)
THEOREM ReadyIsLabelled ==
  ASSUME Calm
  PROVE  Spec => LabelledWhenReady
<1>1. Init => LabelInv
  BY DEF Init, LabelInv, IdleCtl
<1>2. TypeOK /\ OverInv /\ LabelInv /\ [Next]_vars
        => [BecomesReady /\ cr'.dlh = devCM /\ cm.exists => cm.lab]_vars
  <2> SUFFICES ASSUME TypeOK, OverInv, LabelInv, [Next]_vars, BecomesReady,
                      cr'.dlh = devCM, cm.exists
               PROVE  cm.lab
    OBVIOUS
  <2>1. PatchInstance
    BY StatusWrites DEF BecomesReady
  <2>2. ctl.pc = "patch" /\ cr' = Merge(cr, cr, ctl.mem)
    BY <2>1 DEF PatchInstance, OverInv, InFlight
  <2>3. /\ Merge(cr, cr, ctl.mem).cond = ctl.mem.cond
        /\ Merge(cr, cr, ctl.mem).dlh = ctl.mem.dlh
    BY DEF Merge
  <2>. QED  BY <2>2, <2>3 DEF BecomesReady, LabelInv
<1>3. "overlap" \notin Faults /\ {"stale_cr", "overlap"} \cap Faults = {}
  BY DEF Calm
<1>. QED  BY <1>1, <1>2, <1>3, TypeInit, TypeNext, OverInit, AloneNext, OverNext, LabelNext, PTL
          DEF Spec, LabelledWhenReady

----------------------------------------------------------------------------
(* A SwiftRing that is ready for the list in devices.txt serves it, also   *)
(* when devices leave the list and come back.                              *)

(* The status is, or is about to be, that of the list in devices.txt. *)
Aimed == cr.dlh = devCM \/ (ctl.pc # "idle" /\ ctl.mem.dlh = devCM)

(* The pod of the present Job has that list, and its push is not refused. *)
Fresh(p) ==
    /\ pod[p].vol = devCM
    /\ Prepared(p)
    /\ pod[p].pc \in ToolPoints \ {"get"} => pod[p].json # "outdated"
    /\ pod[p].pc = "done" => Covered(devCM)

ServedInv ==
    /\ Counts(cr) => Covered(devCM)
    /\ ctl.pc # "idle" /\ Counts(ctl.mem) => Covered(devCM)
    /\ \A p \in Pods : Aimed /\ job.pod = p => Fresh(p)

(* The faults under which a Job may count without its pod having stored    *)
(* the list: pods next to each other, lost pushes, reconciles that do not  *)
(* see their last patch, and rings of a user.                              *)
Delivered == {"overlap", "push", "stale_cr", "external"} \cap Faults = {}

(* The controller aims at a list only while no pod runs for another one,   *)
(* and counts only a Job whose pod has stored it.                          *)
LEMMA ServedReconcile ==
  ASSUME Delivered, TypeOK, Alone, OverInv, ServedInv, Reconcile \/ CallFails, ~Label
  PROVE  ServedInv'
<1>0. ctl \in CtlType /\ ctl.mem \in Status /\ job \in JobType
  BY DEF TypeOK, CtlType
<1>1. UNCHANGED <<pod, cm>>
  BY OtherSteps
<1>2. ASSUME devCM' = devCM, job' = job \/ job'.pod = None, Aimed' => Aimed,
             Counts(cr)' => Covered(devCM),
             ctl'.pc # "idle" /\ Counts(ctl.mem)' => Covered(devCM)
      PROVE  ServedInv'
  BY <1>1, <1>2, SwiftRingAssumption DEF ServedInv, Fresh, Prepared, Covered
<1>3. CASE ReconcileNew \/ ReconcileNoDevices \/ ReconcileListChanged \/ ReconcileListSame
  <2>1. /\ ctl.pc = "idle" /\ UNCHANGED <<cr, devCM, job>>
        /\ ctl'.mem.rch = cr.rch /\ ctl'.mem.dlh = cr.dlh
    BY <1>3, BeginFacts DEF Delivered
  <2>. QED  BY <1>2, <2>1 DEF ServedInv, Aimed, Counts
<1>4. CASE EnsureConfigMaps
  <2>1. /\ cr' = cr /\ ctl.pc = "ensure" /\ devCM' = ctl.lines /\ ctl'.mem = ctl.mem
    BY <1>0, <1>4 DEF EnsureConfigMaps, CtlType
  <2>2. ~Aimed' /\ ~Counts(cr)' /\ ~Counts(ctl.mem)'
    BY <2>1 DEF OverInv, InFlight, Aimed, Counts
  <2>. QED  BY <2>2 DEF ServedInv
<1>5. CASE GetJob /\ ~job.exists
  <2>1. /\ UNCHANGED <<cr, devCM, job>> /\ ctl'.mem.rch = FALSE
    BY <1>0, <1>5 DEF GetJob, CtlType, Status
  <2>2. job.pod = None
    BY <1>5 DEF Alone
  <2>. QED  BY <1>1, <2>1, <2>2, SwiftRingAssumption DEF ServedInv, Counts, Covered
<1>6. CASE \/ GetJob /\ job.exists
           \/ DeleteJob \/ DoJobSkip \/ DoJobCreate \/ DoJobWait \/ CallFails
  <2>1. UNCHANGED <<cr, devCM>> /\ ctl.pc # "idle" /\ ctl'.mem = ctl.mem
    <3>1. CASE (GetJob /\ job.exists) \/ DeleteJob
      BY <1>0, <3>1 DEF GetJob, DeleteJob, CtlType
    <3>2. CASE DoJobSkip \/ DoJobCreate \/ DoJobWait \/ CallFails
      BY <1>0, <3>2 DEF DoJobSkip, DoJobCreate, DoJobWait, CallFails, CtlType
    <3>. QED  BY <1>6, <3>1, <3>2
  <2>2. job' = job \/ job'.pod = None
    BY <1>6 DEF GetJob, DeleteJob, DoJobSkip, DoJobCreate, DoJobWait, CallFails, NoJob
  <2>. QED  BY <1>2, <2>1, <2>2 DEF ServedInv, Aimed, Counts
<1>7. CASE DoJobComplete
  <2>1. /\ UNCHANGED <<cr, devCM, job>> /\ ctl.pc = "dojob" /\ ctl'.mem.dlh = ctl.mem.dlh
        /\ job.result = "complete"
    BY <1>0, <1>7 DEF DoJobComplete, CtlType, Status
  <2>2. ctl.mem.dlh = devCM => Covered(devCM)
    <3>1. PICK p \in Pods : job.pod = p /\ pod[p].pc = "done"
      BY <1>0, <2>1 DEF Alone, JobType
    <3>. QED  BY <2>1, <3>1 DEF ServedInv, Aimed, Fresh
  <2>. QED  BY <1>2, <2>1, <2>2 DEF ServedInv, Aimed, Counts
<1>8. CASE PatchInstance
  <2>1. /\ UNCHANGED <<devCM, job>> /\ ctl.pc = "patch" /\ ctl'.pc = "idle"
        /\ cr' = Merge(cr, cr, ctl.mem)
    BY <1>8 DEF PatchInstance, IdleCtl, OverInv, InFlight
  <2>2. /\ Merge(cr, cr, ctl.mem).rch = ctl.mem.rch /\ Merge(cr, cr, ctl.mem).dlh = ctl.mem.dlh
    BY DEF Merge
  <2>. QED  BY <1>2, <2>1, <2>2 DEF ServedInv, Aimed, Counts
<1>. QED  BY <1>3, <1>4, <1>5, <1>6, <1>7, <1>8 DEF Reconcile

(* Labels make a pod outdated only when its Job does not count. *)
LEMMA ServedLabel ==
  ASSUME TypeOK, OverInv, ServedInv, Label
  PROVE  ServedInv'
<1>0. ctl \in CtlType /\ ctl.mem \in Status
  BY DEF TypeOK, CtlType
<1>1. /\ UNCHANGED <<cr, devCM, job>> /\ cm'.fs = cm.fs /\ ctl.pc = "label"
      /\ ctl'.mem.rch = ctl.mem.rch /\ ctl'.mem.dlh = ctl.mem.dlh
  BY <1>0 DEF Label, CtlType, Status, TypeOK, CMType
<1>2. \A p \in Pods : /\ pod'[p].pc = pod[p].pc /\ pod'[p].fs = pod[p].fs
                      /\ pod'[p].vol = pod[p].vol
  BY DEF Label, Outdate, TypeOK, PodType
<1>3. Aimed' => Aimed /\ \A p \in Pods : pod[p].pc \notin ToolPoints
  BY <1>1 DEF OverInv, InFlight, Aimed, Counts, Over
<1>4. ASSUME NEW p \in Pods, Aimed', job.pod = p PROVE Fresh(p)'
  <2>1. Fresh(p) /\ pod[p].pc \notin ToolPoints
    BY <1>3, <1>4 DEF ServedInv
  <2>. QED  BY <1>1, <1>2, <2>1 DEF Fresh, Prepared, Covered
<1>. QED  BY <1>1, <1>4 DEF ServedInv, Counts, Covered

(* A pod of the present Job takes devices.txt to the stored rings. *)
LEMMA ServedPods ==
  ASSUME TypeOK, Alone, ServedInv, NEW p \in Pods, Runs(p), Advances(p), RingsKept
  PROVE  ServedInv'
<1>1. pod[p].pc \notin {"none", "done"} /\ \A q \in Pods \ {p} : pod[q].pc = "none"
  BY DEF Runs, ToolPoints, Alone
<1>2. job.pod = None \/ job.pod = p
  BY <1>1 DEF Alone, TypeOK, JobType
<1>3. Covered(devCM) => Covered(devCM)'
  BY DEF Covered, RingsKept, Runs
<1>4. ASSUME Aimed, job.pod = p PROVE Fresh(p)'
  <2>1. Fresh(p)
    BY <1>4 DEF ServedInv
  <2>2. Prepared(p)'
    <3>1. CASE pod'[p].pc = "rebalance"
      <4>1. \A r \in Rings : Listed(devCM) \subseteq Plain(pod'[p].fs.b[r])
        BY <2>1, <3>1 DEF Advances, Fresh
      <4>. QED  BY <2>1, <4>1 DEF Prepared, Runs, Fresh
    <3>2. CASE pod'[p].pc = "push"
      BY <2>1, <3>2 DEF Advances, Prepared, Runs, Fresh
    <3>. QED  BY <3>1, <3>2 DEF Prepared
  <2>3. pod'[p].pc \in ToolPoints \ {"get"} => pod'[p].json # "outdated"
    BY <2>1 DEF Advances, Fresh, ToolPoints
  <2>4. ASSUME pod'[p].pc = "done" PROVE Covered(devCM)'
    <3>1. pod[p].pc = "push" /\ \A r \in Rings : cm'.fs.gz[r] = pod[p].fs.b[r]
      BY <2>1, <2>4 DEF Advances, Fresh, ToolPoints
    <3>. QED  BY <2>1, <3>1 DEF Fresh, Prepared, Covered, Runs
  <2>. QED  BY <2>1, <2>2, <2>3, <2>4 DEF Fresh, Runs
<1>5. Aimed' = Aimed /\ Counts(cr)' = Counts(cr) /\ Counts(ctl.mem)' = Counts(ctl.mem)
  BY DEF Aimed, Counts, Runs
<1>. QED  BY <1>2, <1>3, <1>4, <1>5, SwiftRingAssumption DEF ServedInv, Runs

(* The invariant behind ReadyMeansDevicesServed is inductive. *)
LEMMA ServedNext ==
  ASSUME Delivered
  PROVE  TypeOK /\ DeviceInv /\ Alone /\ WholeInv /\ OverInv /\ ServedInv /\ [Next]_vars
           => ServedInv'
<1> SUFFICES ASSUME TypeOK, DeviceInv, Alone, WholeInv, OverInv, ServedInv, [Next]_vars
             PROVE  ServedInv'
  OBVIOUS
<1>0. job \in JobType
  BY DEF TypeOK
<1>1. ASSUME UNCHANGED <<cr, ctl, devCM, cm>>,
             \A q \in Pods : job'.pod = q => job.pod = q /\ pod'[q] = pod[q]
      PROVE  ServedInv'
  BY <1>1 DEF ServedInv, Aimed, Counts, Fresh, Prepared, Covered
<1>2. CASE Environment \/ (\E d \in PVs : Bind(d)) \/ Informers \/ UNCHANGED vars
  <2>1. UNCHANGED <<cr, ctl, devCM, job, pod, cm>>
    BY <1>2 DEF Environment, AddDevice, RemoveDevice, SetAttr, LosePod, Bind, Informers,
       SyncWant, SyncAttr, SyncAvail, SyncCR, SyncCM, ctlVars, vars
  <2>. QED  BY <1>1, <2>1
<1>3. CASE JobActive \/ JobFinished
  <2>1. UNCHANGED <<cr, ctl, devCM, pod, cm>> /\ job'.pod = job.pod
    BY <1>0, <1>3 DEF JobActive, JobFinished, ctlVars, JobType
  <2>. QED  BY <1>1, <2>1
<1>4. ASSUME NEW p \in Pods, CreatePod(p) PROVE ServedInv'
  <2>1. UNCHANGED <<cr, ctl, devCM, cm>> /\ job'.pod = p
    BY <1>0, <1>4 DEF CreatePod, ctlVars, JobType
  <2>2. pod'[p].pc = "get" /\ pod'[p].vol = devCM
    <3>1. \A l : /\ [NoPod EXCEPT !.pc = "get", !.vol = l].pc = "get"
                 /\ [NoPod EXCEPT !.pc = "get", !.vol = l].vol = l
      BY DEF NoPod
    <3>. QED  BY <1>4, <3>1 DEF CreatePod, TypeOK
  <2>3. Fresh(p)'
    BY <2>1, <2>2 DEF Fresh, Prepared
  <2>. QED  BY <2>1, <2>3 DEF ServedInv, Counts, Covered
<1>5. ASSUME NEW p \in Pods, CollectPod(p) \/ EvictPod(p) PROVE ServedInv'
  <2>1. /\ UNCHANGED <<cr, ctl, devCM, cm>> /\ job'.pod # p
        /\ \A q \in Pods \ {p} : pod'[q] = pod[q]
        /\ job'.pod = job.pod \/ job'.pod = None
    <3>1. CASE CollectPod(p)
      BY <3>1 DEF CollectPod, ctlVars, TypeOK
    <3>2. CASE EvictPod(p)
      BY <1>0, <3>2, SwiftRingAssumption DEF EvictPod, ctlVars, TypeOK, JobType
    <3>. QED  BY <1>5, <3>1, <3>2
  <2>. QED  BY <1>1, <2>1, SwiftRingAssumption
<1>6. ASSUME NEW p \in Pods, PodStep(p) PROVE ServedInv'
  <2>1. ~ToolPushLost(p)
    BY DEF ToolPushLost, Fault, Delivered
  <2>. QED  BY <1>6, <2>1, PodRuns, PodAdvances, WholePods, ServedPods
<1>7. CASE PatchFails \/ Crash
  <2>1. UNCHANGED <<cr, devCM, job, pod, cm>> /\ ctl'.pc = "idle"
    BY <1>7 DEF PatchFails, Crash, IdleCtl
  <2>. QED  BY <2>1 DEF ServedInv, Aimed, Counts, Fresh, Prepared, Covered
<1>. QED  BY <1>2, <1>3, <1>4, <1>5, <1>6, <1>7, ServedReconcile, ServedLabel
          DEF Next, Kubernetes, Failures, PodStep

(* With any number of failing calls, lost patches, operator restarts,      *)
(* killed containers, evicted pods and a stale cache of the ring           *)
(* ConfigMap, and with lists that grow, shrink and change back: a          *)
(* SwiftRing that is Ready with the hash of the list in devices.txt is     *)
(* served by rings that contain each device of that list under its own     *)
(* host name (ReadyMeansDevicesServed).                                    *)
THEOREM ReadyServesDevices ==
  ASSUME Delivered
  PROVE  Spec => []ReadyMeansDevicesServed
<1>1. OverInv /\ ServedInv => ReadyMeansDevicesServed
  <2>1. \A r \in Rings : Served(r) = Plain(cm.fs.gz[r])
    BY DEF Served, Plain
  <2>. QED  BY <2>1 DEF OverInv, ServedInv, Counts, Covered, Listed, RingsCover,
            ReadyMeansDevicesServed
<1>2. Init => ServedInv
  BY SwiftRingAssumption DEF Init, ServedInv, Counts, NewStatus, IdleCtl, NoJob
<1>3. /\ "overlap" \notin Faults /\ "external" \notin Faults
      /\ {"stale_cr", "overlap"} \cap Faults = {}
  BY DEF Delivered
<1>4. Spec => [](TypeOK /\ DeviceInv /\ Alone /\ WholeInv)
  BY <1>3, TypeInit, TypeNext, DeviceInit, DeviceNext, AloneNext, WholeInit, WholeNext, PTL
  DEF Spec
<1>. QED  BY <1>1, <1>2, <1>3, <1>4, OverInit, OverNext, ServedNext, PTL DEF Spec
=============================================================================
