----------------------------- MODULE SwiftRing -----------------------------
(***************************************************************************)
(* The SwiftRing controller (internal/controller/swiftring_controller.go), *)
(* the rebalance Job it starts and the swift-ring-tool run inside that     *)
(* Job's pod, around three shared API objects: the SwiftRing status, the   *)
(* devices ConfigMap (written by the controller, read by the pod) and the  *)
(* ring ConfigMap (written by the pod, served to every Swift service).     *)
(*                                                                         *)
(* Every API call of the reconciler is a step of its own; the status is    *)
(* kept in memory and patched at the end; reads go to informer caches that *)
(* lag (seen, crSeen, cmSeen), except for Jobs, which are read live.       *)
(***************************************************************************)
EXTENDS RingTool, Integers, FiniteSets

CONSTANTS
    Pods,           \* pod slots: how many pods of this Job may exist at once
    None,           \* no list / no pod
    MaxRestarts,    \* container restarts before the Job fails (backoffLimit)
    MaxChanges,     \* bound: changes of the device environment
    MaxFaults,      \* bound: faults that happen
    Faults          \* the kinds of faults this instance admits

FaultKinds ==
    {"api",             \* a call of the controller or of "get" fails
     "crash",           \* the operator restarts in the middle of a reconcile
     "kill",            \* the container dies, builders as they should be
     "kill_rebalance",  \* ... between the two metaswaps of a ring
     "evict",           \* the pod is lost with its emptyDir
     "push",            \* the API server refuses or loses the push
     "overlap",         \* a pod of a deleted Job still runs next to the new one
     "removal",         \* devices leave the list again
     "stale_cr",        \* a reconcile may start before it sees its last patch
     "stale_cm",        \* the ring ConfigMap cache may lag
     "external"}        \* the ring ConfigMap may be user-provided

ASSUME SwiftRingAssumption ==
    /\ MaxRestarts \in Nat /\ MaxChanges \in Nat /\ MaxFaults \in Nat
    /\ Faults \subseteq FaultKinds
    /\ Rings # {} /\ Attrs # {}
    /\ \A l \in SUBSET Line : l # None
    /\ None \notin Pods

VARIABLES
    env,        \* SwiftStorage replicas and inventories, PVCs and pods, attributes
    seen,       \* the same as the informer caches show it
    cr,         \* SwiftRing: finalizer, Status.Hash and SwiftRingReady
    crSeen,     \* ... in the cache
    queued,     \* the workqueue holds the SwiftRing key
    ctl,        \* the reconcile in flight
    devCM,      \* devices.txt in the <name>-config-data ConfigMap
    job,        \* the <name>-rebalance Job
    pod,        \* its pods: program point, mounted devices.txt, directory
    cm,         \* the ring ConfigMap
    cmSeen,     \* ... in the cache: absent, bare or labelled
    changes, nfaults

vars == <<env, seen, cr, crSeen, queued, ctl, devCM, job, pod, cm, cmSeen,
          changes, nfaults>>
ctlVars == <<ctl, cr, crSeen, devCM, cmSeen>>
envVars == <<env, seen, changes>>

Lists      == SUBSET Line
Conditions == {"nil", "Unknown", "False", "True"}
Status     == [fin : BOOLEAN, dlh : {None} \cup Lists, rch : BOOLEAN, cond : Conditions]
CtlPoints  == {"idle", "ensure", "getjob", "deljob", "dojob", "label", "patch"}
ToolPoints == {"get", "init", "update", "rebalance", "push"}
PodPoints  == ToolPoints \cup {"none", "done", "failed"}

NewStatus  == [fin |-> FALSE, dlh |-> None, rch |-> FALSE, cond |-> "nil"]
IdleCtl    == [pc |-> "idle", base |-> NewStatus, mem |-> NewStatus,
               lines |-> {}, again |-> FALSE]
NoJob      == [exists |-> FALSE, active |-> 0, result |-> "none", pod |-> None]
NoPod      == [pc |-> "none", vol |-> {}, fs |-> EmptyDir, json |-> "absent",
               restarts |-> 0]
NoCM       == [exists |-> FALSE, fs |-> EmptyDir, lab |-> FALSE]

(* Rings made by somebody else: ring files, no builders. *)
ExternalCM == [exists |-> TRUE, lab |-> FALSE,
               fs |-> [EmptyDir EXCEPT !.wrote = Rings]]

EnvType == [want : SUBSET Devices, avail : SUBSET PVs, attr : [Devices -> Attrs]]
CtlType == [pc : CtlPoints, base : Status, mem : Status, lines : Lists, again : BOOLEAN]
JobType == [exists : BOOLEAN, active : {0, 1}, pod : {None} \cup Pods,
            result : {"none", "complete", "failed"}]
PodType == [pc : PodPoints, vol : Lists, fs : Files,
            json : {"absent", "current", "outdated"}, restarts : 0..MaxRestarts]
CMType  == [exists : BOOLEAN, fs : Files, lab : BOOLEAN]

(* The types of the shared API objects, of the caches and of the processes *)
(* around them (Reconcile, GetRingJob, swift-ring-tool); in particular no  *)
(* container is restarted beyond the Job's backoff limit.                  *)
TypeOK ==
    /\ env \in EnvType /\ seen \in EnvType
    /\ cr \in Status /\ crSeen \in Status
    /\ queued \in BOOLEAN
    /\ ctl \in CtlType
    /\ devCM \in {None} \cup Lists
    /\ job \in JobType
    /\ pod \in [Pods -> PodType]
    /\ cm \in CMType
    /\ cmSeen \in {"absent", "bare", "labelled"}
    /\ changes \in 0..MaxChanges
    /\ nfaults \in 0..MaxFaults

----------------------------------------------------------------------------
(* Faults are counted: the system must recover from finitely many. *)
Fault(kind) ==
    /\ kind \in Faults
    /\ nfaults < MaxFaults
    /\ nfaults' = nfaults + 1

(* The informer's picture of the ring ConfigMap. *)
CMView(c) == IF ~c.exists THEN "absent" ELSE IF c.lab THEN "labelled" ELSE "bare"

(* resourceVersion moves on: whoever read the ConfigMap before is outdated. *)
Outdate(pods) ==
    [p \in Pods |-> [pods[p] EXCEPT !.json = IF @ = "current" THEN "outdated" ELSE @]]

----------------------------------------------------------------------------
(* DeviceList: every replica of every SwiftStorage needs a bound claim and *)
(* a scheduled pod, otherwise there is no list.  Its hash is modelled by   *)
(* the set of lines itself.                                                *)
ListKnown(e) == e.want \cap PVs \subseteq e.avail
DeviceList(e) == {[dev |-> d, attr |-> e.attr[d]] : d \in e.want}

(* The environment: replicas and inventories change, claims get bound. *)
Change == changes < MaxChanges /\ changes' = changes + 1

AddDevice(d) ==
    /\ Change
    /\ d \notin env.want
    /\ env' = [env EXCEPT !.want = @ \cup {d}]
    /\ UNCHANGED <<seen, ctlVars, queued, job, pod, cm, nfaults>>

RemoveDevice(d) ==
    /\ "removal" \in Faults
    /\ Change
    /\ d \in env.want
    /\ env' = [env EXCEPT !.want = @ \ {d}]
    /\ UNCHANGED <<seen, ctlVars, queued, job, pod, cm, nfaults>>

SetAttr(d, a) ==
    /\ Change
    /\ env.attr[d] # a
    /\ env' = [env EXCEPT !.attr[d] = a]
    /\ UNCHANGED <<seen, ctlVars, queued, job, pod, cm, nfaults>>

LosePod(d) ==
    /\ Change
    /\ d \in env.avail
    /\ env' = [env EXCEPT !.avail = @ \ {d}]
    /\ UNCHANGED <<seen, ctlVars, queued, job, pod, cm, nfaults>>

Bind(d) ==
    /\ d \in (env.want \cap PVs) \ env.avail
    /\ env' = [env EXCEPT !.avail = @ \cup {d}]
    /\ UNCHANGED <<seen, ctlVars, queued, job, pod, cm, changes, nfaults>>

(* Informers.  SwiftStorage and inventory events enqueue every SwiftRing;  *)
(* PVCs and pods are cached but not watched.                               *)
SyncWant ==
    /\ seen.want # env.want
    /\ seen' = [seen EXCEPT !.want = env.want]
    /\ queued' = TRUE
    /\ UNCHANGED <<env, changes, ctlVars, job, pod, cm, nfaults>>

SyncAttr ==
    /\ seen.attr # env.attr
    /\ seen' = [seen EXCEPT !.attr = env.attr]
    /\ queued' = (queued \/ \E d \in Devices \ PVs : seen.attr[d] # env.attr[d])
    /\ UNCHANGED <<env, changes, ctlVars, job, pod, cm, nfaults>>

SyncAvail ==
    /\ seen.avail # env.avail
    /\ seen' = [seen EXCEPT !.avail = env.avail]
    /\ UNCHANGED <<env, changes, ctlVars, queued, job, pod, cm, nfaults>>

SyncCR ==
    /\ crSeen # cr
    /\ crSeen' = cr
    /\ queued' = TRUE
    /\ UNCHANGED <<envVars, ctl, cr, devCM, cmSeen, job, pod, cm, nfaults>>

(* The ring ConfigMap's owner reference is not a controller reference, so  *)
(* Owns(ConfigMap) does not enqueue for it.                                *)
SyncCM ==
    /\ cmSeen # CMView(cm)
    /\ cmSeen' = CMView(cm)
    /\ UNCHANGED <<envVars, ctl, cr, crSeen, devCM, queued, job, pod, cm, nfaults>>

----------------------------------------------------------------------------
(* Reconcile.  The status is read from the cache and every condition reset *)
(* to Unknown in memory.                                                   *)
Begin(pc, mem, lines, again) ==
    /\ ctl.pc = "idle"
    /\ queued
    /\ crSeen = cr \/ "stale_cr" \in Faults
    /\ queued' = FALSE
    /\ ctl' = [pc |-> pc, base |-> crSeen, mem |-> mem, lines |-> lines,
               again |-> again]
    /\ UNCHANGED <<envVars, cr, crSeen, devCM, cmSeen, job, pod, cm, nfaults>>

IsNew == crSeen.cond = "nil" \/ ~crSeen.fin
Reset == [crSeen EXCEPT !.cond = "Unknown"]

(* A new instance, or one without our finalizer: add it and return. *)
ReconcileNew ==
    /\ IsNew
    /\ Begin("patch", [Reset EXCEPT !.fin = TRUE], {}, FALSE)

(* Mutant of ReconcileNoDevices: the error path does not requeue. *)
NoDevicesNoRequeue ==
    /\ ~IsNew
    /\ ~ListKnown(seen)
    /\ Begin("patch", [Reset EXCEPT !.cond = "False"], {}, FALSE)

(* DeviceList fails: SwiftRingReady False, and the request comes back. *)
ReconcileNoDevices ==
    /\ ~IsNew
    /\ ~ListKnown(seen)
    /\ Begin("patch", [Reset EXCEPT !.cond = "False"], {}, TRUE)

ReconcileListChanged ==
    /\ ~IsNew
    /\ ListKnown(seen)
    /\ crSeen.dlh # DeviceList(seen)
    /\ Begin("ensure", Reset, DeviceList(seen), FALSE)

ReconcileListSame ==
    /\ ~IsNew
    /\ ListKnown(seen)
    /\ crSeen.dlh = DeviceList(seen)
    /\ Begin("dojob", Reset, DeviceList(seen), FALSE)

(* EnsureConfigMaps; the devices ConfigMap is owned, a change enqueues. *)
EnsureConfigMaps ==
    /\ ctl.pc = "ensure"
    /\ devCM' = ctl.lines
    /\ queued' = (queued \/ devCM # ctl.lines)
    /\ ctl' = [ctl EXCEPT !.pc = "getjob"]
    /\ UNCHANGED <<envVars, cr, crSeen, cmSeen, job, pod, cm, nfaults>>

(* Mutant of GetJob: the hash of the previous Job is not cleared. *)
GetJobKeepsHash ==
    /\ ctl.pc = "getjob"
    /\ ctl' = IF ~job.exists
              THEN [ctl EXCEPT !.pc = "dojob", !.mem.dlh = ctl.lines]
              ELSE [ctl EXCEPT !.pc = IF job.active = 0 THEN "deljob" ELSE "patch"]
    /\ UNCHANGED <<envVars, cr, crSeen, devCM, cmSeen, queued, job, pod, cm, nfaults>>

(* GetJobWithName: only when there is no Job are the hashes replaced; a Job *)
(* without active pods is deleted next, an active one is waited for.        *)
GetJob ==
    /\ ctl.pc = "getjob"
    /\ ctl' = IF ~job.exists
              THEN [ctl EXCEPT !.pc = "dojob", !.mem.rch = FALSE, !.mem.dlh = ctl.lines]
              ELSE [ctl EXCEPT !.pc = IF job.active = 0 THEN "deljob" ELSE "patch"]
    /\ UNCHANGED <<envVars, cr, crSeen, devCM, cmSeen, queued, job, pod, cm, nfaults>>

(* DeleteJob, in the background: its pod stays until it is collected. *)
DeleteJob ==
    /\ ctl.pc = "deljob"
    /\ job' = NoJob
    /\ queued' = (queued \/ job.exists)
    /\ ctl' = [ctl EXCEPT !.pc = "patch"]
    /\ UNCHANGED <<envVars, cr, crSeen, devCM, cmSeen, pod, cm, nfaults>>

(* DoJob: nothing to do when the recorded hash is that of the Job. *)
DoJobSkip ==
    /\ ctl.pc = "dojob"
    /\ ctl.mem.rch
    /\ ctl' = [ctl EXCEPT !.pc = "label"]
    /\ UNCHANGED <<envVars, cr, crSeen, devCM, cmSeen, queued, job, pod, cm, nfaults>>

DoJobCreate ==
    /\ ctl.pc = "dojob"
    /\ ~ctl.mem.rch
    /\ ~job.exists
    /\ job' = [NoJob EXCEPT !.exists = TRUE]
    /\ queued' = TRUE
    /\ ctl' = [ctl EXCEPT !.pc = "patch", !.again = TRUE]
    /\ UNCHANGED <<envVars, cr, crSeen, devCM, cmSeen, pod, cm, nfaults>>

(* Still running, or failed for good: requeue. *)
DoJobWait ==
    /\ ctl.pc = "dojob"
    /\ ~ctl.mem.rch
    /\ job.exists /\ job.result # "complete"
    /\ ctl' = [ctl EXCEPT !.pc = "patch", !.again = TRUE]
    /\ UNCHANGED <<envVars, cr, crSeen, devCM, cmSeen, queued, job, pod, cm, nfaults>>

DoJobComplete ==
    /\ ctl.pc = "dojob"
    /\ ~ctl.mem.rch
    /\ job.exists /\ job.result = "complete"
    /\ ctl' = [ctl EXCEPT !.pc = "label", !.mem.rch = TRUE]
    /\ UNCHANGED <<envVars, cr, crSeen, devCM, cmSeen, queued, job, pod, cm, nfaults>>

(* Mutant of Label: what the Job has pushed is not labelled. *)
LabelMissing ==
    /\ ctl.pc = "label"
    /\ ctl' = [ctl EXCEPT !.pc = "patch", !.mem.cond = "True"]
    /\ UNCHANGED <<envVars, cr, crSeen, devCM, cmSeen, queued, job, pod, cm, nfaults>>

(* reconcileRingConfigMapLabels on the cached object, then Ready. *)
Label ==
    /\ ctl.pc = "label"
    /\ cmSeen = CMView(cm) \/ "stale_cm" \in Faults
    /\ IF cmSeen = "bare" /\ cm.exists /\ ~cm.lab
       THEN /\ cm' = [cm EXCEPT !.lab = TRUE]
            /\ pod' = Outdate(pod)
       ELSE UNCHANGED <<cm, pod>>
    /\ ctl' = [ctl EXCEPT !.pc = "patch", !.mem.cond = "True"]
    /\ UNCHANGED <<envVars, cr, crSeen, devCM, cmSeen, queued, job, nfaults>>

(* The deferred PatchInstance: a merge patch of what this reconcile changed *)
(* with respect to what it had read.                                        *)
Merge(current, base, mem) ==
    [fin  |-> IF mem.fin  # base.fin  THEN mem.fin  ELSE current.fin,
     dlh  |-> IF mem.dlh  # base.dlh  THEN mem.dlh  ELSE current.dlh,
     rch  |-> IF mem.rch  # base.rch  THEN mem.rch  ELSE current.rch,
     cond |-> IF mem.cond # base.cond THEN mem.cond ELSE current.cond]

PatchInstance ==
    /\ ctl.pc = "patch"
    /\ cr' = Merge(cr, ctl.base, ctl.mem)
    /\ queued' = (queued \/ ctl.again)
    /\ ctl' = IdleCtl
    /\ UNCHANGED <<envVars, crSeen, devCM, cmSeen, job, pod, cm, nfaults>>

(* An API call of the reconcile fails: return the error, patch what the     *)
(* memory holds so far; when the patch itself fails, only retry.            *)
CallFails ==
    /\ ctl.pc \in CtlPoints \ {"idle", "patch"}
    /\ Fault("api")
    /\ ctl' = [ctl EXCEPT !.pc = "patch", !.again = TRUE]
    /\ UNCHANGED <<envVars, cr, crSeen, devCM, cmSeen, queued, job, pod, cm>>

PatchFails ==
    /\ ctl.pc = "patch"
    /\ Fault("api")
    /\ ctl' = IdleCtl
    /\ queued' = TRUE
    /\ UNCHANGED <<envVars, cr, crSeen, devCM, cmSeen, job, pod, cm>>

(* The operator restarts: the memory is lost, the caches are listed anew. *)
Crash ==
    /\ ctl.pc # "idle"
    /\ Fault("crash")
    /\ ctl' = IdleCtl
    /\ queued' = TRUE
    /\ seen' = env /\ crSeen' = cr /\ cmSeen' = CMView(cm)
    /\ UNCHANGED <<env, changes, cr, devCM, job, pod, cm>>

----------------------------------------------------------------------------
(* The Kubernetes Job controller and garbage collector.  A pod mounts the   *)
(* devices ConfigMap as it is when the pod starts.                          *)
CreatePod(p) ==
    /\ job.exists /\ job.result = "none" /\ job.pod = None
    /\ pod[p].pc = "none"
    /\ devCM # None
    /\ "overlap" \in Faults \/ \A q \in Pods : pod[q].pc = "none"
    /\ pod' = [pod EXCEPT ![p] = [NoPod EXCEPT !.pc = "get", !.vol = devCM]]
    /\ job' = [job EXCEPT !.pod = p]
    /\ UNCHANGED <<envVars, ctlVars, queued, cm, nfaults>>

(* The Job's status follows its pod; every change enqueues the SwiftRing. *)
JobActive ==
    /\ job.pod # None /\ job.active = 0
    /\ pod[job.pod].pc \in ToolPoints
    /\ job' = [job EXCEPT !.active = 1]
    /\ queued' = TRUE
    /\ UNCHANGED <<envVars, ctlVars, pod, cm, nfaults>>

JobFinished ==
    /\ job.pod # None /\ job.result = "none"
    /\ pod[job.pod].pc \in {"done", "failed"}
    /\ job' = [job EXCEPT !.active = 0,
                          !.result = IF pod[job.pod].pc = "done" THEN "complete" ELSE "failed"]
    /\ queued' = TRUE
    /\ UNCHANGED <<envVars, ctlVars, pod, cm, nfaults>>

CollectPod(p) ==
    /\ pod[p].pc # "none" /\ job.pod # p
    /\ pod' = [pod EXCEPT ![p] = NoPod]
    /\ UNCHANGED <<envVars, ctlVars, queued, job, cm, nfaults>>

EvictPod(p) ==
    /\ pod[p].pc \in ToolPoints /\ job.pod = p
    /\ Fault("evict")
    /\ pod' = [pod EXCEPT ![p] = NoPod]
    /\ job' = [job EXCEPT !.pod = None, !.active = 0]
    /\ queued' = TRUE
    /\ UNCHANGED <<envVars, ctlVars, cm>>

----------------------------------------------------------------------------
(* swift-ring-tool all, in pod p. *)
Step(p, from, to, fs) ==
    /\ pod[p].pc = from
    /\ pod' = [pod EXCEPT ![p].pc = to, ![p].fs = fs]
    /\ UNCHANGED <<envVars, ctlVars, queued, job, cm, nfaults>>

ToolGet(p) ==
    /\ pod[p].pc = "get"
    /\ pod' = [pod EXCEPT
          ![p].pc   = "init",
          ![p].json = IF cm.exists THEN "current" ELSE "absent",
          ![p].fs   = IF cm.exists THEN Untar(@, cm.fs) ELSE @]
    /\ UNCHANGED <<envVars, ctlVars, queued, job, cm, nfaults>>

ToolInit(p) ==
    IF ForeignRing(pod[p].fs)
    THEN Step(p, "init", "done", pod[p].fs)
    ELSE Step(p, "init", "update", CreateBuilders(pod[p].fs, Rings))

(* devices.txt is what was mounted, or what the kubelet has synced since. *)
ToolUpdate(p) ==
    \E lines \in {pod[p].vol, devCM} \ {None} :
        Step(p, "update", "rebalance", Update(pod[p].fs, [r \in Rings |-> lines]))

ToolRebalance(p) == Step(p, "rebalance", "push", Rebalance(pod[p].fs, Rings))

(* Mutant of Accepted: the PUT carries no resourceVersion. *)
AcceptedAnyVersion(p) == (pod[p].json = "absent") = ~cm.exists

(* push: POST when get found nothing, else PUT with the resourceVersion of  *)
(* get.  The request replaces the whole object, its labels included.        *)
Accepted(p) ==
    \/ pod[p].json = "absent" /\ ~cm.exists
    \/ pod[p].json = "current" /\ cm.exists

(* Mutant of Pushed: the archive of the builders is left out. *)
PushedRingsOnly(p) ==
    [exists |-> TRUE, lab |-> FALSE,
     fs |-> [EmptyDir EXCEPT !.wrote = pod[p].fs.wrote, !.gz = pod[p].fs.gz]]

Pushed(p) == [exists |-> TRUE, fs |-> pod[p].fs, lab |-> FALSE]

ToolPush(p) ==
    /\ pod[p].pc = "push"
    /\ Accepted(p)
    /\ cm' = Pushed(p)
    /\ pod' = [Outdate(pod) EXCEPT ![p].pc = "done"]
    /\ UNCHANGED <<envVars, ctlVars, queued, job, nfaults>>

(* A refused or lost request is logged; the script exits 0 all the same. *)
ToolPushConflict(p) ==
    /\ ~Accepted(p)
    /\ Step(p, "push", "done", pod[p].fs)

ToolPushLost(p) ==
    /\ pod[p].pc = "push"
    /\ Fault("push")
    /\ pod' = [pod EXCEPT ![p].pc = "done"]
    /\ UNCHANGED <<envVars, ctlVars, queued, job, cm>>

----------------------------------------------------------------------------
(* Mutant of Restart: the backoff limit is not applied. *)
RestartForever(p, fs) ==
    [pod[p] EXCEPT !.fs = fs, !.json = "absent", !.pc = "get", !.restarts = @ + 1]

(* The container dies or exits non-zero.  The kubelet restarts it in the    *)
(* same pod, on the same directory, until the Job's backoff limit.          *)
Restart(p, fs) ==
    LET last == pod[p].restarts = MaxRestarts IN
    [pod[p] EXCEPT !.fs = fs, !.json = "absent",
                   !.pc = IF last THEN "failed" ELSE "get",
                   !.restarts = IF last THEN @ ELSE @ + 1]

Dies(p, kind, fs) ==
    /\ Fault(kind)
    /\ pod' = [pod EXCEPT ![p] = Restart(p, fs)]
    /\ UNCHANGED <<envVars, ctlVars, queued, job, cm>>

(* get answered by neither 200 nor 404, or killed there. *)
DiesInGet(p) == pod[p].pc = "get" /\ Dies(p, "kill", pod[p].fs)

DiesInInit(p) ==
    /\ pod[p].pc = "init"
    /\ ~ForeignRing(pod[p].fs)
    /\ \E created \in SUBSET Rings : Dies(p, "kill", CreateBuilders(pod[p].fs, created))

DiesInUpdate(p) ==
    /\ pod[p].pc = "update"
    /\ \E lines \in {pod[p].vol, devCM} \ {None} : \E part \in [Rings -> SUBSET lines] :
          Dies(p, "kill", Update(pod[p].fs, part))

(* Some rings are rebalanced and written, the others as they were. *)
DiesInRebalance(p) ==
    /\ pod[p].pc = "rebalance"
    /\ \E done \in SUBSET Rings : Dies(p, "kill", Rebalance(pod[p].fs, done))

(* ... or the next one is between its two metaswaps. *)
DiesInMetaswap(p) ==
    /\ pod[p].pc = "rebalance"
    /\ \E r \in Rings : \E done \in SUBSET (Rings \ {r}) :
          Dies(p, "kill_rebalance", HalfSwapped(Rebalance(pod[p].fs, done), r))

(* Killed before the request is taken, or after the API server took it. *)
DiesInPush(p) == pod[p].pc = "push" /\ Dies(p, "kill", pod[p].fs)

DiesAfterPush(p) ==
    /\ pod[p].pc = "push"
    /\ Accepted(p)
    /\ Fault("kill")
    /\ cm' = Pushed(p)
    /\ pod' = [Outdate(pod) EXCEPT ![p] = Restart(p, pod[p].fs)]
    /\ UNCHANGED <<envVars, ctlVars, queued, job>>

----------------------------------------------------------------------------
(* Which attribute a device has at first makes no difference: it is only   *)
(* compared with those the same device gets later.                         *)
SomeAttr == CHOOSE a \in Attrs : TRUE
InitEnv  == [want : SUBSET Devices \ {{}}, avail : {{}}, attr : {[d \in Devices |-> SomeAttr]}]

Init ==
    /\ env \in InitEnv
    /\ seen = env
    /\ cr = NewStatus /\ crSeen = NewStatus
    /\ queued = TRUE
    /\ ctl = IdleCtl
    /\ devCM = None
    /\ job = NoJob
    /\ pod = [p \in Pods |-> NoPod]
    /\ cm \in {NoCM} \cup (IF "external" \in Faults THEN {ExternalCM} ELSE {})
    /\ cmSeen = CMView(cm)
    /\ changes = 0 /\ nfaults = 0

Environment ==
    \/ \E d \in Devices : AddDevice(d) \/ RemoveDevice(d)
    \/ \E d \in Devices, a \in Attrs : SetAttr(d, a)
    \/ \E d \in PVs : LosePod(d)

Informers == SyncWant \/ SyncAttr \/ SyncAvail \/ SyncCR \/ SyncCM

Reconcile ==
    \/ ReconcileNew \/ ReconcileNoDevices
    \/ ReconcileListChanged \/ ReconcileListSame
    \/ EnsureConfigMaps \/ GetJob \/ DeleteJob
    \/ DoJobSkip \/ DoJobCreate \/ DoJobWait \/ DoJobComplete
    \/ Label \/ PatchInstance

Kubernetes ==
    \/ JobActive \/ JobFinished
    \/ \E p \in Pods : CreatePod(p) \/ CollectPod(p)

Tool(p) ==
    \/ ToolGet(p) \/ ToolInit(p) \/ ToolUpdate(p) \/ ToolRebalance(p)
    \/ ToolPush(p) \/ ToolPushConflict(p)

Killed(p) ==
    \/ DiesInGet(p) \/ DiesInInit(p) \/ DiesInUpdate(p)
    \/ DiesInRebalance(p) \/ DiesInMetaswap(p) \/ DiesInPush(p)

Failures ==
    \/ CallFails \/ PatchFails \/ Crash
    \/ \E p \in Pods :
          EvictPod(p) \/ ToolPushLost(p) \/ Killed(p) \/ DiesAfterPush(p)

Next ==
    \/ Environment
    \/ \E d \in PVs : Bind(d)
    \/ Informers
    \/ Reconcile
    \/ Kubernetes
    \/ \E p \in Pods : Tool(p)
    \/ Failures

Spec == Init /\ [][Next]_vars

(***************************************************************************)
(* Fairness: a queued key is worked on and a started reconcile runs to its *)
(* end, informers deliver, the Job controller and the kubelet do their     *)
(* work, claims get bound.  Nothing is assumed of changes and faults.      *)
(***************************************************************************)
Fairness ==
    /\ WF_vars(Reconcile)
    /\ WF_vars(SyncWant) /\ WF_vars(SyncAttr) /\ WF_vars(SyncAvail)
    /\ WF_vars(SyncCR) /\ WF_vars(SyncCM)
    /\ WF_vars(JobActive) /\ WF_vars(JobFinished)
    /\ WF_vars(\E p \in Pods : CreatePod(p))
    /\ \A p \in Pods : WF_vars(Tool(p)) /\ WF_vars(CollectPod(p))
    /\ \A d \in PVs : WF_vars(Bind(d))

FairSpec == Spec /\ Fairness

----------------------------------------------------------------------------
(* Properties. *)

Served(r) == {e.dev : e \in {f \in cm.fs.gz[r] : ~f.swapped}}

RingsCover(l) == \A r \in Rings : {x.dev : x \in l} \subseteq Served(r)

(* "These rings will also be updated if the PVs or dataplane disks are     *)
(* changing" (docs/config.md): SwiftRingReady True with the hash of a      *)
(* device list means that the rings every Swift service mounts contain     *)
(* each device of that list under its own host name.  It needs a list that *)
(* does not change back while a Job is active.                             *)
ReadyMeansRingsCoverList ==
    cr.cond = "True" /\ cr.dlh # None => RingsCover(cr.dlh)

(* The same as long as devices.txt is the list of the recorded hash, which *)
(* only a list that has changed and changed back undoes: whatever is       *)
(* retried, restarted, evicted or removed from the list, a Job run for     *)
(* another list is never taken for it (Reconcile, DoJob).                  *)
ReadyMeansDevicesServed ==
    cr.cond = "True" /\ cr.dlh # None /\ cr.dlh = devCM => RingsCover(cr.dlh)

(* The rings never hold a host/disk twice, and none under a swapped        *)
(* address ("Check if host/disk exists and only add if not" in update),    *)
(* although update, rebalance and push are re-run after every failure.     *)
NoDuplicateDevice ==
    \A r \in Rings : \A e, f \in cm.fs.gz[r] : ~e.swapped /\ (e.dev = f.dev => e = f)

StoredGrows ==
    \A r \in Rings : /\ Names(cm.fs.b[r]) \subseteq Names(cm'.fs.b[r])
                     /\ Names(cm.fs.gz[r]) \subseteq Names(cm'.fs.gz[r])

(* A ring ConfigMap never loses a device, in the builders or in the rings: *)
(* a push based on an older ConfigMap (a second pod, a restart, a failed   *)
(* get) is refused instead of overwriting what is there.                   *)
NoDeviceLost == [][StoredGrows]_vars

(* Rings provided by the user (ring files without builders) are never      *)
(* replaced by the rebalance job, whatever happens to its pods.            *)
ExternalRingsKept ==
    [][cm.exists /\ cm.fs.made = {} => cm'.fs = cm.fs]_vars

Owner == IF ~cm.exists THEN "nobody" ELSE IF cm.fs.made = {} THEN "user" ELSE "operator"

Store == INSTANCE RingStore WITH
    Ring <- Rings, Device <- Devices,
    owner <- Owner, rings <- [r \in Rings |-> Names(cm.fs.gz[r])]

(* The many steps in which pods fetch, extend, rebalance and push, and the *)
(* controller labels, amount to one store that publishes rings atomically, *)
(* only adds devices and never takes over a user's rings: a service that   *)
(* mounts the ConfigMap cannot see a pod's intermediate or restarted work. *)
ImplementsRingStore == Store!Spec

BecomesReady == cr.cond # "True" /\ cr'.cond = "True"

(* "reconcileRingConfigMapLabels ensures backup/restore labels are set on  *)
(* the ring ConfigMap": a SwiftRing becomes ready for the list that is in  *)
(* devices.txt only with a labelled ring ConfigMap, although each push     *)
(* replaces the object and drops the labels, patches are lost and the      *)
(* operator forgets Jobs it has created.                                   *)
LabelledWhenReady ==
    [][BecomesReady /\ cr'.dlh = devCM /\ cm.exists => cm.lab]_vars

(* Once devices stop changing and faults stop, the SwiftRing becomes and   *)
(* stays ready for exactly the devices that are wanted, with labelled      *)
(* rings if that list is in devices.txt: no wake-up is lost although PVCs, *)
(* pods and ring ConfigMap are not watched and some returns do not requeue. *)
EventuallyReady ==
    <>[](/\ cr.cond = "True" /\ cr.dlh # None /\ {l.dev : l \in cr.dlh} = env.want
         /\ cr.dlh = devCM /\ cm.exists => cm.lab)

----------------------------------------------------------------------------
(* The inductive invariant behind NoDeviceLost: whatever a pod may still   *)
(* push under the resourceVersion it has read contains what is stored.     *)
PodBasedOnStored(p) ==
    /\ pod[p].pc \in {"update", "rebalance", "push"} => pod[p].fs.made = Rings
    /\ pod[p].pc = "push" => \A r \in Rings : pod[p].fs.gz[r] = pod[p].fs.b[r]
    /\ pod[p].pc \in ToolPoints \ {"get"} /\ pod[p].json = "current"
          => \A r \in Rings : Names(cm.fs.b[r]) \subseteq Names(pod[p].fs.b[r])

StoredConsistent ==
    \A r \in Rings : /\ ~cm.exists \/ r \notin cm.fs.made => cm.fs.b[r] = {}
                     /\ Names(cm.fs.gz[r]) \subseteq Names(cm.fs.b[r])

DeviceInv == StoredConsistent /\ \A p \in Pods : PodBasedOnStored(p)

(* The inductive invariant behind ExternalRingsKept: as long as the rings  *)
(* are a user's, no pod has a builder, so that init stops every pod.       *)
StoppedByUserRings(p) ==
    /\ pod[p].pc \notin {"update", "rebalance", "push"}
    /\ pod[p].fs.made = {}
    /\ pod[p].pc = "init" => pod[p].fs.wrote = Rings

UserInv ==
    cm.exists /\ cm.fs.made = {}
        => cm.fs.wrote = Rings /\ \A p \in Pods : StoppedByUserRings(p)
=============================================================================
