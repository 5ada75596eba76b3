----------------------------- MODULE ProxyConfig -----------------------------
(***************************************************************************)
(* What the SwiftProxy controller puts into the configuration of the proxy *)
(* (internal/controller/swiftproxy_controller.go from verifyServiceSecret  *)
(* on, internal/swiftproxy/barbican.go and templates.go): the password of  *)
(* the service user, the encryption key that it orders from Barbican, and  *)
(* the timeout of Apache, beside the one of the route.  Application        *)
(* credentials and transport secrets are those of module SwiftProxy.       *)
(*                                                                         *)
(* A key is its place in Barbican's list; 0 is no key.                     *)
(***************************************************************************)
EXTENDS Admission, Sequences

CONSTANTS
    Passwords, Timeouts, None,
    Prompt,         \* Barbican has generated what was ordered whenever it is asked
    MaxKeys,        \* bound: orders of keys
    MaxChanges,     \* bound: what users do
    MaxFaults       \* bound: failing calls and operator restarts

ASSUME ConfigAssumption ==
    /\ None \notin Passwords \cup Timeouts
    /\ Timeouts \subseteq Nat \ {0} /\ Timeouts # {}
    /\ Prompt \in BOOLEAN
    /\ MaxKeys \in Nat /\ MaxChanges \in Nat /\ MaxFaults \in Nat

VARIABLES
    swift, cr,      \* the fields of SwiftProxy in the Swift CR; the SwiftProxy
    route, human,   \* annotations of the route; what a human has set there
    password,       \* the password in the Secret of the service
    keys,           \* Barbican: whether each ordered key is ACTIVE
    secret,         \* the rendered configuration
    deploy, pods,   \* the pod template, and the running pods
    stored,         \* keys under which objects are stored
    ready, queued, ctl, changes, nfaults

vars == <<swift, cr, route, human, password, keys, secret, deploy, pods, stored,
          ready, queued, ctl, changes, nfaults>>
users   == <<swift, route, human, password>>
objects == <<cr, keys, secret, deploy, pods, stored, ready>>

Spec0    == [encryption : BOOLEAN, timeout : Timeouts, ceilometer : BOOLEAN,
             bus : BOOLEAN]
Config   == [encryption : BOOLEAN, key : 0..MaxKeys, password : Passwords,
             timeout : Timeouts]
Template == [hash : {None} \cup Passwords, config : Config]
Pod      == [tmpl : Template, config : Config, late : BOOLEAN]
Fallback == CHOOSE t \in Timeouts : TRUE
Idle     == [pc |-> "idle", spec |-> None, hash |-> None, password |-> None, key |-> 0]
Points   == {"idle", "verify", "password", "list", "order", "relist", "secret", "deploy",
             "ready"}

ASSUME NoneAssumption == None \notin Config

(* The types of all objects; no configuration names a key before Barbican  *)
(* has it.                                                                 *)
TypeOK ==
    /\ swift \in Spec0 /\ cr \in Spec0
    /\ route \in [swift : {None} \cup Timeouts, haproxy : {None} \cup Timeouts]
    /\ password \in {None} \cup Passwords
    /\ keys \in Seq(BOOLEAN) /\ Len(keys) <= MaxKeys
    /\ secret \in {None} \cup Config
    /\ secret # None /\ secret.key # 0 => secret.key <= Len(keys) /\ keys[secret.key]
    /\ deploy \in {None} \cup Template /\ pods \subseteq Pod
    /\ ready \in BOOLEAN /\ queued \in BOOLEAN
    /\ ctl.pc \in Points
    /\ changes \in 0..MaxChanges /\ nfaults \in 0..MaxFaults

----------------------------------------------------------------------------
(* Users.  The annotations of the route are defaulted on every edit, by    *)
(* the openstack-operator, which calls SetDefaultRouteAnnotations.         *)
Change == changes < MaxChanges /\ changes' = changes + 1

Edit(new) ==
    /\ Change
    /\ new # swift
    /\ swift' = new
    /\ route' = SetDefaultRouteAnnotations(route, new.timeout, None)
    /\ UNCHANGED <<objects, human, password, queued, ctl, nfaults>>

EditOne ==
    \/ \E b \in BOOLEAN : Edit([swift EXCEPT !.encryption = b])
    \/ \E b \in BOOLEAN : Edit([swift EXCEPT !.ceilometer = b])
    \/ \E b \in BOOLEAN : Edit([swift EXCEPT !.bus = b])
    \/ \E t \in {None} \cup Timeouts : Edit([swift EXCEPT !.timeout = Default(t, None, Fallback)])

EditRoute(t) ==
    /\ Change
    /\ t # route.haproxy
    /\ human' = t
    /\ route' = SetDefaultRouteAnnotations([route EXCEPT !.haproxy = t], swift.timeout, None)
    /\ UNCHANGED <<objects, swift, password, queued, ctl, nfaults>>

(* Mutant of SetPassword: the Secret is not watched. *)
SetPasswordUnseen(p) ==
    /\ Change
    /\ password # p /\ password' = p
    /\ UNCHANGED <<objects, swift, route, human, queued, ctl, nfaults>>

(* The Secret is created or changed; the index on .spec.secret finds the   *)
(* instance.                                                               *)
SetPassword(p) ==
    /\ Change
    /\ password # p /\ password' = p
    /\ queued' = TRUE
    /\ UNCHANGED <<objects, swift, route, human, ctl, nfaults>>

(* proxyCreateOrUpdate of the Swift controller: apiTimeout is not among    *)
(* the fields that it copies, and the API server fills in the default of   *)
(* SwiftProxy's own schema.                                                *)
ProxySpec(s) == [s EXCEPT !.timeout = Fallback]

(* A spec that the webhook of SwiftProxy refuses is tried again. *)
ProxyCreateOrUpdate ==
    /\ cr # ProxySpec(swift)
    /\ ValidateProxy(swift)
    /\ cr' = ProxySpec(swift) /\ queued' = TRUE
    /\ UNCHANGED <<users, keys, secret, deploy, pods, stored, ready, ctl, changes, nfaults>>

----------------------------------------------------------------------------
(* Barbican, the Deployment controller and the clients of the proxy. *)
Activate(k) ==
    /\ ~keys[k]
    /\ keys' = [keys EXCEPT ![k] = TRUE]
    /\ UNCHANGED <<users, cr, secret, deploy, pods, stored, ready, queued, ctl, changes, nfaults>>

(* A new pod mounts the configuration as it is, which may be newer than    *)
(* its template; then the older ones stop.                                 *)
StartPod ==
    /\ deploy # None
    /\ \A p \in pods : p.tmpl # deploy
    /\ pods' = pods \cup {[tmpl |-> deploy, config |-> secret, late |-> secret # deploy.config]}
    /\ queued' = TRUE
    /\ UNCHANGED <<users, cr, keys, secret, deploy, stored, ready, ctl, changes, nfaults>>

StopPods ==
    /\ \E p \in pods : p.tmpl = deploy
    /\ \E p \in pods : p.tmpl # deploy
    /\ pods' = {p \in pods : p.tmpl = deploy}
    /\ queued' = TRUE
    /\ UNCHANGED <<users, cr, keys, secret, deploy, stored, ready, ctl, changes, nfaults>>

PutObject ==
    /\ \E p \in pods : p.config.key \notin stored /\ stored' = stored \cup {p.config.key}
    /\ UNCHANGED <<users, cr, keys, secret, deploy, pods, ready, queued, ctl, changes, nfaults>>

----------------------------------------------------------------------------
(* Reconcile. *)
Begin ==
    /\ ctl.pc = "idle" /\ queued
    /\ queued' = FALSE
    /\ ctl' = [Idle EXCEPT !.pc = "verify", !.spec = cr]
    /\ UNCHANGED <<users, objects, changes, nfaults>>

Rest == UNCHANGED <<users, cr, pods, stored, changes, nfaults>>

Goto(pc) == ctl' = [ctl EXCEPT !.pc = pc]

(* An error, or nothing to go on with: not ready, and tried again. *)
Retry == ctl' = Idle /\ queued' = TRUE /\ ready' = FALSE

(* verifyServiceSecret adds the hash of the password; its result, that the *)
(* Secret is not there, is not looked at.                                  *)
VerifySecret ==
    /\ ctl.pc = "verify"
    /\ ctl' = [ctl EXCEPT !.pc = "password", !.hash = password]
    /\ UNCHANGED <<keys, secret, deploy, ready, queued>>
    /\ Rest

(* Mutant of GetPassword: a missing Secret is not an error either. *)
GetPasswordUnchecked ==
    /\ ctl.pc = "password"
    /\ ctl' = [ctl EXCEPT !.pc = IF ctl.spec.encryption THEN "list" ELSE "secret",
                          !.password = password]
    /\ UNCHANGED <<keys, secret, deploy, ready, queued>>
    /\ Rest

(* GetSecret fails then, unless the Secret has come in between: the        *)
(* configuration has the password and the template lacks its hash.         *)
GetPassword ==
    /\ ctl.pc = "password"
    /\ IF password = None THEN Retry
       ELSE /\ ctl' = [ctl EXCEPT !.pc = IF ctl.spec.encryption THEN "list" ELSE "secret",
                                  !.password = password]
            /\ UNCHANGED <<ready, queued>>
    /\ UNCHANGED <<keys, secret, deploy>>
    /\ Rest

(* GetBarbicanSecret: the last ACTIVE one in the list, *)
ActiveKey ==
    IF \E k \in DOMAIN keys : keys[k]
    THEN CHOOSE k \in DOMAIN keys : keys[k] /\ \A j \in DOMAIN keys : keys[j] => j <= k
    ELSE 0

(* An order is answered at once, the key is generated later. *)
Generated == Prompt => \A k \in DOMAIN keys : keys[k]

(* Mutant of ListKeys: a key is ordered each time. *)
ListKeysSkipped ==
    /\ ctl.pc = "list"
    /\ Goto("order")
    /\ UNCHANGED <<keys, secret, deploy, ready, queued>>
    /\ Rest

ListKeys ==
    /\ ctl.pc = "list"
    /\ Generated
    /\ ctl' = [ctl EXCEPT !.pc = IF ActiveKey = 0 THEN "order" ELSE "secret", !.key = ActiveKey]
    /\ UNCHANGED <<keys, secret, deploy, ready, queued>>
    /\ Rest

(* Mutant of OrderKey: the list is not asked again. *)
OrderKeyOnly ==
    /\ ctl.pc = "order"
    /\ Len(keys) < MaxKeys
    /\ keys' = Append(keys, FALSE)
    /\ Goto("secret")
    /\ UNCHANGED <<secret, deploy, ready, queued>>
    /\ Rest

(* "No secret found so far, create a new one" *)
OrderKey ==
    /\ ctl.pc = "order"
    /\ Len(keys) < MaxKeys
    /\ keys' = Append(keys, FALSE)
    /\ Goto("relist")
    /\ UNCHANGED <<secret, deploy, ready, queued>>
    /\ Rest

(* and no error when there is still none. *)
ListAgain ==
    /\ ctl.pc = "relist"
    /\ Generated
    /\ ctl' = [ctl EXCEPT !.pc = "secret", !.key = ActiveKey]
    /\ UNCHANGED <<keys, secret, deploy, ready, queued>>
    /\ Rest

Rendered == [encryption |-> ctl.spec.encryption, key |-> ctl.key, password |-> ctl.password,
             timeout |-> ctl.spec.timeout]

(* SecretTemplates, EnsureSecrets: without key the pipeline of the proxy   *)
(* has no keymaster and no encryption.                                     *)
EnsureSecrets ==
    /\ ctl.pc = "secret"
    /\ secret' = Rendered
    /\ Goto("deploy")
    /\ UNCHANGED <<keys, deploy, ready, queued>>
    /\ Rest

CreateDeployment ==
    /\ ctl.pc = "deploy"
    /\ deploy' = [hash |-> ctl.hash, config |-> Rendered]
    /\ Goto("ready")
    /\ UNCHANGED <<keys, secret, ready, queued>>
    /\ Rest

CheckReady ==
    /\ ctl.pc = "ready"
    /\ ready' = (pods # {} /\ \A p \in pods : p.tmpl = deploy)
    /\ ctl' = Idle
    /\ UNCHANGED <<keys, secret, deploy, queued>>
    /\ Rest

(* A call fails, its answer is lost, or the operator restarts. *)
CallFails ==
    /\ ctl.pc # "idle"
    /\ nfaults < MaxFaults /\ nfaults' = nfaults + 1
    /\ ctl' = Idle /\ queued' = TRUE
    /\ ready' \in {ready, FALSE}
    /\ UNCHANGED <<users, cr, keys, secret, deploy, pods, stored, changes>>

----------------------------------------------------------------------------
(* A SwiftProxy has been created, its Secret has not. *)
Init ==
    /\ \E e \in BOOLEAN : swift = [encryption |-> e, timeout |-> Fallback, ceilometer |-> FALSE,
                                   bus |-> FALSE]
    /\ cr = ProxySpec(swift)
    /\ route = SetDefaultRouteAnnotations([swift |-> None, haproxy |-> None], swift.timeout, None)
    /\ human = None /\ password \in {None} \cup Passwords
    /\ keys = <<>> /\ secret = None /\ deploy = None /\ pods = {} /\ stored = {}
    /\ ready = FALSE /\ queued = TRUE /\ ctl = Idle
    /\ changes = 0 /\ nfaults = 0

Controller ==
    Begin \/ VerifySecret \/ GetPassword \/ ListKeys \/ OrderKey \/ ListAgain
          \/ EnsureSecrets \/ CreateDeployment \/ CheckReady

Barbican == \E k \in DOMAIN keys : Activate(k)

Rollout == StartPod \/ StopPods

Users ==
    \/ EditOne
    \/ \E t \in {None} \cup Timeouts : EditRoute(t)
    \/ \E p \in Passwords : SetPassword(p)

Next ==
    \/ Controller \/ Barbican \/ Rollout \/ ProxyCreateOrUpdate \/ PutObject \/ Users
    \/ CallFails

Spec == Init /\ [][Next]_vars

(* The controllers run and Barbican generates the keys that are ordered;   *)
(* users and clients may stop.                                             *)
FairSpec ==
    /\ Spec
    /\ WF_vars(Controller) /\ WF_vars(Barbican) /\ WF_vars(Rollout)
    /\ WF_vars(ProxyCreateOrUpdate)

----------------------------------------------------------------------------
(* encryptionEnabled "Encrypts new objects at rest": no pod is started     *)
(* from a configuration that asks for encryption and has no key.           *)
EncryptedWhenEnabled == \A p \in pods : p.config.encryption => p.config.key # 0

(* Objects stay readable: over restarts, orders whose answer was lost, and *)
(* encryption switched off and on, every pod that encrypts has the key of  *)
(* all the objects that were encrypted before.                             *)
OneKey == \A p \in pods : p.config.key # 0 => stored \subseteq {0, p.config.key}

(* "Human operator set the HAProxy timeout manually": what a human has set *)
(* stays, whatever happens to apiTimeout afterwards.                       *)
HumanTimeoutKept == human # None => route.haproxy = human

(* The password and the encryption that users ask for reach the pods       *)
(* in the end, and the proxy becomes ready, although the Secret may come   *)
(* late or change between its two reads, and although a spec refused for   *)
(* want of a message bus has to be corrected first.  Only a pod that was   *)
(* started between the writes of configuration and Deployment may run with *)
(* another configuration than its template says, and is not replaced when  *)
(* the change is taken back.                                               *)
EventuallyConfigured ==
    LET Wanted(c) == c.password = password /\ c.encryption = swift.encryption IN
    <>[](\/ ~ValidateProxy(swift) \/ password = None
         \/ /\ ready /\ pods # {}
            /\ \A p \in pods : Wanted(p.tmpl.config) /\ (p.late \/ Wanted(p.config)))
=============================================================================
