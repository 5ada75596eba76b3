------------------------- MODULE ProxyConfigProofs -------------------------
(***************************************************************************)
(* Theorems about ProxyConfig, for any passwords, timeouts, keys, changes  *)
(* and faults: types, and the timeout of a human on the route; and, if     *)
(* Barbican generates keys promptly, that objects are encrypted when they  *)
(* should be and under one key.                                            *)
(***************************************************************************)
EXTENDS ProxyConfig, SequenceTheorems, WellFoundedInduction, TLAPS

CtlType == [pc : Points, spec : {None} \cup Spec0, hash : {None} \cup Passwords,
            password : {None} \cup Passwords, key : 0..MaxKeys]
Keyed   == {"list", "order", "relist", "secret", "deploy", "ready"}

(* A key that Barbican has generated, or none. *)
Generating(k) == k # 0 => k <= Len(keys) /\ keys[k]

(* What the reconcile in flight has at each of its points. *)
CtlInv ==
    /\ ctl \in CtlType
    /\ ctl.pc # "idle" => ctl.spec \in Spec0
    /\ ctl.pc \in Keyed => ctl.password \in Passwords
    /\ Generating(ctl.key)
    /\ ctl.pc = "deploy" \/ deploy # None => secret # None

ConfigInv == TypeOK /\ CtlInv

(* The operator's two annotations agree; a human's has no flag beside it. *)
RouteInv ==
    /\ route.swift # None => route.haproxy = route.swift
    /\ human # None => route.swift = None /\ route.haproxy = human

(* With a prompt Barbican: *)
KeyInv ==
    /\ Len(keys) <= 1
    /\ ctl.pc = "order" => Len(keys) = 0
    /\ ctl.pc = "relist" => Len(keys) = 1
    /\ ctl.pc \in {"secret", "deploy"} /\ ctl.spec.encryption => ctl.key # 0
    /\ secret # None /\ secret.encryption => secret.key # 0
    /\ \A p \in pods : p.config.key \in {0, 1} /\ (p.config.encryption => p.config.key # 0)
    /\ stored \subseteq {0, 1}

----------------------------------------------------------------------------
(* The fallback is a timeout. *)
LEMMA FallbackFacts == Fallback \in Timeouts /\ Timeouts \subseteq Nat \ {0} /\ None \notin Timeouts
BY ConfigAssumption DEF Fallback

(* A set of positions in a list has a last one: the distances to the end   *)
(* have a smallest one, as the order of the natural numbers is             *)
(* well-founded.                                                           *)
LEMMA LastPosition ==
  ASSUME NEW n \in Nat, NEW T \in SUBSET (1..n), T # {}
  PROVE  \E k \in T : \A j \in T : j <= k
<1> DEFINE R == OpToRel(<, Nat)
           D == {n - k : k \in T}
<1>1. IsWellFoundedOn(R, Nat)
  BY NatLessThanWellFounded
<1>2. \A x, y \in Nat : <<x, y>> \in R <=> x < y
  BY DEF OpToRel
<1> HIDE DEF R
<1>3. \A k \in T : k \in Int /\ n - k \in Nat
  OBVIOUS
<1>4. D \subseteq Nat /\ D # {}
  BY <1>3
<1>5. \E x \in D : \A y \in D : ~(<<y, x>> \in R)
  <2> HIDE DEF D
  <2>. QED  BY <1>1, <1>4, WFMin
<1>6. PICK k \in T : \A j \in T : ~(<<n - j, n - k>> \in R)
  BY <1>5
<1>7. \A j \in T : ~(n - j < n - k)
  BY <1>2, <1>3, <1>6
<1>. QED  BY <1>3, <1>7

(* GetBarbicanSecret returns an ACTIVE key, if there is one. *)
LEMMA ActiveKeyFacts ==
  ASSUME keys \in Seq(BOOLEAN)
  PROVE  /\ ActiveKey \in 0..Len(keys) /\ Generating(ActiveKey)
         /\ (\E k \in 1..Len(keys) : keys[k]) => ActiveKey # 0
<1>1. Len(keys) \in Nat /\ DOMAIN keys = 1..Len(keys)
  BY LenProperties
<1>2. CASE \E k \in DOMAIN keys : keys[k]
  <2> DEFINE T == {k \in 1..Len(keys) : keys[k]}
  <2>1. \E k \in T : \A j \in T : j <= k
    <3>1. T \in SUBSET (1..Len(keys)) /\ T # {}
      BY <1>1, <1>2
    <3> HIDE DEF T
    <3>. QED  BY <1>1, <3>1, LastPosition
  <2>2. \E k \in DOMAIN keys : keys[k] /\ \A j \in DOMAIN keys : keys[j] => j <= k
    BY <1>1, <2>1
  <2>3. ActiveKey \in DOMAIN keys /\ keys[ActiveKey]
    BY <1>2, <2>2 DEF ActiveKey
  <2>. QED  BY <1>1, <2>3 DEF Generating
<1>3. CASE ~\E k \in DOMAIN keys : keys[k]
  <2>1. ActiveKey = 0
    BY <1>3 DEF ActiveKey
  <2>. QED  BY <1>1, <1>3, <2>1 DEF Generating
<1>. QED  BY <1>2, <1>3

(* What SetDefaultRouteAnnotations makes of the annotations. *)
Annotations == [swift : {None} \cup Timeouts, haproxy : {None} \cup Timeouts]

(* The webhook's own annotation, when it sets one, equals the route's. *)
LEMMA RouteFacts ==
  ASSUME NEW a \in Annotations, NEW t \in Timeouts
  PROVE  LET b == SetDefaultRouteAnnotations(a, t, None) IN
         /\ b \in Annotations
         /\ b.swift # None => b.haproxy = b.swift
         /\ a.haproxy # None /\ a.swift # a.haproxy => b.swift = None /\ b.haproxy = a.haproxy
BY FallbackFacts DEF Annotations, SetDefaultRouteAnnotations

(* Keys are added and become active, and stay so. *)
Growing ==
    /\ keys' \in Seq(BOOLEAN) /\ Len(keys') <= MaxKeys /\ Len(keys) <= Len(keys')
    /\ \A j \in 1..Len(keys) : keys[j] => keys'[j]

(* A key that Barbican has generated stays generated. *)
LEMMA GrowingKeeps ==
  ASSUME keys \in Seq(BOOLEAN), Growing, NEW k \in 0..MaxKeys, Generating(k)
  PROVE  k # 0 => k <= Len(keys') /\ keys'[k]
<1>1. Len(keys) \in Nat /\ Len(keys') \in Nat
  BY LenProperties DEF Growing
<1>. QED  BY <1>1, ConfigAssumption DEF Growing, Generating

(* A step that leaves Barbican alone keeps its keys. *)
LEMMA SameKeys == ASSUME TypeOK, keys' = keys PROVE Growing
<1>1. Len(keys) \in Nat
  BY LenProperties DEF TypeOK
<1>. QED  BY <1>1 DEF Growing, TypeOK

(* An order appends one key to Barbican's list. *)
LEMMA OrderGrows ==
  ASSUME TypeOK, Len(keys) < MaxKeys, keys' = Append(keys, FALSE)
  PROVE  Growing /\ Len(keys') = Len(keys) + 1
<1>1. /\ Append(keys, FALSE) \in Seq(BOOLEAN) /\ Len(Append(keys, FALSE)) = Len(keys) + 1
      /\ \A i \in 1..Len(keys) : Append(keys, FALSE)[i] = keys[i]
      /\ Len(keys) \in Nat
  BY AppendProperties, LenProperties DEF TypeOK
<1>2. Len(keys') <= MaxKeys /\ Len(keys) <= Len(keys')
  BY <1>1, ConfigAssumption
<1>. QED  BY <1>1, <1>2 DEF Growing

(* Generating a key keeps the length of Barbican's list. *)
LEMMA ActivateGrows ==
  ASSUME TypeOK, NEW k \in DOMAIN keys, keys' = [keys EXCEPT ![k] = TRUE]
  PROVE  Growing /\ Len(keys') = Len(keys)
<1>1. k \in 1..Len(keys) /\ keys \in Seq(BOOLEAN) /\ Len(keys) \in Nat
  BY LenProperties DEF TypeOK
<1>2. PICK e \in BOOLEAN : e = TRUE
  OBVIOUS
<1>3. keys' = [keys EXCEPT ![k] = e]
  BY <1>2
<1>4. keys' \in Seq(BOOLEAN) /\ Len(keys') = Len(keys)
  BY <1>1, <1>3, ExceptSeq
<1>5. \A j \in 1..Len(keys) : keys[j] => keys'[j]
  BY <1>1, LenProperties
<1>. QED  BY <1>1, <1>4, <1>5 DEF Growing, TypeOK

(* Keys that are in use stay generated. *)
LEMMA KeysStay ==
  ASSUME ConfigInv, Growing
  PROVE  /\ secret' = secret =>
              (secret' # None /\ secret'.key # 0 => secret'.key <= Len(keys') /\ keys'[secret'.key])
         /\ ctl'.key = ctl.key => Generating(ctl.key)'
<1>1. keys \in Seq(BOOLEAN)
  BY DEF ConfigInv, TypeOK
<1>2. ASSUME secret # None PROVE secret.key \in 0..MaxKeys /\ Generating(secret.key)
  BY <1>2 DEF ConfigInv, TypeOK, Config, Generating
<1>3. ctl.key \in 0..MaxKeys /\ Generating(ctl.key)
  BY DEF ConfigInv, CtlInv, CtlType
<1>4. secret # None => (secret.key # 0 => secret.key <= Len(keys') /\ keys'[secret.key])
  BY <1>1, <1>2, GrowingKeeps
<1>5. ctl.key # 0 => ctl.key <= Len(keys') /\ keys'[ctl.key]
  BY <1>1, <1>3, GrowingKeeps
<1>. QED  BY <1>4, <1>5 DEF Generating

(* What the reconcile in flight has stays, if it stays where it is and its *)
(* configuration too.                                                      *)
LEMMA CtlStays ==
  ASSUME ConfigInv, Growing, ctl' = ctl, secret' = secret, deploy' = deploy
  PROVE  CtlInv'
<1>1. Generating(ctl.key)'
  BY KeysStay
<1>. QED  BY <1>1 DEF ConfigInv, CtlInv, CtlType

(* What the controller and the users make of a spec is a spec. *)
LEMMA SpecTypes ==
  ASSUME NEW s \in Spec0
  PROVE  /\ s.timeout \in Timeouts
         /\ ProxySpec(s) \in Spec0
         /\ \A b \in BOOLEAN : /\ [s EXCEPT !.encryption = b] \in Spec0
                               /\ [s EXCEPT !.encryption = b].timeout = s.timeout
                               /\ [s EXCEPT !.ceilometer = b] \in Spec0
                               /\ [s EXCEPT !.ceilometer = b].timeout = s.timeout
                               /\ [s EXCEPT !.bus = b] \in Spec0
                               /\ [s EXCEPT !.bus = b].timeout = s.timeout
         /\ \A t \in Timeouts : /\ [s EXCEPT !.timeout = t] \in Spec0
                                /\ [s EXCEPT !.timeout = t].timeout = t
BY FallbackFacts DEF Spec0, ProxySpec

(* The counters. *)
LEMMA ChangeCounts == ASSUME TypeOK, Change PROVE changes' \in 0..MaxChanges
<1>1. changes \in 0..MaxChanges /\ MaxChanges \in Nat
  BY ConfigAssumption DEF TypeOK
<1>. QED  BY <1>1 DEF Change

(* An edit of users. *)
LEMMA EditType ==
  ASSUME ConfigInv, NEW new \in Spec0, new.timeout \in Timeouts, Edit(new)
  PROVE  ConfigInv' /\ (RouteInv => RouteInv')
<1>1. Growing
  BY SameKeys DEF ConfigInv, Edit, objects
<1>2. CtlInv'
  BY <1>1, CtlStays DEF Edit, objects
<1>3. changes' \in 0..MaxChanges
  BY ChangeCounts DEF ConfigInv, Edit
<1>4. route \in Annotations
  BY DEF ConfigInv, TypeOK, Annotations
<1>5. /\ route' \in Annotations
      /\ route'.swift # None => route'.haproxy = route'.swift
      /\ route.haproxy # None /\ route.swift # route.haproxy
           => route'.swift = None /\ route'.haproxy = route.haproxy
  BY <1>4, RouteFacts DEF Edit
<1>6. swift' \in Spec0
  BY DEF Edit
<1>7. TypeOK'
  BY <1>3, <1>5, <1>6 DEF ConfigInv, TypeOK, Edit, objects, Annotations
<1>8. ASSUME RouteInv PROVE RouteInv'
  <2>1. human' = human
    BY DEF Edit
  <2>2. ASSUME human # None PROVE route'.swift = None /\ route'.haproxy = human
    BY <1>5, <1>8, <2>2 DEF RouteInv
  <2>. QED  BY <1>5, <2>1, <2>2 DEF RouteInv
<1>. QED  BY <1>2, <1>7, <1>8 DEF ConfigInv

(* An edit of one field of the Swift CR. *)
LEMMA EditOneType ==
  ASSUME ConfigInv, EditOne
  PROVE  ConfigInv' /\ (RouteInv => RouteInv')
<1>1. swift \in Spec0 /\ swift.timeout \in Timeouts
  BY SpecTypes DEF ConfigInv, TypeOK
<1>2. \A t \in {None} \cup Timeouts : Default(t, None, Fallback) \in Timeouts
  BY FallbackFacts DEF Default
<1>3. PICK new \in Spec0 : new.timeout \in Timeouts /\ Edit(new)
  <2>1. CASE \E b \in BOOLEAN : Edit([swift EXCEPT !.encryption = b])
    BY <1>1, <2>1, SpecTypes
  <2>2. CASE \E b \in BOOLEAN : Edit([swift EXCEPT !.ceilometer = b])
    BY <1>1, <2>2, SpecTypes
  <2>3. CASE \E b \in BOOLEAN : Edit([swift EXCEPT !.bus = b])
    BY <1>1, <2>3, SpecTypes
  <2>4. CASE \E t \in {None} \cup Timeouts :
               Edit([swift EXCEPT !.timeout = Default(t, None, Fallback)])
    BY <1>1, <1>2, <2>4, SpecTypes
  <2>. QED  BY <2>1, <2>2, <2>3, <2>4 DEF EditOne
<1>. QED  BY <1>3, EditType

(* A human's edit of the route: the annotation is the human's from then on, *)
(* unless it is taken away.                                                 *)
LEMMA EditRouteType ==
  ASSUME ConfigInv, NEW t \in {None} \cup Timeouts, EditRoute(t)
  PROVE  ConfigInv' /\ (RouteInv => RouteInv')
<1>1. Growing
  BY SameKeys DEF ConfigInv, EditRoute, objects
<1>2. CtlInv'
  BY <1>1, CtlStays DEF EditRoute, objects
<1>3. changes' \in 0..MaxChanges
  BY ChangeCounts DEF ConfigInv, EditRoute
<1>4. swift.timeout \in Timeouts
  BY SpecTypes DEF ConfigInv, TypeOK
<1> DEFINE a == [route EXCEPT !.haproxy = t]
<1>5. a \in Annotations /\ a.haproxy = t /\ a.swift = route.swift
  BY DEF ConfigInv, TypeOK, Annotations
<1>6. route' = SetDefaultRouteAnnotations(a, swift.timeout, None)
  BY DEF EditRoute
<1> HIDE DEF a
<1>7. /\ route' \in Annotations
      /\ route'.swift # None => route'.haproxy = route'.swift
      /\ a.haproxy # None /\ a.swift # a.haproxy
           => route'.swift = None /\ route'.haproxy = a.haproxy
  BY <1>4, <1>5, <1>6, RouteFacts
<1>8. TypeOK'
  BY <1>3, <1>7 DEF ConfigInv, TypeOK, EditRoute, objects, Annotations
<1>9. ASSUME RouteInv PROVE RouteInv'
  <2>1. human' = t /\ t # route.haproxy
    BY DEF EditRoute
  <2>2. ASSUME t # None PROVE t # route.swift
    BY <1>9, <2>1, <2>2 DEF RouteInv
  <2>. QED  BY <1>5, <1>7, <2>1, <2>2 DEF RouteInv
<1>. QED  BY <1>2, <1>8, <1>9 DEF ConfigInv

(* A new password in the Secret. *)
LEMMA SetPasswordType ==
  ASSUME ConfigInv, NEW p \in Passwords, SetPassword(p)
  PROVE  ConfigInv' /\ (RouteInv => RouteInv')
<1>1. Growing
  BY SameKeys DEF ConfigInv, SetPassword, objects
<1>2. CtlInv'
  BY <1>1, CtlStays DEF SetPassword, objects
<1>3. changes' \in 0..MaxChanges
  BY ChangeCounts DEF ConfigInv, SetPassword
<1>4. TypeOK'
  BY <1>3 DEF ConfigInv, TypeOK, SetPassword, objects
<1>. QED  BY <1>2, <1>4 DEF ConfigInv, SetPassword, RouteInv

(* Users keep types and the order of the route's annotations. *)
LEMMA UsersType ==
  ASSUME ConfigInv, Users
  PROVE  ConfigInv' /\ (RouteInv => RouteInv')
BY EditOneType, EditRouteType, SetPasswordType DEF Users

(* The Swift controller, Barbican, the rollout and the clients. *)
LEMMA ProxyUpdateType == ASSUME ConfigInv, ProxyCreateOrUpdate PROVE ConfigInv'
<1>1. Growing
  BY SameKeys DEF ConfigInv, ProxyCreateOrUpdate
<1>2. CtlInv'
  BY <1>1, CtlStays DEF ProxyCreateOrUpdate
<1>3. cr' \in Spec0
  BY SpecTypes DEF ConfigInv, TypeOK, ProxyCreateOrUpdate
<1>4. TypeOK'
  BY <1>3 DEF ConfigInv, TypeOK, ProxyCreateOrUpdate, users
<1>. QED  BY <1>2, <1>4 DEF ConfigInv

(* Barbican generates a key. *)
LEMMA ActivateType ==
  ASSUME ConfigInv, NEW k \in DOMAIN keys, Activate(k)
  PROVE  ConfigInv'
<1>1. Growing
  BY ActivateGrows DEF ConfigInv, Activate
<1>2. CtlInv'
  BY <1>1, CtlStays DEF Activate
<1>3. secret' # None /\ secret'.key # 0 => secret'.key <= Len(keys') /\ keys'[secret'.key]
  BY <1>1, KeysStay DEF Activate
<1>4. TypeOK'
  BY <1>1, <1>3 DEF ConfigInv, TypeOK, Activate, users, Growing
<1>. QED  BY <1>2, <1>4 DEF ConfigInv

(* A pod starts and mounts the configuration as it is. *)
LEMMA StartPodType == ASSUME ConfigInv, StartPod PROVE ConfigInv'
<1>1. Growing
  BY SameKeys DEF ConfigInv, StartPod
<1>2. CtlInv'
  BY <1>1, CtlStays DEF StartPod
<1>3. deploy \in Template /\ secret \in Config
  BY DEF ConfigInv, CtlInv, TypeOK, StartPod
<1>4. (secret # deploy.config) \in BOOLEAN
  OBVIOUS
<1> DEFINE pod == [tmpl |-> deploy, config |-> secret, late |-> secret # deploy.config]
<1>5. pod \in Pod
  BY <1>3, <1>4 DEF Pod
<1>6. pods' = pods \cup {pod}
  BY DEF StartPod
<1> HIDE DEF pod
<1>7. pods' \subseteq Pod
  BY <1>5, <1>6 DEF ConfigInv, TypeOK
<1>8. TypeOK'
  BY <1>7 DEF ConfigInv, TypeOK, StartPod, users
<1>. QED  BY <1>2, <1>8 DEF ConfigInv

(* The rollout stops pods of an older template. *)
LEMMA StopPodsType == ASSUME ConfigInv, StopPods PROVE ConfigInv'
<1>1. Growing
  BY SameKeys DEF ConfigInv, StopPods
<1>2. CtlInv'
  BY <1>1, CtlStays DEF StopPods
<1>3. pods' \subseteq Pod
  BY DEF ConfigInv, TypeOK, StopPods
<1>4. TypeOK'
  BY <1>3 DEF ConfigInv, TypeOK, StopPods, users
<1>. QED  BY <1>2, <1>4 DEF ConfigInv

(* A client stores an object. *)
LEMMA PutObjectType == ASSUME ConfigInv, PutObject PROVE ConfigInv'
<1>1. Growing
  BY SameKeys DEF ConfigInv, PutObject
<1>2. CtlInv'
  BY <1>1, CtlStays DEF PutObject
<1>3. TypeOK'
  BY DEF ConfigInv, TypeOK, PutObject, users
<1>. QED  BY <1>2, <1>3 DEF ConfigInv

----------------------------------------------------------------------------
(* Reconcile. *)
LEMMA IdleType == Idle \in CtlType /\ Idle.pc = "idle" /\ Idle.key = 0 /\ "idle" \notin Keyed
BY ConfigAssumption DEF Idle, CtlType, Points, Keyed

(* The reconcile ends, for whatever reason. *)
LEMMA IdleInv ==
  ASSUME ConfigInv, ctl' = Idle, secret' = secret, deploy' = deploy
  PROVE  CtlInv'
BY IdleType DEF ConfigInv, CtlInv, Generating

(* The start of a reconcile. *)
LEMMA BeginType == ASSUME ConfigInv, Begin PROVE ConfigInv'
<1>1. ctl' \in CtlType /\ ctl'.pc = "verify" /\ ctl'.spec = cr /\ ctl'.key = 0
  <2>1. cr \in Spec0 /\ 0 \in 0..MaxKeys /\ "verify" \in Points
    BY ConfigAssumption DEF ConfigInv, TypeOK, Points
  <2>2. ctl' = [pc |-> "verify", spec |-> cr, hash |-> None, password |-> None, key |-> 0]
    BY DEF Begin, Idle
  <2>. QED  BY <2>1, <2>2 DEF CtlType
<1>2. CtlInv'
  BY <1>1 DEF ConfigInv, TypeOK, CtlInv, Begin, objects, Generating, Keyed
<1>3. TypeOK'
  BY <1>1 DEF ConfigInv, TypeOK, Begin, users, objects, Points
<1>. QED  BY <1>2, <1>3 DEF ConfigInv

(* verifyServiceSecret. *)
LEMMA VerifySecretType == ASSUME ConfigInv, VerifySecret PROVE ConfigInv'
<1>1. /\ ctl' \in CtlType /\ ctl'.pc = "password" /\ ctl'.spec = ctl.spec
      /\ ctl'.key = ctl.key
  BY DEF ConfigInv, TypeOK, CtlInv, VerifySecret, CtlType, Points
<1>2. Growing
  BY SameKeys DEF ConfigInv, VerifySecret
<1>3. Generating(ctl.key)'
  BY <1>1, <1>2, KeysStay
<1>4. CtlInv'
  BY <1>1, <1>3 DEF ConfigInv, CtlInv, VerifySecret, Keyed
<1>5. TypeOK'
  BY <1>1 DEF ConfigInv, TypeOK, VerifySecret, Rest, users, Points
<1>. QED  BY <1>4, <1>5 DEF ConfigInv

(* The second read of the Secret, and where it leads. *)
LEMMA GetPasswordType == ASSUME ConfigInv, GetPassword PROVE ConfigInv'
<1>1. CASE password = None
  <2>1. ctl' = Idle /\ queued' = TRUE /\ ready' = FALSE
    BY <1>1 DEF GetPassword, Retry
  <2>2. CtlInv'
    BY <2>1, IdleInv DEF GetPassword
  <2>3. TypeOK'
    BY <2>1, IdleType DEF ConfigInv, TypeOK, GetPassword, Rest, users, Points
  <2>. QED  BY <2>2, <2>3 DEF ConfigInv
<1>2. CASE password # None
  <2>1. /\ ctl' \in CtlType /\ ctl'.pc \in {"list", "secret"} /\ ctl'.spec = ctl.spec
        /\ ctl'.key = ctl.key /\ ctl'.password = password /\ password \in Passwords
    BY <1>2 DEF ConfigInv, TypeOK, CtlInv, GetPassword, CtlType, Points
  <2>2. Growing
    BY SameKeys DEF ConfigInv, GetPassword
  <2>3. Generating(ctl.key)'
    BY <2>1, <2>2, KeysStay
  <2>4. CtlInv'
    BY <2>1, <2>3 DEF ConfigInv, CtlInv, GetPassword, Keyed
  <2>5. TypeOK'
    BY <1>2, <2>1 DEF ConfigInv, TypeOK, GetPassword, Rest, users, Points
  <2>. QED  BY <2>4, <2>5 DEF ConfigInv
<1>. QED  BY <1>1, <1>2

(* The key that ListKeys and ListAgain take is one of the type. *)
LEMMA ActiveKeyType ==
  ASSUME ConfigInv
  PROVE  ActiveKey \in 0..MaxKeys /\ Generating(ActiveKey)
<1>1. keys \in Seq(BOOLEAN) /\ Len(keys) <= MaxKeys /\ Len(keys) \in Nat /\ MaxKeys \in Nat
  BY LenProperties, ConfigAssumption DEF ConfigInv, TypeOK
<1>. QED  BY <1>1, ActiveKeyFacts

(* The first list of Barbican's keys. *)
LEMMA ListKeysType == ASSUME ConfigInv, ListKeys PROVE ConfigInv'
<1>1. /\ ctl' \in CtlType /\ ctl'.pc \in {"order", "secret"} /\ ctl'.spec = ctl.spec
      /\ ctl'.key = ActiveKey /\ ctl'.password = ctl.password
  BY ActiveKeyType DEF ConfigInv, CtlInv, ListKeys, CtlType, Points
<1>2. Generating(ActiveKey)
  BY ActiveKeyType
<1>3. Generating(ctl.key)'
  BY <1>1, <1>2 DEF Generating, ListKeys
<1>4. CtlInv'
  BY <1>1, <1>3 DEF ConfigInv, CtlInv, ListKeys, Keyed
<1>5. TypeOK'
  BY <1>1 DEF ConfigInv, TypeOK, ListKeys, Rest, users, Points
<1>. QED  BY <1>4, <1>5 DEF ConfigInv

(* The list after an order. *)
LEMMA ListAgainType == ASSUME ConfigInv, ListAgain PROVE ConfigInv'
<1>1. /\ ctl' \in CtlType /\ ctl'.pc = "secret" /\ ctl'.spec = ctl.spec
      /\ ctl'.key = ActiveKey /\ ctl'.password = ctl.password
  BY ActiveKeyType DEF ConfigInv, CtlInv, ListAgain, CtlType, Points
<1>2. Generating(ActiveKey)
  BY ActiveKeyType
<1>3. Generating(ctl.key)'
  BY <1>1, <1>2 DEF Generating, ListAgain
<1>4. CtlInv'
  BY <1>1, <1>3 DEF ConfigInv, CtlInv, ListAgain, Keyed
<1>5. TypeOK'
  BY <1>1 DEF ConfigInv, TypeOK, ListAgain, Rest, users, Points
<1>. QED  BY <1>4, <1>5 DEF ConfigInv

(* A step from one point to another that keeps what the reconcile has. *)
LEMMA GotoFacts ==
  ASSUME ConfigInv, NEW pc \in Points, Goto(pc)
  PROVE  /\ ctl' \in CtlType /\ ctl'.pc = pc /\ ctl'.spec = ctl.spec
         /\ ctl'.key = ctl.key /\ ctl'.password = ctl.password
BY DEF ConfigInv, CtlInv, CtlType, Goto

(* The order of a key, answered or not. *)
LEMMA OrderKeyType == ASSUME ConfigInv, OrderKey PROVE ConfigInv'
<1>1. /\ ctl' \in CtlType /\ ctl'.pc = "relist" /\ ctl'.spec = ctl.spec
      /\ ctl'.key = ctl.key /\ ctl'.password = ctl.password
  BY GotoFacts DEF OrderKey, Points
<1>2. Growing
  BY OrderGrows DEF ConfigInv, OrderKey
<1>3. /\ Generating(ctl.key)'
      /\ secret' # None /\ secret'.key # 0 => secret'.key <= Len(keys') /\ keys'[secret'.key]
  BY <1>1, <1>2, KeysStay DEF OrderKey
<1>4. CtlInv'
  BY <1>1, <1>3 DEF ConfigInv, CtlInv, OrderKey, Keyed
<1>5. TypeOK'
  BY <1>1, <1>2, <1>3 DEF ConfigInv, TypeOK, OrderKey, Rest, users, Points, Growing
<1>. QED  BY <1>4, <1>5 DEF ConfigInv

(* What is rendered is a configuration. *)
LEMMA RenderedType ==
  ASSUME ConfigInv, ctl.pc \in Keyed
  PROVE  /\ Rendered \in Config /\ Rendered.key = ctl.key
         /\ Rendered.encryption = ctl.spec.encryption
<1>1. ctl.spec \in Spec0 /\ ctl.password \in Passwords /\ ctl.key \in 0..MaxKeys
  BY IdleType DEF ConfigInv, CtlInv, CtlType
<1>. QED  BY <1>1 DEF Rendered, Config, Spec0

(* The configuration is written. *)
LEMMA EnsureSecretsType == ASSUME ConfigInv, EnsureSecrets PROVE ConfigInv'
<1>1. /\ ctl' \in CtlType /\ ctl'.pc = "deploy" /\ ctl'.spec = ctl.spec
      /\ ctl'.key = ctl.key /\ ctl'.password = ctl.password
  BY GotoFacts DEF EnsureSecrets, Points
<1>2. secret' \in Config /\ secret' # None /\ secret'.key = ctl.key
  BY RenderedType, NoneAssumption DEF EnsureSecrets, Keyed
<1>3. Growing
  BY SameKeys DEF ConfigInv, EnsureSecrets
<1>4. Generating(ctl.key)'
  BY <1>1, <1>3, KeysStay
<1>5. CtlInv'
  BY <1>1, <1>2, <1>4 DEF ConfigInv, CtlInv, EnsureSecrets, Keyed
<1>6. secret'.key # 0 => secret'.key <= Len(keys') /\ keys'[secret'.key]
  BY <1>1, <1>2, <1>4 DEF Generating
<1>7. TypeOK'
  BY <1>1, <1>2, <1>6 DEF ConfigInv, TypeOK, EnsureSecrets, Rest, users, Points
<1>. QED  BY <1>5, <1>7 DEF ConfigInv

(* The template with the hash of the configuration is written. *)
LEMMA CreateDeploymentType == ASSUME ConfigInv, CreateDeployment PROVE ConfigInv'
<1>1. /\ ctl' \in CtlType /\ ctl'.pc = "ready" /\ ctl'.spec = ctl.spec
      /\ ctl'.key = ctl.key /\ ctl'.password = ctl.password
  BY GotoFacts DEF CreateDeployment, Points
<1>2. Rendered \in Config /\ ctl.hash \in {None} \cup Passwords
  BY RenderedType DEF ConfigInv, CtlInv, CtlType, CreateDeployment, Keyed
<1>3. deploy' \in Template
  BY <1>2 DEF CreateDeployment, Template
<1>4. Growing
  BY SameKeys DEF ConfigInv, CreateDeployment
<1>5. Generating(ctl.key)'
  BY <1>1, <1>4, KeysStay
<1>6. CtlInv'
  BY <1>1, <1>3, <1>5 DEF ConfigInv, CtlInv, CreateDeployment, Keyed
<1>7. TypeOK'
  BY <1>1, <1>3 DEF ConfigInv, TypeOK, CreateDeployment, Rest, users, Points
<1>. QED  BY <1>6, <1>7 DEF ConfigInv

(* The check of readiness ends the reconcile. *)
LEMMA CheckReadyType == ASSUME ConfigInv, CheckReady PROVE ConfigInv'
<1>1. CtlInv'
  BY IdleInv DEF CheckReady
<1>2. ready' \in BOOLEAN
  BY DEF CheckReady
<1>3. TypeOK'
  BY <1>2, IdleType DEF ConfigInv, TypeOK, CheckReady, Rest, users, Points
<1>. QED  BY <1>1, <1>3 DEF ConfigInv

(* A call that fails ends the reconcile. *)
LEMMA CallFailsType == ASSUME ConfigInv, CallFails PROVE ConfigInv'
<1>1. CtlInv'
  BY IdleInv DEF CallFails
<1>2. ready' \in BOOLEAN /\ queued' \in BOOLEAN
  BY DEF ConfigInv, TypeOK, CallFails
<1>3. nfaults' \in 0..MaxFaults
  <2>1. nfaults \in 0..MaxFaults /\ MaxFaults \in Nat
    BY ConfigAssumption DEF ConfigInv, TypeOK
  <2>. QED  BY <2>1 DEF CallFails
<1>4. TypeOK'
  BY <1>2, <1>3, IdleType DEF ConfigInv, TypeOK, CallFails, users, Points
<1>. QED  BY <1>1, <1>4 DEF ConfigInv

----------------------------------------------------------------------------
(* Nothing is configured at first. *)
LEMMA ConfigInit == ASSUME Init PROVE ConfigInv /\ RouteInv /\ KeyInv
<1>1. PICK e \in BOOLEAN : swift = [encryption |-> e, timeout |-> Fallback,
                                     ceilometer |-> FALSE, bus |-> FALSE]
  BY DEF Init
<1>2. swift \in Spec0 /\ swift.timeout \in Timeouts
  BY <1>1, FallbackFacts DEF Spec0
<1>3. cr \in Spec0
  BY <1>2, SpecTypes DEF Init
<1> DEFINE a == [swift |-> None, haproxy |-> None]
<1>4. a \in Annotations
  BY DEF Annotations
<1>5. route = SetDefaultRouteAnnotations(a, swift.timeout, None)
  BY DEF Init
<1> HIDE DEF a
<1>6. route \in Annotations /\ (route.swift # None => route.haproxy = route.swift)
  BY <1>2, <1>4, <1>5, RouteFacts
<1>7. keys = <<>> /\ Len(keys) = 0 /\ keys \in Seq(BOOLEAN)
  BY DEF Init
<1>8. 0 \in 0..MaxChanges /\ 0 \in 0..MaxFaults /\ 0 <= MaxKeys
  BY ConfigAssumption
<1>9. TypeOK
  BY <1>2, <1>3, <1>6, <1>7, <1>8, IdleType DEF Init, TypeOK, Annotations, Points
<1>10. CtlInv
  BY IdleType DEF Init, CtlInv, Generating
<1>11. RouteInv
  BY <1>6 DEF Init, RouteInv
<1>12. KeyInv
  BY <1>7, IdleType DEF Init, KeyInv
<1>. QED  BY <1>9, <1>10, <1>11, <1>12 DEF ConfigInv

(* ConfigInv is inductive. *)
LEMMA ConfigStep == ConfigInv /\ [Next]_vars => ConfigInv'
<1>1. ASSUME ConfigInv, UNCHANGED vars PROVE ConfigInv'
  BY <1>1 DEF vars, ConfigInv, TypeOK, CtlInv, Generating
<1>2. ASSUME ConfigInv, Controller PROVE ConfigInv'
  BY <1>2, BeginType, VerifySecretType, GetPasswordType, ListKeysType, OrderKeyType,
     ListAgainType, EnsureSecretsType, CreateDeploymentType, CheckReadyType DEF Controller
<1>3. ASSUME ConfigInv, Barbican PROVE ConfigInv'
  BY <1>3, ActivateType DEF Barbican
<1>4. ASSUME ConfigInv, Rollout PROVE ConfigInv'
  BY <1>4, StartPodType, StopPodsType DEF Rollout
<1>. QED  BY <1>1, <1>2, <1>3, <1>4, ProxyUpdateType, PutObjectType, UsersType, CallFailsType
          DEF Next

(* Types hold, and no configuration names a key that Barbican has not      *)
(* generated: an ordered key is in use once it is ACTIVE.                  *)
THEOREM ConfigTypes == Spec => []TypeOK
<1>1. Init => ConfigInv
  BY ConfigInit
<1>2. ConfigInv => TypeOK
  BY DEF ConfigInv
<1>. QED  BY <1>1, <1>2, ConfigStep, PTL DEF Spec

----------------------------------------------------------------------------
(* Only users touch the route. *)
LEMMA RouteStep == ConfigInv /\ RouteInv /\ [Next]_vars => RouteInv'
<1>1. ASSUME RouteInv, route' = route, human' = human PROVE RouteInv'
  BY <1>1 DEF RouteInv
<1>2. ASSUME Controller \/ Barbican \/ Rollout \/ ProxyCreateOrUpdate \/ PutObject \/ CallFails
      PROVE  route' = route /\ human' = human
  <2>1. CASE Controller
    BY <2>1 DEF Controller, Begin, VerifySecret, GetPassword, ListKeys, OrderKey, ListAgain,
                EnsureSecrets, CreateDeployment, CheckReady, Rest, users
  <2>2. CASE ~Controller
    BY <1>2, <2>2 DEF Barbican, Activate, Rollout, StartPod, StopPods, ProxyCreateOrUpdate,
                      PutObject, CallFails, users
  <2>. QED  BY <2>1, <2>2
<1>3. ASSUME UNCHANGED vars PROVE route' = route /\ human' = human
  BY <1>3 DEF vars
<1>. QED  BY <1>1, <1>2, <1>3, UsersType DEF Next

(* The timeout that a human has set on the route stays, through any edits  *)
(* of apiTimeout: the flag that marks it as the operator's is gone since.  *)
THEOREM HumanTimeoutStays == Spec => []HumanTimeoutKept
<1>1. Init => ConfigInv /\ RouteInv
  BY ConfigInit
<1>2. RouteInv => HumanTimeoutKept
  BY DEF RouteInv, HumanTimeoutKept
<1>. QED  BY <1>1, <1>2, ConfigStep, RouteStep, PTL DEF Spec

----------------------------------------------------------------------------
(* If Barbican has generated what was ordered whenever it is asked. *)
LEMMA PromptKeys ==
  ASSUME Prompt, ConfigInv, Generated
  PROVE  ActiveKey = 0 <=> Len(keys) = 0
<1>1. keys \in Seq(BOOLEAN) /\ Len(keys) \in Nat /\ DOMAIN keys = 1..Len(keys)
  BY LenProperties DEF ConfigInv, TypeOK
<1>2. ASSUME Len(keys) # 0 PROVE ActiveKey # 0
  <2>1. 1 \in 1..Len(keys)
    BY <1>1, <1>2
  <2>2. keys[1]
    BY <1>1, <2>1 DEF Generated
  <2>. QED  BY <1>1, <2>1, <2>2, ActiveKeyFacts
<1>3. Len(keys) = 0 => ActiveKey = 0
  BY <1>1, ActiveKeyFacts
<1>. QED  BY <1>2, <1>3

(* The rollout gives pods the configuration that is written. *)
LEMMA StartPodKey == ASSUME ConfigInv, KeyInv, StartPod PROVE KeyInv'
<1>1. secret \in Config /\ Len(keys) \in Nat
  BY LenProperties DEF ConfigInv, TypeOK, CtlInv, StartPod
<1>2. secret.key \in {0, 1} /\ (secret.encryption => secret.key # 0)
  <2>1. secret # None
    BY DEF ConfigInv, CtlInv, StartPod
  <2>. QED  BY <1>1, <2>1 DEF ConfigInv, TypeOK, KeyInv, Config
<1>3. \A p \in pods' : p.config.key \in {0, 1} /\ (p.config.encryption => p.config.key # 0)
  BY <1>2 DEF StartPod, KeyInv
<1>. QED  BY <1>3 DEF StartPod, KeyInv

(* A step that leaves keys, configuration, pods and objects alone need     *)
(* only get the reconcile's own part right.                                *)
LEMMA ReconcileKey ==
  ASSUME KeyInv, UNCHANGED <<keys, secret, pods, stored>>,
         ctl'.pc = "order" => Len(keys) = 0, ctl'.pc = "relist" => Len(keys) = 1,
         ctl'.pc \in {"secret", "deploy"} /\ ctl'.spec.encryption => ctl'.key # 0
  PROVE  KeyInv'
BY DEF KeyInv

(* A prompt Barbican shows a key if one was ever ordered. *)
LEMMA ListKeysKey == ASSUME Prompt, ConfigInv, KeyInv, ListKeys PROVE KeyInv'
<1>1. /\ ctl'.pc = IF ActiveKey = 0 THEN "order" ELSE "secret"
      /\ ctl'.key = ActiveKey
  BY DEF ConfigInv, CtlInv, CtlType, ListKeys
<1>2. ActiveKey = 0 <=> Len(keys) = 0
  BY PromptKeys DEF ListKeys
<1>. QED  BY <1>1, <1>2, ReconcileKey DEF ListKeys, Rest

(* After an order the list shows its key. *)
LEMMA ListAgainKey == ASSUME Prompt, ConfigInv, KeyInv, ListAgain PROVE KeyInv'
<1>1. ctl'.pc = "secret" /\ ctl'.key = ActiveKey
  BY DEF ConfigInv, CtlInv, CtlType, ListAgain
<1>2. ActiveKey = 0 <=> Len(keys) = 0
  BY PromptKeys DEF ListAgain
<1>3. Len(keys) = 1
  BY DEF KeyInv, ListAgain
<1>. QED  BY <1>1, <1>2, <1>3, ReconcileKey DEF ListAgain, Rest

(* A key is ordered only when there is none. *)
LEMMA OrderKeyKey == ASSUME ConfigInv, KeyInv, OrderKey PROVE KeyInv'
<1>1. ctl'.pc = "relist"
  BY GotoFacts DEF OrderKey, Points
<1>2. Len(keys') = 1
  BY OrderGrows DEF ConfigInv, KeyInv, OrderKey
<1>. QED  BY <1>1, <1>2 DEF KeyInv, OrderKey, Rest

(* Without encryption no key is looked up. *)
LEMMA GetPasswordKey == ASSUME ConfigInv, KeyInv, GetPassword PROVE KeyInv'
<1>1. CASE password = None
  <2>1. ctl'.pc = "idle"
    BY <1>1, IdleType DEF GetPassword, Retry
  <2>. QED  BY <2>1, ReconcileKey DEF GetPassword, Rest
<1>2. CASE password # None
  <2>1. /\ ctl'.pc = IF ctl.spec.encryption THEN "list" ELSE "secret"
        /\ ctl'.spec = ctl.spec
    BY <1>2 DEF ConfigInv, CtlInv, CtlType, GetPassword
  <2>. QED  BY <2>1, ReconcileKey DEF GetPassword, Rest
<1>. QED  BY <1>1, <1>2

(* The configuration gets the key of this reconcile. *)
LEMMA EnsureSecretsKey == ASSUME ConfigInv, KeyInv, EnsureSecrets PROVE KeyInv'
<1>1. ctl'.pc = "deploy" /\ ctl'.spec = ctl.spec /\ ctl'.key = ctl.key
  BY GotoFacts DEF EnsureSecrets, Points
<1>2. secret'.key = ctl.key /\ secret'.encryption = ctl.spec.encryption
  BY RenderedType DEF EnsureSecrets, Keyed
<1>. QED  BY <1>1, <1>2 DEF KeyInv, EnsureSecrets, Rest

(* The controller keeps to one key. *)
LEMMA ControllerKey == ASSUME Prompt, ConfigInv, KeyInv, Controller PROVE KeyInv'
<1>1. CASE Begin
  <2>1. ctl'.pc = "verify"
    BY <1>1 DEF Begin, Idle
  <2>. QED  BY <1>1, <2>1, ReconcileKey DEF Begin, objects
<1>2. CASE VerifySecret
  <2>1. ctl'.pc = "password"
    BY <1>2 DEF ConfigInv, CtlInv, CtlType, VerifySecret
  <2>. QED  BY <1>2, <2>1, ReconcileKey DEF VerifySecret, Rest
<1>3. CASE CreateDeployment
  <2>1. ctl'.pc = "ready"
    BY <1>3, GotoFacts DEF CreateDeployment, Points
  <2>. QED  BY <1>3, <2>1, ReconcileKey DEF CreateDeployment, Rest
<1>4. CASE CheckReady
  BY <1>4, IdleType, ReconcileKey DEF CheckReady, Rest
<1>. QED  BY <1>1, <1>2, <1>3, <1>4, GetPasswordKey, ListKeysKey, OrderKeyKey, ListAgainKey,
             EnsureSecretsKey DEF Controller

(* KeyInv is inductive for a prompt Barbican. *)
LEMMA KeyStep == ASSUME Prompt PROVE ConfigInv /\ KeyInv /\ [Next]_vars => KeyInv'
<1>1. ASSUME KeyInv, UNCHANGED <<keys, secret, pods, stored, ctl>> PROVE KeyInv'
  BY <1>1 DEF KeyInv
<1>2. ASSUME Users \/ ProxyCreateOrUpdate \/ UNCHANGED vars
      PROVE  UNCHANGED <<keys, secret, pods, stored, ctl>>
  BY <1>2 DEF Users, EditOne, Edit, EditRoute, SetPassword, objects, ProxyCreateOrUpdate, vars
<1>3. ASSUME ConfigInv, KeyInv, Barbican PROVE KeyInv'
  <2>1. PICK k \in DOMAIN keys : Activate(k)
    BY <1>3 DEF Barbican
  <2>2. Len(keys') = Len(keys)
    BY <1>3, <2>1, ActivateGrows DEF ConfigInv, Activate
  <2>. QED  BY <1>3, <2>1, <2>2 DEF KeyInv, Activate
<1>4. ASSUME ConfigInv, KeyInv, Rollout PROVE KeyInv'
  <2>1. CASE StopPods
    BY <1>4, <2>1 DEF KeyInv, StopPods
  <2>. QED  BY <1>4, <2>1, StartPodKey DEF Rollout
<1>5. ASSUME KeyInv, PutObject PROVE KeyInv'
  <2>1. stored' \subseteq {0, 1}
    BY <1>5 DEF KeyInv, PutObject
  <2>. QED  BY <1>5, <2>1 DEF KeyInv, PutObject
<1>6. ASSUME KeyInv, CallFails PROVE KeyInv'
  BY <1>6, IdleType, ReconcileKey DEF CallFails
<1>. QED  BY <1>1, <1>2, <1>3, <1>4, <1>5, <1>6, ControllerKey DEF Next

(* Whatever fails, and whenever encryption is switched: a pod that should  *)
(* encrypt has a key.  Without promptness TLC refutes this (key_pending).  *)
THEOREM PromptMeansEncrypted == ASSUME Prompt PROVE Spec => []EncryptedWhenEnabled
<1>1. Init => ConfigInv /\ KeyInv
  BY ConfigInit
<1>2. KeyInv => EncryptedWhenEnabled
  BY DEF KeyInv, EncryptedWhenEnabled
<1>. QED  BY <1>1, <1>2, ConfigStep, KeyStep, PTL DEF Spec

(* And one key at most is ever ordered, so that every pod that encrypts    *)
(* can read what was stored before; with several, the last ACTIVE one      *)
(* would be taken, which changes.                                          *)
THEOREM PromptMeansOneKey == ASSUME Prompt PROVE Spec => []OneKey
<1>1. Init => ConfigInv /\ KeyInv
  BY ConfigInit
<1>2. KeyInv => OneKey
  BY DEF KeyInv, OneKey
<1>. QED  BY <1>1, <1>2, ConfigStep, KeyStep, PTL DEF Spec
=============================================================================
