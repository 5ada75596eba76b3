------------------------------ MODULE Admission ------------------------------
(***************************************************************************)
(* The admission webhooks (api/v1beta1/swift_webhook.go and                *)
(* swiftproxy_webhook.go, called by internal/webhook/v1beta1): which specs *)
(* are let in, and what is filled in.  A spec is a record of the fields    *)
(* its user cares for; foreign is the set of Topology references that name *)
(* another namespace.                                                      *)
(***************************************************************************)
EXTENDS Integers

(* topologyv1.ValidateTopologyRef *)
ValidateTopologyRef(ref, foreign) == ref \notin foreign

(* SwiftProxySpecCore.ValidateTopology *)
ValidateProxyTopology(top, foreign) == ValidateTopologyRef(top["proxy"], foreign)

(* The check under the path of SwiftStorage looks at SwiftProxy again. *)
ValidateSwiftTopology(top, foreign) ==
    /\ ValidateTopologyRef(top["swift"], foreign)
    /\ ValidateProxyTopology(top, foreign)
    /\ ValidateProxyTopology(top, foreign)

ValidateCreate(new, foreign) == ValidateSwiftTopology(new.top, foreign)

(* Mutant of ValidateUpdate: storage may be scaled in. *)
ValidateUpdateAnyReplicas(old, new, foreign) == ValidateSwiftTopology(new.top, foreign)

(* "SwiftStorage does not support scale-in" *)
ValidateUpdate(old, new, foreign) ==
    /\ new.replicas >= old.replicas
    /\ ValidateSwiftTopology(new.top, foreign)

(* SwiftProxySpecCore: "notificationsBus.cluster must be set when          *)
(* ceilometerEnabled is true".  The webhook of Swift does not ask this.    *)
ValidateProxy(spec) == spec.ceilometer => spec.bus

(* SwiftSpec.Default, for the field that matters here. *)
Default(timeout, none, fallback) == IF timeout = none THEN fallback ELSE timeout

(* Mutant of SetDefaultRouteAnnotations: the flag decides alone. *)
SetDefaultByFlag(a, timeout, none) ==
    IF a.swift = none /\ a.haproxy # none THEN a ELSE [swift |-> timeout, haproxy |-> timeout]

(* The two timeout annotations of the route: the second one is the         *)
(* operator's to set only if the first says so.                            *)
SetDefaultRouteAnnotations(a, timeout, none) ==
    LET manual   == a.swift = none /\ a.haproxy # none
        modified == a.swift # none /\ a.haproxy # none /\ a.swift # a.haproxy IN
    IF manual THEN a
    ELSE IF modified THEN [a EXCEPT !.swift = none]
    ELSE [swift |-> timeout, haproxy |-> timeout]
=============================================================================
