------------------------------ MODULE Listeners ------------------------------
(***************************************************************************)
(* What a Gateway's listeners offer and which routes they take: the status *)
(* of the listeners (internal/controllers/gateway/gateway_utils.go) and    *)
(* the matching of routes to them (route_utils.go, internal/util/hostname).*)
(* All of it is functions; GatewayControllers uses them in its steps.      *)
(*                                                                         *)
(* A hostname is the sequence of its labels and NoHostname stands for an   *)
(* unset one.  A condition is its type, status and reason; the times and   *)
(* messages are left out, and with them the order of the conditions.       *)
(***************************************************************************)
EXTENDS Integers, Sequences, FiniteSets

NoHostname == <<>>
NoSection  == "no section"
NoPort     == 0
OwnNamespace == "own"      \* an unset namespace of a reference

Condition(type, status, reason) == [type |-> type, status |-> status, reason |-> reason]

-----------------------------------------------------------------------------
(* The element of a singleton.  A step of a recursive function is applied  *)
(* to the one before it through it, so that this is computed once.         *)
TheOnly(S) == CHOOSE x \in S : TRUE

(* HostnamesMatch: the labels are walked from the left, <<a, b, wildcard>> *)
(* is where the walk is.  After a wildcard it goes on at the first label   *)
(* that fits, and never goes back.                                         *)
NextLabel(A, B, at) ==
    LET fits == {k \in at[2]..Len(B) : B[k] = A[at[1]]}
        b == IF at[3] THEN CHOOSE k \in fits : \A m \in fits : k <= m ELSE at[2]
    IN IF at = <<"no">> THEN at
       ELSE IF at[1] > Len(A) \/ at[2] > Len(B) THEN at
       ELSE IF at[3] /\ fits = {} THEN <<"no">>
       ELSE IF A[at[1]] = "*" THEN <<at[1] + 1, b + 1, TRUE>>
       ELSE IF A[at[1]] = B[b] THEN <<at[1] + 1, b + 1, FALSE>> ELSE <<"no">>

HostnamesMatch(A, B) ==
    LET walk[i \in 0..Len(A)] ==
          IF i = 0 THEN <<1, 1, FALSE>> ELSE TheOnly({NextLabel(A, B, at) : at \in {walk[i - 1]}})
    IN \E end \in {walk[Len(A)]} : IF end = <<"no">> THEN FALSE ELSE Len(B) - end[2] = Len(A) - end[1]

HostnamesIntersect(a, b) == HostnamesMatch(a, b) \/ HostnamesMatch(b, a)

-----------------------------------------------------------------------------
(* Listeners and the ports of the proxy *)

canSharePort(requested, existing) ==
    \/ requested \in {"HTTPS", "TLS"} /\ existing \in {"HTTPS", "TLS"}
    \/ requested = "HTTP" /\ existing = "HTTP"

(* determineL4ListenersFromService: every port of the Service is one.      *)
determineL4ListenersFromService(svc) ==
    {[port |-> p.port, target |-> p.target, protocol |-> p.protocol] : p \in svc.ports}

(* determineListenersFromDataPlane: what Kong listens on at the target     *)
(* port decides the protocol; an HTTP listen wins over a stream one.       *)
determineListenersFromDataPlane(l4, kong) ==
    {[port |-> l.port,
      protocol |->
        IF l.target \in DOMAIN kong.proxy THEN IF kong.proxy[l.target] THEN "HTTPS" ELSE "HTTP"
        ELSE IF l.target \in DOMAIN kong.stream /\ kong.stream[l.target] THEN "TLS"
        ELSE l.protocol] : l \in l4}

supportedKinds == {"HTTPRoute", "TCPRoute", "UDPRoute", "TLSRoute"}

DefaultKinds(protocol) ==
    CASE protocol \in {"HTTP", "HTTPS"} -> {"HTTPRoute", "GRPCRoute"}
      [] protocol = "TCP" -> {"TCPRoute"}
      [] protocol = "UDP" -> {"UDPRoute"}
      [] protocol = "TLS" -> {"TLSRoute"}

(* The kinds, and the reason of the condition ResolvedRefs. *)
getListenerSupportedRouteKinds(l) ==
    IF l.kinds = {} THEN [kinds |-> DefaultKinds(l.protocol), reason |-> "ResolvedRefs"]
    ELSE [kinds |-> l.kinds \cap supportedKinds,
          reason |-> IF l.kinds \subseteq supportedKinds THEN "ResolvedRefs" ELSE "InvalidRouteKinds"]

(* getReferenceGrantConditionReason: a grant in the Secret's namespace for *)
(* Gateways of ours, to the Secret or to all of them.                      *)
getReferenceGrantConditionReason(ns, ref, grants) ==
    IF ref.ns \in {OwnNamespace, ns}
       \/ \E g \in grants : g.ns = ref.ns /\ g.from = [kind |-> "Gateway", ns |-> ns]
                            /\ g.to \in {"any Secret", ref.name}
    THEN "ResolvedRefs" ELSE "RefNotPermitted"

(* The certificates of a listener, in order.  A reference that is not      *)
(* granted or a Secret that is missing ends the loop.  A Secret that is    *)
(* not a key pair does not, and the next reference to another namespace    *)
(* overwrites the reason.  "secrets" maps <<namespace, name>> to "valid",  *)
(* "invalid" or "missing"; a reference to another kind than Secret is      *)
(* "missing".                                                              *)
CertReason(ns, certs, grants, secrets) ==
    LET secret(i) == secrets[<<IF certs[i].ns = OwnNamespace THEN ns ELSE certs[i].ns, certs[i].name>>]
        foreign(i) == certs[i].ns \notin {OwnNamespace, ns}
        granted(i) == getReferenceGrantConditionReason(ns, certs[i], grants)
        check(i, so) ==
          IF so.stop THEN so
          ELSE IF foreign(i) /\ granted(i) # "ResolvedRefs" THEN [reason |-> granted(i), stop |-> TRUE]
          ELSE IF secret(i) = "missing" THEN [reason |-> "InvalidCertificateRef", stop |-> TRUE]
          ELSE [reason |-> IF secret(i) # "valid" THEN "InvalidCertificateRef"
                           ELSE IF foreign(i) THEN granted(i) ELSE so.reason,
                stop |-> FALSE]
        after[i \in 0..Len(certs)] ==
          IF i = 0 THEN [reason |-> "ResolvedRefs", stop |-> FALSE]
          ELSE TheOnly({check(i, so) : so \in {after[i - 1]}})
    IN after[Len(certs)].reason

-----------------------------------------------------------------------------
(* getListenerStatus *)

FirstOnPort(ls, i) ==
    CHOOSE j \in 1..i : ls[j].port = ls[i].port /\ \A k \in 1..(j - 1) : ls[k].port # ls[i].port

(* The first listener of a port decides its protocol. *)
ProtocolConflict(ls, i) ==
    FirstOnPort(ls, i) # i /\ ~canSharePort(ls[i].protocol, ls[FirstOnPort(ls, i)].protocol)

(* Listeners that share a port need different hostnames. *)
HostnameConflict(ls, i) ==
    /\ FirstOnPort(ls, i) # i /\ ~ProtocolConflict(ls, i)
    /\ \E k \in 1..(i - 1) : /\ ls[k].port = ls[i].port /\ ls[k].hostname = ls[i].hostname
                             /\ ~ProtocolConflict(ls, k)

(* What the listener is told before the conflicts are spread. *)
OwnProblems(ls, i, kongPorts, resolvedReason) ==
    LET sameProtocol == {k \in kongPorts : k.protocol = ls[i].protocol}
    IN {c \in {Condition("ResolvedRefs", "False", resolvedReason),
               Condition("Conflicted", "True", "ProtocolConflict"),
               Condition("Conflicted", "True", "HostnameConflict"),
               Condition("Accepted", "False", "UnsupportedProtocol"),
               Condition("Accepted", "False", "PortUnavailable")} :
          \/ c.type = "ResolvedRefs" /\ resolvedReason # "ResolvedRefs"
          \/ c.reason = "ProtocolConflict" /\ ProtocolConflict(ls, i)
          \/ c.reason = "HostnameConflict" /\ HostnameConflict(ls, i)
          \/ c.reason = "UnsupportedProtocol" /\ sameProtocol = {}
          \/ c.reason = "PortUnavailable" /\ sameProtocol # {}
             /\ ls[i].port \notin {k.port : k \in sameProtocol}}

OwnConditions(found) ==
    UNION {problems
    \cup (IF problems = {}
          THEN {Condition("Conflicted", "False", "NoConflicts"),
                Condition("ResolvedRefs", "True", "ResolvedRefs"),
                Condition("Programmed", "True", "Programmed")}
          ELSE {Condition("Programmed", "False", "Invalid")})
    \cup (IF \E c \in problems : c.type = "Accepted" THEN {}
          ELSE {Condition("Accepted", "True", "Accepted")}) : problems \in {found}}

(* A conflict is one of all the listeners that share the resource. *)
ConflictReason(ls, i) ==
    LET onPort == {j \in DOMAIN ls : ls[j].port = ls[i].port}
    IN IF \E j \in onPort : ProtocolConflict(ls, j) THEN "ProtocolConflict"
       ELSE IF \E j \in onPort : ls[j].hostname = ls[i].hostname /\ HostnameConflict(ls, j)
            THEN "HostnameConflict" ELSE "none"

ListenerConditions(ls, i, kongPorts, resolvedReason) ==
    LET own == OwnConditions(OwnProblems(ls, i, kongPorts, resolvedReason))
        spread(conflict) ==
          IF conflict = "none" THEN own
          ELSE {c \in own : c.type \notin {"Programmed", "Conflicted"}}
               \cup {Condition("Conflicted", "True", conflict), Condition("Programmed", "False", "Invalid")}
    IN TheOnly({spread(conflict) : conflict \in {ConflictReason(ls, i)}})

(* A listener's status: its conditions, the kinds of routes it takes and   *)
(* how many HTTPRoutes are attached, which attachedRoutes says.            *)
getListenerStatus(gw, kongPorts, grants, secrets, attachedRoutes) ==
    [i \in DOMAIN gw.listeners |->
        LET supported == getListenerSupportedRouteKinds(gw.listeners[i])
            cert == CertReason(gw.ns, gw.listeners[i].certs, grants, secrets)
            reason == IF gw.listeners[i].tls # "none" /\ cert # "ResolvedRefs" THEN cert
                      ELSE supported.reason
        IN [name |-> gw.listeners[i].name,
            conditions |-> ListenerConditions(gw.listeners, i, kongPorts, reason),
            kinds |-> supported.kinds,
            attachedRoutes |-> attachedRoutes[i]]]

-----------------------------------------------------------------------------
(* Routes and listeners.  A route is its kind, namespace and hostnames.    *)

routeMatchesListenerAllowedRoutes(route, l, gwNamespace, ref) ==
    /\ l.kinds = {} \/ route.kind \in l.kinds
    /\ \/ l.from = "All"
       \/ l.from = "Same" /\ route.ns = IF ref.ns = OwnNamespace THEN gwNamespace ELSE ref.ns
       \/ l.from = "Selector" /\ route.ns \in l.selected

existsMatchingListenerInStatus(route, l, statuses) ==
    \E i \in DOMAIN statuses : statuses[i].name = l.name /\ route.kind \in statuses[i].kinds

listenerProgrammedInStatus(l, statuses) ==
    \E i \in DOMAIN statuses : statuses[i].name = l.name
        /\ \E c \in statuses[i].conditions : c.type = "Programmed" /\ c.status = "True"

routeTypeMatchesListenerType(route, l) ==
    \/ route.kind = "HTTPRoute" /\ l.protocol \in {"HTTP", "HTTPS"} /\ l.tls \in {"none", "Terminate"}
    \/ route.kind = "TCPRoute" /\ l.protocol = "TCP" /\ l.tls \in {"none", "Terminate"}
    \/ route.kind = "UDPRoute" /\ l.protocol = "UDP" /\ l.tls = "none"
    \/ route.kind = "TLSRoute" /\ l.protocol = "TLS" /\ l.tls \in {"none", "Passthrough"}
    \/ route.kind = "GRPCRoute" /\ l.protocol \in {"HTTP", "HTTPS"}

listenerHostnameIntersectWithRouteHostnames(l, hostnames) ==
    \/ hostnames = {}
    \/ l.hostname = NoHostname
    \/ \E h \in hostnames : HostnamesIntersect(l.hostname, h)

routeHostnamesIntersectsWithListenerHostname(route, l) ==
    \/ route.kind \in {"TCPRoute", "UDPRoute"}
    \/ listenerHostnameIntersectWithRouteHostnames(l, route.hostnames)

SectionMatches(l, ref) == ref.section \in {NoSection, l.name}
PortMatches(l, ref)    == ref.port \in {NoPort, l.port}

(* What a listener is asked, in order; each question is asked only of the  *)
(* listeners that passed those before it.                                  *)
Allowed(gw, route, ref) ==
    {l \in {gw.listeners[i] : i \in DOMAIN gw.listeners} :
        routeMatchesListenerAllowedRoutes(route, l, gw.ns, ref)}
Supporting(gw, route, ref) ==
    {l \in Allowed(gw, route, ref) : existsMatchingListenerInStatus(route, l, gw.status)}
Ready(gw, route, ref) ==
    {l \in Supporting(gw, route, ref) : listenerProgrammedInStatus(l, gw.status)}
Named(gw, route, ref) == {l \in Ready(gw, route, ref) : SectionMatches(l, ref)}
OnPort(gw, route, ref) == {l \in Named(gw, route, ref) : PortMatches(l, ref)}
OfType(gw, route, ref) == {l \in OnPort(gw, route, ref) : routeTypeMatchesListenerType(route, l)}
Matching(gw, route, ref) ==
    {l \in OfType(gw, route, ref) : routeHostnamesIntersectsWithListenerHostname(route, l)}

(* getSupportedGatewayForRoute, for one parentRef whose Gateway is ours:   *)
(* the reason of the condition Accepted, which is "Accepted" when it is    *)
(* True.                                                                   *)
AcceptedReason(gw, route, ref) ==
    CASE Matching(gw, route, ref) # {} -> "Accepted"
      [] Matching(gw, route, ref) = {} /\ OfType(gw, route, ref) # {} -> "NoMatchingListenerHostname"
      [] OfType(gw, route, ref) = {} ->
           IF ref.section # NoSection /\ Named(gw, route, ref) = {} THEN "NoMatchingParent"
           ELSE IF Ready(gw, route, ref) = {} THEN "NotAllowedByListeners"
           ELSE "NoMatchingParent"

(* isRouteAcceptedByListener: the same questions, but for a listener that  *)
(* need not be programmed.                                                 *)
isRouteAcceptedByListener(gw, route, ref, i) ==
    LET l == gw.listeners[i]
    IN /\ l \in Supporting(gw, route, ref)
       /\ SectionMatches(l, ref) /\ PortMatches(l, ref)
       /\ routeTypeMatchesListenerType(route, l)
       /\ routeHostnamesIntersectsWithListenerHostname(route, l)

-----------------------------------------------------------------------------
(* The hostnames an HTTPRoute keeps.  "parents" has, for the number of     *)
(* every parent that counts, the Gateway and the section the route names   *)
(* there.                                                                  *)

ListenersOf(parents, j) == parents[j].gw.listeners

isListenerHostnameEffective(l) == l.protocol \in {"HTTP", "HTTPS", "TLS"}

(* getUnionOfGatewayHostnames: NoHostname in the set matches any host. *)
getUnionOfGatewayHostnames(parents) ==
    UNION {{ListenersOf(parents, j)[i].hostname : i \in
              {k \in DOMAIN ListenersOf(parents, j) :
                 IF parents[j].section # NoSection
                 THEN ListenersOf(parents, j)[k].name = parents[j].section
                 ELSE isListenerHostnameEffective(ListenersOf(parents, j)[k])}} :
             j \in DOMAIN parents}

(* The listeners that fit a hostname of the route, over all its parents: a *)
(* listener is the number of its parent and its own.                       *)
FittingListeners(parents, h) ==
    UNION {{<<j, i>> : i \in
              {k \in DOMAIN ListenersOf(parents, j) :
                 /\ parents[j].section \in {NoSection, ListenersOf(parents, j)[k].name}
                 /\ \/ ListenersOf(parents, j)[k].hostname = NoHostname
                    \/ HostnamesIntersect(ListenersOf(parents, j)[k].hostname, h)}} :
             j \in DOMAIN parents}

(* getMinimumHostnameIntersection: the first listener that fits decides. *)
getMinimumHostnameIntersection(parents, h) ==
    LET fitting == FittingListeners(parents, h)
        first == CHOOSE x \in fitting :
                   \A y \in fitting : x[1] < y[1] \/ (x[1] = y[1] /\ x[2] <= y[2])
        hostname == ListenersOf(parents, first[1])[first[2]].hostname
    IN IF fitting = {} THEN NoHostname
       ELSE IF hostname = NoHostname \/ HostnamesMatch(hostname, h) THEN h
       ELSE hostname

(* filterHostnames: the hostnames, and whether any of them is left. *)
filterHostnames(parents, hostnames) ==
    LET union == getUnionOfGatewayHostnames(parents)
        kept == {getMinimumHostnameIntersection(parents, h) : h \in hostnames} \ {NoHostname}
    IN IF hostnames = {}
       THEN [hostnames |-> IF NoHostname \in union THEN {} ELSE union, match |-> TRUE]
       ELSE [hostnames |-> IF kept = {} THEN hostnames ELSE kept, match |-> kept # {}]

=============================================================================
