--------------------------- MODULE RouteOverrides ---------------------------
(***************************************************************************)
(* What the annotations of an Ingress, a route object or a Service change  *)
(* in the Kong routes and services made from it                            *)
(* (internal/dataplane/kongstate/route.go and service.go).                 *)
(*                                                                         *)
(* The annotations an object may carry are a record.  A missing value is   *)
(* "" for one that is text, <<>> for a list and for an optional value; a   *)
(* value that does not parse is "invalid".  A host, method or SNI of a     *)
(* list is a text, which starts with " " when a blank follows the comma    *)
(* before it; a method may be written in lower case.                       *)
(***************************************************************************)
EXTENDS Atc

NoAnnotations ==
    [stripPath |-> "", preserveHost |-> "", requestBuffering |-> "", responseBuffering |-> "",
     forceSSLRedirect |-> FALSE, redirectCode |-> "", protocols |-> <<>>, regexPriority |-> "",
     methods |-> <<>>, snis |-> <<>>, aliases |-> <<>>, headers |-> <<>>, pathHandling |-> "",
     regexPrefix |-> <<>>, rewrite |-> <<>>]

ValidProtocols == {"", "http", "https", "grpc", "grpcs", "ws", "wss", "tls", "tcp", "tls_passthrough"}

ValidateProtocol(protocol) == protocol \in ValidProtocols

\* strings.TrimSpace and, for a method, strings.ToUpper.
TrimSpace(text) == IF text # <<>> /\ Head(text) = " " THEN Tail(text) ELSE text

ToUpper(text) == [i \in DOMAIN text |-> IF text[i] = "get" THEN "GET" ELSE text[i]]

Booleans == {"true", "false"}

----------------------------------------------------------------------------
(* Fields of a Kong route; values that do not parse change nothing. *)

overrideStripPath(route, anns) ==
    IF anns.stripPath \in Booleans THEN [route EXCEPT !.stripPath = anns.stripPath] ELSE route

overridePreserveHost(route, anns) ==
    IF anns.preserveHost \in Booleans THEN [route EXCEPT !.preserveHost = anns.preserveHost] ELSE route

overrideRequestBuffering(route, anns) ==
    IF anns.requestBuffering \in Booleans
    THEN [route EXCEPT !.requestBuffering = anns.requestBuffering] ELSE route

overrideResponseBuffering(route, anns) ==
    IF anns.responseBuffering \in Booleans
    THEN [route EXCEPT !.responseBuffering = anns.responseBuffering] ELSE route

\* Whether a protocol's name contains "grpc", or "http".
IsGRPC(protocol) == protocol \in {"grpc", "grpcs"}

IsHTTP(protocol) == protocol \in {"http", "https"}

Some(list, Is(_)) == \E i \in DOMAIN list : Is(list[i])

useSSLProtocol(route) ==
    LET grpc == Some(route.protocols, IsGRPC)
        http == Some(route.protocols, IsHTTP)
    IN [route EXCEPT !.protocols = (IF grpc THEN <<"grpcs">> ELSE <<>>)
                                   \o (IF http \/ ~grpc THEN <<"https">> ELSE <<>>)]

RedirectCodes == {"426", "301", "302", "307", "308"}

overrideHTTPSRedirectCode(route, anns) ==
    LET forced == IF anns.forceSSLRedirect
                  THEN useSSLProtocol([route EXCEPT !.redirectCode = "302"]) ELSE route
    IN IF anns.redirectCode \in RedirectCodes
       THEN [forced EXCEPT !.redirectCode = anns.redirectCode] ELSE forced

\* One invalid protocol and the list is ignored.
overrideProtocols(route, anns) ==
    IF anns.protocols # <<>> /\ \A i \in DOMAIN anns.protocols : ValidateProtocol(anns.protocols[i])
    THEN [route EXCEPT !.protocols = anns.protocols] ELSE route

overrideRegexPriority(route, anns) ==
    IF anns.regexPriority \in {"", "invalid"} THEN route
    ELSE [route EXCEPT !.regexPriority = anns.regexPriority]

\* One invalid method and the list is ignored.
overrideMethods(route, anns) ==
    LET methods == {TrimSpace(ToUpper(anns.methods[i])) : i \in DOMAIN anns.methods}
    IN IF methods # {} /\ \A m \in methods : WellFormed(m)
       THEN [route EXCEPT !.methods = methods] ELSE route

\* The annotation with an empty value clears the SNIs.
overrideSNIs(route, anns) ==
    LET snis == UNION {{TrimSpace(list[i]) : i \in DOMAIN list} : list \in ToSet(anns.snis)}
    IN IF anns.snis # <<>> /\ \A s \in snis : WellFormedSNI(s)
       THEN [route EXCEPT !.snis = snis] ELSE route

\* Aliases are added to the hosts, none twice.
overrideHosts(route, anns) ==
    LET aliases == {TrimSpace(anns.aliases[i]) : i \in DOMAIN anns.aliases}
    IN IF \A a \in aliases : WellFormed(a)
       THEN [route EXCEPT !.hosts = @ \cup aliases] ELSE route

\* Headers with a name and values; the values lose their blanks.
ExtractHeaders(anns) ==
    UNION {{[name |-> anns.headers[i].name, value |-> TrimSpace(anns.headers[i].values[j])] :
              j \in DOMAIN anns.headers[i].values} : i \in DOMAIN anns.headers}

overrideHeaders(route, anns) ==
    IF anns.headers = <<>> THEN route ELSE [route EXCEPT !.headers = ExtractHeaders(anns)]

overridePathHandling(route, anns) ==
    IF anns.pathHandling \in {"", "invalid"} THEN route
    ELSE [route EXCEPT !.pathHandling = anns.pathHandling]

\* grpc and http are not mixed, and grpc takes no strip_path.
normalizeProtocols(route) ==
    LET grpc == Some(route.protocols, IsGRPC)
        http == Some(route.protocols, LAMBDA p : IsHTTP(p) \/ ~ValidateProtocol(p))
    IN IF route.expressionRoutes \/ ~grpc THEN route
       ELSE [route EXCEPT !.protocols = IF http THEN <<"http", "https">> ELSE @,
                          !.stripPath = ""]

overrideByAnnotation(route, anns) ==
    LET both == overrideProtocols(
                  overrideResponseBuffering(
                    overrideRequestBuffering(
                      overridePreserveHost(
                        overrideHTTPSRedirectCode(
                          overrideStripPath(route, anns), anns), anns), anns), anns), anns)
    IN IF route.expressionRoutes THEN both
       ELSE overridePathHandling(
              overrideHeaders(
                overrideHosts(
                  overrideSNIs(
                    overrideMethods(
                      overrideRegexPriority(both, anns), anns), anns), anns), anns), anns)

\* Route.override.
OverrideRoute(route, anns) == normalizeProtocols(overrideByAnnotation(route, anns))

----------------------------------------------------------------------------
(* Fields of a Kong service, from the annotations of its Kubernetes         *)
(* services: protocol, path, and the numbers "invalid" or absent ("").      *)

overrideNumber(service, anns, field) ==
    IF anns[field] \in {"", "invalid"} THEN service ELSE [service EXCEPT ![field] = anns[field]]

overridePath(service, anns) ==
    IF anns.path # <<>> /\ Head(anns.path) = "/" THEN [service EXCEPT !.path = anns.path] ELSE service

overrideProtocol(service, anns) ==
    IF anns.protocol # "" /\ ValidateProtocol(anns.protocol)
    THEN [service EXCEPT !.protocol = anns.protocol] ELSE service

overrideServiceByAnnotation(service, anns) ==
    LET named == overridePath(overrideProtocol(service, anns), anns)
    IN overrideNumber(overrideNumber(overrideNumber(overrideNumber(
         named, anns, "connectTimeout"), anns, "writeTimeout"), anns, "readTimeout"), anns, "retries")

\* Service.override: the services in the order of their names; an invalid
\* protocol ends it, with the overrides so far in place.
OverrideService(service, annotations) ==
    LET step(acc, anns) ==
            IF acc.failed THEN acc
            ELSE [service |-> overrideServiceByAnnotation(acc.service, anns),
                  failed  |-> ~ValidateProtocol(anns.protocol)]
        done == FoldLeft(step, [service |-> service, failed |-> FALSE], annotations)
    IN IF done.failed \/ done.service.protocol \notin {"grpc", "grpcs"} THEN done
       ELSE [done EXCEPT !.service.path = <<>>]
============================================================================
