-------------------------- MODULE MCConfiguration --------------------------
(***************************************************************************)
(* The second half of the translation, case by case like the routing half  *)
(* of MCRouting: from rules and the other objects of the cluster to the    *)
(* state and the declarative configuration of Kong.                        *)
(***************************************************************************)
EXTENDS MCRouting, KongConfig

NoClass == [exists |-> FALSE, default |-> FALSE, parameters |-> <<>>]

NoObjects ==
    [class |-> NoClass, classParameters |-> <<>>, services |-> <<>>, facades |-> <<>>, slices |-> <<>>,
     secrets |-> <<>>, grants |-> {}, gatewayList |-> <<>>, consumers |-> <<>>, consumerGroups |-> <<>>,
     pluginList |-> <<>>, clusterPlugins |-> <<>>, caSecrets |-> <<>>, vaults |-> <<>>, customEntities |-> <<>>,
     kongIngresses |-> <<>>, policies |-> <<>>]

Classes == {"", "kong", "other"}

ClassOptions == {NoClass, [exists |-> TRUE, default |-> FALSE, parameters |-> <<>>],
                 [exists |-> TRUE, default |-> TRUE, parameters |-> <<>>]}

\* Objects of the controller's class, and those of none if it is the default.
Served(cluster, class) == class = "kong" \/ (class = "" /\ cluster.class.exists /\ cluster.class.default)

----------------------------------------------------------------------------
(* Backends, upstreams and targets. *)

K8sService(ns, name, uid, annotations) ==
    [ns |-> ns, name |-> name, uid |-> uid, rank |-> uid, external |-> "", annotations |-> annotations,
     ports |-> <<[name |-> "http", number |-> 80, target |-> "8080", protocol |-> "TCP"],
                 [name |-> "dns", number |-> 53, target |-> "53", protocol |-> "UDP"]>>]

Endpoint(address, ready) == [address |-> <<address>>, ready |-> ready]

Slice(ns, service, endpoints) ==
    [ns |-> ns, service |-> service, endpoints |-> endpoints,
     ports |-> <<[name |-> "http", number |-> 8080, protocol |-> "TCP"],
                 [name |-> "dns", number |-> 53, protocol |-> "UDP"]>>]

KongService(name, parent, backends) ==
    [name |-> name, host |-> name, protocol |-> "http", path |-> <<>>, connectTimeout |-> "", writeTimeout |-> "",
     readTimeout |-> "", retries |-> "", parent |-> parent, backends |-> backends, routes |-> <<>>, plugins |-> <<>>,
     gatewayAPI |-> FALSE]

RulesOf(services) ==
    [services |-> [n \in {s.name : s \in services} |-> CHOOSE s \in services : s.name = n],
     parents |-> [n \in {s.name : s \in services} |-> (CHOOSE s \in services : s.name = n).parent],
     snis |-> <<>>, reported |-> {}]

KongBackend(type, name, port, weight) == ServiceBackend(type, "ns", name, port, weight)

SomeBackends ==
    {KongBackend("KubernetesService", n, ByNumber(80), w) : n \in {"a", "b"}, w \in {<<>>, <<0>>, <<1>>, <<5>>}}
    \cup {KongBackend("KubernetesService", "gone", ByNumber(80), <<1>>),
          KongBackend("KubernetesService", "b", [mode |-> "name", value |-> "dns"], <<2>>),
          KongBackend("KubernetesService", "a", [mode |-> "implicit", value |-> ""], <<2>>),
          KongBackend("KongServiceFacade", "f", ByNumber(80), <<1>>),
          KongBackend("KongServiceFacade", "gone", ByNumber(80), <<1>>)}

\* Annotations of one Service and those of the other and of the facade.
SomeAnnotations ==
    {<<<<>>, <<>>>>, <<"retries" :> "1", "retries" :> "1">>, <<"retries" :> "1", "retries" :> "2">>,
     <<"retries" :> "1", <<>>>>, <<"other" :> "1", "other" :> "2">>,
     <<"service-upstream" :> "true", "service-upstream" :> "true">>}

BackendCluster(annotations, external, ready) ==
    [NoObjects EXCEPT
       !.services = (<<"ns", "a">> :> K8sService("ns", "a", 1, annotations[1]))
                    @@ (<<"ns", "b">> :> [K8sService("ns", "b", 2, annotations[2]) EXCEPT !.external = external]),
       !.facades = (<<"ns", "f">> :> [service |-> "b", annotations |-> annotations[1]]),
       !.slices = <<Slice("ns", "a", <<Endpoint("e1", ready[1]), Endpoint("e2", ready[2])>>),
                    Slice("ns", "a", <<Endpoint("e3", <<TRUE>>)>>), Slice("ns", "b", <<Endpoint("e1", <<TRUE>>)>>)>>]

FillUpstreams ==
    /\ focus = "upstreams" /\ output = None
    /\ \E b1 \in SomeBackends, b2 \in SomeBackends, annotations \in SomeAnnotations, external \in {"", "x.com"},
          ready \in {<<<<>>, <<TRUE>>>>, <<<<FALSE>>, <<>>>>, <<<<FALSE>>, <<FALSE>>>>} :
         LET cluster == BackendCluster(annotations, external, ready)
             populated == populateServices(cluster, RulesOf({KongService("k", 9, <<b1, b2>>)}))
         IN /\ input' = [cluster |-> cluster, backends |-> <<b1, b2>>]
            /\ output' = [populated |-> populated,
                          upstreams |-> getUpstreams(cluster, populated.rules.services, <<"k">>)]
            /\ UNCHANGED focus

\* The Service a backend means, as the API objects say.
BackendService(cluster, b) ==
    LET key == <<"ns", b.name>> IN
    IF b.type = "KubernetesService" THEN IF key \in DOMAIN cluster.services THEN <<cluster.services[key]>> ELSE <<>>
    ELSE IF key \in DOMAIN cluster.facades
         THEN <<[cluster.services[<<"ns", cluster.facades[key].service>>] EXCEPT
                   !.annotations = cluster.facades[key].annotations @@ @]>> ELSE <<>>

\* populateServices skips a Kong service exactly when two of the Services
\* behind it differ in a konghq.com annotation, be it that one lacks it, and
\* then reports all of them; it keeps no Service of a skipped one.
AnnotationsAgree ==
    Translated("upstreams") =>
        LET found == UNION {ToSet(BackendService(input.cluster, input.backends[i])) : i \in 1 .. 2}
            agree == \A s, t \in found : \A k \in DOMAIN s.annotations \ {"other"} :
                        k \in DOMAIN t.annotations /\ t.annotations[k] = s.annotations[k]
            service == output.populated.rules.services["k"]
        IN IF agree THEN output.populated.skip = {} /\ {service.k8sServices[k].uid : k \in DOMAIN service.k8sServices}
                                                       = {s.uid : s \in found}
           ELSE /\ output.populated.skip = {"k"} /\ service.k8sServices = <<>>
                /\ {s.uid : s \in found} \subseteq output.populated.failures

\* Where a backend's traffic may go: the ready endpoints of its Service at the
\* port asked for.
BackendTargets(cluster, b) ==
    LET s == BackendService(cluster, b)[1]
        name == CASE b.port.mode = "number" -> "http" [] b.port.mode = "name" -> b.port.value [] OTHER -> ""
        upstream == "service-upstream" \in DOMAIN s.annotations
        number == IF name = "http" THEN "80" ELSE "53"
        pods == UNION {{e.address : e \in {x \in ToSet(y.endpoints) : x.ready \in {<<>>, <<TRUE>>}}} :
                         y \in {z \in ToSet(cluster.slices) : z.service = s.name}}
    IN CASE BackendService(cluster, b) = <<>> \/ name = "" -> {}
         [] s.external # "" /\ b.port.mode = "name" -> {}
         [] upstream -> {[address |-> <<s.name, "ns", "svc">>, port |-> number]}
         [] s.external # "" -> {[address |-> <<"x.com">>, port |-> "80"]}
         [] OTHER -> {[address |-> a, port |-> IF name = "http" THEN "8080" ELSE "53"] : a \in pods}

\* The upstream of a Kong service targets every ready endpoint of every
\* backend that can be resolved and nothing else; a target carries no traffic
\* exactly when all the backends it stands for have the weight zero, however
\* weights are split and added up; and a backend that cannot be resolved is
\* reported.
TargetsServed ==
    Translated("upstreams") /\ output.populated.skip = {} =>
        LET targets == output.upstreams.upstreams["k"].targets
            of(i) == BackendTargets(input.cluster, input.backends[i])
            zero(t) == targets[t] = <<0>>
        IN /\ DOMAIN targets = of(1) \cup of(2)
           /\ \A t \in DOMAIN targets : zero(t) <=> \A i \in 1 .. 2 : t \in of(i) => input.backends[i].weight = <<0>>
           /\ \A i \in 1 .. 2 : BackendService(input.cluster, input.backends[i]) = <<>> =>
                 9 \in output.populated.failures \cap output.upstreams.failures

----------------------------------------------------------------------------
(* Settings of upstreams. *)

SomeHashes ==
    {<<>>, "input" :> "ip", "header" :> "h1", "query_arg" :> "q1", "uri_capture" :> "c1",
     ("cookie" :> "k1") @@ ("cookie_path" :> "/")}

Policy(plain, hashOn, fallback) == [plain |-> plain, hashOn |-> hashOn, hashOnFallback |-> fallback]

SomeKongIngresses == {<<>>, ("algorithm" :> "latency") @@ ("hash_on" :> "ip") @@ ("host_header" :> "k.com")}

OverrideUpstreams ==
    /\ focus = "policies" /\ output = None
    /\ \E hashOn \in SomeHashes, fallback \in SomeHashes \ {("cookie" :> "k1") @@ ("cookie_path" :> "/")},
          plain \in {<<>>, "algorithm" :> "consistent-hashing"},
          kongIngress \in SomeKongIngresses, names \in {<<"p", "p">>, <<"p", "gone">>, <<"gone", "gone">>, <<"", "">>, <<"p", "">>},
          header \in {"", "h.com"}, gatewayAPI \in BOOLEAN, order \in {<<1, 2>>, <<2, 1>>} :
         LET annotations(name) == (IF name = "" THEN <<>> ELSE "upstream-policy" :> name)
                                  @@ (IF kongIngress = <<>> THEN <<>> ELSE "override" :> "i")
                                  @@ (IF header = "" THEN <<>> ELSE "host-header" :> header)
             group == [i \in 1 .. 2 |-> K8sService("ns", IF i = 1 THEN "a" ELSE "b", i, annotations(names[i]))]
             cluster == [NoObjects EXCEPT !.policies = (<<"ns", "p">> :> Policy(plain, hashOn, fallback)),
                                          !.kongIngresses = (<<"ns", "i">> :> [upstream |-> kongIngress])]
             upstream == [service |-> [gatewayAPI |-> gatewayAPI,
                                       k8sServices |-> [i \in 1 .. 2 |-> group[i]]], settings |-> <<>>]
         IN /\ input' = [policy |-> Policy(plain, hashOn, fallback), names |-> names, kongIngress |-> kongIngress,
                         header |-> header, gatewayAPI |-> gatewayAPI]
            /\ output' = FillUpstreamOverrides(cluster, "u" :> upstream, "u" :> order)
            /\ UNCHANGED focus

\* The field that says what is hashed on, for the first hash and the fallback.
FieldOf(prefix, type) ==
    CASE type = "header" -> IF prefix = "hash_on" THEN "hash_on_header" ELSE "hash_fallback_header"
      [] type = "query_arg" -> IF prefix = "hash_on" THEN "hash_on_query_arg" ELSE "hash_fallback_query_arg"
      [] type = "uri_capture" -> IF prefix = "hash_on" THEN "hash_on_uri_capture" ELSE "hash_fallback_uri_capture"
      [] type = "cookie" -> "hash_on_cookie"

\* When all Services behind an upstream name one policy that exists, each hash
\* of it reaches Kong with the field that completes it and with nothing of the
\* other hash, over whatever a KongIngress said; in every other case no hash of
\* the policy does, and names that disagree or lead nowhere are reported to
\* both Services.
PolicyApplied ==
    Translated("policies") =>
        LET settings == output.upstreams["u"].settings
            applied == input.names = <<"p", "p">>
            done(prefix, hash) ==
                CASE hash = <<>> -> TRUE
                  [] "input" \in DOMAIN hash -> prefix \in DOMAIN settings /\ settings[prefix] = "ip"
                  [] OTHER -> \E t \in DOMAIN hash \cap HashTypes :
                                /\ prefix \in DOMAIN settings /\ settings[prefix] = t
                                /\ FieldOf(prefix, t) \in DOMAIN settings /\ settings[FieldOf(prefix, t)] = hash[t]
            described(hash, prefix) == {FieldOf(prefix, t) : t \in DOMAIN hash \cap HashTypes}
            allFields == {FieldOf(p, t) : p \in {"hash_on", "hash_fallback"}, t \in HashTypes}
        IN /\ applied => /\ done("hash_on", input.policy.hashOn) /\ done("hash_fallback", input.policy.hashOnFallback)
                         /\ \A f \in DOMAIN input.policy.plain : settings[f] = input.policy.plain[f]
           /\ DOMAIN settings \cap allFields
                = IF applied THEN described(input.policy.hashOn, "hash_on")
                                  \cup described(input.policy.hashOnFallback, "hash_fallback")
                  ELSE {}
           /\ output.failures = IF applied \/ input.names = <<"", "">> THEN {} ELSE {1, 2}

----------------------------------------------------------------------------
(* Certificates. *)

TLSSecret(uid, created, pair) == [uid |-> uid, created |-> created, pair |-> pair]

SecretNames == <<"x", "y", "z">>

GatewayListener(name, hostname, secrets) ==
    [name |-> name, hostname |-> hostname,
     certificateRefs |-> [i \in DOMAIN secrets |-> [ns |-> <<>>, name |-> secrets[i]]]]

\* Two secrets of Ingresses, one of them without a host, as client
\* certificates have none, and the secrets of a Gateway's listeners.
MergeCertificates ==
    /\ focus = "certificates" /\ output = None
    /\ \E pairs \in [1 .. 3 -> {"p", "q", ""}], ages \in {<<1, 1, 1>>, <<2, 1, 1>>, <<1, 2, 1>>, <<2, 2, 1>>},
          hosts \in {<<<<"b", "c">>>>, <<<<"b", "c">>, <<"a", "c">>>>, <<>>},
          refs \in {<<"z">>, <<"y">>, <<"z", "y">>, <<"gone">>}, hostname \in {<<>>, <<<<"b", "c">>>>},
          programmed \in {{}, {"l"}}, order \in {<<1, 2>>, <<2, 1>>} :
         LET cluster == [NoObjects EXCEPT
                  !.secrets = [k \in {<<"ns", SecretNames[i]>> : i \in 1 .. 3} |->
                                 LET i == CHOOSE j \in 1 .. 3 : SecretNames[j] = k[2]
                                 IN TLSSecret(10 + i, ages[i], pairs[i])],
                  !.gatewayList = <<[ns |-> "ns", uid |-> 5, programmed |-> programmed,
                                     listeners |-> <<GatewayListener("l", hostname, refs)>>]>>]
             snis == (<<"ns", "x">> :> [hosts |-> hosts, parents |-> {1}])
                     @@ (<<"ns", "y">> :> [hosts |-> <<<<"d", "c">>>>, parents |-> {1, 2}])
             keys == <<<<"ns", "x">>, <<"ns", "y">>>>
             ingress == getCerts(cluster, snis, [i \in 1 .. 2 |-> keys[order[i]]])
             gateway == getGatewayCerts(cluster)
         IN /\ input' = [cluster |-> cluster, snis |-> snis]
            /\ output' = [merged |-> mergeCerts(<<ingress.certs, gateway.certs>>),
                          failures |-> ingress.failures \cup gateway.failures]
            /\ UNCHANGED focus

\* Who asks for which host with which Secret: Ingresses, and listeners that
\* are programmed and have one certificate.
Asked ==
    LET gateway == input.cluster.gatewayList[1]
        l == gateway.listeners[1]
    IN UNION {{[secret |-> k, host |-> h, ingress |-> TRUE] : h \in ToSet(input.snis[k].hosts)} : k \in DOMAIN input.snis}
       \cup IF l.name \in gateway.programmed /\ Len(l.certificateRefs) = 1
            THEN {[secret |-> <<"ns", l.certificateRefs[1].name>>, host |-> OrElse(l.hostname, <<"*">>),
                   ingress |-> FALSE]} ELSE {}

\* Whatever order the Secrets are visited in: a host that is asked for with a
\* valid Secret is on one certificate, that of an Ingress when an Ingress asks
\* for it; Secrets of one key pair make one certificate, under the identifier
\* of the oldest of them, which every client certificate by those Secrets is
\* redirected to; and a Secret that is missing or broken is reported to all
\* who named it.
CertificatesServed ==
    Translated("certificates") =>
        LET secrets == input.cluster.secrets
            valid(k) == k \in DOMAIN secrets /\ secrets[k].pair # ""
            certificates == output.merged.certificates
            used == {secrets[k] : k \in {j \in DOMAIN input.snis \cup {a.secret : a \in Asked} : valid(j)}}
            of(pair) == {s \in used : s.pair = pair}
            first(S) == CHOOSE s \in S : \A t \in S \ {s} : s.created < t.created \/ (s.created = t.created /\ s.uid < t.uid)
            good == {a \in Asked : valid(a.secret)}
            preferred(h) == LET asking == {a \in good : a.host = h}
                            IN IF \E a \in asking : a.ingress THEN {a \in asking : a.ingress} ELSE asking
        IN /\ \A h \in {a.host : a \in good} :
                 {c.pair : c \in {x \in certificates : h \in x.snis}} = {secrets[a.secret].pair : a \in preferred(h)}
           /\ UNION {c.snis : c \in certificates} = {a.host : a \in good}
           /\ {<<c.pair, c.id>> : c \in certificates} = {<<s.pair, first(of(s.pair)).uid>> : s \in used}
           /\ Cardinality(certificates) = Cardinality({s.pair : s \in used})
           /\ output.merged.idToMergedID = [u \in {s.uid : s \in used} |->
                                              first(of((CHOOSE s \in used : s.uid = u).pair)).uid]
           /\ \A k \in DOMAIN input.snis : ~valid(k) => input.snis[k].parents \subseteq output.failures

CASecret(uid, class, id, ca) == [uid |-> uid, class |-> class, id |-> id, ca |-> ca]

UserOfCA(uid, class, ids) == [uid |-> uid, class |-> class, caCertificates |-> ids]

FillCACertificates ==
    /\ focus = "ca" /\ output = None
    /\ \E class \in ClassOptions, c1 \in Classes, c2 \in Classes, id1 \in {<<>>, <<"i">>}, id2 \in {<<"i">>, <<"j">>},
          ca1 \in {"good", "expired"}, ca2 \in {"better", "no PEM"}, users \in SUBSET {"i", "j"} :
         LET cluster == [NoObjects EXCEPT !.class = class,
                            !.caSecrets = <<CASecret(1, c1, id1, ca1), CASecret(2, c2, id2, ca2)>>,
                            !.pluginList = <<UserOfCA(3, "", users)>>,
                            !.clusterPlugins = <<UserOfCA(4, "kong", {"i"})>>]
         IN /\ input' = cluster
            /\ output' = getCACerts(cluster)
            /\ UNCHANGED focus

\* A CA Secret of the class is loaded or reported, and if it is not loaded so
\* is every plugin whose configuration names it, for none of those can work.
CAFailuresTold ==
    Translated("ca") =>
        \A s \in {x \in ToSet(input.caSecrets) : Served(input, x.class)} :
            \/ s.id # <<>> /\ \E c \in output.caCertificates : c.id = s.id[1] /\ c.cert = s.ca
            \/ /\ s.uid \in output.failures
               /\ s.id # <<>> => {p.uid : p \in {q \in ToSet(input.pluginList) \cup ToSet(input.clusterPlugins) :
                                                   s.id[1] \in q.caCertificates}} \subseteq output.failures

----------------------------------------------------------------------------
(* Consumers and vaults. *)

CredentialSecret(uid, type, data) == [uid |-> uid, type |-> type, data |-> data]

SomeCredentials ==
    {CredentialSecret(11, <<"key-auth">>, ("key" :> "k1") @@ ("ttl" :> "sixty")),
     CredentialSecret(11, <<"key-auth">>, ("key" :> "k1") @@ ("ttl" :> "never")),
     CredentialSecret(11, <<"key-auth">>, "ttl" :> "sixty"),
     CredentialSecret(11, <<"basic-auth">>, ("username" :> "u") @@ ("password" :> "k2")),
     CredentialSecret(11, <<"hmac-auth">>, ("username" :> "u") @@ ("secret" :> "k2")),
     CredentialSecret(11, <<"jwt">>, ("key" :> "i") @@ ("secret" :> "k2")),
     CredentialSecret(11, <<"oauth2">>, ("name" :> "n") @@ ("client_id" :> "i") @@ ("client_secret" :> "k3")
                                        @@ ("hash_secret" :> "true")),
     CredentialSecret(11, <<"oauth2">>, ("name" :> "n") @@ ("client_id" :> "i") @@ ("hash_secret" :> "often")),
     CredentialSecret(11, <<"acl">>, "group" :> "g"),
     CredentialSecret(11, <<"mtls-auth">>, "subject_name" :> "s"),
     CredentialSecret(11, <<"token">>, "key" :> "k1"),
     CredentialSecret(11, <<>>, "key" :> "k1")}

KongConsumer(uid, class, username, customID, groups, credentials) ==
    [uid |-> uid, ns |-> "ns", class |-> class, username |-> username, customID |-> customID, groups |-> groups,
     credentials |-> credentials, annotations |-> <<>>]

KongConsumerGroup(uid, name) == [uid |-> uid, ns |-> "ns", name |-> name, class |-> "kong", annotations |-> <<>>]

FillConsumers ==
    /\ focus = "consumers" /\ output = None
    /\ \E c1 \in SomeCredentials, c2 \in SomeCredentials, names \in {<<"u", "">>, <<"", "i">>, <<"", "">>},
          credentials \in {<<"x", "y">>, <<"y", "gone", "x">>}, groups \in {<<>>, <<"gone", "g">>},
          class \in {"kong", ""} :
         LET cluster == [NoObjects EXCEPT
                            !.secrets = (<<"ns", "x">> :> c1) @@ (<<"ns", "y">> :> [c2 EXCEPT !.uid = 12]),
                            !.consumerGroups = <<KongConsumerGroup(3, "g")>>,
                            !.consumers = <<KongConsumer(1, class, names[1], names[2], groups, credentials)>>]
             filled == FillConsumersAndCredentials(cluster)
         IN /\ input' = cluster
            /\ output' = [filled |-> filled, sanitized |-> {SanitizedConsumer(c) : c \in filled.consumers}]
            /\ UNCHANGED focus

\* What each type of credential cannot be without.
Complete(secret) ==
    secret.type # <<>> /\ CASE secret.type[1] = "key-auth" -> "key" \in DOMAIN secret.data
                            [] secret.type[1] = "token" -> FALSE
                            [] OTHER -> TRUE

Faultless(secret) ==
    Complete(secret) /\ \A f \in DOMAIN secret.data : <<f, secret.data[f]>> \notin {<<"ttl", "never">>, <<"hash_secret", "often">>}

\* A credential that is missing, of an unknown type or incomplete is reported
\* on the consumer and costs it neither its other credentials nor its groups:
\* each complete one reaches Kong, in the order of the list.
CredentialsKept ==
    Translated("consumers") =>
        LET k == input.consumers[1]
            keys == SelectSeq(k.credentials, LAMBDA n : <<"ns", n>> \in DOMAIN input.secrets)
            secrets == [i \in DOMAIN keys |-> input.secrets[<<"ns", keys[i]>>]]
            kept(type) == LET good == SelectSeq(secrets, LAMBDA s : Complete(s) /\ s.type[1] = type)
                          IN [i \in DOMAIN good |-> good[i].uid]
            served == k.class = "kong" /\ (k.username # "" \/ k.customID # "")
            wrong == \/ k.username = "" /\ k.customID = ""
                     \/ Len(keys) < Len(k.credentials) \/ "gone" \in ToSet(k.groups)
                     \/ \E s \in ToSet(secrets) : ~Faultless(s)
        IN /\ (output.filled.consumers # {}) <=> served
           /\ \A c \in output.filled.consumers :
                 /\ \A t \in CredentialTypes : [i \in DOMAIN c.credentials[t] |-> c.credentials[t][i].tag] = kept(t)
                 /\ ToSet(c.groups) = ToSet(k.groups) \ {"gone"}
           /\ (output.filled.failures = {k.uid}) <=> (k.class = "kong" /\ wrong)

\* The copy that leaves the cluster says which credentials there are and none
\* of the values they are checked with.
CopyIsSanitized ==
    Translated("consumers") =>
        \A c \in output.sanitized :
            /\ \A t \in CredentialTypes : \A i \in DOMAIN c.credentials[t] :
                 \A f \in DOMAIN c.credentials[t][i].fields :
                    c.credentials[t][i].fields[f] \notin {"k1", "k2", "k3"}
            /\ \E o \in output.filled.consumers :
                 /\ o.uid = c.uid
                 /\ \A t \in CredentialTypes : Len(o.credentials[t]) = Len(c.credentials[t])

Vault(uid, class, prefix, created, json) ==
    [uid |-> uid, rank |-> uid, class |-> class, prefix |-> prefix, created |-> created, json |-> json]

FillSomeVaults ==
    /\ focus = "vaults" /\ output = None
    /\ \E class \in ClassOptions, classes \in [1 .. 3 -> Classes], prefixes \in {<<"p", "p", "p">>, <<"p", "q", "p">>},
          ages \in [1 .. 3 -> {1, 2}], json \in {<<TRUE, TRUE, TRUE>>, <<FALSE, TRUE, TRUE>>},
          order \in {<<1, 2, 3>>, <<3, 1, 2>>, <<2, 3, 1>>} :
         LET vault(i) == Vault(i, classes[i], prefixes[i], ages[i], json[i])
             cluster == [NoObjects EXCEPT !.class = class, !.vaults = [i \in 1 .. 3 |-> vault(order[i])]]
         IN /\ input' = cluster
            /\ output' = FillVaults(cluster)
            /\ UNCHANGED focus

\* Of the vaults of the class that share a prefix the oldest one is served,
\* and the first in name among those of one age, in whatever order the store
\* lists them; all the others are reported.
OldestVaultServed ==
    Translated("vaults") =>
        LET vaults == {v \in ToSet(input.vaults) : Served(input, v.class)}
            before(v, w) == v.created < w.created \/ (v.created = w.created /\ v.uid < w.uid)
            oldest == {v \in vaults : \A w \in vaults \ {v} : w.prefix = v.prefix => before(v, w)}
        IN /\ output.vaults = {v \in oldest : v.json}
           /\ output.failures = {v.uid : v \in vaults \ output.vaults}

----------------------------------------------------------------------------
(* Plugins. *)

KongPlugin(ns, name, uid, config) ==
    [ns |-> ns, name |-> name, uid |-> uid, plugin |-> name, config |-> config, patches |-> <<>>, configFrom |-> <<>>,
     instance |-> "i", disabled |-> FALSE, caCertificates |-> {}, class |-> "kong", global |-> FALSE]

\* Annotations that name plugins: one of the namespace, one of another.
NamesPlugins(items) == IF items = <<>> THEN <<>> ELSE "plugins" :> items

LocalOnly == {<<>>, <<<<"p">>>>, <<<<"other", "p">>>>}

LocalAndRemote == LocalOnly \cup {<<<<"p">>, <<"other", "p">>>>, <<<<"p">>, <<>>>>}

AnnotatedRoute(name, items) ==
    [name |-> name, settings |-> <<>>, plugins |-> <<>>,
     ingress |-> [ns |-> "ns", annotations |-> NamesPlugins(items), settings |-> <<>>]]

AnnotatedService(name, items, routes) ==
    [name |-> name, routes |-> routes,
     k8sServices |-> (<<"ns", name>> :> K8sService("ns", name, 1, NamesPlugins(items)))]

AnnotatedUser(name, items) == [username |-> name, name |-> name, ns |-> "ns", annotations |-> NamesPlugins(items)]

PluginGrant(ns, from) ==
    [ns |-> ns, from |-> {from}, to |-> {[group |-> "configuration.konghq.com", kind |-> "KongPlugin", name |-> <<>>]}]

PluginGrants == {{}, {PluginGrant("other", Referer("configuration.konghq.com", "KongConsumer", "ns"))}}

AttachPlugins ==
    /\ focus = "plugins" /\ output = None
    /\ \E s1 \in LocalAndRemote, s2 \in LocalOnly, r1 \in LocalOnly, c1 \in LocalAndRemote, c2 \in LocalOnly,
          g1 \in LocalOnly, named \in BOOLEAN, grants \in PluginGrants :
         LET cluster == [NoObjects EXCEPT !.grants = grants,
                            !.pluginList = <<KongPlugin("ns", "p", 1, "a" :> 1), KongPlugin("other", "p", 2, "a" :> 2)>>]
             services == <<AnnotatedService("s1", s1, <<AnnotatedRoute("r1", r1)>>), AnnotatedService("s2", s2, <<>>)>>
             consumers == <<AnnotatedUser(<<"c1">>, c1), AnnotatedUser(IF named THEN <<"c2">> ELSE <<>>, c2)>>
             groups == <<AnnotatedUser("g1", g1)>>
             relations == getPluginRelations(cluster, services, consumers, groups)
         IN /\ input' = [service |-> {<<"s1", s1>>, <<"s2", s2>>}, route |-> {<<"r1", r1>>},
                         consumer |-> {<<"c1", c1>>, <<"c2", c2>>}, group |-> {<<"g1", g1>>}, grants |-> grants]
            /\ output' = [panics |-> relations.panics,
                          plugins |-> buildPlugins(cluster, relations.rels, SetToSeq(DOMAIN relations.rels)).plugins]
            /\ UNCHANGED focus

\* The entities of a type that name the plugin of their own namespace.
Naming(type) == {<<type, x[1]>> : x \in {y \in input[type] : <<"p">> \in ToSet(y[2])}}

\* A KongPlugin has an instance for exactly what it is named on: each service
\* and route alone; each together with each consumer when consumers name it
\* too, or with each group when no consumer does; and consumers or groups alone
\* when nothing else names it.  The plugin of another namespace has none as
\* long as no grant opens it.
PluginsAttached ==
    Translated("plugins") /\ ~output.panics =>
        LET targets == Naming("service") \cup Naming("route")
            users == IF Naming("consumer") # {} THEN Naming("consumer") ELSE Naming("group")
            wanted == IF users = {} THEN {{t} : t \in targets}
                      ELSE IF targets = {} THEN {{u} : u \in users}
                      ELSE {{x[1], x[2]} : x \in targets \X users}
            instances(uid) == SelectSeq(output.plugins, LAMBDA p : p.parent = uid)
        IN /\ {p.for : p \in ToSet(instances(1))} = wanted
           /\ Len(instances(1)) = Cardinality(wanted)
           /\ input.grants = {} => instances(2) = <<>>

\* What the comment on consumers without a username says: one bad consumer must
\* not be capable of stopping all updates.
OneConsumerStopsNothing == Translated("plugins") => ~output.panics

----------------------------------------------------------------------------
(* Configurations of plugins. *)

SecretDocument(doc, json, yaml) == [doc |-> doc, json |-> json, yaml |-> yaml]

ConfigPatch(name, path) == [secret |-> <<"ns", name>>, key |-> "k", path |-> path]

SomePatches ==
    {<<>>, <<ConfigPatch("x", "b")>>, <<ConfigPatch("x", "a"), ConfigPatch("y", "a")>>, <<ConfigPatch("y", "")>>,
     <<ConfigPatch("y", "b"), ConfigPatch("x", "")>>, <<ConfigPatch("x", "a"), ConfigPatch("gone", "b")>>}

ConfigurePlugins ==
    /\ focus = "plugin configs" /\ output = None
    /\ \E config \in {<<>>, "a" :> "own"}, patches \in SomePatches, from \in {<<>>, <<"x">>, <<"y">>, <<"gone">>},
          json \in [1 .. 2 -> BOOLEAN], yaml \in [1 .. 2 -> BOOLEAN], disabled \in BOOLEAN :
         LET value(i, doc) == [values |-> "k" :> SecretDocument(doc, json[i], json[i] \/ yaml[i])]
             cluster == [NoObjects EXCEPT !.secrets = (<<"ns", "x">> :> value(1, "c" :> "x"))
                                                      @@ (<<"ns", "y">> :> value(2, "d" :> "y"))]
             plugin == [KongPlugin("ns", "p", 1, config) EXCEPT
                          !.patches = patches, !.disabled = disabled,
                          !.configFrom = [i \in DOMAIN from |-> [secret |-> <<"ns", from[i]>>, key |-> "k"]]]
         IN /\ input' = [cluster |-> cluster, plugin |-> plugin]
            /\ output' = [built |-> kongPluginFromK8SPlugin(cluster, plugin)]
            /\ UNCHANGED focus

\* A plugin's configuration has one source: the object with its patches in
\* their order, or the Secret of configFrom; a plugin that states both, or any
\* of whose Secrets is missing or not readable, is not configured at all.
OneSourceOfConfig ==
    Translated("plugin configs") =>
        LET p == input.plugin
            read(ref) == IF ref.secret \in DOMAIN input.cluster.secrets
                         THEN input.cluster.secrets[ref.secret].values["k"] ELSE SecretDocument("", FALSE, FALSE)
            root(i) == p.patches[i].path = ""
            last(f) == {i \in DOMAIN p.patches : \A j \in i .. Len(p.patches) :
                          ~root(j) /\ (p.patches[j].path = f => j = i) /\ p.patches[i].path = f}
            roots == {i \in DOMAIN p.patches : root(i)}
            base == IF roots = {} THEN p.config ELSE read(p.patches[Max(roots)]).doc
            own == [f \in DOMAIN base \cup {p.patches[i].path : i \in {j \in DOMAIN p.patches : last(p.patches[j].path) # {}}} |->
                      IF last(f) = {} THEN base[f] ELSE read(p.patches[CHOOSE i \in last(f) : TRUE]).doc]
            ok == /\ \A i \in DOMAIN p.patches : read(p.patches[i]).json
                  /\ p.configFrom # <<>> => own = <<>> /\ read(p.configFrom[1]).yaml
        IN IF ~ok THEN output.built = <<>>
           ELSE /\ output.built # <<>> /\ output.built[1].enabled = ~p.disabled
                /\ output.built[1].config = IF p.configFrom = <<>> THEN own ELSE read(p.configFrom[1]).doc

GlobalPlugin(uid, name, class, global) ==
    [KongPlugin("", name, uid, <<>>) EXCEPT !.class = class, !.global = global]

GlobalPlugins ==
    /\ focus = "global plugins" /\ output = None
    /\ \E class \in ClassOptions, classes \in [1 .. 3 -> Classes], names \in {<<"p", "p", "p">>, <<"p", "q", "p">>},
          global \in [1 .. 3 -> BOOLEAN], order \in {<<1, 2, 3>>, <<3, 2, 1>>} :
         LET plugin(i) == GlobalPlugin(i, names[i], classes[i], global[i])
             cluster == [NoObjects EXCEPT !.class = class, !.clusterPlugins = [i \in 1 .. 3 |-> plugin(order[i])]]
         IN /\ input' = cluster
            /\ output' = [plugins |-> buildPlugins(cluster, <<>>, <<>>).plugins]
            /\ UNCHANGED focus

\* A global plugin applies to everything, so there is one of a name or, when
\* several KongClusterPlugins of the class ask for it, none: never one that the
\* order of a list picks.
GlobalPluginsUnambiguous ==
    Translated("global plugins") =>
        LET asking == {p \in ToSet(input.clusterPlugins) : p.global /\ Served(input, p.class)}
        IN ToSet(output.plugins) # {} \/ asking # {} =>
             {p.parent : p \in ToSet(output.plugins)}
               = {p.uid : p \in {q \in asking : \A r \in asking : r.plugin = q.plugin => r = q}}

----------------------------------------------------------------------------
(* Custom entities. *)

SchemaField(name, reference) ==
    [name |-> name, type |-> IF reference = "" THEN "string" ELSE "foreign", reference |-> reference]

EntitySchemas == "session" :> <<SchemaField("v", ""), SchemaField("of_service", "services"),
                                SchemaField("of_route", "routes"), SchemaField("of_consumer", "consumers")>>

CustomEntity(uid, class, type, json, parentRef) ==
    [uid |-> uid, rank |-> uid, ns |-> "ns", class |-> class, type |-> type, json |-> json, fields |-> "v" :> "1",
     parentRef |-> parentRef]

ParentPlugin(kind, name) ==
    [group |-> <<"configuration.konghq.com">>, kind |-> <<kind>>, ns |-> <<>>, name |-> name]

FillEntities ==
    /\ focus = "entities" /\ output = None
    /\ \E s1 \in LocalOnly, s2 \in LocalOnly, r1 \in LocalOnly, r2 \in LocalOnly, c1 \in LocalOnly, c2 \in LocalOnly,
          named \in BOOLEAN, type \in {"session", "services", "unknown"}, json \in BOOLEAN,
          parent \in {<<>>, <<ParentPlugin("KongPlugin", "p")>>, <<ParentPlugin("Service", "p")>>} :
         LET services == <<AnnotatedService("s1", s1, <<AnnotatedRoute("r1", r1)>>),
                           AnnotatedService("s2", s2, <<AnnotatedRoute("r2", r2)>>)>>
             consumers == <<AnnotatedUser(IF named THEN <<"c1">> ELSE <<>>, c1), AnnotatedUser(<<"c2">>, c2)>>
             entities == <<CustomEntity(2, "kong", type, json, parent), CustomEntity(1, "kong", "session", TRUE, parent)>>
         IN /\ (type # "session" \/ ~json) => (r2 = <<>> /\ c2 = <<>>)
            /\ input' = [service |-> {<<"s1", s1>>, <<"s2", s2>>}, route |-> {<<"r1", r1>>, <<"r2", r2>>},
                         consumer |-> {<<"c1", c1>>, <<"c2", c2>>}, unnamed |-> IF named THEN {} ELSE {"c1"},
                         owner |-> ("r1" :> "s1") @@ ("r2" :> "s2"), entities |-> entities]
            /\ output' = FillCustomEntities([NoObjects EXCEPT !.customEntities = entities], EntitySchemas,
                                            services, consumers)
            /\ UNCHANGED focus

\* A custom entity that hangs on a plugin refers to something the plugin is
\* attached to: a route or a consumer that names it, the service that names it
\* or, when no service does, the service of a route that does; it refers to
\* none only if there is none.  Entities of types that are unknown or that the
\* controller fills itself are reported instead.
EntitiesReferToAttached ==
    Translated("entities") =>
        LET kept == IF "session" \in DOMAIN output.collections
                    THEN ToSet(output.collections["session"].entities) ELSE {}
            usable(e) == e.type = "session" /\ e.json
            attached(e, type) == IF e.parentRef = <<ParentPlugin("KongPlugin", "p")>> THEN Naming(type) ELSE {}
            viaRoute(e) == {<<"service", input.owner[r[2]]>> : r \in attached(e, "route")}
            named(ids) == {i \in ids : i[2] \notin input.unnamed}
            refers(x, field, ids) == IF ids = {} THEN field \notin DOMAIN x.fields
                                     ELSE field \in DOMAIN x.fields /\ x.fields[field] \in ids
        IN /\ {x.uid : x \in kept} = {e.uid : e \in {y \in ToSet(input.entities) : usable(y)}}
           /\ output.failures = {e.uid : e \in {y \in ToSet(input.entities) : ~usable(y)}}
           /\ \A x \in kept : \E e \in ToSet(input.entities) :
                 /\ e.uid = x.uid
                 /\ refers(x, "of_service", IF attached(e, "service") # {} THEN attached(e, "service") ELSE viaRoute(e))
                 /\ refers(x, "of_route", attached(e, "route"))
                 /\ refers(x, "of_consumer", named(attached(e, "consumer")))

----------------------------------------------------------------------------
(* The whole configuration. *)

DeckParams ==
    [expressionRoutes |-> FALSE, schemas |-> "p" :> ("b" :> "default"), stub |-> TRUE, enterprise |-> TRUE,
     license |-> <<"l">>, customEntities |-> TRUE, entitySchemas |-> EntitySchemas]

\* What Services say: nothing, a client certificate, a plugin, a policy, or a
\* protocol no service has.
ServiceSays ==
    {<<>>, ("client-cert" :> "x") @@ ("protocol" :> "https"), ("client-cert" :> "y") @@ ("protocol" :> "https"),
     ("client-cert" :> "x") @@ ("protocol" :> "http"), NamesPlugins(<<<<"p">>>>),
     ("upstream-policy" :> "u") @@ NamesPlugins(<<<<"p">>, <<"q">>>>), "protocol" :> "bad"}

Build ==
    /\ focus = "build" /\ output = None
    /\ \E a \in ServiceSays, b \in ServiceSays, shared \in BOOLEAN, pairs \in {<<"p", "q">>, <<"p", "p">>, <<"p", "">>},
          ages \in {<<1, 2>>, <<2, 1>>}, nameless \in BOOLEAN, hosts \in {<<>>, <<<<"b", "c">>>>} :
         LET backend(name) == KongBackend("KubernetesService", name, ByNumber(80), <<1>>)
             route(n) == AnnotatedRoute(n, <<<<"q">>>>)
             rules == [RulesOf({[KongService("k1", 8, IF shared THEN <<backend("a"), backend("b")>> ELSE <<backend("a")>>)
                                   EXCEPT !.routes = <<route("r1"), route("r2")>>],
                                KongService("k2", 9, <<backend("b")>>)})
                       EXCEPT !.snis = (<<"ns", "x">> :> [hosts |-> hosts, parents |-> {8}])]
             cluster == [BackendCluster(<<a, b>>, "", <<<<>>, <<>>>>) EXCEPT
                  !.secrets = (<<"ns", "x">> :> TLSSecret(11, ages[1], pairs[1]))
                              @@ (<<"ns", "y">> :> TLSSecret(12, ages[2], pairs[2])),
                  !.policies = (<<"ns", "u">> :> Policy("algorithm" :> "latency", "header" :> "h1", <<>>)),
                  !.pluginList = <<[KongPlugin("ns", "p", 21, "a" :> "own") EXCEPT !.instance = ""],
                                   KongPlugin("ns", "q", 22, <<>>)>>,
                  !.clusterPlugins = <<[GlobalPlugin(23, "g", "kong", TRUE) EXCEPT !.plugin = "q"]>>,
                  !.consumers = <<KongConsumer(31, "kong", "u1", "", <<>>, <<>>),
                                  KongConsumer(32, "kong", IF nameless THEN "" ELSE "u2", "i", <<>>, <<>>),
                                  KongConsumer(33, "kong", "u3", "", <<>>, <<>>)>>,
                  !.vaults = <<Vault(41, "kong", "v", 1, TRUE), Vault(42, "kong", "v", 2, TRUE),
                               Vault(43, "kong", "w", 1, TRUE)>>,
                  !.customEntities = <<CustomEntity(51, "kong", "session", TRUE, <<ParentPlugin("KongPlugin", "q")>>)>>]
             built(backwards) == BuildKongConfig(cluster, rules, DeckParams, backwards)
             made(x) == [content |-> ToDeckContent(x.state, DeckParams), ids |-> FillIDs(x.state),
                         custom |-> x.state.customEntities, sanitized |-> ToDeckContent(SanitizedCopy(x.state), DeckParams),
                         failures |-> x.failures, configured |-> x.configured, panics |-> x.panics]
         IN /\ input' = [secrets |-> cluster.secrets, names |-> {"u1", "u2", "u3"}]
            /\ output' = [one |-> made(built(FALSE)), other |-> made(built(TRUE))]
            /\ UNCHANGED focus

\* All that is in a list of the content.
Listed(list) == UNION {ToSet(list[k]) : k \in DOMAIN list}

\* The consumers, vaults, plugins and custom entities the build reports as
\* configured are in what is sent, a consumer without a username apart: one
\* such consumer costs no other object its place.
ConfiguredServed ==
    Translated("build") =>
        \A x \in {output.one, output.other} :
            LET sent == {c.uid : c \in Listed(x.content.consumers)} \cup {v.uid : v \in Listed(x.content.vaults)}
                        \cup {p.parent : p \in Listed(x.content.plugins)}
                        \cup UNION {{e.uid : e \in ToSet(x.custom[t].entities)} : t \in DOMAIN x.custom}
            IN /\ x.configured \ {32} \subseteq sent
               /\ 32 \in sent <=> <<"consumer", "u2">> \in x.ids
               /\ ~x.panics

\* The certificate of every client certificate is in what is sent, whichever
\* of several Secrets of one key pair it was merged under; what is broken is
\* sent under no identifier and reported.
ClientCertificatesLoaded ==
    Translated("build") =>
        \A x \in {output.one, output.other} :
            \A s \in Listed(x.content.services) : \A id \in ToSet(s.clientCertificate) :
                IF id = NoID THEN 12 \in x.failures /\ input.secrets[<<"ns", "y">>].pair = ""
                ELSE \E c \in Listed(x.content.certificates) : c.id = id

\* Every service that is sent has the upstream its host names, every custom
\* entity refers to what is sent, and no private key is in the sanitized copy,
\* which is the same otherwise.
ContentClosed ==
    Translated("build") =>
        \A x \in {output.one, output.other} :
            /\ {s.host : s \in Listed(x.content.services)} \subseteq {u.name : u \in Listed(x.content.upstreams)}
            /\ \A t \in DOMAIN x.custom : \A e \in ToSet(x.custom[t].entities) :
                 \A f \in DOMAIN e.fields \ {"v"} : e.fields[f] \in x.ids
            /\ {c.key : c \in Listed(x.sanitized.certificates)} \subseteq {Redacted}
            /\ \A f \in {"services", "upstreams", "plugins", "groups", "caCertificates", "vaults"} :
                 x.sanitized[f] = x.content[f]

\* What is sent, and what is reported, does not depend on the order in which
\* the maps of the build happen to be visited: the configuration's hash changes
\* when a Kubernetes object does.
ConfigStable ==
    Translated("build") => /\ output.one.content = output.other.content
                           /\ output.one.failures = output.other.failures
                           /\ output.one.configured = output.other.configured

----------------------------------------------------------------------------
(* Classes: what the controllers cache and what the translator lists. *)

ClassedObjects(kind) ==
    {[kind |-> kind, rank |-> 1, class |-> c, annotated |-> a, specClass |-> s] :
        c \in {"", ingressClass, "other"}, a \in BOOLEAN,
        s \in IF kind = "Ingress" THEN {<<>>, <<ingressClass>>, <<"other">>} ELSE {<<>>}}

FilterByClass ==
    /\ focus = "classes" /\ output = None
    /\ \E kind \in {"Ingress", "TCPIngress", "UDPIngress", "KongConsumer"}, class \in {TRUE, FALSE} \X {TRUE, FALSE} :
         \E o, p \in {x \in ClassedObjects(kind) : x.class # "" => x.annotated} :
           LET objects == <<[o EXCEPT !.rank = 2], p>>
               cluster == [class |-> [exists |-> class[1], default |-> class[2]], ingresses |-> objects,
                           tcpIngresses |-> objects, udpIngresses |-> objects, consumers |-> objects]
           IN /\ input' = [cluster |-> cluster, objects |-> objects]
              /\ output' = [listed |-> CASE kind = "Ingress" -> ListIngressesV1(cluster)
                                         [] kind = "TCPIngress" -> ListTCPIngresses(cluster)
                                         [] kind = "UDPIngress" -> ListUDPIngresses(cluster)
                                         [] kind = "KongConsumer" -> ListKongConsumers(cluster)]
              /\ UNCHANGED focus

\* Whether the controller of a kind caches an object, with what it last saw of
\* the class.
Admitted(cluster, o) == MatchesIngressClass(o, cluster.class.exists /\ cluster.class.default)

\* The controllers and the translator test the class of an object each in
\* their own way and agree: what is cached is translated, and nothing is that
\* should not be cached.  Objects whose annotation is empty, and Ingresses
\* whose annotation and specification name different classes, are judged
\* differently and left aside.
CachedIsTranslated ==
    Translated("classes") =>
        \A o \in ToSet(input.objects) :
            /\ o.annotated => o.class # ""
            /\ o.annotated /\ o.specClass # <<>> => o.class = o.specClass[1]
            => (o \in ToSet(output.listed) <=> Admitted(input.cluster, o))

----------------------------------------------------------------------------

TranslationInit == Init

TranslationNext ==
    \/ Next
    \/ FillUpstreams
    \/ OverrideUpstreams
    \/ MergeCertificates
    \/ FillCACertificates
    \/ FillConsumers
    \/ FillSomeVaults
    \/ AttachPlugins
    \/ ConfigurePlugins
    \/ GlobalPlugins
    \/ FillEntities
    \/ Build
    \/ FilterByClass

TranslationSpec == TranslationInit /\ [][TranslationNext]_vars

----------------------------------------------------------------------------
(* What is checked, by the part of the configuration; each part is stated  *)
(* above.                                                                  *)

\* Backends (translate_upstreams.go, ingressrules.go, kongupstreampolicy.go):
\* upstreams target exactly the ready endpoints of what resolves, with traffic
\* unless all weights are zero; Services that disagree are reported and
\* skipped; and a policy applies as a whole or not at all.
BackendsServed == AnnotationsAgree /\ TargetsServed /\ PolicyApplied

\* Certificates, credentials and vaults (translate_certs.go, consumer.go,
\* kongstate.go): whatever the order of Secrets and maps, each valid one is
\* served once, by the rule that settles a conflict, and a missing or broken
\* one is reported to all who need it and costs nothing else.
CredentialsServed ==
    CertificatesServed /\ CAFailuresTold /\ CredentialsKept /\ CopyIsSanitized /\ OldestVaultServed

\* Plugins and custom entities (kongstate.go, plugin.go, customentity.go): a
\* plugin has an instance for exactly what names it and its configuration from
\* one source, a global one is unambiguous, and an entity that hangs on a
\* plugin refers to something the plugin is attached to.
PluginsServed ==
    PluginsAttached /\ OneSourceOfConfig /\ GlobalPluginsUnambiguous /\ EntitiesReferToAttached

\* The build as a whole (translator.go, kongstate.go, generate.go): what is
\* cached is translated, what is reported as configured is sent, what is sent
\* refers only to what is sent, and it does not depend on the order in which
\* maps are visited.
ContentSound ==
    CachedIsTranslated /\ ConfiguredServed /\ ClientCertificatesLoaded /\ ContentClosed /\ ConfigStable
============================================================================
