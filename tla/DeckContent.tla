---------------------------- MODULE DeckContent ----------------------------
(***************************************************************************)
(* The declarative configuration of a Kong state (deckgen/generate.go,     *)
(* deckgen/deckgen.go).                                                    *)
(*                                                                         *)
(* A list that is sorted by a key is the function from the keys to the     *)
(* elements that have them, in the order they came: that is what a stable  *)
(* sort leaves of the order given.                                         *)
(***************************************************************************)
EXTENDS Integers, Sequences, SequencesExt, FiniteSets, TLC

SortedBy(list, key(_)) ==
    [k \in {key(list[i]) : i \in DOMAIN list} |-> SelectSeq(list, LAMBDA x : key(x) = k)]

\* Settings that are not given.
fillRoute(route, expressionRoutes) ==
    [route EXCEPT !.settings = @ @@ ("https_redirect_status_code" :> "426")
                               @@ (IF expressionRoutes THEN <<>> ELSE "path_handling" :> "v0")]

fillUpstream(upstream) == [upstream EXCEPT !.settings = @ @@ ("algorithm" :> "round-robin")]

\* A plugin whose schema is not known stays as it is.  Schemas give the
\* defaults of a plugin, those of "enabled" and "protocols" among them.
fillPlugin(plugin, schemas) ==
    IF plugin.name \notin DOMAIN schemas THEN plugin
    ELSE [plugin EXCEPT !.config = @ @@ schemas[plugin.name]]

\* Mutant: plugins are sorted by their name only.
PluginNameOnly(plugin) == <<plugin.name>>

\* The key plugins are sorted by.
PluginString(plugin) == <<plugin.name, plugin.for>>

\* The identifier, the pair and the SNIs of a certificate; not its tags.
GetFCertificateFromKongCert(certificate) ==
    [id |-> certificate.id, pair |-> certificate.pair, key |-> certificate.key, snis |-> certificate.snis]

PluginContents(plugins, params) ==
    LET filled == [i \in DOMAIN plugins |-> fillPlugin(plugins[i], params.schemas)]
    IN SortedBy(filled, LAMBDA p : p.name)

\* The plugins of a service and of its routes are sorted by name only.
ServiceContent(service, params) ==
    LET route(r) == [name |-> r.name, settings |-> fillRoute(r, params.expressionRoutes).settings,
                     plugins |-> PluginContents(r.plugins, params)]
        routes == [i \in DOMAIN service.routes |-> route(service.routes[i])]
    IN [name |-> service.name, host |-> service.host, port |-> service.port, protocol |-> service.protocol,
        clientCertificate |-> service.clientCertificate, tags |-> service.tags,
        plugins |-> PluginContents(service.plugins, params),
        routes |-> SortedBy(routes, LAMBDA r : r.name)]

\* Targets are sorted by their address, of which there is one each.
UpstreamContent(upstream) ==
    [name |-> upstream.name, settings |-> fillUpstream(upstream).settings, targets |-> upstream.targets]

\* Consumers without a username are left out.
ConsumerContent(consumers) ==
    LET named == SelectSeq(consumers, LAMBDA c : c.username # <<>>)
    IN SortedBy(named, LAMBDA c : c.username)

EmptyLists == [services |-> <<>>, plugins |-> <<>>, groups |-> <<>>, upstreams |-> <<>>, certificates |-> <<>>,
               caCertificates |-> <<>>, licenses |-> <<>>, consumers |-> <<>>, vaults |-> <<>>]

IsContentEmpty(content) == \A f \in DOMAIN EmptyLists : DOMAIN content[f] = {}

StubUpstream == [name |-> "kong", settings |-> <<>>, targets |-> <<>>]

ToDeckContent(state, params) ==
    LET services == [i \in DOMAIN state.services |-> ServiceContent(state.services[i], params)]
        plugins == [i \in DOMAIN state.plugins |-> fillPlugin(state.plugins[i], params.schemas)]
        upstreams == [i \in DOMAIN state.upstreams |-> UpstreamContent(state.upstreams[i])]
        certificates == [i \in DOMAIN state.certificates |-> GetFCertificateFromKongCert(state.certificates[i])]
        content == [services |-> SortedBy(services, LAMBDA s : s.name),
                    plugins |-> SortedBy(plugins, PluginString),
                    groups |-> SortedBy(state.groups, LAMBDA g : g.name),
                    upstreams |-> SortedBy(upstreams, LAMBDA u : u.name),
                    certificates |-> SortedBy(certificates, LAMBDA c : c.pair),
                    caCertificates |-> SortedBy(state.caCertificates, LAMBDA c : c.cert),
                    licenses |-> SortedBy(state.licenses, LAMBDA l : l),
                    consumers |-> ConsumerContent(state.consumers),
                    vaults |-> SortedBy(state.vaults, LAMBDA v : v.prefix)]
    IN IF params.stub /\ IsContentEmpty(content)
       THEN [content EXCEPT !.upstreams = ("kong" :> <<StubUpstream>>)]
       ELSE content
============================================================================
