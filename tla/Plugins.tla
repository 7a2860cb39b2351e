------------------------------ MODULE Plugins ------------------------------
(***************************************************************************)
(* Kong plugins from KongPlugins and KongClusterPlugins: which entities    *)
(* they are attached to (kongstate/kongstate.go, annotations,              *)
(* util/relations.go) and their configuration (kongstate/plugin.go).       *)
(*                                                                         *)
(* The plugins annotation is a sequence of items, an item the sequence of  *)
(* its parts between colons.  A configuration is a function; a value in a  *)
(* Secret is a record: json and yaml say how it can be read, doc what it   *)
(* says.  The suffix of an instance name is the hash of what it is for,    *)
(* and hashes are assumed not to collide.                                  *)
(***************************************************************************)
EXTENDS BackendRefs, Store, FiniteSetsExt

----------------------------------------------------------------------------
(* References. *)

\* "name" or "namespace:name", further parts are ignored.
ExtractNamespacedKongPluginsFromAnnotations(annotations) ==
    LET items == IF "plugins" \in DOMAIN annotations THEN annotations["plugins"] ELSE <<>>
        given == SelectSeq(items, LAMBDA i : i # <<>>)
    IN [i \in DOMAIN given |-> IF Len(given[i]) > 1 THEN [ns |-> given[i][1], name |-> given[i][2]]
                               ELSE [ns |-> "", name |-> given[i][1]]]

\* Whether a grant lets the referer use a plugin of another namespace.  The
\* grants looked at are those of the referer's own namespace.
isRemotePluginReferenceAllowed(cluster, referer, plugin) ==
    isRefAllowedByGrant(referer.ns, plugin.name, "configuration.konghq.com", "KongPlugin",
                        GetPermittedForReferenceGrantFrom(referer, cluster.grants))

\* The namespace a reference means, if it is allowed.
extractReferredPluginNamespace(cluster, referer, plugin) ==
    CASE plugin.ns = "" -> <<referer.ns>>
      [] plugin.ns # "" /\ isRemotePluginReferenceAllowed(cluster, referer, plugin) -> <<plugin.ns>>
      [] OTHER -> <<>>

Referer(group, kind, ns) == [group |-> group, kind |-> kind, ns |-> ns]

\* What refers to plugins, in the order it is visited: the Services of Kong
\* services, in the order of a Go map, routes by an Ingress made up for the
\* check, consumers and their groups.
ServiceReferences(services) ==
    LET ofService(s) ==
            LET keys == SetToSeq(DOMAIN s.k8sServices)
                k8s == [i \in DOMAIN keys |-> s.k8sServices[keys[i]]]
            IN [i \in DOMAIN k8s |-> [type |-> "service", id |-> <<s.name>>, service |-> s.name,
                                      annotations |-> k8s[i].annotations,
                                      referer |-> Referer("", "Service", k8s[i].ns)]]
               \o [j \in DOMAIN s.routes |-> [type |-> "route", id |-> <<s.routes[j].name>>, service |-> s.name,
                                              annotations |-> s.routes[j].ingress.annotations,
                                              referer |-> Referer("", "", s.routes[j].ingress.ns)]]
    IN FlattenSeq([i \in DOMAIN services |-> ofService(services[i])])

ConsumerReferences(consumers) ==
    [i \in DOMAIN consumers |->
       [type |-> "consumer", id |-> consumers[i].username, annotations |-> consumers[i].annotations,
        referer |-> Referer("configuration.konghq.com", "KongConsumer", consumers[i].ns)]]

GroupReferences(groups) ==
    [i \in DOMAIN groups |->
       [type |-> "group", id |-> <<groups[i].name>>, annotations |-> groups[i].annotations,
        referer |-> Referer("configuration.konghq.com", "KongConsumerGroup", groups[i].ns)]]

NoRelations == [service |-> <<>>, route |-> <<>>, consumer |-> <<>>, group |-> <<>>]

addRelation(cluster, rels, reference, plugin) ==
    LET ns == extractReferredPluginNamespace(cluster, reference.referer, plugin)
        key == <<ns[1], plugin.name>>
        known == IF key \in DOMAIN rels THEN rels[key] ELSE NoRelations
    IN IF ns = <<>> THEN rels
       ELSE (key :> [known EXCEPT ![reference.type] = Append(@, reference.id[1])]) @@ rels

\* The plugins that are referred to and by whom.  A consumer without a
\* username that refers to a plugin has its nil pointer followed: the process
\* panics, which is no relations at all here.
getPluginRelations(cluster, services, consumers, groups) ==
    LET references == ServiceReferences(services) \o ConsumerReferences(consumers) \o GroupReferences(groups)
        plugins(r) == ExtractNamespacedKongPluginsFromAnnotations(r.annotations)
        step(acc, r) == FoldLeft(LAMBDA a, p : addRelation(cluster, a, r, p), acc, plugins(r))
        panics == \E i \in DOMAIN references : references[i].id = <<>> /\ plugins(references[i]) # <<>>
    IN [panics |-> panics, rels |-> IF panics THEN <<>> ELSE FoldLeft(step, <<>>, references)]

\* Mutant: groups are combined although there are consumers.
GroupsBesideConsumers(relations) ==
    LET pairs(type, ids) == FlattenSeq([i \in DOMAIN ids |->
                                [j \in DOMAIN relations.service |-> {<<"service", relations.service[j]>>, <<type, ids[i]>>}]])
    IN pairs("consumer", relations.consumer) \o pairs("group", relations.group)

\* What each instance of a plugin is for: a service or a route, alone or with
\* a consumer, or with a consumer group when there are no consumers.
GetCombinations(relations) ==
    LET tagged(type) == [i \in DOMAIN relations[type] |-> <<type, relations[type][i]>>]
        targets == tagged("service") \o tagged("route")
        users == IF relations.consumer # <<>> THEN tagged("consumer") ELSE tagged("group")
    IN CASE users # <<>> /\ targets # <<>> ->
              FlattenSeq([i \in DOMAIN users |-> [j \in DOMAIN targets |-> {targets[j], users[i]}]])
         [] users # <<>> /\ targets = <<>> -> [i \in DOMAIN users |-> {users[i]}]
         [] OTHER -> [j \in DOMAIN targets |-> {targets[j]}]

----------------------------------------------------------------------------
(* Configuration. *)

\* The value under a key of a Secret, if there is one.
SecretValue(cluster, ref) ==
    IF ref.secret \in DOMAIN cluster.secrets /\ ref.key \in DOMAIN cluster.secrets[ref.secret].values
    THEN <<cluster.secrets[ref.secret].values[ref.key]>> ELSE <<>>

\* JSON, and YAML when it is not.
SecretToConfiguration(cluster, ref) ==
    LET value == SecretValue(cluster, ref)
    IN IF value # <<>> /\ (value[1].json \/ value[1].yaml) THEN <<value[1].doc>> ELSE <<>>

\* A patch must be JSON; one of the root replaces everything.
applyJSONPatchFromNamespacedSecretRef(cluster, config, patch) ==
    LET value == SecretValue(cluster, patch)
    IN CASE value = <<>> -> <<>>
         [] value # <<>> /\ ~value[1].json -> <<>>
         [] OTHER -> <<IF patch.path = "" THEN value[1].doc ELSE (patch.path :> value[1].doc) @@ config>>

\* The patches one after the other; none when one of them fails.
RawConfigurationWithPatchesToConfiguration(cluster, config, patches) ==
    FoldLeft(LAMBDA acc, p : IF acc = <<>> THEN <<>>
                             ELSE applyJSONPatchFromNamespacedSecretRef(cluster, acc[1], p),
             <<config>>, patches)

\* The configuration of a plugin: its own or a Secret's, not both.
PluginConfig(cluster, p) ==
    LET config == RawConfigurationWithPatchesToConfiguration(cluster, p.config, p.patches)
    IN CASE config = <<>> -> <<>>
         [] config # <<>> /\ p.configFrom = <<>> -> config
         [] OTHER -> IF DOMAIN config[1] # {} THEN <<>> ELSE SecretToConfiguration(cluster, p.configFrom[1])

\* A plugin, if it can be configured.  KongPlugins and KongClusterPlugins
\* differ in the namespaces their Secrets are in, which the references have.
kongPluginFromK8SPlugin(cluster, p) ==
    LET with(config) ==
            IF config = <<>> THEN <<>>
            ELSE <<[name |-> p.plugin, config |-> config[1], enabled |-> ~p.disabled,
                    instance |-> p.instance, parent |-> p.uid, for |-> {}]>>
    IN with(PluginConfig(cluster, p))

\* The KongPlugin of the namespace goes before the KongClusterPlugin.
getKongPluginOrKongClusterPlugin(cluster, key) ==
    LET named == SelectSeq(cluster.pluginList, LAMBDA p : p.ns = key[1] /\ p.name = key[2])
    IN IF named # <<>> THEN named ELSE SelectSeq(cluster.clusterPlugins, LAMBDA p : p.name = key[2])

----------------------------------------------------------------------------
(* Plugins. *)

\* What the suffix of an instance name is the hash of: the user of the plugin
\* when it has one.
Hashed(for) ==
    LET users == {x \in for : x[1] \in {"consumer", "group"}}
    IN IF users # {} THEN CHOOSE x \in users : TRUE ELSE CHOOSE x \in for : TRUE

\* An instance name that is taken gets the whole hash.
InstanceName(plugin, for, used) ==
    LET short == <<plugin.instance, "short", Hashed(for)>>
    IN IF plugin.instance = "" THEN <<>>
       ELSE IF short \in used THEN <<plugin.instance, "long", Hashed(for)>> ELSE short

\* The instances of one plugin.
PluginInstances(p, plugin, relations) ==
    LET step(acc, for) ==
            LET name == InstanceName(plugin[1], for, {acc[i].instance : i \in DOMAIN acc})
            IN Append(acc, [plugin[1] EXCEPT !.instance = name, !.for = for])
    IN CASE p = <<>> -> [plugins |-> <<>>, failures |-> {}]
         [] p # <<>> /\ plugin = <<>> -> [plugins |-> <<>>, failures |-> {p[1].uid}]
         [] OTHER -> [plugins |-> FoldLeft(step, <<>>, GetCombinations(relations)), failures |-> {}]

\* One plugin of a name, and none when a second one comes after the first that
\* could be configured.
AddGlobalPlugin(acc, p, plugin) ==
    CASE p.plugin = "" -> acc
      [] p.plugin # "" /\ p.plugin \in DOMAIN acc.res -> [acc EXCEPT !.duplicates = @ \cup {p.plugin}]
      [] OTHER -> IF plugin = <<>> THEN acc ELSE [acc EXCEPT !.res = (p.plugin :> plugin[1]) @@ @]

globalKongClusterPlugins(cluster) ==
    LET unique(all) == {all.res[n] : n \in DOMAIN all.res \ all.duplicates}
    IN unique(FoldLeft(LAMBDA acc, p : AddGlobalPlugin(acc, p, kongPluginFromK8SPlugin(cluster, p)),
                       [res |-> <<>>, duplicates |-> {}], ListGlobalKongClusterPlugins(cluster)))

\* The plugins come in the order of a Go map.
buildPlugins(cluster, rels, order) ==
    LET instances(p, relations) == PluginInstances(p, kongPluginFromK8SPlugin(cluster, p[1]), relations)
        all(built, global) ==
            [plugins |-> FlattenSeq([i \in DOMAIN built |-> built[i].plugins])
                         \o [i \in DOMAIN global |-> [global[i] EXCEPT
                               !.instance = IF @ = "" THEN <<>> ELSE <<@, "global", <<"", "">>>>]],
             failures |-> UNION {built[i].failures : i \in DOMAIN built}]
    IN all([i \in DOMAIN order |->
              instances(getKongPluginOrKongClusterPlugin(cluster, order[i]), rels[order[i]])],
           SetToSeq(globalKongClusterPlugins(cluster)))

============================================================================
