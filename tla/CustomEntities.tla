--------------------------- MODULE CustomEntities ---------------------------
(***************************************************************************)
(* Custom entities and the references they get through a plugin            *)
(* (kongstate/kongstate.go: FillCustomEntities; kongstate/customentity.go).*)
(*                                                                         *)
(* A KongCustomEntity has a type, a rank of namespace and name, its fields *)
(* (a function; json is FALSE when they cannot be read) and an optional    *)
(* parentRef.  Schemas is a function from types to what Kong answers: a    *)
(* sequence of fields, each with a name, a type and a reference.  The      *)
(* identifier of an entity follows from its workspace and name; what has   *)
(* no name has none.  An empty namespace of a parentRef is an absent one.  *)
(***************************************************************************)
EXTENDS Plugins

IsKnownEntityType(type) ==
    type \in {"services", "routes", "upstreams", "targets", "consumers", "consumer_groups", "plugins"}

\* A later definition of a field replaces an earlier one.
ExtractEntityFieldDefinitions(schema) ==
    FoldLeft(LAMBDA acc, f : (f.name :> [type |-> f.type, reference |-> f.reference]) @@ acc, <<>>, schema)

\* The schema of a type is asked for once: then it is in the collection.
fetchEntitySchema(schemas, collections, type) ==
    IF type \in DOMAIN collections THEN <<collections[type].schema>>
    ELSE IF type \in DOMAIN schemas THEN <<ExtractEntityFieldDefinitions(schemas[type])>> ELSE <<>>

\* What refers to each plugin, as in getPluginRelations but for groups, and the
\* service of each route that refers to one.
getPluginRelatedEntitiesRef(cluster, services, consumers) ==
    LET references == ServiceReferences(services) \o ConsumerReferences(consumers)
        add(acc, r, p) ==
            LET ns == extractReferredPluginNamespace(cluster, r.referer, p)
                key == <<ns[1], p.name>>
                known == IF key \in DOMAIN acc THEN acc[key] ELSE NoRelations
            IN IF ns = <<>> THEN acc ELSE (key :> [known EXCEPT ![r.type] = Append(@, r.id)]) @@ acc
        step(acc, r) == FoldLeft(LAMBDA a, p : add(a, r, p), acc,
                                 ExtractNamespacedKongPluginsFromAnnotations(r.annotations))
        owned == SelectSeq(ServiceReferences(services), LAMBDA r :
                    r.type = "route" /\ ExtractNamespacedKongPluginsFromAnnotations(r.annotations) # <<>>)
    IN [related |-> FoldLeft(step, <<>>, references),
        routeAttachedService |-> FoldLeft(LAMBDA acc, r : (r.id[1] :> r.service) @@ acc, <<>>, owned)]

\* The identifiers of those that have a name.
FilledIDs(type, names) ==
    LET named == SelectSeq(names, LAMBDA n : n # <<>>)
    IN [i \in DOMAIN named |-> <<type, named[i][1]>>]

\* The services referred to, or those of the routes referred to.
getServiceIDFromPluginRels(rels, routeAttachedService) ==
    IF rels.service # <<>> THEN FilledIDs("service", rels.service)
    ELSE FilledIDs("service", [i \in DOMAIN rels.route |-> <<routeAttachedService[rels.route[i][1]]>>])

\* The foreign fields of an entity, filled with the first entity its plugin is
\* attached to.
fillCustomEntityForeignFields(refs, entity, schema) ==
    LET parent == entity.parentRef[1]
        key == <<OrElse(parent.ns, entity.ns), parent.name>>
        usable == entity.parentRef # <<>> /\ parent.group = <<"configuration.konghq.com">>
                  /\ parent.kind \in {<<"KongPlugin">>, <<"KongClusterPlugin">>}
        ids(reference) == CASE reference = "services" ->
                                 getServiceIDFromPluginRels(refs.related[key], refs.routeAttachedService)
                            [] reference = "routes" -> FilledIDs("route", refs.related[key].route)
                            [] reference = "consumers" -> FilledIDs("consumer", refs.related[key].consumer)
                            [] OTHER -> <<>>
        foreign == {f \in DOMAIN schema : schema[f].type = "foreign" /\ ids(schema[f].reference) # <<>>}
    IN IF usable /\ key \in DOMAIN refs.related
       THEN [f \in foreign |-> ids(schema[f].reference)[1]] @@ entity.fields
       ELSE entity.fields

\* The entities of each type, in the order of namespace and name.
FillCustomEntities(cluster, schemas, services, consumers) ==
    LET refs == getPluginRelatedEntitiesRef(cluster, services, consumers)
        step(acc, e) ==
            LET schema == fetchEntitySchema(schemas, acc.collections, e.type)
                old == IF e.type \in DOMAIN acc.collections THEN acc.collections[e.type].entities ELSE <<>>
                new == [fields |-> fillCustomEntityForeignFields(refs, e, schema[1]), uid |-> e.uid, rank |-> e.rank]
            IN IF IsKnownEntityType(e.type) \/ schema = <<>> \/ ~e.json
               THEN [acc EXCEPT !.failures = @ \cup {e.uid}]
               ELSE [acc EXCEPT !.collections =
                       (e.type :> [schema |-> schema[1], entities |-> ByRank(Append(old, new))]) @@ @]
    IN FoldLeft(step, [collections |-> <<>>, failures |-> {}], ListKongCustomEntities(cluster))
============================================================================
