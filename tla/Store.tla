------------------------------- MODULE Store -------------------------------
(***************************************************************************)
(* What the translator reads (store/store.go) and which objects belong to  *)
(* the controller's IngressClass (annotations/annotations.go).             *)
(*                                                                         *)
(* A cluster holds one sequence per kind for what is listed, in the order  *)
(* of a Go map, and one function on pairs of namespace and name for what   *)
(* is looked up; and class, the IngressClass of the controller (exists,    *)
(* default, parameters).  Listed objects have a class, "" for none, and a  *)
(* rank of their namespace and name.                                       *)
(***************************************************************************)
EXTENDS Integers, Sequences, SequencesExt, FiniteSets, TLC

\* The name of the controller's class.
ingressClass == "kong"

----------------------------------------------------------------------------
(* Classes. *)

validIngress(value, handling) ==
    CASE handling = "ignore" -> TRUE
      [] handling = "exactOrEmpty" -> value \in {"", ingressClass}
      [] handling = "exact" -> value = ingressClass

\* Objects without a class are served while the controller's class is the
\* default one.
getIngressClassHandling(cluster) ==
    IF cluster.class.exists /\ cluster.class.default THEN "exactOrEmpty" ELSE "exact"

\* What the controllers keep in the cache.  An object is annotated when it has
\* the annotation at all, be it empty; specClass is the class name of an
\* Ingress or the controller name of a custom entity.
IsIngressClassEmpty(o) == ~o.annotated /\ (o.kind = "Ingress" => o.specClass = <<>>)

MatchesIngressClass(o, isDefault) ==
    \/ isDefault /\ IsIngressClassEmpty(o)
    \/ o.specClass = <<ingressClass>>
    \/ o.class = ingressClass

OfClass(cluster, objects) ==
    SelectSeq(objects, LAMBDA o : validIngress(o.class, getIngressClassHandling(cluster)))

ByRank(objects) == SortSeq(objects, LAMBDA a, b : a.rank < b.rank)

----------------------------------------------------------------------------
(* Lists. *)

\* The annotation goes before the class name of the spec; specClass is
\* optional.
ListIngressesV1(cluster) ==
    LET served(i) == CASE i.class # "" -> validIngress(i.class, "exact")
                       [] i.class = "" /\ i.specClass # <<>> -> validIngress(i.specClass[1], "exact")
                       [] OTHER -> cluster.class.exists /\ cluster.class.default
    IN ByRank(SelectSeq(cluster.ingresses, served))

ListTCPIngresses(cluster) == ByRank(OfClass(cluster, cluster.tcpIngresses))

ListUDPIngresses(cluster) == ByRank(OfClass(cluster, cluster.udpIngresses))

ListKongConsumers(cluster) == OfClass(cluster, cluster.consumers)

ListKongConsumerGroups(cluster) == OfClass(cluster, cluster.consumerGroups)

ListKongClusterPlugins(cluster) == OfClass(cluster, cluster.clusterPlugins)

ListGlobalKongClusterPlugins(cluster) ==
    SelectSeq(ListKongClusterPlugins(cluster), LAMBDA p : p.global)

ListCACerts(cluster) == OfClass(cluster, cluster.caSecrets)

ListKongVaults(cluster) == OfClass(cluster, cluster.vaults)

\* The class of a custom entity is the controller name of its spec.
ListKongCustomEntities(cluster) == OfClass(cluster, cluster.customEntities)

\* The slices with the label of the Service, in its namespace.
GetEndpointSlicesForService(cluster, ns, name) ==
    SelectSeq(cluster.slices, LAMBDA s : s.service = name /\ s.ns = ns)

----------------------------------------------------------------------------
(* Parameters of the class. *)

\* The parameters an IngressClass refers to, if the reference is good: a
\* class without a reference has empty ones.
GetIngressClassParametersV1Alpha1(cluster) ==
    LET ref == cluster.class.parameters
    IN CASE ref = <<>> -> <<[serviceUpstream |-> FALSE]>>
         [] ref # <<>> /\ ref[1].kong /\ ref[1].namespaced ->
              IF ref[1].key \in DOMAIN cluster.classParameters
              THEN <<cluster.classParameters[ref[1].key]>> ELSE <<>>
         [] OTHER -> <<>>

getIngressClassParametersOrDefault(cluster) ==
    IF cluster.class.exists THEN GetIngressClassParametersV1Alpha1(cluster) ELSE <<>>
============================================================================
