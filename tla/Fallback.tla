------------------------------ MODULE Fallback ------------------------------
(***************************************************************************)
(* The fallback configuration generator (internal/dataplane/fallback).     *)
(* When a gateway rejects a configuration, the objects it blames are       *)
(* removed from a copy of the object cache together with everything that   *)
(* depends on them, and optionally replaced by what the last valid cache   *)
(* held.  All of it is a pure function of caches.                          *)
(*                                                                         *)
(* A cache maps an object key (kind, namespace and name: the key of the    *)
(* cache stores) to what is stored under it, an element of Versions, or to *)
(* Absent.  A version stands for the whole object: its spec, its UID       *)
(* (UidOf) and the objects it refers to (Refs).  A reference is the        *)
(* sequence of keys the resolvers look up, in order, until one exists: one *)
(* key for a Service or a Secret, the namespaced KongPlugin and then the   *)
(* KongClusterPlugin for a plugin annotation.                              *)
(***************************************************************************)
EXTENDS Naturals, Sequences, FiniteSets

CONSTANTS
    Objects,    \* keys of cached objects
    Versions,   \* what an object may be
    Absent,     \* no object under the key
    Refs,       \* Refs[<<o, v>>]: the references made by version v of o
    UidOf,      \* UidOf[<<o, v>>]: the UID of version v of o
    NoCache     \* nil *CacheStores

ASSUME FallbackAssumption ==
    /\ Absent \notin Versions
    /\ Refs \in [Objects \X Versions -> SUBSET Seq(Objects)]
    /\ \A ov \in Objects \X Versions : \A r \in Refs[ov] : Len(r) \in 1..2
    /\ DOMAIN UidOf = Objects \X Versions

Caches == [Objects -> Versions \cup {Absent}]

ASSUME NoCacheAssumption == NoCache \notin Caches

-----------------------------------------------------------------------------
Present(c) == {o \in Objects : c[o] # Absent}

(* The vertex of o in the graph of c. *)
GetObjectHash(c, o) == <<o, UidOf[<<o, c[o]>>]>>

(* The objects of c that o refers to: for each of its references, the      *)
(* first key of the lookup order that exists.                              *)
ResolveDependencies(c, o) ==
    {d \in Present(c) :
        \E r \in Refs[<<o, c[o]>>] : \E i \in 1..Len(r) :
            /\ r[i] = d
            /\ \A j \in 1..(i - 1) : r[j] \notin Present(c)}

(* The edges of the graph run from a dependency to its dependants. *)
CacheToGraph(c) == UNION {ResolveDependencies(c, o) \X {o} : o \in Present(c)}

ClosedUnder(g, S) == \A e \in g : e[1] \in S => e[2] \in S

(* What a depth-first search of g from o visits: o and, for every vertex   *)
(* visited, its dependants; nothing else.                                  *)
DFS(c, g, o) ==
    LET closed == {S \in SUBSET Present(c) : o \in S /\ ClosedUnder(g, S)}
    IN {p \in Present(c) : \A S \in closed : p \in S}

(* Empty when the hash, UID included, is not a vertex of the graph. *)
SubgraphObjects(c, g, hash) ==
    LET o == hash[1]
    IN IF o \in Present(c) /\ GetObjectHash(c, o) = hash THEN DFS(c, g, o) ELSE {}

(* The broken objects that are in the cache, and all their dependants. *)
AffectedObjects(c, broken) ==
    LET g == CacheToGraph(c)
    IN UNION {SubgraphObjects(c, g, hash) : hash \in broken}

(* Mutant: the dependants of a broken object stay. *)
GenerateKeepingDependants(c, broken) ==
    [o \in Objects |->
        IF o \in Present(c) /\ GetObjectHash(c, o) \in broken THEN Absent ELSE c[o]]

GenerateExcludingBrokenObjects(c, broken) ==
    LET affected == AffectedObjects(c, broken)
    IN [o \in Objects |-> IF o \in affected THEN Absent ELSE c[o]]

(* What is added back: for every affected object found in the last valid   *)
(* cache under the same hash, that object and its dependants there.        *)
ObjectsToBackfill(c, lastValid, broken) ==
    LET g == CacheToGraph(lastValid)
    IN UNION {SubgraphObjects(lastValid, g, GetObjectHash(c, o)) :
                 o \in AffectedObjects(c, broken)}

(* Mutant: the affected objects are not excluded first. *)
GenerateOverlaying(c, lastValid, broken) ==
    IF lastValid = NoCache
      THEN GenerateExcludingBrokenObjects(c, broken)
      ELSE LET backfilled == ObjectsToBackfill(c, lastValid, broken)
           IN [o \in Objects |-> IF o \in backfilled THEN lastValid[o] ELSE c[o]]

GenerateBackfillingBrokenObjects(c, lastValid, broken) ==
    IF lastValid = NoCache
      THEN GenerateExcludingBrokenObjects(c, broken)
      ELSE LET backfilled == ObjectsToBackfill(c, lastValid, broken)
               excluded == GenerateExcludingBrokenObjects(c, broken)
           IN [o \in Objects |->
                 IF o \in backfilled THEN lastValid[o] ELSE excluded[o]]
=============================================================================
