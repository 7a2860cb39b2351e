--------------------------- MODULE FallbackProofs ---------------------------
(***************************************************************************)
(* Lemmas about the operators of module Fallback: what the dependency      *)
(* graph, exclusion and backfilling give, whatever the objects and their   *)
(* references.                                                             *)
(***************************************************************************)
EXTENDS Fallback, TLAPS

-----------------------------------------------------------------------------
(* The dependency graph and what is reached in it. *)

(* An edge runs between present objects, to one that resolves a reference  *)
(* to the other.                                                           *)
LEMMA EdgesOfGraph ==
    ASSUME NEW c \in Caches, NEW e \in CacheToGraph(c)
    PROVE  /\ e[1] \in Present(c) /\ e[2] \in Present(c)
           /\ e[1] \in ResolveDependencies(c, e[2])
<1>1. PICK o \in Present(c) : e \in ResolveDependencies(c, o) \X {o}
  BY DEF CacheToGraph
<1>2. ResolveDependencies(c, o) \subseteq Present(c)
  BY DEF ResolveDependencies
<1> QED
  BY <1>1, <1>2

(* The graph has an edge from every dependency that is present to the      *)
(* object that resolved it.                                                *)
LEMMA GraphOfDependencies ==
    ASSUME NEW c \in Caches, NEW o \in Present(c), NEW d \in ResolveDependencies(c, o)
    PROVE  <<d, o>> \in CacheToGraph(c)
  BY DEF CacheToGraph

(* SubgraphObjects is closed: the dependants of what it finds are found. *)
LEMMA DFSClosed ==
    ASSUME NEW c \in Caches, NEW b \in Present(c),
           NEW e \in CacheToGraph(c), e[1] \in DFS(c, CacheToGraph(c), b)
    PROVE  e[2] \in DFS(c, CacheToGraph(c), b)
  BY EdgesOfGraph DEF DFS, ClosedUnder

(* A search finds the object it starts from. *)
LEMMA DFSContainsStart ==
    ASSUME NEW c, NEW g, NEW b \in Present(c)
    PROVE  b \in DFS(c, g, b)
  BY DEF DFS

(* Only objects of the cache are affected: the search runs on its graph. *)
LEMMA AffectedArePresent ==
    ASSUME NEW c \in Caches, NEW b
    PROVE  AffectedObjects(c, b) \subseteq Present(c)
  BY DEF AffectedObjects, SubgraphObjects, DFS

(* The affected objects are the union of the searches from broken ones. *)
LEMMA AffectedByBroken ==
    ASSUME NEW c \in Caches, NEW b, NEW o \in AffectedObjects(c, b)
    PROVE  \E p \in Present(c) : /\ GetObjectHash(c, p) \in b
                                 /\ o \in DFS(c, CacheToGraph(c), p)
  BY DEF AffectedObjects, SubgraphObjects

(* What a search from a broken object finds is affected, when the object   *)
(* still has the UID it was reported with.                                 *)
LEMMA BrokenAreSearched ==
    ASSUME NEW c \in Caches, NEW b, NEW p \in Present(c), GetObjectHash(c, p) \in b
    PROVE  DFS(c, CacheToGraph(c), p) \subseteq AffectedObjects(c, b)
<1>1. GetObjectHash(c, p)[1] = p
  BY DEF GetObjectHash
<1>2. SubgraphObjects(c, CacheToGraph(c), GetObjectHash(c, p)) = DFS(c, CacheToGraph(c), p)
  BY <1>1 DEF SubgraphObjects
<1> QED
  BY <1>2 DEF AffectedObjects

(* Whoever depends on an affected object is affected. *)
LEMMA AffectedClosed ==
    ASSUME NEW c \in Caches, NEW b, NEW o \in Present(c),
           NEW d \in ResolveDependencies(c, o), d \in AffectedObjects(c, b)
    PROVE  o \in AffectedObjects(c, b)
<1>1. PICK p \in Present(c) : /\ GetObjectHash(c, p) \in b
                              /\ d \in DFS(c, CacheToGraph(c), p)
  BY AffectedByBroken
<1>2. <<d, o>> \in CacheToGraph(c)
  BY GraphOfDependencies
<1>3. o \in DFS(c, CacheToGraph(c), p)
  BY <1>1, <1>2, DFSClosed
<1> QED
  BY <1>1, <1>3, BrokenAreSearched

-----------------------------------------------------------------------------
(* Exclusion. *)

(* Excluding objects from a cache leaves a cache. *)
LEMMA ExcludingIsCache ==
    ASSUME NEW c \in Caches, NEW b
    PROVE  GenerateExcludingBrokenObjects(c, b) \in Caches
  BY DEF GenerateExcludingBrokenObjects, Caches

(* What is left after excluding is what was not affected. *)
LEMMA PresentAfterExcluding ==
    ASSUME NEW c \in Caches, NEW b
    PROVE  Present(GenerateExcludingBrokenObjects(c, b)) = Present(c) \ AffectedObjects(c, b)
  BY DEF GenerateExcludingBrokenObjects, Present

(* What stays after an exclusion refers to the objects it referred to.     *)
LEMMA ExcludingKeepsReferences ==
    ASSUME NEW c \in Caches, NEW b,
           NEW o \in Present(GenerateExcludingBrokenObjects(c, b))
    PROVE  ResolveDependencies(GenerateExcludingBrokenObjects(c, b), o)
               = ResolveDependencies(c, o)
<1> DEFINE f == GenerateExcludingBrokenObjects(c, b)
           affected == AffectedObjects(c, b)
<1>1. Present(f) = Present(c) \ affected
  BY PresentAfterExcluding
<1>2. o \in Present(c) /\ o \notin affected /\ f[o] = c[o] /\ <<o, c[o]>> \in Objects \X Versions
  BY <1>1 DEF GenerateExcludingBrokenObjects, Present, Caches
<1>3. \A d \in ResolveDependencies(c, o) : d \notin affected
  BY <1>2, AffectedClosed
<1> HIDE DEF f, affected
<1>4. ASSUME NEW d \in ResolveDependencies(c, o)
      PROVE  d \in ResolveDependencies(f, o)
  <2>1. d \in Present(f)
    BY <1>1, <1>3 DEF ResolveDependencies
  <2> QED
    BY <1>1, <1>2, <2>1 DEF ResolveDependencies
<1>5. ASSUME NEW d \in ResolveDependencies(f, o)
      PROVE  d \in ResolveDependencies(c, o)
  <2>a. PICK r \in Refs[<<o, c[o]>>] : \E i \in 1..Len(r) :
           r[i] = d /\ \A j \in 1..(i - 1) : r[j] \notin Present(f)
    BY <1>2 DEF ResolveDependencies
  <2>1. PICK i \in 1..Len(r) :
           r[i] = d /\ \A j \in 1..(i - 1) : r[j] \notin Present(f)
    BY <2>a
  <2>2. r \in Seq(Objects) /\ Len(r) \in 1..2
    BY <1>2, FallbackAssumption
  <2>3. ASSUME NEW j \in 1..(i - 1), r[j] \in Present(c)
        PROVE  FALSE
    <3>1. j = 1
      BY <2>2
    <3>2. r[j] \in ResolveDependencies(c, o)
      BY <2>1, <2>2, <2>3, <3>1 DEF ResolveDependencies
    <3> QED
      BY <1>1, <1>3, <2>1, <2>3, <3>2
  <2>4. d \in Present(c)
    BY <1>1 DEF ResolveDependencies
  <2> QED
    BY <2>1, <2>2, <2>3, <2>4 DEF ResolveDependencies
<1> QED
  BY <1>4, <1>5 DEF f

(* What an exclusion takes away is broken or depends on something it takes *)
(* away.                                                                   *)
LEMMA ExcludingIsolates ==
    ASSUME NEW c \in Caches, NEW b, NEW o \in AffectedObjects(c, b)
    PROVE  \/ GetObjectHash(c, o) \in b
           \/ ResolveDependencies(c, o) \cap AffectedObjects(c, b) # {}
<1> DEFINE g == CacheToGraph(c)
<1>1. PICK p \in Present(c) : GetObjectHash(c, p) \in b /\ o \in DFS(c, g, p)
  BY AffectedByBroken
<1>2. DFS(c, g, p) \subseteq AffectedObjects(c, b)
  BY <1>1, BrokenAreSearched
<1>3. CASE o = p
  BY <1>1, <1>3
<1>4. CASE o # p /\ \E e \in g : e[1] \in DFS(c, g, p) /\ e[2] = o
  BY <1>2, <1>4, EdgesOfGraph
<1>5. CASE o # p /\ ~\E e \in g : e[1] \in DFS(c, g, p) /\ e[2] = o
  <2> DEFINE S == DFS(c, g, p) \ {o}
  <2>1. S \in SUBSET Present(c) /\ p \in S
    BY <1>5, DFSContainsStart DEF DFS
  <2>2. ClosedUnder(g, S)
    BY <1>5, DFSClosed DEF ClosedUnder
  <2>3. DFS(c, g, p) \subseteq S
    BY <2>1, <2>2 DEF DFS
  <2> QED
    BY <1>1, <2>3
<1> QED
  BY <1>3, <1>4, <1>5

-----------------------------------------------------------------------------
(* Backfilling. *)

(* Backfilling from a last valid cache, or from none, gives a cache. *)
LEMMA BackfillingIsCache ==
    ASSUME NEW c \in Caches, NEW l \in Caches \cup {NoCache}, NEW b
    PROVE  GenerateBackfillingBrokenObjects(c, l, b) \in Caches
  BY ExcludingIsCache DEF GenerateBackfillingBrokenObjects, Caches

(* An affected object is what it was in the last valid cache, or gone. *)
LEMMA BackfillingDrops ==
    ASSUME NEW c \in Caches, NEW l \in Caches \cup {NoCache}, NEW b,
           NEW o \in AffectedObjects(c, b)
    PROVE  GenerateBackfillingBrokenObjects(c, l, b)[o]
               \in {Absent, IF l = NoCache THEN Absent ELSE l[o]}
<1>1. o \in Objects
  BY AffectedArePresent DEF Present
<1>2. GenerateExcludingBrokenObjects(c, b)[o] = Absent
  BY <1>1 DEF GenerateExcludingBrokenObjects
<1> QED
  BY <1>1, <1>2 DEF GenerateBackfillingBrokenObjects

(* An affected object that the last valid cache has under the same hash is *)
(* backfilled.                                                             *)
LEMMA BackfillsSameHash ==
    ASSUME NEW c \in Caches, NEW l \in Caches, NEW b,
           NEW o \in AffectedObjects(c, b), l[o] # Absent,
           GetObjectHash(l, o) = GetObjectHash(c, o)
    PROVE  o \in ObjectsToBackfill(c, l, b)
<1> DEFINE g == CacheToGraph(l)
<1>1. o \in Present(l)
  BY AffectedArePresent DEF Present
<1>2. GetObjectHash(c, o)[1] = o
  BY DEF GetObjectHash
<1>3. SubgraphObjects(l, g, GetObjectHash(c, o)) = DFS(l, g, o)
  BY <1>1, <1>2 DEF SubgraphObjects
<1>4. o \in DFS(l, g, o)
  BY <1>1, DFSContainsStart
<1> QED
  BY <1>3, <1>4 DEF ObjectsToBackfill

(* When the last valid cache has all the affected objects and agrees on    *)
(* the others, backfilling gives that cache back.                          *)
LEMMA BackfillingRestores ==
    ASSUME NEW c \in Caches, NEW l \in Caches, NEW b,
           \A o \in Objects \ AffectedObjects(c, b) : l[o] = c[o],
           \A o \in AffectedObjects(c, b) : /\ l[o] # Absent
                                            /\ GetObjectHash(l, o) = GetObjectHash(c, o)
    PROVE  GenerateBackfillingBrokenObjects(c, l, b) = l
<1> DEFINE f == GenerateBackfillingBrokenObjects(c, l, b)
<1>1. l # NoCache
  BY NoCacheAssumption
<1>2. ASSUME NEW o \in Objects
      PROVE  f[o] = l[o]
  <2>1. CASE o \in AffectedObjects(c, b)
    BY <1>1, <2>1, BackfillsSameHash DEF GenerateBackfillingBrokenObjects
  <2>2. CASE o \notin AffectedObjects(c, b)
    BY <1>1, <2>2 DEF GenerateBackfillingBrokenObjects, GenerateExcludingBrokenObjects
  <2> QED
    BY <2>1, <2>2
<1>3. f \in Caches
  BY BackfillingIsCache
<1> HIDE DEF f
<1>4. f = [o \in Objects |-> f[o]] /\ l = [o \in Objects |-> l[o]]
  BY <1>3 DEF Caches
<1> QED
  BY <1>2, <1>4 DEF f
=============================================================================
