----------------------- MODULE FallbackGeneratorProofs -----------------------
(***************************************************************************)
(* What FallbackGenerator promises, for every set of objects, every        *)
(* reference structure and every history of caches.                        *)
(***************************************************************************)
EXTENDS FallbackGenerator, FallbackProofs

-----------------------------------------------------------------------------
(* The history of caches. *)

(* The fallback is what the generator returns for the caches as they are:  *)
(* no step changes one of them and leaves the fallback.                    *)
FallbackIsCurrent ==
    /\ mode = "exclude" => fallback = GenerateExcludingBrokenObjects(current, broken)
    /\ mode = "backfill" =>
         fallback = GenerateBackfillingBrokenObjects(current, lastValid, broken)

IInv == TypeOK /\ FallbackIsCurrent

(* The invariant holds before anything is generated. *)
LEMMA InitIInv == Init => IInv
  BY DEF Init, IInv, TypeOK, FallbackIsCurrent, Caches

(* Every update of the cache, rejection and generated fallback preserves   *)
(* the invariant.                                                          *)
LEMMA NextIInv == IInv /\ [Next]_vars => IInv'
<1> SUFFICES ASSUME IInv, [Next]_vars
             PROVE  IInv'
  OBVIOUS
<1> USE DEF IInv, FallbackIsCurrent
<1>1. ASSUME NEW o \in Objects, NEW v \in Versions \cup {Absent}, Edit(o, v)
      PROVE  IInv'
  BY <1>1 DEF Edit, NoFallback, TypeOK, Caches
<1>2. CASE Sync
  BY <1>2 DEF Sync, NoFallback, TypeOK
<1>3. ASSUME NEW b \in SUBSET Hashes(current)
      PROVE  b \subseteq Objects \X {UidOf[ov] : ov \in Objects \X Versions}
  <2>1. ASSUME NEW o \in Present(current)
        PROVE  GetObjectHash(current, o)
                   \in Objects \X {UidOf[ov] : ov \in Objects \X Versions}
    <3>1. o \in Objects /\ <<o, current[o]>> \in Objects \X Versions
      BY DEF Present, TypeOK, Caches
    <3> QED
      BY <3>1 DEF GetObjectHash
  <2> QED
    BY <2>1 DEF Hashes
<1>4. ASSUME NEW b \in SUBSET Hashes(current), GenerateExcluding(b)
      PROVE  IInv'
  BY <1>3, <1>4, ExcludingIsCache DEF GenerateExcluding, TypeOK
<1>5. ASSUME NEW b \in SUBSET Hashes(current), GenerateBackfilling(b)
      PROVE  IInv'
  BY <1>3, <1>5, BackfillingIsCache DEF GenerateBackfilling, TypeOK
<1>6. CASE Recover
  BY <1>6 DEF Recover, NoFallback, TypeOK
<1>7. CASE UNCHANGED vars
  BY <1>7 DEF vars, TypeOK
<1> QED
  BY <1>1, <1>2, <1>4, <1>5, <1>6, <1>7 DEF Next

(* Every cache the generator returns is a cache, the lists of broken       *)
(* objects name objects, and nothing else is ever kept.                    *)
THEOREM TypeCorrect == Spec => []TypeOK
<1>1. IInv => TypeOK
  BY DEF IInv
<1> QED
  BY InitIInv, NextIInv, <1>1, PTL DEF Spec

(* GenerateExcludingBrokenObjects never leaves a dangling reference and    *)
(* never makes a plugin annotation fall through from an excluded           *)
(* KongPlugin to the KongClusterPlugin of the same name, whatever the      *)
(* objects refer to.                                                       *)
THEOREM KeepsReferences == Spec => []ExclusionKeepsReferences
<1>1. IInv => ExclusionKeepsReferences
  BY ExcludingKeepsReferences DEF IInv, TypeOK, FallbackIsCurrent, ExclusionKeepsReferences
<1> QED
  BY InitIInv, NextIInv, <1>1, PTL DEF Spec

(* GenerateExcludingBrokenObjects takes away nothing but the broken        *)
(* objects and, transitively, what depends on them.                        *)
THEOREM Isolates == Spec => []ExclusionIsolates
<1>1. ASSUME IInv, mode = "exclude"
      PROVE  Present(current) \ Present(fallback) = AffectedObjects(current, broken)
  BY <1>1, PresentAfterExcluding, AffectedArePresent DEF IInv, TypeOK, FallbackIsCurrent
<1>2. IInv => ExclusionIsolates
  BY <1>1, ExcludingIsolates DEF IInv, TypeOK, ExclusionIsolates
<1> QED
  BY InitIInv, NextIInv, <1>2, PTL DEF Spec

(* GenerateBackfillingBrokenObjects never returns an affected object in    *)
(* the version that was rejected with it: it is the last accepted one, or  *)
(* none.                                                                   *)
THEOREM DropsRejected == Spec => []BackfillDropsRejected
<1>1. IInv => BackfillDropsRejected
  BY BackfillingDrops
     DEF IInv, TypeOK, FallbackIsCurrent, BackfillDropsRejected, Affected
<1> QED
  BY InitIInv, NextIInv, <1>1, PTL DEF Spec

(* GenerateBackfillingBrokenObjects restores the last accepted cache when  *)
(* only the affected objects changed since.                                *)
THEOREM RestoresLastValid == Spec => []BackfillRestoresLastValid
<1>1. IInv => BackfillRestoresLastValid
  BY BackfillingRestores
     DEF IInv, TypeOK, FallbackIsCurrent, BackfillRestoresLastValid, Affected
<1> QED
  BY InitIInv, NextIInv, <1>1, PTL DEF Spec
=============================================================================
