-------------------------- MODULE FallbackGenerator --------------------------
(***************************************************************************)
(* The generator of module Fallback in the history it is used in: the      *)
(* cache changes, is accepted by the gateways or rejected because of some  *)
(* of its objects, and the cache accepted last, be it a full cache or a    *)
(* fallback, is what the next fallback is backfilled from.                 *)
(***************************************************************************)
EXTENDS Fallback

VARIABLES
    current,    \* the cache snapshot
    lastValid,  \* KongClient.lastValidCacheSnapshot
    broken,     \* hashes of the objects the gateways blame
    mode,       \* how the fallback was generated
    fallback    \* the cache generated for current and broken, or NoCache

vars == <<current, lastValid, broken, mode, fallback>>

Hashes(c) == {GetObjectHash(c, o) : o \in Present(c)}

TypeOK ==
    /\ current \in Caches
    /\ lastValid \in Caches \cup {NoCache}
    /\ broken \subseteq Objects \X {UidOf[ov] : ov \in Objects \X Versions}
    /\ mode \in {"none", "exclude", "backfill"}
    /\ fallback \in Caches \cup {NoCache}

Init ==
    /\ current = [o \in Objects |-> Absent]
    /\ lastValid = NoCache
    /\ broken = {} /\ mode = "none" /\ fallback = NoCache

NoFallback == broken' = {} /\ mode' = "none" /\ fallback' = NoCache

(* UpdateObject or DeleteObject. *)
Edit(o, v) ==
    /\ current' = [current EXCEPT ![o] = v]
    /\ NoFallback
    /\ UNCHANGED lastValid

(* The gateways accept the cache, and it is preserved. *)
Sync ==
    /\ lastValid' = current
    /\ NoFallback
    /\ UNCHANGED current

GenerateExcluding(b) ==
    /\ mode = "none"
    /\ broken' = b /\ mode' = "exclude"
    /\ fallback' = GenerateExcludingBrokenObjects(current, b)
    /\ UNCHANGED <<current, lastValid>>

GenerateBackfilling(b) ==
    /\ mode = "none"
    /\ broken' = b /\ mode' = "backfill"
    /\ fallback' = GenerateBackfillingBrokenObjects(current, lastValid, b)
    /\ UNCHANGED <<current, lastValid>>

(* The gateways accept the fallback, and it is preserved. *)
Recover ==
    /\ mode = "backfill"
    /\ lastValid' = fallback
    /\ NoFallback
    /\ UNCHANGED current

Next ==
    \/ \E o \in Objects, v \in Versions \cup {Absent} : Edit(o, v)
    \/ Sync
    \/ \E b \in SUBSET Hashes(current) \ {{}} :
          GenerateExcluding(b) \/ GenerateBackfilling(b)
    \/ Recover

Spec == Init /\ [][Next]_vars

-----------------------------------------------------------------------------
(* Properties. *)

Affected == AffectedObjects(current, broken)

(* Excluding leaves no dangling reference and rebinds none: what stays     *)
(* resolves its references, the prioritised plugin lookup included, to the *)
(* very objects it resolved them to before.                                *)
ExclusionKeepsReferences ==
    mode = "exclude" =>
        \A o \in Present(fallback) :
            ResolveDependencies(fallback, o) = ResolveDependencies(current, o)

(* Excluding takes away the broken objects that are in the cache and no    *)
(* object but those that depend on one: the isolation of failure domains   *)
(* the feature is for.                                                     *)
ExclusionIsolates ==
    mode = "exclude" =>
        \A o \in Present(current) \ Present(fallback) :
            \/ GetObjectHash(current, o) \in broken
            \/ ResolveDependencies(current, o) \cap (Present(current) \ Present(fallback)) # {}

(* An object affected by a rejection is never sent again as it was         *)
(* rejected, unless it was part of the last accepted cache.                *)
BackfillDropsRejected ==
    mode = "backfill" =>
        \A o \in Affected :
            fallback[o] \in {Absent, IF lastValid = NoCache THEN Absent ELSE lastValid[o]}

(* When only the affected objects changed since the last accepted cache,   *)
(* and none of them was recreated, backfilling restores that cache.        *)
BackfillRestoresLastValid ==
    /\ mode = "backfill" /\ lastValid # NoCache
    /\ \A o \in Objects \ Affected : lastValid[o] = current[o]
    /\ \A o \in Affected : /\ lastValid[o] # Absent
                           /\ GetObjectHash(lastValid, o) = GetObjectHash(current, o)
    => fallback = lastValid
=============================================================================
