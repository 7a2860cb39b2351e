------------------------- MODULE MCKongClientModes -------------------------
(***************************************************************************)
(* Small instances of KongClient for TLC, one per way to run it, and of    *)
(* the generator of its fallback configurations.  A behaviour is one of a  *)
(* single scenario: translating stores that change meanwhile, backfilling  *)
(* with incomplete blame and lost answers, fallbacks by exclusion, or the  *)
(* generator alone.                                                        *)
(***************************************************************************)
EXTENDS Integers, Sequences, FiniteSets, TLC, Graphs

CONSTANTS
    Scenarios,   \* those this run is about
    svc, route, plugin, cplugin, v1, v2, u1, u2, g1,
    Versions, Absent, NoCache, Nil, Initial, Partial

VARIABLES
    scenario,
    (* KongClient *)
    cluster, written, loaded, konnectLoaded, faults, cache, ready, sha, konnectSHA, lastValidState,
    lastValidCache, lastSnapshot, SHAs, configStatus, reportsFilter, configApplied, pc, phase, parsed,
    toRead, target, nClients, clients, nChosen, toSend, held, old, err, broken, konnectErr, shasChanged,
    (* FallbackGenerator *)
    current, lastValid, blamed, mode, fallback

kongVars == <<cluster, written, loaded, konnectLoaded, faults, cache, ready, sha, konnectSHA,
              lastValidState, lastValidCache, lastSnapshot, SHAs, configStatus, reportsFilter,
              configApplied, pc, phase, parsed, toRead, target, nClients, clients, nChosen, toSend,
              held, old, err, broken, konnectErr, shasChanged>>
generatorVars == <<current, lastValid, blamed, mode, fallback>>
vars == <<scenario, kongVars, generatorVars>>

(* A route whose backend is a Service, until its second version drops it.  *)
Both == {svc, route}
BothRefs == [ov \in Both \X Versions |-> IF ov = <<route, v1>> THEN {<<svc>>} ELSE {}]
BothUids == [ov \in Both \X Versions |-> u1]
BothRejected == Both \X {v2}

(* The Service is rejected, and the route not translated.                  *)
OneRejected == {<<svc, v2>>}
OneUntranslatable == {<<route, v2>>}

(* A plugin that exists in the namespace or cluster-wide, a Service that   *)
(* uses it, and a route that points to the Service in its first version    *)
(* and uses the plugin in its second.  Replacing the Service is a          *)
(* recreation; the others keep their UID.                                  *)
Four == {plugin, cplugin, svc, route}
FourRefs ==
    [ov \in Four \X Versions |->
        CASE ov = <<route, v1>> -> {<<svc>>}
          [] ov = <<route, v2>> -> {<<plugin, cplugin>>}
          [] ov[1] = svc        -> {<<plugin, cplugin>>}
          [] OTHER              -> {}]
FourUids == [ov \in Four \X Versions |-> IF ov = <<svc, v2>> THEN u2 ELSE u1]

Single == {g1}

Stores == INSTANCE KongClient
    WITH Objects <- Both, Refs <- BothRefs, UidOf <- BothUids, Rejected <- OneRejected,
         Untranslatable <- OneUntranslatable, Gateways <- Single, DBLess <- TRUE,
         FallbackConfiguration <- FALSE, UseLastValidConfigForFallback <- FALSE, WithKonnect <- FALSE,
         EnableReverseSync <- FALSE, ReportsAll <- FALSE, LostAnswers <- FALSE, Discovery <- FALSE,
         InitWaitSuffices <- TRUE, MaxFaults <- 1
Backfill == INSTANCE KongClient
    WITH Objects <- Both, Refs <- BothRefs, UidOf <- BothUids, Rejected <- BothRejected,
         Untranslatable <- {}, Gateways <- Single, DBLess <- TRUE,
         FallbackConfiguration <- TRUE, UseLastValidConfigForFallback <- TRUE, WithKonnect <- FALSE,
         EnableReverseSync <- TRUE, ReportsAll <- FALSE, LostAnswers <- TRUE, Discovery <- FALSE,
         InitWaitSuffices <- TRUE, MaxFaults <- 1
Excluding == INSTANCE KongClient
    WITH Objects <- Both, Refs <- BothRefs, UidOf <- BothUids, Rejected <- BothRejected,
         Untranslatable <- {}, Gateways <- Single, DBLess <- TRUE,
         FallbackConfiguration <- TRUE, UseLastValidConfigForFallback <- FALSE, WithKonnect <- FALSE,
         EnableReverseSync <- FALSE, ReportsAll <- TRUE, LostAnswers <- FALSE, Discovery <- FALSE,
         InitWaitSuffices <- TRUE, MaxFaults <- 0
Generator == INSTANCE FallbackGenerator
    WITH Objects <- Four, Refs <- FourRefs, UidOf <- FourUids, broken <- blamed

Init ==
    /\ scenario \in Scenarios
    /\ CASE scenario = "stores" -> Stores!Init
         [] scenario = "backfill" -> Backfill!Init
         [] scenario \in {"excluding", "generator"} -> Excluding!Init
    /\ Generator!Init

In(s, A) == scenario = s /\ A /\ UNCHANGED <<scenario, generatorVars>>

Next ==
    \/ In("stores", Stores!Next)
    \/ In("backfill", Backfill!Next)
    \/ In("excluding", Excluding!Next)
    \/ scenario = "generator" /\ Generator!Next /\ UNCHANGED <<scenario, kongVars>>

Spec == Init /\ [][Next]_vars

-----------------------------------------------------------------------------
(* Properties. *)

(* Recoveries rest on what is true (kong_client.go, Update and             *)
(* sendOutToGatewayClients).  What a recovery falls back to, and what      *)
(* fallbacks are backfilled from, would be accepted, even when it was      *)
(* translated from stores that changed meanwhile; with lost answers and    *)
(* reverse sync no gateway is skipped that runs with something else; and   *)
(* the controller is ready only after a send-out.                          *)
RecoverySound ==
    /\ scenario = "stores" =>
         Stores!SendOutLoads /\ Stores!LastValidIsValid /\ Stores!ReadyAfterSync
    /\ scenario = "backfill" =>
         Backfill!SendOutLoads /\ Backfill!LastValidIsValid /\ Backfill!LastValidCacheIsValid

(* With a fallback by exclusion, what does not depend on a broken object   *)
(* is configured (kong_client.go, tryRecoveringWithFallbackConfiguration). *)
FallbackIsolates == scenario = "excluding" => Excluding!FallbackIsolates

(* What is affected is what the community modules' graph operators find    *)
(* reachable from a broken object (graph.go, SubgraphObjects).             *)
AffectedIsReachable ==
    mode # "none" =>
        LET present == Generator!Present(current)
            reaches == ConnectionsIn([node |-> present, edge |-> Generator!CacheToGraph(current)])
        IN Generator!Affected = {o \in present :
                                   \E b \in present : /\ Generator!GetObjectHash(current, b) \in blamed
                                                      /\ reaches[b, o]}

(* An exclusion leaves what stays with the references it had, takes away   *)
(* no more than what depends on a broken object, and a broken object takes *)
(* along what is reachable from it by a path of the dependency graph       *)
(* (fallback.go, GenerateExcludingBrokenObjects; graph.go).                *)
ExclusionSound ==
    Generator!ExclusionKeepsReferences /\ Generator!ExclusionIsolates /\ AffectedIsReachable

(* Backfilling sends nothing again that was rejected, and restores the     *)
(* last accepted cache when only affected objects changed since            *)
(* (fallback.go, GenerateBackfillingBrokenObjects).                        *)
BackfillSound == Generator!BackfillDropsRejected /\ Generator!BackfillRestoresLastValid
=============================================================================
