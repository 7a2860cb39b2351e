----------------------------- MODULE KongClient -----------------------------
(***************************************************************************)
(* The synchronisation of the object cache with the gateways and Konnect:  *)
(* Synchronizer's ticker (internal/dataplane/synchronizer.go) calls        *)
(* KongClient.Update (internal/dataplane/kong_client.go), which translates *)
(* the cache, sends the configuration to every ready gateway client, and   *)
(* recovers from a rejection with a fallback or the last valid             *)
(* configuration.                                                          *)
(*                                                                         *)
(* Running beside it, and interleaving with its steps: the users editing   *)
(* the cluster, the controllers copying the cluster into the cache, the    *)
(* gateway clients manager changing the set of ready clients (module       *)
(* GatewayClients), gateways that restart, requests that fail and a        *)
(* controller that crashes.                                                *)
(*                                                                         *)
(* A version is an object at one resource version, so it is written at     *)
(* most once.  A configuration is the translation of a cache, or what was  *)
(* read back from a gateway; its SHA is the configuration itself.          *)
(***************************************************************************)
EXTENDS Fallback

CONSTANTS
    Gateways,                       \* addresses of gateway admin APIs
    DBLess,                         \* the gateways' database mode
    FallbackConfiguration,          \* the feature gate
    UseLastValidConfigForFallback,  \* the flag
    WithKonnect,                    \* a Konnect client is configured
    EnableReverseSync,              \* the flag
    Rejected,                       \* <<o, v>> a gateway answers 400 to
    Untranslatable,                 \* <<o, v>> the translator fails on
    ReportsAll,                     \* a rejection names every broken object
    LostAnswers,                    \* a push may be applied, its answer lost
    Discovery,                      \* gateway clients come and go
    InitWaitSuffices,               \* the cache is filled before the first tick
    MaxFaults,                      \* bound on failures of the environment
    Nil,                            \* no SHA, no stored configuration
    Initial,                        \* a gateway that loaded nothing yet
    Partial                         \* a database synced half-way

ASSUME KongClientAssumption ==
    /\ IsFiniteSet(Gateways) /\ Gateways # {}
    /\ {DBLess, FallbackConfiguration, UseLastValidConfigForFallback, WithKonnect,
        EnableReverseSync, ReportsAll, LostAnswers, Discovery,
        InitWaitSuffices} \subseteq BOOLEAN
    /\ Rejected \subseteq Objects \X Versions
    /\ Untranslatable \subseteq Objects \X Versions
    /\ MaxFaults \in Nat

Configs == [content : Caches, origin : {"translated", "fetched"}]

ASSUME NilAssumption ==
    /\ \A x \in {Nil, Initial, Partial} : x \notin Configs
    /\ Nil # Initial /\ Nil # Partial /\ Initial # Partial

VARIABLES
    cluster,          \* the Kubernetes objects, a cache
    written,          \* versions that existed so far
    loaded,           \* what each gateway runs with (the database, if any)
    konnectLoaded,    \* what Konnect holds
    faults,           \* failures of the environment so far
    cache,            \* KongClient.cache
    ready,            \* gateway clients handed out by the manager
    sha,              \* lastConfigSHA of each ready client
    konnectSHA,       \* lastConfigSHA of the Konnect client
    lastValidState,   \* kongConfigFetcher.lastValidState
    lastValidCache,   \* KongClient.lastValidCacheSnapshot
    lastSnapshot,     \* the snapshot behind lastProcessedSnapshotHash
    SHAs,             \* KongClient.SHAs: how many, and of what
    configStatus,     \* KongClient.currentConfigStatus
    reportsFilter,    \* KongClient.kubernetesObjectReportsFilter
    configApplied,    \* Synchronizer.configApplied
    pc,               \* where the update server is
    phase,            \* what it is sending out
    parsed,           \* the cache contents it translates
    toRead,           \* objects the translation has yet to list
    target,           \* the configuration it sends
    nClients,         \* len(gatewayClients)
    clients,          \* those of gatewayClients that are still in use
    nChosen,          \* len(gatewayClientsToConfigure)
    toSend,           \* those of them not sent to yet
    held,             \* those of them that are still in use
    old,              \* their lastConfigSHA when they were listed
    err,              \* the error the pushes amount to so far
    broken,           \* objects named by the UpdateError errors.As finds
    konnectErr,       \* konnectSyncErr # nil
    shasChanged       \* !slices.Equal(shas, c.SHAs)

clusterVars == <<cluster, written>>
gatewayVars == <<loaded, faults>>
konnectVars == <<konnectLoaded, konnectSHA, konnectErr>>
managerVars == <<ready, sha>>
storedVars  == <<lastValidState, lastValidCache, lastSnapshot, SHAs,
                 configStatus, reportsFilter, configApplied>>
listVars    == <<nClients, clients, nChosen, toSend, held, old>>
updateVars  == <<pc, phase, parsed, toRead, target, listVars, err, broken, shasChanged>>
vars == <<clusterVars, gatewayVars, konnectVars, cache, managerVars, storedVars, updateVars>>

-----------------------------------------------------------------------------
EmptyCache == [o \in Objects |-> Absent]

(* BuildKongConfig: objects that fail to translate are left out. *)
Translatable(c, o) == c[o] # Absent /\ <<o, c[o]>> \notin Untranslatable
Translation(c) == [o \in Objects |-> IF Translatable(c, o) THEN c[o] ELSE Absent]
BuildKongConfig(c) == [content |-> Translation(c), origin |-> "translated"]
TranslationFailures(c) == {o \in Present(c) : ~Translatable(c, o)}

(* Objects of a configuration a gateway would not accept. *)
BrokenObjects(cfg) ==
    {o \in Objects : cfg.content[o] # Absent /\ <<o, cfg.content[o]>> \in Rejected}
Rejectable(cfg) == BrokenObjects(cfg) # {}

(* The objects of a resource failure are rebuilt from the entity's tags,   *)
(* and may be missing from the answer.                                     *)
ReportedBroken(cfg) ==
    LET hashes == {GetObjectHash(cfg.content, o) : o \in BrokenObjects(cfg)}
    IN IF ReportsAll THEN {hashes} ELSE SUBSET hashes

(* All gateways of a database share what it holds. *)
Loading(g, cfg) ==
    IF DBLess THEN [loaded EXCEPT ![g] = cfg] ELSE [h \in Gateways |-> cfg]

NoSHAs == [n |-> 0, sha |-> Nil]

CalculateConfigStatus(gatewaysFailed, konnectFailed, translationFailed) ==
    [apply |-> IF gatewaysFailed THEN "ApplyFailed"
               ELSE IF translationFailed THEN "TranslationErrorHappened" ELSE "OK",
     konnect |-> IF konnectFailed THEN "KonnectApplyFailed" ELSE "OK"]

Statuses == [apply : {"OK", "ApplyFailed", "TranslationErrorHappened"},
             konnect : {"OK", "KonnectApplyFailed"}]

(* What triggerKubernetesObjectReport stores: the generation and whether   *)
(* it was configured.                                                      *)
ObjectReport(c) ==
    [o \in Objects |-> IF c[o] = Absent THEN Absent ELSE <<c[o], Translatable(c, o)>>]

-----------------------------------------------------------------------------
Pcs == {"waiting", "idle", "snapshot", "build", "list", "choose", "send",
        "konnect", "conclude", "panicked"}

TypeOK ==
    /\ cluster \in Caches /\ cache \in Caches /\ parsed \in Caches
    /\ written \subseteq Objects \X Versions
    /\ loaded \in [Gateways -> Configs \cup {Initial, Partial}]
    /\ konnectLoaded \in Configs \cup {Initial, Partial}
    /\ faults \in 0..MaxFaults
    /\ ready \subseteq Gateways
    /\ sha \in [Gateways -> Configs \cup {Nil}]
    /\ konnectSHA \in Configs \cup {Nil}
    /\ lastValidState \in Configs \cup {Nil}
    /\ lastValidCache \in Caches \cup {NoCache}
    /\ lastSnapshot \in Caches \cup {NoCache}
    /\ SHAs \in [n : Nat, sha : Configs \cup {Nil}]
    /\ configStatus \in Statuses \cup {Nil}
    /\ reportsFilter \in [Objects -> (Versions \X BOOLEAN) \cup {Absent}]
    /\ configApplied \in BOOLEAN
    /\ pc \in Pcs /\ phase \in {"main", "fallback", "lastvalid"}
    /\ toRead \subseteq Objects
    /\ target \in Configs \cup {Nil}
    /\ nClients \in Nat /\ nChosen \in Nat
    /\ clients \subseteq Gateways /\ toSend \subseteq Gateways /\ held \subseteq Gateways
    /\ old \in [Gateways -> Configs \cup {Nil}]
    /\ err \in {"none", "error", "update"}
    /\ broken \subseteq Objects \X {UidOf[ov] : ov \in Objects \X Versions}
    /\ konnectErr \in BOOLEAN /\ shasChanged \in BOOLEAN

(* A controller that has just started: nothing of it is persistent.  It    *)
(* comes up with at least one gateway client.                              *)
Started ==
    /\ cache = EmptyCache
    /\ ready \in SUBSET Gateways \ {{}}
    /\ ~Discovery => ready = Gateways
    /\ sha = [g \in Gateways |-> Nil] /\ konnectSHA = Nil
    /\ lastValidState = Nil /\ lastValidCache = NoCache /\ lastSnapshot = NoCache
    /\ SHAs = NoSHAs /\ configStatus = Nil
    /\ reportsFilter = [o \in Objects |-> Absent]
    /\ configApplied = FALSE
    /\ pc = "waiting" /\ phase = "main" /\ parsed = EmptyCache /\ toRead = {} /\ target = Nil
    /\ nClients = 0 /\ clients = {} /\ nChosen = 0 /\ toSend = {} /\ held = {}
    /\ old = [g \in Gateways |-> Nil]
    /\ err = "none" /\ broken = {} /\ konnectErr = FALSE /\ shasChanged = FALSE

Init ==
    /\ cluster = EmptyCache /\ written = {}
    /\ loaded = [g \in Gateways |-> Initial]
    /\ konnectLoaded = Initial
    /\ faults = 0
    /\ Started

-----------------------------------------------------------------------------
(* The environment. *)

Fault == faults < MaxFaults /\ faults' = faults + 1

(* An object keeps its UID until it is deleted. *)
Apply(o, v) ==
    /\ <<o, v>> \notin written
    /\ cluster[o] # Absent => UidOf[<<o, cluster[o]>>] = UidOf[<<o, v>>]
    /\ cluster' = [cluster EXCEPT ![o] = v]
    /\ written' = written \cup {<<o, v>>}
    /\ UNCHANGED <<gatewayVars, konnectVars, cache, managerVars, storedVars, updateVars>>

Remove(o) ==
    /\ cluster[o] # Absent
    /\ cluster' = [cluster EXCEPT ![o] = Absent]
    /\ UNCHANGED <<written, gatewayVars, konnectVars, cache, managerVars, storedVars, updateVars>>

(* A controller reconciles o: UpdateObject or DeleteObject. *)
Reconcile(o) ==
    /\ cache[o] # cluster[o]
    /\ cache' = [cache EXCEPT ![o] = cluster[o]]
    /\ UNCHANGED <<clusterVars, gatewayVars, konnectVars, managerVars, storedVars, updateVars>>

GatewayRestarts(g) ==
    /\ DBLess /\ loaded[g] # Initial
    /\ Fault
    /\ loaded' = [loaded EXCEPT ![g] = Initial]
    /\ UNCHANGED <<clusterVars, konnectVars, cache, managerVars, storedVars, updateVars>>

(* Mutant: a client created anew remembers the SHA of the one dropped. *)
ClientReadyWithSHA(g) ==
    /\ Discovery /\ g \notin ready
    /\ ready' = ready \cup {g}
    /\ UNCHANGED <<clusterVars, gatewayVars, konnectVars, cache, sha, storedVars, updateVars>>

(* The manager creates a client for a gateway that is ready... *)
ClientReady(g) ==
    /\ Discovery /\ g \notin ready
    /\ ready' = ready \cup {g}
    /\ sha' = [sha EXCEPT ![g] = Nil]
    /\ UNCHANGED <<clusterVars, gatewayVars, konnectVars, cache, storedVars, updateVars>>

(* ...and drops it.  An Update under way goes on using the dropped one.    *)
ClientLost(g) ==
    /\ Discovery /\ g \in ready
    /\ Fault
    /\ ready' = ready \ {g}
    /\ clients' = clients \ {g}
    /\ held' = held \ {g}
    /\ UNCHANGED <<clusterVars, loaded, konnectVars, cache, sha, storedVars, pc, phase, parsed,
                   toRead, target, nClients, nChosen, toSend, old, err, broken, shasChanged>>

(* The local variables of an Update end with it. *)
ForgetUpdate ==
    /\ phase' = "main" /\ parsed' = EmptyCache /\ toRead' = {} /\ target' = Nil
    /\ nClients' = 0 /\ clients' = {} /\ nChosen' = 0 /\ toSend' = {} /\ held' = {}
    /\ old' = [g \in Gateways |-> Nil]
    /\ err' = "none" /\ broken' = {} /\ konnectErr' = FALSE /\ shasChanged' = FALSE

(* Crashes are faults of the environment; a panic is not. *)
ControllerRestarts ==
    /\ IF pc = "panicked" THEN UNCHANGED faults ELSE Fault
    /\ cache' = EmptyCache
    /\ ready' \in SUBSET Gateways \ {{}} /\ (~Discovery => ready' = Gateways)
    /\ sha' = [g \in Gateways |-> Nil] /\ konnectSHA' = Nil
    /\ lastValidState' = Nil /\ lastValidCache' = NoCache /\ lastSnapshot' = NoCache
    /\ SHAs' = NoSHAs /\ configStatus' = Nil
    /\ reportsFilter' = [o \in Objects |-> Absent]
    /\ configApplied' = FALSE
    /\ pc' = "waiting" /\ ForgetUpdate
    /\ UNCHANGED <<clusterVars, loaded, konnectLoaded>>

-----------------------------------------------------------------------------
(* Synchronizer and KongClient.Update. *)

(* Mutant: no initial wait. *)
StartAtOnce ==
    /\ pc = "waiting"
    /\ pc' = "idle"
    /\ UNCHANGED <<clusterVars, gatewayVars, konnectVars, cache, managerVars, storedVars, phase,
                   parsed, toRead, target, listVars, err, broken, shasChanged>>

(* Synchronizer.Start, once the initial wait is over. *)
Start ==
    /\ pc = "waiting"
    /\ InitWaitSuffices => cache = cluster
    /\ pc' = "idle"
    /\ UNCHANGED <<clusterVars, gatewayVars, konnectVars, cache, managerVars, storedVars, phase,
                   parsed, toRead, target, listVars, err, broken, shasChanged>>

(* Mutant: nothing is fetched from the gateways. *)
TickWithoutFetching ==
    /\ pc = "idle"
    /\ pc' = "snapshot"
    /\ UNCHANGED <<clusterVars, gatewayVars, konnectVars, cache, managerVars, storedVars, phase,
                   parsed, toRead, target, listVars, err, broken, shasChanged>>

(* A tick: fetch the last valid configuration from a gateway, the first    *)
(* one that answers and has loaded something, unless one is stored.        *)
Tick ==
    /\ pc = "idle"
    /\ pc' = "snapshot"
    /\ LET fetchable == {g \in ready : loaded[g] # Initial}
       IN \/ /\ DBLess /\ lastValidState = Nil
             /\ \E g \in fetchable :
                   lastValidState' = [content |-> loaded[g].content, origin |-> "fetched"]
             /\ UNCHANGED faults
          \/ /\ DBLess /\ lastValidState = Nil /\ fetchable # {}
             /\ Fault
             /\ UNCHANGED lastValidState
          \/ /\ ~(DBLess /\ lastValidState = Nil /\ fetchable # {})
             /\ UNCHANGED <<faults, lastValidState>>
    /\ UNCHANGED <<clusterVars, loaded, konnectVars, cache, managerVars, lastValidCache,
                   lastSnapshot, SHAs, configStatus, reportsFilter, configApplied, phase,
                   parsed, toRead, target, listVars, err, broken, shasChanged>>

(* Update returns nil: startUpdateServer marks the configuration applied. *)
ReturnNil ==
    /\ configApplied' = TRUE
    /\ pc' = "idle" /\ ForgetUpdate

ReturnError ==
    /\ UNCHANGED configApplied
    /\ pc' = "idle" /\ ForgetUpdate

(* FallbackConfiguration: the cache is the one processed last. *)
SkipUnchangedCache ==
    /\ pc = "snapshot" /\ FallbackConfiguration
    /\ lastSnapshot = cache
    /\ ReturnNil
    /\ UNCHANGED <<clusterVars, gatewayVars, konnectLoaded, konnectSHA, cache, managerVars,
                   lastValidState, lastValidCache, lastSnapshot, SHAs, configStatus, reportsFilter>>

TakeSnapshot ==
    /\ pc = "snapshot" /\ FallbackConfiguration
    /\ lastSnapshot # cache
    /\ lastSnapshot' = cache
    /\ parsed' = cache
    /\ target' = BuildKongConfig(cache)
    /\ pc' = "list"
    /\ UNCHANGED <<clusterVars, gatewayVars, konnectVars, cache, managerVars, lastValidState,
                   lastValidCache, SHAs, configStatus, reportsFilter, configApplied, phase,
                   toRead, listVars, err, broken, shasChanged>>

(* Without a snapshot the translation lists the live stores one by one. *)
StartBuild ==
    /\ pc = "snapshot" /\ ~FallbackConfiguration
    /\ toRead' = Objects
    /\ pc' = "build"
    /\ UNCHANGED <<clusterVars, gatewayVars, konnectVars, cache, managerVars, storedVars, phase,
                   parsed, target, listVars, err, broken, shasChanged>>

ReadObject(o) ==
    /\ pc = "build" /\ o \in toRead
    /\ toRead' = toRead \ {o}
    /\ parsed' = [parsed EXCEPT ![o] = cache[o]]
    /\ UNCHANGED <<clusterVars, gatewayVars, konnectVars, cache, managerVars, storedVars, pc,
                   phase, target, listVars, err, broken, shasChanged>>

FinishBuild ==
    /\ pc = "build" /\ toRead = {}
    /\ target' = BuildKongConfig(parsed)
    /\ pc' = "list"
    /\ UNCHANGED <<clusterVars, gatewayVars, konnectVars, cache, managerVars, storedVars, phase,
                   parsed, toRead, listVars, err, broken, shasChanged>>

-----------------------------------------------------------------------------
(* sendOutToGatewayClients, in every phase. *)

(* What follows it: Konnect, unless the last valid configuration was sent. *)
AfterSendOut == IF phase = "lastvalid" THEN "conclude" ELSE "konnect"

ListClients ==
    /\ pc = "list"
    /\ err' = "none" /\ broken' = {}
    /\ nClients' = Cardinality(ready)
    /\ clients' = ready
    /\ pc' = IF ready = {} THEN AfterSendOut ELSE "choose"
    /\ shasChanged' = FALSE
    /\ nChosen' = 0 /\ toSend' = {} /\ held' = {}
    /\ old' = [g \in Gateways |-> Nil]
    /\ UNCHANGED <<clusterVars, gatewayVars, konnectVars, cache, managerVars, storedVars, phase,
                   parsed, toRead, target>>

(* GatewayClientsToConfigure: all of them, or any one before a database. *)
ChooseClients ==
    /\ pc = "choose"
    /\ \E chosen \in SUBSET ready :
          /\ IF DBLess THEN chosen = ready
                       ELSE /\ Cardinality(chosen) <= 1
                            /\ chosen = {} => ready = {}
          /\ nChosen' = Cardinality(chosen)
          /\ toSend' = chosen /\ held' = chosen
          /\ old' = [g \in Gateways |-> IF g \in chosen THEN sha[g] ELSE Nil]
    /\ pc' = "send"
    /\ UNCHANGED <<clusterVars, gatewayVars, konnectVars, cache, managerVars, storedVars, phase,
                   parsed, toRead, target, nClients, clients, err, broken, shasChanged>>

(* Mutant: a gateway that lost its configuration is not noticed. *)
HasSHAChanged(g) == old[g] # target

(* HasConfigurationChanged.  In DB-less mode a configuration is never      *)
(* empty: deckgen adds a stub to an empty one.                             *)
HasConfigurationChanged(g) ==
    old[g] # target \/ (DBLess /\ loaded[g] = Initial)

(* PerformUpdate: whether the configuration is sent. *)
NeedsUpdate(g) == EnableReverseSync \/ HasConfigurationChanged(g)

SetLastConfigSHA(g) == sha' = IF g \in held THEN [sha EXCEPT ![g] = target] ELSE sha

sendUnchanged == <<clusterVars, konnectVars, cache, ready, storedVars, pc, phase, parsed, toRead,
                   target, nClients, clients, nChosen, held, old, shasChanged>>

SkipUpdate(g) ==
    /\ pc = "send" /\ g \in toSend
    /\ ~NeedsUpdate(g)
    /\ toSend' = toSend \ {g}
    /\ SetLastConfigSHA(g)
    /\ UNCHANGED <<gatewayVars, err, broken, sendUnchanged>>

(* Mutant: a push that succeeds makes up for one that failed. *)
PushAcceptedForgivingly(g) ==
    /\ pc = "send" /\ g \in toSend
    /\ NeedsUpdate(g) /\ ~Rejectable(target)
    /\ toSend' = toSend \ {g}
    /\ loaded' = Loading(g, target)
    /\ SetLastConfigSHA(g)
    /\ err' = "none"
    /\ UNCHANGED <<faults, broken, sendUnchanged>>

PushAccepted(g) ==
    /\ pc = "send" /\ g \in toSend
    /\ NeedsUpdate(g) /\ ~Rejectable(target)
    /\ toSend' = toSend \ {g}
    /\ loaded' = Loading(g, target)
    /\ SetLastConfigSHA(g)
    /\ UNCHANGED <<faults, err, broken, sendUnchanged>>

(* An UpdateError.  Of several, errors.As finds one.  A database may be    *)
(* left with part of the change.                                           *)
PushRejected(g) ==
    /\ pc = "send" /\ g \in toSend
    /\ NeedsUpdate(g) /\ Rejectable(target)
    /\ toSend' = toSend \ {g}
    /\ err' = "update"
    /\ \/ broken' \in ReportedBroken(target)
       \/ err = "update" /\ UNCHANGED broken
    /\ \/ UNCHANGED loaded
       \/ ~DBLess /\ loaded' = Loading(g, Partial)
    /\ UNCHANGED <<faults, sha, sendUnchanged>>

(* Any other error: no answer, a 5xx, an answer that does not parse, a     *)
(* failed status or state request.                                         *)
PushFailed(g) ==
    /\ pc = "send" /\ g \in toSend
    /\ Fault
    /\ toSend' = toSend \ {g}
    /\ err' = IF err = "update" THEN err ELSE "error"
    /\ \/ UNCHANGED loaded
       \/ /\ LostAnswers /\ DBLess
          /\ NeedsUpdate(g) /\ ~Rejectable(target)
          /\ loaded' = Loading(g, target)
    /\ UNCHANGED <<sha, broken, sendUnchanged>>

(* A request of a database sync fails: an UpdateError with no objects. *)
SyncInterrupted(g) ==
    /\ pc = "send" /\ g \in toSend
    /\ ~DBLess /\ NeedsUpdate(g)
    /\ Fault
    /\ toSend' = toSend \ {g}
    /\ err' = "update"
    /\ loaded' = Loading(g, Partial)
    /\ UNCHANGED <<sha, broken, sendUnchanged>>

(* Where a rejected main or fallback configuration leads. *)
SendLastValid ==
    IF lastValidState # Nil
      THEN /\ phase' = "lastvalid"
           /\ target' = lastValidState
           /\ pc' = "list"
           /\ UNCHANGED <<configApplied, konnectErr, parsed, toRead, listVars, err, broken,
                          shasChanged>>
      ELSE ReturnError

(* Indexing the empty list of SHAs panics. *)
SendOutPanics == ~DBLess /\ nClients > 1 /\ nChosen = 0

(* Mutant: the SHA of a database is not propagated to its other clients. *)
SendOutSucceedsAlone ==
    /\ pc = "send" /\ toSend = {} /\ err = "none"
    /\ pc' = AfterSendOut
    /\ SHAs' = IF nChosen = 0 THEN NoSHAs ELSE [n |-> nChosen, sha |-> target]
    /\ shasChanged' = (SHAs' # SHAs)
    /\ lastValidState' = target
    /\ UNCHANGED <<clusterVars, gatewayVars, konnectVars, cache, managerVars, lastValidCache,
                   lastSnapshot, configStatus, reportsFilter, configApplied, phase, parsed,
                   toRead, target, listVars, err, broken>>

SendOutSucceeds ==
    /\ pc = "send" /\ toSend = {} /\ err = "none"
    /\ IF SendOutPanics
         THEN /\ pc' = "panicked"
              /\ UNCHANGED <<sha, SHAs, shasChanged, lastValidState>>
         ELSE /\ pc' = AfterSendOut
              /\ sha' = IF ~DBLess /\ nClients > 1
                          THEN [g \in Gateways |-> IF g \in clients THEN target ELSE sha[g]]
                          ELSE sha
              /\ SHAs' = IF nChosen = 0 THEN NoSHAs ELSE [n |-> nChosen, sha |-> target]
              /\ shasChanged' = (SHAs' # SHAs)
              /\ lastValidState' = target
    /\ UNCHANGED <<clusterVars, gatewayVars, konnectVars, cache, ready, lastValidCache,
                   lastSnapshot, configStatus, reportsFilter, configApplied, phase, parsed,
                   toRead, target, listVars, err, broken>>

(* Mutant: the configuration is stored before the errors are looked at. *)
SendOutFailsStoring ==
    /\ pc = "send" /\ toSend = {} /\ err # "none"
    /\ phase # "fallback"
    /\ pc' = AfterSendOut
    /\ lastValidState' = target
    /\ UNCHANGED <<clusterVars, gatewayVars, konnectVars, cache, managerVars, lastValidCache,
                   lastSnapshot, SHAs, configStatus, reportsFilter, configApplied, phase, parsed,
                   toRead, target, listVars, err, broken, shasChanged>>

(* A fallback that fails is not sent to Konnect. *)
SendOutFails ==
    /\ pc = "send" /\ toSend = {} /\ err # "none"
    /\ \/ /\ phase # "fallback"
          /\ pc' = AfterSendOut
          /\ UNCHANGED <<configApplied, konnectErr, phase, parsed, toRead, target, listVars, err,
                         broken, shasChanged>>
       \/ /\ phase = "fallback"
          /\ SendLastValid
    /\ UNCHANGED <<clusterVars, gatewayVars, konnectLoaded, konnectSHA, cache, managerVars,
                   lastValidState, lastValidCache, lastSnapshot, SHAs, configStatus,
                   reportsFilter>>

-----------------------------------------------------------------------------
(* maybeSendOutToKonnectClient.  Konnect is synced like a database, one    *)
(* entity at a time; a sync may also be skipped by the backoff strategy.   *)
konnectUnchanged == <<clusterVars, gatewayVars, cache, managerVars, storedVars, phase, parsed,
                      toRead, target, listVars, err, broken, shasChanged>>

SkipKonnect ==
    /\ pc = "konnect"
    /\ ~WithKonnect \/ (konnectSHA = target /\ ~EnableReverseSync)
    /\ konnectErr' = FALSE
    /\ pc' = "conclude"
    /\ UNCHANGED <<konnectLoaded, konnectSHA, konnectUnchanged>>

KonnectAccepts ==
    /\ pc = "konnect"
    /\ WithKonnect /\ (konnectSHA # target \/ EnableReverseSync)
    /\ konnectLoaded' = target
    /\ konnectSHA' = target
    /\ konnectErr' = FALSE
    /\ pc' = "conclude"
    /\ UNCHANGED konnectUnchanged

KonnectFails ==
    /\ pc = "konnect"
    /\ WithKonnect /\ (konnectSHA # target \/ EnableReverseSync)
    /\ konnectLoaded' \in {konnectLoaded, Partial}
    /\ konnectErr' = TRUE
    /\ pc' = "conclude"
    /\ UNCHANGED <<konnectSHA, konnectUnchanged>>

-----------------------------------------------------------------------------
(* The rest of Update. *)

UpdateConfigStatus ==
    configStatus' = CalculateConfigStatus(err # "none", konnectErr, TranslationFailures(parsed) # {})

(* maybePreserveTheLastValidConfigCache *)
Preserve(c) ==
    lastValidCache' = IF FallbackConfiguration /\ UseLastValidConfigForFallback
                        THEN c ELSE lastValidCache

concludeUnchanged == <<clusterVars, gatewayVars, konnectLoaded, konnectSHA, cache, managerVars,
                       lastValidState, lastSnapshot, SHAs>>

Synced ==
    /\ pc = "conclude" /\ phase = "main" /\ err = "none"
    /\ UpdateConfigStatus
    /\ Preserve(parsed)
    /\ reportsFilter' = IF shasChanged THEN ObjectReport(parsed) ELSE reportsFilter
    /\ ReturnNil
    /\ UNCHANGED concludeUnchanged

NotRecoverable ==
    /\ pc = "conclude" /\ phase = "main" /\ err = "error"
    /\ UpdateConfigStatus
    /\ ReturnError
    /\ UNCHANGED <<lastValidCache, reportsFilter, concludeUnchanged>>

(* Mutant: the configuration builder is not given the fallback cache. *)
RecoverWithSameCache ==
    /\ pc = "conclude" /\ phase = "main" /\ err = "update"
    /\ FallbackConfiguration /\ broken # {}
    /\ UpdateConfigStatus
    /\ phase' = "fallback"
    /\ pc' = "list"
    /\ UNCHANGED <<konnectErr, lastValidCache, reportsFilter, configApplied, parsed, toRead, target,
                   listVars, err, broken, shasChanged, concludeUnchanged>>

RecoverWithFallback ==
    /\ pc = "conclude" /\ phase = "main" /\ err = "update"
    /\ FallbackConfiguration /\ broken # {}
    /\ UpdateConfigStatus
    /\ LET fallback == IF UseLastValidConfigForFallback
                         THEN GenerateBackfillingBrokenObjects(lastSnapshot, lastValidCache, broken)
                         ELSE GenerateExcludingBrokenObjects(lastSnapshot, broken)
       IN /\ parsed' = fallback
          /\ target' = BuildKongConfig(fallback)
    /\ phase' = "fallback"
    /\ pc' = "list"
    /\ UNCHANGED <<konnectErr, lastValidCache, reportsFilter, configApplied, toRead, listVars,
                   err, broken, shasChanged, concludeUnchanged>>

RecoverWithLastValid ==
    /\ pc = "conclude" /\ phase = "main" /\ err = "update"
    /\ ~(FallbackConfiguration /\ broken # {})
    /\ UpdateConfigStatus
    /\ SendLastValid
    /\ UNCHANGED <<lastValidCache, reportsFilter, concludeUnchanged>>

(* Mutant: the rejected cache is preserved, not the fallback. *)
RecoveredPreservingSnapshot ==
    /\ pc = "conclude" /\ phase # "main"
    /\ IF phase = "fallback" THEN Preserve(lastSnapshot) ELSE UNCHANGED lastValidCache
    /\ ReturnError
    /\ UNCHANGED <<configStatus, reportsFilter, concludeUnchanged>>

Recovered ==
    /\ pc = "conclude" /\ phase # "main"
    /\ IF phase = "fallback" THEN Preserve(parsed) ELSE UNCHANGED lastValidCache
    /\ ReturnError
    /\ UNCHANGED <<configStatus, reportsFilter, concludeUnchanged>>

-----------------------------------------------------------------------------
Update ==
    \/ Start \/ Tick \/ SkipUnchangedCache \/ TakeSnapshot
    \/ StartBuild \/ (\E o \in Objects : ReadObject(o)) \/ FinishBuild
    \/ ListClients \/ ChooseClients
    \/ \E g \in Gateways : \/ SkipUpdate(g) \/ PushAccepted(g) \/ PushRejected(g)
                           \/ PushFailed(g) \/ SyncInterrupted(g)
    \/ SendOutSucceeds \/ SendOutFails
    \/ SkipKonnect \/ KonnectAccepts \/ KonnectFails
    \/ Synced \/ NotRecoverable \/ RecoverWithFallback \/ RecoverWithLastValid \/ Recovered

Environment ==
    \/ \E o \in Objects : Remove(o) \/ \E v \in Versions : Apply(o, v)
    \/ \E g \in Gateways : GatewayRestarts(g) \/ ClientReady(g) \/ ClientLost(g)
    \/ ControllerRestarts

Next == Update \/ (\E o \in Objects : Reconcile(o)) \/ Environment

Spec == Init /\ [][Next]_vars

(* The ticker keeps ticking, every request ends and every watch event is   *)
(* eventually reconciled.  Nothing is assumed of the environment but that  *)
(* its failures are finitely many (MaxFaults).                             *)
FairSpec ==
    /\ Spec
    /\ WF_vars(Update)
    /\ \A o \in Objects : WF_vars(Reconcile(o))

-----------------------------------------------------------------------------
(* Properties. *)

(* PerformUpdate skips a gateway whose client remembers the SHA of the     *)
(* target.  What makes that sound: a gateway runs with the configuration   *)
(* its client remembers, or has restarted and says so.  The clients of a   *)
(* database agree on its SHA once a send-out ends, but for a sync that     *)
(* failed half-way.                                                        *)
SHAFaithful ==
    DBLess \/ pc # "send" =>
        \A g \in ready : sha[g] # Nil =>
            loaded[g] \in {sha[g], IF DBLess THEN Initial ELSE Partial}

(* When sendOutToGatewayClients returns no error, every gateway it was to  *)
(* configure runs with the configuration sent, be it the current, a        *)
(* fallback or the last valid one, whether it was pushed or skipped.       *)
SendOutLoads ==
    pc \in {"konnect", "conclude"} /\ err = "none" =>
        \A g \in held : loaded[g] \in {target, Initial}

(* The configuration kept to recover from a rejection would not itself be  *)
(* rejected (StoreLastValidConfig is only reached after a validation).     *)
LastValidIsValid == lastValidState # Nil => ~Rejectable(lastValidState)

(* lastValidCacheSnapshot "stores the state of the cache that was last     *)
(* successfully synced with the gateways": no gateway would reject it.     *)
LastValidCacheIsValid ==
    lastValidCache # NoCache => ~Rejectable(BuildKongConfig(lastValidCache))

(* IsReady in DB-less mode: "it is only ready after a successful sync",    *)
(* one that sent a configuration to some gateway, through failed pushes,   *)
(* rejections and recoveries.                                              *)
ReadyAfterSync == DBLess /\ configApplied => SHAs # NoSHAs

(* A push of the current configuration never takes away from a running     *)
(* gateway an object that the cluster still has unchanged: not when the    *)
(* controller restarts, not when stores are listed while they change.      *)
PushKeepsUnchanged ==
    [][phase = "main" =>
         \A g \in Gateways, o \in Objects :
            /\ {loaded[g], loaded'[g]} \cap {Initial, Partial} = {}
            /\ cluster[o] # Absent /\ loaded[g].content[o] = cluster[o]
            => loaded'[g].content[o] = cluster[o]]_vars

(* Every ready gateway ends up with the translation of the cluster, unless *)
(* that is rejected.                                                       *)
EventuallyConfigured ==
    <>[](~Rejectable(BuildKongConfig(cluster)) =>
            \A g \in ready : loaded[g] = BuildKongConfig(cluster))

(* While the cluster holds a rejected object, every ready gateway ends up  *)
(* with the last valid configuration, restarted gateways included; a       *)
(* restarted controller finds it on any gateway that still runs with it.   *)
(* This is while the stored configuration is valid (see LastValidIsValid). *)
EventuallyLastValid ==
    <>[](/\ Rejectable(BuildKongConfig(cluster)) /\ LastValidIsValid
         /\ lastValidState # Nil \/ \E g \in ready : loaded[g] # Initial
         => lastValidState # Nil /\ \A g \in ready : loaded[g] = lastValidState)

ClusterBroken ==
    LET cfg == BuildKongConfig(cluster)
    IN {GetObjectHash(cluster, o) : o \in BrokenObjects(cfg)}

(* FallbackConfiguration: "one broken object no longer prevents the entire *)
(* configuration from being applied": whenever the cluster as it is was    *)
(* the snapshot processed last, what does not depend on a broken object is *)
(* configured as it is in the cluster.                                     *)
FallbackIsolates ==
    pc = "idle" /\ lastSnapshot = cluster =>
        \A g \in ready : /\ loaded[g] \in Configs
                         /\ \A o \in Objects \ AffectedObjects(cluster, ClusterBroken) :
                               loaded[g].content[o] = Translation(cluster)[o]
=============================================================================
