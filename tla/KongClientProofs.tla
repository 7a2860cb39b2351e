-------------------------- MODULE KongClientProofs --------------------------
(***************************************************************************)
(* The safety of the update loop of KongClient, for every set of gateways  *)
(* and objects and any number of failures.  Each theorem names what it     *)
(* needs of the way the controller is run.                                 *)
(***************************************************************************)
EXTENDS KongClient, FallbackProofs, FiniteSetTheorems

(* Most leaves are about sets, functions and records; those that need      *)
(* arithmetic, or more than Zenon finds, name SMT.                         *)
USE Zenon

-----------------------------------------------------------------------------
(* Facts about the data. *)

(* An empty cache is a cache. *)
LEMMA EmptyCacheType == EmptyCache \in Caches
  BY DEF EmptyCache, Caches

(* The translation of a cache is a configuration. *)
LEMMA BuildType ==
    ASSUME NEW c \in Caches
    PROVE  BuildKongConfig(c) \in Configs
<1>1. Translation(c) \in Caches
  BY DEF Translation, Translatable, Caches
<1> QED
  BY <1>1 DEF BuildKongConfig, Configs

(* What is fetched from a gateway that runs with a configuration is a      *)
(* configuration.                                                          *)
LEMMA FetchedType ==
    ASSUME NEW cfg \in Configs
    PROVE  [content |-> cfg.content, origin |-> "fetched"] \in Configs
  BY DEF Configs

(* A cache with one object replaced is a cache. *)
LEMMA SetCacheType ==
    ASSUME NEW c \in Caches, NEW o \in Objects, NEW v \in Versions \cup {Absent}
    PROVE  [c EXCEPT ![o] = v] \in Caches
  BY DEF Caches

(* A cache holds a version of an object or nothing. *)
LEMMA CacheValue ==
    ASSUME NEW c \in Caches, NEW o \in Objects
    PROVE  c[o] \in Versions \cup {Absent}
  BY DEF Caches

(* What is stored of a report has a generation and a result for each       *)
(* object configured.                                                      *)
LEMMA ReportType ==
    ASSUME NEW c \in Caches
    PROVE  ObjectReport(c) \in [Objects -> (Versions \X BOOLEAN) \cup {Absent}]
  BY DEF ObjectReport, Translatable, Caches

(* Whatever failed, the status is one of those the code defines. *)
LEMMA StatusType ==
    ASSUME NEW a \in BOOLEAN, NEW k \in BOOLEAN, NEW t \in BOOLEAN
    PROVE  CalculateConfigStatus(a, k, t) \in Statuses
  BY DEF CalculateConfigStatus, Statuses

(* The objects an UpdateError names are objects with the UID of some       *)
(* version.                                                                *)
LEMMA ReportedType ==
    ASSUME NEW cfg \in Configs, NEW b \in ReportedBroken(cfg)
    PROVE  b \subseteq Objects \X {UidOf[ov] : ov \in Objects \X Versions}
<1> DEFINE c == cfg.content
<1>1. c \in Caches
  BY DEF Configs
<1>2. ASSUME NEW o \in BrokenObjects(cfg)
      PROVE  GetObjectHash(c, o) \in Objects \X {UidOf[ov] : ov \in Objects \X Versions}
  <2>1. o \in Objects /\ <<o, c[o]>> \in Objects \X Versions
    BY <1>1 DEF BrokenObjects, Caches
  <2> QED
    BY <2>1 DEF GetObjectHash
<1>3. b \subseteq {GetObjectHash(c, o) : o \in BrokenObjects(cfg)}
  BY DEF ReportedBroken
<1> QED
  BY <1>2, <1>3

(* The gateway clients can be counted. *)
LEMMA CardinalityType ==
    ASSUME NEW S \in SUBSET Gateways
    PROVE  IsFiniteSet(S) /\ Cardinality(S) \in Nat
  BY KongClientAssumption, FS_Subset, FS_CardinalityType

(* A push leaves every gateway with a configuration, with none yet, or     *)
(* half-way.                                                               *)
LEMMA LoadingType ==
    ASSUME NEW g \in Gateways, NEW cfg \in Configs \cup {Initial, Partial},
           loaded \in [Gateways -> Configs \cup {Initial, Partial}]
    PROVE  Loading(g, cfg) \in [Gateways -> Configs \cup {Initial, Partial}]
  BY DEF Loading

-----------------------------------------------------------------------------
(* Type correctness. *)

Sending == pc \in {"list", "choose", "send", "konnect", "conclude"}

(* While something is sent there is something to send, and a snapshot it   *)
(* came from; a gateway without a database is never half-way.              *)
UpdateOK ==
    /\ Sending => target # Nil
    /\ FallbackConfiguration /\ Sending => lastSnapshot # NoCache
    /\ pc = "build" => ~FallbackConfiguration
    /\ DBLess => \A g \in Gateways : loaded[g] # Partial

TypeInv == TypeOK /\ UpdateOK

(* A controller that has just started is well typed. *)
LEMMA InitTypeInv == Init => TypeInv
<1> SUFFICES ASSUME Init
             PROVE  TypeInv
  OBVIOUS
<1> USE DEF Init, Started
<1>1. cluster \in Caches /\ cache \in Caches /\ parsed \in Caches
  BY EmptyCacheType
<1>2. faults \in 0..MaxFaults
  BY KongClientAssumption, SMT
<1>3. SHAs \in [n : Nat, sha : Configs \cup {Nil}]
  BY DEF NoSHAs
<1>4. UpdateOK
  BY NilAssumption DEF UpdateOK, Sending
<1> QED
  BY <1>1, <1>2, <1>3, <1>4 DEF TypeInv, TypeOK, Pcs

(* Edits, restarts, clients that come and go keep the state well typed. *)
LEMMA EnvironmentTypeInv == TypeInv /\ Environment => TypeInv'
<1> SUFFICES ASSUME TypeInv, Environment
             PROVE  TypeInv'
  OBVIOUS
<1> USE DEF TypeInv, TypeOK, UpdateOK, Sending, clusterVars, gatewayVars, konnectVars,
            managerVars, storedVars, listVars, updateVars
<1>1. ASSUME NEW o \in Objects, Remove(o)
      PROVE  TypeInv'
  <2>1. cluster' \in Caches
    BY <1>1, SetCacheType DEF Remove
  <2> QED
    BY <1>1, <2>1, SMT DEF Remove
<1>2. ASSUME NEW o \in Objects, NEW v \in Versions, Apply(o, v)
      PROVE  TypeInv'
  <2>1. cluster' \in Caches
    BY <1>2, SetCacheType DEF Apply
  <2> QED
    BY <1>2, <2>1, SMT DEF Apply
<1>3. ASSUME NEW g \in Gateways, GatewayRestarts(g)
      PROVE  TypeInv'
  BY <1>3, KongClientAssumption, NilAssumption, SMT DEF GatewayRestarts, Fault
<1>4. ASSUME NEW g \in Gateways, ClientReady(g)
      PROVE  TypeInv'
  BY <1>4, SMT DEF ClientReady
<1>5. ASSUME NEW g \in Gateways, ClientLost(g)
      PROVE  TypeInv'
  BY <1>5, KongClientAssumption, SMT DEF ClientLost, Fault
<1>6. CASE ControllerRestarts
  <2>1. faults' \in 0..MaxFaults
    BY <1>6, KongClientAssumption, SMT DEF ControllerRestarts, Fault
  <2>2. SHAs' \in [n : Nat, sha : Configs \cup {Nil}]
    BY <1>6 DEF ControllerRestarts, NoSHAs
  <2> QED
    BY <1>6, <2>1, <2>2, EmptyCacheType DEF ControllerRestarts, ForgetUpdate, Pcs
<1> QED
  BY <1>1, <1>2, <1>3, <1>4, <1>5, <1>6 DEF Environment

(* So do the steps of Update up to the translation, and the controllers. *)
LEMMA TranslateTypeInv ==
    /\ TypeInv
    /\ \/ Start \/ Tick \/ SkipUnchangedCache \/ TakeSnapshot \/ StartBuild \/ FinishBuild
       \/ \E o \in Objects : ReadObject(o) \/ Reconcile(o)
    => TypeInv'
<1> USE DEF TypeInv, TypeOK, UpdateOK, Sending, clusterVars, gatewayVars, konnectVars,
            managerVars, storedVars, listVars, updateVars
<1>1. ASSUME TypeInv, Start
      PROVE  TypeInv'
  BY <1>1, SMT DEF Start, Pcs
<1>2. ASSUME TypeInv, Tick
      PROVE  TypeInv'
  <2>1. lastValidState' \in Configs \cup {Nil}
    <3>1. ASSUME NEW g \in ready, loaded[g] # Initial, DBLess
          PROVE  [content |-> loaded[g].content, origin |-> "fetched"] \in Configs
      BY <1>2, <3>1, FetchedType
    <3> QED
      BY <1>2, <3>1, SMT DEF Tick
  <2>2. faults' \in 0..MaxFaults
    BY <1>2, KongClientAssumption, SMT DEF Tick, Fault
  <2> QED
    BY <1>2, <2>1, <2>2, SMT DEF Tick, Pcs
<1>3. ASSUME TypeInv, SkipUnchangedCache
      PROVE  TypeInv'
  BY <1>3, EmptyCacheType, ZenonT(60) DEF SkipUnchangedCache, ReturnNil, ForgetUpdate, Pcs
<1>4. ASSUME TypeInv, TakeSnapshot
      PROVE  TypeInv'
  BY <1>4, BuildType, NilAssumption, NoCacheAssumption, SMT DEF TakeSnapshot, Pcs
<1>5. ASSUME TypeInv, StartBuild
      PROVE  TypeInv'
  BY <1>5, SMT DEF StartBuild, Pcs
<1>6. ASSUME TypeInv, FinishBuild
      PROVE  TypeInv'
  <2>1. target' \in Configs
    BY <1>6, BuildType DEF FinishBuild
  <2>2. pc' \in Pcs
    BY <1>6 DEF FinishBuild, Pcs
  <2>3. FallbackConfiguration => lastSnapshot' # NoCache
    BY <1>6 DEF FinishBuild
  <2> QED
    BY <1>6, <2>1, <2>2, <2>3, NilAssumption, SMT DEF FinishBuild
<1>7. ASSUME TypeInv, NEW o \in Objects, ReadObject(o)
      PROVE  TypeInv'
  <2>1. parsed' \in Caches
    BY <1>7, SetCacheType, CacheValue DEF ReadObject
  <2> QED
    BY <1>7, <2>1, SMT DEF ReadObject
<1>8. ASSUME TypeInv, NEW o \in Objects, Reconcile(o)
      PROVE  TypeInv'
  <2>1. cache' \in Caches
    BY <1>8, SetCacheType, CacheValue DEF Reconcile
  <2> QED
    BY <1>8, <2>1, SMT DEF Reconcile
<1> QED
  BY <1>1, <1>2, <1>3, <1>4, <1>5, <1>6, <1>7, <1>8

(* So does sending to one gateway client after another. *)
LEMMA SendTypeInv ==
    /\ TypeInv
    /\ \/ ListClients \/ ChooseClients
       \/ \E g \in Gateways : \/ SkipUpdate(g) \/ PushAccepted(g) \/ PushRejected(g)
                              \/ PushFailed(g) \/ SyncInterrupted(g)
    => TypeInv'
<1> USE DEF TypeInv, TypeOK, UpdateOK, Sending, clusterVars, gatewayVars, konnectVars,
            managerVars, storedVars, listVars, updateVars, sendUnchanged
<1>1. ASSUME TypeInv, ListClients
      PROVE  TypeInv'
  <2>1. Cardinality(ready) \in Nat
    BY <1>1, CardinalityType
  <2> QED
    <3>1. pc' \in Pcs /\ pc' # "build" /\ pc = "list"
      BY <1>1 DEF ListClients, AfterSendOut, Pcs
    <3>2. /\ nClients' \in Nat /\ nChosen' \in Nat
          /\ old' \in [Gateways -> Configs \cup {Nil}]
      BY <1>1, <2>1 DEF ListClients
    <3>3. /\ clients' \subseteq Gateways /\ toSend' \subseteq Gateways /\ held' \subseteq Gateways
          /\ err' \in {"none", "error", "update"} /\ shasChanged' \in BOOLEAN
          /\ broken' \subseteq Objects \X {UidOf[ov] : ov \in Objects \X Versions}
      BY <1>1 DEF ListClients
    <3>4. UNCHANGED <<clusterVars, gatewayVars, konnectVars, cache, managerVars, storedVars,
                      phase, parsed, toRead, target>>
      BY <1>1 DEF ListClients
    <3> QED
      BY <1>1, <3>1, <3>2, <3>3, <3>4, SMT
<1>2. ASSUME TypeInv, ChooseClients
      PROVE  TypeInv'
  <2>1. PICK chosen \in SUBSET ready :
           /\ nChosen' = Cardinality(chosen)
           /\ toSend' = chosen /\ held' = chosen
           /\ old' = [g \in Gateways |-> IF g \in chosen THEN sha[g] ELSE Nil]
    BY <1>2 DEF ChooseClients
  <2>2. Cardinality(chosen) \in Nat
    BY <1>2, CardinalityType
  <2> QED
    <3>1. /\ nChosen' \in Nat /\ toSend' \subseteq Gateways /\ held' \subseteq Gateways
          /\ old' \in [Gateways -> Configs \cup {Nil}]
      BY <1>2, <2>1, <2>2
    <3>2. /\ pc' = "send"
          /\ UNCHANGED <<clusterVars, gatewayVars, konnectVars, cache, managerVars, storedVars,
                         phase, parsed, toRead, target, nClients, clients, err, broken,
                         shasChanged>>
      BY <1>2 DEF ChooseClients
    <3>3. pc = "choose"
      BY <1>2 DEF ChooseClients
    <3> QED
      BY <1>2, <3>1, <3>2, <3>3, SMT DEF Pcs
<1>3. ASSUME TypeInv, NEW g \in Gateways, SkipUpdate(g)
      PROVE  TypeInv'
  BY <1>3, SMT DEF SkipUpdate, SetLastConfigSHA
<1>4. ASSUME TypeInv, NEW g \in Gateways, PushAccepted(g)
      PROVE  TypeInv'
  <2>1. target \in Configs
    BY <1>4 DEF PushAccepted
  <2>2. loaded' \in [Gateways -> Configs \cup {Initial, Partial}]
    BY <1>4, <2>1, LoadingType DEF PushAccepted
  <2>3. DBLess => \A h \in Gateways : loaded'[h] # Partial
    BY <1>4, <2>1, NilAssumption DEF PushAccepted, Loading
  <2> QED
    BY <1>4, <2>2, <2>3, SMT DEF PushAccepted, SetLastConfigSHA
<1>5. ASSUME TypeInv, NEW g \in Gateways, PushRejected(g)
      PROVE  TypeInv'
  <2>1. target \in Configs
    BY <1>5 DEF PushRejected
  <2>2. loaded' \in [Gateways -> Configs \cup {Initial, Partial}]
    BY <1>5, LoadingType, SMT DEF PushRejected
  <2>3. broken' \subseteq Objects \X {UidOf[ov] : ov \in Objects \X Versions}
    BY <1>5, <2>1, ReportedType DEF PushRejected
  <2> QED
    BY <1>5, <2>2, <2>3, SMT DEF PushRejected
<1>6. ASSUME TypeInv, NEW g \in Gateways, PushFailed(g)
      PROVE  TypeInv'
  <2>1. target \in Configs
    BY <1>6 DEF PushFailed
  <2>2. loaded' \in [Gateways -> Configs \cup {Initial, Partial}]
    BY <1>6, <2>1, LoadingType, SMT DEF PushFailed
  <2>3. DBLess => \A h \in Gateways : loaded'[h] # Partial
    BY <1>6, <2>1, NilAssumption, ZenonT(60) DEF PushFailed, Loading
  <2>4. faults' \in 0..MaxFaults
    BY <1>6, KongClientAssumption, SMT DEF PushFailed, Fault
  <2> QED
    BY <1>6, <2>2, <2>3, <2>4, SMT DEF PushFailed
<1>7. ASSUME TypeInv, NEW g \in Gateways, SyncInterrupted(g)
      PROVE  TypeInv'
  <2>1. loaded' \in [Gateways -> Configs \cup {Initial, Partial}]
    BY <1>7, LoadingType DEF SyncInterrupted
  <2>2. faults' \in 0..MaxFaults
    BY <1>7, KongClientAssumption, SMT DEF SyncInterrupted, Fault
  <2> QED
    BY <1>7, <2>1, <2>2, SMT DEF SyncInterrupted
<1> QED
  BY <1>1, <1>2, <1>3, <1>4, <1>5, <1>6, <1>7

(* The SHAs of a send-out are counted and alike. *)
LEMMA SHAsType ==
    ASSUME NEW n \in Nat, NEW x \in Configs \cup {Nil}
    PROVE  /\ NoSHAs \in [n : Nat, sha : Configs \cup {Nil}]
           /\ [n |-> n, sha |-> x] \in [n : Nat, sha : Configs \cup {Nil}]
  BY DEF NoSHAs

(* So do the steps of Update that follow the sending, recoveries included. *)
LEMMA FinishTypeInv ==
    /\ TypeInv
    /\ \/ SendOutSucceeds \/ SendOutFails
       \/ SkipKonnect \/ KonnectAccepts \/ KonnectFails
       \/ Synced \/ NotRecoverable \/ RecoverWithFallback \/ RecoverWithLastValid \/ Recovered
    => TypeInv'
<1> USE DEF TypeInv, TypeOK, UpdateOK, Sending, clusterVars, gatewayVars, konnectVars,
            managerVars, storedVars, listVars, updateVars, konnectUnchanged, concludeUnchanged
<1>1. ASSUME TypeInv, SendOutSucceeds
      PROVE  TypeInv'
  <2>1. SHAs' \in [n : Nat, sha : Configs \cup {Nil}]
    BY <1>1, SHAsType, SMT DEF SendOutSucceeds
  <2>2. sha' \in [Gateways -> Configs \cup {Nil}]
    BY <1>1 DEF SendOutSucceeds
  <2>3. pc' \in Pcs
    BY <1>1 DEF SendOutSucceeds, AfterSendOut, Pcs
  <2>4. shasChanged' \in BOOLEAN /\ lastValidState' \in Configs \cup {Nil}
    BY <1>1 DEF SendOutSucceeds
  <2> QED
    <3>1. /\ pc = "send"
          /\ UNCHANGED <<clusterVars, gatewayVars, konnectVars, cache, ready, lastValidCache,
                         lastSnapshot, configStatus, reportsFilter, configApplied, phase,
                         parsed, toRead, target, listVars, err, broken>>
      BY <1>1 DEF SendOutSucceeds
    <3>2. pc' # "build"
      BY <1>1 DEF SendOutSucceeds, AfterSendOut
    <3> QED
      BY <1>1, <2>1, <2>2, <2>3, <2>4, <3>1, <3>2, SMT
<1>2. ASSUME TypeInv, SendOutFails
      PROVE  TypeInv'
  <2>1. CASE phase # "fallback"
    BY <1>2, <2>1, SMT DEF SendOutFails, AfterSendOut, Pcs
  <2>2. CASE phase = "fallback" /\ lastValidState # Nil
    <3>1. /\ pc = "send" /\ pc' = "list" /\ phase' = "lastvalid" /\ target' = lastValidState
          /\ UNCHANGED <<configApplied, konnectErr, parsed, toRead, listVars, err, broken,
                         shasChanged>>
      BY <1>2, <2>2 DEF SendOutFails, SendLastValid
    <3>2. UNCHANGED <<clusterVars, gatewayVars, konnectLoaded, konnectSHA, cache, managerVars,
                      lastValidState, lastValidCache, lastSnapshot, SHAs, configStatus,
                      reportsFilter>>
      BY <1>2 DEF SendOutFails
    <3> QED
      BY <1>2, <2>2, <3>1, <3>2, SMT DEF Pcs
  <2>3. CASE phase = "fallback" /\ lastValidState = Nil
    <3>1. pc' = "idle" /\ ForgetUpdate /\ UNCHANGED configApplied
      BY <1>2, <2>3 DEF SendOutFails, SendLastValid, ReturnError
    <3>2. UNCHANGED <<clusterVars, gatewayVars, konnectLoaded, konnectSHA, cache, managerVars,
                      lastValidState, lastValidCache, lastSnapshot, SHAs, configStatus,
                      reportsFilter>>
      BY <1>2 DEF SendOutFails
    <3> QED
      BY <1>2, <3>1, <3>2, EmptyCacheType, ZenonT(60) DEF ForgetUpdate, Pcs
  <2> QED
    BY <2>1, <2>2, <2>3
<1>3. ASSUME TypeInv, SkipKonnect
      PROVE  TypeInv'
  <2>1. /\ konnectErr' \in BOOLEAN /\ pc = "konnect" /\ pc' = "conclude"
        /\ UNCHANGED <<konnectLoaded, konnectSHA, konnectUnchanged>>
    BY <1>3 DEF SkipKonnect
  <2> QED
    BY <1>3, <2>1, SMT DEF Pcs
<1>4. ASSUME TypeInv, KonnectAccepts
      PROVE  TypeInv'
  <2>1. /\ konnectLoaded' = target /\ konnectSHA' = target /\ konnectErr' \in BOOLEAN
        /\ pc = "konnect" /\ pc' = "conclude" /\ UNCHANGED konnectUnchanged
    BY <1>4 DEF KonnectAccepts
  <2> QED
    BY <1>4, <2>1, SMT DEF Pcs
<1>5. ASSUME TypeInv, KonnectFails
      PROVE  TypeInv'
  <2>1. /\ konnectLoaded' \in {konnectLoaded, Partial} /\ konnectErr' \in BOOLEAN
        /\ pc = "konnect" /\ pc' = "conclude" /\ UNCHANGED <<konnectSHA, konnectUnchanged>>
    BY <1>5 DEF KonnectFails
  <2> QED
    BY <1>5, <2>1, SMT DEF Pcs
<1>6. ASSUME TypeInv, UpdateConfigStatus
      PROVE  configStatus' \in Statuses
  BY <1>6, StatusType DEF UpdateConfigStatus
<1>7. ASSUME TypeInv, Synced
      PROVE  TypeInv'
  <2>1. reportsFilter' \in [Objects -> (Versions \X BOOLEAN) \cup {Absent}]
    BY <1>7, ReportType DEF Synced
  <2>2. configStatus' \in Statuses
    BY <1>6, <1>7 DEF Synced
  <2>3. lastValidCache' \in Caches \cup {NoCache}
    BY <1>7 DEF Synced, Preserve
  <2> QED
    BY <1>7, <2>1, <2>2, <2>3, EmptyCacheType DEF Synced, ReturnNil, ForgetUpdate, Pcs
<1>8. ASSUME TypeInv, NotRecoverable
      PROVE  TypeInv'
  <2>1. configStatus' \in Statuses
    BY <1>6, <1>8 DEF NotRecoverable
  <2> QED
    BY <1>8, <2>1, EmptyCacheType, ZenonT(60) DEF NotRecoverable, ReturnError, ForgetUpdate, Pcs
<1>9. ASSUME TypeInv, RecoverWithFallback
      PROVE  TypeInv'
  <2>1. configStatus' \in Statuses
    BY <1>6, <1>9 DEF RecoverWithFallback
  <2>2. lastSnapshot \in Caches
    BY <1>9 DEF RecoverWithFallback
  <2>3. /\ GenerateExcludingBrokenObjects(lastSnapshot, broken) \in Caches
        /\ GenerateBackfillingBrokenObjects(lastSnapshot, lastValidCache, broken) \in Caches
    BY <1>9, <2>2, ExcludingIsCache, BackfillingIsCache
  <2>4. parsed' \in Caches /\ target' = BuildKongConfig(parsed')
    BY <1>9, <2>3 DEF RecoverWithFallback
  <2>5. target' \in Configs
    BY <2>4, BuildType
  <2>6. pc' = "list" /\ phase' = "fallback"
    BY <1>9 DEF RecoverWithFallback
  <2>7. UNCHANGED <<konnectErr, lastValidCache, reportsFilter, configApplied, toRead, listVars,
                    err, broken, shasChanged, concludeUnchanged>>
    BY <1>9 DEF RecoverWithFallback
  <2> QED
    BY <1>9, <2>1, <2>2, <2>4, <2>5, <2>6, <2>7, NilAssumption, NoCacheAssumption, SMT DEF Pcs
<1>10. ASSUME TypeInv, RecoverWithLastValid
       PROVE  TypeInv'
  <2>1. configStatus' \in Statuses
    BY <1>6, <1>10 DEF RecoverWithLastValid
  <2>2. CASE lastValidState # Nil
    <3>1. /\ pc = "conclude" /\ pc' = "list" /\ phase' = "lastvalid"
          /\ target' = lastValidState
          /\ UNCHANGED <<configApplied, konnectErr, parsed, toRead, listVars, err, broken,
                         shasChanged>>
      BY <1>10, <2>2 DEF RecoverWithLastValid, SendLastValid
    <3>2. UNCHANGED <<lastValidCache, reportsFilter, concludeUnchanged>>
      BY <1>10 DEF RecoverWithLastValid
    <3> QED
      BY <1>10, <2>1, <2>2, <3>1, <3>2, SMT DEF Pcs
  <2>3. CASE lastValidState = Nil
    <3>1. pc' = "idle" /\ ForgetUpdate /\ UNCHANGED configApplied
      BY <1>10, <2>3 DEF RecoverWithLastValid, SendLastValid, ReturnError
    <3>2. UNCHANGED <<lastValidCache, reportsFilter, concludeUnchanged>>
      BY <1>10 DEF RecoverWithLastValid
    <3> QED
      BY <1>10, <2>1, <3>1, <3>2, EmptyCacheType, ZenonT(60) DEF ForgetUpdate, Pcs
  <2> QED
    BY <2>2, <2>3
<1>11. ASSUME TypeInv, Recovered
       PROVE  TypeInv'
  <2>1. lastValidCache' \in Caches \cup {NoCache}
    BY <1>11 DEF Recovered, Preserve
  <2> QED
    BY <1>11, <2>1, EmptyCacheType, ZenonT(60) DEF Recovered, ReturnError, ForgetUpdate, Pcs
<1> QED
  BY <1>1, <1>2, <1>3, <1>4, <1>5, <1>7, <1>8, <1>9, <1>10, <1>11

(* Every step keeps the state well typed. *)
LEMMA NextTypeInv == TypeInv /\ [Next]_vars => TypeInv'
<1>1. ASSUME TypeInv, UNCHANGED vars
      PROVE  TypeInv'
  <2>1. TypeOK'
    BY <1>1, SMTT(30) DEF vars, TypeInv, TypeOK, clusterVars, gatewayVars, konnectVars, managerVars,
                            storedVars, listVars, updateVars
  <2>2. UpdateOK'
    BY <1>1 DEF vars, TypeInv, UpdateOK, Sending, clusterVars, gatewayVars, konnectVars, managerVars,
                storedVars, listVars, updateVars
  <2> QED
    BY <2>1, <2>2 DEF TypeInv
<1> QED
  BY <1>1, EnvironmentTypeInv, TranslateTypeInv, SendTypeInv, FinishTypeInv DEF Next, Update

(* No step of the update loop, of a controller or of a failure leaves the  *)
(* types of the state.                                                     *)
THEOREM TypeCorrect == Spec => []TypeOK
<1>1. TypeInv => TypeOK
  BY DEF TypeInv
<1> QED
  BY <1>1, InitTypeInv, NextTypeInv, PTL DEF Spec

-----------------------------------------------------------------------------
(* The clients an Update holds. *)

(* The clients held are in use, what they remembered when they were listed *)
(* is what they remember until they are sent to, and a client that was     *)
(* created anew meanwhile remembers nothing.                               *)
Holding ==
    /\ held \subseteq ready
    /\ toSend # {} => pc = "send"
    /\ \A g \in toSend \cap held : old[g] = sha[g]
    /\ \A g \in (toSend \ held) \cap ready : sha[g] = Nil

(* Every step preserves Holding: listing sets the clients held and what    *)
(* they remember at once, and a client that is dropped is no longer held.  *)
LEMMA NextHolding == TypeInv /\ Holding /\ [Next]_vars => Holding'
<1> SUFFICES ASSUME TypeInv, Holding, [Next]_vars
             PROVE  Holding'
  OBVIOUS
<1> USE DEF Holding
<1>a. sha \in [Gateways -> Configs \cup {Nil}] /\ toSend \subseteq Gateways
  BY DEF TypeInv, TypeOK
<1>1. CASE ListClients
  BY <1>1 DEF ListClients
<1>2. CASE ChooseClients
  <2>1. PICK chosen \in SUBSET ready :
           /\ toSend' = chosen /\ held' = chosen
           /\ old' = [g \in Gateways |-> IF g \in chosen THEN sha[g] ELSE Nil]
    BY <1>2 DEF ChooseClients
  <2>2. ready \subseteq Gateways /\ pc' = "send" /\ UNCHANGED <<ready, sha>>
    BY <1>2 DEF ChooseClients, TypeInv, TypeOK, managerVars
  <2> QED
    BY <2>1, <2>2
<1>3. ASSUME NEW g \in Gateways, SkipUpdate(g) \/ PushAccepted(g)
      PROVE  Holding'
  <2>1. /\ pc = "send" /\ toSend' = toSend \ {g}
        /\ sha' = IF g \in held THEN [sha EXCEPT ![g] = target] ELSE sha
        /\ UNCHANGED <<pc, ready, held, old>>
    BY <1>3 DEF SkipUpdate, PushAccepted, SetLastConfigSHA, sendUnchanged
  <2> QED
    BY <1>a, <2>1
<1>4. ASSUME NEW g \in Gateways, PushRejected(g) \/ PushFailed(g) \/ SyncInterrupted(g)
      PROVE  Holding'
  <2>1. pc = "send" /\ toSend' = toSend \ {g} /\ UNCHANGED <<pc, ready, sha, held, old>>
    BY <1>4 DEF PushRejected, PushFailed, SyncInterrupted, sendUnchanged
  <2> QED
    BY <2>1
<1>5. CASE SendOutSucceeds
  BY <1>5 DEF SendOutSucceeds, listVars
<1>6. CASE SendOutFails
  <2>1. toSend = {} /\ UNCHANGED <<ready, sha>>
    BY <1>6 DEF SendOutFails, managerVars
  <2>2. toSend' = {} /\ held' \in {held, {}}
    BY <1>6 DEF SendOutFails, SendLastValid, ReturnError, ForgetUpdate, listVars
  <2> QED
    BY <2>1, <2>2
<1>7. ASSUME NEW g \in Gateways, ClientReady(g)
      PROVE  Holding'
  <2>1. /\ g \notin ready /\ ready' = ready \cup {g} /\ sha' = [sha EXCEPT ![g] = Nil]
        /\ UNCHANGED <<pc, toSend, held, old>>
    BY <1>7 DEF ClientReady, updateVars, listVars
  <2> QED
    BY <1>a, <2>1
<1>8. ASSUME NEW g \in Gateways, ClientLost(g)
      PROVE  Holding'
  <2>1. ready' = ready \ {g} /\ held' = held \ {g} /\ UNCHANGED <<pc, toSend, sha, old>>
    BY <1>8 DEF ClientLost
  <2> QED
    BY <2>1
<1>9. CASE ForgetUpdate
  BY <1>9 DEF ForgetUpdate
<1>10. CASE pc # "send" /\ UNCHANGED <<ready, sha, listVars>>
  BY <1>10 DEF listVars
<1>11. CASE UNCHANGED <<pc, ready, sha, listVars>>
  BY <1>11 DEF listVars
<1>12. CASE RecoverWithLastValid
  <2>1. pc = "conclude" /\ UNCHANGED <<ready, sha>> /\ (ForgetUpdate \/ UNCHANGED listVars)
    BY <1>12 DEF RecoverWithLastValid, SendLastValid, ReturnError, concludeUnchanged, managerVars
  <2> QED
    BY <1>9, <1>10, <2>1
<1>13. CASE Environment
  BY <1>7, <1>8, <1>9, <1>11, <1>13
     DEF Environment, Remove, Apply, GatewayRestarts, ControllerRestarts, managerVars, updateVars
<1>14. CASE Start \/ Tick \/ SkipUnchangedCache \/ TakeSnapshot \/ StartBuild \/ FinishBuild
  BY <1>9, <1>10, <1>14 DEF Start, Tick, SkipUnchangedCache, ReturnNil, TakeSnapshot, StartBuild,
     FinishBuild, managerVars
<1>15. ASSUME NEW o \in Objects, ReadObject(o) \/ Reconcile(o)
       PROVE  Holding'
  BY <1>11, <1>15 DEF ReadObject, Reconcile, managerVars, updateVars
<1>16. CASE SkipKonnect \/ KonnectAccepts \/ KonnectFails
  BY <1>10, <1>16 DEF SkipKonnect, KonnectAccepts, KonnectFails, konnectUnchanged, managerVars
<1>17. CASE Synced \/ NotRecoverable \/ Recovered
  BY <1>9, <1>17 DEF Synced, NotRecoverable, Recovered, ReturnNil, ReturnError
<1>18. CASE RecoverWithFallback
  BY <1>10, <1>18 DEF RecoverWithFallback, concludeUnchanged, managerVars
<1>19. CASE UNCHANGED vars
  BY <1>11, <1>19 DEF vars, managerVars, updateVars
<1> QED
  BY <1>1, <1>2, <1>3, <1>4, <1>5, <1>6, <1>12, <1>13, <1>14, <1>15, <1>16, <1>17, <1>18, <1>19
     DEF Next, Update

(* No client is held at the start. *)
LEMMA InitHolding == Init => Holding
  BY DEF Init, Started, Holding

-----------------------------------------------------------------------------
(* What gateways without a database run with. *)

(* How a step changes what gateways run with: nothing, a restart, a push   *)
(* that is accepted, or one that is accepted though its answer is lost.    *)
LEMMA LoadedSteps ==
    ASSUME TypeInv, [Next]_vars, DBLess = TRUE
    PROVE  \/ UNCHANGED loaded
           \/ \E g \in Gateways : GatewayRestarts(g)
           \/ \E g \in Gateways : PushAccepted(g)
           \/ LostAnswers /\ \E g \in Gateways : PushFailed(g)
<1>1. CASE Environment
  BY <1>1 DEF Environment, Remove, Apply, ClientReady, ClientLost, ControllerRestarts,
     gatewayVars
<1>2. CASE Start \/ Tick \/ SkipUnchangedCache \/ TakeSnapshot \/ StartBuild \/ FinishBuild
           \/ ListClients \/ ChooseClients
  BY <1>2 DEF Start, Tick, SkipUnchangedCache, TakeSnapshot, StartBuild, FinishBuild,
     ListClients, ChooseClients, gatewayVars
<1>3. ASSUME NEW o \in Objects, ReadObject(o) \/ Reconcile(o)
      PROVE  UNCHANGED loaded
  BY <1>3 DEF ReadObject, Reconcile, gatewayVars
<1>4. ASSUME NEW g \in Gateways,
             \/ SkipUpdate(g) \/ PushRejected(g) \/ SyncInterrupted(g)
             \/ ~LostAnswers /\ PushFailed(g)
      PROVE  UNCHANGED loaded
  BY <1>4 DEF SkipUpdate, PushRejected, SyncInterrupted, PushFailed, gatewayVars
<1>5. CASE SendOutSucceeds \/ SendOutFails \/ SkipKonnect \/ KonnectAccepts \/ KonnectFails
  BY <1>5 DEF SendOutSucceeds, SendOutFails, SkipKonnect, KonnectAccepts, KonnectFails,
     konnectUnchanged, gatewayVars
<1>6. CASE Synced \/ NotRecoverable \/ RecoverWithFallback \/ RecoverWithLastValid \/ Recovered
  BY <1>6 DEF Synced, NotRecoverable, RecoverWithFallback, RecoverWithLastValid, Recovered,
     concludeUnchanged, gatewayVars
<1>7. CASE UNCHANGED vars
  BY <1>7 DEF vars, gatewayVars
<1> QED
  BY <1>1, <1>2, <1>3, <1>4, <1>5, <1>6, <1>7 DEF Next, Update

(* How a step changes what clients remember: nothing, a push or a skip, a  *)
(* client created anew, or a restart that forgets everything.              *)
LEMMA SHASteps ==
    ASSUME TypeInv, [Next]_vars, DBLess = TRUE
    PROVE  \/ UNCHANGED sha /\ ready' \subseteq ready
           \/ \E g \in Gateways : SkipUpdate(g) \/ PushAccepted(g)
           \/ \E g \in Gateways : ClientReady(g)
           \/ ControllerRestarts
<1>1. CASE Environment
  BY <1>1 DEF Environment, Remove, Apply, GatewayRestarts, ClientLost, managerVars
<1>2. CASE Start \/ Tick \/ SkipUnchangedCache \/ TakeSnapshot \/ StartBuild \/ FinishBuild
           \/ ListClients \/ ChooseClients
  BY <1>2 DEF Start, Tick, SkipUnchangedCache, TakeSnapshot, StartBuild, FinishBuild,
     ListClients, ChooseClients, managerVars
<1>3. ASSUME NEW o \in Objects, ReadObject(o) \/ Reconcile(o)
      PROVE  UNCHANGED <<sha, ready>>
  BY <1>3 DEF ReadObject, Reconcile, managerVars
<1>4. ASSUME NEW g \in Gateways, PushRejected(g) \/ SyncInterrupted(g) \/ PushFailed(g)
      PROVE  UNCHANGED <<sha, ready>>
  BY <1>4 DEF PushRejected, SyncInterrupted, PushFailed, sendUnchanged
<1>5. CASE SendOutSucceeds \/ SendOutFails \/ SkipKonnect \/ KonnectAccepts \/ KonnectFails
  BY <1>5 DEF SendOutSucceeds, SendOutFails, SkipKonnect, KonnectAccepts, KonnectFails,
     konnectUnchanged, managerVars
<1>6. CASE Synced \/ NotRecoverable \/ RecoverWithFallback \/ RecoverWithLastValid \/ Recovered
  BY <1>6 DEF Synced, NotRecoverable, RecoverWithFallback, RecoverWithLastValid, Recovered,
     concludeUnchanged, managerVars
<1>7. CASE UNCHANGED vars
  BY <1>7 DEF vars, managerVars
<1> QED
  BY <1>1, <1>2, <1>3, <1>4, <1>5, <1>6, <1>7 DEF Next, Update

Faithful == \A g \in ready : sha[g] # Nil => loaded[g] \in {sha[g], Initial}

(* Every step preserves Faithful: without lost answers a SHA changes only  *)
(* with what the gateway runs with.                                        *)
LEMMA NextFaithful ==
    ASSUME DBLess = TRUE, LostAnswers = FALSE
    PROVE  TypeInv /\ Holding /\ Faithful /\ [Next]_vars => Faithful'
<1> SUFFICES ASSUME TypeInv, Holding, Faithful, [Next]_vars
             PROVE  Faithful'
  OBVIOUS
<1> USE DEF Faithful
<1>a. /\ sha \in [Gateways -> Configs \cup {Nil}] /\ ready \subseteq Gateways
      /\ loaded \in [Gateways -> Configs \cup {Initial, Partial}]
  BY DEF TypeInv, TypeOK
<1>1. ASSUME NEW g \in Gateways, GatewayRestarts(g)
      PROVE  Faithful'
  BY <1>a, <1>1 DEF GatewayRestarts, managerVars
<1>2. ASSUME NEW g \in Gateways, PushAccepted(g)
      PROVE  Faithful'
  <2>1. /\ g \in toSend /\ loaded' = [loaded EXCEPT ![g] = target]
        /\ sha' = IF g \in held THEN [sha EXCEPT ![g] = target] ELSE sha
        /\ UNCHANGED ready
    BY <1>2 DEF PushAccepted, Loading, SetLastConfigSHA, sendUnchanged
  <2> QED
    BY <1>a, <2>1 DEF Holding
<1>3. ASSUME NEW g \in Gateways, SkipUpdate(g)
      PROVE  Faithful'
  <2>1. /\ g \in toSend /\ old[g] = target
        /\ sha' = IF g \in held THEN [sha EXCEPT ![g] = target] ELSE sha
        /\ UNCHANGED <<ready, loaded>>
    BY <1>3 DEF SkipUpdate, NeedsUpdate, HasConfigurationChanged, SetLastConfigSHA, sendUnchanged,
       gatewayVars
  <2> QED
    BY <1>a, <2>1 DEF Holding
<1>4. ASSUME NEW g \in Gateways, ClientReady(g)
      PROVE  Faithful'
  BY <1>a, <1>4 DEF ClientReady, gatewayVars
<1>5. CASE ControllerRestarts
  BY <1>5 DEF ControllerRestarts
<1>6. CASE UNCHANGED <<sha, loaded>> /\ ready' \subseteq ready
  BY <1>6
<1> QED
  BY <1>1, <1>2, <1>3, <1>4, <1>5, <1>6, LoadedSteps, SHASteps

(* PerformUpdate may skip a gateway on the SHA its client remembers:       *)
(* whichever pushes fail, gateways and controllers restart and clients are *)
(* dropped and created anew while an Update uses them, a DB-less gateway   *)
(* runs with what its client remembers or says that it runs with nothing,  *)
(* as long as no push is applied whose answer is lost.                     *)
THEOREM SHAsFaithful ==
    ASSUME DBLess = TRUE, LostAnswers = FALSE
    PROVE  Spec => []SHAFaithful
<1>1. Init => Faithful
  BY DEF Init, Started, Faithful
<1>2. Faithful => SHAFaithful
  BY DEF Faithful, SHAFaithful
<1> QED
  BY <1>1, <1>2, InitTypeInv, NextTypeInv, InitHolding, NextHolding, NextFaithful, PTL DEF Spec

(* While a send-out has no error, whoever was sent to runs with what is    *)
(* sent, or restarted since.                                               *)
Sent ==
    pc \in {"send", "konnect", "conclude"} /\ err = "none" =>
        \A g \in held \ toSend : loaded[g] \in {target, Initial}

FaithfulUnlessLost == LostAnswers \/ Faithful

(* Every step preserves Sent, one client after another. *)
LEMMA NextSent ==
    ASSUME DBLess = TRUE, LostAnswers => EnableReverseSync
    PROVE  TypeInv /\ Holding /\ FaithfulUnlessLost /\ Sent /\ [Next]_vars => Sent'
<1> SUFFICES ASSUME TypeInv, Holding, FaithfulUnlessLost, Sent, [Next]_vars
             PROVE  Sent'
  OBVIOUS
<1> USE DEF Sent
<1>a. /\ loaded \in [Gateways -> Configs \cup {Initial, Partial}] /\ held \subseteq Gateways
      /\ pc \in {"list", "choose", "send", "konnect", "conclude"} => target # Nil
  BY DEF TypeInv, TypeOK, UpdateOK, Sending
<1>1. ASSUME NEW g \in Gateways, GatewayRestarts(g)
      PROVE  Sent'
  <2>1. loaded' = [loaded EXCEPT ![g] = Initial] /\ UNCHANGED <<pc, err, held, toSend, target>>
    BY <1>1 DEF GatewayRestarts, updateVars, listVars
  <2> QED
    BY <1>a, <2>1
<1>2. ASSUME NEW g \in Gateways, PushAccepted(g)
      PROVE  Sent'
  <2>1. /\ loaded' = [loaded EXCEPT ![g] = target] /\ toSend' = toSend \ {g} /\ pc = "send"
        /\ UNCHANGED <<pc, err, held, target>>
    BY <1>2 DEF PushAccepted, Loading, sendUnchanged
  <2> QED
    BY <1>a, <2>1
<1>3. ASSUME NEW g \in Gateways, SkipUpdate(g)
      PROVE  Sent'
  <2>1. /\ g \in toSend /\ old[g] = target /\ ~EnableReverseSync /\ pc = "send"
        /\ toSend' = toSend \ {g} /\ UNCHANGED <<pc, err, held, target, loaded>>
    BY <1>3 DEF SkipUpdate, NeedsUpdate, HasConfigurationChanged, sendUnchanged, gatewayVars
  <2>2. g \in held => loaded[g] \in {target, Initial}
    BY <1>a, <2>1 DEF Holding, FaithfulUnlessLost, Faithful
  <2> QED
    BY <2>1, <2>2
<1>4. ASSUME NEW g \in Gateways, PushRejected(g) \/ PushFailed(g) \/ SyncInterrupted(g)
      PROVE  Sent'
  BY <1>4 DEF PushRejected, PushFailed, SyncInterrupted
<1>5. CASE ListClients
  BY <1>5 DEF ListClients
<1>6. CASE ChooseClients
  BY <1>6 DEF ChooseClients
<1>7. CASE SendOutSucceeds
  BY <1>7 DEF SendOutSucceeds, AfterSendOut, listVars, gatewayVars
<1>8. CASE SendOutFails
  BY <1>8 DEF SendOutFails, AfterSendOut, SendLastValid, ReturnError, listVars
<1>9. CASE SkipKonnect \/ KonnectAccepts \/ KonnectFails
  BY <1>9 DEF SkipKonnect, KonnectAccepts, KonnectFails, konnectUnchanged, listVars, gatewayVars
<1>10. CASE Synced \/ NotRecoverable \/ RecoverWithFallback \/ RecoverWithLastValid \/ Recovered
  BY <1>10 DEF Synced, NotRecoverable, RecoverWithFallback, RecoverWithLastValid, Recovered,
     ReturnNil, ReturnError, SendLastValid
<1>11. ASSUME NEW g \in Gateways, ClientLost(g)
       PROVE  Sent'
  BY <1>11 DEF ClientLost
<1>12. CASE pc' \notin {"send", "konnect", "conclude"}
  BY <1>12
<1>13. CASE UNCHANGED <<pc, err, held, toSend, target, loaded>>
  BY <1>13
<1>14. CASE Environment
  BY <1>1, <1>11, <1>12, <1>13, <1>14 DEF Environment, Remove, Apply, ClientReady,
     ControllerRestarts, gatewayVars, updateVars, listVars
<1>15. CASE Start \/ Tick \/ SkipUnchangedCache \/ TakeSnapshot \/ StartBuild \/ FinishBuild
  BY <1>12, <1>15 DEF Start, Tick, SkipUnchangedCache, ReturnNil, TakeSnapshot, StartBuild,
     FinishBuild
<1>16. ASSUME NEW o \in Objects, ReadObject(o) \/ Reconcile(o)
       PROVE  Sent'
  BY <1>13, <1>16 DEF ReadObject, Reconcile, gatewayVars, updateVars, listVars
<1>17. CASE UNCHANGED vars
  BY <1>13, <1>17 DEF vars, gatewayVars, updateVars, listVars
<1> QED
  BY <1>2, <1>3, <1>4, <1>5, <1>6, <1>7, <1>8, <1>9, <1>10, <1>14, <1>15, <1>16, <1>17
     DEF Next, Update

(* When sendOutToGatewayClients returns no error, the DB-less gateways run *)
(* with what it sent, the ones it skipped included, unless they restarted  *)
(* since; answers may be lost if --enable-reverse-sync is set.             *)
THEOREM SendOutLoaded ==
    ASSUME DBLess = TRUE, LostAnswers => EnableReverseSync
    PROVE  Spec => []SendOutLoads
<1>1. Init => FaithfulUnlessLost /\ Sent
  BY DEF Init, Started, FaithfulUnlessLost, Faithful, Sent
<1>2. TypeInv /\ Holding /\ FaithfulUnlessLost /\ [Next]_vars => FaithfulUnlessLost'
  <2>1. CASE LostAnswers = TRUE
    BY <2>1 DEF FaithfulUnlessLost
  <2>2. CASE LostAnswers = FALSE
    BY <2>2, NextFaithful DEF FaithfulUnlessLost
  <2> QED
    BY <2>1, <2>2, KongClientAssumption
<1>3. Holding /\ Sent => SendOutLoads
  BY DEF Holding, Sent, SendOutLoads
<1> QED
  BY <1>1, <1>2, <1>3, InitTypeInv, NextTypeInv, InitHolding, NextHolding, NextSent, PTL DEF Spec

-----------------------------------------------------------------------------
(* Validity of what is stored. *)

(* Whether a gateway would reject a configuration depends on its objects.  *)
LEMMA FetchedIsAsValid ==
    ASSUME NEW cfg
    PROVE  Rejectable([content |-> cfg.content, origin |-> "fetched"]) <=> Rejectable(cfg)
  BY DEF Rejectable, BrokenObjects

(* Without discovery there is always a gateway to send to, so whatever a   *)
(* send-out without error leaves behind was accepted by one.               *)
Validity ==
    /\ ready = Gateways
    /\ \A g \in Gateways : loaded[g] \in Configs => ~Rejectable(loaded[g])
    /\ \A g \in Gateways : sha[g] # Nil => ~Rejectable(sha[g])
    /\ \A g \in Gateways : old[g] # Nil => ~Rejectable(old[g])
    /\ LastValidIsValid
    /\ pc = "send" /\ err = "none" /\ toSend = {} => ~Rejectable(target)
    /\ pc \in {"konnect", "conclude"} /\ err = "none" => ~Rejectable(target)

(* Every step preserves Validity.  Clients that do not come and go leave   *)
(* no send-out without a client, the case in which a configuration no      *)
(* gateway has seen is stored as valid.                                    *)
LEMMA NextValidity ==
    ASSUME Discovery = FALSE
    PROVE  TypeInv /\ Validity /\ [Next]_vars => Validity'
<1> SUFFICES ASSUME TypeInv, Validity, [Next]_vars
             PROVE  Validity'
  OBVIOUS
<1> USE DEF Validity, LastValidIsValid
<1>a. /\ loaded \in [Gateways -> Configs \cup {Initial, Partial}]
      /\ sha \in [Gateways -> Configs \cup {Nil}] /\ old \in [Gateways -> Configs \cup {Nil}]
      /\ toSend \subseteq Gateways /\ clients \subseteq Gateways
      /\ target \in Configs \cup {Nil} /\ lastValidState \in Configs \cup {Nil}
      /\ pc \in {"list", "choose", "send", "konnect", "conclude"} => target # Nil
      /\ DBLess => \A g \in Gateways : loaded[g] # Partial
  BY DEF TypeInv, TypeOK, UpdateOK, Sending
<1>1. ASSUME NEW g \in Gateways, GatewayRestarts(g)
      PROVE  Validity'
  <2>1. /\ loaded' = [loaded EXCEPT ![g] = Initial]
        /\ UNCHANGED <<ready, sha, old, lastValidState, pc, err, toSend, target>>
    BY <1>1 DEF GatewayRestarts, managerVars, storedVars, updateVars, listVars
  <2> QED
    BY <1>a, <2>1, NilAssumption
<1>2. CASE ControllerRestarts
  BY <1>2 DEF ControllerRestarts, ForgetUpdate
<1>3. CASE Tick
  <2>1. /\ pc' = "snapshot"
        /\ UNCHANGED <<ready, loaded, sha, old>>
    BY <1>3 DEF Tick, managerVars, listVars
  <2>2. lastValidState' # Nil => ~Rejectable(lastValidState')
    <3>1. ASSUME NEW g \in ready, loaded[g] # Initial, DBLess
          PROVE  ~Rejectable([content |-> loaded[g].content, origin |-> "fetched"])
      BY <1>a, <3>1, FetchedIsAsValid
    <3>2. \/ UNCHANGED lastValidState
          \/ \E g \in ready :
                /\ loaded[g] # Initial /\ DBLess
                /\ lastValidState' = [content |-> loaded[g].content, origin |-> "fetched"]
      BY <1>3 DEF Tick
    <3> QED
      BY <3>1, <3>2
  <2> QED
    BY <2>1, <2>2
<1>4. CASE ListClients
  <2>1. /\ pc' = "choose" /\ old' = [g \in Gateways |-> Nil]
        /\ UNCHANGED <<ready, loaded, sha, lastValidState>>
    BY <1>4, KongClientAssumption DEF ListClients, gatewayVars, managerVars, storedVars
  <2> QED
    BY <2>1
<1>5. CASE ChooseClients
  <2>1. PICK chosen \in SUBSET ready :
           /\ chosen = {} => ready = {}
           /\ toSend' = chosen
           /\ old' = [g \in Gateways |-> IF g \in chosen THEN sha[g] ELSE Nil]
    BY <1>5 DEF ChooseClients
  <2>2. pc' = "send" /\ UNCHANGED <<ready, loaded, sha, lastValidState>>
    BY <1>5 DEF ChooseClients, gatewayVars, managerVars, storedVars
  <2>3. toSend' # {}
    BY <2>1, KongClientAssumption
  <2>4. \A g \in Gateways : old'[g] # Nil => ~Rejectable(old'[g])
    BY <2>1
  <2> QED
    BY <2>2, <2>3, <2>4
<1>6. ASSUME NEW g \in Gateways, SkipUpdate(g)
      PROVE  Validity'
  <2>1. /\ old[g] = target /\ pc = "send"
        /\ sha' = IF g \in held THEN [sha EXCEPT ![g] = target] ELSE sha
        /\ UNCHANGED <<ready, loaded, old, lastValidState, pc, err, target>>
    BY <1>6 DEF SkipUpdate, NeedsUpdate, HasConfigurationChanged, SetLastConfigSHA, sendUnchanged,
       gatewayVars, storedVars
  <2>2. ~Rejectable(target)
    BY <1>a, <2>1
  <2> QED
    BY <1>a, <2>1, <2>2
<1>7. ASSUME NEW g \in Gateways, NEW cfg, ~Rejectable(cfg) \/ cfg = Partial,
             loaded' = Loading(g, cfg)
      PROVE  \A h \in Gateways : loaded'[h] \in Configs => ~Rejectable(loaded'[h])
  BY <1>a, <1>7, NilAssumption DEF Loading
<1>8. ASSUME NEW g \in Gateways, PushAccepted(g)
      PROVE  Validity'
  <2>1. /\ ~Rejectable(target) /\ pc = "send" /\ loaded' = Loading(g, target)
        /\ sha' = IF g \in held THEN [sha EXCEPT ![g] = target] ELSE sha
        /\ UNCHANGED <<ready, old, lastValidState, pc, err, target>>
    BY <1>8 DEF PushAccepted, SetLastConfigSHA, sendUnchanged, storedVars
  <2>2. \A h \in Gateways : loaded'[h] \in Configs => ~Rejectable(loaded'[h])
    BY <1>7, <2>1
  <2>3. \A h \in Gateways : sha'[h] # Nil => ~Rejectable(sha'[h])
    BY <1>a, <2>1
  <2> QED
    BY <2>1, <2>2, <2>3
<1>9. ASSUME NEW g \in Gateways, PushRejected(g) \/ PushFailed(g) \/ SyncInterrupted(g)
      PROVE  Validity'
  <2>1. /\ pc = "send" /\ err' # "none"
        /\ UNCHANGED <<ready, sha, old, lastValidState, pc>>
    BY <1>9 DEF PushRejected, PushFailed, SyncInterrupted, sendUnchanged, storedVars
  <2>2. \/ UNCHANGED loaded
        \/ loaded' = Loading(g, Partial)
        \/ ~Rejectable(target) /\ loaded' = Loading(g, target)
    BY <1>9 DEF PushRejected, PushFailed, SyncInterrupted
  <2>3. \A h \in Gateways : loaded'[h] \in Configs => ~Rejectable(loaded'[h])
    BY <1>7, <2>2
  <2> QED
    BY <2>1, <2>3
<1>10. CASE SendOutSucceeds
  <2>1. ~Rejectable(target)
    BY <1>10 DEF SendOutSucceeds
  <2>2. /\ sha' \in {sha, [g \in Gateways |-> IF g \in clients THEN target ELSE sha[g]]}
        /\ lastValidState' \in {lastValidState, target}
        /\ UNCHANGED <<ready, loaded, old, target>>
    BY <1>10 DEF SendOutSucceeds, gatewayVars, listVars
  <2>3. pc' # "send"
    BY <1>10 DEF SendOutSucceeds, AfterSendOut
  <2> QED
    BY <1>a, <2>1, <2>2, <2>3
<1>11. CASE SendOutFails
  <2>1. /\ pc' # "send" /\ UNCHANGED <<ready, loaded, sha, lastValidState>>
        /\ old' \in {old, [g \in Gateways |-> Nil]}
        /\ pc' \in {"konnect", "conclude"} => err' # "none"
    BY <1>11 DEF SendOutFails, AfterSendOut, SendLastValid, ReturnError, ForgetUpdate,
       gatewayVars, managerVars, listVars
  <2> QED
    BY <2>1
<1>12. CASE SkipKonnect \/ KonnectAccepts \/ KonnectFails
  <2>1. /\ pc = "konnect" /\ pc' = "conclude"
        /\ UNCHANGED <<ready, loaded, sha, old, lastValidState, err, target>>
    BY <1>12 DEF SkipKonnect, KonnectAccepts, KonnectFails, konnectUnchanged, gatewayVars,
       managerVars, storedVars, listVars
  <2> QED
    BY <2>1
<1>13. CASE Synced \/ NotRecoverable \/ RecoverWithFallback \/ RecoverWithLastValid \/ Recovered
  <2>1. /\ pc' \in {"idle", "list"} /\ old' \in {old, [g \in Gateways |-> Nil]}
        /\ UNCHANGED <<ready, loaded, sha, lastValidState>>
    BY <1>13 DEF Synced, NotRecoverable, RecoverWithFallback, RecoverWithLastValid,
       Recovered, ReturnNil, ReturnError, ForgetUpdate, SendLastValid, concludeUnchanged,
       gatewayVars, managerVars, listVars
  <2> QED
    BY <2>1
<1>14. CASE Start \/ SkipUnchangedCache \/ TakeSnapshot \/ StartBuild \/ FinishBuild
  <2>1. /\ pc' \in {"idle", "list", "build"} /\ old' \in {old, [g \in Gateways |-> Nil]}
        /\ UNCHANGED <<ready, loaded, sha, lastValidState>>
    BY <1>14 DEF Start, SkipUnchangedCache, ReturnNil, ForgetUpdate, TakeSnapshot,
       StartBuild, FinishBuild, gatewayVars, managerVars, storedVars, listVars
  <2> QED
    BY <2>1
<1>15. CASE UNCHANGED <<ready, loaded, sha, old, lastValidState, pc, err, toSend, target>>
  BY <1>15
<1>16. CASE Environment
  BY <1>1, <1>2, <1>15, <1>16 DEF Environment, Remove, Apply, ClientReady, ClientLost,
     gatewayVars, managerVars, storedVars, updateVars, listVars
<1>17. ASSUME NEW o \in Objects, ReadObject(o) \/ Reconcile(o)
       PROVE  Validity'
  BY <1>15, <1>17 DEF ReadObject, Reconcile, gatewayVars, managerVars, storedVars,
     updateVars, listVars
<1>18. CASE UNCHANGED vars
  BY <1>15, <1>18 DEF vars, gatewayVars, managerVars, storedVars, updateVars, listVars
<1> QED
  BY <1>3, <1>4, <1>5, <1>6, <1>8, <1>9, <1>10, <1>11, <1>12, <1>13, <1>14, <1>16, <1>17, <1>18 DEF Next, Update

(* Nothing is stored at the start. *)
LEMMA InitValidity ==
    ASSUME Discovery = FALSE
    PROVE  Init => Validity
  BY NilAssumption DEF Init, Started, Validity, LastValidIsValid

(* The configuration stored to recover with, sent by an Update or read     *)
(* back from a gateway by a restarted controller, is one the gateways      *)
(* accept: with or without a database, with answers that get lost, with    *)
(* fallbacks built from incomplete blame; as long as gateway clients are   *)
(* not discovered.                                                         *)
THEOREM LastValidStaysValid ==
    ASSUME Discovery = FALSE
    PROVE  Spec => []LastValidIsValid
<1>1. Validity => LastValidIsValid
  BY DEF Validity
<1> QED
  BY <1>1, InitTypeInv, NextTypeInv, InitValidity, NextValidity, PTL DEF Spec

(* What is sent is the translation of what was parsed, unless it is the    *)
(* last valid configuration, and a fallback that fails ends there.         *)
Building ==
    /\ Sending /\ phase \in {"main", "fallback"} => target = BuildKongConfig(parsed)
    /\ pc \in {"konnect", "conclude"} /\ phase = "fallback" => err = "none"
    /\ LastValidCacheIsValid

(* Every step preserves Building: the cache preserved is the one the       *)
(* accepted configuration was translated from.                             *)
LEMMA NextBuilding == TypeInv /\ Validity /\ Building /\ [Next]_vars => Building'
<1> SUFFICES ASSUME TypeInv, Validity, Building, [Next]_vars
             PROVE  Building'
  OBVIOUS
<1> USE DEF Building, LastValidCacheIsValid, Sending
<1>a. phase \in {"main", "fallback", "lastvalid"}
  BY DEF TypeInv, TypeOK
<1>1. CASE TakeSnapshot \/ FinishBuild
  <2>1. pc' = "list" /\ target' = BuildKongConfig(parsed') /\ UNCHANGED lastValidCache
    BY <1>1 DEF TakeSnapshot, FinishBuild, storedVars
  <2> QED
    BY <2>1
<1>2. CASE ListClients
  <2>1. err' = "none" /\ pc = "list" /\ UNCHANGED <<phase, parsed, target, lastValidCache>>
    BY <1>2 DEF ListClients, storedVars
  <2> QED
    BY <2>1
<1>3. CASE ChooseClients
  <2>1. pc = "choose" /\ pc' = "send" /\ UNCHANGED <<phase, parsed, target, lastValidCache>>
    BY <1>3 DEF ChooseClients, storedVars
  <2> QED
    BY <2>1
<1>4. ASSUME NEW g \in Gateways,
             \/ SkipUpdate(g) \/ PushAccepted(g) \/ PushRejected(g)
             \/ PushFailed(g) \/ SyncInterrupted(g)
      PROVE  Building'
  <2>1. pc = "send" /\ UNCHANGED <<pc, phase, parsed, target, lastValidCache>>
    BY <1>4 DEF SkipUpdate, PushAccepted, PushRejected, PushFailed, SyncInterrupted,
       sendUnchanged, storedVars
  <2> QED
    BY <2>1
<1>5. CASE SendOutSucceeds
  <2>1. /\ pc = "send" /\ err = "none"
        /\ UNCHANGED <<phase, parsed, target, lastValidCache, err>>
    BY <1>5 DEF SendOutSucceeds
  <2> QED
    BY <2>1
<1>6. CASE SendOutFails /\ phase # "fallback"
  <2>1. pc = "send" /\ UNCHANGED <<phase, parsed, target, lastValidCache>>
    BY <1>6 DEF SendOutFails
  <2> QED
    BY <1>6, <2>1
<1>7. CASE UNCHANGED lastValidCache /\ SendLastValid
  <2>1. (pc' = "list" /\ phase' = "lastvalid") \/ pc' = "idle"
    BY <1>7 DEF SendLastValid, ReturnError
  <2> QED
    BY <1>7, <2>1
<1>8. CASE SendOutFails /\ phase = "fallback"
  BY <1>7, <1>8 DEF SendOutFails
<1>9. CASE SkipKonnect \/ KonnectAccepts \/ KonnectFails
  <2>1. /\ pc = "konnect" /\ pc' = "conclude"
        /\ UNCHANGED <<phase, parsed, target, err, lastValidCache>>
    BY <1>9 DEF SkipKonnect, KonnectAccepts, KonnectFails, konnectUnchanged, storedVars
  <2> QED
    BY <2>1
<1>10. CASE Synced
  <2>1. /\ pc = "conclude" /\ phase = "main" /\ err = "none" /\ pc' = "idle"
        /\ lastValidCache' \in {lastValidCache, parsed}
    BY <1>10 DEF Synced, ReturnNil, Preserve
  <2>2. ~Rejectable(BuildKongConfig(parsed))
    BY <2>1 DEF Validity
  <2> QED
    BY <2>1, <2>2
<1>11. CASE Recovered
  <2>1. /\ pc = "conclude" /\ phase # "main" /\ pc' = "idle"
        /\ \/ phase = "fallback" /\ lastValidCache' \in {lastValidCache, parsed}
           \/ UNCHANGED lastValidCache
    BY <1>11 DEF Recovered, ReturnError, Preserve
  <2>2. phase = "fallback" => ~Rejectable(BuildKongConfig(parsed))
    BY <2>1 DEF Validity
  <2> QED
    BY <2>1, <2>2
<1>12. CASE NotRecoverable
  BY <1>12 DEF NotRecoverable, ReturnError
<1>13. CASE RecoverWithFallback
  <2>1. pc' = "list" /\ target' = BuildKongConfig(parsed') /\ UNCHANGED lastValidCache
    BY <1>13 DEF RecoverWithFallback
  <2> QED
    BY <2>1
<1>14. CASE RecoverWithLastValid
  BY <1>7, <1>14 DEF RecoverWithLastValid
<1>15. CASE Start \/ Tick \/ SkipUnchangedCache \/ StartBuild
  <2>1. pc' \in {"idle", "snapshot", "build"} /\ UNCHANGED lastValidCache
    BY <1>15 DEF Start, Tick, SkipUnchangedCache, ReturnNil, StartBuild, storedVars
  <2> QED
    BY <2>1
<1>16. ASSUME NEW o \in Objects, ReadObject(o)
       PROVE  Building'
  BY <1>16 DEF ReadObject, storedVars
<1>17. CASE UNCHANGED <<phase, pc, parsed, target, err, lastValidCache>>
  BY <1>17
<1>18. CASE ControllerRestarts
  BY <1>18 DEF ControllerRestarts
<1>19. CASE Environment \/ \E o \in Objects : Reconcile(o)
  BY <1>17, <1>18, <1>19 DEF Environment, Remove, Apply, GatewayRestarts, ClientReady,
     ClientLost, Reconcile, storedVars, updateVars
<1>20. CASE UNCHANGED vars
  BY <1>17, <1>20 DEF vars, storedVars, updateVars
<1> QED
  BY <1>1, <1>2, <1>3, <1>4, <1>5, <1>6, <1>8, <1>9, <1>10, <1>11, <1>12, <1>13, <1>14, <1>15,
     <1>16, <1>19, <1>20 DEF Next, Update

(* The cache preserved to backfill from is one whose translation the       *)
(* gateways accept, though it may itself be a fallback that was backfilled *)
(* over many rounds of rejections; as long as gateway clients are not      *)
(* discovered.                                                             *)
THEOREM LastValidCacheStaysValid ==
    ASSUME Discovery = FALSE
    PROVE  Spec => []LastValidCacheIsValid
<1>1. Init => Building
  BY DEF Init, Started, Building, LastValidCacheIsValid, Sending
<1>2. Building => LastValidCacheIsValid
  BY DEF Building
<1> QED
  BY <1>1, <1>2, InitTypeInv, NextTypeInv, InitValidity, NextValidity, NextBuilding, PTL DEF Spec

-----------------------------------------------------------------------------
(* Readiness of the controller. *)

(* Whoever is about to report success has sent something to someone. *)
Readiness ==
    /\ ready = Gateways
    /\ configApplied => SHAs # NoSHAs
    /\ pc = "send" => nChosen # 0
    /\ pc \in {"konnect", "conclude"} /\ err = "none" => SHAs # NoSHAs

(* Every step preserves Readiness: Update only returns nil after a send-   *)
(* out that configured a gateway.                                          *)
LEMMA NextReadiness ==
    ASSUME Discovery = FALSE, FallbackConfiguration = FALSE
    PROVE  TypeInv /\ Readiness /\ [Next]_vars => Readiness'
<1> SUFFICES ASSUME TypeInv, Readiness, [Next]_vars
             PROVE  Readiness'
  OBVIOUS
<1> USE DEF Readiness
<1>1. CASE ListClients
  <2>1. pc' = "choose" /\ UNCHANGED <<ready, configApplied, SHAs>>
    BY <1>1, KongClientAssumption DEF ListClients, managerVars, storedVars
  <2> QED
    BY <2>1
<1>2. CASE ChooseClients
  <2>1. PICK chosen \in SUBSET ready :
           /\ chosen = {} => ready = {}
           /\ nChosen' = Cardinality(chosen)
    BY <1>2 DEF ChooseClients
  <2>2. Cardinality(chosen) # 0
    BY <2>1, CardinalityType, FS_EmptySet, KongClientAssumption
  <2>3. pc' = "send" /\ UNCHANGED <<ready, configApplied, SHAs>>
    BY <1>2 DEF ChooseClients, managerVars, storedVars
  <2> QED
    BY <2>1, <2>2, <2>3
<1>3. ASSUME NEW g \in Gateways,
             \/ SkipUpdate(g) \/ PushAccepted(g) \/ PushRejected(g)
             \/ PushFailed(g) \/ SyncInterrupted(g)
      PROVE  Readiness'
  <2>1. pc = "send" /\ UNCHANGED <<pc, nChosen, ready, configApplied, SHAs>>
    BY <1>3 DEF SkipUpdate, PushAccepted, PushRejected, PushFailed, SyncInterrupted,
       sendUnchanged, storedVars
  <2> QED
    BY <2>1
<1>4. CASE SendOutSucceeds
  <2>1. [n |-> nChosen, sha |-> target] # NoSHAs
    BY <1>4 DEF SendOutSucceeds, NoSHAs
  <2>2. UNCHANGED <<ready, configApplied>> /\ pc' # "send"
    BY <1>4 DEF SendOutSucceeds, AfterSendOut
  <2>3. (pc' = "panicked" /\ UNCHANGED SHAs) \/ SHAs' = [n |-> nChosen, sha |-> target]
    BY <1>4 DEF SendOutSucceeds
  <2> QED
    BY <2>1, <2>2, <2>3
<1>5. CASE SendOutFails
  <2>1. /\ pc' # "send" /\ UNCHANGED <<ready, configApplied, SHAs>>
        /\ pc' \in {"konnect", "conclude"} => err' # "none"
    BY <1>5 DEF SendOutFails, AfterSendOut, SendLastValid, ReturnError, managerVars
  <2> QED
    BY <2>1
<1>6. CASE SkipKonnect \/ KonnectAccepts \/ KonnectFails
  <2>1. pc = "konnect" /\ pc' = "conclude" /\ UNCHANGED <<ready, configApplied, SHAs, err>>
    BY <1>6 DEF SkipKonnect, KonnectAccepts, KonnectFails, konnectUnchanged, managerVars, storedVars
  <2> QED
    BY <2>1
<1>7. CASE Synced
  <2>1. pc = "conclude" /\ err = "none" /\ pc' = "idle" /\ UNCHANGED <<ready, SHAs>>
    BY <1>7 DEF Synced, ReturnNil, concludeUnchanged, managerVars
  <2> QED
    BY <2>1
<1>8. CASE NotRecoverable \/ RecoverWithFallback \/ RecoverWithLastValid \/ Recovered
  <2>1. pc' \in {"idle", "list"} /\ UNCHANGED <<ready, configApplied, SHAs>>
    BY <1>8 DEF NotRecoverable, RecoverWithFallback, RecoverWithLastValid, Recovered, ReturnError,
       SendLastValid, concludeUnchanged, managerVars
  <2> QED
    BY <2>1
<1>9. CASE Start \/ Tick \/ SkipUnchangedCache \/ TakeSnapshot \/ StartBuild \/ FinishBuild
  <2>1. /\ pc' \in {"idle", "snapshot", "list", "build"}
        /\ UNCHANGED <<ready, configApplied, SHAs>>
    BY <1>9 DEF Start, Tick, SkipUnchangedCache, TakeSnapshot, StartBuild, FinishBuild,
       managerVars, storedVars
  <2> QED
    BY <2>1
<1>10. CASE UNCHANGED <<ready, configApplied, SHAs, pc, nChosen, err>>
  BY <1>10
<1>11. CASE ControllerRestarts
  BY <1>11 DEF ControllerRestarts
<1>12. CASE Environment
  BY <1>10, <1>11, <1>12 DEF Environment, Remove, Apply, GatewayRestarts, ClientReady,
     ClientLost, managerVars, storedVars, updateVars, listVars
<1>13. ASSUME NEW o \in Objects, ReadObject(o) \/ Reconcile(o)
       PROVE  Readiness'
  BY <1>10, <1>13 DEF ReadObject, Reconcile, managerVars, storedVars, updateVars,
     listVars
<1>14. CASE UNCHANGED vars
  BY <1>10, <1>14 DEF vars, managerVars, storedVars, updateVars, listVars
<1> QED
  BY <1>1, <1>2, <1>3, <1>4, <1>5, <1>6, <1>7, <1>8, <1>9, <1>12, <1>13, <1>14 DEF
     Next, Update

(* IsReady is true only after a configuration was sent to some gateway     *)
(* without an error, through any sequence of failures, rejections,         *)
(* recoveries and restarts; without discovery, which may leave no gateway  *)
(* to send to, and FallbackConfiguration, which skips unchanged caches.    *)
THEOREM ReadyOnlyAfterSync ==
    ASSUME Discovery = FALSE, FallbackConfiguration = FALSE
    PROVE  Spec => []ReadyAfterSync
<1>1. Init => Readiness
  BY DEF Init, Started, Readiness
<1>2. Readiness => ReadyAfterSync
  BY DEF Readiness, ReadyAfterSync
<1> QED
  BY <1>1, <1>2, InitTypeInv, NextTypeInv, NextReadiness, PTL DEF Spec

-----------------------------------------------------------------------------
(* What a push takes away. *)

(* The objects of c existed, and those that still exist as they are in c   *)
(* are in the cache, once the controllers had the time to fill it.         *)
KnownIn(c, w, cl, ca, running) ==
    \A o \in Objects :
        c[o] # Absent => /\ <<o, c[o]>> \in w
                         /\ running /\ c[o] = cl[o] => ca[o] = cl[o]

Known(c) == KnownIn(c, written, cluster, cache, pc # "waiting")

Translated(c) == \A o \in Objects : c[o] # Absent => <<o, c[o]>> \notin Untranslatable

(* All that is kept of caches and configurations is known. *)
AllKnown ==
    /\ \A o \in Objects : cluster[o] # Absent => <<o, cluster[o]>> \in written
    /\ Known(cache) /\ Known(parsed)
    /\ lastSnapshot # NoCache => Known(lastSnapshot)
    /\ lastValidCache # NoCache => Known(lastValidCache)
    /\ \A cfg \in {loaded[g] : g \in Gateways} \cup {target, lastValidState} :
          cfg \in Configs => Known(cfg.content) /\ Translated(cfg.content)

(* What is read of the cache is no older than what the gateways run with.  *)
Fresh ==
    /\ toRead # {} => pc = "build"
    /\ Sending /\ phase = "main" => target = BuildKongConfig(parsed)
    /\ pc = "build" \/ (Sending /\ phase = "main") =>
         \A g \in Gateways, o \in Objects \ toRead :
            loaded[g] \in Configs /\ cluster[o] # Absent /\ loaded[g].content[o] = cluster[o]
              => parsed[o] = cluster[o]

(* Nothing is kept or read at the start. *)
LEMMA InitKnown == Init => AllKnown /\ Fresh
<1> SUFFICES ASSUME Init
             PROVE  AllKnown /\ Fresh
  OBVIOUS
<1>1. \A o \in Objects : EmptyCache[o] = Absent
  BY DEF EmptyCache
<1>2. \A w, cl, ca, r : KnownIn(EmptyCache, w, cl, ca, r)
  BY <1>1 DEF KnownIn
<1>3. \A cfg \in {loaded[g] : g \in Gateways} \cup {target, lastValidState} : cfg \notin Configs
  BY NilAssumption DEF Init, Started
<1> QED
  BY <1>1, <1>2, <1>3 DEF Init, Started, AllKnown, Known, Fresh, Sending

(* What is known stays known. *)
LEMMA KnownStays ==
    ASSUME TypeInv, AllKnown, [Next]_vars, InitWaitSuffices = TRUE,
           NEW c, Known(c)
    PROVE  KnownIn(c, written', cluster', cache', pc' # "waiting")
<1>a. cluster \in Caches /\ cache \in Caches
  BY DEF TypeInv, TypeOK
<1> USE DEF Known, KnownIn
<1>1. ASSUME NEW o \in Objects, Remove(o)
      PROVE  KnownIn(c, written', cluster', cache', pc' # "waiting")
  BY <1>a, <1>1 DEF Remove, updateVars, Caches
<1>2. ASSUME NEW o \in Objects, NEW v \in Versions, Apply(o, v)
      PROVE  KnownIn(c, written', cluster', cache', pc' # "waiting")
  BY <1>a, <1>2 DEF Apply, updateVars, Caches
<1>3. ASSUME NEW o \in Objects, Reconcile(o)
      PROVE  KnownIn(c, written', cluster', cache', pc' # "waiting")
  BY <1>a, <1>3 DEF Reconcile, clusterVars, updateVars, Caches
<1>4. CASE ControllerRestarts
  BY <1>4 DEF ControllerRestarts, clusterVars
<1>5. CASE Start
  BY <1>5 DEF Start, clusterVars
<1>6. CASE UNCHANGED <<written, cluster, cache>> /\ (pc' # "waiting" => pc # "waiting")
  BY <1>6
<1>7. ASSUME NEW g \in Gateways, GatewayRestarts(g) \/ ClientReady(g) \/ ClientLost(g)
      PROVE  KnownIn(c, written', cluster', cache', pc' # "waiting")
  BY <1>6, <1>7 DEF GatewayRestarts, ClientReady, ClientLost, clusterVars, updateVars
<1>8. CASE Tick \/ SkipUnchangedCache \/ TakeSnapshot \/ StartBuild \/ FinishBuild
           \/ ListClients \/ ChooseClients
  BY <1>6, <1>8 DEF Tick, SkipUnchangedCache, TakeSnapshot, StartBuild, FinishBuild,
     ListClients, ChooseClients, clusterVars
<1>9. ASSUME NEW o \in Objects, ReadObject(o)
      PROVE  KnownIn(c, written', cluster', cache', pc' # "waiting")
  BY <1>6, <1>9 DEF ReadObject, clusterVars
<1>10. ASSUME NEW g \in Gateways,
              \/ SkipUpdate(g) \/ PushAccepted(g) \/ PushRejected(g)
              \/ PushFailed(g) \/ SyncInterrupted(g)
       PROVE  KnownIn(c, written', cluster', cache', pc' # "waiting")
  BY <1>6, <1>10 DEF SkipUpdate, PushAccepted, PushRejected, PushFailed,
     SyncInterrupted, sendUnchanged, clusterVars
<1>11. CASE SendOutSucceeds \/ SendOutFails \/ SkipKonnect \/ KonnectAccepts \/ KonnectFails
  BY <1>6, <1>11 DEF SendOutSucceeds, SendOutFails, SkipKonnect, KonnectAccepts,
     KonnectFails, konnectUnchanged, clusterVars
<1>12. CASE Synced \/ NotRecoverable \/ RecoverWithFallback \/ RecoverWithLastValid \/ Recovered
  BY <1>6, <1>12 DEF Synced, NotRecoverable, RecoverWithFallback,
     RecoverWithLastValid, Recovered, concludeUnchanged, clusterVars
<1>13. CASE UNCHANGED vars
  BY <1>6, <1>13 DEF vars, clusterVars, updateVars
<1> QED
  BY <1>1, <1>2, <1>3, <1>4, <1>5, <1>7, <1>8, <1>9, <1>10, <1>11, <1>12, <1>13
     DEF Next, Update, Environment

Fetched(g) == [content |-> loaded[g].content, origin |-> "fetched"]

(* Where what is kept comes from. *)
ParsedFrom ==
    \/ parsed' \in {parsed, EmptyCache, cache}
    \/ \E o \in Objects : parsed' = [parsed EXCEPT ![o] = cache[o]]
    \/ /\ lastSnapshot \in Caches
       /\ parsed' \in {GenerateExcludingBrokenObjects(lastSnapshot, broken),
                       GenerateBackfillingBrokenObjects(lastSnapshot, lastValidCache, broken)}

StoredFrom ==
    /\ lastSnapshot' \in {lastSnapshot, NoCache, cache}
    /\ lastValidCache' \in {lastValidCache, NoCache, parsed}
    /\ target' \in {target, Nil, BuildKongConfig(parsed'), lastValidState}
    /\ \/ lastValidState' \in {lastValidState, Nil, target}
       \/ \E g \in Gateways : loaded[g] \in Configs /\ lastValidState' = Fetched(g)
    /\ \A g \in Gateways : loaded'[g] \in {loaded[g], Initial, Partial, target}

(* Every step copies what it keeps from there. *)
LEMMA KeptSteps ==
    ASSUME TypeInv, [Next]_vars
    PROVE  ParsedFrom /\ StoredFrom
<1> USE DEF ParsedFrom, StoredFrom
<1>a. /\ loaded \in [Gateways -> Configs \cup {Initial, Partial}] /\ ready \subseteq Gateways
      /\ DBLess => \A g \in Gateways : loaded[g] # Partial
  BY DEF TypeInv, TypeOK, UpdateOK
<1>b. ASSUME NEW g \in Gateways, NEW cfg \in {Partial, target}, loaded' = Loading(g, cfg)
      PROVE  \A h \in Gateways : loaded'[h] \in {loaded[h], Initial, Partial, target}
  BY <1>a, <1>b DEF Loading
<1>1. CASE UNCHANGED <<parsed, lastSnapshot, lastValidCache, target, lastValidState, loaded>>
  BY <1>1
<1>2. ASSUME NEW g \in Gateways, GatewayRestarts(g)
      PROVE  ParsedFrom /\ StoredFrom
  <2>1. \A h \in Gateways : loaded'[h] \in {loaded[h], Initial, Partial, target}
    BY <1>a, <1>2 DEF GatewayRestarts
  <2> QED
    BY <1>2, <2>1 DEF GatewayRestarts, storedVars, updateVars
<1>3. CASE ControllerRestarts
  BY <1>3 DEF ControllerRestarts, ForgetUpdate
<1>4. CASE Environment
  BY <1>1, <1>2, <1>3, <1>4 DEF Environment, Remove, Apply, ClientReady, ClientLost,
     gatewayVars, storedVars, updateVars
<1>5. CASE Tick
  <2>1. \/ UNCHANGED lastValidState
        \/ \E g \in Gateways : loaded[g] \in Configs /\ lastValidState' = Fetched(g)
    <3>1. ASSUME NEW g \in ready, loaded[g] # Initial, DBLess
          PROVE  g \in Gateways /\ loaded[g] \in Configs
      BY <1>a, <3>1
    <3> QED
      BY <1>5, <3>1 DEF Tick, Fetched
  <2>2. UNCHANGED <<parsed, lastSnapshot, lastValidCache, target, loaded>>
    BY <1>5 DEF Tick
  <2> QED
    BY <2>1, <2>2
<1>6. CASE SkipUnchangedCache
  BY <1>6 DEF SkipUnchangedCache, ReturnNil, ForgetUpdate, gatewayVars
<1>7. CASE TakeSnapshot
  BY <1>7 DEF TakeSnapshot, gatewayVars
<1>8. CASE Start \/ StartBuild \/ ListClients \/ ChooseClients
  BY <1>1, <1>8 DEF Start, StartBuild, ListClients, ChooseClients, gatewayVars,
     storedVars
<1>9. CASE FinishBuild
  BY <1>9 DEF FinishBuild, gatewayVars, storedVars
<1>10. ASSUME NEW o \in Objects, ReadObject(o)
       PROVE  ParsedFrom /\ StoredFrom
  BY <1>10 DEF ReadObject, gatewayVars, storedVars
<1>11. ASSUME NEW o \in Objects, Reconcile(o)
       PROVE  ParsedFrom /\ StoredFrom
  BY <1>1, <1>11 DEF Reconcile, gatewayVars, storedVars, updateVars
<1>12. ASSUME NEW g \in Gateways,
              \/ SkipUpdate(g) \/ PushAccepted(g) \/ PushRejected(g)
              \/ PushFailed(g) \/ SyncInterrupted(g)
       PROVE  ParsedFrom /\ StoredFrom
  <2>1. UNCHANGED <<parsed, lastSnapshot, lastValidCache, target, lastValidState>>
    BY <1>12 DEF SkipUpdate, PushAccepted, PushRejected, PushFailed, SyncInterrupted,
       sendUnchanged, storedVars
  <2>2. \/ UNCHANGED loaded
        \/ \E cfg \in {Partial, target} : loaded' = Loading(g, cfg)
    BY <1>12 DEF SkipUpdate, PushAccepted, PushRejected, PushFailed, SyncInterrupted, gatewayVars
  <2> QED
    BY <1>b, <2>1, <2>2
<1>13. CASE SendOutSucceeds
  BY <1>13 DEF SendOutSucceeds, gatewayVars
<1>14. CASE SendOutFails
  BY <1>14 DEF SendOutFails, SendLastValid, ReturnError, ForgetUpdate, gatewayVars
<1>15. CASE SkipKonnect \/ KonnectAccepts \/ KonnectFails
  BY <1>1, <1>15 DEF SkipKonnect, KonnectAccepts, KonnectFails, konnectUnchanged,
     gatewayVars, storedVars
<1>16. CASE Synced \/ NotRecoverable \/ Recovered
  BY <1>16 DEF Synced, NotRecoverable, Recovered, ReturnNil, ReturnError,
     ForgetUpdate, Preserve, concludeUnchanged, gatewayVars
<1>17. CASE RecoverWithFallback
  <2>1. lastSnapshot \in Caches
    BY <1>17 DEF RecoverWithFallback, TypeInv, TypeOK, UpdateOK, Sending
  <2> QED
    BY <1>17, <2>1 DEF RecoverWithFallback, concludeUnchanged, gatewayVars
<1>18. CASE RecoverWithLastValid
  BY <1>18 DEF RecoverWithLastValid, SendLastValid, ReturnError, ForgetUpdate, concludeUnchanged,
     gatewayVars
<1>19. CASE UNCHANGED vars
  BY <1>1, <1>19 DEF vars, gatewayVars, storedVars, updateVars
<1> QED
  BY <1>4, <1>5, <1>6, <1>7, <1>8, <1>9, <1>10, <1>11, <1>12, <1>13, <1>14, <1>15, <1>16, <1>17,
     <1>18, <1>19 DEF Next, Update

(* A translation has no objects but those of the cache that translate. *)
LEMMA TranslationKnown ==
    ASSUME NEW c, Known(c)
    PROVE  /\ Known(BuildKongConfig(c).content)
           /\ Translated(BuildKongConfig(c).content)
<1>1. BuildKongConfig(c).content = Translation(c)
  BY DEF BuildKongConfig
<1>2. ASSUME NEW o \in Objects, Translation(c)[o] # Absent
      PROVE  Translation(c)[o] = c[o] /\ <<o, c[o]>> \notin Untranslatable
  BY <1>2 DEF Translation, Translatable
<1> QED
  BY <1>1, <1>2 DEF Known, KnownIn, Translated

(* A fallback has no objects but those of the caches it is made from. *)
LEMMA FallbackKnown ==
    ASSUME AllKnown, NEW c \in Caches, Known(c), NEW b,
           lastValidCache \in Caches \cup {NoCache}
    PROVE  /\ Known(GenerateExcludingBrokenObjects(c, b))
           /\ Known(GenerateBackfillingBrokenObjects(c, lastValidCache, b))
<1> DEFINE e == GenerateExcludingBrokenObjects(c, b)
           f == GenerateBackfillingBrokenObjects(c, lastValidCache, b)
<1>1. \A o \in Objects : e[o] \in {Absent, c[o]}
  BY DEF GenerateExcludingBrokenObjects
<1>2. Known(e)
  BY <1>1 DEF Known, KnownIn
<1>3. CASE lastValidCache = NoCache
  BY <1>2, <1>3 DEF GenerateBackfillingBrokenObjects
<1>4. CASE lastValidCache # NoCache
  <2>1. \A o \in Objects : f[o] \in {lastValidCache[o], e[o]}
    BY <1>4 DEF GenerateBackfillingBrokenObjects
  <2>2. Known(lastValidCache)
    BY <1>4 DEF AllKnown
  <2> QED
    BY <1>2, <2>1, <2>2 DEF Known, KnownIn
<1> QED
  BY <1>2, <1>3, <1>4

(* Whatever the next state keeps is known in this one: objects are only    *)
(* copied from one kept cache or configuration to another.                 *)
LEMMA KeptKnown ==
    ASSUME TypeInv, AllKnown, [Next]_vars
    PROVE  /\ Known(parsed')
           /\ lastSnapshot' # NoCache => Known(lastSnapshot')
           /\ lastValidCache' # NoCache => Known(lastValidCache')
           /\ \A cfg \in {loaded'[g] : g \in Gateways} \cup {target', lastValidState'} :
                 cfg \in Configs => Known(cfg.content) /\ Translated(cfg.content)
<1>a. /\ cache \in Caches /\ parsed \in Caches
      /\ lastSnapshot \in Caches \cup {NoCache} /\ lastValidCache \in Caches \cup {NoCache}
      /\ Known(cache) /\ Known(parsed)
      /\ lastSnapshot # NoCache => Known(lastSnapshot)
      /\ lastValidCache # NoCache => Known(lastValidCache)
      /\ \A cfg \in {loaded[g] : g \in Gateways} \cup {target, lastValidState} :
            cfg \in Configs => Known(cfg.content) /\ Translated(cfg.content)
  BY DEF TypeInv, TypeOK, AllKnown
<1>b. Known(EmptyCache)
  BY DEF Known, KnownIn, EmptyCache
<1>1. ParsedFrom /\ StoredFrom
  BY KeptSteps
<1>2. Known(parsed')
  <2>1. CASE parsed' \in {parsed, EmptyCache, cache}
    BY <1>a, <1>b, <2>1
  <2>2. ASSUME NEW o \in Objects, parsed' = [parsed EXCEPT ![o] = cache[o]]
        PROVE  Known(parsed')
    <3>1. \A p \in Objects : parsed'[p] \in {parsed[p], cache[p]}
      BY <1>a, <2>2 DEF Caches
    <3> QED
      BY <1>a, <3>1 DEF Known, KnownIn
  <2>3. CASE /\ lastSnapshot \in Caches
             /\ parsed' \in {GenerateExcludingBrokenObjects(lastSnapshot, broken),
                   GenerateBackfillingBrokenObjects(lastSnapshot, lastValidCache, broken)}
    <3>1. lastSnapshot # NoCache
      BY <2>3, NoCacheAssumption
    <3> QED
      BY <1>a, <2>3, <3>1, FallbackKnown
  <2> QED
    BY <1>1, <2>1, <2>2, <2>3 DEF ParsedFrom
<1>3. /\ lastSnapshot' # NoCache => Known(lastSnapshot')
      /\ lastValidCache' # NoCache => Known(lastValidCache')
  BY <1>1, <1>a DEF StoredFrom
<1>4. ASSUME target' \in Configs
      PROVE  Known(target'.content) /\ Translated(target'.content)
  <2>1. CASE target' = BuildKongConfig(parsed')
    BY <1>2, <2>1, TranslationKnown
  <2>2. CASE target' # BuildKongConfig(parsed')
    <3>1. target' \in {target, lastValidState}
      BY <1>1, <1>4, <2>2, NilAssumption DEF StoredFrom
    <3> QED
      BY <1>a, <1>4, <3>1
  <2> QED
    BY <2>1, <2>2
<1>5. ASSUME lastValidState' \in Configs
      PROVE  Known(lastValidState'.content) /\ Translated(lastValidState'.content)
  <2>1. CASE lastValidState' \in {lastValidState, Nil, target}
    BY <1>a, <1>5, <2>1, NilAssumption
  <2>2. ASSUME NEW g \in Gateways, loaded[g] \in Configs, lastValidState' = Fetched(g)
        PROVE  Known(lastValidState'.content) /\ Translated(lastValidState'.content)
    BY <1>a, <2>2 DEF Fetched
  <2> QED
    BY <1>1, <2>1, <2>2 DEF StoredFrom
<1>6. ASSUME NEW g \in Gateways, loaded'[g] \in Configs
      PROVE  Known(loaded'[g].content) /\ Translated(loaded'[g].content)
  <2>1. loaded'[g] \in {loaded[g], target}
    BY <1>1, <1>6, NilAssumption DEF StoredFrom
  <2> QED
    BY <1>a, <1>6, <2>1
<1> QED
  BY <1>2, <1>3, <1>4, <1>5, <1>6

(* The cache holds objects the cluster had. *)
LEMMA CacheKnown ==
    ASSUME TypeInv, AllKnown, [Next]_vars
    PROVE  /\ \A o \in Objects : cluster'[o] # Absent => <<o, cluster'[o]>> \in written'
           /\ KnownIn(cache', written', cluster', cache', pc' # "waiting")
<1>a. /\ cluster \in Caches /\ cache \in Caches
      /\ \A o \in Objects : cluster[o] # Absent => <<o, cluster[o]>> \in written
      /\ \A o \in Objects : cache[o] # Absent => <<o, cache[o]>> \in written
  BY DEF TypeInv, TypeOK, AllKnown, Known, KnownIn
<1> SUFFICES
      /\ \A o \in Objects : cluster'[o] # Absent => <<o, cluster'[o]>> \in written'
      /\ \A o \in Objects : cache'[o] # Absent => <<o, cache'[o]>> \in written'
  BY DEF KnownIn
<1>1. CASE UNCHANGED <<clusterVars, cache>>
  BY <1>a, <1>1 DEF clusterVars
<1>2. ASSUME NEW o \in Objects, Remove(o) \/ \E v \in Versions : Apply(o, v)
      PROVE  /\ \A p \in Objects : cluster'[p] # Absent => <<p, cluster'[p]>> \in written'
             /\ \A p \in Objects : cache'[p] # Absent => <<p, cache'[p]>> \in written'
  BY <1>a, <1>2 DEF Remove, Apply, Caches
<1>3. ASSUME NEW o \in Objects, Reconcile(o)
      PROVE  /\ \A p \in Objects : cluster'[p] # Absent => <<p, cluster'[p]>> \in written'
             /\ \A p \in Objects : cache'[p] # Absent => <<p, cache'[p]>> \in written'
  BY <1>a, <1>3 DEF Reconcile, clusterVars, Caches
<1>4. CASE ControllerRestarts
  BY <1>a, <1>4 DEF ControllerRestarts, clusterVars, EmptyCache
<1>5. ASSUME NEW g \in Gateways, GatewayRestarts(g) \/ ClientReady(g) \/ ClientLost(g)
      PROVE  UNCHANGED <<clusterVars, cache>>
  BY <1>5 DEF GatewayRestarts, ClientReady, ClientLost
<1>6. CASE Update
  <2>1. CASE Start \/ Tick \/ SkipUnchangedCache \/ TakeSnapshot \/ StartBuild \/ FinishBuild
             \/ ListClients \/ ChooseClients \/ \E o \in Objects : ReadObject(o)
    BY <1>1, <2>1 DEF Start, Tick, SkipUnchangedCache, TakeSnapshot, StartBuild,
       FinishBuild, ListClients, ChooseClients, ReadObject
  <2>2. ASSUME NEW g \in Gateways,
               \/ SkipUpdate(g) \/ PushAccepted(g) \/ PushRejected(g)
               \/ PushFailed(g) \/ SyncInterrupted(g)
        PROVE  UNCHANGED <<clusterVars, cache>>
    BY <2>2 DEF SkipUpdate, PushAccepted, PushRejected, PushFailed, SyncInterrupted, sendUnchanged
  <2>3. CASE SendOutSucceeds \/ SendOutFails \/ SkipKonnect \/ KonnectAccepts \/ KonnectFails
    BY <1>1, <2>3 DEF SendOutSucceeds, SendOutFails, SkipKonnect, KonnectAccepts,
       KonnectFails, konnectUnchanged
  <2>4. CASE Synced \/ NotRecoverable \/ RecoverWithFallback \/ RecoverWithLastValid \/ Recovered
    BY <1>1, <2>4 DEF Synced, NotRecoverable, RecoverWithFallback,
       RecoverWithLastValid, Recovered, concludeUnchanged
  <2> QED
    BY <1>1, <1>6, <2>1, <2>2, <2>3, <2>4 DEF Update
<1>7. CASE UNCHANGED vars
  BY <1>1, <1>7 DEF vars
<1> QED
  BY <1>1, <1>2, <1>3, <1>4, <1>5, <1>6, <1>7 DEF Next, Environment

(* Every step keeps what is kept known. *)
LEMMA NextKnown ==
    ASSUME TypeInv, AllKnown, [Next]_vars, InitWaitSuffices = TRUE
    PROVE  AllKnown'
<1>1. \A c : Known(c) => KnownIn(c, written', cluster', cache', pc' # "waiting")
  BY KnownStays
<1>2. /\ KnownIn(parsed', written', cluster', cache', pc' # "waiting")
      /\ lastSnapshot' # NoCache =>
            KnownIn(lastSnapshot', written', cluster', cache', pc' # "waiting")
      /\ lastValidCache' # NoCache =>
            KnownIn(lastValidCache', written', cluster', cache', pc' # "waiting")
      /\ \A cfg \in {loaded'[g] : g \in Gateways} \cup {target', lastValidState'} :
            cfg \in Configs =>
               /\ KnownIn(cfg.content, written', cluster', cache', pc' # "waiting")
               /\ Translated(cfg.content)
  BY <1>1, KeptKnown
<1> QED
  BY <1>2, CacheKnown DEF AllKnown, Known

(* Only a push gives a gateway another configuration. *)
LEMMA OnlyPushesLoad ==
    ASSUME TypeInv, [Next]_vars, NEW g \in Gateways,
           loaded'[g] \in Configs, loaded'[g] # loaded[g]
    PROVE  /\ pc = "send" /\ UNCHANGED <<clusterVars, pc, phase, parsed, toRead, target>>
           /\ loaded'[g] = target
<1>a. loaded \in [Gateways -> Configs \cup {Initial, Partial}]
  BY DEF TypeInv, TypeOK
<1>b. UNCHANGED loaded => FALSE
  OBVIOUS
<1>1. ASSUME NEW h \in Gateways, GatewayRestarts(h)
      PROVE  FALSE
  BY <1>a, <1>1, NilAssumption DEF GatewayRestarts
<1>2. CASE Environment
  BY <1>b, <1>1, <1>2 DEF Environment, Remove, Apply, ClientReady, ClientLost,
     ControllerRestarts, gatewayVars
<1>3. ASSUME NEW h \in Gateways, SkipUpdate(h) \/ PushRejected(h) \/ SyncInterrupted(h)
      PROVE  FALSE
  <2>1. UNCHANGED loaded \/ loaded' = Loading(h, Partial)
    BY <1>3 DEF SkipUpdate, PushRejected, SyncInterrupted, gatewayVars
  <2> QED
    BY <1>a, <2>1, NilAssumption DEF Loading
<1>4. ASSUME NEW h \in Gateways, PushAccepted(h) \/ PushFailed(h)
      PROVE  /\ pc = "send" /\ UNCHANGED <<clusterVars, pc, phase, parsed, toRead, target>>
             /\ loaded'[g] = target
  <2>1. pc = "send" /\ UNCHANGED <<clusterVars, pc, phase, parsed, toRead, target>>
    BY <1>4 DEF PushAccepted, PushFailed, sendUnchanged
  <2>2. UNCHANGED loaded \/ loaded' = Loading(h, target)
    BY <1>4 DEF PushAccepted, PushFailed
  <2>3. loaded'[g] = target
    BY <1>a, <2>2 DEF Loading
  <2> QED
    BY <2>1, <2>3
<1>5. CASE \/ Start \/ Tick \/ SkipUnchangedCache \/ TakeSnapshot \/ StartBuild \/ FinishBuild
           \/ ListClients \/ ChooseClients
           \/ \E o \in Objects : ReadObject(o) \/ Reconcile(o)
  BY <1>b, <1>5 DEF Start, Tick, SkipUnchangedCache, TakeSnapshot, StartBuild,
     FinishBuild, ListClients, ChooseClients, ReadObject, Reconcile, gatewayVars
<1>6. CASE SendOutSucceeds \/ SendOutFails \/ SkipKonnect \/ KonnectAccepts \/ KonnectFails
  BY <1>b, <1>6 DEF SendOutSucceeds, SendOutFails, SkipKonnect, KonnectAccepts,
     KonnectFails, konnectUnchanged, gatewayVars
<1>7. CASE Synced \/ NotRecoverable \/ RecoverWithFallback \/ RecoverWithLastValid \/ Recovered
  BY <1>b, <1>7 DEF Synced, NotRecoverable, RecoverWithFallback, RecoverWithLastValid,
     Recovered, concludeUnchanged, gatewayVars
<1>8. CASE UNCHANGED vars
  BY <1>b, <1>8 DEF vars, gatewayVars
<1> QED
  BY <1>2, <1>3, <1>4, <1>5, <1>6, <1>7, <1>8 DEF Next, Update

(* Where the update server is, and what it has read, after a step. *)
LEMMA FreshSteps ==
    ASSUME TypeInv, Fresh, [Next]_vars
    PROVE  /\ toRead' # {} => pc' = "build"
           /\ Sending' /\ phase' = "main" => target' = BuildKongConfig(parsed')
<1>a. /\ toRead # {} => pc = "build"
      /\ Sending /\ phase = "main" => target = BuildKongConfig(parsed)
  BY DEF Fresh
<1> USE <1>a DEF Sending
<1>1. CASE UNCHANGED <<pc, phase, parsed, toRead, target>>
  BY <1>1
<1>2. CASE Environment \/ \E o \in Objects : Reconcile(o)
  BY <1>1, <1>2 DEF Environment, Remove, Apply, GatewayRestarts, ClientReady,
     ClientLost, ControllerRestarts, ForgetUpdate, Reconcile, updateVars
<1>3. CASE Start \/ Tick \/ SkipUnchangedCache
  BY <1>3 DEF Start, Tick, SkipUnchangedCache, ReturnNil, ForgetUpdate
<1>4. CASE TakeSnapshot
  BY <1>4 DEF TakeSnapshot
<1>5. CASE StartBuild \/ FinishBuild \/ \E o \in Objects : ReadObject(o)
  BY <1>5 DEF StartBuild, FinishBuild, ReadObject
<1>6. CASE ListClients \/ ChooseClients
  BY <1>6 DEF ListClients, ChooseClients, AfterSendOut
<1>7. ASSUME NEW g \in Gateways,
             \/ SkipUpdate(g) \/ PushAccepted(g) \/ PushRejected(g)
             \/ PushFailed(g) \/ SyncInterrupted(g)
      PROVE  UNCHANGED <<pc, phase, parsed, toRead, target>>
  BY <1>7 DEF SkipUpdate, PushAccepted, PushRejected, PushFailed, SyncInterrupted,
     sendUnchanged
<1>8. CASE SendOutSucceeds
  BY <1>8 DEF SendOutSucceeds, AfterSendOut
<1>9. CASE SendOutFails
  BY <1>9 DEF SendOutFails, AfterSendOut, SendLastValid, ReturnError, ForgetUpdate
<1>10. CASE SkipKonnect \/ KonnectAccepts \/ KonnectFails
  BY <1>10 DEF SkipKonnect, KonnectAccepts, KonnectFails, konnectUnchanged
<1>11. CASE Synced \/ NotRecoverable \/ Recovered
  BY <1>11 DEF Synced, NotRecoverable, Recovered, ReturnNil, ReturnError, ForgetUpdate
<1>12. CASE RecoverWithFallback \/ RecoverWithLastValid
  BY <1>12 DEF RecoverWithFallback, RecoverWithLastValid, SendLastValid, ReturnError, ForgetUpdate
<1>13. CASE UNCHANGED vars
  BY <1>1, <1>13 DEF vars, updateVars
<1> QED
  BY <1>1, <1>2, <1>3, <1>4, <1>5, <1>6, <1>7, <1>8, <1>9, <1>10, <1>11, <1>12, <1>13
     DEF Next, Update

(* While it is read or sent, what was read of an object stays, and it is   *)
(* what the running controller had in its cache when it read it.           *)
Reading == pc = "build" \/ (Sending /\ phase = "main")

(* What is read of an object comes from the cache of a controller that     *)
(* runs, or was read before and stays.                                     *)
LEMMA ReadSteps ==
    ASSUME TypeInv, [Next]_vars, Reading', NEW o \in Objects \ toRead'
    PROVE  \/ pc # "waiting" /\ parsed'[o] = cache[o]
           \/ Reading /\ o \notin toRead /\ parsed'[o] = parsed[o]
<1> USE DEF Reading, Sending
<1>1. CASE UNCHANGED <<pc, phase, parsed, toRead>>
  BY <1>1
<1>2. CASE Environment \/ \E p \in Objects : Reconcile(p)
  BY <1>1, <1>2 DEF Environment, Remove, Apply, GatewayRestarts, ClientReady,
     ClientLost, ControllerRestarts, Reconcile, updateVars
<1>3. CASE Start \/ Tick \/ SkipUnchangedCache
  BY <1>3 DEF Start, Tick, SkipUnchangedCache, ReturnNil
<1>4. CASE TakeSnapshot \/ StartBuild
  BY <1>4 DEF TakeSnapshot, StartBuild
<1>5. ASSUME NEW p \in Objects, ReadObject(p)
      PROVE  \/ pc # "waiting" /\ parsed'[o] = cache[o]
             \/ Reading /\ o \notin toRead /\ parsed'[o] = parsed[o]
  <2>1. parsed \in Caches
    BY DEF TypeInv, TypeOK
  <2> QED
    BY <1>5, <2>1 DEF ReadObject, Caches
<1>6. CASE FinishBuild \/ ListClients \/ ChooseClients
  BY <1>6 DEF FinishBuild, ListClients, ChooseClients, AfterSendOut
<1>7. ASSUME NEW g \in Gateways,
             \/ SkipUpdate(g) \/ PushAccepted(g) \/ PushRejected(g)
             \/ PushFailed(g) \/ SyncInterrupted(g)
      PROVE  UNCHANGED <<pc, phase, parsed, toRead>>
  BY <1>7 DEF SkipUpdate, PushAccepted, PushRejected, PushFailed, SyncInterrupted,
     sendUnchanged
<1>8. CASE SendOutSucceeds
  BY <1>8 DEF SendOutSucceeds, AfterSendOut
<1>9. CASE SendOutFails
  BY <1>9 DEF SendOutFails, AfterSendOut, SendLastValid, ReturnError
<1>10. CASE SkipKonnect \/ KonnectAccepts \/ KonnectFails
  BY <1>10 DEF SkipKonnect, KonnectAccepts, KonnectFails, konnectUnchanged
<1>11. CASE Synced \/ NotRecoverable \/ Recovered
  BY <1>11 DEF Synced, NotRecoverable, Recovered, ReturnNil, ReturnError
<1>12. CASE RecoverWithFallback \/ RecoverWithLastValid
  BY <1>12 DEF RecoverWithFallback, RecoverWithLastValid, SendLastValid, ReturnError
<1>13. CASE UNCHANGED vars
  BY <1>1, <1>13 DEF vars, updateVars
<1> QED
  BY <1>1, <1>2, <1>3, <1>4, <1>5, <1>6, <1>7, <1>8, <1>9, <1>10, <1>11, <1>12, <1>13
     DEF Next, Update

(* The cluster only changes by versions that never existed. *)
LEMMA ClusterSteps ==
    ASSUME TypeInv, [Next]_vars, NEW o \in Objects, cluster'[o] # cluster[o]
    PROVE  cluster'[o] = Absent \/ <<o, cluster'[o]>> \notin written
<1>a. cluster \in Caches
  BY DEF TypeInv, TypeOK
<1>1. CASE UNCHANGED cluster
  BY <1>1
<1>2. ASSUME NEW p \in Objects, Remove(p)
      PROVE  cluster'[o] = Absent
  BY <1>a, <1>2 DEF Remove, Caches
<1>3. ASSUME NEW p \in Objects, NEW v \in Versions, Apply(p, v)
      PROVE  <<o, cluster'[o]>> \notin written
  BY <1>a, <1>3 DEF Apply, Caches
<1>4. ASSUME NEW g \in Gateways,
             \/ GatewayRestarts(g) \/ ClientReady(g) \/ ClientLost(g)
             \/ SkipUpdate(g) \/ PushAccepted(g) \/ PushRejected(g)
             \/ PushFailed(g) \/ SyncInterrupted(g)
      PROVE  UNCHANGED cluster
  BY <1>4 DEF GatewayRestarts, ClientReady, ClientLost, SkipUpdate, PushAccepted,
     PushRejected, PushFailed, SyncInterrupted, sendUnchanged, clusterVars
<1>5. CASE \/ ControllerRestarts \/ Start \/ Tick \/ SkipUnchangedCache \/ TakeSnapshot
           \/ StartBuild \/ FinishBuild \/ ListClients \/ ChooseClients
           \/ \E p \in Objects : ReadObject(p) \/ Reconcile(p)
  BY <1>1, <1>5 DEF ControllerRestarts, Start, Tick, SkipUnchangedCache, TakeSnapshot,
     StartBuild, FinishBuild, ListClients, ChooseClients, ReadObject, Reconcile, clusterVars
<1>6. CASE SendOutSucceeds \/ SendOutFails \/ SkipKonnect \/ KonnectAccepts \/ KonnectFails
  BY <1>1, <1>6 DEF SendOutSucceeds, SendOutFails, SkipKonnect, KonnectAccepts,
     KonnectFails, konnectUnchanged, clusterVars
<1>7. CASE Synced \/ NotRecoverable \/ RecoverWithFallback \/ RecoverWithLastValid \/ Recovered
  BY <1>1, <1>7 DEF Synced, NotRecoverable, RecoverWithFallback, RecoverWithLastValid,
     Recovered, concludeUnchanged, clusterVars
<1>8. CASE UNCHANGED vars
  BY <1>1, <1>8 DEF vars, clusterVars
<1> QED
  BY <1>1, <1>2, <1>3, <1>4, <1>5, <1>6, <1>7, <1>8 DEF Next, Update, Environment

(* Every step keeps what was read fresh: the cache is only read when it is *)
(* no older than what the gateways run with.                               *)
LEMMA NextFresh ==
    ASSUME TypeInv, AllKnown, Fresh, [Next]_vars
    PROVE  Fresh'
<1> SUFFICES ASSUME Reading', NEW g \in Gateways, NEW o \in Objects \ toRead',
                    loaded'[g] \in Configs, cluster'[o] # Absent,
                    loaded'[g].content[o] = cluster'[o]
             PROVE  parsed'[o] = cluster'[o]
  BY FreshSteps DEF Fresh, Reading
<1>1. CASE loaded'[g] # loaded[g]
  <2>1. /\ pc = "send" /\ UNCHANGED <<cluster, pc, phase, parsed>>
        /\ loaded'[g] = target
    BY <1>1, OnlyPushesLoad DEF clusterVars
  <2>2. target = BuildKongConfig(parsed)
    BY <2>1 DEF Fresh, Reading, Sending
  <2>3. Translation(parsed)[o] # Absent => Translation(parsed)[o] = parsed[o]
    BY DEF Translation
  <2>4. BuildKongConfig(parsed).content = Translation(parsed)
    BY DEF BuildKongConfig
  <2>5. Translation(parsed)[o] = cluster'[o] /\ parsed'[o] = parsed[o]
    BY <2>1, <2>2, <2>4
  <2> QED
    BY <2>3, <2>5
<1>2. CASE loaded'[g] = loaded[g]
  <2>1. Known(loaded[g].content)
    BY <1>2 DEF AllKnown
  <2>2. cluster'[o] = cluster[o]
    BY <1>2, <2>1, ClusterSteps DEF Known, KnownIn
  <2>3. CASE pc # "waiting" /\ parsed'[o] = cache[o]
    BY <1>2, <2>1, <2>2, <2>3 DEF Known, KnownIn
  <2>4. CASE Reading /\ o \notin toRead /\ parsed'[o] = parsed[o]
    BY <1>2, <2>2, <2>4 DEF Fresh, Reading
  <2> QED
    BY <2>3, <2>4, ReadSteps
<1> QED
  BY <1>1, <1>2

(* PushKeepsUnchanged: a push of the current configuration never takes     *)
(* away from a running gateway an object that the cluster still has        *)
(* unchanged, whatever is edited, reconciled, restarted or lost while      *)
(* Update runs, as long as the initial wait fills the cache.               *)
THEOREM PushesKeepUnchanged ==
    ASSUME InitWaitSuffices = TRUE
    PROVE  Spec => PushKeepsUnchanged
<1>1. Init => TypeInv /\ AllKnown /\ Fresh
  BY InitTypeInv, InitKnown
<1>2. TypeInv /\ AllKnown /\ Fresh /\ [Next]_vars => (TypeInv /\ AllKnown /\ Fresh)'
  BY NextTypeInv, NextKnown, NextFresh
<1>3. ASSUME TypeInv, AllKnown, Fresh, [Next]_vars, phase = "main",
             NEW g \in Gateways, NEW o \in Objects,
             {loaded[g], loaded'[g]} \cap {Initial, Partial} = {},
             cluster[o] # Absent, loaded[g].content[o] = cluster[o]
      PROVE  loaded'[g].content[o] = cluster[o]
  <2>1. loaded[g] \in Configs /\ loaded'[g] \in Configs
    BY <1>3, NextTypeInv DEF TypeInv, TypeOK
  <2>2. CASE loaded'[g] = loaded[g]
    BY <1>3, <2>2
  <2>3. CASE loaded'[g] # loaded[g]
    <3>1. pc = "send" /\ loaded'[g] = target
      BY <1>3, <2>1, <2>3, OnlyPushesLoad
    <3>2. toRead = {} /\ target = BuildKongConfig(parsed)
      BY <1>3, <3>1 DEF Fresh, Sending
    <3>3. parsed[o] = cluster[o]
      BY <1>3, <2>1, <3>1, <3>2 DEF Fresh, Sending
    <3>4. <<o, cluster[o]>> \notin Untranslatable
      BY <1>3, <2>1 DEF AllKnown, Translated
    <3>5. Translation(parsed)[o] = cluster[o]
      BY <1>3, <3>3, <3>4 DEF Translation, Translatable
    <3>6. target.content = Translation(parsed)
      BY <3>2 DEF BuildKongConfig
    <3> QED
      BY <3>1, <3>5, <3>6
  <2> QED
    BY <2>2, <2>3
<1>4. TypeInv /\ AllKnown /\ Fresh /\ [Next]_vars =>
        [phase = "main" =>
           \A g \in Gateways, o \in Objects :
              /\ {loaded[g], loaded'[g]} \cap {Initial, Partial} = {}
              /\ cluster[o] # Absent /\ loaded[g].content[o] = cluster[o]
              => loaded'[g].content[o] = cluster[o]]_vars
  BY <1>3
<1> QED
  BY <1>1, <1>2, <1>4, PTL DEF Spec, PushKeepsUnchanged

-----------------------------------------------------------------------------
(* What a fallback by exclusion leaves configured. *)

(* The objects of a cache a rejection of its translation names. *)
BrokenIn(c) == {GetObjectHash(c, o) : o \in BrokenObjects(BuildKongConfig(c))}

FallbackOf(c) == GenerateExcludingBrokenObjects(c, BrokenIn(c))

(* A configuration has of a cache what does not depend on those. *)
Isolated(cfg, c) ==
    /\ cfg \in Configs
    /\ \A o \in Objects \ AffectedObjects(c, BrokenIn(c)) : cfg.content[o] = Translation(c)[o]

(* A broken object is in the cache as it is in its translation. *)
LEMMA BrokenAsCached ==
    ASSUME NEW c \in Caches, NEW o \in BrokenObjects(BuildKongConfig(c))
    PROVE  /\ o \in Present(c) /\ Translation(c)[o] = c[o] /\ <<o, c[o]>> \in Rejected
           /\ Translatable(c, o)
<1>1. o \in Objects /\ Translation(c)[o] # Absent /\ <<o, Translation(c)[o]>> \in Rejected
  BY DEF BrokenObjects, BuildKongConfig
<1>2. Translation(c)[o] = IF Translatable(c, o) THEN c[o] ELSE Absent
  BY <1>1 DEF Translation
<1>3. Translatable(c, o) /\ Translation(c)[o] = c[o]
  BY <1>1, <1>2
<1> QED
  BY <1>1, <1>3 DEF Present, Translatable

(* A gateway that names all it rejects names the broken objects. *)
LEMMA AllReported ==
    ASSUME ReportsAll = TRUE, NEW c \in Caches
    PROVE  ReportedBroken(BuildKongConfig(c)) = {BrokenIn(c)}
<1> DEFINE cfg == BuildKongConfig(c)
<1>1. cfg.content = Translation(c)
  BY DEF BuildKongConfig
<1>2. ASSUME NEW o \in BrokenObjects(cfg)
      PROVE  GetObjectHash(cfg.content, o) = GetObjectHash(c, o)
  BY <1>1, <1>2, BrokenAsCached DEF GetObjectHash
<1>3. {GetObjectHash(cfg.content, o) : o \in BrokenObjects(cfg)} = BrokenIn(c)
  BY <1>2 DEF BrokenIn
<1> HIDE DEF cfg
<1>4. ReportedBroken(cfg) = {BrokenIn(c)}
  BY <1>3 DEF ReportedBroken
<1> QED
  BY <1>4 DEF cfg

(* Broken objects are affected. *)
LEMMA BrokenAffected ==
    ASSUME NEW c \in Caches, NEW o \in BrokenObjects(BuildKongConfig(c))
    PROVE  o \in AffectedObjects(c, BrokenIn(c))
<1>1. o \in Present(c) /\ GetObjectHash(c, o) \in BrokenIn(c)
  BY BrokenAsCached DEF BrokenIn
<1>2. DFS(c, CacheToGraph(c), o) \subseteq AffectedObjects(c, BrokenIn(c))
  BY <1>1, BrokenAreSearched
<1> QED
  BY <1>1, <1>2, DFSContainsStart

(* The fallback has what is not affected as it was. *)
LEMMA FallbackTranslates ==
    ASSUME NEW c \in Caches, NEW o \in Objects
    PROVE  /\ o \notin AffectedObjects(c, BrokenIn(c)) => Translation(FallbackOf(c))[o] = Translation(c)[o]
           /\ o \in AffectedObjects(c, BrokenIn(c)) => Translation(FallbackOf(c))[o] = Absent
<1>1. FallbackOf(c)[o] = IF o \in AffectedObjects(c, BrokenIn(c)) THEN Absent ELSE c[o]
  BY DEF FallbackOf, GenerateExcludingBrokenObjects
<1> QED
  BY <1>1 DEF Translation, Translatable

(* No gateway rejects a fallback by exclusion, once all it rejects was     *)
(* named.                                                                  *)
LEMMA FallbackAccepted ==
    ASSUME NEW c \in Caches
    PROVE  ~Rejectable(BuildKongConfig(FallbackOf(c)))
<1> SUFFICES ASSUME NEW o \in BrokenObjects(BuildKongConfig(FallbackOf(c)))
             PROVE  FALSE
  BY DEF Rejectable
<1>1. o \in Objects /\ Translation(FallbackOf(c))[o] # Absent /\ <<o, Translation(FallbackOf(c))[o]>> \in Rejected
  BY DEF BrokenObjects, BuildKongConfig
<1>2. o \notin AffectedObjects(c, BrokenIn(c)) /\ Translation(FallbackOf(c))[o] = Translation(c)[o]
  BY <1>1, FallbackTranslates
<1>3. o \in BrokenObjects(BuildKongConfig(c))
  BY <1>1, <1>2 DEF BrokenObjects, BuildKongConfig
<1> QED
  BY <1>2, <1>3, BrokenAffected

(* The translation of a cache and that of its fallback both have of it     *)
(* what does not depend on a broken object.                                *)
LEMMA TargetsIsolated ==
    ASSUME NEW c \in Caches
    PROVE  Isolated(BuildKongConfig(c), c) /\ Isolated(BuildKongConfig(FallbackOf(c)), c)
<1>1. FallbackOf(c) \in Caches
  BY ExcludingIsCache DEF FallbackOf
<1>2. BuildKongConfig(c) \in Configs /\ BuildKongConfig(FallbackOf(c)) \in Configs
  BY <1>1, BuildType
<1>3. BuildKongConfig(c).content = Translation(c)
      /\ BuildKongConfig(FallbackOf(c)).content = Translation(FallbackOf(c))
  BY DEF BuildKongConfig
<1> QED
  BY <1>2, <1>3, FallbackTranslates DEF Isolated

(* As long as nothing fails, gateways run with what their clients remember *)
(* and what is sent is the translation of the snapshot or of its fallback; *)
(* a gateway sent to runs with it, or names all it rejects.                *)
IsolatingNow ==
    /\ pc \notin {"build", "panicked"}
    /\ ~Sending => phase = "main"
    /\ ~Sending /\ lastSnapshot # NoCache => \A g \in Gateways : Isolated(loaded[g], lastSnapshot)
    /\ Sending => \/ phase = "main" /\ target = BuildKongConfig(lastSnapshot)
                  \/ phase = "fallback" /\ target = BuildKongConfig(FallbackOf(lastSnapshot))
    /\ \A g \in Gateways : sha[g] # Nil => loaded[g] = sha[g]
    /\ pc \in {"choose", "send", "konnect", "conclude"} =>
          \/ err = "none"
          \/ err = "update" /\ Rejectable(target) /\ broken = BrokenIn(lastSnapshot)
    /\ pc \in {"send", "konnect", "conclude"} =>
          /\ held = Gateways
          /\ err = "none" => \A g \in Gateways \ toSend : loaded[g] = target

Isolating == faults = 0 => IsolatingNow

(* The variables it is about. *)
isolatingVars == <<faults, pc, phase, lastSnapshot, loaded, sha, target, err, broken, held, toSend>>

(* While something is sent, the snapshot is a cache, and only its own      *)
(* translation is ever rejected.                                           *)
LEMMA SendingSnapshot ==
    ASSUME FallbackConfiguration = TRUE, TypeInv, IsolatingNow, Sending
    PROVE  /\ lastSnapshot \in Caches
           /\ Rejectable(target) => phase = "main" /\ target = BuildKongConfig(lastSnapshot)
<1>1. lastSnapshot \in Caches
  BY DEF TypeInv, TypeOK, UpdateOK
<1> QED
  BY <1>1, FallbackAccepted DEF IsolatingNow

(* Ticks, snapshots and lists of clients. *)
LEMMA ListIsolating ==
    ASSUME DBLess = TRUE, FallbackConfiguration = TRUE,
           TypeInv, Holding, Validity, IsolatingNow, UNCHANGED faults,
           Start \/ Tick \/ SkipUnchangedCache \/ TakeSnapshot \/ ListClients \/ ChooseClients
    PROVE  IsolatingNow'
<1> USE DEF IsolatingNow, Sending
<1>1. CASE Start \/ Tick
  <2>1. /\ ~Sending /\ ~Sending' /\ pc' \notin {"build", "panicked"}
        /\ UNCHANGED <<phase, lastSnapshot, loaded, sha>>
    BY <1>1 DEF Start, Tick, gatewayVars, managerVars, storedVars
  <2> QED
    BY <1>1, <2>1
<1>2. CASE SkipUnchangedCache
  <2>1. /\ ~Sending /\ pc' = "idle" /\ phase' = "main"
        /\ UNCHANGED <<lastSnapshot, loaded, sha>>
    BY <1>2 DEF SkipUnchangedCache, ReturnNil, ForgetUpdate, gatewayVars, managerVars
  <2> QED
    BY <2>1
<1>3. CASE TakeSnapshot
  <2>1. /\ ~Sending /\ pc' = "list" /\ lastSnapshot' = cache /\ target' = BuildKongConfig(cache)
        /\ UNCHANGED <<phase, loaded, sha>>
    BY <1>3 DEF TakeSnapshot, gatewayVars, managerVars
  <2> QED
    BY <2>1
<1>4. CASE ListClients
  <2>1. /\ Sending /\ pc' = "choose" /\ err' = "none"
        /\ UNCHANGED <<phase, lastSnapshot, target, loaded, sha>>
    BY <1>4, KongClientAssumption DEF ListClients, gatewayVars, managerVars, storedVars, Validity
  <2> QED
    BY <2>1
<1>5. CASE ChooseClients
  <2>1. /\ pc = "choose" /\ pc' = "send" /\ toSend' = Gateways /\ held' = Gateways
        /\ UNCHANGED <<phase, lastSnapshot, target, loaded, sha, err, broken>>
    BY <1>5 DEF ChooseClients, gatewayVars, managerVars, storedVars, Validity
  <2> QED
    BY <2>1
<1> QED
  BY <1>1, <1>2, <1>3, <1>4, <1>5

(* A push that is skipped, accepted or rejected. *)
LEMMA PushIsolating ==
    ASSUME DBLess = TRUE, FallbackConfiguration = TRUE, ReportsAll = TRUE,
           TypeInv, Holding, IsolatingNow,
           NEW g \in Gateways, SkipUpdate(g) \/ PushAccepted(g) \/ PushRejected(g)
    PROVE  IsolatingNow'
<1>a. /\ loaded \in [Gateways -> Configs \cup {Initial, Partial}]
      /\ sha \in [Gateways -> Configs \cup {Nil}]
  BY DEF TypeInv, TypeOK
<1>b. /\ pc = "send" /\ g \in toSend /\ toSend' = toSend \ {g}
      /\ UNCHANGED <<pc, phase, lastSnapshot, target, held>>
  BY DEF SkipUpdate, PushAccepted, PushRejected, sendUnchanged, storedVars
<1>c. /\ held = Gateways /\ target # Nil
      /\ \A h \in Gateways : sha[h] # Nil => loaded[h] = sha[h]
      /\ \/ err = "none"
         \/ err = "update" /\ Rejectable(target) /\ broken = BrokenIn(lastSnapshot)
      /\ err = "none" => \A h \in Gateways \ toSend : loaded[h] = target
  BY <1>b DEF IsolatingNow, TypeInv, UpdateOK, Sending
<1> SUFFICES /\ \A h \in Gateways : sha'[h] # Nil => loaded'[h] = sha'[h]
             /\ \/ err' = "none"
                \/ err' = "update" /\ Rejectable(target) /\ broken' = BrokenIn(lastSnapshot)
             /\ err' = "none" => \A h \in Gateways \ toSend' : loaded'[h] = target
  BY <1>b DEF IsolatingNow, Sending
<1>1. CASE SkipUpdate(g)
  <2>1. /\ old[g] = target /\ sha' = [sha EXCEPT ![g] = target]
        /\ UNCHANGED <<loaded, err, broken>>
    BY <1>1, <1>c DEF SkipUpdate, NeedsUpdate, HasConfigurationChanged, SetLastConfigSHA, gatewayVars
  <2>2. sha[g] = target /\ loaded[g] = target
    BY <1>b, <1>c, <2>1 DEF Holding
  <2> QED
    BY <1>a, <1>b, <1>c, <2>1, <2>2
<1>2. CASE PushAccepted(g)
  <2>1. /\ loaded' = [loaded EXCEPT ![g] = target] /\ sha' = [sha EXCEPT ![g] = target]
        /\ UNCHANGED <<err, broken>>
    BY <1>2, <1>c DEF PushAccepted, SetLastConfigSHA, Loading
  <2> QED
    BY <1>a, <1>b, <1>c, <2>1
<1>3. CASE PushRejected(g)
  <2>1. Rejectable(target) /\ err' = "update" /\ UNCHANGED <<loaded, sha>>
    BY <1>3 DEF PushRejected
  <2>2. lastSnapshot \in Caches /\ target = BuildKongConfig(lastSnapshot)
    BY <1>b, <2>1, SendingSnapshot DEF Sending
  <2>3. ReportedBroken(target) = {BrokenIn(lastSnapshot)}
    BY <2>2, AllReported
  <2>4. broken' = BrokenIn(lastSnapshot)
    BY <1>3, <1>c, <2>3 DEF PushRejected
  <2> QED
    BY <1>c, <2>1, <2>4
<1> QED
  BY <1>1, <1>2, <1>3

(* The end of a send-out, Konnect, and where the outcome leads. *)
LEMMA ConcludeIsolating ==
    ASSUME DBLess = TRUE, FallbackConfiguration = TRUE, UseLastValidConfigForFallback = FALSE,
           TypeInv, Holding, Validity, IsolatingNow,
           \/ SendOutSucceeds \/ SendOutFails \/ SkipKonnect \/ KonnectAccepts \/ KonnectFails
           \/ Synced \/ NotRecoverable \/ RecoverWithFallback \/ RecoverWithLastValid \/ Recovered
    PROVE  IsolatingNow'
<1>a. /\ Sending /\ UNCHANGED <<lastSnapshot, loaded, sha>>
      /\ pc \in {"send", "konnect", "conclude"}
  BY DEF Sending, SendOutSucceeds, SendOutFails, SendLastValid, ReturnError, SkipKonnect, KonnectAccepts,
     KonnectFails, Synced, NotRecoverable, RecoverWithFallback, RecoverWithLastValid, Recovered,
     konnectUnchanged, concludeUnchanged, gatewayVars, managerVars, storedVars
<1>b. /\ lastSnapshot \in Caches
      /\ Rejectable(target) => phase = "main" /\ target = BuildKongConfig(lastSnapshot)
  BY <1>a, SendingSnapshot
<1>c. /\ held = Gateways
      /\ \/ err = "none"
         \/ err = "update" /\ Rejectable(target) /\ broken = BrokenIn(lastSnapshot)
      /\ err = "none" => \A g \in Gateways \ toSend : loaded[g] = target
      /\ \/ phase = "main" /\ target = BuildKongConfig(lastSnapshot)
         \/ phase = "fallback" /\ target = BuildKongConfig(FallbackOf(lastSnapshot))
      /\ \A g \in Gateways : sha[g] # Nil => loaded[g] = sha[g]
  BY <1>a DEF IsolatingNow
<1>1. CASE SendOutSucceeds \/ SendOutFails \/ SkipKonnect \/ KonnectAccepts \/ KonnectFails
  <2>1. pc' \in {"konnect", "conclude"} /\ UNCHANGED <<phase, target, err, broken, held, toSend>>
    BY <1>1, <1>b, <1>c DEF SendOutSucceeds, SendOutPanics, SendOutFails, AfterSendOut,
       SkipKonnect, KonnectAccepts, KonnectFails, konnectUnchanged, listVars
  <2> QED
    BY <1>a, <1>c, <2>1 DEF IsolatingNow, Sending
<1>2. CASE (Synced \/ Recovered) /\ err = "none"
  <2>1. pc' = "idle" /\ phase' = "main" /\ pc = "conclude"
    BY <1>2 DEF Synced, Recovered, ReturnNil, ReturnError, ForgetUpdate
  <2>2. \A g \in Gateways : loaded[g] = target
    BY <1>2, <1>c, <2>1 DEF Holding
  <2>3. \A g \in Gateways : Isolated(loaded[g], lastSnapshot)
    BY <1>b, <1>c, <2>2, TargetsIsolated
  <2> QED
    BY <1>a, <1>c, <2>1, <2>3 DEF IsolatingNow, Sending
<1>3. CASE RecoverWithFallback
  <2>1. /\ broken = BrokenIn(lastSnapshot) /\ pc' = "list" /\ phase' = "fallback"
        /\ target' = BuildKongConfig(GenerateExcludingBrokenObjects(lastSnapshot, broken))
    BY <1>3, <1>c DEF RecoverWithFallback
  <2> QED
    BY <1>a, <1>c, <2>1 DEF IsolatingNow, Sending, FallbackOf
<1>4. CASE RecoverWithLastValid
  <2>1. Rejectable(target) /\ broken = BrokenIn(lastSnapshot) /\ broken = {}
    BY <1>4, <1>c DEF RecoverWithLastValid
  <2> QED
    BY <1>b, <2>1 DEF Rejectable, BrokenIn
<1>5. ~NotRecoverable /\ (Synced \/ Recovered => err = "none")
  BY <1>b, <1>c DEF NotRecoverable, Synced, Recovered
<1> QED
  BY <1>1, <1>2, <1>3, <1>4, <1>5

(* Every step preserves Isolating; a step that is a fault ends what it     *)
(* promises.                                                               *)
LEMMA NextIsolating ==
    ASSUME DBLess = TRUE, FallbackConfiguration = TRUE, UseLastValidConfigForFallback = FALSE,
           ReportsAll = TRUE, Discovery = FALSE
    PROVE  TypeInv /\ Holding /\ Validity /\ Isolating /\ [Next]_vars => Isolating'
<1> SUFFICES ASSUME TypeInv, Holding, Validity, Isolating, [Next]_vars, faults' = 0
             PROVE  IsolatingNow'
  BY DEF Isolating
<1>a. ~Fault
  <2>1. faults \in 0..MaxFaults
    BY DEF TypeInv, TypeOK
  <2> QED
    BY <2>1, SMT DEF Fault
<1>b. UNCHANGED faults
  BY <1>a DEF Next, Update, Environment, vars, gatewayVars, Start, Tick, SkipUnchangedCache,
     TakeSnapshot, StartBuild, ReadObject, FinishBuild, ListClients, ChooseClients, SkipUpdate,
     PushAccepted, PushRejected, PushFailed, SyncInterrupted, SendOutSucceeds, SendOutFails,
     SkipKonnect, KonnectAccepts, KonnectFails, Synced, NotRecoverable, RecoverWithFallback,
     RecoverWithLastValid, Recovered, konnectUnchanged, concludeUnchanged, Remove, Apply,
     GatewayRestarts, ClientReady, ClientLost, ControllerRestarts, Reconcile
<1>c. IsolatingNow
  BY <1>b DEF Isolating
<1>1. CASE UNCHANGED isolatingVars
  BY <1>c, <1>1 DEF isolatingVars, IsolatingNow, Sending
<1>2. CASE Environment \/ \E o \in Objects : Reconcile(o)
  <2>1. ~ControllerRestarts
    BY <1>a, <1>c DEF ControllerRestarts, IsolatingNow
  <2> QED
    BY <1>1, <1>2, <1>a, <2>1 DEF Environment, Remove, Apply, GatewayRestarts, ClientReady, ClientLost,
       Reconcile, isolatingVars, gatewayVars, managerVars, storedVars, updateVars, listVars
<1>3. CASE UNCHANGED vars
  BY <1>1, <1>3 DEF vars, isolatingVars, gatewayVars, managerVars, storedVars, updateVars, listVars
<1>4. CASE Start \/ Tick \/ SkipUnchangedCache \/ TakeSnapshot \/ ListClients \/ ChooseClients
  BY <1>4, <1>b, <1>c, ListIsolating
<1>5. CASE \E g \in Gateways : \/ SkipUpdate(g) \/ PushAccepted(g) \/ PushRejected(g)
                               \/ PushFailed(g) \/ SyncInterrupted(g)
  <2>1. \A g \in Gateways : ~PushFailed(g) /\ ~SyncInterrupted(g)
    BY <1>a DEF PushFailed, SyncInterrupted
  <2> QED
    BY <1>5, <1>c, <2>1, PushIsolating
<1>6. CASE StartBuild \/ FinishBuild \/ \E o \in Objects : ReadObject(o)
  BY <1>6, <1>c DEF StartBuild, FinishBuild, ReadObject, IsolatingNow
<1>7. CASE \/ SendOutSucceeds \/ SendOutFails \/ SkipKonnect \/ KonnectAccepts \/ KonnectFails
           \/ Synced \/ NotRecoverable \/ RecoverWithFallback \/ RecoverWithLastValid \/ Recovered
  BY <1>7, <1>c, ConcludeIsolating
<1> QED
  BY <1>2, <1>3, <1>4, <1>5, <1>6, <1>7 DEF Next, Update

(* FallbackIsolates: one object that gateways reject does not keep the     *)
(* others from being configured.  Without a database, with fallbacks that  *)
(* exclude what is broken, gateways that name all they reject and clients  *)
(* that do not come and go, and as long as nothing fails, an Update of the *)
(* cluster leaves every gateway with all of it that does not depend on a   *)
(* broken object, whatever is edited meanwhile.                            *)
THEOREM FallbacksIsolate ==
    ASSUME DBLess = TRUE, FallbackConfiguration = TRUE, UseLastValidConfigForFallback = FALSE,
           ReportsAll = TRUE, Discovery = FALSE
    PROVE  Spec => [](faults = 0 => FallbackIsolates)
<1>1. Init => TypeInv /\ Holding /\ Validity /\ Isolating
  <2>1. Init => Isolating
    BY DEF Init, Started, Isolating, IsolatingNow, Sending
  <2> QED
    BY <2>1, InitTypeInv, InitHolding, InitValidity
<1>2. TypeInv /\ Holding /\ Validity /\ Isolating /\ [Next]_vars =>
        (TypeInv /\ Holding /\ Validity /\ Isolating)'
  BY NextTypeInv, NextHolding, NextValidity, NextIsolating
<1>3. TypeInv /\ Validity /\ Isolating => (faults = 0 => FallbackIsolates)
  <2> SUFFICES ASSUME TypeInv, Validity, Isolating, faults = 0, pc = "idle", lastSnapshot = cluster,
                      NEW g \in ready
               PROVE  Isolated(loaded[g], cluster)
    BY DEF FallbackIsolates, Isolated, ClusterBroken, BrokenIn
  <2>1. cluster # NoCache
    BY NoCacheAssumption DEF TypeInv, TypeOK
  <2> QED
    BY <2>1 DEF Validity, Isolating, IsolatingNow, Sending
<1> QED
  BY <1>1, <1>2, <1>3, PTL DEF Spec

-----------------------------------------------------------------------------
(* What gateways with a database run with. *)

(* One client of all there are is chosen, and sent to at most once. *)
OneChosen ==
    /\ pc \in {"choose", "send"} => clients = Gateways /\ nClients = Cardinality(Gateways)
    /\ pc = "choose" => err = "none"
    /\ pc = "send" => /\ nChosen = 1
                      /\ \E c \in Gateways : held = {c}
                      /\ toSend \subseteq held /\ (toSend # {} => err = "none")

(* The chosen client was served and the others have yet to hear of it. *)
Telling == pc = "send" /\ toSend = {} /\ err = "none"

(* Gateways share what the database holds, and their clients agree on it,  *)
(* but for a sync that failed half-way.                                    *)
Agreeing ==
    /\ \A g, h \in Gateways : loaded[g] = loaded[h]
    /\ Telling => /\ \A g \in Gateways : loaded[g] \in {target, Partial}
                  /\ \A g \in held : sha[g] = target
    /\ ~Telling => \A g \in Gateways : sha[g] # Nil => loaded[g] \in {sha[g], Partial}

(* Every step preserves OneChosen. *)
LEMMA NextOneChosen ==
    ASSUME DBLess = FALSE, Discovery = FALSE
    PROVE  TypeInv /\ Validity /\ OneChosen /\ [Next]_vars => OneChosen'
<1> SUFFICES ASSUME TypeInv, Validity, OneChosen, [Next]_vars
             PROVE  OneChosen'
  OBVIOUS
<1> USE DEF OneChosen
<1>1. CASE ListClients
  <2>1. clients' = Gateways /\ nClients' = Cardinality(Gateways) /\ err' = "none" /\ pc' # "send"
    BY <1>1 DEF ListClients, AfterSendOut, Validity
  <2> QED
    BY <2>1
<1>2. CASE ChooseClients
  <2>1. PICK chosen \in SUBSET Gateways :
           /\ Cardinality(chosen) <= 1 /\ chosen # {}
           /\ nChosen' = Cardinality(chosen) /\ toSend' = chosen /\ held' = chosen
    BY <1>2, KongClientAssumption DEF ChooseClients, Validity
  <2>2. IsFiniteSet(chosen) /\ Cardinality(chosen) \in Nat
    BY CardinalityType
  <2>3. Cardinality(chosen) # 0
    BY <2>1, <2>2, FS_EmptySet
  <2>4. Cardinality(chosen) = 1
    BY <2>1, <2>2, <2>3, SMT
  <2>5. \E c \in Gateways : chosen = {c}
    BY <2>2, <2>4, FS_Singleton
  <2>6. pc = "choose" /\ pc' = "send" /\ UNCHANGED <<clients, nClients, err>>
    BY <1>2 DEF ChooseClients
  <2> QED
    BY <2>1, <2>4, <2>5, <2>6
<1>3. ASSUME NEW g \in Gateways,
             \/ SkipUpdate(g) \/ PushAccepted(g) \/ PushRejected(g)
             \/ PushFailed(g) \/ SyncInterrupted(g)
      PROVE  OneChosen'
  <2>1. /\ pc = "send" /\ g \in toSend /\ toSend' = toSend \ {g}
        /\ UNCHANGED <<pc, clients, nClients, nChosen, held>>
    BY <1>3 DEF SkipUpdate, PushAccepted, PushRejected, PushFailed, SyncInterrupted, sendUnchanged
  <2>2. toSend' = {}
    BY <2>1
  <2> QED
    BY <2>1, <2>2
<1>4. CASE UNCHANGED <<pc, err, listVars>>
  BY <1>4 DEF listVars
<1>5. CASE pc' \notin {"choose", "send"}
  BY <1>5
<1>6. CASE Environment \/ \E o \in Objects : Reconcile(o)
  BY <1>4, <1>5, <1>6 DEF Environment, Remove, Apply, GatewayRestarts, ClientReady, ClientLost,
     ControllerRestarts, Reconcile, updateVars
<1>7. CASE \/ Start \/ Tick \/ SkipUnchangedCache \/ TakeSnapshot \/ StartBuild \/ FinishBuild
           \/ \E o \in Objects : ReadObject(o)
  BY <1>4, <1>5, <1>7 DEF Start, Tick, SkipUnchangedCache, ReturnNil, TakeSnapshot, StartBuild,
     FinishBuild, ReadObject
<1>8. CASE SendOutSucceeds \/ SendOutFails \/ SkipKonnect \/ KonnectAccepts \/ KonnectFails
  BY <1>5, <1>8 DEF SendOutSucceeds, SendOutFails, AfterSendOut, SendLastValid, ReturnError,
     SkipKonnect, KonnectAccepts, KonnectFails
<1>9. CASE Synced \/ NotRecoverable \/ RecoverWithFallback \/ RecoverWithLastValid \/ Recovered
  BY <1>5, <1>9 DEF Synced, NotRecoverable, RecoverWithFallback, RecoverWithLastValid, Recovered,
     ReturnNil, ReturnError, SendLastValid
<1>10. CASE UNCHANGED vars
  BY <1>4, <1>10 DEF vars, updateVars
<1> QED
  BY <1>1, <1>2, <1>3, <1>6, <1>7, <1>8, <1>9, <1>10 DEF Next, Update

(* A send-out that ends tells every client what the chosen one was sent. *)
LEMMA TellingEnds ==
    ASSUME DBLess = FALSE, Discovery = FALSE, TypeInv, OneChosen, Agreeing, SendOutSucceeds
    PROVE  /\ \A g \in Gateways : sha'[g] = target
           /\ pc' # "send" /\ UNCHANGED loaded
<1>1. Telling /\ nChosen = 1 /\ clients = Gateways /\ nClients = Cardinality(Gateways)
  BY DEF SendOutSucceeds, Telling, OneChosen
<1>2. ~SendOutPanics
  BY <1>1, SMT DEF SendOutPanics
<1>3. /\ pc' # "send" /\ UNCHANGED loaded
      /\ sha' = IF nClients > 1
                  THEN [g \in Gateways |-> IF g \in clients THEN target ELSE sha[g]] ELSE sha
  BY <1>2 DEF SendOutSucceeds, AfterSendOut, gatewayVars
<1>4. CASE nClients > 1
  BY <1>1, <1>3, <1>4
<1>5. CASE ~(nClients > 1)
  <2>1. IsFiniteSet(Gateways) /\ Cardinality(Gateways) \in Nat /\ Cardinality(Gateways) # 0
    BY CardinalityType, KongClientAssumption, FS_EmptySet
  <2>2. Cardinality(Gateways) = 1
    BY <1>1, <1>5, <2>1, SMT
  <2>3. PICK x : Gateways = {x}
    BY <2>1, <2>2, FS_Singleton
  <2>4. held = Gateways
    BY <1>1, <2>3 DEF Telling, OneChosen
  <2> QED
    BY <1>1, <1>3, <1>5, <2>4 DEF Agreeing
<1> QED
  BY <1>3, <1>4, <1>5

(* Every step preserves Agreeing. *)
LEMMA NextAgreeing ==
    ASSUME DBLess = FALSE, Discovery = FALSE
    PROVE  TypeInv /\ Holding /\ Validity /\ OneChosen /\ Agreeing /\ [Next]_vars => Agreeing'
<1> SUFFICES ASSUME TypeInv, Holding, Validity, OneChosen, Agreeing, [Next]_vars
             PROVE  Agreeing'
  OBVIOUS
<1>a. /\ loaded \in [Gateways -> Configs \cup {Initial, Partial}]
      /\ sha \in [Gateways -> Configs \cup {Nil}]
      /\ pc = "send" => target # Nil
  BY DEF TypeInv, TypeOK, UpdateOK, Sending
<1>b. \A g, h \in Gateways : loaded[g] = loaded[h]
  BY DEF Agreeing
<1>1. ASSUME NEW g \in Gateways, pc = "send", g \in toSend
      PROVE  /\ ~Telling /\ held = {g} /\ toSend = {g} /\ err = "none" /\ old[g] = sha[g]
             /\ \A h \in Gateways : sha[h] # Nil => loaded[h] \in {sha[h], Partial}
  BY <1>1 DEF Telling, OneChosen, Holding, Agreeing
<1>2. ASSUME NEW g \in Gateways, SkipUpdate(g)
      PROVE  Agreeing'
  <2>1. /\ pc = "send" /\ g \in toSend /\ old[g] = target
        /\ sha' = IF g \in held THEN [sha EXCEPT ![g] = target] ELSE sha
        /\ toSend' = toSend \ {g} /\ UNCHANGED <<pc, loaded, err, held, target>>
    BY <1>2 DEF SkipUpdate, NeedsUpdate, HasConfigurationChanged, SetLastConfigSHA, sendUnchanged,
       gatewayVars
  <2>2. sha' = [sha EXCEPT ![g] = target] /\ loaded[g] \in {target, Partial} /\ Telling'
    BY <1>1, <1>a, <2>1 DEF Telling
  <2>3. \A h \in Gateways : loaded'[h] \in {target', Partial}
    BY <1>b, <2>1, <2>2
  <2>4. \A h \in held' : sha'[h] = target'
    BY <1>1, <1>a, <2>1, <2>2
  <2> QED
    BY <1>b, <2>1, <2>2, <2>3, <2>4 DEF Agreeing
<1>3. ASSUME NEW g \in Gateways, PushAccepted(g)
      PROVE  Agreeing'
  <2>1. /\ pc = "send" /\ g \in toSend /\ loaded' = [h \in Gateways |-> target]
        /\ sha' = IF g \in held THEN [sha EXCEPT ![g] = target] ELSE sha
        /\ toSend' = toSend \ {g} /\ UNCHANGED <<pc, err, held, target>>
    BY <1>3 DEF PushAccepted, Loading, SetLastConfigSHA, sendUnchanged
  <2>2. sha' = [sha EXCEPT ![g] = target] /\ Telling'
    BY <1>1, <2>1 DEF Telling
  <2>3. \A h \in held' : sha'[h] = target'
    BY <1>1, <1>a, <2>1, <2>2
  <2> QED
    BY <2>1, <2>2, <2>3 DEF Agreeing
<1>4. ASSUME NEW g \in Gateways, PushRejected(g) \/ PushFailed(g) \/ SyncInterrupted(g)
      PROVE  Agreeing'
  <2>1. /\ pc = "send" /\ g \in toSend /\ err' # "none" /\ UNCHANGED sha
        /\ loaded' \in {loaded, [h \in Gateways |-> Partial]}
    BY <1>4 DEF PushRejected, PushFailed, SyncInterrupted, Loading
  <2>2. /\ ~Telling'
        /\ \A h \in Gateways : sha[h] # Nil => loaded[h] \in {sha[h], Partial}
    BY <1>1, <2>1 DEF Telling
  <2>3. CASE loaded' = loaded
    BY <1>b, <2>1, <2>2, <2>3 DEF Agreeing
  <2>4. CASE loaded' = [h \in Gateways |-> Partial]
    BY <2>2, <2>4 DEF Agreeing
  <2> QED
    BY <2>1, <2>3, <2>4
<1>5. CASE SendOutSucceeds
  <2>1. \A g \in Gateways : loaded[g] \in {target, Partial}
    BY <1>5 DEF SendOutSucceeds, Telling, Agreeing
  <2> QED
    BY <1>5, <1>b, <2>1, TellingEnds DEF Telling, Agreeing
<1>6. ASSUME ~Telling, ~Telling', UNCHANGED <<loaded, sha>>
      PROVE  Agreeing'
  BY <1>6 DEF Agreeing
<1>7. CASE SendOutFails
  BY <1>6, <1>7 DEF SendOutFails, AfterSendOut, SendLastValid, ReturnError, Telling, gatewayVars, managerVars
<1>8. CASE ChooseClients
  <2>1. toSend' # {} /\ pc = "choose" /\ UNCHANGED <<loaded, sha>>
    BY <1>8, KongClientAssumption DEF ChooseClients, Validity, gatewayVars, managerVars
  <2> QED
    BY <1>6, <2>1 DEF Telling
<1>9. CASE ControllerRestarts
  BY <1>9, <1>b DEF ControllerRestarts, Agreeing, Telling
<1>10. CASE UNCHANGED <<loaded, sha, pc, toSend, err, held, target>>
  BY <1>10 DEF Agreeing, Telling
<1>11. CASE Environment \/ \E o \in Objects : ReadObject(o) \/ Reconcile(o)
  BY <1>9, <1>10, <1>11 DEF Environment, Remove, Apply, GatewayRestarts, ClientReady, ClientLost,
     ReadObject, Reconcile, gatewayVars, managerVars, updateVars, listVars
<1>12. CASE \/ Start \/ Tick \/ SkipUnchangedCache \/ TakeSnapshot \/ StartBuild \/ FinishBuild
            \/ ListClients
  BY <1>6, <1>12 DEF Start, Tick, SkipUnchangedCache, ReturnNil, TakeSnapshot, StartBuild,
     FinishBuild, ListClients, AfterSendOut, Telling, gatewayVars, managerVars
<1>13. CASE \/ SkipKonnect \/ KonnectAccepts \/ KonnectFails
            \/ Synced \/ NotRecoverable \/ RecoverWithFallback \/ RecoverWithLastValid \/ Recovered
  BY <1>6, <1>13 DEF SkipKonnect, KonnectAccepts, KonnectFails, Synced, NotRecoverable,
     RecoverWithFallback, RecoverWithLastValid, Recovered, ReturnNil, ReturnError, SendLastValid,
     konnectUnchanged, concludeUnchanged, Telling, gatewayVars, managerVars
<1>14. CASE UNCHANGED vars
  BY <1>10, <1>14 DEF vars, gatewayVars, managerVars, updateVars, listVars
<1> QED
  BY <1>2, <1>3, <1>4, <1>5, <1>7, <1>8, <1>11, <1>12, <1>13, <1>14 DEF Next, Update

(* SHAFaithful in front of a database: only one client is sent to, and     *)
(* the others are told of it before the send-out ends, so that outside of  *)
(* one no client remembers another configuration than the database holds,  *)
(* but for a sync that stopped half-way; as long as clients do not come    *)
(* and go.                                                                 *)
THEOREM DatabaseSHAsFaithful ==
    ASSUME DBLess = FALSE, Discovery = FALSE
    PROVE  Spec => []SHAFaithful
<1>1. Init => OneChosen /\ Agreeing
  <2> SUFFICES ASSUME Init PROVE OneChosen /\ Agreeing
    OBVIOUS
  <2>1. /\ pc = "waiting" /\ loaded = [g \in Gateways |-> Initial]
        /\ sha = [g \in Gateways |-> Nil]
    BY DEF Init, Started
  <2> QED
    BY <2>1 DEF OneChosen, Agreeing, Telling
<1>2. TypeInv /\ Agreeing => SHAFaithful
  BY DEF TypeInv, TypeOK, Agreeing, SHAFaithful, Telling
<1>3. TypeInv /\ Holding /\ Validity /\ OneChosen /\ Agreeing /\ [Next]_vars =>
        (TypeInv /\ Holding /\ Validity /\ OneChosen /\ Agreeing)'
  BY NextTypeInv, NextHolding, NextValidity, NextOneChosen, NextAgreeing
<1> QED
  BY <1>1, <1>2, <1>3, InitTypeInv, InitHolding, InitValidity, PTL DEF Spec
=============================================================================
