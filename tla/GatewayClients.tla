--------------------------- MODULE GatewayClients ---------------------------
(***************************************************************************)
(* How the controller finds the gateways to configure: the EndpointSlices  *)
(* of the admin API Service are reconciled by                              *)
(* KongAdminAPIServiceReconciler                                           *)
(* (internal/controllers/configuration/kongadminapi_controller.go), which  *)
(* hands the addresses over an unbuffered channel to the loop of           *)
(* AdminAPIClientsManager (internal/clients/manager.go).  The loop keeps   *)
(* them as ready or pending clients, moves them between the two by their   *)
(* readiness (internal/clients/readiness.go), on notifications and on      *)
(* ticks, and signals its subscribers.                                     *)
(*                                                                         *)
(* Processes: the reconciler's single worker, the manager's loop, the      *)
(* subscribers, and the environment (endpoints that change, admin APIs     *)
(* that come up and go down, the context being cancelled).  A step of the  *)
(* loop is what it does under one acquisition of the manager's lock.       *)
(***************************************************************************)
EXTENDS Naturals, Sequences, FiniteSets, SequencesExt

CONSTANTS
    Addresses,      \* base URLs of admin APIs
    Slices,         \* EndpointSlices of the admin API Service
    Subscribers,    \* callers of SubscribeToGatewayClientsChanges
    NoEntry,        \* no such slice; no cache entry; no notification
    MaxChanges,     \* bound on changes of slices
    MaxFlips        \* bound on admin APIs going up and down, and on failed
                    \* translations of a slice

ASSUME GatewayClientsAssumption ==
    /\ \A S \in SUBSET Addresses : S # NoEntry
    /\ MaxChanges \in Nat /\ MaxFlips \in Nat

VARIABLES
    workspaceSet,   \* a Kong workspace is configured
    endpoints,      \* the slices in the cluster, each a set of addresses
    up,             \* addresses whose admin API answers a status request
    changes, flips,
    queue,          \* the reconciler's work queue
    Cache,          \* KongAdminAPIServiceReconciler.Cache
    notifying,      \* the addresses Notify is blocked with
    loop,           \* where gatewayClientsReconciliationLoop is
    notified,       \* the loop has received a notification
    clientsChanged, \* what adjustGatewayClients returned
    ready,          \* readyGatewayClients
    pending,        \* pendingGatewayClients
    subs,           \* gatewayClientsChangesSubscribers
    toNotify,       \* subscribers the current notification has yet to signal
    signal,         \* the channels of the subscribers: what they buffer
    reading,        \* subscribers that received and have yet to look
    stale,          \* subscribers that did not look since a change
    done            \* the manager's context is done

clusterVars == <<workspaceSet, endpoints, up, changes, flips>>
reconcilerVars == <<queue, Cache, notifying>>
clientVars == <<ready, pending>>
subscriberVars == <<subs, signal, reading, stale>>
vars == <<clusterVars, reconcilerVars, loop, notified, clientsChanged, clientVars,
          toNotify, subscriberVars, done>>

Slice == {NoEntry} \cup SUBSET Addresses
AddressesIn(f) == UNION {f[s] : s \in {t \in Slices : f[t] # NoEntry}}

TypeOK ==
    /\ workspaceSet \in BOOLEAN
    /\ endpoints \in [Slices -> Slice]
    /\ up \subseteq Addresses
    /\ changes \in 0..MaxChanges /\ flips \in 0..MaxFlips
    /\ queue \subseteq Slices
    /\ Cache \in [Slices -> Slice]
    /\ notifying \in Slice
    /\ loop \in {"select", "reconcile", "changed", "notify", "returned"}
    /\ notified \in BOOLEAN /\ clientsChanged \in BOOLEAN
    /\ ready \subseteq Addresses /\ pending \subseteq Addresses
    /\ subs \in Seq(Subscribers) /\ toNotify \in Seq(Subscribers)
    /\ signal \in [Subscribers -> {"empty", "full", "closed"}]
    /\ reading \subseteq Subscribers /\ stale \subseteq Subscribers
    /\ done \in BOOLEAN

(* NewAdminAPIClientsManager insists on an initial client, found by        *)
(* listing the slices before the controllers start.  The watch then queues *)
(* every slice, with whatever addresses it has by then.                    *)
Init ==
    /\ workspaceSet \in BOOLEAN
    /\ endpoints \in [Slices -> Slice] /\ up \in SUBSET Addresses
    /\ \E s \in Slices : endpoints[s] # NoEntry
    /\ changes = 0 /\ flips = 0
    /\ queue = {s \in Slices : endpoints[s] # NoEntry}
    /\ Cache = [s \in Slices |-> NoEntry] /\ notifying = NoEntry
    /\ loop = "select" /\ notified = FALSE /\ clientsChanged = FALSE
    /\ ready \in SUBSET Addresses \ {{}} /\ pending = {}
    /\ subs = <<>> /\ toNotify = <<>>
    /\ signal = [s \in Subscribers |-> "empty"]
    /\ reading = {} /\ stale = {}
    /\ done = FALSE

-----------------------------------------------------------------------------
(* The environment. *)

(* A slice appears, changes or disappears, and is queued. *)
SliceChanges(s, e) ==
    /\ changes < MaxChanges /\ endpoints[s] # e
    /\ changes' = changes + 1
    /\ endpoints' = [endpoints EXCEPT ![s] = e]
    /\ queue' = queue \cup {s}
    /\ UNCHANGED <<workspaceSet, up, flips, Cache, notifying, loop, notified, clientsChanged, clientVars,
                   toNotify, subscriberVars, done>>

AdminAPIFlips(a) ==
    /\ flips < MaxFlips
    /\ flips' = flips + 1
    /\ up' = IF a \in up THEN up \ {a} ELSE up \cup {a}
    /\ UNCHANGED <<workspaceSet, endpoints, changes, reconcilerVars, loop, notified, clientsChanged,
                   clientVars, toNotify, subscriberVars, done>>

Cancel ==
    /\ ~done
    /\ done' = TRUE
    /\ UNCHANGED <<clusterVars, reconcilerVars, loop, notified, clientsChanged, clientVars,
                   toNotify, subscriberVars>>

-----------------------------------------------------------------------------
(* KongAdminAPIServiceReconciler.  While Notify blocks, its worker does.   *)

reconcilerUnchanged == <<loop, notified, clientsChanged, clientVars, toNotify, subscriberVars, done>>

(* Mutant: a slice that is gone is forgotten without a notification. *)
ReconcileForgetting(s) ==
    /\ s \in queue /\ notifying = NoEntry
    /\ queue' = queue \ {s}
    /\ Cache' = [Cache EXCEPT ![s] = endpoints[s]]
    /\ notifying' = IF endpoints[s] # NoEntry /\ Cache'[s] # Cache[s]
                      THEN AddressesIn(Cache') ELSE NoEntry
    /\ UNCHANGED <<clusterVars, reconcilerUnchanged>>

(* Reconcile: store what the slice holds, and notify if it is news. *)
Reconcile(s) ==
    /\ s \in queue /\ notifying = NoEntry
    /\ queue' = queue \ {s}
    /\ Cache' = [Cache EXCEPT ![s] = endpoints[s]]
    /\ notifying' = IF Cache'[s] # Cache[s] THEN AddressesIn(Cache') ELSE NoEntry
    /\ UNCHANGED <<clusterVars, reconcilerUnchanged>>

(* AdminAPIsFromEndpointSlice fails: a slice that was not cached is now    *)
(* cached empty, without a notification, and the request is retried.       *)
ReconcileFails(s) ==
    /\ s \in queue /\ notifying = NoEntry
    /\ endpoints[s] \notin {NoEntry, {}}
    /\ flips < MaxFlips
    /\ flips' = flips + 1
    /\ Cache' = IF Cache[s] = NoEntry THEN [Cache EXCEPT ![s] = {}] ELSE Cache
    /\ UNCHANGED <<workspaceSet, endpoints, up, changes, queue, notifying, reconcilerUnchanged>>

(* Notify gives up once the context is done. *)
NotifyInterrupted ==
    /\ notifying # NoEntry /\ done
    /\ notifying' = NoEntry
    /\ UNCHANGED <<clusterVars, queue, Cache, reconcilerUnchanged>>

-----------------------------------------------------------------------------
(* gatewayClientsReconciliationLoop *)

MarkStale(changed) == stale' = IF changed THEN stale \cup ToSet(subs) ELSE stale

(* The loop receives what Notify sends: adjustGatewayClients.  An empty    *)
(* list clears everything, and what is discovered but not ready is         *)
(* pending.                                                                *)
AdjustGatewayClients ==
    /\ loop = "select" /\ notifying # NoEntry
    /\ notified' = TRUE
    /\ LET discovered == notifying
       IN /\ ready' = ready \cap discovered
          /\ pending' = (pending \cup (discovered \ ready)) \cap discovered
          /\ clientsChanged' = ~((ready \cup pending) \subseteq discovered)
    /\ notifying' = NoEntry
    /\ MarkStale(ready' # ready)
    /\ loop' = "reconcile"
    /\ UNCHANGED <<clusterVars, queue, Cache, toNotify, subs, signal, reading, done>>

(* readinessReconciliationTicker fires. *)
Tick ==
    /\ loop = "select"
    /\ clientsChanged' = FALSE
    /\ loop' = "reconcile"
    /\ UNCHANGED <<clusterVars, reconcilerVars, notified, clientVars, toNotify, subscriberVars,
                   done>>

(* Mutants: no status is asked for. *)
AllTurnReady == pending
NoneTurnsPending == {}

(* CheckReadiness.  Creating a pending client only asks for its status     *)
(* when a workspace is configured.                                         *)
ClientsTurnedReady == {a \in pending : workspaceSet => a \in up}
ClientsTurnedPending == {a \in ready : a \notin up}

(* Mutant: what adjustGatewayClients returned is ignored. *)
ReconcileReadinessOnly ==
    /\ loop = "reconcile"
    /\ ready' = (ready \cup ClientsTurnedReady) \ ClientsTurnedPending
    /\ pending' = (pending \ ClientsTurnedReady) \cup ClientsTurnedPending
    /\ LET readinessChanged == ClientsTurnedReady \cup ClientsTurnedPending # {}
       IN /\ MarkStale(readinessChanged)
          /\ loop' = IF readinessChanged THEN "changed" ELSE "select"
    /\ clientsChanged' = FALSE
    /\ UNCHANGED <<clusterVars, reconcilerVars, notified, toNotify, subs, signal, reading, done>>

ReconcileGatewayClientsReadiness ==
    /\ loop = "reconcile"
    /\ ready' = (ready \cup ClientsTurnedReady) \ ClientsTurnedPending
    /\ pending' = (pending \ ClientsTurnedReady) \cup ClientsTurnedPending
    /\ LET readinessChanged == ClientsTurnedReady \cup ClientsTurnedPending # {}
       IN /\ MarkStale(readinessChanged)
          /\ loop' = IF clientsChanged \/ readinessChanged THEN "changed" ELSE "select"
    /\ clientsChanged' = FALSE
    /\ UNCHANGED <<clusterVars, reconcilerVars, notified, toNotify, subs, signal, reading, done>>

(* notifyGatewayClientsSubscribers reads the list of subscribers once,     *)
(* without the lock...                                                     *)
StartNotifying ==
    /\ loop = "changed"
    /\ toNotify' = subs
    /\ loop' = "notify"
    /\ UNCHANGED <<clusterVars, reconcilerVars, notified, clientsChanged, clientVars,
                   subscriberVars, done>>

(* ...and blocks on each of them until its channel has room. *)
NotifySubscriber ==
    /\ loop = "notify" /\ toNotify # <<>>
    /\ signal[Head(toNotify)] = "empty"
    /\ signal' = [signal EXCEPT ![Head(toNotify)] = "full"]
    /\ toNotify' = Tail(toNotify)
    /\ UNCHANGED <<clusterVars, reconcilerVars, loop, notified, clientsChanged, clientVars, subs,
                   reading, stale, done>>

EndNotifying ==
    /\ loop = "notify" /\ (toNotify = <<>> \/ done)
    /\ toNotify' = <<>>
    /\ loop' = "select"
    /\ UNCHANGED <<clusterVars, reconcilerVars, notified, clientsChanged, clientVars,
                   subscriberVars, done>>

(* closeGatewayClientsSubscribers *)
Return ==
    /\ loop = "select" /\ done
    /\ signal' = [s \in Subscribers |-> IF s \in ToSet(subs) THEN "closed" ELSE signal[s]]
    /\ loop' = "returned"
    /\ UNCHANGED <<clusterVars, reconcilerVars, notified, clientsChanged, clientVars, toNotify,
                   subs, reading, stale, done>>

-----------------------------------------------------------------------------
(* Subscribers. *)

Subscribe(s) ==
    /\ s \notin ToSet(subs) /\ ~done
    /\ subs' = Append(subs, s)
    /\ UNCHANGED <<clusterVars, reconcilerVars, loop, notified, clientsChanged, clientVars,
                   toNotify, signal, reading, stale, done>>

Receive(s) ==
    /\ signal[s] = "full" /\ s \notin reading
    /\ signal' = [signal EXCEPT ![s] = "empty"]
    /\ reading' = reading \cup {s}
    /\ UNCHANGED <<clusterVars, reconcilerVars, loop, notified, clientsChanged, clientVars,
                   toNotify, subs, stale, done>>

(* Mutant: the loop notifies under the lock GatewayClients takes. *)
GetGatewayClientsLocked(s) ==
    /\ s \in reading /\ loop # "notify"
    /\ reading' = reading \ {s}
    /\ stale' = stale \ {s}
    /\ UNCHANGED <<clusterVars, reconcilerVars, loop, notified, clientsChanged, clientVars,
                   toNotify, subs, signal, done>>

(* The subscriber calls GatewayClients. *)
GetGatewayClients(s) ==
    /\ s \in reading
    /\ reading' = reading \ {s}
    /\ stale' = stale \ {s}
    /\ UNCHANGED <<clusterVars, reconcilerVars, loop, notified, clientsChanged, clientVars,
                   toNotify, subs, signal, done>>

-----------------------------------------------------------------------------
Reconciler == (\E s \in Slices : Reconcile(s) \/ ReconcileFails(s)) \/ NotifyInterrupted

Handle ==
    \/ ReconcileGatewayClientsReadiness \/ StartNotifying \/ NotifySubscriber
    \/ EndNotifying \/ Return

Environment ==
    \/ \E s \in Slices, e \in Slice : SliceChanges(s, e)
    \/ \E a \in Addresses : AdminAPIFlips(a)
    \/ Cancel

Next ==
    \/ Reconciler
    \/ AdjustGatewayClients \/ Tick \/ Handle
    \/ \E s \in Subscribers : Subscribe(s) \/ Receive(s) \/ GetGatewayClients(s)
    \/ Environment

Spec == Init /\ [][Next]_vars

(* Workers, the loop and the subscribers' goroutines run.  The select of   *)
(* the loop picks among what is ready at random, so a notification that is *)
(* ready again and again is received.                                      *)
FairSpec ==
    /\ Spec
    /\ \A s \in Slices : WF_vars(Reconcile(s))
    /\ SF_vars(AdjustGatewayClients) /\ WF_vars(Tick) /\ WF_vars(Handle)
    /\ \A s \in Subscribers : WF_vars(Receive(s)) /\ WF_vars(GetGatewayClients(s))

-----------------------------------------------------------------------------
(* Properties. *)

(* A gateway is not ready and pending at once: it would be configured and  *)
(* created anew, losing its SHA.                                           *)
Disjoint == ready \cap pending = {}

(* Once the reconciler has caught up, the manager knows the addresses of   *)
(* the slices and no others, whatever it did about readiness meanwhile.    *)
(* Before the first notification it has the initial clients.               *)
TracksEndpoints ==
    queue = {} /\ notifying = NoEntry /\ notified /\ ~done =>
        ready \cup pending = AddressesIn(endpoints)

(* "After receiving the notification, GatewayClients call will return an   *)
(* already updated slice of clients": a subscriber that has not looked     *)
(* since a change has a signal waiting, is about to look, or is about to   *)
(* be signalled.                                                           *)
NoMissedChange ==
    \A s \in stale :
        \/ signal[s] # "empty" \/ s \in reading \/ done
        \/ loop = "reconcile" /\ clientsChanged
        \/ loop = "changed"
        \/ loop = "notify" /\ s \in ToSet(toNotify)

(* The clients settle: they are the endpoints, and those that answer are   *)
(* ready.  Those that do not are pending, if a workspace is configured;    *)
(* else they go back and forth for ever (NewKongClientForWorkspace asks    *)
(* for no status then, and IsReady does).                                  *)
EventuallySettled ==
    <>[](done \/ ~notified
              \/ /\ ready \cup pending = AddressesIn(endpoints)
                 /\ AddressesIn(endpoints) \cap up \subseteq ready
                 /\ workspaceSet => ready \subseteq up)

(* A gateway that stops answering is given up, until it answers again      *)
(* (checkAlreadyExistingClients), however often the endpoints change and   *)
(* whoever is being notified.                                              *)
DownGivenUp == \A a \in Addresses : []<>(a \notin ready \/ a \in up \/ done)

(* No subscriber stays stale: a change it subscribed to reaches it. *)
EventuallySeen == \A s \in Subscribers : []<>(s \notin stale \/ done)
=============================================================================
