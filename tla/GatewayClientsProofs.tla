------------------------ MODULE GatewayClientsProofs ------------------------
(***************************************************************************)
(* What GatewayClients promises, for every set of addresses, slices and    *)
(* subscribers, and however often slices change and gateways come and go.  *)
(***************************************************************************)
EXTENDS GatewayClients, TLAPS

-----------------------------------------------------------------------------
(* Facts about the data. *)

(* The addresses in the slices of a service are addresses. *)
LEMMA AddressesInType ==
    ASSUME NEW f \in [Slices -> Slice]
    PROVE  AddressesIn(f) \subseteq Addresses
<1>1. ASSUME NEW t \in Slices, f[t] # NoEntry
      PROVE  f[t] \subseteq Addresses
  BY <1>1 DEF Slice
<1> QED
  BY <1>1 DEF AddressesIn

(* Caching an empty slice adds no address. *)
LEMMA AddressesInEmptySlice ==
    ASSUME NEW f \in [Slices -> Slice], NEW s \in Slices, f[s] = NoEntry
    PROVE  AddressesIn([f EXCEPT ![s] = {}]) = AddressesIn(f)
<1> DEFINE g == [f EXCEPT ![s] = {}]
<1>1. g[s] = {} /\ \A t \in Slices \ {s} : g[t] = f[t]
  OBVIOUS
<1> HIDE DEF g
<1>2. ASSUME NEW a
      PROVE  a \in AddressesIn(g) <=> a \in AddressesIn(f)
  <2>1. a \in AddressesIn(g) <=> \E t \in Slices : g[t] # NoEntry /\ a \in g[t]
    BY DEF AddressesIn
  <2>2. a \in AddressesIn(f) <=> \E t \in Slices : f[t] # NoEntry /\ a \in f[t]
    BY DEF AddressesIn
  <2> QED
    BY <1>1, <2>1, <2>2
<1> QED
  BY <1>2, ZenonT(30) DEF g

(* Taking the first subscriber from the queue leaves the others in it. *)
LEMMA SubscribersInTail ==
    ASSUME NEW q \in Seq(Subscribers), q # <<>>, NEW s \in ToSet(q), s # Head(q)
    PROVE  s \in ToSet(Tail(q))
<1>1. PICK i \in 1..Len(q) : q[i] = s
  BY DEF ToSet
<1>2. i - 1 \in 1..Len(Tail(q)) /\ Tail(q)[i - 1] = s
  BY <1>1
<1> QED
  BY <1>2 DEF ToSet

(* Queueing a subscriber leaves the others in the queue. *)
LEMMA SubscribersInAppend ==
    ASSUME NEW q \in Seq(Subscribers), NEW s \in Subscribers
    PROVE  ToSet(q) \subseteq ToSet(Append(q, s))
<1>1. ASSUME NEW t \in ToSet(q)
      PROVE  t \in ToSet(Append(q, s))
  <2>1. PICK i \in 1..Len(q) : q[i] = t
    BY DEF ToSet
  <2>2. i \in 1..Len(Append(q, s)) /\ Append(q, s)[i] = t
    BY <2>1
  <2> QED
    BY <2>2 DEF ToSet
<1> QED
  BY <1>1

(* The queue holds subscribers. *)
LEMMA SubscribersInSeq ==
    ASSUME NEW q \in Seq(Subscribers)
    PROVE  ToSet(q) \subseteq Subscribers
  BY DEF ToSet

-----------------------------------------------------------------------------
(* Type correctness. *)

(* Every step keeps the state well typed. *)
LEMMA NextTypeOK == TypeOK /\ [Next]_vars => TypeOK'
<1> SUFFICES ASSUME TypeOK, [Next]_vars
             PROVE  TypeOK'
  OBVIOUS
<1> USE DEF TypeOK, clusterVars, reconcilerVars, clientVars, subscriberVars, reconcilerUnchanged
<1>1. ASSUME NEW s \in Slices, NEW e \in Slice, SliceChanges(s, e)
      PROVE  TypeOK'
  BY <1>1, GatewayClientsAssumption DEF SliceChanges
<1>2. ASSUME NEW a \in Addresses, AdminAPIFlips(a)
      PROVE  TypeOK'
  BY <1>2, GatewayClientsAssumption DEF AdminAPIFlips
<1>3. CASE Cancel
  BY <1>3 DEF Cancel
<1>4. ASSUME NEW s \in Slices, Reconcile(s)
      PROVE  TypeOK'
  <2>1. Cache' \in [Slices -> Slice]
    BY <1>4 DEF Reconcile
  <2>2. notifying' \in Slice
    BY <1>4, <2>1, AddressesInType, ZenonT(30) DEF Reconcile, Slice
  <2> QED
    BY <1>4, <2>1, <2>2 DEF Reconcile
<1>5. ASSUME NEW s \in Slices, ReconcileFails(s)
      PROVE  TypeOK'
  <2>1. Cache' \in [Slices -> Slice]
    BY <1>5 DEF ReconcileFails, Slice
  <2> QED
    BY <1>5, <2>1, GatewayClientsAssumption DEF ReconcileFails
<1>6. CASE NotifyInterrupted
  BY <1>6 DEF NotifyInterrupted, Slice
<1>7. CASE AdjustGatewayClients
  <2>1. ToSet(subs) \subseteq Subscribers
    BY SubscribersInSeq
  <2> QED
    BY <1>7, <2>1 DEF AdjustGatewayClients, MarkStale, Slice
<1>8. CASE Tick
  BY <1>8, ZenonT(30) DEF Tick
<1>9. CASE ReconcileGatewayClientsReadiness
  <2>1. ToSet(subs) \subseteq Subscribers
    BY SubscribersInSeq
  <2> QED
    BY <1>9, <2>1, ZenonT(30) DEF ReconcileGatewayClientsReadiness, MarkStale, ClientsTurnedReady,
                      ClientsTurnedPending
<1>10. CASE StartNotifying
  BY <1>10 DEF StartNotifying
<1>11. CASE NotifySubscriber
  BY <1>11 DEF NotifySubscriber
<1>12. CASE EndNotifying
  BY <1>12 DEF EndNotifying
<1>13. CASE Return
  BY <1>13 DEF Return
<1>14. ASSUME NEW s \in Subscribers, Subscribe(s)
       PROVE  TypeOK'
  BY <1>14 DEF Subscribe
<1>15. ASSUME NEW s \in Subscribers, Receive(s)
       PROVE  TypeOK'
  BY <1>15 DEF Receive
<1>16. ASSUME NEW s \in Subscribers, GetGatewayClients(s)
       PROVE  TypeOK'
  BY <1>16 DEF GetGatewayClients
<1>17. CASE UNCHANGED vars
  BY <1>17 DEF vars
<1> QED
  BY <1>1, <1>2, <1>3, <1>4, <1>5, <1>6, <1>7, <1>8, <1>9, <1>10, <1>11, <1>12, <1>13,
     <1>14, <1>15, <1>16, <1>17, ZenonT(30) DEF Next, Reconciler, Handle, Environment

(* The initial state is well typed. *)
LEMMA InitTypeOK == Init => TypeOK
<1> SUFFICES ASSUME Init
             PROVE  TypeOK
  OBVIOUS
<1> USE DEF Init
<1>1. changes \in 0..MaxChanges /\ flips \in 0..MaxFlips
  BY GatewayClientsAssumption
<1>2. NoEntry \in Slice /\ Cache \in [Slices -> Slice] /\ queue \subseteq Slices
  BY DEF Slice
<1>3. signal \in [Subscribers -> {"empty", "full", "closed"}]
  OBVIOUS
<1>4. ready \subseteq Addresses /\ pending \subseteq Addresses
  OBVIOUS
<1>5. subs \in Seq(Subscribers) /\ toNotify \in Seq(Subscribers)
  OBVIOUS
<1> QED
  BY <1>1, <1>2, <1>3, <1>4, <1>5, ZenonT(30) DEF TypeOK

(* No step of the reconciler, the manager's loop or a subscriber leaves    *)
(* the types of the state.                                                 *)
THEOREM TypeCorrect == Spec => []TypeOK
  BY InitTypeOK, NextTypeOK, PTL DEF Spec

-----------------------------------------------------------------------------
(* Ready and pending clients. *)

(* Every step preserves Disjoint: a client moves from one map to the       *)
(* other, and a new address goes to one of them.                           *)
LEMMA NextDisjoint == TypeOK /\ Disjoint /\ [Next]_vars => Disjoint'
<1> SUFFICES ASSUME TypeOK, Disjoint, [Next]_vars
             PROVE  Disjoint'
  OBVIOUS
<1> USE DEF Disjoint
<1>1. CASE AdjustGatewayClients
  BY <1>1 DEF AdjustGatewayClients
<1>2. CASE ReconcileGatewayClientsReadiness
  BY <1>2 DEF ReconcileGatewayClientsReadiness, ClientsTurnedReady, ClientsTurnedPending
<1>3. CASE UNCHANGED clientVars
  BY <1>3 DEF clientVars
<1> QED
  BY <1>1, <1>2, <1>3 DEF Next, Reconciler, Handle, Environment, vars, Reconcile, ReconcileFails,
     NotifyInterrupted, reconcilerUnchanged, Tick, StartNotifying, NotifySubscriber,
     EndNotifying, Return, Subscribe, Receive, GetGatewayClients, SliceChanges,
     AdminAPIFlips, Cancel

(* adjustGatewayClients and reconcileGatewayClientsReadiness keep the maps *)
(* of ready and of pending clients disjoint.                               *)
THEOREM ClientsDisjoint == Spec => []Disjoint
<1>1. Init => Disjoint
  BY DEF Init, Disjoint
<1> QED
  BY <1>1, InitTypeOK, NextTypeOK, NextDisjoint, PTL DEF Spec

-----------------------------------------------------------------------------
(* The manager follows the slices. *)

(* What is not queued is cached as it is, what is on its way to the        *)
(* manager is all that is cached, and what is not on its way is there.     *)
Tracking ==
    /\ \A s \in Slices : s \notin queue => Cache[s] = endpoints[s]
    /\ notifying # NoEntry => notifying = AddressesIn(Cache)
    /\ notified /\ notifying = NoEntry /\ ~done => ready \cup pending = AddressesIn(Cache)

(* Every step preserves Tracking: a change of the slices is pending until  *)
(* the manager has applied it.                                             *)
LEMMA NextTracking == TypeOK /\ Tracking /\ [Next]_vars => Tracking'
<1> SUFFICES ASSUME TypeOK, Tracking, [Next]_vars
             PROVE  Tracking'
  OBVIOUS
<1> USE DEF Tracking, clusterVars, reconcilerVars, clientVars, reconcilerUnchanged
<1>1. ASSUME NEW s \in Slices, NEW e \in Slice, SliceChanges(s, e)
      PROVE  Tracking'
  BY <1>1 DEF SliceChanges, TypeOK
<1>2. ASSUME NEW s \in Slices, Reconcile(s)
      PROVE  Tracking'
  <2>1. Cache' = [Cache EXCEPT ![s] = endpoints[s]] /\ Cache' \in [Slices -> Slice]
    BY <1>2 DEF Reconcile, TypeOK
  <2>2. AddressesIn(Cache') # NoEntry
    BY <2>1, AddressesInType, GatewayClientsAssumption, ZenonT(30)
  <2>3. \A t \in Slices : t \notin queue' => Cache'[t] = endpoints'[t]
    BY <1>2, <2>1 DEF Reconcile, TypeOK
  <2>4. CASE Cache'[s] # Cache[s]
    BY <1>2, <2>2, <2>3, <2>4 DEF Reconcile
  <2>5. CASE Cache'[s] = Cache[s]
    <3>1. Cache' = Cache
      BY <2>1, <2>5 DEF TypeOK
    <3> QED
      BY <1>2, <2>3, <2>5, <3>1 DEF Reconcile
  <2> QED
    BY <2>4, <2>5
<1>3. ASSUME NEW s \in Slices, ReconcileFails(s)
      PROVE  Tracking'
  <2>1. AddressesIn(Cache') = AddressesIn(Cache)
    BY <1>3, AddressesInEmptySlice, ZenonT(30) DEF ReconcileFails, TypeOK
  <2>2. \A t \in Slices : t \notin queue' => Cache'[t] = endpoints'[t]
    BY <1>3 DEF ReconcileFails, TypeOK
  <2> QED
    BY <1>3, <2>1, <2>2 DEF ReconcileFails
<1>4. CASE NotifyInterrupted
  BY <1>4 DEF NotifyInterrupted
<1>5. CASE AdjustGatewayClients
  <2>1. ready' \cup pending' = notifying
    BY <1>5 DEF AdjustGatewayClients
  <2>2. UNCHANGED <<endpoints, queue, Cache>>
    BY <1>5 DEF AdjustGatewayClients
  <2> QED
    BY <1>5, <2>1, <2>2 DEF AdjustGatewayClients
<1>6. CASE ReconcileGatewayClientsReadiness
  <2>1. ready' \cup pending' = ready \cup pending
    BY <1>6 DEF ReconcileGatewayClientsReadiness, ClientsTurnedReady, ClientsTurnedPending
  <2>2. UNCHANGED <<endpoints, queue, Cache, notifying, notified, done>>
    BY <1>6 DEF ReconcileGatewayClientsReadiness
  <2> QED
    BY <2>1, <2>2
<1>7. CASE Cancel
  BY <1>7 DEF Cancel
<1>8. CASE UNCHANGED <<endpoints, queue, Cache, notifying, notified, done, clientVars>>
  BY <1>8
<1> QED
  BY <1>1, <1>2, <1>3, <1>4, <1>5, <1>6, <1>7, <1>8, ZenonT(30) DEF Next, Reconciler, Handle,
     Environment, vars, Tick, StartNotifying, NotifySubscriber, EndNotifying, Return, Subscribe,
     Receive, GetGatewayClients, AdminAPIFlips

(* Once KongAdminAPIServiceReconciler has nothing to do, the manager has   *)
(* the addresses of the slices, however notifications, failed translations *)
(* and readiness checks interleaved.                                       *)
THEOREM ManagerTracksEndpoints == Spec => []TracksEndpoints
<1>1. Init => Tracking
  BY DEF Init, Tracking
<1>2. TypeOK /\ Tracking => TracksEndpoints
  <2> SUFFICES ASSUME TypeOK, Tracking, queue = {}
               PROVE  AddressesIn(Cache) = AddressesIn(endpoints)
    BY DEF Tracking, TracksEndpoints
  <2>1. Cache = endpoints
    BY DEF TypeOK, Tracking
  <2> QED
    BY <2>1
<1> QED
  BY <1>1, <1>2, InitTypeOK, NextTypeOK, NextTracking, PTL DEF Spec

-----------------------------------------------------------------------------
(* Subscribers. *)

(* Only subscribers are told of changes, so whoever is stale when the loop *)
(* reads the list of subscribers is on it.                                 *)
Signalling == stale \subseteq ToSet(subs) /\ NoMissedChange

(* Every step preserves Signalling: a subscriber that has not read the     *)
(* latest clients has a signal waiting or is still to be notified.         *)
LEMMA NextSignalling == TypeOK /\ Signalling /\ [Next]_vars => Signalling'
<1> SUFFICES ASSUME TypeOK, Signalling, [Next]_vars
             PROVE  Signalling'
  OBVIOUS
<1> USE DEF Signalling, NoMissedChange, subscriberVars
<1>1. CASE AdjustGatewayClients
  <2>1. ready' # ready => clientsChanged'
    BY <1>1, ZenonT(30) DEF AdjustGatewayClients
  <2> QED
    BY <1>1, <2>1 DEF AdjustGatewayClients, MarkStale
<1>2. CASE Tick
  BY <1>2 DEF Tick
<1>3. CASE ReconcileGatewayClientsReadiness
  BY <1>3 DEF ReconcileGatewayClientsReadiness, MarkStale
<1>4. CASE StartNotifying
  BY <1>4 DEF StartNotifying
<1>5. CASE NotifySubscriber
  <2>1. toNotify \in Seq(Subscribers) /\ toNotify # <<>> /\ Head(toNotify) \in Subscribers
    BY <1>5 DEF NotifySubscriber, TypeOK
  <2>2. \A s \in ToSet(toNotify) : s # Head(toNotify) => s \in ToSet(toNotify')
    BY <1>5, <2>1, SubscribersInTail DEF NotifySubscriber
  <2>3. \A s \in Subscribers :
           signal'[s] = IF s = Head(toNotify) THEN "full" ELSE signal[s]
    BY <1>5, <2>1 DEF NotifySubscriber, TypeOK
  <2>4. UNCHANGED <<loop, clientsChanged, subs, reading, stale, done>>
    BY <1>5 DEF NotifySubscriber, clusterVars
  <2> QED
    BY <2>2, <2>3, <2>4 DEF TypeOK
<1>6. CASE EndNotifying
  <2>1. toNotify = <<>> => ToSet(toNotify) = {}
    BY DEF ToSet
  <2> QED
    BY <1>6, <2>1 DEF EndNotifying
<1>7. CASE Return
  BY <1>7 DEF Return, TypeOK
<1>8. ASSUME NEW s \in Subscribers, Subscribe(s)
      PROVE  Signalling'
  <2>1. ToSet(subs) \subseteq ToSet(subs')
    BY <1>8, SubscribersInAppend DEF Subscribe, TypeOK
  <2> QED
    BY <1>8, <2>1 DEF Subscribe
<1>9. ASSUME NEW s \in Subscribers, Receive(s)
      PROVE  Signalling'
  BY <1>9 DEF Receive, TypeOK
<1>10. ASSUME NEW s \in Subscribers, GetGatewayClients(s)
       PROVE  Signalling'
  BY <1>10 DEF GetGatewayClients
<1>11. CASE Cancel
  BY <1>11 DEF Cancel
<1>12. CASE UNCHANGED <<loop, clientsChanged, toNotify, subscriberVars, done>>
  BY <1>12
<1> QED
  BY <1>1, <1>2, <1>3, <1>4, <1>5, <1>6, <1>7, <1>8, <1>9, <1>10, <1>11, <1>12, ZenonT(30)
     DEF Next, Reconciler, Handle, Environment, vars, Reconcile, ReconcileFails,
         NotifyInterrupted, reconcilerUnchanged, SliceChanges, AdminAPIFlips

(* No interleaving of the loop's notifications with subscribing, receiving *)
(* and reading loses a change: whoever subscribed before it and has not    *)
(* looked since will be made to look.                                      *)
THEOREM NoChangeMissed == Spec => []NoMissedChange
<1>1. Init => Signalling
  BY DEF Init, Signalling, NoMissedChange
<1>2. Signalling => NoMissedChange
  BY DEF Signalling
<1> QED
  BY <1>1, <1>2, InitTypeOK, NextTypeOK, NextSignalling, PTL DEF Spec
=============================================================================
