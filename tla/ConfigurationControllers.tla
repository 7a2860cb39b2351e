---------------------- MODULE ConfigurationControllers ----------------------
(***************************************************************************)
(* The controllers that copy the configuration objects of the cluster into *)
(* KongClient's object cache (internal/controllers/configuration), the     *)
(* reference cache that decides which Secrets are copied with them         *)
(* (internal/controllers/reference), the Secret controller, and the way    *)
(* back: KongClient reports what it applied, the status queue wakes the    *)
(* controllers, and they write the objects' statuses.                      *)
(*                                                                         *)
(* Every kind has a controller with one worker, so reconciliations of one  *)
(* kind are sequential and those of two kinds interleave.  The controllers *)
(* read the cluster through informers: what this module calls the cluster  *)
(* is what the informers show.                                             *)
(***************************************************************************)
EXTENDS Integers, Sequences, FiniteSets

CONSTANTS
    Objects,         \* configuration objects that are not Secrets
    Secrets,
    Scenarios,       \* the objects that may exist, labels, a bound on changes
    Broken,          \* versions that fail to translate
    ReportsEnabled,  \* AreKubernetesObjectReportsEnabled
    BufferSize,      \* capacity of a status queue subscription
    MaxChanges,      \* bound on the changes of the cluster in any scenario
    MaxFaults,       \* bound on the failed reads of a Secret
    Absent,
    NoSecret

(* What tells the generated reconcilers apart: whether they filter by      *)
(* ingress class, whether they keep references to Secrets, and which       *)
(* status they write.  Kinds that agree on all three are one kind here.    *)
Controller(classed, refs, status) == [classed |-> classed, refs |-> refs, status |-> status]

CoreV1Service          == Controller(FALSE, TRUE, "none")
EndpointSlice          == Controller(FALSE, FALSE, "none")
Ingress                == Controller(TRUE, TRUE, "addresses")
IngressClass           == Controller(FALSE, FALSE, "none")
KongIngress            == Controller(FALSE, FALSE, "none")
KongPlugin             == Controller(FALSE, TRUE, "none")
KongClusterPlugin      == Controller(TRUE, TRUE, "none")
KongConsumer           == Controller(TRUE, TRUE, "programmed")
KongConsumerGroup      == Controller(TRUE, TRUE, "programmed")
TCPIngress             == Controller(TRUE, TRUE, "addresses")
UDPIngress             == Controller(TRUE, FALSE, "addresses")
IngressClassParameters == Controller(FALSE, FALSE, "none")
KongServiceFacade      == Controller(TRUE, FALSE, "programmed")
KongVault              == Controller(TRUE, FALSE, "programmed")
KongCustomEntity       == Controller(TRUE, FALSE, "programmed")

Kinds == {CoreV1Service, EndpointSlice, Ingress, IngressClass, KongIngress, KongPlugin,
          KongClusterPlugin, KongConsumer, KongConsumerGroup, TCPIngress, UDPIngress,
          IngressClassParameters, KongServiceFacade, KongVault, KongCustomEntity}

ASSUME BoundsAssumption == BufferSize \in Nat /\ MaxChanges \in Nat /\ MaxFaults \in Nat

ASSUME ScenariosAssumption ==
    \A s \in Scenarios :
        /\ DOMAIN s.kinds \subseteq Objects /\ s.kinds \in [DOMAIN s.kinds -> Kinds]
        /\ s.caCerts \subseteq Secrets /\ s.credentials \subseteq Secrets /\ s.changes \in 0..MaxChanges

VARIABLES
    kindOf,         \* the kind of each object that may exist, fixed
    caCerts,        \* Secrets with the label konghq.com/ca-cert, fixed
    credentials,    \* Secrets with the label konghq.com/credential, fixed
    budget,         \* bound on the changes of the cluster, fixed
    cluster,        \* the objects
    secrets,        \* the Secrets
    defaultClass,   \* our IngressClass is the default one
    changes,        \* changes of the cluster so far
    deletedSecrets, \* Secrets that were deleted at some time, a history
    faults,         \* failed reads so far
    queue,          \* objects in their controllers' work queues
    secretEvents,   \* events of Secrets the predicates have not seen yet
    secretQueue,    \* work queue of the Secret controller
    index,          \* reference cache: <<referrer, Secret>>
    cache,          \* object cache, without the Secrets
    cachedSecrets,  \* Secrets in the object cache
    worker,         \* the reconciliation each controller is in
    secretWorker,   \* the reconciliation the Secret controller is in
    SHAs,           \* of the configuration that was sent last; stands for what it was made of
    filter,         \* kubernetesObjectReportsFilter
    toPublish,      \* objects Update has yet to publish
    subscription    \* channels of the status queue

scenarioVars == <<kindOf, caCerts, credentials, budget>>
clusterVars == <<cluster, secrets, defaultClass, changes, deletedSecrets>>
secretVars  == <<secretEvents, secretQueue, secretWorker>>
reportVars  == <<SHAs, filter, toPublish>>
vars == <<scenarioVars, clusterVars, faults, queue, secretVars, index, cache, cachedSecrets, worker,
          reportVars, subscription>>

-----------------------------------------------------------------------------
Classes  == {"ours", "empty", "other"}
NoStatus == [programmed |-> "none", gen |-> 0]
Statuses == [programmed : {"none", "Pending", "Programmed", "Invalid", "addresses"},
             gen : 0..MaxChanges]
(* An edit is silent when Kong's configuration has nothing of what it      *)
(* changes.                                                                *)
Specs(k) == [class : IF k.classed THEN Classes ELSE {"ours"},
             refs : IF k.refs THEN SUBSET Secrets ELSE {{}},
             silent : IF k.status = "none" THEN {FALSE} ELSE BOOLEAN]

Idle == [phase |-> "idle"]
Running(c) == worker[c].phase # "idle"
Kind(o) == kindOf[o]
Existing == DOMAIN kindOf
Controllers == {kindOf[o] : o \in Existing}
Entry(obj) == [ver |-> obj.ver, gen |-> obj.gen, conf |-> obj.conf]
Secret(ver, deleting) == [ver |-> ver, deleting |-> deleting]

(* MatchesIngressClass *)
MatchesIngressClass(obj, isDefault) == obj.class = "ours" \/ (obj.class = "empty" /\ isDefault)

(* GeneratePredicateFuncsForIngressClassFilter: an event passes when the   *)
(* object, before or after it, could be ours.                              *)
PassesClassFilter(k, before, after) ==
    \/ ~k.classed
    \/ \E obj \in {before, after} \ {Absent} : MatchesIngressClass(obj, TRUE)

ObjectReferred(s) == \E o \in Objects : <<o, s>> \in index
ListReferredObjects(o) == {s \in Secrets : <<o, s>> \in index}

(* shouldReconcileSecret; deletions always pass. *)
shouldReconcileSecret(s) == s \in caCerts \/ s \in credentials \/ ObjectReferred(s)

(* ConfigurationStatusSet.Get, and the condition made from it. *)
ConfigurationStatus(o, gen) ==
    IF filter[o] = Absent \/ filter[o].gen < gen THEN "Pending"
    ELSE IF filter[o].ver \in Broken THEN "Invalid" ELSE "Programmed"

(* What Kong's configuration has of an object in the cache: nothing, when  *)
(* it fails to translate.  The Secrets that are referred to, and the CA    *)
(* certificates, are part of the configuration too.                        *)
Translation(entry) == IF entry = Absent \/ entry.ver \in Broken THEN Absent ELSE entry.conf
Configuration ==
    [objects |-> [o \in Objects |-> Translation(cache[o])],
     secrets |-> [s \in Secrets |-> IF s \in caCerts \/ ObjectReferred(s) THEN cachedSecrets[s] ELSE Absent]]

TypeOK ==
    /\ Existing \subseteq Objects /\ kindOf \in [Existing -> Kinds]
    /\ caCerts \subseteq Secrets /\ credentials \subseteq Secrets /\ budget \in 0..MaxChanges
    /\ \A o \in Objects :
         /\ cluster[o] = Absent
              \/ cluster[o] \in [ver : 1..MaxChanges, gen : 1..MaxChanges, conf : 1..MaxChanges,
                                 class : Classes, refs : SUBSET Secrets, deleting : BOOLEAN, status : Statuses]
         /\ \A x \in {cache[o], filter[o]} :
              x = Absent \/ x \in [ver : 1..MaxChanges, gen : 1..MaxChanges, conf : 1..MaxChanges]
    /\ \A s \in Secrets : \A x \in {secrets[s], cachedSecrets[s]} :
         x = Absent \/ x \in [ver : 1..MaxChanges, deleting : BOOLEAN]
    /\ defaultClass \in BOOLEAN /\ changes \in 0..MaxChanges /\ faults \in 0..MaxFaults
    /\ deletedSecrets \subseteq Secrets
    /\ queue \subseteq Objects /\ secretQueue \subseteq Secrets /\ toPublish \subseteq Objects
    /\ secretEvents \in Seq([secret : Secrets, deleted : BOOLEAN])
    /\ index \subseteq Objects \X Secrets
    /\ \A c \in Controllers :
         /\ Running(c) => worker[c].obj \in {o \in Existing : Kind(o) = c}
         /\ subscription[c] \in Seq(Objects) /\ Len(subscription[c]) <= BufferSize

Init ==
    /\ \E s \in Scenarios : /\ kindOf = s.kinds /\ budget = s.changes
                           /\ caCerts = s.caCerts /\ credentials = s.credentials
    /\ cluster = [o \in Objects |-> Absent]
    /\ secrets = [s \in Secrets |-> Absent]
    /\ defaultClass = FALSE /\ changes = 0 /\ deletedSecrets = {} /\ faults = 0
    /\ queue = {} /\ secretEvents = <<>> /\ secretQueue = {} /\ index = {}
    /\ cache = [o \in Objects |-> Absent]
    /\ cachedSecrets = [s \in Secrets |-> Absent]
    /\ worker = [c \in Controllers |-> Idle] /\ secretWorker = Idle
    /\ SHAs = Absent /\ filter = [o \in Objects |-> Absent] /\ toPublish = {}
    /\ subscription = [c \in Controllers |-> <<>>]

-----------------------------------------------------------------------------
(* The users of the cluster.  A change of the class is one of metadata and *)
(* leaves the generation alone.                                            *)
clusterUnchanged == UNCHANGED <<scenarioVars, faults, secretQueue, secretWorker, index, cache,
                                cachedSecrets, worker, reportVars, subscription>>

ObjectChanges(o, new) ==
    /\ changes < budget
    /\ changes' = changes + 1
    /\ cluster' = [cluster EXCEPT ![o] = new]
    /\ queue' = IF PassesClassFilter(Kind(o), cluster[o], new) THEN queue \cup {o} ELSE queue
    /\ UNCHANGED <<secrets, deletedSecrets, defaultClass, secretEvents>> /\ clusterUnchanged

CreateObject(o, spec) ==
    /\ cluster[o] = Absent /\ ~spec.silent
    /\ ObjectChanges(o, [ver |-> changes + 1, gen |-> 1, conf |-> changes + 1, class |-> spec.class,
                         refs |-> spec.refs, deleting |-> FALSE, status |-> NoStatus])

UpdateObject(o, spec) ==
    /\ cluster[o] # Absent /\ ~cluster[o].deleting
    /\ spec.silent => spec.class = cluster[o].class /\ spec.refs = cluster[o].refs
    /\ ObjectChanges(o, [cluster[o] EXCEPT !.ver = changes + 1, !.refs = spec.refs,
           !.class = spec.class, !.gen = IF spec.class = cluster[o].class THEN @ + 1 ELSE @,
           !.conf = IF spec.silent THEN @ ELSE changes + 1])

(* A deletion waits for finalizers, if there are any. *)
MarkObjectDeleted(o) ==
    /\ cluster[o] # Absent /\ ~cluster[o].deleting
    /\ ObjectChanges(o, [cluster[o] EXCEPT !.ver = changes + 1, !.deleting = TRUE])

DeleteObject(o) == cluster[o] # Absent /\ ObjectChanges(o, Absent)

SecretChanges(s, new) ==
    /\ changes < budget
    /\ changes' = changes + 1
    /\ secrets' = [secrets EXCEPT ![s] = new]
    /\ deletedSecrets' = IF new = Absent THEN deletedSecrets \cup {s} ELSE deletedSecrets
    /\ secretEvents' = Append(secretEvents, [secret |-> s, deleted |-> new = Absent])
    /\ UNCHANGED <<cluster, defaultClass, queue>> /\ clusterUnchanged

WriteSecret(s) ==
    /\ secrets[s] # Absent => ~secrets[s].deleting
    /\ SecretChanges(s, Secret(changes + 1, FALSE))

MarkSecretDeleted(s) ==
    /\ secrets[s] # Absent /\ ~secrets[s].deleting
    /\ SecretChanges(s, Secret(changes + 1, TRUE))

DeleteSecret(s) == secrets[s] # Absent /\ SecretChanges(s, Absent)

(* listClassless: an event of an IngressClass that is (or was, when it is  *)
(* deleted) the default one wakes every object without a class.  Taking    *)
(* the annotation away from it wakes none.  Where no kind has a class, it  *)
(* does not matter.                                                        *)
Classless ==
    {o \in Existing : Kind(o).classed /\ cluster[o] # Absent /\ cluster[o].class = "empty"}

ChangeIngressClass(default, deleted) ==
    /\ \E o \in Existing : Kind(o).classed
    /\ changes < budget
    /\ changes' = changes + 1
    /\ defaultClass # default /\ (deleted => ~default)
    /\ defaultClass' = default
    /\ queue' = IF default \/ deleted THEN queue \cup Classless ELSE queue
    /\ UNCHANGED <<cluster, secrets, deletedSecrets, secretEvents>> /\ clusterUnchanged

-----------------------------------------------------------------------------
(* A controller's Reconcile.  The phases are the calls it makes, in order; *)
(* every read of the cluster and every access to a cache it shares with    *)
(* the other controllers is a step.                                        *)
Step(c, w) == worker' = [worker EXCEPT ![c] = w]
Requeue(o) == queue' = queue \cup {o}
reconcileUnchanged == UNCHANGED <<scenarioVars, secrets, deletedSecrets, defaultClass, changes, secretVars,
                                  reportVars, subscription>>

EnterAddresses(c, w) ==
    IF c.status = "addresses" /\ ReportsEnabled THEN [w EXCEPT !.phase = "addresses"] ELSE Idle

(* removeOutdatedReferencesToSecret: what it goes through. *)
EnterOutdated(c, w) ==
    LET outdated == ListReferredObjects(w.obj) \ w.copy.refs
    IN IF outdated = {} THEN EnterAddresses(c, w)
       ELSE [w EXCEPT !.phase = "outdated", !.todo = outdated]

(* Mutant: an object that names no Secret has no references to update. *)
EnterReferencesIfAny(c, w) ==
    IF ~c.refs \/ w.copy.refs = {} THEN EnterAddresses(c, w)
    ELSE [w EXCEPT !.phase = "references", !.todo = w.copy.refs]

(* updateReferredObjects *)
EnterReferences(c, w) ==
    IF ~c.refs THEN EnterAddresses(c, w)
    ELSE IF w.copy.refs = {} THEN EnterOutdated(c, w)
    ELSE [w EXCEPT !.phase = "references", !.todo = w.copy.refs]

(* The Secret is dealt with: what comes next. *)
Done(c, w, s) ==
    LET v == [w EXCEPT !.todo = @ \ {s}, !.secret = NoSecret, !.act = "none"]
    IN CASE v.todo # {} -> v
         [] v.todo = {} /\ v.phase = "references" -> EnterOutdated(c, v)
         [] v.todo = {} /\ v.phase = "outdated" -> EnterAddresses(c, v)
         [] v.todo = {} /\ v.phase = "release" -> [v EXCEPT !.phase = "remove"]

(* The object is read.  One that is gone, or on its way out, is removed.   *)
Start(c, o) ==
    /\ ~Running(c) /\ Kind(o) = c /\ o \in queue
    /\ queue' = queue \ {o}
    /\ LET gone == cluster[o] = Absent \/ cluster[o].deleting
       IN Step(c, [phase |-> IF ~gone THEN "write" ELSE IF c.refs THEN "forget" ELSE "remove",
                   obj |-> o, copy |-> cluster[o], todo |-> {}, secret |-> NoSecret,
                   act |-> "none", got |-> Absent])
    /\ UNCHANGED <<cluster, faults, index, cache, cachedSecrets>> /\ reconcileUnchanged

(* Mutant: an object that is not of our class is just skipped. *)
WriteIfOurs(c) ==
    LET w == worker[c]
    IN /\ w.phase = "write"
       /\ IF ~c.classed \/ MatchesIngressClass(w.copy, defaultClass)
          THEN /\ cache' = [cache EXCEPT ![w.obj] = Entry(w.copy)]
               /\ Step(c, IF c.status = "programmed" /\ ReportsEnabled
                          THEN [w EXCEPT !.phase = "programmed"] ELSE EnterReferences(c, w))
          ELSE Step(c, Idle) /\ UNCHANGED cache
       /\ UNCHANGED <<cluster, faults, queue, index, cachedSecrets>> /\ reconcileUnchanged

(* Mutant: the generation of an object stands for its version. *)
WriteGeneration(c) ==
    LET w == worker[c]
        ours == ~c.classed \/ MatchesIngressClass(w.copy, defaultClass)
    IN /\ w.phase = "write"
       /\ cache' = [cache EXCEPT ![w.obj] =
              IF ours THEN [Entry(w.copy) EXCEPT !.ver = w.copy.gen] ELSE Absent]
       /\ Step(c, IF ~ours THEN Idle
                  ELSE IF c.status = "programmed" /\ ReportsEnabled
                       THEN [w EXCEPT !.phase = "programmed"] ELSE EnterReferences(c, w))
       /\ UNCHANGED <<cluster, faults, queue, index, cachedSecrets>> /\ reconcileUnchanged

(* The ingress class is read; the object goes into the cache, or out of it *)
(* when it is not of our class.  In the latter case its references stay.   *)
Write(c) ==
    LET w == worker[c]
        ours == ~c.classed \/ MatchesIngressClass(w.copy, defaultClass)
    IN /\ w.phase = "write"
       /\ cache' = [cache EXCEPT ![w.obj] =
              IF ours THEN Entry(w.copy) ELSE Absent]
       /\ Step(c, IF ~ours THEN Idle
                  ELSE IF c.status = "programmed" /\ ReportsEnabled
                       THEN [w EXCEPT !.phase = "programmed"] ELSE EnterReferences(c, w))
       /\ UNCHANGED <<cluster, faults, queue, index, cachedSecrets>> /\ reconcileUnchanged

(* Status().Update: refused when the copy is not the latest version.  The  *)
(* refusal is an error, the write an event of the object: it is queued     *)
(* again either way.                                                       *)
UpdateStatus(o, copy, status) ==
    /\ cluster' = IF cluster[o] = copy THEN [cluster EXCEPT ![o].status = status] ELSE cluster
    /\ Requeue(o)

(* EnsureProgrammedCondition: a write of the status ends the reconciliation. *)
EnsureProgrammedCondition(c) ==
    LET w == worker[c]
        desired == [programmed |-> ConfigurationStatus(w.obj, w.copy.gen), gen |-> w.copy.gen]
    IN /\ w.phase = "programmed"
       /\ IF w.copy.status = desired
          THEN Step(c, EnterReferences(c, w)) /\ UNCHANGED <<cluster, queue>>
          ELSE Step(c, Idle) /\ UpdateStatus(w.obj, w.copy, desired)
       /\ UNCHANGED <<faults, index, cache, cachedSecrets>> /\ reconcileUnchanged

(* The addresses are reported once the object is configured, and the       *)
(* reconciliation is repeated until it is.                                 *)
UpdateLoadBalancerIngress(c) ==
    LET w == worker[c]
        desired == [programmed |-> "addresses", gen |-> 0]
    IN /\ w.phase = "addresses"
       /\ Step(c, Idle)
       /\ CASE ConfigurationStatus(w.obj, w.copy.gen) # "Programmed" ->
                  Requeue(w.obj) /\ UNCHANGED cluster
            [] ConfigurationStatus(w.obj, w.copy.gen) = "Programmed" /\ w.copy.status # desired ->
                  UpdateStatus(w.obj, w.copy, desired)
            [] OTHER -> UNCHANGED <<cluster, queue>>
       /\ UNCHANGED <<faults, index, cache, cachedSecrets>> /\ reconcileUnchanged

(* UpdateReferencesToSecret, for one Secret: the reference is recorded and *)
(* the Secret is read.  If it does not exist the object is queued again.   *)
SetObjectReference(c, s) ==
    LET w == worker[c]
    IN /\ w.phase = "references" /\ s \in w.todo /\ w.act = "none"
       /\ index' = index \cup {<<w.obj, s>>}
       /\ IF secrets[s] = Absent
          THEN Step(c, Idle) /\ Requeue(w.obj)
          ELSE Step(c, [w EXCEPT !.secret = s, !.act = "put", !.got = secrets[s]])
               /\ UNCHANGED queue
       /\ UNCHANGED <<cluster, faults, cache, cachedSecrets>> /\ reconcileUnchanged

CacheSecret(c) ==
    LET w == worker[c]
    IN /\ w.phase = "references" /\ w.act = "put"
       /\ cachedSecrets' = [cachedSecrets EXCEPT ![w.secret] = w.got]
       /\ Step(c, Done(c, w, w.secret))
       /\ UNCHANGED <<cluster, faults, queue, index, cache>> /\ reconcileUnchanged

(* removeOutdatedReferencesToSecret, for one Secret: its record is deleted *)
(* and its label is read.  A read that fails ends the loop, and the nil    *)
(* error that is returned lets the reconciliation go on.                   *)
RemoveOutdatedReference(c, s) ==
    LET w == worker[c]
    IN /\ w.phase = "outdated" /\ s \in w.todo /\ w.act = "none"
       /\ index' = index \ {<<w.obj, s>>}
       /\ \/ /\ Step(c, IF secrets[s] # Absent /\ s \in caCerts THEN Done(c, w, s)
                        ELSE [w EXCEPT !.secret = s, !.act = "check"])
             /\ UNCHANGED faults
          \/ /\ faults < MaxFaults
             /\ faults' = faults + 1
             /\ Step(c, EnterAddresses(c, w))
       /\ UNCHANGED <<cluster, queue, cache, cachedSecrets>> /\ reconcileUnchanged

(* DeleteReferencesByReferrer: all records go first. *)
DeleteReferencesByReferrer(c) ==
    LET w == worker[c]
        referents == ListReferredObjects(w.obj)
    IN /\ w.phase = "forget"
       /\ index' = index \ ({w.obj} \X Secrets)
       /\ Step(c, [w EXCEPT !.phase = IF referents = {} THEN "remove" ELSE "release",
                            !.todo = referents])
       /\ UNCHANGED <<cluster, faults, queue, cache, cachedSecrets>> /\ reconcileUnchanged

(* Mutant: nobody asks who else refers to the Secret. *)
EvictUnasked(c, s) ==
    LET w == worker[c]
    IN /\ \/ w.phase = "outdated" /\ w.act = "check" /\ w.secret = s
          \/ w.phase = "release" /\ w.act = "none" /\ s \in w.todo
       /\ Step(c, [w EXCEPT !.secret = s, !.act = "evict"])
       /\ UNCHANGED <<cluster, faults, queue, index, cache, cachedSecrets>> /\ reconcileUnchanged

(* DeleteObjectIfNotReferred looks the Secret up in the reference cache... *)
CheckReferred(c, s) ==
    LET w == worker[c]
    IN /\ \/ w.phase = "outdated" /\ w.act = "check" /\ w.secret = s
          \/ w.phase = "release" /\ w.act = "none" /\ s \in w.todo
       /\ Step(c, IF ObjectReferred(s) THEN Done(c, w, s)
                  ELSE [w EXCEPT !.secret = s, !.act = "evict"])
       /\ UNCHANGED <<cluster, faults, queue, index, cache, cachedSecrets>> /\ reconcileUnchanged

(* ... and then deletes it from the object cache. *)
DeleteObjectIfNotReferred(c) ==
    LET w == worker[c]
    IN /\ Running(c) /\ w.act = "evict"
       /\ cachedSecrets' = [cachedSecrets EXCEPT ![w.secret] = Absent]
       /\ Step(c, Done(c, w, w.secret))
       /\ UNCHANGED <<cluster, faults, queue, index, cache>> /\ reconcileUnchanged

(* An object that is being deleted is looked at once more after it left    *)
(* the cache.                                                              *)
Remove(c) ==
    LET w == worker[c]
    IN /\ w.phase = "remove"
       /\ cache' = [cache EXCEPT ![w.obj] = Absent]
       /\ IF w.copy # Absent /\ cache[w.obj] # Absent THEN Requeue(w.obj) ELSE UNCHANGED queue
       /\ Step(c, Idle)
       /\ UNCHANGED <<cluster, faults, index, cachedSecrets>> /\ reconcileUnchanged

-----------------------------------------------------------------------------
(* The Secret controller. *)
secretUnchanged == UNCHANGED <<scenarioVars, clusterVars, faults, queue, index, cache, worker,
                               reportVars, subscription>>

(* Its predicates judge an event when it is delivered. *)
DeliverSecretEvent ==
    /\ secretEvents # <<>>
    /\ secretEvents' = Tail(secretEvents)
    /\ LET e == Head(secretEvents)
       IN secretQueue' = IF e.deleted \/ shouldReconcileSecret(e.secret)
                         THEN secretQueue \cup {e.secret} ELSE secretQueue
    /\ UNCHANGED <<secretWorker, cachedSecrets>> /\ secretUnchanged

StartSecret(s) ==
    /\ secretWorker = Idle /\ s \in secretQueue
    /\ secretQueue' = secretQueue \ {s}
    /\ secretWorker' = [phase |-> "write", secret |-> s, got |-> secrets[s]]
    /\ UNCHANGED <<secretEvents, cachedSecrets>> /\ secretUnchanged

ReconcileSecret ==
    LET s == secretWorker.secret
        deleting == secretWorker.got # Absent /\ secretWorker.got.deleting
    IN /\ secretWorker # Idle
       /\ cachedSecrets' = [cachedSecrets EXCEPT ![s] =
              IF deleting THEN Absent ELSE secretWorker.got]
       /\ secretQueue' = IF deleting /\ cachedSecrets[s] # Absent
                         THEN secretQueue \cup {s} ELSE secretQueue
       /\ secretWorker' = Idle
       /\ UNCHANGED secretEvents /\ secretUnchanged

-----------------------------------------------------------------------------
(* The way back.  KongClient.Update sends the configuration it makes of    *)
(* the cache.  When it differs from the one sent last, which the SHAs      *)
(* tell, it replaces the filter and publishes the objects one by one; a    *)
(* full subscription blocks it.  Only the kinds that have a status look    *)
(* their objects up in the filter or subscribe; where there are none, a    *)
(* report is nothing to anybody.                                           *)
reportUnchanged == UNCHANGED <<scenarioVars, clusterVars, faults, secretVars, index, cache,
                               cachedSecrets, worker>>

Reportable == [o \in Objects |-> IF o \in Existing /\ Kind(o).status # "none" THEN cache[o] ELSE Absent]

(* Mutant: the filter is replaced, but nobody is told. *)
ReportSilently ==
    /\ ReportsEnabled /\ toPublish = {} /\ (\E c \in Controllers : c.status # "none")
    /\ SHAs # Configuration /\ SHAs' = Configuration
    /\ filter' = Reportable
    /\ UNCHANGED <<toPublish, queue, subscription>> /\ reportUnchanged

triggerKubernetesObjectReport ==
    /\ ReportsEnabled /\ toPublish = {} /\ (\E c \in Controllers : c.status # "none")
    /\ SHAs # Configuration /\ SHAs' = Configuration
    /\ filter' = Reportable
    /\ toPublish' = {o \in Objects : Reportable[o] # Absent}
    /\ UNCHANGED <<queue, subscription>> /\ reportUnchanged

Publish(o) ==
    /\ o \in toPublish /\ Len(subscription[Kind(o)]) < BufferSize
    /\ toPublish' = toPublish \ {o}
    /\ subscription' = [subscription EXCEPT ![Kind(o)] = Append(@, o)]
    /\ UNCHANGED <<SHAs, filter, queue>> /\ reportUnchanged

(* source.Channel hands the event to the controller's work queue. *)
Receive(c) ==
    /\ subscription[c] # <<>>
    /\ subscription' = [subscription EXCEPT ![c] = Tail(@)]
    /\ Requeue(Head(subscription[c]))
    /\ UNCHANGED reportVars /\ reportUnchanged

-----------------------------------------------------------------------------
Reconcile(c) ==
    \/ \E o \in Existing : Start(c, o)
    \/ Write(c)
    \/ EnsureProgrammedCondition(c)
    \/ UpdateLoadBalancerIngress(c)
    \/ \E s \in Secrets : SetObjectReference(c, s)
    \/ CacheSecret(c)
    \/ \E s \in Secrets : RemoveOutdatedReference(c, s)
    \/ DeleteReferencesByReferrer(c)
    \/ \E s \in Secrets : CheckReferred(c, s)
    \/ DeleteObjectIfNotReferred(c)
    \/ Remove(c)

SecretController == DeliverSecretEvent \/ (\E s \in Secrets : StartSecret(s)) \/ ReconcileSecret

Reports ==
    \/ triggerKubernetesObjectReport
    \/ \E o \in Existing : Publish(o)
    \/ \E c \in Controllers : Receive(c)

Next ==
    \/ \E o \in Existing : \E spec \in Specs(Kind(o)) : CreateObject(o, spec) \/ UpdateObject(o, spec)
    \/ \E o \in Existing : MarkObjectDeleted(o) \/ DeleteObject(o)
    \/ \E s \in Secrets : WriteSecret(s) \/ MarkSecretDeleted(s) \/ DeleteSecret(s)
    \/ \E default, deleted \in BOOLEAN : ChangeIngressClass(default, deleted)
    \/ \E c \in Controllers : Reconcile(c)
    \/ SecretController
    \/ Reports

Spec == Init /\ [][Next]_vars

(* The workers, the informers, the channel sources and the update loop     *)
(* keep running, and a work queue hands out everything it holds; the users *)
(* need not do anything.  Processes that never have work for good share a  *)
(* condition, which asks for less than the code gives.  The first one is   *)
(* weak fairness of Reconcile, which is enabled unless the controllers     *)
(* rest, and alone changes worker.                                         *)
ControllersRest == queue = {} /\ \A c \in Controllers : ~Running(c)
FairSpec ==
    /\ Spec
    /\ []<>ControllersRest \/ []<><<worker' # worker>>_vars
    /\ \A o \in Objects : SF_vars(o \in Existing /\ Start(Kind(o), o))
    /\ WF_vars(SecretController)
    /\ WF_vars(Reports)

-----------------------------------------------------------------------------
(* Properties. *)

Gone(o) == cluster[o] = Absent \/ cluster[o].deleting
Ours(o) == ~Gone(o) /\ (~Kind(o).classed \/ MatchesIngressClass(cluster[o], defaultClass))
BeingReconciled(o) == Running(Kind(o)) /\ worker[Kind(o)].obj = o
Settled(o) == o \notin queue /\ ~BeingReconciled(o)

(* Nothing tells the controllers that our IngressClass stopped being the   *)
(* default one while it exists: objects without a class stay as they are.  *)
Undecided(o) == ~Gone(o) /\ cluster[o].class = "empty" /\ ~defaultClass

(* The object cache implements ObjectCache. *)
OC == INSTANCE ObjectCache WITH
    latest <- changes,
    wanted <- [o \in Objects |-> IF Undecided(o) /\ cache[o] # Absent THEN cache[o].ver
                                 ELSE IF Ours(o) THEN cluster[o].ver ELSE Absent],
    cached <- [o \in Objects |-> IF cache[o] = Absent THEN Absent ELSE cache[o].ver]

(* The object cache follows the cluster (zz_generated_controllers.go,      *)
(* every Reconcile): whatever the order of events, reconciliations and     *)
(* status writes, no version goes back and none is made up.                *)
CacheFollowsCluster == OC!Spec

(* The cache catches up (zz_generated_controllers.go, every Reconcile):    *)
(* again and again every object is in the cache at its current version, or *)
(* out of it when it does not belong there.                                *)
CacheCatchesUp == OC!CatchesUp

(* The reference cache is exact for every object that is in the object     *)
(* cache and has nothing queued (reference.go, UpdateReferencesToSecret    *)
(* and removeOutdatedReferencesToSecret): it lists the Secrets the object  *)
(* names now, those that do not exist included, and no other, unless a     *)
(* read of a Secret failed.                                                *)
ReferencesExact ==
    faults = 0 => \A o \in Existing :
        Settled(o) /\ Ours(o) /\ Kind(o).refs /\ cache[o] # Absent
            => ListReferredObjects(o) = cluster[o].refs

(* A Secret is served (secret_controller.go, reference.go): when it exists *)
(* for good and an object in the cache names it for good, it ends up in    *)
(* the object cache to stay, provided the objects that name Secrets have   *)
(* one controller, and the Secret is not one that was deleted and created  *)
(* again.                                                                  *)
OneReferrer == Cardinality({c \in Controllers : c.refs}) <= 1
Servable(s) ==
    /\ secrets[s] # Absent /\ ~secrets[s].deleting /\ s \notin deletedSecrets
    /\ ObjectReferred(s)
SecretsServed ==
    OneReferrer => \A s \in Secrets : <>[](Servable(s) => cachedSecrets[s] # Absent)

(* The configuration has of the object what it had at the last report, so  *)
(* that its present generation is not reported.                            *)
Unnoticed(o) ==
    ConfigurationStatus(o, cluster[o].gen) = "Pending" /\ Translation(cache[o]) = Translation(filter[o])
Outcome(o) == IF cluster[o].ver \in Broken THEN "Invalid" ELSE "Programmed"
Tells(o, outcome) ==
    CASE Kind(o).status = "programmed" ->
           cluster[o].status = [programmed |-> outcome, gen |-> cluster[o].gen]
      [] Kind(o).status = "addresses" ->
           outcome = "Programmed" /\ (\A s \in cluster[o].refs : secrets[s] # Absent)
               => cluster[o].status.programmed = "addresses"
      [] OTHER -> TRUE
Reported(o) == Ours(o) /\ ~Undecided(o)

(* No update of KongClient stays blocked in Publish (status/queue.go), and *)
(* the status of an object in the cache ends up saying what happened to    *)
(* its current generation (conditions.go, EnsureProgrammedCondition): it   *)
(* was programmed, or it is invalid; addresses are reported for what is    *)
(* configured, once the Secrets it names exist.  An object the             *)
(* configuration has nothing new of stays pending (kong_client.go:514).    *)
EventuallyReported ==
    ReportsEnabled => \A o \in Objects :
        <>[](Reported(o) => Tells(o, IF Unnoticed(o) THEN "Pending" ELSE Outcome(o)))
=============================================================================
