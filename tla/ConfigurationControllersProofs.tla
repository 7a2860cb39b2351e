------------------- MODULE ConfigurationControllersProofs -------------------
(***************************************************************************)
(* The controllers keep the object cache and the reference cache right,    *)
(* for every set of objects, kinds and Secrets, any number of changes of   *)
(* the cluster and any capacity of the status queue.                       *)
(***************************************************************************)
EXTENDS ConfigurationControllers, TLAPS

(* Most leaves are about sets, functions and records; those that need      *)
(* arithmetic, or more than Zenon finds, name SMT.                         *)
USE Zenon

-----------------------------------------------------------------------------
(* Types. *)

Entries        == [ver : 1..MaxChanges, gen : 1..MaxChanges, conf : 1..MaxChanges]
SecretVersions == [ver : 1..MaxChanges, deleting : BOOLEAN]
ObjectVersions == [ver : 1..MaxChanges, gen : 1..MaxChanges, conf : 1..MaxChanges,
                   class : Classes, refs : SUBSET Secrets, deleting : BOOLEAN, status : Statuses]

Reading == {"write", "programmed", "references", "outdated", "addresses"}
Phases  == Reading \cup {"forget", "release", "remove"}

Workers == [phase : Phases, obj : Objects, copy : ObjectVersions \cup {Absent},
            todo : SUBSET Secrets, secret : Secrets \cup {NoSecret},
            act : {"none", "put", "check", "evict"}, got : SecretVersions \cup {Absent}]

SecretWorkers == [phase : {"write"}, secret : Secrets, got : SecretVersions \cup {Absent}]

(* A worker is at an object of its kind, has a copy of it where it needs   *)
(* one, and deals with a Secret only in the phases that do.                *)
WorkerOK(c, w) ==
    /\ w.obj \in Existing /\ Kind(w.obj) = c
    /\ w.phase \in Reading => w.copy \in ObjectVersions \ {Absent}
    /\ w.act # "none" => w.secret \in Secrets
    /\ w.act = "put" => w.phase = "references"
    /\ w.act = "check" => w.phase = "outdated"
    /\ w.act = "evict" => w.phase \in {"outdated", "release"}

ScenarioOK ==
    /\ Existing \subseteq Objects /\ kindOf \in [Existing -> Kinds]
    /\ caCerts \subseteq Secrets /\ credentials \subseteq Secrets /\ budget \in 0..MaxChanges

ClusterOK ==
    /\ cluster \in [Objects -> ObjectVersions \cup {Absent}]
    /\ secrets \in [Secrets -> SecretVersions \cup {Absent}]
    /\ defaultClass \in BOOLEAN /\ changes \in 0..budget /\ deletedSecrets \subseteq Secrets

CachesOK ==
    /\ cache \in [Objects -> Entries \cup {Absent}]
    /\ filter \in [Objects -> Entries \cup {Absent}]
    /\ cachedSecrets \in [Secrets -> SecretVersions \cup {Absent}]
    /\ index \subseteq Objects \X Secrets

QueuesOK ==
    /\ queue \subseteq Objects /\ secretQueue \subseteq Secrets /\ toPublish \subseteq Objects
    /\ secretEvents \in Seq([secret : Secrets, deleted : BOOLEAN])
    /\ subscription \in [Controllers -> Seq(Objects)]
    /\ \A c \in Controllers : Len(subscription[c]) <= BufferSize

WorkersOK ==
    /\ faults \in 0..MaxFaults
    /\ worker \in [Controllers -> Workers \cup {Idle}]
    /\ \A c \in Controllers : Running(c) => WorkerOK(c, worker[c])
    /\ secretWorker \in SecretWorkers \cup {Idle}

(* Versions are numbered: what is copied or cached was made, and nothing   *)
(* is newer than what the cluster has of the same object.                  *)
Versions ==
    /\ \A o \in Objects : cluster[o] # Absent => cluster[o].gen <= cluster[o].ver /\ cluster[o].ver <= changes
    /\ \A o \in Objects : cache[o] # Absent =>
          cache[o].ver <= changes /\ (cluster[o] # Absent => cache[o].ver <= cluster[o].ver)
    /\ \A c \in Controllers : LET w == worker[c] IN w.phase = "write" =>
          /\ w.copy.ver <= changes
          /\ cluster[w.obj] # Absent => w.copy.ver <= cluster[w.obj].ver
          /\ cache[w.obj] # Absent => cache[w.obj].ver <= w.copy.ver

TypeInv == ScenarioOK /\ ClusterOK /\ CachesOK /\ QueuesOK /\ WorkersOK /\ Versions

-----------------------------------------------------------------------------
(* References. *)

Referred(o, ix) == {s \in Secrets : <<o, s>> \in ix}

(* Not an object that the class filter lets through. *)
Foreign(k, x) == x = Absent \/ (k.classed /\ x.class = "other")

(* What the reference cache holds for the object a worker is at. *)
WorkerReferences(w, ix) ==
    /\ w.phase = "references" =>
         /\ w.todo \subseteq w.copy.refs
         /\ w.copy.refs \ w.todo \subseteq Referred(w.obj, ix)
         /\ w.act # "none" => w.secret \in Referred(w.obj, ix)
    /\ w.phase = "outdated" =>
         /\ w.copy.refs \subseteq Referred(w.obj, ix)
         /\ w.todo \cap w.copy.refs = {}
         /\ Referred(w.obj, ix) \ w.copy.refs \subseteq w.todo
         /\ w.act # "none" => w.secret \notin Referred(w.obj, ix)
    /\ w.phase = "addresses" => Referred(w.obj, ix) = w.copy.refs

(* A worker whose object is not queued again has a copy of the object as   *)
(* it is, or neither passes the class filter.                              *)
CopyCurrent ==
    \A c \in Controllers : Running(c) =>
        LET w == worker[c]
        IN /\ w.obj \notin queue => w.copy = cluster[w.obj]
                                      \/ (Foreign(c, w.copy) /\ Foreign(c, cluster[w.obj]))
           /\ w.phase \in Reading \ {"write"} => ~Foreign(c, w.copy)

References ==
    /\ CopyCurrent
    /\ faults = 0 => \A c \in Controllers :
          c.refs /\ Running(c) => WorkerReferences(worker[c], index)
    /\ faults = 0 => \A o \in Existing :
          Settled(o) /\ Kind(o).refs /\ cache[o] # Absent /\ ~Foreign(Kind(o), cluster[o])
            => ListReferredObjects(o) = cluster[o].refs

-----------------------------------------------------------------------------
(* The type invariant. *)

(* What is left alone keeps its type. *)
LEMMA SameScenario == ScenarioOK /\ UNCHANGED scenarioVars => ScenarioOK'
  BY DEF ScenarioOK, scenarioVars, Existing

(* ... the objects and Secrets of the cluster, *)
LEMMA SameCluster == ClusterOK /\ UNCHANGED <<scenarioVars, clusterVars>> => ClusterOK'
  BY DEF ClusterOK, scenarioVars, clusterVars

(* ... the caches, *)
LEMMA SameCaches == CachesOK /\ UNCHANGED <<cache, filter, cachedSecrets, index>> => CachesOK'
  BY DEF CachesOK

(* ... the queues and the subscriptions, *)
LEMMA SameQueues ==
    QueuesOK /\ UNCHANGED <<scenarioVars, queue, secretQueue, secretEvents, toPublish, subscription>>
        => QueuesOK'
  BY DEF QueuesOK, scenarioVars, Controllers, Existing

(* ... the workers, *)
LEMMA SameWorkers ==
    WorkersOK /\ UNCHANGED <<scenarioVars, faults, worker, secretWorker>> => WorkersOK'
  BY SMT DEF WorkersOK, scenarioVars, Controllers, Existing, WorkerOK, Running, Kind

(* ... and the versions that were handed out. *)
LEMMA SameVersions ==
    Versions /\ UNCHANGED <<scenarioVars, cluster, changes, cache, worker>> => Versions'
  BY DEF Versions, scenarioVars, Controllers, Existing

(* A worker goes on with the object it is at. *)
Continues(c, w, v) ==
    /\ v \in Workers /\ WorkerOK(c, v)
    /\ v.obj = w.obj /\ v.copy = w.copy /\ v.phase # "write" /\ v.act = "none"

(* The steps after the object is written into the cache. *)
LEMMA EnterTypes ==
    ASSUME NEW c, NEW w \in Workers, WorkerOK(c, w), w.copy \in ObjectVersions \ {Absent}, w.act = "none"
    PROVE  \A v \in {EnterAddresses(c, w), EnterOutdated(c, w), EnterReferences(c, w)} :
              v = Idle \/ Continues(c, w, v)
<1>1. ASSUME NEW p \in Reading \ {"write"}
      PROVE  Continues(c, w, [w EXCEPT !.phase = p])
  <2> DEFINE v == [w EXCEPT !.phase = p]
  <2>1. /\ v \in Workers /\ v.phase = p /\ v.obj = w.obj /\ v.copy = w.copy
        /\ v.act = "none" /\ v.phase # "write"
    BY DEF Workers, Phases
  <2> HIDE DEF v
  <2>2. WorkerOK(c, v)
    BY <2>1 DEF WorkerOK
  <2>3. Continues(c, w, v)
    BY <2>1, <2>2 DEF Continues
  <2> QED
    BY <2>3 DEF v
<1>2. ASSUME NEW p \in Reading \ {"write"}, NEW t \in SUBSET Secrets
      PROVE  Continues(c, w, [w EXCEPT !.phase = p, !.todo = t])
  <2> DEFINE v == [w EXCEPT !.phase = p, !.todo = t]
  <2>1. /\ v \in Workers /\ v.phase = p /\ v.obj = w.obj /\ v.copy = w.copy
        /\ v.act = "none" /\ v.phase # "write"
    BY DEF Workers, Phases
  <2> HIDE DEF v
  <2>2. WorkerOK(c, v)
    BY <2>1 DEF WorkerOK
  <2>3. Continues(c, w, v)
    BY <2>1, <2>2 DEF Continues
  <2> QED
    BY <2>3 DEF v
<1>3. EnterAddresses(c, w) = Idle \/ Continues(c, w, EnterAddresses(c, w))
  BY <1>1 DEF EnterAddresses, Reading
<1>4. EnterOutdated(c, w) = Idle \/ Continues(c, w, EnterOutdated(c, w))
  <2>1. ListReferredObjects(w.obj) \ w.copy.refs \in SUBSET Secrets
    BY DEF ListReferredObjects
  <2>2. Continues(c, w, [w EXCEPT !.phase = "outdated",
                                  !.todo = ListReferredObjects(w.obj) \ w.copy.refs])
    BY <1>2, <2>1 DEF Reading
  <2> QED
    BY <1>3, <2>2 DEF EnterOutdated
<1>5. EnterReferences(c, w) = Idle \/ Continues(c, w, EnterReferences(c, w))
  <2>1. w.copy.refs \in SUBSET Secrets
    BY DEF ObjectVersions
  <2>2. Continues(c, w, [w EXCEPT !.phase = "references", !.todo = w.copy.refs])
    BY <1>2, <2>1 DEF Reading
  <2> QED
    BY <1>3, <1>4, <2>2 DEF EnterReferences
<1> QED
  BY <1>3, <1>4, <1>5, SMT

(* What comes after a Secret. *)
LEMMA DoneTypes ==
    ASSUME NEW c, NEW w \in Workers, WorkerOK(c, w), NEW s \in Secrets,
           w.phase \in {"references", "outdated", "release"}
    PROVE  Done(c, w, s) = Idle \/ Continues(c, w, Done(c, w, s))
<1> DEFINE v == [w EXCEPT !.todo = @ \ {s}, !.secret = NoSecret, !.act = "none"]
<1>1. v \in Workers /\ v.phase = w.phase /\ v.obj = w.obj /\ v.copy = w.copy /\ v.act = "none"
  BY DEF Workers
<1>2. WorkerOK(c, v)
  BY <1>1 DEF WorkerOK
<1> HIDE DEF v
<1>3. Continues(c, w, v)
  BY <1>1, <1>2 DEF Continues
<1>4. CASE v.todo # {}
  BY <1>3, <1>4 DEF Done, v
<1>5. CASE v.todo = {} /\ v.phase = "references"
  <2>1. Done(c, w, s) = EnterOutdated(c, v)
    BY <1>5 DEF Done, v
  <2>2. v.copy \in ObjectVersions \ {Absent}
    BY <1>2, <1>5 DEF WorkerOK, Reading
  <2> QED
    BY <1>1, <1>2, <2>1, <2>2, EnterTypes, SMT DEF Continues
<1>6. CASE v.todo = {} /\ v.phase = "outdated"
  <2>1. Done(c, w, s) = EnterAddresses(c, v)
    BY <1>6 DEF Done, v
  <2>2. v.copy \in ObjectVersions \ {Absent}
    BY <1>2, <1>6 DEF WorkerOK, Reading
  <2> QED
    BY <1>1, <1>2, <2>1, <2>2, EnterTypes, SMT DEF Continues
<1>7. CASE v.todo = {} /\ v.phase = "release"
  <2>1. Done(c, w, s) = [v EXCEPT !.phase = "remove"]
    BY <1>7 DEF Done, v
  <2> QED
    BY <1>1, <1>2, <2>1 DEF Continues, Workers, WorkerOK, Phases, Reading
<1> QED
  BY <1>1, <1>4, <1>5, <1>6, <1>7

(* A worker that goes on, or is done, has its type.                        *)
LEMMA StepTypes ==
    ASSUME WorkersOK, NEW c \in Controllers, NEW v, v = Idle \/ (v \in Workers /\ WorkerOK(c, v)),
           Step(c, v), UNCHANGED <<scenarioVars, secretWorker>>, faults' \in 0..MaxFaults
    PROVE  WorkersOK'
<1>1. Controllers' = Controllers /\ Existing' = Existing
  BY DEF Controllers, Existing, scenarioVars
<1>2. worker' \in [Controllers -> Workers \cup {Idle}]
  BY DEF Step, WorkersOK
<1>3. ASSUME NEW d \in Controllers, Running(d)'
      PROVE  WorkerOK(d, worker[d])'
  <2>1. CASE d = c
    BY <1>3, <2>1, SMT DEF Step, WorkersOK, WorkerOK, Running, Idle, Kind, Existing, scenarioVars
  <2>2. CASE d # c
    BY <1>3, <2>2 DEF Step, WorkersOK, WorkerOK, Running, Kind, Existing, scenarioVars
  <2> QED
    BY <2>1, <2>2
<1> QED
  BY <1>1, <1>2, <1>3 DEF WorkersOK

(* A worker that does not start leaves the order of versions alone.        *)
LEMMA StepVersions ==
    ASSUME Versions, NEW c \in Controllers, NEW v, v = Idle \/ v.phase # "write",
           worker \in [Controllers -> Workers \cup {Idle}],
           Step(c, v), UNCHANGED <<scenarioVars, cluster, changes, cache>>
    PROVE  Versions'
<1>1. Controllers' = Controllers
  BY DEF Controllers, Existing, scenarioVars
<1>2. \A d \in Controllers : worker'[d].phase = "write" => worker'[d] = worker[d]
  BY SMT DEF Step, Idle
<1> QED
  BY <1>1, <1>2 DEF Versions

(* Nothing exists and nothing runs at the start. *)
LEMMA InitTypeInv == Init => TypeInv
<1> SUFFICES ASSUME Init
             PROVE  TypeInv
  OBVIOUS
<1>1. ScenarioOK
  <2>1. PICK s \in Scenarios : /\ kindOf = s.kinds /\ budget = s.changes
                             /\ caCerts = s.caCerts /\ credentials = s.credentials
    BY DEF Init
  <2> QED
    BY <2>1, ScenariosAssumption DEF ScenarioOK, Existing
<1>2. ClusterOK
  <2>1. budget \in Nat
    BY <1>1, SMT DEF ScenarioOK
  <2>2. changes = 0 /\ defaultClass = FALSE /\ deletedSecrets = {}
        /\ cluster = [o \in Objects |-> Absent] /\ secrets = [s \in Secrets |-> Absent]
    BY DEF Init
  <2>3. cluster \in [Objects -> ObjectVersions \cup {Absent}]
        /\ secrets \in [Secrets -> SecretVersions \cup {Absent}]
    BY <2>2
  <2>4. defaultClass \in BOOLEAN /\ deletedSecrets \subseteq Secrets
    BY <2>2, Zenon
  <2>5. changes \in 0..budget
    BY <2>1, <2>2, SMT
  <2> QED
    BY <2>3, <2>4, <2>5, Zenon DEF ClusterOK
<1>3. CachesOK
  BY DEF Init, CachesOK
<1>4. QueuesOK
  BY BoundsAssumption, SMT DEF Init, QueuesOK
<1>5. WorkersOK
  BY BoundsAssumption, SMT DEF Init, WorkersOK, Running, Idle
<1>6. Versions
  BY DEF Init, Versions, Idle
<1> QED
  BY <1>1, <1>2, <1>3, <1>4, <1>5, <1>6 DEF TypeInv

(* A change of an object makes a version newer than all others. *)
LEMMA ObjectTypes ==
    ASSUME TypeInv, NEW o \in Existing, NEW new, ObjectChanges(o, new),
           \/ new = Absent
           \/ new \in ObjectVersions /\ new.gen <= new.ver /\ new.ver = changes + 1
    PROVE  TypeInv'
<1> USE DEF TypeInv
<1>1. UNCHANGED scenarioVars /\ UNCHANGED <<secrets, deletedSecrets, defaultClass>>
      /\ UNCHANGED <<cache, filter, cachedSecrets, index>>
      /\ UNCHANGED <<faults, worker, secretWorker>>
      /\ UNCHANGED <<secretQueue, secretEvents, toPublish, subscription>>
  BY DEF ObjectChanges, clusterUnchanged, reportVars, scenarioVars
<1>2. ScenarioOK' /\ CachesOK' /\ WorkersOK'
  BY <1>1, SameScenario, SameCaches, SameWorkers
<1>3. o \in Objects /\ changes + 1 \in 1..budget /\ budget \in 0..MaxChanges
  BY SMT DEF ObjectChanges, ClusterOK, ScenarioOK
<1>4. ClusterOK'
  BY <1>1, <1>3, SMT DEF ObjectChanges, ClusterOK, scenarioVars
<1>5. QueuesOK'
  <2>1. queue' \subseteq Objects
    BY <1>3 DEF ObjectChanges, QueuesOK
  <2> QED
    BY <1>1, <2>1 DEF QueuesOK, scenarioVars, Controllers, Existing
<1>6. Versions'
  <2>1. \A p \in Objects : cluster'[p] = IF p = o THEN new ELSE cluster[p]
    BY DEF ObjectChanges, ClusterOK
  <2>2. changes \in Nat /\ changes' = changes + 1 /\ UNCHANGED <<cache, worker>>
    BY <1>1, <1>3, SMT DEF ObjectChanges, ClusterOK
  <2>3. \A p \in Objects : cluster[p] # Absent => cluster[p].ver \in Nat /\ cluster[p].gen \in Nat
    BY BoundsAssumption, SMT DEF ClusterOK, ObjectVersions
  <2>4. \A p \in Objects : cache[p] # Absent => cache[p].ver \in Nat
    BY BoundsAssumption, SMT DEF CachesOK, Entries
  <2>5. \A c \in Controllers : worker[c].phase = "write" =>
          worker[c].obj \in Objects /\ worker[c].copy.ver \in Nat
    BY BoundsAssumption, SMT DEF WorkersOK, WorkerOK, Running, Reading, ObjectVersions, ScenarioOK
  <2>6. Controllers' = Controllers
    BY <1>1 DEF scenarioVars, Controllers, Existing
  <2>7. \A p \in Objects : cluster'[p] # Absent =>
          cluster'[p].gen <= cluster'[p].ver /\ cluster'[p].ver <= changes'
    BY <2>1, <2>2, <2>3, SMT DEF Versions
  <2>8. \A p \in Objects : cache[p] # Absent =>
          cache[p].ver <= changes' /\ (cluster'[p] # Absent => cache[p].ver <= cluster'[p].ver)
    BY <2>1, <2>2, <2>4, SMT DEF Versions
  <2>9. \A c \in Controllers : worker[c].phase = "write" =>
          /\ worker[c].copy.ver <= changes'
          /\ cluster'[worker[c].obj] # Absent => worker[c].copy.ver <= cluster'[worker[c].obj].ver
          /\ cache[worker[c].obj] # Absent => cache[worker[c].obj].ver <= worker[c].copy.ver
    BY <2>1, <2>2, <2>5, SMT DEF Versions
  <2> QED
    BY <2>2, <2>6, <2>7, <2>8, <2>9 DEF Versions
<1> QED
  BY <1>2, <1>4, <1>5, <1>6

(* Objects, Secrets and the ingress class. *)
LEMMA ClusterTypes ==
    ASSUME TypeInv,
           \/ \E o \in Existing : \E spec \in Specs(Kind(o)) : CreateObject(o, spec) \/ UpdateObject(o, spec)
           \/ \E o \in Existing : MarkObjectDeleted(o) \/ DeleteObject(o)
           \/ \E s \in Secrets : WriteSecret(s) \/ MarkSecretDeleted(s) \/ DeleteSecret(s)
           \/ \E default, deleted \in BOOLEAN : ChangeIngressClass(default, deleted)
    PROVE  TypeInv'
<1> USE DEF TypeInv
<1>0. changes \in Nat /\ budget \in Nat /\ budget <= MaxChanges /\ MaxChanges \in Nat
  BY BoundsAssumption, SMT DEF ClusterOK, ScenarioOK
<1>1. ASSUME NEW o \in Existing, NEW spec \in Specs(Kind(o)), CreateObject(o, spec)
      PROVE  TypeInv'
  <2> DEFINE new == [ver |-> changes + 1, gen |-> 1, conf |-> changes + 1, class |-> spec.class,
                     refs |-> spec.refs, deleting |-> FALSE, status |-> NoStatus]
  <2>1. ObjectChanges(o, new)
    BY <1>1 DEF CreateObject
  <2>2. spec.class \in Classes /\ spec.refs \in SUBSET Secrets
    BY DEF Specs, Classes
  <2>3. changes + 1 \in 1..MaxChanges
    BY <1>0, <2>1, SMT DEF ObjectChanges
  <2>4. NoStatus \in Statuses
    BY <1>0, SMT DEF NoStatus, Statuses
  <2>5. new \in ObjectVersions /\ new.gen <= new.ver /\ new.ver = changes + 1
    BY <1>0, <2>2, <2>3, <2>4, SMT DEF ObjectVersions
  <2> QED
    BY <2>1, <2>5, ObjectTypes
<1>2. ASSUME NEW o \in Existing, NEW spec \in Specs(Kind(o)), UpdateObject(o, spec)
      PROVE  TypeInv'
  <2> DEFINE new == [cluster[o] EXCEPT !.ver = changes + 1, !.refs = spec.refs,
           !.class = spec.class, !.gen = IF spec.class = cluster[o].class THEN @ + 1 ELSE @,
           !.conf = IF spec.silent THEN @ ELSE changes + 1]
  <2>1. ObjectChanges(o, new) /\ cluster[o] # Absent
    BY <1>2 DEF UpdateObject
  <2>2. spec.class \in Classes /\ spec.refs \in SUBSET Secrets
    BY DEF Specs, Classes
  <2>3. changes + 1 \in 1..MaxChanges
    BY <1>0, <2>1, SMT DEF ObjectChanges
  <2>4. cluster[o] \in ObjectVersions /\ cluster[o].gen <= cluster[o].ver /\ cluster[o].ver <= changes
    BY <2>1 DEF ClusterOK, ScenarioOK, Versions
  <2>5. cluster[o].gen \in 1..MaxChanges /\ cluster[o].ver \in 1..MaxChanges
    BY <2>4 DEF ObjectVersions
  <2>6. cluster[o].gen + 1 \in 1..MaxChanges /\ cluster[o].gen + 1 <= changes + 1
    BY <1>0, <2>3, <2>4, <2>5, SMT
  <2>7. new \in ObjectVersions
    BY <2>2, <2>3, <2>4, <2>5, <2>6 DEF ObjectVersions
  <2>8. new.ver = changes + 1 /\ new.gen \in {cluster[o].gen, cluster[o].gen + 1}
    BY <2>4 DEF ObjectVersions
  <2>9. new.gen <= new.ver
    BY <1>0, <2>4, <2>5, <2>6, <2>8, SMT
  <2> HIDE DEF new
  <2> QED
    BY <2>1, <2>7, <2>8, <2>9, ObjectTypes
<1>3. ASSUME NEW o \in Existing, MarkObjectDeleted(o)
      PROVE  TypeInv'
  <2> DEFINE new == [cluster[o] EXCEPT !.ver = changes + 1, !.deleting = TRUE]
  <2>1. ObjectChanges(o, new) /\ cluster[o] # Absent
    BY <1>3 DEF MarkObjectDeleted
  <2>2. changes + 1 \in 1..MaxChanges
    BY <1>0, <2>1, SMT DEF ObjectChanges
  <2>3. cluster[o] \in ObjectVersions /\ cluster[o].gen <= cluster[o].ver /\ cluster[o].ver <= changes
    BY <2>1 DEF ClusterOK, ScenarioOK, Versions
  <2>4. cluster[o].gen \in Nat /\ cluster[o].ver \in Nat
    BY <1>0, <2>3, SMT DEF ObjectVersions
  <2>5. new \in ObjectVersions /\ new.ver = changes + 1 /\ new.gen = cluster[o].gen
    BY <2>2, <2>3 DEF ObjectVersions
  <2>6. new.gen <= new.ver
    BY <1>0, <2>3, <2>4, <2>5, SMT
  <2> HIDE DEF new
  <2> QED
    BY <2>1, <2>5, <2>6, ObjectTypes
<1>4. ASSUME NEW o \in Existing, DeleteObject(o)
      PROVE  TypeInv'
  BY <1>4, ObjectTypes DEF DeleteObject
<1>5. ASSUME NEW s \in Secrets, NEW new \in SecretVersions \cup {Absent}, SecretChanges(s, new)
      PROVE  TypeInv'
  <2>1. UNCHANGED scenarioVars /\ UNCHANGED <<cluster, defaultClass>>
        /\ UNCHANGED <<cache, filter, cachedSecrets, index>>
        /\ UNCHANGED <<faults, worker, secretWorker>>
        /\ UNCHANGED <<queue, secretQueue, toPublish, subscription>>
    BY <1>5 DEF SecretChanges, clusterUnchanged, reportVars
  <2>2. ScenarioOK' /\ CachesOK' /\ WorkersOK'
    BY <2>1, SameScenario, SameCaches, SameWorkers
  <2>3. ClusterOK'
    BY <1>0, <1>5, <2>1, SMT DEF SecretChanges, ClusterOK, scenarioVars
  <2>4. secretEvents' \in Seq([secret : Secrets, deleted : BOOLEAN])
    BY <1>5, SMT DEF SecretChanges, QueuesOK
  <2>5. QueuesOK'
    BY <2>1, <2>4 DEF QueuesOK, scenarioVars, Controllers, Existing
  <2>6. Versions'
    <3>1. changes' = changes + 1
      BY <1>5 DEF SecretChanges
    <3>2. \A p \in Objects : cluster[p] # Absent => cluster[p].ver \in Nat
      BY <1>0, SMT DEF ClusterOK, ObjectVersions
    <3>3. \A p \in Objects : cache[p] # Absent => cache[p].ver \in Nat
      BY <1>0, SMT DEF CachesOK, Entries
    <3>4. \A c \in Controllers : worker[c].phase = "write" => worker[c].copy.ver \in Nat
      BY <1>0, SMT DEF WorkersOK, WorkerOK, Running, Reading, ObjectVersions
    <3>5. Controllers' = Controllers
      BY <2>1 DEF scenarioVars, Controllers, Existing
    <3> QED
      BY <1>0, <2>1, <3>1, <3>2, <3>3, <3>4, <3>5, SMT DEF Versions
  <2> QED
    BY <2>2, <2>3, <2>5, <2>6
<1>6. ASSUME NEW s \in Secrets, WriteSecret(s) \/ MarkSecretDeleted(s) \/ DeleteSecret(s)
      PROVE  TypeInv'
  <2>1. changes < budget
    BY <1>6 DEF WriteSecret, MarkSecretDeleted, DeleteSecret, SecretChanges
  <2>2. \A b \in BOOLEAN : Secret(changes + 1, b) \in SecretVersions
    BY <1>0, <2>1, SMT DEF Secret, SecretVersions
  <2> QED
    BY <1>5, <1>6, <2>2 DEF WriteSecret, MarkSecretDeleted, DeleteSecret
<1>7. ASSUME NEW default \in BOOLEAN, NEW deleted \in BOOLEAN, ChangeIngressClass(default, deleted)
      PROVE  TypeInv'
  <2>1. UNCHANGED scenarioVars /\ UNCHANGED <<cluster, secrets, deletedSecrets>>
        /\ UNCHANGED <<cache, filter, cachedSecrets, index>>
        /\ UNCHANGED <<faults, worker, secretWorker>>
        /\ UNCHANGED <<secretEvents, secretQueue, toPublish, subscription>>
    BY <1>7 DEF ChangeIngressClass, clusterUnchanged, reportVars
  <2>2. ScenarioOK' /\ CachesOK' /\ WorkersOK'
    BY <2>1, SameScenario, SameCaches, SameWorkers
  <2>3. ClusterOK'
    BY <1>0, <1>7, <2>1, SMT DEF ChangeIngressClass, ClusterOK, scenarioVars
  <2>4. queue' \subseteq Objects
    BY <1>7 DEF ChangeIngressClass, QueuesOK, Classless, ScenarioOK
  <2>5. QueuesOK'
    BY <2>1, <2>4 DEF QueuesOK, scenarioVars, Controllers, Existing
  <2>6. Versions'
    <3>1. changes' = changes + 1
      BY <1>7 DEF ChangeIngressClass
    <3>2. \A p \in Objects : cluster[p] # Absent => cluster[p].ver \in Nat
      BY <1>0, SMT DEF ClusterOK, ObjectVersions
    <3>3. \A p \in Objects : cache[p] # Absent => cache[p].ver \in Nat
      BY <1>0, SMT DEF CachesOK, Entries
    <3>4. \A c \in Controllers : worker[c].phase = "write" => worker[c].copy.ver \in Nat
      BY <1>0, SMT DEF WorkersOK, WorkerOK, Running, Reading, ObjectVersions
    <3>5. Controllers' = Controllers
      BY <2>1 DEF scenarioVars, Controllers, Existing
    <3> QED
      BY <1>0, <2>1, <3>1, <3>2, <3>3, <3>4, <3>5, SMT DEF Versions
  <2> QED
    BY <2>2, <2>3, <2>5, <2>6
<1> QED
  BY <1>1, <1>2, <1>3, <1>4, <1>6, <1>7

(* A step of a worker, put together. *)
LEMMA ReconcileTypes ==
    ASSUME TypeInv, NEW c \in Controllers, reconcileUnchanged,
           NEW v, v = Idle \/ (v \in Workers /\ WorkerOK(c, v)), Step(c, v),
           faults' \in 0..MaxFaults, queue' \subseteq Objects, index' \subseteq Objects \X Secrets,
           cluster' \in [Objects -> ObjectVersions \cup {Absent}],
           cache' \in [Objects -> Entries \cup {Absent}],
           cachedSecrets' \in [Secrets -> SecretVersions \cup {Absent}],
           Versions'
    PROVE  TypeInv'
<1> USE DEF TypeInv
<1>1. /\ UNCHANGED scenarioVars /\ UNCHANGED <<secrets, deletedSecrets, defaultClass, changes>>
      /\ UNCHANGED <<secretEvents, secretQueue, secretWorker>>
      /\ UNCHANGED <<filter, toPublish>> /\ UNCHANGED subscription
  BY DEF reconcileUnchanged, secretVars, reportVars
<1>2. ScenarioOK' /\ WorkersOK'
  BY <1>1, SameScenario, StepTypes
<1>3. ClusterOK'
  BY <1>1 DEF ClusterOK, scenarioVars
<1>4. CachesOK'
  BY <1>1 DEF CachesOK
<1>5. QueuesOK'
  BY <1>1 DEF QueuesOK, scenarioVars, Controllers, Existing
<1> QED
  BY <1>2, <1>3, <1>4, <1>5

(* The types a worker relies on. *)
LEMMA WorkerTypes ==
    ASSUME TypeInv, NEW c \in Controllers, Running(c)
    PROVE  /\ worker[c] \in Workers /\ WorkerOK(c, worker[c])
           /\ worker[c].obj \in Objects /\ worker[c].obj \in Existing
           /\ Kind(worker[c].obj) = c
  BY SMT DEF TypeInv, WorkersOK, WorkerOK, Running, Idle, Workers

(* Nothing but the worker, or the Secrets, changes. *)
LEMMA QuietTypes ==
    ASSUME TypeInv, NEW c \in Controllers, reconcileUnchanged,
           NEW v, v = Idle \/ Continues(c, worker[c], v) \/ (v \in Workers /\ WorkerOK(c, v) /\ v.phase # "write"),
           Step(c, v),
           UNCHANGED <<cluster, cache>>,
           faults' \in 0..MaxFaults, queue' \subseteq Objects, index' \subseteq Objects \X Secrets,
           cachedSecrets' \in [Secrets -> SecretVersions \cup {Absent}]
    PROVE  TypeInv'
<1>1. v = Idle \/ (v \in Workers /\ WorkerOK(c, v) /\ v.phase # "write")
  BY DEF Continues
<1>2. Versions'
  BY <1>1, StepVersions DEF TypeInv, WorkersOK, reconcileUnchanged
<1> QED
  BY <1>1, <1>2, ReconcileTypes DEF TypeInv, ClusterOK, CachesOK

(* The object is read. *)
LEMMA StartTypes ==
    ASSUME TypeInv, NEW c \in Controllers, NEW o \in Existing, Start(c, o)
    PROVE  TypeInv'
<1> DEFINE gone == cluster[o] = Absent \/ cluster[o].deleting
           v == [phase |-> IF ~gone THEN "write" ELSE IF c.refs THEN "forget" ELSE "remove",
                 obj |-> o, copy |-> cluster[o], todo |-> {}, secret |-> NoSecret,
                 act |-> "none", got |-> Absent]
<1>1. Step(c, v) /\ reconcileUnchanged /\ UNCHANGED <<cluster, faults, index, cache, cachedSecrets>>
      /\ queue' = queue \ {o} /\ Kind(o) = c
  BY DEF Start
<1>2. o \in Objects /\ cluster[o] \in ObjectVersions \cup {Absent}
  BY DEF TypeInv, ScenarioOK, ClusterOK
<1>3. v \in Workers /\ v.obj = o /\ v.copy = cluster[o] /\ v.act = "none"
      /\ (v.phase \in Reading => v.phase = "write" /\ cluster[o] # Absent)
  BY <1>2 DEF Workers, Phases, Reading
<1> HIDE DEF v
<1>4. WorkerOK(c, v)
  BY <1>1, <1>2, <1>3 DEF WorkerOK
<1>5. Versions'
  <2>1. Controllers' = Controllers
    BY <1>1 DEF reconcileUnchanged, scenarioVars, Controllers, Existing
  <2>2. UNCHANGED <<cluster, changes, cache>>
    BY <1>1 DEF reconcileUnchanged
  <2>3. worker'[c] = v /\ \A d \in Controllers \ {c} : worker'[d] = worker[d]
    BY <1>1 DEF Step, TypeInv, WorkersOK
  <2>4. v.phase = "write" =>
          /\ v.copy.ver <= changes
          /\ cluster[v.obj] # Absent => v.copy.ver <= cluster[v.obj].ver
          /\ cache[v.obj] # Absent => cache[v.obj].ver <= v.copy.ver
    <3>1. cluster[o] # Absent => cluster[o].ver \in Nat
      BY <1>2, BoundsAssumption, SMT DEF ObjectVersions
    <3> QED
      BY <1>2, <1>3, <3>1, SMT DEF TypeInv, Versions, Reading
  <2> QED
    BY <2>1, <2>2, <2>3, <2>4 DEF TypeInv, Versions
<1> QED
  BY <1>1, <1>3, <1>4, <1>5, ReconcileTypes DEF TypeInv, ClusterOK, CachesOK, QueuesOK, WorkersOK

(* The object is written into the cache, or taken out of it. *)
LEMMA WriteTypes ==
    ASSUME TypeInv, NEW c \in Controllers, Write(c)
    PROVE  TypeInv'
<1> DEFINE w == worker[c]
           ours == ~c.classed \/ MatchesIngressClass(w.copy, defaultClass)
           entry == IF ours THEN Entry(w.copy) ELSE Absent
           v == IF ~ours THEN Idle
                ELSE IF c.status = "programmed" /\ ReportsEnabled
                     THEN [w EXCEPT !.phase = "programmed"] ELSE EnterReferences(c, w)
<1>1. /\ w.phase = "write" /\ cache' = [cache EXCEPT ![w.obj] = entry] /\ Step(c, v)
      /\ UNCHANGED <<cluster, faults, queue, index, cachedSecrets>> /\ reconcileUnchanged
  BY DEF Write
<1>2. Running(c)
  BY <1>1 DEF Running
<1>3. w \in Workers /\ WorkerOK(c, w) /\ w.obj \in Objects /\ w.act = "none"
      /\ w.copy \in ObjectVersions \ {Absent}
  BY <1>1, <1>2, WorkerTypes DEF WorkerOK, Reading, Workers
<1> HIDE DEF w
<1>4. Continues(c, w, [w EXCEPT !.phase = "programmed"])
  BY <1>3 DEF Continues, Workers, WorkerOK, Phases, Reading
<1>5. v = Idle \/ Continues(c, w, v)
  BY <1>3, <1>4, EnterTypes
<1> HIDE DEF v
<1>6. entry \in Entries \cup {Absent} /\ (entry # Absent => entry.ver = w.copy.ver)
  BY <1>3 DEF ObjectVersions, Entries, Entry
<1> HIDE DEF entry
<1>7. cache' \in [Objects -> Entries \cup {Absent}]
  BY <1>1, <1>6 DEF TypeInv, CachesOK
<1>8. Versions'
  <2>1. Controllers' = Controllers
    BY <1>1 DEF reconcileUnchanged, scenarioVars, Controllers, Existing
  <2>2. UNCHANGED <<cluster, changes>>
    BY <1>1 DEF reconcileUnchanged
  <2>3. /\ worker'[c].phase # "write"
        /\ \A d \in Controllers \ {c} : worker'[d] = worker[d]
    BY <1>1, <1>5, SMT DEF Step, TypeInv, WorkersOK, Continues, Idle
  <2>4. \A d \in Controllers \ {c} : worker[d].phase = "write" => worker[d].obj # w.obj
    BY <1>2, WorkerTypes DEF w, Running
  <2>5. \A p \in Objects : cache'[p] = IF p = w.obj THEN entry ELSE cache[p]
    BY <1>1, <1>3 DEF TypeInv, CachesOK
  <2>6. \A d \in Controllers : worker[d].phase = "write" => worker[d].obj \in Objects
    BY WorkerTypes DEF Running
  <2>7. w.copy.ver <= changes /\ (cluster[w.obj] # Absent => w.copy.ver <= cluster[w.obj].ver)
    BY <1>1 DEF TypeInv, Versions, w
  <2>8. \A p \in Objects : cache'[p] # Absent =>
          cache'[p].ver <= changes /\ (cluster[p] # Absent => cache'[p].ver <= cluster[p].ver)
    BY <1>6, <2>5, <2>7 DEF TypeInv, Versions
  <2>9. \A d \in Controllers : worker'[d].phase = "write" =>
          /\ worker'[d].copy.ver <= changes
          /\ cluster[worker'[d].obj] # Absent => worker'[d].copy.ver <= cluster[worker'[d].obj].ver
          /\ cache'[worker'[d].obj] # Absent => cache'[worker'[d].obj].ver <= worker'[d].copy.ver
    BY <2>3, <2>4, <2>5, <2>6, SMT DEF TypeInv, Versions
  <2> QED
    BY <2>1, <2>2, <2>8, <2>9 DEF TypeInv, Versions
<1> QED
  BY <1>1, <1>5, <1>7, <1>8, ReconcileTypes DEF TypeInv, ClusterOK, CachesOK, QueuesOK, WorkersOK, Continues

(* A status is written. *)
LEMMA StatusTypes ==
    ASSUME TypeInv, NEW o \in Objects, NEW copy \in ObjectVersions \ {Absent}, NEW status \in Statuses,
           UpdateStatus(o, copy, status), NEW c \in Controllers, Step(c, Idle),
           UNCHANGED <<faults, index, cache, cachedSecrets>>, reconcileUnchanged
    PROVE  TypeInv'
<1>1. cluster' \in [Objects -> ObjectVersions \cup {Absent}]
  <2>1. cluster \in [Objects -> ObjectVersions \cup {Absent}]
    BY DEF TypeInv, ClusterOK
  <2>2. CASE cluster[o] = copy
    <3>1. [cluster[o] EXCEPT !.status = status] \in ObjectVersions
      BY <2>2 DEF ObjectVersions
    <3> QED
      BY <2>1, <2>2, <3>1 DEF UpdateStatus
  <2> QED
    BY <2>1, <2>2 DEF UpdateStatus
<1>2. \A p \in Objects : cluster'[p] # Absent =>
         cluster[p] # Absent /\ cluster'[p].ver = cluster[p].ver /\ cluster'[p].gen = cluster[p].gen
  <2>1. cluster \in [Objects -> ObjectVersions \cup {Absent}]
    BY DEF TypeInv, ClusterOK
  <2>2. CASE cluster[o] = copy
    <3>1. /\ [cluster[o] EXCEPT !.status = status].ver = cluster[o].ver
          /\ [cluster[o] EXCEPT !.status = status].gen = cluster[o].gen
      BY <2>2 DEF ObjectVersions
    <3>2. \A p \in Objects : cluster'[p] = IF p = o THEN [cluster[o] EXCEPT !.status = status]
                                           ELSE cluster[p]
      BY <2>1, <2>2 DEF UpdateStatus
    <3> QED
      BY <2>2, <3>1, <3>2
  <2>3. CASE cluster[o] # copy
    BY <2>3 DEF UpdateStatus
  <2> QED
    BY <2>2, <2>3
<1>3. Versions'
  <2>1. Controllers' = Controllers /\ UNCHANGED <<changes, cache>>
    BY DEF reconcileUnchanged, scenarioVars, Controllers, Existing
  <2>2. \A d \in Controllers : worker'[d].phase = "write" => worker'[d] = worker[d]
    BY DEF Step, TypeInv, WorkersOK, Idle
  <2>3. \A d \in Controllers : worker[d].phase = "write" => worker[d].obj \in Objects
    BY WorkerTypes DEF Running
  <2> QED
    BY <1>2, <2>1, <2>2, <2>3, SMT DEF TypeInv, Versions
<1>4. queue' \subseteq Objects
  BY DEF UpdateStatus, Requeue, TypeInv, QueuesOK
<1> QED
  BY <1>1, <1>3, <1>4, ReconcileTypes DEF TypeInv, CachesOK, WorkersOK

(* The statuses of the objects. *)
LEMMA ReportTypes ==
    ASSUME TypeInv, NEW c \in Controllers, EnsureProgrammedCondition(c) \/ UpdateLoadBalancerIngress(c)
    PROVE  TypeInv'
<1> DEFINE w == worker[c]
           status == ConfigurationStatus(w.obj, w.copy.gen)
<1>1. w.phase \in {"programmed", "addresses"}
  BY DEF EnsureProgrammedCondition, UpdateLoadBalancerIngress
<1>2. Running(c)
  BY <1>1 DEF Running
<1>3. w \in Workers /\ WorkerOK(c, w) /\ w.obj \in Objects /\ w.act = "none"
      /\ w.copy \in ObjectVersions \ {Absent}
  BY <1>1, <1>2, WorkerTypes DEF WorkerOK, Reading, Workers
<1>4. w.copy.gen \in 0..MaxChanges /\ 0 \in 0..MaxChanges
  BY <1>3, BoundsAssumption, SMT DEF ObjectVersions
<1>5. status \in {"Pending", "Invalid", "Programmed"}
  BY DEF ConfigurationStatus
<1>6. /\ [programmed |-> status, gen |-> w.copy.gen] \in Statuses
      /\ [programmed |-> "addresses", gen |-> 0] \in Statuses
  BY <1>4, <1>5 DEF Statuses
<1>7. UNCHANGED <<faults, index, cache, cachedSecrets>> /\ reconcileUnchanged
  BY DEF EnsureProgrammedCondition, UpdateLoadBalancerIngress
<1>8. CASE EnsureProgrammedCondition(c) /\ w.copy.status = [programmed |-> status, gen |-> w.copy.gen]
  <2>1. Step(c, EnterReferences(c, w)) /\ UNCHANGED <<cluster, queue>>
    BY <1>8 DEF EnsureProgrammedCondition
  <2>2. EnterReferences(c, w) = Idle \/ Continues(c, w, EnterReferences(c, w))
    BY <1>3, EnterTypes
  <2> QED
    BY <1>7, <2>1, <2>2, QuietTypes DEF TypeInv, CachesOK, QueuesOK, WorkersOK
<1>9. CASE EnsureProgrammedCondition(c) /\ w.copy.status # [programmed |-> status, gen |-> w.copy.gen]
  <2>1. Step(c, Idle) /\ UpdateStatus(w.obj, w.copy, [programmed |-> status, gen |-> w.copy.gen])
    BY <1>9 DEF EnsureProgrammedCondition
  <2> QED
    BY <1>3, <1>6, <1>7, <2>1, StatusTypes
<1>10. CASE UpdateLoadBalancerIngress(c)
  <2> DEFINE desired == [programmed |-> "addresses", gen |-> 0]
  <2>1. Step(c, Idle)
    BY <1>10 DEF UpdateLoadBalancerIngress
  <2>2. CASE status = "Programmed" /\ w.copy.status # desired
    <3>1. UpdateStatus(w.obj, w.copy, desired)
      BY <1>10, <2>2 DEF UpdateLoadBalancerIngress
    <3> QED
      BY <1>3, <1>6, <1>7, <2>1, <3>1, StatusTypes
  <2>3. CASE ~(status = "Programmed" /\ w.copy.status # desired)
    <3>1. UNCHANGED cluster /\ (Requeue(w.obj) \/ UNCHANGED queue)
      BY <1>10, <2>3 DEF UpdateLoadBalancerIngress
    <3>2. queue' \subseteq Objects
      BY <1>3, <3>1 DEF Requeue, TypeInv, QueuesOK
    <3> QED
      BY <1>7, <2>1, <3>1, <3>2, QuietTypes DEF TypeInv, CachesOK, WorkersOK
  <2> QED
    BY <2>2, <2>3
<1> QED
  BY <1>8, <1>9, <1>10

(* The references of the object. *)
LEMMA ReferenceTypes ==
    ASSUME TypeInv, NEW c \in Controllers,
           \/ \E s \in Secrets : SetObjectReference(c, s) \/ RemoveOutdatedReference(c, s) \/ CheckReferred(c, s)
           \/ CacheSecret(c) \/ DeleteReferencesByReferrer(c) \/ DeleteObjectIfNotReferred(c)
    PROVE  TypeInv'
<1> DEFINE w == worker[c]
<1>1. Running(c)
  BY DEF SetObjectReference, RemoveOutdatedReference, CheckReferred, CacheSecret,
         DeleteReferencesByReferrer, DeleteObjectIfNotReferred, Running
<1>2. w \in Workers /\ WorkerOK(c, w) /\ w.obj \in Objects
  BY <1>1, WorkerTypes
<1>3. UNCHANGED <<cluster, cache>> /\ reconcileUnchanged
  BY DEF SetObjectReference, RemoveOutdatedReference, CheckReferred, CacheSecret,
         DeleteReferencesByReferrer, DeleteObjectIfNotReferred
<1>4. /\ faults \in 0..MaxFaults /\ queue \subseteq Objects /\ index \subseteq Objects \X Secrets
      /\ cachedSecrets \in [Secrets -> SecretVersions \cup {Absent}]
      /\ secrets \in [Secrets -> SecretVersions \cup {Absent}]
  BY DEF TypeInv, CachesOK, QueuesOK, WorkersOK, ClusterOK
<1> HIDE DEF w
<1>5. ASSUME NEW s \in Secrets, SetObjectReference(c, s)
      PROVE  TypeInv'
  <2>1. /\ w.phase = "references" /\ index' = index \cup {<<w.obj, s>>}
        /\ UNCHANGED <<faults, cachedSecrets>>
    BY <1>5 DEF SetObjectReference, w
  <2>2. index' \subseteq Objects \X Secrets
    BY <1>2, <1>4, <2>1, SMT
  <2>3. CASE secrets[s] = Absent
    <3>1. Step(c, Idle) /\ Requeue(w.obj)
      BY <1>5, <2>3 DEF SetObjectReference, w
    <3> QED
      BY <1>2, <1>3, <1>4, <2>1, <2>2, <3>1, QuietTypes DEF Requeue
  <2>4. CASE secrets[s] # Absent
    <3> DEFINE v == [w EXCEPT !.secret = s, !.act = "put", !.got = secrets[s]]
    <3>1. Step(c, v) /\ UNCHANGED queue
      BY <1>5, <2>4 DEF SetObjectReference, w
    <3>2. v \in Workers /\ v.phase = "references" /\ v.obj = w.obj /\ v.copy = w.copy
          /\ v.secret = s /\ v.act = "put"
      BY <1>2, <1>4, <2>1 DEF Workers
    <3> HIDE DEF v
    <3>3. WorkerOK(c, v)
      BY <1>2, <2>1, <3>2 DEF WorkerOK
    <3> QED
      BY <1>3, <1>4, <2>1, <2>2, <3>1, <3>2, <3>3, QuietTypes
  <2> QED
    BY <2>3, <2>4
<1>6. ASSUME NEW s \in Secrets, RemoveOutdatedReference(c, s)
      PROVE  TypeInv'
  <2>1. /\ w.phase = "outdated" /\ w.act = "none" /\ index' = index \ {<<w.obj, s>>}
        /\ UNCHANGED <<queue, cachedSecrets>>
    BY <1>6 DEF RemoveOutdatedReference, w
  <2>2. index' \subseteq Objects \X Secrets
    BY <1>4, <2>1
  <2> DEFINE v == [w EXCEPT !.secret = s, !.act = "check"]
  <2>3. v \in Workers /\ v.phase = "outdated" /\ v.obj = w.obj /\ v.copy = w.copy
        /\ v.secret = s /\ v.act = "check"
    BY <1>2, <2>1 DEF Workers
  <2> HIDE DEF v
  <2>4. WorkerOK(c, v)
    BY <1>2, <2>1, <2>3 DEF WorkerOK
  <2>5. Done(c, w, s) = Idle \/ Continues(c, w, Done(c, w, s))
    BY <1>2, <2>1, DoneTypes
  <2>6. EnterAddresses(c, w) = Idle \/ Continues(c, w, EnterAddresses(c, w))
    BY <1>2, <2>1, EnterTypes DEF WorkerOK, Reading
  <2>7. faults' \in 0..MaxFaults
    <3>1. faults' = faults \/ (faults < MaxFaults /\ faults' = faults + 1)
      BY <1>6 DEF RemoveOutdatedReference
    <3>2. faults \in 0..MaxFaults
      BY <1>4
    <3> QED
      BY <3>1, <3>2, BoundsAssumption, SMT
  <2>8. \E u \in {v, Done(c, w, s), EnterAddresses(c, w)} : Step(c, u)
    BY <1>6 DEF RemoveOutdatedReference, w, v
  <2>9. v.phase # "write"
    BY <2>3
  <2>10. ASSUME NEW u, u = Idle \/ (u \in Workers /\ WorkerOK(c, u) /\ u.phase # "write"), Step(c, u)
         PROVE  TypeInv'
    <3>1. UNCHANGED <<cluster, cache>> /\ reconcileUnchanged /\ queue' \subseteq Objects
          /\ cachedSecrets' \in [Secrets -> SecretVersions \cup {Absent}]
      BY <1>3, <1>4, <2>1
    <3> QED
      BY <2>2, <2>7, <2>10, <3>1, QuietTypes
  <2> QED
    BY <2>3, <2>4, <2>5, <2>6, <2>8, <2>9, <2>10 DEF Continues
<1>7. ASSUME NEW s \in Secrets, CheckReferred(c, s)
      PROVE  TypeInv'
  <2>1. w.phase \in {"outdated", "release"} /\ UNCHANGED <<faults, queue, index, cachedSecrets>>
    BY <1>7 DEF CheckReferred, w
  <2> DEFINE v == [w EXCEPT !.secret = s, !.act = "evict"]
  <2>2. v \in Workers /\ v.phase = w.phase /\ v.obj = w.obj /\ v.copy = w.copy
        /\ v.secret = s /\ v.act = "evict"
    BY <1>2, <2>1 DEF Workers
  <2> HIDE DEF v
  <2>3. WorkerOK(c, v) /\ v.phase # "write"
    BY <1>2, <2>1, <2>2 DEF WorkerOK
  <2>4. Done(c, w, s) = Idle \/ Continues(c, w, Done(c, w, s))
    BY <1>2, <2>1, DoneTypes
  <2>5. \E u \in {v, Done(c, w, s)} : Step(c, u)
    BY <1>7 DEF CheckReferred, w, v
  <2> QED
    BY <1>3, <1>4, <2>1, <2>2, <2>3, <2>4, <2>5, QuietTypes DEF w
<1>8. CASE CacheSecret(c) \/ DeleteObjectIfNotReferred(c)
  <2>1. /\ w.phase \in {"references", "outdated", "release"} /\ w.secret \in Secrets
        /\ w.got \in SecretVersions \cup {Absent}
    BY <1>2, <1>8 DEF CacheSecret, DeleteObjectIfNotReferred, WorkerOK, Workers, w
  <2>2. Done(c, w, w.secret) = Idle \/ Continues(c, w, Done(c, w, w.secret))
    BY <1>2, <2>1, DoneTypes
  <2>3. cachedSecrets' \in [Secrets -> SecretVersions \cup {Absent}]
    BY <1>4, <1>8, <2>1 DEF CacheSecret, DeleteObjectIfNotReferred, w
  <2>4. Step(c, Done(c, w, w.secret)) /\ UNCHANGED <<faults, queue, index>>
    BY <1>8 DEF CacheSecret, DeleteObjectIfNotReferred, w
  <2> QED
    BY <1>3, <1>4, <2>2, <2>3, <2>4, QuietTypes DEF w
<1>9. CASE DeleteReferencesByReferrer(c)
  <2> DEFINE referents == ListReferredObjects(w.obj)
             v == [w EXCEPT !.phase = IF referents = {} THEN "remove" ELSE "release", !.todo = referents]
  <2>1. w.phase = "forget" /\ UNCHANGED <<faults, queue, cachedSecrets>> /\ Step(c, v)
        /\ index' = index \ ({w.obj} \X Secrets)
    BY <1>9 DEF DeleteReferencesByReferrer, w
  <2>2. referents \in SUBSET Secrets
    BY DEF ListReferredObjects
  <2>3. v \in Workers /\ v.phase \in {"remove", "release"} /\ v.obj = w.obj /\ v.act = w.act
    BY <1>2, <2>2 DEF Workers, Phases
  <2>4. w.act = "none"
    BY <1>2, <2>1 DEF WorkerOK, Workers
  <2> HIDE DEF v
  <2>5. WorkerOK(c, v)
    BY <1>2, <2>3, <2>4 DEF WorkerOK, Reading
  <2> QED
    BY <1>3, <1>4, <2>1, <2>3, <2>5, QuietTypes
<1> QED
  BY <1>5, <1>6, <1>7, <1>8, <1>9

(* The object is removed from the cache. *)
LEMMA RemoveTypes ==
    ASSUME TypeInv, NEW c \in Controllers, Remove(c)
    PROVE  TypeInv'
<1> DEFINE w == worker[c]
<1>1. /\ w.phase = "remove" /\ cache' = [cache EXCEPT ![w.obj] = Absent] /\ Step(c, Idle)
      /\ UNCHANGED <<cluster, faults, index, cachedSecrets>> /\ reconcileUnchanged
      /\ queue' \subseteq queue \cup {w.obj}
  BY DEF Remove, Requeue
<1>2. w.obj \in Objects
  BY <1>1, WorkerTypes DEF Running
<1>3. cache' \in [Objects -> Entries \cup {Absent}]
  BY <1>1 DEF TypeInv, CachesOK
<1>4. Versions'
  <2>1. Controllers' = Controllers /\ UNCHANGED <<cluster, changes>>
    BY <1>1 DEF reconcileUnchanged, scenarioVars, Controllers, Existing
  <2>2. \A p \in Objects : cache'[p] # Absent => cache'[p] = cache[p]
    BY <1>1, <1>2 DEF TypeInv, CachesOK
  <2>3. \A d \in Controllers : worker'[d].phase = "write" => worker'[d] = worker[d]
    BY <1>1 DEF Step, TypeInv, WorkersOK, Idle
  <2>4. \A d \in Controllers : worker[d].phase = "write" => worker[d].obj \in Objects
    BY WorkerTypes DEF Running
  <2> QED
    BY <2>1, <2>2, <2>3, <2>4, SMT DEF TypeInv, Versions
<1>5. queue' \subseteq Objects
  BY <1>1, <1>2 DEF TypeInv, QueuesOK
<1> QED
  BY <1>1, <1>3, <1>4, <1>5, ReconcileTypes DEF TypeInv, ClusterOK, CachesOK, WorkersOK

(* The Secret controller. *)
LEMMA SecretTypes == TypeInv /\ SecretController => TypeInv'
<1> SUFFICES ASSUME TypeInv, SecretController
             PROVE  TypeInv'
  OBVIOUS
<1>1. /\ secretUnchanged /\ UNCHANGED <<scenarioVars, clusterVars, faults, queue, index, cache, worker>>
      /\ UNCHANGED <<filter, toPublish, subscription>>
  BY DEF SecretController, DeliverSecretEvent, StartSecret, ReconcileSecret, secretUnchanged, reportVars
<1>2. /\ secretQueue \subseteq Secrets /\ secretWorker \in SecretWorkers \cup {Idle}
      /\ secretEvents \in Seq([secret : Secrets, deleted : BOOLEAN])
      /\ cachedSecrets \in [Secrets -> SecretVersions \cup {Absent}]
      /\ secrets \in [Secrets -> SecretVersions \cup {Absent}]
  BY DEF TypeInv, QueuesOK, WorkersOK, CachesOK, ClusterOK
<1>3. /\ secretQueue' \subseteq Secrets /\ secretWorker' \in SecretWorkers \cup {Idle}
      /\ secretEvents' \in Seq([secret : Secrets, deleted : BOOLEAN])
      /\ cachedSecrets' \in [Secrets -> SecretVersions \cup {Absent}]
  <2>1. CASE DeliverSecretEvent
    <3> DEFINE Events == [secret : Secrets, deleted : BOOLEAN]
    <3>a. secretEvents \in Seq(Events)
      BY <1>2
    <3>b. secretEvents # <<>> /\ secretEvents' = Tail(secretEvents)
      BY <2>1 DEF DeliverSecretEvent
    <3>1. secretEvents' \in Seq(Events) /\ Head(secretEvents) \in Events
      <4> HIDE DEF Events
      <4> QED
        BY <3>a, <3>b, SMT
    <3>2. Head(secretEvents).secret \in Secrets
      BY <3>1
    <3>3. secretQueue' \subseteq Secrets
      BY <1>2, <2>1, <3>2 DEF DeliverSecretEvent
    <3> QED
      BY <1>2, <2>1, <3>1, <3>3 DEF DeliverSecretEvent
  <2>2. ASSUME NEW s \in Secrets, StartSecret(s)
        PROVE  /\ secretQueue' \subseteq Secrets /\ secretWorker' \in SecretWorkers
               /\ UNCHANGED <<secretEvents, cachedSecrets>>
    BY <1>2, <2>2 DEF StartSecret, SecretWorkers
  <2>3. CASE ReconcileSecret
    <3>1. secretWorker \in SecretWorkers
      BY <1>2, <2>3 DEF ReconcileSecret
    <3>2. secretWorker.secret \in Secrets /\ secretWorker.got \in SecretVersions \cup {Absent}
      BY <3>1 DEF SecretWorkers
    <3>3. cachedSecrets' \in [Secrets -> SecretVersions \cup {Absent}]
      BY <1>2, <2>3, <3>2 DEF ReconcileSecret
    <3> QED
      BY <1>2, <2>3, <3>2, <3>3 DEF ReconcileSecret
  <2> QED
    BY <1>2, <2>1, <2>2, <2>3 DEF SecretController
<1>4. CachesOK'
  BY <1>1, <1>3 DEF TypeInv, CachesOK
<1>5. Controllers' = Controllers
  BY <1>1 DEF scenarioVars, Controllers, Existing
<1>6. QueuesOK'
  BY <1>1, <1>3, <1>5 DEF TypeInv, QueuesOK
<1>7. WorkersOK'
  BY <1>1, <1>3, <1>5 DEF TypeInv, WorkersOK, WorkerOK, Running, Kind, Existing, scenarioVars
<1>8. Versions'
  BY <1>1, SameVersions DEF TypeInv, clusterVars
<1> QED
  BY <1>1, <1>4, <1>6, <1>7, <1>8, SameScenario, SameCluster DEF TypeInv

(* The reports, and the events they send. *)
LEMMA ReportsTypes == TypeInv /\ Reports => TypeInv'
<1> SUFFICES ASSUME TypeInv, Reports
             PROVE  TypeInv'
  OBVIOUS
<1>1. UNCHANGED <<scenarioVars, clusterVars, faults, secretVars, index, cache, cachedSecrets, worker>>
  BY DEF Reports, triggerKubernetesObjectReport, Publish, Receive, reportUnchanged
<1>2. /\ Controllers' = Controllers /\ \A o \in Existing : Kind(o) \in Controllers
      /\ UNCHANGED <<secretEvents, secretQueue, secretWorker>>
  BY <1>1 DEF scenarioVars, Controllers, Existing, Kind, secretVars
<1>3. /\ cache \in [Objects -> Entries \cup {Absent}] /\ filter \in [Objects -> Entries \cup {Absent}]
      /\ queue \subseteq Objects /\ toPublish \subseteq Objects
      /\ subscription \in [Controllers -> Seq(Objects)]
      /\ \A c \in Controllers : Len(subscription[c]) <= BufferSize
      /\ Existing \subseteq Objects
  BY DEF TypeInv, CachesOK, QueuesOK, ScenarioOK
<1>4. /\ filter' \in [Objects -> Entries \cup {Absent}]
      /\ queue' \subseteq Objects /\ toPublish' \subseteq Objects
      /\ subscription' \in [Controllers -> Seq(Objects)]
      /\ \A c \in Controllers : Len(subscription'[c]) <= BufferSize
  <2>1. CASE triggerKubernetesObjectReport
    <3>1. UNCHANGED <<queue, subscription>> /\ toPublish' \subseteq Objects
      BY <2>1 DEF triggerKubernetesObjectReport
    <3>2. filter' \in [Objects -> Entries \cup {Absent}]
      BY <1>3, <2>1 DEF triggerKubernetesObjectReport, Reportable
    <3> QED
      BY <1>3, <3>1, <3>2
  <2>2. ASSUME NEW o \in Existing, Publish(o)
        PROVE  /\ subscription' \in [Controllers -> Seq(Objects)]
               /\ \A c \in Controllers : Len(subscription'[c]) <= BufferSize
               /\ UNCHANGED <<filter, queue>> /\ toPublish' \subseteq toPublish
    <3> DEFINE k == Kind(o)
    <3>1. k \in Controllers /\ subscription[k] \in Seq(Objects) /\ o \in Objects
      BY <1>2, <1>3
    <3>2. /\ Len(subscription[k]) < BufferSize
          /\ subscription' = [subscription EXCEPT ![k] = Append(subscription[k], o)]
      BY <2>2 DEF Publish
    <3> HIDE DEF k
    <3>3. Append(subscription[k], o) \in Seq(Objects)
          /\ Len(Append(subscription[k], o)) = Len(subscription[k]) + 1 /\ Len(subscription[k]) \in Nat
      BY <3>1, SMT
    <3>4. Len(Append(subscription[k], o)) <= BufferSize
      BY <3>2, <3>3, BoundsAssumption, SMT
    <3>5. subscription' \in [Controllers -> Seq(Objects)]
      BY <1>3, <3>1, <3>2, <3>3
    <3>6. \A c \in Controllers : Len(subscription'[c]) <= BufferSize
      BY <1>3, <3>1, <3>2, <3>4
    <3> QED
      BY <2>2, <3>5, <3>6 DEF Publish
  <2>3. ASSUME NEW c \in Controllers, Receive(c)
        PROVE  /\ subscription' \in [Controllers -> Seq(Objects)]
               /\ \A d \in Controllers : Len(subscription'[d]) <= BufferSize
               /\ UNCHANGED <<filter, toPublish>> /\ queue' \subseteq Objects
    <3>1. subscription[c] \in Seq(Objects) /\ subscription[c] # <<>> /\ Len(subscription[c]) <= BufferSize
      BY <1>3, <2>3 DEF Receive
    <3>2. /\ Head(subscription[c]) \in Objects /\ Tail(subscription[c]) \in Seq(Objects)
          /\ Len(Tail(subscription[c])) = Len(subscription[c]) - 1 /\ Len(subscription[c]) \in Nat
      BY <3>1, SMT
    <3>3. Len(Tail(subscription[c])) <= BufferSize
      BY <3>1, <3>2, BoundsAssumption, SMT
    <3>4. subscription' = [subscription EXCEPT ![c] = Tail(subscription[c])]
      BY <2>3 DEF Receive
    <3>5. subscription' \in [Controllers -> Seq(Objects)]
      BY <1>3, <3>2, <3>4
    <3>6. \A d \in Controllers : Len(subscription'[d]) <= BufferSize
      BY <1>3, <3>3, <3>4
    <3> QED
      BY <1>3, <2>3, <3>2, <3>5, <3>6 DEF Receive, Requeue, reportVars
  <2> QED
    BY <1>3, <2>1, <2>2, <2>3 DEF Reports
<1>5. CachesOK'
  BY <1>1, <1>4 DEF TypeInv, CachesOK
<1>6. QueuesOK'
  BY <1>2, <1>4 DEF TypeInv, QueuesOK
<1>7. WorkersOK'
  BY <1>1, <1>2, SameWorkers DEF TypeInv
<1>8. Versions'
  BY <1>1, SameVersions DEF TypeInv, clusterVars
<1> QED
  BY <1>1, <1>5, <1>6, <1>7, <1>8, SameScenario, SameCluster DEF TypeInv

(* Every step keeps the types and the order of versions. *)
LEMMA NextTypeInv == TypeInv /\ [Next]_vars => TypeInv'
<1> SUFFICES ASSUME TypeInv, [Next]_vars
             PROVE  TypeInv'
  OBVIOUS
<1>1. CASE UNCHANGED vars
  <2>1. UNCHANGED <<scenarioVars, clusterVars, faults, queue, secretVars, index, cache, cachedSecrets,
                    worker, reportVars, subscription>>
    BY <1>1 DEF vars
  <2>2. UNCHANGED <<secretEvents, secretQueue, secretWorker, filter, toPublish, cluster, changes>>
    BY <2>1 DEF secretVars, reportVars, clusterVars
  <2> QED
    BY <2>1, <2>2, SameScenario, SameCluster, SameCaches, SameQueues, SameWorkers, SameVersions
       DEF TypeInv
<1>2. ASSUME NEW c \in Controllers, Reconcile(c)
      PROVE  TypeInv'
  BY <1>2, StartTypes, WriteTypes, ReportTypes, ReferenceTypes, RemoveTypes DEF Reconcile
<1>3. CASE SecretController \/ Reports
  BY <1>3, SecretTypes, ReportsTypes
<1> QED
  BY <1>1, <1>2, <1>3, ClusterTypes DEF Next

(* The types, with what is needed to keep them, hold in every state. *)
LEMMA TypesCorrect == Spec => []TypeInv
  BY InitTypeInv, NextTypeInv, PTL DEF Spec

(* Everything the controllers, the Secret controller and the status queue  *)
(* hold has its type (ConfigurationControllers.TypeOK): a worker is at an  *)
(* object of its own kind, and no subscription outgrows its buffer,        *)
(* however many objects, kinds and changes there are.                      *)
THEOREM TypeCorrect == Spec => []TypeOK
<1>1. TypeInv => TypeOK
  <2> SUFFICES ASSUME TypeInv
               PROVE  TypeOK
    OBVIOUS
  <2>1. \A o \in Objects : cluster[o] = Absent \/ cluster[o] \in ObjectVersions
    BY DEF TypeInv, ClusterOK
  <2>2. \A o \in Objects : \A x \in {cache[o], filter[o]} : x = Absent \/ x \in Entries
    BY SMT DEF TypeInv, CachesOK
  <2>3. \A s \in Secrets : \A x \in {secrets[s], cachedSecrets[s]} : x = Absent \/ x \in SecretVersions
    BY SMT DEF TypeInv, CachesOK, ClusterOK
  <2>4. changes \in 0..MaxChanges
    BY BoundsAssumption, SMT DEF TypeInv, ClusterOK, ScenarioOK
  <2>5. \A c \in Controllers : /\ Running(c) => worker[c].obj \in {o \in Existing : Kind(o) = c}
                               /\ subscription[c] \in Seq(Objects) /\ Len(subscription[c]) <= BufferSize
    BY WorkerTypes DEF TypeInv, QueuesOK
  <2>6. /\ Existing \subseteq Objects /\ kindOf \in [Existing -> Kinds]
        /\ caCerts \subseteq Secrets /\ credentials \subseteq Secrets /\ budget \in 0..MaxChanges
        /\ defaultClass \in BOOLEAN /\ faults \in 0..MaxFaults /\ deletedSecrets \subseteq Secrets
        /\ queue \subseteq Objects /\ secretQueue \subseteq Secrets /\ toPublish \subseteq Objects
        /\ secretEvents \in Seq([secret : Secrets, deleted : BOOLEAN])
        /\ index \subseteq Objects \X Secrets
    BY DEF TypeInv, ScenarioOK, ClusterOK, CachesOK, QueuesOK, WorkersOK
  <2> QED
    BY <2>1, <2>2, <2>3, <2>4, <2>5, <2>6, Zenon DEF TypeOK, ObjectVersions, Entries, SecretVersions
<1> QED
  BY <1>1, TypesCorrect, PTL

-----------------------------------------------------------------------------
(* The object cache implements ObjectCache. *)

Cached == [o \in Objects |-> IF cache[o] = Absent THEN Absent ELSE cache[o].ver]

(* A step that leaves the cache alone is a change of the cluster, or none. *)
LEMMA Changes ==
    ASSUME TypeInv, UNCHANGED cache, changes' = changes \/ changes' = changes + 1
    PROVE  OC!Change
<1>1. changes' >= changes
  BY BoundsAssumption, SMT DEF TypeInv, ClusterOK, ScenarioOK
<1> QED
  BY <1>1 DEF OC!Change

(* An object is written into the cache, or removed from it. *)
LEMMA Writes ==
    ASSUME TypeInv, NEW c \in Controllers, Write(c)
    PROVE  \E o \in Objects : OC!Put(o) \/ OC!Remove(o)
<1> DEFINE w == worker[c]
           o == w.obj
           ours == ~c.classed \/ MatchesIngressClass(w.copy, defaultClass)
<1>1. /\ w.phase = "write" /\ UNCHANGED changes
      /\ cache' = [cache EXCEPT ![o] = IF ours THEN Entry(w.copy) ELSE Absent]
  BY DEF Write, reconcileUnchanged
<1>2. o \in Objects /\ WorkerOK(c, w)
  BY <1>1, WorkerTypes DEF Running
<1>3. w.copy.ver \in 1..MaxChanges /\ w.copy.gen \in 1..MaxChanges
  BY <1>1, <1>2 DEF WorkerOK, Reading, ObjectVersions
<1>4. /\ cache \in [Objects -> Entries \cup {Absent}] /\ cache' \in [Objects -> Entries \cup {Absent}]
  BY WriteTypes, NextTypeInv DEF TypeInv, CachesOK
<1>5. w.copy.ver <= changes /\ (cache[o] # Absent => cache[o].ver <= w.copy.ver)
  BY <1>1 DEF TypeInv, Versions
<1> HIDE DEF ours, w
<1>6. CASE ~ours
  <2>1. cache'[o] = Absent /\ \A p \in Objects \ {o} : cache'[p] = cache[p]
    BY <1>1, <1>2, <1>4, <1>6
  <2>2. Cached' = [Cached EXCEPT ![o] = Absent]
    BY <1>2, <2>1 DEF Cached
  <2> QED
    BY <1>1, <1>2, <2>2 DEF OC!Remove, Cached
<1>7. CASE ours
  <2>1. /\ cache'[o] = Entry(w.copy)
        /\ \A p \in Objects \ {o} : cache'[p] = cache[p]
    BY <1>1, <1>2, <1>4, <1>7
  <2>2. CASE cache'[o] = Absent
    <3>1. Cached' = [Cached EXCEPT ![o] = Absent]
      BY <1>2, <2>1, <2>2 DEF Cached
    <3> QED
      BY <1>1, <1>2, <3>1 DEF OC!Remove, Cached
  <2>3. CASE cache'[o] # Absent
    <3>1. cache'[o].ver = w.copy.ver
      BY <2>1, SMT DEF Entry
    <3>2. Cached'[o] = w.copy.ver
      BY <1>2, <2>3, <3>1 DEF Cached
    <3>3. Cached' = [Cached EXCEPT ![o] = Cached'[o]]
      BY <1>2, <2>1 DEF Cached
    <3>4. Cached[o] # Absent => cache[o] # Absent /\ Cached[o] = cache[o].ver
      BY <1>2 DEF Cached
    <3>5. Cached'[o] \in Int /\ Cached'[o] <= changes
      BY <1>3, <1>5, <3>2, SMT
    <3>6. Cached[o] # Absent => Cached'[o] >= Cached[o]
      <4>1. cache[o] # Absent => cache[o].ver \in Int
        BY <1>2, <1>4, SMT DEF Entries
      <4> QED
        BY <1>3, <1>5, <3>2, <3>4, <4>1
    <3> QED
      BY <1>1, <1>2, <3>3, <3>5, <3>6 DEF OC!Put, Cached
  <2> QED
    BY <2>2, <2>3
<1> QED
  BY <1>6, <1>7

(* A worker that takes its object out of the object cache removes it       *)
(* there.                                                                  *)
LEMMA Removes ==
    ASSUME TypeInv, NEW c \in Controllers, Remove(c)
    PROVE  \E o \in Objects : OC!Remove(o)
<1> DEFINE o == worker[c].obj
<1>1. cache' = [cache EXCEPT ![o] = Absent] /\ UNCHANGED changes
  BY DEF Remove, reconcileUnchanged
<1>2. o \in Objects
  BY WorkerTypes DEF Remove, Running
<1>3. cache'[o] = Absent /\ \A p \in Objects \ {o} : cache'[p] = cache[p]
  BY <1>1, <1>2 DEF TypeInv, CachesOK
<1>4. Cached' = [Cached EXCEPT ![o] = Absent]
  BY <1>2, <1>3 DEF Cached
<1> QED
  BY <1>1, <1>2, <1>4 DEF OC!Remove, Cached

(* The object cache follows the cluster                                    *)
(* (ConfigurationControllers.CacheFollowsCluster): every behaviour of the  *)
(* controllers is one of ObjectCache, whatever the kinds and the events;   *)
(* no reconciliation puts an older version over a newer one.               *)
THEOREM CacheFollows == Spec => CacheFollowsCluster
<1>1. Init => OC!Init
  <2> SUFFICES ASSUME Init
               PROVE  OC!Init
    OBVIOUS
  <2>1. \A o \in Objects : cache[o] = Absent /\ cluster[o] = Absent
    BY DEF Init
  <2>2. changes = 0
    BY DEF Init
  <2> QED
    BY <2>1, <2>2 DEF OC!Init, Undecided, Ours, Gone
<1>2. TypeInv /\ [Next]_vars => [OC!Next]_(OC!vars)
  <2> SUFFICES ASSUME TypeInv, [Next]_vars
               PROVE  OC!Next \/ UNCHANGED OC!vars
    BY DEF OC!vars
  <2>1. CASE UNCHANGED vars \/ SecretController \/ Reports
    <3>1. UNCHANGED <<cache, changes>>
      BY <2>1 DEF vars, clusterVars, SecretController, DeliverSecretEvent, StartSecret, ReconcileSecret,
                  secretUnchanged, Reports, triggerKubernetesObjectReport, Publish, Receive, reportUnchanged
    <3> QED
      BY <3>1, Changes DEF OC!Next
  <2>2. ASSUME NEW c \in Controllers, Reconcile(c)
        PROVE  OC!Next
    <3>1. CASE Write(c) \/ Remove(c)
      BY <3>1, Writes, Removes DEF OC!Next
    <3>2. CASE ~Write(c) /\ ~Remove(c)
      <4>1. UNCHANGED <<cache, changes>>
        BY <2>2, <3>2 DEF Reconcile, Start, EnsureProgrammedCondition, UpdateLoadBalancerIngress,
                          SetObjectReference, CacheSecret, RemoveOutdatedReference, CheckReferred,
                          DeleteReferencesByReferrer, DeleteObjectIfNotReferred, reconcileUnchanged
      <4> QED
        BY <4>1, Changes DEF OC!Next
    <3> QED
      BY <3>1, <3>2
  <2>3. ASSUME \/ \E o \in Existing : \E spec \in Specs(Kind(o)) : CreateObject(o, spec) \/ UpdateObject(o, spec)
               \/ \E o \in Existing : MarkObjectDeleted(o) \/ DeleteObject(o)
               \/ \E s \in Secrets : WriteSecret(s) \/ MarkSecretDeleted(s) \/ DeleteSecret(s)
               \/ \E default, deleted \in BOOLEAN : ChangeIngressClass(default, deleted)
        PROVE  OC!Next
    <3>1. UNCHANGED cache /\ changes' = changes + 1
      BY <2>3 DEF CreateObject, UpdateObject, MarkObjectDeleted, DeleteObject, ObjectChanges, WriteSecret,
                  MarkSecretDeleted, DeleteSecret, SecretChanges, ChangeIngressClass, clusterUnchanged
    <3> QED
      BY <3>1, Changes DEF OC!Next
  <2> QED
    BY <2>1, <2>2, <2>3 DEF Next
<1> QED
  BY <1>1, <1>2, TypesCorrect, PTL DEF Spec, CacheFollowsCluster, OC!Spec

-----------------------------------------------------------------------------
(* The reference cache. *)

(* A worker goes on with what the reference cache then holds, or is done   *)
(* and the references are the ones its copy names.                         *)
Proceeds(w, v, ix) ==
    \/ v = Idle /\ Referred(w.obj, ix) = w.copy.refs
    \/ v # Idle /\ v.obj = w.obj /\ v.copy = w.copy /\ WorkerReferences(v, ix)

(* A worker whose references are the ones its copy names goes on to write  *)
(* addresses, or is done.                                                  *)
LEMMA AddressesReferences ==
    ASSUME NEW c, NEW w \in Workers, NEW ix, Referred(w.obj, ix) = w.copy.refs
    PROVE  Proceeds(w, EnterAddresses(c, w), ix)
<1> DEFINE v == [w EXCEPT !.phase = "addresses"]
<1>1. v.phase = "addresses" /\ v.obj = w.obj /\ v.copy = w.copy /\ v # Idle
  BY DEF Workers, Idle
<1> HIDE DEF v
<1>2. Proceeds(w, v, ix)
  BY <1>1 DEF Proceeds, WorkerReferences
<1>3. Proceeds(w, Idle, ix)
  BY DEF Proceeds
<1> QED
  BY <1>2, <1>3 DEF EnterAddresses, v

(* A worker that has set all its references goes on to remove the outdated *)
(* ones (UpdateReferencesToSecret).                                        *)
LEMMA OutdatedReferences ==
    ASSUME NEW c, NEW w \in Workers, w.act = "none", w.copy.refs \subseteq Referred(w.obj, index)
    PROVE  Proceeds(w, EnterOutdated(c, w), index)
<1> DEFINE outdated == Referred(w.obj, index) \ w.copy.refs
           v == [w EXCEPT !.phase = "outdated", !.todo = outdated]
<1>1. EnterOutdated(c, w) = IF outdated = {} THEN EnterAddresses(c, w) ELSE v
  BY DEF EnterOutdated, ListReferredObjects, Referred
<1>2. CASE outdated = {}
  <2>1. Referred(w.obj, index) = w.copy.refs
    BY <1>2
  <2> QED
    BY <1>1, <1>2, <2>1, AddressesReferences
<1>3. CASE outdated # {}
  <2>1. /\ v.phase = "outdated" /\ v.obj = w.obj /\ v.copy = w.copy /\ v.act = "none"
        /\ v.todo = outdated /\ v # Idle
    BY DEF Workers, Idle
  <2> HIDE DEF v
  <2>2. WorkerReferences(v, index)
    BY <2>1 DEF WorkerReferences
  <2> QED
    BY <1>1, <1>3, <2>1, <2>2 DEF Proceeds
<1> QED
  BY <1>2, <1>3

(* A worker that has written its object goes on with the references its    *)
(* copy names.                                                             *)
LEMMA EnterReferencesReferences ==
    ASSUME NEW c, c.refs, NEW w \in Workers, w.act = "none"
    PROVE  Proceeds(w, EnterReferences(c, w), index)
<1> DEFINE v == [w EXCEPT !.phase = "references", !.todo = w.copy.refs]
<1>1. CASE w.copy.refs = {}
  BY <1>1, OutdatedReferences DEF EnterReferences
<1>2. CASE w.copy.refs # {}
  <2>1. /\ v.phase = "references" /\ v.obj = w.obj /\ v.copy = w.copy /\ v.act = "none"
        /\ v.todo = w.copy.refs /\ v # Idle
    BY DEF Workers, Idle
  <2>2. EnterReferences(c, w) = v
    BY <1>2 DEF EnterReferences
  <2> HIDE DEF v
  <2>3. WorkerReferences(v, index)
    BY <2>1 DEF WorkerReferences
  <2> QED
    BY <2>1, <2>2, <2>3 DEF Proceeds
<1> QED
  BY <1>1, <1>2

(* A Secret that is named is dealt with once it is recorded ... *)
LEMMA DoneReferences ==
    ASSUME NEW c, NEW w \in Workers, w.phase = "references", NEW s \in Secrets,
           WorkerReferences(w, index), s \in Referred(w.obj, index)
    PROVE  Proceeds(w, Done(c, w, s), index)
<1> DEFINE v == [w EXCEPT !.todo = @ \ {s}, !.secret = NoSecret, !.act = "none"]
<1>1. /\ v \in Workers /\ v.phase = "references" /\ v.obj = w.obj /\ v.copy = w.copy
      /\ v.act = "none" /\ v.todo = w.todo \ {s} /\ v # Idle
  BY DEF Workers, Idle
<1>2. Done(c, w, s) = IF v.todo # {} THEN v ELSE EnterOutdated(c, v)
  BY <1>1 DEF Done
<1> HIDE DEF v
<1>3. v.todo \subseteq v.copy.refs /\ v.copy.refs \ v.todo \subseteq Referred(v.obj, index)
  BY <1>1 DEF WorkerReferences
<1>4. CASE v.todo # {}
  <2>1. WorkerReferences(v, index)
    BY <1>1, <1>3 DEF WorkerReferences
  <2> QED
    BY <1>1, <1>2, <1>4, <2>1 DEF Proceeds
<1>5. CASE v.todo = {}
  <2>1. Proceeds(v, EnterOutdated(c, v), index)
    BY <1>1, <1>3, <1>5, OutdatedReferences
  <2> QED
    BY <1>1, <1>2, <1>5, <2>1 DEF Proceeds
<1> QED
  BY <1>4, <1>5

(* ... and one that is not named any more once it is not. *)
LEMMA DoneOutdated ==
    ASSUME NEW c, NEW w \in Workers, w.phase = "outdated", NEW s \in Secrets, NEW ix,
           w.copy.refs \subseteq Referred(w.obj, ix), w.todo \cap w.copy.refs = {},
           Referred(w.obj, ix) \ w.copy.refs \subseteq w.todo \ {s}
    PROVE  Proceeds(w, Done(c, w, s), ix)
<1> DEFINE v == [w EXCEPT !.todo = @ \ {s}, !.secret = NoSecret, !.act = "none"]
<1>1. /\ v \in Workers /\ v.phase = "outdated" /\ v.obj = w.obj /\ v.copy = w.copy
      /\ v.act = "none" /\ v.todo = w.todo \ {s} /\ v # Idle
  BY DEF Workers, Idle
<1>2. Done(c, w, s) = IF v.todo # {} THEN v ELSE EnterAddresses(c, v)
  BY <1>1 DEF Done
<1> HIDE DEF v
<1>3. CASE v.todo # {}
  <2>1. WorkerReferences(v, ix)
    BY <1>1 DEF WorkerReferences
  <2> QED
    BY <1>1, <1>2, <1>3, <2>1 DEF Proceeds
<1>4. CASE v.todo = {}
  <2>1. Referred(v.obj, ix) = v.copy.refs
    BY <1>1, <1>4, SMT
  <2>2. Proceeds(v, EnterAddresses(c, v), ix)
    BY <1>1, <2>1, AddressesReferences
  <2> QED
    BY <1>1, <1>2, <1>4, <2>2 DEF Proceeds
<1> QED
  BY <1>3, <1>4

(* The references of an object that is going away do not matter. *)
LEMMA DoneRelease ==
    ASSUME NEW c, NEW w \in Workers, w.phase = "release", NEW s \in Secrets
    PROVE  LET v == Done(c, w, s)
           IN v # Idle /\ v.obj = w.obj /\ v.copy = w.copy /\ v.phase \in {"release", "remove"}
<1> DEFINE v == [w EXCEPT !.todo = @ \ {s}, !.secret = NoSecret, !.act = "none"]
           u == [v EXCEPT !.phase = "remove"]
<1>1. v \in Workers /\ v.phase = "release" /\ v.obj = w.obj /\ v.copy = w.copy
  BY DEF Workers
<1>2. Done(c, w, s) = IF v.todo # {} THEN v ELSE u
  BY <1>1 DEF Done
<1> HIDE DEF v
<1>3. u \in Workers /\ u.phase = "remove" /\ u.obj = v.obj /\ u.copy = v.copy
  BY <1>1 DEF Workers, Phases
<1> HIDE DEF u
<1>4. \A x \in Workers : x.phase # "idle"
  BY DEF Workers, Phases, Reading
<1> QED
  BY <1>1, <1>2, <1>3, <1>4, SMT DEF Idle

-----------------------------------------------------------------------------
(* Every step preserves References. *)

(* Where only the work queue grows. *)
LEMMA SameReferences ==
    ASSUME References, queue \subseteq queue', UNCHANGED <<scenarioVars, cluster, faults, index, cache, worker>>
    PROVE  References'
<1>1. /\ Controllers' = Controllers /\ Existing' = Existing /\ \A o : Kind(o)' = Kind(o)
      /\ \A c : Running(c)' = Running(c)
  BY DEF scenarioVars, Controllers, Existing, Kind, Running
<1>2. CopyCurrent'
  BY <1>1 DEF References, CopyCurrent, Running
<1>3. faults' = 0 => \A c \in Controllers : c.refs /\ Running(c) => WorkerReferences(worker'[c], index')
  BY DEF References
<1>4. \A o \in Existing : Settled(o)' => Settled(o)
  BY <1>1 DEF Settled, BeingReconciled
<1>5. faults' = 0 => \A o \in Existing :
          Settled(o)' /\ Kind(o).refs /\ cache'[o] # Absent /\ ~Foreign(Kind(o), cluster'[o])
            => ListReferredObjects(o)' = cluster'[o].refs
  BY <1>4 DEF References, ListReferredObjects
<1> QED
  BY <1>1, <1>2, <1>3, <1>5 DEF References

(* An event that does not pass the filter turns no foreign object into one *)
(* that is not.                                                            *)
LEMMA ObjectReferences ==
    ASSUME TypeInv, TypeInv', References, NEW o \in Existing, NEW new, ObjectChanges(o, new)
    PROVE  References'
<1>1. UNCHANGED <<scenarioVars, faults, index, cache, worker>> /\ cluster' = [cluster EXCEPT ![o] = new]
  BY DEF ObjectChanges, clusterUnchanged
<1>2. /\ Controllers' = Controllers /\ Existing' = Existing /\ \A p : Kind(p)' = Kind(p)
      /\ \A c : Running(c)' = Running(c)
  BY <1>1 DEF scenarioVars, Controllers, Existing, Kind, Running
<1>3. /\ o \in Objects /\ cluster \in [Objects -> ObjectVersions \cup {Absent}]
      /\ cluster' \in [Objects -> ObjectVersions \cup {Absent}]
  BY DEF TypeInv, ScenarioOK, ClusterOK
<1>4. cluster'[o] = new /\ \A p \in Objects \ {o} : cluster'[p] = cluster[p]
  BY <1>1, <1>3
<1>5. queue \subseteq queue'
  BY DEF ObjectChanges
<1>6. o \notin queue' => Foreign(Kind(o), cluster[o]) /\ Foreign(Kind(o), new)
  <2> SUFFICES ASSUME o \notin queue'
               PROVE  Foreign(Kind(o), cluster[o]) /\ Foreign(Kind(o), new)
    OBVIOUS
  <2>1. ~PassesClassFilter(Kind(o), cluster[o], new)
    BY DEF ObjectChanges
  <2>2. Kind(o).classed /\ \A x \in {cluster[o], new} \ {Absent} : ~MatchesIngressClass(x, TRUE)
    BY <2>1 DEF PassesClassFilter
  <2>3. \A x \in {cluster[o], new} \ {Absent} : x.class \in Classes
    BY <1>3, <1>4 DEF ObjectVersions
  <2> QED
    BY <2>2, <2>3 DEF MatchesIngressClass, Classes, Foreign
<1>7. CopyCurrent'
  <2> SUFFICES ASSUME NEW c \in Controllers, Running(c)
               PROVE  LET w == worker[c]
                      IN /\ w.obj \notin queue' => w.copy = cluster'[w.obj]
                               \/ (Foreign(c, w.copy) /\ Foreign(c, cluster'[w.obj]))
                         /\ w.phase \in Reading \ {"write"} => ~Foreign(c, w.copy)
    BY <1>1, <1>2 DEF CopyCurrent
  <2>1. worker[c].obj \in Objects /\ Kind(worker[c].obj) = c
    BY WorkerTypes
  <2>2. CASE worker[c].obj = o
    BY <1>4, <1>5, <1>6, <2>1, <2>2 DEF References, CopyCurrent
  <2>3. CASE worker[c].obj # o
    BY <1>4, <1>5, <2>1, <2>3 DEF References, CopyCurrent
  <2> QED
    BY <2>2, <2>3
<1>8. faults' = 0 => \A c \in Controllers : c.refs /\ Running(c) => WorkerReferences(worker'[c], index')
  BY <1>1 DEF References
<1>9. faults' = 0 => \A p \in Existing :
          Settled(p)' /\ Kind(p).refs /\ cache'[p] # Absent /\ ~Foreign(Kind(p), cluster'[p])
            => ListReferredObjects(p)' = cluster'[p].refs
  <2> SUFFICES ASSUME faults = 0, NEW p \in Existing, Settled(p)', Kind(p).refs, cache[p] # Absent,
                      ~Foreign(Kind(p), cluster'[p])
               PROVE  ListReferredObjects(p)' = cluster'[p].refs
    BY <1>1
  <2>1. p # o
    BY <1>2, <1>4, <1>6 DEF Settled
  <2>2. Settled(p) /\ p \in Objects
    BY <1>1, <1>2, <1>5 DEF Settled, BeingReconciled, TypeInv, ScenarioOK
  <2>3. cluster'[p] = cluster[p] /\ ListReferredObjects(p)' = ListReferredObjects(p)
    BY <1>1, <1>4, <2>1, <2>2 DEF ListReferredObjects
  <2> QED
    BY <2>2, <2>3 DEF References
<1> QED
  BY <1>2, <1>7, <1>8, <1>9 DEF References

(* What a worker may do to the references of its object and no other. *)
LocalStep(c, v) ==
    LET o == worker[c].obj
    IN /\ Step(c, v) /\ UNCHANGED scenarioVars /\ (faults' = 0 => faults = 0)
       /\ v # Idle => v.obj = o /\ v.copy = worker[c].copy
       /\ queue \subseteq queue' /\ queue' \subseteq queue \cup {o}
       /\ \A p \in Objects \ {o} : /\ cluster'[p] = cluster[p] /\ cache'[p] = cache[p]
                                   /\ Referred(p, index') = Referred(p, index)

(* A step of one worker keeps the references right when it moves that      *)
(* worker alone, goes on with what the reference cache holds, and touches  *)
(* no object but its own.                                                  *)
LEMMA LocalReferences ==
    ASSUME TypeInv, References, NEW c \in Controllers, Running(c), NEW v, LocalStep(c, v),
           v # Idle => /\ UNCHANGED cluster /\ v.phase # "idle"
                       /\ v.phase \in Reading \ {"write"} => ~Foreign(c, v.copy)
                       /\ faults' = 0 /\ c.refs => WorkerReferences(v, index'),
           v = Idle => LET o == worker[c].obj
                       IN o \notin queue' /\ faults' = 0 /\ c.refs /\ cache'[o] # Absent
                            /\ ~Foreign(c, cluster'[o]) => Referred(o, index') = cluster'[o].refs
    PROVE  References'
<1> DEFINE o == worker[c].obj
<1>1. o \in Objects /\ o \in Existing /\ Kind(o) = c
  BY WorkerTypes
<1>2. /\ Controllers' = Controllers /\ Existing' = Existing /\ (\A p : Kind(p)' = Kind(p))
  BY DEF LocalStep, scenarioVars, Controllers, Existing, Kind
<1>3. worker'[c] = v /\ \A d \in Controllers \ {c} : worker'[d] = worker[d]
  BY DEF LocalStep, Step, TypeInv, WorkersOK
<1>4. \A d \in Controllers \ {c} : Running(d) => worker[d].obj \in Objects \ {o}
  BY <1>1, WorkerTypes
<1>5. CopyCurrent'
  <2> SUFFICES ASSUME NEW d \in Controllers, Running(d)'
               PROVE  LET w == worker'[d]
                      IN /\ w.obj \notin queue' => w.copy = cluster'[w.obj]
                               \/ (Foreign(d, w.copy) /\ Foreign(d, cluster'[w.obj]))
                         /\ w.phase \in Reading \ {"write"} => ~Foreign(d, w.copy)
    BY <1>2 DEF CopyCurrent
  <2>1. CASE d = c
    <3>1. v # Idle
      BY <1>3, <2>1, SMT DEF Running, Idle
    <3> QED
      BY <1>3, <2>1, <3>1 DEF LocalStep, References, CopyCurrent
  <2>2. CASE d # c
    <3>1. worker'[d] = worker[d] /\ Running(d)
      BY <1>3, <2>2 DEF Running
    <3>2. cluster'[worker[d].obj] = cluster[worker[d].obj]
      BY <1>4, <2>2, <3>1 DEF LocalStep
    <3>3. queue \subseteq queue'
      BY DEF LocalStep
    <3> QED
      BY <3>1, <3>2, <3>3 DEF References, CopyCurrent
  <2> QED
    BY <2>1, <2>2
<1>6. ASSUME faults' = 0, NEW d \in Controllers, d.refs, Running(d)'
      PROVE  WorkerReferences(worker'[d], index')
  <2>1. CASE d = c
    BY <1>3, <1>6, <2>1, SMT DEF Running, Idle
  <2>2. CASE d # c
    <3>1. worker'[d] = worker[d] /\ Running(d)
      BY <1>3, <1>6, <2>2 DEF Running
    <3>2. Referred(worker[d].obj, index') = Referred(worker[d].obj, index)
      BY <1>4, <2>2, <3>1 DEF LocalStep
    <3>3. WorkerReferences(worker[d], index)
      BY <1>6, <3>1 DEF References, LocalStep
    <3> QED
      BY <3>1, <3>2, <3>3 DEF WorkerReferences
  <2> QED
    BY <2>1, <2>2
<1>7. ASSUME faults' = 0, NEW p \in Existing, Settled(p)', Kind(p).refs, cache'[p] # Absent,
             ~Foreign(Kind(p), cluster'[p])
      PROVE  ListReferredObjects(p)' = cluster'[p].refs
  <2>1. ListReferredObjects(p)' = Referred(p, index') /\ ListReferredObjects(p) = Referred(p, index)
    BY DEF ListReferredObjects, Referred
  <2>2. p \notin queue'
    BY <1>7 DEF Settled
  <2>3. CASE p = o
    <3>1. v = Idle
      <4> SUFFICES ASSUME v # Idle
                   PROVE  FALSE
        OBVIOUS
      <4>1. Running(c)' /\ worker'[c].obj = o
        BY <1>3 DEF Running, LocalStep
      <4>2. BeingReconciled(p)'
        BY <1>1, <1>2, <2>3, <4>1 DEF BeingReconciled
      <4> QED
        BY <1>7, <4>2 DEF Settled
    <3> QED
      BY <1>1, <1>7, <2>1, <2>2, <2>3, <3>1
  <2>4. CASE p # o
    <3>1. p \in Objects
      BY DEF TypeInv, ScenarioOK
    <3>2. cluster'[p] = cluster[p] /\ cache'[p] = cache[p] /\ Referred(p, index') = Referred(p, index)
      BY <2>4, <3>1 DEF LocalStep
    <3>3. Settled(p)
      <4>1. p \notin queue
        BY <2>2 DEF LocalStep
      <4>2. ~BeingReconciled(p)
        <5>1. CASE Kind(p) = c
          BY <2>4, <5>1 DEF BeingReconciled
        <5>2. CASE Kind(p) # c
          <6>1. Kind(p) \in Controllers
            BY DEF Kind, Controllers
          <6>2. worker'[Kind(p)] = worker[Kind(p)] /\ Kind(p)' = Kind(p)
            BY <1>2, <1>3, <5>2, <6>1
          <6>3. ~BeingReconciled(p)'
            BY <1>7 DEF Settled
          <6> QED
            BY <6>2, <6>3 DEF BeingReconciled, Running
        <5> QED
          BY <5>1, <5>2
      <4> QED
        BY <4>1, <4>2 DEF Settled
    <3>4. faults = 0
      BY <1>7 DEF LocalStep
    <3> QED
      BY <1>7, <2>1, <3>2, <3>3, <3>4 DEF References
  <2> QED
    BY <2>3, <2>4
<1> QED
  BY <1>2, <1>5, <1>6, <1>7 DEF References

(* A worker that proceeds leaves the references right. *)
LEMMA ProceedReferences ==
    ASSUME TypeInv, References, NEW c \in Controllers, Running(c), NEW v, LocalStep(c, v),
           v = Idle \/ v \in Workers, UNCHANGED cluster,
           ~Foreign(c, worker[c].copy), faults' = 0 /\ c.refs => Proceeds(worker[c], v, index')
    PROVE  References'
<1> DEFINE w == worker[c]
           o == w.obj
<1>1. ASSUME v # Idle
      PROVE  v.phase # "idle" /\ ~Foreign(c, v.copy)
             /\ (faults' = 0 /\ c.refs => WorkerReferences(v, index'))
  <2>1. v.phase # "idle"
    BY <1>1 DEF Workers, Phases, Reading
  <2> QED
    BY <1>1, <2>1 DEF LocalStep, Proceeds
<1>2. ASSUME v = Idle, o \notin queue', faults' = 0, c.refs
      PROVE  Referred(o, index') = cluster'[o].refs
  <2>1. Referred(o, index') = w.copy.refs
    BY <1>2 DEF Proceeds
  <2>2. w.copy = cluster[o]
    BY <1>2 DEF References, CopyCurrent, LocalStep
  <2> QED
    BY <2>1, <2>2
<1> QED
  BY <1>1, <1>2, LocalReferences

(* A worker starts: at an object that is not settled any more. *)
LEMMA StartReferences ==
    ASSUME TypeInv, References, NEW c \in Controllers, NEW o \in Existing, Start(c, o)
    PROVE  References'
<1>1. /\ ~Running(c) /\ Kind(o) = c /\ queue' = queue \ {o}
      /\ UNCHANGED <<scenarioVars, cluster, faults, index, cache>>
  BY DEF Start, reconcileUnchanged
<1> DEFINE gone == cluster[o] = Absent \/ cluster[o].deleting
           v == [phase |-> IF ~gone THEN "write" ELSE IF c.refs THEN "forget" ELSE "remove",
                 obj |-> o, copy |-> cluster[o], todo |-> {}, secret |-> NoSecret,
                 act |-> "none", got |-> Absent]
<1>2. /\ worker' = [worker EXCEPT ![c] = v] /\ v.obj = o /\ v.copy = cluster[o]
      /\ v.phase \in {"write", "forget", "remove"}
  BY DEF Start, Step
<1> HIDE DEF v
<1>3. worker'[c] = v /\ \A d \in Controllers \ {c} : worker'[d] = worker[d]
  BY <1>2 DEF TypeInv, WorkersOK
<1>4. /\ Controllers' = Controllers /\ Existing' = Existing /\ (\A p : Kind(p)' = Kind(p))
  BY <1>1 DEF scenarioVars, Controllers, Existing, Kind
<1>5. \A d \in Controllers \ {c} : Running(d) => worker[d].obj # o
  BY <1>1, WorkerTypes
<1>6. CopyCurrent'
  <2> SUFFICES ASSUME NEW d \in Controllers, Running(d)'
               PROVE  LET w == worker'[d]
                      IN /\ w.obj \notin queue' => w.copy = cluster[w.obj]
                               \/ (Foreign(d, w.copy) /\ Foreign(d, cluster[w.obj]))
                         /\ w.phase \in Reading \ {"write"} => ~Foreign(d, w.copy)
    BY <1>1, <1>4 DEF CopyCurrent
  <2>1. CASE d = c
    BY <1>2, <1>3, <2>1 DEF Reading
  <2>2. CASE d # c
    <3>1. worker'[d] = worker[d] /\ Running(d)
      BY <1>3, <2>2 DEF Running
    <3>2. worker[d].obj \notin queue' => worker[d].obj \notin queue
      BY <1>1, <1>5, <2>2, <3>1
    <3> QED
      BY <3>1, <3>2 DEF References, CopyCurrent
  <2> QED
    BY <2>1, <2>2
<1>7. ASSUME faults' = 0, NEW d \in Controllers, d.refs, Running(d)'
      PROVE  WorkerReferences(worker'[d], index')
  <2>1. CASE d = c
    BY <1>2, <1>3, <2>1 DEF WorkerReferences
  <2>2. CASE d # c
    <3>1. worker'[d] = worker[d] /\ Running(d)
      BY <1>3, <1>7, <2>2 DEF Running
    <3> QED
      BY <1>1, <1>7, <3>1 DEF References
  <2> QED
    BY <2>1, <2>2
<1>8. ASSUME faults' = 0, NEW p \in Existing, Settled(p)', Kind(p).refs, cache'[p] # Absent,
             ~Foreign(Kind(p), cluster'[p])
      PROVE  ListReferredObjects(p)' = cluster'[p].refs
  <2>1. p # o
    <3>1. BeingReconciled(o)'
      BY <1>1, <1>2, <1>3, <1>4 DEF BeingReconciled, Running
    <3> QED
      BY <1>8, <3>1 DEF Settled
  <2>2. p \notin queue
    BY <1>1, <1>8, <2>1 DEF Settled
  <2>3. ~BeingReconciled(p)
    <3>1. CASE Kind(p) = c
      BY <1>1, <3>1 DEF BeingReconciled
    <3>2. CASE Kind(p) # c
      <4>1. Kind(p) \in Controllers
        BY DEF Kind, Controllers
      <4>2. worker'[Kind(p)] = worker[Kind(p)] /\ Kind(p)' = Kind(p)
        BY <1>3, <1>4, <3>2, <4>1
      <4>3. ~BeingReconciled(p)'
        BY <1>8 DEF Settled
      <4> QED
        BY <4>2, <4>3 DEF BeingReconciled, Running
    <3> QED
      BY <3>1, <3>2
  <2>4. Settled(p) /\ ListReferredObjects(p)' = ListReferredObjects(p)
    BY <1>1, <2>2, <2>3 DEF Settled, ListReferredObjects
  <2> QED
    BY <1>1, <1>8, <2>4 DEF References
<1> QED
  BY <1>4, <1>6, <1>7, <1>8 DEF References

(* The object is written. *)
LEMMA WriteReferences ==
    ASSUME TypeInv, References, NEW c \in Controllers, Write(c)
    PROVE  References'
<1> DEFINE w == worker[c]
           o == w.obj
           ours == ~c.classed \/ MatchesIngressClass(w.copy, defaultClass)
           v == [w EXCEPT !.phase = "programmed"]
           next == IF c.status = "programmed" /\ ReportsEnabled THEN v ELSE EnterReferences(c, w)
<1>1. /\ w.phase = "write" /\ Running(c)
      /\ UNCHANGED <<scenarioVars, cluster, faults, queue, index>>
  BY DEF Write, reconcileUnchanged, Running
<1>2. w \in Workers /\ WorkerOK(c, w) /\ o \in Objects
  BY <1>1, WorkerTypes
<1>3. w.act = "none" /\ w.copy \in ObjectVersions \ {Absent}
  BY <1>1, <1>2 DEF WorkerOK, Reading, Workers
<1>4. \A p \in Objects \ {o} : cache'[p] = cache[p]
  BY <1>2 DEF Write, TypeInv, CachesOK
<1>5. CASE ~ours
  <2>1. Step(c, Idle) /\ cache'[o] = Absent
    BY <1>2, <1>5 DEF Write, TypeInv, CachesOK
  <2>2. LocalStep(c, Idle)
    BY <1>1, <1>4, <2>1 DEF LocalStep
  <2> QED
    BY <1>1, <2>1, <2>2, LocalReferences
<1>6. CASE ours
  <2>1. Step(c, next)
    BY <1>6 DEF Write
  <2>2. ~Foreign(c, w.copy)
    BY <1>3, <1>6 DEF MatchesIngressClass, Foreign
  <2>3. v \in Workers /\ v.obj = o /\ v.copy = w.copy /\ v.phase = "programmed"
    BY <1>2 DEF Workers, Phases, Reading
  <2>4. v # Idle /\ WorkerReferences(v, index)
    BY <2>3 DEF WorkerReferences, Idle
  <2> HIDE DEF v
  <2>5. EnterReferences(c, w) = Idle \/ Continues(c, w, EnterReferences(c, w))
    BY <1>2, <1>3, EnterTypes
  <2>6. next = Idle \/ (next \in Workers /\ next.obj = o /\ next.copy = w.copy)
    BY <2>3, <2>5 DEF Continues
  <2>7. c.refs => Proceeds(w, next, index')
    BY <1>1, <1>2, <1>3, <2>3, <2>4, EnterReferencesReferences DEF Proceeds
  <2> HIDE DEF next
  <2>8. LocalStep(c, next)
    BY <1>1, <1>4, <2>1, <2>6 DEF LocalStep
  <2> QED
    BY <1>1, <2>2, <2>6, <2>7, <2>8, ProceedReferences
<1> QED
  BY <1>5, <1>6

(* A status write queues the object again. *)
LEMMA ReportReferences ==
    ASSUME TypeInv, References, NEW c \in Controllers,
           EnsureProgrammedCondition(c) \/ UpdateLoadBalancerIngress(c)
    PROVE  References'
<1> DEFINE w == worker[c]
           o == w.obj
<1>1. /\ w.phase \in {"programmed", "addresses"} /\ Running(c)
      /\ UNCHANGED <<scenarioVars, faults, index, cache>>
  BY DEF EnsureProgrammedCondition, UpdateLoadBalancerIngress, reconcileUnchanged, Running
<1>2. w \in Workers /\ WorkerOK(c, w) /\ o \in Objects
  BY <1>1, WorkerTypes
<1>3. w.act = "none" /\ w.copy \in ObjectVersions \ {Absent} /\ ~Foreign(c, w.copy)
  BY <1>1, <1>2 DEF WorkerOK, Reading, Workers, References, CopyCurrent
<1>4. ASSUME NEW status, Step(c, Idle), UpdateStatus(o, w.copy, status)
      PROVE  References'
  <2>1. queue' = queue \cup {o} /\ \A p \in Objects \ {o} : cluster'[p] = cluster[p]
    BY <1>2, <1>4 DEF UpdateStatus, Requeue, TypeInv, ClusterOK
  <2>2. LocalStep(c, Idle)
    BY <1>1, <1>4, <2>1 DEF LocalStep
  <2> QED
    BY <1>1, <2>1, <2>2, LocalReferences
<1>5. CASE EnsureProgrammedCondition(c)
  <2>1. CASE Step(c, EnterReferences(c, w)) /\ UNCHANGED <<cluster, queue>>
    <3> DEFINE next == EnterReferences(c, w)
    <3>1. next = Idle \/ Continues(c, w, next)
      BY <1>2, <1>3, EnterTypes
    <3>2. next = Idle \/ (next \in Workers /\ next.obj = o /\ next.copy = w.copy)
      BY <3>1 DEF Continues
    <3>3. c.refs => Proceeds(w, next, index')
      BY <1>1, <1>2, <1>3, EnterReferencesReferences
    <3> HIDE DEF next
    <3>4. LocalStep(c, next)
      BY <1>1, <2>1, <3>2 DEF LocalStep, next
    <3> QED
      BY <1>1, <1>3, <2>1, <3>2, <3>3, <3>4, ProceedReferences
  <2> QED
    BY <1>4, <1>5, <2>1 DEF EnsureProgrammedCondition
<1>6. CASE UpdateLoadBalancerIngress(c)
  <2>1. Step(c, Idle) /\ w.phase = "addresses"
    BY <1>6 DEF UpdateLoadBalancerIngress
  <2>2. CASE Requeue(o) /\ UNCHANGED cluster
    <3>1. LocalStep(c, Idle) /\ o \in queue'
      BY <1>1, <2>1, <2>2 DEF LocalStep, Requeue
    <3> QED
      BY <1>1, <3>1, LocalReferences
  <2>3. CASE UNCHANGED <<cluster, queue>>
    <3>1. LocalStep(c, Idle)
      BY <1>1, <2>1, <2>3 DEF LocalStep
    <3>2. faults' = 0 /\ c.refs => Proceeds(w, Idle, index')
      BY <1>1, <2>1 DEF References, WorkerReferences, Proceeds
    <3> QED
      BY <1>1, <1>3, <2>3, <3>1, <3>2, ProceedReferences
  <2> QED
    BY <1>4, <1>6, <2>1, <2>2, <2>3 DEF UpdateLoadBalancerIngress
<1> QED
  BY <1>5, <1>6

(* A reference to a Secret is recorded, and the Secret cached. *)
LEMMA SetReferences ==
    ASSUME TypeInv, References, NEW c \in Controllers, NEW s \in Secrets,
           SetObjectReference(c, s) \/ CacheSecret(c)
    PROVE  References'
<1> DEFINE w == worker[c]
           o == w.obj
<1>1. /\ w.phase = "references" /\ Running(c)
      /\ UNCHANGED <<scenarioVars, cluster, faults, cache>>
  BY DEF SetObjectReference, CacheSecret, reconcileUnchanged, Running
<1>2. w \in Workers /\ WorkerOK(c, w) /\ o \in Objects
  BY <1>1, WorkerTypes
<1>3. ~Foreign(c, w.copy) /\ (faults' = 0 /\ c.refs => WorkerReferences(w, index))
  BY <1>1 DEF Reading, References, CopyCurrent
<1>4. CASE SetObjectReference(c, s)
  <2>1. index' = index \cup {<<o, s>>}
    BY <1>4 DEF SetObjectReference
  <2>2. /\ \A p \in Objects \ {o} : Referred(p, index') = Referred(p, index)
        /\ Referred(o, index') = Referred(o, index) \cup {s}
    BY <2>1 DEF Referred
  <2>3. CASE Step(c, Idle) /\ Requeue(o)
    <3>1. LocalStep(c, Idle) /\ o \in queue'
      BY <1>1, <2>2, <2>3 DEF LocalStep, Requeue
    <3> QED
      BY <1>1, <3>1, LocalReferences
  <2>4. CASE /\ Step(c, [w EXCEPT !.secret = s, !.act = "put", !.got = secrets[s]])
             /\ UNCHANGED queue /\ secrets[s] # Absent
    <3> DEFINE v == [w EXCEPT !.secret = s, !.act = "put", !.got = secrets[s]]
    <3>1. secrets[s] \in SecretVersions
      BY <2>4 DEF TypeInv, ClusterOK
    <3>2. /\ v \in Workers /\ v.phase = "references" /\ v.obj = o /\ v.copy = w.copy
          /\ v.todo = w.todo /\ v.secret = s /\ v # Idle
      BY <1>1, <1>2, <3>1 DEF Workers, Idle
    <3> HIDE DEF v
    <3>3. faults' = 0 /\ c.refs => Proceeds(w, v, index')
      BY <1>1, <1>3, <2>2, <3>2 DEF Proceeds, WorkerReferences
    <3>4. LocalStep(c, v)
      BY <1>1, <2>2, <2>4, <3>2 DEF LocalStep, v
    <3> QED
      BY <1>1, <1>3, <3>2, <3>3, <3>4, ProceedReferences
  <2> QED
    BY <1>4, <2>3, <2>4 DEF SetObjectReference
<1>5. CASE CacheSecret(c)
  <2> DEFINE next == Done(c, w, w.secret)
  <2>1. w.act = "put" /\ Step(c, next) /\ UNCHANGED <<index, queue>>
    BY <1>5 DEF CacheSecret
  <2>2. w.secret \in Secrets
    BY <1>2, <2>1 DEF WorkerOK
  <2>3. next = Idle \/ Continues(c, w, next)
    BY <1>1, <1>2, <2>2, DoneTypes
  <2>4. next = Idle \/ (next \in Workers /\ next.obj = o /\ next.copy = w.copy)
    BY <2>3 DEF Continues
  <2>5. faults' = 0 /\ c.refs => Proceeds(w, next, index')
    <3>1. WorkerReferences(w, index) => w.secret \in Referred(o, index)
      BY <1>1, <2>1 DEF WorkerReferences
    <3> QED
      BY <1>1, <1>2, <1>3, <2>1, <2>2, <3>1, DoneReferences
  <2> HIDE DEF next
  <2>6. LocalStep(c, next)
    BY <1>1, <2>1, <2>4 DEF LocalStep
  <2> QED
    BY <1>1, <1>3, <2>4, <2>5, <2>6, ProceedReferences
<1> QED
  BY <1>4, <1>5

(* An outdated reference is taken out. *)
LEMMA OutdatedStep ==
    ASSUME TypeInv, References, NEW c \in Controllers, NEW s \in Secrets, RemoveOutdatedReference(c, s)
    PROVE  References'
<1> DEFINE w == worker[c]
           o == w.obj
           v == [w EXCEPT !.secret = s, !.act = "check"]
           done == Done(c, w, s)
<1>1. /\ w.phase = "outdated" /\ w.act = "none" /\ s \in w.todo /\ Running(c)
      /\ UNCHANGED <<scenarioVars, cluster, queue, cache>> /\ index' = index \ {<<o, s>>}
  BY DEF RemoveOutdatedReference, reconcileUnchanged, Running
<1>2. w \in Workers /\ WorkerOK(c, w) /\ o \in Objects
  BY <1>1, WorkerTypes
<1>3. ~Foreign(c, w.copy) /\ (faults = 0 /\ c.refs => WorkerReferences(w, index))
  BY <1>1 DEF Reading, References, CopyCurrent
<1>4. /\ \A p \in Objects \ {o} : Referred(p, index') = Referred(p, index)
      /\ Referred(o, index') = Referred(o, index) \ {s}
  BY <1>1 DEF Referred
<1>5. faults = 0 /\ c.refs =>
        /\ w.copy.refs \subseteq Referred(o, index') /\ w.todo \cap w.copy.refs = {}
        /\ Referred(o, index') \ w.copy.refs \subseteq w.todo \ {s}
  BY <1>1, <1>3, <1>4 DEF WorkerReferences
<1>6. CASE faults' = faults /\ Step(c, done)
  <2>1. done = Idle \/ Continues(c, w, done)
    BY <1>1, <1>2, DoneTypes
  <2>2. done = Idle \/ (done \in Workers /\ done.obj = o /\ done.copy = w.copy)
    BY <2>1 DEF Continues
  <2>3. faults' = 0 /\ c.refs => Proceeds(w, done, index')
    BY <1>1, <1>2, <1>5, <1>6, DoneOutdated
  <2> HIDE DEF done
  <2>4. LocalStep(c, done)
    BY <1>1, <1>4, <1>6, <2>2 DEF LocalStep
  <2> QED
    BY <1>1, <1>3, <2>2, <2>3, <2>4, ProceedReferences
<1>7. CASE faults' = faults /\ Step(c, v)
  <2>1. /\ v \in Workers /\ v.phase = "outdated" /\ v.obj = o /\ v.copy = w.copy
        /\ v.todo = w.todo /\ v.secret = s /\ v # Idle
    BY <1>1, <1>2 DEF Workers, Idle
  <2> HIDE DEF v
  <2>2. faults' = 0 /\ c.refs => Proceeds(w, v, index')
    BY <1>4, <1>5, <1>7, <2>1 DEF Proceeds, WorkerReferences
  <2>3. LocalStep(c, v)
    BY <1>1, <1>4, <1>7, <2>1 DEF LocalStep
  <2> QED
    BY <1>1, <1>3, <2>1, <2>2, <2>3, ProceedReferences
<1>8. CASE faults' = faults + 1 /\ Step(c, EnterAddresses(c, w))
  <2> DEFINE next == EnterAddresses(c, w)
  <2>1. w.copy \in ObjectVersions \ {Absent}
    BY <1>1, <1>2 DEF WorkerOK, Reading
  <2>2. next = Idle \/ Continues(c, w, next)
    BY <1>1, <1>2, <2>1, EnterTypes
  <2>3. next = Idle \/ (next \in Workers /\ next.obj = o /\ next.copy = w.copy)
    BY <2>2 DEF Continues
  <2>4. faults' # 0
    BY <1>8, BoundsAssumption, SMT DEF TypeInv, WorkersOK
  <2> HIDE DEF next
  <2>5. LocalStep(c, next)
    BY <1>1, <1>4, <1>8, <2>3, <2>4 DEF LocalStep, next
  <2> QED
    BY <1>1, <1>3, <2>3, <2>4, <2>5, ProceedReferences
<1> QED
  BY <1>6, <1>7, <1>8 DEF RemoveOutdatedReference

(* A Secret is kept for those who refer to it, or evicted. *)
LEMMA EvictReferences ==
    ASSUME TypeInv, References, NEW c \in Controllers, NEW s \in Secrets,
           CheckReferred(c, s) \/ (DeleteObjectIfNotReferred(c) /\ s = worker[c].secret)
    PROVE  References'
<1> DEFINE w == worker[c]
           o == w.obj
           v == [w EXCEPT !.secret = s, !.act = "evict"]
           done == Done(c, w, s)
<1>1. /\ Running(c) /\ UNCHANGED <<scenarioVars, cluster, faults, queue, index, cache>>
      /\ Step(c, v) \/ Step(c, done)
  BY DEF CheckReferred, DeleteObjectIfNotReferred, reconcileUnchanged, Running
<1>2. w \in Workers /\ WorkerOK(c, w) /\ o \in Objects
  BY <1>1, WorkerTypes
<1>3. w.phase = "release" \/ (w.phase = "outdated" /\ w.act # "none" /\ w.secret = s)
  BY <1>2 DEF CheckReferred, DeleteObjectIfNotReferred, WorkerOK
<1>4. done = Idle \/ Continues(c, w, done)
  BY <1>2, <1>3, DoneTypes
<1>5. /\ v \in Workers /\ v.phase = w.phase /\ v.obj = o /\ v.copy = w.copy
      /\ v.todo = w.todo /\ v.secret = s
  BY <1>2 DEF Workers
<1>6. v # Idle
  BY <1>3, <1>5 DEF Idle
<1> HIDE DEF v
<1>7. ASSUME NEW u \in {v, done}, Step(c, u)
      PROVE  LocalStep(c, u)
  BY <1>1, <1>4, <1>5, <1>7 DEF LocalStep, Continues
<1>8. CASE w.phase = "release"
  <2>1. done # Idle /\ done.phase \in {"release", "remove"}
    BY <1>2, <1>8, DoneRelease
  <2>2. ASSUME NEW u \in {v, done}, Step(c, u)
        PROVE  References'
    <3>1. u # Idle /\ u.phase \in {"release", "remove"}
      BY <1>5, <1>6, <1>8, <2>1
    <3>2. WorkerReferences(u, index')
      BY <3>1 DEF WorkerReferences
    <3>3. u.phase \notin Reading /\ u.phase # "idle"
      BY <3>1 DEF Reading
    <3> QED
      BY <1>1, <1>7, <2>2, <3>1, <3>2, <3>3, LocalReferences
  <2> QED
    BY <1>1, <2>2
<1>9. CASE w.phase = "outdated"
  <2>1. ~Foreign(c, w.copy) /\ (faults' = 0 /\ c.refs => WorkerReferences(w, index))
    BY <1>1, <1>9 DEF Reading, References, CopyCurrent
  <2>2. WorkerReferences(w, index) => Proceeds(w, v, index')
    BY <1>1, <1>3, <1>5, <1>6, <1>9 DEF WorkerReferences, Proceeds
  <2>3. WorkerReferences(w, index) => Proceeds(w, done, index')
    <3> SUFFICES ASSUME WorkerReferences(w, index)
                 PROVE  Proceeds(w, done, index)
      BY <1>1
    <3>1. /\ w.copy.refs \subseteq Referred(o, index) /\ w.todo \cap w.copy.refs = {}
          /\ Referred(o, index) \ w.copy.refs \subseteq w.todo \ {s}
      BY <1>3, <1>9 DEF WorkerReferences
    <3> QED
      BY <1>2, <1>9, <3>1, DoneOutdated
  <2>4. ASSUME NEW u \in {v, done}, Step(c, u)
        PROVE  References'
    <3>1. u = Idle \/ u \in Workers
      BY <1>4, <1>5 DEF Continues
    <3>2. faults' = 0 /\ c.refs => Proceeds(w, u, index')
      BY <2>1, <2>2, <2>3
    <3> QED
      BY <1>1, <1>7, <2>1, <2>4, <3>1, <3>2, ProceedReferences
  <2> QED
    BY <1>1, <2>4
<1> QED
  BY <1>3, <1>8, <1>9

(* The references of an object that is going away are forgotten, and it    *)
(* leaves the cache.                                                       *)
LEMMA ForgetReferences ==
    ASSUME TypeInv, References, NEW c \in Controllers, DeleteReferencesByReferrer(c) \/ Remove(c)
    PROVE  References'
<1> DEFINE w == worker[c]
           o == w.obj
<1>1. Running(c) /\ UNCHANGED <<scenarioVars, cluster, faults>>
  BY DEF DeleteReferencesByReferrer, Remove, reconcileUnchanged, Running
<1>2. w \in Workers /\ WorkerOK(c, w) /\ o \in Objects
  BY <1>1, WorkerTypes
<1>3. CASE DeleteReferencesByReferrer(c)
  <2> DEFINE referents == ListReferredObjects(w.obj)
             v == [w EXCEPT !.phase = IF referents = {} THEN "remove" ELSE "release", !.todo = referents]
  <2>1. Step(c, v) /\ UNCHANGED <<queue, cache>> /\ index' = index \ ({o} \X Secrets)
    BY <1>3 DEF DeleteReferencesByReferrer
  <2>2. v.phase \in {"remove", "release"} /\ v.obj = o /\ v.copy = w.copy
    BY <1>2 DEF Workers
  <2> HIDE DEF v
  <2>3. \A p \in Objects \ {o} : Referred(p, index') = Referred(p, index)
    BY <2>1 DEF Referred
  <2>4. LocalStep(c, v)
    BY <1>1, <2>1, <2>2, <2>3 DEF LocalStep
  <2>5. v # Idle /\ v.phase # "idle" /\ v.phase \notin Reading /\ WorkerReferences(v, index')
    BY <2>2, SMT DEF Idle, Reading, WorkerReferences
  <2> QED
    BY <1>1, <2>4, <2>5, LocalReferences
<1>4. CASE Remove(c)
  <2>1. /\ Step(c, Idle) /\ UNCHANGED index /\ cache' = [cache EXCEPT ![o] = Absent]
        /\ queue \subseteq queue' /\ queue' \subseteq queue \cup {o}
    BY <1>4 DEF Remove, Requeue
  <2>2. cache'[o] = Absent /\ \A p \in Objects \ {o} : cache'[p] = cache[p]
    BY <1>2, <2>1 DEF TypeInv, CachesOK
  <2>3. LocalStep(c, Idle)
    BY <1>1, <2>1, <2>2 DEF LocalStep
  <2> QED
    BY <1>1, <2>2, <2>3, LocalReferences
<1> QED
  BY <1>3, <1>4

(* Every step keeps the references right. *)
LEMMA NextReferences == TypeInv /\ References /\ [Next]_vars => References'
<1> SUFFICES ASSUME TypeInv, References, [Next]_vars
             PROVE  References'
  OBVIOUS
<1>1. TypeInv'
  BY NextTypeInv
<1>2. ASSUME NEW c \in Controllers, Reconcile(c)
      PROVE  References'
  <2>1. ASSUME NEW s \in Secrets, SetObjectReference(c, s)
        PROVE  References'
    BY <2>1, SetReferences
  <2>2. CASE CacheSecret(c)
    <3>1. worker[c].secret \in Secrets
      BY <2>2, WorkerTypes DEF CacheSecret, Running, WorkerOK
    <3> QED
      BY <2>2, <3>1, SetReferences
  <2>3. CASE DeleteObjectIfNotReferred(c)
    <3>1. worker[c].secret \in Secrets
      BY <2>3, WorkerTypes DEF DeleteObjectIfNotReferred, WorkerOK
    <3> QED
      BY <2>3, <3>1, EvictReferences
  <2> QED
    BY <1>2, <2>1, <2>2, <2>3, StartReferences, WriteReferences, ReportReferences, OutdatedStep,
       EvictReferences, ForgetReferences DEF Reconcile
<1>3. ASSUME \/ \E o \in Existing : \E spec \in Specs(Kind(o)) : CreateObject(o, spec) \/ UpdateObject(o, spec)
             \/ \E o \in Existing : MarkObjectDeleted(o) \/ DeleteObject(o)
      PROVE  References'
  <2>1. PICK o \in Existing : \E new : ObjectChanges(o, new)
    BY <1>3 DEF CreateObject, UpdateObject, MarkObjectDeleted, DeleteObject
  <2> QED
    BY <1>1, <2>1, ObjectReferences
<1>4. ASSUME \/ UNCHANGED vars
             \/ \E s \in Secrets : WriteSecret(s) \/ MarkSecretDeleted(s) \/ DeleteSecret(s)
             \/ \E default, deleted \in BOOLEAN : ChangeIngressClass(default, deleted)
             \/ SecretController \/ Reports
      PROVE  References'
  <2>1. /\ queue \subseteq queue'
        /\ UNCHANGED <<scenarioVars, cluster, faults, index, cache, worker>>
    <3>1. CASE UNCHANGED vars
      BY <3>1 DEF vars, clusterVars
    <3>2. CASE \E s \in Secrets : WriteSecret(s) \/ MarkSecretDeleted(s) \/ DeleteSecret(s)
      BY <3>2 DEF WriteSecret, MarkSecretDeleted, DeleteSecret, SecretChanges, clusterUnchanged
    <3>3. CASE \E default, deleted \in BOOLEAN : ChangeIngressClass(default, deleted)
      BY <3>3 DEF ChangeIngressClass, clusterUnchanged
    <3>4. CASE SecretController
      BY <3>4 DEF SecretController, DeliverSecretEvent, StartSecret, ReconcileSecret, secretUnchanged,
                  clusterVars
    <3>5. CASE Reports
      BY <3>5 DEF Reports, triggerKubernetesObjectReport, Publish, Receive, Requeue, reportUnchanged,
                  clusterVars
    <3> QED
      BY <1>4, <3>1, <3>2, <3>3, <3>4, <3>5
  <2> QED
    BY <2>1, SameReferences
<1> QED
  BY <1>2, <1>3, <1>4 DEF Next

(* The reference cache stays exact                                         *)
(* (ConfigurationControllers.ReferencesExact, reference.go): as long as no *)
(* read of a Secret failed, an object of ours that is in the object cache  *)
(* and has nothing queued refers to exactly the Secrets it names, whatever *)
(* the other controllers do in between.                                    *)
THEOREM ReferencesStayExact == Spec => []ReferencesExact
<1>1. Init => References
  <2> SUFFICES ASSUME Init
               PROVE  References
    OBVIOUS
  <2>1. \A c \in Controllers : ~Running(c)
    BY DEF Init, Running, Idle
  <2>2. \A o \in Existing : cache[o] = Absent
    BY InitTypeInv DEF Init, TypeInv, ScenarioOK
  <2> QED
    BY <2>1, <2>2 DEF References, CopyCurrent
<1>2. TypeInv /\ References => ReferencesExact
  <2> SUFFICES ASSUME TypeInv, References, faults = 0, NEW o \in Existing,
                      Settled(o), Ours(o), Kind(o).refs, cache[o] # Absent
               PROVE  ListReferredObjects(o) = cluster[o].refs
    BY DEF ReferencesExact
  <2>1. ~Foreign(Kind(o), cluster[o])
    BY DEF Ours, Gone, MatchesIngressClass, Foreign
  <2> QED
    BY <2>1 DEF References
<1> QED
  BY <1>1, <1>2, NextReferences, TypesCorrect, PTL DEF Spec
=============================================================================
