---------------------------- MODULE KongLicense ----------------------------
(***************************************************************************)
(* The controller that chooses a KongLicense for the gateways              *)
(* (controllers/license/konglicense_controller.go).  One worker takes the  *)
(* names of changed licenses from a queue.  Users, other controllers and   *)
(* the API server act between its calls.                                   *)
(***************************************************************************)
EXTENDS Integers, Sequences, SequencesExt

CONSTANTS
    Names,            \* names of KongLicenses, numbers in lexical order
    Self, Other,      \* controllerName of this controller and of another one
    maxConditionNum,  \* the limit on the items of a status
    MaxChanges,       \* bound on what users and other controllers do
    MaxFaults,        \* bound on status updates that fail
    MayDisable,       \* users may disable licenses
    Absent

VARIABLES
    cluster,     \* the licenses in the API server
    clock,       \* time of the last creation
    changes, faults,
    disabled,    \* history: a license was created disabled or disabled later
    overtaken,   \* history: the newest license was deleted before it was chosen
    queue,       \* the work queue
    cached,      \* LicenseCache
    chosen,      \* chosenLicense: a name and the payload, or Absent
    worker       \* where Reconcile is

vars == <<cluster, clock, changes, faults, disabled, overtaken, queue, cached, chosen, worker>>

License(created, enabled, statuses) ==
    [created |-> created, payload |-> 0, enabled |-> enabled, deleting |-> FALSE, statuses |-> statuses]
Item(controller) == [controller |-> controller, programmed |-> "unset"]
Idle == [at |-> "idle", name |-> 0, old |-> Absent]
Init ==
    /\ cluster = [n \in Names |-> Absent] /\ clock = 0 /\ changes = 0 /\ faults = 0
    /\ disabled = FALSE /\ overtaken = FALSE /\ queue = {} /\ cached = [n \in Names |-> Absent]
    /\ chosen = Absent /\ worker = Idle

-----------------------------------------------------------------------------
(* The users and the other controllers.  An event passes the predicate     *)
(* isKongLicenseEnabled on what the object is now, or was when deleted.    *)
controllerVars == <<faults, overtaken, cached, chosen, worker>>
Enqueued(n, license) == queue' = IF license.enabled THEN queue \cup {n} ELSE queue
Change(n, license) ==
    /\ changes < MaxChanges /\ changes' = changes + 1
    /\ cluster' = [cluster EXCEPT ![n] = license]
    /\ UNCHANGED controllerVars

Create(n) ==
    /\ cluster[n] = Absent
    /\ clock' \in {clock, clock + 1}
    /\ \E enabled \in {TRUE, ~MayDisable}, statuses \in {<<>>, <<Item(Other)>>} :
         LET license == License(clock', enabled, statuses) IN
         /\ Change(n, license) /\ Enqueued(n, license)
         /\ disabled' = (disabled \/ ~enabled)

Update(n) ==
    /\ cluster[n] # Absent
    /\ LET license == [cluster[n] EXCEPT !.payload = @ + 1] IN
         Change(n, license) /\ Enqueued(n, license)
    /\ UNCHANGED <<clock, disabled>>

SetEnabled(n, enabled) ==
    /\ MayDisable /\ cluster[n] # Absent /\ cluster[n].enabled # enabled
    /\ LET license == [cluster[n] EXCEPT !.enabled = enabled] IN
         Change(n, license) /\ Enqueued(n, license)
    /\ disabled' = TRUE
    /\ UNCHANGED clock

MarkDeleted(n) ==
    /\ cluster[n] # Absent /\ ~cluster[n].deleting
    /\ LET license == [cluster[n] EXCEPT !.deleting = TRUE] IN
         Change(n, license) /\ Enqueued(n, license)
    /\ UNCHANGED <<clock, disabled>>

Delete(n) ==
    /\ cluster[n] # Absent
    /\ Change(n, Absent) /\ Enqueued(n, cluster[n])
    /\ UNCHANGED <<clock, disabled>>

Users ==
    \E n \in Names : Create(n) \/ Update(n) \/ MarkDeleted(n) \/ Delete(n)
                     \/ \E e \in BOOLEAN : SetEnabled(n, e)

-----------------------------------------------------------------------------
(* compareKongLicense: the newer one, or the one with the smaller name. *)
compareKongLicense(lics, m, n) ==
    lics[m].created > lics[n].created \/ (lics[m].created = lics[n].created /\ m < n)

(* pickLicenseInCache *)
Newest(lics) ==
    LET present == {n \in Names : lics[n] # Absent} IN
    {n \in present : \A m \in present \ {n} : compareKongLicense(lics, n, m)}
pickLicenseInCache(lics) == IF Newest(lics) = {} THEN Absent
                            ELSE [name |-> CHOOSE n \in Newest(lics) : TRUE]

(* ensureControllerStatusConditions reads the license again and sets the   *)
(* Programmed condition.  The index of a new item is always the first.     *)
IndexOf(statuses) == IF \E i \in DOMAIN statuses : statuses[i].controller = Self
                     THEN CHOOSE i \in DOMAIN statuses : statuses[i].controller = Self
                     ELSE 1
WithItem(statuses) == IF \E i \in DOMAIN statuses : statuses[i].controller = Self
                      THEN statuses ELSE Append(statuses, Item(Self))
Conditions(statuses, status) ==
    [WithItem(statuses) EXCEPT ![IndexOf(statuses)].programmed = status]
OverLimit(statuses) ==
    /\ WithItem(statuses)[IndexOf(statuses)].programmed = "unset"
    /\ Len(WithItem(statuses)) >= maxConditionNum
CanEnsure(n) == cluster[n] # Absent /\ ~OverLimit(cluster[n].statuses)
WriteConditions(n, status) ==
    LET license == [cluster[n] EXCEPT !.statuses = Conditions(@, status)] IN
    /\ cluster' = [cluster EXCEPT ![n] = license]
    /\ Enqueued(n, license)

userVars == <<clock, changes, disabled>>
Failed == /\ worker' = Idle
          /\ queue' = queue \cup {worker.name}

(* What Reconcile does of a license that is gone: the panic of             *)
(* repickLicenseOnDelete when none was chosen ends the process, and a new  *)
(* one starts from the licenses there are.                                 *)
Restart ==
    /\ cached' = [n \in Names |-> Absent] /\ chosen' = Absent /\ worker' = Idle
    /\ queue' = {n \in Names : cluster[n] # Absent /\ cluster[n].enabled}
    /\ UNCHANGED <<cluster, faults>>

(* Mutant: the deleted license is not replaced by one that is left. *)
NoRepickOnDelete(n, left) ==
    /\ cached' = left /\ worker' = Idle
    /\ chosen' = IF chosen.name # n THEN chosen ELSE Absent

repickLicenseOnDelete(n, left) ==
    /\ cached' = left
    /\ LET pick == pickLicenseInCache(left) IN
       IF chosen.name # n THEN UNCHANGED chosen /\ worker' = Idle
       ELSE IF pick = Absent THEN chosen' = Absent /\ worker' = Idle
       ELSE /\ chosen' = [name |-> pick.name, payload |-> left[pick.name].payload]
            /\ worker' = [at |-> "repicked", name |-> n, old |-> pick.name]

(* The Requeue of a license that is being deleted finds it neither cached  *)
(* nor chosen, and is left out.                                            *)
Dropped(n) == cached[n] # Absent /\ (cluster[n] = Absent \/ cluster[n].deleting)
Reconcile(n) ==
    /\ worker = Idle /\ n \in queue
    /\ UNCHANGED userVars
    /\ overtaken' = (overtaken \/ (Dropped(n) /\ n \in Newest(cached) /\ chosen # Absent /\ chosen.name # n))
    /\ IF cluster[n] = Absent \/ cluster[n].deleting
       THEN IF cached[n] = Absent
            THEN queue' = queue \ {n} /\ UNCHANGED <<cluster, faults, cached, chosen, worker>>
            ELSE IF chosen = Absent THEN Restart
            ELSE /\ repickLicenseOnDelete(n, [cached EXCEPT ![n] = Absent])
                 /\ queue' = queue \ {n} /\ UNCHANGED <<cluster, faults>>
       ELSE /\ cached' = [cached EXCEPT ![n] = cluster[n]]
            /\ queue' = queue \ {n}
            /\ worker' = IF pickLicenseInCache(cached').name = n
                         THEN [at |-> "picked", name |-> n, old |-> Absent] ELSE Idle
            /\ UNCHANGED <<cluster, faults, chosen>>

(* The license being reconciled is the newest: its condition, then that of *)
(* the one chosen before.                                                  *)
EnsurePicked ==
    /\ worker.at = "picked"
    /\ UNCHANGED <<userVars, overtaken, chosen, faults>>
    /\ IF CanEnsure(worker.name)
       THEN /\ WriteConditions(worker.name, "True")
            /\ cached' = [cached EXCEPT ![worker.name] = cluster[worker.name]]
            /\ worker' = [worker EXCEPT !.at = "replace"]
       ELSE Failed /\ UNCHANGED <<cluster, cached>>

EnsureReplaced ==
    /\ worker.at = "replace"
    /\ UNCHANGED <<userVars, overtaken, cached, faults>>
    /\ IF chosen = Absent \/ chosen.name = worker.name
       THEN /\ chosen' = [name |-> worker.name, payload |-> cached[worker.name].payload]
            /\ worker' = Idle /\ UNCHANGED <<cluster, queue>>
       ELSE IF CanEnsure(chosen.name)
       THEN /\ WriteConditions(chosen.name, "False")
            /\ chosen' = [name |-> worker.name, payload |-> cached[worker.name].payload]
            /\ worker' = Idle
       ELSE Failed /\ UNCHANGED <<cluster, chosen>>

EnsureRepicked ==
    /\ worker.at = "repicked"
    /\ UNCHANGED <<userVars, overtaken, chosen, faults>>
    /\ IF CanEnsure(worker.old)
       THEN /\ WriteConditions(worker.old, "True")
            /\ cached' = [cached EXCEPT ![worker.old] = cluster[worker.old]]
            /\ worker' = Idle
       ELSE Failed /\ UNCHANGED <<cluster, cached>>

UpdateFails ==
    /\ worker # Idle /\ faults < MaxFaults
    /\ worker.at = "replace" => chosen # Absent /\ chosen.name # worker.name
    /\ faults' = faults + 1
    /\ Failed
    /\ UNCHANGED <<cluster, userVars, overtaken, cached, chosen>>

Controller ==
    \/ \E n \in Names : Reconcile(n)
    \/ EnsurePicked \/ EnsureReplaced \/ EnsureRepicked

Next == Users \/ Controller \/ UpdateFails
Spec == Init /\ [][Next]_vars

(* The worker goes on and no name waits in the queue for ever. *)
Fairness == WF_vars(Controller) /\ \A n \in Names : SF_vars(Reconcile(n))

-----------------------------------------------------------------------------
(* Properties. *)

(* Once users stop, the gateways get the newest license there is, with its *)
(* latest payload: "If there are multiple `KongLicense`s in the cluster,   *)
(* the newest one [...] is chosen" (CHANGELOG.md:406), and Reconcile's     *)
(* comment on a deletion: "Then pick the effective license in KongLicenses *)
(* remaining in cache" (konglicense_controller.go:190).                    *)
Live == {n \in Names : cluster[n] # Absent /\ (cluster[n] # Absent => ~cluster[n].deleting)}
After(m, n) == cluster[m].created > cluster[n].created
NewestLive(n) == /\ n \in Live
                 /\ \A m \in Live \ {n} : After(n, m) \/ (~After(m, n) /\ n < m)
ChosenIsNewest ==
    IF chosen = Absent THEN Live = {}
    ELSE NewestLive(chosen.name) /\ chosen.payload = cluster[chosen.name].payload

(* There is one way this may fail: repickLicenseOnDelete picks again only  *)
(* when the chosen license is the one deleted, so what changed while a     *)
(* newer one was in the cache, not chosen yet and deleted then, goes       *)
(* unseen ("overtaken").  A license that is disabled is left aside: its    *)
(* events are filtered.                                                    *)
EventuallyNewestUnlessOvertaken == <>[](disabled \/ overtaken \/ ChosenIsNewest)
=============================================================================
