---------------------------- MODULE LicenseAgent ----------------------------
(***************************************************************************)
(* The agent that takes the license from Konnect (internal/license/        *)
(* agent.go, internal/konnect/license/client.go): one goroutine polls, and *)
(* keeps the newest license it has seen.                                   *)
(***************************************************************************)
EXTENDS Integers

CONSTANTS
    MaxUpdates,  \* bound on changes of the license in Konnect
    MaxFaults,   \* bound on polls that fail
    None

VARIABLES
    upstream,       \* the license in Konnect: when it was updated, or None
    updates, faults,
    cachedLicense,  \* when the cached license was updated, or None
    period          \* the period of the ticker; "none" before Start

vars == <<upstream, updates, faults, cachedLicense, period>>

Init == upstream = None /\ updates = 0 /\ faults = 0 /\ cachedLicense = None /\ period = "none"

(* A license is added or renewed in Konnect, an older one comes back, or   *)
(* there is none any more.                                                 *)
Upstream ==
    /\ updates < MaxUpdates /\ updates' = updates + 1
    /\ upstream' \in (1..updates' \cup {None}) \ {upstream}
    /\ UNCHANGED <<faults, cachedLicense, period>>

(* reconcileLicenseWithKonnect *)
Reconciled(cached, retrieved) ==
    IF retrieved # None /\ (IF cached = None THEN TRUE ELSE retrieved > cached) THEN retrieved
    ELSE cached

resolvePollingPeriod(cached) == IF cached = None THEN "initial" ELSE "regular"

(* Start polls once; runPollingLoop polls on every tick. *)
Poll ==
    /\ cachedLicense' = Reconciled(cachedLicense, upstream)
    /\ period' = IF period = "none" THEN "initial" ELSE resolvePollingPeriod(cachedLicense')
    /\ UNCHANGED <<upstream, updates, faults>>

PollFails ==
    /\ faults < MaxFaults /\ faults' = faults + 1
    /\ period' = IF period = "none" THEN "initial" ELSE resolvePollingPeriod(cachedLicense)
    /\ UNCHANGED <<upstream, updates, cachedLicense>>

Next == Upstream \/ Poll \/ PollFails
Spec == Init /\ [][Next]_vars
Fairness == WF_vars(Poll)

-----------------------------------------------------------------------------
(* Properties. *)

(* A license is renewed for good: once Konnect's license stays, the agent  *)
(* has it or one updated later, and its ticker has the long period         *)
(* (internal/license/agent.go, reconcileLicenseWithKonnect).               *)
Renewed == upstream # None => cachedLicense # None /\ cachedLicense >= upstream /\ period = "regular"
EventuallyCached == <>[]Renewed
=============================================================================
