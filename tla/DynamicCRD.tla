----------------------------- MODULE DynamicCRD -----------------------------
(***************************************************************************)
(* Controllers whose CRDs may be missing when the controller starts        *)
(* (internal/controllers/crds/dynamic_controller.go).  The CRDs are        *)
(* installed in stages: created, names accepted, established; the REST     *)
(* mapper only knows what is established.                                  *)
(***************************************************************************)
EXTENDS Integers

CONSTANTS
    CRDs,       \* RequiredCRDs
    MaxChanges, \* bound on what users do
    MaxFaults   \* bound on set-ups that fail

VARIABLES
    crd,        \* how far each CRD is: 0 absent, 1 created, 2 accepted, 3 established
    changes, faults,
    phase,      \* "starting", "watching", "skipped" (no watch) or "failed"
    queue,      \* CRDs to reconcile
    once,       \* startControllerOnce is used up
    setups      \* times the controller was set up

vars == <<crd, changes, faults, phase, queue, once, setups>>

Init ==
    /\ crd \in [CRDs -> {0, 3}] /\ changes = 0 /\ faults = 0 /\ phase = "starting"
    /\ queue = {} /\ once = FALSE /\ setups = 0

isOneOfRequiredCRDs(stage) == stage >= 2
allRequiredCRDsInstalled == \A c \in CRDs : crd[c] = 3

(* Events of the API server; a deletion passes the filter on what the CRD  *)
(* was.                                                                    *)
Enqueued(c, stage) ==
    queue' = IF phase = "watching" /\ isOneOfRequiredCRDs(stage) THEN queue \cup {c} ELSE queue
Advance(c) ==
    /\ crd[c] \in 1..2
    /\ crd' = [crd EXCEPT ![c] = @ + 1]
    /\ Enqueued(c, crd[c] + 1)
    /\ UNCHANGED <<changes, faults, phase, once, setups>>
Install(c) ==
    /\ crd[c] = 0 /\ changes < MaxChanges /\ changes' = changes + 1
    /\ crd' = [crd EXCEPT ![c] = 1]
    /\ Enqueued(c, 1)
    /\ UNCHANGED <<faults, phase, once, setups>>
Uninstall(c) ==
    /\ crd[c] > 0 /\ changes < MaxChanges /\ changes' = changes + 1
    /\ crd' = [crd EXCEPT ![c] = 0]
    /\ Enqueued(c, crd[c])
    /\ UNCHANGED <<faults, phase, once, setups>>

(* SetupWithManager *)
SetupWithManager ==
    /\ phase = "starting"
    /\ IF ~allRequiredCRDsInstalled
       THEN phase' = "watching" /\ queue' = {c \in CRDs : isOneOfRequiredCRDs(crd[c])}
            /\ UNCHANGED <<faults, setups>>
       ELSE \/ phase' = "skipped" /\ setups' = setups + 1 /\ UNCHANGED <<faults, queue>>
            \/ phase' = "failed" /\ faults < MaxFaults /\ faults' = faults + 1 /\ UNCHANGED <<queue, setups>>
    /\ UNCHANGED <<crd, changes, once>>

Take(c) == /\ phase = "watching" /\ c \in queue
           /\ UNCHANGED <<crd, changes, phase>>

(* Mutant: without the Once. *)
SetUpAgain(c) ==
    /\ Take(c) /\ queue' = queue \ {c} /\ UNCHANGED faults
    /\ IF crd[c] = 0 \/ ~allRequiredCRDsInstalled THEN UNCHANGED <<once, setups>>
       ELSE once' = TRUE /\ setups' = setups + 1

(* Mutant: the Once is used up before the CRDs are there. *)
SetUpTooSoon(c) ==
    /\ Take(c) /\ queue' = queue \ {c} /\ UNCHANGED faults
    /\ once' = TRUE
    /\ setups' = IF once \/ crd[c] = 0 \/ ~allRequiredCRDsInstalled THEN setups ELSE setups + 1

(* Reconcile *)
Reconcile(c) ==
    /\ Take(c) /\ queue' = queue \ {c} /\ UNCHANGED faults
    /\ IF crd[c] = 0 \/ ~allRequiredCRDsInstalled \/ once THEN UNCHANGED <<once, setups>>
       ELSE once' = TRUE /\ setups' = setups + 1

(* The set-up fails: the request is tried again, but the Once is used up. *)
SetupFails(c) ==
    /\ Take(c) /\ crd[c] > 0 /\ allRequiredCRDsInstalled /\ ~once
    /\ faults < MaxFaults /\ faults' = faults + 1
    /\ once' = TRUE
    /\ UNCHANGED <<queue, setups>>

Next ==
    \/ SetupWithManager
    \/ \E c \in CRDs : Advance(c) \/ Install(c) \/ Uninstall(c) \/ Reconcile(c) \/ SetupFails(c)
Spec == Init /\ [][Next]_vars

(* The manager starts, the worker takes the requests, and the API server   *)
(* finishes what it accepted.                                              *)
Steps == SetupWithManager \/ \E c \in CRDs : Reconcile(c) \/ Advance(c)
Fairness == WF_vars(Steps)

-----------------------------------------------------------------------------
(* Properties. *)

(* The controller is set up once the CRDs are all there and stay (the      *)
(* comment of DynamicCRDController), in whatever order they come, unless   *)
(* its set-up fails, and never twice, which the manager would refuse.      *)
SetUp == allRequiredCRDsInstalled => setups = 1 \/ faults > 0
EventuallySetUp == <>[]SetUp
SetUpOnce == setups <= 1
=============================================================================
