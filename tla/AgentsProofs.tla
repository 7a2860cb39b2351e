---------------------------- MODULE AgentsProofs ----------------------------
(***************************************************************************)
(* Proofs about the parts that run beside the update loop: the controllers *)
(* that wait for their CRDs are set up at most once, for any number of     *)
(* CRDs, changes and failures.                                             *)
(***************************************************************************)
EXTENDS MCAgents, TLAPS

-----------------------------------------------------------------------------
(* The controllers that wait for their CRDs. *)

(* A set-up spends what allows it: SetupWithManager leaves the starting    *)
(* phase without a watch, a reconciliation uses up startControllerOnce.    *)
Unspent == phase = "starting" \/ (phase = "watching" /\ ~once)
SetupInv ==
    /\ setups \in {0, 1} /\ once \in BOOLEAN
    /\ phase = "starting" => ~once
    /\ Unspent => setups = 0

(* A step of the controllers keeps the number of set-ups and what is left  *)
(* to spend in line.                                                       *)
LEMMA DynamicStep == SetupInv /\ Dynamic!Next => SetupInv'
<1>1. ASSUME SetupInv, Dynamic!SetupWithManager
      PROVE  SetupInv'
  <2>1. once' = once /\ phase = "starting" /\ setups = 0 /\ ~once
    BY <1>1 DEF SetupInv, Unspent, Dynamic!SetupWithManager
  <2>2. \/ phase' = "watching" /\ setups' = 0
        \/ phase' = "skipped" /\ setups' = 1
        \/ phase' = "failed" /\ setups' = 0
    BY <1>1, <2>1 DEF Dynamic!SetupWithManager
  <2> QED
    BY <1>1, <2>1, <2>2, Zenon DEF SetupInv, Unspent
<1>2. ASSUME SetupInv, NEW c \in CRDs, Dynamic!Advance(c) \/ Dynamic!Install(c) \/ Dynamic!Uninstall(c)
      PROVE  SetupInv'
  <2>1. UNCHANGED <<phase, once, setups>>
    BY <1>2 DEF Dynamic!Advance, Dynamic!Install, Dynamic!Uninstall
  <2> QED
    BY <1>2, <2>1 DEF SetupInv, Unspent
<1>3. ASSUME SetupInv, NEW c \in CRDs, Dynamic!Reconcile(c)
      PROVE  SetupInv'
  <2>1. phase = "watching" /\ phase' = "watching"
    BY <1>3 DEF Dynamic!Reconcile, Dynamic!Take
  <2>2. CASE UNCHANGED <<once, setups>>
    BY <1>3, <2>1, <2>2 DEF SetupInv, Unspent
  <2>3. CASE ~once /\ once' = TRUE /\ setups' = setups + 1
    <3>1. setups' = 1
      BY <1>3, <2>1, <2>3 DEF SetupInv, Unspent
    <3> QED
      BY <2>1, <2>3, <3>1 DEF SetupInv, Unspent
  <2> QED
    BY <1>3, <2>2, <2>3 DEF Dynamic!Reconcile
<1>4. ASSUME SetupInv, NEW c \in CRDs, Dynamic!SetupFails(c)
      PROVE  SetupInv'
  <2>1. phase = "watching" /\ phase' = "watching" /\ once' = TRUE /\ setups' = setups
    BY <1>4 DEF Dynamic!SetupFails, Dynamic!Take
  <2> QED
    BY <1>4, <2>1 DEF SetupInv, Unspent
<1> QED
  BY <1>1, <1>2, <1>3, <1>4 DEF Dynamic!Next

(* However many CRDs come, go and come back, whichever requests are tried  *)
(* again and whichever set-ups fail, the manager is asked at most once to  *)
(* run the controller (dynamic_controller.go, startControllerOnce).        *)
THEOREM SetUpAtMostOnce == Spec => []SetUpOnce
<1>1. Init => SetupInv
  BY DEF Init, Dynamic!Init, SetupInv, Unspent
<1>2. SetupInv /\ [Next]_vars => SetupInv'
  <2>1. ASSUME SetupInv, UNCHANGED dynamicVars
        PROVE  SetupInv'
    BY <2>1 DEF SetupInv, Unspent, dynamicVars
  <2>2. [Next]_vars => Dynamic!Next \/ UNCHANGED dynamicVars
    BY DEF Next, vars, InNodes, InBackoff, InAgent, InLicense, InDynamic
  <2> QED
    BY <2>1, <2>2, DynamicStep
<1>3. SetupInv => SetUpOnce
  BY DEF SetupInv, SetUpOnce, Dynamic!SetUpOnce
<1> QED
  BY <1>1, <1>2, <1>3, PTL DEF Spec
=============================================================================
