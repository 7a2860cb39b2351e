----------------------------- MODULE ObjectCache -----------------------------
(***************************************************************************)
(* What the controllers promise about KongClient's object cache: a copy of *)
(* the cluster that lags behind but does not go back.  An entry is the     *)
(* version of an object that was written into it; versions of the cluster  *)
(* are numbered in the order they were made.                               *)
(***************************************************************************)
EXTENDS Integers

CONSTANTS Objects, Absent

VARIABLES
    latest,  \* the newest version of anything in the cluster
    wanted,  \* the version of each object that belongs in the cache
    cached   \* the version of each object that is in the cache

vars == <<latest, wanted, cached>>

Init ==
    /\ latest = 0
    /\ wanted = [o \in Objects |-> Absent]
    /\ cached = [o \in Objects |-> Absent]

(* The users change the cluster, and with it what belongs in the cache. *)
Change == latest' >= latest /\ UNCHANGED cached

(* A version is put into the cache: one that was made, and not one from    *)
(* before the version that is there.                                       *)
Put(o) ==
    /\ cached'[o] \in Int /\ cached'[o] <= latest
    /\ cached[o] # Absent => cached'[o] >= cached[o]
    /\ cached' = [cached EXCEPT ![o] = cached'[o]]
    /\ UNCHANGED latest

Remove(o) == cached' = [cached EXCEPT ![o] = Absent] /\ UNCHANGED latest

Next == Change \/ \E o \in Objects : Put(o) \/ Remove(o)

Spec == Init /\ [][Next]_vars

(* The cache catches up with the cluster again and again. *)
CatchesUp == \A o \in Objects : []<>(cached[o] = wanted[o])
=============================================================================
