--------------------------- MODULE KonnectBackoff ---------------------------
(***************************************************************************)
(* When a configuration may be pushed to Konnect:                          *)
(* UpdateStrategyWithBackoff                                               *)
(* (internal/dataplane/sendconfig/backoff_strategy.go) asks                *)
(* KonnectBackoffStrategy (internal/adminapi/backoff_strategy_konnect.go)  *)
(* before every push and tells it how the push ended.  A configuration     *)
(* that Konnect holds already is not pushed (module KongClient).           *)
(*                                                                         *)
(* Time is counted in initial intervals; what is kept of it is the time    *)
(* left until the next attempt.                                            *)
(***************************************************************************)
EXTENDS Integers

CONSTANTS
    Hashes,       \* hashes of configurations
    NoHash,
    MaxInterval,  \* KonnectBackoffMaxInterval, in initial intervals
    RetryAfters,  \* what a 429 may ask for; 0 when it has no details
    Faulty,       \* configurations Konnect answers with a client error
    MaxEvents     \* bound on changes of the configuration and on outages

VARIABLES
    config,                \* the configuration to push
    held,                  \* what Konnect holds
    down,                  \* Konnect answers 429 or 5xx, or not at all
    events,                \* changes of the configuration and outages so far
    timeLeft,              \* nextAttempt - now, 0 when it is in the past
    attempt,               \* backoff.Backoff's counter
    lastFailedConfigHash

backoffVars == <<timeLeft, attempt, lastFailedConfigHash>>
vars == <<config, held, down, events, backoffVars>>

(* Backoff.ForAttempt with Factor 2, capped at the maximum. *)
Duration(n) == IF 2 ^ n > MaxInterval THEN MaxInterval ELSE 2 ^ n

(* The counter grows without bound, but past the cap that makes no         *)
(* difference.                                                             *)
Increment(n) == IF Duration(n) < MaxInterval THEN n + 1 ELSE n

Init ==
    /\ config \in Hashes /\ held = NoHash /\ down = FALSE /\ events = 0
    /\ timeLeft = 0 /\ attempt = 0 /\ lastFailedConfigHash = NoHash

CanUpdate(hash) == timeLeft = 0 /\ lastFailedConfigHash # hash

incrementExponentialBackoff ==
    /\ timeLeft' = Duration(attempt)
    /\ attempt' = Increment(attempt)

RegisterUpdateSuccess ==
    /\ held' = config
    /\ timeLeft' = 0 /\ attempt' = 0 /\ lastFailedConfigHash' = NoHash

(* With details the wait is the one asked for and the counter stays. *)
handleTooManyRequests(retryAfter) ==
    /\ IF retryAfter # 0 THEN timeLeft' = retryAfter /\ UNCHANGED attempt
       ELSE incrementExponentialBackoff
    /\ lastFailedConfigHash' = NoHash

handleGenericClientError ==
    /\ incrementExponentialBackoff
    /\ lastFailedConfigHash' = config

(* Mutant: any failure is remembered as the configuration's. *)
RememberAnyFailure == handleGenericClientError

RegisterOtherFailure == incrementExponentialBackoff /\ UNCHANGED lastFailedConfigHash

(* Update, and RegisterUpdateFailure's cases. *)
Update ==
    /\ held # config /\ CanUpdate(config)
    /\ \/ ~down /\ config \notin Faulty /\ RegisterUpdateSuccess
       \/ down /\ (\E r \in RetryAfters : handleTooManyRequests(r)) /\ UNCHANGED held
       \/ ~down /\ config \in Faulty /\ handleGenericClientError /\ UNCHANGED held
       \/ down /\ RegisterOtherFailure /\ UNCHANGED held
    /\ UNCHANGED <<config, down, events>>

Tick == timeLeft > 0 /\ timeLeft' = timeLeft - 1
        /\ UNCHANGED <<config, held, down, events, attempt, lastFailedConfigHash>>

(* The environment: the users, and Konnect's outages. *)
ChangeConfig ==
    /\ events < MaxEvents /\ events' = events + 1
    /\ config' \in Hashes \ {config}
    /\ UNCHANGED <<held, down, backoffVars>>

Outage ==
    /\ events < MaxEvents /\ events' = events + 1
    /\ ~down /\ down' = TRUE
    /\ UNCHANGED <<config, held, backoffVars>>

Recovery == down /\ down' = FALSE /\ UNCHANGED <<config, held, events, backoffVars>>

Next == Update \/ Tick \/ ChangeConfig \/ Outage \/ Recovery

Spec == Init /\ [][Next]_vars

(* The update loop and the clock go on, and outages end. *)
Fairness == WF_vars(Update \/ Tick) /\ WF_vars(Recovery)

-----------------------------------------------------------------------------
(* Properties. *)

(* Once the users and the outages stop, Konnect ends up with the           *)
(* configuration unless it refuses it (backoff_strategy_konnect.go,        *)
(* CanUpdate): what was remembered of earlier failures does not keep a     *)
(* good configuration from it.                                             *)
EventuallyHeld == <>[](config \in Faulty \/ held = config)

(* ... and the pushes stop: a configuration Konnect refuses is not pushed  *)
(* at it for ever (backoff_strategy_konnect.go, handleGenericClientError). *)
(* Every push that fails sets a new time for the next one.                 *)
PushesStop == <>[][timeLeft' < timeLeft]_timeLeft
=============================================================================
