----------------------------- MODULE RouteHealth -----------------------------
(***************************************************************************)
(* Engine.health of internal/autoroute: the in-memory record of how the    *)
(* responses of each route key went, the circuit it opens and the factor   *)
(* it contributes to a score.  Observe runs under the engine's write lock, *)
(* circuitOpen and healthFactor each under its read lock, so every one of  *)
(* them is atomic; a caller that uses two of them is not.                  *)
(***************************************************************************)
EXTENDS Integers

CONSTANTS
    Keys,         \* names Observe may be called with
    Statuses,     \* HTTP statuses a response may carry (0: no response at all)
    Threshold,    \* failures in a row that open a circuit (3 in the code)
    Window,       \* time a circuit stays open (30 seconds in the code)
    Scale,        \* SuccessEWMA is a fixed-point number, in units of 1/Scale
    MaxTime,      \* bound of a run: the clock stops here
    MaxFailures   \* bound of a run: the failure counter stops here

ASSUME HealthConstants ==
    /\ Statuses \subseteq Nat
    /\ Threshold \in Nat \ {0}
    /\ Window \in Nat \ {0}
    /\ Scale \in Nat /\ Scale >= 3
    /\ MaxTime \in Nat
    /\ MaxFailures \in Nat

VARIABLES
    health,       \* the map: route key -> healthState, for observed keys only
    now           \* the engine's clock

healthVars == <<health, now>>

-----------------------------------------------------------------------------
(* The record Observe creates for a key it sees for the first time.  The   *)
(* zero time.Time is 0: no clock reading is before it.                     *)
Never == 0

NewHealthState == [ewma |-> Scale, failures |-> 0, openUntil |-> Never]

HealthState == [ewma : 0..Scale, failures : Nat, openUntil : Nat]

StateOf(k) == IF k \in DOMAIN health THEN health[k] ELSE NewHealthState

Store(k, state) ==
    [x \in DOMAIN health \cup {k} |-> IF x = k THEN state ELSE health[x]]

AverageWithoutDecay(ewma, gain) == ewma + gain \div 5

(* 0.80 * SuccessEWMA + gain, rounded to the nearest representable number  *)
(* as binary floating point does.                                          *)
Average(ewma, gain) == (4 * ewma + gain + 2) \div 5

-----------------------------------------------------------------------------
Failure(status) == status = 429 \/ status >= 500

Success(status) == 200 <= status /\ status < 400

Succeeded(state) == [ewma |-> Average(state.ewma, Scale), failures |-> 0, openUntil |-> Never]

SucceededKeepingDeadline(state) == [Succeeded(state) EXCEPT !.openUntil = state.openUntil]

SucceededKeepingStreak(state) == [Succeeded(state) EXCEPT !.failures = state.failures]

(* What a success leaves of the record.                                    *)
AfterSuccess(state) == Succeeded(state)

Failed(state, deadline) ==
    [ewma |-> Average(state.ewma, 0),
     failures |-> state.failures + 1,
     openUntil |-> IF state.failures + 1 >= Threshold THEN deadline ELSE state.openUntil]

FailedOpeningAtExactCount(state, deadline) ==
    [Failed(state, deadline) EXCEPT
        !.openUntil = IF state.failures + 1 = Threshold THEN deadline ELSE state.openUntil]

FailedWithoutAverage(state, deadline) == [Failed(state, deadline) EXCEPT !.ewma = state.ewma]

FailedOneLate(state, deadline) ==
    [Failed(state, deadline) EXCEPT
        !.openUntil = IF state.failures >= Threshold THEN deadline ELSE state.openUntil]

(* What a failure leaves of it.                                            *)
AfterFailure(state, deadline) == Failed(state, deadline)

(* Engine.Observe: a response with this status came back for key k.  The   *)
(* bounds of a run are the last conjuncts of the failure case: no failure  *)
(* is observed that could hold a circuit open past MaxTime.                *)
Observe(k, status) ==
    /\ \/ /\ Success(status)
          /\ health' = Store(k, AfterSuccess(StateOf(k)))
       \/ /\ Failure(status)
          /\ StateOf(k).failures < MaxFailures
          /\ now + Window <= MaxTime
          /\ health' = Store(k, AfterFailure(StateOf(k), now + Window))
       \/ /\ ~Success(status) /\ ~Failure(status)
          /\ UNCHANGED health
    /\ UNCHANGED now

CircuitOpenForGood(k) == k \in DOMAIN health /\ health[k].openUntil # Never

(* Engine.circuitOpen.                                                     *)
CircuitOpen(k) ==
    /\ k \in DOMAIN health
    /\ health[k].openUntil # Never
    /\ now < health[k].openUntil

(* Engine.healthFactor: the average, clamped to [0.05, 1].                 *)
HealthFactor(k) ==
    LET ewma == StateOf(k).ewma IN
    IF ewma <= 0 THEN Scale
    ELSE IF ewma < Scale \div 20 THEN Scale \div 20
    ELSE ewma

Tick ==
    /\ now < MaxTime
    /\ now' = now + 1
    /\ UNCHANGED health

(* The process restarts (or the plugin is initialised again): autoroute.New *)
(* starts with an empty map.                                               *)
Restart ==
    /\ health' = [k \in {} |-> NewHealthState]
    /\ UNCHANGED now

-----------------------------------------------------------------------------
HealthInit ==
    /\ health = [k \in {} |-> NewHealthState]
    /\ now = 0

HealthNext ==
    \/ \E k \in Keys, status \in Statuses : Observe(k, status)
    \/ Tick
    \/ Restart

HealthSpec == HealthInit /\ [][HealthNext]_healthVars

-----------------------------------------------------------------------------
(* Every record is well formed and belongs to a key that was observed.     *)
HealthTypeOK ==
    /\ DOMAIN health \subseteq Keys
    /\ health \in [DOMAIN health -> HealthState]
    /\ now \in Nat

(* A circuit is only ever open because of a streak: a record with fewer    *)
(* than Threshold failures in a row carries no deadline, not even an       *)
(* expired one, so that the first failure after a recovery cannot find a   *)
(* circuit half open.  And no deadline is further away than one window:    *)
(* repeated failures extend an open circuit but never accumulate.          *)
DeadlineMatchesStreak ==
    \A k \in DOMAIN health :
        /\ health[k].openUntil <= now + Window
        /\ health[k].openUntil # Never <=> health[k].failures >= Threshold

(* A key whose latest response was a failure never scores as if it were    *)
(* perfectly healthy, however long it has been failing: the branch of      *)
(* healthFactor that answers 1 for an average of 0 or less is not reached  *)
(* by decay.                                                               *)
FailingKeyLosesWeight ==
    \A k \in DOMAIN health : health[k].failures > 0 => HealthFactor(k) < Scale

-----------------------------------------------------------------------------
(* The mapping under which RouteHealth implements CircuitBreaker.          *)
Capped(n) == IF n < Threshold THEN n ELSE Threshold

TimeLeft(deadline) == IF now < deadline THEN deadline - now ELSE 0

Breaker == INSTANCE CircuitBreaker WITH
    streak <- [k \in Keys |-> Capped(StateOf(k).failures)],
    cooldown <- [k \in Keys |-> TimeLeft(StateOf(k).openUntil)]

(* The engine's records, with their averages, absolute deadlines and       *)
(* missing entries, behave as the circuit breaker of CircuitBreaker does.  *)
ImplementsCircuitBreaker == Breaker!BreakerSpec
=============================================================================
