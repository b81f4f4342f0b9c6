--------------------------- MODULE CircuitBreaker ---------------------------
(***************************************************************************)
(* What the router promises about one circuit per route key, with no       *)
(* clock, no success average and no map of health records:                 *)
(*                                                                         *)
(*  - a key that failed Threshold times in a row is closed to automatic    *)
(*    traffic for Window units of time after the latest failure;           *)
(*  - one success clears everything;                                       *)
(*  - nothing else opens a circuit, and only a success, the passing of     *)
(*    time or a new process closes one.                                    *)
(*                                                                         *)
(* RouteHealth, the translation of Engine.Observe and Engine.circuitOpen,  *)
(* implements this specification (module ObservedHealth checks it, module  *)
(* RouteHealthProofs proves it).                                           *)
(***************************************************************************)
EXTENDS Naturals

CONSTANTS Keys,       \* route keys whose responses are observed
          Threshold,  \* failures in a row that open a circuit
          Window      \* how long a circuit stays open after a failure

VARIABLES streak,     \* failures in a row, counted up to Threshold
          cooldown    \* time left until the circuit lets traffic through

breakerVars == <<streak, cooldown>>

Open(k) == cooldown[k] > 0

BreakerInit ==
    /\ streak = [k \in Keys |-> 0]
    /\ cooldown = [k \in Keys |-> 0]

(* One more failure of k: the one that completes a streak, and every one   *)
(* after it, starts the window anew.                                       *)
Fail(k) ==
    LET next == IF streak[k] < Threshold THEN streak[k] + 1 ELSE Threshold IN
    /\ streak' = [streak EXCEPT ![k] = next]
    /\ cooldown' = [cooldown EXCEPT ![k] = IF next = Threshold THEN Window ELSE @]

Succeed(k) ==
    /\ streak' = [streak EXCEPT ![k] = 0]
    /\ cooldown' = [cooldown EXCEPT ![k] = 0]

Elapse ==
    /\ cooldown' = [k \in Keys |-> IF cooldown[k] > 0 THEN cooldown[k] - 1 ELSE 0]
    /\ UNCHANGED streak

NewProcess ==
    /\ streak' = [k \in Keys |-> 0]
    /\ cooldown' = [k \in Keys |-> 0]

BreakerNext ==
    \/ \E k \in Keys : Fail(k) \/ Succeed(k)
    \/ Elapse
    \/ NewProcess

BreakerSpec == BreakerInit /\ [][BreakerNext]_breakerVars
=============================================================================
