--------------------------- MODULE ObservedHealth ---------------------------
(***************************************************************************)
(* RouteHealth beside what an outside observer saw: the outcomes of the    *)
(* latest responses of each key and the time of its latest failure.  The   *)
(* code keeps neither; they say what its counters and deadlines mean.      *)
(***************************************************************************)
EXTENDS RouteHealth, Sequences

VARIABLES
    recent,       \* per key, the latest outcomes since the process started
    lastFailure   \* per key, when the latest failure was observed

observedVars == <<health, now, recent, lastFailure>>

(* The last Threshold outcomes at most: older ones cannot matter.          *)
Remember(outcomes, outcome) ==
    LET all == Append(outcomes, outcome) IN
    IF Len(all) > Threshold THEN Tail(all) ELSE all

ObservedInit ==
    /\ HealthInit
    /\ recent = [k \in Keys |-> <<>>]
    /\ lastFailure = [k \in Keys |-> 0]

(* How a response counts: other statuses, 4xx above all, say nothing about *)
(* the route.                                                              *)
CountsAs(status) ==
    IF status \in 200..399 THEN "success"
    ELSE IF status = 429 \/ status >= 500 THEN "failure"
    ELSE "neither"

ObserveResponse(k, status) ==
    /\ Observe(k, status)
    /\ recent' = IF CountsAs(status) = "neither" THEN recent
                 ELSE [recent EXCEPT ![k] = Remember(@, CountsAs(status))]
    /\ lastFailure' = IF CountsAs(status) = "failure"
                      THEN [lastFailure EXCEPT ![k] = now] ELSE lastFailure

ObservedTick == Tick /\ UNCHANGED <<recent, lastFailure>>

ObservedRestart ==
    /\ Restart
    /\ recent' = [k \in Keys |-> <<>>]
    /\ lastFailure' = [k \in Keys |-> 0]

ObservedNext ==
    \/ \E k \in Keys, status \in Statuses : ObserveResponse(k, status)
    \/ ObservedTick
    \/ ObservedRestart

ObservedSpec == ObservedInit /\ [][ObservedNext]_observedVars /\ WF_observedVars(ObservedTick)

-----------------------------------------------------------------------------
(* The circuit of a key is open exactly when its last Threshold responses  *)
(* all failed and the latest of them is less than Window ago.              *)
OpenExactlyAfterStreak ==
    \A k \in Keys :
        CircuitOpen(k) <=>
            /\ Len(recent[k]) = Threshold
            /\ \A i \in DOMAIN recent[k] : recent[k][i] = "failure"
            /\ now < lastFailure[k] + Window

(* A circuit that is open closes only because a success of that very key   *)
(* was observed, because its window has passed since the latest failure,   *)
(* or because the process restarted; a failure never moves a deadline      *)
(* back.                                                                   *)
OpenCircuitHolds ==
    [][\A k \in Keys : CircuitOpen(k) =>
          \/ DOMAIN health' = {}
          \/ recent'[k] # recent[k] /\ recent'[k][Len(recent'[k])] = "success"
          \/ now' >= lastFailure[k] + Window
          \/ CircuitOpen(k)' /\ health'[k].openUntil >= health[k].openUntil]_observedVars

(* An open circuit never stays open by itself: if the failures of a key    *)
(* stop, its circuit is closed again and again, without any success to     *)
(* close it.                                                               *)
QuietCircuitCloses ==
    \A k \in Keys :
        (<>[][\A s \in Statuses : ObserveResponse(k, s) => ~Failure(s)]_observedVars)
            => []<>~CircuitOpen(k)

=============================================================================
