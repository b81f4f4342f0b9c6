-------------------------- MODULE RouteHealthProofs --------------------------
(***************************************************************************)
(* Proofs about RouteHealth for every set of keys, every threshold and     *)
(* window, and behaviours of any length; and that a circuit means what an  *)
(* observer of the responses, who is in ObservedHealth, would say.         *)
(***************************************************************************)
EXTENDS ObservedHealth, TLAPS

(* The moving average stays between 0 and 1.                               *)
LEMMA AverageType ==
    ASSUME NEW e \in 0..Scale
    PROVE  Average(e, Scale) \in 0..Scale /\ Average(e, 0) \in 0..Scale
BY HealthConstants DEF Average

(* A failure always leaves the average below 1 and, when it was positive,  *)
(* above 0.                                                                *)
LEMMA AverageAfterFailure ==
    ASSUME NEW e \in 1..Scale
    PROVE  Average(e, 0) \in 1..(Scale - 1)
BY HealthConstants DEF Average

LEMMA AverageAfterSuccess ==
    ASSUME NEW e \in 1..Scale
    PROVE  Average(e, Scale) \in 1..Scale
BY HealthConstants DEF Average

(* Writing one record leaves the others alone and the map well formed.     *)
LEMMA StoreType ==
    ASSUME HealthTypeOK, NEW k \in Keys, NEW state \in HealthState,
           health' = Store(k, state), now' \in Nat
    PROVE  HealthTypeOK'
BY DEF Store, HealthTypeOK

LEMMA StateOfType ==
    ASSUME HealthTypeOK, NEW k \in Keys
    PROVE  StateOf(k) \in HealthState
BY HealthConstants DEF HealthTypeOK, StateOf, NewHealthState, HealthState, Never

LEMMA AfterType ==
    ASSUME NEW state \in HealthState, NEW deadline \in Nat
    PROVE  AfterSuccess(state) \in HealthState /\ AfterFailure(state, deadline) \in HealthState
BY AverageType DEF AfterSuccess, AfterFailure, Succeeded, Failed, HealthState, Never

(* No operation leaves an ill-formed record behind.                        *)
LEMMA HealthTypeStep == HealthTypeOK /\ [HealthNext]_healthVars => HealthTypeOK'
<1> SUFFICES ASSUME HealthTypeOK, [HealthNext]_healthVars
             PROVE  HealthTypeOK'
  OBVIOUS
<1>1. ASSUME NEW k \in Keys, NEW status \in Statuses, Observe(k, status)
      PROVE  HealthTypeOK'
  <2> /\ now + Window \in Nat
      /\ now' \in Nat
      /\ StateOf(k) \in HealthState
    BY <1>1, HealthConstants, StateOfType DEF HealthTypeOK, Observe
  <2>1. CASE health' = Store(k, AfterSuccess(StateOf(k)))
    BY <2>1, AfterType, StoreType
  <2>2. CASE health' = Store(k, AfterFailure(StateOf(k), now + Window))
    BY <2>2, AfterType, StoreType
  <2>3. CASE UNCHANGED health
    BY <2>3 DEF HealthTypeOK
  <2> QED
    BY <1>1, <2>1, <2>2, <2>3 DEF Observe
<1>2. CASE Tick
  BY <1>2 DEF Tick, HealthTypeOK
<1>3. CASE Restart
  BY <1>3 DEF Restart, HealthTypeOK
<1>4. CASE UNCHANGED healthVars
  BY <1>4 DEF healthVars, HealthTypeOK
<1> QED
  BY <1>1, <1>2, <1>3, <1>4 DEF HealthNext

(* Every record is well formed and belongs to a key that was observed.     *)
THEOREM HealthTypeCorrect == HealthSpec => []HealthTypeOK
<1>1. HealthInit => HealthTypeOK
  BY DEF HealthInit, HealthTypeOK
<1> QED
  BY <1>1, HealthTypeStep, PTL DEF HealthSpec

-----------------------------------------------------------------------------
(* The inductive invariant, record by record.                              *)
RecordInv(state, time) ==
    /\ state.ewma \in 1..Scale
    /\ state.failures > 0 => state.ewma < Scale
    /\ state.openUntil <= time + Window
    /\ state.openUntil # Never <=> state.failures >= Threshold

HealthInv == \A k \in DOMAIN health : RecordInv(health[k], now)

LEMMA NewRecordInv ==
    ASSUME NEW time \in Nat
    PROVE  RecordInv(NewHealthState, time)
BY HealthConstants DEF RecordInv, NewHealthState, Never

LEMMA StateOfInv ==
    ASSUME HealthTypeOK, HealthInv, NEW k \in Keys
    PROVE  RecordInv(StateOf(k), now)
BY NewRecordInv DEF HealthTypeOK, HealthInv, StateOf

LEMMA SuccessKeepsRecordInv ==
    ASSUME NEW state \in HealthState, NEW time \in Nat, RecordInv(state, time)
    PROVE  RecordInv(AfterSuccess(state), time)
<1>1. Average(state.ewma, Scale) \in 1..Scale
  BY AverageAfterSuccess DEF RecordInv
<1> QED
  BY <1>1, HealthConstants DEF RecordInv, AfterSuccess, Succeeded, Never

LEMMA FailureKeepsRecordInv ==
    ASSUME NEW state \in HealthState, NEW time \in Nat, RecordInv(state, time)
    PROVE  RecordInv(AfterFailure(state, time + Window), time)
<1>1. Average(state.ewma, 0) \in 1..(Scale - 1)
  BY AverageAfterFailure DEF RecordInv
<1> QED
  BY <1>1, HealthConstants DEF RecordInv, AfterFailure, Failed, Never, HealthState

LEMMA TimeKeepsRecordInv ==
    ASSUME NEW state \in HealthState, NEW time \in Nat, RecordInv(state, time)
    PROVE  RecordInv(state, time + 1)
BY HealthConstants DEF RecordInv, HealthState

LEMMA StoreKeepsHealthInv ==
    ASSUME HealthTypeOK, HealthInv, UNCHANGED now,
           NEW k \in Keys, NEW state \in HealthState, RecordInv(state, now),
           health' = Store(k, state)
    PROVE  HealthInv'
BY DEF HealthInv, Store, HealthTypeOK

LEMMA HealthInvStep == HealthTypeOK /\ HealthInv /\ [HealthNext]_healthVars => HealthInv'
<1> SUFFICES ASSUME HealthTypeOK, HealthInv, [HealthNext]_healthVars
             PROVE  HealthInv'
  OBVIOUS
<1>0. now \in Nat /\ now + Window \in Nat
  BY HealthConstants DEF HealthTypeOK
<1>1. ASSUME NEW k \in Keys, NEW status \in Statuses, Observe(k, status)
      PROVE  HealthInv'
  <2>0. /\ UNCHANGED now
        /\ StateOf(k) \in HealthState
        /\ RecordInv(StateOf(k), now)
    BY <1>1, StateOfType, StateOfInv DEF Observe
  <2>1. CASE health' = Store(k, AfterSuccess(StateOf(k)))
    <3>1. RecordInv(AfterSuccess(StateOf(k)), now) /\ AfterSuccess(StateOf(k)) \in HealthState
      BY <1>0, <2>0, SuccessKeepsRecordInv, AfterType
    <3> QED
      BY <2>0, <2>1, <3>1, StoreKeepsHealthInv
  <2>2. CASE health' = Store(k, AfterFailure(StateOf(k), now + Window))
    <3>1. /\ RecordInv(AfterFailure(StateOf(k), now + Window), now)
          /\ AfterFailure(StateOf(k), now + Window) \in HealthState
      BY <1>0, <2>0, FailureKeepsRecordInv, AfterType
    <3> QED
      BY <2>0, <2>2, <3>1, StoreKeepsHealthInv
  <2>3. CASE UNCHANGED health
    BY <2>0, <2>3 DEF HealthInv
  <2> QED
    BY <1>1, <2>1, <2>2, <2>3 DEF Observe
<1>2. CASE Tick
  <2>1. ASSUME NEW k \in DOMAIN health
        PROVE  RecordInv(health[k], now + 1)
    BY <1>0, <2>1, TimeKeepsRecordInv DEF HealthTypeOK, HealthInv
  <2> QED
    BY <1>2, <2>1 DEF Tick, HealthInv
<1>3. CASE Restart
  BY <1>3 DEF Restart, HealthInv
<1>4. CASE UNCHANGED healthVars
  BY <1>4 DEF healthVars, HealthInv
<1> QED
  BY <1>1, <1>2, <1>3, <1>4 DEF HealthNext

THEOREM HealthInvCorrect == HealthSpec => []HealthInv
<1>1. HealthInit => HealthInv
  BY DEF HealthInit, HealthInv
<1> QED
  BY <1>1, HealthInvStep, HealthTypeCorrect, PTL DEF HealthSpec

(* A circuit is open only because of a streak, and never for longer than   *)
(* one window from now.                                                    *)
THEOREM DeadlineMatchesStreakCorrect == HealthSpec => []DeadlineMatchesStreak
<1>1. HealthInv => DeadlineMatchesStreak
  BY DEF HealthInv, RecordInv, DeadlineMatchesStreak
<1> QED
  BY <1>1, HealthInvCorrect, PTL

(* A failing key never scores as a healthy one: its average lies strictly  *)
(* between 0 and 1, so neither the clamp nor the guard for averages of 0   *)
(* answers 1 for it.                                                       *)
THEOREM FailingKeyLosesWeightCorrect == HealthSpec => []FailingKeyLosesWeight
<1>1. HealthInv => FailingKeyLosesWeight
  <2> SUFFICES ASSUME HealthInv, NEW k \in DOMAIN health, health[k].failures > 0
               PROVE  HealthFactor(k) < Scale
    BY DEF FailingKeyLosesWeight
  <2>1. StateOf(k).ewma \in 1..Scale /\ StateOf(k).ewma < Scale
    BY DEF HealthInv, RecordInv, StateOf
  <2> QED
    BY <2>1, HealthConstants DEF HealthFactor
<1> QED
  BY <1>1, HealthInvCorrect, PTL

-----------------------------------------------------------------------------
(* RouteHealth implements CircuitBreaker: one lemma per kind of step, each *)
(* read through the refinement mapping of module RouteHealth.              *)
LEMMA StateAfterStore ==
    ASSUME NEW k, NEW state, health' = Store(k, state)
    PROVE  /\ StateOf(k)' = state
           /\ \A x : x # k => StateOf(x)' = StateOf(x)
BY DEF Store, StateOf

LEMMA SuccessImplementsSucceed ==
    ASSUME HealthTypeOK, UNCHANGED now, NEW k \in Keys,
           health' = Store(k, AfterSuccess(StateOf(k)))
    PROVE  Breaker!Succeed(k)
<1>1. /\ StateOf(k)' = AfterSuccess(StateOf(k))
      /\ \A x : x # k => StateOf(x)' = StateOf(x)
  BY StateAfterStore
<1>2. Capped(AfterSuccess(StateOf(k)).failures) = 0
  BY HealthConstants DEF Capped, AfterSuccess, Succeeded
<1>3. AfterSuccess(StateOf(k)).openUntil = Never /\ ~(now' < Never)
  BY HealthConstants DEF AfterSuccess, Succeeded, Never, HealthTypeOK
<1>4. Capped(StateOf(k).failures)' = 0 /\ TimeLeft(StateOf(k).openUntil)' = 0
  BY <1>1, <1>2, <1>3 DEF Capped, TimeLeft
<1>5. \A x \in Keys : x # k =>
         /\ Capped(StateOf(x).failures)' = Capped(StateOf(x).failures)
         /\ TimeLeft(StateOf(x).openUntil)' = TimeLeft(StateOf(x).openUntil)
  BY <1>1 DEF Capped, TimeLeft
<1> QED
  BY <1>4, <1>5 DEF Breaker!Succeed

LEMMA FailureImplementsFail ==
    ASSUME HealthTypeOK, UNCHANGED now, NEW k \in Keys,
           health' = Store(k, AfterFailure(StateOf(k), now + Window))
    PROVE  Breaker!Fail(k)
<1> DEFINE old == StateOf(k)
           new == AfterFailure(old, now + Window)
<1>1. /\ StateOf(k)' = new
      /\ \A x : x # k => StateOf(x)' = StateOf(x)
  BY StateAfterStore
<1>2. old \in HealthState /\ now \in Nat
  BY StateOfType DEF HealthTypeOK
<1>3. new.failures = old.failures + 1
  BY DEF AfterFailure, Failed
<1>4. new.openUntil = IF old.failures + 1 >= Threshold THEN now + Window ELSE old.openUntil
  BY DEF AfterFailure, Failed
<1> HIDE DEF old, new
<1>5. Capped(new.failures) = IF Capped(old.failures) < Threshold
                             THEN Capped(old.failures) + 1 ELSE Threshold
  BY <1>2, <1>3, HealthConstants DEF Capped, HealthState
<1>6. Capped(new.failures) = Threshold <=> old.failures + 1 >= Threshold
  BY <1>2, <1>3, HealthConstants DEF Capped, HealthState
<1>7. TimeLeft(new.openUntil) = IF Capped(new.failures) = Threshold
                                THEN Window ELSE TimeLeft(old.openUntil)
  BY <1>2, <1>4, <1>6, HealthConstants DEF TimeLeft
<1>8. /\ Capped(StateOf(k).failures)' = Capped(new.failures)
      /\ TimeLeft(StateOf(k).openUntil)' = TimeLeft(new.openUntil)
  BY <1>1 DEF Capped, TimeLeft
<1>9. \A x \in Keys : x # k =>
         /\ Capped(StateOf(x).failures)' = Capped(StateOf(x).failures)
         /\ TimeLeft(StateOf(x).openUntil)' = TimeLeft(StateOf(x).openUntil)
  BY <1>1 DEF Capped, TimeLeft
<1> QED
  BY <1>5, <1>7, <1>8, <1>9 DEF Breaker!Fail, old

LEMMA TickImplementsElapse ==
    ASSUME HealthTypeOK, Tick
    PROVE  Breaker!Elapse
<1>1. ASSUME NEW x \in Keys
      PROVE  /\ Capped(StateOf(x).failures)' = Capped(StateOf(x).failures)
             /\ TimeLeft(StateOf(x).openUntil)'
                  = IF TimeLeft(StateOf(x).openUntil) > 0
                    THEN TimeLeft(StateOf(x).openUntil) - 1 ELSE 0
  <2>1. StateOf(x)' = StateOf(x) /\ StateOf(x) \in HealthState /\ now' = now + 1 /\ now \in Nat
    BY StateOfType DEF Tick, StateOf, HealthTypeOK
  <2>2. StateOf(x).openUntil \in Nat
    BY <2>1 DEF HealthState
  <2> QED
    BY <2>1, <2>2 DEF Capped, TimeLeft
<1> QED
  BY <1>1 DEF Breaker!Elapse

LEMMA RestartImplementsNewProcess ==
    ASSUME HealthTypeOK, Restart
    PROVE  Breaker!NewProcess
<1>1. \A x : StateOf(x)' = NewHealthState
  BY DEF Restart, StateOf
<1>2. \A x \in Keys : Capped(StateOf(x).failures)' = 0 /\ TimeLeft(StateOf(x).openUntil)' = 0
  BY <1>1, HealthConstants DEF Capped, TimeLeft, NewHealthState, Never, Restart, HealthTypeOK
<1> QED
  BY <1>2 DEF Breaker!NewProcess

LEMMA StutterImplementsStutter ==
    ASSUME UNCHANGED healthVars
    PROVE  UNCHANGED Breaker!breakerVars
BY DEF healthVars, Breaker!breakerVars, Capped, TimeLeft, StateOf

(* For every threshold and window, the engine's records behave as the      *)
(* circuit breaker of CircuitBreaker.                                      *)
THEOREM HealthImplementsCircuitBreaker == HealthSpec => ImplementsCircuitBreaker
<1>1. HealthInit => Breaker!BreakerInit
  <2> SUFFICES ASSUME HealthInit PROVE Breaker!BreakerInit
    OBVIOUS
  <2>1. \A x : StateOf(x) = NewHealthState
    BY DEF HealthInit, StateOf
  <2>2. \A x : Capped(StateOf(x).failures) = 0 /\ TimeLeft(StateOf(x).openUntil) = 0
    BY <2>1, HealthConstants DEF Capped, TimeLeft, NewHealthState, Never, HealthInit
  <2> QED
    BY <2>2 DEF Breaker!BreakerInit
<1>2. HealthTypeOK /\ [HealthNext]_healthVars => [Breaker!BreakerNext]_(Breaker!breakerVars)
  <2> SUFFICES ASSUME HealthTypeOK, [HealthNext]_healthVars
               PROVE  [Breaker!BreakerNext]_(Breaker!breakerVars)
    OBVIOUS
  <2>1. ASSUME NEW k \in Keys, NEW status \in Statuses, Observe(k, status)
        PROVE  [Breaker!BreakerNext]_(Breaker!breakerVars)
    <3>1. CASE health' = Store(k, AfterSuccess(StateOf(k)))
      BY <2>1, <3>1, SuccessImplementsSucceed DEF Observe, Breaker!BreakerNext
    <3>2. CASE health' = Store(k, AfterFailure(StateOf(k), now + Window))
      BY <2>1, <3>2, FailureImplementsFail DEF Observe, Breaker!BreakerNext
    <3>3. CASE UNCHANGED health
      BY <2>1, <3>3, StutterImplementsStutter DEF Observe, healthVars
    <3> QED
      BY <2>1, <3>1, <3>2, <3>3 DEF Observe
  <2>2. CASE Tick
    BY <2>2, TickImplementsElapse DEF Breaker!BreakerNext
  <2>3. CASE Restart
    BY <2>3, RestartImplementsNewProcess DEF Breaker!BreakerNext
  <2>4. CASE UNCHANGED healthVars
    BY <2>4, StutterImplementsStutter
  <2> QED
    BY <2>1, <2>2, <2>3, <2>4 DEF HealthNext
<1> QED
  BY <1>1, <1>2, HealthTypeCorrect, PTL DEF HealthSpec, ImplementsCircuitBreaker, Breaker!BreakerSpec

-----------------------------------------------------------------------------
(* What the observer adds does not restrict what the engine does, so what  *)
(* is proved of RouteHealth holds here.                                    *)
LEMMA ObservedStepIsHealthStep == [ObservedNext]_observedVars => [HealthNext]_healthVars
BY DEF ObservedNext, observedVars, HealthNext, healthVars,
       ObserveResponse, ObservedTick, ObservedRestart

LEMMA ObservedSpecIsHealthSpec == ObservedSpec => HealthSpec
<1>1. ObservedInit => HealthInit
  BY DEF ObservedInit
<1> QED
  BY <1>1, ObservedStepIsHealthStep, PTL DEF ObservedSpec, HealthSpec

-----------------------------------------------------------------------------
(* What the observer remembers ends in as many failures as the engine's    *)
(* counter says, and what precedes them, if remembered, is a success.      *)
EndsInFailures(outcomes, n) ==
    /\ outcomes \in Seq({"success", "failure"})
    /\ Len(outcomes) <= Threshold
    /\ n >= Threshold =>
          /\ Len(outcomes) = Threshold
          /\ \A i \in 1..Threshold : outcomes[i] = "failure"
    /\ n < Threshold =>
          /\ n <= Len(outcomes)
          /\ \A i \in (Len(outcomes) - n + 1)..Len(outcomes) : outcomes[i] = "failure"
          /\ n < Len(outcomes) => outcomes[Len(outcomes) - n] = "success"

StreakInv ==
    /\ DOMAIN recent = Keys
    /\ DOMAIN lastFailure = Keys
    /\ \A k \in Keys :
          /\ EndsInFailures(recent[k], StateOf(k).failures)
          /\ lastFailure[k] \in Nat
          /\ StateOf(k).openUntil # Never => StateOf(k).openUntil = lastFailure[k] + Window

LEMMA RememberOutcome ==
    ASSUME NEW outcomes \in Seq({"success", "failure"}), Len(outcomes) <= Threshold,
           NEW o \in {"success", "failure"}
    PROVE  LET kept == Remember(outcomes, o)
               shift == IF Len(outcomes) = Threshold THEN 1 ELSE 0
           IN /\ kept \in Seq({"success", "failure"})
              /\ Len(kept) = Len(outcomes) + 1 - shift
              /\ kept[Len(kept)] = o
              /\ \A i \in 1..(Len(kept) - 1) : kept[i] = outcomes[i + shift]
<1> DEFINE all == Append(outcomes, o)
<1>1. /\ all \in Seq({"success", "failure"})
      /\ Len(all) = Len(outcomes) + 1
      /\ all[Len(all)] = o
      /\ \A i \in 1..Len(outcomes) : all[i] = outcomes[i]
  OBVIOUS
<1>2. /\ Tail(all) \in Seq({"success", "failure"})
      /\ Len(Tail(all)) = Len(all) - 1
      /\ \A i \in 1..(Len(all) - 1) : Tail(all)[i] = all[i + 1]
  BY <1>1
<1> HIDE DEF all
<1>3. CASE Len(outcomes) = Threshold
  <2>1. Remember(outcomes, o) = Tail(all)
    BY <1>1, <1>3, HealthConstants DEF Remember, all
  <2> QED
    BY <2>1, <1>1, <1>2, <1>3, HealthConstants
<1>4. CASE Len(outcomes) < Threshold
  <2>1. Remember(outcomes, o) = all
    BY <1>1, <1>4, HealthConstants DEF Remember, all
  <2> QED
    BY <2>1, <1>1, <1>4, HealthConstants
<1> QED
  BY <1>3, <1>4, HealthConstants

LEMMA SuccessEndsStreak ==
    ASSUME NEW outcomes, NEW n \in Nat, EndsInFailures(outcomes, n)
    PROVE  EndsInFailures(Remember(outcomes, "success"), 0)
BY RememberOutcome, HealthConstants DEF EndsInFailures

LEMMA FailureLengthensStreak ==
    ASSUME NEW outcomes, NEW n \in Nat, EndsInFailures(outcomes, n)
    PROVE  EndsInFailures(Remember(outcomes, "failure"), n + 1)
<1> DEFINE kept == Remember(outcomes, "failure")
           shift == IF Len(outcomes) = Threshold THEN 1 ELSE 0
<1>1. /\ kept \in Seq({"success", "failure"})
      /\ Len(kept) = Len(outcomes) + 1 - shift
      /\ kept[Len(kept)] = "failure"
      /\ \A i \in 1..(Len(kept) - 1) : kept[i] = outcomes[i + shift]
      /\ Len(outcomes) \in Nat /\ Len(outcomes) <= Threshold
  BY RememberOutcome DEF EndsInFailures
<1> HIDE DEF kept
<1>2. CASE n >= Threshold
  BY <1>1, <1>2, HealthConstants DEF EndsInFailures, kept
<1>3. ASSUME n < Threshold
      PROVE  /\ n + 1 <= Len(kept)
             /\ \A i \in (Len(kept) - n)..Len(kept) : kept[i] = "failure"
  <2>1. n <= Len(outcomes)
    BY <1>3 DEF EndsInFailures
  <2>2. n + 1 <= Len(kept)
    BY <1>1, <1>3, <2>1, HealthConstants
  <2>3. ASSUME NEW i \in (Len(kept) - n)..Len(kept), i # Len(kept)
        PROVE  kept[i] = "failure"
    <3>0. Len(kept) \in Nat
      BY <1>1
    <3>1. i \in 1..(Len(kept) - 1)
      BY <2>2, <2>3, <3>0
    <3>2. i + shift \in (Len(outcomes) - n + 1)..Len(outcomes)
      BY <1>1, <2>3, <3>1, HealthConstants
    <3>3. kept[i] = outcomes[i + shift]
      BY <1>1, <3>1
    <3> QED
      BY <1>3, <3>2, <3>3 DEF EndsInFailures
  <2> QED
    BY <1>1, <2>2, <2>3
<1>4. CASE n + 1 = Threshold
  <2>1. Len(kept) = Threshold
    BY <1>1, <1>3, <1>4, HealthConstants
  <2>2. \A i \in 1..Threshold : kept[i] = "failure"
    BY <1>3, <1>4, <2>1, HealthConstants
  <2> QED
    BY <1>1, <1>4, <2>1, <2>2, HealthConstants DEF EndsInFailures, kept
<1>5. CASE n + 1 < Threshold
  <2>1. Len(kept) <= Threshold
    BY <1>1, HealthConstants
  <2>2. ASSUME n + 1 < Len(kept)
        PROVE  kept[Len(kept) - (n + 1)] = "success"
    <3>1. n < Len(outcomes)
      BY <1>1, <2>2, HealthConstants
    <3>2. outcomes[Len(outcomes) - n] = "success"
      BY <1>5, <3>1, HealthConstants DEF EndsInFailures
    <3>3. Len(kept) - (n + 1) \in 1..(Len(kept) - 1)
      BY <1>1, <2>2, HealthConstants
    <3>4. Len(kept) - (n + 1) + shift = Len(outcomes) - n
      BY <1>1, HealthConstants
    <3>5. kept[Len(kept) - (n + 1)] = outcomes[Len(kept) - (n + 1) + shift]
      BY <1>1, <3>3
    <3> QED
      BY <3>2, <3>4, <3>5
  <2>3. \A i \in (Len(kept) - (n + 1) + 1)..Len(kept) : kept[i] = "failure"
    BY <1>1, <1>3, <1>5, HealthConstants
  <2> QED
    BY <1>1, <1>3, <1>5, <2>1, <2>2, <2>3, HealthConstants DEF EndsInFailures, kept
<1> QED
  BY <1>2, <1>4, <1>5, HealthConstants

-----------------------------------------------------------------------------
LEMMA StreakInvInit == ObservedInit => StreakInv
<1> SUFFICES ASSUME ObservedInit PROVE StreakInv
  OBVIOUS
<1>1. \A k : StateOf(k) = NewHealthState
  BY DEF ObservedInit, HealthInit, StateOf
<1>2. EndsInFailures(<<>>, 0)
  BY HealthConstants DEF EndsInFailures
<1> QED
  BY <1>1, <1>2 DEF ObservedInit, StreakInv, NewHealthState, Never

(* A response of k changes what is known of k only.                        *)
LEMMA ResponseChangesOneKey ==
    ASSUME StreakInv, NEW k \in Keys, NEW status \in Statuses, ObserveResponse(k, status)
    PROVE  /\ DOMAIN recent' = Keys
           /\ DOMAIN lastFailure' = Keys
           /\ \A x \in Keys : x # k =>
                 /\ recent'[x] = recent[x]
                 /\ lastFailure'[x] = lastFailure[x]
                 /\ StateOf(x)' = StateOf(x)
<1>1. \A x \in Keys : x # k => StateOf(x)' = StateOf(x)
  BY StateAfterStore DEF ObserveResponse, Observe, StateOf
<1> QED
  BY <1>1 DEF StreakInv, ObserveResponse

LEMMA StreakInvResponse ==
    ASSUME HealthTypeOK, HealthInv, StreakInv,
           NEW k \in Keys, NEW status \in Statuses, ObserveResponse(k, status)
    PROVE  StreakInv'
<1> DEFINE state == StateOf(k)
<1>1. state \in HealthState /\ now \in Nat /\ status \in Nat
  BY StateOfType, HealthConstants DEF HealthTypeOK
<1>2. EndsInFailures(recent[k], state.failures) /\ lastFailure[k] \in Nat
  BY DEF StreakInv
<1>3. CASE Success(status)
  <2>1. /\ StateOf(k)' = AfterSuccess(state)
        /\ recent'[k] = Remember(recent[k], "success")
        /\ lastFailure'[k] = lastFailure[k]
    BY <1>1, <1>3, StateAfterStore
       DEF ObserveResponse, Observe, CountsAs, Success, Failure, StreakInv
  <2>2. StateOf(k)'.failures = 0 /\ StateOf(k)'.openUntil = Never
    BY <2>1 DEF AfterSuccess, Succeeded
  <2>3. EndsInFailures(recent'[k], 0)
    BY <1>1, <1>2, <2>1, SuccessEndsStreak DEF HealthState
  <2> QED
    BY <1>2, <2>1, <2>2, <2>3, ResponseChangesOneKey DEF StreakInv
<1>4. CASE Failure(status)
  <2>1. /\ StateOf(k)' = AfterFailure(state, now + Window)
        /\ recent'[k] = Remember(recent[k], "failure")
        /\ lastFailure'[k] = now
    BY <1>1, <1>4, StateAfterStore
       DEF ObserveResponse, Observe, CountsAs, Success, Failure, StreakInv
  <2>2. StateOf(k)'.failures = state.failures + 1
    BY <2>1 DEF AfterFailure, Failed
  <2>3. EndsInFailures(recent'[k], state.failures + 1)
    BY <1>1, <1>2, <2>1, FailureLengthensStreak DEF HealthState
  <2>4. StateOf(k)'.openUntil # Never => StateOf(k)'.openUntil = now + Window
    <3>1. CASE state.failures + 1 >= Threshold
      BY <2>1, <3>1 DEF AfterFailure, Failed
    <3>2. CASE ~(state.failures + 1 >= Threshold)
      <4>1. state.openUntil = Never
        BY <1>1, <3>2, StateOfInv, HealthConstants DEF RecordInv, HealthState
      <4> QED
        BY <2>1, <3>2, <4>1 DEF AfterFailure, Failed
    <3> QED
      BY <3>1, <3>2
  <2> QED
    BY <1>1, <2>1, <2>2, <2>3, <2>4, ResponseChangesOneKey DEF StreakInv
<1>5. CASE ~Success(status) /\ ~Failure(status)
  BY <1>1, <1>5 DEF ObserveResponse, Observe, CountsAs, Success, Failure, StreakInv, StateOf
<1> QED
  BY <1>3, <1>4, <1>5

LEMMA StreakInvStep ==
    HealthTypeOK /\ HealthInv /\ StreakInv /\ [ObservedNext]_observedVars => StreakInv'
<1> SUFFICES ASSUME HealthTypeOK, HealthInv, StreakInv, [ObservedNext]_observedVars
             PROVE  StreakInv'
  OBVIOUS
<1>1. CASE \E k \in Keys, status \in Statuses : ObserveResponse(k, status)
  BY <1>1, StreakInvResponse
<1>2. CASE ObservedTick
  BY <1>2 DEF ObservedTick, Tick, StreakInv, StateOf
<1>3. CASE ObservedRestart
  <2>1. \A k : StateOf(k)' = NewHealthState
    BY <1>3 DEF ObservedRestart, Restart, StateOf
  <2>2. EndsInFailures(<<>>, 0)
    BY HealthConstants DEF EndsInFailures
  <2> QED
    BY <1>3, <2>1, <2>2 DEF ObservedRestart, StreakInv, NewHealthState, Never
<1>4. CASE UNCHANGED observedVars
  BY <1>4 DEF observedVars, StreakInv, StateOf
<1> QED
  BY <1>1, <1>2, <1>3, <1>4 DEF ObservedNext

(* For every threshold and window: a circuit is open exactly when the last *)
(* Threshold responses of its key failed, the latest less than Window ago. *)
THEOREM OpenExactlyAfterStreakCorrect == ObservedSpec => []OpenExactlyAfterStreak
<1>1. HealthTypeOK /\ HealthInv /\ StreakInv => OpenExactlyAfterStreak
  <2> SUFFICES ASSUME HealthTypeOK, HealthInv, StreakInv, NEW k \in Keys
               PROVE  CircuitOpen(k) <=>
                        /\ Len(recent[k]) = Threshold
                        /\ \A i \in DOMAIN recent[k] : recent[k][i] = "failure"
                        /\ now < lastFailure[k] + Window
    BY DEF OpenExactlyAfterStreak
  <2>1. /\ StateOf(k) \in HealthState
        /\ RecordInv(StateOf(k), now)
        /\ EndsInFailures(recent[k], StateOf(k).failures)
        /\ lastFailure[k] \in Nat
        /\ StateOf(k).openUntil # Never => StateOf(k).openUntil = lastFailure[k] + Window
    BY StateOfType, StateOfInv DEF StreakInv
  <2>2. CircuitOpen(k) <=> StateOf(k).openUntil # Never /\ now < StateOf(k).openUntil
    BY DEF CircuitOpen, StateOf, NewHealthState
  <2>3. CASE StateOf(k).failures >= Threshold
    BY <2>1, <2>2, <2>3 DEF RecordInv, EndsInFailures
  <2>4. CASE StateOf(k).failures < Threshold
    <3>1. ~CircuitOpen(k)
      BY <2>1, <2>2, <2>4, HealthConstants DEF RecordInv, HealthState
    <3>2. ASSUME Len(recent[k]) = Threshold
          PROVE  Threshold - StateOf(k).failures \in DOMAIN recent[k]
                 /\ recent[k][Threshold - StateOf(k).failures] = "success"
      BY <2>1, <2>4, <3>2, HealthConstants DEF EndsInFailures, HealthState
    <3> QED
      BY <3>1, <3>2
  <2> QED
    BY <2>1, <2>3, <2>4, HealthConstants DEF HealthState
<1>2. ObservedSpec => []HealthTypeOK /\ []HealthInv
  BY ObservedSpecIsHealthSpec, HealthTypeCorrect, HealthInvCorrect, PTL
<1>3. ObservedSpec => []StreakInv
  BY <1>2, StreakInvInit, StreakInvStep, PTL DEF ObservedSpec
<1> QED
  BY <1>1, <1>2, <1>3, PTL

-----------------------------------------------------------------------------
(* A success is the last thing remembered after it.                        *)
LEMMA RememberedLast ==
    ASSUME NEW outcomes \in Seq({"success", "failure"}), NEW o \in {"success", "failure"}
    PROVE  LET kept == Remember(outcomes, o)
           IN  Len(kept) >= 1 /\ kept[Len(kept)] = o
<1> DEFINE all == Append(outcomes, o)
<1>1. all \in Seq({"success", "failure"}) /\ Len(all) = Len(outcomes) + 1 /\ all[Len(all)] = o
  OBVIOUS
<1>2. Len(all) > Threshold => Len(all) >= 2
  BY <1>1, HealthConstants
<1> HIDE DEF all
<1>3. Len(all) >= 2 => Len(Tail(all)) = Len(all) - 1 /\ Tail(all)[Len(all) - 1] = all[Len(all)]
  BY <1>1
<1> QED
  BY <1>1, <1>2, <1>3 DEF Remember, all

ClosesJustly(k) ==
    CircuitOpen(k) =>
        \/ DOMAIN health' = {}
        \/ recent'[k] # recent[k] /\ recent'[k][Len(recent'[k])] = "success"
        \/ now' >= lastFailure[k] + Window
        \/ CircuitOpen(k)' /\ health'[k].openUntil >= health[k].openUntil

LEMMA OpenCircuitAfterResponse ==
    ASSUME HealthTypeOK, HealthInv, StreakInv, OpenExactlyAfterStreak, NEW k \in Keys, CircuitOpen(k),
           NEW x \in Keys, NEW status \in Statuses, ObserveResponse(x, status)
    PROVE  ClosesJustly(k)
<1>1. /\ k \in DOMAIN health /\ health[k] \in HealthState /\ RecordInv(health[k], now)
      /\ health[k].openUntil # Never /\ now < health[k].openUntil /\ now \in Nat
  BY DEF CircuitOpen, HealthTypeOK, HealthInv
<1>2. now' = now /\ status \in Nat
  BY HealthConstants DEF ObserveResponse, Observe
<1>3. CASE health'[k] = health[k] /\ k \in DOMAIN health'
  BY <1>1, <1>2, <1>3 DEF ClosesJustly, CircuitOpen, HealthState
<1>4. CASE ~Success(status) /\ ~Failure(status)
  BY <1>1, <1>3, <1>4 DEF ObserveResponse, Observe
<1>5. CASE x # k /\ (Success(status) \/ Failure(status))
  BY <1>1, <1>3, <1>5 DEF ObserveResponse, Observe, Store
<1>6. CASE x = k /\ Failure(status)
  <2>1. ~Success(status)
    BY <1>2, <1>6 DEF Success, Failure
  <2>2. health' = Store(k, AfterFailure(health[k], now + Window))
    BY <1>1, <1>6, <2>1 DEF ObserveResponse, Observe, StateOf
  <2>3. k \in DOMAIN health' /\ health'[k].openUntil = now + Window
    BY <1>1, <2>2, HealthConstants DEF Store, AfterFailure, Failed, RecordInv, HealthState
  <2>4. health[k].openUntil <= now + Window
    BY <1>1 DEF RecordInv
  <2> QED
    BY <1>1, <1>2, <2>3, <2>4, HealthConstants DEF ClosesJustly, CircuitOpen, Never
<1>7. CASE x = k /\ Success(status)
  <2>1. recent'[k] = Remember(recent[k], "success")
    BY <1>2, <1>7 DEF ObserveResponse, CountsAs, Success, StreakInv
  <2>2. recent[k] \in Seq({"success", "failure"})
    BY DEF StreakInv, EndsInFailures
  <2>3. Len(recent[k]) = Threshold /\ \A i \in DOMAIN recent[k] : recent[k][i] = "failure"
    BY DEF OpenExactlyAfterStreak
  <2>4. recent'[k][Len(recent'[k])] = "success"
    BY <2>1, <2>2, RememberedLast
  <2>5. recent[k][Len(recent[k])] = "failure"
    BY <2>2, <2>3, HealthConstants
  <2> QED
    BY <2>4, <2>5 DEF ClosesJustly
<1> QED
  BY <1>4, <1>5, <1>6, <1>7

(* For every threshold and window: only a success of its key, the end of   *)
(* its window or a new process closes an open circuit.                     *)
THEOREM OpenCircuitHoldsCorrect == ObservedSpec => OpenCircuitHolds
<1>1. ASSUME HealthTypeOK, HealthInv, StreakInv, OpenExactlyAfterStreak,
             [ObservedNext]_observedVars, NEW k \in Keys, CircuitOpen(k)
      PROVE  ClosesJustly(k)
  <2>1. /\ k \in DOMAIN health /\ health[k] \in HealthState
        /\ health[k].openUntil # Never /\ now < health[k].openUntil /\ now \in Nat
        /\ health[k].openUntil = lastFailure[k] + Window
    BY <1>1 DEF CircuitOpen, HealthTypeOK, StreakInv, StateOf
  <2>2. CASE \E x \in Keys, status \in Statuses : ObserveResponse(x, status)
    BY <1>1, <2>2, OpenCircuitAfterResponse
  <2>3. CASE ObservedTick
    <3>1. health' = health /\ now' = now + 1
      BY <2>3 DEF ObservedTick, Tick
    <3> QED
      BY <2>1, <3>1 DEF ClosesJustly, CircuitOpen, HealthState
  <2>4. CASE ObservedRestart
    BY <2>4 DEF ObservedRestart, Restart, ClosesJustly
  <2>5. CASE UNCHANGED observedVars
    BY <2>1, <2>5 DEF observedVars, ClosesJustly, CircuitOpen, HealthState
  <2> QED
    BY <1>1, <2>2, <2>3, <2>4, <2>5 DEF ObservedNext
<1>2. HealthTypeOK /\ HealthInv /\ StreakInv /\ OpenExactlyAfterStreak /\ [ObservedNext]_observedVars
        => [\A k \in Keys : CircuitOpen(k) =>
               \/ DOMAIN health' = {}
               \/ recent'[k] # recent[k] /\ recent'[k][Len(recent'[k])] = "success"
               \/ now' >= lastFailure[k] + Window
               \/ CircuitOpen(k)' /\ health'[k].openUntil >= health[k].openUntil]_observedVars
  BY <1>1 DEF ClosesJustly
<1>3. ObservedSpec => []HealthTypeOK /\ []HealthInv
  BY ObservedSpecIsHealthSpec, HealthTypeCorrect, HealthInvCorrect, PTL
<1>4. ObservedSpec => []StreakInv
  BY <1>3, StreakInvInit, StreakInvStep, PTL DEF ObservedSpec
<1> QED
  BY <1>2, <1>3, <1>4, OpenExactlyAfterStreakCorrect, PTL DEF ObservedSpec, OpenCircuitHolds
=============================================================================
