------------------------- MODULE DecisionAuditProofs -------------------------
(***************************************************************************)
(* Proofs about AutoRoute and DecisionAudit for every configuration, every *)
(* set of goroutines and every interleaving of their decisions with the    *)
(* health they read: first what the policy allows, then what a decision    *)
(* that is not atomic is still worth.                                      *)
(***************************************************************************)
EXTENDS DecisionAudit, RouteHealthProofs

(* The filter on the context window, which rounds down, and the policy,    *)
(* which multiplies out, agree on every estimate.                          *)
LEMMA FloorLemma ==
    ASSUME NEW t \in Nat, NEW p \in Nat
    PROVE  t <= p \div 100 <=> 100 * t <= p
OBVIOUS

LEMMA ProductType ==
    ASSUME NEW a \in Nat, NEW b \in Nat
    PROVE  a * b \in Nat
OBVIOUS

(* What the constants are, one by one.                                     *)
LEMMA RouteFields ==
    ASSUME NEW m \in Models
    PROVE  Route[m] \in RouteType
BY AutoRouteConstants

LEMMA ProfileFields ==
    ASSUME NEW profile \in DOMAIN Profiles
    PROVE  Profiles[profile] \in ProfileType
BY AutoRouteConstants

LEMMA MeritType == Merit \in [DOMAIN Profiles -> [Tasks -> [Models -> Nat]]]
BY AutoRouteConstants

LEMMA NamesObserved ==
    /\ \A m \in Models : m \in DOMAIN ObservedAs /\ ObservedAs[m] = m
    /\ \A name \in DOMAIN ObservedAs : ObservedAs[name] \in Keys
BY AutoRouteConstants

LEMMA NamesInOrder == ModelNames \in Seq(STRING) /\ DOMAIN ModelNames = 1..Len(ModelNames)
<1>1. ModelNames \in Seq(STRING)
  BY AutoRouteConstants
<1> QED
  BY <1>1

LEMMA QualityType ==
    ASSUME NEW m \in Models
    PROVE  Quality(m) \in Nat
<1>1. Route[m].quality \in Percent
  BY RouteFields DEF RouteType
<1> QED
  BY <1>1 DEF Quality, DefaultIfZero, Percent

LEMMA FitsMeansWithinContext ==
    ASSUME NEW body \in BodyType, NEW m \in Models
    PROVE  Fits(body, m) <=> 100 * body.tokens <= Route[m].maxContext * Route[m].contextPercent
<1> DEFINE window == Route[m].maxContext
           percent == Route[m].contextPercent
<1>1. body.tokens \in Nat /\ window \in Nat /\ percent \in 1..100
  BY RouteFields DEF BodyType, RouteType
<1>2. window * percent \in Nat
  BY <1>1, ProductType
<1>3. CASE percent < 100
  BY <1>1, <1>2, <1>3, FloorLemma DEF Fits, EffectiveContext
<1>4. CASE percent = 100
  BY <1>1, <1>4 DEF Fits, EffectiveContext
<1> QED
  BY <1>1, <1>3, <1>4

(* The filters, taken together, are the policy.                            *)
LEMMA FiltersAreThePolicy ==
    ASSUME NEW body \in BodyType, NEW profile \in DOMAIN Profiles, NEW m \in Models
    PROVE  /\ Considered(body, m) /\ Capable(body, m) /\ WithinPolicy(body, profile, m)
                => Allowed(body, profile, m)
           /\ Allowed(body, profile, m)
                => Considered(body, m) /\ Capable(body, m) /\ WithinPolicy(body, profile, m)
<1> DEFINE p == Profiles[profile]
<1>1. /\ Quality(m) \in Nat /\ Route[m].inputCost \in Nat /\ Route[m].outputCost \in Nat
      /\ p.minQuality \in Nat /\ p.maxInputCost \in Nat /\ p.maxOutputCost \in Nat
      /\ body.minQuality \in Int /\ body.maxInputCost \in Int /\ body.maxOutputCost \in Int
  BY QualityType, RouteFields, ProfileFields DEF RouteType, ProfileType, BodyType, Percent
<1>2. Quality(m) >= Larger(p.minQuality, body.minQuality)
        <=> Quality(m) >= p.minQuality /\ Quality(m) >= body.minQuality
  BY <1>1 DEF Larger
<1>3. \A cost \in Nat, a, b \in Int :
         WithinCap(cost, TighterCap(a, b)) <=> (a > 0 => cost <= a) /\ (b > 0 => cost <= b)
  BY DEF WithinCap, TighterCap
<1>6. /\ Quality(m) >= p.minQuality
        <=> Route[m].quality >= p.minQuality \/ (Route[m].quality = 0 /\ 60 >= p.minQuality)
      /\ Quality(m) >= body.minQuality
        <=> Route[m].quality >= body.minQuality \/ (Route[m].quality = 0 /\ 60 >= body.minQuality)
  <2>1. Route[m].quality \in Nat
    BY RouteFields DEF RouteType, Percent
  <2> QED
    BY <1>1, <2>1 DEF Quality, DefaultIfZero
<1>4. WithinPolicy(body, profile, m)
        <=> /\ WithinLimits(m, p) /\ WithinLimits(m, body)
            /\ body.strengths \subseteq Route[m].strengths
  BY <1>1, <1>2, <1>3, <1>6 DEF WithinPolicy, WithinLimits
<1>5. {m, Route[m].upstream} \cap body.exclude = {}
        <=> m \notin body.exclude /\ Route[m].upstream \notin body.exclude
  OBVIOUS
<1> QED
  BY <1>4, <1>5, FitsMeansWithinContext DEF Allowed, Considered, Capable

-----------------------------------------------------------------------------
(* Scores and the best of them.                                            *)
LEMMA ModelAt ==
    ASSUME NEW i \in DOMAIN ModelNames
    PROVE  /\ ModelNames[i] \in Models
           /\ Position(ModelNames[i]) = i
BY AutoRouteConstants DEF Models, Position

LEMMA PositionType ==
    ASSUME NEW m \in Models
    PROVE  Position(m) \in DOMAIN ModelNames /\ ModelNames[Position(m)] = m
BY AutoRouteConstants DEF Models, Position

LEMMA ScoreType ==
    ASSUME HealthTypeOK, NEW profile \in DOMAIN Profiles, NEW task \in Tasks,
           NEW m \in Models
    PROVE  ScoreWith(profile, task, m, HealthFactor(m)) \in Nat
<1>1. m \in Keys
  BY NamesObserved
<1>2. StateOf(m).ewma \in 0..Scale
  BY <1>1, StateOfType DEF HealthState
<1>3. HealthFactor(m) \in Nat
  BY <1>2, HealthConstants DEF HealthFactor
<1>4. /\ Merit[profile][task][m] \in Nat /\ Profiles[profile].reliabilityWeight \in Nat
      /\ DefaultIfZero(Route[m].reliability, 99) \in Nat
  <2>1. Merit[profile][task][m] \in Nat
    BY MeritType
  <2>2. Profiles[profile].reliabilityWeight \in Nat
    BY ProfileFields DEF ProfileType
  <2>3. Route[m].reliability \in Percent
    BY RouteFields DEF RouteType
  <2> QED
    BY <2>1, <2>2, <2>3 DEF DefaultIfZero, Percent
<1> DEFINE merit == Merit[profile][task][m] * Scale
           weight == Profiles[profile].reliabilityWeight * DefaultIfZero(Route[m].reliability, 99)
<1>5. merit \in Nat /\ weight \in Nat
  BY <1>4, ProductType, HealthConstants
<1>6. weight * HealthFactor(m) \in Nat
  BY <1>3, <1>5, ProductType
<1> HIDE DEF merit, weight
<1>7. merit + weight * HealthFactor(m) \in Nat
  BY <1>5, <1>6
<1> QED
  BY <1>7 DEF ScoreWith, merit, weight

Scores == [Models -> Nat \cup {NotEligible}]

(* The order of sort.SliceStable on the eligible candidates.               *)
Beats(score, m, x) ==
    \/ score[m] > score[x]
    \/ score[m] = score[x] /\ Position(m) <= Position(x)

IsBest(score, m) == m \in Eligible(score) /\ \A x \in Eligible(score) : Beats(score, m, x)

HasBest(score) == Eligible(score) # {} => \E m \in Models : IsBest(score, m)

LEMMA BestIsBest ==
    ASSUME NEW score, HasBest(score), Eligible(score) # {}
    PROVE  IsBest(score, Best(score)) /\ Best(score) \in Models
BY DEF HasBest, IsBest, Best, Beats, Eligible

(* One more candidate: the new one is the best or the old best still is.   *)
LEMMA NewScoreHasBest ==
    ASSUME NEW score \in Scores, HasBest(score),
           NEW m \in Models, score[m] = NotEligible, NEW value \in Nat
    PROVE  HasBest([score EXCEPT ![m] = value])
<1> DEFINE next == [score EXCEPT ![m] = value]
<1>1. /\ next \in Scores /\ next[m] = value
      /\ \A x \in Models : x # m => next[x] = score[x]
  BY DEF Scores
<1>2. Eligible(next) = Eligible(score) \cup {m} /\ m \notin Eligible(score)
  BY <1>1 DEF Eligible, NotEligible
<1>3. \A x \in Models : Position(x) \in Int
  BY PositionType, NamesInOrder
<1>4. \A x \in Eligible(score) : x \in Models /\ score[x] \in Nat /\ next[x] = score[x]
  BY <1>1, <1>2 DEF Eligible, Scores
<1> HIDE DEF next
<1>5. CASE Eligible(score) = {}
  <2>1. IsBest(next, m)
    BY <1>1, <1>2, <1>3, <1>5 DEF IsBest, Beats
  <2> QED
    BY <2>1 DEF HasBest, next
<1>6. CASE Eligible(score) # {}
  <2>1. PICK best \in Models : IsBest(score, best)
    BY <1>6 DEF HasBest
  <2>2. best \in Eligible(score) /\ \A x \in Eligible(score) : Beats(next, best, x)
    BY <2>1, <1>4 DEF IsBest, Beats
  <2>3. Beats(next, best, m) \/ Beats(next, m, best)
    BY <2>2, <1>1, <1>3, <1>4 DEF Beats
  <2>4. CASE Beats(next, best, m)
    <3>1. IsBest(next, best)
      BY <2>2, <2>4, <1>2 DEF IsBest
    <3> QED
      BY <3>1 DEF HasBest, next
  <2>5. CASE Beats(next, m, best)
    <3>1. ASSUME NEW x \in Eligible(score)
          PROVE  Beats(next, m, x)
      BY <2>2, <2>5, <1>1, <1>3, <1>4 DEF Beats
    <3>2. Beats(next, m, m)
      BY <1>1, <1>3 DEF Beats
    <3>3. IsBest(next, m)
      BY <3>1, <3>2, <1>2 DEF IsBest
    <3> QED
      BY <3>3 DEF HasBest, next
  <2> QED
    BY <2>3, <2>4, <2>5
<1> QED
  BY <1>5, <1>6

-----------------------------------------------------------------------------
(* The inductive invariant, goroutine by goroutine: beside its type, every *)
(* score kept so far belongs to a model that the policy allows and that    *)
(* the walk has passed, and one of them is the best.                       *)
LocalType(q) ==
    /\ q \in RequestType
    /\ q.phase # "idle" => q.body \in BodyType
    /\ q.phase \in Deciding => q.profile \in DOMAIN Profiles
    /\ q.phase \in {"circuit", "health"} => q.cursor \in DOMAIN ModelNames
    /\ q.phase = "sent" => q.model \in DOMAIN ObservedAs

ScoresAllowed(q) ==
    \A m \in Eligible(q.score) : Allowed(q.body, q.profile, m) /\ Position(m) < q.cursor

DecisionInv(q) ==
    /\ ScoresAllowed(q)
    /\ HasBest(q.score)
    /\ q.phase = "health" =>
          Considered(q.body, ModelNames[q.cursor]) /\ Capable(q.body, ModelNames[q.cursor])

OutcomeInv(q) ==
    q.profile # NoProfile => q.model \in Models /\ Allowed(q.body, q.profile, q.model)

LocalInv(q) ==
    /\ LocalType(q)
    /\ q.phase \in Deciding => DecisionInv(q)
    /\ q.phase \in {"sent", "answered"} => OutcomeInv(q)

AutoInv ==
    /\ HealthTypeOK
    /\ request \in [Requests -> RequestType]
    /\ \A r \in Requests : LocalInv(request[r])

LEMMA NoScoresFacts ==
    NoScores \in Scores /\ Eligible(NoScores) = {} /\ HasBest(NoScores)
BY DEF NoScores, Scores, Eligible, HasBest

LEMMA StartedType ==
    ASSUME NEW phase \in Phases, NEW kind \in Kinds, NEW body \in BodyType \cup {<<>>},
           NEW profile \in DOMAIN Profiles \cup {NoProfile},
           NEW model \in DOMAIN ObservedAs \cup {NoModel}
    PROVE  Started(phase, kind, body, profile, model) \in RequestType
<1>1. 1 \in 1..(Len(ModelNames) + 1)
  BY NamesInOrder
<1> QED
  BY <1>1, NoScoresFacts DEF Started, RequestType, Scores

LEMMA IdleInv == LocalInv(Idle)
<1>1. "idle" \in Phases /\ "inference" \in Kinds /\ <<>> \in BodyType \cup {<<>>}
  BY DEF Phases, Kinds
<1>2. Idle \in RequestType
  BY <1>1, StartedType DEF Idle
<1> QED
  BY <1>2 DEF Idle, Started, LocalInv, LocalType, Deciding

LEMMA OutcomeStartedInv ==
    ASSUME NEW phase \in {"refused", "sent", "answered"}, NEW kind \in Kinds,
           NEW body \in BodyType, NEW profile \in DOMAIN Profiles \cup {NoProfile},
           NEW model \in DOMAIN ObservedAs \cup {NoModel},
           phase = "sent" => model \in DOMAIN ObservedAs,
           phase # "refused" /\ profile # NoProfile =>
               model \in Models /\ Allowed(body, profile, model)
    PROVE  LocalInv(Started(phase, kind, body, profile, model))
<1> DEFINE q == Started(phase, kind, body, profile, model)
<1>1. q \in RequestType
  BY StartedType DEF Phases
<1>2. q.phase = phase /\ q.body = body /\ q.profile = profile /\ q.model = model
  BY DEF Started
<1> HIDE DEF q
<1>3. LocalInv(q)
  BY <1>1, <1>2 DEF LocalInv, LocalType, OutcomeInv, Deciding
<1> QED
  BY <1>3 DEF q

LEMMA DecisionStartedInv ==
    ASSUME NEW kind \in Kinds, NEW body \in BodyType, NEW profile \in DOMAIN Profiles
    PROVE  LocalInv(Started("circuit", kind, body, profile, NoModel))
<1> DEFINE q == Started("circuit", kind, body, profile, NoModel)
<1>1. "circuit" \in Phases /\ body \in BodyType \cup {<<>>}
  BY DEF Phases, Deciding
<1>2. q \in RequestType
  BY <1>1, StartedType
<1>3. /\ q.phase = "circuit" /\ q.body = body /\ q.profile = profile
      /\ q.cursor = 1 /\ q.score = NoScores
  BY DEF Started
<1>4. 1 \in DOMAIN ModelNames
  <2>1. ModelNames \in Seq(STRING) /\ ModelNames # <<>>
    BY AutoRouteConstants
  <2> QED
    BY <2>1
<1> HIDE DEF q
<1>5. DecisionInv(q)
  BY <1>3, NoScoresFacts DEF DecisionInv, ScoresAllowed
<1>6. LocalInv(q)
  BY <1>2, <1>3, <1>4, <1>5 DEF LocalInv, LocalType
<1> QED
  BY <1>6 DEF q

-----------------------------------------------------------------------------
(* The walk over the models keeps the invariant.                           *)
LEMMA NextModelInv ==
    ASSUME NEW q, LocalInv(q), q.phase \in {"circuit", "health"},
           NEW score \in Scores, HasBest(score),
           \A m \in Eligible(score) :
               Allowed(q.body, q.profile, m) /\ Position(m) < q.cursor + 1
    PROVE  LocalInv(NextModel([q EXCEPT !.score = score]))
<1> DEFINE next == NextModel([q EXCEPT !.score = score])
<1>1. q \in RequestType /\ q.phase \in Deciding
  BY DEF LocalInv, LocalType, Deciding
<1>2. /\ q.body \in BodyType /\ q.profile \in DOMAIN Profiles
      /\ q.cursor \in 1..Len(ModelNames) /\ Len(ModelNames) \in Nat
  BY <1>1, NamesInOrder DEF LocalInv, LocalType, Deciding
<1>3. /\ next.phase = IF q.cursor = Len(ModelNames) THEN "choose" ELSE "circuit"
      /\ next.cursor = q.cursor + 1 /\ next.score = score
      /\ next.body = q.body /\ next.profile = q.profile
  BY <1>1 DEF NextModel, RequestType
<1>4. next \in RequestType
  <2>1. (IF q.cursor = Len(ModelNames) THEN "choose" ELSE "circuit") \in Phases
    BY DEF Phases, Deciding
  <2>2. q.cursor + 1 \in 1..(Len(ModelNames) + 1)
    BY <1>2
  <2> QED
    BY <1>1, <2>1, <2>2 DEF NextModel, RequestType, Scores
<1>5. next.phase \in {"circuit", "choose"}
  BY <1>3
<1>6. next.phase = "circuit" => next.cursor \in DOMAIN ModelNames
  BY <1>2, <1>3, NamesInOrder
<1> HIDE DEF next
<1>7. LocalType(next)
  BY <1>2, <1>3, <1>4, <1>5, <1>6 DEF LocalType
<1>8. DecisionInv(next)
  BY <1>3, <1>5 DEF DecisionInv, ScoresAllowed
<1>9. LocalInv(next)
  BY <1>5, <1>7, <1>8 DEF LocalInv
<1> QED
  BY <1>9 DEF next

LEMMA SkippedModelInv ==
    ASSUME NEW q, LocalInv(q), q.phase \in {"circuit", "health"}
    PROVE  LocalInv(NextModel(q))
<1>1. q \in RequestType /\ DecisionInv(q)
  BY DEF LocalInv, LocalType, Deciding
<1>2. q = [q EXCEPT !.score = q.score] /\ q.score \in Scores /\ q.cursor \in Nat
  BY <1>1, NamesInOrder DEF RequestType, Scores
<1>3. \A m \in Eligible(q.score) : Allowed(q.body, q.profile, m) /\ Position(m) < q.cursor + 1
  <2>1. \A m \in Eligible(q.score) : Position(m) \in Nat
    BY PositionType, NamesInOrder DEF Eligible
  <2> QED
    BY <1>1, <1>2, <2>1 DEF DecisionInv, ScoresAllowed
<1>4. HasBest(q.score)
  BY <1>1 DEF DecisionInv
<1>5. LocalInv(NextModel([q EXCEPT !.score = q.score]))
  BY <1>2, <1>3, <1>4, NextModelInv
<1> QED
  BY <1>2, <1>5

LEMMA ScoredModelInv ==
    ASSUME HealthTypeOK, NEW q, LocalInv(q), q.phase = "health",
           WithinPolicy(q.body, q.profile, ModelNames[q.cursor])
    PROVE  LET m == ModelNames[q.cursor] IN
           LocalInv(NextModel(Scored(q, m, ScoreWith(q.profile, q.body.task, m, HealthFactor(m)))))
<1> DEFINE m == ModelNames[q.cursor]
           value == ScoreWith(q.profile, q.body.task, m, HealthFactor(m))
           score == [q.score EXCEPT ![m] = value]
<1>1. /\ q \in RequestType /\ DecisionInv(q) /\ q.body \in BodyType
      /\ q.profile \in DOMAIN Profiles /\ q.cursor \in DOMAIN ModelNames
  BY DEF LocalInv, LocalType, Deciding
<1>2. m \in Models /\ Position(m) = q.cursor
  BY <1>1, ModelAt
<1>3. value \in Nat
  <2>1. q.body.task \in Tasks
    BY <1>1 DEF BodyType
  <2> QED
    BY <1>1, <1>2, <2>1, ScoreType
<1>4. Allowed(q.body, q.profile, m)
  BY <1>1, <1>2, FiltersAreThePolicy DEF DecisionInv
<1>5. q.score \in Scores /\ HasBest(q.score) /\ q.cursor \in Nat
  BY <1>1, NamesInOrder DEF RequestType, Scores, DecisionInv
<1>6. q.score[m] = NotEligible
  BY <1>1, <1>2, <1>5 DEF DecisionInv, ScoresAllowed, Eligible
<1> HIDE DEF m, value
<1>7. score \in Scores /\ HasBest(score)
  BY <1>2, <1>3, <1>5, <1>6, NewScoreHasBest DEF Scores
<1>8. Eligible(score) \subseteq Eligible(q.score) \cup {m}
  BY <1>5 DEF Eligible, Scores
<1>9. \A x \in Eligible(score) : Allowed(q.body, q.profile, x) /\ Position(x) < q.cursor + 1
  <2>1. \A x \in Eligible(score) : Position(x) \in Nat
    BY PositionType, NamesInOrder DEF Eligible
  <2> QED
    BY <1>1, <1>2, <1>4, <1>5, <1>8, <2>1 DEF DecisionInv, ScoresAllowed
<1>10. LocalInv(NextModel([q EXCEPT !.score = score]))
  BY <1>7, <1>9, NextModelInv
<1> QED
  BY <1>10 DEF Scored, m, value

(* The fallback of hosted tools leaves an automatic choice alone: a model  *)
(* that the policy allows for such a request is native.                    *)
LEMMA FallbackKeepsAllowed ==
    ASSUME NEW body \in BodyType, NEW profile, NEW m \in Models, Allowed(body, profile, m)
    PROVE  AfterFallback(body, m) = m
<1>1. m \in Polyfilled <=> Route[m].mode = "chat_polyfill"
  BY AutoRouteConstants
<1> QED
  BY <1>1 DEF Allowed, AfterFallback

LEMMA OutcomeIsInv ==
    ASSUME NEW q, LocalInv(q), q.phase = "choose"
    PROVE  LocalInv(Outcome(q))
<1>1. /\ q \in RequestType /\ DecisionInv(q) /\ q.body \in BodyType
      /\ q.profile \in DOMAIN Profiles /\ q.kind \in Kinds
  BY DEF LocalInv, LocalType, Deciding, RequestType
<1> DEFINE best == Best(q.score)
<1>2. CASE Eligible(q.score) = {}
  <2>1. Outcome(q) = Started("refused", q.kind, q.body, q.profile, NoModel)
    BY <1>2 DEF Outcome
  <2>2. LocalInv(Started("refused", q.kind, q.body, q.profile, NoModel))
    BY <1>1, OutcomeStartedInv
  <2> QED
    BY <2>1, <2>2
<1>3. CASE Eligible(q.score) # {}
  <2>1. best \in Models /\ Allowed(q.body, q.profile, best)
    BY <1>1, <1>3, BestIsBest DEF DecisionInv, ScoresAllowed, IsBest
  <2>2. AfterFallback(q.body, best) = best
    BY <1>1, <2>1, FallbackKeepsAllowed
  <2>3. best \in DOMAIN ObservedAs
    BY <2>1, NamesObserved
  <2>4. PICK phase \in {"sent", "answered"} :
           Outcome(q) = Started(phase, q.kind, q.body, q.profile, best)
    BY <1>3, <2>2 DEF Outcome
  <2> HIDE DEF best
  <2>5. LocalInv(Started(phase, q.kind, q.body, q.profile, best))
    BY <1>1, <2>1, <2>3, OutcomeStartedInv
  <2> QED
    BY <2>4, <2>5
<1> QED
  BY <1>2, <1>3

-----------------------------------------------------------------------------
(* A step of one goroutine.                                                *)
LEMMA OneRequestChanges ==
    ASSUME AutoInv, HealthTypeOK', NEW r \in Requests, NEW next, LocalInv(next),
           request' = [request EXCEPT ![r] = next]
    PROVE  AutoInv'
<1>1. next \in RequestType
  BY DEF LocalInv, LocalType
<1> QED
  BY <1>1 DEF AutoInv

LEMMA HealthUnchanged ==
    ASSUME HealthTypeOK, UNCHANGED healthVars
    PROVE  HealthTypeOK'
BY DEF HealthTypeOK, healthVars

LEMMA ReceiveKeepsInv ==
    ASSUME AutoInv, NEW r \in Requests, Receive(r)
    PROVE  AutoInv'
<1>1. PICK arrival \in Arrivals[r] :
         \/ ReceiveRefused(r, arrival.kind, arrival.body)
         \/ arrival.kind = "inference" /\ ReceiveDirect(r, arrival.body)
         \/ arrival.kind = "inference" /\ ReceiveAuto(r, arrival.body)
         \/ arrival.kind = "preview" /\ ReceivePreview(r, arrival.body)
  BY DEF Receive
<1> DEFINE kind == arrival.kind
           body == arrival.body
<1>2. kind \in Kinds /\ body \in BodyType
  <2>1. Arrivals[r] \subseteq [kind : Kinds, body : BodyType]
    BY AutoRouteConstants
  <2> QED
    BY <1>1, <2>1
<1> HIDE DEF kind, body
<1>3. HealthTypeOK'
  BY <1>1, HealthUnchanged
     DEF AutoInv, ReceiveRefused, ReceiveDirect, ReceiveAuto, ReceivePreview
<1>4. ASSUME NEW next, LocalInv(next), request' = [request EXCEPT ![r] = next]
      PROVE  AutoInv'
  BY <1>3, <1>4, OneRequestChanges
<1>5. CASE ReceiveRefused(r, kind, body)
  <2>1. request' = [request EXCEPT ![r] = Started("refused", kind, body, NoProfile, NoModel)]
    BY <1>5 DEF ReceiveRefused
  <2>2. LocalInv(Started("refused", kind, body, NoProfile, NoModel))
    BY <1>2, OutcomeStartedInv
  <2> QED
    BY <2>1, <2>2, <1>4
<1>6. CASE ReceiveDirect(r, body)
  <2> DEFINE model == AfterFallback(body, body.model)
  <2>1. model \in DOMAIN ObservedAs
    <3>1. body.model \in DOMAIN ObservedAs
      BY <1>6 DEF ReceiveDirect, Refused
    <3>2. HostedFallback \in DOMAIN ObservedAs \cup {NoModel}
      BY AutoRouteConstants
    <3> QED
      BY <3>1, <3>2 DEF AfterFallback
  <2> HIDE DEF model
  <2>2. request' = [request EXCEPT ![r] = Started("sent", "inference", body, NoProfile, model)]
    BY <1>6 DEF ReceiveDirect, model
  <2>3. "inference" \in Kinds
    BY DEF Kinds
  <2>4. LocalInv(Started("sent", "inference", body, NoProfile, model))
    BY <1>2, <2>1, <2>3, OutcomeStartedInv
  <2> QED
    BY <2>2, <2>4, <1>4
<1>7. CASE ReceiveAuto(r, body)
  <2>1. RewriteProfile(body) \in DOMAIN Profiles /\ "inference" \in Kinds
    BY <1>7 DEF ReceiveAuto, Refused, Kinds
  <2>2. request' = [request EXCEPT
                      ![r] = Started("circuit", "inference", body, RewriteProfile(body), NoModel)]
    BY <1>7 DEF ReceiveAuto
  <2>3. LocalInv(Started("circuit", "inference", body, RewriteProfile(body), NoModel))
    BY <1>2, <2>1, DecisionStartedInv
  <2> QED
    BY <2>2, <2>3, <1>4
<1>8. CASE ReceivePreview(r, body)
  <2>1. PreviewProfile(body) \in DOMAIN Profiles /\ "preview" \in Kinds
    BY <1>8 DEF ReceivePreview, Refused, Kinds
  <2>2. request' = [request EXCEPT
                      ![r] = Started("circuit", "preview", body, PreviewProfile(body), NoModel)]
    BY <1>8 DEF ReceivePreview
  <2>3. LocalInv(Started("circuit", "preview", body, PreviewProfile(body), NoModel))
    BY <1>2, <2>1, DecisionStartedInv
  <2> QED
    BY <2>2, <2>3, <1>4
<1> QED
  BY <1>1, <1>5, <1>6, <1>7, <1>8 DEF kind, body

LEMMA DecideKeepsInv ==
    ASSUME AutoInv, NEW r \in Requests, Decide(r)
    PROVE  AutoInv'
<1> DEFINE q == request[r]
<1>1. HealthTypeOK /\ LocalInv(q)
  BY DEF AutoInv
<1>2. HealthTypeOK'
  BY <1>1, HealthUnchanged DEF Decide, ReadCircuit, ReadHealth, Choose
<1>3. ASSUME NEW next, LocalInv(next), request' = [request EXCEPT ![r] = next]
      PROVE  AutoInv'
  BY <1>2, <1>3, OneRequestChanges
<1>4. CASE ReadCircuit(r)
  <2>1. q.phase = "circuit"
    BY <1>4 DEF ReadCircuit
  <2>2. CASE PassesUpToHealth(q.body, Current(r))
    <3> DEFINE next == [q EXCEPT !.phase = "health"]
    <3>1. request' = [request EXCEPT ![r] = next]
      BY <1>4, <2>2 DEF ReadCircuit
    <3>2. q \in RequestType /\ DecisionInv(q) /\ LocalType(q)
      BY <1>1, <2>1 DEF LocalInv, LocalType, Deciding
    <3>3. /\ next \in RequestType /\ next.phase = "health" /\ next.body = q.body
          /\ next.profile = q.profile /\ next.cursor = q.cursor /\ next.score = q.score
      BY <3>2 DEF RequestType, Phases, Deciding
    <3> HIDE DEF next
    <3>4. LocalType(next)
      BY <2>1, <3>2, <3>3 DEF LocalType, Deciding
    <3>5. DecisionInv(next)
      BY <2>2, <3>2, <3>3 DEF DecisionInv, ScoresAllowed, PassesUpToHealth, Current
    <3>6. LocalInv(next)
      BY <3>3, <3>4, <3>5 DEF LocalInv
    <3> QED
      BY <3>1, <3>6, <1>3
  <2>3. CASE ~PassesUpToHealth(q.body, Current(r))
    <3>1. request' = [request EXCEPT ![r] = NextModel(q)]
      BY <1>4, <2>3 DEF ReadCircuit
    <3> QED
      BY <1>1, <1>3, <2>1, <3>1, SkippedModelInv
  <2> QED
    BY <2>2, <2>3
<1>5. CASE ReadHealth(r)
  <2> DEFINE m == ModelNames[q.cursor]
             score == ScoreWith(q.profile, q.body.task, m, HealthFactor(m))
  <2>1. q.phase = "health"
    BY <1>5 DEF ReadHealth
  <2>2. CASE WithinPolicy(q.body, q.profile, m)
    <3>1. request' = [request EXCEPT ![r] = NextModel(Scored(q, m, score))]
      BY <1>5, <2>2 DEF ReadHealth, Current
    <3>2. LocalInv(NextModel(Scored(q, m, score)))
      BY <1>1, <2>1, <2>2, ScoredModelInv
    <3> QED
      BY <1>3, <3>1, <3>2
  <2>3. CASE ~WithinPolicy(q.body, q.profile, m)
    <3>1. request' = [request EXCEPT ![r] = NextModel(q)]
      BY <1>5, <2>3 DEF ReadHealth, Current
    <3> QED
      BY <1>1, <1>3, <2>1, <3>1, SkippedModelInv
  <2> QED
    BY <2>2, <2>3
<1>6. CASE Choose(r)
  <2>1. q.phase = "choose" /\ request' = [request EXCEPT ![r] = Outcome(q)]
    BY <1>6 DEF Choose
  <2> QED
    BY <1>1, <1>3, <2>1, OutcomeIsInv
<1> QED
  BY <1>4, <1>5, <1>6 DEF Decide

(* Observing a response keeps the records well formed.                     *)
LEMMA HealthStepType ==
    ASSUME HealthTypeOK, HealthNext
    PROVE  HealthTypeOK'
<1>1. HealthTypeOK /\ [HealthNext]_healthVars => HealthTypeOK'
  BY HealthTypeStep
<1> QED
  BY <1>1

LEMMA AutoInvStep == AutoInv /\ [AutoNext]_autoVars => AutoInv'
<1> SUFFICES ASSUME AutoInv, [AutoNext]_autoVars
             PROVE  AutoInv'
  OBVIOUS
<1>1. HealthTypeOK
  BY DEF AutoInv
<1>2. ASSUME NEW r \in Requests, Receive(r)
      PROVE  AutoInv'
  BY <1>2, ReceiveKeepsInv
<1>3. ASSUME NEW r \in Requests, Decide(r)
      PROVE  AutoInv'
  BY <1>3, DecideKeepsInv
<1>4. ASSUME NEW r \in Requests, NEW status \in Statuses, Respond(r, status)
      PROVE  AutoInv'
  <2>1. ObservedAs[request[r].model] \in Keys
    <3>1. request[r].model \in DOMAIN ObservedAs
      BY <1>4 DEF AutoInv, LocalInv, LocalType, Respond
    <3> QED
      BY <3>1, NamesObserved
  <2>2. HealthTypeOK'
    BY <1>1, <1>4, <2>1, HealthStepType DEF HealthNext, Respond
  <2>3. request' = [request EXCEPT ![r] = Idle]
    BY <1>4 DEF Respond
  <2> QED
    BY <2>2, <2>3, IdleInv, OneRequestChanges
<1>5. ASSUME NEW r \in Requests, TransportError(r) \/ Finish(r)
      PROVE  AutoInv'
  <2>1. HealthTypeOK' /\ request' = [request EXCEPT ![r] = Idle]
    BY <1>1, <1>5, HealthUnchanged DEF TransportError, Finish
  <2> QED
    BY <2>1, IdleInv, OneRequestChanges
<1>6. CASE TimePasses
  <2>1. HealthTypeOK'
    BY <1>1, <1>6, HealthStepType DEF TimePasses, HealthNext
  <2> QED
    BY <1>6, <2>1 DEF TimePasses, AutoInv
<1>7. CASE ProcessRestarts
  <2>1. HealthTypeOK'
    BY <1>1, <1>7, HealthStepType DEF ProcessRestarts, HealthNext
  <2>2. Idle \in RequestType
    BY IdleInv DEF LocalInv, LocalType
  <2> QED
    BY <1>7, <2>1, <2>2, IdleInv DEF ProcessRestarts, AutoInv
<1>8. CASE UNCHANGED autoVars
  BY <1>8 DEF autoVars, AutoInv, HealthTypeOK
<1> QED
  BY <1>2, <1>3, <1>4, <1>5, <1>6, <1>7, <1>8 DEF AutoNext

LEMMA AutoInvInit == AutoInit => AutoInv
<1>1. HealthInit => HealthTypeOK
  BY DEF HealthInit, HealthTypeOK
<1>2. Idle \in RequestType
  BY IdleInv DEF LocalInv, LocalType
<1> QED
  BY <1>1, <1>2, IdleInv DEF AutoInit, AutoInv

THEOREM AutoInvCorrect == AutoSpec => []AutoInv
BY AutoInvInit, AutoInvStep, PTL DEF AutoSpec

(* Every goroutine's state is well formed: the walk over the models stays  *)
(* within them, and what is sent has a name that health can be kept under. *)
THEOREM AutoTypeCorrect == AutoSpec => []AutoTypeOK
<1>1. AutoInv => AutoTypeOK
  <2> SUFFICES ASSUME AutoInv
               PROVE  AutoTypeOK
    OBVIOUS
  <2>1. \A r \in Requests : LocalType(request[r])
    BY DEF AutoInv, LocalInv
  <2> QED
    BY <2>1 DEF AutoInv, AutoTypeOK, LocalType
<1> QED
  BY <1>1, AutoInvCorrect, PTL

(* The hard filters come before the scores for every configuration, every  *)
(* request and every interleaving with other requests and their failures:  *)
(* what decide selects satisfies the profile's policy and the request's.   *)
THEOREM SelectedSatisfiesPolicyCorrect == AutoSpec => []SelectedSatisfiesPolicy
<1>1. AutoInv => SelectedSatisfiesPolicy
  BY DEF AutoInv, SelectedSatisfiesPolicy, LocalInv, OutcomeInv
<1> QED
  BY <1>1, AutoInvCorrect, PTL

-----------------------------------------------------------------------------
(* The auditor only watches.                                               *)
LEMMA AuditedStepIsAutoStep == [AuditNext]_auditVars => [AutoNext]_autoVars
BY DEF AuditNext, auditVars, autoVars

LEMMA AuditSpecIsAutoSpec == AuditSpec => AutoSpec
<1>1. AuditInit => AutoInit
  BY DEF AuditInit
<1> QED
  BY <1>1, AuditedStepIsAutoStep, PTL DEF AuditSpec, AutoSpec

-----------------------------------------------------------------------------
(* What a step can do to the goroutine of one request.                     *)
Became(r, q) == request'[r] = q /\ UNCHANGED healthVars

StepOf(r) ==
    \/ UNCHANGED request[r]
    \/ request'[r].phase = "idle"
    \/ request[r].phase = "idle" /\ \E kind \in Kinds, body \in BodyType :
          \/ Became(r, Started("refused", kind, body, NoProfile, NoModel))
          \/ \E model : Became(r, Started("sent", kind, body, NoProfile, model))
          \/ \E profile \in DOMAIN Profiles :
                Became(r, Started("circuit", kind, body, profile, NoModel))
    \/ ReadCircuit(r)
    \/ ReadHealth(r)
    \/ Choose(r)

LEMMA ReceiveIsStep ==
    ASSUME AutoInv, NEW r \in Requests, Receive(r)
    PROVE  StepOf(r)
<1>1. PICK arrival \in Arrivals[r] :
         \/ ReceiveRefused(r, arrival.kind, arrival.body)
         \/ arrival.kind = "inference" /\ ReceiveDirect(r, arrival.body)
         \/ arrival.kind = "inference" /\ ReceiveAuto(r, arrival.body)
         \/ arrival.kind = "preview" /\ ReceivePreview(r, arrival.body)
  BY DEF Receive
<1> DEFINE kind == arrival.kind
           body == arrival.body
<1>2. kind \in Kinds /\ body \in BodyType
  <2>1. Arrivals[r] \subseteq [kind : Kinds, body : BodyType]
    BY AutoRouteConstants
  <2> QED
    BY <1>1, <2>1
<1> HIDE DEF kind, body
<1>3. \A q : request' = [request EXCEPT ![r] = q] => request'[r] = q
  BY DEF AutoInv
<1>4. CASE ReceiveRefused(r, kind, body)
  BY <1>2, <1>3, <1>4 DEF ReceiveRefused, StepOf, Became
<1>5. CASE kind = "inference" /\ ReceiveDirect(r, body)
  BY <1>2, <1>3, <1>5 DEF ReceiveDirect, StepOf, Became
<1>6. CASE kind = "inference" /\ ReceiveAuto(r, body)
  <2>1. RewriteProfile(body) \in DOMAIN Profiles
    BY <1>6 DEF ReceiveAuto, Refused
  <2> QED
    BY <1>2, <1>3, <1>6, <2>1 DEF ReceiveAuto, StepOf, Became
<1>7. CASE kind = "preview" /\ ReceivePreview(r, body)
  <2>1. PreviewProfile(body) \in DOMAIN Profiles
    BY <1>7 DEF ReceivePreview, Refused
  <2> QED
    BY <1>2, <1>3, <1>7, <2>1 DEF ReceivePreview, StepOf, Became
<1> QED
  BY <1>1, <1>4, <1>5, <1>6, <1>7 DEF kind, body

LEMMA EveryStepIsStep ==
    ASSUME AutoInv, AutoNext, NEW r \in Requests
    PROVE  StepOf(r)
<1>1. \A x \in Requests : \A q : request' = [request EXCEPT ![x] = q] =>
         request'[r] = IF x = r THEN q ELSE request[r]
  BY DEF AutoInv
<1>2. Idle.phase = "idle"
  BY DEF Idle, Started
<1>3. ASSUME NEW x \in Requests, Receive(x)
      PROVE  StepOf(r)
  <2>1. CASE x = r
    BY <1>3, <2>1, ReceiveIsStep
  <2>2. CASE x # r
    BY <1>1, <1>3, <2>2
       DEF StepOf, Receive, ReceiveRefused, ReceiveDirect, ReceiveAuto, ReceivePreview
  <2> QED
    BY <2>1, <2>2
<1>4. ASSUME NEW x \in Requests, Decide(x)
      PROVE  StepOf(r)
  <2>1. CASE x = r
    BY <1>4, <2>1 DEF Decide, StepOf
  <2>2. CASE x # r
    BY <1>1, <1>4, <2>2 DEF StepOf, Decide, ReadCircuit, ReadHealth, Choose
  <2> QED
    BY <2>1, <2>2
<1>5. ASSUME NEW x \in Requests, request' = [request EXCEPT ![x] = Idle]
      PROVE  StepOf(r)
  BY <1>1, <1>2, <1>5 DEF StepOf
<1>6. CASE TimePasses
  BY <1>6 DEF TimePasses, StepOf
<1>7. CASE ProcessRestarts
  BY <1>2, <1>7 DEF ProcessRestarts, StepOf
<1> QED
  BY <1>3, <1>4, <1>5, <1>6, <1>7 DEF AutoNext, Respond, TransportError, Finish

-----------------------------------------------------------------------------
(* What the auditor notes in a step, case by case.                         *)
LEMMA NotesWhileDeciding ==
    ASSUME Audit, NEW r \in Requests, IsDeciding(r), IsDeciding(r)'
    PROVE  /\ ever'[r] = ever[r] \cup ClosedModels'
           /\ always'[r] = always[r] \cap ClosedModels'
           /\ seen'[r] = IF HealthView' = HealthView THEN seen[r] ELSE Changed
BY DEF Audit, Follow

LEMMA NotesAtStart ==
    ASSUME Audit, NEW r \in Requests, ~IsDeciding(r), IsDeciding(r)'
    PROVE  ever'[r] = ClosedModels' /\ always'[r] = ClosedModels' /\ seen'[r] = HealthView'
BY DEF Audit, Follow

LEMMA NotesOfOutcome ==
    ASSUME Audit, NEW r \in Requests, ~IsDeciding(r)',
           request[r].phase # "idle", request'[r].phase # "idle"
    PROVE  ever'[r] = ever[r] /\ always'[r] = always[r] /\ seen'[r] = seen[r]
BY DEF Audit, Follow

LEMMA HealthSeenUnchanged ==
    ASSUME UNCHANGED healthVars
    PROVE  ClosedModels' = ClosedModels /\ HealthView' = HealthView
BY DEF healthVars, ClosedModels, HealthView, CircuitOpen, HealthFactor, StateOf

-----------------------------------------------------------------------------
(* The invariant behind SelectionJustified and RefusalJustified.  Up to    *)
(* date: what was always closed is closed now, what is closed now was once *)
(* closed.  Kept, whatever the health does next: whoever has a score was   *)
(* once closed, and the walk has passed no allowed model that was always   *)
(* closed without giving it a score.                                       *)
UpToDate(r) ==
    IsDeciding(r) => always[r] \subseteq ClosedModels /\ ClosedModels \subseteq ever[r]

KeptWhileDeciding(q, once, throughout) ==
    /\ Eligible(q.score) \subseteq once
    /\ q.phase = "health" => ModelNames[q.cursor] \in once
    /\ q.phase = "choose" => q.cursor = Len(ModelNames) + 1
    /\ throughout \subseteq Models
    /\ \A m \in throughout :
          Position(m) < q.cursor /\ Allowed(q.body, q.profile, m) => m \in Eligible(q.score)

Kept(q, once, throughout) ==
    /\ q.phase \in Deciding => KeptWhileDeciding(q, once, throughout)
    /\ q.phase \in {"sent", "answered"} /\ q.profile # NoProfile => q.model \in once
    /\ q.phase = "refused" /\ q.profile # NoProfile =>
          \A m \in throughout : ~Allowed(q.body, q.profile, m)

WatchInv == \A r \in Requests : UpToDate(r) /\ Kept(request[r], ever[r], always[r])

LEMMA KeptIsMonotone ==
    ASSUME NEW q, NEW once, NEW throughout, Kept(q, once, throughout),
           NEW more, once \subseteq more, NEW less, less \subseteq throughout
    PROVE  Kept(q, more, less)
BY DEF Kept, KeptWhileDeciding

LEMMA KeptAtStart ==
    ASSUME NEW kind, NEW body, NEW profile, NEW throughout \in SUBSET Models, NEW once
    PROVE  Kept(Started("circuit", kind, body, profile, NoModel), once, throughout)
<1> DEFINE q == Started("circuit", kind, body, profile, NoModel)
<1>1. q.phase = "circuit" /\ q.cursor = 1 /\ Eligible(q.score) = {}
  BY NoScoresFacts DEF Started
<1>2. \A m \in throughout : ~(Position(m) < 1)
  BY PositionType, NamesInOrder
<1> HIDE DEF q
<1>3. KeptWhileDeciding(q, once, throughout)
  BY <1>1, <1>2 DEF KeptWhileDeciding
<1> QED
  BY <1>1, <1>3 DEF Kept, q

(* The walk passes a model: without a score, if the policy does not allow  *)
(* it or it was not always closed, or with one.                            *)
LEMMA KeptWhenPassed ==
    ASSUME NEW q, LocalInv(q), q.phase \in {"circuit", "health"},
           NEW once, NEW throughout, Kept(q, once, throughout),
           NEW next, next.score = q.score \/
                     \E value \in Nat : next.score = [q.score EXCEPT ![ModelNames[q.cursor]] = value],
           next.body = q.body, next.profile = q.profile, next.cursor = q.cursor + 1,
           next.phase = IF q.cursor = Len(ModelNames) THEN "choose" ELSE "circuit",
           ModelNames[q.cursor] \in Eligible(next.score) => ModelNames[q.cursor] \in once,
           ModelNames[q.cursor] \in throughout /\ Allowed(q.body, q.profile, ModelNames[q.cursor])
               => ModelNames[q.cursor] \in Eligible(next.score)
    PROVE  Kept(next, once, throughout)
<1> DEFINE m == ModelNames[q.cursor]
<1>1. q.cursor \in DOMAIN ModelNames /\ q \in RequestType
  BY DEF LocalInv, LocalType
<1>2. m \in Models /\ Position(m) = q.cursor
  BY <1>1, ModelAt
<1>3. q.score \in Scores
  BY <1>1 DEF RequestType, Scores
<1>4. \A x \in Models : x # m => (x \in Eligible(next.score) <=> x \in Eligible(q.score))
  BY <1>2, <1>3 DEF Scores, Eligible
<1>5. Eligible(next.score) \subseteq Models /\ Eligible(q.score) \subseteq Eligible(next.score)
  <2>1. Eligible(next.score) \subseteq Models /\ Eligible(q.score) \subseteq Models
    BY DEF Eligible
  <2>2. \A value \in Nat : [q.score EXCEPT ![m] = value][m] # NotEligible
    BY <1>2, <1>3 DEF Scores, NotEligible
  <2>3. m \in Eligible(q.score) => m \in Eligible(next.score)
    BY <1>2, <2>2 DEF Eligible
  <2> QED
    BY <2>1, <2>3, <1>4
<1>6. KeptWhileDeciding(q, once, throughout)
  BY DEF Kept, Deciding
<1>7. \A x \in Models : Position(x) < q.cursor + 1 => x = m \/ Position(x) < q.cursor
  <2>1. \A x \in Models : Position(x) \in Int /\ ModelNames[Position(x)] = x
    BY PositionType, NamesInOrder
  <2>2. q.cursor \in Int
    BY <1>1, NamesInOrder
  <2> QED
    BY <2>1, <2>2
<1> HIDE DEF m
<1>8. Eligible(next.score) \subseteq once
  BY <1>4, <1>5, <1>6 DEF KeptWhileDeciding, m
<1>9. ASSUME NEW x \in throughout, Position(x) < next.cursor, Allowed(next.body, next.profile, x)
      PROVE  x \in Eligible(next.score)
  <2>1. x \in Models
    BY <1>6 DEF KeptWhileDeciding
  <2>2. CASE x = m
    BY <1>9, <2>2 DEF m
  <2>3. CASE x # m
    BY <1>5, <1>6, <1>7, <1>9, <2>1, <2>3 DEF KeptWhileDeciding
  <2> QED
    BY <2>2, <2>3
<1>10. KeptWhileDeciding(next, once, throughout)
  BY <1>6, <1>8, <1>9 DEF KeptWhileDeciding
<1> QED
  BY <1>10 DEF Kept

LEMMA ReadCircuitKeeps ==
    ASSUME AutoInv, NEW r \in Requests, ReadCircuit(r), UpToDate(r),
           Kept(request[r], ever[r], always[r])
    PROVE  Kept(request'[r], ever[r], always[r])
<1> DEFINE q == request[r]
           m == ModelNames[q.cursor]
<1>1. /\ LocalInv(q) /\ q.phase = "circuit" /\ q \in RequestType
      /\ q.body \in BodyType /\ q.profile \in DOMAIN Profiles /\ q.cursor \in DOMAIN ModelNames
  BY DEF ReadCircuit, AutoInv, LocalInv, LocalType, Deciding
<1>2. m \in Models
  BY <1>1, ModelAt
<1>3. always[r] \subseteq ClosedModels /\ ClosedModels \subseteq ever[r]
  BY <1>1 DEF UpToDate, IsDeciding, Deciding
<1>4. request'[r] = IF PassesUpToHealth(q.body, m) THEN [q EXCEPT !.phase = "health"]
                    ELSE NextModel(q)
  BY DEF AutoInv, ReadCircuit, Current
<1>5. CASE PassesUpToHealth(q.body, m)
  <2> DEFINE next == [q EXCEPT !.phase = "health"]
  <2>1. /\ next.phase = "health" /\ next.body = q.body /\ next.profile = q.profile
        /\ next.cursor = q.cursor /\ next.score = q.score
    BY <1>1 DEF RequestType
  <2>2. m \in ever[r]
    BY <1>2, <1>3, <1>5 DEF PassesUpToHealth, ClosedModels
  <2>3. KeptWhileDeciding(q, ever[r], always[r])
    BY <1>1 DEF Kept, Deciding
  <2> HIDE DEF next
  <2>4. KeptWhileDeciding(next, ever[r], always[r])
    BY <2>1, <2>2, <2>3 DEF KeptWhileDeciding
  <2>5. Kept(next, ever[r], always[r])
    BY <2>1, <2>4 DEF Kept
  <2> QED
    BY <1>4, <1>5, <2>5 DEF next
<1>6. CASE ~PassesUpToHealth(q.body, m)
  <2> DEFINE next == NextModel(q)
  <2>1. /\ next.score = q.score /\ next.body = q.body /\ next.profile = q.profile
        /\ next.cursor = q.cursor + 1
        /\ next.phase = IF q.cursor = Len(ModelNames) THEN "choose" ELSE "circuit"
    BY <1>1 DEF NextModel, RequestType
  <2>2. Allowed(q.body, q.profile, m) => Considered(q.body, m) /\ Capable(q.body, m)
    BY <1>1, <1>2, FiltersAreThePolicy
  <2>3. m \in always[r] => ~CircuitOpen(m)
    BY <1>3 DEF ClosedModels
  <2>4. ~(m \in always[r] /\ Allowed(q.body, q.profile, m))
    BY <1>6, <2>2, <2>3 DEF PassesUpToHealth
  <2>5. Eligible(q.score) \subseteq ever[r]
    BY <1>1 DEF Kept, KeptWhileDeciding, Deciding
  <2> HIDE DEF next
  <2>6. Kept(next, ever[r], always[r])
    BY <1>1, <2>1, <2>4, <2>5, KeptWhenPassed
  <2> QED
    BY <1>4, <1>6, <2>6 DEF next
<1> QED
  BY <1>5, <1>6

LEMMA ReadHealthKeeps ==
    ASSUME AutoInv, NEW r \in Requests, ReadHealth(r), Kept(request[r], ever[r], always[r])
    PROVE  Kept(request'[r], ever[r], always[r])
<1> DEFINE q == request[r]
           m == ModelNames[q.cursor]
           score == ScoreWith(q.profile, q.body.task, m, HealthFactor(m))
           scored == Scored(q, m, score)
<1>1. /\ LocalInv(q) /\ q.phase = "health" /\ q \in RequestType
      /\ q.body \in BodyType /\ q.profile \in DOMAIN Profiles /\ q.cursor \in DOMAIN ModelNames
      /\ HealthTypeOK
  BY DEF ReadHealth, AutoInv, LocalInv, LocalType, Deciding
<1>2. m \in Models
  BY <1>1, ModelAt
<1>3. Considered(q.body, m) /\ Capable(q.body, m)
  BY <1>1 DEF LocalInv, DecisionInv, Deciding
<1>4. m \in ever[r] /\ Eligible(q.score) \subseteq ever[r]
  BY <1>1 DEF Kept, KeptWhileDeciding, Deciding
<1>5. request'[r] = IF WithinPolicy(q.body, q.profile, m) THEN NextModel(scored) ELSE NextModel(q)
  BY DEF AutoInv, ReadHealth, Current
<1>6. CASE WithinPolicy(q.body, q.profile, m)
  <2> DEFINE next == NextModel(scored)
  <2>1. score \in Nat
    <3>1. q.body.task \in Tasks
      BY <1>1 DEF BodyType
    <3> QED
      BY <1>1, <1>2, <3>1, ScoreType
  <2> HIDE DEF score
  <2>2. /\ next.score = [q.score EXCEPT ![m] = score]
        /\ next.body = q.body /\ next.profile = q.profile /\ next.cursor = q.cursor + 1
        /\ next.phase = IF q.cursor = Len(ModelNames) THEN "choose" ELSE "circuit"
    BY <1>1 DEF Scored, NextModel, RequestType
  <2>3. m \in Eligible(next.score)
    <3>1. q.score \in Scores
      BY <1>1 DEF RequestType, Scores
    <3>2. next.score[m] = score
      BY <1>2, <2>2, <3>1 DEF Scores
    <3> QED
      BY <1>2, <2>1, <3>2 DEF Eligible, NotEligible
  <2> HIDE DEF next
  <2>4. Kept(next, ever[r], always[r])
    BY <1>1, <1>4, <2>1, <2>2, <2>3, KeptWhenPassed
  <2> QED
    BY <1>5, <1>6, <2>4 DEF next
<1>7. CASE ~WithinPolicy(q.body, q.profile, m)
  <2> DEFINE next == NextModel(q)
  <2>1. /\ next.score = q.score /\ next.body = q.body /\ next.profile = q.profile
        /\ next.cursor = q.cursor + 1
        /\ next.phase = IF q.cursor = Len(ModelNames) THEN "choose" ELSE "circuit"
    BY <1>1 DEF NextModel, RequestType
  <2>2. ~Allowed(q.body, q.profile, m)
    BY <1>1, <1>2, <1>7, FiltersAreThePolicy
  <2> HIDE DEF next
  <2>3. Kept(next, ever[r], always[r])
    BY <1>1, <1>4, <2>1, <2>2, KeptWhenPassed
  <2> QED
    BY <1>5, <1>7, <2>3 DEF next
<1> QED
  BY <1>6, <1>7

LEMMA ChooseKeeps ==
    ASSUME AutoInv, NEW r \in Requests, Choose(r), Kept(request[r], ever[r], always[r])
    PROVE  Kept(request'[r], ever[r], always[r])
<1> DEFINE q == request[r]
           best == Best(q.score)
<1>1. LocalInv(q) /\ q.phase = "choose" /\ q \in RequestType /\ q.body \in BodyType
  BY DEF Choose, AutoInv, LocalInv, LocalType, Deciding
<1>2. request'[r] = Outcome(q)
  BY DEF AutoInv, Choose
<1>3. KeptWhileDeciding(q, ever[r], always[r])
  BY <1>1 DEF Kept, Deciding
<1>4. CASE Eligible(q.score) = {}
  <2>1. Outcome(q) = Started("refused", q.kind, q.body, q.profile, NoModel)
    BY <1>4 DEF Outcome
  <2>2. \A m \in always[r] : m \in Models /\ Position(m) < q.cursor
    BY <1>1, <1>3, PositionType, NamesInOrder DEF KeptWhileDeciding
  <2>3. \A m \in always[r] : ~Allowed(q.body, q.profile, m)
    BY <1>3, <1>4, <2>2 DEF KeptWhileDeciding
  <2> QED
    BY <1>2, <2>1, <2>3 DEF Kept, Started, Deciding
<1>5. CASE Eligible(q.score) # {}
  <2>1. best \in Models /\ best \in Eligible(q.score) /\ Allowed(q.body, q.profile, best)
    BY <1>1, <1>5, BestIsBest DEF LocalInv, Deciding, DecisionInv, ScoresAllowed, IsBest
  <2>2. AfterFallback(q.body, best) = best
    BY <1>1, <2>1, FallbackKeepsAllowed
  <2>3. PICK phase \in {"sent", "answered"} :
           Outcome(q) = Started(phase, q.kind, q.body, q.profile, best)
    BY <1>5, <2>2 DEF Outcome
  <2>4. best \in ever[r]
    BY <1>3, <2>1 DEF KeptWhileDeciding
  <2> HIDE DEF best
  <2> QED
    BY <1>2, <2>3, <2>4 DEF Kept, Started, Deciding
<1> QED
  BY <1>4, <1>5

LEMMA WatchInvStep == AutoInv /\ WatchInv /\ [AuditNext]_auditVars => WatchInv'
<1>1. CASE UNCHANGED auditVars
  BY <1>1
     DEF auditVars, WatchInv, UpToDate, IsDeciding, ClosedModels, CircuitOpen
<1>2. ASSUME AutoInv, WatchInv, AuditNext, NEW r \in Requests
      PROVE  UpToDate(r)' /\ Kept(request'[r], ever'[r], always'[r])
  <2> DEFINE q == request[r]
             next == request'[r]
  <2>1. StepOf(r) /\ Audit
    BY <1>2, EveryStepIsStep DEF AuditNext
  <2>2. UpToDate(r) /\ Kept(q, ever[r], always[r])
    BY <1>2 DEF WatchInv
  <2>3. UpToDate(r)'
    <3>1. CASE ~IsDeciding(r)'
      BY <3>1 DEF UpToDate
    <3>2. CASE IsDeciding(r)' /\ ~IsDeciding(r)
      BY <2>1, <3>2, NotesAtStart DEF UpToDate
    <3>3. CASE IsDeciding(r)' /\ IsDeciding(r)
      BY <2>1, <3>3, NotesWhileDeciding DEF UpToDate
    <3> QED
      BY <3>1, <3>2, <3>3
  <2>4. Kept(next, ever'[r], always'[r])
    <3>1. CASE next.phase = "idle"
      BY <3>1 DEF Kept, Deciding
    <3>2. CASE next.phase # "idle" /\ ~IsDeciding(r)' /\ next.profile = NoProfile
      BY <3>2 DEF Kept, IsDeciding
    <3>3. ASSUME Kept(next, ever[r], always[r]), q.phase # "idle", next.phase # "idle",
                 IsDeciding(r)' => IsDeciding(r)
          PROVE  Kept(next, ever'[r], always'[r])
      <4>1. ever[r] \subseteq ever'[r] /\ always'[r] \subseteq always[r]
        BY <2>1, <3>3, NotesWhileDeciding, NotesOfOutcome
      <4> QED
        BY <3>3, <4>1, KeptIsMonotone
    <3>4. CASE UNCHANGED request[r]
      <4>1. IsDeciding(r)' <=> IsDeciding(r)
        BY <3>4 DEF IsDeciding
      <4> QED
        BY <2>2, <3>1, <3>3, <3>4, <4>1
    <3>5. ASSUME q.phase = "idle", NEW kind, NEW body, NEW profile \in DOMAIN Profiles,
                 Became(r, Started("circuit", kind, body, profile, NoModel))
          PROVE  Kept(next, ever'[r], always'[r])
      <4>1. IsDeciding(r)' /\ ~IsDeciding(r)
        BY <3>5 DEF Became, Started, IsDeciding, Deciding
      <4>2. always'[r] \in SUBSET Models
        BY <2>1, <4>1, NotesAtStart DEF ClosedModels
      <4> QED
        BY <3>5, <4>2, KeptAtStart DEF Became
    <3>6. CASE q.phase = "idle" /\ \E kind \in Kinds, body \in BodyType :
               \/ Became(r, Started("refused", kind, body, NoProfile, NoModel))
               \/ \E model : Became(r, Started("sent", kind, body, NoProfile, model))
               \/ \E profile \in DOMAIN Profiles :
                     Became(r, Started("circuit", kind, body, profile, NoModel))
      <4>1. \A phase \in {"refused", "sent"} : \A kind, body, model :
               Became(r, Started(phase, kind, body, NoProfile, model)) =>
                   next.phase # "idle" /\ ~IsDeciding(r)' /\ next.profile = NoProfile
        BY DEF Became, Started, IsDeciding, Deciding
      <4> QED
        BY <3>2, <3>5, <3>6, <4>1
    <3>7. CASE ReadCircuit(r) \/ ReadHealth(r) \/ Choose(r)
      <4>1. IsDeciding(r) /\ q.phase # "idle"
        BY <3>7 DEF ReadCircuit, ReadHealth, Choose, IsDeciding, Deciding
      <4>2. Kept(next, ever[r], always[r])
        BY <1>2, <2>2, <3>7, ReadCircuitKeeps, ReadHealthKeeps, ChooseKeeps
      <4> QED
        BY <3>1, <3>3, <4>1, <4>2
    <3> QED
      BY <2>1, <3>1, <3>4, <3>6, <3>7 DEF StepOf
  <2> QED
    BY <2>3, <2>4
<1> QED
  BY <1>1, <1>2 DEF WatchInv

LEMMA WatchInvInit == AuditInit => WatchInv
<1>1. Idle.phase = "idle"
  BY DEF Idle, Started
<1> QED
  BY <1>1 DEF AuditInit, AutoInit, WatchInv, UpToDate, IsDeciding, Kept, Deciding

LEMMA AuditInvCorrect == AuditSpec => []AutoInv
BY AuditSpecIsAutoSpec, AutoInvCorrect, PTL

(* The inductive invariant of the audit, beside AutoInv.                   *)
THEOREM WatchInvCorrect == AuditSpec => []WatchInv
BY WatchInvInit, WatchInvStep, AuditInvCorrect, PTL DEF AuditSpec

(* For every configuration and interleaving: what an automatic request is  *)
(* sent to had its circuit closed at some moment of the decision.          *)
THEOREM SelectionJustifiedCorrect == AuditSpec => []SelectionJustified
<1>1. WatchInv => SelectionJustified
  BY DEF WatchInv, Kept, SelectionJustified, Decided
<1> QED
  BY <1>1, WatchInvCorrect, PTL

(* And no request is refused while a model that the policy allows had its  *)
(* circuit closed all the time.                                            *)
THEOREM RefusalJustifiedCorrect == AuditSpec => []RefusalJustified
<1>1. WatchInv => RefusalJustified
  BY DEF WatchInv, Kept, RefusalJustified, Unserved
<1> QED
  BY <1>1, WatchInvCorrect, PTL

-----------------------------------------------------------------------------
(* The invariant behind QuietDecisionIsAtomic: while the health seen at    *)
(* the start has not changed, the models passed so far are eligible as the *)
(* filters say of that health, and their scores are of that health.        *)
UsableIn(q, view, m) == Allowed(q.body, q.profile, m) /\ ~view[m].open

ScoreIn(q, view, m) == ScoreWith(q.profile, q.body.task, m, view[m].factor)

PassedIn(q, view, m) ==
    /\ m \in Eligible(q.score) <=> UsableIn(q, view, m)
    /\ m \in Eligible(q.score) => q.score[m] = ScoreIn(q, view, m)

QuietWhileDeciding(q, view) ==
    /\ \A m \in Models : Position(m) < q.cursor => PassedIn(q, view, m)
    /\ q.phase = "health" => ~view[ModelNames[q.cursor]].open
    /\ q.phase = "choose" => q.cursor = Len(ModelNames) + 1

OptimalIn(q, view, best) ==
    /\ best \in Models /\ UsableIn(q, view, best)
    /\ \A m \in Models : UsableIn(q, view, m) /\ m # best =>
          \/ ScoreIn(q, view, best) > ScoreIn(q, view, m)
          \/ ScoreIn(q, view, best) = ScoreIn(q, view, m) /\ Position(best) < Position(m)

Quiet(q, view) ==
    /\ q.phase \in Deciding => QuietWhileDeciding(q, view)
    /\ q.phase \in {"sent", "answered"} /\ q.profile # NoProfile => OptimalIn(q, view, q.model)
    /\ q.phase = "refused" /\ q.profile # NoProfile =>
          \A m \in Models : ~UsableIn(q, view, m)

QuietInv ==
    \A r \in Requests : seen[r] # Changed =>
        /\ IsDeciding(r) => seen[r] = HealthView
        /\ Quiet(request[r], seen[r])

LEMMA QuietAtStart ==
    ASSUME NEW kind, NEW body, NEW profile, NEW view
    PROVE  Quiet(Started("circuit", kind, body, profile, NoModel), view)
<1> DEFINE q == Started("circuit", kind, body, profile, NoModel)
<1>1. q.phase = "circuit" /\ q.cursor = 1
  BY DEF Started
<1>2. \A m \in Models : ~(Position(m) < 1)
  BY PositionType, NamesInOrder
<1> HIDE DEF q
<1>3. QuietWhileDeciding(q, view)
  BY <1>1, <1>2 DEF QuietWhileDeciding
<1> QED
  BY <1>1, <1>3 DEF Quiet, q

(* The walk passes a model that is not usable.                             *)
LEMMA QuietWhenSkipped ==
    ASSUME NEW q, LocalInv(q), q.phase \in {"circuit", "health"}, NEW view, Quiet(q, view),
           ~UsableIn(q, view, ModelNames[q.cursor])
    PROVE  Quiet(NextModel(q), view)
<1> DEFINE m == ModelNames[q.cursor]
           next == NextModel(q)
<1>1. q.cursor \in DOMAIN ModelNames /\ q \in RequestType /\ DecisionInv(q)
  BY DEF LocalInv, LocalType, Deciding
<1>2. /\ next.score = q.score /\ next.body = q.body /\ next.profile = q.profile
      /\ next.cursor = q.cursor + 1
      /\ next.phase = IF q.cursor = Len(ModelNames) THEN "choose" ELSE "circuit"
  BY <1>1 DEF NextModel, RequestType
<1>3. m \in Models /\ Position(m) = q.cursor /\ q.cursor \in Int
  BY <1>1, ModelAt, NamesInOrder
<1>4. m \notin Eligible(q.score)
  BY <1>1, <1>3 DEF DecisionInv, ScoresAllowed
<1>5. QuietWhileDeciding(q, view)
  BY DEF Quiet, Deciding
<1> HIDE DEF next, m
<1>6. ASSUME NEW x \in Models, Position(x) < next.cursor
      PROVE  PassedIn(next, view, x)
  <2>1. CASE x = m
    BY <1>2, <1>4, <2>1 DEF PassedIn, UsableIn, m
  <2>2. CASE x # m
    <3>1. Position(x) \in Int /\ ModelNames[Position(x)] = x
      BY PositionType, NamesInOrder
    <3>2. Position(x) < q.cursor
      BY <1>2, <1>3, <1>6, <2>2, <3>1 DEF m
    <3> QED
      BY <1>2, <1>5, <3>2 DEF QuietWhileDeciding, PassedIn, UsableIn, ScoreIn
  <2> QED
    BY <2>1, <2>2
<1>7. QuietWhileDeciding(next, view)
  BY <1>2, <1>6 DEF QuietWhileDeciding
<1> QED
  BY <1>2, <1>7 DEF Quiet, next

(* It passes a usable model and gives it its score.                        *)
LEMMA QuietWhenScored ==
    ASSUME NEW q, LocalInv(q), q.phase = "health", NEW view, Quiet(q, view),
           UsableIn(q, view, ModelNames[q.cursor]),
           ScoreIn(q, view, ModelNames[q.cursor]) \in Nat
    PROVE  Quiet(NextModel(Scored(q, ModelNames[q.cursor],
                                  ScoreIn(q, view, ModelNames[q.cursor]))), view)
<1> DEFINE m == ModelNames[q.cursor]
           score == ScoreIn(q, view, m)
           next == NextModel(Scored(q, m, score))
<1>1. q.cursor \in DOMAIN ModelNames /\ q \in RequestType
  BY DEF LocalInv, LocalType
<1>2. m \in Models /\ Position(m) = q.cursor /\ q.cursor \in Int
  BY <1>1, ModelAt, NamesInOrder
<1>3. QuietWhileDeciding(q, view)
  BY DEF Quiet, Deciding
<1> HIDE DEF m, score
<1>4. /\ next.score = [q.score EXCEPT ![m] = score]
      /\ next.body = q.body /\ next.profile = q.profile /\ next.cursor = q.cursor + 1
      /\ next.phase = IF q.cursor = Len(ModelNames) THEN "choose" ELSE "circuit"
  BY <1>1 DEF Scored, NextModel, RequestType
<1>5. q.score \in Scores
  BY <1>1 DEF RequestType, Scores
<1>6. next.score[m] = score /\ \A x \in Models : x # m => next.score[x] = q.score[x]
  BY <1>2, <1>4, <1>5 DEF Scores
<1>7. score \in Nat /\ UsableIn(q, view, m)
  BY DEF score, m
<1> HIDE DEF next
<1>8. ASSUME NEW x \in Models, Position(x) < next.cursor
      PROVE  PassedIn(next, view, x)
  <2>1. CASE x = m
    <3>1. x \in Eligible(next.score)
      BY <1>6, <1>7, <2>1 DEF Eligible, NotEligible
    <3>2. UsableIn(next, view, x) /\ next.score[x] = ScoreIn(next, view, x)
      BY <1>4, <1>6, <1>7, <2>1 DEF UsableIn, ScoreIn, score
    <3> QED
      BY <3>1, <3>2 DEF PassedIn
  <2>2. CASE x # m
    <3>1. Position(x) \in Int /\ ModelNames[Position(x)] = x
      BY PositionType, NamesInOrder
    <3>2. Position(x) < q.cursor
      BY <1>2, <1>4, <1>8, <2>2, <3>1 DEF m
    <3>3. PassedIn(q, view, x)
      BY <1>3, <3>2 DEF QuietWhileDeciding
    <3>4. x \in Eligible(next.score) <=> x \in Eligible(q.score)
      BY <1>6, <2>2 DEF Eligible
    <3> QED
      BY <1>4, <1>6, <2>2, <3>3, <3>4 DEF PassedIn, UsableIn, ScoreIn
  <2> QED
    BY <2>1, <2>2
<1>9. QuietWhileDeciding(next, view)
  BY <1>4, <1>8 DEF QuietWhileDeciding
<1> QED
  BY <1>4, <1>9 DEF Quiet, next, score, m

(* All are passed: the best of the eligible ones is the optimum, and if    *)
(* there is none, no model is usable.                                      *)
LEMMA QuietWhenChosen ==
    ASSUME NEW q, LocalInv(q), q.phase = "choose", NEW view, Quiet(q, view)
    PROVE  Quiet(Outcome(q), view)
<1> DEFINE best == Best(q.score)
<1>1. q \in RequestType /\ q.body \in BodyType /\ DecisionInv(q)
  BY DEF LocalInv, LocalType, Deciding
<1>2. \A m \in Models : PassedIn(q, view, m)
  <2>1. QuietWhileDeciding(q, view) /\ q.cursor = Len(ModelNames) + 1
    BY DEF Quiet, Deciding, QuietWhileDeciding
  <2>2. \A m \in Models : Position(m) < q.cursor
    BY <2>1, PositionType, NamesInOrder
  <2> QED
    BY <2>1, <2>2 DEF QuietWhileDeciding
<1>3. CASE Eligible(q.score) = {}
  <2>1. Outcome(q) = Started("refused", q.kind, q.body, q.profile, NoModel)
    BY <1>3 DEF Outcome
  <2>2. \A m \in Models : ~UsableIn(q, view, m)
    BY <1>2, <1>3 DEF PassedIn
  <2> QED
    BY <2>1, <2>2 DEF Quiet, Started, Deciding, UsableIn
<1>4. CASE Eligible(q.score) # {}
  <2>1. best \in Models /\ IsBest(q.score, best)
    BY <1>1, <1>4, BestIsBest DEF DecisionInv
  <2>2. best \in Eligible(q.score) /\ Allowed(q.body, q.profile, best)
    BY <1>1, <2>1 DEF IsBest, DecisionInv, ScoresAllowed
  <2>3. AfterFallback(q.body, best) = best
    BY <1>1, <2>1, <2>2, FallbackKeepsAllowed
  <2>4. PICK phase \in {"sent", "answered"} :
           Outcome(q) = Started(phase, q.kind, q.body, q.profile, best)
    BY <1>4, <2>3 DEF Outcome
  <2> HIDE DEF best
  <2>5. ASSUME NEW m \in Models, UsableIn(q, view, m), m # best
        PROVE  \/ ScoreIn(q, view, best) > ScoreIn(q, view, m)
               \/ ScoreIn(q, view, best) = ScoreIn(q, view, m) /\ Position(best) < Position(m)
    <3>1. m \in Eligible(q.score) /\ q.score[m] = ScoreIn(q, view, m)
      BY <1>2, <2>5 DEF PassedIn
    <3>2. q.score[best] = ScoreIn(q, view, best)
      BY <1>2, <2>1, <2>2 DEF PassedIn
    <3>3. Position(best) # Position(m) /\ Position(best) \in Int /\ Position(m) \in Int
      BY <2>1, <2>5, PositionType, NamesInOrder
    <3>4. Beats(q.score, best, m)
      BY <2>1, <3>1 DEF IsBest
    <3> QED
      BY <3>1, <3>2, <3>3, <3>4 DEF Beats
  <2>6. OptimalIn(q, view, best)
    BY <1>2, <2>1, <2>2, <2>5 DEF OptimalIn, PassedIn
  <2> QED
    BY <2>4, <2>6 DEF Quiet, Started, Deciding, OptimalIn, UsableIn, ScoreIn
<1> QED
  BY <1>3, <1>4

LEMMA QuietReadCircuit ==
    ASSUME AutoInv, NEW r \in Requests, ReadCircuit(r), Quiet(request[r], HealthView)
    PROVE  Quiet(request'[r], HealthView)
<1> DEFINE q == request[r]
           m == ModelNames[q.cursor]
<1>1. /\ LocalInv(q) /\ q.phase = "circuit" /\ q \in RequestType
      /\ q.body \in BodyType /\ q.profile \in DOMAIN Profiles /\ q.cursor \in DOMAIN ModelNames
  BY DEF ReadCircuit, AutoInv, LocalInv, LocalType, Deciding
<1>2. m \in Models /\ HealthView[m].open = CircuitOpen(m)
  BY <1>1, ModelAt DEF HealthView
<1>3. request'[r] = IF PassesUpToHealth(q.body, m) THEN [q EXCEPT !.phase = "health"]
                    ELSE NextModel(q)
  BY DEF AutoInv, ReadCircuit, Current
<1>4. CASE PassesUpToHealth(q.body, m)
  <2> DEFINE next == [q EXCEPT !.phase = "health"]
  <2>1. /\ next.phase = "health" /\ next.body = q.body /\ next.profile = q.profile
        /\ next.cursor = q.cursor /\ next.score = q.score
    BY <1>1 DEF RequestType
  <2>2. ~HealthView[m].open
    BY <1>2, <1>4 DEF PassesUpToHealth
  <2>3. QuietWhileDeciding(q, HealthView)
    BY <1>1 DEF Quiet, Deciding
  <2> HIDE DEF next
  <2>4. \A x \in Models : PassedIn(q, HealthView, x) => PassedIn(next, HealthView, x)
    BY <2>1 DEF PassedIn, UsableIn, ScoreIn
  <2>5. QuietWhileDeciding(next, HealthView)
    BY <2>1, <2>2, <2>3, <2>4 DEF QuietWhileDeciding
  <2>6. Quiet(next, HealthView)
    BY <2>1, <2>5 DEF Quiet
  <2> QED
    BY <1>3, <1>4, <2>6 DEF next
<1>5. CASE ~PassesUpToHealth(q.body, m)
  <2>1. Allowed(q.body, q.profile, m) => Considered(q.body, m) /\ Capable(q.body, m)
    BY <1>1, <1>2, FiltersAreThePolicy
  <2>2. ~UsableIn(q, HealthView, m)
    BY <1>2, <1>5, <2>1 DEF PassesUpToHealth, UsableIn
  <2>3. Quiet(NextModel(q), HealthView)
    BY <1>1, <2>2, QuietWhenSkipped
  <2> QED
    BY <1>3, <1>5, <2>3
<1> QED
  BY <1>4, <1>5

LEMMA QuietReadHealth ==
    ASSUME AutoInv, NEW r \in Requests, ReadHealth(r), Quiet(request[r], HealthView)
    PROVE  Quiet(request'[r], HealthView)
<1> DEFINE q == request[r]
           m == ModelNames[q.cursor]
<1>1. /\ LocalInv(q) /\ q.phase = "health" /\ q \in RequestType
      /\ q.body \in BodyType /\ q.profile \in DOMAIN Profiles /\ q.cursor \in DOMAIN ModelNames
      /\ HealthTypeOK
  BY DEF ReadHealth, AutoInv, LocalInv, LocalType, Deciding
<1>2. m \in Models /\ HealthView[m].factor = HealthFactor(m)
  BY <1>1, ModelAt DEF HealthView
<1>3. Considered(q.body, m) /\ Capable(q.body, m)
  BY <1>1 DEF LocalInv, DecisionInv, Deciding
<1>4. ~HealthView[m].open
  BY <1>1 DEF Quiet, QuietWhileDeciding, Deciding
<1>5. ScoreIn(q, HealthView, m) = ScoreWith(q.profile, q.body.task, m, HealthFactor(m))
  BY <1>2 DEF ScoreIn
<1>6. request'[r] = IF WithinPolicy(q.body, q.profile, m)
                    THEN NextModel(Scored(q, m, ScoreIn(q, HealthView, m))) ELSE NextModel(q)
  BY <1>5 DEF AutoInv, ReadHealth, Current
<1>7. CASE WithinPolicy(q.body, q.profile, m)
  <2>1. UsableIn(q, HealthView, m)
    BY <1>1, <1>2, <1>3, <1>4, <1>7, FiltersAreThePolicy DEF UsableIn
  <2>2. ScoreIn(q, HealthView, m) \in Nat
    <3>1. q.body.task \in Tasks
      BY <1>1 DEF BodyType
    <3> QED
      BY <1>1, <1>2, <1>5, <3>1, ScoreType
  <2>3. Quiet(NextModel(Scored(q, m, ScoreIn(q, HealthView, m))), HealthView)
    BY <1>1, <2>1, <2>2, QuietWhenScored
  <2> QED
    BY <1>6, <1>7, <2>3
<1>8. CASE ~WithinPolicy(q.body, q.profile, m)
  <2>1. ~UsableIn(q, HealthView, m)
    BY <1>1, <1>2, <1>8, FiltersAreThePolicy DEF UsableIn
  <2>2. Quiet(NextModel(q), HealthView)
    BY <1>1, <2>1, QuietWhenSkipped
  <2> QED
    BY <1>6, <1>8, <2>2
<1> QED
  BY <1>7, <1>8

LEMMA QuietChoose ==
    ASSUME AutoInv, NEW r \in Requests, Choose(r), Quiet(request[r], HealthView)
    PROVE  Quiet(request'[r], HealthView)
<1>1. request[r].phase = "choose" /\ LocalInv(request[r]) /\ request'[r] = Outcome(request[r])
  BY DEF AutoInv, Choose
<1> QED
  BY <1>1, QuietWhenChosen

LEMMA QuietInvStep == AutoInv /\ QuietInv /\ [AuditNext]_auditVars => QuietInv'
<1>1. CASE UNCHANGED auditVars
  <2>1. UNCHANGED healthVars => HealthView' = HealthView
    BY HealthSeenUnchanged
  <2> QED
    BY <1>1, <2>1 DEF auditVars, healthVars, QuietInv, IsDeciding
<1>2. ASSUME AutoInv, QuietInv, AuditNext, NEW r \in Requests, seen'[r] # Changed
      PROVE  (IsDeciding(r)' => seen'[r] = HealthView') /\ Quiet(request'[r], seen'[r])
  <2> DEFINE q == request[r]
             next == request'[r]
  <2>1. StepOf(r) /\ Audit
    BY <1>2, EveryStepIsStep DEF AuditNext
  <2>2. seen[r] # Changed => (IsDeciding(r) => seen[r] = HealthView) /\ Quiet(q, seen[r])
    BY <1>2 DEF QuietInv
  <2>3. IsDeciding(r) /\ IsDeciding(r)' => HealthView' = HealthView /\ seen'[r] = seen[r]
    BY <1>2, <2>1, NotesWhileDeciding
  <2>4. IsDeciding(r)' => seen'[r] = HealthView'
    BY <1>2, <2>1, <2>2, <2>3, NotesAtStart
  <2>5. Quiet(next, seen'[r])
    <3>1. CASE next.phase = "idle"
      BY <3>1 DEF Quiet, Deciding
    <3>2. CASE next.phase # "idle" /\ ~IsDeciding(r)' /\ next.profile = NoProfile
      BY <3>2 DEF Quiet, IsDeciding
    <3>3. ASSUME q.phase # "idle", next.phase # "idle", IsDeciding(r)' => IsDeciding(r)
          PROVE  seen'[r] = seen[r]
      BY <2>1, <2>3, <3>3, NotesOfOutcome
    <3>4. CASE UNCHANGED request[r]
      <4>1. IsDeciding(r)' <=> IsDeciding(r)
        BY <3>4 DEF IsDeciding
      <4> QED
        BY <1>2, <2>2, <3>1, <3>3, <3>4, <4>1
    <3>5. CASE q.phase = "idle" /\ \E kind \in Kinds, body \in BodyType :
               \/ Became(r, Started("refused", kind, body, NoProfile, NoModel))
               \/ \E model : Became(r, Started("sent", kind, body, NoProfile, model))
               \/ \E profile \in DOMAIN Profiles :
                     Became(r, Started("circuit", kind, body, profile, NoModel))
      <4>1. \A phase \in {"refused", "sent"} : \A kind, body, model :
               Became(r, Started(phase, kind, body, NoProfile, model)) =>
                   next.phase # "idle" /\ ~IsDeciding(r)' /\ next.profile = NoProfile
        BY DEF Became, Started, IsDeciding, Deciding
      <4>2. \A kind, body, profile :
               Became(r, Started("circuit", kind, body, profile, NoModel)) =>
                   Quiet(next, seen'[r])
        BY QuietAtStart DEF Became
      <4> QED
        BY <3>2, <3>5, <4>1, <4>2
    <3>6. CASE ReadCircuit(r) \/ ReadHealth(r) \/ Choose(r)
      <4>1. IsDeciding(r) /\ q.phase # "idle"
        BY <3>6 DEF ReadCircuit, ReadHealth, Choose, IsDeciding, Deciding
      <4>2. next.phase # "idle" => seen'[r] = seen[r] /\ seen[r] = HealthView
        BY <1>2, <2>2, <3>3, <4>1
      <4>3. next.phase # "idle" => Quiet(next, HealthView)
        BY <1>2, <2>2, <3>6, <4>2, QuietReadCircuit, QuietReadHealth, QuietChoose
      <4> QED
        BY <3>1, <4>2, <4>3
    <3> QED
      BY <2>1, <3>1, <3>4, <3>5, <3>6 DEF StepOf
  <2> QED
    BY <2>4, <2>5
<1> QED
  BY <1>1, <1>2 DEF QuietInv

THEOREM QuietInvCorrect == AuditSpec => []QuietInv
<1>1. AuditInit => QuietInv
  BY DEF AuditInit, QuietInv
<1> QED
  BY <1>1, QuietInvStep, AuditInvCorrect, PTL DEF AuditSpec

(* For every configuration: a decision during which no health changed has  *)
(* the outcome of an atomic one, the optimum of the health it saw.         *)
THEOREM QuietDecisionIsAtomicCorrect == AuditSpec => []QuietDecisionIsAtomic
<1>1. QuietInv => QuietDecisionIsAtomic
  <2> SUFFICES ASSUME QuietInv, NEW r \in Requests, seen[r] # Changed
               PROVE  LET q == request[r]
                          view == seen[r]
                          usable == {m \in Models : UsableIn(q, view, m)}
                      IN /\ Decided(r) =>
                              /\ q.model \in usable
                              /\ \A m \in usable \ {q.model} :
                                    \/ ScoreIn(q, view, q.model) > ScoreIn(q, view, m)
                                    \/ /\ ScoreIn(q, view, q.model) = ScoreIn(q, view, m)
                                       /\ Position(q.model) < Position(m)
                         /\ Unserved(r) => usable = {}
    BY DEF QuietDecisionIsAtomic, UsableIn, ScoreIn
  <2>1. Quiet(request[r], seen[r])
    BY DEF QuietInv
  <2>2. Decided(r) => OptimalIn(request[r], seen[r], request[r].model)
    BY <2>1 DEF Quiet, Decided
  <2>3. Unserved(r) => \A m \in Models : ~UsableIn(request[r], seen[r], m)
    BY <2>1 DEF Quiet, Unserved
  <2> QED
    BY <2>2, <2>3 DEF OptimalIn
<1> QED
  BY <1>1, QuietInvCorrect, PTL
=============================================================================
