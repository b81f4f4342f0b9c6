------------------------------ MODULE AutoRoute ------------------------------
(***************************************************************************)
(* The decision plane of the router: Engine.Rewrite, Engine.Preview and    *)
(* Engine.decide of internal/autoroute, run by one goroutine per request,  *)
(* over the health that the responses of earlier requests left behind      *)
(* (RouteHealth).                                                          *)
(*                                                                         *)
(* decide walks the configured models in name order and takes the engine's *)
(* lock twice for each, once for the circuit and once for the health       *)
(* factor.  Between any two of these reads another goroutine may observe a *)
(* response, and time passes.  Everything else in decide is local.         *)
(***************************************************************************)
EXTENDS RouteHealth, Sequences, FiniteSets

CONSTANTS
    Requests,        \* goroutines serving requests
    Arrivals,        \* goroutine -> what it may be given: a kind of call and a body
    ModelNames,      \* Config.ModelNames(): the configured slugs, sorted
    Route,           \* slug -> what the configuration says of the model
    Profiles,        \* Config.AutoRoute.Profiles
    Tasks,           \* what inspect makes of a request's text and tools: its signals
                     \* and complexity
    Merit,           \* profile -> task -> slug -> the part of the score health leaves
                     \* alone: quality, cost, latency, affinity and privacy, weighted
    ObservedAs,      \* name a concrete model may be asked by -> its key in health:
                     \* the resolved slug (gateway) or the name itself (plugin)
    Polyfilled,      \* names whose model is served through chat completions
    HostedFallback,  \* Config.HostedToolFallbackModel, or NoModel
    Enabled,         \* Config.AutoRoute.Enabled
    Aliases,         \* Config.AutoRoute.Aliases: virtual model -> profile
    AutoSuffix,      \* a name with prefix "auto:" -> the rest of it
    DefaultProfile   \* Config.AutoRoute.DefaultProfile

Models == {ModelNames[i] : i \in DOMAIN ModelNames}

Percent == 0..100

NoProfile == ""

NoModel == ""

(* What Config.ApplyDefaultsAndValidate leaves of an explicit model entry. *)
RouteType ==
    [upstream : STRING, disabled : BOOLEAN,
     mode : {"native", "chat_polyfill", "unsupported"},
     maxContext : Nat \ {0}, contextPercent : 1..100,
     vision : BOOLEAN, search : BOOLEAN, local : BOOLEAN,
     quality : Percent, reliability : Percent, inputCost : Nat, outputCost : Nat,
     strengths : SUBSET STRING]

ProfileType ==
    [minQuality : Percent, maxInputCost : Nat, maxOutputCost : Nat, reliabilityWeight : Nat]

(* POST /v1/responses, or POST /v1/route/preview (the plugin's).           *)
Kinds == {"inference", "preview"}

(* A request: its model field, its ai_route object and what inspect finds. *)
BodyType ==
    [model : STRING, profile : STRING, task : Tasks, minQuality : Int, maxInputCost : Int,
     maxOutputCost : Int, requireLocal : BOOLEAN, strengths : SUBSET STRING,
     exclude : SUBSET STRING,
     tokens : Nat, vision : BOOLEAN, hosted : BOOLEAN, search : BOOLEAN]

ASSUME AutoRouteConstants ==
    /\ ModelNames \in Seq(STRING) /\ ModelNames # <<>>
    /\ \A i, j \in DOMAIN ModelNames : i # j => ModelNames[i] # ModelNames[j]
    /\ Keys \subseteq STRING
    /\ DOMAIN Route = Models
    /\ \A m \in Models :
          /\ Route[m] \in RouteType
          /\ Route[m].mode = "chat_polyfill" => ~Route[m].search /\ ~Route[m].vision
          /\ m \in Polyfilled <=> Route[m].mode = "chat_polyfill"
          /\ m \in DOMAIN ObservedAs /\ ObservedAs[m] = m
    /\ DOMAIN ObservedAs \subseteq STRING \ {NoModel}
    /\ \A name \in DOMAIN ObservedAs : ObservedAs[name] \in Keys
    /\ HostedFallback \in DOMAIN ObservedAs \cup {NoModel}
    /\ DOMAIN Profiles \subseteq STRING \ {NoProfile}
    /\ \A p \in DOMAIN Profiles : Profiles[p] \in ProfileType
    /\ Merit \in [DOMAIN Profiles -> [Tasks -> [Models -> Nat]]]
    /\ Enabled \in BOOLEAN
    /\ Enabled => /\ DefaultProfile \in DOMAIN Profiles
                  /\ \A a \in DOMAIN Aliases : Aliases[a] \in DOMAIN Profiles
    /\ DOMAIN Arrivals = Requests
    /\ \A r \in Requests : Arrivals[r] \subseteq [kind : Kinds, body : BodyType]

VARIABLE request     \* goroutine -> where it is with its request

autoVars == <<health, now, request>>

-----------------------------------------------------------------------------
(* Reading the configuration and the request.                              *)
(* Engine.resolveProfile: the profile of a virtual model, or NoProfile.    *)
ResolveProfile(name) ==
    IF ~Enabled THEN NoProfile
    ELSE IF name \in DOMAIN Aliases THEN Aliases[name]
    ELSE IF name = "auto" THEN DefaultProfile
    ELSE IF name \in DOMAIN AutoSuffix /\ AutoSuffix[name] \in DOMAIN Profiles
         THEN AutoSuffix[name]
    ELSE NoProfile

(* constraintsFrom: limits out of range are refused.                       *)
ValidConstraints(body) ==
    /\ body.minQuality \in Percent
    /\ body.maxInputCost >= 0
    /\ body.maxOutputCost >= 0

(* The profile Rewrite decides with: ai_route.profile wins.                *)
RewriteProfile(body) ==
    IF body.profile # NoProfile THEN body.profile ELSE ResolveProfile(body.model)

(* The profile Preview decides with: ai_route.profile is read for a name   *)
(* that is not virtual only.                                               *)
PreviewProfile(body) ==
    IF ResolveProfile(body.model) # NoProfile THEN ResolveProfile(body.model)
    ELSE IF body.profile # NoProfile THEN body.profile
    ELSE DefaultProfile

DefaultIfZero(value, fallback) == IF value = 0 THEN fallback ELSE value

Quality(m) == DefaultIfZero(Route[m].quality, 60)

Larger(a, b) == IF a > b THEN a ELSE b

RequestCapWins(a, b) == IF b > 0 THEN b ELSE a

(* positiveMin: 0 means that there is no cap.                              *)
TighterCap(a, b) ==
    IF a <= 0 THEN b ELSE IF b <= 0 THEN a ELSE IF a < b THEN a ELSE b

EffectiveContext(m) ==
    IF Route[m].contextPercent < 100
    THEN (Route[m].maxContext * Route[m].contextPercent) \div 100
    ELSE Route[m].maxContext

-----------------------------------------------------------------------------
(* The hard filters of decide, in the order of the code.                   *)
Considered(body, m) ==
    /\ ~Route[m].disabled
    /\ m \notin body.exclude /\ Route[m].upstream \notin body.exclude
    /\ Route[m].mode # "unsupported"

FitsWithOneToSpare(body, m) == body.tokens < EffectiveContext(m)

Fits(body, m) == body.tokens <= EffectiveContext(m)

Capable(body, m) ==
    /\ Fits(body, m)
    /\ body.vision => Route[m].vision
    /\ body.hosted => Route[m].mode = "native"
    /\ body.search => Route[m].search
    /\ body.requireLocal => Route[m].local

WithinCap(cost, cap) == cap > 0 => cost <= cap

WithinPolicy(body, profile, m) ==
    /\ Quality(m) >= Larger(Profiles[profile].minQuality, body.minQuality)
    /\ WithinCap(Route[m].inputCost,
                 TighterCap(Profiles[profile].maxInputCost, body.maxInputCost))
    /\ WithinCap(Route[m].outputCost,
                 TighterCap(Profiles[profile].maxOutputCost, body.maxOutputCost))
    /\ body.strengths \subseteq Route[m].strengths

(* The score, scaled: the terms health does not touch and the reliability  *)
(* term, which the health factor multiplies.                               *)
ScoreWith(profile, task, m, factor) ==
    Merit[profile][task][m] * Scale
        + Profiles[profile].reliabilityWeight * DefaultIfZero(Route[m].reliability, 99) * factor

(* The candidates: every model has a score, or is not eligible.            *)
NotEligible == -1

NoScores == [m \in Models |-> NotEligible]

Eligible(score) == {m \in Models : score[m] # NotEligible}

Position(m) == CHOOSE i \in DOMAIN ModelNames : ModelNames[i] = m

BestWithHighestName(score) ==
    CHOOSE m \in Eligible(score) :
        \A x \in Eligible(score) :
            \/ score[m] > score[x]
            \/ score[m] = score[x] /\ Position(m) >= Position(x)

(* sort.SliceStable: the highest score first, then the lowest name.        *)
Best(score) ==
    CHOOSE m \in Eligible(score) :
        \A x \in Eligible(score) :
            \/ score[m] > score[x]
            \/ score[m] = score[x] /\ Position(m) <= Position(x)

-----------------------------------------------------------------------------
(* A goroutine's local state.                                              *)
Deciding == {"circuit", "health", "choose"}

Started(phase, kind, body, profile, model) ==
    [phase |-> phase, kind |-> kind, body |-> body, profile |-> profile,
     cursor |-> 1, score |-> NoScores, model |-> model]

Idle == Started("idle", "inference", <<>>, NoProfile, NoModel)

(* ApplyHostedToolFallback: a request with hosted tools does not go to a   *)
(* chat completions model.  The fallback is given the concrete model that  *)
(* was asked for or chosen.                                                *)
AfterFallback(body, model) ==
    IF body.hosted /\ model \in Polyfilled /\ HostedFallback # NoModel
    THEN HostedFallback ELSE model

(* Rewrite and Preview refuse a bad ai_route object or an unknown profile; *)
(* the gateway and the credential policy refuse a model that ResolveModel  *)
(* does not find.                                                          *)
Refused(kind, body) ==
    \/ ~ValidConstraints(body)
    \/ /\ kind = "inference" /\ ResolveProfile(body.model) # NoProfile
       /\ RewriteProfile(body) \notin DOMAIN Profiles
    \/ kind = "preview" /\ PreviewProfile(body) \notin DOMAIN Profiles
    \/ /\ kind = "inference" /\ ResolveProfile(body.model) = NoProfile
       /\ body.model \notin DOMAIN ObservedAs

ReceiveRefused(r, kind, body) ==
    /\ request[r].phase = "idle"
    /\ Refused(kind, body)
    /\ request' = [request EXCEPT ![r] = Started("refused", kind, body, NoProfile, NoModel)]
    /\ UNCHANGED healthVars

(* A concrete model is not decided about, and its circuit is not read.     *)
ReceiveDirect(r, body) ==
    /\ request[r].phase = "idle"
    /\ ~Refused("inference", body)
    /\ ResolveProfile(body.model) = NoProfile
    /\ request' = [request EXCEPT ![r] = Started("sent", "inference", body, NoProfile,
                                                 AfterFallback(body, body.model))]
    /\ UNCHANGED healthVars

ReceiveAuto(r, body) ==
    /\ request[r].phase = "idle"
    /\ ~Refused("inference", body)
    /\ ResolveProfile(body.model) # NoProfile
    /\ request' = [request EXCEPT ![r] = Started("circuit", "inference", body,
                                                 RewriteProfile(body), NoModel)]
    /\ UNCHANGED healthVars

ReceivePreview(r, body) ==
    /\ request[r].phase = "idle"
    /\ ~Refused("preview", body)
    /\ request' = [request EXCEPT ![r] = Started("circuit", "preview", body,
                                                 PreviewProfile(body), NoModel)]
    /\ UNCHANGED healthVars

(* The model a deciding goroutine looks at, and what it does next.         *)
Current(r) == ModelNames[request[r].cursor]

NextModelOnceMore(q) ==
    [q EXCEPT !.cursor = q.cursor + 1,
              !.phase = IF q.cursor > Len(ModelNames) THEN "choose" ELSE "circuit"]

NextModel(q) ==
    [q EXCEPT !.cursor = q.cursor + 1,
              !.phase = IF q.cursor = Len(ModelNames) THEN "choose" ELSE "circuit"]

Scored(q, m, score) == [q EXCEPT !.score = [q.score EXCEPT ![m] = score]]

PassesIgnoringCircuit(body, m) == Considered(body, m) /\ Capable(body, m)

PassesUpToHealth(body, m) == Considered(body, m) /\ ~CircuitOpen(m) /\ Capable(body, m)

(* The filters up to the first read of the health factor.                  *)
ReadCircuit(r) ==
    LET q == request[r] IN
    /\ q.phase = "circuit"
    /\ request' = [request EXCEPT ![r] =
                      IF PassesUpToHealth(q.body, Current(r))
                      THEN [q EXCEPT !.phase = "health"] ELSE NextModel(q)]
    /\ UNCHANGED healthVars

(* The health factor is read, then the remaining filters apply.            *)
ReadHealth(r) ==
    LET q == request[r]
        m == Current(r)
        score == ScoreWith(q.profile, q.body.task, m, HealthFactor(m))
    IN /\ q.phase = "health"
       /\ request' = [request EXCEPT ![r] =
                         IF WithinPolicy(q.body, q.profile, m)
                         THEN NextModel(Scored(q, m, score)) ELSE NextModel(q)]
       /\ UNCHANGED healthVars

(* The candidates are sorted and the best one is the decision: a preview   *)
(* answers it, an inference request is sent to it.                         *)
Outcome(q) ==
    LET done(phase, model) == Started(phase, q.kind, q.body, q.profile, model) IN
    IF Eligible(q.score) = {} THEN done("refused", NoModel)
    ELSE IF q.kind = "preview" THEN done("answered", Best(q.score))
    ELSE done("sent", AfterFallback(q.body, Best(q.score)))

Choose(r) ==
    /\ request[r].phase = "choose"
    /\ request' = [request EXCEPT ![r] = Outcome(@)]
    /\ UNCHANGED healthVars

(* The upstream response starts: its status is observed (ModifyResponse,   *)
(* HTTPTransportPostHook).                                                 *)
Respond(r, status) ==
    /\ request[r].phase = "sent"
    /\ Observe(ObservedAs[request[r].model], status)
    /\ request' = [request EXCEPT ![r] = Idle]

(* No response at all: the proxy's ErrorHandler answers 502 and nothing is *)
(* observed.                                                               *)
TransportError(r) ==
    /\ request[r].phase = "sent"
    /\ request' = [request EXCEPT ![r] = Idle]
    /\ UNCHANGED healthVars

(* The client has its refusal or its preview.                              *)
Finish(r) ==
    /\ request[r].phase \in {"refused", "answered"}
    /\ request' = [request EXCEPT ![r] = Idle]
    /\ UNCHANGED healthVars

TimePasses == Tick /\ UNCHANGED request

(* A new process starts with no health and no request in flight.           *)
ProcessRestarts ==
    /\ Restart
    /\ request' = [r \in Requests |-> Idle]

-----------------------------------------------------------------------------
AutoInit == HealthInit /\ request = [r \in Requests |-> Idle]

Receive(r) ==
    \E arrival \in Arrivals[r] :
        LET kind == arrival.kind
            body == arrival.body
        IN \/ ReceiveRefused(r, kind, body)
           \/ kind = "inference" /\ ReceiveDirect(r, body)
           \/ kind = "inference" /\ ReceiveAuto(r, body)
           \/ kind = "preview" /\ ReceivePreview(r, body)

Decide(r) == ReadCircuit(r) \/ ReadHealth(r) \/ Choose(r)

AutoNext ==
    \/ \E r \in Requests :
          \/ Receive(r)
          \/ Decide(r)
          \/ \E status \in Statuses : Respond(r, status)
          \/ TransportError(r)
          \/ Finish(r)
    \/ TimePasses
    \/ ProcessRestarts

AutoSpec == AutoInit /\ [][AutoNext]_autoVars

-----------------------------------------------------------------------------
Phases == {"idle", "sent", "refused", "answered"} \cup Deciding

RequestType ==
    [phase : Phases, kind : Kinds, body : BodyType \cup {<<>>},
     profile : DOMAIN Profiles \cup {NoProfile}, cursor : 1..(Len(ModelNames) + 1),
     score : [Models -> Nat \cup {NotEligible}], model : DOMAIN ObservedAs \cup {NoModel}]

(* Every goroutine's local state is well formed, and its body, profile and *)
(* cursor are there when it uses them.                                     *)
AutoTypeOK ==
    /\ HealthTypeOK
    /\ request \in [Requests -> RequestType]
    /\ \A r \in Requests :
          /\ request[r].phase # "idle" => request[r].body \in BodyType
          /\ request[r].phase \in Deciding => request[r].profile \in DOMAIN Profiles
          /\ request[r].phase \in {"circuit", "health"} => request[r].cursor \in DOMAIN ModelNames
          /\ request[r].phase = "sent" => request[r].model \in DOMAIN ObservedAs

(* The routing policy, as the documentation states it: what no score can   *)
(* make up for.  A quality of 0 is an unknown one, which counts as 0.60.   *)
WithinLimits(m, limits) ==
    /\ \/ Route[m].quality >= limits.minQuality
       \/ Route[m].quality = 0 /\ 60 >= limits.minQuality
    /\ limits.maxInputCost > 0 => Route[m].inputCost <= limits.maxInputCost
    /\ limits.maxOutputCost > 0 => Route[m].outputCost <= limits.maxOutputCost

Allowed(body, profile, m) ==
    /\ ~Route[m].disabled
    /\ Route[m].mode # "unsupported"
    /\ {m, Route[m].upstream} \cap body.exclude = {}
    /\ 100 * body.tokens <= Route[m].maxContext * Route[m].contextPercent
    /\ body.vision => Route[m].vision
    /\ body.hosted => Route[m].mode = "native"
    /\ body.search => Route[m].search
    /\ body.requireLocal => Route[m].local
    /\ WithinLimits(m, Profiles[profile])
    /\ WithinLimits(m, body)
    /\ \A s \in body.strengths : s \in Route[m].strengths

(* Hard filters happen before soft scoring: whatever the scores, the       *)
(* health of the models and the steps of other requests meanwhile, an      *)
(* automatic request is only ever given a configured model that satisfies  *)
(* both the profile's policy and the request's.                            *)
SelectedSatisfiesPolicy ==
    \A r \in Requests :
        LET q == request[r] IN
        q.phase \in {"sent", "answered"} /\ q.profile # NoProfile =>
            q.model \in Models /\ Allowed(q.body, q.profile, q.model)

-----------------------------------------------------------------------------
(* What the documentation says and the code does not do.                   *)

(* "POST /v1/route/preview accepts the same JSON shape as inference and    *)
(* returns the routing decision": a preview decides with the profile that  *)
(* an inference request with the same body decides with.                   *)
PreviewUsesInferenceProfile ==
    \A r \in Requests :
        LET q == request[r] IN
        q.kind = "preview" /\ q.phase = "answered" /\ ResolveProfile(q.body.model) # NoProfile =>
            q.profile = RewriteProfile(q.body)
=============================================================================
