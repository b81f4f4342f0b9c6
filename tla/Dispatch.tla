------------------------------- MODULE Dispatch -------------------------------
(***************************************************************************)
(* A request on its way from Codex to a provider, once the configuration   *)
(* has been accepted: the gateway decides where it goes and writes another *)
(* model name into it, the plugin inside Bifrost reads that name again to  *)
(* choose the credential, and once more, after Bifrost has split it, to    *)
(* choose provider and conversion.  Both validated the same configuration. *)
(* Clients may also talk to Bifrost directly.  The answer passes back both *)
(* processes; each observes it under the name it kept.                     *)
(***************************************************************************)
EXTENDS Catalog

CONSTANTS
    DirectLists,    \* what ChatGPT may answer when asked for its models
    Offers,         \* what Bifrost's providers may offer
    Adapters        \* name of an entry or a provider -> the adapter it names

VARIABLES
    shown,      \* the list of models the client was shown last
    request     \* the request under way

dispatchVars == <<given, providers, models, fallback, owned, index, pending, phase, shown, request>>

ASSUME DispatchConstants ==
    /\ DirectLists \cup Offers \subseteq Seq(Listing)
    /\ \A list \in DirectLists \cup Offers : \A i \in DOMAIN list : Said(list[i].name)
    /\ \A n \in Asked : Said(n)
    /\ DOMAIN Adapters \subseteq Name
    /\ Adapters \in [DOMAIN Adapters -> {"native", "chat"}]

NoListing == [name |-> NoName, window |-> 0, label |-> <<>>]

Nowhere == [provider |-> "", upstream |-> NoName]

(* Tools of a request: none that matter, hosted by the provider, or of a   *)
(* type that is neither hosted nor a function or namespace.                *)
Tools == {"portable", "hosted", "other"}

Idle ==
    [stage |-> "idle", via |-> "gateway", name |-> NoName, picked |-> NoListing,
     tools |-> "portable", bearer |-> FALSE, virtualKey |-> FALSE,
     selected |-> NoName,       \* what automatic routing chose
     target |-> Unresolved,     \* what the first process to resolve it found
     body |-> NoName,           \* the model in the body by now
     path |-> "responses",      \* where the gateway sends it within Bifrost
     token |-> FALSE,           \* the caller's own token is used
     observed |-> NoName,       \* the key of the engine that decided the route
     dest |-> Nowhere, converted |-> FALSE, error |-> ""]

Refuse(why) == request' = [request EXCEPT !.stage = "refused", !.error = why]

-----------------------------------------------------------------------------
(* serveModels, with client_version; and without it while the direct list  *)
(* is out of reach.  Where the gateway answers 502 nothing is shown.       *)
FetchModels ==
    /\ request = Idle /\ shown = <<>>
    /\ \E offered \in Offers :
          \/ shown' = ServedWithoutDirect(offered)
          \/ shown' = ServedUnversioned(offered)
          \/ \E direct \in DirectLists : shown' = ServedWithDirect(direct, offered)
    /\ UNCHANGED request

(* Codex picks a model it was shown.                                       *)
Pick ==
    /\ request = Idle
    /\ \E i \in DOMAIN shown, tools \in {"portable", "hosted"} :
          request' = [Idle EXCEPT !.stage = "gateway", !.name = shown[i].name, !.picked = shown[i],
                                  !.tools = tools, !.bearer = TRUE, !.virtualKey = TRUE]
    /\ shown' = <<>>

(* Any client asks for any model, at the gateway or at Bifrost.            *)
Ask ==
    /\ request = Idle /\ shown = <<>>
    /\ \E at \in {"gateway", "plugin"}, n \in Asked, tools \in Tools, bearer, key \in BOOLEAN :
          request' = [Idle EXCEPT !.stage = at, !.via = at, !.name = n, !.tools = tools,
                                  !.bearer = bearer, !.virtualKey = key]
    /\ UNCHANGED shown

-----------------------------------------------------------------------------
(* Engine.Rewrite: which of the models it may route to automatic routing   *)
(* selects depends on the health and the rest of the body; so does whether *)
(* there is one.  Any other name is left alone.                            *)
Selectable(tools) ==
    {models[k].slug : k \in {j \in Routable : /\ models[j].mode # "unsupported"
                                              /\ tools = "hosted" => models[j].mode = "native"}}

Rewritten(n, tools) == IF n \in AutoNames THEN Selectable(tools) ELSE {n}

FallbackForAll(n, tools) == IF tools = "hosted" /\ fallback # NoName THEN fallback ELSE n

FallbackForSlug(n, tools) ==
    IF /\ tools = "hosted" /\ fallback # NoName
       /\ \E k \in DOMAIN models : models[k].slug = n /\ models[k].mode = "chat_polyfill"
    THEN fallback ELSE n

(* ApplyHostedToolFallback.                                                *)
AfterFallback(n, tools) ==
    IF /\ tools = "hosted" /\ fallback # NoName
       /\ Answer(n) # Unresolved /\ Answer(n).mode = "chat_polyfill"
    THEN fallback ELSE n

(* The name in the body, whether the gateway has rewritten it or not.      *)
Arrived == OrDefault(request.body, NoName, request.name)

RefuseRoute ==
    /\ request.stage \in {"gateway", "plugin"}
    /\ Arrived \in AutoNames
    /\ Refuse("route_unavailable")
    /\ UNCHANGED shown

Selected(n, slug) == IF n \in AutoNames THEN slug ELSE NoName

SentAsSlug(r) == r.slug

(* serveResponses: what a request for r says when it leaves the gateway.   *)
SentName(r) ==
    IF IsPassthrough(r) THEN r.upstream
    ELSE [r.upstream EXCEPT !.path = <<r.provider>> \o r.upstream.path]

GatewayRoutes ==
    /\ request.stage = "gateway"
    /\ \E routed \in Rewritten(request.name, request.tools) :
          LET r == Answer(AfterFallback(routed, request.tools))
          IN  IF r = Unresolved THEN Refuse("unresolved_model")
              ELSE request' = [request EXCEPT !.stage = "plugin", !.target = r, !.body = SentName(r),
                                  !.path = IF IsPassthrough(r) THEN "chatgpt" ELSE "responses",
                                  !.selected = Selected(request.name, routed),
                                  !.observed = r.slug]
    /\ UNCHANGED shown

(* The proxy's ErrorHandler: Bifrost is out of reach, nothing is observed. *)
BifrostUnreachable ==
    /\ request.stage = "plugin" /\ request.via = "gateway"
    /\ Refuse("upstream_unavailable")
    /\ UNCHANGED shown

KeepsBearer(r) == request.bearer

(* credentials.Decide: whether the caller's token is the key to be used;    *)
(* otherwise it is stripped and a key that Bifrost has stored is used.     *)
UsesCallersToken(r) == IsPassthrough(r)

(* HTTPTransportPreAuthHook: rewrite, fall back, decide on the credential. *)
Authorized(r, routed, body) ==
    [request EXCEPT !.stage = "split", !.body = body, !.token = UsesCallersToken(r),
                    !.target = IF request.via = "plugin" THEN r ELSE request.target,
                    !.selected = IF request.via = "plugin" THEN Selected(request.name, routed) ELSE request.selected,
                    !.observed = IF request.via = "plugin" THEN body ELSE request.observed]

PluginAuthorizesUnresolved ==
    /\ request.stage = "plugin"
    /\ \E routed \in Rewritten(Arrived, request.tools) :
          LET body == AfterFallback(routed, request.tools)
          IN  request' = Authorized(Answer(body), routed, body)
    /\ UNCHANGED shown

PluginAuthorizes ==
    /\ request.stage = "plugin"
    /\ \E routed \in Rewritten(Arrived, request.tools) :
          LET body == AfterFallback(routed, request.tools)
              r == Answer(body)
          IN  IF r = Unresolved THEN Refuse("unresolved_model")
              ELSE IF IsPassthrough(r) /\ ~request.virtualKey THEN Refuse("missing_bifrost_auth")
              ELSE IF IsPassthrough(r) /\ ~request.bearer THEN Refuse("missing_openai_auth")
              ELSE request' = Authorized(r, routed, body)
    /\ UNCHANGED shown

(* The ChatGPT path of Bifrost takes the model in the body as it is.       *)
PassThrough ==
    /\ request.stage = "split" /\ request.path = "chatgpt"
    /\ request' = [request EXCEPT !.stage = "sent",
                                  !.dest = [provider |-> "openai", upstream |-> request.body]]
    /\ UNCHANGED shown

(* Bifrost splits provider/model, a provider of the router's configuration *)
(* always, what else stands before a slash perhaps.                        *)
Splits(n) ==
    IF ~HasSlash(n) THEN {""}
    ELSE IF n.path[1] \in DOMAIN providers THEN {n.path[1]}
    ELSE {"", n.path[1]}

(* An entry that names no adapter has its provider's, and that is by        *)
(* default "native", which checks nothing, unless the provider converts.   *)
AdapterOf(r) ==
    LET ofProvider == [path |-> <<r.provider>>, marks |-> <<>>]
    IN  IF ConfiguredTarget(r) /\ r.base \in DOMAIN Adapters THEN Adapters[r.base]
        ELSE IF ofProvider \in DOMAIN Adapters THEN Adapters[ofProvider]
        ELSE IF providers[r.provider].mode = "chat_polyfill" THEN "chat" ELSE "native"

(* chatAdapter.Validate, which every adapter but native begins with.       *)
Convertible(r, tools) == tools = "portable" \/ AdapterOf(r) = "native"

(* PreLLMHook joins the parts again and resolves the name a last time; the *)
(* adapter of a chat completions model refuses what it cannot convert.     *)
SendTo(r) ==
    request' = [request EXCEPT !.stage = "sent", !.converted = (r.mode = "chat_polyfill"),
                               !.dest = [provider |-> r.provider, upstream |-> r.upstream]]

PluginDispatches ==
    /\ request.stage = "split" /\ request.path = "responses"
    /\ \E provider \in Splits(request.body) :
          LET r == Answer(request.body)
          IN  IF provider \notin DOMAIN providers \cup {""} \/ r = Unresolved
              THEN Refuse("unresolved_model")
              ELSE IF r.mode = "unsupported" THEN Refuse("responses_unsupported")
              ELSE IF r.mode = "chat_polyfill" /\ ~Convertible(r, request.tools)
              THEN Refuse("hosted_tool_unsupported")
              ELSE SendTo(r)
    /\ UNCHANGED shown

(* The provider answers, well or not: the engine that decided the route    *)
(* observes the status under the key it kept.                              *)
Respond ==
    /\ request.stage = "sent"
    /\ request' = [request EXCEPT !.stage = "answered"]
    /\ UNCHANGED shown

Leave ==
    /\ request.stage \in {"answered", "refused"}
    /\ request' = Idle
    /\ UNCHANGED shown

DispatchInit == ConfigInit /\ shown = <<>> /\ request = Idle

Validate == ConfigNext /\ UNCHANGED <<shown, request>>

Serve ==
    /\ phase = "accepted"
    /\ \/ FetchModels \/ Pick \/ Ask
       \/ GatewayRoutes \/ RefuseRoute \/ BifrostUnreachable
       \/ PluginAuthorizes \/ PassThrough \/ PluginDispatches
       \/ Respond \/ Leave
    /\ UNCHANGED validationVars

DispatchNext == Validate \/ Serve

DispatchSpec == DispatchInit /\ [][DispatchNext]_dispatchVars
-----------------------------------------------------------------------------
Refusals ==
    {"route_unavailable", "unresolved_model", "upstream_unavailable", "missing_bifrost_auth",
     "missing_openai_auth", "responses_unsupported", "hosted_tool_unsupported"}

RequestType ==
    [stage : {"idle", "gateway", "plugin", "split", "sent", "answered", "refused"},
     via : {"gateway", "plugin"}, name : Name, picked : Listing,
     tools : Tools, bearer : BOOLEAN, virtualKey : BOOLEAN,
     selected : Name, target : {request.target}, body : Name, path : {"responses", "chatgpt"},
     token : BOOLEAN, observed : Name,
     dest : [provider : DOMAIN providers \cup {"", "openai"}, upstream : Name],
     converted : BOOLEAN, error : {""} \cup Refusals]

(* Every variable has its type; what is shown has a name; a request that   *)
(* got past the process that resolved it first has a target.               *)
DispatchTypeOK ==
    /\ ConfigTypeOK
    /\ shown \in Seq(Listing) /\ \A i \in DOMAIN shown : Said(shown[i].name)
    /\ request \in RequestType
    /\ request.target = Unresolved \/ request.target.provider \in DOMAIN providers
    /\ request.stage \in {"split", "sent", "answered"} => request.target # Unresolved
    /\ phase # "accepted" => request = Idle /\ shown = <<>>

(* The name the gateway sends for r is r's own: a configured model is its  *)
(* provider's model of the name its slug has, and no entry answers to what *)
(* is sent for a discovered one, nor does a virtual model.                 *)
Canonical(r) ==
    /\ SentName(r) \notin AutoNames
    /\ IF ConfiguredTarget(r)
       THEN r.base = [r.upstream EXCEPT !.path = <<r.provider>> \o r.upstream.path]
       ELSE /\ SentName(r) \notin DOMAIN index
            /\ ~LooksLikeUnknownVariant(index, SentName(r))
            /\ DiscoveryProvider(SentName(r)) = r.provider

(* The fallback is kept as the published name of the model it was given as. *)
(* That name may be another model's (see PublishedEntriesRoute), which no  *)
(* check after that would notice.                                          *)
FallbackRoutes == fallback # NoName => MayBeFallback(providers, Answer(fallback))

Underway == request.stage \in {"sent", "answered"}

(* What the first process found is what is served: three resolutions in    *)
(* two processes, with a name rewritten, split and joined in between, agree *)
(* on provider, upstream model and conversion, the caller's token is used  *)
(* exactly for the provider that wants it, and the plugin does not refuse  *)
(* as unknown what the gateway has resolved.                               *)
ServedAsResolved ==
    LET r == request.target
    IN  /\ Underway /\ (request.via = "plugin" \/ (Canonical(r) /\ FallbackRoutes)) =>
              /\ request.dest = [provider |-> r.provider, upstream |-> r.upstream]
              /\ request.token <=> IsPassthrough(r)
              /\ request.path = "responses" => (request.converted <=> r.mode = "chat_polyfill")
        /\ request.error = "unresolved_model" /\ request.via = "gateway" /\ r # Unresolved
              => ~(Canonical(r) /\ FallbackRoutes)

(* Where there is a fallback, no request for hosted tools is converted to  *)
(* chat completions, by whatever name it asked and wherever it entered,    *)
(* although an adapter may let such tools pass and a name that the gateway *)
(* sends may resolve to another model in the plugin; as long as the name   *)
(* the fallback is kept by leads to a native model.                        *)
HostedToolsRunNatively ==
    Underway /\ request.tools = "hosted" /\ fallback # NoName /\ FallbackRoutes
        => ~request.converted

(* Whatever the configuration calls its models and whatever name is asked, *)
(* the caller's own token is used for OpenAI only, although the gateway    *)
(* chose the path and the plugin the credential.                           *)
TokenReachesOpenAIOnly == Underway /\ request.token => request.dest.provider = "openai"

(* The answer to an automatic request counts, in the engine that decided   *)
(* it, for the model it selected, under the slug that decide reads the     *)
(* circuits by; and that model is the one that answered.  Hosted tools     *)
(* never send it elsewhere.                                                *)
SelectedModelIsObserved ==
    Underway /\ request.selected # NoName =>
        /\ request.observed = request.selected
        /\ request.target.slug = request.selected
        /\ Canonical(request.target) =>
              request.dest = [provider |-> request.target.provider, upstream |-> request.target.upstream]

(* docs/configuration.md: a managed model's name ends in its hosting       *)
(* source.  A model that was picked from the list is served by the host    *)
(* its label ends in, and a variant has the window it was listed with,     *)
(* shown before the host: the label has passed the plugin and the gateway, *)
(* which both decorate.  Only a variant may show the host twice, if the    *)
(* provider's own name for its base model ends in it.                      *)
ExpectedLabel(r, host) ==
    (IF r.window # 0 THEN <<"window">> ELSE <<>>) \o (IF host = "openai" THEN <<>> ELSE <<host>>)

ListedAsServed ==
    LET r == request.target
        expected == ExpectedLabel(r, request.dest.provider)
        label == request.picked.label
    IN  /\ Underway /\ request.picked # NoListing /\ request.tools = "portable"
        /\ request.name \notin AutoNames /\ Canonical(r) /\ PublishedEntriesRoute
        => /\ \/ label = expected
              \/ r.window # 0 /\ label = <<request.dest.provider>> \o expected
           /\ r.window # 0 => request.picked.window = r.window

(* docs/configuration.md: upstream_model controls the provider model sent  *)
(* after resolution.  So the plugin neither refuses as unknown a configured *)
(* model that the gateway has resolved, nor is another upstream model used. *)
UpstreamModelIsSent ==
    (/\ request.target # Unresolved /\ ConfiguredTarget(request.target)
     /\ request.via = "gateway" /\ request.tools = "portable")
    =>  /\ request.error # "unresolved_model"
        /\ Underway => request.dest.upstream = request.target.upstream
=============================================================================
