--------------------------- MODULE ConfigValidation ---------------------------
(***************************************************************************)
(* Config.ApplyDefaultsAndValidate of internal/config: what a process does *)
(* with its configuration before it serves anything.  It goes through the  *)
(* providers and then through the models in the order of a Go map, which   *)
(* is a different one in every run; each turn fills in defaults, checks an *)
(* entry and claims the entry's names.  Then it builds the resolution      *)
(* index, settles the fallback for hosted tools and checks auto_route.     *)
(***************************************************************************)
EXTENDS ModelResolver

CONSTANTS
    Configs,    \* the configurations an operator may have written
    Asked       \* the names clients may ask for

CurrentVersion == 1

DefaultFallback == [path |-> <<"openai", "gpt-6-luna">>, marks |-> <<>>]

(* A decoded configuration: maps from names to entries, so no slug twice;  *)
(* the models stand in name order.  routeValid is what validateAutoRoute   *)
(* will find: it reads only what no default above it touches.              *)
IsConfig(c) ==
    /\ c = [version |-> c.version, fallback |-> c.fallback, routeValid |-> c.routeValid,
            models |-> c.models, providers |-> c.providers]
    /\ c.version \in Nat /\ c.fallback \in Name /\ c.routeValid \in BOOLEAN
    /\ c.models \in Seq(ModelProfile)
    /\ DOMAIN c.providers \subseteq STRING
    /\ c.providers \in [DOMAIN c.providers -> ProviderProfile]
    /\ \A j, k \in DOMAIN c.models : j # k => c.models[j].slug # c.models[k].slug
    /\ \A k \in DOMAIN c.models :
          /\ c.models[k].upstream = NoName \/ Said(c.models[k].upstream)
          /\ \A i \in DOMAIN c.models[k].aliases : Said(c.models[k].aliases[i])

(* owned marks the names of a slug's variants with the slug and "#variant", *)
(* and compares it with slugs: ConfigConstants says no model is called so. *)
VariantOwner(slug) == WithMark(slug, [count |-> 0, unit |-> "#variant"])

ASSUME ConfigConstants ==
    /\ Asked \cup {DefaultFallback} \subseteq Name
    /\ \A c \in Configs :
          /\ IsConfig(c)
          /\ \A j, k \in DOMAIN c.models : c.models[j].slug # VariantOwner(c.models[k].slug)

VARIABLES
    given,       \* the configuration as decoded
    providers,   \* Config.Providers, being completed
    models,      \* Config.Models, being completed
    fallback,    \* Config.HostedToolFallbackModel
    owned,       \* name -> who claimed it
    index,       \* Config.resolutionIndex
    pending,     \* what the loop has not reached yet
    phase        \* where validation is, or how it ended

validationVars == <<given, providers, models, fallback, owned, index, pending, phase>>

-----------------------------------------------------------------------------
(* Defaults and checks of one entry.                                       *)
OrDefault(value, unset, default) == IF value = unset THEN default ELSE value

CompletedProviderWithAdapter(p) ==
    [p EXCEPT !.credential = OrDefault(p.credential, "", "bifrost"),
              !.mode = OrDefault(p.mode, "", "openai-chat")]

CompletedProvider(p) ==
    [p EXCEPT !.credential = OrDefault(p.credential, "", "bifrost"),
              !.mode = OrDefault(p.mode, "", "native")]

(* A chat completions model is text only: no search, no images.            *)
TextOnlyInChat(entry) == entry.mode = "chat_polyfill" => ~entry.nativeOnly

ValidProviderOnly(name, p) ==
    /\ name # ""
    /\ p.wellFormed
    /\ p.credential = Passthrough => name = "openai"

(* validateProvider, and validateModel on what discovered models will get. *)
ValidProvider(name, p) ==
    /\ name # ""
    /\ p.wellFormed
    /\ p.credential = Passthrough => name = "openai"
    /\ p.discovers => TextOnlyInChat(p)

ProviderOf(m) == OrDefault(m.provider, "", m.slug.path[1])

(* The model with its provider's mode, its upstream name, its windows.     *)
CompletedModel(ps, m) ==
    LET window == OrDefault(m.window, 0, 131072)
    IN  [m EXCEPT !.provider = ProviderOf(m),
                  !.mode = OrDefault(m.mode, "", ps[ProviderOf(m)].mode),
                  !.upstream = OrDefault(m.upstream, NoName, AfterSlash(m.slug)),
                  !.window = window,
                  !.maxWindow = OrDefault(m.maxWindow, 0, window)]

ValidVariant(m, i) ==
    /\ m.variants[i] > 0
    /\ m.variants[i] % 1000 = 0
    /\ m.variants[i] <= m.maxWindow

(* An entry before defaults: a slug with a slash and a known provider.     *)
Placed(ps, m) == HasSlash(m.slug) /\ ProviderOf(m) \in DOMAIN ps

(* validateModel and validateVariant, after defaults.                      *)
ValidModel(m) ==
    /\ ~Blank(m.upstream)
    /\ m.wellFormed
    /\ TextOnlyInChat(m)
    /\ m.window > 0
    /\ m.maxWindow >= m.window
    /\ \A i \in DOMAIN m.variants : ValidVariant(m, i)

-----------------------------------------------------------------------------
SlugFree(m) == m.slug \in DOMAIN owned => owned[m.slug] = m.slug

VariantNamesNotOfOthers(m) ==
    \A i \in DOMAIN m.variants : \A n \in VariantNamesOf(m, i) \cap DOMAIN owned : owned[n] = m.slug

(* Claiming names: a model's own names may be its own already, a variant's *)
(* names may be nobody's, the model's other variants included.             *)
OwnNamesFree(m) ==
    \A n \in ModelNamesOf(m) \cap DOMAIN owned : owned[n] = m.slug

VariantNamesFree(m) ==
    \A i \in DOMAIN m.variants :
        VariantNamesOf(m, i) \cap
            (DOMAIN owned \cup ModelNamesOf(m) \cup UNION {VariantNamesOf(m, j) : j \in 1 .. (i - 1)}) = {}

AllNamesOf(m) ==
    ModelNamesOf(m) \cup UNION {VariantNamesOf(m, i) : i \in DOMAIN m.variants}

Claimed(m) ==
    [n \in DOMAIN owned \cup AllNamesOf(m) |->
        IF n \in ModelNamesOf(m) THEN m.slug
        ELSE IF n \in AllNamesOf(m) THEN VariantOwner(m.slug)
        ELSE owned[n]]

(* The fallback for hosted tools must be native and use the caller's token. *)
MayBeFallback(ps, r) ==
    /\ r # Unresolved
    /\ ps[r.provider].credential = Passthrough
    /\ r.mode = "native"

ChosenFallback(ps, ix, name) ==
    LET default == ResolveModel(ps, ix, DefaultFallback)
    IN  IF name = NoName /\ MayBeFallback(ps, default) /\ default.slug = DefaultFallback
        THEN DefaultFallback ELSE name

-----------------------------------------------------------------------------
ConfigInit ==
    /\ given \in Configs
    /\ providers = given.providers
    /\ models = given.models
    /\ fallback = given.fallback
    /\ owned = [n \in {} |-> NoName]
    /\ index = [n \in {} |-> Unresolved]
    /\ pending = {}
    /\ phase = "start"

Reject ==
    /\ phase' = "rejected"
    /\ UNCHANGED <<given, providers, models, fallback, owned, index, pending>>

Worthwhile == given.version \in {0, CurrentVersion} /\ DOMAIN providers # {} /\ models # <<>>

Start ==
    /\ phase = "start"
    /\ IF Worthwhile
       THEN /\ phase' = "providers"
            /\ pending' = DOMAIN providers
            /\ UNCHANGED <<given, providers, models, fallback, owned, index>>
       ELSE Reject

(* One turn of the loop over c.Providers.                                  *)
CompleteProvider(name) ==
    /\ phase = "providers"
    /\ name \in pending
    /\ LET p == CompletedProvider(providers[name])
       IN  IF ValidProvider(name, p)
           THEN /\ providers' = [providers EXCEPT ![name] = p]
                /\ pending' = pending \ {name}
                /\ UNCHANGED <<given, models, fallback, owned, index, phase>>
           ELSE Reject

StartModels ==
    /\ phase = "providers"
    /\ pending = {}
    /\ phase' = "models"
    /\ pending' = DOMAIN models
    /\ UNCHANGED <<given, providers, models, fallback, owned, index>>

(* One turn of the loop over c.Models.                                     *)
CompleteModel(k) ==
    /\ phase = "models"
    /\ k \in pending
    /\ IF Placed(providers, models[k])
       THEN LET m == CompletedModel(providers, models[k])
            IN  IF ValidModel(m) /\ OwnNamesFree(m) /\ VariantNamesFree(m)
                THEN /\ models' = [models EXCEPT ![k] = m]
                     /\ owned' = Claimed(m)
                     /\ pending' = pending \ {k}
                     /\ UNCHANGED <<given, providers, fallback, index, phase>>
                ELSE Reject
       ELSE Reject

(* c.buildResolutionIndex()                                                *)
Index ==
    /\ phase = "models"
    /\ pending = {}
    /\ index' = BuildIndex(providers, models)
    /\ phase' = "indexed"
    /\ UNCHANGED <<given, providers, models, fallback, owned, pending>>

(* The fallback is replaced by the published name of the model it names.   *)
SettleFallback ==
    /\ phase = "indexed"
    /\ LET chosen == ChosenFallback(providers, index, fallback)
           target == ResolveModel(providers, index, chosen)
       IN  IF chosen # NoName /\ ~MayBeFallback(providers, target)
           THEN Reject
           ELSE /\ fallback' = IF chosen = NoName THEN NoName ELSE target.slug
                /\ phase' = "settled"
                /\ UNCHANGED <<given, providers, models, owned, index, pending>>

(* validateAutoRoute                                                       *)
CheckRoutes ==
    /\ phase = "settled"
    /\ IF given.routeValid
       THEN /\ phase' = "accepted"
            /\ UNCHANGED <<given, providers, models, fallback, owned, index, pending>>
       ELSE Reject

ConfigNext ==
    \/ Start
    \/ \E name \in DOMAIN providers : CompleteProvider(name)
    \/ StartModels
    \/ \E k \in DOMAIN models : CompleteModel(k)
    \/ Index
    \/ SettleFallback
    \/ CheckRoutes

ConfigSpec == ConfigInit /\ [][ConfigNext]_validationVars

-----------------------------------------------------------------------------
(* Every variable has its type, and what no loop has reached is as given.  *)
ConfigTypeOK ==
    /\ IsConfig(given)
    /\ providers \in [DOMAIN given.providers -> ProviderProfile]
    /\ models \in [DOMAIN given.models -> ModelProfile]
    /\ fallback \in Name
    /\ DOMAIN owned \subseteq Name /\ \A n \in DOMAIN owned : owned[n] \in Name
    /\ DOMAIN index \subseteq Name
    /\ phase \in {"start", "providers", "models", "indexed", "settled", "accepted", "rejected"}
    /\ phase = "providers" => pending \subseteq DOMAIN given.providers
    /\ phase = "models" => pending \subseteq DOMAIN given.models

CompletedProviders(g) ==
    [name \in DOMAIN g.providers |-> CompletedProvider(g.providers[name])]

CompletedModels(g) ==
    [k \in DOMAIN g.models |-> CompletedModel(CompletedProviders(g), g.models[k])]

NamesDisjoint(ms) ==
    \A e, f \in Entries(ms) : e # f => NamesOf(ms, e) \cap NamesOf(ms, f) = {}

(* What makes a configuration valid, with no loop and no order in it.      *)
Sound(g) ==
    LET ps == CompletedProviders(g)
        ms == CompletedModels(g)
        ix == BuildIndex(ps, ms)
        chosen == ChosenFallback(ps, ix, g.fallback)
    IN  /\ g.version \in {0, CurrentVersion} /\ DOMAIN g.providers # {} /\ g.models # <<>>
        /\ \A name \in DOMAIN ps : ValidProvider(name, ps[name])
        /\ \A k \in DOMAIN g.models : Placed(ps, g.models[k]) /\ ValidModel(ms[k])
        /\ NamesDisjoint(ms)
        /\ chosen # NoName => MayBeFallback(ps, ResolveModel(ps, ix, chosen))
        /\ g.routeValid

(* The verdict depends on the configuration and not on the order of the    *)
(* maps: the loop, whose collision test compares with what was claimed     *)
(* before, accepts exactly the configurations whose models and variants    *)
(* have disjoint names (and are fine otherwise).                           *)
VerdictIgnoresOrder ==
    /\ phase = "accepted" => Sound(given)
    /\ phase = "rejected" => ~Sound(given)

(* Every name that a model or a variant may be asked by leads to it, with  *)
(* its own provider, upstream name and window: later entries of the index  *)
(* overwrite no earlier one, and nothing changed between the claims and    *)
(* the index.                                                              *)
NamesReachTheirEntry ==
    phase \in {"indexed", "settled", "accepted"} =>
        \A e \in Entries(models) : \A n \in NamesOf(models, e) :
            n \in DOMAIN index /\ index[n] = Resolved(providers, models, e)

Answer(n) == ResolveModel(providers, index, n)

(* Once serving: whatever name is asked, discovered ones included, only    *)
(* OpenAI is sent the caller's token, and a model served through chat      *)
(* completions never claims search or images, although its mode and its    *)
(* claims may come from the entry, the provider or the defaults.           *)
ResolvedModelsAreLawful ==
    phase = "accepted" =>
        \A n \in Asked : Answer(n) # Unresolved =>
            /\ providers[Answer(n).provider].credential = Passthrough
                  => Answer(n).provider = "openai"
            /\ TextOnlyInChat(Answer(n))

(* A configured name with a context suffix nobody configured is refused,   *)
(* even where the provider's models are discovered.                        *)
UnknownSuffixRefused ==
    phase = "accepted" =>
        \A n \in Asked, k \in DOMAIN models, base \in Asked :
            (/\ base \in ModelNamesOf(models[k])
             /\ n.marks # <<>> /\ n = WithMark(base, n.marks[Len(n.marks)])
             /\ n.marks[Len(n.marks)].unit \in {"k", "m"}
             /\ \A e \in Entries(models) : n \notin NamesOf(models, e))
            => Answer(n) = Unresolved

(* docs/configuration.md: a generated entry routes to its upstream model.  *)
(* The catalog publishes an entry under its slug, so the slug must lead    *)
(* back to the entry.                                                      *)
PublishedEntriesRoute ==
    phase = "accepted" =>
        \A e \in Entries(models) :
            Answer(PublishedSlug(providers, models, e)) = Resolved(providers, models, e)

(* docs/adr/0002: for configured or dynamically discovered OpenAI models   *)
(* Codex's existing authentication reaches OpenAI.  So the name            *)
(* openai/model is OpenAI's while OpenAI's models are discovered, whatever  *)
(* other providers call theirs.                                            *)
OpenAINamesReachOpenAI ==
    (phase = "accepted" /\ "openai" \in DOMAIN providers /\ providers["openai"].discovers) =>
        \A n \in Asked :
            (HasSlash(n) /\ n.path[1] = "openai" /\ Answer(n) # Unresolved)
            => Answer(n).provider = "openai"
=============================================================================
