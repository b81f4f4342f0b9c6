------------------------------- MODULE Catalog -------------------------------
(***************************************************************************)
(* The list of models a client is shown: internal/catalog, which fills in  *)
(* what a provider's own list leaves out and labels every model, the       *)
(* virtual models of internal/autoroute, and the merge of internal/gateway *)
(* with the list ChatGPT serves directly.  All of it reads the same        *)
(* configuration that requests are resolved with.                          *)
(***************************************************************************)
EXTENDS ConfigValidation, SequencesExt

CONSTANTS
    Aliases,     \* the virtual models that are listed, in name order
    AutoNames,   \* every virtual name: those, and auto:<profile>
    Disabled,    \* the slugs of models with routing disabled
    Editorial    \* <<provider, upstream model>> -> window, where a name is known for it

(* A listing is the name a model is asked by, its window, 0 if left out,   *)
(* and what its display name ends in: "window" for a suffix like (1M),     *)
(* "auto" for that of a virtual model, the provider for one like (Managed). *)
Suffix == {"window", "auto"} \cup STRING

Listing == [name : Name, window : Nat, label : Seq(Suffix)]

ASSUME CatalogConstants ==
    /\ Aliases \in Seq(AutoNames)
    /\ AutoNames \cup Disabled \subseteq Name
    /\ \A n \in AutoNames : Said(n)
    /\ Editorial \in [DOMAIN Editorial -> Nat]

ListedIn(list, name) == \E i \in DOMAIN list : list[i].name = name

AddNew(list, l) == IF ListedIn(list, l.name) THEN list ELSE Append(list, l)

AddAllNew(list, more) == FoldLeft(AddNew, list, more)

-----------------------------------------------------------------------------
EditorialName(r) == <<r.provider, r.upstream>> \in DOMAIN Editorial

(* The entry a resolved model comes from, unless it is a discovered one.   *)
ConfiguredTarget(r) == \E k \in DOMAIN models : models[k].slug = r.base

EntryOf(r) == CHOOSE k \in DOMAIN models : models[k].slug = r.base

(* Codex.ContextWindow of a resolved model; a discovered one has defaults. *)
ConfiguredWindow(r) ==
    IF r.window # 0 THEN r.window
    ELSE IF ConfiguredTarget(r) THEN models[EntryOf(r)].window ELSE 131072

(* enrichContext: the provider's window, or else the editorial one.        *)
EnrichedWindow(l, r) ==
    IF l.window = 0 /\ EditorialName(r) THEN Editorial[<<r.provider, r.upstream>>] ELSE l.window

HydrateModel(l, r) ==
    [l EXCEPT !.name = r.slug,
              !.window = OrDefault(EnrichedWindow(l, r), 0, ConfiguredWindow(r))]

HydrateVariant(base, r) ==
    [name |-> r.slug, window |-> r.window, label |-> Append(base.label, "window")]

EndsIn(label, suffix) == label # <<>> /\ label[Len(label)] = suffix

WithHost(label, host) == label

WithoutHost(label, host) ==
    IF EndsIn(label, host) THEN SubSeq(label, 1, Len(label) - 1) ELSE label

(* The label as DecorateModelWithMetadata finds it, an editorial name      *)
(* instead if there is one, with the window of a variant and the host.     *)
Relabelled(label, r) ==
    LET kept == IF EditorialName(r) THEN <<>> ELSE WithoutHost(label, r.provider)
        sized == IF r.window # 0 /\ ~EndsIn(kept, "window") THEN Append(kept, "window") ELSE kept
    IN  IF r.provider = "openai" THEN sized ELSE Append(sized, r.provider)

DecorateModel(l) ==
    LET r == Answer(l.name)
    IN  IF r = Unresolved THEN l
        ELSE [l EXCEPT !.window = EnrichedWindow(l, r), !.label = Relabelled(l.label, r)]

Decorated(list) == [i \in DOMAIN list |-> DecorateModel(list[i])]

-----------------------------------------------------------------------------
(* Of ResolvedModels the variants of r's base slug, in the order given,    *)
(* each as the base with the variant's name and window.                    *)
VariantsOf(base, r) ==
    IF ConfiguredTarget(r)
    THEN [i \in DOMAIN models[EntryOf(r)].variants |->
             HydrateVariant(base, Resolved(providers, models, <<EntryOf(r), i>>))]
    ELSE <<>>

(* appendConfiguredVariants, after the base it belongs to.                 *)
WithVariants(list, base, r) == AddAllNew(Append(list, base), VariantsOf(base, r))

AddOffered(list, l) ==
    LET r == Answer(l.name)
        base == HydrateModel(l, r)
    IN  IF r = Unresolved \/ ListedIn(list, r.slug) THEN list
        ELSE IF r.window # 0 THEN Append(list, base)
        ELSE WithVariants(list, base, r)

(* A configured model the provider does not offer, unless the provider is  *)
(* trusted to offer everything there is.                                   *)
AddConfigured(list, m) ==
    LET r == Answer(m.slug)
        bare == [name |-> m.slug, window |-> 0, label |-> <<>>]
    IN  IF ListedIn(list, m.slug) \/ providers[r.provider].discovers THEN list
        ELSE WithVariants(list, HydrateModel(bare, r), r)

(* HydrateWithMetadata: in the plugin, what the providers offer.           *)
Hydrated(offered) == Decorated(FoldLeft(AddConfigured, FoldLeft(AddOffered, <<>>, offered), models))

Routable == {k \in DOMAIN models : models[k].slug \notin Disabled}

(* A virtual model shows the largest window of what it may route to.       *)
LargestWindow == Max({131072} \cup {models[k].maxWindow : k \in Routable})

InjectVirtualModels(list) ==
    AddAllNew(list, [i \in DOMAIN Aliases |->
                        [name |-> Aliases[i], window |-> LargestWindow, label |-> <<"auto">>]])

IsPassthrough(r) == r # Unresolved /\ providers[r.provider].credential = Passthrough

(* mergeCatalogs: the direct list as it is, each model's variants after it, *)
(* and of Bifrost's list what is not OpenAI's; then all of it decorated.   *)
AddDirect(list, l) ==
    LET r == Answer(l.name)
    IN  IF r = Unresolved \/ r.window # 0 THEN Append(list, l)
        ELSE Append(list, l) \o VariantsOf(l, r)

AddBifrosts(list, l) == IF IsPassthrough(Answer(l.name)) THEN list ELSE Append(list, l)

Merged(direct, bifrost) == Decorated(FoldLeft(AddBifrosts, FoldLeft(AddDirect, <<>>, direct), bifrost))

(* GET /v1/models with client_version: Bifrost's answer passes the plugin, *)
(* and the direct list may be out of reach.                                *)
BifrostList(offered) == InjectVirtualModels(Hydrated(offered))

ServedWithoutDirect(offered) == InjectVirtualModels(Decorated(BifrostList(offered)))

ServedWithDirect(direct, offered) == InjectVirtualModels(Merged(direct, BifrostList(offered)))

(* Without client_version the plugin leaves Bifrost's answer alone.  Its    *)
(* models are under "data", which mergeCatalogs does not read, so that with *)
(* a direct list in reach the gateway answers 502.                         *)
ServedUnversioned(offered) == InjectVirtualModels(Decorated(offered))
=============================================================================
