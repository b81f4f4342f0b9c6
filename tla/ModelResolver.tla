---------------------------- MODULE ModelResolver ----------------------------
(***************************************************************************)
(* Names of models in internal/config/resolver.go: the names an explicit   *)
(* model entry and its context variants answer to, the index built from    *)
(* them, and how Config.ResolveModel turns a name into a model, discovered *)
(* models included.  Everything here is a function of the configuration.   *)
(***************************************************************************)
EXTENDS Integers, Sequences

(* A name is its components between slashes and the context marks that end *)
(* it: "managed/chat-1m" is <<"managed", "chat">> with one mark, one "m".  *)
(* A mark inside a name (a-1m/b) is part of a component.                   *)
Units == {"k", "m", "#variant"}

Mark == [count : Nat, unit : Units]

Name == [path : Seq(STRING), marks : Seq(Mark)]

NoName == [path |-> <<>>, marks |-> <<>>]

(* Every string has a first component, the empty one too: only a name that *)
(* nobody has said has none.                                               *)
Said(n) == n.path # <<>>

(* strings.TrimSpace(name) == "": absent, or nothing after the slash.      *)
Blank(n) == n.marks = <<>> /\ n.path \in {<<>>, <<"">>}

HasSlash(n) == Len(n.path) > 1

(* name[slash+1:] of the first slash.                                      *)
AfterSlash(n) == [n EXCEPT !.path = Tail(n.path)]

(* contextSuffix: whole millions in millions, everything else in thousands. *)
ContextMark(window) ==
    IF window >= 1000000 /\ window % 1000000 = 0
    THEN [count |-> window \div 1000000, unit |-> "m"]
    ELSE [count |-> window \div 1000, unit |-> "k"]

WithMark(n, mark) == [n EXCEPT !.marks = Append(n.marks, mark)]

Passthrough == "request_passthrough"

ProviderProfile ==
    [credential : {"", "bifrost", Passthrough},
     mode : {"", "native", "chat_polyfill", "unsupported"},
     discovers : BOOLEAN,
     nativeOnly : BOOLEAN,    \* codex_defaults claim search, image detail or images
     wellFormed : BOOLEAN]    \* every other field passes its check by itself

ModelProfile ==
    [slug : Name, aliases : Seq(Name), provider : STRING, upstream : Name,
     mode : {"", "native", "chat_polyfill", "unsupported"},
     nativeOnly : BOOLEAN, wellFormed : BOOLEAN,
     window : Int, maxWindow : Int,
     variants : Seq(Int)]     \* ContextVariants[i].ContextWindow

-----------------------------------------------------------------------------
(* The names an entry answers to: modelNames, variantNames.                *)
ModelNamesOf(m) ==
    {m.slug} \cup {m.aliases[i] : i \in DOMAIN m.aliases}
             \cup (IF HasSlash(m.slug) THEN {AfterSlash(m.slug)} ELSE {})

VariantNamesOf(m, i) == {WithMark(n, ContextMark(m.variants[i])) : n \in ModelNamesOf(m)}

(* Entry <<k, 0>> is the model k itself, <<k, i>> its i-th context variant. *)
Entries(models) == UNION {{k} \X (0 .. Len(models[k].variants)) : k \in DOMAIN models}

NamesOf(models, e) ==
    IF e[2] = 0 THEN ModelNamesOf(models[e[1]]) ELSE VariantNamesOf(models[e[1]], e[2])

(* preferredVariantSlug: a variant of a passthrough provider is published  *)
(* under the first alias without a slash, or else the upstream model.      *)
ShortAliases(m) == {i \in DOMAIN m.aliases : ~HasSlash(m.aliases[i])}

VariantBase(providers, m) ==
    IF providers[m.provider].credential # Passthrough THEN m.slug
    ELSE IF ShortAliases(m) = {} THEN m.upstream
    ELSE m.aliases[CHOOSE i \in ShortAliases(m) : \A j \in ShortAliases(m) : i <= j]

PublishedSlug(providers, models, e) ==
    LET m == models[e[1]]
    IN  IF e[2] = 0 THEN m.slug
        ELSE WithMark(VariantBase(providers, m), ContextMark(m.variants[e[2]]))

(* ResolvedModel; window is 0 for an entry that is no variant.             *)
Resolved(providers, models, e) ==
    LET m == models[e[1]]
    IN  [slug |-> PublishedSlug(providers, models, e), base |-> m.slug,
         upstream |-> m.upstream, provider |-> m.provider,
         mode |-> m.mode, nativeOnly |-> m.nativeOnly,
         window |-> IF e[2] = 0 THEN 0 ELSE m.variants[e[2]]]

-----------------------------------------------------------------------------
(* The index and the lookup.                                               *)
IndexedNames(models) == UNION {NamesOf(models, e) : e \in Entries(models)}

Claimants(models, n) == {e \in Entries(models) : n \in NamesOf(models, e)}

Before(e, f) == e[1] < f[1] \/ (e[1] = f[1] /\ e[2] <= f[2])

(* buildResolutionIndex goes through the models in name order, a model's   *)
(* own names before its variants', and lets the last one have the name.    *)
LastClaimant(models, n) ==
    CHOOSE e \in Claimants(models, n) : \A f \in Claimants(models, n) : Before(f, e)

BuildIndex(providers, models) ==
    [n \in IndexedNames(models) |-> Resolved(providers, models, LastClaimant(models, n))]

Unresolved == [slug |-> NoName]

LooksLikeUnknownThousands(index, n) ==
    /\ n.marks # <<>>
    /\ n.marks[Len(n.marks)].unit = "k"
    /\ LET base == [n EXCEPT !.marks = SubSeq(n.marks, 1, Len(n.marks) - 1)]
       IN  base \in DOMAIN index /\ index[base].window = 0

(* A configured name, its context suffix not configured.                   *)
LooksLikeUnknownVariant(index, n) ==
    /\ n.marks # <<>>
    /\ n.marks[Len(n.marks)].unit \in {"k", "m"}
    /\ LET base == [n EXCEPT !.marks = SubSeq(n.marks, 1, Len(n.marks) - 1)]
       IN  base \in DOMAIN index /\ index[base].window = 0

(* provider/model names their provider; any other name is OpenAI's.        *)
NamesProvider(n) == HasSlash(n) /\ n.path[1] # "" /\ ~Blank(AfterSlash(n))

DiscoveryProvider(n) == IF NamesProvider(n) THEN n.path[1] ELSE "openai"

DiscoveredUpstream(n) == IF NamesProvider(n) THEN AfterSlash(n) ELSE n

Discoverable(providers, index, n) ==
    /\ ~LooksLikeUnknownVariant(index, n)
    /\ DiscoveryProvider(n) \in DOMAIN providers
    /\ providers[DiscoveryProvider(n)].discovers
    /\ ~Blank(DiscoveredUpstream(n))

(* resolveDiscoveredModel: the provider's defaults.                        *)
Discovered(providers, n) ==
    LET p == DiscoveryProvider(n)
        up == DiscoveredUpstream(n)
        slug == [up EXCEPT !.path = <<p>> \o up.path]
    IN  [slug |-> slug, base |-> slug, upstream |-> up, provider |-> p,
         mode |-> providers[p].mode, nativeOnly |-> providers[p].nativeOnly, window |-> 0]

(* Config.ResolveModel.                                                    *)
ResolveModel(providers, index, n) ==
    IF n \in DOMAIN index THEN index[n]
    ELSE IF Discoverable(providers, index, n) THEN Discovered(providers, n)
    ELSE Unresolved
=============================================================================
