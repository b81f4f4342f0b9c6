------------------------ MODULE ConfigValidationProofs ------------------------
(***************************************************************************)
(* Proofs about ConfigValidation for every configuration, however many     *)
(* providers, models and variants it has, and every order of its maps.     *)
(***************************************************************************)
EXTENDS ConfigValidation, FoldLemmas, TLAPS

-----------------------------------------------------------------------------
(* Names.                                                                  *)
LEMMA TailIsSeq ==
    ASSUME NEW S, NEW s \in Seq(S), Len(s) > 1
    PROVE  Tail(s) \in Seq(S)
<1>1. s # <<>>
  OBVIOUS
<1> QED
  BY <1>1

LEMMA AfterSlashIsName ==
    ASSUME NEW n \in Name, HasSlash(n)
    PROVE  AfterSlash(n) \in Name
<1>1. n.path \in Seq(STRING) /\ Len(n.path) > 1
  BY DEF Name, HasSlash
<1>2. Tail(n.path) \in Seq(STRING)
  BY <1>1, TailIsSeq
<1> QED
  BY <1>2 DEF Name, AfterSlash

LEMMA WithMarkIsName ==
    ASSUME NEW n \in Name, NEW mark \in Mark
    PROVE  WithMark(n, mark) \in Name
<1>1. Append(n.marks, mark) \in Seq(Mark)
  BY DEF Name
<1> QED
  BY <1>1 DEF Name, WithMark

LEMMA ContextMarkIsMark ==
    ASSUME NEW w \in Nat
    PROVE  ContextMark(w) \in Mark
<1>1. w \div 1000 \in Nat /\ w \div 1000000 \in Nat
  OBVIOUS
<1> QED
  BY <1>1 DEF ContextMark, Mark, Units

LEMMA ModelNamesAreNames ==
    ASSUME NEW m \in ModelProfile
    PROVE  ModelNamesOf(m) \subseteq Name
<1>1. m.slug \in Name /\ m.aliases \in Seq(Name)
  BY DEF ModelProfile
<1>2. \A i \in DOMAIN m.aliases : m.aliases[i] \in Name
  BY <1>1
<1>3. HasSlash(m.slug) => AfterSlash(m.slug) \in Name
  BY <1>1, AfterSlashIsName
<1> QED
  BY <1>1, <1>2, <1>3 DEF ModelNamesOf

LEMMA VariantNamesAreNames ==
    ASSUME NEW m \in ModelProfile, NEW i \in DOMAIN m.variants, m.variants[i] > 0
    PROVE  VariantNamesOf(m, i) \subseteq Name
<1>0. m.variants \in Seq(Int)
  BY DEF ModelProfile
<1>1. m.variants[i] \in Nat
  BY <1>0
<1>2. ContextMark(m.variants[i]) \in Mark
  BY <1>1, ContextMarkIsMark
<1> QED
  BY <1>2, ModelNamesAreNames, WithMarkIsName DEF VariantNamesOf

LEMMA AllNamesAreNames ==
    ASSUME NEW m \in ModelProfile, ValidModel(m)
    PROVE  AllNamesOf(m) \subseteq Name
BY ModelNamesAreNames, VariantNamesAreNames DEF AllNamesOf, ValidModel, ValidVariant

LEMMA OwnerIsName ==
    ASSUME NEW slug \in Name
    PROVE  VariantOwner(slug) \in Name
<1>1. [count |-> 0, unit |-> "#variant"] \in Mark
  BY DEF Mark, Units
<1> QED
  BY <1>1, WithMarkIsName DEF VariantOwner

LEMMA NoNameIsName == NoName \in Name
BY DEF NoName, Name

-----------------------------------------------------------------------------
(* Defaults keep the types, the slug, the aliases and the variants.        *)
LEMMA CompletedProviderType ==
    ASSUME NEW p \in ProviderProfile
    PROVE  CompletedProvider(p) \in ProviderProfile
BY DEF CompletedProvider, OrDefault, ProviderProfile, Passthrough

LEMMA CompletedModelType ==
    ASSUME NEW m \in ModelProfile, NEW ps, HasSlash(m.slug),
           ProviderOf(m) \in DOMAIN ps, ps[ProviderOf(m)] \in ProviderProfile
    PROVE  /\ CompletedModel(ps, m) \in ModelProfile
           /\ CompletedModel(ps, m).slug = m.slug
           /\ CompletedModel(ps, m).provider = ProviderOf(m)
<1>1. m.slug \in Name /\ m.slug.path \in Seq(STRING) /\ Len(m.slug.path) > 1
  BY DEF ModelProfile, Name, HasSlash
<1>2. ProviderOf(m) \in STRING
  <2>1. m.slug.path[1] \in STRING
    BY <1>1
  <2> QED
    BY <2>1 DEF ProviderOf, OrDefault, ModelProfile
<1>3. AfterSlash(m.slug) \in Name
  BY <1>1, AfterSlashIsName
<1>4. OrDefault(m.mode, "", ps[ProviderOf(m)].mode) \in {"", "native", "chat_polyfill", "unsupported"}
  BY DEF OrDefault, ModelProfile, ProviderProfile
<1>5. OrDefault(m.upstream, NoName, AfterSlash(m.slug)) \in Name
  BY <1>3 DEF OrDefault, ModelProfile
<1>6. m.window \in Int /\ m.maxWindow \in Int
  BY DEF ModelProfile
<1> DEFINE window == OrDefault(m.window, 0, 131072)
           ceiling == OrDefault(m.maxWindow, 0, window)
           mode == OrDefault(m.mode, "", ps[ProviderOf(m)].mode)
           up == OrDefault(m.upstream, NoName, AfterSlash(m.slug))
<1>7. window \in Int
  BY <1>6 DEF OrDefault
<1>8. ceiling \in Int
  BY <1>6, <1>7 DEF OrDefault
<1>9. CompletedModel(ps, m) =
        [m EXCEPT !.provider = ProviderOf(m), !.mode = mode, !.upstream = up,
                  !.window = window, !.maxWindow = ceiling]
  BY DEF CompletedModel
<1> HIDE DEF window, ceiling, mode, up
<1> QED
  BY <1>2, <1>4, <1>5, <1>7, <1>8, <1>9 DEF ModelProfile, mode, up

(* What ConfigConstants says of one configuration.                         *)
LEMMA GivenFacts ==
    ASSUME NEW g \in Configs
    PROVE  /\ IsConfig(g)
           /\ g.models \in Seq(ModelProfile)
           /\ g.models \in [DOMAIN g.models -> ModelProfile]
           /\ g.providers \in [DOMAIN g.providers -> ProviderProfile]
           /\ g.fallback \in Name
           /\ \A k \in DOMAIN g.models : g.models[k].slug \in Name
           /\ \A j, k \in DOMAIN g.models :
                 /\ j # k => g.models[j].slug # g.models[k].slug
                 /\ g.models[j].slug # VariantOwner(g.models[k].slug)
<1>1. IsConfig(g) /\ \A j, k \in DOMAIN g.models : g.models[j].slug # VariantOwner(g.models[k].slug)
  BY ConfigConstants
<1>2. g.models \in Seq(ModelProfile)
  BY <1>1 DEF IsConfig
<1>3. g.models \in [DOMAIN g.models -> ModelProfile]
  BY <1>2
<1>4. \A k \in DOMAIN g.models : g.models[k].slug \in Name
  BY <1>3 DEF ModelProfile
<1> QED
  BY <1>1, <1>2, <1>3, <1>4 DEF IsConfig

-----------------------------------------------------------------------------
(* The index and the lookup.                                               *)
LEMMA VariantBaseIsName ==
    ASSUME NEW ps, NEW m \in ModelProfile
    PROVE  VariantBase(ps, m) \in Name
<1>1. m.slug \in Name /\ m.upstream \in Name /\ m.aliases \in Seq(Name)
  BY DEF ModelProfile
<1>2. ShortAliases(m) \subseteq DOMAIN m.aliases
  BY DEF ShortAliases
<1>3. \A i \in DOMAIN m.aliases : i \in Nat /\ m.aliases[i] \in Name
  BY <1>1
<1>4. ShortAliases(m) \in SUBSET Nat
  BY <1>2, <1>3
<1>5. ASSUME ShortAliases(m) # {}
      PROVE  (CHOOSE i \in ShortAliases(m) : \A j \in ShortAliases(m) : i <= j) \in ShortAliases(m)
  BY <1>4, <1>5, LeastNatural
<1> QED
  BY <1>1, <1>2, <1>3, <1>5 DEF VariantBase

(* An entry is a model or one of its variants.                             *)
LEMMA EntryParts ==
    ASSUME NEW ms, NEW e
    PROVE  e \in Entries(ms) <=>
              \E k \in DOMAIN ms : \E i \in 0 .. Len(ms[k].variants) : e = <<k, i>>
BY DEF Entries

(* The models as validation leaves them.                                   *)
Checked(ms) ==
    /\ ms \in [DOMAIN ms -> ModelProfile]
    /\ \A k \in DOMAIN ms : ValidModel(ms[k])

LEMMA EntryTypes ==
    ASSUME NEW ps, NEW ms, Checked(ms), NEW e \in Entries(ms)
    PROVE  /\ NamesOf(ms, e) \subseteq Name
           /\ PublishedSlug(ps, ms, e) \in Name
           /\ e[1] \in DOMAIN ms /\ ms[e[1]] \in ModelProfile
<1>1. PICK k \in DOMAIN ms : \E i \in 0 .. Len(ms[k].variants) : e = <<k, i>>
  BY EntryParts
<1>2. PICK i \in 0 .. Len(ms[k].variants) : e = <<k, i>>
  BY <1>1
<1>3. e[1] = k /\ e[2] = i
  BY <1>2
<1>4. ms[k] \in ModelProfile /\ ValidModel(ms[k])
  BY DEF Checked
<1>5. ms[k].variants \in Seq(Int)
  BY <1>4 DEF ModelProfile
<1>6. CASE i = 0
  <2>1. ms[k].slug \in Name
    BY <1>4 DEF ModelProfile
  <2> QED
    BY <1>3, <1>4, <1>6, <2>1, ModelNamesAreNames DEF NamesOf, PublishedSlug
<1>7. CASE i # 0
  <2>1. i \in DOMAIN ms[k].variants
    BY <1>2, <1>5, <1>7
  <2>2. ms[k].variants[i] > 0 /\ ms[k].variants[i] \in Nat
    BY <1>4, <1>5, <2>1 DEF ValidModel, ValidVariant
  <2>3. ContextMark(ms[k].variants[i]) \in Mark
    BY <2>2, ContextMarkIsMark
  <2>4. PublishedSlug(ps, ms, e) \in Name
    BY <1>3, <1>4, <1>7, <2>3, VariantBaseIsName, WithMarkIsName DEF PublishedSlug
  <2>5. NamesOf(ms, e) \subseteq Name
    BY <1>3, <1>4, <1>7, <2>1, <2>2, VariantNamesAreNames DEF NamesOf
  <2> QED
    BY <1>3, <1>4, <2>4, <2>5
<1> QED
  BY <1>6, <1>7

(* When names are disjoint the last claimant is the only one.              *)
LEMMA IndexGivesClaimant ==
    ASSUME NEW ps, NEW ms, NamesDisjoint(ms),
           NEW e \in Entries(ms), NEW n \in NamesOf(ms, e)
    PROVE  /\ n \in DOMAIN BuildIndex(ps, ms)
           /\ BuildIndex(ps, ms)[n] = Resolved(ps, ms, e)
<1>1. Claimants(ms, n) = {e}
  BY DEF Claimants, NamesDisjoint
<1>2. Before(e, e)
  <2>1. PICK k \in DOMAIN ms, i \in 0 .. Len(ms[e[1]].variants) : e = <<k, i>>
    BY EntryParts
  <2> QED
    BY <2>1 DEF Before
<1>3. LastClaimant(ms, n) = e
  BY <1>1, <1>2 DEF LastClaimant
<1>4. n \in IndexedNames(ms)
  BY DEF IndexedNames
<1> QED
  BY <1>3, <1>4 DEF BuildIndex

LEMMA IndexHoldsEntries ==
    ASSUME NEW ps, NEW ms, NamesDisjoint(ms), NEW n \in DOMAIN BuildIndex(ps, ms)
    PROVE  \E e \in Entries(ms) : n \in NamesOf(ms, e) /\ BuildIndex(ps, ms)[n] = Resolved(ps, ms, e)
<1>1. PICK e \in Entries(ms) : n \in NamesOf(ms, e)
  BY DEF BuildIndex, IndexedNames
<1> QED
  BY <1>1, IndexGivesClaimant

LEMMA AnswersAreNames ==
    ASSUME NEW ps, DOMAIN ps \subseteq STRING, NEW ms, Checked(ms), NamesDisjoint(ms),
           NEW n \in Name
    PROVE  ResolveModel(ps, BuildIndex(ps, ms), n).slug \in Name
<1> DEFINE ix == BuildIndex(ps, ms)
<1>1. CASE n \in DOMAIN ix
  <2>1. PICK e \in Entries(ms) : ix[n] = Resolved(ps, ms, e)
    BY <1>1, IndexHoldsEntries
  <2>2. ix[n].slug \in Name
    BY <2>1, EntryTypes DEF Resolved
  <2> QED
    BY <1>1, <2>2 DEF ResolveModel
<1>2. CASE n \notin DOMAIN ix /\ Discoverable(ps, ix, n)
  <2>1. n.path \in Seq(STRING) /\ n.marks \in Seq(Mark)
    BY DEF Name
  <2>2. DiscoveryProvider(n) \in STRING
    BY <1>2 DEF Discoverable
  <2>3. DiscoveredUpstream(n) \in Name
    BY AfterSlashIsName DEF DiscoveredUpstream, NamesProvider
  <2> DEFINE up == DiscoveredUpstream(n)
             p == DiscoveryProvider(n)
  <2>4. up.path \in Seq(STRING) /\ up.marks \in Seq(Mark)
    BY <2>3 DEF Name
  <2>5. <<p>> \o up.path \in Seq(STRING)
    BY <2>2, <2>4
  <2>6. [up EXCEPT !.path = <<p>> \o up.path] \in Name
    BY <2>3, <2>5 DEF Name
  <2>7. Discovered(ps, n).slug \in Name
    BY <2>6 DEF Discovered
  <2> QED
    BY <1>2, <2>7 DEF ResolveModel
<1>3. CASE n \notin DOMAIN ix /\ ~Discoverable(ps, ix, n)
  BY <1>3, NoNameIsName DEF ResolveModel, Unresolved
<1> QED
  BY <1>1, <1>2, <1>3
-----------------------------------------------------------------------------
(* The names of an entry are names of its model, and the other way round.  *)
LEMMA EntryNames ==
    ASSUME NEW ms, NEW k \in DOMAIN ms, ms[k] \in ModelProfile
    PROVE  /\ \A e \in Entries(ms) : e[1] = k => NamesOf(ms, e) \subseteq AllNamesOf(ms[k])
           /\ \A n \in AllNamesOf(ms[k]) :
                 \E e \in Entries(ms) : e[1] = k /\ n \in NamesOf(ms, e)
           /\ <<k, 0>> \in Entries(ms)
           /\ \A i \in DOMAIN ms[k].variants : <<k, i>> \in Entries(ms) /\ i # 0
           /\ NamesOf(ms, <<k, 0>>) = ModelNamesOf(ms[k])
           /\ \A i \in DOMAIN ms[k].variants :
                 NamesOf(ms, <<k, i>>) = VariantNamesOf(ms[k], i)
<1>1. ms[k].variants \in Seq(Int)
  BY DEF ModelProfile
<1>2. /\ Len(ms[k].variants) \in Nat
      /\ DOMAIN ms[k].variants = 1 .. Len(ms[k].variants)
  BY <1>1
<1>3. \A i \in 0 .. Len(ms[k].variants) : <<k, i>> \in Entries(ms)
  BY EntryParts
<1>4. NamesOf(ms, <<k, 0>>) = ModelNamesOf(ms[k])
  BY DEF NamesOf
<1>5. ASSUME NEW i \in DOMAIN ms[k].variants
      PROVE  i # 0 /\ <<k, i>> \in Entries(ms) /\ NamesOf(ms, <<k, i>>) = VariantNamesOf(ms[k], i)
  BY <1>2, <1>3 DEF NamesOf
<1>6. ASSUME NEW e \in Entries(ms), e[1] = k
      PROVE  NamesOf(ms, e) \subseteq AllNamesOf(ms[k])
  <2>1. PICK j \in DOMAIN ms : \E i \in 0 .. Len(ms[j].variants) : e = <<j, i>>
    BY EntryParts
  <2>2. PICK i \in 0 .. Len(ms[j].variants) : e = <<j, i>>
    BY <2>1
  <2>3. j = k
    BY <1>6, <2>2
  <2>4. i = 0 \/ i \in DOMAIN ms[k].variants
    BY <1>2, <2>2, <2>3
  <2> QED
    BY <1>4, <1>5, <2>2, <2>3, <2>4 DEF AllNamesOf
<1>7. ASSUME NEW n \in AllNamesOf(ms[k])
      PROVE  \E e \in Entries(ms) : e[1] = k /\ n \in NamesOf(ms, e)
  <2>1. CASE n \in ModelNamesOf(ms[k])
    <3>1. <<k, 0>> \in Entries(ms)
      BY <1>2, <1>3
    <3> QED
      BY <1>4, <2>1, <3>1
  <2>2. CASE n \notin ModelNamesOf(ms[k])
    <3>1. PICK i \in DOMAIN ms[k].variants : n \in VariantNamesOf(ms[k], i)
      BY <2>2 DEF AllNamesOf
    <3>2. <<k, i>> \in Entries(ms) /\ n \in NamesOf(ms, <<k, i>>)
      BY <1>5, <3>1
    <3> QED
      BY <3>2
  <2> QED
    BY <2>1, <2>2
<1> QED
  BY <1>2, <1>3, <1>4, <1>5, <1>6, <1>7

-----------------------------------------------------------------------------
(* The invariant.  What the loops have reached is what the configuration   *)
(* makes of it, the names claimed are those of the models done, and these  *)
(* are disjoint.                                                           *)
Serving == phase \in {"indexed", "settled", "accepted"}

Done == DOMAIN models \ pending

ModelDone(k) ==
    /\ models[k] = CompletedModel(providers, given.models[k])
    /\ Placed(providers, given.models[k])
    /\ ValidModel(models[k])

ProvidersInv ==
    /\ phase = "start" => providers = given.providers
    /\ phase = "providers" => \A name \in DOMAIN given.providers :
          /\ name \in pending => providers[name] = given.providers[name]
          /\ name \notin pending =>
                /\ providers[name] = CompletedProvider(given.providers[name])
                /\ ValidProvider(name, providers[name])
    /\ phase = "models" \/ Serving =>
          /\ providers = CompletedProviders(given)
          /\ \A name \in DOMAIN given.providers : ValidProvider(name, providers[name])

ModelsInv ==
    /\ phase \in {"start", "providers"} => models = given.models /\ DOMAIN owned = {}
    /\ phase = "models" => \A k \in DOMAIN given.models :
          /\ k \in pending => models[k] = given.models[k]
          /\ k \notin pending => ModelDone(k)
    /\ Serving => (\A k \in DOMAIN given.models : ModelDone(k)) /\ NamesDisjoint(models)

ClaimsInv ==
    phase = "models" =>
        /\ \A n \in DOMAIN owned : \E k \in Done :
              /\ n \in AllNamesOf(models[k])
              /\ owned[n] \in {models[k].slug, VariantOwner(models[k].slug)}
        /\ \A k \in Done : AllNamesOf(models[k]) \subseteq DOMAIN owned
        /\ \A e, f \in Entries(models) :
              (e[1] \in Done /\ f[1] \in Done /\ e # f) => NamesOf(models, e) \cap NamesOf(models, f) = {}

FallbackSound ==
    LET chosen == ChosenFallback(providers, index, given.fallback)
    IN  chosen # NoName => MayBeFallback(providers, ResolveModel(providers, index, chosen))

VerdictInv ==
    /\ phase \notin {"start", "rejected"} =>
          given.version \in {0, CurrentVersion} /\ DOMAIN given.providers # {} /\ given.models # <<>>
    /\ phase \notin {"settled", "accepted", "rejected"} => fallback = given.fallback
    /\ Serving => index = BuildIndex(providers, models)
    /\ phase \in {"settled", "accepted"} => FallbackSound
    /\ phase = "accepted" => given.routeValid
    /\ phase = "rejected" => ~Sound(given)

ValidationInv ==
    /\ given \in Configs
    /\ ConfigTypeOK
    /\ ProvidersInv
    /\ ModelsInv
    /\ ClaimsInv
    /\ VerdictInv

-----------------------------------------------------------------------------
(* Steps.                                                                  *)
LEMMA InitValidation == ConfigInit => ValidationInv
<1> SUFFICES ASSUME ConfigInit PROVE ValidationInv
  OBVIOUS
<1>1. given \in Configs
  BY DEF ConfigInit
<1>2. ConfigTypeOK
  BY <1>1, GivenFacts DEF ConfigInit, ConfigTypeOK
<1> QED
  BY <1>1, <1>2 DEF ConfigInit, ValidationInv, ProvidersInv, ModelsInv, ClaimsInv, VerdictInv, Serving

LEMMA RejectStep ==
    ASSUME ValidationInv, Reject, ~Sound(given)
    PROVE  ValidationInv'
<1>1. ConfigTypeOK'
  BY DEF ValidationInv, ConfigTypeOK, Reject
<1>2. given' \in Configs
  BY DEF ValidationInv, Reject
<1>3. ProvidersInv' /\ ModelsInv' /\ ClaimsInv'
  BY DEF Reject, ProvidersInv, ModelsInv, ClaimsInv, Serving
<1>4. VerdictInv'
  BY DEF Reject, VerdictInv, Serving
<1> QED
  BY <1>1, <1>2, <1>3, <1>4 DEF ValidationInv

LEMMA StartStep ==
    ASSUME ValidationInv, Start
    PROVE  ValidationInv'
<1>1. providers = given.providers /\ models = given.models /\ phase = "start"
  BY DEF ValidationInv, ProvidersInv, ModelsInv, Start
<1>2. CASE ~Worthwhile
  <2>1. ~Sound(given)
    BY <1>1, <1>2 DEF Worthwhile, Sound
  <2> QED
    BY <1>2, <2>1, RejectStep DEF Start
<1>3. CASE Worthwhile
  <2>1. ConfigTypeOK'
    BY <1>1, <1>3 DEF ValidationInv, ConfigTypeOK, Start
  <2>2. ProvidersInv' /\ ModelsInv' /\ ClaimsInv'
    BY <1>1, <1>3 DEF ValidationInv, ProvidersInv, ModelsInv, ClaimsInv, Serving, Start
  <2>3. VerdictInv'
    BY <1>1, <1>3 DEF ValidationInv, VerdictInv, Serving, Start, Worthwhile
  <2> QED
    BY <1>3, <2>1, <2>2, <2>3 DEF ValidationInv, Start
<1> QED
  BY <1>2, <1>3

LEMMA CompleteProviderStep ==
    ASSUME ValidationInv, NEW name \in DOMAIN providers, CompleteProvider(name)
    PROVE  ValidationInv'
<1> DEFINE p == CompletedProvider(given.providers[name])
<1>1. phase = "providers" /\ name \in pending
  BY DEF CompleteProvider
<1>2. name \in DOMAIN given.providers /\ providers[name] = given.providers[name]
  BY <1>1 DEF ValidationInv, ConfigTypeOK, ProvidersInv
<1>3. given \in Configs
  BY DEF ValidationInv
<1>4. p \in ProviderProfile
  BY <1>2, <1>3, GivenFacts, CompletedProviderType
<1>5. CASE ~ValidProvider(name, p)
  <2>1. ~Sound(given)
    BY <1>2, <1>5 DEF Sound, CompletedProviders
  <2>2. Reject
    BY <1>2, <1>5 DEF CompleteProvider
  <2> QED
    BY <2>1, <2>2, RejectStep
<1>6. CASE ValidProvider(name, p)
  <2>1. /\ providers' = [providers EXCEPT ![name] = p]
        /\ pending' = pending \ {name}
        /\ UNCHANGED <<given, models, fallback, owned, index, phase>>
    BY <1>2, <1>6 DEF CompleteProvider
  <2> HIDE DEF p
  <2>2. ConfigTypeOK'
    BY <1>1, <1>4, <2>1 DEF ValidationInv, ConfigTypeOK
  <2>3. ProvidersInv'
    <3>1. providers \in [DOMAIN given.providers -> ProviderProfile]
      BY DEF ValidationInv, ConfigTypeOK
    <3>2. ASSUME NEW x \in DOMAIN given.providers
          PROVE  /\ x \in pending' => providers'[x] = given.providers[x]
                 /\ x \notin pending' => /\ providers'[x] = CompletedProvider(given.providers[x])
                                         /\ ValidProvider(x, providers'[x])
      <4>1. CASE x = name
        BY <1>6, <2>1, <3>1, <4>1 DEF p
      <4>2. CASE x # name
        BY <1>1, <2>1, <3>1, <4>2 DEF ValidationInv, ProvidersInv
      <4> QED
        BY <4>1, <4>2
    <3> QED
      BY <1>1, <2>1, <3>2 DEF ProvidersInv, Serving
  <2>4. ModelsInv' /\ ClaimsInv'
    BY <1>1, <2>1 DEF ValidationInv, ModelsInv, ClaimsInv, Serving
  <2>5. VerdictInv'
    BY <1>1, <2>1 DEF ValidationInv, VerdictInv, Serving
  <2> QED
    BY <1>3, <2>1, <2>2, <2>3, <2>4, <2>5 DEF ValidationInv
<1> QED
  BY <1>5, <1>6

LEMMA StartModelsStep ==
    ASSUME ValidationInv, StartModels
    PROVE  ValidationInv'
<1>1. /\ phase = "providers" /\ pending = {} /\ phase' = "models" /\ pending' = DOMAIN models
      /\ UNCHANGED <<given, providers, models, fallback, owned, index>>
  BY DEF StartModels
<1>2. models = given.models /\ DOMAIN owned = {}
  BY <1>1 DEF ValidationInv, ModelsInv
<1>3. ConfigTypeOK'
  BY <1>1, <1>2 DEF ValidationInv, ConfigTypeOK
<1>4. ProvidersInv'
  <2>1. providers = CompletedProviders(given)
    BY <1>1 DEF ValidationInv, ConfigTypeOK, ProvidersInv, CompletedProviders
  <2> QED
    BY <1>1, <2>1 DEF ValidationInv, ProvidersInv, Serving
<1>5. ModelsInv'
  BY <1>1, <1>2 DEF ModelsInv, Serving
<1>6. ClaimsInv'
  <2>1. DOMAIN owned' = {} /\ Done' = {}
    BY <1>1, <1>2 DEF Done
  <2> QED
    BY <2>1 DEF ClaimsInv
<1>7. VerdictInv'
  BY <1>1 DEF ValidationInv, VerdictInv, Serving
<1> QED
  BY <1>1, <1>3, <1>4, <1>5, <1>6, <1>7 DEF ValidationInv

(* The completed models of a configuration whose models are all placed.    *)
LEMMA CompletedModelsType ==
    ASSUME NEW g \in Configs, NEW k \in DOMAIN g.models,
           Placed(CompletedProviders(g), g.models[k])
    PROVE  /\ CompletedModel(CompletedProviders(g), g.models[k]) \in ModelProfile
           /\ CompletedModel(CompletedProviders(g), g.models[k]).slug = g.models[k].slug
           /\ CompletedModel(CompletedProviders(g), g.models[k]).provider = ProviderOf(g.models[k])
<1> DEFINE ps == CompletedProviders(g)
           m == g.models[k]
<1>1. m \in ModelProfile
  BY GivenFacts
<1>2. HasSlash(m.slug) /\ ProviderOf(m) \in DOMAIN g.providers
  BY DEF Placed, CompletedProviders
<1>3. ps[ProviderOf(m)] \in ProviderProfile
  BY <1>2, GivenFacts, CompletedProviderType DEF CompletedProviders
<1>4. ProviderOf(m) \in DOMAIN ps
  BY <1>2 DEF CompletedProviders
<1> HIDE DEF ps, m
<1>5. /\ CompletedModel(ps, m) \in ModelProfile
      /\ CompletedModel(ps, m).slug = m.slug /\ CompletedModel(ps, m).provider = ProviderOf(m)
  BY <1>1, <1>2, <1>3, <1>4, CompletedModelType
<1> QED
  BY <1>5 DEF ps, m

(* A sound configuration fails none of the loop's checks, whatever was     *)
(* claimed before.                                                         *)
LEMMA SoundModelsPass ==
    ASSUME ValidationInv, phase = "models", NEW k \in pending, Sound(given)
    PROVE  LET m == CompletedModel(providers, models[k])
           IN  /\ Placed(providers, models[k])
               /\ ValidModel(m) /\ OwnNamesFree(m) /\ VariantNamesFree(m)
<1> DEFINE ms == CompletedModels(given)
           m == ms[k]
<1>1. /\ given \in Configs
      /\ k \in DOMAIN given.models /\ DOMAIN ms = DOMAIN given.models
      /\ models[k] = given.models[k]
      /\ providers = CompletedProviders(given)
      /\ DOMAIN models = DOMAIN given.models
  BY DEF ValidationInv, ConfigTypeOK, ModelsInv, ProvidersInv, CompletedModels
<1>2. /\ \A j \in DOMAIN ms : Placed(providers, given.models[j]) /\ ValidModel(ms[j])
      /\ NamesDisjoint(ms)
  BY <1>1 DEF Sound, CompletedModels
<1>3. \A j \in DOMAIN ms : ms[j] = CompletedModel(providers, given.models[j])
  BY <1>1 DEF CompletedModels
<1>4. \A j \in DOMAIN ms : ms[j] \in ModelProfile
  BY <1>1, <1>2, <1>3, CompletedModelsType
<1>5. \A j \in Done : j \in DOMAIN ms /\ j # k /\ models[j] = ms[j]
  BY <1>1, <1>3 DEF ValidationInv, ModelsInv, ModelDone, Done
<1> HIDE DEF ms
<1>6. ASSUME NEW n \in DOMAIN owned, NEW e \in Entries(ms), e[1] = k, n \in NamesOf(ms, e)
      PROVE  FALSE
  <2>1. PICK j \in Done : n \in AllNamesOf(models[j])
    BY DEF ValidationInv, ClaimsInv
  <2>2. PICK f \in Entries(ms) : f[1] = j /\ n \in NamesOf(ms, f)
    BY <1>4, <1>5, <2>1, EntryNames
  <2>3. e # f
    BY <1>5, <1>6, <2>2
  <2> QED
    BY <1>2, <1>6, <2>2, <2>3 DEF NamesDisjoint
<1>7. /\ <<k, 0>> \in Entries(ms) /\ NamesOf(ms, <<k, 0>>) = ModelNamesOf(m)
      /\ \A i \in DOMAIN m.variants :
            <<k, i>> \in Entries(ms) /\ i # 0 /\ NamesOf(ms, <<k, i>>) = VariantNamesOf(m, i)
  BY <1>1, <1>4, EntryNames
<1>8. OwnNamesFree(m)
  BY <1>6, <1>7 DEF OwnNamesFree
<1>9. VariantNamesFree(m)
  <2>1. SUFFICES ASSUME NEW i \in DOMAIN m.variants, NEW n \in VariantNamesOf(m, i),
                        n \in DOMAIN owned \cup ModelNamesOf(m)
                                 \cup UNION {VariantNamesOf(m, j) : j \in 1 .. (i - 1)}
                 PROVE  FALSE
    BY DEF VariantNamesFree
  <2>2. <<k, i>> \in Entries(ms) /\ n \in NamesOf(ms, <<k, i>>) /\ i # 0
    BY <1>7, <2>1
  <2>3. CASE n \in DOMAIN owned
    BY <1>6, <2>2, <2>3
  <2>4. CASE n \in ModelNamesOf(m)
    BY <1>2, <1>7, <2>2, <2>4 DEF NamesDisjoint
  <2>5. ASSUME NEW j \in 1 .. (i - 1), n \in VariantNamesOf(m, j)
        PROVE  FALSE
    <3>1. m.variants \in Seq(Int)
      BY <1>1, <1>4 DEF ModelProfile
    <3>2. j \in DOMAIN m.variants /\ j # i
      BY <3>1
    <3>3. <<k, j>> \in Entries(ms) /\ n \in NamesOf(ms, <<k, j>>)
      BY <1>7, <2>5, <3>2
    <3> QED
      BY <1>2, <2>2, <3>2, <3>3 DEF NamesDisjoint
  <2> QED
    BY <2>1, <2>3, <2>4, <2>5
<1>10. m = CompletedModel(providers, models[k])
  BY <1>1, <1>3
<1> QED
  BY <1>1, <1>2, <1>8, <1>9, <1>10

(* What a model claims is new, and its own entries have disjoint names.    *)
LEMMA FreeNamesAreNew ==
    ASSUME ValidationInv, phase = "models", NEW k \in pending, NEW m \in ModelProfile,
           m.slug = given.models[k].slug, OwnNamesFree(m), VariantNamesFree(m)
    PROVE  /\ AllNamesOf(m) \cap DOMAIN owned = {}
           /\ \A i \in DOMAIN m.variants : ModelNamesOf(m) \cap VariantNamesOf(m, i) = {}
           /\ \A i, j \in DOMAIN m.variants :
                 i # j => VariantNamesOf(m, i) \cap VariantNamesOf(m, j) = {}
<1>1. given \in Configs /\ k \in DOMAIN given.models
  BY DEF ValidationInv, ConfigTypeOK
<1>2. ASSUME NEW n \in ModelNamesOf(m), n \in DOMAIN owned
      PROVE  FALSE
  <2>1. PICK j \in Done : owned[n] \in {models[j].slug, VariantOwner(models[j].slug)}
    BY <1>2 DEF ValidationInv, ClaimsInv
  <2>2. j \in DOMAIN given.models /\ j # k /\ ModelDone(j)
    BY <2>1 DEF ValidationInv, ConfigTypeOK, ModelsInv, Done
  <2>3. models[j].slug = given.models[j].slug
    <3>1. providers = CompletedProviders(given)
      BY DEF ValidationInv, ProvidersInv
    <3> QED
      BY <1>1, <2>2, <3>1, CompletedModelsType DEF ModelDone
  <2>4. owned[n] = m.slug
    BY <1>2 DEF OwnNamesFree
  <2> QED
    BY <1>1, <2>1, <2>2, <2>3, <2>4, GivenFacts
<1>3. m.variants \in Seq(Int)
  BY DEF ModelProfile
<1>4. ASSUME NEW i \in DOMAIN m.variants, NEW j \in DOMAIN m.variants, i # j
      PROVE  VariantNamesOf(m, i) \cap VariantNamesOf(m, j) = {}
  <2>1. j \in 1 .. (i - 1) \/ i \in 1 .. (j - 1)
    BY <1>3, <1>4
  <2> QED
    BY <2>1 DEF VariantNamesFree
<1> QED
  BY <1>2, <1>4 DEF VariantNamesFree, AllNamesOf

LEMMA CompleteModelStep ==
    ASSUME ValidationInv, NEW k \in DOMAIN models, CompleteModel(k)
    PROVE  ValidationInv'
<1> DEFINE m == CompletedModel(providers, models[k])
<1>1. phase = "models" /\ k \in pending
  BY DEF CompleteModel
<1>2. /\ given \in Configs /\ DOMAIN models = DOMAIN given.models
      /\ models[k] = given.models[k] /\ providers = CompletedProviders(given)
      /\ models \in [DOMAIN given.models -> ModelProfile]
  BY <1>1 DEF ValidationInv, ConfigTypeOK, ModelsInv, ProvidersInv
<1>3. CASE ~(/\ Placed(providers, models[k])
             /\ ValidModel(m) /\ OwnNamesFree(m) /\ VariantNamesFree(m))
  <2>1. ~Sound(given)
    BY <1>1, <1>3, SoundModelsPass
  <2>2. Reject
    BY <1>3 DEF CompleteModel
  <2> QED
    BY <2>1, <2>2, RejectStep
<1>4. CASE /\ Placed(providers, models[k])
           /\ ValidModel(m) /\ OwnNamesFree(m) /\ VariantNamesFree(m)
  <2>1. /\ models' = [models EXCEPT ![k] = m]
        /\ owned' = Claimed(m)
        /\ pending' = pending \ {k}
        /\ UNCHANGED <<given, providers, fallback, index, phase>>
    BY <1>4 DEF CompleteModel
  <2>2. m \in ModelProfile /\ m.slug = given.models[k].slug
    BY <1>2, <1>4, CompletedModelsType
  <2>3. m = CompletedModel(providers, given.models[k]) /\ Placed(providers, given.models[k])
    BY <1>2, <1>4
  <2> HIDE DEF m
  <2>4. /\ models' \in [DOMAIN given.models -> ModelProfile]
        /\ models'[k] = m
        /\ \A j \in DOMAIN given.models : j # k => models'[j] = models[j]
        /\ DOMAIN models' = DOMAIN models
    BY <1>2, <2>1, <2>2
  <2>5. AllNamesOf(m) \subseteq Name /\ m.slug \in Name /\ VariantOwner(m.slug) \in Name
    BY <1>4, <2>2, AllNamesAreNames, OwnerIsName DEF ModelProfile
  <2>6. /\ DOMAIN owned' = DOMAIN owned \cup AllNamesOf(m)
        /\ \A n \in AllNamesOf(m) : owned'[n] \in {m.slug, VariantOwner(m.slug)}
        /\ \A n \in DOMAIN owned : n \notin AllNamesOf(m) => owned'[n] = owned[n]
    BY <2>1 DEF Claimed, AllNamesOf
  <2>7. ConfigTypeOK'
    <3>1. DOMAIN owned' \subseteq Name /\ \A n \in DOMAIN owned' : owned'[n] \in Name
      BY <2>5, <2>6 DEF ValidationInv, ConfigTypeOK
    <3> QED
      BY <1>1, <2>1, <2>4, <3>1 DEF ValidationInv, ConfigTypeOK
  <2>8. ProvidersInv'
    BY <1>1, <2>1 DEF ValidationInv, ProvidersInv, Serving
  <2>9. ModelsInv'
    <3>1. ASSUME NEW j \in DOMAIN given.models, j \in pending'
          PROVE  models'[j] = given.models[j]
      BY <1>1, <2>1, <2>4, <3>1 DEF ValidationInv, ModelsInv
    <3>2. ASSUME NEW j \in DOMAIN given.models, j \notin pending'
          PROVE  ModelDone(j)'
      <4>1. CASE j = k
        BY <1>4, <2>1, <2>3, <2>4, <4>1 DEF ModelDone
      <4>2. CASE j # k
        <5>1. ModelDone(j)
          BY <1>1, <2>1, <3>2, <4>2 DEF ValidationInv, ModelsInv
        <5> QED
          BY <2>1, <2>4, <4>2, <5>1 DEF ModelDone
      <4> QED
        BY <4>1, <4>2
    <3> QED
      BY <1>1, <2>1, <3>1, <3>2 DEF ModelsInv, Serving
  <2>10. VerdictInv'
    BY <1>1, <2>1 DEF ValidationInv, VerdictInv, Serving
  <2>11. /\ Done' = Done \cup {k} /\ k \notin Done
         /\ \A j \in Done : j # k /\ models'[j] = models[j]
    BY <1>1, <1>2, <2>1, <2>4 DEF Done
  <2>12. ClaimsInv'
    <3>1. /\ \A i \in DOMAIN m.variants : ModelNamesOf(m) \cap VariantNamesOf(m, i) = {}
          /\ \A i, j \in DOMAIN m.variants :
                i # j => VariantNamesOf(m, i) \cap VariantNamesOf(m, j) = {}
          /\ AllNamesOf(m) \cap DOMAIN owned = {}
      BY <1>1, <1>4, <2>2, FreeNamesAreNew
    <3>2. ASSUME NEW n \in DOMAIN owned'
          PROVE  \E j \in Done' : /\ n \in AllNamesOf(models'[j])
                                  /\ owned'[n] \in {models'[j].slug, VariantOwner(models'[j].slug)}
      <4>1. CASE n \in AllNamesOf(m)
        BY <2>4, <2>6, <2>11, <4>1
      <4>2. CASE n \notin AllNamesOf(m)
        <5>1. n \in DOMAIN owned /\ owned'[n] = owned[n]
          BY <2>6, <4>2
        <5>2. PICK j \in Done : /\ n \in AllNamesOf(models[j])
                                /\ owned[n] \in {models[j].slug, VariantOwner(models[j].slug)}
          BY <1>1, <5>1 DEF ValidationInv, ClaimsInv
        <5> QED
          BY <2>11, <5>1, <5>2
      <4> QED
        BY <4>1, <4>2
    <3>3. ASSUME NEW j \in Done'
          PROVE  AllNamesOf(models'[j]) \subseteq DOMAIN owned'
      <4>1. j # k => AllNamesOf(models[j]) \subseteq DOMAIN owned
        BY <1>1, <2>11 DEF ValidationInv, ClaimsInv
      <4> QED
        BY <2>4, <2>6, <2>11, <4>1
    <3>4. ASSUME NEW e \in Entries(models'), e[1] \in Done, NEW f \in Entries(models'), f[1] = k
          PROVE  NamesOf(models', e) \cap NamesOf(models', f) = {}
      <4>1. /\ e[1] \in DOMAIN models' /\ models'[e[1]] \in ModelProfile
            /\ k \in DOMAIN models' /\ models'[k] \in ModelProfile
        BY <1>2, <2>4, <3>4 DEF Done
      <4>2. /\ NamesOf(models', e) \subseteq AllNamesOf(models'[e[1]])
            /\ NamesOf(models', f) \subseteq AllNamesOf(models'[k])
        BY <3>4, <4>1, EntryNames
      <4>3. AllNamesOf(models'[e[1]]) \subseteq DOMAIN owned
        BY <1>1, <2>11, <3>4 DEF ValidationInv, ClaimsInv
      <4> QED
        BY <2>4, <3>1, <4>2, <4>3
    <3>5. ASSUME NEW e \in Entries(models'), NEW f \in Entries(models'), e[1] = k, f[1] = k, e # f
          PROVE  NamesOf(models', e) \cap NamesOf(models', f) = {}
      <4>1. \A x \in Entries(models') : x[1] = k =>
              \/ x = <<k, 0>> /\ NamesOf(models', x) = ModelNamesOf(m)
              \/ \E i \in DOMAIN m.variants : x = <<k, i>> /\ NamesOf(models', x) = VariantNamesOf(m, i)
        <5>1. SUFFICES ASSUME NEW x \in Entries(models'), x[1] = k
                       PROVE  \/ x = <<k, 0>> /\ NamesOf(models', x) = ModelNamesOf(m)
                              \/ \E i \in DOMAIN m.variants :
                                    x = <<k, i>> /\ NamesOf(models', x) = VariantNamesOf(m, i)
          OBVIOUS
        <5>2. PICK j \in DOMAIN models' : \E i \in 0 .. Len(models'[j].variants) : x = <<j, i>>
          BY EntryParts
        <5>3. PICK i \in 0 .. Len(models'[j].variants) : x = <<j, i>>
          BY <5>2
        <5>4. j = k /\ models'[j] = m /\ x[2] = i
          BY <2>4, <5>1, <5>3
        <5>5. m.variants \in Seq(Int)
          BY <2>2 DEF ModelProfile
        <5>6. i = 0 \/ (i # 0 /\ i \in DOMAIN m.variants)
          BY <5>3, <5>4, <5>5
        <5> QED
          BY <5>1, <5>3, <5>4, <5>6 DEF NamesOf
      <4> QED
        BY <3>1, <3>5, <4>1
    <3>6. ASSUME NEW e \in Entries(models'), NEW f \in Entries(models'),
                 e[1] \in Done, f[1] \in Done, e # f
          PROVE  NamesOf(models', e) \cap NamesOf(models', f) = {}
      <4>1. \A x \in Entries(models') : x[1] \in Done =>
              x \in Entries(models) /\ NamesOf(models', x) = NamesOf(models, x)
        <5>1. SUFFICES ASSUME NEW x \in Entries(models'), x[1] \in Done
                       PROVE  x \in Entries(models) /\ NamesOf(models', x) = NamesOf(models, x)
          OBVIOUS
        <5>2. PICK j \in DOMAIN models' : \E i \in 0 .. Len(models'[j].variants) : x = <<j, i>>
          BY EntryParts
        <5>3. j \in Done /\ models'[j] = models[j] /\ x[1] = j
          BY <2>11, <5>1, <5>2
        <5>4. x \in Entries(models)
          BY <2>4, <5>2, <5>3, EntryParts
        <5> QED
          BY <5>3, <5>4 DEF NamesOf
      <4> QED
        BY <1>1, <3>6, <4>1 DEF ValidationInv, ClaimsInv
    <3>7. ASSUME NEW e \in Entries(models'), NEW f \in Entries(models'),
                 e[1] \in Done', f[1] \in Done', e # f
          PROVE  NamesOf(models', e) \cap NamesOf(models', f) = {}
      <4>1. (e[1] \in Done \/ e[1] = k) /\ (f[1] \in Done \/ f[1] = k)
        BY <2>11, <3>7
      <4> QED
        BY <3>4, <3>5, <3>6, <3>7, <4>1
    <3> QED
      BY <3>2, <3>3, <3>7 DEF ClaimsInv
  <2> QED
    BY <1>2, <2>1, <2>7, <2>8, <2>9, <2>10, <2>12 DEF ValidationInv
<1> QED
  BY <1>3, <1>4

LEMMA IndexStep ==
    ASSUME ValidationInv, Index
    PROVE  ValidationInv'
<1>1. /\ phase = "models" /\ pending = {} /\ phase' = "indexed"
      /\ index' = BuildIndex(providers, models)
      /\ UNCHANGED <<given, providers, models, fallback, owned, pending>>
  BY DEF Index
<1>2. DOMAIN models = DOMAIN given.models /\ models \in [DOMAIN models -> ModelProfile]
  BY DEF ValidationInv, ConfigTypeOK
<1>3. \A k \in DOMAIN given.models : ModelDone(k)
  BY <1>1 DEF ValidationInv, ModelsInv
<1>4. \A e \in Entries(models) : e[1] \in Done
  <2>1. TAKE e \in Entries(models)
  <2>2. PICK k \in DOMAIN models : \E i \in 0 .. Len(models[k].variants) : e = <<k, i>>
    BY EntryParts
  <2> QED
    BY <1>1, <2>2 DEF Done
<1>5. NamesDisjoint(models)
  BY <1>1, <1>4 DEF ValidationInv, ClaimsInv, NamesDisjoint
<1>6. Checked(models)
  BY <1>2, <1>3 DEF Checked, ModelDone
<1>7. DOMAIN index' \subseteq Name
  BY <1>1, <1>6, EntryTypes DEF BuildIndex, IndexedNames
<1>8. ConfigTypeOK'
  BY <1>1, <1>7 DEF ValidationInv, ConfigTypeOK
<1>9. ProvidersInv' /\ ClaimsInv'
  BY <1>1 DEF ValidationInv, ProvidersInv, ClaimsInv, Serving
<1>10. ModelsInv'
  BY <1>1, <1>3, <1>5 DEF ModelsInv, ModelDone, Serving
<1>11. VerdictInv'
  BY <1>1 DEF ValidationInv, VerdictInv, Serving
<1> QED
  BY <1>1, <1>8, <1>9, <1>10, <1>11 DEF ValidationInv

(* While serving, the state is what the configuration makes of it.         *)
LEMMA ServingFacts ==
    ASSUME ValidationInv, Serving
    PROVE  /\ given \in Configs
           /\ providers = CompletedProviders(given) /\ models = CompletedModels(given)
           /\ index = BuildIndex(providers, models)
           /\ DOMAIN providers \subseteq STRING
           /\ \A name \in DOMAIN providers : ValidProvider(name, providers[name])
           /\ \A k \in DOMAIN given.models : Placed(providers, given.models[k])
           /\ \A k \in DOMAIN models :
                 models[k] \in ModelProfile /\ ValidModel(models[k]) /\ models[k].provider \in DOMAIN providers
           /\ Checked(models) /\ NamesDisjoint(models)
<1>1. given \in Configs /\ providers = CompletedProviders(given)
  BY DEF ValidationInv, ProvidersInv
<1>2. models \in [DOMAIN given.models -> ModelProfile]
  BY DEF ValidationInv, ConfigTypeOK
<1>3. NamesDisjoint(models) /\ \A k \in DOMAIN given.models : ModelDone(k)
  BY DEF ValidationInv, ModelsInv
<1>4. models = CompletedModels(given)
  BY <1>1, <1>2, <1>3 DEF CompletedModels, ModelDone
<1>5. ASSUME NEW k \in DOMAIN given.models
      PROVE  models[k].provider \in DOMAIN providers
  <2>1. models[k].provider = ProviderOf(given.models[k])
    BY <1>1, <1>3, CompletedModelsType DEF ModelDone
  <2> QED
    BY <1>3, <2>1 DEF ModelDone, Placed
<1>6. DOMAIN providers \subseteq STRING /\ DOMAIN providers = DOMAIN given.providers
  BY <1>1 DEF ValidationInv, ConfigTypeOK, IsConfig, CompletedProviders
<1>7. Checked(models)
  BY <1>2, <1>3 DEF Checked, ModelDone
<1>8. \A name \in DOMAIN providers : ValidProvider(name, providers[name])
  BY <1>6 DEF ValidationInv, ProvidersInv
<1>9. index = BuildIndex(providers, models)
  BY DEF ValidationInv, VerdictInv
<1>10. \A k \in DOMAIN models :
          models[k] \in ModelProfile /\ ValidModel(models[k]) /\ models[k].provider \in DOMAIN providers
  BY <1>2, <1>3, <1>5 DEF ModelDone
<1>11. \A k \in DOMAIN given.models : Placed(providers, given.models[k])
  BY <1>3 DEF ModelDone
<1> QED
  BY <1>1, <1>3, <1>4, <1>6, <1>7, <1>8, <1>9, <1>10, <1>11

LEMMA SettleFallbackStep ==
    ASSUME ValidationInv, SettleFallback
    PROVE  ValidationInv'
<1> DEFINE chosen == ChosenFallback(providers, index, fallback)
           target == ResolveModel(providers, index, chosen)
<1>1. phase = "indexed"
  BY DEF SettleFallback
<1>2. fallback = given.fallback
  BY <1>1 DEF ValidationInv, VerdictInv
<1>3. Serving
  BY <1>1 DEF Serving
<1>4. CASE chosen # NoName /\ ~MayBeFallback(providers, target)
  <2>1. ~Sound(given)
    BY <1>2, <1>3, <1>4, ServingFacts DEF Sound
  <2>2. Reject
    BY <1>4 DEF SettleFallback
  <2> QED
    BY <2>1, <2>2, RejectStep
<1>5. CASE ~(chosen # NoName /\ ~MayBeFallback(providers, target))
  <2>1. /\ fallback' = IF chosen = NoName THEN NoName ELSE target.slug
        /\ phase' = "settled"
        /\ UNCHANGED <<given, providers, models, owned, index, pending>>
    BY <1>5 DEF SettleFallback
  <2>2. fallback' \in Name
    <3>1. CASE chosen = NoName
      BY <2>1, <3>1, NoNameIsName
    <3>2. CASE chosen # NoName
      <4>1. fallback \in Name
        BY DEF ValidationInv, ConfigTypeOK
      <4>2. chosen = fallback \/ chosen = DefaultFallback
        BY DEF ChosenFallback
      <4>3. chosen \in Name
        BY <4>1, <4>2, ConfigConstants
      <4>4. target.slug \in Name
        BY <1>3, <4>3, ServingFacts, AnswersAreNames
      <4> QED
        BY <2>1, <3>2, <4>4
    <3> QED
      BY <3>1, <3>2
  <2>3. ConfigTypeOK'
    BY <2>1, <2>2 DEF ValidationInv, ConfigTypeOK
  <2>4. ProvidersInv' /\ ModelsInv' /\ ClaimsInv'
    BY <1>1, <2>1 DEF ValidationInv, ProvidersInv, ModelsInv, ModelDone, ClaimsInv, Serving
  <2>5. FallbackSound'
    BY <1>2, <1>5, <2>1 DEF FallbackSound
  <2>6. VerdictInv'
    BY <1>1, <2>1, <2>5 DEF ValidationInv, VerdictInv, Serving
  <2> QED
    BY <2>1, <2>3, <2>4, <2>6 DEF ValidationInv
<1> QED
  BY <1>4, <1>5

LEMMA CheckRoutesStep ==
    ASSUME ValidationInv, CheckRoutes
    PROVE  ValidationInv'
<1>1. phase = "settled"
  BY DEF CheckRoutes
<1>2. CASE ~given.routeValid
  <2>1. ~Sound(given)
    BY <1>2 DEF Sound
  <2> QED
    BY <1>2, <2>1, RejectStep DEF CheckRoutes
<1>3. CASE given.routeValid
  <2>1. /\ phase' = "accepted"
        /\ UNCHANGED <<given, providers, models, fallback, owned, index, pending>>
    BY <1>3 DEF CheckRoutes
  <2>2. ConfigTypeOK'
    BY <2>1 DEF ValidationInv, ConfigTypeOK
  <2>3. ProvidersInv' /\ ModelsInv' /\ ClaimsInv'
    BY <1>1, <2>1 DEF ValidationInv, ProvidersInv, ModelsInv, ModelDone, ClaimsInv, Serving
  <2>4. VerdictInv'
    BY <1>1, <1>3, <2>1 DEF ValidationInv, VerdictInv, FallbackSound, Serving
  <2> QED
    BY <2>1, <2>2, <2>3, <2>4 DEF ValidationInv
<1> QED
  BY <1>2, <1>3

LEMMA ValidationStep == ValidationInv /\ [ConfigNext]_validationVars => ValidationInv'
<1> SUFFICES ASSUME ValidationInv, [ConfigNext]_validationVars PROVE ValidationInv'
  OBVIOUS
<1>1. CASE Start
  BY <1>1, StartStep
<1>2. CASE \E name \in DOMAIN providers : CompleteProvider(name)
  BY <1>2, CompleteProviderStep
<1>3. CASE StartModels
  BY <1>3, StartModelsStep
<1>4. CASE \E k \in DOMAIN models : CompleteModel(k)
  BY <1>4, CompleteModelStep
<1>5. CASE Index
  BY <1>5, IndexStep
<1>6. CASE SettleFallback
  BY <1>6, SettleFallbackStep
<1>7. CASE CheckRoutes
  BY <1>7, CheckRoutesStep
<1>8. CASE UNCHANGED validationVars
  BY <1>8 DEF validationVars, ValidationInv, ConfigTypeOK, ProvidersInv, ModelsInv, ModelDone,
              ClaimsInv, Done, VerdictInv, FallbackSound, Serving
<1> QED
  BY <1>1, <1>2, <1>3, <1>4, <1>5, <1>6, <1>7, <1>8 DEF ConfigNext

(* The invariant holds in every run, for every set of configurations.      *)
THEOREM ValidationInvariant == ConfigSpec => []ValidationInv
<1>1. ValidationInv /\ [ConfigNext]_validationVars => ValidationInv'
  BY ValidationStep
<1> QED
  BY InitValidation, <1>1, PTL DEF ConfigSpec

-----------------------------------------------------------------------------
(* Every variable has its type: providers and models keep theirs through   *)
(* defaults, and fallback ends as a name.                                  *)
THEOREM ConfigTypeCorrect == ConfigSpec => []ConfigTypeOK
<1>1. ValidationInv => ConfigTypeOK
  BY DEF ValidationInv
<1> QED
  BY <1>1, ValidationInvariant, PTL

(* ApplyDefaultsAndValidate accepts exactly the sound configurations, in   *)
(* whatever order the maps are traversed.                                  *)
THEOREM VerdictIgnoresOrderCorrect == ConfigSpec => []VerdictIgnoresOrder
<1>1. ASSUME ValidationInv, phase = "accepted" PROVE Sound(given)
  <2>1. Serving
    BY <1>1 DEF Serving
  <2> DEFINE ps == CompletedProviders(given)
             ms == CompletedModels(given)
  <2>2. /\ providers = ps /\ models = ms /\ index = BuildIndex(ps, ms)
        /\ \A name \in DOMAIN ps : ValidProvider(name, ps[name])
        /\ \A k \in DOMAIN given.models : Placed(ps, given.models[k])
        /\ \A k \in DOMAIN ms : ValidModel(ms[k])
        /\ NamesDisjoint(ms)
    BY <1>1, <2>1, ServingFacts
  <2>3. DOMAIN ms = DOMAIN given.models
    BY DEF CompletedModels
  <2>4. /\ given.version \in {0, CurrentVersion} /\ DOMAIN given.providers # {} /\ given.models # <<>>
        /\ FallbackSound /\ given.routeValid
    BY <1>1 DEF ValidationInv, VerdictInv
  <2> HIDE DEF ps, ms
  <2>5. LET chosen == ChosenFallback(ps, BuildIndex(ps, ms), given.fallback)
        IN  chosen # NoName => MayBeFallback(ps, ResolveModel(ps, BuildIndex(ps, ms), chosen))
    BY <2>2, <2>4 DEF FallbackSound
  <2> QED
    BY <2>2, <2>3, <2>4, <2>5 DEF Sound, ps, ms
<1>2. ASSUME ValidationInv, phase = "rejected" PROVE ~Sound(given)
  BY <1>2 DEF ValidationInv, VerdictInv
<1>3. ValidationInv => VerdictIgnoresOrder
  BY <1>1, <1>2 DEF VerdictIgnoresOrder
<1> QED
  BY <1>3, ValidationInvariant, PTL

(* buildResolutionIndex loses no name: each one a configured model or      *)
(* variant answers to leads to it, however many there are.                 *)
THEOREM NamesReachTheirEntryCorrect == ConfigSpec => []NamesReachTheirEntry
<1>1. ValidationInv => NamesReachTheirEntry
  BY ServingFacts, IndexGivesClaimant DEF NamesReachTheirEntry, Serving
<1> QED
  BY <1>1, ValidationInvariant, PTL

(* What ResolveModel answers is lawful, for every name and not only the    *)
(* ones a run asks.                                                        *)
THEOREM ResolvedModelsAreLawfulCorrect == ConfigSpec => []ResolvedModelsAreLawful
<1>1. ASSUME ValidationInv, phase = "accepted", NEW n \in Asked, Answer(n) # Unresolved
      PROVE  /\ providers[Answer(n).provider].credential = Passthrough
                   => Answer(n).provider = "openai"
             /\ TextOnlyInChat(Answer(n))
  <2>1. /\ index = BuildIndex(providers, models) /\ NamesDisjoint(models)
        /\ \A name \in DOMAIN providers : ValidProvider(name, providers[name])
        /\ \A k \in DOMAIN models : ValidModel(models[k]) /\ models[k].provider \in DOMAIN providers
    BY <1>1, ServingFacts DEF Serving
  <2>2. CASE n \in DOMAIN index
    <3>1. PICK e \in Entries(models) : index[n] = Resolved(providers, models, e)
      BY <2>1, <2>2, IndexHoldsEntries
    <3>2. PICK k \in DOMAIN models : e[1] = k
      BY EntryParts
    <3>3. /\ Answer(n).provider = models[k].provider
          /\ Answer(n).mode = models[k].mode /\ Answer(n).nativeOnly = models[k].nativeOnly
      BY <2>2, <3>1, <3>2 DEF Answer, ResolveModel, Resolved
    <3> QED
      BY <2>1, <3>3 DEF ValidProvider, ValidModel, TextOnlyInChat
  <2>3. CASE n \notin DOMAIN index
    <3> DEFINE p == DiscoveryProvider(n)
    <3>1. Answer(n) = Discovered(providers, n) /\ Discoverable(providers, index, n)
      BY <1>1, <2>3 DEF Answer, ResolveModel
    <3>2. p \in DOMAIN providers /\ providers[p].discovers
      BY <3>1 DEF Discoverable
    <3>3. /\ Answer(n).provider = p /\ Answer(n).mode = providers[p].mode
          /\ Answer(n).nativeOnly = providers[p].nativeOnly
      BY <3>1 DEF Discovered
    <3> QED
      BY <2>1, <3>2, <3>3 DEF ValidProvider, TextOnlyInChat
  <2> QED
    BY <2>2, <2>3
<1>2. ValidationInv => ResolvedModelsAreLawful
  BY <1>1 DEF ResolvedModelsAreLawful
<1> QED
  BY <1>2, ValidationInvariant, PTL

(* A configured name with a suffix that is nobody's resolves to nothing.   *)
THEOREM UnknownSuffixRefusedCorrect == ConfigSpec => []UnknownSuffixRefused
<1>1. ASSUME ValidationInv, phase = "accepted",
             NEW n \in Asked, NEW k \in DOMAIN models, NEW base \in Asked,
             base \in ModelNamesOf(models[k]),
             n.marks # <<>>, n = WithMark(base, n.marks[Len(n.marks)]),
             n.marks[Len(n.marks)].unit \in {"k", "m"},
             \A e \in Entries(models) : n \notin NamesOf(models, e)
      PROVE  Answer(n) = Unresolved
  <2>1. /\ index = BuildIndex(providers, models) /\ NamesDisjoint(models)
        /\ models[k] \in ModelProfile
    BY <1>1, ServingFacts DEF Serving
  <2>2. n \notin DOMAIN index
    BY <1>1, <2>1 DEF BuildIndex, IndexedNames
  <2>3. <<k, 0>> \in Entries(models) /\ base \in NamesOf(models, <<k, 0>>)
    BY <1>1, <2>1, EntryNames
  <2>4. base \in DOMAIN index /\ index[base] = Resolved(providers, models, <<k, 0>>)
    BY <2>1, <2>3, IndexGivesClaimant
  <2>5. index[base].window = 0
    BY <2>4 DEF Resolved
  <2>6. [n EXCEPT !.marks = SubSeq(n.marks, 1, Len(n.marks) - 1)] = base
    <3> DEFINE mark == n.marks[Len(n.marks)]
    <3>1. n \in Name /\ base \in Name
      BY ConfigConstants
    <3>2. base.marks \in Seq(Mark) /\ n.marks \in Seq(Mark)
      BY <3>1 DEF Name
    <3>3. mark \in Mark
      BY <1>1, <3>2
    <3>4. n.marks = Append(base.marks, mark) /\ n.path = base.path
      BY <1>1, <3>1 DEF WithMark, Name
    <3> HIDE DEF mark
    <3>5. SubSeq(n.marks, 1, Len(n.marks) - 1) = base.marks
      BY <3>2, <3>3, <3>4
    <3> QED
      BY <3>1, <3>4, <3>5 DEF Name
  <2>7. LooksLikeUnknownVariant(index, n)
    BY <1>1, <2>4, <2>5, <2>6 DEF LooksLikeUnknownVariant
  <2> QED
    BY <2>2, <2>7 DEF Answer, ResolveModel, Discoverable
<1>2. ValidationInv => UnknownSuffixRefused
  BY <1>1 DEF UnknownSuffixRefused
<1> QED
  BY <1>2, ValidationInvariant, PTL

-----------------------------------------------------------------------------
(* What the documents promise and the runs refute, within the bounds of    *)
(* what does hold.  The slug of an entry leads back to it as long as its   *)
(* variants are published under a name it answers to: preferredVariantSlug *)
(* falls back on the upstream model, which need not be one.                *)
PublishesOwnNames ==
    \A k \in DOMAIN models :
        models[k].variants # <<>> => VariantBase(providers, models[k]) \in ModelNamesOf(models[k])

THEOREM PublishedEntriesRouteIfOwn == ConfigSpec => [](PublishesOwnNames => PublishedEntriesRoute)
<1>1. ASSUME ValidationInv, PublishesOwnNames, phase = "accepted", NEW e \in Entries(models)
      PROVE  Answer(PublishedSlug(providers, models, e)) = Resolved(providers, models, e)
  <2>1. PICK k \in DOMAIN models : \E i \in 0 .. Len(models[k].variants) : e = <<k, i>>
    BY <1>1, EntryParts
  <2>2. PICK i \in 0 .. Len(models[k].variants) : e = <<k, i>>
    BY <2>1
  <2>3. /\ index = BuildIndex(providers, models) /\ NamesDisjoint(models)
        /\ models[k] \in ModelProfile
    BY <1>1, ServingFacts DEF Serving
  <2>4. PublishedSlug(providers, models, e) \in NamesOf(models, e)
    <3>1. CASE i = 0
      BY <2>2, <3>1 DEF PublishedSlug, NamesOf, ModelNamesOf
    <3>2. CASE i # 0
      <4>1. models[k].variants \in Seq(Int)
        BY <2>3 DEF ModelProfile
      <4>2. i \in DOMAIN models[k].variants /\ models[k].variants # <<>>
        BY <3>2, <4>1
      <4>3. VariantBase(providers, models[k]) \in ModelNamesOf(models[k])
        BY <1>1, <4>2 DEF PublishesOwnNames
      <4> QED
        BY <2>2, <3>2, <4>3 DEF PublishedSlug, NamesOf, VariantNamesOf
    <3> QED
      BY <3>1, <3>2
  <2> QED
    BY <2>3, <2>4, IndexGivesClaimant DEF Answer, ResolveModel
<1>2. ValidationInv => (PublishesOwnNames => PublishedEntriesRoute)
  BY <1>1 DEF PublishedEntriesRoute
<1> QED
  BY <1>2, ValidationInvariant, PTL

(* A name openai/model is OpenAI's as long as no entry of another provider  *)
(* answers to such a name: discovery itself never gives it away.           *)
OpenAIOwnsItsNames ==
    \A e \in Entries(models) : \A n \in NamesOf(models, e) :
        HasSlash(n) /\ n.path[1] = "openai" => models[e[1]].provider = "openai"

THEOREM OpenAINamesReachOpenAIIfOwned ==
    ConfigSpec => [](OpenAIOwnsItsNames => OpenAINamesReachOpenAI)
<1>1. ASSUME ValidationInv, OpenAIOwnsItsNames, phase = "accepted",
             NEW n \in Asked, HasSlash(n), n.path[1] = "openai", Answer(n) # Unresolved
      PROVE  Answer(n).provider = "openai"
  <2>1. CASE n \in DOMAIN index
    <3>1. index = BuildIndex(providers, models) /\ NamesDisjoint(models)
      BY <1>1, ServingFacts DEF Serving
    <3>2. PICK e \in Entries(models) : n \in NamesOf(models, e)
      BY <2>1, <3>1 DEF BuildIndex, IndexedNames
    <3>3. Answer(n) = Resolved(providers, models, e)
      BY <2>1, <3>1, <3>2, IndexGivesClaimant DEF Answer, ResolveModel
    <3>4. models[e[1]].provider = "openai"
      BY <1>1, <3>2 DEF OpenAIOwnsItsNames
    <3> QED
      BY <3>3, <3>4 DEF Resolved
  <2>2. CASE n \notin DOMAIN index
    <3>1. Answer(n) = Discovered(providers, n)
      BY <1>1, <2>2 DEF Answer, ResolveModel
    <3>2. DiscoveryProvider(n) = "openai"
      BY <1>1 DEF DiscoveryProvider
    <3> QED
      BY <3>1, <3>2 DEF Discovered
  <2> QED
    BY <2>1, <2>2
<1>2. ValidationInv => (OpenAIOwnsItsNames => OpenAINamesReachOpenAI)
  BY <1>1 DEF OpenAINamesReachOpenAI
<1> QED
  BY <1>2, ValidationInvariant, PTL
=============================================================================
