---------------------------- MODULE DispatchProofs ----------------------------
(***************************************************************************)
(* Proofs about Dispatch for every configuration that validation accepts,  *)
(* every name a client may ask, and whatever lists of models are served.   *)
(***************************************************************************)
EXTENDS Dispatch, ConfigValidationProofs, SequenceTheorems

-----------------------------------------------------------------------------
(* What a name leads to once a configuration is accepted.                  *)
LEMMA AnswerFacts ==
    ASSUME ValidationInv, phase = "accepted", NEW n, Answer(n) # Unresolved
    PROVE  /\ Answer(n).provider \in DOMAIN providers
           /\ IsPassthrough(Answer(n)) => Answer(n).provider = "openai"
<1>1. /\ index = BuildIndex(providers, models) /\ NamesDisjoint(models)
      /\ \A name \in DOMAIN providers : ValidProvider(name, providers[name])
      /\ \A k \in DOMAIN models : models[k].provider \in DOMAIN providers
  BY ServingFacts DEF Serving
<1>2. CASE n \in DOMAIN index
  <2>1. PICK e \in Entries(models) : index[n] = Resolved(providers, models, e)
    BY <1>1, <1>2, IndexHoldsEntries
  <2>2. PICK k \in DOMAIN models : e[1] = k
    BY EntryParts
  <2>3. Answer(n).provider = models[k].provider
    BY <1>2, <2>1, <2>2 DEF Answer, ResolveModel, Resolved
  <2> QED
    BY <1>1, <2>3 DEF ValidProvider, IsPassthrough
<1>3. CASE n \notin DOMAIN index
  <2>1. Answer(n) = Discovered(providers, n) /\ DiscoveryProvider(n) \in DOMAIN providers
    BY <1>3 DEF Answer, ResolveModel, Discoverable
  <2>2. Answer(n).provider = DiscoveryProvider(n)
    BY <2>1 DEF Discovered
  <2> QED
    BY <1>1, <2>1, <2>2 DEF ValidProvider, IsPassthrough
<1> QED
  BY <1>2, <1>3

LEMMA ResolvedIsResolved ==
    ASSUME NEW ps, NEW ms, NEW e
    PROVE  Resolved(ps, ms, e) # Unresolved
<1>1. "base" \in DOMAIN Resolved(ps, ms, e) /\ "base" \notin DOMAIN Unresolved
  BY DEF Resolved, Unresolved
<1> QED
  BY <1>1

LEMMA DiscoveredIsResolved ==
    ASSUME NEW ps, NEW n
    PROVE  Discovered(ps, n) # Unresolved
<1>1. "base" \in DOMAIN Discovered(ps, n) /\ "base" \notin DOMAIN Unresolved
  BY DEF Discovered, Unresolved
<1> QED
  BY <1>1

(* The slug of an entry, and what follows its first slash, lead to it.     *)
LEMMA SlugAnswers ==
    ASSUME ValidationInv, phase = "accepted", NEW k \in DOMAIN models
    PROVE  LET m == models[k]
           IN  /\ m.slug \in Name /\ HasSlash(m.slug)
               /\ m.slug \in DOMAIN index /\ AfterSlash(m.slug) \in DOMAIN index
               /\ Answer(m.slug) = Resolved(providers, models, <<k, 0>>)
               /\ Answer(AfterSlash(m.slug)) = Resolved(providers, models, <<k, 0>>)
<1>1. /\ index = BuildIndex(providers, models) /\ NamesDisjoint(models)
      /\ models = CompletedModels(given)
      /\ models[k] \in ModelProfile
      /\ \A j \in DOMAIN given.models : Placed(providers, given.models[j])
  BY ServingFacts DEF Serving
<1>2. models[k].slug = given.models[k].slug /\ k \in DOMAIN given.models
  <2>1. k \in DOMAIN given.models /\ given \in Configs /\ providers = CompletedProviders(given)
    BY <1>1, ServingFacts DEF Serving, CompletedModels
  <2>2. models[k] = CompletedModel(CompletedProviders(given), given.models[k])
    BY <1>1, <2>1 DEF CompletedModels
  <2> QED
    BY <1>1, <2>1, <2>2, CompletedModelsType
<1>3. models[k].slug \in Name /\ HasSlash(models[k].slug)
  BY <1>1, <1>2 DEF Placed, ModelProfile
<1>4. /\ <<k, 0>> \in Entries(models)
      /\ models[k].slug \in NamesOf(models, <<k, 0>>)
      /\ AfterSlash(models[k].slug) \in NamesOf(models, <<k, 0>>)
  BY <1>1, <1>3, EntryNames DEF ModelNamesOf
<1>5. \A n \in NamesOf(models, <<k, 0>>) :
         n \in DOMAIN index /\ index[n] = Resolved(providers, models, <<k, 0>>)
  BY <1>1, <1>4, IndexGivesClaimant
<1> QED
  BY <1>3, <1>4, <1>5 DEF Answer, ResolveModel

(* The name of a provider's model, behind the provider.                    *)
Prefixed(p, up) == [up EXCEPT !.path = <<p>> \o up.path]

LEMMA NamesEqual ==
    ASSUME NEW m \in Name, NEW n \in Name, m.path = n.path, m.marks = n.marks
    PROVE  m = n
BY DEF Name

LEMMA PrefixedFacts ==
    ASSUME NEW p \in STRING, NEW up \in Name
    PROVE  /\ Prefixed(p, up).path[1] = p /\ Prefixed(p, up) # NoName
           /\ AfterSlash(Prefixed(p, up)) = up
           /\ HasSlash(Prefixed(p, up)) <=> up.path # <<>>
<1>1. up.path \in Seq(STRING) /\ up.marks \in Seq(Mark)
  BY DEF Name
<1> DEFINE path == <<p>> \o up.path
<1>2. /\ path \in Seq(STRING) /\ path[1] = p /\ path # <<>>
      /\ Len(path) = 1 + Len(up.path)
  BY <1>1
<1>3. Tail(path) = up.path
  BY <1>1
<1>4. Len(path) > 1 <=> up.path # <<>>
  BY <1>1, <1>2
<1>5. Prefixed(p, up) = [up EXCEPT !.path = path]
  BY DEF Prefixed
<1> HIDE DEF path
<1>6. Prefixed(p, up) \in Name /\ Prefixed(p, up).path = path /\ Prefixed(p, up).marks = up.marks
  BY <1>1, <1>2, <1>5 DEF Name
<1>7. AfterSlash(Prefixed(p, up)) = up
  <2>1. AfterSlash(Prefixed(p, up)) \in Name
    BY <1>1, <1>3, <1>6 DEF Name, AfterSlash
  <2>2. /\ AfterSlash(Prefixed(p, up)).path = up.path
        /\ AfterSlash(Prefixed(p, up)).marks = up.marks
    BY <1>3, <1>6 DEF Name, AfterSlash
  <2> QED
    BY <2>1, <2>2, NamesEqual
<1>8. Prefixed(p, up) # NoName
  BY <1>2, <1>6 DEF NoName
<1> QED
  BY <1>2, <1>4, <1>6, <1>7, <1>8 DEF HasSlash

LEMMA LongIsNotEmpty ==
    ASSUME NEW S, NEW s \in Seq(S), Len(s) > 0
    PROVE  s # <<>>
OBVIOUS

LEMMA LongTail ==
    ASSUME NEW S, NEW s \in Seq(S), Len(s) > 1
    PROVE  Tail(s) # <<>>
<1>1. Tail(s) \in Seq(S) /\ Len(Tail(s)) > 0
  <2>1. Len(s) \in Nat /\ s # <<>>
    OBVIOUS
  <2>2. Tail(s) \in Seq(S) /\ Len(Tail(s)) = Len(s) - 1
    BY <2>1, HeadTailProperties
  <2> QED
    BY <2>1, <2>2
<1> QED
  BY <1>1, LongIsNotEmpty

LEMMA PrefixedAfterSlash ==
    ASSUME NEW n \in Name, HasSlash(n)
    PROVE  /\ Prefixed(n.path[1], AfterSlash(n)) = n
           /\ AfterSlash(n) \in Name /\ AfterSlash(n).path # <<>>
<1>1. n.path \in Seq(STRING) /\ Len(n.path) > 1 /\ n.path # <<>>
  BY DEF Name, HasSlash
<1>2. <<n.path[1]>> \o Tail(n.path) = n.path
  BY <1>1, HeadTailProperties
<1>3. Tail(n.path) # <<>>
  BY <1>1, LongTail
<1>4. AfterSlash(n) \in Name
  BY AfterSlashIsName
<1>5. AfterSlash(n).path = Tail(n.path) /\ AfterSlash(n).marks = n.marks
  BY DEF Name, AfterSlash
<1>6. Prefixed(n.path[1], AfterSlash(n)) = [AfterSlash(n) EXCEPT !.path = n.path]
  BY <1>2, <1>5 DEF Prefixed
<1>7. /\ Prefixed(n.path[1], AfterSlash(n)) \in Name
      /\ Prefixed(n.path[1], AfterSlash(n)).path = n.path
      /\ Prefixed(n.path[1], AfterSlash(n)).marks = n.marks
  BY <1>1, <1>4, <1>5, <1>6 DEF Name
<1> QED
  BY <1>3, <1>4, <1>5, <1>7, NamesEqual

(* Where an answer comes from: the index, or a provider's discovery.       *)
LEMMA IndexedAnswer ==
    ASSUME ValidationInv, phase = "accepted", NEW n \in DOMAIN index
    PROVE  \E k \in DOMAIN models :
              LET m == models[k]
              IN  /\ Answer(n).base = m.slug /\ Answer(n).provider = m.provider
                  /\ Answer(n).upstream = m.upstream /\ Answer(n).mode = m.mode
                  /\ m.provider \in STRING /\ m.upstream \in Name /\ ~Blank(m.upstream)
<1>1. /\ index = BuildIndex(providers, models) /\ NamesDisjoint(models)
      /\ \A k \in DOMAIN models : models[k] \in ModelProfile /\ ValidModel(models[k])
  BY ServingFacts DEF Serving
<1>2. PICK e \in Entries(models) : index[n] = Resolved(providers, models, e)
  BY <1>1, IndexHoldsEntries
<1>3. PICK k \in DOMAIN models : e[1] = k
  BY EntryParts
<1>4. Answer(n) = Resolved(providers, models, e)
  BY <1>2 DEF Answer, ResolveModel
<1>5. models[k].provider \in STRING /\ models[k].upstream \in Name /\ ~Blank(models[k].upstream)
  BY <1>1 DEF ModelProfile, ValidModel
<1>6. /\ Answer(n).base = models[k].slug /\ Answer(n).provider = models[k].provider
      /\ Answer(n).upstream = models[k].upstream /\ Answer(n).mode = models[k].mode
  BY <1>3, <1>4 DEF Resolved
<1> QED
  BY <1>5, <1>6

LEMMA DiscoveredAnswer ==
    ASSUME ValidationInv, phase = "accepted", NEW n \in Name, n \notin DOMAIN index,
           Answer(n) # Unresolved
    PROVE  LET p == DiscoveryProvider(n)
               up == DiscoveredUpstream(n)
           IN  /\ Answer(n) = Discovered(providers, n)
               /\ p \in STRING /\ p # "" /\ p \in DOMAIN providers /\ providers[p].discovers
               /\ up \in Name /\ ~Blank(up) /\ (n.path # <<>> => up.path # <<>>)
               /\ Answer(n).base = Prefixed(p, up) /\ Answer(n).upstream = up
               /\ Answer(n).provider = p /\ Answer(n).mode = providers[p].mode
               /\ ~ConfiguredTarget(Answer(n))
<1> DEFINE p == DiscoveryProvider(n)
           up == DiscoveredUpstream(n)
<1>1. Answer(n) = Discovered(providers, n) /\ Discoverable(providers, index, n)
  BY DEF Answer, ResolveModel
<1>2. p \in DOMAIN providers /\ providers[p].discovers /\ ~Blank(up)
  BY <1>1 DEF Discoverable
<1>3. p \in STRING /\ p # ""
  BY <1>2, ServingFacts DEF Serving, ValidProvider
<1>4. up \in Name /\ (n.path # <<>> => up.path # <<>>)
  BY PrefixedAfterSlash DEF DiscoveredUpstream, NamesProvider
<1>5. /\ Answer(n).base = Prefixed(p, up) /\ Answer(n).upstream = up
      /\ Answer(n).provider = p /\ Answer(n).mode = providers[p].mode
  BY <1>1 DEF Discovered, Prefixed
<1>6. ASSUME NEW k \in DOMAIN models, models[k].slug = Prefixed(p, up)
      PROVE  FALSE
  <2>1. models[k].slug \in DOMAIN index /\ AfterSlash(models[k].slug) \in DOMAIN index
    BY SlugAnswers
  <2>2. CASE NamesProvider(n)
    <3>1. Prefixed(p, up) = n
      BY <2>2, PrefixedAfterSlash DEF DiscoveryProvider, DiscoveredUpstream, NamesProvider
    <3> QED
      BY <1>6, <2>1, <3>1
  <2>3. CASE ~NamesProvider(n)
    <3>1. up = n
      BY <2>3 DEF DiscoveredUpstream
    <3> HIDE DEF p, up
    <3>2. AfterSlash(Prefixed(p, up)) = up
      BY <1>3, <1>4, PrefixedFacts
    <3> QED
      BY <1>6, <2>1, <3>1, <3>2
  <2> QED
    BY <2>2, <2>3
<1>7. ~ConfiguredTarget(Answer(n))
  BY <1>5, <1>6 DEF ConfiguredTarget
<1> QED
  BY <1>1, <1>2, <1>3, <1>4, <1>5, <1>7

LEMMA CompletedNames ==
    ASSUME NEW m \in ModelProfile, NEW ps
    PROVE  /\ CompletedModel(ps, m).slug = m.slug
           /\ CompletedModel(ps, m).aliases = m.aliases
           /\ CompletedModel(ps, m).upstream = IF m.upstream = NoName THEN AfterSlash(m.slug) ELSE m.upstream
<1> DEFINE window == OrDefault(m.window, 0, 131072)
           ceiling == OrDefault(m.maxWindow, 0, window)
           mode == OrDefault(m.mode, "", ps[ProviderOf(m)].mode)
           provider == ProviderOf(m)
           up == OrDefault(m.upstream, NoName, AfterSlash(m.slug))
<1>1. CompletedModel(ps, m) =
        [m EXCEPT !.provider = provider, !.mode = mode, !.upstream = up,
                  !.window = window, !.maxWindow = ceiling]
  BY DEF CompletedModel
<1>2. up = IF m.upstream = NoName THEN AfterSlash(m.slug) ELSE m.upstream
  BY DEF OrDefault
<1> HIDE DEF window, ceiling, mode, provider, up
<1> QED
  BY <1>1, <1>2 DEF ModelProfile

(* The names and the numbers of a model, once its configuration is         *)
(* accepted.                                                               *)
LEMMA AcceptedModel ==
    ASSUME ValidationInv, phase = "accepted", NEW k \in DOMAIN models
    PROVE  LET m == models[k]
           IN  /\ m \in ModelProfile
               /\ Said(m.slug) /\ Said(m.upstream)
               /\ \A i \in DOMAIN m.aliases : Said(m.aliases[i])
               /\ m.window \in Nat \ {0} /\ m.maxWindow \in Nat
               /\ \A i \in DOMAIN m.variants : m.variants[i] \in Nat \ {0}
<1> DEFINE g == given.models[k]
           m == models[k]
<1>1. /\ given \in Configs /\ providers = CompletedProviders(given) /\ models = CompletedModels(given)
      /\ m \in ModelProfile /\ ValidModel(m)
      /\ \A j \in DOMAIN given.models : Placed(providers, given.models[j])
  BY ServingFacts DEF Serving
<1>2. k \in DOMAIN given.models /\ m = CompletedModel(CompletedProviders(given), g)
  BY <1>1 DEF CompletedModels
<1>3. /\ g \in ModelProfile /\ HasSlash(g.slug)
      /\ g.upstream = NoName \/ Said(g.upstream)
      /\ \A i \in DOMAIN g.aliases : Said(g.aliases[i])
  BY <1>1, <1>2, GivenFacts DEF IsConfig, Placed
<1>4. /\ m.slug = g.slug /\ m.aliases = g.aliases
      /\ m.upstream = IF g.upstream = NoName THEN AfterSlash(g.slug) ELSE g.upstream
  BY <1>2, <1>3, CompletedNames
<1>5. Said(m.slug) /\ Said(m.upstream)
  <2>1. g.slug \in Name /\ g.slug.path \in Seq(STRING) /\ Len(g.slug.path) > 1
    BY <1>3 DEF ModelProfile, Name, HasSlash
  <2>2. g.slug.path # <<>>
    BY <2>1
  <2>3. AfterSlash(g.slug).path # <<>>
    BY <1>3, <2>1, PrefixedAfterSlash
  <2> QED
    BY <1>3, <1>4, <2>2, <2>3 DEF Said
<1>6. /\ m.window \in Int /\ m.window > 0 /\ m.maxWindow \in Int /\ m.maxWindow >= m.window
      /\ m.variants \in Seq(Int)
      /\ \A i \in DOMAIN m.variants : m.variants[i] > 0
  BY <1>1 DEF ModelProfile, ValidModel, ValidVariant
<1>7. \A i \in DOMAIN m.variants : m.variants[i] \in Int
  BY <1>6
<1> QED
  BY <1>1, <1>3, <1>4, <1>5, <1>6, <1>7

(* An entry of an accepted configuration, as it is resolved.               *)
LEMMA ResolvedType ==
    ASSUME ValidationInv, phase = "accepted",
           NEW k \in DOMAIN models, NEW i \in 0 .. Len(models[k].variants)
    PROVE  LET r == Resolved(providers, models, <<k, i>>)
           IN  /\ r.slug \in Name /\ Said(r.slug)
               /\ r.base = models[k].slug
               /\ r.upstream \in Name /\ Said(r.upstream)
               /\ r.provider \in DOMAIN providers
               /\ r.window \in Nat /\ (r.window = 0 <=> i = 0)
<1> DEFINE m == models[k]
           e == <<k, i>>
           r == Resolved(providers, models, e)
<1>1. /\ m \in ModelProfile /\ Said(m.slug) /\ Said(m.upstream)
      /\ \A j \in DOMAIN m.aliases : Said(m.aliases[j])
      /\ \A j \in DOMAIN m.variants : m.variants[j] \in Nat \ {0}
  BY AcceptedModel
<1>2. m.variants \in Seq(Int) /\ m.aliases \in Seq(Name) /\ m.slug \in Name /\ m.upstream \in Name
  BY <1>1 DEF ModelProfile
<1>3. i # 0 => i \in DOMAIN m.variants
  BY <1>2
<1>4. /\ e[1] = k /\ e[2] = i
      /\ e \in Entries(models) /\ Checked(models) /\ m.provider \in DOMAIN providers
  <2>1. e \in Entries(models)
    BY EntryParts
  <2> QED
    BY <2>1, ServingFacts DEF Serving
<1>5. r.slug \in Name
  BY <1>4, EntryTypes DEF Resolved
<1>6. /\ r.base = m.slug /\ r.upstream = m.upstream /\ r.provider = m.provider
      /\ r.slug = PublishedSlug(providers, models, e)
      /\ r.window = IF i = 0 THEN 0 ELSE m.variants[i]
  BY <1>4 DEF Resolved
<1>7. Said(r.slug)
  <2>1. CASE i = 0
    BY <1>1, <1>4, <1>6, <2>1 DEF PublishedSlug
  <2>2. CASE i # 0
    <3>1. r.slug.path = VariantBase(providers, m).path
      <4>1. VariantBase(providers, m) \in Name
        BY <1>1, VariantBaseIsName
      <4>2. r.slug = WithMark(VariantBase(providers, m), ContextMark(m.variants[i]))
        BY <1>4, <1>6, <2>2 DEF PublishedSlug
      <4> QED
        BY <4>1, <4>2 DEF WithMark, Name
    <3>2. Said(VariantBase(providers, m))
      <4>1. ShortAliases(m) \in SUBSET Nat
        BY <1>2 DEF ShortAliases
      <4>2. ASSUME ShortAliases(m) # {}
            PROVE  (CHOOSE j \in ShortAliases(m) : \A l \in ShortAliases(m) : j <= l) \in DOMAIN m.aliases
        <5>1. \E j \in ShortAliases(m) : \A l \in ShortAliases(m) : j <= l
          BY <4>1, <4>2, LeastNatural
        <5> QED
          BY <5>1 DEF ShortAliases
      <4> QED
        BY <1>1, <4>2 DEF VariantBase
    <3> QED
      BY <3>1, <3>2 DEF Said
  <2> QED
    BY <2>1, <2>2
<1> QED
  BY <1>1, <1>2, <1>3, <1>4, <1>5, <1>6, <1>7

(* Whatever a name leads to.                                               *)
LEMMA AnswerType ==
    ASSUME ValidationInv, phase = "accepted", NEW n \in Name, Answer(n) # Unresolved
    PROVE  LET r == Answer(n)
           IN  /\ r.slug \in Name /\ Said(r.slug)
               /\ r.upstream \in Name
               /\ r.provider \in DOMAIN providers
               /\ r.window \in Nat
<1>1. CASE n \in DOMAIN index
  <2>1. index = BuildIndex(providers, models) /\ NamesDisjoint(models)
    BY ServingFacts DEF Serving
  <2>2. PICK e \in Entries(models) : index[n] = Resolved(providers, models, e)
    BY <1>1, <2>1, IndexHoldsEntries
  <2>3. PICK k \in DOMAIN models : \E i \in 0 .. Len(models[k].variants) : e = <<k, i>>
    BY EntryParts
  <2>4. PICK i \in 0 .. Len(models[k].variants) : e = <<k, i>>
    BY <2>3
  <2>5. Answer(n) = Resolved(providers, models, <<k, i>>)
    BY <1>1, <2>2, <2>4 DEF Answer, ResolveModel
  <2> QED
    BY <2>5, ResolvedType
<1>2. CASE n \notin DOMAIN index
  <2> DEFINE p == DiscoveryProvider(n)
             up == DiscoveredUpstream(n)
  <2>1. /\ Answer(n) = Discovered(providers, n)
        /\ p \in STRING /\ p \in DOMAIN providers /\ up \in Name
        /\ Answer(n).upstream = up /\ Answer(n).provider = p
    BY <1>2, DiscoveredAnswer
  <2>2. Answer(n).slug = Prefixed(p, up) /\ Answer(n).window = 0
    BY <2>1 DEF Discovered, Prefixed
  <2> HIDE DEF p, up
  <2>3. Prefixed(p, up) \in Name /\ Said(Prefixed(p, up))
    <3>1. up.path \in Seq(STRING) /\ up.marks \in Seq(Mark)
      BY <2>1 DEF Name
    <3>2. <<p>> \o up.path \in Seq(STRING) /\ <<p>> \o up.path # <<>>
      BY <2>1, <3>1
    <3> QED
      BY <2>1, <3>1, <3>2 DEF Prefixed, Name, Said
  <2> QED
    BY <2>1, <2>2, <2>3
<1> QED
  BY <1>1, <1>2

-----------------------------------------------------------------------------
(* A target is what some name leads to.  Where the provider takes the name *)
(* without itself in front, the name had something in front of its marks.  *)
Reached(r) ==
    /\ r # Unresolved
    /\ \E n \in Name : r = Answer(n) /\ (n.path # <<>> \/ IsPassthrough(r))

(* The name that the gateway sends leads the plugin to the same provider,  *)
(* in the same mode, and where the plugin sends on what the name says, to  *)
(* the same upstream model.                                                *)
Agrees(r, s) ==
    /\ s # Unresolved /\ s.provider = r.provider /\ s.mode = r.mode
    /\ IsPassthrough(r) \/ s.upstream = r.upstream

LEMMA NoNameIsBlank == Blank(NoName)
BY DEF Blank, NoName

LEMMA CanonicalAgrees ==
    ASSUME ValidationInv, phase = "accepted", NEW r, Reached(r), Canonical(r)
    PROVE  /\ Agrees(r, Answer(SentName(r))) /\ SentName(r) # NoName
           /\ ~IsPassthrough(r) /\ HasSlash(SentName(r)) => SentName(r).path[1] \in DOMAIN providers
<1>1. PICK n \in Name : r = Answer(n) /\ (n.path # <<>> \/ IsPassthrough(r))
  BY DEF Reached
<1>2. r # Unresolved /\ r.provider \in DOMAIN providers
  BY <1>1, AnswerFacts DEF Reached
<1>3. SentName(r) = IF IsPassthrough(r) THEN r.upstream ELSE Prefixed(r.provider, r.upstream)
  BY DEF SentName, Prefixed
<1>4. CASE n \in DOMAIN index
  <2>1. PICK k \in DOMAIN models :
            /\ r.base = models[k].slug /\ r.provider = models[k].provider
            /\ r.upstream = models[k].upstream /\ r.mode = models[k].mode
            /\ r.provider \in STRING /\ r.upstream \in Name /\ ~Blank(r.upstream)
    BY <1>1, <1>4, IndexedAnswer
  <2>2. models[k].slug = Prefixed(r.provider, r.upstream)
    BY <2>1 DEF Canonical, ConfiguredTarget, Prefixed
  <2>3. /\ AfterSlash(Prefixed(r.provider, r.upstream)) = r.upstream
        /\ Prefixed(r.provider, r.upstream).path[1] = r.provider
        /\ Prefixed(r.provider, r.upstream) # NoName
    BY <2>1, PrefixedFacts
  <2>4. /\ Answer(models[k].slug) = Resolved(providers, models, <<k, 0>>)
        /\ Answer(AfterSlash(models[k].slug)) = Resolved(providers, models, <<k, 0>>)
    BY SlugAnswers
  <2>5. Answer(SentName(r)) = Resolved(providers, models, <<k, 0>>)
    BY <1>3, <2>2, <2>3, <2>4
  <2>6. Agrees(r, Answer(SentName(r)))
    <3>1. Resolved(providers, models, <<k, 0>>) # Unresolved
      BY ResolvedIsResolved
    <3>2. /\ Resolved(providers, models, <<k, 0>>).provider = r.provider
          /\ Resolved(providers, models, <<k, 0>>).mode = r.mode
          /\ Resolved(providers, models, <<k, 0>>).upstream = r.upstream
      BY <2>1 DEF Resolved
    <3> QED
      BY <2>5, <3>1, <3>2 DEF Agrees
  <2>7. r.upstream # NoName
    BY <2>1, NoNameIsBlank
  <2> QED
    BY <1>2, <1>3, <2>3, <2>6, <2>7
<1>5. CASE n \notin DOMAIN index
  <2> DEFINE up == DiscoveredUpstream(n)
             q == DiscoveryProvider(n)
  <2>1. /\ q \in STRING /\ q # "" /\ q \in DOMAIN providers /\ providers[q].discovers
        /\ up \in Name /\ ~Blank(up) /\ (n.path # <<>> => up.path # <<>>)
        /\ r.upstream = up /\ r.provider = q /\ r.mode = providers[q].mode
        /\ ~ConfiguredTarget(r)
    BY <1>1, <1>2, <1>5, DiscoveredAnswer
  <2> HIDE DEF up, q
  <2>2. /\ SentName(r) \notin DOMAIN index
        /\ ~LooksLikeUnknownVariant(index, SentName(r))
        /\ DiscoveryProvider(SentName(r)) = q
    BY <2>1 DEF Canonical
  <2>3. CASE IsPassthrough(r)
    <3>1. SentName(r) = up /\ up # NoName
      BY <1>3, <2>1, <2>3, NoNameIsBlank
    <3>2. ~Blank(DiscoveredUpstream(up))
      BY <2>1 DEF DiscoveredUpstream, NamesProvider
    <3>3. Answer(up) = Discovered(providers, up)
      BY <2>1, <2>2, <3>1, <3>2 DEF Answer, ResolveModel, Discoverable
    <3>4. Discovered(providers, up).provider = q /\ Discovered(providers, up).mode = r.mode
      BY <2>1, <2>2, <3>1 DEF Discovered
    <3> QED
      BY <2>1, <2>3, <3>1, <3>3, <3>4, DiscoveredIsResolved DEF Agrees
  <2>4. CASE ~IsPassthrough(r)
    <3> DEFINE sent == Prefixed(q, up)
    <3>1. SentName(r) = sent
      BY <1>3, <2>1, <2>4
    <3>2. up.path # <<>>
      BY <1>1, <2>1, <2>4
    <3>3. sent.path[1] = q /\ AfterSlash(sent) = up /\ HasSlash(sent) /\ sent # NoName
      BY <2>1, <3>2, PrefixedFacts
    <3> HIDE DEF sent
    <3>4. NamesProvider(sent) /\ DiscoveredUpstream(sent) = up
      BY <2>1, <3>3 DEF NamesProvider, DiscoveredUpstream
    <3>5. Answer(sent) = Discovered(providers, sent)
      BY <2>1, <2>2, <3>1, <3>4 DEF Answer, ResolveModel, Discoverable
    <3>6. /\ Discovered(providers, sent).provider = q /\ Discovered(providers, sent).mode = r.mode
          /\ Discovered(providers, sent).upstream = up
      BY <2>1, <2>2, <3>1, <3>4 DEF Discovered
    <3> QED
      BY <2>1, <3>1, <3>3, <3>5, <3>6, DiscoveredIsResolved DEF Agrees
  <2> QED
    BY <2>3, <2>4
<1> QED
  BY <1>4, <1>5

-----------------------------------------------------------------------------
(* The hosted tool fallback, applied once, leaves nothing to convert; a    *)
(* model that automatic routing selected for such tools needs none.        *)
LEMMA FallbackLeavesNative ==
    ASSUME NEW n, NEW tools, tools = "hosted", fallback # NoName, FallbackRoutes,
           Answer(AfterFallback(n, tools)) # Unresolved
    PROVE  Answer(AfterFallback(n, tools)).mode # "chat_polyfill"
<1>1. CASE AfterFallback(n, tools) = fallback
  BY <1>1 DEF FallbackRoutes, MayBeFallback
<1>2. CASE AfterFallback(n, tools) # fallback
  <2>1. AfterFallback(n, tools) = n
    BY <1>2 DEF AfterFallback
  <2> QED
    BY <1>2, <2>1 DEF AfterFallback
<1> QED
  BY <1>1, <1>2

LEMMA SelectableFacts ==
    ASSUME ValidationInv, phase = "accepted", NEW tools, NEW slug \in Selectable(tools)
    PROVE  /\ slug \in Name /\ slug.path # <<>> /\ slug # NoName
           /\ AfterFallback(slug, tools) = slug
           /\ tools = "hosted" => Answer(slug).mode = "native"
           /\ \E k \in DOMAIN models :
                 slug = models[k].slug /\ Answer(slug) = Resolved(providers, models, <<k, 0>>)
<1>1. PICK k \in DOMAIN models : slug = models[k].slug /\ (tools = "hosted" => models[k].mode = "native")
  BY DEF Selectable, Routable
<1>2. slug \in Name /\ HasSlash(slug) /\ Answer(slug) = Resolved(providers, models, <<k, 0>>)
  BY <1>1, SlugAnswers
<1>3. slug.path # <<>> /\ slug # NoName
  <2>1. slug.path \in Seq(STRING) /\ Len(slug.path) > 0
    BY <1>2 DEF Name, HasSlash
  <2>2. slug.path # <<>>
    BY <2>1, LongIsNotEmpty
  <2> QED
    BY <2>2 DEF NoName
<1>4. Answer(slug).mode = models[k].mode
  BY <1>2 DEF Resolved
<1>5. AfterFallback(slug, tools) = slug
  BY <1>1, <1>4 DEF AfterFallback
<1> QED
  BY <1>1, <1>2, <1>3, <1>4, <1>5

Sayable(n) == n \in Name /\ Said(n)

LEMMA FallbackIsReached ==
    ASSUME ValidationInv, phase = "accepted", NEW n, NEW tools, Sayable(n),
           FallbackRoutes \/ AfterFallback(n, tools) = n,
           Answer(AfterFallback(n, tools)) # Unresolved
    PROVE  Reached(Answer(AfterFallback(n, tools)))
<1>1. CASE AfterFallback(n, tools) = n
  BY <1>1 DEF Reached, Sayable, Said
<1>2. CASE AfterFallback(n, tools) # n
  <2>1. AfterFallback(n, tools) = fallback /\ fallback # NoName
    BY <1>2 DEF AfterFallback
  <2>2. fallback \in Name
    BY DEF ValidationInv, ConfigTypeOK
  <2>3. IsPassthrough(Answer(fallback))
    BY <1>2, <2>1 DEF FallbackRoutes, MayBeFallback, IsPassthrough
  <2> QED
    BY <2>1, <2>2, <2>3 DEF Reached
<1> QED
  BY <1>1, <1>2

-----------------------------------------------------------------------------
(* The loops that put a list together: what holds of the list before and   *)
(* is kept by every turn holds of it afterwards.                           *)
LEMMA AddAllNewLoop ==
    ASSUME NEW S, NEW seq \in Seq(S), NEW T, NEW list \in T,
           \A out \in T, n \in 1 .. Len(seq) : AddNew(out, seq[n]) \in T
    PROVE  AddAllNew(list, seq) \in T
<1> DEFINE N == Len(seq)
           step == [p \in (1 .. N) \X T |-> AddNew(p[2], seq[p[1]])]
           Folds(f) == f = [s \in SUBSET (1 .. N) |->
                              IF s = {} THEN list ELSE AddNew(f[s \ {Max(s)}], seq[Max(s)])]
           c == CHOOSE f : Folds(f)
<1>1. N \in Nat /\ DOMAIN seq = 1 .. N
  OBVIOUS
<1>2. step \in Turns(N, T) /\ \A n \in 1 .. N, out \in T : step[<<n, out>>] = AddNew(out, seq[n])
  BY DEF Turns
<1>3. AddAllNew(list, seq) = c[1 .. N]
  BY <1>1 DEF AddAllNew, FoldLeft, MapThenFoldSet
<1> HIDE DEF N, step
<1>4. PICK f \in [SUBSET (1 .. N) -> T] : Loops(f, N, T, list, step)
  BY <1>1, <1>2, LoopExists
<1>5. Folds(f)
  <2>1. \A s \in SUBSET (1 .. N) : s # {} => f[s] = AddNew(f[s \ {Max(s)}], seq[Max(s)])
    BY <1>1, <1>2, <1>4, LastOfSet DEF Loops
  <2> QED
    BY <1>4, <2>1 DEF Loops
<1>6. Folds(c)
  <2> HIDE DEF Folds
  <2> QED
    BY <1>5
<1> HIDE DEF c
<1>7. Loops(c, N, T, list, step)
  BY <1>1, <1>2, <1>6, LastOfSet DEF Loops
<1> QED
  BY <1>1, <1>2, <1>3, <1>7, LoopStays

LEMMA AddOfferedLoop ==
    ASSUME NEW S, NEW seq \in Seq(S), NEW T, NEW list \in T,
           \A out \in T, n \in 1 .. Len(seq) : AddOffered(out, seq[n]) \in T
    PROVE  FoldLeft(AddOffered, list, seq) \in T
<1> DEFINE N == Len(seq)
           step == [p \in (1 .. N) \X T |-> AddOffered(p[2], seq[p[1]])]
           Folds(f) == f = [s \in SUBSET (1 .. N) |->
                              IF s = {} THEN list ELSE AddOffered(f[s \ {Max(s)}], seq[Max(s)])]
           c == CHOOSE f : Folds(f)
<1>1. N \in Nat /\ DOMAIN seq = 1 .. N
  OBVIOUS
<1>2. step \in Turns(N, T) /\ \A n \in 1 .. N, out \in T : step[<<n, out>>] = AddOffered(out, seq[n])
  BY DEF Turns
<1>3. FoldLeft(AddOffered, list, seq) = c[1 .. N]
  BY <1>1 DEF FoldLeft, MapThenFoldSet
<1> HIDE DEF N, step
<1>4. PICK f \in [SUBSET (1 .. N) -> T] : Loops(f, N, T, list, step)
  BY <1>1, <1>2, LoopExists
<1>5. Folds(f)
  <2>1. \A s \in SUBSET (1 .. N) : s # {} => f[s] = AddOffered(f[s \ {Max(s)}], seq[Max(s)])
    BY <1>1, <1>2, <1>4, LastOfSet DEF Loops
  <2> QED
    BY <1>4, <2>1 DEF Loops
<1>6. Folds(c)
  <2> HIDE DEF Folds
  <2> QED
    BY <1>5
<1> HIDE DEF c
<1>7. Loops(c, N, T, list, step)
  BY <1>1, <1>2, <1>6, LastOfSet DEF Loops
<1> QED
  BY <1>1, <1>2, <1>3, <1>7, LoopStays

LEMMA AddConfiguredLoop ==
    ASSUME NEW S, NEW seq \in Seq(S), NEW T, NEW list \in T,
           \A out \in T, n \in 1 .. Len(seq) : AddConfigured(out, seq[n]) \in T
    PROVE  FoldLeft(AddConfigured, list, seq) \in T
<1> DEFINE N == Len(seq)
           step == [p \in (1 .. N) \X T |-> AddConfigured(p[2], seq[p[1]])]
           Folds(f) == f = [s \in SUBSET (1 .. N) |->
                              IF s = {} THEN list ELSE AddConfigured(f[s \ {Max(s)}], seq[Max(s)])]
           c == CHOOSE f : Folds(f)
<1>1. N \in Nat /\ DOMAIN seq = 1 .. N
  OBVIOUS
<1>2. step \in Turns(N, T) /\ \A n \in 1 .. N, out \in T : step[<<n, out>>] = AddConfigured(out, seq[n])
  BY DEF Turns
<1>3. FoldLeft(AddConfigured, list, seq) = c[1 .. N]
  BY <1>1 DEF FoldLeft, MapThenFoldSet
<1> HIDE DEF N, step
<1>4. PICK f \in [SUBSET (1 .. N) -> T] : Loops(f, N, T, list, step)
  BY <1>1, <1>2, LoopExists
<1>5. Folds(f)
  <2>1. \A s \in SUBSET (1 .. N) : s # {} => f[s] = AddConfigured(f[s \ {Max(s)}], seq[Max(s)])
    BY <1>1, <1>2, <1>4, LastOfSet DEF Loops
  <2> QED
    BY <1>4, <2>1 DEF Loops
<1>6. Folds(c)
  <2> HIDE DEF Folds
  <2> QED
    BY <1>5
<1> HIDE DEF c
<1>7. Loops(c, N, T, list, step)
  BY <1>1, <1>2, <1>6, LastOfSet DEF Loops
<1> QED
  BY <1>1, <1>2, <1>3, <1>7, LoopStays

LEMMA AddDirectLoop ==
    ASSUME NEW S, NEW seq \in Seq(S), NEW T, NEW list \in T,
           \A out \in T, n \in 1 .. Len(seq) : AddDirect(out, seq[n]) \in T
    PROVE  FoldLeft(AddDirect, list, seq) \in T
<1> DEFINE N == Len(seq)
           step == [p \in (1 .. N) \X T |-> AddDirect(p[2], seq[p[1]])]
           Folds(f) == f = [s \in SUBSET (1 .. N) |->
                              IF s = {} THEN list ELSE AddDirect(f[s \ {Max(s)}], seq[Max(s)])]
           c == CHOOSE f : Folds(f)
<1>1. N \in Nat /\ DOMAIN seq = 1 .. N
  OBVIOUS
<1>2. step \in Turns(N, T) /\ \A n \in 1 .. N, out \in T : step[<<n, out>>] = AddDirect(out, seq[n])
  BY DEF Turns
<1>3. FoldLeft(AddDirect, list, seq) = c[1 .. N]
  BY <1>1 DEF FoldLeft, MapThenFoldSet
<1> HIDE DEF N, step
<1>4. PICK f \in [SUBSET (1 .. N) -> T] : Loops(f, N, T, list, step)
  BY <1>1, <1>2, LoopExists
<1>5. Folds(f)
  <2>1. \A s \in SUBSET (1 .. N) : s # {} => f[s] = AddDirect(f[s \ {Max(s)}], seq[Max(s)])
    BY <1>1, <1>2, <1>4, LastOfSet DEF Loops
  <2> QED
    BY <1>4, <2>1 DEF Loops
<1>6. Folds(c)
  <2> HIDE DEF Folds
  <2> QED
    BY <1>5
<1> HIDE DEF c
<1>7. Loops(c, N, T, list, step)
  BY <1>1, <1>2, <1>6, LastOfSet DEF Loops
<1> QED
  BY <1>1, <1>2, <1>3, <1>7, LoopStays

LEMMA AddBifrostsLoop ==
    ASSUME NEW S, NEW seq \in Seq(S), NEW T, NEW list \in T,
           \A out \in T, n \in 1 .. Len(seq) : AddBifrosts(out, seq[n]) \in T
    PROVE  FoldLeft(AddBifrosts, list, seq) \in T
<1> DEFINE N == Len(seq)
           step == [p \in (1 .. N) \X T |-> AddBifrosts(p[2], seq[p[1]])]
           Folds(f) == f = [s \in SUBSET (1 .. N) |->
                              IF s = {} THEN list ELSE AddBifrosts(f[s \ {Max(s)}], seq[Max(s)])]
           c == CHOOSE f : Folds(f)
<1>1. N \in Nat /\ DOMAIN seq = 1 .. N
  OBVIOUS
<1>2. step \in Turns(N, T) /\ \A n \in 1 .. N, out \in T : step[<<n, out>>] = AddBifrosts(out, seq[n])
  BY DEF Turns
<1>3. FoldLeft(AddBifrosts, list, seq) = c[1 .. N]
  BY <1>1 DEF FoldLeft, MapThenFoldSet
<1> HIDE DEF N, step
<1>4. PICK f \in [SUBSET (1 .. N) -> T] : Loops(f, N, T, list, step)
  BY <1>1, <1>2, LoopExists
<1>5. Folds(f)
  <2>1. \A s \in SUBSET (1 .. N) : s # {} => f[s] = AddBifrosts(f[s \ {Max(s)}], seq[Max(s)])
    BY <1>1, <1>2, <1>4, LastOfSet DEF Loops
  <2> QED
    BY <1>4, <2>1 DEF Loops
<1>6. Folds(c)
  <2> HIDE DEF Folds
  <2> QED
    BY <1>5
<1> HIDE DEF c
<1>7. Loops(c, N, T, list, step)
  BY <1>1, <1>2, <1>6, LastOfSet DEF Loops
<1> QED
  BY <1>1, <1>2, <1>3, <1>7, LoopStays

LEMMA FunctionIsSeq ==
    ASSUME NEW n \in Nat, NEW S, NEW f \in [1 .. n -> S]
    PROVE  f \in Seq(S)
OBVIOUS

(* What a client can be shown: a listing with a name.                      *)
Shown == {l \in Listing : Said(l.name)}

LEMMA ShownFields ==
    ASSUME NEW l \in Shown
    PROVE  /\ l \in Listing /\ l.name \in Name /\ Said(l.name)
           /\ l.window \in Nat /\ l.label \in Seq(Suffix)
BY DEF Shown, Listing

LEMMA ShownIs ==
    ASSUME NEW n \in Name, Said(n), NEW w \in Nat, NEW label \in Seq(Suffix)
    PROVE  [name |-> n, window |-> w, label |-> label] \in Shown
BY DEF Shown, Listing

LEMMA RenamedType ==
    ASSUME NEW l \in Shown, NEW n \in Name, Said(n), NEW w \in Nat
    PROVE  [l EXCEPT !.name = n, !.window = w] \in Shown
BY DEF Shown, Listing

LEMMA RelabelledType ==
    ASSUME NEW l \in Shown, NEW w \in Nat, NEW label \in Seq(Suffix)
    PROVE  [l EXCEPT !.window = w, !.label = label] \in Shown
BY DEF Shown, Listing

LEMMA AcceptedModels ==
    ASSUME ValidationInv, phase = "accepted"
    PROVE  models \in Seq(ModelProfile)
<1>1. /\ given \in Configs /\ models = CompletedModels(given)
      /\ \A k \in DOMAIN models : models[k] \in ModelProfile
  BY ServingFacts DEF Serving
<1>2. given.models \in Seq(ModelProfile)
  BY <1>1, GivenFacts
<1>3. DOMAIN models = 1 .. Len(given.models) /\ models = [k \in DOMAIN models |-> models[k]]
  BY <1>1, <1>2 DEF CompletedModels
<1> QED
  BY <1>1, <1>2, <1>3

LEMMA EntryOfTarget ==
    ASSUME NEW r, ConfiguredTarget(r)
    PROVE  EntryOf(r) \in DOMAIN models /\ models[EntryOf(r)].slug = r.base
BY DEF ConfiguredTarget, EntryOf

LEMMA WindowsType ==
    ASSUME ValidationInv, phase = "accepted", NEW l \in Shown, NEW n \in Name, Answer(n) # Unresolved
    PROVE  /\ EnrichedWindow(l, Answer(n)) \in Nat
           /\ OrDefault(EnrichedWindow(l, Answer(n)), 0, ConfiguredWindow(Answer(n))) \in Nat
<1> DEFINE r == Answer(n)
<1>1. r.window \in Nat /\ l.window \in Nat
  BY AnswerType, ShownFields
<1>2. EnrichedWindow(l, r) \in Nat
  BY <1>1, CatalogConstants DEF EnrichedWindow, EditorialName
<1>3. ConfiguredWindow(r) \in Nat
  BY <1>1, EntryOfTarget, AcceptedModel DEF ConfiguredWindow
<1> HIDE DEF r
<1> QED
  BY <1>2, <1>3 DEF OrDefault, r

(* The models that are listed under the names they lead to.                *)
LEMMA HydrateModelType ==
    ASSUME ValidationInv, phase = "accepted", NEW l \in Shown, NEW n \in Name, Answer(n) # Unresolved
    PROVE  HydrateModel(l, Answer(n)) \in Shown
<1>1. Answer(n).slug \in Name /\ Said(Answer(n).slug)
  BY AnswerType
<1>2. OrDefault(EnrichedWindow(l, Answer(n)), 0, ConfiguredWindow(Answer(n))) \in Nat
  BY WindowsType
<1> DEFINE r == Answer(n)
           slug == r.slug
           w == OrDefault(EnrichedWindow(l, r), 0, ConfiguredWindow(r))
<1>3. slug \in Name /\ Said(slug) /\ w \in Nat
  BY <1>1, <1>2
<1>4. HydrateModel(l, Answer(n)) = [l EXCEPT !.name = slug, !.window = w]
  BY DEF HydrateModel
<1> HIDE DEF slug, w
<1> QED
  BY <1>3, <1>4, RenamedType

LEMMA SuffixFacts == "window" \in Suffix /\ "auto" \in Suffix /\ STRING \subseteq Suffix
BY DEF Suffix

LEMMA VariantsType ==
    ASSUME ValidationInv, phase = "accepted", NEW l \in Shown, NEW r
    PROVE  VariantsOf(l, r) \in Seq(Shown)
<1>1. CASE ~ConfiguredTarget(r)
  BY <1>1 DEF VariantsOf
<1>2. CASE ConfiguredTarget(r)
  <2> DEFINE k == EntryOf(r)
  <2>1. k \in DOMAIN models
    BY <1>2, EntryOfTarget
  <2> HIDE DEF k
  <2>2. models[k].variants \in Seq(Int)
    BY <2>1, AcceptedModel DEF ModelProfile
  <2>3. ASSUME NEW i \in DOMAIN models[k].variants
        PROVE  HydrateVariant(l, Resolved(providers, models, <<k, i>>)) \in Shown
    <3> DEFINE v == Resolved(providers, models, <<k, i>>)
    <3>1. i \in 0 .. Len(models[k].variants)
      BY <2>2
    <3>2. v.slug \in Name /\ Said(v.slug) /\ v.window \in Nat
      BY <2>1, <3>1, ResolvedType
    <3> HIDE DEF v
    <3>3. Append(l.label, "window") \in Seq(Suffix)
      BY ShownFields, SuffixFacts
    <3>4. HydrateVariant(l, v) \in Shown
      BY <3>2, <3>3, ShownIs DEF HydrateVariant
    <3> QED
      BY <3>4 DEF v
  <2>4. VariantsOf(l, r) = [i \in DOMAIN models[k].variants |->
                               HydrateVariant(l, Resolved(providers, models, <<k, i>>))]
    BY <1>2 DEF VariantsOf, k
  <2>5. DOMAIN models[k].variants = 1 .. Len(models[k].variants) /\ Len(models[k].variants) \in Nat
    BY <2>2
  <2>6. VariantsOf(l, r) \in [1 .. Len(models[k].variants) -> Shown]
    BY <2>3, <2>4, <2>5
  <2> QED
    BY <2>5, <2>6, FunctionIsSeq
<1> QED
  BY <1>1, <1>2

-----------------------------------------------------------------------------
(* What a list is put together from stays in it.  T is what is known of    *)
(* each listing.                                                           *)
LEMMA AddAllNewKeeps ==
    ASSUME NEW T, NEW list \in Seq(T), NEW more \in Seq(T)
    PROVE  AddAllNew(list, more) \in Seq(T)
<1>1. \A out \in Seq(T), n \in 1 .. Len(more) : AddNew(out, more[n]) \in Seq(T)
  BY DEF AddNew
<1> DEFINE lists == Seq(T)
<1>2. list \in lists /\ \A out \in lists, n \in 1 .. Len(more) : AddNew(out, more[n]) \in lists
  BY <1>1
<1> HIDE DEF lists
<1>3. AddAllNew(list, more) \in lists
  BY <1>2, AddAllNewLoop
<1> QED
  BY <1>3 DEF lists

LEMMA WithVariantsKeeps ==
    ASSUME NEW T, NEW list \in Seq(T), NEW base \in T, NEW r, VariantsOf(base, r) \in Seq(T)
    PROVE  WithVariants(list, base, r) \in Seq(T)
<1>1. Append(list, base) \in Seq(T)
  OBVIOUS
<1>2. AddAllNew(Append(list, base), VariantsOf(base, r)) \in Seq(T)
  BY <1>1, AddAllNewKeeps
<1> QED
  BY <1>2 DEF WithVariants

(* A model as it is hydrated, and its variants.                            *)
HydratedIn(l, T) ==
    LET base == HydrateModel(l, Answer(l.name))
    IN  Answer(l.name) # Unresolved => base \in T /\ VariantsOf(base, Answer(l.name)) \in Seq(T)

BareListing(m) == [name |-> m.slug, window |-> 0, label |-> <<>>]

LEMMA AddOfferedKeeps ==
    ASSUME NEW T, NEW list \in Seq(T), NEW l, HydratedIn(l, T)
    PROVE  AddOffered(list, l) \in Seq(T)
<1> DEFINE r == Answer(l.name)
           base == HydrateModel(l, r)
<1>1. AddOffered(list, l) =
         IF r = Unresolved \/ ListedIn(list, r.slug) THEN list
         ELSE IF r.window # 0 THEN Append(list, base)
         ELSE WithVariants(list, base, r)
  BY DEF AddOffered
<1>2. r # Unresolved => base \in T /\ VariantsOf(base, r) \in Seq(T)
  BY DEF HydratedIn
<1> HIDE DEF r, base
<1> QED
  BY <1>1, <1>2, WithVariantsKeeps

LEMMA AddConfiguredKeeps ==
    ASSUME NEW T, NEW list \in Seq(T), NEW m,
           Answer(m.slug) # Unresolved, HydratedIn(BareListing(m), T)
    PROVE  AddConfigured(list, m) \in Seq(T)
<1> DEFINE r == Answer(m.slug)
           base == HydrateModel(BareListing(m), r)
<1>1. AddConfigured(list, m) =
         IF ListedIn(list, m.slug) \/ providers[r.provider].discovers THEN list
         ELSE WithVariants(list, base, r)
  BY DEF AddConfigured, BareListing
<1>2. base \in T /\ VariantsOf(base, r) \in Seq(T)
  BY DEF HydratedIn, BareListing
<1> HIDE DEF r, base
<1> QED
  BY <1>1, <1>2, WithVariantsKeeps

LEMMA GatheredKeeps ==
    ASSUME ValidationInv, phase = "accepted", NEW T, NEW offered \in Seq(Listing),
           \A i \in DOMAIN offered : HydratedIn(offered[i], T),
           \A k \in DOMAIN models : HydratedIn(BareListing(models[k]), T)
    PROVE  FoldLeft(AddConfigured, FoldLeft(AddOffered, <<>>, offered), models) \in Seq(T)
<1> DEFINE lists == Seq(T)
           found == FoldLeft(AddOffered, <<>>, offered)
<1>1. <<>> \in lists
  OBVIOUS
<1>2. \A out \in lists, n \in 1 .. Len(offered) : AddOffered(out, offered[n]) \in lists
  BY AddOfferedKeeps
<1>3. models \in Seq(ModelProfile) /\ DOMAIN models = 1 .. Len(models)
  BY AcceptedModels
<1>4. \A k \in DOMAIN models : Answer(models[k].slug) # Unresolved
  BY SlugAnswers, ResolvedIsResolved
<1>5. \A out \in lists, n \in 1 .. Len(models) : AddConfigured(out, models[n]) \in lists
  BY <1>3, <1>4, AddConfiguredKeeps
<1> HIDE DEF lists
<1>6. found \in lists
  BY <1>1, <1>2, AddOfferedLoop
<1> HIDE DEF found
<1>7. FoldLeft(AddConfigured, found, models) \in lists
  BY <1>3, <1>5, <1>6, AddConfiguredLoop
<1> QED
  BY <1>7 DEF lists, found

LEMMA DecoratedKeeps ==
    ASSUME NEW S, NEW T, NEW list \in Seq(S), \A l \in S : DecorateModel(l) \in T
    PROVE  Decorated(list) \in Seq(T)
<1>1. Len(list) \in Nat /\ DOMAIN list = 1 .. Len(list) /\ \A i \in DOMAIN list : list[i] \in S
  OBVIOUS
<1>2. Decorated(list) \in [1 .. Len(list) -> T]
  BY <1>1 DEF Decorated
<1> QED
  BY <1>1, <1>2, FunctionIsSeq

(* The direct list before it is decorated, Bifrost's added.                *)
DirectIn(l, T) ==
    /\ l \in T
    /\ Answer(l.name) # Unresolved /\ Answer(l.name).window = 0
          => VariantsOf(l, Answer(l.name)) \in Seq(T)

LEMMA JoinedKeeps ==
    ASSUME NEW T, NEW direct \in Seq(Listing), NEW bifrost \in Seq(T),
           \A i \in DOMAIN direct : DirectIn(direct[i], T)
    PROVE  FoldLeft(AddBifrosts, FoldLeft(AddDirect, <<>>, direct), bifrost) \in Seq(T)
<1> DEFINE lists == Seq(T)
           start == FoldLeft(AddDirect, <<>>, direct)
<1>1. <<>> \in lists
  OBVIOUS
<1>2. \A out \in lists, n \in 1 .. Len(direct) : AddDirect(out, direct[n]) \in lists
  <2> TAKE out \in lists, n \in 1 .. Len(direct)
  <2> DEFINE l == direct[n]
             r == Answer(l.name)
  <2>1. l \in T /\ (r # Unresolved /\ r.window = 0 => VariantsOf(l, r) \in Seq(T))
    BY DEF DirectIn
  <2>2. AddDirect(out, l) = IF r = Unresolved \/ r.window # 0 THEN Append(out, l)
                            ELSE Append(out, l) \o VariantsOf(l, r)
    BY DEF AddDirect
  <2> HIDE DEF l, r
  <2>3. AddDirect(out, l) \in Seq(T)
    BY <2>1, <2>2
  <2> QED
    BY <2>3 DEF l
<1>3. \A out \in lists, n \in 1 .. Len(bifrost) : AddBifrosts(out, bifrost[n]) \in lists
  BY DEF AddBifrosts
<1> HIDE DEF lists
<1>4. start \in lists
  BY <1>1, <1>2, AddDirectLoop
<1> HIDE DEF start
<1>5. FoldLeft(AddBifrosts, start, bifrost) \in lists
  BY <1>3, <1>4, AddBifrostsLoop
<1> QED
  BY <1>5 DEF lists, start

-----------------------------------------------------------------------------
(* What is shown has a name, a window and a label.                         *)
LEMMA WithoutHostType ==
    ASSUME NEW label \in Seq(Suffix), NEW host
    PROVE  WithoutHost(label, host) \in Seq(Suffix)
BY DEF WithoutHost, EndsIn

LEMMA LabelType ==
    ASSUME NEW label \in Seq(Suffix), NEW r, r.provider \in STRING
    PROVE  Relabelled(label, r) \in Seq(Suffix)
<1> DEFINE kept == IF EditorialName(r) THEN <<>> ELSE WithoutHost(label, r.provider)
           sized == IF r.window # 0 /\ ~EndsIn(kept, "window") THEN Append(kept, "window") ELSE kept
<1>1. kept \in Seq(Suffix)
  BY WithoutHostType
<1> HIDE DEF kept
<1>2. sized \in Seq(Suffix)
  BY <1>1, SuffixFacts
<1>3. Relabelled(label, r) = IF r.provider = "openai" THEN sized ELSE Append(sized, r.provider)
  BY DEF Relabelled, kept
<1>4. r.provider \in Suffix
  BY SuffixFacts
<1> HIDE DEF sized
<1>5. Append(sized, r.provider) \in Seq(Suffix)
  BY <1>2, <1>4
<1> QED
  BY <1>2, <1>3, <1>5

LEMMA DecorateModelType ==
    ASSUME ValidationInv, phase = "accepted", NEW l \in Shown
    PROVE  DecorateModel(l) \in Shown
<1> DEFINE r == Answer(l.name)
           w == EnrichedWindow(l, r)
           label == Relabelled(l.label, r)
<1>1. CASE r = Unresolved
  BY <1>1 DEF DecorateModel
<1>2. CASE r # Unresolved
  <2>1. l.name \in Name /\ l.label \in Seq(Suffix)
    BY ShownFields
  <2>2. w \in Nat
    BY <1>2, <2>1, WindowsType
  <2>3. r.provider \in STRING
    BY <1>2, <2>1, AnswerType, ServingFacts DEF Serving
  <2>4. label \in Seq(Suffix)
    BY <2>1, <2>3, LabelType
  <2>5. DecorateModel(l) = [l EXCEPT !.window = w, !.label = label]
    BY <1>2 DEF DecorateModel
  <2> HIDE DEF w, label
  <2> QED
    BY <2>2, <2>4, <2>5, RelabelledType
<1> QED
  BY <1>1, <1>2

LEMMA HydratedType ==
    ASSUME ValidationInv, phase = "accepted", NEW l \in Shown
    PROVE  HydratedIn(l, Shown) /\ DirectIn(l, Shown)
BY ShownFields, HydrateModelType, VariantsType DEF HydratedIn, DirectIn

LEMMA BareType ==
    ASSUME ValidationInv, phase = "accepted", NEW k \in DOMAIN models
    PROVE  BareListing(models[k]) \in Shown
<1>1. models[k].slug \in Name /\ Said(models[k].slug)
  BY AcceptedModel DEF ModelProfile
<1>2. <<>> \in Seq(Suffix)
  OBVIOUS
<1> QED
  BY <1>1, <1>2, ShownIs DEF BareListing

(* The largest of finitely many windows is one.                            *)
LEMMA WindowsBounded ==
    ASSUME NEW n \in Nat, NEW f, \A k \in 1 .. n : f[k] \in Nat
    PROVE  \E top \in Nat : \A k \in 1 .. n : f[k] <= top
<1> DEFINE bounded == {i \in 0 .. n : \E top \in Nat : \A k \in 1 .. i : f[k] <= top}
<1>1. 0 \in bounded
  OBVIOUS
<1>2. ASSUME NEW i \in 0 .. n - 1, i \in bounded PROVE i + 1 \in bounded
  <2>1. PICK top \in Nat : \A k \in 1 .. i : f[k] <= top
    BY <1>2
  <2>2. i + 1 \in 0 .. n /\ i + 1 \in 1 .. n /\ f[i + 1] \in Nat
    OBVIOUS
  <2>3. CASE f[i + 1] <= top
    <3>1. \A k \in 1 .. i + 1 : f[k] <= top
      BY <2>1, <2>3
    <3> QED
      BY <2>2, <3>1
  <2>4. CASE f[i + 1] > top
    <3>1. \A k \in 1 .. i + 1 : f[k] <= f[i + 1]
      BY <2>1, <2>2, <2>4
    <3> QED
      BY <2>2, <3>1
  <2> QED
    BY <2>2, <2>3, <2>4
<1>3. 0 .. n \subseteq bounded
  <2> HIDE DEF bounded
  <2> QED
    BY <1>1, <1>2, Induction
<1>4. n \in 0 .. n
  OBVIOUS
<1>5. n \in bounded
  BY <1>3, <1>4
<1> QED
  BY <1>5

LEMMA LargestWindowType ==
    ASSUME ValidationInv, phase = "accepted"
    PROVE  LargestWindow \in Nat
<1> DEFINE windows == {131072} \cup {models[k].maxWindow : k \in Routable}
           f == [k \in DOMAIN models |-> models[k].maxWindow]
<1>1. DOMAIN models = 1 .. Len(models) /\ Len(models) \in Nat
  BY AcceptedModels
<1>2. \A k \in DOMAIN models : models[k].maxWindow \in Nat
  BY AcceptedModel
<1>3. \A k \in 1 .. Len(models) : f[k] \in Nat
  BY <1>1, <1>2
<1> HIDE DEF f
<1>4. PICK top \in Nat : \A k \in 1 .. Len(models) : f[k] <= top
  BY <1>1, <1>3, WindowsBounded
<1>5. \A k \in Routable : models[k].maxWindow \in Nat /\ models[k].maxWindow <= top
  BY <1>1, <1>2, <1>4 DEF Routable, f
<1>6. windows # {} /\ \E bound \in Nat : windows \in SUBSET (0 .. bound)
  <2>1. top + 131072 \in Nat /\ windows \in SUBSET (0 .. (top + 131072))
    BY <1>5
  <2> QED
    BY <2>1
<1> HIDE DEF windows
<1>7. Max(windows) \in windows
  <2>1. PICK bound \in Nat : windows \in SUBSET (0 .. bound)
    BY <1>6
  <2> QED
    BY <1>6, <2>1, MaxIsGreatest
<1> QED
  BY <1>6, <1>7 DEF LargestWindow, windows

LEMMA VirtualModelsKeep ==
    ASSUME ValidationInv, phase = "accepted", NEW T, NEW list \in Seq(T),
           \A alias \in AutoNames : [name |-> alias, window |-> LargestWindow, label |-> <<"auto">>] \in T
    PROVE  InjectVirtualModels(list) \in Seq(T)
<1> DEFINE virtual == [i \in DOMAIN Aliases |->
                          [name |-> Aliases[i], window |-> LargestWindow, label |-> <<"auto">>]]
<1>1. Aliases \in Seq(AutoNames)
  BY CatalogConstants
<1>2. DOMAIN Aliases = 1 .. Len(Aliases) /\ Len(Aliases) \in Nat /\ \A i \in DOMAIN Aliases : Aliases[i] \in AutoNames
  BY <1>1
<1>3. virtual \in [1 .. Len(Aliases) -> T]
  BY <1>2
<1> HIDE DEF virtual
<1>4. virtual \in Seq(T)
  BY <1>2, <1>3, FunctionIsSeq
<1>5. AddAllNew(list, virtual) \in Seq(T)
  BY <1>4, AddAllNewKeeps
<1> QED
  BY <1>5 DEF InjectVirtualModels, virtual

LEMMA VirtualModelType ==
    ASSUME ValidationInv, phase = "accepted", NEW alias \in AutoNames
    PROVE  [name |-> alias, window |-> LargestWindow, label |-> <<"auto">>] \in Shown
<1>1. alias \in Name /\ Said(alias)
  BY CatalogConstants
<1>2. <<"auto">> \in Seq(Suffix)
  BY SuffixFacts
<1> QED
  BY <1>1, <1>2, LargestWindowType, ShownIs

LEMMA BifrostListType ==
    ASSUME ValidationInv, phase = "accepted", NEW offered \in Seq(Shown)
    PROVE  BifrostList(offered) \in Seq(Shown)
<1> DEFINE found == FoldLeft(AddConfigured, FoldLeft(AddOffered, <<>>, offered), models)
<1>1. offered \in Seq(Listing)
  BY DEF Shown
<1>2. found \in Seq(Shown)
  BY <1>1, HydratedType, BareType, GatheredKeeps
<1>3. Hydrated(offered) = Decorated(found)
  BY DEF Hydrated
<1> HIDE DEF found
<1>4. Hydrated(offered) \in Seq(Shown)
  BY <1>2, <1>3, DecorateModelType, DecoratedKeeps
<1> QED
  BY <1>4, VirtualModelType, VirtualModelsKeep DEF BifrostList

LEMMA ServedType ==
    ASSUME ValidationInv, phase = "accepted",
           NEW direct \in Seq(Shown), NEW offered \in Seq(Shown)
    PROVE  /\ ServedWithoutDirect(offered) \in Seq(Shown)
           /\ ServedUnversioned(offered) \in Seq(Shown)
           /\ ServedWithDirect(direct, offered) \in Seq(Shown)
<1> DEFINE bifrost == BifrostList(offered)
           joined == FoldLeft(AddBifrosts, FoldLeft(AddDirect, <<>>, direct), bifrost)
<1>1. bifrost \in Seq(Shown)
  BY BifrostListType
<1>2. direct \in Seq(Listing)
  BY DEF Shown
<1>3. joined \in Seq(Shown)
  <2> HIDE DEF bifrost
  <2> QED
    BY <1>1, <1>2, HydratedType, JoinedKeeps
<1>4. Merged(direct, bifrost) = Decorated(joined)
  BY DEF Merged
<1> HIDE DEF joined
<1>5. /\ Decorated(bifrost) \in Seq(Shown) /\ Decorated(offered) \in Seq(Shown)
      /\ Merged(direct, bifrost) \in Seq(Shown)
  BY <1>1, <1>3, <1>4, DecorateModelType, DecoratedKeeps
<1>6. \A list \in Seq(Shown) : InjectVirtualModels(list) \in Seq(Shown)
  BY VirtualModelType, VirtualModelsKeep
<1> QED
  BY <1>5, <1>6 DEF ServedWithoutDirect, ServedUnversioned, ServedWithDirect, bifrost

-----------------------------------------------------------------------------
(* Labels.  What a provider offers is labelled with nothing, or with the   *)
(* provider itself, and neither the name it is offered under nor the slug  *)
(* it is listed under is that of a context variant, which no provider      *)
(* knows of.                                                               *)
PlainListing(l) ==
    LET r == Answer(l.name)
        s == Answer(r.slug)
    IN  r # Unresolved =>
            /\ r.window = 0 /\ (s # Unresolved => s.window = 0)
            /\ l.label = <<>> \/ (l.label = <<r.provider>> /\ r.provider # "openai")

PlainOffers ==
    \A list \in DirectLists \cup Offers : \A i \in DOMAIN list : PlainListing(list[i])

(* What a label may be before it is decorated, and after.                  *)
LabelsBefore(r) ==
    IF r.window = 0
    THEN {<<>>} \cup (IF r.provider = "openai" THEN {} ELSE {<<r.provider>>})
    ELSE {<<"window">>} \cup
         (IF r.provider = "openai" THEN {}
          ELSE {<<r.provider, "window">>, <<"window", r.provider>>, <<r.provider, "window", r.provider>>})

LabelsAfter(r) ==
    IF r.window = 0
    THEN {IF r.provider = "openai" THEN <<>> ELSE <<r.provider>>}
    ELSE IF r.provider = "openai" THEN {<<"window">>}
    ELSE {<<"window", r.provider>>, <<r.provider, "window", r.provider>>}

Presentable(l) ==
    LET r == Answer(l.name)
    IN  r # Unresolved /\ l.name \notin AutoNames =>
            l.label \in LabelsBefore(r) /\ (r.window # 0 => l.window = r.window)

Presented(l) ==
    LET r == Answer(l.name)
    IN  r # Unresolved /\ l.name \notin AutoNames =>
            l.label \in LabelsAfter(r) /\ (r.window # 0 => l.window = r.window)

LEMMA PairIs ==
    ASSUME NEW a, NEW b
    PROVE  <<a, b>> = Append(<<a>>, b)
<1> DEFINE S == {a, b}
           s == <<a, b>>
           t == Append(<<a>>, b)
<1>1. s \in Seq(S) /\ Len(s) = 2 /\ s[1] = a /\ s[2] = b
  OBVIOUS
<1>2. <<a>> \in Seq(S) /\ Len(<<a>>) = 1 /\ <<a>>[1] = a
  OBVIOUS
<1>3. t \in Seq(S) /\ Len(t) = 2 /\ t[1] = a /\ t[2] = b
  BY <1>2, AppendProperties
<1> HIDE DEF s, t, S
<1> QED
  <2>1. \A i \in 1 .. Len(s) : s[i] = t[i]
    BY <1>1, <1>3
  <2>2. s = t
    BY <1>1, <1>3, <2>1, SeqEqual
  <2> QED
    BY <2>2 DEF s, t

LEMMA TripleIs ==
    ASSUME NEW a, NEW b, NEW c
    PROVE  <<a, b, c>> = Append(<<a, b>>, c)
<1> DEFINE S == {a, b, c}
           s == <<a, b, c>>
           t == Append(<<a, b>>, c)
<1>1. s \in Seq(S) /\ Len(s) = 3 /\ s[1] = a /\ s[2] = b /\ s[3] = c
  OBVIOUS
<1>2. <<a, b>> \in Seq(S) /\ Len(<<a, b>>) = 2 /\ <<a, b>>[1] = a /\ <<a, b>>[2] = b
  OBVIOUS
<1>3. t \in Seq(S) /\ Len(t) = 3 /\ t[1] = a /\ t[2] = b /\ t[3] = c
  BY <1>2, AppendProperties
<1> HIDE DEF s, t, S
<1> QED
  <2>1. \A i \in 1 .. Len(s) : s[i] = t[i]
    BY <1>1, <1>3
  <2>2. s = t
    BY <1>1, <1>3, <2>1, SeqEqual
  <2> QED
    BY <2>2 DEF s, t

LEMMA LastOfAppended ==
    ASSUME NEW S, NEW s \in Seq(S), NEW a \in S, NEW suffix
    PROVE  /\ EndsIn(Append(s, a), suffix) <=> a = suffix
           /\ SubSeq(Append(s, a), 1, Len(Append(s, a)) - 1) = s
<1> DEFINE t == Append(s, a)
           u == SubSeq(t, 1, Len(t) - 1)
<1>1. /\ t \in Seq(S) /\ t # <<>> /\ Len(t) = Len(s) + 1 /\ Len(s) \in Nat
      /\ t[Len(t)] = a /\ \A i \in 1 .. Len(s) : t[i] = s[i]
  BY AppendProperties
<1> HIDE DEF t
<1>2. \A i \in 1 .. Len(t) - 1 : t[i] \in S
  BY <1>1
<1>3. u \in Seq(S) /\ Len(u) = Len(s) /\ \A i \in 1 .. Len(s) : u[i] = t[i]
  <2>1. /\ SubSeq(t, 1, Len(s)) \in Seq(S)
        /\ Len(SubSeq(t, 1, Len(s))) = IF 1 <= Len(s) THEN Len(s) - 1 + 1 ELSE 0
        /\ \A i \in 1 .. Len(s) - 1 + 1 : SubSeq(t, 1, Len(s))[i] = t[1 + i - 1]
    BY <1>1, <1>2, SubSeqProperties
  <2> QED
    BY <1>1, <2>1
<1> HIDE DEF u
<1>4. u = s
  BY <1>1, <1>3, SeqEqual
<1> QED
  BY <1>1, <1>4 DEF EndsIn, t, u

LEMMA LastOfOne ==
    ASSUME NEW a, NEW s
    PROVE  /\ EndsIn(<<a>>, s) <=> a = s
           /\ SubSeq(<<a>>, 1, Len(<<a>>) - 1) = <<>>
BY DEF EndsIn

LEMMA LastOfTwo ==
    ASSUME NEW a, NEW b, NEW s
    PROVE  /\ EndsIn(<<a, b>>, s) <=> b = s
           /\ SubSeq(<<a, b>>, 1, Len(<<a, b>>) - 1) = <<a>>
<1> DEFINE S == {a, b}
           front == <<a>>
<1>1. front \in Seq(S) /\ b \in S
  OBVIOUS
<1>2. <<a, b>> = Append(front, b)
  BY PairIs
<1> HIDE DEF S, front
<1>3. /\ EndsIn(Append(front, b), s) <=> b = s
      /\ SubSeq(Append(front, b), 1, Len(Append(front, b)) - 1) = front
  BY <1>1, LastOfAppended
<1> QED
  BY <1>2, <1>3 DEF front

LEMMA LastOfThree ==
    ASSUME NEW a, NEW b, NEW c, NEW s
    PROVE  /\ EndsIn(<<a, b, c>>, s) <=> c = s
           /\ SubSeq(<<a, b, c>>, 1, Len(<<a, b, c>>) - 1) = <<a, b>>
<1> DEFINE S == {a, b, c}
           front == <<a, b>>
<1>1. front \in Seq(S) /\ c \in S
  OBVIOUS
<1>2. <<a, b, c>> = Append(front, c)
  BY TripleIs
<1> HIDE DEF S, front
<1>3. /\ EndsIn(Append(front, c), s) <=> c = s
      /\ SubSeq(Append(front, c), 1, Len(Append(front, c)) - 1) = front
  BY <1>1, LastOfAppended
<1> QED
  BY <1>2, <1>3 DEF front

LEMMA NoLast ==
    ASSUME NEW s
    PROVE  ~EndsIn(<<>>, s)
BY DEF EndsIn

LEMMA RelabelledAs ==
    ASSUME NEW r, NEW label \in LabelsBefore(r)
    PROVE  Relabelled(label, r) \in LabelsAfter(r)
<1> DEFINE host == r.provider
           kept == IF EditorialName(r) THEN <<>> ELSE WithoutHost(label, host)
           sized == IF r.window # 0 /\ ~EndsIn(kept, "window") THEN Append(kept, "window") ELSE kept
<1>1. Relabelled(label, r) = IF host = "openai" THEN sized ELSE Append(sized, host)
  BY DEF Relabelled
<1>2. WithoutHost(label, host) = IF EndsIn(label, host) THEN SubSeq(label, 1, Len(label) - 1) ELSE label
  BY DEF WithoutHost
<1>3. CASE r.window = 0
  <2>1. label = <<>> \/ (label = <<host>> /\ host # "openai")
    BY <1>3 DEF LabelsBefore
  <2>2. kept = <<>>
    <3>1. WithoutHost(label, host) = <<>>
      <4> HIDE DEF host
      <4> QED
        BY <1>2, <2>1, NoLast, LastOfOne
    <3> QED
      BY <3>1
  <2>3. sized = <<>>
    BY <1>3, <2>2
  <2> HIDE DEF sized, host
  <2>4. Append(<<>>, host) = <<host>>
    OBVIOUS
  <2> QED
    BY <1>1, <1>3, <2>3, <2>4 DEF LabelsAfter, host
<1>4. CASE r.window # 0
  <2>1. \/ label = <<"window">>
        \/ host # "openai" /\ label \in {<<host, "window">>, <<"window", host>>, <<host, "window", host>>}
    BY <1>4 DEF LabelsBefore
  <2>2. \/ kept = <<>> \/ kept = <<"window">>
        \/ host # "openai" /\ kept = <<host, "window">>
    <3>1. CASE EditorialName(r)
      BY <3>1
    <3>2. CASE ~EditorialName(r)
      <4>1. kept = WithoutHost(label, host)
        BY <3>2
      <4> HIDE DEF kept, host
      <4>2. CASE label = <<"window">>
        BY <1>2, <4>1, <4>2, LastOfOne
      <4>3. CASE host # "openai" /\ label = <<host, "window">>
        BY <1>2, <4>1, <4>3, LastOfTwo
      <4>4. CASE label = <<"window", host>>
        BY <1>2, <4>1, <4>4, LastOfTwo
      <4>5. CASE host # "openai" /\ label = <<host, "window", host>>
        BY <1>2, <4>1, <4>5, LastOfThree
      <4> QED
        BY <2>1, <4>2, <4>3, <4>4, <4>5
    <3> QED
      BY <3>1, <3>2
  <2>3. sized = IF EndsIn(kept, "window") THEN kept ELSE Append(kept, "window")
    BY <1>4
  <2> HIDE DEF sized, kept, host
  <2>4. sized = <<"window">> \/ (host # "openai" /\ sized = <<host, "window">>)
    <3>1. CASE kept = <<>>
      <4>1. Append(<<>>, "window") = <<"window">>
        OBVIOUS
      <4> QED
        BY <2>3, <3>1, <4>1, NoLast
    <3>2. CASE kept = <<"window">>
      BY <2>3, <3>2, LastOfOne
    <3>3. CASE host # "openai" /\ kept = <<host, "window">>
      BY <2>3, <3>3, LastOfTwo
    <3> QED
      BY <2>2, <3>1, <3>2, <3>3
  <2>5. Append(<<"window">>, host) = <<"window", host>> /\ Append(<<host, "window">>, host) = <<host, "window", host>>
    <3>1. Append(<<"window">>, host) = <<"window", host>>
      BY PairIs
    <3>2. Append(<<host, "window">>, host) = <<host, "window", host>>
      BY TripleIs
    <3> QED
      BY <3>1, <3>2
  <2>6. LabelsAfter(r) = IF host = "openai" THEN {<<"window">>}
                         ELSE {<<"window", host>>, <<host, "window", host>>}
    BY <1>4 DEF LabelsAfter, host
  <2>7. CASE host = "openai"
    BY <1>1, <2>4, <2>6, <2>7
  <2>8. CASE host # "openai"
    BY <1>1, <2>4, <2>5, <2>6, <2>8
  <2> QED
    BY <2>7, <2>8
<1> QED
  BY <1>3, <1>4

(* Before the decoration that ends every list, and after it.               *)
Raw == {l \in Shown : Presentable(l)}

Ready == {l \in Shown : Presented(l)}

LEMMA ReadyIsRaw == Ready \subseteq Raw
<1>1. \A r : LabelsAfter(r) \subseteq LabelsBefore(r)
  BY DEF LabelsAfter, LabelsBefore
<1> QED
  BY <1>1 DEF Ready, Raw, Presented, Presentable

LEMMA DecorateModelReady ==
    ASSUME ValidationInv, phase = "accepted", NEW l \in Raw
    PROVE  DecorateModel(l) \in Ready
<1> DEFINE r == Answer(l.name)
           w == EnrichedWindow(l, r)
           label == Relabelled(l.label, r)
<1>1. l \in Shown /\ Presentable(l) /\ DecorateModel(l) \in Shown
  BY DecorateModelType DEF Raw
<1>2. CASE r = Unresolved
  BY <1>1, <1>2 DEF DecorateModel, Ready, Presented
<1>3. CASE r # Unresolved
  <2>1. DecorateModel(l) = [l EXCEPT !.window = w, !.label = label]
    BY <1>3 DEF DecorateModel
  <2>2. l.name \notin AutoNames => label \in LabelsAfter(r) /\ (r.window # 0 => w = r.window)
    BY <1>1, <1>3, RelabelledAs DEF Presentable, EnrichedWindow
  <2> HIDE DEF w, label
  <2>3. DecorateModel(l).name = l.name /\ DecorateModel(l).window = w /\ DecorateModel(l).label = label
    BY <1>1, <2>1 DEF Shown, Listing
  <2> QED
    BY <1>1, <2>2, <2>3 DEF Ready, Presented
<1> QED
  BY <1>2, <1>3

(* The variants of a model are listed under their own names, with their    *)
(* own windows.                                                            *)
LEMMA VariantsPresentable ==
    ASSUME ValidationInv, phase = "accepted", PublishedEntriesRoute,
           NEW l \in Shown, NEW n \in Name, Answer(n) # Unresolved,
           \/ l.label = <<>>
           \/ l.label = <<Answer(n).provider>> /\ Answer(n).provider # "openai"
    PROVE  VariantsOf(l, Answer(n)) \in Seq(Raw)
<1> DEFINE r == Answer(n)
<1>1. CASE ~ConfiguredTarget(r)
  BY <1>1 DEF VariantsOf
<1>2. CASE ConfiguredTarget(r)
  <2> DEFINE k == EntryOf(r)
  <2>1. k \in DOMAIN models /\ models[k].slug = r.base
    BY <1>2, EntryOfTarget
  <2>2. VariantsOf(l, r) = [i \in DOMAIN models[k].variants |->
                               HydrateVariant(l, Resolved(providers, models, <<k, i>>))]
    BY <1>2 DEF VariantsOf
  <2>3. VariantsOf(l, r) \in Seq(Shown)
    BY VariantsType
  <2> HIDE DEF k
  <2>4. models[k].provider = r.provider
    <3>1. n \in DOMAIN index
      BY <1>2, DiscoveredAnswer
    <3>2. PICK j \in DOMAIN models : r.base = models[j].slug /\ r.provider = models[j].provider
      BY <3>1, IndexedAnswer
    <3>3. Resolved(providers, models, <<k, 0>>) = Resolved(providers, models, <<j, 0>>)
      BY <2>1, <3>2, SlugAnswers
    <3> QED
      BY <3>2, <3>3 DEF Resolved
  <2>5. ASSUME NEW i \in DOMAIN models[k].variants
        PROVE  HydrateVariant(l, Resolved(providers, models, <<k, i>>)) \in Raw
    <3> DEFINE e == <<k, i>>
               v == Resolved(providers, models, e)
               listed == HydrateVariant(l, v)
    <3>1. models[k].variants \in Seq(Int)
      BY <2>1, AcceptedModel DEF ModelProfile
    <3>2. i \in 0 .. Len(models[k].variants) /\ i # 0
      BY <3>1
    <3>3. v.window # 0 /\ v.provider = r.provider /\ e \in Entries(models)
      <4>1. v.window # 0
        BY <2>1, <3>2, ResolvedType
      <4>2. v.provider = r.provider
        BY <2>4 DEF Resolved
      <4>3. e \in Entries(models)
        BY <2>1, <3>2, EntryParts
      <4> QED
        BY <4>1, <4>2, <4>3
    <3>4. v.slug = PublishedSlug(providers, models, e)
      BY DEF Resolved
    <3> HIDE DEF e, v
    <3>5. Answer(v.slug) = v
      BY <3>3, <3>4 DEF PublishedEntriesRoute, v
    <3>6. listed.name = v.slug /\ listed.window = v.window /\ listed.label = Append(l.label, "window")
      BY DEF HydrateVariant
    <3>7. listed.label = <<"window">> \/ (r.provider # "openai" /\ listed.label = <<r.provider, "window">>)
      <4>1. Append(<<>>, "window") = <<"window">>
        OBVIOUS
      <4>2. Append(<<r.provider>>, "window") = <<r.provider, "window">>
        BY PairIs
      <4> HIDE DEF r
      <4>3. l.label = <<>> \/ (l.label = <<r.provider>> /\ r.provider # "openai")
        BY DEF r
      <4> QED
        BY <3>6, <4>1, <4>2, <4>3
    <3>8. listed.label \in LabelsBefore(v)
      <4> HIDE DEF r, listed
      <4>1. LabelsBefore(v) =
              {<<"window">>} \cup
              (IF r.provider = "openai" THEN {}
               ELSE {<<r.provider, "window">>, <<"window", r.provider>>, <<r.provider, "window", r.provider>>})
        BY <3>3 DEF LabelsBefore
      <4> QED
        BY <3>7, <4>1
    <3>9. listed \in Shown
      <4>1. VariantsOf(l, r)[i] = listed /\ i \in DOMAIN VariantsOf(l, r)
        BY <2>2 DEF v, e
      <4> QED
        BY <2>3, <4>1
    <3>10. Presentable(listed)
      <4> HIDE DEF listed
      <4> QED
        BY <3>5, <3>6, <3>8 DEF Presentable
    <3> QED
      BY <3>9, <3>10 DEF Raw, v, e
  <2>6. models[k].variants \in Seq(Int)
    BY <2>1, AcceptedModel DEF ModelProfile
  <2>7. DOMAIN models[k].variants = 1 .. Len(models[k].variants) /\ Len(models[k].variants) \in Nat
    BY <2>6
  <2>8. VariantsOf(l, r) \in [1 .. Len(models[k].variants) -> Raw]
    BY <2>2, <2>5, <2>7
  <2> QED
    BY <2>7, <2>8, FunctionIsSeq
<1> QED
  BY <1>1, <1>2

(* The slug of a base model leads back to it, unless it is discovered and  *)
(* OpenAI's: openai/model may be another model's alias.                    *)
LEMMA BaseSlugAnswers ==
    ASSUME ValidationInv, phase = "accepted", NEW n \in Name, Answer(n) # Unresolved,
           Answer(n).window = 0, Answer(n).provider # "openai"
    PROVE  Answer(Answer(n).slug) = Answer(n)
<1> DEFINE r == Answer(n)
<1>1. CASE n \in DOMAIN index
  <2>1. index = BuildIndex(providers, models) /\ NamesDisjoint(models)
    BY ServingFacts DEF Serving
  <2>2. PICK e \in Entries(models) : index[n] = Resolved(providers, models, e)
    BY <1>1, <2>1, IndexHoldsEntries
  <2>3. PICK k \in DOMAIN models : \E i \in 0 .. Len(models[k].variants) : e = <<k, i>>
    BY EntryParts
  <2>4. PICK i \in 0 .. Len(models[k].variants) : e = <<k, i>>
    BY <2>3
  <2>5. r = Resolved(providers, models, <<k, i>>)
    BY <1>1, <2>2, <2>4 DEF Answer, ResolveModel
  <2>6. i = 0
    <3> HIDE DEF r
    <3>1. r.window = 0
      BY DEF r
    <3> QED
      BY <2>5, <3>1, ResolvedType
  <2>7. Answer(models[k].slug) = Resolved(providers, models, <<k, 0>>)
    BY SlugAnswers
  <2>8. Resolved(providers, models, <<k, 0>>).slug = models[k].slug
    BY DEF Resolved, PublishedSlug
  <2> QED
    BY <2>5, <2>6, <2>7, <2>8
<1>2. CASE n \notin DOMAIN index
  <2>1. /\ r = Discovered(providers, n)
        /\ r.provider = DiscoveryProvider(n)
    BY <1>2, DiscoveredAnswer
  <2>2. r.slug = Prefixed(DiscoveryProvider(n), DiscoveredUpstream(n))
    BY <2>1 DEF Discovered, Prefixed
  <2>3. NamesProvider(n)
    BY <2>1 DEF DiscoveryProvider
  <2>4. Prefixed(DiscoveryProvider(n), DiscoveredUpstream(n)) = n
    BY <2>3, PrefixedAfterSlash DEF DiscoveryProvider, DiscoveredUpstream, NamesProvider
  <2> QED
    BY <2>2, <2>4
<1> QED
  BY <1>1, <1>2

LEMMA PlainHydrated ==
    ASSUME ValidationInv, phase = "accepted", PublishedEntriesRoute,
           NEW l \in Shown, PlainListing(l)
    PROVE  l \in Raw /\ HydratedIn(l, Raw) /\ DirectIn(l, Raw)
<1> DEFINE r == Answer(l.name)
           s == Answer(r.slug)
           base == HydrateModel(l, r)
<1>1. CASE r = Unresolved
  BY <1>1 DEF Raw, Presentable, HydratedIn, DirectIn
<1>2. CASE r # Unresolved
  <2>1. /\ l.name \in Name /\ r.window = 0 /\ (s # Unresolved => s.window = 0)
        /\ l.label = <<>> \/ (l.label = <<r.provider>> /\ r.provider # "openai")
    BY <1>2, ShownFields DEF PlainListing
  <2>2. base \in Shown
    BY <1>2, <2>1, HydrateModelType
  <2>3. base.name = r.slug /\ base.label = l.label
    <3> DEFINE slug == r.slug
               w == OrDefault(EnrichedWindow(l, r), 0, ConfiguredWindow(r))
    <3>1. base = [l EXCEPT !.name = slug, !.window = w]
      BY DEF HydrateModel
    <3> HIDE DEF base, slug, w
    <3>2. base.name = slug /\ base.label = l.label
      BY <3>1 DEF Shown, Listing
    <3> QED
      BY <3>2 DEF slug
  <2>4. l.label \in LabelsBefore(r)
    <3> HIDE DEF r
    <3> QED
      BY <2>1 DEF LabelsBefore
  <2>5. VariantsOf(l, r) \in Seq(Raw)
    BY <1>2, <2>1, VariantsPresentable
  <2>6. VariantsOf(base, r) \in Seq(Raw)
    <3> HIDE DEF base
    <3> QED
      BY <1>2, <2>1, <2>2, <2>3, VariantsPresentable
  <2>7. s # Unresolved => l.label \in LabelsBefore(s)
    <3>1. r.provider # "openai" => s = r
      BY <1>2, <2>1, BaseSlugAnswers
    <3> HIDE DEF r, s
    <3>2. CASE l.label = <<>>
      BY <2>1, <3>2 DEF LabelsBefore
    <3>3. CASE l.label = <<r.provider>> /\ r.provider # "openai"
      BY <2>4, <3>1, <3>3
    <3> QED
      BY <2>1, <3>2, <3>3
  <2>8. l \in Raw
    BY <2>1, <2>4 DEF Raw, Presentable
  <2>9. base \in Raw
    <3>1. Answer(base.name) = s
      BY <2>3
    <3> HIDE DEF base, s
    <3> QED
      BY <2>1, <2>2, <2>3, <2>7, <3>1 DEF Raw, Presentable
  <2> QED
    BY <2>5, <2>6, <2>8, <2>9 DEF HydratedIn, DirectIn
<1> QED
  BY <1>1, <1>2

LEMMA BareIsPlain ==
    ASSUME ValidationInv, phase = "accepted", NEW k \in DOMAIN models
    PROVE  PlainListing(BareListing(models[k]))
<1> DEFINE r == Resolved(providers, models, <<k, 0>>)
<1>1. Answer(models[k].slug) = r
  BY SlugAnswers
<1>2. r.window = 0 /\ r.slug = models[k].slug
  BY DEF Resolved, PublishedSlug
<1> HIDE DEF r
<1> QED
  BY <1>1, <1>2 DEF PlainListing, BareListing

LEMMA VirtualModelReady ==
    ASSUME ValidationInv, phase = "accepted", NEW alias \in AutoNames
    PROVE  [name |-> alias, window |-> LargestWindow, label |-> <<"auto">>] \in Ready
BY VirtualModelType DEF Ready, Presented

(* Whatever the gateway serves, with or without the direct list, every     *)
(* model in it carries the label and the window it will be served with.    *)
LEMMA ServedReady ==
    ASSUME ValidationInv, phase = "accepted", PublishedEntriesRoute, PlainOffers,
           NEW direct \in Seq(Shown), direct \in DirectLists \cup {<<>>},
           NEW offered \in Seq(Shown), offered \in Offers
    PROVE  /\ ServedWithoutDirect(offered) \in Seq(Ready)
           /\ ServedUnversioned(offered) \in Seq(Ready)
           /\ ServedWithDirect(direct, offered) \in Seq(Ready)
<1> DEFINE found == FoldLeft(AddConfigured, FoldLeft(AddOffered, <<>>, offered), models)
           bifrost == BifrostList(offered)
           joined == FoldLeft(AddBifrosts, FoldLeft(AddDirect, <<>>, direct), bifrost)
<1>1. /\ offered \in Seq(Listing) /\ direct \in Seq(Listing)
      /\ \A i \in DOMAIN offered : offered[i] \in Shown
      /\ \A i \in DOMAIN direct : direct[i] \in Shown
  BY DEF Shown
<1>2. \A i \in DOMAIN offered : offered[i] \in Raw /\ HydratedIn(offered[i], Raw)
  BY <1>1, PlainHydrated DEF PlainOffers
<1>3. \A i \in DOMAIN direct : DirectIn(direct[i], Raw)
  BY <1>1, PlainHydrated DEF PlainOffers
<1>4. \A k \in DOMAIN models : HydratedIn(BareListing(models[k]), Raw)
  BY BareType, BareIsPlain, PlainHydrated
<1>5. found \in Seq(Raw)
  BY <1>1, <1>2, <1>4, GatheredKeeps
<1>6. Hydrated(offered) = Decorated(found)
  BY DEF Hydrated
<1> HIDE DEF found
<1>7. Hydrated(offered) \in Seq(Ready)
  BY <1>5, <1>6, DecorateModelReady, DecoratedKeeps
<1>8. \A list \in Seq(Ready) : InjectVirtualModels(list) \in Seq(Ready)
  BY VirtualModelReady, VirtualModelsKeep
<1>9. bifrost \in Seq(Ready)
  BY <1>7, <1>8 DEF BifrostList
<1>10. Merged(direct, bifrost) = Decorated(joined)
  BY DEF Merged
<1> HIDE DEF bifrost
<1>11. bifrost \in Seq(Raw)
  BY <1>9, ReadyIsRaw
<1>12. joined \in Seq(Raw)
  BY <1>1, <1>3, <1>11, JoinedKeeps
<1> HIDE DEF joined
<1>13. offered \in Seq(Raw)
  <2>1. offered = [i \in 1 .. Len(offered) |-> offered[i]] /\ Len(offered) \in Nat /\ DOMAIN offered = 1 .. Len(offered)
    OBVIOUS
  <2>2. offered \in [1 .. Len(offered) -> Raw]
    BY <1>2, <2>1
  <2> QED
    BY <2>1, <2>2, FunctionIsSeq
<1>14. /\ Decorated(bifrost) \in Seq(Ready) /\ Decorated(offered) \in Seq(Ready)
       /\ Merged(direct, bifrost) \in Seq(Ready)
  BY <1>10, <1>11, <1>12, <1>13, DecorateModelReady, DecoratedKeeps
<1> QED
  BY <1>8, <1>14 DEF ServedWithoutDirect, ServedUnversioned, ServedWithDirect, bifrost

-----------------------------------------------------------------------------
(* The fields of a request have their types at every stage.                *)
RequestFields(q) ==
    q = [stage |-> q.stage, via |-> q.via, name |-> q.name, picked |-> q.picked,
         tools |-> q.tools, bearer |-> q.bearer, virtualKey |-> q.virtualKey,
         selected |-> q.selected, target |-> q.target, body |-> q.body, path |-> q.path,
         token |-> q.token, observed |-> q.observed, dest |-> q.dest,
         converted |-> q.converted, error |-> q.error]

Typed(q) ==
    /\ RequestFields(q)
    /\ q.stage \in {"idle", "gateway", "plugin", "split", "sent", "answered", "refused"}
    /\ q.via \in {"gateway", "plugin"}
    /\ q.name \in Name /\ (q.stage # "idle" => Said(q.name))
    /\ q.picked \in Listing
    /\ q.tools \in Tools /\ q.bearer \in BOOLEAN /\ q.virtualKey \in BOOLEAN
    /\ q.selected \in Name /\ q.body \in Name /\ q.observed \in Name
    /\ q.target = Unresolved \/ q.target.provider \in DOMAIN providers
    /\ q.path \in {"responses", "chatgpt"}
    /\ q.token \in BOOLEAN /\ q.converted \in BOOLEAN
    /\ q.dest \in [provider : DOMAIN providers \cup {"", "openai"}, upstream : Name]
    /\ q.error \in {""} \cup Refusals

LEMMA TypedIsTyped ==
    ASSUME Typed(request)
    PROVE  request \in RequestType
BY DEF Typed, RequestFields, RequestType

LEMMA IdleIsTyped == Typed(Idle)
<1>1. NoName \in Name /\ <<>> \in Seq(Suffix)
  BY NoNameIsName
<1>2. NoListing \in Listing
  BY <1>1 DEF NoListing, Listing
<1>3. Nowhere \in [provider : DOMAIN providers \cup {"", "openai"}, upstream : Name]
  BY <1>1 DEF Nowhere
<1> QED
  BY <1>1, <1>2, <1>3 DEF Typed, Idle, RequestFields, Tools

LEMMA RefusedIsTyped ==
    ASSUME Typed(request), request.stage # "idle", NEW why \in Refusals, Refuse(why)
    PROVE  Typed(request')
BY DEF Typed, Refuse, RequestFields

LEMMA SentNameType ==
    ASSUME ValidationInv, phase = "accepted", NEW n \in Name, Answer(n) # Unresolved
    PROVE  SentName(Answer(n)) \in Name
<1> DEFINE r == Answer(n)
           up == r.upstream
           p == r.provider
<1>1. up \in Name /\ p \in STRING
  BY AnswerType, ServingFacts DEF Serving
<1>2. SentName(r) = IF IsPassthrough(r) THEN up ELSE [up EXCEPT !.path = <<p>> \o up.path]
  BY DEF SentName
<1> HIDE DEF up, p
<1>3. <<p>> \o up.path \in Seq(STRING)
  BY <1>1 DEF Name
<1> QED
  BY <1>1, <1>2, <1>3 DEF Name

LEMMA RoutedType ==
    ASSUME ValidationInv, phase = "accepted", NEW n \in Name, NEW tools, NEW routed \in Rewritten(n, tools)
    PROVE  /\ routed \in Name /\ AfterFallback(routed, tools) \in Name
           /\ Selected(n, routed) \in Name
<1>1. routed \in Name
  BY SelectableFacts DEF Rewritten
<1>2. fallback \in Name
  BY DEF ValidationInv, ConfigTypeOK
<1> QED
  BY <1>1, <1>2, NoNameIsName DEF AfterFallback, Selected

LEMMA PickIsTyped ==
    ASSUME shown \in Seq(Shown), Pick
    PROVE  Typed(request') /\ shown' \in Seq(Shown)
<1>1. PICK i \in DOMAIN shown, tools \in {"portable", "hosted"} :
          request' = [Idle EXCEPT !.stage = "gateway", !.name = shown[i].name, !.picked = shown[i],
                                  !.tools = tools, !.bearer = TRUE, !.virtualKey = TRUE]
  BY DEF Pick
<1>2. shown[i] \in Shown
  OBVIOUS
<1>3. shown[i] \in Listing /\ shown[i].name \in Name /\ Said(shown[i].name)
  BY <1>2, ShownFields
<1>4. Typed(request')
  BY <1>1, <1>3, IdleIsTyped DEF Typed, Idle, RequestFields, Tools
<1>5. shown' = <<>>
  BY DEF Pick
<1> QED
  BY <1>4, <1>5

LEMMA AskIsTyped ==
    ASSUME Ask
    PROVE  Typed(request')
<1>1. PICK at \in {"gateway", "plugin"}, n \in Asked, tools \in Tools, bearer \in BOOLEAN, key \in BOOLEAN :
          request' = [Idle EXCEPT !.stage = at, !.via = at, !.name = n, !.tools = tools,
                                  !.bearer = bearer, !.virtualKey = key]
  BY DEF Ask
<1>2. n \in Name /\ Said(n)
  BY ConfigConstants, DispatchConstants
<1> QED
  BY <1>1, <1>2, IdleIsTyped DEF Typed, Idle, RequestFields

LEMMA GatewayRoutesIsTyped ==
    ASSUME ValidationInv, phase = "accepted", Typed(request), GatewayRoutes
    PROVE  Typed(request')
<1>1. PICK routed \in Rewritten(request.name, request.tools) :
          LET r == Answer(AfterFallback(routed, request.tools))
          IN  IF r = Unresolved THEN Refuse("unresolved_model")
              ELSE request' = [request EXCEPT !.stage = "plugin", !.target = r, !.body = SentName(r),
                                  !.path = IF IsPassthrough(r) THEN "chatgpt" ELSE "responses",
                                  !.selected = Selected(request.name, routed),
                                  !.observed = r.slug]
  BY DEF GatewayRoutes
<1> DEFINE b == AfterFallback(routed, request.tools)
           r == Answer(b)
           sent == SentName(r)
           path == IF IsPassthrough(r) THEN "chatgpt" ELSE "responses"
           selected == Selected(request.name, routed)
<1>2. request.stage = "gateway" /\ request.name \in Name
  BY DEF GatewayRoutes, Typed
<1>3. b \in Name /\ selected \in Name
  BY <1>2, RoutedType
<1>4. CASE r = Unresolved
  <2>1. Refuse("unresolved_model")
    BY <1>1, <1>4
  <2> QED
    BY <1>2, <2>1, RefusedIsTyped DEF Refusals
<1>5. CASE r # Unresolved
  <2>1. r.slug \in Name /\ r.provider \in DOMAIN providers /\ sent \in Name
    BY <1>3, <1>5, AnswerType, SentNameType
  <2>2. request' = [request EXCEPT !.stage = "plugin", !.target = r, !.body = sent, !.path = path,
                                   !.selected = selected, !.observed = r.slug]
    BY <1>1, <1>5
  <2>3. path \in {"responses", "chatgpt"}
    OBVIOUS
  <2> HIDE DEF r, sent, path, selected
  <2> QED
    BY <1>2, <1>3, <2>1, <2>2, <2>3 DEF Typed, RequestFields
<1> QED
  BY <1>4, <1>5

LEMMA PluginAuthorizesIsTyped ==
    ASSUME ValidationInv, phase = "accepted", Typed(request), PluginAuthorizes
    PROVE  Typed(request')
<1>1. PICK routed \in Rewritten(Arrived, request.tools) :
          LET body == AfterFallback(routed, request.tools)
              r == Answer(body)
          IN  IF r = Unresolved THEN Refuse("unresolved_model")
              ELSE IF IsPassthrough(r) /\ ~request.virtualKey THEN Refuse("missing_bifrost_auth")
              ELSE IF IsPassthrough(r) /\ ~request.bearer THEN Refuse("missing_openai_auth")
              ELSE request' = Authorized(r, routed, body)
  BY DEF PluginAuthorizes
<1> DEFINE b == AfterFallback(routed, request.tools)
           r == Answer(b)
           token == UsesCallersToken(r)
           target == IF request.via = "plugin" THEN r ELSE request.target
           selected == IF request.via = "plugin" THEN Selected(request.name, routed) ELSE request.selected
           observed == IF request.via = "plugin" THEN b ELSE request.observed
<1>2. request.stage = "plugin" /\ request.name \in Name /\ Arrived \in Name
  BY DEF PluginAuthorizes, Typed, Arrived, OrDefault
<1>3. b \in Name /\ routed \in Name
  BY <1>2, RoutedType
<1>4. selected \in Name /\ observed \in Name
  BY <1>3, NoNameIsName DEF Selected, Typed
<1>5. CASE r # Unresolved /\ request' = Authorized(r, routed, b)
  <2>1. target = Unresolved \/ target.provider \in DOMAIN providers
    BY <1>3, <1>5, AnswerType DEF Typed
  <2>2. token \in BOOLEAN
    BY DEF UsesCallersToken, IsPassthrough
  <2>3. request' = [request EXCEPT !.stage = "split", !.body = b, !.token = token,
                                   !.target = target, !.selected = selected, !.observed = observed]
    BY <1>5 DEF Authorized
  <2> HIDE DEF b, r, token, target, selected, observed
  <2> QED
    BY <1>2, <1>3, <1>4, <2>1, <2>2, <2>3 DEF Typed, RequestFields
<1>6. CASE Refuse("unresolved_model") \/ Refuse("missing_bifrost_auth") \/ Refuse("missing_openai_auth")
  BY <1>2, <1>6, RefusedIsTyped DEF Refusals
<1> QED
  BY <1>1, <1>5, <1>6

LEMMA PassThroughIsTyped ==
    ASSUME Typed(request), PassThrough
    PROVE  Typed(request')
BY DEF PassThrough, Typed, RequestFields

LEMMA PluginDispatchesIsTyped ==
    ASSUME ValidationInv, phase = "accepted", Typed(request), PluginDispatches
    PROVE  Typed(request')
<1> DEFINE r == Answer(request.body)
           converted == (r.mode = "chat_polyfill")
           dest == [provider |-> r.provider, upstream |-> r.upstream]
<1>1. request.stage = "split" /\ request.body \in Name
  BY DEF PluginDispatches, Typed
<1>2. CASE r # Unresolved /\ SendTo(r)
  <2>1. r.provider \in DOMAIN providers /\ r.upstream \in Name
    BY <1>1, <1>2, AnswerType
  <2>2. dest \in [provider : DOMAIN providers \cup {"", "openai"}, upstream : Name]
    BY <2>1
  <2>3. converted \in BOOLEAN
    OBVIOUS
  <2>4. request' = [request EXCEPT !.stage = "sent", !.converted = converted, !.dest = dest]
    BY <1>2 DEF SendTo
  <2> HIDE DEF r, converted, dest
  <2> QED
    BY <1>1, <2>2, <2>3, <2>4 DEF Typed, RequestFields
<1>3. CASE \/ Refuse("unresolved_model") \/ Refuse("responses_unsupported")
           \/ Refuse("hosted_tool_unsupported")
  BY <1>1, <1>3, RefusedIsTyped DEF Refusals
<1> QED
  BY <1>2, <1>3 DEF PluginDispatches

-----------------------------------------------------------------------------
(* The invariant of a request q, from stage to stage.                      *)
IsUnderway(q) == q.stage \in {"sent", "answered"}

(* Nothing is known of it before the first process has resolved its name,  *)
(* and its target is afterwards.                                           *)
FreshInv(q) ==
    /\ q.via \in {"gateway", "plugin"}
    /\ q.stage = "gateway" => q.via = "gateway"
    /\ q.stage \in {"split", "sent", "answered"} \/ (q.stage = "plugin" /\ q.via = "gateway") =>
          q.target # Unresolved
    /\ q.stage = "gateway" \/ (q.stage = "plugin" /\ q.via = "plugin") =>
          q.target = Unresolved /\ q.body = NoName /\ q.selected = NoName
    /\ q.stage \in {"gateway", "plugin", "split"} => ~q.converted /\ q.error = ""
    /\ q.stage = "gateway" \/ q.via = "plugin" => q.path = "responses"

RunsNatively(q, r) ==
    q.tools = "hosted" /\ fallback # NoName /\ FallbackRoutes => r.mode # "chat_polyfill"

(* What the plugin has decided before Bifrost splits the name.             *)
AuthorizedInv(q) ==
    q.stage = "split" =>
        LET r == Answer(q.body)
        IN  /\ r # Unresolved
            /\ q.token <=> IsPassthrough(r)
            /\ RunsNatively(q, r)
            /\ q.via = "plugin" => q.target = r

SentInv(q) ==
    IsUnderway(q) =>
        /\ q.token => q.dest.provider = "openai"
        /\ q.tools = "hosted" /\ fallback # NoName /\ FallbackRoutes => ~q.converted

(* What has been selected is what the first process resolved.              *)
SelectionInv(q) ==
    q.selected # NoName /\ q.stage \in {"plugin", "split", "sent", "answered"} =>
        /\ q.observed = q.selected
        /\ \E k \in DOMAIN models :
              q.selected = models[k].slug /\ q.target = Resolved(providers, models, <<k, 0>>)

ServedAs(q, r) ==
    /\ q.dest = [provider |-> r.provider, upstream |-> r.upstream]
    /\ q.token <=> IsPassthrough(r)
    /\ q.path = "responses" => (q.converted <=> r.mode = "chat_polyfill")

(* The plugin's own requests, and those that the gateway has sent on.      *)
PluginInv(q) == q.via = "plugin" /\ IsUnderway(q) => ServedAs(q, q.target)

(* The fallback may be kept by a name that leads elsewhere: it matters only *)
(* to hosted tools for which nothing was selected.                         *)
Known(q) == q.selected # NoName \/ FallbackRoutes \/ q.tools # "hosted"

GatewayInv(q) ==
    Known(q) /\ q.via = "gateway" /\ q.target # Unresolved =>
        /\ Reached(q.target)
        /\ q.tools = "hosted" /\ fallback # NoName => q.target.mode # "chat_polyfill"
        /\ q.path = "chatgpt" <=> IsPassthrough(q.target)
        /\ q.stage = "plugin" \/ (q.stage = "split" /\ Canonical(q.target)) => q.body = SentName(q.target)
        /\ IsUnderway(q) /\ Canonical(q.target) => ServedAs(q, q.target)
        /\ q.error = "unresolved_model" => ~Canonical(q.target)

RouteInv(q) ==
    /\ RequestFields(q) /\ q.path \in {"responses", "chatgpt"}
    /\ FreshInv(q) /\ AuthorizedInv(q) /\ SentInv(q)
    /\ SelectionInv(q) /\ PluginInv(q) /\ GatewayInv(q)

LEMMA IdleRoute == RouteInv(Idle)
BY DEF RouteInv, Idle, RequestFields, FreshInv, AuthorizedInv, SentInv, SelectionInv, PluginInv, GatewayInv, IsUnderway

(* Serving changes no configuration.                                       *)
LEMMA RouteFrozen ==
    ASSUME UNCHANGED validationVars, RouteInv(request')
    PROVE  RouteInv(request)'
<1> USE DEF validationVars, Answer, IsPassthrough, FallbackRoutes, MayBeFallback
<1>1. RequestFields(request)' /\ request'.path \in {"responses", "chatgpt"}
  BY DEF RouteInv, RequestFields
<1>2. FreshInv(request)' /\ SentInv(request)'
  BY DEF RouteInv, FreshInv, SentInv, IsUnderway
<1>3. AuthorizedInv(request)'
  BY DEF RouteInv, AuthorizedInv, RunsNatively
<1>4. SelectionInv(request)'
  BY DEF RouteInv, SelectionInv
<1>5. PluginInv(request)'
  BY DEF RouteInv, PluginInv, ServedAs, IsUnderway
<1>6. GatewayInv(request)'
  BY DEF RouteInv, GatewayInv, Known, Reached, Canonical, ConfiguredTarget, SentName, ServedAs,
         IsUnderway, Sayable
<1> QED
  BY <1>1, <1>2, <1>3, <1>4, <1>5, <1>6 DEF RouteInv

LEMMA NewRequest ==
    ASSUME Pick \/ Ask
    PROVE  RouteInv(request')
<1>1. /\ RequestFields(request')
      /\ request'.stage \in {"gateway", "plugin"} /\ request'.via = request'.stage
      /\ request'.target = Unresolved /\ request'.body = NoName /\ request'.selected = NoName
      /\ request'.path = "responses" /\ request'.converted = FALSE /\ request'.error = ""
  <2>1. CASE Pick
    <3>1. PICK i \in DOMAIN shown, tools \in {"portable", "hosted"} :
              request' = [Idle EXCEPT !.stage = "gateway", !.name = shown[i].name, !.picked = shown[i],
                                      !.tools = tools, !.bearer = TRUE, !.virtualKey = TRUE]
      BY <2>1 DEF Pick
    <3> QED
      BY <3>1 DEF Idle, RequestFields
  <2>2. CASE Ask
    <3>1. PICK at \in {"gateway", "plugin"}, n \in Asked, tools \in Tools,
               bearer \in BOOLEAN, key \in BOOLEAN :
              request' = [Idle EXCEPT !.stage = at, !.via = at, !.name = n, !.tools = tools,
                                      !.bearer = bearer, !.virtualKey = key]
      BY <2>2 DEF Ask
    <3> QED
      BY <3>1 DEF Idle, RequestFields
  <2> QED
    BY <2>1, <2>2
<1> QED
  BY <1>1 DEF RouteInv, FreshInv, AuthorizedInv, SentInv, SelectionInv, PluginInv, GatewayInv, IsUnderway

LEMMA Refused ==
    ASSUME RouteInv(request), NEW why, Refuse(why),
           why = "unresolved_model" /\ Known(request) /\ request.via = "gateway" /\ request.target # Unresolved
              => ~Canonical(request.target),
           request.stage # "refused"
    PROVE  RouteInv(request')
<1>1. request' = [request EXCEPT !.stage = "refused", !.error = why] /\ RequestFields(request)
  BY DEF Refuse, RouteInv
<1>2. /\ RequestFields(request') /\ request'.stage = "refused" /\ request'.error = why
      /\ request'.via = request.via /\ request'.name = request.name /\ request'.tools = request.tools
      /\ request'.selected = request.selected /\ request'.target = request.target
      /\ request'.path = request.path
  BY <1>1 DEF RequestFields
<1>3. FreshInv(request') /\ AuthorizedInv(request') /\ SentInv(request')
  BY <1>2 DEF RouteInv, FreshInv, AuthorizedInv, SentInv, IsUnderway
<1>4. SelectionInv(request') /\ PluginInv(request')
  BY <1>2 DEF SelectionInv, PluginInv, IsUnderway
<1>5. GatewayInv(request')
  BY <1>2 DEF RouteInv, GatewayInv, Known, IsUnderway
<1> QED
  BY <1>2, <1>3, <1>4, <1>5 DEF RouteInv

LEMMA RoutedName ==
    ASSUME ValidationInv, phase = "accepted", NEW n, NEW tools, NEW routed \in Rewritten(n, tools)
    PROVE  \/ n \notin AutoNames /\ routed = n /\ Selected(n, routed) = NoName
           \/ n \in AutoNames /\ routed \in Selectable(tools) /\ Selected(n, routed) = routed
BY DEF Rewritten, Selected

LEMMA GatewayRoutesStep ==
    ASSUME ValidationInv, phase = "accepted", Typed(request), RouteInv(request), GatewayRoutes
    PROVE  RouteInv(request')
<1> DEFINE q == request'
<1>1. PICK routed \in Rewritten(request.name, request.tools) :
          LET r == Answer(AfterFallback(routed, request.tools))
          IN  IF r = Unresolved THEN Refuse("unresolved_model")
              ELSE q = [request EXCEPT !.stage = "plugin", !.target = r, !.body = SentName(r),
                            !.path = IF IsPassthrough(r) THEN "chatgpt" ELSE "responses",
                            !.selected = Selected(request.name, routed),
                            !.observed = r.slug]
  BY DEF GatewayRoutes
<1> DEFINE b == AfterFallback(routed, request.tools)
           r == Answer(b)
<1>2. /\ request.stage = "gateway" /\ request.via = "gateway" /\ request.target = Unresolved
      /\ request.selected = NoName /\ ~request.converted /\ request.error = ""
      /\ RequestFields(request)
  BY DEF GatewayRoutes, RouteInv, FreshInv
<1>3. CASE r = Unresolved
  BY <1>1, <1>2, <1>3, Refused
<1>4. CASE r # Unresolved
  <2>1. q = [request EXCEPT !.stage = "plugin", !.target = r, !.body = SentName(r),
                            !.path = IF IsPassthrough(r) THEN "chatgpt" ELSE "responses",
                            !.selected = Selected(request.name, routed),
                            !.observed = r.slug]
    BY <1>1, <1>4
  <2>2. /\ RequestFields(q) /\ q.stage = "plugin" /\ q.via = "gateway" /\ q.target = r
        /\ q.name = request.name /\ q.tools = request.tools
        /\ q.body = SentName(r) /\ q.selected = Selected(request.name, routed) /\ q.observed = r.slug
        /\ q.path = (IF IsPassthrough(r) THEN "chatgpt" ELSE "responses")
        /\ q.converted = request.converted /\ q.error = ""
    BY <1>2, <2>1 DEF RequestFields
  <2> HIDE DEF q
  <2>3. FreshInv(q) /\ AuthorizedInv(q) /\ SentInv(q) /\ PluginInv(q) /\ q.path \in {"responses", "chatgpt"}
    BY <1>2, <1>4, <2>2 DEF FreshInv, AuthorizedInv, SentInv, PluginInv, IsUnderway
  <2>4. CASE request.name \notin AutoNames
    <3>1. routed = request.name /\ q.selected = NoName
      BY <2>2, <2>4, RoutedName
    <3>2. Sayable(routed) /\ (Known(q) => FallbackRoutes \/ request.tools # "hosted")
      BY <1>2, <2>2, <3>1 DEF Known, Typed, Sayable
    <3>3. Known(q) => Reached(r)
      <4>1. request.tools # "hosted" => AfterFallback(routed, request.tools) = routed
        BY DEF AfterFallback
      <4> QED
        BY <1>4, <3>2, <4>1, FallbackIsReached
    <3>4. Known(q) /\ q.tools = "hosted" /\ fallback # NoName => r.mode # "chat_polyfill"
      BY <1>4, <2>2, <3>2, FallbackLeavesNative
    <3>5. GatewayInv(q)
      BY <2>2, <3>3, <3>4 DEF GatewayInv, IsUnderway
    <3>6. SelectionInv(q)
      BY <3>1 DEF SelectionInv
    <3> QED
      BY <2>2, <2>3, <3>5, <3>6 DEF RouteInv, q
  <2>5. CASE request.name \in AutoNames
    <3>1. routed \in Selectable(request.tools) /\ q.selected = routed
      BY <2>2, <2>5, RoutedName
    <3>2. /\ Sayable(routed) /\ AfterFallback(routed, request.tools) = routed
          /\ \E k \in DOMAIN models :
                routed = models[k].slug /\ Answer(routed) = Resolved(providers, models, <<k, 0>>)
      BY <3>1, SelectableFacts DEF Sayable, Said
    <3>3. Reached(r)
      BY <1>4, <3>2, FallbackIsReached
    <3>4. q.tools = "hosted" /\ fallback # NoName => r.mode # "chat_polyfill"
      BY <2>2, <3>1, <3>2, SelectableFacts
    <3>5. GatewayInv(q)
      BY <2>2, <3>3, <3>4 DEF GatewayInv, IsUnderway
    <3>6. SelectionInv(q)
      <4>1. PICK k \in DOMAIN models :
                routed = models[k].slug /\ Answer(routed) = Resolved(providers, models, <<k, 0>>)
        BY <3>2
      <4>2. r = Resolved(providers, models, <<k, 0>>) /\ r.slug = models[k].slug
        BY <3>2, <4>1 DEF Resolved, PublishedSlug
      <4> QED
        BY <2>2, <3>1, <4>1, <4>2 DEF SelectionInv
    <3> QED
      BY <2>2, <2>3, <3>5, <3>6 DEF RouteInv, q
  <2> QED
    BY <2>4, <2>5
<1> QED
  BY <1>3, <1>4

(* A name that the gateway made, and that is its model's own, arrives as   *)
(* it was sent and stays as it is in the plugin.                           *)
LEMMA CanonicalArrives ==
    ASSUME ValidationInv, phase = "accepted", RouteInv(request),
           request.stage = "plugin", request.via = "gateway", Known(request),
           request.target # Unresolved, Canonical(request.target),
           NEW routed \in Rewritten(Arrived, request.tools)
    PROVE  /\ AfterFallback(routed, request.tools) = SentName(request.target)
           /\ Agrees(request.target, Answer(SentName(request.target)))
<1> DEFINE r == request.target
           sent == SentName(r)
<1>1. /\ Reached(r) /\ request.body = sent
      /\ request.tools = "hosted" /\ fallback # NoName => r.mode # "chat_polyfill"
  BY DEF RouteInv, GatewayInv
<1>2. Agrees(r, Answer(sent)) /\ sent # NoName
  BY <1>1, CanonicalAgrees
<1>3. sent \notin AutoNames
  BY DEF Canonical
<1> HIDE DEF sent, r
<1>4. Arrived = sent
  BY <1>1, <1>2 DEF Arrived, OrDefault
<1>5. routed = sent
  BY <1>3, <1>4 DEF Rewritten
<1>6. AfterFallback(routed, request.tools) = sent
  BY <1>1, <1>2, <1>5 DEF AfterFallback, Agrees
<1> QED
  BY <1>2, <1>6 DEF sent, r

LEMMA PluginAuthorizesStep ==
    ASSUME ValidationInv, phase = "accepted", RouteInv(request), PluginAuthorizes
    PROVE  RouteInv(request')
<1> DEFINE q == request'
<1>1. request.stage = "plugin"
  BY DEF PluginAuthorizes
<1>2. PICK routed \in Rewritten(Arrived, request.tools) :
          LET body == AfterFallback(routed, request.tools)
              r == Answer(body)
          IN  IF r = Unresolved THEN Refuse("unresolved_model")
              ELSE IF IsPassthrough(r) /\ ~request.virtualKey THEN Refuse("missing_bifrost_auth")
              ELSE IF IsPassthrough(r) /\ ~request.bearer THEN Refuse("missing_openai_auth")
              ELSE q = Authorized(r, routed, body)
  BY DEF PluginAuthorizes
<1> DEFINE b == AfterFallback(routed, request.tools)
           r == Answer(b)
<1>3. Known(request) /\ request.via = "gateway" /\ request.target # Unresolved /\ Canonical(request.target) =>
          b = SentName(request.target) /\ Agrees(request.target, r)
  BY <1>1, CanonicalArrives
<1>4. CASE r = Unresolved
  <2>1. Refuse("unresolved_model")
    BY <1>2, <1>4
  <2> QED
    BY <1>1, <1>3, <1>4, <2>1, Refused DEF Agrees
<1>5. CASE Refuse("missing_bifrost_auth")
  BY <1>1, <1>5, Refused
<1>6. CASE Refuse("missing_openai_auth")
  BY <1>1, <1>6, Refused
<1>7. CASE r # Unresolved /\ q = Authorized(r, routed, b)
  <2>1. /\ RequestFields(request) /\ FreshInv(request) /\ SelectionInv(request) /\ GatewayInv(request)
        /\ request.path \in {"responses", "chatgpt"}
    BY DEF RouteInv
  <2>2. RunsNatively(request, r)
    BY <1>7, FallbackLeavesNative DEF RunsNatively
  <2>3. CASE request.via = "plugin"
    <3>1. /\ RequestFields(q) /\ q.stage = "split" /\ q.via = "plugin" /\ q.target = r
          /\ q.tools = request.tools /\ q.body = b /\ q.selected = Selected(request.name, routed)
          /\ q.observed = b /\ q.path = request.path /\ (q.token <=> IsPassthrough(r))
          /\ q.converted = request.converted /\ q.error = request.error
      BY <1>7, <2>1, <2>3 DEF Authorized, UsesCallersToken, RequestFields
    <3> HIDE DEF q, b, r
    <3>2. FreshInv(q) /\ q.path = "responses"
      BY <1>1, <1>7, <2>1, <2>3, <3>1 DEF FreshInv, r
    <3>3. AuthorizedInv(q)
      BY <1>7, <2>2, <3>1 DEF AuthorizedInv, RunsNatively, r
    <3>4. SentInv(q) /\ PluginInv(q) /\ GatewayInv(q)
      BY <3>1 DEF SentInv, PluginInv, GatewayInv, IsUnderway
    <3>5. SelectionInv(q)
      <4>1. routed \in Rewritten(request.name, request.tools)
        BY <1>1, <2>1, <2>3 DEF FreshInv, Arrived, OrDefault
      <4>2. CASE request.name \notin AutoNames
        BY <3>1, <4>1, <4>2, RoutedName DEF SelectionInv
      <4>3. CASE request.name \in AutoNames
        <5>1. routed \in Selectable(request.tools) /\ q.selected = routed
          BY <3>1, <4>1, <4>3, RoutedName
        <5>2. /\ b = routed
              /\ \E k \in DOMAIN models :
                    routed = models[k].slug /\ r = Resolved(providers, models, <<k, 0>>)
          BY <5>1, SelectableFacts DEF b, r
        <5> QED
          BY <3>1, <5>1, <5>2 DEF SelectionInv
      <4> QED
        BY <4>2, <4>3
    <3> QED
      BY <3>1, <3>2, <3>3, <3>4, <3>5 DEF RouteInv, q
  <2>4. CASE request.via # "plugin"
    <3>1. /\ RequestFields(q) /\ q.stage = "split" /\ q.via = request.via /\ q.target = request.target
          /\ q.name = request.name
          /\ q.tools = request.tools /\ q.body = b /\ q.selected = request.selected
          /\ q.observed = request.observed /\ q.path = request.path /\ (q.token <=> IsPassthrough(r))
          /\ q.converted = request.converted /\ q.error = request.error
      BY <1>7, <2>1, <2>4 DEF Authorized, UsesCallersToken, RequestFields
    <3> HIDE DEF q, b, r
    <3>2. FreshInv(q)
      BY <1>1, <2>1, <2>4, <3>1 DEF FreshInv
    <3>3. AuthorizedInv(q)
      BY <1>7, <2>2, <2>4, <3>1 DEF AuthorizedInv, RunsNatively, r
    <3>4. SentInv(q) /\ PluginInv(q)
      BY <2>4, <3>1 DEF SentInv, PluginInv, IsUnderway
    <3>5. SelectionInv(q)
      BY <1>1, <2>1, <3>1 DEF SelectionInv
    <3>6. GatewayInv(q)
      BY <1>1, <1>3, <2>1, <3>1 DEF GatewayInv, Known, IsUnderway
    <3> QED
      BY <2>1, <3>1, <3>2, <3>3, <3>4, <3>5, <3>6 DEF RouteInv, q
  <2> QED
    BY <2>3, <2>4
<1> QED
  BY <1>2, <1>4, <1>5, <1>6, <1>7

LEMMA PassThroughStep ==
    ASSUME ValidationInv, phase = "accepted", RouteInv(request), PassThrough
    PROVE  RouteInv(request')
<1> DEFINE q == request'
<1>1. /\ request.stage = "split" /\ request.path = "chatgpt" /\ request.via # "plugin"
      /\ RequestFields(request) /\ ~request.converted /\ request.error = ""
      /\ SelectionInv(request) /\ GatewayInv(request) /\ AuthorizedInv(request)
      /\ FreshInv(request)
  BY DEF PassThrough, RouteInv, FreshInv
<1>2. q = [request EXCEPT !.stage = "sent", !.dest = [provider |-> "openai", upstream |-> request.body]]
  BY DEF PassThrough
<1>3. /\ RequestFields(q) /\ q.stage = "sent" /\ q.via = request.via /\ q.target = request.target
      /\ q.name = request.name /\ q.tools = request.tools /\ q.body = request.body
      /\ q.selected = request.selected /\ q.observed = request.observed /\ q.path = request.path
      /\ q.token = request.token /\ q.converted = request.converted /\ q.error = request.error
      /\ q.dest = [provider |-> "openai", upstream |-> request.body]
  BY <1>1, <1>2 DEF RequestFields
<1> HIDE DEF q
<1>4. FreshInv(q) /\ AuthorizedInv(q) /\ SentInv(q) /\ PluginInv(q)
  <2>1. FreshInv(q)
    BY <1>1, <1>3 DEF FreshInv
  <2>2. AuthorizedInv(q)
    BY <1>3 DEF AuthorizedInv
  <2>3. SentInv(q)
    <3>1. q.dest.provider = "openai"
      BY <1>3
    <3>2. ~q.converted
      BY <1>1, <1>3
    <3> QED
      BY <3>1, <3>2 DEF SentInv
  <2>4. PluginInv(q)
    BY <1>1, <1>3 DEF PluginInv
  <2> QED
    BY <2>1, <2>2, <2>3, <2>4
<1>5. SelectionInv(q)
  BY <1>1, <1>3 DEF SelectionInv
<1>6. ASSUME Known(q), q.via = "gateway", q.target # Unresolved, Canonical(q.target)
      PROVE  ServedAs(q, q.target)
  <2> DEFINE r == request.target
  <2>1. Known(request) /\ Reached(r) /\ IsPassthrough(r) /\ request.body = SentName(r)
    BY <1>1, <1>3, <1>6 DEF Known, GatewayInv
  <2>2. r.provider = "openai"
    BY <2>1, AnswerFacts DEF Reached
  <2>3. SentName(r) = r.upstream
    BY <2>1 DEF SentName
  <2>4. Agrees(r, Answer(SentName(r)))
    BY <1>3, <1>6, <2>1, CanonicalAgrees
  <2>5. IsPassthrough(Answer(request.body))
    BY <2>1, <2>4 DEF Agrees, IsPassthrough
  <2>6. q.token
    BY <1>1, <1>3, <2>5 DEF AuthorizedInv
  <2> QED
    BY <1>1, <1>3, <2>1, <2>2, <2>3, <2>6 DEF ServedAs
<1>7. GatewayInv(q)
  BY <1>1, <1>3, <1>6 DEF GatewayInv, Known
<1> QED
  BY <1>1, <1>3, <1>4, <1>5, <1>7 DEF RouteInv, q

LEMMA PluginDispatchesStep ==
    ASSUME ValidationInv, phase = "accepted", RouteInv(request), PluginDispatches
    PROVE  RouteInv(request')
<1> DEFINE q == request'
           s == Answer(request.body)
<1>1. /\ request.stage = "split" /\ request.path = "responses"
      /\ RequestFields(request) /\ ~request.converted /\ request.error = ""
      /\ SelectionInv(request) /\ GatewayInv(request) /\ AuthorizedInv(request)
  BY DEF PluginDispatches, RouteInv, FreshInv
<1>2. PICK provider \in Splits(request.body) :
          IF provider \notin DOMAIN providers \cup {""} \/ s = Unresolved
          THEN Refuse("unresolved_model")
          ELSE IF s.mode = "unsupported" THEN Refuse("responses_unsupported")
          ELSE IF s.mode = "chat_polyfill" /\ ~Convertible(s, request.tools)
          THEN Refuse("hosted_tool_unsupported")
          ELSE SendTo(s)
  BY DEF PluginDispatches
<1>3. /\ s # Unresolved /\ (request.token <=> IsPassthrough(s))
      /\ RunsNatively(request, s) /\ (request.via = "plugin" => request.target = s)
  BY <1>1 DEF AuthorizedInv
<1>4. ASSUME Known(request), request.via = "gateway", request.target # Unresolved, Canonical(request.target)
      PROVE  /\ Agrees(request.target, s) /\ ~IsPassthrough(request.target)
             /\ provider \in DOMAIN providers \cup {""}
  <2>1. Reached(request.target) /\ ~IsPassthrough(request.target) /\ request.body = SentName(request.target)
    BY <1>1, <1>4 DEF GatewayInv
  <2>2. /\ Agrees(request.target, s)
        /\ HasSlash(request.body) => request.body.path[1] \in DOMAIN providers
    BY <1>4, <2>1, CanonicalAgrees
  <2> QED
    BY <1>2, <2>1, <2>2 DEF Splits
<1>5. CASE provider \notin DOMAIN providers \cup {""}
  <2>1. Refuse("unresolved_model")
    BY <1>2, <1>5
  <2> QED
    BY <1>1, <1>4, <1>5, <2>1, Refused
<1>6. CASE Refuse("responses_unsupported")
  BY <1>1, <1>6, Refused
<1>7. CASE Refuse("hosted_tool_unsupported")
  BY <1>1, <1>7, Refused
<1>8. CASE SendTo(s)
  <2>1. q = [request EXCEPT !.stage = "sent", !.converted = (s.mode = "chat_polyfill"),
                            !.dest = [provider |-> s.provider, upstream |-> s.upstream]]
    BY <1>8 DEF SendTo
  <2>2. /\ RequestFields(q) /\ q.stage = "sent" /\ q.via = request.via /\ q.target = request.target
        /\ q.name = request.name /\ q.tools = request.tools /\ q.body = request.body
        /\ q.selected = request.selected /\ q.observed = request.observed /\ q.path = request.path
        /\ q.token = request.token /\ q.error = request.error
        /\ (q.converted <=> s.mode = "chat_polyfill")
        /\ q.dest = [provider |-> s.provider, upstream |-> s.upstream]
    BY <1>1, <2>1 DEF RequestFields
  <2>3. IsPassthrough(s) => s.provider = "openai"
    BY <1>3, AnswerFacts
  <2> HIDE DEF q, s
  <2>4. FreshInv(q)
    <3>1. FreshInv(request)
      BY DEF RouteInv
    <3> QED
      BY <1>1, <2>2, <3>1 DEF FreshInv
  <2>5. AuthorizedInv(q)
    BY <2>2 DEF AuthorizedInv
  <2>6. SentInv(q)
    <3>1. q.token => q.dest.provider = "openai"
      <4>1. q.dest.provider = s.provider
        BY <2>2
      <4> QED
        BY <1>3, <2>2, <2>3, <4>1
    <3>2. q.tools = "hosted" /\ fallback # NoName /\ FallbackRoutes => ~q.converted
      BY <1>3, <2>2 DEF RunsNatively
    <3> QED
      BY <3>1, <3>2 DEF SentInv
  <2>7. SelectionInv(q)
    BY <1>1, <2>2 DEF SelectionInv
  <2>8. ServedAs(q, s)
    BY <1>3, <2>2 DEF ServedAs
  <2>9. PluginInv(q)
    BY <1>3, <2>2, <2>8 DEF PluginInv
  <2>10. ASSUME Known(q), q.via = "gateway", q.target # Unresolved, Canonical(q.target)
         PROVE  ServedAs(q, q.target)
    <3>1. Known(request)
      BY <2>2, <2>10 DEF Known
    <3>2. Agrees(q.target, s) /\ ~IsPassthrough(q.target)
      BY <1>4, <2>2, <2>10, <3>1
    <3>3. /\ s.provider = q.target.provider /\ s.upstream = q.target.upstream
          /\ s.mode = q.target.mode
      BY <3>2 DEF Agrees
    <3>4. IsPassthrough(s) <=> IsPassthrough(q.target)
      BY <1>3, <2>10, <3>3 DEF IsPassthrough
    <3>5. q.token <=> IsPassthrough(q.target)
      BY <2>8, <3>4 DEF ServedAs
    <3> QED
      BY <2>8, <3>3, <3>5 DEF ServedAs
  <2>11. GatewayInv(q)
    BY <1>1, <2>2, <2>10 DEF GatewayInv, Known
  <2> QED
    BY <1>1, <2>2, <2>4, <2>5, <2>6, <2>7, <2>9, <2>11 DEF RouteInv, q
<1> QED
  BY <1>2, <1>3, <1>5, <1>6, <1>7, <1>8

-----------------------------------------------------------------------------
(* What the client asked for stays with a request: where nothing is to be   *)
(* replaced, the gateway's target is what the name leads to, and a model   *)
(* that was picked is asked by the name it was listed under.               *)
NamedInv(q) ==
    q.via = "gateway" /\ q.target # Unresolved /\ q.tools = "portable" /\ q.name \notin AutoNames =>
        q.target = Answer(q.name)

PickedInv(q) ==
    q.picked # NoListing =>
        /\ q.via = "gateway" /\ q.name = q.picked.name
        /\ PublishedEntriesRoute /\ PlainOffers => Presented(q.picked)

ShownInv ==
    /\ shown \in Seq(Shown)
    /\ phase = "accepted" /\ PublishedEntriesRoute /\ PlainOffers =>
          \A i \in DOMAIN shown : Presented(shown[i])

Progress ==
    \/ GatewayRoutes \/ RefuseRoute \/ BifrostUnreachable
    \/ PluginAuthorizes \/ PassThrough \/ PluginDispatches \/ Respond

LEMMA ProgressKeeps ==
    ASSUME Typed(request), Progress
    PROVE  /\ request'.via = request.via /\ request'.name = request.name
           /\ request'.picked = request.picked /\ request'.tools = request.tools
           /\ UNCHANGED shown
<1> USE DEF Typed, RequestFields
<1>1. CASE GatewayRoutes
  BY <1>1 DEF GatewayRoutes, Refuse
<1>2. CASE RefuseRoute \/ BifrostUnreachable
  BY <1>2 DEF RefuseRoute, BifrostUnreachable, Refuse
<1>3. CASE PluginAuthorizes
  BY <1>3 DEF PluginAuthorizes, Authorized, Refuse
<1>4. CASE PassThrough \/ Respond
  BY <1>4 DEF PassThrough, Respond
<1>5. CASE PluginDispatches
  BY <1>5 DEF PluginDispatches, SendTo, Refuse
<1> QED
  BY <1>1, <1>2, <1>3, <1>4, <1>5 DEF Progress

LEMMA ProgressTarget ==
    ASSUME Typed(request), Progress, request.via = "gateway"
    PROVE  \/ request'.target = request.target
           \/ \E routed \in Rewritten(request.name, request.tools) :
                 request'.target = Answer(AfterFallback(routed, request.tools))
<1> USE DEF Typed, RequestFields
<1>1. CASE GatewayRoutes
  <2>1. PICK routed \in Rewritten(request.name, request.tools) :
            LET r == Answer(AfterFallback(routed, request.tools))
            IN  IF r = Unresolved THEN Refuse("unresolved_model")
                ELSE request' = [request EXCEPT !.stage = "plugin", !.target = r, !.body = SentName(r),
                                    !.path = IF IsPassthrough(r) THEN "chatgpt" ELSE "responses",
                                    !.selected = Selected(request.name, routed),
                                    !.observed = r.slug]
    BY <1>1 DEF GatewayRoutes
  <2> QED
    BY <2>1 DEF Refuse
<1>2. CASE RefuseRoute \/ BifrostUnreachable
  BY <1>2 DEF RefuseRoute, BifrostUnreachable, Refuse
<1>3. CASE PluginAuthorizes
  BY <1>3 DEF PluginAuthorizes, Authorized, Refuse
<1>4. CASE PassThrough \/ Respond
  BY <1>4 DEF PassThrough, Respond
<1>5. CASE PluginDispatches
  BY <1>5 DEF PluginDispatches, SendTo, Refuse
<1> QED
  BY <1>1, <1>2, <1>3, <1>4, <1>5 DEF Progress

LEMMA NamedStep ==
    ASSUME Typed(request), NamedInv(request), PickedInv(request), Progress
    PROVE  NamedInv(request') /\ PickedInv(request')
<1>1. /\ request'.via = request.via /\ request'.name = request.name
      /\ request'.picked = request.picked /\ request'.tools = request.tools
  BY ProgressKeeps
<1>2. PickedInv(request')
  BY <1>1 DEF PickedInv
<1>3. ASSUME request.via = "gateway", request.tools = "portable", request.name \notin AutoNames,
             request'.target # Unresolved
      PROVE  request'.target = Answer(request.name)
  <2>1. CASE request'.target = request.target
    BY <1>3, <2>1 DEF NamedInv
  <2>2. CASE \E routed \in Rewritten(request.name, request.tools) :
                request'.target = Answer(AfterFallback(routed, request.tools))
    BY <1>3, <2>2 DEF Rewritten, AfterFallback
  <2> QED
    BY <1>3, <2>1, <2>2, ProgressTarget
<1>4. NamedInv(request')
  BY <1>1, <1>3 DEF NamedInv
<1> QED
  BY <1>2, <1>4

LEMMA OfferedLists ==
    ASSUME NEW list \in DirectLists \cup Offers
    PROVE  list \in Seq(Shown)
<1>1. list \in Seq(Listing) /\ \A i \in DOMAIN list : Said(list[i].name)
  BY DispatchConstants
<1>2. list = [i \in 1 .. Len(list) |-> list[i]] /\ Len(list) \in Nat /\ DOMAIN list = 1 .. Len(list)
  BY <1>1
<1>3. \A i \in DOMAIN list : list[i] \in Listing
  BY <1>1
<1>4. list \in [1 .. Len(list) -> Shown]
  BY <1>1, <1>2, <1>3 DEF Shown
<1> QED
  BY <1>2, <1>4, FunctionIsSeq

LEMMA FetchModelsShows ==
    ASSUME ValidationInv, phase = "accepted", FetchModels
    PROVE  /\ shown' \in Seq(Shown)
           /\ PublishedEntriesRoute /\ PlainOffers => shown' \in Seq(Ready)
<1>1. PICK offered \in Offers :
          \/ shown' = ServedWithoutDirect(offered)
          \/ shown' = ServedUnversioned(offered)
          \/ \E direct \in DirectLists : shown' = ServedWithDirect(direct, offered)
  BY DEF FetchModels
<1>2. PICK direct \in DirectLists \cup {<<>>} :
          \/ shown' = ServedWithoutDirect(offered)
          \/ shown' = ServedUnversioned(offered)
          \/ shown' = ServedWithDirect(direct, offered)
  BY <1>1
<1>3. offered \in Seq(Shown) /\ direct \in Seq(Shown)
  <2>1. offered \in Seq(Shown)
    BY OfferedLists
  <2>2. CASE direct \in DirectLists
    BY <2>1, <2>2, OfferedLists
  <2>3. CASE direct = <<>>
    BY <2>1, <2>3
  <2> QED
    BY <2>2, <2>3
<1>4. shown' \in Seq(Shown)
  BY <1>2, <1>3, ServedType
<1>5. ASSUME PublishedEntriesRoute, PlainOffers
      PROVE  shown' \in Seq(Ready)
  BY <1>2, <1>3, <1>5, ServedReady
<1> QED
  BY <1>4, <1>5

LEMMA PickKeepsListing ==
    ASSUME ShownInv, phase = "accepted", Pick
    PROVE  NamedInv(request') /\ PickedInv(request')
<1>1. PICK i \in DOMAIN shown, tools \in {"portable", "hosted"} :
          request' = [Idle EXCEPT !.stage = "gateway", !.name = shown[i].name, !.picked = shown[i],
                                  !.tools = tools, !.bearer = TRUE, !.virtualKey = TRUE]
  BY DEF Pick
<1>2. /\ request'.via = "gateway" /\ request'.name = shown[i].name /\ request'.picked = shown[i]
      /\ request'.target = Unresolved
  BY <1>1 DEF Idle
<1> QED
  BY <1>2 DEF ShownInv, NamedInv, PickedInv

LEMMA AskPicksNothing ==
    ASSUME Ask
    PROVE  NamedInv(request') /\ PickedInv(request')
<1>1. request'.picked = NoListing /\ request'.target = Unresolved
  BY DEF Ask, Idle
<1> QED
  BY <1>1 DEF NamedInv, PickedInv

-----------------------------------------------------------------------------
(* While a configuration is being validated nothing is under way; a        *)
(* configuration that has been accepted stays as it is.                    *)
RequestInv(q) == Typed(q) /\ RouteInv(q) /\ NamedInv(q) /\ PickedInv(q)

DispatchInv ==
    /\ ValidationInv
    /\ phase # "accepted" => request = Idle /\ shown = <<>>
    /\ RequestInv(request)
    /\ ShownInv

LEMMA IdleInv == RequestInv(Idle)
<1>1. NamedInv(Idle) /\ PickedInv(Idle)
  BY DEF NamedInv, PickedInv, Idle
<1> QED
  BY <1>1, IdleIsTyped, IdleRoute DEF RequestInv

LEMMA InitDispatch == DispatchInit => DispatchInv
BY InitValidation, IdleInv DEF DispatchInit, DispatchInv, ShownInv

LEMMA IdleStays == RequestInv(Idle)'
<1>1. Typed(Idle)'
  <2>1. NoName \in Name /\ <<>> \in Seq(Suffix)
    BY NoNameIsName
  <2>2. NoListing \in Listing
    BY <2>1 DEF NoListing, Listing
  <2>3. Nowhere \in [provider : DOMAIN providers' \cup {"", "openai"}, upstream : Name]
    BY <2>1 DEF Nowhere
  <2> QED
    BY <2>1, <2>2, <2>3 DEF Typed, Idle, RequestFields, Tools
<1>2. RouteInv(Idle)'
  BY DEF RouteInv, Idle, RequestFields, FreshInv, AuthorizedInv, SentInv, SelectionInv, PluginInv, GatewayInv, IsUnderway
<1>3. NamedInv(Idle)' /\ PickedInv(Idle)'
  BY DEF NamedInv, PickedInv, Idle
<1> QED
  BY <1>1, <1>2, <1>3 DEF RequestInv

LEMMA AcceptedIsFinal ==
    ASSUME phase = "accepted", ConfigNext
    PROVE  FALSE
BY DEF ConfigNext, Start, CompleteProvider, StartModels, CompleteModel, Index, SettleFallback, CheckRoutes

(* What is known of names and lists depends on the configuration alone.    *)
LEMMA CatalogFrozen ==
    ASSUME UNCHANGED validationVars
    PROVE  /\ PublishedEntriesRoute' <=> PublishedEntriesRoute
           /\ PlainOffers' <=> PlainOffers
           /\ \A l : Presented(l)' <=> Presented(l)
           /\ \A n : Answer(n)' = Answer(n)
<1> USE DEF validationVars, Answer
<1>1. PublishedEntriesRoute' <=> PublishedEntriesRoute
  BY DEF PublishedEntriesRoute
<1>2. PlainOffers' <=> PlainOffers
  BY DEF PlainOffers, PlainListing
<1>3. \A l : Presented(l)' <=> Presented(l)
  BY DEF Presented
<1> QED
  BY <1>1, <1>2, <1>3

LEMMA RequestFrozen ==
    ASSUME UNCHANGED validationVars, RequestInv(request')
    PROVE  RequestInv(request)'
<1>1. Typed(request)'
  BY DEF validationVars, RequestInv, Typed, RequestFields
<1>2. RouteInv(request)'
  BY RouteFrozen DEF RequestInv
<1>3. NamedInv(request)'
  BY CatalogFrozen DEF RequestInv, NamedInv
<1>4. PickedInv(request)'
  BY CatalogFrozen DEF RequestInv, PickedInv
<1> QED
  BY <1>1, <1>2, <1>3, <1>4 DEF RequestInv

LEMMA RespondStep ==
    ASSUME RouteInv(request), Respond
    PROVE  RouteInv(request')
<1>1. RequestFields(request) /\ request.stage = "sent" /\ request' = [request EXCEPT !.stage = "answered"]
  BY DEF Respond, RouteInv
<1>2. /\ RequestFields(request') /\ request'.stage = "answered" /\ request'.via = request.via
      /\ request'.name = request.name /\ request'.tools = request.tools
      /\ request'.selected = request.selected /\ request'.target = request.target
      /\ request'.path = request.path /\ request'.token = request.token
      /\ request'.observed = request.observed /\ request'.dest = request.dest
      /\ request'.converted = request.converted /\ request'.error = request.error
  BY <1>1 DEF RequestFields
<1>3. FreshInv(request') /\ AuthorizedInv(request')
  BY <1>1, <1>2 DEF RouteInv, FreshInv, AuthorizedInv
<1>4. SentInv(request') /\ SelectionInv(request')
  BY <1>1, <1>2 DEF RouteInv, SentInv, SelectionInv, IsUnderway
<1>5. \A r : ServedAs(request', r) <=> ServedAs(request, r)
  BY <1>2 DEF ServedAs
<1>6. PluginInv(request')
  BY <1>1, <1>2, <1>5 DEF RouteInv, PluginInv, IsUnderway
<1>7. GatewayInv(request')
  BY <1>1, <1>2, <1>5 DEF RouteInv, GatewayInv, Known, IsUnderway
<1> QED
  BY <1>2, <1>3, <1>4, <1>6, <1>7 DEF RouteInv

LEMMA ProgressStep ==
    ASSUME ValidationInv, phase = "accepted", RequestInv(request), Progress
    PROVE  RequestInv(request')
<1>1. Typed(request) /\ RouteInv(request)
  BY DEF RequestInv
<1>2. NamedInv(request') /\ PickedInv(request')
  BY NamedStep DEF RequestInv
<1>3. CASE GatewayRoutes
  BY <1>1, <1>2, <1>3, GatewayRoutesStep, GatewayRoutesIsTyped DEF RequestInv
<1>4. CASE RefuseRoute
  BY <1>1, <1>2, <1>4, Refused, RefusedIsTyped DEF RefuseRoute, RequestInv, Refusals
<1>5. CASE BifrostUnreachable
  BY <1>1, <1>2, <1>5, Refused, RefusedIsTyped DEF BifrostUnreachable, RequestInv, Refusals
<1>6. CASE PluginAuthorizes
  BY <1>1, <1>2, <1>6, PluginAuthorizesStep, PluginAuthorizesIsTyped DEF RequestInv
<1>7. CASE PassThrough
  BY <1>1, <1>2, <1>7, PassThroughStep, PassThroughIsTyped DEF RequestInv
<1>8. CASE PluginDispatches
  BY <1>1, <1>2, <1>8, PluginDispatchesStep, PluginDispatchesIsTyped DEF RequestInv
<1>9. CASE Respond
  <2>1. Typed(request')
    BY <1>1, <1>9 DEF Respond, Typed, RequestFields
  <2> QED
    BY <1>1, <1>2, <1>9, <2>1, RespondStep DEF RequestInv
<1> QED
  BY <1>3, <1>4, <1>5, <1>6, <1>7, <1>8, <1>9 DEF Progress

LEMMA ServeStep ==
    ASSUME ValidationInv, RequestInv(request), ShownInv, Serve
    PROVE  /\ RequestInv(request') /\ shown' \in Seq(Shown)
           /\ PublishedEntriesRoute /\ PlainOffers => \A i \in DOMAIN shown' : Presented(shown'[i])
<1>1. phase = "accepted"
  BY DEF Serve
<1>2. CASE FetchModels
  <2>1. request' = request
    BY <1>2 DEF FetchModels
  <2>2. ASSUME shown' \in Seq(Ready)
        PROVE  \A i \in DOMAIN shown' : Presented(shown'[i])
    <3>1. \A i \in DOMAIN shown' : shown'[i] \in Ready
      BY <2>2
    <3> QED
      BY <3>1 DEF Ready
  <2> QED
    BY <1>1, <1>2, <2>1, <2>2, FetchModelsShows
<1>3. CASE Pick
  <2>1. shown' = <<>>
    BY <1>3 DEF Pick
  <2>2. RequestInv(request')
    BY <1>1, <1>3, NewRequest, PickIsTyped, PickKeepsListing DEF RequestInv, ShownInv
  <2> QED
    BY <2>1, <2>2
<1>4. CASE Ask
  <2>1. shown' = shown
    BY <1>4 DEF Ask
  <2>2. RequestInv(request')
    BY <1>4, NewRequest, AskIsTyped, AskPicksNothing DEF RequestInv
  <2> QED
    BY <1>1, <2>1, <2>2 DEF ShownInv
<1>5. CASE Progress
  <2>1. RequestInv(request')
    BY <1>1, <1>5, ProgressStep
  <2>2. shown' = shown
    BY <1>5, ProgressKeeps DEF RequestInv
  <2> QED
    BY <1>1, <2>1, <2>2 DEF ShownInv
<1>6. CASE Leave
  BY <1>1, <1>6, IdleInv DEF Leave, ShownInv
<1> QED
  BY <1>2, <1>3, <1>4, <1>5, <1>6 DEF Serve, Progress

LEMMA DispatchStep == DispatchInv /\ [DispatchNext]_dispatchVars => DispatchInv'
<1> SUFFICES ASSUME DispatchInv, [DispatchNext]_dispatchVars
             PROVE  DispatchInv'
  OBVIOUS
<1> USE DEF DispatchInv
<1>1. CASE Validate
  <2>1. phase # "accepted"
    BY <1>1, AcceptedIsFinal DEF Validate
  <2>2. ValidationInv'
    BY <1>1, ValidationStep DEF Validate
  <2>3. request' = Idle /\ (request = Idle)' /\ shown' = <<>>
    BY <1>1, <2>1 DEF Validate, Idle
  <2>4. RequestInv(request)'
    BY <2>3, IdleStays
  <2>5. ShownInv'
    BY <2>3 DEF ShownInv
  <2> QED
    BY <2>2, <2>3, <2>4, <2>5
<1>2. CASE Serve
  <2>1. UNCHANGED validationVars /\ phase = "accepted" /\ phase' = "accepted"
    BY <1>2 DEF Serve, validationVars
  <2>2. ValidationInv'
    BY <2>1, ValidationStep
  <2>3. RequestInv(request)'
    BY <1>2, <2>1, ServeStep, RequestFrozen
  <2>4. ShownInv'
    <3>1. /\ shown' \in Seq(Shown)
          /\ PublishedEntriesRoute /\ PlainOffers => \A i \in DOMAIN shown' : Presented(shown'[i])
      BY <1>2, ServeStep
    <3> QED
      BY <2>1, <3>1, CatalogFrozen DEF ShownInv
  <2> QED
    BY <2>1, <2>2, <2>3, <2>4
<1>3. CASE UNCHANGED dispatchVars
  <2>1. UNCHANGED validationVars /\ UNCHANGED <<request, shown>> /\ phase' = phase
    BY <1>3 DEF dispatchVars, validationVars
  <2>2. ValidationInv'
    BY <2>1, ValidationStep
  <2>3. RequestInv(request)'
    BY <2>1, RequestFrozen
  <2>4. (phase # "accepted" => request = Idle /\ shown = <<>>)'
    BY <2>1 DEF Idle
  <2>5. ShownInv'
    BY <2>1, CatalogFrozen DEF ShownInv
  <2> QED
    BY <2>2, <2>3, <2>4, <2>5
<1> QED
  BY <1>1, <1>2, <1>3 DEF DispatchNext

(* The invariant from which everything below follows: where a request can  *)
(* be, with which name in its body, what has been decided about it, and    *)
(* what a client that is shown a list can read in it.                      *)
THEOREM DispatchInvariant == DispatchSpec => []DispatchInv
BY InitDispatch, DispatchStep, PTL DEF DispatchSpec

-----------------------------------------------------------------------------
(* The caller's token is used for OpenAI only: credentials.Decide in the    *)
(* plugin and the path that the gateway chose never disagree on it,        *)
(* whatever the configuration calls its models.                            *)
THEOREM TokenForOpenAI == DispatchSpec => []TokenReachesOpenAIOnly
<1>1. DispatchInv => TokenReachesOpenAIOnly
  BY DEF DispatchInv, RequestInv, RouteInv, SentInv, IsUnderway, TokenReachesOpenAIOnly, Underway
<1> QED
  BY <1>1, DispatchInvariant, PTL

(* Hosted tools are never converted to chat completions, whichever process *)
(* applied ApplyHostedToolFallback and to whichever name.                  *)
THEOREM HostedToolsNative == DispatchSpec => []HostedToolsRunNatively
<1>1. DispatchInv => HostedToolsRunNatively
  BY DEF DispatchInv, RequestInv, RouteInv, SentInv, IsUnderway, HostedToolsRunNatively, Underway
<1> QED
  BY <1>1, DispatchInvariant, PTL

(* The model that Engine.Rewrite selects is the one whose health the       *)
(* answer counts for, and the one that answers.                            *)
THEOREM SelectionObserved == DispatchSpec => []SelectedModelIsObserved
<1>1. ASSUME DispatchInv, Underway, request.selected # NoName
      PROVE  /\ request.observed = request.selected
             /\ request.target.slug = request.selected
             /\ Canonical(request.target) =>
                   request.dest = [provider |-> request.target.provider, upstream |-> request.target.upstream]
  <2>1. /\ FreshInv(request) /\ SelectionInv(request) /\ PluginInv(request) /\ GatewayInv(request)
        /\ IsUnderway(request)
    BY <1>1 DEF DispatchInv, RequestInv, RouteInv, IsUnderway, Underway
  <2>2. PICK k \in DOMAIN models :
           request.selected = models[k].slug /\ request.target = Resolved(providers, models, <<k, 0>>)
    BY <1>1, <2>1 DEF SelectionInv, Underway
  <2>3. request.target.slug = request.selected /\ request.target # Unresolved
    <3>1. request.target.slug = request.selected
      BY <2>2 DEF Resolved, PublishedSlug
    <3>2. request.target # Unresolved
      BY <2>2, ResolvedIsResolved
    <3> QED
      BY <3>1, <3>2
  <2>4. request.observed = request.selected
    BY <1>1, <2>1 DEF SelectionInv, Underway
  <2>5. Canonical(request.target) => ServedAs(request, request.target)
    BY <1>1, <2>1, <2>3 DEF FreshInv, GatewayInv, PluginInv, Known
  <2> QED
    BY <2>3, <2>4, <2>5 DEF ServedAs
<1>2. DispatchInv => SelectedModelIsObserved
  BY <1>1 DEF SelectedModelIsObserved
<1> QED
  BY <1>2, DispatchInvariant, PTL

(* Gateway and plugin agree on what a request is for, whatever name it     *)
(* asks: three resolutions in two processes, with a name rewritten, split  *)
(* and joined again in between.                                            *)
THEOREM ServedAsResolvedCorrect == DispatchSpec => []ServedAsResolved
<1>1. ASSUME DispatchInv
      PROVE  ServedAsResolved
  <2> DEFINE r == request.target
  <2>1. FreshInv(request) /\ PluginInv(request) /\ GatewayInv(request)
    BY <1>1 DEF DispatchInv, RequestInv, RouteInv
  <2>2. FallbackRoutes => Known(request)
    BY <1>1 DEF Known
  <2>3. ASSUME Underway, request.via = "plugin" \/ (Canonical(r) /\ FallbackRoutes)
        PROVE  ServedAs(request, r)
    <3>1. IsUnderway(request) /\ request.target # Unresolved
      BY <2>1, <2>3 DEF Underway, IsUnderway, FreshInv
    <3> QED
      BY <2>1, <2>2, <2>3, <3>1 DEF FreshInv, PluginInv, GatewayInv
  <2>4. ASSUME request.error = "unresolved_model", request.via = "gateway", r # Unresolved,
               Canonical(r), FallbackRoutes
        PROVE  FALSE
    BY <2>1, <2>2, <2>4 DEF GatewayInv
  <2> QED
    BY <2>3, <2>4 DEF ServedAsResolved, ServedAs
<1> QED
  BY <1>1, DispatchInvariant, PTL

(* Every field of a request has its type at every stage, whatever is asked  *)
(* and whatever lists are served; everything a client is shown has a name. *)
THEOREM DispatchTypeCorrect == DispatchSpec => []DispatchTypeOK
<1>1. ASSUME DispatchInv
      PROVE  DispatchTypeOK
  <2>1. ConfigTypeOK
    BY <1>1 DEF DispatchInv, ValidationInv
  <2>2. shown \in Seq(Listing) /\ \A i \in DOMAIN shown : Said(shown[i].name)
    BY <1>1 DEF DispatchInv, ShownInv, Shown
  <2>3. request \in RequestType
    BY <1>1, TypedIsTyped DEF DispatchInv, RequestInv
  <2>4. request.target = Unresolved \/ request.target.provider \in DOMAIN providers
    BY <1>1 DEF DispatchInv, RequestInv, Typed
  <2>5. request.stage \in {"split", "sent", "answered"} => request.target # Unresolved
    BY <1>1 DEF DispatchInv, RequestInv, RouteInv, FreshInv
  <2> QED
    BY <1>1, <2>1, <2>2, <2>3, <2>4, <2>5 DEF DispatchTypeOK, DispatchInv
<1> QED
  BY <1>1, DispatchInvariant, PTL

LEMMA JoinedLabels ==
    ASSUME NEW h
    PROVE  /\ <<>> \o <<>> = <<>> /\ <<>> \o <<h>> = <<h>>
           /\ <<"window">> \o <<>> = <<"window">> /\ <<"window">> \o <<h>> = <<"window", h>>
           /\ <<h>> \o <<"window", h>> = <<h, "window", h>>
<1> DEFINE S == {h, "window"}
<1>1. /\ <<>> \in Seq(S) /\ <<h>> \in Seq(S) /\ <<"window">> \in Seq(S)
      /\ <<"window", h>> \in Seq(S) /\ <<h, "window", h>> \in Seq(S)
  OBVIOUS
<1>2. <<>> \o <<>> = <<>> /\ <<>> \o <<h>> = <<h>> /\ <<"window">> \o <<>> = <<"window">>
  BY <1>1, ConcatEmptySeq
<1>3. <<"window">> \o <<h>> = <<"window", h>>
  <2> DEFINE s == <<"window">> \o <<h>>
  <2>1. s \in Seq(S) /\ Len(s) = 2 /\ s[1] = "window" /\ s[2] = h
    BY <1>1, ConcatProperties
  <2> HIDE DEF s
  <2>2. \A i \in 1 .. Len(s) : s[i] = <<"window", h>>[i]
    BY <2>1
  <2>3. s = <<"window", h>>
    BY <1>1, <2>1, <2>2, SeqEqual
  <2> QED
    BY <2>3 DEF s
<1>4. <<h>> \o <<"window", h>> = <<h, "window", h>>
  <2> DEFINE s == <<h>> \o <<"window", h>>
  <2>1. s \in Seq(S) /\ Len(s) = 3 /\ s[1] = h /\ s[2] = "window" /\ s[3] = h
    BY <1>1, ConcatProperties
  <2> HIDE DEF s
  <2>2. \A i \in 1 .. Len(s) : s[i] = <<h, "window", h>>[i]
    BY <2>1
  <2>3. s = <<h, "window", h>>
    BY <1>1, <2>1, <2>2, SeqEqual
  <2> QED
    BY <2>3 DEF s
<1> QED
  BY <1>2, <1>3, <1>4

(* The label that a picked model carries names the host that serves it,    *)
(* and a variant was listed with its own window: from what a provider      *)
(* offers, through hydration in the plugin, decoration in both processes,  *)
(* the merge of the two lists, and three resolutions of the name.  The     *)
(* hypothesis is about providers: none offers a context variant of the     *)
(* router's, or labels its models with anything but itself.                *)
THEOREM ListedAsServedCorrect == DispatchSpec => [](PlainOffers => ListedAsServed)
<1>1. ASSUME DispatchInv, PlainOffers, PublishedEntriesRoute,
             Underway, request.picked # NoListing, request.tools = "portable",
             request.name \notin AutoNames, Canonical(request.target)
      PROVE  LET r == request.target
                 expected == ExpectedLabel(r, request.dest.provider)
                 label == request.picked.label
             IN  /\ \/ label = expected
                    \/ r.window # 0 /\ label = <<request.dest.provider>> \o expected
                 /\ r.window # 0 => request.picked.window = r.window
  <2> DEFINE r == request.target
             host == r.provider
             label == request.picked.label
  <2>1. /\ FreshInv(request) /\ GatewayInv(request) /\ NamedInv(request) /\ PickedInv(request)
        /\ IsUnderway(request)
    BY <1>1 DEF DispatchInv, RequestInv, RouteInv, IsUnderway, Underway
  <2>2. /\ request.via = "gateway" /\ request.name = request.picked.name
        /\ Presented(request.picked)
    BY <1>1, <2>1 DEF PickedInv
  <2>3. r # Unresolved /\ r = Answer(request.picked.name)
    BY <1>1, <2>1, <2>2 DEF FreshInv, NamedInv, IsUnderway
  <2>4. request.dest.provider = host
    <3>1. ServedAs(request, r)
      BY <1>1, <2>1, <2>2, <2>3 DEF GatewayInv, Known
    <3> QED
      BY <3>1 DEF ServedAs
  <2>5. label \in LabelsAfter(r) /\ (r.window # 0 => request.picked.window = r.window)
    BY <1>1, <2>2, <2>3 DEF Presented
  <2> DEFINE expected == ExpectedLabel(r, host)
  <2>6. expected = (IF r.window # 0 THEN <<"window">> ELSE <<>>) \o (IF host = "openai" THEN <<>> ELSE <<host>>)
    BY DEF ExpectedLabel
  <2>7. LabelsAfter(r) =
          IF r.window = 0 THEN {IF host = "openai" THEN <<>> ELSE <<host>>}
          ELSE IF host = "openai" THEN {<<"window">>}
          ELSE {<<"window", host>>, <<host, "window", host>>}
    BY DEF LabelsAfter
  <2>8. label = expected \/ (r.window # 0 /\ label = <<host>> \o expected)
    <3> HIDE DEF expected, host, label
    <3>1. /\ <<>> \o <<>> = <<>> /\ <<>> \o <<host>> = <<host>>
          /\ <<"window">> \o <<>> = <<"window">> /\ <<"window">> \o <<host>> = <<"window", host>>
          /\ <<host>> \o <<"window", host>> = <<host, "window", host>>
      BY JoinedLabels
    <3>2. CASE r.window = 0
      BY <2>5, <2>6, <2>7, <3>1, <3>2 DEF label
    <3>3. CASE r.window # 0 /\ host = "openai"
      BY <2>5, <2>6, <2>7, <3>1, <3>3 DEF label
    <3>4. CASE r.window # 0 /\ host # "openai"
      <4>1. expected = <<"window", host>>
        BY <2>6, <3>1, <3>4
      <4>2. label = <<"window", host>> \/ label = <<host, "window", host>>
        BY <2>5, <2>7, <3>4 DEF label
      <4> QED
        BY <3>1, <3>4, <4>1, <4>2
    <3> QED
      BY <3>2, <3>3, <3>4
  <2> QED
    BY <2>4, <2>5, <2>8
<1>2. DispatchInv => (PlainOffers => ListedAsServed)
  BY <1>1 DEF ListedAsServed
<1> QED
  BY <1>2, DispatchInvariant, PTL

(* docs/configuration.md promises that upstream_model is what is sent.  It  *)
(* is, for every configured model whose slug is its provider and upstream  *)
(* model; the gateway sends those two as a name, which the plugin resolves *)
(* again.                                                                  *)
THEOREM UpstreamModelIsSentIfCanonical ==
    DispatchSpec => [](Canonical(request.target) => UpstreamModelIsSent)
<1>1. ASSUME DispatchInv, Canonical(request.target), request.target # Unresolved,
             request.via = "gateway", request.tools = "portable"
      PROVE  /\ request.error # "unresolved_model"
             /\ Underway => request.dest.upstream = request.target.upstream
  <2>1. GatewayInv(request) /\ Known(request)
    BY <1>1 DEF DispatchInv, RequestInv, RouteInv, Known
  <2>2. request.error # "unresolved_model"
    BY <1>1, <2>1 DEF GatewayInv
  <2>3. Underway => ServedAs(request, request.target)
    BY <1>1, <2>1 DEF GatewayInv, Underway, IsUnderway
  <2> QED
    BY <2>2, <2>3 DEF ServedAs
<1>2. DispatchInv => (Canonical(request.target) => UpstreamModelIsSent)
  BY <1>1 DEF UpstreamModelIsSent
<1> QED
  BY <1>2, DispatchInvariant, PTL
=============================================================================
