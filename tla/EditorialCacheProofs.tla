------------------------- MODULE EditorialCacheProofs -------------------------
(***************************************************************************)
(* Proofs about EditorialCache for every number of goroutines, all         *)
(* lifetimes and any catalogs.                                             *)
(***************************************************************************)
EXTENDS EditorialCache, FoldLemmas, TLAPS

-----------------------------------------------------------------------------
(* What the loop of refresh makes of a catalog.                            *)
Maps == UNION {[ids -> Metadata] : ids \in SUBSET ModelID}

NoIDs == [id \in {} |-> NotFound]

LEMMA MapType ==
    ASSUME NEW ids
    PROVE  ids \in Maps <=> /\ ids = [id \in DOMAIN ids |-> ids[id]]
                            /\ DOMAIN ids \subseteq ModelID
                            /\ \A id \in DOMAIN ids : ids[id] \in Metadata
BY DEF Maps

LEMMA NoIDsType == NoIDs \in Maps /\ DOMAIN NoIDs = {}
BY DEF Maps, NoIDs

LEMMA ListedType ==
    ASSUME NEW ids \in Maps, NEW entry \in CatalogEntry
    PROVE  Listed(ids, entry) \in Maps
<1>1. entry.id \in ModelID /\ MetadataOf(entry) \in Metadata
  BY DEF CatalogEntry, MetadataOf, Metadata
<1>2. With(ids, entry) \in Maps
  BY <1>1, MapType DEF With
<1> QED
  BY <1>2 DEF Listed

LEMMA IDsLoop ==
    ASSUME NEW catalog \in Seq(CatalogEntry)
    PROVE  \E g \in [0 .. Len(catalog) -> Maps] :
              /\ g[0] = NoIDs
              /\ \A n \in 1 .. Len(catalog) : g[n] = Listed(g[n - 1], catalog[n])
              /\ IDs(catalog) = g[Len(catalog)]
<1> DEFINE N == Len(catalog)
           step == [p \in (1 .. N) \X Maps |-> Listed(p[2], catalog[p[1]])]
           Folds(f) == f = [s \in SUBSET (1 .. N) |->
                              IF s = {} THEN NoIDs
                              ELSE Listed(f[s \ {Max(s)}], catalog[Max(s)])]
           c == CHOOSE f : Folds(f)
<1>1. N \in Nat /\ DOMAIN catalog = 1 .. N /\ NoIDs \in Maps
  BY NoIDsType
<1>2. \A n \in 1 .. N, ids \in Maps : Listed(ids, catalog[n]) \in Maps
  BY ListedType
<1>3. step \in Turns(N, Maps)
  <2>1. \A p \in (1 .. N) \X Maps : Listed(p[2], catalog[p[1]]) \in Maps
    BY <1>2
  <2> QED
    BY <2>1 DEF Turns
<1>4. \A n \in 1 .. N, ids \in Maps : step[<<n, ids>>] = Listed(ids, catalog[n])
  OBVIOUS
<1>5. IDs(catalog) = c[1 .. N]
  BY <1>1 DEF IDs, FoldLeft, MapThenFoldSet, NoIDs
<1> HIDE DEF N, step
<1>6. PICK f \in [SUBSET (1 .. N) -> Maps] : Loops(f, N, Maps, NoIDs, step)
  BY <1>1, <1>3, LoopExists
<1>7. Folds(f)
  <2>1. \A s \in SUBSET (1 .. N) : s # {} =>
           f[s] = Listed(f[s \ {Max(s)}], catalog[Max(s)])
    BY <1>1, <1>4, <1>6, LastOfSet DEF Loops
  <2> QED
    BY <1>6, <2>1 DEF Loops
<1>8. Folds(c)
  <2> HIDE DEF Folds
  <2> QED
    BY <1>7
<1> HIDE DEF c
<1>9. Loops(c, N, Maps, NoIDs, step)
  BY <1>1, <1>4, <1>8, LastOfSet DEF Loops
<1>10. PICK g \in [0 .. N -> Maps] : Passes(g, N, NoIDs, step) /\ g[N] = c[1 .. N]
  BY <1>1, <1>3, <1>9, LoopValues
<1>11. \A n \in 1 .. N : g[n] = Listed(g[n - 1], catalog[n])
  BY <1>4, <1>10 DEF Passes
<1> QED
  BY <1>5, <1>10, <1>11 DEF Passes, N

(* After n turns: the ids of the usable entries passed, each with the last *)
(* canonical one of them, or the first variant.                            *)
DescribesUpTo(ids, catalog, n) ==
    /\ \A id \in ModelID :
          id \in DOMAIN ids <=> \E i \in 1 .. n : i \in Listings(catalog, id)
    /\ \A id \in DOMAIN ids : \E i \in 1 .. n :
          /\ i \in Listings(catalog, id)
          /\ ids[id] = MetadataOf(catalog[i])
          /\ \/ /\ ~catalog[i].variant
                /\ \A j \in Canonical(catalog, id) : j <= n => j <= i
             \/ /\ catalog[i].variant
                /\ \A j \in Canonical(catalog, id) : j > n
                /\ \A j \in Listings(catalog, id) : i <= j

LEMMA EntryType ==
    ASSUME NEW catalog \in Seq(CatalogEntry), NEW i \in 1 .. Len(catalog)
    PROVE  /\ catalog[i] \in CatalogEntry
           /\ catalog[i].id \in ModelID
           /\ catalog[i].variant \in BOOLEAN
<1>1. catalog[i] \in CatalogEntry
  OBVIOUS
<1> QED
  BY <1>1 DEF CatalogEntry

LEMMA EntryFacts ==
    ASSUME NEW catalog \in Seq(CatalogEntry), NEW id \in ModelID, NEW i
    PROVE  /\ i \in Listings(catalog, id) <=>
                 i \in 1 .. Len(catalog) /\ Usable(catalog[i]) /\ catalog[i].id = id
           /\ i \in Canonical(catalog, id) <=>
                 i \in Listings(catalog, id) /\ ~catalog[i].variant
           /\ i \in 1 .. Len(catalog) =>
                 catalog[i] \in CatalogEntry /\ catalog[i].id \in ModelID
BY EntryType DEF Listings, Canonical

LEMMA DescribesNext ==
    ASSUME NEW catalog \in Seq(CatalogEntry), NEW n \in 1 .. Len(catalog),
           NEW ids \in Maps, DescribesUpTo(ids, catalog, n - 1)
    PROVE  DescribesUpTo(Listed(ids, catalog[n]), catalog, n)
<1> DEFINE entry == catalog[n]
           new == Listed(ids, entry)
<1> SUFFICES DescribesUpTo(new, catalog, n)
  OBVIOUS
<1>1. entry \in CatalogEntry /\ entry.id \in ModelID /\ entry.variant \in BOOLEAN
  BY EntryType
<1>2. \A id \in ModelID : n \in Listings(catalog, id) <=> Usable(entry) /\ entry.id = id
  BY EntryFacts
<1>3. \A i \in 1 .. n : i = n \/ i \in 1 .. n - 1
  OBVIOUS
<1>4. \A i \in 1 .. n - 1 : i \in 1 .. n
  OBVIOUS
<1>5. ids \in Maps /\ DOMAIN ids \subseteq ModelID
  BY MapType
<1>6. CASE ~Usable(entry)
  <2>1. new = ids
    BY <1>6 DEF Listed
  <2>2. \A id \in ModelID : n \notin Listings(catalog, id) /\ n \notin Canonical(catalog, id)
    BY <1>2, <1>6, EntryFacts
  <2>3. \A id \in ModelID : \A j \in Listings(catalog, id) : j \in Nat
    BY EntryFacts
  <2>4. \A id \in ModelID : \A j \in Canonical(catalog, id) : j \in Nat
    BY EntryFacts
  <2> QED
    BY <1>3, <1>4, <1>5, <2>1, <2>2, <2>4 DEF DescribesUpTo
<1>7. CASE Usable(entry) /\ entry.variant /\ entry.id \in DOMAIN ids
  <2>1. new = ids
    BY <1>7 DEF Listed
  <2>2. \A id \in ModelID : n \notin Canonical(catalog, id)
    BY <1>7, EntryFacts
  <2>3. \A id \in ModelID : \A j \in Canonical(catalog, id) : j \in Nat
    BY EntryFacts
  <2>4. \A id \in ModelID : n \in Listings(catalog, id) => id \in DOMAIN ids
    BY <1>2, <1>7
  <2> QED
    BY <1>3, <1>4, <1>5, <2>1, <2>2, <2>3, <2>4 DEF DescribesUpTo
<1>8. CASE Usable(entry) /\ ~ (entry.variant /\ entry.id \in DOMAIN ids)
  <2>1. new = With(ids, entry)
    BY <1>8 DEF Listed
  <2>2. /\ DOMAIN new = DOMAIN ids \cup {entry.id}
        /\ new[entry.id] = MetadataOf(entry)
        /\ \A id \in DOMAIN ids : id # entry.id => new[id] = ids[id]
    BY <2>1 DEF With
  <2>3. \A id \in ModelID : \A j \in Listings(catalog, id) : j \in Nat
    BY EntryFacts
  <2>4. \A id \in ModelID : \A j \in Canonical(catalog, id) :
           j \in Nat /\ j \in Listings(catalog, id)
    BY EntryFacts
  <2>5. ASSUME NEW id \in ModelID
        PROVE  id \in DOMAIN new <=> \E i \in 1 .. n : i \in Listings(catalog, id)
    <3>1. id \in DOMAIN ids <=> \E i \in 1 .. n - 1 : i \in Listings(catalog, id)
      BY DEF DescribesUpTo
    <3>2. n \in Listings(catalog, id) <=> entry.id = id
      BY <1>2, <1>8
    <3>3. n \in 1 .. n
      OBVIOUS
    <3> QED
      BY <1>3, <1>4, <2>2, <3>1, <3>2, <3>3
  <2>6. ASSUME NEW id \in DOMAIN new
        PROVE  \E i \in 1 .. n :
                  /\ i \in Listings(catalog, id)
                  /\ new[id] = MetadataOf(catalog[i])
                  /\ \/ /\ ~catalog[i].variant
                        /\ \A j \in Canonical(catalog, id) : j <= n => j <= i
                     \/ /\ catalog[i].variant
                        /\ \A j \in Canonical(catalog, id) : j > n
                        /\ \A j \in Listings(catalog, id) : i <= j
    <3>1. CASE id # entry.id
      <4>1. id \in DOMAIN ids /\ id \in ModelID /\ new[id] = ids[id]
        BY <1>5, <2>2, <3>1
      <4>2. n \notin Canonical(catalog, id)
        BY <1>2, <2>4, <3>1, <4>1
      <4> QED
        BY <1>4, <2>4, <4>1, <4>2 DEF DescribesUpTo
    <3>2. CASE id = entry.id
      <4>1. n \in Listings(catalog, id) /\ new[id] = MetadataOf(catalog[n]) /\ n \in 1 .. n
        BY <1>1, <1>2, <1>8, <2>2, <3>2
      <4>2. CASE ~entry.variant
        <5>1. \A j \in Canonical(catalog, id) : j <= n => j <= n
          OBVIOUS
        <5> QED
          BY <4>1, <4>2, <5>1
      <4>3. CASE entry.variant
        <5>1. id \notin DOMAIN ids /\ id \in ModelID
          BY <1>1, <1>8, <3>2, <4>3
        <5>2. \A j \in Listings(catalog, id) : j \notin 1 .. n - 1 /\ j \in 1 .. Len(catalog)
          BY <5>1, EntryFacts DEF DescribesUpTo
        <5>3. \A j \in Listings(catalog, id) : n <= j
          BY <5>2
        <5>4. n \notin Canonical(catalog, id)
          BY <4>3, <5>1, EntryFacts
        <5>5. \A j \in Canonical(catalog, id) : j > n
          BY <2>4, <5>1, <5>3, <5>4
        <5> QED
          BY <4>1, <4>3, <5>3, <5>5
      <4> QED
        BY <1>1, <4>2, <4>3
    <3> QED
      BY <3>1, <3>2
  <2> HIDE DEF new, entry
  <2> QED
    BY <2>5, <2>6 DEF DescribesUpTo
<1> QED
  BY <1>1, <1>6, <1>7, <1>8

LEMMA IDsDescribe ==
    ASSUME NEW catalog \in Seq(CatalogEntry)
    PROVE  IDs(catalog) \in Maps /\ DescribesUpTo(IDs(catalog), catalog, Len(catalog))
<1> DEFINE N == Len(catalog)
<1>1. PICK g \in [0 .. N -> Maps] :
         /\ g[0] = NoIDs
         /\ \A n \in 1 .. N : g[n] = Listed(g[n - 1], catalog[n])
         /\ IDs(catalog) = g[N]
  BY IDsLoop
<1> DEFINE done == {n \in 0 .. N : DescribesUpTo(g[n], catalog, n)}
<1>2. N \in Nat
  OBVIOUS
<1>3. 0 \in done
  BY <1>1, NoIDsType DEF DescribesUpTo
<1>4. ASSUME NEW n \in 0 .. N - 1, n \in done PROVE n + 1 \in done
  <2>1. n + 1 \in 1 .. N /\ (n + 1) - 1 = n /\ n + 1 \in 0 .. N /\ g[n] \in Maps
    BY <1>1
  <2>2. DescribesUpTo(g[n], catalog, (n + 1) - 1)
    BY <1>4, <2>1
  <2>3. DescribesUpTo(Listed(g[n], catalog[n + 1]), catalog, n + 1)
    BY <2>1, <2>2, DescribesNext
  <2>4. g[n + 1] = Listed(g[n], catalog[n + 1])
    BY <1>1, <2>1
  <2> QED
    BY <2>1, <2>3, <2>4
<1> HIDE DEF done
<1>5. 0 .. N \subseteq done
  BY <1>2, <1>3, <1>4, Induction
<1>6. N \in 0 .. N
  BY <1>2
<1> QED
  BY <1>1, <1>5, <1>6 DEF done

(* What a lookup finds is what the catalog says, without a loop.           *)
LEMMA FoundIsDescribed ==
    ASSUME NEW catalog \in Seq(CatalogEntry), NEW id \in ModelID
    PROVE  Found(IDs(catalog), Leaves(IDs(catalog)), id) = Described(catalog, id)
<1> DEFINE ids == IDs(catalog)
<1>1. ids \in Maps /\ DescribesUpTo(ids, catalog, Len(catalog)) /\ DOMAIN ids \subseteq ModelID
  BY IDsDescribe, MapType
<1> HIDE DEF ids
<1>2. \A any \in ModelID : any \in DOMAIN ids <=> Listings(catalog, any) # {}
  BY <1>1, EntryFacts DEF DescribesUpTo
<1>3. ASSUME NEW any \in DOMAIN ids
      PROVE  ids[any] = MetadataOf(catalog[Listing(catalog, any)])
  <2>1. PICK i \in 1 .. Len(catalog) :
           /\ i \in Listings(catalog, any)
           /\ ids[any] = MetadataOf(catalog[i])
           /\ \/ /\ ~catalog[i].variant
                 /\ \A j \in Canonical(catalog, any) : j <= Len(catalog) => j <= i
              \/ /\ catalog[i].variant
                 /\ \A j \in Canonical(catalog, any) : j > Len(catalog)
                 /\ \A j \in Listings(catalog, any) : i <= j
    BY <1>1, <1>3 DEF DescribesUpTo
  <2>2. any \in ModelID
    BY <1>1
  <2>3. \A j \in Listings(catalog, any) : j \in 1 .. Len(catalog)
    BY <2>2, EntryFacts
  <2>4. \A j \in Canonical(catalog, any) : j \in 1 .. Len(catalog)
    BY <2>2, EntryFacts
  <2>5. CASE ~catalog[i].variant
    <3>1. i \in Canonical(catalog, any) /\ \A j \in Canonical(catalog, any) : j <= i
      BY <2>1, <2>2, <2>4, <2>5, EntryFacts
    <3>2. \A k \in Canonical(catalog, any) :
             (\A j \in Canonical(catalog, any) : j <= k) => k = i
      BY <2>4, <3>1
    <3>3. Listing(catalog, any) = i
      BY <3>1, <3>2 DEF Listing
    <3> QED
      BY <2>1, <3>3
  <2>6. CASE catalog[i].variant
    <3>1. Canonical(catalog, any) = {}
      BY <2>1, <2>4, <2>6
    <3>2. \A k \in Listings(catalog, any) :
             (\A j \in Listings(catalog, any) : k <= j) => k = i
      BY <2>1, <2>3, <2>6
    <3>3. Listing(catalog, any) = i
      BY <2>1, <2>6, <3>1, <3>2 DEF Listing
    <3> QED
      BY <2>1, <3>3
  <2> QED
    BY <2>5, <2>6
<1>4. CASE id \in DOMAIN ids
  <2>1. Listings(catalog, id) # {} /\ Matches(catalog, id) = {id}
    BY <1>2, <1>4 DEF Matches
  <2>2. (CHOOSE match \in {id} : TRUE) = id
    OBVIOUS
  <2>3. Described(catalog, id) = MetadataOf(catalog[Listing(catalog, id)])
    BY <2>1, <2>2 DEF Described
  <2> QED
    BY <1>3, <1>4, <2>3 DEF Found, ids
<1>5. CASE id \notin DOMAIN ids /\ id.creator # ""
  <2>1. Listings(catalog, id) = {} /\ Matches(catalog, id) = {id}
    BY <1>2, <1>5 DEF Matches
  <2>2. Described(catalog, id) = NotFound
    BY <2>1 DEF Described
  <2> QED
    BY <1>5, <2>2 DEF Found, ids
<1>6. CASE id \notin DOMAIN ids /\ id.creator = ""
  <2> DEFINE same == {any \in DOMAIN ids : any.leaf = id.leaf}
             alone == {any \in DOMAIN ids :
                          \A other \in DOMAIN ids : other.leaf = any.leaf => other = any}
  <2>1. Matches(catalog, id) = same
    <3>1. Matches(catalog, id) =
             {catalog[i].id : i \in {j \in DOMAIN catalog :
                                        Usable(catalog[j]) /\ catalog[j].id.leaf = id.leaf}}
      BY <1>2, <1>6 DEF Matches
    <3>2. \A i \in DOMAIN catalog :
             Usable(catalog[i]) => catalog[i].id \in DOMAIN ids
      <4> TAKE i \in DOMAIN catalog
      <4> HAVE Usable(catalog[i])
      <4>1. catalog[i].id \in ModelID /\ i \in Listings(catalog, catalog[i].id)
        BY EntryFacts
      <4> QED
        BY <1>2, <4>1
    <3>3. ASSUME NEW any \in same
          PROVE  \E i \in DOMAIN catalog : Usable(catalog[i]) /\ catalog[i].id = any
      <4>1. any \in ModelID /\ Listings(catalog, any) # {}
        BY <1>1, <1>2
      <4> QED
        BY <4>1 DEF Listings
    <3> QED
      BY <3>1, <3>2, <3>3
  <2>2. Leaves(ids) = [leaf \in {any.leaf : any \in alone} |->
                          ids[CHOOSE any \in alone : any.leaf = leaf]]
    BY DEF Leaves
  <2>3. DOMAIN Leaves(ids) = {any.leaf : any \in alone}
    BY <2>2
  <2>4. \A any \in alone : any.leaf = id.leaf => same = {any}
    OBVIOUS
  <2>5. \A any : same = {any} => any \in alone /\ any.leaf = id.leaf
    <3> TAKE any
    <3> HAVE same = {any}
    <3>1. any \in DOMAIN ids /\ any.leaf = id.leaf
      OBVIOUS
    <3>2. \A other \in DOMAIN ids : other.leaf = any.leaf => other \in same
      BY <3>1
    <3> QED
      BY <3>1, <3>2
  <2>6. \A match \in same : Listings(catalog, match) # {}
    BY <1>1, <1>2
  <2>7. CASE id.leaf \in DOMAIN Leaves(ids)
    <3>1. PICK any \in alone : any.leaf = id.leaf
      BY <2>3, <2>7
    <3>2. same = {any} /\ any \in same /\ any \in DOMAIN ids
      BY <2>4, <3>1
    <3>3. \A other \in alone : other.leaf = id.leaf => other = any
      BY <3>1
    <3>4. (CHOOSE other \in alone : other.leaf = id.leaf) = any
      BY <3>1, <3>3
    <3>5. Leaves(ids)[id.leaf] = ids[any]
      BY <2>2, <2>3, <2>7, <3>4
    <3>6. (CHOOSE match \in same : TRUE) = any
      BY <3>2
    <3>7. Described(catalog, id) = MetadataOf(catalog[Listing(catalog, any)])
      BY <2>1, <2>6, <3>2, <3>6 DEF Described
    <3>8. Found(ids, Leaves(ids), id) = ids[any]
      BY <1>6, <2>7, <3>5 DEF Found
    <3> QED
      BY <1>3, <3>2, <3>7, <3>8 DEF ids
  <2>8. CASE id.leaf \notin DOMAIN Leaves(ids)
    <3>1. \A match \in same : same # {match}
      BY <2>3, <2>5, <2>8
    <3>2. Described(catalog, id) = NotFound
      BY <2>1, <3>1 DEF Described
    <3> QED
      BY <1>6, <2>8, <3>2 DEF Found, ids
  <2> QED
    BY <2>7, <2>8
<1> QED
  BY <1>4, <1>5, <1>6

-----------------------------------------------------------------------------
(* The current fetch ends soon, and in time for everyone who queues; with  *)
(* the mutex free, whoever has waited for a while finds a fresh cache.     *)
QueueInv ==
    /\ holder # NoOne => now <= giveUpAt /\ giveUpAt <= now + Timeout
    /\ \A g \in Goroutines :
          lookup[g].phase # "idle" =>
              /\ lookup[g].since <= now
              /\ now <= lookup[g].since + Timeout
              /\ holder # NoOne => giveUpAt <= lookup[g].since + Timeout
              /\ holder = NoOne => lookup[g].since = now \/ now <= expiresAt

(* What the expiry was computed from.                                      *)
ExpiryInv ==
    /\ now > 0
    /\ \/ expiresAt = 0
       \/ receivedAt > 0 /\ expiresAt = receivedAt + TTL
       \/ failedAt > 0 /\ expiresAt = failedAt + RetryTTL

CacheInv == LockTypeOK /\ QueueInv /\ ExpiryInv

LEMMA CacheInitially == EditorialInit => CacheInv
BY EditorialConstants
   DEF EditorialInit, CacheInv, LockTypeOK, QueueInv, ExpiryInv, Lookup

(* What a lookup's own steps do to its record and leave of the others.     *)
LEMMA PhaseChange ==
    ASSUME LockTypeOK, NEW g \in Goroutines, NEW p \in {"idle", "fetching"},
           lookup' = [lookup EXCEPT ![g].phase = p]
    PROVE  /\ lookup' \in [Goroutines -> Lookup]
           /\ lookup'[g].phase = p
           /\ \A h \in Goroutines : lookup'[h].since = lookup[h].since
           /\ \A h \in Goroutines \ {g} : lookup'[h].phase = lookup[h].phase
BY DEF LockTypeOK, Lookup

(* A success and a failure end a fetch alike, but for the lifetime.        *)
LEMMA EndOfFetch ==
    ASSUME CacheInv, NEW g \in Goroutines, lookup[g].phase = "fetching",
           lookup' = [lookup EXCEPT ![g].phase = "idle"],
           NEW life \in Nat \ {0}, expiresAt' = now + life,
           holder' = NoOne, UNCHANGED <<now, giveUpAt>>,
           receivedAt' \in Nat, failedAt' \in Nat,
           \/ receivedAt' = now /\ life = TTL
           \/ failedAt' = now /\ life = RetryTTL
    PROVE  CacheInv'
<1>1. /\ lookup' \in [Goroutines -> Lookup]
      /\ lookup'[g].phase = "idle"
      /\ \A h \in Goroutines : lookup'[h].since = lookup[h].since
      /\ \A h \in Goroutines \ {g} : lookup'[h].phase = lookup[h].phase
  BY PhaseChange DEF CacheInv
<1>2. now \in Nat /\ giveUpAt \in Nat /\ holder = g
  BY DEF CacheInv, LockTypeOK
<1>3. LockTypeOK'
  BY <1>1, <1>2, EditorialConstants DEF CacheInv, LockTypeOK
<1>4. QueueInv'
  BY <1>1, <1>2, EditorialConstants DEF CacheInv, LockTypeOK, QueueInv, Lookup
<1>5. ExpiryInv'
  BY <1>2, EditorialConstants DEF CacheInv, ExpiryInv
<1> QED
  BY <1>3, <1>4, <1>5 DEF CacheInv

LEMMA EndsWell ==
    ASSUME CacheInv, NEW g \in Goroutines, FetchSucceeds(g) \/ FetchFails(g)
    PROVE  CacheInv'
<1>1. CASE FetchSucceeds(g)
  <2> receivedAt' \in Nat /\ failedAt' \in Nat
    BY <1>1 DEF FetchSucceeds, CacheInv, LockTypeOK
  <2> QED
    BY <1>1, EndOfFetch, EditorialConstants DEF FetchSucceeds, Return
<1>2. CASE FetchFails(g)
  <2> receivedAt' \in Nat /\ failedAt' \in Nat
    BY <1>2 DEF FetchFails, CacheInv, LockTypeOK
  <2> QED
    BY <1>2, EndOfFetch, EditorialConstants DEF FetchFails, Return
<1> QED
  BY <1>1, <1>2

LEMMA CacheStep == CacheInv /\ [EditorialNext]_editorialVars => CacheInv'
<1> SUFFICES ASSUME CacheInv, [EditorialNext]_editorialVars
             PROVE  CacheInv'
  OBVIOUS
<1> USE EditorialConstants
<1>1. CASE TimePasses
  BY <1>1 DEF TimePasses, NothingIsDue, CacheInv, LockTypeOK, QueueInv, ExpiryInv, Lookup,
              cacheVars, historyVars
<1>2. ASSUME NEW g \in Goroutines, NEW id \in Asked, Call(g, id)
      PROVE  CacheInv'
  <2>1. /\ lookup' \in [Goroutines -> Lookup]
        /\ lookup'[g].phase = "waiting" /\ lookup'[g].since = now
        /\ \A h \in Goroutines \ {g} : lookup'[h] = lookup[h]
        /\ UNCHANGED <<now, expiresAt, holder, giveUpAt, receivedAt, failedAt>>
    BY <1>2 DEF Call, CacheInv, LockTypeOK, Lookup, cacheVars, historyVars
  <2>2. LockTypeOK'
    BY <1>2, <2>1 DEF Call, CacheInv, LockTypeOK
  <2>3. QueueInv'
    BY <2>1 DEF CacheInv, LockTypeOK, QueueInv, Lookup
  <2> QED
    BY <2>1, <2>2, <2>3 DEF CacheInv, ExpiryInv
<1>3. ASSUME NEW g \in Goroutines, AnswerFromCache(g)
      PROVE  CacheInv'
  <2>1. /\ lookup' \in [Goroutines -> Lookup]
        /\ lookup'[g].phase = "idle"
        /\ \A h \in Goroutines : lookup'[h].since = lookup[h].since
        /\ \A h \in Goroutines \ {g} : lookup'[h].phase = lookup[h].phase
        /\ UNCHANGED <<now, expiresAt, holder, giveUpAt, receivedAt, failedAt>>
    BY <1>3, PhaseChange DEF AnswerFromCache, Return, CacheInv, cacheVars, historyVars
  <2>2. LockTypeOK'
    BY <1>3, <2>1 DEF AnswerFromCache, Acquires, CacheInv, LockTypeOK
  <2>3. QueueInv'
    BY <2>1 DEF CacheInv, LockTypeOK, QueueInv, Lookup
  <2> QED
    BY <2>1, <2>2, <2>3 DEF CacheInv, ExpiryInv
<1>4. ASSUME NEW g \in Goroutines, BeginFetch(g)
      PROVE  CacheInv'
  <2>1. /\ lookup' \in [Goroutines -> Lookup]
        /\ lookup'[g].phase = "fetching"
        /\ \A h \in Goroutines : lookup'[h].since = lookup[h].since
        /\ \A h \in Goroutines \ {g} : lookup'[h].phase = lookup[h].phase
        /\ UNCHANGED <<now, expiresAt, receivedAt, failedAt>>
        /\ lookup[g].phase = "waiting" /\ holder = NoOne /\ holder' = g
        /\ now > expiresAt /\ giveUpAt' = now + Timeout
    BY <1>4, PhaseChange DEF BeginFetch, Acquires, Expired, CacheInv, cacheVars, historyVars
  <2>2. LockTypeOK'
    BY <2>1 DEF CacheInv, LockTypeOK
  <2>3. QueueInv'
    BY <2>1 DEF CacheInv, LockTypeOK, QueueInv, Lookup
  <2> QED
    BY <2>1, <2>2, <2>3 DEF CacheInv, ExpiryInv
<1>5. ASSUME NEW g \in Goroutines, FetchSucceeds(g) \/ FetchFails(g) \/ GivesUp(g)
      PROVE  CacheInv'
  BY <1>5, EndsWell DEF GivesUp
<1>6. CASE UNCHANGED editorialVars
  BY <1>6 DEF CacheInv, LockTypeOK, QueueInv, ExpiryInv, editorialVars, cacheVars, historyVars
<1> QED
  BY <1>1, <1>2, <1>3, <1>4, <1>5, <1>6 DEF EditorialNext, CallBlank

LEMMA CacheInvariant == EditorialSpec => []CacheInv
<1>1. EditorialInit => CacheInv
  BY CacheInitially
<1>2. CacheInv /\ [EditorialNext]_editorialVars => CacheInv'
  BY CacheStep
<1> QED
  BY <1>1, <1>2, PTL DEF EditorialSpec

(* Nobody waits for more than one exchange with the server, however many   *)
(* queue for the mutex and however often the server fails.                 *)
THEOREM WaitsForOneFetchCorrect == EditorialSpec => []WaitsForOneFetch
<1>1. CacheInv => WaitsForOneFetch
  BY DEF CacheInv, QueueInv, WaitsForOneFetch
<1> QED
  BY <1>1, CacheInvariant, PTL

(* An answer is at most TTL old, or a fetch failed within RetryTTL.        *)
THEOREM StaleOnlyAfterFailureCorrect == EditorialSpec => StaleOnlyAfterFailure
<1> DEFINE Fresh == \A g \in Goroutines :
                       Returns(g) =>
                           \/ receivedAt' > 0 /\ now <= receivedAt' + TTL
                           \/ failedAt' > 0 /\ now <= failedAt' + RetryTTL
<1>1. CacheInv /\ [EditorialNext]_editorialVars => [Fresh]_editorialVars
  <2> SUFFICES ASSUME CacheInv, EditorialNext, NEW g \in Goroutines, Returns(g)
               PROVE  \/ receivedAt' > 0 /\ now <= receivedAt' + TTL
                      \/ failedAt' > 0 /\ now <= failedAt' + RetryTTL
    OBVIOUS
  <2> now \in Nat /\ expiresAt \in Nat /\ now > 0 /\ lookup \in [Goroutines -> Lookup]
    BY DEF CacheInv, LockTypeOK, ExpiryInv
  <2>1. CASE \E h \in Goroutines : FetchSucceeds(h)
    BY <2>1, EditorialConstants DEF FetchSucceeds
  <2>2. CASE \E h \in Goroutines : FetchFails(h) \/ GivesUp(h)
    BY <2>2, EditorialConstants DEF FetchFails, GivesUp
  <2>3. CASE \E h \in Goroutines : AnswerFromCache(h)
    BY <2>3, EditorialConstants DEF AnswerFromCache, Expired, historyVars, CacheInv, ExpiryInv
  <2>4. CASE TimePasses \/ \E h \in Goroutines : CallBlank(h)
    BY <2>4 DEF TimePasses, CallBlank, Returns, editorialVars
  <2>5. CASE \E h \in Goroutines : BeginFetch(h) \/ \E id \in Asked : Call(h, id)
    <3> PICK h \in Goroutines : BeginFetch(h) \/ \E id \in Asked : Call(h, id)
      BY <2>5
    <3>1. \A k \in Goroutines \ {h} : lookup'[k] = lookup[k]
      BY DEF BeginFetch, Call
    <3>2. lookup'[h].phase # "idle"
      BY DEF BeginFetch, Call, Lookup
    <3> QED
      BY <3>1, <3>2 DEF Returns
  <2> QED
    BY <2>1, <2>2, <2>3, <2>4, <2>5 DEF EditorialNext
<1> QED
  BY <1>1, CacheInvariant, PTL DEF EditorialSpec, StaleOnlyAfterFailure

-----------------------------------------------------------------------------
(* The maps are what the loop made of the last catalog received.           *)
DataInv ==
    /\ received \in Seq(CatalogEntry)
    /\ byID = IDs(received)
    /\ byLeaf = Leaves(byID)
    /\ answer \in [Goroutines -> Metadata \cup {NotFound}]

LEMMA LeavesType ==
    ASSUME NEW ids \in Maps
    PROVE  /\ DOMAIN Leaves(ids) \subseteq STRING
           /\ \A leaf \in DOMAIN Leaves(ids) : Leaves(ids)[leaf] \in Metadata
<1> DEFINE alone == {id \in DOMAIN ids :
                        \A other \in DOMAIN ids : other.leaf = id.leaf => other = id}
<1>1. DOMAIN ids \subseteq ModelID /\ \A id \in DOMAIN ids : ids[id] \in Metadata
  BY MapType
<1>2. Leaves(ids) = [leaf \in {id.leaf : id \in alone} |->
                        ids[CHOOSE id \in alone : id.leaf = leaf]]
  BY DEF Leaves
<1>3. \A id \in alone : id \in DOMAIN ids /\ id.leaf \in STRING
  BY <1>1 DEF ModelID
<1>4. ASSUME NEW leaf \in {id.leaf : id \in alone}
      PROVE  ids[CHOOSE id \in alone : id.leaf = leaf] \in Metadata
  <2>1. \E id \in alone : id.leaf = leaf
    BY <1>4
  <2> HIDE DEF alone
  <2>2. (CHOOSE id \in alone : id.leaf = leaf) \in alone
    BY <2>1
  <2> QED
    BY <1>1, <1>3, <2>2
<1> HIDE DEF alone
<1>5. DOMAIN Leaves(ids) = {id.leaf : id \in alone}
  BY <1>2
<1>6. \A leaf \in DOMAIN Leaves(ids) : Leaves(ids)[leaf] \in Metadata
  BY <1>2, <1>4, <1>5
<1> QED
  BY <1>3, <1>5, <1>6

LEMMA FoundType ==
    ASSUME NEW catalog \in Seq(CatalogEntry), NEW id \in ModelID
    PROVE  Found(IDs(catalog), Leaves(IDs(catalog)), id) \in Metadata \cup {NotFound}
<1>1. IDs(catalog) \in Maps
  BY IDsDescribe
<1>2. \A any \in DOMAIN IDs(catalog) : IDs(catalog)[any] \in Metadata
  BY <1>1, MapType
<1>3. \A leaf \in DOMAIN Leaves(IDs(catalog)) : Leaves(IDs(catalog))[leaf] \in Metadata
  BY <1>1, LeavesType
<1> QED
  BY <1>2, <1>3 DEF Found

LEMMA DataInitially == EditorialInit => DataInv
<1> SUFFICES ASSUME EditorialInit PROVE DataInv
  OBVIOUS
<1>1. received = <<>> /\ received \in Seq(CatalogEntry) /\ byID = NoIDs
  BY DEF EditorialInit, NoIDs
<1>2. IDs(received) = NoIDs
  BY <1>1, IDsLoop
<1>3. DOMAIN Leaves(NoIDs) = {} /\ Leaves(NoIDs) = [leaf \in {} |-> NotFound]
  BY NoIDsType DEF Leaves
<1>4. answer \in [Goroutines -> Metadata \cup {NotFound}]
  BY DEF EditorialInit
<1> QED
  BY <1>1, <1>2, <1>3, <1>4 DEF DataInv, EditorialInit

(* What a lookup that returns answers, and that only its own answer moves. *)
LEMMA ReturnAnswers ==
    ASSUME LockTypeOK, answer \in [Goroutines -> Metadata \cup {NotFound}], NEW g \in Goroutines, Return(g),
           received' \in Seq(CatalogEntry), byID' = IDs(received'), byLeaf' = Leaves(byID')
    PROVE  /\ answer'[g] = Described(received', lookup[g].asked)
           /\ answer' \in [Goroutines -> Metadata \cup {NotFound}]
           /\ \A h \in Goroutines \ {g} : lookup'[h] = lookup[h]
<1>1. lookup[g].asked \in ModelID
  BY EditorialConstants DEF LockTypeOK, Lookup
<1> DEFINE found == Found(byID', byLeaf', lookup[g].asked)
<1>2. found = Described(received', lookup[g].asked) /\ found \in Metadata \cup {NotFound}
  BY <1>1, FoundIsDescribed, FoundType
<1>3. answer' = [answer EXCEPT ![g] = found]
  BY DEF Return
<1> HIDE DEF found
<1>4. \A h \in Goroutines \ {g} : lookup'[h] = lookup[h]
  BY DEF Return, LockTypeOK
<1> QED
  BY <1>2, <1>3, <1>4

(* A step keeps the maps in agreement with the catalog, and a lookup that  *)
(* returns in it answers what the catalog says.                            *)
LEMMA DataStep ==
    ASSUME LockTypeOK, DataInv, [EditorialNext]_editorialVars
    PROVE  /\ DataInv'
           /\ \A g \in Goroutines :
                 Returns(g) => answer'[g] = Described(received', lookup[g].asked)
<1> DEFINE Answered == \A g \in Goroutines :
                          Returns(g) => answer'[g] = Described(received', lookup[g].asked)
<1>1. CASE UNCHANGED editorialVars \/ TimePasses \/ \E g \in Goroutines : CallBlank(g)
  <2>1. UNCHANGED <<cacheVars, lookup, answer, historyVars>>
    BY <1>1 DEF TimePasses, CallBlank, editorialVars
  <2> QED
    BY <2>1 DEF DataInv, Returns, cacheVars, historyVars
<1>2. ASSUME NEW g \in Goroutines, BeginFetch(g) \/ \E id \in Asked : Call(g, id)
      PROVE  DataInv' /\ Answered
  <2>1. UNCHANGED <<cacheVars, answer, historyVars>>
    BY <1>2 DEF BeginFetch, Call
  <2>2. lookup'[g].phase # "idle" /\ \A h \in Goroutines \ {g} : lookup'[h] = lookup[h]
    BY <1>2 DEF BeginFetch, Call, LockTypeOK, Lookup
  <2> QED
    BY <2>1, <2>2 DEF DataInv, Returns, cacheVars, historyVars
<1>3. ASSUME NEW g \in Goroutines, Return(g),
             received' \in Seq(CatalogEntry), byID' = IDs(received'), byLeaf' = Leaves(byID')
      PROVE  DataInv' /\ Answered
  <2>1. /\ answer'[g] = Described(received', lookup[g].asked)
        /\ answer' \in [Goroutines -> Metadata \cup {NotFound}]
        /\ \A h \in Goroutines \ {g} : lookup'[h] = lookup[h]
    BY <1>3, ReturnAnswers DEF DataInv
  <2> QED
    BY <1>3, <2>1 DEF DataInv, Returns
<1>4. ASSUME NEW g \in Goroutines, AnswerFromCache(g) \/ FetchFails(g) \/ GivesUp(g)
      PROVE  DataInv' /\ Answered
  <2>1. Return(g) /\ UNCHANGED <<byID, byLeaf, received>>
    BY <1>4 DEF AnswerFromCache, FetchFails, GivesUp, cacheVars, historyVars
  <2>2. received' \in Seq(CatalogEntry) /\ byID' = IDs(received') /\ byLeaf' = Leaves(byID')
    BY <2>1 DEF DataInv
  <2> QED
    BY <1>3, <2>1, <2>2
<1>5. ASSUME NEW g \in Goroutines, FetchSucceeds(g)
      PROVE  DataInv' /\ Answered
  <2>1. Return(g) /\ received' \in Catalogs /\ byID' = IDs(received') /\ byLeaf' = Leaves(byID')
    BY <1>5 DEF FetchSucceeds
  <2>2. received' \in Seq(CatalogEntry)
    BY <2>1, EditorialConstants
  <2> QED
    BY <1>3, <2>1, <2>2
<1> HIDE DEF Answered
<1>6. DataInv' /\ Answered
  BY <1>1, <1>2, <1>4, <1>5 DEF EditorialNext, Answered
<1> QED
  BY <1>6 DEF Answered

LEMMA DataInvariant == EditorialSpec => [](CacheInv /\ DataInv)
<1>1. EditorialInit => DataInv
  BY DataInitially
<1>2. CacheInv /\ DataInv /\ [EditorialNext]_editorialVars => DataInv'
  BY DataStep DEF CacheInv
<1> QED
  BY <1>1, <1>2, CacheInvariant, PTL DEF EditorialSpec

(* Whatever OpenRouter answers, and however fetches and lookups interleave, *)
(* every variable has its type, the two maps and the answers included.     *)
THEOREM EditorialTypeCorrect == EditorialSpec => []EditorialTypeOK
<1>1. CacheInv /\ DataInv => EditorialTypeOK
  <2> SUFFICES ASSUME CacheInv, DataInv PROVE EditorialTypeOK
    OBVIOUS
  <2>1. byID \in Maps /\ byLeaf = Leaves(byID)
    BY IDsDescribe DEF DataInv
  <2> QED
    BY <2>1, MapType, LeavesType DEF EditorialTypeOK, CacheInv, DataInv
<1> QED
  BY <1>1, DataInvariant, PTL

(* A lookup answers what the last catalog received says of the model asked *)
(* for: its last canonical listing, or else its first variant, by the id   *)
(* or by a leaf no other id has; also when the refresh it ran or waited    *)
(* for has failed.                                                         *)
THEOREM AnswersMatchCatalogCorrect == EditorialSpec => AnswersMatchCatalog
<1> DEFINE Answered == \A g \in Goroutines :
                          Returns(g) => answer'[g] = Described(received', lookup[g].asked)
<1>1. CacheInv /\ DataInv /\ [EditorialNext]_editorialVars => [Answered]_editorialVars
  BY DataStep DEF CacheInv
<1> QED
  BY <1>1, DataInvariant, PTL DEF EditorialSpec, AnswersMatchCatalog
=============================================================================
