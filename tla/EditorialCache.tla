---------------------------- MODULE EditorialCache ----------------------------
(***************************************************************************)
(* Resolver of internal/editorial: metadata of models from OpenRouter's    *)
(* public catalog, cached behind one mutex.  A lookup that finds the cache *)
(* expired fetches the catalog with the mutex held; a success lives for    *)
(* TTL, a failure for RetryTTL.                                            *)
(***************************************************************************)
EXTENDS OpenRouterCatalog

CONSTANTS
    Goroutines,   \* callers of LookupMetadata: catalog requests
    NoOne,        \* none of them
    Asked,        \* the upstream models they ask for
    Catalogs,     \* the catalogs OpenRouter may answer with
    TTL,          \* Resolver.ttl
    RetryTTL,     \* Resolver.retryTTL
    Timeout,      \* http.Client.Timeout, which bounds the whole exchange
    MaxTime       \* the bound of the clock; no lookup begins near it

ASSUME EditorialConstants ==
    /\ TTL \in Nat \ {0} /\ RetryTTL \in Nat \ {0} /\ Timeout \in Nat \ {0}
    /\ MaxTime \in Nat
    /\ NoOne \notin Goroutines
    /\ Asked \subseteq ModelID
    /\ Catalogs \subseteq Seq(CatalogEntry)

VARIABLES
    now,         \* time.Now(), monotonic
    expiresAt,   \* Resolver.expiresAt; the zero time is 0
    byID,        \* Resolver.byID
    byLeaf,      \* Resolver.byLeaf
    holder,      \* who holds Resolver.mu across a fetch
    giveUpAt,    \* when the client of the latest fetch gives up
    lookup,      \* goroutine -> its call of LookupMetadata
    answer,      \* goroutine -> what its last call returned
    received,    \* for the properties: the last catalog received, ...
    receivedAt,  \* ... when (0 for never), ...
    failedAt     \* ... and when a fetch last failed (0 for never)

cacheVars == <<expiresAt, byID, byLeaf>>
historyVars == <<received, receivedAt, failedAt>>
editorialVars == <<now, cacheVars, holder, giveUpAt, lookup, answer, historyVars>>

Lookup == [phase : {"idle", "waiting", "fetching"}, since : Nat, asked : Asked]

EditorialInit ==
    /\ now = 1
    /\ expiresAt = 0
    /\ byID = [id \in {} |-> NotFound]
    /\ byLeaf = [leaf \in {} |-> NotFound]
    /\ holder = NoOne
    /\ giveUpAt = 0
    /\ \E id \in Asked :
          lookup = [g \in Goroutines |-> [phase |-> "idle", since |-> 0, asked |-> id]]
    /\ answer = [g \in Goroutines |-> NotFound]
    /\ received = <<>> /\ receivedAt = 0 /\ failedAt = 0

-----------------------------------------------------------------------------
(* A call, up to r.mu.Lock().                                              *)
Call(g, id) ==
    /\ lookup[g].phase = "idle"
    /\ now + 2 * Timeout <= MaxTime
    /\ lookup' = [lookup EXCEPT ![g] = [phase |-> "waiting", since |-> now, asked |-> id]]
    /\ UNCHANGED <<now, cacheVars, holder, giveUpAt, answer, historyVars>>

(* A blank model is answered without the lock.                             *)
CallBlank(g) ==
    /\ lookup[g].phase = "idle"
    /\ UNCHANGED editorialVars

Acquires(g) == lookup[g].phase = "waiting" /\ holder = NoOne

Expired == now > expiresAt

(* The lookup in the maps as they are now, the unlock and the return.      *)
Return(g) ==
    /\ lookup' = [lookup EXCEPT ![g].phase = "idle"]
    /\ answer' = [answer EXCEPT ![g] = Found(byID', byLeaf', lookup[g].asked)]

AnswerFromCache(g) ==
    /\ Acquires(g)
    /\ ~Expired
    /\ UNCHANGED <<now, cacheVars, holder, giveUpAt, historyVars>>
    /\ Return(g)

BeginFetch(g) ==
    /\ Acquires(g)
    /\ Expired
    /\ holder' = g
    /\ giveUpAt' = now + Timeout
    /\ lookup' = [lookup EXCEPT ![g].phase = "fetching"]
    /\ UNCHANGED <<now, cacheVars, answer, historyVars>>

(* refresh replaces both maps at once, after everything that can fail.     *)
FetchSucceeds(g) ==
    /\ lookup[g].phase = "fetching"
    /\ \E catalog \in Catalogs :
          /\ byID' = IDs(catalog)
          /\ byLeaf' = Leaves(byID')
          /\ received' = catalog
    /\ expiresAt' = now + TTL
    /\ receivedAt' = now
    /\ holder' = NoOne
    /\ Return(g)
    /\ UNCHANGED <<now, giveUpAt, failedAt>>

FetchFailsUnnoticed(g) ==
    /\ lookup[g].phase = "fetching"
    /\ failedAt' = now
    /\ holder' = NoOne
    /\ UNCHANGED cacheVars
    /\ Return(g)
    /\ UNCHANGED <<now, giveUpAt, received, receivedAt>>

FetchFailsForTTL(g) ==
    /\ lookup[g].phase = "fetching"
    /\ expiresAt' = now + TTL
    /\ failedAt' = now
    /\ holder' = NoOne
    /\ UNCHANGED <<byID, byLeaf>>
    /\ Return(g)
    /\ UNCHANGED <<now, giveUpAt, received, receivedAt>>

FetchFailsLocked(g) ==
    /\ lookup[g].phase = "fetching"
    /\ expiresAt' = now + RetryTTL
    /\ failedAt' = now
    /\ UNCHANGED <<byID, byLeaf>>
    /\ Return(g)
    /\ UNCHANGED <<now, holder, giveUpAt, received, receivedAt>>

(* No answer, a status that is no success, a body that is no catalog: the  *)
(* maps stay, and answer.                                                  *)
FetchFails(g) ==
    /\ lookup[g].phase = "fetching"
    /\ expiresAt' = now + RetryTTL
    /\ failedAt' = now
    /\ holder' = NoOne
    /\ UNCHANGED <<byID, byLeaf>>
    /\ Return(g)
    /\ UNCHANGED <<now, giveUpAt, received, receivedAt>>

NeverGivesUp(g) == now > MaxTime /\ FetchFails(g)

(* The client's timeout is one more failure.                               *)
GivesUp(g) == now >= giveUpAt /\ FetchFails(g)

(* Passing a free mutex on, and giving up, take no time.                   *)
NothingIsDue ==
    IF holder = NoOne THEN \A g \in Goroutines : lookup[g].phase # "waiting" ELSE now < giveUpAt

TimePasses ==
    /\ now < MaxTime
    /\ NothingIsDue
    /\ now' = now + 1
    /\ UNCHANGED <<cacheVars, holder, giveUpAt, lookup, answer, historyVars>>

EditorialNext ==
    \/ TimePasses
    \/ \E g \in Goroutines :
          \/ \E id \in Asked : Call(g, id)
          \/ CallBlank(g)
          \/ AnswerFromCache(g)
          \/ BeginFetch(g)
          \/ FetchSucceeds(g)
          \/ FetchFails(g)
          \/ GivesUp(g)

(* The clock runs, a client gives up in the end, and a Go mutex is not     *)
(* withheld for ever from a goroutine that waits for it (starvation mode). *)
EditorialSpec ==
    /\ EditorialInit /\ [][EditorialNext]_editorialVars
    /\ WF_editorialVars(TimePasses)
    /\ \A g \in Goroutines :
          /\ WF_editorialVars(GivesUp(g))
          /\ SF_editorialVars(AnswerFromCache(g) \/ BeginFetch(g))

-----------------------------------------------------------------------------
(* The clock readings and the lock: the mutex is held exactly while its    *)
(* holder fetches.                                                         *)
LockTypeOK ==
    /\ now \in Nat /\ expiresAt \in Nat /\ giveUpAt \in Nat
    /\ receivedAt \in Nat /\ failedAt \in Nat
    /\ holder \in Goroutines \cup {NoOne}
    /\ lookup \in [Goroutines -> Lookup]
    /\ \A g \in Goroutines : lookup[g].phase = "fetching" <=> holder = g

(* Every variable has its type, the maps and answers included.             *)
EditorialTypeOK ==
    /\ LockTypeOK
    /\ DOMAIN byID \subseteq ModelID /\ \A id \in DOMAIN byID : byID[id] \in Metadata
    /\ DOMAIN byLeaf \subseteq STRING /\ \A leaf \in DOMAIN byLeaf : byLeaf[leaf] \in Metadata
    /\ answer \in [Goroutines -> Metadata \cup {NotFound}]

Returns(g) == lookup[g].phase # "idle" /\ lookup'[g].phase = "idle"

(* docs/configuration.md: matching is exact or by an unambiguous suffix.   *)
(* And a failed refresh loses nothing: what a lookup answers is what the   *)
(* last catalog received says, canonical listings before variants.         *)
AnswersMatchCatalog ==
    [][\A g \in Goroutines :
          Returns(g) => answer'[g] = Described(received', lookup[g].asked)]_editorialVars

(* An answer comes from a catalog no older than TTL, unless a fetch failed *)
(* within RetryTTL: a failure is retried sooner than a success.            *)
StaleOnlyAfterFailure ==
    [][\A g \in Goroutines :
          Returns(g) =>
              \/ receivedAt' > 0 /\ now <= receivedAt' + TTL
              \/ failedAt' > 0 /\ now <= failedAt' + RetryTTL]_editorialVars

(* The mutex is held across an exchange with a server that may be dead,    *)
(* but nobody waits longer than for one exchange: those who queue behind   *)
(* it use its outcome and do not try again one after the other.            *)
WaitsForOneFetch ==
    \A g \in Goroutines : lookup[g].phase # "idle" => now <= lookup[g].since + Timeout

(* Every lookup returns, whatever the server does.                         *)
LookupsReturn ==
    \A g \in Goroutines : lookup[g].phase # "idle" ~> lookup[g].phase = "idle"
=============================================================================
