# A formal model of AI Best Model Route

This directory holds TLA+ modules that model the router in this repository, TLC
configurations that check them on small instances, and proofs about them that
TLAPS checks for every value of their constants. `PROJECT.json` maps every
definition that stands for code to the lines it stands for, and lists the runs,
mutations, hazards, findings and theorems.

## 1. The system

A client (Codex, or any client of the Responses API) talks to the **gateway**, a
reverse proxy in front of the Bifrost core, into which the **plugin** is loaded.
Both read the same configuration file, and each builds its own routing
**engine** from it. A request may name a concrete model, or a virtual one
(`auto`, `auto:code`, ...) for which an engine chooses a concrete model.

| Component | State | Operations | Hard because |
|---|---|---|---|
| Route health (`internal/autoroute/engine.go`) | map: route key -> success average, failures in a row, open-until time; one RW mutex | `Observe`, `circuitOpen`, `healthFactor`, `New` | responses arrive in any order; the clock closes circuits; thresholds and clamps |
| Route decision (same file) | none of its own: the walk of `decide` over the models | `Rewrite`, `Preview`, `decide` | takes the lock twice per model, so it mixes several states of the health; hard filters against soft scores |
| Virtual models (same file) | none | `InjectVirtualModels` | capabilities of a union of models |
| Configuration (`internal/config/config.go`) | immutable after load | `Decode`, `FromAny`, `ApplyDefaultsAndValidate` | Go map order; names, aliases and variant names share one space |
| Resolver (`internal/config/resolver.go`) | index: name -> model or context variant | `ResolveModel`, `ResolvedModels` | discovered models, unknown variants, preferred variant names |
| Gateway (`internal/gateway/gateway.go`) | engine; reverse proxy | `serveResponses`, `serveModels`, `mergeCatalogs`, `ModifyResponse`, `ErrorHandler` | the name is resolved here and again in the plugin; two catalogs are merged |
| Plugin (`plugins/codex-router/main.go`) | configuration under a lock, engine beside it | `Init`, pre-auth, pre-LLM and post hooks | configuration and engine are published separately; health is keyed by the name in the body |
| Hosted tool fallback (`internal/responses/fallback.go`) | none | `ApplyHostedToolFallback` | replaces the model after the decision; its list of hosted tools duplicates the engine's |
| Adapters (`internal/responses/adapters.go`) | none | `Get`, `Normalize`, `Validate` | inherited from the provider, so an adapter and the mode beside it can disagree |
| Credential policy (`internal/credentials/policy.go`) | none | `Decide`, header helpers | resolves the name a second time, after it was rewritten |
| Catalog (`internal/catalog/catalog.go`) | none | `HydrateWithMetadata`, `DecorateCatalog`, `HydrateVariant` | what is published must be routable; two processes decorate one list |
| Editorial cache (`internal/editorial/openrouter.go`) | two maps and an expiry time under a mutex | `LookupMetadata`, `refresh` | the mutex is held across HTTP; two lifetimes |
| Codex profile editor (`internal/codexprofile/profile.go`, `cmd/router`) | the user's `config.toml` and its backups | `Install`, `Uninstall`, `Restore` | no lock, crash between backup and rename |
| Local setup (`scripts/setup-local.sh`) | containers, volume, runtime config, key file, Codex config | one run of `main` | any step may fail after earlier ones took effect; containers mount a file that later runs overwrite |

How they interact: gateway and plugin call `Engine.Rewrite` on a request, then
`ApplyHostedToolFallback`, then resolve the model; the gateway proxies to Bifrost
under a rewritten model name, which the plugin resolves again, once for the
credential and once, after Bifrost has split it, for provider and conversion; both
report the status of a response to their own engine's `Observe`. The catalog path (`GET /v1/models`) reads the
configuration and the editorial cache. Setup and profile editor work on files
outside any of these processes.

What makes each correct, in short: *health* - a circuit is open exactly after
three failures in a row within its window, and nothing else opens, extends or
keeps it open; *decision* - the policy is never traded for a score, no usable
model is lost to a race, an undisturbed decision is the optimum; *configuration
and resolver* - a verdict that does not depend on map order, every published
name resolves to what was published; *gateway and plugin* - both hops agree on
the model, and on the key health is kept under; *catalog* - nothing unroutable
is listed, nothing twice; *cache* - errors keep good data and back off;
*profile editor and setup* - the user's text survives, and can be restored,
whatever fails.

## 2. Modules

```
CircuitBreaker            what a circuit promises, without clock readings or averages
   ^ (refinement)
RouteHealth               Observe, circuitOpen, healthFactor, New, the clock
   ^ EXTENDS      ^ EXTENDS
ObservedHealth    AutoRoute          requests: Rewrite, Preview, decide, responses
                     ^ EXTENDS
                  DecisionAudit      an observer of the circuits during decisions
                     ^ EXTENDS
                  MCDecisionAudit    the small deployment TLC checks

ModelResolver             names, the index, ResolveModel: operators, no state
   ^ EXTENDS
ConfigValidation          ApplyDefaultsAndValidate as loops in any order
   ^ EXTENDS
MCConfigValidation        the catalogue of small configurations TLC checks
Catalog                   the lists of models, hydrated, merged, decorated: operators
   ^ EXTENDS                 (EXTENDS ConfigValidation)
Dispatch                  one request through gateway, Bifrost and plugin
   ^ EXTENDS
MCDispatch                the small deployments TLC checks (EXTENDS MCConfigValidation too)

OpenRouterCatalog         what one answer of OpenRouter says: operators, no state
   ^ EXTENDS
EditorialCache            LookupMetadata around its mutex, time, failures
   ^ EXTENDS
MCEditorialCache          the small catalogs TLC checks

CodexText                 the text of config.toml, merge and remove: operators
   ^ EXTENDS
CodexProfile              install, uninstall, rollback on the file; an editor; losses of power
   ^ EXTENDS
MCCodexProfile            the symmetries of the commands and of the user's lines

LocalSetup                setup-local.sh run after run: containers, keys, Codex's file

FoldLemmas                what the proofs need of loops: operators, no state
RouteHealthProofs (RouteHealth, ObservedHealth)
DecisionAuditProofs (AutoRoute, DecisionAudit)
ConfigValidationProofs (ConfigValidation)    DispatchProofs (Dispatch)
EditorialCacheProofs (EditorialCache)        CodexProfileProofs (CodexProfile)
LocalSetupProofs (LocalSetup)
```

**RouteHealth.** `health` is `Engine.health`, a function whose domain is the keys
observed so far; `now` is `Engine.now()`. `Observe` is atomic because the code
holds the write lock; `CircuitOpen` and `HealthFactor` are the two read-locked
reads. The zero `time.Time` is `Never` = 0. `SuccessEWMA` is a fixed-point number
in units of 1/`Scale`, rounded to nearest (`Average`): the properties need its
order and its ends, not its digits. A key can be any name; a status that is
neither success nor failure changes nothing.

**CircuitBreaker** counts a streak up to the threshold and a cooldown down to 0.
`RouteHealth!Breaker` is the refinement mapping: streaks capped, deadlines turned
into time left, keys without a record given an untouched one.

**ObservedHealth** adds the last outcomes of each key and the time of its last
failure, which say what the code's counters and deadlines mean.

**AutoRoute.** `request[r]` is the local state of the goroutine that serves
request r: its phase, body, profile, the position of the loop in `decide`, the
scores so far. One action per stretch between two lock acquisitions:

| Action | Code |
|---|---|
| `ReceiveRefused`, `ReceiveDirect`, `ReceiveAuto`, `ReceivePreview` | `serveResponses` and `Rewrite`, or `Preview`, up to the loop of `decide`, with every early return |
| `ReadCircuit` | the filters of one model up to the call of `healthFactor`; the lock is taken in `circuitOpen` |
| `ReadHealth` | `healthFactor` under the lock, the remaining filters, the score, the next iteration |
| `Choose` | the sort, the refusal or the decision, the hosted tool fallback, sending |
| `Respond` | `ModifyResponse` / `HTTPTransportPostHook`: the status is observed |
| `TransportError` | the proxy's `ErrorHandler`: nothing is observed |
| `TimePasses`, `ProcessRestarts` | the clock; a new process |

`ReadCircuit` evaluates the filters behind `circuitOpen` (context window,
modalities, tools) at the moment of that call: they read only the configuration
and the body, so nothing can tell the difference. A body is what `inspect` and
`constraintsFrom` make of a request: estimated tokens, whether it needs vision,
hosted tools or search, its limits, and its `task`, which stands for the signals
and the complexity. The part of a score that health does not touch (quality,
cost, latency, affinity and privacy, weighted) is the constant `Merit`; the
reliability term is computed. Quality, reliability and the context percentage are
integers out of 100. `AutoRouteConstants` states what the validated configuration
guarantees about the constants.

**DecisionAudit** adds, per request, the models whose circuit was closed at
some moment (`ever`) or throughout (`always`) its decision, and the health it
arrived to until that changes (`seen`).

**ModelResolver.** Everything in resolver.go is a function of the configuration, so
the module has no variables. A name is its components between slashes and the
context marks at its end: `managed/chat-1m` is `<<"managed", "chat">>` with one
mark. That keeps what the code tests in strings (is there a slash, what is behind
the first one, does a suffix of digits and `k` or `m` follow a configured name)
and drops the characters. `Entries` are the models and their context variants,
`NamesOf` what each answers to, `PublishedSlug` the name `ResolvedModels` gives it,
`BuildIndex` the index in which the last writer wins, `ResolveModel` the lookup
with its second half for discovered models.

**ConfigValidation.** The state is the `Config` being completed and the local map
`owned`. `given` keeps the configuration as decoded, for the properties only.

| Action | Code |
|---|---|
| `Start` | version and emptiness checks |
| `CompleteProvider(name)` | one turn of the loop over `c.Providers`: defaults, `validateProvider`, the check of `codex_defaults` on a stand-in for discovered models |
| `CompleteModel(k)` | one turn of the loop over `c.Models`: defaults, `validateModel`, `validateVariant`, the claims |
| `Index`, `SettleFallback`, `CheckRoutes` | the rest, in order |
| `Reject` | any early return |

A loop over a Go map takes its elements in any order, so each turn picks any
pending element. The models are a sequence in name order because
`buildResolutionIndex` sorts them; the loop does not use that order. A Boolean
stands for the checks that read one field and nothing else (`wellFormed`) and for
`validateAutoRoute` (`routeValid`): what matters here is where they stand between
the others. `owned` marks variants' names with the slug and `#variant` and then
compares marks with slugs; a model whose slug is another's slug with `#variant`
behind it would make the verdict depend on the order after all, and
`ConfigConstants` excludes it.

**OpenRouterCatalog** folds `Listed`, one turn of the loop of `refresh`, over a
catalog, and then collects the leaves that belong to one id. An id is a creator and
a leaf, and an entry says whether it was listed as a variant: that is what
`normalizeID` and the test for a colon make of the strings. `Described` says the same
without a loop: the last canonical entry of an id, else its first variant.

**EditorialCache.** `expiresAt`, `byID` and `byLeaf` are the fields of `Resolver`;
`holder` is who has `mu` across a fetch, `lookup[g]` where goroutine g is in its
call. `received`, `receivedAt` and `failedAt` remember, for the properties, what the
server answered and when.

| Action | Code |
|---|---|
| `Call`, `CallBlank` | `LookupMetadata` up to `mu.Lock`; a blank name returns before it |
| `AnswerFromCache` | lock, not expired, lookup, unlock |
| `BeginFetch` | lock, expired, the request leaves with the mutex held |
| `FetchSucceeds` | the rest of `refresh`, both maps and the expiry at once, the lookup, the unlock |
| `FetchFails` | any of the error returns, the shorter lifetime, the lookup in the old maps, the unlock |
| `GivesUp` | the same, because `http.Client.Timeout` ran out |
| `TimePasses` | the clock |

Passing on a free mutex and giving up on time take no time (`NothingIsDue`); the
time a fetch takes is anything up to the client's timeout.

**CodexText.** A text is a sequence of tokens: a line of the user, a marker, what
stands between the markers for some options, or a line end of either kind. That
is what `removeManaged`, `Merge` and `Remove` tell apart; `Position` is
`strings.Index` with 0 for nowhere, `Malformed` the errors, `Cleaned`, `Merge` and
`Remaining` the results.

**CodexProfile.** `config` is the file, `backup[c]` the backup that command c names
after the time it started, `command[c]` where it is and what it read and is about
to write. `mayBe` is what a loss of power may leave at the path: a rename is one
step for every reader, but not on disk before the operating system writes it back
(`Sync`). `edition` and `shown` are for the properties.

| Action | Code |
|---|---|
| `Install`, `Uninstall` | `readExisting` and `Merge` or `Remove`, with the refusals |
| `Rollback` | `Restore` up to `atomicWrite`: the backup is read, the config is not |
| `WriteBackup`, `BackupFails` | `backupFile`: written in place, so a failure leaves a part of it |
| `WriteTemp`, `Rename` | `atomicWrite` up to the rename, and the rename |
| `Fails` | an error or a kill at any point: a file that is not regular, a system call |
| `Save` | the user's editor: a line more, other line ends, a marker deleted |
| `Sync`, `PowerLoss` | write-back; every command dies, what was not synced may be cut short |

**Catalog.** A listing is the name a model is asked by, its window (0 if left out),
and what its display name ends in. `Hydrated` is `HydrateWithMetadata`: what the
providers offer, each with its variants, then configured models they leave out, each
name once. `Decorated` is `DecorateCatalog`; it runs in the plugin and again in the
gateway, so it takes a suffix off before it puts it on (`Relabelled`). `Merged` is
`mergeCatalogs`, whose two loops are the folds of `AddDirect` and `AddBifrosts`;
`VariantsOf` is the part of `ResolvedModels` that both it and
`appendConfiguredVariants` put behind a base; `InjectVirtualModels` is the engine's.
The lists a client may be
shown are `ServedWithDirect`, `ServedWithoutDirect` and `ServedUnversioned`; where
the gateway answers 502 there is none.

**Dispatch.** Validation runs first (`Validate`), then `Serve` with the configuration
it accepted, in both processes. `shown` is the list a client was shown, `request` the
request under way with everything the processes keep of it: `target` is what the first
of them resolved, `body` the model in the body by now, `observed` the key that
process observes the answer under, `dest` where it went.

| Action | Code |
|---|---|
| `FetchModels`, `Pick` | `serveModels`, each upstream in reach or not; Codex picks what it was shown |
| `Ask` | any name, at the gateway or at Bifrost, with any tools and headers |
| `GatewayRoutes` | `serveResponses`: rewrite, fallback, resolution, the new name and path, or 400 |
| `RefuseRoute` | `Rewrite` finds no model, in either process |
| `BifrostUnreachable` | `ErrorHandler` |
| `PluginAuthorizes` | `HTTPTransportPreAuthHook`: rewrite, fallback, `Decide`, the three refusals |
| `PassThrough` | external: Bifrost's ChatGPT path sends the body's model to OpenAI |
| `PluginDispatches` | external: Bifrost splits `provider/model`; then `PreLLMHook` with its adapter and its refusals |
| `Respond`, `Leave` | `ModifyResponse` and `HTTPTransportPostHook`, and the end of the exchange |

Which of the models automatic routing selects, or none, depends on the health and
on the rest of the body: that is AutoRoute's subject and here any choice among
`Selectable`. So the two engines' separate health is covered, as a difference between
two choices. What Bifrost does with a name between the hooks is
not in this repository: it splits a configured provider off always, and what else
stands before a slash perhaps.

**LocalSetup.** One action per step of `main` that changes something outside the
script, or may end it. A run's key and configuration are called by its number, so
whose they are can be compared. Both containers mount the one staged file, which a later
run copies over in place; so `staged` is apart from what a running container has read
(`core.config`, `gateway.config`, 0 while it is not up). A container that is started
again keeps its key, which is in its environment, and reads the file once more. `missed`
and `intact` are for the properties: the runs that did not see the containers there
were, and the run that ended well until someone agrees to replace it or the user removes
its core.

| Action | Code |
|---|---|
| `Begin` | `parse_args`, the checks, `prepare_inputs` |
| `Stage` | `stage_runtime_config`, once both notices are accepted |
| `FindsNone`, `FindsOld`, `Decline` | `container_exists` and the third question; an inspection that fails finds nothing, and nobody is asked |
| `Remove` | `docker rm -f` of both; a failure is ignored |
| `StoreKey`, `RunCore`, `RunGateway` | `store_virtual_key`, the two `docker run` |
| `Healthy` | `wait_for_health` |
| `BackUp`, `InstallCodex` | `install_codex_config` |
| `Exit` | `set -e`, an interrupt, or a notice declined, at any step |
| `Reads` | the launcher copies the mounted file (flake.nix:132), the gateway loads it (cmd/gateway/main.go:15) |
| `Boot`, `Stop`, `StartAgain` | external: a container is up, dies or is stopped, is started again, at any moment |
| `UserRemoves`, `UserEdits` | external: between runs the user removes a container, or edits Codex's configuration |

## 3. Runs

| Run | Question | Bounds | Result |
|---|---|---|---|
| `observed_health` | do counters, averages and deadlines mean what a circuit promises? | 2 keys, the 7 statuses around every boundary `Observe` tests, threshold 3 as in the code, window 2, clock to 4, 4 failures in a row, averages in 20ths | holds; 217,808 states |
| `decision_audit` | what is a decision worth that is not atomic? | 3 models, 2 goroutines, 13 bodies for each of inference and preview, 2 bodies of concrete traffic, threshold 2, window 1, clock to 2 | holds; about 1.1 million states |
| `preview_profile` | does a preview use the profile inference uses? | as above | violated (finding) |
| `config_validation` | has a configuration one verdict, and do its names lead where they should? | 1,880 configurations: every choice of one or two of 13 entries (and two choices of three), 5 sets of providers, 4 fallbacks; 98 names asked | holds; 15,217 states |
| `editorial_cache` | what does a cache behind one mutex cost and promise those who queue? | 2 goroutines, 3 catalogs, 4 models asked, lifetimes 3 and 1, timeout 2, clock to 9 | holds; 288,660 states |
| `codex_profile` | what becomes of the user's text? | 2 commands, two lines of the user's that may recur, 2 options, 2 edits, 1 loss of power | holds; 1,950,742 states up to symmetry |
| `profile_backup` | is every file backed up before it is modified? | as above | violated (finding) |
| `published_name` | does a published slug lead back to its entry? | as above | violated (finding) |
| `discovered_openai` | does openai/model reach OpenAI? | as above | violated (finding) |
| `dispatch` | do two processes and three resolutions agree about one request? | 80 configurations: 4 deployments and every one or two of 8 good entries, each with 2 sets of providers; 22 names asked, every combination of tools and headers; 3 offers, 2 direct lists | holds; 131,102 states |
| `upstream_sent` | does `upstream_model` control what is sent? | as above | violated (finding) |
| `local_setup` | what does a setup keep of its key and configuration through later runs and restarts, and when is Codex's file changed? | 3 runs of the script, any number of stops and restarts between any two steps | holds; 2,356,909 states |

Why the bounds are enough. In `observed_health` the clock is long enough for a
circuit to open, be extended, expire, and open again on one more failure, and
four failures exceed the threshold of three by one, which is where "at" and "at
least" differ. `MaxTime` also bounds `Observe`: no failure is observed that could
hold a circuit open past the end of the clock, so the liveness property is not
decided by the end of time. In `decision_audit` one model scores best while healthy
and ties with the second after one failure, so that health decides; the second is
served through chat completions, is local and also has an alias, so that its
failures come from concrete requests; the third is disabled. Threshold 2 and
window 1 let a circuit open, expire and close again *within* one decision. Each
body exercises one filter, one boundary (an input of exactly the effective window,
a cost of exactly the cap) or one branch of `Rewrite` and `Preview`. One deciding
goroutine suffices for these properties because a decision writes nothing shared:
other goroutines reach it only through the health, which the second one drives.

In `config_validation` the catalogue of entries holds one good entry of each
kind, and entries that collide with them in each way names can collide (slug with a
variant's name, two short names, two variants of one window, a nested slug with
another provider's model) or break one rule. Collisions are between two
entries, so pairs suffice; the two choices of three let an entry collide with one
that was claimed first or last. Deadlock is not checked there: validation ends.

In `editorial_cache` the clock is long enough for a catalog to be received, to
expire, for its renewal to fail, and for the next attempt. A lookup queues behind
another's fetch at each of its moments. The catalogs list variants before and after
the canonical entry and alone, a leaf of one creator, of two, of none, and an entry
that has no name. No lookup starts so late that its answer could not come before
`MaxTime`, so `LookupsReturn` is not decided by the end of the clock.

In `codex_profile` each of two commands runs once, as any of the three: two are
enough for an overlap at every step, for install after install or uninstall, and
for a rollback to the other's backup, whole or partial. Two edits change a file
before and between the commands, so that a text can have its line ends changed and
a marker deleted. A second option tells a block apart from the one it replaces,
and two lines, which are symmetric, tell one order of the user's lines from another. No
edit puts a line of the user's between the markers: the text between them is managed, as
they say, and a command replaces it.
Deadlock is checked: `Sync` is always possible.

In `dispatch` the four deployments are the example configuration (a managed
model with variants, a native one with variants and a short alias, the fallback, which
is not to be routed to), one whose converted model's provider converts nothing, with
and without a fallback, and one with a model that supports no responses. The pairs of
entries add names that another process resolves otherwise: nested slugs, other
upstream models, short names that collide with discovered ones. One request at a time
suffices, since nothing a request does changes what another one reads. Deadlock is not
checked, because validation may end in a refusal. In `local_setup` three runs are one
that ends well, one that fails or is declined anywhere, and one that meets what the
second left behind; the containers of the first may be stopped and started again at
every moment of the other two.

Properties, and the code behaviour they are about:

* `DeadlineMatchesStreak`, `OpenExactlyAfterStreak`, `OpenCircuitHolds`: the
  counter, the deadline and the real history of responses agree, whatever the
  order of successes, failures, expiry and restarts.
* `FailingKeyLosesWeight`: the branch of `healthFactor` that answers 1 for an
  average of 0 is never reached by decay.
* `QuietCircuitCloses`: an open circuit, which gets no automatic traffic to
  close it, closes by the clock.
* `ImplementsCircuitBreaker`: refinement.
* `SelectedSatisfiesPolicy`: hard filters before soft scores; includes that the
  hosted tool fallback never replaces an automatic choice.
* `SelectionJustified`, `RefusalJustified`: what is left of "an open circuit
  stops receiving new traffic" and of "fails closed" when a decision reads the
  health piecemeal.
* `QuietDecisionIsAtomic`: with undisturbed health the outcome is the optimum, ties
  by name.
* `VerdictIgnoresOrder`: the abstract specification of validation is `Sound`, a
  predicate without loops: entries valid after defaults, all names pairwise
  disjoint, the fallback usable. The loops accept exactly what it describes,
  although the code tests collisions differently for models and variants.
* `NamesReachTheirEntry`: the index, filled in another order than the claims, loses
  no name.
* `ResolvedModelsAreLawful`: what is checked per entry and per provider holds of
  every answer of the resolver, also for discovered models that have no entry.
* `UnknownSuffixRefused`: `docs/configuration.md`, "Unknown suffixes are rejected".
* `WaitsForOneFetch`: those who queue behind a failing fetch take its failure as
  their answer instead of trying again one after the other with the mutex held.
* `AnswersMatchCatalog`: a failed refresh loses nothing, no answer mixes two
  catalogs, and the maps say what the catalog says (`Described`).
* `StaleOnlyAfterFailure`: an answer is older than the long lifetime only if a fetch
  failed within the short one.
* `LookupsReturn`: a dead server delays lookups and never stops them.
* `CommandsKeepOwnLines`: as long as only commands that read the current file write
  it, the user's lines survive them in order, odd markers included.
* `OneBlock`: overlapping commands, rollbacks and losses of power never make a second
  block, which `removeManaged` would refuse for ever after.
* `InstallIsReversible`: on every reachable text; installing again is idempotent,
  uninstalling restores the text up to blank lines at its end.
* `ReplacedTextIsBackedUp`: what install and uninstall replace is in their backup.
* `PowerLossLeavesWhole`: the sync before the rename.
* `ServedAsResolved`: what the first process found is what is served, with the token
  its provider wants and the conversion its mode wants, although two processes resolve
  three names. It holds of a request through the gateway where the name the gateway
  makes is the model's own (`Canonical`); what happens otherwise is `upstream_sent`.
* `TokenReachesOpenAIOnly`: of all configurations and names, canonical or not.
* `SelectedModelIsObserved`: the slug `decide` reads circuits by is the one failures
  are counted under, and the model that answered; the two fallbacks do not undo the
  decision.
* `HostedToolsRunNatively`: the fallback in two processes catches what an inherited
  adapter would let pass. Like `ServedAsResolved` at the gateway it supposes that the
  name the fallback is kept by leads to it (`FallbackRoutes`): `SettleFallback` checks
  the model the name led to and then keeps that model's published slug
  (config.go:296), which may lead to another one.
* `ListedAsServed`: a model picked from the list is served by the host, and with the
  window, it was listed with. It speaks of labels that two processes have decorated.
* `SetupKeepsKey`: after a setup that ended well, Codex and the core go on having its
  key, whichever later runs are declined, fail, or find its containers in the way without
  having seen them, and whatever stops and starts again, until one is told to replace it.
  The key file does as well, unless a run did not see the containers.
* `SameConfiguration`: neither container ever runs a configuration older than the
  setup's, so both run that one, as Dispatch supposes of the two processes, until a later
  run has got past its first two questions. It does not say that a declined run changes
  nothing, which is not so.
* `CodexChangedOnlyWhenServed`: the step that changes Codex's file comes after
  everything that may fail, with a backup and the key that has answered.

**Fairness.** `ObservedSpec` has weak fairness of the clock, because `time.Now`
advances without the program's help. `EditorialSpec` adds weak fairness of `GivesUp`
(the client has a timeout) and strong fairness of taking the mutex for each goroutine:
a waiter of a `sync.Mutex` that loses it to others repeatedly gets it by the mutex's
starvation mode. Requests, calls and answers of a server are never
assumed to happen. `QuietCircuitCloses` assumes, as its premise, that the failures of
a key stop.

**Findings.** (1) `Preview` ignores `ai_route.profile` when the body names a virtual
model, `Rewrite` does not (engine.go:143-149 and 110-115): a preview of
`{"model":"auto","ai_route":{"profile":...}}` is decided with another profile
than the inference request it previews. (2) The gateway replaces a name by provider and
`upstream_model` (gateway.go:113-121), and the plugin looks that up in the index of
configured names (policy.go:34, main.go:157): with an `upstream_model` that is not the
rest of the slug and a provider without discovery, every request through the gateway
for a configured model ends in 400 `unresolved_model`; where another entry owns the
new name, that entry's upstream model is sent. (3) A variant of a passthrough model is published under its
first alias without a slash or its `upstream_model` (resolver.go:148-160), but found
only under slug, aliases and the rest of the slug (131-146): with another
`upstream_model` and no short alias, the published name leads nowhere, or to a
discovered model without the variant's window. A fallback replaced by its published
slug (config.go:296) can break the same way. (4) The rest of a nested slug is a name
(resolver.go:133): `router/openai/new` owns `openai/new`, and hides the
discovered OpenAI model that `docs/adr/0002-request-scoped-openai-auth.md` sends
to OpenAI with the caller's authentication. (5) `Restore` replaces the config
without a backup of it (profile.go:116-129), while `docs/security.md` says that the
editor makes one before modifying an existing file; the counterexample rolls back to
a backup that a failed write left empty.

Met while modelling, and not runs: a model entry without a `route` object is a
candidate of automatic routing, its zeros read as quality 0.60, reliability 0.99 and
cost 0 (engine.go:201-263; `docs/routing-engine.md:56` speaks of entries with reviewed
metadata). A model that converts inherits the adapter `native` of a provider that does
not, and `native` validates nothing, so without a fallback hosted tools are converted
away in silence (config.go:246, `docs/compatibility.md:9-15`). The setup script says
"no changes were made" (setup-local.sh:107) also where the third question is declined,
after it has copied its configuration over the file that the existing containers have
mounted (175, 386, 395). They read it when they are started again, one of them perhaps
and the other not, so that core and gateway may then run different configurations:
`core.config \in {0, intact}` is not an invariant of LocalSetup, and `SameConfiguration` is
what is left of it. A run that cannot inspect the containers (113) asks nobody, and has
overwritten the key file (372) when `docker run` finds the name taken: the working
installation goes on with a key that is left in Codex's configuration only. A variant of a model whose provider
puts its own name at the end of a display name is labelled with it twice. Two runs of
the script at once interleave their keys and containers freely: LocalSetup's
properties are about runs one after the other.

## 4. Proofs

Every invariant and every action property of the seven passing runs is proved for every
value of the constants (any number of keys, models and requests, any threshold, window
and resolution of the average; any configuration and any order of its maps; any name
asked of any accepted configuration, at either process, and any lists a provider or
ChatGPT may answer with; any number of lookups, any lifetimes, catalogs of any length;
any number of commands, edits and losses of power on texts of any length; any number of
setup runs). What is left to TLC:

* `QuietCircuitCloses` and `LookupsReturn`: liveness, out of the prover's reach.
* `PlainOffers`, the hypothesis of `ListedAsServedCorrect` and of nothing else: no
  provider offers a model under the name or slug of one of the router's context
  variants, and the label it offers a model with is empty or the provider's own name. It
  says what `DirectLists` and `Offers`, which are external, may hold; it is not a fact
  about this code, and a display name that a provider ends in something else would show
  through in the list. The offers and direct lists of the run satisfy it under each of its
  configurations.

Assumptions, which TLC evaluates in every run:

* `HealthConstants`: threshold and window at least 1, `Scale` at least 3 (with
  `Scale` = 2 a failure would not lower the rounded average).
* `AutoRouteConstants`, what validation leaves: model names distinct; a chat
  completions model has neither search nor vision; names resolve to keys; profiles
  of aliases exist.
* `ConfigConstants`: a decoded configuration has its types and no slug twice, no
  slug is another's with `#variant` behind it, and no upstream model or alias is a name
  that is nothing but marks, like `-1m`. The code would take such names; they are left out
  because a name here is told from its marks (`Said`).
* `EditorialConstants`: lifetimes and timeout at least 1.
* `TextConstants`, `ProfileConstants`: the user's lines are not the editor's; a
  missing file is not a text.
* `CatalogConstants`, `DispatchConstants`: types; nobody asks for, offers or configures as
  an alias a name that is nothing but marks (`Said`).
* `SetupConstants`: the number of runs is a number.

* **FoldLemmas.** A loop over a slice is a `FoldLeft` in the models, which the community
  modules define through a recursive function on the sets of indices passed. Induction
  over data being out of reach as a rule of inference, two lemmas replace it: `Induction`
  is about a *set* of numbers instead of a predicate and follows from the least number
  outside of it, and `LoopExists` shows that the recursion has a value at all, whatever a
  turn does, by the least number of turns for which it would have none. `LoopValues`
  gives the sequence of values a loop goes through, `LoopStays` that what every turn
  keeps holds in the end. Nearly every theorem about a fold below is one instance of them.
* **RouteHealthProofs.** `HealthTypeOK`, then `HealthInv`, a record-by-record
  invariant: the average is below `Scale` whenever the streak is not empty and never
  0, the deadline is set exactly when the streak has reached the threshold, and
  is at most a window away. It gives `DeadlineMatchesStreak` and
  `FailingKeyLosesWeight`. `HealthImplementsCircuitBreaker` proves the refinement
  action by action: success is `Succeed`, failure is `Fail`, a tick is `Elapse`,
  a restart `NewProcess`, a status that does not count a stutter.
* **RouteHealthProofs**, on ObservedHealth. The observer only watches (`ObservedSpecIsHealthSpec`);
  `StreakInv` says that the counter, up to the threshold, is the number of
  failures at the end of the remembered outcomes and the deadline is one window
  after the last failure. Hence `OpenExactlyAfterStreak`. `OpenCircuitHolds`, about one
  step, follows from both in the state before the step, with one lemma for the
  response (`OpenCircuitAfterResponse`), the only action that changes a deadline.
* **DecisionAuditProofs**, on AutoRoute. `FiltersAreThePolicy`: the filters of `decide`, with their
  defaults, zero-means-none limits and truncating division, are equivalent to
  the policy as documented (`Allowed`). `AutoInv` adds to the type invariant that
  every score kept so far belongs to an allowed model the walk has passed, that the
  candidates have a best one (the induction over the walk that replaces an
  induction over finite sets), and that a model in phase "health" has passed
  the earlier filters. Hence `AutoTypeOK` and `SelectedSatisfiesPolicy`.
* **DecisionAuditProofs**, on DecisionAudit. `WatchInv` relates the walk to the history of the
  circuits: always closed => closed now => once closed; every scored model was once
  closed; no allowed model that was always closed is passed without a score.
  `QuietInv` says that, while the health seen at the start is still there, the
  models passed are eligible and scored exactly as that health says. They give
  `SelectionJustified`, `RefusalJustified` and `QuietDecisionIsAtomic`. The
  invariants split into a part that speaks of the current health and a part that
  is monotone in the history, so that the steps of other goroutines need one lemma
  (`KeptIsMonotone`).
* **ConfigValidationProofs.** `ValidationInv`: what a loop has reached is what
  `Sound` computes from the given configuration, what it has not reached is as given;
  every owned name belongs to a model that is done, with its slug or its variant
  mark; the entries of the models done have disjoint names; and a rejected
  configuration is not `Sound`. The two halves of a turn of the model loop are
  `SoundModelsPass` (in a sound configuration no claim fails, whatever was claimed
  before) and `FreeNamesAreNew` (claims that succeed are new names: here
  `ConfigConstants` is needed). At the end of the loop the last claimant of a name
  is its only one (`IndexGivesClaimant`). Hence the five properties of the run. Of the two that other runs
  refute it is proved how far they reach: every published slug leads back to its entry
  where variants are published under a name their model answers to
  (`PublishedEntriesRouteIfOwn`), and openai/model reaches OpenAI where no model of
  another provider answers to such a name (`OpenAINamesReachOpenAIIfOwned`).
* **EditorialCacheProofs.** `CacheInv` has three parts. `LockTypeOK`: the mutex is held
  exactly while its holder fetches. `QueueInv`: the fetch in progress will be over in
  time for everyone who queues, and with the mutex free whoever has waited for a while
  finds the cache fresh; the second half is why the first survives the next
  `BeginFetch`. `ExpiryInv`: what `expiresAt` was computed from. A success and a failure
  share one lemma (`EndOfFetch`). Hence `WaitsForOneFetch` and `StaleOnlyAfterFailure`.
  `DataInv`: both maps are what the loops make of the last catalog received, whatever has
  failed since. `IDsDescribe` says by induction over the catalog that the map by id holds
  what `Described` finds there without a loop, `FoundIsDescribed` that a lookup answers so.
  Hence `EditorialTypeOK` and `AnswersMatchCatalog`.
* **CodexProfileProofs.** `ProfileInv`: types, `PowerLossLeavesWhole`, and
  `BackupInv`, that a command past its backup has one of the text it read unless that
  was empty. Hence `ReplacedTextIsBackedUp`. `InstallIsReversible` is proved of every
  text: where the first marker and the last ink of a text are is a least or greatest
  number (`LeastNatural`, from the well-foundedness of the naturals), and the merge of a
  text without markers has them at known places (`MergedText`), so cleaning undoes
  it. For `OneBlock`, `NeatInv` says that the config, all it may be after a loss of
  power, every backup, and every text read or about to be written have no marker twice and
  nothing but options between markers: a rollback would bring back whatever a backup
  holds. `CommandsKeepOwnLines` needs it too: what `Cleaned` cuts out has no line of the user's
  because of it (`CleanedKeepsLines`). `OwnLines` is a fold, and that it distributes
  over concatenation is `OwnLinesConcat`. `LinesInv` says that a command
  that has decided, and whose text nobody has replaced since, is about to write the
  user's lines as they are.

* **DispatchProofs.** `RouteInv` says of a request, stage by stage, what its body, target,
  path, token and key are. It rests on what a name leads to in an accepted
  configuration, which `ValidationInv` gives: an answer comes from the index or from a
  provider's discovery (`IndexedAnswer`, `DiscoveredAnswer`), a slug and the rest of a
  slug lead to their entry (`SlugAnswers`). The lemma that carries `ServedAsResolved` is
  `CanonicalAgrees`: if the name the gateway sends for a model is the model's own, the
  plugin finds for it the same provider and mode, and the same upstream model where
  it sends that. From there the steps of the plugin keep what the gateway's step has
  set up (`CanonicalArrives`). `TokenReachesOpenAIOnly` needs none of it: `Decide`
  and Bifrost's split read the same body (`AuthorizedInv`), and only OpenAI may take the
  caller's token (`AnswerFacts`). `HostedToolsRunNatively` needs that the fallback,
  applied once, leaves nothing to convert (`FallbackLeavesNative`);
  `SelectedModelIsObserved` that a selected slug survives it (`SelectableFacts`). Serving
  changes no configuration, so an invariant with the old configuration holds with the
  new one (`RouteFrozen`). `DispatchInv` joins to it:
  `Typed`, that each field of a request has its type at every stage; `NamedInv`, that the
  gateway's target is what the name asked leads to where nothing replaces it; `PickedInv`
  and `ShownInv`, about lists. A listing is `Raw` if its window and label are what may stand
  there before the decoration that ends every list, and `Ready` if they are what may
  stand there after it. Offers are `Raw` if they are plain, every turn of every loop of the
  catalog keeps a list `Raw`, `DecorateModelReady` makes it `Ready`, and `Ready` is
  `Raw` again, which is why the second process may decorate what the first has
  decorated. So whatever is picked is `Ready`, and together with `NamedInv` and
  `CanonicalAgrees` that is `ListedAsServed`. That every model shown has something before
  its marks goes the same way, and makes `ServedAsResolved` hold of models picked from a list, too.
  `UpstreamModelIsSentIfCanonical` says how far the statement refuted by `upstream_sent`
  reaches: where the name the gateway makes is the target's own.
* **LocalSetupProofs.** `RunInv` is what a run relies on of its own earlier steps: past
  `Stage` the staged configuration is its own, past `StoreKey` the key file is, past
  `RunCore` the core is unless it is gone, past `Healthy` its key has been served. A user
  removes containers only between runs, and whatever stops, an answering pair of
  containers has been served under its key. A run that goes on past its third question
  without having been told to replace the installation has not seen it (`missed`), and
  gets no further than `RunCore`, whose name is taken. That is `KeyStep`, and with
  `CodexStep` it gives `SetupKeepsKey` and `CodexChangedOnlyWhenServed`. What a container
  reads is what is staged at the moment (`ContainerStep`), and what is staged is never
  followed by an earlier run's: hence `ConfigurationStep` and `SetupConfiguration`.

The five violated statements are not theorems; three of them are under the conditions
named above. A string constant cannot be shown to be in `STRING` by the installed provers,
which is why `Suffix` and `Refusals` name the strings that occur.

## 5. Not modelled, and the plan

Every subsystem with behaviour of its own has a module. What is left out, and why:

* **Init of the plugin beside requests** (main.go:34): Bifrost calls it once before it
  serves, and nothing in this repository calls it again; a second call would publish
  configuration and engine one after the other.
* **Endpoints other than Responses and models**: the gateway forwards them unchanged, and
  the plugin's hooks return early for them.
* **Adapters' texts** (adapters.go): which system messages are joined, and the other
  reasons to refuse a request. Each transforms one request by itself; Dispatch models
  which adapter a model gets and whether it lets hosted tools pass.
* **Defaults of `auto_route`** (config.go:467): whether they are valid is one Boolean of
  ConfigValidation; the aliases and profiles after defaults are constants of AutoRoute.
* **Health of two engines over time**: AutoRoute has one, Dispatch leaves open what
  either selects.
* **Two setup runs at once**: nothing in the script keeps them apart, so no property
  holds of them.
* **Responses after their status**: a stream that breaks later is still a success; nothing
  reads it afterwards.
* **Scripts that wrap others, command line parsing, the mock provider, packaging**: no
  state of their own.
* **Data**: parsing and encoding of JSON and TOML, the text heuristics of `inspect`, the
  floating-point terms of a score that health does not touch, headers, wording.

Next: the agreement of adjacent modules (that a slug AutoRoute selects and the key it
observes are those of Dispatch, and that the accepted configurations of ConfigValidation
satisfy `AutoRouteConstants`) as theorems; conditions, as theorems, for the
two violated statements that have none.

## 6. Running the checks

```
tlc -config ObservedHealth.cfg ObservedHealth      # about one minute
tlc -config MCDecisionAudit.cfg MCDecisionAudit    # about two minutes
tlc -config PreviewProfile.cfg MCDecisionAudit     # finds the violation
tlc -config MCConfigValidation.cfg MCConfigValidation   # seconds
tlc -config PublishedName.cfg MCConfigValidation        # finds the violation
tlc -config DiscoveredOpenAI.cfg MCConfigValidation     # finds the violation
tlc -config MCEditorialCache.cfg MCEditorialCache       # about one minute
tlc -config MCCodexProfile.cfg MCCodexProfile           # two to three minutes
tlc -config ProfileBackup.cfg MCCodexProfile            # finds the violation
tlc -config MCDispatch.cfg MCDispatch                   # seconds
tlc -config UpstreamSent.cfg MCDispatch                 # finds the violation
tlc -config LocalSetup.cfg LocalSetup                   # about one minute
tlapm RouteHealthProofs.tla                        # and the other *Proofs modules
```

Deadlock is checked in the passing runs except `config_validation` and `dispatch`, where
validation may end in a refusal.
