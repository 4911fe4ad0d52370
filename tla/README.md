# A verification project for openterms

openterms records what software agents do. Python packages look up what a site
permits, evaluate policies over receipts, sign receipts and send them to an
ingest service, and adapters wrap the tools of LangChain and CrewAI with such
receipts. This directory holds TLA+ modules translated from that code,
configurations that model-check them with TLC, and theorems checked by TLAPS.
Sources are named relative to the repository; `PC` is
`packages/openterms-py/openterms/permissions/client.py`, `CL` is
`packages/openterms-py/openterms/client.py`.

Contents: [Inventory](#inventory) · [Hard behaviours](#hard-behaviours) ·
[Modules](#modules-and-how-they-correspond-to-the-code) · [Runs](#runs) ·
[Fairness](#fairness) · [Proofs](#proofs) · [Only model-checked](#only-model-checked) ·
[Divergences](#where-documents-and-code-disagree) · [Not modelled](#not-modelled) ·
[Plan](#plan)

## Inventory

| component | code | state | operations | what makes it correct |
|---|---|---|---|---|
| Permission lookup client | `permissions/client.py`, `models.py` | `_default_client` with its configuration | `fetch`, `check`, `discover`, `permission_receipt`, `clear_cache`, `configure` | an allow rests on a document the domain served; a call reports what was served during it, from the URL of highest rank; calls return; withdrawn documents go out of use |
| Terms cache | `permissions/cache.py` | `_store` under a lock | `get` (which evicts), `set`, `delete`, `clear` | an entry is what its URL served for that domain, with a lifetime its header gives |
| Policy engine | `policy/engine.py`, `types.py` | local to an evaluation: next rule, fired lists, deadline | `evaluate`, `evaluate_with_context` | never fails open; complete audit lists; precedence; returns |
| Policy rules | `policy/rules.py` | none | ten evaluators in `DISPATCH` | neighbouring rule types agree at every boundary and on absent fields |
| Pattern language | `policy/pattern.py` | two indices, last star, resume position | `match_one`, `resolve_path`, `_glob_match` | answers as the declarative meaning says; no index out of range; terminates in quadratic work |
| Receipts | `receipts/canonical.py`, `signing.py`, `verification.py` | none | `build_payload`, `canonicalize`, `sign_receipt`, `verify_receipt`, `build_jwks` | only what was signed is valid; what was signed stays valid when a store drops nulls and adds fields |
| Ingest client | `CL` | `_jwks` | `emit_receipt`, `emit_post_action_receipt`, `fetch_jwks`, `verify` | a fetched JWKS decides; a repeated call is stored once if its fields are pinned or it has a key, and answered truly; emissions end as far as timers reach |
| LangChain handler | `langchain-openterms/.../handler.py` | `_pending`, `_per_tool_terms` | `on_tool_start`, `on_tool_end`, `on_tool_error`, `set_tool_terms` | receipts of a run share its id and are an audit trail; no pending entry outlasts its run |
| CrewAI wrapper | `crewai-openterms/.../wrapper.py` | none between calls | the callable of `wrap_tool` | ingest errors stay inside; strict tools run only when recorded; receipts are an audit trail, in order |
| Corpus generator and replay | `scripts/generate_corpus.py` | `chain_state`, `per_day`, receipts, decisions, differences | generation, evaluation with daily snapshots, validation, simulation | chains are linked; each bucket fires its rules; the limit follows the day's total in each evaluation; differences are those of the changed rules |
| TypeScript SDK | `packages/openterms-ts/src` | client options, `_jwks` | the client's emission with `_withTimeout`; ports of receipts, engine, rules and matcher | as the Python modules it ports; a timer that covers the headers only |
| Ingest and key service | not in the repository | receipts, published keys | append, publish, rotate | (external) |

How they interact:

* The application calls the lookup client from any thread through module-level
  functions; every client shares the module's cache (`PC:103`), and nothing is
  locked across a lookup, its requests and its store. Sites and the registry change
  what they serve whenever they like.
* The adapters hold one `IngestClient`. Each of their hooks makes at most one
  blocking POST; the framework calls the hooks of parallel tool runs from threads of
  their own, which share the pending table under a lock that is not held during a POST.
* The engine calls `DISPATCH[rule.type]` in policy order and looks at a monotonic clock
  before each rule and, in `args_pattern_match`, before each pattern. That rule calls the
  glob matcher through `match_one`.
* `generate_corpus.py` feeds the engine one receipt after the other and computes the
  aggregate snapshot that `daily_limit` reads.
* `IngestClient.verify` takes keys from its argument, else from `_jwks`, else from the
  key service, and hands them to `verify_receipt`.

## Hard behaviours

`PROJECT.json` lists the hazards one by one, each at its line. In kinds:

* *Interleaving and atomicity.* A check is two cache lookups, up to three requests and a
  store; another thread, an eviction, an expiry or a reconfiguration fits between any
  two. The pending table of LangChain and `_jwks` are shared the same way.
* *Stale state.* A slow response is stored over a newer one, or after the eviction that
  was meant to remove it; cached keys outlive a rotation.
* *Timeouts and retries.* The engine's deadline passes between two rules or two patterns; a
  POST that timed out may have been, or may still be, stored, and the call that is repeated
  draws another receipt unless its fields are pinned.
* *Partial failure.* A URL refuses, a rule raises after others fired, a POST ends in
  something other than `IngestError`, a store drops nulls from a receipt.
* *Numeric edges.* Lifetimes of zero, amounts equal to thresholds, the ends of strings.
* *Long legal sequences.* Backtracking of the matcher; chains of receipts; the daily total.

## Modules and how they correspond to the code

An operator whose comment starts with "Slip" is no part of the model. It is a faulty
version of the definition after it, named by a mutant in `PROJECT.json`: put in the place
of that definition it must make the named property fail.

### Lookups: `TermsDocument`, `TermsCache`, `PermissionClient`

`TermsDocument` says what a document answers to an action (`Decision`: the first key that
matches, the bare booleans and `{"allowed": ...}` objects, everything else not specified)
and which lifetime a header gives (`EffectiveTTL`). `TermsCache` has one operator per
cache method. Time is the age of each entry, which stops growing at `MaxAge`; as the
code only compares `now - fetched_at` with the lifetime, nothing is lost as long as
`MaxAge` exceeds every lifetime, and the module assumes it does.

`PermissionClient` composes them. `pc[t]` is where a thread is inside a call:

| action | code |
|---|---|
| `Begin` | a module-level function reads `_default_client` and enters the call |
| `Tag` | the lookup of `check` that serves only the source tag |
| `LookupHit`, `LookupMiss` | the lookup of `fetch`, with the eviction of an expired entry |
| `Receive`, `TryNext`, `GiveUp` | one GET of `_fetch_raw`: accepted, refused, all refused |
| `Stamp`, `Store` | `fetched_at = now`, then `cache.set` |
| `Evict`, `Flush`, `Hash` | `clear_cache(domain)`, `clear_cache()`, `permission_receipt` |
| `Configure` | `configure`: a new client, the same cache |
| `Publish`, `Tick` | the sites and the clock (environment) |

`history` and `during` record what each URL has served, ever and during the thread's call.

### Policies: `PolicyDecision`, `PolicyEngine`, `PolicyRules`

`PolicyDecision` is the promise: one step from pending to the combined verdict of all
rules, or, only under a budget, to a deny with the fired rules of a proper prefix, or to
an error when some rule raises. `PolicyEngine` is the loop: `Check`, `Timeout`, `Apply`,
`MatchPattern`, `PatternRuleEnds`, `Raise`, `Finish`, with `Tick` passing the deadline at
any moment. It implements `PolicyDecision` under the mapping that forgets the loop.
A rule is what evaluating it comes to; `PolicyRules` gives the ten rule types themselves,
over receipts that map dotted paths to values, and `CorpusReplay` uses them.

### Patterns: `GlobPattern`, `GlobMatch`

`GlobPattern` defines what a pattern means: the target can be cut into consecutive
pieces, one per pattern character. `GlobMatch` runs `_glob_match` one loop iteration per
step (`EnterStar`, `Consume`, `Backtrack`, `Mismatch`, then `SkipStar`, `Return`).

### Receipts: `ReceiptFormat`, `ReceiptVerifier`

`ReceiptFormat` keeps of a receipt what signing and verification tell apart: fields that
are required, optional and not signed, each absent, null or some content with or without
null members. A hash is what was hashed, a signature is a key with a hash: SHA-256 and
Ed25519 are taken to be perfect. `VerifyReceipt` has the tests of `verify_receipt` in its
order. `ReceiptVerifier` puts them to work: `Sign`, `Publish` and `Activate` for rotations
(keys stay published, so key *n* comes with the *n*-th JWKS), and the client's `Verify`,
`Refresh`, `Served`, `FetchFails`, `Store`, `Return`, with the request and the assignment
of `_jwks` as separate steps. `Arrivals` is every receipt that may come of a signed one
when a store normalises it, one field changes, or parts of envelopes are exchanged.

### Emission: `ReceiptEmission`

The application makes each call with the same options (`receipt_id` and `timestamp` pinned
or drawn, an idempotency key or none) and repeats it when it raised. An attempt is
`Emit` (payload, signature, request), `Headers`, `Reads` (body, status, JSON), or an end
in between: `TimesOut`, `TimesOutReading`, `Breaks`. The variable `sdk` says which of the two
clients it is: what they turn into `IngestError` differs, and so do their timers. TypeScript's
(`_withTimeout`) runs from the request to the headers. Python's is one of each read of the
socket, of the headers as of the body: `receiving` says that a read is under way, `Part` that
something arrived and ended it, `Receive` that the next one begins with its timer armed anew.
`Arrive`, `Refuse` and `Part` are the network and the service, external,
as `docs/DOCUMENTATION_TASKS.md` describes it (duplicates by content, conflicts by key).

### Adapters: `ReceiptIngest`, `ToolAudit`, `LangChainHandler`, `CrewAIWrapper`

`ReceiptIngest` says how a POST ends (`answer`, `IngestError`, or an exception that
`_post` does not catch) and what the service has stored by then; what was given up on may
be delivered later. It is `ReceiptEmission` as the adapters see it, which draw a fresh
receipt for each POST and never repeat one.

`ToolAudit` is the abstract promise to a reader of the service's log: of each use of a tool
at most one pre-action receipt (`Announce`) and, after its POST is over, at most one
post-action receipt (`Conclude`); with `PostNeedsPre` only after an answer. Both adapters
implement it (`ImplementsAudit`), each with its own notion of a use, of how far its receipts
have got (`Stage`), and of what a reader correlates receipts by (`Audited`):

| | use | `PostNeedsPre` | correlated by |
|---|---|---|---|
| `LangChainHandler` | a run | `FALSE`: the entry is recorded after an `IngestError` too | the `receipt_id` the receipt carries |
| `CrewAIWrapper` | an attempt at a call | `TRUE`: the wrapper posts only after an answer | the attempt |

`LangChainHandler` has one action per part of a hook between two POSTs or locks; what a hook
raises is dropped, since `raise_error` is false. `CrewAIWrapper` has one action per part of
the wrapped callable, and `Retry` for callers that repeat a call that raised.

### Corpus: `CorpusReplay`

`Plan` is `build_bucket_assignments` and `assign_timestamps`: buckets in their fixed order,
daily-limit receipts two hours apart on two days, the others spread over the window, in
milliseconds. A scenario that lacks a bucket, or whose buckets do not add up to its `count`,
ends the program, so `Init` has no such.
`Generate` draws a receipt as its bucket allows (nondeterministically) and moves
`chain_state`. `Evaluate` decides the next receipt with the snapshot of its day and adds its
amount to the total; `Evaluated` ends an evaluation: after the decisions come the
reproduction, `Valid` (`validate_corpus`), the simulation with the second policy, and
`compute_simulation_diffs`. A decision is a function of the rules' verdicts (`Verdicts`,
`Decision`), which are those of `PolicyRules` with the total of the day as the snapshot.

`MC...` modules hold small instances for TLC, `...Proofs` modules the theorems.

## Runs

| run | question | bounds and why they are enough |
|---|---|---|
| `client_race` | Can two threads that check and evict one domain, at every interleaving with expiry and a change of the site, cache or answer what was not served? | 2 threads, 1 domain, 2 documents and an outage at each of 3 URLs, one with the default lifetime of 1 and one kept for ever, ages to 2; about 0.9 M states. A store over a store, a store after an eviction and an expiry between the two lookups of `check` all happen |
| `client_shapes` | The same for every kind of call, document shape and two configurations. | 1 thread, 6 kinds of call, documents that grant, shadow a grant by null, or make `check` raise; headers with max-age, none, no-store; about 1.7 M states. `IInv`, the invariant of the proofs, is checked here |
| `client_liveness` | Do calls return, and does a replaced document go out of use? | 2 threads that fetch; all lifetimes positive; one change |
| `engine` | Does the loop fail open, lose audit entries, or decide what its promise does not allow? | all policies of at most 4 rules out of 8, one for each behaviour the loop tells apart, deadline at every step |
| `glob` | Is the matcher right, bounded and terminating? | all patterns to length 4 over two letters, `*` and `?`, all targets to length 5: two stars with text between them, and backtracking past several false starts |
| `langchain` | Do receipts keep to their runs, and are they an audit trail? | 2 concurrent runs and one without a `run_id`, 2 tools, terms set at any moment, every end of every POST, late delivery |
| `crewai` | Do ingest failures stay inside the wrapper, are strict tools recorded, and are the receipts an ordered audit trail? | 2 overlapping calls, one repetition each, every end of every POST, late delivery |
| `emission` | What is stored and answered when calls are repeated over a network that loses and delays; how far do timers end an emission? | either client, 2 calls made at most twice (`MaxTries`), which may share the one key; pinned by `receipt_id` only, by both fields, by key, by all; an answer that comes in parts, without end |
| `corpus` | Are chains linked, do buckets fire their rules, do limits and differences come out right, do rule types agree? | 4 scenarios, 0.4 M states: 4 receipts of the allow bucket (a chain of 3 and the start of the next); a day over its limit by receipts of three buckets; training, off-list tool and allow; 6 receipts of the other buckets, on which each rule fires. 2 agents, amounts under, at and over each threshold, two policies that differ in an amount and a list |
| `verify` | Can anything be valid but what was signed, is what was signed valid, and do fetched keys decide? | 1 receipt, 2 keys, 2 threads that fetch and one of them (`Verifiers`) that verifies; changes of a store, of one content and of the envelope; JWKS entries good and bad; contents that cannot be canonicalized. Parts exchanged between two receipts, keys of another type and more verifying threads are left to the theorems, which cover every number |
| `found_no_store` | Is a no-store document kept out of the cache? (violated) | as `client_race`, without concurrency |
| `found_value_lost` | Is a tool's value always passed through? (violated) | 1 call |

Deadlock is checked where it means something, in the runs of the lookup client and of the
verifier, whose threads can always begin another call. The other systems stop when their
runs, calls, receipts or evaluation are over, and say `CHECK_DEADLOCK FALSE`.
Symmetry is used over threads, runs, tools, calls and agents, which no property
distinguishes, and in no run with a liveness property (`ImplementsAudit` is a safety
property). The bounds `MaxChanges`, `MaxRetry`, `MaxTries`, `MaxKeys`, `MaxReceipts` and
`MaxRules` stand in guards of the model; theorems hold for all their values.

## Fairness

* `client_liveness` assumes weak fairness of the steps of each thread and of time. No lock
  is held across steps, and a GET of `_fetch_raw` that meets silence times out (`PC:304`); as
  `requests` bounds the connection and each read only, that no answer trickles for ever is
  assumed of the sites. So a started call goes on. Beginning calls, publishing and configuring are not fair.
  `RevocationTakesEffect` is stated for lifetimes that are positive; with a lifetime of
  zero it is false, as `found_no_store` shows in its way.
* `engine` assumes weak fairness of the evaluation itself and none of the clock: it
  returns whether or not the deadline ever passes.
* `glob` assumes that the loop goes on.
* `emission` assumes of a client that the next read arms its timer (`Receive`) and that a
  timer which stays armed fires (`TimesOut`, and `TimesOutReading`, which TypeScript does not
  have), and nothing of the network, the service or the application. `EmissionEnds` is what
  follows and no more. A Python emission ends unless parts of its answer arrive for ever: each
  arms the timeout of `urlopen(..., timeout=)` (`CL:257`) anew, so the network need only fall
  silent, or close, once. A TypeScript emission gets past its headers whatever arrives; its body has
  no timer at all.

## Proofs

All theorems are checked by TLAPS for every value of the constants that satisfies the
named assumptions (`DocAssumption`, `CacheAssumption`, `ClientAssumption`,
`LifetimesBelowMaxAge`, `EngineAssumption`, `GlobAssumption`, `ReceiptAssumption`,
`VerifierAssumption`, `EmissionAssumption`, `CrewAIAssumption`, `LangChainAssumption`,
`AbsentAssumption`, `CorpusAssumption`); TLC evaluates these in the runs. Two theorems about
the corpus program have a further hypothesis in their statement, explained there. What
liveness rests on is proved as far as it is safety: `CallsRunOut`, `EvaluationRunsOut` and
`MatcherRunsOut` say that every step brings the system nearer its end.

* **`PermissionClientProofs`**: `TypeCorrect`, `FetchSoundness`, `CacheSoundness`,
  `AllowSoundness`, and their conjunction `InvariantCorrect`. `FetchedDuringCall` is not
  inductive: one must know that an entry is in hand exactly between receipt and store,
  that a thread at a URL has been refused by those before it *during the call*, and that
  what a URL serves now is among what it served during the call (`CallInv`). `CacheGrounded`
  needs the same of the hand (`Recorded`), since a thread may hold an entry while the site,
  the configuration and the cache change. The proof goes in three layers, types, one
  thread's call, and the record shared by all, each with a frame lemma for steps of others.
  `CallsRunOut`: until it returns, a call is moved by its own steps only, each nearer the
  return, and there are at most seven. `QuietCallsAreCurrent` is what one may rely on without
  locks: a fetch or check that goes to the network while its domain's sites stay as they are
  answers what it would answer alone on an empty cache (`Current`). By `FetchSoundness` the
  URLs that refused during the call come before the one that answered, and in an undisturbed
  call they refuse still; the registry is asked only by clients that have one (`KindOK`).
* **`PolicyEngineProofs`**: `TypeCorrect`, `EngineNeverFailsOpen`, `AuditIsComplete`, and
  `EngineImplementsPromise`, the refinement. The invariant `EvalInv` says that in the loop
  `fired` lists exactly the firing rules before `next`, all of them evaluable, and that the
  count of matches is that of the patterns before `pattern`; when done, that the decision
  is one of the three the promise allows. `EvaluationRunsOut` orders the states of an
  evaluation by the rules left and, within a rule, by the steps left: every step but that of
  the clock descends, and the clock leaves both as they are.
* **`PolicyLanguageProofs`**, the matcher: `MatcherTypeCorrect`, `GlobCorrect` and
  `WorkIsBounded`. That only the last star is ever tried again is sound because every full
  cut of the target reaches the last star no earlier than its first try did (`StarInv`,
  `NotBefore`): what a later star skips over, an earlier one could not have used better. The
  work is bounded because a later attempt under one star meets a character of the target at
  a smaller position of the pattern, and none passes the next star (`WorkInv`, `Bound`): no
  position consumes a character twice. `MatcherRunsOut` counts the steps left (`StepsLeft`),
  which every step lowers and which never exceed a bound in the two lengths (`AllSteps`).
* **`PolicyLanguageProofs`**, the operators: `OperatorsAreGlobs`. For every text without
  wildcards and every target, `equals`, `prefix`, `suffix` and `contains` accept what the globs
  `v`, `v*`, `*v` and `*v*` match, as the policies' authors may take for granted.
* **`PolicyLanguageProofs`**, the corpus program: `CorpusTypeCorrect`, `ChainsLinked`,
  `LimitFollowsTotal`, `EvaluationReproducible`, `SimulationExplained`, for every scenario,
  every draw and every two policies with a daily limit. The invariant `CorpusInv` says that an
  active `chain_state` describes the newest receipt (`ChainInv`), that `per_day` is what the
  receipts seen so far charge (`TotalInv`), and that every decision ever made is a function
  of the corpus alone: of the policy, the receipt and what the receipts before it charge on
  its day (`DecidedInv`). It is `DecidedInv` that makes the properties of finished
  evaluations inductive: the totals are forgotten, and what they were is told by the receipts.
  From it the second evaluation agrees with the first, so that the first check of
  `validate_corpus` cannot fail, and the simulation differs only where a changed rule turns.
  `SimulationExplained` supposes `SameButParameters`, that the second policy has the rules of
  the first with other parameters, as `policy_v2.json` does; the instance for TLC is checked
  against it. `BucketsFireTheirRules` supposes `Fitted`: the first policy has one rule of each
  type, and the scenario's amounts, tools and URLs lie on the sides of each rule's parameters
  that the buckets are named for. `policy_v1.json` and `scenario.json` of the test fixtures
  satisfy it, and TLC evaluates it of the instance (`MCScenariosAssumption`). Under it no draw
  of any bucket fires a rule more or less than its bucket is for (`BucketsDrawn`,
  `BucketFires`). That rules have distinct ids (`WellFormed`) is true of the policy files and
  checked by no code.
* **`PolicyLanguageProofs`**, the rules: `RulesAgreeForAll`, for every policy and every receipt
  that can be drawn, with and without its URL. Its lemma `PrefixIsGlob` brings the two halves
  together: a prefix without wildcards and its glob accept the same texts, of every length.
  Induction goes through `AllNaturals`, which states it of a set and follows from the
  cardinality of finite sets, and `Recursion`: a recursive function over the naturals up to a
  bound exists. `Totals` and `ListsPositions` say with them what `Total` and `Listed` compute.
* **`ReceiptVerifierProofs`**: `TypeCorrect`, `ValidReceiptsWereSigned` (signatures under
  verification are damaged or come from signed receipts, and a signature determines its key
  and signed content), `FetchedKeysDecide`, `SignedReceiptsAreValid` (what a store may do to
  a receipt leaves its canonical content alone, so that every test of `verify_receipt` is
  passed by who has the key), and the lemma `SignedAsSent`: what `sign_receipt` sends is
  signed as its receiver will canonicalize it.
* **`ReceiptEmissionProofs`**: `TypeCorrect`, `RepeatedCallsStoredOnce`, `ClientsHearTheTruth`,
  `PinnedNeverConflicts`, for any number of calls, keys and repetitions and for both clients.
  `EmissionInv` says what an attempt has sent, as the application's options determine it; that
  what it has been told *or is about to be* is true of the stored receipts; that two attempts
  which sent one receipt are not both told that it was created; and that the key of a stored
  receipt is claimed for it. Given only the properties, a late delivery of an earlier attempt
  could take the key or store the receipt that a later attempt was refused for.
* **`ToolAuditProofs`**: `LogIsOrdered`. Every audit trail has each receipt once and, with
  `PostNeedsPre`, the post-action one behind the other. It is inductive with what each stage
  says of the receipts sent: nothing before the first POST, no post-action receipt before the
  end, a stored pre-action receipt after an answer. It rests on lemmas about `ReceiptIngest`:
  the log only grows, nothing else is sent, and a receipt that is new stays stored at most
  once.
* **`CrewAIWrapperProofs`**: `TypeCorrect`, `IngestStaysInside`, `StrictRecords`,
  `WrapperImplementsAudit`, and `PreReceiptFirst`, which is `LogIsOrdered` carried over by
  the refinement. `CallInv` relates where the latest attempt at a call is to the end of its
  first POST, to what the tool came to, and to the log; it also says that an attempt has
  executed the tool at most once.
* **`LangChainHandlerProofs`**: `TypeCorrect`, `ReceiptsKeepToRuns`, `NoEntryOutlasts`,
  `HandlerImplementsAudit`, and `EachReceiptOnce`, the part of `LogIsOrdered` that holds of a
  handler which posts after a failure too. `RunInv` relates where a run is to its entry and to the end of
  its first POST; `Correlated` ties every receipt that was ever sent to the run it is about.
  The refinement rests on it: two receipts that look alike to a reader are the same receipt,
  so that a late delivery removes from the trail what it removes from the network.

## Only model-checked

* Liveness: `CallsReturn`, `RevocationTakesEffect`, `Returns`, `Terminates`, `EmissionEnds`.
  The prover does not handle liveness under fairness.
* That the fixed numbers, lists and patterns of the files satisfy `Fitted` and
  `SameButParameters`: TLC evaluates both of the instance, which has the files in small.
* That `Plan` orders receipts by time, which no property needs: totals are by day and chains
  by position.

## Where documents and code disagree

Two are shown by runs and listed as findings:

* `PC:62` "Treat no-store / no-cache as TTL=0 (do not cache)"; a lifetime of 0 never
  expires (`models.py:31`), and the document is answered from the cache for ever
  (`found_no_store`). For the same reason "Pass ``0`` to disable caching" (`PC:378`) makes
  caching permanent.
* `packages/crewai-openterms/README.md:74` "The tool's return value is always passed
  through."; `_post` turns only `URLError` into `IngestError`, and any other exception of
  the post-action POST replaces the value of a tool that has run (`found_value_lost`).

Noticed while translating, allowed by the models, and not given a run:

* `PC:375` says that `configure` clears the cache; it does not (`Configure`).
* `models.py:136` says that a permission receipt has the hash of the document at the time
  of the check; it is that of whatever is cached later (`Hash`).
* `models.py:61`: the source tag comes from a lookup of its own (`Tag`) and may be wrong.
  Both are reads in a call of their own, and with several threads anything may come between.
* `engine.py:7` promises that the clock never affects the value of a decision, and
  `engine.py:16` that time running out means deny; and a last rule that ends after the
  deadline is not denied, as the clock is only read before a rule (`Finish`).
* `pattern.py:53` claims that a target character is consumed at most twice; it is consumed
  up to once per pattern character (`WorkBounded`).
* `langchain-openterms/README.md:54` says that `strict` makes a failed emission propagate;
  `raise_error` is false, LangChain drops the exception and the tool runs. `strict`
  therefore is no variable of `LangChainHandler`.
* `handler.py:51`: the terms set for a tool are only on its pre-action receipt.
* `handler.py:184`: entries are dropped so as not to leak, but those of runs without a
  `run_id` never are (`PendingOnlyRunning` is about the others).
* `docs/DOCUMENTATION_TASKS.md:225` has the daily limit per agent; the only snapshot in the
  repository (`generate_corpus.py:361`) totals all agents.
* `docs/DOCUMENTATION_TASKS.md:230` has `escalation_threshold` fire when the amount exceeds
  the threshold; it fires at the threshold (`Escalates`).
* `docs/DOCUMENTATION_TASKS.md:865` has rotations propagate within 24 hours; `_jwks` is kept
  for the life of the client unless the application calls `fetch_jwks`.
* `packages/openterms-py/README.md:107` says that `verify_receipt` does not raise; it does
  for missing fields and for content that cannot be canonicalized (verdict `raises`).
* `packages/openterms-ts/src/canonical.ts:120` says that negative zero is not
  `Number.isInteger`; it is, and is accepted.
* The adapters put the tool's name at `action_context.tool_id`; `tool_id_allowlist` reads
  `action_context.ors.commitments.tool_id` and would fire on all their receipts, if something
  evaluated them with a policy; nothing in the repository does.
* `packages/crewai-openterms/README.md:68` has failures logged and the tool still run unless
  `strict`; only an `IngestError` is (`wrapper.py:83`). Whatever else `emit_receipt` raises, such as
  `CanonicalizationError` for a float among the arguments, stops the tool, strict or not (the
  outcome `escape` in `CrewAIWrapper`).
* `CL:96` "Per-request socket timeout in seconds."; it is one of each operation on the socket,
  and an answer that trickles arms it anew with every part (`Receive`).
* `tests/fixtures/corpus/README.md:78` says that the stress bucket triggers four rules at
  once; under `policy_v1.json` such a receipt fires five (`max_amount`, `action_type_allowlist`,
  `action_type_denylist`, `url_prefix_allowlist`, `escalation_threshold`: `Meant` of the
  bucket, by `BucketsFire`) and, where the day's total is over, `daily_limit` as a sixth. In the
  committed `decisions.json` four of the five stress receipts fire six rules and one five.
* `packages/openterms-ts/src/client.ts:27` "Per-request timeout in milliseconds.";
  `_withTimeout` covers the response headers only, `res.text()` may take for ever, and a
  request that timed out is not aborted (`TimesOut` leaves it in transit).
* `docs/DOCUMENTATION_TASKS.md:485` has the code of an error at `error.code`; both clients
  read it at the top level of the body (`CL:264`).
* `generate_corpus.py:131` says that daily-limit receipts cross the threshold by their
  cumulative amount; with the committed scenario those of a day stay below it, and the limit
  is crossed only with receipts of other buckets on that day. More than 24 of them, two
  hours apart, would spill over into days after the two they are meant for.
* `generate_corpus.py`, allow bucket: its receipts without commitments are escalated, by
  `tool_id_allowlist` (`BucketsFire`).
* `policy/types.py:84`: a policy without `rules` is the empty policy, which allows.
* `1.0` and `1e2` in JSON text are integers to the TypeScript port and floats, hence
  rejected, to the Python one (`canonical.ts:117`).

## Not modelled

* The TypeScript ports of receipts, engine, rules and matcher, of which the models translate
  the Python originals only; where the two were seen to part is listed above. `fetchJwks`
  and `verify` make the same steps as in the Python client.
* The bytes of canonical JSON and of signatures, base64, and the validation of keys and
  payloads in `sign_receipt`: pure conversions, covered by the repository's test vectors.
* Parsing of policies and the type checks of rule parameters; the wording of reasons.
* The corpus on disk: writing files and `--check`, which compares them; receipt ids, hashes
  and signatures of the corpus, which do not collide and verify (`ReceiptVerifier`).
* `__len__` and `__contains__` of the cache, `emit_receipt_for_tool`, `_build_args`:
  no state changes.
* Examples, fixtures, packaging and CI.

## Plan

1. *Done.* The lookup client and cache; the engine and its promise; the matcher; receipts
   and the verifier; the emission of receipts by both clients; the adapters and the audit
   trail they implement; the rules, and the whole of the corpus program; the theorems above.
2. *Done.* Theorems for every invariant that a run checks, and for the safety part of each
   liveness property but `RevocationTakesEffect` and `EmissionEnds`.
3. *Rejected.* That `ReceiptEmission` with one attempt per call implements `ReceiptIngest`:
   `ReceiptIngest` orders its log by the ends of the POSTs, which is all that the adapters and
   a reader of their receipts can tell, while `ReceiptEmission` stores, in a set, before the
   answer is read. No mapping of states makes a step of one a step of the other.
4. *Extend.* The coercion of policies in the TypeScript port.
