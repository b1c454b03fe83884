# DLP Nova in TLA+

DLP Nova (`src/src/dlp_reasoner/`) is a description-logic-program reasoner: a compiler from
OWL-like axioms to Horn rules, a materializing engine with incremental maintenance, a continuous
query runtime over windows, maps and external providers, and native (C++) counterparts of several
parts. This directory holds TLA+ models of the parts that keep state, the TLC configurations that
check them on small instances, and TLAPS proofs about them. `PROJECT.json` lists runs, mutants,
findings, hazards, theorems, and the source lines of every definition.

Paths below are relative to `src/src/dlp_reasoner/`.

## 1. Inventory

| Component | State it keeps | Operations | What is hard | What makes it correct |
|---|---|---|---|---|
| **Engine** `engine.py` | assertions, rules, facts and their index, dependency table, `complete`, violations, validation snapshot | `materialize`, `add_facts`, `remove_facts`, `add_rules`, `update` | incremental deletion (DRed) through cycles, rule and fact changes together, limits and exceptions in the middle | a result called complete is the least model; a bounded one is sound; reports are current |
| **Support certificates** `support.py` | contexts of one transaction | prove that a fact survives | an old fact that proves itself, budgets that run out | a certificate never keeps an unsupported fact |
| **Horn programs** `model.py` | none | rules, atoms, terms | | |
| **Equality** `engine.py:_union,_congruence,_reindex` | union-find, signatures | merge terms, rebuild the index | merging while facts are followed | the facts are closed under congruence |
| **Compiled joins** `joins.py` | plans | join a rule body | | same matches as the nested loop |
| **Reasoner, schema** `reasoner.py`, `schema.py` | engine, compiled ontology, schema and query caches | `query`, `update`, `classify` | caches across updates, a failed update, queries asked during one | an answer is never from another program |
| **Answer cache** `query_cache.py` | LRU of answers with entry, value and byte budgets | `get`, `put`, `clear` | an entry that does not fit, replacing one | never over budget; only what was put last |
| **Window store** `windows.py` | retained events, tombstones, source offsets, two clocks, revision | `upsert`, `remove`, `advance`, `forget_key`, `checkpoint`, `restore` | pruning against late corrections; redelivery; restart | the window of an unpruned store; each record once |
| **Native windows** `native_windows.*` | the same in C++, and the byte form that each key goes by | the same | values equal in Python with different bytes, changes that cannot be decoded | does what the window store does |
| **Providers** `providers.py` | registrations, generations, pinned snapshots, caches, cursors | `register`, `evaluate`, `scan`, `close`, `invalidate` | replacement while a cursor is open, staged cache publication, lost replies | no answer mixes two generations; every source is closed |
| **Query planning** `query_ir.py` | none | readiness order, stratification, recursion check | fixed points that stop too early or too late | the perfect model; only what is unsound is refused |
| **Query runtime** `query_runtime.py` | plan, index of the last evaluation, native dictionary, last complete result | `evaluate`, `clear_cache`, `close` | state read before a callback and used after it; modes that alternate; failures that retain old results | what is published is exact as of the instant at which its closing check began; the deltas add up |
| **Native evaluator** `query_native.py`, `native_query.cpp` | terms, source rows, memo of operations | transfer, `begin`, `run`, `result` | identifiers of equal values, a plan checked again, transfers that fail half way | the rows that Python would give |
| **Native store** `native.py`, `native_store.cpp` | pending batches, column indexes, cursors and generations | `add`, `discard`, `flush`, `lookup`, `solutions`, `close` | stale cursors, close order, a predicate that comes back with another arity | a reader sees one state of the facts |
| **Native runtime** `standalone.py`, `native_runtime.cpp` | published closure and candidate | `update`, `cancel`, `close` | merges in the middle of a round, cancel against publish | a failed candidate leaves the published model |
| **Packages** `native_package.*`, `packages.py` | prepared queries, kept results | prepare, `run`, `close`; encode, validate | callbacks that move the runtime | a result is of the revision it was prepared on |
| **Map runtime, OSM** `map_runtime.py`, `osm.py` | versions, tombstones, references, published snapshots and their indexes | `load`, `apply`, `close` | partial failure, dependency closure of a change | a publication is all of a change or none, and leaks nothing |
| **Scoped views** `scoped_views.py`, **point indexes** `spatial.py` | one selection, certificates, an index, each under a token of the reasoner | `prepare`, `evidence_digest`, `from_location_view`, `within` | a source that changes during a selection or after it | nothing selected or certified outlives its source |
| **Native libraries** `build_native` and `_library` in `native.py` and six siblings | a cache of libraries shared by processes, lock files, what a process has loaded | build, load | processes that die, edit or remove in the middle of a build | a library is what its key says, built once |
| **Route provider** `osrm.py` | none | route requests | the server's map changes | |
| **Front ends** `parser.py`, `compiler.py`, `query_parser.py`, `cli.py` | none | text to rules | | |
| **Domains, geometry** `domains.py`, `geometry.py`, `spatial*.py` | none | values, distances | floating point | |
| **Mobile bindings** `src/mobile` | handles | forward to the native runtime | | |

How they interact. `Reasoner` compiles an ontology to rules and owns an `Engine`; an update
reaches the engine as one transaction of facts and rules, and every answer cache is keyed by the
epoch of the engine. `QueryRuntime` reads the engine's facts, relations of its caller (window rows, map
snapshots) and providers, and publishes deltas; providers are called back
through `ProviderRegistry`. It evaluates in Python over Python or native indexes, or as a whole in the native
evaluator. `MapRuntime` derives an index and an ontology from a map and publishes them together. The
standalone runtime closes a package's program without Python. All of it runs synchronously on the caller's
thread ("Mutation is serialized by the owning runtime", `windows.py:3`); concurrency enters where a callback or an
iterable of the caller reenters, where another thread cancels, and between processes (source redelivery,
crashes, remote cursors). Hazards are listed in `PROJECT.json`, each at its line.

## 2. How the project is laid out

| Section | Modules, an abstract one first | Instances and runs |
|---|---|---|
| 3 engine | `HornProgram`, `MaterializedView`, `Engine`, `EngineInvariant`, `EngineProofs` | `MCEngine`: `maintenance`; `MCEngineCycles`: `cycles`, `interrupted_prepare`; `MCEngineLimits`: `limits` |
| 4 windows | `WindowStore`, `WindowRecovery`, `WindowProofs`; `NativeWindows` | `MCStreams`: `streams`; `MCWindowRecovery`: `recovery` |
| 5 answers and updates | `AnswerCache`, `ComponentProofs`; `Reasoner`, `ScopedViews`, `PublishedProofs` | `MCComponents`: `components`; `MCPublished`: `published` |
| 6 providers | `SnapshotReads`, `Providers`, `ProviderProofs`; `SnapshotScans`, `ProviderCursors`; `ProviderWire`, `WireProofs`; `RoadSearch`, `ComponentProofs`; `LoopProofs` | `MCProviders`: `batches`; `MCProviderCursors`: `scans`, `rebound_scan`; `streams`; `components` |
| 7 queries | `QueryRules`, `QueryEvaluator`, `NativePlan`, `NativeQuery`, `ComponentProofs`; `QueryRuntime`, `QueryProofs` | `MCComponents`: `components`; `published` |
| 8 native relations | `NativeStore` | `components` |
| 9 equality and the standalone runtime | `EqualityRules`, `EqualityEngine`, `NativeRuntime` | `components`; `MCEquality`: `differences` |
| 10 maps | `OSMStore`, `MapRuntime`, `PublishedProofs` | `published` |
| 11 native libraries | `NativeBuild`, `ComponentProofs` | `components` |

Components that nothing interleaves with are checked side by side in one run (`components`, `published`,
`streams`): the initial state picks one, the others stay where they began, and the run's distinct states
are the sum of theirs. Each property then says something of one component, and holds of the others' initial states.

What could follow: `schema.py`'s proofs of subsumption, the plans of `joins.py`, `replace_graph` and the loops
over batches of the wire adapters.

## 3. The engine

### Modules

* `HornProgram` – programs and their meaning. A rule is the set of its ground instances
  `[rule, body, head]` over the instance's constants; atoms are opaque and carry what the code
  asks of them (`Mirror` for symmetric `NEQ`, `AtomTops` for the `TOP` atoms of their terms,
  `Predicate`). `IsLeastModel` is stated without iteration: a model contained in every model.
* `MaterializedView` – the abstract specification: a transaction withdraws the published closure
  and replaces the program; what is published is the least model of the program.
* `Engine` – `engine.py`'s `Engine` without equality. A call (`materialize`, `update`, ...) is
  split into the steps at which a limit or an exception can end it: ingestion, overdeletion
  rounds, withdrawal, one rederivation, semi-naive rounds, the final report.
* `EngineInvariant` – the inductive invariant, in eight parts named for what they say.
* `EngineProofs` – lemmas about programs, then about the engine, and the theorems.
* `MCEngine`, `MCEngineCycles`, `MCEngineLimits` – the instances.

| Model | Code |
|---|---|
| `asserted`, `rules`, `facts`, `complete`, `violations` | `program.assertions`, `program.rules`, `facts` with its index, `complete`, `inconsistencies` |
| `prepared` | the rule set `_prepare_rules` last built `_dependents` for |
| `delta`, `deleted`, `boundary`, `rounds` | locals of `_dred`, `_run`, `_derive_once` |
| `certified`, `Provable` | the facts added to `protected` by `UnarySupport.proves`, and what it can prove |
| `BeginMaterialize` / `BeginInsert` / `BeginDred` / `Update` | `materialize`, `update_rules`, `_insert`, `_dred`, `update` |
| `OverdeleteRound`, `OverdeleteLimit`, `Withdraw` | the overdeletion loop of `_dred` and what follows it |
| `IngestDomain`, `IngestAssertions` | the `_ingest` calls, with `_store`'s limits: a subset of what did not fit is stored, in any order |
| `DeriveOnce`, `RunRound`, `RunLimit`, `FixedPoint`, `Finish` | `_derive_once`, `_run`, the report |
| `Fail`, `InterruptPrepare` | `_incomplete_on_failure`: an exception anywhere in a call |

Two pieces of state are not variables: the index is a copy of `facts`, and the registered terms
are those with a stored `TOP`. A certificate search stops when its budgets do; which proofs it finds before
depends on the order of sets, so any subset of the provable facts may be certified. Outside the model: equality
and congruence, and datatype values that merge (section 9), join orders. Atoms with function terms are in (they
decide whether DRed may be used and meet `max_depth`).

### Properties

* `CompleteIsLeastModel` – facts advertised as complete are the least model of the current
  program; this is the whole correctness of DRed and semi-naive evaluation.
* `PartialIsEntailed` – what a limit leaves is entailed: partial, never wrong.
* `ViolationsAreCurrent` – complete facts report exactly their constraint violations.
* `WithdrawKeepsSupport` – withdrawal never takes an assertion or domain fact, so a limit or
  failure before rederivation cannot lose it.
* `CallsComplete` – with limits out of reach every call that does not fail ends complete.
* `ViewSpec` – refinement of `MaterializedView`: `closure` is `facts` between calls when
  `complete`, else unavailable.

Fairness: `WF_vars(Step)`. A call is a synchronous Python method that waits for nobody, so a step
that can be taken is eventually taken; nothing is assumed of callers, nor of failures.

### Runs

| Run | Instance | Shows |
|---|---|---|
| `maintenance` | six first-order rules over two individuals: recursion over a symmetric difference, rules sharing a head, the domain, a constraint; one-fact, one-rule, exchange and mixed transactions from an empty and a full program | all of the properties but the limits', with liveness and refinement |
| `cycles` | every subset of eight propositional rules with cycles of length two and three, joint and alternative supports (among them unary rules, for certificates), a bodiless rule, a self-difference; any change of one fact with any change of one rule; exceptions everywhere, at most 5 facts and 3 rounds | exactness, and the invariant behind the proofs |
| `limits` | the naive strategy on a chain longer than `max_rounds` = 3, more facts than `max_facts` = 7, nesting beyond `max_depth` = 1, exceptions everywhere, before the rules are prepared too | soundness of partial results |
| `interrupted_prepare` | violation, on the rules of `cycles` | finding 1 |

Why small instances suffice for the runs: a bug of DRed shows in the shape of support (cyclic,
joint, alternative, asserted and derived), and two to three atoms give every such shape; programs
are reached by arbitrarily long sequences of transactions, since nothing in the state counts them.
The theorems below do not depend on the bounds.

### Proofs

`EngineProofs` proves for every value of the constants satisfying the assumptions of
`HornProgram` and `Engine` (well-typed instances; `NEQ` symmetric; terms closed under subterms;
range restriction, which `_validate` enforces):

* `TypeCorrect` – `Spec => []TypeOK`, unconditionally;
* under `Schedulable`, that is naive strategy or (no interruption before `_prepare_rules` and every
  bodiless instance belongs to a global rule; what findings 1 and 3 break):
  `InductiveInvariant`, `CompleteCorrect`, `PartialCorrect`, `ViolationsCorrect`, `WithdrawCorrect`,
  and `EngineImplementsView`, `Spec => ViewSpec`.

The invariant says what each phase has established and still owes. `CompleteIsLeastModel` alone
is not inductive: it says nothing while a call runs. `OverdeleteInv` keeps, during overdeletion,
that the old facts are the old program's least model, and that every old fact which lost a premise
already followed is deleted, stated by the new program or certified. When `delta` is empty this makes the
survivors entailed by the new program (`SurvivorsEntailed`: the set of old facts that are entailed by the
new program, together with the deleted ones, is a model of the old program, so it contains the old least model)
and leaves only rules of `boundary` owed (`SurvivorsClosed`). `OwedInv` is the semi-naive
argument: every matching instance whose head is not stored has a premise in `delta` or a rule
still to be evaluated once. With `delta` empty nothing is owed and the facts are a model
(`FinishInv`); `SoundInv` keeps them entailed throughout. A certified fact is in every model of the new
program (`ProvableInModels`) and its terms are in the new domain (`ProvableClosed`), so it may stay although its old
proofs are gone. One lemma per action shows the parts it
can disturb; `InductiveStep` collects them.

Only model-checked: `CallsComplete` (liveness under fairness is out of the prover's reach). The
theorems of this section rest on no induction over data: least models are defined by containment, not iteration.

## 4. The window store

### Modules

* `WindowStore` – `windows.py`'s `WindowStore`. The six variables are the fields of the class. A
  refused operation (late, stale revision, gap, capacity) leaves the store alone and is no step.
  `Commit` is `_commit`: prune to the cutoff and the predecessors, check the capacities, replace
  the state, report the change. Three more variables are not the store's: `ledger`, the latest
  accepted version of every id, which is what a store without limits would know; `view` and
  `history`, the relations of a reader that applies each reported change.
* `WindowRecovery` – the store fed from logs whose records are delivered in any order any number
  of times, with checkpoints and restarts from the last one. `origin` remembers where each
  source began.
* `WindowProofs` – lemmas and theorems, of the store and then of its recovery. The inductive invariants
  (`Remembered`, `FedFromLogs`) end the modules that they are about.
* `NativeWindows` – the native store and its Python owner (`native_windows.cpp`, `native_windows.py`), each call
  made of the `WindowStore` next to it. Values have forms, of which several are one value in Python. `Pruned`,
  `Committed`, `NativeUpserted` and the like are the library's part, at most one resulting state;
  `Delivered`, `KeyBytes` and `Publish` the owner's, who gives every key one form and counts its events. A call fails
  before the library commits (memory, exports that are held) or after it, when the change cannot be decoded
  (`FailPublish`), which closes the owner.
* `MCStreams`, `MCWindowRecovery` – the instances.

Abstracted: event values to opaque members, identifiers to naturals in their order, the byte
estimates to one size per kind of record, the checkpoint's encoding, checksum and validation
(what `restore` checks of the content, `Accepts`, is in). A bound that the code does not have:
`MaxTime` and `MaxRevision`, in the guards.

### Properties

* `ActiveIsExact` – the active relation is that of a store that never prunes.
* `HistoryIsSound` – an exposed predecessor is the latest accepted one; pruning never promotes
  an older event.
* `ReadersAgree` – a reader applying the reported changes has the current relations.
* `RevisionsAdvance` – a known version is replaced by one not newer only when it was too old to be
  corrected: the deduplication that the documentation promises "within retained history".
* `Restorable` – the last checkpoint passes restore's own retention check.
* `ActiveIsReplay` – whatever was redelivered, reordered or lost around a restart, the active
  relation is that of each source's log up to its accepted offset.
* `NativeAgrees` – as long as it is open, the native store has the events, tombstones, offsets, clocks, revision,
  predecessors and published changes of the `WindowStore`, of whatever forms equal values came and whichever calls failed.

### Runs

| Run | Instance | Shows |
|---|---|---|
| `streams` | eight versions of four events over two keys: corrections forward, back and to another key, equal times, three removals; width 3, lateness 2, four records at most, clocks to 7, at most 6 changes | the properties of `WindowStore` but for recovery |
| | the same store kept natively: two events, a key of two forms, values of two forms, a source, three times | `NativeAgrees` |
| `recovery` | two sources, one with a correction, one repeating a record; removals; clocks to 6 | `Restorable`, `ActiveIsReplay` |

Width 3 and lateness 2 let either clock decide the cutoff: an event before the window can still be
changed, and one in the window can be too old to be. Six changes are enough for two events, a
third that enters, a move of the clocks, and a correction or removal of any of them. Deadlock
is not checked, because the bounded clocks and revision stop the instance. In `recovery` versions
of one event come from one source in order (`LogAssumption`): across sources a version forgotten
by the window could come back, which the documentation allows.

A sourced record that is refused does not take its offset, so its source is blocked until the
owner allows gaps; the model has this behaviour and no property is about it.

### Proofs

`WindowProofs` proves, for every width, lateness, capacity and set of inputs
satisfying `WindowAssumption` and `InputAssumption` (identifiers, times and revisions are
integers), every property that `streams` checks of it and one more of `entry_rows`: `WindowTypeCorrect`, `ActiveExact`, `HistorySound`, `EntriesSound`,
`ReadersCorrect`, `RevisionsCorrect`. `ActiveIsExact` is not inductive, as it says nothing
of what an advancing clock is about to bring into view. `Remembered` (`WindowRemembers`) says it: a live version
that is not stored is older than the cutoff, and no older event of its key was kept in its place
(`DroppedInv`); a removed event is buried as long as it could be submitted again (`RemovedInv`).
It is kept because the cutoff never goes back (`CutoffBounds`), and because pruning drops only
events before the cutoff and keeps none that is older than one it drops (`Pruning`).
The window starts at or after the cutoff, so the active events are all stored; a
missing predecessor leaves nothing older to be mistaken for it.

Its second half proves `CheckpointsRestorable` and `ReplayCorrect` for every set of logs, order
of delivery and sequence of crashes, under `LogAssumption` and without offset gaps. `FedFromLogs` adds to `Remembered` that the
ledger holds, for every record up to the accepted offsets, that version or a newer one, and nothing
live besides. What a restart brings back is the checkpoint, so the same invariant is
carried for the checkpoint's fields (an instance of the invariant over `saved`). A
checkpoint can be restored because pruning twice prunes nothing more (`PruningIdempotent`).

Only model-checked: `NativeAgrees`, whose statement compares what the library does with what `WindowStore` has
`ENABLED`.

## 5. Answers and updates

* `AnswerCache` – `query_cache.py`'s `AnswerCache`, as operators on a cache (entries from the
  least recently used on, with their totals) and as a specification of `get`, `put` and `clear`.
* `Reasoner` – `reasoner.py`'s `Reasoner` over an instance of `AnswerCache`. `Query` is
  `_cached_query`. `update` is split where queries can be asked from inside it: after the caches
  are cleared (`BeginUpdate`), after the engine has installed the program (`EnterEngine`), while its
  facts are changing (`ChangeFacts`), and at its end (`FinishUpdate`, `Rebuild`, `FailUpdate`). Graph
  writes are split around the listeners that run before a triple is stored (`RevisionMemory`).
  Callers also replace the graph, with an owned or a foreign one, change settings, and use
  the engine behind the reasoner, whose failures its next update has to repair.

What a query computes is abstracted to what it reads: the facts, the program, the graph, the settings, or
a view built earlier. Two kinds of query that read the same are one. `Torn` facts are
equal to each other only because no property compares two answers given while an update runs. A
mutation inside a query is not modelled; the documentation rules it out ("Finish queries
before mutating the reasoner").

* `ScopedViews` – `scoped_views.py` and the point indexes of `spatial.py`, over the whole of `Reasoner`. A call of a
  view (`working`) is a sequence of lookups, each a `Query` of the reasoner, between which any step of the reasoner may be
  taken; it ends by comparing the token it began under with the present one. What a view selects is a function of what it
  read, so a selection is the list of what its lookups read. One family stands for all; certificates name
  their issuer (trusted or not), a scope, and the evidence, which has in it what was selected and the aliases that the engine
  knows of at a later moment (`DigestEvidence`). A call of a view made from inside another is left out.

| Run | Instance | Shows |
|---|---|---|
| `components` | four keys, five answers each of which meets another budget or hides its size | `KeepsLatestWithinBudget`: through replacements, bypasses and evictions the totals are those of what is kept, in budget, and only the last answer of a key can be found |
| `published` | one assertion and one rule that together are inconsistent, two settings, four kinds of query, at most four revisions and new objects (a failed update and its repair, or an update after another change) | `AnswersAreCurrent`: what can be hit, and every view, is what would be computed now; `EngineFollowsSource`: the engine of a reasoner that is used alone has the program of its graph, after failures too |
| | selections of two lookups over one assertion that goes, or comes back in another graph; one certificate, one scope | `ViewsAreCurrent`: what is kept, built or returned under the present token is what there is now, and a certified family is certified by a trusted issuer, for its scope, on evidence of the present |

One cache entry suffices in `published`: entries do not depend on each other, and `components` checks what keeps
several. Two lookups are the least for a change to fall between them. `Around` and
`Selections` in `MCPublished` keep the reasoner to those changes and birth dates and locations to different behaviours, and let a
call be given up only when its source has moved.

### Proofs

`ComponentProofs` proves `CacheKeepsLatest`, `Spec => []KeepsLatestWithinBudget`, for any budgets, keys and answers whose
sizes are natural numbers, those that hide theirs included (`SizesAssumption`, `BudgetAssumption`). The invariant is about the cache as a sequence: one entry per key, each the answer given last, the two
totals the sums over it. `put` subtracts an entry when it replaces or evicts one; that the totals are then still
the sums is the lemma that each loop needs, over the sums as recursive functions (`LoopProofs`).

`PublishedProofs` proves of the reasoner, for any programs, updates, settings and kinds of query:

* `AnswersFollowTheToken` – `Spec => []AnswersAreCurrent`;
* `EngineHoldsTheProgram` – `Spec => []EngineFollowsSource`;
* `ViewsFollowTheSource` – `ViewsSpec => []ViewsAreCurrent`, for any number of lookups (`LookupsAssumption`).

`AnswersAreCurrent` is not inductive: the token can be a past one while an update runs, and an answer
cached then is only looked up later. `ReasonerInvariant` says what an answer stands for: the token it was
stored under names a graph and its revision, an engine and its, and the settings, and as long as
a named part is still the present one, the answer has the present contents of that part
(`AnswersStand`). Parts go on being the present one only while their contents do not move, since revisions only grow
and no token is from the future (`EpochIsPast`); the program that a running call installs is the one its
caller asked for (`CallIsOfProgram`).

`ViewsInvariant` carries that to lists of what was read: whatever a call has read, a view has kept or an index is made of
stands, like an answer, under the token it goes by, and so does the evidence that a call has digested. Every action of the
reasoner keeps what stands standing, by the lemma used for answers. A selection whose token is still the present one is
therefore of the present. The comparison at the end of each call is what makes a selection made across a change worthless
and not wrong; without it (`UnchangedAlways`) a family certified on moved evidence is returned.

## 6. Providers

* `SnapshotReads`, `SnapshotScans` – abstract specifications. A batch is answered, at one step, as the
  data of the registered adapter are at that step. A scan gives a growing prefix of the rows of
  the instant at which it began, and is complete only with all of them.
* `Providers` – `providers.py`'s `ProviderRegistry` with its cache and `evaluate`, split wherever
  it gives control away: before and after the adapter reports its snapshot (`Evaluate`, `Pin`),
  at each row of the caller's iterator (`Row`, `EndRows`), around each batch (`Ask`, `Receive`), and
  at the end, where everything staged is published in one step (`Return`).
* `ProviderCursors` – `scan` and `ProviderCursor` over the same registry and cache: `Scan`,
  `Construct`, then `__next__` split at the open, at every page and at every row given. `Raise` is
  any error of a read, after which `__next__` closes the cursor. Batches do not run next to scans in
  the model: they have other keys (`_key`'s mode), and to a scan they only evict.
* `ProviderWire` – a cursor reading through `HTTPJSONAdapter` from a `LoopbackEndpoint`, as
  messages. A caller that has waited too long gives up; its request may still arrive, in any order.
* `RoadSearch` – `DirectedRoadProvider._distance`, one heap entry and one edge at a time.
* `MCProviders`, `MCProviderCursors`, `MCStreams`, `MCComponents` – the instances.

Between two steps anybody may register, invalidate, clear the cache, or move a dataset to its next
revision: that is what callbacks into the registry and remote datasets can do. Threads are not
needed for it. Invalidation stands for contents that changed under an unchanged revision, so what an
adapter computes depends on the generation too. Both adapters of the instances report the same snapshots,
the worst case for a cache keyed by them. Abstracted: the encoding of keys and the bytes of entries
(`SizeOf`), statuses other than those that may be cached, deadlines and cancellation (they are
ways to `Fail`, `Raise` and give up). Assumed: a revision names one state of a dataset and does not come
back (`SnapshotAssumption`), a consumer closes a cursor only between two of its reads. Bounds the
code does not have: `MaxRevision`, `MaxGeneration`.

`SnapshotsUseRegistry` says whether an adapter may use the registry from the call in which it
reports its snapshot. With it, `scan` mixes generations (finding 2); `scans` is without.

Fairness (`Fairness` of `ProviderCursors`): weak fairness of each cursor's reads. It is what a consumer that goes
on reading gives, and adapters have deadlines, so a page is answered or ends in an error. Nothing
is assumed of registrations, revisions or closing. `ScansEnd` then rests on the limits of rows and
pages alone.

| Run | Instance | Shows |
|---|---|---|
| `batches` | two callers, three rows of two arguments in batches of two, two adapters, two revisions and generations, a cache of two small entries or one large one | `CacheIsExact`: what can be found is what the adapter registered now would compute, and the cache is in its budgets; `ReadSpec`: answers are as of the instant of return |
| `scans` | two cursors, an argument whose rows no longer fit the cache at the second revision and one whose rows then exceed the limit; two pages of at most two rows | `RowsSpec`: a scan, from the cache or not, gives the rows of the instant at which it began; `ScansEnd` |
| `streams` | three scans of one row compete for two cursors over two revisions | `RowsAreOwn`: no row of another scan or revision, none twice, none missing; `LeaksNeedLoss`: a cursor left behind had its open or close given up |
| `components` | every graph of four nodes with lengths 0, 1 and 3, sums from 5 on overflowing | `ShortestFound` against a definition by the number of edges |
| `rebound_scan` | violation, on the instance of `scans` | finding 2 |

Two generations and revisions give every order of one change with the steps of a call; two
callers or cursors share a cache entry, evict each other and outlive each other's pins. Three scans on
two cursors are the least for an identifier to be taken over while a late request for it is on its way.
Deadlock is not checked, since the bounded generations and revisions stop the instances. A request for
the snapshot changes nothing at the endpoint, so `ProviderWire` lets no late one arrive. Sources
are closed with their cursors, as the phases of a cursor say.

### Proofs

`ProviderProofs` proves, for every set of callers, operations, adapters and arguments, every limit and
everything adapters may compute, under the assumptions of `Providers` (a revision names one state of a dataset;
an entry is charged a natural number):

* `CacheCorrect` – `Spec => []CacheIsExact`;
* `ReadsImplemented` – `Spec => ReadSpec`: `evaluate` implements `SnapshotReads`.

`CacheIsExact` is not inductive: it says nothing of what a call has found or staged. `CallInv` adds
it. While the generation is still that of a call, every key of the call is either outstanding or has
the answer of the present (`UpToDate`), and a batch that is out was asked for at the call's own revision
and generation; so what comes back while the pin still holds was computed then or since, which is the same
instant (`BatchIsCurrent`). A reply without repetitions answers every row of its batch
(`EveryRowAnswered`), so nothing is outstanding when the call returns. Once the generation has moved nothing is
claimed of the call, and it never moves back: the one comparison before publication is enough (`ReturnsCurrent`).
Dropping it, as the mutant `PublishableWhenPinned` does, breaks exactly that lemma.

The loops of `_cache_put` and of the publication are recursive functions. That they exist, and what holds after
every round, is proved by induction up to a bound, stated with sets (`LoopExists`, `UpTo`); `ChargedFrom`
compares the sums of sequences that share entries, from which the budgets follow (`PutKeeps`, `PutAllKeeps`).

* `ScansImplemented` – `ScanSpec => RowsSpec`: `scan` and its cursors implement `SnapshotScans`;
* `ScanCacheCorrect` – `ScanSpec => []CacheIsExact`, of the cache next to scans.

Both of these are for adapters that do not use the registry from the call that reports their snapshot
(`SnapshotsUseRegistry = FALSE`, which finding 2 shows to be necessary), and assume that an outcome is a sequence of rows
(`RowsAssumption`). In `ScanInductive` what a cursor has given, followed by the page it holds, begins the rows of the
instant of its pin (`HasRows`); what it has saved for the cache is all that it has given, for as long as
it may be cached. That its adapter is the registered one is claimed only while its generation is still the registry's
(`HasPin`); a cursor that is older publishes under a key that nobody asks for any more.

`WireProofs` proves `ScansReadTheirOwn` and `CursorsAreReleased`, the two properties of `ProviderWire`, for any
number of scans, cursors, rows and revisions (`WireAssumption`). `WireInvariant` follows every message: a
reply carries the rows at the position its request named, of the revision it was opened at (`RepliesOk`); a cursor that
a scan does not know of belongs to an open whose reply is still to come or was given up (`CursorsOk`); a request that
arrives late names a cursor of its own scan, or one already closed (`RequestsOk`).

`ComponentProofs` proves `RoadsAreShortest`, `SearchSpec => []ShortestFound`, for any finite set of nodes, streets and natural
lengths (`LengthsAssumption`); zero lengths and ties are among them. The code keeps no set of visited nodes, so the invariant has to
find them: a node is settled when no entry of the heap repeats its best length. `SearchInvariant` says that no
settled node is farther than what was popped and no entry nearer (`HeapStands`), that every edge of a settled node has been taken into
account, except those of the node at hand that are still in `out` (`SettledStand`), and that each best
length is that of a way with at most as many edges as there are other settled nodes (`WaysStand`) – which is why
`Distance`, over ways of fewer edges than there are nodes, is the right reference. The reference is a recursive
function; what it computes is proved by induction over its bound (`LoopProofs`).

Only model-checked: `ScansEnd` (liveness).

## 7. Queries

* `QueryRules` – `query_ir.py`'s planning (readiness of body nodes, inherited parameters, dependencies, strata) and the
  evaluation of one rule as `query_runtime.py` and `joins.py` do it: joins, assignments, filters, scans, aggregates.
  `Perfect`, `WellFounded` say what a program means when its bodies have no order.
* `QueryEvaluator` – a program planned, then evaluated round by round and stratum by stratum.
* `NativePlan` – the same plan given to `native_query.cpp`, which checks bodies and levels by rules of its own.
* `NativeQuery` – the identifiers under it: terms and rows transferred as differences, values that operations
  generate, the memo of operations, paging, failures half way, closing.
* `QueryRuntime` – `evaluate`, split where it gives control away. Facts, relations of the caller, provider and domain
  registries and the data of every adapter can change there. Each `snapshot()` of an adapter is such a place: keys are read
  (`Evaluate`, `ReadAdapterKey`), snapshots pinned (`Pin`) and keys compared again at the end (`Confirm`,
  `ConfirmAdapter`, `Return`) adapter by adapter. Modes (Python, hybrid, native) may alternate over the index and
  dictionary that are kept. Values have a Python equality coarser than identity.

| Run | Instance | Shows |
|---|---|---|
| `components` | every program of up to three rules out of sixteen with recursion, inequality, filters pure and not, generated values, scans and aggregates, over two values, three inputs, with and without a parameter | `PlansAreSound`: what is complete is the perfect model, and what is refused cannot be evaluated; `BackendsAgree`: the native check refuses no plan that Python makes, and its evaluation ends with the same facts |
| | two evaluations over lexical forms of numbers, one out of the native range, room for five terms and a memo of one | `ReturnsReference`: what returns is what the terms themselves give |
| `published` | an item that is `1`, `true` or `2`, two adapters, one for each of two strata, and a domain, at most four rounds, two edits by others, room for one value in the dictionary | `PublishedIsExact`: what is published is the answer of the instant at which the closing check began; `ReadersHaveLast`: deltas add up across failures; `BudgetsFit`: the dictionary has room whenever an evaluation is within its term budget |

Programs of three rules reach each pair of nodes in a body with a definition of what they read above or below it. One
value of room is the least dictionary, so every second evaluation has to compact it. Two adapters and two edits are enough
for one to move after it was compared and the other, or the reasoner, before. `InRuleOrder` pins them in the order of the
strata, as the instance's program does. Abstracted: scalar types, the arity checks of the planner; limits, deadlines and
cancellation are ways to `Fail`.

*What the closing check is worth.* It compares the token of the source first and then runs the `snapshot()` of every adapter
(`query_runtime.py:866-868`, and `802-804` on a cache hit; `providers.py:358-359`). A callback there can update or replace
the reasoner, or move an adapter that was compared already, and the answer is published all the same. So `PublishedIsExact`
does not say that an answer is current when it is published, which the code does not keep, but that it belongs to one
instant: `moment`, which `Confirm` records when the source is compared. `docs/ENGINE_EXTENSION_IMPLEMENTATION.md:76-77` says
more ("Cancellation, deadlines, provider failures and source changes all prevent publication, including on a cache
hit"), which holds of changes before that instant only. The answer is cached under the keys of that instant, so the next
evaluation does not take it for a current one.

`QueryProofs` proves the three properties of `QueryRuntime`, for any facts, relations, programs, limits and order of calls:

* `ReadersFollow` – `RuntimeSpec => []ReadersHaveLast`;
* `DictionaryHasRoom` – `RuntimeSpec => []BudgetsFit`, by an invariant in which equal values have one term, the dictionary is
  within its size, and what it holds beyond the facts of the running evaluation leaves room for a term budget
  (`TermsInvariant`; `BudgetsAssumption`: the limits are natural numbers);
* `WhatIsPublishedIsExact` – `RuntimeSpec => []PublishedIsExact`.

The last rests on `ExactInvariant`, which says at each place where `evaluate` gives control away what its locals still stand for.
Revisions only grow, so a key that is compared after the closing check began was current when it began, which is in
between (`Between`, `IsConfirming`), and the snapshots that were pinned lie between those of the beginning and of that instant
(`Begun`, `IsPinned`); every entry of the result cache is the answer for its key (`Stored`); an index that is not marked dirty holds what was noted, to the identity of every value,
and while rounds run it holds what is known (`IndexStands`, `IndexHolds`); and as long as the operations have not moved, what is
known after n rounds is the n-th of `Rounds` (`OfProgram`). Two lemmas carry the identities. `DifferencesGive`: an index
that is brought up to date by differences ends with exactly the wanted rows, provided that no row changed its identity, which is what
`MustRebuild` asks. `NewFactsStay`: a native dictionary gives derived facts back as they are. The
latter needs that a program does not give a value the identity of another that is equal to it (`DeriveAssumption`): otherwise the
one that came first stays, in Python's sets as in the dictionary, and backends may differ. Rounds are bounded by
`MaxRounds`, the code's own limit.

`ComponentProofs` proves `NativeRowsAreReference`, `NativeQuerySpec => []ReturnsReference`, for any literals, values,
operation, sets of inputs and capacities. It assumes finite inputs (`InputSetsAssumption`), an id for each term and an identity
order for each term with a value (`LiteralsAssumption`: `term_id` numbers terms, `term_order_keys` gives the written term),
and that the term written for a value has that value, from which the keys of `NEQ` tell all others
(`ScalarsAssumption`). The invariant is `QueryInvariant`: the memo holds only what the operation gives, however
evaluations ended; once rows are transferred the source is the inputs; the table *stands* (`TableStands`): declared terms
have their ids, every other id belongs to one value for which no declared term is written, and the canonical table knows
both. So no two ids stand for one term (`WrittenOnce`), `Different` and `Precedes` on ids are the inequality and the order
of their terms (`DifferentIs`, `PrecedesIs`: equal values need the orders declared with their terms), and the joins give
the reference rows.

Only model-checked: `PlansAreSound` and `BackendsAgree`, whose references are `RECURSIVE` operators.

## 8. Native relations

`NativeStore` is `NativeIndex` over `native_store.cpp`: changes gather in Python (`Change`), go over in batches, any of
which may fail after some rows (`Batch`, `FailFlush`), and are read by bound columns (`LookUp`) or by a cursor over
one or two indexes (`OpenCursor`), which searches the join depth first and is read in batches; bindings are given one by
one, with changes and closings between any two. `contents`, the facts that were added and not discarded, is not
state of the code.

In `components`, with two indexes that share facts of a predicate of two arities and joins over both:
`ReadsAreExact`: a read gives the facts there are, after any failed transfer; bindings are
solutions of the facts at the open, each once, and a cursor with nothing changed is not refused.

## 9. Equality and the standalone runtime

* `EqualityRules` – programs with equality, differences, data values and witnesses, and their `Meaning`: the least
  congruence and set of facts closed under the rules.
* `EqualityEngine` – `engine.py`'s materialization with representatives, signatures of witnesses, rewriting of
  facts and delta after merges, both evaluation strategies, both plans of unary rules. A batch is ingested atom by atom in any order.
* `NativeRuntime` – the kernel of `native_runtime.cpp`, the owner that publishes one complete closure after the other
  (`standalone.py`), and queries prepared on one of them (`native_package.py`), whose callbacks may update, cancel or close.

In `components`, on programs in which a merge enables an old join, leaves as many facts as before, closes an
endless chain of witnesses, contradicts a difference, or joins two spellings of a value: `ClosureIsModel`, at any moment
what is stored follows, and a complete call has everything; `PublishedIsModel`, the published closure is
that of the published program whatever failed; `ResultsAreOfSnapshot`, a result is of the revision it was prepared on.
The `Meaning` is computed without representatives, by closing pairs and facts under their definitions.

## 10. Maps

`OSMStore` is what a map is and what is derived from it: references, limits, the elements a change affects,
geometries, digests. `MapRuntime` adds transactions: records are read one by one from a source that may fail or act in
between, a candidate is derived, published or discarded; holders may close what they were given.

In `published`, two nodes, a way and a relation that may refer to itself, up to three publications:
`ProjectionsAreCurrent`, reused geometries are those of the map and everything that is now said otherwise is named as
affected; `RevisionsAreNew`, no digest returns; `IndexesAreOwned`, failures leave nothing open and close nothing published.

`PublishedProofs` proves all three for any elements, references, versions and changes (`KeysAssumption`,
`VersionsAssumption`): `MapProjectionsAreCurrent`, `MapRevisionsAreNew`, `MapIndexesAreOwned`. `MapInvariant` adds what a transaction owes:
what differs between its map and the published one is in what it has read (`TransactionFollows`), so the
elements that reach a change by references are recomputed; publications are in the order of their maps, each
with a key whose version grew or that is new (`PublishedInOrder`), hence never the digest of an earlier one; and the
numbers given to indexes were never used before (`IndexesAreNew`).

The properties of sections 8 and 9 are only model-checked: what they compare with is computed by `RECURSIVE` operators.

## 11. Native libraries

Seven modules build a C++ library on first use and load it, each with its own copy of the same code: `native.py`,
`native_windows.py`, `standalone.py`, `query_native.py`, `native_package.py`, `spatial_native.py`, `domain_native.py`.
`NativeBuild` is that code once; `Libraries` are the three ways in which the copies differ (whether paths are remembered,
whether an empty output is refused, what a loaded library is known by).

The path of a library is a digest of what it is made of, the sources among it, in a cache that processes share. A builder
reads the sources one file after the other while they may be edited (`ReadFile`, `Edit`), takes the lock of the key and
looks again (`Lock`), has copies of what it read compiled into a directory of its own (`Write`, in parts),
and moves the result into place (`Install`). It may fail anywhere, its process may die anywhere (`Fail`, `Crash`), and
somebody may remove a library (`Discard`). Locks inside a process are why one process is one builder. Assumed, because the
code does: a compiler that reports success has written all of its output or nothing; moving a file is atomic; the operating
system releases the locks of a process that ends. The last is what the code says it relies on: "An OS lock survives neither a
crashed compiler nor a crashed builder" (`native.py:66`). Not modelled: libraries that the environment names, build manifests.

In `components`, two processes over a source file of two versions, one of which has another interface, for each of the seven
libraries, with two compilers for one of them:
`LibrariesAreBuilt`, what is under a key was made of the sources of that key by its compiler, whole, and so is what a process has
loaded for an environment; `BuiltOnce`, no second build of a library that is there, no two builds of a key at once, no lock
without its builder. Two versions suffice for a key to disagree with the checkout, two processes for one to find
what the other has left.

`ComponentProofs` proves both for any processes, compilers, number of files and contents (`FilesAssumption`,
`UnlockedAssumption`): `LibrariesBuilt` and `LibrariesBuiltOnce`. Their invariant says that whoever compiles holds the lock of
its key, and that what lies in its directory was made of the sources in that key.

## 12. Findings

1. `interrupted_prepare` – `update` installs new rules and the validation snapshot before
   `_prepare_rules` runs (`engine.py:1113-1119`). Interrupted between them, the next fact-only update
   finds the snapshot valid, skips the preparation, and advertises a materialization in which the
   new rules never fired as complete.
2. `rebound_scan` – `scan` looks the adapter up, asks it for its snapshot, and only then notes the
   generation (`providers.py:537-549`). If the operation is registered anew from that call, with an
   adapter of the same snapshot, the rows of the replaced adapter are remembered as the new one's.
   `evaluate` notes the generation first.

3. `differences` – a rule whose only body atoms are differences of values is counted as having a relational body
  (`engine.py:340`) and never tried by semi-naive materialization, which still reports `complete`. The naive strategy,
  documented as "a useful correctness oracle" (`engine.py:188`), derives its head. The theorems about the semi-naive
  strategy exclude such rules (`Schedulable`).

Met while modelling, and not runs:

* `docs/PROVIDERS_AND_WINDOWS.md:183` promises the latest accepted event before the window per key;
  the one before it has been pruned (`windows.py:159`), so after its removal or correction none is
  exposed. `HistoryIsSound` says what holds instead.
* Parameters that a rule does not declare are bound in it all the same (`query_runtime.py:688`), where
  `docs/DLP_NOVA_USER_GUIDE.md:285` speaks of declared ones.
* `explain` (`query_runtime.py:440`) gives a reason for the execution mode that `_input_execution_mode`
  (`query_runtime.py:326-351`) need not have used.
* A source that changes while the closing check asks adapters for their snapshots does not prevent publication
  (`query_runtime.py:866-868`), unlike what `docs/ENGINE_EXTENSION_IMPLEMENTATION.md:76-77` says; see section 7.
* Deltas use the equality of Python: a value that changes from 1 to true is published without a delta.
* `MapRuntime.load` on a loaded runtime, or a publication that its holder closed, blocks later transactions.

Hazards without a property, beyond those in `PROJECT.json`: a sourced event that is refused leaves its offset
open and blocks the source (`windows.py:210`); after direct use of the engine the differences of an update are taken
from the reasoner's program (`reasoner.py:505`); a cursor closed from inside its own read (`providers.py:650`);
`replace_graph` refuses only the present revision (`providers.py:917`).

## 13. Not modelled

* Front ends (`parser.py`, `compiler.py`, `query_parser.py`, `cli.py`), package encodings, mobile bindings: stateless
  translation, whose properties are about text.
* `domains.py`, `geometry.py`, what `spatial*.py` computes: values and floating point, over external libraries.
* `osrm.py` compares a revision before, in and after each reply; it keeps no state.
* The search in `schema.py`, updates of a program with equality (they materialize again), byte formats of checkpoints.

`PROJECT.json` gives the status of each component and what is left out of it.

## 14. Running

    tlc -config MCEngine_maintenance.cfg MCEngine
    tlapm EngineProofs.tla      # and the other modules named ...Proofs

Each `.cfg` names the module it belongs to before the underscore (`MCEngine_maintenance.cfg`
configures `MCEngine`). Operators commented "Mutant" are plausible faults of the definition that follows them; each property is
violated by at least one of them.
