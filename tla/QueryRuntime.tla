----------------------------- MODULE QueryRuntime -----------------------------
(***************************************************************************)
(* query_runtime.py's QueryRuntime: one evaluation at a time over the      *)
(* facts of a reasoner, relations of the caller, and operations of         *)
(* providers and domains.  `evaluate` is split where it gives control away *)
(* (the caller's iterables, cancellation, provider callbacks), and there   *)
(* the reasoner can change or be replaced, and so can registries and data. *)
(* Each adapter that is asked for its snapshot is a callback: keys are read*)
(* and compared one after another, with control given away in between.     *)
(*                                                                         *)
(* Facts are pairs of a predicate and a value.  Values with the same       *)
(* `Plain` are equal to Python (1 and True) and still different scalars:   *)
(* sets and dictionaries keep the one that came first.  Row and binding    *)
(* limits, deadlines and cancellation are ways to `Fail`; planning         *)
(* and joins are QueryRules.                                               *)
(***************************************************************************)
EXTENDS Integers, FiniteSetsExt, SequencesExt

CONSTANTS
  Backends,            \* "python"; "hybrid": native indexes; "native": all of it
  SourceFacts,         \* the sets of facts a reasoner may hold
  SuppliedFacts,       \* the relations a caller may pass
  Predicates, Values,
  Plain(_),            \* what Python compares of a value
  Heads,               \* predicates that the program defines
  Levels,              \* its strata are 0..Levels-1
  NumAdapters,         \* provider operations, in the order of their names
  Derive(_, _, _, _),  \* heads of a stratum from facts, pinned snapshots, operations
  MaxTerms, MaxNativeTerms, MaxResults, MaxRounds,
  MaxEdits           \* bounds how often the outside moves; not in the code

Facts == Predicates \X Values
Adapters == 1 .. NumAdapters
Unpinned == [a \in Adapters |-> -1]
PlainFact(f) == <<f[1], Plain(f[2])>>

\* A value is one of the facts, or no other value is equal to it.
Identified(v, facts) ==
  v \in {f[2] : f \in facts} \/ \A w \in Values : Plain(w) = Plain(v) => w = v

ASSUME BudgetsAssumption ==
  {Levels, NumAdapters, MaxTerms, MaxNativeTerms, MaxRounds, MaxEdits} \subseteq Nat

ASSUME InputsAssumption ==
  \A facts \in SourceFacts \cup SuppliedFacts : facts \subseteq Facts

\* Where a program gives a value the identity of another that is equal to it, the one
\* that came first stays: such programs are left out.
ASSUME DeriveAssumption ==
  \A level \in 0 .. Levels - 1, facts \in SUBSET Facts, snapshots \in [Adapters -> -1 .. MaxEdits],
     operations \in [providers : 0 .. MaxEdits, domain : 0 .. MaxEdits] :
    LET heads == Derive(level, facts, snapshots, operations) IN
    heads \subseteq Facts /\ \A f \in heads : Identified(f[2], facts)

VARIABLES
  backend,
  source,     \* the reasoner: [owner, revision, facts]
  outside,    \* generation of the provider registry, revision of the domain table;
              \* the snapshots of the adapters: [operations, adapters]
  changes,    \* how often any of these moved
  evaluation, \* the locals of evaluate
  index,      \* what lookups give, with the mode it was built for: [mode, rows]
  indexed, dirty,
  terms,      \* the native dictionary, one value of each Plain
  ownerEpoch, seen,
  results,    \* least recent first
  last, lastComplete, \* last_complete
  view        \* a reader that applies additions and retractions

runtime == <<index, indexed, dirty, terms, ownerEpoch, seen, results, last, lastComplete, view>>
runtimeVars == <<backend, source, outside, changes, evaluation, runtime>>

\* Differences and unions of Python sets.
Without(S, T) == {f \in S : PlainFact(f) \notin {PlainFact(g) : g \in T}}
Joined(S, T)  == S \cup Without(T, S)

NoEvaluation    == [phase |-> "idle"]
Closed  == [phase |-> "closed"]
NoIndex == [mode |-> "none", rows |-> {}]

RuntimeInit ==
  /\ backend \in Backends
  /\ source \in [owner : {0}, revision : {0}, facts : SourceFacts]
  /\ outside = [operations |-> [providers |-> 0, domain |-> 0], adapters |-> [a \in Adapters |-> 0]]
  /\ changes = 0
  /\ evaluation = NoEvaluation
  /\ index = NoIndex /\ indexed = {} /\ dirty = FALSE
  /\ terms = {} /\ ownerEpoch = 0 /\ seen = -1 /\ results = <<>>
  /\ last = [relations |-> {}, expected |-> {}] /\ lastComplete = FALSE
  /\ view = {}

-----------------------------------------------------------------------------
(* The outside *)

\* The reasoner is updated, or replaced by one whose revisions start anew.
ChangeSource ==
  /\ changes < MaxEdits /\ changes' = changes + 1
  /\ \E fs \in SourceFacts :
       source' \in {[source EXCEPT !.revision = @ + 1, !.facts = fs],
                    [owner |-> source.owner + 1, revision |-> 0, facts |-> fs]}
  /\ UNCHANGED <<backend, outside, evaluation, runtime>>

\* An operation is registered anew.
ChangeOperations(registry) ==
  /\ changes < MaxEdits /\ changes' = changes + 1
  /\ outside' = [outside EXCEPT !.operations[registry] = @ + 1]
  /\ UNCHANGED <<backend, source, evaluation, runtime>>

\* The data of an adapter move on.
ChangeAdapter(a) ==
  /\ changes < MaxEdits /\ changes' = changes + 1
  /\ outside' = [outside EXCEPT !.adapters[a] = @ + 1]
  /\ UNCHANGED <<backend, source, evaluation, runtime>>

-----------------------------------------------------------------------------
(* evaluate *)

SourceKey == <<source.owner, source.revision>>

\* The token of the source and the generation of the registry come first.
Evaluate ==
  /\ evaluation = NoEvaluation
  /\ evaluation' = [phase |-> "keys", sourceKey |-> SourceKey, outsideKey |-> outside, asked |-> 0]
  /\ lastComplete' = FALSE
  /\ UNCHANGED <<backend, source, outside, changes, index, indexed, dirty, terms, ownerEpoch, seen, results,
                 last, view>>

\* The next adapter reports its snapshot; the domain table is read after the last.
KeyAfter(key, a) ==
  [operations |-> [providers |-> key.operations.providers, domain |-> outside.operations.domain],
   adapters   |-> [key.adapters EXCEPT ![a] = outside.adapters[a]]]

ReadAdapterKey ==
  /\ evaluation.phase = "keys" /\ evaluation.asked < NumAdapters
  /\ evaluation' = [phase |-> "keys", sourceKey |-> evaluation.sourceKey,
                     outsideKey |-> KeyAfter(evaluation.outsideKey, evaluation.asked + 1),
                     asked |-> evaluation.asked + 1]
  /\ UNCHANGED <<backend, source, outside, changes, runtime>>

\* What this evaluation has to name in its term budget.
PlainValues(facts) == {Plain(f[2]) : f \in facts}
WithinTerms(current) ==
  /\ IsFiniteSet(current)
  /\ Cardinality(current) <= IF backend = "python" THEN MaxTerms ELSE Min({MaxTerms, MaxNativeTerms})

\* Mutant: stale terms may fill the dictionary.
CompactsWhenFull(current) ==
  Cardinality({t \in terms : Plain(t) \notin current}) > MaxNativeTerms

\* _compact_native: what earlier evaluations left must leave room for a whole budget.
Compacts(current) ==
  Cardinality({t \in terms : Plain(t) \notin current}) > MaxNativeTerms - Min({MaxTerms, MaxNativeTerms})
NeedsCompaction(current) == backend # "python" /\ Compacts(current)

\* _input_execution_mode: equal values with distinct identities need Python indexes.
Ambiguous(facts, dictionary) ==
  \E f \in facts, v \in {g[2] : g \in facts} \cup dictionary : f[2] # v /\ Plain(f[2]) = Plain(v)

Mode(facts, dictionary) ==
  IF backend = "python" \/ Ambiguous(facts, dictionary) THEN "python" ELSE "native"

\* _detached_source_key: owners are told apart by an epoch, and not kept.
EpochOf(owner) == IF seen = owner THEN ownerEpoch ELSE ownerEpoch + 1

KeyOf(inputs) ==
  [source |-> <<EpochOf(source.owner), evaluation.sourceKey[2]>>, outside |-> evaluation.outsideKey, inputs |-> inputs]

Hits(key) == {i \in DOMAIN results : results[i].key = key}
WithoutHit(key) ==
  IF Hits(key) = {} THEN results ELSE RemoveAt(results, CHOOSE i \in Hits(key) : TRUE)

\* From the inputs to the lookup in the result cache.
ReadInputs(supplied) ==
  /\ evaluation.phase = "keys" /\ evaluation.asked = NumAdapters
  /\ LET inputs  == Joined(source.facts, supplied)
         current == PlainValues(inputs)
         kept    == IF NeedsCompaction(current) THEN {} ELSE terms
         hits    == Hits(KeyOf(inputs))
     IN /\ WithinTerms(current)
        /\ terms' = kept
        /\ index' = IF NeedsCompaction(current) THEN NoIndex ELSE index
        /\ indexed' = IF NeedsCompaction(current) THEN {} ELSE indexed
        /\ dirty' = (dirty /\ ~NeedsCompaction(current))
        /\ evaluation' = [phase |-> IF hits # {} THEN "hit" ELSE "pin", sourceKey |-> evaluation.sourceKey,
                    outsideKey |-> evaluation.outsideKey, supplied |-> supplied, inputs |-> inputs,
                    key |-> KeyOf(inputs), mode |-> Mode(inputs, kept), snapshots |-> Unpinned, level |-> 0,
                    rounds |-> 0, known |-> IF hits # {} THEN results[CHOOSE i \in hits : TRUE].rows ELSE inputs]
        /\ results' = IF hits = {} THEN results
                    ELSE Append(WithoutHit(KeyOf(inputs)), results[CHOOSE i \in hits : TRUE])
  /\ ownerEpoch' = EpochOf(source.owner) /\ seen' = source.owner
  /\ UNCHANGED <<backend, source, outside, changes, last, lastComplete, view>>

\* A program that is evaluated natively uses no provider.
PinnedIn(world) == IF backend = "native" THEN Unpinned ELSE world.adapters

\* A provider is asked for the snapshot to read from, in the order of the rules' bodies.
Pin(a) ==
  /\ evaluation.phase = "pin" /\ backend # "native" /\ evaluation.snapshots[a] = -1
  /\ evaluation' = [evaluation EXCEPT !.snapshots = [@ EXCEPT ![a] = outside.adapters[a]]]
  /\ UNCHANGED <<backend, source, outside, changes, runtime>>

Pinned == evaluation.phase = "pin" /\ (backend = "native" \/ \A a \in Adapters : evaluation.snapshots[a] # -1)

\* What a native index gives back for a fact.
Interned(dictionary, f) ==
  <<f[1], IF \E t \in dictionary : Plain(t) = Plain(f[2])
          THEN CHOOSE t \in dictionary : Plain(t) = Plain(f[2]) ELSE f[2]>>
AsIndexed(mode, dictionary, facts) ==
  IF mode = "python" THEN facts ELSE {Interned(dictionary, f) : f \in facts}
TermsWith(mode, facts) ==
  IF mode = "python" THEN terms
  ELSE terms \cup {CHOOSE v \in {f[2] : f \in facts} : Plain(v) = p
                     : p \in PlainValues(facts) \ {Plain(t) : t \in terms}}
FitsDictionary(dictionary) == IsFiniteSet(dictionary) /\ Cardinality(dictionary) <= MaxNativeTerms

\* Mutant: only differences that Python sees count.
MustRebuildLax(mode) == index.mode # mode \/ dirty

\* Another mode, an index left half done, or a row that changed its identity.
MustRebuild(mode) ==
  \/ index.mode # mode \/ dirty
  \/ \E f \in evaluation.known, g \in indexed : PlainFact(f) = PlainFact(g) /\ f # g

\* _prepare_index.
PrepareIndex ==
  /\ Pinned
  /\ LET wanted == evaluation.known
         now    == TermsWith(evaluation.mode, wanted)
         added  == IF MustRebuild(evaluation.mode) THEN wanted ELSE Without(wanted, indexed)
         kept   == IF MustRebuild(evaluation.mode) THEN {} ELSE Without(index.rows, Without(indexed, wanted))
     IN /\ terms' = now /\ FitsDictionary(now)
        /\ index' = [mode |-> evaluation.mode, rows |-> Joined(kept, AsIndexed(evaluation.mode, now, added))]
        /\ indexed' = wanted
  /\ dirty' = FALSE
  /\ evaluation' = [evaluation EXCEPT !.phase = "rounds"]
  /\ UNCHANGED <<backend, source, outside, changes, ownerEpoch, seen, results, last, lastComplete, view>>

\* Only an index that does not exist needs no mark to be built anew.
DirtyWhileSynchronizing == dirty \/ index.mode = evaluation.mode

\* It ends in the middle: some rows are gone, and then some are there.
InterruptIndex ==
  /\ Pinned
  /\ LET gone == Without(indexed, evaluation.known)
         Added(some) == Joined(Without(index.rows, gone), AsIndexed(evaluation.mode, TermsWith(evaluation.mode, some), some))
     IN IF index.mode # evaluation.mode THEN index' = NoIndex /\ indexed' = {}
        ELSE /\ index' \in [mode : {evaluation.mode},
                            rows : {Without(index.rows, some) : some \in SUBSET gone}
                                   \cup {Added(some) : some \in SUBSET Without(evaluation.known, indexed)}]
             /\ UNCHANGED indexed
  /\ dirty' = DirtyWhileSynchronizing
  /\ terms' = TermsWith(evaluation.mode, index'.rows) /\ FitsDictionary(terms')
  /\ evaluation' = NoEvaluation
  /\ UNCHANGED <<backend, source, outside, changes, ownerEpoch, seen, results, last, lastComplete, view>>

Pending == Without(Derive(evaluation.level, index.rows, evaluation.snapshots, outside.operations), evaluation.known)
Deriving == evaluation.phase = "rounds" /\ evaluation.level < Levels
Natively == backend = "native" /\ evaluation.mode = "native"
InRounds == Deriving /\ ~Natively

\* The rules of a stratum give their heads from what the index holds; what is new
\* goes into the inputs and the index.
Round ==
  /\ InRounds /\ evaluation.rounds < MaxRounds /\ WithinTerms(PlainValues(evaluation.known \cup Pending))
  /\ terms' = TermsWith(evaluation.mode, Pending) /\ FitsDictionary(terms')
  /\ evaluation' = [evaluation EXCEPT !.known = @ \cup Pending,
                          !.level = IF Pending = {} THEN @ + 1 ELSE @, !.rounds = @ + 1]
  /\ index' = [index EXCEPT !.rows = Joined(@, AsIndexed(evaluation.mode, terms', Pending))]
  /\ indexed' = Joined(indexed, Pending)
  /\ UNCHANGED <<backend, source, outside, changes, dirty, ownerEpoch, seen, results, last, lastComplete, view>>

\* An evaluation ends while its facts are added; the last one may not be noted yet.
InterruptAdding(new) ==
  /\ \E some \in SUBSET new, unnoted \in BOOLEAN :
       /\ terms' = TermsWith(evaluation.mode, some) /\ FitsDictionary(terms')
       /\ index' = [index EXCEPT !.rows = Joined(@, AsIndexed(evaluation.mode, terms', some))]
       /\ \E f \in some : indexed' = Joined(indexed, IF unnoted THEN some \ {f} ELSE some)
       /\ dirty' = unnoted
  /\ evaluation' = NoEvaluation
  /\ UNCHANGED <<backend, source, outside, changes, ownerEpoch, seen, results, last, lastComplete, view>>

InterruptRound == InRounds /\ evaluation.rounds < MaxRounds /\ InterruptAdding(Pending)

\* What the program gives for facts, snapshots and operations: one round after the
\* other, and the next stratum after a round that gives nothing new.
Advance(state, snapshots, operations) ==
  LET new == Without(Derive(state.level, state.known, snapshots, operations), state.known) IN
  IF state.level = Levels THEN state
  ELSE [level |-> IF new = {} THEN state.level + 1 ELSE state.level, known |-> state.known \cup new]

Rounds(facts, snapshots, operations) ==
  LET f[n \in 0 .. MaxRounds] ==
        IF n = 0 THEN [level |-> 0, known |-> facts] ELSE Advance(f[n - 1], snapshots, operations)
  IN  f

Closure(facts, snapshots, operations) == Rounds(facts, snapshots, operations)[MaxRounds].known
Answer(facts, snapshots, operations) == {f \in Closure(facts, snapshots, operations) : f[1] \in Heads}

\* _native_evaluate: all strata in the native context, over its own copy of the inputs;
\* then what is new goes into the index.
Derivable == Closure(evaluation.known, evaluation.snapshots, outside.operations)
EndsNatively ==
  Deriving /\ Natively /\ Rounds(evaluation.known, evaluation.snapshots, outside.operations)[MaxRounds].level = Levels

NativeEvaluate ==
  /\ EndsNatively /\ WithinTerms(PlainValues(Derivable))
  /\ terms' = TermsWith("native", Derivable) /\ FitsDictionary(terms')
  /\ evaluation' = [evaluation EXCEPT !.known = Derivable, !.level = Levels]
  /\ index' = [index EXCEPT !.rows = Joined(@, AsIndexed("native", terms', Derivable))]
  /\ indexed' = Joined(indexed, Derivable)
  /\ UNCHANGED <<backend, source, outside, changes, dirty, ownerEpoch, seen, results, last, lastComplete, view>>

InterruptNative == EndsNatively /\ InterruptAdding(Derivable \ evaluation.known)

\* The closing check begins with the token of the source and the generation of the
\* registry.  Nothing of it is looked at again: `moment` is how things stand then.
Confirm ==
  /\ evaluation.phase = "hit" \/ (evaluation.phase = "rounds" /\ evaluation.level = Levels)
  /\ evaluation.sourceKey = SourceKey
  /\ evaluation.outsideKey.operations.providers = outside.operations.providers
  /\ evaluation' = [phase |-> "confirm", key |-> evaluation.key, cached |-> evaluation.phase = "hit",
                     relations |-> IF evaluation.phase = "hit" THEN evaluation.known
                                   ELSE {f \in evaluation.known : f[1] \in Heads},
                     moment |-> [inputs |-> Joined(source.facts, evaluation.supplied), outside |-> outside],
                     asked |-> 0]
  /\ UNCHANGED <<backend, source, outside, changes, runtime>>

\* Then each adapter is asked for its snapshot again.
ConfirmAdapter ==
  /\ evaluation.phase = "confirm" /\ evaluation.asked < NumAdapters
  /\ LET a == evaluation.asked + 1
     IN /\ evaluation.key.outside.adapters[a] = outside.adapters[a]
        /\ evaluation' = [evaluation EXCEPT !.asked = a]
  /\ UNCHANGED <<backend, source, outside, changes, runtime>>

\* Mutant: a result from the cache takes nothing back.
RetractionsWhenComputed(relations) ==
  IF evaluation.cached THEN {} ELSE Without(last.relations, relations)

Retractions(relations) == Without(last.relations, relations)

\* _publish, and a reader of the differences.
PublishAnswer(relations) ==
  /\ last' = [relations |-> relations,
              expected  |-> Answer(evaluation.moment.inputs, PinnedIn(evaluation.moment.outside),
                                   evaluation.moment.outside.operations)]
  /\ lastComplete' = TRUE
  /\ view' = Joined(Without(view, Retractions(relations)), Without(relations, last.relations))

\* The end of an evaluation and of a cache hit; the domain table is compared last.
Return ==
  /\ evaluation.phase = "confirm" /\ evaluation.asked = NumAdapters
  /\ evaluation.key.outside.operations.domain = outside.operations.domain
  /\ PublishAnswer(evaluation.relations)
  /\ LET store == Append(WithoutHit(evaluation.key), [key |-> evaluation.key, rows |-> evaluation.relations])
     IN results' = IF evaluation.cached THEN results
                   ELSE IF Len(store) > MaxResults THEN Tail(store) ELSE store
  /\ evaluation' = NoEvaluation
  /\ UNCHANGED <<backend, source, outside, changes, index, indexed, dirty, terms, ownerEpoch, seen>>

\* A limit, a cancellation, an error, or a snapshot that changed meanwhile.
Fail ==
  /\ evaluation \notin {NoEvaluation, Closed}
  /\ evaluation' = NoEvaluation
  /\ UNCHANGED <<backend, source, outside, changes, runtime>>

ClearCache ==
  /\ evaluation = NoEvaluation /\ results # <<>>
  /\ results' = <<>>
  /\ UNCHANGED <<backend, source, outside, changes, evaluation, index, indexed, dirty, terms, ownerEpoch, seen,
                 last, lastComplete, view>>

Close ==
  /\ evaluation = NoEvaluation /\ evaluation' = Closed
  /\ index' = NoIndex /\ results' = <<>>
  /\ UNCHANGED <<backend, source, outside, changes, indexed, dirty, terms, ownerEpoch, seen, last, lastComplete, view>>

RuntimeStep ==
  \/ Evaluate \/ ReadAdapterKey \/ (\E supplied \in SuppliedFacts : ReadInputs(supplied))
  \/ (\E a \in Adapters : Pin(a)) \/ PrepareIndex \/ InterruptIndex
  \/ Round \/ InterruptRound \/ NativeEvaluate \/ InterruptNative
  \/ Confirm \/ ConfirmAdapter \/ Return \/ Fail \/ ClearCache \/ Close

RuntimeNext ==
  \/ RuntimeStep \/ ChangeSource
  \/ \E registry \in {"providers", "domain"} : ChangeOperations(registry)
  \/ \E a \in Adapters : ChangeAdapter(a)

RuntimeSpec == RuntimeInit /\ [][RuntimeNext]_runtimeVars

-----------------------------------------------------------------------------
\* What is published, cached or computed, is the answer of the facts, snapshots and
\* operations as they all stood at one instant of the evaluation, to the identity of every
\* value: the instant at which its closing check began.
PublishedIsExact == last.relations = last.expected

\* A reader that has applied every difference has the relations of the last complete
\* result, as far as Python tells values apart, whatever failed in between.
ReadersHaveLast == {PlainFact(f) : f \in view} = {PlainFact(f) : f \in last.relations}

\* What the native dictionary has to take next.
ToIntern ==
  CASE evaluation.phase = "pin" -> evaluation.known
    [] Deriving -> IF Natively THEN Derivable ELSE Pending
    [] OTHER -> {}

\* The dictionary that outlives evaluations has room for whatever the term budget of
\* one evaluation admits: it never refuses a term that the evaluation may use.
BudgetsFit ==
  ToIntern # {} /\ WithinTerms(PlainValues(evaluation.known \cup ToIntern))
    => FitsDictionary(TermsWith(evaluation.mode, ToIntern))
=============================================================================
