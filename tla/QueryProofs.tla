------------------------------ MODULE QueryProofs ------------------------------
(***************************************************************************)
(* Proofs about the query runtime: its readers follow, its native          *)
(* dictionary has room, and what it publishes is exact.                    *)
(***************************************************************************)
EXTENDS QueryRuntime, LoopProofs, FiniteSetTheorems

-----------------------------------------------------------------------------
(* The runtime: its readers                                                 *)

PlainFacts(S) == {PlainFact(f) : f \in S}

LEMMA PlainSets ==
  ASSUME NEW S, NEW T
  PROVE  /\ PlainFacts(Without(S, T)) = PlainFacts(S) \ PlainFacts(T)
         /\ PlainFacts(Joined(S, T)) = PlainFacts(S) \cup PlainFacts(T)
PROOF
  <1>1. ASSUME NEW A, NEW B
        PROVE  PlainFacts(Without(A, B)) = PlainFacts(A) \ PlainFacts(B)
    <2>1. Without(A, B) = {f \in A : PlainFact(f) \notin PlainFacts(B)}
      BY DEF Without, PlainFacts
    <2> QED
      BY <2>1 DEF PlainFacts
  <1>2. \A A, B : PlainFacts(A \cup B) = PlainFacts(A) \cup PlainFacts(B)
    BY DEF PlainFacts
  <1>3. PlainFacts(Joined(S, T)) = PlainFacts(S) \cup (PlainFacts(T) \ PlainFacts(S))
    BY <1>1, <1>2 DEF Joined
  <1> QED
    BY <1>1, <1>3

LEMMA RuntimeElsewhere ==
  ASSUME RuntimeNext, ~Return
  PROVE  UNCHANGED <<last, view>>
  BY DEF RuntimeNext, RuntimeStep, ChangeSource, ChangeOperations, ChangeAdapter, Evaluate, ReadAdapterKey,
         ReadInputs, Pin, PrepareIndex, InterruptIndex, Round, InterruptRound, InterruptAdding, NativeEvaluate,
         InterruptNative, Confirm, ConfirmAdapter, Fail, ClearCache, Close, runtime

(* Whatever is published, cached or computed, and whatever failed before,   *)
(* a reader of the differences has the relations of the last complete       *)
(* result (_publish).                                                       *)
THEOREM ReadersFollow == RuntimeSpec => []ReadersHaveLast
PROOF
  <1>1. RuntimeInit => ReadersHaveLast
    BY DEF RuntimeInit, ReadersHaveLast
  <1>2. ReadersHaveLast /\ [RuntimeNext]_runtimeVars => ReadersHaveLast'
    <2> SUFFICES ASSUME ReadersHaveLast, [RuntimeNext]_runtimeVars PROVE ReadersHaveLast'
      OBVIOUS
    <2>1. ASSUME UNCHANGED <<last, view>> PROVE ReadersHaveLast'
      BY <2>1 DEF ReadersHaveLast, PlainFact
    <2>2. CASE UNCHANGED runtimeVars
      BY <2>1, <2>2 DEF runtimeVars, runtime
    <2>3. CASE RuntimeNext /\ ~Return
      BY <2>1, <2>3, RuntimeElsewhere
    <2>4. CASE Return
      <3> DEFINE relations == evaluation.relations
      <3>1. PublishAnswer(relations)
        BY <2>4 DEF Return
      <3>2. /\ last'.relations = relations
            /\ view' = Joined(Without(view, Without(last.relations, relations)), Without(relations, last.relations))
        BY <3>1 DEF PublishAnswer, Retractions
      <3> HIDE DEF relations
      <3> DEFINE old == PlainFacts(last.relations)
                 new == PlainFacts(relations)
      <3>3. PlainFacts(view') = (PlainFacts(view) \ (old \ new)) \cup (new \ old)
        BY <3>2, PlainSets
      <3>4. PlainFacts(view) = old
        BY DEF ReadersHaveLast, PlainFacts
      <3>5. PlainFacts(view') = new
        BY <3>3, <3>4
      <3> HIDE DEF old, new
      <3>6. PlainFacts(view') = PlainFacts(last'.relations)
        BY <3>2, <3>5 DEF new
      <3> QED
        BY <3>6 DEF ReadersHaveLast, PlainFacts, PlainFact
    <2> QED
      BY <2>2, <2>3, <2>4
  <1> QED
    BY <1>1, <1>2, PTL DEF RuntimeSpec

-----------------------------------------------------------------------------
(* The runtime: its native dictionary                                       *)

OneOfEach(S) == \A s, t \in S : Plain(s) = Plain(t) => s = t

(* What a dictionary holds beyond the values of facts.                      *)
Stale(D, facts) == {t \in D : Plain(t) \notin PlainValues(facts)}
Budget == Min({MaxTerms, MaxNativeTerms})
LeavesRoom(D, facts) ==
  IsFiniteSet(Stale(D, facts)) /\ Cardinality(Stale(D, facts)) <= MaxNativeTerms - Budget

EvaluationFields(e) ==
  e = [phase |-> e.phase, sourceKey |-> e.sourceKey, outsideKey |-> e.outsideKey, supplied |-> e.supplied,
       inputs |-> e.inputs, key |-> e.key, mode |-> e.mode, snapshots |-> e.snapshots, level |-> e.level,
       rounds |-> e.rounds, known |-> e.known]

(* What an evaluation keeps from its inputs on.                             *)
SameStart(e, f) ==
  /\ f.sourceKey = e.sourceKey /\ f.outsideKey = e.outsideKey /\ f.supplied = e.supplied
  /\ f.inputs = e.inputs /\ f.key = e.key /\ f.mode = e.mode

(* An evaluation that has terms to intern is native of a native backend,    *)
(* and what the dictionary holds beyond its facts leaves room for a budget. *)
Interning(e) ==
  \/ e.phase = "pin"
  \/ e.phase = "rounds" /\ e.level < Levels
RoomIsLeft(e, D) ==
  /\ e.phase \in {"pin", "rounds"} => EvaluationFields(e)
  /\ Interning(e) /\ e.mode # "python" => backend # "python" /\ LeavesRoom(D, e.known)

TermsInvariant ==
  /\ FitsDictionary(terms)
  /\ OneOfEach(terms)
  /\ RoomIsLeft(evaluation, terms)

LEMMA BudgetIs ==
  /\ Budget \in Nat /\ MaxNativeTerms \in Nat /\ MaxTerms \in Nat
  /\ Budget <= MaxTerms /\ Budget <= MaxNativeTerms
PROOF
  <1>1. MaxTerms \in Nat /\ MaxNativeTerms \in Nat
    BY BudgetsAssumption
  <1>2. \E x \in {MaxTerms, MaxNativeTerms} : \A y \in {MaxTerms, MaxNativeTerms} : x <= y
    BY <1>1
  <1>3. Budget \in {MaxTerms, MaxNativeTerms} /\ \A y \in {MaxTerms, MaxNativeTerms} : Budget <= y
    BY <1>2 DEF Budget, Min
  <1> QED
    BY <1>1, <1>3

(* Interning adds the values of facts that no term stands for, each once.   *)
LEMMA TermsGrow ==
  ASSUME NEW mode, NEW facts, OneOfEach(terms)
  PROVE  /\ OneOfEach(TermsWith(mode, facts))
         /\ mode # "python" =>
              \A rest : Stale(TermsWith(mode, facts), rest \cup facts) \subseteq Stale(terms, rest)
PROOF
  <1> DEFINE held   == {Plain(t) : t \in terms}
             One(p) == CHOOSE v \in {f[2] : f \in facts} : Plain(v) = p
             taken  == {One(p) : p \in PlainValues(facts) \ held}
  <1>1. CASE mode = "python"
    BY <1>1 DEF TermsWith
  <1>2. CASE mode # "python"
    <2>1. TermsWith(mode, facts) = terms \cup taken
      BY <1>2 DEF TermsWith
    <2>2. \A p \in PlainValues(facts) : Plain(One(p)) = p
      <3> SUFFICES ASSUME NEW p \in PlainValues(facts) PROVE Plain(One(p)) = p
        OBVIOUS
      <3>1. \E v \in {f[2] : f \in facts} : Plain(v) = p
        BY DEF PlainValues
      <3> QED
        BY <3>1
    <2> HIDE DEF One
    <2>3. \A t \in taken : Plain(t) \in PlainValues(facts) /\ Plain(t) \notin held /\ t = One(Plain(t))
      BY <2>2
    <2>4. \A t \in terms : Plain(t) \in held
      OBVIOUS
    <2> HIDE DEF held, taken
    <2>5. OneOfEach(terms \cup taken)
      BY <2>3, <2>4 DEF OneOfEach
    <2>6. \A rest : Stale(terms \cup taken, rest \cup facts) \subseteq Stale(terms, rest)
      <3> SUFFICES ASSUME NEW rest, NEW t \in Stale(terms \cup taken, rest \cup facts)
                   PROVE  t \in Stale(terms, rest)
        OBVIOUS
      <3>1. PlainValues(rest \cup facts) = PlainValues(rest) \cup PlainValues(facts)
        BY DEF PlainValues
      <3>2. t \in terms \cup taken /\ Plain(t) \notin PlainValues(rest) \cup PlainValues(facts)
        BY <3>1 DEF Stale
      <3> QED
        BY <2>3, <3>2 DEF Stale
    <2> QED
      BY <2>1, <2>5, <2>6
  <1> QED
    BY <1>1, <1>2

(* The terms that stand for facts are no more than the values of the facts. *)
LEMMA TermsFit ==
  ASSUME NEW D, OneOfEach(D), NEW facts, LeavesRoom(D, facts),
         IsFiniteSet(PlainValues(facts)), Cardinality(PlainValues(facts)) <= Budget
  PROVE  FitsDictionary(D)
PROOF
  <1> DEFINE stale == Stale(D, facts)
             named == D \ stale
             all   == PlainValues(facts)
             name  == [t \in named |-> Plain(t)]
  <1>1. IsFiniteSet(stale) /\ Cardinality(stale) <= MaxNativeTerms - Budget
    BY DEF LeavesRoom
  <1>2. \A t \in named : Plain(t) \in all
    BY DEF Stale
  <1>3. name \in [named -> all]
    BY <1>2
  <1>4. \A s, t \in named : name[s] = name[t] => s = t
    BY DEF OneOfEach
  <1>5. name \in Injection(named, all)
    BY <1>3, <1>4 DEF Injection, IsInjective
  <1> HIDE DEF name, all
  <1>6. IsFiniteSet(named) /\ Cardinality(named) <= Cardinality(all)
    BY <1>5, FS_Injection DEF all
  <1> HIDE DEF stale
  <1>7. IsFiniteSet(stale \cup named) /\ Cardinality(stale \cup named)
          = Cardinality(stale) + Cardinality(named) - Cardinality(stale \cap named)
    BY <1>1, <1>6, FS_Union
  <1>8. D \subseteq stale \cup named
    OBVIOUS
  <1>9. /\ IsFiniteSet(D) /\ Cardinality(D) <= Cardinality(stale \cup named)
    BY <1>7, <1>8, FS_Subset
  <1>10. IsFiniteSet(stale \cap named)
    BY <1>1, FS_Intersection
  <1>11. /\ Cardinality(D) \in Nat /\ Cardinality(stale) \in Nat /\ Cardinality(named) \in Nat
         /\ Cardinality(all) \in Nat /\ Cardinality(stale \cap named) \in Nat
    BY <1>1, <1>6, <1>9, <1>10, FS_CardinalityType DEF all
  <1>12. Cardinality(D) <= MaxNativeTerms
    BY <1>1, <1>6, <1>7, <1>9, <1>11, BudgetIs DEF all
  <1> QED
    BY <1>9, <1>12 DEF FitsDictionary

(* One field of an evaluation changes.                                      *)
LEMMA PhaseChanges ==
  ASSUME NEW e, EvaluationFields(e), NEW new, NEW f, f = [e EXCEPT !.phase = new]
  PROVE  /\ EvaluationFields(f) /\ f.phase = new /\ SameStart(e, f)
         /\ f.snapshots = e.snapshots /\ f.level = e.level /\ f.rounds = e.rounds /\ f.known = e.known
  BY DEF EvaluationFields, SameStart

LEMMA SnapshotChanges ==
  ASSUME NEW e, EvaluationFields(e), NEW new, NEW f, f = [e EXCEPT !.snapshots = new]
  PROVE  /\ EvaluationFields(f) /\ f.snapshots = new /\ SameStart(e, f)
         /\ f.phase = e.phase /\ f.level = e.level /\ f.rounds = e.rounds /\ f.known = e.known
  BY DEF EvaluationFields, SameStart

LEMMA KnownChanges ==
  ASSUME NEW e, EvaluationFields(e), NEW new, NEW f, f = [e EXCEPT !.known = new]
  PROVE  /\ EvaluationFields(f) /\ f.known = new /\ SameStart(e, f)
         /\ f.phase = e.phase /\ f.snapshots = e.snapshots /\ f.level = e.level /\ f.rounds = e.rounds
  BY DEF EvaluationFields, SameStart

LEMMA LevelChanges ==
  ASSUME NEW e, EvaluationFields(e), NEW new, NEW f, f = [e EXCEPT !.level = new]
  PROVE  /\ EvaluationFields(f) /\ f.level = new /\ SameStart(e, f)
         /\ f.phase = e.phase /\ f.snapshots = e.snapshots /\ f.rounds = e.rounds /\ f.known = e.known
  BY DEF EvaluationFields, SameStart

LEMMA RoundsChange ==
  ASSUME NEW e, EvaluationFields(e), NEW new, NEW f, f = [e EXCEPT !.rounds = new]
  PROVE  /\ EvaluationFields(f) /\ f.rounds = new /\ SameStart(e, f)
         /\ f.phase = e.phase /\ f.snapshots = e.snapshots /\ f.level = e.level /\ f.known = e.known
  BY DEF EvaluationFields, SameStart

(* And several at once.                                                     *)
WithFacts(e, facts, n) == [e EXCEPT !.known = facts, !.level = n]
WithRound(e, facts, n, m) == [e EXCEPT !.known = facts, !.level = n, !.rounds = m]

LEMMA FactsChange ==
  ASSUME NEW e, EvaluationFields(e), NEW facts, NEW n, NEW f, f = WithFacts(e, facts, n)
  PROVE  /\ EvaluationFields(f) /\ SameStart(e, f) /\ f.level = n /\ f.known = facts
         /\ f.phase = e.phase /\ f.snapshots = e.snapshots /\ f.rounds = e.rounds
PROOF
  <1> DEFINE a == [e EXCEPT !.known = facts]
             b == [a EXCEPT !.level = n]
  <1>1. /\ EvaluationFields(a) /\ a.known = facts /\ SameStart(e, a)
        /\ a.phase = e.phase /\ a.snapshots = e.snapshots /\ a.rounds = e.rounds
    BY KnownChanges
  <1> HIDE DEF a
  <1>2. /\ EvaluationFields(b) /\ b.level = n /\ SameStart(a, b) /\ b.known = a.known
        /\ b.phase = a.phase /\ b.snapshots = a.snapshots /\ b.rounds = a.rounds
    BY <1>1, LevelChanges
  <1>3. b = f
    BY DEF a, WithFacts
  <1> QED
    BY <1>1, <1>2, <1>3 DEF SameStart

LEMMA RoundChanges ==
  ASSUME NEW e, EvaluationFields(e), NEW facts, NEW n, NEW m, NEW f, f = WithRound(e, facts, n, m)
  PROVE  /\ EvaluationFields(f) /\ SameStart(e, f) /\ f.level = n /\ f.known = facts /\ f.rounds = m
         /\ f.phase = e.phase /\ f.snapshots = e.snapshots
PROOF
  <1> DEFINE a == WithFacts(e, facts, n)
             b == [a EXCEPT !.rounds = m]
  <1>1. /\ EvaluationFields(a) /\ SameStart(e, a) /\ a.level = n /\ a.known = facts
        /\ a.phase = e.phase /\ a.snapshots = e.snapshots
    BY FactsChange
  <1> HIDE DEF a
  <1>2. /\ EvaluationFields(b) /\ b.rounds = m /\ SameStart(a, b) /\ b.known = a.known
        /\ b.phase = a.phase /\ b.snapshots = a.snapshots /\ b.level = a.level
    BY <1>1, RoundsChange
  <1>3. b = f
    BY DEF a, WithFacts, WithRound
  <1> QED
    BY <1>1, <1>2, <1>3 DEF SameStart

LEMMA RoomStays ==
  ASSUME NEW D, NEW E, NEW facts, NEW more, LeavesRoom(D, facts), Stale(E, more) \subseteq Stale(D, facts)
  PROVE  LeavesRoom(E, more)
PROOF
  <1> DEFINE before == Stale(D, facts)
             after  == Stale(E, more)
  <1>1. IsFiniteSet(before) /\ Cardinality(before) <= MaxNativeTerms - Budget
    BY DEF LeavesRoom
  <1>2. after \subseteq before
    OBVIOUS
  <1> HIDE DEF before, after
  <1>3. IsFiniteSet(after) /\ Cardinality(after) <= Cardinality(before)
    BY <1>1, <1>2, FS_Subset
  <1>4. Cardinality(after) \in Nat /\ Cardinality(before) \in Nat
    BY <1>1, <1>3, FS_CardinalityType
  <1>5. Cardinality(after) <= MaxNativeTerms - Budget
    BY <1>1, <1>3, <1>4, BudgetIs
  <1> QED
    BY <1>3, <1>5 DEF after, LeavesRoom

(* The inputs leave room, or the dictionary starts anew (_compact_native).  *)
LEMMA CompactedHasRoom ==
  ASSUME NEW facts, FitsDictionary(terms), OneOfEach(terms), NEW D,
         D = IF NeedsCompaction(PlainValues(facts)) THEN {} ELSE terms
  PROVE  FitsDictionary(D) /\ OneOfEach(D) /\ (backend # "python" => LeavesRoom(D, facts))
PROOF
  <1>1. FitsDictionary({}) /\ OneOfEach({}) /\ LeavesRoom({}, facts)
    <2>1. IsFiniteSet({}) /\ Cardinality({}) = 0 /\ Stale({}, facts) = {}
      BY FS_EmptySet DEF Stale
    <2> QED
      BY <2>1, BudgetIs DEF FitsDictionary, OneOfEach, LeavesRoom
  <1>2. CASE NeedsCompaction(PlainValues(facts))
    BY <1>1, <1>2
  <1>3. CASE ~NeedsCompaction(PlainValues(facts))
    <2>1. D = terms
      BY <1>3
    <2>2. ASSUME backend # "python" PROVE LeavesRoom(terms, facts)
      <3>1. ~(Cardinality(Stale(terms, facts)) > MaxNativeTerms - Budget)
        BY <1>3, <2>2 DEF NeedsCompaction, Compacts, Stale, Budget
      <3>2. IsFiniteSet(Stale(terms, facts))
        <4>1. Stale(terms, facts) \subseteq terms /\ IsFiniteSet(terms)
          BY DEF Stale, FitsDictionary
        <4> QED
          BY <4>1, FS_Subset
      <3>3. Cardinality(Stale(terms, facts)) \in Nat
        BY <3>2, FS_CardinalityType
      <3> QED
        BY <3>1, <3>2, <3>3, BudgetIs DEF LeavesRoom
    <2> QED
      BY <2>1, <2>2
  <1> QED
    BY <1>2, <1>3

LEMMA TermsStep == TermsInvariant /\ [RuntimeNext]_runtimeVars => TermsInvariant'
PROOF
  <1> SUFFICES ASSUME TermsInvariant, [RuntimeNext]_runtimeVars PROVE TermsInvariant'
    OBVIOUS
  <1>1. ASSUME UNCHANGED <<backend, terms, evaluation>> PROVE TermsInvariant'
    <2>1. FitsDictionary(terms)' /\ OneOfEach(terms)'
      BY <1>1 DEF TermsInvariant, FitsDictionary, OneOfEach
    <2>2. RoomIsLeft(evaluation, terms)'
      BY <1>1 DEF TermsInvariant, RoomIsLeft, Interning, EvaluationFields, LeavesRoom, Stale, PlainValues
    <2> QED
      BY <2>1, <2>2 DEF TermsInvariant
  <1>2. ASSUME evaluation'.phase \notin {"pin", "rounds"}, FitsDictionary(terms'), OneOfEach(terms')
        PROVE  TermsInvariant'
    BY <1>2 DEF TermsInvariant, RoomIsLeft, Interning
  <1>3. ASSUME evaluation'.phase \notin {"pin", "rounds"}, UNCHANGED terms PROVE TermsInvariant'
    BY <1>2, <1>3 DEF TermsInvariant
  <1>4. ASSUME NEW mode, NEW facts, terms' = TermsWith(mode, facts) PROVE OneOfEach(terms')
    BY <1>4, TermsGrow DEF TermsInvariant
  <1>5. CASE UNCHANGED runtimeVars
    BY <1>1, <1>5 DEF runtimeVars, runtime
  <1>6. CASE \/ ChangeSource \/ ClearCache
             \/ \E registry \in {"providers", "domain"} : ChangeOperations(registry)
             \/ \E a \in Adapters : ChangeAdapter(a)
    BY <1>1, <1>6 DEF ChangeSource, ChangeOperations, ChangeAdapter, ClearCache, runtime
  <1>7. CASE Evaluate \/ ReadAdapterKey \/ Confirm \/ ConfirmAdapter \/ Return \/ Fail \/ Close
    <2>1. NoEvaluation.phase = "idle" /\ Closed.phase = "closed"
      BY DEF NoEvaluation, Closed
    <2>2. CASE Evaluate \/ ReadAdapterKey \/ Confirm
      <3>1. evaluation'.phase \in {"keys", "confirm"} /\ UNCHANGED terms
        BY <2>2 DEF Evaluate, ReadAdapterKey, Confirm, runtime
      <3> QED
        BY <1>3, <3>1
    <2>3. CASE Return \/ Fail \/ Close
      <3>1. evaluation' \in {NoEvaluation, Closed} /\ UNCHANGED terms
        BY <2>3 DEF Return, Fail, Close, runtime
      <3> QED
        BY <1>3, <2>1, <3>1
    <2>4. CASE ConfirmAdapter
      <3>1. \A e, n : [e EXCEPT !.asked = n].phase = e.phase
        OBVIOUS
      <3>2. evaluation'.phase = "confirm" /\ UNCHANGED terms
        BY <2>4, <3>1 DEF ConfirmAdapter, runtime
      <3> QED
        BY <1>3, <3>2
    <2> QED
      BY <1>7, <2>2, <2>3, <2>4
  <1>8. ASSUME NEW supplied \in SuppliedFacts, ReadInputs(supplied) PROVE TermsInvariant'
    <2> DEFINE inputs == Joined(source.facts, supplied)
               hits   == Hits(KeyOf(inputs))
    <2>1. terms' = IF NeedsCompaction(PlainValues(inputs)) THEN {} ELSE terms
      BY <1>8 DEF ReadInputs
    <2>2. /\ UNCHANGED backend
          /\ EvaluationFields(evaluation')
          /\ evaluation'.phase = IF hits # {} THEN "hit" ELSE "pin"
          /\ evaluation'.mode = Mode(inputs, terms')
          /\ hits = {} => evaluation'.known = inputs
      BY <1>8 DEF ReadInputs, EvaluationFields
    <2> HIDE DEF inputs, hits
    <2>3. FitsDictionary(terms') /\ OneOfEach(terms') /\ (backend # "python" => LeavesRoom(terms', inputs))
      BY <2>1, CompactedHasRoom DEF TermsInvariant
    <2>4. CASE hits # {}
      BY <1>2, <2>2, <2>3, <2>4
    <2>5. CASE hits = {}
      <3>1. evaluation'.mode # "python" => backend # "python"
        BY <2>2 DEF Mode
      <3>2. evaluation'.mode # "python" => backend' # "python" /\ LeavesRoom(terms', evaluation'.known)
        BY <2>2, <2>3, <2>5, <3>1
      <3> QED
        BY <2>2, <2>3, <3>2 DEF TermsInvariant, RoomIsLeft
    <2> QED
      BY <2>4, <2>5
  <1>9. ASSUME NEW a \in Adapters, Pin(a) PROVE TermsInvariant'
    <2> DEFINE pinned == [evaluation.snapshots EXCEPT ![a] = outside.adapters[a]]
    <2>1. /\ EvaluationFields(evaluation) /\ Interning(evaluation)
          /\ evaluation' = [evaluation EXCEPT !.snapshots = pinned]
          /\ UNCHANGED <<backend, terms>>
      BY <1>9 DEF Pin, TermsInvariant, RoomIsLeft, Interning, runtime
    <2> HIDE DEF pinned
    <2>2. EvaluationFields(evaluation') /\ evaluation'.mode = evaluation.mode /\ evaluation'.known = evaluation.known
      BY <2>1, SnapshotChanges DEF SameStart
    <2>3. evaluation'.mode # "python" => backend' # "python" /\ LeavesRoom(terms', evaluation'.known)
      BY <2>1, <2>2 DEF TermsInvariant, RoomIsLeft
    <2> QED
      BY <2>1, <2>2, <2>3 DEF TermsInvariant, RoomIsLeft
  <1>10. CASE PrepareIndex
    <2>1. /\ EvaluationFields(evaluation) /\ Interning(evaluation)
          /\ evaluation' = [evaluation EXCEPT !.phase = "rounds"]
          /\ terms' = TermsWith(evaluation.mode, evaluation.known) /\ FitsDictionary(terms')
          /\ UNCHANGED backend
      BY <1>10 DEF PrepareIndex, Pinned, TermsInvariant, RoomIsLeft, Interning
    <2>2. EvaluationFields(evaluation') /\ evaluation'.mode = evaluation.mode /\ evaluation'.known = evaluation.known
      BY <2>1, PhaseChanges DEF SameStart
    <2>3. ASSUME evaluation'.mode # "python" PROVE backend' # "python" /\ LeavesRoom(terms', evaluation'.known)
      <3>1. backend # "python" /\ LeavesRoom(terms, evaluation.known)
        BY <2>1, <2>2, <2>3 DEF TermsInvariant, RoomIsLeft
      <3>2. Stale(terms', evaluation.known \cup evaluation.known) \subseteq Stale(terms, evaluation.known)
        BY <2>1, <2>2, <2>3, TermsGrow DEF TermsInvariant
      <3>3. evaluation.known \cup evaluation.known = evaluation.known
        OBVIOUS
      <3> QED
        BY <2>1, <2>2, <3>1, <3>2, <3>3, RoomStays
    <2>4. OneOfEach(terms')
      BY <1>4, <2>1
    <2> QED
      BY <2>1, <2>2, <2>3, <2>4 DEF TermsInvariant, RoomIsLeft
  <1>11. CASE InterruptIndex \/ InterruptRound \/ InterruptNative
    <2>1. evaluation'.phase = "idle" /\ FitsDictionary(terms') /\ \E facts : terms' = TermsWith(evaluation.mode, facts)
      BY <1>11 DEF InterruptIndex, InterruptRound, InterruptNative, InterruptAdding, NoEvaluation
    <2> QED
      BY <1>2, <1>4, <2>1
  <1>12. CASE Round
    <2> DEFINE n == IF Pending = {} THEN evaluation.level + 1 ELSE evaluation.level
    <2>1. /\ EvaluationFields(evaluation) /\ Interning(evaluation)
          /\ evaluation' = [evaluation EXCEPT !.known = @ \cup Pending, !.level = IF Pending = {} THEN @ + 1 ELSE @,
                                            !.rounds = @ + 1]
          /\ terms' = TermsWith(evaluation.mode, Pending) /\ FitsDictionary(terms')
          /\ UNCHANGED backend
      BY <1>12 DEF Round, InRounds, Deriving, TermsInvariant, RoomIsLeft, Interning
    <2>2. evaluation' = WithRound(evaluation, evaluation.known \cup Pending, n, evaluation.rounds + 1)
      BY <2>1 DEF WithRound
    <2> HIDE DEF n
    <2>3. /\ EvaluationFields(evaluation') /\ evaluation'.mode = evaluation.mode
          /\ evaluation'.known = evaluation.known \cup Pending
      BY <2>1, <2>2, RoundChanges DEF SameStart
    <2>4. ASSUME evaluation'.mode # "python" PROVE backend' # "python" /\ LeavesRoom(terms', evaluation'.known)
      <3>1. backend # "python" /\ LeavesRoom(terms, evaluation.known)
        BY <2>1, <2>3, <2>4 DEF TermsInvariant, RoomIsLeft
      <3>2. Stale(terms', evaluation.known \cup Pending) \subseteq Stale(terms, evaluation.known)
        BY <2>1, <2>3, <2>4, TermsGrow DEF TermsInvariant
      <3>3. LeavesRoom(terms', evaluation.known \cup Pending)
        BY <3>1, <3>2, RoomStays
      <3> QED
        BY <2>1, <2>3, <3>1, <3>3
    <2>5. OneOfEach(terms')
      BY <1>4, <2>1
    <2> QED
      BY <2>1, <2>3, <2>4, <2>5 DEF TermsInvariant, RoomIsLeft
  <1>13. CASE NativeEvaluate
    <2> DEFINE facts == Derivable
    <2>1. /\ EvaluationFields(evaluation)
          /\ evaluation' = WithFacts(evaluation, facts, Levels)
          /\ evaluation.phase = "rounds"
          /\ terms' = TermsWith("native", facts) /\ FitsDictionary(terms')
      BY <1>13 DEF NativeEvaluate, EndsNatively, Deriving, WithFacts, TermsInvariant, RoomIsLeft
    <2> HIDE DEF facts
    <2>2. EvaluationFields(evaluation') /\ evaluation'.phase = "rounds" /\ evaluation'.level = Levels
      BY <2>1, FactsChange
    <2>3. ~Interning(evaluation')
      BY <2>2, BudgetsAssumption DEF Interning
    <2>4. OneOfEach(terms')
      BY <1>4, <2>1
    <2> QED
      BY <2>1, <2>2, <2>3, <2>4 DEF TermsInvariant, RoomIsLeft
  <1> QED
    BY <1>5, <1>6, <1>7, <1>8, <1>9, <1>10, <1>11, <1>12, <1>13 DEF RuntimeNext, RuntimeStep

LEMMA TermsInvariantHolds == RuntimeSpec => []TermsInvariant
PROOF
  <1>1. RuntimeInit => TermsInvariant
    <2> SUFFICES ASSUME RuntimeInit PROVE TermsInvariant
      OBVIOUS
    <2>1. terms = {} /\ evaluation.phase = "idle"
      BY DEF RuntimeInit, NoEvaluation
    <2> QED
      BY <2>1, FS_EmptySet, BudgetIs DEF TermsInvariant, FitsDictionary, OneOfEach, RoomIsLeft, Interning
  <1> QED
    BY <1>1, TermsStep, PTL DEF RuntimeSpec

(* The native dictionary outlives evaluations, and still it has room for    *)
(* every term that the budget of the next one admits: what is stale is      *)
(* dropped before it could stand in the way (_compact_native).              *)
THEOREM DictionaryHasRoom == RuntimeSpec => []BudgetsFit
PROOF
  <1>1. TermsInvariant => BudgetsFit
    <2> DEFINE more == ToIntern
               all  == evaluation.known \cup more
               D    == TermsWith(evaluation.mode, more)
    <2> SUFFICES ASSUME TermsInvariant, more # {}, WithinTerms(PlainValues(all)) PROVE FitsDictionary(D)
      BY DEF BudgetsFit
    <2>1. CASE evaluation.mode = "python"
      BY <2>1 DEF TermsInvariant, TermsWith
    <2>2. CASE evaluation.mode # "python"
      <3>1. Interning(evaluation)
        BY DEF ToIntern, Deriving, Interning
      <3>2. backend # "python" /\ LeavesRoom(terms, evaluation.known)
        BY <2>2, <3>1 DEF TermsInvariant, RoomIsLeft
      <3>3. IsFiniteSet(PlainValues(all)) /\ Cardinality(PlainValues(all)) <= Budget
        BY <3>2 DEF WithinTerms, Budget
      <3>4. OneOfEach(D) /\ Stale(D, all) \subseteq Stale(terms, evaluation.known)
        BY <2>2, TermsGrow DEF TermsInvariant
      <3> HIDE DEF more, all, D
      <3>5. LeavesRoom(D, all)
        BY <3>2, <3>4, RoomStays
      <3> QED
        BY <3>3, <3>4, <3>5, TermsFit
    <2> QED
      BY <2>1, <2>2
  <1> QED
    BY <1>1, TermsInvariantHolds, PTL

-----------------------------------------------------------------------------
(* The runtime: rounds                                                      *)

ValuesOf(facts) == {f[2] : f \in facts}
RoundStates == [level : 0 .. Levels, known : SUBSET Facts]
Snapshots == [Adapters -> -1 .. MaxEdits]
Operations == [providers : 0 .. MaxEdits, domain : 0 .. MaxEdits]

LEMMA LimitsTyped == Levels \in Nat /\ MaxRounds \in Nat /\ MaxEdits \in Nat
  BY BudgetsAssumption

LEMMA HeadsTyped ==
  ASSUME NEW level \in 0 .. Levels - 1, NEW facts \in SUBSET Facts, NEW snapshots \in Snapshots, NEW operations \in Operations
  PROVE  /\ Derive(level, facts, snapshots, operations) \subseteq Facts
         /\ \A f \in Derive(level, facts, snapshots, operations) : Identified(f[2], facts)
  BY DeriveAssumption DEF Snapshots, Operations

(* What is added to a set of facts is not equal to what is there.           *)
LEMMA WithoutIs ==
  ASSUME NEW S, NEW T
  PROVE  /\ Without(S, T) \subseteq S
         /\ \A f \in Without(S, T), g \in T : PlainFact(f) # PlainFact(g)
         /\ \A f \in S : f \in Without(S, T) \/ \E g \in T : PlainFact(f) = PlainFact(g)
  BY DEF Without

LEMMA JoinedIs ==
  ASSUME NEW S, NEW T
  PROVE  /\ S \subseteq Joined(S, T) /\ Joined(S, T) \subseteq S \cup T
         /\ (\A f \in T, g \in S : PlainFact(f) # PlainFact(g)) => Joined(S, T) = S \cup T
         /\ Joined(S, T) = S \cup Without(T, S)
  BY DEF Joined, Without

LEMMA AdvanceIs ==
  ASSUME NEW s \in RoundStates, NEW snapshots \in Snapshots, NEW operations \in Operations
  PROVE  /\ Advance(s, snapshots, operations) \in RoundStates
         /\ s.level = Levels => Advance(s, snapshots, operations) = s
         /\ s.level # Levels =>
              LET new == Without(Derive(s.level, s.known, snapshots, operations), s.known) IN
              /\ Advance(s, snapshots, operations) =
                   [level |-> IF new = {} THEN s.level + 1 ELSE s.level, known |-> s.known \cup new]
              /\ new \subseteq Facts
              /\ \A f \in new : Identified(f[2], s.known)
              /\ \A f \in new, g \in s.known : PlainFact(f) # PlainFact(g)
PROOF
  <1>1. s.level \in 0 .. Levels /\ s.known \subseteq Facts /\ Levels \in Nat
    BY LimitsTyped DEF RoundStates
  <1>2. CASE s.level = Levels
    BY <1>2 DEF Advance
  <1>3. CASE s.level # Levels
    <2> DEFINE heads == Derive(s.level, s.known, snapshots, operations)
               new == Without(heads, s.known)
    <2>1. s.level \in 0 .. Levels - 1
      BY <1>1, <1>3
    <2>2. heads \subseteq Facts /\ \A f \in heads : Identified(f[2], s.known)
      BY <1>1, <2>1, HeadsTyped
    <2>3. new \subseteq heads /\ \A f \in new, g \in s.known : PlainFact(f) # PlainFact(g)
      <3> HIDE DEF heads
      <3> QED
        BY WithoutIs
    <2>4. Advance(s, snapshots, operations) = [level |-> IF new = {} THEN s.level + 1 ELSE s.level, known |-> s.known \cup new]
      BY <1>3 DEF Advance
    <2>5. Advance(s, snapshots, operations) \in RoundStates
      <3> HIDE DEF new
      <3> QED
        BY <1>1, <1>3, <2>2, <2>3, <2>4 DEF RoundStates
    <2> QED
      BY <1>3, <2>2, <2>3, <2>4, <2>5
  <1> QED
    BY <1>2, <1>3

(* Rounds is what its recursion says.                                       *)
LEMMA RoundsAre ==
  ASSUME NEW facts \in SUBSET Facts, NEW snapshots \in Snapshots, NEW operations \in Operations
  PROVE  LET r == Rounds(facts, snapshots, operations) IN
         /\ \A n \in 0 .. MaxRounds : r[n] \in RoundStates
         /\ r[0] = [level |-> 0, known |-> facts]
         /\ \A n \in 1 .. MaxRounds : r[n] = Advance(r[n - 1], snapshots, operations)
PROOF
  <1> DEFINE N == MaxRounds
             x == [level |-> 0, known |-> facts]
             After(s) == Advance(s, snapshots, operations)
             round == [i \in 1 .. N |-> [s \in RoundStates |-> After(s)]]
             F(f) == f = [n \in 0 .. N |-> IF n = 0 THEN x ELSE After(f[n - 1])]
             r == CHOOSE f : F(f)
  <1>1. N \in Nat /\ x \in RoundStates
    BY LimitsTyped DEF RoundStates
  <1>2. \A s \in RoundStates : After(s) \in RoundStates
    BY AdvanceIs
  <1> HIDE DEF x, After
  <1>3. \A i \in 1 .. N, s \in RoundStates : round[i][s] = After(s) /\ round[i][s] \in RoundStates
    BY <1>2
  <1>4. r = Rounds(facts, snapshots, operations)
    BY DEF Rounds, x, After
  <1> HIDE DEF N, round
  <1>5. PICK f : f \in Loops(N, RoundStates, x, round)
    <2>1. Loops(N, RoundStates, x, round) # {}
      BY <1>1, <1>3, LoopExists
    <2> QED
      BY <2>1
  <1>6. f \in [0 .. N -> RoundStates] /\ f[0] = x /\ \A i \in 1 .. N : f[i] = round[i][f[i - 1]]
    BY <1>5 DEF Loops
  <1>7. \A i \in 1 .. N : f[i] = After(f[i - 1])
    <2> TAKE i \in 1 .. N
    <2>1. f[i - 1] \in RoundStates
      BY <1>1, <1>6
    <2> QED
      BY <1>3, <1>6, <2>1
  <1>8. F(f)
    <2>1. \A i \in 0 .. N : f[i] = IF i = 0 THEN x ELSE After(f[i - 1])
      BY <1>1, <1>6, <1>7
    <2> QED
      BY <1>6, <2>1
  <1>9. F(r)
    <2> HIDE DEF F
    <2> QED
      BY <1>8
  <1> HIDE DEF r
  <1>10. r[0] = x /\ \A n \in 1 .. N : r[n] = After(r[n - 1])
    BY <1>1, <1>9
  <1>11. \A n \in 0 .. N : r[n] \in RoundStates
    <2> DEFINE S == {n \in 0 .. N : r[n] \in RoundStates}
    <2>1. 0 \in S
      BY <1>1, <1>10
    <2>2. ASSUME NEW n \in 0 .. N - 1, n \in S
          PROVE  n + 1 \in S
      <3>1. n + 1 \in 1 .. N /\ (n + 1) - 1 = n
        BY <1>1
      <3>2. r[n + 1] = After(r[n])
        BY <1>10, <3>1
      <3> QED
        BY <1>1, <1>2, <2>2, <3>1, <3>2
    <2>3. \A n \in 0 .. N - 1 : n \in S => n + 1 \in S
      BY <2>2
    <2>4. \A n \in 0 .. N : n \in S
      <3> HIDE DEF S
      <3> QED
        BY <1>1, <2>1, <2>3, UpTo
    <2> QED
      BY <2>4
  <1> QED
    BY <1>4, <1>10, <1>11 DEF x, After, N

(* The program's end is not left.                                           *)
LEMMA RoundsEnd ==
  ASSUME NEW facts \in SUBSET Facts, NEW snapshots \in Snapshots, NEW operations \in Operations,
         NEW n \in 0 .. MaxRounds, Rounds(facts, snapshots, operations)[n].level = Levels
  PROVE  Rounds(facts, snapshots, operations)[MaxRounds] = Rounds(facts, snapshots, operations)[n]
PROOF
  <1> DEFINE N == MaxRounds
             r == Rounds(facts, snapshots, operations)
             S == {k \in 0 .. N : k >= n => r[k] = r[n]}
  <1>1. /\ \A k \in 0 .. N : r[k] \in RoundStates
        /\ \A k \in 1 .. N : r[k] = Advance(r[k - 1], snapshots, operations)
    BY RoundsAre
  <1>2. N \in Nat /\ n \in Nat /\ n <= N
    BY LimitsTyped
  <1>3. r[n].level = Levels
    OBVIOUS
  <1> HIDE DEF r, N
  <1>4. 0 \in S
    BY <1>2
  <1>5. ASSUME NEW k \in 0 .. N - 1, k \in S
        PROVE  k + 1 \in S
    <2>1. k + 1 \in 1 .. N /\ k + 1 \in 0 .. N /\ (k + 1) - 1 = k /\ k \in 0 .. N /\ k \in Nat
      BY <1>2
    <2>2. r[k + 1] = Advance(r[k], snapshots, operations) /\ r[k] \in RoundStates
      BY <1>1, <2>1
    <2>3. CASE k >= n
      <3>1. r[k] = r[n]
        BY <1>5, <2>3
      <3>2. r[k + 1] = r[k]
        BY <1>3, <2>2, <3>1, AdvanceIs
      <3> QED
        BY <2>1, <3>1, <3>2
    <2>4. CASE k + 1 = n
      BY <2>1, <2>4
    <2>5. CASE k + 1 < n
      BY <1>2, <2>1, <2>5
    <2> QED
      BY <1>2, <2>1, <2>3, <2>4, <2>5
  <1>6. N \in S
    <2>1. \A k \in 0 .. N - 1 : k \in S => k + 1 \in S
      BY <1>5
    <2>2. \A k \in 0 .. N : k \in S
      <3> HIDE DEF S
      <3> QED
        BY <1>2, <1>4, <2>1, UpTo
    <2> QED
      BY <1>2, <2>2
  <1> QED
    BY <1>2, <1>6 DEF r, N

(* Facts are only added, none equal to one that was there, and their values *)
(* are identified by the facts that were there.                             *)
LEMMA RoundsGrow ==
  ASSUME NEW facts \in SUBSET Facts, NEW snapshots \in Snapshots, NEW operations \in Operations
  PROVE  LET all == Closure(facts, snapshots, operations) IN
         /\ facts \subseteq all /\ all \subseteq Facts
         /\ \A f \in all \ facts, g \in facts : PlainFact(f) # PlainFact(g)
         /\ \A f \in all : Identified(f[2], facts)
PROOF
  <1> DEFINE N == MaxRounds
             r == Rounds(facts, snapshots, operations)
             Grown(all) == /\ facts \subseteq all
                           /\ \A f \in all \ facts, g \in facts : PlainFact(f) # PlainFact(g)
                           /\ \A f \in all : Identified(f[2], facts)
             S == {k \in 0 .. N : Grown(r[k].known)}
  <1>1. /\ \A k \in 0 .. N : r[k] \in RoundStates
        /\ r[0] = [level |-> 0, known |-> facts]
        /\ \A k \in 1 .. N : r[k] = Advance(r[k - 1], snapshots, operations)
    BY RoundsAre
  <1>2. N \in Nat
    BY LimitsTyped
  <1> HIDE DEF r, N
  <1>3. 0 \in S
    <2>1. \A f \in facts : Identified(f[2], facts)
      BY DEF Identified
    <2> QED
      BY <1>1, <1>2, <2>1
  <1>4. ASSUME NEW k \in 0 .. N - 1, k \in S
        PROVE  k + 1 \in S
    <2>1. k + 1 \in 1 .. N /\ k + 1 \in 0 .. N /\ (k + 1) - 1 = k /\ k \in 0 .. N
      BY <1>2
    <2>2. r[k + 1] = Advance(r[k], snapshots, operations) /\ r[k] \in RoundStates
      BY <1>1, <2>1
    <2>3. Grown(r[k].known)
      BY <1>4
    <2>4. CASE r[k].level = Levels
      BY <2>1, <2>2, <2>3, <2>4, AdvanceIs
    <2>5. CASE r[k].level # Levels
      <3> DEFINE old == r[k].known
                 new == Without(Derive(r[k].level, old, snapshots, operations), old)
      <3>1. /\ r[k + 1].known = old \cup new
            /\ \A f \in new : Identified(f[2], old)
            /\ \A f \in new, g \in old : PlainFact(f) # PlainFact(g)
        BY <2>2, <2>5, AdvanceIs
      <3> HIDE DEF new, old
      <3>2. Grown(old)
        BY <2>3 DEF old
      <3>3. \A f \in new : Identified(f[2], facts)
        <4> SUFFICES ASSUME NEW f \in new PROVE Identified(f[2], facts)
          OBVIOUS
        <4>1. CASE f[2] \in {g[2] : g \in old}
          <5>1. PICK g \in old : g[2] = f[2]
            BY <4>1
          <5> QED
            BY <3>2, <5>1
        <4>2. CASE f[2] \notin {g[2] : g \in old}
          BY <3>1, <4>2 DEF Identified
        <4> QED
          BY <4>1, <4>2
      <3>4. Grown(old \cup new)
        <4> HIDE DEF old
        <4>1. \A f \in (old \cup new) \ facts, g \in facts : PlainFact(f) # PlainFact(g)
          BY <3>1, <3>2
        <4>2. \A f \in old \cup new : Identified(f[2], facts)
          BY <3>2, <3>3
        <4> QED
          BY <3>2, <4>1, <4>2
      <3> QED
        BY <2>1, <3>1, <3>4
    <2> QED
      BY <2>4, <2>5
  <1>5. N \in S
    <2>1. \A k \in 0 .. N - 1 : k \in S => k + 1 \in S
      BY <1>4
    <2>2. \A k \in 0 .. N : k \in S
      <3> HIDE DEF S
      <3> QED
        BY <1>2, <1>3, <2>1, UpTo
    <2> QED
      BY <1>2, <2>2
  <1>6. r[N] \in RoundStates /\ N \in 0 .. N
    BY <1>1, <1>2
  <1>7. r[N].known \subseteq Facts
    BY <1>6 DEF RoundStates
  <1>8. Closure(facts, snapshots, operations) = r[N].known
    BY DEF Closure, r, N
  <1> QED
    BY <1>5, <1>7, <1>8

-----------------------------------------------------------------------------
(* The runtime: what native indexes give back                               *)

(* A dictionary gives back a value that it holds, or that nothing equals.   *)
LEMMA InternedSame ==
  ASSUME NEW mode, NEW D \in SUBSET Values, OneOfEach(D), NEW S \in SUBSET Facts,
         mode # "python" => \A f \in S : Identified(f[2], {}) \/ f[2] \in D
  PROVE  AsIndexed(mode, D, S) = S
PROOF
  <1>1. CASE mode = "python"
    BY <1>1 DEF AsIndexed
  <1>2. CASE mode # "python"
    <2>1. ASSUME NEW f \in S
          PROVE  Interned(D, f) = f
      <3>1. f = <<f[1], f[2]>> /\ f[2] \in Values
        BY DEF Facts
      <3>2. CASE \E t \in D : Plain(t) = Plain(f[2])
        <4> DEFINE t == CHOOSE t \in D : Plain(t) = Plain(f[2])
        <4>1. t \in D /\ Plain(t) = Plain(f[2])
          BY <3>2
        <4>2. t = f[2]
          BY <1>2, <4>1 DEF OneOfEach, Identified
        <4> QED
          BY <3>1, <3>2, <4>2 DEF Interned
      <3>3. CASE ~ \E t \in D : Plain(t) = Plain(f[2])
        BY <3>1, <3>3 DEF Interned
      <3> QED
        BY <3>2, <3>3
    <2>2. AsIndexed(mode, D, S) = {Interned(D, f) : f \in S}
      BY <1>2 DEF AsIndexed
    <2> QED
      BY <2>1, <2>2
  <1> QED
    BY <1>1, <1>2

(* What is given back is a fact.                                            *)
LEMMA InternedTyped ==
  ASSUME NEW mode, NEW D \in SUBSET Values, NEW S \in SUBSET Facts
  PROVE  AsIndexed(mode, D, S) \subseteq Facts
PROOF
  <1>1. ASSUME NEW f \in S
        PROVE  Interned(D, f) \in Facts
    <2>1. f[1] \in Predicates /\ f[2] \in Values
      BY DEF Facts
    <2>2. CASE \E t \in D : Plain(t) = Plain(f[2])
      BY <2>1, <2>2 DEF Interned, Facts
    <2>3. CASE ~ \E t \in D : Plain(t) = Plain(f[2])
      BY <2>1, <2>3 DEF Interned, Facts
    <2> QED
      BY <2>2, <2>3
  <1> QED
    BY <1>1 DEF AsIndexed

LEMMA TermsTyped ==
  ASSUME NEW mode, NEW S \in SUBSET Facts, terms \subseteq Values
  PROVE  /\ TermsWith(mode, S) \subseteq Values
         /\ terms \subseteq TermsWith(mode, S) /\ TermsWith(mode, S) \subseteq terms \cup ValuesOf(S)
         /\ mode # "python" => \A f \in S : \E t \in TermsWith(mode, S) : Plain(t) = Plain(f[2])
PROOF
  <1>1. ValuesOf(S) \subseteq Values
    BY DEF ValuesOf, Facts
  <1>2. CASE mode = "python"
    BY <1>1, <1>2 DEF TermsWith
  <1>3. CASE mode # "python"
    <2> DEFINE held == {Plain(t) : t \in terms}
               One(p) == CHOOSE v \in ValuesOf(S) : Plain(v) = p
               taken == {One(p) : p \in PlainValues(S) \ held}
    <2>1. TermsWith(mode, S) = terms \cup taken
      BY <1>3 DEF TermsWith, ValuesOf
    <2>2. \A p \in PlainValues(S) : One(p) \in ValuesOf(S) /\ Plain(One(p)) = p
      <3> SUFFICES ASSUME NEW p \in PlainValues(S) PROVE One(p) \in ValuesOf(S) /\ Plain(One(p)) = p
        OBVIOUS
      <3>1. \E v \in ValuesOf(S) : Plain(v) = p
        BY DEF PlainValues, ValuesOf
      <3> QED
        BY <3>1
    <2> HIDE DEF One
    <2>3. taken \subseteq ValuesOf(S)
      BY <2>2
    <2>4. \A f \in S : \E t \in terms \cup taken : Plain(t) = Plain(f[2])
      <3> SUFFICES ASSUME NEW f \in S PROVE \E t \in terms \cup taken : Plain(t) = Plain(f[2])
        OBVIOUS
      <3>1. Plain(f[2]) \in PlainValues(S)
        BY DEF PlainValues
      <3>2. CASE Plain(f[2]) \in held
        BY <3>2
      <3>3. CASE Plain(f[2]) \notin held
        <4>1. One(Plain(f[2])) \in taken /\ Plain(One(Plain(f[2]))) = Plain(f[2])
          BY <2>2, <3>1, <3>3
        <4> QED
          BY <4>1
      <3> QED
        BY <3>2, <3>3
    <2> HIDE DEF taken
    <2> QED
      BY <1>1, <2>1, <2>3, <2>4
  <1> QED
    BY <1>2, <1>3

(* Facts whose values the dictionary holds, or that nothing equals, stay as *)
(* they are, and afterwards the dictionary holds their values.              *)
LEMMA NewFactsStay ==
  ASSUME NEW mode, NEW known \in SUBSET Facts, NEW S \in SUBSET Facts,
         terms \subseteq Values, OneOfEach(terms),
         \A f \in S : Identified(f[2], known),
         mode # "python" => ValuesOf(known) \subseteq terms
  PROVE  /\ AsIndexed(mode, TermsWith(mode, S), S) = S
         /\ mode # "python" => ValuesOf(known \cup S) \subseteq TermsWith(mode, S)
PROOF
  <1> DEFINE D == TermsWith(mode, S)
  <1>1. /\ D \subseteq Values /\ terms \subseteq D
        /\ mode # "python" => \A f \in S : \E t \in D : Plain(t) = Plain(f[2])
    BY TermsTyped
  <1>2. OneOfEach(D)
    BY TermsGrow
  <1> HIDE DEF D
  <1>3. mode # "python" => \A f \in S : Identified(f[2], {}) \/ f[2] \in D
    BY <1>1 DEF Identified, ValuesOf
  <1>4. AsIndexed(mode, D, S) = S
    BY <1>1, <1>2, <1>3, InternedSame
  <1>5. ASSUME mode # "python", NEW f \in known \cup S
        PROVE  f[2] \in D
    <2>1. CASE f \in known
      BY <1>1, <1>5, <2>1 DEF ValuesOf
    <2>2. CASE f \in S /\ Identified(f[2], {})
      <3>1. PICK t \in D : Plain(t) = Plain(f[2])
        BY <1>1, <1>5, <2>2
      <3>2. t = f[2]
        BY <1>1, <2>2, <3>1 DEF Identified
      <3> QED
        BY <3>1, <3>2
    <2>3. CASE f \in S /\ f[2] \in D
      BY <2>3
    <2> QED
      BY <1>3, <1>5, <2>1, <2>2, <2>3
  <1>6. mode # "python" => ValuesOf(known \cup S) \subseteq D
    BY <1>5 DEF ValuesOf
  <1> QED
    BY <1>4, <1>6 DEF D

(* So do inputs in which no two values are equal, nor to one it holds       *)
(* (_input_execution_mode).                                                 *)
LEMMA InputsStay ==
  ASSUME NEW mode, NEW known \in SUBSET Facts, NEW S \in SUBSET known,
         terms \subseteq Values, OneOfEach(terms), mode # "python" => ~Ambiguous(known, terms)
  PROVE  /\ AsIndexed(mode, TermsWith(mode, known), S) = S
         /\ mode # "python" => ValuesOf(known) \subseteq TermsWith(mode, known)
PROOF
  <1> DEFINE D == TermsWith(mode, known)
  <1>1. /\ D \subseteq Values /\ D \subseteq terms \cup ValuesOf(known)
        /\ mode # "python" => \A f \in known : \E t \in D : Plain(t) = Plain(f[2])
    BY TermsTyped
  <1>2. OneOfEach(D)
    BY TermsGrow
  <1> HIDE DEF D
  <1>3. ASSUME mode # "python", NEW f \in known
        PROVE  f[2] \in D
    <2>1. PICK t \in D : Plain(t) = Plain(f[2])
      BY <1>1, <1>3
    <2>2. t \in {g[2] : g \in known} \cup terms
      BY <1>1 DEF ValuesOf
    <2>3. t = f[2]
      BY <1>3, <2>1, <2>2 DEF Ambiguous
    <2> QED
      BY <2>1, <2>3
  <1>4. S \in SUBSET Facts
    OBVIOUS
  <1>5. AsIndexed(mode, D, S) = S
    BY <1>1, <1>2, <1>3, <1>4, InternedSame
  <1>6. mode # "python" => ValuesOf(known) \subseteq D
    BY <1>3 DEF ValuesOf
  <1> QED
    BY <1>5, <1>6 DEF D

-----------------------------------------------------------------------------
(* The runtime: what is published                                           *)

Outsides == [operations : [providers : Nat, domain : Nat], adapters : [Adapters -> Nat]]
Keys == [source : Nat \X Nat, outside : Outsides, inputs : SUBSET Facts]

(* Every part of the outside only moves on.                                 *)
NoLater(o, p) ==
  /\ o.operations.providers <= p.operations.providers /\ o.operations.domain <= p.operations.domain
  /\ \A a \in Adapters : o.adapters[a] <= p.adapters[a]
AtMost(o, n) ==
  /\ o.operations.providers <= n /\ o.operations.domain <= n
  /\ \A a \in Adapters : o.adapters[a] <= n

WorldTyped ==
  /\ changes \in 0 .. MaxEdits
  /\ outside \in Outsides /\ AtMost(outside, changes)
  /\ source \in [owner : Nat, revision : Nat, facts : SUBSET Facts]
  /\ ownerEpoch \in Nat

(* The snapshots that an evaluation under a key has to read from.           *)
PinnedAt(b, world) == IF b = "native" THEN Unpinned ELSE world.adapters

(* What the cache keeps for a key is the answer for it.                     *)
AnswerAt(b, key) == Answer(key.inputs, PinnedAt(b, key.outside), key.outside.operations)
Stored(b) == {e \in [key : Keys, rows : SUBSET Facts] : e.rows = AnswerAt(b, e.key)}

(* Keys are read from revisions that were, and facts are of the revision.   *)
Begun(e, src, out) ==
  /\ e.sourceKey \in Nat \X Nat /\ e.outsideKey \in Outsides
  /\ e.sourceKey[1] < src.owner \/ (e.sourceKey[1] = src.owner /\ e.sourceKey[2] <= src.revision)
  /\ NoLater(e.outsideKey, out)

HasInputs(e, src) ==
  /\ EvaluationFields(e)
  /\ e.inputs \subseteq Facts /\ e.known \subseteq Facts
  /\ e.key \in Keys /\ e.key.outside = e.outsideKey /\ e.key.inputs = e.inputs
  /\ e.mode \in {"python", "native"}
  /\ e.sourceKey = <<src.owner, src.revision>> => e.inputs = Joined(src.facts, e.supplied)

IsHit(e, b) == e.known = AnswerAt(b, e.key)

IsNew(e, D) ==
  /\ e.known = e.inputs /\ e.level = 0 /\ e.rounds = 0
  /\ e.mode = "native" => ~Ambiguous(e.inputs, D)

(* A snapshot is pinned after its key was read, and not looked at again.    *)
IsPinned(e, b, out) ==
  IF b = "native" THEN e.snapshots = Unpinned
  ELSE /\ e.snapshots \in [Adapters -> Int]
       /\ \A a \in Adapters : e.snapshots[a] # -1 =>
            e.outsideKey.adapters[a] <= e.snapshots[a] /\ e.snapshots[a] <= out.adapters[a]
IsPinnedFully(e, b) == b # "native" => \A a \in Adapters : e.snapshots[a] # -1

(* While the operations stay, the rounds are those of the program.          *)
OfProgram(e, out) ==
  LET r == Rounds(e.inputs, e.snapshots, out.operations)
      now == [level |-> e.level, known |-> e.known]
  IN r[e.rounds] = now \/ (e.level = Levels /\ r[MaxRounds] = now)

IsDerived(e, b, out, D) ==
  /\ IsPinnedFully(e, b)
  /\ e.level \in 0 .. Levels /\ e.rounds \in 0 .. MaxRounds
  /\ e.mode = "native" => ValuesOf(e.known) \subseteq D
  /\ b = "native" /\ e.mode = "native" /\ e.level < Levels => e.known = e.inputs
  /\ e.outsideKey.operations = out.operations => OfProgram(e, out)

(* The index holds what is known, to the identity of every value.           *)
IndexHolds(e, ix, noted, stale) ==
  ~stale /\ ix.rows = e.known /\ noted = e.known /\ ix.mode = e.mode

(* The closing check: what was compared so far had not moved when it began, *)
(* and where nothing had, the relations are the answer of then.             *)
ConfirmFields(e) ==
  e = [phase |-> e.phase, key |-> e.key, cached |-> e.cached, relations |-> e.relations,
       moment |-> e.moment, asked |-> e.asked]
IsConfirming(e, b, out) ==
  /\ ConfirmFields(e)
  /\ e.key \in Keys /\ e.relations \subseteq Facts /\ e.asked \in 0 .. NumAdapters
  /\ e.moment.inputs = e.key.inputs /\ e.moment.outside \in Outsides
  /\ NoLater(e.key.outside, e.moment.outside) /\ NoLater(e.moment.outside, out)
  /\ e.key.outside.operations.providers = e.moment.outside.operations.providers
  /\ \A a \in 1 .. e.asked : e.key.outside.adapters[a] = e.moment.outside.adapters[a]
  /\ e.key.outside = e.moment.outside => e.relations = AnswerAt(b, e.key)

EvaluationStands(e, b, src, out, D, ix, noted, stale) ==
  /\ e.phase \in {"idle", "keys", "hit", "pin", "rounds", "confirm", "closed"} /\ (e.phase = "closed" => e = Closed)
  /\ e.phase \in {"keys", "hit", "pin", "rounds"} => Begun(e, src, out)
  /\ e.phase \in {"hit", "pin", "rounds"} => HasInputs(e, src)
  /\ e.phase = "hit" => IsHit(e, b)
  /\ e.phase = "pin" => IsNew(e, D)
  /\ e.phase \in {"pin", "rounds"} => IsPinned(e, b, out)
  /\ e.phase = "rounds" => IsDerived(e, b, out, D) /\ IndexHolds(e, ix, noted, stale)
  /\ e.phase = "confirm" => IsConfirming(e, b, out)

(* Unless it is marked, the index holds what was noted.                     *)
IndexFields(ix) == ix = [mode |-> ix.mode, rows |-> ix.rows]
IndexStands(e, D, ix, noted, stale) ==
  /\ D \subseteq Values /\ IndexFields(ix)
  /\ e.phase # "closed" =>
       ix.rows \subseteq Facts /\ noted \subseteq Facts /\ (~stale => ix.rows = noted)

ExactInvariant ==
  /\ WorldTyped
  /\ IndexStands(evaluation, terms, index, indexed, dirty)
  /\ results \in Seq(Stored(backend))
  /\ EvaluationStands(evaluation, backend, source, outside, terms, index, indexed, dirty)
  /\ PublishedIsExact

(* The parts of an outside are counted, and say what it is.                 *)
LEMMA OutsideCounts ==
  ASSUME NEW o \in Outsides
  PROVE  /\ o.operations.providers \in Nat /\ o.operations.domain \in Nat
         /\ \A a \in Adapters : o.adapters[a] \in Nat
  BY DEF Outsides

LEMMA OutsideParts ==
  ASSUME NEW o \in Outsides
  PROVE  /\ o.operations.providers \in Nat /\ o.operations.domain \in Nat
         /\ o.operations = [providers |-> o.operations.providers, domain |-> o.operations.domain]
         /\ o.adapters \in [Adapters -> Nat]
         /\ o = [operations |-> o.operations, adapters |-> o.adapters]
  BY DEF Outsides

LEMMA NoLaterItself == ASSUME NEW o \in Outsides PROVE NoLater(o, o)
  BY OutsideCounts DEF NoLater

(* What is between two equal parts is equal to them.                        *)
LEMMA Between ==
  ASSUME NEW o \in Outsides, NEW p \in Outsides, NEW q \in Outsides, NoLater(o, p), NoLater(p, q)
  PROVE  /\ NoLater(o, q)
         /\ o.operations.providers = q.operations.providers => o.operations.providers = p.operations.providers
         /\ o.operations.domain = q.operations.domain => o.operations.domain = p.operations.domain
         /\ \A a \in Adapters : o.adapters[a] = q.adapters[a] => o.adapters[a] = p.adapters[a]
         /\ o.operations = q.operations => p.operations = q.operations
PROOF
  <1>1. /\ o.operations.providers \in Nat /\ p.operations.providers \in Nat /\ q.operations.providers \in Nat
        /\ o.operations.domain \in Nat /\ p.operations.domain \in Nat /\ q.operations.domain \in Nat
        /\ \A a \in Adapters : o.adapters[a] \in Nat /\ p.adapters[a] \in Nat /\ q.adapters[a] \in Nat
    BY OutsideParts
  <1>2. /\ o.operations.providers <= p.operations.providers /\ p.operations.providers <= q.operations.providers
        /\ o.operations.domain <= p.operations.domain /\ p.operations.domain <= q.operations.domain
        /\ \A a \in Adapters : o.adapters[a] <= p.adapters[a] /\ p.adapters[a] <= q.adapters[a]
    BY DEF NoLater
  <1>3. NoLater(o, q)
    BY <1>1, <1>2 DEF NoLater
  <1>4. o.operations.providers = q.operations.providers => o.operations.providers = p.operations.providers
    BY <1>1, <1>2
  <1>5. o.operations.domain = q.operations.domain => o.operations.domain = p.operations.domain
    BY <1>1, <1>2
  <1>6. \A a \in Adapters : o.adapters[a] = q.adapters[a] => o.adapters[a] = p.adapters[a]
    BY <1>1, <1>2
  <1>7. o.operations = q.operations => p.operations = q.operations
    BY <1>4, <1>5, OutsideParts
  <1> QED
    BY <1>3, <1>4, <1>5, <1>6, <1>7

LEMMA SameParts ==
  ASSUME NEW o \in Outsides, NEW p \in Outsides,
         o.operations.providers = p.operations.providers, o.operations.domain = p.operations.domain,
         \A a \in Adapters : o.adapters[a] = p.adapters[a]
  PROVE  o = p
PROOF
  <1>1. o.operations = p.operations
    BY OutsideParts
  <1>2. o.adapters = p.adapters
    <2>1. o.adapters \in [Adapters -> Nat] /\ p.adapters \in [Adapters -> Nat]
      BY OutsideParts
    <2> QED
      BY <2>1
  <1> QED
    BY <1>1, <1>2, OutsideParts

LEMMA ExactStarts == RuntimeInit => ExactInvariant
PROOF
  <1> SUFFICES ASSUME RuntimeInit PROVE ExactInvariant
    OBVIOUS
  <1>1. WorldTyped
    BY LimitsTyped, InputsAssumption DEF RuntimeInit, WorldTyped, Outsides, AtMost
  <1>2. evaluation.phase = "idle"
    BY DEF RuntimeInit, NoEvaluation
  <1>3. EvaluationStands(evaluation, backend, source, outside, terms, index, indexed, dirty)
    BY <1>2 DEF EvaluationStands
  <1>4. IndexStands(evaluation, terms, index, indexed, dirty)
    BY DEF RuntimeInit, IndexStands, IndexFields, NoIndex
  <1>5. results \in Seq(Stored(backend)) /\ PublishedIsExact
    BY DEF RuntimeInit, PublishedIsExact
  <1> QED
    BY <1>1, <1>3, <1>4, <1>5 DEF ExactInvariant

(* An evaluation that is given up leaves what the index stands for.         *)
LEMMA GivenUp ==
  ASSUME NEW e, e \in {NoEvaluation, Closed}, NEW b, NEW src, NEW out, NEW D, NEW ix, NEW noted, NEW stale
  PROVE  EvaluationStands(e, b, src, out, D, ix, noted, stale)
  BY DEF EvaluationStands, NoEvaluation, Closed

(* Facts of a set and what is added to it stay among the facts.             *)
LEMMA JoinedTyped ==
  ASSUME NEW S \in SUBSET Facts, NEW T \in SUBSET Facts
  PROVE  Joined(S, T) \in SUBSET Facts
  BY JoinedIs

-----------------------------------------------------------------------------
(* The runtime: steps of the outside                                        *)

LEMMA OutsideStep ==
  ASSUME ExactInvariant,
         \/ \E registry \in {"providers", "domain"} : ChangeOperations(registry)
         \/ \E a \in Adapters : ChangeAdapter(a)
  PROVE  source' = source /\ outside' \in Outsides /\ NoLater(outside, outside') /\ AtMost(outside', changes')
PROOF
  <1>1. /\ outside \in Outsides /\ AtMost(outside, changes) /\ changes \in Nat
        /\ changes' = changes + 1 /\ source' = source
    BY LimitsTyped DEF ExactInvariant, WorldTyped, ChangeOperations, ChangeAdapter
  <1> DEFINE o == outside.operations
             s == outside.adapters
  <1>2. /\ o.providers \in Nat /\ o.domain \in Nat /\ o = [providers |-> o.providers, domain |-> o.domain]
        /\ s \in [Adapters -> Nat] /\ outside = [operations |-> o, adapters |-> s]
    BY <1>1, OutsideParts
  <1>3. o.providers <= changes /\ o.domain <= changes /\ \A a \in Adapters : s[a] <= changes
    BY <1>1 DEF AtMost
  <1>4. CASE \E registry \in {"providers", "domain"} : ChangeOperations(registry)
    <2>1. \/ outside' = [operations |-> [providers |-> o.providers + 1, domain |-> o.domain], adapters |-> s]
          \/ outside' = [operations |-> [providers |-> o.providers, domain |-> o.domain + 1], adapters |-> s]
      BY <1>2, <1>4 DEF ChangeOperations
    <2> HIDE DEF o, s
    <2> QED
      BY <1>1, <1>2, <1>3, <2>1 DEF Outsides, NoLater, AtMost, o, s
  <1>5. CASE \E a \in Adapters : ChangeAdapter(a)
    <2>1. PICK a \in Adapters : outside' = [outside EXCEPT !.adapters[a] = @ + 1]
      BY <1>5 DEF ChangeAdapter
    <2> DEFINE t == [s EXCEPT ![a] = @ + 1]
    <2>2. outside' = [operations |-> o, adapters |-> t]
      BY <1>2, <2>1
    <2>3. t \in [Adapters -> Nat] /\ \A c \in Adapters : t[c] = IF c = a THEN s[c] + 1 ELSE s[c]
      BY <1>2
    <2>4. \A c \in Adapters : s[c] <= t[c] /\ t[c] <= changes'
      <3> HIDE DEF t
      <3> QED
        BY <1>1, <1>2, <1>3, <2>3
    <2> HIDE DEF t
    <2>5. outside'.operations = o /\ outside'.adapters = t
      BY <2>2
    <2>6. outside' \in Outsides
      BY <1>2, <2>2, <2>3 DEF Outsides
    <2>7. o.providers <= o.providers /\ o.domain <= o.domain /\ o.providers <= changes' /\ o.domain <= changes'
      BY <1>1, <1>2, <1>3
    <2> QED
      BY <1>1, <2>4, <2>5, <2>6, <2>7 DEF NoLater, AtMost
  <1> QED
    BY <1>1, <1>4, <1>5

LEMMA SourceStep ==
  ASSUME ExactInvariant, ChangeSource
  PROVE  /\ outside' = outside /\ source' \in [owner : Nat, revision : Nat, facts : SUBSET Facts]
         /\ source'.owner > source.owner \/ (source'.owner = source.owner /\ source'.revision > source.revision)
PROOF
  <1>1. PICK fs \in SourceFacts : source' \in {[source EXCEPT !.revision = @ + 1, !.facts = fs],
                                               [owner |-> source.owner + 1, revision |-> 0, facts |-> fs]}
    BY DEF ChangeSource
  <1>2. fs \subseteq Facts
    BY InputsAssumption
  <1>3. source.owner \in Nat /\ source.revision \in Nat
        /\ source = [owner |-> source.owner, revision |-> source.revision, facts |-> source.facts]
    BY DEF ExactInvariant, WorldTyped
  <1>4. [source EXCEPT !.revision = @ + 1, !.facts = fs]
          = [owner |-> source.owner, revision |-> source.revision + 1, facts |-> fs]
    <2> DEFINE a == [source EXCEPT !.revision = @ + 1]
    <2>1. a = [owner |-> source.owner, revision |-> source.revision + 1, facts |-> source.facts]
      BY <1>3
    <2> HIDE DEF a
    <2>2. [a EXCEPT !.facts = fs] = [owner |-> source.owner, revision |-> source.revision + 1, facts |-> fs]
      BY <2>1
    <2> QED
      BY <2>2 DEF a
  <1>5. outside' = outside
    BY DEF ChangeSource
  <1> QED
    BY <1>1, <1>2, <1>3, <1>4, <1>5

LEMMA WorldStep ==
  ASSUME ExactInvariant,
         \/ ChangeSource
         \/ \E registry \in {"providers", "domain"} : ChangeOperations(registry)
         \/ \E a \in Adapters : ChangeAdapter(a)
  PROVE  ExactInvariant'
PROOF
  <1>1. /\ changes < MaxEdits /\ changes' = changes + 1
        /\ UNCHANGED <<backend, evaluation, index, indexed, dirty, terms, ownerEpoch, seen, results, last>>
    BY DEF ChangeSource, ChangeOperations, ChangeAdapter, runtime
  <1>2. WorldTyped /\ changes \in Nat /\ MaxEdits \in Nat /\ outside \in Outsides
    BY LimitsTyped DEF ExactInvariant, WorldTyped
  <1>3. \/ outside' = outside /\ source' \in [owner : Nat, revision : Nat, facts : SUBSET Facts]
           /\ (source'.owner > source.owner \/ (source'.owner = source.owner /\ source'.revision > source.revision))
        \/ source' = source /\ outside' \in Outsides /\ NoLater(outside, outside') /\ AtMost(outside', changes')
    BY SourceStep, OutsideStep
  <1>4. AtMost(outside, changes')
    <2>1. AtMost(outside, changes)
      BY <1>2 DEF WorldTyped
    <2> QED
      BY <1>1, <1>2, <2>1, OutsideCounts DEF AtMost
  <1>5. outside' \in Outsides /\ NoLater(outside, outside') /\ AtMost(outside', changes')
    BY <1>2, <1>3, <1>4, NoLaterItself
  <1>6. WorldTyped'
    BY <1>1, <1>2, <1>3, <1>5 DEF WorldTyped, AtMost
  <1> DEFINE e == evaluation
  <1>7. EvaluationStands(e, backend, source, outside, terms, index, indexed, dirty)
    BY DEF ExactInvariant
  <1>8. source.owner \in Nat /\ source.revision \in Nat /\ source'.owner \in Nat /\ source'.revision \in Nat
    BY <1>2, <1>6 DEF WorldTyped
  <1>9. Begun(e, source, outside) => Begun(e, source', outside')
    <2> SUFFICES ASSUME Begun(e, source, outside) PROVE Begun(e, source', outside')
      OBVIOUS
    <2>1. e.sourceKey[1] \in Nat /\ e.sourceKey[2] \in Nat /\ e.outsideKey \in Outsides
      BY DEF Begun
    <2>2. NoLater(e.outsideKey, outside')
      BY <1>2, <1>5, <2>1, Between DEF Begun
    <2> QED
      BY <1>3, <1>8, <2>1, <2>2 DEF Begun
  <1>10. Begun(e, source, outside) /\ HasInputs(e, source) => HasInputs(e, source')
    <2> SUFFICES ASSUME Begun(e, source, outside), HasInputs(e, source), e.sourceKey = <<source'.owner, source'.revision>>
                 PROVE  e.inputs = Joined(source'.facts, e.supplied)
      BY DEF HasInputs
    <2>1. source' = source
      BY <1>3, <1>8 DEF Begun
    <2> QED
      BY <2>1 DEF HasInputs
  <1>11. Begun(e, source, outside) /\ IsPinned(e, backend, outside) => IsPinned(e, backend, outside')
    <2> SUFFICES ASSUME Begun(e, source, outside), IsPinned(e, backend, outside) PROVE IsPinned(e, backend, outside')
      OBVIOUS
    <2>1. \A a \in Adapters : outside.adapters[a] \in Nat /\ outside'.adapters[a] \in Nat
                                 /\ outside.adapters[a] <= outside'.adapters[a]
      BY <1>2, <1>5, OutsideParts DEF NoLater
    <2> QED
      BY <2>1 DEF IsPinned
  <1>12. Begun(e, source, outside) /\ IsDerived(e, backend, outside, terms) => IsDerived(e, backend, outside', terms)
    <2> SUFFICES ASSUME Begun(e, source, outside), IsDerived(e, backend, outside, terms),
                        e.outsideKey.operations = outside'.operations
                 PROVE  OfProgram(e, outside')
      BY DEF IsDerived
    <2>1. outside.operations = outside'.operations
      BY <1>2, <1>5, Between DEF Begun
    <2>2. OfProgram(e, outside)
      BY <2>1 DEF IsDerived
    <2> QED
      BY <2>1, <2>2 DEF OfProgram
  <1>13. IsConfirming(e, backend, outside) => IsConfirming(e, backend, outside')
    <2> SUFFICES ASSUME IsConfirming(e, backend, outside) PROVE NoLater(e.moment.outside, outside')
      BY DEF IsConfirming
    <2> QED
      BY <1>2, <1>5, Between DEF IsConfirming
  <1>14. EvaluationStands(e, backend, source', outside', terms, index, indexed, dirty)
    BY <1>7, <1>9, <1>10, <1>11, <1>12, <1>13 DEF EvaluationStands
  <1> QED
    BY <1>1, <1>6, <1>14 DEF ExactInvariant, IndexStands, PublishedIsExact, EvaluationStands

-----------------------------------------------------------------------------
(* The runtime: steps of an evaluation                                      *)

(* The parts of the invariant, and what an evaluation leaves alone.         *)
LEMMA InvariantParts ==
  ASSUME ExactInvariant
  PROVE  /\ outside \in Outsides /\ outside.operations \in Operations
         /\ outside.adapters \in [Adapters -> 0 .. MaxEdits]
         /\ source.owner \in Nat /\ source.revision \in Nat /\ source.facts \subseteq Facts /\ ownerEpoch \in Nat
         /\ terms \subseteq Values /\ IndexFields(index)
         /\ EvaluationStands(evaluation, backend, source, outside, terms, index, indexed, dirty)
         /\ results \in Seq(Stored(backend))
         /\ evaluation.phase # "closed" =>
              index.rows \subseteq Facts /\ indexed \subseteq Facts /\ (~dirty => index.rows = indexed)
PROOF
  <1>1. WorldTyped /\ changes \in Nat /\ MaxEdits \in Nat
    BY LimitsTyped DEF ExactInvariant, WorldTyped
  <1>2. /\ outside \in Outsides /\ outside.operations \in Operations
        /\ outside.adapters \in [Adapters -> 0 .. MaxEdits]
    <2>1. outside \in Outsides /\ AtMost(outside, changes) /\ changes <= MaxEdits
      BY <1>1 DEF WorldTyped
    <2>2. outside.operations.providers <= MaxEdits /\ outside.operations.domain <= MaxEdits
          /\ \A a \in Adapters : outside.adapters[a] <= MaxEdits
      BY <1>1, <2>1, OutsideCounts DEF AtMost
    <2>3. outside.operations.providers \in 0 .. MaxEdits /\ outside.operations.domain \in 0 .. MaxEdits
          /\ \A a \in Adapters : outside.adapters[a] \in 0 .. MaxEdits
      <3>1. outside.operations.providers \in Nat /\ outside.operations.domain \in Nat
            /\ \A a \in Adapters : outside.adapters[a] \in Nat
        BY <2>1, OutsideCounts
      <3> QED
        BY <1>1, <2>2, <3>1
    <2>4. outside.operations \in Operations
      <3>1. outside.operations = [providers |-> outside.operations.providers, domain |-> outside.operations.domain]
        BY <2>1, OutsideParts
      <3> QED
        BY <2>3, <3>1 DEF Operations
    <2>5. outside.adapters \in [Adapters -> 0 .. MaxEdits]
      BY <2>1, <2>3, OutsideParts
    <2> QED
      BY <2>1, <2>4, <2>5
  <1>3. source.owner \in Nat /\ source.revision \in Nat /\ source.facts \subseteq Facts /\ ownerEpoch \in Nat
    BY <1>1 DEF WorldTyped
  <1> QED
    BY <1>1, <1>2, <1>3 DEF ExactInvariant, IndexStands

LEMMA SnapshotsTyped ==
  ASSUME ExactInvariant, NEW e, e.outsideKey \in Outsides, IsPinned(e, backend, outside)
  PROVE  e.snapshots \in Snapshots
PROOF
  <1>1. CASE backend = "native"
    BY <1>1, LimitsTyped DEF IsPinned, Snapshots, Unpinned
  <1>2. CASE backend # "native"
    <2>1. \A a \in Adapters : outside.adapters[a] \in 0 .. MaxEdits /\ e.outsideKey.adapters[a] \in Nat
      BY InvariantParts, OutsideParts
    <2>2. e.snapshots \in [Adapters -> Int]
          /\ \A a \in Adapters : e.snapshots[a] # -1 =>
               e.outsideKey.adapters[a] <= e.snapshots[a] /\ e.snapshots[a] <= outside.adapters[a]
      BY <1>2 DEF IsPinned
    <2>3. \A a \in Adapters : e.snapshots[a] \in -1 .. MaxEdits
      BY <2>1, <2>2, LimitsTyped
    <2> QED
      BY <2>2, <2>3 DEF Snapshots
  <1> QED
    BY <1>1, <1>2

LEMMA Inside ==
  ASSUME ExactInvariant, UNCHANGED <<backend, source, outside, changes, last>>,
         ownerEpoch' \in Nat, terms' \subseteq Values, IndexFields(index'),
         evaluation'.phase # "closed" =>
           index'.rows \subseteq Facts /\ indexed' \subseteq Facts /\ (~dirty' => index'.rows = indexed'),
         results' \in Seq(Stored(backend)),
         EvaluationStands(evaluation', backend, source, outside, terms', index', indexed', dirty')
  PROVE  ExactInvariant'
PROOF
  <1>1. WorldTyped'
    BY DEF ExactInvariant, WorldTyped
  <1>2. IndexStands(evaluation', terms', index', indexed', dirty')
    BY DEF IndexStands
  <1>3. PublishedIsExact'
    BY DEF ExactInvariant, PublishedIsExact
  <1>4. EvaluationStands(evaluation', backend', source', outside', terms', index', indexed', dirty')
    OBVIOUS
  <1>5. results' \in Seq(Stored(backend'))
    OBVIOUS
  <1> QED
    BY <1>1, <1>2, <1>3, <1>4, <1>5 DEF ExactInvariant

LEMMA EvaluateStep == ExactInvariant /\ Evaluate => ExactInvariant'
PROOF
  <1> SUFFICES ASSUME ExactInvariant, Evaluate PROVE ExactInvariant'
    OBVIOUS
  <1>1. evaluation' = [phase |-> "keys", sourceKey |-> SourceKey, outsideKey |-> outside, asked |-> 0]
    BY DEF Evaluate
  <1>2. /\ UNCHANGED <<backend, source, outside, changes, last, ownerEpoch, terms, index, indexed, dirty, results>>
        /\ evaluation.phase = "idle"
    BY DEF Evaluate, NoEvaluation
  <1>3. evaluation'.phase = "keys" /\ evaluation'.sourceKey = <<source.owner, source.revision>>
        /\ evaluation'.outsideKey = outside
    BY <1>1 DEF SourceKey
  <1>4. Begun(evaluation', source, outside)
    <2>1. outside \in Outsides /\ NoLater(outside, outside)
      BY InvariantParts, NoLaterItself
    <2> QED
      BY <1>3, <2>1, InvariantParts DEF Begun
  <1>5. EvaluationStands(evaluation', backend, source, outside, terms', index', indexed', dirty')
    BY <1>3, <1>4 DEF EvaluationStands
  <1> QED
    BY <1>2, <1>5, InvariantParts, Inside

(* What an adapter reports later is not from before.                        *)
LEMMA KeyAfterIs ==
  ASSUME ExactInvariant, NEW key \in Outsides, NoLater(key, outside), NEW a
  PROVE  KeyAfter(key, a) \in Outsides /\ NoLater(KeyAfter(key, a), outside)
PROOF
  <1> DEFINE after == KeyAfter(key, a)
             s     == [key.adapters EXCEPT ![a] = outside.adapters[a]]
  <1>1. outside \in Outsides
    BY InvariantParts
  <1>2. s \in [Adapters -> Nat] /\ \A c \in Adapters : s[c] = IF c = a THEN outside.adapters[c] ELSE key.adapters[c]
    BY <1>1, OutsideParts
  <1>3. \A c \in Adapters : s[c] <= outside.adapters[c]
    <2> HIDE DEF s
    <2> QED
      BY <1>1, <1>2, OutsideParts DEF NoLater
  <1>4. after = [operations |-> [providers |-> key.operations.providers, domain |-> outside.operations.domain],
                 adapters   |-> s]
    BY DEF KeyAfter
  <1> HIDE DEF after, s
  <1>5. after \in Outsides
    BY <1>1, <1>2, <1>4, OutsideParts DEF Outsides
  <1>6. NoLater(after, outside)
    <2>1. after.operations.providers = key.operations.providers /\ after.operations.domain = outside.operations.domain
          /\ after.adapters = s
      BY <1>4
    <2>2. key.operations.providers <= outside.operations.providers
          /\ outside.operations.domain <= outside.operations.domain
      BY <1>1, OutsideCounts DEF NoLater
    <2> QED
      BY <1>3, <2>1, <2>2 DEF NoLater
  <1> QED
    BY <1>5, <1>6 DEF after

LEMMA ReadAdapterKeyStep == ExactInvariant /\ ReadAdapterKey => ExactInvariant'
PROOF
  <1> SUFFICES ASSUME ExactInvariant, ReadAdapterKey PROVE ExactInvariant'
    OBVIOUS
  <1> DEFINE e == evaluation
             key == KeyAfter(e.outsideKey, e.asked + 1)
  <1>1. /\ e.phase = "keys"
        /\ evaluation' = [phase |-> "keys", sourceKey |-> e.sourceKey, outsideKey |-> key, asked |-> e.asked + 1]
        /\ UNCHANGED <<backend, source, outside, changes, last, ownerEpoch, terms, index, indexed, dirty, results>>
    BY DEF ReadAdapterKey, runtime
  <1>2. Begun(e, source, outside)
    BY <1>1, InvariantParts DEF EvaluationStands
  <1>3. key \in Outsides /\ NoLater(key, outside)
    BY <1>2, KeyAfterIs DEF Begun
  <1> HIDE DEF key
  <1>4. evaluation'.phase = "keys" /\ evaluation'.sourceKey = e.sourceKey /\ evaluation'.outsideKey = key
    BY <1>1
  <1>5. Begun(evaluation', source, outside)
    BY <1>2, <1>3, <1>4 DEF Begun
  <1>6. EvaluationStands(evaluation', backend, source, outside, terms', index', indexed', dirty')
    BY <1>4, <1>5 DEF EvaluationStands
  <1> QED
    BY <1>1, <1>6, InvariantParts, Inside

(* An entry that is found is taken out.                                     *)
LEMMA WithoutHitIs ==
  ASSUME ExactInvariant, NEW key
  PROVE  /\ WithoutHit(key) \in Seq(Stored(backend))
         /\ Hits(key) # {} => LET i == CHOOSE i \in Hits(key) : TRUE IN results[i] \in Stored(backend) /\ results[i].key = key
PROOF
  <1> DEFINE i == CHOOSE i \in Hits(key) : TRUE
             T == Stored(backend)
  <1>1. results \in Seq(T)
    BY InvariantParts
  <1> HIDE DEF T
  <1>2. CASE Hits(key) = {}
    BY <1>1, <1>2 DEF WithoutHit, T
  <1>3. CASE Hits(key) # {}
    <2>1. i \in Hits(key)
      BY <1>3
    <2>2. i \in 1 .. Len(results) /\ results[i].key = key
      BY <1>1, <2>1 DEF Hits
    <2> HIDE DEF i
    <2>3. RemoveAt(results, i) \in Seq(T) /\ results[i] \in T
      BY <1>1, <2>2, Removed
    <2>4. WithoutHit(key) = RemoveAt(results, i)
      BY <1>3 DEF WithoutHit, i
    <2> QED
      BY <1>3, <2>2, <2>3, <2>4 DEF T, i
  <1> QED
    BY <1>2, <1>3

LEMMA ReadInputsStep ==
  ASSUME ExactInvariant, NEW supplied \in SuppliedFacts, ReadInputs(supplied)
  PROVE  ExactInvariant'
PROOF
  <1> DEFINE e      == evaluation
             inputs == Joined(source.facts, supplied)
             key    == KeyOf(inputs)
             hits   == Hits(key)
             entry  == results[CHOOSE i \in hits : TRUE]
             facts  == IF hits # {} THEN entry.rows ELSE inputs
             full   == NeedsCompaction(PlainValues(inputs))
             kept   == IF full THEN {} ELSE terms
  <1>1. e.phase = "keys" /\ UNCHANGED <<backend, source, outside, changes, last>>
    BY DEF ReadInputs
  <1>2. /\ terms' = kept
        /\ index' = IF full THEN NoIndex ELSE index
        /\ indexed' = IF full THEN {} ELSE indexed
        /\ dirty' = (dirty /\ ~full)
        /\ ownerEpoch' = EpochOf(source.owner)
        /\ results' = IF hits = {} THEN results ELSE Append(WithoutHit(key), entry)
    BY DEF ReadInputs
  <1>3. evaluation' = [phase |-> IF hits # {} THEN "hit" ELSE "pin", sourceKey |-> e.sourceKey,
                       outsideKey |-> e.outsideKey, supplied |-> supplied, inputs |-> inputs,
                       key |-> key, mode |-> Mode(inputs, kept), snapshots |-> Unpinned, level |-> 0,
                       rounds |-> 0, known |-> facts]
    BY DEF ReadInputs
  <1>4. Begun(e, source, outside)
    BY <1>1, InvariantParts DEF EvaluationStands
  <1>5. inputs \in SUBSET Facts
    BY InvariantParts, InputsAssumption, JoinedTyped
  <1>6. key.outside = e.outsideKey /\ key.inputs = inputs /\ EpochOf(source.owner) \in Nat
    BY InvariantParts DEF KeyOf, EpochOf
  <1>7. key \in Keys
    BY <1>4, <1>5, <1>6 DEF KeyOf, Keys, Begun
  <1>8. hits # {} => /\ entry \in Stored(backend) /\ entry.key = key
                     /\ entry.rows \subseteq Facts
    <2> HIDE DEF key
    <2>1. hits # {} => entry \in Stored(backend) /\ entry.key = key
      BY WithoutHitIs
    <2> QED
      BY <2>1 DEF Stored
  <1>9. results' \in Seq(Stored(backend))
    <2>1. WithoutHit(key) \in Seq(Stored(backend)) /\ results \in Seq(Stored(backend))
      BY WithoutHitIs, InvariantParts
    <2> HIDE DEF entry, hits, key
    <2> QED
      BY <1>2, <1>8, <2>1
  <1>10. terms' \subseteq Values /\ index'.rows \subseteq Facts /\ indexed' \subseteq Facts
         /\ (~dirty' => index'.rows = indexed') /\ IndexFields(index')
    <2> HIDE DEF full
    <2> QED
      BY <1>1, <1>2, InvariantParts DEF NoIndex, IndexFields
  <1> HIDE DEF inputs, key, hits, entry, full, kept
  <1>11. EvaluationFields(evaluation')
    BY <1>3 DEF EvaluationFields
  <1>12. HasInputs(evaluation', source)
    <2>1. Mode(inputs, kept) \in {"python", "native"}
      BY DEF Mode
    <2>2. facts \subseteq Facts
      BY <1>5, <1>8
    <2>3. evaluation'.inputs = Joined(source.facts, evaluation'.supplied)
      BY <1>3 DEF inputs
    <2> HIDE DEF facts
    <2> QED
      BY <1>3, <1>5, <1>6, <1>7, <1>11, <2>1, <2>2, <2>3 DEF HasInputs
  <1>13. Begun(evaluation', source, outside)
    BY <1>3, <1>4 DEF Begun
  <1>14. hits # {} => IsHit(evaluation', backend)
    BY <1>3, <1>8 DEF IsHit, Stored
  <1>15. hits = {} => IsNew(evaluation', terms') /\ IsPinned(evaluation', backend, outside)
    <2>1. evaluation'.snapshots = Unpinned
      BY <1>3
    <2>2. Unpinned \in [Adapters -> Int] /\ \A a \in Adapters : Unpinned[a] = -1
      BY DEF Unpinned
    <2>3. IsPinned(evaluation', backend, outside)
      BY <2>1, <2>2 DEF IsPinned
    <2> QED
      BY <1>2, <1>3, <2>3 DEF IsNew, Mode
  <1>16. evaluation'.phase = IF hits # {} THEN "hit" ELSE "pin"
    BY <1>3
  <1>17. EvaluationStands(evaluation', backend, source, outside, terms', index', indexed', dirty')
    BY <1>12, <1>13, <1>14, <1>15, <1>16 DEF EvaluationStands
  <1> QED
    BY <1>1, <1>2, <1>6, <1>9, <1>10, <1>17, Inside

(* What stays when an evaluation moves on from its inputs.                  *)
LEMMA StartStays ==
  ASSUME NEW e, NEW f, SameStart(e, f), EvaluationFields(f), f.known \subseteq Facts, NEW src, NEW out,
         Begun(e, src, out), HasInputs(e, src)
  PROVE  Begun(f, src, out) /\ HasInputs(f, src)
PROOF
  <1>1. Begun(f, src, out)
    BY DEF SameStart, Begun
  <1>2. HasInputs(f, src)
    BY DEF SameStart, HasInputs
  <1> QED
    BY <1>1, <1>2

LEMMA PinStep ==
  ASSUME ExactInvariant, NEW a \in Adapters, Pin(a)
  PROVE  ExactInvariant'
PROOF
  <1> DEFINE e == evaluation
             f == evaluation'
             s == [e.snapshots EXCEPT ![a] = outside.adapters[a]]
  <1>1. /\ e.phase = "pin" /\ f = [e EXCEPT !.snapshots = s] /\ backend # "native"
        /\ UNCHANGED <<backend, source, outside, changes, last, ownerEpoch, terms, index, indexed, dirty, results>>
    BY DEF Pin, runtime
  <1>2. /\ Begun(e, source, outside) /\ HasInputs(e, source) /\ IsNew(e, terms) /\ EvaluationFields(e)
        /\ IsPinned(e, backend, outside)
    BY <1>1, InvariantParts DEF EvaluationStands, HasInputs
  <1>3. \A c \in Adapters : outside.adapters[c] \in Nat /\ e.outsideKey.adapters[c] <= outside.adapters[c]
    BY <1>2, InvariantParts, OutsideParts DEF Begun, NoLater
  <1>4. e.snapshots \in [Adapters -> Int]
        /\ \A c \in Adapters : e.snapshots[c] # -1 =>
             e.outsideKey.adapters[c] <= e.snapshots[c] /\ e.snapshots[c] <= outside.adapters[c]
    BY <1>1, <1>2 DEF IsPinned
  <1>5. s \in [Adapters -> Int] /\ \A c \in Adapters : s[c] = IF c = a THEN outside.adapters[c] ELSE e.snapshots[c]
    BY <1>3, <1>4
  <1> HIDE DEF s
  <1>6. /\ EvaluationFields(f) /\ SameStart(e, f) /\ f.phase = "pin" /\ f.snapshots = s
        /\ f.level = e.level /\ f.rounds = e.rounds /\ f.known = e.known
    BY <1>1, <1>2, SnapshotChanges
  <1>7. Begun(f, source, outside) /\ HasInputs(f, source)
    BY <1>2, <1>6, StartStays DEF HasInputs
  <1>8. IsNew(f, terms')
    BY <1>1, <1>2, <1>6 DEF IsNew, SameStart
  <1>9. IsPinned(f, backend, outside)
    <2>1. f.outsideKey = e.outsideKey
      BY <1>6 DEF SameStart
    <2>2. \A c \in Adapters : s[c] # -1 => e.outsideKey.adapters[c] <= s[c] /\ s[c] <= outside.adapters[c]
      BY <1>3, <1>4, <1>5
    <2> QED
      BY <1>1, <1>5, <1>6, <2>1, <2>2 DEF IsPinned
  <1>10. EvaluationStands(f, backend, source, outside, terms', index', indexed', dirty')
    BY <1>6, <1>7, <1>8, <1>9 DEF EvaluationStands
  <1> QED
    BY <1>1, <1>10, InvariantParts, Inside

(* What differences leave in an index, when no row changed its identity.    *)
LEMMA DifferencesGive ==
  ASSUME NEW noted, NEW wanted, \A f \in wanted, g \in noted : PlainFact(f) = PlainFact(g) => f = g
  PROVE  Joined(Without(noted, Without(noted, wanted)), Without(wanted, noted)) = wanted
PROOF
  <1> DEFINE gone  == Without(noted, wanted)
             kept  == Without(noted, gone)
             added == Without(wanted, noted)
  <1>1. gone = noted \ wanted
    BY DEF Without
  <1>2. kept = noted \cap wanted
    <2>1. kept \subseteq noted /\ \A f \in kept, g \in gone : PlainFact(f) # PlainFact(g)
      <3> HIDE DEF gone
      <3> QED
        BY WithoutIs
    <2>2. \A f \in noted : f \in kept \/ \E g \in gone : PlainFact(f) = PlainFact(g)
      <3> HIDE DEF gone
      <3> QED
        BY WithoutIs
    <2> HIDE DEF kept, gone
    <2>3. \A f \in kept : f \in wanted
      BY <1>1, <2>1
    <2>4. \A f \in noted \cap wanted : f \in kept
      BY <1>1, <2>2
    <2> QED
      BY <2>1, <2>3, <2>4
  <1>3. added = wanted \ noted
    BY DEF Without
  <1>4. \A f \in added, g \in kept : PlainFact(f) # PlainFact(g)
    <2>1. \A f \in added, g \in noted : PlainFact(f) # PlainFact(g)
      BY WithoutIs
    <2> HIDE DEF added, kept
    <2> QED
      BY <1>2, <2>1
  <1> HIDE DEF gone, kept, added
  <1>5. Joined(kept, added) = kept \cup added
    BY <1>4, JoinedIs
  <1> QED
    BY <1>2, <1>3, <1>5 DEF gone, kept, added

LEMMA PrepareIndexStep == ExactInvariant /\ TermsInvariant /\ PrepareIndex => ExactInvariant'
PROOF
  <1> SUFFICES ASSUME ExactInvariant, TermsInvariant, PrepareIndex PROVE ExactInvariant'
    OBVIOUS
  <1> DEFINE e      == evaluation
             f      == evaluation'
             wanted == evaluation.known
             now    == TermsWith(e.mode, wanted)
             anew   == MustRebuild(e.mode)
             added  == IF anew THEN wanted ELSE Without(wanted, indexed)
             kept   == IF anew THEN {} ELSE Without(index.rows, Without(indexed, wanted))
             rows   == Joined(kept, AsIndexed(e.mode, now, added))
  <1>1. /\ e.phase = "pin" /\ f = [e EXCEPT !.phase = "rounds"] /\ dirty' = FALSE
        /\ UNCHANGED <<backend, source, outside, changes, last, ownerEpoch, results>>
        /\ IsPinnedFully(e, backend)
    BY DEF PrepareIndex, Pinned, IsPinnedFully
  <1>2. terms' = now /\ index' = [mode |-> e.mode, rows |-> rows] /\ indexed' = wanted
    BY DEF PrepareIndex
  <1>3. /\ Begun(e, source, outside) /\ HasInputs(e, source) /\ IsNew(e, terms) /\ IsPinned(e, backend, outside)
        /\ EvaluationFields(e) /\ e.mode \in {"python", "native"}
        /\ wanted \in SUBSET Facts /\ wanted = e.inputs /\ e.level = 0 /\ e.rounds = 0
    BY <1>1, InvariantParts DEF EvaluationStands, HasInputs, IsNew
  <1>4. OneOfEach(terms) /\ terms \subseteq Values
    BY InvariantParts DEF TermsInvariant
  <1>5. e.mode # "python" => ~Ambiguous(wanted, terms)
    BY <1>3 DEF IsNew
  <1>6. e.mode # "python" => ValuesOf(wanted) \subseteq now
    BY <1>3, <1>4, <1>5, InputsStay
  <1>7. \A S \in SUBSET wanted : AsIndexed(e.mode, now, S) = S
    <2> HIDE DEF wanted
    <2> QED
      BY <1>3, <1>4, <1>5, InputsStay DEF wanted
  <1>8. now \subseteq Values
    BY <1>3, <1>4, TermsTyped
  <1> HIDE DEF wanted, now
  <1>9. rows = wanted
    <2>1. CASE anew
      <3>1. rows = Joined({}, AsIndexed(e.mode, now, wanted)) /\ AsIndexed(e.mode, now, wanted) = wanted
        BY <1>7, <2>1
      <3>2. Joined({}, wanted) = wanted
        BY JoinedIs
      <3> QED
        BY <3>1, <3>2
    <2>2. CASE ~anew
      <3>1. ~dirty /\ \A a \in wanted, b \in indexed : PlainFact(a) = PlainFact(b) => a = b
        BY <2>2 DEF MustRebuild, wanted
      <3>2. index.rows = indexed
        BY <1>1, <3>1, InvariantParts
      <3>3. Without(wanted, indexed) \subseteq wanted
        BY WithoutIs
      <3>4. AsIndexed(e.mode, now, added) = Without(wanted, indexed)
        BY <1>7, <2>2, <3>3
      <3>5. kept = Without(indexed, Without(indexed, wanted))
        BY <2>2, <3>2
      <3> HIDE DEF kept, added
      <3> QED
        BY <3>1, <3>4, <3>5, DifferencesGive
    <2> QED
      BY <2>1, <2>2
  <1> HIDE DEF rows
  <1>10. /\ EvaluationFields(f) /\ SameStart(e, f) /\ f.phase = "rounds" /\ f.snapshots = e.snapshots
         /\ f.level = 0 /\ f.rounds = 0 /\ f.known = wanted
    BY <1>1, <1>3, PhaseChanges DEF wanted
  <1>11. Begun(f, source, outside) /\ HasInputs(f, source) /\ IsPinned(f, backend, outside)
    BY <1>3, <1>10, StartStays DEF IsPinned, SameStart
  <1>12. OfProgram(f, outside)
    <2>1. f.inputs = wanted /\ f.snapshots \in Snapshots /\ outside.operations \in Operations
      <3>1. f.snapshots \in Snapshots
        BY <1>11, SnapshotsTyped DEF Begun
      <3>2. f.inputs = e.inputs
        BY <1>10 DEF SameStart
      <3> QED
        BY <1>3, <3>1, <3>2, InvariantParts
    <2>2. Rounds(f.inputs, f.snapshots, outside.operations)[0] = [level |-> 0, known |-> wanted]
      BY <1>3, <2>1, RoundsAre
    <2> QED
      BY <1>10, <2>2 DEF OfProgram
  <1>13. IsDerived(f, backend, outside, terms')
    BY <1>1, <1>2, <1>3, <1>6, <1>10, <1>12, LimitsTyped DEF IsDerived, IsPinnedFully, SameStart
  <1>14. IndexHolds(f, index', indexed', dirty')
    BY <1>1, <1>2, <1>9, <1>10 DEF IndexHolds, SameStart
  <1>15. EvaluationStands(f, backend, source, outside, terms', index', indexed', dirty')
    BY <1>10, <1>11, <1>13, <1>14 DEF EvaluationStands
  <1>16. IndexFields(index')
    BY <1>2 DEF IndexFields
  <1> QED
    BY <1>1, <1>2, <1>3, <1>8, <1>9, <1>15, <1>16, InvariantParts, Inside

(* An evaluation that is given up while the index changes.                  *)
LEMMA InterruptIndexStep == ExactInvariant /\ InterruptIndex => ExactInvariant'
PROOF
  <1> SUFFICES ASSUME ExactInvariant, InterruptIndex PROVE ExactInvariant'
    OBVIOUS
  <1> DEFINE e == evaluation
             gone == Without(indexed, e.known)
             Taken(some) == Without(index.rows, some)
             Added(some) == Joined(Without(index.rows, gone), AsIndexed(e.mode, TermsWith(e.mode, some), some))
  <1>1. /\ e.phase = "pin" /\ evaluation' = NoEvaluation /\ dirty' = DirtyWhileSynchronizing
        /\ UNCHANGED <<backend, source, outside, changes, last, ownerEpoch, results>>
        /\ terms' = TermsWith(e.mode, index'.rows)
    BY DEF InterruptIndex, Pinned
  <1>2. e.known \in SUBSET Facts /\ terms \subseteq Values /\ index.rows \in SUBSET Facts /\ indexed \in SUBSET Facts
    BY <1>1, InvariantParts DEF EvaluationStands, HasInputs
  <1>3. index'.rows \subseteq Facts /\ indexed' \subseteq Facts /\ (~dirty' => index'.rows = indexed') /\ IndexFields(index')
    <2>1. CASE index.mode # e.mode
      <3>1. index' = NoIndex /\ indexed' = {}
        BY <2>1 DEF InterruptIndex
      <3> QED
        BY <3>1 DEF NoIndex, IndexFields
    <2>2. CASE index.mode = e.mode
      <3>1. dirty'
        BY <1>1, <2>2 DEF DirtyWhileSynchronizing
      <3>2. indexed' = indexed
        BY <2>2 DEF InterruptIndex
      <3>3. index' \in [mode : {e.mode}, rows : {Taken(some) : some \in SUBSET gone}
                                              \cup {Added(some) : some \in SUBSET Without(e.known, indexed)}]
        BY <2>2 DEF InterruptIndex
      <3>4. \A some : Taken(some) \in SUBSET Facts
        BY <1>2, WithoutIs
      <3>5. \A some \in SUBSET Without(e.known, indexed) : Added(some) \in SUBSET Facts
        <4> SUFFICES ASSUME NEW some \in SUBSET Without(e.known, indexed) PROVE Added(some) \in SUBSET Facts
          OBVIOUS
        <4> DEFINE D == TermsWith(e.mode, some)
                   rest == Without(index.rows, gone)
        <4>1. some \in SUBSET Facts
          BY <1>2, WithoutIs
        <4>2. D \in SUBSET Values
          BY <1>2, <4>1, TermsTyped
        <4>3. AsIndexed(e.mode, D, some) \in SUBSET Facts
          <5> HIDE DEF D
          <5> QED
            BY <4>1, <4>2, InternedTyped
        <4>4. rest \in SUBSET Facts
          BY <1>2, WithoutIs
        <4> HIDE DEF D, rest
        <4> QED
          BY <4>3, <4>4, JoinedTyped DEF D, rest
      <3> HIDE DEF Taken, Added, gone
      <3>6. index'.rows \in SUBSET Facts
        BY <3>3, <3>4, <3>5
      <3>7. IndexFields(index')
        BY <3>3 DEF IndexFields
      <3> QED
        BY <1>2, <3>1, <3>2, <3>6, <3>7
    <2> QED
      BY <2>1, <2>2
  <1>4. terms' \subseteq Values
    BY <1>1, <1>2, <1>3, TermsTyped
  <1>5. EvaluationStands(evaluation', backend, source, outside, terms', index', indexed', dirty')
    <2>1. evaluation'.phase = "idle"
      BY <1>1 DEF NoEvaluation
    <2> QED
      BY <2>1 DEF EvaluationStands
  <1> QED
    BY <1>1, <1>3, <1>4, <1>5, InvariantParts, Inside

(* What holds in an evaluation while it derives.                            *)
Derivation ==
  LET e == evaluation IN
  /\ Begun(e, source, outside) /\ HasInputs(e, source) /\ IsPinned(e, backend, outside)
  /\ EvaluationFields(e) /\ e.known \in SUBSET Facts /\ e.inputs \in SUBSET Facts
  /\ e.snapshots \in Snapshots /\ outside.operations \in Operations
  /\ IsDerived(e, backend, outside, terms)
  /\ IndexFields(index) /\ ~dirty /\ index.rows = e.known /\ indexed = e.known /\ index.mode = e.mode
  /\ OneOfEach(terms) /\ terms \subseteq Values
  /\ e.mode # "python" => ValuesOf(e.known) \subseteq terms
  /\ e.level \in 0 .. Levels /\ e.rounds \in 0 .. MaxRounds

LEMMA DerivationHolds == ExactInvariant /\ TermsInvariant /\ evaluation.phase = "rounds" => Derivation
PROOF
  <1> SUFFICES ASSUME ExactInvariant, TermsInvariant, evaluation.phase = "rounds" PROVE Derivation
    OBVIOUS
  <1> DEFINE e == evaluation
  <1>1. /\ Begun(e, source, outside) /\ HasInputs(e, source) /\ IsPinned(e, backend, outside)
        /\ IsDerived(e, backend, outside, terms) /\ IndexHolds(e, index, indexed, dirty)
    BY InvariantParts DEF EvaluationStands
  <1>2. e.snapshots \in Snapshots /\ outside.operations \in Operations /\ terms \subseteq Values /\ IndexFields(index)
    BY <1>1, SnapshotsTyped, InvariantParts DEF Begun
  <1>3. EvaluationFields(e) /\ e.known \in SUBSET Facts /\ e.inputs \in SUBSET Facts
        /\ e.mode \in {"python", "native"}
    BY <1>1 DEF HasInputs
  <1>4. OneOfEach(terms)
    BY DEF TermsInvariant
  <1>5. /\ e.mode # "python" => ValuesOf(e.known) \subseteq terms
        /\ e.level \in 0 .. Levels /\ e.rounds \in 0 .. MaxRounds
    BY <1>1, <1>3 DEF IsDerived
  <1>6. ~dirty /\ index.rows = e.known /\ indexed = e.known /\ index.mode = e.mode
    BY <1>1 DEF IndexHolds
  <1> QED
    BY <1>1, <1>2, <1>3, <1>4, <1>5, <1>6 DEF Derivation

(* New heads of a round are facts that nothing known is equal to, and the   *)
(* dictionary gives them back as they are.                                  *)
LEMMA PendingIs ==
  ASSUME Derivation, evaluation.level < Levels, NEW some \in SUBSET Pending, NEW D, D = TermsWith(evaluation.mode, some)
  PROVE  /\ Pending = Without(Derive(evaluation.level, evaluation.known, evaluation.snapshots, outside.operations), evaluation.known)
         /\ some \in SUBSET Facts /\ D \subseteq Values
         /\ AsIndexed(evaluation.mode, D, some) = some
         /\ Joined(evaluation.known, some) = evaluation.known \cup some
         /\ evaluation.mode # "python" => ValuesOf(evaluation.known \cup some) \subseteq D
PROOF
  <1> DEFINE e == evaluation
             heads == Derive(e.level, e.known, e.snapshots, outside.operations)
  <1>1. Pending = Without(heads, e.known)
    BY DEF Pending, Derivation
  <1>2. e.level \in 0 .. Levels - 1
    BY LimitsTyped DEF Derivation
  <1>3. heads \subseteq Facts /\ \A f \in heads : Identified(f[2], e.known)
    BY <1>2, HeadsTyped DEF Derivation
  <1> HIDE DEF heads
  <1>4. Pending \subseteq heads /\ \A f \in Pending, g \in e.known : PlainFact(f) # PlainFact(g)
    BY <1>1, WithoutIs
  <1>5. some \in SUBSET Facts /\ \A f \in some : Identified(f[2], e.known)
    BY <1>3, <1>4
  <1>6. D \subseteq Values
    BY <1>5, TermsTyped DEF Derivation
  <1>7. /\ AsIndexed(e.mode, D, some) = some
        /\ e.mode # "python" => ValuesOf(e.known \cup some) \subseteq D
    BY <1>5, NewFactsStay DEF Derivation
  <1>8. Joined(e.known, some) = e.known \cup some
    BY <1>4, JoinedIs
  <1> QED
    BY <1>1, <1>5, <1>6, <1>7, <1>8 DEF heads

LEMMA RowsChange ==
  ASSUME NEW ix, IndexFields(ix), NEW rows, NEW next, next = [ix EXCEPT !.rows = rows]
  PROVE  next.rows = rows /\ next.mode = ix.mode /\ IndexFields(next)
  BY DEF IndexFields

LEMMA RoundStep == ExactInvariant /\ TermsInvariant /\ Round => ExactInvariant'
PROOF
  <1> SUFFICES ASSUME ExactInvariant, TermsInvariant, Round PROVE ExactInvariant'
    OBVIOUS
  <1> DEFINE e   == evaluation
             f   == evaluation'
             new == Pending
             n   == IF Pending = {} THEN e.level + 1 ELSE e.level
  <1>1. /\ e.phase = "rounds" /\ ~(backend = "native" /\ e.mode = "native") /\ e.level < Levels
        /\ e.rounds < MaxRounds
        /\ UNCHANGED <<backend, source, outside, changes, last, dirty, ownerEpoch, results>>
    BY DEF Round, InRounds, Deriving, Natively
  <1>2. Derivation
    BY <1>1, DerivationHolds
  <1>3. f = WithRound(e, e.known \cup new, n, e.rounds + 1)
    BY DEF Round, WithRound
  <1>4. terms' = TermsWith(e.mode, new) /\ indexed' = Joined(indexed, new)
        /\ index' = [index EXCEPT !.rows = Joined(@, AsIndexed(e.mode, terms', new))]
    BY DEF Round
  <1>5. /\ new = Without(Derive(e.level, e.known, e.snapshots, outside.operations), e.known)
        /\ new \in SUBSET Facts /\ terms' \subseteq Values
        /\ AsIndexed(e.mode, terms', new) = new
        /\ Joined(e.known, new) = e.known \cup new
        /\ e.mode # "python" => ValuesOf(e.known \cup new) \subseteq terms'
    <2>1. new \in SUBSET Pending /\ e.level < Levels
      BY <1>1
    <2> HIDE DEF new, n
    <2>2. \A S \in SUBSET Pending : \A D : D = TermsWith(e.mode, S) =>
            /\ Pending = Without(Derive(e.level, e.known, e.snapshots, outside.operations), e.known)
            /\ S \in SUBSET Facts /\ D \subseteq Values
            /\ AsIndexed(e.mode, D, S) = S
            /\ Joined(e.known, S) = e.known \cup S
            /\ e.mode # "python" => ValuesOf(e.known \cup S) \subseteq D
      BY <1>2, <2>1, PendingIs
    <2>3. new = Pending
      BY DEF new
    <2> QED
      BY <1>4, <2>1, <2>2, <2>3
  <1>6. n \in 0 .. Levels /\ e.rounds + 1 \in 0 .. MaxRounds /\ (e.rounds + 1) - 1 = e.rounds /\ e.rounds + 1 \in 1 .. MaxRounds
    BY <1>1, <1>2, LimitsTyped DEF Derivation
  <1>7. n = IF new = {} THEN e.level + 1 ELSE e.level
    OBVIOUS
  <1> HIDE DEF new, n
  <1>8. /\ EvaluationFields(f) /\ SameStart(e, f) /\ f.level = n /\ f.known = e.known \cup new /\ f.rounds = e.rounds + 1
        /\ f.phase = e.phase /\ f.snapshots = e.snapshots
    BY <1>2, <1>3, RoundChanges DEF Derivation
  <1>9. f.known \subseteq Facts
    BY <1>2, <1>5, <1>8 DEF Derivation
  <1>10. Begun(f, source, outside) /\ HasInputs(f, source) /\ IsPinned(f, backend, outside)
    BY <1>2, <1>8, <1>9, StartStays DEF Derivation, IsPinned, SameStart
  <1>11. index'.rows = f.known /\ index'.mode = f.mode /\ indexed' = f.known /\ IndexFields(index')
    <2> DEFINE rows == Joined(index.rows, AsIndexed(e.mode, terms', new))
    <2>1. index' = [index EXCEPT !.rows = rows]
      BY <1>4
    <2>2. rows = e.known \cup new
      BY <1>2, <1>5 DEF Derivation
    <2> HIDE DEF rows
    <2>3. index'.rows = rows /\ index'.mode = index.mode /\ IndexFields(index')
      BY <1>2, <2>1, RowsChange DEF Derivation
    <2> QED
      BY <1>2, <1>4, <1>5, <1>8, <2>2, <2>3 DEF Derivation, SameStart
  <1>12. f.outsideKey.operations = outside.operations => OfProgram(f, outside)
    <2> SUFFICES ASSUME f.outsideKey.operations = outside.operations PROVE OfProgram(f, outside)
      OBVIOUS
    <2> DEFINE r   == Rounds(e.inputs, e.snapshots, outside.operations)
               now == [level |-> e.level, known |-> e.known]
    <2>1. r[e.rounds] = now
      BY <1>1, <1>2, <1>8 DEF Derivation, IsDerived, OfProgram, SameStart
    <2>2. \A k \in 1 .. MaxRounds : r[k] = Advance(r[k - 1], e.snapshots, outside.operations)
      BY <1>2, RoundsAre DEF Derivation
    <2> HIDE DEF r
    <2>3. r[e.rounds + 1] = Advance(now, e.snapshots, outside.operations)
      BY <1>6, <2>1, <2>2
    <2>4. now.level = e.level /\ now.known = e.known /\ e.level # Levels
      BY <1>1, LimitsTyped
    <2>5. Advance(now, e.snapshots, outside.operations) = [level |-> n, known |-> e.known \cup new]
      BY <1>5, <1>7, <2>4 DEF Advance
    <2> QED
      BY <1>8, <2>3, <2>5 DEF OfProgram, SameStart, r
  <1>13. IsDerived(f, backend, outside, terms')
    <2>1. f.mode = e.mode /\ (f.mode = "native" => f.mode # "python")
      BY <1>8 DEF SameStart
    <2> QED
      BY <1>1, <1>2, <1>5, <1>6, <1>8, <1>12, <2>1 DEF Derivation, IsDerived, IsPinnedFully
  <1>14. IndexHolds(f, index', indexed', dirty')
    BY <1>1, <1>2, <1>11 DEF IndexHolds, Derivation
  <1>15. EvaluationStands(f, backend, source, outside, terms', index', indexed', dirty')
    BY <1>1, <1>8, <1>10, <1>13, <1>14 DEF EvaluationStands
  <1> QED
    BY <1>1, <1>5, <1>9, <1>11, <1>15, InvariantParts, Inside

(* An evaluation that is given up while facts are added that nothing known  *)
(* is equal to: the index holds what was noted, or is marked.               *)
LEMMA InterruptAddingStep ==
  ASSUME ExactInvariant, TermsInvariant, evaluation.phase = "rounds", NEW new, InterruptAdding(new),
         \A S \in SUBSET new : \A D : D = TermsWith(evaluation.mode, S) =>
           /\ S \in SUBSET Facts /\ D \subseteq Values
           /\ AsIndexed(evaluation.mode, D, S) = S
           /\ Joined(evaluation.known, S) = evaluation.known \cup S
  PROVE  ExactInvariant'
PROOF
  <1> DEFINE e == evaluation
  <1>1. /\ evaluation' = NoEvaluation
        /\ UNCHANGED <<backend, source, outside, changes, last, ownerEpoch, results>>
    BY DEF InterruptAdding
  <1>2. PICK some \in SUBSET new, unnoted \in BOOLEAN :
          /\ terms' = TermsWith(e.mode, some)
          /\ index' = [index EXCEPT !.rows = Joined(@, AsIndexed(e.mode, terms', some))]
          /\ \E f \in some : indexed' = Joined(indexed, IF unnoted THEN some \ {f} ELSE some)
          /\ dirty' = unnoted
    BY DEF InterruptAdding
  <1>3. Derivation
    BY DerivationHolds
  <1>4. /\ some \in SUBSET Facts /\ terms' \subseteq Values
        /\ AsIndexed(e.mode, terms', some) = some
        /\ Joined(e.known, some) = e.known \cup some
    BY <1>2
  <1>5. index'.rows = e.known \cup some /\ IndexFields(index')
    <2> DEFINE rows == Joined(index.rows, AsIndexed(e.mode, terms', some))
    <2>1. index' = [index EXCEPT !.rows = rows]
      BY <1>2
    <2>2. rows = e.known \cup some
      BY <1>3, <1>4 DEF Derivation
    <2> HIDE DEF rows
    <2> QED
      BY <1>3, <2>1, <2>2, RowsChange DEF Derivation
  <1>6. indexed' \in SUBSET Facts /\ (~dirty' => indexed' = e.known \cup some)
    <2>1. PICK f \in some : indexed' = Joined(indexed, IF unnoted THEN some \ {f} ELSE some)
      BY <1>2
    <2>2. indexed = e.known /\ e.known \in SUBSET Facts
      BY <1>3 DEF Derivation
    <2>3. some \ {f} \in SUBSET Facts
      BY <1>4
    <2>4. Joined(indexed, some \ {f}) \in SUBSET Facts /\ Joined(indexed, some) \in SUBSET Facts
      BY <1>4, <2>2, <2>3, JoinedTyped
    <2>5. CASE unnoted
      BY <1>2, <2>1, <2>4, <2>5
    <2>6. CASE ~unnoted
      BY <1>4, <2>1, <2>2, <2>4, <2>6
    <2> QED
      BY <2>5, <2>6
  <1>7. EvaluationStands(evaluation', backend, source, outside, terms', index', indexed', dirty')
    <2>1. evaluation'.phase = "idle"
      BY <1>1 DEF NoEvaluation
    <2> QED
      BY <2>1 DEF EvaluationStands
  <1> QED
    BY <1>1, <1>3, <1>4, <1>5, <1>6, <1>7, InvariantParts, Inside DEF Derivation

LEMMA InterruptRoundStep == ExactInvariant /\ TermsInvariant /\ InterruptRound => ExactInvariant'
PROOF
  <1> SUFFICES ASSUME ExactInvariant, TermsInvariant, InterruptRound PROVE ExactInvariant'
    OBVIOUS
  <1>1. evaluation.phase = "rounds" /\ evaluation.level < Levels /\ InterruptAdding(Pending)
    BY DEF InterruptRound, InRounds, Deriving
  <1>2. Derivation
    BY <1>1, DerivationHolds
  <1>3. \A S \in SUBSET Pending : \A D : D = TermsWith(evaluation.mode, S) =>
          /\ S \in SUBSET Facts /\ D \subseteq Values
          /\ AsIndexed(evaluation.mode, D, S) = S
          /\ Joined(evaluation.known, S) = evaluation.known \cup S
    BY <1>1, <1>2, PendingIs
  <1> QED
    BY <1>1, <1>3, InterruptAddingStep

(* What the native context derives: the closure of what is known.           *)
LEMMA DerivableIs ==
  ASSUME Derivation
  PROVE  /\ evaluation.known \subseteq Derivable /\ Derivable \in SUBSET Facts
         /\ \A a \in Derivable \ evaluation.known, b \in evaluation.known : PlainFact(a) # PlainFact(b)
         /\ \A a \in Derivable : Identified(a[2], evaluation.known)
  BY RoundsGrow DEF Derivation, Derivable

LEMMA InterruptNativeStep == ExactInvariant /\ TermsInvariant /\ InterruptNative => ExactInvariant'
PROOF
  <1> SUFFICES ASSUME ExactInvariant, TermsInvariant, InterruptNative PROVE ExactInvariant'
    OBVIOUS
  <1> DEFINE e   == evaluation
             new == Derivable \ e.known
  <1>1. e.phase = "rounds" /\ InterruptAdding(new)
    BY DEF InterruptNative, EndsNatively, Deriving
  <1>2. Derivation
    BY <1>1, DerivationHolds
  <1>3. new \in SUBSET Facts /\ (\A a \in new : Identified(a[2], e.known))
        /\ \A a \in new, b \in e.known : PlainFact(a) # PlainFact(b)
    BY <1>2, DerivableIs
  <1> HIDE DEF new
  <1>4. ASSUME NEW S \in SUBSET new, NEW D, D = TermsWith(e.mode, S)
        PROVE  /\ S \in SUBSET Facts /\ D \subseteq Values
               /\ AsIndexed(e.mode, D, S) = S
               /\ Joined(e.known, S) = e.known \cup S
    <2>1. S \in SUBSET Facts /\ \A f \in S : Identified(f[2], e.known)
      BY <1>3
    <2>2. D \subseteq Values
      BY <1>2, <1>4, <2>1, TermsTyped DEF Derivation
    <2>3. AsIndexed(e.mode, D, S) = S
      BY <1>2, <1>4, <2>1, NewFactsStay DEF Derivation
    <2>4. Joined(e.known, S) = e.known \cup S
      BY <1>3, JoinedIs
    <2> QED
      BY <2>1, <2>2, <2>3, <2>4
  <1> QED
    BY <1>1, <1>4, InterruptAddingStep

LEMMA NativeEvaluateStep == ExactInvariant /\ TermsInvariant /\ NativeEvaluate => ExactInvariant'
PROOF
  <1> SUFFICES ASSUME ExactInvariant, TermsInvariant, NativeEvaluate PROVE ExactInvariant'
    OBVIOUS
  <1> DEFINE e   == evaluation
             f   == evaluation'
             all == Derivable
             r   == Rounds(e.known, e.snapshots, outside.operations)
  <1>1. /\ e.phase = "rounds" /\ backend = "native" /\ e.mode = "native" /\ e.level < Levels
        /\ UNCHANGED <<backend, source, outside, changes, last, dirty, ownerEpoch, results>>
        /\ r[MaxRounds].level = Levels
    BY DEF NativeEvaluate, EndsNatively, Deriving, Natively
  <1>2. Derivation
    BY <1>1, DerivationHolds
  <1>3. /\ f = WithFacts(e, all, Levels) /\ terms' = TermsWith(e.mode, all) /\ indexed' = Joined(indexed, all)
        /\ index' = [index EXCEPT !.rows = Joined(@, AsIndexed(e.mode, terms', all))]
    BY <1>1 DEF NativeEvaluate, WithFacts
  <1>4. /\ e.known \subseteq all /\ all \in SUBSET Facts
        /\ \A a \in all \ e.known, b \in e.known : PlainFact(a) # PlainFact(b)
        /\ \A a \in all : Identified(a[2], e.known)
    BY <1>2, DerivableIs
  <1>5. r[MaxRounds] \in RoundStates /\ all = r[MaxRounds].known
    <2>1. \A n \in 0 .. MaxRounds : r[n] \in RoundStates
      BY <1>2, RoundsAre DEF Derivation
    <2>2. MaxRounds \in 0 .. MaxRounds
      BY LimitsTyped
    <2>3. all = r[MaxRounds].known
      BY DEF Derivable, Closure
    <2> HIDE DEF r
    <2> QED
      BY <2>1, <2>2, <2>3
  <1>6. r[MaxRounds] = [level |-> Levels, known |-> all]
    BY <1>1, <1>5 DEF RoundStates
  <1> HIDE DEF all, r
  <1>7. terms' \subseteq Values
    BY <1>2, <1>3, <1>4, TermsTyped DEF Derivation
  <1>8. /\ AsIndexed(e.mode, terms', all) = all
        /\ e.mode # "python" => ValuesOf(e.known \cup all) \subseteq terms'
    BY <1>2, <1>3, <1>4, NewFactsStay DEF Derivation
  <1>9. e.known \cup all = all /\ Joined(e.known, all) = all
    <2>1. Joined(e.known, all) = e.known \cup Without(all, e.known)
      BY JoinedIs
    <2>2. Without(all, e.known) \subseteq all
      BY WithoutIs
    <2>3. \A a \in all : a \in Without(all, e.known) \/ \E b \in e.known : PlainFact(a) = PlainFact(b)
      BY WithoutIs
    <2>4. \A a \in all \ e.known : a \in Without(all, e.known)
      BY <1>4, <2>3
    <2> QED
      BY <1>4, <2>1, <2>2, <2>4
  <1>10. /\ EvaluationFields(f) /\ SameStart(e, f) /\ f.level = Levels /\ f.known = all /\ f.rounds = e.rounds
         /\ f.phase = e.phase /\ f.snapshots = e.snapshots
    BY <1>2, <1>3, FactsChange DEF Derivation
  <1>11. Begun(f, source, outside) /\ HasInputs(f, source) /\ IsPinned(f, backend, outside)
    BY <1>2, <1>4, <1>10, StartStays DEF Derivation, IsPinned, SameStart
  <1>12. index'.rows = f.known /\ index'.mode = f.mode /\ indexed' = f.known /\ IndexFields(index')
    <2> DEFINE rows == Joined(index.rows, AsIndexed(e.mode, terms', all))
    <2>1. index' = [index EXCEPT !.rows = rows]
      BY <1>3
    <2>2. rows = all
      BY <1>2, <1>8, <1>9 DEF Derivation
    <2> HIDE DEF rows
    <2>3. index'.rows = rows /\ index'.mode = index.mode /\ IndexFields(index')
      BY <1>2, <2>1, RowsChange DEF Derivation
    <2> QED
      BY <1>2, <1>3, <1>9, <1>10, <2>2, <2>3 DEF Derivation, SameStart
  <1>13. OfProgram(f, outside)
    <2>1. e.known = e.inputs
      BY <1>1, <1>2 DEF Derivation, IsDerived
    <2> QED
      BY <1>6, <1>10, <2>1 DEF OfProgram, SameStart, r
  <1>14. IsDerived(f, backend, outside, terms')
    <2>1. f.level \in 0 .. Levels /\ ~(f.level < Levels) /\ f.rounds \in 0 .. MaxRounds
      BY <1>2, <1>10, LimitsTyped DEF Derivation
    <2> QED
      BY <1>1, <1>8, <1>9, <1>10, <1>13, <2>1 DEF IsDerived, IsPinnedFully
  <1>15. IndexHolds(f, index', indexed', dirty')
    BY <1>1, <1>2, <1>12 DEF IndexHolds, Derivation
  <1>16. EvaluationStands(f, backend, source, outside, terms', index', indexed', dirty')
    BY <1>1, <1>10, <1>11, <1>14, <1>15 DEF EvaluationStands
  <1> QED
    BY <1>1, <1>4, <1>7, <1>10, <1>12, <1>16, InvariantParts, Inside

(* What an evaluation has at its end is the answer for its key, when        *)
(* nothing moved.                                                           *)
LEMMA DerivedIsAnswer ==
  ASSUME ExactInvariant, TermsInvariant, evaluation.phase = "rounds", evaluation.level = Levels,
         evaluation.outsideKey = outside
  PROVE  {f \in evaluation.known : f[1] \in Heads} = AnswerAt(backend, evaluation.key)
PROOF
  <1> DEFINE e == evaluation
             r == Rounds(e.inputs, e.snapshots, outside.operations)
             now == [level |-> e.level, known |-> e.known]
  <1>1. Derivation
    BY DerivationHolds
  <1>2. e.snapshots = PinnedAt(backend, outside)
    <2>1. CASE backend = "native"
      BY <1>1, <2>1 DEF Derivation, IsPinned, PinnedAt
    <2>2. CASE backend # "native"
      <3>1. e.snapshots \in [Adapters -> Int] /\ outside.adapters \in [Adapters -> Nat]
        BY <1>1, <2>2, InvariantParts, OutsideParts DEF Derivation, IsPinned
      <3>2. \A a \in Adapters : outside.adapters[a] <= e.snapshots[a] /\ e.snapshots[a] <= outside.adapters[a]
        BY <1>1, <2>2 DEF Derivation, IsPinned, IsDerived, IsPinnedFully
      <3>3. \A a \in Adapters : e.snapshots[a] = outside.adapters[a]
        BY <3>1, <3>2
      <3>4. e.snapshots = outside.adapters
        BY <3>1, <3>3
      <3> QED
        BY <2>2, <3>4 DEF PinnedAt
    <2> QED
      BY <2>1, <2>2
  <1>3. r[e.rounds] = now \/ r[MaxRounds] = now
    BY <1>1 DEF Derivation, IsDerived, OfProgram
  <1>4. r[MaxRounds] = now
    <2>1. CASE r[e.rounds] = now
      <3>1. e.inputs \in SUBSET Facts /\ e.snapshots \in Snapshots /\ outside.operations \in Operations
            /\ e.rounds \in 0 .. MaxRounds
        BY <1>1 DEF Derivation
      <3>2. Rounds(e.inputs, e.snapshots, outside.operations)[e.rounds].level = Levels
        BY <2>1
      <3>3. Rounds(e.inputs, e.snapshots, outside.operations)[MaxRounds]
              = Rounds(e.inputs, e.snapshots, outside.operations)[e.rounds]
        BY <3>1, <3>2, RoundsEnd
      <3> QED
        BY <2>1, <3>3
    <2> QED
      BY <1>3, <2>1
  <1>5. Closure(e.inputs, e.snapshots, outside.operations) = e.known
    <2>1. Closure(e.inputs, e.snapshots, outside.operations) = r[MaxRounds].known
      BY DEF Closure
    <2> HIDE DEF r
    <2> QED
      BY <1>4, <2>1
  <1>6. e.key.inputs = e.inputs /\ e.key.outside = outside
    BY <1>1 DEF Derivation, HasInputs
  <1> QED
    BY <1>2, <1>5, <1>6 DEF Answer, AnswerAt

(* The closing check begins.                                                *)
LEMMA ConfirmStep == ExactInvariant /\ TermsInvariant /\ Confirm => ExactInvariant'
PROOF
  <1> SUFFICES ASSUME ExactInvariant, TermsInvariant, Confirm PROVE ExactInvariant'
    OBVIOUS
  <1> DEFINE e == evaluation
             f == evaluation'
             heads == {g \in e.known : g[1] \in Heads}
             relations == IF e.phase = "hit" THEN e.known ELSE heads
             moment == [inputs |-> Joined(source.facts, e.supplied), outside |-> outside]
  <1>1. /\ e.phase = "hit" \/ (e.phase = "rounds" /\ e.level = Levels)
        /\ e.sourceKey = <<source.owner, source.revision>>
        /\ e.outsideKey.operations.providers = outside.operations.providers
        /\ f = [phase |-> "confirm", key |-> e.key, cached |-> e.phase = "hit", relations |-> relations,
                moment |-> moment, asked |-> 0]
        /\ UNCHANGED <<backend, source, outside, changes, last, ownerEpoch, terms, index, indexed, dirty, results>>
    BY DEF Confirm, SourceKey, runtime
  <1>2. Begun(e, source, outside) /\ HasInputs(e, source) /\ (e.phase = "hit" => IsHit(e, backend))
    BY <1>1, InvariantParts DEF EvaluationStands
  <1>3. e.key \in Keys /\ e.key.outside = e.outsideKey /\ e.key.inputs = moment.inputs
    BY <1>1, <1>2 DEF HasInputs
  <1>4. relations \subseteq Facts
    BY <1>2 DEF HasInputs
  <1>5. e.key.outside = outside => relations = AnswerAt(backend, e.key)
    <2>1. CASE e.phase = "hit"
      BY <1>2, <2>1 DEF IsHit
    <2>2. CASE e.phase = "rounds" /\ e.level = Levels
      BY <1>3, <2>2, DerivedIsAnswer
    <2> QED
      BY <1>1, <2>1, <2>2
  <1>6. outside \in Outsides /\ NoLater(outside, outside) /\ NoLater(e.key.outside, outside)
    BY <1>2, <1>3, InvariantParts, NoLaterItself DEF Begun
  <1> HIDE DEF relations
  <1>7. /\ f.phase = "confirm" /\ f.key = e.key /\ f.relations = relations /\ f.asked = 0
        /\ f.moment.inputs = moment.inputs /\ f.moment.outside = outside /\ ConfirmFields(f)
    BY <1>1 DEF ConfirmFields
  <1> HIDE DEF moment
  <1>8. 0 \in 0 .. NumAdapters /\ \A a \in 1 .. 0 : FALSE
    BY BudgetsAssumption
  <1>9. IsConfirming(f, backend, outside)
    BY <1>1, <1>3, <1>4, <1>5, <1>6, <1>7, <1>8 DEF IsConfirming
  <1>10. EvaluationStands(f, backend, source, outside, terms', index', indexed', dirty')
    BY <1>7, <1>9 DEF EvaluationStands
  <1> QED
    BY <1>1, <1>10, InvariantParts, Inside

(* An adapter that reports the snapshot of the key had not moved when the   *)
(* closing check began, which was in between.                               *)
LEMMA ConfirmAdapterStep == ExactInvariant /\ ConfirmAdapter => ExactInvariant'
PROOF
  <1> SUFFICES ASSUME ExactInvariant, ConfirmAdapter PROVE ExactInvariant'
    OBVIOUS
  <1> DEFINE e == evaluation
             f == evaluation'
             a == e.asked + 1
  <1>1. /\ e.phase = "confirm" /\ e.asked < NumAdapters /\ e.key.outside.adapters[a] = outside.adapters[a]
        /\ f = [e EXCEPT !.asked = a]
        /\ UNCHANGED <<backend, source, outside, changes, last, ownerEpoch, terms, index, indexed, dirty, results>>
    BY DEF ConfirmAdapter, runtime
  <1>2. IsConfirming(e, backend, outside)
    BY <1>1, InvariantParts DEF EvaluationStands
  <1>3. e.asked \in Nat /\ a \in Adapters /\ a \in 0 .. NumAdapters /\ 1 .. a = (1 .. e.asked) \cup {a}
    BY <1>1, <1>2, BudgetsAssumption DEF IsConfirming, Adapters
  <1>4. e.key.outside.adapters[a] = e.moment.outside.adapters[a]
    <2>1. e.key.outside \in Outsides /\ e.moment.outside \in Outsides /\ outside \in Outsides
      BY <1>2, InvariantParts DEF IsConfirming, Keys
    <2> QED
      BY <1>1, <1>2, <1>3, <2>1, Between DEF IsConfirming
  <1> HIDE DEF a
  <1>5. /\ f.phase = "confirm" /\ f.key = e.key /\ f.relations = e.relations /\ f.asked = a
        /\ f.moment = e.moment /\ ConfirmFields(f)
    BY <1>1, <1>2 DEF IsConfirming, ConfirmFields
  <1>6. IsConfirming(f, backend, outside)
    BY <1>2, <1>3, <1>4, <1>5 DEF IsConfirming
  <1>7. EvaluationStands(f, backend, source, outside, terms', index', indexed', dirty')
    BY <1>5, <1>6 DEF EvaluationStands
  <1> QED
    BY <1>1, <1>7, InvariantParts, Inside

(* With the domain table everything was compared, and what is published is  *)
(* the answer of the moment at which the closing check began.               *)
LEMMA ReturnStep == ExactInvariant /\ Return => ExactInvariant'
PROOF
  <1> SUFFICES ASSUME ExactInvariant, Return PROVE ExactInvariant'
    OBVIOUS
  <1> DEFINE e == evaluation
             entry == [key |-> e.key, rows |-> e.relations]
             store == Append(WithoutHit(e.key), entry)
             T     == Stored(backend)
  <1>1. /\ e.phase = "confirm" /\ e.asked = NumAdapters /\ evaluation' = NoEvaluation
        /\ e.key.outside.operations.domain = outside.operations.domain
        /\ UNCHANGED <<backend, source, outside, changes, index, indexed, dirty, terms, ownerEpoch, seen>>
        /\ results' = IF e.cached THEN results ELSE IF Len(store) > MaxResults THEN Tail(store) ELSE store
        /\ last' = [relations |-> e.relations,
                    expected  |-> Answer(e.moment.inputs, PinnedIn(e.moment.outside), e.moment.outside.operations)]
    BY DEF Return, PublishAnswer
  <1>2. IsConfirming(e, backend, outside)
    BY <1>1, InvariantParts DEF EvaluationStands
  <1>3. e.key.outside = e.moment.outside
    <2>1. e.key.outside \in Outsides /\ e.moment.outside \in Outsides /\ outside \in Outsides
      BY <1>2, InvariantParts DEF IsConfirming, Keys
    <2>2. e.key.outside.operations.domain = e.moment.outside.operations.domain
      BY <1>1, <1>2, <2>1, Between DEF IsConfirming
    <2>3. \A a \in Adapters : e.key.outside.adapters[a] = e.moment.outside.adapters[a]
      BY <1>1, <1>2 DEF IsConfirming, Adapters
    <2> QED
      BY <1>2, <2>1, <2>2, <2>3, SameParts DEF IsConfirming
  <1>4. e.relations = AnswerAt(backend, e.key) /\ e.relations \subseteq Facts /\ e.key \in Keys
    BY <1>2, <1>3 DEF IsConfirming
  <1>5. last'.relations = last'.expected
    <2>1. e.moment.inputs = e.key.inputs
      BY <1>2 DEF IsConfirming
    <2> QED
      BY <1>1, <1>3, <1>4, <2>1 DEF AnswerAt, PinnedAt, PinnedIn
  <1>6. entry \in T
    BY <1>4 DEF Stored
  <1>7. results' \in Seq(T)
    <2> DEFINE rest == WithoutHit(e.key)
    <2>1. rest \in Seq(T) /\ results \in Seq(T)
      BY WithoutHitIs, InvariantParts
    <2> HIDE DEF T, entry, rest
    <2>2. Len(rest) \in Nat /\ Append(rest, entry) \in Seq(T) /\ Len(Append(rest, entry)) = Len(rest) + 1
      BY <1>6, <2>1
    <2>3. Append(rest, entry) # <<>>
      BY <2>2
    <2>4. store \in Seq(T) /\ store # <<>>
      BY <2>2, <2>3 DEF rest
    <2> HIDE DEF store
    <2>5. Tail(store) \in Seq(T)
      BY <2>4
    <2> QED
      BY <1>1, <2>1, <2>4, <2>5
  <1>8. EvaluationStands(evaluation', backend', source', outside', terms', index', indexed', dirty')
    <2>1. evaluation'.phase = "idle"
      BY <1>1 DEF NoEvaluation
    <2> QED
      BY <2>1 DEF EvaluationStands
  <1>9. IndexStands(evaluation', terms', index', indexed', dirty')
    BY <1>1 DEF ExactInvariant, IndexStands
  <1>10. WorldTyped'
    BY <1>1 DEF ExactInvariant, WorldTyped, AtMost
  <1>11. results' \in Seq(Stored(backend'))
    BY <1>1, <1>7
  <1> QED
    BY <1>5, <1>8, <1>9, <1>10, <1>11 DEF ExactInvariant, PublishedIsExact

(* A failure, a cache that is cleared, and the end.                         *)
LEMMA EndStep == ExactInvariant /\ (Fail \/ ClearCache \/ Close) => ExactInvariant'
PROOF
  <1> SUFFICES ASSUME ExactInvariant, Fail \/ ClearCache \/ Close PROVE ExactInvariant'
    OBVIOUS
  <1>1. UNCHANGED <<backend, source, outside, changes, last, ownerEpoch, terms, indexed, dirty>>
    BY DEF Fail, ClearCache, Close, runtime
  <1>2. results' = results \/ results' = <<>>
    <2>1. CASE Fail
      BY <2>1 DEF Fail, runtime
    <2>2. CASE ClearCache \/ Close
      BY <2>2 DEF ClearCache, Close
    <2> QED
      BY <2>1, <2>2
  <1>3. results' \in Seq(Stored(backend))
    <2> DEFINE T == Stored(backend)
    <2>1. results \in Seq(T)
      BY InvariantParts
    <2> HIDE DEF T
    <2>2. results' \in Seq(T)
      <3>1. CASE results' = results
        BY <2>1, <3>1
      <3>2. CASE results' = <<>>
        BY <3>2
      <3> QED
        BY <1>2, <3>1, <3>2
    <2> QED
      BY <2>2 DEF T
  <1>4. evaluation' \in {NoEvaluation, Closed}
    BY DEF Fail, ClearCache, Close
  <1>5. EvaluationStands(evaluation', backend, source, outside, terms', index', indexed', dirty')
    BY <1>4, GivenUp
  <1>6. IndexFields(index') /\ (evaluation'.phase # "closed" => index' = index)
    <2>1. CASE Close
      BY <2>1 DEF Close, NoIndex, Closed, IndexFields
    <2>2. CASE Fail \/ ClearCache
      BY <2>2, InvariantParts DEF Fail, ClearCache, runtime
    <2> QED
      BY <2>1, <2>2
  <1>7. evaluation'.phase # "closed" => evaluation.phase # "closed"
    <2>1. CASE Close
      BY <2>1 DEF Close, Closed
    <2>2. CASE ClearCache
      BY <2>2 DEF ClearCache, NoEvaluation
    <2>3. CASE Fail
      <3>1. evaluation # Closed
        BY <2>3 DEF Fail
      <3> QED
        BY <3>1, InvariantParts DEF EvaluationStands
    <2> QED
      BY <2>1, <2>2, <2>3
  <1> QED
    BY <1>1, <1>3, <1>5, <1>6, <1>7, InvariantParts, Inside

LEMMA ExactStep == ExactInvariant /\ TermsInvariant /\ [RuntimeNext]_runtimeVars => ExactInvariant'
PROOF
  <1> SUFFICES ASSUME ExactInvariant, TermsInvariant, [RuntimeNext]_runtimeVars PROVE ExactInvariant'
    OBVIOUS
  <1>1. CASE UNCHANGED runtimeVars
    <2>1. /\ UNCHANGED <<backend, source, outside, changes, evaluation, index, indexed, dirty, terms, ownerEpoch>>
          /\ UNCHANGED <<results, last>>
      BY <1>1 DEF runtimeVars, runtime
    <2> QED
      BY <2>1, InvariantParts, Inside
  <1>2. CASE \/ ChangeSource
             \/ \E registry \in {"providers", "domain"} : ChangeOperations(registry)
             \/ \E a \in Adapters : ChangeAdapter(a)
    BY <1>2, WorldStep
  <1>3. CASE RuntimeStep
    BY <1>3, EvaluateStep, ReadAdapterKeyStep, ReadInputsStep, PinStep, PrepareIndexStep, InterruptIndexStep, RoundStep,
       InterruptRoundStep, NativeEvaluateStep, InterruptNativeStep, ConfirmStep, ConfirmAdapterStep, ReturnStep, EndStep
       DEF RuntimeStep
  <1> QED
    BY <1>1, <1>2, <1>3 DEF RuntimeNext

(* Whatever moves while an evaluation runs, wherever it is given up, from   *)
(* whichever index, cache or native context: what evaluate publishes is the *)
(* answer, to the identity of every value, of the facts, snapshots and      *)
(* operations as they all stood at one instant of the evaluation, that at   *)
(* which its closing check began.  What moves while the adapters are asked  *)
(* again is noticed by the part that is compared later, or not at all.      *)
THEOREM WhatIsPublishedIsExact == RuntimeSpec => []PublishedIsExact
PROOF
  <1>1. ExactInvariant => PublishedIsExact
    BY DEF ExactInvariant
  <1> QED
    BY <1>1, ExactStarts, ExactStep, TermsInvariantHolds, PTL DEF RuntimeSpec
=============================================================================
