----------------------------- MODULE EqualityEngine -----------------------------
(***************************************************************************)
(* Materialization under equality (engine.py): terms have representatives, *)
(* facts are kept with them, and a merge rewrites the facts and makes all  *)
(* of them the next delta.  Atoms of a batch are ingested one by one in    *)
(* the order of a set, that is in any order.                               *)
(* e is the engine: terms registered, rep (_parent), sigs (_skolem_lookup),*)
(* facts, delta, whether a merge is yet to be followed (dirty), what was   *)
(* reported, and complete.                                                 *)
(***************************************************************************)
EXTENDS EqualityRules

CONSTANTS Strategies, UnaryStrategies

VARIABLES
  ruleset, strategy, unary,   \* of the engine: asserted and rules, strategy, _unary_strategy
  e,
  phase,                      \* "domain", "assert", "rounds", "done"
  batch,                    \* atoms of the batch that are not yet ingested
  settled,                    \* the batch is ingested and its merges are followed
  rounds

equalityVars == <<ruleset, strategy, unary, e, phase, batch, settled, rounds>>

EmptyEngine == [terms |-> {}, rep |-> <<>>, sigs |-> <<>>, facts |-> {}, delta |-> {}, dirty |-> FALSE,
          merged |-> FALSE, complete |-> TRUE, reported |-> {}]

EqualityInit ==
  /\ ruleset \in Ontologies /\ strategy \in Strategies /\ unary \in UnaryStrategies
  /\ e = EmptyEngine /\ phase = "domain" /\ rounds = 0 /\ settled = FALSE
  /\ batch = {A("top", <<t>>) : t \in ActiveDomain(ruleset)}

-----------------------------------------------------------------------------
(* Representatives *)

\* _find
Find(k, t) == IF t \in DOMAIN k.rep THEN k.rep[t] ELSE t

\* normalize: a witness is spelled with the representatives of its arguments.
RECURSIVE Normalize(_, _)
Spelled(k, t) == [t EXCEPT !.args = [i \in DOMAIN @ |-> Normalize(k, @[i])]]
Normalize(k, t) ==
  LET root  == Find(k, t)
      sig   == Spelled(k, root)
      known == Find(k, IF sig \in DOMAIN k.sigs THEN k.sigs[sig] ELSE sig)
  IN IF root.kind # "skolem" THEN root
     ELSE IF known.kind # "skolem" THEN Normalize(k, known)
     ELSE Spelled(k, known)

CanonicalAtom(k, a) == [a EXCEPT !.args = [i \in DOMAIN @ |-> Normalize(k, @[i])]]

\* _union
Union(k, s, t) ==
  LET a == Find(k, s)
      b == Find(k, t)
      keep == IF TermRank[a] <= TermRank[b] THEN a ELSE b
      In(root) == {u \in k.terms : Find(k, u) = root}
  IN IF a = b THEN k
     ELSE [k EXCEPT !.rep = (keep :> keep) @@ [u \in DOMAIN @ |-> IF @[u] \in {a, b} THEN keep ELSE @[u]],
                    !.dirty = TRUE, !.merged = TRUE,
                    !.reported = IF \E u \in In(a), v \in In(b) : DifferentValues(u, v) THEN @ \cup {"values"} ELSE @]

\* The witness of the same arguments is the same.
Signed(k, t) ==
  LET sig == Spelled(k, t) IN
  IF sig \in DOMAIN k.sigs THEN Union(k, k.sigs[sig], t) ELSE [k EXCEPT !.sigs = @ @@ (sig :> t)]

\* _register; a witness that is too deep ends the call.
RECURSIVE Register(_, _)
Register(k, t) ==
  LET inner == FoldLeft(Register, k, t.args)
      added == [inner EXCEPT !.terms = @ \cup {t}, !.rep = @ @@ (t :> t)]
      twins == {u \in inner.terms : SameValue(u, t)}
  IN IF t \in k.terms \/ ~k.complete THEN k
     ELSE IF t.kind = "skolem" /\ DepthOf(t) > MaxDepth THEN [k EXCEPT !.complete = FALSE]
     ELSE IF ~inner.complete THEN inner
     ELSE IF twins # {} THEN Union(added, t, CHOOSE u \in twins : TRUE)
     ELSE IF t.kind = "skolem" THEN Signed(added, t)
     ELSE added

\* _congruence: passes over the witnesses until one merges none.
RECURSIVE Congruent(_)
Congruent(k) ==
  LET Visit(t, acc) ==
        LET sig == Spelled(acc.k, t) IN
        IF sig \in DOMAIN acc.table THEN [acc EXCEPT !.k = Union(acc.k, acc.table[sig], t)]
        ELSE [acc EXCEPT !.table = @ @@ (sig :> Find(acc.k, t))]
      pass == FoldSet(Visit, [k |-> k, table |-> <<>>], {t \in k.terms : t.kind = "skolem"})
      next == [pass.k EXCEPT !.sigs = pass.table]
  IN IF next.rep = k.rep THEN next ELSE Congruent(next)

-----------------------------------------------------------------------------
(* Ingestion *)

Store(k, facts) == [k EXCEPT !.facts = @ \cup facts, !.delta = @ \cup (facts \ k.facts)]

\* One turn of the loop of _ingest.
Ingested(k, a) ==
  LET known == FoldLeft(Register, k, a.args)
      equal == IF a.pred = "eq" THEN Union(known, a.args[1], a.args[2]) ELSE known
      fact  == CanonicalAtom(equal, a)
      new   == known.terms \ k.terms
  IN IF ~known.complete THEN known
     ELSE Store(equal, {fact} \cup (IF a.pred = "neq" THEN {[fact EXCEPT !.args = Reverse(@)]} ELSE {})
                       \cup {A("top", <<Normalize(equal, t)>>) : t \in new})

IngestOne ==
  /\ phase # "done" /\ e.complete
  /\ \E a \in batch : e' = Ingested(e, a) /\ batch' = batch \ {a}
  /\ settled' = FALSE
  /\ UNCHANGED <<ruleset, strategy, unary, phase, rounds>>

\* Mutant: only the new facts are followed after a merge.
ReindexNew(k) ==
  LET c == Congruent(k)
      facts == {CanonicalAtom(c, f) : f \in c.facts}
  IN [c EXCEPT !.facts = facts, !.delta = {CanonicalAtom(c, f) : f \in @} , !.dirty = FALSE]

\* _reindex, after which equality may enable old joins without a new fact.
Reindexed(k) ==
  LET c == Congruent(k)
      facts == {CanonicalAtom(c, f) : f \in c.facts}
  IN [c EXCEPT !.facts = facts, !.delta = facts, !.dirty = FALSE]

\* _check_differences
Checked(k) ==
  IF \E f \in k.facts : f.pred = "neq" /\ Normalize(k, f.args[1]) = Normalize(k, f.args[2])
  THEN [k EXCEPT !.reported = @ \cup {"differences"}] ELSE k

\* The end of _ingest
Settle ==
  /\ ~settled /\ (batch = {} \/ ~e.complete)
  /\ \E k \in {IF e.dirty THEN Reindexed(e) ELSE e} : e' = Checked(k)
  /\ settled' = TRUE /\ batch' = {}
  /\ UNCHANGED <<ruleset, strategy, unary, phase, rounds>>

-----------------------------------------------------------------------------
(* Rule evaluation *)

NoTerm == [kind |-> "none", name |-> "", args |-> <<>>]

\* _bound
BoundValue(k, t, b) ==
  IF VarsIn(t) = {} THEN Normalize(k, t)
  ELSE IF t.kind = "var" THEN b[t.name]
  ELSE IF \E v \in VarsIn(t) : b[v] = NoTerm THEN NoTerm
  ELSE Normalize(k, Ground(t, b))

Values(k, a, b) == [i \in DOMAIN a.args |-> BoundValue(k, a.args[i], b)]

Rows(facts, a, values) ==
  {f.args : f \in {g \in facts : g.pred = a.pred /\ \A i \in DOMAIN values : values[i] \in {NoTerm, g.args[i]}}}

\* An atom is read from the delta or from all facts.
Scanned(k, new) == IF new THEN k.delta ELSE k.facts

\* Mutant: different names are different individuals.
DiffersByName(k, new, values) == values[1] # values[2]

\* A difference is a fact or, unless a new one is asked for, one of two literals.
Differs(k, new, values) == A("neq", values) \in Scanned(k, new) \/ (~new /\ DifferentValues(values[1], values[2]))

\* How many rows an atom has under a binding, none of them if it cannot be chosen yet.
CanChoose(a, values) == CASE a.pred = "eq"  -> values # <<NoTerm, NoTerm>>
                          [] a.pred = "neq" -> NoTerm \notin Range(values)
                          [] OTHER -> TRUE
SizeOf(k, new, a, values) == CASE a.pred = "eq"  -> 1
                                 [] a.pred = "neq" -> IF Differs(k, new, values) THEN 1 ELSE 0
                                 [] OTHER -> Cardinality(Rows(Scanned(k, new), a, values))

\* The bindings of an atom that extend b.
Extensions(k, new, a, values, b) ==
  CASE a.pred = "eq" ->
         IF NoTerm \notin Range(values) THEN (IF values[1] = values[2] THEN {b} ELSE {})
         ELSE LET free == IF values[1] = NoTerm THEN 1 ELSE 2 IN {[b EXCEPT ![a.args[free].name] = values[3 - free]]}
    [] a.pred = "neq" -> IF Differs(k, new, values) THEN {b} ELSE {}
    [] OTHER ->
         LET Of(row) == [v \in DOMAIN b |-> IF \E i \in DOMAIN row : a.args[i] = Var(v)
                                            THEN row[CHOOSE i \in DOMAIN row : a.args[i] = Var(v)] ELSE b[v]]
         IN {Of(row) : row \in {s \in Rows(Scanned(k, new), a, values) : \A i \in DOMAIN s : BoundValue(k, a.args[i], Of(s)) = s[i]}}

\* visit of _solutions: the atom with the fewest rows next, delta at one position.
RECURSIVE Visited(_, _, _, _, _)
Visited(k, r, at, left, b) ==
  LET ready   == {i \in left : CanChoose(r.body[i], Values(k, r.body[i], b))}
      Size(i) == SizeOf(k, i = at, r.body[i], Values(k, r.body[i], b))
      next    == CHOOSE j \in ready : \A o \in ready : Size(j) <= Size(o)
  IN IF left = {} THEN {b}
     ELSE UNION {Visited(k, r, at, left \ {next}, c) :
                   c \in Extensions(k, next = at, r.body[next], Values(k, r.body[next], b), b)}

\* A body of unary atoms over one variable, of which _prepare_rules makes a plan.
UnaryPlan(r) ==
  r.body # <<>> /\ \A a \in Range(r.body) :
    Len(a.args) = 1 /\ a.args[1].kind = "var" /\ a = [r.body[1] EXCEPT !.pred = a.pred]

StoredRows(facts, p) == {f.args : f \in {g \in facts : g.pred = p}}

\* _unary_union_first: intersected with the union of the deltas.
UnionFirst(k, predicates) ==
  LET changed == UNION {StoredRows(k.delta, p) : p \in predicates} IN
  {row \in changed : \A p \in predicates : row \in StoredRows(k.facts, p)}

\* _unary_solutions: the deltas are united first, or used as filters, or left out
\* when one of them is all of its relation.
Adaptive(k, predicates) ==
  LET deltas == {p \in predicates : StoredRows(k.delta, p) # {}}
      size   == [p \in predicates |-> Cardinality(StoredRows(k.facts, p))]
      volume == FoldSet(LAMBDA p, n : Cardinality(StoredRows(k.delta, p)) + n, 0, deltas)
      least  == CHOOSE p \in predicates : \A q \in predicates : size[p] <= size[q]
      all    == {row \in StoredRows(k.facts, least) : \A p \in predicates : row \in StoredRows(k.facts, p)}
  IN IF deltas = {} THEN {}
     ELSE IF \E p \in deltas : Cardinality(StoredRows(k.delta, p)) = size[p] THEN all
     ELSE IF volume <= Cardinality(predicates) * size[least] THEN UnionFirst(k, predicates)
     ELSE UNION {all \cap StoredRows(k.delta, p) : p \in deltas}

UnaryBindings(k, r) ==
  LET predicates == {a.pred : a \in Range(r.body)}
      rows == IF unary = "union-first" THEN UnionFirst(k, predicates) ELSE Adaptive(k, predicates)
  IN {[v \in RuleVariables(r) |-> row[1]] : row \in rows}

\* _rule_dependencies, _variants: a rule of equalities only is tried in every round.
Global(r) == \A a \in Range(r.body) : a.pred = "eq"
Variants(k, r) ==
  IF strategy = "naive" \/ Global(r) THEN {0}
  ELSE {i \in DOMAIN r.body : r.body[i].pred # "eq" /\ \E f \in k.delta : f.pred = r.body[i].pred}

Matches(k, r) ==
  IF strategy = "semi-naive" /\ UnaryPlan(r) /\ Len(r.body) > 1
  THEN UnaryBindings(k, r)
  ELSE UNION {Visited(k, r, at, DOMAIN r.body, [v \in RuleVariables(r) |-> NoTerm]) : at \in Variants(k, r)}

\* _heads
FiredHeads(k, r) == {[r.head EXCEPT !.args = [i \in DOMAIN @ |-> BoundValue(k, @[i], b)]] : b \in Matches(k, r)}

-----------------------------------------------------------------------------
(* A call *)

\* materialize: the domain, then the assertions.
EndDomain ==
  /\ phase = "domain" /\ settled /\ e.complete
  /\ batch' = ruleset.asserted /\ phase' = "assert" /\ settled' = FALSE
  /\ UNCHANGED <<ruleset, strategy, unary, e, rounds>>

EndAssert ==
  /\ phase = "assert" /\ settled /\ e.complete
  /\ e' = [e EXCEPT !.delta = IF e.merged THEN e.facts ELSE @]
  /\ phase' = "rounds"
  /\ UNCHANGED <<ruleset, strategy, unary, batch, settled, rounds>>

Following == phase = "rounds" /\ settled /\ e.complete

\* One round of _run.  The facts of the delta are joined, and their heads are the next batch.
Round ==
  /\ Following /\ (e.delta # {} \/ rounds = 0) /\ rounds < MaxRounds
  /\ \E found \in {UNION {FiredHeads(e, r) : r \in ruleset.rules}} :
       /\ batch' = found \ (e.facts \cup {Denial})
       /\ e' = [e EXCEPT !.delta = {}, !.reported = IF Denial \in found THEN @ \cup {"constraint"} ELSE @]
  /\ rounds' = rounds + 1 /\ settled' = FALSE
  /\ UNCHANGED <<ruleset, strategy, unary, phase>>

Complete ==
  /\ Following /\ e.delta = {} /\ rounds > 0
  /\ phase' = "done"
  /\ UNCHANGED <<ruleset, strategy, unary, e, batch, settled, rounds>>

\* max_rounds or max_depth
Stop ==
  /\ phase # "done" /\ settled
  /\ ~e.complete \/ (Following /\ e.delta # {} /\ rounds = MaxRounds)
  /\ e' = [e EXCEPT !.complete = FALSE] /\ phase' = "done"
  /\ UNCHANGED <<ruleset, strategy, unary, batch, settled, rounds>>

EqualityNext == IngestOne \/ Settle \/ EndDomain \/ EndAssert \/ Round \/ Complete \/ Stop

-----------------------------------------------------------------------------
\* What the naive strategy finds in the facts of a complete call is there.
OracleAddsNothing ==
  phase = "done" /\ e.complete =>
    \A r \in ruleset.rules : \A b \in Visited(e, r, 0, DOMAIN r.body, [v \in RuleVariables(r) |-> NoTerm]) :
      r.head = Denial \/ [r.head EXCEPT !.args = [i \in DOMAIN @ |-> BoundValue(e, @[i], b)]] \in e.facts

\* Whatever is stored, at any moment of any order, follows from the ruleset, and terms are
\* merged only if they are equal in it: a batch half ingested, a limit and a merge that
\* is not yet followed included.  A complete call has every fact of the ruleset, kept with
\* the representatives of its terms, which are the same for terms that are equal, and
\* reports what is inconsistent.
ClosureIsModel ==
  LET model == Meaning[ruleset] IN
  /\ \A f \in e.facts : Quotient(f, model.class) \in model.facts
  /\ \A s, t \in e.terms : Find(e, s) = Find(e, t) => model.class[s] = model.class[t]
  /\ phase = "done" /\ e.complete =>
       /\ \A s, t \in e.terms : model.class[s] = model.class[t] <=> Normalize(e, s) = Normalize(e, t)
       /\ {Quotient(f, model.class) : f \in e.facts} = model.facts
       /\ \A f \in e.facts : CanonicalAtom(e, f) = f
       /\ model.inconsistent <=> e.reported # {}
=============================================================================
