------------------------------ MODULE QueryRules ------------------------------
(***************************************************************************)
(* Query programs: how query_ir.py orders and stratifies their rules, and  *)
(* how query_runtime.py and joins.py evaluate one rule over a set of       *)
(* facts.  A fact is [pred, args].  A body node is                         *)
(*   [kind, name, args, outs, group, value]                                *)
(* with kind "relation", "eq", "neq", "filter", "bind", "scan" or "min";   *)
(* a "min" has its source's arguments in args and its output in outs.      *)
(* A rule is [head, body, given].  A binding is a function from variables  *)
(* to values.  Abstracted: scalar types and arity checks of the planner    *)
(* (`_compatible`, `atom_check`, `operation_check`).                       *)
(***************************************************************************)
EXTENDS Integers, FiniteSets, SequencesExt

CONSTANTS
  Variables,        \* the terms that are variables; any other term is a value
  Missing,          \* an argument that is not bound yet
  Impure,           \* operations whose determinism is not "pure"
  Apply(_, _, _),   \* rows an operation gives for arguments, in a snapshot
  Distinct(_, _),   \* literals of which it is known that they differ
  Less(_, _)        \* the order of MIN, identities breaking ties

VarsOf(terms) == Range(terms) \cap Variables
IsAtom(n) == n.kind \in {"relation", "eq", "neq"}

-----------------------------------------------------------------------------
(* Planning *)

\* A node can be evaluated once the variables in `bound` are.
Ready(n, bound, given) ==
  CASE n.kind = "relation" -> TRUE
    [] n.kind = "eq"  -> \/ VarsOf(n.args) = {}
                         \/ Range(n.args) \ (Variables \ bound) # {}
    [] n.kind = "min" -> (VarsOf(n.args) \ Range(n.group)) \cap (bound \ given) = {}
    [] OTHER -> VarsOf(n.args) \subseteq bound

Binds(n) == IF IsAtom(n) THEN VarsOf(n.args) ELSE VarsOf(n.group \o n.outs)

\* One round of the planner's loop: a ready filter first, else source order.
PlaceNext(state, given) ==
  LET eligible == {i \in DOMAIN state.pending : Ready(state.pending[i], state.bound, given)}
      filters  == {i \in eligible : state.pending[i].kind = "filter"}
      next     == Min(IF filters # {} THEN filters ELSE eligible)
  IN IF eligible = {} THEN [state EXCEPT !.stuck = TRUE]
     ELSE [body    |-> Append(state.body, state.pending[next]),
           bound   |-> state.bound \cup Binds(state.pending[next]),
           pending |-> RemoveAt(state.pending, next),
           stuck   |-> state.stuck]

Ordering(rule) ==
  FoldLeft(LAMBDA state, i : IF state.stuck THEN state ELSE PlaceNext(state, rule.given),
           [body |-> <<>>, bound |-> rule.given, pending |-> rule.body, stuck |-> FALSE],
           rule.body)

\* Its inputs become bound and its head is safe.
Schedules(rule) ==
  LET end == Ordering(rule) IN ~end.stuck /\ VarsOf(rule.head.args) \subseteq end.bound

\* Nodes that need the finished relations of what the rule reads.
Generating(rule) ==
  \E i \in DOMAIN rule.body :
    \/ rule.body[i].kind \in {"bind", "scan"}
    \/ rule.body[i].kind = "filter" /\ rule.body[i].name \in Impure

Edges(rule) ==
  {[head |-> rule.head.pred, source |-> n.name, strict |-> n.kind = "min" \/ Generating(rule)] :
     n \in {m \in Range(rule.body) : m.kind \in {"relation", "min"}}}

\* A caller of a parameterised predicate declares the same parameters.
Inherits(rule, program) ==
  \A e \in Edges(rule), r \in Range(program) :
    r.head.pred = e.source => r.given \subseteq rule.given

SameGiven(program) ==
  \A r, s \in Range(program) : r.head.pred = s.head.pred => r.given = s.given

AllEdges(program) == UNION {Edges(program[i]) : i \in DOMAIN program}

\* Mutant: a boundary does not raise the level.
RaiseLax(levels, e) ==
  IF levels[e.head] < levels[e.source] THEN [levels EXCEPT ![e.head] = levels[e.source]] ELSE levels

Raise(levels, e) ==
  LET required == levels[e.source] + (IF e.strict THEN 1 ELSE 0)
  IN IF levels[e.head] < required THEN [levels EXCEPT ![e.head] = required] ELSE levels

\* One iteration over the edges, and the levels after as many as there are predicates.
Sweep(levels, edges) == FoldLeft(Raise, levels, edges)
Predicates(program) ==
  UNION {{e.head, e.source} : e \in AllEdges(program)} \cup {r.head.pred : r \in Range(program)}
Levels(program) ==
  LET edges == SetToSeq(AllEdges(program)) IN
  FoldLeft(LAMBDA levels, p : Sweep(levels, edges),
           [p \in Predicates(program) |-> 0], SetToSeq(Predicates(program)))

Stratified(program) ==
  Sweep(Levels(program), SetToSeq(AllEdges(program))) = Levels(program)

Plannable(program) ==
  /\ SameGiven(program)
  /\ \A i \in DOMAIN program : Inherits(program[i], program) /\ Schedules(program[i])
  /\ Stratified(program)

\* The rules of one level, their bodies in the planned order.
Stratum(program, level) ==
  {[r EXCEPT !.body = Ordering(r).body] :
     r \in {s \in Range(program) : Levels(program)[s.head.pred] = level}}
Height(program) == Max({0} \cup {Levels(program)[r.head.pred] + 1 : r \in Range(program)})

-----------------------------------------------------------------------------
(* Joining *)

Value(b, t) == IF t \in Variables THEN b[t] ELSE t
Known(b, t) == IF t \in Variables \ DOMAIN b THEN Missing ELSE Value(b, t)

\* The index: membership when everything is bound, else the smallest column
\* bucket, whose rows may still disagree in other columns.
Lookup(facts, pred, vs) ==
  LET rows    == {f.args : f \in {g \in facts : g.pred = pred}}
      bound   == {i \in DOMAIN vs : vs[i] # Missing}
      buckets == {rows} \cup {{r \in rows : r[i] = vs[i]} : i \in bound}
  IN IF bound = DOMAIN vs THEN rows \cap {vs}
     ELSE CHOOSE s \in buckets : \A t \in buckets : Cardinality(s) <= Cardinality(t)

\* The bindings, one or none, in which a term has a value.
Assign(b, t, v) ==
  IF Known(b, t) = Missing THEN {b @@ (t :> v)}
  ELSE IF Known(b, t) = v THEN {b} ELSE {}

\* Mutant: rows of the smallest bucket are taken without comparing them.
AssignAny(b, terms, row) ==
  {b @@ [t \in VarsOf(terms) |-> row[CHOOSE i \in DOMAIN terms : terms[i] = t]]}

AssignAll(b, terms, row) ==
  FoldLeft(LAMBDA bs, i : UNION {Assign(c, terms[i], row[i]) : c \in bs},
           {b}, [i \in DOMAIN terms |-> i])

\* RelationalPlan.solutions: the atom with the fewest candidate rows next; the
\* lookahead may prefer another one.
Solutions(atoms, binding, facts, lookahead) ==
  LET Rows(i, b) == Lookup(facts, atoms[i].name, [k \in DOMAIN atoms[i].args |-> Known(b, atoms[i].args[k])])
      Step(state, k) ==
        UNION {LET Size(i) == Cardinality(Rows(i, s.b))
                   fewest  == CHOOSE i \in s.left : \A j \in s.left : Size(i) <= Size(j)
                   others  == s.left \ {fewest}
                   second  == CHOOSE i \in others : \A j \in others : Size(i) <= Size(j)
                   chosen  == IF lookahead /\ others # {} /\ Size(fewest) > 0 THEN second ELSE fewest
               IN UNION {{[b |-> c, left |-> s.left \ {chosen}] : c \in AssignAll(s.b, atoms[chosen].args, r)} :
                           r \in Rows(chosen, s.b)} : s \in state}
  IN {s.b : s \in FoldLeft(Step, {[b |-> binding, left |-> DOMAIN atoms]}, atoms)}

\* Facts can say that two values differ; the relation is symmetric.
Differ(a, b, facts) ==
  \/ Distinct(a, b)
  \/ \E f \in facts : f.pred = "neq" /\ f.args \in {<<a, b>>, <<b, a>>}

\* Equality binds an open side.
Equate(n, b) ==
  LET open == {i \in {1, 2} : Known(b, n.args[i]) = Missing} IN
  IF open = {} THEN IF Value(b, n.args[1]) = Value(b, n.args[2]) THEN {b} ELSE {}
  ELSE LET i == Min(open) IN Assign(b, n.args[i], Value(b, n.args[3 - i]))

\* _aggregate: the least value of each group of the rows that match the binding.
Minimum(n, b, facts) ==
  LET rows  == Solutions(<<n>>, b, facts, FALSE)
      Key(c) == [i \in DOMAIN n.group |-> c[n.group[i]]]
      Best(k) == CHOOSE v \in {c[n.value] : c \in {d \in rows : Key(d) = k}} :
                   \A c \in rows : Key(c) = k => ~Less(c[n.value], v)
  IN UNION {AssignAll(b, n.group \o n.outs, k \o <<Best(k)>>) : k \in {Key(c) : c \in rows}}

Extend(n, b, facts, snapshot) ==
  CASE n.kind = "relation" -> Solutions(<<n>>, b, facts, FALSE)
    [] n.kind = "eq"  -> Equate(n, b)
    [] n.kind = "neq" -> IF Differ(Value(b, n.args[1]), Value(b, n.args[2]), facts) THEN {b} ELSE {}
    [] n.kind = "min" -> Minimum(n, b, facts)
    [] OTHER -> UNION {AssignAll(b, n.outs, row) :
                         row \in Apply(n.name, [i \in DOMAIN n.args |-> Value(b, n.args[i])], snapshot)}

\* _solutions: adjacent relations are one join unless an (in)equality is among them.
RunEnd(body, from) ==
  Max({to \in from..Len(body) : \A i \in from..to : IsAtom(body[i])})
BodySolutions(body, initial, facts, snapshot, lookahead) ==
  LET Step(state, i) ==
        IF i < state.from THEN state
        ELSE IF body[i].kind # "relation" \/ \E k \in i..RunEnd(body, i) : body[k].kind # "relation"
             THEN [from |-> i + 1, bs |-> UNION {Extend(body[i], b, facts, snapshot) : b \in state.bs}]
             ELSE [from |-> RunEnd(body, i) + 1,
                   bs |-> UNION {Solutions(SubSeq(body, i, RunEnd(body, i)), b, facts, lookahead) : b \in state.bs}]
  IN FoldLeft(Step, [from |-> 1, bs |-> {initial}], [i \in DOMAIN body |-> i]).bs

\* What the rules of a stratum give in one round.
Heads(rules, initial, facts, snapshot, lookahead) ==
  UNION {{[pred |-> r.head.pred, args |-> [i \in DOMAIN r.head.args |-> Value(b, r.head.args[i])]] :
            b \in BodySolutions(r.body, initial, facts, snapshot, lookahead)} : r \in rules}

-----------------------------------------------------------------------------
(* The meaning of a program, without any order *)

\* A node holds for a binding of all variables.
Holds(n, b, initial, facts, snapshot) ==
  LET Row(terms) == [i \in DOMAIN terms |-> Value(b, terms[i])]
      fixed == DOMAIN initial \cup Range(n.group)
      inGroup == {f \in facts : /\ f.pred = n.name
                                /\ \A i, k \in DOMAIN n.args :
                                     /\ n.args[i] \in fixed => f.args[i] = b[n.args[i]]
                                     /\ n.args[i] \notin Variables => f.args[i] = n.args[i]
                                     /\ n.args[i] = n.args[k] => f.args[i] = f.args[k]}
      values  == {f.args[CHOOSE i \in DOMAIN n.args : n.args[i] = n.value] : f \in inGroup}
  IN CASE n.kind = "relation" -> [pred |-> n.name, args |-> Row(n.args)] \in facts
       [] n.kind = "eq"  -> Row(n.args)[1] = Row(n.args)[2]
       [] n.kind = "neq" -> Differ(Row(n.args)[1], Row(n.args)[2], facts)
       [] n.kind = "min" -> /\ Row(n.outs)[1] \in values
                            /\ \A v \in values : ~Less(v, Row(n.outs)[1])
       [] OTHER -> Row(n.outs) \in Apply(n.name, Row(n.args), snapshot)

RuleVars(r) ==
  VarsOf(r.head.args) \cup UNION {VarsOf(r.body[i].args \o r.body[i].outs \o r.body[i].group) : i \in DOMAIN r.body}

Entails(r, initial, facts, snapshot, values) ==
  {[pred |-> r.head.pred, args |-> [i \in DOMAIN r.head.args |-> Value(b, r.head.args[i])]] :
     b \in {c \in [RuleVars(r) \cup DOMAIN initial -> values] :
              /\ \A v \in DOMAIN initial : c[v] = initial[v]
              /\ \A i \in DOMAIN r.body : Holds(r.body[i], c, initial, facts, snapshot)}}

Closed(rules, initial, facts, snapshot, values) ==
  \A r \in rules : Entails(r, initial, facts, snapshot, values) \subseteq facts

\* Predicates a predicate is defined through, over one edge or more.
Uses(program) == {<<e.head, e.source>> : e \in AllEdges(program)}
DefinedThrough(program) ==
  FoldLeft(LAMBDA rel, m : rel \cup {<<p, q>> \in Predicates(program) \X Predicates(program) :
                                       {<<p, m>>, <<m, q>>} \subseteq rel},
           Uses(program), SetToSeq(Predicates(program)))

\* Nothing is defined through itself across a boundary that needs it finished.
WellFounded(program) ==
  \A e \in AllEdges(program) :
    e.strict => e.head # e.source /\ <<e.source, e.head>> \notin DefinedThrough(program)

\* The facts are closed, and no group of predicates defined through each other
\* could do with fewer, given the others.
Perfect(program, initial, input, facts, snapshot, values) ==
  /\ input \subseteq facts
  /\ Closed(Range(program), initial, facts, snapshot, values)
  /\ \A p \in {r.head.pred : r \in Range(program)} :
       LET group == {p} \cup {q \in Predicates(program) : {<<p, q>>, <<q, p>>} \subseteq DefinedThrough(program)}
           own   == {f \in facts \ input : f.pred \in group}
           rules == {r \in Range(program) : r.head.pred \in group}
       IN \A fewer \in SUBSET own :
            fewer # own => ~Closed(rules, initial, (facts \ own) \cup fewer, snapshot, values)
=============================================================================
