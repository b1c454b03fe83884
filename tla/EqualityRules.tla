----------------------------- MODULE EqualityRules -----------------------------
(***************************************************************************)
(* Horn programs with equality, difference, data values and witnesses, and *)
(* what they mean: the least model over classes of equal terms, which      *)
(* engine.py and native_runtime.cpp compute with representatives.          *)
(* A term is [kind, name, args], an atom [pred, args], a rule [head, body].*)
(***************************************************************************)
EXTENDS Integers, FiniteSets, SequencesExt

CONSTANTS
  Constants,    \* terms of the kinds "uri", "literal" and "blank"
  Symbols,      \* of witnesses, all of one argument
  ValueOf,      \* the value of the literals of a datatype that is compared
  MaxDepth,     \* max_depth
  Ontologies,     \* [asserted, rules]
  MaxRounds,    \* max_rounds
  Ranked        \* all terms in the order of representatives

Var(name)        == [kind |-> "var", name |-> name, args |-> <<>>]
Skolem(name, t)  == [kind |-> "skolem", name |-> name, args |-> <<t>>]
A(p, args)       == [pred |-> p, args |-> args]
Seed             == [kind |-> "uri", name |-> "seed", args |-> <<>>]
Denial           == A("false", <<>>)

RECURSIVE Nested(_), DepthOf(_)
Nested(n)  == IF n = 0 THEN Constants \cup {Seed}
              ELSE LET inner == Nested(n - 1) IN inner \cup {Skolem(f, t) : f \in Symbols, t \in inner}
DepthOf(t) == IF t.args = <<>> THEN 0 ELSE 1 + DepthOf(t.args[1])

\* One witness deeper than a runtime may go.
AllTerms == Nested(MaxDepth + 1)

Category(t) == CASE t.kind = "uri" -> 0 [] t.kind = "literal" -> 1 [] t.kind = "skolem" -> 3 [] OTHER -> 2

\* _order, precedes: named before unnamed, shallow before deep.
ASSUME RankedAssumption ==
  /\ Len(Ranked) = Cardinality(AllTerms) /\ Range(Ranked) = AllTerms
  /\ \A i, j \in DOMAIN Ranked : i < j =>
       \/ Category(Ranked[i]) < Category(Ranked[j])
       \/ Category(Ranked[i]) = Category(Ranked[j]) /\ DepthOf(Ranked[i]) <= DepthOf(Ranked[j])

TermRank == [t \in AllTerms |-> CHOOSE i \in DOMAIN Ranked : Ranked[i] = t]

\* _literal_key, _distinct_literals: only values that are known to be comparable are.
Valued(t) == t.kind = "literal" /\ t.name \in DOMAIN ValueOf
DifferentValues(s, t)  == Valued(s) /\ Valued(t) /\ ValueOf[s.name] # ValueOf[t.name]
SameValue(s, t) == Valued(s) /\ Valued(t) /\ ValueOf[s.name] = ValueOf[t.name]

RECURSIVE VarsIn(_), Subterms(_), Ground(_, _)
VarsIn(t)    == IF t.kind = "var" THEN {t.name} ELSE UNION {VarsIn(u) : u \in Range(t.args)}
Subterms(t)  == {t} \cup UNION {Subterms(u) : u \in Range(t.args)}
Ground(t, b) == IF t.kind = "var" THEN b[t.name] ELSE [t EXCEPT !.args = [i \in DOMAIN @ |-> Ground(@[i], b)]]

AtomVariables(a)     == UNION {VarsIn(t) : t \in Range(a.args)}
AtomsOf(r)    == Range(r.body) \cup {r.head}
RuleVariables(r)   == UNION {AtomVariables(a) : a \in AtomsOf(r)}
GroundTerms(a) == {t \in UNION {Subterms(u) : u \in Range(a.args)} : VarsIn(t) = {}}

\* _domain_constants
ActiveDomain(p) == {Seed} \cup UNION {GroundTerms(a) : a \in p.asserted \cup UNION {AtomsOf(r) : r \in p.rules}}

-----------------------------------------------------------------------------
(* The least model *)

Active(facts) == {f.args[1] : f \in {g \in facts : g.pred = "top"}}

\* The least congruence that holds the pairs: a function from terms to their classes.
RECURSIVE Congruence(_, _)
Congruence(class, pairs) ==
  LET apart     == {p \in pairs : class[p[1]] # class[p[2]]}
      skolems   == {t \in AllTerms : t.kind = "skolem"}
      congruent == {p \in skolems \X skolems : /\ p[1].name = p[2].name
                                               /\ class[p[1].args[1]] = class[p[2].args[1]]
                                               /\ class[p[1]] # class[p[2]]}
      merge     == CHOOSE p \in apart \cup congruent : TRUE
      both      == class[merge[1]] \cup class[merge[2]]
  IN IF apart \cup congruent = {} THEN class
     ELSE Congruence([t \in both |-> both] @@ class, apart)

Classes(facts) ==
  Congruence([t \in AllTerms |-> {t}],
             {<<f.args[1], f.args[2]>> : f \in {g \in facts : g.pred = "eq"}}
             \cup {p \in Active(facts) \X Active(facts) : SameValue(p[1], p[2])})

Quotient(atom, class) == [atom EXCEPT !.args = [i \in DOMAIN @ |-> class[@[i]]]]

\* Named before unnamed, as the terms of a class go into new witnesses.
Member(class) == CHOOSE t \in class : \A u \in class : TermRank[t] <= TermRank[u]

HoldsIn(a, quotients, class) ==
  CASE a.pred = "eq"  -> class[a.args[1]] = class[a.args[2]]
    [] a.pred = "neq" -> Quotient(a, class) \in quotients \/
                         \E s \in class[a.args[1]], t \in class[a.args[2]] : DifferentValues(s, t)
    [] OTHER          -> Quotient(a, class) \in quotients

GroundAtom(a, b) == [a EXCEPT !.args = [i \in DOMAIN @ |-> Ground(@[i], b)]]

\* The heads that follow from the facts in one step, with one term for each class.
FollowsFor(rules, class, quotients, members) ==
  UNION {{GroundAtom(r.head, b) : b \in {c \in [RuleVariables(r) -> members] :
            \A a \in Range(r.body) : HoldsIn(GroundAtom(a, c), quotients, class)}} : r \in rules}

Follows(rules, facts) ==
  UNION {FollowsFor(rules, class, {Quotient(f, class) : f \in facts}, {Member(class[t]) : t \in Active(facts)})
         : class \in {Classes(facts)}}

Completed(facts) ==
  facts \cup {A("neq", Reverse(f.args)) : f \in {g \in facts : g.pred = "neq"}}
        \cup {A("top", <<t>>) : t \in UNION {GroundTerms(f) : f \in facts}}

RECURSIVE Model(_, _)
Model(rules, facts) ==
  LET inside == {f \in Follows(rules, facts) : \A t \in Range(f.args) : t \in AllTerms}
      next   == Completed(facts \cup inside)
  IN IF next = facts THEN facts ELSE Model(rules, next)

ModelOf(p) == Model(p.rules, Completed(p.asserted \cup {A("top", <<t>>) : t \in ActiveDomain(p)}))

Inconsistent(facts, class) ==
  \/ Denial \in facts
  \/ \E f \in facts : f.pred = "neq" /\ class[f.args[1]] = class[f.args[2]]
  \/ \E s, t \in Active(facts) : class[s] = class[t] /\ DifferentValues(s, t)

\* What a program means: the member that stands for each term, facts up to it, and whether
\* it contradicts itself.
ReferenceOf(p) ==
  CHOOSE m \in UNION {{[class |-> standing, inconsistent |-> Inconsistent(facts, standing),
                        facts |-> {Quotient(f, standing) : f \in facts \ {Denial}}]
                         : standing \in {[t \in AllTerms |-> Member(class[t])] : class \in {Classes(facts)}}}
                      : facts \in {ModelOf(p)}} : TRUE

Meaning == [p \in Ontologies |-> ReferenceOf(p)]
=============================================================================
