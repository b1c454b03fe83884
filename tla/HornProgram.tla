------------------------------ MODULE HornProgram ------------------------------
(***************************************************************************)
(* The programs the engine evaluates, and what it means for a set of facts *)
(* to be their materialization.                                            *)
(*                                                                         *)
(* A rule is represented by its ground instances over the constants of the *)
(* instance: one record [rule, body, head] per safe substitution, where    *)
(* body is the set of relational atoms the substitution must find stored   *)
(* (a known difference of two literals needs no stored atom and is left    *)
(* out of the body) and head is the derived atom, or NoHead for a          *)
(* constraint.  Equality atoms do not occur: this is the fragment in which *)
(* the engine maintains its facts incrementally.                           *)
(***************************************************************************)

CONSTANTS
  Atoms,           \* every ground atom over the constants of the instance
  Assertable,      \* the atoms a program may assert
  Rules,           \* the rules a program may install
  Instances,       \* the ground instances of the rules
  NoHead,          \* the head of a constraint's instances
  DifferenceRule,  \* the built-in constraint that no NEQ(x, x) holds
  Predicate,       \* the predicate of an atom
  Mirror,          \* NEQ(x, y) |-> NEQ(y, x); every other atom is its own mirror
  Tops,            \* the atoms TOP(t)
  SeedTop,         \* TOP of the reserved constant that keeps the domain nonempty
  AtomTops,        \* TOP(t) for every term t of an atom, subterms included
  RuleTops,        \* TOP(c) for every constant c of a rule
  GlobalRules,     \* the rules without a relational body atom
  UnaryRules,      \* the rules p(x) :- q(x), r(x), ... without a constant
  FunctionAtoms,   \* the atoms with a function term
  FunctionRules,   \* the rules with a function term
  DeepAtoms        \* the atoms with a term nested deeper than max_depth

ASSUME AtomsAssumption ==
  /\ Assertable \subseteq Atoms
  /\ Tops \subseteq Atoms
  /\ SeedTop \in Tops
  /\ DeepAtoms \subseteq Atoms
  /\ FunctionAtoms \subseteq Atoms
  /\ Mirror \in [Atoms -> Atoms]
  /\ AtomTops \in [Atoms -> SUBSET Tops]

ASSUME RulesAssumption ==
  /\ NoHead \notin Atoms
  /\ DifferenceRule \notin Rules
  /\ RuleTops \in [Rules -> SUBSET Tops]
  /\ GlobalRules \subseteq Rules
  /\ FunctionRules \subseteq Rules
  /\ Instances \subseteq [rule : Rules \cup {DifferenceRule},
                          body : SUBSET Atoms,
                          head : Atoms \cup {NoHead}]
  /\ \A i \in Instances : i.rule = DifferenceRule => i.head = NoHead

(* NEQ is symmetric, and an atom and its mirror have the same terms.        *)
ASSUME MirrorAssumption ==
  \A a \in Atoms : /\ Mirror[Mirror[a]] = a
                   /\ AtomTops[Mirror[a]] = AtomTops[a]
                   /\ a \in Tops => Mirror[a] = a

(* The terms of TOP(t) are t and its subterms, which are terms of whatever  *)
(* t is a term of.                                                          *)
ASSUME TermsAssumption ==
  /\ AtomTops[SeedTop] = {SeedTop}
  /\ \A t \in Tops : t \in AtomTops[t]
  /\ \A a \in Atoms : \A t \in AtomTops[a] : AtomTops[t] \subseteq AtomTops[a]
  /\ \A r \in Rules : \A t \in RuleTops[r] : AtomTops[t] \subseteq RuleTops[r]

(* Engine._validate rejects an unsafe rule: without function terms, a head  *)
(* mentions only constants of the rule and of the matched body.             *)
ASSUME RangeRestriction ==
  \A i \in Instances :
    (i.head # NoHead /\ i.rule \notin FunctionRules)
      => AtomTops[i.head] \subseteq RuleTops[i.rule] \cup (UNION {AtomTops[b] : b \in i.body})

(* A unary rule says something of the term its premises speak of.           *)
ASSUME UnaryAssumption ==
  \A i \in Instances : i.rule \in UnaryRules =>
    /\ i.head # NoHead /\ i.body # {}
    /\ Mirror[i.head] = i.head
    /\ \A b \in i.body : AtomTops[i.head] = AtomTops[b]

-----------------------------------------------------------------------------
(* _domain_constants: TOP of the reserved constant and of every constant of *)
(* an assertion or of a rule.                                               *)
Domain(A, R) ==
  {SeedTop} \cup (UNION {AtomTops[a] : a \in A}) \cup (UNION {RuleTops[r] : r \in R})

(* What _ingest stores for one atom: the atom, the mirrored difference, and *)
(* TOP of each of its terms.                                                *)
Implied(a) == {a, Mirror[a]} \cup AtomTops[a]

ImpliedBy(A) == UNION {Implied(a) : a \in A}

(* The instances of the rules R whose body the facts satisfy.               *)
Matching(R, F) == {i \in Instances : i.rule \in R /\ i.body \subseteq F}

Heads(I) == {i.head : i \in {j \in I : j.head # NoHead}}

Denials(I) == {i \in I : i.head = NoHead}

-----------------------------------------------------------------------------
(* M satisfies the program with assertions A and rules R.                   *)
IsModel(M, A, R) ==
  /\ A \cup Domain(A, R) \subseteq M
  /\ \A a \in M : Implied(a) \subseteq M
  /\ Heads(Matching(R, M)) \subseteq M

(* Every fact of F holds in all models: nothing unsupported is in F.        *)
Entailed(F, A, R) ==
  \A M \in SUBSET Atoms : IsModel(M, A, R) => F \subseteq M

(* F is the materialization of the program.                                 *)
IsLeastModel(F, A, R) == IsModel(F, A, R) /\ Entailed(F, A, R)
=============================================================================
