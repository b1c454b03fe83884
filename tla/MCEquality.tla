----------------------------- MODULE MCEquality -----------------------------
(***************************************************************************)
(* Programs with equality, for the engine and the native runtime.          *)
(***************************************************************************)
EXTENDS EqualityEngine

Uri(n)  == [kind |-> "uri", name |-> n, args |-> <<>>]
Data(n) == [kind |-> "literal", name |-> n, args |-> <<>>]
a == Uri("a")
b == Uri("b")
c == Uri("c")
one == Data("1")
uno == Data("1.0")
two == Data("2")
x == Var("x")
y == Var("y")
z == Var("z")
Rule(body, head) == [body |-> body, head |-> head]
P(name, facts, rules) == [asserted |-> facts, rules |-> rules]

MCValueOf == ("1" :> 1) @@ ("1.0" :> 1) @@ ("2" :> 2)

\* A functional role merges two individuals, which enables an old join.
Functional == P("functional",
  {A("R", <<a, b>>), A("R", <<a, c>>), A("B", <<b>>), A("C", <<c>>)},
  {Rule(<<A("R", <<x, y>>), A("R", <<x, z>>)>>, A("eq", <<y, z>>)),
   Rule(<<A("B", <<x>>), A("C", <<x>>)>>, A("D", <<x>>)),
   Rule(<<A("D", <<x>>), A("R", <<y, x>>)>>, A("E", <<y>>)),
   Rule(<<A("B", <<x>>), A("C", <<y>>), A("neq", <<x, y>>)>>, A("F", <<x>>))})

\* A merge that leaves as many facts as there were.
Meeting == P("meeting", {A("B", <<a>>), A("C", <<b>>)},
  {Rule(<<A("B", <<x>>), A("C", <<y>>)>>, A("eq", <<x, y>>)),
   Rule(<<A("B", <<x>>), A("C", <<x>>)>>, A("D", <<x>>))})

\* Witnesses of individuals that are found equal later are equal, and their types meet.
Witnesses == P("witnesses",
  {A("B", <<a>>), A("C", <<b>>)},
  {Rule(<<A("B", <<x>>)>>, A("R", <<x, Skolem("f", x)>>)),
   Rule(<<A("C", <<x>>)>>, A("S", <<x, Skolem("f", x)>>)),
   Rule(<<A("R", <<x, y>>)>>, A("D", <<y>>)),
   Rule(<<A("S", <<x, y>>), A("D", <<z>>)>>, A("eq", <<a, b>>)),
   Rule(<<A("S", <<x, y>>), A("D", <<y>>)>>, Denial)})

\* An endless role that is closed by an equality; without it the witnesses are too deep.
Loop(closed) == P("loop", {A("B", <<a>>)},
  {Rule(<<A("B", <<x>>)>>, A("R", <<x, Skolem("f", x)>>)),
   Rule(<<A("R", <<x, y>>)>>, A("B", <<y>>))}
  \cup IF closed THEN {Rule(<<A("R", <<x, y>>)>>, A("eq", <<x, y>>))} ELSE {})

\* Two spellings of a value are one, two values are not.
DataValues == P("values",
  {A("R", <<a, one>>), A("R", <<b, uno>>), A("B", <<a>>), A("B", <<b>>)},
  {Rule(<<A("R", <<x, y>>), A("R", <<z, y>>)>>, A("eq", <<x, z>>)),
   Rule(<<A("R", <<x, y>>), A("neq", <<y, two>>)>>, A("C", <<x>>)),
   Rule(<<A("C", <<x>>)>>, A("S", <<x, two>>)),
   Rule(<<A("S", <<x, y>>), A("R", <<x, z>>)>>, A("eq", <<y, z>>))})

\* A difference that the equality contradicts, and equalities that bind.
Difference == P("difference",
  {A("neq", <<a, b>>), A("B", <<a>>), A("R", <<c, b>>)},
  {Rule(<<A("B", <<x>>), A("R", <<y, z>>), A("neq", <<z, x>>)>>, A("C", <<y>>)),
   Rule(<<A("eq", <<x, b>>), A("B", <<y>>)>>, A("R", <<y, x>>)),
   Rule(<<A("eq", <<x, c>>)>>, A("B", <<x>>)),
   Rule(<<A("B", <<x>>), A("C", <<x>>), A("D", <<x>>)>>, A("eq", <<x, b>>)),
   Rule(<<A("C", <<x>>)>>, A("D", <<x>>))})

\* A body of nothing but a difference of values
Bare == P("bare", {A("B", <<a>>)}, {Rule(<<A("neq", <<one, two>>)>>, A("C", <<a>>))})

MCConstants == {a, b, c, one, uno, two}
MCPrograms == {Meeting, Functional, Witnesses, Loop(TRUE), Loop(FALSE), DataValues, Difference}
MCBare == {Bare}
MCRanked == SortSeq(FoldSet(LAMBDA t, s : Append(s, t), <<>>, AllTerms), LAMBDA s, t :
              Category(s) < Category(t) \/ (Category(s) = Category(t) /\ DepthOf(s) < DepthOf(t)))
BareSpec == EqualityInit /\ [][EqualityNext]_equalityVars
=============================================================================
