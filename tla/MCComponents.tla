------------------------------ MODULE MCComponents ------------------------------
(***************************************************************************)
(* Components that no other one interleaves with, checked side by side:    *)
(* the initial state picks one, and the others stay where they began.      *)
(*                                                                         *)
(*   cache     answers from empty to too large, one hides its size         *)
(*   roads     every graph whose edges neither enter the start nor leave   *)
(*             the end, which are on no shortest way                       *)
(*   queries   programs of up to three rules of Pool: recursion, joins     *)
(*             of three columns, equality, inequality, filters pure and    *)
(*             not, generated values, scans and aggregates, over two       *)
(*             values that can be compared                                 *)
(*   terms     lexical forms of numbers; "big" is out of the native range  *)
(*   store     two indexes that share facts, and joins over both           *)
(*   equality, runtime   the programs of MCEquality                        *)
(*   build     two processes, two compilers, a source file of two contents *)
(*             of which one declares the interface                         *)
(***************************************************************************)
EXTENDS AnswerCache, RoadSearch, NativePlan, NativeQuery, NativeStore, MCEquality,
  NativeRuntime, NativeBuild

(***************************************************************************)
(* Queries                                                                 *)
(***************************************************************************)

MCVariables == {"x", "y", "z", "m", "g"}
MCUniverse  == {"a", "b"}

Node(kind, name, args, outs) ==
  [kind |-> kind, name |-> name, args |-> args, outs |-> outs, group |-> <<>>, value |-> ""]
Rel(p, args)      == Node("relation", p, args, <<>>)
Filter(op, args)  == Node("filter", op, args, <<>>)
Minimal(p, args, group, value, least) ==
  [kind |-> "min", name |-> p, args |-> args, outs |-> <<least>>, group |-> group, value |-> value]
QueryRule(p, args, body) == [head |-> [pred |-> p, args |-> args], body |-> body, given |-> {}]

\* Operations: tests, a total and a partial function, an enumeration.
MCApply(op, args, snapshot) ==
  CASE op = "isA"   -> IF args = <<"a">> THEN {<<>>} ELSE {}
    [] op = "fresh" -> IF args = <<"b">> THEN {<<>>} ELSE {}
    [] op = "other" -> {<<IF args[1] = "a" THEN "b" ELSE "a">>}
    [] op = "pairs" -> {<<args[1], v>> : v \in MCUniverse}
MCDistinct(s, t) == FALSE
MCLess(s, t) == s = "a" /\ t = "b"

Pool == {
  QueryRule("p", <<"x", "y">>, <<Rel("e", <<"x", "y">>)>>),
  QueryRule("p", <<"x", "z">>, <<Rel("p", <<"x", "y">>), Rel("e", <<"y", "z">>)>>),
  QueryRule("q", <<"x">>, <<Filter("isA", <<"y">>), Rel("t", <<"x", "y", "y">>)>>),
  QueryRule("q", <<"z">>, <<Rel("t", <<"x", "y", "z">>), Rel("e", <<"y", "x">>), Rel("p", <<"x", "x">>)>>),
  QueryRule("q", <<"y">>, <<Node("eq", "eq", <<"x", "y">>, <<>>), Rel("e", <<"x", "x">>)>>),
  QueryRule("q", <<"x">>, <<Node("eq", "eq", <<"x", "y">>, <<>>)>>),
  QueryRule("q", <<"y">>, <<Node("neq", "neq", <<"y", "x">>, <<>>), Rel("p", <<"x", "y">>)>>),
  QueryRule("q", <<"x">>, <<Rel("p", <<"x", "y">>), Filter("fresh", <<"y">>)>>),
  QueryRule("p", <<"x", "y">>, <<Rel("q", <<"x">>), Node("bind", "other", <<"x">>, <<"y">>)>>),
  QueryRule("q", <<"m">>, <<Node("bind", "other", <<"y">>, <<"m">>), Rel("e", <<"m", "y">>)>>),
  QueryRule("p", <<"x", "y">>, <<Node("scan", "pairs", <<"x">>, <<"x", "y">>), Rel("q", <<"x">>)>>),
  QueryRule("q", <<"m">>, <<Minimal("p", <<"x", "y">>, <<"x">>, "y", "m"), Rel("e", <<"x", "z">>)>>),
  QueryRule("q", <<"m">>, <<Rel("e", <<"x", "y">>), Minimal("p", <<"x", "y">>, <<"x">>, "y", "m")>>),
  QueryRule("q", <<"m">>, <<Minimal("p", <<"y", "g">>, <<>>, "y", "m")>>),
  [QueryRule("q", <<"x">>, <<Rel("p", <<"x", "g">>)>>) EXCEPT !.given = {"g"}],
  [QueryRule("r", <<"x">>, <<Rel("q", <<"x">>), Filter("isA", <<"g">>)>>) EXCEPT !.given = {"g"}]}

MCQueries == {SetToSeq(s) : s \in {t \in SUBSET Pool : Cardinality(t) \in 1..3}}

Fact(p, args) == [pred |-> p, args |-> args]
MCInputFacts == {
  {Fact("e", <<"a", "b">>), Fact("e", <<"b", "b">>), Fact("t", <<"b", "a", "a">>)},
  {Fact("e", <<"a", "a">>), Fact("p", <<"a", "b">>), Fact("p", <<"b", "a">>), Fact("neq", <<"a", "b">>),
   Fact("t", <<"a", "a", "b">>), Fact("t", <<"b", "b", "a">>)},
  {Fact("e", <<"b", "a">>), Fact("e", <<"a", "b">>), Fact("q", <<"a">>)}}
MCInitials == {[v \in {} |-> ""], [v \in {"g"} |-> "b"]}

(***************************************************************************)
(* The others                                                              *)
(***************************************************************************)

Sizes == [empty |-> <<0, 1>>, wide |-> <<3, 2>>, heavy |-> <<1, 5>>, huge |-> <<5, 4>>,
          hidden |-> <<1, 0>>]

MCUnknown == -1
MCAnswers == DOMAIN Sizes
MCValuesOf(v) == Sizes[v][1]
MCBytesOf(k, v) == IF v = "hidden" THEN MCUnknown ELSE Sizes[v][2] + (IF k = "k1" THEN 1 ELSE 0)

MCStreets == (Nodes \ {End}) \X (Nodes \ {Start}) \ {<<n, n>> : n \in Nodes}
MCNoEdge  == -1

MCDecode(t) == CASE t \in {"1", "01"} -> 1 [] t \in {"2", "02"} -> 2 [] t = "3" -> 3 [] OTHER -> -1
MCCanonical(v) == CASE v = 1 -> "1" [] v = 2 -> "2" [] v = 3 -> "3"
MCLiteralKey(t) == IF t = "big" THEN 9 ELSE MCDecode(t)
MCOrderOf(t) == CASE t = "01" -> 1 [] t = "02" -> 2 [] t = "1" -> 3 [] t = "2" -> 4 [] t = "3" -> 5 [] OTHER -> 6
MCIdOf(t) == CASE t = "01" -> 1 [] t = "1" -> 2 [] t = "02" -> 3 [] t = "big" -> 4 [] t = "2" -> 5 [] t = "3" -> 6
MCOperation(v) == IF v < 3 THEN v + 1 ELSE -1
MCNoValue == -1
Lexicals == {"1", "01", "2", "02", "big"}
MCLiterals == Lexicals \cup {"3"}
MCScalars  == 1 .. 3
MCInputSets ==
  {{<<"item", t>> : t \in some} \cup {<<"other", t>> : t \in others} :
     some \in {s \in SUBSET Lexicals : Cardinality(s) <= 2}, others \in {{}, {"01"}, {"big", "2"}}}

MCFacts == {Fact("e", <<"a", "b">>), Fact("e", <<"b", "b">>), Fact("e", <<"b">>), Fact("u", <<"b">>)}
MCPlans == {<<>>, <<Fact("e", <<"x", "y">>), Fact("e", <<"y", "z">>)>>,
            <<Fact("u", <<"x">>), Fact("e", <<"x", "x">>)>>, <<Fact("e", <<"b", "x">>)>>}
MCLoads == {[full |-> {Fact("e", <<"a", "b">>), Fact("e", <<"b", "b">>)}, delta |-> {Fact("u", <<"b">>)}],
            [full |-> {Fact("e", <<"b">>)}, delta |-> {Fact("e", <<"b", "b">>), Fact("e", <<"a", "b">>)}]}

MCCompatible(sources) == sources[1] = 1

\* One library is built by two compilers, the others by one.
Single ==
  \A p \in Processes :
    library # Runtime /\ builder[p].phase = "reading" => builder[p].environment = "gcc"

VARIABLE component

\* What a component begins with while it is not looked at.
IfNot(name, state) == component = name \/ (component # name /\ state)

MCInit ==
  /\ component \in {"cache", "roads", "queries", "terms", "store", "equality", "runtime", "build"}
  /\ RuntimeInit /\ IfNot("runtime", runtime.program = Meeting)
  /\ Init
  /\ IfNot("queries", /\ program = CHOOSE p \in Programs : TRUE
                     /\ initial = [v \in {} |-> ""] /\ input = CHOOSE i \in Inputs : TRUE)
  /\ NativePlanInit
  /\ NativeQueryInit
  /\ IfNot("store", contents = CHOOSE l \in Loads : TRUE) /\ StoreInit
  /\ IfNot("equality", ruleset = Meeting /\ strategy = "naive" /\ unary = "adaptive")
  /\ EqualityInit
  /\ IfNot("build", library = Runtime /\ checkout = <<1>>) /\ BuildInit
  /\ IfNot("roads", length = [s \in Streets |-> NoEdge]) /\ SearchInit

equalityParts == <<equalityVars, runtimeVars>>
otherParts    == <<vars, searchVars, nativePlanVars>>
nativeParts   == <<nativeQueryVars, storeVars, buildVars>>
MCNext ==
  /\ UNCHANGED component
  /\ \/ component = "cache" /\ Next /\ UNCHANGED <<searchVars, nativePlanVars, nativeParts, equalityParts>>
     \/ component = "roads" /\ SearchNext /\ UNCHANGED <<vars, nativePlanVars, nativeParts, equalityParts>>
     \/ component = "queries" /\ NativePlanNext /\ UNCHANGED <<vars, searchVars, nativeParts, equalityParts>>
     \/ component = "terms" /\ NativeQueryNext /\ UNCHANGED <<otherParts, storeVars, buildVars, equalityParts>>
     \/ component = "store" /\ StoreNext /\ UNCHANGED <<otherParts, nativeQueryVars, buildVars, equalityParts>>
     \/ component = "build" /\ BuildNext /\ Single'
        /\ UNCHANGED <<otherParts, nativeQueryVars, storeVars, equalityParts>>
     \/ component = "equality" /\ EqualityNext /\ UNCHANGED <<otherParts, nativeParts, runtimeVars>>
     \/ component = "runtime" /\ RuntimeNext /\ UNCHANGED <<otherParts, nativeParts, equalityVars>>

MCSpec == MCInit /\ [][MCNext]_<<component, otherParts, nativeParts, equalityParts>>
=============================================================================
