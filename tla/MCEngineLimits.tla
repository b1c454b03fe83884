---------------------------- MODULE MCEngineLimits ----------------------------
(***************************************************************************)
(* Programs that meet every limit of Engine: a chain p, c, d, e longer     *)
(* than max_rounds, more facts than max_facts, and a rule with a function  *)
(* term whose witnesses nest without bound.                                *)
(*   c :- p   c :- q   d :- c   e :- d   :- d, P(a)                        *)
(*   Q(f(x)) :- P(x)   P(x) :- Q(x)                                        *)
(* max_depth is 1: f(f(a)) is too deep.                                    *)
(***************************************************************************)
EXTENDS EngineInvariant

TermsOf == [Ts |-> {"Ts"}, Ta |-> {"Ta"}, Tf |-> {"Tf", "Ta"}, Tff |-> {"Tff", "Tf", "Ta"},
            p |-> {}, q |-> {}, c |-> {}, d |-> {}, e |-> {},
            Pa |-> {"Ta"}, Qf |-> {"Tf", "Ta"}, Pf |-> {"Tf", "Ta"},
            Qff |-> {"Tff", "Tf", "Ta"}]

MCAtoms         == DOMAIN TermsOf
MCTops          == {"Ts", "Ta", "Tf", "Tff"}
MCAssertable    == {"p", "q", "Pa"}
MCRules         == {"cp", "cq", "dc", "ed", "deny", "witness", "back"}
MCMirror        == [a \in MCAtoms |-> a]
MCRuleTops      == [r \in MCRules |-> IF r = "deny" THEN {"Ta"} ELSE {}]
MCPredicate     == [a \in MCAtoms |-> CASE a \in MCTops -> "TOP"
                                        [] a \in {"Pa", "Pf"} -> "P"
                                        [] a \in {"Qf", "Qff"} -> "Q"
                                        [] OTHER -> a]
MCDeep          == {"Tff", "Qff"}
MCFunctionAtoms == {"Tf", "Tff", "Qf", "Pf", "Qff"}
MCFunctionRules == {"witness"}

Instance(r, b, h) == [rule |-> r, body |-> b, head |-> h]

MCInstances ==
  {Instance("cp", {"p"}, "c"), Instance("cq", {"q"}, "c"), Instance("dc", {"c"}, "d"),
   Instance("ed", {"d"}, "e"), Instance("deny", {"d", "Pa"}, NoHead),
   Instance("witness", {"Pa"}, "Qf"), Instance("witness", {"Pf"}, "Qff"),
   Instance("back", {"Qf"}, "Pf")}

MCPrograms == {[asserted |-> {"p"}, rules |-> {"cp"}],
               [asserted |-> MCAssertable, rules |-> MCRules]}

Request(add, remove, addRules, removeRules) ==
  [add |-> add, remove |-> remove, addRules |-> addRules, removeRules |-> removeRules]

MCChanged == {"cp", "dc", "deny", "witness"}

MCRequests ==
  {Request({a}, {}, {}, {}) : a \in MCAssertable}
    \cup {Request({}, {a}, {}, {}) : a \in MCAssertable}
    \cup {Request({}, {}, {r}, {}) : r \in MCChanged}
    \cup {Request({}, {}, {}, {r}) : r \in MCChanged}
    \cup {Request({"q"}, {"p"}, {}, {})}
MCNone == {}
=============================================================================
