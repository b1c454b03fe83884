------------------------------- MODULE MCEngine -------------------------------
(***************************************************************************)
(* A first-order program over the individuals a and b for Engine: a        *)
(* recursive rule over a symmetric difference (an unsupported cycle when   *)
(* its only base fact goes), rules that share a head predicate, a rule     *)
(* that alone mentions a and b, a rule over the domain and a constraint.   *)
(*   reach   P(y) :- P(x), NEQ(x, y)       base  P(x) :- Q(x)              *)
(*   named   P(b) :- Q(a)                  live  L(x) :- TOP(x)            *)
(*   split   NEQ(x, b) :- Q(x)             clash :- P(x), P(y), NEQ(x, y)  *)
(* Q(b) and NEQ(b, b) are not derivable in any of these programs and are   *)
(* left out with their instances.                                          *)
(***************************************************************************)
EXTENDS EngineInvariant

TermsOf == [Ts |-> {"Ts"}, Ta |-> {"Ta"}, Tb |-> {"Tb"},
            Pa |-> {"Ta"}, Pb |-> {"Tb"}, Qa |-> {"Ta"},
            Nab |-> {"Ta", "Tb"}, Nba |-> {"Ta", "Tb"},
            Ls |-> {"Ts"}, La |-> {"Ta"}, Lb |-> {"Tb"}]

MCAtoms      == DOMAIN TermsOf
MCTops       == {"Ts", "Ta", "Tb"}
MCAssertable == {"Qa", "Pb", "Nab", "Nba"}
MCRules      == {"reach", "base", "named", "live", "split", "clash"}
MCMirror     == [a \in MCAtoms |-> CASE a = "Nab" -> "Nba" [] a = "Nba" -> "Nab" [] OTHER -> a]
MCRuleTops   == [r \in MCRules |-> CASE r = "named" -> {"Ta", "Tb"}
                                     [] r = "split" -> {"Tb"}
                                     [] OTHER -> {}]
MCPredicate  == [a \in MCAtoms |-> CASE a \in MCTops -> "TOP"
                                     [] a \in {"Pa", "Pb"} -> "P"
                                     [] a = "Qa" -> "Q"
                                     [] a \in {"Nab", "Nba"} -> "NEQ"
                                     [] OTHER -> "L"]

Instance(r, b, h) == [rule |-> r, body |-> b, head |-> h]

MCInstances ==
  {Instance("reach", {"Pa", "Nab"}, "Pb"), Instance("reach", {"Pb", "Nba"}, "Pa"),
   Instance("base", {"Qa"}, "Pa"),
   Instance("named", {"Qa"}, "Pb"),
   Instance("live", {"Ts"}, "Ls"), Instance("live", {"Ta"}, "La"), Instance("live", {"Tb"}, "Lb"),
   Instance("split", {"Qa"}, "Nab"),
   Instance("clash", {"Pa", "Pb", "Nab"}, NoHead), Instance("clash", {"Pa", "Pb", "Nba"}, NoHead)}

MCPrograms == {[asserted |-> {}, rules |-> {}], [asserted |-> MCAssertable, rules |-> MCRules]}

Request(add, remove, addRules, removeRules) ==
  [add |-> add, remove |-> remove, addRules |-> addRules, removeRules |-> removeRules]

(* One fact or rule at a time, a fact exchanged for another, and a fact     *)
(* removed together with a change of the rules.                             *)
SingleRequests ==
  {Request({a}, {}, {}, {}) : a \in MCAssertable}
    \cup {Request({}, {a}, {}, {}) : a \in MCAssertable}
    \cup {Request({}, {}, {r}, {}) : r \in MCRules}
    \cup {Request({}, {}, {}, {r}) : r \in MCRules}

MixedRequests ==
  {Request({a}, {b}, {}, {}) : a, b \in {"Qa", "Nab"}}
    \cup {Request({}, {"Qa"}, {r}, {s}) : r, s \in {"base", "named", "split"}}

MCRequests == SingleRequests \cup MixedRequests
MCUnary    == {"base", "live"}
MCNone     == {}
=============================================================================
