---------------------------- MODULE MCEngineCycles ----------------------------
(***************************************************************************)
(* Every program over a small propositional vocabulary for Engine: all     *)
(* subsets of rules that form positive cycles of length two and three,     *)
(* joint and alternative supports, a rule without a body, and a derived    *)
(* self-difference NEQ(c, c).  A rule's predicates have no arguments, so a *)
(* rule is its only instance, and the rules with a head and a body count   *)
(* as unary over one term.                                                 *)
(***************************************************************************)
EXTENDS EngineInvariant

MCAtoms      == {"Ts", "Tc", "p", "q", "s", "n"}
MCAssertable == {"p", "q", "s"}
MCTops       == {"Ts", "Tc"}
MCMirror     == [a \in MCAtoms |-> a]
MCAtomTops   == [a \in MCAtoms |-> CASE a = "Ts" -> {"Ts"} [] a \in {"Tc", "n"} -> {"Tc"}
                                     [] OTHER -> {}]
MCPredicate  == [a \in MCAtoms |-> IF a \in MCTops THEN "TOP" ELSE a]

Body == [pq |-> {"q"}, qp |-> {"p"}, qs |-> {"s"}, sp |-> {"p"}, pqs |-> {"q", "s"},
         fact |-> {}, self |-> {"p", "s"}, deny |-> {"q", "s"}]
Head == [pq |-> "p", qp |-> "q", qs |-> "q", sp |-> "s", pqs |-> "p",
         fact |-> "s", self |-> "n", deny |-> NoHead]

MCRules      == DOMAIN Body
MCRuleTops   == [r \in MCRules |-> IF r = "self" THEN {"Tc"} ELSE {}]
MCGlobal     == {"fact"}
MCUnary      == {"pq", "qp", "qs", "sp", "pqs"}
MCInstances  ==
  {[rule |-> r, body |-> Body[r], head |-> Head[r]] : r \in MCRules}
    \cup {[rule |-> "difference", body |-> {"n"}, head |-> NoHead]}

MCPrograms == {[asserted |-> A, rules |-> {}] : A \in SUBSET MCAssertable}

(* Any change of one fact together with any change of one rule.             *)
Request(add, remove, addRules, removeRules) ==
  [add |-> add, remove |-> remove, addRules |-> addRules, removeRules |-> removeRules]

AtMostOne(S) == {{}} \cup {{x} : x \in S}

MCRequests ==
  {Request({}, A, R, {}) : A \in AtMostOne(MCAssertable), R \in AtMostOne(MCRules)}
    \cup {Request(A, {}, {}, R) : A \in AtMostOne(MCAssertable), R \in AtMostOne(MCRules)}
MCNone     == {}
=============================================================================
