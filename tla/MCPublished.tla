------------------------------ MODULE MCPublished ------------------------------
(***************************************************************************)
(* Four components that publish what they derive from a source that moves  *)
(* on, checked side by side: the initial state picks one, and the others   *)
(* stay where they began.                                                  *)
(*                                                                         *)
(*   reasoner  compiled answers and schema views of a graph of one fact    *)
(*   queries   an item is near if a provider says so at its revision,     *)
(*             and hot if it is near, flagged by the caller, another       *)
(*             provider says so, and an operation of the domain holds      *)
(*   views     a date in force, certified for one dataset, and a sign of it:*)
(*             the fact of the graph                                       *)
(*   map       two nodes, a way of them and a relation that may refer to   *)
(*             itself, each with two bodies                                *)
(***************************************************************************)
EXTENDS ScopedViews, QueryRuntime, MapRuntime, TLC

MCUnknown == -1
Symmetry  == Permutations(Settings)

MCPlain(v) == IF v \in {"one", "true"} THEN "1" ELSE v
MCValues   == {"one", "true", "two"}
MCSource   == {{<<"item", "one">>}, {<<"item", "true">>}, {<<"item", "two">>}}
MCSupplied == {{}, {<<"flag", "one">>}}
MCDerive(level, facts, snapshots, operations) ==
  LET Has(p) == {f[2] : f \in {g \in facts : g[1] = p}} IN
  IF level = 0 THEN {<<"near", v>> : v \in {w \in Has("item") : w # "two" \/ snapshots[1] = 1}}
  ELSE {<<"hot", v>> : v \in {w \in Has("near") :
          /\ \E u \in Has("flag") : Plain(u) = Plain(w)
          /\ snapshots[2] < 1 /\ operations = [providers |-> 0, domain |-> 0]}}

MCScopes        == {"today"}
MCAccepts(reads) == "f" \in reads[1][1].facts

\* The graph is the first one, and has not been written to.
Unmoved == graph.id + graph.revision = 0

\* Around a view the fact goes, or comes back in another graph.
Around ==
  /\ <<graph, engine, call>>' # <<graph, engine, call>>
  /\ UNCHANGED <<settings, direct>> /\ ~engine'.violated
  /\ "r" \notin graph'.triples
  /\ call'.kind = "update" => "r" \notin call'.candidate
  /\ call'.kind = "write" => "r" \notin call'.triples
  /\ Idle /\ (~Idle' \/ graph'.id > graph.id) => Unmoved
  /\ ~graph.owned => Idle'

\* A view is given up once its source has moved.  Birth dates and locations are selected
\* in different behaviours, and one family is certified.
Selections ==
  /\ UNCHANGED viewVars => Around
  /\ working # NoTask /\ working' = NoTask /\ UNCHANGED <<returned, issued, pointIndex>> =>
       working.token # Token
  /\ Cardinality(issued') <= 1
  /\ issued' # issued => Unmoved \/ \A c \in issued' : c.trusted
  /\ working'.purpose \in {"locations", "index", "points"} => issued' = {} /\ selected'.reads = <<>>
  /\ working'.purpose \in {"evidence", "prepare"} => pointIndex'.reads = <<>>

MCKeys == {"n1", "n2", "w", "r"}
MCKindOf == [k \in MCKeys |-> CASE k = "w" -> "way" [] k = "r" -> "relation" [] OTHER -> "node"]
Body(place, refs, tagged) == [place |-> place, refs |-> refs, tagged |-> tagged]
MCBodiesOf ==
  [k \in MCKeys |->
     CASE k = "w" -> {Body(0, <<"n1", "n2">>, TRUE), Body(0, <<"n1", "n1">>, FALSE)}
       [] k = "r" -> {Body(0, <<"w">>, TRUE), Body(0, <<"r", "n1">>, FALSE)}
       [] OTHER   -> {Body(p, <<>>, FALSE) : p \in {1, 2}}]
MCSizeOf == [b \in UNION {MCBodiesOf[k] : k \in MCKeys} |-> 1 + Len(b.refs)]

\* The order in which an initial snapshot is read
Ordered ==
  LET Before(k) == CASE k = "n1" -> {} [] k = "w" -> {"n1"} [] OTHER -> {"n1", "w"} IN
  transaction.phase = "reading" /\ transaction.operation = "load" =>
    /\ "n2" \notin transaction.changed
    /\ \A k \in transaction.changed :
         Before(k) \subseteq transaction.changed /\ transaction.map.elements[k].body.place < 2

\* The first provider is named by the rules of a lower stratum than the second.
InRuleOrder ==
  evaluation.phase = "pin" /\ evaluation.snapshots[1] = -1 => evaluation.snapshots[2] = -1

VARIABLE component

\* What a component begins with while it is not looked at.
IfNot(name, state) == component = name \/ (component # name /\ state)

MCInit ==
  /\ component \in {"reasoner", "views", "queries", "map"}
  /\ RuntimeInit /\ source.facts = {<<"item", "true">>} /\ IfNot("queries", backend = "python")
  /\ MapInit /\ ViewsInit
  /\ graph = [id |-> 0, triples |-> {"f"}, revision |-> 0, owned |-> TRUE]
  /\ Init

MCNext ==
  /\ UNCHANGED component
  /\ \/ component = "reasoner" /\ Next /\ UNCHANGED <<viewVars, runtimeVars, mapVars>>
     \/ component = "views" /\ ViewsNext /\ Selections /\ UNCHANGED <<runtimeVars, mapVars>>
     \/ component = "queries" /\ RuntimeNext /\ InRuleOrder' /\ UNCHANGED <<vars, viewVars, mapVars>>
     \/ component = "map" /\ MapNext /\ Ordered' /\ UNCHANGED <<vars, viewVars, runtimeVars>>

MCSpec == MCInit /\ [][MCNext]_<<component, vars, viewVars, runtimeVars, mapVars>>
=============================================================================
