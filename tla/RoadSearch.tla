------------------------------ MODULE RoadSearch ------------------------------
(***************************************************************************)
(* DirectedRoadProvider._distance (providers.py): the shortest supplied    *)
(* length between two nodes of a directed graph.  A node may wait in the   *)
(* heap several times; an entry that a shorter one has overtaken is passed *)
(* over.                                                                   *)
(***************************************************************************)
EXTENDS Integers, FiniteSetsExt

CONSTANTS
  Nodes, Start, End,
  Streets,    \* the pairs of nodes that an edge may join
  Lengths,    \* of edges
  NoEdge,     \* no length
  Overflow    \* sums from here on are not finite

ASSUME LengthsAssumption ==
  /\ IsFiniteSet(Nodes)
  /\ Lengths \subseteq Nat /\ Overflow \in Nat /\ NoEdge \in Int \ Nat
  /\ {Start, End} \subseteq Nodes /\ Streets \subseteq Nodes \X Nodes

VARIABLES
  length,     \* the graph
  pending,    \* the heap: cost, sequence number, node
  best, sequence,
  node, cost, \* what was popped, with out the edges still to look at
  out,
  result

searchVars == <<length, pending, best, sequence, node, cost, out, result>>

Length(m, n) == IF <<m, n>> \in Streets THEN length[<<m, n>>] ELSE NoEdge

Searching == [status |-> "searching"]
Ok(n)     == [status |-> "ok", value |-> n]
NoRoute   == [status |-> "no_route"]
Domain    == [status |-> "domain_error"]

SearchInit ==
  /\ length \in [Streets -> Lengths \cup {NoEdge}]
  /\ pending = {<<0, 0, Start>>} /\ sequence = 0
  /\ best = [n \in {Start} |-> 0]
  /\ node = Start /\ cost = 0 /\ out = {}
  /\ result = Searching

(* The order of the heap.                                                   *)
Before(p, q) == p[1] < q[1] \/ (p[1] = q[1] /\ p[2] < q[2])

Top == CHOOSE p \in pending : \A q \in pending \ {p} : Before(p, q)

(* The next entry: passed over, the end, or a node whose edges are next.    *)
Pop ==
  /\ result = Searching /\ out = {} /\ pending # {}
  /\ pending' = pending \ {Top}
  /\ cost' = Top[1] /\ node' = Top[3]
  /\ \/ Top[1] # best[Top[3]] /\ UNCHANGED <<out, result>>
     \/ Top[1] = best[Top[3]] /\ Top[3] = End /\ result' = Ok(Top[1]) /\ UNCHANGED out
     \/ /\ Top[1] = best[Top[3]] /\ Top[3] # End
        /\ out' = {n \in Nodes : Length(Top[3], n) # NoEdge}
        /\ UNCHANGED result
  /\ UNCHANGED <<length, best, sequence>>

Improves(n, candidate) == n \in DOMAIN best => candidate < best[n]

(* Mutant: a node that was reached keeps the first length found.            *)
EnteredFirst(n, candidate) ==
  /\ best' = [m \in DOMAIN best \cup {n} |-> IF m \in DOMAIN best THEN best[m] ELSE candidate]
  /\ sequence' = sequence + 1
  /\ pending' = pending \cup {<<candidate, sequence + 1, n>>}

Entered(n, candidate) ==
  /\ best' = [m \in DOMAIN best \cup {n} |-> IF m = n THEN candidate ELSE best[m]]
  /\ sequence' = sequence + 1
  /\ pending' = pending \cup {<<candidate, sequence + 1, n>>}

(* One edge of the popped node, in whatever order they were supplied.       *)
Relax(n) ==
  LET candidate == cost + Length(node, n) IN
  /\ result = Searching /\ n \in out
  /\ out' = out \ {n}
  /\ IF candidate >= Overflow
     THEN result' = Domain /\ UNCHANGED <<pending, best, sequence>>
     ELSE /\ UNCHANGED result
          /\ IF Improves(n, candidate) THEN Entered(n, candidate)
             ELSE UNCHANGED <<pending, best, sequence>>
  /\ UNCHANGED <<length, node, cost>>

Exhausted ==
  /\ result = Searching /\ out = {} /\ pending = {}
  /\ result' = NoRoute
  /\ UNCHANGED <<length, pending, best, sequence, node, cost, out>>

SearchNext == Pop \/ (\E n \in Nodes : Relax(n)) \/ Exhausted

SearchSpec == SearchInit /\ [][SearchNext]_searchVars

-----------------------------------------------------------------------------
(* What is searched for, by the number of edges on the way                  *)

Plus(a, b) == IF a = NoEdge \/ b = NoEdge THEN NoEdge ELSE a + b

Least(S) == IF S \ {NoEdge} = {} THEN NoEdge ELSE Min(S \ {NoEdge})

(* The least length of a way of at most k edges to each node.               *)
Within ==
  LET f[k \in 0 .. Cardinality(Nodes) - 1] ==
        IF k = 0 THEN [n \in Nodes |-> IF n = Start THEN 0 ELSE NoEdge]
        ELSE [n \in Nodes |-> Least({f[k - 1][n]} \cup
                {Plus(f[k - 1][m], Length(m, n)) : m \in Nodes \ {n}})]
  IN  f

Distance == Within[Cardinality(Nodes) - 1][End]

(* A length that is found is the least one, there is no route when there is *)
(* none, and sums that overflow are reported only where one does.           *)
ShortestFound ==
  /\ result.status = "ok" => result.value = Distance
  /\ result = NoRoute => Distance = NoEdge
  /\ result = Domain => \E m, n \in Nodes : m \in DOMAIN best /\ best[m] + Length(m, n) >= Overflow

=============================================================================
