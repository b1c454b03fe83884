------------------------------ MODULE NativePlan ------------------------------
(***************************************************************************)
(* A planned query given to the native evaluator: native_query.cpp checks  *)
(* the order of bodies and strata again, in its own way, and evaluates     *)
(* node by node, from the facts the Python evaluator starts with.  Here    *)
(* it follows the evaluation by the Python evaluator, to be compared.      *)
(* Terms are compared as values; their ids are NativeQuery's.              *)
(***************************************************************************)
EXTENDS QueryEvaluator

VARIABLE native     \* phase, candidate relations and the stratum at work

nativePlanVars == <<queryVars, native>>

NativePlanInit == QueryInit /\ native = [phase |-> "unused", candidate |-> {}, start |-> 0]

\* Scans and operations that are not pure stay with the Python evaluator.
Portable == \A n \in UNION {Range(r.body) : r \in Range(program)} :
              n.kind # "scan" /\ (n.kind = "filter" => n.name \notin Impure)

-----------------------------------------------------------------------------
(* validate_plan *)

\* Mutant: parameters count as correlated variables of a minimum.
NodeReadyUncorrelated(n, bound) ==
  IF n.kind = "min" THEN VarsOf(n.args) \cap bound \subseteq Range(n.group) ELSE TRUE

\* What a node needs of the slots that have a value.
NodeReady(n, bound) ==
  CASE n.kind = "relation" -> TRUE
    [] n.kind = "eq"  -> \E i \in {1, 2} : VarsOf(<<n.args[i]>>) \subseteq bound
    [] n.kind = "min" ->
         LET source == VarsOf(n.args) IN
         /\ {n.value} \cup Range(n.group) \subseteq source
         /\ Range(n.outs) \subseteq Variables \ source
         /\ source \cap bound \subseteq DOMAIN initial \cup Range(n.group)
    [] OTHER -> VarsOf(n.args) \subseteq bound

NodeBinds(n) ==
  CASE n.kind \in {"relation", "eq"} -> VarsOf(n.args)
    [] n.kind \in {"min", "bind"}    -> VarsOf(n.group \o n.outs)
    [] OTHER -> {}

ValidBody(r) ==
  LET bound[i \in 0..Len(r.body)] ==
        IF i = 0 THEN DOMAIN initial ELSE bound[i - 1] \cup NodeBinds(r.body[i])
  IN /\ \A i \in DOMAIN r.body : NodeReady(r.body[i], bound[i - 1])
     /\ VarsOf(r.head.args) \subseteq bound[Len(r.body)]

\* No node reads a later stratum, and a minimum, or a rule that makes values, an earlier one.
ValidLevels(r, stratum) ==
  \A n \in {m \in Range(r.body) : m.kind \in {"relation", "min"}} :
    n.name \in {s.head.pred : s \in Range(program)} =>
      IF n.kind = "min" \/ \E m \in Range(r.body) : m.kind = "bind"
      THEN Levels(program)[n.name] < stratum ELSE Levels(program)[n.name] <= stratum

Valid == \A l \in 0..(Height(program) - 1) : \A r \in Stratum(program, l) : ValidBody(r) /\ ValidLevels(r, l)

-----------------------------------------------------------------------------
(* solve *)

\* join: the rows of the smallest column bucket that match everywhere.
Joined(n, b, facts) ==
  LET rows    == {f.args : f \in {g \in facts : g.pred = n.name}}
      bound   == {i \in DOMAIN n.args : Known(b, n.args[i]) # Missing}
      buckets == {{r \in rows : r[i] = Known(b, n.args[i])} : i \in bound}
      bucket  == CHOOSE s \in buckets : \A t \in buckets : Cardinality(s) <= Cardinality(t)
  IN UNION {AssignAll(b, n.args, r) : r \in IF bound = {} THEN rows ELSE bucket}

LeastOf(rows, n) == CHOOSE v \in {c[n.value] : c \in rows} : \A c \in rows : ~Less(c[n.value], v)

NodeSolutions(n, b, facts) ==
  CASE n.kind = "relation" -> Joined(n, b, facts)
    [] n.kind = "eq"  -> IF Known(b, n.args[1]) # Missing THEN Assign(b, n.args[2], Value(b, n.args[1]))
                         ELSE Assign(b, n.args[1], Value(b, n.args[2]))
    [] n.kind = "neq" -> {c \in {b} : Differ(Value(c, n.args[1]), Value(c, n.args[2]), facts)}
    [] n.kind = "min" ->
         LET matches == Joined(n, b, facts)
             Key(c)  == [i \in DOMAIN n.group |-> c[n.group[i]]]
         IN UNION {AssignAll(b, n.group \o n.outs, k \o <<LeastOf({c \in matches : Key(c) = k}, n)>>) :
                     k \in {Key(c) : c \in matches}}
    [] OTHER -> UNION {AssignAll(b, n.outs, row) :
                         row \in Apply(n.name, [i \in DOMAIN n.args |-> Value(b, n.args[i])], "now")}

Solved(r, facts) ==
  FoldLeft(LAMBDA bs, n : UNION {NodeSolutions(n, b, facts) : b \in bs}, {initial}, r.body)

-----------------------------------------------------------------------------
(* dlp_qx_run *)

StartNative ==
  /\ verdict = "complete" /\ native.phase = "unused" /\ Portable
  /\ native' = IF Valid THEN [phase |-> "running", candidate |-> input, start |-> 0]
               ELSE [native EXCEPT !.phase = "refused"]
  /\ UNCHANGED queryVars

\* A round gathers what is new before any of it is seen.
RunRound ==
  /\ native.phase = "running"
  /\ LET pending == UNION {{[pred |-> r.head.pred, args |-> [i \in DOMAIN r.head.args |-> Value(b, r.head.args[i])]] :
                              b \in Solved(r, native.candidate)} : r \in Stratum(program, native.start)}
                    \ native.candidate
     IN native' = [native EXCEPT !.candidate = @ \cup pending,
                                 !.start = IF pending = {} THEN @ + 1 ELSE @,
                                 !.phase = IF pending = {} /\ native.start + 1 = Height(program) THEN "complete" ELSE @]
  /\ UNCHANGED queryVars

NativePlanNext == (QueryNext /\ UNCHANGED native) \/ StartNative \/ RunRound

-----------------------------------------------------------------------------
\* A plan that Python makes is never refused by the native check of it, and its
\* native evaluation, without the reordering of joins, ends with the same facts.
BackendsAgree ==
  /\ native.phase # "refused"
  /\ native.phase = "complete" => native.candidate = known
=============================================================================
