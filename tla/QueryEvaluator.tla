---------------------------- MODULE QueryEvaluator ----------------------------
(***************************************************************************)
(* A query program planned (query_ir.py) and then evaluated from given     *)
(* facts and parameters (the loop over strata of QueryRuntime.evaluate),   *)
(* one round of a stratum at a time, with nothing in its way.              *)
(***************************************************************************)
EXTENDS QueryRules

CONSTANTS
  Programs,        \* sequences of rules
  Inputs,          \* sets of facts
  Initials,        \* bindings of the parameters
  Universe,        \* the values there are
  Lookahead        \* whether joins may prefer the second smallest atom

VARIABLES program, input, initial, verdict, level, known

queryVars == <<program, input, initial, verdict, level, known>>

QueryInit ==
  /\ program \in Programs /\ input \in Inputs /\ initial \in Initials
  /\ verdict = "unplanned" /\ level = 0 /\ known = {}

\* plan(), and the check that every declared parameter has a value.
PlanQuery ==
  /\ verdict = "unplanned"
  /\ LET accepted == Plannable(program) /\ \A r \in Range(program) : r.given \subseteq DOMAIN initial
     IN /\ verdict' = IF accepted THEN "running" ELSE "rejected"
        /\ known' = IF accepted THEN input ELSE {}
  /\ UNCHANGED <<program, input, initial, level>>

EvaluateRound ==
  /\ verdict = "running" /\ level < Height(program)
  /\ LET pending == Heads(Stratum(program, level), initial, known, "now", Lookahead) \ known
     IN /\ known' = known \cup pending
        /\ level' = IF pending = {} THEN level + 1 ELSE level
  /\ UNCHANGED <<program, input, initial, verdict>>

EndQuery ==
  /\ verdict = "running" /\ level = Height(program)
  /\ verdict' = "complete"
  /\ UNCHANGED <<program, input, initial, level, known>>

QueryNext == PlanQuery \/ EvaluateRound \/ EndQuery

-----------------------------------------------------------------------------
\* What is complete is the perfect model.
AnswersArePerfect ==
  verdict = "complete" => Perfect(program, initial, input, known, "now", Universe)

\* Some order of the body in which every node finds its inputs bound.
CanSchedule(rule) ==
  \E p \in Permutations(DOMAIN rule.body) :
    LET bound[i \in 0..Len(rule.body)] ==
          IF i = 0 THEN rule.given ELSE bound[i - 1] \cup Binds(rule.body[p[i]])
    IN /\ \A i \in DOMAIN rule.body : Ready(rule.body[p[i]], bound[i - 1], rule.given)
       /\ VarsOf(rule.head.args) \subseteq bound[Len(rule.body)]

\* What is refused cannot be evaluated, and nothing else is accepted.
RejectsOnlyUnsound ==
  /\ verdict \in {"running", "complete"} =>
       WellFounded(program) /\ \A r \in Range(program) : CanSchedule(r)
  /\ verdict = "rejected" =>
       \/ ~WellFounded(program) \/ ~SameGiven(program)
       \/ \E r \in Range(program) :
            \/ ~CanSchedule(r) \/ ~Inherits(r, program) \/ ~(r.given \subseteq DOMAIN initial)
            \/ ~Schedules(r) /\ \E n \in Range(r.body) : n.kind = "min"

\* Planning, stratification, join order and rounds together give what the program means
\* when its bodies have no order: the perfect model.  A program is refused only if it
\* cannot be evaluated: a body without aggregates has no order at all, parameters do not
\* fit, or something is defined through itself across a boundary; and no such program is
\* accepted.
PlansAreSound == AnswersArePerfect /\ RejectsOnlyUnsound
=============================================================================
