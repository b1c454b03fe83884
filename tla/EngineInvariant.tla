--------------------------- MODULE EngineInvariant ---------------------------
(***************************************************************************)
(* The inductive invariant behind the properties of Engine: what each      *)
(* phase of a call has established and what it still owes.                 *)
(***************************************************************************)
EXTENDS Engine

(* The rules a semi-naive round can fire are the installed ones, and a rule *)
(* with an instance that needs no stored atom is evaluated in every round.  *)
(* The two runs that expect a violation show what happens otherwise.        *)
Schedulable ==
  \/ Strategy = "naive"
  \/ /\ ~MayInterruptPrepare
     /\ \A i \in Instances : i.rule \in Rules /\ i.body = {} => i.rule \in GlobalRules

Growing == {"Domain", "Assert", "Derive", "Run"}

(* The phases a call is in, and the flags that go with them.                *)
PhaseInv ==
  /\ pc \in Growing \cup {"Overdelete"} => complete
  /\ pc = "Overdelete" => mode = "dred"
  /\ pc \in Growing \cup {"Finish"} => mode \in {"materialize", "insert", "dred"}
  /\ pc = "Derive" => mode # "materialize"
  /\ pc \in Growing \cup {"Overdelete"} => boundary \subseteq rules
  /\ pc \in {"Overdelete", "Domain", "Assert"} => added \subseteq asserted
  /\ ~MayInterruptPrepare => prepared = rules

(* Overdeletion works on the old least model.  OldAsserted are the          *)
(* assertions it was computed from.                                         *)
OldAsserted == (asserted \ added) \cup removed

(* Old facts that lost a premise already followed, or their place in the    *)
(* program, are deleted unless the new program states or proves them.       *)
OverdeleteInv ==
  pc = "Overdelete" =>
    LET protected == Protected(asserted, rules) \cup certified
        followed  == {i \in Matching(previous, facts) : i.body \cap (deleted \ delta) # {}}
    IN  /\ IsLeastModel(facts, OldAsserted, previous)
        /\ certified \subseteq Provable(asserted, rules)
        /\ delta \subseteq deleted
        /\ deleted \subseteq facts \ protected
        /\ facts \cap (removed \cup Tops) \subseteq deleted \cup protected
        /\ Heads(Matching(previous \ rules, facts)) \subseteq deleted \cup protected
        /\ Heads(followed) \subseteq deleted \cup protected
        /\ {Mirror[a] : a \in deleted} \subseteq deleted \cup protected
        /\ boundary = rules \ previous
        /\ previous \cap FunctionRules = {}

(* Everything stored while facts grow, and after a call that did not fail,  *)
(* follows from the current program.                                        *)
SoundInv ==
  pc \in Growing \cup {"Finish"} \/ (pc = "Idle" /\ ~failed)
    => Entailed(facts, asserted, rules)

(* How much of the program's assertions and domain has been ingested.       *)
IngestedInv ==
  /\ pc \in Growing => \A a \in facts : Implied(a) \subseteq facts
  /\ pc \in {"Domain", "Assert"} =>
       /\ mode # "materialize" => asserted \ added \subseteq facts
       /\ mode = "materialize" => added = asserted /\ delta = facts /\ boundary = {}
  /\ pc = "Domain" /\ mode = "insert" => Domain({}, rules \ boundary) \subseteq facts
  /\ pc = "Domain" /\ mode = "materialize" => facts = {}
  /\ pc = "Assert" => Domain({}, rules) \subseteq facts
  /\ pc \in {"Derive", "Run"} => asserted \cup Domain(asserted, rules) \subseteq facts

(* A matching instance is settled once its head is stored, or its violation *)
(* reported; DRed leaves the reports to its end.                            *)
Settled(i) == IF i.head = NoHead THEN mode = "dred" \/ i \in violations ELSE i.head \in facts

Owed == {i \in Matching(rules, facts) : ~Settled(i)}

(* Every instance that is owed will be reached: its rule is evaluated once, *)
(* or it has a premise in delta.                                            *)
OwedInv ==
  /\ delta \subseteq facts
  /\ pc \in {"Domain", "Assert", "Derive"} =>
       \A i \in Owed : \/ i.rule \in boundary
                       \/ i.body \cap delta # {}
                       \/ mode = "materialize" /\ i.body = {}
  /\ pc = "Run" =>
       \A i \in Owed : i.body \cap delta # {} \/ (i.body = {} /\ delta # {})

(* The facts are a model once a call that met no limit has finished.        *)
FinishInv ==
  pc = "Finish" /\ complete => IsModel(facts, asserted, rules) /\ Owed = {}

(* Reported violations are violations of the stored facts, and the built-in *)
(* constraint is checked after every ingestion.                             *)
ReportInv ==
  /\ pc \in Growing \cup {"Finish"} =>
       violations \subseteq Denials(Matching(rules \cup {DifferenceRule}, facts))
  /\ pc \in {"Assert", "Derive", "Run", "Finish"} => Differences(facts) \subseteq violations
  /\ pc = "Domain" /\ mode = "insert" => Differences(facts) \subseteq violations

Inductive ==
  /\ TypeOK
  /\ PhaseInv
  /\ OverdeleteInv
  /\ SoundInv
  /\ IngestedInv
  /\ OwedInv
  /\ FinishInv
  /\ ReportInv
  /\ CompleteIsLeastModel
  /\ ViolationsAreCurrent
=============================================================================
