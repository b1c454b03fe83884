-------------------------------- MODULE Engine --------------------------------
(***************************************************************************)
(* Engine (engine.py): bounded semi-naive materialization of a positive    *)
(* Horn program and its incremental maintenance under transactions that    *)
(* change facts and rules together.                                        *)
(*                                                                         *)
(* One call of the program is a sequence of steps, one per ingestion or    *)
(* round, so that a resource limit or an exception can end it anywhere.    *)
(* The three update paths share their steps, as they share methods:        *)
(*   materialize:            Domain -> Assert -> Run -> Finish             *)
(*   incremental insertion:  Domain -> Assert -> Derive -> Run -> Finish   *)
(*   DRed:     Overdelete -> Domain -> Assert -> Derive -> Run -> Finish   *)
(*                                                                         *)
(* The index is a copy of facts and the set of registered terms is read    *)
(* off the stored TOP atoms; neither is a variable of its own.             *)
(***************************************************************************)
EXTENDS HornProgram, Naturals, FiniteSets

CONSTANTS
  Strategy,             \* "semi-naive" or "naive"
  MaxFacts,             \* max_facts
  MaxRounds,            \* max_rounds
  InitialPrograms,      \* the programs an engine is created with
  Requests,             \* the transactions callers submit
  MayFail,              \* whether an exception can end a call
  MayInterruptPrepare   \* whether one can arrive before the new rules are prepared

ASSUME LimitsAssumption ==
  /\ Strategy \in {"semi-naive", "naive"}
  /\ MaxFacts \in Nat \ {0}
  /\ MaxRounds \in Nat \ {0}
  /\ MayFail \in BOOLEAN
  /\ MayInterruptPrepare \in BOOLEAN

ASSUME InputsAssumption ==
  /\ InitialPrograms \subseteq [asserted : SUBSET Assertable, rules : SUBSET Rules]
  /\ Requests \subseteq [add : SUBSET Assertable, remove : SUBSET Assertable,
                         addRules : SUBSET Rules, removeRules : SUBSET Rules]

VARIABLES
  asserted,    \* the current assertions
  rules,       \* the current rules
  prepared,    \* the rules the dependency table was built for
  facts,       \* the stored facts
  complete,    \* the facts are the whole materialization
  violations,  \* the constraint instances reported
  failed,      \* the last call ended in an exception
  pc,          \* where the running call is
  mode,        \* the update method it uses
  rounds,      \* the rounds it has spent
  delta,       \* the facts whose consequences are still to be followed
  deleted,     \* DRed: the facts to withdraw
  certified,   \* DRed: the facts kept because a proof of them was found
  added,       \* the assertions to ingest
  removed,     \* DRed: the assertions withdrawn
  previous,    \* DRed: the rules the facts were derived with
  boundary     \* the rules to evaluate once against all facts

program == <<asserted, rules, prepared>>
locals  == <<mode, certified, added, removed, previous, boundary>>
vars    == <<asserted, rules, prepared, facts, complete, violations, failed, pc,
             mode, rounds, delta, deleted, certified, added, removed, previous, boundary>>

Phases == {"Idle", "Overdelete", "Domain", "Assert", "Derive", "Run", "Finish"}
Modes  == {"none", "materialize", "insert", "dred"}

TypeOK ==
  /\ asserted \in SUBSET Assertable
  /\ rules \in SUBSET Rules
  /\ prepared \in SUBSET Rules
  /\ facts \in SUBSET Atoms
  /\ complete \in BOOLEAN
  /\ violations \in SUBSET Instances
  /\ failed \in BOOLEAN
  /\ pc \in Phases
  /\ mode \in Modes
  /\ rounds \in 0 .. MaxRounds
  /\ delta \in SUBSET Atoms
  /\ deleted \in SUBSET Atoms
  /\ certified \in SUBSET Atoms
  /\ added \in SUBSET Assertable
  /\ removed \in SUBSET Assertable
  /\ previous \in SUBSET Rules
  /\ boundary \in SUBSET Rules

Init ==
  /\ \E p \in InitialPrograms : asserted = p.asserted /\ rules = p.rules
  /\ prepared = rules
  /\ facts = {} /\ complete = FALSE /\ violations = {} /\ failed = FALSE
  /\ pc = "Idle" /\ mode = "none" /\ rounds = 0
  /\ delta = {} /\ deleted = {} /\ certified = {} /\ added = {} /\ removed = {}
  /\ previous = {} /\ boundary = {}

-----------------------------------------------------------------------------
(* Storing facts                                                            *)

(* What is stored after all of A has been ingested.                         *)
Ingested(A) == facts \cup ImpliedBy(A)

(* Neither max_facts nor max_depth is met on the way.                       *)
Fits(A) ==
  /\ Cardinality(Ingested(A)) <= MaxFacts
  /\ Ingested(A) \cap DeepAtoms = {}

(* _ingest and _store: everything, or up to the limit that is met first, in *)
(* whatever order the set is iterated.  A limit clears complete.            *)
Ingest(A) ==
  /\ complete' = Fits(A)
  /\ facts' \in IF Fits(A) THEN {Ingested(A)}
                ELSE {F \in SUBSET (Ingested(A) \ DeepAtoms) :
                        /\ facts \subseteq F
                        /\ Cardinality(F) <= MaxFacts
                        /\ Ingested(A) \cap DeepAtoms = {} => Cardinality(F) = MaxFacts}

(* _check_differences, which ends every ingestion.                          *)
Differences(F) == Matching({DifferenceRule}, F)

(* Evaluation of some instances: their heads are ingested and the           *)
(* constraints among them reported, not all of them when the batch of heads *)
(* exceeds max_facts and evaluation breaks off.                             *)
Fire(I) ==
  /\ Ingest(Heads(I))
  /\ \E reported \in SUBSET Denials(I) :
       /\ complete' => reported = Denials(I)
       /\ violations' = violations \cup reported \cup Differences(facts')

-----------------------------------------------------------------------------
(* Starting a call                                                          *)

NextAsserted(q) == (asserted \ q.remove) \cup q.add
NextRules(q)    == (rules \ q.removeRules) \cup q.addRules

Added(q)         == NextAsserted(q) \ asserted
Removed(q)       == asserted \ NextAsserted(q)
InsertedRules(q) == NextRules(q) \ rules
DeletedRules(q)  == rules \ NextRules(q)

Retracting(q) == Removed(q) # {} \/ DeletedRules(q) # {}

(* _can_dred of the old and of the new program, without equality.           *)
CanDred(q) ==
  /\ (asserted \cup NextAsserted(q)) \cap FunctionAtoms = {}
  /\ (rules \cup NextRules(q)) \cap FunctionRules = {}

(* _prepare_rules is skipped when validation was reused and no rule changed.*)
Prepares(q) == q.remove # {} \/ q.removeRules # {} \/ InsertedRules(q) # {}

(* The facts independent of the old derivations: current assertions, with   *)
(* the mirrored differences, and the current domain.                        *)
Protected(A, R) == A \cup {Mirror[a] : a \in A} \cup Domain(A, R)

(* Mutant: the old facts serve as premises of a proof.                      *)
ProvableFromFacts(A, R) == Heads(Matching(R \cap UnaryRules, facts))

(* UnarySupport: conclusions that the unary rules draw from the assertions  *)
(* and the domain alone, an old fact being no premise of them.              *)
Provable(A, R) ==
  LET base  == A \cup Domain(A, R)
      heads == Heads({i \in Instances : i.rule \in R \cap UnaryRules})
  IN  {a \in heads : \A S \in SUBSET heads :
         Heads(Matching(R \cap UnaryRules, base \cup S)) \subseteq base \cup S => a \in base \cup S}

(* The facts of L for which proofs are found within the budgets of the      *)
(* search: none when it is switched off.                                    *)
Certified(L, A, R) == SUBSET (L \cap Provable(A, R))

(* Mutant: the conclusions of removed rules are not seeded.                 *)
SeedsOfAssertionsOnly(q) ==
  LET lost == Removed(q)
  IN  (facts \cap (lost \cup {Mirror[a] : a \in lost} \cup Tops))
        \ Protected(NextAsserted(q), NextRules(q))

(* Mutant: what is still asserted is not taken out of the seeds.            *)
SeedsUnprotected(q) ==
  LET lost == Removed(q) \cup Heads(Matching(DeletedRules(q), facts))
  IN  facts \cap (lost \cup {Mirror[a] : a \in lost} \cup Tops)

(* The first facts to withdraw: removed assertions, conclusions of removed  *)
(* rules, and TOP of the constants that left the program.                   *)
Seeds(q) ==
  LET lost == Removed(q) \cup Heads(Matching(DeletedRules(q), facts))
  IN  (facts \cap (lost \cup {Mirror[a] : a \in lost} \cup Tops))
        \ Protected(NextAsserted(q), NextRules(q))

(* materialize(): start over from the assertions A.                         *)
BeginMaterialize(A) ==
  /\ facts' = {} /\ complete' = TRUE /\ violations' = {} /\ failed' = FALSE
  /\ pc' = "Domain" /\ mode' = "materialize" /\ rounds' = 0
  /\ delta' = {} /\ deleted' = {} /\ certified' = {}
  /\ added' = A /\ removed' = {} /\ previous' = {} /\ boundary' = {}

(* Mutant: inserted rules are not evaluated against the old facts.          *)
BeginInsertWithoutRules(q) ==
  /\ pc' = "Domain" /\ mode' = "insert" /\ rounds' = 0 /\ failed' = FALSE
  /\ delta' = {} /\ deleted' = {} /\ certified' = {}
  /\ added' = Added(q) /\ removed' = {} /\ previous' = {} /\ boundary' = {}
  /\ UNCHANGED <<facts, complete, violations>>

BeginInsert(q) ==
  /\ pc' = "Domain" /\ mode' = "insert" /\ rounds' = 0 /\ failed' = FALSE
  /\ delta' = {} /\ deleted' = {} /\ certified' = {}
  /\ added' = Added(q) /\ removed' = {} /\ previous' = {} /\ boundary' = InsertedRules(q)
  /\ UNCHANGED <<facts, complete, violations>>

BeginDred(q) ==
  /\ pc' = "Overdelete" /\ mode' = "dred" /\ rounds' = 0 /\ failed' = FALSE
  /\ certified' \in Certified(Seeds(q), NextAsserted(q), NextRules(q))
  /\ delta' = Seeds(q) \ certified' /\ deleted' = Seeds(q) \ certified'
  /\ added' = Added(q) /\ removed' = Removed(q)
  /\ previous' = rules /\ boundary' = InsertedRules(q)
  /\ UNCHANGED <<facts, complete, violations>>

Materialize ==
  /\ pc = "Idle"
  /\ BeginMaterialize(asserted)
  /\ UNCHANGED program

(* update(): a validated transaction.  Between calls, complete implies that *)
(* the engine has been materialized.                                        *)
Update(q) ==
  /\ pc = "Idle"
  /\ asserted' = NextAsserted(q)
  /\ rules' = NextRules(q)
  /\ prepared' = IF Prepares(q) THEN NextRules(q) ELSE prepared
  /\ \/ /\ ~complete \/ (Retracting(q) /\ ~CanDred(q))
        /\ BeginMaterialize(NextAsserted(q))
     \/ /\ complete /\ Retracting(q) /\ CanDred(q)
        /\ BeginDred(q)
     \/ /\ complete /\ ~Retracting(q)
        /\ BeginInsert(q)

(* An exception after the new rules are installed and before their          *)
(* dependency table is.  (When the request also removes rules, the          *)
(* positions in the old table shift as well; that case is left out.)        *)
InterruptPrepare(q) ==
  /\ MayInterruptPrepare
  /\ pc = "Idle" /\ Prepares(q) /\ q.removeRules = {}
  /\ asserted' = NextAsserted(q)
  /\ rules' = NextRules(q)
  /\ complete' = FALSE /\ failed' = TRUE
  /\ UNCHANGED <<prepared, facts, violations, pc, rounds, delta, deleted, locals>>

-----------------------------------------------------------------------------
(* Overdeletion (_dred): under the old rules, over the old facts            *)

(* Mutant: a proof is lost only when all of its premises are.               *)
LosingJointly(S) ==
  LET fired == {i \in Matching(previous, facts) : i.body # {} /\ i.body \subseteq delta}
      lost  == (facts \cap Heads(fired)) \ S
  IN  lost \cup ({Mirror[a] : a \in lost} \ S)

(* Facts outside S that lose a proof when those of delta do.                *)
Losing(S) ==
  LET fired == {i \in Matching(previous, facts) : i.body \cap delta # {}}
      lost  == (facts \cap Heads(fired)) \ S
  IN  lost \cup ({Mirror[a] : a \in lost} \ S)

OverdeleteRound ==
  /\ pc = "Overdelete" /\ delta # {} /\ rounds < MaxRounds
  /\ rounds' = rounds + 1
  /\ \E lost \in {Losing(Protected(asserted, rules) \cup certified \cup deleted)} :
       \E found \in Certified(lost, asserted, rules) :
         /\ certified' = certified \cup found
         /\ delta' = lost \ found
  /\ deleted' = deleted \cup delta'
  /\ UNCHANGED <<program, facts, complete, violations, failed, pc,
                 mode, added, removed, previous, boundary>>

(* Mutant: an interrupted overdeletion keeps the old facts as partial ones. *)
OverdeleteLimitKeepingFacts ==
  /\ pc = "Overdelete" /\ delta # {} /\ rounds >= MaxRounds
  /\ complete' = FALSE
  /\ pc' = "Finish"
  /\ UNCHANGED <<program, facts, violations, failed, rounds, delta, deleted, locals>>

(* Interrupted, the old facts may hold unsupported ones: start over.        *)
OverdeleteLimit ==
  /\ pc = "Overdelete" /\ delta # {} /\ rounds >= MaxRounds
  /\ BeginMaterialize(asserted)
  /\ UNCHANGED program

(* The deleted facts leave the store; the rules that may restore them are   *)
(* those that define one of their predicates.                               *)
Defines(r, D) ==
  \E i \in Instances : /\ i.rule = r /\ i.head # NoHead
                       /\ \E d \in D : Predicate[i.head] = Predicate[d]

(* Mutant: the violations reported by the old program are kept.             *)
WithdrawKeepingViolations ==
  /\ pc = "Overdelete" /\ delta = {}
  /\ facts' = facts \ deleted
  /\ boundary' = boundary \cup {r \in rules : Defines(r, deleted)}
  /\ pc' = "Domain"
  /\ deleted' = {} /\ certified' = {} /\ removed' = {} /\ previous' = {}
  /\ UNCHANGED <<program, complete, violations, failed, mode, rounds, delta, added>>

Withdraw ==
  /\ pc = "Overdelete" /\ delta = {}
  /\ facts' = facts \ deleted
  /\ violations' = {}
  /\ boundary' = boundary \cup {r \in rules : Defines(r, deleted)}
  /\ pc' = "Domain"
  /\ deleted' = {} /\ certified' = {} /\ removed' = {} /\ previous' = {}
  /\ UNCHANGED <<program, complete, failed, mode, rounds, delta, added>>

-----------------------------------------------------------------------------
(* Ingestion of the domain and of the assertions                            *)

(* Mutant: an insertion forgets the constants of the new rules.             *)
DomainsOfRetractions == IF mode = "insert" THEN {{}} ELSE {Domain(asserted, rules)}

(* An insertion ingests the constants of the new rules, or the whole domain *)
(* when the old program could not be reused as validated; without new rules *)
(* neither.                                                                 *)
DomainsToIngest ==
  IF mode = "insert"
  THEN {UNION {RuleTops[r] : r \in boundary}}
         \cup {Domain(asserted, rules) : r \in boundary}
  ELSE {Domain(asserted, rules)}

IngestDomain ==
  /\ pc = "Domain"
  /\ \E D \in DomainsToIngest : Ingest(D)
  /\ violations' = violations \cup Differences(facts')
  /\ delta' = delta \cup (facts' \ facts)
  /\ pc' = IF complete' THEN "Assert" ELSE "Finish"
  /\ UNCHANGED <<program, failed, rounds, deleted, locals>>

IngestAssertions ==
  /\ pc = "Assert"
  /\ Ingest(added)
  /\ violations' = violations \cup Differences(facts')
  /\ delta' = delta \cup (facts' \ facts)
  /\ pc' = IF ~complete' THEN "Finish" ELSE IF mode = "materialize" THEN "Run" ELSE "Derive"
  /\ UNCHANGED <<program, failed, rounds, deleted, locals>>

-----------------------------------------------------------------------------
(* Evaluation                                                               *)

(* _derive_once: the boundary rules against all facts.                      *)
DeriveOnce ==
  /\ pc = "Derive"
  /\ Fire(Matching(boundary, facts))
  /\ delta' = delta \cup (facts' \ facts)
  /\ pc' = IF complete' THEN "Run" ELSE "Finish"
  /\ UNCHANGED <<program, failed, rounds, deleted, locals>>

(* One round of _run.  Naive evaluation tries every rule; semi-naive        *)
(* evaluation asks for an atom of delta in the body, through the dependency *)
(* table, and always tries the rules without relational body atoms.         *)
Scheduled ==
  IF Strategy = "naive" THEN Matching(rules, facts)
  ELSE {i \in Matching(rules \cap prepared, facts) :
          i.body \cap delta # {} \/ i.rule \in GlobalRules}

(* Mutant: heads that are already stored are followed again.                *)
RunRoundAgain ==
  /\ pc = "Run" /\ delta # {} /\ rounds < MaxRounds
  /\ rounds' = rounds + 1
  /\ Fire(Scheduled)
  /\ delta' = facts' \cap ImpliedBy(Heads(Scheduled))
  /\ pc' = IF complete' THEN "Run" ELSE "Finish"
  /\ UNCHANGED <<program, failed, deleted, locals>>

RunRound ==
  /\ pc = "Run" /\ delta # {} /\ rounds < MaxRounds
  /\ rounds' = rounds + 1
  /\ Fire(Scheduled)
  /\ delta' = facts' \ facts
  /\ pc' = IF complete' THEN "Run" ELSE "Finish"
  /\ UNCHANGED <<program, failed, deleted, locals>>

RunLimit ==
  /\ pc = "Run" /\ delta # {} /\ rounds >= MaxRounds
  /\ complete' = FALSE
  /\ pc' = "Finish"
  /\ UNCHANGED <<program, facts, violations, failed, rounds, delta, deleted, locals>>

FixedPoint ==
  /\ pc = "Run" /\ delta = {}
  /\ pc' = "Finish"
  /\ UNCHANGED <<program, facts, complete, violations, failed, rounds, delta, deleted, locals>>

-----------------------------------------------------------------------------
(* Ending a call                                                            *)

Return ==
  /\ pc' = "Idle" /\ mode' = "none" /\ rounds' = 0
  /\ delta' = {} /\ deleted' = {} /\ certified' = {} /\ added' = {} /\ removed' = {}
  /\ previous' = {} /\ boundary' = {}

(* DRed reports the constraints afresh, over all facts.                     *)
Finish ==
  /\ pc = "Finish"
  /\ violations' = IF mode = "dred" /\ complete
                   THEN violations \cup Differences(facts) \cup Denials(Matching(rules, facts))
                   ELSE violations
  /\ Return
  /\ UNCHANGED <<program, facts, complete, failed>>

(* _incomplete_on_failure: an exception ends the call where it stands.      *)
Fail ==
  /\ MayFail
  /\ pc # "Idle"
  /\ complete' = FALSE /\ failed' = TRUE
  /\ Return
  /\ UNCHANGED <<program, facts, violations>>

Step ==
  \/ OverdeleteRound \/ OverdeleteLimit \/ Withdraw
  \/ IngestDomain \/ IngestAssertions \/ DeriveOnce
  \/ RunRound \/ RunLimit \/ FixedPoint \/ Finish

Next ==
  \/ Materialize
  \/ \E q \in Requests : Update(q)
  \/ \E q \in Requests : InterruptPrepare(q)
  \/ Step
  \/ Fail

(* A call runs to its end: it is synchronous and waits for nobody.          *)
Spec == Init /\ [][Next]_vars /\ WF_vars(Step)

-----------------------------------------------------------------------------
(* Properties                                                               *)

(* Between calls, facts advertised as complete are the materialization of   *)
(* the current program: DRed withdrew every fact that lost its last proof   *)
(* and restored every fact that has another, and semi-naive evaluation      *)
(* missed no conclusion.                                                    *)
CompleteIsLeastModel ==
  (pc = "Idle" /\ complete) => IsLeastModel(facts, asserted, rules)

(* Facts left behind by a resource limit still all follow from the current  *)
(* program: a bounded answer is partial, never wrong.                       *)
PartialIsEntailed ==
  (pc = "Idle" /\ ~failed) => Entailed(facts, asserted, rules)

(* Between calls, complete facts report exactly the constraints they        *)
(* violate: a retraction leaves no stale inconsistency and an insertion     *)
(* hides none.                                                              *)
ViolationsAreCurrent ==
  (pc = "Idle" /\ complete)
    => violations = Denials(Matching(rules \cup {DifferenceRule}, facts))

(* Withdrawing facts never removes, not even until they are restored, one   *)
(* that is still asserted or that states the current domain; so a limit or  *)
(* a failure during rederivation cannot lose them.                          *)
WithdrawKeepsSupport ==
  [][Withdraw => facts \cap Protected(asserted, rules) \subseteq facts']_vars

(* With limits the program cannot reach, every call that does not fail ends *)
(* with a complete materialization.                                         *)
CallsComplete == (pc # "Idle") ~> (pc = "Idle" /\ (complete \/ failed))

(* What readers see between calls is an instance of MaterializedView: the   *)
(* closure is withdrawn when a call starts and what is published is the     *)
(* least model of the program.                                              *)
View == INSTANCE MaterializedView WITH
  Unavailable <- NoHead,
  closure <- IF pc = "Idle" /\ complete THEN facts ELSE NoHead

ViewSpec == View!Spec
=============================================================================
