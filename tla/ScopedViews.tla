------------------------------ MODULE ScopedViews ------------------------------
(***************************************************************************)
(* What is selected from a reasoner before it is queried: a birth date for *)
(* each person with certificates that a family is complete, signs with one *)
(* location, and a point index of those (scoped_views.py, spatial.py).     *)
(*                                                                         *)
(* A selection is what its lookups read, and one family stands for all.    *)
(* The domain's operations and the caller's code run between the lookups,  *)
(* and may update the reasoner or anything in it.  A call of a view that   *)
(* they make in turn is left out.                                          *)
(***************************************************************************)
EXTENDS Reasoner, Sequences

CONSTANTS
  Lookups,     \* the number of lookups of a selection
  Scopes,      \* datasets and their revisions
  Accepts(_)   \* whether each member of the family has one exact date

ASSUME LookupsAssumption == Lookups \in Nat \ {0} /\ "instances" \in Queries

VARIABLES
  selected,    \* BirthDateView's records, and the token they were selected under
  working,     \* the call of a view or an index in progress
  issued,      \* the certificates there are
  returned,    \* what a call returned last, and the token it returned under
  pointIndex   \* the point index that was built last, and its token

viewVars == <<selected, working, issued, returned, pointIndex>>

NoTask == [purpose |-> None]
NoToken == <<>>

-----------------------------------------------------------------------------
(* Lookups                                                                  *)

(* What a lookup (property_pairs, property_values, instances) is answered.  *)
AnswerTo(q) ==
  IF q \in Cache!KeysOf(SyncedCache) THEN Cache!EntryOf(SyncedCache, q).answer
  ELSE Reads(q, Built(q, SyncedViews))

Lookup ==
  /\ Query("instances")
  /\ working' = [working EXCEPT !.reads = Append(@, AnswerTo("instances"))]
  /\ UNCHANGED <<selected, issued, returned, pointIndex>>

(* Mutant: the source is not looked at again.                               *)
UnchangedAlways(token) == TRUE

(* The second look at the source, before anything is made of what was read. *)
Unchanged(token) == token = Token

(* STALE_SOURCE, or whatever a lookup or an operation raises.               *)
Abandon ==
  /\ working # NoTask
  /\ working' = NoTask
  /\ UNCHANGED <<vars, selected, issued, returned, pointIndex>>

-----------------------------------------------------------------------------
(* BirthDateView                                                            *)

Task(purpose, stage, token, reads, scope, certificates) ==
  [purpose |-> purpose, stage |-> stage, token |-> token, reads |-> reads, scope |-> scope,
   certificates |-> certificates, identities |-> None]

(* evidence_digest and prepare begin with _snapshot: records that were      *)
(* selected under the present token are taken as they are.                  *)
BeginBirthDates(purpose, scope, certificates) ==
  /\ working = NoTask
  /\ Guard("instances")
  /\ working' = IF selected.token = Token
                THEN Task(purpose, "selected", Token, selected.reads, scope, certificates)
                ELSE Task(purpose, "selecting", Token, <<>>, scope, certificates)
  /\ UNCHANGED <<vars, selected, issued, returned, pointIndex>>

LookUp == working # NoTask /\ working.stage = "selecting" /\ Len(working.reads) < Lookups /\ Lookup

HasSelected(purposes) ==
  /\ working # NoTask /\ working.purpose \in purposes
  /\ working.stage = "selecting" /\ Len(working.reads) = Lookups /\ Unchanged(working.token)

KeepSelection ==
  /\ HasSelected({"evidence", "prepare"})
  /\ selected' = [token |-> working.token, reads |-> working.reads]
  /\ working' = [working EXCEPT !.stage = "selected"]
  /\ UNCHANGED <<vars, issued, returned, pointIndex>>

(* _evidence digests what was selected and the aliases that the engine now  *)
(* knows of.                                                                *)
DigestEvidence ==
  /\ working # NoTask /\ working.stage = "selected"
  /\ working' = [working EXCEPT !.stage = "digested", !.identities = engine.content]
  /\ UNCHANGED <<vars, selected, issued, returned, pointIndex>>

Evidence(task) == [reads |-> task.reads, identities |-> task.identities]

Certificate(scope, trusted, evidence) == [scope |-> scope, trusted |-> trusted, evidence |-> evidence]

(* Somebody certifies the evidence for a dataset.                           *)
GiveEvidence(scope, trusted) ==
  /\ working # NoTask /\ working.purpose = "evidence" /\ working.stage = "digested"
  /\ Unchanged(working.token)
  /\ issued' = issued \cup {Certificate(scope, trusted, Evidence(working))}
  /\ working' = NoTask
  /\ UNCHANGED <<vars, selected, returned, pointIndex>>

(* A family is complete if one certificate of a trusted issuer says so of   *)
(* this dataset and this evidence, and each member's date is accepted.      *)
Certified(task) ==
  /\ \E c \in task.certificates : c.trusted /\ c.scope = task.scope /\ c.evidence = Evidence(task)
  /\ Accepts(task.reads)

HandOver(task, certified) ==
  /\ returned' = [token |-> Token, reads |-> task.reads, scope |-> task.scope, certified |-> certified]
  /\ working' = NoTask

FinishPrepare ==
  /\ working # NoTask /\ working.purpose = "prepare" /\ working.stage = "digested"
  /\ Unchanged(working.token)
  /\ HandOver(working, Certified(working))
  /\ UNCHANGED <<vars, selected, issued, pointIndex>>

-----------------------------------------------------------------------------
(* LocationView and PointIndex                                              *)

(* prepare and from_location_view keep nothing: they select anew.           *)
BeginLocations(purpose) ==
  /\ working = NoTask
  /\ Guard("instances")
  /\ working' = Task(purpose, "selecting", Token, <<>>, None, {})
  /\ UNCHANGED <<vars, selected, issued, returned, pointIndex>>

FinishLocations ==
  /\ HasSelected({"locations"})
  /\ HandOver(working, FALSE)
  /\ UNCHANGED <<vars, selected, issued, pointIndex>>

(* The locations being selected, the token is taken once more, and the      *)
(* coordinates are looked up.                                               *)
BeginPoints ==
  /\ HasSelected({"index"})
  /\ working' = [working EXCEPT !.purpose = "points", !.reads = <<>>]
  /\ UNCHANGED <<vars, selected, issued, returned, pointIndex>>

BuildIndex ==
  /\ HasSelected({"points"})
  /\ pointIndex' = [token |-> working.token, reads |-> working.reads, open |-> TRUE]
  /\ working' = NoTask
  /\ UNCHANGED <<vars, selected, issued, returned>>

(* _check                                                                   *)
Usable(i) == i.open /\ Unchanged(i.token)

(* within: candidates are refined by a domain's operation in batches, and   *)
(* the index is looked at before each and at the end.                       *)
BeginWithin ==
  /\ working = NoTask
  /\ Usable(pointIndex)
  /\ working' = Task("within", "refining", pointIndex.token, pointIndex.reads, None, {})
  /\ UNCHANGED <<vars, selected, issued, returned, pointIndex>>

FinishWithin ==
  /\ working # NoTask /\ working.purpose = "within"
  /\ Usable([token |-> working.token, open |-> pointIndex.open])
  /\ HandOver(working, FALSE)
  /\ UNCHANGED <<vars, selected, issued, pointIndex>>

CloseIndex ==
  /\ pointIndex' = [pointIndex EXCEPT !.open = FALSE]
  /\ UNCHANGED <<vars, selected, working, issued, returned>>

-----------------------------------------------------------------------------

ViewsInit ==
  /\ selected = [token |-> NoToken, reads |-> <<>>]
  /\ working = NoTask
  /\ issued = {}
  /\ returned = [token |-> NoToken, reads |-> <<>>, scope |-> None, certified |-> FALSE]
  /\ pointIndex = [token |-> NoToken, reads |-> <<>>, open |-> FALSE]

ViewsNext ==
  \/ Next /\ UNCHANGED viewVars
  \* The caller hands over all certificates there are.
  \/ \E scope \in Scopes : BeginBirthDates("prepare", scope, issued)
  \/ BeginBirthDates("evidence", None, {})
  \/ \E scope \in Scopes, trusted \in BOOLEAN : GiveEvidence(scope, trusted)
  \/ \E purpose \in {"locations", "index"} : BeginLocations(purpose)
  \/ LookUp \/ Abandon \/ KeepSelection \/ DigestEvidence \/ FinishPrepare
  \/ FinishLocations \/ BeginPoints \/ BuildIndex \/ BeginWithin \/ FinishWithin \/ CloseIndex

ViewsSpec == Init /\ ViewsInit /\ [][ViewsNext]_<<vars, viewVars>>

-----------------------------------------------------------------------------
(* Properties                                                               *)

(* A lookup that read what there is now.  A foreign store whose triples     *)
(* were changed and changed back has the token that it had.                 *)
IsNow(read) == read[1] = engine.content /\ (graph.owned => read[2] = graph.triples)

(* Outside an update, what is kept, built or was returned under the present *)
(* token is, lookup for lookup, what there is now, whatever ran while it    *)
(* was selected; and a family that is certified complete is so on evidence  *)
(* of what there is now (_snapshot, prepare, from_location_view, within).   *)
ViewsAreCurrent ==
  call.kind # "update" =>
    /\ \A v \in {selected, returned, pointIndex} :
         v.token = Token => \A i \in DOMAIN v.reads : IsNow(v.reads[i])
    /\ returned.token = Token /\ returned.certified =>
         \E c \in issued :
           /\ c.trusted /\ c.scope = returned.scope
           /\ c.evidence.identities = engine.content
           /\ \A i \in DOMAIN c.evidence.reads : IsNow(c.evidence.reads[i])
=============================================================================
