------------------------------- MODULE MapRuntime -------------------------------
(***************************************************************************)
(* MapRuntime (map_runtime.py): transactions that build a map, its spatial *)
(* index and a materialized ontology, and publish them together or not at  *)
(* all.  Publications are immutable, but who holds one may close its index *)
(* or change its ontology, at any time.                                    *)
(*                                                                         *)
(* The records of a transaction come from a source that may fail and that  *)
(* has control between two of them.  Whether the candidate's ontology is   *)
(* complete and consistent is not determined here.                         *)
(***************************************************************************)
EXTENDS OSMStore

CONSTANTS
  LoadVersions,      \* the versions in an initial snapshot
  MaxChanged,        \* max_changes
  MaxPublications,   \* bound on publications
  MaxHostSteps       \* bound on what holders do to publications

ASSUME VersionsAssumption == LoadVersions \subseteq Nat /\ MaxPublications \in Nat

VARIABLES
  published,    \* what was published: snapshot, index, and whether the ontology was changed
  closed,       \* _closed
  complete,
  transaction,  \* the transaction that holds _lock
  open,         \* the point indexes that are open
  hostSteps

mapVars == <<published, closed, complete, transaction, open, hostSteps>>

NoTransaction == [phase |-> "none"]

Current  == published[Len(published)]
Previous == IF published = <<>> THEN NoSnapshot ELSE Current.snapshot

MapInit ==
  /\ published = <<>> /\ closed = FALSE /\ complete = FALSE
  /\ transaction = NoTransaction /\ open = {} /\ hostSteps = 0

\* MapPublication.validate
Valid(p) == ~p.changed /\ p.index \in open

-----------------------------------------------------------------------------
(* Transactions                                                             *)

\* An attempt that ends before the source is read: the runtime was closed after it was
\* asked, the present publication is no longer what it was, or the operation does not fit.
Refused(operation) ==
  \/ closed
  \/ published # <<>> /\ ~Valid(Current)
  \/ operation = "load" /\ published # <<>>
  \/ operation = "apply" /\ published = <<>>

Begin(operation) ==
  /\ transaction = NoTransaction /\ Len(published) < MaxPublications
  /\ IF Refused(operation) THEN complete' = FALSE /\ UNCHANGED transaction
     ELSE /\ transaction' = [phase |-> "reading", operation |-> operation, changed |-> {},
                             map |-> [elements |-> Previous.elements, tombstones |-> Previous.tombstones]]
          /\ UNCHANGED complete
  /\ UNCHANGED <<published, closed, open, hostSteps>>

OfCandidate == IF transaction.phase = "reasoning" THEN {transaction.index} ELSE {}

\* Mutant: the candidate is left to itself.
ClosesNothing == {}

ClosesOnFailure == OfCandidate

\* Any exception: the candidate's index is closed and what is published stays.
FailTransaction ==
  /\ transaction # NoTransaction
  /\ open' = open \ ClosesOnFailure
  /\ complete' = FALSE /\ transaction' = NoTransaction
  /\ UNCHANGED <<published, closed, hostSteps>>

\* load_snapshot: each element once, in any version.
ReadElement(k, version, body) ==
  LET now == [transaction.map EXCEPT !.elements = WithElement(@, k, version, body)] IN
  /\ transaction.phase = "reading" /\ transaction.operation = "load"
  /\ k \notin transaction.changed
  /\ WithinLimits(now.elements, now.tombstones)
  /\ transaction' = [transaction EXCEPT !.map = now, !.changed = @ \cup {k}]
  /\ UNCHANGED <<published, closed, complete, open, hostSteps>>

\* apply_changes: each element at most once in a transaction.
ReadChange(action, k, version, body) ==
  LET before == transaction.map
      now    == Changed(before, action, k, version, body)
  IN  /\ transaction.phase = "reading" /\ transaction.operation = "apply"
      /\ Cardinality(transaction.changed) < MaxChanged /\ k \notin transaction.changed
      /\ Acceptable(before.elements, before.tombstones, action, k, version)
      /\ WithinLimits(now.elements, now.tombstones)
      /\ transaction' = [transaction EXCEPT !.map = now, !.changed = @ \cup {k}]
      /\ UNCHANGED <<published, closed, complete, open, hostSteps>>

\* A transaction without a change publishes nothing.
EndWithoutChange ==
  /\ transaction.phase = "reading" /\ transaction.operation = "apply" /\ transaction.changed = {}
  /\ complete' = TRUE /\ transaction' = NoTransaction
  /\ UNCHANGED <<published, closed, open, hostSteps>>

OfPublished == {published[i].index : i \in DOMAIN published}
NewIndex    == CHOOSE i \in 1 .. MaxPublications + Cardinality(open) + 1 : i \notin open \cup OfPublished

\* OSMStore._publish: the derived data and a new index; the ontology is next.
DeriveMap ==
  /\ transaction.phase = "reading" /\ (transaction.operation = "load" \/ transaction.changed # {})
  /\ Resolved(transaction.map.elements)
  /\ open' = open \cup {NewIndex}
  /\ transaction' = [phase |-> "reasoning", index |-> NewIndex,
                     snapshot |-> Snapshot(Previous, transaction.map, transaction.changed)]
  /\ UNCHANGED <<published, closed, complete, hostSteps>>

\* The candidate's ontology is complete and consistent.
PublishMap ==
  /\ transaction.phase = "reasoning"
  /\ published' = Append(published,
       [snapshot |-> transaction.snapshot, index |-> transaction.index, changed |-> FALSE])
  /\ complete' = TRUE /\ transaction' = NoTransaction
  /\ UNCHANGED <<closed, open, hostSteps>>

\* MapRuntime.close, which a transaction refuses.
CloseRuntime ==
  /\ transaction = NoTransaction
  /\ open' = IF published = <<>> THEN open ELSE open \ {Current.index}
  /\ closed' = TRUE
  /\ UNCHANGED <<published, complete, transaction, hostSteps>>

-----------------------------------------------------------------------------
(* Who holds publications                                                   *)

HostStep == hostSteps < MaxHostSteps /\ hostSteps' = hostSteps + 1

ClosePublication(i) ==
  /\ HostStep /\ open' = open \ {published[i].index}
  /\ UNCHANGED <<published, closed, complete, transaction>>

ChangeOntology(i) ==
  /\ HostStep /\ published' = [published EXCEPT ![i].changed = TRUE]
  /\ UNCHANGED <<closed, complete, transaction, open>>

MapNext ==
  \/ \E operation \in {"load", "apply"} : Begin(operation)
  \/ \E k \in Keys : \E body \in BodiesOf[k] :
       \/ \E version \in LoadVersions : ReadElement(k, version, body)
       \/ \E action \in {"create", "modify", "delete"} : \E version \in 1 .. MaxPublications + 1 :
            ReadChange(action, k, version, body)
  \/ EndWithoutChange \/ DeriveMap \/ PublishMap \/ FailTransaction \/ CloseRuntime
  \/ \E i \in DOMAIN published : ClosePublication(i) \/ ChangeOntology(i)

MapSpec == MapInit /\ [][MapNext]_mapVars

-----------------------------------------------------------------------------
(* Properties                                                               *)

\* The geometries, of which only the affected are computed, are those of the map; and what
\* a publication says of an element in other words than the one before it, or of an element
\* that came or went, is among what it names as affected.
ProjectionsAreCurrent ==
  \A i \in DOMAIN published :
    LET now == published[i].snapshot
        before == IF i = 1 THEN NoSnapshot ELSE published[i - 1].snapshot
        Said(s, k) == IF k \in DOMAIN s.elements THEN Projection(s.elements, k) ELSE <<>>
        Shape(s, k) == IF k \in DOMAIN s.geometries THEN s.geometries[k] ELSE <<>>
    IN  /\ now.geometries = [k \in Ways(now.elements) |-> Geometry(now.elements, k)]
        /\ \A k \in Keys : Said(now, k) # Said(before, k) \/ Shape(now, k) # Shape(before, k)
             => k \in now.affected

\* The digest names one publication: it is the revision of the scope and of the points, and
\* what was cached for it may be used when it is seen again.  An element that is deleted
\* does not return, nor one that is changed to an earlier version.
RevisionsAreNew ==
  \A i, j \in DOMAIN published :
    i < j => Digest(published[i].snapshot) # Digest(published[j].snapshot)

\* Failures close what they made and nothing else: an index that is open is a publication's
\* or the candidate's, and one of a publication is closed only by its holders or with the runtime.
IndexesAreOwned ==
  /\ open \subseteq OfPublished \cup OfCandidate /\ OfCandidate \subseteq open
  /\ Cardinality(OfPublished \ open) <= hostSteps + (IF closed THEN 1 ELSE 0)
=============================================================================
