------------------------------ MODULE WindowStore ------------------------------
(***************************************************************************)
(* WindowStore (windows.py): a finite event-time window over accepted      *)
(* events, with corrections, removals, explicit clocks, retained           *)
(* predecessors and accepted source offsets.                               *)
(*                                                                         *)
(* An operation that raises leaves the store as it was and is no step.     *)
(* Ids are naturals in the order of the identifiers; every event's bytes   *)
(* are charged alike.  ledger, view and history are not state of the       *)
(* store: ledger is what a store without limits would remember, and view   *)
(* and history are what a reader has who applies every returned change.    *)
(***************************************************************************)
EXTENDS Integers, FiniteSets

CONSTANTS
  Width,              \* width of the active window
  Lateness,           \* allowed_lateness
  MaxEvents,          \* max_events: events and tombstones together
  MaxKeys,            \* max_keys
  MaxBytes,           \* max_bytes, in units of ...
  EventBytes,         \*   ... what one event is charged,
  TombstoneBytes,     \*   one tombstone
  SourceBytes,        \*   and one source offset
  MaxSources,         \* 128
  RetainPredecessor,  \* retain_predecessor
  AllowOffsetGaps,    \* allow_offset_gaps
  Inputs,             \* the event versions callers submit
  Removals,           \* [id, revision] pairs callers submit
  Sources,            \* the names of sources
  MaxTime,            \* bound of the clocks
  MaxRevision,        \* bound of the change counter
  Inside              \* the values entry_rows' predicate holds of

ASSUME WindowAssumption ==
  /\ Width \in Nat \ {0} /\ Lateness \in Nat
  /\ {MaxEvents, MaxKeys, MaxBytes, EventBytes, TombstoneBytes, SourceBytes, MaxSources} \subseteq Nat
  /\ RetainPredecessor \in BOOLEAN /\ AllowOffsetGaps \in BOOLEAN
  /\ MaxTime \in Nat /\ MaxRevision \in Nat

ASSUME InputAssumption ==
  /\ \A e \in Inputs : e = [id |-> e.id, time |-> e.time, key |-> e.key,
                            value |-> e.value, revision |-> e.revision]
  /\ \A e \in Inputs : e.id \in Nat /\ e.time \in Int /\ e.revision \in Nat
  /\ \A r \in Removals : r = [id |-> r.id, revision |-> r.revision]
  /\ \A r \in Removals : r.id \in Nat /\ r.revision \in Nat

VARIABLES
  events,          \* the retained events
  tombstones,      \* [id, revision, time] of retained removals
  offsets,         \* the last accepted offset of each source
  evaluationTime,  \* the end of the window
  watermark,
  revision,        \* counts the changes
  ledger,          \* the latest accepted version of every id, removed or not
  view,            \* the active rows a reader of the changes has
  history          \* the same with predecessors

store   == <<events, tombstones, offsets, evaluationTime, watermark, revision>>
readers == <<view, history>>
vars    == <<events, tombstones, offsets, evaluationTime, watermark, revision,
             ledger, view, history>>

Keys == {e.key : e \in Inputs}

-----------------------------------------------------------------------------
(* Selecting and retaining                                                  *)

Row(e) == <<e.id, e.time, e.key, e.value>>

Precedes(e, f) == e.time < f.time \/ (e.time = f.time /\ e.id < f.id)

Start(end) == end - Width

(* Mutant: corrections and removals older than the window are not expected. *)
CutoffAtStart(end, mark) == Start(end)

(* Mutant: the window's own events do not hold the cutoff back.             *)
CutoffAtWatermark(end, mark) == mark - Lateness

(* Whatever is older can neither be selected nor changed any more.          *)
Cutoff(end, mark) ==
  IF Start(end) <= mark - Lateness THEN Start(end) ELSE mark - Lateness

Active(E, end) == {e \in E : Start(end) <= e.time /\ e.time < end}

(* The latest event of each key before the window.                          *)
Predecessors(E, end) ==
  LET before == {e \in E : e.time < Start(end)}
  IN  {e \in before : \A f \in before : f.key = e.key => ~Precedes(e, f)}

Rows(E, end) == {Row(e) : e \in Active(E, end)}

HistoryRows(E, end) ==
  Rows(E, end) \cup (IF RetainPredecessor THEN {Row(e) : e \in Predecessors(E, end)} ELSE {})

(* Mutant: the retained predecessor is the earliest one.                    *)
RetainedEarliest(E, end, mark) ==
  LET before == {e \in E : e.time < Start(end)}
  IN  {e \in E : e.time >= Cutoff(end, mark)}
        \cup {e \in before : \A f \in before : f.key = e.key => ~Precedes(f, e)}

Retained(E, end, mark) ==
  {e \in E : e.time >= Cutoff(end, mark)}
    \cup (IF RetainPredecessor THEN Predecessors(E, end) ELSE {})

(* The event of the same key right before e.                                *)
IsPredecessor(p, e, E) ==
  /\ p \in E /\ p.key = e.key /\ Precedes(p, e)
  /\ \A f \in E : f.key = e.key /\ Precedes(f, e) => ~Precedes(p, f)

(* entry_rows: observed transitions from outside to inside.                 *)
EntryRows(E, end) ==
  {Row(e) : e \in {f \in Active(E, end) :
                     /\ f.value \in Inside
                     /\ \E p \in E : IsPredecessor(p, f, E) /\ p.value \notin Inside}}

-----------------------------------------------------------------------------
(* Committing                                                               *)

WithinCapacity(E, T, O) ==
  /\ Cardinality(E) + Cardinality(T) <= MaxEvents
  /\ Cardinality({e.key : e \in E}) <= MaxKeys
  /\ EventBytes * Cardinality(E) + TombstoneBytes * Cardinality(T)
       + SourceBytes * Cardinality(DOMAIN O) <= MaxBytes
  /\ Cardinality(DOMAIN O) <= MaxSources

(* What a reader has after removing and adding the rows a change reports.   *)
Apply(rows, old, new) == (rows \ (old \ new)) \cup (new \ old)

(* Mutant: the old rows are selected at the new evaluation time.            *)
CommitSelectingLate(E, T, end, mark, O) ==
  LET kept   == Retained(E, end, mark)
      buried == {t \in T : t.time >= Cutoff(end, mark)}
  IN  /\ WithinCapacity(kept, buried, O)
      /\ events' = kept /\ tombstones' = buried /\ offsets' = O
      /\ evaluationTime' = end /\ watermark' = mark
      /\ revision' = IF <<kept, buried, O, end, mark>>
                          = <<events, tombstones, offsets, evaluationTime, watermark>>
                     THEN revision ELSE revision + 1
      /\ revision' <= MaxRevision
      /\ view' = Apply(view, Rows(events, end), Rows(kept, end))
      /\ history' = Apply(history, HistoryRows(events, end), HistoryRows(kept, end))

(* _commit: prune, check the capacities, replace the state, report.         *)
Commit(E, T, end, mark, O) ==
  LET kept   == Retained(E, end, mark)
      buried == {t \in T : t.time >= Cutoff(end, mark)}
  IN  /\ WithinCapacity(kept, buried, O)
      /\ events' = kept /\ tombstones' = buried /\ offsets' = O
      /\ evaluationTime' = end /\ watermark' = mark
      /\ revision' = IF <<kept, buried, O, end, mark>>
                          = <<events, tombstones, offsets, evaluationTime, watermark>>
                     THEN revision ELSE revision + 1
      /\ revision' <= MaxRevision
      /\ view' = Apply(view, Rows(events, evaluationTime), Rows(kept, end))
      /\ history' = Apply(history, HistoryRows(events, evaluationTime), HistoryRows(kept, end))

-----------------------------------------------------------------------------
(* Operations                                                               *)

Init ==
  /\ events = {} /\ tombstones = {} /\ offsets = [s \in {} |-> 0]
  /\ evaluationTime = 0 /\ watermark = 0 /\ revision = 0
  /\ ledger = {} /\ view = {} /\ history = {}

(* A new version of an event: newer than what is known of its id, and       *)
(* neither it nor the version it replaces older than the accepted lateness. *)
AcceptChanged(e, O) ==
  LET old    == {x \in events : x.id = e.id}
      buried == {t \in tombstones : t.id = e.id}
  IN  /\ e \notin events
      /\ \A x \in old \cup buried : e.revision > x.revision
      /\ \A x \in old \cup {e} : x.time >= watermark - Lateness
      /\ Commit((events \ old) \cup {e}, tombstones \ buried, evaluationTime, watermark, O)
      /\ ledger' = {x \in ledger : x.id # e.id}
                     \cup {[id |-> e.id, time |-> e.time, key |-> e.key, value |-> e.value,
                            revision |-> e.revision, removed |-> FALSE]}

(* A retry of a retained event.                                             *)
AcceptRetry(e, O) ==
  /\ e \in events
  /\ Commit(events, tombstones, evaluationTime, watermark, O)
  /\ UNCHANGED ledger

Accept(e, O) == AcceptChanged(e, O) \/ AcceptRetry(e, O)

Upsert(e) == Accept(e, offsets)

(* Mutant: an offset may be skipped.                                        *)
UpsertFromAnywhere(e, s, offset) ==
  /\ s \in DOMAIN offsets => offset > offsets[s]
  /\ Accept(e, [t \in DOMAIN offsets \cup {s} |-> IF t = s THEN offset ELSE offsets[t]])

(* upsert with a source: an accepted offset is not accepted again, and the  *)
(* next one must follow it unless gaps are allowed.                         *)
UpsertFrom(e, s, offset) ==
  /\ s \in DOMAIN offsets =>
       /\ offset > offsets[s]
       /\ AllowOffsetGaps \/ offset = offsets[s] + 1
  /\ Accept(e, [t \in DOMAIN offsets \cup {s} |-> IF t = s THEN offset ELSE offsets[t]])

Remove(r) ==
  \E old \in events :
    /\ old.id = r.id
    /\ r.revision > old.revision
    /\ old.time >= watermark - Lateness
    /\ Commit(events \ {old},
              tombstones \cup {[id |-> r.id, revision |-> r.revision, time |-> old.time]},
              evaluationTime, watermark, offsets)
    /\ ledger' = {x \in ledger : x.id # r.id}
                   \cup {[id |-> r.id, time |-> old.time, key |-> old.key, value |-> old.value,
                          revision |-> r.revision, removed |-> TRUE]}

(* Mutant: the clocks move without pruning.                                 *)
AdvanceClocksOnly(end, mark) ==
  /\ end >= evaluationTime /\ mark >= watermark /\ mark <= end
  /\ evaluationTime' = end /\ watermark' = mark /\ revision' = revision + 1
  /\ revision' <= MaxRevision
  /\ view' = Rows(events, end) /\ history' = HistoryRows(events, end)
  /\ UNCHANGED <<events, tombstones, offsets, ledger>>

Advance(end, mark) ==
  /\ end >= evaluationTime /\ mark >= watermark /\ mark <= end
  /\ Commit(events, tombstones, end, mark, offsets)
  /\ UNCHANGED ledger

(* forget_key: the caller gives up the key's history, known versions too.   *)
ForgetKey(k) ==
  /\ Commit({e \in events : e.key # k}, tombstones, evaluationTime, watermark, offsets)
  /\ ledger' = {x \in ledger : x.key # k}

Next ==
  \/ \E e \in Inputs : Upsert(e)
  \/ \E r \in Removals : Remove(r)
  \/ \E end, mark \in 0 .. MaxTime : Advance(end, mark)
  \/ \E k \in Keys : ForgetKey(k)

Spec == Init /\ [][Next]_vars

-----------------------------------------------------------------------------
(* Properties                                                               *)

Live == {x \in ledger : ~x.removed}

TypeOK ==
  /\ events \in SUBSET Inputs
  /\ \A t \in tombstones : t.id \in Nat /\ t.revision \in Nat /\ t.time \in Int
  /\ DOMAIN offsets \subseteq Sources
  /\ \A s \in DOMAIN offsets : offsets[s] \in Nat
  /\ evaluationTime \in 0 .. MaxTime
  /\ watermark \in 0 .. evaluationTime
  /\ revision \in 0 .. MaxRevision

(* The active relation is that of a store that never prunes: no event is    *)
(* dropped that is in the window or may still enter it, and no removed or   *)
(* superseded version stays.                                                *)
ActiveIsExact ==
  Rows(events, evaluationTime) = Rows(Live, evaluationTime)

(* A predecessor that is exposed is the latest accepted one: pruning and    *)
(* corrections never promote an older event in its place.                   *)
HistoryIsSound ==
  HistoryRows(events, evaluationTime) \subseteq HistoryRows(Live, evaluationTime)

(* No entry is invented: what entry_rows reports is a transition between    *)
(* two events that are adjacent among all accepted ones.                    *)
EntriesAreSound ==
  EntryRows(events, evaluationTime) \subseteq EntryRows(Live, evaluationTime)

(* A reader that applies the returned changes has the current relations.    *)
ReadersAgree ==
  /\ view = Rows(events, evaluationTime)
  /\ history = HistoryRows(events, evaluationTime)

(* Deduplication lasts as long as an event may be corrected: what is known  *)
(* of an id is replaced by something no newer only when it has become too   *)
(* old to be changed.                                                       *)
RevisionsAdvance ==
  [][\A x \in ledger : \A y \in ledger' :
       (x.id = y.id /\ x # y) => y.revision > x.revision \/ x.time < watermark - Lateness]_vars

-----------------------------------------------------------------------------
(* The inductive invariant behind them: what the store may have forgotten   *)
(* of the events it accepted.                                               *)

Version(x) == [id |-> x.id, time |-> x.time, key |-> x.key, value |-> x.value,
               revision |-> x.revision]

Tombstone(x) == [id |-> x.id, revision |-> x.revision, time |-> x.time]

(* The ledger has one version of each id.                                   *)
LedgerInv ==
  /\ \A x \in ledger : /\ x.id \in Nat /\ x.time \in Int /\ x.revision \in Nat
                       /\ x.removed \in BOOLEAN
  /\ \A x, y \in ledger : x.id = y.id => x = y

(* Every stored event is the latest accepted version of its id.             *)
StoredInv == \A e \in events : \E x \in Live : e = Version(x)

(* A live version of L that is not among the events E has left the window   *)
(* and can no longer be changed, and no event that is older was kept for    *)
(* its key.                                                                 *)
Forgettable(L, E, cutoff) ==
  \A x \in L : Version(x) \notin E =>
    /\ x.time < cutoff
    /\ \A p \in E : p.key = x.key => ~Precedes(p, x)

DroppedInv == Forgettable(Live, events, Cutoff(evaluationTime, watermark))

(* A removal is remembered while its event could be submitted again.        *)
RemovedInv ==
  \A x \in ledger : x.removed =>
    Tombstone(x) \in tombstones \/ x.time < Cutoff(evaluationTime, watermark)

(* The store forgets only what is settled.                                  *)
Remembered ==
  /\ TypeOK
  /\ LedgerInv
  /\ StoredInv
  /\ DroppedInv
  /\ RemovedInv
  /\ ReadersAgree
=============================================================================
