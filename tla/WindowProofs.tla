----------------------------- MODULE WindowProofs -----------------------------
(***************************************************************************)
(* The properties of WindowStore for every width, lateness, capacity and   *)
(* set of inputs.                                                          *)
(***************************************************************************)
EXTENDS WindowRecovery, FiniteSetTheorems, TLAPS

-----------------------------------------------------------------------------
(* Selecting                                                                *)

(* Retained events are among the given ones.                                *)
LEMMA RetainedSubset ==
  ASSUME NEW E, NEW end, NEW mark
  PROVE  Retained(E, end, mark) \subseteq E
  BY DEF Retained, Predecessors

(* Clocks that do not go back do not move the cutoff back, and it is never  *)
(* after the start of the window or the lateness boundary.                  *)
LEMMA CutoffBounds ==
  ASSUME NEW end \in Int, NEW mark \in Int
  PROVE  /\ Cutoff(end, mark) \in Int
         /\ Cutoff(end, mark) <= Start(end)
         /\ Cutoff(end, mark) <= mark - Lateness
         /\ \A e, m \in Int : e >= end /\ m >= mark => Cutoff(e, m) >= Cutoff(end, mark)
  BY WindowAssumption DEF Cutoff, Start

(* What pruning drops may be forgotten.                                     *)
LEMMA Pruning ==
  ASSUME NEW L, NEW E \in SUBSET Inputs, NEW cutoff \in Int, NEW end \in Int, NEW mark \in Int,
         \A x \in L : x.time \in Int /\ x.id \in Nat,
         cutoff <= Cutoff(end, mark),
         Forgettable(L, E, cutoff)
  PROVE  Forgettable(L, Retained(E, end, mark), Cutoff(end, mark))
  <1> DEFINE kept == Retained(E, end, mark)
             c    == Cutoff(end, mark)
  <1>1. SUFFICES ASSUME NEW x \in L, Version(x) \notin kept
                 PROVE  /\ x.time < c
                        /\ \A p \in kept : p.key = x.key => ~Precedes(p, x)
    BY DEF Forgettable
  <1>2. x.time \in Int /\ c \in Int /\ c <= Start(end) /\ Start(end) \in Int
    BY CutoffBounds, WindowAssumption DEF Start
  <1>3. \A p \in kept : p \in E /\ p.time \in Int
    BY RetainedSubset, InputAssumption
  <1>4. CASE Version(x) \in E
    <2>1. x.time < c
      <3>1. ~(Version(x).time >= c)
        BY <1>1, <1>4 DEF Retained
      <3> QED
        BY <1>2, <3>1 DEF Version
    <2>2. ASSUME NEW p \in kept, p.key = x.key
          PROVE  ~Precedes(p, x)
      <3>1. CASE p.time >= c
        BY <1>2, <1>3, <2>1, <3>1 DEF Precedes
      <3>2. CASE p \in Predecessors(E, end)
        <4>1. Version(x) \in {e \in E : e.time < Start(end)} /\ Version(x).key = p.key
          BY <1>2, <1>4, <2>1, <2>2 DEF Version
        <4>2. ~Precedes(p, Version(x))
          BY <3>2, <4>1 DEF Predecessors
        <4> QED
          BY <4>2 DEF Precedes, Version
      <3> QED
        BY <3>1, <3>2 DEF Retained
    <2> QED
      BY <2>1, <2>2
  <1>5. CASE Version(x) \notin E
    BY <1>2, <1>3, <1>5 DEF Forgettable
  <1> QED
    BY <1>4, <1>5

-----------------------------------------------------------------------------
(* The invariant                                                            *)

(* A live version in the ledger is an event.                                *)
LEMMA LiveTyped ==
  ASSUME LedgerInv
  PROVE  \A x \in Live : x.time \in Int /\ x.id \in Nat /\ x.revision \in Nat
  BY DEF LedgerInv, Live

(* A commit keeps the invariant when the events it is given are current     *)
(* versions and the versions it is not given may be forgotten.              *)
LEMMA CommitStep ==
  ASSUME Remembered,
         NEW E \in SUBSET Inputs, NEW T, NEW end \in 0 .. MaxTime, NEW mark \in 0 .. end,
         end >= evaluationTime, mark >= watermark,
         \A t \in T : t.id \in Nat /\ t.revision \in Nat /\ t.time \in Int,
         LedgerInv',
         \A e \in E : \E x \in Live' : e = Version(x),
         Forgettable(Live', E, Cutoff(evaluationTime, watermark)),
         \A x \in ledger' : x.removed =>
           Tombstone(x) \in T \/ x.time < Cutoff(evaluationTime, watermark),
         NEW O, DOMAIN O \subseteq Sources, \A s \in DOMAIN O : O[s] \in Nat,
         Commit(E, T, end, mark, O)
  PROVE  Remembered'
  <1> DEFINE old == Cutoff(evaluationTime, watermark)
             new == Cutoff(end, mark)
  <1>1. /\ end \in Int /\ mark \in Int /\ evaluationTime \in Int /\ watermark \in Int
        /\ revision \in Nat
    BY WindowAssumption DEF Remembered, TypeOK
  <1>2. old \in Int /\ new \in Int /\ old <= new
    BY <1>1, CutoffBounds
  <1>3. /\ events' = Retained(E, end, mark)
        /\ tombstones' = {t \in T : t.time >= new}
        /\ offsets' = O /\ evaluationTime' = end /\ watermark' = mark
        /\ revision' \in {revision, revision + 1} /\ revision' <= MaxRevision
        /\ view' = Apply(view, Rows(events, evaluationTime), Rows(events', end))
        /\ history' = Apply(history, HistoryRows(events, evaluationTime), HistoryRows(events', end))
    BY DEF Commit
  <1>4. TypeOK'
    <2>1. events' \in SUBSET Inputs
      BY <1>3, RetainedSubset
    <2>2. revision' \in 0 .. MaxRevision
      BY <1>1, <1>3, WindowAssumption
    <2>3. tombstones' \subseteq T
      BY <1>3
    <2> QED
      BY <1>3, <2>1, <2>2, <2>3 DEF TypeOK, Remembered
  <1>5. StoredInv'
    BY <1>3, RetainedSubset DEF StoredInv
  <1>6. DroppedInv'
    <2>1. \A x \in Live' : x.time \in Int /\ x.id \in Nat
      BY DEF LedgerInv, Live
    <2>2. Forgettable(Live', Retained(E, end, mark), new)
      BY <1>1, <1>2, <2>1, Pruning
    <2> QED
      BY <1>3, <2>2 DEF DroppedInv, Forgettable, Cutoff, Start
  <1>7. RemovedInv'
    <2>1. SUFFICES ASSUME NEW x \in ledger', x.removed
                   PROVE  Tombstone(x) \in tombstones' \/ x.time < new
      BY <1>3 DEF RemovedInv, Cutoff, Start
    <2>2. x.time \in Int
      BY DEF LedgerInv
    <2>3. CASE Tombstone(x) \in T
      BY <1>2, <1>3, <2>2, <2>3 DEF Tombstone
    <2>4. CASE x.time < old
      BY <1>2, <2>2, <2>4
    <2> QED
      BY <2>1, <2>3, <2>4
  <1>8. ReadersAgree'
    BY <1>3 DEF ReadersAgree, Remembered, Apply, Rows, HistoryRows, Active, Predecessors, Start
  <1> QED
    BY <1>4, <1>5, <1>6, <1>7, <1>8 DEF Remembered

(* The empty store has forgotten nothing.                                   *)
LEMMA InitStep ==
  ASSUME Init
  PROVE  Remembered
  <1>1. 0 \in 0 .. MaxTime /\ 0 \in 0 .. 0 /\ 0 \in 0 .. MaxRevision
    BY WindowAssumption
  <1>2. TypeOK
    BY <1>1 DEF Init, TypeOK
  <1>3. LedgerInv /\ StoredInv /\ DroppedInv /\ RemovedInv
    BY DEF Init, LedgerInv, StoredInv, DroppedInv, RemovedInv, Forgettable, Live
  <1>4. ReadersAgree
    BY DEF Init, ReadersAgree, Rows, HistoryRows, Active, Predecessors
  <1> QED
    BY <1>2, <1>3, <1>4 DEF Remembered

(* The event that a new version replaces, or a removal takes out, is the    *)
(* latest version in the ledger.                                            *)
LEMMA StoredVersion ==
  ASSUME Remembered, NEW e \in events, NEW x \in ledger, x.id = e.id
  PROVE  x \in Live /\ e = Version(x)
  <1>1. PICK y \in Live : e = Version(y)
    BY DEF Remembered, StoredInv
  <1>2. y.id = x.id /\ y \in ledger
    BY <1>1 DEF Version, Live
  <1> QED
    BY <1>1, <1>2 DEF Remembered, LedgerInv

Entry(e) == [id |-> e.id, time |-> e.time, key |-> e.key, value |-> e.value,
                revision |-> e.revision, removed |-> FALSE]

(* An accepted event becomes the latest version of its id.                  *)
LEMMA AcceptStep ==
  ASSUME Remembered, NEW e \in Inputs,
         NEW O, DOMAIN O \subseteq Sources, \A s \in DOMAIN O : O[s] \in Nat,
         AcceptChanged(e, O)
  PROVE  Remembered'
  <1> DEFINE old    == {x \in events : x.id = e.id}
             buried == {t \in tombstones : t.id = e.id}
             E      == (events \ old) \cup {e}
             T      == tombstones \ buried
             c      == Cutoff(evaluationTime, watermark)
  <1>1. /\ \A x \in old \cup {e} : x.time >= watermark - Lateness
        /\ Commit(E, T, evaluationTime, watermark, O)
        /\ ledger' = {x \in ledger : x.id # e.id} \cup {Entry(e)}
    BY DEF AcceptChanged, Entry
  <1>2. /\ evaluationTime \in 0 .. MaxTime /\ watermark \in 0 .. evaluationTime
        /\ evaluationTime \in Int /\ watermark \in Int
        /\ events \in SUBSET Inputs
        /\ \A t \in tombstones : t.id \in Nat /\ t.revision \in Nat /\ t.time \in Int
    BY WindowAssumption DEF Remembered, TypeOK
  <1>3. /\ e.id \in Nat /\ e.time \in Int /\ e.revision \in Nat
        /\ Version(Entry(e)) = e /\ ~Entry(e).removed
    BY InputAssumption DEF Version, Entry
  <1>4. c \in Int /\ c <= watermark - Lateness
    BY <1>2, CutoffBounds
  <1>5. LedgerInv'
    <2>1. /\ Entry(e).id = e.id /\ Entry(e).time = e.time /\ Entry(e).revision = e.revision
          /\ Entry(e).removed \in BOOLEAN
      BY DEF Entry
    <2>2. ASSUME NEW x \in ledger'
          PROVE  /\ x.id \in Nat /\ x.time \in Int /\ x.revision \in Nat
                 /\ x.removed \in BOOLEAN
      <3>1. CASE x \in ledger
        BY <3>1 DEF Remembered, LedgerInv
      <3>2. CASE x = Entry(e)
        BY <1>3, <2>1, <3>2
      <3> QED
        BY <1>1, <3>1, <3>2
    <2>3. \A x, y \in ledger' : x.id = y.id => x = y
      BY <1>1, <2>1 DEF Remembered, LedgerInv
    <2> QED
      BY <2>2, <2>3 DEF LedgerInv
  <1>6. Live' = {x \in Live : x.id # e.id} \cup {Entry(e)}
    BY <1>1, <1>3 DEF Live
  <1>7. \A d \in E : \E x \in Live' : d = Version(x)
    BY <1>3, <1>6 DEF Remembered, StoredInv, Version
  <1>8. Forgettable(Live', E, c)
    <2>1. SUFFICES ASSUME NEW x \in Live', Version(x) \notin E
                   PROVE  x.time < c /\ \A p \in E : p.key = x.key => ~Precedes(p, x)
      BY DEF Forgettable
    <2>2. x \in Live /\ x.id # e.id
      BY <1>3, <1>6, <2>1
    <2>3. Version(x) \notin events
      BY <2>1, <2>2 DEF Version
    <2>4. x.time < c /\ \A p \in events : p.key = x.key => ~Precedes(p, x)
      BY <2>2, <2>3 DEF Remembered, DroppedInv, Forgettable
    <2>5. x.time \in Int
      BY <2>2, LiveTyped DEF Remembered
    <2>6. e.time > x.time
      BY <1>1, <1>2, <1>3, <1>4, <2>4, <2>5, WindowAssumption
    <2>7. ~Precedes(e, x)
      BY <1>3, <2>5, <2>6 DEF Precedes
    <2> QED
      BY <2>4, <2>7
  <1>9. \A x \in ledger' : x.removed => Tombstone(x) \in T \/ x.time < c
    BY <1>1, <1>3 DEF Remembered, RemovedInv, Tombstone
  <1>10. E \in SUBSET Inputs /\ \A t \in T : t.id \in Nat /\ t.revision \in Nat /\ t.time \in Int
    BY <1>2
  <1> HIDE DEF E, T, c
  <1> QED
    BY <1>1, <1>2, <1>5, <1>7, <1>8, <1>9, <1>10, CommitStep DEF c

(* Operations that accept no new version.                                   *)
LEMMA SameLedgerStep ==
  ASSUME Remembered, NEW end \in 0 .. MaxTime, NEW mark \in 0 .. end,
         end >= evaluationTime, mark >= watermark,
         NEW O, DOMAIN O \subseteq Sources, \A s \in DOMAIN O : O[s] \in Nat,
         Commit(events, tombstones, end, mark, O), UNCHANGED ledger
  PROVE  Remembered'
  <1>1. events \in SUBSET Inputs /\ \A t \in tombstones : t.id \in Nat /\ t.revision \in Nat /\ t.time \in Int
    BY DEF Remembered, TypeOK
  <1>2. Live' = Live
    BY DEF Live
  <1>3. LedgerInv' /\ \A e \in events : \E x \in Live' : e = Version(x)
    BY <1>2 DEF Remembered, LedgerInv, StoredInv
  <1>4. Forgettable(Live', events, Cutoff(evaluationTime, watermark))
    BY <1>2 DEF Remembered, DroppedInv
  <1>5. \A x \in ledger' : x.removed =>
          Tombstone(x) \in tombstones \/ x.time < Cutoff(evaluationTime, watermark)
    BY DEF Remembered, RemovedInv
  <1> QED
    BY <1>1, <1>3, <1>4, <1>5, CommitStep

(* A removed event is buried until the cutoff passes it.                    *)
LEMMA RemoveStep ==
  ASSUME Remembered, NEW r \in Removals, Remove(r)
  PROVE  Remembered'
  <1>1. PICK old \in events :
          /\ old.id = r.id
          /\ r.revision > old.revision
          /\ Commit(events \ {old},
                    tombstones \cup {[id |-> r.id, revision |-> r.revision, time |-> old.time]},
                    evaluationTime, watermark, offsets)
          /\ ledger' = {x \in ledger : x.id # r.id}
                         \cup {[id |-> r.id, time |-> old.time, key |-> old.key, value |-> old.value,
                                revision |-> r.revision, removed |-> TRUE]}
    BY DEF Remove
  <1> DEFINE entry == [id |-> r.id, time |-> old.time, key |-> old.key, value |-> old.value,
                       revision |-> r.revision, removed |-> TRUE]
             tomb  == [id |-> r.id, revision |-> r.revision, time |-> old.time]
             E     == events \ {old}
             T     == tombstones \cup {tomb}
             c     == Cutoff(evaluationTime, watermark)
  <1>2. /\ evaluationTime \in 0 .. MaxTime /\ watermark \in 0 .. evaluationTime
        /\ evaluationTime \in Int /\ watermark \in Int
        /\ events \in SUBSET Inputs
        /\ \A t \in tombstones : t.id \in Nat /\ t.revision \in Nat /\ t.time \in Int
        /\ DOMAIN offsets \subseteq Sources /\ \A s \in DOMAIN offsets : offsets[s] \in Nat
    BY WindowAssumption DEF Remembered, TypeOK
  <1>3. /\ r.id \in Nat /\ r.revision \in Nat /\ old.time \in Int
        /\ entry.id = r.id /\ entry.time = old.time /\ entry.revision = r.revision
        /\ entry.removed /\ entry.removed \in BOOLEAN
        /\ Tombstone(entry) = tomb
        /\ tomb.id = r.id /\ tomb.revision = r.revision /\ tomb.time = old.time
    BY <1>2, InputAssumption DEF Tombstone
  <1>4. ledger' = {x \in ledger : x.id # r.id} \cup {entry}
    BY <1>1
  <1> HIDE DEF entry, tomb
  <1>5. LedgerInv'
    <2>1. ASSUME NEW x \in ledger'
          PROVE  /\ x.id \in Nat /\ x.time \in Int /\ x.revision \in Nat
                 /\ x.removed \in BOOLEAN
      <3>1. CASE x \in ledger
        BY <3>1 DEF Remembered, LedgerInv
      <3>2. CASE x = entry
        BY <1>3, <3>2
      <3> QED
        BY <1>4, <3>1, <3>2
    <2>2. \A x, y \in ledger' : x.id = y.id => x = y
      BY <1>3, <1>4 DEF Remembered, LedgerInv
    <2> QED
      BY <2>1, <2>2 DEF LedgerInv
  <1>6. Live' = {x \in Live : x.id # r.id}
    BY <1>3, <1>4 DEF Live
  <1>7. \A d \in events : d.id = r.id => d = old
    <2>1. TAKE d \in events
    <2>2. HAVE d.id = r.id
    <2>3. PICK y \in Live : old = Version(y)
      BY DEF Remembered, StoredInv
    <2>4. y \in ledger /\ y.id = d.id
      BY <1>1, <2>2, <2>3 DEF Version, Live
    <2> QED
      BY <2>3, <2>4, StoredVersion
  <1>8. \A d \in E : \E x \in Live' : d = Version(x)
    <2>1. TAKE d \in E
    <2>2. PICK x \in Live : d = Version(x)
      BY DEF Remembered, StoredInv
    <2>3. x.id # r.id
      BY <1>7, <2>2 DEF Version
    <2> QED
      BY <1>6, <2>2, <2>3
  <1>9. Forgettable(Live', E, c)
    <2>1. SUFFICES ASSUME NEW x \in Live', Version(x) \notin E
                   PROVE  x.time < c /\ \A p \in E : p.key = x.key => ~Precedes(p, x)
      BY DEF Forgettable
    <2>2. x \in Live /\ Version(x) \notin events
      BY <1>1, <1>6, <2>1 DEF Version
    <2> QED
      BY <2>2 DEF Remembered, DroppedInv, Forgettable
  <1>10. \A x \in ledger' : x.removed => Tombstone(x) \in T \/ x.time < c
    BY <1>3, <1>4 DEF Remembered, RemovedInv
  <1>11. E \in SUBSET Inputs /\ \A t \in T : t.id \in Nat /\ t.revision \in Nat /\ t.time \in Int
    BY <1>2, <1>3
  <1>12. Commit(E, T, evaluationTime, watermark, offsets)
    BY <1>1 DEF tomb
  <1> HIDE DEF E, T, c
  <1> QED
    BY <1>2, <1>5, <1>8, <1>9, <1>10, <1>11, <1>12, CommitStep DEF c

(* A forgotten key leaves the store and the ledger alike.                   *)
LEMMA ForgetKeyStep ==
  ASSUME Remembered, NEW k \in Keys, ForgetKey(k)
  PROVE  Remembered'
  <1> DEFINE E == {e \in events : e.key # k}
             c == Cutoff(evaluationTime, watermark)
  <1>1. /\ Commit(E, tombstones, evaluationTime, watermark, offsets)
        /\ ledger' = {x \in ledger : x.key # k}
    BY DEF ForgetKey
  <1>2. /\ evaluationTime \in 0 .. MaxTime /\ watermark \in 0 .. evaluationTime
        /\ evaluationTime \in Int /\ watermark \in Int
        /\ E \in SUBSET Inputs
        /\ \A t \in tombstones : t.id \in Nat /\ t.revision \in Nat /\ t.time \in Int
        /\ DOMAIN offsets \subseteq Sources /\ \A s \in DOMAIN offsets : offsets[s] \in Nat
    BY WindowAssumption DEF Remembered, TypeOK
  <1>3. LedgerInv'
    BY <1>1 DEF Remembered, LedgerInv
  <1>4. Live' = {x \in Live : x.key # k}
    BY <1>1 DEF Live
  <1>5. \A e \in E : \E x \in Live' : e = Version(x)
    BY <1>4 DEF Remembered, StoredInv, Version
  <1>6. Forgettable(Live', E, c)
    BY <1>4 DEF Remembered, DroppedInv, Forgettable, Version
  <1>7. \A x \in ledger' : x.removed => Tombstone(x) \in tombstones \/ x.time < c
    BY <1>1 DEF Remembered, RemovedInv
  <1> HIDE DEF E, c
  <1> QED
    BY <1>1, <1>2, <1>3, <1>5, <1>6, <1>7, CommitStep DEF c

(* Every operation keeps what the store owes about what it forgot.          *)
LEMMA RememberedStep ==
  ASSUME Remembered, [Next]_vars
  PROVE  Remembered'
  <1>1. /\ evaluationTime \in 0 .. MaxTime /\ watermark \in 0 .. evaluationTime
        /\ evaluationTime \in Int /\ watermark \in Int
        /\ DOMAIN offsets \subseteq Sources /\ \A s \in DOMAIN offsets : offsets[s] \in Nat
    BY WindowAssumption DEF Remembered, TypeOK
  <1>2. ASSUME NEW e \in Inputs, Upsert(e)
        PROVE  Remembered'
    <2>1. CASE AcceptChanged(e, offsets)
      BY <1>1, <2>1, AcceptStep
    <2>2. CASE AcceptRetry(e, offsets)
      BY <1>1, <2>2, SameLedgerStep DEF AcceptRetry
    <2> QED
      BY <1>2, <2>1, <2>2 DEF Upsert, Accept
  <1>3. ASSUME NEW r \in Removals, Remove(r)
        PROVE  Remembered'
    BY <1>3, RemoveStep
  <1>4. ASSUME NEW end \in 0 .. MaxTime, NEW mark \in 0 .. MaxTime, Advance(end, mark)
        PROVE  Remembered'
    <2>1. mark \in 0 .. end
      BY <1>4 DEF Advance
    <2> QED
      BY <1>1, <1>4, <2>1, SameLedgerStep DEF Advance
  <1>5. ASSUME NEW k \in Keys, ForgetKey(k)
        PROVE  Remembered'
    BY <1>5, ForgetKeyStep
  <1>6. CASE UNCHANGED vars
    BY <1>6 DEF vars, Remembered, TypeOK, LedgerInv, StoredInv, DroppedInv, RemovedInv, ReadersAgree,
                Live, Forgettable, Cutoff, Start, Rows, HistoryRows, Active, Predecessors
  <1> QED
    BY <1>2, <1>3, <1>4, <1>5, <1>6 DEF Next

(* What the store has forgotten is settled, and its readers are current.    *)
THEOREM WindowRemembers == Spec => []Remembered
  BY InitStep, RememberedStep, PTL DEF Spec

(* Retained events, tombstones, offsets and clocks keep their types.        *)
THEOREM WindowTypeCorrect == Spec => []TypeOK
  <1>1. Remembered => TypeOK
    BY DEF Remembered
  <1> QED
    BY <1>1, WindowRemembers, PTL

(* A reader that applies every reported change has the current relations.   *)
THEOREM ReadersCorrect == Spec => []ReadersAgree
  <1>1. Remembered => ReadersAgree
    BY DEF Remembered
  <1> QED
    BY <1>1, WindowRemembers, PTL

-----------------------------------------------------------------------------
(* What follows for the relations                                           *)

(* Stored events and live versions are the same where it matters: a live    *)
(* version that is not stored is older than the window and than every       *)
(* stored event of its key.                                                 *)
LEMMA StoredOrSettled ==
  ASSUME Remembered
  PROVE  /\ \A e \in events : \E x \in Live : e = Version(x)
         /\ \A e \in events : e.time \in Int /\ e.id \in Nat
         /\ \A x \in Live : x.time \in Int /\ x.id \in Nat
         /\ \A x \in Live : Version(x) \notin events =>
              /\ x.time < Start(evaluationTime)
              /\ \A p \in events : p.key = x.key => ~Precedes(p, x)
  <1>1. evaluationTime \in Int /\ watermark \in Int /\ events \subseteq Inputs
    BY WindowAssumption DEF Remembered, TypeOK
  <1>2. \A x \in Live : x.time \in Int /\ x.id \in Nat
    BY LiveTyped DEF Remembered
  <1>3. /\ Cutoff(evaluationTime, watermark) \in Int
        /\ Cutoff(evaluationTime, watermark) <= Start(evaluationTime)
        /\ Start(evaluationTime) \in Int
    <2>1. Start(evaluationTime) \in Int
      BY <1>1, WindowAssumption DEF Start
    <2> QED
      BY <1>1, <2>1, CutoffBounds
  <1>4. ASSUME NEW x \in Live, Version(x) \notin events
        PROVE  /\ x.time < Start(evaluationTime)
               /\ \A p \in events : p.key = x.key => ~Precedes(p, x)
    BY <1>2, <1>3, <1>4 DEF Remembered, DroppedInv, Forgettable
  <1> QED
    BY <1>1, <1>2, <1>4, InputAssumption DEF Remembered, StoredInv

(* The active relation is that of a store that never prunes.                *)
LEMMA ActiveFromRemembered ==
  ASSUME Remembered
  PROVE  ActiveIsExact
  <1>1. ASSUME NEW e \in Active(events, evaluationTime)
        PROVE  Row(e) \in Rows(Live, evaluationTime)
    <2>1. PICK x \in Live : e = Version(x)
      BY <1>1, StoredOrSettled DEF Active
    <2>2. x \in Active(Live, evaluationTime) /\ Row(x) = Row(e)
      BY <1>1, <2>1 DEF Active, Version, Row
    <2> QED
      BY <2>2 DEF Rows
  <1>2. ASSUME NEW x \in Active(Live, evaluationTime)
        PROVE  Row(x) \in Rows(events, evaluationTime)
    <2>1. x \in Live /\ Start(evaluationTime) <= x.time /\ x.time < evaluationTime
      BY <1>2 DEF Active
    <2>2. evaluationTime \in Int /\ Start(evaluationTime) \in Int
      BY WindowAssumption DEF Remembered, TypeOK, Start
    <2>3. Version(x) \in events
      BY <2>1, <2>2, StoredOrSettled
    <2>4. Version(x) \in Active(events, evaluationTime) /\ Row(Version(x)) = Row(x)
      BY <2>1, <2>3 DEF Active, Version, Row
    <2> QED
      BY <2>4 DEF Rows
  <1> QED
    BY <1>1, <1>2 DEF ActiveIsExact, Rows

(* A stored predecessor is the predecessor among all live versions.         *)
LEMMA HistoryFromRemembered ==
  ASSUME Remembered
  PROVE  HistoryIsSound
  <1>1. ASSUME NEW e \in Predecessors(events, evaluationTime)
        PROVE  \E x \in Predecessors(Live, evaluationTime) : Row(e) = Row(x)
    <2>1. /\ e \in events /\ e.time < Start(evaluationTime)
          /\ \A f \in events : f.time < Start(evaluationTime) /\ f.key = e.key => ~Precedes(e, f)
      BY <1>1 DEF Predecessors
    <2>2. PICK x \in Live : e = Version(x)
      BY <2>1, StoredOrSettled
    <2>3. ASSUME NEW y \in Live, y.time < Start(evaluationTime), y.key = x.key
          PROVE  ~Precedes(x, y)
      <3>1. CASE Version(y) \in events
        <4>1. ~Precedes(e, Version(y))
          BY <2>1, <2>2, <2>3, <3>1 DEF Version
        <4> QED
          BY <2>2, <4>1 DEF Precedes, Version
      <3>2. CASE Version(y) \notin events
        <4>1. ~Precedes(e, y)
          BY <2>1, <2>2, <2>3, <3>2, StoredOrSettled DEF Version
        <4> QED
          BY <2>2, <4>1 DEF Precedes, Version
      <3> QED
        BY <3>1, <3>2
    <2>4. x \in Predecessors(Live, evaluationTime) /\ Row(x) = Row(e)
      BY <2>1, <2>2, <2>3 DEF Predecessors, Version, Row
    <2> QED
      BY <2>4
  <1>2. Rows(events, evaluationTime) = Rows(Live, evaluationTime)
    BY ActiveFromRemembered DEF ActiveIsExact
  <1> QED
    BY <1>1, <1>2 DEF HistoryIsSound, HistoryRows

(* An event and its stored predecessor are adjacent among all live versions.*)
LEMMA EntriesFromRemembered ==
  ASSUME Remembered
  PROVE  EntriesAreSound
  <1>1. SUFFICES ASSUME NEW e \in Active(events, evaluationTime), e.value \in Inside,
                        NEW p \in events, IsPredecessor(p, e, events), p.value \notin Inside
                 PROVE  Row(e) \in EntryRows(Live, evaluationTime)
    BY DEF EntriesAreSound, EntryRows
  <1>2. PICK x \in Live : e = Version(x)
    BY <1>1, StoredOrSettled DEF Active
  <1>3. PICK y \in Live : p = Version(y)
    BY <1>1, StoredOrSettled
  <1>4. y.key = x.key /\ Precedes(y, x)
    BY <1>1, <1>2, <1>3 DEF IsPredecessor, Precedes, Version
  <1>5. ASSUME NEW z \in Live, z.key = x.key, Precedes(z, x)
        PROVE  ~Precedes(y, z)
    <2>1. CASE Version(z) \in events
      <3>1. ~Precedes(p, Version(z))
        BY <1>1, <1>2, <1>5, <2>1 DEF IsPredecessor, Precedes, Version
      <3> QED
        BY <1>3, <3>1 DEF Precedes, Version
    <2>2. CASE Version(z) \notin events
      <3>1. ~Precedes(p, z)
        BY <1>3, <1>4, <1>5, <2>2, StoredOrSettled DEF Version
      <3> QED
        BY <1>3, <3>1 DEF Precedes, Version
    <2> QED
      BY <2>1, <2>2
  <1>6. IsPredecessor(y, x, Live)
    BY <1>4, <1>5 DEF IsPredecessor
  <1>7. x \in Active(Live, evaluationTime) /\ x.value \in Inside /\ y.value \notin Inside /\ Row(x) = Row(e)
    BY <1>1, <1>2, <1>3 DEF Active, Version, Row
  <1> QED
    BY <1>6, <1>7 DEF EntryRows

(* A version only gives way to a newer one while it can be corrected.       *)
LEMMA RevisionsFromRemembered ==
  ASSUME Remembered, [Next]_vars
  PROVE  \A x \in ledger : \A y \in ledger' :
           (x.id = y.id /\ x # y) => y.revision > x.revision \/ x.time < watermark - Lateness
  <1>1. SUFFICES ASSUME NEW x \in ledger, NEW y \in ledger', x.id = y.id, x # y
                 PROVE  y.revision > x.revision \/ x.time < watermark - Lateness
    OBVIOUS
  <1>2. /\ x.time \in Int /\ x.revision \in Nat /\ y \notin ledger
        /\ evaluationTime \in Int /\ watermark \in Int
    BY <1>1, WindowAssumption DEF Remembered, LedgerInv, TypeOK
  <1>3. /\ Cutoff(evaluationTime, watermark) \in Int
        /\ Cutoff(evaluationTime, watermark) <= watermark - Lateness
    BY <1>2, CutoffBounds
  <1>4. ASSUME NEW e \in Inputs, AcceptChanged(e, offsets)
        PROVE  y.revision > x.revision \/ x.time < watermark - Lateness
    <2>1. y = Entry(e) /\ y.revision = e.revision /\ x.id = e.id
      BY <1>1, <1>2, <1>4 DEF AcceptChanged, Entry
    <2>2. CASE x.removed
      <3>1. CASE Tombstone(x) \in tombstones
        BY <1>4, <2>1, <3>1 DEF AcceptChanged, Tombstone
      <3>2. CASE x.time < Cutoff(evaluationTime, watermark)
        BY <1>2, <1>3, <3>2, WindowAssumption
      <3> QED
        BY <2>2, <3>1, <3>2 DEF Remembered, RemovedInv
    <2>3. CASE ~x.removed /\ Version(x) \in events
      BY <1>4, <2>1, <2>3 DEF AcceptChanged, Version
    <2>4. CASE ~x.removed /\ Version(x) \notin events
      <3>1. x.time < Cutoff(evaluationTime, watermark)
        BY <2>4 DEF Remembered, DroppedInv, Forgettable, Live
      <3> QED
        BY <1>2, <1>3, <3>1, WindowAssumption
    <2> QED
      BY <2>2, <2>3, <2>4
  <1>5. ASSUME NEW r \in Removals, Remove(r)
        PROVE  y.revision > x.revision
    <2>1. PICK old \in events :
            /\ old.id = r.id /\ r.revision > old.revision
            /\ ledger' = {z \in ledger : z.id # r.id}
                           \cup {[id |-> r.id, time |-> old.time, key |-> old.key,
                                  value |-> old.value, revision |-> r.revision, removed |-> TRUE]}
      BY <1>5 DEF Remove
    <2>2. y.id = r.id /\ y.revision = r.revision
      BY <1>2, <2>1
    <2>3. old = Version(x)
      BY <1>1, <2>1, <2>2, StoredVersion
    <2> QED
      BY <2>1, <2>2, <2>3 DEF Version
  <1>6. CASE UNCHANGED ledger \/ \E k \in Keys : ForgetKey(k)
    BY <1>2, <1>6 DEF ForgetKey
  <1> QED
    BY <1>4, <1>5, <1>6 DEF Next, vars, Upsert, Accept, AcceptRetry, Advance

-----------------------------------------------------------------------------
(* The active relation is that of a store that never prunes.                *)
THEOREM ActiveExact == Spec => []ActiveIsExact
  BY WindowRemembers, ActiveFromRemembered, PTL

(* No older event takes the place of a predecessor that was pruned.         *)
THEOREM HistorySound == Spec => []HistoryIsSound
  BY WindowRemembers, HistoryFromRemembered, PTL

(* No entry is reported across a gap that pruning left.                     *)
THEOREM EntriesSound == Spec => []EntriesAreSound
  BY WindowRemembers, EntriesFromRemembered, PTL

(* No version is set back while it can be corrected.                        *)
THEOREM RevisionsCorrect == Spec => RevisionsAdvance
  <1>1. Remembered /\ [Next]_vars =>
          [\A x \in ledger : \A y \in ledger' :
             (x.id = y.id /\ x # y) => y.revision > x.revision \/ x.time < watermark - Lateness]_vars
    BY RevisionsFromRemembered
  <1> QED
    BY <1>1, WindowRemembers, PTL DEF Spec, RevisionsAdvance

-----------------------------------------------------------------------------
(***************************************************************************)
(* Recovery for every log, every order of delivery and every sequence of   *)
(* checkpoints and restarts.                                               *)
(***************************************************************************)

(* The checkpoint, as the state of a store.                                 *)
Saved == INSTANCE WindowRecovery WITH
  events <- saved.events, tombstones <- saved.tombstones, offsets <- saved.offsets,
  evaluationTime <- saved.evaluationTime, watermark <- saved.watermark,
  revision <- saved.revision, ledger <- saved.ledger, origin <- saved.origin,
  view <- Rows(saved.events, saved.evaluationTime),
  history <- HistoryRows(saved.events, saved.evaluationTime)

(* The store and the checkpoint are both fed from the logs, and restore     *)
(* would accept either.                                                     *)
RecoveryInv ==
  /\ FedFromLogs /\ Accepts(Snapshot)
  /\ Saved!FedFromLogs /\ Accepts(saved)

-----------------------------------------------------------------------------
(* Restorable checkpoints                                                   *)

(* Pruning twice prunes nothing more.                                       *)
LEMMA PruningIdempotent ==
  ASSUME NEW E, NEW end, NEW mark
  PROVE  Retained(Retained(E, end, mark), end, mark) = Retained(E, end, mark)
  <1> DEFINE kept == Retained(E, end, mark)
  <1>1. kept \subseteq E
    BY RetainedSubset
  <1>2. Retained(kept, end, mark) \subseteq kept
    BY RetainedSubset
  <1>3. ASSUME NEW e \in kept
        PROVE  e \in Retained(kept, end, mark)
    <2>1. CASE e.time >= Cutoff(end, mark)
      BY <2>1 DEF Retained
    <2>2. CASE RetainPredecessor /\ e \in Predecessors(E, end)
      BY <1>1, <1>3, <2>2 DEF Retained, Predecessors
    <2> QED
      BY <1>3, <2>1, <2>2 DEF Retained
  <1> QED
    BY <1>2, <1>3

(* What a commit leaves, restore accepts.                                   *)
LEMMA CommitAccepts ==
  ASSUME NEW E, NEW T, NEW end, NEW mark, NEW O,
         \A t \in T : \A e \in E : t.id # e.id,
         Commit(E, T, end, mark, O)
  PROVE  Accepts(Snapshot)'
  <1>1. /\ events' = Retained(E, end, mark)
        /\ tombstones' = {t \in T : t.time >= Cutoff(end, mark)}
        /\ offsets' = O /\ evaluationTime' = end /\ watermark' = mark
        /\ WithinCapacity(events', tombstones', O)
    BY DEF Commit
  <1>2. Retained(events', end, mark) = events'
    BY <1>1, PruningIdempotent
  <1>3. events' \subseteq E
    BY <1>1, RetainedSubset
  <1>4. Accepts([events |-> events', tombstones |-> tombstones', offsets |-> offsets',
                 evaluationTime |-> evaluationTime', watermark |-> watermark',
                 revision |-> revision', ledger |-> ledger', origin |-> origin'])
    BY <1>1, <1>2, <1>3 DEF Accepts
  <1> QED
    BY <1>4 DEF Snapshot, Accepts, Retained, Predecessors, Cutoff, Start, WithinCapacity

(* An empty store is within every capacity.                                 *)
LEMMA EmptyAccepts ==
  ASSUME Init
  PROVE  Accepts(Snapshot)
  <1>1. Cardinality({}) = 0
    BY FS_EmptySet
  <1>2. {e.key : e \in {}} = {} /\ DOMAIN offsets = {}
    BY DEF Init
  <1>3. \A n \in Nat : n * 0 = 0
    OBVIOUS
  <1>4. /\ MaxEvents \in Nat /\ MaxKeys \in Nat /\ MaxBytes \in Nat /\ MaxSources \in Nat
        /\ EventBytes \in Nat /\ TombstoneBytes \in Nat /\ SourceBytes \in Nat
    BY WindowAssumption
  <1>5. WithinCapacity({}, {}, offsets)
    <2>1. EventBytes * 0 = 0 /\ TombstoneBytes * 0 = 0 /\ SourceBytes * 0 = 0
      BY <1>3, <1>4
    <2>2. /\ Cardinality({e.key : e \in {}}) = 0 /\ Cardinality(DOMAIN offsets) = 0
          /\ 0 + 0 <= MaxEvents /\ 0 <= MaxKeys /\ 0 + 0 + 0 <= MaxBytes /\ 0 <= MaxSources
      BY <1>1, <1>2, <1>4
    <2> QED
      BY <1>1, <2>1, <2>2, Zenon DEF WithinCapacity
  <1>6. Retained({}, evaluationTime, watermark) = {}
    BY RetainedSubset
  <1> QED
    BY <1>5, <1>6 DEF Init, Accepts, Snapshot

(* The store holds one version of each event.                               *)
LEMMA OneEventPerId ==
  ASSUME Remembered, NEW d \in events, NEW e \in events, d.id = e.id
  PROVE  d = e
  <1>1. PICK y \in Live : e = Version(y)
    BY DEF Remembered, StoredInv
  <1>2. y \in ledger /\ y.id = d.id
    BY <1>1 DEF Version, Live
  <1> QED
    BY <1>1, <1>2, StoredVersion

-----------------------------------------------------------------------------
(* Deliveries                                                               *)

(* A record of a log is an input of the store.                              *)
LEMMA LogRecord ==
  ASSUME NEW s \in Sources, NEW i \in DOMAIN Log[s]
  PROVE  Log[s][i] \in Inputs /\ i \in Nat \ {0} /\ DOMAIN Log[s] = 1 .. Len(Log[s]) /\ Len(Log[s]) \in Nat
  BY LogAssumption

(* What was accepted lies in the logs before the offsets.                   *)
LEMMA AcceptedMembers ==
  \A f : f \in Accepted <=>
           \E s \in DOMAIN offsets : \E i \in origin[s] + 1 .. offsets[s] + 1 : f = Log[s][i]
  BY DEF Accepted

(* Accepted records are inputs of the store.                                *)
LEMMA AcceptedInputs ==
  ASSUME OriginInv
  PROVE  \A f \in Accepted :
           \E t \in Sources : \E j \in DOMAIN Log[t] : f = Log[t][j] /\ f \in Inputs
  <1>1. TAKE f \in Accepted
  <1>2. PICK t \in DOMAIN offsets : \E j \in origin[t] + 1 .. offsets[t] + 1 : f = Log[t][j]
    BY AcceptedMembers
  <1>3. PICK j \in origin[t] + 1 .. offsets[t] + 1 : f = Log[t][j]
    BY <1>2
  <1>4. t \in Sources /\ origin[t] \in Nat /\ offsets[t] \in Nat /\ offsets[t] + 1 \in DOMAIN Log[t]
    BY DEF OriginInv
  <1>5. j \in DOMAIN Log[t]
    BY <1>4, LogRecord
  <1> QED
    BY <1>3, <1>4, <1>5, LogRecord

(* Offsets taken in order add one record to the accepted ones, and it is    *)
(* the newest of its event.                                                 *)
LEMMA AcceptedGrows ==
  ASSUME OriginInv, ~AllowOffsetGaps, NEW s \in Sources, NEW i \in DOMAIN Log[s], Deliver(s, i)
  PROVE  /\ OriginInv'
         /\ Accepted' = Accepted \cup {Log[s][i]}
         /\ \A f \in Accepted : f.id = Log[s][i].id => f.revision <= Log[s][i].revision
  <1> DEFINE O == [t \in DOMAIN offsets \cup {s} |-> IF t = s THEN i - 1 ELSE offsets[t]]
             P == [t \in DOMAIN offsets \cup {s} |-> IF t \in DOMAIN origin THEN origin[t] ELSE i - 1]
  <1>1. /\ s \in DOMAIN offsets => i - 1 = offsets[s] + 1
        /\ offsets' = O /\ origin' = P
    BY DEF Deliver, UpsertFrom, Accept, AcceptChanged, AcceptRetry, Commit
  <1>2. /\ i \in Nat \ {0} /\ DOMAIN O = DOMAIN offsets \cup {s} /\ DOMAIN P = DOMAIN offsets \cup {s}
        /\ O[s] = i - 1 /\ \A t \in DOMAIN offsets \ {s} : O[t] = offsets[t] /\ P[t] = origin[t]
        /\ P[s] = IF s \in DOMAIN offsets THEN origin[s] ELSE i - 1
    BY LogRecord DEF OriginInv
  <1>3. OriginInv'
    <2>1. ASSUME NEW t \in DOMAIN O
          PROVE  /\ t \in Sources /\ P[t] \in Nat /\ O[t] \in Nat
                 /\ P[t] <= O[t] /\ O[t] + 1 \in DOMAIN Log[t]
      <3>1. CASE t = s
        BY <1>1, <1>2, <3>1 DEF OriginInv
      <3>2. CASE t # s
        BY <1>2, <2>1, <3>2 DEF OriginInv
      <3> QED
        BY <3>1, <3>2
    <2> QED
      BY <1>1, <1>2, <2>1 DEF OriginInv
  <1>4. ASSUME NEW f \in Accepted
        PROVE  /\ \E t \in DOMAIN O : \E j \in P[t] + 1 .. O[t] + 1 : f = Log[t][j]
               /\ f.id = Log[s][i].id => f.revision <= Log[s][i].revision
    <2>1. PICK t \in DOMAIN offsets : \E j \in origin[t] + 1 .. offsets[t] + 1 : f = Log[t][j]
      BY AcceptedMembers
    <2>2. PICK j \in origin[t] + 1 .. offsets[t] + 1 : f = Log[t][j]
      BY <2>1
    <2>3. /\ t \in Sources /\ origin[t] \in Nat /\ offsets[t] \in Nat /\ offsets[t] + 1 \in DOMAIN Log[t]
      BY DEF OriginInv
    <2>4. j \in DOMAIN Log[t]
      BY <2>3, LogRecord
    <2>5. j \in P[t] + 1 .. O[t] + 1
      <3>1. CASE t = s
        BY <1>1, <1>2, <2>3, <3>1
      <3>2. CASE t # s
        BY <1>2, <3>2
      <3> QED
        BY <3>1, <3>2
    <2>6. ASSUME f.id = Log[s][i].id
          PROVE  f.revision <= Log[s][i].revision
      <3>1. t = s
        BY <2>2, <2>3, <2>4, <2>6, LogAssumption
      <3>2. j < i
        BY <1>1, <1>2, <2>3, <3>1
      <3> QED
        BY <2>2, <2>4, <2>6, <3>1, <3>2, LogAssumption
    <2> QED
      BY <1>2, <2>2, <2>5, <2>6
  <1>5. ASSUME NEW t \in DOMAIN O, NEW j \in P[t] + 1 .. O[t] + 1
        PROVE  Log[t][j] \in Accepted \cup {Log[s][i]}
    <2>1. CASE t = s /\ j # i
      <3>1. s \in DOMAIN offsets /\ j \in origin[s] + 1 .. offsets[s] + 1
        BY <1>1, <1>2, <1>5, <2>1 DEF OriginInv
      <3> QED
        BY <2>1, <3>1, AcceptedMembers
    <2>2. CASE t # s
      BY <1>2, <1>5, <2>2, AcceptedMembers
    <2> QED
      BY <2>1, <2>2
  <1>6. i \in P[s] + 1 .. O[s] + 1
    BY <1>1, <1>2 DEF OriginInv
  <1>7. Accepted' = UNION {{Log[t][j] : j \in P[t] + 1 .. O[t] + 1} : t \in DOMAIN O}
    BY <1>1 DEF Accepted
  <1> HIDE DEF O, P
  <1>8. Accepted' = Accepted \cup {Log[s][i]}
    <2>1. \A f \in Accepted : f \in Accepted'
      BY <1>4, <1>7
    <2>2. \A f \in Accepted' : f \in Accepted \cup {Log[s][i]}
      BY <1>5, <1>7
    <2>3. Log[s][i] \in Accepted'
      BY <1>2, <1>6, <1>7
    <2> QED
      BY <2>1, <2>2, <2>3
  <1> QED
    BY <1>3, <1>4, <1>8

(* A delivered record is accepted once, and the logs still account for it.  *)
LEMMA DeliverStep ==
  ASSUME FedFromLogs, Accepts(Snapshot), ~AllowOffsetGaps, NEW s \in Sources, NEW i \in DOMAIN Log[s], Deliver(s, i)
  PROVE  FedFromLogs' /\ Accepts(Snapshot)'
  <1> DEFINE e == Log[s][i]
             O == [t \in DOMAIN offsets \cup {s} |-> IF t = s THEN i - 1 ELSE offsets[t]]
  <1>1. /\ AcceptChanged(e, O) \/ AcceptRetry(e, O)
        /\ e \in Inputs /\ i \in Nat \ {0}
    BY LogRecord DEF Deliver, UpsertFrom, Accept
  <1>2. DOMAIN O \subseteq Sources /\ \A t \in DOMAIN O : O[t] \in Nat
    BY <1>1 DEF FedFromLogs, OriginInv
  <1>3. /\ evaluationTime \in 0 .. MaxTime /\ watermark \in 0 .. evaluationTime
        /\ evaluationTime >= evaluationTime /\ watermark >= watermark
    BY WindowAssumption DEF FedFromLogs, Remembered, TypeOK
  <1>4. Remembered'
    <2>1. CASE AcceptChanged(e, O)
      BY <1>1, <1>2, <2>1, AcceptStep DEF FedFromLogs
    <2>2. CASE AcceptRetry(e, O)
      BY <1>2, <1>3, <2>2, SameLedgerStep DEF FedFromLogs, AcceptRetry
    <2> QED
      BY <1>1, <2>1, <2>2
  <1>5. /\ OriginInv' /\ Accepted' = Accepted \cup {e}
        /\ \A f \in Accepted : f.id = e.id => f.revision <= e.revision
    BY AcceptedGrows DEF FedFromLogs
  <1>6. \A f \in Accepted \cup {e} : f.revision \in Nat
    BY <1>1, AcceptedInputs, InputAssumption DEF FedFromLogs
  <1> HIDE DEF e, O
  <1>7. ReplayInv'
    <2>1. CASE AcceptChanged(e, O)
      <3>1. ledger' = {x \in ledger : x.id # e.id} \cup {Entry(e)}
        BY <2>1 DEF AcceptChanged, Entry
      <3>2. /\ Entry(e).id = e.id /\ Entry(e).revision = e.revision /\ ~Entry(e).removed
            /\ Version(Entry(e)) = e
        BY <1>1, InputAssumption DEF Entry, Version
      <3>3. ASSUME NEW x \in Live'
            PROVE  Version(x) \in Accepted'
        BY <1>5, <3>1, <3>2 DEF Live, FedFromLogs, ReplayInv
      <3>4. ASSUME NEW f \in Accepted'
            PROVE  \E x \in ledger' : x.id = f.id /\ f.revision <= x.revision
        <4>1. CASE f.id = e.id
          BY <1>5, <1>6, <3>1, <3>2, <4>1
        <4>2. CASE f.id # e.id
          BY <1>5, <3>1, <4>2 DEF FedFromLogs, ReplayInv
        <4> QED
          BY <4>1, <4>2
      <3>5. ASSUME NEW x \in ledger', NEW f \in Accepted', x.removed, x.id = f.id
            PROVE  f.revision < x.revision
        BY <1>5, <3>1, <3>2, <3>5 DEF FedFromLogs, ReplayInv
      <3> QED
        BY <3>3, <3>4, <3>5 DEF ReplayInv, Live
    <2>2. CASE AcceptRetry(e, O)
      <3>1. ledger' = ledger /\ e \in events
        BY <2>2 DEF AcceptRetry
      <3>2. PICK y \in Live : e = Version(y)
        BY <3>1 DEF FedFromLogs, Remembered, StoredInv
      <3>3. /\ y \in ledger /\ ~y.removed /\ y.id = e.id /\ y.revision = e.revision
            /\ Live' = Live
        BY <3>1, <3>2 DEF Live, Version
      <3>4. \A x \in ledger : x.id = e.id => x = y
        BY <3>3 DEF FedFromLogs, Remembered, LedgerInv
      <3> QED
        BY <1>5, <1>6, <3>1, <3>3, <3>4 DEF FedFromLogs, ReplayInv
    <2> QED
      BY <1>1, <2>1, <2>2
  <1>8. Accepts(Snapshot)'
    <2>1. \A t \in tombstones : \A d \in events : t.id # d.id
      BY DEF Accepts, Snapshot
    <2>2. CASE AcceptChanged(e, O)
      BY <2>1, <2>2, CommitAccepts DEF AcceptChanged
    <2>3. CASE AcceptRetry(e, O)
      BY <2>1, <2>3, CommitAccepts DEF AcceptRetry
    <2> QED
      BY <1>1, <2>2, <2>3
  <1> QED
    BY <1>4, <1>5, <1>7, <1>8 DEF FedFromLogs

(* Moving the clock accepts no record.                                      *)
LEMMA TickStep ==
  ASSUME FedFromLogs, Accepts(Snapshot), NEW end \in 0 .. MaxTime, NEW mark \in 0 .. MaxTime, Tick(end, mark)
  PROVE  FedFromLogs' /\ Accepts(Snapshot)'
  <1>1. /\ mark \in 0 .. end /\ end >= evaluationTime /\ mark >= watermark
        /\ Commit(events, tombstones, end, mark, offsets)
        /\ UNCHANGED <<ledger, origin>> /\ offsets' = offsets
    BY DEF Tick, Advance, Commit
  <1>2. DOMAIN offsets \subseteq Sources /\ \A s \in DOMAIN offsets : offsets[s] \in Nat
    BY DEF FedFromLogs, OriginInv
  <1>3. Remembered'
    BY <1>1, <1>2, SameLedgerStep DEF FedFromLogs
  <1>4. OriginInv' /\ ReplayInv'
    BY <1>1 DEF FedFromLogs, OriginInv, ReplayInv, Live, Accepted
  <1>5. Accepts(Snapshot)'
    BY <1>1, CommitAccepts DEF Accepts, Snapshot
  <1> QED
    BY <1>3, <1>4, <1>5 DEF FedFromLogs

(* A removal accepts no record, and is newer than every accepted one.       *)
LEMMA RecoveryRemoveStep ==
  ASSUME FedFromLogs, Accepts(Snapshot), NEW r \in Removals, Remove(r), UNCHANGED origin
  PROVE  FedFromLogs' /\ Accepts(Snapshot)'
  <1>1. PICK old \in events :
          /\ old.id = r.id
          /\ r.revision > old.revision
          /\ Commit(events \ {old},
                    tombstones \cup {[id |-> r.id, revision |-> r.revision, time |-> old.time]},
                    evaluationTime, watermark, offsets)
          /\ ledger' = {x \in ledger : x.id # r.id}
                         \cup {[id |-> r.id, time |-> old.time, key |-> old.key, value |-> old.value,
                                revision |-> r.revision, removed |-> TRUE]}
    BY DEF Remove
  <1> DEFINE entry == [id |-> r.id, time |-> old.time, key |-> old.key, value |-> old.value,
                       revision |-> r.revision, removed |-> TRUE]
  <1>2. Remembered'
    BY RemoveStep DEF FedFromLogs
  <1>3. offsets' = offsets
    BY <1>1 DEF Commit
  <1>4. OriginInv' /\ Accepted' = Accepted
    BY <1>3 DEF FedFromLogs, OriginInv, Accepted
  <1>5. ledger' = {x \in ledger : x.id # r.id} \cup {entry}
        /\ entry.id = r.id /\ entry.revision = r.revision /\ entry.removed
    BY <1>1
  <1>6. \A f \in Accepted : f.id = r.id => f.revision < r.revision
    <2>1. TAKE f \in Accepted
    <2>2. HAVE f.id = r.id
    <2>3. PICK x \in ledger : x.id = f.id /\ f.revision <= x.revision
      BY DEF FedFromLogs, ReplayInv
    <2>4. old = Version(x)
      BY <1>1, <2>2, <2>3, StoredVersion DEF FedFromLogs
    <2>5. x.revision = old.revision /\ x.revision \in Nat /\ r.revision \in Nat
      BY <2>4, InputAssumption DEF Version, FedFromLogs, Remembered, LedgerInv
    <2>6. f.revision \in Nat
      BY AcceptedInputs, InputAssumption DEF FedFromLogs
    <2> QED
      BY <1>1, <2>3, <2>5, <2>6
  <1> HIDE DEF entry
  <1>7. ReplayInv'
    <2>1. ASSUME NEW x \in Live'
          PROVE  Version(x) \in Accepted
      BY <1>5 DEF Live, FedFromLogs, ReplayInv
    <2>2. ASSUME NEW f \in Accepted
          PROVE  \E x \in ledger' : x.id = f.id /\ f.revision <= x.revision
      <3>1. CASE f.id = r.id
        <4>1. f.revision < r.revision
          BY <1>6, <3>1
        <4>2. PICK x \in ledger : x.id = f.id /\ f.revision <= x.revision
          BY DEF FedFromLogs, ReplayInv
        <4>3. f.revision <= r.revision
          BY <4>1, AcceptedInputs, InputAssumption DEF FedFromLogs
        <4> QED
          BY <1>5, <3>1, <4>3
      <3>2. CASE f.id # r.id
        BY <1>5, <3>2 DEF FedFromLogs, ReplayInv
      <3> QED
        BY <3>1, <3>2
    <2>3. ASSUME NEW x \in ledger', NEW f \in Accepted, x.removed, x.id = f.id
          PROVE  f.revision < x.revision
      BY <1>5, <1>6, <2>3 DEF FedFromLogs, ReplayInv
    <2> QED
      BY <1>4, <2>1, <2>2, <2>3 DEF ReplayInv, Live
  <1>8. Accepts(Snapshot)'
    <2>1. \A t \in tombstones : \A d \in events : t.id # d.id
      BY DEF Accepts, Snapshot
    <2>2. \A d \in events \ {old} : d.id # r.id
      BY <1>1, OneEventPerId DEF FedFromLogs
    <2> QED
      BY <1>1, <2>1, <2>2, CommitAccepts
  <1> QED
    BY <1>2, <1>4, <1>7, <1>8 DEF FedFromLogs

-----------------------------------------------------------------------------
(* Checkpoints and restarts                                                 *)

(* A snapshot of a store that was fed from the logs is one.                 *)
LEMMA SavedIsFed ==
  ASSUME FedFromLogs, saved = Snapshot
  PROVE  Saved!FedFromLogs
  <1>1. /\ saved.events = events /\ saved.tombstones = tombstones /\ saved.offsets = offsets
        /\ saved.evaluationTime = evaluationTime /\ saved.watermark = watermark
        /\ saved.revision = revision /\ saved.ledger = ledger /\ saved.origin = origin
    BY DEF Snapshot
  <1>2. Saved!Remembered
    <2>1. Saved!TypeOK
      BY <1>1 DEF FedFromLogs, Remembered, TypeOK, Saved!TypeOK
    <2>2. Saved!LedgerInv
      BY <1>1 DEF FedFromLogs, Remembered, LedgerInv, Saved!LedgerInv
    <2>3. Saved!StoredInv
      BY <1>1 DEF FedFromLogs, Remembered, StoredInv, Live, Version,
                  Saved!StoredInv, Saved!Live, Saved!Version
    <2>4. Saved!DroppedInv
      BY <1>1 DEF FedFromLogs, Remembered, DroppedInv, Forgettable, Live, Version, Cutoff, Start, Precedes,
                  Saved!DroppedInv, Saved!Forgettable, Saved!Live, Saved!Version, Saved!Cutoff,
                  Saved!Start, Saved!Precedes
    <2>5. Saved!RemovedInv
      BY <1>1 DEF FedFromLogs, Remembered, RemovedInv, Tombstone, Cutoff, Start,
                  Saved!RemovedInv, Saved!Tombstone, Saved!Cutoff, Saved!Start
    <2>6. Saved!ReadersAgree
      BY DEF Saved!ReadersAgree, Rows, HistoryRows, Active, Predecessors, Start, Row, Precedes,
             Saved!Rows, Saved!HistoryRows, Saved!Active, Saved!Predecessors, Saved!Start,
             Saved!Row, Saved!Precedes
    <2> QED
      BY <2>1, <2>2, <2>3, <2>4, <2>5, <2>6 DEF Saved!Remembered
  <1>3. Saved!OriginInv
    BY <1>1 DEF FedFromLogs, OriginInv, Saved!OriginInv
  <1>4. Saved!ReplayInv
    BY <1>1 DEF FedFromLogs, ReplayInv, Live, Version, Accepted,
                Saved!ReplayInv, Saved!Live, Saved!Version, Saved!Accepted
  <1> QED
    BY <1>2, <1>3, <1>4 DEF Saved!FedFromLogs

(* The same of the state after a step.                                      *)
LEMMA SavedIsFedNext == FedFromLogs' /\ (saved = Snapshot)' => Saved!FedFromLogs'
  <1>1. FedFromLogs /\ saved = Snapshot => Saved!FedFromLogs
    BY SavedIsFed
  <1> QED
    BY <1>1, PTL

(* An empty store was fed from logs of which nothing was delivered.         *)
LEMMA RecoveryInitStep ==
  ASSUME RecoveryInit
  PROVE  RecoveryInv
  <1>1. Remembered
    BY InitStep DEF RecoveryInit
  <1>2. OriginInv /\ Accepted = {} /\ ledger = {}
    BY DEF RecoveryInit, Init, OriginInv, Accepted
  <1>3. ReplayInv
    BY <1>2 DEF ReplayInv, Live
  <1>4. Accepts(Snapshot)
    BY EmptyAccepts DEF RecoveryInit
  <1>5. FedFromLogs
    BY <1>1, <1>2, <1>3 DEF FedFromLogs
  <1>6. saved = Snapshot
    BY DEF RecoveryInit
  <1> QED
    BY <1>4, <1>5, <1>6, SavedIsFed DEF RecoveryInv

(* A restored store is the checkpoint.                                      *)
LEMMA RestoreStep ==
  ASSUME Saved!FedFromLogs, Restore
  PROVE  FedFromLogs'
  <1>1. /\ events' = saved.events /\ tombstones' = saved.tombstones /\ offsets' = saved.offsets
        /\ evaluationTime' = saved.evaluationTime /\ watermark' = saved.watermark
        /\ revision' = saved.revision /\ ledger' = saved.ledger /\ origin' = saved.origin
        /\ view' = Rows(saved.events, saved.evaluationTime)
        /\ history' = HistoryRows(saved.events, saved.evaluationTime)
    BY DEF Restore
  <1>2. Remembered'
    <2>1. TypeOK'
      BY <1>1 DEF Saved!FedFromLogs, Saved!Remembered, TypeOK, Saved!TypeOK
    <2>2. LedgerInv'
      BY <1>1 DEF Saved!FedFromLogs, Saved!Remembered, LedgerInv, Saved!LedgerInv
    <2>3. StoredInv'
      BY <1>1 DEF Saved!FedFromLogs, Saved!Remembered, StoredInv, Live, Version,
                  Saved!StoredInv, Saved!Live, Saved!Version
    <2>4. DroppedInv'
      BY <1>1 DEF Saved!FedFromLogs, Saved!Remembered, DroppedInv, Forgettable, Live, Version,
                  Cutoff, Start, Precedes, Saved!DroppedInv, Saved!Forgettable, Saved!Live,
                  Saved!Version, Saved!Cutoff, Saved!Start, Saved!Precedes
    <2>5. RemovedInv'
      BY <1>1 DEF Saved!FedFromLogs, Saved!Remembered, RemovedInv, Tombstone, Cutoff, Start,
                  Saved!RemovedInv, Saved!Tombstone, Saved!Cutoff, Saved!Start
    <2>6. ReadersAgree'
      BY <1>1 DEF ReadersAgree, Rows, HistoryRows, Active, Predecessors, Start
    <2> QED
      BY <2>1, <2>2, <2>3, <2>4, <2>5, <2>6 DEF Remembered
  <1>3. OriginInv'
    BY <1>1 DEF Saved!FedFromLogs, OriginInv, Saved!OriginInv
  <1>4. ReplayInv'
    BY <1>1 DEF Saved!FedFromLogs, ReplayInv, Live, Version, Accepted,
                Saved!ReplayInv, Saved!Live, Saved!Version, Saved!Accepted
  <1> QED
    BY <1>2, <1>3, <1>4 DEF FedFromLogs

(* A step that writes no checkpoint keeps what the checkpoint carries.      *)
LEMMA SavedUnchanged ==
  ASSUME Saved!FedFromLogs, Accepts(saved), UNCHANGED saved
  PROVE  Saved!FedFromLogs' /\ Accepts(saved)'
  <1>1. Saved!Remembered'
    <2>1. Saved!TypeOK' /\ Saved!LedgerInv'
      BY DEF Saved!FedFromLogs, Saved!Remembered, Saved!TypeOK, Saved!LedgerInv
    <2>2. Saved!StoredInv' /\ Saved!DroppedInv' /\ Saved!RemovedInv'
      BY DEF Saved!FedFromLogs, Saved!Remembered, Saved!StoredInv, Saved!DroppedInv, Saved!RemovedInv,
             Saved!Forgettable, Saved!Live, Saved!Cutoff, Saved!Start
    <2>3. Saved!ReadersAgree'
      BY DEF Saved!FedFromLogs, Saved!Remembered, Saved!ReadersAgree, Rows, HistoryRows, Active,
             Predecessors, Start, Saved!Rows, Saved!HistoryRows, Saved!Active, Saved!Predecessors,
             Saved!Start
    <2> QED
      BY <2>1, <2>2, <2>3 DEF Saved!Remembered
  <1>2. Saved!OriginInv' /\ Saved!ReplayInv'
    BY DEF Saved!FedFromLogs, Saved!OriginInv, Saved!ReplayInv, Saved!Live, Saved!Accepted
  <1>3. Accepts(saved)'
    BY DEF Accepts, Retained, Predecessors, Cutoff, Start, WithinCapacity
  <1> QED
    BY <1>1, <1>2, <1>3 DEF Saved!FedFromLogs

(* Deliveries, removals, checkpoints and restarts keep the invariant.       *)
LEMMA RecoveryStep ==
  ASSUME RecoveryInv, ~AllowOffsetGaps, [RecoveryNext]_recoveryVars
  PROVE  RecoveryInv'
  <1>1. ASSUME UNCHANGED saved
        PROVE  Saved!FedFromLogs' /\ Accepts(saved)'
    BY <1>1, SavedUnchanged DEF RecoveryInv
  <1>2. ASSUME NEW s \in Sources, NEW i \in DOMAIN Log[s], Deliver(s, i)
        PROVE  RecoveryInv'
    <2>1. UNCHANGED saved
      BY <1>2 DEF Deliver
    <2> QED
      BY <1>1, <1>2, <2>1, DeliverStep DEF RecoveryInv
  <1>3. ASSUME NEW end \in 0 .. MaxTime, NEW mark \in 0 .. MaxTime, Tick(end, mark)
        PROVE  RecoveryInv'
    <2>1. UNCHANGED saved
      BY <1>3 DEF Tick
    <2> QED
      BY <1>1, <1>3, <2>1, TickStep DEF RecoveryInv
  <1>4. ASSUME NEW r \in Removals, Remove(r), UNCHANGED <<origin, saved>>
        PROVE  RecoveryInv'
    BY <1>1, <1>4, RecoveryRemoveStep DEF RecoveryInv
  <1>5. ASSUME UNCHANGED <<vars, origin>>
        PROVE  FedFromLogs' /\ Accepts(Snapshot)'
    <2>1. Remembered'
      BY <1>5, RememberedStep DEF RecoveryInv, FedFromLogs
    <2>2. OriginInv' /\ ReplayInv'
      BY <1>5 DEF RecoveryInv, FedFromLogs, OriginInv, ReplayInv, Live, Accepted, vars
    <2>3. Accepts(Snapshot)'
      BY <1>5 DEF RecoveryInv, Accepts, Snapshot, Retained, Predecessors, Cutoff, Start, WithinCapacity, vars
    <2> QED
      BY <2>1, <2>2, <2>3 DEF FedFromLogs
  <1>6. CASE Checkpoint
    <2>1. saved' = Snapshot /\ UNCHANGED <<vars, origin>>
      BY <1>6 DEF Checkpoint
    <2>2. FedFromLogs' /\ Accepts(Snapshot)'
      BY <1>5, <2>1
    <2>3. (saved = Snapshot)'
      BY <2>1 DEF Snapshot, vars
    <2>4. Saved!FedFromLogs'
      BY <2>2, <2>3, SavedIsFedNext
    <2>5. Accepts(saved)'
      BY <2>2, <2>3
    <2> QED
      BY <2>2, <2>4, <2>5 DEF RecoveryInv
  <1>7. CASE Restore
    <2>1. UNCHANGED saved /\ FedFromLogs'
      BY <1>7, RestoreStep DEF RecoveryInv, Restore
    <2>2. Accepts(Snapshot)'
      BY <1>7 DEF RecoveryInv, Restore, Accepts, Snapshot, Retained, Predecessors, Cutoff, Start,
                  WithinCapacity
    <2> QED
      BY <1>1, <2>1, <2>2 DEF RecoveryInv
  <1>8. CASE UNCHANGED recoveryVars
    <2>1. UNCHANGED <<vars, origin>> /\ UNCHANGED saved
      BY <1>8 DEF recoveryVars, vars
    <2> QED
      BY <1>1, <1>5, <2>1 DEF RecoveryInv
  <1> QED
    BY <1>2, <1>3, <1>4, <1>6, <1>7, <1>8 DEF RecoveryNext

(* What the theorems below rest on.                                         *)
THEOREM RecoveryInvariant ==
  ASSUME ~AllowOffsetGaps
  PROVE  RecoverySpec => []RecoveryInv
  <1>1. RecoveryInv /\ [RecoveryNext]_recoveryVars => RecoveryInv'
    BY RecoveryStep
  <1> QED
    BY <1>1, RecoveryInitStep, PTL DEF RecoverySpec

(* Every checkpoint can be restored.                                        *)
THEOREM CheckpointsRestorable ==
  ASSUME ~AllowOffsetGaps
  PROVE  RecoverySpec => []Restorable
  <1>1. RecoveryInv => Restorable
    BY DEF RecoveryInv, Restorable
  <1> QED
    BY <1>1, RecoveryInvariant, PTL

(* The live ledger is the replay of the logs up to the accepted offsets.    *)
LEMMA ReplayFromInvariant ==
  ASSUME FedFromLogs
  PROVE  ActiveIsReplay
  <1>1. ASSUME NEW x \in Live
        PROVE  Version(x) \in Replayed
    <2>1. Version(x) \in Accepted /\ Version(x).id = x.id /\ Version(x).revision = x.revision
          /\ x \in ledger /\ ~x.removed
      BY DEF FedFromLogs, ReplayInv, Version, Live
    <2>2. \A y \in ledger : y.id = x.id => y = x
      BY <2>1 DEF FedFromLogs, Remembered, LedgerInv
    <2>3. \A f \in Accepted : f.id = x.id => f.revision <= x.revision
      BY <2>2 DEF FedFromLogs, ReplayInv
    <2> QED
      BY <2>1, <2>2, <2>3 DEF Replayed
  <1>2. ASSUME NEW e \in Replayed
        PROVE  \E x \in Live : e = Version(x)
    <2>1. /\ e \in Accepted
          /\ \A f \in Accepted : f.id = e.id => f.revision <= e.revision
          /\ \A x \in ledger : x.id = e.id /\ x.removed => x.revision <= e.revision
      BY DEF Replayed
    <2>2. PICK x \in ledger : x.id = e.id /\ e.revision <= x.revision
      BY <2>1 DEF FedFromLogs, ReplayInv
    <2>3. x.revision \in Nat /\ x.removed \in BOOLEAN
      BY DEF FedFromLogs, Remembered, LedgerInv
    <2>4. e.revision \in Nat
      BY <2>1, AcceptedInputs, InputAssumption DEF FedFromLogs
    <2>5. ~x.removed
      <3>1. SUFFICES ASSUME x.removed PROVE FALSE
        OBVIOUS
      <3>2. e.revision < x.revision /\ x.revision <= e.revision
        BY <2>1, <2>2, <3>1 DEF FedFromLogs, ReplayInv
      <3> QED
        BY <2>3, <2>4, <3>2
    <2>6. x \in Live /\ Version(x) \in Accepted
      BY <2>5 DEF Live, FedFromLogs, ReplayInv
    <2>7. Version(x).id = e.id /\ Version(x).revision = x.revision
      BY <2>2 DEF Version
    <2>8. Version(x).revision = e.revision
      BY <2>1, <2>2, <2>3, <2>4, <2>6, <2>7
    <2>9. PICK s \in Sources, t \in Sources :
            /\ \E i \in DOMAIN Log[s] : e = Log[s][i]
            /\ \E j \in DOMAIN Log[t] : Version(x) = Log[t][j]
      BY <2>1, <2>6, AcceptedInputs DEF FedFromLogs
    <2>10. e = Version(x)
      BY <2>7, <2>8, <2>9, LogAssumption
    <2> QED
      BY <2>6, <2>10
  <1>3. \A x \in Live : Version(x).time = x.time /\ Row(Version(x)) = Row(x)
    BY DEF Version, Row
  <1>4. Rows(Live, evaluationTime) = Rows(Replayed, evaluationTime)
    <2>1. ASSUME NEW x \in Active(Live, evaluationTime)
          PROVE  Row(x) \in Rows(Replayed, evaluationTime)
      BY <1>1, <1>3 DEF Active, Rows
    <2>2. ASSUME NEW e \in Active(Replayed, evaluationTime)
          PROVE  Row(e) \in Rows(Live, evaluationTime)
      <3>1. PICK x \in Live : e = Version(x)
        BY <1>2 DEF Active
      <3> QED
        BY <1>3, <3>1 DEF Active, Rows
    <2> QED
      BY <2>1, <2>2 DEF Rows
  <1>5. Rows(events, evaluationTime) = Rows(Live, evaluationTime)
    BY ActiveFromRemembered DEF FedFromLogs, ActiveIsExact
  <1> QED
    BY <1>4, <1>5 DEF ActiveIsReplay

(* Whatever was redelivered, reordered or lost around restarts, the active  *)
(* relation is that of the logs up to the accepted offsets.                 *)
THEOREM ReplayCorrect ==
  ASSUME ~AllowOffsetGaps
  PROVE  RecoverySpec => []ActiveIsReplay
  <1>1. RecoveryInv => ActiveIsReplay
    BY ReplayFromInvariant DEF RecoveryInv
  <1> QED
    BY <1>1, RecoveryInvariant, PTL
=============================================================================
