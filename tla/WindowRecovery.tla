---------------------------- MODULE WindowRecovery ----------------------------
(***************************************************************************)
(* A window fed from sources that may redeliver, reorder, delay and lose   *)
(* their records, and whose process is replaced by one restored from the   *)
(* last checkpoint (windows.py: upsert with a source, checkpoint, restore).*)
(*                                                                         *)
(* origin is not state of the store: it remembers where each source began. *)
(***************************************************************************)
EXTENDS WindowStore, Sequences

CONSTANT Log   \* Log[s][i] is the record of source s at offset i - 1

(* A source publishes the versions of an event in order, and no two sources *)
(* publish the same event.                                                  *)
ASSUME LogAssumption ==
  /\ \A s \in Sources : Log[s] \in Seq(Inputs)
  /\ \A s, t \in Sources : \A i \in DOMAIN Log[s] : \A j \in DOMAIN Log[t] :
       Log[s][i].id = Log[t][j].id =>
         /\ s = t
         /\ i < j => Log[s][i].revision <= Log[t][j].revision
         /\ Log[s][i].revision = Log[t][j].revision => Log[s][i] = Log[t][j]

VARIABLES origin, saved

recoveryVars == <<events, tombstones, offsets, evaluationTime, watermark, revision,
                  ledger, view, history, origin, saved>>

-----------------------------------------------------------------------------

(* checkpoint: everything but the settings, which do not change.            *)
Snapshot == [events |-> events, tombstones |-> tombstones, offsets |-> offsets,
             evaluationTime |-> evaluationTime, watermark |-> watermark,
             revision |-> revision, ledger |-> ledger, origin |-> origin]

RecoveryInit == Init /\ origin = [s \in {} |-> 0] /\ saved = Snapshot

(* A source delivers any of its records, old ones included.                 *)
Deliver(s, i) ==
  /\ UpsertFrom(Log[s][i], s, i - 1)
  /\ origin' = [t \in DOMAIN offsets \cup {s} |-> IF t \in DOMAIN origin THEN origin[t] ELSE i - 1]
  /\ UNCHANGED saved

Tick(end, mark) == Advance(end, mark) /\ UNCHANGED <<origin, saved>>

Checkpoint == saved' = Snapshot /\ UNCHANGED <<vars, origin>>

(* restore accepts a checkpoint that its own commit leaves as it is.        *)
Accepts(s) ==
  /\ Retained(s.events, s.evaluationTime, s.watermark) = s.events
  /\ \A t \in s.tombstones : t.time >= Cutoff(s.evaluationTime, s.watermark)
  /\ \A t \in s.tombstones : \A e \in s.events : t.id # e.id
  /\ WithinCapacity(s.events, s.tombstones, s.offsets)

(* The process is lost and a new one restores the checkpoint; a reader of   *)
(* the new store begins with its rows.                                      *)
Restore ==
  /\ Accepts(saved)
  /\ events' = saved.events /\ tombstones' = saved.tombstones /\ offsets' = saved.offsets
  /\ evaluationTime' = saved.evaluationTime /\ watermark' = saved.watermark
  /\ revision' = saved.revision
  /\ view' = Rows(saved.events, saved.evaluationTime)
  /\ history' = HistoryRows(saved.events, saved.evaluationTime)
  /\ ledger' = saved.ledger /\ origin' = saved.origin
  /\ UNCHANGED saved

RecoveryNext ==
  \/ \E s \in Sources : \E i \in DOMAIN Log[s] : Deliver(s, i)
  \/ \E end, mark \in 0 .. MaxTime : Tick(end, mark)
  \/ \E r \in Removals : Remove(r) /\ UNCHANGED <<origin, saved>>
  \/ Checkpoint
  \/ Restore

RecoverySpec == RecoveryInit /\ [][RecoveryNext]_recoveryVars

-----------------------------------------------------------------------------

(* A checkpoint can be restored: it holds nothing that the retention policy *)
(* would drop, so the process is never left without a state to begin with.  *)
Restorable == Accepts(saved)

(* The records accepted from the sources, from where each began.            *)
Accepted ==
  UNION {{Log[s][i] : i \in origin[s] + 1 .. offsets[s] + 1} : s \in DOMAIN offsets}

(* What a removal took back is what the removals of the ledger say.         *)
Replayed ==
  {e \in Accepted :
     /\ \A f \in Accepted : f.id = e.id => f.revision <= e.revision
     /\ \A x \in ledger : x.id = e.id /\ x.removed => x.revision <= e.revision}

(* The active relation is that of the uninterrupted log up to the accepted  *)
(* offsets, each record once and in order, whatever was redelivered or lost *)
(* before and after the checkpoint.                                         *)
ActiveIsReplay == Rows(events, evaluationTime) = Rows(Replayed, evaluationTime)

-----------------------------------------------------------------------------
(* The inductive invariant behind them: what ties the ledger of a store to  *)
(* the logs it was fed from.                                                *)

(* The accepted offsets of a source are a range of its log.                 *)
OriginInv ==
  /\ DOMAIN origin = DOMAIN offsets
  /\ \A s \in DOMAIN offsets :
       /\ s \in Sources
       /\ origin[s] \in Nat /\ offsets[s] \in Nat
       /\ origin[s] <= offsets[s] /\ offsets[s] + 1 \in DOMAIN Log[s]

(* The ledger holds, for every accepted record, the same or a newer version *)
(* of its event, and nothing else that is live.                             *)
ReplayInv ==
  /\ \A x \in Live : Version(x) \in Accepted
  /\ \A f \in Accepted : \E x \in ledger : x.id = f.id /\ f.revision <= x.revision
  /\ \A x \in ledger : \A f \in Accepted :
       (x.removed /\ x.id = f.id) => f.revision < x.revision

(* A store that was fed from the logs.                                      *)
FedFromLogs == Remembered /\ OriginInv /\ ReplayInv
=============================================================================
