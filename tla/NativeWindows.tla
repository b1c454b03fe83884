----------------------------- MODULE NativeWindows -----------------------------
(***************************************************************************)
(* NativeWindowStore (native_windows.py): a WindowStore kept by a native   *)
(* library (native_windows.cpp) and its Python owner, in step with the     *)
(* WindowStore it stands in for.                                           *)
(*                                                                         *)
(* The library compares bytes, Python compares values, and several byte    *)
(* forms are equal in Python: 0, false and 0.0.  The owner hides it.  Each *)
(* call is made of both stores; the library's part refuses, replaces the   *)
(* state, or fails before it does, and the owner's part publishes the      *)
(* change or fails to decode it.  Each method holds the owner's lock.      *)
(***************************************************************************)
EXTENDS WindowStore

CONSTANTS
  NativeInputs,      \* [id, time, row, revision], a row being <<key form, value form>>
  Clocks,            \* the times the clocks are set to
  MaxOffset,         \* bound of the offsets
  PythonKey(_), PythonValue(_)   \* the value of a form

VARIABLES
  native,   \* State: events, tombstones, offsets, end, watermark and revision
  keys,     \* _keys: the form that the retained events of a key share
  counts,   \* _counts: how many they are
  open,     \* whether the owner is open
  seen      \* what a reader has who adds and removes the rows of every WindowChange

nativeVars == <<native, keys, counts, open, seen>>

AsPython(e) == [id |-> e.id, time |-> e.time, key |-> PythonKey(e.row[1]),
                value |-> PythonValue(e.row[2]), revision |-> e.revision]

PythonRows(E) == {Row(AsPython(e)) : e \in E}

-----------------------------------------------------------------------------
(* The library: a call has at most one resulting state, none if it refuses  *)

NativeActive(s) == {e \in s.events : s.end - Width <= e.time /\ e.time < s.end}

LatestBefore(s) ==
  {e \in s.events : /\ e.time < s.end - Width
                    /\ \A f \in s.events : (f.key = e.key /\ f.time < s.end - Width) => ~Precedes(e, f)}

NativeHistory(s) == NativeActive(s) \cup (IF RetainPredecessor THEN LatestBefore(s) ELSE {})

Pruned(s) ==
  LET cutoff == Cutoff(s.end, s.watermark)
  IN  [s EXCEPT !.events = {e \in @ : e.time >= cutoff}
                             \cup (IF RetainPredecessor THEN LatestBefore(s) ELSE {}),
                !.tombstones = {t \in @ : t.time >= cutoff}]

Committed(s) ==
  {[p EXCEPT !.revision = @ + (IF p = native THEN 0 ELSE 1)] :
     p \in {q \in {Pruned(s)} : WithinCapacity(q.events, q.tombstones, q.offsets)
                                /\ (q = native \/ q.revision < MaxRevision)}}

NativeUpserted(e, O) ==
  LET old   == {x \in native.events : x.id = e.id}
      grave == {t \in native.tombstones : t.id = e.id}
  IN  IF e \in old THEN Committed([native EXCEPT !.offsets = O])
      ELSE IF /\ \A x \in (IF old # {} THEN old ELSE grave) : e.revision > x.revision
              /\ \A x \in old \cup {e} : x.time >= native.watermark - Lateness
      THEN Committed([native EXCEPT !.events = (@ \ old) \cup {e},
                                    !.tombstones = @ \ grave, !.offsets = O])
      ELSE {}

(* A replayed offset is answered like a retry; one that leaves a gap is not.*)
NativeUpsertedFrom(e, s, offset) ==
  LET last == IF s \in DOMAIN native.offsets THEN native.offsets[s] ELSE -1
  IN  IF offset <= last THEN IF e \in native.events THEN Committed(native) ELSE {}
      ELSE IF last < 0 \/ AllowOffsetGaps \/ offset = last + 1
      THEN NativeUpserted(e, [t \in DOMAIN native.offsets \cup {s} |->
                                IF t = s THEN offset ELSE native.offsets[t]])
      ELSE {}

NativeRemoved(r) ==
  LET old == {x \in native.events : x.id = r.id}
  IN  IF \E t \in native.tombstones : t.id = r.id /\ t.revision = r.revision
      THEN Committed(native)
      ELSE UNION {Committed([native EXCEPT !.events = @ \ {x},
                               !.tombstones = @ \cup {[id |-> r.id, revision |-> r.revision, time |-> x.time]}]) :
                    x \in {y \in old : r.revision > y.revision
                                       /\ y.time >= native.watermark - Lateness}}

NativeAdvanced(end, mark) ==
  IF end >= native.end /\ mark >= native.watermark /\ mark <= end
  THEN Committed([native EXCEPT !.end = end, !.watermark = mark])
  ELSE {}

NativeForgotten(key) == Committed([native EXCEPT !.events = {e \in @ : e.key # key}])

(* The latest event of the same key bytes right before e.                   *)
NativePredecessors(e) ==
  LET before == {x \in native.events : x.key = e.key /\ Precedes(x, e)}
  IN  {x \in before : \A y \in before : ~Precedes(x, y)}

-----------------------------------------------------------------------------
(* The owner                                                                *)

(* Mutant: the bytes of a key are those it was submitted with.              *)
KeyAsSubmitted(form) == form

KeyBytes(form) == IF PythonKey(form) \in DOMAIN keys THEN keys[PythonKey(form)] ELSE form

(* What is submitted for an event: the retained one if Python finds it      *)
(* equal, else its row under the bytes of its key.                          *)
Delivered(e) ==
  LET same == {x \in native.events : x.id = e.id /\ AsPython(x) = AsPython(e)}
  IN  IF same # {} THEN CHOOSE x \in same : TRUE
      ELSE [id |-> e.id, time |-> e.time, key |-> KeyBytes(e.row[1]), row |-> e.row,
            revision |-> e.revision]

(* difference, of two exported selections.                                  *)
Difference(A, B) == {e \in A : \A x \in B : <<x.id, x.time, x.key, x.row>> # <<e.id, e.time, e.key, e.row>>}

(* Mutant: rows whose forms alone differ are published as both.             *)
ChangedForms(rows, old, new) ==
  (rows \cup PythonRows(Difference(new, old))) \ PythonRows(Difference(old, new))

Changed(rows, old, new) ==
  LET added   == PythonRows(Difference(new, old))
      removed == PythonRows(Difference(old, new))
  IN  (rows \cup (added \ removed)) \ (removed \ added)

KeysOf(E) == {PythonKey(e.row[1]) : e \in E}

Having(E, k) == {e \in E : PythonKey(e.row[1]) = k}

(* The events that come and go change the keys and their counts; the rows   *)
(* that change are returned.                                                *)
Publish(s) ==
  LET new  == s.events \ native.events
      gone == native.events \ s.events
      After(k) == (IF k \in DOMAIN counts THEN counts[k] ELSE 0)
                    + Cardinality(Having(new, k)) - Cardinality(Having(gone, k))
      kept == {k \in DOMAIN counts \cup KeysOf(new) : After(k) # 0}
  IN  /\ native' = s
      /\ counts' = [k \in kept |-> After(k)]
      /\ keys' = [k \in kept |-> IF Having(new, k) # {}
                                 THEN (CHOOSE e \in Having(new, k) : TRUE).key ELSE keys[k]]
      /\ seen' = [active  |-> Changed(seen.active, NativeActive(native), NativeActive(s)),
                  history |-> Changed(seen.history, NativeHistory(native), NativeHistory(s))]
      /\ UNCHANGED open

Freed == [events |-> {}, tombstones |-> {}, offsets |-> [s \in {} |-> 0],
          end |-> 0, watermark |-> 0, revision |-> 0]

(* Mutant: the owner stays open after a change it could not decode.         *)
StayOpen(s) == native' = s /\ UNCHANGED <<keys, counts, open, seen>>

(* The library has committed and the change cannot be decoded.              *)
FailPublish(s) ==
  /\ native' = Freed /\ open' = FALSE
  /\ keys' = [k \in {} |-> ""] /\ counts' = [k \in {} |-> 0]
  /\ UNCHANGED seen

(* A call of both stores, op being WindowStore's.  Without memory, or with  *)
(* too many exports held, the library fails before it moves to the state.   *)
Call(op, results) ==
  /\ open
  /\ \/ /\ IF ENABLED op THEN op ELSE UNCHANGED vars
        /\ IF results = {} THEN UNCHANGED nativeVars ELSE \E s \in results : Publish(s)
     \/ \E s \in results : FailPublish(s) /\ UNCHANGED vars
     \/ results # {} /\ UNCHANGED <<nativeVars, vars>>

NativeUpsert(e) ==
  Call(Upsert(AsPython(e)), UNION {NativeUpserted(d, native.offsets) : d \in {Delivered(e)}})

NativeUpsertFrom(e, s, offset) ==
  Call(UpsertFrom(AsPython(e), s, offset),
       UNION {NativeUpsertedFrom(d, s, offset) : d \in {Delivered(e)}})

NativeRemove(r) == Call(Remove(r), NativeRemoved(r))

NativeAdvance(end, mark) == Call(Advance(end, mark), NativeAdvanced(end, mark))

NativeForget(form) == Call(ForgetKey(PythonKey(form)), NativeForgotten(KeyBytes(form)))

(* checkpoint, restore and _adopt: the restored owner goes on.              *)
Reopen ==
  /\ open /\ Pruned(native) = native
  /\ counts' = [k \in KeysOf(native.events) |-> Cardinality(Having(native.events, k))]
  /\ keys' = [k \in KeysOf(native.events) |-> (CHOOSE e \in Having(native.events, k) : TRUE).key]
  /\ UNCHANGED <<native, open, seen, vars>>

NativeClose ==
  /\ open /\ FailPublish(Freed) /\ UNCHANGED vars

NativeInit ==
  /\ native = Freed /\ open = TRUE
  /\ keys = [k \in {} |-> ""] /\ counts = [k \in {} |-> 0]
  /\ seen = [active |-> {}, history |-> {}]

NativeNext ==
  \/ \E e \in NativeInputs : NativeUpsert(e)
  \/ \E e \in NativeInputs, s \in Sources, offset \in 0 .. MaxOffset : NativeUpsertFrom(e, s, offset)
  \/ \E r \in Removals : NativeRemove(r)
  \/ \E end, mark \in Clocks : NativeAdvance(end, mark)
  \/ \E e \in NativeInputs : NativeForget(e.row[1])
  \/ Reopen
  \/ NativeClose

-----------------------------------------------------------------------------
(* Every call has done in the native store what it did in the WindowStore,  *)
(* of whatever forms equal values came and whichever calls failed, up to    *)
(* the numbers, the returned changes and the predecessors, as long as the   *)
(* owner is open.  The keys it keeps are those of the retained events.      *)
NativeAgrees ==
  open =>
    /\ <<{AsPython(e) : e \in native.events}, native.tombstones, native.offsets, native.end,
         native.watermark, native.revision>> = store
    /\ <<seen.active, seen.history>> = <<view, history>>
    /\ DOMAIN counts = KeysOf(native.events)
    /\ \A e \in native.events :
         LET k == PythonKey(e.row[1])
         IN  /\ keys[k] = e.key /\ counts[k] = Cardinality(Having(native.events, k))
             /\ \A p \in native.events : p \in NativePredecessors(e) <=> IsPredecessor(AsPython(p), AsPython(e), events)
=============================================================================
