----------------------------- MODULE NativeStore -----------------------------
(***************************************************************************)
(* Native relations (native_store.cpp) behind NativeIndex (native.py).     *)
(* The index gathers changes and hands them over before a native read; a   *)
(* cursor searches a join depth first and is read in batches, from which   *)
(* bindings are given one at a time, whatever happens in between.          *)
(* contents is not state of the code: the facts added and not discarded.   *)
(* Terms stand for their ids, which last as long as the context.           *)
(***************************************************************************)
EXTENDS Integers, FiniteSets, SequencesExt

CONSTANTS
  Facts,          \* of any predicate and arity: [pred, args]
  Equalities,     \* predicates whose rows stay in Python sets too
  Plans,          \* joins: sequences of [pred, args]
  Slots,          \* their variables
  Unbound,        \* no term
  Cursors, BatchSize,
  Loads,          \* the facts that the indexes are made of, each at one arity
  MaxVersion      \* bound on the changes of both indexes

VARIABLES
  index,      \* NativeIndex: full and delta
  store,      \* the native rows of each, with their generation
  cursor,     \* _Cursor and dlp_query, with the batch that was read
  contents

storeVars == <<index, store, cursor, contents>>

Indexes    == {"full", "delta"}
FactPredicates == {f.pred : f \in Facts}
Unused     == [phase |-> "none"]

Mirrors(p, arity) == arity = 1 \/ p \in Equalities
RowsOf(facts, p) == {f \in facts : f.pred = p}

-----------------------------------------------------------------------------
(* Changes and their transfer *)

\* _mirrors: the Python rows of the predicates that have them.
Mirrored(x, p) == IF p \in DOMAIN x.mirror THEN x.mirror[p] ELSE {}

\* The last change of a row counts; pending is a function from facts to presence.
Noted(x, f, present) ==
  [x EXCEPT !.pending = (f :> present) @@ @, !.version = @ + 1, !.arity[f.pred] = Len(f.args),
            !.mirror = IF ~Mirrors(f.pred, Len(f.args)) THEN @
                       ELSE (f.pred :> IF present THEN Mirrored(x, f.pred) \cup {f} ELSE Mirrored(x, f.pred) \ {f}) @@ @]

\* NativeIndex(context, facts)
IndexOf(facts) ==
  FoldLeft(LAMBDA x, f : Noted(x, f, TRUE),
           [open |-> TRUE, pending |-> <<>>, version |-> 0, arity |-> [p \in FactPredicates |-> -1], mirror |-> <<>>],
           SetToSeq(facts))

StoreInit ==
  /\ contents \in Loads
  /\ index = [i \in Indexes |-> IndexOf(contents[i])]
  /\ store = [i \in Indexes |-> [rows |-> {}, generation |-> 0]]
  /\ cursor = [c \in Cursors |-> Unused]

\* Native rows after some of the pending changes.
Applied(s, pending, facts) ==
  LET gone == {f \in facts : ~pending[f] /\ f \in s.rows}
      new  == {f \in facts : pending[f] /\ f \notin s.rows}
  IN [rows |-> (s.rows \ gone) \cup new, generation |-> s.generation + Cardinality(gone \cup new)]

Transferred(i) == Applied(store[i], index[i].pending, DOMAIN index[i].pending)

\* flush
Flushed(some) ==
  /\ index' = [i \in Indexes |-> IF i \in some THEN [index[i] EXCEPT !.pending = <<>>] ELSE index[i]]
  /\ store' = [i \in Indexes |-> IF i \in some THEN Transferred(i) ELSE store[i]]

Usable(i) == index[i].open
MayChange(i) == Usable(i) /\ index["full"].version + index["delta"].version < MaxVersion

\* A fact is added or discarded at the arity its predicate has.
Change(i, f, present) ==
  /\ MayChange(i)
  /\ index[i].arity[f.pred] \in {Len(f.args)} \cup (IF present THEN {-1} ELSE {})
  /\ index' = [index EXCEPT ![i] = Noted(@, f, present)]
  /\ contents' = [contents EXCEPT ![i] = IF present THEN @ \cup {f} ELSE @ \ {f}]
  /\ UNCHANGED <<store, cursor>>

\* Mutant: the rows of the old arity stay in the Python set.
ForgetNothing(x, p) == [x EXCEPT !.pending = <<>>]

\* A predicate without rows may come back with another arity.
ForgetRows(x, p) == [x EXCEPT !.pending = <<>>, !.mirror = [q \in DOMAIN @ \ {p} |-> @[q]]]

ChangeArity(i, f) ==
  /\ MayChange(i)
  /\ index[i].arity[f.pred] \notin {-1, Len(f.args)}
  /\ store' = [store EXCEPT ![i] = Transferred(i)]
  /\ IF RowsOf(Transferred(i).rows, f.pred) # {}
     THEN index' = [index EXCEPT ![i].pending = <<>>] /\ UNCHANGED contents
     ELSE /\ index' = [index EXCEPT ![i] = Noted(ForgetRows(@, f.pred), f, TRUE)]
          /\ contents' = [contents EXCEPT ![i] = @ \cup {f}]
  /\ UNCHANGED cursor

\* The rows of one predicate go over in two batches, discards first.
Batch(i, p, present) == {f \in DOMAIN index[i].pending : f.pred = p /\ index[i].pending[f] = present}

\* Memory runs out within a batch, part of which has been applied; nothing of it is forgotten.
FailFlush(i) ==
  /\ Usable(i)
  /\ \E p \in FactPredicates, present \in BOOLEAN :
       LET before == IF present THEN Batch(i, p, FALSE) ELSE {} IN
       \E some \in SUBSET Batch(i, p, present) :
         /\ Batch(i, p, present) # {}
         /\ store' = [store EXCEPT ![i] = Applied(@, index[i].pending, before \cup some)]
         /\ index' = [index EXCEPT ![i].pending = [f \in DOMAIN @ \ before |-> @[f]]]
  /\ UNCHANGED <<cursor, contents>>

\* lookup reads the Python set, or flushes and reads the native rows.
LookUp(i) ==
  /\ Usable(i) /\ DOMAIN index[i].pending # {}
  /\ Flushed({i}) /\ UNCHANGED <<cursor, contents>>

-----------------------------------------------------------------------------
(* Native search *)

FitsTerms(terms, args) == \A k \in DOMAIN terms : terms[k] \in {Unbound, args[k]}

\* Relation::lookup: membership, or the smallest bucket of a bound column.
Selection(rows, terms) ==
  LET all     == {f.args : f \in rows}
      buckets == {all} \cup {{a \in all : a[k] = terms[k]} : k \in {j \in DOMAIN terms : terms[j] # Unbound}}
  IN IF Unbound \notin Range(terms) THEN all \cap {terms}
     ELSE CHOOSE b \in buckets : \A o \in buckets : Cardinality(b) <= Cardinality(o)

Bound(atom, binding) ==
  [k \in DOMAIN atom.args |-> IF atom.args[k] \in Slots THEN binding[atom.args[k]] ELSE atom.args[k]]

Source(q, a) == RowsOf(store[IF a = q.position THEN "delta" ELSE "full"].rows, q.plan[a].pred)

\* push_frame: the atom with the fewest rows, unless one has none.
Pushed(q, atoms, binding) ==
  LET Rows(a) == Selection(Source(q, a), Bound(q.plan[a], binding))
      chosen  == CHOOSE a \in atoms : \A o \in atoms : Cardinality(Rows(a)) <= Cardinality(Rows(o))
  IN IF \E a \in atoms : Rows(a) = {} THEN q
     ELSE [q EXCEPT !.stack = Append(@, [atom |-> chosen, left |-> atoms \ {chosen},
                                         binding |-> binding, rows |-> Rows(chosen)])]

Accepts(atom, binding, row) ==
  /\ FitsTerms(Bound(atom, binding), row)
  /\ \A j, k \in DOMAIN row : atom.args[j] \in Slots /\ atom.args[j] = atom.args[k] => row[j] = row[k]

Extended(atom, binding, row) ==
  [s \in Slots |-> IF s \in Range(atom.args) THEN row[CHOOSE k \in DOMAIN row : atom.args[k] = s] ELSE binding[s]]

\* One turn of the loop of advance.
Turn(q) ==
  LET top  == Last(q.stack)
      row  == CHOOSE r \in top.rows : TRUE
      rest == [q EXCEPT !.stack[Len(q.stack)].rows = @ \ {row}]
      next == Extended(q.plan[top.atom], top.binding, row)
  IN IF q.stack = <<>> THEN [q EXCEPT !.done = TRUE]
     ELSE IF top.rows = {} THEN [q EXCEPT !.stack = Front(@)]
     ELSE IF ~Accepts(q.plan[top.atom], top.binding, row) THEN rest
     ELSE IF top.left = {} THEN [rest EXCEPT !.batch = Append(@, next)]
     ELSE Pushed(rest, top.left, next)

RECURSIVE Filled(_)
Filled(q) == IF q.done \/ Len(q.batch) = BatchSize THEN q ELSE Filled(Turn(q))

-----------------------------------------------------------------------------
(* Cursors *)

Used(position) == IF position = 0 THEN {"full"} ELSE Indexes
ArityFits(plan, position, rows) ==
  \A a \in DOMAIN plan : \A f \in rows[IF a = position THEN "delta" ELSE "full"] :
    f.pred = plan[a].pred => Len(f.args) = Len(plan[a].args)

\* solutions: both indexes flush, and the query copies its plan.
OpenCursor(c) ==
  /\ cursor[c].phase # "reading"
  /\ \E plan \in Plans : \E position \in 0..Len(plan) :
       LET rows == [i \in Indexes |-> Transferred(i).rows] IN
       /\ \A i \in Used(position) : Usable(i)
       /\ Flushed(Used(position))
       /\ cursor' = [cursor EXCEPT ![c] =
            IF ~ArityFits(plan, position, rows) THEN Unused
            ELSE [phase |-> "reading", plan |-> plan, position |-> position,
                  version |-> [i \in Used(position) |-> index[i].version],
                  generation |-> [i \in Used(position) |-> Transferred(i).generation],
                  started |-> FALSE, stack |-> <<>>, batch |-> <<>>, done |-> FALSE,
                  given |-> <<>>, snapshot |-> contents]]
  /\ UNCHANGED contents

\* Mutant: only the first index is compared.
ValidFull(q) == index["full"].open /\ index["full"].version = q.version["full"]

\* _check_valid
StillValid(q) == \A i \in DOMAIN q.version : index[i].open /\ index[i].version = q.version[i]

Nothing == [s \in Slots |-> Unbound]
Started(q) ==
  IF q.started THEN q
  ELSE IF q.plan = <<>> THEN [q EXCEPT !.started = TRUE, !.batch = <<Nothing>>, !.done = TRUE]
  ELSE [Pushed(q, DOMAIN q.plan, Nothing) EXCEPT !.started = TRUE]

\* read, and dlp_query_next, which looks at the generations.
Read(c) ==
  /\ cursor[c].phase = "reading" /\ cursor[c].batch = <<>> /\ ~cursor[c].done
  /\ StillValid(cursor[c])
  /\ \A i \in DOMAIN cursor[c].generation : store[i].generation = cursor[c].generation[i]
  /\ cursor' = [cursor EXCEPT ![c] = Filled(Started(@))]
  /\ UNCHANGED <<index, store, contents>>

\* A binding of the batch, if nothing changed since it was read.
Give(c) ==
  /\ cursor[c].phase = "reading" /\ cursor[c].batch # <<>>
  /\ StillValid(cursor[c])
  /\ cursor' = [cursor EXCEPT ![c].given = Append(@, Head(cursor[c].batch)), ![c].batch = Tail(@)]
  /\ UNCHANGED <<index, store, contents>>

Finish(c) ==
  /\ cursor[c].phase = "reading" /\ cursor[c].batch = <<>> /\ cursor[c].done
  /\ cursor' = [cursor EXCEPT ![c].phase = "finished"]
  /\ UNCHANGED <<index, store, contents>>

\* A change is noticed, or the consumer stops.
CloseCursor(c) ==
  /\ cursor[c].phase # "none" /\ cursor' = [cursor EXCEPT ![c] = Unused]
  /\ UNCHANGED <<index, store, contents>>

\* The native rows live on for cursors that still have them.
CloseIndex(i) ==
  /\ index[i].open
  /\ index' = [index EXCEPT ![i].open = FALSE, ![i].version = @ + 1, ![i].pending = <<>>, ![i].mirror = <<>>]
  /\ UNCHANGED <<store, cursor, contents>>

\* The context closes its cursors first.
CloseContext ==
  /\ \E i \in Indexes : index[i].open
  /\ index' = [i \in Indexes |-> [index[i] EXCEPT !.open = FALSE, !.version = @ + 1, !.pending = <<>>, !.mirror = <<>>]]
  /\ cursor' = [c \in Cursors |-> Unused]
  /\ UNCHANGED <<store, contents>>

StoreNext ==
  \/ \E i \in Indexes : LookUp(i) \/ FailFlush(i) \/ CloseIndex(i)
  \/ \E i \in Indexes, f \in Facts : ChangeArity(i, f) \/ \E present \in BOOLEAN : Change(i, f, present)
  \/ \E c \in Cursors : OpenCursor(c) \/ Read(c) \/ Give(c) \/ Finish(c) \/ CloseCursor(c)
  \/ CloseContext

-----------------------------------------------------------------------------
\* What a read of rows that fit the terms gives, from the Python set or the native rows.
Answer(i, p, terms) ==
  IF p \in DOMAIN index[i].mirror /\ (Unbound \notin Range(terms) \/ Range(terms) = {Unbound})
  THEN {f.args : f \in {g \in index[i].mirror[p] : FitsTerms(terms, g.args)}}
  ELSE Selection(RowsOf(Transferred(i).rows, p), terms)

\* Whatever can be looked up now is what there is.
LookupsAreExact ==
  \A i \in {j \in Indexes : index[j].open} : \A p \in FactPredicates :
    \A terms \in UNION {{f.args} \cup {[f.args EXCEPT ![k] = Unbound] : k \in DOMAIN f.args} : f \in RowsOf(Facts, p)} :
      Len(terms) = index[i].arity[p] =>
        Answer(i, p, terms) = {f.args : f \in {g \in RowsOf(contents[i], p) : FitsTerms(terms, g.args)}}

Solves(binding, q) ==
  \A a \in DOMAIN q.plan :
    [pred |-> q.plan[a].pred, args |-> Bound(q.plan[a], binding)]
      \in q.snapshot[IF a = q.position THEN "delta" ELSE "full"]

StreamSolutions(q) ==
  LET used  == UNION {Range(q.plan[a].args) : a \in DOMAIN q.plan} \cap Slots
      terms == UNION {Range(f.args) : f \in Facts}
  IN {b \in [Slots -> terms \cup {Unbound}] : (\A s \in Slots : s \in used <=> b[s] # Unbound) /\ Solves(b, q)}

\* What a cursor has given are solutions of the facts when it opened, all if it has ended.
StreamsAreSnapshots ==
  \A c \in {d \in Cursors : cursor[d].phase # "none"} :
    LET q == cursor[c] IN
    /\ IsInjective(q.given) /\ Range(q.given) \subseteq StreamSolutions(q)
    /\ q.phase = "finished" => Range(q.given) = StreamSolutions(q)
    /\ q.phase = "reading" /\ StillValid(q) =>
         \A i \in DOMAIN q.version :
           contents[i] = q.snapshot[i] /\ store[i] = [rows |-> contents[i], generation |-> q.generation[i]]

\* Changes, discards of what was just added, transfers that fail half way and predicates
\* that come back with another arity: a read gives the facts there are, and an index that
\* is read by one bound column gives no others.  Each binding of a join is a solution of
\* the facts when its cursor opened, which are the facts still when it is given; a cursor
\* that ends has given every solution once, and one with nothing changed is never refused
\* by the native generations.
ReadsAreExact == LookupsAreExact /\ StreamsAreSnapshots
=============================================================================
