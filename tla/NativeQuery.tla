------------------------------ MODULE NativeQuery ------------------------------
(***************************************************************************)
(* The native query evaluator (native_query.cpp) as query_native.py drives *)
(* it.  The context keeps the source rows and the memo of operations from  *)
(* one evaluation to the next; terms, rules and candidate rows are         *)
(* declared anew.  Rows hold ids.  The adapter gives an id to every term   *)
(* of the evaluation; the context adds ids for values that it generates,   *)
(* and two ids must never stand for one RDF term.                          *)
(*                                                                         *)
(* One program stands for all: a bound operation, a join of its outputs    *)
(* with inputs, an inequality and a minimum over both kinds.               *)
(*   made(y) <- item(x), y = op(x)        both(y) <- made(y), item(y)      *)
(*   differ(y) <- made(y), other(x), NEQ  least(m) <- MIN made and item    *)
(***************************************************************************)
EXTENDS Integers, FiniteSetsExt, SequencesExt

CONSTANTS
  Literals,      \* the terms
  Scalars,       \* the values of the native domains
  InputSets,     \* the sets of rows <<predicate, term>> of an evaluation
  IdOf(_),       \* the adapter's id of a term
  Decode(_),     \* its value, or NoValue if the native domains have none
  Canonical(_),  \* the term that is written for a value
  LiteralKey(_), \* what NEQ compares of a term
  OrderOf(_),    \* the identity order of terms
  Operation(_),  \* of a value; NoValue where it fails
  NoValue,
  MaxTerms, MemoCapacity

ASSUME InputSetsAssumption ==
  \A inputs \in InputSets : IsFiniteSet(inputs) /\ inputs \subseteq {"item", "other"} \X Literals

\* Terms have ids of their own, and those with a value have orders of their own.
ASSUME LiteralsAssumption ==
  /\ \A t \in Literals : IdOf(t) \in Nat \ {0} /\ OrderOf(t) \in Nat /\ Decode(t) \in Scalars \cup {NoValue}
  /\ \A t, u \in Literals : IdOf(t) = IdOf(u) => t = u
  /\ \A t, u \in {x \in Literals : Decode(x) # NoValue} : OrderOf(t) = OrderOf(u) => t = u

\* What is written for a value has the value, and keys tell it from other values.
ASSUME ScalarsAssumption ==
  /\ Scalars \subseteq Int /\ NoValue \notin Scalars /\ MaxTerms \in Nat /\ MemoCapacity \in Nat
  /\ \A v \in Scalars : /\ Canonical(v) \in Literals /\ Decode(Canonical(v)) = v
                        /\ Operation(v) \in Scalars \cup {NoValue}
  /\ \A v \in Scalars, t \in Literals : LiteralKey(t) = LiteralKey(Canonical(v)) <=> Decode(t) = v

VARIABLES
  ctx,       \* dlp_qx_context
  mirrored,  \* the adapter's copy of the source rows
  call       \* the locals of NativeQueryContext.evaluate

nativeQueryVars == <<ctx, mirrored, call>>

NoTerms == [i \in {} |-> 0]
NoTable == [terms |-> NoTerms, canonical |-> NoTerms, orders |-> NoTerms, next |-> 1]
Fresh == [source |-> {}, memo |-> <<>>, table |-> NoTable, candidate |-> {}, begun |-> FALSE, complete |-> FALSE]
Quiet == [phase |-> "idle"]

NativeQueryInit == ctx = Fresh /\ mirrored = {} /\ call = Quiet

TermsOf(rows) == {r[2] : r \in rows}
AsIds(rows) == {<<r[1], IdOf(r[2])>> : r \in rows}
RowsWith(rows, p) == {r[2] : r \in {s \in rows : s[1] = p}}

-----------------------------------------------------------------------------
(* Building *)

\* dlp_qx_begin: everything but the source and the memo is given up.
BeginQuery ==
  /\ call.phase \in {"idle", "returned"}
  /\ \E inputs \in InputSets : call' = [phase |-> "sync", inputs |-> inputs]
  /\ ctx' = [Fresh EXCEPT !.source = ctx.source, !.memo = ctx.memo, !.begun = TRUE]
  /\ UNCHANGED mirrored

\* _sync: rows that went away, then rows that are new.
SyncSource ==
  /\ call.phase = "sync"
  /\ ctx' = [ctx EXCEPT !.source = (@ \ (AsIds(mirrored) \ AsIds(call.inputs))) \cup AsIds(call.inputs \ mirrored),
                        !.complete = FALSE]
  /\ mirrored' = call.inputs
  /\ call' = [call EXCEPT !.phase = "declare"]

\* A context with only some of the rows is poisoned and closed; the next one starts
\* empty.
FailSync ==
  /\ call.phase = "sync"
  /\ ctx' = Fresh
  /\ mirrored' = {} /\ call' = Quiet

NextFree(ids) == Max({0} \cup ids) + 1

Declaration(t) == [value |-> Decode(t), key |-> LiteralKey(t), order |-> OrderOf(t), generated |-> FALSE]

\* dlp_qx_term and dlp_qx_term_order of some terms.
TableOf(terms) ==
  LET valued    == {t \in terms : Decode(t) # NoValue}
      canonical == {t \in valued : t = Canonical(Decode(t))}
  IN [terms     |-> [i \in {IdOf(t) : t \in terms} |-> Declaration(CHOOSE t \in terms : IdOf(t) = i)],
      canonical |-> [v \in {Decode(t) : t \in canonical} |-> IdOf(Canonical(v))],
      orders    |-> [v \in {Decode(t) : t \in valued} |-> OrderOf(Canonical(v))],
      next      |-> NextFree({IdOf(t) : t \in terms})]

Declare ==
  /\ call.phase = "declare" /\ ctx.begun
  /\ Cardinality(TermsOf(call.inputs)) <= MaxTerms
  /\ ctx' = [ctx EXCEPT !.table = TableOf(TermsOf(call.inputs))]
  /\ call' = [call EXCEPT !.phase = "prepared"]
  /\ UNCHANGED mirrored

\* dlp_qx_run: the candidate begins as a copy of the source.
StartRun ==
  /\ call.phase = "prepared" /\ ctx.begun
  /\ ctx' = [ctx EXCEPT !.candidate = ctx.source, !.complete = FALSE]
  /\ call' = [phase |-> "made", inputs |-> call.inputs, todo |-> RowsWith(ctx.source, "item")]
  /\ UNCHANGED mirrored

-----------------------------------------------------------------------------
(* Evaluating *)

\* The memo holds values, never ids; the least recently used entry goes.
Recalled(memo, v) == {i \in DOMAIN memo : memo[i][1] = v}
ResultOf(memo, v) ==
  IF v = NoValue THEN NoValue
  ELSE IF Recalled(memo, v) = {} THEN Operation(v) ELSE memo[CHOOSE i \in Recalled(memo, v) : TRUE][2]
Remembered(memo, v, result) ==
  LET others == IF Recalled(memo, v) = {} THEN memo ELSE RemoveAt(memo, CHOOSE i \in Recalled(memo, v) : TRUE)
      room   == IF Len(others) >= MemoCapacity /\ others # <<>> THEN Tail(others) ELSE others
  IN IF MemoCapacity = 0 THEN <<>> ELSE Append(room, <<v, result>>)

\* Mutant: every generated value gets an id of its own.
IdForNew(table, v) == table.next

\* A value that an active term is written for has that term's id.
IdForValue(table, v) == IF v \in DOMAIN table.canonical THEN table.canonical[v] ELSE table.next

\* A value for which there are terms sorts where the canonical one would.
Generated(table, v) == [value |-> v, key |-> v, generated |-> TRUE,
                        order |-> IF v \in DOMAIN table.orders THEN table.orders[v] ELSE 0]

Adding(f, x, y) == [z \in DOMAIN f \cup {x} |-> IF z = x THEN y ELSE f[z]]

\* The table with an id for a value.
Interning(table, v) ==
  LET new == IdForValue(table, v) IN
  IF new \in DOMAIN table.terms THEN table
  ELSE [terms     |-> Adding(table.terms, new, Generated(table, v)),
        canonical |-> Adding(table.canonical, v, new),
        orders    |-> table.orders,
        next      |-> table.next + 1]

ScalarOf(id) == ctx.table.terms[id].value
AfterOperation(id) == Remembered(ctx.memo, ScalarOf(id), ResultOf(ctx.memo, ScalarOf(id)))

\* The first stratum, in any order: operation gives one row a term.  No such rule reads
\* what it makes.
Operate(id) ==
  LET result == ResultOf(ctx.memo, ScalarOf(id)) IN
  /\ call.phase = "made" /\ id \in call.todo
  /\ result # NoValue
  /\ IdForValue(ctx.table, result) \in DOMAIN ctx.table.terms \/ Cardinality(DOMAIN ctx.table.terms) < MaxTerms
  /\ ctx' = [ctx EXCEPT !.memo = AfterOperation(id), !.table = Interning(@, result),
                        !.candidate = @ \cup {<<"made", IdForValue(ctx.table, result)>>}]
  /\ call' = [call EXCEPT !.todo = @ \ {id}]
  /\ UNCHANGED mirrored

\* different: keys decide where the adapter gave them, else values.
Different(a, b) ==
  LET s == ctx.table.terms[a]
      t == ctx.table.terms[b]
  IN IF ~s.generated /\ ~t.generated THEN s.key # t.key
     ELSE s.value = NoValue \/ t.value = NoValue \/ s.value # t.value

\* The order of MIN: values, then the identity of the terms.
Precedes(a, b) ==
  \/ ScalarOf(a) < ScalarOf(b)
  \/ ScalarOf(a) = ScalarOf(b) /\ ctx.table.terms[a].order < ctx.table.terms[b].order

\* The strata above it.  A minimum over what has no order is an error.
RunJoins ==
  /\ call.phase = "made" /\ call.todo = {}
  /\ LET made  == RowsWith(ctx.candidate, "made")
         items == RowsWith(ctx.candidate, "item")
         both   == {<<"both", y>> : y \in made \cap items}
         differ == {<<"differ", y>> : y \in {z \in made : \E x \in RowsWith(ctx.candidate, "other") : Different(x, z)}}
         least  == IF made \cup items = {} THEN {}
                   ELSE {<<"least", CHOOSE m \in made \cup items : \A i \in made \cup items : ~Precedes(i, m)>>}
     IN /\ \A i \in made \cup items : ScalarOf(i) # NoValue
        /\ ctx' = [ctx EXCEPT !.candidate = @ \cup both \cup differ \cup least, !.complete = TRUE, !.begun = FALSE]
  /\ call' = [phase |-> "paging", inputs |-> call.inputs, rows |-> {}]
  /\ UNCHANGED mirrored

\* The memo of an operation whose result gets no id.
FailedMemos ==
  IF call.phase # "made" THEN {}
  ELSE {AfterOperation(id) : id \in {i \in call.todo : ResultOf(ctx.memo, ScalarOf(i)) # NoValue}}

\* A limit, an operation that fails, an allocation, a cancellation: nothing is kept but the
\* source and the memo.
FailRun ==
  /\ call.phase \in {"declare", "prepared", "made"}
  /\ \E memo \in {ctx.memo} \cup FailedMemos :
       ctx' = [ctx EXCEPT !.memo = memo, !.candidate = {}, !.complete = FALSE, !.begun = FALSE]
  /\ call' = Quiet
  /\ UNCHANGED mirrored

\* dlp_qx_result and dlp_qx_value: a page, whose ids become terms again.
TermOf(i) ==
  LET declared == {t \in TermsOf(call.inputs) : IdOf(t) = i} IN
  IF declared = {} THEN Canonical(ScalarOf(i)) ELSE CHOOSE t \in declared : TRUE
Derived == {"made", "both", "differ", "least"}
ResultRows(predicates) == {<<r[1], TermOf(r[2])>> : r \in {s \in ctx.candidate : s[1] \in predicates}}

Page ==
  /\ call.phase = "paging" /\ ctx.complete
  /\ \E p \in Derived :
       /\ ~(ResultRows({p}) \subseteq call.rows)
       /\ call' = [call EXCEPT !.rows = @ \cup ResultRows({p})]
  /\ UNCHANGED <<ctx, mirrored>>

ReturnRows ==
  /\ call.phase = "paging" /\ ResultRows(Derived) \subseteq call.rows
  /\ call' = [call EXCEPT !.phase = "returned"]
  /\ UNCHANGED <<ctx, mirrored>>

\* A cancellation between two pages; the runtime drops the memo for a host evaluation.
StopPaging == call.phase = "paging" /\ call' = Quiet /\ UNCHANGED <<ctx, mirrored>>
ClearMemo ==
  /\ call = Quiet /\ ctx.memo # <<>>
  /\ ctx' = [ctx EXCEPT !.memo = <<>>] /\ UNCHANGED <<mirrored, call>>
CloseQuery ==
  /\ call = Quiet /\ ctx' = Fresh /\ mirrored' = {} /\ UNCHANGED call

NativeQueryNext ==
  \/ BeginQuery \/ SyncSource \/ FailSync \/ Declare \/ StartRun \/ RunJoins
  \/ call.phase = "made" /\ \E id \in call.todo : Operate(id)
  \/ FailRun \/ Page \/ ReturnRows \/ StopPaging \/ ClearMemo \/ CloseQuery

NativeQuerySpec == NativeQueryInit /\ [][NativeQueryNext]_nativeQueryVars

-----------------------------------------------------------------------------
\* What the Python evaluator computes from the terms themselves.
ReferenceRows(inputs) ==
  LET items == RowsWith(inputs, "item")
      made  == {Canonical(Operation(Decode(t))) : t \in items}
      pool  == made \cup items
      Smaller(s, t) == Decode(s) < Decode(t) \/ (Decode(s) = Decode(t) /\ OrderOf(s) < OrderOf(t))
  IN {<<"made", t>> : t \in made}
     \cup {<<"both", t>> : t \in made \cap items}
     \cup {<<"differ", t>> : t \in {u \in made : \E x \in RowsWith(inputs, "other") : LiteralKey(x) # LiteralKey(u)}}
     \cup {<<"least", t>> : t \in {u \in pool : \A s \in pool : ~Smaller(s, u)}}

\* Identifiers, canonical values, the memo of earlier evaluations and rows transferred as
\* differences do not show: what returns is what the terms themselves give.
ReturnsReference == call.phase = "returned" => call.rows = ReferenceRows(call.inputs)

=============================================================================
