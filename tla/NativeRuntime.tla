----------------------------- MODULE NativeRuntime -----------------------------
(***************************************************************************)
(* The standalone runtime: a kernel that closes a program under rules and  *)
(* equality (native_runtime.cpp), the owner that publishes one complete    *)
(* closure after the other (standalone.py), and queries prepared on one of *)
(* them (native_package.py).                                               *)
(* An id of the kernel is the term it was given for.                       *)
(***************************************************************************)
EXTENDS EqualityRules

CONSTANTS
  MaxFactsKept,   \* max_facts
  Queries,        \* prepared queries
  Asked,          \* the predicate they ask for
  MaxRevision     \* bound on the updates

VARIABLES
  runtime,     \* open, program, kernel, revision
  candidate,   \* of an update that runs
  prepared     \* queries: phase, revision, result

runtimeVars == <<runtime, candidate, prepared>>

NoCandidate == [phase |-> "none"]

-----------------------------------------------------------------------------
(* Terms and classes *)

\* The element of a set of one, in which an intermediate value is given a name.
The(S) == CHOOSE s \in S : TRUE

Kernel == [rep |-> <<>>, active |-> {}, facts |-> {}, sigs |-> <<>>, dirty |-> FALSE,
              merges |-> 0, reported |-> {}, limit |-> FALSE]

\* find
RootOf(k, t) == IF t \in DOMAIN k.rep THEN k.rep[t] ELSE t

ClassOf(k, root) == {u \in k.active : RootOf(k, u) = root}

UniteRoots(k, p, q) ==
  IF p = q THEN k
  ELSE [k EXCEPT !.rep = [u \in DOMAIN @ |-> IF @[u] \notin {p, q} THEN @[u]
                                            ELSE IF TermRank[p] <= TermRank[q] THEN p ELSE q],
                 !.dirty = TRUE, !.merges = @ + 1,
                 !.reported = IF \E u \in ClassOf(k, p), v \in ClassOf(k, q) : DifferentValues(u, v)
                              THEN @ \cup {"values"} ELSE @]

\* unite, with the groups of the values in each class
Unite(k, s, t) == The({UniteRoots(k, p, q) : p \in {RootOf(k, s)}, q \in {RootOf(k, t)}})

\* canonical
Rooted(k, f) == [f EXCEPT !.args = [i \in DOMAIN @ |-> RootOf(k, @[i])]]

\* store
Kept(k, f) ==
  IF Rooted(k, f) \in k.facts THEN k
  ELSE IF Cardinality(k.facts) >= MaxFactsKept THEN [k EXCEPT !.limit = TRUE]
  ELSE [k EXCEPT !.facts = @ \cup {Rooted(k, f)}]

Signature(k, t) == [t EXCEPT !.args = [i \in DOMAIN @ |-> RootOf(k, @[i])]]

\* A term that was added meets one of its value, or a witness of equal arguments.
Met(k, t) ==
  LET twins == {u \in k.active \ {t} : SameValue(u, t)}
      sig   == Signature(k, t)
  IN IF twins # {} THEN Unite(k, t, CHOOSE u \in twins : TRUE)
     ELSE IF t.kind # "skolem" THEN k
     ELSE IF sig \in DOMAIN k.sigs THEN Unite(k, t, k.sigs[sig])
     ELSE [k EXCEPT !.sigs = @ @@ (sig :> t)]

\* activate, for a term whose arguments are active
AddedTerm(k, t) ==
  The({Kept(met, A("top", <<t>>)) :
         met \in {Met(on, t) : on \in {[k EXCEPT !.active = @ \cup {t}, !.rep = @ @@ (t :> t)]}}})

RECURSIVE Activated(_, _)
Activated(k, t) ==
  IF t \in k.active \/ k.limit THEN k
  ELSE IF DepthOf(t) > MaxDepth THEN [k EXCEPT !.limit = TRUE]
  ELSE The({AddedTerm(inner, t) : inner \in {FoldLeft(Activated, k, t.args)}})

\* witness: the term of the same symbol and equal arguments, or a new one.
Witness(k, t) ==
  LET sig == Signature(k, t) IN IF sig \in DOMAIN k.sigs THEN RootOf(k, k.sigs[sig]) ELSE sig

\* congruence
RECURSIVE Collapsed(_)
Collapsed(k) ==
  LET Visit(t, acc) ==
        LET sig == Signature(acc.k, t) IN
        IF sig \in DOMAIN acc.sigs THEN [acc EXCEPT !.k = Unite(acc.k, acc.sigs[sig], t)]
        ELSE [acc EXCEPT !.sigs = @ @@ (sig :> t)]
      passes == {FoldSet(Visit, [k |-> k, sigs |-> <<>>], {t \in k.active : t.kind = "skolem"})}
      nexts  == {[pass.k EXCEPT !.sigs = pass.sigs] : pass \in passes}
  IN The({IF next.merges # k.merges THEN Collapsed(next)
          ELSE [next EXCEPT !.facts = {Rooted(next, f) : f \in @}, !.dirty = FALSE] : next \in nexts})

\* differences
Contradicted(k) ==
  IF \E f \in k.facts : f.pred = "neq" /\ RootOf(k, f.args[1]) = RootOf(k, f.args[2])
  THEN [k EXCEPT !.reported = @ \cup {"differences"}] ELSE k

\* ingest
JoinedBy(k, f) == IF f.pred = "eq" THEN Unite(k, f.args[1], f.args[2]) ELSE k

\* A fact whose terms are active
Taken(k, f) ==
  IF k.limit THEN k
  ELSE The({IF f.pred = "neq" THEN Kept(kept, [f EXCEPT !.args = Reverse(@)]) ELSE kept :
              kept \in {Kept(joined, f) : joined \in {JoinedBy(k, f)}}})

Ingest(k, facts) ==
  LET One(f, acc) == The({Taken(on, f) : on \in {FoldLeft(Activated, acc, f.args)}}) IN
  The({IF all.limit THEN all
       ELSE The({Contradicted(collapsed) : collapsed \in {IF all.dirty THEN Collapsed(all) ELSE all}}) :
         all \in {FoldSet(One, k, facts)}})

-----------------------------------------------------------------------------
(* Rounds *)

Free == [kind |-> "none", name |-> "", args |-> <<>>]

\* bound
RECURSIVE BoundTo(_, _, _)
BoundTo(k, t, b) ==
  LET args == [i \in DOMAIN t.args |-> BoundTo(k, t.args[i], b)] IN
  CASE t.kind = "var"    -> b[t.name]
    [] t.kind = "skolem" -> IF Free \in Range(args) THEN Free ELSE Witness(k, [t EXCEPT !.args = args])
    [] OTHER             -> RootOf(k, t)

Given(k, a, b) == [i \in DOMAIN a.args |-> BoundTo(k, a.args[i], b)]
Bucket(k, a, given) == {f.args : f \in {g \in k.facts : g.pred = a.pred /\ \A i \in DOMAIN given : given[i] \in {Free, g.args[i]}}}

\* distinct: of the representatives alone
KnownDifferent(k, given) == A("neq", given) \in k.facts \/ DifferentValues(given[1], given[2])

Bindable(a, given) == IF a.pred = "eq" THEN given # <<Free, Free>> ELSE a.pred = "neq" => Free \notin Range(given)
RowCount(k, a, given) ==
  CASE a.pred = "eq"  -> 1
    [] a.pred = "neq" -> IF KnownDifferent(k, given) THEN 1 ELSE 0
    [] OTHER          -> Cardinality(Bucket(k, a, given))

\* The rows to go on with; an equality has one, which may bind a variable.
RowsFor(k, a, given) ==
  CASE a.pred = "eq"  -> IF Free \in Range(given) THEN {<<t, t>> : t \in Range(given) \ {Free}}
                         ELSE IF given[1] = given[2] THEN {given} ELSE {}
    [] a.pred = "neq" -> {given}
    [] OTHER          -> Bucket(k, a, given)

Slotted(a, row, b) == [v \in DOMAIN b |-> IF Var(v) \in Range(a.args)
                                         THEN row[CHOOSE j \in DOMAIN row : a.args[j] = Var(v)] ELSE b[v]]

\* solve: the next atom is one with the fewest rows, among those that can be tried.
RECURSIVE SolvedFrom(_, _, _, _)
SolvedFrom(k, r, left, b) ==
  LET given == [i \in left |-> Given(k, r.body[i], b)]
      size  == [i \in {j \in left : Bindable(r.body[j], given[j])} |-> RowCount(k, r.body[i], given[i])]
      next  == CHOOSE i \in DOMAIN size : \A o \in DOMAIN size : size[i] <= size[o]
  IN IF left = {} THEN {b}
     ELSE IF 0 \in Range(size) THEN {}
     ELSE UNION {UNION {SolvedFrom(k, r, left \ {i}, c)
                        : c \in {d \in {Slotted(r.body[i], row, b) : row \in RowsFor(k, r.body[i], given[i])} :
                                  Given(k, r.body[i], d) \in RowsFor(k, r.body[i], Given(k, r.body[i], d))}}
                 : i \in {next}}

Conclusions(k, r) ==
  {[r.head EXCEPT !.args = Given(k, r.head, b)] : b \in SolvedFrom(k, r, DOMAIN r.body, [v \in RuleVariables(r) |-> Free])}

\* The start of run
Opened(p) ==
  The({Ingest(begun, p.asserted) :
         begun \in {FoldSet(LAMBDA t, k : Activated(k, t), Kernel,
                       {Seed} \cup UNION {GroundTerms(a) : a \in UNION {AtomsOf(r) : r \in p.rules}})}})

\* Mutant: a round that stored nothing is the last, whatever it merged.
NoNewFacts(before, after) == Cardinality(after.facts) = Cardinality(before.facts)

\* A round that stored nothing and merged nothing is the last.
Unchanged(before, after) == Cardinality(after.facts) = Cardinality(before.facts) /\ after.merges = before.merges

\* One turn of run, with the heads that were found
Turned(k, found) ==
  LET new == found \ (k.facts \cup {Denial}) IN
  The({IF Cardinality(new) + Cardinality(k.facts) > MaxFactsKept THEN [noted EXCEPT !.limit = TRUE]
       ELSE Ingest(noted, new) :
         noted \in {[k EXCEPT !.reported = IF Denial \in found THEN @ \cup {"constraint"} ELSE @]}})

-----------------------------------------------------------------------------
(* Publication *)

\* A handle that is filled, before the first round
Filling(p) == [phase |-> "running", program |-> p, kernel |-> Opened(p), rounds |-> 0, last |-> FALSE]

\* The constructor publishes the first closure, or raises.
RuntimeInit ==
  /\ \E p \in Ontologies : candidate = Filling(p)
  /\ runtime = [open |-> FALSE, program |-> candidate.program, kernel |-> Kernel, revision |-> -1]
  /\ prepared = [q \in Queries |-> [phase |-> "none", revision |-> 0, rows |-> {}, result |-> <<>>]]

\* A callback of a query that runs holds the lock but may call the owner again.
Running == \E q \in Queries : prepared[q].phase \in {"running", "given"}

Available == runtime.open /\ candidate = NoCandidate /\ ~Running

\* update: a new handle is filled beside the old one, with the program the changes make.
StartUpdate ==
  /\ Available /\ runtime.revision < MaxRevision
  /\ \E p \in Ontologies : candidate' = Filling(p)
  /\ UNCHANGED <<runtime, prepared>>

UpdateRound ==
  /\ candidate.phase = "running" /\ ~candidate.last /\ ~candidate.kernel.limit /\ candidate.rounds < MaxRounds
  /\ \E found \in {UNION {Conclusions(candidate.kernel, r) : r \in candidate.program.rules}} :
     \E after \in {Turned(candidate.kernel, found)} :
       candidate' = [candidate EXCEPT !.kernel = after, !.rounds = @ + 1,
                                      !.last = ~after.limit /\ Unchanged(candidate.kernel, after)]
  /\ UNCHANGED <<runtime, prepared>>

\* A limit, the last round allowed, no memory, or dlp_runtime_cancel by another thread.
FailUpdate ==
  /\ candidate.phase = "running" /\ candidate' = NoCandidate
  /\ UNCHANGED <<runtime, prepared>>

\* Every field but the lock comes from the candidate.
Published == [runtime EXCEPT !.open = TRUE, !.program = candidate.program, !.kernel = candidate.kernel, !.revision = @ + 1]

Publish ==
  /\ candidate.phase = "running" /\ candidate.last /\ ~candidate.kernel.limit
  /\ runtime' = Published /\ candidate' = NoCandidate
  /\ UNCHANGED prepared

CloseRuntime ==
  /\ Available
  /\ runtime' = [runtime EXCEPT !.open = FALSE] /\ UNCHANGED <<candidate, prepared>>

-----------------------------------------------------------------------------
(* Prepared queries *)

RowsAsked == {f.args : f \in {g \in runtime.kernel.facts : g.pred = Asked}}

\* NativePackageQuery copies a consistent closure; an update drops the package's plan.
Prepare(q) ==
  /\ Available /\ prepared[q].phase = "none"
  /\ runtime.revision = 0 /\ runtime.kernel.reported = {}
  /\ prepared' = [prepared EXCEPT ![q] = [phase |-> "ready", revision |-> 0, rows |-> RowsAsked, result |-> <<>>]]
  /\ UNCHANGED <<runtime, candidate>>

\* Mutant: a result that is there is given without a look at the runtime.
GuardNew(q) == prepared[q].result # <<>> \/ (runtime.open /\ runtime.revision = prepared[q].revision)

\* _guard
Guard(q) == runtime.open /\ runtime.revision = prepared[q].revision

Moved(q, from, to) == prepared[q].phase = from /\ prepared' = [prepared EXCEPT ![q].phase = to]

\* run, to its first callback; a result that is kept is given at once.
RunPrepared(q) ==
  /\ Available /\ Guard(q)
  /\ Moved(q, "ready", IF prepared[q].result = <<>> THEN "running" ELSE "given")
  /\ UNCHANGED <<runtime, candidate>>

\* After the last callback the result is kept.
EndRun(q) ==
  /\ prepared[q].phase = "running" /\ Guard(q)
  /\ prepared' = [prepared EXCEPT ![q].phase = "given", ![q].result = <<prepared[q].rows>>]
  /\ UNCHANGED <<runtime, candidate>>

\* The deadline passes or the caller cancels.
FailPrepared(q) == Moved(q, "running", "ready") /\ UNCHANGED <<runtime, candidate>>

\* The call is over: the lock is free.
Return(q) == Moved(q, "given", "ready") /\ UNCHANGED <<runtime, candidate>>

ClosePrepared(q) == Moved(q, "ready", "none") /\ UNCHANGED <<runtime, candidate>>

RuntimeNext ==
  \/ StartUpdate \/ UpdateRound \/ FailUpdate \/ Publish \/ CloseRuntime
  \/ \E q \in Queries : Prepare(q) \/ RunPrepared(q) \/ EndRun(q) \/ FailPrepared(q) \/ Return(q) \/ ClosePrepared(q)

-----------------------------------------------------------------------------
\* The published closure is that of the published program, terms, facts and contradictions
\* alike, after updates that failed in any round, were cancelled or were refused.
PublishedIsModel ==
  runtime.open =>
  LET model == Meaning[runtime.program]
      k     == runtime.kernel IN
  /\ \A s, t \in k.active : model.class[s] = model.class[t] <=> RootOf(k, s) = RootOf(k, t)
  /\ {Quotient(f, model.class) : f \in k.facts} = model.facts
  /\ \A f \in k.facts : Rooted(k, f) = f
  /\ model.inconsistent <=> k.reported # {}

\* A query gives the rows of the closure that is published when it is given, and its
\* results, kept or new, are of the revision it was prepared on.
ResultsAreOfSnapshot ==
  \A q \in Queries : prepared[q].phase = "given" =>
    /\ prepared[q].revision = runtime.revision
    /\ prepared[q].result = <<RowsAsked>>
=============================================================================
