------------------------------- MODULE Reasoner -------------------------------
(***************************************************************************)
(* Reasoner (reasoner.py): queries over a materialized ontology, answered  *)
(* from caches that the state they were computed from guards, and          *)
(* transactional updates during which queries may be asked reentrantly.    *)
(*                                                                         *)
(* An answer is what its computation read.  The engine is its program, the *)
(* content of its facts and what it says of itself: the content is the     *)
(* program it was materialized from, or Torn while a call is changing it.  *)
(* The parts of a call at which queries can be asked are steps.            *)
(***************************************************************************)
EXTENDS Integers, FiniteSets

CONSTANTS
  FactTriples, RuleTriples,  \* what compiles to assertions, and to rules
  Clash,                     \* triples that together violate a constraint
  Settings,                  \* profiles and engine options
  Queries,                   \* the kinds of query that are asked
  MaxEntries,                \* query_cache_size
  MaxChanges,                \* bound of revisions and new objects together
  Unknown

ASSUME QueriesAssumption ==
  Queries \subseteq {"instances", "types", "fresh name", "probe", "subsumes", "entails"}

Triples == FactTriples \cup RuleTriples
Torn    == [facts |-> {"torn"}, rules |-> {}]
None    == "none"

VARIABLES
  graph,     \* the RDF graph: its object, triples, store revision, and whether
             \*   the store is a RevisionMemory
  program,   \* the program compiled from it
  engine,    \* the engine: its object, program, content, revision and status
  settings,  \* profile and engine_options
  cache,     \* the answer cache
  views,     \* those of _types_index, _graph_nodes and _schema_cache that exist
  epoch,     \* _query_cache_epoch
  call,      \* the mutation in progress
  direct     \* whether the engine has been used directly since it was built

vars == <<graph, program, engine, settings, cache, views, epoch, call, direct>>

Cache == INSTANCE AnswerCache
  WITH MaxValues <- MaxEntries, MaxBytes <- MaxEntries, Keys <- Queries, Answers <- {},
       ValuesOf <- LAMBDA a : 1, BytesOf <- LAMBDA k, a : 1, given <- <<>>

-----------------------------------------------------------------------------
(* Helpers                                                                  *)

(* compile_graph: the assertions and rules of a graph.  Where it raises, no *)
(* update has begun.                                                        *)
Compiled(G) == [facts |-> G \cap FactTriples, rules |-> G \cap RuleTriples]

Violates(P) == Clash # {} /\ Clash \subseteq P.facts \cup P.rules

(* An engine that has been materialized, or updated, to completion or to a  *)
(* limit, which it meets before it finds a violation.                       *)
Settled(e, P, complete) ==
  [e EXCEPT !.program = P, !.content = IF complete THEN P ELSE Torn, !.complete = complete,
            !.failed = FALSE, !.violated = complete /\ Violates(P)]

(* _query_cache_token: a foreign store is known by its triples.             *)
Token ==
  <<graph.id, graph.revision, IF graph.owned THEN {} ELSE graph.triples,
    engine.id, engine.revision, engine.complete, settings>>

NoViews == [v \in {} |-> {}]

SchemaOf(v) == [x \in DOMAIN v \cap {"schema"} |-> v[x]]

(* _sync_query_cache, as the cache and views it leaves.                     *)
SyncedCache == IF Token = epoch THEN cache ELSE Cache!Empty
SyncedViews == IF Token = epoch THEN views ELSE NoViews

(* clear_query_cache after it: the schema proofs remain.                    *)
Clear(token, v) ==
  /\ cache' = Cache!Empty
  /\ views' = SchemaOf(v)
  /\ epoch' = token

Guard(q) ==
  /\ ~engine.violated
  /\ engine.complete \/ (q = "entails" /\ ~engine.failed)

(* What the views would be if they were built now.                          *)
CurrentViews == [types |-> engine.content, nodes |-> graph.triples, schema |-> program.rules]

ViewsOf(q) == CASE q = "types"     -> {"types"}
                [] q = "instances" -> {"nodes"}
                [] q = "subsumes"  -> {"schema"}
                [] OTHER           -> {}

(* The views v, and those of a query built where they are missing.          *)
Built(q, v) ==
  [x \in DOMAIN v \cup ViewsOf(q) |-> IF x \in DOMAIN v THEN v[x] ELSE CurrentViews[x]]

(* What a query reads, through the views v.                                 *)
Reads(q, v) ==
  CASE q = "instances"  -> <<engine.content, v.nodes>>
    [] q = "types"      -> <<v.types>>
    [] q = "fresh name" -> <<engine.content, program, settings>>
    [] q = "probe"      -> <<graph.triples, settings>>
    [] q = "subsumes"   -> <<v.schema, graph.triples, settings>>
    [] q = "entails"    -> <<engine.content>>

-----------------------------------------------------------------------------
(* Queries                                                                  *)

Kept(q) == engine.complete

(* _cached_query: a hit, or a computation whose answer is kept only if it   *)
(* is complete.                                                             *)
Query(q) ==
  /\ Guard(q)
  /\ epoch' = Token
  /\ IF q \in Cache!KeysOf(SyncedCache)
     THEN /\ cache' = Cache!Touched(SyncedCache, q)
          /\ views' = SyncedViews
     ELSE /\ views' = Built(q, SyncedViews)
          /\ cache' = IF Kept(q)
                      THEN Cache!Stored(SyncedCache, q, Reads(q, views'))
                      ELSE SyncedCache
  /\ UNCHANGED <<graph, program, engine, settings, call, direct>>

-----------------------------------------------------------------------------
(* Reasoner.update                                                          *)

Idle == call = [kind |-> None]

Changes(n) == graph.id + graph.revision + engine.id + engine.revision + n <= MaxChanges

(* The candidate has compiled, and the caches are released before the engine.   *)
BeginUpdate(G) ==
  /\ Idle
  /\ Clear(Token, SyncedViews)
  /\ call' = [kind |-> "update", candidate |-> G, schema |-> SchemaOf(SyncedViews),
              stage |-> "cleared"]
  /\ UNCHANGED <<graph, program, engine, settings, direct>>

(* Mutant: a failed engine is updated like any other.                       *)
RebuiltNever == FALSE

Rebuilt == engine.failed

(* What the engine makes of the difference between the programs.            *)
Difference(P) ==
  [facts |-> (engine.program.facts \ (program.facts \ P.facts)) \cup (P.facts \ program.facts),
   rules |-> (engine.program.rules \ (program.rules \ P.rules)) \cup (P.rules \ program.rules)]

(* Engine.update installs the program under a new revision; its facts are   *)
(* still the old ones.                                                      *)
EnterEngine ==
  /\ call.kind = "update" /\ call.stage = "cleared"
  /\ ~Rebuilt
  /\ Changes(1)
  /\ engine' = [engine EXCEPT !.program = Difference(Compiled(call.candidate)),
                              !.revision = @ + 1]
  /\ call' = [call EXCEPT !.stage = "entered"]
  /\ UNCHANGED <<graph, program, settings, cache, views, epoch, direct>>

(* Maintenance begins: a further revision, and facts of neither program.    *)
ChangeFacts ==
  /\ call.kind = "update" /\ call.stage = "entered"
  /\ Changes(1)
  /\ \E violated \in BOOLEAN :
       engine' = [engine EXCEPT !.content = Torn, !.revision = @ + 1, !.complete = TRUE,
                                !.violated = violated]
  /\ call' = [call EXCEPT !.stage = "changed"]
  /\ UNCHANGED <<graph, program, settings, cache, views, epoch, direct>>

(* Schema proofs are about the rules and survive other changes.             *)
KeptSchema(P) == IF P.rules = program.rules THEN call.schema ELSE NoViews

(* The source follows the engine, and what was answered in between goes.    *)
Publish(e) ==
  LET P == Compiled(call.candidate)
  IN  /\ engine' = e
      /\ graph' = [id |-> graph.id + 1, triples |-> call.candidate, revision |-> 0, owned |-> TRUE]
      /\ program' = P
      /\ call' = [kind |-> None]
      /\ UNCHANGED settings
      /\ Clear(Token', KeptSchema(P))

FinishUpdate(complete) ==
  /\ call.kind = "update" /\ call.stage = "changed"
  /\ Changes(1)
  /\ Publish(Settled(engine, engine.program, complete))
  /\ UNCHANGED direct

NewEngine == [id |-> engine.id + 1, program |-> [facts |-> {}, rules |-> {}], content |-> Torn,
              revision |-> 0, complete |-> FALSE, failed |-> FALSE, violated |-> FALSE]

(* A failed engine is replaced by one of the candidate alone.               *)
Rebuild(complete) ==
  /\ call.kind = "update" /\ call.stage = "cleared"
  /\ Rebuilt
  /\ Changes(2)
  /\ Publish(Settled(NewEngine, Compiled(call.candidate), complete))
  /\ direct' = FALSE

(* An exception anywhere: the engine knows whether it was entered, and      *)
(* answers given meanwhile go.                                              *)
FailUpdate ==
  /\ call.kind = "update"
  /\ engine' = IF call.stage = "cleared" THEN engine
               ELSE [engine EXCEPT !.content = Torn, !.complete = FALSE, !.failed = TRUE]
  /\ call' = [kind |-> None]
  /\ UNCHANGED <<graph, program, settings, direct>>
  /\ Clear(Token', NoViews)

-----------------------------------------------------------------------------
(* What callers do to the parts of a reasoner                               *)

(* A write to an owned graph: listeners run before the triple is stored,    *)
(* and the store counts a revision on either side of it.                    *)
BeginWrite(G) ==
  /\ Idle
  /\ graph.owned /\ Changes(2)
  /\ graph' = [graph EXCEPT !.revision = @ + 1]
  /\ call' = [kind |-> "write", triples |-> G]
  /\ UNCHANGED <<program, engine, settings, cache, views, epoch, direct>>

(* Mutant: the revision is counted before the write only.                   *)
WrittenOnce(G) == [graph EXCEPT !.triples = G]

Written(G) == [graph EXCEPT !.triples = G, !.revision = @ + 1]

EndWrite ==
  /\ call.kind = "write"
  /\ \E G \in {call.triples, graph.triples} : graph' = Written(G)
  /\ call' = [kind |-> None]
  /\ UNCHANGED <<program, engine, settings, cache, views, epoch, direct>>

ReplaceGraph(G, owned) ==
  /\ Idle
  /\ Changes(1)
  /\ graph' = [id |-> graph.id + 1, triples |-> G, revision |-> 0, owned |-> owned]
  /\ UNCHANGED <<program, engine, settings, cache, views, epoch, call, direct>>

(* A graph with a foreign store tells nobody of its changes.                *)
WriteForeign(G) ==
  /\ Idle
  /\ ~graph.owned
  /\ graph' = [graph EXCEPT !.triples = G]
  /\ UNCHANGED <<program, engine, settings, cache, views, epoch, call, direct>>

Configure(s) ==
  /\ Idle
  /\ settings' = s
  /\ UNCHANGED <<graph, program, engine, cache, views, epoch, call, direct>>

(* A transaction, or a materialization, of the engine behind the reasoner.  *)
UseEngine(P, complete) ==
  /\ Idle
  /\ Changes(1)
  /\ engine' = [Settled(engine, P, complete) EXCEPT !.revision = @ + 1]
  /\ direct' = TRUE
  /\ UNCHANGED <<graph, program, settings, cache, views, epoch, call>>

FailEngine(P) ==
  /\ Idle
  /\ Changes(1)
  /\ engine' = [engine EXCEPT !.program = P, !.content = Torn, !.revision = @ + 1,
                              !.complete = FALSE, !.failed = TRUE]
  /\ direct' = TRUE
  /\ UNCHANGED <<graph, program, settings, cache, views, epoch, call>>

ClearQueryCache ==
  /\ Clear(Token, SyncedViews)
  /\ UNCHANGED <<graph, program, engine, settings, call, direct>>

-----------------------------------------------------------------------------

Init ==
  \E G \in SUBSET Triples, s \in Settings :
    /\ graph = [id |-> 0, triples |-> G, revision |-> 0, owned |-> TRUE]
    /\ program = Compiled(G)
    /\ engine = [id |-> 0, program |-> program, content |-> program, revision |-> 0,
                 complete |-> TRUE, failed |-> FALSE, violated |-> Violates(program)]
    /\ settings = s
    /\ cache = Cache!Empty
    /\ views = NoViews
    /\ epoch = Token
    /\ call = [kind |-> None]
    /\ direct = FALSE

(* Callers add or remove at most one triple at a time.                      *)
Near(G, S) == {G} \cup {G \cup {t} : t \in S} \cup {G \ {t} : t \in S}

NearProgram(P) == {[P EXCEPT !.facts = F] : F \in Near(P.facts, FactTriples)}
                    \cup {[P EXCEPT !.rules = R] : R \in Near(P.rules, RuleTriples)}

Next ==
  \/ \E q \in Queries : Query(q)
  \/ ClearQueryCache
  \/ \E G \in Near(graph.triples, Triples) : BeginUpdate(G) \/ BeginWrite(G) \/ WriteForeign(G)
  \/ EnterEngine \/ ChangeFacts \/ FailUpdate \/ EndWrite
  \/ \E complete \in BOOLEAN : FinishUpdate(complete) \/ Rebuild(complete)
  \/ \E G \in Near(graph.triples, Triples), owned \in BOOLEAN : ReplaceGraph(G, owned)
  \/ \E s \in Settings : Configure(s)
  \/ \E P \in NearProgram(engine.program) : FailEngine(P)
  \/ \E P \in NearProgram(engine.program), complete \in BOOLEAN : UseEngine(P, complete)

Spec == Init /\ [][Next]_vars

-----------------------------------------------------------------------------
(* Properties                                                               *)

(* Outside an update, what is cached under the present state is what a      *)
(* computation would find in it, whatever was asked while it changed        *)
(* (_query_cache_token, _cached_query, update).                             *)
AnswersAreCurrent ==
  (call.kind # "update" /\ Token = epoch) =>
    /\ \A q \in Cache!KeysOf(cache) : Cache!EntryOf(cache, q).answer = Reads(q, CurrentViews)
    /\ \A v \in DOMAIN views : views[v] = CurrentViews[v]

(* Between calls an engine that is used through its reasoner holds the      *)
(* reasoner's program: after a failed update too, the next one starts from  *)
(* the committed source (update).                                           *)
EngineFollowsSource ==
  (Idle /\ ~direct /\ ~engine.failed) => engine.program = program
=============================================================================
