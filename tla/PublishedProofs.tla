----------------------------- MODULE PublishedProofs -----------------------------
(***************************************************************************)
(* Proofs about what is published from a source that moves on: answers of  *)
(* the reasoner and views of it, results of the query runtime, and maps.   *)
(***************************************************************************)
EXTENDS ScopedViews, QueryRuntime, MapRuntime, LoopProofs, FiniteSetTheorems

-----------------------------------------------------------------------------
(* The reasoner's cache, as far as it matters which answers it holds        *)

(* A cache is a record, and its entries are a sequence.                     *)
Held(c, S) ==
  /\ c.entries \in Seq(S)
  /\ c = [entries |-> c.entries, values |-> c.values, bytes |-> c.bytes]

LEMMA PlaceHeld ==
  ASSUME NEW S, NEW c, Held(c, S), NEW k \in Cache!KeysOf(c)
  PROVE  /\ Cache!Place(c, k) \in 1 .. Len(c.entries)
         /\ Cache!EntryOf(c, k) \in S /\ Cache!EntryOf(c, k).key = k
PROOF
  <1> DEFINE s == c.entries
             i == Cache!Place(c, k)
  <1>1. s \in Seq(S) /\ DOMAIN s = 1 .. Len(s)
    BY DEF Held
  <1>2. i \in DOMAIN s /\ s[i].key = k
    BY DEF Cache!KeysOf, Cache!Place
  <1> HIDE DEF s, i
  <1>3. s[i] \in S
    BY <1>1, <1>2
  <1> QED
    BY <1>1, <1>2, <1>3 DEF s, i, Cache!EntryOf

LEMMA RemovedHeld ==
  ASSUME NEW S, NEW c, Held(c, S), NEW k
  PROVE  /\ Held(Cache!Without(c, k), S)
         /\ k \in Cache!KeysOf(c) => RemoveAt(c.entries, Cache!Place(c, k)) \in Seq(S)
PROOF
  <1>1. CASE k \notin Cache!KeysOf(c)
    BY <1>1 DEF Cache!Without
  <1>2. CASE k \in Cache!KeysOf(c)
    <2> DEFINE s == c.entries
               i == Cache!Place(c, k)
    <2>1. s \in Seq(S) /\ i \in 1 .. Len(s)
      BY <1>2, PlaceHeld DEF Held
    <2> HIDE DEF s, i
    <2>2. RemoveAt(s, i) \in Seq(S)
      BY <2>1, Removed
    <2>3. Cache!Without(c, k) =
            [entries |-> RemoveAt(s, i), values |-> c.values - Cache!EntryOf(c, k).values,
             bytes |-> c.bytes - Cache!EntryOf(c, k).bytes]
      BY <1>2 DEF Cache!Without, Cache!RemoveAt, RemoveAt, s, i
    <2> QED
      BY <2>2, <2>3 DEF Held, s, i
  <1> QED
    BY <1>1, <1>2

LEMMA TouchedHeld ==
  ASSUME NEW S, NEW c, Held(c, S), NEW k \in Cache!KeysOf(c)
  PROVE  Held(Cache!Touched(c, k), S)
PROOF
  <1> DEFINE t == RemoveAt(c.entries, Cache!Place(c, k))
             e == Cache!EntryOf(c, k)
  <1>1. t \in Seq(S)
    BY RemovedHeld
  <1>1a. e \in S
    BY PlaceHeld
  <1>2. Cache!Touched(c, k) = [c EXCEPT !.entries = Append(t, e)]
    BY DEF Cache!Touched, Cache!RemoveAt, RemoveAt
  <1>3. \A x : [c EXCEPT !.entries = x] = [entries |-> x, values |-> c.values, bytes |-> c.bytes]
    BY DEF Held
  <1> HIDE DEF t, e
  <1>4. Append(t, e) \in Seq(S)
    BY <1>1, <1>1a
  <1> QED
    BY <1>2, <1>3, <1>4 DEF Held

(* The eviction loop ends, and leaves entries that were there.              *)
LEMMA EvictedHeld ==
  ASSUME NEW S, NEW c, Held(c, S), NEW e
  PROVE  Cache!Evicted(c, e).entries \in Seq(S)
PROOF
  <1> DEFINE n == Len(c.entries)
             T == {i \in 0 .. n : Cache!Fits(Cache!Dropped(c, i), e)}
             Stops(i) == /\ Cache!Fits(Cache!Dropped(c, i), e)
                         /\ \A m \in 0 .. i - 1 : ~Cache!Fits(Cache!Dropped(c, m), e)
             stop == CHOOSE i \in 0 .. n : Stops(i)
  <1>1. n \in Nat /\ c.entries \in Seq(S)
    BY DEF Held
  <1>2. \A i \in 0 .. n : Cache!Dropped(c, i).entries = SubSeq(c.entries, i + 1, n)
    BY DEF Cache!Dropped
  <1>3. n \in T
    <2>1. Cache!Dropped(c, n).entries = <<>>
      BY <1>1, <1>2
    <2>2. Cache!Fits(Cache!Dropped(c, n), e)
      BY <2>1 DEF Cache!Fits
    <2> QED
      BY <1>1, <2>2
  <1>4. PICK i \in T : \A m \in T : i <= m
    <2>1. T \in SUBSET Nat
      BY <1>1
    <2> HIDE DEF T
    <2> QED
      BY <1>3, <2>1, LeastNatural
  <1>5. i \in 0 .. n /\ Stops(i)
    <2>1. \A m \in 0 .. i - 1 : m \in 0 .. n /\ ~ (i <= m)
      BY <1>1, <1>4
    <2> QED
      BY <1>4, <2>1
  <1>6. stop \in 0 .. n
    <2> HIDE DEF Stops
    <2> QED
      BY <1>5
  <1>7. Cache!Evicted(c, e) = Cache!Dropped(c, stop)
    BY DEF Cache!Evicted
  <1> HIDE DEF stop
  <1>8. SubSeq(c.entries, stop + 1, n) \in Seq(S)
    BY <1>1, <1>6
  <1> QED
    BY <1>2, <1>6, <1>7, <1>8

LEMMA StoredHeld ==
  ASSUME NEW S, NEW c, Held(c, S), NEW k, NEW a
  PROVE  Held(Cache!Stored(c, k, a), S \cup {Cache!Entry(k, a)})
PROOF
  <1> DEFINE new == Cache!Entry(k, a)
             d == Cache!Without(c, k)
             e == Cache!Evicted(d, new)
  <1>1. Held(d, S)
    BY RemovedHeld
  <1>2. CASE Cache!Bypassed(k, a)
    <2>1. Cache!Stored(c, k, a) = d
      BY <1>2 DEF Cache!Stored
    <2> HIDE DEF d, new
    <2>2. Held(d, S \cup {new})
      BY <1>1 DEF Held
    <2> QED
      BY <2>1, <2>2 DEF new
  <1>3. CASE ~Cache!Bypassed(k, a)
    <2>1. e.entries \in Seq(S)
      <3> HIDE DEF d, new
      <3> QED
        BY <1>1, EvictedHeld
    <2>2. Cache!Stored(c, k, a) = Cache!Added(e, new)
      BY <1>3 DEF Cache!Stored, Cache!Retained
    <2> HIDE DEF e, new
    <2>3. Append(e.entries, new) \in Seq(S \cup {new})
      BY <2>1
    <2> QED
      BY <2>2, <2>3 DEF Cache!Added, Held, new
  <1> QED
    BY <1>2, <1>3

-----------------------------------------------------------------------------
(* The reasoner                                                             *)

(* The parts of answers and views that stand as long as what the epoch      *)
(* names of the graph, of the engine and of the settings does.              *)
GraphIs(T) ==
  (epoch[1] = graph.id /\ epoch[2] = graph.revision)
    => T = IF graph.owned THEN graph.triples ELSE epoch[3]
ProgramIs(P)  == epoch[1] = graph.id => P = program
RulesAre(R)   == epoch[1] = graph.id => R = program.rules
EngineIs(C)   == (epoch[4] = engine.id /\ epoch[5] = engine.revision) => C = engine.content
SettingsAre(s) == s = epoch[7]

Stands(q, a) ==
  /\ q = "instances"  => a = <<a[1], a[2]>> /\ EngineIs(a[1]) /\ GraphIs(a[2])
  /\ q = "types"      => a = <<a[1]>> /\ EngineIs(a[1])
  /\ q = "fresh name" => a = <<a[1], a[2], a[3]>> /\ EngineIs(a[1]) /\ ProgramIs(a[2]) /\ SettingsAre(a[3])
  /\ q = "probe"      => a = <<a[1], a[2]>> /\ GraphIs(a[1]) /\ SettingsAre(a[2])
  /\ q = "subsumes"   => a = <<a[1], a[2], a[3]>> /\ RulesAre(a[1]) /\ GraphIs(a[2]) /\ SettingsAre(a[3])
  /\ q = "entails"    => a = <<a[1]>> /\ EngineIs(a[1])

AnswersStand ==
  /\ \A e \in Range(cache.entries) : e.key \in Queries /\ Stands(e.key, e.answer)
  /\ "types"  \in DOMAIN views => EngineIs(views["types"])
  /\ "nodes"  \in DOMAIN views => GraphIs(views["nodes"])
  /\ "schema" \in DOMAIN views => RulesAre(views["schema"])

(* Revisions only grow, and the epoch is of one that was.                   *)
EpochIsPast ==
  /\ epoch = <<epoch[1], epoch[2], epoch[3], epoch[4], epoch[5], epoch[6], epoch[7]>>
  /\ {epoch[1], epoch[2], epoch[4], epoch[5]} \subseteq Nat
  /\ epoch[1] <= graph.id /\ (epoch[1] = graph.id => epoch[2] <= graph.revision)
  /\ epoch[4] <= engine.id /\ (epoch[4] = engine.id => epoch[5] <= engine.revision)

ProgramType == [facts : SUBSET FactTriples, rules : SUBSET RuleTriples]

CallType ==
  {[kind |-> None]}
    \cup [kind : {"write"}, triples : SUBSET Triples]
    \cup [kind : {"update"}, candidate : SUBSET Triples, schema : {NoViews} \cup [{"schema"} -> SUBSET RuleTriples],
          stage : {"cleared", "entered", "changed"}]

CoreTypes ==
  /\ graph \in [id : Nat, triples : SUBSET Triples, revision : Nat, owned : BOOLEAN]
  /\ program \in ProgramType
  /\ engine \in [id : Nat, program : ProgramType, content : ProgramType \cup {Torn}, revision : Nat,
                 complete : BOOLEAN, failed : BOOLEAN, violated : BOOLEAN]
  /\ call \in CallType
  /\ direct \in BOOLEAN

CacheTypes ==
  /\ Held(cache, Range(cache.entries))
  /\ DOMAIN views \subseteq {"types", "nodes", "schema"} /\ views = [v \in DOMAIN views |-> views[v]]

ReasonerTypes == CoreTypes /\ CacheTypes

(* The schema that an update carries along, and the program that the engine *)
(* has while it runs.                                                       *)
CallIsOfProgram ==
  /\ call.kind = "update" /\ "schema" \in DOMAIN call.schema => call.schema["schema"] = program.rules
  /\ call.kind = "update" /\ call.stage # "cleared" => ~engine.failed
  /\ ~direct /\ ~engine.failed =>
       engine.program = IF call.kind = "update" /\ call.stage # "cleared"
                        THEN Compiled(call.candidate) ELSE program

ReasonerInvariant == ReasonerTypes /\ EpochIsPast /\ AnswersStand /\ CallIsOfProgram

(* Under the present token what stands is what there is.                    *)
LEMMA TokenStands ==
  epoch = Token =>
    /\ \A T : GraphIs(T) <=> T = graph.triples
    /\ \A P : ProgramIs(P) <=> P = program
    /\ \A R : RulesAre(R) <=> R = program.rules
    /\ \A C : EngineIs(C) <=> C = engine.content
    /\ \A s : SettingsAre(s) <=> s = settings
PROOF
  <1> SUFFICES ASSUME epoch = Token
               PROVE  /\ \A T : GraphIs(T) <=> T = graph.triples
                      /\ \A P : ProgramIs(P) <=> P = program
                      /\ \A R : RulesAre(R) <=> R = program.rules
                      /\ \A C : EngineIs(C) <=> C = engine.content
                      /\ \A s : SettingsAre(s) <=> s = settings
    OBVIOUS
  <1>1. /\ epoch[1] = graph.id /\ epoch[2] = graph.revision
        /\ epoch[3] = IF graph.owned THEN {} ELSE graph.triples
        /\ epoch[4] = engine.id /\ epoch[5] = engine.revision /\ epoch[7] = settings
    BY DEF Token
  <1> QED
    BY <1>1 DEF GraphIs, ProgramIs, RulesAre, EngineIs, SettingsAre

(* An answer that stands under the present token is what would be read now. *)
LEMMA AnswerStands ==
  epoch = Token =>
    /\ \A q \in Queries : \A a : Stands(q, a) => a = Reads(q, CurrentViews)
    /\ \A q \in Queries : \A v :
         ( /\ q = "types" => v["types"] = engine.content
           /\ q = "instances" => v["nodes"] = graph.triples
           /\ q = "subsumes" => v["schema"] = program.rules ) => Stands(q, Reads(q, v))
PROOF
  <1> SUFFICES ASSUME epoch = Token, NEW q \in Queries
               PROVE  /\ \A a : Stands(q, a) => a = Reads(q, CurrentViews)
                      /\ \A v : ( /\ q = "types" => v["types"] = engine.content
                                  /\ q = "instances" => v["nodes"] = graph.triples
                                  /\ q = "subsumes" => v["schema"] = program.rules )
                                => Stands(q, Reads(q, v))
    OBVIOUS
  <1>1. /\ \A T : GraphIs(T) <=> T = graph.triples
        /\ \A P : ProgramIs(P) <=> P = program
        /\ \A R : RulesAre(R) <=> R = program.rules
        /\ \A C : EngineIs(C) <=> C = engine.content
        /\ \A s : SettingsAre(s) <=> s = settings
    BY TokenStands
  <1>2. /\ CurrentViews.types = engine.content /\ CurrentViews.nodes = graph.triples
        /\ CurrentViews.schema = program.rules
    BY DEF CurrentViews
  <1>3. q \in {"instances", "types", "fresh name", "probe", "subsumes", "entails"}
    BY QueriesAssumption
  <1>4. CASE q = "instances"
    BY <1>1, <1>2, <1>4 DEF Stands, Reads
  <1>5. CASE q = "types"
    BY <1>1, <1>2, <1>5 DEF Stands, Reads
  <1>6. CASE q = "fresh name"
    BY <1>1, <1>2, <1>6 DEF Stands, Reads
  <1>7. CASE q = "probe"
    BY <1>1, <1>2, <1>7 DEF Stands, Reads
  <1>8. CASE q = "subsumes"
    BY <1>1, <1>2, <1>8 DEF Stands, Reads
  <1>9. CASE q = "entails"
    BY <1>1, <1>2, <1>9 DEF Stands, Reads
  <1> QED
    BY <1>3, <1>4, <1>5, <1>6, <1>7, <1>8, <1>9

-----------------------------------------------------------------------------
(* Steps of others: the cache, the views and the epoch stay                 *)

Moved == UNCHANGED <<cache, views, epoch>>

GraphMoves ==
  \/ UNCHANGED <<graph, program>>
  \/ graph'.id = graph.id /\ graph'.revision > graph.revision /\ UNCHANGED program
  \/ graph'.id > graph.id /\ UNCHANGED program
  \/ ~graph.owned /\ graph' = [graph EXCEPT !.triples = graph'.triples] /\ UNCHANGED program

EngineMoves ==
  \/ UNCHANGED engine
  \/ engine'.id = engine.id /\ engine'.revision > engine.revision

LEMMA MovesStand ==
  ASSUME ReasonerTypes, EpochIsPast, AnswersStand, CoreTypes', Moved, GraphMoves, EngineMoves
  PROVE  EpochIsPast' /\ AnswersStand'
PROOF
  <1>1. /\ {graph.id, graph.revision, engine.id, engine.revision} \subseteq Nat
        /\ {graph'.id, graph'.revision, engine'.id, engine'.revision} \subseteq Nat
        /\ graph = [id |-> graph.id, triples |-> graph.triples, revision |-> graph.revision,
                    owned |-> graph.owned]
    BY DEF ReasonerTypes, CoreTypes
  <1>2. /\ {epoch[1], epoch[2], epoch[4], epoch[5]} \subseteq Nat
        /\ epoch[1] <= graph.id /\ (epoch[1] = graph.id => epoch[2] <= graph.revision)
        /\ epoch[4] <= engine.id /\ (epoch[4] = engine.id => epoch[5] <= engine.revision)
    BY DEF EpochIsPast
  <1>3. epoch' = epoch /\ cache' = cache /\ views' = views /\ program' = program
    BY DEF Moved, GraphMoves
  <1>4. /\ graph'.id >= graph.id
        /\ graph'.id = graph.id => graph'.revision >= graph.revision
        /\ graph'.id = graph.id /\ graph'.revision = graph.revision =>
             graph'.owned = graph.owned /\ (graph.owned => graph'.triples = graph.triples)
    <2>1. CASE UNCHANGED graph
      BY <1>1, <2>1
    <2>2. CASE ~graph.owned /\ graph' = [graph EXCEPT !.triples = graph'.triples]
      <3>1. graph'.id = graph.id /\ graph'.revision = graph.revision /\ graph'.owned = graph.owned
        BY <1>1, <2>2
      <3> QED
        BY <1>1, <2>2, <3>1
    <2>3. CASE graph'.id = graph.id /\ graph'.revision > graph.revision
      BY <1>1, <2>3
    <2>4. CASE graph'.id > graph.id
      BY <1>1, <2>4
    <2> QED
      BY <2>1, <2>2, <2>3, <2>4 DEF GraphMoves
  <1>5. /\ engine'.id = engine.id /\ engine'.revision >= engine.revision
        /\ engine'.revision = engine.revision => engine' = engine
    BY <1>1 DEF EngineMoves
  <1>6. EpochIsPast'
    <2>1. /\ epoch[1] <= graph'.id /\ (epoch[1] = graph'.id => epoch[2] <= graph'.revision)
          /\ epoch[4] <= engine'.id /\ (epoch[4] = engine'.id => epoch[5] <= engine'.revision)
      BY <1>1, <1>2, <1>4, <1>5
    <2> QED
      BY <1>3, <2>1 DEF EpochIsPast
  <1>7. \A T : GraphIs(T) => GraphIs(T)'
    BY <1>1, <1>2, <1>3, <1>4 DEF GraphIs
  <1>8. /\ \A P : ProgramIs(P) => ProgramIs(P)'
        /\ \A R : RulesAre(R) => RulesAre(R)'
    BY <1>1, <1>2, <1>3, <1>4 DEF ProgramIs, RulesAre
  <1>9. \A C : EngineIs(C) => EngineIs(C)'
    BY <1>1, <1>2, <1>3, <1>5 DEF EngineIs
  <1>10. \A s : SettingsAre(s) => SettingsAre(s)'
    BY <1>3 DEF SettingsAre
  <1>11. \A q, a : Stands(q, a) => Stands(q, a)'
    <2> SUFFICES ASSUME NEW q, NEW a, Stands(q, a)
                 PROVE  Stands(q, a)'
      OBVIOUS
    <2>1. q = "instances" => a = <<a[1], a[2]>> /\ EngineIs(a[1])' /\ GraphIs(a[2])'
      BY <1>7, <1>9 DEF Stands
    <2>2. q = "types" => a = <<a[1]>> /\ EngineIs(a[1])'
      BY <1>9 DEF Stands
    <2>3. q = "fresh name" =>
            a = <<a[1], a[2], a[3]>> /\ EngineIs(a[1])' /\ ProgramIs(a[2])' /\ SettingsAre(a[3])'
      BY <1>8, <1>9, <1>10 DEF Stands
    <2>4. q = "probe" => a = <<a[1], a[2]>> /\ GraphIs(a[1])' /\ SettingsAre(a[2])'
      BY <1>7, <1>10 DEF Stands
    <2>5. q = "subsumes" =>
            a = <<a[1], a[2], a[3]>> /\ RulesAre(a[1])' /\ GraphIs(a[2])' /\ SettingsAre(a[3])'
      BY <1>7, <1>8, <1>10 DEF Stands
    <2>6. q = "entails" => a = <<a[1]>> /\ EngineIs(a[1])'
      BY <1>9 DEF Stands
    <2> QED
      BY <2>1, <2>2, <2>3, <2>4, <2>5, <2>6 DEF Stands
  <1> QED
    BY <1>3, <1>6, <1>7, <1>8, <1>9, <1>11 DEF AnswersStand

-----------------------------------------------------------------------------
(* Queries: what the cache and the views hold is of the present state       *)

Views == {"types", "nodes", "schema"}

Fresh(c, v) ==
  /\ Held(c, Range(c.entries))
  /\ \A e \in Range(c.entries) : e.key \in Queries /\ e.answer = Reads(e.key, CurrentViews)
  /\ DOMAIN v \subseteq Views /\ v = [x \in DOMAIN v |-> v[x]]
  /\ \A x \in DOMAIN v : v[x] = CurrentViews[x]

LEMMA HeldRange ==
  ASSUME NEW S, NEW c, Held(c, S)
  PROVE  Held(c, Range(c.entries)) /\ Range(c.entries) \subseteq S
PROOF
  <1> DEFINE s == c.entries
             R == Range(s)
  <1>1. s \in Seq(S)
    BY DEF Held
  <1>2. \A x \in R : x \in S
    <2> HIDE DEF s
    <2> QED
      BY <1>1 DEF R, Range
  <1>3. s \in Seq(R)
    <2> HIDE DEF s
    <2>1. \A i \in 1 .. Len(s) : s[i] \in R
      BY <1>1 DEF R, Range
    <2> HIDE DEF R
    <2> QED
      BY <1>1, <2>1
  <1> QED
    BY <1>2, <1>3 DEF Held

LEMMA EmptyFresh ==
  ASSUME NEW v, DOMAIN v \subseteq Views, v = [x \in DOMAIN v |-> v[x]],
         \A x \in DOMAIN v : v[x] = CurrentViews[x]
  PROVE  Fresh(Cache!Empty, v)
PROOF
  <1>1. Cache!Empty = [entries |-> <<>>, values |-> 0, bytes |-> 0]
    BY DEF Cache!Empty
  <1>2. Range(<<>>) = {}
    BY DEF Range
  <1> QED
    BY <1>1, <1>2 DEF Fresh, Held

(* What the cache and the views of the present token hold is fresh, and     *)
(* what is fresh stands.                                                    *)
LEMMA StandsFresh ==
  ASSUME ReasonerTypes, AnswersStand
  PROVE  Fresh(SyncedCache, SyncedViews)
PROOF
  <1>1. CASE epoch # Token
    <2>1. SyncedCache = Cache!Empty /\ SyncedViews = NoViews
      BY <1>1 DEF SyncedCache, SyncedViews
    <2>2. DOMAIN NoViews = {} /\ NoViews = [x \in DOMAIN NoViews |-> NoViews[x]]
      BY DEF NoViews
    <2>3. Fresh(Cache!Empty, NoViews)
      BY <2>2, EmptyFresh
    <2> QED
      BY <2>1, <2>3
  <1>2. CASE epoch = Token
    <2>1. SyncedCache = cache /\ SyncedViews = views
      BY <1>2 DEF SyncedCache, SyncedViews
    <2>2. /\ \A T : GraphIs(T) <=> T = graph.triples
          /\ \A R : RulesAre(R) <=> R = program.rules
          /\ \A C : EngineIs(C) <=> C = engine.content
      BY <1>2, TokenStands
    <2>3. \A q \in Queries : \A a : Stands(q, a) => a = Reads(q, CurrentViews)
      BY <1>2, AnswerStands
    <2>4. \A e \in Range(cache.entries) : e.key \in Queries /\ e.answer = Reads(e.key, CurrentViews)
      BY <2>3 DEF AnswersStand
    <2>5. \A x \in DOMAIN views : x \in Views
      BY DEF ReasonerTypes, CacheTypes, Views
    <2>6. \A x \in DOMAIN views : views[x] = CurrentViews[x]
      BY <2>2, <2>5 DEF AnswersStand, CurrentViews, Views
    <2> QED
      BY <2>1, <2>4, <2>5, <2>6 DEF Fresh, ReasonerTypes, CacheTypes
  <1> QED
    BY <1>1, <1>2

LEMMA FreshStands ==
  /\ epoch = Token /\ Fresh(cache, views)
  /\ {graph.id, graph.revision, engine.id, engine.revision} \subseteq Nat
  => EpochIsPast /\ AnswersStand /\ CacheTypes
PROOF
  <1> SUFFICES ASSUME epoch = Token, Fresh(cache, views),
                      {graph.id, graph.revision, engine.id, engine.revision} \subseteq Nat
               PROVE  EpochIsPast /\ AnswersStand /\ CacheTypes
    OBVIOUS
  <1>1. EpochIsPast
    BY DEF EpochIsPast, Token
  <1>2. /\ \A T : GraphIs(T) <=> T = graph.triples
        /\ \A R : RulesAre(R) <=> R = program.rules
        /\ \A C : EngineIs(C) <=> C = engine.content
    BY TokenStands
  <1>3. /\ CurrentViews["types"] = engine.content /\ CurrentViews["nodes"] = graph.triples
        /\ CurrentViews["schema"] = program.rules
    BY DEF CurrentViews
  <1>4. \A q \in Queries : Stands(q, Reads(q, CurrentViews))
    BY <1>3, AnswerStands
  <1>5. \A e \in Range(cache.entries) : e.key \in Queries /\ Stands(e.key, e.answer)
    BY <1>4 DEF Fresh
  <1>6. AnswersStand
    BY <1>2, <1>3, <1>5 DEF AnswersStand, Fresh
  <1> QED
    BY <1>1, <1>6 DEF Fresh, Views, CacheTypes

(* What a query reads through fresh views is what there is.                 *)
LEMMA QueryFresh ==
  ASSUME ReasonerTypes, AnswersStand, NEW q \in Queries, Query(q)
  PROVE  Fresh(cache', views')
PROOF
  <1> DEFINE c == SyncedCache
             v == SyncedViews
             b == Built(q, v)
  <1>1. Fresh(c, v)
    BY StandsFresh
  <1>2. DOMAIN b = DOMAIN v \cup ViewsOf(q) /\ b = [x \in DOMAIN b |-> b[x]]
    BY DEF Built
  <1>3. ViewsOf(q) \subseteq Views
    BY DEF ViewsOf, Views
  <1>4. DOMAIN b \subseteq Views /\ \A x \in DOMAIN b : b[x] = CurrentViews[x]
    BY <1>1, <1>2, <1>3 DEF Built, Fresh
  <1>5. Reads(q, b) = Reads(q, CurrentViews)
    <2>1. /\ q = "types" => b["types"] = CurrentViews["types"]
          /\ q = "instances" => b["nodes"] = CurrentViews["nodes"]
          /\ q = "subsumes" => b["schema"] = CurrentViews["schema"]
      BY <1>2, <1>4 DEF ViewsOf
    <2> HIDE DEF b
    <2>2. q \in {"instances", "types", "fresh name", "probe", "subsumes", "entails"}
      BY QueriesAssumption
    <2> QED
      BY <2>1, <2>2 DEF Reads
  <1>6. CASE q \in Cache!KeysOf(c)
    <2>1. cache' = Cache!Touched(c, q) /\ views' = v
      BY <1>6 DEF Query
    <2>2. Held(Cache!Touched(c, q), Range(c.entries))
      <3> HIDE DEF c
      <3>1. Held(c, Range(c.entries))
        BY <1>1 DEF Fresh
      <3> QED
        BY <1>6, <3>1, TouchedHeld
    <2>3. Held(cache', Range(cache'.entries)) /\ Range(cache'.entries) \subseteq Range(c.entries)
      BY <2>1, <2>2, HeldRange
    <2> QED
      BY <1>1, <2>1, <2>3 DEF Fresh
  <1>7. CASE q \notin Cache!KeysOf(c) /\ Kept(q)
    <2> DEFINE new == Cache!Entry(q, Reads(q, b))
               s == Cache!Stored(c, q, Reads(q, b))
    <2>1. cache' = s /\ views' = b
      BY <1>7 DEF Query
    <2>2. Held(s, Range(c.entries) \cup {new})
      <3> HIDE DEF c, b
      <3>1. Held(c, Range(c.entries))
        BY <1>1 DEF Fresh
      <3> QED
        BY <3>1, StoredHeld
    <2>3. new.key = q /\ new.answer = Reads(q, b)
      BY DEF Cache!Entry
    <2> HIDE DEF s, new, b, c, v
    <2>4. Held(cache', Range(cache'.entries)) /\ Range(cache'.entries) \subseteq Range(c.entries) \cup {new}
      BY <2>1, <2>2, HeldRange
    <2>5. \A e \in Range(cache'.entries) : e.key \in Queries /\ e.answer = Reads(e.key, CurrentViews)
      BY <1>1, <1>5, <2>3, <2>4 DEF Fresh
    <2> QED
      BY <1>2, <1>4, <2>1, <2>4, <2>5 DEF Fresh
  <1>8. CASE q \notin Cache!KeysOf(c) /\ ~Kept(q)
    <2>1. cache' = c /\ views' = b
      BY <1>8 DEF Query
    <2> HIDE DEF b, c, v
    <2> QED
      BY <1>1, <1>2, <1>4, <2>1 DEF Fresh
  <1> QED
    BY <1>6, <1>7, <1>8

(* And stays so where nothing that is read changes.                         *)
LEMMA SameFresh ==
  ASSUME UNCHANGED <<graph, program, engine, settings>>, NEW c, NEW v, Fresh(c, v), cache' = c, views' = v
  PROVE  Fresh(cache, views)'
PROOF
  <1>1. CurrentViews' = CurrentViews
    BY DEF CurrentViews
  <1>2. \A q : Reads(q, CurrentViews)' = Reads(q, CurrentViews)
    BY <1>1 DEF Reads
  <1> QED
    BY <1>1, <1>2 DEF Fresh, Held

-----------------------------------------------------------------------------
(* The types of what is not cached, and the program of the engine           *)

LEMMA NearTypes ==
  /\ \A S : \A G \in SUBSET S : Near(G, S) \subseteq SUBSET S
  /\ \A P \in ProgramType : NearProgram(P) \subseteq ProgramType
PROOF
  <1>1. \A S : \A G \in SUBSET S : Near(G, S) \subseteq SUBSET S
    BY DEF Near
  <1>2. ASSUME NEW P \in ProgramType
        PROVE  NearProgram(P) \subseteq ProgramType
    <2>1. P.facts \in SUBSET FactTriples /\ P.rules \in SUBSET RuleTriples
      BY DEF ProgramType
    <2>2. \A F \in SUBSET FactTriples : [P EXCEPT !.facts = F] \in ProgramType
      BY DEF ProgramType
    <2>3. \A R \in SUBSET RuleTriples : [P EXCEPT !.rules = R] \in ProgramType
      BY DEF ProgramType
    <2> QED
      BY <1>1, <2>1, <2>2, <2>3 DEF NearProgram
  <1> QED
    BY <1>1, <1>2

LEMMA CompiledTypes ==
  /\ \A G : Compiled(G) \in ProgramType
  /\ \A P \in ProgramType : P.facts \in SUBSET FactTriples /\ P.rules \in SUBSET RuleTriples
                            /\ P = [facts |-> P.facts, rules |-> P.rules]
  BY DEF Compiled, ProgramType

(* A difference that is applied to what it was taken from is what it leads  *)
(* to.                                                                      *)
LEMMA DifferenceLeads ==
  ASSUME program \in ProgramType, engine.program \in ProgramType, NEW P \in ProgramType
  PROVE  /\ Difference(P) \in ProgramType
         /\ engine.program = program => Difference(P) = P
PROOF
  <1>1. Difference(P) \in ProgramType
    BY CompiledTypes DEF Difference, ProgramType
  <1>2. ASSUME engine.program = program PROVE Difference(P) = P
    <2>1. /\ (program.facts \ (program.facts \ P.facts)) \cup (P.facts \ program.facts) = P.facts
          /\ (program.rules \ (program.rules \ P.rules)) \cup (P.rules \ program.rules) = P.rules
      OBVIOUS
    <2>2. Difference(P) = [facts |-> P.facts, rules |-> P.rules]
      BY <1>2, <2>1 DEF Difference
    <2> QED
      BY <2>2, CompiledTypes
  <1> QED
    BY <1>1, <1>2

EngineType ==
  [id : Nat, program : ProgramType, content : ProgramType \cup {Torn}, revision : Nat,
   complete : BOOLEAN, failed : BOOLEAN, violated : BOOLEAN]

LEMMA SettledTypes ==
  ASSUME NEW e \in EngineType, NEW P \in ProgramType, NEW c \in BOOLEAN
  PROVE  /\ Settled(e, P, c) \in EngineType
         /\ Settled(e, P, c).program = P
         /\ Settled(e, P, c).id = e.id /\ Settled(e, P, c).revision = e.revision
PROOF
  <1>1. (c /\ Violates(P)) \in BOOLEAN
    OBVIOUS
  <1>2. (IF c THEN P ELSE Torn) \in ProgramType \cup {Torn}
    OBVIOUS
  <1> QED
    BY <1>1, <1>2 DEF Settled, EngineType

(* What goes into a call.                                                   *)
LEMMA CallTypes ==
  /\ [kind |-> None] \in CallType
  /\ \A G \in SUBSET Triples : [kind |-> "write", triples |-> G] \in CallType
  /\ \A G \in SUBSET Triples, s \in {NoViews} \cup [{"schema"} -> SUBSET RuleTriples],
        t \in {"cleared", "entered", "changed"} :
       [kind |-> "update", candidate |-> G, schema |-> s, stage |-> t] \in CallType
  /\ \A c \in CallType :
       /\ c.kind = "update" => c \in [kind : {"update"}, candidate : SUBSET Triples,
                                      schema : {NoViews} \cup [{"schema"} -> SUBSET RuleTriples],
                                      stage : {"cleared", "entered", "changed"}]
       /\ c.kind = "write" => c \in [kind : {"write"}, triples : SUBSET Triples]
  BY DEF CallType, None

LEMMA SchemaTypes ==
  ASSUME ReasonerTypes, AnswersStand
  PROVE  LET s == SchemaOf(SyncedViews)
         IN  /\ s \in {NoViews} \cup [{"schema"} -> SUBSET RuleTriples]
             /\ "schema" \in DOMAIN s => s["schema"] = program.rules
PROOF
  <1> DEFINE v == SyncedViews
             s == SchemaOf(v)
  <1>1. "schema" \in DOMAIN v => v["schema"] = program.rules
    <2>1. Fresh(SyncedCache, v)
      BY StandsFresh
    <2>2. CurrentViews["schema"] = program.rules
      BY DEF CurrentViews
    <2> QED
      BY <2>1, <2>2 DEF Fresh
  <1>2. program.rules \in SUBSET RuleTriples
    BY CompiledTypes DEF ReasonerTypes, CoreTypes
  <1> HIDE DEF v
  <1>3. CASE "schema" \in DOMAIN v
    <2>1. s = [x \in {"schema"} |-> v[x]]
      <3>1. DOMAIN v \cap {"schema"} = {"schema"}
        BY <1>3
      <3> QED
        BY <3>1 DEF SchemaOf
    <2> QED
      BY <1>1, <1>2, <1>3, <2>1 DEF v
  <1>4. CASE "schema" \notin DOMAIN v
    <2>1. s = [x \in {} |-> v[x]]
      <3>1. DOMAIN v \cap {"schema"} = {}
        BY <1>4
      <3> QED
        BY <3>1 DEF SchemaOf
    <2>2. s = NoViews /\ DOMAIN s = {}
      BY <2>1 DEF NoViews
    <2> QED
      BY <2>2 DEF v
  <1> QED
    BY <1>3, <1>4

(* The fields of an engine, and what may be put in their place.             *)
LEMMA EngineFields ==
  ASSUME engine \in EngineType
  PROVE  /\ engine.id \in Nat /\ engine.revision \in Nat /\ engine.revision + 1 \in Nat
         /\ engine.program \in ProgramType /\ engine.content \in ProgramType \cup {Torn}
         /\ engine.complete \in BOOLEAN /\ engine.failed \in BOOLEAN /\ engine.violated \in BOOLEAN
         /\ engine = [id |-> engine.id, program |-> engine.program, content |-> engine.content,
                      revision |-> engine.revision, complete |-> engine.complete,
                      failed |-> engine.failed, violated |-> engine.violated]
PROOF
  <1>1. engine.id \in Nat /\ engine.revision \in Nat /\ engine.revision + 1 \in Nat
    BY DEF EngineType
  <1>2. engine.program \in ProgramType /\ engine.content \in ProgramType \cup {Torn}
    BY DEF EngineType
  <1>3. engine.complete \in BOOLEAN /\ engine.failed \in BOOLEAN /\ engine.violated \in BOOLEAN
    BY DEF EngineType
  <1>4. engine = [id |-> engine.id, program |-> engine.program, content |-> engine.content,
                  revision |-> engine.revision, complete |-> engine.complete,
                  failed |-> engine.failed, violated |-> engine.violated]
    BY DEF EngineType
  <1> QED
    BY <1>1, <1>2, <1>3, <1>4

LEMMA EngineRecord ==
  \A i \in Nat, P \in ProgramType, C \in ProgramType \cup {Torn}, n \in Nat,
     b1 \in BOOLEAN, b2 \in BOOLEAN, b3 \in BOOLEAN :
    [id |-> i, program |-> P, content |-> C, revision |-> n,
     complete |-> b1, failed |-> b2, violated |-> b3] \in EngineType
  BY DEF EngineType

(* A call that begins.                                                      *)
LEMMA CallsKeepCore ==
  ASSUME ReasonerInvariant, NEW G \in SUBSET Triples,
         BeginUpdate(G) \/ BeginWrite(G) \/ WriteForeign(G) \/ EndWrite
         \/ \E owned \in BOOLEAN : ReplaceGraph(G, owned)
  PROVE  CoreTypes' /\ CallIsOfProgram'
PROOF
  <1>1. /\ graph \in [id : Nat, triples : SUBSET Triples, revision : Nat, owned : BOOLEAN]
        /\ program \in ProgramType /\ engine \in EngineType /\ call \in CallType /\ direct \in BOOLEAN
    BY DEF ReasonerInvariant, ReasonerTypes, CoreTypes, EngineType
  <1>2. /\ ~direct /\ ~engine.failed =>
             engine.program = IF call.kind = "update" /\ call.stage # "cleared"
                              THEN Compiled(call.candidate) ELSE program
        /\ call.kind = "update" /\ "schema" \in DOMAIN call.schema => call.schema["schema"] = program.rules
        /\ call.kind = "update" /\ call.stage # "cleared" => ~engine.failed
    BY DEF ReasonerInvariant, CallIsOfProgram
  <1>3. Idle => call.kind = "none"
    BY DEF Idle, None
  <1>4. CASE BeginUpdate(G)
    <2> DEFINE s == SchemaOf(SyncedViews)
    <2>1. s \in {NoViews} \cup [{"schema"} -> SUBSET RuleTriples]
          /\ ("schema" \in DOMAIN s => s["schema"] = program.rules)
      BY SchemaTypes DEF ReasonerInvariant
    <2> HIDE DEF s
    <2>2. /\ call' = [kind |-> "update", candidate |-> G, schema |-> s, stage |-> "cleared"]
          /\ UNCHANGED <<graph, program, engine, direct>> /\ Idle
      BY <1>4 DEF BeginUpdate, s
    <2>3. call' \in CallType
      BY <2>1, <2>2, CallTypes
    <2>4. call'.kind = "update" /\ call'.stage = "cleared" /\ call'.schema = s
      BY <2>2
    <2> QED
      BY <1>1, <1>2, <1>3, <2>1, <2>2, <2>3, <2>4 DEF CoreTypes, CallIsOfProgram, EngineType
  <1>5. CASE BeginWrite(G)
    <2>1. /\ graph' = [graph EXCEPT !.revision = @ + 1] /\ call' = [kind |-> "write", triples |-> G]
          /\ UNCHANGED <<program, engine, direct>> /\ Idle
      BY <1>5 DEF BeginWrite
    <2>2. graph' \in [id : Nat, triples : SUBSET Triples, revision : Nat, owned : BOOLEAN]
      BY <1>1, <2>1
    <2>3. call' \in CallType /\ call'.kind = "write"
      BY <2>1, CallTypes
    <2> QED
      BY <1>1, <1>2, <1>3, <2>1, <2>2, <2>3 DEF CoreTypes, CallIsOfProgram, EngineType
  <1>6. CASE EndWrite
    <2>1. call.kind = "write" /\ UNCHANGED <<program, engine, direct>> /\ call' = [kind |-> None]
      BY <1>6 DEF EndWrite
    <2>2. call.triples \in SUBSET Triples
      BY <1>1, <2>1, CallTypes
    <2>3. PICK H \in {call.triples, graph.triples} : graph' = [graph EXCEPT !.triples = H, !.revision = @ + 1]
      BY <1>6 DEF EndWrite, Written
    <2>4. graph' \in [id : Nat, triples : SUBSET Triples, revision : Nat, owned : BOOLEAN]
      <3>1. H \in SUBSET Triples /\ graph.revision + 1 \in Nat
        BY <1>1, <2>2
      <3>2. graph' = [id |-> graph.id, triples |-> H, revision |-> graph.revision + 1, owned |-> graph.owned]
        BY <1>1, <2>3
      <3> QED
        BY <1>1, <3>1, <3>2
    <2>5. call' \in CallType /\ call'.kind = "none"
      BY <2>1, CallTypes DEF None
    <2> QED
      BY <1>1, <1>2, <2>1, <2>4, <2>5 DEF CoreTypes, CallIsOfProgram, EngineType
  <1>7. CASE WriteForeign(G)
    <2>1. graph' = [graph EXCEPT !.triples = G] /\ UNCHANGED <<program, engine, call, direct>>
      BY <1>7 DEF WriteForeign
    <2>2. graph' \in [id : Nat, triples : SUBSET Triples, revision : Nat, owned : BOOLEAN]
      BY <1>1, <2>1
    <2> QED
      BY <1>1, <1>2, <2>1, <2>2 DEF CoreTypes, CallIsOfProgram, EngineType
  <1>8. CASE \E owned \in BOOLEAN : ReplaceGraph(G, owned)
    <2>1. PICK owned \in BOOLEAN : ReplaceGraph(G, owned)
      BY <1>8
    <2>2. /\ graph' = [id |-> graph.id + 1, triples |-> G, revision |-> 0, owned |-> owned]
          /\ UNCHANGED <<program, engine, call, direct>>
      BY <2>1 DEF ReplaceGraph
    <2>3. graph' \in [id : Nat, triples : SUBSET Triples, revision : Nat, owned : BOOLEAN]
      BY <1>1, <2>2
    <2> QED
      BY <1>1, <1>2, <2>2, <2>3 DEF CoreTypes, CallIsOfProgram, EngineType
  <1> QED
    BY <1>4, <1>5, <1>6, <1>7, <1>8

(* An update that goes on.                                                  *)
LEMMA UpdatesKeepCore ==
  ASSUME ReasonerInvariant,
         EnterEngine \/ ChangeFacts \/ FailUpdate
         \/ \E all \in BOOLEAN : FinishUpdate(all) \/ Rebuild(all)
  PROVE  CoreTypes' /\ CallIsOfProgram'
PROOF
  <1> DEFINE P == Compiled(call.candidate)
  <1>1. /\ graph \in [id : Nat, triples : SUBSET Triples, revision : Nat, owned : BOOLEAN]
        /\ program \in ProgramType /\ engine \in EngineType /\ call \in CallType /\ direct \in BOOLEAN
    BY DEF ReasonerInvariant, ReasonerTypes, CoreTypes, EngineType
  <1>2. /\ ~direct /\ ~engine.failed =>
             engine.program = IF call.kind = "update" /\ call.stage # "cleared" THEN P ELSE program
        /\ call.kind = "update" /\ "schema" \in DOMAIN call.schema => call.schema["schema"] = program.rules
        /\ call.kind = "update" /\ call.stage # "cleared" => ~engine.failed
    BY DEF ReasonerInvariant, CallIsOfProgram
  <1>3. call.kind = "update"
    BY DEF EnterEngine, ChangeFacts, FailUpdate, FinishUpdate, Rebuild
  <1>4. call \in [kind : {"update"}, candidate : SUBSET Triples,
                  schema : {NoViews} \cup [{"schema"} -> SUBSET RuleTriples],
                  stage : {"cleared", "entered", "changed"}]
    BY <1>1, <1>3, CallTypes
  <1>5. P \in ProgramType /\ engine.program \in ProgramType /\ call.candidate \in SUBSET Triples
    BY <1>1, <1>4, CompiledTypes DEF EngineType
  <1> HIDE DEF P
  <1>6. CASE EnterEngine
    <2>1. /\ engine' = [engine EXCEPT !.program = Difference(P), !.revision = @ + 1]
          /\ call' = [call EXCEPT !.stage = "entered"] /\ call.stage = "cleared" /\ ~engine.failed
          /\ UNCHANGED <<graph, program, direct>>
      BY <1>6 DEF EnterEngine, Rebuilt, P
    <2>2. Difference(P) \in ProgramType /\ (engine.program = program => Difference(P) = P)
      BY <1>1, <1>5, DifferenceLeads
    <2>3. engine' \in EngineType /\ engine'.program = Difference(P) /\ engine'.failed = engine.failed
      <3>1. engine' = [id |-> engine.id, program |-> Difference(P), content |-> engine.content,
                       revision |-> engine.revision + 1, complete |-> engine.complete,
                       failed |-> engine.failed, violated |-> engine.violated]
        BY <1>1, <2>1, EngineFields
      <3> QED
        BY <1>1, <2>2, <3>1, EngineFields, EngineRecord
    <2>4. /\ call' = [kind |-> "update", candidate |-> call.candidate, schema |-> call.schema, stage |-> "entered"]
          /\ call'.kind = "update" /\ call'.stage = "entered"
          /\ call'.candidate = call.candidate /\ call'.schema = call.schema
      BY <1>4, <2>1
    <2>5. call' \in CallType
      BY <1>4, <2>4, CallTypes
    <2>6. Compiled(call'.candidate) = P
      BY <2>4 DEF P
    <2>7. ~direct' => engine'.program = P
      BY <1>2, <2>1, <2>2, <2>3
    <2> QED
      BY <1>1, <1>2, <1>3, <2>1, <2>3, <2>4, <2>5, <2>6, <2>7 DEF CoreTypes, CallIsOfProgram, EngineType
  <1>7. CASE ChangeFacts
    <2>1. /\ call' = [call EXCEPT !.stage = "changed"] /\ call.stage = "entered"
          /\ UNCHANGED <<graph, program, direct>>
      BY <1>7 DEF ChangeFacts
    <2>2. PICK violated \in BOOLEAN :
            engine' = [engine EXCEPT !.content = Torn, !.revision = @ + 1, !.complete = TRUE,
                                     !.violated = violated]
      BY <1>7 DEF ChangeFacts
    <2>3. engine' \in EngineType /\ engine'.program = engine.program /\ engine'.failed = engine.failed
      <3>1. engine' = [id |-> engine.id, program |-> engine.program, content |-> Torn,
                       revision |-> engine.revision + 1, complete |-> TRUE,
                       failed |-> engine.failed, violated |-> violated]
        BY <1>1, <2>2, EngineFields
      <3> QED
        BY <1>1, <3>1, EngineFields, EngineRecord
    <2>4. /\ call' = [kind |-> "update", candidate |-> call.candidate, schema |-> call.schema, stage |-> "changed"]
          /\ call'.kind = "update" /\ call'.stage = "changed"
          /\ call'.candidate = call.candidate /\ call'.schema = call.schema
      BY <1>4, <2>1
    <2>5. call' \in CallType
      BY <1>4, <2>4, CallTypes
    <2>6. Compiled(call'.candidate) = P
      BY <2>4 DEF P
    <2>7. ~direct' => engine'.program = P
      BY <1>2, <1>3, <2>1, <2>3
    <2> QED
      BY <1>1, <1>2, <1>3, <2>1, <2>3, <2>4, <2>5, <2>6, <2>7 DEF CoreTypes, CallIsOfProgram, EngineType
  <1>8. CASE FailUpdate
    <2>1. /\ engine' = IF call.stage = "cleared" THEN engine
                       ELSE [engine EXCEPT !.content = Torn, !.complete = FALSE, !.failed = TRUE]
          /\ call' = [kind |-> None] /\ UNCHANGED <<graph, program, direct>>
      BY <1>8 DEF FailUpdate
    <2>2. engine' \in EngineType
      BY <1>1, <2>1 DEF EngineType
    <2>3. call.stage # "cleared" => engine'.failed = TRUE
      BY <1>1, <2>1 DEF EngineType
    <2>4. call' \in CallType /\ call'.kind = "none"
      BY <2>1, CallTypes DEF None
    <2>5. ~direct' /\ ~engine'.failed => engine'.program = program
      BY <1>2, <2>1, <2>3
    <2> QED
      BY <1>1, <2>1, <2>2, <2>4, <2>5 DEF CoreTypes, CallIsOfProgram, EngineType
  <1>9. ASSUME NEW e \in EngineType, Publish(e), direct' \in BOOLEAN, ~direct' => e.program = P
        PROVE  CoreTypes' /\ CallIsOfProgram'
    <2>1. /\ engine' = e /\ program' = P /\ call' = [kind |-> None]
          /\ graph' = [id |-> graph.id + 1, triples |-> call.candidate, revision |-> 0, owned |-> TRUE]
      BY <1>9 DEF Publish, P
    <2>2. graph' \in [id : Nat, triples : SUBSET Triples, revision : Nat, owned : BOOLEAN]
      BY <1>1, <1>5, <2>1
    <2>3. call' \in CallType /\ call'.kind = "none"
      BY <2>1, CallTypes DEF None
    <2> QED
      BY <1>5, <1>9, <2>1, <2>2, <2>3 DEF CoreTypes, CallIsOfProgram, EngineType
  <1>10. CASE \E all \in BOOLEAN : FinishUpdate(all) \/ Rebuild(all)
    <2>1. PICK all \in BOOLEAN : FinishUpdate(all) \/ Rebuild(all)
      BY <1>10
    <2>2. CASE FinishUpdate(all)
      <3> DEFINE e == Settled(engine, engine.program, all)
      <3>1. Publish(e) /\ call.stage = "changed" /\ direct' = direct
        BY <2>2 DEF FinishUpdate
      <3>2. e \in EngineType /\ e.program = engine.program
        BY <1>1, <1>5, SettledTypes
      <3> HIDE DEF e
      <3> QED
        BY <1>1, <1>2, <1>3, <1>9, <3>1, <3>2
    <2>3. CASE Rebuild(all)
      <3> DEFINE e == Settled(NewEngine, P, all)
      <3>1. Publish(e) /\ direct' = FALSE
        BY <2>3 DEF Rebuild, P
      <3>2. NewEngine \in EngineType
        BY <1>1 DEF NewEngine, EngineType, ProgramType
      <3>3. e \in EngineType /\ e.program = P
        BY <1>5, <3>2, SettledTypes
      <3> HIDE DEF e
      <3> QED
        BY <1>9, <3>1, <3>3
    <2> QED
      BY <2>1, <2>2, <2>3
  <1> QED
    BY <1>6, <1>7, <1>8, <1>10

(* The engine in use by others, and what changes nothing of this.           *)
LEMMA OthersKeepCore ==
  ASSUME ReasonerInvariant,
         \/ ClearQueryCache
         \/ \E q \in Queries : Query(q)
         \/ \E s \in Settings : Configure(s)
         \/ \E P \in ProgramType : FailEngine(P)
         \/ \E P \in ProgramType, all \in BOOLEAN : UseEngine(P, all)
  PROVE  CoreTypes' /\ CallIsOfProgram'
PROOF
  <1>1. /\ graph \in [id : Nat, triples : SUBSET Triples, revision : Nat, owned : BOOLEAN]
        /\ program \in ProgramType /\ engine \in EngineType /\ call \in CallType /\ direct \in BOOLEAN
    BY DEF ReasonerInvariant, ReasonerTypes, CoreTypes, EngineType
  <1>2. CallIsOfProgram
    BY DEF ReasonerInvariant
  <1>3. CASE UNCHANGED <<graph, program, engine, call, direct>>
    BY <1>1, <1>2, <1>3 DEF CoreTypes, CallIsOfProgram, EngineType
  <1>4. CASE ClearQueryCache \/ (\E q \in Queries : Query(q)) \/ \E s \in Settings : Configure(s)
    <2>1. UNCHANGED <<graph, program, engine, call, direct>>
      BY <1>4 DEF ClearQueryCache, Query, Configure
    <2> QED
      BY <1>3, <2>1
  <1>5. ASSUME Idle, engine' \in EngineType, direct' = TRUE, UNCHANGED <<graph, program, call>>
        PROVE  CoreTypes' /\ CallIsOfProgram'
    <2>1. call.kind = "none"
      BY <1>5 DEF Idle, None
    <2> QED
      BY <1>1, <1>5, <2>1 DEF CoreTypes, CallIsOfProgram, EngineType
  <1>6. CASE \E P \in ProgramType : FailEngine(P)
    <2>1. PICK P \in ProgramType : FailEngine(P)
      BY <1>6
    <2>2. engine' = [engine EXCEPT !.program = P, !.content = Torn, !.revision = @ + 1,
                                   !.complete = FALSE, !.failed = TRUE]
      BY <2>1 DEF FailEngine
    <2>3. engine' \in EngineType
      <3>1. engine' = [id |-> engine.id, program |-> P, content |-> Torn,
                       revision |-> engine.revision + 1, complete |-> FALSE,
                       failed |-> TRUE, violated |-> engine.violated]
        BY <1>1, <2>2, EngineFields
      <3> QED
        BY <1>1, <3>1, EngineFields, EngineRecord
    <2> QED
      BY <1>5, <2>1, <2>3 DEF FailEngine
  <1>7. CASE \E P \in ProgramType, all \in BOOLEAN : UseEngine(P, all)
    <2>1. PICK P \in ProgramType, all \in BOOLEAN : UseEngine(P, all)
      BY <1>7
    <2> DEFINE e == Settled(engine, P, all)
    <2>2. e \in EngineType
      BY <1>1, SettledTypes
    <2>3. engine' = [e EXCEPT !.revision = @ + 1]
      BY <2>1 DEF UseEngine
    <2> HIDE DEF e
    <2>4. engine' \in EngineType
      BY <2>2, <2>3 DEF EngineType
    <2> QED
      BY <1>5, <2>1, <2>4 DEF UseEngine
  <1> QED
    BY <1>4, <1>6, <1>7

LEMMA CoreStep == ReasonerInvariant /\ Next => CoreTypes' /\ CallIsOfProgram'
PROOF
  <1> SUFFICES ASSUME ReasonerInvariant, Next
               PROVE  CoreTypes' /\ CallIsOfProgram'
    OBVIOUS
  <1>1. Near(graph.triples, Triples) \subseteq SUBSET Triples
    <2>1. graph.triples \in SUBSET Triples
      BY DEF ReasonerInvariant, ReasonerTypes, CoreTypes
    <2> QED
      BY <2>1, NearTypes
  <1>2. NearProgram(engine.program) \subseteq ProgramType
    <2>1. engine.program \in ProgramType
      BY DEF ReasonerInvariant, ReasonerTypes, CoreTypes
    <2> QED
      BY <2>1, NearTypes
  <1>3. CASE \E G \in Near(graph.triples, Triples) :
               BeginUpdate(G) \/ BeginWrite(G) \/ WriteForeign(G) \/ \E owned \in BOOLEAN : ReplaceGraph(G, owned)
    <2>1. PICK G \in SUBSET Triples :
            BeginUpdate(G) \/ BeginWrite(G) \/ WriteForeign(G) \/ \E owned \in BOOLEAN : ReplaceGraph(G, owned)
      BY <1>1, <1>3
    <2> QED
      BY <2>1, CallsKeepCore
  <1>4. CASE EndWrite
    <2>1. {} \in SUBSET Triples
      OBVIOUS
    <2> QED
      BY <1>4, <2>1, CallsKeepCore
  <1>5. CASE EnterEngine \/ ChangeFacts \/ FailUpdate
             \/ \E all \in BOOLEAN : FinishUpdate(all) \/ Rebuild(all)
    BY <1>5, UpdatesKeepCore
  <1>6. CASE ClearQueryCache \/ (\E q \in Queries : Query(q)) \/ \E s \in Settings : Configure(s)
    BY <1>6, OthersKeepCore
  <1>7. CASE (\E P \in NearProgram(engine.program) : FailEngine(P))
             \/ \E P \in NearProgram(engine.program), all \in BOOLEAN : UseEngine(P, all)
    <2>1. (\E P \in ProgramType : FailEngine(P)) \/ \E P \in ProgramType, all \in BOOLEAN : UseEngine(P, all)
      BY <1>2, <1>7
    <2> QED
      BY <2>1, OthersKeepCore
  <1> QED
    BY <1>3, <1>4, <1>5, <1>6, <1>7 DEF Next

(* Cleared views are of the program that is now the reasoner's.             *)
LEMMA ClearedFresh ==
  /\ cache = Cache!Empty /\ DOMAIN views \subseteq {"schema"} /\ views = [x \in DOMAIN views |-> views[x]]
  /\ "schema" \in DOMAIN views => views["schema"] = program.rules
  => Fresh(cache, views)
PROOF
  <1>1. CurrentViews["schema"] = program.rules
    BY DEF CurrentViews
  <1> QED
    BY <1>1, EmptyFresh DEF Views

LEMMA ClearStands ==
  ASSUME NEW v, Clear(Token', v), CoreTypes', "schema" \in DOMAIN v => v["schema"] = program'.rules
  PROVE  EpochIsPast' /\ AnswersStand' /\ CacheTypes'
PROOF
  <1>1. cache' = Cache!Empty /\ views' = [x \in DOMAIN v \cap {"schema"} |-> v[x]] /\ epoch' = Token'
    BY DEF Clear, SchemaOf
  <1>2. Cache!Empty' = Cache!Empty
    BY DEF Cache!Empty
  <1>3. DOMAIN views' = DOMAIN v \cap {"schema"} /\ \A x \in DOMAIN views' : views'[x] = v[x]
    BY <1>1
  <1>4. (cache = Cache!Empty /\ DOMAIN views \subseteq {"schema"} /\ views = [x \in DOMAIN views |-> views[x]]
         /\ ("schema" \in DOMAIN views => views["schema"] = program.rules))'
    BY <1>1, <1>2, <1>3
  <1>5. Fresh(cache, views)'
    BY <1>4, ClearedFresh, PTL
  <1>6. ({graph.id, graph.revision, engine.id, engine.revision} \subseteq Nat)'
    BY DEF CoreTypes
  <1>7. (epoch = Token)'
    BY <1>1
  <1> QED
    BY <1>5, <1>6, <1>7, FreshStands, PTL

LEMMA AnswersStep == ReasonerInvariant /\ Next /\ CoreTypes' => EpochIsPast' /\ AnswersStand' /\ CacheTypes'
PROOF
  <1> SUFFICES ASSUME ReasonerInvariant, Next, CoreTypes'
               PROVE  EpochIsPast' /\ AnswersStand' /\ CacheTypes'
    OBVIOUS
  <1> DEFINE Answered == EpochIsPast' /\ AnswersStand' /\ CacheTypes'
  <1>1. /\ ReasonerTypes /\ EpochIsPast /\ AnswersStand /\ CallIsOfProgram /\ CoreTypes /\ CacheTypes
        /\ {graph.id, graph.revision, engine.id, engine.revision} \subseteq Nat
        /\ graph = [graph EXCEPT !.triples = graph.triples]
    BY DEF ReasonerInvariant, ReasonerTypes, CoreTypes
  <1>2. ({graph.id, graph.revision, engine.id, engine.revision} \subseteq Nat)'
    BY DEF CoreTypes
  <1>3. ASSUME Moved, GraphMoves, EngineMoves PROVE Answered
    <2>1. EpochIsPast' /\ AnswersStand'
      BY <1>1, <1>3, MovesStand
    <2>2. CacheTypes'
      BY <1>1, <1>3 DEF CacheTypes, Moved, Held
    <2> QED
      BY <2>1, <2>2
  <1>4. CASE \E q \in Queries : Query(q)
    <2>1. PICK q \in Queries : Query(q)
      BY <1>4
    <2>2. Fresh(cache', views')
      BY <1>1, <2>1, QueryFresh
    <2>3. UNCHANGED <<graph, program, engine, settings>> /\ epoch' = Token
      BY <2>1 DEF Query
    <2>4. Fresh(cache, views)'
      BY <2>2, <2>3, SameFresh
    <2>5. (epoch = Token)'
      BY <2>3 DEF Token
    <2> QED
      BY <1>2, <2>4, <2>5, FreshStands, PTL
  <1>5. CASE ClearQueryCache \/ \E G \in Near(graph.triples, Triples) : BeginUpdate(G)
    <2> DEFINE v == SyncedViews
    <2>1. Clear(Token, v) /\ UNCHANGED <<graph, program, engine, settings>>
      BY <1>5 DEF ClearQueryCache, BeginUpdate
    <2>2. Fresh(SyncedCache, v)
      BY <1>1, StandsFresh
    <2>3. CurrentViews["schema"] = program.rules
      BY DEF CurrentViews
    <2> HIDE DEF v
    <2>4. Clear(Token', v)
      BY <2>1 DEF Token, Clear
    <2>5. "schema" \in DOMAIN v => v["schema"] = program'.rules
      BY <2>1, <2>2, <2>3 DEF Fresh
    <2> QED
      BY <2>4, <2>5, ClearStands
  <1>6. CASE \E all \in BOOLEAN : FinishUpdate(all) \/ Rebuild(all)
    <2> DEFINE P == Compiled(call.candidate)
               v == KeptSchema(P)
    <2>1. Clear(Token', v) /\ program' = P /\ call.kind = "update"
      BY <1>6 DEF FinishUpdate, Rebuild, Publish
    <2> HIDE DEF P
    <2>2. "schema" \in DOMAIN v => P.rules = program.rules /\ v = call.schema
      BY DEF KeptSchema, NoViews
    <2>3. "schema" \in DOMAIN v => v["schema"] = program'.rules
      BY <1>1, <2>1, <2>2 DEF CallIsOfProgram
    <2> HIDE DEF v
    <2> QED
      BY <2>1, <2>3, ClearStands
  <1>7. CASE FailUpdate
    <2>1. Clear(Token', NoViews)
      BY <1>7 DEF FailUpdate
    <2>2. "schema" \notin DOMAIN NoViews
      BY DEF NoViews
    <2> QED
      BY <2>1, <2>2, ClearStands
  <1>8. engine \in EngineType
    BY <1>1 DEF CoreTypes, EngineType
  <1>9. CASE EnterEngine \/ ChangeFacts
             \/ (\E P \in NearProgram(engine.program) : FailEngine(P))
             \/ \E P \in NearProgram(engine.program), all \in BOOLEAN : UseEngine(P, all)
    <2>1. Moved /\ UNCHANGED <<graph, program>>
      BY <1>9 DEF EnterEngine, ChangeFacts, FailEngine, UseEngine, Moved
    <2>2. engine'.id = engine.id /\ engine'.revision = engine.revision + 1
      <3>1. CASE EnterEngine \/ ChangeFacts
        BY <1>8, <3>1, EngineFields DEF EnterEngine, ChangeFacts
      <3>2. CASE \E P \in NearProgram(engine.program) : FailEngine(P)
        BY <1>8, <3>2, EngineFields DEF FailEngine
      <3>3. CASE \E P \in NearProgram(engine.program), all \in BOOLEAN : UseEngine(P, all)
        <4>1. PICK P \in NearProgram(engine.program), all \in BOOLEAN : UseEngine(P, all)
          BY <3>3
        <4>2. engine' = [Settled(engine, P, all) EXCEPT !.revision = @ + 1]
          BY <4>1 DEF UseEngine
        <4>3. P \in ProgramType
          BY <1>8, EngineFields, NearTypes
        <4> DEFINE e == Settled(engine, P, all)
        <4>4. e \in EngineType /\ e.id = engine.id /\ e.revision = engine.revision
          BY <1>8, <4>3, SettledTypes
        <4> HIDE DEF e
        <4>5. engine' = [e EXCEPT !.revision = @ + 1]
          BY <4>2 DEF e
        <4> QED
          BY <4>4, <4>5 DEF EngineType
      <3> QED
        BY <1>9, <3>1, <3>2, <3>3
    <2>3. EngineMoves /\ GraphMoves
      BY <1>1, <2>1, <2>2 DEF EngineMoves, GraphMoves
    <2> QED
      BY <1>3, <2>1, <2>3
  <1>10. CASE \E G \in Near(graph.triples, Triples) :
                BeginWrite(G) \/ WriteForeign(G) \/ \E owned \in BOOLEAN : ReplaceGraph(G, owned)
    <2>1. PICK G : BeginWrite(G) \/ WriteForeign(G) \/ \E owned \in BOOLEAN : ReplaceGraph(G, owned)
      BY <1>10
    <2>2. Moved /\ EngineMoves /\ UNCHANGED program
      BY <2>1 DEF BeginWrite, WriteForeign, ReplaceGraph, Moved, EngineMoves
    <2>3. CASE BeginWrite(G)
      <3>1. graph' = [graph EXCEPT !.revision = @ + 1]
        BY <2>3 DEF BeginWrite
      <3>2. graph'.id = graph.id /\ graph'.revision > graph.revision
        BY <1>1, <3>1 DEF CoreTypes
      <3> QED
        BY <1>3, <2>2, <3>2 DEF GraphMoves
    <2>4. CASE WriteForeign(G)
      <3>1. graph' = [graph EXCEPT !.triples = G] /\ ~graph.owned
        BY <2>4 DEF WriteForeign
      <3>2. graph'.triples = G
        BY <1>1, <3>1 DEF CoreTypes
      <3> QED
        BY <1>3, <2>2, <3>1, <3>2 DEF GraphMoves
    <2>5. CASE \E owned \in BOOLEAN : ReplaceGraph(G, owned)
      <3>1. graph'.id = graph.id + 1
        BY <2>5 DEF ReplaceGraph
      <3>2. graph'.id > graph.id
        BY <1>1, <3>1
      <3> QED
        BY <1>3, <2>2, <3>2 DEF GraphMoves
    <2> QED
      BY <2>1, <2>3, <2>4, <2>5
  <1>11. CASE EndWrite
    <2>1. Moved /\ EngineMoves /\ UNCHANGED program
      BY <1>11 DEF EndWrite, Moved, EngineMoves
    <2>2. PICK H : graph' = [graph EXCEPT !.triples = H, !.revision = @ + 1]
      BY <1>11 DEF EndWrite, Written
    <2>3. graph'.id = graph.id /\ graph'.revision > graph.revision
      BY <1>1, <2>2 DEF CoreTypes
    <2> QED
      BY <1>3, <2>1, <2>3 DEF GraphMoves
  <1>12. CASE \E s \in Settings : Configure(s)
    <2>1. Moved /\ EngineMoves /\ UNCHANGED <<graph, program>>
      BY <1>12 DEF Configure, Moved, EngineMoves
    <2> QED
      BY <1>3, <2>1 DEF GraphMoves
  <1> QED
    BY <1>4, <1>5, <1>6, <1>7, <1>9, <1>10, <1>11, <1>12 DEF Next

LEMMA ReasonerStarts == Init => ReasonerInvariant
PROOF
  <1> SUFFICES ASSUME Init PROVE ReasonerInvariant
    OBVIOUS
  <1>1. PICK G \in SUBSET Triples : program = Compiled(G)
          /\ graph = [id |-> 0, triples |-> G, revision |-> 0, owned |-> TRUE]
    BY DEF Init
  <1>2. /\ engine = [id |-> 0, program |-> program, content |-> program, revision |-> 0,
                     complete |-> TRUE, failed |-> FALSE, violated |-> Violates(program)]
        /\ cache = Cache!Empty /\ views = NoViews /\ epoch = Token /\ call = [kind |-> None] /\ direct = FALSE
    BY DEF Init
  <1>3. program \in ProgramType
    BY <1>1, CompiledTypes
  <1>4. Violates(program) \in BOOLEAN
    BY DEF Violates
  <1>5. engine \in EngineType
    BY <1>2, <1>3, <1>4, EngineRecord
  <1>6. call \in CallType /\ call.kind = "none"
    BY <1>2, CallTypes DEF None
  <1>7. graph \in [id : Nat, triples : SUBSET Triples, revision : Nat, owned : BOOLEAN]
    BY <1>1
  <1>8. CoreTypes
    BY <1>2, <1>3, <1>5, <1>6, <1>7 DEF CoreTypes, EngineType
  <1>9. Fresh(cache, views)
    BY <1>2, ClearedFresh DEF NoViews
  <1>10. {graph.id, graph.revision, engine.id, engine.revision} \subseteq Nat
    BY <1>5, <1>7, EngineFields
  <1>11. EpochIsPast /\ AnswersStand /\ CacheTypes
    BY <1>2, <1>9, <1>10, FreshStands
  <1>12. CallIsOfProgram
    BY <1>2, <1>6 DEF CallIsOfProgram
  <1> QED
    BY <1>8, <1>11, <1>12 DEF ReasonerInvariant, ReasonerTypes

LEMMA ReasonerStep == ReasonerInvariant /\ [Next]_vars => ReasonerInvariant'
PROOF
  <1>1. CASE ReasonerInvariant /\ Next
    BY <1>1, CoreStep, AnswersStep DEF ReasonerInvariant, ReasonerTypes
  <1>2. ReasonerInvariant /\ UNCHANGED vars => ReasonerInvariant'
    <2> SUFFICES ASSUME ReasonerInvariant, UNCHANGED vars PROVE ReasonerInvariant'
      OBVIOUS
    <2>1. CoreTypes' /\ CallIsOfProgram'
      BY DEF ReasonerInvariant, ReasonerTypes, vars, CoreTypes, CallIsOfProgram
    <2>2. CacheTypes'
      BY DEF ReasonerInvariant, ReasonerTypes, vars, CacheTypes, Held
    <2>3. EpochIsPast' /\ AnswersStand'
      <3>1. Moved /\ GraphMoves /\ EngineMoves
        BY DEF vars, Moved, GraphMoves, EngineMoves
      <3> QED
        BY <2>1, <3>1, MovesStand DEF ReasonerInvariant
    <2> QED
      BY <2>1, <2>2, <2>3 DEF ReasonerInvariant, ReasonerTypes
  <1> QED
    BY <1>1, <1>2

LEMMA ReasonerInvariantHolds == Spec => []ReasonerInvariant
PROOF
  <1> QED
    BY ReasonerStarts, ReasonerStep, PTL DEF Spec

(* Whatever was asked while the reasoner's parts changed, in whatever order *)
(* updates, writes and reentrant queries came, an answer or a view that a   *)
(* query would be given is what it would find (_query_cache_token,          *)
(* _cached_query, update).                                                  *)
THEOREM AnswersFollowTheToken == Spec => []AnswersAreCurrent
PROOF
  <1>1. ReasonerInvariant => AnswersAreCurrent
    <2> SUFFICES ASSUME ReasonerInvariant, Token = epoch
                 PROVE  /\ \A q \in Cache!KeysOf(cache) : Cache!EntryOf(cache, q).answer = Reads(q, CurrentViews)
                        /\ \A v \in DOMAIN views : views[v] = CurrentViews[v]
      BY DEF AnswersAreCurrent
    <2>1. Fresh(cache, views)
      <3>1. Fresh(SyncedCache, SyncedViews)
        BY StandsFresh DEF ReasonerInvariant
      <3> QED
        BY <3>1 DEF SyncedCache, SyncedViews
    <2>2. ASSUME NEW q \in Cache!KeysOf(cache)
          PROVE  Cache!EntryOf(cache, q).answer = Reads(q, CurrentViews)
      <3>1. Cache!EntryOf(cache, q) \in Range(cache.entries) /\ Cache!EntryOf(cache, q).key = q
        <4>1. Held(cache, Range(cache.entries))
          BY <2>1 DEF Fresh
        <4> QED
          BY <2>2, <4>1, PlaceHeld
      <3> QED
        BY <2>1, <3>1 DEF Fresh
    <2> QED
      BY <2>1, <2>2 DEF Fresh
  <1> QED
    BY <1>1, ReasonerInvariantHolds, PTL

(* Whether calls succeed, reach a limit or raise, an engine that only its   *)
(* reasoner uses and that has not failed holds the reasoner's program       *)
(* (update, _native_rebuild_required).                                      *)
THEOREM EngineHoldsTheProgram == Spec => []EngineFollowsSource
PROOF
  <1>1. ReasonerInvariant => EngineFollowsSource
    BY DEF ReasonerInvariant, CallIsOfProgram, EngineFollowsSource, Idle, None
  <1> QED
    BY <1>1, ReasonerInvariantHolds, PTL

-----------------------------------------------------------------------------
(* What is selected under a token                                           *)

(* A reading of the engine and one of the graph stand under a token for as  *)
(* long as the token's parts are those of the present.  A program that an   *)
(* update is about to publish has no token of its own until its graph has.  *)
EngineRead(g, e, t, c) ==
  (t[1] = g.id /\ t[4] = e.id /\ t[5] = e.revision /\ e.complete = TRUE) => c = e.content
GraphRead(g, t, T) ==
  (t[1] = g.id /\ t[2] = g.revision /\ g.owned = TRUE) => T = g.triples

(* A token under which lookups were answered, now or before.                *)
IsPast(g, e, t) ==
  /\ {t[1], t[2], t[4], t[5]} \subseteq Nat
  /\ t[1] <= g.id /\ (t[1] = g.id => t[2] <= g.revision)
  /\ t[4] <= e.id /\ (t[4] = e.id => t[5] <= e.revision)
  /\ t[6] = TRUE

Readings == (ProgramType \cup {Torn}) \X (SUBSET Triples)

ReadsStand(g, e, t, reads) ==
  /\ reads \in Seq(Readings)
  /\ \A i \in 1 .. Len(reads) : EngineRead(g, e, t, reads[i][1]) /\ GraphRead(g, t, reads[i][2])

RecordsStand(g, e, v) ==
  \/ v.token = NoToken
  \/ IsPast(g, e, v.token) /\ ReadsStand(g, e, v.token, v.reads)

TaskFields(w) ==
  w = [purpose |-> w.purpose, stage |-> w.stage, token |-> w.token, reads |-> w.reads,
       scope |-> w.scope, certificates |-> w.certificates, identities |-> w.identities]

TaskStands(g, e, w, given) ==
  w # NoTask =>
    /\ TaskFields(w)
    /\ IsPast(g, e, w.token) /\ ReadsStand(g, e, w.token, w.reads)
    /\ w.stage = "digested" => EngineRead(g, e, w.token, w.identities)
    /\ w.certificates \subseteq given

CertifiedStands(g, e, r, given) ==
  r.certified = TRUE =>
    r.token # NoToken /\ \E c \in given :
      /\ c.trusted /\ c.scope = r.scope /\ c.evidence.reads = r.reads
      /\ EngineRead(g, e, r.token, c.evidence.identities)

ViewsStand(g, e, kept, task, given, r, i) ==
  /\ RecordsStand(g, e, kept) /\ RecordsStand(g, e, r) /\ RecordsStand(g, e, i)
  /\ i = [token |-> i.token, reads |-> i.reads, open |-> i.open]
  /\ TaskStands(g, e, task, given)
  /\ r.certified \in BOOLEAN /\ CertifiedStands(g, e, r, given)

ViewsInvariant ==
  /\ ReasonerInvariant
  /\ ViewsStand(graph, engine, selected, working, issued, returned, pointIndex)

-----------------------------------------------------------------------------
(* Steps of the reasoner                                                    *)

GraphLeads(g, h) ==
  /\ {g.id, g.revision, h.id, h.revision} \subseteq Nat
  /\ g.id <= h.id /\ (g.id = h.id => g.revision <= h.revision)
  /\ g.id = h.id /\ g.revision = h.revision /\ h.owned = TRUE => g.owned = TRUE /\ g.triples = h.triples

EngineLeads(g, h, e, f) ==
  /\ {e.id, e.revision, f.id, f.revision} \subseteq Nat
  /\ e.id <= f.id /\ (e.id = f.id => e.revision <= f.revision)
  /\ g.id = h.id /\ e.id = f.id /\ e.revision = f.revision /\ f.complete = TRUE =>
       e.complete = TRUE /\ e.content = f.content

LEMMA GraphsLead == ReasonerInvariant /\ CoreTypes' /\ [Next]_vars => GraphLeads(graph, graph')
PROOF
  <1> SUFFICES ASSUME ReasonerInvariant, CoreTypes', [Next]_vars PROVE GraphLeads(graph, graph')
    OBVIOUS
  <1>1. /\ {graph.id, graph.revision, graph'.id, graph'.revision} \subseteq Nat
        /\ graph = [id |-> graph.id, triples |-> graph.triples, revision |-> graph.revision,
                    owned |-> graph.owned]
        /\ graph.owned \in BOOLEAN
    BY DEF ReasonerInvariant, ReasonerTypes, CoreTypes
  <1>2. CASE UNCHANGED graph
    BY <1>1, <1>2 DEF GraphLeads
  <1>3. ASSUME NEW G, BeginWrite(G)
        PROVE  GraphLeads(graph, graph')
    <2>1. graph'.id = graph.id /\ graph'.revision = graph.revision + 1
      BY <1>1, <1>3 DEF BeginWrite
    <2> QED
      BY <1>1, <2>1 DEF GraphLeads
  <1>4. CASE EndWrite
    <2>1. graph'.id = graph.id /\ graph'.revision = graph.revision + 1
      BY <1>1, <1>4 DEF EndWrite, Written
    <2> QED
      BY <1>1, <2>1 DEF GraphLeads
  <1>5. ASSUME NEW G, WriteForeign(G)
        PROVE  GraphLeads(graph, graph')
    <2>1. /\ graph'.id = graph.id /\ graph'.revision = graph.revision /\ graph'.owned = graph.owned
          /\ ~graph.owned
      BY <1>1, <1>5 DEF WriteForeign
    <2> QED
      BY <1>1, <2>1 DEF GraphLeads
  <1>6. ASSUME graph'.id = graph.id + 1
        PROVE  GraphLeads(graph, graph')
    BY <1>1, <1>6 DEF GraphLeads
  <1>7. \A G, owned : ReplaceGraph(G, owned) => graph'.id = graph.id + 1
    BY DEF ReplaceGraph
  <1>8. \A all : FinishUpdate(all) \/ Rebuild(all) => graph'.id = graph.id + 1
    BY DEF FinishUpdate, Rebuild, Publish
  <1>9. \/ UNCHANGED graph
        \/ \E G : BeginWrite(G) \/ WriteForeign(G)
        \/ EndWrite \/ graph'.id = graph.id + 1
    BY <1>7, <1>8 DEF Next, vars, Query, ClearQueryCache, BeginUpdate, EnterEngine, ChangeFacts,
                      FailUpdate, Configure, FailEngine, UseEngine
  <1> QED
    BY <1>2, <1>3, <1>4, <1>5, <1>6, <1>9

LEMMA EnginesLead == ReasonerInvariant /\ CoreTypes' /\ [Next]_vars => EngineLeads(graph, graph', engine, engine')
PROOF
  <1> SUFFICES ASSUME ReasonerInvariant, CoreTypes', [Next]_vars
               PROVE  EngineLeads(graph, graph', engine, engine')
    OBVIOUS
  <1>1. /\ engine \in EngineType /\ engine' \in EngineType
        /\ graph.id \in Nat
    BY DEF ReasonerInvariant, ReasonerTypes, CoreTypes, EngineType
  <1>2. {engine.id, engine.revision, engine'.id, engine'.revision} \subseteq Nat
    BY <1>1 DEF EngineType
  <1>3. CASE UNCHANGED engine
    BY <1>2, <1>3 DEF EngineLeads
  <1>4. ASSUME engine'.id = engine.id, engine'.revision = engine.revision + 1
        PROVE  EngineLeads(graph, graph', engine, engine')
    BY <1>2, <1>4 DEF EngineLeads
  <1>5. ASSUME engine'.id = engine.id, engine'.revision = engine.revision, engine'.complete = FALSE
        PROVE  EngineLeads(graph, graph', engine, engine')
    BY <1>2, <1>5 DEF EngineLeads
  <1>6. ASSUME NEW all \in BOOLEAN, FinishUpdate(all)
        PROVE  EngineLeads(graph, graph', engine, engine')
    <2>1. /\ engine' = Settled(engine, engine.program, all) /\ graph'.id = graph.id + 1
      BY <1>6 DEF FinishUpdate, Publish
    <2>2. engine'.id = engine.id /\ engine'.revision = engine.revision
      BY <1>1, <2>1, EngineFields, SettledTypes
    <2>3. graph'.id # graph.id
      BY <1>1, <2>1
    <2> QED
      BY <1>2, <2>2, <2>3 DEF EngineLeads
  <1>7. ASSUME NEW all \in BOOLEAN, Rebuild(all)
        PROVE  EngineLeads(graph, graph', engine, engine')
    <2>1. engine' = Settled(NewEngine, Compiled(call.candidate), all)
      BY <1>7 DEF Rebuild, Publish
    <2>2. engine'.id = engine.id + 1
      BY <2>1 DEF Settled, NewEngine
    <2> QED
      BY <1>2, <2>2 DEF EngineLeads
  <1>8. CASE EnterEngine \/ ChangeFacts
    <2>1. engine'.id = engine.id /\ engine'.revision = engine.revision + 1
      BY <1>1, <1>8, EngineFields DEF EnterEngine, ChangeFacts
    <2> QED
      BY <1>4, <2>1
  <1>9. CASE FailUpdate
    <2>1. UNCHANGED engine \/ engine' = [engine EXCEPT !.content = Torn, !.complete = FALSE, !.failed = TRUE]
      BY <1>9 DEF FailUpdate
    <2>2. CASE engine' = [engine EXCEPT !.content = Torn, !.complete = FALSE, !.failed = TRUE]
      <3>1. engine'.id = engine.id /\ engine'.revision = engine.revision /\ engine'.complete = FALSE
        BY <1>1, <2>2, EngineFields
      <3> QED
        BY <1>5, <3>1
    <2> QED
      BY <1>3, <2>1, <2>2
  <1>10. ASSUME NEW P, NEW all, FailEngine(P) \/ UseEngine(P, all)
         PROVE  EngineLeads(graph, graph', engine, engine')
    <2>1. CASE FailEngine(P)
      <3>1. engine'.id = engine.id /\ engine'.revision = engine.revision + 1
        BY <1>1, <2>1, EngineFields DEF FailEngine
      <3> QED
        BY <1>4, <3>1
    <2>2. CASE UseEngine(P, all)
      <3>1. engine'.id = engine.id /\ engine'.revision = engine.revision + 1
        BY <1>1, <2>2, EngineFields DEF UseEngine, Settled
      <3> QED
        BY <1>4, <3>1
    <2> QED
      BY <1>10, <2>1, <2>2
  <1>11. \/ UNCHANGED engine
         \/ EnterEngine \/ ChangeFacts \/ FailUpdate
         \/ \E all \in BOOLEAN : FinishUpdate(all) \/ Rebuild(all)
         \/ \E P, all : FailEngine(P) \/ UseEngine(P, all)
    BY DEF Next, vars, Query, ClearQueryCache, BeginUpdate, BeginWrite, WriteForeign, EndWrite,
           ReplaceGraph, Configure
  <1> QED
    BY <1>3, <1>6, <1>7, <1>8, <1>9, <1>10, <1>11

-----------------------------------------------------------------------------
(* What stood under a token stands                                          *)

LEMMA ReadsStay ==
  ASSUME NEW g, NEW h, NEW e, NEW f, GraphLeads(g, h), EngineLeads(g, h, e, f),
         NEW t, IsPast(g, e, t)
  PROVE  /\ IsPast(h, f, t)
         /\ \A c : EngineRead(g, e, t, c) => EngineRead(h, f, t, c)
         /\ \A reads : ReadsStand(g, e, t, reads) => ReadsStand(h, f, t, reads)
PROOF
  <1>1. /\ {t[1], t[2], t[4], t[5]} \subseteq Nat
        /\ {g.id, g.revision, h.id, h.revision, e.id, e.revision, f.id, f.revision} \subseteq Nat
    BY DEF IsPast, GraphLeads, EngineLeads
  <1>2. IsPast(h, f, t)
    BY <1>1 DEF IsPast, GraphLeads, EngineLeads
  <1>3. \A c : EngineRead(g, e, t, c) => EngineRead(h, f, t, c)
    <2> SUFFICES ASSUME NEW c, EngineRead(g, e, t, c),
                        t[1] = h.id, t[4] = f.id, t[5] = f.revision, f.complete = TRUE
                 PROVE  c = f.content
      BY DEF EngineRead
    <2>1. g.id = h.id /\ e.id = f.id /\ e.revision = f.revision
      BY <1>1 DEF IsPast, GraphLeads, EngineLeads
    <2> QED
      BY <2>1 DEF EngineRead, EngineLeads
  <1>4. \A T : GraphRead(g, t, T) => GraphRead(h, t, T)
    <2> SUFFICES ASSUME NEW T, GraphRead(g, t, T), t[1] = h.id, t[2] = h.revision, h.owned = TRUE
                 PROVE  T = h.triples
      BY DEF GraphRead
    <2>1. g.id = h.id /\ g.revision = h.revision
      BY <1>1 DEF IsPast, GraphLeads
    <2> QED
      BY <2>1 DEF GraphRead, GraphLeads
  <1> QED
    BY <1>2, <1>3, <1>4 DEF ReadsStand

LEMMA ViewsStay ==
  ASSUME NEW g, NEW h, NEW e, NEW f, GraphLeads(g, h), EngineLeads(g, h, e, f),
         NEW kept, NEW task, NEW given, NEW r, NEW i, ViewsStand(g, e, kept, task, given, r, i)
  PROVE  ViewsStand(h, f, kept, task, given, r, i)
PROOF
  <1>1. \A v : RecordsStand(g, e, v) => RecordsStand(h, f, v)
    BY ReadsStay DEF RecordsStand
  <1>2. TaskStands(h, f, task, given)
    BY ReadsStay DEF TaskStands, ViewsStand
  <1>3. CertifiedStands(h, f, r, given)
    <2>1. r.certified = TRUE => IsPast(g, e, r.token)
      BY DEF CertifiedStands, ViewsStand, RecordsStand
    <2> QED
      BY <2>1, ReadsStay DEF CertifiedStands, ViewsStand
  <1> QED
    BY <1>1, <1>2, <1>3 DEF ViewsStand

(* Reads and a certificate under a token still to be taken.                 *)
LEMMA TokenPast ==
  ASSUME ReasonerInvariant
  PROVE  /\ Token # NoToken
         /\ engine.complete => IsPast(graph, engine, Token)
         /\ Token[1] = graph.id /\ Token[2] = graph.revision
         /\ Token[4] = engine.id /\ Token[5] = engine.revision /\ Token[6] = engine.complete
PROOF
  <1>1. {graph.id, graph.revision, engine.id, engine.revision} \subseteq Nat /\ engine.complete \in BOOLEAN
    BY DEF ReasonerInvariant, ReasonerTypes, CoreTypes
  <1>2. /\ Token[1] = graph.id /\ Token[2] = graph.revision
        /\ Token[4] = engine.id /\ Token[5] = engine.revision /\ Token[6] = engine.complete
    BY DEF Token
  <1>3. Token # NoToken
    BY DEF Token, NoToken
  <1>4. engine.complete => IsPast(graph, engine, Token)
    BY <1>1, <1>2 DEF IsPast
  <1> QED
    BY <1>2, <1>3, <1>4

(* A lookup is answered by what there is, from the cache or not.            *)
LEMMA LookupReads ==
  ASSUME ReasonerInvariant
  PROVE  /\ AnswerTo("instances") = <<engine.content, graph.triples>>
         /\ AnswerTo("instances") \in Readings
PROOF
  <1> DEFINE c == SyncedCache
             v == SyncedViews
             q == "instances"
  <1>1. Fresh(c, v)
    BY StandsFresh DEF ReasonerInvariant
  <1>2. CurrentViews["nodes"] = graph.triples
    BY DEF CurrentViews
  <1>3. \A w : Reads(q, w) = <<engine.content, w["nodes"]>>
    BY DEF Reads
  <1>4. ASSUME q \in Cache!KeysOf(c)
        PROVE  AnswerTo(q) = <<engine.content, graph.triples>>
    <2>1. Held(c, Range(c.entries))
      BY <1>1 DEF Fresh
    <2>2. Cache!EntryOf(c, q) \in Range(c.entries) /\ Cache!EntryOf(c, q).key = q
      <3> HIDE DEF c
      <3> QED
        BY <1>4, <2>1, PlaceHeld
    <2>3. Cache!EntryOf(c, q).answer = Reads(q, CurrentViews)
      BY <1>1, <2>2 DEF Fresh
    <2> QED
      BY <1>2, <1>3, <1>4, <2>3 DEF AnswerTo
  <1>5. ASSUME q \notin Cache!KeysOf(c)
        PROVE  AnswerTo(q) = <<engine.content, graph.triples>>
    <2>1. Built(q, v)["nodes"] = graph.triples
      <3>1. ViewsOf(q) = {"nodes"}
        BY DEF ViewsOf
      <3>2. "nodes" \in DOMAIN v => v["nodes"] = graph.triples
        BY <1>1, <1>2 DEF Fresh
      <3> HIDE DEF v, q
      <3> QED
        BY <1>2, <3>1, <3>2 DEF Built
    <2>2. AnswerTo(q) = Reads(q, Built(q, v))
      BY <1>5 DEF AnswerTo
    <2> QED
      BY <1>3, <2>1, <2>2
  <1>6. <<engine.content, graph.triples>> \in Readings
    BY DEF ReasonerInvariant, ReasonerTypes, CoreTypes, Readings
  <1>7. AnswerTo(q) = <<engine.content, graph.triples>>
    BY <1>4, <1>5
  <1> QED
    BY <1>6, <1>7

(* One more reading of the present stands under every token.                *)
LEMMA ReadsGrow ==
  ASSUME NEW g, NEW e, NEW t, NEW reads, ReadsStand(g, e, t, reads), <<e.content, g.triples>> \in Readings
  PROVE  ReadsStand(g, e, t, Append(reads, <<e.content, g.triples>>))
PROOF
  <1> DEFINE r == <<e.content, g.triples>>
             s == Append(reads, r)
  <1>1. EngineRead(g, e, t, r[1]) /\ GraphRead(g, t, r[2])
    BY DEF EngineRead, GraphRead
  <1> HIDE DEF r
  <1>2. reads \in Seq(Readings) /\ r \in Readings
    BY DEF ReadsStand, r
  <1>3. s \in Seq(Readings) /\ Len(s) = Len(reads) + 1
    BY <1>2
  <1>4. ASSUME NEW i \in 1 .. Len(s)
        PROVE  EngineRead(g, e, t, s[i][1]) /\ GraphRead(g, t, s[i][2])
    <2>1. CASE i = Len(s)
      <3>1. s[i] = r
        BY <1>2, <1>3, <2>1
      <3> QED
        BY <1>1, <3>1
    <2>2. CASE i # Len(s)
      <3>1. i \in 1 .. Len(reads)
        BY <1>2, <1>3, <1>4, <2>2
      <3>2. s[i] = reads[i]
        BY <1>2, <3>1
      <3> HIDE DEF s
      <3> QED
        BY <3>1, <3>2 DEF ReadsStand
    <2> QED
      BY <2>1, <2>2
  <1> HIDE DEF s
  <1> QED
    BY <1>3, <1>4 DEF ReadsStand, s, r

-----------------------------------------------------------------------------
(* Steps of a view                                                          *)

LEMMA TaskBegins ==
  ASSUME NEW g, NEW e, NEW given, NEW purpose, NEW stage, NEW t, NEW reads, NEW scope, NEW certificates,
         IsPast(g, e, t), ReadsStand(g, e, t, reads), stage # "digested", certificates \subseteq given
  PROVE  TaskStands(g, e, Task(purpose, stage, t, reads, scope, certificates), given)
PROOF
  <1> DEFINE w == Task(purpose, stage, t, reads, scope, certificates)
  <1>1. TaskFields(w) /\ w.stage = stage /\ w.token = t /\ w.reads = reads /\ w.certificates = certificates
    BY DEF Task, TaskFields
  <1> HIDE DEF w
  <1> QED
    BY <1>1 DEF TaskStands, w

LEMMA NothingRead == \A g, e, t : ReadsStand(g, e, t, <<>>)
PROOF
  <1>1. <<>> \in Seq(Readings) /\ Len(<<>>) = 0
    OBVIOUS
  <1> QED
    BY <1>1 DEF ReadsStand

(* A part of a task is replaced.                                            *)
LEMMA TaskChanges ==
  ASSUME NEW w, TaskFields(w), NEW x
  PROVE  /\ [w EXCEPT !.purpose = x] =
              [purpose |-> x, stage |-> w.stage, token |-> w.token, reads |-> w.reads,
               scope |-> w.scope, certificates |-> w.certificates, identities |-> w.identities]
         /\ [w EXCEPT !.stage = x] =
              [purpose |-> w.purpose, stage |-> x, token |-> w.token, reads |-> w.reads,
               scope |-> w.scope, certificates |-> w.certificates, identities |-> w.identities]
         /\ [w EXCEPT !.reads = x] =
              [purpose |-> w.purpose, stage |-> w.stage, token |-> w.token, reads |-> x,
               scope |-> w.scope, certificates |-> w.certificates, identities |-> w.identities]
         /\ [w EXCEPT !.identities = x] =
              [purpose |-> w.purpose, stage |-> w.stage, token |-> w.token, reads |-> w.reads,
               scope |-> w.scope, certificates |-> w.certificates, identities |-> x]
PROOF
  <1>1. [w EXCEPT !.purpose = x] =
         [purpose |-> x, stage |-> w.stage, token |-> w.token, reads |-> w.reads,
          scope |-> w.scope, certificates |-> w.certificates, identities |-> w.identities]
    BY DEF TaskFields
  <1>2. [w EXCEPT !.stage = x] =
         [purpose |-> w.purpose, stage |-> x, token |-> w.token, reads |-> w.reads,
          scope |-> w.scope, certificates |-> w.certificates, identities |-> w.identities]
    BY DEF TaskFields
  <1>3. [w EXCEPT !.reads = x] =
         [purpose |-> w.purpose, stage |-> w.stage, token |-> w.token, reads |-> x,
          scope |-> w.scope, certificates |-> w.certificates, identities |-> w.identities]
    BY DEF TaskFields
  <1>4. [w EXCEPT !.identities = x] =
         [purpose |-> w.purpose, stage |-> w.stage, token |-> w.token, reads |-> w.reads,
          scope |-> w.scope, certificates |-> w.certificates, identities |-> x]
    BY DEF TaskFields
  <1> QED
    BY <1>1, <1>2, <1>3, <1>4

LEMMA DigestChanges ==
  ASSUME NEW w, TaskFields(w), NEW x, NEW y
  PROVE  [w EXCEPT !.stage = x, !.identities = y] =
         [purpose |-> w.purpose, stage |-> x, token |-> w.token, reads |-> w.reads,
          scope |-> w.scope, certificates |-> w.certificates, identities |-> y]
PROOF
  <1> DEFINE v == [w EXCEPT !.stage = x]
             u == [v EXCEPT !.identities = y]
  <1>1. v = [purpose |-> w.purpose, stage |-> x, token |-> w.token, reads |-> w.reads,
             scope |-> w.scope, certificates |-> w.certificates, identities |-> w.identities]
    BY TaskChanges
  <1>2. u = [w EXCEPT !.stage = x, !.identities = y]
    OBVIOUS
  <1> HIDE DEF v
  <1>3. TaskFields(v)
    BY <1>1 DEF TaskFields
  <1>4. u = [purpose |-> v.purpose, stage |-> v.stage, token |-> v.token, reads |-> v.reads,
             scope |-> v.scope, certificates |-> v.certificates, identities |-> y]
    BY <1>3, TaskChanges
  <1> HIDE DEF u
  <1>5. u = [purpose |-> w.purpose, stage |-> x, token |-> w.token, reads |-> w.reads,
             scope |-> w.scope, certificates |-> w.certificates, identities |-> y]
    BY <1>1, <1>4
  <1> QED
    BY <1>2, <1>5 DEF u

LEMMA PointsChange ==
  ASSUME NEW w, TaskFields(w), NEW x, NEW y
  PROVE  [w EXCEPT !.purpose = x, !.reads = y] =
         [purpose |-> x, stage |-> w.stage, token |-> w.token, reads |-> y,
          scope |-> w.scope, certificates |-> w.certificates, identities |-> w.identities]
PROOF
  <1> DEFINE v == [w EXCEPT !.purpose = x]
             u == [v EXCEPT !.reads = y]
  <1>1. v = [purpose |-> x, stage |-> w.stage, token |-> w.token, reads |-> w.reads,
             scope |-> w.scope, certificates |-> w.certificates, identities |-> w.identities]
    BY TaskChanges
  <1>2. u = [w EXCEPT !.purpose = x, !.reads = y]
    OBVIOUS
  <1> HIDE DEF v
  <1>3. TaskFields(v)
    BY <1>1 DEF TaskFields
  <1>4. u = [purpose |-> v.purpose, stage |-> v.stage, token |-> v.token, reads |-> y,
             scope |-> v.scope, certificates |-> v.certificates, identities |-> v.identities]
    BY <1>3, TaskChanges
  <1> HIDE DEF u
  <1>5. u = [purpose |-> x, stage |-> w.stage, token |-> w.token, reads |-> y,
             scope |-> w.scope, certificates |-> w.certificates, identities |-> w.identities]
    BY <1>1, <1>4
  <1> QED
    BY <1>2, <1>5 DEF u

(* What a view hands over under the present token.                          *)
LEMMA HandedOver ==
  ASSUME NEW g, NEW e, NEW kept, NEW task, NEW given, NEW r, NEW i,
         ViewsStand(g, e, kept, task, given, r, i), task # NoTask,
         NEW b \in BOOLEAN, b = TRUE => Certified(task), NEW s,
         s = [token |-> task.token, reads |-> task.reads, scope |-> task.scope, certified |-> b],
         task.token # NoToken, b = TRUE => task.stage = "digested"
  PROVE  ViewsStand(g, e, kept, NoTask, given, s, i)
PROOF
  <1>1. s.token = task.token /\ s.reads = task.reads /\ s.scope = task.scope /\ s.certified = b
    OBVIOUS
  <1>2. TaskStands(g, e, NoTask, given)
    BY DEF TaskStands
  <1>3. RecordsStand(g, e, s)
    BY <1>1 DEF ViewsStand, TaskStands, RecordsStand
  <1>4. CertifiedStands(g, e, s, given)
    <2> SUFFICES ASSUME b = TRUE
                 PROVE  \E c \in given : /\ c.trusted /\ c.scope = s.scope /\ c.evidence.reads = s.reads
                                         /\ EngineRead(g, e, s.token, c.evidence.identities)
      BY <1>1 DEF CertifiedStands
    <2>1. PICK c \in task.certificates : c.trusted /\ c.scope = task.scope /\ c.evidence = Evidence(task)
      BY DEF Certified
    <2>2. c \in given /\ EngineRead(g, e, task.token, task.identities)
      BY <2>1 DEF ViewsStand, TaskStands
    <2>3. c.evidence.reads = task.reads /\ c.evidence.identities = task.identities
      BY <2>1 DEF Evidence
    <2> QED
      BY <1>1, <2>1, <2>2, <2>3
  <1> QED
    BY <1>1, <1>2, <1>3, <1>4 DEF ViewsStand

(* Each step of a view, the reasoner being what it is.                      *)
After == ViewsStand(graph, engine, selected', working', issued', returned', pointIndex')

LEMMA StartsStand ==
  ASSUME ViewsInvariant,
         \/ \E purpose, scope : BeginBirthDates(purpose, scope, issued) \/ BeginBirthDates(purpose, scope, {})
         \/ \E purpose : BeginLocations(purpose)
         \/ BeginWithin
  PROVE  After
PROOF
  <1>1. /\ ViewsStand(graph, engine, selected, working, issued, returned, pointIndex)
        /\ Token # NoToken /\ (engine.complete => IsPast(graph, engine, Token))
    BY TokenPast DEF ViewsInvariant
  <1>2. UNCHANGED <<selected, issued, returned, pointIndex>>
    BY DEF BeginBirthDates, BeginLocations, BeginWithin
  <1>3. SUFFICES TaskStands(graph, engine, working', issued)
    BY <1>1, <1>2 DEF After, ViewsStand
  <1>4. Guard("instances") => engine.complete
    BY DEF Guard
  <1>5. ASSUME NEW purpose, NEW scope, NEW certificates, certificates \subseteq issued,
               BeginBirthDates(purpose, scope, certificates)
        PROVE  TaskStands(graph, engine, working', issued)
    <2>1. IsPast(graph, engine, Token)
      BY <1>1, <1>4, <1>5 DEF BeginBirthDates
    <2>2. CASE selected.token = Token
      <3>1. ReadsStand(graph, engine, Token, selected.reads)
        BY <1>1, <2>2 DEF ViewsStand, RecordsStand
      <3>2. working' = Task(purpose, "selected", Token, selected.reads, scope, certificates)
        BY <1>5, <2>2 DEF BeginBirthDates
      <3> QED
        BY <1>5, <2>1, <3>1, <3>2, TaskBegins
    <2>3. CASE selected.token # Token
      <3>1. working' = Task(purpose, "selecting", Token, <<>>, scope, certificates)
        BY <1>5, <2>3 DEF BeginBirthDates
      <3> QED
        BY <1>5, <2>1, <3>1, NothingRead, TaskBegins
    <2> QED
      BY <2>2, <2>3
  <1>6. ASSUME NEW purpose, BeginLocations(purpose)
        PROVE  TaskStands(graph, engine, working', issued)
    <2>1. IsPast(graph, engine, Token)
      BY <1>1, <1>4, <1>6 DEF BeginLocations
    <2>2. working' = Task(purpose, "selecting", Token, <<>>, None, {})
      BY <1>6 DEF BeginLocations
    <2> QED
      BY <2>1, <2>2, NothingRead, TaskBegins
  <1>7. CASE BeginWithin
    <2>1. pointIndex.token = Token
      BY <1>7 DEF BeginWithin, Usable, Unchanged
    <2>2. /\ IsPast(graph, engine, pointIndex.token)
          /\ ReadsStand(graph, engine, pointIndex.token, pointIndex.reads)
      BY <1>1, <2>1 DEF ViewsStand, RecordsStand
    <2>3. working' = Task("within", "refining", pointIndex.token, pointIndex.reads, None, {})
      BY <1>7 DEF BeginWithin
    <2> QED
      BY <2>2, <2>3, TaskBegins
  <1> QED
    BY <1>5, <1>6, <1>7

LEMMA LookupStands ==
  ASSUME ViewsInvariant, working # NoTask, working.stage = "selecting", Lookup
  PROVE  After
PROOF
  <1> DEFINE r == <<engine.content, graph.triples>>
             s == Append(working.reads, r)
  <1>1. ViewsStand(graph, engine, selected, working, issued, returned, pointIndex)
    BY DEF ViewsInvariant
  <1>2. AnswerTo("instances") = r /\ r \in Readings
    BY LookupReads DEF ViewsInvariant
  <1>3. UNCHANGED <<selected, issued, returned, pointIndex>> /\ working' = [working EXCEPT !.reads = s]
    BY <1>2 DEF Lookup
  <1>4. ReadsStand(graph, engine, working.token, s)
    BY <1>1, <1>2, ReadsGrow DEF ViewsStand, TaskStands
  <1> HIDE DEF s
  <1>5. working' = [purpose |-> working.purpose, stage |-> working.stage, token |-> working.token,
                    reads |-> s, scope |-> working.scope, certificates |-> working.certificates,
                    identities |-> working.identities]
    BY <1>1, <1>3, TaskChanges DEF ViewsStand, TaskStands
  <1>6. TaskStands(graph, engine, working', issued)
    BY <1>1, <1>4, <1>5 DEF ViewsStand, TaskStands, TaskFields
  <1> QED
    BY <1>1, <1>3, <1>6 DEF After, ViewsStand

LEMMA GoingOnStands ==
  ASSUME ViewsInvariant, KeepSelection \/ DigestEvidence \/ BeginPoints
  PROVE  After
PROOF
  <1>1. /\ ViewsStand(graph, engine, selected, working, issued, returned, pointIndex)
        /\ working # NoTask
    BY DEF ViewsInvariant, KeepSelection, DigestEvidence, BeginPoints, HasSelected
  <1>2. /\ TaskFields(working) /\ IsPast(graph, engine, working.token)
        /\ ReadsStand(graph, engine, working.token, working.reads)
        /\ working.certificates \subseteq issued
        /\ working.stage = "digested" => EngineRead(graph, engine, working.token, working.identities)
    BY <1>1 DEF ViewsStand, TaskStands
  <1>3. UNCHANGED <<issued, returned, pointIndex>>
    BY DEF KeepSelection, DigestEvidence, BeginPoints
  <1>4. CASE KeepSelection
    <2>1. /\ selected'.token = working.token /\ selected'.reads = working.reads
          /\ working' = [working EXCEPT !.stage = "selected"]
      BY <1>4 DEF KeepSelection
    <2>2. working' = [purpose |-> working.purpose, stage |-> "selected", token |-> working.token,
                      reads |-> working.reads, scope |-> working.scope,
                      certificates |-> working.certificates, identities |-> working.identities]
      BY <1>2, <2>1, TaskChanges
    <2>3. TaskStands(graph, engine, working', issued)
      BY <1>2, <2>2 DEF TaskStands, TaskFields
    <2>4. RecordsStand(graph, engine, selected')
      BY <1>2, <2>1 DEF RecordsStand
    <2> QED
      BY <1>1, <1>3, <2>3, <2>4 DEF After, ViewsStand
  <1>5. CASE DigestEvidence
    <2> DEFINE c == engine.content
    <2>1. UNCHANGED selected /\ working' = [working EXCEPT !.stage = "digested", !.identities = c]
      BY <1>5 DEF DigestEvidence
    <2>2. EngineRead(graph, engine, working.token, c)
      BY DEF EngineRead
    <2> HIDE DEF c
    <2>3. working' = [purpose |-> working.purpose, stage |-> "digested", token |-> working.token,
                      reads |-> working.reads, scope |-> working.scope,
                      certificates |-> working.certificates, identities |-> c]
      BY <1>2, <2>1, DigestChanges
    <2>4. TaskStands(graph, engine, working', issued)
      BY <1>2, <2>2, <2>3 DEF TaskStands, TaskFields
    <2> QED
      BY <1>1, <1>3, <2>1, <2>4 DEF After, ViewsStand
  <1>6. CASE BeginPoints
    <2> DEFINE s == <<>>
    <2>1. /\ UNCHANGED selected /\ working.stage = "selecting"
          /\ working' = [working EXCEPT !.purpose = "points", !.reads = s]
      BY <1>6 DEF BeginPoints, HasSelected
    <2>1a. ReadsStand(graph, engine, working.token, s)
      BY NothingRead
    <2> HIDE DEF s
    <2>2. working' = [purpose |-> "points", stage |-> working.stage, token |-> working.token,
                      reads |-> s, scope |-> working.scope,
                      certificates |-> working.certificates, identities |-> working.identities]
      BY <1>2, <2>1, PointsChange
    <2>3. TaskStands(graph, engine, working', issued)
      BY <1>2, <2>1, <2>1a, <2>2 DEF TaskStands, TaskFields
    <2> QED
      BY <1>1, <1>3, <2>1, <2>3 DEF After, ViewsStand
  <1> QED
    BY <1>4, <1>5, <1>6

LEMMA EndsStand ==
  ASSUME ViewsInvariant,
         \/ \E scope, trusted : GiveEvidence(scope, trusted)
         \/ FinishPrepare \/ FinishLocations \/ FinishWithin \/ BuildIndex \/ CloseIndex \/ Abandon
  PROVE  After
PROOF
  <1>1. /\ ViewsStand(graph, engine, selected, working, issued, returned, pointIndex)
        /\ Token # NoToken
    BY TokenPast DEF ViewsInvariant
  <1>2. TaskStands(graph, engine, NoTask, issued)
    BY DEF TaskStands
  <1>3. ASSUME NEW scope, NEW trusted, GiveEvidence(scope, trusted)
        PROVE  After
    <2>1. UNCHANGED <<selected, returned, pointIndex>> /\ issued \subseteq issued' /\ working' = NoTask
      BY <1>3 DEF GiveEvidence
    <2>2. CertifiedStands(graph, engine, returned, issued')
      BY <1>1, <2>1 DEF ViewsStand, CertifiedStands
    <2>3. TaskStands(graph, engine, working', issued')
      BY <2>1 DEF TaskStands
    <2> QED
      BY <1>1, <2>1, <2>2, <2>3 DEF After, ViewsStand
  <1>4. CASE FinishPrepare
    <2> DEFINE b == Certified(working)
    <2>1. /\ working # NoTask /\ working.stage = "digested" /\ working.token = Token
          /\ UNCHANGED <<selected, issued, pointIndex>> /\ working' = NoTask
          /\ returned' = [token |-> working.token, reads |-> working.reads, scope |-> working.scope,
                          certified |-> b]
      BY <1>4 DEF FinishPrepare, HandOver, Unchanged
    <2>2. b \in BOOLEAN /\ (b = TRUE => Certified(working))
      BY DEF Certified
    <2> HIDE DEF b
    <2>3. ViewsStand(graph, engine, selected, NoTask, issued, returned', pointIndex)
      BY <1>1, <2>1, <2>2, HandedOver
    <2> QED
      BY <2>1, <2>3 DEF After
  <1>5. CASE FinishLocations \/ FinishWithin
    <2>1. /\ working # NoTask /\ working.token = Token
          /\ UNCHANGED <<selected, issued, pointIndex>> /\ working' = NoTask
          /\ returned' = [token |-> working.token, reads |-> working.reads, scope |-> working.scope,
                          certified |-> FALSE]
      BY <1>5 DEF FinishLocations, FinishWithin, HandOver, HasSelected, Usable, Unchanged
    <2>2. ViewsStand(graph, engine, selected, NoTask, issued, returned', pointIndex)
      BY <1>1, <2>1, HandedOver
    <2> QED
      BY <2>1, <2>2 DEF After
  <1>6. CASE BuildIndex
    <2>1. /\ working # NoTask /\ working' = NoTask /\ UNCHANGED <<selected, issued, returned>>
          /\ pointIndex' = [token |-> working.token, reads |-> working.reads, open |-> TRUE]
      BY <1>6 DEF BuildIndex, HasSelected
    <2>2. pointIndex'.token = working.token /\ pointIndex'.reads = working.reads /\ pointIndex'.open = TRUE
      BY <2>1
    <2>3. RecordsStand(graph, engine, pointIndex')
      BY <1>1, <2>1, <2>2 DEF ViewsStand, TaskStands, RecordsStand
    <2> QED
      BY <1>1, <1>2, <2>1, <2>2, <2>3 DEF After, ViewsStand
  <1>7. CASE CloseIndex
    <2>1. UNCHANGED <<selected, working, issued, returned>> /\ pointIndex' = [pointIndex EXCEPT !.open = FALSE]
      BY <1>7 DEF CloseIndex
    <2>2. pointIndex = [token |-> pointIndex.token, reads |-> pointIndex.reads, open |-> pointIndex.open]
      BY <1>1 DEF ViewsStand
    <2>3. pointIndex' = [token |-> pointIndex.token, reads |-> pointIndex.reads, open |-> FALSE]
      BY <2>1, <2>2
    <2>4. pointIndex'.token = pointIndex.token /\ pointIndex'.reads = pointIndex.reads /\ pointIndex'.open = FALSE
      BY <2>3
    <2>5. RecordsStand(graph, engine, pointIndex')
      BY <1>1, <2>4 DEF ViewsStand, RecordsStand
    <2> QED
      BY <1>1, <2>1, <2>3, <2>4, <2>5 DEF After, ViewsStand
  <1>8. CASE Abandon
    BY <1>1, <1>2, <1>8 DEF Abandon, After, ViewsStand
  <1> QED
    BY <1>3, <1>4, <1>5, <1>6, <1>7, <1>8

LEMMA ViewsStart == Init /\ ViewsInit => ViewsInvariant
PROOF
  <1> SUFFICES ASSUME Init, ViewsInit PROVE ViewsInvariant
    OBVIOUS
  <1>1. ReasonerInvariant
    BY ReasonerStarts
  <1>2. selected.token = NoToken /\ returned.token = NoToken /\ pointIndex.token = NoToken
    BY DEF ViewsInit
  <1>3. returned.certified = FALSE /\ working = NoTask
    BY DEF ViewsInit
  <1>4. pointIndex = [token |-> pointIndex.token, reads |-> pointIndex.reads, open |-> pointIndex.open]
    BY DEF ViewsInit
  <1> QED
    BY <1>1, <1>2, <1>3, <1>4 DEF ViewsInvariant, ViewsStand, RecordsStand, TaskStands, CertifiedStands

LEMMA ViewsStep == ViewsInvariant /\ [ViewsNext]_<<vars, viewVars>> => ViewsInvariant'
PROOF
  <1> SUFFICES ASSUME ViewsInvariant, [ViewsNext]_<<vars, viewVars>> PROVE ViewsInvariant'
    OBVIOUS
  <1>1. [Next]_vars
    BY LookupsAssumption DEF ViewsNext, vars, viewVars, Next, LookUp, Lookup, BeginBirthDates, GiveEvidence,
       BeginLocations, Abandon, KeepSelection, DigestEvidence, FinishPrepare, FinishLocations, BeginPoints,
       BuildIndex, BeginWithin, FinishWithin, CloseIndex
  <1>2. ReasonerInvariant' /\ CoreTypes'
    BY <1>1, ReasonerStep DEF ViewsInvariant, ReasonerInvariant, ReasonerTypes
  <1>3. UNCHANGED viewVars \/ (UNCHANGED <<graph, engine>> /\ After)
    <2>1. CASE Next /\ UNCHANGED viewVars
      BY <2>1 DEF viewVars
    <2>2. CASE UNCHANGED <<vars, viewVars>>
      BY <2>2 DEF viewVars
    <2>3. CASE LookUp
      BY <2>3, LookupStands DEF LookUp, Lookup, Query
    <2>4. CASE KeepSelection \/ DigestEvidence \/ BeginPoints
      BY <2>4, GoingOnStands DEF KeepSelection, DigestEvidence, BeginPoints, vars
    <2>5. CASE \/ \E scope \in Scopes : BeginBirthDates("prepare", scope, issued)
               \/ BeginBirthDates("evidence", None, {})
               \/ \E purpose \in {"locations", "index"} : BeginLocations(purpose)
               \/ BeginWithin
      <3>1. After
        BY <2>5, StartsStand
      <3> QED
        BY <2>5, <3>1 DEF BeginBirthDates, BeginLocations, BeginWithin, vars
    <2>6. CASE \/ \E scope \in Scopes, trusted \in BOOLEAN : GiveEvidence(scope, trusted)
               \/ FinishPrepare \/ FinishLocations \/ FinishWithin \/ BuildIndex \/ CloseIndex \/ Abandon
      <3>1. After
        BY <2>6, EndsStand
      <3> QED
        BY <2>6, <3>1 DEF GiveEvidence, FinishPrepare, FinishLocations, FinishWithin, BuildIndex,
                          CloseIndex, Abandon, vars
    <2> QED
      BY <2>1, <2>2, <2>3, <2>4, <2>5, <2>6 DEF ViewsNext
  <1>4. CASE UNCHANGED viewVars
    <2>1. GraphLeads(graph, graph') /\ EngineLeads(graph, graph', engine, engine')
      BY <1>1, <1>2, GraphsLead, EnginesLead DEF ViewsInvariant
    <2>2. ViewsStand(graph', engine', selected, working, issued, returned, pointIndex)
      BY <2>1, ViewsStay DEF ViewsInvariant
    <2>3. ViewsStand(graph, engine, selected, working, issued, returned, pointIndex)'
      BY <1>4, <2>2 DEF viewVars
    <2> QED
      BY <1>2, <2>3 DEF ViewsInvariant
  <1>5. CASE UNCHANGED <<graph, engine>> /\ After
    <2>1. ViewsStand(graph, engine, selected, working, issued, returned, pointIndex)'
      BY <1>5 DEF After
    <2> QED
      BY <1>2, <2>1 DEF ViewsInvariant
  <1> QED
    BY <1>3, <1>4, <1>5

LEMMA ViewsInvariantHolds == ViewsSpec => []ViewsInvariant
PROOF
  <1> QED
    BY ViewsStart, ViewsStep, PTL DEF ViewsSpec

(* However the reasoner and its parts are changed while a view selects, and *)
(* while its certificates are checked or its index is searched, what it     *)
(* keeps or returns under the present token is what there is, and a family  *)
(* that is certified is so on present evidence (_snapshot, prepare,         *)
(* from_location_view, within).                                             *)
THEOREM ViewsFollowTheSource == ViewsSpec => []ViewsAreCurrent
PROOF
  <1>1. ViewsInvariant => ViewsAreCurrent
    <2> SUFFICES ASSUME ViewsInvariant PROVE ViewsAreCurrent
      OBVIOUS
    <2>1. /\ ViewsStand(graph, engine, selected, working, issued, returned, pointIndex)
          /\ Token # NoToken
          /\ Token[1] = graph.id /\ Token[2] = graph.revision
          /\ Token[4] = engine.id /\ Token[5] = engine.revision /\ Token[6] = engine.complete
          /\ graph.owned \in BOOLEAN
      BY TokenPast DEF ViewsInvariant, ReasonerInvariant, ReasonerTypes, CoreTypes
    <2>2. ASSUME NEW v, RecordsStand(graph, engine, v), v.token = Token
          PROVE  /\ engine.complete = TRUE
                 /\ \A i \in DOMAIN v.reads : IsNow(v.reads[i])
      <3>1. IsPast(graph, engine, Token) /\ ReadsStand(graph, engine, Token, v.reads)
        BY <2>1, <2>2 DEF RecordsStand
      <3>2. engine.complete = TRUE
        BY <2>1, <3>1 DEF IsPast
      <3>3. DOMAIN v.reads = 1 .. Len(v.reads)
        BY <3>1 DEF ReadsStand
      <3>4. \A i \in 1 .. Len(v.reads) : IsNow(v.reads[i])
        BY <2>1, <3>1, <3>2 DEF ReadsStand, EngineRead, GraphRead, IsNow
      <3> QED
        BY <3>2, <3>3, <3>4
    <2>3. \A v \in {selected, returned, pointIndex} :
            v.token = Token => \A i \in DOMAIN v.reads : IsNow(v.reads[i])
      BY <2>1, <2>2 DEF ViewsStand
    <2>4. ASSUME returned.token = Token, returned.certified
          PROVE  \E c \in issued : /\ c.trusted /\ c.scope = returned.scope
                                   /\ c.evidence.identities = engine.content
                                   /\ \A i \in DOMAIN c.evidence.reads : IsNow(c.evidence.reads[i])
      <3>1. engine.complete = TRUE /\ \A i \in DOMAIN returned.reads : IsNow(returned.reads[i])
        BY <2>1, <2>2, <2>4 DEF ViewsStand
      <3>2. PICK c \in issued : /\ c.trusted /\ c.scope = returned.scope /\ c.evidence.reads = returned.reads
                                /\ EngineRead(graph, engine, Token, c.evidence.identities)
        BY <2>1, <2>4 DEF ViewsStand, CertifiedStands
      <3> QED
        BY <2>1, <3>1, <3>2 DEF EngineRead
    <2> QED
      BY <2>3, <2>4 DEF ViewsAreCurrent
  <1> QED
    BY <1>1, ViewsInvariantHolds, PTL

-----------------------------------------------------------------------------
(* The map: what a publication derives                                      *)

(* What is affected has the inputs and whoever refers to one of them.       *)
LEMMA AffectedReaches ==
  ASSUME NEW inputs \in SUBSET Keys, NEW old, NEW new, DOMAIN old \subseteq Keys, DOMAIN new \subseteq Keys
  PROVE  /\ inputs \subseteq Affected(inputs, old, new)
         /\ \A k \in inputs : Owners(old, k) \cup Owners(new, k) \subseteq Affected(inputs, old, new)
         /\ Affected(inputs, old, new) \subseteq Keys
PROOF
  <1> DEFINE n == Cardinality(Keys)
             Reached(S) == S \cup (UNION {Owners(old, k) \cup Owners(new, k) : k \in S})
             round == [i \in 1 .. n |-> [S \in SUBSET Keys |-> Reached(S)]]
             F(f) == f = [i \in 0 .. n |->
                            IF i = 0 THEN inputs
                            ELSE LET before == f[i - 1]
                                 IN  before \cup UNION {Owners(old, k) \cup Owners(new, k) : k \in before}]
             reach == CHOOSE f : F(f)
  <1>1. n \in Nat
    BY KeysAssumption, FS_CardinalityType
  <1>2. \A S \in SUBSET Keys : Reached(S) \in SUBSET Keys
    BY DEF Owners
  <1> HIDE DEF Reached
  <1>3. \A i \in 1 .. n, S \in SUBSET Keys : round[i][S] = Reached(S) /\ round[i][S] \in SUBSET Keys
    BY <1>2
  <1> HIDE DEF round, n
  <1>4. PICK f : f \in Loops(n, SUBSET Keys, inputs, round)
    <2>1. \A i \in 1 .. n, d \in SUBSET Keys : round[i][d] \in SUBSET Keys
      BY <1>3
    <2>2. Loops(n, SUBSET Keys, inputs, round) # {}
      BY <1>1, <2>1, LoopExists
    <2> QED
      BY <2>2
  <1>5. f \in [0 .. n -> SUBSET Keys] /\ f[0] = inputs /\ \A i \in 1 .. n : f[i] = round[i][f[i - 1]]
    BY <1>4 DEF Loops
  <1>6. \A i \in 1 .. n : f[i] = Reached(f[i - 1])
    <2> TAKE i \in 1 .. n
    <2>1. f[i - 1] \in SUBSET Keys
      BY <1>1, <1>5
    <2> QED
      BY <1>3, <1>5, <2>1
  <1>7. F(f)
    <2>1. \A i \in 0 .. n : f[i] = IF i = 0 THEN inputs
                                   ELSE f[i - 1] \cup UNION {Owners(old, k) \cup Owners(new, k) : k \in f[i - 1]}
      BY <1>1, <1>5, <1>6 DEF Reached
    <2> QED
      BY <1>5, <2>1
  <1>8. F(reach)
    <2> HIDE DEF F
    <2> QED
      BY <1>7
  <1>9. Affected(inputs, old, new) = reach[n]
    BY DEF Affected, n
  <1> HIDE DEF reach
  <1>10. reach[0] = inputs /\ \A i \in 1 .. n : reach[i] = Reached(reach[i - 1])
    BY <1>1, <1>8 DEF Reached
  <1> HIDE DEF F
  <1>11. reach[n] \subseteq Keys /\ inputs \subseteq reach[n] /\ (n > 0 => Reached(inputs) \subseteq reach[n])
    <2> DEFINE S == {i \in 0 .. n : reach[i] \subseteq Keys /\ inputs \subseteq reach[i]
                                    /\ (i > 0 => Reached(inputs) \subseteq reach[i])}
    <2>1. 0 \in S
      BY <1>1, <1>10
    <2>2. \A i \in 0 .. n - 1 : i \in S => i + 1 \in S
      <3> SUFFICES ASSUME NEW i \in 0 .. n - 1, i \in S
                   PROVE  i + 1 \in S
        OBVIOUS
      <3>1. i + 1 \in 1 .. n /\ (i + 1) - 1 = i /\ i + 1 \in 0 .. n
        BY <1>1
      <3>2. reach[i + 1] = Reached(reach[i])
        BY <1>10, <3>1
      <3>3. Reached(reach[i]) \subseteq Keys
        BY <1>2
      <3>4. Reached(inputs) \subseteq Reached(reach[i]) /\ inputs \subseteq Reached(reach[i])
        BY DEF Reached
      <3> QED
        BY <3>1, <3>2, <3>3, <3>4
    <2> HIDE DEF S
    <2>3. \A i \in 0 .. n : i \in S
      BY <1>1, <2>1, <2>2, UpTo
    <2>4. n \in S
      BY <1>1, <2>3
    <2> QED
      BY <2>4 DEF S
  <1>12. ASSUME NEW k \in inputs
         PROVE  Owners(old, k) \cup Owners(new, k) \subseteq reach[n]
    <2>1. Keys # {}
      OBVIOUS
    <2>2. n # 0
      BY <2>1, KeysAssumption, FS_EmptySet DEF n
    <2>3. n > 0
      BY <1>1, <2>2
    <2>4. Owners(old, k) \cup Owners(new, k) \subseteq Reached(inputs)
      BY DEF Reached
    <2> QED
      BY <1>11, <2>3, <2>4
  <1> QED
    BY <1>9, <1>11, <1>12

(* The clause of ProjectionsAreCurrent about one publication and the one    *)
(* before it.                                                               *)
Drawn(s) == s.geometries = [k \in Ways(s.elements) |-> Geometry(s.elements, k)]

SaidOf(s, k)  == IF k \in DOMAIN s.elements THEN Projection(s.elements, k) ELSE <<>>
ShapeOf(s, k) == IF k \in DOMAIN s.geometries THEN s.geometries[k] ELSE <<>>

Projects(before, now) ==
  /\ Drawn(now)
  /\ \A k \in Keys : SaidOf(now, k) # SaidOf(before, k) \/ ShapeOf(now, k) # ShapeOf(before, k)
       => k \in now.affected

(* An element that is the same in both.                                     *)
SameElement(before, now, k) ==
  /\ k \in DOMAIN before.elements <=> k \in DOMAIN now.elements
  /\ k \in DOMAIN now.elements => now.elements[k] = before.elements[k]

LEMMA SnapshotProjects ==
  ASSUME NEW before, NEW map, NEW changed \in SUBSET Keys,
         Drawn(before), DOMAIN before.elements \subseteq Keys, DOMAIN map.elements \subseteq Keys,
         Resolved(map.elements), Resolved(before.elements),
         \A k \in Keys \ changed : SameElement(before, map, k)
  PROVE  Projects(before, Snapshot(before, map, changed))
PROOF
  <1> DEFINE old == before.elements
             new == map.elements
             inputs == ProjectionInputs(changed, old, new)
             affected == Affected(inputs, old, new)
             now == Snapshot(before, map, changed)
  <1>1. now.elements = new /\ now.affected = affected
        /\ now.geometries = [k \in Ways(new) |-> IF k \in affected THEN Geometry(new, k) ELSE before.geometries[k]]
    BY DEF Snapshot, GeometriesOf
  <1>2. /\ \A k \in DOMAIN new : References(new[k].body) \subseteq DOMAIN new
        /\ \A k \in DOMAIN old : References(old[k].body) \subseteq DOMAIN old
    BY DEF Resolved
  <1>3. /\ changed \subseteq inputs
        /\ \A k \in changed \cap DOMAIN old : KindOf[k] = "relation" => References(old[k].body) \subseteq inputs
        /\ \A k \in changed \cap DOMAIN new : KindOf[k] = "relation" => References(new[k].body) \subseteq inputs
    BY DEF ProjectionInputs
  <1>4. inputs \subseteq Keys
    BY <1>2 DEF ProjectionInputs
  <1> HIDE DEF now, inputs
  <1>5. /\ inputs \subseteq affected
        /\ \A k \in inputs : Owners(old, k) \cup Owners(new, k) \subseteq affected
    BY <1>4, AffectedReaches
  <1> HIDE DEF affected
  <1>6. ASSUME NEW k \in Keys \ affected
        PROVE  /\ k \in DOMAIN old <=> k \in DOMAIN new
               /\ k \in DOMAIN new => /\ new[k] = old[k] /\ (k \in Ways(new) <=> k \in Ways(old))
                                      /\ Geometry(new, k) = Geometry(old, k)
                                      /\ Projection(new, k) = Projection(old, k)
    <2>1. k \notin changed /\ SameElement(before, map, k)
      BY <1>3, <1>5
    <2>2. ASSUME k \in DOMAIN new, NEW j \in References(new[k].body)
          PROVE  j \notin changed /\ new[j] = old[j]
      <3>1. j \in DOMAIN new /\ k \in Owners(new, j)
        BY <1>2, <2>2 DEF Owners
      <3>2. j \notin inputs
        BY <1>5, <3>1
      <3>3. j \in Keys \ changed
        BY <1>3, <3>1, <3>2
      <3> QED
        BY <3>1, <3>3 DEF SameElement
    <2>3. ASSUME k \in DOMAIN new
          PROVE  Geometry(new, k) = Geometry(old, k)
      <3>1. new[k] = old[k]
        BY <2>1, <2>3 DEF SameElement
      <3>2. \A i \in DOMAIN new[k].body.refs : new[k].body.refs[i] \in References(new[k].body)
        BY DEF References, Range
      <3>3. \A i \in DOMAIN new[k].body.refs : new[new[k].body.refs[i]] = old[new[k].body.refs[i]]
        BY <2>2, <2>3, <3>2
      <3> QED
        BY <3>1, <3>3 DEF Geometry
    <2>4. {r \in Owners(new, k) : IsRoute(new, r)} = {r \in Owners(old, k) : IsRoute(old, r)}
      <3>1. ASSUME NEW r \in Owners(new, k), IsRoute(new, r)
            PROVE  r \in Owners(old, k) /\ IsRoute(old, r)
        <4>1. r \in DOMAIN new /\ k \in References(new[r].body) /\ KindOf[r] = "relation"
          BY <3>1 DEF Owners, IsRoute
        <4>2. r \notin changed
          BY <1>3, <1>5, <4>1
        <4>3. SameElement(before, map, r)
          BY <4>1, <4>2
        <4> QED
          BY <3>1, <4>1, <4>3 DEF SameElement, Owners, IsRoute
      <3>2. ASSUME NEW r \in Owners(old, k), IsRoute(old, r)
            PROVE  r \in Owners(new, k) /\ IsRoute(new, r)
        <4>1. r \in DOMAIN old /\ k \in References(old[r].body) /\ KindOf[r] = "relation"
          BY <3>2 DEF Owners, IsRoute
        <4>2. r \notin changed
          BY <1>3, <1>5, <4>1
        <4>3. SameElement(before, map, r)
          BY <4>1, <4>2
        <4> QED
          BY <3>2, <4>1, <4>3 DEF SameElement, Owners, IsRoute
      <3> QED
        BY <3>1, <3>2
    <2>5. ASSUME k \in DOMAIN new
          PROVE  Projection(new, k) = Projection(old, k)
      <3>1. new[k] = old[k]
        BY <2>1, <2>5 DEF SameElement
      <3>2. IsRoad(new, k) <=> IsRoad(old, k)
        BY <3>1 DEF IsRoad
      <3> QED
        BY <2>4, <3>1, <3>2 DEF Projection
    <2> QED
      BY <2>1, <2>3, <2>5 DEF SameElement, Ways
  <1>7. \A k \in Ways(old) : before.geometries[k] = Geometry(old, k)
    BY DEF Drawn
  <1>8. Ways(new) \subseteq Keys /\ Ways(new) \subseteq DOMAIN new
    BY DEF Ways
  <1>9. ASSUME NEW k \in Ways(new)
        PROVE  now.geometries[k] = Geometry(new, k)
    <2>1. CASE k \in affected
      BY <1>1, <2>1
    <2>2. CASE k \notin affected
      <3>1. k \in Keys \ affected /\ k \in DOMAIN new
        BY <1>8, <2>2
      <3>2. k \in Ways(old) /\ Geometry(new, k) = Geometry(old, k)
        BY <1>6, <3>1
      <3> QED
        BY <1>1, <1>7, <2>2, <3>2
    <2> QED
      BY <2>1, <2>2
  <1>10. Drawn(now)
    BY <1>1, <1>9 DEF Drawn
  <1>11. ASSUME NEW k \in Keys \ affected
         PROVE  SaidOf(now, k) = SaidOf(before, k) /\ ShapeOf(now, k) = ShapeOf(before, k)
    <2>1. SaidOf(now, k) = SaidOf(before, k)
      BY <1>1, <1>6 DEF SaidOf
    <2>2. DOMAIN now.geometries = Ways(new) /\ DOMAIN before.geometries = Ways(old)
      BY <1>1 DEF Drawn
    <2>3. k \in Ways(new) <=> k \in Ways(old)
      BY <1>6 DEF Ways
    <2>4. k \in Ways(new) => now.geometries[k] = before.geometries[k]
      BY <1>6, <1>7, <1>8, <1>9, <2>3
    <2> QED
      BY <2>1, <2>2, <2>3, <2>4 DEF ShapeOf
  <1> QED
    BY <1>1, <1>10, <1>11 DEF Projects, now

-----------------------------------------------------------------------------
(* The map: versions                                                        *)

IsMap(s) ==
  /\ DOMAIN s.elements \subseteq Keys /\ DOMAIN s.tombstones \subseteq Keys
  /\ \A k \in DOMAIN s.elements : s.elements[k].version \in Nat
  /\ \A k \in DOMAIN s.tombstones : s.tombstones[k] \in Nat

(* How far the life of an element has come.                                 *)
VersionOf(s, k) ==
  IF k \in DOMAIN s.elements THEN s.elements[k].version
  ELSE IF k \in DOMAIN s.tombstones THEN s.tombstones[k] ELSE 0

Grown(before, now) == \A k \in Keys : VersionOf(before, k) <= VersionOf(now, k)
Later(before, now) == Grown(before, now) /\ \E k \in Keys : VersionOf(before, k) < VersionOf(now, k)

SameVersion(before, now, k) == SameElement(before, now, k) /\ VersionOf(now, k) = VersionOf(before, k)

IsPlain(map) == map = [elements |-> map.elements, tombstones |-> map.tombstones]

LEMMA VersionTypes ==
  ASSUME NEW s, IsMap(s)
  PROVE  \A k : VersionOf(s, k) \in Nat
  BY DEF IsMap, VersionOf

LEMMA ElementRead ==
  ASSUME NEW map, IsMap(map), IsPlain(map), NEW k \in Keys, NEW version \in Nat, NEW body
  PROVE  LET now == [map EXCEPT !.elements = WithElement(@, k, version, body)]
         IN  /\ IsMap(now) /\ IsPlain(now)
             /\ VersionOf(now, k) = version
             /\ \A j \in Keys \ {k} : SameVersion(map, now, j)
PROOF
  <1> DEFINE e == WithElement(map.elements, k, version, body)
             now == [map EXCEPT !.elements = WithElement(@, k, version, body)]
  <1>1. now = [elements |-> e, tombstones |-> map.tombstones]
    BY DEF IsPlain
  <1>2. /\ DOMAIN e = DOMAIN map.elements \cup {k}
        /\ e[k] = [version |-> version, body |-> body]
        /\ \A j \in DOMAIN map.elements \ {k} : e[j] = map.elements[j]
    BY DEF WithElement
  <1> HIDE DEF e, now
  <1>3. now.elements = e /\ now.tombstones = map.tombstones
    BY <1>1
  <1>4. IsMap(now)
    BY <1>2, <1>3 DEF IsMap
  <1>5. VersionOf(now, k) = version
    BY <1>2, <1>3 DEF VersionOf
  <1>6. \A j \in Keys \ {k} : SameVersion(map, now, j)
    BY <1>2, <1>3 DEF SameVersion, SameElement, VersionOf
  <1> QED
    BY <1>1, <1>3, <1>4, <1>5, <1>6 DEF now, IsPlain

(* A change that is acceptable takes its element on, and no other.          *)
LEMMA ChangeGrows ==
  ASSUME NEW map, IsMap(map), IsPlain(map), NEW k \in Keys, NEW version \in Nat, NEW body, NEW action,
         Acceptable(map.elements, map.tombstones, action, k, version)
  PROVE  LET now == Changed(map, action, k, version, body)
         IN  /\ IsMap(now) /\ IsPlain(now)
             /\ VersionOf(map, k) < VersionOf(now, k)
             /\ \A j \in Keys \ {k} : SameVersion(map, now, j)
PROOF
  <1> DEFINE now == Changed(map, action, k, version, body)
  <1>1. VersionOf(map, k) < version
    BY DEF Acceptable, VersionOf, IsMap
  <1>2. CASE action # "delete"
    <2>1. now = [map EXCEPT !.elements = WithElement(@, k, version, body)]
      BY <1>2 DEF Changed
    <2> QED
      BY <1>1, <2>1, ElementRead
  <1>3. CASE action = "delete"
    <2> DEFINE e == Restrict(map.elements, DOMAIN map.elements \ {k})
               t == Buried(map.tombstones, k, version)
    <2>1. now = [elements |-> e, tombstones |-> t]
      BY <1>3 DEF Changed
    <2>2. DOMAIN e = DOMAIN map.elements \ {k} /\ \A j \in DOMAIN map.elements \ {k} : e[j] = map.elements[j]
      BY DEF Restrict
    <2>3. /\ DOMAIN t = DOMAIN map.tombstones \cup {k} /\ t[k] = version
          /\ \A j \in DOMAIN map.tombstones \ {k} : t[j] = map.tombstones[j]
      BY DEF Buried
    <2> HIDE DEF e, t, now
    <2>4. now.elements = e /\ now.tombstones = t
      BY <2>1
    <2>5. IsMap(now)
      BY <2>2, <2>3, <2>4 DEF IsMap
    <2>6. VersionOf(now, k) = version
      BY <2>2, <2>3, <2>4 DEF VersionOf
    <2>7. \A j \in Keys \ {k} : SameVersion(map, now, j)
      BY <2>2, <2>3, <2>4 DEF SameVersion, SameElement, VersionOf
    <2> QED
      BY <1>1, <2>1, <2>4, <2>5, <2>6, <2>7 DEF now, IsPlain
  <1> QED
    BY <1>2, <1>3

LEMMA LaterChains ==
  ASSUME NEW a, NEW b, NEW c, IsMap(a), IsMap(b), IsMap(c), Later(a, b), Later(b, c)
  PROVE  Later(a, c)
PROOF
  <1>1. \A k : VersionOf(a, k) \in Nat /\ VersionOf(b, k) \in Nat /\ VersionOf(c, k) \in Nat
    BY VersionTypes
  <1> QED
    BY <1>1 DEF Later, Grown

(* What lies between two publications that are not the same is told by      *)
(* their digests.                                                           *)
LEMMA LaterTold ==
  ASSUME NEW a, NEW b, IsMap(a), IsMap(b), Later(a, b)
  PROVE  Digest(a) # Digest(b)
PROOF
  <1>1. \A k : VersionOf(a, k) \in Nat /\ VersionOf(b, k) \in Nat
    BY VersionTypes
  <1>2. SUFFICES ASSUME Digest(a) = Digest(b) PROVE FALSE
    OBVIOUS
  <1>3. a.elements = b.elements /\ a.tombstones = b.tombstones
    BY <1>2 DEF Digest
  <1>4. \A k : VersionOf(a, k) = VersionOf(b, k)
    BY <1>3 DEF VersionOf
  <1> QED
    BY <1>1, <1>4 DEF Later

-----------------------------------------------------------------------------
(* The map: what is published and what a transaction has read               *)

IsPublication(p) ==
  /\ p = [snapshot |-> p.snapshot, index |-> p.index, changed |-> p.changed]
  /\ IsMap(p.snapshot) /\ Resolved(p.snapshot.elements)

PublishedInOrder ==
  /\ published \in Seq(Range(published))
  /\ \A i \in DOMAIN published : IsPublication(published[i])
  /\ \A i, j \in DOMAIN published : i < j => Later(published[i].snapshot, published[j].snapshot)
  /\ \A i \in DOMAIN published :
       Projects(IF i = 1 THEN NoSnapshot ELSE published[i - 1].snapshot, published[i].snapshot)

(* What is read differs from what is published where it says so, and there  *)
(* it has grown.                                                            *)
IsReading(t) ==
  /\ t = [phase |-> "reading", operation |-> t.operation, changed |-> t.changed, map |-> t.map]
  /\ IsMap(t.map) /\ IsPlain(t.map) /\ t.changed \subseteq Keys
  /\ t.operation = "load" <=> published = <<>>
  /\ t.operation \in {"load", "apply"}
  /\ \A k \in Keys \ t.changed : SameVersion(Previous, t.map, k)
  /\ t.operation = "apply" => \A k \in t.changed : VersionOf(Previous, k) < VersionOf(t.map, k)

IsReasoning(t) ==
  /\ t = [phase |-> "reasoning", index |-> t.index, snapshot |-> t.snapshot]
  /\ IsMap(t.snapshot) /\ Resolved(t.snapshot.elements)
  /\ Projects(Previous, t.snapshot)
  /\ published # <<>> => Later(Previous, t.snapshot)

TransactionFollows ==
  \/ transaction = NoTransaction
  \/ IsReading(transaction)
  \/ IsReasoning(transaction)

(* Indexes are opened once.                                                 *)
IndexesAreNew ==
  /\ IsFiniteSet(open) /\ hostSteps \in Nat /\ closed \in BOOLEAN
  /\ Len(published) <= MaxPublications
  /\ transaction # NoTransaction => Len(published) < MaxPublications
  /\ transaction.phase = "reasoning" => transaction.index \notin OfPublished
  /\ closed => transaction = NoTransaction /\ (published # <<>> => Current.index \notin open)
  /\ IndexesAreOwned

MapInvariant == PublishedInOrder /\ TransactionFollows /\ IndexesAreNew

LEMMA PreviousIs ==
  ASSUME PublishedInOrder
  PROVE  /\ IsMap(Previous) /\ Drawn(Previous) /\ Resolved(Previous.elements)
         /\ published # <<>> => /\ Len(published) \in DOMAIN published
                                /\ Previous = published[Len(published)].snapshot
                                /\ IsPublication(published[Len(published)])
         /\ published = <<>> => Previous = NoSnapshot
         /\ DOMAIN published = 1 .. Len(published) /\ Len(published) \in Nat
PROOF
  <1>1. published \in Seq(Range(published))
    BY DEF PublishedInOrder
  <1>2. DOMAIN published = 1 .. Len(published) /\ Len(published) \in Nat
    BY <1>1
  <1>3. CASE published = <<>>
    <2>1. Previous = NoSnapshot
      BY <1>3 DEF Previous
    <2>2. NoSnapshot.elements = [k \in {} |-> <<>>] /\ NoSnapshot.tombstones = [k \in {} |-> <<>>]
          /\ NoSnapshot.geometries = [k \in {} |-> <<>>]
      BY DEF NoSnapshot, NoElements
    <2>3. IsMap(NoSnapshot) /\ Resolved(NoSnapshot.elements) /\ Ways(NoSnapshot.elements) = {}
      BY <2>2 DEF IsMap, Resolved, Ways
    <2>4. Drawn(NoSnapshot)
      BY <2>2, <2>3 DEF Drawn
    <2> QED
      BY <1>2, <1>3, <2>1, <2>3, <2>4
  <1>4. CASE published # <<>>
    <2>1. Len(published) \in DOMAIN published
      BY <1>1, <1>4
    <2>2. Previous = published[Len(published)].snapshot
      BY <1>4 DEF Previous, Current
    <2>3. IsPublication(published[Len(published)]) /\ Drawn(Previous)
      BY <2>1, <2>2 DEF PublishedInOrder, Projects
    <2> QED
      BY <1>2, <1>4, <2>1, <2>2, <2>3 DEF IsPublication
  <1> QED
    BY <1>3, <1>4

LEMMA SequenceRange ==
  ASSUME NEW S, NEW s \in Seq(S)
  PROVE  s \in Seq(Range(s))
PROOF
  <1>1. \A i \in 1 .. Len(s) : s[i] \in Range(s)
    BY DEF Range
  <1> DEFINE R == Range(s)
  <1>2. \A i \in 1 .. Len(s) : s[i] \in R
    BY <1>1
  <1> HIDE DEF R
  <1>3. s \in Seq(R)
    BY <1>2
  <1> QED
    BY <1>3 DEF R

(* Publications are added at the end, ...                                   *)
LEMMA PublishKeepsOrder ==
  ASSUME PublishedInOrder, NEW p, IsPublication(p), published' = Append(published, p),
         Projects(Previous, p.snapshot), published # <<>> => Later(Previous, p.snapshot)
  PROVE  PublishedInOrder' /\ OfPublished' = OfPublished \cup {p.index}
         /\ Len(published') = Len(published) + 1 /\ published' # <<>>
PROOF
  <1> DEFINE n == Len(published)
             S == Range(published)
  <1>1. published \in Seq(S) /\ n \in Nat /\ DOMAIN published = 1 .. n
    BY DEF PublishedInOrder
  <1> HIDE DEF S
  <1>2. published \in Seq(S \cup {p})
    BY <1>1
  <1>3. /\ published' \in Seq(S \cup {p}) /\ Len(published') = n + 1 /\ DOMAIN published' = 1 .. n + 1
        /\ published'[n + 1] = p /\ \A i \in 1 .. n : published'[i] = published[i]
    BY <1>1, <1>2
  <1>4. published' \in Seq(Range(published'))
    BY <1>3, SequenceRange
  <1>5. \A i \in 1 .. n + 1 : IsPublication(published'[i])
    BY <1>1, <1>3 DEF PublishedInOrder
  <1>6. Previous = IF n = 0 THEN NoSnapshot ELSE published[n].snapshot
    BY <1>1 DEF Previous, Current
  <1>7. ASSUME NEW i \in 1 .. n + 1, NEW j \in 1 .. n + 1, i < j
        PROVE  Later(published'[i].snapshot, published'[j].snapshot)
    <2>1. CASE j \in 1 .. n
      BY <1>1, <1>3, <1>7, <2>1 DEF PublishedInOrder
    <2>2. CASE j = n + 1
      <3>1. i \in 1 .. n /\ n \in 1 .. n /\ published # <<>> /\ Previous = published[n].snapshot
        BY <1>1, <1>6, <1>7, <2>2
      <3>2. Later(published[n].snapshot, p.snapshot)
        BY <3>1
      <3>3. CASE i = n
        BY <1>3, <2>2, <3>1, <3>2, <3>3
      <3>4. CASE i < n
        <4>1. Later(published[i].snapshot, published[n].snapshot)
          BY <1>1, <3>1, <3>4 DEF PublishedInOrder
        <4>2. IsMap(published[i].snapshot) /\ IsMap(published[n].snapshot) /\ IsMap(p.snapshot)
          BY <1>1, <3>1 DEF PublishedInOrder, IsPublication
        <4>3. Later(published[i].snapshot, p.snapshot)
          BY <3>2, <4>1, <4>2, LaterChains
        <4> QED
          BY <1>3, <2>2, <3>1, <4>3
      <3>5. i = n \/ i < n
        <4> HIDE DEF n
        <4> QED
          BY <1>1, <3>1
      <3> QED
        BY <3>3, <3>4, <3>5
    <2> QED
      BY <1>1, <2>1, <2>2
  <1>8. ASSUME NEW i \in 1 .. n + 1
        PROVE  Projects(IF i = 1 THEN NoSnapshot ELSE published'[i - 1].snapshot, published'[i].snapshot)
    <2>1. CASE i \in 1 .. n
      <3>1. Projects(IF i = 1 THEN NoSnapshot ELSE published[i - 1].snapshot, published[i].snapshot)
        BY <1>1, <2>1 DEF PublishedInOrder
      <3>2. published'[i] = published[i] /\ (i # 1 => published'[i - 1] = published[i - 1])
        BY <1>1, <1>3, <2>1
      <3> QED
        BY <3>1, <3>2
    <2>2. CASE i = n + 1
      <3>1. Previous = IF i = 1 THEN NoSnapshot ELSE published'[i - 1].snapshot
        <4>1. i = 1 <=> n = 0
          BY <1>1, <2>2
        <4>2. i # 1 => i - 1 = n /\ n \in 1 .. n
          BY <1>1, <2>2, <4>1
        <4>3. i # 1 => published'[i - 1] = published[n]
          BY <1>3, <4>2
        <4> QED
          BY <1>6, <4>1, <4>3
      <3> QED
        BY <1>3, <2>2, <3>1
    <2> QED
      BY <1>1, <2>1, <2>2
  <1>9. OfPublished' = OfPublished \cup {p.index}
    <2>1. OfPublished = {published[i].index : i \in 1 .. n}
      BY <1>1 DEF OfPublished
    <2>2. OfPublished' = {published'[i].index : i \in 1 .. n + 1}
      BY <1>3 DEF OfPublished
    <2>3. 1 .. n + 1 = (1 .. n) \cup {n + 1}
      BY <1>1
    <2>4. {published'[i].index : i \in 1 .. n + 1} = {published'[i].index : i \in 1 .. n} \cup {published'[n + 1].index}
      BY <2>3
    <2>5. {published'[i].index : i \in 1 .. n} = {published[i].index : i \in 1 .. n}
      BY <1>3
    <2> QED
      BY <1>3, <2>1, <2>2, <2>4, <2>5
  <1> QED
    BY <1>3, <1>4, <1>5, <1>7, <1>8, <1>9 DEF PublishedInOrder

(* ... and who holds one changes neither its snapshot nor its index.        *)
LEMMA HoldersKeepOrder ==
  ASSUME PublishedInOrder, NEW i \in DOMAIN published, published' = [published EXCEPT ![i].changed = TRUE]
  PROVE  PublishedInOrder' /\ OfPublished' = OfPublished /\ Previous' = Previous
         /\ Len(published') = Len(published) /\ (published' = <<>> <=> published = <<>>)
         /\ (published # <<>> => Current'.index = Current.index)
PROOF
  <1> DEFINE n == Len(published)
             p == [published[i] EXCEPT !.changed = TRUE]
             S == Range(published)
  <1>1. published \in Seq(S) /\ n \in Nat /\ DOMAIN published = 1 .. n /\ i \in 1 .. n
    BY DEF PublishedInOrder
  <1>2. published' = [published EXCEPT ![i] = p]
    OBVIOUS
  <1>3. IsPublication(published[i])
    BY DEF PublishedInOrder
  <1>4. p.snapshot = published[i].snapshot /\ p.index = published[i].index /\ IsPublication(p)
    <2>1. p = [snapshot |-> published[i].snapshot, index |-> published[i].index, changed |-> TRUE]
      <3> DEFINE q == published[i]
      <3>1. q = [snapshot |-> q.snapshot, index |-> q.index, changed |-> q.changed]
        BY <1>3 DEF IsPublication
      <3> HIDE DEF q
      <3>2. \A b : [q EXCEPT !.changed = b] = [snapshot |-> q.snapshot, index |-> q.index, changed |-> b]
        BY <3>1
      <3> QED
        BY <3>2 DEF q
    <2> HIDE DEF p
    <2>2. p.snapshot = published[i].snapshot /\ p.index = published[i].index
      BY <2>1
    <2> QED
      BY <1>3, <2>1, <2>2 DEF IsPublication
  <1> HIDE DEF S, p
  <1>5. published \in Seq(S \cup {p}) /\ p \in S \cup {p}
    BY <1>1
  <1>6. published' \in Seq(S \cup {p}) /\ Len(published') = n
    BY <1>1, <1>2, <1>5
  <1>7. DOMAIN published' = 1 .. n /\ \A j \in 1 .. n : published'[j] = IF j = i THEN p ELSE published[j]
    BY <1>1, <1>2
  <1>8. \A j \in 1 .. n : /\ published'[j].snapshot = published[j].snapshot
                          /\ published'[j].index = published[j].index
                          /\ IsPublication(published'[j])
    BY <1>1, <1>4, <1>7 DEF PublishedInOrder
  <1>9. published' \in Seq(Range(published'))
    BY <1>6, SequenceRange
  <1>10. \A j, k \in 1 .. n : j < k => Later(published'[j].snapshot, published'[k].snapshot)
    BY <1>1, <1>8 DEF PublishedInOrder
  <1>11. ASSUME NEW j \in 1 .. n
         PROVE  Projects(IF j = 1 THEN NoSnapshot ELSE published'[j - 1].snapshot, published'[j].snapshot)
    <2>1. Projects(IF j = 1 THEN NoSnapshot ELSE published[j - 1].snapshot, published[j].snapshot)
      BY <1>1 DEF PublishedInOrder
    <2>2. j # 1 => j - 1 \in 1 .. n
      BY <1>1
    <2>3. (IF j = 1 THEN NoSnapshot ELSE published'[j - 1].snapshot)
            = IF j = 1 THEN NoSnapshot ELSE published[j - 1].snapshot
      BY <1>8, <2>2
    <2> QED
      BY <1>8, <2>1, <2>3
  <1>12. OfPublished' = OfPublished
    BY <1>1, <1>7, <1>8 DEF OfPublished
  <1>13. published' # <<>> /\ published # <<>> /\ Len(published') = n /\ n \in 1 .. n
    BY <1>1, <1>6
  <1>14. Current' = published'[n] /\ Current = published[n]
    BY <1>13 DEF Current
  <1>15. Current'.index = Current.index /\ Previous' = Previous
    BY <1>8, <1>13, <1>14 DEF Previous
  <1>16. PublishedInOrder'
    <2>1. \A j \in DOMAIN published' : IsPublication(published'[j])
      BY <1>7, <1>8
    <2>2. \A j, k \in DOMAIN published' : j < k => Later(published'[j].snapshot, published'[k].snapshot)
      BY <1>7, <1>10
    <2>3. \A j \in DOMAIN published' :
            Projects(IF j = 1 THEN NoSnapshot ELSE published'[j - 1].snapshot, published'[j].snapshot)
      BY <1>7, <1>11
    <2> QED
      BY <1>9, <2>1, <2>2, <2>3 DEF PublishedInOrder
  <1> QED
    BY <1>12, <1>13, <1>15, <1>16

(* An index that is opened is new.                                          *)
LEMMA NewIndexIs ==
  ASSUME PublishedInOrder, IndexesAreNew, Len(published) < MaxPublications
  PROVE  NewIndex \notin open \cup OfPublished
PROOF
  <1> DEFINE n == Len(published)
             taken == open \cup OfPublished
             all == 1 .. MaxPublications + Cardinality(open) + 1
  <1>1. n \in Nat /\ DOMAIN published = 1 .. n /\ MaxPublications \in Nat /\ n < MaxPublications
    BY VersionsAssumption DEF PublishedInOrder
  <1>2. IsFiniteSet(open) /\ Cardinality(open) \in Nat
    BY FS_CardinalityType DEF IndexesAreNew
  <1>3. IsFiniteSet(OfPublished) /\ Cardinality(OfPublished) <= n /\ Cardinality(OfPublished) \in Nat
    <2> DEFINE I == 1 .. n
               f == [i \in I |-> published[i].index]
    <2>1. IsFiniteSet(I) /\ Cardinality(I) = n
      <3>1. 0 \in Int /\ 1 \in Int /\ n \in Int
        BY <1>1
      <3>2. IsFiniteSet(1 .. n) /\ Cardinality(1 .. n) = IF 1 > n THEN 0 ELSE n - 1 + 1
        BY <3>1, FS_Interval
      <3> QED
        BY <1>1, <3>2
    <2>2. OfPublished = {f[i] : i \in I}
      BY <1>1 DEF OfPublished
    <2>3. f \in Surjection(I, OfPublished)
      BY <2>2 DEF Surjection
    <2> HIDE DEF f, I
    <2>4. IsFiniteSet(OfPublished) /\ Cardinality(OfPublished) <= Cardinality(I)
      BY <2>1, <2>3, FS_Surjection
    <2> QED
      BY <2>1, <2>4, FS_CardinalityType
  <1>4. IsFiniteSet(taken) /\ Cardinality(taken) <= Cardinality(open) + Cardinality(OfPublished)
    <2> HIDE DEF n
    <2>1. /\ IsFiniteSet(open \cup OfPublished)
          /\ Cardinality(open \cup OfPublished) =
               Cardinality(open) + Cardinality(OfPublished) - Cardinality(open \cap OfPublished)
      BY <1>2, <1>3, FS_Union
    <2>2. IsFiniteSet(open \cap OfPublished)
      BY <1>2, FS_Intersection
    <2>3. Cardinality(open \cap OfPublished) \in Nat
      BY <2>2, FS_CardinalityType
    <2> QED
      BY <1>2, <1>3, <2>1, <2>3
  <1>5. Cardinality(all) = MaxPublications + Cardinality(open) + 1
    <2> DEFINE m == MaxPublications + Cardinality(open) + 1
    <2>1. 1 \in Int /\ m \in Int /\ ~ (1 > m) /\ m - 1 + 1 = m
      BY <1>1, <1>2
    <2> HIDE DEF m
    <2>2. Cardinality(1 .. m) = IF 1 > m THEN 0 ELSE m - 1 + 1
      BY <2>1, FS_Interval
    <2> QED
      BY <2>1, <2>2 DEF m
  <1> HIDE DEF n
  <1>6. ~ (all \subseteq taken)
    <2>1. SUFFICES ASSUME all \subseteq taken PROVE FALSE
      OBVIOUS
    <2> HIDE DEF all, taken
    <2>2. Cardinality(all) <= Cardinality(taken)
      BY <1>4, <2>1, FS_Subset
    <2>3. IsFiniteSet(taken) /\ Cardinality(taken) \in Nat
      BY <1>4, FS_CardinalityType
    <2> QED
      BY <1>1, <1>2, <1>3, <1>4, <1>5, <2>2, <2>3
  <1>7. NewIndex = CHOOSE i \in all : i \notin taken
    BY DEF NewIndex
  <1>8. \E i \in all : i \notin taken
    BY <1>6
  <1> HIDE DEF all, taken
  <1>9. NewIndex \notin taken
    BY <1>7, <1>8
  <1> QED
    BY <1>9 DEF taken

(* Transactions                                                             *)

LEMMA SameReads ==
  ASSUME TransactionFollows, transaction' = transaction, Previous' = Previous,
         published' = <<>> <=> published = <<>>
  PROVE  TransactionFollows'
PROOF
  <1>1. IsReading(transaction) => IsReading(transaction)'
    BY DEF IsReading
  <1>2. IsReasoning(transaction) => IsReasoning(transaction)'
    BY DEF IsReasoning
  <1>3. transaction = NoTransaction => (transaction = NoTransaction)'
    BY DEF NoTransaction
  <1> QED
    BY <1>1, <1>2, <1>3 DEF TransactionFollows

LEMMA PhaseOf ==
  ASSUME TransactionFollows
  PROVE  /\ transaction.phase = "reading" => IsReading(transaction)
         /\ transaction.phase = "reasoning" => IsReasoning(transaction)
         /\ transaction = NoTransaction => transaction.phase = "none"
         /\ transaction.phase = "none" => transaction = NoTransaction
PROOF
  <1>1. transaction = NoTransaction => transaction.phase = "none"
    BY DEF NoTransaction
  <1>2. IsReading(transaction) => transaction.phase = "reading"
    BY DEF IsReading
  <1>3. IsReasoning(transaction) => transaction.phase = "reasoning"
    BY DEF IsReasoning
  <1> QED
    BY <1>1, <1>2, <1>3 DEF TransactionFollows

LEMMA ReadingFields ==
  ASSUME NEW t, NEW o, NEW c, NEW m, t = [phase |-> "reading", operation |-> o, changed |-> c, map |-> m]
  PROVE  t.phase = "reading" /\ t.operation = o /\ t.changed = c /\ t.map = m
  OBVIOUS

LEMMA ReadingStep ==
  ASSUME PublishedInOrder, IsReading(transaction), published' = published,
         NEW k \in Keys, k \notin transaction.changed, NEW now, IsMap(now), IsPlain(now),
         \A j \in Keys \ {k} : SameVersion(transaction.map, now, j),
         transaction.operation = "apply" => VersionOf(transaction.map, k) < VersionOf(now, k),
         transaction' = [transaction EXCEPT !.map = now, !.changed = @ \cup {k}]
  PROVE  TransactionFollows'
PROOF
  <1> DEFINE t == transaction
  <1>1. PICK o, c, m : t = [phase |-> "reading", operation |-> o, changed |-> c, map |-> m]
    BY DEF IsReading
  <1>2. t.operation = o /\ t.changed = c /\ t.map = m
    BY <1>1
  <1>3. transaction' = [phase |-> "reading", operation |-> o, changed |-> c \cup {k}, map |-> now]
    BY <1>1, <1>2
  <1> HIDE DEF t
  <1>3a. transaction'.phase = "reading" /\ transaction'.operation = o
         /\ transaction'.changed = c \cup {k} /\ transaction'.map = now
    BY <1>3, ReadingFields
  <1>4. Previous' = Previous
    BY DEF Previous, Current
  <1>5. \A j \in Keys \ (t.changed \cup {k}) : SameVersion(Previous, now, j)
    <2> TAKE j \in Keys \ (t.changed \cup {k})
    <2>1. SameVersion(Previous, t.map, j) /\ SameVersion(t.map, now, j)
      BY DEF IsReading, t
    <2> QED
      BY <2>1 DEF SameVersion, SameElement
  <1>6. ASSUME t.operation = "apply", NEW j \in t.changed \cup {k}
        PROVE  VersionOf(Previous, j) < VersionOf(now, j)
    <2>1. CASE j = k
      <3>1. VersionOf(Previous, k) = VersionOf(t.map, k)
        BY DEF IsReading, t, SameVersion
      <3> QED
        BY <1>6, <2>1, <3>1 DEF t
    <2>2. CASE j # k
      <3>1. j \in Keys \ {k} /\ VersionOf(Previous, j) < VersionOf(t.map, j)
        BY <1>6, <2>2 DEF IsReading, t
      <3>2. VersionOf(now, j) = VersionOf(t.map, j)
        BY <3>1 DEF SameVersion, t
      <3> QED
        BY <3>1, <3>2
    <2> QED
      BY <2>1, <2>2
  <1>7. t.changed \cup {k} \subseteq Keys /\ (t.operation = "load" <=> published' = <<>>)
        /\ t.operation \in {"load", "apply"}
    BY DEF IsReading, t
  <1>8. IsReading(transaction)'
    BY <1>2, <1>3, <1>3a, <1>4, <1>5, <1>6, <1>7 DEF IsReading
  <1> QED
    BY <1>8 DEF TransactionFollows

LEMMA MapReadsStep ==
  MapInvariant /\ [MapNext]_mapVars => PublishedInOrder' /\ TransactionFollows'
PROOF
  <1> SUFFICES ASSUME MapInvariant, [MapNext]_mapVars
               PROVE  PublishedInOrder' /\ TransactionFollows'
    OBVIOUS
  <1>1. PublishedInOrder /\ TransactionFollows
    BY DEF MapInvariant
  <1>2. ASSUME published' = published
        PROVE  PublishedInOrder' /\ Previous' = Previous
    BY <1>1, <1>2 DEF PublishedInOrder, Previous, Current
  <1>3. CASE UNCHANGED <<published, transaction>>
    BY <1>1, <1>2, <1>3, SameReads
  <1>4. CASE transaction' = NoTransaction /\ published' = published
    BY <1>2, <1>4 DEF TransactionFollows, NoTransaction
  <1>5. CASE \E operation \in {"load", "apply"} : Begin(operation)
    <2>1. PICK operation \in {"load", "apply"} : Begin(operation)
      BY <1>5
    <2>2. CASE Refused(operation)
      BY <1>3, <2>1, <2>2 DEF Begin
    <2>3. CASE ~Refused(operation)
      <3> DEFINE m == [elements |-> Previous.elements, tombstones |-> Previous.tombstones]
      <3>1. /\ transaction' = [phase |-> "reading", operation |-> operation, changed |-> {}, map |-> m]
            /\ published' = published
        BY <2>1, <2>3 DEF Begin
      <3>2. m.elements = Previous.elements /\ m.tombstones = Previous.tombstones
        OBVIOUS
      <3>3. IsPlain(m)
        BY DEF IsPlain
      <3> HIDE DEF m
      <3>4. IsMap(m) /\ \A k \in Keys : SameVersion(Previous, m, k)
        BY <1>1, <3>2, PreviousIs DEF IsMap, SameVersion, SameElement, VersionOf
      <3>5. operation = "load" <=> published = <<>>
        BY <2>1, <2>3 DEF Refused
      <3>6. /\ transaction'.operation = operation /\ transaction'.changed = {} /\ transaction'.map = m
        BY <3>1
      <3>7. IsReading(transaction)'
        BY <1>2, <3>1, <3>3, <3>4, <3>5, <3>6 DEF IsReading
      <3> QED
        BY <1>2, <3>1, <3>7 DEF TransactionFollows
    <2> QED
      BY <2>2, <2>3
  <1>6. ASSUME NEW k \in Keys, NEW body, NEW version \in LoadVersions, ReadElement(k, version, body)
        PROVE  PublishedInOrder' /\ TransactionFollows'
    <2> DEFINE map == transaction.map
               now == [map EXCEPT !.elements = WithElement(@, k, version, body)]
    <2>1. /\ transaction.phase = "reading" /\ transaction.operation = "load" /\ k \notin transaction.changed
          /\ transaction' = [transaction EXCEPT !.map = now, !.changed = @ \cup {k}] /\ published' = published
      BY <1>6 DEF ReadElement
    <2>2. IsReading(transaction)
      BY <1>1, <2>1, PhaseOf
    <2>3. IsMap(map) /\ IsPlain(map)
      BY <2>2 DEF IsReading
    <2>4. version \in Nat
      BY VersionsAssumption
    <2> HIDE DEF map
    <2>5. IsMap(now) /\ IsPlain(now) /\ \A j \in Keys \ {k} : SameVersion(map, now, j)
      BY <2>3, <2>4, ElementRead
    <2> HIDE DEF now
    <2>6. TransactionFollows'
      BY <1>1, <2>1, <2>2, <2>5, ReadingStep DEF map
    <2> QED
      BY <1>2, <2>1, <2>6
  <1>7. ASSUME NEW k \in Keys, NEW body, NEW action, NEW version \in 1 .. MaxPublications + 1,
               ReadChange(action, k, version, body)
        PROVE  PublishedInOrder' /\ TransactionFollows'
    <2> DEFINE map == transaction.map
               now == Changed(map, action, k, version, body)
    <2>1. /\ transaction.phase = "reading" /\ k \notin transaction.changed
          /\ Acceptable(map.elements, map.tombstones, action, k, version)
          /\ transaction' = [transaction EXCEPT !.map = now, !.changed = @ \cup {k}] /\ published' = published
      BY <1>7 DEF ReadChange
    <2>2. IsReading(transaction)
      BY <1>1, <2>1, PhaseOf
    <2>3. IsMap(map) /\ IsPlain(map)
      BY <2>2 DEF IsReading
    <2>4. version \in Nat
      BY VersionsAssumption
    <2> HIDE DEF map
    <2>5. IsMap(now) /\ IsPlain(now) /\ VersionOf(map, k) < VersionOf(now, k)
          /\ \A j \in Keys \ {k} : SameVersion(map, now, j)
      BY <2>1, <2>3, <2>4, ChangeGrows
    <2> HIDE DEF now
    <2>6. TransactionFollows'
      BY <1>1, <2>1, <2>2, <2>5, ReadingStep DEF map
    <2> QED
      BY <1>2, <2>1, <2>6
  <1>8. CASE DeriveMap
    <2> DEFINE t == transaction
               now == Snapshot(Previous, t.map, t.changed)
    <2>1. /\ t.phase = "reading" /\ (t.operation = "load" \/ t.changed # {}) /\ Resolved(t.map.elements)
          /\ transaction' = [phase |-> "reasoning", index |-> NewIndex, snapshot |-> now]
          /\ published' = published
      BY <1>8 DEF DeriveMap
    <2>2. IsReading(t)
      BY <1>1, <2>1, PhaseOf
    <2>3. now.elements = t.map.elements /\ now.tombstones = t.map.tombstones
      BY DEF Snapshot
    <2>4. Projects(Previous, now)
      <3>1. /\ Drawn(Previous) /\ DOMAIN Previous.elements \subseteq Keys /\ Resolved(Previous.elements)
        BY <1>1, PreviousIs DEF IsMap
      <3>2. /\ DOMAIN t.map.elements \subseteq Keys /\ t.changed \in SUBSET Keys
            /\ \A k \in Keys \ t.changed : SameElement(Previous, t.map, k)
        BY <2>2 DEF IsReading, IsMap, SameVersion
      <3> HIDE DEF t
      <3> QED
        BY <2>1, <3>1, <3>2, SnapshotProjects
    <2> HIDE DEF now
    <2>5. IsMap(now) /\ \A k : VersionOf(now, k) = VersionOf(t.map, k)
      BY <2>2, <2>3 DEF IsReading, IsMap, VersionOf
    <2>6. ASSUME published # <<>> PROVE Later(Previous, now)
      <3>1. t.operation = "apply" /\ t.changed # {} /\ t.changed \subseteq Keys
        BY <2>1, <2>2, <2>6 DEF IsReading
      <3>2. \A k \in t.changed : VersionOf(Previous, k) < VersionOf(now, k)
        BY <2>2, <2>5, <3>1 DEF IsReading
      <3>3. \A k \in Keys \ t.changed : VersionOf(now, k) = VersionOf(Previous, k)
        BY <2>2, <2>5 DEF IsReading, SameVersion
      <3>4. \A k : VersionOf(Previous, k) \in Nat /\ VersionOf(now, k) \in Nat
        BY <1>1, <2>5, PreviousIs, VersionTypes
      <3> HIDE DEF t
      <3>5. Grown(Previous, now)
        BY <3>2, <3>3, <3>4 DEF Grown
      <3> QED
        BY <3>1, <3>2, <3>5 DEF Later
    <2> HIDE DEF t
    <2>7. transaction'.snapshot = now /\ transaction'.index = NewIndex
      BY <2>1
    <2>8. IsReasoning(transaction)'
      BY <1>2, <2>1, <2>3, <2>4, <2>5, <2>6, <2>7 DEF IsReasoning
    <2> QED
      BY <1>2, <2>1, <2>8 DEF TransactionFollows
  <1>9. CASE PublishMap
    <2> DEFINE p == [snapshot |-> transaction.snapshot, index |-> transaction.index, changed |-> FALSE]
    <2>1. transaction.phase = "reasoning" /\ published' = Append(published, p) /\ transaction' = NoTransaction
      BY <1>9 DEF PublishMap
    <2>2. IsReasoning(transaction)
      BY <1>1, <2>1, PhaseOf
    <2>3. p.snapshot = transaction.snapshot /\ p.index = transaction.index
          /\ p = [snapshot |-> p.snapshot, index |-> p.index, changed |-> p.changed]
      OBVIOUS
    <2> HIDE DEF p
    <2>4. IsPublication(p) /\ Projects(Previous, p.snapshot) /\ (published # <<>> => Later(Previous, p.snapshot))
      BY <2>2, <2>3 DEF IsReasoning, IsPublication
    <2>5. PublishedInOrder'
      BY <1>1, <2>1, <2>4, PublishKeepsOrder
    <2> QED
      BY <2>1, <2>5 DEF TransactionFollows, NoTransaction
  <1>10. CASE \E i \in DOMAIN published : ChangeOntology(i)
    <2>1. PICK i \in DOMAIN published : ChangeOntology(i)
      BY <1>10
    <2>2. published' = [published EXCEPT ![i].changed = TRUE] /\ transaction' = transaction
      BY <2>1 DEF ChangeOntology
    <2>3. PublishedInOrder' /\ Previous' = Previous /\ (published' = <<>> <=> published = <<>>)
      BY <1>1, <2>2, HoldersKeepOrder
    <2> QED
      BY <1>1, <2>2, <2>3, SameReads
  <1>11. CASE EndWithoutChange \/ FailTransaction
    BY <1>4, <1>11 DEF EndWithoutChange, FailTransaction
  <1>12. CASE CloseRuntime \/ (\E i \in DOMAIN published : ClosePublication(i)) \/ UNCHANGED mapVars
    BY <1>3, <1>12 DEF CloseRuntime, ClosePublication, mapVars
  <1> QED
    BY <1>5, <1>6, <1>7, <1>8, <1>9, <1>10, <1>11, <1>12 DEF MapNext

(* Indexes                                                                  *)

(* What a publication lacks grows by what is taken from it.                 *)
Lost(P, O) == P \ O

LEMMA OneMoreLost ==
  ASSUME NEW P, NEW O, NEW x, IsFiniteSet(Lost(P, O))
  PROVE  /\ Cardinality(Lost(P, O \ {x})) <= Cardinality(Lost(P, O)) + 1
         /\ Cardinality(Lost(P, O)) \in Nat /\ Cardinality(Lost(P, O \ {x})) \in Nat
         /\ x \notin O => Lost(P, O \ {x}) = Lost(P, O)
PROOF
  <1>1. /\ IsFiniteSet(Lost(P, O) \cup {x})
        /\ Cardinality(Lost(P, O) \cup {x}) =
             IF x \in Lost(P, O) THEN Cardinality(Lost(P, O)) ELSE Cardinality(Lost(P, O)) + 1
    BY FS_AddElement
  <1>2. Cardinality(Lost(P, O)) \in Nat
    BY FS_CardinalityType
  <1>3. CASE x \in P /\ x \in O
    <2>1. Lost(P, O \ {x}) = Lost(P, O) \cup {x} /\ x \notin Lost(P, O)
      BY <1>3 DEF Lost
    <2> QED
      BY <1>1, <1>2, <1>3, <2>1
  <1>4. CASE ~ (x \in P /\ x \in O)
    <2>1. Lost(P, O \ {x}) = Lost(P, O)
      BY <1>4 DEF Lost
    <2> QED
      BY <1>2, <2>1
  <1> QED
    BY <1>3, <1>4

LEMMA PublishedFinite ==
  ASSUME PublishedInOrder
  PROVE  IsFiniteSet(OfPublished) /\ \A S : IsFiniteSet(OfPublished \ S)
PROOF
  <1> DEFINE I == 1 .. Len(published)
             f == [i \in I |-> published[i].index]
  <1>1. Len(published) \in Nat /\ DOMAIN published = I
    BY DEF PublishedInOrder
  <1>2. IsFiniteSet(I)
    BY <1>1, FS_Interval
  <1>3. f \in Surjection(I, OfPublished)
    BY <1>1 DEF Surjection, OfPublished
  <1> HIDE DEF I, f
  <1>4. IsFiniteSet(OfPublished)
    BY <1>2, <1>3, FS_Surjection
  <1>5. \A S : IsFiniteSet(OfPublished \ S)
    BY <1>4, FS_Difference
  <1> QED
    BY <1>4, <1>5

LEMMA MapIndexStep == MapInvariant /\ [MapNext]_mapVars => IndexesAreNew'
PROOF
  <1> SUFFICES ASSUME MapInvariant, [MapNext]_mapVars
               PROVE  IndexesAreNew'
    OBVIOUS
  <1> DEFINE n == Len(published)
             lost == Cardinality(OfPublished \ open)
             Budget(h, c) == h + (IF c THEN 1 ELSE 0)
  <1>1. PublishedInOrder /\ TransactionFollows /\ IndexesAreNew
    BY DEF MapInvariant
  <1>2. /\ IsFiniteSet(open) /\ hostSteps \in Nat /\ closed \in BOOLEAN
        /\ n <= MaxPublications /\ (transaction # NoTransaction => n < MaxPublications)
        /\ transaction.phase = "reasoning" => transaction.index \notin OfPublished
        /\ closed => transaction = NoTransaction /\ (published # <<>> => Current.index \notin open)
        /\ open \subseteq OfPublished \cup OfCandidate /\ OfCandidate \subseteq open
        /\ lost <= Budget(hostSteps, closed)
    BY <1>1 DEF IndexesAreNew, IndexesAreOwned
  <1>3. n \in Nat /\ MaxPublications \in Nat /\ IsFiniteSet(OfPublished \ open) /\ lost \in Nat
    <2>1. IsFiniteSet(OfPublished \ open)
      BY <1>1, PublishedFinite
    <2> QED
      BY <1>1, <2>1, FS_CardinalityType, VersionsAssumption DEF PublishedInOrder
  <1>4. transaction = NoTransaction => OfCandidate = {}
    BY DEF NoTransaction, OfCandidate
  <1>5. transaction' = NoTransaction => OfCandidate' = {} /\ transaction'.phase = "none"
    BY DEF NoTransaction, OfCandidate
  <1>6. ASSUME published' = published
        PROVE  OfPublished' = OfPublished /\ Len(published') = n /\ Current' = Current
    BY <1>6 DEF OfPublished, Current
  <1>7. CASE UNCHANGED <<published, closed, transaction, open, hostSteps>>
    BY <1>1, <1>7 DEF IndexesAreNew, IndexesAreOwned, OfPublished, OfCandidate, Current, NoTransaction
  <1>8. ASSUME transaction'.phase = "reading", UNCHANGED <<published, closed, open, hostSteps>>,
               n < MaxPublications, ~closed, OfCandidate = {}
        PROVE  IndexesAreNew'
    <2>1. OfCandidate' = {}
      BY <1>8 DEF OfCandidate
    <2> QED
      BY <1>2, <1>3, <1>6, <1>8, <2>1 DEF IndexesAreNew, IndexesAreOwned
  <1>9. ASSUME transaction.phase = "reading"
        PROVE  transaction # NoTransaction /\ ~closed /\ n < MaxPublications /\ OfCandidate = {}
    BY <1>2, <1>9 DEF NoTransaction, OfCandidate
  <1>10. CASE \E operation \in {"load", "apply"} : Begin(operation)
    <2>1. PICK operation \in {"load", "apply"} : Begin(operation)
      BY <1>10
    <2>2. CASE Refused(operation)
      BY <1>7, <2>1, <2>2 DEF Begin
    <2>3. CASE ~Refused(operation)
      <3>1. transaction'.phase = "reading"
        BY <2>1, <2>3 DEF Begin
      <3>2. ~closed /\ transaction = NoTransaction /\ n < MaxPublications
            /\ UNCHANGED <<published, closed, open, hostSteps>>
        BY <2>1, <2>3 DEF Begin, Refused
      <3> QED
        BY <1>4, <1>8, <3>1, <3>2
    <2> QED
      BY <2>2, <2>3
  <1>11. CASE \E k \in Keys : \E body \in BodiesOf[k] :
                \/ \E version \in LoadVersions : ReadElement(k, version, body)
                \/ \E action \in {"create", "modify", "delete"} : \E version \in 1 .. MaxPublications + 1 :
                     ReadChange(action, k, version, body)
    <2>1. transaction.phase = "reading" /\ UNCHANGED <<published, closed, open, hostSteps>>
      BY <1>11 DEF ReadElement, ReadChange
    <2>2. PICK m, c : transaction' = [transaction EXCEPT !.map = m, !.changed = c]
      BY <1>11 DEF ReadElement, ReadChange
    <2>3. IsReading(transaction)
      BY <1>1, <2>1, PhaseOf
    <2>4. transaction'.phase = "reading"
      BY <2>1, <2>2, <2>3 DEF IsReading
    <2> QED
      BY <1>8, <1>9, <2>1, <2>4
  <1>12. CASE EndWithoutChange
    <2>1. /\ transaction.phase = "reading" /\ transaction' = NoTransaction
          /\ UNCHANGED <<published, closed, open, hostSteps>>
      BY <1>12 DEF EndWithoutChange
    <2> QED
      BY <1>2, <1>3, <1>5, <1>6, <1>9, <2>1 DEF IndexesAreNew, IndexesAreOwned
  <1>13. CASE DeriveMap
    <2>1. /\ transaction.phase = "reading" /\ open' = open \cup {NewIndex}
          /\ transaction'.phase = "reasoning" /\ transaction'.index = NewIndex
          /\ UNCHANGED <<published, closed, hostSteps>>
      BY <1>13 DEF DeriveMap
    <2>2. NewIndex \notin open \cup OfPublished
      BY <1>1, <1>9, <2>1, NewIndexIs
    <2>3. OfCandidate' = {NewIndex}
      BY <2>1 DEF OfCandidate
    <2>4. OfPublished \ open' = OfPublished \ open
      BY <2>1, <2>2
    <2>5. IsFiniteSet(open')
      BY <1>2, <2>1, FS_AddElement
    <2>6. transaction' # NoTransaction
      BY <2>1 DEF NoTransaction
    <2>7. /\ ~closed /\ n < MaxPublications /\ OfCandidate = {}
      BY <1>9, <2>1
    <2>8. IndexesAreOwned'
      BY <1>2, <1>6, <2>1, <2>3, <2>4, <2>7 DEF IndexesAreOwned
    <2> QED
      BY <1>2, <1>6, <2>1, <2>2, <2>5, <2>6, <2>7, <2>8 DEF IndexesAreNew
  <1>14. CASE PublishMap
    <2> DEFINE p == [snapshot |-> transaction.snapshot, index |-> transaction.index, changed |-> FALSE]
    <2>1. /\ transaction.phase = "reasoning" /\ published' = Append(published, p) /\ transaction' = NoTransaction
          /\ UNCHANGED <<closed, open, hostSteps>>
      BY <1>14 DEF PublishMap
    <2>2. IsReasoning(transaction) /\ transaction # NoTransaction
      BY <1>1, <2>1, PhaseOf DEF NoTransaction
    <2>3. p.snapshot = transaction.snapshot /\ p.index = transaction.index
          /\ p = [snapshot |-> p.snapshot, index |-> p.index, changed |-> p.changed]
      OBVIOUS
    <2> HIDE DEF p
    <2>4. IsPublication(p) /\ Projects(Previous, p.snapshot) /\ (published # <<>> => Later(Previous, p.snapshot))
      BY <2>2, <2>3 DEF IsReasoning, IsPublication
    <2>5. OfPublished' = OfPublished \cup {p.index} /\ Len(published') = n + 1
      BY <1>1, <2>1, <2>4, PublishKeepsOrder
    <2>6. OfCandidate = {p.index} /\ p.index \in open
      BY <1>2, <2>1, <2>3 DEF OfCandidate
    <2>7. OfPublished' \ open = OfPublished \ open
      BY <2>5, <2>6
    <2>8. IndexesAreOwned'
      BY <1>2, <1>5, <2>1, <2>5, <2>6, <2>7 DEF IndexesAreOwned
    <2>9. ~closed /\ n < MaxPublications
      BY <1>2, <2>2
    <2> QED
      BY <1>2, <1>3, <1>5, <2>1, <2>5, <2>8, <2>9 DEF IndexesAreNew
  <1>15. CASE FailTransaction
    <2>1. /\ transaction # NoTransaction /\ open' = open \ OfCandidate /\ transaction' = NoTransaction
          /\ UNCHANGED <<published, closed, hostSteps>>
      BY <1>15 DEF FailTransaction, ClosesOnFailure
    <2>2. OfCandidate \cap OfPublished = {}
      BY <1>2 DEF OfCandidate
    <2>3. OfPublished \ open' = OfPublished \ open
      BY <2>1, <2>2
    <2>4. IsFiniteSet(open') /\ open' \subseteq OfPublished
      BY <1>2, <2>1, FS_Difference
    <2>5. IndexesAreOwned'
      BY <1>2, <1>5, <1>6, <2>1, <2>3, <2>4 DEF IndexesAreOwned
    <2> QED
      BY <1>2, <1>5, <1>6, <2>1, <2>4, <2>5 DEF IndexesAreNew
  <1>16. ASSUME NEW x, open' = open \ {x}, OfPublished' = OfPublished, OfCandidate' = OfCandidate,
                x \notin OfCandidate, hostSteps' \in Nat, closed' \in BOOLEAN,
                Budget(hostSteps', closed') >= Budget(hostSteps, closed) + 1
                \/ (Budget(hostSteps', closed') >= Budget(hostSteps, closed) /\ x \notin open)
         PROVE  IndexesAreOwned' /\ IsFiniteSet(open')
    <2>1. /\ Cardinality(OfPublished \ (open \ {x})) <= lost + 1
          /\ Cardinality(OfPublished \ (open \ {x})) \in Nat
          /\ x \notin open => OfPublished \ (open \ {x}) = OfPublished \ open
      <3>1. IsFiniteSet(Lost(OfPublished, open))
        BY <1>3 DEF Lost
      <3>2. /\ Cardinality(Lost(OfPublished, open \ {x})) <= Cardinality(Lost(OfPublished, open)) + 1
            /\ Cardinality(Lost(OfPublished, open \ {x})) \in Nat
            /\ x \notin open => Lost(OfPublished, open \ {x}) = Lost(OfPublished, open)
        BY <3>1, OneMoreLost
      <3> QED
        BY <3>2 DEF Lost
    <2>2. Budget(hostSteps, closed) \in Nat /\ Budget(hostSteps', closed') \in Nat
      <3>1. \A h \in Nat : h + 1 \in Nat /\ h + 0 \in Nat
        OBVIOUS
      <3>2. hostSteps \in Nat /\ hostSteps' \in Nat
        BY <1>2, <1>16
      <3>3. Budget(hostSteps, closed) \in Nat
        BY <3>1, <3>2
      <3>4. Budget(hostSteps', closed') \in Nat
        BY <3>1, <3>2
      <3> QED
        BY <3>3, <3>4
    <2> DEFINE now == Cardinality(OfPublished \ (open \ {x}))
               b == Budget(hostSteps, closed)
               c == Budget(hostSteps', closed')
    <2>3. now \in Nat /\ lost \in Nat /\ b \in Nat /\ c \in Nat /\ now <= lost + 1 /\ lost <= b
          /\ (x \notin open => now = lost) /\ (c >= b + 1 \/ (c >= b /\ x \notin open))
      BY <1>2, <1>3, <1>16, <2>1, <2>2
    <2>4. now <= c
      <3> HIDE DEF now, b, c, lost
      <3> QED
        BY <2>3
    <2>5. Cardinality(OfPublished' \ open') <= hostSteps' + (IF closed' THEN 1 ELSE 0)
      BY <1>16, <2>4
    <2>6. open' \subseteq OfPublished' \cup OfCandidate' /\ OfCandidate' \subseteq open'
      BY <1>2, <1>16
    <2>7. IsFiniteSet(open')
      BY <1>2, <1>16, FS_RemoveElement
    <2> QED
      BY <2>5, <2>6, <2>7 DEF IndexesAreOwned
  <1>17. CASE CloseRuntime
    <2>1. /\ transaction = NoTransaction /\ closed' = TRUE /\ UNCHANGED <<published, transaction, hostSteps>>
          /\ open' = IF published = <<>> THEN open ELSE open \ {Current.index}
      BY <1>17 DEF CloseRuntime
    <2>2. OfCandidate = {} /\ OfCandidate' = {}
      BY <1>4, <1>5, <2>1
    <2>3. CASE published = <<>>
      <3>1. IndexesAreOwned'
        BY <1>2, <1>3, <1>6, <2>1, <2>2, <2>3 DEF IndexesAreOwned
      <3> QED
        BY <1>2, <1>5, <1>6, <2>1, <2>3, <3>1 DEF IndexesAreNew
    <2>4. CASE published # <<>>
      <3> DEFINE x == Current.index
      <3>1. open' = open \ {x}
        BY <2>1, <2>4
      <3>2. \/ Budget(hostSteps', closed') >= Budget(hostSteps, closed) + 1
            \/ Budget(hostSteps', closed') >= Budget(hostSteps, closed) /\ x \notin open
        BY <1>2, <2>1, <2>4
      <3>3. x \notin OfCandidate /\ hostSteps' \in Nat /\ closed' \in BOOLEAN
        BY <1>2, <2>1, <2>2
      <3> HIDE DEF x
      <3>4. IndexesAreOwned' /\ IsFiniteSet(open')
        BY <1>6, <1>16, <2>1, <2>2, <3>1, <3>2, <3>3
      <3>5. Current'.index \notin open'
        BY <1>6, <2>1, <3>1 DEF x
      <3> QED
        BY <1>2, <1>5, <1>6, <2>1, <3>4, <3>5 DEF IndexesAreNew
    <2> QED
      BY <2>3, <2>4
  <1>18. CASE \E i \in DOMAIN published : ClosePublication(i)
    <2>1. PICK i \in DOMAIN published : ClosePublication(i)
      BY <1>18
    <2> DEFINE x == published[i].index
    <2>2. /\ hostSteps' = hostSteps + 1 /\ open' = open \ {x} /\ UNCHANGED <<published, closed, transaction>>
      BY <2>1 DEF ClosePublication, HostStep
    <2>3. x \in OfPublished
      BY DEF OfPublished
    <2>4. x \notin OfCandidate /\ OfCandidate' = OfCandidate
      BY <1>2, <2>2, <2>3 DEF OfCandidate
    <2>5. Budget(hostSteps', closed') >= Budget(hostSteps, closed) + 1 /\ hostSteps' \in Nat /\ closed' \in BOOLEAN
      BY <1>2, <2>2
    <2> HIDE DEF x
    <2>6. IndexesAreOwned' /\ IsFiniteSet(open')
      BY <1>6, <1>16, <2>2, <2>4, <2>5
    <2>7. NoTransaction' = NoTransaction
      BY DEF NoTransaction
    <2> QED
      BY <1>2, <1>6, <2>2, <2>5, <2>6, <2>7 DEF IndexesAreNew
  <1>19. CASE \E i \in DOMAIN published : ChangeOntology(i)
    <2>1. PICK i \in DOMAIN published : ChangeOntology(i)
      BY <1>19
    <2>2. /\ published' = [published EXCEPT ![i].changed = TRUE] /\ hostSteps' = hostSteps + 1
          /\ UNCHANGED <<closed, transaction, open>>
      BY <2>1 DEF ChangeOntology, HostStep
    <2>3. OfPublished' = OfPublished /\ Len(published') = n /\ (published' = <<>> <=> published = <<>>)
          /\ (published # <<>> => Current'.index = Current.index)
      BY <1>1, <2>2, HoldersKeepOrder
    <2>4. OfCandidate' = OfCandidate /\ NoTransaction' = NoTransaction
      BY <2>2 DEF OfCandidate, NoTransaction
    <2>5. IndexesAreOwned'
      BY <1>2, <1>3, <2>2, <2>3, <2>4 DEF IndexesAreOwned
    <2> QED
      BY <1>2, <2>2, <2>3, <2>4, <2>5 DEF IndexesAreNew
  <1>20. CASE UNCHANGED mapVars
    BY <1>7, <1>20 DEF mapVars
  <1> QED
    BY <1>10, <1>11, <1>12, <1>13, <1>14, <1>15, <1>17, <1>18, <1>19, <1>20 DEF MapNext

LEMMA MapInvariantHolds == MapSpec => []MapInvariant
PROOF
  <1>1. MapInit => MapInvariant
    <2> SUFFICES ASSUME MapInit PROVE MapInvariant
      OBVIOUS
    <2>1. /\ published = <<>> /\ closed = FALSE /\ transaction = NoTransaction /\ open = {} /\ hostSteps = 0
      BY DEF MapInit
    <2>2. PublishedInOrder /\ Len(published) = 0
      BY <2>1 DEF PublishedInOrder
    <2>3. OfPublished = {} /\ OfCandidate = {}
      BY <2>1 DEF OfPublished, OfCandidate, NoTransaction
    <2>4. OfPublished \ open = {} /\ IsFiniteSet({}) /\ Cardinality({}) = 0
      BY <2>3, FS_EmptySet
    <2>5. IndexesAreOwned
      <3>1. Cardinality(OfPublished \ open) <= hostSteps + (IF closed THEN 1 ELSE 0)
        BY <2>1, <2>4
      <3>2. open \subseteq OfPublished \cup OfCandidate /\ OfCandidate \subseteq open
        BY <2>1, <2>3
      <3> QED
        BY <3>1, <3>2 DEF IndexesAreOwned
    <2>6. IndexesAreNew
      <3>1. transaction.phase = "none"
        BY <2>1 DEF NoTransaction
      <3>2. IsFiniteSet(open) /\ hostSteps \in Nat /\ closed \in BOOLEAN /\ Len(published) <= MaxPublications
        <4>1. IsFiniteSet(open)
          BY <2>1, FS_EmptySet
        <4>2. hostSteps \in Nat /\ closed \in BOOLEAN
          BY <2>1
        <4>3. Len(published) <= MaxPublications
          BY <2>2, VersionsAssumption
        <4> QED
          BY <4>1, <4>2, <4>3
      <3> QED
        BY <2>1, <2>5, <3>1, <3>2 DEF IndexesAreNew
    <2> QED
      BY <2>1, <2>2, <2>6 DEF MapInvariant, TransactionFollows
  <1>2. MapInvariant /\ [MapNext]_mapVars => MapInvariant'
    BY MapReadsStep, MapIndexStep DEF MapInvariant
  <1> QED
    BY <1>1, <1>2, PTL DEF MapSpec

(* Whatever a transaction changes, the geometries that are kept are those   *)
(* of the map, and no publication says of an element anything else than the *)
(* one before it without naming it as affected (_publish, _affected).       *)
THEOREM MapProjectionsAreCurrent == MapSpec => []ProjectionsAreCurrent
PROOF
  <1>1. MapInvariant => ProjectionsAreCurrent
    BY DEF MapInvariant, PublishedInOrder, ProjectionsAreCurrent, Projects, Drawn, SaidOf, ShapeOf
  <1> QED
    BY <1>1, MapInvariantHolds, PTL

(* No digest is seen twice: every change takes its element on to a version  *)
(* that it never had, and a deleted one leaves its version behind           *)
(* (apply_changes, _digest).                                                *)
THEOREM MapRevisionsAreNew == MapSpec => []RevisionsAreNew
PROOF
  <1>1. MapInvariant => RevisionsAreNew
    BY LaterTold DEF MapInvariant, PublishedInOrder, RevisionsAreNew, IsPublication
  <1> QED
    BY <1>1, MapInvariantHolds, PTL

(* A candidate that fails, at whatever point, leaves no index open, and     *)
(* none of a publication is closed but by who holds it or with the runtime  *)
(* (_transaction, close).                                                   *)
THEOREM MapIndexesAreOwned == MapSpec => []IndexesAreOwned
PROOF
  <1>1. MapInvariant => IndexesAreOwned
    BY DEF MapInvariant, IndexesAreNew
  <1> QED
    BY <1>1, MapInvariantHolds, PTL
=============================================================================
