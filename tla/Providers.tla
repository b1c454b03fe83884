------------------------------ MODULE Providers ------------------------------
(***************************************************************************)
(* ProviderRegistry (providers.py): batches of external computations,      *)
(* pinned to a revision, deduplicated, remembered in a bounded cache.      *)
(*                                                                         *)
(* A call gives control away while its rows are drawn from the caller's    *)
(* iterator, while an adapter reports its snapshot and while it computes a *)
(* batch.  Whoever runs then may use the registry, and a remote dataset    *)
(* may move to its next revision at any time.                              *)
(*                                                                         *)
(* Invalidation tells of contents that changed under an unchanged revision *)
(* (Outcome depends on the generation).  answer is not state of the        *)
(* registry: it is what evaluate returned in the last step, if it did.     *)
(***************************************************************************)
EXTENDS Integers, SequencesExt

CONSTANTS
  Operations, Adapters, Callers, Arguments,
  Outcome(_, _, _, _, _),  \* operation, adapter, generation, revision, argument
  SnapshotOf(_, _),        \* the Snapshot of an adapter at a revision
  Cacheable(_),            \* the result is OK, NO_ROUTE or a complete scan
  SizeOf(_, _),            \* what an entry is charged, from its key and value
  Pending,                 \* no result yet (None in the code)
  MaxEntries, MaxBytes, MaxRows, MaxBatch,
  MaxRevision, MaxGeneration   \* bounds of the model

ASSUME LimitsAssumption ==
  /\ {MaxEntries, MaxBytes} \subseteq Nat
  /\ {MaxRows, MaxBatch, MaxRevision, MaxGeneration} \subseteq Nat \ {0}

Snapshots == {SnapshotOf(a, r) : a \in Adapters, r \in 1 .. MaxRevision}

KeyType == [generation : 1 .. MaxGeneration, op : Operations, snapshot : Snapshots, arg : Arguments]

Outcomes == {Outcome(op, a, g, r, arg) : op \in Operations, a \in Adapters,
               g \in 1 .. MaxGeneration, r \in 1 .. MaxRevision, arg \in Arguments}

ASSUME SizeAssumption == \A k \in KeyType, v \in Outcomes : SizeOf(k, v) \in Nat

(* A revision identifies the dataset of its adapter.                        *)
ASSUME SnapshotAssumption ==
  \A a \in Adapters, r, s \in 1 .. MaxRevision : SnapshotOf(a, r) = SnapshotOf(a, s) => r = s

VARIABLES
  registered, generation, revision,
  cache,       \* entries, the least recently used first, and their total
  call,        \* the evaluate in progress of each caller
  answer

registry == <<registered, generation, revision>>
vars == <<registered, generation, revision, cache, call, answer>>

Reads == INSTANCE SnapshotReads

Quiet == answer' = Reads!None

Snapshot(op) == SnapshotOf(registered[op], revision[registered[op]])

-----------------------------------------------------------------------------
(* The cache                                                                *)

Empty == [entries |-> <<>>, bytes |-> 0]

KeysOf(c) == {c.entries[i].key : i \in DOMAIN c.entries}

Place(c, k) == CHOOSE i \in DOMAIN c.entries : c.entries[i].key = k

EntryOf(c, k) == c.entries[Place(c, k)]

(* Mutant: a replaced entry stays charged.                                  *)
WithoutRefund(c, k) ==
  IF k \in KeysOf(c) THEN [c EXCEPT !.entries = RemoveAt(@, Place(c, k))] ELSE c

Without(c, k) ==
  IF k \in KeysOf(c)
  THEN [entries |-> RemoveAt(c.entries, Place(c, k)), bytes |-> c.bytes - EntryOf(c, k).size]
  ELSE c

(* _cache_get moves what it finds to the end.                               *)
Touched(c, k) ==
  IF k \in KeysOf(c)
  THEN [c EXCEPT !.entries = Append(RemoveAt(@, Place(c, k)), EntryOf(c, k))]
  ELSE c

Bypassed(k, v) == MaxEntries = 0 \/ MaxBytes = 0 \/ ~Cacheable(v) \/ SizeOf(k, v) > MaxBytes

Fits(c, size) ==
  \/ c.entries = <<>>
  \/ Len(c.entries) < MaxEntries /\ c.bytes + size <= MaxBytes

(* What the first n entries are charged.                                    *)
Charged(s) ==
  LET sum[n \in 0 .. Len(s)] == IF n = 0 THEN 0 ELSE sum[n - 1] + s[n].size
  IN  sum

Total(s) == Charged(s)[Len(s)]

(* The cache when n rounds of the eviction loop have run.                   *)
Dropped(c, n) ==
  [entries |-> SubSeq(c.entries, n + 1, Len(c.entries)),
   bytes   |-> c.bytes - Charged(c.entries)[n]]

(* The eviction loop.                                                       *)
Evicted(c, size) ==
  Dropped(c, CHOOSE n \in 0 .. Len(c.entries) :
               /\ Fits(Dropped(c, n), size)
               /\ \A m \in 0 .. n - 1 : ~Fits(Dropped(c, m), size))

Added(c, k, v) == [entries |-> Append(c.entries, [key |-> k, value |-> v, size |-> SizeOf(k, v)]),
                   bytes   |-> c.bytes + SizeOf(k, v)]

(* _cache_put                                                               *)
Put(c, k, v) ==
  IF Bypassed(k, v) THEN c ELSE Added(Evicted(Without(c, k), SizeOf(k, v)), k, v)

(* What is staged is put in its order.                                      *)
PutAll(c, staged) ==
  LET after[n \in 0 .. Len(staged)] ==
        IF n = 0 THEN c ELSE Put(after[n - 1], staged[n].key, staged[n].value)
  IN  after[Len(staged)]

-----------------------------------------------------------------------------
(* evaluate                                                                 *)

Idle == [phase |-> "idle"]

(* _key: everything the answer depends on, with normalized arguments.       *)
Key(op, snapshot, arg) ==
  [generation |-> generation, op |-> op, snapshot |-> snapshot, arg |-> arg]

Current(c) == call[c].generation = generation

Pinned(c) == Snapshot(call[c].op) = call[c].snapshot

(* The generation is noted before the adapter is asked for its snapshot.    *)
Evaluate(c, op) ==
  /\ call[c] = Idle
  /\ call' = [call EXCEPT ![c] = [phase |-> "pin", op |-> op, generation |-> generation]]
  /\ UNCHANGED <<registry, cache>> /\ Quiet

Pin(c) ==
  /\ call[c].phase = "pin"
  /\ call' = [call EXCEPT ![c] =
       [phase |-> "rows", op |-> @.op, generation |-> @.generation,
        snapshot |-> Snapshot(@.op), adapter |-> registered[@.op],
        original |-> <<>>, found |-> [k \in {} |-> Pending], requests |-> <<>>,
        answered |-> 0, staged |-> <<>>, asked |-> <<0, 0>>]]
  /\ UNCHANGED <<registry, cache>> /\ Quiet

(* Another row would be a RESOURCE_LIMIT.                                   *)
RoomForRow(c) == Len(call[c].original) < MaxRows

(* One row: descriptor and adapter are looked up again, and the cache is    *)
(* read for arguments not seen before.                                      *)
Row(c, arg) ==
  LET cc  == call[c]
      key == Key(cc.op, cc.snapshot, arg)
      new == key \notin DOMAIN cc.found
      hit == key \in KeysOf(cache)
  IN  /\ cc.phase = "rows" /\ RoomForRow(c)
      /\ call' = [call EXCEPT ![c] =
           [cc EXCEPT !.adapter  = registered[cc.op],
                      !.original = Append(cc.original, key),
                      !.found    = IF ~new THEN cc.found
                                   ELSE [k \in DOMAIN cc.found \cup {key} |->
                                           IF k # key THEN cc.found[k]
                                           ELSE IF hit THEN EntryOf(cache, key).value ELSE Pending],
                      !.requests = IF new /\ ~hit THEN Append(cc.requests, key) ELSE cc.requests]]
      /\ cache' = IF new THEN Touched(cache, key) ELSE cache
      /\ UNCHANGED registry /\ Quiet

EndRows(c) ==
  /\ call[c].phase = "rows"
  /\ call' = [call EXCEPT ![c].phase = "batches"]
  /\ UNCHANGED <<registry, cache>> /\ Quiet

(* The next batch goes to the adapter.  asked is the state of its data.     *)
Ask(c) ==
  /\ call[c].phase = "batches" /\ call[c].answered < Len(call[c].requests)
  /\ Current(c) /\ Pinned(c)
  /\ call' = [call EXCEPT ![c].phase = "asked",
                          ![c].asked = <<generation, revision[call[c].adapter]>>]
  /\ UNCHANGED <<registry, cache>> /\ Quiet

(* The rows of the batch that is out.                                       *)
Batch(c) ==
  LET n == call[c].answered
      m == Len(call[c].requests)
  IN  n + 1 .. (IF n + MaxBatch < m THEN n + MaxBatch ELSE m)

(* Mutant: a row may be answered twice and another one not at all.          *)
AcceptedOfBatch(reply, batch) ==
  /\ Len(reply) = Cardinality(batch)
  /\ Range(reply) \subseteq batch

(* The identifiers of a reply: every row of the batch once, in any order.   *)
Accepted(reply, batch) ==
  /\ Len(reply) = Cardinality(batch)
  /\ Range(reply) \subseteq batch
  /\ \A i, j \in DOMAIN reply : reply[i] = reply[j] => i = j

(* A reply with the statuses OK, NO_ROUTE and OUT_OF_REGION, computed while *)
(* the batch was out.  Any other reply ends in Fail.                        *)
Receive(c) ==
  LET cc    == call[c]
      batch == Batch(c)
  IN  /\ cc.phase = "asked" /\ Pinned(c)
      /\ \E reply \in [1 .. Cardinality(batch) -> batch],
            at \in (cc.asked[1] .. generation) \X (cc.asked[2] .. revision[cc.adapter]) :
           LET result(i) == Outcome(cc.op, cc.adapter, at[1], at[2], cc.requests[reply[i]].arg)
               keyAt(i)  == cc.requests[reply[i]]
           IN  /\ Accepted(reply, batch)
               /\ call' = [call EXCEPT ![c] =
                    [cc EXCEPT !.phase    = "batches", !.asked = <<0, 0>>,
                               !.answered = cc.answered + Cardinality(batch),
                               !.found    = [k \in DOMAIN cc.found |->
                                  IF \E i \in DOMAIN reply : keyAt(i) = k
                                  THEN result(CHOOSE i \in DOMAIN reply : keyAt(i) = k)
                                  ELSE cc.found[k]],
                               !.staged   = cc.staged \o [i \in DOMAIN reply |->
                                  [key |-> keyAt(i), value |-> result(i)]]]]
      /\ UNCHANGED <<registry, cache>> /\ Quiet

(* Mutant: the generation is not compared at the end.                       *)
PublishableWhenPinned(c) == Pinned(c)

(* Mutant: the revision is not compared again after the last batch.         *)
PublishableWhenCurrent(c) == Current(c)

(* The last comparison, of the revision first and then of the generation.   *)
Publishable(c) == Pinned(c) /\ Current(c)

(* Everything staged is published at once, and the call returns.            *)
Return(c) ==
  LET cc == call[c]
  IN  /\ cc.phase = "batches" /\ cc.answered = Len(cc.requests)
      /\ Publishable(c)
      /\ cache' = PutAll(cache, cc.staged)
      /\ answer' = [op     |-> cc.op,
                    args   |-> [i \in DOMAIN cc.original |-> cc.original[i].arg],
                    values |-> [i \in DOMAIN cc.original |-> cc.found[cc.original[i]]]]
      /\ call' = [call EXCEPT ![c] = Idle]
      /\ UNCHANGED registry

(* A limit, a deadline, a cancellation, a moved pin, a refused reply, or an *)
(* error of the adapter or of the caller's iterator.                        *)
Fail(c) ==
  /\ call[c] # Idle
  /\ call' = [call EXCEPT ![c] = Idle]
  /\ UNCHANGED <<registry, cache>> /\ Quiet

-----------------------------------------------------------------------------
(* The registry and the world                                               *)

Advance == generation < MaxGeneration /\ generation' = generation + 1

Register(op, a) ==
  /\ Advance
  /\ registered' = [registered EXCEPT ![op] = a]
  /\ cache' = Empty
  /\ UNCHANGED <<revision, call>> /\ Quiet

Invalidate ==
  /\ Advance
  /\ cache' = Empty
  /\ UNCHANGED <<registered, revision, call>> /\ Quiet

ClearCache ==
  /\ cache' = Empty
  /\ UNCHANGED <<registry, call>> /\ Quiet

Revise(a) ==
  /\ revision[a] < MaxRevision
  /\ revision' = [revision EXCEPT ![a] = @ + 1]
  /\ UNCHANGED <<registered, generation, cache, call>> /\ Quiet

Init ==
  /\ registered \in [Operations -> Adapters]
  /\ generation = 1
  /\ revision = [a \in Adapters |-> 1]
  /\ cache = Empty
  /\ call = [c \in Callers |-> Idle]
  /\ answer = Reads!None

Manage ==
  \/ \E op \in Operations, a \in Adapters : Register(op, a)
  \/ Invalidate
  \/ ClearCache
  \/ \E a \in Adapters : Revise(a)

Step(c) ==
  \/ \E op \in Operations : Evaluate(c, op)
  \/ Pin(c)
  \/ \E arg \in Arguments : Row(c, arg)
  \/ EndRows(c)
  \/ Ask(c)
  \/ Receive(c)
  \/ Return(c)
  \/ Fail(c)

Next == Manage \/ \E c \in Callers : Step(c)

Spec == Init /\ [][Next]_vars

-----------------------------------------------------------------------------
(* Properties                                                               *)

(* v is what the adapter registered now would compute now for k, if the     *)
(* snapshot of k is the one that it has.                                    *)
Answers(k, v) ==
  \A r \in 1 .. MaxRevision :
    SnapshotOf(registered[k.op], r) = k.snapshot =>
      v = Outcome(k.op, registered[k.op], generation, r, k.arg)

(* What can be found for the snapshot that an operation has now is what its *)
(* adapter would compute now, and every entry can still be found: none was  *)
(* stored under a generation that is over.  A batch outlasts invalidations, *)
(* registrations and revisions made by others while it runs.                *)
CachedIsCurrent ==
  \A i \in DOMAIN cache.entries :
    LET e == cache.entries[i] IN e.key.generation = generation /\ Answers(e.key, e.value)

(* The total is the sum of what is held, nothing is held twice, and the     *)
(* budgets are kept.                                                        *)
WithinBudget(c) ==
  /\ c.bytes = Total(c.entries) /\ c.bytes <= MaxBytes
  /\ Len(c.entries) <= MaxEntries
  /\ \A i, j \in DOMAIN c.entries : c.entries[i].key = c.entries[j].key => i = j

(* Batches that overlap, and store the same keys again, leave a cache that  *)
(* is current and within its budgets.                                       *)
CacheIsExact == CachedIsCurrent /\ WithinBudget(cache)

(* Batches answer as of the instant at which they return.                   *)
ReadSpec == Reads!Spec
=============================================================================
