------------------------------ MODULE AnswerCache ------------------------------
(***************************************************************************)
(* AnswerCache (query_cache.py): answers in order of use, within budgets   *)
(* of entries, values and estimated bytes.                                 *)
(*                                                                         *)
(* given is not state of the cache: the last answer put for each key.      *)
(***************************************************************************)
EXTENDS Integers, SequencesExt

CONSTANTS
  MaxEntries, MaxValues, MaxBytes,
  Keys, Answers,
  ValuesOf(_),     \* the number of values of an answer, 1 for a Boolean
  BytesOf(_, _),   \* _estimate_bytes of a key and its answer, or ...
  Unknown          \*   ... this, when an object hides its size

ASSUME BudgetAssumption ==
  /\ {MaxEntries, MaxValues, MaxBytes} \subseteq Nat
  /\ Unknown \in Int \ Nat

ASSUME SizesAssumption ==
  \A k \in Keys, a \in Answers : ValuesOf(a) \in Nat /\ BytesOf(k, a) \in Nat \cup {Unknown}

VARIABLES
  cache,           \* entries from the least recently used on, and their totals
  given

vars == <<cache, given>>

-----------------------------------------------------------------------------
(* The cache as a value                                                     *)

Empty == [entries |-> <<>>, values |-> 0, bytes |-> 0]

KeysOf(c) == {c.entries[i].key : i \in DOMAIN c.entries}

Place(c, k) == CHOOSE i \in DOMAIN c.entries : c.entries[i].key = k

EntryOf(c, k) == c.entries[Place(c, k)]

(* An entry leaves with what it was charged.                                *)
Without(c, k) ==
  IF k \in KeysOf(c)
  THEN [entries |-> RemoveAt(c.entries, Place(c, k)),
        values  |-> c.values - EntryOf(c, k).values,
        bytes   |-> c.bytes - EntryOf(c, k).bytes]
  ELSE c

(* Reading an entry makes it the most recently used.                        *)
Touched(c, k) == [c EXCEPT !.entries = Append(RemoveAt(@, Place(c, k)), EntryOf(c, k))]

Entry(k, a) == [key |-> k, answer |-> a, values |-> ValuesOf(a), bytes |-> BytesOf(k, a)]

Bypassed(k, a) ==
  \/ MaxEntries = 0 \/ ValuesOf(a) > MaxValues \/ MaxBytes = 0
  \/ BytesOf(k, a) = Unknown \/ BytesOf(k, a) > MaxBytes

Fits(c, e) ==
  \/ c.entries = <<>>
  \/ /\ Len(c.entries) < MaxEntries
     /\ c.values + e.values <= MaxValues
     /\ c.bytes + e.bytes <= MaxBytes

(* What the first n of the charges w amount to.                             *)
Charged(w) ==
  LET sum[n \in 0 .. Len(w)] == IF n = 0 THEN 0 ELSE sum[n - 1] + w[n]
  IN  sum

Total(w) == Charged(w)[Len(w)]

ValuesIn(s) == [i \in DOMAIN s |-> s[i].values]
BytesIn(s)  == [i \in DOMAIN s |-> s[i].bytes]

(* The cache when n rounds of the eviction loop have run.                   *)
Dropped(c, n) ==
  [entries |-> SubSeq(c.entries, n + 1, Len(c.entries)),
   values  |-> c.values - Charged(ValuesIn(c.entries))[n],
   bytes   |-> c.bytes - Charged(BytesIn(c.entries))[n]]

(* The eviction loop: the oldest entries leave until the new one fits.      *)
Evicted(c, e) ==
  Dropped(c, CHOOSE n \in 0 .. Len(c.entries) :
               Fits(Dropped(c, n), e) /\ \A m \in 0 .. n - 1 : ~Fits(Dropped(c, m), e))

Added(c, e) == [entries |-> Append(c.entries, e),
                values  |-> c.values + e.values,
                bytes   |-> c.bytes + e.bytes]

Retained(c, k, a) == Added(Evicted(Without(c, k), Entry(k, a)), Entry(k, a))

(* Mutant: the totals keep what a replaced entry was charged.               *)
StoredOverDrift(c, k, a) ==
  IF Bypassed(k, a)
  THEN Without(c, k)
  ELSE Added(Evicted([c EXCEPT !.entries = Without(c, k).entries], Entry(k, a)), Entry(k, a))

(* Mutant: an oversized answer returns before the old one is removed.       *)
StoredUnlessBypassed(c, k, a) == IF Bypassed(k, a) THEN c ELSE Retained(c, k, a)

(* put: an answer that is not retained still ends the life of the one it    *)
(* replaces.                                                                *)
Stored(c, k, a) == IF Bypassed(k, a) THEN Without(c, k) ELSE Retained(c, k, a)

-----------------------------------------------------------------------------
(* Operations                                                               *)

Init == cache = Empty /\ given = [k \in {} |-> Unknown]

(* A miss changes only a counter.                                           *)
Get(k) ==
  /\ k \in KeysOf(cache)
  /\ cache' = Touched(cache, k)
  /\ UNCHANGED given

Put(k, a) ==
  /\ cache' = Stored(cache, k, a)
  /\ given' = [j \in DOMAIN given \cup {k} |-> IF j = k THEN a ELSE given[j]]

Clear ==
  /\ cache' = Empty
  /\ UNCHANGED given

Next ==
  \/ \E k \in Keys : Get(k)
  \/ \E k \in Keys, a \in Answers : Put(k, a)
  \/ Clear

Spec == Init /\ [][Next]_vars

-----------------------------------------------------------------------------
(* Properties                                                               *)

(* The totals are what the retained entries amount to, and no budget is     *)
(* exceeded: replacing, bypassing and evicting never drift (put, clear).    *)
WithinBudget(c) ==
  /\ c.values = Total(ValuesIn(c.entries)) /\ c.values <= MaxValues
  /\ c.bytes = Total(BytesIn(c.entries)) /\ c.bytes <= MaxBytes
  /\ Len(c.entries) <= MaxEntries

(* A retained answer is the last one put for its key, and a key has one     *)
(* entry.                                                                   *)
OneEntryPerKey(c) ==
  \A i, j \in DOMAIN c.entries : c.entries[i].key = c.entries[j].key => i = j

OnlyLatest ==
  \A k \in KeysOf(cache) : k \in DOMAIN given /\ EntryOf(cache, k).answer = given[k]

(* Whatever is replaced, bypassed for its size or evicted, what stays is    *)
(* the last answer of its key and is charged for exactly (put, get, clear). *)
KeepsLatestWithinBudget ==
  WithinBudget(cache) /\ OneEntryPerKey(cache) /\ OnlyLatest

=============================================================================
