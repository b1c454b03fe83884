--------------------------- MODULE ProviderCursors ---------------------------
(***************************************************************************)
(* ProviderCursor (providers.py): finite scans read in pages, over the     *)
(* registry and the cache of Providers.  Batches are left out here: their  *)
(* keys are never those of scans, so a scan meets them only as evictions,  *)
(* which other scans and ClearCache bring as well.                         *)
(*                                                                         *)
(* Between two rows the consumer has control.  While an adapter opens a    *)
(* scan or fills a page, and while it reports its snapshot for scan, who-  *)
(* ever it calls has it.  A cursor is read or closed by its consumer only  *)
(* when none of its own reads is under way.                                *)
(***************************************************************************)
EXTENDS Providers

CONSTANTS
  Cursors, MaxPage, MaxPages,
  SnapshotsUseRegistry   \* whether an adapter's snapshot may use the registry

ASSUME PagesAssumption ==
  /\ {MaxPage, MaxPages} \subseteq Nat \ {0}
  /\ SnapshotsUseRegistry \in BOOLEAN

(* What an adapter has for a scan is a sequence of rows.                    *)
ASSUME RowsAssumption == \A v \in Outcomes : v \in Seq(Range(v))

VARIABLE
  cursor       \* the last scan begun under each name

scanVars == <<vars, cursor>>

(* What the consumers have seen.                                            *)
SeenOf(cc) ==
  IF cc.phase \in {"unused", "pinning"} THEN [begun |-> FALSE]
  ELSE [begun |-> TRUE, op |-> cc.op, arg |-> cc.arg, generation |-> cc.generation,
        revision |-> cc.revision, given |-> cc.given, complete |-> cc.complete]

Seen == [c \in Cursors |-> SeenOf(cursor[c])]

Scans == INSTANCE SnapshotScans WITH scan <- Seen

Registered == UNCHANGED <<registry, call>> /\ Quiet

-----------------------------------------------------------------------------
(* scan and ProviderCursor.__init__                                         *)

(* The descriptor and the adapter are looked up, then the adapter is asked  *)
(* for its snapshot.                                                        *)
Scan(c, op, arg) ==
  /\ cursor[c].phase \in {"unused", "closed"}
  /\ cursor' = [cursor EXCEPT ![c] =
       [phase |-> "pinning", op |-> op, arg |-> arg, adapter |-> registered[op]]]
  /\ Registered /\ UNCHANGED cache

(* The generation is noted last, and a remembered scan is taken from the    *)
(* cache.  revision is the one of the snapshot, given what was yielded.     *)
Construct(c) ==
  LET cc   == cursor[c]
      at   == revision[cc.adapter]
      key  == Key(cc.op, SnapshotOf(cc.adapter, at), cc.arg)
      hit  == key \in KeysOf(cache)
  IN  /\ cc.phase = "pinning"
      /\ cursor' = [cursor EXCEPT ![c] =
           [phase |-> "new", op |-> cc.op, arg |-> cc.arg, adapter |-> cc.adapter,
            key |-> key, generation |-> generation, revision |-> at,
            cached |-> hit, buffer |-> IF hit THEN EntryOf(cache, key).value ELSE <<>>, last |-> hit,
            position |-> 0, pages |-> 0, asked |-> <<0, 0>>,
            saved |-> <<>>, cacheable |-> MaxEntries # 0,
            given |-> <<>>, complete |-> FALSE]]
      /\ cache' = Touched(cache, key)
      /\ Registered

-----------------------------------------------------------------------------
(* __next__                                                                 *)

(* _check                                                                   *)
Checked(c) ==
  /\ cursor[c].generation = generation
  /\ Snapshot(cursor[c].op) = cursor[c].key.snapshot

(* The first read of a scan that is not remembered opens it.                *)
Open(c) ==
  /\ cursor[c].phase = "new" /\ Checked(c)
  /\ cursor' = [cursor EXCEPT ![c].phase = IF cursor[c].cached THEN "reading" ELSE "opening"]
  /\ Registered /\ UNCHANGED cache

Opened(c) ==
  /\ cursor[c].phase = "opening"
  /\ cursor' = [cursor EXCEPT ![c].phase = "reading"]
  /\ Registered /\ UNCHANGED cache

(* Mutant: an empty page is not counted.                                    *)
CountedIfRows(pages, rows) == IF rows = <<>> THEN pages ELSE pages + 1

(* Every page counts against the limit, an empty one as well.               *)
Counted(pages, rows) == pages + 1

NextPage(c) ==
  LET cc == cursor[c]
  IN  /\ cc.phase = "reading" /\ cc.buffer = <<>> /\ ~cc.last
      /\ cc.pages < MaxPages /\ Checked(c)
      /\ cursor' = [cursor EXCEPT ![c].phase = "paging",
                                  ![c].asked = <<generation, revision[cc.adapter]>>]
      /\ Registered /\ UNCHANGED cache

WithPage(cc, rows, n, last) ==
  [cc EXCEPT !.phase = "reading", !.buffer = rows, !.last = last, !.position = @ + n,
             !.pages = Counted(@, rows), !.asked = <<0, 0>>]

(* A page with the next rows, none at all or as many as fit, as the data    *)
(* stand while it is filled.  The last page may be empty.                   *)
Page(c) ==
  LET cc == cursor[c]
  IN  /\ cc.phase = "paging" /\ Checked(c)
      /\ \E at \in (cc.asked[1] .. generation) \X (cc.asked[2] .. revision[cc.adapter]),
            n \in 0 .. MaxPage, last \in BOOLEAN :
           LET all  == Outcome(cc.op, cc.adapter, at[1], at[2], cc.arg)
               rows == SubSeq(all, cc.position + 1, cc.position + n)
           IN  /\ cc.position + n <= Len(all)
               /\ last => cc.position + n = Len(all)
               /\ cursor' = [cursor EXCEPT ![c] = WithPage(cc, rows, n, last)]
      /\ Registered /\ UNCHANGED cache

(* Mutant: rows that do not fit are let go, but the scan stays cacheable.   *)
RetainedPart(cc, row) ==
  IF cc.cacheable /\ SizeOf(cc.key, Append(cc.saved, row)) <= MaxBytes
  THEN [saved |-> Append(cc.saved, row), cacheable |-> TRUE]
  ELSE [saved |-> <<>>, cacheable |-> cc.cacheable]

(* Once the rows exceed the cache, nothing of the scan is kept.             *)
Retained(cc, row) ==
  IF cc.cacheable /\ SizeOf(cc.key, Append(cc.saved, row)) <= MaxBytes
  THEN [saved |-> Append(cc.saved, row), cacheable |-> TRUE]
  ELSE [saved |-> <<>>, cacheable |-> FALSE]

(* The limit of rows is for those that an adapter delivers.                 *)
RoomFor(cc) == cc.cached \/ Len(cc.given) < MaxRows

WithRow(cc, row) ==
  [cc EXCEPT !.buffer = Tail(@), !.given = Append(@, row),
             !.saved     = IF cc.cached THEN @ ELSE Retained(cc, row).saved,
             !.cacheable = IF cc.cached THEN @ ELSE Retained(cc, row).cacheable]

Yield(c) ==
  LET cc == cursor[c]
  IN  /\ cc.phase = "reading" /\ cc.buffer # <<>> /\ Checked(c)
      /\ RoomFor(cc)
      /\ cursor' = [cursor EXCEPT ![c] = WithRow(cc, Head(cc.buffer))]
      /\ Registered /\ UNCHANGED cache

(* close: the source, if one was opened, is closed with the cursor.  What   *)
(* the consumer has seen is all that is left of it.                         *)
Closed(cc) ==
  [phase |-> "closed", op |-> cc.op, arg |-> cc.arg, generation |-> cc.generation,
   revision |-> cc.revision, given |-> cc.given, complete |-> FALSE]

(* The end: complete is set, and then the rows are remembered.              *)
Finish(c) ==
  LET cc == cursor[c]
  IN  /\ cc.phase = "reading" /\ cc.buffer = <<>> /\ cc.last /\ Checked(c)
      /\ cursor' = [cursor EXCEPT ![c] = [Closed(cc) EXCEPT !.complete = TRUE]]
      /\ cache' = IF cc.cacheable /\ ~cc.cached THEN Put(cache, cc.key, cc.saved) ELSE cache
      /\ Registered

(* A read ends in an error, and __next__ closes the cursor: a moved pin, a  *)
(* limit, a deadline, a page that is refused, or an error of the adapter.   *)
Raise(c) ==
  /\ cursor[c].phase \in {"new", "opening", "reading", "paging"}
  /\ cursor' = [cursor EXCEPT ![c] = Closed(@)]
  /\ Registered /\ UNCHANGED cache

(* Asked for its snapshot, the adapter failed.                              *)
Refuse(c) ==
  /\ cursor[c].phase = "pinning"
  /\ cursor' = [cursor EXCEPT ![c] = [phase |-> "unused"]]
  /\ Registered /\ UNCHANGED cache

(* The consumer closes a cursor between two rows, or lets go of it.         *)
Close(c) ==
  /\ cursor[c].phase \in {"new", "reading"}
  /\ cursor' = [cursor EXCEPT ![c] = Closed(@)]
  /\ Registered /\ UNCHANGED cache

-----------------------------------------------------------------------------
ScanInit == Init /\ cursor = [c \in Cursors |-> [phase |-> "unused"]]

Read(c) ==
  \/ Construct(c) \/ Refuse(c)
  \/ Open(c) \/ Opened(c) \/ NextPage(c) \/ Page(c) \/ Yield(c) \/ Finish(c)
  \/ Raise(c)

Asking == \E c \in Cursors : cursor[c].phase = "pinning"

ScanNext ==
  \/ /\ Manage /\ UNCHANGED cursor
     /\ Asking /\ ~SnapshotsUseRegistry => UNCHANGED <<generation, cache>>
  \/ \E c \in Cursors, op \in Operations, arg \in Arguments : Scan(c, op, arg)
  \/ \E c \in Cursors : Read(c) \/ Close(c)

ScanSpec == ScanInit /\ [][ScanNext]_scanVars

(* A consumer goes on reading until its cursor is closed, and adapters,     *)
(* which have deadlines, answer.                                            *)
Fairness == \A c \in Cursors : WF_scanVars(Read(c))

-----------------------------------------------------------------------------
(* Properties                                                               *)

(* Scans give the rows of one instant, in order, and are complete only when *)
(* they gave them all.                                                      *)
RowsSpec == Scans!Spec

(* A scan that is read comes to an end, whatever its adapter does: pages    *)
(* that bring nothing are bounded by max_pages.                             *)
ScansEnd == \A c \in Cursors : cursor[c].phase = "opening" ~> cursor[c].phase = "closed"
=============================================================================
