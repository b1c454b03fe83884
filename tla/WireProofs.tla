------------------------------ MODULE WireProofs ------------------------------
(***************************************************************************)
(* Proofs about scans over the wire: whatever is lost or late, a scan is   *)
(* given its own rows, and a cursor is left over only by what got lost.    *)
(***************************************************************************)
EXTENDS ProviderWire, SequenceTheorems, TLAPS

-----------------------------------------------------------------------------
(* What concerns a scan: its requests under way, and its cursors.           *)
Of(cs, s) == {i \in DOMAIN cs : cs[i].of = s}
IsOnly(cs, s, id) == \A i \in DOMAIN cs : i = id <=> cs[i].of = s

Row(s, d, i) == [of |-> s, revision |-> d, row |-> i]
RowsTo(s, d, k) == [i \in 1 .. k |-> Row(s, d, i)]

(* A page holds the next row, read at the pinned revision or after it, or   *)
(* none if there are no more.                                               *)
NextRow(s, r, page, d) ==
  /\ Len(r.given) < RowsPerScan
  /\ \E e \in r.snapshot .. d : page = <<Row(s, e, Len(r.given) + 1)>>
IsPage(s, r, page, d) ==
  \/ page = <<>> /\ Len(r.given) = RowsPerScan
  \/ NextRow(s, r, page, d)

ReaderFields(r) ==
  r = [phase |-> r.phase, n |-> r.n, reply |-> r.reply, id |-> r.id, snapshot |-> r.snapshot,
       page |-> r.page, given |-> r.given, complete |-> r.complete]

ReaderOk(s, r, nx, d) ==
  /\ ReaderFields(r)
  /\ r.n \in Nat /\ r.id \in Nat /\ r.id < nx /\ r.snapshot \in 0 .. d
  /\ Len(r.given) \in 0 .. RowsPerScan /\ r.given = RowsTo(s, r.snapshot, Len(r.given))
  /\ r.complete => Len(r.given) = RowsPerScan
  /\ r.phase \in {"idle", "closed"} \cup Waiting
  /\ r.phase \in {"idle", "pin", "open"} => r.id = 0 /\ Len(r.given) = 0
  /\ r.phase \in {"before", "next", "after", "close"} => r.id # 0

RepliesOk(s, r, d) ==
  /\ r.phase \in Snapshotting /\ r.reply.kind = "answer" => r.reply.value \in 0 .. d
  /\ r.phase \in Snapshotting => r.reply.kind # "error"
  /\ r.phase = "next" /\ r.reply.kind = "answer" => IsPage(s, r, r.reply.value, d)
  /\ r.phase = "after" => IsPage(s, r, r.page, IF r.reply.kind = "answer" THEN r.reply.value ELSE d)

(* How far the cursor of a scan has come that is not over.                  *)
Position(r) ==
  Len(r.given) + CASE r.phase = "next" /\ r.reply.kind = "answer" -> Len(r.reply.value)
                   [] r.phase = "after" -> Len(r.page)
                   [] OTHER -> 0

CursorsOk(s, r, cs, nx, gone) ==
  /\ \A i, j \in Of(cs, s) : i = j
  /\ r.phase \in {"idle", "pin"} => Of(cs, s) = {}
  /\ r.id # 0 => IsOnly(cs, s, r.id)
  /\ r.phase = "open" =>
       IF r.reply.kind = "answer"
       THEN r.reply.value \in 1 .. nx - 1 /\ IsOnly(cs, s, r.reply.value)
       ELSE Of(cs, s) = {}
  /\ r.phase \in {"open", "before", "next", "after"} /\ r.reply.kind # "error" =>
       \A i \in Of(cs, s) : cs[i].at = Position(r)
  /\ r.phase = "close" /\ r.reply.kind = "answer" => Of(cs, s) = {}
  /\ r.phase = "closed" /\ s \notin gone => Of(cs, s) = {}

IsCurrent(r, m) == m.n = r.n /\ r.reply = None /\ m.action = r.phase

RequestOk(s, r, m, cs, gone) ==
  /\ m.n \in Nat /\ m.n <= r.n /\ r.phase \notin {"idle", "pin"}
  /\ m.n = r.n /\ r.phase \in Waiting => IsCurrent(r, m)
  /\ m.action = "open" =>
       /\ Of(cs, s) = {} /\ r.id = 0
       /\ (r.phase = "open" /\ IsCurrent(r, m)) \/ (r.phase = "closed" /\ s \in gone)
  /\ m.action # "open" => r.id # 0 /\ m.id = r.id
  /\ m.action = "next" => r.phase \in {"close", "closed"} \/ IsCurrent(r, m)

RequestsOk(s, r, q, cs, gone) ==
  /\ \A m \in q : m.from = s => RequestOk(s, r, m, cs, gone)
  /\ \A m, k \in q : m.from = s /\ k.from = s /\ m.n = k.n => m = k
  /\ \A m, k \in q : m.from = s /\ k.from = s /\ m.action = "open" /\ k.action = "open" => m = k

ScanOk(s, r, q, cs, nx, d, gone) ==
  /\ ReaderOk(s, r, nx, d)
  /\ RepliesOk(s, r, d)
  /\ CursorsOk(s, r, cs, nx, gone)
  /\ RequestsOk(s, r, q, cs, gone)

WireTypes ==
  /\ reader = [s \in Scans |-> reader[s]]
  /\ nextId \in Nat \ {0} /\ dataset \in Nat
  /\ cursors \in [Ids -> [of : Scans, at : Nat]] /\ Ids \subseteq 1 .. nextId - 1
  /\ \A m \in inFlight : m.from \in Scans /\ m.action \in {"open", "next", "close"}

WireInvariant ==
  /\ WireTypes
  /\ \A s \in Scans : ScanOk(s, reader[s], inFlight, cursors, nextId, dataset, lost)

-----------------------------------------------------------------------------
(* Less is under way, fewer cursors are open, and the rest has moved on     *)

(* What a scan is told by others: cursors come and go, but an identifier    *)
(* that was given stays with its scan.                                      *)
Fewer(s, cs, ds, nx) ==
  /\ \A i \in DOMAIN ds : i < nx => i \in DOMAIN cs /\ ds[i].of = cs[i].of
  /\ \A i \in Of(ds, s) : i \in Of(cs, s) /\ ds[i].at = cs[i].at

LEMMA PageLater ==
  ASSUME NEW s, NEW r, NEW page, NEW d \in Nat, NEW e \in Nat, d <= e, r.snapshot \in 0 .. d,
         IsPage(s, r, page, d)
  PROVE  IsPage(s, r, page, e)
  BY DEF IsPage, NextRow

LEMMA OnlyFewer ==
  ASSUME NEW s, NEW cs, NEW ds, NEW nx \in Nat, Fewer(s, cs, ds, nx), NEW id \in Nat, id < nx,
         IsOnly(cs, s, id)
  PROVE  IsOnly(ds, s, id)
  BY DEF Fewer, IsOnly, Of

LEMMA LessKeeps ==
  ASSUME NEW s, NEW r, NEW q, NEW cs, NEW nx \in Nat, NEW d \in Nat, NEW gone,
         ScanOk(s, r, q, cs, nx, d, gone),
         NEW p, \A m \in p : m.from = s => m \in q,
         NEW ds, Fewer(s, cs, ds, nx),
         NEW ny \in Nat, nx <= ny, NEW e \in Nat, d <= e, NEW left, s \in gone => s \in left
  PROVE  ScanOk(s, r, p, ds, ny, e, left)
PROOF
  <1>1. ReaderOk(s, r, ny, e)
    BY DEF ScanOk, ReaderOk
  <1>2. RepliesOk(s, r, e)
    <2>1. RepliesOk(s, r, d) /\ r.snapshot \in 0 .. d
      BY DEF ScanOk, ReaderOk
    <2>2. r.phase = "next" /\ r.reply.kind = "answer" => IsPage(s, r, r.reply.value, e)
      BY <2>1, PageLater DEF RepliesOk
    <2>3. r.phase = "after" => IsPage(s, r, r.page, IF r.reply.kind = "answer" THEN r.reply.value ELSE e)
      BY <2>1, PageLater DEF RepliesOk
    <2> QED
      BY <2>1, <2>2, <2>3 DEF RepliesOk
  <1>3. Of(ds, s) \subseteq Of(cs, s) /\ \A i \in Of(ds, s) : ds[i].at = cs[i].at
    BY DEF Fewer
  <1>4. CursorsOk(s, r, ds, ny, left)
    <2>1. CursorsOk(s, r, cs, nx, gone) /\ r.id \in Nat /\ r.id < nx
      BY DEF ScanOk, ReaderOk
    <2>2. r.id # 0 => IsOnly(ds, s, r.id)
      BY <2>1, OnlyFewer DEF CursorsOk
    <2>3. r.phase = "open" =>
            IF r.reply.kind = "answer"
            THEN r.reply.value \in 1 .. ny - 1 /\ IsOnly(ds, s, r.reply.value)
            ELSE Of(ds, s) = {}
      BY <1>3, <2>1, OnlyFewer DEF CursorsOk
    <2> QED
      BY <1>3, <2>1, <2>2, <2>3 DEF CursorsOk
  <1>5. RequestsOk(s, r, p, ds, left)
    <2>1. RequestsOk(s, r, q, cs, gone)
      BY DEF ScanOk
    <2>2. \A m : RequestOk(s, r, m, cs, gone) => RequestOk(s, r, m, ds, left)
      BY <1>3 DEF RequestOk
    <2> QED
      BY <2>1, <2>2 DEF RequestsOk
  <1> QED
    BY <1>1, <1>2, <1>4, <1>5 DEF ScanOk

-----------------------------------------------------------------------------
(* The records of readers                                                   *)

(* Two readers that differ in how far their calls have come, at most.       *)
SameScan(r, t) ==
  /\ t.id = r.id /\ t.snapshot = r.snapshot /\ t.page = r.page
  /\ t.given = r.given /\ t.complete = r.complete

WithPhase(r, v)  == [r EXCEPT !.phase = v]
WithN(r, v)      == [r EXCEPT !.n = v]
WithReply(r, v)  == [r EXCEPT !.reply = v]
WithId(r, v)     == [r EXCEPT !.id = v]
WithSnapshot(r, v) == [r EXCEPT !.snapshot = v]
WithPage(r, v)   == [r EXCEPT !.page = v]
WithGiven(r, v)  == [r EXCEPT !.given = v]
WithComplete(r, v) == [r EXCEPT !.complete = v]
Given(r) == [r EXCEPT !.given = @ \o r.page, !.page = <<>>]
Over(r)  == [r EXCEPT !.phase = "closed", !.reply = None]

LEMMA OneFieldIs ==
  ASSUME NEW r, ReaderFields(r), NEW v
  PROVE  /\ WithPhase(r, v) = [phase |-> v, n |-> r.n, reply |-> r.reply, id |-> r.id,
                               snapshot |-> r.snapshot, page |-> r.page, given |-> r.given, complete |-> r.complete]
         /\ WithN(r, v) = [phase |-> r.phase, n |-> v, reply |-> r.reply, id |-> r.id,
                           snapshot |-> r.snapshot, page |-> r.page, given |-> r.given, complete |-> r.complete]
         /\ WithReply(r, v) = [phase |-> r.phase, n |-> r.n, reply |-> v, id |-> r.id,
                               snapshot |-> r.snapshot, page |-> r.page, given |-> r.given, complete |-> r.complete]
         /\ WithId(r, v) = [phase |-> r.phase, n |-> r.n, reply |-> r.reply, id |-> v,
                            snapshot |-> r.snapshot, page |-> r.page, given |-> r.given, complete |-> r.complete]
         /\ WithSnapshot(r, v) = [phase |-> r.phase, n |-> r.n, reply |-> r.reply, id |-> r.id,
                                  snapshot |-> v, page |-> r.page, given |-> r.given, complete |-> r.complete]
         /\ WithPage(r, v) = [phase |-> r.phase, n |-> r.n, reply |-> r.reply, id |-> r.id,
                              snapshot |-> r.snapshot, page |-> v, given |-> r.given, complete |-> r.complete]
         /\ WithGiven(r, v) = [phase |-> r.phase, n |-> r.n, reply |-> r.reply, id |-> r.id,
                               snapshot |-> r.snapshot, page |-> r.page, given |-> v, complete |-> r.complete]
         /\ WithComplete(r, v) = [phase |-> r.phase, n |-> r.n, reply |-> r.reply, id |-> r.id,
                                  snapshot |-> r.snapshot, page |-> r.page, given |-> r.given, complete |-> v]
PROOF
  <1>1. WithPhase(r, v) = [phase |-> v, n |-> r.n, reply |-> r.reply, id |-> r.id,
                           snapshot |-> r.snapshot, page |-> r.page, given |-> r.given, complete |-> r.complete]
    BY DEF ReaderFields, WithPhase
  <1>2. WithN(r, v) = [phase |-> r.phase, n |-> v, reply |-> r.reply, id |-> r.id,
                       snapshot |-> r.snapshot, page |-> r.page, given |-> r.given, complete |-> r.complete]
    BY DEF ReaderFields, WithN
  <1>3. WithReply(r, v) = [phase |-> r.phase, n |-> r.n, reply |-> v, id |-> r.id,
                           snapshot |-> r.snapshot, page |-> r.page, given |-> r.given, complete |-> r.complete]
    BY DEF ReaderFields, WithReply
  <1>4. WithId(r, v) = [phase |-> r.phase, n |-> r.n, reply |-> r.reply, id |-> v,
                        snapshot |-> r.snapshot, page |-> r.page, given |-> r.given, complete |-> r.complete]
    BY DEF ReaderFields, WithId
  <1>5. WithSnapshot(r, v) = [phase |-> r.phase, n |-> r.n, reply |-> r.reply, id |-> r.id,
                              snapshot |-> v, page |-> r.page, given |-> r.given, complete |-> r.complete]
    BY DEF ReaderFields, WithSnapshot
  <1>6. WithPage(r, v) = [phase |-> r.phase, n |-> r.n, reply |-> r.reply, id |-> r.id,
                          snapshot |-> r.snapshot, page |-> v, given |-> r.given, complete |-> r.complete]
    BY DEF ReaderFields, WithPage
  <1>7. WithGiven(r, v) = [phase |-> r.phase, n |-> r.n, reply |-> r.reply, id |-> r.id,
                           snapshot |-> r.snapshot, page |-> r.page, given |-> v, complete |-> r.complete]
    BY DEF ReaderFields, WithGiven
  <1>8. WithComplete(r, v) = [phase |-> r.phase, n |-> r.n, reply |-> r.reply, id |-> r.id,
                              snapshot |-> r.snapshot, page |-> r.page, given |-> r.given, complete |-> v]
    BY DEF ReaderFields, WithComplete
  <1> QED
    BY <1>1, <1>2, <1>3, <1>4, <1>5, <1>6, <1>7, <1>8

LEMMA SendingIs ==
  ASSUME NEW r, ReaderFields(r), NEW p
  PROVE  LET t == Sending(r, p)
         IN  ReaderFields(t) /\ t.phase = p /\ t.n = r.n + 1 /\ t.reply = None /\ SameScan(r, t)
PROOF
  <1> DEFINE a == WithPhase(r, p)
             b == WithN(a, a.n + 1)
             t == WithReply(b, None)
  <1>1. t = Sending(r, p)
    BY DEF Sending, WithPhase, WithN, WithReply
  <1>2. ReaderFields(a) /\ a.phase = p /\ a.n = r.n /\ SameScan(r, a)
    BY OneFieldIs DEF ReaderFields, SameScan
  <1> HIDE DEF a
  <1>3. ReaderFields(b) /\ b.phase = p /\ b.n = r.n + 1 /\ SameScan(r, b)
    BY <1>2, OneFieldIs DEF ReaderFields, SameScan
  <1> HIDE DEF b
  <1>4. ReaderFields(t) /\ t.phase = p /\ t.n = r.n + 1 /\ t.reply = None /\ SameScan(r, t)
    BY <1>3, OneFieldIs DEF ReaderFields, SameScan
  <1> QED
    BY <1>1, <1>4

LEMMA OverIs ==
  ASSUME NEW r, ReaderFields(r)
  PROVE  LET t == Over(r)
         IN  ReaderFields(t) /\ t.phase = "closed" /\ t.n = r.n /\ t.reply = None /\ SameScan(r, t)
PROOF
  <1> DEFINE a == WithPhase(r, "closed")
             t == WithReply(a, None)
  <1>1. t = Over(r)
    BY DEF Over, WithPhase, WithReply
  <1>2. ReaderFields(a) /\ a.phase = "closed" /\ a.n = r.n /\ SameScan(r, a)
    BY OneFieldIs DEF ReaderFields, SameScan
  <1> HIDE DEF a
  <1>3. ReaderFields(t) /\ t.phase = "closed" /\ t.n = r.n /\ t.reply = None /\ SameScan(r, t)
    BY <1>2, OneFieldIs DEF ReaderFields, SameScan
  <1> QED
    BY <1>1, <1>3

LEMMA GivenIs ==
  ASSUME NEW r, ReaderFields(r)
  PROVE  LET t == Given(r)
         IN  /\ ReaderFields(t) /\ t.n = r.n /\ t.id = r.id /\ t.snapshot = r.snapshot /\ t.complete = r.complete
             /\ t.given = r.given \o r.page
PROOF
  <1> DEFINE g == r.given \o r.page
             a == WithGiven(r, g)
             t == WithPage(a, <<>>)
  <1>1. t = Given(r)
    BY DEF Given, WithGiven, WithPage
  <1> HIDE DEF g
  <1>2. /\ ReaderFields(a) /\ a.n = r.n /\ a.id = r.id /\ a.snapshot = r.snapshot /\ a.complete = r.complete
        /\ a.given = g
    BY OneFieldIs DEF ReaderFields
  <1> HIDE DEF a
  <1>3. /\ ReaderFields(t) /\ t.n = a.n /\ t.id = a.id /\ t.snapshot = a.snapshot /\ t.complete = a.complete
        /\ t.given = a.given
    BY <1>2, OneFieldIs DEF ReaderFields
  <1> HIDE DEF t
  <1> QED
    BY <1>1, <1>2, <1>3 DEF g

LEMMA CompleteIs ==
  ASSUME NEW r, ReaderFields(r)
  PROVE  LET t == WithComplete(r, TRUE)
         IN  ReaderFields(t) /\ t.n = r.n /\ t.id = r.id /\ t.snapshot = r.snapshot /\ t.given = r.given
PROOF
  <1>1. PICK v : v = TRUE
    OBVIOUS
  <1>2. WithComplete(r, TRUE) = WithComplete(r, v)
    BY <1>1
  <1> DEFINE t == WithComplete(r, v)
  <1>3. ReaderFields(t) /\ t.n = r.n /\ t.id = r.id /\ t.snapshot = r.snapshot /\ t.given = r.given
    BY OneFieldIs DEF ReaderFields
  <1> HIDE DEF t
  <1>4. WithComplete(r, TRUE) = t
    BY <1>2 DEF t
  <1> QED
    BY <1>3, <1>4

(* Rows that are given one after the other are those from the first on.     *)
LEMMA OneMoreRow ==
  ASSUME NEW s, NEW d, NEW g, Len(g) \in Nat, g = RowsTo(s, d, Len(g)),
         NEW more, more = g \o <<Row(s, d, Len(g) + 1)>>
  PROVE  Len(more) = Len(g) + 1 /\ more = RowsTo(s, d, Len(g) + 1)
PROOF
  <1> DEFINE R   == {Row(s, d, i) : i \in Nat}
             k   == Len(g)
             one == <<Row(s, d, k + 1)>>
             h   == g \o one
  <1>1. k \in Nat /\ g \in Seq(R) /\ \A i \in 1 .. k : g[i] = Row(s, d, i)
    BY DEF RowsTo
  <1>2. one \in Seq(R) /\ Len(one) = 1 /\ one[1] = Row(s, d, k + 1)
    BY <1>1
  <1> HIDE DEF R, one
  <1>3. /\ h \in Seq(R) /\ Len(h) = k + 1
        /\ \A i \in 1 .. k + 1 : h[i] = IF i <= k THEN g[i] ELSE one[i - k]
    <2>1. /\ g \o one \in Seq(R) /\ Len(g \o one) = Len(g) + Len(one)
          /\ \A i \in 1 .. Len(g) + Len(one) : (g \o one)[i] = IF i <= Len(g) THEN g[i] ELSE one[i - Len(g)]
      <3>1. g \in Seq(R) /\ one \in Seq(R)
        BY <1>1, <1>2
      <3> QED
        BY ONLY <3>1, ConcatProperties
    <2> QED
      BY <1>1, <1>2, <2>1
  <1> HIDE DEF k, h
  <1>4. \A i \in 1 .. k + 1 : h[i] = Row(s, d, i)
    <2> SUFFICES ASSUME NEW i \in 1 .. k + 1 PROVE h[i] = Row(s, d, i)
      OBVIOUS
    <2>1. CASE i <= k
      <3>1. i \in 1 .. k
        BY <1>1, <2>1
      <3> QED
        BY <1>1, <1>3, <2>1, <3>1
    <2>2. CASE ~(i <= k)
      <3>1. i = k + 1 /\ i - k = 1
        BY <1>1, <2>2
      <3> QED
        BY <1>2, <1>3, <2>2, <3>1
    <2> QED
      BY <2>1, <2>2
  <1>5. h = [i \in 1 .. k + 1 |-> h[i]]
    BY <1>3
  <1>6. h = RowsTo(s, d, k + 1)
    BY <1>4, <1>5 DEF RowsTo
  <1> QED
    BY <1>3, <1>6 DEF h, k, one

-----------------------------------------------------------------------------
(* The client                                                               *)

LEMMA SentKeeps ==
  ASSUME NEW s, NEW r, NEW q, NEW cs, NEW nx \in Nat, NEW d \in Nat, NEW gone,
         ScanOk(s, r, q, cs, nx, d, gone),
         NEW t, ReaderOk(s, t, nx, d), t.n = r.n + 1, t.reply = None, t.phase \in Waiting,
         t.phase = "after" => IsPage(s, t, t.page, d),
         CursorsOk(s, t, cs, nx, gone),
         \A m \in q : m.from = s =>
           /\ m.action # "open" /\ m.id = t.id /\ t.id # 0 /\ t.phase # "pin"
           /\ m.action = "next" => t.phase = "close",
         NEW p, p = IF t.phase \in Snapshotting THEN q ELSE q \cup {Request(s, t)}
  PROVE  ScanOk(s, t, p, cs, nx, d, gone)
PROOF
  <1> DEFINE now == Request(s, t)
  <1>1. None.kind = "none"
    BY DEF None
  <1>2. RepliesOk(s, t, d)
    BY <1>1 DEF RepliesOk
  <1>3. \A m \in q : m.from = s => RequestOk(s, t, m, cs, gone) /\ m.n # t.n
    <2> SUFFICES ASSUME NEW m \in q, m.from = s PROVE RequestOk(s, t, m, cs, gone) /\ m.n # t.n
      OBVIOUS
    <2>1. RequestOk(s, r, m, cs, gone) /\ r.n \in Nat
      BY DEF ScanOk, RequestsOk, ReaderOk
    <2>2. m.n \in Nat /\ m.n <= t.n /\ m.n # t.n
      BY <2>1 DEF RequestOk
    <2>3. t.phase \notin {"idle", "pin"}
      BY DEF Waiting, Snapshotting
    <2> QED
      BY <2>2, <2>3 DEF RequestOk
  <1>4. CASE t.phase \in Snapshotting
    <2>1. RequestsOk(s, t, p, cs, gone)
      BY <1>3, <1>4 DEF ScanOk, RequestsOk
    <2> QED
      BY <1>2, <2>1 DEF ScanOk
  <1>5. CASE t.phase \notin Snapshotting
    <2>1. /\ now.from = s /\ now.n = t.n /\ now.action = t.phase /\ now.id = t.id
          /\ t.phase \in {"open", "next", "close"}
      BY <1>5 DEF Request, Waiting
    <2>2. p = q \cup {now}
      BY <1>5
    <2> HIDE DEF now
    <2>3. RequestOk(s, t, now, cs, gone)
      <3>1. IsCurrent(t, now) /\ t.n \in Nat
        BY <2>1 DEF IsCurrent, ReaderOk
      <3>2. t.phase = "open" => Of(cs, s) = {} /\ t.id = 0
        BY <1>1 DEF CursorsOk, ReaderOk
      <3>3. t.phase # "open" => t.id # 0
        BY <2>1 DEF ReaderOk
      <3> QED
        BY <2>1, <3>1, <3>2, <3>3 DEF RequestOk
    <2>4. ASSUME NEW m \in q, m.from = s
          PROVE  m.n # now.n /\ ~(m.action = "open" /\ now.action = "open")
      BY <1>3, <2>1, <2>4
    <2>5. RequestsOk(s, t, p, cs, gone)
      <3>1. RequestsOk(s, r, q, cs, gone)
        BY DEF ScanOk
      <3>2. \A m \in p : m.from = s => RequestOk(s, t, m, cs, gone)
        BY <1>3, <2>2, <2>3
      <3>3. \A m, k \in p : m.from = s /\ k.from = s /\ m.n = k.n => m = k
        BY <2>2, <2>4, <3>1 DEF RequestsOk
      <3>4. \A m, k \in p : m.from = s /\ k.from = s /\ m.action = "open" /\ k.action = "open" => m = k
        BY <2>2, <2>4, <3>1 DEF RequestsOk
      <3> QED
        BY <3>2, <3>3, <3>4 DEF RequestsOk
    <2> QED
      BY <1>2, <2>5 DEF ScanOk
  <1> QED
    BY <1>4, <1>5

(* A scan that is over has no request to send; it is closed, or it is lost. *)
LEMMA OverKeeps ==
  ASSUME NEW s, NEW r, NEW q, NEW cs, NEW nx \in Nat, NEW d \in Nat, NEW gone,
         ScanOk(s, r, q, cs, nx, d, gone),
         NEW t, ReaderFields(t), t.phase = "closed", t.n = r.n, t.reply = None, SameScan(r, t),
         NEW left, s \in gone => s \in left,
         s \notin left => Of(cs, s) = {} /\ \A m \in q : m.from = s => m.action # "open"
  PROVE  ScanOk(s, t, q, cs, nx, d, left)
PROOF
  <1>1. ReaderOk(s, t, nx, d)
    BY DEF ScanOk, ReaderOk, SameScan
  <1>2. RepliesOk(s, t, d)
    BY DEF RepliesOk, Snapshotting
  <1>3. CursorsOk(s, t, cs, nx, left)
    BY DEF ScanOk, CursorsOk, SameScan
  <1>4. RequestsOk(s, t, q, cs, left)
    <2>1. RequestsOk(s, r, q, cs, gone)
      BY DEF ScanOk
    <2>2. ASSUME NEW m \in q, m.from = s PROVE RequestOk(s, t, m, cs, left)
      <3>1. RequestOk(s, r, m, cs, gone)
        BY <2>1, <2>2 DEF RequestsOk
      <3>2. t.id = r.id
        BY DEF SameScan
      <3> QED
        BY <2>2, <3>1, <3>2 DEF RequestOk, Waiting, Snapshotting
    <2> QED
      BY <2>1, <2>2 DEF RequestsOk
  <1> QED
    BY <1>1, <1>2, <1>3, <1>4 DEF ScanOk

(* No request of a scan is under way but the one it waits for, and those it *)
(* does not wait for any more.                                              *)
LEMMA NothingUnderWay ==
  ASSUME NEW s, NEW r, NEW q, NEW cs, NEW nx \in Nat, NEW d \in Nat, NEW gone,
         ScanOk(s, r, q, cs, nx, d, gone), NEW m \in q, m.from = s
  PROVE  /\ r.phase \notin {"idle", "pin"}
         /\ r.phase # "open" => m.action # "open" \/ r.phase = "closed"
         /\ r.phase = "open" => m.action = "open" /\ r.reply = None
         /\ m.action = "next" => r.phase \in {"next", "close", "closed"}
         /\ r.phase = "next" /\ m.action = "next" => r.reply = None
         /\ m.action # "open" => m.id = r.id /\ r.id # 0
  BY DEF ScanOk, RequestsOk, RequestOk, ReaderOk, IsCurrent

(* A read that ends asks for its cursor to be closed.                       *)
LEMMA ClosingKeeps ==
  ASSUME NEW s, NEW r, NEW q, NEW cs, NEW nx \in Nat, NEW d \in Nat, NEW gone,
         ScanOk(s, r, q, cs, nx, d, gone), r.phase \in {"before", "next", "after"},
         NEW b, ReaderFields(b), b.n = r.n, b.id = r.id, b.snapshot = r.snapshot, b.given = r.given,
         b.complete => Len(r.given) = RowsPerScan
  PROVE  LET t == Sending(b, "close")
         IN  ScanOk(s, t, q \cup {Request(s, t)}, cs, nx, d, gone)
PROOF
  <1> DEFINE t == Sending(b, "close")
             p == q \cup {Request(s, t)}
  <1>1. ReaderFields(t) /\ t.phase = "close" /\ t.n = b.n + 1 /\ t.reply = None /\ SameScan(b, t)
    BY SendingIs
  <1>2. p = IF t.phase \in Snapshotting THEN q ELSE q \cup {Request(s, t)}
    BY <1>1 DEF Snapshotting
  <1> HIDE DEF t, p
  <1>3. ReaderOk(s, t, nx, d)
    BY <1>1 DEF ScanOk, ReaderOk, SameScan, Waiting
  <1>4. CursorsOk(s, t, cs, nx, gone)
    BY <1>1 DEF ScanOk, CursorsOk, ReaderOk, SameScan, None
  <1>5. \A m \in q : m.from = s =>
           /\ m.action # "open" /\ m.id = t.id /\ t.id # 0 /\ t.phase # "pin"
           /\ m.action = "next" => t.phase = "close"
    BY <1>1, NothingUnderWay DEF SameScan
  <1>6. t.n = r.n + 1 /\ t.phase \in Waiting /\ t.phase # "after"
    BY <1>1 DEF Waiting
  <1>7. ScanOk(s, t, p, cs, nx, d, gone)
    BY <1>1, <1>2, <1>3, <1>4, <1>5, <1>6, SentKeeps
  <1> QED
    BY <1>7 DEF t, p

LEMMA ClientStep ==
  ASSUME WireInvariant, NEW s \in Scans, NEW t, reader' = [reader EXCEPT ![s] = t],
         UNCHANGED <<cursors, nextId, dataset>>,
         \A m \in inFlight' : m \in inFlight \/ (m = Request(s, t) /\ t.phase \in {"open", "next", "close"}),
         lost \subseteq lost', \A u \in lost' : u \in lost \/ u = s,
         ScanOk(s, t, inFlight', cursors, nextId, dataset, lost')
  PROVE  WireInvariant'
PROOF
  <1>1. reader' = [u \in Scans |-> IF u = s THEN t ELSE reader[u]]
    BY DEF WireInvariant, WireTypes
  <1>2. WireTypes'
    <2>1. reader' = [u \in Scans |-> reader'[u]]
      BY <1>1
    <2>2. \A m \in inFlight' : m.from \in Scans /\ m.action \in {"open", "next", "close"}
      BY DEF WireInvariant, WireTypes, Request
    <2> QED
      BY <2>1, <2>2 DEF WireInvariant, WireTypes, Ids
  <1>3. ASSUME NEW u \in Scans
        PROVE  ScanOk(u, reader'[u], inFlight', cursors, nextId, dataset, lost')
    <2>1. CASE u = s
      BY <1>1, <2>1
    <2>2. CASE u # s
      <3>1. reader'[u] = reader[u] /\ ScanOk(u, reader[u], inFlight, cursors, nextId, dataset, lost)
        BY <1>1, <2>2 DEF WireInvariant
      <3>2. \A m \in inFlight' : m.from = u => m \in inFlight
        BY <2>2 DEF Request
      <3>3. Fewer(u, cursors, cursors, nextId)
        BY DEF Fewer
      <3>4. nextId \in Nat /\ dataset \in Nat /\ nextId <= nextId /\ dataset <= dataset
        BY DEF WireInvariant, WireTypes
      <3>5. u \in lost => u \in lost'
        OBVIOUS
      <3>6. ScanOk(u, reader[u], inFlight', cursors, nextId, dataset, lost')
        BY <3>1, <3>2, <3>3, <3>4, <3>5, LessKeeps
      <3> QED
        BY <3>1, <3>6
    <2> QED
      BY <2>1, <2>2
  <1> QED
    BY <1>2, <1>3 DEF WireInvariant

LEMMA SendStep ==
  ASSUME WireInvariant, NEW s \in Scans, NEW t, Send(s, t), UNCHANGED <<cursors, nextId, dataset, lost>>,
         ReaderOk(s, t, nextId, dataset), t.n = reader[s].n + 1, t.reply = None, t.phase \in Waiting,
         t.phase = "after" => IsPage(s, t, t.page, dataset),
         CursorsOk(s, t, cursors, nextId, lost),
         \A m \in inFlight : m.from = s =>
           /\ m.action # "open" /\ m.id = t.id /\ t.id # 0 /\ t.phase # "pin"
           /\ m.action = "next" => t.phase = "close"
  PROVE  WireInvariant'
PROOF
  <1> DEFINE r == reader[s]
             p == IF t.phase \in Snapshotting THEN inFlight ELSE inFlight \cup {Request(s, t)}
  <1>1. ScanOk(s, r, inFlight, cursors, nextId, dataset, lost) /\ nextId \in Nat /\ dataset \in Nat
    BY DEF WireInvariant, WireTypes
  <1>2. reader' = [reader EXCEPT ![s] = t] /\ inFlight' = p
    BY DEF Send
  <1>3. \A m \in p : m \in inFlight \/ (m = Request(s, t) /\ t.phase \in {"open", "next", "close"})
    BY DEF Waiting
  <1>4. ScanOk(s, t, p, cursors, nextId, dataset, lost)
    BY <1>1, SentKeeps
  <1> HIDE DEF p
  <1> QED
    BY <1>2, <1>3, <1>4, ClientStep

LEMMA EndStep ==
  ASSUME WireInvariant, NEW s \in Scans, NEW b, Ended(s, b), UNCHANGED <<cursors, nextId, dataset>>,
         lost \subseteq lost', \A u \in lost' : u \in lost \/ u = s,
         reader[s].phase \in Waiting \ {"close"},
         ReaderFields(b), b.n = reader[s].n, b.id = reader[s].id, b.snapshot = reader[s].snapshot,
         b.given = reader[s].given, b.complete => Len(b.given) = RowsPerScan,
         b.id = 0 => b = reader[s],
         b.id # 0 => UNCHANGED lost,
         reader[s].phase = "open" /\ reader[s].reply.kind # "error" => s \in lost'
  PROVE  WireInvariant'
PROOF
  <1> DEFINE r == reader[s]
  <1>1. /\ ScanOk(s, r, inFlight, cursors, nextId, dataset, lost) /\ ReaderOk(s, r, nextId, dataset)
        /\ CursorsOk(s, r, cursors, nextId, lost) /\ nextId \in Nat /\ dataset \in Nat
    BY DEF WireInvariant, WireTypes, ScanOk
  <1>2. CASE b.id = 0
    <2> DEFINE t == Over(r)
    <2>1. reader' = [reader EXCEPT ![s] = t] /\ inFlight' = inFlight
      BY <1>2 DEF Ended, Settle, Over
    <2>2. ReaderFields(t) /\ t.phase = "closed" /\ t.n = r.n /\ t.reply = None /\ SameScan(r, t)
      BY <1>1, OverIs DEF ReaderOk
    <2> HIDE DEF t
    <2>3. r.phase \in {"pin", "open"}
      BY <1>1, <1>2 DEF ReaderOk, Waiting, Snapshotting
    <2>4. s \notin lost' => Of(cursors, s) = {} /\ \A m \in inFlight : m.from = s => m.action # "open"
      <3>1. ASSUME s \notin lost' PROVE Of(cursors, s) = {}
        BY <1>1, <2>3, <3>1 DEF CursorsOk
      <3>2. ASSUME s \notin lost', NEW m \in inFlight, m.from = s PROVE m.action # "open"
        <4>1. r.phase = "open" /\ r.reply = None
          BY <1>1, <2>3, <3>2, NothingUnderWay
        <4>2. None.kind = "none"
          BY DEF None
        <4> QED
          BY <3>2, <4>1, <4>2
      <3> QED
        BY <3>1, <3>2
    <2>5. s \in lost => s \in lost'
      OBVIOUS
    <2>6. ScanOk(s, t, inFlight, cursors, nextId, dataset, lost')
      BY <1>1, <2>2, <2>4, <2>5, OverKeeps
    <2> QED
      BY <2>1, <2>6, ClientStep
  <1>3. CASE b.id # 0
    <2> DEFINE t == Sending(b, "close")
               p == inFlight \cup {Request(s, t)}
    <2>1. r.phase \in {"before", "next", "after"}
      BY <1>1, <1>3 DEF ReaderOk, Waiting, Snapshotting
    <2>2. t.phase = "close"
      BY SendingIs
    <2>3. reader' = [reader EXCEPT ![s] = t] /\ inFlight' = p
      BY <1>3, <2>2 DEF Ended, Send, Snapshotting
    <2>4. ScanOk(s, t, p, cursors, nextId, dataset, lost)
      BY <1>1, <2>1, ClosingKeeps
    <2>5. \A m \in p : m \in inFlight \/ (m = Request(s, t) /\ t.phase \in {"open", "next", "close"})
      BY <2>2
    <2> HIDE DEF t, p
    <2> QED
      BY <1>3, <2>3, <2>4, <2>5, ClientStep
  <1> QED
    BY <1>2, <1>3

LEMMA ReadStep ==
  ASSUME WireInvariant, NEW s \in Scans, Read(s)
  PROVE  WireInvariant'
PROOF
  <1> DEFINE r == reader[s]
  <1>1. /\ ScanOk(s, r, inFlight, cursors, nextId, dataset, lost) /\ ReaderOk(s, r, nextId, dataset)
        /\ RepliesOk(s, r, dataset) /\ CursorsOk(s, r, cursors, nextId, lost)
        /\ nextId \in Nat \ {0} /\ dataset \in Nat
        /\ ReaderFields(r) /\ r.n \in Nat
    BY DEF WireInvariant, WireTypes, ScanOk, ReaderOk
  <1>2. None.kind = "none"
    BY DEF None
  <1>3. CASE Begin(s)
    <2> DEFINE t == Sending(r, "pin")
    <2>1. ReaderFields(t) /\ t.phase = "pin" /\ t.n = r.n + 1 /\ t.reply = None /\ SameScan(r, t)
      BY <1>1, SendingIs
    <2>2. Send(s, t) /\ r.phase = "idle" /\ UNCHANGED <<cursors, nextId, dataset, lost>>
      BY <1>3 DEF Begin, Server
    <2> HIDE DEF t
    <2>3. ReaderOk(s, t, nextId, dataset)
      BY <1>1, <2>1, <2>2 DEF ReaderOk, SameScan, Waiting, Snapshotting
    <2>4. CursorsOk(s, t, cursors, nextId, lost)
      BY <1>1, <2>1, <2>2 DEF CursorsOk, ReaderOk, SameScan
    <2>5. \A m \in inFlight : m.from # s
      BY <1>1, <2>2, NothingUnderWay
    <2>6. t.phase \in Waiting /\ t.phase # "after"
      BY <2>1 DEF Waiting, Snapshotting
    <2> QED
      BY <2>1, <2>2, <2>3, <2>4, <2>5, <2>6, SendStep
  <1>4. CASE SnapshotPinned(s)
    <2> DEFINE b == WithSnapshot(r, r.reply.value)
               t == Sending(b, "open")
    <2>1. /\ ReaderFields(b) /\ b.n = r.n /\ b.id = r.id /\ b.given = r.given /\ b.complete = r.complete
          /\ b.snapshot = r.reply.value
      BY <1>1, OneFieldIs DEF ReaderFields
    <2>2. ReaderFields(t) /\ t.phase = "open" /\ t.n = b.n + 1 /\ t.reply = None /\ SameScan(b, t)
      BY <2>1, SendingIs
    <2>3. Send(s, t) /\ r.phase = "pin" /\ r.reply.kind = "answer" /\ UNCHANGED <<cursors, nextId, dataset, lost>>
      BY <1>4 DEF SnapshotPinned, Answered, WithSnapshot, Server
    <2> HIDE DEF b, t
    <2>4. r.reply.value \in 0 .. dataset
      BY <1>1, <2>3 DEF RepliesOk, Snapshotting
    <2>5. t.given = RowsTo(s, t.snapshot, Len(t.given)) /\ Len(t.given) = 0 /\ t.id = 0
      BY <1>1, <2>1, <2>2, <2>3 DEF ReaderOk, SameScan, RowsTo
    <2>6. ReaderOk(s, t, nextId, dataset)
      BY <1>1, <2>1, <2>2, <2>3, <2>4, <2>5 DEF ReaderOk, SameScan, Waiting
    <2>7. CursorsOk(s, t, cursors, nextId, lost)
      BY <1>1, <1>2, <2>2, <2>3, <2>5 DEF CursorsOk, ReaderOk
    <2>8. \A m \in inFlight : m.from # s
      BY <1>1, <2>3, NothingUnderWay
    <2>9. t.phase \in Waiting /\ t.phase # "after"
      BY <2>2 DEF Waiting
    <2> QED
      BY <2>1, <2>2, <2>3, <2>6, <2>7, <2>8, <2>9, SendStep
  <1>5. CASE Opened(s)
    <2> DEFINE b == WithId(r, r.reply.value)
               t == Sending(b, "before")
    <2>1. /\ ReaderFields(b) /\ b.n = r.n /\ b.given = r.given /\ b.complete = r.complete
          /\ b.snapshot = r.snapshot /\ b.id = r.reply.value
      BY <1>1, OneFieldIs DEF ReaderFields
    <2>2. ReaderFields(t) /\ t.phase = "before" /\ t.n = b.n + 1 /\ t.reply = None /\ SameScan(b, t)
      BY <2>1, SendingIs
    <2>3. Send(s, t) /\ r.phase = "open" /\ r.reply.kind = "answer" /\ UNCHANGED <<cursors, nextId, dataset, lost>>
      BY <1>5 DEF Opened, Answered, WithId, Server
    <2> HIDE DEF b, t
    <2>4. t.id \in 1 .. nextId - 1 /\ IsOnly(cursors, s, t.id)
      BY <1>1, <2>1, <2>2, <2>3 DEF CursorsOk, SameScan
    <2>5. ReaderOk(s, t, nextId, dataset)
      BY <1>1, <2>1, <2>2, <2>3, <2>4 DEF ReaderOk, SameScan, Waiting, Snapshotting
    <2>6. CursorsOk(s, t, cursors, nextId, lost)
      <3>1. t.given = r.given
        BY <2>1, <2>2 DEF SameScan
      <3>2. Position(t) = Position(r)
        BY <1>2, <2>2, <2>3, <3>1 DEF Position
      <3> QED
        BY <1>1, <1>2, <2>2, <2>3, <2>4, <3>2 DEF CursorsOk
    <2>7. \A m \in inFlight : m.from # s
      BY <1>1, <1>2, <2>3, NothingUnderWay
    <2>8. t.phase \in Waiting /\ t.phase # "after"
      BY <2>2 DEF Waiting, Snapshotting
    <2> QED
      BY <2>1, <2>2, <2>3, <2>5, <2>6, <2>7, <2>8, SendStep
  <1>6. CASE CheckedBefore(s)
    <2> DEFINE t == Sending(r, "next")
    <2>1. ReaderFields(t) /\ t.phase = "next" /\ t.n = r.n + 1 /\ t.reply = None /\ SameScan(r, t)
      BY <1>1, SendingIs
    <2>2. Send(s, t) /\ r.phase = "before" /\ r.reply.kind = "answer" /\ UNCHANGED <<cursors, nextId, dataset, lost>>
      BY <1>6 DEF CheckedBefore, Answered, Server
    <2> HIDE DEF t
    <2>3. ReaderOk(s, t, nextId, dataset)
      BY <1>1, <2>1, <2>2 DEF ReaderOk, SameScan, Waiting
    <2>4. CursorsOk(s, t, cursors, nextId, lost)
      <3>1. Position(t) = Position(r)
        BY <1>2, <2>1, <2>2 DEF Position, SameScan
      <3> QED
        BY <1>1, <1>2, <2>1, <2>2, <3>1 DEF CursorsOk, SameScan
    <2>5. \A m \in inFlight : m.from = s => m.action \notin {"open", "next"} /\ m.id = t.id /\ t.id # 0
      BY <1>1, <2>1, <2>2, NothingUnderWay DEF SameScan
    <2>6. t.phase \in Waiting /\ t.phase \notin {"after", "pin"}
      BY <2>1 DEF Waiting
    <2> QED
      BY <2>1, <2>2, <2>3, <2>4, <2>5, <2>6, SendStep
  <1>7. CASE Paged(s)
    <2> DEFINE b == WithPage(r, r.reply.value)
               t == Sending(b, "after")
    <2>1. /\ ReaderFields(b) /\ b.n = r.n /\ b.given = r.given /\ b.complete = r.complete
          /\ b.snapshot = r.snapshot /\ b.id = r.id /\ b.page = r.reply.value
      BY <1>1, OneFieldIs DEF ReaderFields
    <2>2. ReaderFields(t) /\ t.phase = "after" /\ t.n = b.n + 1 /\ t.reply = None /\ SameScan(b, t)
      BY <2>1, SendingIs
    <2>3. Send(s, t) /\ r.phase = "next" /\ r.reply.kind = "answer" /\ UNCHANGED <<cursors, nextId, dataset, lost>>
      BY <1>7 DEF Paged, Answered, WithPage, Server
    <2> HIDE DEF b, t
    <2>4. t.given = r.given /\ t.snapshot = r.snapshot /\ t.page = r.reply.value /\ t.id = r.id
      BY <2>1, <2>2 DEF SameScan
    <2>5. ReaderOk(s, t, nextId, dataset)
      BY <1>1, <2>1, <2>2, <2>3 DEF ReaderOk, SameScan, Waiting, Snapshotting
    <2>6. IsPage(s, t, t.page, dataset)
      BY <1>1, <2>3, <2>4 DEF RepliesOk, IsPage, NextRow
    <2>7. CursorsOk(s, t, cursors, nextId, lost)
      <3>1. Position(t) = Position(r)
        BY <2>2, <2>3, <2>4 DEF Position
      <3> QED
        BY <1>1, <1>2, <2>2, <2>3, <2>4, <3>1 DEF CursorsOk
    <2>8. \A m \in inFlight : m.from = s => m.action \notin {"open", "next"} /\ m.id = t.id /\ t.id # 0
      BY <1>1, <1>2, <2>3, <2>4, NothingUnderWay
    <2>9. t.phase \in Waiting /\ t.phase # "pin"
      BY <2>2 DEF Waiting, Snapshotting
    <2> QED
      BY <2>1, <2>2, <2>3, <2>5, <2>6, <2>7, <2>8, <2>9, SendStep
  <1>8. CASE CheckedAfter(s)
    <2>1. /\ r.phase = "after" /\ r.reply.kind = "answer" /\ r.reply.value = r.snapshot
          /\ UNCHANGED <<cursors, nextId, dataset, lost>>
      BY <1>8 DEF CheckedAfter, Answered, Agrees, Server
    <2>2. IsPage(s, r, r.page, r.snapshot) /\ r.id # 0 /\ r.snapshot \in 0 .. dataset
      BY <1>1, <2>1 DEF RepliesOk, ReaderOk
    <2>3. CASE r.page = <<>>
      <3> DEFINE b == WithComplete(r, TRUE)
      <3>1. Ended(s, b)
        BY <1>8, <2>3 DEF CheckedAfter, WithComplete
      <3>2. ReaderFields(b) /\ b.n = r.n /\ b.id = r.id /\ b.snapshot = r.snapshot /\ b.given = r.given
        BY <1>1, CompleteIs
      <3>3. Len(r.given) = RowsPerScan
        BY <2>2, <2>3 DEF IsPage, NextRow
      <3>4. r.phase \in Waiting \ {"close"}
        BY <2>1 DEF Waiting, Snapshotting
      <3> HIDE DEF b
      <3> QED
        BY <2>1, <2>2, <3>1, <3>2, <3>3, <3>4, EndStep
    <2>4. CASE r.page # <<>>
      <3> DEFINE b == Given(r)
                 t == Sending(b, "before")
                 k == Len(r.given)
      <3>1. /\ ReaderFields(b) /\ b.n = r.n /\ b.id = r.id /\ b.snapshot = r.snapshot /\ b.complete = r.complete
            /\ b.given = r.given \o r.page
        BY <1>1, GivenIs
      <3>2. ReaderFields(t) /\ t.phase = "before" /\ t.n = b.n + 1 /\ t.reply = None /\ SameScan(b, t)
        BY <3>1, SendingIs
      <3>3. Send(s, t)
        BY <1>8, <2>4 DEF CheckedAfter, Given
      <3> HIDE DEF b, t
      <3>4. k < RowsPerScan /\ r.page = <<Row(s, r.snapshot, k + 1)>> /\ Len(r.page) = 1
        <4>1. NextRow(s, r, r.page, r.snapshot)
          BY <2>2, <2>4 DEF IsPage
        <4>2. PICK e \in r.snapshot .. r.snapshot : r.page = <<Row(s, e, k + 1)>>
          BY <4>1 DEF NextRow
        <4>3. e = r.snapshot
          BY <2>2
        <4> QED
          BY <4>1, <4>2, <4>3 DEF NextRow
      <3>5. k \in 0 .. RowsPerScan /\ r.given = RowsTo(s, r.snapshot, k) /\ (r.complete => k = RowsPerScan)
        BY <1>1 DEF ReaderOk
      <3>6. Len(t.given) = k + 1 /\ t.given = RowsTo(s, t.snapshot, k + 1)
        <4> DEFINE g    == r.given
                   more == t.given
                   d    == r.snapshot
        <4>1. more = g \o <<Row(s, d, Len(g) + 1)>> /\ t.snapshot = d
          BY <3>1, <3>2, <3>4 DEF SameScan
        <4>2. Len(g) \in Nat /\ g = RowsTo(s, d, Len(g))
          BY <3>5
        <4> HIDE DEF g, more, d
        <4>3. Len(more) = Len(g) + 1 /\ more = RowsTo(s, d, Len(g) + 1)
          BY <4>1, <4>2, OneMoreRow
        <4> QED
          BY <4>1, <4>3 DEF g, more, d
      <3>7. t.n = r.n + 1 /\ t.id = r.id /\ t.snapshot = r.snapshot /\ t.complete = r.complete
        BY <3>1, <3>2 DEF SameScan
      <3> HIDE DEF k
      <3>8. k + 1 \in 0 .. RowsPerScan /\ ~r.complete
        BY <3>4, <3>5, WireAssumption
      <3>9. ReaderOk(s, t, nextId, dataset)
        BY <1>1, <2>2, <3>2, <3>6, <3>7, <3>8 DEF ReaderOk, Waiting, Snapshotting
      <3>10. CursorsOk(s, t, cursors, nextId, lost)
        <4>1. Position(t) = Position(r)
          BY <1>2, <2>1, <3>2, <3>4, <3>5, <3>6 DEF Position, k
        <4> QED
          BY <1>1, <1>2, <2>1, <2>2, <3>2, <3>7, <4>1 DEF CursorsOk
      <3>11. \A m \in inFlight : m.from = s => m.action \notin {"open", "next"} /\ m.id = t.id /\ t.id # 0
        BY <1>1, <2>1, <3>7, NothingUnderWay
      <3>12. t.phase \in Waiting /\ t.phase \notin {"after", "pin"}
        BY <3>2 DEF Waiting, Snapshotting
      <3> QED
        BY <2>1, <3>2, <3>3, <3>7, <3>9, <3>10, <3>11, <3>12, SendStep
    <2> QED
      BY <2>3, <2>4
  <1>9. CASE Refused(s)
    <2>1. /\ r.phase \in Waiting \ {"close"} /\ Ended(s, r) /\ UNCHANGED <<cursors, nextId, dataset, lost>>
          /\ r.phase = "open" => r.reply.kind = "error"
      BY <1>9 DEF Refused, Waiting, Snapshotting, Server
    <2>2. r.complete => Len(r.given) = RowsPerScan
      BY <1>1 DEF ReaderOk
    <2> HIDE DEF r
    <2> QED
      BY <1>1, <2>1, <2>2, EndStep DEF r
  <1>10. CASE GiveUp(s)
    <2>1. /\ r.phase \in Waiting \ {"close"} /\ Ended(s, r) /\ UNCHANGED <<cursors, nextId, dataset>>
          /\ lost' = IF r.phase = "open" THEN lost \cup {s} ELSE lost
      BY <1>10 DEF GiveUp, Server
    <2>2. r.complete => Len(r.given) = RowsPerScan
      BY <1>1 DEF ReaderOk
    <2>3. r.id # 0 => UNCHANGED lost
      BY <1>1, <2>1 DEF ReaderOk
    <2>4. lost \subseteq lost' /\ (\A u \in lost' : u \in lost \/ u = s) /\ (r.phase = "open" => s \in lost')
      BY <2>1
    <2> QED
      BY <1>1, <2>1, <2>2, <2>3, <2>4, EndStep
  <1>11. CASE Close(s)
    <2>1. r.phase = "before" /\ Ended(s, r) /\ UNCHANGED <<cursors, nextId, dataset, lost>>
      BY <1>11 DEF Close, Answered, Server
    <2>2. r.phase \in Waiting \ {"close"}
      BY <2>1 DEF Waiting, Snapshotting
    <2>3. r.complete => Len(r.given) = RowsPerScan
      BY <1>1 DEF ReaderOk
    <2> QED
      BY <1>1, <2>1, <2>2, <2>3, EndStep
  <1>12. CASE Closed(s)
    <2> DEFINE t == Over(r)
    <2>1. /\ r.phase = "close" /\ reader' = [reader EXCEPT ![s] = t] /\ inFlight' = inFlight
          /\ UNCHANGED <<cursors, nextId, dataset>>
          /\ lost' = IF r.reply.kind = "answer" THEN lost ELSE lost \cup {s}
      BY <1>12 DEF Closed, Settle, Over, Server
    <2>2. ReaderFields(t) /\ t.phase = "closed" /\ t.n = r.n /\ t.reply = None /\ SameScan(r, t)
      BY <1>1, OverIs
    <2> HIDE DEF t
    <2>3. s \notin lost' => Of(cursors, s) = {} /\ \A m \in inFlight : m.from = s => m.action # "open"
      BY <1>1, <2>1, NothingUnderWay DEF CursorsOk
    <2>4. lost \subseteq lost' /\ (\A u \in lost' : u \in lost \/ u = s) /\ (s \in lost => s \in lost')
      BY <2>1
    <2>5. ScanOk(s, t, inFlight, cursors, nextId, dataset, lost')
      BY <1>1, <2>2, <2>3, <2>4, OverKeeps
    <2> QED
      BY <2>1, <2>4, <2>5, ClientStep
  <1> QED
    BY <1>3, <1>4, <1>5, <1>6, <1>7, <1>8, <1>9, <1>10, <1>11, <1>12 DEF Read

-----------------------------------------------------------------------------
(* The endpoint                                                             *)

LEMMA ReplyKeeps ==
  ASSUME NEW s, NEW r, NEW q, NEW cs, NEW nx \in Nat, NEW d \in Nat, NEW gone,
         ReaderOk(s, r, nx, d), RequestsOk(s, r, q, cs, gone), \A m \in q : m.from = s => m.n # r.n,
         NEW a, NEW t, t = WithReply(r, a), RepliesOk(s, t, d), CursorsOk(s, t, cs, nx, gone)
  PROVE  ScanOk(s, t, q, cs, nx, d, gone)
PROOF
  <1>1. ReaderFields(t) /\ t.phase = r.phase /\ t.n = r.n /\ SameScan(r, t)
    BY OneFieldIs DEF ReaderOk, ReaderFields, SameScan
  <1>2. ReaderOk(s, t, nx, d)
    BY <1>1 DEF ReaderOk, SameScan
  <1>3. RequestsOk(s, t, q, cs, gone)
    <2>1. ASSUME NEW m \in q, m.from = s PROVE RequestOk(s, t, m, cs, gone)
      <3>1. RequestOk(s, r, m, cs, gone) /\ m.n # r.n
        BY <2>1 DEF RequestsOk
      <3>2. t.phase = r.phase /\ t.n = r.n /\ t.id = r.id
        BY <1>1 DEF SameScan
      <3> QED
        BY <3>1, <3>2 DEF RequestOk, IsCurrent
    <2> QED
      BY <2>1 DEF RequestsOk
  <1> QED
    BY <1>2, <1>3 DEF ScanOk

(* The endpoint has dealt with one request, if any, of one scan.            *)
LEMMA EndpointStep ==
  ASSUME WireInvariant, NEW s \in Scans, NEW t, reader' = [reader EXCEPT ![s] = t],
         inFlight' \subseteq inFlight, nextId' \in Nat, nextId <= nextId', dataset' = dataset, lost' = lost,
         cursors' \in [Ids' -> [of : Scans, at : Nat]], Ids' \subseteq 1 .. nextId' - 1,
         \A u \in Scans \ {s} : Fewer(u, cursors, cursors', nextId),
         ScanOk(s, t, inFlight', cursors', nextId', dataset, lost)
  PROVE  WireInvariant'
PROOF
  <1>1. reader' = [u \in Scans |-> IF u = s THEN t ELSE reader[u]]
    BY DEF WireInvariant, WireTypes
  <1>2. WireTypes'
    <2>1. reader' = [u \in Scans |-> reader'[u]]
      BY <1>1
    <2>2. \A m \in inFlight' : m.from \in Scans /\ m.action \in {"open", "next", "close"}
      BY DEF WireInvariant, WireTypes
    <2>3. nextId' \in Nat \ {0} /\ dataset' \in Nat
      BY DEF WireInvariant, WireTypes
    <2> QED
      BY <2>1, <2>2, <2>3 DEF WireTypes, Ids
  <1>3. ASSUME NEW u \in Scans
        PROVE  ScanOk(u, reader'[u], inFlight', cursors', nextId', dataset', lost')
    <2>1. CASE u = s
      BY <1>1, <2>1
    <2>2. CASE u # s
      <3>1. reader'[u] = reader[u] /\ ScanOk(u, reader[u], inFlight, cursors, nextId, dataset, lost)
        BY <1>1, <2>2 DEF WireInvariant
      <3>2. \A m \in inFlight' : m.from = u => m \in inFlight
        OBVIOUS
      <3>3. Fewer(u, cursors, cursors', nextId)
        BY <2>2
      <3>4. nextId \in Nat /\ dataset \in Nat /\ dataset <= dataset
        BY DEF WireInvariant, WireTypes
      <3>5. ScanOk(u, reader[u], inFlight', cursors', nextId', dataset, lost)
        BY <3>1, <3>2, <3>3, <3>4, LessKeeps
      <3> QED
        BY <3>1, <3>5
    <2> QED
      BY <2>1, <2>2
  <1> QED
    BY <1>2, <1>3 DEF WireInvariant

LEMMA SnapshotStep ==
  ASSUME WireInvariant, NEW s \in Scans, DispatchSnapshot(s)
  PROVE  WireInvariant'
PROOF
  <1> DEFINE r == reader[s]
             t == WithReply(r, Answer(dataset))
  <1>1. /\ ReaderOk(s, r, nextId, dataset) /\ RepliesOk(s, r, dataset) /\ CursorsOk(s, r, cursors, nextId, lost)
        /\ RequestsOk(s, r, inFlight, cursors, lost) /\ nextId \in Nat /\ dataset \in Nat
    BY DEF WireInvariant, WireTypes, ScanOk
  <1>2. r.phase \in Snapshotting /\ r.reply = None /\ UNCHANGED <<cursors, nextId, dataset, inFlight, lost>>
    BY DEF DispatchSnapshot, Server
  <1>3. reader' = [reader EXCEPT ![s] = t]
    BY DEF DispatchSnapshot, WithReply
  <1>4. /\ t.phase = r.phase /\ t.n = r.n /\ SameScan(r, t) /\ t.reply.kind = "answer" /\ t.reply.value = dataset
    BY <1>1, OneFieldIs DEF ReaderOk, SameScan, Answer
  <1>5. RepliesOk(s, t, dataset)
    <2>1. r.phase = "after" => IsPage(s, t, t.page, dataset)
      BY <1>1, <1>2, <1>4 DEF RepliesOk, None, IsPage, NextRow, SameScan
    <2> QED
      BY <1>1, <1>2, <1>4, <2>1 DEF RepliesOk, Snapshotting
  <1>6. CursorsOk(s, t, cursors, nextId, lost)
    <2>1. Position(t) = Position(r)
      BY <1>2, <1>4 DEF Position, SameScan, Snapshotting
    <2> QED
      BY <1>1, <1>2, <1>4, <2>1 DEF CursorsOk, SameScan, Snapshotting, None
  <1>7. \A m \in inFlight : m.from = s => m.n # r.n
    <2> SUFFICES ASSUME NEW m \in inFlight, m.from = s, m.n = r.n PROVE FALSE
      OBVIOUS
    <2>1. m.action = r.phase
      BY <1>1, <1>2 DEF RequestsOk, RequestOk, IsCurrent, Waiting
    <2>2. m.action \in {"open", "next", "close"}
      BY DEF WireInvariant, WireTypes
    <2> QED
      BY <1>2, <2>1, <2>2 DEF Snapshotting
  <1>8. ScanOk(s, t, inFlight, cursors, nextId, dataset, lost)
    BY <1>1, <1>5, <1>6, <1>7, ReplyKeeps
  <1> HIDE DEF t
  <1>9. \A u \in Scans \ {s} : Fewer(u, cursors, cursors', nextId)
    BY <1>2 DEF Fewer
  <1>10. cursors' \in [Ids' -> [of : Scans, at : Nat]] /\ Ids' \subseteq 1 .. nextId' - 1
    BY <1>2 DEF WireInvariant, WireTypes, Ids
  <1>11. ScanOk(s, t, inFlight', cursors', nextId', dataset, lost)
    BY <1>2, <1>8
  <1>12. inFlight' \subseteq inFlight /\ nextId' \in Nat /\ nextId <= nextId' /\ dataset' = dataset /\ lost' = lost
    BY <1>1, <1>2
  <1> QED
    BY <1>3, <1>9, <1>10, <1>11, <1>12, EndpointStep

LEMMA ReplyIs ==
  ASSUME WireInvariant, NEW m \in inFlight, NEW a, Reply(m, a)
  PROVE  LET r == reader[m.from]
         IN  reader' = [reader EXCEPT ![m.from] =
                          IF r.n = m.n /\ r.phase \in Waiting THEN WithReply(r, a) ELSE r]
PROOF
  <1> DEFINE s == m.from
             r == reader[s]
             t == IF r.n = m.n /\ r.phase \in Waiting THEN WithReply(r, a) ELSE r
  <1>1. s \in Scans /\ reader = [u \in Scans |-> reader[u]]
    BY DEF WireInvariant, WireTypes
  <1>2. CASE r.n = m.n /\ r.phase \in Waiting
    BY <1>2 DEF Reply, WithReply
  <1>3. CASE ~(r.n = m.n /\ r.phase \in Waiting)
    <2>1. reader' = reader /\ t = r
      BY <1>3 DEF Reply
    <2> QED
      BY <1>1, <2>1
  <1> QED
    BY <1>2, <1>3

(* An open that is the only request of its scan: it is answered, if the     *)
(* scan still waits, and else it leaves a cursor of a scan that is lost.    *)
LEMMA OpenIsAlone ==
  ASSUME NEW s, NEW r, NEW q, NEW cs, NEW nx \in Nat, NEW d \in Nat, NEW gone,
         ScanOk(s, r, q, cs, nx, d, gone), NEW m \in q, m.from = s, m.action = "open"
  PROVE  /\ \A k \in q \ {m} : k.from # s
         /\ Of(cs, s) = {} /\ r.id = 0
         /\ \/ r.phase = "open" /\ r.n = m.n /\ r.phase \in Waiting
            \/ r.phase = "closed" /\ s \in gone /\ r.phase \notin Waiting
PROOF
  <1>1. RequestOk(s, r, m, cs, gone)
    BY DEF ScanOk, RequestsOk
  <1>2. Of(cs, s) = {} /\ r.id = 0
    BY <1>1 DEF RequestOk
  <1>3. \/ r.phase = "open" /\ r.n = m.n /\ r.phase \in Waiting
        \/ r.phase = "closed" /\ s \in gone /\ r.phase \notin Waiting
    BY <1>1 DEF RequestOk, IsCurrent, Waiting, Snapshotting
  <1>4. ASSUME NEW k \in q, k # m, k.from = s PROVE FALSE
    <2>1. RequestOk(s, r, k, cs, gone)
      BY <1>4 DEF ScanOk, RequestsOk
    <2>2. k.action = "open"
      BY <1>2, <2>1 DEF RequestOk
    <2> QED
      BY <1>4, <2>2 DEF ScanOk, RequestsOk
  <1> QED
    BY <1>2, <1>3, <1>4

LEMMA OpenKeeps ==
  ASSUME NEW s, NEW r, NEW q, NEW cs, NEW nx \in Nat, NEW d \in Nat, NEW gone,
         ScanOk(s, r, q, cs, nx, d, gone), NEW m \in q, m.from = s, m.action = "open",
         DOMAIN cs \subseteq 1 .. nx - 1, nx # 0,
         NEW ds, DOMAIN ds = DOMAIN cs \cup {nx}, \A i \in DOMAIN cs : ds[i] = cs[i],
         ds[nx] = [of |-> s, at |-> 0],
         NEW t, t = IF r.n = m.n /\ r.phase \in Waiting THEN WithReply(r, Answer(nx)) ELSE r
  PROVE  ScanOk(s, t, q \ {m}, ds, nx + 1, d, gone)
PROOF
  <1>1. /\ \A k \in q \ {m} : k.from # s
        /\ Of(cs, s) = {} /\ r.id = 0
        /\ \/ r.phase = "open" /\ r.n = m.n /\ r.phase \in Waiting
           \/ r.phase = "closed" /\ s \in gone /\ r.phase \notin Waiting
    BY OpenIsAlone
  <1>2. Of(ds, s) = {nx} /\ IsOnly(ds, s, nx) /\ ds[nx].at = 0
    BY <1>1 DEF Of, IsOnly
  <1>3. RequestsOk(s, r, q \ {m}, ds, gone) /\ RequestsOk(s, t, q \ {m}, ds, gone)
    BY <1>1 DEF RequestsOk
  <1>4. ReaderOk(s, r, nx + 1, d) /\ RepliesOk(s, r, d)
    BY DEF ScanOk, ReaderOk
  <1>5. CASE r.phase = "open" /\ r.n = m.n /\ r.phase \in Waiting
    <2>1. t = WithReply(r, Answer(nx))
      BY <1>5
    <2>2. t.phase = "open" /\ t.n = r.n /\ SameScan(r, t) /\ t.reply.kind = "answer" /\ t.reply.value = nx
      BY <1>4, <1>5, <2>1, OneFieldIs DEF ReaderOk, SameScan, Answer
    <2>3. RepliesOk(s, t, d)
      BY <2>2 DEF RepliesOk, Snapshotting
    <2>4. CursorsOk(s, t, ds, nx + 1, gone)
      <3>1. Position(t) = 0 /\ t.id = 0
        <4>1. Len(t.given) = 0 /\ t.id = 0
          BY <1>1, <1>4, <1>5, <2>2 DEF SameScan, ReaderOk
        <4>2. Position(t) = Len(t.given) + 0
          BY <2>2 DEF Position
        <4> QED
          BY <4>1, <4>2
      <3> QED
        BY <1>2, <2>2, <3>1 DEF CursorsOk
    <2>5. \A k \in q \ {m} : k.from = s => k.n # r.n
      BY <1>1
    <2>6. nx + 1 \in Nat
      OBVIOUS
    <2> QED
      BY <1>3, <1>4, <2>1, <2>3, <2>4, <2>5, <2>6, ReplyKeeps
  <1>6. CASE r.phase = "closed" /\ s \in gone /\ r.phase \notin Waiting
    <2>1. t = r
      BY <1>6
    <2>2. CursorsOk(s, r, ds, nx + 1, gone)
      BY <1>1, <1>2, <1>6 DEF CursorsOk
    <2> QED
      BY <1>3, <1>4, <2>1, <2>2 DEF ScanOk
  <1> QED
    BY <1>1, <1>5, <1>6

LEMMA RefusalKeeps ==
  ASSUME NEW s, NEW r, NEW q, NEW cs, NEW nx \in Nat, NEW d \in Nat, NEW gone,
         ScanOk(s, r, q, cs, nx, d, gone), NEW m \in q, m.from = s, m.action = "open",
         NEW t, t = IF r.n = m.n /\ r.phase \in Waiting THEN WithReply(r, Error) ELSE r
  PROVE  ScanOk(s, t, q \ {m}, cs, nx, d, gone)
PROOF
  <1>1. /\ \A k \in q \ {m} : k.from # s
        /\ Of(cs, s) = {} /\ r.id = 0
        /\ \/ r.phase = "open" /\ r.n = m.n /\ r.phase \in Waiting
           \/ r.phase = "closed" /\ s \in gone /\ r.phase \notin Waiting
    BY OpenIsAlone
  <1>2. RequestsOk(s, r, q \ {m}, cs, gone) /\ RequestsOk(s, t, q \ {m}, cs, gone)
    BY <1>1 DEF RequestsOk
  <1>3. ReaderOk(s, r, nx, d) /\ RepliesOk(s, r, d) /\ CursorsOk(s, r, cs, nx, gone)
    BY DEF ScanOk
  <1>4. CASE r.phase = "open" /\ r.n = m.n /\ r.phase \in Waiting
    <2>1. t = WithReply(r, Error)
      BY <1>4
    <2>2. t.phase = "open" /\ t.n = r.n /\ SameScan(r, t) /\ t.reply.kind = "error"
      BY <1>3, <1>4, <2>1, OneFieldIs DEF ReaderOk, SameScan, Error
    <2>3. RepliesOk(s, t, d) /\ CursorsOk(s, t, cs, nx, gone)
      BY <1>1, <2>2 DEF RepliesOk, CursorsOk, SameScan, Snapshotting
    <2>4. \A k \in q \ {m} : k.from = s => k.n # r.n
      BY <1>1
    <2> QED
      BY <1>2, <1>3, <2>1, <2>3, <2>4, ReplyKeeps
  <1>5. CASE r.phase = "closed" /\ s \in gone /\ r.phase \notin Waiting
    BY <1>2, <1>3, <1>5 DEF ScanOk
  <1> QED
    BY <1>1, <1>4, <1>5

LEMMA NextIs ==
  ASSUME NEW s, NEW r, NEW q, NEW cs, NEW nx \in Nat, NEW d \in Nat, NEW gone,
         ScanOk(s, r, q, cs, nx, d, gone), NEW m \in q, m.from = s, m.action = "next"
  PROVE  /\ m.id = r.id /\ r.id # 0 /\ IsOnly(cs, s, r.id)
         /\ \/ /\ r.phase = "next" /\ r.n = m.n /\ r.phase \in Waiting /\ r.reply = None
               /\ \A k \in q \ {m} : k.from = s => k.n # r.n
            \/ r.phase \in {"close", "closed"} /\ ~(r.n = m.n /\ r.phase \in Waiting)
PROOF
  <1>1. RequestOk(s, r, m, cs, gone) /\ RequestsOk(s, r, q, cs, gone) /\ CursorsOk(s, r, cs, nx, gone)
    BY DEF ScanOk, RequestsOk
  <1>2. m.id = r.id /\ r.id # 0
    BY <1>1 DEF RequestOk
  <1>3. IsOnly(cs, s, r.id)
    BY <1>1, <1>2 DEF CursorsOk
  <1>4. CASE IsCurrent(r, m)
    <2>1. r.phase = "next" /\ r.n = m.n /\ r.phase \in Waiting /\ r.reply = None
      BY <1>4 DEF IsCurrent, Waiting
    <2>2. \A k \in q \ {m} : k.from = s => k.n # r.n
      BY <1>1, <2>1 DEF RequestsOk
    <2> QED
      BY <1>2, <1>3, <2>1, <2>2
  <1>5. CASE ~IsCurrent(r, m)
    BY <1>1, <1>2, <1>3, <1>5 DEF RequestOk
  <1> QED
    BY <1>4, <1>5

(* The endpoint moves the cursor on, whoever still waits for the row.       *)
LEMMA PageKeeps ==
  ASSUME NEW s, NEW r, NEW q, NEW cs, NEW nx \in Nat, NEW d \in Nat, NEW gone,
         ScanOk(s, r, q, cs, nx, d, gone), NEW m \in q, m.from = s, m.action = "next",
         m.id \in DOMAIN cs, cs[m.id].at \in Nat, cs[m.id].at < RowsPerScan,
         NEW ds, DOMAIN ds = DOMAIN cs, \A i \in DOMAIN cs : i # m.id => ds[i] = cs[i],
         ds[m.id].of = cs[m.id].of, ds[m.id].at = cs[m.id].at + 1,
         NEW page, page = <<[of |-> cs[m.id].of, revision |-> d, row |-> cs[m.id].at + 1]>>,
         NEW t, t = IF r.n = m.n /\ r.phase \in Waiting THEN WithReply(r, Answer(page)) ELSE r
  PROVE  ScanOk(s, t, q \ {m}, ds, nx, d, gone)
PROOF
  <1>1. /\ m.id = r.id /\ r.id # 0 /\ IsOnly(cs, s, r.id)
        /\ \/ /\ r.phase = "next" /\ r.n = m.n /\ r.phase \in Waiting /\ r.reply = None
              /\ \A k \in q \ {m} : k.from = s => k.n # r.n
           \/ r.phase \in {"close", "closed"} /\ ~(r.n = m.n /\ r.phase \in Waiting)
    BY NextIs
  <1>2. /\ ReaderOk(s, r, nx, d) /\ RepliesOk(s, r, d) /\ CursorsOk(s, r, cs, nx, gone)
        /\ RequestsOk(s, r, q, cs, gone)
    BY DEF ScanOk
  <1>3. Of(ds, s) = Of(cs, s) /\ IsOnly(ds, s, r.id) /\ m.id \in Of(cs, s) /\ cs[m.id].of = s
    BY <1>1 DEF Of, IsOnly
  <1>4. RequestsOk(s, r, q \ {m}, ds, gone)
    <2>1. \A k : RequestOk(s, r, k, cs, gone) => RequestOk(s, r, k, ds, gone)
      BY <1>3 DEF RequestOk
    <2> QED
      BY <1>2, <2>1 DEF RequestsOk
  <1>5. CASE r.phase = "next" /\ r.n = m.n /\ r.phase \in Waiting /\ r.reply = None
    <2> DEFINE k == Len(r.given)
    <2>1. t = WithReply(r, Answer(page))
      BY <1>5
    <2>2. t.phase = "next" /\ t.n = r.n /\ SameScan(r, t) /\ t.reply.kind = "answer" /\ t.reply.value = page
      BY <1>2, <1>5, <2>1, OneFieldIs DEF ReaderOk, SameScan, Answer
    <2>3. k \in Nat /\ Position(r) = k + 0
      <3>1. k \in Nat
        BY <1>2 DEF ReaderOk
      <3>2. None.kind # "answer"
        BY DEF None
      <3> QED
        BY <1>5, <3>1, <3>2 DEF Position
    <2>4. cs[m.id].at = k
      <3>1. None.kind # "error"
        BY DEF None
      <3>2. cs[m.id].at = Position(r)
        BY <1>2, <1>3, <1>5, <3>1 DEF CursorsOk
      <3> QED
        BY <2>3, <3>2
    <2>5. page = <<Row(s, d, k + 1)>> /\ Len(page) = 1
      BY <1>3, <2>4 DEF Row
    <2>6. Position(t) = k + 1
      <3>1. Position(t) = Len(t.given) + Len(t.reply.value)
        BY <2>2 DEF Position
      <3> QED
        BY <2>2, <2>5, <3>1 DEF SameScan
    <2>7. RepliesOk(s, t, d)
      <3>1. r.snapshot \in 0 .. d /\ d \in r.snapshot .. d
        BY <1>2 DEF ReaderOk
      <3>2. t.given = r.given /\ t.snapshot = r.snapshot
        BY <2>2 DEF SameScan
      <3>3. IsPage(s, t, page, d)
        BY <2>4, <2>5, <3>1, <3>2 DEF IsPage, NextRow
      <3> QED
        BY <2>2, <3>3 DEF RepliesOk, Snapshotting
    <2>8. CursorsOk(s, t, ds, nx, gone)
      <3>1. \A i \in Of(ds, s) : i = m.id
        BY <1>1, <1>3 DEF IsOnly, Of
      <3>2. \A i \in Of(ds, s) : ds[i].at = Position(t)
        BY <2>4, <2>6, <3>1
      <3>3. t.id = r.id
        BY <2>2 DEF SameScan
      <3> QED
        BY <1>3, <2>2, <3>1, <3>2, <3>3 DEF CursorsOk
    <2> QED
      BY <1>1, <1>2, <1>4, <1>5, <2>1, <2>7, <2>8, ReplyKeeps
  <1>6. CASE r.phase \in {"close", "closed"} /\ ~(r.n = m.n /\ r.phase \in Waiting)
    <2>1. t = r
      BY <1>6
    <2>2. CursorsOk(s, r, ds, nx, gone)
      BY <1>2, <1>3, <1>6 DEF CursorsOk
    <2> QED
      BY <1>2, <1>4, <2>1, <2>2 DEF ScanOk
  <1> QED
    BY <1>1, <1>5, <1>6

(* There are no more rows, or no cursor.                                    *)
LEMMA EmptyKeeps ==
  ASSUME NEW s, NEW r, NEW q, NEW cs, NEW nx \in Nat, NEW d \in Nat, NEW gone,
         ScanOk(s, r, q, cs, nx, d, gone), NEW m \in q, m.from = s, m.action = "next",
         NEW a, \/ a = Answer(<<>>) /\ m.id \in DOMAIN cs /\ ~(cs[m.id].at < RowsPerScan)
                \/ a = Error,
         NEW t, t = IF r.n = m.n /\ r.phase \in Waiting THEN WithReply(r, a) ELSE r
  PROVE  ScanOk(s, t, q \ {m}, cs, nx, d, gone)
PROOF
  <1>1. /\ m.id = r.id /\ r.id # 0 /\ IsOnly(cs, s, r.id)
        /\ \/ /\ r.phase = "next" /\ r.n = m.n /\ r.phase \in Waiting /\ r.reply = None
              /\ \A k \in q \ {m} : k.from = s => k.n # r.n
           \/ r.phase \in {"close", "closed"} /\ ~(r.n = m.n /\ r.phase \in Waiting)
    BY NextIs
  <1>2. /\ ReaderOk(s, r, nx, d) /\ RepliesOk(s, r, d) /\ CursorsOk(s, r, cs, nx, gone)
        /\ RequestsOk(s, r, q \ {m}, cs, gone)
    BY DEF ScanOk, RequestsOk
  <1>3. CASE r.phase = "next" /\ r.n = m.n /\ r.phase \in Waiting /\ r.reply = None
    <2>1. t = WithReply(r, a)
      BY <1>3
    <2>2. t.phase = "next" /\ t.n = r.n /\ SameScan(r, t) /\ t.reply = a
      BY <1>2, <1>3, <2>1, OneFieldIs DEF ReaderOk, SameScan
    <2>3. CASE a = Error
      <3>1. t.reply.kind = "error"
        BY <2>2, <2>3 DEF Error
      <3>2. RepliesOk(s, t, d)
        BY <2>2, <3>1 DEF RepliesOk, Snapshotting
      <3>3. CursorsOk(s, t, cs, nx, gone)
        BY <1>1, <1>2, <2>2, <3>1 DEF CursorsOk, SameScan
      <3> QED
        BY <1>1, <1>2, <1>3, <2>1, <3>2, <3>3, ReplyKeeps
    <2>4. CASE a = Answer(<<>>) /\ m.id \in DOMAIN cs /\ ~(cs[m.id].at < RowsPerScan)
      <3>1. t.reply.kind = "answer" /\ t.reply.value = <<>>
        BY <2>2, <2>4 DEF Answer
      <3>2. Len(r.given) \in 0 .. RowsPerScan /\ None.kind = "none" /\ RowsPerScan \in Nat
        BY <1>2, WireAssumption DEF ReaderOk, None
      <3>3. Position(r) = Len(r.given) + 0
        BY <1>3, <3>2 DEF Position
      <3>4. Position(t) = Len(r.given) + 0
        <4>1. Position(t) = Len(t.given) + Len(t.reply.value)
          BY <2>2, <3>1 DEF Position
        <4> QED
          BY <2>2, <3>1, <4>1 DEF SameScan
      <3>5. cs[m.id].at = Position(r)
        BY <1>1, <1>2, <1>3, <2>4, <3>2 DEF CursorsOk, Of, IsOnly
      <3>6. Len(r.given) = RowsPerScan
        BY <2>4, <3>2, <3>3, <3>5
      <3>7. RepliesOk(s, t, d)
        <4>1. t.given = r.given
          BY <2>2 DEF SameScan
        <4>2. IsPage(s, t, <<>>, d)
          BY <3>6, <4>1 DEF IsPage
        <4> QED
          BY <2>2, <3>1, <4>2 DEF RepliesOk, Snapshotting
      <3>8. CursorsOk(s, t, cs, nx, gone)
        BY <1>1, <1>2, <1>3, <2>2, <3>1, <3>2, <3>3, <3>4 DEF CursorsOk, SameScan
      <3> QED
        BY <1>1, <1>2, <1>3, <2>1, <3>7, <3>8, ReplyKeeps
    <2> QED
      BY <2>3, <2>4
  <1>4. CASE r.phase \in {"close", "closed"} /\ ~(r.n = m.n /\ r.phase \in Waiting)
    <2>1. t = r
      BY <1>4
    <2> QED
      BY <1>2, <2>1 DEF ScanOk
  <1> QED
    BY <1>1, <1>3, <1>4

LEMMA CloseKeeps ==
  ASSUME NEW s, NEW r, NEW q, NEW cs, NEW nx \in Nat, NEW d \in Nat, NEW gone,
         ScanOk(s, r, q, cs, nx, d, gone), NEW m \in q, m.from = s, m.action = "close",
         NEW ds, DOMAIN ds = DOMAIN cs \ {m.id}, \A i \in DOMAIN ds : ds[i] = cs[i],
         NEW a, a.kind = "answer",
         NEW t, t = IF r.n = m.n /\ r.phase \in Waiting THEN WithReply(r, a) ELSE r
  PROVE  ScanOk(s, t, q \ {m}, ds, nx, d, gone)
PROOF
  <1>1. ScanOk(s, r, q \ {m}, ds, nx, d, gone)
    <2>1. Fewer(s, cs, ds, nx)
      BY DEF Fewer, Of
    <2>2. \A k \in q \ {m} : k.from = s => k \in q
      OBVIOUS
    <2>3. nx <= nx /\ d <= d
      OBVIOUS
    <2> QED
      BY <2>1, <2>2, <2>3, LessKeeps
  <1>2. CASE ~(r.n = m.n /\ r.phase \in Waiting)
    BY <1>1, <1>2
  <1>3. CASE r.n = m.n /\ r.phase \in Waiting
    <2>1. RequestOk(s, r, m, cs, gone) /\ CursorsOk(s, r, cs, nx, gone)
      BY DEF ScanOk, RequestsOk
    <2>2. r.phase = "close" /\ m.id = r.id /\ IsOnly(cs, s, m.id)
      BY <1>3, <2>1 DEF RequestOk, IsCurrent, CursorsOk
    <2>3. \A k \in q \ {m} : k.from = s => k.n # r.n
      BY <1>3 DEF ScanOk, RequestsOk
    <2>4. /\ ReaderOk(s, r, nx, d) /\ RepliesOk(s, r, d) /\ CursorsOk(s, r, ds, nx, gone)
          /\ RequestsOk(s, r, q \ {m}, ds, gone)
      BY <1>1 DEF ScanOk
    <2>5. t = WithReply(r, a)
      BY <1>3
    <2>6. t.phase = "close" /\ t.n = r.n /\ SameScan(r, t) /\ t.reply = a
      BY <2>2, <2>4, <2>5, OneFieldIs DEF ReaderOk, SameScan
    <2>7. RepliesOk(s, t, d)
      BY <2>6 DEF RepliesOk, Snapshotting
    <2>8. Of(ds, s) = {}
      BY <2>2 DEF Of, IsOnly
    <2>9. CursorsOk(s, t, ds, nx, gone)
      BY <2>4, <2>6, <2>8 DEF CursorsOk, SameScan
    <2> QED
      BY <2>3, <2>4, <2>5, <2>7, <2>9, ReplyKeeps
  <1> QED
    BY <1>2, <1>3

LEMMA DispatchStep ==
  ASSUME WireInvariant, NEW m \in inFlight, Dispatch(m)
  PROVE  WireInvariant'
PROOF
  <1> DEFINE s == m.from
             r == reader[s]
             Answering(a) == IF r.n = m.n /\ r.phase \in Waiting THEN WithReply(r, a) ELSE r
  <1>1. /\ s \in Scans /\ ScanOk(s, r, inFlight, cursors, nextId, dataset, lost)
        /\ nextId \in Nat \ {0} /\ dataset \in Nat
        /\ cursors \in [Ids -> [of : Scans, at : Nat]] /\ Ids \subseteq 1 .. nextId - 1
        /\ Ids = DOMAIN cursors /\ Ids' = DOMAIN cursors'
    BY DEF WireInvariant, WireTypes, Ids
  <1>2. inFlight' = inFlight \ {m} /\ dataset' = dataset /\ lost' = lost
    BY DEF Dispatch, DispatchOpen, DispatchNext, DispatchClose, Received
  <1>3. ASSUME NEW a, Reply(m, a), nextId' \in Nat, nextId <= nextId',
               cursors' \in [Ids' -> [of : Scans, at : Nat]], Ids' \subseteq 1 .. nextId' - 1,
               \A u \in Scans \ {s} : Fewer(u, cursors, cursors', nextId),
               ScanOk(s, Answering(a), inFlight \ {m}, cursors', nextId', dataset, lost)
        PROVE  WireInvariant'
    <2> DEFINE t == Answering(a)
    <2>1. reader' = [reader EXCEPT ![s] = t]
      BY <1>3, ReplyIs
    <2>2. inFlight' \subseteq inFlight /\ ScanOk(s, t, inFlight', cursors', nextId', dataset, lost)
      BY <1>2, <1>3
    <2> HIDE DEF t
    <2> QED
      BY <1>1, <1>2, <1>3, <2>1, <2>2, EndpointStep
  <1>4. ASSUME NEW a, Reply(m, a), UNCHANGED <<cursors, nextId>>,
               ScanOk(s, Answering(a), inFlight \ {m}, cursors, nextId, dataset, lost)
        PROVE  WireInvariant'
    <2> HIDE DEF Answering
    <2>1. \A u \in Scans \ {s} : Fewer(u, cursors, cursors', nextId)
      BY <1>4 DEF Fewer
    <2> QED
      BY <1>1, <1>3, <1>4, <2>1
  <1>5. CASE DispatchOpen(m) /\ dataset = m.snapshot /\ HasRoom
    <2> DEFINE a == Answer(nextId)
    <2>1. /\ m.action = "open" /\ cursors' = With(nextId, [of |-> s, at |-> 0])
          /\ nextId' = nextId + 1 /\ Reply(m, a)
      BY <1>5 DEF DispatchOpen, NewId
    <2>2. cursors' = [i \in Ids \cup {nextId} |-> IF i = nextId THEN [of |-> s, at |-> 0] ELSE cursors[i]]
      BY <2>1 DEF With
    <2>3. nextId \notin Ids
      BY <1>1
    <2>4. /\ DOMAIN cursors' = DOMAIN cursors \cup {nextId} /\ \A i \in DOMAIN cursors : cursors'[i] = cursors[i]
          /\ cursors'[nextId] = [of |-> s, at |-> 0]
      BY <1>1, <2>2, <2>3
    <2>5. cursors' \in [Ids' -> [of : Scans, at : Nat]] /\ Ids' \subseteq 1 .. nextId' - 1
      BY <1>1, <2>1, <2>2, <2>4
    <2>6. \A u \in Scans \ {s} : Fewer(u, cursors, cursors', nextId)
      BY <1>1, <2>4 DEF Fewer, Of
    <2>7. ScanOk(s, Answering(a), inFlight \ {m}, cursors', nextId', dataset, lost)
      <3> DEFINE t == Answering(a)
      <3>1. t = IF r.n = m.n /\ r.phase \in Waiting THEN WithReply(r, Answer(nextId)) ELSE r
        OBVIOUS
      <3>2. /\ DOMAIN cursors \subseteq 1 .. nextId - 1 /\ nextId # 0 /\ nextId \in Nat /\ dataset \in Nat
            /\ m.from = s /\ m.action = "open"
        BY <1>1, <2>1
      <3>3. ScanOk(s, r, inFlight, cursors, nextId, dataset, lost)
        BY <1>1
      <3> HIDE DEF t, r, s
      <3>4. ScanOk(s, t, inFlight \ {m}, cursors', nextId + 1, dataset, lost)
        BY <2>4, <3>1, <3>2, <3>3, OpenKeeps
      <3> QED
        BY <2>1, <3>4 DEF t
    <2> HIDE DEF a, Answering
    <2> QED
      BY <1>1, <1>3, <2>1, <2>5, <2>6, <2>7
  <1>6. CASE DispatchOpen(m) /\ ~(dataset = m.snapshot /\ HasRoom)
    <2>1. m.action = "open" /\ Reply(m, Error) /\ UNCHANGED <<cursors, nextId>>
      BY <1>6 DEF DispatchOpen
    <2>2. ScanOk(s, Answering(Error), inFlight \ {m}, cursors, nextId, dataset, lost)
      BY <1>1, <2>1, RefusalKeeps
    <2> HIDE DEF Answering
    <2> QED
      BY <1>4, <2>1, <2>2
  <1>7. CASE DispatchNext(m) /\ m.id \in Ids /\ cursors[m.id].at < RowsPerScan
    <2> DEFINE at   == cursors[m.id].at
               page == <<[of |-> cursors[m.id].of, revision |-> dataset, row |-> at + 1]>>
               a    == Answer(page)
    <2>1. m.action = "next" /\ Reply(m, a) /\ cursors' = [cursors EXCEPT ![m.id].at = at + 1] /\ nextId' = nextId
      BY <1>7 DEF DispatchNext
    <2>2. cursors[m.id] \in [of : Scans, at : Nat] /\ at \in Nat
      BY <1>1, <1>7
    <2>3. /\ DOMAIN cursors' = DOMAIN cursors
          /\ \A i \in DOMAIN cursors : i # m.id => cursors'[i] = cursors[i]
          /\ cursors'[m.id] \in [of : Scans, at : Nat]
          /\ cursors'[m.id].of = cursors[m.id].of /\ cursors'[m.id].at = at + 1
      BY <1>1, <1>7, <2>1, <2>2
    <2>4. cursors' \in [Ids' -> [of : Scans, at : Nat]] /\ Ids' \subseteq 1 .. nextId' - 1
      <3>1. cursors' = [i \in DOMAIN cursors |-> cursors'[i]]
        BY <1>1, <2>1
      <3>2. \A i \in DOMAIN cursors : cursors'[i] \in [of : Scans, at : Nat]
        BY <1>1, <2>3
      <3> QED
        BY <1>1, <2>1, <2>3, <3>1, <3>2
    <2>5. IsOnly(cursors, s, m.id)
      BY <1>1, <2>1, NextIs
    <2>6. \A u \in Scans \ {s} : Fewer(u, cursors, cursors', nextId)
      <3>1. \A i \in DOMAIN cursors : cursors'[i].of = cursors[i].of
        BY <2>3
      <3>2. \A u \in Scans \ {s} : \A i \in Of(cursors', u) : i \in Of(cursors, u) /\ i # m.id
        BY <1>7, <2>3, <2>5, <3>1 DEF Of, IsOnly, Ids
      <3>3. \A u \in Scans \ {s} : \A i \in Of(cursors', u) : cursors'[i].at = cursors[i].at
        BY <2>3, <3>2 DEF Of
      <3> QED
        BY <2>3, <3>1, <3>2, <3>3 DEF Fewer
    <2>7. ScanOk(s, Answering(a), inFlight \ {m}, cursors', nextId, dataset, lost)
      <3> DEFINE t == Answering(a)
      <3>1. t = IF r.n = m.n /\ r.phase \in Waiting THEN WithReply(r, Answer(page)) ELSE r
        OBVIOUS
      <3>2. page = <<[of |-> cursors[m.id].of, revision |-> dataset, row |-> cursors[m.id].at + 1]>>
        OBVIOUS
      <3> HIDE DEF t, page
      <3>3. ScanOk(s, t, inFlight \ {m}, cursors', nextId, dataset, lost)
        BY <1>1, <1>7, <2>1, <2>2, <2>3, <3>1, <3>2, PageKeeps
      <3> QED
        BY <3>3 DEF t
    <2>8. ScanOk(s, Answering(a), inFlight \ {m}, cursors', nextId', dataset, lost)
      BY <2>1, <2>7
    <2>9. nextId' \in Nat /\ nextId <= nextId'
      BY <1>1, <2>1
    <2> HIDE DEF a, Answering
    <2> QED
      BY <1>3, <2>1, <2>4, <2>6, <2>8, <2>9
  <1>8. CASE DispatchNext(m) /\ ~(m.id \in Ids /\ cursors[m.id].at < RowsPerScan)
    <2>1. m.action = "next" /\ UNCHANGED <<cursors, nextId>>
      BY <1>8 DEF DispatchNext
    <2>2. \E a : /\ Reply(m, a)
                 /\ \/ a = Answer(<<>>) /\ m.id \in Ids /\ ~(cursors[m.id].at < RowsPerScan)
                    \/ a = Error
      BY <1>8 DEF DispatchNext
    <2>3. PICK a : /\ Reply(m, a)
                   /\ \/ a = Answer(<<>>) /\ m.id \in Ids /\ ~(cursors[m.id].at < RowsPerScan)
                      \/ a = Error
      BY <2>2
    <2>4. ScanOk(s, Answering(a), inFlight \ {m}, cursors, nextId, dataset, lost)
      BY <1>1, <2>1, <2>3, EmptyKeeps
    <2> HIDE DEF Answering
    <2> QED
      BY <1>4, <2>1, <2>3, <2>4
  <1>9. CASE DispatchClose(m)
    <2> DEFINE a == Answer(TRUE)
    <2>1. /\ m.action = "close" /\ cursors' = [i \in Ids \ {m.id} |-> cursors[i]] /\ Reply(m, a)
          /\ nextId' = nextId
      BY <1>9 DEF DispatchClose
    <2>2. DOMAIN cursors' = DOMAIN cursors \ {m.id} /\ \A i \in DOMAIN cursors' : cursors'[i] = cursors[i]
      BY <1>1, <2>1
    <2>3. cursors' \in [Ids' -> [of : Scans, at : Nat]] /\ Ids' \subseteq 1 .. nextId' - 1
      BY <1>1, <2>1, <2>2
    <2>4. \A u \in Scans \ {s} : Fewer(u, cursors, cursors', nextId)
      BY <2>2 DEF Fewer, Of
    <2>5. a.kind = "answer"
      BY DEF Answer
    <2> HIDE DEF a
    <2>6. ScanOk(s, Answering(a), inFlight \ {m}, cursors', nextId, dataset, lost)
      BY <1>1, <2>1, <2>2, <2>5, CloseKeeps
    <2> HIDE DEF Answering
    <2> QED
      BY <1>1, <1>3, <2>1, <2>3, <2>4, <2>6
  <1> QED
    BY <1>5, <1>6, <1>7, <1>8, <1>9 DEF Dispatch

LEMMA ElsewhereStep ==
  ASSUME WireInvariant, Shutdown \/ ReviseEndpoint \/ UNCHANGED wireVars
  PROVE  WireInvariant'
PROOF
  <1>1. /\ UNCHANGED <<reader, inFlight, nextId, lost>>
        /\ dataset' \in Nat /\ dataset <= dataset'
        /\ UNCHANGED cursors \/ cursors' = [i \in {} |-> 0]
    BY DEF WireInvariant, WireTypes, Shutdown, ReviseEndpoint, wireVars
  <1>2. WireTypes'
    <2>1. cursors' \in [Ids' -> [of : Scans, at : Nat]] /\ Ids' \subseteq 1 .. nextId - 1
      BY <1>1 DEF WireInvariant, WireTypes, Ids
    <2> QED
      BY <1>1, <2>1 DEF WireInvariant, WireTypes
  <1>3. ASSUME NEW u \in Scans
        PROVE  ScanOk(u, reader[u], inFlight, cursors', nextId, dataset', lost)
    <2>1. ScanOk(u, reader[u], inFlight, cursors, nextId, dataset, lost)
      BY DEF WireInvariant
    <2>2. Fewer(u, cursors, cursors', nextId)
      BY <1>1 DEF Fewer, Of
    <2>3. nextId \in Nat /\ dataset \in Nat /\ nextId <= nextId
      BY DEF WireInvariant, WireTypes
    <2>4. (\A m \in inFlight : m.from = u => m \in inFlight) /\ (u \in lost => u \in lost)
      OBVIOUS
    <2> QED
      BY <1>1, <2>1, <2>2, <2>3, <2>4, LessKeeps
  <1> QED
    BY <1>1, <1>2, <1>3 DEF WireInvariant

LEMMA WireStarts == WireInit => WireInvariant
PROOF
  <1> SUFFICES ASSUME WireInit PROVE WireInvariant
    OBVIOUS
  <1>1. WireTypes
    BY DEF WireInit, WireTypes, Ids
  <1>2. ASSUME NEW s \in Scans PROVE ScanOk(s, reader[s], inFlight, cursors, nextId, dataset, lost)
    <2> DEFINE r == reader[s]
    <2>1. r = [phase |-> "idle", n |-> 0, reply |-> None, id |-> 0, snapshot |-> 0,
               page |-> <<>>, given |-> <<>>, complete |-> FALSE]
      BY DEF WireInit
    <2>2. inFlight = {} /\ DOMAIN cursors = {} /\ nextId = 1 /\ dataset = 1
      BY DEF WireInit
    <2> HIDE DEF r
    <2>3. ReaderOk(s, r, nextId, dataset)
      <3>1. r.given = RowsTo(s, r.snapshot, Len(r.given)) /\ Len(r.given) = 0
        BY <2>1 DEF RowsTo
      <3>2. ReaderFields(r)
        BY <2>1 DEF ReaderFields
      <3>3. /\ r.phase = "idle" /\ r.n = 0 /\ r.id = 0 /\ r.snapshot = 0 /\ ~r.complete
        BY <2>1
      <3> QED
        BY <2>2, <3>1, <3>2, <3>3, WireAssumption DEF ReaderOk
    <2>4. RepliesOk(s, r, dataset)
      BY <2>1 DEF RepliesOk, Snapshotting
    <2>5. CursorsOk(s, r, cursors, nextId, lost)
      BY <2>1, <2>2 DEF CursorsOk, Of
    <2>6. RequestsOk(s, r, inFlight, cursors, lost)
      BY <2>2 DEF RequestsOk
    <2>7. ScanOk(s, r, inFlight, cursors, nextId, dataset, lost)
      BY <2>3, <2>4, <2>5, <2>6 DEF ScanOk
    <2> QED
      BY <2>7 DEF r
  <1> QED
    BY <1>1, <1>2 DEF WireInvariant

LEMMA WireInvariantHolds == WireSpec => []WireInvariant
PROOF
  <1>1. WireInvariant /\ [WireNext]_wireVars => WireInvariant'
    BY ReadStep, SnapshotStep, DispatchStep, ElsewhereStep DEF WireNext
  <1> QED
    BY <1>1, WireStarts, PTL DEF WireSpec

-----------------------------------------------------------------------------
(* Whatever is lost, late or asked for in vain, a scan is given the rows of *)
(* its own cursor at its own revision, each once and in order, and all of   *)
(* them when it is complete (ProviderCursor._iterate, LoopbackEndpoint).    *)
THEOREM ScansReadTheirOwn == WireSpec => []RowsAreOwn
PROOF
  <1>1. WireInvariant => RowsAreOwn
    BY DEF WireInvariant, ScanOk, ReaderOk, RowsTo, Row, RowsAreOwn
  <1> QED
    BY <1>1, WireInvariantHolds, PTL

(* The endpoint never holds two cursors of a scan, and one whose scan is    *)
(* over only if an open or a close got lost (LoopbackEndpoint._dispatch,    *)
(* ProviderCursor.close).                                                   *)
THEOREM CursorsAreReleased == WireSpec => []LeaksNeedLoss
PROOF
  <1>1. WireInvariant => LeaksNeedLoss
    <2> SUFFICES ASSUME WireInvariant PROVE LeaksNeedLoss
      OBVIOUS
    <2>1. \A i \in Ids : cursors[i].of \in Scans
      BY DEF WireInvariant, WireTypes
    <2>2. \A s \in Scans : CursorsOk(s, reader[s], cursors, nextId, lost)
      BY DEF WireInvariant, ScanOk
    <2>3. \A i, j \in Ids : cursors[i].of = cursors[j].of => i = j
      BY <2>1, <2>2 DEF CursorsOk, Of, Ids
    <2>4. \A i \in Ids : reader[cursors[i].of].phase = "closed" => cursors[i].of \in lost
      BY <2>1, <2>2 DEF CursorsOk, Of, Ids
    <2> QED
      BY <2>3, <2>4 DEF LeaksNeedLoss
  <1> QED
    BY <1>1, WireInvariantHolds, PTL
=============================================================================
