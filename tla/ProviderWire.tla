----------------------------- MODULE ProviderWire -----------------------------
(***************************************************************************)
(* Scans over the wire (providers.py): ProviderCursor reading through      *)
(* HTTPJSONAdapter from the cursors of a LoopbackEndpoint.                 *)
(*                                                                         *)
(* Every call is a request and a reply on a connection of its own.  A      *)
(* caller that has waited long enough gives up; its request may reach the  *)
(* endpoint all the same, before or after what the caller sends next, and  *)
(* the reply then has nobody to go to.  A lost request is one that never   *)
(* arrives.  Each scan reads one row per page.                             *)
(***************************************************************************)
EXTENDS Integers, FiniteSets, Sequences

CONSTANTS
  Scans,        \* one ProviderCursor each
  RowsPerScan,         \* how many rows a scan has
  MaxCursors,   \* of the endpoint
  MaxDatasets   \* bound of the model

ASSUME WireAssumption ==
  {RowsPerScan, MaxCursors, MaxDatasets} \subseteq Nat \ {0}

VARIABLES
  reader,       \* the client side of each scan
  inFlight,     \* requests that have not, or not yet, reached the endpoint
  cursors,      \* _cursors: the open cursors of the endpoint
  nextId,       \* _next_id
  dataset,      \* revision of the endpoint's dataset
  lost          \* scans that gave up on an open or a close

wireVars == <<reader, inFlight, cursors, nextId, dataset, lost>>

Ids == DOMAIN cursors

None == [kind |-> "none"]        \* no reply yet
Error == [kind |-> "error"]
Answer(value) == [kind |-> "answer", value |-> value]

-----------------------------------------------------------------------------
(* The client                                                               *)

(* A call: the phase tells which.  The snapshot is asked for to pin it, and *)
(* before and after a page.                                                 *)
Snapshotting == {"pin", "before", "after"}
Waiting == Snapshotting \cup {"open", "next", "close"}

(* The record of a reader that sends its next request.                      *)
Sending(r, phase) == [r EXCEPT !.phase = phase, !.n = @ + 1, !.reply = None]

Request(s, r) ==
  [from |-> s, n |-> r.n, action |-> r.phase, id |-> r.id, snapshot |-> r.snapshot]

Send(s, r) ==
  /\ reader' = [reader EXCEPT ![s] = r]
  /\ inFlight' = IF r.phase \in Snapshotting THEN inFlight ELSE inFlight \cup {Request(s, r)}

Settle(s, r) == reader' = [reader EXCEPT ![s] = r] /\ UNCHANGED inFlight

Server == <<cursors, nextId, dataset>>

Begin(s) ==
  /\ reader[s].phase = "idle"
  /\ Send(s, Sending(reader[s], "pin"))
  /\ UNCHANGED <<Server, lost>>

(* Mutant: an open that failed is asked for once more.                      *)
EndedAfterRetry(s, r) ==
  CASE r.id = 0 /\ r.phase = "open" -> Send(s, Sending(r, "open"))
    [] r.id = 0 /\ r.phase # "open" -> Settle(s, [r EXCEPT !.phase = "closed", !.reply = None])
    [] OTHER -> Send(s, Sending(r, "close"))

(* A read that fails, or one that finds the end, closes the scan: once, and *)
(* with a request only if a cursor was handed out.                          *)
Ended(s, r) ==
  IF r.id = 0 THEN Settle(s, [r EXCEPT !.phase = "closed", !.reply = None])
  ELSE Send(s, Sending(r, "close"))

Answered(s, phase) == reader[s].phase = phase /\ reader[s].reply.kind = "answer"

(* Mutant: the revision is compared before a page only.                     *)
AgreesBefore(r) == r.phase = "after" \/ r.reply.value = r.snapshot

(* _pin, with the answer of the endpoint to a snapshot request.             *)
Agrees(r) == r.reply.value = r.snapshot

(* Each answer leads to the next call, as in ProviderCursor._iterate.       *)
SnapshotPinned(s) ==
  /\ Answered(s, "pin")
  /\ Send(s, Sending([reader[s] EXCEPT !.snapshot = reader[s].reply.value], "open"))
  /\ UNCHANGED <<Server, lost>>

Opened(s) ==
  /\ Answered(s, "open")
  /\ Send(s, Sending([reader[s] EXCEPT !.id = reader[s].reply.value], "before"))
  /\ UNCHANGED <<Server, lost>>

CheckedBefore(s) ==
  /\ Answered(s, "before") /\ Agrees(reader[s])
  /\ Send(s, Sending(reader[s], "next"))
  /\ UNCHANGED <<Server, lost>>

Paged(s) ==
  /\ Answered(s, "next")
  /\ Send(s, Sending([reader[s] EXCEPT !.page = reader[s].reply.value], "after"))
  /\ UNCHANGED <<Server, lost>>

(* A row is given, or the scan is complete and closed.                      *)
CheckedAfter(s) ==
  LET r == reader[s] IN
  /\ Answered(s, "after") /\ Agrees(r)
  /\ IF r.page = <<>>
     THEN Ended(s, [r EXCEPT !.complete = TRUE])
     ELSE Send(s, Sending([r EXCEPT !.given = @ \o r.page, !.page = <<>>], "before"))
  /\ UNCHANGED <<Server, lost>>

(* An error in the reply, or a snapshot that moved.                         *)
Refused(s) ==
  LET r == reader[s] IN
  /\ \/ r.phase \in Waiting \ {"close"} /\ r.reply.kind = "error"
     \/ r.phase \in {"before", "after"} /\ r.reply.kind = "answer" /\ ~Agrees(r)
  /\ Ended(s, r)
  /\ UNCHANGED <<Server, lost>>

(* The deadline of the caller, the socket's timeout, or a cancellation.     *)
GiveUp(s) ==
  LET r == reader[s] IN
  /\ r.phase \in Waiting \ {"close"}
  /\ Ended(s, r)
  /\ lost' = IF r.phase = "open" THEN lost \cup {s} ELSE lost
  /\ UNCHANGED Server

(* The consumer closes a scan between two rows.                             *)
Close(s) ==
  /\ Answered(s, "before")
  /\ Ended(s, reader[s])
  /\ UNCHANGED <<Server, lost>>

(* The cursor was marked as closed before the request, so a failure to      *)
(* close is not made good.                                                  *)
Closed(s) ==
  LET r == reader[s] IN
  /\ r.phase = "close"
  /\ Settle(s, [r EXCEPT !.phase = "closed", !.reply = None])
  /\ lost' = IF r.reply.kind = "answer" THEN lost ELSE lost \cup {s}
  /\ UNCHANGED Server

-----------------------------------------------------------------------------
(* The endpoint                                                             *)

(* The reply goes to the caller, if it still waits for it.                  *)
Reply(m, answer) ==
  reader' = IF reader[m.from].n = m.n /\ reader[m.from].phase \in Waiting
            THEN [reader EXCEPT ![m.from].reply = answer] ELSE reader

Received(m) == inFlight' = inFlight \ {m} /\ UNCHANGED <<dataset, lost>>

(* Mutant: identifiers are counted by the cursors that are open.            *)
NewIdByCount == Cardinality(Ids) + 1

(* No identifier is given twice.                                            *)
NewId == nextId

HasRoom == Cardinality(Ids) < MaxCursors

With(id, cursor) == [i \in Ids \cup {id} |-> IF i = id THEN cursor ELSE cursors[i]]

(* A request for the snapshot changes nothing at the endpoint, so only the  *)
(* reply that is waited for matters.                                        *)
DispatchSnapshot(s) ==
  /\ reader[s].phase \in Snapshotting /\ reader[s].reply = None
  /\ reader' = [reader EXCEPT ![s].reply = Answer(dataset)]
  /\ UNCHANGED <<Server, inFlight, lost>>

DispatchOpen(m) ==
  /\ m.action = "open"
  /\ IF m.snapshot = dataset /\ HasRoom
     THEN /\ cursors' = With(NewId, [of |-> m.from, at |-> 0])
          /\ nextId' = nextId + 1
          /\ Reply(m, Answer(NewId))
     ELSE Reply(m, Error) /\ UNCHANGED <<cursors, nextId>>
  /\ Received(m)

(* The page is read from the data as they stand; the snapshot is that of    *)
(* the open, and is not compared here.                                      *)
DispatchNext(m) ==
  /\ m.action = "next"
  /\ IF m.id \in Ids
     THEN LET at == cursors[m.id].at IN
          IF at < RowsPerScan
          THEN /\ Reply(m, Answer(<<[of |-> cursors[m.id].of, revision |-> dataset, row |-> at + 1]>>))
               /\ cursors' = [cursors EXCEPT ![m.id].at = at + 1]
          ELSE Reply(m, Answer(<<>>)) /\ UNCHANGED cursors
     ELSE Reply(m, Error) /\ UNCHANGED cursors
  /\ Received(m) /\ UNCHANGED nextId

(* Closing what is not open is no error.                                    *)
DispatchClose(m) ==
  /\ m.action = "close"
  /\ cursors' = [i \in Ids \ {m.id} |-> cursors[i]]
  /\ Reply(m, Answer(TRUE))
  /\ Received(m) /\ UNCHANGED nextId

(* LoopbackEndpoint.close                                                   *)
Shutdown ==
  /\ cursors' = [i \in {} |-> 0]
  /\ UNCHANGED <<reader, inFlight, nextId, dataset, lost>>

ReviseEndpoint ==
  /\ dataset < MaxDatasets
  /\ dataset' = dataset + 1
  /\ UNCHANGED <<reader, inFlight, cursors, nextId, lost>>

-----------------------------------------------------------------------------
WireInit ==
  /\ reader = [s \in Scans |->
       [phase |-> "idle", n |-> 0, reply |-> None, id |-> 0, snapshot |-> 0,
        page |-> <<>>, given |-> <<>>, complete |-> FALSE]]
  /\ inFlight = {}
  /\ cursors = [i \in {} |-> 0] /\ nextId = 1
  /\ dataset = 1
  /\ lost = {}

Read(s) ==
  \/ Begin(s) \/ SnapshotPinned(s) \/ Opened(s) \/ CheckedBefore(s) \/ Paged(s) \/ CheckedAfter(s)
  \/ Refused(s) \/ GiveUp(s) \/ Close(s) \/ Closed(s)

Dispatch(m) == DispatchOpen(m) \/ DispatchNext(m) \/ DispatchClose(m)

WireNext ==
  \/ \E s \in Scans : Read(s)
  \/ \E s \in Scans : DispatchSnapshot(s)
  \/ \E m \in inFlight : Dispatch(m)
  \/ Shutdown
  \/ ReviseEndpoint

WireSpec == WireInit /\ [][WireNext]_wireVars

-----------------------------------------------------------------------------
(* Properties                                                               *)

(* No scan is given a row of another one, a row of a later revision, a row  *)
(* twice or too few of them when it is complete, although cursors come and  *)
(* go, late requests move the endpoint's cursors, and pages do not say at   *)
(* which revision they were read.                                           *)
RowsAreOwn ==
  \A s \in Scans :
    LET r == reader[s] IN
    /\ r.given = [i \in 1 .. Len(r.given) |-> [of |-> s, revision |-> r.snapshot, row |-> i]]
    /\ r.complete => Len(r.given) = RowsPerScan

(* A cursor whose scan is over stays at the endpoint only if the scan gave  *)
(* up on an open or on a close; and no scan ever has two.                   *)
LeaksNeedLoss ==
  /\ \A i, j \in Ids : cursors[i].of = cursors[j].of => i = j
  /\ \A i \in Ids : reader[cursors[i].of].phase = "closed" => cursors[i].of \in lost
=============================================================================
