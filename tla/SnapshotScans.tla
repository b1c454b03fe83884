---------------------------- MODULE SnapshotScans ----------------------------
(***************************************************************************)
(* What a registry of versioned providers promises of a scan: its rows are *)
(* those of the instant at which it began, in their order, each delivered  *)
(* only while that is still how things stand; and it is complete only when *)
(* they all were, and still are all there is.                              *)
(***************************************************************************)
EXTENDS Integers, Sequences

CONSTANTS
  Operations, Adapters, Cursors, Arguments,
  Outcome(_, _, _, _, _)  \* the rows of a scan operation

VARIABLES
  registered, generation, revision,
  scan         \* what the consumer of each cursor has seen of it

vars == <<registered, generation, revision, scan>>

Now(op, arg) == Outcome(op, registered[op], generation, revision[registered[op]], arg)

Unused == [begun |-> FALSE]

Init ==
  /\ registered \in [Operations -> Adapters]
  /\ generation \in Nat
  /\ revision \in [Adapters -> Nat]
  /\ scan = [c \in Cursors |-> Unused]

Change ==
  /\ registered' \in [Operations -> Adapters]
  /\ generation' \in {generation, generation + 1}
  /\ \A a \in Adapters : revision'[a] >= revision[a]
  /\ registered' # registered => generation' # generation
  /\ UNCHANGED scan

Begin(c) ==
  \E op \in Operations, arg \in Arguments :
    scan' = [scan EXCEPT ![c] =
      [begun |-> TRUE, op |-> op, arg |-> arg, generation |-> generation,
       revision |-> revision[registered[op]], given |-> <<>>, complete |-> FALSE]]

(* The instant at which the scan began has not passed away.                 *)
Stands(c) ==
  /\ scan[c].begun /\ ~scan[c].complete
  /\ scan[c].generation = generation
  /\ scan[c].revision = revision[registered[scan[c].op]]

Deliver(c) ==
  LET rows == Now(scan[c].op, scan[c].arg)
      n    == Len(scan[c].given)
  IN  /\ Stands(c) /\ n < Len(rows)
      /\ scan' = [scan EXCEPT ![c].given = Append(@, rows[n + 1])]

Complete(c) ==
  /\ Stands(c) /\ scan[c].given = Now(scan[c].op, scan[c].arg)
  /\ scan' = [scan EXCEPT ![c].complete = TRUE]

(* The consumer is done with the cursor.                                    *)
Drop(c) == scan' = [scan EXCEPT ![c] = Unused]

Next ==
  \/ Change
  \/ \E c \in Cursors :
       /\ Begin(c) \/ Deliver(c) \/ Complete(c) \/ Drop(c)
       /\ UNCHANGED <<registered, generation, revision>>

Spec == Init /\ [][Next]_vars
=============================================================================
