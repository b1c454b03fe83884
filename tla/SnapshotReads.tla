---------------------------- MODULE SnapshotReads ----------------------------
(***************************************************************************)
(* What a registry of versioned providers promises of a batch: its answers *)
(* are those of one instant, the instant at which it returns, although its *)
(* rows were asked for one after another, answered out of order and partly *)
(* remembered from earlier batches.                                        *)
(***************************************************************************)
EXTENDS Integers, Sequences

CONSTANTS
  Operations, Adapters, Arguments, MaxRows,
  Outcome(_, _, _, _, _)  \* operation, adapter, generation, revision, argument

VARIABLES
  registered,  \* the adapter that performs each operation
  generation,  \* how often the registry was changed or invalidated
  revision,    \* the revision of each adapter's dataset
  answer       \* the batch that was answered in the last step, or None

vars == <<registered, generation, revision, answer>>

Now(op, arg) == Outcome(op, registered[op], generation, revision[registered[op]], arg)

None == [op |-> "none", args |-> <<>>, values |-> <<>>]

Init ==
  /\ registered \in [Operations -> Adapters]
  /\ generation \in Nat
  /\ revision \in [Adapters -> Nat]
  /\ answer = None

Change ==
  /\ registered' \in [Operations -> Adapters]
  /\ generation' \in {generation, generation + 1}
  /\ \A a \in Adapters : revision'[a] >= revision[a]
  /\ registered' # registered => generation' # generation
  /\ answer' = None

Answer ==
  /\ \E op \in Operations, n \in 0 .. MaxRows : \E args \in [1 .. n -> Arguments] :
       answer' = [op |-> op, args |-> args, values |-> [i \in 1 .. n |-> Now(op, args[i])]]
  /\ UNCHANGED <<registered, generation, revision>>

Next == Change \/ Answer

Spec == Init /\ [][Next]_vars
=============================================================================
