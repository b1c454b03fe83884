--------------------------- MODULE MaterializedView ---------------------------
(***************************************************************************)
(* What an incrementally maintained materialization promises its readers.  *)
(* A transaction replaces the program and withdraws the published closure; *)
(* the only closure ever published is the least model of the program as it *)
(* then stands.  How the closure is computed, and how much of the previous *)
(* one is reused, is not visible.                                          *)
(***************************************************************************)
EXTENDS HornProgram

CONSTANT Unavailable   \* no complete closure can be read (not a set of atoms)

VARIABLES
  asserted,   \* the assertions of the current program
  rules,      \* its rules
  closure     \* the published facts, or Unavailable

vars == <<asserted, rules, closure>>

Init ==
  /\ asserted \in SUBSET Assertable
  /\ rules \in SUBSET Rules
  /\ closure = Unavailable

(* A transaction starts: the old closure may no longer be read.             *)
Transact ==
  /\ asserted' \in SUBSET Assertable
  /\ rules' \in SUBSET Rules
  /\ closure' = Unavailable

Publish ==
  /\ closure = Unavailable
  /\ closure' \in SUBSET Atoms
  /\ IsLeastModel(closure', asserted, rules)
  /\ UNCHANGED <<asserted, rules>>

Next == Transact \/ Publish

Spec == Init /\ [][Next]_vars
=============================================================================
