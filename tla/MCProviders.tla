----------------------------- MODULE MCProviders -----------------------------
(* Both adapters report the same snapshots: two datasets of one name, at    *)
(* revisions that are counted alike.  From the second revision on, y is out *)
(* of their region.                                                         *)
EXTENDS Providers

CONSTANTS a1, a2, c1, c2

Symmetry == Permutations({a1, a2}) \cup Permutations({c1, c2})

Outside == <<"outside">>

MCOutcome(op, a, g, r, arg) ==
  IF r > 1 /\ arg = "y" THEN Outside ELSE <<a, g, r, arg>>

MCSnapshotOf(a, r) == r
MCCacheable(v) == v # Outside
MCSizeOf(k, v) == IF k.arg = "x" THEN 2 ELSE 3
=============================================================================
