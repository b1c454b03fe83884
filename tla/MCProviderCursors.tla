-------------------------- MODULE MCProviderCursors --------------------------
(* Scans under two adapters with the same snapshots.  "pair" has two rows,  *)
(* which from the second revision on do not fit the cache; "grown" has none *)
(* at first, and later one more than a scan may give.                       *)
EXTENDS ProviderCursors

CONSTANTS a1, a2, k1, k2

Symmetry == Permutations({a1, a2}) \cup Permutations({k1, k2})

MCOutcome(op, a, g, r, arg) ==
  IF arg = "grown" /\ r = 1 THEN <<>>
  ELSE [i \in 1 .. (IF arg = "pair" THEN 2 ELSE MaxRows + 1) |-> <<a, g, r, i>>]

MCSnapshotOf(a, r) == r
MCCacheable(v) == TRUE
MCSizeOf(k, v) == 1 + (IF k.arg = "pair" THEN 1 + k.snapshot ELSE 1) * Len(v)

(* One adapter is the first as well as another.                             *)
MCInit == ScanInit /\ registered = [op \in Operations |-> a1]
MCSpec == MCInit /\ [][ScanNext]_scanVars /\ Fairness
=============================================================================
