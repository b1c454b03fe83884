--------------------------- MODULE MCWindowRecovery ---------------------------
(***************************************************************************)
(* Two sources for WindowRecovery.  The first publishes an event, a later  *)
(* one and a correction of the first that brings it into the window; the   *)
(* second repeats one of its records.                                      *)
(***************************************************************************)
EXTENDS WindowRecovery

MCEvent(i, t, k, v, r) == [id |-> i, time |-> t, key |-> k, value |-> v, revision |-> r]

MCLog ==
  [s \in {"a", "b"} |->
     IF s = "a"
     THEN <<MCEvent(1, 1, "k", "out", 0), MCEvent(2, 2, "k", "in", 0), MCEvent(1, 4, "k", "in", 1)>>
     ELSE <<MCEvent(3, 3, "l", "in", 0), MCEvent(3, 3, "l", "in", 0)>>]

MCInputs   == UNION {{MCLog[s][i] : i \in DOMAIN MCLog[s]} : s \in {"a", "b"}}
MCRemovals == {[id |-> 2, revision |-> 1]}
=============================================================================
