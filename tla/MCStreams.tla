------------------------------- MODULE MCStreams -------------------------------
(***************************************************************************)
(* Events and rows that arrive late, twice or not at all, checked side by  *)
(* side: the initial state picks one component, and the other stays where  *)
(* it began.                                                               *)
(*                                                                         *)
(*   window  Observation 1 of key "k" has corrections that move it forward *)
(*           and back across the window; 2 and 3 are neighbours of it, 3   *)
(*           at the same time as a version of 1; 4 belongs to another key  *)
(*           until a correction gives it to "k".                           *)
(*   native  Observations of key "k", which has two forms, with values of  *)
(*           two forms, once under key "l"; a source for some of them.     *)
(*   wire    Three scans of one row compete for two cursors, the least for *)
(*           an identifier to be in doubt.                                 *)
(***************************************************************************)
EXTENDS NativeWindows, ProviderWire, TLC

CONSTANTS s1, s2, s3

Symmetry == Permutations(Scans)

MCEvent(i, t, k, v, r) == [id |-> i, time |-> t, key |-> k, value |-> v, revision |-> r]

MCInputs ==
  {MCEvent(1, 2, "k", "in", 0), MCEvent(1, 4, "k", "in", 1), MCEvent(1, 1, "k", "out", 2),
   MCEvent(2, 1, "k", "out", 0), MCEvent(2, 3, "k", "in", 2),
   MCEvent(3, 4, "k", "in", 0),
   MCEvent(4, 3, "l", "in", 0), MCEvent(4, 4, "k", "out", 1)}

MCRemovals == {[id |-> 1, revision |-> 2], [id |-> 2, revision |-> 3], [id |-> 3, revision |-> 1]}
MCSources  == {"f"}

Form(i, t, k, v, r) == [id |-> i, time |-> t, row |-> <<k, v>>, revision |-> r]
MCNativeInputs ==
  {Form(1, 1, "k", "out", 0), Form(1, 1, "k~", "out~", 0), Form(1, 1, "k", "out~", 1),
   Form(1, 4, "l", "in", 2), Form(2, 4, "k~", "in", 0), Form(2, 0, "k", "in", 1)}
MCPythonKey(form)   == IF form = "k~" THEN "k" ELSE form
MCPythonValue(form) == IF form = "out~" THEN "out" ELSE form

VARIABLE component

(* Where its component is not picked, a native store has been closed.       *)
NotOpened ==
  /\ native = Freed /\ open = FALSE
  /\ keys = [k \in {} |-> ""] /\ counts = [k \in {} |-> 0]
  /\ seen = [active |-> {}, history |-> {}]

MCInit ==
  /\ Init /\ WireInit
  /\ \/ component = "native" /\ NativeInit
     \/ component \in {"window", "wire"} /\ NotOpened

MCNext ==
  /\ UNCHANGED component
  /\ \/ component = "window" /\ Next /\ UNCHANGED <<nativeVars, wireVars>>
     \/ component = "native" /\ NativeNext /\ UNCHANGED wireVars
     \/ component = "wire" /\ WireNext /\ UNCHANGED <<vars, nativeVars>>

MCSpec == MCInit /\ [][MCNext]_<<component, vars, nativeVars, wireVars>>
=============================================================================
