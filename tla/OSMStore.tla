-------------------------------- MODULE OSMStore --------------------------------
(***************************************************************************)
(* OSMStore (osm.py): a map of versioned elements, the changes that may be *)
(* made to it, and what is derived from it when it is published: who       *)
(* refers to whom, the geometries of ways, and what else a change touches. *)
(*                                                                         *)
(* A map is [elements, tombstones]; an element is its version and a body   *)
(* [place, refs, tagged].  The place stands for coordinates, tagged for    *)
(* the tags that make a way a road and a relation a road's route.          *)
(***************************************************************************)
EXTENDS Integers, FiniteSets, Sequences, Functions

CONSTANTS
  Keys,          \* <<type, id>>
  KindOf,        \* the type of a key: "node", "way" or "relation"
  BodiesOf,      \* the bodies of a key
  SizeOf,        \* _record_size of a body
  TombstoneSize,
  MaxElements, MaxRetained   \* of elements and tombstones together

ASSUME KeysAssumption == IsFiniteSet(Keys)

NoElements == [k \in {} |-> <<>>]

References(body) == Range(body.refs)

RetainedSize(elements, tombstones) ==
  LET size[some \in SUBSET DOMAIN elements] ==
        IF some = {} THEN 0
        ELSE LET k == CHOOSE k \in some : TRUE IN SizeOf[elements[k].body] + size[some \ {k}]
  IN  size[DOMAIN elements] + TombstoneSize * Cardinality(DOMAIN tombstones)

WithinLimits(elements, tombstones) ==
  /\ RetainedSize(elements, tombstones) <= MaxRetained
  /\ Cardinality(DOMAIN elements) + Cardinality(DOMAIN tombstones) <= MaxElements

-----------------------------------------------------------------------------
(* Changes                                                                  *)

\* Mutant: a deleted element leaves no trace.
ForgetDeleted(tombstones, k, version) == tombstones

Buried(tombstones, k, version) ==
  [j \in DOMAIN tombstones \cup {k} |-> IF j = k THEN version ELSE tombstones[j]]

Acceptable(elements, tombstones, action, k, version) ==
  IF action = "create" THEN k \notin DOMAIN elements /\ k \notin DOMAIN tombstones /\ version = 1
  ELSE k \in DOMAIN elements /\ version = elements[k].version + 1

WithElement(elements, k, version, body) ==
  [j \in DOMAIN elements \cup {k} |-> IF j = k THEN [version |-> version, body |-> body] ELSE elements[j]]

\* A change of one element, as the map that it leaves.
Changed(map, action, k, version, body) ==
  IF action = "delete"
  THEN [elements   |-> Restrict(map.elements, DOMAIN map.elements \ {k}),
        tombstones |-> Buried(map.tombstones, k, version)]
  ELSE [map EXCEPT !.elements = WithElement(@, k, version, body)]

-----------------------------------------------------------------------------
(* What is derived from a map                                               *)

\* _reverse raises where a reference is not in the map.
Resolved(elements) == \A k \in DOMAIN elements : References(elements[k].body) \subseteq DOMAIN elements

Owners(elements, k) == {j \in DOMAIN elements : k \in References(elements[j].body)}

\* _affected: what refers, in the old or in the new map, to what is affected.
Affected(inputs, old, new) ==
  LET reach[n \in 0 .. Cardinality(Keys)] ==
        IF n = 0 THEN inputs
        ELSE LET before == reach[n - 1] IN before \cup UNION {Owners(old, k) \cup Owners(new, k) : k \in before}
  IN  reach[Cardinality(Keys)]

\* Mutant: only what a relation refers to now.
NewMembers(changed, old, new) ==
  changed \cup UNION {References(new[k].body) : k \in {j \in changed \cap DOMAIN new : KindOf[j] = "relation"}}

\* partOfRoad is projected onto the members of a relation, old and new.
ProjectionInputs(changed, old, new) ==
  changed \cup UNION {UNION {References(e[k].body) : k \in {j \in changed \cap DOMAIN e : KindOf[j] = "relation"}}
                        : e \in {old, new}}

Geometry(elements, k) == [i \in DOMAIN elements[k].body.refs |-> elements[elements[k].body.refs[i]].body.place]

Ways(elements) == {k \in DOMAIN elements : KindOf[k] = "way"}

\* The geometries of affected ways are computed, the others are kept.
GeometriesOf(geometries, changed, affected, elements) ==
  [k \in Ways(elements) |-> IF k \in affected THEN Geometry(elements, k) ELSE geometries[k]]

IsRoad(elements, k)  == KindOf[k] = "way" /\ elements[k].body.tagged
IsRoute(elements, k) == KindOf[k] = "relation" /\ elements[k].body.tagged

\* What the triples say of an element, but for the snapshot they are of.
Projection(elements, k) ==
  <<elements[k], IF IsRoad(elements, k) THEN {r \in Owners(elements, k) : IsRoute(elements, r)} ELSE {}>>

\* _digest: neither who published it nor when.
Digest(map) == <<map.elements, map.tombstones>>

\* _publish
Snapshot(previous, map, changed) ==
  LET affected == Affected(ProjectionInputs(changed, previous.elements, map.elements), previous.elements, map.elements)
  IN  [elements   |-> map.elements, tombstones |-> map.tombstones, affected |-> affected,
       geometries |-> GeometriesOf(previous.geometries, changed, affected, map.elements)]

NoSnapshot == [elements |-> NoElements, tombstones |-> NoElements, affected |-> {}, geometries |-> NoElements]
=============================================================================
