---------------------------- MODULE MCZoneAlloc ----------------------------
(* ZoneAlloc on small instances.  Zones are interchangeable, so their       *)
(* permutations are a symmetry of the runs.                                 *)
EXTENDS ZoneAlloc, TLC

ZoneSymmetry == Permutations(Zone)

\* Bound: copies into a zone that went offline, or was filled up, add to
\* used_capacity_ without end.  The first such state is checked, and not
\* followed.
OverbookedOnce == \A z \in Zone : IsFull(z) => used[z] <= wp[z]
============================================================================
