---------------------------- MODULE MCPlacement ----------------------------
(* Parameter files and LSM trees for the runs of Placement.                 *)
EXTENDS Placement

CONSTANTS f1, f2, f3, f4

\* One policy for every level.
Everywhere(p, q) == [primary |-> p, fallback |-> q]

ParamFile(p, q, allocator, dynamic, collector) ==
    [upper |-> Everywhere(p, q), middle |-> Everywhere(p, q),
     lower |-> Everywhere(p, q), min_boundary |-> 0, max_boundary |-> 2,
     allocator |-> allocator, dynamic |-> dynamic, real_caza |-> TRUE,
     real_oaza |-> FALSE, threshold |-> 50, zones_to_open |-> 0,
     tombstone |-> 50, fragmentation |-> TRUE, reserve |-> 0,
     cold |-> FALSE, gc |-> collector, gc_start |-> 30, gc_stop |-> 60, gc_slope |-> 3]

\* Lifetime matching with the plain allocator and collector.
Defaults == {ParamFile("Lifetime", "Lifetime", "Default", FALSE, "Default")}

\* Every policy, with the allocators and collectors spread over them.
EveryPolicy ==
    {ParamFile("Lifetime", "Lifetime", "Default", FALSE, "Default"),
     ParamFile("TTL", "Cluster", "Random", TRUE, "Improved"),
     ParamFile("CAZA", "Lifetime", "Hotness", TRUE, "Default"),
     ParamFile("PlazaBase", "Arrival", "Sequential", FALSE, "Improved"),
     [ParamFile("PlazaMiddle", "CAZA", "LeastWear", TRUE, "Default")
         EXCEPT !.zones_to_open = 1],
     ParamFile("PlazaKeys", "Nearby", "Hotness", TRUE, "Improved"),
     ParamFile("Nearby", "PlazaBase", "Default", TRUE, "Default"),
     [ParamFile("Arrival", "Lifetime", "Sequential", TRUE, "Improved")
         EXCEPT !.fragmentation = FALSE],
     ParamFile("Tombstone", "Arrival", "LeastWear", FALSE, "Default"),
     [ParamFile("Cluster", "Children", "Hotness", FALSE, "Improved")
         EXCEPT !.cold = TRUE],
     ParamFile("Children", "Compensated", "Random", TRUE, "Default"),
     [ParamFile("Grandchildren", "Lifetime", "Hotness", TRUE, "Default")
         EXCEPT !.cold = TRUE],
     ParamFile("Compensated", "OAZA", "LeastWear", TRUE, "Improved"),
     ParamFile("OAZA", "Lifetime", "Default", TRUE, "Default"),
     [ParamFile("OAZA", "Nearby", "Sequential", TRUE, "Improved")
         EXCEPT !.real_oaza = TRUE, !.reserve = 1],
     [ParamFile("Lifetime", "Cluster", "Default", TRUE, "Default")
         EXCEPT !.upper.primary = "Tombstone", !.lower.primary = "CAZA",
                !.middle.primary = "PlazaKeys", !.real_caza = FALSE]}

Table(l, lo, hi, size, hint, dels) ==
    [level |-> l, lo |-> lo, hi |-> hi, size |-> size, life |-> hint,
     entries |-> 2, dels |-> dels, keys |-> TRUE]

Log == [level |-> -1, lo |-> 0, hi |-> 0, size |-> 1, life |-> 2,
        entries |-> 1, dels |-> 0, keys |-> FALSE]

\* The last zone starts 4 GiB after the first; the second past 2 GiB.
WrappedAddresses == [z \in Zone |-> CASE z = 1 -> 1 [] z = 2 -> None [] z = 3 -> 1]

\* A tree of three levels, and a level of neighbours with a log file.
TwoTrees ==
    {f1 :> Table(0, 1, 4, 2, 3, 1) @@ f2 :> Table(1, 1, 2, 3, 4, 0) @@
     f3 :> Table(1, 3, 4, 1, 4, 2) @@ f4 :> Table(2, 2, 3, 2, 5, 0),
     f1 :> Log @@ f2 :> Table(2, 5, 6, 2, 5, 0) @@
     f3 :> Table(2, 1, 2, 3, 5, 1) @@ f4 :> Table(2, 3, 4, 1, 4, 1)}
=============================================================================
