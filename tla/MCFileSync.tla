----------------------------- MODULE MCFileSync -----------------------------
(* Kinds of the files and their symmetry for TLC. *)
EXTENDS FileSync, TLC

DistinctKinds ==
    {k \in [File -> {"sparse", "buffered", "direct"}] :
        \A f, g \in File : f # g => k[f] # k[g]}
AllBuffered == [File -> {"buffered"}]
FileSymmetry == Permutations(File)
=============================================================================
