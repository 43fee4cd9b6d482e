----------------------------- MODULE MCMetaLog -----------------------------
(* MetaLog on small instances: which names exist when the file system is    *)
(* first mounted.                                                           *)
EXTENDS MetaLog, TLC

CONSTANTS f, g, h

NoInitFiles == <<>>
OneInitFile == <<f>>

\* The names that are free at first are alike.
FreeNames == Permutations({g, h})
============================================================================
