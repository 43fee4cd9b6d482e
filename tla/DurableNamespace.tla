-------------------------- MODULE DurableNamespace --------------------------
(***************************************************************************)
(* What the metadata log promises: a namespace that changes by whole       *)
(* operations only.  A crash is no operation at all.  Each name is bound   *)
(* to a file and to the version of the file that was last synced.  This is *)
(* the abstract specification that MetaLog implements; ns is what clients  *)
(* were told is persistent.                                                *)
(***************************************************************************)
EXTENDS Naturals

CONSTANTS Name, FileId, MaxVer, None

VARIABLE ns

File == [id : FileId, ver : 0..MaxVer]

TypeOK == ns \in [Name -> File \union {None}]

Init == TypeOK

Bound(n) == ns[n] # None

Create(n, id) ==
    /\ ~Bound(n)
    /\ \A m \in Name : Bound(m) => ns[m].id # id
    /\ ns' = [ns EXCEPT ![n] = [id |-> id, ver |-> 0]]

Delete(n) ==
    /\ Bound(n)
    /\ ns' = [ns EXCEPT ![n] = None]

\* Renaming over an existing name is a Delete followed by a Rename.
Rename(a, b) ==
    /\ Bound(a)
    /\ ~Bound(b)
    /\ ns' = [ns EXCEPT ![a] = None, ![b] = ns[a]]

Link(a, b) ==
    /\ Bound(a)
    /\ ~Bound(b)
    /\ ns' = [ns EXCEPT ![b] = ns[a]]

\* A sync shows under every name of the file at once, and never goes back.
Sync(id, ver) ==
    /\ \A n \in Name : Bound(n) /\ ns[n].id = id => ns[n].ver < ver
    /\ ns' = [n \in Name |-> IF Bound(n) /\ ns[n].id = id
                             THEN [id |-> id, ver |-> ver] ELSE ns[n]]

Next ==
    \/ \E n \in Name : Delete(n)
    \/ \E n \in Name, id \in FileId : Create(n, id)
    \/ \E a, b \in Name : Rename(a, b) \/ Link(a, b)
    \/ \E id \in FileId, ver \in 1..MaxVer : Sync(id, ver)

Spec == Init /\ [][Next]_ns
============================================================================
