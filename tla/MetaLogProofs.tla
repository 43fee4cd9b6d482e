--------------------------- MODULE MetaLogProofs ---------------------------
(* What records do to the zone they are written to, and the types of         *)
(* MetaLog, for any number of names, files, meta zones, crashes and errors;  *)
(* then what a mount finds after a crash at any point, and what clients may  *)
(* rely on.                                                                  *)
EXTENDS MetaLog, FiniteSetTheorems, SequenceTheorems, WellFoundedInduction, TLAPS

-----------------------------------------------------------------------------
(* The inductive invariant for the types.                                   *)

OpSet == [kind : OpKinds \union {"none"}, stage : {"main", "dest"},
          from : Name \union {None}, to : Name \union {None}, id : 0..MaxId]

Rolling == {"end", "super", "snapshot", "reset"}

Running == state \in {"mounting", "up"}

\* The operation deletes a name: for itself or to make room for another file.
Deletes == op.kind = "delete" \/ op.stage = "dest"

\* The running operation, and what it still needs.
OpShape ==
    /\ op \in OpSet
    /\ op.kind # "none" => op.to \in Name /\ op.id \in FileId
    /\ op.kind = "rename" => op.from \in Name
    /\ op.stage = "dest" => op.kind \in {"create", "rename"}
    /\ op.stage = "dest" /\ op.kind = "create" => next_id <= MaxId
    /\ op.stage = "dest" /\ op.kind = "rename" /\ op.from # op.to => files[op.from] # None

\* When an operation runs, and which zones there are.
Control ==
    /\ ~Running => pc = "idle" /\ meta = None
    /\ Running => meta \in MetaZone
    /\ (op.kind # "none") <=> (state = "up" /\ pc # "idle")
    /\ pc = "persist" => state = "up"
    /\ state = "mounting" => pc # "idle"
    /\ pc \in Rolling => old \in MetaZone \ {meta}
    /\ pc \in {"idle", "persist", "alloc", "ok"} => old = None

\* The record to persist.
RecordShape ==
    pc = "persist" =>
        rec = IF Deletes THEN Deletion(op.id, op.to)
              ELSE Update(op.id, links[op.id], ver[op.id])

\* What a roll has written to its new zone.
RollShape ==
    /\ pc \in {"end", "super"} => log[meta] = Blank
    /\ pc = "snapshot" => log[meta] = Read(Blank, Super(seq))

\* An operation writes at most two superblocks, and begins below MaxSeq.
SeqBound ==
    /\ seq \in 0..(MaxSeq + 1)
    /\ op.stage = "dest" => seq <= MaxSeq
    /\ pc \in {"persist", "alloc", "end", "super"} =>
           seq <= MaxSeq /\ (op.stage = "dest" => seq < MaxSeq)

TypeInv == TypeOK /\ OpShape /\ Control /\ RecordShape /\ RollShape /\ SeqBound

-----------------------------------------------------------------------------
(* What a zone should replay to.                                            *)

\* files_ and linkfiles_ name the same names, each once.
Agrees(f, l) ==
    /\ \A n \in Name, i \in FileId : f[n] = i <=> n \in ToSet(l[i])
    /\ \A i \in FileId : IsInjective(l[i])

\* A mount that tries the zones by descending sequence number ends with z.
Newest(z) ==
    /\ z \in MetaZone
    /\ log[z].status \notin {"none", "empty"} /\ log[z].seq > 0
    /\ \A y \in MetaZone \ {z} : log[y].status \notin {"none", "empty"} =>
           log[y].seq > 0 /\ log[y].seq < log[z].seq

-----------------------------------------------------------------------------
(* Numbers and sequences.                                                   *)

\* What the constants are.
LEMMA Consts ==
    /\ NrMetaZones \in Nat /\ NrMetaZones >= 2 /\ ZoneCap \in Nat /\ ZoneCap >= 3
    /\ MaxId \in Nat /\ MaxVer \in Nat /\ MaxSeq \in Nat /\ MaxFaults \in Nat
  BY MetaAssumption

\* None is no name, no zone and no file.
LEMMA NoneIsNothing ==
    /\ None \notin Name /\ None \notin Nat /\ None \notin FileId /\ None \notin MetaZone
  <1>1. None \notin Name /\ None \notin Nat
    BY MetaAssumption
  <1>2. FileId \subseteq Nat /\ MetaZone \subseteq Nat
    BY DEF FileId, MetaZone
  <1> QED BY <1>1, <1>2

\* A set of natural numbers has a least element.
LEMMA LeastElement ==
    ASSUME NEW S \in SUBSET Nat, S # {}
    PROVE  \E x \in S : \A y \in S : x <= y
  <1>1. PICK x \in S : \A y \in S : ~(<<y, x>> \in OpToRel(<, Nat))
    BY WFMin, NatLessThanWellFounded
  <1>2. \A y \in S : ~(y < x)
    BY <1>1 DEF OpToRel
  <1> QED BY <1>2

\* A bounded one has a greatest element.
LEMMA GreatestElement ==
    ASSUME NEW S \in SUBSET Nat, S # {}, NEW m \in Nat, \A x \in S : x <= m
    PROVE  \E x \in S : \A y \in S : y <= x
  <1> DEFINE U == {u \in Nat : \A x \in S : x <= u}
  <1>1. PICK u \in U : \A v \in U : u <= v
    BY LeastElement
  <1>2. CASE u \in S
    BY <1>1, <1>2
  <1>3. CASE u \notin S
    <2>1. \A x \in S : x < u
      BY <1>1, <1>3
    <2>2. u # 0
      <3>1. PICK x \in S : TRUE
        OBVIOUS
      <3> QED BY <2>1, <3>1
    <2>3. u - 1 \in U
      BY <2>1, <2>2, <1>1
    <2> QED BY <1>1, <2>3
  <1> QED BY <1>2, <1>3

\* A file without names, and one with its first name.
LEMMA FewNames ==
    /\ <<>> \in Seq(Name) /\ ToSet(<<>>) = {} /\ IsInjective(<<>>)
    /\ \A n \in Name : <<n>> \in Seq(Name) /\ ToSet(<<n>>) = {n} /\ IsInjective(<<n>>)
  BY DEF ToSet, IsInjective

\* A name is added at the end.
LEMMA AppendNames ==
    ASSUME NEW s \in Seq(Name), NEW n \in Name
    PROVE  /\ Append(s, n) \in Seq(Name)
           /\ ToSet(Append(s, n)) = ToSet(s) \union {n}
           /\ IsInjective(s) /\ n \notin ToSet(s) => IsInjective(Append(s, n))
  <1> DEFINE t == Append(s, n)
  <1>1. t \in Seq(Name) /\ Len(t) = Len(s) + 1 /\ Len(s) \in Nat
    OBVIOUS
  <1>2. /\ \A i \in 1..Len(s) : t[i] = s[i]
        /\ t[Len(s) + 1] = n
        /\ DOMAIN t = 1..(Len(s) + 1) /\ DOMAIN s = 1..Len(s)
    OBVIOUS
  <1> HIDE DEF t
  <1>3. ToSet(t) = ToSet(s) \union {n}
    BY <1>1, <1>2 DEF ToSet
  <1>4. IsInjective(s) /\ n \notin ToSet(s) => IsInjective(t)
    BY <1>1, <1>2 DEF ToSet, IsInjective
  <1> QED BY <1>1, <1>3, <1>4 DEF t

\* Where the name that is removed was.
LEMMA RemovedName ==
    ASSUME NEW s \in Seq(Name), NEW n, \E i \in 1..Len(s) : s[i] = n
    PROVE  \E k \in 1..Len(s) :
               /\ s[k] = n
               /\ RemoveFirst(s, n) = SubSeq(s, 1, k - 1) \o SubSeq(s, k + 1, Len(s))
  <1> DEFINE I == {i \in 1..Len(s) : s[i] = n}
  <1>1. I \in SUBSET Nat /\ I # {}
    OBVIOUS
  <1>2. PICK x \in I : \A y \in I : x <= y
    BY <1>1, LeastElement
  <1>3. Min(I) \in I
    BY <1>2 DEF Min
  <1>4. RemoveFirst(s, n) = RemoveAt(s, Min(I))
    BY <1>1 DEF RemoveFirst, SelectInSeq
  <1> QED BY <1>3, <1>4 DEF RemoveAt

\* A name is removed.
LEMMA RemoveNames ==
    ASSUME NEW s \in Seq(Name), NEW n \in Name
    PROVE  /\ RemoveFirst(s, n) \in Seq(Name)
           /\ IsInjective(s) => /\ ToSet(RemoveFirst(s, n)) = ToSet(s) \ {n}
                                /\ IsInjective(RemoveFirst(s, n))
  <1>1. Len(s) \in Nat /\ DOMAIN s = 1..Len(s)
    BY LenProperties
  <1>2. CASE ~ \E i \in 1..Len(s) : s[i] = n
    <2>1. RemoveFirst(s, n) = s
      BY <1>2 DEF RemoveFirst
    <2>2. n \notin ToSet(s)
      BY <1>1, <1>2 DEF ToSet
    <2> QED BY <2>1, <2>2
  <1>3. CASE \E i \in 1..Len(s) : s[i] = n
    <2>1. PICK k \in 1..Len(s) :
              /\ s[k] = n
              /\ RemoveFirst(s, n) = SubSeq(s, 1, k - 1) \o SubSeq(s, k + 1, Len(s))
      BY <1>3, RemovedName
    <2> DEFINE a == SubSeq(s, 1, k - 1)
               b == SubSeq(s, k + 1, Len(s))
               t == RemoveFirst(s, n)
    <2>2. /\ a \in Seq(Name) /\ Len(a) = k - 1
          /\ \A i \in 1..(k - 1) : a[i] = s[i]
      BY <1>1, SubSeqProperties
    <2>3. /\ b \in Seq(Name) /\ Len(b) = Len(s) - k
          /\ \A i \in 1..(Len(s) - k) : b[i] = s[k + i]
      <3>1. \A i \in (k + 1)..Len(s) : s[i] \in Name
        BY <1>1
      <3>2. /\ b \in Seq(Name) /\ Len(b) = IF k + 1 <= Len(s) THEN Len(s) - (k + 1) + 1 ELSE 0
            /\ \A i \in 1..(Len(s) - (k + 1) + 1) : b[i] = s[(k + 1) + i - 1]
        BY <1>1, <3>1, SubSeqProperties
      <3> QED BY <1>1, <3>2
    <2> HIDE DEF a, b, t
    <2>4. t = a \o b
      BY <2>1 DEF a, b, t
    <2>5. /\ t \in Seq(Name) /\ Len(t) = Len(s) - 1 /\ DOMAIN t = 1..(Len(s) - 1)
          /\ \A i \in 1..(Len(s) - 1) : t[i] = IF i <= k - 1 THEN a[i] ELSE b[i - (k - 1)]
      <3>1. /\ t \in Seq(Name) /\ Len(t) = Len(a) + Len(b)
            /\ \A i \in 1..(Len(a) + Len(b)) : t[i] = IF i <= Len(a) THEN a[i] ELSE b[i - Len(a)]
        BY <2>2, <2>3, <2>4, ConcatProperties
      <3>2. Len(a) + Len(b) = Len(s) - 1
        BY <1>1, <2>2, <2>3
      <3>3. DOMAIN t = 1..Len(t)
        BY <3>1, LenProperties
      <3> QED BY <2>2, <3>1, <3>2, <3>3
    <2>6. \A i \in 1..(Len(s) - 1) : t[i] = IF i < k THEN s[i] ELSE s[i + 1]
      <3> SUFFICES ASSUME NEW i \in 1..(Len(s) - 1)
                   PROVE  t[i] = IF i < k THEN s[i] ELSE s[i + 1]
        OBVIOUS
      <3>1. CASE i < k
        BY <1>1, <2>2, <2>5, <3>1
      <3>2. CASE ~(i < k)
        <4>1. i - (k - 1) \in 1..(Len(s) - k) /\ k + (i - (k - 1)) = i + 1
          BY <1>1, <3>2
        <4> QED BY <1>1, <2>3, <2>5, <3>2, <4>1
      <3> QED BY <3>1, <3>2
    <2>7. ASSUME IsInjective(s)
          PROVE  ToSet(t) = ToSet(s) \ {n} /\ IsInjective(t)
      <3>1. \A i, j \in 1..Len(s) : s[i] = s[j] => i = j
        BY <1>1, <2>7 DEF IsInjective
      <3>2. ASSUME NEW i \in 1..(Len(s) - 1)
            PROVE  t[i] \in ToSet(s) \ {n}
        BY <1>1, <2>1, <2>6, <3>1 DEF ToSet
      <3>3. ASSUME NEW j \in 1..Len(s), s[j] # n
            PROVE  s[j] \in ToSet(t)
        <4>1. CASE j < k
          <5>1. j \in 1..(Len(s) - 1) /\ t[j] = s[j]
            BY <1>1, <2>6, <4>1
          <5> QED BY <5>1, <2>5 DEF ToSet
        <4>2. CASE j > k
          <5>1. j - 1 \in 1..(Len(s) - 1) /\ ~(j - 1 < k) /\ (j - 1) + 1 = j
            BY <1>1, <4>2
          <5>2. t[j - 1] = s[j]
            BY <2>6, <5>1
          <5> QED BY <5>1, <5>2, <2>5 DEF ToSet
        <4> QED BY <2>1, <3>3, <4>1, <4>2
      <3>4. ToSet(t) = ToSet(s) \ {n}
        <4>1. ToSet(t) \subseteq ToSet(s) \ {n}
          BY <2>5, <3>2 DEF ToSet
        <4>2. ToSet(s) \ {n} \subseteq ToSet(t)
          BY <1>1, <3>3 DEF ToSet
        <4> QED BY <4>1, <4>2
      <3>5. ASSUME NEW i \in 1..(Len(s) - 1), NEW j \in 1..(Len(s) - 1), t[i] = t[j]
            PROVE  i = j
        <4> DEFINE p == IF i < k THEN i ELSE i + 1
                   q == IF j < k THEN j ELSE j + 1
        <4>1. p \in 1..Len(s) /\ q \in 1..Len(s) /\ (p = q => i = j)
          BY <1>1
        <4>2. t[i] = s[p] /\ t[j] = s[q]
          BY <2>6
        <4> QED BY <3>1, <3>5, <4>1, <4>2
      <3> QED BY <2>5, <3>4, <3>5 DEF IsInjective
    <2> QED BY <2>5, <2>7 DEF t
  <1> QED BY <1>2, <1>3

-----------------------------------------------------------------------------
(* What a zone reads as after one more record.                              *)

\* What a zone is.
LEMMA ZoneFields ==
    ASSUME NEW st \in ZoneState
    PROVE  /\ st.len \in Lens /\ st.len \in Nat
           /\ st.seq \in Seqs /\ st.seq \in Nat
           /\ st.files \in FileMaps /\ st.links \in LinkMaps /\ st.ver \in VerMaps
           /\ st.ids \in IdSets /\ st.status \in Statuses
  BY DEF ZoneState, Lens, Seqs

\* Fields of a zone are replaced.
LEMMA LenReplaced ==
    ASSUME NEW st \in ZoneState, NEW a \in Lens,
           NEW u, u = [st EXCEPT !.len = a]
    PROVE  /\ u \in ZoneState /\ u.len = a /\ u.seq = st.seq /\ u.status = st.status
           /\ u.files = st.files /\ u.links = st.links /\ u.ver = st.ver
           /\ u.ids = st.ids
  BY DEF ZoneState

\* The same for the status.
LEMMA StatusReplaced ==
    ASSUME NEW st \in ZoneState, NEW x \in Statuses,
           NEW u, u = [st EXCEPT !.status = x]
    PROVE  /\ u \in ZoneState /\ u.len = st.len /\ u.seq = st.seq /\ u.status = x
           /\ u.files = st.files /\ u.links = st.links /\ u.ver = st.ver
           /\ u.ids = st.ids
  BY DEF ZoneState

\* A zone that has room for one more record.
LEMMA OneMore ==
    ASSUME NEW st \in ZoneState, st.len < ZoneCap
    PROVE  /\ st.len + 1 \in Lens /\ 1 \in Lens /\ st.len + 1 # 0
           /\ st.len # 0 <=> st.len > 0
  BY Consts, ZoneFields DEF Lens

\* A record that is not the first of its zone.
LEMMA ReadMore ==
    ASSUME NEW st \in ZoneState, st.len < ZoneCap, st.len # 0, NEW r,
           Decode(st, r) \in ZoneState, Decode(st, r).len = st.len
    PROVE  LET u == Read(st, r)
               d == Decode(st, r)
           IN  /\ u \in ZoneState /\ u.len # 0 /\ u.seq = d.seq /\ u.status = d.status
               /\ u.files = d.files /\ u.links = d.links /\ u.ver = d.ver
               /\ u.ids = d.ids
  <1>1. Read(st, r) = [Decode(st, r) EXCEPT !.len = st.len + 1]
    BY OneMore DEF Read
  <1> QED BY <1>1, OneMore, LenReplaced

\* A zone that was reset, and one that a roll has put a superblock on.
LEMMA FreshZone ==
    /\ Blank \in ZoneState
    /\ Blank.status = "none" /\ Blank.len = 0 /\ Blank.seq = 0
    /\ \A s \in Seqs :
         /\ Read(Blank, Super(s)) \in ZoneState
         /\ Read(Blank, Super(s)).status = "none"
         /\ Read(Blank, Super(s)).len = 1
         /\ Read(Blank, Super(s)).seq = s
  <1>1. /\ 0 \in Lens /\ 1 \in Lens /\ 0 \in Seqs /\ "none" \in Statuses
        /\ {} \in IdSets /\ NoFiles \in FileMaps
    BY Consts DEF Lens, Seqs, Statuses, IdSets, NoFiles, FileMaps
  <1>2. NoLinks \in LinkMaps
    BY FewNames DEF NoLinks, LinkMaps
  <1>3. [i \in FileId |-> 0] \in VerMaps
    BY Consts DEF VerMaps
  <1>4. /\ Blank \in ZoneState
        /\ Blank.status = "none" /\ Blank.len = 0 /\ Blank.seq = 0
    BY <1>1, <1>2, <1>3 DEF Blank, ZoneState
  <1> DEFINE one == 1
  <1>5. one \in Lens
    BY <1>1
  <1>6. ASSUME NEW s \in Seqs
        PROVE  Read(Blank, Super(s)) = [Blank EXCEPT !.len = one, !.seq = s]
    BY <1>4 DEF Read, Super
  <1> HIDE DEF one
  <1>7. ASSUME NEW s \in Seqs
        PROVE  LET u == Read(Blank, Super(s))
               IN  u \in ZoneState /\ u.len = one /\ u.seq = s /\ u.status = "none"
    BY <1>4, <1>5, <1>6 DEF ZoneState
  <1> QED BY <1>4, <1>7 DEF one

\* An end record, in a zone that can still be read.
LEMMA ReadEnd ==
    ASSUME NEW st \in ZoneState, st.len < ZoneCap, st.len # 0, st.status \in {"none", "ok"}
    PROVE  LET u == Read(st, End)
           IN  /\ u \in ZoneState /\ u.len # 0 /\ u.seq = st.seq
               /\ u.status = IF st.status = "ok" THEN "ended" ELSE "empty"
               /\ u.files = st.files /\ u.links = st.links /\ u.ver = st.ver
               /\ u.ids = st.ids
  <1> DEFINE x == IF st.status = "ok" THEN "ended" ELSE "empty"
  <1>1. Decode(st, End) = [st EXCEPT !.status = x]
    BY ZoneFields DEF Decode, End
  <1>2. x \in Statuses
    BY DEF Statuses
  <1> HIDE DEF x
  <1>3. LET d == Decode(st, End)
        IN  /\ d \in ZoneState /\ d.len = st.len /\ d.seq = st.seq /\ d.status = x
            /\ d.files = st.files /\ d.links = st.links /\ d.ver = st.ver
            /\ d.ids = st.ids
    BY <1>1, <1>2, StatusReplaced
  <1> QED BY <1>3, ReadMore DEF x

\* An end record in any zone.
LEMMA ReadAnyEnd ==
    ASSUME NEW st \in ZoneState, st.len < ZoneCap
    PROVE  Read(st, End) \in ZoneState /\ Read(st, End).len # 0
  <1>1. CASE st.len = 0
    <2> DEFINE x == "corrupt"
               c == [st EXCEPT !.status = x]
    <2>1. Read(st, End) = [c EXCEPT !.len = 1] /\ x \in Statuses
      BY <1>1 DEF Read, End, Corrupt, Statuses
    <2> HIDE DEF x, c
    <2>2. c \in ZoneState
      BY <2>1, StatusReplaced DEF c
    <2> QED BY <2>1, <2>2, OneMore, LenReplaced
  <1>2. CASE st.len # 0 /\ st.status \notin {"none", "ok"}
    <2>1. Decode(st, End) = st
      BY <1>2 DEF Decode
    <2> QED BY <1>2, <2>1, ReadMore
  <1> QED BY <1>1, <1>2, ReadEnd

\* An end record in a zone with a snapshot, whether or not it has one already.
LEMMA ReadLastEnd ==
    ASSUME NEW st \in ZoneState, st.len < ZoneCap, st.len # 0, st.status \in {"ok", "ended"}
    PROVE  LET u == Read(st, End)
           IN  /\ u \in ZoneState /\ u.seq = st.seq /\ u.status = "ended"
               /\ u.files = st.files /\ u.links = st.links /\ u.ver = st.ver
               /\ u.ids = st.ids
  <1>1. CASE st.status = "ok"
    BY <1>1, ReadEnd
  <1>2. CASE st.status = "ended"
    <2>1. Decode(st, End) = st
      BY <1>2 DEF Decode
    <2> QED BY <1>2, <2>1, ReadMore
  <1> QED BY <1>1, <1>2

\* A record that was not written whole.
LEMMA ReadTorn ==
    ASSUME NEW st \in ZoneState, st.len < ZoneCap
    PROVE  LET u == Read(st, Torn)
           IN  /\ u \in ZoneState /\ u.len # 0 /\ u.seq = st.seq
               /\ u.status = IF st.len # 0 /\ st.status \in {"none", "ok"} THEN "torn"
                             ELSE st.status
               /\ u.files = st.files /\ u.links = st.links /\ u.ver = st.ver
               /\ u.ids = st.ids
  <1>1. CASE st.len # 0 /\ st.status \in {"none", "ok"}
    <2>1. Decode(st, Torn) = [st EXCEPT !.status = "torn"]
      BY <1>1 DEF Decode, Torn
    <2>2. "torn" \in Statuses
      BY DEF Statuses
    <2>3. LET d == Decode(st, Torn)
          IN  /\ d \in ZoneState /\ d.len = st.len /\ d.seq = st.seq /\ d.status = "torn"
              /\ d.files = st.files /\ d.links = st.links /\ d.ver = st.ver
              /\ d.ids = st.ids
      BY <2>1, <2>2, StatusReplaced
    <2> QED BY <1>1, <2>3, ReadMore
  <1>2. CASE st.len # 0 /\ st.status \notin {"none", "ok"}
    <2>1. Decode(st, Torn) = st
      BY <1>2 DEF Decode
    <2> QED BY <1>2, <2>1, ReadMore
  <1>3. CASE st.len = 0
    <2>1. Read(st, Torn) = [st EXCEPT !.len = 1]
      BY <1>3 DEF Read, Torn
    <2> QED BY <1>3, <2>1, LenReplaced, OneMore
  <1> QED BY <1>1, <1>2, <1>3

\* A snapshot.
LEMMA ReadSnapshot ==
    ASSUME NEW st \in ZoneState, st.len < ZoneCap, st.len # 0, st.status \in {"none", "ok"},
           NEW f \in FileMaps, NEW l \in LinkMaps, NEW v \in VerMaps
    PROVE  LET u == Read(st, Snapshot(f, l, v))
           IN  /\ u \in ZoneState /\ u.len # 0 /\ u.seq = st.seq /\ u.status = "ok"
               /\ u.files = f /\ u.links = l /\ u.ver = v
               /\ \A n \in Name : f[n] # None => f[n] \in u.ids
  <1> DEFINE r == Snapshot(f, l, v)
             x == "ok"
             new == st.ids \union ({f[n] : n \in Name} \ {None})
  <1>1. new \in IdSets
    BY ZoneFields DEF IdSets, FileMaps
  <1>2. Decode(st, r) = [st EXCEPT !.status = x, !.files = f, !.links = l, !.ver = v,
                                   !.ids = new]
    BY DEF Decode, DecodeSnapshotFrom, Snapshot
  <1>3. \A n \in Name : f[n] # None => f[n] \in new
    OBVIOUS
  <1>4. x \in Statuses
    BY DEF Statuses
  <1> HIDE DEF new, r, x
  <1>5. LET d == Decode(st, r)
        IN  /\ d \in ZoneState /\ d.len = st.len /\ d.seq = st.seq /\ d.status = x
            /\ d.files = f /\ d.links = l /\ d.ver = v /\ d.ids = new
    BY <1>1, <1>2, <1>4 DEF ZoneState
  <1> QED BY <1>3, <1>5, ReadMore DEF r, x

\* The parts of an update, and what they are.
LEMMA UpdateParts ==
    ASSUME NEW st \in ZoneState, NEW id \in FileId, NEW l \in Seq(Name), NEW v \in 0..MaxVer
    PROVE  /\ [st.links EXCEPT ![id] = l] \in LinkMaps
           /\ [st.ver EXCEPT ![id] = v] \in VerMaps
           /\ st.ids \union {id} \in IdSets
  BY ZoneFields DEF LinkMaps, VerMaps, IdSets

\* An update in a zone with or without an error.
LEMMA DecodeUpdate ==
    ASSUME NEW st \in ZoneState, NEW id \in FileId, NEW l \in Seq(Name), NEW v \in 0..MaxVer
    PROVE  LET d == DecodeFileUpdateFrom(st, Update(id, l, v))
           IN  /\ d \in ZoneState /\ d.len = st.len /\ d.seq = st.seq
               /\ d.status \in {st.status, "corrupt"}
  <1> DEFINE r == Update(id, l, v)
             known == \E n \in Name : st.files[n] = id
             stale == ToSet(st.links[id])
             F == [n \in Name |->
                     LET free == st.files[n] = None \/ (known /\ n \in stale)
                         bind == IF known THEN n \in ToSet(l) ELSE n = l[1]
                     IN  IF ~free THEN st.files[n] ELSE IF bind THEN id ELSE None]
             K == [st.links EXCEPT ![id] = l]
             W == [st.ver EXCEPT ![id] = v]
             I == st.ids \union {id}
  <1>1. F \in FileMaps
    <2>1. st.files \in FileMaps
      BY ZoneFields
    <2> QED BY <2>1 DEF FileMaps
  <1>2. K \in LinkMaps /\ W \in VerMaps /\ I \in IdSets
    BY UpdateParts
  <1>3. r.id = id /\ r.links = l /\ r.ver = v
    BY DEF Update
  <1> HIDE DEF r
  <1>4. \/ DecodeFileUpdateFrom(st, r) = Corrupt(st)
        \/ DecodeFileUpdateFrom(st, r)
               = [st EXCEPT !.files = F, !.links = K, !.ver = W, !.ids = I]
    BY <1>3 DEF DecodeFileUpdateFrom
  <1> HIDE DEF F, K, W, I
  <1>5. CASE DecodeFileUpdateFrom(st, r) = Corrupt(st)
    <2> DEFINE x == "corrupt"
    <2>1. Corrupt(st) = [st EXCEPT !.status = x] /\ x \in Statuses
      BY DEF Corrupt, Statuses
    <2> HIDE DEF x
    <2>2. LET d == Corrupt(st)
          IN  d \in ZoneState /\ d.len = st.len /\ d.seq = st.seq /\ d.status = x
      BY <2>1, StatusReplaced
    <2> QED BY <1>5, <2>2 DEF x, r
  <1>6. CASE DecodeFileUpdateFrom(st, r)
               = [st EXCEPT !.files = F, !.links = K, !.ver = W, !.ids = I]
    BY <1>1, <1>2, <1>6 DEF r, ZoneState
  <1> QED BY <1>4, <1>5, <1>6

\* A deletion in a zone with or without an error.
LEMMA DecodeDeletion ==
    ASSUME NEW st \in ZoneState, NEW id \in FileId, NEW m \in Name
    PROVE  LET d == DecodeFileDeletionFrom(st, Deletion(id, m))
           IN  /\ d \in ZoneState /\ d.len = st.len /\ d.seq = st.seq
               /\ d.status \in {st.status, "corrupt"}
               /\ st.files[m] = id =>
                    /\ d.status = st.status
                    /\ d.files = [st.files EXCEPT ![m] = None]
                    /\ d.links = [st.links EXCEPT ![id] = RemoveFirst(@, m)]
                    /\ d.ver = st.ver /\ d.ids = st.ids
  <1> DEFINE r == Deletion(id, m)
             F == [st.files EXCEPT ![m] = None]
             K == [st.links EXCEPT ![id] = RemoveFirst(@, m)]
  <1>1. F \in FileMaps
    <2>1. st.files \in FileMaps
      BY ZoneFields
    <2> QED BY <2>1 DEF FileMaps
  <1>2. K \in LinkMaps
    <2>1. st.links \in [FileId -> Seq(Name)]
      BY ZoneFields DEF LinkMaps
    <2>2. RemoveFirst(st.links[id], m) \in Seq(Name)
      BY <2>1, RemoveNames
    <2> QED BY <2>1, <2>2 DEF LinkMaps
  <1>3. r.id = id /\ r.name = m
    BY DEF Deletion
  <1> HIDE DEF r
  <1>4. CASE st.files[m] # id
    <2> DEFINE x == "corrupt"
    <2>1. DecodeFileDeletionFrom(st, r) = [st EXCEPT !.status = x] /\ x \in Statuses
      BY <1>3, <1>4 DEF DecodeFileDeletionFrom, Corrupt, Statuses
    <2> HIDE DEF x
    <2>2. LET d == DecodeFileDeletionFrom(st, r)
          IN  d \in ZoneState /\ d.len = st.len /\ d.seq = st.seq /\ d.status = x
      BY <2>1, StatusReplaced
    <2> QED BY <1>4, <2>2 DEF x, r
  <1>5. CASE st.files[m] = id
    <2>1. DecodeFileDeletionFrom(st, r) = [st EXCEPT !.files = F, !.links = K]
      BY <1>3, <1>5 DEF DecodeFileDeletionFrom
    <2> HIDE DEF F, K
    <2>2. LET d == DecodeFileDeletionFrom(st, r)
          IN  /\ d \in ZoneState /\ d.len = st.len /\ d.seq = st.seq /\ d.status = st.status
              /\ d.files = F /\ d.links = K /\ d.ver = st.ver /\ d.ids = st.ids
      BY <1>1, <1>2, <2>1 DEF ZoneState
    <2> QED BY <2>2 DEF r, F, K
  <1> QED BY <1>4, <1>5

\* The part of it that needs no name to be bound.
LEMMA DecodeAnyDeletion ==
    ASSUME NEW st \in ZoneState, NEW id \in FileId, NEW m \in Name
    PROVE  LET d == DecodeFileDeletionFrom(st, Deletion(id, m))
           IN  /\ d \in ZoneState /\ d.len = st.len /\ d.seq = st.seq
               /\ d.status \in {st.status, "corrupt"}
  BY DecodeDeletion

\* A record of an operation never looks like an end record or a torn one.
LEMMA ReadRecord ==
    ASSUME NEW st \in ZoneState, st.len < ZoneCap, NEW r,
           \/ \E id \in FileId, m \in Name : r = Deletion(id, m)
           \/ \E id \in FileId, l \in Seq(Name), v \in 0..MaxVer : r = Update(id, l, v)
    PROVE  LET u == Read(st, r)
           IN  /\ u \in ZoneState /\ u.len # 0 /\ u.seq = st.seq
               /\ u.status \in {st.status, "corrupt"}
  <1>1. CASE st.len = 0
    <2> DEFINE x == "corrupt"
               one == 1
               c == [st EXCEPT !.status = x]
    <2>1. Read(st, r) = [c EXCEPT !.len = one] /\ x \in Statuses
      BY <1>1 DEF Read, Deletion, Update, Corrupt, Statuses
    <2>2. one \in Lens /\ one # 0
      BY OneMore
    <2> HIDE DEF x, one, c
    <2>3. c \in ZoneState /\ c.len = st.len /\ c.seq = st.seq /\ c.status = x
      BY <2>1, StatusReplaced DEF c
    <2>4. LET u == Read(st, r)
          IN  u \in ZoneState /\ u.len = one /\ u.seq = st.seq /\ u.status = x
      BY <2>1, <2>2, <2>3, LenReplaced
    <2> QED BY <2>2, <2>4 DEF x
  <1>2. CASE st.len # 0 /\ st.status \notin {"none", "ok"}
    <2>1. Decode(st, r) = st
      BY <1>2 DEF Decode
    <2> QED BY <1>2, <2>1, ReadMore
  <1>3. CASE st.len # 0 /\ st.status \in {"none", "ok"}
    <2>1. LET d == Decode(st, r)
          IN  d \in ZoneState /\ d.len = st.len /\ d.seq = st.seq
              /\ d.status \in {st.status, "corrupt"}
      <3>1. CASE \E id \in FileId, m \in Name : r = Deletion(id, m)
        <4>1. PICK id \in FileId, m \in Name : r = Deletion(id, m)
          BY <3>1
        <4>2. Decode(st, r) = DecodeFileDeletionFrom(st, Deletion(id, m))
          BY <1>3, <4>1 DEF Decode, Deletion
        <4> QED BY <4>2, DecodeAnyDeletion
      <3>2. CASE \E id \in FileId, l \in Seq(Name), v \in 0..MaxVer : r = Update(id, l, v)
        <4>1. PICK id \in FileId, l \in Seq(Name), v \in 0..MaxVer : r = Update(id, l, v)
          BY <3>2
        <4>2. Decode(st, r) = DecodeFileUpdateFrom(st, Update(id, l, v))
          BY <1>3, <4>1 DEF Decode, Update
        <4> QED BY <4>2, DecodeUpdate
      <3> QED BY <3>1, <3>2
    <2> QED BY <1>3, <2>1, ReadMore
  <1> QED BY <1>1, <1>2, <1>3

\* A deletion of a name that is bound.
LEMMA ReadDeletion ==
    ASSUME NEW st \in ZoneState, st.len < ZoneCap, st.len # 0, st.status = "ok",
           NEW id \in FileId, NEW m \in Name, st.files[m] = id
    PROVE  LET u == Read(st, Deletion(id, m))
           IN  /\ u.status = "ok"
               /\ u.files = [st.files EXCEPT ![m] = None]
               /\ u.links = [st.links EXCEPT ![id] = RemoveFirst(@, m)]
               /\ u.ver = st.ver /\ u.ids = st.ids
  <1>1. Decode(st, Deletion(id, m)) = DecodeFileDeletionFrom(st, Deletion(id, m))
    BY DEF Decode, Deletion
  <1> QED BY <1>1, DecodeDeletion, ReadMore

\* An update that binds the names of file id as in f, where f differs from what
\* the zone reads as in names of file id only, and a new file has one name.
LEMMA ReadUpdate ==
    ASSUME NEW st \in ZoneState, st.len < ZoneCap, st.len # 0, st.status = "ok",
           NEW id \in FileId, NEW l \in Seq(Name), NEW v \in 0..MaxVer, NEW f \in FileMaps,
           \A n \in Name : st.files[n] = id <=> n \in ToSet(st.links[id]),
           \A n \in Name : f[n] = id <=> n \in ToSet(l),
           \A n \in Name : \/ st.files[n] = f[n]
                           \/ st.files[n] \in {None, id} /\ f[n] \in {None, id},
           (\E n \in Name : st.files[n] = id) \/ ToSet(l) = {l[1]}
    PROVE  LET u == Read(st, Update(id, l, v))
           IN  /\ u.status = "ok" /\ u.files = f
               /\ u.links = [st.links EXCEPT ![id] = l]
               /\ u.ver = [st.ver EXCEPT ![id] = v]
               /\ u.ids = st.ids \union {id}
  <1> DEFINE r == Update(id, l, v)
             known == \E n \in Name : st.files[n] = id
             stale == ToSet(st.links[id])
             F == [n \in Name |->
                     LET free == st.files[n] = None \/ (known /\ n \in stale)
                         bind == IF known THEN n \in ToSet(l) ELSE n = l[1]
                     IN  IF ~free THEN st.files[n] ELSE IF bind THEN id ELSE None]
             K == [st.links EXCEPT ![id] = l]
             W == [st.ver EXCEPT ![id] = v]
             I == st.ids \union {id}
  <1>1. K \in LinkMaps /\ W \in VerMaps /\ I \in IdSets
    BY UpdateParts
  <1>2. st.links[id] \in Seq(Name) /\ id # None
    BY ZoneFields, NoneIsNothing DEF LinkMaps
  <1>3. \A n \in stale : n \in Name
    BY <1>2 DEF ToSet
  <1>4. F = f
    <2>1. ASSUME NEW n \in Name
          PROVE  F[n] = f[n]
      <3>1. CASE known
        BY <1>2, <3>1
      <3>2. CASE ~known
        BY <1>2, <3>2
      <3> QED BY <3>1, <3>2
    <2>2. f = [n \in Name |-> f[n]]
      BY DEF FileMaps
    <2>3. F = [n \in Name |-> F[n]]
      OBVIOUS
    <2> HIDE DEF F
    <2> QED BY <2>1, <2>2, <2>3
  <1>5. r.id = id /\ r.links = l /\ r.ver = v
    BY DEF Update
  <1>6. Decode(st, r) = DecodeFileUpdateFrom(st, r)
    BY DEF Decode, Update
  <1>7. ~(known /\ \E n \in stale : st.files[n] = None)
    BY <1>2, <1>3
  <1> HIDE DEF r
  <1>8. DecodeFileUpdateFrom(st, r) = [st EXCEPT !.files = F, !.links = K, !.ver = W, !.ids = I]
    BY <1>5, <1>7 DEF DecodeFileUpdateFrom
  <1> HIDE DEF F, K, W, I
  <1>9. LET d == Decode(st, r)
        IN  /\ d \in ZoneState /\ d.len = st.len /\ d.status = st.status
            /\ d.files = f /\ d.links = K /\ d.ver = W /\ d.ids = I
    <2>1. Decode(st, r) = [st EXCEPT !.files = f, !.links = K, !.ver = W, !.ids = I]
      BY <1>4, <1>6, <1>8
    <2>2. f \in FileMaps
      OBVIOUS
    <2> QED BY ONLY <1>1, <2>1, <2>2, st \in ZoneState DEF ZoneState
  <1> QED BY <1>9, ReadMore DEF r, K, W, I

-----------------------------------------------------------------------------
(* The zone a mount recovers from.                                          *)

\* If a zone decides, there is a newest one.
LEMMA LatestExists ==
    ASSUME log \in [MetaZone -> ZoneState], Decisive # {}
    PROVE  Latest \in Decisive
  <1> DEFINE S == {log[z].seq : z \in Decisive}
  <1>1. Decisive \subseteq MetaZone /\ MetaZone \subseteq Nat
    BY DEF Decisive, Valid, MetaZone
  <1>2. \A z \in Decisive : log[z].seq \in Nat /\ log[z].seq <= MaxSeq + 1
    BY <1>1, ZoneFields DEF Seqs
  <1>3. PICK s \in S : \A t \in S : t <= s
    <2>1. S \in SUBSET Nat /\ S # {} /\ \A x \in S : x <= MaxSeq + 1
      BY <1>2
    <2>2. MaxSeq + 1 \in Nat
      BY Consts
    <2> HIDE DEF S
    <2> QED BY <2>1, <2>2, GreatestElement
  <1> DEFINE Z == {z \in Decisive : log[z].seq = s}
  <1>4. PICK z \in Z : \A y \in Z : y <= z
    <2>1. Z \in SUBSET Nat /\ Z # {} /\ \A x \in Z : x <= NrMetaZones
      <3>1. Z # {}
        BY <1>3
      <3>2. Z \subseteq MetaZone
        BY <1>1
      <3> HIDE DEF Z
      <3> QED BY <3>1, <3>2 DEF MetaZone
    <2>2. NrMetaZones \in Nat
      BY Consts
    <2> HIDE DEF Z
    <2> QED BY <2>1, <2>2, GreatestElement
  <1>5. z \in Decisive
    OBVIOUS
  <1>6. ASSUME NEW y \in Decisive \ {z}
        PROVE  Newer(z, y)
    <2>1. log[y].seq \in S /\ log[z].seq = s
      OBVIOUS
    <2>2. log[y].seq <= log[z].seq /\ log[y].seq \in Nat /\ log[z].seq \in Nat
      BY <1>2, <1>3, <1>5, <2>1
    <2>3. log[y].seq = log[z].seq => y <= z
      BY <1>4, <2>1
    <2>4. y \in Nat /\ z \in Nat /\ y # z
      BY <1>1, <1>5
    <2>5. log[y].seq = log[z].seq => z > y
      BY <2>3, <2>4
    <2>6. log[z].seq > log[y].seq \/ log[y].seq = log[z].seq
      BY <2>2
    <2> QED BY <2>5, <2>6 DEF Newer
  <1> QED BY <1>5, <1>6 DEF Latest

\* The newest zone is the one that is found.
LEMMA NewestIsLatest ==
    ASSUME log \in [MetaZone -> ZoneState], NEW z, Newest(z)
    PROVE  Latest = z /\ Foreign = {} /\ Decisive # {}
  <1>1. z \in Decisive
    BY DEF Newest, Decisive, Valid
  <1>2. Decisive \subseteq MetaZone
    BY DEF Decisive, Valid
  <1>3. Latest \in Decisive /\ \A y \in Decisive \ {Latest} : Newer(Latest, y)
    <2>1. ASSUME NEW y \in Decisive \ {z}
          PROVE  Newer(z, y)
      <3>1. log[y].seq < log[z].seq
        BY <1>2 DEF Newest, Decisive
      <3> QED BY <1>1, <1>2, <3>1, ZoneFields DEF Newer
    <2> QED BY <1>1, <2>1 DEF Latest
  <1>4. Latest = z
    <2> SUFFICES ASSUME Latest # z PROVE FALSE
      OBVIOUS
    <2>1. log[Latest].seq < log[z].seq /\ Latest \in MetaZone /\ z \in MetaZone
      BY <1>1, <1>2, <1>3 DEF Newest, Decisive
    <2>2. Newer(Latest, z)
      BY <1>1, <1>3
    <2>3. log[Latest].seq \in Nat /\ log[z].seq \in Nat
      BY <2>1, ZoneFields
    <2> QED BY <2>1, <2>2, <2>3 DEF Newer
  <1>5. Foreign = {}
    <2> SUFFICES ASSUME NEW y \in MetaZone, log[y].seq = 0, log[y].status = "corrupt"
                 PROVE  FALSE
      BY DEF Foreign
    <2> QED BY ZoneFields DEF Newest
  <1> QED BY <1>1, <1>4, <1>5

-----------------------------------------------------------------------------
(* Types.                                                                   *)

\* What a state of the right type is made of.
LEMMA TypeFacts ==
    ASSUME TypeOK
    PROVE  /\ log \in [MetaZone -> ZoneState]
           /\ files \in [Name -> FileId \union {None}]
           /\ links \in [FileId -> Seq(Name)]
           /\ ver \in [FileId -> 0..MaxVer]
           /\ \A n \in Name : files[n] # None => files[n] \in FileId
           /\ next_id \in Nat
  BY DEF TypeOK, FileMaps, LinkMaps, VerMaps

\* A name is bound to a file or to none.
LEMMA Rebound ==
    ASSUME NEW f \in FileMaps, NEW n \in Name, NEW x \in FileId \union {None}
    PROVE  [f EXCEPT ![n] = x] \in FileMaps
  BY DEF FileMaps

\* The first mount finds every initial name, each a file of its own.
LEMMA InitialFiles ==
    /\ InitSnapshot.files \in FileMaps /\ InitSnapshot.links \in LinkMaps
    /\ InitSnapshot.ver \in VerMaps
    /\ InitSnapshot = Snapshot(InitSnapshot.files, InitSnapshot.links, InitSnapshot.ver)
    /\ Agrees(InitSnapshot.files, InitSnapshot.links)
  <1> DEFINE N == Len(InitFiles)
             F == [n \in Name |-> IF n \in ToSet(InitFiles)
                                  THEN CHOOSE i \in FileId : i <= N /\ InitFiles[i] = n
                                  ELSE None]
             K == [i \in FileId |-> IF i <= N THEN <<InitFiles[i]>> ELSE <<>>]
             V == [i \in FileId |-> 0]
  <1>1. /\ N \in Nat /\ N <= MaxId /\ MaxId \in Nat
        /\ InitFiles \in Seq(Name) /\ DOMAIN InitFiles = 1..N
        /\ \A i \in 1..N : InitFiles[i] \in Name
        /\ \A i, j \in 1..N : InitFiles[i] = InitFiles[j] => i = j
    BY MetaAssumption, LenProperties DEF IsInjective
  <1>2. InitSnapshot = Snapshot(F, K, V)
    BY DEF InitSnapshot
  <1>3. InitSnapshot.files = F /\ InitSnapshot.links = K /\ InitSnapshot.ver = V
    BY <1>2 DEF Snapshot
  <1>4. ASSUME NEW n \in Name, n \in ToSet(InitFiles)
        PROVE  F[n] \in FileId /\ F[n] <= N /\ InitFiles[F[n]] = n
    <2>1. \E i \in FileId : i <= N /\ InitFiles[i] = n
      BY <1>1, <1>4 DEF ToSet, FileId
    <2>2. F[n] = CHOOSE i \in FileId : i <= N /\ InitFiles[i] = n
      BY <1>4
    <2> QED BY <2>1, <2>2
  <1>5. \A n \in Name : n \notin ToSet(InitFiles) => F[n] = None
    OBVIOUS
  <1>6. \A i \in FileId : K[i] = IF i <= N THEN <<InitFiles[i]>> ELSE <<>>
    OBVIOUS
  <1>7. F = [n \in Name |-> F[n]] /\ K = [i \in FileId |-> K[i]]
    OBVIOUS
  <1> HIDE DEF F, K, N
  <1>8. F \in FileMaps
    BY <1>4, <1>5, <1>7 DEF FileMaps
  <1>9. ASSUME NEW i \in FileId
        PROVE  /\ K[i] \in Seq(Name) /\ IsInjective(K[i])
               /\ ToSet(K[i]) = IF i <= N THEN {InitFiles[i]} ELSE {}
    <2>1. CASE i <= N
      <3>1. InitFiles[i] \in Name
        BY <1>1, <2>1 DEF FileId
      <3> QED BY <1>6, <2>1, <3>1, FewNames
    <2>2. CASE ~(i <= N)
      BY <1>6, <2>2, FewNames
    <2> QED BY <2>1, <2>2
  <1>10. K \in LinkMaps
    BY <1>7, <1>9 DEF LinkMaps
  <1>11. V \in VerMaps
    BY Consts DEF VerMaps
  <1>12. ASSUME NEW n \in Name, NEW i \in FileId
         PROVE  F[n] = i <=> n \in ToSet(K[i])
    <2>1. CASE n \in ToSet(InitFiles)
      <3>1. F[n] \in 1..N /\ InitFiles[F[n]] = n
        BY <1>1, <1>4, <2>1 DEF FileId
      <3>2. i <= N => i \in 1..N
        BY <1>1 DEF FileId
      <3>3. i <= N /\ InitFiles[i] = n => F[n] = i
        BY <1>1, <3>1, <3>2
      <3>4. F[n] = i => i <= N /\ InitFiles[i] = n
        BY <1>4, <2>1
      <3> QED BY <1>9, <3>3, <3>4
    <2>2. CASE n \notin ToSet(InitFiles)
      <3>1. F[n] # i
        BY <1>5, <2>2, NoneIsNothing
      <3>2. i <= N => InitFiles[i] # n
        BY <1>1, <2>2 DEF ToSet, FileId
      <3> QED BY <1>9, <3>1, <3>2
    <2> QED BY <2>1, <2>2
  <1>13. Agrees(F, K)
    BY <1>9, <1>12 DEF Agrees
  <1> QED BY <1>2, <1>3, <1>8, <1>10, <1>11, <1>13

\* The first zone at first: a superblock and a snapshot.
LEMMA InitialLog ==
    ASSUME Init
    PROVE  /\ 1 \in MetaZone /\ log \in [MetaZone -> ZoneState]
           /\ \A z \in MetaZone \ {1} : log[z] = Blank
           /\ log[1].status = "ok" /\ log[1].seq = 1 /\ log[1].len # 0
           /\ log[1].files = InitSnapshot.files /\ log[1].links = InitSnapshot.links
           /\ log[1].ver = InitSnapshot.ver
           /\ \A n \in Name : log[1].files[n] # None => log[1].files[n] \in log[1].ids
  <1> DEFINE first == Read(Blank, Super(1))
             u == Read(first, InitSnapshot)
  <1>1. 1 \in MetaZone /\ 1 \in Seqs /\ 1 < ZoneCap
    BY Consts DEF MetaZone, Seqs
  <1>2. first \in ZoneState /\ first.status = "none" /\ first.len = 1 /\ first.seq = 1
    BY <1>1, FreshZone
  <1> HIDE DEF first
  <1>3. /\ u \in ZoneState /\ u.len # 0 /\ u.seq = 1 /\ u.status = "ok"
        /\ u.files = InitSnapshot.files /\ u.links = InitSnapshot.links
        /\ u.ver = InitSnapshot.ver
        /\ \A n \in Name : InitSnapshot.files[n] # None => InitSnapshot.files[n] \in u.ids
    <2> DEFINE F == InitSnapshot.files
               K == InitSnapshot.links
               V == InitSnapshot.ver
    <2>1. F \in FileMaps /\ K \in LinkMaps /\ V \in VerMaps /\ u = Read(first, Snapshot(F, K, V))
      BY InitialFiles
    <2>2. first.len < ZoneCap /\ first.len # 0 /\ first.status \in {"none", "ok"}
      BY <1>1, <1>2
    <2> HIDE DEF F, K, V, u
    <2>3. /\ u \in ZoneState /\ u.len # 0 /\ u.seq = first.seq /\ u.status = "ok"
          /\ u.files = F /\ u.links = K /\ u.ver = V
          /\ \A n \in Name : F[n] # None => F[n] \in u.ids
      BY <1>2, <2>1, <2>2, ReadSnapshot
    <2> QED BY <1>2, <2>3 DEF F, K, V
  <1>4. log = [z \in MetaZone |-> IF z = 1 THEN u ELSE Blank]
    BY DEF Init, first
  <1> HIDE DEF u
  <1> QED BY <1>1, <1>3, <1>4, FreshZone

\* The initial states have the right type.
LEMMA TypeInit == Init => TypeInv
  <1> SUFFICES ASSUME Init PROVE TypeInv
    OBVIOUS
  <1>1. /\ files \in FileMaps /\ links \in LinkMaps /\ ver \in VerMaps
    <2>1. NoFiles \in FileMaps /\ [i \in FileId |-> 0] \in VerMaps
      BY Consts DEF NoFiles, FileMaps, VerMaps
    <2>2. NoLinks \in LinkMaps
      BY FewNames DEF NoLinks, LinkMaps
    <2> QED BY <2>1, <2>2 DEF Init
  <1>2. TypeOK
    BY <1>1, InitialLog, Consts DEF Init, TypeOK
  <1>3. OpShape
    BY Consts DEF Init, OpShape, OpSet, NoOp
  <1>4. Control
    BY DEF Init, Control, Running, Rolling, NoOp
  <1>5. RecordShape /\ RollShape
    BY DEF Init, RecordShape, RollShape
  <1>6. SeqBound
    BY Consts DEF Init, SeqBound, NoOp
  <1> QED BY <1>2, <1>3, <1>4, <1>5, <1>6 DEF TypeInv

\* A running operation begins to persist its record.
LEMMA OpStarts ==
    ASSUME TypeInv, state = "up", old = None,
           UNCHANGED <<disk, state, meta, old, seq, faults>>,
           pc' = "persist", files' \in FileMaps, links' \in LinkMaps, ver' \in VerMaps,
           next_id' \in 1..(MaxId + 1), op'.kind # "none", OpShape', RecordShape',
           seq <= MaxSeq, op'.stage = "dest" => seq < MaxSeq
    PROVE  TypeInv'
  <1>1. TypeOK'
    BY DEF TypeInv, TypeOK, disk
  <1>2. Control'
    BY DEF TypeInv, Control, Running, Rolling
  <1>3. RollShape'
    BY DEF RollShape
  <1>4. SeqBound'
    BY DEF TypeInv, SeqBound
  <1> QED BY <1>1, <1>2, <1>3, <1>4 DEF TypeInv

\* An operation is over.
LEMMA OpEnds ==
    ASSUME TypeInv, state = "up", UNCHANGED <<disk, state, meta, seq, faults, next_id>>,
           Return, old' = None, files' \in FileMaps, links' \in LinkMaps, ver' \in VerMaps
    PROVE  TypeInv'
  <1>1. TypeOK'
    BY DEF TypeInv, TypeOK, disk, Return
  <1>2. OpShape'
    BY Consts DEF OpShape, Return, NoOp, OpSet
  <1>3. Control'
    BY DEF TypeInv, Control, Running, Rolling, Return, NoOp
  <1>4. RecordShape' /\ RollShape'
    BY DEF RecordShape, RollShape, Return
  <1>5. SeqBound'
    BY DEF TypeInv, SeqBound, Return, NoOp
  <1> QED BY <1>1, <1>2, <1>3, <1>4, <1>5 DEF TypeInv

\* A device command of a roll or of an operation.
LEMMA DeviceStep ==
    ASSUME TypeInv, pc # "idle", UNCHANGED <<state, mem, op, rec>>,
           log' \in [MetaZone -> ZoneState], finished' \subseteq MetaZone,
           faults' \in 0..MaxFaults, meta' \in MetaZone, old' \in MetaZone \union {None},
           pc' \in {"alloc", "end", "super", "snapshot", "reset", "ok", "err"},
           pc' \in Rolling => old' # None /\ old' # meta',
           pc' \in {"alloc", "ok"} => old' = None,
           RollShape', SeqBound'
    PROVE  TypeInv'
  <1>1. TypeOK'
    BY DEF TypeInv, TypeOK, mem
  <1>2. OpShape'
    BY DEF TypeInv, OpShape, mem
  <1>3. Control'
    BY NoneIsNothing DEF TypeInv, Control, Running, Rolling
  <1>4. RecordShape'
    BY DEF RecordShape
  <1> QED BY <1>1, <1>2, <1>3, <1>4 DEF TypeInv

\* The process is gone.
LEMMA Forgotten ==
    ASSUME TypeInv, Forget, state' = "down", log' \in [MetaZone -> ZoneState],
           UNCHANGED <<finished, faults>>
    PROVE  TypeInv'
  <1>1. files' \in FileMaps /\ links' \in LinkMaps /\ ver' \in VerMaps
    <2>1. NoFiles \in FileMaps /\ [i \in FileId |-> 0] \in VerMaps
      BY Consts DEF NoFiles, FileMaps, VerMaps
    <2>2. NoLinks \in LinkMaps
      BY FewNames DEF NoLinks, LinkMaps
    <2> QED BY <2>1, <2>2 DEF Forget
  <1>2. TypeOK'
    BY <1>1, Consts DEF TypeInv, TypeOK, Forget, Return
  <1>3. OpShape'
    BY Consts DEF OpShape, Forget, Return, NoOp, OpSet
  <1>4. Control'
    BY DEF Control, Running, Rolling, Forget, Return, NoOp
  <1>5. RecordShape' /\ RollShape'
    BY DEF RecordShape, RollShape, Forget, Return
  <1>6. SeqBound'
    BY Consts DEF SeqBound, Forget, Return, NoOp
  <1> QED BY <1>2, <1>3, <1>4, <1>5, <1>6 DEF TypeInv

\* DeleteFileNoLock.
LEMMA DeleteBlock ==
    ASSUME TypeOK, NEW n \in Name, files[n] # None, DeleteFileNoLock(n)
    PROVE  /\ files[n] \in FileId
           /\ files' = [files EXCEPT ![n] = None] /\ files' \in FileMaps
           /\ links' = [links EXCEPT ![files[n]] = RemoveFirst(links[files[n]], n)]
           /\ links' \in LinkMaps
           /\ ver' = ver /\ next_id' = next_id
           /\ pc' = "persist" /\ rec' = Deletion(files[n], n)
  <1>1. files[n] \in FileId
    BY TypeFacts
  <1>2. files' \in FileMaps
    BY Rebound DEF TypeOK, DeleteFileNoLock
  <1>3. links' = [links EXCEPT ![files[n]] = RemoveFirst(links[files[n]], n)]
    BY DEF DeleteFileNoLock
  <1>4. RemoveFirst(links[files[n]], n) \in Seq(Name)
    BY <1>1, TypeFacts, RemoveNames
  <1>5. links' \in LinkMaps
    BY <1>1, <1>3, <1>4 DEF TypeOK, LinkMaps
  <1> QED BY <1>1, <1>2, <1>3, <1>5 DEF DeleteFileNoLock, Persist

\* CreateFile.
LEMMA CreateBlock ==
    ASSUME TypeOK, NEW n \in Name, next_id <= MaxId, CreateFile(n)
    PROVE  /\ next_id \in FileId /\ next_id' = next_id + 1 /\ next_id' \in 1..(MaxId + 1)
           /\ files' = files
           /\ links' = [links EXCEPT ![next_id] = <<n>>] /\ links' \in LinkMaps
           /\ ver' = [ver EXCEPT ![next_id] = 0] /\ ver' \in VerMaps
           /\ op' = [kind |-> "create", stage |-> "main", from |-> None, to |-> n,
                     id |-> next_id]
           /\ pc' = "persist" /\ OpShape' /\ RecordShape'
  <1>1. next_id \in FileId /\ next_id' = next_id + 1 /\ next_id' \in 1..(MaxId + 1)
    BY Consts DEF TypeOK, FileId, CreateFile
  <1>2. links' = [links EXCEPT ![next_id] = <<n>>] /\ links' \in LinkMaps
    BY <1>1, FewNames DEF TypeOK, LinkMaps, CreateFile
  <1>3. ver' = [ver EXCEPT ![next_id] = 0] /\ ver' \in VerMaps
    BY <1>1, Consts DEF TypeOK, VerMaps, CreateFile
  <1>4. op' = [kind |-> "create", stage |-> "main", from |-> None, to |-> n, id |-> next_id]
    BY DEF CreateFile, Begin
  <1>5. OpShape'
    <2>1. op' \in OpSet
      BY <1>1, <1>4, Consts DEF OpSet, OpKinds, FileId
    <2> QED BY <1>1, <1>4, <2>1 DEF OpShape
  <1>6. links'[next_id] = <<n>> /\ ver'[next_id] = 0
    BY <1>1, <1>2, <1>3 DEF TypeOK, LinkMaps, VerMaps
  <1>7. RecordShape'
    BY <1>4, <1>6 DEF RecordShape, Deletes, CreateFile, Persist
  <1> QED BY <1>1, <1>2, <1>3, <1>4, <1>5, <1>7 DEF CreateFile, Persist

\* RenameLink.
LEMMA RenameBlock ==
    ASSUME TypeOK, NEW a \in Name, NEW b \in Name, NEW id \in FileId, RenameLink(a, b, id)
    PROVE  /\ files' = [files EXCEPT ![a] = None, ![b] = id] /\ files' \in FileMaps
           /\ links' = [links EXCEPT ![id] = Append(RemoveFirst(links[id], a), b)]
           /\ links' \in LinkMaps
  <1>1. files' \in FileMaps
    BY DEF TypeOK, FileMaps, RenameLink
  <1>2. links' = [links EXCEPT ![id] = Append(RemoveFirst(links[id], a), b)]
    BY DEF RenameLink
  <1>3. Append(RemoveFirst(links[id], a), b) \in Seq(Name)
    BY TypeFacts, RemoveNames, AppendNames
  <1>4. links' \in LinkMaps
    BY <1>2, <1>3 DEF TypeOK, LinkMaps
  <1> QED BY <1>1, <1>2, <1>4 DEF RenameLink

\* The source of a rename.
LEMMA SourceBlock ==
    ASSUME TypeOK, NEW a \in Name, NEW b \in Name, files[a] # None, RenameSource(a, b)
    PROVE  /\ files[a] \in FileId /\ RenameLink(a, b, files[a])
           /\ ver' = ver /\ next_id' = next_id
           /\ op' = [kind |-> "rename", stage |-> "main", from |-> a, to |-> b,
                     id |-> files[a]]
           /\ pc' = "persist" /\ OpShape' /\ RecordShape'
  <1>1. files[a] \in FileId
    BY TypeFacts
  <1>2. op' = [kind |-> "rename", stage |-> "main", from |-> a, to |-> b, id |-> files[a]]
    BY DEF RenameSource, Begin
  <1>3. OpShape'
    <2>1. op' \in OpSet
      BY <1>1, <1>2, Consts DEF OpSet, OpKinds, FileId
    <2> QED BY <1>1, <1>2, <2>1 DEF OpShape
  <1>4. ver' = ver /\ next_id' = next_id /\ pc' = "persist" /\ RenameLink(a, b, files[a])
        /\ rec' = Update(files[a], links'[files[a]], ver[files[a]])
    BY DEF RenameSource, Persist
  <1>5. RecordShape'
    BY <1>2, <1>4 DEF RecordShape, Deletes
  <1> QED BY <1>1, <1>2, <1>3, <1>4, <1>5

\* Operations of clients that begin.
LEMMA TypeBegin ==
    ASSUME TypeInv,
           \/ \E n \in Name : DeleteFile(n) \/ OpenWritableFile(n) \/ SyncFileMetadata(n)
           \/ \E a, b \in Name : RenameFile(a, b) \/ LinkFile(a, b)
    PROVE  TypeInv'
  <1> USE DEF TypeInv
  <1>1. ASSUME NEW n \in Name, files[n] # None, Ready("delete") \/ Ready("create") \/ Ready("rename"),
               DeleteFileNoLock(n), UNCHANGED <<disk, state, meta, old, seq, faults>>,
               NEW k \in OpKinds, NEW s \in {"main", "dest"}, NEW a \in Name \union {None},
               Begin(k, s, a, n, files[n]), k = "delete" \/ s = "dest",
               s = "dest" => k \in {"create", "rename"},
               k = "create" => next_id <= MaxId,
               k = "rename" => a \in Name /\ files[a] # None
        PROVE  TypeInv'
    <2>1. state = "up" /\ old = None /\ seq < MaxSeq
      BY <1>1 DEF Ready, Control
    <2>2. /\ files[n] \in FileId /\ files' \in FileMaps /\ links' \in LinkMaps
          /\ files' = [files EXCEPT ![n] = None]
          /\ ver' = ver /\ next_id' = next_id
          /\ pc' = "persist" /\ rec' = Deletion(files[n], n)
      BY <1>1, DeleteBlock
    <2>3. op' = [kind |-> k, stage |-> s, from |-> a, to |-> n, id |-> files[n]]
      BY <1>1 DEF Begin
    <2>4. op'.kind = k /\ op'.stage = s /\ op'.from = a /\ op'.to = n /\ op'.id = files[n]
      BY <2>3
    <2>5. op' \in OpSet
      BY <2>2, <2>3, Consts DEF OpSet, FileId
    <2>6. k # "none"
      BY DEF OpKinds
    <2>7. k = "rename" /\ a # n => files'[a] # None
      BY <1>1, <2>2 DEF TypeOK, FileMaps
    <2>8. OpShape'
      BY <1>1, <2>2, <2>4, <2>5, <2>7 DEF OpShape
    <2>9. RecordShape'
      BY <1>1, <2>2, <2>4 DEF RecordShape, Deletes
    <2>10. ver' \in VerMaps /\ next_id' \in 1..(MaxId + 1)
      BY <2>2 DEF TypeOK
    <2>11. seq <= MaxSeq
      BY <2>1, Consts DEF SeqBound
    <2> QED BY <1>1, <2>1, <2>2, <2>4, <2>6, <2>8, <2>9, <2>10, <2>11, OpStarts
  <1>2. ASSUME NEW k, Ready(k)
        PROVE  state = "up" /\ old = None /\ seq <= MaxSeq
    BY <1>2, Consts DEF Ready, Control, SeqBound
  <1>3. ASSUME NEW n \in Name, DeleteFile(n)
        PROVE  TypeInv'
    <2>1. "delete" \in OpKinds /\ "main" \in {"main", "dest"}
      BY DEF OpKinds
    <2> QED BY <1>1, <1>3, <2>1 DEF DeleteFile
  <1>4. ASSUME NEW n \in Name, OpenWritableFile(n)
        PROVE  TypeInv'
    <2>1. Ready("create") /\ next_id <= MaxId /\ UNCHANGED <<disk, state, meta, old, seq, acked, faults>>
      BY <1>4 DEF OpenWritableFile
    <2>2. CASE files[n] # None
      <3>1. "create" \in OpKinds /\ "dest" \in {"main", "dest"}
        BY DEF OpKinds
      <3>2. DeleteFileNoLock(n) /\ Begin("create", "dest", None, n, files[n])
        BY <1>4, <2>2 DEF OpenWritableFile
      <3> QED BY <1>1, <2>1, <2>2, <3>1, <3>2
    <2>3. CASE files[n] = None
      <3>1. CreateFile(n)
        BY <1>4, <2>3 DEF OpenWritableFile
      <3>2. state = "up" /\ old = None /\ seq <= MaxSeq
        BY <1>2, <2>1
      <3>3. /\ next_id' \in 1..(MaxId + 1) /\ files' = files
            /\ links' \in LinkMaps /\ ver' \in VerMaps
            /\ op' = [kind |-> "create", stage |-> "main", from |-> None, to |-> n,
                      id |-> next_id]
            /\ pc' = "persist" /\ OpShape' /\ RecordShape'
        BY <2>1, <3>1, CreateBlock
      <3>4. files' \in FileMaps /\ op'.kind # "none" /\ op'.stage # "dest"
        BY <3>3 DEF TypeOK
      <3> QED BY <2>1, <3>2, <3>3, <3>4, OpStarts
    <2> QED BY <2>2, <2>3
  <1>5. ASSUME NEW a \in Name, NEW b \in Name, RenameFile(a, b)
        PROVE  TypeInv'
    <2>1. Ready("rename") /\ files[a] # None /\ UNCHANGED <<disk, state, meta, old, seq, acked, faults>>
      BY <1>5 DEF RenameFile
    <2>2. CASE files[b] # None
      <3>1. "rename" \in OpKinds /\ "dest" \in {"main", "dest"}
        BY DEF OpKinds
      <3>2. DeleteFileNoLock(b) /\ Begin("rename", "dest", a, b, files[b])
        BY <1>5, <2>2 DEF RenameFile
      <3> QED BY <1>1, <2>1, <2>2, <3>1, <3>2
    <2>3. CASE files[b] = None
      <3>1. RenameSource(a, b)
        BY <1>5, <2>3 DEF RenameFile
      <3>2. state = "up" /\ old = None /\ seq <= MaxSeq
        BY <1>2, <2>1
      <3>3. /\ files[a] \in FileId /\ RenameLink(a, b, files[a])
            /\ ver' = ver /\ next_id' = next_id
            /\ op' = [kind |-> "rename", stage |-> "main", from |-> a, to |-> b,
                      id |-> files[a]]
            /\ pc' = "persist" /\ OpShape' /\ RecordShape'
        BY <2>1, <3>1, SourceBlock
      <3>4. files' \in FileMaps /\ links' \in LinkMaps
        BY <3>3, RenameBlock
      <3>5. op'.kind # "none" /\ op'.stage # "dest" /\ ver' \in VerMaps
            /\ next_id' \in 1..(MaxId + 1)
        BY <3>3 DEF TypeOK
      <3> QED BY <2>1, <3>2, <3>3, <3>4, <3>5, OpStarts
    <2> QED BY <2>2, <2>3
  <1>6. ASSUME NEW a \in Name, NEW b \in Name, LinkFile(a, b)
        PROVE  TypeInv'
    <2> DEFINE i == files[a]
    <2>1. /\ Ready("link") /\ i # None /\ ver' = ver /\ next_id' = next_id
          /\ UNCHANGED <<disk, state, meta, old, seq, faults>>
          /\ links' = [links EXCEPT ![i] = Append(links[i], b)]
          /\ files' = [files EXCEPT ![b] = i]
          /\ pc' = "persist" /\ rec' = Update(i, links'[i], ver[i])
          /\ op' = [kind |-> "link", stage |-> "main", from |-> a, to |-> b, id |-> i]
      BY <1>6 DEF LinkFile, Persist, Begin
    <2>2. i \in FileId
      BY <2>1, TypeFacts
    <2> HIDE DEF i
    <2>3. state = "up" /\ old = None /\ seq <= MaxSeq
      BY <1>2, <2>1
    <2>4. files' \in FileMaps
      BY <2>1, <2>2, Rebound DEF TypeOK
    <2>5. links' \in LinkMaps
      <3>1. Append(links[i], b) \in Seq(Name)
        BY <2>2, TypeFacts, AppendNames
      <3> QED BY <2>1, <2>2, <3>1 DEF TypeOK, LinkMaps
    <2>6. op' \in OpSet
      BY <2>1, <2>2, Consts DEF OpSet, OpKinds, FileId
    <2>7. OpShape'
      BY <2>1, <2>2, <2>6 DEF OpShape
    <2>8. RecordShape'
      BY <2>1 DEF RecordShape, Deletes
    <2>9. op'.kind # "none" /\ op'.stage # "dest" /\ ver' \in VerMaps /\ next_id' \in 1..(MaxId + 1)
      BY <2>1 DEF TypeOK
    <2> QED BY <2>1, <2>3, <2>4, <2>5, <2>7, <2>8, <2>9, OpStarts
  <1>7. ASSUME NEW n \in Name, SyncFileMetadata(n)
        PROVE  TypeInv'
    <2> DEFINE i == files[n]
    <2>1. /\ Ready("sync") /\ i # None /\ ver[i] < MaxVer /\ next_id' = next_id
          /\ UNCHANGED <<disk, state, meta, old, seq, faults>>
          /\ ver' = [ver EXCEPT ![i] = ver[i] + 1] /\ files' = files /\ links' = links
          /\ pc' = "persist" /\ rec' = Update(i, links[i], ver'[i])
          /\ op' = [kind |-> "sync", stage |-> "main", from |-> None, to |-> n, id |-> i]
      BY <1>7 DEF SyncFileMetadata, Persist, Begin
    <2>2. i \in FileId
      BY <2>1, TypeFacts
    <2> HIDE DEF i
    <2>3. state = "up" /\ old = None /\ seq <= MaxSeq
      BY <1>2, <2>1
    <2>4. ver' \in VerMaps
      BY <2>1, <2>2, Consts DEF TypeOK, VerMaps
    <2>5. op' \in OpSet
      BY <2>1, <2>2, Consts DEF OpSet, OpKinds, FileId
    <2>6. OpShape'
      BY <2>1, <2>2, <2>5 DEF OpShape
    <2>7. RecordShape'
      BY <2>1 DEF RecordShape, Deletes
    <2>8. /\ op'.kind # "none" /\ op'.stage # "dest" /\ files' \in FileMaps
          /\ links' \in LinkMaps /\ next_id' \in 1..(MaxId + 1)
      BY <2>1 DEF TypeOK
    <2> QED BY <2>1, <2>3, <2>4, <2>6, <2>7, <2>8, OpStarts
  <1> QED BY <1>3, <1>4, <1>5, <1>6, <1>7

\* Operations that go on or end.
LEMMA TypeEnd ==
    ASSUME TypeInv, AfterDestination \/ OperationReturns \/ OperationFails
    PROVE  TypeInv'
  <1> USE DEF TypeInv
  <1>1. CASE AfterDestination
    <2>1. /\ pc = "ok" /\ state = "up" /\ op.stage = "dest" /\ old = None /\ seq <= MaxSeq
          /\ UNCHANGED <<disk, state, meta, old, seq, faults>>
          /\ op.to \in Name /\ (op.kind = "rename" => op.from \in Name)
      BY <1>1 DEF AfterDestination, Control, OpShape, SeqBound
    <2>2. CASE op.kind = "create" /\ CreateFile(op.to)
      <3>1. next_id <= MaxId
        BY <2>1, <2>2 DEF OpShape
      <3>2. /\ next_id' \in 1..(MaxId + 1) /\ files' = files
            /\ links' \in LinkMaps /\ ver' \in VerMaps
            /\ op' = [kind |-> "create", stage |-> "main", from |-> None, to |-> op.to,
                      id |-> next_id]
            /\ pc' = "persist" /\ OpShape' /\ RecordShape'
        BY <2>1, <2>2, <3>1, CreateBlock
      <3>3. files' \in FileMaps /\ op'.kind # "none" /\ op'.stage # "dest"
        BY <3>2 DEF TypeOK
      <3> QED BY <2>1, <3>2, <3>3, OpStarts
    <2>3. CASE op.kind = "rename" /\ op.from # op.to /\ RenameSource(op.from, op.to)
      <3>1. files[op.from] # None
        BY <2>1, <2>3 DEF OpShape
      <3>2. /\ files[op.from] \in FileId /\ RenameLink(op.from, op.to, files[op.from])
            /\ ver' = ver /\ next_id' = next_id
            /\ op' = [kind |-> "rename", stage |-> "main", from |-> op.from, to |-> op.to,
                      id |-> files[op.from]]
            /\ pc' = "persist" /\ OpShape' /\ RecordShape'
        BY <2>1, <2>3, <3>1, SourceBlock
      <3>3. files' \in FileMaps /\ links' \in LinkMaps
        BY <2>1, <2>3, <3>2, RenameBlock
      <3>4. op'.kind # "none" /\ op'.stage # "dest" /\ ver' \in VerMaps
            /\ next_id' \in 1..(MaxId + 1)
        BY <3>2 DEF TypeOK
      <3> QED BY <2>1, <3>2, <3>3, <3>4, OpStarts
    <2>4. CASE Return /\ UNCHANGED mem
      <3>1. files' \in FileMaps /\ links' \in LinkMaps /\ ver' \in VerMaps /\ next_id' = next_id
        BY <2>4 DEF mem, TypeOK
      <3> QED BY <2>1, <2>4, <3>1, OpEnds
    <2> QED BY <1>1, <2>2, <2>3, <2>4 DEF AfterDestination
  <1>2. CASE OperationReturns
    <2>1. /\ pc = "ok" /\ state = "up" /\ old = None /\ op.kind # "none"
          /\ UNCHANGED <<disk, state, meta, old, seq, faults, links, ver, next_id>> /\ Return
          /\ files' = IF op.kind = "create" THEN [files EXCEPT ![op.to] = op.id] ELSE files
      BY <1>2 DEF OperationReturns, Control
    <2>2. op.to \in Name /\ op.id \in FileId
      BY <2>1 DEF OpShape
    <2>3. files' \in FileMaps
      BY <2>1, <2>2, Rebound DEF TypeOK
    <2>4. links' \in LinkMaps /\ ver' \in VerMaps
      BY <2>1 DEF TypeOK
    <2> QED BY <2>1, <2>3, <2>4, OpEnds
  <1>3. CASE OperationFails
    <2>1. /\ pc = "err" /\ state = "up" /\ op.kind # "none"
          /\ UNCHANGED <<disk, state, meta, seq, faults, ver, next_id>> /\ Return /\ old' = None
      BY <1>3 DEF OperationFails, Control
    <2>2. op.to \in Name /\ op.id \in FileId /\ (op.kind = "rename" => op.from \in Name)
      BY <2>1 DEF OpShape
    <2>3. files \in FileMaps /\ links \in LinkMaps /\ links[op.id] \in Seq(Name) /\ ver' \in VerMaps
      BY <2>1, <2>2 DEF TypeOK, LinkMaps
    <2>4. ASSUME NEW x \in FileId \union {None}
          PROVE  [files EXCEPT ![op.to] = x] \in FileMaps
      BY <2>2, <2>3, Rebound
    <2>5. ASSUME NEW s \in Seq(Name)
          PROVE  [links EXCEPT ![op.id] = s] \in LinkMaps
      BY <2>2, <2>3 DEF LinkMaps
    <2>6. files' \in FileMaps /\ links' \in LinkMaps
      <3>1. CASE /\ files' = [files EXCEPT ![op.to] = op.id]
                 /\ links' = [links EXCEPT ![op.id] = Append(@, op.to)]
        <4>1. Append(links[op.id], op.to) \in Seq(Name)
          BY <2>2, <2>3, AppendNames
        <4>2. links' = [links EXCEPT ![op.id] = Append(links[op.id], op.to)]
          BY <3>1
        <4> QED BY <2>2, <2>4, <2>5, <3>1, <4>1, <4>2
      <3>2. CASE links' = [links EXCEPT ![op.id] = <<>>] /\ files' = files
        BY <2>3, <2>5, <3>2, FewNames
      <3>3. CASE op.kind = "rename" /\ RenameLink(op.to, op.from, op.id)
        BY <2>2, <3>3, RenameBlock
      <3>4. CASE /\ links' = [links EXCEPT ![op.id] = RemoveFirst(@, op.to)]
                 /\ files' = [files EXCEPT ![op.to] = None]
        <4>1. RemoveFirst(links[op.id], op.to) \in Seq(Name)
          BY <2>2, <2>3, RemoveNames
        <4>2. links' = [links EXCEPT ![op.id] = RemoveFirst(links[op.id], op.to)]
          BY <3>4
        <4> QED BY <2>4, <2>5, <3>4, <4>1, <4>2
      <3>5. CASE UNCHANGED <<files, links>>
        BY <2>3, <3>5
      <3> QED BY <1>3, <3>1, <3>2, <3>3, <3>4, <3>5 DEF OperationFails
    <2> QED BY <2>1, <2>3, <2>6, OpEnds
  <1> QED BY <1>1, <1>2, <1>3

\* One zone is appended to or reset.
LEMMA OneZone ==
    ASSUME log \in [MetaZone -> ZoneState], NEW z \in MetaZone, NEW u \in ZoneState,
           log' = [log EXCEPT ![z] = u]
    PROVE  /\ log' \in [MetaZone -> ZoneState] /\ log'[z] = u
           /\ \A y \in MetaZone \ {z} : log'[y] = log[y]
  OBVIOUS

\* A zone is reset.
LEMMA ZoneReset ==
    ASSUME TypeOK, NEW z \in MetaZone, ResetMetaZone(z)
    PROVE  /\ log' \in [MetaZone -> ZoneState] /\ log'[z] = Blank
           /\ \A y \in MetaZone \ {z} : log'[y] = log[y]
           /\ finished' = finished \ {z} /\ finished' \subseteq MetaZone
  BY FreshZone, OneZone DEF TypeOK, ResetMetaZone

\* A record that reads well is appended.
LEMMA ZoneAppended ==
    ASSUME TypeOK, NEW z \in MetaZone, NEW r, AddRecord(z, r), Read(log[z], r) \in ZoneState
    PROVE  /\ log' \in [MetaZone -> ZoneState] /\ log'[z] = Read(log[z], r)
           /\ \A y \in MetaZone \ {z} : log'[y] = log[y]
  BY DEF TypeOK, AddRecord

\* The record of the running operation.
LEMMA OpRecord ==
    ASSUME TypeInv, pc = "persist"
    PROVE  /\ op.id \in FileId /\ op.to \in Name /\ op.kind # "none"
           /\ links[op.id] \in Seq(Name) /\ ver[op.id] \in 0..MaxVer
           /\ \/ \E id \in FileId, m \in Name : rec = Deletion(id, m)
              \/ \E id \in FileId, l \in Seq(Name), v \in 0..MaxVer : rec = Update(id, l, v)
  <1>1. op.id \in FileId /\ op.to \in Name /\ op.kind # "none"
    BY DEF TypeInv, OpShape, Control
  <1>2. links[op.id] \in Seq(Name) /\ ver[op.id] \in 0..MaxVer
    BY <1>1, TypeFacts DEF TypeInv
  <1> QED BY <1>1, <1>2 DEF TypeInv, RecordShape

\* Errors of the device.
LEMMA Faulty ==
    ASSUME TypeOK, Faults(1) \/ Faults(2) \/ UNCHANGED faults
    PROVE  faults' \in 0..MaxFaults
  BY Consts DEF TypeOK, Faults

\* A zone that the running operation or roll may write to.
LEMMA RoomLeft ==
    ASSUME TypeOK, NEW z \in MetaZone, HasRoom(z)
    PROVE  log[z] \in ZoneState /\ log[z].len < ZoneCap /\ z \notin finished
  BY DEF TypeOK, HasRoom

\* What an append that failed leaves behind.
LEMMA TornAppended ==
    ASSUME TypeOK, NEW z \in MetaZone, log[z].len < ZoneCap, FailedAppend(z)
    PROVE  /\ log' \in [MetaZone -> ZoneState]
           /\ \A y \in MetaZone \ {z} : log'[y] = log[y]
           /\ log'[z] = log[z] \/ log'[z] = Read(log[z], Torn)
  <1>1. log[z] \in ZoneState
    BY DEF TypeOK
  <1>2. Read(log[z], Torn) \in ZoneState
    BY <1>1, ReadTorn
  <1>3. CASE UNCHANGED log
    BY <1>3 DEF TypeOK
  <1>4. CASE AddRecord(z, Torn)
    BY <1>2, <1>4, ZoneAppended
  <1> QED BY <1>3, <1>4 DEF FailedAppend

\* Steps of PersistRecord and of a roll.
LEMMA TypeDevice ==
    ASSUME TypeInv, Device
    PROVE  TypeInv'
  <1> USE DEF TypeInv
  <1>0. ASSUME pc # "idle"
        PROVE  meta \in MetaZone
    BY <1>0 DEF Control
  <1>1. CASE PersistRecord
    <2>1. /\ pc = "persist" /\ meta \in MetaZone /\ old = None /\ pc' \in {"ok", "err", "alloc"}
          /\ UNCHANGED <<finished, state, mem, meta, old, seq, op, rec>>
      BY <1>0, <1>1 DEF PersistRecord, Control
    <2>2. log' \in [MetaZone -> ZoneState]
      <3>1. CASE HasRoom(meta) /\ AddRecord(meta, rec)
        BY <2>1, <3>1, RoomLeft, OpRecord, ReadRecord, ZoneAppended
      <3>2. CASE UNCHANGED log
        BY <3>2 DEF TypeOK
      <3>3. CASE HasRoom(meta) /\ FailedAppend(meta)
        BY <2>1, <3>3, RoomLeft, TornAppended
      <3> QED BY <1>1, <3>1, <3>2, <3>3 DEF PersistRecord
    <2>3. faults' \in 0..MaxFaults
      BY <1>1, Faulty DEF PersistRecord
    <2>4. RollShape'
      BY <2>1 DEF RollShape
    <2>5. SeqBound'
      BY <2>1 DEF SeqBound
    <2>6. finished' \subseteq MetaZone
      BY <2>1 DEF TypeOK
    <2> QED BY <2>1, <2>2, <2>3, <2>4, <2>5, <2>6, DeviceStep DEF Rolling
  <1>2. CASE AllocateMetaZone
    <2>1. /\ pc = "alloc" /\ meta \in MetaZone /\ old = None
          /\ UNCHANGED <<state, mem, seq, op, rec>>
      BY <1>0, <1>2 DEF AllocateMetaZone, Control
    <2>2. PICK passed \in SUBSET (MetaZone \ {meta}) :
            /\ Faults(Cardinality(passed))
            /\ \/ \E z \in MetaZone \ (passed \union {meta}) :
                    ResetMetaZone(z) /\ meta' = z /\ old' = meta /\ pc' = "end"
               \/ pc' = "err" /\ UNCHANGED <<disk, meta, old>>
      BY <1>2 DEF AllocateMetaZone
    <2>3. faults' \in 0..MaxFaults
      <3>1. IsFiniteSet(passed)
        <4>1. IsFiniteSet(MetaZone)
          BY Consts, FS_Interval DEF MetaZone
        <4> QED BY <4>1, FS_Subset
      <3>2. Cardinality(passed) \in Nat
        BY <3>1, FS_CardinalityType
      <3> QED BY <2>2, <3>2, Consts DEF TypeOK, Faults
    <2>4. SeqBound' \/ pc' \notin {"end", "err"}
      BY <2>1 DEF SeqBound
    <2>5. CASE \E z \in MetaZone \ (passed \union {meta}) :
                    ResetMetaZone(z) /\ meta' = z /\ old' = meta /\ pc' = "end"
      <3>1. PICK z \in MetaZone \ (passed \union {meta}) :
                    ResetMetaZone(z) /\ meta' = z /\ old' = meta /\ pc' = "end"
        BY <2>5
      <3>2. log' \in [MetaZone -> ZoneState] /\ log'[z] = Blank /\ finished' \subseteq MetaZone
        BY <3>1, ZoneReset
      <3>3. RollShape'
        BY <3>1, <3>2 DEF RollShape
      <3> QED BY <2>1, <2>3, <2>4, <3>1, <3>2, <3>3, DeviceStep, NoneIsNothing DEF Rolling
    <2>6. CASE pc' = "err" /\ UNCHANGED <<disk, meta, old>>
      <3>1. log' \in [MetaZone -> ZoneState] /\ finished' \subseteq MetaZone
        BY <2>6 DEF TypeOK, disk
      <3>2. RollShape'
        BY <2>6 DEF RollShape
      <3> QED BY <2>1, <2>3, <2>4, <2>6, <3>1, <3>2, DeviceStep DEF Rolling
    <2> QED BY <2>2, <2>5, <2>6
  <1>3. CASE WriteEndRecord
    <2>1. /\ pc = "end" /\ meta \in MetaZone /\ old \in MetaZone \ {meta} /\ pc' = "super"
          /\ UNCHANGED <<state, mem, meta, old, seq, op, rec>> /\ log[meta] = Blank
      BY <1>0, <1>3 DEF WriteEndRecord, Control, Rolling, RollShape
    <2>2. log' \in [MetaZone -> ZoneState] /\ log'[meta] = Blank /\ finished' \subseteq MetaZone
      <3>1. finished' \in {finished, finished \union {old}}
        BY <1>3 DEF WriteEndRecord, disk
      <3>2. finished' \subseteq MetaZone
        BY <2>1, <3>1 DEF TypeOK
      <3>3. CASE HasRoom(old) /\ AddRecord(old, End)
        <4>1. log[old] \in ZoneState /\ log[old].len < ZoneCap
          BY <2>1, <3>3, RoomLeft
        <4>2. Read(log[old], End) \in ZoneState
          BY <4>1, ReadAnyEnd
        <4> QED BY <2>1, <3>2, <3>3, <4>2, ZoneAppended DEF TypeOK
      <3>4. CASE HasRoom(old) /\ FailedAppend(old)
        BY <2>1, <3>2, <3>4, RoomLeft, TornAppended
      <3>5. CASE UNCHANGED log
        BY <2>1, <3>2, <3>5 DEF TypeOK
      <3> QED BY <1>3, <3>3, <3>4, <3>5 DEF WriteEndRecord, FailedAppend, disk
    <2>3. faults' \in 0..MaxFaults
      BY <1>3, Faulty DEF WriteEndRecord
    <2>4. RollShape'
      BY <2>1, <2>2 DEF RollShape
    <2>5. SeqBound'
      BY <2>1 DEF SeqBound
    <2> QED BY <2>1, <2>2, <2>3, <2>4, <2>5, DeviceStep, NoneIsNothing DEF Rolling
  <1>4. CASE RollWriteSuperblock
    <2>1. /\ pc = "super" /\ meta \in MetaZone /\ old \in MetaZone \ {meta}
          /\ pc' \in {"snapshot", "err"} /\ seq' = seq + 1
          /\ UNCHANGED <<finished, state, mem, meta, old, op, rec>> /\ log[meta] = Blank
      BY <1>0, <1>4 DEF RollWriteSuperblock, Control, Rolling, RollShape
    <2>2. seq + 1 \in Seqs
      BY <2>1, Consts DEF SeqBound, Seqs
    <2>3. /\ log' \in [MetaZone -> ZoneState]
          /\ pc' = "snapshot" => log'[meta] = Read(Blank, Super(seq + 1))
      <3>1. CASE AddRecord(meta, Super(seq + 1))
        BY <2>1, <2>2, <3>1, FreshZone, ZoneAppended
      <3>2. CASE FailedAppend(meta) /\ pc' = "err"
        <4>1. log[meta].len < ZoneCap
          BY <2>1, FreshZone, Consts
        <4> QED BY <2>1, <3>2, <4>1, TornAppended
      <3> QED BY <1>4, <3>1, <3>2 DEF RollWriteSuperblock
    <2>4. faults' \in 0..MaxFaults
      BY <1>4, Faulty DEF RollWriteSuperblock
    <2>5. RollShape'
      BY <2>1, <2>3 DEF RollShape
    <2>6. SeqBound'
      BY <2>1, Consts DEF SeqBound
    <2>7. finished' \subseteq MetaZone
      BY <2>1 DEF TypeOK
    <2> QED BY <2>1, <2>3, <2>4, <2>5, <2>6, <2>7, DeviceStep, NoneIsNothing DEF Rolling
  <1>5. CASE WriteSnapshotLocked
    <2>1. /\ pc = "snapshot" /\ meta \in MetaZone /\ old \in MetaZone \ {meta}
          /\ pc' \in {"reset", "err"}
          /\ UNCHANGED <<finished, state, mem, meta, old, seq, op, rec>>
          /\ log[meta] = Read(Blank, Super(seq))
      BY <1>0, <1>5 DEF WriteSnapshotLocked, Control, Rolling, RollShape
    <2>2. /\ log[meta] \in ZoneState /\ log[meta].len < ZoneCap /\ log[meta].len # 0
          /\ log[meta].status \in {"none", "ok"}
      BY <2>1, FreshZone, Consts DEF SeqBound, Seqs
    <2>3. log' \in [MetaZone -> ZoneState]
      <3>1. CASE AddRecord(meta, Snapshot(files, links, ver))
        <4>1. Read(log[meta], Snapshot(files, links, ver)) \in ZoneState
          BY <2>2, ReadSnapshot DEF TypeOK
        <4> QED BY <2>1, <3>1, <4>1, ZoneAppended
      <3>2. CASE FailedAppend(meta)
        BY <2>1, <2>2, <3>2, TornAppended
      <3> QED BY <1>5, <3>1, <3>2 DEF WriteSnapshotLocked
    <2>4. faults' \in 0..MaxFaults
      BY <1>5, Faulty DEF WriteSnapshotLocked
    <2>5. RollShape'
      BY <2>1 DEF RollShape
    <2>6. SeqBound'
      BY <2>1 DEF SeqBound
    <2>7. finished' \subseteq MetaZone
      BY <2>1 DEF TypeOK
    <2> QED BY <2>1, <2>3, <2>4, <2>5, <2>6, <2>7, DeviceStep, NoneIsNothing DEF Rolling
  <1>6. CASE RollResetOldZone
    <2>1. /\ pc = "reset" /\ meta \in MetaZone /\ old \in MetaZone \ {meta}
          /\ pc' = "ok" /\ old' = None
          /\ UNCHANGED <<state, mem, meta, seq, op, rec>>
      BY <1>0, <1>6 DEF RollResetOldZone, Control, Rolling
    <2>2. log' \in [MetaZone -> ZoneState] /\ finished' \subseteq MetaZone
      <3>1. CASE ResetMetaZone(old)
        BY <2>1, <3>1, ZoneReset
      <3>2. CASE UNCHANGED disk
        BY <3>2 DEF TypeOK, disk
      <3> QED BY <1>6, <3>1, <3>2 DEF RollResetOldZone
    <2>3. faults' \in 0..MaxFaults
      BY <1>6, Faulty DEF RollResetOldZone
    <2>4. RollShape'
      BY <2>1 DEF RollShape
    <2>5. SeqBound'
      BY <2>1 DEF SeqBound
    <2> QED BY <2>1, <2>2, <2>3, <2>4, <2>5, DeviceStep DEF Rolling
  <1> QED BY <1>1, <1>2, <1>3, <1>4, <1>5, <1>6 DEF Device

\* next_file_id_ after a mount is the least number above the ids that were met.
LEMMA NextId ==
    ASSUME NEW S \in SUBSET FileId,
           NEW x, x = CHOOSE i \in 1..(MaxId + 1) :
                          (\A j \in S : j < i) /\ (i = 1 \/ i - 1 \in S)
    PROVE  x \in 1..(MaxId + 1) /\ \A j \in S : j < x
  <1>1. \E i \in 1..(MaxId + 1) : (\A j \in S : j < i) /\ (i = 1 \/ i - 1 \in S)
    <2>1. CASE S = {}
      BY <2>1, Consts
    <2>2. CASE S # {}
      <3>1. S \in SUBSET Nat /\ \A j \in S : j <= MaxId
        BY Consts DEF FileId
      <3>2. PICK m \in S : \A j \in S : j <= m
        BY <2>2, <3>1, Consts, GreatestElement
      <3>3. m + 1 \in 1..(MaxId + 1) /\ (m + 1) - 1 = m
        BY <3>1, Consts DEF FileId
      <3>4. \A j \in S : j < m + 1
        BY <3>1, <3>2
      <3> QED BY <3>2, <3>3, <3>4
    <2> QED BY <2>1, <2>2
  <1> QED BY <1>1

\* Mounts and crashes.
LEMMA TypeMount ==
    ASSUME TypeInv, Mount \/ MountReturns \/ MountFails \/ Crash \/ CrashInWrite
    PROVE  TypeInv'
  <1> USE DEF TypeInv
  <1>1. CASE Mount /\ Mountable
    <2> DEFINE st == log[Latest]
    <2>1. /\ state = "down" /\ state' = "mounting" /\ pc' = "alloc" /\ meta' = Latest
          /\ files' = st.files /\ links' = st.links /\ ver' = st.ver /\ seq' = st.seq
          /\ UNCHANGED <<disk, old, op, rec, faults>>
          /\ \A z \in Valid : log[z].seq < MaxSeq
          /\ next_id' = CHOOSE i \in 1..(MaxId + 1) :
                 (\A j \in RecoveredIds : j < i) /\ (i = 1 \/ i - 1 \in RecoveredIds)
      BY <1>1 DEF Mount
    <2>2. Latest \in Decisive /\ Latest \in Valid /\ Latest \in MetaZone
      BY <1>1, LatestExists DEF TypeOK, Mountable, Decisive, Valid
    <2>3. /\ st \in ZoneState /\ st.seq < MaxSeq
      BY <2>1, <2>2 DEF TypeOK
    <2> HIDE DEF st
    <2>4. files' \in FileMaps /\ links' \in LinkMaps /\ ver' \in VerMaps /\ seq' \in Seqs /\ seq' < MaxSeq
      BY <2>1, <2>3, ZoneFields
    <2>5. next_id' \in 1..(MaxId + 1)
      <3>1. RecoveredIds \in SUBSET FileId
        <4>1. \A z \in Valid : log[z].ids \in SUBSET FileId
          BY ZoneFields DEF TypeOK, Valid, IdSets
        <4> QED BY <4>1 DEF RecoveredIds
      <3> QED BY <2>1, <3>1, NextId
    <2>6. old = None /\ op.kind = "none" /\ old' = None /\ op' = op
      BY <2>1 DEF Control, Running
    <2>7. TypeOK'
      BY <2>1, <2>2, <2>4, <2>5 DEF TypeOK, disk
    <2>8. op.stage = "main"
      BY <2>6 DEF OpShape, OpSet
    <2>9. OpShape'
      BY <2>6, <2>8 DEF OpShape
    <2>10. Control'
      BY <2>1, <2>2, <2>6 DEF Control, Running, Rolling
    <2>11. RecordShape' /\ RollShape'
      BY <2>1 DEF RecordShape, RollShape
    <2>12. SeqBound'
      BY <2>1, <2>4, <2>6, <2>8, Consts DEF SeqBound, Seqs
    <2> QED BY <2>7, <2>9, <2>10, <2>11, <2>12
  <1>2. CASE Mount /\ ~Mountable
    <2>1. /\ state = "down" /\ state' = "failed"
          /\ UNCHANGED <<disk, mem, meta, old, seq, pc, op, rec, faults>>
      BY <1>2 DEF Mount
    <2>2. TypeOK'
      BY <2>1 DEF TypeOK, disk, mem
    <2>3. OpShape'
      BY <2>1 DEF OpShape, mem
    <2>4. Control'
      BY <2>1 DEF Control, Running, Rolling
    <2>5. RecordShape' /\ RollShape' /\ SeqBound'
      BY <2>1 DEF RecordShape, RollShape, SeqBound, disk, mem, Deletes, Control, Running
    <2> QED BY <2>2, <2>3, <2>4, <2>5
  <1>3. CASE MountReturns
    <2>1. /\ state = "mounting" /\ state' = "up" /\ pc = "ok" /\ old = None
          /\ UNCHANGED <<disk, mem, meta, old, seq, faults>> /\ Return
      BY <1>3 DEF MountReturns, Control
    <2>2. TypeOK'
      BY <2>1 DEF TypeOK, disk, mem, Return
    <2>3. OpShape'
      BY Consts, <2>1 DEF OpShape, OpSet, NoOp, Return
    <2>4. Control'
      BY <2>1 DEF Control, Running, Rolling, Return, NoOp
    <2>5. RecordShape' /\ RollShape'
      BY <2>1 DEF RecordShape, RollShape, Return
    <2>6. SeqBound'
      BY <2>1 DEF SeqBound, Return, NoOp
    <2> QED BY <2>2, <2>3, <2>4, <2>5, <2>6
  <1>4. CASE MountFails \/ Crash
    <2>1. Forget /\ state' = "down" /\ UNCHANGED <<disk, faults>>
      BY <1>4 DEF MountFails, Crash
    <2>2. log' \in [MetaZone -> ZoneState] /\ UNCHANGED <<finished, faults>>
      BY <2>1 DEF TypeOK, disk
    <2> QED BY <2>1, <2>2, Forgotten
  <1>5. CASE CrashInWrite
    <2>1. Forget /\ state' = "down" /\ UNCHANGED <<finished, faults>> /\ meta \in MetaZone
      BY <1>5 DEF CrashInWrite, Control, Running
    <2>2. ASSUME NEW z \in MetaZone, HasRoom(z), AddRecord(z, Torn)
          PROVE  log' \in [MetaZone -> ZoneState]
      BY <2>2, RoomLeft, ReadTorn, ZoneAppended
    <2>3. pc = "end" => old \in MetaZone
      BY DEF Control, Rolling
    <2>4. log' \in [MetaZone -> ZoneState]
      BY <1>5, <2>1, <2>2, <2>3 DEF CrashInWrite
    <2> QED BY <2>1, <2>4, Forgotten
  <1> QED BY <1>1, <1>2, <1>3, <1>4, <1>5

\* Every step preserves the types.
LEMMA TypeNext == TypeInv /\ [Next]_vars => TypeInv'
  <1> SUFFICES ASSUME TypeInv, [Next]_vars PROVE TypeInv'
    OBVIOUS
  <1>1. CASE Operation
    BY <1>1, TypeBegin, TypeEnd DEF Operation
  <1>2. CASE Device
    BY <1>2, TypeDevice
  <1>3. CASE Mount \/ MountReturns \/ MountFails \/ Crash \/ CrashInWrite
    BY <1>3, TypeMount
  <1>4. CASE UNCHANGED vars
    BY <1>4 DEF vars, TypeInv, TypeOK, OpShape, Control, RecordShape, RollShape, SeqBound,
                Running, Deletes
  <1> QED BY <1>1, <1>2, <1>3, <1>4 DEF Next

\* The state is well typed: no record is written past the end of a meta zone,
\* ids and sequence numbers stay within their bounds, and a mount recovers
\* files, links and versions that are such, whatever was lost in a roll.
THEOREM MetaLogTypes == Spec => []TypeOK
  <1>1. TypeInv => TypeOK
    BY DEF TypeInv
  <1> QED BY TypeInit, TypeNext, <1>1, PTL DEF Spec

-----------------------------------------------------------------------------
(* The inductive invariant for the log.                                     *)

\* It recovers a consistent namespace from z, and has met the ids of all files.
Recoverable(z) ==
    /\ Newest(z)
    /\ log[z].status \in {"ok", "ended"}
    /\ Agrees(log[z].files, log[z].links)
    /\ \A n \in Name : log[z].files[n] # None => log[z].files[n] \in log[z].ids

\* The zone that holds the log of a running file system.
Cur == IF old # None /\ pc # "reset" THEN old ELSE meta

Creates == op.kind = "create" /\ op.stage = "main"

\* files_ before the running operation, and when it is done.
Before ==
    IF op.kind = "none" THEN files
    ELSE IF Deletes THEN [files EXCEPT ![op.to] = op.id]
    ELSE IF op.kind = "rename" THEN [files EXCEPT ![op.to] = None, ![op.from] = op.id]
    ELSE IF op.kind = "link" THEN [files EXCEPT ![op.to] = None]
    ELSE files

After == IF Creates THEN [files EXCEPT ![op.to] = op.id] ELSE files

\* What the running operation has done to files_.
OpDone ==
    /\ op.kind # "none" => op.id < next_id
    /\ Deletes \/ Creates => files[op.to] = None
    /\ Creates => \A n \in Name : files[n] # op.id
    /\ op.kind \in {"rename", "link"} /\ op.stage = "main" => files[op.to] = op.id
    /\ op.kind = "rename" /\ op.stage = "main" => files[op.from] = None
    /\ op.kind = "link" => op.from \in Name \ {op.to} /\ files[op.from] = op.id
    /\ op.kind = "sync" => files[op.to] = op.id
    /\ pc \in Rolling \union {"alloc"} => ~Creates

\* Files_ in memory is consistent, and new files get new ids.
Memory ==
    Running => /\ Agrees(After, links)
               /\ \A n \in Name : files[n] # None => files[n] < next_id

\* The log replays to what the operation leaves, or to what it found.
Written == pc \in {"idle", "ok", "reset"}

Holds(z) ==
    /\ z = Cur
    /\ log[z].seq <= seq
    /\ log[z].files = IF Written THEN After ELSE Before
    /\ state = "mounting" => log[z].links = links /\ log[z].ver = ver
    /\ pc \in {"reset", "ok"} \/ (state = "up" /\ old = None) => log[z].status = "ok"
    /\ pc = "snapshot" => log[z].seq < seq

Durable == \E z \in MetaZone : Recoverable(z) /\ (Running => Holds(z))

\* A zone without records has no snapshot and no error.
ZoneShape == \A z \in MetaZone : log[z].status # "none" => log[z].len # 0

Good == state # "failed" /\ OpDone /\ Memory /\ Durable

\* A torn record stops every later mount.
Dead == /\ state \in {"down", "failed"}
        /\ \E z \in MetaZone : Newest(z) /\ log[z].status = "torn"

LogInv == ZoneShape /\ (Good \/ Dead)

-----------------------------------------------------------------------------
(* files_ and linkfiles_ change together.                                   *)

\* A name is unbound.
LEMMA AgreesUnbind ==
    ASSUME NEW f \in FileMaps, NEW l \in LinkMaps, Agrees(f, l), NEW n \in Name,
           NEW i \in FileId, f[n] = i
    PROVE  Agrees([f EXCEPT ![n] = None], [l EXCEPT ![i] = RemoveFirst(l[i], n)])
  <1> DEFINE s == RemoveFirst(l[i], n)
  <1>1. l[i] \in Seq(Name) /\ IsInjective(l[i])
    BY DEF LinkMaps, Agrees
  <1>2. IsInjective(s) /\ ToSet(s) = ToSet(l[i]) \ {n}
    BY <1>1, RemoveNames
  <1> HIDE DEF s
  <1>3. ASSUME NEW m \in Name, NEW j \in FileId
        PROVE  [f EXCEPT ![n] = None][m] = j <=> m \in ToSet([l EXCEPT ![i] = s][j])
    <2>1. f[m] = j <=> m \in ToSet(l[j])
      BY DEF Agrees
    <2>2. CASE j = i
      BY <1>2, <2>1, <2>2, NoneIsNothing DEF FileMaps, LinkMaps
    <2>3. CASE j # i
      BY <2>1, <2>3, NoneIsNothing DEF FileMaps, LinkMaps
    <2> QED BY <2>2, <2>3
  <1>4. \A j \in FileId : IsInjective([l EXCEPT ![i] = s][j])
    BY <1>2 DEF Agrees, LinkMaps
  <1> QED BY <1>3, <1>4 DEF Agrees, s

\* A name that is free is bound to a file.
LEMMA AgreesBind ==
    ASSUME NEW f \in FileMaps, NEW l \in LinkMaps, Agrees(f, l), NEW n \in Name,
           NEW i \in FileId, f[n] = None
    PROVE  Agrees([f EXCEPT ![n] = i], [l EXCEPT ![i] = Append(l[i], n)])
  <1> DEFINE s == Append(l[i], n)
  <1>1. l[i] \in Seq(Name) /\ IsInjective(l[i]) /\ n \notin ToSet(l[i])
    BY NoneIsNothing DEF LinkMaps, Agrees
  <1>2. IsInjective(s) /\ ToSet(s) = ToSet(l[i]) \union {n}
    BY <1>1, AppendNames
  <1> HIDE DEF s
  <1>3. ASSUME NEW m \in Name, NEW j \in FileId
        PROVE  [f EXCEPT ![n] = i][m] = j <=> m \in ToSet([l EXCEPT ![i] = s][j])
    <2>1. f[m] = j <=> m \in ToSet(l[j])
      BY DEF Agrees
    <2>2. CASE j = i
      BY <1>2, <2>1, <2>2 DEF FileMaps, LinkMaps
    <2>3. CASE j # i
      BY <2>1, <2>3, NoneIsNothing DEF FileMaps, LinkMaps
    <2> QED BY <2>2, <2>3
  <1>4. \A j \in FileId : IsInjective([l EXCEPT ![i] = s][j])
    BY <1>2 DEF Agrees, LinkMaps
  <1> QED BY <1>3, <1>4 DEF Agrees, s

\* A name is replaced by another one, that is free.
LEMMA AgreesRename ==
    ASSUME NEW f \in FileMaps, NEW l \in LinkMaps, Agrees(f, l), NEW a \in Name,
           NEW b \in Name, NEW i \in FileId, f[a] = i, f[b] = None
    PROVE  Agrees([f EXCEPT ![a] = None, ![b] = i],
                  [l EXCEPT ![i] = Append(RemoveFirst(l[i], a), b)])
  <1> DEFINE g == [f EXCEPT ![a] = None]
             s == RemoveFirst(l[i], a)
             k == [l EXCEPT ![i] = s]
  <1>1. Agrees(g, k)
    BY AgreesUnbind
  <1>2. g \in FileMaps /\ g[b] = None
    BY NoneIsNothing DEF FileMaps
  <1>3. s \in Seq(Name)
    BY RemoveNames DEF LinkMaps
  <1>4. k \in LinkMaps /\ k[i] = s
    BY <1>3 DEF LinkMaps
  <1>5. Agrees([g EXCEPT ![b] = i], [k EXCEPT ![i] = Append(k[i], b)])
    BY <1>1, <1>2, <1>4, AgreesBind
  <1>6. [k EXCEPT ![i] = Append(k[i], b)] = [l EXCEPT ![i] = Append(s, b)]
    BY <1>4 DEF LinkMaps
  <1> QED BY <1>5, <1>6

\* A new file is bound to a name that is free.
LEMMA AgreesNew ==
    ASSUME NEW f \in FileMaps, NEW l \in LinkMaps, Agrees(f, l), NEW n \in Name,
           NEW i \in FileId, f[n] = None, \A m \in Name : f[m] # i
    PROVE  Agrees([f EXCEPT ![n] = i], [l EXCEPT ![i] = <<n>>])
  <1> DEFINE s == <<n>>
  <1>1. IsInjective(s) /\ ToSet(s) = {n}
    BY FewNames
  <1> HIDE DEF s
  <1>2. ASSUME NEW m \in Name, NEW j \in FileId
        PROVE  [f EXCEPT ![n] = i][m] = j <=> m \in ToSet([l EXCEPT ![i] = s][j])
    <2>1. f[m] = j <=> m \in ToSet(l[j])
      BY DEF Agrees
    <2>2. CASE j = i
      BY <1>1, <2>1, <2>2 DEF FileMaps, LinkMaps
    <2>3. CASE j # i
      BY <2>1, <2>3, NoneIsNothing DEF FileMaps, LinkMaps
    <2> QED BY <2>2, <2>3
  <1>3. \A j \in FileId : IsInjective([l EXCEPT ![i] = s][j])
    BY <1>1 DEF Agrees, LinkMaps
  <1> QED BY <1>2, <1>3 DEF Agrees, s

\* It is given up.
LEMMA AgreesDrop ==
    ASSUME NEW f \in FileMaps, NEW l \in LinkMaps, NEW n \in Name, NEW i \in FileId,
           Agrees([f EXCEPT ![n] = i], l), f[n] = None, \A m \in Name : f[m] # i
    PROVE  Agrees(f, [l EXCEPT ![i] = <<>>])
  <1> DEFINE s == <<>>
  <1>1. IsInjective(s) /\ ToSet(s) = {}
    BY FewNames
  <1> HIDE DEF s
  <1>2. ASSUME NEW m \in Name, NEW j \in FileId
        PROVE  f[m] = j <=> m \in ToSet([l EXCEPT ![i] = s][j])
    <2>1. [f EXCEPT ![n] = i][m] = j <=> m \in ToSet(l[j])
      BY DEF Agrees
    <2>2. CASE j = i
      BY <1>1, <2>2 DEF FileMaps, LinkMaps
    <2>3. CASE j # i
      BY <2>1, <2>3, NoneIsNothing DEF FileMaps, LinkMaps
    <2> QED BY <2>2, <2>3
  <1>3. \A j \in FileId : IsInjective([l EXCEPT ![i] = s][j])
    BY <1>1 DEF Agrees, LinkMaps
  <1> QED BY <1>2, <1>3 DEF Agrees, s

-----------------------------------------------------------------------------
(* Operations on the namespace.                                             *)

\* A zone stays recoverable when it reads as before, and no other zone gets a
\* snapshot.
LEMMA RecoverableKept ==
    ASSUME NEW z \in MetaZone, Recoverable(z),
           log'[z].status \in {"ok", "ended"}, log'[z].seq = log[z].seq,
           log'[z].files = log[z].files, log'[z].links = log[z].links,
           log'[z].ids = log[z].ids,
           \A y \in MetaZone \ {z} :
               log'[y] = log[y] \/ log'[y].status \in {"none", "empty"}
    PROVE  Recoverable(z)'
  <1>1. Newest(z)'
    BY DEF Newest, Recoverable
  <1>2. Agrees(log'[z].files, log'[z].links)
    BY DEF Recoverable
  <1>3. \A n \in Name : log'[z].files[n] # None => log'[z].files[n] \in log'[z].ids
    BY DEF Recoverable
  <1> QED BY <1>1, <1>2, <1>3 DEF Recoverable

\* What is known when a step is taken by a running file system.
LEMMA GoodFacts ==
    ASSUME TypeInv, Good, Running
    PROVE  /\ Cur \in MetaZone /\ Recoverable(Cur) /\ Holds(Cur)
           /\ files \in FileMaps /\ links \in LinkMaps
           /\ Agrees(After, links)
           /\ \A n \in Name : files[n] # None => files[n] < next_id /\ files[n] \in FileId
           /\ op.kind = "none" => After = files /\ Before = files
           /\ op.stage = "dest" => After = files
  <1>1. PICK z \in MetaZone : Recoverable(z) /\ Holds(z)
    BY DEF Good, Durable
  <1>2. z = Cur
    BY <1>1 DEF Holds
  <1>3. op.kind = "none" \/ op.stage = "dest" => After = files
    BY DEF After, Creates
  <1>4. op.kind = "none" => Before = files
    BY DEF Before
  <1> QED BY <1>1, <1>2, <1>3, <1>4, TypeFacts DEF Good, Memory, TypeInv, TypeOK

\* An operation has changed files_ and begins to persist it.
LEMMA GoodStarts ==
    ASSUME TypeInv, Good, state = "up", pc \in {"idle", "ok"},
           UNCHANGED <<disk, state, meta, old, seq>>, pc' = "persist",
           Before' = After, OpDone', Agrees(After', links'),
           \A n \in Name : files'[n] # None => files'[n] < next_id'
    PROVE  Good'
  <1>1. PICK z \in MetaZone : Recoverable(z) /\ Holds(z)
    BY DEF Good, Durable, Running
  <1>2. log' = log /\ old = None
    BY DEF disk, TypeInv, Control
  <1>3. Recoverable(z)'
    BY <1>1, <1>2, RecoverableKept DEF Recoverable
  <1>4. Holds(z)'
    BY <1>1, <1>2 DEF Holds, Cur, Written
  <1>5. Durable'
    BY <1>3, <1>4 DEF Durable
  <1>6. Memory'
    BY DEF Memory
  <1> QED BY <1>5, <1>6 DEF Good

\* An operation is over: files_ is what the log replays to.
LEMMA GoodEnds ==
    ASSUME TypeInv, Good, state = "up", old = None,
           UNCHANGED <<disk, state, meta, seq>>, Return, old' = None,
           files' = IF Written THEN After ELSE Before, Agrees(files', links'),
           \A n \in Name : files'[n] # None => files'[n] < next_id'
    PROVE  Good'
  <1>1. PICK z \in MetaZone : Recoverable(z) /\ Holds(z)
    BY DEF Good, Durable, Running
  <1>2. log' = log /\ pc' = "idle" /\ op' = NoOp
    BY DEF disk, Return
  <1>3. Recoverable(z)'
    BY <1>1, <1>2, RecoverableKept DEF Recoverable
  <1>4. After' = files'
    BY <1>2 DEF After, Creates, NoOp
  <1>5. Holds(z)'
    BY <1>1, <1>2, <1>4 DEF Holds, Cur, Written
  <1>6. Durable'
    BY <1>3, <1>5 DEF Durable
  <1>7. Memory'
    BY <1>4 DEF Memory
  <1>8. OpDone'
    BY <1>2 DEF OpDone, Deletes, Creates, NoOp, Rolling
  <1> QED BY <1>6, <1>7, <1>8 DEF Good

\* DeleteFileNoLock, for a deletion or to make room.
LEMMA GoodDelete ==
    ASSUME TypeInv, Good, state = "up", pc \in {"idle", "ok"}, After = files,
           UNCHANGED <<disk, state, meta, old, seq>>,
           NEW n \in Name, files[n] # None, DeleteFileNoLock(n),
           NEW k, NEW s, NEW a, Begin(k, s, a, n, files[n]),
           k = "delete" \/ s = "dest", k # "none", s = "dest" => k \in {"create", "rename"},
           k = "delete" => s = "main"
    PROVE  Good' /\ Before' = files /\ ~Creates' /\ op'.kind = k
  <1> DEFINE i == files[n]
  <1>1. /\ i \in FileId
        /\ files' = [files EXCEPT ![n] = None] /\ files' \in FileMaps
        /\ links' = [links EXCEPT ![i] = RemoveFirst(links[i], n)]
        /\ next_id' = next_id /\ pc' = "persist"
    BY DeleteBlock DEF TypeInv
  <1>2. op' = [kind |-> k, stage |-> s, from |-> a, to |-> n, id |-> i]
    BY DEF Begin
  <1>3. op'.kind = k /\ op'.stage = s /\ op'.to = n /\ op'.id = i
    BY <1>2
  <1>4. /\ files \in FileMaps /\ links \in LinkMaps /\ Agrees(files, links) /\ i < next_id
        /\ \A m \in Name : files[m] # None => files[m] < next_id
    BY GoodFacts DEF Running
  <1>5. files[n] = i
    OBVIOUS
  <1> HIDE DEF i
  <1>6. Deletes' /\ ~Creates'
    BY <1>3 DEF Deletes, Creates
  <1>7. Agrees(files', links')
    BY <1>1, <1>4, <1>5, AgreesUnbind
  <1>8. After' = files'
    BY <1>6 DEF After
  <1>9. Before' = files
    <2>1. Before' = [files' EXCEPT ![n] = i]
      BY <1>3, <1>6 DEF Before
    <2> QED BY <1>1, <1>4, <1>5, <2>1 DEF FileMaps
  <1>10. files'[n] = None
    BY <1>1, <1>4 DEF FileMaps
  <1>11. OpDone'
    BY <1>1, <1>3, <1>4, <1>6, <1>10 DEF OpDone, Rolling
  <1>12. \A m \in Name : files'[m] # None => files'[m] < next_id'
    BY <1>1, <1>4 DEF FileMaps
  <1> QED BY <1>1, <1>3, <1>6, <1>7, <1>8, <1>9, <1>11, <1>12, GoodStarts

\* CreateFile.
LEMMA GoodCreate ==
    ASSUME TypeInv, Good, state = "up", pc \in {"idle", "ok"}, After = files,
           UNCHANGED <<disk, state, meta, old, seq>>,
           NEW n \in Name, files[n] = None, next_id <= MaxId, CreateFile(n)
    PROVE  Good' /\ Before' = files /\ op'.kind = "create" /\ op'.id = next_id
           /\ \A m \in Name : files[m] # next_id
  <1>1. /\ next_id \in FileId /\ next_id' = next_id + 1 /\ next_id' \in 1..(MaxId + 1)
        /\ files' = files
        /\ links' = [links EXCEPT ![next_id] = <<n>>]
        /\ op' = [kind |-> "create", stage |-> "main", from |-> None, to |-> n, id |-> next_id]
        /\ pc' = "persist"
    BY CreateBlock DEF TypeInv
  <1>2. op'.kind = "create" /\ op'.stage = "main" /\ op'.to = n /\ op'.id = next_id
    BY <1>1
  <1>3. /\ files \in FileMaps /\ links \in LinkMaps /\ Agrees(files, links)
        /\ \A m \in Name : files[m] # None => files[m] < next_id /\ files[m] \in FileId
    BY GoodFacts DEF Running
  <1>4. next_id \in Nat /\ FileId \subseteq Nat /\ None \notin FileId
    BY NoneIsNothing DEF TypeInv, TypeOK, FileId
  <1>5. \A m \in Name : files[m] # next_id
    BY <1>1, <1>3, <1>4
  <1>6. Creates' /\ ~Deletes'
    BY <1>2 DEF Deletes, Creates
  <1>7. After' = [files EXCEPT ![n] = next_id]
    BY <1>1, <1>2, <1>6 DEF After
  <1>8. Agrees(After', links')
    BY <1>1, <1>3, <1>5, <1>7, AgreesNew
  <1>9. Before' = files
    BY <1>1, <1>2, <1>6 DEF Before
  <1>10. next_id < next_id'
    BY <1>1, <1>4
  <1>11. OpDone'
    BY <1>1, <1>2, <1>5, <1>6, <1>10 DEF OpDone, Rolling
  <1>12. ASSUME NEW m \in Name, files'[m] # None
         PROVE  files'[m] < next_id'
    <2>1. files[m] \in FileId /\ files[m] < next_id
      BY <1>1, <1>3, <1>12
    <2> QED BY <1>1, <1>4, <2>1 DEF FileId
  <1> QED BY <1>1, <1>2, <1>5, <1>8, <1>9, <1>11, <1>12, GoodStarts

\* The source of a rename.
LEMMA GoodRename ==
    ASSUME TypeInv, Good, state = "up", pc \in {"idle", "ok"}, After = files,
           UNCHANGED <<disk, state, meta, old, seq>>,
           NEW a \in Name, NEW b \in Name, files[a] # None, files[b] = None,
           RenameSource(a, b)
    PROVE  Good' /\ Before' = files /\ op'.kind = "rename"
  <1> DEFINE i == files[a]
  <1>1. /\ i \in FileId /\ RenameLink(a, b, i) /\ next_id' = next_id
        /\ op' = [kind |-> "rename", stage |-> "main", from |-> a, to |-> b, id |-> i]
        /\ pc' = "persist"
    BY SourceBlock DEF TypeInv
  <1>2. /\ files' = [files EXCEPT ![a] = None, ![b] = i] /\ files' \in FileMaps
        /\ links' = [links EXCEPT ![i] = Append(RemoveFirst(links[i], a), b)]
    BY <1>1, RenameBlock DEF TypeInv
  <1>3. /\ files \in FileMaps /\ links \in LinkMaps /\ Agrees(files, links) /\ i < next_id
        /\ \A m \in Name : files[m] # None => files[m] < next_id
    BY GoodFacts DEF Running
  <1>4. files[a] = i /\ a # b
    OBVIOUS
  <1> HIDE DEF i
  <1>5. op'.kind = "rename" /\ op'.stage = "main" /\ op'.from = a /\ op'.to = b /\ op'.id = i
    BY <1>1
  <1>6. ~Creates' /\ ~Deletes'
    BY <1>5 DEF Deletes, Creates
  <1>7. After' = files'
    BY <1>6 DEF After
  <1>8. Agrees(files', links')
    BY <1>1, <1>2, <1>3, <1>4, AgreesRename
  <1>9. Before' = files
    <2>1. Before' = [files' EXCEPT ![b] = None, ![a] = i]
      BY <1>5, <1>6 DEF Before
    <2> QED BY <1>2, <1>3, <1>4, <2>1 DEF FileMaps
  <1>10. files'[a] = None /\ files'[b] = i
    BY <1>2, <1>3, <1>4 DEF FileMaps
  <1>11. OpDone'
    BY <1>1, <1>3, <1>5, <1>6, <1>10 DEF OpDone, Rolling
  <1>12. \A m \in Name : files'[m] # None => files'[m] < next_id'
    BY <1>1, <1>2, <1>3 DEF FileMaps
  <1> QED BY <1>1, <1>5, <1>7, <1>8, <1>9, <1>11, <1>12, GoodStarts

\* LinkFile.
LEMMA GoodLink ==
    ASSUME TypeInv, Good, NEW a \in Name, NEW b \in Name, LinkFile(a, b)
    PROVE  Good' /\ Before' = files /\ op'.kind = "link"
  <1> DEFINE i == files[a]
  <1>1. /\ state = "up" /\ pc = "idle" /\ i # None /\ files[b] = None /\ next_id' = next_id
        /\ UNCHANGED <<disk, state, meta, old, seq>>
        /\ links' = [links EXCEPT ![i] = Append(links[i], b)]
        /\ files' = [files EXCEPT ![b] = i]
        /\ pc' = "persist"
        /\ op' = [kind |-> "link", stage |-> "main", from |-> a, to |-> b, id |-> i]
    BY DEF LinkFile, Persist, Begin, Ready
  <1>2. op.kind = "none"
    BY <1>1 DEF TypeInv, Control
  <1>3. /\ files \in FileMaps /\ links \in LinkMaps /\ Agrees(files, links) /\ i < next_id
        /\ \A m \in Name : files[m] # None => files[m] < next_id
        /\ i \in FileId /\ After = files
    BY <1>1, <1>2, GoodFacts DEF Running
  <1>4. files[a] = i /\ a # b
    BY <1>1
  <1> HIDE DEF i
  <1>5. op'.kind = "link" /\ op'.stage = "main" /\ op'.from = a /\ op'.to = b /\ op'.id = i
    BY <1>1
  <1>6. ~Creates' /\ ~Deletes'
    BY <1>5 DEF Deletes, Creates
  <1>7. After' = files'
    BY <1>6 DEF After
  <1>8. Agrees(files', links')
    BY <1>1, <1>3, AgreesBind
  <1>9. Before' = files
    <2>1. Before' = [files' EXCEPT ![b] = None]
      BY <1>5, <1>6 DEF Before
    <2> QED BY <1>1, <1>3, <2>1 DEF FileMaps
  <1>10. files'[a] = i /\ files'[b] = i
    BY <1>1, <1>3, <1>4 DEF FileMaps
  <1>11. OpDone'
    BY <1>1, <1>3, <1>4, <1>5, <1>6, <1>10 DEF OpDone, Rolling
  <1>12. \A m \in Name : files'[m] # None => files'[m] < next_id'
    BY <1>1, <1>3 DEF FileMaps
  <1> QED BY <1>1, <1>3, <1>5, <1>7, <1>8, <1>9, <1>11, <1>12, GoodStarts

\* SyncFileMetadata.
LEMMA GoodSync ==
    ASSUME TypeInv, Good, NEW n \in Name, SyncFileMetadata(n)
    PROVE  Good' /\ Before' = files /\ op'.kind = "sync" /\ op'.id = files[n]
  <1> DEFINE i == files[n]
  <1>1. /\ state = "up" /\ pc = "idle" /\ i # None /\ next_id' = next_id
        /\ UNCHANGED <<disk, state, meta, old, seq>>
        /\ files' = files /\ links' = links /\ pc' = "persist"
        /\ op' = [kind |-> "sync", stage |-> "main", from |-> None, to |-> n, id |-> i]
    BY DEF SyncFileMetadata, Persist, Begin, Ready
  <1>2. op.kind = "none"
    BY <1>1 DEF TypeInv, Control
  <1>3. /\ Agrees(files, links) /\ i < next_id
        /\ \A m \in Name : files[m] # None => files[m] < next_id
        /\ After = files
    BY <1>1, <1>2, GoodFacts DEF Running
  <1>4. files[n] = i
    OBVIOUS
  <1> HIDE DEF i
  <1>5. op'.kind = "sync" /\ op'.stage = "main" /\ op'.to = n /\ op'.id = i
    BY <1>1
  <1>6. ~Creates' /\ ~Deletes'
    BY <1>5 DEF Deletes, Creates
  <1>7. After' = files' /\ Before' = files'
    BY <1>5, <1>6 DEF After, Before
  <1>8. Agrees(files', links')
    BY <1>1, <1>3
  <1>9. OpDone'
    BY <1>1, <1>3, <1>4, <1>5, <1>6 DEF OpDone, Rolling
  <1>10. \A m \in Name : files'[m] # None => files'[m] < next_id'
    BY <1>1, <1>3
  <1> QED BY <1>1, <1>3, <1>4, <1>5, <1>7, <1>8, <1>9, <1>10, GoodStarts

\* Operations that begin.
LEMMA GoodBegin ==
    ASSUME TypeInv, Good,
           \/ \E n \in Name : DeleteFile(n) \/ OpenWritableFile(n) \/ SyncFileMetadata(n)
           \/ \E a, b \in Name : RenameFile(a, b) \/ LinkFile(a, b)
    PROVE  Good'
  <1>1. ASSUME NEW k, Ready(k)
        PROVE  state = "up" /\ pc \in {"idle", "ok"} /\ After = files
    <2>1. state = "up" /\ pc = "idle" /\ op.kind = "none"
      BY <1>1 DEF Ready, TypeInv, Control
    <2> QED BY <2>1, GoodFacts DEF Running
  <1>2. ASSUME NEW n \in Name, DeleteFile(n)
        PROVE  Good'
    <2>1. /\ Ready("delete") /\ files[n] # None /\ DeleteFileNoLock(n)
          /\ UNCHANGED <<disk, state, meta, old, seq>>
          /\ Begin("delete", "main", None, n, files[n])
      BY <1>2 DEF DeleteFile
    <2> QED BY <1>1, <2>1, GoodDelete
  <1>3. ASSUME NEW n \in Name, OpenWritableFile(n)
        PROVE  Good'
    <2>1. Ready("create") /\ next_id <= MaxId /\ UNCHANGED <<disk, state, meta, old, seq>>
      BY <1>3 DEF OpenWritableFile
    <2>2. CASE files[n] # None
      <3>1. DeleteFileNoLock(n) /\ Begin("create", "dest", None, n, files[n])
        BY <1>3, <2>2 DEF OpenWritableFile
      <3> QED BY <1>1, <2>1, <2>2, <3>1, GoodDelete
    <2>3. CASE files[n] = None
      <3>1. CreateFile(n)
        BY <1>3, <2>3 DEF OpenWritableFile
      <3> QED BY <1>1, <2>1, <2>3, <3>1, GoodCreate
    <2> QED BY <2>2, <2>3
  <1>4. ASSUME NEW a \in Name, NEW b \in Name, RenameFile(a, b)
        PROVE  Good'
    <2>1. Ready("rename") /\ files[a] # None /\ UNCHANGED <<disk, state, meta, old, seq>>
      BY <1>4 DEF RenameFile
    <2>2. CASE files[b] # None
      <3>1. DeleteFileNoLock(b) /\ Begin("rename", "dest", a, b, files[b])
        BY <1>4, <2>2 DEF RenameFile
      <3> QED BY <1>1, <2>1, <2>2, <3>1, GoodDelete
    <2>3. CASE files[b] = None
      <3>1. RenameSource(a, b)
        BY <1>4, <2>3 DEF RenameFile
      <3> QED BY <1>1, <2>1, <2>3, <3>1, GoodRename
    <2> QED BY <2>2, <2>3
  <1> QED BY <1>2, <1>3, <1>4, GoodLink, GoodSync

\* The destination is gone.
LEMMA GoodAfterDestination ==
    ASSUME TypeInv, Good, AfterDestination
    PROVE  Good'
  <1>1. /\ state = "up" /\ pc = "ok" /\ op.stage = "dest" /\ old = None
        /\ UNCHANGED <<disk, state, meta, old, seq>> /\ old' = None
    BY DEF AfterDestination, TypeInv, Control
  <1>2. op.to \in Name /\ (op.kind = "rename" => op.from \in Name) /\ files[op.to] = None
    BY <1>1 DEF TypeInv, OpShape, Good, OpDone, Deletes
  <1>3. /\ After = files /\ Agrees(files, links)
        /\ \A n \in Name : files[n] # None => files[n] < next_id
    BY <1>1, GoodFacts DEF Running
  <1>4. CASE op.kind = "create" /\ CreateFile(op.to)
    <2>1. next_id <= MaxId
      BY <1>1, <1>4 DEF TypeInv, OpShape
    <2> QED BY <1>1, <1>2, <1>3, <1>4, <2>1, GoodCreate
  <1>5. CASE op.kind = "rename" /\ op.from # op.to /\ RenameSource(op.from, op.to)
    <2>1. files[op.from] # None
      BY <1>1, <1>5 DEF TypeInv, OpShape
    <2> QED BY <1>1, <1>2, <1>3, <1>5, <2>1, GoodRename
  <1>6. CASE Return /\ UNCHANGED mem
    <2>1. files' = files /\ links' = links /\ next_id' = next_id /\ Written
      BY <1>1, <1>6 DEF mem, Written
    <2> QED BY <1>1, <1>3, <1>6, <2>1, GoodEnds
  <1> QED BY <1>4, <1>5, <1>6 DEF AfterDestination

\* The record is on the device.
LEMMA GoodReturns ==
    ASSUME TypeInv, Good, OperationReturns
    PROVE  Good'
  <1>1. /\ state = "up" /\ pc = "ok" /\ op.stage = "main" /\ old = None /\ op.kind # "none"
        /\ UNCHANGED <<disk, state, meta, old, seq>> /\ old' = None /\ Return
        /\ links' = links /\ next_id' = next_id
        /\ files' = IF op.kind = "create" THEN [files EXCEPT ![op.to] = op.id] ELSE files
    BY DEF OperationReturns, TypeInv, Control
  <1>2. files' = After /\ Written
    BY <1>1 DEF After, Creates, Written
  <1>3. /\ files \in FileMaps /\ Agrees(After, links) /\ op.id < next_id
        /\ \A n \in Name : files[n] # None => files[n] < next_id
    BY <1>1, GoodFacts DEF Running, Good, OpDone
  <1>4. \A n \in Name : files'[n] # None => files'[n] < next_id'
    BY <1>1, <1>3 DEF FileMaps
  <1> QED BY <1>1, <1>2, <1>3, <1>4, GoodEnds

\* The record is not on the device, and the operation is undone.
LEMMA GoodFails ==
    ASSUME TypeInv, Good, NoLostRecord, OperationFails
    PROVE  Good'
  <1>1. /\ state = "up" /\ pc = "err" /\ old = None /\ op.kind # "none"
        /\ UNCHANGED <<disk, state, meta, seq>> /\ old' = None /\ Return
        /\ next_id' = next_id /\ ~Written
    BY DEF OperationFails, TypeInv, Control, NoLostRecord, Written
  <1>2. /\ files \in FileMaps /\ links \in LinkMaps /\ Agrees(After, links) /\ op.id < next_id
        /\ \A n \in Name : files[n] # None => files[n] < next_id
        /\ OpDone
    BY <1>1, GoodFacts DEF Running, Good, OpDone
  <1>3. /\ op.to \in Name /\ op.id \in FileId /\ (op.kind = "rename" => op.from \in Name)
        /\ op.stage = "dest" => op.kind \in {"create", "rename"}
        /\ op.stage \in {"main", "dest"}
    BY <1>1 DEF TypeInv, OpShape, OpSet
  <1>4. op.id # None
    BY <1>3, NoneIsNothing
  <1>5. /\ files' = Before /\ Agrees(files', links')
        /\ \A n \in Name : files'[n] # None => files'[n] < next_id'
    <2>1. CASE /\ op.kind = "delete" \/ op.stage = "dest"
               /\ files' = [files EXCEPT ![op.to] = op.id]
               /\ links' = [links EXCEPT ![op.id] = Append(@, op.to)]
      <3>1. Deletes /\ After = files /\ Before = [files EXCEPT ![op.to] = op.id]
        BY <1>1, <2>1 DEF Deletes, After, Creates, Before
      <3>2. files[op.to] = None
        BY <1>2, <3>1 DEF OpDone
      <3>3. links' = [links EXCEPT ![op.id] = Append(links[op.id], op.to)]
        BY <2>1
      <3>4. Agrees(files', links')
        <4>1. Agrees(files, links)
          BY <1>2, <3>1
        <4>2. Agrees([files EXCEPT ![op.to] = op.id],
                     [links EXCEPT ![op.id] = Append(links[op.id], op.to)])
          BY ONLY <1>2, <1>3, <3>2, <4>1, AgreesBind
        <4> QED BY <2>1, <3>3, <4>2
      <3>5. \A n \in Name : files'[n] # None => files'[n] < next_id'
        BY <1>1, <1>2, <2>1 DEF FileMaps
      <3> QED BY <2>1, <3>1, <3>4, <3>5
    <2>2. CASE /\ op.stage = "main" /\ op.kind = "create"
               /\ links' = [links EXCEPT ![op.id] = <<>>] /\ files' = files
      <3>1. Creates /\ ~Deletes /\ After = [files EXCEPT ![op.to] = op.id] /\ Before = files
        BY <2>2 DEF Deletes, After, Creates, Before
      <3>2. files[op.to] = None /\ \A n \in Name : files[n] # op.id
        BY <1>2, <3>1 DEF OpDone
      <3>3. Agrees(files, links')
        BY <1>2, <1>3, <2>2, <3>1, <3>2, AgreesDrop
      <3> QED BY <1>1, <1>2, <2>2, <3>1, <3>3
    <2>3. CASE op.stage = "main" /\ op.kind = "rename" /\ RenameLink(op.to, op.from, op.id)
      <3>1. ~Deletes /\ After = files /\ Before = [files EXCEPT ![op.to] = None, ![op.from] = op.id]
        BY <2>3 DEF Deletes, After, Creates, Before
      <3>2. files[op.to] = op.id /\ files[op.from] = None
        BY <1>2, <2>3 DEF OpDone
      <3>3. /\ files' = [files EXCEPT ![op.to] = None, ![op.from] = op.id]
            /\ links' = [links EXCEPT ![op.id] = Append(RemoveFirst(links[op.id], op.to), op.from)]
        BY <1>3, <2>3, RenameBlock DEF TypeInv
      <3>4. Agrees(files', links')
        <4>1. Agrees(files, links) /\ op.from \in Name
          BY <1>2, <1>3, <2>3, <3>1
        <4>2. Agrees([files EXCEPT ![op.to] = None, ![op.from] = op.id],
                     [links EXCEPT ![op.id] = Append(RemoveFirst(links[op.id], op.to), op.from)])
          BY ONLY <1>2, <1>3, <3>2, <4>1, AgreesRename
        <4> QED BY <3>3, <4>2
      <3>5. \A n \in Name : files'[n] # None => files'[n] < next_id'
        BY <1>1, <1>2, <1>3, <2>3, <3>3 DEF FileMaps
      <3> QED BY <3>1, <3>3, <3>4, <3>5
    <2>4. CASE /\ op.kind = "link" /\ files' = [files EXCEPT ![op.to] = None]
               /\ links' = [links EXCEPT ![op.id] = RemoveFirst(@, op.to)]
      <3>1. op.stage = "main"
        BY <1>3, <2>4
      <3>2. ~Deletes /\ After = files /\ Before = [files EXCEPT ![op.to] = None]
        BY <2>4, <3>1 DEF Deletes, After, Creates, Before
      <3>3. files[op.to] = op.id
        BY <1>2, <2>4, <3>1 DEF OpDone
      <3>4. links' = [links EXCEPT ![op.id] = RemoveFirst(links[op.id], op.to)]
        BY <2>4
      <3>5. Agrees(files', links')
        <4>1. Agrees(files, links)
          BY <1>2, <3>2
        <4>2. Agrees([files EXCEPT ![op.to] = None],
                     [links EXCEPT ![op.id] = RemoveFirst(links[op.id], op.to)])
          BY ONLY <1>2, <1>3, <3>3, <4>1, AgreesUnbind
        <4> QED BY <2>4, <3>4, <4>2
      <3>6. \A n \in Name : files'[n] # None => files'[n] < next_id'
        BY <1>1, <1>2, <2>4 DEF FileMaps
      <3> QED BY <2>4, <3>2, <3>5, <3>6
    <2>5. CASE op.kind = "sync" /\ UNCHANGED <<files, links>>
      <3>1. op.stage = "main"
        BY <1>3, <2>5
      <3>2. After = files /\ Before = files
        BY <2>5, <3>1 DEF Deletes, After, Creates, Before
      <3> QED BY <1>1, <1>2, <2>5, <3>2
    <2> QED BY <2>1, <2>2, <2>3, <2>4, <2>5 DEF OperationFails
  <1> QED BY <1>1, <1>5, GoodEnds

-----------------------------------------------------------------------------
(* Steps of the device.                                                     *)

\* A zone is reset.
LEMMA ShapeReset ==
    ASSUME TypeInv, ZoneShape, NEW z \in MetaZone, ResetMetaZone(z)
    PROVE  ZoneShape'
  <1>1. log'[z] = Blank /\ \A y \in MetaZone \ {z} : log'[y] = log[y]
    BY ZoneReset DEF TypeInv
  <1>2. log'[z].status = "none"
    BY <1>1, FreshZone
  <1> QED BY <1>1, <1>2 DEF ZoneShape

\* A zone is appended to.
LEMMA ShapeAppend ==
    ASSUME TypeInv, ZoneShape, NEW z \in MetaZone, NEW r, AddRecord(z, r),
           Read(log[z], r) \in ZoneState, Read(log[z], r).len # 0
    PROVE  ZoneShape'
  <1>1. log'[z] = Read(log[z], r) /\ \A y \in MetaZone \ {z} : log'[y] = log[y]
    BY ZoneAppended DEF TypeInv
  <1> QED BY <1>1 DEF ZoneShape

\* Every step.
LEMMA ShapeNext == TypeInv /\ ZoneShape /\ [Next]_vars => ZoneShape'
  <1> SUFFICES ASSUME TypeInv, ZoneShape, [Next]_vars PROVE ZoneShape'
    OBVIOUS
  <1>1. CASE UNCHANGED log
    BY <1>1 DEF ZoneShape
  <1>2. ASSUME pc # "idle"
        PROVE  meta \in MetaZone /\ (pc \in Rolling => old \in MetaZone)
    BY <1>2 DEF TypeInv, Control
  <1>3. ASSUME NEW z \in MetaZone, log[z].len < ZoneCap, AddRecord(z, Torn)
        PROVE  ZoneShape'
    <2>1. log[z] \in ZoneState
      BY DEF TypeInv, TypeOK
    <2>2. Read(log[z], Torn) \in ZoneState /\ Read(log[z], Torn).len # 0
      BY <1>3, <2>1, ReadTorn
    <2> QED BY <1>3, <2>2, ShapeAppend
  <1>4. CASE PersistRecord
    <2>1. pc = "persist" /\ meta \in MetaZone
      BY <1>2, <1>4 DEF PersistRecord
    <2>2. CASE HasRoom(meta) /\ AddRecord(meta, rec)
      <3>1. log[meta] \in ZoneState /\ log[meta].len < ZoneCap
        BY <2>1, <2>2, RoomLeft DEF TypeInv
      <3>2. Read(log[meta], rec) \in ZoneState /\ Read(log[meta], rec).len # 0
        BY <2>1, <3>1, OpRecord, ReadRecord
      <3> QED BY <2>1, <2>2, <3>2, ShapeAppend
    <2>3. CASE HasRoom(meta) /\ AddRecord(meta, Torn)
      BY <1>3, <2>1, <2>3, RoomLeft DEF TypeInv
    <2> QED BY <1>1, <1>4, <2>2, <2>3 DEF PersistRecord, FailedAppend
  <1>5. CASE AllocateMetaZone
    <2>1. (\E z \in MetaZone : ResetMetaZone(z)) \/ UNCHANGED disk
      BY <1>5 DEF AllocateMetaZone
    <2> QED BY <1>1, <2>1, ShapeReset DEF disk
  <1>6. CASE WriteEndRecord
    <2>1. pc = "end" /\ old \in MetaZone
      BY <1>2, <1>6 DEF WriteEndRecord, Rolling
    <2>2. CASE HasRoom(old) /\ AddRecord(old, End)
      <3>1. log[old] \in ZoneState /\ log[old].len < ZoneCap
        BY <2>1, <2>2, RoomLeft DEF TypeInv
      <3>2. Read(log[old], End) \in ZoneState /\ Read(log[old], End).len # 0
        BY <3>1, ReadAnyEnd
      <3> QED BY <2>1, <2>2, <3>2, ShapeAppend
    <2>3. CASE HasRoom(old) /\ AddRecord(old, Torn)
      BY <1>3, <2>1, <2>3, RoomLeft DEF TypeInv
    <2> QED BY <1>1, <1>6, <2>2, <2>3 DEF WriteEndRecord, FailedAppend, disk
  <1>7. CASE RollWriteSuperblock
    <2>1. pc = "super" /\ meta \in MetaZone /\ log[meta] = Blank
      BY <1>2, <1>7 DEF RollWriteSuperblock, TypeInv, RollShape
    <2>2. seq + 1 \in Seqs
      BY <2>1, Consts DEF TypeInv, SeqBound, Seqs
    <2>3. CASE AddRecord(meta, Super(seq + 1))
      <3>1. /\ Read(log[meta], Super(seq + 1)) \in ZoneState
            /\ Read(log[meta], Super(seq + 1)).len # 0
        BY <2>1, <2>2, FreshZone
      <3> QED BY <2>1, <2>3, <3>1, ShapeAppend
    <2>4. CASE AddRecord(meta, Torn)
      <3>1. log[meta].len < ZoneCap
        BY <2>1, FreshZone, Consts
      <3> QED BY <1>3, <2>1, <2>4, <3>1
    <2> QED BY <1>1, <1>7, <2>3, <2>4 DEF RollWriteSuperblock, FailedAppend
  <1>8. CASE WriteSnapshotLocked
    <2>1. pc = "snapshot" /\ meta \in MetaZone /\ log[meta] = Read(Blank, Super(seq))
      BY <1>2, <1>8 DEF WriteSnapshotLocked, TypeInv, RollShape
    <2>2. /\ log[meta] \in ZoneState /\ log[meta].len < ZoneCap /\ log[meta].len # 0
          /\ log[meta].status \in {"none", "ok"}
      BY <2>1, FreshZone, Consts DEF TypeInv, SeqBound, Seqs
    <2>3. CASE AddRecord(meta, Snapshot(files, links, ver))
      <3> DEFINE u == Read(log[meta], Snapshot(files, links, ver))
      <3>1. u \in ZoneState /\ u.len # 0
        BY <2>2, ReadSnapshot DEF TypeInv, TypeOK
      <3> QED BY <2>1, <2>3, <3>1, ShapeAppend
    <2>4. CASE AddRecord(meta, Torn)
      BY <1>3, <2>1, <2>2, <2>4
    <2> QED BY <1>1, <1>8, <2>3, <2>4 DEF WriteSnapshotLocked, FailedAppend
  <1>9. CASE RollResetOldZone
    <2>1. old \in MetaZone
      BY <1>2, <1>9 DEF RollResetOldZone, Rolling
    <2> QED BY <1>1, <1>9, <2>1, ShapeReset DEF RollResetOldZone, disk
  <1>10. CASE CrashInWrite
    <2>1. meta \in MetaZone /\ (pc = "end" => old \in MetaZone)
      BY <1>10 DEF CrashInWrite, TypeInv, Control, Running, Rolling
    <2> QED BY <1>3, <1>10, <2>1, RoomLeft DEF CrashInWrite, TypeInv
  <1>11. CASE Operation
    <2>1. UNCHANGED disk
      BY <1>11 DEF Operation, DeleteFile, OpenWritableFile, SyncFileMetadata, RenameFile,
                   LinkFile, AfterDestination, OperationReturns, OperationFails
    <2> QED BY <1>1, <2>1 DEF disk
  <1>12. CASE Mount \/ MountReturns \/ MountFails \/ Crash \/ UNCHANGED vars
    <2>1. UNCHANGED disk
      BY <1>12 DEF Mount, MountReturns, MountFails, Crash, vars, disk
    <2> QED BY <1>1, <2>1 DEF disk
  <1> QED BY <1>4, <1>5, <1>6, <1>7, <1>8, <1>9, <1>10, <1>11, <1>12 DEF Next, Device

\* One file gets other names.
LEMMA AgreesUpdate ==
    ASSUME NEW f \in FileMaps, NEW g \in FileMaps, NEW l \in LinkMaps, NEW k \in LinkMaps,
           NEW i \in FileId, Agrees(f, l), Agrees(g, k),
           \A n \in Name : \/ f[n] = g[n]
                           \/ f[n] \in {None, i} /\ g[n] \in {None, i}
    PROVE  Agrees(g, [l EXCEPT ![i] = k[i]])
  <1>1. ASSUME NEW m \in Name, NEW j \in FileId
        PROVE  g[m] = j <=> m \in ToSet([l EXCEPT ![i] = k[i]][j])
    <2>1. CASE j = i
      BY <2>1 DEF Agrees, LinkMaps
    <2>2. CASE j # i
      <3>1. f[m] = j <=> m \in ToSet(l[j])
        BY DEF Agrees
      <3>2. f[m] = j <=> g[m] = j
        BY <2>2, NoneIsNothing
      <3>3. [l EXCEPT ![i] = k[i]][j] = l[j]
        BY <2>2 DEF LinkMaps
      <3> QED BY <3>1, <3>2, <3>3
    <2> QED BY <2>1, <2>2
  <1>2. \A j \in FileId : IsInjective([l EXCEPT ![i] = k[i]][j])
    BY DEF Agrees, LinkMaps
  <1> QED BY <1>1, <1>2 DEF Agrees

\* A file with one name.
LEMMA OnlyName ==
    ASSUME NEW s \in Seq(Name), NEW n, ToSet(s) = {n}
    PROVE  ToSet(s) = {s[1]}
  <1>1. PICK i \in 1..Len(s) : s[i] = n
    BY DEF ToSet
  <1>2. 1 \in 1..Len(s)
    BY <1>1
  <1>3. s[1] \in ToSet(s)
    BY <1>2 DEF ToSet
  <1> QED BY <1>3

\* A step of a running file system that leaves the namespace alone.
LEMMA GoodStep ==
    ASSUME Good, Running, UNCHANGED <<state, mem, op>>, NEW z \in MetaZone,
           Recoverable(z)', Holds(z)', pc' \in Rolling \union {"alloc"} => ~Creates
    PROVE  Good'
  <1>1. After' = After /\ Creates' = Creates /\ Deletes' = Deletes
    BY DEF After, Creates, Deletes, mem
  <1>2. OpDone'
    BY <1>1 DEF Good, OpDone, mem
  <1>3. Memory'
    BY <1>1 DEF Good, Memory, Running, mem
  <1>4. Durable'
    BY DEF Durable
  <1> QED BY <1>2, <1>3, <1>4 DEF Good

\* The zone of the log gets a record.
LEMMA RecoverableWritten ==
    ASSUME NEW z \in MetaZone, Newest(z), log'[z].status \in {"ok", "ended"},
           log'[z].seq = log[z].seq, \A y \in MetaZone \ {z} : log'[y] = log[y],
           Agrees(log'[z].files, log'[z].links),
           \A n \in Name : log'[z].files[n] # None => log'[z].files[n] \in log'[z].ids
    PROVE  Recoverable(z)'
  BY DEF Recoverable, Newest

\* What the operation changes is about its file.
LEMMA OneFile ==
    ASSUME TypeInv, Good, state = "up", op.kind # "none", ~Deletes
    PROVE  /\ \A n \in Name : \/ Before[n] = After[n]
                              \/ Before[n] \in {None, op.id} /\ After[n] \in {None, op.id}
           /\ (\E n \in Name : Before[n] = op.id) \/ ToSet(links[op.id]) = {links[op.id][1]}
  <1>1. /\ op.to \in Name /\ op.id \in FileId /\ (op.kind = "rename" => op.from \in Name)
        /\ op.stage = "main" /\ op.kind \in {"create", "rename", "link", "sync"}
    BY DEF TypeInv, OpShape, OpSet, OpKinds, Deletes
  <1>2. /\ files \in FileMaps /\ links \in LinkMaps /\ Agrees(After, links) /\ OpDone
    BY GoodFacts DEF Running, Good
  <1>3. CASE op.kind = "create"
    <2>1. /\ Creates /\ files[op.to] = None /\ \A n \in Name : files[n] # op.id
          /\ Before = files /\ After = [files EXCEPT ![op.to] = op.id]
      BY <1>1, <1>2, <1>3 DEF Creates, OpDone, Before, After
    <2>2. \A n \in Name : After[n] = op.id <=> n = op.to
      BY <1>1, <1>2, <2>1 DEF FileMaps
    <2>3. links[op.id] \in Seq(Name) /\ ToSet(links[op.id]) \subseteq Name
      BY <1>1, <1>2 DEF LinkMaps, ToSet
    <2>4. ToSet(links[op.id]) = {op.to}
      BY <1>1, <1>2, <2>2, <2>3 DEF Agrees
    <2>5. ToSet(links[op.id]) = {links[op.id][1]}
      BY <2>3, <2>4, OnlyName
    <2>6. \A n \in Name : \/ Before[n] = After[n]
                          \/ Before[n] \in {None, op.id} /\ After[n] \in {None, op.id}
      BY <1>1, <1>2, <2>1 DEF FileMaps
    <2> QED BY <2>5, <2>6
  <1>4. CASE op.kind = "rename"
    <2>1. /\ After = files /\ Before = [files EXCEPT ![op.to] = None, ![op.from] = op.id]
          /\ files[op.to] = op.id /\ files[op.from] = None /\ op.from \in Name
      BY <1>1, <1>2, <1>4 DEF Creates, OpDone, Before, After
    <2>2. Before[op.from] = op.id
      BY <1>2, <2>1 DEF FileMaps
    <2>3. \A n \in Name : \/ Before[n] = After[n]
                          \/ Before[n] \in {None, op.id} /\ After[n] \in {None, op.id}
      BY <1>1, <1>2, <2>1 DEF FileMaps
    <2> QED BY <2>1, <2>2, <2>3
  <1>5. CASE op.kind = "link"
    <2>1. /\ After = files /\ Before = [files EXCEPT ![op.to] = None]
          /\ files[op.to] = op.id /\ files[op.from] = op.id
      BY <1>1, <1>2, <1>5 DEF Creates, OpDone, Before, After
    <2>2. op.from \in Name /\ op.from # op.to
      BY <1>2, <1>5 DEF OpDone
    <2>3. Before[op.from] = op.id
      BY <1>2, <2>1, <2>2 DEF FileMaps
    <2>4. \A n \in Name : \/ Before[n] = After[n]
                          \/ Before[n] \in {None, op.id} /\ After[n] \in {None, op.id}
      BY <1>1, <1>2, <2>1 DEF FileMaps
    <2> QED BY <2>2, <2>3, <2>4
  <1>6. CASE op.kind = "sync"
    <2>1. After = files /\ Before = files /\ files[op.to] = op.id
      BY <1>1, <1>2, <1>6 DEF Creates, OpDone, Before, After
    <2> QED BY <1>1, <2>1
  <1> QED BY <1>1, <1>3, <1>4, <1>5, <1>6

\* The record of an operation replays to what the operation did.
LEMMA RecordReplayed ==
    ASSUME TypeInv, ZoneShape, Good, pc = "persist", NEW z \in MetaZone, z = meta,
           HasRoom(z), AddRecord(z, rec)
    PROVE  /\ Recoverable(z)' /\ Cur = z
           /\ log'[z].status = "ok" /\ log'[z].files = After /\ log'[z].seq = log[z].seq
           /\ log'[z].ver = IF Deletes THEN log[z].ver
                            ELSE [log[z].ver EXCEPT ![op.id] = ver[op.id]]
  <1> DEFINE st == log[z]
             u  == Read(st, rec)
  <1>1. state = "up" /\ old = None /\ Running /\ Cur = z /\ ~Written
    BY DEF TypeInv, Control, Running, Cur, Written
  <1>2. st \in ZoneState /\ st.len < ZoneCap
    BY <1>1, RoomLeft DEF TypeInv
  <1>3. /\ Recoverable(z) /\ st.status = "ok" /\ st.files = Before
        /\ Agrees(Before, st.links) /\ Newest(z)
        /\ \A n \in Name : Before[n] # None => Before[n] \in st.ids
    BY <1>1, GoodFacts DEF Holds, Recoverable
  <1>4. st.len # 0
    BY <1>1, <1>3 DEF ZoneShape
  <1>5. /\ op.id \in FileId /\ op.to \in Name /\ op.kind # "none"
        /\ links[op.id] \in Seq(Name) /\ ver[op.id] \in 0..MaxVer
    BY OpRecord
  <1>6. /\ log'[z] = u /\ u.seq = st.seq /\ u \in ZoneState
        /\ \A y \in MetaZone \ {z} : log'[y] = log[y]
    BY <1>1, <1>2, OpRecord, ReadRecord, ZoneAppended DEF TypeInv
  <1>7. /\ files \in FileMaps /\ links \in LinkMaps /\ Agrees(After, links) /\ OpDone
    BY <1>1, GoodFacts DEF Good
  <1>8. st.links \in LinkMaps /\ st.files \in FileMaps
    BY <1>2, ZoneFields
  <1>9. /\ u.status = "ok" /\ u.files = After /\ Agrees(After, u.links)
        /\ \A n \in Name : After[n] # None => After[n] \in u.ids
        /\ u.ver = IF Deletes THEN st.ver ELSE [st.ver EXCEPT ![op.id] = ver[op.id]]
    <2>1. CASE Deletes
      <3>1. /\ After = files /\ Before = [files EXCEPT ![op.to] = op.id]
            /\ files[op.to] = None /\ rec = Deletion(op.id, op.to)
        BY <1>5, <1>7, <2>1 DEF After, Creates, Deletes, Before, OpDone, TypeInv, RecordShape
      <3>2. Before[op.to] = op.id /\ files = [Before EXCEPT ![op.to] = None]
        BY <1>5, <1>7, <3>1 DEF FileMaps
      <3> HIDE DEF st
      <3>3. /\ u.status = "ok" /\ u.files = [st.files EXCEPT ![op.to] = None]
            /\ u.links = [st.links EXCEPT ![op.id] = RemoveFirst(@, op.to)]
            /\ u.ver = st.ver /\ u.ids = st.ids
        <4>1. st.files[op.to] = op.id
          BY <1>3, <3>2
        <4>2. /\ Read(st, Deletion(op.id, op.to)).status = "ok"
              /\ Read(st, Deletion(op.id, op.to)).files = [st.files EXCEPT ![op.to] = None]
              /\ Read(st, Deletion(op.id, op.to)).links =
                     [st.links EXCEPT ![op.id] = RemoveFirst(@, op.to)]
              /\ Read(st, Deletion(op.id, op.to)).ver = st.ver
              /\ Read(st, Deletion(op.id, op.to)).ids = st.ids
          BY ONLY <1>2, <1>3, <1>4, <1>5, <4>1, ReadDeletion
        <4> QED BY <3>1, <4>2
      <3>4. u.links = [st.links EXCEPT ![op.id] = RemoveFirst(st.links[op.id], op.to)]
        BY <3>3
      <3>5. Agrees([Before EXCEPT ![op.to] = None],
                   [st.links EXCEPT ![op.id] = RemoveFirst(st.links[op.id], op.to)])
        BY ONLY <1>3, <1>5, <1>8, <3>2, AgreesUnbind
      <3>6. \A n \in Name : files[n] # None => files[n] \in u.ids
        BY <1>3, <1>5, <1>7, <3>1, <3>3 DEF FileMaps
      <3> QED BY <1>3, <2>1, <3>1, <3>2, <3>3, <3>4, <3>5, <3>6
    <2>2. CASE ~Deletes
      <3>1. rec = Update(op.id, links[op.id], ver[op.id])
        BY <2>2 DEF TypeInv, RecordShape
      <3>2. /\ \A n \in Name : \/ Before[n] = After[n]
                               \/ Before[n] \in {None, op.id} /\ After[n] \in {None, op.id}
            /\ (\E n \in Name : Before[n] = op.id) \/ ToSet(links[op.id]) = {links[op.id][1]}
        BY <1>1, <1>5, <2>2, OneFile
      <3>3. After \in FileMaps
        BY <1>5, <1>7, Rebound DEF After
      <3>4. /\ \A n \in Name : Before[n] = op.id <=> n \in ToSet(st.links[op.id])
            /\ \A n \in Name : After[n] = op.id <=> n \in ToSet(links[op.id])
        BY <1>3, <1>5, <1>7 DEF Agrees
      <3> HIDE DEF st
      <3>5. /\ u.status = "ok" /\ u.files = After
            /\ u.links = [st.links EXCEPT ![op.id] = links[op.id]]
            /\ u.ver = [st.ver EXCEPT ![op.id] = ver[op.id]]
            /\ u.ids = st.ids \union {op.id}
        BY <1>2, <1>3, <1>4, <1>5, <3>1, <3>2, <3>3, <3>4, ReadUpdate
      <3>6. Agrees(After, u.links)
        <4>1. Before \in FileMaps /\ Agrees(Before, st.links)
          BY <1>3, <1>8
        <4>2. \A n \in Name : \/ Before[n] = After[n]
                              \/ Before[n] \in {None, op.id} /\ After[n] \in {None, op.id}
          BY <3>2
        <4>3. Agrees(After, [st.links EXCEPT ![op.id] = links[op.id]])
          BY ONLY <1>5, <1>7, <1>8, <3>3, <4>1, <4>2, AgreesUpdate
        <4> QED BY <3>5, <4>3
      <3>7. \A n \in Name : After[n] # None => After[n] \in u.ids
        BY <1>3, <3>2, <3>5
      <3> QED BY <2>2, <3>5, <3>6, <3>7
    <2> QED BY <2>1, <2>2
  <1> HIDE DEF u
  <1>10. Recoverable(z)'
    BY <1>1, <1>3, <1>6, <1>9, RecoverableWritten
  <1> QED BY <1>1, <1>6, <1>9, <1>10

\* The log replays as before, and whether it holds the record of the running
\* operation has not changed.
SameLog ==
    /\ Written' = Written
    /\ \E z \in MetaZone : /\ z = Cur /\ z = Cur'
                           /\ log'[z].files = log[z].files /\ log'[z].ver = log[z].ver

\* The record of the running operation is in the log.
Recorded ==
    /\ Written'
    /\ \E z \in MetaZone : /\ z = Cur /\ z = Cur' /\ log'[z].files = After
                           /\ log'[z].ver = IF Deletes THEN log[z].ver
                                            ELSE [log[z].ver EXCEPT ![op.id] = ver[op.id]]

\* The log has moved to a new zone.
Snapshotted ==
    /\ Written' /\ After = files
    /\ \E z \in MetaZone : z = Cur' /\ log'[z].files = files /\ log'[z].ver = ver

\* The zones the log is written to can be read to their end: no device error has
\* left a part of a record behind.
LogReadable == Running => \A z \in {meta, old} \ {None} : log[z].status # "torn"

\* This step leaves no part of a record behind.
Whole == faults' = 0 \/ LogReadable'

\* A part of a record behind the records of a zone.
LEMMA NotWhole ==
    ASSUME TypeInv, Whole, faults' > 0, Running', NEW z \in MetaZone, z \in {meta', old'},
           log[z].len < ZoneCap, log[z].len # 0, log[z].status \in {"none", "ok"},
           AddRecord(z, Torn)
    PROVE  FALSE
  <1>1. log[z] \in ZoneState
    BY DEF TypeInv, TypeOK
  <1>2. Read(log[z], Torn) \in ZoneState /\ Read(log[z], Torn).status = "torn"
    BY <1>1, ReadTorn
  <1>3. log'[z].status = "torn"
    BY <1>2, ZoneAppended DEF TypeInv
  <1>4. z # None /\ LogReadable'
    BY NoneIsNothing, Consts DEF Whole, TypeInv, TypeOK
  <1> QED BY <1>3, <1>4 DEF LogReadable

\* PersistRecord.
LEMMA GoodPersist ==
    ASSUME TypeInv, ZoneShape, Good, NoLostRecord', Whole, PersistRecord
    PROVE  Good' /\ (SameLog \/ Recorded)
  <1>1. /\ pc = "persist" /\ state = "up" /\ old = None /\ meta \in MetaZone /\ Running
        /\ pc' \in {"ok", "err", "alloc"}
        /\ UNCHANGED <<state, mem, meta, old, seq, op>>
    BY DEF PersistRecord, TypeInv, Control, Running
  <1>2. pc' \in Rolling \union {"alloc"} => ~Creates
    BY <1>1 DEF NoLostRecord, Creates, Rolling
  <1>3. PICK z \in MetaZone : Recoverable(z) /\ Holds(z)
    BY <1>1 DEF Good, Durable
  <1>4. z = meta /\ Cur = z
    BY <1>1, <1>3 DEF Holds, Cur
  <1>5. After' = After /\ Before' = Before /\ Cur' = z
    BY <1>1, <1>4 DEF After, Before, Creates, Deletes, Cur, mem
  <1>6. CASE HasRoom(meta) /\ AddRecord(meta, rec) /\ pc' = "ok"
    <2>1. /\ Recoverable(z)' /\ log'[z].status = "ok" /\ log'[z].files = After
          /\ log'[z].seq = log[z].seq
          /\ log'[z].ver = IF Deletes THEN log[z].ver
                           ELSE [log[z].ver EXCEPT ![op.id] = ver[op.id]]
      BY <1>1, <1>4, <1>6, RecordReplayed
    <2>2. Holds(z)'
      BY <1>1, <1>3, <1>5, <1>6, <2>1 DEF Holds, Written, mem
    <2>3. Recorded
      BY <1>4, <1>5, <1>6, <2>1 DEF Recorded, Written
    <2> QED BY <1>1, <1>2, <2>1, <2>2, <2>3, GoodStep
  <1>7. CASE UNCHANGED log /\ pc' \in {"err", "alloc"}
    <2>1. Recoverable(z)'
      BY <1>3, <1>7, RecoverableKept DEF Recoverable
    <2>2. Holds(z)'
      BY <1>1, <1>3, <1>5, <1>7 DEF Holds, Written, mem
    <2>3. SameLog
      BY <1>1, <1>4, <1>5, <1>7 DEF SameLog, Written
    <2> QED BY <1>1, <1>2, <2>1, <2>2, <2>3, GoodStep
  <1>8. ~(HasRoom(meta) /\ AddRecord(meta, Torn) /\ Faults(1))
    <2> SUFFICES ASSUME HasRoom(meta), AddRecord(meta, Torn), Faults(1) PROVE FALSE
      OBVIOUS
    <2>1. log[z].len < ZoneCap /\ log[z].len # 0 /\ log[z].status = "ok"
      BY <1>1, <1>3, <1>4, RoomLeft DEF TypeInv, ZoneShape, Holds
    <2>2. faults' > 0 /\ Running' /\ z \in {meta', old'} /\ AddRecord(z, Torn)
      BY <1>1, <1>4 DEF Faults, Running, TypeInv, TypeOK
    <2> QED BY <2>1, <2>2, NotWhole
  <1> QED BY <1>6, <1>7, <1>8 DEF PersistRecord, FailedAppend

\* AllocateMetaZone.
LEMMA GoodAllocate ==
    ASSUME TypeInv, Good, AllocateMetaZone
    PROVE  Good' /\ SameLog
  <1>1. /\ pc = "alloc" /\ old = None /\ meta \in MetaZone /\ Running
        /\ UNCHANGED <<state, mem, seq, op>>
    BY DEF AllocateMetaZone, TypeInv, Control, Running
  <1>2. ~Creates
    BY <1>1 DEF Good, OpDone
  <1>3. PICK z \in MetaZone : Recoverable(z) /\ Holds(z)
    BY <1>1 DEF Good, Durable
  <1>4. z = meta /\ z = Cur
    BY <1>1, <1>3 DEF Holds, Cur
  <1>5. After' = After /\ Before' = Before
    BY <1>1 DEF After, Before, Creates, Deletes, mem
  <1>6. ASSUME NEW y \in MetaZone \ {meta}, ResetMetaZone(y), meta' = y, old' = meta, pc' = "end"
        PROVE  Good' /\ SameLog
    <2>1. /\ log'[y] = Blank /\ \A x \in MetaZone \ {y} : log'[x] = log[x]
      BY <1>6, ZoneReset DEF TypeInv
    <2>2. log'[z] = log[z] /\ log'[y].status = "none"
      BY <1>4, <1>6, <2>1, FreshZone
    <2>3. Recoverable(z)'
      BY <1>3, <2>1, <2>2, RecoverableKept DEF Recoverable
    <2>4. Cur' = z
      BY <1>4, <1>6, NoneIsNothing DEF Cur
    <2>5. Holds(z)'
      BY <1>1, <1>3, <1>5, <1>6, <2>2, <2>4, NoneIsNothing DEF Holds, Written, mem
    <2>6. SameLog
      BY <1>1, <1>4, <1>6, <2>2, <2>4 DEF SameLog, Written
    <2> QED BY <1>1, <1>2, <2>3, <2>5, <2>6, GoodStep
  <1>7. CASE pc' = "err" /\ UNCHANGED <<disk, meta, old>>
    <2>1. log' = log /\ Cur' = z
      BY <1>1, <1>4, <1>7 DEF disk, Cur
    <2>2. Recoverable(z)'
      BY <1>3, <2>1, RecoverableKept DEF Recoverable
    <2>3. Holds(z)'
      BY <1>1, <1>3, <1>5, <1>7, <2>1 DEF Holds, Written, mem
    <2>4. SameLog
      BY <1>1, <1>4, <1>7, <2>1 DEF SameLog, Written
    <2> QED BY <1>1, <1>2, <2>2, <2>3, <2>4, GoodStep
  <1>8. \/ \E y \in MetaZone \ {meta} :
              ResetMetaZone(y) /\ meta' = y /\ old' = meta /\ pc' = "end"
        \/ pc' = "err" /\ UNCHANGED <<disk, meta, old>>
    BY DEF AllocateMetaZone
  <1> QED BY <1>6, <1>7, <1>8

\* The end record.
LEMMA GoodWriteEnd ==
    ASSUME TypeInv, ZoneShape, Good, Whole, WriteEndRecord
    PROVE  Good' /\ SameLog
  <1>1. /\ pc = "end" /\ old \in MetaZone \ {meta} /\ Running /\ pc' = "super"
        /\ UNCHANGED <<state, mem, meta, old, seq, op>>
    BY DEF WriteEndRecord, TypeInv, Control, Running, Rolling
  <1>2. ~Creates
    BY <1>1 DEF Good, OpDone, Rolling
  <1>3. PICK z \in MetaZone : Recoverable(z) /\ Holds(z)
    BY <1>1 DEF Good, Durable
  <1>4. z = old /\ Cur = z /\ Cur' = z /\ old # None
    BY <1>1, <1>3, NoneIsNothing DEF Holds, Cur
  <1>5. After' = After /\ Before' = Before
    BY <1>1 DEF After, Before, Creates, Deletes, mem
  <1>6. CASE HasRoom(old) /\ AddRecord(old, End)
    <2>1. log[z] \in ZoneState /\ log[z].len < ZoneCap /\ z \notin finished
      BY <1>4, <1>6, RoomLeft DEF TypeInv
    <2>2. log[z].status \in {"ok", "ended"} /\ log[z].len # 0
      BY <1>3, <2>1 DEF ZoneShape, Recoverable
    <2> DEFINE u == Read(log[z], End)
    <2>3. /\ u \in ZoneState /\ u.seq = log[z].seq /\ u.status = "ended"
          /\ u.files = log[z].files /\ u.links = log[z].links /\ u.ver = log[z].ver
          /\ u.ids = log[z].ids
      BY <2>1, <2>2, ReadLastEnd
    <2>4. log'[z] = u /\ \A y \in MetaZone \ {z} : log'[y] = log[y]
      BY <1>4, <1>6, <2>3, ZoneAppended DEF TypeInv
    <2> HIDE DEF u
    <2>5. Recoverable(z)'
      BY <1>3, <2>3, <2>4, RecoverableKept
    <2>6. Holds(z)'
      BY <1>1, <1>3, <1>4, <1>5, <2>3, <2>4 DEF Holds, Written, mem
    <2>7. SameLog
      BY <1>1, <1>4, <2>3, <2>4 DEF SameLog, Written
    <2> QED BY <1>1, <1>2, <2>5, <2>6, <2>7, GoodStep
  <1>7. CASE UNCHANGED log
    <2>1. Recoverable(z)'
      BY <1>3, <1>7, RecoverableKept DEF Recoverable
    <2>2. Holds(z)'
      BY <1>1, <1>3, <1>4, <1>5, <1>7 DEF Holds, Written, mem
    <2>3. SameLog
      BY <1>1, <1>4, <1>7 DEF SameLog, Written
    <2> QED BY <1>1, <1>2, <2>1, <2>2, <2>3, GoodStep
  <1>8. CASE HasRoom(old) /\ AddRecord(old, Torn) /\ (Faults(1) \/ Faults(2))
    <2>1. log[z] \in ZoneState /\ log[z].len < ZoneCap /\ log[z].len # 0
      BY <1>3, <1>4, <1>8, RoomLeft DEF TypeInv, ZoneShape, Recoverable
    <2>2. log[z].status = "ended"
      <3>1. faults' > 0 /\ Running' /\ z \in {meta', old'} /\ AddRecord(z, Torn)
        BY <1>1, <1>4, <1>8 DEF Faults, Running, TypeInv, TypeOK
      <3>2. log[z].status # "ok"
        BY <2>1, <3>1, NotWhole
      <3> QED BY <1>3, <3>2 DEF Recoverable
    <2> DEFINE u == Read(log[z], Torn)
    <2>3. /\ u \in ZoneState /\ u.seq = log[z].seq /\ u.status = "ended"
          /\ u.files = log[z].files /\ u.links = log[z].links /\ u.ver = log[z].ver
          /\ u.ids = log[z].ids
      BY <2>1, <2>2, ReadTorn
    <2>4. log'[z] = u /\ \A y \in MetaZone \ {z} : log'[y] = log[y]
      BY <1>4, <1>8, <2>3, ZoneAppended DEF TypeInv
    <2> HIDE DEF u
    <2>5. Recoverable(z)'
      BY <1>3, <2>3, <2>4, RecoverableKept
    <2>6. Holds(z)'
      BY <1>1, <1>3, <1>4, <1>5, <2>3, <2>4 DEF Holds, Written, mem
    <2>7. SameLog
      BY <1>1, <1>4, <2>3, <2>4 DEF SameLog, Written
    <2> QED BY <1>1, <1>2, <2>5, <2>6, <2>7, GoodStep
  <1> QED BY <1>6, <1>7, <1>8 DEF WriteEndRecord, FailedAppend, disk

\* The superblock of the new zone.
LEMMA GoodSuperblock ==
    ASSUME TypeInv, Good, RollWriteSuperblock
    PROVE  Good' /\ SameLog
  <1>1. /\ pc = "super" /\ old \in MetaZone \ {meta} /\ meta \in MetaZone /\ Running
        /\ seq' = seq + 1 /\ pc' \in {"snapshot", "err"}
        /\ UNCHANGED <<state, mem, meta, old, op>> /\ log[meta] = Blank
    BY DEF RollWriteSuperblock, TypeInv, Control, Running, Rolling, RollShape
  <1>2. ~Creates
    BY <1>1 DEF Good, OpDone, Rolling
  <1>3. PICK z \in MetaZone : Recoverable(z) /\ Holds(z)
    BY <1>1 DEF Good, Durable
  <1>4. z = old /\ Cur = z /\ Cur' = z /\ old # None
    BY <1>1, <1>3, NoneIsNothing DEF Holds, Cur
  <1>5. After' = After /\ Before' = Before
    BY <1>1 DEF After, Before, Creates, Deletes, mem
  <1>6. log[z].seq < seq' /\ log[z].seq <= seq' /\ seq + 1 \in Seqs
    <2>1. log[z].seq \in Nat /\ seq \in Nat /\ log[z].seq <= seq
      BY <1>3, ZoneFields DEF Holds, TypeInv, TypeOK, SeqBound
    <2>2. seq + 1 \in Seqs
      BY <1>1, Consts DEF TypeInv, SeqBound, Seqs
    <2> QED BY <1>1, <2>1, <2>2
  <1>7. log'[z] = log[z] /\ \A y \in MetaZone \ {z} : log'[y] = log[y] \/ log'[y].status = "none"
    <2>1. CASE AddRecord(meta, Super(seq + 1))
      <3>1. /\ log'[meta] = Read(Blank, Super(seq + 1))
            /\ \A y \in MetaZone \ {meta} : log'[y] = log[y]
        BY <1>1, <1>6, <2>1, FreshZone, ZoneAppended DEF TypeInv
      <3>2. log'[meta].status = "none"
        BY <1>6, <3>1, FreshZone
      <3> QED BY <1>1, <1>4, <3>1, <3>2
    <2>2. CASE FailedAppend(meta)
      <3>1. log[meta].len < ZoneCap /\ log[meta].len = 0 /\ log[meta].status = "none"
        BY <1>1, FreshZone, Consts
      <3>2. log[meta] \in ZoneState
        BY <1>1 DEF TypeInv, TypeOK
      <3>3. Read(log[meta], Torn).status = "none"
        BY <3>1, <3>2, ReadTorn
      <3>4. /\ \A y \in MetaZone \ {meta} : log'[y] = log[y]
            /\ log'[meta] = log[meta] \/ log'[meta] = Read(log[meta], Torn)
        BY <1>1, <2>2, <3>1, TornAppended DEF TypeInv
      <3> QED BY <1>1, <1>4, <3>3, <3>4
    <2> QED BY <2>1, <2>2 DEF RollWriteSuperblock
  <1>8. Recoverable(z)'
    BY <1>3, <1>7, RecoverableKept DEF Recoverable
  <1>9. Holds(z)'
    BY <1>1, <1>3, <1>4, <1>5, <1>6, <1>7 DEF Holds, Written, mem
  <1>10. SameLog
    BY <1>1, <1>4, <1>7 DEF SameLog, Written
  <1> QED BY <1>1, <1>2, <1>8, <1>9, <1>10, GoodStep

\* The snapshot: the log moves to the new zone.
LEMMA GoodSnapshot ==
    ASSUME TypeInv, Good, Whole, WriteSnapshotLocked
    PROVE  Good' /\ (SameLog \/ Snapshotted)
  <1>1. /\ pc = "snapshot" /\ old \in MetaZone \ {meta} /\ meta \in MetaZone /\ Running
        /\ pc' \in {"reset", "err"}
        /\ UNCHANGED <<state, mem, meta, old, seq, op>> /\ log[meta] = Read(Blank, Super(seq))
    BY DEF WriteSnapshotLocked, TypeInv, Control, Running, Rolling, RollShape
  <1>2. ~Creates /\ After = files
    BY <1>1 DEF Good, OpDone, Rolling, After
  <1>3. PICK z \in MetaZone : Recoverable(z) /\ Holds(z)
    BY <1>1 DEF Good, Durable
  <1>4. z = old /\ Cur = z /\ old # None
    BY <1>1, <1>3, NoneIsNothing DEF Holds, Cur
  <1>5. After' = files' /\ Before' = Before /\ files' = files /\ links' = links /\ ver' = ver
    BY <1>1, <1>2 DEF After, Before, Creates, Deletes, mem
  <1>6. CASE AddRecord(meta, Snapshot(files, links, ver)) /\ pc' = "reset"
    <2>1. PICK y \in MetaZone : y = meta
      BY <1>1
    <2>2. /\ log[y] \in ZoneState /\ log[y].len < ZoneCap /\ log[y].len # 0
          /\ log[y].status \in {"none", "ok"} /\ log[y].seq = seq
      BY <1>1, <2>1, FreshZone, Consts DEF TypeInv, SeqBound, Seqs
    <2> DEFINE u == Read(log[y], Snapshot(files, links, ver))
    <2>3. /\ u \in ZoneState /\ u.seq = seq /\ u.status = "ok" /\ u.files = files
          /\ u.links = links /\ u.ver = ver
          /\ \A n \in Name : files[n] # None => files[n] \in u.ids
      BY <2>2, ReadSnapshot DEF TypeInv, TypeOK
    <2>4. log'[y] = u /\ \A x \in MetaZone \ {y} : log'[x] = log[x]
      BY <1>6, <2>1, <2>3, ZoneAppended DEF TypeInv
    <2> HIDE DEF u
    <2>5. Agrees(files, links)
      BY <1>1, <1>2 DEF Good, Memory
    <2>6. log[z].seq \in Nat /\ seq \in Nat /\ log[z].seq < seq /\ log[z].seq > 0
      BY <1>1, <1>3, ZoneFields DEF Holds, Recoverable, Newest, TypeInv, TypeOK, SeqBound
    <2>7. ASSUME NEW x \in MetaZone \ {y}, log'[x].status \notin {"none", "empty"}
          PROVE  log'[x].seq > 0 /\ log'[x].seq < log'[y].seq
      <3>1. log'[x] = log[x] /\ log'[y].seq = seq
        BY <2>3, <2>4
      <3>2. log[x].seq \in Nat
        BY ZoneFields DEF TypeInv, TypeOK
      <3>3. CASE x = z
        BY <2>6, <3>1, <3>3
      <3>4. CASE x # z
        <4>1. log[x].seq > 0 /\ log[x].seq < log[z].seq
          BY <1>3, <2>7, <3>1, <3>4 DEF Recoverable, Newest
        <4> QED BY <2>6, <3>1, <3>2, <4>1
      <3> QED BY <3>3, <3>4
    <2>8. log'[y].status = "ok" /\ log'[y].seq > 0
      BY <2>3, <2>4, <2>6
    <2>9. Newest(y)'
      BY <2>7, <2>8 DEF Newest
    <2>10. Agrees(log'[y].files, log'[y].links)
      BY <2>3, <2>4, <2>5
    <2>11. \A n \in Name : log'[y].files[n] # None => log'[y].files[n] \in log'[y].ids
      BY <2>3, <2>4
    <2>12. Recoverable(y)'
      BY <2>8, <2>9, <2>10, <2>11 DEF Recoverable
    <2>13. Cur' = y
      BY <1>1, <1>6, <2>1 DEF Cur
    <2>14. Holds(y)'
      BY <1>1, <1>5, <1>6, <2>3, <2>4, <2>6, <2>13 DEF Holds, Written, mem
    <2>15. Snapshotted
      BY <1>2, <1>6, <2>3, <2>4, <2>13 DEF Snapshotted, Written
    <2> QED BY <1>1, <1>2, <2>12, <2>14, <2>15, GoodStep
  <1>7. CASE UNCHANGED log /\ pc' = "err"
    <2>1. Recoverable(z)'
      BY <1>3, <1>7, RecoverableKept DEF Recoverable
    <2>2. Cur' = z
      BY <1>1, <1>4, <1>7 DEF Cur
    <2>3. Holds(z)'
      BY <1>1, <1>3, <1>4, <1>5, <1>7, <2>2 DEF Holds, Written, mem
    <2>4. SameLog
      BY <1>1, <1>4, <1>7, <2>2 DEF SameLog, Written
    <2> QED BY <1>1, <1>2, <2>1, <2>3, <2>4, GoodStep
  <1>8. ~(AddRecord(meta, Torn) /\ Faults(1))
    <2> SUFFICES ASSUME AddRecord(meta, Torn), Faults(1) PROVE FALSE
      OBVIOUS
    <2>1. PICK y \in MetaZone : y = meta
      BY <1>1
    <2>2. log[y].len < ZoneCap /\ log[y].len # 0 /\ log[y].status = "none"
      BY <1>1, <2>1, FreshZone, Consts DEF TypeInv, SeqBound, Seqs
    <2>3. faults' > 0 /\ Running' /\ y \in {meta', old'} /\ AddRecord(y, Torn)
      BY <1>1, <2>1 DEF Faults, Running, TypeInv, TypeOK
    <2> QED BY <2>2, <2>3, NotWhole
  <1> QED BY <1>6, <1>7, <1>8 DEF WriteSnapshotLocked, FailedAppend

\* The reset of the old zone.
LEMMA GoodResetOld ==
    ASSUME TypeInv, Good, RollResetOldZone
    PROVE  Good' /\ SameLog
  <1>1. /\ pc = "reset" /\ old \in MetaZone \ {meta} /\ Running /\ pc' = "ok" /\ old' = None
        /\ UNCHANGED <<state, mem, meta, seq, op>>
    BY DEF RollResetOldZone, TypeInv, Control, Running, Rolling
  <1>2. ~Creates
    BY <1>1 DEF Good, OpDone, Rolling
  <1>3. PICK z \in MetaZone : Recoverable(z) /\ Holds(z)
    BY <1>1 DEF Good, Durable
  <1>4. z = meta /\ Cur = z /\ Cur' = z
    BY <1>1, <1>3 DEF Holds, Cur
  <1>5. After' = After
    BY <1>1 DEF After, Creates, mem
  <1>6. log'[z] = log[z] /\ \A y \in MetaZone \ {z} : log'[y] = log[y] \/ log'[y].status = "none"
    <2>1. CASE ResetMetaZone(old)
      <3>1. log'[old] = Blank /\ \A y \in MetaZone \ {old} : log'[y] = log[y]
        BY <1>1, <2>1, ZoneReset DEF TypeInv
      <3>2. log'[old].status = "none"
        BY <3>1, FreshZone
      <3> QED BY <1>1, <1>4, <3>1, <3>2
    <2>2. CASE UNCHANGED disk
      BY <2>2 DEF disk
    <2> QED BY <2>1, <2>2 DEF RollResetOldZone
  <1>7. Recoverable(z)'
    BY <1>3, <1>6, RecoverableKept DEF Recoverable
  <1>8. Holds(z)'
    BY <1>1, <1>3, <1>4, <1>5, <1>6 DEF Holds, Written, mem
  <1>9. SameLog
    BY <1>1, <1>4, <1>6 DEF SameLog, Written
  <1> QED BY <1>1, <1>2, <1>7, <1>8, <1>9, GoodStep

-----------------------------------------------------------------------------
(* Mounts and crashes.                                                      *)

\* The next file id is above all ids in the zone that was recovered.
LEMMA FreshIds ==
    ASSUME TypeInv, NEW z \in MetaZone, Recoverable(z),
           NEW x, x = CHOOSE i \in 1..(MaxId + 1) :
                          (\A j \in RecoveredIds : j < i) /\ (i = 1 \/ i - 1 \in RecoveredIds)
    PROVE  \A n \in Name : log[z].files[n] # None => log[z].files[n] < x
  <1>1. log \in [MetaZone -> ZoneState]
    BY DEF TypeInv, TypeOK
  <1>2. Latest = z /\ z \in Valid
    BY <1>1, NewestIsLatest DEF Recoverable, Newest, Valid
  <1>3. RecoveredIds \in SUBSET FileId
    <2>1. \A y \in Valid : log[y].ids \in SUBSET FileId
      BY <1>1, ZoneFields DEF Valid, IdSets
    <2> QED BY <2>1 DEF RecoveredIds
  <1>4. log[z].ids \subseteq RecoveredIds
    BY <1>2 DEF RecoveredIds
  <1>5. \A j \in RecoveredIds : j < x
    BY <1>3, NextId
  <1> QED BY <1>4, <1>5 DEF Recoverable

\* Mount finds the zone of the log.
LEMMA GoodMount ==
    ASSUME TypeInv, Good, Mount
    PROVE  Good' /\ state' = "mounting"
  <1>1. PICK z \in MetaZone : Recoverable(z)
    BY DEF Good, Durable
  <1>2. Latest = z /\ Mountable
    <2>1. log \in [MetaZone -> ZoneState] /\ Newest(z)
      BY <1>1 DEF TypeInv, TypeOK, Recoverable
    <2>2. Latest = z /\ Foreign = {} /\ Decisive # {}
      BY <2>1, NewestIsLatest
    <2> QED BY <1>1, <2>2 DEF Recoverable, Mountable
  <1>3. /\ state = "down" /\ state' = "mounting" /\ pc' = "alloc" /\ meta' = z
        /\ files' = log[z].files /\ links' = log[z].links /\ ver' = log[z].ver
        /\ seq' = log[z].seq /\ UNCHANGED <<disk, old, op>>
        /\ next_id' = CHOOSE i \in 1..(MaxId + 1) :
               (\A j \in RecoveredIds : j < i) /\ (i = 1 \/ i - 1 \in RecoveredIds)
    BY <1>2 DEF Mount
  <1>4. old = None /\ op.kind = "none" /\ op.stage # "dest"
    BY <1>3 DEF TypeInv, Control, Running, OpShape
  <1>5. op'.kind = "none" /\ op'.stage # "dest" /\ old' = None /\ log' = log
    BY <1>3, <1>4 DEF disk
  <1>6. OpDone' /\ After' = files' /\ Before' = files'
    <2>1. ~Creates' /\ ~Deletes'
      BY <1>5 DEF Creates, Deletes
    <2> QED BY <1>5, <2>1 DEF OpDone, After, Before
  <1>7. \A n \in Name : files'[n] # None => files'[n] < next_id'
    BY <1>1, <1>3, FreshIds
  <1>8. Agrees(files', links')
    BY <1>1, <1>3 DEF Recoverable
  <1>9. Memory'
    BY <1>6, <1>7, <1>8 DEF Memory
  <1>10. Recoverable(z)'
    BY <1>1, <1>5, RecoverableKept DEF Recoverable
  <1>11. log'[z].seq <= seq'
    <2>1. log[z].seq \in Nat
      BY ZoneFields DEF TypeInv, TypeOK
    <2> QED BY <1>3, <1>5, <2>1
  <1>12. Cur' = z
    BY <1>3, <1>5 DEF Cur
  <1>13. Holds(z)'
    BY <1>3, <1>5, <1>6, <1>11, <1>12 DEF Holds, Written
  <1>14. Durable'
    BY <1>10, <1>13 DEF Durable
  <1> QED BY <1>3, <1>6, <1>9, <1>14 DEF Good

\* The file system is up.
LEMMA GoodMounted ==
    ASSUME TypeInv, Good, MountReturns
    PROVE  Good'
  <1>1. /\ state = "mounting" /\ pc = "ok" /\ state' = "up" /\ Running /\ old = None
        /\ UNCHANGED <<disk, mem, meta, old, seq>> /\ op' = NoOp /\ pc' = "idle"
        /\ op.kind = "none" /\ op.stage # "dest"
    BY DEF MountReturns, Return, Running, TypeInv, Control, OpShape
  <1>2. PICK z \in MetaZone : Recoverable(z) /\ Holds(z)
    BY <1>1 DEF Good, Durable
  <1>3. op'.kind = "none" /\ op'.stage = "main" /\ log' = log
    BY <1>1 DEF NoOp, disk
  <1>4. After = files
    BY <1>1 DEF After, Creates
  <1>5. ~Creates' /\ ~Deletes' /\ After' = files' /\ files' = files /\ links' = links
        /\ next_id' = next_id
    BY <1>1, <1>3 DEF Creates, Deletes, After, mem
  <1>6. OpDone'
    BY <1>1, <1>3, <1>5 DEF OpDone, Rolling
  <1>7. Memory'
    BY <1>1, <1>4, <1>5 DEF Good, Memory
  <1>8. Recoverable(z)'
    BY <1>2, <1>3, RecoverableKept DEF Recoverable
  <1>9. Cur' = z
    BY <1>1, <1>2 DEF Holds, Cur
  <1>10. Holds(z)'
    BY <1>1, <1>2, <1>3, <1>4, <1>5, <1>9 DEF Holds, Written
  <1>11. Durable'
    BY <1>8, <1>10 DEF Durable
  <1> QED BY <1>1, <1>6, <1>7, <1>11 DEF Good

\* The process is gone, and the log is as it was.
LEMMA GoodForget ==
    ASSUME Good, Forget, state' = "down", NEW z \in MetaZone, Recoverable(z)'
    PROVE  Good'
  <1>1. op'.kind = "none" /\ op'.stage = "main" /\ ~Running' /\ pc' = "idle"
    BY DEF Forget, Return, NoOp, Running
  <1>2. OpDone'
    BY <1>1 DEF OpDone, Creates, Deletes, Rolling
  <1>3. Memory' /\ Durable'
    BY <1>1 DEF Memory, Durable
  <1> QED BY <1>2, <1>3 DEF Good

\* A crash in the middle of a record leaves a torn record in the log, or a
\* zone without a superblock.
LEMMA LogCrash ==
    ASSUME TypeInv, ZoneShape, Good, CrashInWrite
    PROVE  \/ Dead'
           \/ Good' /\ \E z \in MetaZone : /\ z = Cur /\ log'[z].files = log[z].files
                                            /\ log'[z].ver = log[z].ver /\ Recoverable(z)'
  <1>1. Running /\ Forget /\ state' = "down" /\ meta \in MetaZone
    BY DEF CrashInWrite, TypeInv, Control, Running
  <1>2. PICK z \in MetaZone : Recoverable(z) /\ Holds(z)
    BY <1>1 DEF Good, Durable
  <1>3. ASSUME HasRoom(z), AddRecord(z, Torn), log[z].status = "ok"
        PROVE  Dead'
    <2>1. log[z] \in ZoneState /\ log[z].len < ZoneCap /\ log[z].len # 0
      BY <1>3, RoomLeft DEF TypeInv, ZoneShape
    <2>2. /\ Read(log[z], Torn) \in ZoneState /\ Read(log[z], Torn).status = "torn"
          /\ Read(log[z], Torn).seq = log[z].seq
      BY <1>3, <2>1, ReadTorn
    <2>3. log'[z] = Read(log[z], Torn) /\ \A y \in MetaZone \ {z} : log'[y] = log[y]
      BY <1>3, <2>2, ZoneAppended DEF TypeInv
    <2>4. log'[z].status = "torn" /\ log'[z].seq = log[z].seq
      BY <2>2, <2>3
    <2>5. Newest(z)'
      BY <1>2, <2>3, <2>4 DEF Recoverable, Newest
    <2> QED BY <1>1, <2>4, <2>5 DEF Dead
  <1>4. CASE pc = "persist" /\ HasRoom(meta) /\ AddRecord(meta, Torn)
    <2>1. state = "up" /\ old = None
      BY <1>4 DEF TypeInv, Control
    <2>2. z = meta /\ log[z].status = "ok"
      BY <1>2, <2>1 DEF Holds, Cur
    <2> QED BY <1>3, <1>4, <2>2
  <1>5. CASE pc = "end" /\ HasRoom(old) /\ AddRecord(old, Torn)
    <2>1. old \in MetaZone
      BY <1>5 DEF TypeInv, Control, Rolling
    <2>2. z = old /\ z = Cur
      BY <1>2, <1>5, <2>1, NoneIsNothing DEF Holds, Cur
    <2>3. CASE log[z].status = "ok"
      BY <1>3, <1>5, <2>2, <2>3
    <2>4. CASE log[z].status = "ended"
      <3>1. log[z] \in ZoneState /\ log[z].len < ZoneCap
        BY <1>5, <2>2, RoomLeft DEF TypeInv
      <3> DEFINE u == Read(log[z], Torn)
      <3>2. /\ u \in ZoneState /\ u.seq = log[z].seq /\ u.status = "ended"
            /\ u.files = log[z].files /\ u.links = log[z].links /\ u.ver = log[z].ver
            /\ u.ids = log[z].ids
        BY <2>4, <3>1, ReadTorn
      <3>3. log'[z] = u /\ \A y \in MetaZone \ {z} : log'[y] = log[y]
        BY <1>5, <2>2, <3>2, ZoneAppended DEF TypeInv
      <3> HIDE DEF u
      <3>4. Recoverable(z)'
        BY <1>2, <3>2, <3>3, RecoverableKept
      <3>5. log'[z].files = log[z].files /\ log'[z].ver = log[z].ver
        BY <3>2, <3>3
      <3> QED BY <1>1, <2>2, <3>4, <3>5, GoodForget
    <2> QED BY <1>2, <2>3, <2>4 DEF Recoverable
  <1>6. CASE pc = "super" /\ HasRoom(meta) /\ AddRecord(meta, Torn)
    <2>1. old \in MetaZone \ {meta} /\ log[meta] = Blank
      BY <1>6 DEF TypeInv, Control, Rolling, RollShape
    <2>2. z = old /\ z = Cur
      BY <1>2, <1>6, <2>1, NoneIsNothing DEF Holds, Cur
    <2>3. log[meta] \in ZoneState /\ log[meta].len < ZoneCap
      BY <1>1, <1>6, RoomLeft DEF TypeInv
    <2>4. log[meta].len = 0 /\ log[meta].status = "none"
      BY <2>1, FreshZone
    <2>5. Read(log[meta], Torn) \in ZoneState /\ Read(log[meta], Torn).status = "none"
      BY <2>3, <2>4, ReadTorn
    <2>6. /\ log'[meta] = Read(log[meta], Torn)
          /\ \A y \in MetaZone \ {meta} : log'[y] = log[y]
      BY <1>1, <1>6, <2>5, ZoneAppended DEF TypeInv
    <2>7. log'[z] = log[z] /\ \A y \in MetaZone \ {z} : log'[y] = log[y] \/ log'[y].status = "none"
      BY <2>1, <2>2, <2>5, <2>6
    <2>8. Recoverable(z)'
      BY <1>2, <2>7, RecoverableKept DEF Recoverable
    <2> QED BY <1>1, <2>2, <2>7, <2>8, GoodForget
  <1>7. CASE pc = "snapshot" /\ HasRoom(meta) /\ AddRecord(meta, Torn)
    <2>1. old \in MetaZone \ {meta} /\ log[meta] = Read(Blank, Super(seq)) /\ seq \in Seqs
      BY <1>7 DEF TypeInv, Control, Rolling, RollShape, SeqBound, Seqs
    <2>2. z = old
      BY <1>2, <1>7, <2>1, NoneIsNothing DEF Holds, Cur
    <2>3. PICK m \in MetaZone : m = meta
      BY <1>1
    <2>4. log[m] \in ZoneState /\ log[m].len < ZoneCap
      BY <1>7, <2>3, RoomLeft DEF TypeInv
    <2>5. log[m].len = 1 /\ log[m].status = "none" /\ log[m].seq = seq
      BY <2>1, <2>3, FreshZone
    <2>6. /\ Read(log[m], Torn) \in ZoneState /\ Read(log[m], Torn).status = "torn"
          /\ Read(log[m], Torn).seq = seq
      BY <2>4, <2>5, ReadTorn
    <2>7. log'[m] = Read(log[m], Torn) /\ \A y \in MetaZone \ {m} : log'[y] = log[y]
      BY <1>7, <2>3, <2>6, ZoneAppended DEF TypeInv
    <2>8. log'[m].status = "torn" /\ log'[m].seq = seq
      BY <2>6, <2>7
    <2>9. log[z].seq \in Nat /\ seq \in Nat /\ log[z].seq < seq /\ log[z].seq > 0
      BY <1>2, <1>7, ZoneFields DEF Holds, Recoverable, Newest, TypeInv, TypeOK, SeqBound
    <2>10. ASSUME NEW y \in MetaZone \ {m}, log'[y].status \notin {"none", "empty"}
           PROVE  log'[y].seq > 0 /\ log'[y].seq < log'[m].seq
      <3>1. log'[y] = log[y] /\ log[y].seq \in Nat
        BY <2>7, ZoneFields DEF TypeInv, TypeOK
      <3>2. CASE y = z
        BY <2>8, <2>9, <3>1, <3>2
      <3>3. CASE y # z
        <4>1. log[y].seq > 0 /\ log[y].seq < log[z].seq
          BY <1>2, <2>10, <3>1, <3>3 DEF Recoverable, Newest
        <4> QED BY <2>8, <2>9, <3>1, <4>1
      <3> QED BY <3>2, <3>3
    <2>11. log'[m].seq > 0
      BY <2>8, <2>9
    <2>12. Newest(m)'
      BY <2>8, <2>10, <2>11 DEF Newest
    <2> QED BY <1>1, <2>8, <2>12 DEF Dead
  <1> QED BY <1>4, <1>5, <1>6, <1>7 DEF CrashInWrite

\* A mount after a torn record gives up, and nothing else happens.
LEMMA DeadNext ==
    ASSUME TypeInv, Dead, [Next]_vars
    PROVE  Dead'
  <1>1. PICK z \in MetaZone : Newest(z) /\ log[z].status = "torn"
    BY DEF Dead
  <1>2. ~Mountable
    <2>1. Latest = z
      BY <1>1, NewestIsLatest DEF TypeInv, TypeOK
    <2> QED BY <1>1, <2>1 DEF Mountable
  <1>3. pc = "idle" /\ state \notin {"up", "mounting"}
    BY DEF Dead, TypeInv, Control, Running
  <1>4. ~Operation
    BY <1>3 DEF Operation, DeleteFile, OpenWritableFile, SyncFileMetadata, RenameFile,
                LinkFile, AfterDestination, OperationReturns, OperationFails, Ready
  <1>5. ~Device
    BY <1>3 DEF Device, PersistRecord, AllocateMetaZone, WriteEndRecord, RollWriteSuperblock,
                WriteSnapshotLocked, RollResetOldZone
  <1>6. ~(MountReturns \/ MountFails \/ Crash \/ CrashInWrite)
    BY <1>3 DEF MountReturns, MountFails, Crash, CrashInWrite
  <1>7. log' = log /\ state' \in {state, "failed"}
    BY <1>2, <1>4, <1>5, <1>6 DEF Next, Mount, vars, disk
  <1>8. Newest(z)' /\ log'[z].status = "torn"
    BY <1>1, <1>7 DEF Newest
  <1> QED BY <1>7, <1>8 DEF Dead

\* MkFS leaves a log that can be mounted.
LEMMA LogInit == Init => LogInv
  <1> SUFFICES ASSUME Init PROVE LogInv
    OBVIOUS
  <1> DEFINE one == 1
  <1>1. /\ one \in MetaZone /\ \A z \in MetaZone \ {one} : log[z] = Blank
        /\ log[one].status = "ok" /\ log[one].seq = 1 /\ log[one].len # 0
        /\ log[one].files = InitSnapshot.files /\ log[one].links = InitSnapshot.links
        /\ \A n \in Name : log[one].files[n] # None => log[one].files[n] \in log[one].ids
    BY InitialLog
  <1> HIDE DEF one
  <1>2. Agrees(log[one].files, log[one].links)
    BY <1>1, InitialFiles
  <1>3. \A z \in MetaZone \ {one} : log[z].status = "none"
    BY <1>1, FreshZone
  <1>4. Newest(one)
    BY <1>1, <1>3 DEF Newest
  <1>5. Recoverable(one)
    BY <1>1, <1>2, <1>4 DEF Recoverable
  <1>6. ZoneShape
    BY <1>1, <1>3 DEF ZoneShape
  <1>7. state = "down" /\ pc = "idle" /\ op.kind = "none" /\ op.stage = "main"
    BY DEF Init, NoOp
  <1>8. OpDone
    BY <1>7 DEF OpDone, Creates, Deletes, Rolling
  <1>9. Memory /\ Durable
    BY <1>1, <1>5, <1>7 DEF Memory, Durable, Running
  <1> QED BY <1>6, <1>7, <1>8, <1>9 DEF LogInv, Good

\* Every step.
LEMMA LogNext ==
    TypeInv /\ LogInv /\ NoLostRecord /\ NoLostRecord' /\ Whole /\ [Next]_vars => LogInv'
  <1> SUFFICES ASSUME TypeInv, LogInv, NoLostRecord, NoLostRecord', Whole, [Next]_vars
               PROVE  LogInv'
    OBVIOUS
  <1>1. ZoneShape'
    BY ShapeNext DEF LogInv
  <1>2. CASE Dead
    BY <1>1, <1>2, DeadNext DEF LogInv
  <1>3. CASE Good
    <2> SUFFICES Good' \/ Dead'
      BY <1>1 DEF LogInv
    <2>1. CASE Operation
      BY <1>3, <2>1, GoodBegin, GoodAfterDestination, GoodReturns, GoodFails DEF Operation
    <2>2. CASE Device
      BY <1>3, <2>2, GoodPersist, GoodAllocate, GoodWriteEnd, GoodSuperblock, GoodSnapshot,
         GoodResetOld DEF Device, LogInv
    <2>3. CASE Mount \/ MountReturns
      BY <1>3, <2>3, GoodMount, GoodMounted
    <2>4. CASE MountFails \/ Crash
      <3>1. PICK z \in MetaZone : Recoverable(z)
        BY <1>3 DEF Good, Durable
      <3>2. Forget /\ state' = "down" /\ log' = log
        BY <2>4 DEF MountFails, Crash, disk
      <3>3. Recoverable(z)'
        BY <3>1, <3>2, RecoverableKept DEF Recoverable
      <3> QED BY <1>3, <3>2, <3>3, GoodForget
    <2>5. CASE CrashInWrite
      BY <1>3, <2>5, LogCrash DEF LogInv
    <2>6. CASE UNCHANGED vars
      <3>1. PICK z \in MetaZone : Recoverable(z) /\ (Running => Holds(z))
        BY <1>3 DEF Good, Durable
      <3>2. /\ Creates' = Creates /\ Deletes' = Deletes /\ After' = After /\ Before' = Before
            /\ Cur' = Cur /\ Written' = Written /\ Running' = Running
        BY <2>6 DEF vars, Creates, Deletes, After, Before, Cur, Written, Running
      <3>3. Recoverable(z)'
        BY <2>6, <3>1, RecoverableKept DEF vars, Recoverable
      <3>4. Running' => Holds(z)'
        BY <2>6, <3>1, <3>2 DEF vars, Holds
      <3>5. OpDone' /\ Memory'
        BY <1>3, <2>6, <3>2 DEF vars, Good, OpDone, Memory
      <3>6. Durable'
        BY <3>3, <3>4 DEF Durable
      <3> QED BY <1>3, <2>6, <3>5, <3>6 DEF Good, vars
    <2> QED BY <2>1, <2>2, <2>3, <2>4, <2>5, <2>6 DEF Next
  <1> QED BY <1>2, <1>3 DEF LogInv

-----------------------------------------------------------------------------

\* When no record is lost in a roll, files_ and the linkfiles_ of the files
\* name the same names between operations: every operation keeps them in step,
\* and so does the undo of one that failed and the replay of a mount.  Device
\* errors may happen anywhere, as long as none leaves a part of a record behind.
THEOREM LinksFollowFiles == Spec /\ []NoLostRecord /\ []LogReadable => []LinksAgree
  <1>1. TypeInv /\ LogInv => LinksAgree
    <2> SUFFICES ASSUME TypeInv, LogInv, state = "up", pc = "idle"
                 PROVE  \A n \in Name, i \in FileId : files[n] = i <=> n \in ToSet(links[i])
      BY DEF LinksAgree
    <2>1. Good /\ Running /\ op.kind = "none"
      BY DEF LogInv, Dead, Running, TypeInv, Control
    <2>2. Agrees(files, links)
      BY <2>1, GoodFacts
    <2> QED BY <2>2 DEF Agrees
  <1>2. LogReadable' => Whole
    BY DEF Whole
  <1> QED BY TypeInit, TypeNext, LogInit, LogNext, <1>1, <1>2, PTL DEF Spec

-----------------------------------------------------------------------------
(* What clients were told.                                                  *)

\* An operation or a mount fails only after a device command has failed.
Counted == pc = "err" => faults > 0

\* Device errors are counted and never forgotten.
LEMMA FaultsCounted ==
    TypeInv /\ Counted /\ [Next]_vars => Counted' /\ (faults' = 0 => faults = 0)
  <1> SUFFICES ASSUME TypeInv, Counted, [Next]_vars
               PROVE  Counted' /\ (faults' = 0 => faults = 0)
    OBVIOUS
  <1>1. faults \in Nat
    BY Consts DEF TypeInv, TypeOK
  <1>2. CASE AllocateMetaZone
    <2>1. PICK passed \in SUBSET (MetaZone \ {meta}) :
            /\ Faults(Cardinality(passed))
            /\ pc' = "err" => MetaZone \ (passed \union {meta}) = {}
      BY <1>2 DEF AllocateMetaZone
    <2>2. IsFiniteSet(passed)
      <3>1. IsFiniteSet(MetaZone)
        BY Consts, FS_Interval DEF MetaZone
      <3> QED BY <2>1, <3>1, FS_Subset
    <2>3. Cardinality(passed) \in Nat
      BY <2>2, FS_CardinalityType
    <2>4. passed = {} => pc' # "err"
      <3>1. MetaZone \ {meta} # {}
        <4>1. 1 \in MetaZone /\ 2 \in MetaZone
          BY Consts DEF MetaZone
        <4> QED BY <4>1
      <3> QED BY <2>1, <3>1
    <2>5. Cardinality(passed) = 0 => passed = {}
      BY <2>2, FS_EmptySet
    <2>6. faults' = faults + Cardinality(passed)
      BY <2>1 DEF Faults
    <2> QED BY <1>1, <2>3, <2>4, <2>5, <2>6 DEF Counted
  <1>3. CASE PersistRecord \/ WriteEndRecord \/ RollWriteSuperblock \/ WriteSnapshotLocked
             \/ RollResetOldZone
    BY <1>1, <1>3 DEF PersistRecord, WriteEndRecord, RollWriteSuperblock, WriteSnapshotLocked,
                      RollResetOldZone, Faults, Counted
  <1>4. CASE \/ \E n \in Name : DeleteFile(n) \/ OpenWritableFile(n) \/ SyncFileMetadata(n)
             \/ \E a, b \in Name : RenameFile(a, b) \/ LinkFile(a, b)
    BY <1>4 DEF DeleteFile, OpenWritableFile, SyncFileMetadata, RenameFile, LinkFile,
                DeleteFileNoLock, CreateFile, RenameSource, Persist, Counted
  <1>5. CASE AfterDestination \/ OperationReturns \/ OperationFails
    BY <1>5 DEF AfterDestination, OperationReturns, OperationFails, CreateFile, RenameSource,
                Persist, Return, Counted
  <1>6. CASE Mount \/ MountReturns \/ MountFails \/ Crash \/ CrashInWrite
    BY <1>6 DEF Mount, MountReturns, MountFails, Crash, CrashInWrite, Forget, Return, Counted
  <1>7. CASE UNCHANGED vars
    BY <1>7 DEF vars, Counted
  <1> QED BY <1>2, <1>3, <1>4, <1>5, <1>6, <1>7 DEF Next, Operation, Device

\* The namespace b is a, or a after one operation.
OneStep(a, b) ==
    \/ b = a
    \/ \E n \in Name : a[n] # None /\ b = [a EXCEPT ![n] = None]
    \/ \E n \in Name, id \in FileId :
           /\ a[n] = None
           /\ \A m \in Name : a[m] # None => a[m].id # id
           /\ b = [a EXCEPT ![n] = [id |-> id, ver |-> 0]]
    \/ \E n, m \in Name :
           /\ a[n] # None /\ a[m] = None
           /\ b = [a EXCEPT ![n] = None, ![m] = a[n]] \/ b = [a EXCEPT ![m] = a[n]]
    \/ \E id \in FileId, v \in 1..MaxVer :
           /\ \A n \in Name : a[n] # None /\ a[n].id = id => a[n].ver < v
           /\ b = [n \in Name |-> IF a[n] # None /\ a[n].id = id
                                  THEN [id |-> id, ver |-> v] ELSE a[n]]

\* The content of the files before the running operation.
VerBefore == IF op.kind = "sync" THEN [ver EXCEPT ![op.id] = @ - 1] ELSE ver

ZoneView(z) == View(log[z].files, log[z].ver)

\* Clients were told what there was before the running operation; the log
\* replays to that or, once the record is written, to what the operation
\* leaves.  After a crash it replays to what clients were told or to what the
\* interrupted operation leaves.
Says ==
    /\ state = "up" =>
         /\ acked = View(Before, VerBefore)
         /\ ZoneView(Cur) = IF Written THEN View(After, ver) ELSE acked
         /\ Creates => ver[op.id] = 0
         /\ op.kind = "sync" => ver[op.id] # 0
    /\ state = "mounting" => OneStep(acked, ZoneView(Cur))
    /\ ~Running => \E z \in MetaZone : Recoverable(z) /\ OneStep(acked, ZoneView(z))

ToldInv == Says \/ Dead

\* A namespace as clients see it.
LEMMA ViewFacts ==
    ASSUME NEW f \in FileMaps, NEW v \in VerMaps
    PROVE  /\ View(f, v) \in [Name -> [id : FileId, ver : 0..MaxVer] \union {None}]
           /\ \A n \in Name :
                /\ f[n] = None <=> View(f, v)[n] = None
                /\ f[n] # None => /\ f[n] \in FileId /\ v[f[n]] \in 0..MaxVer
                                  /\ View(f, v)[n] = [id |-> f[n], ver |-> v[f[n]]]
                                  /\ View(f, v)[n].id = f[n] /\ View(f, v)[n].ver = v[f[n]]
  <1>1. None \notin [id : FileId, ver : 0..MaxVer]
    <2>1. [id : FileId, ver : 0..MaxVer] \subseteq [id : FileId, ver : Nat]
      BY Consts
    <2> QED BY <2>1, MetaAssumption
  <1>2. ASSUME NEW n \in Name
        PROVE  /\ View(f, v)[n] \in [id : FileId, ver : 0..MaxVer] \union {None}
               /\ f[n] = None <=> View(f, v)[n] = None
               /\ f[n] # None => /\ f[n] \in FileId /\ v[f[n]] \in 0..MaxVer
                                 /\ View(f, v)[n] = [id |-> f[n], ver |-> v[f[n]]]
                                 /\ View(f, v)[n].id = f[n] /\ View(f, v)[n].ver = v[f[n]]
    <2>1. CASE f[n] = None
      BY <2>1 DEF View
    <2>2. CASE f[n] # None
      <3>1. f[n] \in FileId /\ v[f[n]] \in 0..MaxVer
        BY <2>2 DEF FileMaps, VerMaps
      <3>2. View(f, v)[n] = [id |-> f[n], ver |-> v[f[n]]]
        BY <2>2 DEF View
      <3>3. View(f, v)[n] \in [id : FileId, ver : 0..MaxVer]
        BY <3>1, <3>2
      <3> QED BY <1>1, <2>2, <3>1, <3>2, <3>3
    <2> QED BY <2>1, <2>2
  <1>3. View(f, v) = [n \in Name |-> View(f, v)[n]]
    BY DEF View
  <1> QED BY <1>2, <1>3

\* Two views are equal when they bind the same names to the same versions.
LEMMA SameView ==
    ASSUME NEW f, NEW v, NEW w, \A n \in Name : f[n] # None => v[f[n]] = w[f[n]]
    PROVE  View(f, v) = View(f, w)
  BY DEF View

\* What the running operation leaves alone.
LEMMA OpViews ==
    ASSUME TypeInv, Good, Says, state = "up", op.kind # "none"
    PROVE  /\ op.to \in Name /\ op.id \in FileId
           /\ files \in FileMaps /\ ver \in VerMaps
           /\ Before \in FileMaps /\ After \in FileMaps /\ VerBefore \in VerMaps
           /\ op.kind # "sync" => VerBefore = ver
           /\ \A n \in Name :
                After[n] # None /\ (Deletes \/ After[n] # op.id) =>
                    Before[n] = After[n] /\ VerBefore[After[n]] = ver[After[n]]
  <1>1. /\ op.to \in Name /\ op.id \in FileId /\ (op.kind = "rename" => op.from \in Name)
        /\ files \in FileMaps /\ ver \in VerMaps
    BY DEF TypeInv, OpShape, TypeOK
  <1>2. Before \in FileMaps /\ After \in FileMaps
    <2>1. \A x \in FileId \union {None} : [files EXCEPT ![op.to] = x] \in FileMaps
      BY <1>1, Rebound
    <2>2. op.kind = "rename" => [files EXCEPT ![op.to] = None, ![op.from] = op.id] \in FileMaps
      BY <1>1 DEF FileMaps
    <2> QED BY <1>1, <2>1, <2>2 DEF Before, After
  <1>3. op.kind # "sync" => VerBefore = ver
    BY DEF VerBefore
  <1>4. VerBefore \in VerMaps /\ \A i \in FileId : i # op.id => VerBefore[i] = ver[i]
    <2>1. CASE op.kind = "sync"
      <3>1. VerBefore = [ver EXCEPT ![op.id] = ver[op.id] - 1]
        BY <2>1 DEF VerBefore
      <3>2. ver[op.id] # 0 /\ ver[op.id] \in 0..MaxVer
        BY <1>1, <2>1 DEF Says, VerMaps
      <3>3. ver[op.id] - 1 \in 0..MaxVer
        BY <3>2, Consts
      <3> QED BY <1>1, <3>1, <3>3 DEF VerMaps
    <2> QED BY <1>1, <1>3, <2>1
  <1>5. ASSUME NEW n \in Name, After[n] # None, Deletes \/ After[n] # op.id
        PROVE  Before[n] = After[n] /\ VerBefore[After[n]] = ver[After[n]]
    <2>1. After[n] \in FileId
      BY <1>2, <1>5 DEF FileMaps
    <2>2. CASE Deletes
      <3>1. /\ After = files /\ Before = [files EXCEPT ![op.to] = op.id] /\ files[op.to] = None
        BY <2>2 DEF After, Creates, Deletes, Before, Good, OpDone
      <3>2. op.kind # "sync"
        BY <2>2 DEF Deletes, TypeInv, OpShape
      <3> QED BY <1>1, <1>3, <1>5, <3>1, <3>2 DEF FileMaps
    <2>3. CASE ~Deletes
      <3>1. After[n] # op.id
        BY <1>5, <2>3
      <3>2. \/ Before[n] = After[n]
            \/ Before[n] \in {None, op.id} /\ After[n] \in {None, op.id}
        BY <2>3, OneFile
      <3> QED BY <1>4, <1>5, <2>1, <3>1, <3>2
    <2> QED BY <2>2, <2>3
  <1> QED BY <1>1, <1>2, <1>3, <1>4, <1>5

\* The running operation is one step of the namespace.
LEMMA ViewStep ==
    ASSUME TypeInv, Good, Says, state = "up", op.kind # "none"
    PROVE  OneStep(View(Before, VerBefore), View(After, ver))
  <1> DEFINE a == View(Before, VerBefore)
             b == View(After, ver)
  <1>1. /\ op.to \in Name /\ op.id \in FileId /\ files \in FileMaps /\ ver \in VerMaps
        /\ Before \in FileMaps /\ After \in FileMaps /\ VerBefore \in VerMaps
        /\ op.kind # "sync" => VerBefore = ver
    BY OpViews
  <1>2. /\ a \in [Name -> [id : FileId, ver : 0..MaxVer] \union {None}]
        /\ \A n \in Name :
             /\ Before[n] = None <=> a[n] = None
             /\ Before[n] # None => /\ Before[n] \in FileId
                                    /\ a[n] = [id |-> Before[n], ver |-> VerBefore[Before[n]]]
                                    /\ a[n].id = Before[n] /\ a[n].ver = VerBefore[Before[n]]
    BY <1>1, ViewFacts
  <1>3. /\ b \in [Name -> [id : FileId, ver : 0..MaxVer] \union {None}]
        /\ \A n \in Name :
             /\ After[n] = None <=> b[n] = None
             /\ After[n] # None => b[n] = [id |-> After[n], ver |-> ver[After[n]]]
    BY <1>1, ViewFacts
  <1>4. OpDone
    BY DEF Good
  <1>5. op.stage = "main" \/ Deletes
    BY DEF TypeInv, OpShape, OpSet, Deletes
  <1> HIDE DEF a, b
  <1>6. CASE Deletes
    <2>1. /\ After = files /\ Before = [files EXCEPT ![op.to] = op.id] /\ files[op.to] = None
          /\ op.kind # "sync"
      BY <1>4, <1>6 DEF After, Creates, Deletes, Before, OpDone, TypeInv, OpShape
    <2>2. a[op.to] # None /\ b[op.to] = None
      BY <1>1, <1>2, <1>3, <2>1, NoneIsNothing DEF FileMaps
    <2>3. \A n \in Name \ {op.to} : b[n] = a[n]
      BY <1>1, <1>2, <1>3, <2>1 DEF FileMaps
    <2>4. b = [a EXCEPT ![op.to] = None]
      BY <1>1, <1>2, <1>3, <2>2, <2>3
    <2> QED BY <1>1, <2>2, <2>4 DEF OneStep, a, b
  <1>7. CASE op.kind = "create" /\ ~Deletes
    <2>1. /\ Before = files /\ After = [files EXCEPT ![op.to] = op.id] /\ files[op.to] = None
          /\ ver[op.id] = 0 /\ VerBefore = ver /\ \A n \in Name : files[n] # op.id
      BY <1>1, <1>4, <1>5, <1>7 DEF After, Creates, Before, OpDone, Says
    <2>2. a[op.to] = None
      BY <1>1, <1>2, <2>1
    <2>3. b[op.to] = [id |-> op.id, ver |-> 0]
      BY <1>1, <1>3, <2>1, NoneIsNothing DEF FileMaps
    <2>4. \A n \in Name : a[n] # None => a[n].id # op.id
      BY <1>2, <2>1
    <2>5. \A n \in Name \ {op.to} : b[n] = a[n]
      BY <1>1, <1>2, <1>3, <2>1 DEF FileMaps
    <2>6. b = [a EXCEPT ![op.to] = [id |-> op.id, ver |-> 0]]
      BY <1>1, <1>2, <1>3, <2>3, <2>5
    <2> QED BY <1>1, <2>2, <2>4, <2>6 DEF OneStep, a, b
  <1>8. CASE op.kind = "rename" /\ ~Deletes
    <2>1. /\ After = files /\ Before = [files EXCEPT ![op.to] = None, ![op.from] = op.id]
          /\ files[op.to] = op.id /\ files[op.from] = None /\ op.from \in Name /\ VerBefore = ver
      BY <1>1, <1>4, <1>5, <1>8 DEF After, Creates, Before, OpDone, TypeInv, OpShape
    <2>2. op.from # op.to /\ op.id # None
      BY <1>1, <2>1, NoneIsNothing
    <2>3. Before[op.from] = op.id /\ Before[op.to] = None
      BY <1>1, <2>1, <2>2 DEF FileMaps
    <2>4. a[op.from] # None /\ a[op.to] = None /\ b[op.from] = None /\ b[op.to] = a[op.from]
      BY <1>1, <1>2, <1>3, <2>1, <2>2, <2>3
    <2>5. \A n \in Name \ {op.from, op.to} : b[n] = a[n]
      BY <1>1, <1>2, <1>3, <2>1 DEF FileMaps
    <2>6. b = [a EXCEPT ![op.from] = None, ![op.to] = a[op.from]]
      BY <1>1, <1>2, <1>3, <2>1, <2>2, <2>4, <2>5
    <2> QED BY <1>1, <2>1, <2>4, <2>6 DEF OneStep, a, b
  <1>9. CASE op.kind = "link" /\ ~Deletes
    <2>1. /\ After = files /\ Before = [files EXCEPT ![op.to] = None] /\ VerBefore = ver
          /\ files[op.to] = op.id /\ files[op.from] = op.id
          /\ op.from \in Name /\ op.from # op.to
      BY <1>1, <1>4, <1>5, <1>9 DEF After, Creates, Before, OpDone
    <2>2. op.id # None
      BY <1>1, NoneIsNothing
    <2>3. Before[op.from] = op.id /\ Before[op.to] = None
      BY <1>1, <2>1 DEF FileMaps
    <2>4. a[op.from] # None /\ a[op.to] = None /\ b[op.to] = a[op.from]
      BY <1>1, <1>2, <1>3, <2>1, <2>2, <2>3
    <2>5. \A n \in Name \ {op.to} : b[n] = a[n]
      BY <1>1, <1>2, <1>3, <2>1 DEF FileMaps
    <2>6. b = [a EXCEPT ![op.to] = a[op.from]]
      BY <1>1, <1>2, <1>3, <2>4, <2>5
    <2> QED BY <1>1, <2>1, <2>4, <2>6 DEF OneStep, a, b
  <1>10. CASE op.kind = "sync" /\ ~Deletes
    <2>1. After = files /\ Before = files /\ ver[op.id] # 0
      BY <1>5, <1>10 DEF After, Creates, Before, Says
    <2>2. ver[op.id] \in 1..MaxVer /\ VerBefore[op.id] < ver[op.id]
      <3>1. VerBefore[op.id] = ver[op.id] - 1
        BY <1>1, <1>10 DEF VerBefore, VerMaps
      <3>2. ver[op.id] \in 0..MaxVer
        BY <1>1 DEF VerMaps
      <3> QED BY <2>1, <3>1, <3>2, Consts
    <2>3. \A i \in FileId \ {op.id} : VerBefore[i] = ver[i]
      BY <1>1, <1>10 DEF VerBefore, VerMaps
    <2>4. \A n \in Name : a[n] # None /\ a[n].id = op.id => a[n].ver < ver[op.id]
      BY <1>2, <2>2
    <2>5. ASSUME NEW n \in Name
          PROVE  b[n] = IF a[n] # None /\ a[n].id = op.id
                        THEN [id |-> op.id, ver |-> ver[op.id]] ELSE a[n]
      <3>1. CASE files[n] = None
        BY <1>2, <1>3, <2>1, <3>1
      <3>2. CASE files[n] = op.id /\ op.id # None
        BY <1>2, <1>3, <2>1, <3>2
      <3>3. CASE files[n] # None /\ files[n] # op.id
        <4>1. VerBefore[files[n]] = ver[files[n]]
          BY <1>2, <2>1, <2>3, <3>3
        <4> QED BY <1>2, <1>3, <2>1, <3>3, <4>1
      <3> QED BY <3>1, <3>2, <3>3
    <2>6. b = [n \in Name |-> IF a[n] # None /\ a[n].id = op.id
                              THEN [id |-> op.id, ver |-> ver[op.id]] ELSE a[n]]
      BY <1>3, <2>5
    <2> QED BY <1>1, <2>2, <2>4, <2>6 DEF OneStep, a, b
  <1>11. op.kind \in {"create", "rename", "link", "sync"} \/ Deletes
    BY DEF TypeInv, OpShape, OpSet, OpKinds, Deletes
  <1> QED BY <1>6, <1>7, <1>8, <1>9, <1>10, <1>11

\* An operation starts: clients know what it found.
LEMMA SaysStarts ==
    ASSUME TypeInv, Good, state = "up", pc \in {"idle", "ok"},
           UNCHANGED <<disk, state, meta, old>>, pc' = "persist",
           acked' = View(Before', VerBefore'), ZoneView(Cur) = acked',
           Creates' => ver'[op'.id] = 0, op'.kind = "sync" => ver'[op'.id] # 0
    PROVE  Says'
  <1>1. log' = log /\ old = None
    BY DEF disk, TypeInv, Control
  <1>2. Cur' = Cur /\ ~Written'
    BY <1>1 DEF Cur, Written
  <1>3. ZoneView(Cur)' = ZoneView(Cur)
    BY <1>1, <1>2 DEF ZoneView
  <1> QED BY <1>2, <1>3 DEF Says, Running

\* An operation ends: clients know what it leaves.
LEMMA SaysEnds ==
    ASSUME TypeInv, Good, state = "up", old = None, UNCHANGED <<disk, state, meta, old>>, Return,
           acked' = View(files', ver'), ZoneView(Cur) = acked'
    PROVE  Says'
  <1>1. log' = log /\ pc' = "idle" /\ op'.kind = "none"
    BY DEF disk, Return, NoOp
  <1>2. Cur' = Cur /\ Written' /\ ~Creates'
    BY <1>1 DEF Cur, Written, Creates
  <1>3. ZoneView(Cur)' = ZoneView(Cur)
    BY <1>1, <1>2 DEF ZoneView
  <1>4. Before' = files' /\ After' = files' /\ VerBefore' = ver'
    BY <1>1, <1>2 DEF Before, After, VerBefore
  <1> QED BY <1>1, <1>2, <1>3, <1>4 DEF Says, Running

\* CreateFile, when clients know files_.
LEMMA SaysCreate ==
    ASSUME TypeInv, Good, state = "up", pc \in {"idle", "ok"}, After = files,
           UNCHANGED <<disk, state, meta, old, seq>>,
           NEW n \in Name, files[n] = None, next_id <= MaxId, CreateFile(n),
           acked' = View(files, ver), ZoneView(Cur) = View(files, ver)
    PROVE  Says'
  <1>1. /\ Before' = files /\ op'.kind = "create" /\ op'.id = next_id
        /\ \A m \in Name : files[m] # next_id
    BY GoodCreate
  <1>2. next_id \in FileId /\ ver' = [ver EXCEPT ![next_id] = 0] /\ pc' = "persist"
    BY CreateBlock DEF TypeInv
  <1>3. files \in FileMaps /\ ver \in VerMaps
    BY DEF TypeInv, TypeOK
  <1>4. \A m \in Name : files[m] # None => ver[files[m]] = ver'[files[m]]
    BY <1>1, <1>2, <1>3 DEF FileMaps, VerMaps
  <1>5. View(files, ver) = View(files, ver')
    BY <1>4, SameView
  <1>6. VerBefore' = ver' /\ ver'[op'.id] = 0
    BY <1>1, <1>2, <1>3 DEF VerBefore, VerMaps
  <1> QED BY <1>1, <1>2, <1>5, <1>6, SaysStarts

\* The source of a rename, when clients know files_.
LEMMA SaysRename ==
    ASSUME TypeInv, Good, state = "up", pc \in {"idle", "ok"}, After = files,
           UNCHANGED <<disk, state, meta, old, seq>>,
           NEW a \in Name, NEW b \in Name, files[a] # None, files[b] = None,
           RenameSource(a, b),
           acked' = View(files, ver), ZoneView(Cur) = View(files, ver)
    PROVE  Says'
  <1>1. Before' = files /\ op'.kind = "rename"
    BY GoodRename
  <1>2. ver' = ver /\ pc' = "persist"
    BY SourceBlock DEF TypeInv
  <1>3. VerBefore' = ver /\ ~Creates'
    BY <1>1, <1>2 DEF VerBefore, Creates
  <1> QED BY <1>1, <1>2, <1>3, SaysStarts

\* Operations that begin.
LEMMA SaysBegin ==
    ASSUME TypeInv, Good, Says,
           \/ \E n \in Name : DeleteFile(n) \/ OpenWritableFile(n) \/ SyncFileMetadata(n)
           \/ \E a, b \in Name : RenameFile(a, b) \/ LinkFile(a, b)
    PROVE  Says'
  <1>1. ASSUME NEW k, Ready(k)
        PROVE  /\ state = "up" /\ pc \in {"idle", "ok"} /\ After = files
               /\ acked = View(files, ver) /\ ZoneView(Cur) = View(files, ver)
    <2>1. state = "up" /\ pc = "idle" /\ op.kind = "none" /\ Written
      BY <1>1 DEF Ready, TypeInv, Control, Written
    <2>2. After = files /\ Before = files /\ VerBefore = ver
      BY <2>1, GoodFacts DEF Running, VerBefore
    <2> QED BY <2>1, <2>2 DEF Says
  <1>2. ASSUME NEW n \in Name, NEW k, NEW s, NEW a, Ready(k), files[n] # None, DeleteFileNoLock(n),
               UNCHANGED <<disk, state, meta, old, seq, acked>>, Begin(k, s, a, n, files[n]),
               k = "delete" \/ s = "dest", k # "none", s = "dest" => k \in {"create", "rename"},
               k = "delete" => s = "main"
        PROVE  Says'
    <2>1. /\ state = "up" /\ pc \in {"idle", "ok"} /\ After = files
          /\ acked = View(files, ver) /\ ZoneView(Cur) = View(files, ver)
      BY <1>1, <1>2
    <2>2. Before' = files /\ ~Creates' /\ op'.kind = k
      BY <1>2, <2>1, GoodDelete
    <2>3. ver' = ver /\ pc' = "persist"
      BY <1>2, DeleteBlock DEF TypeInv
    <2>4. k # "sync" /\ VerBefore' = ver
      BY <1>2, <2>2, <2>3 DEF VerBefore
    <2> QED BY <1>2, <2>1, <2>2, <2>3, <2>4, SaysStarts
  <1>3. ASSUME NEW n \in Name, DeleteFile(n)
        PROVE  Says'
    <2>1. /\ Ready("delete") /\ files[n] # None /\ DeleteFileNoLock(n)
          /\ UNCHANGED <<disk, state, meta, old, seq, acked>>
          /\ Begin("delete", "main", None, n, files[n])
      BY <1>3 DEF DeleteFile
    <2> QED BY <1>2, <2>1
  <1>4. ASSUME NEW n \in Name, OpenWritableFile(n)
        PROVE  Says'
    <2>1. Ready("create") /\ next_id <= MaxId /\ UNCHANGED <<disk, state, meta, old, seq, acked>>
      BY <1>4 DEF OpenWritableFile
    <2>2. CASE files[n] # None
      <3>1. DeleteFileNoLock(n) /\ Begin("create", "dest", None, n, files[n])
        BY <1>4, <2>2 DEF OpenWritableFile
      <3> QED BY <1>2, <2>1, <2>2, <3>1
    <2>3. CASE files[n] = None
      <3>1. CreateFile(n)
        BY <1>4, <2>3 DEF OpenWritableFile
      <3>2. /\ state = "up" /\ pc \in {"idle", "ok"} /\ After = files
            /\ acked' = View(files, ver) /\ ZoneView(Cur) = View(files, ver)
        BY <1>1, <2>1
      <3> QED BY <2>1, <2>3, <3>1, <3>2, SaysCreate
    <2> QED BY <2>2, <2>3
  <1>5. ASSUME NEW a \in Name, NEW b \in Name, RenameFile(a, b)
        PROVE  Says'
    <2>1. Ready("rename") /\ files[a] # None /\ UNCHANGED <<disk, state, meta, old, seq, acked>>
      BY <1>5 DEF RenameFile
    <2>2. CASE files[b] # None
      <3>1. DeleteFileNoLock(b) /\ Begin("rename", "dest", a, b, files[b])
        BY <1>5, <2>2 DEF RenameFile
      <3> QED BY <1>2, <2>1, <2>2, <3>1
    <2>3. CASE files[b] = None
      <3>1. RenameSource(a, b)
        BY <1>5, <2>3 DEF RenameFile
      <3>2. /\ state = "up" /\ pc \in {"idle", "ok"} /\ After = files
            /\ acked' = View(files, ver) /\ ZoneView(Cur) = View(files, ver)
        BY <1>1, <2>1
      <3> QED BY <2>1, <2>3, <3>1, <3>2, SaysRename
    <2> QED BY <2>2, <2>3
  <1>6. ASSUME NEW a \in Name, NEW b \in Name, LinkFile(a, b)
        PROVE  Says'
    <2>1. /\ Ready("link") /\ pc' = "persist" /\ ver' = ver
          /\ UNCHANGED <<disk, state, meta, old, seq, acked>>
      BY <1>6 DEF LinkFile, Persist
    <2>2. Before' = files /\ op'.kind = "link"
      BY <1>6, GoodLink
    <2>3. VerBefore' = ver /\ ~Creates'
      BY <2>1, <2>2 DEF VerBefore, Creates
    <2>4. /\ state = "up" /\ pc \in {"idle", "ok"}
          /\ acked = View(files, ver) /\ ZoneView(Cur) = View(files, ver)
      BY <1>1, <2>1
    <2> QED BY <2>1, <2>2, <2>3, <2>4, SaysStarts
  <1>7. ASSUME NEW n \in Name, SyncFileMetadata(n)
        PROVE  Says'
    <2>1. /\ Ready("sync") /\ pc' = "persist" /\ files[n] # None
          /\ ver' = [ver EXCEPT ![files[n]] = ver[files[n]] + 1]
          /\ UNCHANGED <<disk, state, meta, old, seq, acked>>
      BY <1>7 DEF SyncFileMetadata, Persist
    <2>2. Before' = files /\ op'.kind = "sync" /\ op'.id = files[n] /\ ~Creates'
      BY <1>7, GoodSync DEF Creates
    <2>3. ver \in VerMaps /\ files[n] \in FileId
      BY <2>1, TypeFacts DEF TypeInv, TypeOK
    <2>4. ver[files[n]] \in Nat
      BY <2>3, Consts DEF VerMaps
    <2>5. ver'[files[n]] = ver[files[n]] + 1
      BY <2>1, <2>3 DEF VerMaps
    <2>6. VerBefore' = ver
      <3>1. VerBefore' = [ver' EXCEPT ![files[n]] = ver'[files[n]] - 1]
        BY <2>2 DEF VerBefore
      <3>2. ver'[files[n]] - 1 = ver[files[n]]
        BY <2>4, <2>5
      <3> QED BY <2>1, <2>3, <3>1, <3>2 DEF VerMaps
    <2>7. ver'[op'.id] # 0
      BY <2>2, <2>4, <2>5
    <2>8. /\ state = "up" /\ pc \in {"idle", "ok"}
          /\ acked = View(files, ver) /\ ZoneView(Cur) = View(files, ver)
      BY <1>1, <2>1
    <2> QED BY <2>1, <2>2, <2>6, <2>7, <2>8, SaysStarts
  <1> QED BY <1>3, <1>4, <1>5, <1>6, <1>7

\* Clients learn that the destination is gone.
LEMMA DestinationGone ==
    ASSUME TypeInv, Good, Says, AfterDestination
    PROVE  acked' = View(files, ver) /\ OneStep(acked, acked')
  <1>1. /\ state = "up" /\ op.stage = "dest" /\ acked' = [acked EXCEPT ![op.to] = None]
        /\ op.kind \in {"create", "rename"} /\ op.to \in Name
    BY DEF AfterDestination, TypeInv, OpShape
  <1>2. /\ Before = [files EXCEPT ![op.to] = op.id] /\ files[op.to] = None /\ VerBefore = ver
    BY <1>1 DEF Deletes, Before, VerBefore, Good, OpDone
  <1>3. files \in FileMaps /\ acked = View(Before, ver) /\ op.id \in FileId
    BY <1>1, <1>2 DEF Says, TypeInv, TypeOK, OpShape
  <1>4. acked' = View(files, ver)
    BY <1>1, <1>2, <1>3 DEF View, FileMaps
  <1>5. acked[op.to] # None
    <2>1. Before \in FileMaps /\ ver \in VerMaps /\ Before[op.to] # None
      BY <1>1, <1>2, <1>3, Rebound, NoneIsNothing DEF FileMaps, TypeInv, TypeOK
    <2> QED BY <1>1, <1>3, <2>1, ViewFacts
  <1> QED BY <1>1, <1>4, <1>5 DEF OneStep

\* The operation goes on.
LEMMA SaysAfterDestination ==
    ASSUME TypeInv, Good, Says, AfterDestination
    PROVE  Says'
  <1>1. /\ state = "up" /\ pc = "ok" /\ op.stage = "dest" /\ old = None
        /\ UNCHANGED <<disk, state, meta, old, seq>> /\ Written
    BY DEF AfterDestination, TypeInv, Control, Written
  <1>2. op.to \in Name /\ (op.kind = "rename" => op.from \in Name) /\ files[op.to] = None
    BY <1>1 DEF TypeInv, OpShape, Good, OpDone, Deletes
  <1>3. After = files /\ acked' = View(files, ver) /\ ZoneView(Cur) = View(files, ver)
    BY <1>1, GoodFacts, DestinationGone DEF Running, Says
  <1>4. CASE op.kind = "create" /\ CreateFile(op.to)
    <2>1. next_id <= MaxId
      BY <1>1, <1>4 DEF TypeInv, OpShape
    <2> QED BY <1>1, <1>2, <1>3, <1>4, <2>1, SaysCreate
  <1>5. CASE op.kind = "rename" /\ op.from # op.to /\ RenameSource(op.from, op.to)
    <2>1. files[op.from] # None
      BY <1>1, <1>5 DEF TypeInv, OpShape
    <2> QED BY <1>1, <1>2, <1>3, <1>5, <2>1, SaysRename
  <1>6. CASE Return /\ UNCHANGED mem
    <2>1. files' = files /\ ver' = ver
      BY <1>6 DEF mem
    <2> QED BY <1>1, <1>3, <1>6, <2>1, SaysEnds
  <1> QED BY <1>4, <1>5, <1>6 DEF AfterDestination

\* Clients learn that the operation is persistent.
LEMMA OperationKnown ==
    ASSUME TypeInv, Good, Says, OperationReturns
    PROVE  acked' = View(After, ver) /\ OneStep(acked, acked') /\ Says'
  <1>1. /\ state = "up" /\ pc = "ok" /\ op.stage = "main" /\ old = None /\ op.kind # "none"
        /\ UNCHANGED <<disk, state, meta, old, seq>> /\ Return /\ ver' = ver /\ Written
        /\ files' = IF op.kind = "create" THEN [files EXCEPT ![op.to] = op.id] ELSE files
        /\ acked' = [n \in Name |-> IF files'[n] = op.id THEN [id |-> op.id, ver |-> ver[op.id]]
                                    ELSE IF files'[n] = None THEN None ELSE acked[n]]
    BY DEF OperationReturns, Acknowledge, TypeInv, Control, Written
  <1>2. files' = After
    BY <1>1 DEF After, Creates
  <1>3. acked = View(Before, VerBefore) /\ ZoneView(Cur) = View(After, ver)
    BY <1>1 DEF Says
  <1>4. /\ op.id \in FileId
        /\ \A n \in Name :
             After[n] # None /\ (Deletes \/ After[n] # op.id) =>
                 Before[n] = After[n] /\ VerBefore[After[n]] = ver[After[n]]
    BY <1>1, OpViews
  <1>5. op.id # None
    BY <1>4, NoneIsNothing
  <1>6. ASSUME NEW n \in Name
        PROVE  acked'[n] = View(After, ver)[n]
    <2>1. CASE After[n] = op.id
      BY <1>1, <1>2, <1>5, <2>1 DEF View
    <2>2. CASE After[n] = None
      BY <1>1, <1>2, <1>5, <2>2 DEF View
    <2>3. CASE After[n] # None /\ After[n] # op.id
      <3>1. acked'[n] = acked[n]
        BY <1>1, <1>2, <2>3
      <3>2. Before[n] = After[n] /\ VerBefore[After[n]] = ver[After[n]]
        BY <1>4, <2>3
      <3> QED BY <1>3, <2>3, <3>1, <3>2 DEF View
    <2> QED BY <2>1, <2>2, <2>3
  <1>7. acked' = View(After, ver)
    <2>1. acked' = [n \in Name |-> acked'[n]] /\ View(After, ver) = [n \in Name |-> View(After, ver)[n]]
      BY <1>1 DEF View
    <2> QED BY <1>6, <2>1
  <1>8. OneStep(acked, acked')
    BY <1>1, <1>3, <1>7, ViewStep
  <1>9. Says'
    BY <1>1, <1>2, <1>3, <1>7, SaysEnds
  <1> QED BY <1>7, <1>8, <1>9

\* What the record of an operation adds to the log.
LEMMA RecordedView ==
    ASSUME TypeInv, Good, Says, state = "up", op.kind # "none", ~Written, NEW z \in MetaZone,
           z = Cur, NEW w, w = IF Deletes THEN log[z].ver
                               ELSE [log[z].ver EXCEPT ![op.id] = ver[op.id]]
    PROVE  View(After, w) = View(After, ver)
  <1>1. /\ op.id \in FileId /\ ver \in VerMaps
        /\ Before \in FileMaps /\ After \in FileMaps /\ VerBefore \in VerMaps
        /\ \A n \in Name :
             After[n] # None /\ (Deletes \/ After[n] # op.id) =>
                 Before[n] = After[n] /\ VerBefore[After[n]] = ver[After[n]]
    BY OpViews
  <1>2. log[z].ver \in VerMaps
    BY ZoneFields DEF TypeInv, TypeOK
  <1>3. log[z].files = Before
    BY GoodFacts DEF Running, Holds
  <1>4. View(Before, log[z].ver) = View(Before, VerBefore)
    BY <1>3 DEF Says, ZoneView
  <1>5. ASSUME NEW n \in Name, After[n] # None
        PROVE  w[After[n]] = ver[After[n]]
    <2>1. After[n] \in FileId
      BY <1>1, <1>5 DEF FileMaps
    <2>2. CASE ~Deletes /\ After[n] = op.id
      BY <1>1, <1>2, <2>2 DEF VerMaps
    <2>3. CASE Deletes \/ After[n] # op.id
      <3>1. Before[n] = After[n] /\ VerBefore[After[n]] = ver[After[n]]
        BY <1>1, <1>5, <2>3
      <3>2. /\ View(Before, log[z].ver)[n].ver = log[z].ver[Before[n]]
            /\ View(Before, VerBefore)[n].ver = VerBefore[Before[n]]
        BY <1>1, <1>2, <1>5, <3>1, ViewFacts
      <3>3. log[z].ver[After[n]] = ver[After[n]]
        BY <1>4, <3>1, <3>2
      <3>4. w[After[n]] = log[z].ver[After[n]]
        BY <1>1, <1>2, <2>1, <2>3 DEF VerMaps
      <3> QED BY <3>3, <3>4
    <2> QED BY <2>2, <2>3
  <1> QED BY <1>5 DEF View

\* Steps of the device.
LEMMA SaysDevice ==
    ASSUME TypeInv, ZoneShape, Good, Says, NoLostRecord', Whole, Device
    PROVE  Says'
  <1>1. UNCHANGED <<state, mem, op, acked>> /\ pc # "idle"
    BY DEF Device, PersistRecord, AllocateMetaZone, WriteEndRecord, RollWriteSuperblock,
           WriteSnapshotLocked, RollResetOldZone
  <1>2. Running
    BY <1>1 DEF TypeInv, Control
  <1>3. SameLog \/ (PersistRecord /\ Recorded) \/ (WriteSnapshotLocked /\ Snapshotted)
    BY GoodPersist, GoodAllocate, GoodWriteEnd, GoodSuperblock, GoodSnapshot, GoodResetOld
    DEF Device
  <1>4. /\ Before' = Before /\ After' = After /\ VerBefore' = VerBefore /\ Creates' = Creates
        /\ state' = state /\ acked' = acked /\ ver' = ver /\ op' = op /\ Running'
    BY <1>1, <1>2 DEF Before, After, VerBefore, Creates, Deletes, Running, mem
  <1>5. ASSUME state = "up" => ZoneView(Cur)' = IF Written' THEN View(After, ver) ELSE acked,
               state = "mounting" => OneStep(acked, ZoneView(Cur)')
        PROVE  Says'
    BY <1>4, <1>5 DEF Says
  <1>6. CASE SameLog
    <2>1. PICK z \in MetaZone : /\ z = Cur /\ z = Cur'
                                /\ log'[z].files = log[z].files /\ log'[z].ver = log[z].ver
      BY <1>6 DEF SameLog
    <2>2. ZoneView(Cur)' = ZoneView(Cur) /\ Written' = Written
      BY <1>6, <2>1 DEF ZoneView, SameLog
    <2> QED BY <1>5, <2>2 DEF Says
  <1>7. CASE PersistRecord /\ Recorded
    <2>1. pc = "persist" /\ state = "up" /\ op.kind # "none" /\ ~Written
      BY <1>7 DEF PersistRecord, TypeInv, Control, Written
    <2>2. PICK z \in MetaZone : /\ z = Cur /\ z = Cur' /\ log'[z].files = After
                                /\ log'[z].ver = IF Deletes THEN log[z].ver
                                                 ELSE [log[z].ver EXCEPT ![op.id] = ver[op.id]]
      BY <1>7 DEF Recorded
    <2>3. View(After, log'[z].ver) = View(After, ver)
      BY <2>1, <2>2, RecordedView
    <2>4. ZoneView(Cur)' = View(After, ver) /\ Written'
      BY <1>7, <2>2, <2>3 DEF ZoneView, Recorded
    <2> QED BY <1>5, <2>1, <2>4
  <1>8. CASE WriteSnapshotLocked /\ Snapshotted
    <2>1. PICK z \in MetaZone : z = Cur' /\ log'[z].files = files /\ log'[z].ver = ver
      BY <1>8 DEF Snapshotted
    <2>2. ZoneView(Cur)' = View(After, ver) /\ Written'
      BY <1>8, <2>1 DEF ZoneView, Snapshotted
    <2>3. CASE state = "up"
      BY <1>5, <2>2, <2>3
    <2>4. CASE state = "mounting"
      <3>1. op.kind = "none" /\ ~Written
        BY <1>8, <2>4 DEF TypeInv, Control, WriteSnapshotLocked, Written
      <3>2. log[Cur].files = files /\ log[Cur].ver = ver /\ After = files
        BY <1>2, <2>4, <3>1, GoodFacts DEF Holds
      <3>3. ZoneView(Cur) = View(After, ver)
        BY <3>2 DEF ZoneView
      <3> QED BY <1>5, <2>2, <2>4, <3>3 DEF Says
    <2> QED BY <1>2, <2>3, <2>4 DEF Running
  <1> QED BY <1>3, <1>6, <1>7, <1>8

\* A mount begins.
LEMMA SaysMount ==
    ASSUME TypeInv, Good, Says, Mount
    PROVE  Says'
  <1>1. state' = "mounting" /\ state = "down"
    BY GoodMount DEF Mount
  <1>2. PICK z \in MetaZone : Recoverable(z) /\ OneStep(acked, ZoneView(z))
    BY <1>1 DEF Says, Running
  <1>3. Latest = z
    BY <1>2, NewestIsLatest DEF TypeInv, TypeOK, Recoverable
  <1>4. meta' = z /\ log' = log /\ acked' = acked /\ old' = None
    BY <1>1, <1>3 DEF Mount, disk, TypeInv, Control, Running
  <1>5. Cur' = z
    BY <1>4 DEF Cur
  <1>6. ZoneView(Cur)' = ZoneView(z)
    BY <1>4, <1>5 DEF ZoneView
  <1> QED BY <1>1, <1>2, <1>4, <1>6 DEF Says, Running

\* It is done: clients learn what was recovered.
LEMMA SaysMounted ==
    ASSUME TypeInv, Good, Says, MountReturns
    PROVE  Says' /\ OneStep(acked, acked')
  <1>1. /\ state = "mounting" /\ pc = "ok" /\ state' = "up" /\ Running /\ old = None
        /\ UNCHANGED <<disk, mem, meta, old>> /\ Return /\ acked' = View(files, ver)
        /\ op.kind = "none"
    BY DEF MountReturns, Running, TypeInv, Control
  <1>2. log[Cur].files = files /\ log[Cur].ver = ver
    BY <1>1, GoodFacts DEF Holds
  <1>3. ZoneView(Cur) = View(files, ver) /\ OneStep(acked, View(files, ver))
    BY <1>1, <1>2 DEF ZoneView, Says
  <1>4. log' = log /\ files' = files /\ ver' = ver /\ op'.kind = "none" /\ pc' = "idle"
    BY <1>1 DEF disk, mem, Return, NoOp
  <1>5. Cur' = Cur /\ Written' /\ ~Creates'
    BY <1>1, <1>4 DEF Cur, Written, Creates
  <1>6. ZoneView(Cur)' = ZoneView(Cur)
    BY <1>4, <1>5 DEF ZoneView
  <1>7. Before' = files' /\ After' = files' /\ VerBefore' = ver'
    BY <1>4, <1>5 DEF Before, After, VerBefore
  <1> QED BY <1>1, <1>3, <1>4, <1>5, <1>6, <1>7 DEF Says, Running

\* What a crash leaves is what clients were told, or one operation more.
LEMMA CrashStep ==
    ASSUME TypeInv, Good, Says, Running
    PROVE  OneStep(acked, ZoneView(Cur))
  <1>1. CASE state = "mounting"
    BY <1>1 DEF Says
  <1>2. CASE state = "up" /\ ~Written
    BY <1>2 DEF Says, OneStep
  <1>3. CASE state = "up" /\ Written /\ op.kind # "none"
    BY <1>3, ViewStep DEF Says
  <1>4. CASE state = "up" /\ Written /\ op.kind = "none"
    <2>1. Before = files /\ After = files /\ VerBefore = ver
      BY <1>4, GoodFacts DEF VerBefore
    <2> QED BY <1>4, <2>1 DEF Says, OneStep
  <1> QED BY <1>1, <1>2, <1>3, <1>4 DEF Running

\* Crashes.
LEMMA SaysCrash ==
    ASSUME TypeInv, ZoneShape, Good, Says, MountFails \/ Crash \/ CrashInWrite
    PROVE  Says' \/ Dead'
  <1>1. Running /\ state' = "down" /\ acked' = acked
    BY DEF MountFails, Crash, CrashInWrite, Running
  <1>2. \/ Dead'
        \/ \E z \in MetaZone : /\ z = Cur /\ log'[z].files = log[z].files
                               /\ log'[z].ver = log[z].ver /\ Recoverable(z)'
    <2>1. CASE MountFails \/ Crash
      <3>1. PICK z \in MetaZone : z = Cur /\ Recoverable(z)
        BY <1>1, GoodFacts
      <3>2. log' = log
        BY <2>1 DEF MountFails, Crash, disk
      <3>3. Recoverable(z)'
        BY <3>1, <3>2, RecoverableKept DEF Recoverable
      <3> QED BY <3>1, <3>2, <3>3
    <2>2. CASE CrashInWrite
      BY <2>2, LogCrash
    <2> QED BY <2>1, <2>2
  <1>3. ASSUME NEW z \in MetaZone, z = Cur, log'[z].files = log[z].files,
               log'[z].ver = log[z].ver, Recoverable(z)'
        PROVE  Says'
    <2>1. OneStep(acked, ZoneView(z))
      BY <1>1, <1>3, CrashStep
    <2>2. OneStep(acked', ZoneView(z)')
      BY <1>1, <1>3, <2>1 DEF ZoneView
    <2> QED BY <1>1, <1>3, <2>2 DEF Says, Running
  <1> QED BY <1>2, <1>3

\* The first mount finds what MkFS left.
LEMMA ToldInit == Init => ToldInv
  <1> SUFFICES ASSUME Init PROVE ToldInv
    OBVIOUS
  <1>1. state = "down" /\ acked = View(InitSnapshot.files, InitSnapshot.ver)
    BY DEF Init
  <1>2. LogInv
    BY LogInit
  <1>3. PICK z \in MetaZone : Newest(z) /\ log[z].status \in {"ok", "torn", "ended"}
                              /\ (log[z].status # "torn" => Recoverable(z))
    BY <1>2 DEF LogInv, Good, Durable, Dead, Recoverable
  <1> DEFINE one == 1
  <1>4. /\ one \in MetaZone /\ log \in [MetaZone -> ZoneState] /\ log[one].status = "ok"
        /\ log[one].files = InitSnapshot.files /\ log[one].ver = InitSnapshot.ver
        /\ \A y \in MetaZone \ {one} : log[y] = Blank
    BY InitialLog
  <1> HIDE DEF one
  <1>5. z = one
    BY <1>3, <1>4, FreshZone
  <1>6. Recoverable(one) /\ ZoneView(one) = acked
    BY <1>1, <1>3, <1>4, <1>5 DEF ZoneView
  <1>7. OneStep(acked, ZoneView(one))
    BY <1>6 DEF OneStep
  <1> QED BY <1>1, <1>4, <1>6, <1>7 DEF ToldInv, Says, Running

\* Every step, and what clients learn in it.
LEMMA ToldNext ==
    TypeInv /\ LogInv /\ ToldInv /\ NoLostRecord' /\ Counted /\ faults' = 0 /\ [Next]_vars
        => ToldInv' /\ OneStep(acked, acked')
  <1> SUFFICES ASSUME TypeInv, LogInv, ToldInv, NoLostRecord', Counted, faults' = 0, [Next]_vars
               PROVE  ToldInv' /\ OneStep(acked, acked')
    OBVIOUS
  <1>1. ASSUME acked' = acked
        PROVE  OneStep(acked, acked')
    BY <1>1 DEF OneStep
  <1>2. CASE Dead
    <2>1. Dead'
      BY <1>2, DeadNext
    <2>2. state \notin {"up", "mounting"}
      BY <1>2 DEF Dead
    <2>3. acked' = acked
      BY <2>2, <1>2 DEF Dead, TypeInv, Control, Running, Next, vars, Operation, Device, DeleteFile,
            OpenWritableFile, SyncFileMetadata, RenameFile, LinkFile, AfterDestination,
            OperationReturns, OperationFails, PersistRecord, AllocateMetaZone, WriteEndRecord,
            RollWriteSuperblock, WriteSnapshotLocked, RollResetOldZone, Mount, MountReturns,
            MountFails, Crash, CrashInWrite
    <2> QED BY <1>1, <2>1, <2>3 DEF ToldInv
  <1>3. CASE ~Dead
    <2>1. Good /\ Says /\ ZoneShape
      BY <1>3 DEF LogInv, ToldInv
    <2>2. CASE \/ \E n \in Name : DeleteFile(n) \/ OpenWritableFile(n) \/ SyncFileMetadata(n)
               \/ \E a, b \in Name : RenameFile(a, b) \/ LinkFile(a, b)
      <3>1. acked' = acked
        BY <2>2 DEF DeleteFile, OpenWritableFile, SyncFileMetadata, RenameFile, LinkFile
      <3> QED BY <1>1, <2>1, <2>2, <3>1, SaysBegin DEF ToldInv
    <2>3. CASE AfterDestination \/ OperationReturns
      BY <2>1, <2>3, SaysAfterDestination, DestinationGone, OperationKnown DEF ToldInv
    <2>4. ~OperationFails
      <3>1. faults = 0
        BY FaultsCounted
      <3> QED BY <3>1 DEF OperationFails, Counted
    <2>5. CASE Device
      <3>1. acked' = acked
        BY <2>5 DEF Device, PersistRecord, AllocateMetaZone, WriteEndRecord, RollWriteSuperblock,
                    WriteSnapshotLocked, RollResetOldZone
      <3>2. Whole
        BY DEF Whole
      <3> QED BY <1>1, <2>1, <2>5, <3>1, <3>2, SaysDevice DEF ToldInv
    <2>6. CASE Mount
      <3>1. acked' = acked
        BY <2>6 DEF Mount
      <3> QED BY <1>1, <2>1, <2>6, <3>1, SaysMount DEF ToldInv
    <2>7. CASE MountReturns
      BY <2>1, <2>7, SaysMounted DEF ToldInv
    <2>8. CASE MountFails \/ Crash \/ CrashInWrite
      <3>1. acked' = acked
        BY <2>8 DEF MountFails, Crash, CrashInWrite
      <3> QED BY <1>1, <2>1, <2>8, <3>1, SaysCrash DEF ToldInv
    <2>9. CASE UNCHANGED vars
      <3>1. /\ Creates' = Creates /\ After' = After /\ Before' = Before /\ VerBefore' = VerBefore
            /\ Cur' = Cur /\ Written' = Written /\ Running' = Running /\ acked' = acked
            /\ state' = state /\ ver' = ver /\ op' = op /\ log' = log
        BY <2>9 DEF vars, Creates, Deletes, After, Before, VerBefore, Cur, Written, Running
      <3>2. ZoneView(Cur)' = ZoneView(Cur)
        BY <3>1 DEF ZoneView
      <3>3. ASSUME NEW z \in MetaZone, Recoverable(z), OneStep(acked, ZoneView(z))
            PROVE  Recoverable(z)' /\ OneStep(acked, ZoneView(z))'
        BY <3>1, <3>3, RecoverableKept DEF Recoverable, ZoneView
      <3>4. Says'
        BY <2>1, <3>1, <3>2, <3>3 DEF Says
      <3> QED BY <1>1, <3>1, <3>4 DEF ToldInv
    <2> QED BY <2>2, <2>3, <2>4, <2>5, <2>6, <2>7, <2>8, <2>9 DEF Next, Operation
  <1> QED BY <1>2, <1>3

-----------------------------------------------------------------------------

\* As long as the device has failed nobody, the log and what clients were told
\* of it are as they should be.
Sound == faults = 0 => LogInv /\ ToldInv

\* Every step.
LEMMA SoundNext ==
    TypeInv /\ Counted /\ Sound /\ NoLostRecord /\ NoLostRecord' /\ [Next]_vars
        => Sound' /\ (faults' = 0 => OneStep(acked, acked'))
  <1> SUFFICES ASSUME TypeInv, Counted, Sound, NoLostRecord, NoLostRecord', [Next]_vars,
                      faults' = 0
               PROVE  LogInv' /\ ToldInv' /\ OneStep(acked, acked')
    BY DEF Sound
  <1>1. LogInv /\ ToldInv
    BY FaultsCounted DEF Sound
  <1>2. Whole
    BY DEF Whole
  <1>3. LogInv'
    BY <1>1, <1>2, LogNext
  <1> QED BY <1>1, <1>3, ToldNext

\* The first state.
LEMMA SoundInit == Init => Counted /\ Sound
  BY LogInit, ToldInit DEF Init, Counted, Sound

-----------------------------------------------------------------------------

\* When no record is lost in a roll, and as long as the device has failed nobody,
\* a mount at any time between operations would find every name that clients
\* were told of, bound to its file and in the version that was synced, and no
\* other name.  Crashes may happen anywhere, in the middle of a record too.
THEOREM AcknowledgedIsRecovered == Spec /\ []NoLostRecord => []AckedIsDurable
  <1>1. TypeInv /\ Sound => AckedIsDurable
    <2> SUFFICES ASSUME TypeInv, LogInv, ToldInv, state = "up", pc = "idle"
                 PROVE  /\ Mountable
                        /\ \A n \in Name :
                             IF acked[n] = None THEN DurableView[n] = None
                             ELSE /\ DurableView[n] # None
                                  /\ DurableView[n].id = acked[n].id
                                  /\ DurableView[n].ver >= acked[n].ver
      BY DEF AckedIsDurable, Sound
    <2>1. Good /\ Says /\ Running /\ op.kind = "none" /\ Written
      BY DEF LogInv, ToldInv, Dead, Running, TypeInv, Control, Written
    <2>2. /\ Recoverable(Cur) /\ Before = files /\ After = files /\ VerBefore = ver
          /\ files \in FileMaps /\ ver \in VerMaps
      BY <2>1, GoodFacts DEF VerBefore, TypeInv, TypeOK
    <2>3. Latest = Cur /\ Foreign = {} /\ Decisive # {}
      BY <2>2, NewestIsLatest DEF TypeInv, TypeOK, Recoverable
    <2>4. Mountable
      BY <2>2, <2>3 DEF Mountable, Recoverable
    <2>5. acked = View(files, ver) /\ DurableView = acked
      BY <2>1, <2>2, <2>3 DEF Says, DurableView, ZoneView
    <2>6. ASSUME NEW n \in Name, acked[n] # None
          PROVE  acked[n].ver >= acked[n].ver
      <3>1. acked[n].ver \in 0..MaxVer
        BY <2>2, <2>5, <2>6, ViewFacts
      <3> QED BY <3>1, Consts
    <2> QED BY <2>4, <2>5, <2>6
  <1> QED BY TypeInit, TypeNext, SoundInit, SoundNext, FaultsCounted, <1>1, PTL DEF Spec

\* Under the same conditions MetaLog implements DurableNamespace: whatever
\* crashes and remounts happen, what clients may rely on changes by whole
\* operations only.
THEOREM PromisesAreKept == Spec /\ []NoLostRecord => PromisesKept
  <1>1. Init => Told!Init
    <2> SUFFICES ASSUME Init PROVE Told!Init
      OBVIOUS
    <2>1. acked = View(InitSnapshot.files, InitSnapshot.ver)
      BY DEF Init
    <2>2. acked \in [Name -> [id : FileId, ver : 0..MaxVer] \union {None}]
      BY <2>1, InitialFiles, ViewFacts
    <2> QED BY <2>2 DEF Told!Init, Told!TypeOK, Told!File
  <1>2. OneStep(acked, acked') => [Told!Next]_acked
    <2> SUFFICES ASSUME OneStep(acked, acked') PROVE [Told!Next]_acked
      OBVIOUS
    <2>1. CASE acked' = acked
      BY <2>1
    <2>2. CASE \E n \in Name : acked[n] # None /\ acked' = [acked EXCEPT ![n] = None]
      BY <2>2 DEF Told!Next, Told!Delete, Told!Bound
    <2>3. CASE \E n \in Name, id \in FileId :
                 /\ acked[n] = None
                 /\ \A m \in Name : acked[m] # None => acked[m].id # id
                 /\ acked' = [acked EXCEPT ![n] = [id |-> id, ver |-> 0]]
      BY <2>3 DEF Told!Next, Told!Create, Told!Bound
    <2>4. CASE \E n, m \in Name :
                 /\ acked[n] # None /\ acked[m] = None
                 /\ \/ acked' = [acked EXCEPT ![n] = None, ![m] = acked[n]]
                    \/ acked' = [acked EXCEPT ![m] = acked[n]]
      BY <2>4 DEF Told!Next, Told!Rename, Told!Link, Told!Bound
    <2>5. CASE \E id \in FileId, v \in 1..MaxVer :
                 /\ \A n \in Name : acked[n] # None /\ acked[n].id = id => acked[n].ver < v
                 /\ acked' = [n \in Name |-> IF acked[n] # None /\ acked[n].id = id
                                             THEN [id |-> id, ver |-> v] ELSE acked[n]]
      BY <2>5 DEF Told!Next, Told!Sync, Told!Bound
    <2> QED BY <2>1, <2>2, <2>3, <2>4, <2>5 DEF OneStep
  <1>3. /\ TypeInv /\ Counted /\ Sound /\ NoLostRecord /\ NoLostRecord' /\ [Next]_vars
        => [faults' = 0 => Told!Next]_acked
    BY <1>2, SoundNext
  <1> QED BY TypeInit, TypeNext, SoundInit, SoundNext, FaultsCounted, <1>1, <1>3, PTL
      DEF Spec, PromisesKept
=============================================================================
