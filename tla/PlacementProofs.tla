-------------------------- MODULE PlacementProofs --------------------------
(* Theorems about Placement, for every file tree, policy, allocator, number *)
(* of zones and of events.                                                  *)
(*                                                                          *)
(* A policy is a fold over zones, extents or ranked files.  Each is followed *)
(* step by step (a trace): it holds at most one zone more than were busy,    *)
(* the one it keeps, and that one is a candidate.  From this every policy    *)
(* returns a match that is held alone, every empty zone allocator returns an *)
(* idle empty zone, and the busy zones are those the open files write to.    *)
EXTENDS Placement, FoldFacts, SequenceTheorems, FiniteSetTheorems

ExtentSet == [zone : Zone, len : 0..ZoneCap, level : -1..TopLevel]

(* A walk from the busy zones b: at most one zone more is held, the one     *)
(* that is kept, which was idle and is a candidate.                         *)
Walks(b, min, V) ==
    {w \in [busy : SUBSET Zone, zone : Zone \cup {None}, score : V] :
        /\ w.busy = b \cup ({w.zone} \ {None})
        /\ w.zone \notin b
        /\ w.zone # None => Candidate(w.zone, min)}

\* A visited zone is kept or handed back.
LEMMA VisitWalks ==
  ASSUME NEW b \in SUBSET Zone, NEW min, NEW V, NEW w \in Walks(b, min, V), NEW z \in Zone,
         NEW v \in V, NEW better
  PROVE  Visit(w, z, min, v, better) \in Walks(b, min, V)
  BY PlacementAssumption DEF Visit, Keep, Walks

LEMMA StartWalks ==
  ASSUME NEW b \in SUBSET Zone, NEW min, NEW V, NEW v \in V
  PROVE  Start(b, v) \in Walks(b, min, V)
  BY PlacementAssumption DEF Start, Walks

(* The walk of LeastDiff after 0, 1, ..., NrZones zones. *)
WalkTrace(h, b, min, V, score) ==
    /\ h \in [0..NrZones -> Walks(b, min, V)]
    /\ h[0] = Start(b, NotGood)
    /\ \A k \in 0..(NrZones - 1) :
         h[k + 1] = Visit(h[k], io_zones[k + 1], min, score[io_zones[k + 1]],
                          score[io_zones[k + 1]] <= h[k].score)
    /\ LeastDiff(b, min, score) = h[NrZones]

LeastWearTrace(h, b) ==
    /\ h \in [0..NrZones -> IdleEmpty(b) \cup {None}]
    /\ h[0] = None
    /\ \A k \in 0..(NrZones - 1) :
         h[k + 1] = IF /\ io_zones[k + 1] \in IdleEmpty(b)
                       /\ h[k] = None \/ ~(resets[h[k]] < resets[io_zones[k + 1]])
                    THEN io_zones[k + 1] ELSE h[k]
    /\ AllocateEmptyZoneLeastWear(b) = h[NrZones]

WearTrace(h) ==
    /\ h \in [0..NrZones -> Seq([zone : Zone, rank : Nat])]
    /\ h[0] = <<>>
    /\ \A k \in 0..(NrZones - 1) :
         h[k + 1] = InsertByRank(h[k], [zone |-> io_zones[k + 1],
                                        rank |-> resets[io_zones[k + 1]]])
    /\ SortedByWear = h[NrZones]

(* LeastDiff walks over io_zones and keeps what Walks says at every zone.   *)
LEMMA LeastDiffSteps ==
  ASSUME NEW b \in SUBSET Zone, NEW min, NEW V, NotGood \in V, NEW score \in [Zone -> V]
  PROVE  \E h : WalkTrace(h, b, min, V, score)
  <1>. DEFINE W == Walks(b, min, V)
              n == NrZones
              base == Start(b, NotGood)
              Op(w, x) == Visit(w, x, min, score[x], score[x] <= w.score)
              Body(g) == [s \in SUBSET (DOMAIN io_zones) |->
                            IF s = {} THEN base
                            ELSE Op(g[s \ {Max(s)}], io_zones[Max(s)])]
              it == CHOOSE g : g = Body(g)
              F == [p \in W \X (1..n) |-> Op(p[1], io_zones[p[2]])]
  <1>1. LeastDiff(b, min, score) = it[DOMAIN io_zones]
    BY DEF LeastDiff, FoldLeft, MapThenFoldSet
  <1>2. n \in Nat /\ DOMAIN io_zones = 1..n
    BY PlacementAssumption DEF io_zones, Zone
  <1>3. ASSUME NEW w \in W, NEW i \in 1..n PROVE Op(w, io_zones[i]) \in W
    BY PlacementAssumption, VisitWalks DEF io_zones, Zone
  <1>4. base \in W
    BY StartWalks
  <1>. HIDE DEF W, n, base, Op
  <1>5. F \in [W \X (1..n) -> W]
    BY <1>3
  <1>6. ASSUME NEW w \in W, NEW i \in 1..n PROVE F[<<w, i>>] = Op(w, io_zones[i])
    OBVIOUS
  <1>. HIDE DEF F
  <1>7. PICK g : IsFold(g, n, W, base, F)
    BY <1>2, <1>4, <1>5, FoldExists
  <1>8. ASSUME NEW s \in SUBSET (1..n), s # {}, NEW v, v[s \ {Max(s)}] \in W
        PROVE  F[<<v[s \ {Max(s)}], Max(s)>>] = Op(v[s \ {Max(s)}], io_zones[Max(s)])
    <2>1. Max(s) \in 1..n
      BY <1>2, <1>8, MaxUpto
    <2>. QED BY <2>1, <1>6, <1>8
  <1>9. g = Body(g)
    <2>1. g \in [SUBSET (1..n) -> W] /\ g[{}] = base
      BY <1>7 DEF IsFold
    <2>2. ASSUME NEW s \in SUBSET (1..n), s # {}
          PROVE  g[s] = Op(g[s \ {Max(s)}], io_zones[Max(s)])
      <3>1. g[s \ {Max(s)}] \in W
        BY <2>1
      <3>2. g[s] = F[<<g[s \ {Max(s)}], Max(s)>>]
        BY <1>7, <2>2 DEF IsFold
      <3>. QED BY <2>2, <3>1, <3>2, <1>8
    <2>. QED BY <1>2, <2>1, <2>2
  <1>10. it = Body(it)
    <2>. HIDE DEF Body
    <2>. QED BY <1>9
  <1>. HIDE DEF it
  <1>11. it[{}] = base
    BY <1>2, <1>10
  <1>12. ASSUME NEW s \in SUBSET (1..n), s # {} /\ it[s \ {Max(s)}] \in W
         PROVE  it[s] = F[<<it[s \ {Max(s)}], Max(s)>>]
    <2>1. it[s] = Op(it[s \ {Max(s)}], io_zones[Max(s)])
      BY <1>2, <1>10, <1>12
    <2>. QED BY <2>1, <1>12, <1>8
  <1>13. FoldsIn(it, n, W, base, F)
    BY <1>11, <1>12 DEF FoldsIn
  <1>14. PICK h : IsTrace(h, n, W, base, F, it[1..n])
    BY <1>2, <1>4, <1>5, <1>13, FoldTrace
  <1>15. h \in [0..n -> W] /\ h[0] = base /\ h[n] = it[1..n]
    BY <1>14 DEF IsTrace
  <1>16. ASSUME NEW k \in 0..(n - 1) PROVE h[k + 1] = Op(h[k], io_zones[k + 1])
    <2>1. k \in 0..n /\ k + 1 \in 1..n
      BY <1>2
    <2>2. h[k] \in W
      BY <2>1, <1>15
    <2>3. h[k + 1] = F[<<h[k], k + 1>>]
      BY <1>14 DEF IsTrace
    <2>. QED BY <2>1, <2>2, <2>3, <1>6
  <1>. QED BY <1>1, <1>2, <1>15, <1>16 DEF W, n, base, Op, WalkTrace

(* ChooseZoneWithHighestContrib does the same. *)
LEMMA HighestContribWalks ==
  ASSUME NEW b \in SUBSET Zone, NEW min, NEW V, 0 \in V, NEW contrib \in [Zone -> V]
  PROVE  ChooseZoneWithHighestContrib(b, min, contrib) \in Walks(b, min, V)
  <1>. DEFINE W == Walks(b, min, V)
              n == NrZones
              base == Start(b, 0)
              Op(w, x) == Visit(w, x, min, contrib[x], contrib[x] > w.score)
              Body(g) == [s \in SUBSET (DOMAIN io_zones) |->
                            IF s = {} THEN base
                            ELSE Op(g[s \ {Max(s)}], io_zones[Max(s)])]
              it == CHOOSE g : g = Body(g)
              F == [p \in W \X (1..n) |-> Op(p[1], io_zones[p[2]])]
  <1>1. ChooseZoneWithHighestContrib(b, min, contrib) = it[DOMAIN io_zones]
    BY DEF ChooseZoneWithHighestContrib, FoldLeft, MapThenFoldSet
  <1>2. n \in Nat /\ DOMAIN io_zones = 1..n
    BY PlacementAssumption DEF io_zones, Zone
  <1>3. ASSUME NEW w \in W, NEW i \in 1..n PROVE Op(w, io_zones[i]) \in W
    BY PlacementAssumption, VisitWalks DEF io_zones, Zone
  <1>4. base \in W
    BY StartWalks
  <1>. HIDE DEF W, n, base, Op
  <1>5. F \in [W \X (1..n) -> W]
    BY <1>3
  <1>6. ASSUME NEW w \in W, NEW i \in 1..n PROVE F[<<w, i>>] = Op(w, io_zones[i])
    OBVIOUS
  <1>. HIDE DEF F
  <1>7. PICK g : IsFold(g, n, W, base, F)
    BY <1>2, <1>4, <1>5, FoldExists
  <1>8. ASSUME NEW s \in SUBSET (1..n), s # {}, NEW v, v[s \ {Max(s)}] \in W
        PROVE  F[<<v[s \ {Max(s)}], Max(s)>>] = Op(v[s \ {Max(s)}], io_zones[Max(s)])
    <2>1. Max(s) \in 1..n
      BY <1>2, <1>8, MaxUpto
    <2>. QED BY <2>1, <1>6, <1>8
  <1>9. g = Body(g)
    <2>1. g \in [SUBSET (1..n) -> W] /\ g[{}] = base
      BY <1>7 DEF IsFold
    <2>2. ASSUME NEW s \in SUBSET (1..n), s # {}
          PROVE  g[s] = Op(g[s \ {Max(s)}], io_zones[Max(s)])
      <3>1. g[s \ {Max(s)}] \in W
        BY <2>1
      <3>2. g[s] = F[<<g[s \ {Max(s)}], Max(s)>>]
        BY <1>7, <2>2 DEF IsFold
      <3>. QED BY <2>2, <3>1, <3>2, <1>8
    <2>. QED BY <1>2, <2>1, <2>2
  <1>10. it = Body(it)
    <2>. HIDE DEF Body
    <2>. QED BY <1>9
  <1>. HIDE DEF it
  <1>11. it[{}] = base
    BY <1>2, <1>10
  <1>12. ASSUME NEW s \in SUBSET (1..n), s # {} /\ it[s \ {Max(s)}] \in W
         PROVE  it[s] = F[<<it[s \ {Max(s)}], Max(s)>>]
    <2>1. it[s] = Op(it[s \ {Max(s)}], io_zones[Max(s)])
      BY <1>2, <1>10, <1>12
    <2>. QED BY <2>1, <1>12, <1>8
  <1>13. FoldsIn(it, n, W, base, F)
    BY <1>11, <1>12 DEF FoldsIn
  <1>14. PICK h : IsTrace(h, n, W, base, F, it[1..n])
    BY <1>2, <1>4, <1>5, <1>13, FoldTrace
  <1>15. h \in [0..n -> W] /\ h[0] = base /\ h[n] = it[1..n]
    BY <1>14 DEF IsTrace
  <1>16. it[1..n] \in W
    BY <1>2, <1>15
  <1>. QED BY <1>1, <1>2, <1>16 DEF W

(* So does the walk over the zones of a list of extents. *)
LEMMA LongestExtentWalks ==
  ASSUME NEW b \in SUBSET Zone, NEW min, NEW walk \in Walks(b, min, Nat), NEW exts \in Seq(ExtentSet)
  PROVE  LongestExtent(walk, min, exts) \in Walks(b, min, Nat)
  <1>. DEFINE W == Walks(b, min, Nat)
              n == Len(exts)
              base == walk
              Op(w, x) == Visit(w, x.zone, min, x.len, x.len > w.score)
              Body(g) == [s \in SUBSET (DOMAIN exts) |->
                            IF s = {} THEN base
                            ELSE Op(g[s \ {Max(s)}], exts[Max(s)])]
              it == CHOOSE g : g = Body(g)
              F == [p \in W \X (1..n) |-> Op(p[1], exts[p[2]])]
  <1>1. LongestExtent(walk, min, exts) = it[DOMAIN exts]
    BY DEF LongestExtent, FoldLeft, MapThenFoldSet
  <1>2. n \in Nat /\ DOMAIN exts = 1..n
    OBVIOUS
  <1>3. ASSUME NEW w \in W, NEW i \in 1..n PROVE Op(w, exts[i]) \in W
    <2>1. exts[i] \in ExtentSet
      OBVIOUS
    <2>2. exts[i].zone \in Zone /\ exts[i].len \in Nat
      BY <2>1, PlacementAssumption DEF ExtentSet
    <2>. QED BY <2>2, VisitWalks
  <1>4. base \in W
    OBVIOUS
  <1>. HIDE DEF W, n, base, Op
  <1>5. F \in [W \X (1..n) -> W]
    BY <1>3
  <1>6. ASSUME NEW w \in W, NEW i \in 1..n PROVE F[<<w, i>>] = Op(w, exts[i])
    OBVIOUS
  <1>. HIDE DEF F
  <1>7. PICK g : IsFold(g, n, W, base, F)
    BY <1>2, <1>4, <1>5, FoldExists
  <1>8. ASSUME NEW s \in SUBSET (1..n), s # {}, NEW v, v[s \ {Max(s)}] \in W
        PROVE  F[<<v[s \ {Max(s)}], Max(s)>>] = Op(v[s \ {Max(s)}], exts[Max(s)])
    <2>1. Max(s) \in 1..n
      BY <1>2, <1>8, MaxUpto
    <2>. QED BY <2>1, <1>6, <1>8
  <1>9. g = Body(g)
    <2>1. g \in [SUBSET (1..n) -> W] /\ g[{}] = base
      BY <1>7 DEF IsFold
    <2>2. ASSUME NEW s \in SUBSET (1..n), s # {}
          PROVE  g[s] = Op(g[s \ {Max(s)}], exts[Max(s)])
      <3>1. g[s \ {Max(s)}] \in W
        BY <2>1
      <3>2. g[s] = F[<<g[s \ {Max(s)}], Max(s)>>]
        BY <1>7, <2>2 DEF IsFold
      <3>. QED BY <2>2, <3>1, <3>2, <1>8
    <2>. QED BY <1>2, <2>1, <2>2
  <1>10. it = Body(it)
    <2>. HIDE DEF Body
    <2>. QED BY <1>9
  <1>. HIDE DEF it
  <1>11. it[{}] = base
    BY <1>2, <1>10
  <1>12. ASSUME NEW s \in SUBSET (1..n), s # {} /\ it[s \ {Max(s)}] \in W
         PROVE  it[s] = F[<<it[s \ {Max(s)}], Max(s)>>]
    <2>1. it[s] = Op(it[s \ {Max(s)}], exts[Max(s)])
      BY <1>2, <1>10, <1>12
    <2>. QED BY <2>1, <1>12, <1>8
  <1>13. FoldsIn(it, n, W, base, F)
    BY <1>11, <1>12 DEF FoldsIn
  <1>14. PICK h : IsTrace(h, n, W, base, F, it[1..n])
    BY <1>2, <1>4, <1>5, <1>13, FoldTrace
  <1>15. h \in [0..n -> W] /\ h[0] = base /\ h[n] = it[1..n]
    BY <1>14 DEF IsTrace
  <1>16. it[1..n] \in W
    BY <1>2, <1>15
  <1>. QED BY <1>1, <1>2, <1>16 DEF W

LEMMA LeastDiffWalks ==
  ASSUME NEW b \in SUBSET Zone, NEW min, NEW V, NotGood \in V, NEW score \in [Zone -> V]
  PROVE  LeastDiff(b, min, score) \in Walks(b, min, V)
  <1>1. PICK h : WalkTrace(h, b, min, V, score)
    BY LeastDiffSteps
  <1>. QED BY <1>1, PlacementAssumption DEF WalkTrace

LEMMA ExtentsAtIsSeq ==
  ASSUME NEW files \in Seq(File), NEW i \in Int, extents \in [File -> Seq(ExtentSet)]
  PROVE  ExtentsAt(files, i) \in Seq(ExtentSet)
  <1>1. CASE i \in DOMAIN files
    <2>1. files[i] \in File BY <1>1
    <2>. QED BY <1>1, <2>1 DEF ExtentsAt
  <1>2. CASE i \notin DOMAIN files
    BY <1>2 DEF ExtentsAt
  <1>. QED BY <1>1, <1>2

(* An element inserted at a place of a sequence. *)
LEMMA InsertAtProperties ==
  ASSUME NEW S, NEW s \in Seq(S), NEW e \in S, NEW i \in 1..(Len(s) + 1)
  PROVE  InsertAt(s, i, e) \in Seq(S)
  <1>1. SubSeq(s, 1, i - 1) \in Seq(S)
    <2>1. \A j \in 1..(i - 1) : s[j] \in S OBVIOUS
    <2>. QED BY <2>1, SubSeqProperties
  <1>2. SubSeq(s, i, Len(s)) \in Seq(S)
    <2>1. \A j \in i..Len(s) : s[j] \in S OBVIOUS
    <2>. QED BY <2>1, SubSeqProperties
  <1>3. <<e>> \in Seq(S) OBVIOUS
  <1>4. SubSeq(s, 1, i - 1) \o <<e>> \in Seq(S) BY <1>1, <1>3, ConcatProperties
  <1>5. (SubSeq(s, 1, i - 1) \o <<e>>) \o SubSeq(s, i, Len(s)) \in Seq(S)
    BY <1>2, <1>4, ConcatProperties
  <1>. QED BY <1>5 DEF InsertAt

(* SelectInSeq returns a place or 0: the least of a set of places. *)
LEMMA LeastPlace ==
  ASSUME NEW n \in Nat, NEW I \in SUBSET (1..n)
  PROVE  (IF I # {} THEN Min(I) ELSE 0) \in 0..n
  <1>1. CASE I # {}
    <2>1. Min(I) \in I BY <1>1, MinOf
    <2>2. Min(I) \in 1..n BY <2>1
    <2>. QED BY <1>1, <2>2
  <1>. QED BY <1>1

\* A sorted insertion keeps what the sequence holds.
LEMMA InsertByRankIsSeq ==
  ASSUME NEW S, NEW s \in Seq(S), NEW e \in S
  PROVE  InsertByRank(s, e) \in Seq(S)
  <1>. DEFINE I == {i \in 1..Len(s) : s[i].rank > e.rank}
              at == IF I # {} THEN Min(I) ELSE 0
  <1>1. InsertByRank(s, e) = InsertAt(s, IF at = 0 THEN Len(s) + 1 ELSE at, e)
    BY DEF InsertByRank, SelectInSeq
  <1>2. at \in 0..Len(s)
    <2>1. I \in SUBSET (1..Len(s)) /\ Len(s) \in Nat OBVIOUS
    <2>. HIDE DEF I
    <2>. QED BY <2>1, LeastPlace
  <1>. HIDE DEF at
  <1>3. (IF at = 0 THEN Len(s) + 1 ELSE at) \in 1..(Len(s) + 1)
    BY <1>2
  <1>. QED BY <1>1, <1>3, InsertAtProperties

(* A list without a file is a list. *)
LEMMA WithoutIsSeq ==
  ASSUME NEW files \in Seq(File), NEW f
  PROVE  Without(files, f) \in Seq(File)
  <1>. DEFINE W == Seq(File)
              n == Len(files)
              base == <<>>
              Op(w, x) == IF x = f THEN w ELSE Append(w, x)
              Body(g) == [s \in SUBSET (DOMAIN files) |->
                            IF s = {} THEN base
                            ELSE Op(g[s \ {Max(s)}], files[Max(s)])]
              it == CHOOSE g : g = Body(g)
              F == [p \in W \X (1..n) |-> Op(p[1], files[p[2]])]
  <1>1. Without(files, f) = it[DOMAIN files]
    BY DEF Without, FoldLeft, MapThenFoldSet
  <1>2. n \in Nat /\ DOMAIN files = 1..n
    OBVIOUS
  <1>3. ASSUME NEW w \in W, NEW i \in 1..n PROVE Op(w, files[i]) \in W
    <2>1. files[i] \in File
      OBVIOUS
    <2>. QED BY <2>1
  <1>4. base \in W
    OBVIOUS
  <1>. HIDE DEF W, n, base, Op
  <1>5. F \in [W \X (1..n) -> W]
    BY <1>3
  <1>6. ASSUME NEW w \in W, NEW i \in 1..n PROVE F[<<w, i>>] = Op(w, files[i])
    OBVIOUS
  <1>. HIDE DEF F
  <1>7. PICK g : IsFold(g, n, W, base, F)
    BY <1>2, <1>4, <1>5, FoldExists
  <1>8. ASSUME NEW s \in SUBSET (1..n), s # {}, NEW v, v[s \ {Max(s)}] \in W
        PROVE  F[<<v[s \ {Max(s)}], Max(s)>>] = Op(v[s \ {Max(s)}], files[Max(s)])
    <2>1. Max(s) \in 1..n
      BY <1>2, <1>8, MaxUpto
    <2>. QED BY <2>1, <1>6, <1>8
  <1>9. g = Body(g)
    <2>1. g \in [SUBSET (1..n) -> W] /\ g[{}] = base
      BY <1>7 DEF IsFold
    <2>2. ASSUME NEW s \in SUBSET (1..n), s # {}
          PROVE  g[s] = Op(g[s \ {Max(s)}], files[Max(s)])
      <3>1. g[s \ {Max(s)}] \in W
        BY <2>1
      <3>2. g[s] = F[<<g[s \ {Max(s)}], Max(s)>>]
        BY <1>7, <2>2 DEF IsFold
      <3>. QED BY <2>2, <3>1, <3>2, <1>8
    <2>. QED BY <1>2, <2>1, <2>2
  <1>10. it = Body(it)
    <2>. HIDE DEF Body
    <2>. QED BY <1>9
  <1>. HIDE DEF it
  <1>11. it[{}] = base
    BY <1>2, <1>10
  <1>12. ASSUME NEW s \in SUBSET (1..n), s # {} /\ it[s \ {Max(s)}] \in W
         PROVE  it[s] = F[<<it[s \ {Max(s)}], Max(s)>>]
    <2>1. it[s] = Op(it[s \ {Max(s)}], files[Max(s)])
      BY <1>2, <1>10, <1>12
    <2>. QED BY <2>1, <1>12, <1>8
  <1>13. FoldsIn(it, n, W, base, F)
    BY <1>11, <1>12 DEF FoldsIn
  <1>14. PICK h : IsTrace(h, n, W, base, F, it[1..n])
    BY <1>2, <1>4, <1>5, <1>13, FoldTrace
  <1>15. h \in [0..n -> W] /\ h[0] = base /\ h[n] = it[1..n]
    BY <1>14 DEF IsTrace
  <1>16. it[1..n] \in W
    BY <1>2, <1>15
  <1>. QED BY <1>1, <1>2, <1>16 DEF W

(* A ranking holds files. *)
LEMMA RankedIsSeq ==
  ASSUME NEW files \in Seq(File), NEW R, NEW rank, \A g \in ToSet(files) : rank[g] \in R
  PROVE  Ranked(files, rank) \in Seq([file : File, rank : R])
  <1>. DEFINE W == Seq([file : File, rank : R])
              n == Len(files)
              base == <<>>
              Op(w, x) == InsertByRank(w, [file |-> x, rank |-> rank[x]])
              Body(g) == [s \in SUBSET (DOMAIN files) |->
                            IF s = {} THEN base
                            ELSE Op(g[s \ {Max(s)}], files[Max(s)])]
              it == CHOOSE g : g = Body(g)
              F == [p \in W \X (1..n) |-> Op(p[1], files[p[2]])]
  <1>1. Ranked(files, rank) = it[DOMAIN files]
    BY DEF Ranked, FoldLeft, MapThenFoldSet
  <1>2. n \in Nat /\ DOMAIN files = 1..n
    OBVIOUS
  <1>3. ASSUME NEW w \in W, NEW i \in 1..n PROVE Op(w, files[i]) \in W
    <2>1. files[i] \in File /\ files[i] \in ToSet(files)
      BY DEF ToSet
    <2>2. [file |-> files[i], rank |-> rank[files[i]]] \in [file : File, rank : R]
      BY <2>1
    <2>. QED BY <2>2, InsertByRankIsSeq
  <1>4. base \in W
    OBVIOUS
  <1>. HIDE DEF W, n, base, Op
  <1>5. F \in [W \X (1..n) -> W]
    BY <1>3
  <1>6. ASSUME NEW w \in W, NEW i \in 1..n PROVE F[<<w, i>>] = Op(w, files[i])
    OBVIOUS
  <1>. HIDE DEF F
  <1>7. PICK g : IsFold(g, n, W, base, F)
    BY <1>2, <1>4, <1>5, FoldExists
  <1>8. ASSUME NEW s \in SUBSET (1..n), s # {}, NEW v, v[s \ {Max(s)}] \in W
        PROVE  F[<<v[s \ {Max(s)}], Max(s)>>] = Op(v[s \ {Max(s)}], files[Max(s)])
    <2>1. Max(s) \in 1..n
      BY <1>2, <1>8, MaxUpto
    <2>. QED BY <2>1, <1>6, <1>8
  <1>9. g = Body(g)
    <2>1. g \in [SUBSET (1..n) -> W] /\ g[{}] = base
      BY <1>7 DEF IsFold
    <2>2. ASSUME NEW s \in SUBSET (1..n), s # {}
          PROVE  g[s] = Op(g[s \ {Max(s)}], files[Max(s)])
      <3>1. g[s \ {Max(s)}] \in W
        BY <2>1
      <3>2. g[s] = F[<<g[s \ {Max(s)}], Max(s)>>]
        BY <1>7, <2>2 DEF IsFold
      <3>. QED BY <2>2, <3>1, <3>2, <1>8
    <2>. QED BY <1>2, <2>1, <2>2
  <1>10. it = Body(it)
    <2>. HIDE DEF Body
    <2>. QED BY <1>9
  <1>. HIDE DEF it
  <1>11. it[{}] = base
    BY <1>2, <1>10
  <1>12. ASSUME NEW s \in SUBSET (1..n), s # {} /\ it[s \ {Max(s)}] \in W
         PROVE  it[s] = F[<<it[s \ {Max(s)}], Max(s)>>]
    <2>1. it[s] = Op(it[s \ {Max(s)}], files[Max(s)])
      BY <1>2, <1>10, <1>12
    <2>. QED BY <2>1, <1>12, <1>8
  <1>13. FoldsIn(it, n, W, base, F)
    BY <1>11, <1>12 DEF FoldsIn
  <1>14. PICK h : IsTrace(h, n, W, base, F, it[1..n])
    BY <1>2, <1>4, <1>5, <1>13, FoldTrace
  <1>15. h \in [0..n -> W] /\ h[0] = base /\ h[n] = it[1..n]
    BY <1>14 DEF IsTrace
  <1>16. it[1..n] \in W
    BY <1>2, <1>15
  <1>. QED BY <1>1, <1>2, <1>16 DEF W

(* The rings around a file. *)
LEMMA ClosestFileWalks ==
  ASSUME NEW b \in SUBSET Zone, NEW min, NEW files \in Seq(File), NEW at \in Int,
         extents \in [File -> Seq(ExtentSet)]
  PROVE  ChooseZoneWithClosestFile(b, min, files, at) \in Walks(b, min, Nat)
  <1>. DEFINE W == Walks(b, min, Nat)
              n == Len(files)
              base == Start(b, 0)
              Op(w, x) == IF w.zone # None THEN w
                           ELSE LongestExtent(w, min, ExtentsAt(files, at - x) \o
                                                      ExtentsAt(files, at + x))
              Body(g) == [s \in SUBSET (DOMAIN [d \in DOMAIN files |-> d]) |->
                            IF s = {} THEN base
                            ELSE Op(g[s \ {Max(s)}], [d \in DOMAIN files |-> d][Max(s)])]
              it == CHOOSE g : g = Body(g)
              F == [p \in W \X (1..n) |-> Op(p[1], [d \in DOMAIN files |-> d][p[2]])]
  <1>1. ChooseZoneWithClosestFile(b, min, files, at) = it[DOMAIN [d \in DOMAIN files |-> d]]
    BY DEF ChooseZoneWithClosestFile, FoldLeft, MapThenFoldSet
  <1>2. n \in Nat /\ DOMAIN [d \in DOMAIN files |-> d] = 1..n
    OBVIOUS
  <1>3. ASSUME NEW w \in W, NEW i \in 1..n PROVE Op(w, [d \in DOMAIN files |-> d][i]) \in W
    <2>1. /\ ExtentsAt(files, at - i) \in Seq(ExtentSet)
          /\ ExtentsAt(files, at + i) \in Seq(ExtentSet)
      BY ExtentsAtIsSeq
    <2>2. ExtentsAt(files, at - i) \o ExtentsAt(files, at + i) \in Seq(ExtentSet)
      BY <2>1, ConcatProperties
    <2>3. LongestExtent(w, min, ExtentsAt(files, at - i) \o ExtentsAt(files, at + i))
             \in Walks(b, min, Nat)
      BY <2>2, LongestExtentWalks
    <2>4. [d \in DOMAIN files |-> d][i] = i
      OBVIOUS
    <2>. QED BY <2>3, <2>4
  <1>4. base \in W
    BY StartWalks
  <1>. HIDE DEF W, n, base, Op
  <1>5. F \in [W \X (1..n) -> W]
    BY <1>3
  <1>6. ASSUME NEW w \in W, NEW i \in 1..n PROVE F[<<w, i>>] = Op(w, [d \in DOMAIN files |-> d][i])
    OBVIOUS
  <1>. HIDE DEF F
  <1>7. PICK g : IsFold(g, n, W, base, F)
    BY <1>2, <1>4, <1>5, FoldExists
  <1>8. ASSUME NEW s \in SUBSET (1..n), s # {}, NEW v, v[s \ {Max(s)}] \in W
        PROVE  F[<<v[s \ {Max(s)}], Max(s)>>] = Op(v[s \ {Max(s)}], [d \in DOMAIN files |-> d][Max(s)])
    <2>1. Max(s) \in 1..n
      BY <1>2, <1>8, MaxUpto
    <2>. QED BY <2>1, <1>6, <1>8
  <1>9. g = Body(g)
    <2>1. g \in [SUBSET (1..n) -> W] /\ g[{}] = base
      BY <1>7 DEF IsFold
    <2>2. ASSUME NEW s \in SUBSET (1..n), s # {}
          PROVE  g[s] = Op(g[s \ {Max(s)}], [d \in DOMAIN files |-> d][Max(s)])
      <3>1. g[s \ {Max(s)}] \in W
        BY <2>1
      <3>2. g[s] = F[<<g[s \ {Max(s)}], Max(s)>>]
        BY <1>7, <2>2 DEF IsFold
      <3>. QED BY <2>2, <3>1, <3>2, <1>8
    <2>. QED BY <1>2, <2>1, <2>2
  <1>10. it = Body(it)
    <2>. HIDE DEF Body
    <2>. QED BY <1>9
  <1>. HIDE DEF it
  <1>11. it[{}] = base
    BY <1>2, <1>10
  <1>12. ASSUME NEW s \in SUBSET (1..n), s # {} /\ it[s \ {Max(s)}] \in W
         PROVE  it[s] = F[<<it[s \ {Max(s)}], Max(s)>>]
    <2>1. it[s] = Op(it[s \ {Max(s)}], [d \in DOMAIN files |-> d][Max(s)])
      BY <1>2, <1>10, <1>12
    <2>. QED BY <2>1, <1>12, <1>8
  <1>13. FoldsIn(it, n, W, base, F)
    BY <1>11, <1>12 DEF FoldsIn
  <1>14. PICK h : IsTrace(h, n, W, base, F, it[1..n])
    BY <1>2, <1>4, <1>5, <1>13, FoldTrace
  <1>15. h \in [0..n -> W] /\ h[0] = base /\ h[n] = it[1..n]
    BY <1>14 DEF IsTrace
  <1>16. it[1..n] \in W
    BY <1>2, <1>15
  <1>. QED BY <1>1, <1>2, <1>16 DEF W

(* One file at a time, the closer in rank first. *)
LEMMA ClosestRankWalks ==
  ASSUME NEW b \in SUBSET Zone, NEW min, NEW R, NEW ranking \in Seq([file : File, rank : R]),
         NEW at \in 0..Len(ranking), extents \in [File -> Seq(ExtentSet)]
  PROVE  ChooseZoneWithClosestRank(b, min, ranking, at) \in Walks(b, min, Nat)
  <1>. DEFINE W == [walk : Walks(b, min, Nat), prev : -1..Len(ranking), next : 1..(Len(ranking) + 1)]
              n == Len(ranking)
              base == [walk |-> Start(b, 0), prev |-> at - 1, next |-> at + 1]
              Op(w, x) == IF w.walk.zone # None \/ w.prev <= 1 \/ w.next > Len(ranking) THEN w
                          ELSE LET down == ranking[at].rank - ranking[w.prev].rank
                                   up == ranking[w.next].rank - ranking[at].rank
                                   g == IF down < up THEN w.prev ELSE w.next
                               IN  [walk |-> LongestExtent(w.walk, min,
                                                           extents[ranking[g].file]),
                                    prev |-> IF g = w.prev THEN w.prev - 1 ELSE w.prev,
                                    next |-> IF g = w.next THEN w.next + 1 ELSE w.next]
              Body(g) == [s \in SUBSET (DOMAIN ranking) |->
                            IF s = {} THEN base
                            ELSE Op(g[s \ {Max(s)}], ranking[Max(s)])]
              it == CHOOSE g : g = Body(g)
              F == [p \in W \X (1..n) |-> Op(p[1], ranking[p[2]])]
  <1>1. ChooseZoneWithClosestRank(b, min, ranking, at) = it[DOMAIN ranking].walk
    BY DEF ChooseZoneWithClosestRank, FoldLeft, MapThenFoldSet
  <1>2. n \in Nat /\ DOMAIN ranking = 1..n
    OBVIOUS
  <1>3. ASSUME NEW w \in W, NEW i \in 1..n PROVE Op(w, ranking[i]) \in W
    <2>1. CASE w.walk.zone # None \/ w.prev <= 1 \/ w.next > Len(ranking)
      BY <2>1
    <2>2. CASE ~(w.walk.zone # None \/ w.prev <= 1 \/ w.next > Len(ranking))
      <3>. DEFINE down == ranking[at].rank - ranking[w.prev].rank
                  up == ranking[w.next].rank - ranking[at].rank
                  c == IF down < up THEN w.prev ELSE w.next
                  r == [walk |-> LongestExtent(w.walk, min, extents[ranking[c].file]),
                        prev |-> IF c = w.prev THEN w.prev - 1 ELSE w.prev,
                        next |-> IF c = w.next THEN w.next + 1 ELSE w.next]
      <3>1. c \in 1..Len(ranking)
        BY <2>2
      <3>2. Op(w, ranking[i]) = r
        BY <2>2
      <3>. HIDE DEF c
      <3>3. extents[ranking[c].file] \in Seq(ExtentSet)
        <4>1. ranking[c] \in [file : File, rank : R] BY <3>1, ElementOfSeq
        <4>2. ranking[c].file \in File BY <4>1
        <4>. QED BY <4>2
      <3>4. LongestExtent(w.walk, min, extents[ranking[c].file]) \in Walks(b, min, Nat)
        BY <3>3, LongestExtentWalks
      <3>5. r \in W
        BY <2>2, <3>1, <3>4, SMTT(40)
      <3>. QED BY <3>2, <3>5
    <2>. QED BY <2>1, <2>2
  <1>4. base \in W
    <2>1. Start(b, 0) \in Walks(b, min, Nat) BY StartWalks
    <2>. QED BY <2>1
  <1>. HIDE DEF W, n, base, Op
  <1>5. F \in [W \X (1..n) -> W]
    BY <1>3
  <1>6. ASSUME NEW w \in W, NEW i \in 1..n PROVE F[<<w, i>>] = Op(w, ranking[i])
    OBVIOUS
  <1>. HIDE DEF F
  <1>7. PICK g : IsFold(g, n, W, base, F)
    BY <1>2, <1>4, <1>5, FoldExists
  <1>8. ASSUME NEW s \in SUBSET (1..n), s # {}, NEW v, v[s \ {Max(s)}] \in W
        PROVE  F[<<v[s \ {Max(s)}], Max(s)>>] = Op(v[s \ {Max(s)}], ranking[Max(s)])
    <2>1. Max(s) \in 1..n
      BY <1>2, <1>8, MaxUpto
    <2>. QED BY <2>1, <1>6, <1>8
  <1>9. g = Body(g)
    <2>1. g \in [SUBSET (1..n) -> W] /\ g[{}] = base
      BY <1>7 DEF IsFold
    <2>2. ASSUME NEW s \in SUBSET (1..n), s # {}
          PROVE  g[s] = Op(g[s \ {Max(s)}], ranking[Max(s)])
      <3>1. g[s \ {Max(s)}] \in W
        BY <2>1
      <3>2. g[s] = F[<<g[s \ {Max(s)}], Max(s)>>]
        BY <1>7, <2>2 DEF IsFold
      <3>. QED BY <2>2, <3>1, <3>2, <1>8
    <2>. QED BY <1>2, <2>1, <2>2
  <1>10. it = Body(it)
    <2>. HIDE DEF Body
    <2>. QED BY <1>9
  <1>. HIDE DEF it
  <1>11. it[{}] = base
    BY <1>2, <1>10
  <1>12. ASSUME NEW s \in SUBSET (1..n), s # {} /\ it[s \ {Max(s)}] \in W
         PROVE  it[s] = F[<<it[s \ {Max(s)}], Max(s)>>]
    <2>1. it[s] = Op(it[s \ {Max(s)}], ranking[Max(s)])
      BY <1>2, <1>10, <1>12
    <2>. QED BY <2>1, <1>12, <1>8
  <1>13. FoldsIn(it, n, W, base, F)
    BY <1>11, <1>12 DEF FoldsIn
  <1>14. PICK h : IsTrace(h, n, W, base, F, it[1..n])
    BY <1>2, <1>4, <1>5, <1>13, FoldTrace
  <1>15. h \in [0..n -> W] /\ h[0] = base /\ h[n] = it[1..n]
    BY <1>14 DEF IsTrace
  <1>16. it[1..n] \in W
    BY <1>2, <1>15
  <1>. QED BY <1>1, <1>2, <1>16 DEF W

(* AllocateEmptyZoneLeastWear keeps an idle empty zone or none. *)
LEMMA LeastWearSteps ==
  ASSUME NEW b \in SUBSET Zone
  PROVE  \E h : LeastWearTrace(h, b)
  <1>. DEFINE W == IdleEmpty(b) \cup {None}
              n == NrZones
              base == None
              Op(w, x) == IF x \in IdleEmpty(b) /\ (w = None \/ ~(resets[w] < resets[x]))
                          THEN x ELSE w
              Body(g) == [s \in SUBSET (DOMAIN io_zones) |->
                            IF s = {} THEN base
                            ELSE Op(g[s \ {Max(s)}], io_zones[Max(s)])]
              it == CHOOSE g : g = Body(g)
              F == [p \in W \X (1..n) |-> Op(p[1], io_zones[p[2]])]
  <1>1. AllocateEmptyZoneLeastWear(b) = it[DOMAIN io_zones]
    BY DEF AllocateEmptyZoneLeastWear, FoldLeft, MapThenFoldSet
  <1>2. n \in Nat /\ DOMAIN io_zones = 1..n
    BY PlacementAssumption DEF io_zones, Zone
  <1>3. ASSUME NEW w \in W, NEW i \in 1..n PROVE Op(w, io_zones[i]) \in W
    OBVIOUS
  <1>4. base \in W
    OBVIOUS
  <1>. HIDE DEF W, n, base, Op
  <1>5. F \in [W \X (1..n) -> W]
    BY <1>3
  <1>6. ASSUME NEW w \in W, NEW i \in 1..n PROVE F[<<w, i>>] = Op(w, io_zones[i])
    OBVIOUS
  <1>. HIDE DEF F
  <1>7. PICK g : IsFold(g, n, W, base, F)
    BY <1>2, <1>4, <1>5, FoldExists
  <1>8. ASSUME NEW s \in SUBSET (1..n), s # {}, NEW v, v[s \ {Max(s)}] \in W
        PROVE  F[<<v[s \ {Max(s)}], Max(s)>>] = Op(v[s \ {Max(s)}], io_zones[Max(s)])
    <2>1. Max(s) \in 1..n
      BY <1>2, <1>8, MaxUpto
    <2>. QED BY <2>1, <1>6, <1>8
  <1>9. g = Body(g)
    <2>1. g \in [SUBSET (1..n) -> W] /\ g[{}] = base
      BY <1>7 DEF IsFold
    <2>2. ASSUME NEW s \in SUBSET (1..n), s # {}
          PROVE  g[s] = Op(g[s \ {Max(s)}], io_zones[Max(s)])
      <3>1. g[s \ {Max(s)}] \in W
        BY <2>1
      <3>2. g[s] = F[<<g[s \ {Max(s)}], Max(s)>>]
        BY <1>7, <2>2 DEF IsFold
      <3>. QED BY <2>2, <3>1, <3>2, <1>8
    <2>. QED BY <1>2, <2>1, <2>2
  <1>10. it = Body(it)
    <2>. HIDE DEF Body
    <2>. QED BY <1>9
  <1>. HIDE DEF it
  <1>11. it[{}] = base
    BY <1>2, <1>10
  <1>12. ASSUME NEW s \in SUBSET (1..n), s # {} /\ it[s \ {Max(s)}] \in W
         PROVE  it[s] = F[<<it[s \ {Max(s)}], Max(s)>>]
    <2>1. it[s] = Op(it[s \ {Max(s)}], io_zones[Max(s)])
      BY <1>2, <1>10, <1>12
    <2>. QED BY <2>1, <1>12, <1>8
  <1>13. FoldsIn(it, n, W, base, F)
    BY <1>11, <1>12 DEF FoldsIn
  <1>14. PICK h : IsTrace(h, n, W, base, F, it[1..n])
    BY <1>2, <1>4, <1>5, <1>13, FoldTrace
  <1>15. h \in [0..n -> W] /\ h[0] = base /\ h[n] = it[1..n]
    BY <1>14 DEF IsTrace
  <1>16. ASSUME NEW k \in 0..(n - 1) PROVE h[k + 1] = Op(h[k], io_zones[k + 1])
    <2>1. k \in 0..n /\ k + 1 \in 1..n
      BY <1>2
    <2>2. h[k] \in W
      BY <2>1, <1>15
    <2>3. h[k + 1] = F[<<h[k], k + 1>>]
      BY <1>14 DEF IsTrace
    <2>. QED BY <2>1, <2>2, <2>3, <1>6
  <1>. QED BY <1>1, <1>2, <1>15, <1>16 DEF W, n, base, Op, LeastWearTrace

(* The sort of io_zones by reset count, zone by zone. *)
LEMMA WearSteps ==
  ASSUME resets \in [Zone -> Nat]
  PROVE  \E h : WearTrace(h)
  <1>. DEFINE W == Seq([zone : Zone, rank : Nat])
              n == NrZones
              base == <<>>
              Op(w, x) == InsertByRank(w, [zone |-> x, rank |-> resets[x]])
              Body(g) == [s \in SUBSET (DOMAIN io_zones) |->
                            IF s = {} THEN base
                            ELSE Op(g[s \ {Max(s)}], io_zones[Max(s)])]
              it == CHOOSE g : g = Body(g)
              F == [p \in W \X (1..n) |-> Op(p[1], io_zones[p[2]])]
  <1>1. SortedByWear = it[DOMAIN io_zones]
    BY DEF SortedByWear, FoldLeft, MapThenFoldSet
  <1>2. n \in Nat /\ DOMAIN io_zones = 1..n
    BY PlacementAssumption DEF io_zones, Zone
  <1>3. ASSUME NEW w \in W, NEW i \in 1..n PROVE Op(w, io_zones[i]) \in W
    <2>1. i \in Zone /\ io_zones[i] = i
      BY DEF io_zones, Zone
    <2>2. [zone |-> i, rank |-> resets[i]] \in [zone : Zone, rank : Nat]
      BY <2>1
    <2>. QED BY <2>1, <2>2, InsertByRankIsSeq
  <1>4. base \in W
    OBVIOUS
  <1>. HIDE DEF W, n, base, Op
  <1>5. F \in [W \X (1..n) -> W]
    BY <1>3
  <1>6. ASSUME NEW w \in W, NEW i \in 1..n PROVE F[<<w, i>>] = Op(w, io_zones[i])
    OBVIOUS
  <1>. HIDE DEF F
  <1>7. PICK g : IsFold(g, n, W, base, F)
    BY <1>2, <1>4, <1>5, FoldExists
  <1>8. ASSUME NEW s \in SUBSET (1..n), s # {}, NEW v, v[s \ {Max(s)}] \in W
        PROVE  F[<<v[s \ {Max(s)}], Max(s)>>] = Op(v[s \ {Max(s)}], io_zones[Max(s)])
    <2>1. Max(s) \in 1..n
      BY <1>2, <1>8, MaxUpto
    <2>. QED BY <2>1, <1>6, <1>8
  <1>9. g = Body(g)
    <2>1. g \in [SUBSET (1..n) -> W] /\ g[{}] = base
      BY <1>7 DEF IsFold
    <2>2. ASSUME NEW s \in SUBSET (1..n), s # {}
          PROVE  g[s] = Op(g[s \ {Max(s)}], io_zones[Max(s)])
      <3>1. g[s \ {Max(s)}] \in W
        BY <2>1
      <3>2. g[s] = F[<<g[s \ {Max(s)}], Max(s)>>]
        BY <1>7, <2>2 DEF IsFold
      <3>. QED BY <2>2, <3>1, <3>2, <1>8
    <2>. QED BY <1>2, <2>1, <2>2
  <1>10. it = Body(it)
    <2>. HIDE DEF Body
    <2>. QED BY <1>9
  <1>. HIDE DEF it
  <1>11. it[{}] = base
    BY <1>2, <1>10
  <1>12. ASSUME NEW s \in SUBSET (1..n), s # {} /\ it[s \ {Max(s)}] \in W
         PROVE  it[s] = F[<<it[s \ {Max(s)}], Max(s)>>]
    <2>1. it[s] = Op(it[s \ {Max(s)}], io_zones[Max(s)])
      BY <1>2, <1>10, <1>12
    <2>. QED BY <2>1, <1>12, <1>8
  <1>13. FoldsIn(it, n, W, base, F)
    BY <1>11, <1>12 DEF FoldsIn
  <1>14. PICK h : IsTrace(h, n, W, base, F, it[1..n])
    BY <1>2, <1>4, <1>5, <1>13, FoldTrace
  <1>15. h \in [0..n -> W] /\ h[0] = base /\ h[n] = it[1..n]
    BY <1>14 DEF IsTrace
  <1>16. ASSUME NEW k \in 0..(n - 1) PROVE h[k + 1] = Op(h[k], io_zones[k + 1])
    <2>1. k \in 0..n /\ k + 1 \in 1..n
      BY <1>2
    <2>2. h[k] \in W
      BY <2>1, <1>15
    <2>3. h[k + 1] = F[<<h[k], k + 1>>]
      BY <1>14 DEF IsTrace
    <2>. QED BY <2>1, <2>2, <2>3, <1>6
  <1>. QED BY <1>1, <1>2, <1>15, <1>16 DEF W, n, base, Op, WearTrace

-----------------------------------------------------------------------------
(* Level-wise records. *)

LEMMA MaxTwo ==
  ASSUME NEW a \in Int, NEW c \in Int
  PROVE  /\ Max({a, c}) \in {a, c} /\ Max({a, c}) >= a /\ Max({a, c}) >= c
         /\ Max({a, c}) \in Int
  <1>1. CASE a >= c
    <2>1. Max({a, c}) = a BY <1>1, MaxOf
    <2>. QED BY <1>1, <2>1
  <1>2. CASE c > a
    <2>1. Max({a, c}) = c BY <1>2, MaxOf
    <2>. QED BY <1>2, <2>1
  <1>. QED BY <1>1, <1>2

LEMMA MinTwo ==
  ASSUME NEW a \in Int, NEW c \in Int
  PROVE  /\ Min({a, c}) \in {a, c} /\ Min({a, c}) <= a /\ Min({a, c}) <= c
         /\ Min({a, c}) \in Int
  <1>1. \E x \in {a, c} : \A y \in {a, c} : x <= y
    OBVIOUS
  <1>2. Min({a, c}) \in {a, c} /\ \A y \in {a, c} : Min({a, c}) <= y
    BY <1>1 DEF Min
  <1>. QED BY <1>2

LEMMA FilesOfIsSeq ==
  ASSUME NEW ls \in Seq(Seq(File)), NEW l \in Int
  PROVE  FilesOf(ls, l) \in Seq(File)
  <1>1. CASE Listed(ls, l)
    <2>1. l + 1 \in 1..Len(ls) BY <1>1 DEF Listed
    <2>2. ls[l + 1] \in Seq(File) BY <2>1, ElementOfSeq
    <2>. QED BY <1>1, <2>2 DEF FilesOf
  <1>2. CASE ~Listed(ls, l) BY <1>2 DEF FilesOf
  <1>. QED BY <1>1, <1>2

LEMMA FunIsSeq ==
  ASSUME NEW S, NEW n \in Nat, NEW s \in [1..n -> S]
  PROVE  s \in Seq(S)
  OBVIOUS

LEMMA RemoveRecordIsSeq ==
  ASSUME NEW ls \in Seq(Seq(File)), NEW f
  PROVE  RemoveZoneFileRecord(ls, f) \in Seq(Seq(File))
  <1>1. \A i \in 1..Len(ls) : Without(ls[i], f) \in Seq(File)
    BY WithoutIsSeq
  <1>2. RemoveZoneFileRecord(ls, f) \in [1..Len(ls) -> Seq(File)]
    BY <1>1 DEF RemoveZoneFileRecord
  <1>3. Len(ls) \in Nat
    OBVIOUS
  <1>. QED BY <1>2, <1>3, FunIsSeq

LEMMA AddRecordIsSeq ==
  ASSUME NEW ls \in Seq(Seq(File)), NEW f \in File, NEW l \in Int
  PROVE  AddZoneFileRecord(ls, f, l) \in Seq(Seq(File))
  <1>1. CASE ~lsm[f].keys \/ l < 0
    BY <1>1 DEF AddZoneFileRecord
  <1>2. CASE lsm[f].keys /\ ~(l < 0)
    <2>. DEFINE n == Max({Len(ls), l + 1})
                grown == [i \in 1..n |-> IF i <= Len(ls) THEN ls[i] ELSE <<>>]
                files == grown[l + 1]
                I == {i \in 1..Len(files) : IsLarger(f, files[i])}
                at == IF I # {} THEN Min(I) ELSE 0
                j == IF at = 0 THEN Len(files) + 1 ELSE at
    <2>1. AddZoneFileRecord(ls, f, l) = [grown EXCEPT ![l + 1] = InsertAt(files, j, f)]
      BY <1>2 DEF AddZoneFileRecord, SelectInSeq
    <2>2. n \in Nat /\ l + 1 \in 1..n
      <3>1. Len(ls) \in Int /\ l + 1 \in Int OBVIOUS
      <3>2. n >= l + 1 /\ n \in Int BY <3>1, MaxTwo
      <3>. QED BY <1>2, <3>2
    <2>. HIDE DEF n
    <2>3. grown \in Seq(Seq(File))
      <3>1. \A i \in 1..n : (IF i <= Len(ls) THEN ls[i] ELSE <<>>) \in Seq(File)
        OBVIOUS
      <3>2. grown \in [1..n -> Seq(File)] BY <3>1
      <3>. QED BY <3>2, <2>2
    <2>4. Len(grown) = n /\ DOMAIN grown = 1..n
      BY <2>2
    <2>. HIDE DEF grown
    <2>5. files \in Seq(File)
      BY <2>2, <2>3, <2>4, ElementOfSeq
    <2>. HIDE DEF files
    <2>6. I \in SUBSET (1..Len(files)) /\ Len(files) \in Nat
      BY <2>5
    <2>. HIDE DEF I
    <2>7. at \in 0..Len(files)
      BY <2>6, LeastPlace
    <2>. HIDE DEF at
    <2>8. j \in 1..(Len(files) + 1)
      BY <2>6, <2>7
    <2>. HIDE DEF j
    <2>9. InsertAt(files, j, f) \in Seq(File)
      BY <2>5, <2>8, InsertAtProperties
    <2>10. [grown EXCEPT ![l + 1] = InsertAt(files, j, f)] \in Seq(Seq(File))
      BY <2>2, <2>3, <2>4, <2>9, ExceptSeq
    <2>. QED BY <2>1, <2>10
  <1>. QED BY <1>1, <1>2

LEMMA MoveRecordIsSeq ==
  ASSUME NEW ls \in Seq(Seq(File)), NEW f \in File, NEW l \in Int
  PROVE  MoveRecord(ls, f, l) \in Seq(Seq(File))
  BY RemoveRecordIsSeq, AddRecordIsSeq DEF MoveRecord

LEMMA WithFileIsSeq ==
  ASSUME NEW ls \in Seq(Seq(File)), NEW f \in File, NEW l \in Int
  PROVE  WithFile(ls, f, l) \in Seq(File)
  <1>1. Without(FilesOf(ls, l), f) \in Seq(File) BY FilesOfIsSeq, WithoutIsSeq
  <1>2. <<f>> \in Seq(File) OBVIOUS
  <1>. QED BY <1>1, <1>2, ConcatProperties DEF WithFile

LEMMA KeyRankingIsSeq ==
  ASSUME NEW ls, NEW files \in Seq(File), NEW own, NEW target
  PROVE  \E R : OverlapRankHelperKeyBased(ls, files, own, target)
                   \in Seq([file : File, rank : R])
  <1>. DEFINE rank == [g \in ToSet(files) |-> IF Listed(ls, own) /\ Listed(ls, target)
                 THEN (GetOverlapKeyCount(ls, g, target) * 1024) \div lsm[g].entries ELSE 0]
              R == {rank[g] : g \in ToSet(files)}
  <1>1. OverlapRankHelperKeyBased(ls, files, own, target) = Ranked(files, rank)
    BY DEF OverlapRankHelperKeyBased
  <1>. HIDE DEF rank
  <1>2. \A g \in ToSet(files) : rank[g] \in R OBVIOUS
  <1>. HIDE DEF R
  <1>3. Ranked(files, rank) \in Seq([file : File, rank : R])
    BY <1>2, RankedIsSeq
  <1>. QED BY <1>1, <1>3

-----------------------------------------------------------------------------
(* The policies. *)

(* A match from the busy zones b: the zone that was found, an idle candidate, *)
(* is held, no other zone is; the level and the records stay well formed.   *)
IsMatch(m, b, min, low) ==
    /\ m \in [busy : SUBSET Zone, zone : Zone \cup {None}, diff : {m.diff},
              level : low..TopLevel, lists : Seq(Seq(File)), max : 1..TopLevel]
    /\ m.level <= m.max
    /\ m.busy = b \cup ({m.zone} \ {None})
    /\ m.zone \notin b
    /\ m.zone # None => Candidate(m.zone, min)

(* What a policy is given: no zone yet, and a level. *)
NoMatch(m, b, low) ==
    /\ m \in [busy : SUBSET Zone, zone : Zone \cup {None}, diff : {m.diff},
              level : low..TopLevel, lists : Seq(Seq(File)), max : 1..TopLevel]
    /\ m.level <= m.max
    /\ m.busy = b
    /\ m.zone = None

LEMMA NoMatchIsMatch ==
  ASSUME NEW low \in {-1, 0}, NEW b \in SUBSET Zone, NEW min, NEW m, NoMatch(m, b, low)
  PROVE  IsMatch(m, b, min, low)
  BY PlacementAssumption DEF NoMatch, IsMatch

LEMMA EmptyMatch ==
  ASSUME NEW low \in {-1, 0}, NEW b \in SUBSET Zone, NEW min, NEW m, IsMatch(m, b, min, low), m.zone = None
  PROVE  NoMatch(m, b, low)
  BY DEF NoMatch, IsMatch

LEMMA DiffIsFree ==
  ASSUME NEW low \in {-1, 0}, NEW b \in SUBSET Zone, NEW min, NEW m, IsMatch(m, b, min, low), NEW d
  PROVE  IsMatch([m EXCEPT !.diff = d], b, min, low)
  BY DEF IsMatch

LEMMA DiffIsFreeNone ==
  ASSUME NEW low \in {-1, 0}, NEW b \in SUBSET Zone, NEW m, NoMatch(m, b, low), NEW d
  PROVE  NoMatch([m EXCEPT !.diff = d], b, low)
  BY DEF NoMatch

LEMMA AssignedIsMatch ==
  ASSUME NEW low \in {-1, 0}, NEW b \in SUBSET Zone, NEW min, NEW m, NoMatch(m, b, low),
         NEW V, NEW walk \in Walks(b, min, V)
  PROVE  IsMatch(Assigned(m, walk), b, min, low)
  BY DEF NoMatch, IsMatch, Walks, Assigned

LEMMA FoundIsMatch ==
  ASSUME NEW low \in {-1, 0}, NEW b \in SUBSET Zone, NEW min, NEW m, NoMatch(m, b, low),
         NEW V, NEW walk \in Walks(b, min, V), NEW d
  PROVE  IsMatch(Found(m, walk, d), b, min, low)
  <1>1. CASE walk.zone = None
    <2>1. Found(m, walk, d) = [m EXCEPT !.diff = NotGood] BY <1>1 DEF Found
    <2>. QED BY <2>1, NoMatchIsMatch, DiffIsFree, SMTT(40)
  <1>2. CASE walk.zone # None
    <2>1. Found(m, walk, d) = [m EXCEPT !.busy = walk.busy, !.zone = walk.zone, !.diff = d]
      BY <1>2 DEF Found
    <2>. QED BY <2>1, <1>2 DEF NoMatch, IsMatch, Walks
  <1>. QED BY <1>1, <1>2

LEMMA FoundPoorIsMatch ==
  ASSUME NEW low \in {-1, 0}, NEW b \in SUBSET Zone, NEW min, NEW m, NoMatch(m, b, low),
         NEW V, NEW walk \in Walks(b, min, V), NEW poor
  PROVE  IsMatch(FoundPoor(m, walk, poor), b, min, low)
  BY FoundIsMatch DEF FoundPoor

\* One lemma per policy: what it returns is a match.
LEMMA LifetimeIsMatch ==
  ASSUME NEW low \in {-1, 0}, NEW b \in SUBSET Zone, NEW min, NEW m, NoMatch(m, b, low), NEW f
  PROVE  IsMatch(MatchLifetimeBased(m, f, min), b, min, low)
  <1>. DEFINE score == [z \in Zone |-> GetLifeTimeDiff(life[z], lsm[f].life)]
              V == {score[z] : z \in Zone} \cup {NotGood}
  <1>1. score \in [Zone -> V] /\ NotGood \in V OBVIOUS
  <1>2. m.busy = b BY DEF NoMatch
  <1>3. MatchLifetimeBased(m, f, min) = Assigned(m, LeastDiff(b, min, score))
    BY <1>2 DEF MatchLifetimeBased
  <1>. HIDE DEF score, V
  <1>4. LeastDiff(b, min, score) \in Walks(b, min, V)
    BY <1>1, LeastDiffWalks
  <1>. QED BY <1>3, <1>4, AssignedIsMatch

LEMMA LastFitIsMatch ==
  ASSUME NEW low \in {-1, 0}, NEW b \in SUBSET Zone, NEW min, NEW m, NoMatch(m, b, low), NEW fits
  PROVE  IsMatch(LastFit(m, min, fits), b, min, low)
  <1>. DEFINE score == [z \in Zone |-> IF z \in fits THEN 0 ELSE NotGood + 1]
              V == {score[z] : z \in Zone} \cup {NotGood}
  <1>1. score \in [Zone -> V] /\ NotGood \in V OBVIOUS
  <1>2. m.busy = b BY DEF NoMatch
  <1>3. LastFit(m, min, fits) = Assigned(m, LeastDiff(b, min, score))
    BY <1>2 DEF LastFit
  <1>. HIDE DEF score, V
  <1>4. LeastDiff(b, min, score) \in Walks(b, min, V)
    BY <1>1, LeastDiffWalks
  <1>. QED BY <1>3, <1>4, AssignedIsMatch

LEMMA FitIsMatch ==
  ASSUME NEW low \in {-1, 0}, NEW b \in SUBSET Zone, NEW min, NEW m, NoMatch(m, b, low), NEW f
  PROVE  /\ IsMatch(MatchArrivalTimeBased(m, f, min), b, min, low)
         /\ IsMatch(MatchClusterTogether(m, f, min), b, min, low)
         /\ IsMatch(MatchTombstoneDensity(m, f, min), b, min, low)
  <1>1. IsMatch(MatchArrivalTimeBased(m, f, min), b, min, low)
    BY LastFitIsMatch DEF MatchArrivalTimeBased
  <1>2. IsMatch(MatchClusterTogether(m, f, min), b, min, low)
    BY LastFitIsMatch DEF MatchClusterTogether
  <1>3. IsMatch(LastFit(m, min, {z \in Zone : policy[z] = "Tombstone"}), b, min, low)
    BY LastFitIsMatch
  <1>4. IsMatch([m EXCEPT !.zone = None, !.diff = NotGood], b, min, low)
    BY PlacementAssumption DEF NoMatch, IsMatch
  <1>. QED BY <1>1, <1>2, <1>3, <1>4 DEF MatchTombstoneDensity

(* Any contribution of files to the zones. *)
LEMMA ContribWalks ==
  ASSUME NEW low \in {-1, 0}, NEW b \in SUBSET Zone, NEW min, NEW contrib, DOMAIN contrib = Zone,
         contrib = [z \in Zone |-> contrib[z]]
  PROVE  \E V : ChooseZoneWithHighestContrib(b, min, contrib) \in Walks(b, min, V)
  <1>. DEFINE V == {contrib[z] : z \in Zone} \cup {0}
  <1>1. contrib \in [Zone -> V] /\ 0 \in V
    OBVIOUS
  <1>. HIDE DEF V
  <1>. QED BY <1>1, HighestContribWalks

LEMMA AroundWalks ==
  ASSUME NEW low \in {-1, 0}, NEW b \in SUBSET Zone, NEW min, NEW before, NEW after, NEW factor
  PROVE  \E V : ChooseZoneWithHighestContrib(b, min, Around(before, after, factor))
                   \in Walks(b, min, V)
  <1>1. /\ DOMAIN Around(before, after, factor) = Zone
        /\ Around(before, after, factor)
             = [z \in Zone |-> Around(before, after, factor)[z]]
    BY DEF Around
  <1>. QED BY <1>1, ContribWalks

LEMMA CAZAIsMatch ==
  ASSUME NEW low \in {-1, 0}, NEW b \in SUBSET Zone, NEW min, NEW m, NoMatch(m, b, low), NEW f
  PROVE  IsMatch(MatchCAZA(m, f, min), b, min, low)
  <1>. DEFINE c == Contribution(CazaFiles(m, f), Even)
  <1>1. DOMAIN c = Zone /\ c = [z \in Zone |-> c[z]]
    BY DEF Contribution
  <1>2. m.busy = b BY DEF NoMatch
  <1>3. MatchCAZA(m, f, min) = Found(m, ChooseZoneWithHighestContrib(b, min, c), 0)
    BY <1>2 DEF MatchCAZA
  <1>. HIDE DEF c
  <1>4. PICK V : ChooseZoneWithHighestContrib(b, min, c) \in Walks(b, min, V)
    BY <1>1, ContribWalks
  <1>. QED BY <1>3, <1>4, FoundIsMatch

LEMMA PlazaIsMatch ==
  ASSUME NEW low \in {-1, 0}, NEW b \in SUBSET Zone, NEW min, NEW m, NoMatch(m, b, low), NEW f
  PROVE  /\ IsMatch(MatchPlazaBase(m, f, min), b, min, low)
         /\ IsMatch(MatchPlazaIntermediate(m, f, min), b, min, low)
  <1>. DEFINE w == NearbyZone(m, f, min)
  <1>1. m.busy = b BY DEF NoMatch
  <1>2. PICK V : w \in Walks(b, min, V)
    BY <1>1, AroundWalks DEF NearbyZone
  <1>3. MatchPlazaBase(m, f, min) =
          FoundPoor(m, w, w.score * 100 < param.threshold * used[w.zone] * 10^4)
    BY DEF MatchPlazaBase
  <1>4. MatchPlazaIntermediate(m, f, min) =
          FoundPoor(m, w, \/ FewNeighbours(FilesOf(m.lists, m.level), f, w.zone)
                          \/ OpenZonesOf(m.level) < param.zones_to_open)
    BY DEF MatchPlazaIntermediate
  <1>. HIDE DEF w
  <1>5. IsMatch(MatchPlazaBase(m, f, min), b, min, low)
    BY <1>2, <1>3, FoundPoorIsMatch
  <1>6. IsMatch(MatchPlazaIntermediate(m, f, min), b, min, low)
    BY <1>2, <1>4, FoundPoorIsMatch
  <1>. QED BY <1>5, <1>6

LEMMA PlazaKeysIsMatch ==
  ASSUME NEW low \in {-1, 0}, NEW b \in SUBSET Zone, NEW min, NEW m, NoMatch(m, b, low), NEW f
  PROVE  IsMatch(MatchPlazaAdvanced(m, f, min), b, min, low)
  <1>. DEFINE same == ToSet(FilesOf(m.lists, m.level))
              holds(z) == {g \in same : BlocksIn(g, z) > 0}
              far == [z \in Zone |-> IF holds(z) = {} THEN NotGood + 1
                                     ELSE Max({Distance(f, g) : g \in holds(z)})]
              V == {far[z] : z \in Zone} \cup {NotGood}
              w == LeastDiff(b, min, far)
  <1>1. far \in [Zone -> V] /\ NotGood \in V OBVIOUS
  <1>2. m.busy = b BY DEF NoMatch
  <1>3. MatchPlazaAdvanced(m, f, min) =
          IF m.level < 2 THEN MatchArrivalTimeBased(m, f, min)
          ELSE FoundPoor(m, w, w.score * 100 > param.threshold)
    BY <1>2 DEF MatchPlazaAdvanced
  <1>. HIDE DEF far, V
  <1>4. w \in Walks(b, min, V)
    BY <1>1, LeastDiffWalks
  <1>. HIDE DEF w
  <1>5. IsMatch(FoundPoor(m, w, w.score * 100 > param.threshold), b, min, low)
    BY <1>4, FoundPoorIsMatch
  <1>. QED BY <1>3, <1>5, FitIsMatch

LEMMA IndexOfIsPlace ==
  ASSUME NEW files \in Seq(File), NEW f
  PROVE  IndexOf(files, f) \in 0..Len(files)
  <1>. DEFINE I == {i \in 1..Len(files) : files[i] = f}
  <1>1. IndexOf(files, f) = IF I # {} THEN Min(I) ELSE 0
    BY DEF IndexOf, SelectInSeq
  <1>2. I \in SUBSET (1..Len(files)) /\ Len(files) \in Nat OBVIOUS
  <1>. HIDE DEF I
  <1>. QED BY <1>1, <1>2, LeastPlace

LEMMA ClosestToIsMatch ==
  ASSUME NEW low \in {-1, 0}, NEW b \in SUBSET Zone, NEW min, NEW m, NoMatch(m, b, low), NEW f,
         NEW files \in Seq(File), extents \in [File -> Seq(ExtentSet)]
  PROVE  IsMatch(ClosestTo(m, f, min, files), b, min, low)
  <1>1. m.busy = b BY DEF NoMatch
  <1>2. IndexOf(files, f) \in Int BY IndexOfIsPlace
  <1>3. ChooseZoneWithClosestFile(b, min, files, IndexOf(files, f)) \in Walks(b, min, Nat)
    BY <1>2, ClosestFileWalks
  <1>. QED BY <1>1, <1>3, FoundIsMatch DEF ClosestTo

LEMMA NearbyIsMatch ==
  ASSUME NEW low \in {-1, 0}, NEW b \in SUBSET Zone, NEW min, NEW m, NoMatch(m, b, low), NEW f \in File,
         extents \in [File -> Seq(ExtentSet)]
  PROVE  IsMatch(MatchSameLevelNearbyKeysSimple(m, f, min), b, min, low)
  <1>. DEFINE m1 == [m EXCEPT !.lists = MoveRecord(@, f, m.level)]
  <1>1. m.level \in Int /\ m.lists \in Seq(Seq(File)) BY DEF NoMatch
  <1>2. MoveRecord(m.lists, f, m.level) \in Seq(Seq(File)) BY <1>1, MoveRecordIsSeq
  <1>3. NoMatch(m1, b, low) BY <1>2 DEF NoMatch
  <1>4. m1.level \in Int /\ m1.lists \in Seq(Seq(File)) BY <1>3 DEF NoMatch
  <1>. HIDE DEF m1
  <1>5. FilesOf(m1.lists, m1.level) \in Seq(File) BY <1>4, FilesOfIsSeq
  <1>6. IsMatch(NearestInLevel(m1, f, min), b, min, low)
    BY <1>3, <1>5, ClosestToIsMatch DEF NearestInLevel
  <1>7. IsMatch([m EXCEPT !.diff = NotGood], b, min, low)
    BY NoMatchIsMatch, DiffIsFree
  <1>. QED BY <1>6, <1>7 DEF MatchSameLevelNearbyKeysSimple, m1

LEMMA RankedZoneIsMatch ==
  ASSUME NEW low \in {-1, 0}, NEW b \in SUBSET Zone, NEW min, NEW m, NoMatch(m, b, low), NEW f, NEW files, NEW factor
  PROVE  IsMatch(ZoneRankedNext(m, f, min, files, factor), b, min, low)
  <1>. DEFINE at == IndexOf(files, f)
              w == ChooseZoneWithHighestContrib(b, min,
                      Around(SubSeq(files, 1, at - 1),
                             SubSeq(files, at + 1, Len(files)), factor))
  <1>1. m.busy = b BY DEF NoMatch
  <1>2. PICK V : w \in Walks(b, min, V) BY AroundWalks
  <1>3. ZoneRankedNext(m, f, min, files, factor) = Found(m, w, 0)
    BY <1>1 DEF ZoneRankedNext, RankedZone
  <1>. HIDE DEF w
  <1>. QED BY <1>2, <1>3, FoundIsMatch

LEMMA SinksToIsLevel ==
  ASSUME NEW low \in {-1, 0}, NEW b, NEW m, NoMatch(m, b, low), low = 0, NEW f
  PROVE  SinksTo(m, f) \in m.level..m.max
  <1>. DEFINE K == {k \in m.level..m.max :
                       k = m.max \/ GetOverlapFileCount(m.lists, f, k + 1) > 0}
  <1>1. m.level \in Nat /\ m.max \in Nat /\ m.level <= m.max
    BY PlacementAssumption DEF NoMatch
  <1>2. m.max \in K /\ K \in SUBSET (m.level..m.max) BY <1>1
  <1>. HIDE DEF K
  <1>3. K \in SUBSET Nat /\ K # {} BY <1>1, <1>2
  <1>4. Min(K) \in K BY <1>3, MinOf
  <1>. QED BY <1>2, <1>4 DEF SinksTo, K

LEMMA SunkIsNoMatch ==
  ASSUME NEW low \in {-1, 0}, NEW b, NEW m, NoMatch(m, b, low), NEW f \in File, NEW l \in Int, l <= m.max,
         low = 0
  PROVE  NoMatch(Sunk(m, f, l), b, low) 
  <1>1. m.lists \in Seq(Seq(File)) BY DEF NoMatch
  <1>2. MoveRecord(m.lists, f, l) \in Seq(Seq(File)) BY <1>1, MoveRecordIsSeq
  <1>3. CASE l > m.level
    <2>1. Sunk(m, f, l) = [m EXCEPT !.level = l, !.lists = MoveRecord(m.lists, f, l)]
      BY <1>3 DEF Sunk
    <2>2. l \in low..TopLevel BY <1>3, PlacementAssumption DEF NoMatch
    <2>3. NoMatch([m EXCEPT !.level = l, !.lists = MoveRecord(m.lists, f, l)], b, low)
      BY <1>2, <2>2 DEF NoMatch
    <2>. QED BY <2>1, <2>3
  <1>4. CASE ~(l > m.level) BY <1>4 DEF Sunk
  <1>. QED BY <1>3, <1>4

LEMMA ChildrenIsMatch ==
  ASSUME NEW low \in {-1, 0}, NEW b \in SUBSET Zone, NEW min, NEW m, NoMatch(m, b, low), low = 0, NEW f \in File
  PROVE  /\ IsMatch(MatchOverlapChildren(m, f, min), b, min, low)
         /\ IsMatch(MatchOverlapGrandchildren(m, f, min), b, min, low)
         /\ IsMatch(MatchCompensatedSize(m, f, min), b, min, low)
  <1>. DEFINE m1 == Sunk(m, f, SinksTo(m, f))
  <1>1. SinksTo(m, f) \in Int /\ SinksTo(m, f) <= m.max
    <2>1. SinksTo(m, f) \in m.level..m.max BY SinksToIsLevel
    <2>2. m.level \in Int /\ m.max \in Int BY DEF NoMatch
    <2>. QED BY <2>1, <2>2
  <1>2. NoMatch(m1, b, low) BY <1>1, SunkIsNoMatch
  <1>3. MatchOverlapChildren(m, f, min) = AmongSiblings(m1, f, min)
    BY DEF MatchOverlapChildren
  <1>. HIDE DEF m1
  <1>4. IsMatch([m1 EXCEPT !.diff = NotGood], b, min, low)
    BY <1>2, NoMatchIsMatch, DiffIsFree
  <1>5. IsMatch(AmongSiblings(m1, f, min), b, min, low)
    BY <1>2, <1>4, RankedZoneIsMatch DEF AmongSiblings
  <1>6. IsMatch(MatchOverlapGrandchildren(m, f, min), b, min, low)
    BY RankedZoneIsMatch DEF MatchOverlapGrandchildren
  <1>7. IsMatch(MatchCompensatedSize(m, f, min), b, min, low)
    BY RankedZoneIsMatch DEF MatchCompensatedSize
  <1>. QED BY <1>3, <1>5, <1>6, <1>7

LEMMA MostAlikeIsMatch ==
  ASSUME NEW low \in {-1, 0}, NEW b \in SUBSET Zone, NEW min, NEW m, NoMatch(m, b, low), NEW f, NEW R,
         NEW own \in Seq([file : File, rank : R]), extents \in [File -> Seq(ExtentSet)]
  PROVE  IsMatch(MostAlike(m, f, min, own), b, min, low)
  <1>. DEFINE I == {i \in 1..Len(own) : own[i].file = f}
              at == IF I # {} THEN Min(I) ELSE 0
  <1>1. m.busy = b BY DEF NoMatch
  <1>2. CASE param.real_oaza
    <2>1. MostAlike(m, f, min, own) = Found(m, ChooseZoneWithClosestRank(b, min, own, at), 0)
      BY <1>1, <1>2 DEF MostAlike, SelectInSeq
    <2>2. I \in SUBSET (1..Len(own)) /\ Len(own) \in Nat OBVIOUS
    <2>. HIDE DEF I
    <2>3. at \in 0..Len(own) BY <2>2, LeastPlace
    <2>. HIDE DEF at
    <2>4. ChooseZoneWithClosestRank(b, min, own, at) \in Walks(b, min, Nat)
      BY <2>3, ClosestRankWalks
    <2>. QED BY <2>1, <2>4, FoundIsMatch
  <1>3. CASE ~param.real_oaza
    <2>1. MostAlike(m, f, min, own) = ClosestTo(m, f, min, RankedFiles(own))
      BY <1>3 DEF MostAlike
    <2>2. RankedFiles(own) \in Seq(File)
      <3>1. \A i \in 1..Len(own) : own[i].file \in File
        <4>1. \A i \in 1..Len(own) : own[i] \in [file : File, rank : R] BY ElementOfSeq
        <4>. QED BY <4>1
      <3>2. RankedFiles(own) \in [1..Len(own) -> File] BY <3>1 DEF RankedFiles
      <3>3. Len(own) \in Nat OBVIOUS
      <3>. QED BY <3>2, <3>3, FunIsSeq
    <2>. QED BY <2>1, <2>2, ClosestToIsMatch
  <1>. QED BY <1>2, <1>3

LEMMA OAZAIsMatch ==
  ASSUME NEW low \in {-1, 0}, NEW b \in SUBSET Zone, NEW min, NEW m, NoMatch(m, b, low), low = 0, NEW f \in File,
         extents \in [File -> Seq(ExtentSet)]
  PROVE  IsMatch(MatchOAZA(m, f, min), b, min, low)
  <1>. DEFINE l == m.level
              target == IF l < m.max THEN l + 1 ELSE l - 1
              m1 == [m EXCEPT !.diff = NotGood]
              own == OverlapRankHelperKeyBased(m.lists, WithFile(m.lists, f, l), l, target)
  <1>1. l \in Int /\ m.max \in Int /\ m.lists \in Seq(Seq(File)) BY DEF NoMatch
  <1>2. NoMatch(m1, b, low) /\ m1.level = l /\ m1.max = m.max
    BY DiffIsFreeNone DEF NoMatch
  <1>3. WithFile(m.lists, f, l) \in Seq(File) BY <1>1, WithFileIsSeq
  <1>4. PICK R : own \in Seq([file : File, rank : R]) BY <1>3, KeyRankingIsSeq
  <1>5. MatchOAZA(m, f, min) =
          IF ~Listed(m.lists, l) THEN m1
          ELSE IF GetOverlapFileCount(m.lists, f, target) = 0
          THEN Sunk(m1, f, Min({l + 1, m.max}))
          ELSE MostAlike(m, f, min, own)
    BY DEF MatchOAZA
  <1>. HIDE DEF own, m1, target
  <1>6. IsMatch(m1, b, min, low) BY <1>2, NoMatchIsMatch
  <1>7. IsMatch(Sunk(m1, f, Min({l + 1, m.max})), b, min, low)
    <2>0. l + 1 \in Int /\ m.max \in Int BY <1>1
    <2>1. Min({l + 1, m.max}) \in Int /\ Min({l + 1, m.max}) <= m.max BY ONLY <2>0, MinTwo
    <2>2. NoMatch(Sunk(m1, f, Min({l + 1, m.max})), b, low) BY <1>2, <2>1, SunkIsNoMatch
    <2>. QED BY <2>2, NoMatchIsMatch
  <1>8. IsMatch(MostAlike(m, f, min, own), b, min, low) BY <1>4, MostAlikeIsMatch
  <1>. QED BY <1>5, <1>6, <1>7, <1>8

\* Whatever the policy, its result is a match that is held alone.
LEMMA MatchIsMatch ==
  ASSUME NEW p \in Policies, NEW low \in {-1, 0}, NEW b \in SUBSET Zone, NEW min, NEW m, NoMatch(m, b, low),
         low = 0, NEW f \in File, extents \in [File -> Seq(ExtentSet)]
  PROVE  IsMatch(Match(p, m, f, min), b, min, low)
  <1>1. CASE p \in {"Lifetime", "TTL"} BY <1>1, LifetimeIsMatch DEF Match
  <1>2. CASE p = "CAZA" BY <1>2, CAZAIsMatch DEF Match
  <1>3. CASE p = "PlazaBase" BY <1>3, PlazaIsMatch DEF Match
  <1>4. CASE p = "PlazaMiddle" BY <1>4, PlazaIsMatch DEF Match
  <1>5. CASE p = "PlazaKeys" BY <1>5, PlazaKeysIsMatch DEF Match
  <1>6. CASE p = "Nearby" BY <1>6, NearbyIsMatch DEF Match
  <1>7. CASE p = "Arrival" BY <1>7, FitIsMatch DEF Match
  <1>8. CASE p = "Tombstone" BY <1>8, FitIsMatch DEF Match
  <1>9. CASE p = "Cluster" BY <1>9, FitIsMatch DEF Match
  <1>10. CASE p = "Children" BY <1>10, ChildrenIsMatch DEF Match
  <1>11. CASE p = "Grandchildren" BY <1>11, ChildrenIsMatch DEF Match
  <1>12. CASE p = "Compensated" BY <1>12, ChildrenIsMatch DEF Match
  <1>13. CASE p = "OAZA" BY <1>13, OAZAIsMatch DEF Match
  <1>. QED BY <1>1, <1>2, <1>3, <1>4, <1>5, <1>6, <1>7, <1>8, <1>9, <1>10, <1>11, <1>12,
              <1>13 DEF Policies

(* How far MatchLifetimeBased got after k zones: if it keeps none, no idle   *)
(* zone so far was a candidate.                                              *)
NoneSoFar(w, b, min, k) ==
    w.zone = None => /\ w.score = NotGood
                     /\ \A z \in 1..k : z \notin b => ~Candidate(z, min)

\* LeastDiff finds a zone whenever an idle candidate scores well.
LEMMA LeastDiffFinds ==
  ASSUME NEW b \in SUBSET Zone, NEW min, NEW score \in [Zone -> 0..NotGood],
         LeastDiff(b, min, score).zone = None
  PROVE  \A z \in Zone \ b : ~Candidate(z, min)
  <1>. DEFINE V == 0..NotGood
  <1>0. NotGood \in V /\ NotGood \in Nat BY DEF NotGood
  <1>00. score \in [Zone -> V] OBVIOUS
  <1>. HIDE DEF V
  <1>1. PICK h : WalkTrace(h, b, min, V, score)
    BY <1>0, <1>00, LeastDiffSteps
  <1>2. NrZones \in Nat BY PlacementAssumption
  <1>. DEFINE T == {k \in 0..NrZones : NoneSoFar(h[k], b, min, k)}
  <1>3. 0 \in T
    BY <1>1, <1>2 DEF WalkTrace, Start, NoneSoFar
  <1>4. ASSUME NEW k \in 0..(NrZones - 1), k \in T PROVE k + 1 \in T
    <2>1. k + 1 \in Zone /\ io_zones[k + 1] = k + 1 /\ k \in 0..NrZones /\ k + 1 \in 0..NrZones
      BY <1>2 DEF Zone, io_zones
    <2>2. h[k + 1] = Visit(h[k], k + 1, min, score[k + 1], score[k + 1] <= h[k].score)
      BY <1>1, <2>1 DEF WalkTrace
    <2>3. h[k] \in Walks(b, min, V) BY <1>1, <2>1 DEF WalkTrace
    <2>4. NoneSoFar(h[k], b, min, k) BY <1>4
    <2>. SUFFICES ASSUME h[k + 1].zone = None
         PROVE  /\ h[k + 1].score = NotGood
                /\ \A z \in 1..(k + 1) : z \notin b => ~Candidate(z, min)
      BY <2>1 DEF NoneSoFar
    <2>5. ~(k + 1 \notin h[k].busy /\ Candidate(k + 1, min) /\ score[k + 1] <= h[k].score)
      BY <2>1, <2>2, PlacementAssumption DEF Visit, Keep
    <2>6. h[k + 1] = h[k] BY <2>2, <2>5 DEF Visit
    <2>7. h[k].busy = b BY <2>3, <2>6 DEF Walks
    <2>8. h[k].score = NotGood /\ \A z \in 1..k : z \notin b => ~Candidate(z, min)
      BY <2>4, <2>6 DEF NoneSoFar
    <2>9. score[k + 1] <= NotGood BY <2>1, <1>0
    <2>10. k + 1 \notin b => ~Candidate(k + 1, min) BY <2>5, <2>7, <2>8, <2>9
    <2>11. \A z \in 1..(k + 1) : z = k + 1 \/ z \in 1..k BY <2>1
    <2>. QED BY <2>6, <2>8, <2>10, <2>11
  <1>5. NrZones \in T
    <2>. HIDE DEF T
    <2>1. \A k \in 0..NrZones : k \in T BY <1>2, <1>3, <1>4, Upto
    <2>. QED BY <1>2, <2>1
  <1>6. h[NrZones].zone = None BY <1>1 DEF WalkTrace
  <1>. QED BY <1>5, <1>6 DEF NoneSoFar, Zone

\* The default policy finds a zone whenever there is an idle candidate.
LEMMA LifetimeFinds ==
  ASSUME NEW low \in {-1, 0}, NEW b \in SUBSET Zone, NEW min, NEW m, NoMatch(m, b, low),
         NEW f \in File, lsm \in Trees, life \in [Zone -> 0..5],
         MatchLifetimeBased(m, f, min).zone = None
  PROVE  \A z \in Zone \ b : ~Candidate(z, min)
  <1>. DEFINE score == [z \in Zone |-> GetLifeTimeDiff(life[z], lsm[f].life)]
  <1>1. score \in [Zone -> 0..NotGood]
    <2>. SUFFICES ASSUME NEW z \in Zone
         PROVE GetLifeTimeDiff(life[z], lsm[f].life) \in 0..NotGood
      OBVIOUS
    <2>1. life[z] \in 0..5 /\ lsm[f].life \in 0..5 BY PlacementAssumption
    <2>. QED BY <2>1 DEF GetLifeTimeDiff, NotGood, CouldBeWorse, NOT_SET
  <1>2. m.busy = b BY DEF NoMatch
  <1>3. MatchLifetimeBased(m, f, min) = Assigned(m, LeastDiff(b, min, score))
    BY <1>2 DEF MatchLifetimeBased
  <1>4. Assigned(m, LeastDiff(b, min, score)).zone = LeastDiff(b, min, score).zone
    BY DEF Assigned, NoMatch
  <1>. HIDE DEF score
  <1>. QED BY <1>1, <1>3, <1>4, LeastDiffFinds

-----------------------------------------------------------------------------
(* GetBestOpenZoneMatch. *)

Typed ==
    /\ param \in Params /\ lsm \in Trees
    /\ max_level \in 1..TopLevel
    /\ room \in [Zone -> 0..ZoneCap]
    /\ life \in [Zone -> 0..5]
    /\ resets \in [Zone -> Nat]
    /\ zone_pos \in Zone
    /\ state \in [File -> {"absent", "open", "failed", "closing", "abandoned",
                           "closed", "deleted"}]
    /\ level \in [File -> -1..TopLevel]
    /\ left \in [File -> Nat]
    /\ active \in [File -> Zone \cup {None}]
    /\ extents \in [File -> Seq(ExtentSet)]
    /\ lists \in Seq(Seq(File))

Low(f) == IF level[f] < 0 THEN -1 ELSE 0

(* The capacity that is really asked for. *)
Asked(f, min) == IF level[f] < 0 \/ ~lsm[f].keys THEN 0 ELSE min

LEMMA UnmatchedIsNoMatch ==
  ASSUME Typed, busy \subseteq Zone, NEW f \in File
  PROVE  NoMatch(Unmatched(f), busy, Low(f)) /\ Low(f) \in {-1, 0}
  <1>1. max_level \in 1..TopLevel /\ level[f] \in -1..TopLevel BY DEF Typed
  <1>2. max_level \in Int /\ level[f] \in Int BY <1>1
  <1>3. Max({max_level, level[f]}) \in 1..TopLevel /\ level[f] <= Max({max_level, level[f]})
    <2>1. /\ Max({max_level, level[f]}) \in {max_level, level[f]}
          /\ Max({max_level, level[f]}) >= max_level /\ Max({max_level, level[f]}) >= level[f]
          /\ Max({max_level, level[f]}) \in Int
      BY ONLY <1>2, MaxTwo
    <2>. QED BY <1>1, <2>1, PlacementAssumption
  <1>4. level[f] \in Low(f)..TopLevel BY <1>1 DEF Low
  <1>5. lists \in Seq(Seq(File)) BY DEF Typed
  <1>. QED BY <1>3, <1>4, <1>5 DEF NoMatch, Unmatched, Low

LEMMA PolicyKnown ==
  ASSUME Typed, NEW l
  PROVE  Tier(l).primary \in Policies /\ Tier(l).fallback \in Policies
  <1>1. Tier(l) \in {param.upper, param.middle, param.lower} BY DEF Tier
  <1>. QED BY <1>1, PlacementAssumption DEF Typed

LEMMA FallbackIsMatch ==
  ASSUME Typed, NEW b \in SUBSET Zone, NEW min, NEW m, IsMatch(m, b, min, 0), NEW f \in File,
         NEW before
  PROVE  /\ IsMatch(WithFallback(m, f, min, before), b, min, 0)
         /\ WithFallback(m, f, min, before).zone = None =>
              \A z \in Zone \ b : ~Candidate(z, min)
  <1>1. CASE m.zone # None BY <1>1 DEF WithFallback
  <1>2. CASE m.zone = None
    <2>. DEFINE m1 == Match(Tier(before).fallback, m, f, min)
                m2 == Owing(m1, f, before)
                m3 == MatchLifetimeBased(m2, f, min)
    <2>1. NoMatch(m, b, 0) BY <1>2, EmptyMatch
    <2>2. extents \in [File -> Seq(ExtentSet)] /\ lsm \in Trees /\ life \in [Zone -> 0..5]
      BY DEF Typed
    <2>3. IsMatch(m1, b, min, 0) BY <2>1, <2>2, PolicyKnown, MatchIsMatch
    <2>4. WithFallback(m, f, min, before) = WithDefault(m2, f, min)
      BY <1>2 DEF WithFallback
    <2>. HIDE DEF m1
    <2>5. IsMatch(m2, b, min, 0) BY <2>3, DiffIsFree DEF Owing, AtLeast
    <2>. HIDE DEF m2
    <2>6. CASE m2.zone # None BY <2>4, <2>5, <2>6 DEF WithDefault
    <2>7. CASE m2.zone = None
      <3>1. NoMatch(m2, b, 0) BY <2>5, <2>7, EmptyMatch
      <3>2. IsMatch(m3, b, min, 0) BY <3>1, LifetimeIsMatch
      <3>3. m3.zone = None => \A z \in Zone \ b : ~Candidate(z, min)
        BY <3>1, <2>2, LifetimeFinds
      <3>. DEFINE m4 == AtLeast(m3, CouldBeWorse)
      <3>4. WithDefault(m2, f, min) = m4 BY <2>7 DEF WithDefault
      <3>. HIDE DEF m3
      <3>5. IsMatch(m4, b, min, 0) BY <3>2, DiffIsFree DEF AtLeast
      <3>6. m4.zone = m3.zone BY <3>2 DEF AtLeast, IsMatch
      <3>. QED BY <2>4, <3>3, <3>4, <3>5, <3>6
    <2>. QED BY <2>6, <2>7
  <1>. QED BY <1>1, <1>2

\* So is what GetBestOpenZoneMatch returns, the fallback included.
LEMMA BestIsMatch ==
  ASSUME Typed, busy \subseteq Zone, NEW f \in File, NEW min
  PROVE  /\ IsMatch(GetBestOpenZoneMatch(Unmatched(f), f, min), busy, Asked(f, min), Low(f))
         /\ GetBestOpenZoneMatch(Unmatched(f), f, min).zone = None =>
              \A z \in Zone \ busy : ~Candidate(z, Asked(f, min))
  <1>. DEFINE m == Unmatched(f)
  <1>1. NoMatch(m, busy, Low(f)) /\ Low(f) \in {-1, 0} BY UnmatchedIsNoMatch
  <1>2. m.level = level[f] BY DEF Unmatched
  <1>3. /\ extents \in [File -> Seq(ExtentSet)] /\ lsm \in Trees /\ life \in [Zone -> 0..5]
        /\ level[f] \in Int
    BY DEF Typed
  <1>. HIDE DEF m
  <1>4. CASE level[f] < 0 \/ ~lsm[f].keys
    <2>1. GetBestOpenZoneMatch(m, f, min) = MatchLifetimeBased(m, f, 0)
      BY <1>2, <1>4 DEF GetBestOpenZoneMatch
    <2>2. Asked(f, min) = 0 BY <1>4 DEF Asked
    <2>. QED BY <2>1, <2>2, <1>1, <1>3, LifetimeIsMatch, LifetimeFinds DEF m
  <1>5. CASE ~(level[f] < 0 \/ ~lsm[f].keys)
    <2>1. GetBestOpenZoneMatch(m, f, min) =
            WithFallback(Match(Tier(m.level).primary, m, f, min), f, min, m.level)
      BY <1>2, <1>5 DEF GetBestOpenZoneMatch
    <2>2. Asked(f, min) = min BY <1>5 DEF Asked
    <2>3. Low(f) = 0 BY <1>5, <1>3 DEF Low
    <2>4. IsMatch(Match(Tier(m.level).primary, m, f, min), busy, min, 0)
      BY <1>1, <1>3, <2>3, PolicyKnown, MatchIsMatch
    <2>. QED BY <2>1, <2>2, <2>3, <2>4, FallbackIsMatch DEF m
  <1>. QED BY <1>4, <1>5

-----------------------------------------------------------------------------
(* Empty zones. *)

\* A walk in some order returns the first idle empty zone.
LEMMA FirstEmptyIsIdle ==
  ASSUME NEW b, NEW zones
  PROVE  \/ /\ FirstEmpty(b, zones) = None
            /\ \A i \in 1..Len(zones) : zones[i] \notin IdleEmpty(b)
         \/ \E i \in 1..Len(zones) :
              /\ FirstEmpty(b, zones) = zones[i] /\ zones[i] \in IdleEmpty(b)
              /\ zones[i] # None
              /\ \A j \in 1..Len(zones) : j < i => zones[j] \notin IdleEmpty(b)
  <1>. DEFINE I == {i \in 1..Len(zones) : zones[i] \in IdleEmpty(b)}
              at == IF I # {} THEN Min(I) ELSE 0
  <1>1. FirstEmpty(b, zones) = IF at = 0 THEN None ELSE zones[at]
    BY DEF FirstEmpty, SelectInSeq
  <1>2. CASE I = {}
    <2>1. at = 0 BY <1>2
    <2>. QED BY <1>1, <1>2, <2>1
  <1>3. CASE I # {}
    <2>1. I \in SUBSET Nat OBVIOUS
    <2>. HIDE DEF I
    <2>2. Min(I) \in I /\ \A j \in I : Min(I) <= j BY <1>3, <2>1, MinOf
    <2>3. Min(I) # 0 /\ Min(I) \in 1..Len(zones) /\ zones[Min(I)] \in IdleEmpty(b)
      BY <2>2 DEF I
    <2>4. zones[Min(I)] # None BY <2>3, PlacementAssumption DEF IdleEmpty
    <2>5. \A j \in 1..Len(zones) : j < Min(I) => zones[j] \notin IdleEmpty(b)
      <3>. SUFFICES ASSUME NEW j \in 1..Len(zones), j < Min(I), j \in I PROVE FALSE
        BY DEF I
      <3>1. j \in Nat /\ Min(I) \in Nat BY <2>1, <2>2
      <3>2. Min(I) <= j BY <2>2
      <3>. QED BY <3>1, <3>2
    <2>6. FirstEmpty(b, zones) = zones[Min(I)] BY <1>1, <1>3, <2>3
    <2>. QED BY <2>3, <2>4, <2>5, <2>6
  <1>. QED BY <1>2, <1>3

LEMMA FirstEmptyFinds ==
  ASSUME NEW b, NEW zones
  PROVE  /\ FirstEmpty(b, zones) \in IdleEmpty(b) \cup {None}
         /\ FirstEmpty(b, zones) = None =>
              \A i \in 1..Len(zones) : zones[i] \notin IdleEmpty(b)
  BY FirstEmptyIsIdle

(* AllocateEmptyZoneSequential looks at every zone. *)
LEMMA FromPosCovers ==
  ASSUME zone_pos \in Zone, NEW z \in Zone
  PROVE  /\ Len(FromPos) = NrZones
         /\ \E i \in 1..NrZones : FromPos[i] = z
  <1>1. NrZones \in Nat /\ NrZones > 0 BY PlacementAssumption
  <1>2. Len(FromPos) = NrZones BY <1>1 DEF FromPos, Zone
  <1>. DEFINE i == IF z >= zone_pos THEN z - zone_pos + 1 ELSE z - zone_pos + 1 + NrZones
  <1>3. zone_pos \in 1..NrZones /\ z \in 1..NrZones BY DEF Zone
  <1>4. i \in 1..NrZones BY <1>1, <1>3
  <1>5. FromPos[i] = ((zone_pos + i - 2) % NrZones) + 1 BY <1>4 DEF FromPos, Zone
  <1>6. zone_pos + i - 2 = IF z >= zone_pos THEN z - 1 ELSE (z - 1) + NrZones BY <1>3, <1>1
  <1>. HIDE DEF i
  <1>7. (z - 1) % NrZones = z - 1 BY <1>1, <1>3
  <1>8. ((z - 1) + NrZones) % NrZones = z - 1 BY <1>1, <1>3
  <1>9. FromPos[i] = z BY <1>3, <1>5, <1>6, <1>7, <1>8
  <1>. QED BY <1>2, <1>4, <1>9

LEMMA NextPosIsPos ==
  ASSUME zone_pos \in Zone, NEW z \in Zone \cup {None}
  PROVE  NextPos(z) \in Zone
  <1>1. NrZones \in Nat /\ NrZones > 0 BY PlacementAssumption
  <1>2. CASE z # None
    <2>1. z \in Int BY <1>2 DEF Zone
    <2>2. z % NrZones \in 0..(NrZones - 1) BY <1>1, <2>1
    <2>3. (z % NrZones) + 1 \in Zone BY <1>1, <2>2 DEF Zone
    <2>. QED BY <1>2, <2>3 DEF NextPos
  <1>3. CASE z = None BY <1>3 DEF NextPos
  <1>. QED BY <1>2, <1>3

(* The walk of AllocateEmptyZoneLeastWear after k zones. *)
LeastSoFar(y, b, k) ==
    /\ y = None => \A z \in 1..k : z \notin IdleEmpty(b)
    /\ y # None => \A z \in 1..k : z \in IdleEmpty(b) => resets[y] <= resets[z]

\* The least worn of the idle empty zones.
LEMMA LeastWearFinds ==
  ASSUME NEW b \in SUBSET Zone, resets \in [Zone -> Nat]
  PROVE  /\ AllocateEmptyZoneLeastWear(b) \in IdleEmpty(b) \cup {None}
         /\ AllocateEmptyZoneLeastWear(b) = None => IdleEmpty(b) = {}
         /\ AllocateEmptyZoneLeastWear(b) # None =>
              \A y \in IdleEmpty(b) : resets[AllocateEmptyZoneLeastWear(b)] <= resets[y]
  <1>1. PICK h : LeastWearTrace(h, b) BY LeastWearSteps
  <1>2. NrZones \in Nat BY PlacementAssumption
  <1>. DEFINE T == {k \in 0..NrZones : LeastSoFar(h[k], b, k)}
  <1>3. 0 \in T BY <1>1, <1>2 DEF LeastWearTrace, LeastSoFar
  <1>4. ASSUME NEW k \in 0..(NrZones - 1), k \in T PROVE k + 1 \in T
    <2>1. k + 1 \in Zone /\ io_zones[k + 1] = k + 1 /\ k \in 0..NrZones /\ k + 1 \in 0..NrZones
      BY <1>2 DEF Zone, io_zones
    <2>. DEFINE z == k + 1
                y == h[k]
    <2>2. h[z] = IF z \in IdleEmpty(b) /\ (y = None \/ ~(resets[y] < resets[z])) THEN z ELSE y
      BY <1>1, <2>1 DEF LeastWearTrace
    <2>3. y \in IdleEmpty(b) \cup {None} BY <1>1, <2>1 DEF LeastWearTrace
    <2>4. LeastSoFar(y, b, k) BY <1>4
    <2>5. \A x \in 1..z : x = z \/ x \in 1..k BY <2>1
    <2>6. \A x \in IdleEmpty(b) : resets[x] \in Nat /\ x # None
      BY PlacementAssumption DEF IdleEmpty
    <2>. HIDE DEF y
    <2>7. CASE z \in IdleEmpty(b) /\ (y = None \/ ~(resets[y] < resets[z]))
      <3>1. h[z] = z /\ z # None BY <2>2, <2>6, <2>7
      <3>2. ASSUME NEW x \in 1..z, x \in IdleEmpty(b) PROVE resets[z] <= resets[x]
        <4>1. CASE x = z BY <4>1, <2>6, <3>2
        <4>2. CASE x \in 1..k
          <5>1. y # None /\ resets[y] <= resets[x] BY <4>2, <3>2, <2>4 DEF LeastSoFar
          <5>. QED BY <5>1, <2>3, <2>6, <2>7, <3>2
        <4>. QED BY <4>1, <4>2, <2>5, <3>2
      <3>3. LeastSoFar(h[z], b, z) BY <3>1, <3>2 DEF LeastSoFar
      <3>. QED BY <3>3, <2>1
    <2>8. CASE ~(z \in IdleEmpty(b) /\ (y = None \/ ~(resets[y] < resets[z])))
      <3>1. h[z] = y BY <2>2, <2>8
      <3>2. CASE y = None
        <4>1. z \notin IdleEmpty(b) BY <2>8, <3>2
        <4>2. LeastSoFar(y, b, z) BY <4>1, <3>2, <2>4, <2>5 DEF LeastSoFar
        <4>. QED BY <4>2, <3>1, <2>1
      <3>3. CASE y # None
        <4>1. z \in IdleEmpty(b) => resets[y] <= resets[z] BY <2>8, <3>3, <2>3, <2>6
        <4>2. LeastSoFar(y, b, z) BY <4>1, <3>3, <2>4, <2>5 DEF LeastSoFar
        <4>. QED BY <4>2, <3>1, <2>1
      <3>. QED BY <3>2, <3>3
    <2>. QED BY <2>7, <2>8
  <1>5. NrZones \in T
    <2>. HIDE DEF T
    <2>1. \A k \in 0..NrZones : k \in T BY <1>2, <1>3, <1>4, Upto
    <2>. QED BY <1>2, <2>1
  <1>6. AllocateEmptyZoneLeastWear(b) = h[NrZones] /\ h[NrZones] \in IdleEmpty(b) \cup {None}
    BY <1>1, <1>2 DEF LeastWearTrace
  <1>. QED BY <1>5, <1>6 DEF LeastSoFar, Zone, IdleEmpty

(* InsertByRank puts e at some place and shifts those behind it. *)
InsertedAt(s, t, e, j) ==
    /\ j \in 1..(Len(s) + 1) /\ Len(t) = Len(s) + 1
    /\ t[j] = e
    /\ \A i \in 1..Len(s) : t[IF i < j THEN i ELSE i + 1] = s[i]
    /\ \A i \in 1..Len(s) : i < j => ~(s[i].rank > e.rank)
    /\ j <= Len(s) => s[j].rank > e.rank

LEMMA InsertByRankPlace ==
  ASSUME NEW S, NEW s \in Seq(S), NEW e \in S
  PROVE  \E j : InsertedAt(s, InsertByRank(s, e), e, j)
  <1>. DEFINE I == {i \in 1..Len(s) : s[i].rank > e.rank}
              at == IF I # {} THEN Min(I) ELSE 0
              j == IF at = 0 THEN Len(s) + 1 ELSE at
              t == InsertAt(s, j, e)
              head == SubSeq(s, 1, j - 1)
              rest == SubSeq(s, j, Len(s))
  <1>1. InsertByRank(s, e) = t
    BY DEF InsertByRank, SelectInSeq
  <1>2. Len(s) \in Nat /\ I \in SUBSET (1..Len(s)) OBVIOUS
  <1>3. /\ j \in 1..(Len(s) + 1)
        /\ \A i \in 1..Len(s) : i < j => ~(s[i].rank > e.rank)
        /\ j <= Len(s) => s[j].rank > e.rank
    <2>1. CASE I = {}
      <3>1. j = Len(s) + 1 BY <2>1
      <3>. QED BY <3>1, <2>1, <1>2
    <2>2. CASE I # {}
      <3>. HIDE DEF I
      <3>1. Min(I) \in I /\ \A k \in I : Min(I) <= k BY <2>2, <1>2, MinOf
      <3>2. Min(I) \in 1..Len(s) /\ s[Min(I)].rank > e.rank BY <3>1 DEF I
      <3>3. j = Min(I) BY <2>2, <3>2
      <3>4. \A i \in 1..Len(s) : i < j => ~(s[i].rank > e.rank)
        <4>. SUFFICES ASSUME NEW i \in 1..Len(s), i < j, i \in I PROVE FALSE BY DEF I
        <4>. QED BY <3>1, <3>2, <3>3
      <3>. QED BY <3>2, <3>3, <3>4
    <2>. QED BY <2>1, <2>2
  <1>. HIDE DEF j
  <1>4. \A i \in 1..Len(s) : s[i] \in S OBVIOUS
  <1>5. /\ head \in Seq(S) /\ Len(head) = j - 1
        /\ \A i \in 1..(j - 1) : head[i] = s[i]
    <2>1. \A i \in 1..(j - 1) : s[i] \in S BY <1>3, <1>4
    <2>2. j - 1 \in Int /\ 1 \in Int BY <1>3
    <2>3. /\ head \in Seq(S)
          /\ Len(head) = IF 1 <= j - 1 THEN (j - 1) - 1 + 1 ELSE 0
          /\ \A i \in 1..((j - 1) - 1 + 1) : head[i] = s[1 + i - 1]
      BY <2>1, <2>2, SubSeqProperties
    <2>. QED BY <2>3, <1>3
  <1>6. /\ rest \in Seq(S) /\ Len(rest) = Len(s) - j + 1
        /\ \A i \in 1..(Len(s) - j + 1) : rest[i] = s[j + i - 1]
    <2>1. \A i \in j..Len(s) : s[i] \in S BY <1>3, <1>4
    <2>2. j \in Int /\ Len(s) \in Int BY <1>3
    <2>3. /\ rest \in Seq(S)
          /\ Len(rest) = IF j <= Len(s) THEN Len(s) - j + 1 ELSE 0
          /\ \A i \in 1..(Len(s) - j + 1) : rest[i] = s[j + i - 1]
      BY <2>1, <2>2, SubSeqProperties
    <2>. QED BY <2>3, <1>3, <2>2
  <1>. DEFINE u == head \o <<e>>
  <1>7. t = u \o rest BY DEF InsertAt
  <1>. HIDE DEF head, rest, t
  <1>8. <<e>> \in Seq(S) /\ Len(<<e>>) = 1 /\ <<e>>[1] = e OBVIOUS
  <1>9. /\ u \in Seq(S) /\ Len(u) = j /\ u[j] = e
        /\ \A i \in 1..(j - 1) : u[i] = s[i]
    <2>1. /\ u \in Seq(S) /\ Len(u) = Len(head) + 1
          /\ \A i \in 1..(Len(head) + 1) :
               u[i] = IF i <= Len(head) THEN head[i] ELSE <<e>>[i - Len(head)]
      BY <1>5, <1>8, ConcatProperties
    <2>. QED BY <2>1, <1>3, <1>5, <1>8
  <1>. HIDE DEF u
  <1>10. /\ t \in Seq(S) /\ Len(t) = Len(s) + 1
         /\ \A i \in 1..(Len(s) + 1) : t[i] = IF i <= j THEN u[i] ELSE rest[i - j]
    <2>1. /\ t \in Seq(S) /\ Len(t) = Len(u) + Len(rest)
          /\ \A i \in 1..(Len(u) + Len(rest)) :
               t[i] = IF i <= Len(u) THEN u[i] ELSE rest[i - Len(u)]
      BY <1>6, <1>7, <1>9, ConcatProperties
    <2>2. Len(u) + Len(rest) = Len(s) + 1 BY <1>2, <1>3, <1>6, <1>9
    <2>. QED BY <2>1, <2>2, <1>9
  <1>11. t[j] = e BY <1>3, <1>9, <1>10
  <1>12. ASSUME NEW i \in 1..Len(s) PROVE t[IF i < j THEN i ELSE i + 1] = s[i]
    <2>1. CASE i < j BY <2>1, <1>3, <1>9, <1>10
    <2>2. CASE ~(i < j)
      <3>1. i + 1 \in 1..(Len(s) + 1) /\ ~(i + 1 <= j) /\ (i + 1) - j \in 1..(Len(s) - j + 1)
        BY <2>2, <1>2, <1>3
      <3>2. t[i + 1] = rest[(i + 1) - j] BY <3>1, <1>10
      <3>3. rest[(i + 1) - j] = s[j + ((i + 1) - j) - 1] BY <3>1, <1>6
      <3>4. j + ((i + 1) - j) - 1 = i BY <1>2, <1>3
      <3>. QED BY <2>2, <3>2, <3>3, <3>4
    <2>. QED BY <2>1, <2>2
  <1>13. InsertedAt(s, t, e, j) BY <1>3, <1>10, <1>11, <1>12 DEF InsertedAt
  <1>. QED BY <1>1, <1>13

(* The zones sorted by reset count: each at one place, the least worn first. *)
WearOrder(s, k) ==
    /\ Len(s) = k
    /\ \A i \in 1..k : s[i].zone \in 1..k /\ s[i].rank = resets[s[i].zone]
    /\ \A i, j \in 1..k : s[i].zone = s[j].zone => i = j
    /\ \A z \in 1..k : \E i \in 1..k : s[i].zone = z
    /\ \A i, j \in 1..k : i < j => s[i].rank <= s[j].rank

\* The insertion keeps the order.
LEMMA WearOrderStep ==
  ASSUME NEW k \in 0..(NrZones - 1), NEW s \in Seq([zone : Zone, rank : Nat]),
         resets \in [Zone -> Nat], WearOrder(s, k)
  PROVE  WearOrder(InsertByRank(s, [zone |-> k + 1, rank |-> resets[k + 1]]), k + 1)
  <1>. DEFINE e == [zone |-> k + 1, rank |-> resets[k + 1]]
              t == InsertByRank(s, e)
  <1>1. NrZones \in Nat /\ k + 1 \in Zone BY PlacementAssumption DEF Zone
  <1>2. e \in [zone : Zone, rank : Nat] /\ e.zone = k + 1 /\ e.rank = resets[k + 1]
    BY <1>1
  <1>. HIDE DEF e
  <1>3. PICK j : InsertedAt(s, t, e, j) BY <1>2, InsertByRankPlace
  <1>4. t \in Seq([zone : Zone, rank : Nat]) BY <1>2, InsertByRankIsSeq
  <1>. HIDE DEF t
  <1>5. Len(s) = k /\ k \in Nat BY DEF WearOrder
  <1>6. /\ j \in 1..(k + 1) /\ Len(t) = k + 1 /\ t[j] = e
        /\ \A i \in 1..k : i < j => t[i] = s[i]
        /\ \A i \in 1..k : ~(i < j) => t[i + 1] = s[i]
        /\ \A i \in 1..k : i < j => ~(s[i].rank > e.rank)
        /\ j <= k => s[j].rank > e.rank
    BY <1>3, <1>5 DEF InsertedAt
  <1>. DEFINE Old(i) == IF i < j THEN i ELSE i - 1
  <1>7. ASSUME NEW i \in 1..(k + 1), i # j
        PROVE  Old(i) \in 1..k /\ t[i] = s[Old(i)]
    <2>1. CASE i < j BY <2>1, <1>5, <1>6
    <2>2. CASE ~(i < j)
      <3>1. i - 1 \in 1..k /\ ~(i - 1 < j) /\ (i - 1) + 1 = i BY <2>2, <1>7, <1>5, <1>6
      <3>. QED BY <2>2, <3>1, <1>6
    <2>. QED BY <2>1, <2>2
  <1>8. \A i \in 1..k : s[i].zone \in 1..k /\ s[i].rank = resets[s[i].zone] BY DEF WearOrder
  <1>9. \A i \in 1..(k + 1) : t[i].zone \in 1..(k + 1) /\ t[i].rank = resets[t[i].zone]
    <2>. TAKE i \in 1..(k + 1)
    <2>1. CASE i = j BY <2>1, <1>2, <1>5, <1>6
    <2>2. CASE i # j
      <3>1. s[Old(i)].zone \in 1..k /\ s[Old(i)].rank = resets[s[Old(i)].zone]
        BY <2>2, <1>7, <1>8
      <3>. QED BY <3>1, <2>2, <1>7, <1>5
    <2>. QED BY <2>1, <2>2
  <1>10. \A i \in 1..(k + 1) : i # j => t[i].zone # k + 1
    <2>. SUFFICES ASSUME NEW i \in 1..(k + 1), i # j PROVE t[i].zone # k + 1 OBVIOUS
    <2>1. s[Old(i)].zone \in 1..k BY <1>7, <1>8
    <2>. QED BY <2>1, <1>7, <1>5
  <1>11. ASSUME NEW i \in 1..(k + 1), NEW l \in 1..(k + 1), t[i].zone = t[l].zone
         PROVE  i = l
    <2>1. CASE i = j \/ l = j BY <2>1, <1>10, <1>11, <1>6, <1>2
    <2>2. CASE i # j /\ l # j
      <3>1. s[Old(i)].zone = s[Old(l)].zone BY <1>7, <1>11, <2>2
      <3>2. Old(i) = Old(l) BY <3>1, <1>7, <2>2 DEF WearOrder
      <3>. QED BY <3>2, <2>2, <1>5, <1>6
    <2>. QED BY <2>1, <2>2
  <1>12. ASSUME NEW z \in 1..(k + 1) PROVE \E i \in 1..(k + 1) : t[i].zone = z
    <2>1. CASE z = k + 1 BY <2>1, <1>2, <1>6
    <2>2. CASE z # k + 1
      <3>1. z \in 1..k BY <2>2, <1>5
      <3>2. PICK i \in 1..k : s[i].zone = z BY <3>1 DEF WearOrder
      <3>3. CASE i < j BY <3>2, <3>3, <1>5, <1>6
      <3>4. CASE ~(i < j)
        <4>1. t[i + 1].zone = z /\ i + 1 \in 1..(k + 1) BY <3>2, <3>4, <1>5, <1>6
        <4>. QED BY <4>1
      <3>. QED BY <3>3, <3>4
    <2>. QED BY <2>1, <2>2
  <1>13. \A i \in 1..(k + 1) : t[i].rank \in Nat
    <2>. TAKE i \in 1..(k + 1)
    <2>1. t[i] \in [zone : Zone, rank : Nat] BY <1>4, <1>6, ElementOfSeq
    <2>. QED BY <2>1
  <1>14. \A i \in 1..k : s[i].rank \in Nat
    <2>. TAKE i \in 1..k
    <2>1. s[i] \in [zone : Zone, rank : Nat] BY <1>5, ElementOfSeq
    <2>. QED BY <2>1
  <1>15. \A i, l \in 1..k : i < l => s[i].rank <= s[l].rank BY DEF WearOrder
  <1>16. e.rank \in Nat BY <1>2
  <1>17. ASSUME NEW i \in 1..(k + 1), NEW l \in 1..(k + 1), i < l
         PROVE  t[i].rank <= t[l].rank
    <2>1. CASE i # j /\ l # j
      <3>1. Old(i) < Old(l) BY <2>1, <1>17, <1>5, <1>6
      <3>2. s[Old(i)].rank <= s[Old(l)].rank BY <3>1, <2>1, <1>7, <1>15
      <3>. QED BY <3>2, <2>1, <1>7
    <2>2. CASE i = j
      <3>1. l # j /\ Old(l) = l - 1 /\ l - 1 >= j /\ j \in 1..k /\ l - 1 \in 1..k
        BY <2>2, <1>17, <1>5, <1>6
      <3>2. s[j].rank > e.rank BY <3>1, <1>6
      <3>3. CASE l - 1 = j BY <2>2, <3>1, <3>2, <3>3, <1>6, <1>7, <1>14, <1>16, SMTT(40)
      <3>4. CASE l - 1 # j
        <4>1. s[j].rank <= s[l - 1].rank BY <3>1, <3>4, <1>15
        <4>2. t[l].rank = s[l - 1].rank /\ t[i].rank = e.rank BY <2>2, <3>1, <1>6, <1>7
        <4>. QED BY <3>1, <3>2, <4>1, <4>2, <1>14, <1>16, SMTT(40)
      <3>. QED BY <3>3, <3>4
    <2>3. CASE l = j
      <3>1. i < j /\ i \in 1..k BY <2>3, <1>17, <1>5, <1>6
      <3>2. t[i] = s[i] /\ ~(s[i].rank > e.rank) BY <3>1, <1>6
      <3>. QED BY <2>3, <3>1, <3>2, <1>6, <1>14, <1>16
    <2>. QED BY <2>1, <2>2, <2>3
  <1>18. WearOrder(t, k + 1) BY <1>6, <1>9, <1>11, <1>12, <1>17 DEF WearOrder
  <1>. QED BY <1>18 DEF t, e

(* So are ZonesByWear. *)
LEMMA SortedByWearOrder ==
  ASSUME resets \in [Zone -> Nat]
  PROVE  WearOrder(SortedByWear, NrZones) /\ SortedByWear \in Seq([zone : Zone, rank : Nat])
  <1>1. PICK h : WearTrace(h) BY WearSteps
  <1>2. NrZones \in Nat BY PlacementAssumption
  <1>. DEFINE T == {k \in 0..NrZones : WearOrder(h[k], k)}
  <1>3. 0 \in T
    <2>1. h[0] = <<>> BY <1>1 DEF WearTrace
    <2>2. WearOrder(<<>>, 0) BY DEF WearOrder
    <2>. QED BY <1>2, <2>1, <2>2
  <1>4. ASSUME NEW k \in 0..(NrZones - 1), k \in T PROVE k + 1 \in T
    <2>1. k + 1 \in Zone /\ io_zones[k + 1] = k + 1 /\ k \in 0..NrZones /\ k + 1 \in 0..NrZones
      BY <1>2 DEF Zone, io_zones
    <2>2. h[k + 1] = InsertByRank(h[k], [zone |-> k + 1, rank |-> resets[k + 1]])
      BY <1>1, <2>1 DEF WearTrace
    <2>3. h[k] \in Seq([zone : Zone, rank : Nat]) BY <1>1, <2>1 DEF WearTrace
    <2>4. WearOrder(h[k], k) BY <1>4
    <2>5. WearOrder(h[k + 1], k + 1) BY <2>2, <2>3, <2>4, WearOrderStep
    <2>. QED BY <2>1, <2>5
  <1>5. NrZones \in T
    <2>. HIDE DEF T
    <2>1. \A k \in 0..NrZones : k \in T BY <1>2, <1>3, <1>4, Upto
    <2>. QED BY <1>2, <2>1
  <1>. QED BY <1>1, <1>2, <1>5 DEF WearTrace

ZoneOrder(s) ==
    /\ Len(s) = NrZones
    /\ \A i \in Zone : s[i] \in Zone
    /\ \A i, j \in Zone : s[i] = s[j] => i = j
    /\ \A z \in Zone : \E i \in Zone : s[i] = z
    /\ \A i, j \in Zone : i <= j => resets[s[i]] <= resets[s[j]]

LEMMA ZonesByWearOrder ==
  ASSUME resets \in [Zone -> Nat]
  PROVE  ZoneOrder(ZonesByWear)
  <1>. DEFINE s == SortedByWear
              t == [i \in DOMAIN s |-> s[i].zone]
  <1>1. WearOrder(s, NrZones) /\ s \in Seq([zone : Zone, rank : Nat]) BY SortedByWearOrder
  <1>2. ZonesByWear = t BY DEF ZonesByWear
  <1>. HIDE DEF s
  <1>3. DOMAIN s = Zone /\ NrZones \in Nat BY <1>1, PlacementAssumption DEF WearOrder, Zone
  <1>4. t = [i \in 1..NrZones |-> s[i].zone] BY <1>3 DEF Zone
  <1>5. Len(t) = NrZones BY <1>3, <1>4
  <1>6. \A i \in Zone : t[i] = s[i].zone BY <1>3
  <1>. HIDE DEF t
  <1>7. \A i \in Zone : s[i].zone \in Zone /\ s[i].rank = resets[s[i].zone]
    BY <1>1 DEF WearOrder, Zone
  <1>8. ASSUME NEW i \in Zone, NEW j \in Zone, i <= j PROVE resets[t[i]] <= resets[t[j]]
    <2>1. CASE i = j BY <2>1, <1>6, <1>7
    <2>2. CASE i # j
      <3>1. i < j BY <2>2, <1>8 DEF Zone
      <3>2. s[i].rank <= s[j].rank BY <3>1, <1>1 DEF WearOrder, Zone
      <3>. QED BY <3>2, <1>6, <1>7
    <2>. QED BY <2>1, <2>2
  <1>9. \A i, j \in Zone : t[i] = t[j] => i = j BY <1>1, <1>6 DEF WearOrder, Zone
  <1>10. \A z \in Zone : \E i \in Zone : t[i] = z
    <2>1. \A z \in Zone : \E i \in Zone : s[i].zone = z BY <1>1 DEF WearOrder, Zone
    <2>. QED BY <2>1, <1>6
  <1>. QED BY <1>2, <1>5, <1>6, <1>7, <1>8, <1>9, <1>10 DEF ZoneOrder

(* The first place of m..n that holds an idle empty zone, and the last.      *)
FirstAt(b, s, m, n, z) ==
    \/ z = None /\ \A i \in m..n : s[i] \notin IdleEmpty(b)
    \/ \E i \in m..n : /\ z = s[i] /\ z \in IdleEmpty(b) /\ z # None
                       /\ \A j \in m..n : j < i => s[j] \notin IdleEmpty(b)

LastAt(b, s, m, n, z) ==
    \/ z = None /\ \A i \in m..n : s[i] \notin IdleEmpty(b)
    \/ \E i \in m..n : /\ z = s[i] /\ z \in IdleEmpty(b) /\ z # None
                       /\ \A j \in m..n : i < j => s[j] \notin IdleEmpty(b)

LEMMA PartOf ==
  ASSUME NEW s, NEW m \in Int, NEW n \in Int
  PROVE  /\ Len(SubSeq(s, m, n)) = IF m <= n THEN n - m + 1 ELSE 0
         /\ \A i \in 1..(n - m + 1) : SubSeq(s, m, n)[i] = s[m + i - 1]
  <1>. DEFINE S == {s[i] : i \in m..n}
  <1>1. \A i \in m..n : s[i] \in S OBVIOUS
  <1>. HIDE DEF S
  <1>. QED BY <1>1, SubSeqProperties

\* The helpers that search a part of the sorted zones.
LEMMA FirstOf ==
  ASSUME NEW b, NEW s, NEW m \in Int, NEW n \in Int
  PROVE  FirstAt(b, s, m, n, FirstEmpty(b, SubSeq(s, m, n)))
  <1>. DEFINE t == SubSeq(s, m, n)
              z == FirstEmpty(b, t)
              k == IF m <= n THEN n - m + 1 ELSE 0
  <1>1. Len(t) = k /\ \A i \in 1..(n - m + 1) : t[i] = s[m + i - 1] BY PartOf
  <1>. HIDE DEF t
  <1>2. \A i \in m..n : i - m + 1 \in 1..k /\ t[i - m + 1] = s[i]
    <2>. TAKE i \in m..n
    <2>1. i - m + 1 \in 1..(n - m + 1) /\ m + (i - m + 1) - 1 = i /\ m <= n OBVIOUS
    <2>2. t[i - m + 1] = s[m + (i - m + 1) - 1] BY <2>1, <1>1
    <2>. QED BY <2>1, <2>2
  <1>3. CASE z = None /\ \A i \in 1..Len(t) : t[i] \notin IdleEmpty(b)
    <2>1. \A i \in m..n : s[i] \notin IdleEmpty(b) BY <1>1, <1>2, <1>3
    <2>. QED BY <1>3, <2>1 DEF FirstAt, t
  <1>4. ASSUME NEW i \in 1..Len(t), z = t[i], t[i] \in IdleEmpty(b), t[i] # None,
               \A j \in 1..Len(t) : j < i => t[j] \notin IdleEmpty(b)
        PROVE  FirstAt(b, s, m, n, z)
    <2>1. i \in 1..k /\ m <= n BY <1>1, <1>4
    <2>2. m + i - 1 \in m..n /\ t[i] = s[m + i - 1] BY <2>1, <1>1
    <2>3. ASSUME NEW j \in m..n, j < m + i - 1 PROVE s[j] \notin IdleEmpty(b)
      <3>1. j - m + 1 \in 1..k /\ t[j - m + 1] = s[j] BY <1>2
      <3>2. j - m + 1 < i BY <2>1, <2>3
      <3>. QED BY <3>1, <3>2, <1>1, <1>4
    <2>. HIDE DEF z
    <2>. QED BY <1>4, <2>2, <2>3 DEF FirstAt
  <1>. QED BY <1>3, <1>4, FirstEmptyIsIdle DEF t

LEMMA LastOf ==
  ASSUME NEW b, NEW s, NEW m \in Int, NEW n \in Int
  PROVE  LastAt(b, s, m, n, FirstEmpty(b, Reverse(SubSeq(s, m, n))))
  <1>. DEFINE t == SubSeq(s, m, n)
              r == Reverse(t)
              z == FirstEmpty(b, r)
              k == IF m <= n THEN n - m + 1 ELSE 0
  <1>1. Len(t) = k /\ \A i \in 1..(n - m + 1) : t[i] = s[m + i - 1] BY PartOf
  <1>. HIDE DEF t
  <1>2. k \in Nat OBVIOUS
  <1>3. r = [i \in 1..k |-> t[(k - i) + 1]] BY <1>1 DEF Reverse
  <1>4. Len(r) = k /\ \A i \in 1..k : r[i] = t[(k - i) + 1]
    <2>. HIDE DEF k
    <2>. QED BY <1>2, <1>3
  <1>. HIDE DEF r
  <1>5. \A i \in 1..k : r[i] = s[n - i + 1] /\ n - i + 1 \in m..n
    <2>. TAKE i \in 1..k
    <2>1. m <= n /\ (k - i) + 1 \in 1..(n - m + 1) /\ m + ((k - i) + 1) - 1 = n - i + 1
      OBVIOUS
    <2>. QED BY <2>1, <1>1, <1>4
  <1>6. \A i \in m..n : n - i + 1 \in 1..k /\ r[n - i + 1] = s[i]
    <2>. TAKE i \in m..n
    <2>1. n - i + 1 \in 1..k /\ n - (n - i + 1) + 1 = i OBVIOUS
    <2>2. r[n - i + 1] = s[n - (n - i + 1) + 1] BY <2>1, <1>5
    <2>. QED BY <2>1, <2>2
  <1>7. CASE z = None /\ \A i \in 1..Len(r) : r[i] \notin IdleEmpty(b)
    <2>1. \A i \in m..n : s[i] \notin IdleEmpty(b) BY <1>4, <1>6, <1>7
    <2>. QED BY <1>7, <2>1 DEF LastAt, t, r
  <1>8. ASSUME NEW i \in 1..Len(r), z = r[i], r[i] \in IdleEmpty(b), r[i] # None,
               \A j \in 1..Len(r) : j < i => r[j] \notin IdleEmpty(b)
        PROVE  LastAt(b, s, m, n, z)
    <2>1. i \in 1..k BY <1>4, <1>8
    <2>2. n - i + 1 \in m..n /\ r[i] = s[n - i + 1] BY <2>1, <1>5
    <2>3. ASSUME NEW j \in m..n, n - i + 1 < j PROVE s[j] \notin IdleEmpty(b)
      <3>1. n - j + 1 \in 1..k /\ r[n - j + 1] = s[j] BY <1>6
      <3>2. n - j + 1 < i BY <2>1, <2>3
      <3>. QED BY <3>1, <3>2, <1>4, <1>8
    <2>. HIDE DEF z
    <2>. QED BY <1>8, <2>2, <2>3 DEF LastAt
  <1>. QED BY <1>7, <1>8, FirstEmptyIsIdle DEF t, r

LEMMA DivInt ==
  ASSUME NEW a \in Int, NEW c \in Nat \ {0}
  PROVE  a \div c \in Int
  OBVIOUS

LEMMA DivMonotone ==
  ASSUME NEW a \in Int, NEW d \in Int, NEW c \in Nat \ {0}, a <= d
  PROVE  a \div c <= d \div c
  OBVIOUS

LEMMA DivExact ==
  ASSUME NEW a \in Int, NEW c \in Nat \ {0}
  PROVE  (a * c) \div c = a
  OBVIOUS

LEMMA DivCeiling ==
  ASSUME NEW a \in Int, NEW c \in Nat \ {0}
  PROVE  a \div c <= -((-a) \div c)
  OBVIOUS

\* The interval of a level: within the zones, and lower for a hotter level.
LEMMA IntervalBounds ==
  ASSUME NEW l \in Int, l > 0, max_level \in 1..TopLevel
  PROVE  /\ PerfectInterval(l).lower \in 0..NrZones
         /\ PerfectInterval(l).upper \in Int
         /\ PerfectInterval(l).upper <= NrZones
         /\ PerfectInterval(l).lower <= PerfectInterval(l).upper
  <1>. DEFINE levels == Max({max_level, l})
              lo == (NrZones * (l - 1)) \div levels
              u == -((-NrZones * l) \div levels)
  <1>1. levels \in Nat \ {0} /\ levels >= l
    <2>1. max_level \in Int /\ max_level > 0 BY PlacementAssumption
    <2>2. levels \in Int /\ levels >= max_level /\ levels >= l BY ONLY <2>1, l \in Int, MaxTwo
    <2>. QED BY <2>1, <2>2
  <1>2. PerfectInterval(l) = [lower |-> lo, upper |-> Min({NrZones, u})]
    BY DEF PerfectInterval
  <1>. HIDE DEF levels
  <1>3. NrZones \in Int /\ NrZones >= 0 BY PlacementAssumption
  <1>4. /\ (NrZones * (l - 1)) \in Int /\ (-NrZones * l) \in Int /\ NrZones * l \in Int
        /\ -(NrZones * l) = -NrZones * l
        /\ NrZones * levels \in Int
    BY <1>1, <1>3
  <1>5. /\ NrZones * (l - 1) >= 0
        /\ NrZones * (l - 1) <= NrZones * l
        /\ NrZones * (l - 1) <= NrZones * levels
    BY <1>1, <1>3
  <1>6. lo \in Int /\ u \in Int
    <2>1. lo \in Int /\ (-NrZones * l) \div levels \in Int BY <1>1, <1>4, DivInt
    <2>. QED BY <2>1
  <1>7. lo >= 0
    <2>1. 0 \div levels <= lo BY <1>1, <1>4, <1>5, DivMonotone
    <2>2. 0 \div levels = 0 BY <1>1
    <2>. QED BY <2>1, <2>2, <1>6
  <1>8. lo <= NrZones
    <2>1. lo <= (NrZones * levels) \div levels BY <1>1, <1>4, <1>5, DivMonotone
    <2>2. (NrZones * levels) \div levels = NrZones BY <1>1, <1>3, DivExact
    <2>. QED BY <2>1, <2>2
  <1>9. lo <= u
    <2>1. lo <= (NrZones * l) \div levels BY <1>1, <1>4, <1>5, DivMonotone
    <2>2. (NrZones * l) \div levels <= -((-(NrZones * l)) \div levels) BY <1>1, <1>4, DivCeiling
    <2>3. (NrZones * l) \div levels \in Int BY <1>1, <1>4, DivInt
    <2>4. -((-(NrZones * l)) \div levels) = u BY <1>4
    <2>. QED BY <2>1, <2>2, <2>3, <2>4, <1>6
  <1>. HIDE DEF lo, u
  <1>10. /\ Min({NrZones, u}) \in {NrZones, u} /\ Min({NrZones, u}) \in Int
         /\ Min({NrZones, u}) <= NrZones
    BY ONLY <1>3, <1>6, MinTwo
  <1>. QED BY <1>2, <1>3, <1>6, <1>7, <1>8, <1>9, <1>10

LEMMA IntervalMonotone ==
  ASSUME max_level \in 1..TopLevel, NEW k \in 1..max_level, NEW l \in 1..max_level, k <= l
  PROVE  /\ PerfectInterval(k).lower <= PerfectInterval(l).lower
         /\ PerfectInterval(k).upper <= PerfectInterval(l).upper
  <1>1. /\ max_level \in Nat \ {0} /\ max_level \in Int /\ NrZones \in Nat /\ k \in Int
        /\ l \in Int
    BY PlacementAssumption
  <1>2. Max({max_level, k}) = max_level /\ Max({max_level, l}) = max_level
    <2>1. k <= max_level /\ l <= max_level OBVIOUS
    <2>2. ASSUME NEW i \in Int, i <= max_level PROVE Max({max_level, i}) = max_level
      <3>1. max_level \in Int BY <1>1
      <3>2. \A y \in {max_level, i} : y <= max_level BY <3>1, <2>2
      <3>. QED BY <3>1, <3>2, <2>2, MaxOf
    <2>. QED BY <1>1, <2>1, <2>2
  <1>. DEFINE lower(i) == (NrZones * (i - 1)) \div max_level
              u(i) == -((-NrZones * i) \div max_level)
  <1>3. /\ PerfectInterval(k) = [lower |-> lower(k), upper |-> Min({NrZones, u(k)})]
        /\ PerfectInterval(l) = [lower |-> lower(l), upper |-> Min({NrZones, u(l)})]
    BY <1>2 DEF PerfectInterval
  <1>4. /\ NrZones * (k - 1) \in Int /\ NrZones * (l - 1) \in Int
        /\ -NrZones * k \in Int /\ -NrZones * l \in Int
    BY <1>1
  <1>5. /\ NrZones * (k - 1) <= NrZones * (l - 1)
        /\ -NrZones * l <= -NrZones * k
    BY <1>1
  <1>6. lower(k) <= lower(l) BY <1>1, <1>4, <1>5, DivMonotone
  <1>9. u(k) <= u(l) /\ u(k) \in Int /\ u(l) \in Int
    <2>1. (-NrZones * l) \div max_level <= (-NrZones * k) \div max_level
      BY <1>1, <1>4, <1>5, DivMonotone
    <2>2. (-NrZones * l) \div max_level \in Int /\ (-NrZones * k) \div max_level \in Int
      BY <1>1, <1>4, DivInt
    <2>. QED BY <2>1, <2>2
  <1>. HIDE DEF lower, u
  <1>10. Min({NrZones, u(k)}) <= Min({NrZones, u(l)}) /\ Min({NrZones, u(l)}) \in Int
    <2>1. /\ Min({NrZones, u(k)}) \in Int
          /\ Min({NrZones, u(k)}) <= u(k) /\ Min({NrZones, u(k)}) <= NrZones
          /\ Min({NrZones, u(l)}) \in {NrZones, u(l)} /\ Min({NrZones, u(l)}) \in Int
      <3>1. NrZones \in Int BY <1>1
      <3>2. /\ Min({NrZones, u(k)}) \in Int
            /\ Min({NrZones, u(k)}) <= u(k) /\ Min({NrZones, u(k)}) <= NrZones
        BY ONLY <3>1, <1>9, MinTwo
      <3>3. Min({NrZones, u(l)}) \in {NrZones, u(l)} /\ Min({NrZones, u(l)}) \in Int
        BY ONLY <3>1, <1>9, MinTwo
      <3>. QED BY <3>2, <3>3
    <2>. QED BY <2>1, <1>1, <1>9
  <1>. QED BY <1>1, <1>3, <1>6, <1>10

(* Place c of the zones s sorted by wear is chosen for the interval lo..up:  *)
(* the first in it, else the nearest outside.                                *)
Inside(b, s, lo, up, c) ==
    c > lo /\ c <= up /\ \A i \in Zone : lo < i /\ i < c => s[i] \notin IdleEmpty(b)

Upwards(b, s, lo, up, c) ==
    /\ c > up
    /\ \A i \in Zone : lo < i /\ i < c => s[i] \notin IdleEmpty(b)
    /\ \A i \in Zone : i <= lo /\ s[i] \in IdleEmpty(b) => ~(lo - (i - 1) < (c - 1) - up)

Downwards(b, s, lo, up, c) ==
    /\ c <= lo
    /\ \A i \in Zone : c < i /\ (i <= lo \/ i <= up) => s[i] \notin IdleEmpty(b)
    /\ \A i \in Zone : i > up /\ s[i] \in IdleEmpty(b) => lo - (c - 1) < (i - 1) - up

Chosen(b, s, lo, up, c) ==
    /\ c \in Zone /\ s[c] \in IdleEmpty(b)
    /\ \/ Inside(b, s, lo, up, c)
       \/ Upwards(b, s, lo, up, c)
       \/ Downwards(b, s, lo, up, c)

\* Of two levels the hotter is given a zone earlier in the order.
LEMMA ChosenMonotone ==
  ASSUME NEW b, NEW s, NEW lo1 \in Int, NEW up1 \in Int, NEW lo2 \in Int, NEW up2 \in Int,
         lo1 <= lo2, up1 <= up2, lo2 <= up2, NEW c1, NEW c2,
         Chosen(b, s, lo1, up1, c1), Chosen(b, s, lo2, up2, c2)
  PROVE  c1 <= c2
  <1>1. c1 \in Zone /\ c2 \in Zone /\ c1 \in Int /\ c2 \in Int BY DEF Chosen, Zone
  <1>2. s[c1] \in IdleEmpty(b) /\ s[c2] \in IdleEmpty(b) BY DEF Chosen
  <1>. SUFFICES ASSUME c2 < c1 PROVE FALSE BY <1>1
  <1>3. ~Downwards(b, s, lo1, up1, c1) \/ c1 <= lo1 BY DEF Downwards
  <1>4. CASE Inside(b, s, lo1, up1, c1)
    <2>1. c2 <= lo1 BY <1>4, <1>1, <1>2 DEF Inside
    <2>2. Downwards(b, s, lo2, up2, c2) BY <2>1, <1>1 DEF Chosen, Inside, Upwards, Downwards
    <2>. QED BY <1>1, <1>2, <1>4, <2>2 DEF Inside, Downwards
  <1>5. CASE Upwards(b, s, lo1, up1, c1)
    <2>1. c2 <= lo1 BY <1>5, <1>1, <1>2 DEF Upwards
    <2>2. Downwards(b, s, lo2, up2, c2) BY <2>1, <1>1 DEF Chosen, Inside, Upwards, Downwards
    <2>3. c1 > up2 BY <1>1, <1>2, <2>2 DEF Downwards
    <2>4. lo2 - (c2 - 1) < (c1 - 1) - up2 BY <1>1, <1>2, <2>2, <2>3 DEF Downwards
    <2>5. ~(lo1 - (c2 - 1) < (c1 - 1) - up1) BY <1>1, <1>2, <1>5, <2>1 DEF Upwards
    <2>. QED BY <1>1, <2>4, <2>5
  <1>6. CASE Downwards(b, s, lo1, up1, c1)
    <2>1. c1 <= lo2 BY <1>1, <1>6 DEF Downwards
    <2>2. Downwards(b, s, lo2, up2, c2)
      BY <2>1, <1>1, <1>2 DEF Chosen, Inside, Upwards, Downwards
    <2>. QED BY <1>1, <1>2, <2>1, <2>2 DEF Downwards
  <1>. QED BY <1>4, <1>5, <1>6 DEF Chosen

(* The place of a zone in the sorted zones. *)
LEMMA PlaceOfZone ==
  ASSUME NEW s, ZoneOrder(s), NEW i \in Zone
  PROVE  LET I == {j \in 1..Len(s) : s[j] = s[i]}
         IN  (IF I # {} THEN Min(I) ELSE 0) = i
  <1>. DEFINE I == {j \in 1..Len(s) : s[j] = s[i]}
  <1>2. I = {i} BY DEF ZoneOrder, Zone
  <1>3. Min({i}) = i
    <2>1. {i} \in SUBSET Nat /\ {i} # {} BY DEF Zone
    <2>2. Min({i}) \in {i} BY <2>1, MinOf
    <2>. QED BY <2>2
  <1>. HIDE DEF I
  <1>4. (IF I # {} THEN Min(I) ELSE 0) = i BY <1>2, <1>3
  <1>. QED BY <1>4 DEF I

\* AllocateEmptyZoneHotnessBased makes such a choice.
LEMMA HotnessChoice ==
  ASSUME NEW b, NEW l \in Int, l > 0, resets \in [Zone -> Nat], max_level \in 1..TopLevel
  PROVE  \/ AllocateEmptyZoneHotnessBased(b, l) = None /\ IdleEmpty(b) = {}
         \/ \E c : /\ Chosen(b, ZonesByWear, PerfectInterval(l).lower,
                             PerfectInterval(l).upper, c)
                   /\ AllocateEmptyZoneHotnessBased(b, l) = ZonesByWear[c]
  <1>. DEFINE s == ZonesByWear
              p == PerfectInterval(l)
              lo == p.lower
              up == p.upper
              ideal == FirstEmpty(b, SubSeq(s, lo + 1, up))
              above == FirstEmpty(b, SubSeq(s, up + 1, NrZones))
              below == FirstEmpty(b, Reverse(SubSeq(s, 1, lo)))
              place(z) == SelectInSeq(s, LAMBDA y : y = z) - 1
              out == AllocateEmptyZoneHotnessBased(b, l)
              Idle(i) == s[i] \in IdleEmpty(b)
  <1>1. ZoneOrder(s) BY ZonesByWearOrder
  <1>2. /\ lo \in Int /\ up \in Int /\ NrZones \in Int /\ lo >= 0 /\ lo <= NrZones
        /\ up <= NrZones /\ lo <= up
    BY IntervalBounds, PlacementAssumption
  <1>3. /\ ideal # None => out = ideal
        /\ ideal = None /\ below = None => out = above
        /\ ideal = None /\ below # None /\ above = None => out = below
        /\ ideal = None /\ below # None /\ above # None =>
             out = IF lo - place(below) < place(above) - up THEN below ELSE above
    BY DEF AllocateEmptyZoneHotnessBased
  <1>4. FirstAt(b, s, lo + 1, up, ideal) BY <1>2, FirstOf
  <1>5. FirstAt(b, s, up + 1, NrZones, above) BY <1>2, FirstOf
  <1>6. LastAt(b, s, 1, lo, below) BY <1>2, LastOf
  <1>7. ASSUME NEW i \in Zone PROVE place(s[i]) = i - 1
    <2>. HIDE DEF s
    <2>1. LET I == {j \in 1..Len(s) : s[j] = s[i]} IN (IF I # {} THEN Min(I) ELSE 0) = i
      BY <1>1, PlaceOfZone
    <2>. QED BY <2>1 DEF SelectInSeq
  <1>8. \A z \in Zone : \E i \in Zone : s[i] = z BY <1>1 DEF ZoneOrder
  <1>9. /\ \A i \in Zone : i \in Int /\ (i \in 1..lo \/ i \in (lo + 1)..up \/ i \in (up + 1)..NrZones)
        /\ 1..lo \subseteq Zone /\ (lo + 1)..up \subseteq Zone /\ (up + 1)..NrZones \subseteq Zone
    BY <1>2, SMTT(40) DEF Zone
  <1>. HIDE DEF s, p, ideal, above, below, place, out
  <1>10. CASE ideal # None
    <2>1. PICK c \in (lo + 1)..up : ideal = s[c] /\ Idle(c) /\ \A j \in (lo + 1)..up : j < c => ~Idle(j)
      BY <1>4, <1>10 DEF FirstAt
    <2>2. Inside(b, s, lo, up, c) BY <2>1, <1>2, <1>9 DEF Inside
    <2>3. c \in Zone BY <2>1, <1>9
    <2>4. Chosen(b, s, lo, up, c) BY <2>1, <2>2, <2>3 DEF Chosen
    <2>5. out = s[c] BY <2>1, <1>3, <1>10
    <2>. QED BY <2>4, <2>5 DEF s, p, out
  <1>11. ASSUME ideal = None PROVE \A i \in (lo + 1)..up : ~Idle(i)
    BY <1>4, <1>11 DEF FirstAt
  <1>12. ASSUME below = None PROVE \A i \in 1..lo : ~Idle(i)
    BY <1>6, <1>12 DEF LastAt
  <1>13. ASSUME above = None PROVE \A i \in (up + 1)..NrZones : ~Idle(i)
    BY <1>5, <1>13 DEF FirstAt
  <1>14. ASSUME above # None
         PROVE  \E c \in (up + 1)..NrZones :
                   above = s[c] /\ Idle(c) /\ \A j \in (up + 1)..NrZones : j < c => ~Idle(j)
    BY <1>5, <1>14 DEF FirstAt
  <1>15. ASSUME below # None
         PROVE  \E c \in 1..lo : below = s[c] /\ Idle(c) /\ \A j \in 1..lo : c < j => ~Idle(j)
    BY <1>6, <1>15 DEF LastAt
  <1>16. CASE ideal = None /\ below = None /\ above = None
    <2>1. out = None BY <1>3, <1>16
    <2>2. \A i \in Zone : ~Idle(i) BY <1>9, <1>11, <1>12, <1>13, <1>16
    <2>3. IdleEmpty(b) = {} BY <2>2, <1>8 DEF IdleEmpty
    <2>. QED BY <2>1, <2>3 DEF out
  <1>17. CASE ideal = None /\ below = None /\ above # None
    <2>1. PICK c \in (up + 1)..NrZones :
             above = s[c] /\ Idle(c) /\ \A j \in (up + 1)..NrZones : j < c => ~Idle(j)
      BY <1>14, <1>17
    <2>2. c \in Zone /\ c \in Int BY <2>1, <1>9
    <2>3. Upwards(b, s, lo, up, c)
      <3>1. c > up BY <1>2, <2>2
      <3>2. \A i \in Zone : lo < i /\ i < c => ~Idle(i) BY <1>2, <1>9, <1>11, <1>17, <2>1, <2>2
      <3>3. \A i \in Zone : i <= lo => ~Idle(i) BY <1>2, <1>9, <1>12, <1>17
      <3>. QED BY <3>1, <3>2, <3>3 DEF Upwards
    <2>4. Chosen(b, s, lo, up, c) BY <2>1, <2>2, <2>3 DEF Chosen
    <2>5. out = s[c] BY <2>1, <1>3, <1>17
    <2>. QED BY <2>4, <2>5 DEF s, p, out
  <1>18. CASE ideal = None /\ below # None /\ above = None
    <2>1. PICK c \in 1..lo : below = s[c] /\ Idle(c) /\ \A j \in 1..lo : c < j => ~Idle(j)
      BY <1>15, <1>18
    <2>2. c \in Zone /\ c \in Int /\ c <= lo BY <2>1, <1>2, <1>9
    <2>3. Downwards(b, s, lo, up, c)
      <3>1. \A i \in Zone : c < i /\ (i <= lo \/ i <= up) => ~Idle(i)
        BY <1>2, <1>9, <1>11, <1>18, <2>1, <2>2
      <3>2. \A i \in Zone : i > up => ~Idle(i) BY <1>2, <1>9, <1>13, <1>18
      <3>. QED BY <2>2, <3>1, <3>2 DEF Downwards
    <2>4. Chosen(b, s, lo, up, c) BY <2>1, <2>2, <2>3 DEF Chosen
    <2>5. out = s[c] BY <2>1, <1>3, <1>18
    <2>. QED BY <2>4, <2>5 DEF s, p, out
  <1>19. CASE ideal = None /\ below # None /\ above # None
    <2>1. PICK c \in 1..lo : below = s[c] /\ Idle(c) /\ \A j \in 1..lo : c < j => ~Idle(j)
      BY <1>15, <1>19
    <2>2. PICK d \in (up + 1)..NrZones :
             above = s[d] /\ Idle(d) /\ \A j \in (up + 1)..NrZones : j < d => ~Idle(j)
      BY <1>14, <1>19
    <2>3. c \in Zone /\ c \in Int /\ c <= lo /\ d \in Zone /\ d \in Int /\ d > up
      BY <2>1, <2>2, <1>2, <1>9
    <2>4. place(below) = c - 1 /\ place(above) = d - 1 BY <1>7, <2>1, <2>2, <2>3
    <2>5. out = IF lo - (c - 1) < (d - 1) - up THEN s[c] ELSE s[d]
      BY <1>3, <1>19, <2>1, <2>2, <2>4
    <2>6. CASE lo - (c - 1) < (d - 1) - up
      <3>1. \A i \in Zone : c < i /\ (i <= lo \/ i <= up) => ~Idle(i)
        BY <1>2, <1>9, <1>11, <1>19, <2>1, <2>3
      <3>2. \A i \in Zone : i > up /\ Idle(i) => i >= d BY <1>2, <1>9, <2>2, <2>3
      <3>3. \A i \in Zone : i > up /\ Idle(i) => lo - (c - 1) < (i - 1) - up
        BY <3>2, <1>2, <1>9, <2>3, <2>6
      <3>4. Downwards(b, s, lo, up, c) BY <2>3, <3>1, <3>3 DEF Downwards
      <3>5. Chosen(b, s, lo, up, c) BY <2>1, <2>3, <3>4 DEF Chosen
      <3>. QED BY <3>5, <2>5, <2>6 DEF s, p, out
    <2>7. CASE ~(lo - (c - 1) < (d - 1) - up)
      <3>1. \A i \in Zone : lo < i /\ i < d => ~Idle(i) BY <1>2, <1>9, <1>11, <1>19, <2>2, <2>3
      <3>2. \A i \in Zone : i <= lo /\ Idle(i) => i <= c BY <1>2, <1>9, <2>1, <2>3
      <3>3. \A i \in Zone : i <= lo /\ Idle(i) => ~(lo - (i - 1) < (d - 1) - up)
        BY <3>2, <1>2, <1>9, <2>3, <2>7
      <3>4. Upwards(b, s, lo, up, d) BY <2>3, <3>1, <3>3 DEF Upwards
      <3>5. Chosen(b, s, lo, up, d) BY <2>2, <2>3, <3>4 DEF Chosen
      <3>. QED BY <3>5, <2>5, <2>7 DEF s, p, out
    <2>. QED BY <2>6, <2>7
  <1>. QED BY <1>10, <1>16, <1>17, <1>18, <1>19

(* AllocateEmptyZone hands over an idle empty zone, or none if there is none. *)
LEMMA EmptyZoneFound ==
  ASSUME NEW b \in SUBSET Zone, NEW l \in Int, Typed, NEW z \in AllocateEmptyZone(b, l)
  PROVE  z \in IdleEmpty(b) \cup {None} /\ (z = None => IdleEmpty(b) = {})
  <1>1. /\ param.allocator \in Allocators /\ resets \in [Zone -> Nat] /\ zone_pos \in Zone
        /\ max_level \in 1..TopLevel /\ NrZones \in Nat
    BY PlacementAssumption DEF Typed
  <1>2. ASSUME NEW zones, Len(zones) = NrZones, \A y \in Zone : \E i \in 1..NrZones : zones[i] = y,
               z = FirstEmpty(b, zones)
        PROVE  z \in IdleEmpty(b) \cup {None} /\ (z = None => IdleEmpty(b) = {})
    BY <1>2, FirstEmptyFinds DEF IdleEmpty
  <1>3. CASE param.allocator = "Default"
    <2>1. z = FirstEmpty(b, io_zones) BY <1>3 DEF AllocateEmptyZone
    <2>2. Len(io_zones) = NrZones /\ \A y \in Zone : \E i \in 1..NrZones : io_zones[i] = y
      BY <1>1 DEF io_zones, Zone
    <2>. QED BY <2>1, <2>2, <1>2
  <1>4. CASE param.allocator = "Sequential"
    <2>1. z = FirstEmpty(b, FromPos) BY <1>4 DEF AllocateEmptyZone
    <2>2. \A y \in Zone : \E i \in 1..NrZones : FromPos[i] = y BY <1>1, FromPosCovers
    <2>3. Len(FromPos) = NrZones BY <1>1, FromPosCovers
    <2>. QED BY <2>1, <2>2, <2>3, <1>2
  <1>5. CASE param.allocator = "Random"
    <2>1. z \in IF IdleEmpty(b) = {} THEN {None} ELSE IdleEmpty(b)
      BY <1>5 DEF AllocateEmptyZone
    <2>2. None \notin IdleEmpty(b) BY PlacementAssumption DEF IdleEmpty
    <2>. QED BY <2>1, <2>2
  <1>6. CASE param.allocator = "LeastWear"
    <2>1. z = AllocateEmptyZoneLeastWear(b) BY <1>6 DEF AllocateEmptyZone
    <2>. QED BY <2>1, <1>1, LeastWearFinds
  <1>7. CASE param.allocator = "Hotness"
    <2>1. z = AllocateEmptyZoneHotnessBased(b, l) BY <1>7 DEF AllocateEmptyZone
    <2>2. CASE l <= 0
      <3>1. z = AllocateEmptyZoneLeastWear(b) BY <2>1, <2>2 DEF AllocateEmptyZoneHotnessBased
      <3>. QED BY <3>1, <1>1, LeastWearFinds
    <2>3. CASE ~(l <= 0)
      <3>1. l > 0 BY <2>3
      <3>2. CASE z = None /\ IdleEmpty(b) = {} BY <3>2
      <3>3. CASE \E c : /\ Chosen(b, ZonesByWear, PerfectInterval(l).lower,
                                  PerfectInterval(l).upper, c)
                        /\ z = ZonesByWear[c]
        <4>1. z \in IdleEmpty(b) BY <3>3 DEF Chosen
        <4>. QED BY <4>1, PlacementAssumption DEF IdleEmpty
      <3>. QED BY <2>1, <3>1, <3>2, <3>3, <1>1, HotnessChoice
    <2>. QED BY <2>2, <2>3
  <1>. QED BY <1>1, <1>3, <1>4, <1>5, <1>6, <1>7 DEF Allocators

(* The wear-aware allocator and the levels. *)
LEMMA WornByLevel ==
  ASSUME NEW b \in SUBSET Zone, Typed, NEW l \in 0..max_level, NEW k \in 0..l,
         param.allocator \in {"LeastWear", "Hotness"},
         NEW z \in AllocateEmptyZone(b, l), z # None, NEW y \in AllocateEmptyZone(b, k)
  PROVE  resets[y] <= resets[z]
  <1>1. /\ resets \in [Zone -> Nat] /\ max_level \in 1..TopLevel /\ l \in Int /\ k \in Int
        /\ TopLevel \in Nat
    BY PlacementAssumption DEF Typed
  <1>2. z \in IdleEmpty(b) BY <1>1, EmptyZoneFound
  <1>3. y \in IdleEmpty(b) BY <1>1, <1>2, EmptyZoneFound
  <1>4. resets[y] \in Nat /\ resets[z] \in Nat BY <1>1, <1>2, <1>3 DEF IdleEmpty
  <1>5. CASE param.allocator = "LeastWear"
    <2>1. z = AllocateEmptyZoneLeastWear(b) /\ y = z BY <1>5 DEF AllocateEmptyZone
    <2>. QED BY <2>1, <1>4
  <1>6. CASE param.allocator = "Hotness"
    <2>1. z = AllocateEmptyZoneHotnessBased(b, l) /\ y = AllocateEmptyZoneHotnessBased(b, k)
      BY <1>6 DEF AllocateEmptyZone
    <2>2. CASE k = 0
      <3>1. y = AllocateEmptyZoneLeastWear(b) BY <2>1, <2>2 DEF AllocateEmptyZoneHotnessBased
      <3>2. y # None BY <1>3, PlacementAssumption DEF IdleEmpty
      <3>. QED BY <3>1, <3>2, <1>1, <1>2, LeastWearFinds
    <2>3. CASE k # 0
      <3>1. k > 0 /\ l > 0 /\ k \in 1..max_level /\ l \in 1..max_level /\ k <= l BY <2>3, <1>1
      <3>. DEFINE s == ZonesByWear
                  p == PerfectInterval(k)
                  q == PerfectInterval(l)
      <3>2. PICK c : Chosen(b, s, p.lower, p.upper, c) /\ y = s[c]
        BY <3>1, <2>1, <1>1, <1>3, HotnessChoice
      <3>3. PICK d : Chosen(b, s, q.lower, q.upper, d) /\ z = s[d]
        BY <3>1, <2>1, <1>1, <1>2, HotnessChoice
      <3>4. p.lower <= q.lower /\ p.upper <= q.upper BY <3>1, <1>1, IntervalMonotone
      <3>5. /\ p.lower \in Int /\ p.upper \in Int /\ q.lower \in Int /\ q.upper \in Int
            /\ q.lower <= q.upper
        BY <3>1, <1>1, IntervalBounds
      <3>6. ZoneOrder(s) BY <1>1, ZonesByWearOrder
      <3>. HIDE DEF s, p, q
      <3>7. c <= d BY <3>2, <3>3, <3>4, <3>5, ChosenMonotone
      <3>8. c \in Zone /\ d \in Zone BY <3>2, <3>3 DEF Chosen
      <3>. QED BY <3>2, <3>3, <3>6, <3>7, <3>8 DEF ZoneOrder
    <2>. QED BY <2>2, <2>3
  <1>. QED BY <1>5, <1>6

(* EmptyZoneBest follows from the types of the variables alone. *)
LEMMA TypedEmptyZoneBest ==
  ASSUME Typed, busy \subseteq Zone
  PROVE  EmptyZoneBest
  <1>. SUFFICES ASSUME NEW l \in 0..max_level, NEW z \in AllocateEmptyZone(busy, l)
       PROVE  /\ IF z = None THEN IdleEmpty(busy) = {} ELSE z \in IdleEmpty(busy)
              /\ param.allocator \in {"LeastWear", "Hotness"} /\ z # None =>
                   \A k \in 0..l : \A y \in AllocateEmptyZone(busy, k) :
                       resets[y] <= resets[z]
              /\ (param.allocator = "LeastWear" \/ (param.allocator = "Hotness" /\ l = 0))
                   /\ z # None => \A y \in IdleEmpty(busy) : resets[z] <= resets[y]
    BY DEF EmptyZoneBest
  <1>1. l \in Int /\ resets \in [Zone -> Nat] BY DEF Typed
  <1>2. z \in IdleEmpty(busy) \cup {None} /\ (z = None => IdleEmpty(busy) = {})
    BY <1>1, EmptyZoneFound
  <1>3. ASSUME param.allocator \in {"LeastWear", "Hotness"}, z # None,
               NEW k \in 0..l, NEW y \in AllocateEmptyZone(busy, k)
        PROVE  resets[y] <= resets[z]
    BY <1>3, WornByLevel
  <1>4. ASSUME param.allocator = "LeastWear" \/ (param.allocator = "Hotness" /\ l = 0), z # None
        PROVE  \A y \in IdleEmpty(busy) : resets[z] <= resets[y]
    <2>1. z = AllocateEmptyZoneLeastWear(busy)
      BY <1>4 DEF AllocateEmptyZone, AllocateEmptyZoneHotnessBased
    <2>. QED BY <2>1, <1>1, <1>4, LeastWearFinds
  <1>. QED BY <1>2, <1>3, <1>4

-----------------------------------------------------------------------------
(* AllocateIOZoneNoLock. *)

LEMMA CheapestIsIdle ==
  ASSUME NEW b, room \in [Zone -> 0..ZoneCap], FinishCheapestIOZone(b) # None
  PROVE  /\ FinishCheapestIOZone(b) \in Zone \ b
         /\ ~IsEmpty(FinishCheapestIOZone(b)) /\ ~IsFull(FinishCheapestIOZone(b))
  <1>. DEFINE idle == {z \in Zone \ b : ~IsEmpty(z) /\ ~IsFull(z)}
              R == {room[z] : z \in idle}
              least == {z \in idle : \A y \in idle : room[z] <= room[y]}
  <1>1. idle # {} /\ FinishCheapestIOZone(b) = Min(least)
    BY DEF FinishCheapestIOZone
  <1>2. R \in SUBSET Nat /\ R # {} BY <1>1
  <1>3. PICK n \in R : \A k \in R : n <= k BY <1>2, LeastNat
  <1>4. PICK z \in idle : room[z] = n BY <1>3
  <1>5. z \in least BY <1>3, <1>4
  <1>6. least \in SUBSET Nat BY DEF Zone
  <1>. HIDE DEF least
  <1>7. Min(least) \in least BY <1>5, <1>6, MinOf
  <1>. QED BY <1>1, <1>7 DEF least

(* An outcome of an allocation for file f: the zone was idle, and it is the  *)
(* match or a new, empty zone; no zone only if there is nothing to take.     *)
Allocated(f, min, o) ==
    /\ IsMatch(o.match, busy, Asked(f, min), Low(f))
    /\ o.match.busy \ {o.match.zone} = busy
    /\ o.zone \in (Zone \ busy) \cup {None}
    /\ o.victim # None => o.victim \in Zone \ busy /\ ~IsEmpty(o.victim)
    /\ o.new \in BOOLEAN
    /\ ~o.new => o.zone # None /\ Candidate(o.zone, Asked(f, min)) /\ o.victim = None
    /\ o.new => o.zone \in IdleEmpty(busy) \cup {None}
    /\ o.zone = None =>
         /\ IdleEmpty(busy) = {}
         /\ o.match.zone # None => ~(GetEmptyZoneCount <= param.reserve)
         /\ o.match.zone = None => \A z \in Zone \ busy : ~Candidate(z, Asked(f, min))

\* An allocation hands over what Allocated says.
LEMMA OutcomeIsAllocated ==
  ASSUME Typed, busy \subseteq Zone, NEW f \in File, NEW min, NEW o \in Allocations(f, min)
  PROVE  Allocated(f, min, o)
  <1>. DEFINE m == GetBestOpenZoneMatch(Unmatched(f), f, min)
              got == m.diff >= CouldBeWorse /\ Cardinality(ActiveZones) + leaked < MaxActive
              rest == m.busy \ {m.zone}
              victim == IF got THEN None ELSE FinishCheapestIOZone(rest)
  <1>1. IsMatch(m, busy, Asked(f, min), Low(f)) BY BestIsMatch
  <1>2. m.zone = None => \A z \in Zone \ busy : ~Candidate(z, Asked(f, min)) BY BestIsMatch
  <1>3. o \in Outcomes(m, got) BY DEF Allocations, TryToken
  <1>. HIDE DEF m, got
  <1>4. rest = busy BY <1>1, PlacementAssumption DEF IsMatch
  <1>5. m.level \in Int BY <1>1 DEF IsMatch, Low
  <1>6. m.zone # None => m.zone \in Zone \ busy /\ Candidate(m.zone, Asked(f, min))
    BY <1>1 DEF IsMatch
  <1>7. CASE Settle(m, got)
    <2>1. o = [match |-> m, zone |-> m.zone, new |-> FALSE, victim |-> None]
      BY <1>3, <1>7 DEF Outcomes
    <2>2. m.zone # None BY <1>7 DEF Settle
    <2>3. /\ o.match = m /\ o.zone = m.zone /\ o.new = FALSE /\ o.victim = None BY <2>1
    <2>. QED BY <1>1, <1>4, <1>6, <2>2, <2>3 DEF Allocated
  <1>8. CASE ~Settle(m, got)
    <2>1. PICK z \in AllocateEmptyZone(busy, m.level) :
            o = [match |-> m, zone |-> z, new |-> TRUE, victim |-> victim]
      BY <1>3, <1>4, <1>8 DEF Outcomes
    <2>2. o.match = m /\ o.zone = z /\ o.new = TRUE /\ o.victim = victim BY <2>1
    <2>3. z \in IdleEmpty(busy) \cup {None} /\ (z = None => IdleEmpty(busy) = {})
      BY <1>5, EmptyZoneFound
    <2>4. room \in [Zone -> 0..ZoneCap] BY DEF Typed
    <2>5. victim # None => victim \in Zone \ busy /\ ~IsEmpty(victim)
      BY <1>4, <2>4, CheapestIsIdle
    <2>6. m.zone # None => ~(GetEmptyZoneCount <= param.reserve) BY <1>8 DEF Settle
    <2>. HIDE DEF victim
    <2>7. z \in (Zone \ busy) \cup {None} BY <2>3 DEF IdleEmpty
    <2>. QED BY <1>1, <1>2, <1>4, <2>2, <2>3, <2>5, <2>6, <2>7 DEF Allocated
  <1>. QED BY <1>7, <1>8

-----------------------------------------------------------------------------
(* The inductive invariant. *)

(* A file holds a zone only while it is written. *)
ActiveOpen == \A f \in File : active[f] # None => Flushing(f)

(* A table has a level from the moment it is opened. *)
LevelKnown == \A f \in File : state[f] # "absent" /\ lsm[f].keys => level[f] >= 0

(* What the GC worker has still to do: extents of tables, which it finds in  *)
(* place unless the file was deleted, and a copy of the extents of the file  *)
(* it is migrating, which is closed.                                         *)
GCTyped ==
    /\ gc \in [on : {gc.on}, cold : {gc.cold},
               todo : SUBSET [file : File, place : Nat, zone : Zone],
               file : File \cup {None}, list : Seq(ExtentSet), copied : SUBSET Nat]
    /\ \A e \in gc.todo : /\ lsm[e.file].keys
                          /\ state[e.file] = "deleted" \/ e.place \in DOMAIN extents[e.file]
    /\ gc.file # None => /\ state[gc.file] = "closed"
                         /\ DOMAIN gc.list = DOMAIN extents[gc.file]

PlacementInv == Typed /\ ActiveOpen /\ LevelKnown /\ GCTyped /\ BusyExact

LEMMA BusyAreZones ==
  ASSUME Typed, BusyExact
  PROVE  busy \subseteq Zone
  BY DEF Typed, BusyExact

\* The initial states, and then one lemma per action.
LEMMA InitInv ==
  Init => PlacementInv
  <1>. SUFFICES ASSUME Init PROVE PlacementInv OBVIOUS
  <1>1. Typed BY PlacementAssumption DEF Init, Typed, Zone, NOT_SET
  <1>2. ActiveOpen BY DEF Init, ActiveOpen
  <1>3. LevelKnown BY DEF Init, LevelKnown
  <1>4. GCTyped BY PlacementAssumption DEF Init, GCTyped
  <1>5. BusyExact BY DEF Init, BusyExact
  <1>. QED BY <1>1, <1>2, <1>3, <1>4, <1>5 DEF PlacementInv

LEMMA OpenFileInv ==
  ASSUME PlacementInv, NEW f \in File, OpenFile(f)
  PROVE  PlacementInv'
  <1>. USE DEF PlacementInv
  <1>0. /\ state[f] = "absent" /\ state' = [state EXCEPT ![f] = "open"]
        /\ level' = [level EXCEPT ![f] = lsm[f].level]
        /\ left' = [left EXCEPT ![f] = lsm[f].size]
        /\ UNCHANGED <<param, lsm, max_level, room, life, resets, zone_pos, busy, active,
                       extents, lists, gc>>
    BY DEF OpenFile, fixed, zoneVars
  <1>00. /\ lsm[f].level \in -1..TopLevel /\ lsm[f].size \in Nat
         /\ lsm[f].keys => lsm[f].level >= 0
    BY PlacementAssumption DEF Typed
  <1>1. Typed' BY <1>0, <1>00 DEF Typed
  <1>2. ActiveOpen' BY <1>0 DEF ActiveOpen, Flushing, Typed
  <1>3. LevelKnown' BY <1>0, <1>00 DEF LevelKnown, Typed
  <1>4. GCTyped' BY <1>0 DEF GCTyped, Typed
  <1>5. BusyExact' BY <1>0 DEF BusyExact
  <1>. QED BY <1>1, <1>2, <1>3, <1>4, <1>5

LEMMA AllocateIOZoneInv ==
  ASSUME PlacementInv, NEW f \in File, AllocateIOZone(f)
  PROVE  PlacementInv'
  <1>. USE DEF PlacementInv
  <1>1. PICK o \in Allocations(f, MinCapacity(f)) :
         /\ Allocate(f, o)
         /\ busy' = (o.match.busy \ {o.match.zone}) \union ({o.zone} \ {None})
         /\ room' = RoomAfter(o)
         /\ life' = LifeAfter(f, o)
         /\ active' = [active EXCEPT ![f] = o.zone]
         /\ state' = IF o.zone = None THEN [state EXCEPT ![f] = AppendFails(f)] ELSE state
    BY DEF AllocateIOZone
  <1>2. UNCHANGED <<param, lsm, resets, left, extents, gc>> /\ NeedsZone(f)
    BY DEF AllocateIOZone, fixed
  <1>3. Allocated(f, MinCapacity(f), o) BY BusyAreZones, OutcomeIsAllocated
  <1>4. /\ IsMatch(o.match, busy, Asked(f, MinCapacity(f)), Low(f))
        /\ o.zone \in (Zone \ busy) \cup {None}
        /\ busy' = busy \cup ({o.zone} \ {None})
    BY <1>1, <1>3 DEF Allocated
  <1>5. /\ max_level' \in 1..TopLevel /\ level' = [level EXCEPT ![f] = o.match.level]
        /\ o.match.level \in Low(f)..TopLevel /\ lists' \in Seq(Seq(File))
    BY <1>1, <1>4 DEF Allocate, IsMatch
  <1>6. zone_pos' \in Zone BY <1>1, <1>4, NextPosIsPos DEF Allocate, Typed
  <1>7. active[f] = None /\ Flushing(f) BY <1>2 DEF NeedsZone
  <1>8. room' \in [Zone -> 0..ZoneCap] BY <1>1, PlacementAssumption DEF RoomAfter, Typed
  <1>9. life' \in [Zone -> 0..5] BY <1>1, PlacementAssumption DEF LifeAfter, Typed
  <1>10. o.match.level \in -1..TopLevel /\ (level[f] >= 0 => o.match.level >= 0)
    BY <1>5, PlacementAssumption DEF Low, Typed
  <1>11. /\ state' \in [File -> {"absent", "open", "failed", "closing", "abandoned",
                           "closed", "deleted"}]
         /\ \A g \in File : g # f => state'[g] = state[g]
         /\ o.zone # None => state' = state
         /\ state'[f] \notin {"closed", "deleted", "absent"}
    BY <1>1, <1>7 DEF AppendFails, Typed, Flushing
  <1>12. active' \in [File -> Zone \cup {None}] BY <1>1, <1>4 DEF Typed
  <1>13. Typed' BY <1>2, <1>5, <1>6, <1>8, <1>9, <1>10, <1>11, <1>12 DEF Typed
  <1>14. ActiveOpen' BY <1>1, <1>7, <1>11 DEF ActiveOpen, Flushing, Typed
  <1>15. LevelKnown' BY <1>2, <1>5, <1>7, <1>10, <1>11 DEF LevelKnown, Flushing, Typed
  <1>16. GCTyped'
    <2>1. state[f] # "closed" /\ state[f] # "deleted" BY <1>7 DEF Flushing
    <2>. QED BY <1>2, <1>11, <2>1 DEF GCTyped, Typed
  <1>17. BusyExact'
    <2>1. \A g \in File : active'[g] = IF g = f THEN o.zone ELSE active[g]
      BY <1>1 DEF Typed
    <2>2. o.zone # None => \A g \in File : active[g] # o.zone
      BY <1>4 DEF BusyExact
    <2>3. busy' = {active'[g] : g \in File} \ {None}
      BY <1>4, <1>7, <2>1 DEF BusyExact
    <2>. QED BY <2>1, <2>2, <2>3 DEF BusyExact
  <1>. QED BY <1>13, <1>14, <1>15, <1>16, <1>17

LEMMA AppendDataInv ==
  ASSUME PlacementInv, NEW f \in File, AppendData(f)
  PROVE  PlacementInv'
  <1>. USE DEF PlacementInv
  <1>. DEFINE z == active[f]
              n == Min({left[f], room[z]})
              e == [zone |-> z, len |-> n, level |-> level[f]]
  <1>1. /\ z # None /\ room' = [room EXCEPT ![z] = @ - n]
        /\ left' = [left EXCEPT ![f] = @ - n]
        /\ extents' = [extents EXCEPT ![f] = Append(@, e)]
        /\ busy' = IF n = room[z] THEN busy \ {z} ELSE busy
        /\ active' = IF n = room[z] THEN [active EXCEPT ![f] = None] ELSE active
        /\ UNCHANGED <<param, lsm, max_level, life, resets, zone_pos, state, level, lists, gc>>
    BY DEF AppendData, fixed
  <1>2. z \in Zone /\ left[f] \in Nat /\ room[z] \in 0..ZoneCap /\ level[f] \in -1..TopLevel
    BY <1>1 DEF Typed
  <1>3. n \in Nat /\ n <= left[f] /\ n <= room[z]
    <2>1. left[f] \in Int /\ room[z] \in Int BY <1>2
    <2>2. n \in {left[f], room[z]} /\ n <= left[f] /\ n <= room[z] BY ONLY <2>1, MinTwo
    <2>. QED BY <1>2, <2>2
  <1>. HIDE DEF n
  <1>4. e \in ExtentSet BY <1>2, <1>3, PlacementAssumption DEF ExtentSet
  <1>. HIDE DEF e
  <1>5. extents[f] \in Seq(ExtentSet) BY DEF Typed
  <1>6. /\ Append(extents[f], e) \in Seq(ExtentSet)
        /\ DOMAIN extents[f] \subseteq DOMAIN Append(extents[f], e)
    BY <1>4, <1>5
  <1>7. extents' \in [File -> Seq(ExtentSet)] BY <1>1, <1>6 DEF Typed
  <1>8. \A g \in File : DOMAIN extents[g] \subseteq DOMAIN extents'[g] /\ (g # f => extents'[g] = extents[g])
    BY <1>1, <1>6 DEF Typed
  <1>9. room' \in [Zone -> 0..ZoneCap]
    <2>1. room[z] - n \in 0..ZoneCap BY <1>2, <1>3, PlacementAssumption
    <2>. QED BY <1>1, <2>1 DEF Typed
  <1>10. left' \in [File -> Nat]
    <2>1. left[f] - n \in Nat BY <1>2, <1>3
    <2>. QED BY <1>1, <2>1 DEF Typed
  <1>11. active' \in [File -> Zone \cup {None}] /\ \A g \in File : active'[g] \in {active[g], None}
    BY <1>1 DEF Typed
  <1>12. Typed' BY <1>1, <1>7, <1>9, <1>10, <1>11 DEF Typed
  <1>13. ActiveOpen' BY <1>1, <1>11 DEF ActiveOpen, Flushing
  <1>14. LevelKnown' BY <1>1 DEF LevelKnown
  <1>15. GCTyped'
    <2>1. Flushing(f) BY <1>1 DEF ActiveOpen
    <2>2. gc.file # None => gc.file # f BY <2>1 DEF GCTyped, Flushing
    <2>3. gc.file # None => gc.file \in File BY DEF GCTyped
    <2>4. \A t \in gc.todo : t.file \in File BY DEF GCTyped
    <2>. QED BY <1>1, <1>8, <2>2, <2>3, <2>4 DEF GCTyped
  <1>16. BusyExact'
    <2>1. CASE n = room[z]
      <3>1. \A g \in File : active'[g] = IF g = f THEN None ELSE active[g]
        BY <1>1, <2>1 DEF Typed
      <3>2. busy' = busy \ {z} BY <1>1, <2>1
      <3>3. busy' = {active'[g] : g \in File} \ {None} BY <3>1, <3>2, <1>1 DEF BusyExact
      <3>. QED BY <3>1, <3>3 DEF BusyExact
    <2>2. CASE n # room[z] BY <1>1, <2>2 DEF BusyExact
    <2>. QED BY <2>1, <2>2
  <1>. QED BY <1>12, <1>13, <1>14, <1>15, <1>16

LEMMA RetryFlushInv ==
  ASSUME PlacementInv, NEW f \in File, RetryFlush(f)
  PROVE  PlacementInv'
  <1>. USE DEF PlacementInv
  <1>0. /\ state[f] = "failed" /\ state' = [state EXCEPT ![f] = "closing"]
        /\ left' = [left EXCEPT ![f] = lsm[f].size]
        /\ UNCHANGED <<param, lsm, max_level, room, life, resets, zone_pos, busy, active, level,
                       extents, lists, gc>>
    BY DEF RetryFlush, fixed, zoneVars
  <1>00. lsm[f].size \in Nat BY PlacementAssumption DEF Typed
  <1>1. Typed' BY <1>0, <1>00 DEF Typed
  <1>2. ActiveOpen' BY <1>0 DEF ActiveOpen, Flushing, Typed
  <1>3. LevelKnown' BY <1>0 DEF LevelKnown, Typed
  <1>4. GCTyped' BY <1>0 DEF GCTyped, Typed
  <1>5. BusyExact' BY <1>0 DEF BusyExact
  <1>. QED BY <1>1, <1>2, <1>3, <1>4, <1>5

LEMMA CloseWRInv ==
  ASSUME PlacementInv, NEW f \in File, CloseWR(f)
  PROVE  PlacementInv'
  <1>. USE DEF PlacementInv
  <1>0. /\ Flushing(f) /\ state' = [state EXCEPT ![f] = "closed"]
        /\ lists' = AddZoneFileRecord(lists, f, level[f])
        /\ busy' = busy \ {active[f]}
        /\ active' = [active EXCEPT ![f] = None]
        /\ UNCHANGED <<param, lsm, max_level, room, life, resets, zone_pos, level, left,
                       extents, gc>>
    BY DEF CloseWR, fixed, zoneVars, CreateOrUpdateRecord
  <1>1. lists' \in Seq(Seq(File)) BY <1>0, AddRecordIsSeq DEF Typed
  <1>2. Typed' BY <1>0, <1>1 DEF Typed
  <1>3. ActiveOpen' BY <1>0 DEF ActiveOpen, Flushing, Typed
  <1>4. LevelKnown' BY <1>0 DEF LevelKnown, Flushing, Typed
  <1>5. GCTyped' BY <1>0 DEF GCTyped, Flushing, Typed
  <1>6. BusyExact'
    <2>1. \A g \in File : active'[g] = IF g = f THEN None ELSE active[g] BY <1>0 DEF Typed
    <2>2. busy' = {active'[g] : g \in File} \ {None} BY <1>0, <2>1 DEF BusyExact
    <2>. QED BY <2>1, <2>2 DEF BusyExact
  <1>. QED BY <1>2, <1>3, <1>4, <1>5, <1>6

LEMMA ResetTyped ==
  ASSUME NEW u, NEW lab, Typed, ResetUnusedIOZones(room, u, life, lab)
  PROVE  room' \in [Zone -> 0..ZoneCap] /\ life' \in [Zone -> 0..5] /\ resets' \in [Zone -> Nat]
  <1>. DEFINE dead == {z \in Zone \ busy : room[z] # ZoneCap /\ u[z] = 0}
  <1>1. /\ room' = [z \in Zone |-> IF z \in dead THEN ZoneCap ELSE room[z]]
        /\ life' = [z \in Zone |-> IF z \in dead THEN NOT_SET ELSE life[z]]
        /\ resets' = [z \in Zone |-> resets[z] + (IF z \in dead THEN 1 ELSE 0)]
    BY DEF ResetUnusedIOZones
  <1>. HIDE DEF dead
  <1>2. room' \in [Zone -> 0..ZoneCap] BY <1>1, PlacementAssumption DEF Typed
  <1>3. life' \in [Zone -> 0..5] BY <1>1 DEF Typed, NOT_SET
  <1>4. resets' \in [Zone -> Nat]
    <2>1. \A z \in Zone : resets[z] + (IF z \in dead THEN 1 ELSE 0) \in Nat BY DEF Typed
    <2>. QED BY <1>1, <2>1
  <1>. QED BY <1>2, <1>3, <1>4

LEMMA DeleteFileInv ==
  ASSUME PlacementInv, NEW f \in File, DeleteFile(f)
  PROVE  PlacementInv'
  <1>. USE DEF PlacementInv
  <1>0. /\ state[f] \in {"closed", "abandoned"} /\ gc.file # f
        /\ state' = [state EXCEPT ![f] = "deleted"]
        /\ lists' = RemoveZoneFileRecord(lists, f)
        /\ extents' = [extents EXCEPT ![f] = <<>>]
        /\ UNCHANGED <<param, lsm, max_level, zone_pos, busy, active, level, left, gc>>
    BY DEF DeleteFile, fixed
  <1>1. lists' \in Seq(Seq(File)) BY <1>0, RemoveRecordIsSeq DEF Typed
  <1>2. room' \in [Zone -> 0..ZoneCap] /\ life' \in [Zone -> 0..5] /\ resets' \in [Zone -> Nat]
    BY ResetTyped DEF DeleteFile
  <1>3. Typed' BY <1>0, <1>1, <1>2 DEF Typed
  <1>4. ActiveOpen' BY <1>0 DEF ActiveOpen, Flushing, Typed
  <1>5. LevelKnown' BY <1>0 DEF LevelKnown, Typed
  <1>6. GCTyped'
    <2>1. \A e \in gc.todo : e.file \in File BY DEF GCTyped
    <2>2. gc.file # None => gc.file \in File BY DEF GCTyped
    <2>3. \A g \in File : g # f => state'[g] = state[g] /\ extents'[g] = extents[g]
      BY <1>0 DEF Typed
    <2>4. state'[f] = "deleted" BY <1>0 DEF Typed
    <2>. QED BY <1>0, <2>1, <2>2, <2>3, <2>4 DEF GCTyped
  <1>7. BusyExact' BY <1>0 DEF BusyExact
  <1>. QED BY <1>3, <1>4, <1>5, <1>6, <1>7

LEMMA MoveFileInv ==
  ASSUME PlacementInv, NEW f \in File, NEW l \in Level, MoveFileToNewLevel(f, l)
  PROVE  PlacementInv'
  <1>. USE DEF PlacementInv
  <1>. DEFINE new == [i \in DOMAIN extents[f] |-> [extents[f][i] EXCEPT !.level = l]]
  <1>0. /\ lists' = MoveRecord(lists, f, l)
        /\ level' = [level EXCEPT ![f] = l]
        /\ extents' = [extents EXCEPT ![f] = new]
        /\ UNCHANGED <<param, lsm, max_level, room, life, resets, zone_pos, busy, state, left,
                       active, gc>>
    BY DEF MoveFileToNewLevel, fixed, Typed
  <1>1. l \in Int /\ l \in -1..TopLevel /\ l >= 0 BY PlacementAssumption DEF Level
  <1>2. lists' \in Seq(Seq(File)) BY <1>0, <1>1, MoveRecordIsSeq DEF Typed
  <1>3. new \in Seq(ExtentSet) /\ DOMAIN new = DOMAIN extents[f]
    <2>1. extents[f] \in Seq(ExtentSet) BY DEF Typed
    <2>2. \A i \in 1..Len(extents[f]) : [extents[f][i] EXCEPT !.level = l] \in ExtentSet
      <3>. TAKE i \in 1..Len(extents[f])
      <3>1. extents[f][i] \in ExtentSet BY <2>1, ElementOfSeq
      <3>. QED BY <3>1, <1>1 DEF ExtentSet
    <2>3. new \in [1..Len(extents[f]) -> ExtentSet] BY <2>1, <2>2
    <2>4. Len(extents[f]) \in Nat BY <2>1
    <2>. QED BY <2>3, <2>4, FunIsSeq
  <1>. HIDE DEF new
  <1>4. Typed' BY <1>0, <1>1, <1>2, <1>3 DEF Typed
  <1>5. ActiveOpen' BY <1>0 DEF ActiveOpen, Flushing
  <1>6. LevelKnown' BY <1>0, <1>1 DEF LevelKnown, Typed
  <1>7. GCTyped'
    <2>1. \A e \in gc.todo : e.file \in File BY DEF GCTyped
    <2>2. gc.file # None => gc.file \in File BY DEF GCTyped
    <2>3. \A g \in File : DOMAIN extents'[g] = DOMAIN extents[g] BY <1>0, <1>3 DEF Typed
    <2>. QED BY <1>0, <2>1, <2>2, <2>3 DEF GCTyped
  <1>8. BusyExact' BY <1>0 DEF BusyExact
  <1>. QED BY <1>4, <1>5, <1>6, <1>7, <1>8

(* Steps of the GC worker that change nothing but gc. *)
LEMMA GCOnlyInv ==
  ASSUME PlacementInv, GCTyped',
         UNCHANGED <<fixed, max_level, zoneVars, busy, leaked, zone_pos, fileVars>>
  PROVE  PlacementInv'
  <1>. USE DEF PlacementInv, fixed, zoneVars, fileVars
  <1>1. Typed' BY DEF Typed
  <1>2. ActiveOpen' BY DEF ActiveOpen, Flushing
  <1>3. LevelKnown' BY DEF LevelKnown
  <1>4. BusyExact' BY DEF BusyExact
  <1>. QED BY <1>1, <1>2, <1>3, <1>4

(* What a step of the worker finds in zones. *)
LEMMA ExtentsInTyped ==
  ASSUME Typed, NEW zones, NEW e \in ExtentsIn(zones)
  PROVE  /\ e \in [file : File, place : Nat, zone : Zone]
         /\ lsm[e.file].keys /\ e.place \in DOMAIN extents[e.file]
  <1>1. PICK f \in {g \in File : lsm[g].keys} :
          e \in {[file |-> f, place |-> i, zone |-> extents[f][i].zone] :
                    i \in {j \in DOMAIN extents[f] : extents[f][j].zone \in zones}}
    BY DEF ExtentsIn
  <1>2. PICK i \in DOMAIN extents[f] :
          e = [file |-> f, place |-> i, zone |-> extents[f][i].zone]
    BY <1>1
  <1>3. extents[f] \in Seq(ExtentSet) BY <1>1 DEF Typed
  <1>4. i \in 1..Len(extents[f]) BY <1>2, <1>3
  <1>5. extents[f][i] \in ExtentSet BY <1>3, <1>4, ElementOfSeq
  <1>6. extents[f][i].zone \in Zone /\ i \in Nat BY <1>4, <1>5 DEF ExtentSet
  <1>. QED BY <1>1, <1>2, <1>6

LEMMA GCWorkerStartInv ==
  ASSUME PlacementInv, GCWorkerStart
  PROVE  PlacementInv'
  <1>. USE DEF PlacementInv
  <1>0. /\ gc' = [gc EXCEPT !.on = TRUE, !.cold = param.cold, !.todo = Collected]
        /\ UNCHANGED <<fixed, max_level, zoneVars, busy, leaked, zone_pos, fileVars>>
    BY DEF GCWorkerStart
  <1>1. \A e \in Collected : /\ e \in [file : File, place : Nat, zone : Zone]
                             /\ lsm[e.file].keys /\ e.place \in DOMAIN extents[e.file]
    BY ExtentsInTyped DEF Collected
  <1>2. GCTyped' BY <1>0, <1>1 DEF GCTyped, fixed, fileVars
  <1>. QED BY <1>0, <1>2, GCOnlyInv

LEMMA SkipFileInv ==
  ASSUME PlacementInv, NEW f \in File, SkipFile(f)
  PROVE  PlacementInv'
  <1>. USE DEF PlacementInv
  <1>0. /\ gc' = [gc EXCEPT !.todo = @ \ Batch(f)]
        /\ UNCHANGED <<fixed, max_level, zoneVars, busy, leaked, zone_pos, fileVars>>
    BY DEF SkipFile
  <1>1. gc' = [gc EXCEPT !.todo = gc.todo \ Batch(f)] BY <1>0
  <1>. DEFINE T == gc.todo \ Batch(f)
  <1>2. T \subseteq gc.todo OBVIOUS
  <1>. HIDE DEF T
  <1>3. GCTyped' BY <1>0, <1>1, <1>2 DEF GCTyped, fixed, fileVars, T
  <1>. QED BY <1>0, <1>3, GCOnlyInv

LEMMA MigrateFileInv ==
  ASSUME PlacementInv, NEW f \in File, MigrateFileExtents(f)
  PROVE  PlacementInv'
  <1>. USE DEF PlacementInv
  <1>. DEFINE new == [i \in DOMAIN extents[f] |-> [extents[f][i] EXCEPT !.level = level[f]]]
  <1>0. /\ state[f] = "closed"
        /\ gc' = [gc EXCEPT !.file = f, !.list = new]
        /\ UNCHANGED <<fixed, max_level, zoneVars, busy, leaked, zone_pos, fileVars>>
    BY DEF MigrateFileExtents
  <1>1. new \in Seq(ExtentSet) /\ DOMAIN new = DOMAIN extents[f]
    <2>1. extents[f] \in Seq(ExtentSet) /\ level[f] \in -1..TopLevel BY DEF Typed
    <2>2. \A i \in 1..Len(extents[f]) : [extents[f][i] EXCEPT !.level = level[f]] \in ExtentSet
      <3>. TAKE i \in 1..Len(extents[f])
      <3>1. extents[f][i] \in ExtentSet BY <2>1, ElementOfSeq
      <3>. QED BY <3>1, <2>1 DEF ExtentSet
    <2>3. new \in [1..Len(extents[f]) -> ExtentSet] BY <2>1, <2>2
    <2>4. Len(extents[f]) \in Nat BY <2>1
    <2>. QED BY <2>3, <2>4, FunIsSeq
  <1>. HIDE DEF new
  <1>2. GCTyped'
    <2>1. gc' \in [on : {gc'.on}, cold : {gc'.cold},
               todo : SUBSET [file : File, place : Nat, zone : Zone],
               file : File \cup {None}, list : Seq(ExtentSet), copied : SUBSET Nat]
      BY <1>0, <1>1 DEF GCTyped
    <2>2. gc'.todo = gc.todo /\ gc'.file = f /\ gc'.list = new BY <1>0 DEF GCTyped
    <2>. QED BY <1>0, <1>1, <2>1, <2>2 DEF GCTyped, fixed, fileVars
  <1>. QED BY <1>0, <1>2, GCOnlyInv

LEMMA MigrateColdInv ==
  ASSUME PlacementInv, MigrateColdFiles
  PROVE  PlacementInv'
  <1>. USE DEF PlacementInv
  <1>. DEFINE T == ExtentsIn({ColdZone})
  <1>0. /\ gc' = [gc EXCEPT !.cold = FALSE, !.todo = T] /\ gc.file = None
        /\ UNCHANGED <<fixed, max_level, zoneVars, busy, leaked, zone_pos, fileVars>>
    BY DEF MigrateColdFiles
  <1>1. \A e \in T : /\ e \in [file : File, place : Nat, zone : Zone]
                     /\ lsm[e.file].keys /\ e.place \in DOMAIN extents[e.file]
    BY ExtentsInTyped
  <1>. HIDE DEF T
  <1>2. GCTyped' BY <1>0, <1>1 DEF GCTyped, fixed, fileVars
  <1>. QED BY <1>0, <1>2, GCOnlyInv

LEMMA GCWorkerEndInv ==
  ASSUME PlacementInv, GCWorkerEnd
  PROVE  PlacementInv'
  <1>. USE DEF PlacementInv
  <1>0. /\ gc' = [gc EXCEPT !.on = FALSE]
        /\ UNCHANGED <<fixed, max_level, zoneVars, busy, leaked, zone_pos, fileVars>>
    BY DEF GCWorkerEnd
  <1>1. GCTyped' BY <1>0 DEF GCTyped, fixed, fileVars
  <1>. QED BY <1>0, <1>1, GCOnlyInv

LEMMA MigrateExtentInv ==
  ASSUME PlacementInv, NEW f \in File, MigrateExtent(f)
  PROVE  PlacementInv'
  <1>. USE DEF PlacementInv
  <1>. DEFINE P == {e.place : e \in Batch(f)}
              i == Min(P)
              n == gc.list[i].len
  <1>0. PICK o \in Allocations(f, n) :
          /\ Allocate(f, o)
          /\ gc' = [gc EXCEPT !.todo = {e \in @ : e \notin Batch(f) \/ e.place # i},
                              !.list[i].zone = IF o.zone = None THEN @ ELSE o.zone,
                              !.copied = IF o.zone = None THEN @ ELSE @ \union {i}]
          /\ room' = [z \in Zone |-> RoomAfter(o)[z] - (IF z = o.zone THEN n ELSE 0)]
          /\ life' = LifeAfter(f, o)
    BY DEF MigrateExtent
  <1>1. /\ gc.file = f /\ Batch(f) # {}
        /\ UNCHANGED <<param, lsm, resets, busy, state, left, active, extents>>
    BY DEF MigrateExtent, fixed
  <1>2. /\ state[f] = "closed" /\ DOMAIN gc.list = DOMAIN extents[f] /\ gc.list \in Seq(ExtentSet)
        /\ f # None
    BY <1>1, PlacementAssumption DEF GCTyped
  <1>3. Batch(f) \subseteq gc.todo /\ \A e \in Batch(f) : e.file = f BY DEF Batch
  <1>4. \A e \in Batch(f) : e.place \in Nat /\ e.place \in DOMAIN extents[f] /\ lsm[f].keys
    BY <1>2, <1>3 DEF GCTyped
  <1>5. i \in P
    <2>1. P \in SUBSET Nat /\ P # {} BY <1>1, <1>4
    <2>. HIDE DEF P
    <2>. QED BY <2>1, MinOf
  <1>6. i \in DOMAIN gc.list /\ i \in Nat /\ lsm[f].keys BY <1>2, <1>4, <1>5
  <1>. HIDE DEF i, P
  <1>7. gc.list[i] \in ExtentSet
    <2>1. i \in 1..Len(gc.list) BY <1>2, <1>6
    <2>. QED BY <2>1, <1>2, ElementOfSeq
  <1>8. n \in 0..ZoneCap BY <1>7, PlacementAssumption DEF ExtentSet
  <1>. HIDE DEF n
  <1>9. Allocated(f, n, o) BY BusyAreZones, OutcomeIsAllocated
  <1>10. level[f] >= 0 /\ level[f] \in Int BY <1>2, <1>6 DEF LevelKnown, Typed
  <1>11. Asked(f, n) = n BY <1>6, <1>10 DEF Asked
  <1>12. IsMatch(o.match, busy, n, Low(f)) /\ o.zone \in Zone \cup {None}
    BY <1>9, <1>11 DEF Allocated
  <1>13. /\ max_level' \in 1..TopLevel /\ level' = [level EXCEPT ![f] = o.match.level]
         /\ o.match.level \in Low(f)..TopLevel /\ lists' \in Seq(Seq(File))
    BY <1>0, <1>12 DEF Allocate, IsMatch
  <1>14. o.match.level \in -1..TopLevel /\ o.match.level >= 0
    BY <1>10, <1>13, PlacementAssumption DEF Low
  <1>15. zone_pos' \in Zone BY <1>0, <1>12, NextPosIsPos DEF Allocate, Typed
  <1>16. life' \in [Zone -> 0..5] BY <1>0, PlacementAssumption DEF LifeAfter, Typed
  <1>17. room' \in [Zone -> 0..ZoneCap]
    <2>1. \A z \in Zone : RoomAfter(o)[z] \in 0..ZoneCap /\ ZoneCap \in Nat
      BY PlacementAssumption DEF RoomAfter, Typed
    <2>2. ASSUME o.zone \in Zone PROVE n <= RoomAfter(o)[o.zone]
      <3>1. CASE o.new
        <4>1. IsEmpty(o.zone) BY <3>1, <2>2, <1>9, PlacementAssumption DEF Allocated, IdleEmpty
        <4>2. o.victim # o.zone BY <4>1, <2>2, <1>9, PlacementAssumption DEF Allocated
        <4>3. RoomAfter(o)[o.zone] = ZoneCap BY <4>1, <4>2, <2>2 DEF RoomAfter, IsEmpty
        <4>. QED BY <4>3, <1>8, PlacementAssumption
      <3>2. CASE ~o.new
        <4>1. Candidate(o.zone, n) /\ o.victim = None BY <3>2, <1>9, <1>11 DEF Allocated
        <4>2. RoomAfter(o)[o.zone] = room[o.zone] BY <4>1, <2>2, PlacementAssumption DEF RoomAfter
        <4>3. room[o.zone] >= n BY <4>1 DEF Candidate
        <4>4. room[o.zone] \in 0..ZoneCap BY <2>2 DEF Typed
        <4>. QED BY <4>2, <4>3, <4>4, <1>8
      <3>. QED BY <3>1, <3>2, <1>9 DEF Allocated
    <2>3. ASSUME NEW z \in Zone
          PROVE  RoomAfter(o)[z] - (IF z = o.zone THEN n ELSE 0) \in 0..ZoneCap
      <3>1. CASE z = o.zone BY <3>1, <2>1, <2>2, <1>8
      <3>2. CASE z # o.zone BY <3>2, <2>1
      <3>. QED BY <3>1, <3>2
    <2>. QED BY <1>0, <2>3
  <1>18. Typed' BY <1>1, <1>13, <1>14, <1>15, <1>16, <1>17 DEF Typed
  <1>19. ActiveOpen' BY <1>1 DEF ActiveOpen, Flushing
  <1>20. LevelKnown' BY <1>1, <1>13, <1>14 DEF LevelKnown, Typed
  <1>21. GCTyped'
    <2>. DEFINE T == {e \in gc.todo : e \notin Batch(f) \/ e.place # i}
                x == IF o.zone = None THEN gc.list[i].zone ELSE o.zone
                new == [gc.list EXCEPT ![i].zone = x]
                C == IF o.zone = None THEN gc.copied ELSE gc.copied \union {i}
    <2>1. gc' = [gc EXCEPT !.todo = T, !.list = new, !.copied = C]
      BY <1>0 DEF GCTyped
    <2>2. T \subseteq gc.todo OBVIOUS
    <2>3. x \in Zone BY <1>7, <1>12 DEF ExtentSet
    <2>. HIDE DEF x
    <2>4. [gc.list[i] EXCEPT !.zone = x] \in ExtentSet BY <1>7, <2>3 DEF ExtentSet
    <2>5. new = [gc.list EXCEPT ![i] = [gc.list[i] EXCEPT !.zone = x]] OBVIOUS
    <2>6. new \in Seq(ExtentSet) /\ DOMAIN new = DOMAIN gc.list
      <3>1. i \in 1..Len(gc.list) BY <1>2, <1>6
      <3>. QED BY <3>1, <2>4, <2>5, <1>2, ExceptSeq
    <2>7. C \in SUBSET Nat BY <1>6 DEF GCTyped
    <2>. HIDE DEF T, new, C
    <2>8. gc' \in [on : {gc'.on}, cold : {gc'.cold},
               todo : SUBSET [file : File, place : Nat, zone : Zone],
               file : File \cup {None}, list : Seq(ExtentSet), copied : SUBSET Nat]
      BY <2>1, <2>2, <2>6, <2>7 DEF GCTyped
    <2>9. gc'.todo = T /\ gc'.file = f /\ gc'.list = new BY <1>1, <2>1 DEF GCTyped
    <2>. QED BY <1>1, <1>2, <2>2, <2>6, <2>8, <2>9 DEF GCTyped
  <1>22. BusyExact' BY <1>1 DEF BusyExact
  <1>. QED BY <1>18, <1>19, <1>20, <1>21, <1>22

LEMMA SyncFileInv ==
  ASSUME PlacementInv, NEW f \in File, SyncFileExtents(f)
  PROVE  PlacementInv'
  <1>. USE DEF PlacementInv
  <1>0. /\ gc.file = f
        /\ gc' = [gc EXCEPT !.file = None, !.list = <<>>, !.copied = {}]
        /\ extents' = [extents EXCEPT ![f] = gc.list]
        /\ UNCHANGED <<param, lsm, max_level, busy, zone_pos, state, level, left, active, lists>>
    BY DEF SyncFileExtents, fixed
  <1>1. room' \in [Zone -> 0..ZoneCap] /\ life' \in [Zone -> 0..5] /\ resets' \in [Zone -> Nat]
    BY ResetTyped DEF SyncFileExtents
  <1>2. gc.list \in Seq(ExtentSet) /\ DOMAIN gc.list = DOMAIN extents[f]
    BY <1>0, PlacementAssumption DEF GCTyped
  <1>3. extents' \in [File -> Seq(ExtentSet)] /\ \A g \in File : DOMAIN extents'[g] = DOMAIN extents[g]
    BY <1>0, <1>2 DEF Typed
  <1>4. Typed' BY <1>0, <1>1, <1>3 DEF Typed
  <1>5. ActiveOpen' BY <1>0 DEF ActiveOpen, Flushing
  <1>6. LevelKnown' BY <1>0 DEF LevelKnown
  <1>7. GCTyped'
    <2>1. gc'.todo = gc.todo /\ gc'.file = None BY <1>0 DEF GCTyped
    <2>2. gc' \in [on : {gc'.on}, cold : {gc'.cold},
               todo : SUBSET [file : File, place : Nat, zone : Zone],
               file : File \cup {None}, list : Seq(ExtentSet), copied : SUBSET Nat]
      <3>1. <<>> \in Seq(ExtentSet) /\ {} \in SUBSET Nat /\ None \in File \cup {None} OBVIOUS
      <3>. DEFINE q == <<>>
                  c == {}
      <3>2. gc' = [gc EXCEPT !.file = None, !.list = q, !.copied = c] BY <1>0
      <3>. HIDE DEF q, c
      <3>3. q \in Seq(ExtentSet) /\ c \in SUBSET Nat BY <3>1 DEF q, c
      <3>. QED BY <3>2, <3>3 DEF GCTyped
    <2>3. \A e \in gc.todo : e.file \in File BY DEF GCTyped
    <2>. QED BY <1>0, <1>3, <2>1, <2>2, <2>3 DEF GCTyped
  <1>8. BusyExact' BY <1>0 DEF BusyExact
  <1>. QED BY <1>4, <1>5, <1>6, <1>7, <1>8

(* Every step keeps the inductive invariant. *)
LEMMA NextInv ==
  PlacementInv /\ [Next]_vars => PlacementInv'
  <1>. SUFFICES ASSUME PlacementInv, [Next]_vars PROVE PlacementInv' OBVIOUS
  <1>1. CASE UNCHANGED vars
    <2>. USE <1>1 DEF vars, PlacementInv
    <2>1. Typed' BY DEF Typed
    <2>2. ActiveOpen' BY DEF ActiveOpen, Flushing
    <2>3. LevelKnown' BY DEF LevelKnown
    <2>4. GCTyped' BY DEF GCTyped
    <2>5. BusyExact' BY DEF BusyExact
    <2>. QED BY <2>1, <2>2, <2>3, <2>4, <2>5
  <1>2. CASE Next
    <2>1. CASE GCWorkerStart BY <2>1, GCWorkerStartInv
    <2>2. CASE MigrateColdFiles BY <2>2, MigrateColdInv
    <2>3. CASE GCWorkerEnd BY <2>3, GCWorkerEndInv
    <2>4. ASSUME NEW f \in File, OpenFile(f) PROVE PlacementInv' BY <2>4, OpenFileInv
    <2>5. ASSUME NEW f \in File, AllocateIOZone(f) PROVE PlacementInv' BY <2>5, AllocateIOZoneInv
    <2>6. ASSUME NEW f \in File, AppendData(f) PROVE PlacementInv' BY <2>6, AppendDataInv
    <2>7. ASSUME NEW f \in File, RetryFlush(f) PROVE PlacementInv' BY <2>7, RetryFlushInv
    <2>8. ASSUME NEW f \in File, CloseWR(f) PROVE PlacementInv' BY <2>8, CloseWRInv
    <2>9. ASSUME NEW f \in File, DeleteFile(f) PROVE PlacementInv' BY <2>9, DeleteFileInv
    <2>10. ASSUME NEW f \in File, NEW l \in Level, MoveFileToNewLevel(f, l) PROVE PlacementInv'
      BY <2>10, MoveFileInv
    <2>11. ASSUME NEW f \in File, SkipFile(f) PROVE PlacementInv' BY <2>11, SkipFileInv
    <2>12. ASSUME NEW f \in File, MigrateFileExtents(f) PROVE PlacementInv' BY <2>12, MigrateFileInv
    <2>13. ASSUME NEW f \in File, MigrateExtent(f) PROVE PlacementInv' BY <2>13, MigrateExtentInv
    <2>14. ASSUME NEW f \in File, SyncFileExtents(f) PROVE PlacementInv' BY <2>14, SyncFileInv
    <2>. QED BY <1>2, <2>1, <2>2, <2>3, <2>4, <2>5, <2>6, <2>7, <2>8, <2>9, <2>10, <2>11, <2>12,
                <2>13, <2>14 DEF Next
  <1>. QED BY <1>1, <1>2

\* The inductive invariant holds in every reachable state.
LEMMA PlacementInvariant ==
  Spec => []PlacementInv
  BY InitInv, NextInv, PTL DEF Spec

(* Whatever policy and allocator the parameter file names, the busy zones are *)
(* exactly the active zones of the open files, and no two files share one.   *)
THEOREM ExactBusy ==
  Spec => []BusyExact
  <1>1. PlacementInv => BusyExact BY DEF PlacementInv
  <1>. QED BY <1>1, PlacementInvariant, PTL

(* AllocateEmptyZone finds an idle empty zone whenever there is one, and the *)
(* wear-aware allocators never give a lower level a less worn zone.          *)
THEOREM BestEmptyZone ==
  Spec => []EmptyZoneBest
  <1>1. PlacementInv => EmptyZoneBest
    BY BusyAreZones, TypedEmptyZoneBest DEF PlacementInv
  <1>. QED BY <1>1, PlacementInvariant, PTL

(* Only an allocation without a zone makes an append fail. *)
LEMMA FailedAllocation ==
  ASSUME PlacementInv, [Next]_vars, NEW f \in File, NeedsZone(f),
         state'[f] \in {"failed", "abandoned"}
  PROVE  AllocateIOZone(f)
  <1>0. state \in [File -> {"absent", "open", "failed", "closing", "abandoned",
                            "closed", "deleted"}]
    BY DEF PlacementInv, Typed
  <1>1. state[f] \in {"open", "closing"} BY DEF NeedsZone, Flushing
  <1>2. state'[f] # state[f] BY <1>1
  <1>3. ASSUME NEW g \in File, g # f, state' = [state EXCEPT ![g] = state'[g]] PROVE FALSE
    BY <1>0, <1>2, <1>3
  <1>4. ASSUME state' = state PROVE FALSE BY <1>2, <1>4
  <1>5. ASSUME NEW g \in File, OpenFile(g) PROVE FALSE
    BY <1>0, <1>1, <1>2, <1>5 DEF OpenFile
  <1>6. ASSUME NEW g \in File, AllocateIOZone(g) PROVE g = f
    BY <1>0, <1>2, <1>6 DEF AllocateIOZone
  <1>7. ASSUME NEW g \in File, RetryFlush(g) \/ CloseWR(g) \/ DeleteFile(g) PROVE FALSE
    <2>1. \E s \in {"closing", "closed", "deleted"} : state' = [state EXCEPT ![g] = s]
      BY <1>7 DEF RetryFlush, CloseWR, DeleteFile
    <2>. QED BY <2>1, <1>0, <1>1
  <1>8. ASSUME NEW g \in File, \/ AppendData(g) \/ SkipFile(g) \/ MigrateFileExtents(g)
                               \/ MigrateExtent(g) \/ SyncFileExtents(g)
        PROVE  FALSE
    <2>1. state' = state
      BY <1>8 DEF AppendData, SkipFile, MigrateFileExtents, MigrateExtent, SyncFileExtents,
                  fileVars
    <2>. QED BY <2>1, <1>4
  <1>9. ASSUME NEW g \in File, NEW l \in Level, MoveFileToNewLevel(g, l) PROVE FALSE
    <2>1. state' = state BY <1>9 DEF MoveFileToNewLevel
    <2>. QED BY <2>1, <1>4
  <1>10. ASSUME GCWorkerStart \/ MigrateColdFiles \/ GCWorkerEnd \/ UNCHANGED vars PROVE FALSE
    <2>1. state' = state BY <1>10 DEF GCWorkerStart, MigrateColdFiles, GCWorkerEnd, fileVars, vars
    <2>. QED BY <2>1, <1>4
  <1>. QED BY <1>5, <1>6, <1>7, <1>8, <1>9, <1>10 DEF Next

(* What an allocation that found no zone shows. *)
LEMMA SpaceStep ==
  ASSUME PlacementInv, NEW f \in File, AllocateIOZone(f),
         state'[f] \in {"failed", "abandoned"}
  PROVE  /\ IdleEmpty(busy) = {}
         /\ \/ IdleCandidates(MinCapacity(f)) = {}
            \/ \E z \in busy : IsEmpty(z)
  <1>. USE DEF PlacementInv
  <1>1. PICK o \in Allocations(f, MinCapacity(f)) :
          state' = IF o.zone = None THEN [state EXCEPT ![f] = AppendFails(f)] ELSE state
    BY DEF AllocateIOZone
  <1>2. state[f] \in {"open", "closing"} BY DEF AllocateIOZone, NeedsZone, Flushing
  <1>3. o.zone = None BY <1>1, <1>2
  <1>4. Allocated(f, MinCapacity(f), o) BY BusyAreZones, OutcomeIsAllocated
  <1>5. /\ IdleEmpty(busy) = {}
        /\ o.match.zone # None => ~(GetEmptyZoneCount <= param.reserve)
        /\ o.match.zone = None => \A z \in Zone \ busy : ~Candidate(z, Asked(f, MinCapacity(f)))
    BY <1>3, <1>4 DEF Allocated
  <1>6. CASE o.match.zone = None
    <2>1. MinCapacity(f) \in Nat BY DEF MinCapacity, Typed
    <2>2. \A z \in Zone : Candidate(z, MinCapacity(f)) => Candidate(z, Asked(f, MinCapacity(f)))
      BY <2>1 DEF Candidate, Asked, Typed
    <2>3. IdleCandidates(MinCapacity(f)) = {} BY <1>5, <1>6, <2>2 DEF IdleCandidates
    <2>. QED BY <1>5, <2>3
  <1>7. CASE o.match.zone # None
    <2>1. ~(GetEmptyZoneCount <= param.reserve) BY <1>5, <1>7
    <2>2. param.reserve \in Nat BY PlacementAssumption DEF Typed
    <2>3. {z \in Zone : IsEmpty(z)} # {} BY <2>1, <2>2, FS_EmptySet DEF GetEmptyZoneCount
    <2>4. PICK z \in Zone : IsEmpty(z) BY <2>3
    <2>5. z \in busy BY <2>4, <1>5 DEF IdleEmpty
    <2>. QED BY <2>4, <2>5, <1>5
  <1>. QED BY <1>6, <1>7

(* Space in idle zones is given up only to an empty zone that another writer *)
(* holds, which GetEmptyZoneCount counts.                                    *)
SpaceLostToHeldZone ==
  [][\A f \in File : NeedsZone(f) /\ state'[f] \in {"failed", "abandoned"} =>
        /\ IdleEmpty(busy) = {}
        /\ \/ IdleCandidates(MinCapacity(f)) = {}
           \/ \E z \in busy : IsEmpty(z)]_vars

(* Whatever policy, fallback and allocator the parameter file names, an      *)
(* append fails while an idle zone has live data and room (SpaceIsFound is   *)
(* violated) for one reason alone: the match was given back for an empty     *)
(* zone in another writer's hands (AllocateIOZone, GetEmptyZoneCount).       *)
THEOREM SpaceLostOneWay ==
  Spec => SpaceLostToHeldZone
  <1>. DEFINE A == \A f \in File : NeedsZone(f) /\ state'[f] \in {"failed", "abandoned"} =>
                     /\ IdleEmpty(busy) = {}
                     /\ \/ IdleCandidates(MinCapacity(f)) = {}
                        \/ \E z \in busy : IsEmpty(z)
  <1>1. PlacementInv /\ [Next]_vars => [A]_vars
    BY FailedAllocation, SpaceStep
  <1>. QED BY <1>1, PlacementInvariant, PTL DEF Spec, SpaceLostToHeldZone

=============================================================================
