----------------------------- MODULE Placement -----------------------------
(***************************************************************************)
(* Which zone a file is written to: the placement policies and empty-zone  *)
(* allocators of fs/zbd_extension_zenfs.cc, the dispatch in                *)
(* GetBestOpenZoneMatch and AllocateIOZoneNoLock (fs/zbd_zenfs.cc), the    *)
(* level-wise file records the policies read, the per-level byte counts of *)
(* a zone, and the choice of zones to collect (fs/fs_gc_zenfs.cc).         *)
(*                                                                         *)
(* ZoneAlloc is the concurrent half of this code and leaves the choice     *)
(* open; here the choice is exact and an allocation, which runs under      *)
(* alloc_mutex_, is one step.  Several files may be open, each holding its *)
(* zone busy.  A policy walks the zones acquiring and releasing them, so   *)
(* it returns the set of zones that are busy afterwards together with its  *)
(* choice.                                                                 *)
(*                                                                         *)
(* Sizes are in blocks.  A weighted contribution is in bytes of blocks of  *)
(* 10^4, in which the factors 1, 0.8, 0.64, 0.512 and 0.4096 are exact.    *)
(* std::sort keeps the order of equal elements in the lists of up to 16    *)
(* elements that are modelled (libstdc++ sorts those by insertion).        *)
(***************************************************************************)
EXTENDS Integers, FiniteSets, Sequences, SequencesExt, FiniteSetsExt

CONSTANTS
    File,         \* the files RocksDB writes
    Trees,        \* LSM trees: what RocksDB tells of each file
    Params,       \* parameter files (param_loader.h)
    NrZones,      \* number of io_zones
    ZoneCap,      \* max_capacity_ of a zone, in blocks
    MaxActive,    \* max_nr_active_io_zones_
    NamedByInt,   \* for each zone the one whose start is its start cut to an
                  \* int of 32 bits, None if there is none
    TopLevel,     \* bound: the last level of the LSM trees
    MaxOpenFiles, \* bound: files open for writing at a time
    MaxEvents,    \* bound: opens, deletes, moves and GC iterations
    None          \* nullptr

Zone == 1..NrZones
io_zones == [z \in Zone |-> z]
Level == 0..TopLevel

Policies == {"Lifetime", "TTL", "CAZA", "PlazaBase", "PlazaMiddle", "PlazaKeys",
             "Nearby", "Arrival", "Tombstone", "Cluster", "Children",
             "Grandchildren", "Compensated", "OAZA"}
Allocators == {"Default", "Sequential", "Random", "LeastWear", "Hotness"}

\* What the parameter file and RocksDB may say.
ASSUME PlacementAssumption ==
    /\ NrZones \in Nat \ {0} /\ ZoneCap \in Nat \ {0} /\ TopLevel \in Nat \ {0}
    /\ MaxActive \in Nat /\ MaxEvents \in Nat
    /\ None \notin Zone /\ None \notin File
    /\ \A p \in Params :
         /\ \A t \in {p.upper, p.middle, p.lower} :
               t.primary \in Policies /\ t.fallback \in Policies
         /\ p.allocator \in Allocators /\ p.reserve \in Nat
    /\ \A t \in Trees : \A f \in File :
         /\ t[f].level \in -1..TopLevel /\ t[f].size \in Nat /\ t[f].life \in 0..5
         /\ t[f].keys => t[f].level >= 0

VARIABLES
    param,        \* zenfs_parameters_ (max_level apart)
    lsm,          \* keys, level, size, lifetime of every file
    max_level,    \* zenfs_parameters_.max_level
    room,         \* Zone::capacity_
    used,         \* Zone::used_capacity_
    life,         \* Zone::lifetime_
    policy,       \* Zone::policy_
    zlevel,       \* Zone::level_
    bytes,        \* Zone::bytes_of_level
    resets,       \* Zone::reset_count_
    busy,         \* the zones whose busy_ is set
    leaked,       \* active tokens of zones that were closed unwritten
    zone_pos,     \* the static zone_pos of AllocateEmptyZoneSequential
    state,        \* of each file: absent, open, failed (an append found no
                  \* zone), closing (it is tried again), abandoned, closed or
                  \* deleted
    level,        \* ZoneFile::level_
    left,         \* blocks the file has still to write
    active,       \* ZoneFile::active_zone_
    extents,      \* ZoneFile::extents_
    lists,        \* levelwise_file_list_; entry l + 1 is level l
    gc,           \* the GC iteration: running, cold files still to come, the
                  \* extents to move, the file being migrated, its new
                  \* extent list and the places of it that were copied
    events        \* bound

fixed == <<param, lsm>>
zoneVars == <<room, used, life, policy, zlevel, bytes, resets>>
fileVars == <<state, level, left, active, extents, lists>>
vars == <<param, lsm, max_level, room, used, life, policy, zlevel, bytes,
          resets, busy, leaked, zone_pos, state, level, left, active, extents,
          lists, gc, events>>

CouldBeWorse == 50      \* LIFETIME_DIFF_COULD_BE_WORSE
NotGood == 100          \* LIFETIME_DIFF_NOT_GOOD

NOT_SET == 0            \* Env::WLTH_NOT_SET; NONE is 1, SHORT 2 ... EXTREME 5

-----------------------------------------------------------------------------
(* Zones and parameters.                                                    *)

IsEmpty(z) == room[z] = ZoneCap
IsFull(z)  == room[z] = 0
IsUsed(z)  == used[z] > 0

GetEmptyZoneCount == Cardinality({z \in Zone : IsEmpty(z)})

\* Variant: the minimum capacity is not asked for.
CandidateOfAnySize(z, min) == IsUsed(z) /\ ~IsFull(z)

\* One step of std::sort: element e goes in front of the first of higher rank.
InsertByRank(sorted, e) ==
    LET at == SelectInSeq(sorted, LAMBDA x : x.rank > e.rank)
    IN  InsertAt(sorted, IF at = 0 THEN Len(sorted) + 1 ELSE at, e)

\* Every policy asks this of an open zone.
Candidate(z, min) == IsUsed(z) /\ ~IsFull(z) /\ room[z] >= min

\* The policies of the tier that level l belongs to.
Tier(l) == CASE l <= param.min_boundary -> param.upper
             [] l >= param.max_boundary -> param.lower
             [] OTHER -> param.middle

GetPolicy(l) == IF l < 0 THEN "Lifetime" ELSE Tier(l).primary
GetSecondaryPolicy(l) == IF l < 0 THEN "Lifetime" ELSE Tier(l).fallback

GetLifeTimeDiff(zone_lifetime, file_lifetime) ==
    CASE file_lifetime \in {NOT_SET, 1} ->
           IF file_lifetime = zone_lifetime THEN 0 ELSE NotGood
      [] zone_lifetime > file_lifetime -> zone_lifetime - file_lifetime
      [] zone_lifetime = file_lifetime -> CouldBeWorse
      [] OTHER -> NotGood

\* The label of a zone: Zone::bytes_of_level, level_ and policy_.
Labels == [z \in Zone |-> [bytes |-> bytes[z], level |-> zlevel[z],
                           policy |-> policy[z]]]

SetLabels(lab) ==
    /\ bytes' = [z \in Zone |-> lab[z].bytes]
    /\ zlevel' = [z \in Zone |-> lab[z].level]
    /\ policy' = [z \in Zone |-> lab[z].policy]

\* The level with the most bytes b; l if none has more.
MajorityLevel(l, b) ==
    FoldLeft(LAMBDA k, i : IF b[i] > b[k] THEN i ELSE k, l,
             [i \in 1..(TopLevel + 1) |-> i - 1])

\* Zone::UpdateBytesOfLevel of zone z for n bytes of level l.  Level -1 is
\* the word before the vector: a file without a level is counted there, past
\* the bounds of bytes_of_level.
UpdateBytesOfLevel(lab, z, l, n) ==
    LET b == [lab[z].bytes EXCEPT ![l] = Max({@ + n, 0})]
        k == MajorityLevel(lab[z].level, b)
    IN  IF param.dynamic /\ l >= 0
        THEN [lab EXCEPT ![z] = [bytes |-> b, level |-> k, policy |-> GetPolicy(k)]]
        ELSE [lab EXCEPT ![z].bytes = b]

-----------------------------------------------------------------------------
(* Level-wise records.                                                      *)

Listed(ls, l) == l >= 0 /\ l < Len(ls)

\* The files of level l.  Two policies read a level past the end of the
\* vector without a check; the model lets them find no file there.
FilesOf(ls, l) == IF Listed(ls, l) THEN ls[l + 1] ELSE <<>>

\* list::remove.
Without(files, f) ==
    FoldLeft(LAMBDA kept, g : IF g = f THEN kept ELSE Append(kept, g), <<>>, files)

RemoveZoneFileRecord(ls, f) == [i \in DOMAIN ls |-> Without(ls[i], f)]

\* Variant: the record goes before the first file of a smaller key.
IsSmaller(f, g) == lsm[g].lo < lsm[f].lo

\* File g is larger than f in the order of its level.
IsLarger(f, g) == lsm[g].lo > lsm[f].lo

\* AddZoneFileRecordNoLock, for a file whose level is l: in front of the
\* first larger file, or at the end.
AddZoneFileRecord(ls, f, l) ==
    IF ~lsm[f].keys \/ l < 0 THEN ls
    ELSE LET grown == [i \in 1..Max({Len(ls), l + 1}) |->
                          IF i <= Len(ls) THEN ls[i] ELSE <<>>]
             files == grown[l + 1]
             at == SelectInSeq(files, LAMBDA g : IsLarger(f, g))
         IN  [grown EXCEPT ![l + 1] =
                  InsertAt(files, IF at = 0 THEN Len(files) + 1 ELSE at, f)]

\* A record under a new level replaces the old one.
MoveRecord(ls, f, l) == AddZoneFileRecord(RemoveZoneFileRecord(ls, f), f, l)

IsOverlapping(f, g) == lsm[f].hi >= lsm[g].lo /\ lsm[f].lo <= lsm[g].hi

GetOverlappingFiles(ls, f, l) ==
    SelectSeq(FilesOf(ls, l), LAMBDA g : g # f /\ IsOverlapping(f, g))

GetOverlapFileCount(ls, f, l) == Len(GetOverlappingFiles(ls, f, l))

GetOverlapByteCount(ls, f, l) ==
    FoldLeft(LAMBDA n, g : n + lsm[g].size, 0, GetOverlappingFiles(ls, f, l))

GetOverlapKeyCount(ls, f, l) ==
    FoldLeft(LAMBDA n, g : n + lsm[g].entries, 0, GetOverlappingFiles(ls, f, l))

IsHighTombstone(f) == 100 * lsm[f].dels >= param.tombstone * lsm[f].entries

\* The size compensated for point deletions; a value takes one block.
CompensatedSize(f) ==
    lsm[f].size + 2 * Max({2 * lsm[f].dels - lsm[f].entries, 0})

-----------------------------------------------------------------------------
(* Walks over zones.  A walk is [busy, zone, score].                        *)

\* Variant: the zone kept before stays acquired.
KeepBoth(walk, z, score) ==
    [busy |-> walk.busy \union {z}, zone |-> z, score |-> score]

\* Keep zone z and release the zone kept before.
Keep(walk, z, score) ==
    [busy |-> (walk.busy \ {walk.zone}) \union {z}, zone |-> z, score |-> score]

\* Visit zone z: acquire it if it is idle, keep it if it is a candidate and
\* better than the one kept, release it otherwise.
Visit(walk, z, min, score, better) ==
    IF z \notin walk.busy /\ Candidate(z, min) /\ better
    THEN Keep(walk, z, score)
    ELSE walk

Start(b, score) == [busy |-> b, zone |-> None, score |-> score]

\* The candidate of least score not above NotGood, the last among equals.
LeastDiff(b, min, score) ==
    FoldLeft(LAMBDA w, z : Visit(w, z, min, score[z], score[z] <= w.score),
             Start(b, NotGood), io_zones)

\* The candidate of highest contribution above 0, the first among equals.
ChooseZoneWithHighestContrib(b, min, contrib) ==
    FoldLeft(LAMBDA w, z : Visit(w, z, min, contrib[z], contrib[z] > w.score),
             Start(b, 0), io_zones)

\* The extents of one ring: the longest in a zone that can be taken, the
\* first among equals.  A zone kept is busy: its later extents are passed.
LongestExtent(walk, min, exts) ==
    FoldLeft(LAMBDA w, e : Visit(w, e.zone, min, e.len, e.len > w.score),
             walk, exts)

ExtentsAt(files, i) == IF i \in DOMAIN files THEN extents[files[i]] ELSE <<>>

\* Variant: starts two places away from the file.
ClosestFileSkipsOne(b, min, files, at) ==
    FoldLeft(LAMBDA w, d :
                 IF w.zone # None THEN w
                 ELSE LongestExtent(w, min, ExtentsAt(files, at - d - 1) \o
                                            ExtentsAt(files, at + d + 1)),
             Start(b, 0), [d \in DOMAIN files |-> d])

\* Rings around place `at' of files, outwards, until one offers a zone.
ChooseZoneWithClosestFile(b, min, files, at) ==
    FoldLeft(LAMBDA w, d :
                 IF w.zone # None THEN w
                 ELSE LongestExtent(w, min, ExtentsAt(files, at - d) \o
                                            ExtentsAt(files, at + d)),
             Start(b, 0), [d \in DOMAIN files |-> d])

\* One file at a time, the closer in rank first.  The loop ends as soon as
\* one side is used up, and never looks at the first file of the ranking.
ChooseZoneWithClosestRank(b, min, ranking, at) ==
    LET Step(s, i) ==
          IF s.walk.zone # None \/ s.prev <= 1 \/ s.next > Len(ranking) THEN s
          ELSE LET down == ranking[at].rank - ranking[s.prev].rank
                   up == ranking[s.next].rank - ranking[at].rank
                   g == IF down < up THEN s.prev ELSE s.next
               IN  [walk |-> LongestExtent(s.walk, min, extents[ranking[g].file]),
                    prev |-> IF g = s.prev THEN s.prev - 1 ELSE s.prev,
                    next |-> IF g = s.next THEN s.next + 1 ELSE s.next]
    IN  FoldLeft(Step, [walk |-> Start(b, 0), prev |-> at - 1, next |-> at + 1],
                 ranking).walk

-----------------------------------------------------------------------------
(* The policies.  A match m is [busy, zone, diff, level, lists, max]: the   *)
(* zones busy, *zone_out, *best_diff_out, the level and records a policy    *)
(* may change, and max_level.  min is min_capacity.                         *)

\* What a policy leaves behind after a walk that found a zone or none.
Found(m, walk, diff) ==
    IF walk.zone = None THEN [m EXCEPT !.diff = NotGood]
    ELSE [m EXCEPT !.busy = walk.busy, !.zone = walk.zone, !.diff = diff]

\* Policies that set *zone_out whatever they found.
Assigned(m, walk) ==
    [m EXCEPT !.busy = walk.busy, !.zone = walk.zone, !.diff = walk.score]

MatchLifetimeBased(m, f, min) ==
    Assigned(m, LeastDiff(m.busy, min,
                          [z \in Zone |-> GetLifeTimeDiff(life[z], lsm[f].life)]))

\* The last candidate in fits is a perfect match.
LastFit(m, min, fits) ==
    Assigned(m, LeastDiff(m.busy, min,
                          [z \in Zone |-> IF z \in fits THEN 0 ELSE NotGood + 1]))

MatchArrivalTimeBased(m, f, min) ==
    LastFit(m, min, {z \in Zone : Max({1, zlevel[z]}) = Max({1, m.level})})

MatchTombstoneDensity(m, f, min) ==
    IF IsHighTombstone(f)
    THEN LastFit(m, min, {z \in Zone : policy[z] = "Tombstone"})
    ELSE [m EXCEPT !.zone = None, !.diff = NotGood]

MatchClusterTogether(m, f, min) ==
    LastFit(m, min, {z \in Zone : policy[z] = "Cluster"})

\* The blocks of file f in zone z.
BlocksIn(f, z) ==
    Cardinality({p \in (DOMAIN extents[f]) \X (1..ZoneCap) :
                    extents[f][p[1]].zone = z /\ p[2] <= extents[f][p[1]].len})

\* The factors of the file d places away: 1, 0.8^d but not below 0.2, and
\* 0.5^d, in 1/10^4.
Steps == 0..(2 * Cardinality(File))
Even == [d \in Steps |-> 10^4]
Slow == [d \in Steps |-> Max({(8^d * 10^4) \div 10^d, 2000})]
Fast == [d \in Steps |-> 10^4 \div 2^d]

\* GetPerZoneContribution of files to every zone, the factor falling from the
\* first on.
Contribution(files, factor) ==
    [z \in Zone |-> FoldLeft(LAMBDA n, d : n + factor[d - 1] * BlocksIn(files[d], z),
                             0, [d \in DOMAIN files |-> d])]

\* Files on both sides of a place: the factor falls outwards on each side.
Around(before, after, factor) ==
    LET up == Contribution(after, factor)
        down == Contribution(Reverse(before), factor)
    IN  [z \in Zone |-> up[z] + down[z]]

\* Files of the neighbouring levels that CAZA places too.
CazaFiles(m, f) ==
    LET of(l) == IF "CAZA" \in {GetPolicy(l), GetSecondaryPolicy(l)}
                 THEN GetOverlappingFiles(m.lists, f, l) ELSE <<>>
    IN  of(m.level - 1) \o of(m.level + 1)

\* The second try for level 0 uses an empty map and never finds a zone.
MatchCAZA(m, f, min) ==
    Found(m, ChooseZoneWithHighestContrib(m.busy, min,
                 Contribution(CazaFiles(m, f), Even)), 0)

\* Files of the level of f below and above the place of f, f left out.
Below(m, f) == SelectSeq(FilesOf(m.lists, m.level),
                         LAMBDA g : g # f /\ lsm[g].lo < lsm[f].lo)
Above(m, f) == SelectSeq(FilesOf(m.lists, m.level),
                         LAMBDA g : g # f /\ lsm[g].lo >= lsm[f].lo)

NearbyZone(m, f, min) ==
    ChooseZoneWithHighestContrib(m.busy, min,
        Around(Below(m, f), Above(m, f), Slow))

\* A zone that was found, and whether it is a poor match.
FoundPoor(m, walk, poor) ==
    Found(m, walk, IF walk.zone # None /\ poor THEN CouldBeWorse ELSE 0)

MatchPlazaBase(m, f, min) ==
    LET w == NearbyZone(m, f, min)
    IN  FoundPoor(m, w, w.score * 100 < param.threshold * used[w.zone] * 10^4)

\* The open zones of level l.
OpenZonesOf(l) ==
    Cardinality({z \in Zone : IsUsed(z) /\ ~IsFull(z) /\ zlevel[z] = l})

\* Too few of up to five files on each side of the place of f are in zone z.
FewNeighbours(same, f, z) ==
    LET middle == Cardinality({i \in DOMAIN same : lsm[same[i]].lo < lsm[f].lo})
        near == (Max({middle - 5, 0}) + 1)..Min({middle + 5, Len(same)})
    IN  100 * Cardinality({i \in near : BlocksIn(same[i], z) > 0})
            < param.threshold * Max({Cardinality(near), 1})

MatchPlazaIntermediate(m, f, min) ==
    LET w == NearbyZone(m, f, min)
    IN  FoundPoor(m, w, \/ FewNeighbours(FilesOf(m.lists, m.level), f, w.zone)
                        \/ OpenZonesOf(m.level) < param.zones_to_open)

Distance(f, g) == Max({lsm[f].lo - lsm[g].lo, lsm[g].lo - lsm[f].lo})

\* The zone whose farthest file of the level is closest.  Keys are numbers
\* of one digit; the map is walked by address, taken to be the zone order.
MatchPlazaAdvanced(m, f, min) ==
    LET same == ToSet(FilesOf(m.lists, m.level))
        holds(z) == {g \in same : BlocksIn(g, z) > 0}
        far == [z \in Zone |-> IF holds(z) = {} THEN NotGood + 1
                               ELSE Max({Distance(f, g) : g \in holds(z)})]
        w == LeastDiff(m.busy, min, far)
    IN  IF m.level < 2 THEN MatchArrivalTimeBased(m, f, min)
        ELSE FoundPoor(m, w, w.score * 100 > param.threshold)

IndexOf(files, f) == SelectInSeq(files, LAMBDA g : g = f)

ClosestTo(m, f, min, files) ==
    Found(m, ChooseZoneWithClosestFile(m.busy, min, files, IndexOf(files, f)), 0)

NearestInLevel(m, f, min) == ClosestTo(m, f, min, FilesOf(m.lists, m.level))

\* The file's record is renewed first.
MatchSameLevelNearbyKeysSimple(m, f, min) ==
    IF Listed(m.lists, m.level)
    THEN NearestInLevel([m EXCEPT !.lists = MoveRecord(@, f, m.level)], f, min)
    ELSE [m EXCEPT !.diff = NotGood]

\* A ranking is a sequence of [file, rank], sorted by rank; equal ranks keep
\* their order.
Ranked(files, rank) ==
    FoldLeft(LAMBDA s, g : InsertByRank(s, [file |-> g, rank |-> rank[g]]), <<>>, files)

\* The places of file f in a ranking; a file recorded twice has two.
Places(ranking, f) == {i \in DOMAIN ranking : ranking[i].file = f}

\* Ranks replaced by places.  rank_ is a field of the file: the last counts.
ByPlace(ranking) ==
    [i \in DOMAIN ranking |->
        [ranking[i] EXCEPT !.rank = Max(Places(ranking, ranking[i].file))]]

RankedFiles(ranking) == [i \in DOMAIN ranking |-> ranking[i].file]

\* The rank is the place by overlap, or 0 when one of the levels has no list.
OverlapRankHelperSizeBased(ls, files, own, target) ==
    IF Listed(ls, own) /\ Listed(ls, target)
    THEN ByPlace(Ranked(files, [g \in ToSet(files) |->
             (GetOverlapByteCount(ls, g, target) * 1024) \div CompensatedSize(g)]))
    ELSE Ranked(files, [g \in ToSet(files) |-> 0])

\* The rank is the overlap itself.
OverlapRankHelperKeyBased(ls, files, own, target) ==
    Ranked(files, [g \in ToSet(files) |-> IF Listed(ls, own) /\ Listed(ls, target)
        THEN (GetOverlapKeyCount(ls, g, target) * 1024) \div lsm[g].entries ELSE 0])

\* The file first, then the others of level l.
WithFile(ls, f, l) == <<f>> \o Without(FilesOf(ls, l), f)

\* A file may be compacted as the victim of a file above it: the rank of the
\* first that overlaps is added, once for each place, and the ranking sorted
\* again.
AddUpperRank(own, upper) ==
    LET first(f) == SelectInSeq(upper, LAMBDA r : IsOverlapping(f, r.file))
        added(f) == IF first(f) = 0 THEN 0 ELSE upper[first(f)].rank
        files == RankedFiles(own)
    IN  RankedFiles(Ranked(files, [f \in ToSet(files) |->
            own[Max(Places(own, f))].rank + Cardinality(Places(own, f)) * added(f)]))

\* The level a file sinks to by trivial moves.
SinksTo(m, f) ==
    Min({k \in m.level..m.max :
            k = m.max \/ GetOverlapFileCount(m.lists, f, k + 1) > 0})

\* The zone that holds most of the files ranked around place `at'.
RankedZone(m, min, files, at, factor) ==
    Found(m, ChooseZoneWithHighestContrib(m.busy, min,
                 Around(SubSeq(files, 1, at - 1),
                        SubSeq(files, at + 1, Len(files)), factor)), 0)

ZoneRankedNext(m, f, min, files, factor) ==
    RankedZone(m, min, files, IndexOf(files, f), factor)

\* The rest of MatchOverlapChildren, the file having been moved down.
AmongSiblings(m, f, min) ==
    IF ~Listed(m.lists, m.level) THEN [m EXCEPT !.diff = NotGood]
    ELSE ZoneRankedNext(m, f, min, AddUpperRank(
             OverlapRankHelperSizeBased(m.lists, WithFile(m.lists, f, m.level),
                                        m.level, m.level + 1),
             OverlapRankHelperSizeBased(m.lists,
                 Without(FilesOf(m.lists, m.level - 1), f), m.level - 1, m.level)),
             Slow)

\* The record of f under level l, if l is below its level.
Sunk(m, f, l) ==
    IF l > m.level THEN [m EXCEPT !.level = l, !.lists = MoveRecord(@, f, l)] ELSE m

MatchOverlapChildren(m, f, min) == AmongSiblings(Sunk(m, f, SinksTo(m, f)), f, min)

\* Level 0 is not looked at as an upper level; the level of f stays.
UpperFiles(ls, f, l) == IF l > 1 THEN Without(FilesOf(ls, l - 1), f) ELSE <<>>

ByGrandchildren(ls, f, l) ==
    AddUpperRank(OverlapRankHelperSizeBased(ls, WithFile(ls, f, l), l, l + 2),
                 OverlapRankHelperSizeBased(ls, UpperFiles(ls, f, l), l - 1, l + 1))

MatchOverlapGrandchildren(m, f, min) ==
    ZoneRankedNext(m, f, min, ByGrandchildren(m.lists, f, SinksTo(m, f)), Fast)

\* The largest file first.
BySize(files) == ByPlace(Ranked(files, [g \in ToSet(files) |-> -CompensatedSize(g)]))

ByCompensatedSize(ls, f, l) ==
    AddUpperRank(BySize(WithFile(ls, f, l)), BySize(UpperFiles(ls, f, l)))

MatchCompensatedSize(m, f, min) ==
    ZoneRankedNext(m, f, min, ByCompensatedSize(m.lists, f, SinksTo(m, f)), Fast)

\* The file whose overlap is most like that of f, by rank or by place.
MostAlike(m, f, min, own) ==
    IF param.real_oaza
    THEN Found(m, ChooseZoneWithClosestRank(m.busy, min, own,
                      SelectInSeq(own, LAMBDA r : r.file = f)), 0)
    ELSE ClosestTo(m, f, min, RankedFiles(own))

\* A file that overlaps nothing below sinks one level and is left to the
\* fallback; so is a file of the last level that overlaps nothing above.
MatchOAZA(m, f, min) ==
    LET l == m.level
        target == IF l < m.max THEN l + 1 ELSE l - 1
    IN  IF ~Listed(m.lists, l) THEN [m EXCEPT !.diff = NotGood]
        ELSE IF GetOverlapFileCount(m.lists, f, target) = 0
        THEN Sunk([m EXCEPT !.diff = NotGood], f, Min({l + 1, m.max}))
        ELSE MostAlike(m, f, min, OverlapRankHelperKeyBased(m.lists,
                                      WithFile(m.lists, f, l), l, target))

\* function_map.
Match(p, m, f, min) ==
    CASE p = "Lifetime"     -> MatchLifetimeBased(m, f, min)
      [] p = "TTL"          -> MatchLifetimeBased(m, f, min)
      [] p = "CAZA"         -> MatchCAZA(m, f, min)
      [] p = "PlazaBase"    -> MatchPlazaBase(m, f, min)
      [] p = "PlazaMiddle"  -> MatchPlazaIntermediate(m, f, min)
      [] p = "PlazaKeys"    -> MatchPlazaAdvanced(m, f, min)
      [] p = "Nearby"       -> MatchSameLevelNearbyKeysSimple(m, f, min)
      [] p = "Arrival"      -> MatchArrivalTimeBased(m, f, min)
      [] p = "Tombstone"    -> MatchTombstoneDensity(m, f, min)
      [] p = "Cluster"      -> MatchClusterTogether(m, f, min)
      [] p = "Children"     -> MatchOverlapChildren(m, f, min)
      [] p = "Grandchildren" -> MatchOverlapGrandchildren(m, f, min)
      [] p = "Compensated"  -> MatchCompensatedSize(m, f, min)
      [] p = "OAZA"         -> MatchOAZA(m, f, min)

\* The primary policy p failed and m is the match of the fallback: the least
\* difference that makes the allocator look for a new zone first.
OwedDiff(p, f, before, m) ==
    CASE p \in {"Arrival", "Cluster"} -> CouldBeWorse
      [] p = "Tombstone" /\ IsHighTombstone(f) -> CouldBeWorse
      [] p = "CAZA" /\ param.real_caza -> CouldBeWorse
      [] p = "OAZA" /\ param.real_oaza /\ before < m.max
                    /\ m.level > before -> NotGood
      [] p = "OAZA" /\ ~param.real_oaza /\ m.level < m.max -> CouldBeWorse
      [] OTHER -> 0

AtLeast(m, diff) == [m EXCEPT !.diff = Max({@, diff})]

\* Neither policy found a zone.
WithDefault(m, f, min) ==
    IF m.zone # None THEN m
    ELSE AtLeast(MatchLifetimeBased(m, f, min), CouldBeWorse)

Owing(m, f, before) ==
    AtLeast(m, OwedDiff(Tier(before).primary, f, before, m))

\* The fallback policy of the level the file had before.
WithFallback(m, f, min, before) ==
    IF m.zone # None THEN m
    ELSE WithDefault(Owing(Match(Tier(before).fallback, m, f, min), f, before),
                     f, min)

\* Files that are no SST files, or whose keys are not known, are matched by
\* lifetime alone and without a minimum.
GetBestOpenZoneMatch(m, f, min) ==
    IF m.level < 0 \/ ~lsm[f].keys THEN MatchLifetimeBased(m, f, 0)
    ELSE WithFallback(Match(Tier(m.level).primary, m, f, min), f, min, m.level)

\* What GetBestOpenZoneMatch starts from.
Unmatched(f) == [busy |-> busy, zone |-> None, diff |-> NotGood,
                 level |-> level[f], lists |-> lists,
                 max |-> Max({max_level, level[f]})]

-----------------------------------------------------------------------------
(* Empty zones.  b is the set of busy zones; None is no zone.               *)

IdleEmpty(b) == {z \in Zone \ b : IsEmpty(z)}

FirstEmpty(b, zones) ==
    LET i == SelectInSeq(zones, LAMBDA z : z \in IdleEmpty(b))
    IN  IF i = 0 THEN None ELSE zones[i]

\* io_zones from place zone_pos on, around its end.
FromPos == [i \in Zone |-> ((zone_pos + i - 2) % NrZones) + 1]

\* Variant: the largest reset count.
MostWear(b) ==
    FoldLeft(LAMBDA best, z :
                 IF z \in IdleEmpty(b) /\ (best = None \/ resets[best] <= resets[z])
                 THEN z ELSE best, None, io_zones)

\* The last among the zones of least reset count.
AllocateEmptyZoneLeastWear(b) ==
    FoldLeft(LAMBDA best, z :
                 IF z \in IdleEmpty(b) /\ (best = None \/ ~(resets[best] < resets[z]))
                 THEN z ELSE best, None, io_zones)

\* The zones of the interval of level l among the zones sorted by wear.
PerfectInterval(l) ==
    LET levels == Max({max_level, l})
    IN  [lower |-> (NrZones * (l - 1)) \div levels,
         upper |-> Min({NrZones, -((-NrZones * l) \div levels)})]

\* io_zones sorted by reset count.
SortedByWear ==
    FoldLeft(LAMBDA s, z : InsertByRank(s, [zone |-> z, rank |-> resets[z]]),
             <<>>, io_zones)
ZonesByWear ==
    LET sorted == SortedByWear
    IN  [i \in DOMAIN sorted |-> sorted[i].zone]

\* The interval of the level first, then the nearest zone above or below it:
\* the one below only if it is nearer by more than one place.
AllocateEmptyZoneHotnessBased(b, l) ==
    LET sorted == ZonesByWear
        p == PerfectInterval(l)
        ideal == FirstEmpty(b, SubSeq(sorted, p.lower + 1, p.upper))
        up == FirstEmpty(b, SubSeq(sorted, p.upper + 1, NrZones))
        down == FirstEmpty(b, Reverse(SubSeq(sorted, 1, p.lower)))
        place(z) == SelectInSeq(sorted, LAMBDA y : y = z) - 1
    IN  CASE l <= 0 -> AllocateEmptyZoneLeastWear(b)
          [] l > 0 /\ ideal # None -> ideal
          [] l > 0 /\ ideal = None /\ down = None -> up
          [] l > 0 /\ ideal = None /\ down # None /\ up = None -> down
          [] OTHER -> IF p.lower - place(down) < place(up) - p.upper
                      THEN down ELSE up

\* The zones the configured allocator may hand over.
AllocateEmptyZone(b, l) ==
    CASE param.allocator = "Default" -> {FirstEmpty(b, io_zones)}
      [] param.allocator = "Sequential" -> {FirstEmpty(b, FromPos)}
      [] param.allocator = "Random" ->
           IF IdleEmpty(b) = {} THEN {None} ELSE IdleEmpty(b)
      [] param.allocator = "LeastWear" -> {AllocateEmptyZoneLeastWear(b)}
      [] param.allocator = "Hotness" -> {AllocateEmptyZoneHotnessBased(b, l)}

\* zone_pos after the sequential allocator stopped at zone z.
NextPos(z) == IF param.allocator # "Sequential" \/ z = None THEN zone_pos
              ELSE (z % NrZones) + 1

-----------------------------------------------------------------------------
(* AllocateIOZoneNoLock.                                                    *)

\* Zones that hold an active token: written and not full, or taken empty.
ActiveZones == {z \in Zone : ~IsFull(z) /\ (~IsEmpty(z) \/ z \in busy)}

\* The idle active zones of least capacity left; the first is finished.
FinishCheapestIOZone(b) ==
    LET idle == {z \in Zone \ b : ~IsEmpty(z) /\ ~IsFull(z)}
    IN  IF idle = {} THEN None
        ELSE Min({z \in idle : \A y \in idle : room[z] <= room[y]})

\* Take the matching zone, though it may be a poor match: there is no token
\* for a new one, or the empty zones are needed as a reserve.
Settle(m, got) ==
    /\ m.zone # None
    /\ \/ m.diff < CouldBeWorse
       \/ ~got /\ m.diff = CouldBeWorse
       \/ GetEmptyZoneCount <= param.reserve

\* Every outcome of an allocation for a file of level l with the match m:
\* the match, the zone, whether it is a new one, and the zone that was
\* finished to get an active token.  No outcome: the thread spins until
\* another returns a token.
Outcomes(m, got) ==
    LET rest == m.busy \ {m.zone}
        victim == IF got THEN None ELSE FinishCheapestIOZone(rest)
    IN  IF Settle(m, got)
        THEN {[match |-> m, zone |-> m.zone, new |-> FALSE, victim |-> None]}
        ELSE {[match |-> m, zone |-> z, new |-> TRUE, victim |-> victim] :
                 z \in {y \in AllocateEmptyZone(rest, m.level) :
                           got \/ victim # None}}

\* An active token is taken for a match that is not good.
TryToken(m) ==
    Outcomes(m, /\ m.diff >= CouldBeWorse
                /\ Cardinality(ActiveZones) + leaked < MaxActive)

Allocations(f, min) == TryToken(GetBestOpenZoneMatch(Unmatched(f), f, min))

\* A zone that is finished has no room left.
RoomAfter(o) == [z \in Zone |-> IF z = o.victim THEN 0 ELSE room[z]]

\* A new zone takes its lifetime, level and policy from the file.
LifeAfter(f, o) ==
    [z \in Zone |-> IF o.new /\ z = o.zone THEN lsm[f].life ELSE life[z]]

LabelsAfter(o) ==
    [z \in Zone |-> IF o.new /\ z = o.zone
                    THEN [bytes |-> bytes[z], level |-> o.match.level,
                          policy |-> GetPolicy(o.match.level)]
                    ELSE Labels[z]]

\* What the allocation changes besides the zones.
Allocate(f, o) ==
    /\ max_level' = o.match.max
    /\ zone_pos' = IF o.new THEN NextPos(o.zone) ELSE zone_pos
    /\ level' = [level EXCEPT ![f] = o.match.level]
    /\ lists' = o.match.lists

-----------------------------------------------------------------------------
(* What the program does with files.                                        *)

\* A new device and a configuration.
Init ==
    /\ param \in Params
    /\ lsm \in Trees
    /\ max_level = 1
    /\ room = [z \in Zone |-> ZoneCap]
    /\ used = [z \in Zone |-> 0]
    /\ life = [z \in Zone |-> NOT_SET]
    /\ policy = [z \in Zone |-> "Lifetime"]
    /\ zlevel = [z \in Zone |-> -1]
    /\ bytes = [z \in Zone |-> [l \in -1..TopLevel |-> 0]]
    /\ resets = [z \in Zone |-> 0]
    /\ busy = {}
    /\ leaked = 0
    /\ zone_pos = 1
    /\ state = [f \in File |-> "absent"]
    /\ level = [f \in File |-> -1]
    /\ left = [f \in File |-> 0]
    /\ active = [f \in File |-> None]
    /\ extents = [f \in File |-> <<>>]
    /\ lists = <<>>
    /\ gc = [on |-> FALSE, cold |-> FALSE, todo |-> {}, file |-> None, list |-> <<>>,
             copied |-> {}]
    /\ events = 0

Event == events < MaxEvents /\ events' = events + 1

\* RocksDB creates a file, tells its level, keys, size and lifetime, and
\* appends all of it to the buffer.  Tables and logs are always buffered.
OpenFile(f) ==
    /\ state[f] = "absent"
    /\ Cardinality({g \in File : state[g] = "open"}) < MaxOpenFiles
    /\ Event
    /\ state' = [state EXCEPT ![f] = "open"]
    /\ level' = [level EXCEPT ![f] = lsm[f].level]
    /\ left' = [left EXCEPT ![f] = lsm[f].size]
    /\ UNCHANGED <<fixed, max_level, zoneVars, busy, leaked, zone_pos, active,
                   extents, lists, gc>>

Flushing(f) == state[f] \in {"open", "closing"}

\* BufferedAppend takes a zone to begin with, and another whenever one is
\* full, even if nothing is left.
NeedsZone(f) ==
    Flushing(f) /\ active[f] = None /\ (left[f] > 0 \/ extents[f] # <<>>)

MinCapacity(f) == IF param.fragmentation THEN 0 ELSE left[f]

AppendFails(f) == IF state[f] = "open" THEN "failed" ELSE "abandoned"

\* AllocateNewZone.  Without a zone the append fails; the file keeps what it
\* has.  The GC holds alloc_mutex_ for its whole iteration.
AllocateIOZone(f) ==
    /\ NeedsZone(f)
    /\ ~gc.on
    /\ \E o \in Allocations(f, MinCapacity(f)) :
         /\ Allocate(f, o)
         /\ busy' = (o.match.busy \ {o.match.zone}) \union ({o.zone} \ {None})
         /\ room' = RoomAfter(o)
         /\ life' = LifeAfter(f, o)
         /\ SetLabels(LabelsAfter(o))
         /\ active' = [active EXCEPT ![f] = o.zone]
         /\ state' = IF o.zone = None THEN [state EXCEPT ![f] = AppendFails(f)]
                     ELSE state
    /\ UNCHANGED <<fixed, used, resets, leaked, left, extents, gc, events>>

\* One turn of the loop of BufferedAppend: as much as fits becomes an extent,
\* and a full zone is closed.  bytes_of_level is not touched.
AppendData(f) ==
    /\ active[f] # None
    /\ left[f] > 0
    /\ LET z == active[f]
           n == Min({left[f], room[z]})
       IN  /\ room' = [room EXCEPT ![z] = @ - n]
           /\ used' = [used EXCEPT ![z] = @ + n]
           /\ left' = [left EXCEPT ![f] = @ - n]
           /\ extents' = [extents EXCEPT ![f] =
                  Append(@, [zone |-> z, len |-> n, level |-> level[f]])]
           /\ busy' = IF n = room[z] THEN busy \ {z} ELSE busy
           /\ active' = IF n = room[z] THEN [active EXCEPT ![f] = None] ELSE active
    /\ UNCHANGED <<fixed, max_level, life, policy, zlevel, bytes, resets, leaked,
                   zone_pos, state, level, lists, gc, events>>

\* CloseInternal after a failed append: buffer_pos was not reset, so the whole
\* buffer is appended again.
RetryFlush(f) ==
    /\ state[f] = "failed"
    /\ Event
    /\ state' = [state EXCEPT ![f] = "closing"]
    /\ left' = [left EXCEPT ![f] = lsm[f].size]
    /\ UNCHANGED <<fixed, max_level, zoneVars, busy, leaked, zone_pos, level, active,
                   extents, lists, gc>>

\* CreateOrUpdateRecord at the first close: is_recorded_ is not set yet, and
\* a record that a policy made while the file was written stays.
CreateOrUpdateRecord(ls, f) == AddZoneFileRecord(ls, f, level[f])

\* CloseWR: the file is recorded and its zone released.  The active token of
\* a zone that was never written is not returned.
CloseWR(f) ==
    /\ Flushing(f)
    /\ left[f] = 0
    /\ ~NeedsZone(f)
    /\ state' = [state EXCEPT ![f] = "closed"]
    /\ lists' = CreateOrUpdateRecord(lists, f)
    /\ busy' = busy \ {active[f]}
    /\ leaked' = leaked + (IF IsEmpty(active[f]) THEN 1 ELSE 0)
    /\ active' = [active EXCEPT ![f] = None]
    /\ UNCHANGED <<fixed, max_level, zoneVars, zone_pos, level, left, extents,
                   gc, events>>

\* ResetUnusedIOZones on zones with room r, live blocks u, lifetimes lf and
\* labels lab.  policy_ and the word before bytes_of_level are not reset.
ResetUnusedIOZones(r, u, lf, lab) ==
    LET dead == {z \in Zone \ busy : r[z] # ZoneCap /\ u[z] = 0}
        clean(z) == [bytes |-> [l \in -1..TopLevel |->
                                   IF l < 0 THEN lab[z].bytes[l] ELSE 0],
                     level |-> -1, policy |-> lab[z].policy]
    IN  /\ used' = u
        /\ room' = [z \in Zone |-> IF z \in dead THEN ZoneCap ELSE r[z]]
        /\ life' = [z \in Zone |-> IF z \in dead THEN NOT_SET ELSE lf[z]]
        /\ resets' = [z \in Zone |-> resets[z] + (IF z \in dead THEN 1 ELSE 0)]
        /\ SetLabels([z \in Zone |-> IF z \in dead THEN clean(z) ELSE lab[z]])

\* ClearExtents takes the bytes of a file out of their levels.
ClearedExtents(f) ==
    IF param.dynamic
    THEN FoldLeft(LAMBDA lab, e : UpdateBytesOfLevel(lab, e.zone, e.level, -e.len),
                  Labels, extents[f])
    ELSE Labels

\* DeleteFile of a file that was closed or given up: the record and the
\* extents go, and zones without live blocks are reset.  Deleting a file that
\* GC is migrating is in module Handles.
DeleteFile(f) ==
    /\ state[f] \in {"closed", "abandoned"}
    /\ gc.file # f
    /\ Event
    /\ state' = [state EXCEPT ![f] = "deleted"]
    /\ lists' = RemoveZoneFileRecord(lists, f)
    /\ extents' = [extents EXCEPT ![f] = <<>>]
    /\ ResetUnusedIOZones(room, [z \in Zone |-> used[z] - BlocksIn(f, z)], life,
           ClearedExtents(f))
    /\ UNCHANGED <<fixed, max_level, busy, leaked, zone_pos, level, left, active, gc>>

\* SetLevel: every extent's bytes are counted for the new level.
Relevelled(f, l) ==
    FoldLeft(LAMBDA lab, e :
                 UpdateBytesOfLevel(
                     UpdateBytesOfLevel(lab, e.zone, e.level, -e.len),
                     e.zone, l, e.len),
             Labels, extents[f])

\* MoveFileToNewLevel: RocksDB moved a table down without rewriting it.
MoveFileToNewLevel(f, l) ==
    /\ state[f] = "closed"
    /\ lsm[f].keys
    /\ l > level[f]
    /\ Event
    /\ lists' = MoveRecord(lists, f, l)
    /\ level' = [level EXCEPT ![f] = l]
    /\ extents' = [extents EXCEPT ![f] =
           [i \in DOMAIN @ |-> [@[i] EXCEPT !.level = l]]]
    /\ SetLabels(Relevelled(f, l))
    /\ UNCHANGED <<fixed, max_level, room, used, life, resets, busy, leaked, zone_pos,
                   state, left, active, gc>>

-----------------------------------------------------------------------------
(* Garbage collection.                                                      *)

Total(fn) == FoldLeft(LAMBDA n, z : n + fn[z], 0, io_zones)

GetFreePercent ==
    LET dead == [z \in Zone |-> IF IsFull(z) THEN ZoneCap - used[z] ELSE 0]
    IN  (100 * Total(room)) \div (Total(room) + Total(used) + Total(dead))

\* Full zones with more garbage than a threshold that falls with the free
\* space.  Below 0 the unsigned threshold is larger than any percentage.
SelectGarbageZonesDefault ==
    LET threshold == 100 - param.gc_slope * (param.gc_start - GetFreePercent)
        garbage(z) == 100 - ((100 * used[z]) \div ZoneCap)
    IN  {z \in Zone : /\ IsFull(z)
                      /\ threshold >= 0
                      /\ garbage(z) > threshold
                      /\ garbage(z) < 100}

\* The zones at least half written with the least share of live data, as
\* many as the free space lacks.  Empty zones, whose share is not a number,
\* are taken to stay where they are in the sort.
SelectGarbageZonesImproved ==
    LET lack == param.gc_stop - GetFreePercent
        target == -((-NrZones * lack) \div 100)
        before(y, z) ==
            LET a == used[y] * (ZoneCap - room[z])
                b == used[z] * (ZoneCap - room[y])
            IN  a < b \/ (a = b /\ y < z)
        eligible == {z \in Zone : 2 * room[z] <= ZoneCap}
    IN  {z \in eligible : /\ lack > 0
                          /\ Cardinality({y \in eligible : before(y, z)}) < target}

\* Blocks of level l that are live in zone z.
LiveBytes(z, l) ==
    FoldSet(LAMBDA f, n : n + FoldLeft(LAMBDA k, e :
                k + (IF e.zone = z /\ e.level = l THEN e.len ELSE 0), 0, extents[f]),
            0, File)

\* The extents of SST files in zones: only those are migrated.
ExtentsIn(zones) ==
    UNION {{[file |-> f, place |-> i, zone |-> extents[f][i].zone] :
                i \in {j \in DOMAIN extents[f] : extents[f][j].zone \in zones}} :
              f \in {g \in File : lsm[g].keys}}

Collected == ExtentsIn(IF param.gc = "Improved" THEN SelectGarbageZonesImproved
                       ELSE SelectGarbageZonesDefault)

\* The worker holds alloc_mutex_ from here to GCWorkerEnd.  An iteration that
\* has nothing to move does nothing.
GCWorkerStart ==
    /\ ~gc.on
    /\ GetFreePercent <= param.gc_start
    /\ Collected # {} \/ param.cold
    /\ Event
    /\ gc' = [gc EXCEPT !.on = TRUE, !.cold = param.cold, !.todo = Collected]
    /\ UNCHANGED <<fixed, max_level, zoneVars, busy, leaked, zone_pos, fileVars>>

\* MigrateExtents goes zone by zone, and by file within a zone: the extents
\* of file f in the zone at hand.
Batch(f) ==
    LET zone == Min({e.zone : e \in gc.todo})
    IN  {e \in gc.todo : e.file = f /\ e.zone = zone}

\* The file was deleted or is open for writing.
SkipFile(f) ==
    /\ gc.file = None
    /\ gc.todo # {}
    /\ Batch(f) # {}
    /\ state[f] # "closed"
    /\ gc' = [gc EXCEPT !.todo = @ \ Batch(f)]
    /\ UNCHANGED <<fixed, max_level, zoneVars, busy, leaked, zone_pos, fileVars,
                   events>>

\* MigrateFileExtents takes the write lock and copies the extent list, every
\* extent with the level of the file.
MigrateFileExtents(f) ==
    /\ gc.file = None
    /\ gc.todo # {}
    /\ Batch(f) # {}
    /\ state[f] = "closed"
    /\ gc' = [gc EXCEPT !.file = f, !.list =
           [i \in DOMAIN extents[f] |-> [extents[f][i] EXCEPT !.level = level[f]]]]
    /\ UNCHANGED <<fixed, max_level, zoneVars, busy, leaked, zone_pos, fileVars,
                   events>>

\* The next extent is copied to a zone chosen like any other; bytes_of_level
\* is not touched.
MigrateExtent(f) ==
    /\ gc.file = f
    /\ gc.todo # {}
    /\ Batch(f) # {}
    /\ LET i == Min({e.place : e \in Batch(f)})
           n == gc.list[i].len
       IN  \E o \in Allocations(f, n) :
             /\ Allocate(f, o)
             /\ gc' = [gc EXCEPT !.todo = {e \in @ : e \notin Batch(f) \/ e.place # i},
                                 !.list[i].zone = IF o.zone = None THEN @ ELSE o.zone,
                                 !.copied = IF o.zone = None THEN @ ELSE @ \union {i}]
             /\ room' = [z \in Zone |-> RoomAfter(o)[z] - (IF z = o.zone THEN n ELSE 0)]
             /\ used' = [z \in Zone |-> used[z] + (IF z = o.zone THEN n ELSE 0)]
             /\ life' = LifeAfter(f, o)
             /\ SetLabels(LabelsAfter(o))
    /\ UNCHANGED <<fixed, resets, busy, leaked, state, left, active, extents,
                   events>>

\* SyncFileExtents: the new list replaces the old one, the blocks that were
\* copied are dead, and zones without live blocks are reset.
SyncFileExtents(f) ==
    /\ gc.file = f
    /\ gc.todo # {} => Batch(f) = {}
    /\ gc' = [gc EXCEPT !.file = None, !.list = <<>>, !.copied = {}]
    /\ extents' = [extents EXCEPT ![f] = gc.list]
    /\ LET copied(z) == {j \in gc.copied : z = extents[f][j].zone}
       IN  ResetUnusedIOZones(room,
               [z \in Zone |-> used[z] - FoldSet(LAMBDA j, k : k + gc.list[j].len,
                                                 0, copied(z))],
               life, Labels)
    /\ UNCHANGED <<fixed, max_level, busy, leaked, zone_pos, state, level, left, active,
                   lists, events>>

\* MigrateColdFiles: the zone whose live data is of a level farthest above the
\* one its wear is meant for, the first among equals.  Its address is kept in
\* an int: NamedByInt gives the zone that this names, if any.
ColdZone ==
    LET sorted == ZonesByWear
        size(z) == FoldLeft(LAMBDA n, l : n + LiveBytes(z, l), 0,
                            [i \in 1..(TopLevel + 1) |-> i - 1])
        sum(z) == FoldLeft(LAMBDA n, l : n + l * LiveBytes(z, l), 0,
                           [i \in 1..(TopLevel + 1) |-> i - 1])
        diff(i) == IF size(sorted[i]) = 0 THEN 0
                   ELSE sum(sorted[i]) \div size(sorted[i])
                            - ((i - 1) * max_level) \div NrZones
        most == Max({diff(i) : i \in Zone})
    IN  IF most <= 0 THEN None
        ELSE NamedByInt[sorted[Min({i \in Zone : diff(i) = most})]]

MigrateColdFiles ==
    /\ gc.on /\ gc.cold
    /\ gc.todo = {}
    /\ gc.file = None
    /\ gc' = [gc EXCEPT !.cold = FALSE, !.todo = ExtentsIn({ColdZone})]
    /\ UNCHANGED <<fixed, max_level, zoneVars, busy, leaked, zone_pos, fileVars,
                   events>>

GCWorkerEnd ==
    /\ gc.on /\ ~gc.cold
    /\ gc.todo = {}
    /\ gc.file = None
    /\ gc' = [gc EXCEPT !.on = FALSE]
    /\ UNCHANGED <<fixed, max_level, zoneVars, busy, leaked, zone_pos, fileVars,
                   events>>

Next ==
    \/ \E f \in File :
         \/ OpenFile(f)
         \/ AllocateIOZone(f)
         \/ AppendData(f)
         \/ RetryFlush(f)
         \/ CloseWR(f)
         \/ DeleteFile(f)
         \/ \E l \in Level : MoveFileToNewLevel(f, l)
         \/ SkipFile(f)
         \/ MigrateFileExtents(f)
         \/ MigrateExtent(f)
         \/ SyncFileExtents(f)
    \/ GCWorkerStart
    \/ MigrateColdFiles
    \/ GCWorkerEnd

Spec == Init /\ [][Next]_vars

-----------------------------------------------------------------------------
(* Properties.                                                              *)

\* Types of the variables; a zone holds no more live blocks than were written,
\* and while no file is migrated exactly those of the extents in it.
TypeOK ==
    /\ param \in Params /\ lsm \in Trees
    /\ max_level \in 1..TopLevel
    /\ room \in [Zone -> 0..ZoneCap]
    /\ \A z \in Zone : used[z] \in 0..(ZoneCap - room[z])
    /\ gc.file = None => \A z \in Zone :
           used[z] = FoldSet(LAMBDA f, n : n + BlocksIn(f, z), 0, File)
    /\ life \in [Zone -> 0..5]
    /\ zlevel \in [Zone -> -1..TopLevel]
    /\ bytes \in [Zone -> [-1..TopLevel -> Nat]]
    /\ resets \in [Zone -> Nat]
    /\ busy \subseteq Zone
    /\ zone_pos \in Zone
    /\ state \in [File -> {"absent", "open", "failed", "closing", "abandoned",
                         "closed", "deleted"}]
    /\ leaked \in 0..MaxActive
    /\ level \in [File -> -1..TopLevel]
    /\ left \in [File -> Nat]
    /\ active \in [File -> Zone \union {None}]
    /\ events \in 0..MaxEvents

\* No policy and no allocator leaks or loses a zone on its way over io_zones:
\* the busy zones are exactly the active zones of the open files, and no two
\* files write to one zone.
BusyExact ==
    /\ busy = {active[f] : f \in File} \ {None}
    /\ \A f, g \in File : active[f] = active[g] /\ active[f] # None => f = g

\* The places at which the records hold file f.
RecordsOf(f) ==
    {p \in Level \X (1..(2 * Cardinality(File))) :
        p[2] \in DOMAIN FilesOf(lists, p[1]) /\ FilesOf(lists, p[1])[p[2]] = f}

\* Some level is placed by a policy that records a file before it is closed.
RecordsEarly ==
    \E t \in {param.upper, param.middle, param.lower} :
        {t.primary, t.fallback} \intersect {"Nearby", "Children", "OAZA"} # {}

\* levelwise_file_list_ is sorted like the LSM tree and lists a written file
\* at its level alone, through simulated and real trivial moves, and a deleted
\* one never.  It lists a file once, or twice where a policy recorded it while
\* it was written: is_recorded_ does not tell, and CloseWR records it again.
RecordsExact ==
    /\ \A l \in Level : \A i, j \in DOMAIN FilesOf(lists, l) :
         i < j => lsm[FilesOf(lists, l)[i]].lo <= lsm[FilesOf(lists, l)[j]].lo
    /\ \A f \in File :
         /\ \A p \in RecordsOf(f) : p[1] = level[f]
         /\ Cardinality(RecordsOf(f)) <= IF RecordsEarly THEN 2 ELSE 1
         /\ state[f] \in {"absent", "deleted"} => RecordsOf(f) = {}
         /\ state[f] = "closed" /\ lsm[f].keys => RecordsOf(f) # {}

\* Idle zones a policy may return.
IdleCandidates(min) == {z \in Zone \ busy : Candidate(z, min)}

\* Blocks that zone z holds of the files in the set G.
Share(z, G) == FoldSet(LAMBDA g, n : n + BlocksIn(g, z), 0, G)

Recorded(l) == ToSet(FilesOf(lists, l))

\* How far zone z is from file f in the list files: the distance of the
\* nearest file with data in z.
Away(files, f, z) ==
    LET at == IndexOf(files, f)
        dist(i) == Max({i - at, at - i})
    IN  Min({dist(i) : i \in {j \in DOMAIN files : files[j] # f /\
                                  BlocksIn(files[j], z) > 0}} \union {Len(files)})

\* What the documentation of policy p promises of its match m for file f.
Promise(p, f, min, m) ==
    LET idle == IdleCandidates(min)
        best(Cost(_)) == \A z \in idle : Cost(m.zone) <= Cost(z)
        most(G) == /\ (m.zone = None) <=> (\A z \in idle : Share(z, G) = 0)
                   /\ \A z \in idle : m.zone # None => Share(z, G) <= Share(m.zone, G)
        found(G) == (m.zone = None) <=> (\A z \in idle : Share(z, G) = 0)
        fits(Ok(_)) == IF m.zone = None THEN \A z \in idle : ~Ok(z) ELSE Ok(m.zone)
        near == {l \in Level : /\ l \in {level[f] - 1, level[f] + 1}
                               /\ "CAZA" \in {Tier(l).primary, Tier(l).fallback}}
    IN  CASE p \in {"Lifetime", "TTL"} ->
               /\ (m.zone = None) <=> (idle = {})
               /\ m.zone # None =>
                    best(LAMBDA z : GetLifeTimeDiff(life[z], lsm[f].life))
          [] p = "CAZA" ->
               most({g \in File \ {f} : /\ IsOverlapping(f, g)
                                        /\ \E l \in near : g \in Recorded(l)})
          [] p = "Nearby" /\ m.zone # None ->
               best(LAMBDA z : Away(FilesOf(m.lists, level[f]), f, z))
          [] p \in {"Nearby", "PlazaBase", "PlazaMiddle"} ->
               found(Recorded(level[f]) \ {f})
          [] p \in {"Children", "Grandchildren", "Compensated"} ->
               found(Recorded(SinksTo(Unmatched(f), f)) \ {f})
          [] p = "Arrival" ->
               fits(LAMBDA z : zlevel[z] = level[f] \/ {zlevel[z], level[f]} \subseteq -1..1)
          [] p = "Cluster" -> fits(LAMBDA z : policy[z] = p)
          [] p = "Tombstone" /\ IsHighTombstone(f) ->
               fits(LAMBDA z : policy[z] = p)
          [] OTHER -> m.zone = None \/ m.zone \in idle

\* Match m is an idle candidate or none, holds that zone alone and keeps the
\* promise of policy p.
Promised(p, f, min, m) ==
    /\ m.zone # None => m.zone \in IdleCandidates(min)
    /\ m.busy = busy \union ({m.zone} \ {None})
    /\ Promise(p, f, min, m)

\* Whatever a policy walks over, it returns an idle zone with live data and
\* room or none, holds that zone alone, finds one when its rule has one to
\* find, and finds the one its documentation promises: the least lifetime
\* difference (MatchLifetimeBased), the most data of overlapping files
\* (MatchCAZA), the nearest file of the level (MatchSameLevelNearbyKeysSimple),
\* the same level or the same policy (MatchArrivalTimeBased, ...).
MatchIsBest ==
    \A f \in File : NeedsZone(f) /\ lsm[f].keys /\ ~gc.on =>
        Promised(GetPolicy(level[f]), f, MinCapacity(f),
                 Match(GetPolicy(level[f]), Unmatched(f), f, MinCapacity(f)))

\* AllocateEmptyZone hands over an idle empty zone whenever there is one; the
\* wear-aware allocator never gives a lower level a less worn zone than an
\* upper level, and level 0 gets a least worn zone.
EmptyZoneBest ==
    \A l \in 0..max_level : \A z \in AllocateEmptyZone(busy, l) :
        /\ IF z = None THEN IdleEmpty(busy) = {} ELSE z \in IdleEmpty(busy)
        /\ param.allocator \in {"LeastWear", "Hotness"} /\ z # None =>
             \A k \in 0..l : \A y \in AllocateEmptyZone(busy, k) :
                 resets[y] <= resets[z]
        /\ (param.allocator = "LeastWear" \/ (param.allocator = "Hotness" /\ l = 0))
             /\ z # None => \A y \in IdleEmpty(busy) : resets[z] <= resets[y]

\* An append runs out of space only when no idle zone is empty and none has live
\* data and room: AllocateIOZone gives a poor match back only when there is an
\* empty zone to take instead.
SpaceIsFound ==
    [][\A f \in File : NeedsZone(f) /\ state'[f] \in {"failed", "abandoned"} =>
          IdleEmpty(busy) = {} /\ IdleCandidates(MinCapacity(f)) = {}]_vars

====
