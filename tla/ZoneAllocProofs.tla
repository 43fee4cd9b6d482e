-------------------------- MODULE ZoneAllocProofs --------------------------
(* Theorems about ZoneAlloc, for any number of zones, threads and faults.   *)
EXTENDS ZoneAlloc, FiniteSetTheorems, TLAPS

-----------------------------------------------------------------------------
(* Type correctness.                                                        *)

\* What is left of a zone and what is written never exceed the zone.
RoomLeft == \A z \in Zone : wp[z] + capacity[z] <= MaxCap

\* Where a thread writes to its zone or releases it, it has one.
ZoneInHand ==
    \A t \in Thread :
        pc[t] \in {"write", "migrate", "account", "release"} => zone[t] # None

TypeInv == TypeOK /\ RoomLeft /\ ZoneInHand /\ MigrationAccounted

LEMMA ReleaseType ==
    ASSUME busy \in [Zone -> BOOLEAN], NEW Z, Release(Z)
    PROVE  busy' \in [Zone -> BOOLEAN]
  BY Zenon DEF Release

LEMMA AllocationFailsType ==
    ASSUME TypeOK, NEW t \in Thread, AllocationFails(t)
    PROVE  /\ pc' = [pc EXCEPT ![t] = Failed(t)]
           /\ Failed(t) \in {"sync", "idle"}
           /\ alloc_mutex' \in Thread \union {None}
           /\ mig' = mig \/ mig' = NoMigration
           /\ left' \in [Thread -> BOOLEAN]
           /\ UNCHANGED <<pend, full, again>>
  BY DEF TypeOK, AllocationFails, Goto, Failed, UnlockAllocator, DropMigration

LEMMA CloseActiveZoneType ==
    ASSUME TypeInv, NEW t \in Thread, NEW more \in BOOLEAN, pc[t] = "write",
           CloseActiveZone(t, more)
    PROVE  TypeInv'
  <1> USE ThreadAssumption, LimitAssumption, FiniteAssumption
  <1> USE DEF TypeInv, TypeOK, RoomLeft, ZoneInHand, MigrationAccounted, Pinned,
              zones, tokens, PcSet
  <1>1. busy' \in [Zone -> BOOLEAN]
    BY ReleaseType DEF CloseActiveZone
  <1>2. CASE /\ full' = [full EXCEPT ![t] = IsFull(zone[t])]
             /\ again' = [again EXCEPT ![t] = more]
             /\ Goto(t, "put_open")
             /\ UNCHANGED <<left, faults>>
    <2>1. full' \in [Thread -> BOOLEAN]
      BY <1>2, Zenon DEF IsFull
    <2> QED BY <1>1, <1>2, <2>1 DEF CloseActiveZone, Goto
  <1>3. CASE /\ Fault
             /\ left' = [left EXCEPT ![t] = FALSE]
             /\ Goto(t, "idle")
             /\ UNCHANGED <<full, again>>
    BY <1>1, <1>3 DEF CloseActiveZone, Goto, Fault
  <1> QED BY <1>2, <1>3 DEF CloseActiveZone

LEMMA TypeInvStep ==
    ASSUME TypeInv, NEW t \in Thread, Step(t) \/ Call(t)
    PROVE  TypeInv'
  <1> USE ThreadAssumption, LimitAssumption, FiniteAssumption
  <1> USE DEF TypeInv, TypeOK, RoomLeft, ZoneInHand, MigrationAccounted, Pinned,
              zones, tokens, writing, PcSet, ScanPc
  <1>1. CASE AllocateIOZone(t)
    BY <1>1 DEF AllocateIOZone, BeginAllocation, Scan, Goto
  <1>2. CASE ApplyFinishThreshold(t)
    <2>1. busy' \in [Zone -> BOOLEAN]
      BY <1>2, ReleaseType DEF ApplyFinishThreshold, ReleaseCur
    <2> QED BY <1>2, <2>1, AllocationFailsType, SMTT(40) DEF ApplyFinishThreshold, Finish, Fault, ReleaseCur, Goto, NoMigration
  <1>3. CASE ApplyFinishThresholdPut(t)
    BY <1>3 DEF ApplyFinishThresholdPut, PutActiveIOZoneToken, NotifyOne
  <1>4. CASE ApplyFinishThresholdEnd(t)
    BY <1>4 DEF ApplyFinishThresholdEnd, ScanOver, Goto
  <1>5. CASE WaitForOpenIOZoneToken(t)
    BY <1>5 DEF WaitForOpenIOZoneToken, Scan, Goto
  <1>6. CASE GetBestOpenZoneMatch(t)
    <2>1. busy' \in [Zone -> BOOLEAN]
      BY <1>6, ReleaseType DEF GetBestOpenZoneMatch, KeepCur, ReleaseCur
    <2> QED BY <1>6, <2>1 DEF GetBestOpenZoneMatch, KeepCur, ReleaseCur
  <1>7. CASE GetBestOpenZoneMatchEnd(t)
    BY <1>7 DEF GetBestOpenZoneMatchEnd, ScanOver, Goto
  <1>8. CASE \E best_diff \in {Good, CouldBeWorse, NotGood} : Decide(t, best_diff)
    <2>1. busy' \in [Zone -> BOOLEAN]
      BY <1>8, ReleaseType DEF Decide
    <2> QED BY <1>8, <2>1 DEF Decide, Allocated, UnlockAllocator, Scan, Goto
  <1>9. CASE GetActiveIOZoneToken(t)
    BY <1>9 DEF GetActiveIOZoneToken, Scan, Goto
  <1>10. CASE FinishCheapestIOZone(t)
    <2>1. busy' \in [Zone -> BOOLEAN]
      BY <1>10, ReleaseType DEF FinishCheapestIOZone, KeepCur, ReleaseCur
    <2> QED BY <1>10, <2>1 DEF FinishCheapestIOZone, KeepCur, ReleaseCur
  <1>11. CASE FinishCheapestIOZoneEnd(t)
    <2>1. busy' \in [Zone -> BOOLEAN]
      BY <1>11, ReleaseType DEF FinishCheapestIOZoneEnd
    <2>2. CASE zone[t] = None
      BY <1>11, <2>1, <2>2 DEF FinishCheapestIOZoneEnd, ScanOver, Goto
    <2>3. CASE /\ zone[t] # None
               /\ Finish(zone[t])
               /\ zone' = [zone EXCEPT ![t] = None]
               /\ Goto(t, "cheapest_put")
               /\ UNCHANGED <<used, alloc_mutex, open_io_zones, writing, mig, faults>>
      BY <1>11, <2>1, <2>3 DEF FinishCheapestIOZoneEnd, Finish, Goto, ScanOver
    <2>4. CASE /\ zone[t] # None
               /\ Fault
               /\ zone' = [zone EXCEPT ![t] = None]
               /\ PutOpenIOZoneToken
               /\ AllocationFails(t)
               /\ UNCHANGED <<capacity, wp, used>>
      <3>1. open_io_zones' \in Int /\ faults' \in 0..MaxFaults
        BY <2>4 DEF PutOpenIOZoneToken, Fault
      <3> QED BY <1>11, <2>1, <2>4, <3>1, AllocationFailsType, SMTT(40)
              DEF FinishCheapestIOZoneEnd, NoMigration, ScanOver
    <2> QED BY <1>11, <2>2, <2>3, <2>4 DEF FinishCheapestIOZoneEnd
  <1>12. CASE FinishCheapestIOZonePut(t)
    BY <1>12 DEF FinishCheapestIOZonePut, PutActiveIOZoneToken, NotifyOne
  <1>13. CASE AllocateEmptyZone(t)
    <2>1. busy' \in [Zone -> BOOLEAN]
      BY <1>13, ReleaseType DEF AllocateEmptyZone, KeepCur, ReleaseCur
    <2> QED BY <1>13, <2>1 DEF AllocateEmptyZone, KeepCur, ReleaseCur
  <1>14. CASE AllocateEmptyZoneEnd(t)
    <2>1. CASE zone[t] # None
      BY <1>14, <2>1 DEF AllocateEmptyZoneEnd, Allocated, UnlockAllocator, Goto
    <2>2. CASE zone[t] = None
      BY <1>14, <2>2, AllocationFailsType
      DEF AllocateEmptyZoneEnd, ReturnTokens, PutOpenIOZoneToken, PutActiveIOZoneToken, NoMigration
    <2> QED BY <2>1, <2>2
  <1>15. CASE \E size \in 1..MaxCap : Append(t, size)
    BY <1>15 DEF Append, Fits
  <1>16. CASE PushExtent(t)
    BY <1>16 DEF PushExtent
  <1>17. CASE CloseFullZone(t)
    BY <1>17, CloseActiveZoneType DEF CloseFullZone
  <1>18. CASE CloseWR(t)
    BY <1>18, CloseActiveZoneType DEF CloseWR
  <1>19. CASE CloseActiveZonePutOpen(t)
    BY <1>19 DEF CloseActiveZonePutOpen, AfterPut, PutOpenIOZoneToken, NotifyOne
  <1>20. CASE CloseActiveZonePutActive(t)
    BY <1>20 DEF CloseActiveZonePutActive, AfterPut, PutActiveIOZoneToken, NotifyOne
  <1>21. CASE \E src \in Zone, len \in 1..MaxCap : TakeMigrateZone(t, src, len)
    BY <1>21 DEF TakeMigrateZone, BeginAllocation, Scan, Goto
  <1>22. CASE MigrateData(t)
    BY <1>22 DEF MigrateData, Goto, Fault
  <1>23. CASE MigrateAccount(t)
    BY <1>23 DEF MigrateAccount, Goto, NoMigration
  <1>24. CASE ReleaseMigrateZone(t)
    <2>1. CASE Release({zone[t]}) /\ full' = [full EXCEPT ![t] = IsFull(zone[t])]
                /\ Goto(t, "put_open") /\ UNCHANGED faults
      <3>1. busy' \in [Zone -> BOOLEAN]
        BY <2>1, ReleaseType
      <3>2. full' \in [Thread -> BOOLEAN]
        BY <2>1, Zenon DEF IsFull
      <3> QED BY <1>24, <2>1, <3>1, <3>2 DEF ReleaseMigrateZone, Goto
    <2>2. CASE Fault /\ Goto(t, "sync") /\ UNCHANGED <<busy, full>>
      BY <1>24, <2>2 DEF ReleaseMigrateZone, Fault, Goto
    <2> QED BY <1>24, <2>1, <2>2 DEF ReleaseMigrateZone
  <1>25. CASE SyncFileExtents(t)
    BY <1>25 DEF SyncFileExtents, Scan, Goto, Fault, NoMigration
  <1>26. CASE GCWorkerEnd(t)
    BY <1>26 DEF GCWorkerEnd, Goto
  <1>27. CASE ResetUnusedIOZones(t)
    <2>1. busy' \in [Zone -> BOOLEAN]
      BY <1>27, ReleaseType DEF ResetUnusedIOZones, ReleaseCur
    <2> QED BY <1>27, <2>1 DEF ResetUnusedIOZones, Reset, AfterReset, ResetDone, ReleaseCur, Fault, Goto
  <1>28. CASE ResetUnusedIOZonesPut(t)
    BY <1>28 DEF ResetUnusedIOZonesPut, PutActiveIOZoneToken, NotifyOne
  <1>29. CASE ResetUnusedIOZonesEnd(t)
    BY <1>29 DEF ResetUnusedIOZonesEnd, ResetDone, ScanOver, Goto
  <1>30. CASE \E z \in Zone : ScanAcquire(t, z)
    BY <1>30 DEF ScanAcquire, Acquire
  <1>31. CASE \E z \in Zone : ScanSkip(t, z)
    BY <1>31 DEF ScanSkip
  <1>32. CASE StartAppend(t)
    BY <1>32 DEF StartAppend, Goto
  <1>33. CASE NextAppend(t)
    BY <1>33 DEF NextAppend
  <1>34. CASE \E size \in 0..MaxCap : AppendFails(t, size)
    BY <1>34 DEF AppendFails, Fault
  <1>35. CASE GCWorkerStart(t)
    BY <1>35 DEF GCWorkerStart, Goto
  <1>36. CASE \E z \in Zone, len \in 1..MaxCap : ClearExtents(t, z, len)
    BY <1>36 DEF ClearExtents, Unreferenced
  <1>37. CASE StartReset(t)
    BY <1>37 DEF StartReset, Scan, Goto
  <1> QED
    BY <1>1, <1>2, <1>3, <1>4, <1>5, <1>6, <1>7, <1>8, <1>9, <1>10, <1>11, <1>12, <1>13, <1>14, <1>15, <1>16, <1>17, <1>18, <1>19, <1>20, <1>21, <1>22, <1>23, <1>24, <1>25, <1>26, <1>27, <1>28, <1>29, <1>30, <1>31, <1>32, <1>33, <1>34, <1>35, <1>36, <1>37
    DEF Step, Call, Allocator, FileWriter, Collector, Resetter, Scanner

LEMMA TypeInvInit == Init => TypeInv
  <1> SUFFICES ASSUME Init PROVE TypeInv
    OBVIOUS
  <1> USE LimitAssumption, FiniteAssumption
  <1>1. PICK w \in [Zone -> 0..MaxCap] :
          /\ wp = w
          /\ capacity = [z \in Zone |-> MaxCap - w[z]]
          /\ used \in [Zone -> 0..MaxCap]
          /\ active_io_zones = Cardinality({z \in Zone : w[z] \notin {0, MaxCap}})
    BY DEF Init
  <1>2. active_io_zones \in Nat
    <2> DEFINE A == {z \in Zone : w[z] \notin {0, MaxCap}}
    <2>1. IsFiniteSet(A)
      BY FS_Subset
    <2> QED BY <1>1, <2>1, FS_CardinalityType
  <1>3. TypeOK
    BY <1>1, <1>2 DEF Init, TypeOK, PcSet, NoMigration
  <1>4. RoomLeft
    BY <1>1 DEF RoomLeft
  <1>5. ZoneInHand
    BY DEF Init, ZoneInHand
  <1>6. MigrationAccounted
    BY <1>1 DEF Init, MigrationAccounted, Pinned, NoMigration
  <1> QED BY <1>3, <1>4, <1>5, <1>6 DEF TypeInv

LEMMA TypeInvInvariant == Spec => []TypeInv
  <1>1. ASSUME TypeInv, UNCHANGED vars
        PROVE  TypeInv'
    BY <1>1 DEF TypeInv, TypeOK, RoomLeft, ZoneInHand, MigrationAccounted, Pinned, vars
  <1>2. TypeInv /\ [Next]_vars => TypeInv'
    BY <1>1, TypeInvStep DEF Next
  <1> QED BY TypeInvInit, <1>2, PTL DEF Spec

\* Every variable keeps its type: in particular no zone is written past its
\* end and no used_capacity_ goes below zero, however deletions, migrations
\* and device errors interleave.
THEOREM TypeCorrect == Spec => []TypeOK
  BY TypeInvInvariant, PTL DEF TypeInv

\* A migration subtracts from used_capacity_ only what it has accounted for.
THEOREM MigrationsAccounted == Spec => []MigrationAccounted
  BY TypeInvInvariant, PTL DEF TypeInv

-----------------------------------------------------------------------------
(* A zone has at most one owner.  What a step can do to busy, zone and cur  *)
(* is one of six things.                                                    *)

LEMMA ExclusiveUntouched ==
    ASSUME ZoneExclusive, UNCHANGED <<busy, zone, cur>>
    PROVE  ZoneExclusive'
  BY DEF ZoneExclusive, Held

LEMMA ExclusiveAcquire ==
    ASSUME TypeOK, ZoneExclusive, NEW t \in Thread, NEW z \in Zone, Acquire(z),
           cur[t] = None, cur' = [cur EXCEPT ![t] = z], UNCHANGED zone
    PROVE  ZoneExclusive'
  <1> USE FiniteAssumption
  <1>1. \A u \in Thread : z \notin Held(u)
    BY DEF ZoneExclusive, Acquire
  <1>2. \A u \in Thread : u # t => Held(u)' = Held(u) /\ cur'[u] = cur[u]
    BY DEF Held, TypeOK
  <1>3. Held(t)' = Held(t) \union {z} /\ cur'[t] = z
    BY DEF Held, TypeOK
  <1>4. busy'[z] = TRUE /\ \A y \in Zone : busy[y] = TRUE => busy'[y] = TRUE
    BY DEF Acquire, TypeOK
  <1>5. \A u \in Thread : Held(u) \subseteq Zone
    BY DEF Held, TypeOK
  <1>6. \A u \in Thread : \A y \in Held(u)' : busy'[y]
    <2>1. \A u \in Thread : \A y \in Held(u) : busy[y] = TRUE
      BY <1>5 DEF ZoneExclusive, TypeOK
    <2> QED BY <1>2, <1>3, <1>4, <1>5, <2>1
  <1>7. \A u \in Thread : zone'[u] # None => cur'[u] # zone'[u]
    BY <1>1, <1>2, <1>3 DEF ZoneExclusive, Held
  <1>8. \A u, v \in Thread : u # v => Held(u)' \intersect Held(v)' = {}
    BY <1>1, <1>2, <1>3 DEF ZoneExclusive
  <1> QED BY <1>6, <1>7, <1>8 DEF ZoneExclusive

LEMMA ExclusiveShrink ==
    ASSUME ZoneExclusive, TypeOK, NEW t \in Thread, NEW Z, Release(Z),
           \A u \in Thread : u # t => zone'[u] = zone[u] /\ cur'[u] = cur[u],
           Held(t)' \subseteq Held(t) \ Z,
           zone'[t] # None => cur'[t] # zone'[t],
           Z \intersect Zone \subseteq Held(t)
    PROVE  ZoneExclusive'
  <1> USE FiniteAssumption
  <1>1. \A u \in Thread : u # t => Held(u)' = Held(u)
    BY DEF Held
  <1>2. \A u \in Thread : Held(u) \subseteq Zone
    BY DEF Held, TypeOK
  <1>3. \A y \in Zone : y \notin Z => busy'[y] = busy[y]
    BY DEF Release
  <1>4. \A u \in Thread : u # t => Held(u) \intersect Z = {}
    BY <1>2 DEF ZoneExclusive
  <1>5. \A u \in Thread : \A y \in Held(u)' : y \in Held(u) /\ y \notin Z
    BY <1>1, <1>4
  <1>6. \A u \in Thread : \A y \in Held(u)' : busy'[y]
    BY <1>2, <1>3, <1>5 DEF ZoneExclusive
  <1>7. \A u \in Thread : zone'[u] # None => cur'[u] # zone'[u]
    BY DEF ZoneExclusive
  <1>8. \A u, v \in Thread : u # v => Held(u)' \intersect Held(v)' = {}
    BY <1>5 DEF ZoneExclusive
  <1> QED BY <1>6, <1>7, <1>8 DEF ZoneExclusive

LEMMA ExclusiveReleaseCur ==
    ASSUME TypeOK, ZoneExclusive, NEW t \in Thread, ReleaseCur(t)
    PROVE  ZoneExclusive'
  <1>1. \A u \in Thread : u # t => zone'[u] = zone[u] /\ cur'[u] = cur[u]
    BY DEF ReleaseCur, TypeOK
  <1>2. /\ Held(t)' \subseteq Held(t) \ {cur[t]}
        /\ zone'[t] # None => cur'[t] # zone'[t]
        /\ {cur[t]} \intersect Zone \subseteq Held(t)
    BY FiniteAssumption DEF ReleaseCur, TypeOK, Held, ZoneExclusive
  <1> QED BY <1>1, <1>2, ExclusiveShrink DEF ReleaseCur

LEMMA ExclusiveKeepCur ==
    ASSUME TypeOK, ZoneExclusive, NEW t \in Thread, cur[t] # None, KeepCur(t)
    PROVE  ZoneExclusive'
  <1>1. \A u \in Thread : u # t => zone'[u] = zone[u] /\ cur'[u] = cur[u]
    BY DEF KeepCur, TypeOK
  <1>2. /\ Held(t)' \subseteq Held(t) \ {zone[t]}
        /\ zone'[t] # None => cur'[t] # zone'[t]
        /\ {zone[t]} \intersect Zone \subseteq Held(t)
    BY FiniteAssumption DEF KeepCur, TypeOK, Held, ZoneExclusive
  <1> QED BY <1>1, <1>2, ExclusiveShrink DEF KeepCur

LEMMA ExclusiveReleaseZone ==
    ASSUME TypeOK, ZoneExclusive, NEW t \in Thread, Release({zone[t]}),
           zone' = [zone EXCEPT ![t] = None], UNCHANGED cur
    PROVE  ZoneExclusive'
  <1>1. \A u \in Thread : u # t => zone'[u] = zone[u] /\ cur'[u] = cur[u]
    BY DEF TypeOK
  <1>2. /\ Held(t)' \subseteq Held(t) \ {zone[t]}
        /\ zone'[t] # None => cur'[t] # zone'[t]
        /\ {zone[t]} \intersect Zone \subseteq Held(t)
    BY FiniteAssumption DEF TypeOK, Held, ZoneExclusive
  <1> QED BY <1>1, <1>2, ExclusiveShrink

LEMMA ExclusiveLoseZone ==
    ASSUME TypeOK, ZoneExclusive, NEW t \in Thread,
           zone' = [zone EXCEPT ![t] = None], UNCHANGED <<busy, cur>>
    PROVE  ZoneExclusive'
  <1>1. \A u \in Thread : u # t => zone'[u] = zone[u]
    BY DEF TypeOK
  <1>2. zone'[t] = None
    BY DEF TypeOK
  <1> QED BY <1>1, <1>2 DEF ZoneExclusive, Held

LEMMA ExclusiveStep ==
    ASSUME TypeOK, ZoneExclusive, NEW t \in Thread, Step(t) \/ Call(t)
    PROVE  ZoneExclusive'
  <1> USE ExclusiveUntouched, ExclusiveAcquire, ExclusiveReleaseCur,
          ExclusiveKeepCur, ExclusiveReleaseZone, ExclusiveLoseZone
  <1> USE DEF zones
  <1>1. CASE AllocateIOZone(t)
    BY <1>1 DEF AllocateIOZone
  <1>2. CASE ApplyFinishThreshold(t)
    BY <1>2 DEF ApplyFinishThreshold
  <1>3. CASE ApplyFinishThresholdPut(t)
    BY <1>3 DEF ApplyFinishThresholdPut
  <1>4. CASE ApplyFinishThresholdEnd(t)
    BY <1>4 DEF ApplyFinishThresholdEnd
  <1>5. CASE WaitForOpenIOZoneToken(t)
    BY <1>5 DEF WaitForOpenIOZoneToken
  <1>6. CASE GetBestOpenZoneMatch(t)
    BY <1>6 DEF GetBestOpenZoneMatch
  <1>7. CASE GetBestOpenZoneMatchEnd(t)
    BY <1>7 DEF GetBestOpenZoneMatchEnd
  <1>8. CASE \E best_diff \in {Good, CouldBeWorse, NotGood} : Decide(t, best_diff)
    BY <1>8 DEF Decide
  <1>9. CASE GetActiveIOZoneToken(t)
    BY <1>9 DEF GetActiveIOZoneToken
  <1>10. CASE FinishCheapestIOZone(t)
    BY <1>10 DEF FinishCheapestIOZone
  <1>11. CASE FinishCheapestIOZoneEnd(t)
    BY <1>11 DEF FinishCheapestIOZoneEnd
  <1>12. CASE FinishCheapestIOZonePut(t)
    BY <1>12 DEF FinishCheapestIOZonePut
  <1>13. CASE AllocateEmptyZone(t)
    BY <1>13 DEF AllocateEmptyZone
  <1>14. CASE AllocateEmptyZoneEnd(t)
    BY <1>14 DEF AllocateEmptyZoneEnd
  <1>15. CASE \E size \in 1..MaxCap : Append(t, size)
    BY <1>15 DEF Append
  <1>16. CASE PushExtent(t)
    BY <1>16 DEF PushExtent
  <1>17. CASE CloseFullZone(t)
    BY <1>17 DEF CloseFullZone, CloseActiveZone
  <1>18. CASE CloseWR(t)
    BY <1>18 DEF CloseWR, CloseActiveZone
  <1>19. CASE CloseActiveZonePutOpen(t)
    BY <1>19 DEF CloseActiveZonePutOpen
  <1>20. CASE CloseActiveZonePutActive(t)
    BY <1>20 DEF CloseActiveZonePutActive
  <1>21. CASE \E src \in Zone, len \in 1..MaxCap : TakeMigrateZone(t, src, len)
    BY <1>21 DEF TakeMigrateZone
  <1>22. CASE MigrateData(t)
    BY <1>22 DEF MigrateData, Fault
  <1>23. CASE MigrateAccount(t)
    BY <1>23 DEF MigrateAccount
  <1>24. CASE ReleaseMigrateZone(t)
    BY <1>24 DEF ReleaseMigrateZone
  <1>25. CASE SyncFileExtents(t)
    BY <1>25 DEF SyncFileExtents
  <1>26. CASE GCWorkerEnd(t)
    BY <1>26 DEF GCWorkerEnd
  <1>27. CASE ResetUnusedIOZones(t)
    BY <1>27 DEF ResetUnusedIOZones
  <1>28. CASE ResetUnusedIOZonesPut(t)
    BY <1>28 DEF ResetUnusedIOZonesPut
  <1>29. CASE ResetUnusedIOZonesEnd(t)
    BY <1>29 DEF ResetUnusedIOZonesEnd
  <1>30. CASE \E z \in Zone : ScanAcquire(t, z)
    BY <1>30 DEF ScanAcquire
  <1>31. CASE \E z \in Zone : ScanSkip(t, z)
    BY <1>31 DEF ScanSkip
  <1>32. CASE StartAppend(t)
    BY <1>32 DEF StartAppend
  <1>33. CASE NextAppend(t)
    BY <1>33 DEF NextAppend
  <1>34. CASE \E size \in 0..MaxCap : AppendFails(t, size)
    BY <1>34 DEF AppendFails
  <1>35. CASE GCWorkerStart(t)
    BY <1>35 DEF GCWorkerStart
  <1>36. CASE \E z \in Zone, len \in 1..MaxCap : ClearExtents(t, z, len)
    BY <1>36 DEF ClearExtents
  <1>37. CASE StartReset(t)
    BY <1>37 DEF StartReset
  <1> QED
    BY <1>1, <1>2, <1>3, <1>4, <1>5, <1>6, <1>7, <1>8, <1>9, <1>10, <1>11, <1>12, <1>13, <1>14, <1>15, <1>16, <1>17, <1>18, <1>19, <1>20, <1>21, <1>22, <1>23, <1>24, <1>25, <1>26, <1>27, <1>28, <1>29, <1>30, <1>31, <1>32, <1>33, <1>34, <1>35, <1>36, <1>37
    DEF Step, Call, Allocator, FileWriter, Collector, Resetter, Scanner

LEMMA ExclusiveInvariant == Spec => [](TypeInv /\ ZoneExclusive)
  <1>1. Init => ZoneExclusive
    BY DEF Init, ZoneExclusive, Held
  <1>2. TypeInv /\ ZoneExclusive /\ [Next]_vars => ZoneExclusive'
    BY ExclusiveStep, ExclusiveUntouched DEF TypeInv, Next, vars
  <1> QED BY <1>1, <1>2, TypeInvInvariant, PTL DEF Spec

\* Zone::Acquire and Zone::Release protect every use of a zone: no two of
\* the writers, scans, resets and migrations ever hold the same zone.
THEOREM ZonesExclusive == Spec => []ZoneExclusive
  BY ExclusiveInvariant, PTL

-----------------------------------------------------------------------------
(* Who may move a write pointer: whoever judges the zone in a scan, and     *)
(* backwards only if the zone is dead, or whoever it is allocated to, and   *)
(* then only forwards.                                                      *)

MovesWritePointer(u, z) ==
    \/ /\ z = cur[u]
       /\ wp'[z] >= wp[z] \/ used[z] = 0
    \/ /\ z = zone[u]
       /\ wp'[z] > wp[z]
       /\ pc[u] = "write" =>
            /\ left[u]
            /\ wp'[z] - wp[z] = pend'[u] - pend[u] \/ faults' > faults

LEMMA WritePointerStep ==
    ASSUME TypeInv, NEW t \in Thread, Step(t) \/ Call(t), NEW y \in Zone,
           wp'[y] # wp[y]
    PROVE  MovesWritePointer(t, y)
  <1> USE LimitAssumption, FiniteAssumption
  <1> USE DEF TypeInv, TypeOK, zones, MovesWritePointer
  <1>1. CASE AllocateIOZone(t)
    BY <1>1 DEF AllocateIOZone
  <1>2. CASE ApplyFinishThreshold(t)
    BY <1>2 DEF ApplyFinishThreshold, Finish
  <1>3. CASE ApplyFinishThresholdPut(t)
    BY <1>3 DEF ApplyFinishThresholdPut
  <1>4. CASE ApplyFinishThresholdEnd(t)
    BY <1>4 DEF ApplyFinishThresholdEnd
  <1>5. CASE WaitForOpenIOZoneToken(t)
    BY <1>5 DEF WaitForOpenIOZoneToken
  <1>6. CASE GetBestOpenZoneMatch(t)
    BY <1>6 DEF GetBestOpenZoneMatch
  <1>7. CASE GetBestOpenZoneMatchEnd(t)
    BY <1>7 DEF GetBestOpenZoneMatchEnd
  <1>8. CASE \E best_diff \in {Good, CouldBeWorse, NotGood} : Decide(t, best_diff)
    BY <1>8 DEF Decide
  <1>9. CASE GetActiveIOZoneToken(t)
    BY <1>9 DEF GetActiveIOZoneToken
  <1>10. CASE FinishCheapestIOZone(t)
    BY <1>10 DEF FinishCheapestIOZone
  <1>11. CASE FinishCheapestIOZoneEnd(t)
    <2>1. pc[t] = "cheapest" /\ zone[t] # None /\ Finish(zone[t])
      BY <1>11 DEF FinishCheapestIOZoneEnd, ScanOver
    <2> QED BY <2>1 DEF Finish
  <1>12. CASE FinishCheapestIOZonePut(t)
    BY <1>12 DEF FinishCheapestIOZonePut
  <1>13. CASE AllocateEmptyZone(t)
    BY <1>13 DEF AllocateEmptyZone
  <1>14. CASE AllocateEmptyZoneEnd(t)
    BY <1>14 DEF AllocateEmptyZoneEnd
  <1>15. CASE \E size \in 1..MaxCap : Append(t, size)
    BY <1>15 DEF Append
  <1>16. CASE PushExtent(t)
    BY <1>16 DEF PushExtent
  <1>17. CASE CloseFullZone(t)
    BY <1>17 DEF CloseFullZone, CloseActiveZone
  <1>18. CASE CloseWR(t)
    BY <1>18 DEF CloseWR, CloseActiveZone
  <1>19. CASE CloseActiveZonePutOpen(t)
    BY <1>19 DEF CloseActiveZonePutOpen
  <1>20. CASE CloseActiveZonePutActive(t)
    BY <1>20 DEF CloseActiveZonePutActive
  <1>21. CASE \E src \in Zone, len \in 1..MaxCap : TakeMigrateZone(t, src, len)
    BY <1>21 DEF TakeMigrateZone
  <1>22. CASE MigrateData(t)
    BY <1>22 DEF MigrateData, Fault
  <1>23. CASE MigrateAccount(t)
    BY <1>23 DEF MigrateAccount
  <1>24. CASE ReleaseMigrateZone(t)
    BY <1>24 DEF ReleaseMigrateZone
  <1>25. CASE SyncFileExtents(t)
    BY <1>25 DEF SyncFileExtents
  <1>26. CASE GCWorkerEnd(t)
    BY <1>26 DEF GCWorkerEnd
  <1>27. CASE ResetUnusedIOZones(t)
    BY <1>27 DEF ResetUnusedIOZones, Reset, Dead, IsUsed, Fault
  <1>28. CASE ResetUnusedIOZonesPut(t)
    BY <1>28 DEF ResetUnusedIOZonesPut
  <1>29. CASE ResetUnusedIOZonesEnd(t)
    BY <1>29 DEF ResetUnusedIOZonesEnd
  <1>30. CASE \E z \in Zone : ScanAcquire(t, z)
    BY <1>30 DEF ScanAcquire
  <1>31. CASE \E z \in Zone : ScanSkip(t, z)
    BY <1>31 DEF ScanSkip
  <1>32. CASE StartAppend(t)
    BY <1>32 DEF StartAppend
  <1>33. CASE NextAppend(t)
    BY <1>33 DEF NextAppend
  <1>34. CASE \E size \in 0..MaxCap : AppendFails(t, size)
    BY <1>34 DEF AppendFails, Fault
  <1>35. CASE GCWorkerStart(t)
    BY <1>35 DEF GCWorkerStart
  <1>36. CASE \E z \in Zone, len \in 1..MaxCap : ClearExtents(t, z, len)
    BY <1>36 DEF ClearExtents
  <1>37. CASE StartReset(t)
    BY <1>37 DEF StartReset
  <1> QED
    BY <1>1, <1>2, <1>3, <1>4, <1>5, <1>6, <1>7, <1>8, <1>9, <1>10, <1>11, <1>12, <1>13, <1>14, <1>15, <1>16, <1>17, <1>18, <1>19, <1>20, <1>21, <1>22, <1>23, <1>24, <1>25, <1>26, <1>27, <1>28, <1>29, <1>30, <1>31, <1>32, <1>33, <1>34, <1>35, <1>36, <1>37
    DEF Step, Call, Allocator, FileWriter, Collector, Resetter, Scanner

\* ResetUnusedIOZones never resets a zone with live data, nor one that a
\* writer has written to and not yet accounted for.
THEOREM LiveDataNeverReset == Spec => NoLiveDataReset
  <1>1. ASSUME TypeInv, ZoneExclusive, NEW u \in Thread, Step(u) \/ Call(u),
               NEW z \in Zone, wp'[z] < wp[z]
        PROVE  ResetSpares(z)
    <2>1. MovesWritePointer(u, z)
      BY <1>1, WritePointerStep DEF TypeInv, TypeOK
    <2>2. z = cur[u] /\ used[z] = 0
      <3>1. wp'[z] \in Int /\ wp[z] \in Int
        BY <1>1, TypeInvStep, LimitAssumption DEF TypeInv, TypeOK
      <3> QED BY <1>1, <2>1, <3>1 DEF MovesWritePointer
    <2>3. \A t \in Thread : zone[t] # z
      BY <1>1, <2>2, FiniteAssumption DEF ZoneExclusive, Held
    <2> QED BY <2>2, <2>3 DEF ResetSpares
  <1>2. TypeInv /\ ZoneExclusive /\ [Next]_vars
          => [\A z \in Zone : wp'[z] < wp[z] => ResetSpares(z)]_vars
    BY <1>1 DEF Next
  <1> QED BY <1>2, ExclusiveInvariant, PTL DEF Spec, NoLiveDataReset

\* While a file is being written, only its own appends move the write
\* pointer of its zone: ApplyFinishThreshold, FinishCheapestIOZone,
\* ResetUnusedIOZones and the GC keep away.
THEOREM WritePointersOwned == Spec => WritePointerOwned
  <1> DEFINE A == \A t \in Writer : pc[t] = "write" /\ pc'[t] = "write" =>
                    \/ wp'[zone[t]] = wp[zone[t]]
                    \/ left[t] /\ wp'[zone[t]] - wp[zone[t]] = pend'[t] - pend[t]
                    \/ left[t] /\ wp'[zone[t]] > wp[zone[t]] /\ faults' > faults
  <1>1. ASSUME TypeInv, ZoneExclusive, NEW u \in Thread, Step(u) \/ Call(u),
               NEW t \in Writer, pc[t] = "write",
               wp'[zone[t]] # wp[zone[t]]
        PROVE  \/ left[t] /\ wp'[zone[t]] - wp[zone[t]] = pend'[t] - pend[t]
               \/ left[t] /\ wp'[zone[t]] > wp[zone[t]] /\ faults' > faults
    <2>1. t \in Thread /\ zone[t] \in Zone
      BY <1>1 DEF TypeInv, TypeOK, ZoneInHand, Thread
    <2>2. MovesWritePointer(u, zone[t])
      BY <1>1, <2>1, WritePointerStep
    <2>3. zone[t] # cur[u]
      <3>1. zone[t] \in Held(t)
        BY <2>1, FiniteAssumption DEF Held
      <3>2. zone[t] = cur[u] => zone[t] \in Held(u)
        BY <2>1, FiniteAssumption DEF Held
      <3> QED BY <1>1, <2>1, <3>1, <3>2, FiniteAssumption DEF ZoneExclusive
    <2>4. zone[t] = zone[u] => t = u
      BY <1>1, <2>1, FiniteAssumption DEF ZoneExclusive, Held
    <2> QED BY <1>1, <2>1, <2>2, <2>3, <2>4 DEF MovesWritePointer
  <1>2. TypeInv /\ ZoneExclusive /\ [Next]_vars => [A]_vars
    BY <1>1 DEF Next
  <1> QED BY <1>2, ExclusiveInvariant, PTL DEF Spec, WritePointerOwned

-----------------------------------------------------------------------------
(* The open zone limit of ZoneAlloc, and the token it keeps for WAL files,  *)
(* hold for any number of zones, threads and faults; without faults every   *)
(* open token comes back.                                                   *)

-----------------------------------------------------------------------------
(* Counting.                                                                *)

LEMMA ThreadFinite == IsFiniteSet(Thread)
  BY FiniteAssumption, FS_Union DEF Thread

LEMMA CardSubset ==
    ASSUME NEW T, IsFiniteSet(T), NEW S, S \subseteq T
    PROVE  /\ IsFiniteSet(S)
           /\ Cardinality(S) \in Nat
           /\ Cardinality(T) \in Nat
           /\ Cardinality(S) <= Cardinality(T)
  BY FS_Subset, FS_CardinalityType

LEMMA CardAdd ==
    ASSUME NEW T, IsFiniteSet(T), NEW x, NEW S, S \subseteq T \union {x}
    PROVE  Cardinality(S) <= Cardinality(T) + 1
  <1>1. /\ IsFiniteSet(T \union {x})
        /\ Cardinality(T \union {x}) <= Cardinality(T) + 1
    <2>1. Cardinality(T) \in Nat
      BY FS_CardinalityType
    <2>2. Cardinality(T \union {x}) = IF x \in T THEN Cardinality(T)
                                                 ELSE Cardinality(T) + 1
      BY FS_AddElement
    <2> QED BY <2>1, <2>2, FS_AddElement
  <1> QED BY <1>1, CardSubset, FS_CardinalityType

LEMMA CardRemove ==
    ASSUME NEW T, IsFiniteSet(T), NEW x \in T, NEW S, S \subseteq T \ {x}
    PROVE  Cardinality(S) <= Cardinality(T) - 1
  <1>1. /\ IsFiniteSet(T \ {x})
        /\ Cardinality(T \ {x}) = Cardinality(T) - 1
    BY FS_RemoveElement
  <1> QED BY <1>1, CardSubset

-----------------------------------------------------------------------------
(* Open tokens.                                                             *)

\* A device error is counted for ever.
LEMMA FaultsCount ==
    ASSUME NEW t \in Thread, Step(t) \/ Call(t)
    PROVE  faults' = faults \/ faults' = faults + 1
  BY DEF Step, Call, Allocator, FileWriter, Collector, Resetter, Scanner, Fault, AllocationFails,
      AllocateIOZone, ApplyFinishThreshold, ApplyFinishThresholdPut,
      ApplyFinishThresholdEnd, WaitForOpenIOZoneToken, GetBestOpenZoneMatch,
      GetBestOpenZoneMatchEnd, Decide, GetActiveIOZoneToken,
      FinishCheapestIOZone, FinishCheapestIOZoneEnd, FinishCheapestIOZonePut,
      AllocateEmptyZone, AllocateEmptyZoneEnd, Append, PushExtent,
      CloseFullZone, CloseWR, CloseActiveZonePutOpen,
      CloseActiveZonePutActive, TakeMigrateZone, MigrateData, MigrateAccount,
      ReleaseMigrateZone, SyncFileExtents, GCWorkerEnd, ResetUnusedIOZones,
      ResetUnusedIOZonesPut, ResetUnusedIOZonesEnd, ScanAcquire, ScanSkip,
      StartAppend, NextAppend, AppendFails, GCWorkerStart, ClearExtents,
      StartReset, CloseActiveZone, Reset

\* A step leaves the open tokens alone, takes one or returns one.  A device
\* error may lose a token, but none is kept without being counted.
LEMMA OpenTokenMoves ==
    ASSUME TypeOK, NEW t \in Thread, Step(t) \/ Call(t)
    PROVE  \/ /\ OpenHolders' \subseteq OpenHolders
              /\ faults' = 0 => OpenHolders' = OpenHolders
              /\ open_io_zones' = open_io_zones
           \/ /\ t \notin OpenHolders
              /\ OpenHolders' = OpenHolders \union {t}
              /\ open_io_zones' = open_io_zones + 1
              /\ open_io_zones < AllocatorOpenLimit(t)
           \/ /\ t \in OpenHolders
              /\ OpenHolders' = OpenHolders \ {t}
              /\ open_io_zones' = open_io_zones - 1
  <1> USE DEF TypeOK, OpenHolders, tokens
  <1>1. CASE AllocateIOZone(t)
    BY <1>1 DEF AllocateIOZone, BeginAllocation, Scan, Goto
  <1>2. CASE ApplyFinishThreshold(t)
    BY <1>2 DEF ApplyFinishThreshold, AllocationFails, Fault, Failed, Goto
  <1>3. CASE ApplyFinishThresholdPut(t)
    BY <1>3 DEF ApplyFinishThresholdPut, NotifyOne
  <1>4. CASE ApplyFinishThresholdEnd(t)
    BY <1>4 DEF ApplyFinishThresholdEnd, ScanOver, Goto
  <1>5. CASE WaitForOpenIOZoneToken(t)
    BY <1>5 DEF WaitForOpenIOZoneToken, Scan, Goto
  <1>6. CASE GetBestOpenZoneMatch(t)
    BY <1>6 DEF GetBestOpenZoneMatch
  <1>7. CASE GetBestOpenZoneMatchEnd(t)
    BY <1>7 DEF GetBestOpenZoneMatchEnd, ScanOver, Goto
  <1>8. CASE \E best_diff \in {Good, CouldBeWorse, NotGood} : Decide(t, best_diff)
    BY <1>8 DEF Decide, Allocated, Scan, Goto
  <1>9. CASE GetActiveIOZoneToken(t)
    BY <1>9 DEF GetActiveIOZoneToken, Scan, Goto
  <1>10. CASE FinishCheapestIOZone(t)
    BY <1>10 DEF FinishCheapestIOZone
  <1>11. CASE FinishCheapestIOZoneEnd(t)
    BY <1>11 DEF FinishCheapestIOZoneEnd, ScanOver, Fault, AllocationFails, Failed, PutOpenIOZoneToken, Goto
  <1>12. CASE FinishCheapestIOZonePut(t)
    BY <1>12 DEF FinishCheapestIOZonePut, NotifyOne
  <1>13. CASE AllocateEmptyZone(t)
    BY <1>13 DEF AllocateEmptyZone
  <1>14. CASE AllocateEmptyZoneEnd(t)
    BY <1>14 DEF AllocateEmptyZoneEnd, Allocated, AllocationFails, Failed, ReturnTokens, PutOpenIOZoneToken, Goto
  <1>15. CASE \E size \in 1..MaxCap : Append(t, size)
    BY <1>15 DEF Append
  <1>16. CASE PushExtent(t)
    BY <1>16 DEF PushExtent
  <1>17. CASE CloseFullZone(t)
    BY <1>17 DEF CloseFullZone, CloseActiveZone, Fault, Goto
  <1>18. CASE CloseWR(t)
    BY <1>18 DEF CloseWR, CloseActiveZone, Fault, Goto
  <1>19. CASE CloseActiveZonePutOpen(t)
    BY <1>19 DEF CloseActiveZonePutOpen, AfterPut, PutOpenIOZoneToken, NotifyOne
  <1>20. CASE CloseActiveZonePutActive(t)
    BY <1>20 DEF CloseActiveZonePutActive, AfterPut, NotifyOne
  <1>21. CASE \E src \in Zone, len \in 1..MaxCap : TakeMigrateZone(t, src, len)
    BY <1>21 DEF TakeMigrateZone, BeginAllocation, Scan, Goto
  <1>22. CASE MigrateData(t)
    BY <1>22 DEF MigrateData, Goto, Fault
  <1>23. CASE MigrateAccount(t)
    BY <1>23 DEF MigrateAccount, Goto
  <1>24. CASE ReleaseMigrateZone(t)
    BY <1>24 DEF ReleaseMigrateZone, Goto, Fault
  <1>25. CASE SyncFileExtents(t)
    BY <1>25 DEF SyncFileExtents, Scan, Goto
  <1>26. CASE GCWorkerEnd(t)
    BY <1>26 DEF GCWorkerEnd, Goto
  <1>27. CASE ResetUnusedIOZones(t)
    BY <1>27 DEF ResetUnusedIOZones, AfterReset, Fault, ResetDone, Goto
  <1>28. CASE ResetUnusedIOZonesPut(t)
    BY <1>28 DEF ResetUnusedIOZonesPut, NotifyOne
  <1>29. CASE ResetUnusedIOZonesEnd(t)
    BY <1>29 DEF ResetUnusedIOZonesEnd, ResetDone, ScanOver, Goto
  <1>30. CASE \E z \in Zone : ScanAcquire(t, z)
    BY <1>30 DEF ScanAcquire
  <1>31. CASE \E z \in Zone : ScanSkip(t, z)
    BY <1>31 DEF ScanSkip
  <1>32. CASE StartAppend(t)
    BY <1>32 DEF StartAppend, Goto
  <1>33. CASE NextAppend(t)
    BY <1>33 DEF NextAppend
  <1>34. CASE \E size \in 0..MaxCap : AppendFails(t, size)
    BY <1>34 DEF AppendFails
  <1>35. CASE GCWorkerStart(t)
    BY <1>35 DEF GCWorkerStart, Goto
  <1>36. CASE \E z \in Zone, len \in 1..MaxCap : ClearExtents(t, z, len)
    BY <1>36 DEF ClearExtents
  <1>37. CASE StartReset(t)
    BY <1>37 DEF StartReset, Scan, Goto
  <1> QED
    BY <1>1, <1>2, <1>3, <1>4, <1>5, <1>6, <1>7, <1>8, <1>9, <1>10, <1>11, <1>12, <1>13, <1>14, <1>15, <1>16, <1>17, <1>18, <1>19, <1>20, <1>21, <1>22, <1>23, <1>24, <1>25, <1>26, <1>27, <1>28, <1>29, <1>30, <1>31, <1>32, <1>33, <1>34, <1>35, <1>36, <1>37
    DEF Step, Call, Allocator, FileWriter, Collector, Resetter, Scanner

OpenInv == OpenZonesBounded /\ WalTokenReserved

LEMMA OpenStep ==
    ASSUME TypeOK, OpenInv, NEW t \in Thread, Step(t) \/ Call(t)
    PROVE  OpenInv'
  <1> USE LimitAssumption DEF OpenInv, OpenZonesBounded, WalTokenReserved
  <1> USE DEF TypeOK
  <1>1. IsFiniteSet(OpenHolders) /\ IsFiniteSet(OpenHolders \ WAL)
    BY ThreadFinite, CardSubset DEF OpenHolders
  <1>2. IsFiniteSet(OpenHolders') /\ IsFiniteSet(OpenHolders' \ WAL)
    BY ThreadFinite, CardSubset DEF OpenHolders
  <1>3. /\ Cardinality(OpenHolders) \in Nat
        /\ Cardinality(OpenHolders') \in Nat
        /\ Cardinality(OpenHolders' \ WAL) \in Nat
        /\ Cardinality(OpenHolders' \ WAL) <= Cardinality(OpenHolders')
    BY <1>1, <1>2, CardSubset, FS_CardinalityType
  <1>4. OpenHolders' \ WAL \subseteq OpenHolders \ WAL
          => Cardinality(OpenHolders' \ WAL) < MaxOpen
    BY <1>1, <1>2, CardSubset
  <1>5. CASE /\ OpenHolders' \subseteq OpenHolders
             /\ faults' = 0 => OpenHolders' = OpenHolders
             /\ open_io_zones' = open_io_zones
    BY <1>1, <1>3, <1>4, <1>5, CardSubset
  <1>6. CASE /\ t \notin OpenHolders
             /\ OpenHolders' = OpenHolders \union {t}
             /\ open_io_zones' = open_io_zones + 1
             /\ open_io_zones < AllocatorOpenLimit(t)
    <2>1. Cardinality(OpenHolders') <= open_io_zones'
      <3>1. Cardinality(OpenHolders') <= Cardinality(OpenHolders) + 1
        BY <1>1, <1>6, CardAdd, Zenon
      <3> QED BY <1>3, <1>6, <3>1
    <2>2. CASE t \in WAL
      <3>1. OpenHolders' \ WAL \subseteq OpenHolders \ WAL
        BY <1>6, <2>2
      <3> QED BY <1>3, <1>4, <1>6, <2>1, <2>2, <3>1 DEF AllocatorOpenLimit
    <2>3. CASE t \notin WAL
      BY <1>3, <1>6, <2>1, <2>3 DEF AllocatorOpenLimit
    <2> QED BY <2>2, <2>3
  <1>7. CASE /\ t \in OpenHolders
             /\ OpenHolders' = OpenHolders \ {t}
             /\ open_io_zones' = open_io_zones - 1
    BY <1>1, <1>3, <1>4, <1>7, CardRemove
  <1> QED BY <1>5, <1>6, <1>7, OpenTokenMoves

LEMMA OpenInvariant == Spec => []OpenInv
  <1>1. Init => OpenInv
    <2>1. Init => OpenHolders = {} /\ OpenHolders \ WAL = {}
      BY DEF Init, OpenHolders
    <2>2. Cardinality({}) = 0
      BY FS_EmptySet
    <2>3. Init => open_io_zones = 0
      BY DEF Init
    <2> QED BY <2>1, <2>2, <2>3, LimitAssumption
            DEF OpenInv, OpenZonesBounded, WalTokenReserved
  <1>2. ASSUME OpenInv, UNCHANGED vars
        PROVE  OpenInv'
    BY <1>2 DEF OpenInv, OpenZonesBounded, WalTokenReserved, OpenHolders, vars
  <1>3. TypeOK /\ OpenInv /\ [Next]_vars => OpenInv'
    BY <1>2, OpenStep DEF Next
  <1> QED BY <1>1, <1>3, TypeCorrect, PTL DEF Spec

\* WaitForOpenIOZoneToken and PutOpenIOZoneToken keep every thread that may
\* write within max_nr_open_io_zones_, lost tokens included.
THEOREM OpenLimitHolds == Spec => []OpenZonesBounded
  BY OpenInvariant, PTL DEF OpenInv

\* However many writers there are, those that are not WAL writers never hold
\* all open tokens.
THEOREM WalTokenKept == Spec => []WalTokenReserved
  BY OpenInvariant, PTL DEF OpenInv
-----------------------------------------------------------------------------
(* Without device errors no open token is lost.                             *)

OpenExact == faults = 0 => open_io_zones = Cardinality(OpenHolders)

LEMMA OpenExactStep ==
    ASSUME TypeOK, OpenExact, NEW t \in Thread, Step(t) \/ Call(t)
    PROVE  OpenExact'
  <1> SUFFICES ASSUME faults' = 0
               PROVE  open_io_zones' = Cardinality(OpenHolders')
    BY DEF OpenExact
  <1>1. open_io_zones = Cardinality(OpenHolders)
    BY FaultsCount DEF OpenExact, TypeOK
  <1>2. IsFiniteSet(OpenHolders)
    BY ThreadFinite, CardSubset DEF OpenHolders
  <1>3. Cardinality(OpenHolders) \in Nat
    BY <1>2, FS_CardinalityType
  <1>4. CASE OpenHolders' = OpenHolders /\ open_io_zones' = open_io_zones
    BY <1>1, <1>4
  <1>5. CASE /\ t \notin OpenHolders
             /\ OpenHolders' = OpenHolders \union {t}
             /\ open_io_zones' = open_io_zones + 1
    <2>1. Cardinality(OpenHolders') = Cardinality(OpenHolders) + 1
      BY <1>2, <1>5, FS_AddElement
    <2> QED BY <1>1, <1>5, <2>1
  <1>6. CASE /\ t \in OpenHolders
             /\ OpenHolders' = OpenHolders \ {t}
             /\ open_io_zones' = open_io_zones - 1
    <2>1. Cardinality(OpenHolders') = Cardinality(OpenHolders) - 1
      BY <1>2, <1>6, FS_RemoveElement
    <2> QED BY <1>1, <1>6, <2>1
  <1> QED BY <1>4, <1>5, <1>6, OpenTokenMoves

\* As long as the device reports no error every open token that an allocation
\* took is returned, whoever writes, migrates, closes or gives up: when no
\* thread is at work open_io_zones_ is zero.
THEOREM OpenTokensComeBack == Spec => []OpenTokensReturned
  <1>1. Init => OpenExact
    <2>1. Init => OpenHolders = {} /\ open_io_zones = 0
      BY DEF Init, OpenHolders
    <2> QED BY <2>1, FS_EmptySet DEF OpenExact
  <1>2. ASSUME OpenExact, UNCHANGED vars
        PROVE  OpenExact'
    BY <1>2 DEF OpenExact, OpenHolders, vars
  <1>3. TypeOK /\ OpenExact /\ [Next]_vars => OpenExact'
    BY <1>2, OpenExactStep DEF Next
  <1>4. OpenExact => OpenTokensReturned
    <2>1. (\A t \in Thread : pc[t] = "idle") => OpenHolders = {}
      BY DEF OpenHolders
    <2> QED BY <2>1, FS_EmptySet DEF OpenExact, OpenTokensReturned
  <1> QED BY <1>1, <1>3, <1>4, TypeCorrect, PTL DEF Spec

-----------------------------------------------------------------------------
(* The active zone limit of ZoneAlloc holds for any number of zones,        *)
(* threads and faults; tokens come back; live data is written data.         *)
(*                                                                          *)
(* A zone is charged for when it is active or in the hands of a thread that *)
(* writes it; a thread that has taken a token for a zone it has not found   *)
(* yet, or that has finished, filled or reset a zone and not returned the   *)
(* token, owes one.  The counter covers both, and without device errors it  *)
(* counts nothing else.                                                     *)

\* A zone that GetBestOpenZoneMatch may hand out without an active token: it
\* has room, and is written or at least accounted for.
Taken(z) == ~IsFull(z) /\ (~IsEmpty(z) \/ IsUsed(z))

ClaimPc == WritePc \union {"match", "decide"}

\* The zones a token has been taken for at some time and not been returned.
Claimed ==
    {z \in Zone : Taken(z) \/ \E t \in Thread : zone[t] = z /\ pc[t] \in ClaimPc}

TokensCover ==
    /\ Cardinality(Claimed) + Cardinality(Owing) <= active_io_zones
    /\ active_io_zones <= MaxActive

\* Where a thread is inside AllocateIOZoneNoLock.
AllocPc == {"threshold", "threshold_put", "wait", "sleep", "match", "decide",
            "token", "cheapest", "cheapest_put", "empty"}

\* alloc_mutex_ belongs to the thread that allocates or collects.
Serialized ==
    \A t \in Thread :
        (t \in Gc /\ pc[t] # "idle") \/ pc[t] \in AllocPc => alloc_mutex = t

\* Between two uses a thread has no zone; a match has room, a finish victim is
\* active, a new zone is empty.
KeepsActive(t) ==
    /\ pc[t] \notin WritePc \union {"match", "decide", "cheapest", "empty"}
         => zone[t] = None
    /\ pc[t] \in {"match", "decide"} /\ zone[t] # None => ~IsFull(zone[t])
    /\ pc[t] = "cheapest" /\ zone[t] # None => Active(zone[t])
    /\ pc[t] = "empty" /\ zone[t] # None => IsEmpty(zone[t])

KeptActive == \A t \in Thread : KeepsActive(t)

\* A thread accounts for blocks only after it has written them.
WritesFirst(t) ==
    /\ pend[t] > 0 => pc[t] = "write" /\ wp[zone[t]] > 0
    /\ pc[t] \in {"migrate", "account"} => t \in Gc

\* An unwritten zone has all of its room, or none if it went offline.
UsedWritten ==
    /\ \A z \in Zone : wp[z] = 0 => capacity[z] \in {0, MaxCap}
    /\ mig.len <= MaxCap
    /\ \A t \in Thread : WritesFirst(t)

LEMMA SerializedStep ==
    ASSUME TypeOK, Serialized, NEW t \in Thread, Step(t) \/ Call(t)
    PROVE  Serialized'
  <1> USE ThreadAssumption
  <1> USE DEF TypeOK, Serialized, AllocPc, Thread
  <1>1. CASE AllocateIOZone(t)
    BY <1>1 DEF AllocateIOZone, BeginAllocation, Scan, Goto
  <1>2. CASE ApplyFinishThreshold(t)
    BY <1>2 DEF ApplyFinishThreshold, AllocationFails, Failed, UnlockAllocator, Goto
  <1>3. CASE ApplyFinishThresholdPut(t)
    BY <1>3 DEF ApplyFinishThresholdPut, NotifyOne
  <1>4. CASE ApplyFinishThresholdEnd(t)
    BY <1>4 DEF ApplyFinishThresholdEnd, ScanOver, Goto
  <1>5. CASE WaitForOpenIOZoneToken(t)
    BY <1>5 DEF WaitForOpenIOZoneToken, Scan, Goto
  <1>6. CASE GetBestOpenZoneMatch(t)
    BY <1>6 DEF GetBestOpenZoneMatch
  <1>7. CASE GetBestOpenZoneMatchEnd(t)
    BY <1>7 DEF GetBestOpenZoneMatchEnd, ScanOver, Goto
  <1>8. CASE \E best_diff \in {Good, CouldBeWorse, NotGood} : Decide(t, best_diff)
    BY <1>8 DEF Decide, Allocated, UnlockAllocator, Scan, Goto
  <1>9. CASE GetActiveIOZoneToken(t)
    BY <1>9 DEF GetActiveIOZoneToken, Scan, Goto
  <1>10. CASE FinishCheapestIOZone(t)
    BY <1>10 DEF FinishCheapestIOZone
  <1>11. CASE FinishCheapestIOZoneEnd(t)
    BY <1>11 DEF FinishCheapestIOZoneEnd, ScanOver, AllocationFails, Failed, UnlockAllocator, Goto
  <1>12. CASE FinishCheapestIOZonePut(t)
    BY <1>12 DEF FinishCheapestIOZonePut, NotifyOne
  <1>13. CASE AllocateEmptyZone(t)
    BY <1>13 DEF AllocateEmptyZone
  <1>14. CASE AllocateEmptyZoneEnd(t)
    BY <1>14 DEF AllocateEmptyZoneEnd, Allocated, AllocationFails, Failed, UnlockAllocator, Goto
  <1>15. CASE \E size \in 1..MaxCap : Append(t, size)
    BY <1>15 DEF Append
  <1>16. CASE PushExtent(t)
    BY <1>16 DEF PushExtent
  <1>17. CASE CloseFullZone(t)
    BY <1>17 DEF CloseFullZone, CloseActiveZone, Goto
  <1>18. CASE CloseWR(t)
    BY <1>18 DEF CloseWR, CloseActiveZone, Goto
  <1>19. CASE CloseActiveZonePutOpen(t)
    BY <1>19 DEF CloseActiveZonePutOpen, AfterPut, NotifyOne
  <1>20. CASE CloseActiveZonePutActive(t)
    BY <1>20 DEF CloseActiveZonePutActive, AfterPut, NotifyOne
  <1>21. CASE \E src \in Zone, len \in 1..MaxCap : TakeMigrateZone(t, src, len)
    BY <1>21 DEF TakeMigrateZone, BeginAllocation, Scan, Goto
  <1>22. CASE MigrateData(t)
    BY <1>22 DEF MigrateData, Goto, Fault
  <1>23. CASE MigrateAccount(t)
    BY <1>23 DEF MigrateAccount, Goto
  <1>24. CASE ReleaseMigrateZone(t)
    BY <1>24 DEF ReleaseMigrateZone, Goto
  <1>25. CASE SyncFileExtents(t)
    BY <1>25 DEF SyncFileExtents, Scan, Goto
  <1>26. CASE GCWorkerEnd(t)
    BY <1>26 DEF GCWorkerEnd, Goto
  <1>27. CASE ResetUnusedIOZones(t)
    BY <1>27 DEF ResetUnusedIOZones, AfterReset, ResetDone, Goto
  <1>28. CASE ResetUnusedIOZonesPut(t)
    BY <1>28 DEF ResetUnusedIOZonesPut, NotifyOne
  <1>29. CASE ResetUnusedIOZonesEnd(t)
    BY <1>29 DEF ResetUnusedIOZonesEnd, ResetDone, ScanOver, Goto
  <1>30. CASE \E z \in Zone : ScanAcquire(t, z)
    BY <1>30 DEF ScanAcquire
  <1>31. CASE \E z \in Zone : ScanSkip(t, z)
    BY <1>31 DEF ScanSkip
  <1>32. CASE StartAppend(t)
    BY <1>32 DEF StartAppend, Goto
  <1>33. CASE NextAppend(t)
    BY <1>33 DEF NextAppend
  <1>34. CASE \E size \in 0..MaxCap : AppendFails(t, size)
    BY <1>34 DEF AppendFails
  <1>35. CASE GCWorkerStart(t)
    BY <1>35 DEF GCWorkerStart, Goto
  <1>36. CASE \E z \in Zone, len \in 1..MaxCap : ClearExtents(t, z, len)
    BY <1>36 DEF ClearExtents
  <1>37. CASE StartReset(t)
    BY <1>37 DEF StartReset, Scan, Goto
  <1> QED
    BY <1>1, <1>2, <1>3, <1>4, <1>5, <1>6, <1>7, <1>8, <1>9, <1>10, <1>11, <1>12, <1>13, <1>14, <1>15, <1>16, <1>17, <1>18, <1>19, <1>20, <1>21, <1>22, <1>23, <1>24, <1>25, <1>26, <1>27, <1>28, <1>29, <1>30, <1>31, <1>32, <1>33, <1>34, <1>35, <1>36, <1>37
    DEF Step, Call, Allocator, FileWriter, Collector, Resetter, Scanner

\* A step of t leaves the other threads alone, but for a sleeper that is woken,
\* and the zones that t does not hold.
LocalTo(t) ==
    /\ \A u \in Thread : u # t =>
         /\ zone'[u] = zone[u]
         /\ pend'[u] = pend[u]
         /\ full'[u] = full[u]
         /\ left'[u] = left[u]
         /\ again'[u] = again[u]
         /\ pc'[u] = pc[u] \/ (pc[u] = "sleep" /\ pc'[u] = "wait")
    /\ \A y \in Zone : y \notin {cur[t], zone[t]} =>
         wp'[y] = wp[y] /\ capacity'[y] = capacity[y]

LEMMA StepLocal ==
    ASSUME TypeOK, NEW t \in Thread, Step(t) \/ Call(t)
    PROVE  LocalTo(t)
  <1> USE DEF TypeOK, LocalTo, zones, writing
  <1>1. CASE AllocateIOZone(t)
    BY <1>1 DEF AllocateIOZone, BeginAllocation, Scan, Goto
  <1>2. CASE ApplyFinishThreshold(t)
    BY <1>2 DEF ApplyFinishThreshold, Finish, AllocationFails, Failed, ReleaseCur, Goto
  <1>3. CASE ApplyFinishThresholdPut(t)
    BY <1>3 DEF ApplyFinishThresholdPut, NotifyOne
  <1>4. CASE ApplyFinishThresholdEnd(t)
    BY <1>4 DEF ApplyFinishThresholdEnd, ScanOver, Goto
  <1>5. CASE WaitForOpenIOZoneToken(t)
    BY <1>5 DEF WaitForOpenIOZoneToken, Scan, Goto
  <1>6. CASE GetBestOpenZoneMatch(t)
    BY <1>6 DEF GetBestOpenZoneMatch, KeepCur, ReleaseCur
  <1>7. CASE GetBestOpenZoneMatchEnd(t)
    BY <1>7 DEF GetBestOpenZoneMatchEnd, ScanOver, Goto
  <1>8. CASE \E best_diff \in {Good, CouldBeWorse, NotGood} : Decide(t, best_diff)
    BY <1>8 DEF Decide, Allocated, Scan, Goto
  <1>9. CASE GetActiveIOZoneToken(t)
    BY <1>9 DEF GetActiveIOZoneToken, Scan, Goto
  <1>10. CASE FinishCheapestIOZone(t)
    BY <1>10 DEF FinishCheapestIOZone, KeepCur, ReleaseCur
  <1>11. CASE FinishCheapestIOZoneEnd(t)
    BY <1>11 DEF FinishCheapestIOZoneEnd, ScanOver, Finish, AllocationFails, Failed, Goto
  <1>12. CASE FinishCheapestIOZonePut(t)
    BY <1>12 DEF FinishCheapestIOZonePut, NotifyOne
  <1>13. CASE AllocateEmptyZone(t)
    BY <1>13 DEF AllocateEmptyZone, KeepCur, ReleaseCur
  <1>14. CASE AllocateEmptyZoneEnd(t)
    BY <1>14 DEF AllocateEmptyZoneEnd, Allocated, AllocationFails, Failed, Goto
  <1>15. CASE \E size \in 1..MaxCap : Append(t, size)
    BY <1>15 DEF Append
  <1>16. CASE PushExtent(t)
    BY <1>16 DEF PushExtent
  <1>17. CASE CloseFullZone(t)
    BY <1>17 DEF CloseFullZone, CloseActiveZone, Goto
  <1>18. CASE CloseWR(t)
    BY <1>18 DEF CloseWR, CloseActiveZone, Goto
  <1>19. CASE CloseActiveZonePutOpen(t)
    BY <1>19 DEF CloseActiveZonePutOpen, AfterPut, NotifyOne
  <1>20. CASE CloseActiveZonePutActive(t)
    BY <1>20 DEF CloseActiveZonePutActive, AfterPut, NotifyOne
  <1>21. CASE \E src \in Zone, len \in 1..MaxCap : TakeMigrateZone(t, src, len)
    BY <1>21 DEF TakeMigrateZone, BeginAllocation, Scan, Goto
  <1>22. CASE MigrateData(t)
    BY <1>22 DEF MigrateData, Goto, Fault
  <1>23. CASE MigrateAccount(t)
    BY <1>23 DEF MigrateAccount, Goto
  <1>24. CASE ReleaseMigrateZone(t)
    BY <1>24 DEF ReleaseMigrateZone, Goto
  <1>25. CASE SyncFileExtents(t)
    BY <1>25 DEF SyncFileExtents, Scan, Goto
  <1>26. CASE GCWorkerEnd(t)
    BY <1>26 DEF GCWorkerEnd, Goto
  <1>27. CASE ResetUnusedIOZones(t)
    BY <1>27 DEF ResetUnusedIOZones, Reset, AfterReset, ResetDone, ReleaseCur, Goto, Fault
  <1>28. CASE ResetUnusedIOZonesPut(t)
    BY <1>28 DEF ResetUnusedIOZonesPut, NotifyOne
  <1>29. CASE ResetUnusedIOZonesEnd(t)
    BY <1>29 DEF ResetUnusedIOZonesEnd, ResetDone, ScanOver, Goto
  <1>30. CASE \E z \in Zone : ScanAcquire(t, z)
    BY <1>30 DEF ScanAcquire
  <1>31. CASE \E z \in Zone : ScanSkip(t, z)
    BY <1>31 DEF ScanSkip
  <1>32. CASE StartAppend(t)
    BY <1>32 DEF StartAppend, Goto
  <1>33. CASE NextAppend(t)
    BY <1>33 DEF NextAppend
  <1>34. CASE \E size \in 0..MaxCap : AppendFails(t, size)
    BY <1>34 DEF AppendFails
  <1>35. CASE GCWorkerStart(t)
    BY <1>35 DEF GCWorkerStart, Goto
  <1>36. CASE \E z \in Zone, len \in 1..MaxCap : ClearExtents(t, z, len)
    BY <1>36 DEF ClearExtents
  <1>37. CASE StartReset(t)
    BY <1>37 DEF StartReset, Scan, Goto
  <1> QED
    BY <1>1, <1>2, <1>3, <1>4, <1>5, <1>6, <1>7, <1>8, <1>9, <1>10, <1>11, <1>12, <1>13, <1>14, <1>15, <1>16, <1>17, <1>18, <1>19, <1>20, <1>21, <1>22, <1>23, <1>24, <1>25, <1>26, <1>27, <1>28, <1>29, <1>30, <1>31, <1>32, <1>33, <1>34, <1>35, <1>36, <1>37
    DEF Step, Call, Allocator, FileWriter, Collector, Resetter, Scanner

LEMMA OthersKept ==
    ASSUME TypeOK, ZoneExclusive, NEW t \in Thread, LocalTo(t),
           NEW u \in Thread, u # t, zone[u] # None
    PROVE  /\ zone'[u] = zone[u]
           /\ zone[u] \in Zone
           /\ wp'[zone[u]] = wp[zone[u]]
           /\ capacity'[zone[u]] = capacity[zone[u]]
  <1>1. zone[u] \in Zone
    BY DEF TypeOK
  <1>2. zone[u] \notin {cur[t], zone[t]}
    BY <1>1, FiniteAssumption DEF ZoneExclusive, Held
  <1> QED BY <1>1, <1>2 DEF LocalTo

LEMMA KeepsActiveOwn ==
    ASSUME TypeInv, KeptActive, UsedWritten, NEW t \in Thread, Step(t) \/ Call(t)
    PROVE  KeepsActive(t)'
  <1> USE ThreadAssumption, LimitAssumption, FiniteAssumption
  <1> USE DEF TypeInv, TypeOK, KeptActive, KeepsActive, UsedWritten, WritePc, Active,
              IsEmpty, IsFull, zones, ScanPc, ZoneInHand
  <1>1. CASE AllocateIOZone(t)
    BY <1>1 DEF AllocateIOZone, BeginAllocation, Scan, Goto
  <1>2. CASE ApplyFinishThreshold(t)
    BY <1>2 DEF ApplyFinishThreshold, Finish, AllocationFails, Failed, ReleaseCur, Goto
  <1>3. CASE ApplyFinishThresholdPut(t)
    BY <1>3 DEF ApplyFinishThresholdPut, NotifyOne
  <1>4. CASE ApplyFinishThresholdEnd(t)
    BY <1>4 DEF ApplyFinishThresholdEnd, ScanOver, Goto
  <1>5. CASE WaitForOpenIOZoneToken(t)
    BY <1>5 DEF WaitForOpenIOZoneToken, Scan, Goto
  <1>6. CASE GetBestOpenZoneMatch(t)
    BY <1>6 DEF GetBestOpenZoneMatch, KeepCur, ReleaseCur, Candidate, IsUsed
  <1>7. CASE GetBestOpenZoneMatchEnd(t)
    BY <1>7 DEF GetBestOpenZoneMatchEnd, ScanOver, Goto
  <1>8. CASE \E best_diff \in {Good, CouldBeWorse, NotGood} : Decide(t, best_diff)
    BY <1>8 DEF Decide, Allocated, Scan, Goto
  <1>9. CASE GetActiveIOZoneToken(t)
    BY <1>9 DEF GetActiveIOZoneToken, Scan, Goto
  <1>10. CASE FinishCheapestIOZone(t)
    BY <1>10 DEF FinishCheapestIOZone, KeepCur, ReleaseCur
  <1>11. CASE FinishCheapestIOZoneEnd(t)
    BY <1>11 DEF FinishCheapestIOZoneEnd, ScanOver, Finish, AllocationFails, Failed, Goto
  <1>12. CASE FinishCheapestIOZonePut(t)
    BY <1>12 DEF FinishCheapestIOZonePut, NotifyOne
  <1>13. CASE AllocateEmptyZone(t)
    BY <1>13 DEF AllocateEmptyZone, KeepCur, ReleaseCur
  <1>14. CASE AllocateEmptyZoneEnd(t)
    BY <1>14 DEF AllocateEmptyZoneEnd, Allocated, AllocationFails, Failed, Goto
  <1>15. CASE \E size \in 1..MaxCap : Append(t, size)
    BY <1>15 DEF Append, Fits
  <1>16. CASE PushExtent(t)
    BY <1>16 DEF PushExtent
  <1>17. CASE CloseFullZone(t)
    BY <1>17 DEF CloseFullZone, CloseActiveZone, Goto
  <1>18. CASE CloseWR(t)
    BY <1>18 DEF CloseWR, CloseActiveZone, Goto
  <1>19. CASE CloseActiveZonePutOpen(t)
    BY <1>19 DEF CloseActiveZonePutOpen, AfterPut, NotifyOne
  <1>20. CASE CloseActiveZonePutActive(t)
    BY <1>20 DEF CloseActiveZonePutActive, AfterPut, NotifyOne
  <1>21. CASE \E src \in Zone, len \in 1..MaxCap : TakeMigrateZone(t, src, len)
    BY <1>21 DEF TakeMigrateZone, BeginAllocation, Scan, Goto
  <1>22. CASE MigrateData(t)
    BY <1>22 DEF MigrateData, Goto, Fault
  <1>23. CASE MigrateAccount(t)
    BY <1>23 DEF MigrateAccount, Goto
  <1>24. CASE ReleaseMigrateZone(t)
    BY <1>24 DEF ReleaseMigrateZone, Goto
  <1>25. CASE SyncFileExtents(t)
    BY <1>25 DEF SyncFileExtents, Scan, Goto
  <1>26. CASE GCWorkerEnd(t)
    BY <1>26 DEF GCWorkerEnd, Goto
  <1>27. CASE ResetUnusedIOZones(t)
    BY <1>27 DEF ResetUnusedIOZones, Reset, AfterReset, ResetDone, ReleaseCur, Goto, Fault
  <1>28. CASE ResetUnusedIOZonesPut(t)
    BY <1>28 DEF ResetUnusedIOZonesPut, NotifyOne
  <1>29. CASE ResetUnusedIOZonesEnd(t)
    BY <1>29 DEF ResetUnusedIOZonesEnd, ResetDone, ScanOver, Goto
  <1>30. CASE \E z \in Zone : ScanAcquire(t, z)
    BY <1>30 DEF ScanAcquire
  <1>31. CASE \E z \in Zone : ScanSkip(t, z)
    BY <1>31 DEF ScanSkip
  <1>32. CASE StartAppend(t)
    BY <1>32 DEF StartAppend, Goto
  <1>33. CASE NextAppend(t)
    BY <1>33 DEF NextAppend
  <1>34. CASE \E size \in 0..MaxCap : AppendFails(t, size)
    BY <1>34 DEF AppendFails
  <1>35. CASE GCWorkerStart(t)
    BY <1>35 DEF GCWorkerStart, Goto
  <1>36. CASE \E z \in Zone, len \in 1..MaxCap : ClearExtents(t, z, len)
    BY <1>36 DEF ClearExtents
  <1>37. CASE StartReset(t)
    BY <1>37 DEF StartReset, Scan, Goto
  <1> QED
    BY <1>1, <1>2, <1>3, <1>4, <1>5, <1>6, <1>7, <1>8, <1>9, <1>10, <1>11, <1>12, <1>13, <1>14, <1>15, <1>16, <1>17, <1>18, <1>19, <1>20, <1>21, <1>22, <1>23, <1>24, <1>25, <1>26, <1>27, <1>28, <1>29, <1>30, <1>31, <1>32, <1>33, <1>34, <1>35, <1>36, <1>37
    DEF Step, Call, Allocator, FileWriter, Collector, Resetter, Scanner

LEMMA KeptActiveStep ==
    ASSUME TypeInv, ZoneExclusive, KeptActive, UsedWritten,
           NEW t \in Thread, Step(t) \/ Call(t)
    PROVE  KeptActive'
  <1>1. LocalTo(t)
    BY StepLocal DEF TypeInv
  <1>2. ASSUME NEW u \in Thread, u # t
        PROVE  KeepsActive(u)'
    <2>1. KeepsActive(u)
      BY DEF KeptActive
    <2>2. CASE zone[u] = None
      BY <1>1, <1>2, <2>2 DEF KeepsActive, LocalTo
    <2>3. CASE zone[u] # None
      BY <1>1, <1>2, <2>1, <2>3, OthersKept
      DEF KeepsActive, LocalTo, Active, IsEmpty, IsFull, TypeInv, WritePc
    <2> QED BY <2>2, <2>3
  <1> QED BY <1>2, KeepsActiveOwn DEF KeptActive

-----------------------------------------------------------------------------
(* Live data is written data.                                               *)

LEMMA UsedWrittenZones ==
    ASSUME TypeInv, UsedWritten, NEW t \in Thread, Step(t) \/ Call(t)
    PROVE  /\ \A z \in Zone : z # zone[t] => used'[z] <= used[z]
           /\ \A z \in Zone : wp'[z] = 0 => capacity'[z] \in {0, MaxCap}
           /\ mig'.len <= MaxCap
           /\ \/ mig'.len \in {0, mig.len}
              \/ t \in Gc /\ pc[t] = "gc"
  <1> USE LimitAssumption, FiniteAssumption
  <1> USE DEF TypeInv, TypeOK, RoomLeft, ZoneInHand, UsedWritten, WritesFirst, zones
  <1>1. CASE AllocateIOZone(t)
    BY <1>1 DEF AllocateIOZone
  <1>2. CASE ApplyFinishThreshold(t)
    BY <1>2 DEF ApplyFinishThreshold, Finish, AllocationFails, DropMigration, NoMigration
  <1>3. CASE ApplyFinishThresholdPut(t)
    BY <1>3 DEF ApplyFinishThresholdPut
  <1>4. CASE ApplyFinishThresholdEnd(t)
    BY <1>4 DEF ApplyFinishThresholdEnd
  <1>5. CASE WaitForOpenIOZoneToken(t)
    BY <1>5 DEF WaitForOpenIOZoneToken
  <1>6. CASE GetBestOpenZoneMatch(t)
    BY <1>6 DEF GetBestOpenZoneMatch
  <1>7. CASE GetBestOpenZoneMatchEnd(t)
    BY <1>7 DEF GetBestOpenZoneMatchEnd
  <1>8. CASE \E best_diff \in {Good, CouldBeWorse, NotGood} : Decide(t, best_diff)
    BY <1>8 DEF Decide
  <1>9. CASE GetActiveIOZoneToken(t)
    BY <1>9 DEF GetActiveIOZoneToken
  <1>10. CASE FinishCheapestIOZone(t)
    BY <1>10 DEF FinishCheapestIOZone
  <1>11. CASE FinishCheapestIOZoneEnd(t)
    BY <1>11 DEF FinishCheapestIOZoneEnd, Finish, AllocationFails, DropMigration, NoMigration
  <1>12. CASE FinishCheapestIOZonePut(t)
    BY <1>12 DEF FinishCheapestIOZonePut
  <1>13. CASE AllocateEmptyZone(t)
    BY <1>13 DEF AllocateEmptyZone
  <1>14. CASE AllocateEmptyZoneEnd(t)
    BY <1>14 DEF AllocateEmptyZoneEnd, AllocationFails, DropMigration, NoMigration
  <1>15. CASE \E size \in 1..MaxCap : Append(t, size)
    BY <1>15 DEF Append, Fits
  <1>16. CASE PushExtent(t)
    BY <1>16 DEF PushExtent
  <1>17. CASE CloseFullZone(t)
    BY <1>17 DEF CloseFullZone, CloseActiveZone
  <1>18. CASE CloseWR(t)
    BY <1>18 DEF CloseWR, CloseActiveZone
  <1>19. CASE CloseActiveZonePutOpen(t)
    BY <1>19 DEF CloseActiveZonePutOpen
  <1>20. CASE CloseActiveZonePutActive(t)
    BY <1>20 DEF CloseActiveZonePutActive
  <1>21. CASE \E src \in Zone, len \in 1..MaxCap : TakeMigrateZone(t, src, len)
    BY <1>21 DEF TakeMigrateZone
  <1>22. CASE MigrateData(t)
    BY <1>22 DEF MigrateData, Fault
  <1>23. CASE MigrateAccount(t)
    BY <1>23 DEF MigrateAccount, NoMigration
  <1>24. CASE ReleaseMigrateZone(t)
    BY <1>24 DEF ReleaseMigrateZone
  <1>25. CASE SyncFileExtents(t)
    BY <1>25 DEF SyncFileExtents, NoMigration
  <1>26. CASE GCWorkerEnd(t)
    BY <1>26 DEF GCWorkerEnd
  <1>27. CASE ResetUnusedIOZones(t)
    BY <1>27 DEF ResetUnusedIOZones, Reset, Dead, IsEmpty, IsUsed, Fault
  <1>28. CASE ResetUnusedIOZonesPut(t)
    BY <1>28 DEF ResetUnusedIOZonesPut
  <1>29. CASE ResetUnusedIOZonesEnd(t)
    BY <1>29 DEF ResetUnusedIOZonesEnd
  <1>30. CASE \E z \in Zone : ScanAcquire(t, z)
    BY <1>30 DEF ScanAcquire
  <1>31. CASE \E z \in Zone : ScanSkip(t, z)
    BY <1>31 DEF ScanSkip
  <1>32. CASE StartAppend(t)
    BY <1>32 DEF StartAppend
  <1>33. CASE NextAppend(t)
    BY <1>33 DEF NextAppend
  <1>34. CASE \E size \in 0..MaxCap : AppendFails(t, size)
    BY <1>34 DEF AppendFails
  <1>35. CASE GCWorkerStart(t)
    BY <1>35 DEF GCWorkerStart
  <1>36. CASE \E z \in Zone, len \in 1..MaxCap : ClearExtents(t, z, len)
    BY <1>36 DEF ClearExtents
  <1>37. CASE StartReset(t)
    BY <1>37 DEF StartReset
  <1> QED
    BY <1>1, <1>2, <1>3, <1>4, <1>5, <1>6, <1>7, <1>8, <1>9, <1>10, <1>11, <1>12, <1>13, <1>14, <1>15, <1>16, <1>17, <1>18, <1>19, <1>20, <1>21, <1>22, <1>23, <1>24, <1>25, <1>26, <1>27, <1>28, <1>29, <1>30, <1>31, <1>32, <1>33, <1>34, <1>35, <1>36, <1>37
    DEF Step, Call, Allocator, FileWriter, Collector, Resetter, Scanner

LEMMA WritesFirstOwn ==
    ASSUME TypeInv, UsedWritten, NEW t \in Thread, Step(t) \/ Call(t)
    PROVE  WritesFirst(t)'
  <1> USE LimitAssumption, FiniteAssumption
  <1> USE DEF TypeInv, TypeOK, RoomLeft, ZoneInHand, UsedWritten, WritesFirst, zones,
              writing
  <1>1. CASE AllocateIOZone(t)
    BY <1>1 DEF AllocateIOZone, BeginAllocation, Scan, Goto
  <1>2. CASE ApplyFinishThreshold(t)
    BY <1>2 DEF ApplyFinishThreshold, Finish, AllocationFails, Failed, DropMigration, ReleaseCur, Goto, NoMigration
  <1>3. CASE ApplyFinishThresholdPut(t)
    BY <1>3 DEF ApplyFinishThresholdPut, NotifyOne
  <1>4. CASE ApplyFinishThresholdEnd(t)
    BY <1>4 DEF ApplyFinishThresholdEnd, ScanOver, Goto
  <1>5. CASE WaitForOpenIOZoneToken(t)
    BY <1>5 DEF WaitForOpenIOZoneToken, Scan, Goto
  <1>6. CASE GetBestOpenZoneMatch(t)
    BY <1>6 DEF GetBestOpenZoneMatch, KeepCur, ReleaseCur
  <1>7. CASE GetBestOpenZoneMatchEnd(t)
    BY <1>7 DEF GetBestOpenZoneMatchEnd, ScanOver, Goto
  <1>8. CASE \E best_diff \in {Good, CouldBeWorse, NotGood} : Decide(t, best_diff)
    BY <1>8 DEF Decide, Allocated, Scan, Goto
  <1>9. CASE GetActiveIOZoneToken(t)
    BY <1>9 DEF GetActiveIOZoneToken, Scan, Goto
  <1>10. CASE FinishCheapestIOZone(t)
    BY <1>10 DEF FinishCheapestIOZone, KeepCur, ReleaseCur
  <1>11. CASE FinishCheapestIOZoneEnd(t)
    BY <1>11 DEF FinishCheapestIOZoneEnd, ScanOver, Finish, AllocationFails, Failed, DropMigration, Goto, NoMigration
  <1>12. CASE FinishCheapestIOZonePut(t)
    BY <1>12 DEF FinishCheapestIOZonePut, NotifyOne
  <1>13. CASE AllocateEmptyZone(t)
    BY <1>13 DEF AllocateEmptyZone, KeepCur, ReleaseCur
  <1>14. CASE AllocateEmptyZoneEnd(t)
    BY <1>14 DEF AllocateEmptyZoneEnd, Allocated, AllocationFails, Failed, DropMigration, Goto, NoMigration
  <1>15. CASE \E size \in 1..MaxCap : Append(t, size)
    BY <1>15 DEF Append, Fits
  <1>16. CASE PushExtent(t)
    BY <1>16 DEF PushExtent
  <1>17. CASE CloseFullZone(t)
    BY <1>17 DEF CloseFullZone, CloseActiveZone, Goto
  <1>18. CASE CloseWR(t)
    BY <1>18 DEF CloseWR, CloseActiveZone, Goto
  <1>19. CASE CloseActiveZonePutOpen(t)
    BY <1>19 DEF CloseActiveZonePutOpen, AfterPut, NotifyOne
  <1>20. CASE CloseActiveZonePutActive(t)
    BY <1>20 DEF CloseActiveZonePutActive, AfterPut, NotifyOne
  <1>21. CASE \E src \in Zone, len \in 1..MaxCap : TakeMigrateZone(t, src, len)
    BY <1>21 DEF TakeMigrateZone, BeginAllocation, Scan, Goto
  <1>22. CASE MigrateData(t)
    BY <1>22 DEF MigrateData, Goto, Fault
  <1>23. CASE MigrateAccount(t)
    BY <1>23 DEF MigrateAccount, Goto, NoMigration
  <1>24. CASE ReleaseMigrateZone(t)
    BY <1>24 DEF ReleaseMigrateZone, Goto
  <1>25. CASE SyncFileExtents(t)
    BY <1>25 DEF SyncFileExtents, Scan, Goto, NoMigration
  <1>26. CASE GCWorkerEnd(t)
    BY <1>26 DEF GCWorkerEnd, Goto
  <1>27. CASE ResetUnusedIOZones(t)
    BY <1>27 DEF ResetUnusedIOZones, Reset, AfterReset, ResetDone, ReleaseCur, Goto, Fault
  <1>28. CASE ResetUnusedIOZonesPut(t)
    BY <1>28 DEF ResetUnusedIOZonesPut, NotifyOne
  <1>29. CASE ResetUnusedIOZonesEnd(t)
    BY <1>29 DEF ResetUnusedIOZonesEnd, ResetDone, ScanOver, Goto
  <1>30. CASE \E z \in Zone : ScanAcquire(t, z)
    BY <1>30 DEF ScanAcquire
  <1>31. CASE \E z \in Zone : ScanSkip(t, z)
    BY <1>31 DEF ScanSkip
  <1>32. CASE StartAppend(t)
    BY <1>32 DEF StartAppend, Goto
  <1>33. CASE NextAppend(t)
    BY <1>33 DEF NextAppend
  <1>34. CASE \E size \in 0..MaxCap : AppendFails(t, size)
    BY <1>34 DEF AppendFails
  <1>35. CASE GCWorkerStart(t)
    BY <1>35 DEF GCWorkerStart, Goto
  <1>36. CASE \E z \in Zone, len \in 1..MaxCap : ClearExtents(t, z, len)
    BY <1>36 DEF ClearExtents
  <1>37. CASE StartReset(t)
    BY <1>37 DEF StartReset, Scan, Goto
  <1> QED
    BY <1>1, <1>2, <1>3, <1>4, <1>5, <1>6, <1>7, <1>8, <1>9, <1>10, <1>11, <1>12, <1>13, <1>14, <1>15, <1>16, <1>17, <1>18, <1>19, <1>20, <1>21, <1>22, <1>23, <1>24, <1>25, <1>26, <1>27, <1>28, <1>29, <1>30, <1>31, <1>32, <1>33, <1>34, <1>35, <1>36, <1>37
    DEF Step, Call, Allocator, FileWriter, Collector, Resetter, Scanner

LEMMA UsedWrittenStep ==
    ASSUME TypeInv, ZoneExclusive, Serialized, UsedWritten,
           NEW t \in Thread, Step(t) \/ Call(t)
    PROVE  UsedWritten'
  <1>1. LocalTo(t)
    BY StepLocal DEF TypeInv
  <1>3. ASSUME NEW u \in Thread, u # t
        PROVE  WritesFirst(u)'
    <2>1. WritesFirst(u)
      BY DEF UsedWritten
    <2>3. CASE pc[u] = "write"
      <3>1. zone[u] # None
        BY <2>3 DEF TypeInv, ZoneInHand
      <3> QED BY <1>1, <1>3, <2>1, <3>1, OthersKept
              DEF WritesFirst, LocalTo, TypeInv
    <2>4. CASE pc[u] # "write"
      BY <1>1, <1>3, <2>1, <2>4 DEF WritesFirst, LocalTo, TypeInv, TypeOK
    <2> QED BY <2>3, <2>4
  <1>4. \A u \in Thread : WritesFirst(u)'
    BY <1>3, WritesFirstOwn
  <1> QED BY <1>4, UsedWrittenZones DEF UsedWritten

-----------------------------------------------------------------------------
(* What a step of t does to the tokens, in terms of t alone.                *)

\* The zones in t's hands that are claimed.
OwnClaimed(t) == {z \in Held(t) : Taken(z) \/ (zone[t] = z /\ pc[t] \in ClaimPc)}

\* The zones in t's hands that are claimed after the step.
StaysClaimed(t) ==
    {z \in Held(t) : Taken(z)' \/ (zone'[t] = z /\ pc'[t] \in ClaimPc)}

\* Nothing changes; a token is taken, returned, owed for a zone that is no
\* longer claimed, or spent on a zone.
ActiveTokenMove(t) ==
    \/ /\ Owes(t)' => Owes(t)
       /\ StaysClaimed(t) \subseteq OwnClaimed(t)
       /\ active_io_zones' = active_io_zones
    \/ /\ StaysClaimed(t) \subseteq OwnClaimed(t)
       /\ ActiveTokenAvailable
       /\ active_io_zones' = active_io_zones + 1
    \/ /\ Owes(t) /\ ~Owes(t)'
       /\ StaysClaimed(t) \subseteq OwnClaimed(t)
       /\ active_io_zones' = active_io_zones - 1
    \/ \E z \in OwnClaimed(t) :
         /\ StaysClaimed(t) \subseteq OwnClaimed(t) \ {z}
         /\ active_io_zones' = active_io_zones
    \/ /\ Owes(t) /\ ~Owes(t)'
       /\ \E z \in Zone : StaysClaimed(t) \subseteq OwnClaimed(t) \union {z}
       /\ active_io_zones' = active_io_zones

LEMMA ActiveTokenMoves ==
    ASSUME TypeInv, ZoneExclusive, KeptActive, NEW t \in Thread, Step(t) \/ Call(t)
    PROVE  ActiveTokenMove(t)
  <1> USE LimitAssumption, FiniteAssumption
  <1> USE DEF TypeInv, TypeOK, ZoneInHand, KeptActive, KeepsActive,
              ActiveTokenMove,
              StaysClaimed, OwnClaimed, Owes, OwesPc, ClaimPc, WritePc, Held, Taken, Active, IsUsed, IsEmpty,
              IsFull, zones, tokens, writing
  <1>1. CASE AllocateIOZone(t)
    BY <1>1 DEF AllocateIOZone, BeginAllocation, Scan, Goto
  <1>2. CASE ApplyFinishThreshold(t)
    BY <1>2 DEF ApplyFinishThreshold, Finish, AllocationFails, Failed, ReleaseCur, Goto
  <1>3. CASE ApplyFinishThresholdPut(t)
    BY <1>3 DEF ApplyFinishThresholdPut, PutActiveIOZoneToken, NotifyOne
  <1>4. CASE ApplyFinishThresholdEnd(t)
    BY <1>4 DEF ApplyFinishThresholdEnd, ScanOver, Goto
  <1>5. CASE WaitForOpenIOZoneToken(t)
    BY <1>5 DEF WaitForOpenIOZoneToken, Scan, Goto
  <1>6. CASE GetBestOpenZoneMatch(t)
    BY <1>6 DEF GetBestOpenZoneMatch, KeepCur, ReleaseCur, Candidate
  <1>7. CASE GetBestOpenZoneMatchEnd(t)
    BY <1>7 DEF GetBestOpenZoneMatchEnd, ScanOver, Goto
  <1>8. CASE \E best_diff \in {Good, CouldBeWorse, NotGood} : Decide(t, best_diff)
    BY <1>8 DEF Decide, Allocated, Scan, Goto
  <1>9. CASE GetActiveIOZoneToken(t)
    BY <1>9 DEF GetActiveIOZoneToken, Scan, Goto
  <1>10. CASE FinishCheapestIOZone(t)
    BY <1>10 DEF FinishCheapestIOZone, KeepCur, ReleaseCur
  <1>11. CASE FinishCheapestIOZoneEnd(t)
    BY <1>11 DEF FinishCheapestIOZoneEnd, ScanOver, Finish, AllocationFails, Failed, PutOpenIOZoneToken, Goto
  <1>12. CASE FinishCheapestIOZonePut(t)
    BY <1>12 DEF FinishCheapestIOZonePut, PutActiveIOZoneToken, NotifyOne
  <1>13. CASE AllocateEmptyZone(t)
    BY <1>13 DEF AllocateEmptyZone, KeepCur, ReleaseCur
  <1>14. CASE AllocateEmptyZoneEnd(t)
    BY <1>14 DEF AllocateEmptyZoneEnd, Allocated, AllocationFails, Failed, ReturnTokens, PutOpenIOZoneToken, PutActiveIOZoneToken, Goto
  <1>15. CASE \E size \in 1..MaxCap : Append(t, size)
    BY <1>15 DEF Append, Fits
  <1>16. CASE PushExtent(t)
    BY <1>16 DEF PushExtent
  <1>17. CASE CloseFullZone(t)
    BY <1>17 DEF CloseFullZone, CloseActiveZone, Goto
  <1>18. CASE CloseWR(t)
    BY <1>18 DEF CloseWR, CloseActiveZone, Goto
  <1>19. CASE CloseActiveZonePutOpen(t)
    BY <1>19 DEF CloseActiveZonePutOpen, AfterPut, PutOpenIOZoneToken, NotifyOne
  <1>20. CASE CloseActiveZonePutActive(t)
    BY <1>20 DEF CloseActiveZonePutActive, AfterPut, PutActiveIOZoneToken, NotifyOne
  <1>21. CASE \E src \in Zone, len \in 1..MaxCap : TakeMigrateZone(t, src, len)
    BY <1>21 DEF TakeMigrateZone, BeginAllocation, Scan, Goto
  <1>22. CASE MigrateData(t)
    BY <1>22 DEF MigrateData, Goto, Fault
  <1>23. CASE MigrateAccount(t)
    BY <1>23 DEF MigrateAccount, Goto
  <1>24. CASE ReleaseMigrateZone(t)
    <2>1. /\ zone[t] \in Zone /\ pc[t] = "release"
          /\ zone' = [zone EXCEPT ![t] = None]
          /\ wp' = wp /\ capacity' = capacity /\ used' = used
          /\ active_io_zones' = active_io_zones
      BY <1>24 DEF ReleaseMigrateZone
    <2>2. StaysClaimed(t) \subseteq OwnClaimed(t)
      BY <2>1
    <2>3. zone[t] \in OwnClaimed(t) /\ ~Owes(t)
      BY <2>1
    <2>4. CASE pc' = [pc EXCEPT ![t] = "put_open"] /\ full' = [full EXCEPT ![t] = TRUE]
                 /\ IsFull(zone[t])
      <3>1. StaysClaimed(t) \subseteq OwnClaimed(t) \ {zone[t]}
        BY <2>1, <2>2, <2>4
      <3> QED BY <2>1, <2>3, <3>1
    <2>5. CASE pc' = [pc EXCEPT ![t] = "put_open"] /\ full' = [full EXCEPT ![t] = FALSE]
      <3>1. ~Owes(t)'
        BY <2>5
      <3> QED BY <2>1, <2>2, <3>1
    <2>6. CASE pc' = [pc EXCEPT ![t] = "sync"]
      <3>1. ~Owes(t)'
        BY <2>6
      <3> QED BY <2>1, <2>2, <3>1
    <2>7. \/ pc' = [pc EXCEPT ![t] = "sync"]
          \/ /\ pc' = [pc EXCEPT ![t] = "put_open"]
             /\ full' = [full EXCEPT ![t] = IsFull(zone[t])]
      BY <1>24 DEF ReleaseMigrateZone, Goto
    <2> QED BY <2>4, <2>5, <2>6, <2>7
  <1>25. CASE SyncFileExtents(t)
    BY <1>25 DEF SyncFileExtents, Scan, Goto
  <1>26. CASE GCWorkerEnd(t)
    BY <1>26 DEF GCWorkerEnd, Goto
  <1>27. CASE ResetUnusedIOZones(t)
    BY <1>27 DEF ResetUnusedIOZones, Reset, AfterReset, ResetDone, ReleaseCur, Goto, Dead, Fault
  <1>28. CASE ResetUnusedIOZonesPut(t)
    BY <1>28 DEF ResetUnusedIOZonesPut, PutActiveIOZoneToken, NotifyOne
  <1>29. CASE ResetUnusedIOZonesEnd(t)
    BY <1>29 DEF ResetUnusedIOZonesEnd, ResetDone, ScanOver, Goto
  <1>30. CASE \E z \in Zone : ScanAcquire(t, z)
    BY <1>30 DEF ScanAcquire
  <1>31. CASE \E z \in Zone : ScanSkip(t, z)
    BY <1>31 DEF ScanSkip
  <1>32. CASE StartAppend(t)
    BY <1>32 DEF StartAppend, Goto
  <1>33. CASE NextAppend(t)
    BY <1>33 DEF NextAppend
  <1>34. CASE \E size \in 0..MaxCap : AppendFails(t, size)
    BY <1>34 DEF AppendFails
  <1>35. CASE GCWorkerStart(t)
    BY <1>35 DEF GCWorkerStart, Goto
  <1>36. CASE \E z \in Zone, len \in 1..MaxCap : ClearExtents(t, z, len)
    BY <1>36 DEF ClearExtents
  <1>37. CASE StartReset(t)
    BY <1>37 DEF StartReset, Scan, Goto
  <1> QED
    BY <1>1, <1>2, <1>3, <1>4, <1>5, <1>6, <1>7, <1>8, <1>9, <1>10, <1>11, <1>12, <1>13, <1>14, <1>15, <1>16, <1>17, <1>18, <1>19, <1>20, <1>21, <1>22, <1>23, <1>24, <1>25, <1>26, <1>27, <1>28, <1>29, <1>30, <1>31, <1>32, <1>33, <1>34, <1>35, <1>36, <1>37
    DEF Step, Call, Allocator, FileWriter, Collector, Resetter, Scanner

-----------------------------------------------------------------------------
(* Nobody else's zones or debts are touched.                                *)

LEMMA ClaimedMoves ==
    ASSUME TypeInv, TypeOK', ZoneExclusive, NEW t \in Thread, LocalTo(t),
           \A z \in Zone : z # zone[t] => used'[z] <= used[z],
           zone'[t] \in Held(t) \union {None}
    PROVE  /\ OwnClaimed(t) \subseteq Claimed
           /\ Claimed' \subseteq (Claimed \ Held(t)) \union StaysClaimed(t)
  <1> USE FiniteAssumption DEF TypeInv, TypeOK
  <1>1. OwnClaimed(t) \subseteq Claimed
    BY DEF OwnClaimed, Claimed, Held
  <1>2. ASSUME NEW z \in Zone, z \in Held(t), z \in Claimed'
        PROVE  z \in StaysClaimed(t)
    <2>1. \A u \in Thread : u # t => zone'[u] # z
      <3> SUFFICES ASSUME NEW u \in Thread, u # t PROVE zone[u] # z
        BY DEF LocalTo
      <3>1. zone[u] = z => z \in Held(u)
        BY DEF Held
      <3>2. Held(t) \intersect Held(u) = {}
        BY DEF ZoneExclusive
      <3> QED BY <1>2, <3>1, <3>2
    <2> QED BY <1>2, <2>1 DEF Claimed, StaysClaimed
  <1>3. ASSUME NEW z \in Zone, z \notin Held(t), z \in Claimed'
        PROVE  z \in Claimed
    <2>1. Taken(z)' => Taken(z)
      BY <1>3 DEF LocalTo, Taken, IsUsed, IsEmpty, IsFull, Held
    <2>2. \A u \in Thread : zone'[u] = z /\ pc'[u] \in ClaimPc
                             => zone[u] = z /\ pc[u] \in ClaimPc
      BY <1>3 DEF LocalTo, ClaimPc, WritePc
    <2> QED BY <1>3, <2>1, <2>2 DEF Claimed
  <1>4. Claimed' \subseteq Zone
    BY DEF Claimed
  <1> QED BY <1>1, <1>2, <1>3, <1>4

LEMMA OwingMoves ==
    ASSUME TypeInv, NEW t \in Thread, LocalTo(t)
    PROVE  /\ Owing' \subseteq Owing \union {t}
           /\ t \in Owing <=> Owes(t)
           /\ ~Owes(t)' => Owing' \subseteq Owing \ {t}
  BY DEF TypeInv, TypeOK, LocalTo, Owing, Owes, OwesPc

LEMMA ZoneFromHand ==
    ASSUME TypeInv, NEW t \in Thread, Step(t) \/ Call(t)
    PROVE  zone'[t] \in Held(t) \union {None}
  <1> USE DEF TypeInv, TypeOK, Held, zones
  <1>1. CASE AllocateIOZone(t)
    BY <1>1 DEF AllocateIOZone
  <1>2. CASE ApplyFinishThreshold(t)
    BY <1>2 DEF ApplyFinishThreshold, ReleaseCur
  <1>3. CASE ApplyFinishThresholdPut(t)
    BY <1>3 DEF ApplyFinishThresholdPut
  <1>4. CASE ApplyFinishThresholdEnd(t)
    BY <1>4 DEF ApplyFinishThresholdEnd
  <1>5. CASE WaitForOpenIOZoneToken(t)
    BY <1>5 DEF WaitForOpenIOZoneToken
  <1>6. CASE GetBestOpenZoneMatch(t)
    BY <1>6 DEF GetBestOpenZoneMatch, KeepCur, ReleaseCur
  <1>7. CASE GetBestOpenZoneMatchEnd(t)
    BY <1>7 DEF GetBestOpenZoneMatchEnd
  <1>8. CASE \E best_diff \in {Good, CouldBeWorse, NotGood} : Decide(t, best_diff)
    BY <1>8 DEF Decide
  <1>9. CASE GetActiveIOZoneToken(t)
    BY <1>9 DEF GetActiveIOZoneToken
  <1>10. CASE FinishCheapestIOZone(t)
    BY <1>10 DEF FinishCheapestIOZone, KeepCur, ReleaseCur
  <1>11. CASE FinishCheapestIOZoneEnd(t)
    BY <1>11 DEF FinishCheapestIOZoneEnd
  <1>12. CASE FinishCheapestIOZonePut(t)
    BY <1>12 DEF FinishCheapestIOZonePut
  <1>13. CASE AllocateEmptyZone(t)
    BY <1>13 DEF AllocateEmptyZone, KeepCur, ReleaseCur
  <1>14. CASE AllocateEmptyZoneEnd(t)
    BY <1>14 DEF AllocateEmptyZoneEnd
  <1>15. CASE \E size \in 1..MaxCap : Append(t, size)
    BY <1>15 DEF Append
  <1>16. CASE PushExtent(t)
    BY <1>16 DEF PushExtent
  <1>17. CASE CloseFullZone(t)
    BY <1>17 DEF CloseFullZone, CloseActiveZone
  <1>18. CASE CloseWR(t)
    BY <1>18 DEF CloseWR, CloseActiveZone
  <1>19. CASE CloseActiveZonePutOpen(t)
    BY <1>19 DEF CloseActiveZonePutOpen
  <1>20. CASE CloseActiveZonePutActive(t)
    BY <1>20 DEF CloseActiveZonePutActive
  <1>21. CASE \E src \in Zone, len \in 1..MaxCap : TakeMigrateZone(t, src, len)
    BY <1>21 DEF TakeMigrateZone
  <1>22. CASE MigrateData(t)
    BY <1>22 DEF MigrateData, Fault
  <1>23. CASE MigrateAccount(t)
    BY <1>23 DEF MigrateAccount
  <1>24. CASE ReleaseMigrateZone(t)
    BY <1>24 DEF ReleaseMigrateZone
  <1>25. CASE SyncFileExtents(t)
    BY <1>25 DEF SyncFileExtents
  <1>26. CASE GCWorkerEnd(t)
    BY <1>26 DEF GCWorkerEnd
  <1>27. CASE ResetUnusedIOZones(t)
    BY <1>27 DEF ResetUnusedIOZones, ReleaseCur
  <1>28. CASE ResetUnusedIOZonesPut(t)
    BY <1>28 DEF ResetUnusedIOZonesPut
  <1>29. CASE ResetUnusedIOZonesEnd(t)
    BY <1>29 DEF ResetUnusedIOZonesEnd
  <1>30. CASE \E z \in Zone : ScanAcquire(t, z)
    BY <1>30 DEF ScanAcquire
  <1>31. CASE \E z \in Zone : ScanSkip(t, z)
    BY <1>31 DEF ScanSkip
  <1>32. CASE StartAppend(t)
    BY <1>32 DEF StartAppend
  <1>33. CASE NextAppend(t)
    BY <1>33 DEF NextAppend
  <1>34. CASE \E size \in 0..MaxCap : AppendFails(t, size)
    BY <1>34 DEF AppendFails
  <1>35. CASE GCWorkerStart(t)
    BY <1>35 DEF GCWorkerStart
  <1>36. CASE \E z \in Zone, len \in 1..MaxCap : ClearExtents(t, z, len)
    BY <1>36 DEF ClearExtents
  <1>37. CASE StartReset(t)
    BY <1>37 DEF StartReset
  <1> QED
    BY <1>1, <1>2, <1>3, <1>4, <1>5, <1>6, <1>7, <1>8, <1>9, <1>10, <1>11, <1>12, <1>13, <1>14, <1>15, <1>16, <1>17, <1>18, <1>19, <1>20, <1>21, <1>22, <1>23, <1>24, <1>25, <1>26, <1>27, <1>28, <1>29, <1>30, <1>31, <1>32, <1>33, <1>34, <1>35, <1>36, <1>37
    DEF Step, Call, Allocator, FileWriter, Collector, Resetter, Scanner

LEMMA TokensCoverStep ==
    ASSUME TypeInv, ZoneExclusive, KeptActive, UsedWritten, TokensCover,
           NEW t \in Thread, Step(t) \/ Call(t)
    PROVE  TokensCover'
  <1> USE LimitAssumption DEF TokensCover, TypeInv, TypeOK
  <1>1. LocalTo(t)
    BY StepLocal
  <1>2. /\ OwnClaimed(t) \subseteq Claimed
        /\ Claimed' \subseteq (Claimed \ Held(t)) \union StaysClaimed(t)
    <2>1. \A z \in Zone : z # zone[t] => used'[z] <= used[z]
      BY UsedWrittenZones
    <2>2. TypeOK'
      BY TypeInvStep
    <2> QED BY <1>1, <2>1, <2>2, ClaimedMoves, ZoneFromHand
  <1>3. /\ Owing' \subseteq Owing \union {t}
        /\ t \in Owing <=> Owes(t)
        /\ ~Owes(t)' => Owing' \subseteq Owing \ {t}
    BY <1>1, OwingMoves
  <1>4. /\ IsFiniteSet(Claimed) /\ IsFiniteSet(Claimed')
        /\ IsFiniteSet(Owing) /\ IsFiniteSet(Owing')
    BY FiniteAssumption, ThreadFinite, CardSubset DEF Claimed, Owing
  <1>5. /\ Cardinality(Claimed) \in Nat /\ Cardinality(Claimed') \in Nat
        /\ Cardinality(Owing) \in Nat /\ Cardinality(Owing') \in Nat
    BY <1>4, FS_CardinalityType
  <1>6. Claimed' \subseteq Claimed => Cardinality(Claimed') <= Cardinality(Claimed)
    BY <1>4, CardSubset
  <1>7. Cardinality(Owing') <= Cardinality(Owing) + 1
    BY <1>3, <1>4, CardAdd
  <1>8. Owes(t) /\ ~Owes(t)' => Cardinality(Owing') <= Cardinality(Owing) - 1
    BY <1>3, <1>4, CardRemove
  <1>9. StaysClaimed(t) \subseteq OwnClaimed(t) => Claimed' \subseteq Claimed
    BY <1>2
  <1>10. CASE /\ Owes(t)' => Owes(t)
              /\ StaysClaimed(t) \subseteq OwnClaimed(t)
              /\ active_io_zones' = active_io_zones
    <2>1. Owing' \subseteq Owing
      BY <1>3, <1>10
    <2>2. Cardinality(Owing') <= Cardinality(Owing)
      BY <1>4, <2>1, CardSubset
    <2> QED BY <1>5, <1>6, <1>9, <1>10, <2>2
  <1>11. CASE /\ StaysClaimed(t) \subseteq OwnClaimed(t)
              /\ ActiveTokenAvailable
              /\ active_io_zones' = active_io_zones + 1
    BY <1>5, <1>6, <1>7, <1>9, <1>11 DEF ActiveTokenAvailable
  <1>12. CASE /\ Owes(t) /\ ~Owes(t)'
              /\ StaysClaimed(t) \subseteq OwnClaimed(t)
              /\ active_io_zones' = active_io_zones - 1
    BY <1>5, <1>6, <1>8, <1>9, <1>12
  <1>13. CASE \E z \in OwnClaimed(t) :
                /\ StaysClaimed(t) \subseteq OwnClaimed(t) \ {z}
                /\ active_io_zones' = active_io_zones
    <2>1. PICK z \in OwnClaimed(t) :
            /\ StaysClaimed(t) \subseteq OwnClaimed(t) \ {z}
            /\ active_io_zones' = active_io_zones
      BY <1>13
    <2>2. z \in Claimed /\ Claimed' \subseteq Claimed \ {z}
      BY <1>2, <2>1 DEF OwnClaimed
    <2>3. Cardinality(Claimed') <= Cardinality(Claimed) - 1
      BY <1>4, <2>2, CardRemove
    <2> QED BY <1>5, <1>7, <2>1, <2>3
  <1>14. CASE /\ Owes(t) /\ ~Owes(t)'
              /\ \E z \in Zone : StaysClaimed(t) \subseteq OwnClaimed(t) \union {z}
              /\ active_io_zones' = active_io_zones
    <2>1. PICK z \in Zone : StaysClaimed(t) \subseteq OwnClaimed(t) \union {z}
      BY <1>14
    <2>2. Claimed' \subseteq Claimed \union {z}
      BY <1>2, <2>1
    <2>3. Cardinality(Claimed') <= Cardinality(Claimed) + 1
      BY <1>4, <2>2, CardAdd, Zenon
    <2> QED BY <1>5, <1>8, <1>14, <2>3
  <1> QED BY <1>10, <1>11, <1>12, <1>13, <1>14, ActiveTokenMoves DEF ActiveTokenMove

-----------------------------------------------------------------------------
(* Together.                                                                *)

ActiveInv == Serialized /\ KeptActive /\ UsedWritten /\ TokensCover

LEMMA ActiveInit == Init => ActiveInv
  <1> SUFFICES ASSUME Init PROVE ActiveInv
    OBVIOUS
  <1> USE LimitAssumption, FiniteAssumption
  <1>1. PICK w \in [Zone -> 0..MaxCap] :
          /\ wp = w
          /\ capacity = [z \in Zone |-> MaxCap - w[z]]
          /\ used \in [Zone -> 0..MaxCap]
          /\ \A z \in Zone : used[z] <= w[z]
          /\ active_io_zones = Cardinality({z \in Zone : w[z] \notin {0, MaxCap}})
          /\ active_io_zones <= MaxActive
    BY DEF Init
  <1>2. /\ pc = [t \in Thread |-> "idle"]
        /\ zone = [t \in Thread |-> None]
        /\ pend = [t \in Thread |-> 0]
        /\ mig = NoMigration
    BY DEF Init
  <1>3. Serialized /\ KeptActive
    BY <1>2 DEF Serialized, AllocPc, KeptActive, KeepsActive, WritePc
  <1>4. UsedWritten
    <2>1. \A t \in Thread : WritesFirst(t)
      BY <1>2 DEF WritesFirst
    <2>3. \A z \in Zone : wp[z] = 0 => capacity[z] \in {0, MaxCap}
      BY <1>1
    <2>4. mig.len <= MaxCap
      BY <1>2 DEF NoMigration
    <2> QED BY <2>1, <2>3, <2>4 DEF UsedWritten
  <1>5. TokensCover
    <2>1. Claimed \subseteq {z \in Zone : w[z] \notin {0, MaxCap}}
      BY <1>1, <1>2 DEF Claimed, Taken, IsUsed, IsEmpty, IsFull, ClaimPc, WritePc
    <2>2. Owing = {}
      BY <1>2 DEF Owing, Owes, OwesPc
    <2>3. IsFiniteSet({z \in Zone : w[z] \notin {0, MaxCap}})
      BY CardSubset
    <2>4. /\ Cardinality(Claimed) \in Nat
          /\ Cardinality(Claimed) <= active_io_zones
      BY <1>1, <2>1, <2>3, CardSubset
    <2>5. Cardinality(Owing) = 0
      BY <2>2, FS_EmptySet
    <2> QED BY <1>1, <2>4, <2>5 DEF TokensCover
  <1> QED BY <1>3, <1>4, <1>5 DEF ActiveInv

LEMMA ActiveInvariant == Spec => []ActiveInv
  <1>1. ASSUME ActiveInv, UNCHANGED vars
        PROVE  ActiveInv'
    BY <1>1 DEF ActiveInv, Serialized, KeptActive, KeepsActive, UsedWritten, WritesFirst,
                TokensCover, Claimed, Taken, Owing, Owes, Active, IsUsed, IsEmpty, IsFull,
                vars
  <1>2. ASSUME TypeInv, ZoneExclusive, ActiveInv, NEW t \in Thread, Step(t) \/ Call(t)
        PROVE  ActiveInv'
    BY <1>2, SerializedStep, KeptActiveStep, UsedWrittenStep, TokensCoverStep
    DEF ActiveInv, TypeInv
  <1>3. TypeInv /\ ZoneExclusive /\ ActiveInv /\ [Next]_vars => ActiveInv'
    BY <1>1, <1>2 DEF Next
  <1> QED BY ActiveInit, <1>3, ExclusiveInvariant, PTL DEF Spec

\* GetActiveIOZoneTokenIfAvailable and PutActiveIOZoneToken keep the zones that
\* are written and not full within max_nr_active_io_zones_, whatever finishes,
\* resets, migrations and failed device commands come between.
THEOREM ActiveLimitHolds == Spec => []ActiveZonesBounded
  <1>1. ASSUME TypeInv, TokensCover
        PROVE  ActiveZonesBounded
    <2>1. {z \in Zone : Active(z)} \subseteq Claimed
      BY DEF Claimed, Taken, Active
    <2>2. IsFiniteSet(Claimed) /\ IsFiniteSet(Owing)
      BY FiniteAssumption, ThreadFinite, CardSubset DEF Claimed, Owing
    <2>3. Cardinality({z \in Zone : Active(z)}) <= Cardinality(Claimed)
      BY <2>1, <2>2, CardSubset
    <2>4. /\ Cardinality({z \in Zone : Active(z)}) \in Nat
          /\ Cardinality(Claimed) \in Nat
          /\ Cardinality(Owing) \in Nat
      BY <2>1, <2>2, CardSubset, FS_CardinalityType
    <2> QED BY <1>1, <2>3, <2>4 DEF TokensCover, ActiveZonesBounded, TypeInv, TypeOK
  <1> QED BY <1>1, ActiveInvariant, TypeInvInvariant, PTL DEF ActiveInv
-----------------------------------------------------------------------------
(* No wakeup is lost.                                                       *)

\* Whoever goes to sleep has found no token.  An open token is returned by a
\* thread that owns alloc_mutex_, or by CloseActiveZone, which notifies.
LEMMA SleepOwn ==
    ASSUME TypeOK, NEW t \in Thread, Step(t) \/ Call(t)
    PROVE  /\ pc'[t] = "sleep" /\ pc[t] # "sleep" => open_io_zones' >= AllocatorOpenLimit(t)
           /\ \/ pc[t] \in AllocPc
              \/ open_io_zones' >= open_io_zones
              \/ CloseActiveZonePutOpen(t)
  <1> USE LimitAssumption DEF TypeOK, AllocPc, AllocatorOpenLimit, tokens, ScanPc
  <1>1. CASE AllocateIOZone(t)
    BY <1>1 DEF AllocateIOZone, BeginAllocation, Scan, Goto
  <1>2. CASE ApplyFinishThreshold(t)
    BY <1>2 DEF ApplyFinishThreshold, AllocationFails, Failed, Goto
  <1>3. CASE ApplyFinishThresholdPut(t)
    BY <1>3 DEF ApplyFinishThresholdPut, NotifyOne
  <1>4. CASE ApplyFinishThresholdEnd(t)
    BY <1>4 DEF ApplyFinishThresholdEnd, ScanOver, Goto
  <1>5. CASE WaitForOpenIOZoneToken(t)
    BY <1>5 DEF WaitForOpenIOZoneToken, Scan, Goto
  <1>6. CASE GetBestOpenZoneMatch(t)
    BY <1>6 DEF GetBestOpenZoneMatch
  <1>7. CASE GetBestOpenZoneMatchEnd(t)
    BY <1>7 DEF GetBestOpenZoneMatchEnd, ScanOver, Goto
  <1>8. CASE \E best_diff \in {Good, CouldBeWorse, NotGood} : Decide(t, best_diff)
    BY <1>8 DEF Decide, Allocated, Scan, Goto
  <1>9. CASE GetActiveIOZoneToken(t)
    BY <1>9 DEF GetActiveIOZoneToken, Scan, Goto
  <1>10. CASE FinishCheapestIOZone(t)
    BY <1>10 DEF FinishCheapestIOZone
  <1>11. CASE FinishCheapestIOZoneEnd(t)
    BY <1>11 DEF FinishCheapestIOZoneEnd, ScanOver, AllocationFails, Failed, Goto
  <1>12. CASE FinishCheapestIOZonePut(t)
    BY <1>12 DEF FinishCheapestIOZonePut, NotifyOne
  <1>13. CASE AllocateEmptyZone(t)
    BY <1>13 DEF AllocateEmptyZone
  <1>14. CASE AllocateEmptyZoneEnd(t)
    BY <1>14 DEF AllocateEmptyZoneEnd, Allocated, AllocationFails, Failed, Goto
  <1>15. CASE \E size \in 1..MaxCap : Append(t, size)
    BY <1>15 DEF Append
  <1>16. CASE PushExtent(t)
    BY <1>16 DEF PushExtent
  <1>17. CASE CloseFullZone(t)
    BY <1>17 DEF CloseFullZone, CloseActiveZone, Goto
  <1>18. CASE CloseWR(t)
    BY <1>18 DEF CloseWR, CloseActiveZone, Goto
  <1>19. CASE CloseActiveZonePutOpen(t)
    BY <1>19 DEF CloseActiveZonePutOpen, AfterPut, NotifyOne
  <1>20. CASE CloseActiveZonePutActive(t)
    BY <1>20 DEF CloseActiveZonePutActive, AfterPut, NotifyOne
  <1>21. CASE \E src \in Zone, len \in 1..MaxCap : TakeMigrateZone(t, src, len)
    BY <1>21 DEF TakeMigrateZone, BeginAllocation, Scan, Goto
  <1>22. CASE MigrateData(t)
    BY <1>22 DEF MigrateData, Goto
  <1>23. CASE MigrateAccount(t)
    BY <1>23 DEF MigrateAccount, Goto
  <1>24. CASE ReleaseMigrateZone(t)
    BY <1>24 DEF ReleaseMigrateZone, Goto
  <1>25. CASE SyncFileExtents(t)
    BY <1>25 DEF SyncFileExtents, Scan, Goto
  <1>26. CASE GCWorkerEnd(t)
    BY <1>26 DEF GCWorkerEnd, Goto
  <1>27. CASE ResetUnusedIOZones(t)
    BY <1>27 DEF ResetUnusedIOZones, AfterReset, ResetDone, Goto
  <1>28. CASE ResetUnusedIOZonesPut(t)
    BY <1>28 DEF ResetUnusedIOZonesPut, NotifyOne
  <1>29. CASE ResetUnusedIOZonesEnd(t)
    BY <1>29 DEF ResetUnusedIOZonesEnd, ResetDone, ScanOver, Goto
  <1>30. CASE \E z \in Zone : ScanAcquire(t, z)
    BY <1>30 DEF ScanAcquire
  <1>31. CASE \E z \in Zone : ScanSkip(t, z)
    BY <1>31 DEF ScanSkip
  <1>32. CASE StartAppend(t)
    BY <1>32 DEF StartAppend, Goto
  <1>33. CASE NextAppend(t)
    BY <1>33 DEF NextAppend
  <1>34. CASE \E size \in 0..MaxCap : AppendFails(t, size)
    BY <1>34 DEF AppendFails
  <1>35. CASE GCWorkerStart(t)
    BY <1>35 DEF GCWorkerStart, Goto
  <1>36. CASE \E z \in Zone, len \in 1..MaxCap : ClearExtents(t, z, len)
    BY <1>36 DEF ClearExtents
  <1>37. CASE StartReset(t)
    BY <1>37 DEF StartReset, Scan, Goto
  <1> QED
    BY <1>1, <1>2, <1>3, <1>4, <1>5, <1>6, <1>7, <1>8, <1>9, <1>10, <1>11, <1>12, <1>13, <1>14, <1>15, <1>16, <1>17, <1>18, <1>19, <1>20, <1>21, <1>22, <1>23, <1>24, <1>25, <1>26, <1>27, <1>28, <1>29, <1>30, <1>31, <1>32, <1>33, <1>34, <1>35, <1>36, <1>37
    DEF Step, Call, Allocator, FileWriter, Collector, Resetter, Scanner

\* A thread that sleeps takes no step by itself.
LEMMA AsleepStays ==
    ASSUME NEW t \in Thread, pc[t] = "sleep"
    PROVE  ~(Step(t) \/ Call(t))
  BY DEF Step, Call, Allocator, FileWriter, Collector, Resetter, Scanner, ScanPc, ScanOver,
      AllocateIOZone, ApplyFinishThreshold, ApplyFinishThresholdPut,
      ApplyFinishThresholdEnd, WaitForOpenIOZoneToken, GetBestOpenZoneMatch,
      GetBestOpenZoneMatchEnd, Decide, GetActiveIOZoneToken,
      FinishCheapestIOZone, FinishCheapestIOZoneEnd, FinishCheapestIOZonePut,
      AllocateEmptyZone, AllocateEmptyZoneEnd, Append, PushExtent,
      CloseFullZone, CloseWR, CloseActiveZonePutOpen,
      CloseActiveZonePutActive, TakeMigrateZone, MigrateData, MigrateAccount,
      ReleaseMigrateZone, SyncFileExtents, GCWorkerEnd, ResetUnusedIOZones,
      ResetUnusedIOZonesPut, ResetUnusedIOZonesEnd, ScanAcquire, ScanSkip,
      StartAppend, NextAppend, AppendFails, GCWorkerStart, ClearExtents,
      StartReset

LEMMA NoLostWakeupStep ==
    ASSUME TypeOK, TypeOK', Serialized, NoLostWakeup, NEW t \in Thread, Step(t) \/ Call(t)
    PROVE  NoLostWakeup'
  <1> SUFFICES ASSUME NEW u \in Thread, pc'[u] = "sleep"
               PROVE  open_io_zones' >= AllocatorOpenLimit(u)
    BY DEF NoLostWakeup, AllocatorOpenLimit
  <1>1. LocalTo(t)
    BY StepLocal
  <1>2. open_io_zones \in Int /\ open_io_zones' \in Int /\ AllocatorOpenLimit(u) \in Int
    BY LimitAssumption DEF TypeOK, AllocatorOpenLimit
  <1>3. CASE pc[u] # "sleep"
    <2>1. u = t
      BY <1>1, <1>3 DEF LocalTo
    <2> QED BY <1>3, <2>1, SleepOwn
  <1>4. CASE pc[u] = "sleep"
    <2>1. open_io_zones >= AllocatorOpenLimit(u)
      BY <1>4 DEF NoLostWakeup
    <2>2. alloc_mutex = u
      BY <1>4 DEF Serialized, AllocPc
    <2>3. CASE open_io_zones' >= open_io_zones
      BY <1>2, <2>1, <2>3
    <2>4. CASE pc[t] \in AllocPc /\ ~(open_io_zones' >= open_io_zones)
      <3>1. t = u
        BY <2>2, <2>4 DEF Serialized
      <3>2. ~(Step(t) \/ Call(t))
        BY <1>4, <3>1, AsleepStays
      <3> QED BY <3>2
    <2>5. CASE CloseActiveZonePutOpen(t)
      <3>1. pc[t] = "put_open" /\ u # t
        BY <1>4, <2>5 DEF CloseActiveZonePutOpen
      <3>2. \A s \in Thread : pc[s] = "sleep" => s = u
        BY <2>2 DEF Serialized, AllocPc
      <3> DEFINE p == [pc EXCEPT ![t] = IF full[t] THEN "put_active" ELSE AfterPut(t)]
      <3>3. NotifyOne(p)
        BY <2>5 DEF CloseActiveZonePutOpen
      <3>4. /\ p[t] # "sleep"
            /\ \A s \in Thread : s # t => p[s] = pc[s]
        BY DEF TypeOK, AfterPut
      <3>5. {s \in Thread : p[s] = "sleep"} = {u}
        BY <1>4, <3>1, <3>2, <3>4
      <3> HIDE DEF p
      <3>6. pc' = [p EXCEPT ![u] = "wait"]
        BY <3>3, <3>5 DEF NotifyOne
      <3>7. p \in [Thread -> PcSet]
        BY DEF p, TypeOK, AfterPut, PcSet
      <3>8. pc'[u] = "wait"
        BY <3>6, <3>7
      <3> QED BY <3>8
    <2> QED BY <2>3, <2>4, <2>5, SleepOwn
  <1> QED BY <1>3, <1>4

\* Whoever sleeps for an open token has none to take, for any number of
\* writers, limits and device errors: WaitForOpenIOZoneToken evaluates its
\* condition under zone_resources_mtx_, and the only tokens that are returned
\* without notify_one are returned by the owner of alloc_mutex_.
THEOREM NoWakeupIsLost == Spec => []NoLostWakeup
  <1>1. Init => NoLostWakeup
    BY DEF Init, NoLostWakeup
  <1>2. ASSUME NoLostWakeup, UNCHANGED vars
        PROVE  NoLostWakeup'
    BY <1>2 DEF NoLostWakeup, AllocatorOpenLimit, vars
  <1>3. TypeInv /\ TypeInv' /\ ActiveInv /\ NoLostWakeup /\ [Next]_vars => NoLostWakeup'
    BY <1>2, NoLostWakeupStep DEF Next, ActiveInv, TypeInv
  <1> QED BY <1>1, <1>3, TypeInvInvariant, ActiveInvariant, PTL DEF Spec

-----------------------------------------------------------------------------
(* The tokens that stand for nothing.                                       *)

\* The zones in t's hands that are charged for.
OwnCharged(t) == {z \in Held(t) : Active(z) \/ (zone[t] = z /\ pc[t] \in WritePc)}

\* The zones in t's hands that are charged for after the step.
StaysCharged(t) ==
    {z \in Held(t) : Active(z)' \/ (zone'[t] = z /\ pc'[t] \in WritePc)}

LEMMA ChargedMoves ==
    ASSUME TypeInv, ZoneExclusive, NEW t \in Thread, LocalTo(t),
           zone'[t] \in Held(t) \union {None}
    PROVE  /\ OwnCharged(t) \subseteq Charged
           /\ Charged' \subseteq (Charged \ Held(t)) \union StaysCharged(t)
  <1> USE FiniteAssumption DEF TypeInv, TypeOK
  <1>1. OwnCharged(t) \subseteq Charged
    BY DEF OwnCharged, Charged, Held
  <1>2. ASSUME NEW z \in Zone, z \in Held(t), z \in Charged'
        PROVE  z \in StaysCharged(t)
    <2>1. \A u \in Thread : u # t => zone'[u] # z
      <3> SUFFICES ASSUME NEW u \in Thread, u # t PROVE zone[u] # z
        BY DEF LocalTo
      <3>1. zone[u] = z => z \in Held(u)
        BY DEF Held
      <3>2. Held(t) \intersect Held(u) = {}
        BY DEF ZoneExclusive
      <3> QED BY <1>2, <3>1, <3>2
    <2> QED BY <1>2, <2>1 DEF Charged, StaysCharged
  <1>3. ASSUME NEW z \in Zone, z \notin Held(t), z \in Charged'
        PROVE  z \in Charged
    <2>1. Active(z)' = Active(z)
      BY <1>3 DEF LocalTo, Active, IsEmpty, IsFull, Held
    <2>2. \A u \in Thread : zone'[u] = z /\ pc'[u] \in WritePc
                             => zone[u] = z /\ pc[u] \in WritePc
      BY <1>3 DEF LocalTo, WritePc
    <2> QED BY <1>3, <2>1, <2>2 DEF Charged
  <1>4. Charged' \subseteq Zone
    BY DEF Charged
  <1> QED BY <1>1, <1>2, <1>3, <1>4

\* What a step does to the tokens, exactly.
ActiveTokenExactMove(t) ==
    \/ /\ Owes(t)' = Owes(t)
       /\ StaysCharged(t) = OwnCharged(t)
       /\ active_io_zones' = active_io_zones
    \/ /\ ~Owes(t) /\ Owes(t)'
       /\ StaysCharged(t) = OwnCharged(t)
       /\ active_io_zones' = active_io_zones + 1
    \/ /\ Owes(t) /\ ~Owes(t)'
       /\ StaysCharged(t) = OwnCharged(t)
       /\ active_io_zones' = active_io_zones - 1
    \/ /\ ~Owes(t) /\ Owes(t)'
       /\ \E z \in OwnCharged(t) : StaysCharged(t) = OwnCharged(t) \ {z}
       /\ active_io_zones' = active_io_zones
    \/ /\ Owes(t) /\ ~Owes(t)'
       /\ \E z \in Held(t) \ OwnCharged(t) : StaysCharged(t) = OwnCharged(t) \union {z}
       /\ active_io_zones' = active_io_zones
    \/ /\ Owes(t)' = Owes(t)
       /\ \E z \in OwnCharged(t) : StaysCharged(t) = OwnCharged(t) \ {z}
       /\ active_io_zones' = active_io_zones
       /\ GivesUpUnwritten(t)
    \/ /\ Owes(t)' = Owes(t)
       /\ \E z \in Held(t) \ OwnCharged(t) : StaysCharged(t) = OwnCharged(t) \union {z}
       /\ active_io_zones' = active_io_zones
       /\ TakesUnwritten(t)

\* A thread gives its zone back: full, it owes the token; unwritten, the token
\* is lost; otherwise the zone stays active.
LEMMA GivesBack ==
    ASSUME TypeInv, NEW t \in Thread, zone[t] \in Zone, pc[t] \in {"write", "release"},
           zone' = [zone EXCEPT ![t] = None], wp' = wp, capacity' = capacity,
           active_io_zones' = active_io_zones,
           \/ /\ pc' = [pc EXCEPT ![t] = "put_open"]
              /\ full' = [full EXCEPT ![t] = IsFull(zone[t])]
           \/ /\ Active(zone[t])
              /\ pc' = [pc EXCEPT ![t] = "sync"] \/ pc' = [pc EXCEPT ![t] = "idle"]
              /\ full' = full
    PROVE  ActiveTokenExactMove(t)
  <1> USE FiniteAssumption
  <1> USE DEF TypeInv, TypeOK, StaysCharged, OwnCharged, Owes, OwesPc, WritePc, Held, Active,
              IsEmpty, IsFull
  <1>1. zone[t] \in OwnCharged(t) /\ ~Owes(t) /\ zone'[t] = None
    OBVIOUS
  <1>2. CASE IsFull(zone[t])
    <2>1. full'[t] = TRUE /\ pc'[t] = "put_open"
      BY <1>2
    <2>2. Owes(t)'
      BY <2>1
    <2>3. StaysCharged(t) = OwnCharged(t) \ {zone[t]}
      BY <1>2
    <2> QED BY <1>1, <2>2, <2>3 DEF ActiveTokenExactMove
  <1>3. CASE ~IsFull(zone[t]) /\ IsEmpty(zone[t])
    <2>1. full'[t] = FALSE /\ pc'[t] = "put_open"
      BY <1>3
    <2>2. ~Owes(t)'
      BY <2>1
    <2>3. StaysCharged(t) = OwnCharged(t) \ {zone[t]}
      BY <1>3
    <2>4. GivesUpUnwritten(t)
      BY <1>1, <1>3 DEF GivesUpUnwritten
    <2> QED BY <1>1, <2>2, <2>3, <2>4 DEF ActiveTokenExactMove
  <1>4. CASE Active(zone[t])
    <2>1. /\ pc'[t] \in {"put_open", "sync", "idle"}
          /\ pc'[t] = "put_open" => full'[t] = FALSE
      BY <1>4
    <2>2. ~Owes(t)'
      BY <2>1
    <2>3. StaysCharged(t) = OwnCharged(t)
      BY <1>4
    <2> QED BY <1>1, <2>2, <2>3 DEF ActiveTokenExactMove
  <1> QED BY <1>2, <1>3, <1>4

LEMMA ActiveTokenExactMoves ==
    ASSUME TypeInv, ZoneExclusive, KeptActive, NEW t \in Thread, Step(t) \/ Call(t)
    PROVE  ActiveTokenExactMove(t)
  <1> USE LimitAssumption, FiniteAssumption
  <1> USE DEF TypeInv, TypeOK, ZoneInHand, KeptActive, KeepsActive,
              ActiveTokenExactMove, StaysCharged, OwnCharged, Owes, OwesPc, WritePc,
              Held, Active, IsEmpty, IsFull, zones, tokens, writing,
              GivesUpUnwritten, TakesUnwritten
  <1>1. CASE AllocateIOZone(t)
    BY <1>1 DEF AllocateIOZone, BeginAllocation, Scan, Goto
  <1>2. CASE ApplyFinishThreshold(t)
    BY <1>2 DEF ApplyFinishThreshold, Finish, AllocationFails, Failed, ReleaseCur, Goto, Fault
  <1>3. CASE ApplyFinishThresholdPut(t)
    BY <1>3 DEF ApplyFinishThresholdPut, NotifyOne, PutActiveIOZoneToken
  <1>4. CASE ApplyFinishThresholdEnd(t)
    BY <1>4 DEF ApplyFinishThresholdEnd, ScanOver, Goto
  <1>5. CASE WaitForOpenIOZoneToken(t)
    BY <1>5 DEF WaitForOpenIOZoneToken, Scan, Goto
  <1>6. CASE GetBestOpenZoneMatch(t)
    BY <1>6 DEF GetBestOpenZoneMatch, KeepCur, ReleaseCur, Candidate, IsUsed
  <1>7. CASE GetBestOpenZoneMatchEnd(t)
    BY <1>7 DEF GetBestOpenZoneMatchEnd, ScanOver, Goto
  <1>8. CASE \E best_diff \in {Good, CouldBeWorse, NotGood} : Decide(t, best_diff)
    <2>1. /\ pc[t] = "decide" /\ capacity' = capacity /\ wp' = wp
          /\ cur' = cur /\ full' = full
          /\ \/ /\ zone[t] # None /\ zone' = zone
                /\ pc' = [pc EXCEPT ![t] = Allocated(t)]
                /\ active_io_zones' = active_io_zones
             \/ /\ zone' = [zone EXCEPT ![t] = None]
                /\ \/ /\ active_io_zones' = active_io_zones + 1
                      /\ pc' = [pc EXCEPT ![t] = "empty"]
                   \/ /\ active_io_zones' = active_io_zones
                      /\ pc' = [pc EXCEPT ![t] = "token"]
      BY <1>8 DEF Decide, Scan, Goto
    <2>2. ~Owes(t) /\ (zone[t] # None => zone[t] \in Zone /\ ~IsFull(zone[t]))
      BY <2>1
    <2>3. CASE /\ zone[t] # None /\ zone' = zone
               /\ pc' = [pc EXCEPT ![t] = Allocated(t)]
               /\ active_io_zones' = active_io_zones
      <3>1. pc'[t] \in {"write", "migrate"} /\ ~Owes(t)'
        BY <2>3 DEF Allocated
      <3>2. CASE IsEmpty(zone[t])
        <4>1. zone[t] \in Held(t) \ OwnCharged(t)
          BY <2>1, <2>2, <2>3, <3>2
        <4>2. StaysCharged(t) = OwnCharged(t) \union {zone[t]}
          BY <2>1, <2>2, <2>3, <3>1, <3>2
        <4> QED BY <2>1, <2>2, <2>3, <3>1, <3>2, <4>1, <4>2
      <3>3. CASE ~IsEmpty(zone[t])
        <4>1. StaysCharged(t) = OwnCharged(t)
          BY <2>1, <2>2, <2>3, <3>1, <3>3
        <4> QED BY <2>2, <2>3, <3>1, <4>1
      <3> QED BY <3>2, <3>3
    <2>4. CASE /\ zone' = [zone EXCEPT ![t] = None]
               /\ \/ /\ active_io_zones' = active_io_zones + 1
                     /\ pc' = [pc EXCEPT ![t] = "empty"]
                  \/ /\ active_io_zones' = active_io_zones
                     /\ pc' = [pc EXCEPT ![t] = "token"]
      <3>1. StaysCharged(t) = OwnCharged(t)
        BY <2>1, <2>2, <2>4
      <3> QED BY <2>1, <2>2, <2>4, <3>1
    <2> QED BY <2>1, <2>3, <2>4
  <1>9. CASE GetActiveIOZoneToken(t)
    BY <1>9 DEF GetActiveIOZoneToken, Scan, Goto
  <1>10. CASE FinishCheapestIOZone(t)
    BY <1>10 DEF FinishCheapestIOZone, KeepCur, ReleaseCur
  <1>11. CASE FinishCheapestIOZoneEnd(t)
    BY <1>11 DEF FinishCheapestIOZoneEnd, ScanOver, Finish, AllocationFails, Failed, Goto, Fault
  <1>12. CASE FinishCheapestIOZonePut(t)
    BY <1>12 DEF FinishCheapestIOZonePut, NotifyOne, PutActiveIOZoneToken
  <1>13. CASE AllocateEmptyZone(t)
    BY <1>13 DEF AllocateEmptyZone, KeepCur, ReleaseCur
  <1>14. CASE AllocateEmptyZoneEnd(t)
    BY <1>14 DEF AllocateEmptyZoneEnd, Allocated, AllocationFails, Failed, Goto, ReturnTokens, PutOpenIOZoneToken, PutActiveIOZoneToken
  <1>15. CASE \E size \in 1..MaxCap : Append(t, size)
    BY <1>15 DEF Append, Fits
  <1>16. CASE PushExtent(t)
    BY <1>16 DEF PushExtent
  <1>17. CASE CloseFullZone(t)
    <2>1. /\ zone[t] \in Zone /\ pc[t] = "write"
          /\ zone' = [zone EXCEPT ![t] = None]
          /\ wp' = wp /\ capacity' = capacity /\ active_io_zones' = active_io_zones
          /\ \/ /\ pc' = [pc EXCEPT ![t] = "put_open"]
                /\ full' = [full EXCEPT ![t] = IsFull(zone[t])]
             \/ /\ Active(zone[t])
                /\ pc' = [pc EXCEPT ![t] = "idle"]
                /\ full' = full
      BY <1>17 DEF CloseFullZone, CloseActiveZone, Goto
    <2> QED BY <2>1, GivesBack
  <1>18. CASE CloseWR(t)
    <2>1. /\ zone[t] \in Zone /\ pc[t] = "write"
          /\ zone' = [zone EXCEPT ![t] = None]
          /\ wp' = wp /\ capacity' = capacity /\ active_io_zones' = active_io_zones
          /\ \/ /\ pc' = [pc EXCEPT ![t] = "put_open"]
                /\ full' = [full EXCEPT ![t] = IsFull(zone[t])]
             \/ /\ Active(zone[t])
                /\ pc' = [pc EXCEPT ![t] = "idle"]
                /\ full' = full
      BY <1>18 DEF CloseWR, CloseActiveZone, Goto
    <2> QED BY <2>1, GivesBack
  <1>19. CASE CloseActiveZonePutOpen(t)
    BY <1>19 DEF CloseActiveZonePutOpen, AfterPut, NotifyOne, PutOpenIOZoneToken
  <1>20. CASE CloseActiveZonePutActive(t)
    BY <1>20 DEF CloseActiveZonePutActive, AfterPut, NotifyOne, PutActiveIOZoneToken
  <1>21. CASE \E src \in Zone, len \in 1..MaxCap : TakeMigrateZone(t, src, len)
    BY <1>21 DEF TakeMigrateZone, BeginAllocation, Scan, Goto
  <1>22. CASE MigrateData(t)
    BY <1>22 DEF MigrateData, Goto, Fault
  <1>23. CASE MigrateAccount(t)
    BY <1>23 DEF MigrateAccount, Goto
  <1>24. CASE ReleaseMigrateZone(t)
    <2>1. /\ zone[t] \in Zone /\ pc[t] = "release"
          /\ zone' = [zone EXCEPT ![t] = None]
          /\ wp' = wp /\ capacity' = capacity /\ active_io_zones' = active_io_zones
          /\ \/ /\ pc' = [pc EXCEPT ![t] = "put_open"]
                /\ full' = [full EXCEPT ![t] = IsFull(zone[t])]
             \/ /\ Active(zone[t])
                /\ pc' = [pc EXCEPT ![t] = "sync"]
                /\ full' = full
      BY <1>24 DEF ReleaseMigrateZone, Goto
    <2> QED BY <2>1, GivesBack
  <1>25. CASE SyncFileExtents(t)
    BY <1>25 DEF SyncFileExtents, Scan, Goto, Fault
  <1>26. CASE GCWorkerEnd(t)
    BY <1>26 DEF GCWorkerEnd, Goto
  <1>27. CASE ResetUnusedIOZones(t)
    BY <1>27 DEF ResetUnusedIOZones, Reset, AfterReset, ResetDone, ReleaseCur, Goto, Fault, Dead
  <1>28. CASE ResetUnusedIOZonesPut(t)
    BY <1>28 DEF ResetUnusedIOZonesPut, NotifyOne, PutActiveIOZoneToken
  <1>29. CASE ResetUnusedIOZonesEnd(t)
    BY <1>29 DEF ResetUnusedIOZonesEnd, ResetDone, ScanOver, Goto
  <1>30. CASE \E z \in Zone : ScanAcquire(t, z)
    BY <1>30 DEF ScanAcquire
  <1>31. CASE \E z \in Zone : ScanSkip(t, z)
    BY <1>31 DEF ScanSkip
  <1>32. CASE StartAppend(t)
    BY <1>32 DEF StartAppend, Goto
  <1>33. CASE NextAppend(t)
    BY <1>33 DEF NextAppend
  <1>34. CASE \E size \in 0..MaxCap : AppendFails(t, size)
    BY <1>34 DEF AppendFails, Fault
  <1>35. CASE GCWorkerStart(t)
    BY <1>35 DEF GCWorkerStart, Goto
  <1>36. CASE \E z \in Zone, len \in 1..MaxCap : ClearExtents(t, z, len)
    BY <1>36 DEF ClearExtents
  <1>37. CASE StartReset(t)
    BY <1>37 DEF StartReset, Scan, Goto
  <1> QED
    BY <1>1, <1>2, <1>3, <1>4, <1>5, <1>6, <1>7, <1>8, <1>9, <1>10, <1>11, <1>12, <1>13, <1>14, <1>15, <1>16, <1>17, <1>18, <1>19, <1>20, <1>21, <1>22, <1>23, <1>24, <1>25, <1>26, <1>27, <1>28, <1>29, <1>30, <1>31, <1>32, <1>33, <1>34, <1>35, <1>36, <1>37
    DEF Step, Call, Allocator, FileWriter, Collector, Resetter, Scanner

LEMMA ChargedMovesExactly ==
    ASSUME TypeInv, ZoneExclusive, NEW t \in Thread, LocalTo(t)
    PROVE  /\ Charged \intersect Held(t) = OwnCharged(t)
           /\ (Charged \ Held(t)) \union StaysCharged(t) \subseteq Charged'
  <1> USE FiniteAssumption DEF TypeInv, TypeOK
  <1>1. ASSUME NEW z \in Zone, z \in Held(t), z \in Charged
        PROVE  z \in OwnCharged(t)
    <2>1. \A u \in Thread : u # t => zone[u] # z
      <3> SUFFICES ASSUME NEW u \in Thread, u # t PROVE zone[u] # z
        OBVIOUS
      <3>1. zone[u] = z => z \in Held(u)
        BY DEF Held
      <3>2. Held(t) \intersect Held(u) = {}
        BY DEF ZoneExclusive
      <3> QED BY <1>1, <3>1, <3>2
    <2> QED BY <1>1, <2>1 DEF Charged, OwnCharged
  <1>2. OwnCharged(t) \subseteq Charged \intersect Held(t)
    BY DEF OwnCharged, Charged, Held
  <1>3. Charged \subseteq Zone
    BY DEF Charged
  <1>4. ASSUME NEW z \in Charged, z \notin Held(t)
        PROVE  z \in Charged'
    <2>1. z \in Zone /\ Active(z)' = Active(z)
      BY <1>3, <1>4 DEF LocalTo, Active, IsEmpty, IsFull, Held
    <2>2. ASSUME NEW u \in Thread, zone[u] = z, pc[u] \in WritePc
          PROVE  zone'[u] = z /\ pc'[u] \in WritePc
      <3>1. u # t
        BY <1>4, <2>1, <2>2 DEF Held
      <3> QED BY <2>2, <3>1 DEF LocalTo, WritePc
    <2> QED BY <1>4, <2>1, <2>2 DEF Charged
  <1>5. StaysCharged(t) \subseteq Charged'
    BY DEF StaysCharged, Charged, Held
  <1> QED BY <1>1, <1>2, <1>3, <1>4, <1>5

\* One step: the tokens that stand for nothing stay as many, unless a zone is
\* given up or taken unwritten.
LEMMA LostStep ==
    ASSUME TypeInv, ZoneExclusive, KeptActive, NEW t \in Thread, Step(t) \/ Call(t)
    PROVE  \/ Lost' = Lost
           \/ Lost' = Lost + 1 /\ GivesUpUnwritten(t)
           \/ Lost' = Lost - 1 /\ TakesUnwritten(t)
  <1> USE DEF Lost
  <1>3. LocalTo(t)
    BY StepLocal DEF TypeInv
  <1>4. Charged' = (Charged \ OwnCharged(t)) \union StaysCharged(t)
    <2>1. /\ Charged' \subseteq (Charged \ Held(t)) \union StaysCharged(t)
          /\ Charged \intersect Held(t) = OwnCharged(t)
          /\ (Charged \ Held(t)) \union StaysCharged(t) \subseteq Charged'
      BY <1>3, ChargedMoves, ChargedMovesExactly, ZoneFromHand
    <2> QED BY <2>1
  <1>5. OwnCharged(t) \subseteq Charged
    BY <1>3, ChargedMovesExactly
  <1>6. \A z \in Held(t) \ OwnCharged(t) : z \notin Charged
    BY <1>3, ChargedMovesExactly
  <1>7. /\ Owes(t)' = Owes(t) => Owing' = Owing
        /\ ~Owes(t) /\ Owes(t)' => t \notin Owing /\ Owing' = Owing \union {t}
        /\ Owes(t) /\ ~Owes(t)' => t \in Owing /\ Owing' = Owing \ {t}
    <2>1. \A u \in Thread : u # t => Owes(u)' = Owes(u)
      BY <1>3 DEF TypeInv, TypeOK, LocalTo, Owes, OwesPc
    <2> QED BY <2>1 DEF Owing
  <1>8. IsFiniteSet(Charged) /\ IsFiniteSet(Owing)
    BY FiniteAssumption, ThreadFinite, CardSubset DEF Charged, Owing
  <1>9. Cardinality(Charged) \in Nat /\ Cardinality(Owing) \in Nat /\ active_io_zones \in Int
    BY <1>8, FS_CardinalityType DEF TypeInv, TypeOK
  <1>10. ~Owes(t) /\ Owes(t)' => Cardinality(Owing') = Cardinality(Owing) + 1
    BY <1>7, <1>8, FS_AddElement
  <1>11. Owes(t) /\ ~Owes(t)' => Cardinality(Owing') = Cardinality(Owing) - 1
    BY <1>7, <1>8, FS_RemoveElement
  <1>12. StaysCharged(t) = OwnCharged(t) => Charged' = Charged
    BY <1>4, <1>5
  <1>13. ActiveTokenExactMove(t)
    BY ActiveTokenExactMoves
  <1>14. CASE /\ Owes(t)' = Owes(t)
             /\ StaysCharged(t) = OwnCharged(t)
             /\ active_io_zones' = active_io_zones
    BY <1>9, <1>7, <1>12, <1>14
  <1>15. CASE /\ ~Owes(t) /\ Owes(t)'
             /\ StaysCharged(t) = OwnCharged(t)
             /\ active_io_zones' = active_io_zones + 1
    BY <1>9, <1>10, <1>12, <1>15
  <1>16. CASE /\ Owes(t) /\ ~Owes(t)'
             /\ StaysCharged(t) = OwnCharged(t)
             /\ active_io_zones' = active_io_zones - 1
    BY <1>9, <1>11, <1>12, <1>16
  <1>17. CASE /\ ~Owes(t) /\ Owes(t)'
             /\ \E z \in OwnCharged(t) : StaysCharged(t) = OwnCharged(t) \ {z}
             /\ active_io_zones' = active_io_zones
    <2>1. PICK z \in OwnCharged(t) : StaysCharged(t) = OwnCharged(t) \ {z}
      BY <1>17
    <2>2. z \in Charged /\ Charged' = Charged \ {z}
      BY <1>4, <1>5, <2>1
    <2>3. Cardinality(Charged') = Cardinality(Charged) - 1
      BY <1>8, <2>2, FS_RemoveElement
    <2> QED BY <1>9, <1>10, <1>17, <2>3
  <1>18. CASE /\ Owes(t) /\ ~Owes(t)'
             /\ \E z \in Held(t) \ OwnCharged(t) :
                   StaysCharged(t) = OwnCharged(t) \union {z}
             /\ active_io_zones' = active_io_zones
    <2>1. PICK z \in Held(t) \ OwnCharged(t) :
                 StaysCharged(t) = OwnCharged(t) \union {z}
      BY <1>18
    <2>2. z \notin Charged /\ Charged' = Charged \union {z}
      BY <1>4, <1>5, <1>6, <2>1
    <2>3. Cardinality(Charged') = Cardinality(Charged) + 1
      BY <1>8, <2>2, FS_AddElement
    <2> QED BY <1>9, <1>11, <1>18, <2>3
  <1>19. CASE /\ Owes(t)' = Owes(t)
             /\ \E z \in OwnCharged(t) : StaysCharged(t) = OwnCharged(t) \ {z}
             /\ active_io_zones' = active_io_zones
             /\ GivesUpUnwritten(t)
    <2>1. PICK z \in OwnCharged(t) : StaysCharged(t) = OwnCharged(t) \ {z}
      BY <1>19
    <2>2. z \in Charged /\ Charged' = Charged \ {z}
      BY <1>4, <1>5, <2>1
    <2>3. Cardinality(Charged') = Cardinality(Charged) - 1
      BY <1>8, <2>2, FS_RemoveElement
    <2> QED BY <1>7, <1>9, <1>19, <2>3
  <1>20. CASE /\ Owes(t)' = Owes(t)
             /\ \E z \in Held(t) \ OwnCharged(t) :
                   StaysCharged(t) = OwnCharged(t) \union {z}
             /\ active_io_zones' = active_io_zones
             /\ TakesUnwritten(t)
    <2>1. PICK z \in Held(t) \ OwnCharged(t) :
                 StaysCharged(t) = OwnCharged(t) \union {z}
      BY <1>20
    <2>2. z \notin Charged /\ Charged' = Charged \union {z}
      BY <1>4, <1>5, <1>6, <2>1
    <2>3. Cardinality(Charged') = Cardinality(Charged) + 1
      BY <1>8, <2>2, FS_AddElement
    <2> QED BY <1>7, <1>9, <1>20, <2>3
  <1> QED BY <1>13, <1>14, <1>15, <1>16, <1>17, <1>18, <1>19, <1>20 DEF ActiveTokenExactMove

\* Every active token that is taken is returned exactly once, when its zone is
\* full, finished or reset, for any files, buffered or not, and whichever device
\* commands fail.  The one way to lose a token is to give a zone back that nothing
\* was written to; the one way to find it again is to get such a zone as a match.
THEOREM ActiveTokensAccounted == Spec => TokensAccounted
  <1> DEFINE A == \/ Lost' = Lost
                  \/ Lost' = Lost + 1 /\ \E t \in Thread : GivesUpUnwritten(t)
                  \/ Lost' = Lost - 1 /\ \E t \in Thread : TakesUnwritten(t)
  <1>1. ASSUME TypeInv, ZoneExclusive, ActiveInv, NEW t \in Thread, Step(t) \/ Call(t)
        PROVE  A
    BY <1>1, LostStep DEF ActiveInv
  <1>2. TypeInv /\ ZoneExclusive /\ ActiveInv /\ [Next]_vars => [A]_vars
    BY <1>1 DEF Next
  <1> QED BY <1>2, ExclusiveInvariant, ActiveInvariant, PTL DEF Spec, TokensAccounted

-----------------------------------------------------------------------------
(* Live data is in blocks that were written.                                *)

\* The GC has a zone with room for the whole extent, if it asked for that much
\* and the zone is not offline.
Roomy(t) ==
    /\ t \in Gc
    /\ pc[t] \in {"match", "decide", "empty", "migrate"}
    /\ zone[t] # None
    /\ ~KeylessFiles
    => mig.len <= capacity[zone[t]] \/ capacity[zone[t]] = 0

AllRoomy == \A t \in Thread : Roomy(t)

LEMMA RoomyOwn ==
    ASSUME TypeInv, KeptActive, UsedWritten, AllRoomy,
           NEW t \in Thread, Step(t) \/ Call(t)
    PROVE  Roomy(t)'
  <1> USE ThreadAssumption, LimitAssumption, FiniteAssumption
  <1> USE DEF TypeInv, TypeOK, ZoneInHand, KeptActive, KeepsActive, WritePc,
              UsedWritten, WritesFirst, AllRoomy, Roomy, zones, writing
  <1>1. CASE AllocateIOZone(t)
    BY <1>1 DEF AllocateIOZone, BeginAllocation, Scan, Goto
  <1>2. CASE ApplyFinishThreshold(t)
    BY <1>2 DEF ApplyFinishThreshold, Finish, AllocationFails, Failed, ReleaseCur, Goto, Fault, DropMigration, NoMigration
  <1>3. CASE ApplyFinishThresholdPut(t)
    BY <1>3 DEF ApplyFinishThresholdPut, NotifyOne
  <1>4. CASE ApplyFinishThresholdEnd(t)
    BY <1>4 DEF ApplyFinishThresholdEnd, ScanOver, Goto
  <1>5. CASE WaitForOpenIOZoneToken(t)
    BY <1>5 DEF WaitForOpenIOZoneToken, Scan, Goto
  <1>6. CASE GetBestOpenZoneMatch(t)
    BY <1>6 DEF GetBestOpenZoneMatch, KeepCur, ReleaseCur, Candidate, IsUsed, MinCapacity
  <1>7. CASE GetBestOpenZoneMatchEnd(t)
    BY <1>7 DEF GetBestOpenZoneMatchEnd, ScanOver, Goto
  <1>8. CASE \E best_diff \in {Good, CouldBeWorse, NotGood} : Decide(t, best_diff)
    BY <1>8 DEF Decide, Allocated, Scan, Goto
  <1>9. CASE GetActiveIOZoneToken(t)
    BY <1>9 DEF GetActiveIOZoneToken, Scan, Goto
  <1>10. CASE FinishCheapestIOZone(t)
    BY <1>10 DEF FinishCheapestIOZone, KeepCur, ReleaseCur
  <1>11. CASE FinishCheapestIOZoneEnd(t)
    BY <1>11 DEF FinishCheapestIOZoneEnd, ScanOver, Finish, AllocationFails, Failed, Goto, Fault, DropMigration, NoMigration
  <1>12. CASE FinishCheapestIOZonePut(t)
    BY <1>12 DEF FinishCheapestIOZonePut, NotifyOne
  <1>13. CASE AllocateEmptyZone(t)
    BY <1>13 DEF AllocateEmptyZone, KeepCur, ReleaseCur, IsEmpty
  <1>14. CASE AllocateEmptyZoneEnd(t)
    BY <1>14 DEF AllocateEmptyZoneEnd, Allocated, AllocationFails, Failed, Goto, DropMigration, NoMigration
  <1>15. CASE \E size \in 1..MaxCap : Append(t, size)
    BY <1>15 DEF Append, Fits
  <1>16. CASE PushExtent(t)
    BY <1>16 DEF PushExtent
  <1>17. CASE CloseFullZone(t)
    BY <1>17 DEF CloseFullZone, CloseActiveZone, Goto
  <1>18. CASE CloseWR(t)
    BY <1>18 DEF CloseWR, CloseActiveZone, Goto
  <1>19. CASE CloseActiveZonePutOpen(t)
    BY <1>19 DEF CloseActiveZonePutOpen, AfterPut, NotifyOne
  <1>20. CASE CloseActiveZonePutActive(t)
    BY <1>20 DEF CloseActiveZonePutActive, AfterPut, NotifyOne
  <1>21. CASE \E src \in Zone, len \in 1..MaxCap : TakeMigrateZone(t, src, len)
    BY <1>21 DEF TakeMigrateZone, BeginAllocation, Scan, Goto
  <1>22. CASE MigrateData(t)
    BY <1>22 DEF MigrateData, Goto, Fault
  <1>23. CASE MigrateAccount(t)
    BY <1>23 DEF MigrateAccount, Goto, NoMigration
  <1>24. CASE ReleaseMigrateZone(t)
    BY <1>24 DEF ReleaseMigrateZone, Goto
  <1>25. CASE SyncFileExtents(t)
    BY <1>25 DEF SyncFileExtents, Scan, Goto, NoMigration, Fault
  <1>26. CASE GCWorkerEnd(t)
    BY <1>26 DEF GCWorkerEnd, Goto
  <1>27. CASE ResetUnusedIOZones(t)
    BY <1>27 DEF ResetUnusedIOZones, Reset, AfterReset, ResetDone, ReleaseCur, Goto, Fault
  <1>28. CASE ResetUnusedIOZonesPut(t)
    BY <1>28 DEF ResetUnusedIOZonesPut, NotifyOne
  <1>29. CASE ResetUnusedIOZonesEnd(t)
    BY <1>29 DEF ResetUnusedIOZonesEnd, ResetDone, ScanOver, Goto
  <1>30. CASE \E z \in Zone : ScanAcquire(t, z)
    BY <1>30 DEF ScanAcquire
  <1>31. CASE \E z \in Zone : ScanSkip(t, z)
    BY <1>31 DEF ScanSkip
  <1>32. CASE StartAppend(t)
    BY <1>32 DEF StartAppend, Goto
  <1>33. CASE NextAppend(t)
    BY <1>33 DEF NextAppend
  <1>34. CASE \E size \in 0..MaxCap : AppendFails(t, size)
    BY <1>34 DEF AppendFails
  <1>35. CASE GCWorkerStart(t)
    BY <1>35 DEF GCWorkerStart, Goto
  <1>36. CASE \E z \in Zone, len \in 1..MaxCap : ClearExtents(t, z, len)
    BY <1>36 DEF ClearExtents
  <1>37. CASE StartReset(t)
    BY <1>37 DEF StartReset, Scan, Goto
  <1> QED
    BY <1>1, <1>2, <1>3, <1>4, <1>5, <1>6, <1>7, <1>8, <1>9, <1>10, <1>11, <1>12, <1>13, <1>14, <1>15, <1>16, <1>17, <1>18, <1>19, <1>20, <1>21, <1>22, <1>23, <1>24, <1>25, <1>26, <1>27, <1>28, <1>29, <1>30, <1>31, <1>32, <1>33, <1>34, <1>35, <1>36, <1>37
    DEF Step, Call, Allocator, FileWriter, Collector, Resetter, Scanner

LEMMA RoomyStep ==
    ASSUME TypeInv, ZoneExclusive, Serialized, KeptActive, UsedWritten, AllRoomy,
           NEW t \in Thread, Step(t) \/ Call(t)
    PROVE  AllRoomy'
  <1>1. LocalTo(t)
    BY StepLocal DEF TypeInv
  <1>2. \/ mig'.len \in {0, mig.len}
        \/ t \in Gc /\ pc[t] = "gc"
    BY UsedWrittenZones
  <1>3. TypeOK /\ TypeOK'
    BY TypeInvStep DEF TypeInv
  <1>4. ASSUME NEW u \in Thread, u # t
        PROVE  Roomy(u)'
    <2>1. Roomy(u)
      BY DEF AllRoomy
    <2>2. CASE zone[u] = None
      BY <1>1, <1>4, <2>2 DEF LocalTo, Roomy
    <2>3. CASE zone[u] # None
      <3>1. /\ zone'[u] = zone[u] /\ zone[u] \in Zone
            /\ capacity'[zone[u]] = capacity[zone[u]]
        BY <1>1, <1>4, <2>3, OthersKept DEF TypeInv
      <3>2. u \in Gc /\ pc[u] # "idle" => mig'.len <= mig.len
        BY <1>2, <1>3, <1>4 DEF Serialized, TypeOK
      <3>3. capacity[zone[u]] \in Nat /\ mig.len \in Nat /\ mig'.len \in Nat
        BY <1>3, <3>1 DEF TypeOK
      <3>4. pc'[u] = pc[u] \/ pc'[u] = "wait"
        BY <1>1, <1>4 DEF LocalTo
      <3> QED BY <2>1, <2>3, <3>1, <3>2, <3>3, <3>4 DEF Roomy
    <2> QED BY <2>2, <2>3
  <1> QED BY <1>4, RoomyOwn DEF AllRoomy

LEMMA RoomyInvariant == Spec => []AllRoomy
  <1>1. Init => AllRoomy
    BY DEF Init, AllRoomy, Roomy
  <1>2. ASSUME AllRoomy, UNCHANGED vars
        PROVE  AllRoomy'
    BY <1>2 DEF AllRoomy, Roomy, vars
  <1>3. TypeInv /\ ZoneExclusive /\ ActiveInv /\ AllRoomy /\ [Next]_vars => AllRoomy'
    BY <1>2, RoomyStep DEF Next, ActiveInv
  <1> QED BY <1>1, <1>3, ActiveInvariant, ExclusiveInvariant, PTL DEF Spec

\* Zone z, as far as thread t is concerned.
CoveredBy(t, z) ==
    used[z] <= wp[z] /\ (zone[t] = z => used[z] + Unbooked(t) <= wp[z])

LEMMA CoveredOwn ==
    ASSUME TypeInv, KeptActive, UsedWritten, AllRoomy,
           NEW t \in Thread, Step(t) \/ Call(t),
           NEW z \in Zone, CoveredBy(t, z), ~(zone[t] = z /\ MayCutShort(t))
    PROVE  CoveredBy(t, z)'
  <1> USE ThreadAssumption, LimitAssumption, FiniteAssumption
  <1> USE DEF TypeInv, TypeOK, ZoneInHand, KeptActive, KeepsActive, WritePc,
              UsedWritten, WritesFirst, CoveredBy, Unbooked, zones, writing
  <1>1. CASE AllocateIOZone(t)
    BY <1>1 DEF AllocateIOZone, BeginAllocation, Scan, Goto
  <1>2. CASE ApplyFinishThreshold(t)
    BY <1>2 DEF ApplyFinishThreshold, Finish, AllocationFails, Failed, ReleaseCur, Goto, Fault, DropMigration, NoMigration
  <1>3. CASE ApplyFinishThresholdPut(t)
    BY <1>3 DEF ApplyFinishThresholdPut, NotifyOne
  <1>4. CASE ApplyFinishThresholdEnd(t)
    BY <1>4 DEF ApplyFinishThresholdEnd, ScanOver, Goto
  <1>5. CASE WaitForOpenIOZoneToken(t)
    BY <1>5 DEF WaitForOpenIOZoneToken, Scan, Goto
  <1>6. CASE GetBestOpenZoneMatch(t)
    BY <1>6 DEF GetBestOpenZoneMatch, KeepCur, ReleaseCur, Candidate, IsUsed, MinCapacity
  <1>7. CASE GetBestOpenZoneMatchEnd(t)
    BY <1>7 DEF GetBestOpenZoneMatchEnd, ScanOver, Goto
  <1>8. CASE \E best_diff \in {Good, CouldBeWorse, NotGood} : Decide(t, best_diff)
    BY <1>8 DEF Decide, Allocated, Scan, Goto
  <1>9. CASE GetActiveIOZoneToken(t)
    BY <1>9 DEF GetActiveIOZoneToken, Scan, Goto
  <1>10. CASE FinishCheapestIOZone(t)
    BY <1>10 DEF FinishCheapestIOZone, KeepCur, ReleaseCur
  <1>11. CASE FinishCheapestIOZoneEnd(t)
    BY <1>11 DEF FinishCheapestIOZoneEnd, ScanOver, Finish, AllocationFails, Failed, Goto, Fault, DropMigration, NoMigration
  <1>12. CASE FinishCheapestIOZonePut(t)
    BY <1>12 DEF FinishCheapestIOZonePut, NotifyOne
  <1>13. CASE AllocateEmptyZone(t)
    BY <1>13 DEF AllocateEmptyZone, KeepCur, ReleaseCur, IsEmpty
  <1>14. CASE AllocateEmptyZoneEnd(t)
    BY <1>14 DEF AllocateEmptyZoneEnd, Allocated, AllocationFails, Failed, Goto, DropMigration, NoMigration
  <1>15. CASE \E size \in 1..MaxCap : Append(t, size)
    BY <1>15 DEF Append, Fits
  <1>16. CASE PushExtent(t)
    BY <1>16 DEF PushExtent
  <1>17. CASE CloseFullZone(t)
    BY <1>17 DEF CloseFullZone, CloseActiveZone, Goto
  <1>18. CASE CloseWR(t)
    BY <1>18 DEF CloseWR, CloseActiveZone, Goto
  <1>19. CASE CloseActiveZonePutOpen(t)
    BY <1>19 DEF CloseActiveZonePutOpen, AfterPut, NotifyOne
  <1>20. CASE CloseActiveZonePutActive(t)
    BY <1>20 DEF CloseActiveZonePutActive, AfterPut, NotifyOne
  <1>21. CASE \E src \in Zone, len \in 1..MaxCap : TakeMigrateZone(t, src, len)
    BY <1>21 DEF TakeMigrateZone, BeginAllocation, Scan, Goto
  <1>22. CASE MigrateData(t)
    BY <1>22 DEF MigrateData, Goto, Fault, MayCutShort, IsFull, AllRoomy, Roomy
  <1>23. CASE MigrateAccount(t)
    BY <1>23 DEF MigrateAccount, Goto, NoMigration
  <1>24. CASE ReleaseMigrateZone(t)
    BY <1>24 DEF ReleaseMigrateZone, Goto
  <1>25. CASE SyncFileExtents(t)
    BY <1>25 DEF SyncFileExtents, Scan, Goto, NoMigration, Fault
  <1>26. CASE GCWorkerEnd(t)
    BY <1>26 DEF GCWorkerEnd, Goto
  <1>27. CASE ResetUnusedIOZones(t)
    BY <1>27 DEF ResetUnusedIOZones, Reset, AfterReset, ResetDone, ReleaseCur, Goto, Fault, Dead, IsEmpty, IsUsed
  <1>28. CASE ResetUnusedIOZonesPut(t)
    BY <1>28 DEF ResetUnusedIOZonesPut, NotifyOne
  <1>29. CASE ResetUnusedIOZonesEnd(t)
    BY <1>29 DEF ResetUnusedIOZonesEnd, ResetDone, ScanOver, Goto
  <1>30. CASE \E y \in Zone : ScanAcquire(t, y)
    BY <1>30 DEF ScanAcquire
  <1>31. CASE \E y \in Zone : ScanSkip(t, y)
    BY <1>31 DEF ScanSkip
  <1>32. CASE StartAppend(t)
    BY <1>32 DEF StartAppend, Goto
  <1>33. CASE NextAppend(t)
    BY <1>33 DEF NextAppend
  <1>34. CASE \E size \in 0..MaxCap : AppendFails(t, size)
    BY <1>34 DEF AppendFails
  <1>35. CASE GCWorkerStart(t)
    BY <1>35 DEF GCWorkerStart, Goto
  <1>36. CASE \E y \in Zone, len \in 1..MaxCap : ClearExtents(t, y, len)
    BY <1>36 DEF ClearExtents
  <1>37. CASE StartReset(t)
    BY <1>37 DEF StartReset, Scan, Goto
  <1> QED
    BY <1>1, <1>2, <1>3, <1>4, <1>5, <1>6, <1>7, <1>8, <1>9, <1>10, <1>11, <1>12, <1>13, <1>14, <1>15, <1>16, <1>17, <1>18, <1>19, <1>20, <1>21, <1>22, <1>23, <1>24, <1>25, <1>26, <1>27, <1>28, <1>29, <1>30, <1>31, <1>32, <1>33, <1>34, <1>35, <1>36, <1>37
    DEF Step, Call, Allocator, FileWriter, Collector, Resetter, Scanner

LEMMA CoveredStep ==
    ASSUME TypeInv, ZoneExclusive, Serialized, KeptActive, UsedWritten, AllRoomy,
           NEW t \in Thread, Step(t) \/ Call(t),
           NEW z \in Zone, Covered(z), ~(zone[t] = z /\ MayCutShort(t))
    PROVE  Covered(z)'
  <1>1. LocalTo(t)
    BY StepLocal DEF TypeInv
  <1>2. \/ mig'.len \in {0, mig.len}
        \/ t \in Gc /\ pc[t] = "gc"
    BY UsedWrittenZones
  <1>3. TypeOK /\ TypeOK'
    BY TypeInvStep DEF TypeInv
  <1>4. CoveredBy(t, z)
    BY DEF Covered, CoveredBy
  <1>5. CoveredBy(t, z)'
    BY <1>4, CoveredOwn
  <1>6. ASSUME NEW u \in Thread, u # t, zone'[u] = z
        PROVE  used'[z] + Unbooked(u)' <= wp'[z]
    <2>1. zone[u] = z /\ zone[u] # None
      BY <1>1, <1>6, FiniteAssumption DEF LocalTo
    <2>2. wp'[z] = wp[z]
      BY <1>1, <1>3, <1>6, <2>1, OthersKept
    <2>3. z # zone[t]
      BY <1>6, <2>1 DEF ZoneExclusive, Held
    <2>4. used'[z] <= used[z]
      BY <2>3, UsedWrittenZones
    <2>5. pend'[u] = pend[u] /\ (pc'[u] = pc[u] \/ pc'[u] = "wait")
      BY <1>1, <1>6 DEF LocalTo
    <2>6. pc[u] = "account" => mig'.len <= mig.len
      BY <1>2, <1>3, <1>6 DEF UsedWritten, WritesFirst, Serialized, TypeOK
    <2>7. /\ used[z] \in Nat /\ used'[z] \in Nat /\ wp[z] \in Nat /\ pend[u] \in Nat
          /\ mig.len \in Nat /\ mig'.len \in Nat
      BY <1>3 DEF TypeOK
    <2>8. used[z] + Unbooked(u) <= wp[z]
      BY <2>1 DEF Covered
    <2> QED BY <2>2, <2>4, <2>5, <2>6, <2>7, <2>8 DEF Unbooked
  <1> QED BY <1>5, <1>6 DEF Covered, CoveredBy

\* used_capacity_ of a zone, with what is about to be added to it, never runs ahead
\* of what was written there, for any files and threads and whichever device
\* commands fail.  The one exception is the copy MigrateExtents never looks at: one
\* that the device cut short, or that no room was asked for.
THEOREM LiveDataIsWritten == Spec => LiveDataWritten
  <1> DEFINE A == \A z \in Zone : Covered(z) =>
                     Covered(z)' \/ \E t \in Gc : zone[t] = z /\ MayCutShort(t)
  <1>1. ASSUME TypeInv, ZoneExclusive, ActiveInv, AllRoomy,
               NEW t \in Thread, Step(t) \/ Call(t)
        PROVE  A
    <2>1. MayCutShort(t) => t \in Gc
      BY <1>1 DEF ActiveInv, UsedWritten, WritesFirst, MayCutShort
    <2> QED BY <1>1, <2>1, CoveredStep DEF ActiveInv
  <1>2. TypeInv /\ ZoneExclusive /\ ActiveInv /\ AllRoomy /\ [Next]_vars => [A]_vars
    BY <1>1 DEF Next
  <1> QED BY <1>2, ExclusiveInvariant, ActiveInvariant, RoomyInvariant, PTL
          DEF Spec, LiveDataWritten

=============================================================================
