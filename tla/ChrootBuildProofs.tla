------------------------- MODULE ChrootBuildProofs --------------------------
(***************************************************************************)
(* What holds of the builds of a flavor and of what they publish, for any  *)
(* set of packages and binds, any number of kept snapshots, and any number *)
(* of builds, faults and edits.                                            *)
(***************************************************************************)
EXTENDS ChrootBuild, FiniteSetTheorems, WellFoundedInduction, TLAPS

\* The tuples of UNCHANGED and the helpers that say where the job goes.
USE DEF binhostVars, binds, tree, sysdev, pkgs, conf, job, server, vars, Goto, Fail, End,
        Fault

\* A command starts nothing that stays when bwrap confines it.
LEMMA Commanded ==
    ASSUME Command, bwrap \in BOOLEAN, daemons \in BOOLEAN
    PROVE  /\ daemons' \in BOOLEAN
           /\ daemons' => daemons \/ ~bwrap
           /\ UNCHANGED <<mounts, stuck>>
<1>1. (~bwrap) \in BOOLEAN
  OBVIOUS
<1>2. CASE daemons' = daemons
  BY <1>2 DEF Command
<1>3. CASE daemons' = ~bwrap
  BY <1>1, <1>3 DEF Command
<1>4. QED
  BY <1>2, <1>3 DEF Command

\* The steps of a publish, between the name of the snapshot and the pruning.
Publishing == {"copy", "index", "gz", "prune"}

-----------------------------------------------------------------------------
(* The chroot's repo *)

RepoInv ==
    /\ MarkedRepoIsWhole
    /\ pc = "copyrepo" => marker = "none"

LEMMA RepoStep ==
    ASSUME RepoInv, [Next]_vars
    PROVE  RepoInv'
<1> USE DEF RepoInv, MarkedRepoIsWhole
<1>1. ASSUME NEW as \in Requests, StartBuild(as) PROVE RepoInv'
  BY <1>1 DEF StartBuild
<1>2. ASSUME BuildStep PROVE RepoInv'
  <2>1. CASE Mount
    BY <2>1 DEF Mount
  <2>2. CASE MountFails \/ RepoFresh \/ SyncRepo \/ SyncGivesUp \/ SyncFails
            \/ CopyRepo \/ CopyRepoFails
    BY <2>2 DEF MountFails, RepoFresh, SyncRepo, SyncGivesUp, SyncFails, CopyRepo,
          CopyRepoFails
  <2>3. CASE Sign \/ CrossDev \/ SetupSysroot \/ StepFails \/ CleanCache \/ Emerge
             \/ EmergeFails \/ CheckBuilt
    BY <2>3 DEF Sign, CrossDev, SetupSysroot, StepFails, CleanCache, Emerge, EmergeFails,
          CheckBuilt
  <2>4. CASE PublishNothing \/ Copy \/ WriteIndex \/ WriteGz \/ PublishFails \/ PruneSnapshots
    BY <2>4 DEF PublishNothing, Copy, WriteIndex, WriteGz, PublishFails, PruneSnapshots
  <2>5. CASE Release \/ ReleaseFails
    BY <2>5 DEF Release, ReleaseFails
  <2>6. QED
    BY <1>2, <2>1, <2>2, <2>3, <2>4, <2>5 DEF BuildStep
<1>3. ASSUME NEW now \in Names, Publish(now) PROVE RepoInv'
  BY <1>3 DEF Publish
<1>4. CASE Crash \/ Boot \/ DeleteFlavor
  BY <1>4 DEF Crash, Boot, DeleteFlavor
<1>5. ASSUME NEW c \in {"none", "target", "broken"}, EditCross(c) PROVE RepoInv'
  BY <1>5 DEF EditCross
<1>6. CASE UNCHANGED vars
  BY <1>6
<1>7. QED
  BY <1>1, <1>2, <1>3, <1>4, <1>5, <1>6 DEF Next

-----------------------------------------------------------------------------
(* Binds and daemons *)

BindInv ==
    /\ NothingLeftMounted
    /\ bwrap \in BOOLEAN /\ daemons \in BOOLEAN
    /\ pc # "idle" => up
    /\ up /\ pc \in {"idle", "mount"} => ~daemons
    /\ daemons => mounts # {}
    /\ bwrap => mounts = {} /\ ~daemons /\ pc # "mount"
    /\ ~bwrap /\ pc \notin {"idle", "mount"} => mounts # {}

LEMMA BindStep ==
    ASSUME BindInv, [Next]_vars
    PROVE  BindInv'
<1> USE DEF BindInv, NothingLeftMounted
<1>1. ASSUME NEW as \in Requests, StartBuild(as) PROVE BindInv'
  BY <1>1 DEF StartBuild
<1>2. ASSUME BuildStep PROVE BindInv'
  <2>1. CASE Mount
    <3>1. ToSet(Mounts) # {}
      BY BuildAssumption DEF ToSet
    <3>2. QED
      BY <2>1, <3>1 DEF Mount
  <2>2. CASE MountFails \/ RepoFresh \/ SyncRepo \/ SyncGivesUp \/ SyncFails
            \/ CopyRepo \/ CopyRepoFails
    BY <2>2, Commanded DEF MountFails, RepoFresh, SyncRepo, SyncGivesUp, SyncFails,
          CopyRepo, CopyRepoFails
  <2>3. CASE Sign \/ CrossDev \/ SetupSysroot \/ StepFails \/ CleanCache \/ Emerge
             \/ EmergeFails \/ CheckBuilt
    BY <2>3, Commanded DEF Sign, CrossDev, SetupSysroot, StepFails, CleanCache, Emerge,
          EmergeFails, CheckBuilt
  <2>4. CASE PublishNothing \/ Copy \/ WriteIndex \/ WriteGz \/ PublishFails \/ PruneSnapshots
    BY <2>4 DEF PublishNothing, Copy, WriteIndex, WriteGz, PublishFails, PruneSnapshots
  <2>5. CASE Release
    BY <2>5 DEF Release
  <2>6. CASE ReleaseFails
    BY <2>6 DEF ReleaseFails
  <2>7. QED
    BY <1>2, <2>1, <2>2, <2>3, <2>4, <2>5, <2>6 DEF BuildStep
<1>3. ASSUME NEW now \in Names, Publish(now) PROVE BindInv'
  BY <1>3 DEF Publish
<1>4. CASE Crash
  BY <1>4 DEF Crash
<1>5. CASE Boot
  BY <1>5 DEF Boot
<1>6. CASE DeleteFlavor
  BY <1>6 DEF DeleteFlavor
<1>7. ASSUME NEW c \in {"none", "target", "broken"}, EditCross(c) PROVE BindInv'
  BY <1>7 DEF EditCross
<1>8. CASE UNCHANGED vars
  BY <1>8
<1>9. QED
  BY <1>1, <1>2, <1>3, <1>4, <1>5, <1>6, <1>7, <1>8 DEF Next
-----------------------------------------------------------------------------
(* Types *)

TypeInv ==
    /\ TypeOK
    /\ pc \in Publishing => snap \in Names

\* A snapshot is there or not, and never named by what is not a name.
LEMMA NoneIsNoSnapshot == NoFiles \in Files /\ NoFiles # NoSnapshot /\ NoSnapshot \notin Files
  BY BinhostAssumption DEF NoFiles, Files

LEMMA MinIs ==
    ASSUME NEW T \in SUBSET Nat, T # {}
    PROVE  Min(T) \in T /\ \A u \in T : Min(T) <= u
<1> DEFINE Less == {ss \in Nat \X Nat : ss[1] < ss[2]}
<1>1. IsWellFoundedOn(Less, Nat)
  BY NatLessThanWellFounded DEF OpToRel
<1>2. PICK t \in T : \A u \in T : <<u, t>> \notin Less
  <2> HIDE DEF Less
  <2>1. QED
    BY <1>1, WFMin
<1>3. ASSUME NEW u \in T PROVE t <= u
  <2>1. <<u, t>> \notin Less
    BY <1>2
  <2>2. <<u, t>> \in Nat \X Nat /\ <<u, t>>[1] = u /\ <<u, t>>[2] = t
    OBVIOUS
  <2>3. ~(u < t)
    BY <2>1, <2>2
  <2>4. QED
    BY <2>3
<1>4. QED
  BY <1>3 DEF Min

LEMMA NewNameIsFree ==
    ASSUME NEW now, FreeNames(now) # {}
    PROVE  NewName(now) \in Names /\ ~Exists(NewName(now))
<1>1. FreeNames(now) \subseteq Names /\ Names \subseteq Nat
  BY BinhostAssumption DEF FreeNames, Names
<1>2. Min(FreeNames(now)) \in FreeNames(now)
  BY <1>1, MinIs
<1>3. QED
  BY <1>2 DEF NewName, FreeNames

Flags ==
    /\ up \in BOOLEAN /\ bwrap \in BOOLEAN /\ daemons \in BOOLEAN /\ sdk \in BOOLEAN
    /\ ok \in BOOLEAN /\ retargeted \in BOOLEAN /\ stuck \in BOOLEAN /\ torn \in BOOLEAN
    /\ disordered \in BOOLEAN

LEMMA FlagStep ==
    ASSUME Flags, [Next]_vars
    PROVE  Flags'
<1> USE DEF Flags
<1>1. ASSUME NEW as \in Requests, StartBuild(as) PROVE Flags'
  BY <1>1 DEF StartBuild
<1>2. ASSUME BuildStep PROVE Flags'
  <2>1. CASE Mount
    BY <2>1 DEF Mount
  <2>2. CASE MountFails
    BY <2>2 DEF MountFails
  <2>3. CASE RepoFresh \/ SyncRepo \/ SyncGivesUp \/ SyncFails \/ CopyRepo \/ CopyRepoFails
    BY <2>3, Commanded DEF RepoFresh, SyncRepo, SyncGivesUp, SyncFails, CopyRepo,
          CopyRepoFails
  <2>4. CASE Sign \/ SetupSysroot \/ StepFails
    BY <2>4, Commanded DEF Sign, SetupSysroot, StepFails
  <2>5. CASE CrossDev
    BY <2>5, Commanded DEF CrossDev
  <2>6. CASE CleanCache \/ Emerge \/ EmergeFails \/ CheckBuilt
    BY <2>6, Commanded DEF CleanCache, Emerge, EmergeFails, CheckBuilt
  <2>7. CASE PublishNothing \/ Copy \/ WriteIndex \/ WriteGz
    <3>1. CASE PublishNothing \/ Copy
      BY <3>1 DEF PublishNothing, Copy
    <3>2. CASE WriteIndex \/ WriteGz
      BY <3>2 DEF WriteIndex, WriteGz
    <3>3. QED
      BY <2>7, <3>1, <3>2
  <2>8. CASE PublishFails
    <3>1. (torn \/ pc = "gz") \in BOOLEAN
      OBVIOUS
    <3>2. QED
      BY <2>8, <3>1 DEF PublishFails
  <2>9. CASE PruneSnapshots
    BY <2>9 DEF PruneSnapshots
  <2>10. CASE Release
    BY <2>10 DEF Release
  <2>11. CASE ReleaseFails
    BY <2>11 DEF ReleaseFails
  <2>12. QED
    BY <1>2, <2>1, <2>2, <2>3, <2>4, <2>5, <2>6, <2>7, <2>8, <2>9, <2>10,
          <2>11 DEF BuildStep
<1>3. ASSUME NEW now \in Names, Publish(now) PROVE Flags'
  <2>1. (disordered \/ ~Newest(NewName(now))) \in BOOLEAN
    OBVIOUS
  <2>2. QED
    BY <1>3, <2>1 DEF Publish, Now
<1>4. CASE Crash
  BY <1>4 DEF Crash
<1>5. CASE Boot
  <2>1. (daemons /\ mounts = {}) \in BOOLEAN
    OBVIOUS
  <2>2. QED
    BY <1>5, <2>1 DEF Boot
<1>6. CASE DeleteFlavor
  BY <1>6 DEF DeleteFlavor
<1>7. ASSUME NEW c \in {"none", "target", "broken"}, EditCross(c) PROVE Flags'
  <2>1. (pc # "idle") \in BOOLEAN
    OBVIOUS
  <2>2. QED
    BY <1>7, <2>1 DEF EditCross
<1>8. CASE UNCHANGED vars
  BY <1>8
<1>9. QED
  BY <1>1, <1>2, <1>3, <1>4, <1>5, <1>6, <1>7, <1>8 DEF Next

LEMMA MergedTypes ==
    ASSUME TypeOK, NEW built \in SUBSET atoms, Merged(built)
    PROVE  cache' \in [Dirs -> Files] /\ listed' \in [Dirs -> SUBSET Atoms]
  BY DEF TypeOK, Merged, Files

LEMMA TypeStep ==
    ASSUME TypeInv, [Next]_vars
    PROVE  TypeInv'
<1>0. Flags'
  BY FlagStep DEF TypeInv, TypeOK, BinhostTypeOK, Flags
<1> USE <1>0 DEF Flags
<1> USE DEF TypeInv, TypeOK, BinhostTypeOK, Publishing, Pcs, Dirs, Exists
<1>1. ASSUME NEW as \in Requests, StartBuild(as) PROVE TypeInv'
  <2>1. as \subseteq Atoms /\ BinpkgDir \in Dirs
    BY BuildAssumption DEF BinpkgDir
  <2>2. number' \in 0 .. MaxBuilds
    BY <1>1, BinhostAssumption DEF StartBuild
  <2>3. QED
    BY <1>1, <2>1, <2>2 DEF StartBuild
<1>2. ASSUME BuildStep PROVE TypeInv'
  <2>1. CASE Mount
    BY <2>1 DEF Mount, ToSet
  <2>2. CASE MountFails
    BY <2>2, BinhostAssumption, BuildAssumption DEF MountFails
  <2>3. CASE RepoFresh \/ SyncRepo \/ SyncGivesUp \/ SyncFails \/ CopyRepo \/ CopyRepoFails
    BY <2>3, Commanded DEF RepoFresh, SyncRepo, SyncGivesUp, SyncFails, CopyRepo,
          CopyRepoFails
  <2>4. CASE Sign \/ CrossDev \/ SetupSysroot \/ StepFails
    BY <2>4, Commanded DEF Sign, CrossDev, SetupSysroot, StepFails
  <2>5. CASE CleanCache
    BY <2>5, BinhostAssumption DEF CleanCache, Files, BinpkgDir
  <2>6. CASE Emerge \/ EmergeFails
    BY <2>6, Commanded, MergedTypes DEF Emerge, EmergeFails
  <2>7. CASE CheckBuilt
    BY <2>7 DEF CheckBuilt
  <2>8. CASE PublishNothing
    BY <2>8 DEF PublishNothing
  <2>9. CASE Copy
    <3>1. snap \in Names /\ snapshots[snap] = NoFiles /\ cache[BinpkgDir] \in Files
      BY <2>9 DEF Copy, BinpkgDir
    <3> DEFINE copied == [a \in Atoms |-> IF Publishable(cache[BinpkgDir])[a] # 0
                                          THEN Publishable(cache[BinpkgDir])[a]
                                          ELSE snapshots[snap][a]]
    <3>2. copied \in Files
      BY <3>1, BinhostAssumption DEF Publishable, Files, NoFiles
    <3>3. snapshots' = [snapshots EXCEPT ![snap] = copied]
      BY <2>9, <3>1 DEF Copy, CopyFiles
    <3> HIDE DEF copied
    <3>4. QED
      BY <2>9, <3>1, <3>2, <3>3, NoneIsNoSnapshot DEF Copy
  <2>10. CASE WriteIndex \/ WriteGz
    <3>1. ASSUME WriteIndex PROVE live' \in Index
      <4>1. listed[BinpkgDir] \subseteq Atoms /\ snap \in 0 .. MaxTime
        BY <3>1 DEF BinpkgDir
      <4>2. QED
        BY <3>1, <4>1 DEF WriteIndex, Rewritten, Index
    <3>2. QED
      BY <2>10, <3>1 DEF WriteIndex, WriteGz
  <2>11. CASE PublishFails
    BY <2>11, BuildAssumption, BinhostAssumption DEF PublishFails, RemoveSnapshot,
          NoIndex, Index, Names
  <2>12. CASE PruneSnapshots
    BY <2>12 DEF PruneSnapshots, Prune
  <2>13. CASE Release \/ ReleaseFails
    BY <2>13, BuildAssumption, BinhostAssumption DEF Release, ReleaseFails
  <2>14. QED
    BY <1>2, <2>1, <2>2, <2>3, <2>4, <2>5, <2>6, <2>7, <2>8, <2>9, <2>10, <2>11, <2>12, <2>13
    DEF BuildStep
<1>3. ASSUME NEW now \in Names, Publish(now) PROVE TypeInv'
  BY <1>3, NewNameIsFree, NoneIsNoSnapshot, BinhostAssumption DEF Publish, MakeSnapshot,
          Now, Names
<1>4. CASE Crash
  <2>1. cache' \in [Dirs -> Files] /\ listed' \in [Dirs -> SUBSET Atoms]
    BY <1>4, MergedTypes DEF Crash
  <2>2. QED
    BY <1>4, <2>1, BuildAssumption, BinhostAssumption DEF Crash, NoIndex, Index
<1>5. CASE Boot
  BY <1>5 DEF Boot
<1>6. CASE DeleteFlavor
  BY <1>6, NoneIsNoSnapshot, BinhostAssumption DEF DeleteFlavor, NoIndex, Index
<1>7. ASSUME NEW c \in {"none", "target", "broken"}, EditCross(c) PROVE TypeInv'
  BY <1>7, BuildAssumption DEF EditCross
<1>8. CASE UNCHANGED vars
  BY <1>8
<1>9. QED
  BY <1>1, <1>2, <1>3, <1>4, <1>5, <1>6, <1>7, <1>8 DEF Next

-----------------------------------------------------------------------------
(* What is served *)

\* No index a client may read points at t.
Unpointed(t) ==
    /\ liveGz.lists = {} \/ liveGz.uri # t
    /\ pc = "gz" \/ torn \/ live.lists = {} \/ live.uri # t

Named(index) == index.lists = {} \/ index.uri \in Names

ServeInv ==
    /\ LiveIndexServes
    /\ Named(live) /\ Named(liveGz)
    /\ ~disordered /\ pc \in Publishing => Newest(snap)
    /\ ~disordered /\ pc \in {"copy", "index", "gz"} => Unpointed(snap)
    /\ pc \in {"gz", "prune"} => live.uri = snap /\ Serves(live)
    /\ pc = "prune" => liveGz = live /\ ~torn

\* The steps that leave alone what is published.
LEMMA ServeKept ==
    ASSUME ServeInv, UNCHANGED <<snapshots, live, liveGz, disordered, torn>>,
           pc' \notin Publishing \/ UNCHANGED <<pc, snap>>
    PROVE  ServeInv'
  BY DEF ServeInv, LiveIndexServes, Serves, Exists, Carried, Publishing, Named,
          Unpointed, Newest

\* A step that takes nothing from the snapshot an index points at leaves it serving.
Spared(t) == Exists(t) => Exists(t)' /\ Carried(snapshots[t]) \subseteq Carried(snapshots[t])'

LEMMA LiveSpared ==
    ASSUME Serves(live), live' = live, live.lists = {} \/ Spared(live.uri)
    PROVE  Serves(live)'
  BY DEF Serves, Spared, Exists, Carried

LEMMA LiveGzSpared ==
    ASSUME Serves(liveGz), liveGz' = liveGz, liveGz.lists = {} \/ Spared(liveGz.uri)
    PROVE  Serves(liveGz)'
  BY DEF Serves, Spared, Exists, Carried

\* The snapshot with the last name is the first that is kept.
LEMMA NewestIsKept ==
    ASSUME NEW t \in Names, Exists(t), Newest(t)
    PROVE  t \in Kept
<1>1. {u \in Names : Exists(u) /\ u > t} = {}
  BY BinhostAssumption DEF Newest, Names
<1>2. Cardinality({u \in Names : Exists(u) /\ u > t}) < MaxSnapshots
  BY <1>1, FS_EmptySet, BinhostAssumption
<1>3. QED
  BY <1>2 DEF Kept

LEMMA ServeStep ==
    ASSUME TypeInv, ServeInv, [Next]_vars
    PROVE  ServeInv'
<1>0. TypeInv'
  BY TypeStep
<1>1. ASSUME NEW as \in Requests, StartBuild(as) PROVE ServeInv'
  BY <1>1, ServeKept DEF StartBuild, Publishing
<1>2. ASSUME BuildStep PROVE ServeInv'
  <2>1. CASE Mount
    BY <2>1, ServeKept DEF Mount, Publishing
  <2>2. CASE MountFails \/ RepoFresh \/ SyncRepo \/ SyncGivesUp \/ SyncFails
            \/ CopyRepo \/ CopyRepoFails
    BY <2>2, ServeKept DEF MountFails, RepoFresh, SyncRepo, SyncGivesUp, SyncFails,
          CopyRepo, CopyRepoFails,
                           Publishing
  <2>3. CASE Sign \/ CrossDev \/ SetupSysroot \/ StepFails \/ CleanCache \/ Emerge
             \/ EmergeFails \/ CheckBuilt
    BY <2>3, ServeKept DEF Sign, CrossDev, SetupSysroot, StepFails, CleanCache, Emerge,
          EmergeFails, CheckBuilt,
                           Publishing
  <2>4. CASE PublishNothing \/ Release \/ ReleaseFails
    BY <2>4, ServeKept DEF PublishNothing, Release, ReleaseFails, Publishing
  <2>5. CASE Copy
    <3>1. snap \in Names /\ Exists(snap)
      BY <2>5, NoneIsNoSnapshot DEF Copy, TypeInv, TypeOK, Publishing, Exists
    <3>2. DOMAIN snapshots = Names /\ snapshots[snap] = NoFiles /\ Exists(snap)'
      BY <2>5, <1>0 DEF Copy, TypeInv, TypeOK, BinhostTypeOK, Publishing
    <3>3. \A t \in Names \ {snap} : snapshots'[t] = snapshots[t]
      BY <2>5, <3>2 DEF Copy, CopyFiles
    <3>4. UNCHANGED <<live, liveGz, disordered, torn, snap>> /\ pc = "copy" /\ pc' = "index"
      BY <2>5 DEF Copy
    <3>5. \A t \in Names : Spared(t) /\ (Exists(t)' <=> Exists(t))
      BY <3>1, <3>2, <3>3, <3>4 DEF Spared, Exists, Carried, NoFiles
    <3>6. (Serves(live) => Serves(live)') /\ (Serves(liveGz) => Serves(liveGz)')
      BY <3>4, <3>5, LiveSpared, LiveGzSpared DEF ServeInv, Named
    <3>7. QED
      BY <3>4, <3>5, <3>6 DEF ServeInv, LiveIndexServes, Named, Unpointed, Newest,
          Publishing
  <2>6. CASE WriteIndex
    <3>1. /\ UNCHANGED <<snapshots, liveGz, disordered, torn, snap>> /\ pc = "index" /\ pc' = "gz"
          /\ snap \in Names /\ Exists(snap)
          /\ live'.uri = snap /\ live'.lists \subseteq Carried(snapshots[snap])
      BY <2>6 DEF WriteIndex, Rewritten, TypeInv, TypeOK, Publishing
    <3>2. Serves(live)' /\ Named(live)'
      BY <3>1 DEF Serves, Named, Exists, Carried
    <3>3. (Serves(liveGz) => Serves(liveGz)') /\ (Named(liveGz) => Named(liveGz)')
      BY <3>1 DEF Serves, Named, Exists, Carried
    <3>4. QED
      BY <3>1, <3>2, <3>3 DEF ServeInv, LiveIndexServes, Unpointed, Newest, Exists,
          Publishing
  <2>7. CASE WriteGz
    <3>1. /\ UNCHANGED <<snapshots, live, disordered, snap>> /\ pc = "gz" /\ pc' = "prune"
          /\ liveGz' = live /\ ~torn'
      BY <2>7 DEF WriteGz
    <3>2. /\ Serves(live)' /\ Serves(liveGz)' /\ Named(live)' /\ Named(liveGz)'
          /\ live'.uri = snap'
      BY <3>1 DEF ServeInv, Serves, Named, Exists, Carried
    <3>3. QED
      BY <3>1, <3>2 DEF ServeInv, LiveIndexServes, Newest, Exists, Publishing
  <2>8. CASE PublishFails
    <3>1. /\ UNCHANGED disordered /\ pc \in {"copy", "index", "gz"} /\ pc' = "release"
          /\ live' = IF pc = "index" THEN NoIndex ELSE live
          /\ liveGz' = IF pc = "gz" THEN NoIndex ELSE liveGz
          /\ torn' = (torn \/ pc = "gz")
      BY <2>8 DEF PublishFails
    <3>2. DOMAIN snapshots = Names
      BY DEF TypeInv, TypeOK, BinhostTypeOK
    <3>3. \A t \in Names \ {snap} : Spared(t)
      BY <2>8, <3>2 DEF PublishFails, RemoveSnapshot, Spared, Exists, Carried
    <3>4. Named(live)' /\ Named(liveGz)'
      BY <3>1 DEF ServeInv, Named, NoIndex
    <3>5. ASSUME ~disordered PROVE torn' \/ Serves(live)'
      <4>1. CASE pc = "index"
        BY <3>1, <4>1 DEF Serves, NoIndex
      <4>2. CASE pc = "copy" /\ ~torn
        <5>1. Serves(live) /\ live' = live /\ (live.lists = {} \/ Spared(live.uri))
          BY <3>1, <3>3, <3>5, <4>2 DEF ServeInv, LiveIndexServes, Named, Unpointed
        <5>2. QED
          BY <5>1, LiveSpared
      <4>3. QED
        BY <3>1, <4>1, <4>2
    <3>6. ASSUME ~disordered PROVE Serves(liveGz)'
      <4>1. CASE pc = "gz"
        BY <3>1, <4>1 DEF Serves, NoIndex
      <4>2. CASE pc # "gz"
        <5>1. Serves(liveGz) /\ liveGz' = liveGz /\ (liveGz.lists = {} \/ Spared(liveGz.uri))
          BY <3>1, <3>3, <3>6, <4>2 DEF ServeInv, LiveIndexServes, Named, Unpointed
        <5>2. QED
          BY <5>1, LiveGzSpared
      <4>3. QED
        BY <4>1, <4>2
    <3>7. QED
      BY <3>1, <3>4, <3>5, <3>6 DEF ServeInv, LiveIndexServes, Publishing
  <2>9. CASE PruneSnapshots
    <3>1. /\ UNCHANGED <<live, liveGz, disordered, torn, snap>> /\ pc = "prune" /\ pc' = "release"
          /\ snap \in Names /\ Exists(snap)
      BY <2>9 DEF PruneSnapshots, TypeInv, TypeOK, Publishing
    <3>2. ASSUME ~disordered PROVE Serves(live)' /\ Serves(liveGz)'
      <4>1. snap \in Kept
        BY <3>1, <3>2, NewestIsKept DEF ServeInv, Publishing
      <4>2. snapshots'[snap] = snapshots[snap]
        BY <2>9, <3>1, <4>1 DEF PruneSnapshots, Prune
      <4>3. Spared(snap)
        BY <3>1, <4>2 DEF Spared, Exists, Carried
      <4>4. QED
        BY <3>1, <4>3, LiveSpared, LiveGzSpared DEF ServeInv
    <3>3. QED
      BY <3>1, <3>2 DEF ServeInv, LiveIndexServes, Named, Publishing
  <2>10. QED
    BY <1>2, <2>1, <2>2, <2>3, <2>4, <2>5, <2>6, <2>7, <2>8, <2>9 DEF BuildStep
<1>3. ASSUME NEW now \in Names, Publish(now) PROVE ServeInv'
  <2>0. PICK new \in Names : new = NewName(now) /\ ~Exists(new)
    BY <1>3, NewNameIsFree DEF Publish
  <2>1. /\ UNCHANGED <<live, liveGz, torn>> /\ pc = "publish" /\ pc' = "copy" /\ snap' = new
    BY <1>3, <2>0 DEF Publish
  <2>2. DOMAIN snapshots = Names
    BY DEF TypeInv, TypeOK, BinhostTypeOK
  <2>3. ~disordered' => ~disordered /\ Newest(new)
    BY <1>3, <2>0 DEF Publish, Now
  <2>4. snapshots' = [snapshots EXCEPT ![new] = NoFiles]
    BY <1>3, <2>0 DEF Publish, MakeSnapshot
  <2>5. \A t \in Names : Spared(t)
    BY <2>0, <2>2, <2>4 DEF Spared, Exists, Carried
  <2>6. (Serves(live) => Serves(live)') /\ (Serves(liveGz) => Serves(liveGz)')
    BY <2>1, <2>5, LiveSpared, LiveGzSpared DEF ServeInv, Named
  <2>7. (Serves(live) => live.lists = {} \/ live.uri # new)
        /\ (Serves(liveGz) => liveGz.lists = {} \/ liveGz.uri # new)
    BY <2>0 DEF Serves
  <2>8. Newest(new) => Newest(new)'
    BY <2>0, <2>2, <2>4, BinhostAssumption DEF Newest, Exists, Names
  <2>9. QED
    BY <2>0, <2>1, <2>3, <2>6, <2>7, <2>8
    DEF ServeInv, LiveIndexServes, Unpointed, Named, Publishing, Newest
<1>4. CASE Crash
  <2>1. /\ UNCHANGED <<snapshots, disordered, torn>> /\ pc' = "idle"
        /\ live' = IF pc = "index" THEN NoIndex ELSE live
        /\ liveGz' = IF pc = "gz" THEN NoIndex ELSE liveGz
    BY <1>4 DEF Crash
  <2>2. (Serves(live) => Serves(live)') /\ (Serves(liveGz) => Serves(liveGz)')
    BY <2>1 DEF Serves, NoIndex, Exists, Carried
  <2>3. QED
    BY <2>1, <2>2 DEF ServeInv, LiveIndexServes, Named, NoIndex, Publishing
<1>5. CASE Boot
  BY <1>5, ServeKept DEF Boot
<1>6. CASE DeleteFlavor
  BY <1>6 DEF DeleteFlavor, ServeInv, LiveIndexServes, Serves, Named, NoIndex, Publishing
<1>7. ASSUME NEW c \in {"none", "target", "broken"}, EditCross(c) PROVE ServeInv'
  BY <1>7, ServeKept DEF EditCross
<1>8. CASE UNCHANGED vars
  BY <1>8, ServeKept
<1>9. QED
  BY <1>1, <1>2, <1>3, <1>4, <1>5, <1>6, <1>7, <1>8 DEF Next

-----------------------------------------------------------------------------
(* What a build publishes *)

\* In the cache there is, of the requested atoms, only what this build made.
Made(a)     == cache[target][a] = number /\ a \in listed[target]
InSnap(a)   == snapshots[snap][a] = number
PubInv ==
    /\ pc # "idle" => number > 0
    /\ ok => pc = "release"
    /\ ~retargeted /\ pc # "idle" => target = BinpkgDir
    /\ ~retargeted => \A a \in atoms :
          /\ pc = "emerge" => cache[target][a] = 0
          /\ pc = "check" => cache[target][a] = 0 \/ Made(a)
          /\ pc \in {"publish", "copy", "index"} => Made(a)
          /\ pc \in {"index", "gz", "prune"} /\ a \notin Big => InSnap(a)
          /\ pc \in {"gz", "prune"} /\ a \notin Big => a \in live.lists
    /\ ok /\ ~retargeted /\ ~disordered =>
          live.uri = snap /\ \A a \in atoms \ Big : InSnap(a) /\ a \in live.lists

LEMMA PubStep ==
    ASSUME TypeInv, ServeInv, PubInv, [Next]_vars
    PROVE  PubInv'
<1> USE DEF PubInv, Made, InSnap, BinpkgDir
<1>1. ASSUME NEW as \in Requests, StartBuild(as) PROVE PubInv'
  <2>1. number' > 0
    BY <1>1 DEF StartBuild, TypeInv, TypeOK
  <2>2. QED
    BY <1>1, <2>1 DEF StartBuild
<1>2. ASSUME BuildStep PROVE PubInv'
  <2>1. CASE Mount
    BY <2>1 DEF Mount
  <2>2. CASE MountFails \/ RepoFresh \/ SyncRepo \/ SyncGivesUp \/ SyncFails
            \/ CopyRepo \/ CopyRepoFails
    BY <2>2 DEF MountFails, RepoFresh, SyncRepo, SyncGivesUp, SyncFails, CopyRepo,
          CopyRepoFails
  <2>3. CASE Sign \/ CrossDev \/ SetupSysroot \/ StepFails
    BY <2>3 DEF Sign, CrossDev, SetupSysroot, StepFails
  <2>4. CASE CleanCache
    BY <2>4 DEF CleanCache, TypeInv, TypeOK, Dirs
  <2>5. CASE Emerge
    BY <2>5 DEF Emerge, Merged, TypeInv, TypeOK, Dirs
  <2>6. CASE EmergeFails
    BY <2>6 DEF EmergeFails
  <2>7. CASE CheckBuilt
    BY <2>7 DEF CheckBuilt
  <2>8. CASE PublishNothing
    BY <2>8 DEF PublishNothing
  <2>9. CASE Copy
    BY <2>9 DEF Copy, CopyFiles, Publishable, TypeInv, TypeOK, BinhostTypeOK, Publishing
  <2>10. CASE WriteIndex
    BY <2>10 DEF WriteIndex, Rewritten, Carried, TypeInv, TypeOK
  <2>11. CASE WriteGz
    BY <2>11 DEF WriteGz
  <2>12. CASE PublishFails
    BY <2>12 DEF PublishFails
  <2>13. CASE PruneSnapshots
    BY <2>13, NewestIsKept DEF PruneSnapshots, Prune, ServeInv, TypeInv, TypeOK, Publishing
  <2>14. CASE Release \/ ReleaseFails
    BY <2>14 DEF Release, ReleaseFails
  <2>15. QED
    BY <1>2, <2>1, <2>2, <2>3, <2>4, <2>5, <2>6, <2>7, <2>8, <2>9, <2>10, <2>11, <2>12, <2>13,
       <2>14
    DEF BuildStep
<1>3. ASSUME NEW now \in Names, Publish(now) PROVE PubInv'
  BY <1>3 DEF Publish
<1>4. CASE Crash
  BY <1>4 DEF Crash
<1>5. CASE Boot
  BY <1>5 DEF Boot
<1>6. CASE DeleteFlavor
  BY <1>6 DEF DeleteFlavor
<1>7. ASSUME NEW c \in {"none", "target", "broken"}, EditCross(c) PROVE PubInv'
  BY <1>7 DEF EditCross
<1>8. CASE UNCHANGED vars
  BY <1>8
<1>9. QED
  BY <1>1, <1>2, <1>3, <1>4, <1>5, <1>6, <1>7, <1>8 DEF Next

-----------------------------------------------------------------------------
(* The theorems *)

IInv == TypeInv /\ RepoInv /\ BindInv /\ ServeInv /\ PubInv

LEMMA InitHolds == Init => IInv
<1> SUFFICES ASSUME Init PROVE IInv
  OBVIOUS
<1> USE DEF Init, BinhostInit
<1>1. TypeInv
  <2>1. NoIndex \in Index /\ [d \in Dirs |-> NoFiles] \in [Dirs -> Files]
        /\ [d \in Dirs |-> {}] \in [Dirs -> SUBSET Atoms]
    BY NoneIsNoSnapshot, BinhostAssumption DEF NoIndex, Index
  <2>2. Flags
    BY DEF Flags
  <2>3. QED
    BY <2>1, <2>2, BinhostAssumption, BuildAssumption
    DEF Flags, TypeInv, TypeOK, BinhostTypeOK, Publishing, Pcs, Dirs
<1>2. RepoInv
  BY DEF RepoInv, MarkedRepoIsWhole
<1>3. BindInv
  BY DEF BindInv, NothingLeftMounted
<1>4. ServeInv
  BY DEF ServeInv, LiveIndexServes, Serves, Named, NoIndex, Publishing
<1>5. PubInv
  BY DEF PubInv
<1>6. QED
  BY <1>1, <1>2, <1>3, <1>4, <1>5 DEF IInv

LEMMA StepHolds == IInv /\ [Next]_vars => IInv'
  BY TypeStep, RepoStep, BindStep, ServeStep, PubStep DEF IInv

\* The inductive invariant.
THEOREM BuildInvariant == Spec => []IInv
  BY InitHolds, StepHolds, PTL DEF Spec

\* Every variable of a build has a value of its kind after any steps, and the
\* snapshot a publish works on is a directory that is there.
THEOREM BuildTypes == Spec => []TypeOK
<1>1. IInv => TypeOK
  BY DEF IInv, TypeInv
<1>2. QED
  BY <1>1, BuildInvariant, PTL

\* ensureRepo: however often a sync or a copy fails or the server dies in it, the
\* marker is only on a repo that is complete.
THEOREM MarkedRepoStaysWhole == Spec => []MarkedRepoIsWhole
<1>1. IInv => MarkedRepoIsWhole
  BY DEF IInv, RepoInv
<1>2. QED
  BY <1>1, BuildInvariant, PTL

\* mountChroot, releaseChroot and CleanupStaleMounts: for any list of binds, none
\* outlives the build, however that ended, unless binding or unbinding failed.
THEOREM BindsAreReleased == Spec => []NothingLeftMounted
<1>1. IInv => NothingLeftMounted
  BY DEF IInv, BindInv
<1>2. QED
  BY <1>1, BuildInvariant, PTL

\* PublishBinpkgs and pruneSnapshots: for any number of snapshots that are kept, a
\* publish never takes away what one of the two live indexes lists.
THEOREM LiveIndexAlwaysServes == Spec => []LiveIndexServes
<1>1. IInv => LiveIndexServes
  BY DEF IInv, ServeInv
<1>2. QED
  BY <1>1, BuildInvariant, PTL

\* BuildJob: a build that is done has put its own package of every atom that was
\* asked for where clients find it.
THEOREM DoneIsPublished == Spec => DoneMeansPublished
<1>1. IInv /\ [Next]_vars =>
         [pc = "release" /\ pc' = "idle" /\ ok /\ ~retargeted /\ ~disordered =>
            /\ live.uri = snap
            /\ \A a \in atoms \ Big : a \in live.lists /\ snapshots[snap][a] = number]_vars
  BY DEF IInv, PubInv, InSnap
<1>2. QED
  BY <1>1, BuildInvariant, PTL DEF Spec, DoneMeansPublished

-----------------------------------------------------------------------------
(* What a client reads stays as it is *)

\* An index whose snapshot a step does not touch.
LEMMA LiveUntouched ==
    ASSUME live.lists = {} \/ snapshots'[live.uri] = snapshots[live.uri]
    PROVE  LiveSnapshotStays(live)
  BY DEF LiveSnapshotStays

LEMMA LiveGzUntouched ==
    ASSUME liveGz.lists = {} \/ snapshots'[liveGz.uri] = snapshots[liveGz.uri]
    PROVE  LiveSnapshotStays(liveGz)
  BY DEF LiveSnapshotStays

LEMMA SnapshotStays ==
    ASSUME TypeInv, ServeInv, [Next]_vars, ~disordered'
    PROVE  (torn' \/ LiveSnapshotStays(live)) /\ LiveSnapshotStays(liveGz)
<1> DEFINE Goal == (torn' \/ LiveSnapshotStays(live)) /\ LiveSnapshotStays(liveGz)
<1>1. CASE UNCHANGED snapshots
  BY <1>1, LiveUntouched, LiveGzUntouched
<1>2. DOMAIN snapshots = Names
  BY DEF TypeInv, TypeOK, BinhostTypeOK
<1>3. ASSUME pc \in {"copy", "index"}, ~disordered, ~torn,
             \A t \in Names \ {snap} : snapshots'[t] = snapshots[t]
      PROVE  LiveSnapshotStays(live)
  BY <1>3, LiveUntouched DEF ServeInv, Unpointed, Named
<1>4. ASSUME pc \in {"copy", "index", "gz"}, ~disordered,
             \A t \in Names \ {snap} : snapshots'[t] = snapshots[t]
      PROVE  LiveSnapshotStays(liveGz)
  BY <1>4, LiveGzUntouched DEF ServeInv, Unpointed, Named
<1>5. ASSUME BuildStep PROVE Goal
  <2>1. CASE Copy
    <3>1. /\ pc = "copy" /\ ~disordered /\ UNCHANGED <<live, torn>>
          /\ \A t \in Names \ {snap} : snapshots'[t] = snapshots[t]
      BY <2>1, <1>2 DEF Copy, CopyFiles
    <3>2. QED
      BY <3>1, <1>3, <1>4
  <2>2. CASE PublishFails
    <3>1. /\ pc \in {"copy", "index", "gz"} /\ ~disordered
          /\ live' = (IF pc = "index" THEN NoIndex ELSE live)
          /\ torn' = (torn \/ pc = "gz")
          /\ \A t \in Names \ {snap} : snapshots'[t] = snapshots[t]
      BY <2>2, <1>2 DEF PublishFails, RemoveSnapshot
    <3>2. CASE pc = "index"
      BY <3>1, <3>2, <1>4 DEF LiveSnapshotStays, NoIndex
    <3>3. CASE pc # "index"
      BY <3>1, <3>3, <1>3, <1>4
    <3>4. QED
      BY <3>2, <3>3
  <2>3. CASE PruneSnapshots
    <3>1. pc = "prune" /\ snap \in Names /\ Exists(snap) /\ ~disordered
      BY <2>3 DEF PruneSnapshots, TypeInv, TypeOK, Publishing
    <3>2. snap \in Kept
      BY <3>1, NewestIsKept DEF ServeInv, Publishing
    <3>3. snapshots'[snap] = snapshots[snap]
      BY <2>3, <3>1, <3>2 DEF PruneSnapshots, Prune
    <3>4. QED
      BY <3>1, <3>3, LiveUntouched, LiveGzUntouched DEF ServeInv
  <2>4. CASE Mount \/ MountFails \/ RepoFresh \/ SyncRepo \/ SyncGivesUp \/ SyncFails
            \/ CopyRepo
             \/ CopyRepoFails \/ Sign \/ CrossDev \/ SetupSysroot \/ StepFails
    BY <2>4, <1>1 DEF Mount, MountFails, RepoFresh, SyncRepo, SyncGivesUp, SyncFails,
          CopyRepo,
                      CopyRepoFails, Sign, CrossDev, SetupSysroot, StepFails
  <2>5. CASE CleanCache \/ Emerge \/ EmergeFails \/ CheckBuilt \/ PublishNothing
            \/ WriteIndex \/ WriteGz
             \/ Release \/ ReleaseFails
    BY <2>5, <1>1 DEF CleanCache, Emerge, EmergeFails, CheckBuilt, PublishNothing,
          WriteIndex, WriteGz,
                      Release, ReleaseFails
  <2>6. QED
    BY <1>5, <2>1, <2>2, <2>3, <2>4, <2>5 DEF BuildStep
<1>6. ASSUME NEW now \in Names, Publish(now) PROVE Goal
  <2>1. PICK new \in Names : new = NewName(now) /\ ~Exists(new)
    BY <1>6, NewNameIsFree DEF Publish
  <2>2. \A t \in Names \ {new} : snapshots'[t] = snapshots[t]
    BY <1>6, <1>2, <2>1 DEF Publish, MakeSnapshot
  <2>3. ~disordered /\ torn' = torn
    BY <1>6 DEF Publish, Now
  <2>4. (torn \/ Serves(live)) /\ Serves(liveGz)
    BY <2>3 DEF ServeInv, LiveIndexServes
  <2>5. Serves(live) => live.lists = {} \/ snapshots'[live.uri] = snapshots[live.uri]
    BY <2>1, <2>2 DEF Serves, ServeInv, Named
  <2>6. liveGz.lists = {} \/ snapshots'[liveGz.uri] = snapshots[liveGz.uri]
    BY <2>1, <2>2, <2>4 DEF Serves, ServeInv, Named
  <2>7. QED
    BY <2>3, <2>4, <2>5, <2>6, LiveUntouched, LiveGzUntouched
<1>7. CASE DeleteFlavor
  BY <1>7 DEF DeleteFlavor, LiveSnapshotStays, NoIndex
<1>8. QED
  BY <1>1, <1>5, <1>6, <1>7 DEF Next, StartBuild, Crash, Boot, EditCross

\* PublishBinpkgs: "each build copies the binpkgs into an immutable snapshot". However
\* many builds and however many in one second, what an index points at stays as it was.
THEOREM SnapshotsAreImmutable == Spec => SnapshotIsImmutable
<1>1. IInv /\ [Next]_vars =>
         [~disordered' => (torn' \/ LiveSnapshotStays(live)) /\ LiveSnapshotStays(liveGz)]_vars
  BY SnapshotStays DEF IInv
<1>2. QED
  BY <1>1, BuildInvariant, PTL DEF Spec, SnapshotIsImmutable
=============================================================================
