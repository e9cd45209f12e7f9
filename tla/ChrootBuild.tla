----------------------------- MODULE ChrootBuild -----------------------------
(***************************************************************************)
(* Build jobs in the chroot of one flavor and what they publish            *)
(* (cmd/eserved/chroot build.go, cross.go, binhost.go): binds, the         *)
(* daemons a build leaves behind, the portage repo, the cross sysroot,     *)
(* the package cache and the publish, with restarts of the server.         *)
(*                                                                         *)
(* A build holds the flavor lock from its first step to its last and the   *)
(* queue runs one at a time, so the flavor is deleted between two builds   *)
(* only. The layer it insists on is in FlavorConfig; emerge, crossdev and  *)
(* mount are programs that succeed or fail.                                *)
(***************************************************************************)
EXTENDS Binhost, Sequences, SequencesExt

CONSTANTS
    Mounts,     \* chrootMounts, in order
    Requests,   \* bound: the sets of atoms that are asked for
    MaxEdits,   \* bound: edits of cross.conf
    MaxFaults   \* bound: operations of the server that fail, and restarts

ASSUME BuildAssumption ==
    /\ Mounts \in Seq(ToSet(Mounts)) /\ Mounts # <<>>
    /\ Requests \subseteq (SUBSET Atoms) \ {{}}
    /\ MaxEdits \in Nat /\ MaxFaults \in Nat

VARIABLES
    up, bwrap,         \* the server runs; bwrap is installed
    mounts, daemons,   \* active binds under the chroot; something is rooted in it
    repo, marker,      \* the chroot's portage repo and its .eserved-repo-updated
    sdk, sysroot,      \* crossSdkMarker, young enough; the sysroot's make.conf
    cache, listed,     \* both binpkg directories, and the index portage keeps in each
    cross, edits,      \* the flavor's cross.conf
    pc, atoms, target, number, snap, ok,   \* the build job
    faults,
    retargeted, stuck, torn   \* history: see the properties

binds  == <<mounts, daemons, stuck>>
tree   == <<repo, marker>>
sysdev == <<sdk, sysroot>>
pkgs   == <<cache, listed>>
conf   == <<cross, edits, retargeted>>
job    == <<pc, atoms, target, number, snap, ok>>
server == <<up, bwrap>>
vars   == <<binhostVars, torn, binds, tree, sysdev, pkgs, conf, job, server, faults>>

Dirs == {"native", "cross"}
Pcs  == {"idle", "mount", "repo", "copyrepo", "sign", "crossdev", "sysroot", "clean",
         "emerge", "check", "publish", "copy", "index", "gz", "prune", "release"}

TypeOK ==
    /\ BinhostTypeOK
    /\ up \in BOOLEAN /\ bwrap \in BOOLEAN /\ daemons \in BOOLEAN /\ sdk \in BOOLEAN
    /\ ok \in BOOLEAN /\ retargeted \in BOOLEAN /\ stuck \in BOOLEAN /\ torn \in BOOLEAN
    /\ mounts \subseteq ToSet(Mounts)
    /\ repo \in {"none", "partial", "whole"}
    /\ marker \in {"none", "stale", "fresh"}
    /\ sysroot \in {"none", "bare", "layered"}
    /\ cache \in [Dirs -> Files]
    /\ listed \in [Dirs -> SUBSET Atoms]
    /\ cross \in {"none", "target", "broken"} /\ edits \in 0 .. MaxEdits
    /\ pc \in Pcs
    /\ atoms \subseteq Atoms
    /\ target \in Dirs
    /\ number \in 0 .. MaxBuilds
    /\ snap \in 0 .. MaxTime
    /\ faults \in 0 .. MaxFaults
    \* the job's snapshot is a new directory, there until it is pruned
    /\ pc = "copy" => snapshots[snap] = NoFiles
    /\ pc \in {"index", "gz", "prune"} => Exists(snap)

Init ==
    /\ BinhostInit
    /\ up = TRUE /\ bwrap \in BOOLEAN
    /\ mounts = {} /\ daemons = FALSE /\ stuck = FALSE
    /\ repo = "none" /\ marker = "none"
    /\ sdk = FALSE /\ sysroot = "none"
    /\ cache = [d \in Dirs |-> NoFiles] /\ listed = [d \in Dirs |-> {}]
    /\ cross = "none" /\ edits = 0 /\ retargeted = FALSE
    /\ pc = "idle" /\ atoms = {} /\ target = "native" /\ number = 0 /\ snap = 0 /\ ok = FALSE
    /\ faults = 0 /\ torn = FALSE

-----------------------------------------------------------------------------
Fault      == faults < MaxFaults /\ faults' = faults + 1
Goto(next) == pc' = next /\ UNCHANGED <<atoms, target, number, snap, ok>>
Fail       == Goto("release")
End        == /\ pc' = "idle" /\ atoms' = {} /\ target' = "native" /\ snap' = 0 /\ ok' = FALSE
              /\ UNCHANGED number

\* A command in the chroot; without bwrap what it starts may outlive it.
Command == daemons' \in {daemons, ~bwrap} /\ UNCHANGED <<mounts, stuck>>

\* binpkgDir reads cross.conf each time it is called, a broken one is none to it.
BinpkgDir == IF cross = "target" THEN "cross" ELSE "native"

-----------------------------------------------------------------------------
(* BuildJob *)

\* A broken cross.conf ends the build here. The markers may be past repoRefresh.
StartBuild(as) ==
    /\ up /\ pc = "idle"
    /\ number < MaxBuilds
    /\ cross # "broken"
    /\ pc' = IF bwrap THEN "repo" ELSE "mount"
    /\ atoms' = as /\ target' = BinpkgDir /\ number' = number + 1
    /\ retargeted' = FALSE
    /\ \/ UNCHANGED <<marker, sdk>>
       \/ marker = "fresh" /\ marker' = "stale" /\ sdk' = FALSE
    /\ UNCHANGED <<binhostVars, torn, binds, repo, sysroot, pkgs, cross, edits, snap, ok,
                   server, faults>>

\* mountChroot: the next bind that is not active.
Unmounted(i) == Mounts[i] \notin mounts /\ \A j \in 1 .. i - 1 : Mounts[j] \in mounts
Mount ==
    /\ pc = "mount"
    /\ \/ ToSet(Mounts) \subseteq mounts /\ Goto("repo") /\ UNCHANGED mounts
       \/ \E i \in DOMAIN Mounts :
             Unmounted(i) /\ mounts' = mounts \cup {Mounts[i]} /\ UNCHANGED job
    /\ UNCHANGED <<binhostVars, torn, daemons, stuck, tree, sysdev, pkgs, conf, server, faults>>

\* The build returns before releaseChroot was deferred: what is mounted stays.
MountFails ==
    /\ pc = "mount" /\ ~(ToSet(Mounts) \subseteq mounts)
    /\ Fault
    /\ stuck' = TRUE
    /\ End
    /\ UNCHANGED <<binhostVars, torn, mounts, daemons, tree, sysdev, pkgs, conf, server>>

\* ensureRepo: a fresh marker is believed, a repo that is there is synced.
RepoFresh ==
    /\ pc = "repo" /\ marker = "fresh"
    /\ Goto("sign")
    /\ UNCHANGED <<binhostVars, torn, binds, tree, sysdev, pkgs, conf, server, faults>>

SyncRepo ==
    /\ pc = "repo" /\ marker # "fresh" /\ repo # "none"
    /\ Command
    /\ repo' = "whole" /\ marker' = "fresh"
    /\ Goto("sign")
    /\ UNCHANGED <<binhostVars, torn, sysdev, pkgs, conf, server, faults>>

\* The sync failed or was cancelled and the server has no repo to copy, or the marker
\* of one that worked is not written: the marker stays as old as it was.
SyncGivesUp ==
    /\ pc = "repo" /\ marker # "fresh"
    /\ Command
    /\ repo' \in IF repo = "none" THEN {repo} ELSE {repo, "partial", "whole"}
    /\ Fail
    /\ UNCHANGED <<binhostVars, torn, marker, sysdev, pkgs, conf, server, faults>>

\* No repo, or the sync failed or was cancelled: the old one is removed.
SyncFails ==
    /\ pc = "repo" /\ marker # "fresh"
    /\ Command
    /\ repo' = "none" /\ marker' = "none"
    /\ Goto("copyrepo")
    /\ UNCHANGED <<binhostVars, torn, sysdev, pkgs, conf, server, faults>>

CopyRepo ==
    /\ pc = "copyrepo"
    /\ repo' = "whole" /\ marker' = "fresh"
    /\ Goto("sign")
    /\ UNCHANGED <<binhostVars, torn, binds, sysdev, pkgs, conf, server, faults>>

\* mutant: a copy that was cut short is marked
CopyRepoFailsMarked ==
    /\ pc = "copyrepo"
    /\ repo' \in {"none", "partial", "whole"} /\ marker' = "fresh"
    /\ Fail
    /\ UNCHANGED <<binhostVars, torn, binds, sysdev, pkgs, conf, server, faults>>
\* The copy fails or is cancelled, or the marker is not written.
CopyRepoFails ==
    /\ pc = "copyrepo"
    /\ repo' \in {"none", "partial", "whole"} /\ UNCHANGED marker
    /\ Fail
    /\ UNCHANGED <<binhostVars, torn, binds, sysdev, pkgs, conf, server, faults>>

\* setupChrootSigning writes the key and the make.conf line again every time.
Sign ==
    /\ pc = "sign"
    /\ Goto(IF target = "cross" THEN "crossdev" ELSE "clean")
    /\ UNCHANGED <<binhostVars, torn, binds, tree, sysdev, pkgs, conf, server, faults>>

\* ensureCrossDev
CrossDev ==
    /\ pc = "crossdev"
    /\ IF sdk /\ sysroot # "none" THEN UNCHANGED <<binds, sysdev>>
       ELSE /\ Command
            /\ sdk' = TRUE /\ sysroot' = IF sysroot = "none" THEN "bare" ELSE sysroot
    /\ Goto("sysroot")
    /\ UNCHANGED <<binhostVars, torn, tree, pkgs, conf, server, faults>>

\* setupCrossSysroot: the block of an earlier build is replaced.
SetupSysroot ==
    /\ pc = "sysroot"
    /\ sysroot' = "layered"
    /\ Goto("clean")
    /\ UNCHANGED <<binhostVars, torn, binds, tree, sdk, pkgs, conf, server, faults>>

\* A command fails or is cancelled, the flavor has no make.conf, the signing key
\* cannot be copied.
StepFails ==
    /\ pc \in {"sign", "crossdev", "sysroot"}
    /\ Command
    /\ Fail
    /\ UNCHANGED <<binhostVars, torn, tree, sysdev, pkgs, conf, server, faults>>

\* mutant: the cache is left as it is
CleanNothing ==
    /\ pc = "clean"
    /\ Goto("emerge")
    /\ UNCHANGED <<binhostVars, torn, binds, tree, sysdev, pkgs, conf, server, faults>>
\* cleanAtomCache removes the requested atoms' files; portage's index keeps them.
CleanCache ==
    /\ pc = "clean"
    /\ cache' = [cache EXCEPT ![BinpkgDir] =
                    [a \in Atoms |-> IF a \in atoms THEN 0 ELSE @[a]]]
    /\ Goto("emerge")
    /\ UNCHANGED <<binhostVars, torn, binds, tree, sysdev, listed, conf, server, faults>>

\* emerge puts what it builds into the cache and lists it, one package at a time.
Merged(built) ==
    /\ cache' = [cache EXCEPT ![target] = [a \in Atoms |-> IF a \in built THEN number ELSE @[a]]]
    /\ listed' = [listed EXCEPT ![target] = @ \cup built]

\* It exits 0; it can do so without a usable package for every atom.
Emerge ==
    /\ pc = "emerge"
    /\ Command
    /\ \E built \in SUBSET atoms : Merged(built)
    /\ Goto("check")
    /\ UNCHANGED <<binhostVars, torn, tree, sysdev, conf, server, faults>>

\* It fails or is cancelled: what it built stays, and a later build publishes it.
EmergeFails ==
    /\ pc = "emerge"
    /\ Command
    /\ \E built \in SUBSET atoms : Merged(built)
    /\ Fail
    /\ UNCHANGED <<binhostVars, torn, tree, sysdev, conf, server, faults>>

\* checkBuiltPkgs
CheckBuilt ==
    /\ pc = "check"
    /\ IF \A a \in atoms : cache[BinpkgDir][a] # 0 THEN Goto("publish") ELSE Fail
    /\ UNCHANGED <<binhostVars, torn, binds, tree, sysdev, pkgs, conf, server, faults>>

-----------------------------------------------------------------------------
(* PublishBinpkgs *)

NothingToPublish == Carried(Publishable(cache[BinpkgDir])) = {} \/ listed[BinpkgDir] = {}

PublishNothing ==
    /\ pc = "publish" /\ NothingToPublish
    /\ Fail
    /\ UNCHANGED <<binhostVars, torn, binds, tree, sysdev, pkgs, conf, server, faults>>

\* The bound: a publish that finds no name left in Names does not happen.
Publish(now) ==
    /\ pc = "publish" /\ ~NothingToPublish
    /\ FreeNames(now) # {} /\ Now(now)
    /\ MakeSnapshot(NewName(now))
    /\ pc' = "copy" /\ snap' = NewName(now) /\ UNCHANGED <<atoms, target, number, ok>>
    /\ UNCHANGED <<live, liveGz, torn, binds, tree, sysdev, pkgs, conf, server, faults>>

Copy ==
    /\ pc = "copy"
    /\ CopyFiles(snap, cache[BinpkgDir])
    /\ Goto("index")
    /\ UNCHANGED <<live, liveGz, disordered, torn, binds, tree, sysdev, pkgs, conf,
                   server, faults>>

WriteIndex ==
    /\ pc = "index"
    /\ live' = Rewritten(snap, listed[BinpkgDir])
    /\ Goto("gz")
    /\ UNCHANGED <<snapshots, liveGz, disordered, torn, binds, tree, sysdev, pkgs, conf,
                   server, faults>>

WriteGz ==
    /\ pc = "gz"
    /\ liveGz' = live /\ torn' = FALSE
    /\ Goto("prune")
    /\ UNCHANGED <<snapshots, live, disordered, binds, tree, sysdev, pkgs, conf, server,
                   faults>>

\* The snapshot goes again, whatever names it by now; an index that was being
\* written is cut short.
PublishFails ==
    /\ pc \in {"copy", "index", "gz"}
    /\ Fault
    /\ RemoveSnapshot(snap)
    /\ live' = IF pc = "index" THEN NoIndex ELSE live
    /\ liveGz' = IF pc = "gz" THEN NoIndex ELSE liveGz
    /\ torn' = (torn \/ pc = "gz")
    /\ Fail
    /\ UNCHANGED <<disordered, binds, tree, sysdev, pkgs, conf, server>>

PruneSnapshots ==
    /\ pc = "prune"
    /\ Prune
    /\ pc' = "release" /\ ok' = TRUE /\ UNCHANGED <<atoms, target, number, snap>>
    /\ UNCHANGED <<live, liveGz, disordered, torn, binds, tree, sysdev, pkgs, conf,
                   server, faults>>

-----------------------------------------------------------------------------
(* releaseChroot, CleanupStaleMounts, DeleteFlavor *)

\* mutant: a build that failed returns without it
ReleaseAfterSuccess ==
    /\ pc = "release"
    /\ IF bwrap \/ ~ok THEN UNCHANGED binds
       ELSE mounts' = {} /\ daemons' = FALSE /\ stuck' = FALSE
    /\ End
    /\ UNCHANGED <<binhostVars, torn, tree, sysdev, pkgs, conf, server, faults>>
Release ==
    /\ pc = "release"
    /\ IF bwrap THEN UNCHANGED binds
       ELSE mounts' = {} /\ daemons' = FALSE /\ stuck' = FALSE
    /\ End
    /\ UNCHANGED <<binhostVars, torn, tree, sysdev, pkgs, conf, server, faults>>

\* Some bind is busy after the second pass: the build failed after all.
ReleaseFails ==
    /\ pc = "release" /\ ~bwrap
    /\ Fault
    /\ mounts' \in (SUBSET mounts) \ {{}} /\ daemons' = FALSE /\ stuck' = TRUE
    /\ End
    /\ UNCHANGED <<binhostVars, torn, tree, sysdev, pkgs, conf, server>>

\* The server dies: binds and daemons stay, a sync, a copy, an emerge or an index is
\* cut short.
Crash ==
    /\ up /\ up' = FALSE
    /\ Fault
    /\ repo' \in {repo} \cup (IF pc = "copyrepo" \/ (pc = "repo" /\ marker # "fresh" /\ repo # "none")
                              THEN {"partial"} ELSE {})
    /\ live' = IF pc = "index" THEN NoIndex ELSE live
    /\ liveGz' = IF pc = "gz" THEN NoIndex ELSE liveGz
    /\ \/ UNCHANGED pkgs
       \/ pc = "emerge" /\ \E built \in SUBSET atoms : Merged(built)
    /\ End
    /\ UNCHANGED <<snapshots, disordered, torn, bwrap, binds, marker, sysdev, conf>>

\* serveHTTP runs CleanupStaleMounts before it listens; a chroot without binds is
\* not looked at, and a bind that stays busy is logged.
Boot ==
    /\ ~up /\ up' = TRUE
    /\ \/ mounts' = {} /\ stuck' = FALSE
       \/ mounts' \in (SUBSET mounts) \ {{}} /\ stuck' = TRUE
    /\ daemons' = (daemons /\ mounts = {})
    /\ UNCHANGED <<binhostVars, torn, bwrap, tree, sysdev, pkgs, conf, job, faults>>

\* DeleteFlavor refuses while there are binds under the chroot.
DeleteFlavor ==
    /\ up /\ pc = "idle"
    /\ mounts = {}
    /\ repo' = "none" /\ marker' = "none" /\ sdk' = FALSE /\ sysroot' = "none"
    /\ cache' = [d \in Dirs |-> NoFiles] /\ listed' = [d \in Dirs |-> {}]
    /\ snapshots' = [t \in Names |-> NoSnapshot]
    /\ live' = NoIndex /\ liveGz' = NoIndex /\ torn' = FALSE
    /\ cross' = "none" /\ disordered' = FALSE
    /\ UNCHANGED <<binds, edits, retargeted, job, server, faults>>

\* The admin edits cross.conf by hand, at any time.
EditCross(c) ==
    /\ edits < MaxEdits /\ edits' = edits + 1
    /\ cross' = c /\ c # cross
    /\ retargeted' = (pc # "idle")
    /\ UNCHANGED <<binhostVars, torn, binds, tree, sysdev, pkgs, job, server, faults>>

BuildStep ==
    \/ Mount \/ MountFails
    \/ RepoFresh \/ SyncRepo \/ SyncGivesUp \/ SyncFails \/ CopyRepo \/ CopyRepoFails
    \/ Sign \/ CrossDev \/ SetupSysroot \/ StepFails
    \/ CleanCache \/ Emerge \/ EmergeFails \/ CheckBuilt
    \/ PublishNothing \/ Copy \/ WriteIndex \/ WriteGz \/ PublishFails \/ PruneSnapshots
    \/ Release \/ ReleaseFails

Next ==
    \/ \E as \in Requests : StartBuild(as)
    \/ BuildStep
    \/ \E now \in Names : Publish(now)
    \/ Crash \/ Boot \/ DeleteFlavor
    \/ \E c \in {"none", "target", "broken"} : EditCross(c)

Spec == Init /\ [][Next]_vars

-----------------------------------------------------------------------------
(* Properties *)

\* A repo with a fresh marker is complete, after every sync, copy, cancel or crash
\* in between, and no build goes on to emerge with half a repo.
MarkedRepoIsWhole ==
    /\ marker = "fresh" => repo = "whole"
    /\ pc \in {"sign", "crossdev", "sysroot", "clean", "emerge"} => repo = "whole"

\* Between two builds nothing is mounted in the chroot and nothing holds it,
\* however the last build ended, so the flavor can be deleted; a restart puts right
\* what a crash left. Only a bind or an unbind that failed leaves some.
NothingLeftMounted ==
    up /\ pc = "idle" /\ ~stuck => mounts = {} /\ ~daemons

\* A build that ends well has published its own package for every atom it was
\* asked for: not a stale one from the cache, and none the index does not list.
\* An admin who edits cross.conf meanwhile, snapshots that are out of order and
\* packages over the size limit are the exceptions.
DoneMeansPublished ==
    [][pc = "release" /\ pc' = "idle" /\ ok /\ ~retargeted /\ ~disordered =>
          /\ live.uri = snap
          /\ \A a \in atoms \ Big : a \in live.lists /\ snapshots[snap][a] = number]_vars

\* "each build copies the binpkgs into an immutable snapshot, the live index points
\* at it": everything the two live indexes list can be fetched, through publishes,
\* prunes and crashes that leave half a snapshot behind. A publish that fails after
\* Packages was written leaves it torn, until the next one; a snapshot whose name is
\* before an older one's, which pruning takes for the older, is the other exception.
LiveIndexServes ==
    ~disordered => (torn \/ Serves(live)) /\ Serves(liveGz)

\* The snapshot is immutable: as long as an index lists packages in it, no step makes
\* that directory again, copies into it or removes it, so a client that read the index
\* gets the files the index was written for. The exceptions are those of
\* LiveIndexServes.
LiveSnapshotStays(index) ==
    index' = index /\ index.lists # {} => snapshots'[index.uri] = snapshots[index.uri]
SnapshotIsImmutable ==
    [][~disordered' => (torn' \/ LiveSnapshotStays(live)) /\ LiveSnapshotStays(liveGz)]_vars
=============================================================================
