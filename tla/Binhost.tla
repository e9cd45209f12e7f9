------------------------------- MODULE Binhost -------------------------------
(***************************************************************************)
(* What the binhost of one flavor serves (cmd/eserved/chroot/binhost.go):  *)
(* the snapshots, the two live indexes and the pruning. ChrootBuild gives  *)
(* the steps of a publish their order.                                     *)
(*                                                                         *)
(* A package file is the number of the build that made it, 0 for none. A   *)
(* snapshot is named by the second it was made in.                         *)
(***************************************************************************)
EXTENDS Naturals, FiniteSets, FiniteSetsExt

CONSTANTS
    Atoms,         \* cat/pkg of the packages
    Big,           \* those whose files are over maxPublished
    MaxSnapshots,  \* snapshots that are kept (3 in the code)
    MaxBuilds,     \* bound: builds
    MaxTime,       \* bound: names a snapshot may get
    NoSnapshot

ASSUME BinhostAssumption ==
    /\ Big \subseteq Atoms
    /\ MaxSnapshots \in Nat \ {0} /\ MaxBuilds \in Nat /\ MaxTime \in Nat
    /\ NoSnapshot \notin [Atoms -> 0 .. MaxBuilds]

VARIABLES
    snapshots,  \* content of each snapshot directory
    live,       \* the flavor's Packages
    liveGz,     \* the flavor's Packages.gz
    disordered  \* history: a snapshot got an earlier name than one that was there

binhostVars == <<snapshots, live, liveGz, disordered>>

Names == 1 .. MaxTime
Files == [Atoms -> 0 .. MaxBuilds]
\* uri 0: no index, or one whose writing was cut short
Index == [uri : 0 .. MaxTime, lists : SUBSET Atoms]

NoFiles == [a \in Atoms |-> 0]
NoIndex == [uri |-> 0, lists |-> {}]

BinhostTypeOK ==
    /\ snapshots \in [Names -> Files \cup {NoSnapshot}]
    /\ live \in Index /\ liveGz \in Index
    /\ disordered \in BOOLEAN

BinhostInit ==
    /\ snapshots = [t \in Names |-> NoSnapshot]
    /\ live = NoIndex /\ liveGz = NoIndex
    /\ disordered = FALSE

Exists(t) == snapshots[t] # NoSnapshot

\* Two publishes in one second do not share a directory.
FreeNames(now)  == {t \in Names : t >= now /\ ~Exists(t)}
\* mutant: a second publish of that second shares the directory
SharedName(now) == now
NewName(now)    == Min(FreeNames(now))

\* The clock of the server may stand anywhere. It gives an earlier name than a
\* snapshot's after it was set back, or in a second whose snapshot was pruned.
Newest(t) == \A u \in Names : Exists(u) => u <= t
Now(now)  == disordered' = (disordered \/ ~Newest(NewName(now)))

\* isPublishable
Publishable(files) == [a \in Atoms |-> IF a \in Big THEN 0 ELSE files[a]]
Carried(files)     == {a \in Atoms : files[a] # 0}

\* mutant: the chroot's index is taken as it is
RewrittenTrusting(t, listed) == [uri |-> t, lists |-> listed]
\* rewriteIndexURI: only what the snapshot carries.
Rewritten(t, listed) == [uri |-> t, lists |-> listed \cap Carried(snapshots[t])]

\* MkdirAll and the copies leave what is in a directory that exists.
MakeSnapshot(t) ==
    snapshots' = [snapshots EXCEPT ![t] = IF Exists(t) THEN @ ELSE NoFiles]
CopyFiles(t, files) ==
    snapshots' = [snapshots EXCEPT ![t] =
                     [a \in Atoms |-> IF Publishable(files)[a] # 0 THEN Publishable(files)[a] ELSE @[a]]]
RemoveSnapshot(t) == snapshots' = [snapshots EXCEPT ![t] = NoSnapshot]

\* mutant: the names are not sorted in reverse
KeptOldest == {t \in Names : Exists(t) /\ Cardinality({u \in Names : Exists(u) /\ u < t}) < MaxSnapshots}
\* pruneSnapshots keeps the last by name.
Kept == {t \in Names : Exists(t) /\ Cardinality({u \in Names : Exists(u) /\ u > t}) < MaxSnapshots}
Prune == snapshots' = [t \in Names |-> IF t \in Kept THEN snapshots[t] ELSE NoSnapshot]

\* What a client that reads this index is sent to is there.
Serves(index) ==
    index.lists # {} => Exists(index.uri) /\ index.lists \subseteq Carried(snapshots[index.uri])
=============================================================================
