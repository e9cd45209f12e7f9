# A TLA+ model of eserve

eserve hosts binary packages for a fleet of Gentoo machines. `eserved` keeps a chroot per *flavor*,
enrolls machines, provisions and builds in the chroots and publishes the packages; `epull` runs on
the machines, `eservectl` is the admin's command line. This directory models the server's core in
TLA+, checks it with TLC on small instances and proves the central invariants with TLAPS.

Paths below are under `src/cmd/eserved` unless they say otherwise.

## The system

| Component | State | Operations | Interacts with |
|---|---|---|---|
| Job registry and flavor queues (`jobs/jobs.go`, `api/jobs.go`, `admin/jobs.go`, `admin/build.go`) | jobs with their state and context, one channel and goroutine per flavor, log files | Start, serveQueue, Finish, cancel, janitor, SweepStaleLogs | provision and build handlers start jobs; DeleteFlavor asks FlavorBusy |
| Job log and streams (`jobs/jobs.go`) | log, kept terminal event, subscribers' channels | Write, Finish, Subscribe, Replay, Stream, Unsubscribe | epull and eservectl read the streams |
| Tokens, machines, enrollment, provision (`storage/token.go`, `storage/machine.go`, `storage/flavor.go`, `api/identity.go`, `api/provision.go`) | two maps under two mutexes, two JSON files | CreateToken, DeleteToken, EnrollMachine, Spend/Commit/Refund of a switch token, ProvisionMachine, Revoke, Delete | the provision job runs in the flavor's queue |
| Flavor config and sync (`chroot/flavorconfig.go`, `chroot/sync.go`, `api/sync.go`, `admin/flavor.go`, `storage/state.go`) | the chroot's config directory, sync archives, fingerprint and last syncer, the flavor lock | PostSync, ApplySync, PostApplyFlavor, DeleteFlavor, DeleteMachine's clean-up | provision and build use the config under the same lock |
| Chroot builds (`chroot/build.go`, `chroot/provision.go`) | mounts, repo marker, package cache | BuildJob, mount, release, CleanupStaleMounts | flavor lock, binhost |
| Binhost (`chroot/binhost.go`) | snapshots, the live index | PublishBinpkgs, pruneSnapshots | read by portage over HTTP |
| Cross targets, profiles (`chroot/cross.go`, `chroot/profile.go`) | files in the chroot | ArchRefusal, SetChrootProfile | provision, sync, build |
| Binary hosting (`storage/binary.go`, `api/binary.go`) | binaries and manifests per arch | UploadBinary, GetBinary | selfupdate of epull |
| epull (`src/cmd/epull`) | client certificate, settings, make.conf, binrepos.conf | register, provision, sync, selfupdate | the HTTP API |
| eservectl (`src/cmd/eservectl`) | none | one request per command | the admin socket |
| Certificates, gpg, settings, stages, system info | key files, settings | read or made once at startup | everything |

What makes them correct:

- **Jobs.** One job of a flavor runs at a time. A job that is not over is in exactly one place that
  will end it. A refused job never runs. The way a job ended is final. Every job ends.
- **Streams.** A client sees each event once and in order, with no gap between the replayed and the
  live part, and learns how the job ended.
- **Tokens and machines.** A token pays for one enrollment or one switch; one that paid for nothing
  can be refunded, one that paid stays spent, its binding is kept. A revocation is permanent. A
  machine changes its flavor only by a token. All of it across failed saves and restarts.
- **Flavor config.** The archive, the recorded fingerprint and the installed config belong together,
  nothing of a deleted machine or flavor comes back, and a build reads the flavor's make.conf.
- **Builds.** A chroot is left unmounted and free of processes, its repo is whole when it is taken
  for fresh, and a build that ends well has published what it was asked for.
- **Binhost.** Everything the live indexes list can be fetched.
- **Clients.** A machine never runs a binary that is not one whole build. portage is never told to
  verify what it cannot, uses the binhost of the machine's flavor, and keeps the user's own.

What is hard: cancels that race with a job's start, its wait and its end; streams that race with the
end of a job; non-blocking sends to full channels; handlers that read state, drop the lock and act
later (provision, delete, apply); two files saved one after the other; saves that fail after memory
was changed; a config swapped in by two renames; builds cut short anywhere; files that several
uploads write at once; clients killed between two files; restarts. `PROJECT.json` lists each of these hazards at its line.

## Modules

| Module | Models | Composes |
|---|---|---|
| `JobLanes` | what the queues promise: per flavor a lane of jobs, one hand, one work at a time | |
| `JobQueue` | the registry, the queues and goroutines, cancel, janitor, restart | instance `Lanes` of `JobLanes`, which it implements |
| `JobStream` | one job's log and its streams, the verdicts of both clients | |
| `Enrollment` | tokens, machines, enrollment, provision requests and their jobs, saves, restarts | |
| `FlavorConfig` | one flavor's config: syncs, applies, provisions, layer, deletions, the flavor lock | |
| `Binhost` | snapshots, live indexes, pruning: operators on the published state | |
| `ChrootBuild` | a build job step by step: mounts, repo, cross tools, cache, emerge, publish, release | extends `Binhost` |
| `Epull` | register and provision on a client, with the files they leave | |
| `SelfUpdate` | hosted binaries, uploads and selfupdate | |
| `Client` | a machine with all these commands | extends `Epull` and `SelfUpdate` |
| `JobQueueProofs`, `JobStreamProofs`, `EnrollmentProofs`, `FlavorConfigProofs`, `ChrootBuildProofs`, `ClientProofs` | what is proved of each | extend the module they are named for |
| `JobLanesProofs` | that `JobQueue` implements `JobLanes` | extends `JobQueueProofs` |
| `MC...` | constants, bounds and symmetry sets of the instances | extend the module they check |

A step is what the code does under one lock or with one channel operation; everything between two
locks may be interleaved. Mutated definitions (`...Stale`, `...Forgotten`, and so on) stand before
the definition they mutate and are used by nothing else.

### JobQueue

`state`, `flavor`, `ctxDone` and `logs` are the fields of a `Job`; `reg` and `queues` the maps of
`JobRegistry`; `chan` the channels. A channel is made together with the goroutine that serves it,
so it is named by the goroutine. The rest are program counters: `call` of Start, `wpc` of a
goroutine, `hpc` of a cancel handler.

| Action | Code |
|---|---|
| `StartRegister`, `EnsureQueue`, `MarkQueued`, `Enqueue`, `QueueFull`, `Refuse` | the lock regions of Start, in order |
| `Take`, `SkipFinished`, `PassCheck`, `StartRunning` | serveQueue up to the work; the check and the start are two locks, so a cancel fits between |
| `WorkFinishes`, `WorkReturns`, `WorkPanics`, `FinishWorked` | runWorkBlocking: the work may end the job, return, or panic |
| `CancelCheck`, `CancelSignal`, `CancelFinish` | PostCancelJob and PostAdminCancelJob |
| `Reap` | the janitor; retention is an hour, longer than any Start, so a job is not reaped during its Start |
| `Crash`, `Boot` | the process dies; serveHTTP sweeps the logs |

A job's ID is used once: a job lost in a crash is `"lost"`, not free again. Start's path for an
empty flavor is left out: PostProvision and PostStartBuild refuse one. The work is any number of
steps that ends in one of three ways. A write to a job whose subscribers' channels are closed
panics; that needs a job that was revived with a stream open, and is part of neither this module nor `JobStream`.

### JobStream

One job with `log`, `over`, `subs`, and per reader the channel and what its client got. `Write` and
`Finish` are the job's; `Subscribe`, `Replay`, `CheckFinished`, `Receive`, `EndOfStream`, `Leave`,
`Unsubscribe` are Stream, in order. `Replay` is one step: the log only grows, is read up to a fixed
size, and an open file outlives its name, so what is emitted is settled when the file is opened.
`EpullVerdict` and `CtlVerdict` are what readJobStream and PostJobStream return. Nothing is written
after the end: a revived job (see "What the models contain") is outside this module.

### Enrollment

`tokens` and `machines` are the maps, `diskTokens` and `diskMachines` the files. `SafeSaveJsonFile`
renames a complete file into place: a save happens or not, and one that reports an error may
have happened (the mode is set after the rename). The time of a spend is a stamp from a counter,
which is what Refund compares; a machine's gcc machine is whether it has one. `req` is a provision
request with what its closure captured: expected flavor, token, stamp, previous cn.

| Action | Code |
|---|---|
| `Enroll`, `EnrollUnsaved`, `EnrollTorn` | EnrollMachine: both saved, or the second one fails; the first one fails; the process dies in between |
| `AcceptProvision`, `ReadFlavor`, `Spend`, `SpendRefused`, `StartJob`, `StartFails` | PostProvision |
| `Run`, `Skip`, `Cancel`, `Build`, `BuildFails`, `ProvisionMachine`, `ProvisionRefused`, `RefundFailed` | the job: serveQueue and ProvisionJob |
| `CreateToken`, `DeleteToken`, `Revoke`, `DeleteMachine` | the admin handlers |
| `Restart` | the files are loaded, requests and jobs are gone |

`minted`, `grants` and `revokedOK` are history. The queue is reduced to one running job per flavor,
which `JobQueue` proves. `Configured` are the flavors with a config directory: the admin makes them
by hand, no code does. Chroots are never removed here: DeleteFlavor is in `FlavorConfig`.

### FlavorConfig

One flavor. `stage` is the chroot, `config` its `.eserved` directory, `staging` and `trash` the two
directories of a swap, `links` the paths of `etc/portage` that link into `.eserved`; `layer` the
flavor's own config directory; `archive` and `record` what a sync stores; `lock` the flavor lock. A
path in the config stands for where its content came from: the layer or an archive. `proc` has the
requests in progress and the flavor's one job (`JobQueue` proves that there is one). `since` is history:
whether, since the layer got its make.conf, a config was installed and a build looked for the layer.

| Action | Code |
|---|---|
| `Enroll`, `Leave`, `EditLayer` | what changes without the lock: entries, and the admin's editor |
| `StartSync`, `StartApply`, `StartDeleteMachine`, `StartDeleteFlavor`, `StartProvision`, `StartBuild` | the handlers up to the lock; what they read there may be stale when they get it, and the list of archives has the uploads that are still being received (the glob matches `.sync-*.tar.gz`) |
| `Stage`, `SetAside`, `Place`, `Link` and their failures | buildStagedConfig, installStagedConfig with its two renames, linkSyncedPaths |
| `SetProfile`, `ProfileRefused` | setChrootProfileLocked |
| `Store`, `SetRecord`, `CommitFails` | PostSync's commit |
| `Extract`, `Restore`, `Reprofile`, `ProvisionMachine` and their failures | the provision job, which takes the lock twice |
| `EnsureLayer`, `BuildEnds` | BuildJob, as far as the config goes; its emerge is in `ChrootBuild` |
| `DropArchive`, `BlankRecord` | DeleteMachine under the lock |
| `CheckBusy`, `RemoveChroot`, `RemoveSync`, `RemoveLayer`, `RemovalFails` | DeleteFlavor |
| `CancelJob`, `Crash` | a job is over for FlavorBusy at once; the process dies |

Machines are only what this flavor sees of them; how an entry comes to be is in `Enrollment`.
`ByName` is the machines in the order of their names; `Sorted` gives a set of them in that order, its
k-th member by rank rather than by recursion, so that it can be proved about.

### Binhost and ChrootBuild

A package file is the number of the build that made it, an index the snapshot it names and the
packages it lists. `Binhost` has the operators (`NewName`, `Rewritten`, `Kept`, ...), `ChrootBuild`
gives them their order. `BuildJob` is one action per step with side effects; a step that runs a
command in the chroot may fail, be cancelled, or (without bwrap) leave a daemon. Without bwrap the
binds are mounted one by one; a bind that fails returns before releaseChroot is deferred. `Crash`
can cut any step short, `Boot` is CleanupStaleMounts. An emerge that fails, is cancelled or crashes leaves
what it had built in the cache and its index, which a later build may publish. `SyncGivesUp` are the two
ways out of ensureRepo that leave the old marker: no host repo to copy, and a marker that is not written. `EditCross` is the admin's editor: binpkgDir
reads `cross.conf` again at each step. `retargeted`, `disordered`, `torn` and `stuck` are history that
the properties name as exceptions.

### Epull, SelfUpdate, Client

`Epull` has one action per file or request of `epull register` and `epull provision`; between any
two the command may stop (`Stops`), and the job it started goes on in `orphans`. make.conf and
binrepos.conf are written in place: a kill or a full disk within the write leaves the first one `"cut"`
(`CutMakeConf`) and the second one without its end (`CutRepos`). binrepos.conf is a
sequence of sections with a name, a server and whether verify-signature is on; a section that is
removed leaves the place `Gone`, so that which section became which can be said. `SelfUpdate` keeps
inodes: `os.Create` truncates the file another upload writes, a rename moves an inode that may still
be written, a download reads the inode it opened. A file is two halves, so a mix of two builds and a
short write are seen. `Client` runs one command at a time; selfupdate needs an identity that loads.

### JobLanes and the refinement

`JobLanes` says what the queues are for, without channels, goroutines, cancels or the janitor: a
job is accepted into its flavor's lane if there is room, the first of a lane is taken into its hand,
worked on or not, and released; a restart empties all. `JobQueue` implements it under

| JobLanes | JobQueue |
|---|---|
| `lane` | the channel that `queues` gives for the flavor |
| `hand` | what that channel's goroutine took |
| `working` | the goroutine is past its start |
| `taken` | the jobs whose Start was accepted |

so registration, the mark, refusals, cancels, checks and reaping are stutters.

## Runs

| Run | Bounds | Shows |
|---|---|---|
| `JobQueueSafety` | 3 jobs, 2 flavors, 2 goroutines, 1 handler, channels of 2 | two jobs wait behind a running one; two flavors need two goroutines; the refinement of `JobLanes` |
| `JobQueueLiveness` | 2 jobs, 1 flavor, 2 handlers | every job ends; a job cancelled in the queue never runs |
| `JobStreams` | 2 streams, 3 events, channels of 2 | channels overflow and drain; replay and live part meet; every stream of an ended job ends |
| `EnrollmentRaces` | 2 of everything, 3 spends | all interleavings of two provisions with enrollments, cancels and admin operations |
| `EnrollmentCrashes` | 1 request, 1 failed save, 1 restart, 1 configured flavor | what was granted or revoked survives in memory and on disk |
| `FlavorConfig` | 1 machine, 2 archives, 2 requests, 1 job, a layer that is empty or has a make.conf, 1 fault or restart | a sync, an apply or a deletion meets another and a job at every step; the layer is made before and after syncs, applies and builds |
| `ChrootBuild` | 3 builds, 3 packages (1 too big), 2 binds, 2 snapshots kept, 3 names, 1 edit, 1 fault or crash | a third publish prunes; a failed, cancelled or crashed build is followed by another; two publishes in one second |
| `Client` | 2 flavors, 3 commands, 1 abandoned job, 1 edit, 1 new key; 3 uploads (1 short), 1 selfupdate, 1 restart | a retry after a kill at every step and within both writes; two uploads into one inode and a third that repairs |

Three spends allow a token to be spent, refunded and spent again while another one is in flight.
One machine is enough for `FlavorConfig`'s properties, each of which is about one archive at a time;
`FlavorConfigLastSync` has two. In the two violated runs of `FlavorConfig` no machine moves to another
flavor (`Movers` is empty), so that `FlavorConfigDeleted` shows the race of a sync with a deletion and not
the archive that a moved machine leaves behind. `FaultBound` ends the paths of `FlavorConfig` on which, in a flavor
with a layer, something failed and a job goes on or the machine has moved; the state after the failure
itself is checked in all cases, and the theorems have no such bound. `OneHalf` in `MCClient` keeps the provisioning and the selfupdate
half of `Client`, which share the identity alone, from multiplying each other.

`EnrollmentRaces` and `EnrollmentCrashes` stop when their tokens and requests are used up, a job
whose streams have all ended stops, and so do the builds, commands and uploads of `ChrootBuild` and
`Client`: these do not check deadlock; the job queue runs do. Symmetry is used where no liveness is
checked.

Runs that TLC finds violated, each a disagreement of the code with what it says (quoted in
`PROJECT.json`):

| Run | What happens |
|---|---|
| `JobStreamReplayRace` | a job that fails during a replay looks like a success to epull |
| `EnrollmentCancelledSwitch` | a cancelled provision switches the machine |
| `FlavorConfigLastSync` | an apply that read the last syncer before another sync puts the older config on top |
| `FlavorConfigDeleted` | a sync in flight stores the archive of a machine that was deleted |

### What the models contain

Behaviour of the code that the models reach, that a reader may not expect, and that the properties
name as exceptions or do not exclude:

- A job cancelled before Start marks it queued is revived and runs (`EndIsFinal` begins at the mark).
- Jobs cancelled in a channel keep their slots until the goroutine comes to them.
- The token of a provision cancelled in the queue is not refunded (`SpentIsAccounted` counts it
  as held by the dropped job).
- An unbound token brings a machine to a flavor that got another machine since the token was spent.
- A switch whose save failed takes effect in memory, and its token is handed back.
- An enrolled machine moved to another flavor may sync there without having provisioned it.
- A layer that gets its make.conf after a sync brought one is taken for installed, since
  flavorLayerApplied sees only that a link is there: builds emerge with the client's make.conf, unsigned,
  until the next config is installed. `BuildReadsLayer` asks for the layer's make.conf only when a config
  was installed since, and otherwise that the build does not emerge with the stage's own.
- An apply, and a build that installs the layer, take uploads that are still being received for
  archives. (One that a restart left behind is listed for ever; that one is not kept in the model.)
- A machine that moved to another flavor and is deleted leaves its archive in the old one.
- A publish that fails on Packages.gz leaves Packages naming a snapshot that is removed (`torn`).
- A snapshot may get an earlier name than an older one: with the clock set back, or in a second whose
  first snapshot was pruned already. Pruning takes it for the older and removes it (`disordered`).
- An emerge that fails leaves packages that a later build of others publishes.
- A build whose `cross.conf` is edited meanwhile may end well and publish nothing of its own.
- After the server made itself a new signing key, epull trusts the old one again.
- A job that was abandoned by its client may switch the machine afterwards; the client keeps the binhost
  of the flavor before (`excused` in `ConfigMatchesServer`).
- A kill within the write of make.conf or binrepos.conf loses what was to follow, the user's part
  included, until the next provision for epull's own lines and for ever for the user's. A section that a
  user named like the flavor is replaced. `VerifiedMeansTrusted` and `OthersKept` say so.

### Fairness

`JobQueue` assumes weak fairness of each Start call, goroutine and cancel handler: the Go scheduler
runs what can run, and the work of a job ends because its commands end or are killed with its
context. Requests, cancels, the janitor and crashes are not fair. `JobStream` assumes weak fairness
of each stream's handler, whose client reads what it is sent or goes away; the job is not fair, so
`StreamsEnd` says what follows once it is over. The other modules state safety only: their
requests come from outside, and nothing waits in them but for the flavor lock, which
`LockedInside` says is given back on every path.

## Proofs

`JobQueueProofs` proves, for any sets of jobs, flavors, goroutines and handlers and any
queue length, from `QueueBufferAssumption` and `NullAssumption` alone:

- `TypeCorrect`: `TypeOK` is an invariant.
- `MutualExclusion`: `OneAtATime` is an invariant. It is not inductive: it says nothing of where a
  goroutine's job came from. `IInv` adds that queues and goroutines name each other (`ServedOnce`),
  that a Start call holds the channel of its job's flavor (`CallsOwned`), that a channel holds jobs
  of its flavor (`ChansOwned`), and a goroutine holds a job of its own (`HandsOwned`). Two running
  jobs of one flavor then belong to goroutines that `queues` gives for the same flavor.
- `EndStays`: the action property `EndIsFinal`, from the same invariant.
- `RefusedStays`: `RefusedNeverRuns`. `Placed` is the strengthening: whatever is in a channel or in
  a goroutine's hands was accepted by its `Start`, so what was refused is in neither.
- `EndReleases` and `BusyIsTrue`: `EndedJobsHoldNothing` and `UnfinishedIsBusy`. Both need `Down`
  and `Registered`: nothing of the old process is left to act while the server is down, and the
  registry has every job whose `Start` is in progress, also one that already ended and that
  `MarkQueued` is about to bring back.
- `OwnedByOne`: `OneOwner`, which counts the places a job is in. Two facts about every step bound the
  count: no two slots of channels or hands have one job (`Single`), and a job that is not over has its
  Start, a slot or a hand (`NoneStranded`). `PlacesAre` turns them into cardinalities: at most one
  place, and exactly one while the job is not over.
- `EndedIsSkipped`: `EndedWaitingNeverRuns`, which relates two moments any time apart. `Passed` holds
  from the first moment on: the job is over and only ever in the hands of a goroutine that has not
  checked it yet, or a restart lost it. Each step keeps that, and it excludes that the job runs.

`NextIInv` has one lemma per group of actions; `OwnedKept`, `CallMoves` and `HandMoves` carry the
ownership part through the actions that move one program counter.

`JobLanesProofs` proves `LanesImplemented`, that `JobQueue` implements `JobLanes`, from the same
invariant and two conjuncts more (`LInv`): a job whose Start has not got to its end is in no channel
and in no hand (`FreshJobs`), so what is accepted is new to the lanes, and a goroutine has a job
exactly while it works on one (`EmptyHands`). Each action of `JobQueue` is then one step of
`JobLanes` or a stutter (`StartLanes`, `WorkerLanes`).

`EnrollmentProofs` proves seven properties of `Enrollment` for any sets of tokens, machines, flavors,
certificates and requests and any bounds, failed saves and restarts included, from
`BoundAssumption` and `NullAssumption`:

- `EnrollmentTypes`, `GivenOnce`, `StaysSpent`, `Bound` and `RevocationStays` follow from one
  inductive invariant (`IInv`). `OneGrantPerToken` alone says nothing of the tokens that requests
  hold. `Ledger` adds that a held token is spent by the stamp of its request, in memory and in the
  file (`HeldSpent`), that no other request holds it (`HeldOnce`), that it was given for nothing yet
  (`HeldUngiven`), and that entries, requests and grants agree with the binding the token was made
  with (`EntryBound`, `HeldBound`, `GrantBound`). Memory and file may differ after a failed save:
  each conjunct is about both, which is why a restart keeps it. A revoked machine is still there
  (`Revoked`), or enrolling it anew would forget the revocation.
- The steps are sorted by what they do to the tokens: they forget (`ForgettingKeeps`: deletions,
  restarts, all the moves of a job), spend and tell nobody (`LostSpendKeeps`), spend for a request
  (`SpendKeeps`), enroll (`EnrollKeeps`), write a switch (`SwitchKeeps`), refund (`RefundKeeps`)
  or make a token (`CreateKeeps`). Each action is then one of these.
- `FlavorIsPaid`, an action property, needs `Stamped` besides: stamps lie in the past and are one
  request's, a stamp is in no grant before its switch is written, and a job that would change a
  flavor holds a spend.
- `NoTokenLost` is inductive with `IInv` and `Stamped`: a fault or restart shows in its counter
  (`Counted`), and every other step keeps the grant or the holder that accounts for a spent token.

`JobStreamProofs` proves `StreamTypes`, `DeliveredInOrder`, `DeliveredWhole` and `CtlReportsTruth` for
any streams, channel capacity and number of events, from `SubBufferAssumption` and
`MaxEventsAssumption`. `IInv` puts the offset between the two halves of a stream: what a channel
holds comes after the offset (`ChanOrder`), what was replayed up to it, so that what was written
comes before what the channel holds (`GotOrder`); a stream that lost nothing tracks the log index by
index (`Tracks`); and a terminal event is the one the job kept (`EndsAreTrue`). Once the job is over
a replay writes the terminal event alone, and `Following` leaves such a stream out: it never reads
its channel.

`FlavorConfigProofs` proves all six properties of `FlavorConfig` for any machines, archives, paths and
requests and any number of failures and restarts, from
`PathAssumption`, `NameAssumption`, `BoundAssumption` and `NullAssumption`.

- `LockIsGivenBack` comes first: with `LockedInside` goes that an operation is where an operation of
  its kind can be (`Ordered`). From it `OneInside`: while one is between two steps of an install or a
  deletion, everybody else is outside, so the lemmas of the other conjuncts look at one operation.
- `InstallInvariant` is the rest of the inductive invariant. `PairStored` says nothing of the time
  between the two files, where `Paired` says who is at it; `OnlyAppliedIsKept` needs what a sync has
  brought at each step of the swap, first in `staging`, then in `config`, then through the links
  (`SyncApplied`); `BuildReadsLayer` needs the same of the layer's make.conf since it was there (`Fresh`),
  and that a build which has looked for it has a link, whoever the link leads to (`BuildLinked`).
  `RecordMatchesArchive`, `NoLinkDangles`, `BuildsReadTheConfig` and `StoredWasApplied` follow.
- `InstallTypes` needs that no archive is listed twice: `Sorted` of a set has each member once
  (`SortedIs`), because the ranks of its places are an injection into 1 .. n and so onto it
  (`KthExists`) and no machine has two places in `ByName` (`NameAssumption`); uploads and machines differ;
  and putting the last syncer last repeats nobody, as it is taken out of the rest first (`ApplyOrderIs`).

`ChrootBuildProofs` proves the six properties of `ChrootBuild` for any packages, binds, requests and any
number of kept snapshots, builds, edits and faults, from `BinhostAssumption` and `BuildAssumption`. `IInv`
has one part for each:

- `BindInv`: daemons live only where something is mounted, and a job past its mounts has some.
- `ServeInv`: the snapshot of a publish has the last name there is until it is pruned (`Newest`), no
  live index points at it before it is complete (`Unpointed`), and from then on `Packages` does. Pruning
  keeps the last by name (`NewestIsKept`), which is what both indexes name at that point. `NewName` is a
  name that is free (`NewNameIsFree`, from `MinIs`, which rests on the library's well-founded minimum).
  `LiveIndexAlwaysServes` follows, and the action property `SnapshotsAreImmutable`.
- `PubInv`: what is in the cache for a requested atom after `cleanAtomCache` was made by this build, and
  is listed; it is carried into the snapshot, and from there into the index. `DoneIsPublished` follows.

`ClientProofs` proves the six properties of `Client` for any flavors, any first binrepos.conf, any
uploads and any number of commands, orphaned jobs, edits, selfupdates and restarts, from
`EpullAssumption` and `UpdateAssumption`.

- For binrepos.conf, `VerifiedMeansTrusted` is strengthened to what must be so before a section of the
  server's is written (`Verifying`): once the provision is past these steps the key is trusted and
  make.conf asks for it, and until then there is no such section; a write that is cut short keeps it, as
  it leaves a part of what the whole one would (`CutIs`). `NamedOnce`, no two sections with the
  name of one flavor, is what makes `RewrittenIs` true: the file that is written has one section of the
  server, the flavor's. `Matching` carries `ConfigMatchesServer` through the steps of a later provision.
- For selfupdate, an inode is named by its arch alone (`Owned`). An upload that nobody crossed is the
  only one of its arch, and what its file holds is known at each step (`Alone`); so what the last one
  put right stays so until the next begins (`Repaired`). `RunsWholeBuild` needs little: a download is
  installed only if it agrees with one manifest, and only a whole build does.
- `ServerAlone` and `NextIs` let each half leave the other one's invariant alone.

Every safety property of every passing run is so stated by a theorem. Only model-checked: the
liveness properties `EveryJobEnds` and `StreamsEnd`, since liveness under fairness and `ENABLED` are
out of the prover's reach. The runs that are found violated are TLC's alone.

## What is left

- The composition of `JobQueue` with the streams of a revived job, and with `Enrollment`.
- Operators over bounded inputs: the arch gate and the profile choice, the parsing of server-sent
  events.
- An abstract token ledger that `Enrollment` implements.

## Not modelled

Cryptography, TLS and gpg (a certificate and a key are values), the HTTP routing, settings, stages
and system information (reads without state), emerge, crossdev and the other external programs
(their outcome is a choice), the wording of messages and logs, `epull sync` beyond the upload it
makes, `-insecure`, and eservectl's command line.
