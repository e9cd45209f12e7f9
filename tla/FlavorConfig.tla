---------------------------- MODULE FlavorConfig ----------------------------
(***************************************************************************)
(* The portage config of one flavor: syncs, applies, the config a          *)
(* provision job restores, the flavor layer a build insists on, and the    *)
(* deletion of machines and of the flavor (cmd/eserved/chroot sync.go,     *)
(* flavorconfig.go and provision.go, with the handlers that call them).    *)
(*                                                                         *)
(* A step is one change of the file system, or what runs under a mutex of  *)
(* the storage package. An archive stands for its fingerprint and a path   *)
(* in the config directory for where its content came from. The work of a  *)
(* flavor's jobs runs one at a time (JobQueue), so there is one job.       *)
(***************************************************************************)
EXTENDS Naturals, Sequences, FiniteSets, SequencesExt

CONSTANTS
    CNs,         \* machine names
    Confs,       \* portage archives the machines may upload
    Paths,       \* names the sync knows (PortageSyncPaths)
    MakeConf,    \* the one the flavor layer always wins
    Holds,       \* the paths each archive has
    Layers,      \* the paths the admin may put in the flavor's config dir
    ByName,      \* the machines in the order of their archives' names
    Movers,      \* bound: machines that may move to another flavor
    Requests,    \* requests in progress at once
    Job,         \* the flavor's job
    Layer, Upload, Alone, NoDir, None,
    MaxFaults    \* bound: file operations that fail, and restarts

ASSUME PathAssumption ==
    /\ MakeConf \in Paths
    /\ Holds \in [Confs -> SUBSET Paths]
    /\ Layers \subseteq SUBSET Paths
ASSUME NameAssumption ==
    ByName \in Seq(CNs) /\ IsInjective(ByName) /\ \A cn \in CNs : Contains(ByName, cn)
ASSUME BoundAssumption == MaxFaults \in Nat /\ IsFiniteSet(Confs)
ASSUME NullAssumption ==
    /\ {Upload, Alone, None} \cap CNs = {}
    /\ ({Layer, Upload, Alone, None} \cup CNs) \cap Confs = {}
    /\ Layer # None /\ Upload # Alone
    /\ Job \notin Requests /\ None \notin Requests \cup {Job}
    /\ NoDir \notin [Paths -> Confs \cup {Layer, None}]

VARIABLES
    entry,           \* each machine's entry, as this flavor sees it
    stage,           \* the chroot: absent, bare (no stage marker) or provisioned
    config,          \* its .eserved directory
    staging, trash,  \* .eserved.new-* and .eserved.old-*
    links,           \* paths of etc/portage that link into .eserved
    layer,           \* paths in the flavor's config dir
    archive,         \* sync/<flavor>/<cn>.tar.gz
    record,          \* sync/<flavor>/fingerprint.json
    lock,            \* who holds the flavor lock
    proc,            \* each request and the job
    busy,            \* FlavorBusy: the job is not over
    faults,
    since            \* history: whether a config was built, and whether a build
                     \* looked for the layer, since that got its make.conf

disk == <<stage, config, staging, trash, links, layer, archive, record>>
vars == <<entry, disk, lock, proc, busy, faults, since>>

Procs   == Requests \cup {Job}
Dir     == [Paths -> Confs \cup {Layer, None}]
Record  == [print : Confs \cup {None}, by : CNs \cup {None}]
Entries == {"none", "enrolled", "provisioned", "elsewhere"}
Install == {"stage", "aside", "place", "link", "profile", "store", "record"}
Pcs     == {"idle", "wait", "extract", "restore", "reprofile", "machine",
            "layer", "building", "drop", "blank", "gone", "raze", "unsync", "unlayer"} \cup Install
Ops     == {"none", "sync", "apply", "machine", "flavor", "provision", "join", "build"}
Proc    == [op : Ops, pc : Pcs, cn : CNs \cup {None}, conf : Confs \cup {None},
            todo : Seq(CNs \cup Confs \cup {Upload, Alone})]

NoRecord == [print |-> None, by |-> None]
Blank    == [op |-> "none", pc |-> "idle", cn |-> None, conf |-> None, todo |-> <<>>]

TypeOK ==
    /\ entry \in [CNs -> Entries]
    /\ stage \in {"absent", "bare", "provisioned"}
    /\ config \in Dir \cup {NoDir} /\ staging \in Dir \cup {NoDir} /\ trash \in Dir \cup {NoDir}
    /\ links \subseteq Paths
    /\ layer \in Layers \cup {{}}
    /\ archive \in [CNs -> Confs \cup {None}]
    /\ record \in Record
    /\ lock \in Procs \cup {None}
    /\ DOMAIN proc = Procs
    \* no archive is applied twice
    /\ \A p \in Procs : proc[p] \in Proc /\ IsInjective(proc[p].todo)
    /\ busy \in BOOLEAN
    /\ faults \in 0 .. MaxFaults
    /\ since \subseteq {"install", "look"}

Init ==
    /\ entry = [cn \in CNs |-> "none"]
    /\ stage = "absent"
    /\ config = NoDir /\ staging = NoDir /\ trash = NoDir
    /\ links = {}
    /\ layer = {}
    /\ archive = [cn \in CNs |-> None]
    /\ record = NoRecord
    /\ lock = None
    /\ proc = [p \in Procs |-> Blank]
    /\ busy = FALSE /\ faults = 0 /\ since = {}

-----------------------------------------------------------------------------
(* Helpers *)

At(p, pc)  == proc[p].pc = pc
Goto(p, pc) == proc' = [proc EXCEPT ![p].pc = pc]
Begin(p, op, pc, cn, conf, todo) ==
    /\ proc[p] = Blank
    /\ proc' = [proc EXCEPT ![p] =
                  [op |-> op, pc |-> pc, cn |-> cn, conf |-> conf, todo |-> todo]]

Unlock(p) == lock' = IF lock = p THEN None ELSE lock
End(p) ==
    /\ proc' = [proc EXCEPT ![p] = Blank]
    /\ Unlock(p)
    /\ busy' = IF p = Job THEN FALSE ELSE busy
Fault == faults < MaxFaults /\ faults' = faults + 1

\* FlavorFingerprintInfo's ok; a machine on the flavor.
Synced == record.print # None
On(cn) == entry[cn] \in {"enrolled", "provisioned"}

\* buildStagedConfig: the layer, the archive over it, the layer's make.conf last.
Built(c) ==
    [q \in Paths |->
        IF q \in layer /\ (q = MakeConf \/ c = None \/ q \notin Holds[c]) THEN Layer
        ELSE IF c # None /\ q \in Holds[c] THEN c ELSE None]
Noted(what) == IF MakeConf \in layer THEN since \cup {what} ELSE since
Present(dir) == {q \in Paths : dir[q] # None}

\* The machines of S in the order of their archives' names: the kth is the one
\* with k of them up to it.
Places(S) == {i \in DOMAIN ByName : ByName[i] \in S}
Upto(S, i) == {j \in Places(S) : j <= i}
Sorted(S) == [k \in 1 .. Cardinality(Places(S)) |->
                 ByName[CHOOSE i \in Places(S) : Cardinality(Upto(S, i)) = k]]

\* PostSync's temporary files, by content. One that a restart left behind, which
\* would be listed like these until the flavor is deleted, is not kept.
Uploads ==
    {proc[p].conf : p \in {q \in Requests : proc[q].op = "sync" /\ proc[q].pc # "record"}} \ {None}

\* ClientSyncArchives: its pattern matches the uploads too, whose names come first
\* (.sync-*), then the machines' archives.
Archived == {cn \in CNs : archive[cn] # None}
Archives(uploads) == uploads \o Sorted(Archived)
\* mutant: the last synced client is not taken out of the rest
ApplyOrderTwice(uploads) ==
    IF Synced THEN Archives(uploads) \o <<record.by>> ELSE Archives(uploads)
\* PostApplyFlavor: the last synced client goes last.
ApplyOrder(uploads) ==
    IF Synced THEN uploads \o Sorted(Archived \ {record.by}) \o <<record.by>>
    ELSE Archives(uploads)

\* mutant: a chroot is taken for one with the layer in it
LayerAppliedByChroot == stage = "provisioned"
\* flavorLayerApplied
LayerApplied == MakeConf \in layer => MakeConf \in links

-----------------------------------------------------------------------------
(* What machines and the admin do outside the lock *)

\* Identity; a machine that provisioned another flavor keeps its gcc machine,
\* which is what MachineProvisioned looks at.
Enroll(cn) ==
    /\ ~On(cn)
    /\ \E e \in {"enrolled"} \cup (IF entry[cn] = "none" THEN {} ELSE {"provisioned"}) :
          entry' = [entry EXCEPT ![cn] = e]
    /\ UNCHANGED <<disk, lock, proc, busy, faults, since>>

\* The machine's entry moves to another flavor: nothing here is touched.
Leave(cn) ==
    /\ cn \in Movers /\ On(cn)
    /\ entry' = [entry EXCEPT ![cn] = "elsewhere"]
    /\ UNCHANGED <<disk, lock, proc, busy, faults, since>>

\* The admin adds, edits or removes files of the flavor's config.
EditLayer(l) ==
    /\ layer' = l /\ l # layer
    /\ since' = IF MakeConf \in l \cap layer THEN since ELSE {}
    /\ UNCHANGED <<entry, stage, config, staging, trash, links, archive, record,
                   lock, proc, busy, faults>>

\* PostSync up to the lock: the upload is a temporary file in the sync directory.
StartSync(p, cn, c) ==
    /\ entry[cn] = "provisioned"
    /\ stage = "provisioned"
    /\ Begin(p, "sync", "wait", cn, c, <<Upload>>)
    /\ UNCHANGED <<entry, disk, lock, busy, faults, since>>

\* PostApplyFlavor lists archives and reads the record before it locks.
StartApply(p) ==
    /\ stage = "provisioned"
    /\ \E uploads \in SetToSeqs(Uploads) :
          Begin(p, "apply", "wait", None, None, ApplyOrder(uploads))
    /\ UNCHANGED <<entry, disk, lock, busy, faults, since>>

\* A save that fails leaves the entry deleted in memory and ends the request.
StartDeleteMachine(p, cn) ==
    /\ entry[cn] # "none"
    /\ entry' = [entry EXCEPT ![cn] = "none"]
    /\ \/ On(cn) /\ Begin(p, "machine", "wait", cn, None, <<>>) /\ UNCHANGED faults
       \/ ~On(cn) /\ proc[p] = Blank /\ UNCHANGED <<proc, faults>>
       \/ On(cn) /\ proc[p] = Blank /\ Fault /\ UNCHANGED proc
    /\ UNCHANGED <<disk, lock, busy, since>>

StartDeleteFlavor(p) ==
    /\ \A cn \in CNs : ~On(cn)
    /\ ~busy
    /\ Begin(p, "flavor", "wait", None, None, <<>>)
    /\ UNCHANGED <<entry, disk, lock, busy, faults, since>>

\* The queue hands the goroutine a provision, which makes the chroot if there is
\* none, or a build.
StartProvision(cn) ==
    /\ entry[cn] # "none"
    /\ LET op == IF On(cn) THEN "provision" ELSE "join"
       IN IF stage = "provisioned"
          THEN Begin(Job, op, "wait", cn, None, <<>>) /\ UNCHANGED stage
          ELSE Begin(Job, op, "extract", cn, None, <<>>) /\ stage' = "bare"
    /\ busy' = TRUE
    /\ UNCHANGED <<entry, config, staging, trash, links, layer, archive, record, lock,
                   faults, since>>

StartBuild ==
    /\ stage = "provisioned"
    /\ Begin(Job, "build", "wait", None, None, <<>>)
    /\ busy' = TRUE
    /\ UNCHANGED <<entry, disk, lock, faults, since>>

\* The job's state is final at once, its work goes on until it notices.
CancelJob ==
    /\ busy /\ busy' = FALSE
    /\ UNCHANGED <<entry, disk, lock, proc, faults, since>>

-----------------------------------------------------------------------------
(* The flavor lock *)

FirstStep(op) ==
    CASE op \in {"sync", "apply"}         -> "stage"
      [] op \in {"provision", "join"}     -> "restore"
      [] op = "build"                     -> "layer"
      [] op = "machine"                   -> "drop"
      [] op = "flavor"                    -> "gone"

Acquire(p) ==
    /\ At(p, "wait")
    /\ lock = None
    /\ lock' = p
    /\ Goto(p, FirstStep(proc[p].op))
    /\ UNCHANGED <<entry, disk, busy, faults, since>>

-----------------------------------------------------------------------------
(* Installing a config: ApplySync, applyFlavorToChrootLocked and             *)
(* restoreSyncedConfig share buildStagedConfig and installStagedConfig.      *)

\* Nobody synced yet: an apply installs the layer alone, if there is one.
Source(p) == IF proc[p].todo = <<>> THEN Alone ELSE Head(proc[p].todo)
Content(p) ==
    CASE Source(p) = Upload   -> proc[p].conf
      [] Source(p) \in CNs    -> archive[Source(p)]
      [] Source(p) \in Uploads -> Source(p)
      [] OTHER                -> None
Readable(p) == stage # "absent" /\ (Source(p) # Alone => Content(p) # None)

Stage(p) ==
    /\ At(p, "stage")
    /\ Readable(p)
    /\ IF Source(p) = Alone /\ layer = {} THEN staging' = NoDir /\ Goto(p, "profile")
       ELSE staging' = Built(Content(p)) /\ Goto(p, "aside")
    /\ trash' = NoDir
    /\ since' = Noted("install")
    /\ UNCHANGED <<entry, stage, config, links, layer, archive, record, lock, busy,
                   faults>>

\* The archive is rejected or its fingerprint is not the claimed one, its client
\* is gone, the job was cancelled, there is no chroot or no such archive, or another
\* machine's upload is still being received.
StageRefused(p) ==
    /\ At(p, "stage")
    /\ \/ UNCHANGED faults /\ \/ ~Readable(p) \/ proc[p].op = "sync"
                              \/ Source(p) \in Confs \/ (p = Job /\ ~busy)
       \/ Fault
    /\ staging' = NoDir /\ trash' = NoDir
    /\ End(p)
    /\ UNCHANGED <<entry, stage, config, links, layer, archive, record, since>>

SetAside(p) ==
    /\ At(p, "aside")
    /\ trash' = config
    /\ config' = NoDir
    /\ Goto(p, "place")
    /\ UNCHANGED <<entry, stage, staging, links, layer, archive, record, lock, busy,
                   faults, since>>

SetAsideFails(p) ==
    /\ At(p, "aside")
    /\ Fault
    /\ staging' = NoDir
    /\ End(p)
    /\ UNCHANGED <<entry, stage, config, trash, links, layer, archive, record, since>>

Place(p) ==
    /\ At(p, "place")
    /\ config' = staging
    /\ staging' = NoDir
    /\ Goto(p, "link")
    /\ UNCHANGED <<entry, stage, trash, links, layer, archive, record, lock, busy,
                   faults, since>>

\* mutant: the failed rename is not looked at
PlaceFailsSilently(p) ==
    /\ At(p, "place")
    /\ Fault
    /\ staging' = NoDir
    /\ config' = trash /\ trash' = NoDir
    /\ Goto(p, "store")
    /\ UNCHANGED <<entry, stage, links, layer, archive, record, lock, busy, since>>
\* The old directory is moved back.
PlaceFails(p) ==
    /\ At(p, "place")
    /\ Fault
    /\ staging' = NoDir
    /\ config' = trash /\ trash' = NoDir
    /\ End(p)
    /\ UNCHANGED <<entry, stage, links, layer, archive, record, since>>

\* What follows the install; restoreSyncedConfig gives the lock back before
\* SetChrootProfile takes it again.
AfterLink(p) ==
    CASE Len(proc[p].todo) > 1                  -> "stage"
      [] proc[p].op \in {"provision", "join"}   -> "reprofile"
      [] OTHER                                  -> "profile"

\* mutant: links to paths the config no longer has stay
LinkKeepsStale(p) ==
    /\ At(p, "link")
    /\ trash' = NoDir
    /\ links' = links \cup Present(config)
    /\ proc' = [proc EXCEPT ![p].pc = AfterLink(p), ![p].todo = IF @ = <<>> THEN @ ELSE Tail(@)]
    /\ lock' = IF AfterLink(p) = "reprofile" THEN None ELSE lock
    /\ UNCHANGED <<entry, stage, config, staging, layer, archive, record, busy,
                   faults, since>>
\* The old directory is removed, then linkSyncedPaths.
Link(p) ==
    /\ At(p, "link")
    /\ trash' = NoDir
    /\ links' = Present(config)
    /\ proc' = [proc EXCEPT ![p].pc = AfterLink(p), ![p].todo = IF @ = <<>> THEN @ ELSE Tail(@)]
    /\ lock' = IF AfterLink(p) = "reprofile" THEN None ELSE lock
    /\ UNCHANGED <<entry, stage, config, staging, layer, archive, record, busy,
                   faults, since>>

\* The removal fails, or one of the links in between.
LinkFails(p) ==
    /\ At(p, "link")
    /\ Fault
    /\ \/ UNCHANGED <<trash, links>>
       \/ trash' = NoDir /\ \E q \in Paths : links' \in {links \cup (Present(config) \ {q}), links \ {q}}
    /\ End(p)
    /\ UNCHANGED <<entry, stage, config, staging, layer, archive, record, since>>

\* setChrootProfileLocked
SetProfile(p) ==
    /\ At(p, "profile")
    /\ CASE proc[p].op = "sync"  -> Goto(p, "store") /\ UNCHANGED <<lock, busy>>
         [] proc[p].op = "build" -> Goto(p, "building") /\ UNCHANGED <<lock, busy>>
         [] OTHER                -> End(p)
    /\ UNCHANGED <<entry, disk, faults, since>>

\* mutant: the error path keeps the lock
ProfileRefusedLocked(p) ==
    /\ At(p, "profile")
    /\ proc' = [proc EXCEPT ![p] = Blank]
    /\ busy' = IF p = Job THEN FALSE ELSE busy
    /\ UNCHANGED <<entry, disk, lock, faults, since>>
\* The profile is not in the chroot's repo, the override or cross.conf is broken:
\* the config stays installed and nothing is stored.
ProfileRefused(p) ==
    /\ At(p, "profile")
    /\ End(p)
    /\ UNCHANGED <<entry, disk, faults, since>>

\* PostSync's commit: the rename, then the record.
Store(p) ==
    /\ At(p, "store")
    /\ archive' = [archive EXCEPT ![proc[p].cn] = proc[p].conf]
    /\ Goto(p, "record")
    /\ UNCHANGED <<entry, stage, config, staging, trash, links, layer, record, lock,
                   busy, faults, since>>

SetRecord(p) ==
    /\ At(p, "record")
    /\ record' = [print |-> proc[p].conf, by |-> proc[p].cn]
    /\ End(p)
    /\ UNCHANGED <<entry, stage, config, staging, trash, links, layer, archive,
                   faults, since>>

CommitFails(p) ==
    /\ proc[p].pc \in {"store", "record"}
    /\ Fault
    /\ End(p)
    /\ UNCHANGED <<entry, disk, since>>

-----------------------------------------------------------------------------
(* The provision job: Provision, restoreSyncedConfig, ProvisionMachine *)

\* tar puts the stage's make.conf in the place of a link; the marker comes last.
Extract ==
    /\ At(Job, "extract")
    /\ stage # "absent"
    /\ stage' = "provisioned"
    /\ links' = links \ {MakeConf}
    /\ Goto(Job, "wait")
    /\ UNCHANGED <<entry, config, staging, trash, layer, archive, record, lock, busy,
                   faults, since>>

\* Cancelled, no stagefile, no room, or the chroot was removed underneath.
ExtractFails ==
    /\ At(Job, "extract")
    /\ \/ (~busy \/ stage = "absent") /\ UNCHANGED faults
       \/ Fault
    /\ End(Job)
    /\ UNCHANGED <<entry, disk, since>>

\* restoreSyncedConfig: a config that is there is linked again, else the
\* machine's archive is installed, or the layer, or nothing.
Restore ==
    /\ At(Job, "restore")
    /\ stage # "absent"
    /\ staging' = NoDir /\ trash' = NoDir
    /\ LET cn == proc[Job].cn
           mine == IF archive[cn] # None THEN <<cn>> ELSE <<Alone>>
       IN IF config = NoDir /\ (archive[cn] # None \/ layer # {})
          THEN /\ proc' = [proc EXCEPT ![Job].pc = "stage", ![Job].todo = mine]
               /\ UNCHANGED <<lock, links>>
          ELSE /\ Goto(Job, "reprofile")
               /\ lock' = None
               /\ links' = IF config = NoDir THEN links ELSE Present(config)
    /\ UNCHANGED <<entry, stage, config, layer, archive, record, busy, faults, since>>

RestoreFails ==
    /\ At(Job, "restore")
    /\ stage = "absent"
    /\ End(Job)
    /\ UNCHANGED <<entry, disk, faults, since>>

\* SetChrootProfile, under a lock of its own.
Reprofile ==
    /\ At(Job, "reprofile")
    /\ lock = None
    /\ \/ stage # "absent" /\ Goto(Job, "machine") /\ UNCHANGED <<lock, busy>>
       \/ End(Job)
    /\ UNCHANGED <<entry, disk, faults, since>>

\* The entry must still be where it was when the request came in.
ProvisionMachine ==
    /\ At(Job, "machine")
    /\ LET cn == proc[Job].cn
           expected == IF proc[Job].op = "join" THEN entry[cn] = "elsewhere" ELSE On(cn)
       IN entry' = IF expected THEN [entry EXCEPT ![cn] = "provisioned"] ELSE entry
    /\ End(Job)
    /\ UNCHANGED <<disk, faults, since>>

-----------------------------------------------------------------------------
(* The build job, as far as the config goes *)

EnsureLayer ==
    /\ At(Job, "layer")
    /\ IF LayerApplied THEN Goto(Job, "building")
       ELSE \E uploads \in SetToSeqs(Uploads) :
               proc' = [proc EXCEPT ![Job].pc = "stage", ![Job].todo = Archives(uploads)]
    /\ since' = Noted("look")
    /\ UNCHANGED <<entry, disk, lock, busy, faults>>

BuildEnds ==
    /\ At(Job, "building")
    /\ End(Job)
    /\ since' = since \ {"look"}
    /\ UNCHANGED <<entry, disk, faults>>

-----------------------------------------------------------------------------
(* Deletions, under the lock *)

DropArchive(p) ==
    /\ At(p, "drop")
    /\ archive' = [archive EXCEPT ![proc[p].cn] = None]
    /\ Goto(p, "blank")
    /\ UNCHANGED <<entry, stage, config, staging, trash, links, layer, record, lock,
                   busy, faults, since>>

\* mutant: the record stays
BlankForgotten(p) ==
    /\ At(p, "blank")
    /\ End(p)
    /\ UNCHANGED <<entry, disk, faults, since>>
BlankRecord(p) ==
    /\ At(p, "blank")
    /\ record' = IF record.by = proc[p].cn THEN NoRecord ELSE record
    /\ End(p)
    /\ UNCHANGED <<entry, stage, config, staging, trash, links, layer, archive,
                   faults, since>>

\* DeleteFlavor asks for a busy job again, then removes one tree after the other.
CheckBusy(p) ==
    /\ At(p, "gone")
    /\ IF busy THEN End(p) ELSE Goto(p, "raze") /\ UNCHANGED <<lock, busy>>
    /\ UNCHANGED <<entry, disk, faults, since>>

RemoveChroot(p) ==
    /\ At(p, "raze")
    /\ stage' = "absent"
    /\ config' = NoDir /\ staging' = NoDir /\ trash' = NoDir
    /\ links' = {}
    /\ since' = {}
    /\ Goto(p, "unsync")
    /\ UNCHANGED <<entry, layer, archive, record, lock, busy, faults>>

\* Uploads that wait for the lock lose their temporary files.
RemoveSync(p) ==
    /\ At(p, "unsync")
    /\ archive' = [cn \in CNs |-> None]
    /\ record' = NoRecord
    /\ proc' = [q \in Procs |-> IF q = p THEN [proc[p] EXCEPT !.pc = "unlayer"]
                                ELSE [proc[q] EXCEPT !.conf = None]]
    /\ UNCHANGED <<entry, stage, config, staging, trash, links, layer, lock, busy,
                   faults, since>>

RemoveLayer(p) ==
    /\ At(p, "unlayer")
    /\ layer' = {} /\ since' = {}
    /\ End(p)
    /\ UNCHANGED <<entry, stage, config, staging, trash, links, archive, record,
                   faults>>

\* A removal fails: of a tree any part may be left.
RemovalFails(p) ==
    /\ proc[p].pc \in {"drop", "blank", "raze", "unsync", "unlayer"}
    /\ Fault
    /\ IF At(p, "raze") THEN /\ stage' \in {stage, IF stage = "absent" THEN stage ELSE "bare"}
                             /\ config' \in {config, NoDir}
       ELSE UNCHANGED <<stage, config>>
    /\ End(p)
    /\ UNCHANGED <<entry, staging, trash, links, layer, archive, record, since>>

-----------------------------------------------------------------------------
\* The server dies; the directories stay as they are.
Crash ==
    /\ Fault
    /\ lock' = None
    /\ proc' = [p \in Procs |-> Blank]
    /\ busy' = FALSE
    /\ UNCHANGED <<entry, disk, since>>

InstallStep(p) ==
    \/ Stage(p) \/ StageRefused(p) \/ SetAside(p) \/ SetAsideFails(p)
    \/ Place(p) \/ PlaceFails(p) \/ Link(p) \/ LinkFails(p)
    \/ SetProfile(p) \/ ProfileRefused(p) \/ Store(p) \/ SetRecord(p) \/ CommitFails(p)

DeleteStep(p) ==
    \/ DropArchive(p) \/ BlankRecord(p) \/ CheckBusy(p)
    \/ RemoveChroot(p) \/ RemoveSync(p) \/ RemoveLayer(p) \/ RemovalFails(p)

JobStep ==
    \/ Extract \/ ExtractFails \/ Restore \/ RestoreFails
    \/ Reprofile \/ ProvisionMachine \/ EnsureLayer \/ BuildEnds

Start(p) ==
    \/ \E cn \in CNs, c \in Confs : StartSync(p, cn, c)
    \/ StartApply(p)
    \/ \E cn \in CNs : StartDeleteMachine(p, cn)
    \/ StartDeleteFlavor(p)

Next ==
    \/ \E cn \in CNs : Enroll(cn) \/ Leave(cn) \/ StartProvision(cn)
    \/ \E l \in Layers : EditLayer(l)
    \/ \E p \in Requests : Start(p) \/ DeleteStep(p)
    \/ StartBuild \/ CancelJob
    \/ \E p \in Procs : Acquire(p) \/ InstallStep(p)
    \/ JobStep
    \/ Crash

Spec == Init /\ [][Next]_vars

-----------------------------------------------------------------------------
(* Properties *)

Quiet == faults = 0

\* "the stored archive and the recorded fingerprint can never be paired with
\* another sync": whatever syncs, applies and deletions run at once, the record
\* names a machine whose stored archive has that fingerprint. A commit or a
\* deletion that fails or dies between its two files is the only exception.
PairStored ==
    Quiet /\ lock = None /\ Synced => archive[record.by] = record.print

\* "only a config that actually applied gets kept": when an archive is stored,
\* everything in it but the make.conf is what the chroot reads, through links,
\* however installs before it failed or died.
OnlyAppliedIsKept ==
    [][\A cn \in CNs : archive'[cn] \notin {None, archive[cn]} =>
          /\ config # NoDir
          /\ \A q \in Holds[archive'[cn]] \ {MakeConf} :
                q \in links /\ config[q] = archive'[cn]]_vars

\* Outside an install every link in etc/portage leads to a file, through
\* provisions, cancelled jobs, deletions and applies of old archives.
LinksResolve ==
    Quiet /\ (\A p \in Procs : proc[p].pc \notin {"place", "link"}) =>
        \A q \in links : config # NoDir /\ config[q] # None

\* "a fresh flavor whose layer never landed would build unsigned gpkgs": once a
\* flavor has a make.conf, no build emerges with the stage's own, and none with a
\* client's if a config was installed since. One that was installed before keeps the
\* client's make.conf, whose link the code takes for the layer's: such a build is unsigned.
BuildReadsLayer ==
    Quiet /\ At(Job, "building") /\ MakeConf \in layer /\ "look" \in since =>
        /\ MakeConf \in links /\ config[MakeConf] # None
        /\ "install" \in since => config[MakeConf] = Layer

\* The lock is held by exactly the one that changes the config, the archives or
\* the chroot's trees: no error path keeps it, so nothing waits for it for ever,
\* and none gives it back early, so no two install or delete at once.
LockedInside ==
    \A p \in Procs :
        lock = p <=> proc[p].pc \notin {"idle", "wait", "extract",
                                       "reprofile", "machine"}

\* "last synced client goes last, its config ends up on top": the last config an
\* apply puts in place is the recorded sync's. An apply that read the record
\* before another sync puts the older config back, and the record stays.
LastSyncOnTop ==
    \A p \in Requests :
        (/\ Synced
         /\ proc[p].op = "apply" /\ At(p, "link")
         /\ Len(proc[p].todo) = 1 /\ Head(proc[p].todo) \in CNs)
        => \A q \in Holds[record.print] \ {MakeConf} : config[q] = record.print

\* "the archive goes either way, or a later flavor apply re-applies the config of
\* a machine that no longer exists": while nothing runs, no archive is kept of a
\* machine that was deleted.
DeletedLeavesNothing ==
    Quiet /\ (\A p \in Procs : proc[p] = Blank) =>
        \A cn \in CNs : entry[cn] = "none" => archive[cn] = None
=============================================================================
