------------------------- MODULE FlavorConfigProofs --------------------------
(***************************************************************************)
(* What holds of a flavor's config for any number of machines, archives,   *)
(* paths and requests, and any number of failures and restarts.            *)
(***************************************************************************)
EXTENDS FlavorConfig, FiniteSetTheorems, TLAPS

-----------------------------------------------------------------------------
(* Who is where, and who holds the lock *)

Outside == {"idle", "wait", "extract", "reprofile", "machine"}
Inside(p) == proc[p].pc \notin Outside

\* A request is a record, whatever it has left to do.
Shape(r) ==
    /\ DOMAIN r = {"op", "pc", "cn", "conf", "todo"}
    /\ r.op \in Ops /\ r.pc \in Pcs
    /\ r.cn \in CNs \cup {None} /\ r.conf \in Confs \cup {None}

\* Where an operation gets, and what it takes there.
Course(r) ==
    /\ r.pc # "idle" => r.op # "none"
    /\ r.op \in {"sync", "machine"} => r.cn \in CNs
    /\ r.pc \in {"store", "record"} => r.op = "sync"
    /\ r.pc \in {"drop", "blank"} => r.op = "machine"
    /\ r.pc \in {"extract", "restore", "reprofile", "machine"} => r.op \in {"provision", "join"}
    /\ r.pc \in {"layer", "building"} => r.op = "build"
    /\ r.op = "sync" /\ r.pc \in {"wait", "stage", "aside", "place", "link"} => r.todo = <<Upload>>

Ordered ==
    /\ DOMAIN proc = Procs
    /\ \A p \in Procs : Shape(proc[p]) /\ Course(proc[p])

LInv == Ordered /\ LockedInside

LEMMA BlankFits == Shape(Blank) /\ Course(Blank) /\ Blank.pc = "idle"
  BY DEF Shape, Course, Blank, Ops, Pcs

\* What a step may make of the record of one request, and what it does to the lock.
Turns(p, r) ==
    /\ DOMAIN proc' = Procs /\ proc'[p] = r
    /\ \A q \in Procs \ {p} : proc'[q] = proc[q]

LEMMA Turned ==
    ASSUME LInv, NEW p \in Procs, NEW r, proc' = [proc EXCEPT ![p] = r]
    PROVE  Turns(p, r)
  BY DEF LInv, Ordered, Turns

LEMMA TurnKeeps ==
    ASSUME LInv, NEW p \in Procs, NEW r, Turns(p, r), Shape(r), Course(r),
           \/ lock' = lock /\ (r.pc \in Outside <=> ~Inside(p))
           \/ r.pc \in Outside /\ Unlock(p)
           \/ r.pc \notin Outside /\ lock = None /\ lock' = p
    PROVE  LInv'
  BY NullAssumption DEF LInv, Ordered, LockedInside, Inside, Outside, Turns, Unlock, Procs

LEMMA EndKeeps ==
    ASSUME LInv, NEW p \in Procs, End(p)
    PROVE  LInv'
  BY Turned, TurnKeeps, BlankFits DEF End, Outside

\* r stands where proc[p] stood, at another step of it.
LEMMA Gone ==
    ASSUME LInv, NEW p \in Procs, NEW pc \in Pcs, Goto(p, pc), Course([proc[p] EXCEPT !.pc = pc]),
           \/ lock' = lock /\ (pc \in Outside <=> ~Inside(p))
           \/ pc \in Outside /\ Unlock(p)
           \/ pc \notin Outside /\ lock = None /\ lock' = p
    PROVE  LInv'
<1> DEFINE r == [proc[p] EXCEPT !.pc = pc]
<1>1. proc' = [proc EXCEPT ![p] = r]
  BY DEF Goto, LInv, Ordered
<1>2. Shape(r) /\ r.pc = pc
  BY DEF LInv, Ordered, Shape
<1>3. Turns(p, r)
  BY <1>1, Turned
<1>4. QED
  BY <1>2, <1>3, TurnKeeps

LEMMA InstallKeepsLock ==
    ASSUME LInv, NEW p \in Procs, InstallStep(p)
    PROVE  LInv'
<1> DEFINE r == proc[p]
<1>0. Shape(r) /\ Course(r)
  BY DEF LInv, Ordered
<1>1. CASE StageRefused(p) \/ SetAsideFails(p) \/ PlaceFails(p) \/ LinkFails(p)
           \/ ProfileRefused(p) \/ SetRecord(p) \/ CommitFails(p)
  BY <1>1, EndKeeps DEF StageRefused, SetAsideFails, PlaceFails, LinkFails, ProfileRefused,
                        SetRecord, CommitFails
<1>2. CASE Stage(p)
  <2>1. PICK pc \in {"profile", "aside"} : Goto(p, pc) /\ (pc = "profile" => Source(p) = Alone)
    BY <1>2 DEF Stage
  <2>2. Course([r EXCEPT !.pc = pc])
    BY <1>0, <1>2, <2>1 DEF Course, Shape, Stage, At
  <2>3. QED
    BY <1>2, <2>1, <2>2, Gone DEF Stage, At, Inside, Outside, Pcs, Install
<1>3. CASE SetAside(p)
  <2>1. Course([r EXCEPT !.pc = "place"])
    BY <1>0, <1>3 DEF Course, Shape, SetAside, At
  <2>2. QED
    BY <1>3, <2>1, Gone DEF SetAside, At, Inside, Outside, Pcs, Install
<1>4. CASE Place(p)
  <2>1. Course([r EXCEPT !.pc = "link"])
    BY <1>0, <1>4 DEF Course, Shape, Place, At
  <2>2. QED
    BY <1>4, <2>1, Gone DEF Place, At, Inside, Outside, Pcs, Install
<1>5. CASE Link(p)
  <2> DEFINE s == [r EXCEPT !.pc = AfterLink(p), !.todo = IF @ = <<>> THEN @ ELSE Tail(@)]
  <2>1. AfterLink(p) \in {"stage", "profile", "reprofile"}
    BY DEF AfterLink
  <2>2. r.op = "sync" => AfterLink(p) = "profile"
    <3>1. ASSUME NEW t, t = <<Upload>> PROVE ~(Len(t) > 1)
      <4>1. Len(t) = 1
        BY <3>1
      <4>2. QED
        BY <4>1
    <3>2. r.op = "sync" => r.todo = <<Upload>>
      BY <1>0, <1>5 DEF Course, Link, At
    <3>3. r.op = "sync" => ~(Len(proc[p].todo) > 1)
      BY <3>1, <3>2
    <3>4. QED
      BY <3>3 DEF AfterLink
  <2>0. AfterLink(p) = "reprofile" => r.op \in {"provision", "join"}
    BY DEF AfterLink
  <2>3. Shape(s) /\ s.pc = AfterLink(p) /\ s.op = r.op /\ s.cn = r.cn
    BY <1>0, <2>1 DEF Shape, Pcs, Install
  <2>4. Course(s)
    BY <1>0, <1>5, <2>0, <2>1, <2>2, <2>3 DEF Course, Link, At
  <2>5. proc' = [proc EXCEPT ![p] = s]
    BY <1>0, <1>5 DEF Link, LInv, Ordered, Shape
  <2>6. Turns(p, s)
    BY <2>5, Turned
  <2>7. lock = p /\ Inside(p)
    BY <1>5 DEF Link, At, Inside, Outside, LInv, LockedInside
  <2> HIDE DEF s
  <2>8. \/ lock' = lock /\ s.pc \notin Outside
        \/ s.pc \in Outside /\ Unlock(p)
    BY <1>5, <2>1, <2>3, <2>7 DEF Link, Outside, Unlock
  <2>9. QED
    BY <2>3, <2>4, <2>6, <2>7, <2>8, TurnKeeps
<1>6. CASE SetProfile(p)
  <2>1. CASE End(p)
    BY <2>1, EndKeeps
  <2>2. CASE ~End(p)
    <3>1. PICK pc \in {"store", "building"} :
             /\ Goto(p, pc) /\ UNCHANGED lock
             /\ pc = "store" => r.op = "sync"
             /\ pc = "building" => r.op = "build"
      BY <1>6, <2>2 DEF SetProfile
    <3>2. Course([r EXCEPT !.pc = pc])
      BY <1>0, <1>6, <3>1 DEF Course, Shape, SetProfile, At
    <3>3. QED
      BY <1>6, <3>1, <3>2, Gone DEF SetProfile, At, Inside, Outside, Pcs, Install
  <2>3. QED
    BY <2>1, <2>2
<1>7. CASE Store(p)
  <2>1. Course([r EXCEPT !.pc = "record"])
    BY <1>0, <1>7 DEF Course, Shape, Store, At
  <2>2. QED
    BY <1>7, <2>1, Gone DEF Store, At, Inside, Outside, Pcs, Install
<1>8. QED
  BY <1>1, <1>2, <1>3, <1>4, <1>5, <1>6, <1>7 DEF InstallStep

LEMMA DeleteKeepsLock ==
    ASSUME LInv, NEW p \in Procs, DeleteStep(p)
    PROVE  LInv'
<1> DEFINE r == proc[p]
<1>0. Shape(r) /\ Course(r)
  BY DEF LInv, Ordered
<1>1. CASE BlankRecord(p) \/ RemoveLayer(p) \/ RemovalFails(p)
  BY <1>1, EndKeeps DEF BlankRecord, RemoveLayer, RemovalFails
<1>2. CASE DropArchive(p)
  <2>1. Course([r EXCEPT !.pc = "blank"])
    BY <1>0, <1>2 DEF Course, Shape, DropArchive, At
  <2>2. QED
    BY <1>2, <2>1, Gone DEF DropArchive, At, Inside, Outside, Pcs
<1>3. CASE CheckBusy(p)
  <2>1. Course([r EXCEPT !.pc = "raze"])
    BY <1>0, <1>3 DEF Course, Shape, CheckBusy, At
  <2>2. QED
    BY <1>3, <2>1, Gone, EndKeeps DEF CheckBusy, At, Inside, Outside, Pcs
<1>4. CASE RemoveChroot(p)
  <2>1. Course([r EXCEPT !.pc = "unsync"])
    BY <1>0, <1>4 DEF Course, Shape, RemoveChroot, At
  <2>2. QED
    BY <1>4, <2>1, Gone DEF RemoveChroot, At, Inside, Outside, Pcs
<1>5. CASE RemoveSync(p)
  <2>1. \A q \in Procs : /\ Shape(proc'[q]) /\ Course(proc'[q])
                         /\ (proc'[q].pc \in Outside <=> proc[q].pc \in Outside)
    BY <1>5 DEF RemoveSync, At, LInv, Ordered, Shape, Course, Outside, Pcs
  <2>2. DOMAIN proc' = Procs /\ lock' = lock
    BY <1>5 DEF RemoveSync
  <2>3. QED
    BY <2>1, <2>2 DEF LInv, Ordered, LockedInside, Outside
<1>6. QED
  BY <1>1, <1>2, <1>3, <1>4, <1>5 DEF DeleteStep

LEMMA JobKeepsLock == LInv /\ JobStep => LInv'
<1> SUFFICES ASSUME LInv, JobStep PROVE LInv'
  OBVIOUS
<1> DEFINE r == proc[Job]
<1>0. Shape(r) /\ Course(r) /\ Job \in Procs
  BY DEF LInv, Ordered, Procs
<1>1. CASE ExtractFails \/ RestoreFails \/ ProvisionMachine \/ BuildEnds
  BY <1>0, <1>1, EndKeeps DEF ExtractFails, RestoreFails, ProvisionMachine, BuildEnds
<1>2. CASE Extract
  <2>1. Course([r EXCEPT !.pc = "wait"])
    BY <1>0, <1>2 DEF Course, Shape, Extract, At
  <2>2. QED
    BY <1>0, <1>2, <2>1, Gone DEF Extract, At, Inside, Outside, Pcs
<1>3. CASE Restore
  <2>1. CASE Goto(Job, "reprofile") /\ lock' = None
    <3>1. Course([r EXCEPT !.pc = "reprofile"])
      BY <1>0, <1>3 DEF Course, Shape, Restore, At
    <3>2. lock = Job
      BY <1>0, <1>3 DEF Restore, At, LInv, LockedInside
    <3>3. QED
      BY <1>0, <2>1, <3>1, <3>2, Gone DEF Unlock, Outside, Pcs
  <2>2. CASE ~(Goto(Job, "reprofile") /\ lock' = None)
    <3>1. PICK todo : /\ proc' = [proc EXCEPT ![Job].pc = "stage", ![Job].todo = todo]
                      /\ lock' = lock
      BY <1>3, <2>2 DEF Restore
    <3> DEFINE s == [r EXCEPT !.pc = "stage", !.todo = todo]
    <3>2. Shape(s) /\ Course(s) /\ s.pc \notin Outside /\ Inside(Job)
      BY <1>0, <1>3 DEF Shape, Course, Restore, At, Pcs, Install, Inside, Outside
    <3>3. proc' = [proc EXCEPT ![Job] = s]
      BY <1>0, <3>1 DEF LInv, Ordered
    <3> HIDE DEF s
    <3>4. Turns(Job, s)
      BY <1>0, <3>3, Turned
    <3>5. QED
      BY <1>0, <3>1, <3>2, <3>4, TurnKeeps
  <2>3. QED
    BY <2>1, <2>2
<1>4. CASE Reprofile
  <2>1. Course([r EXCEPT !.pc = "machine"])
    BY <1>0, <1>4 DEF Course, Shape, Reprofile, At
  <2>2. QED
    BY <1>0, <1>4, <2>1, Gone, EndKeeps DEF Reprofile, At, Inside, Outside, Pcs
<1>5. CASE EnsureLayer
  <2>1. CASE LayerApplied
    <3>1. Course([r EXCEPT !.pc = "building"])
      BY <1>0, <1>5 DEF Course, Shape, EnsureLayer, At
    <3>2. QED
      BY <1>0, <1>5, <2>1, <3>1, Gone DEF EnsureLayer, At, Inside, Outside, Pcs
  <2>2. CASE ~LayerApplied
    <3>0. PICK todo : proc' = [proc EXCEPT ![Job].pc = "stage", ![Job].todo = todo]
      BY <1>5, <2>2 DEF EnsureLayer
    <3> DEFINE s == [r EXCEPT !.pc = "stage", !.todo = todo]
    <3>1. Shape(s) /\ Course(s) /\ s.pc \notin Outside /\ Inside(Job)
      BY <1>0, <1>5 DEF Shape, Course, EnsureLayer, At, Pcs, Install, Inside, Outside
    <3>2. proc' = [proc EXCEPT ![Job] = s] /\ lock' = lock
      BY <1>0, <1>5, <3>0 DEF EnsureLayer, LInv, Ordered
    <3> HIDE DEF s
    <3>3. Turns(Job, s)
      BY <1>0, <3>2, Turned
    <3>4. QED
      BY <1>0, <3>1, <3>2, <3>3, TurnKeeps
  <2>3. QED
    BY <2>1, <2>2
<1>6. QED
  BY <1>1, <1>2, <1>3, <1>4, <1>5 DEF JobStep

\* A record that is new.
LEMMA BegunKeeps ==
    ASSUME LInv, NEW p \in Procs, NEW op \in Ops, NEW pc \in {"wait", "extract"},
           NEW cn \in CNs \cup {None}, NEW conf \in Confs \cup {None}, NEW todo,
           Begin(p, op, pc, cn, conf, todo), lock' = lock, op # "none",
           op \in {"sync", "machine"} => cn \in CNs,
           op = "sync" => todo = <<Upload>>,
           pc = "extract" => op \in {"provision", "join"}
    PROVE  LInv'
<1> DEFINE r == [op |-> op, pc |-> pc, cn |-> cn, conf |-> conf, todo |-> todo]
<1>1. Shape(r) /\ Course(r) /\ r.pc \in Outside
  BY DEF Shape, Course, Outside, Pcs
<1>2. ~Inside(p)
  BY DEF Begin, Blank, Inside, Outside
<1>3. proc' = [proc EXCEPT ![p] = r]
  BY DEF Begin
<1> HIDE DEF r
<1>4. Turns(p, r)
  BY <1>3, Turned
<1>5. QED
  BY <1>1, <1>2, <1>4, TurnKeeps

LEMMA StartKeepsLock ==
    ASSUME LInv, NEW p \in Requests, Start(p)
    PROVE  LInv'
<1>0. p \in Procs
  BY DEF Procs
<1>1. ASSUME NEW cn \in CNs, NEW c \in Confs, StartSync(p, cn, c) PROVE LInv'
  BY <1>0, <1>1, BegunKeeps DEF StartSync, Ops
<1>2. CASE StartApply(p)
  <2>1. PICK todo : Begin(p, "apply", "wait", None, None, todo) /\ lock' = lock
    BY <1>2 DEF StartApply
  <2>2. QED
    BY <1>0, <2>1, BegunKeeps DEF Ops
<1>3. ASSUME NEW cn \in CNs, StartDeleteMachine(p, cn) PROVE LInv'
  <2>1. CASE Begin(p, "machine", "wait", cn, None, <<>>) /\ lock' = lock
    BY <1>0, <2>1, BegunKeeps DEF Ops
  <2>2. CASE UNCHANGED <<proc, lock>>
    BY <2>2 DEF LInv, Ordered, LockedInside
  <2>3. QED
    BY <1>3, <2>1, <2>2 DEF StartDeleteMachine
<1>4. CASE StartDeleteFlavor(p)
  BY <1>0, <1>4, BegunKeeps DEF StartDeleteFlavor, Ops
<1>5. QED
  BY <1>1, <1>2, <1>3, <1>4, Zenon DEF Start

LEMMA JobStartKeepsLock ==
    ASSUME LInv, StartBuild \/ \E cn \in CNs : StartProvision(cn)
    PROVE  LInv'
<1>0. Job \in Procs
  BY DEF Procs
<1>1. CASE StartBuild
  BY <1>0, <1>1, BegunKeeps DEF StartBuild, Ops
<1>2. ASSUME NEW cn \in CNs, StartProvision(cn) PROVE LInv'
  <2>1. PICK op \in {"provision", "join"}, pc \in {"wait", "extract"} :
           Begin(Job, op, pc, cn, None, <<>>) /\ lock' = lock
    BY <1>2 DEF StartProvision
  <2>2. QED
    BY <1>0, <2>1, BegunKeeps DEF Ops
<1>3. QED
  BY <1>1, <1>2

LEMMA AcquireKeepsLock ==
    ASSUME LInv, NEW p \in Procs, Acquire(p)
    PROVE  LInv'
<1> DEFINE r == proc[p]
<1>0. Shape(r) /\ Course(r)
  BY DEF LInv, Ordered
<1> DEFINE pc == FirstStep(r.op)
<1>1. r.op \in Ops \ {"none"} /\ r.pc = "wait"
  BY <1>0 DEF Shape, Course, Acquire, At
<1>2. pc \in Pcs \ Outside /\ (r.op = "sync" => pc = "stage")
      /\ pc \in {"stage", "restore", "layer", "drop", "gone"}
      /\ (pc = "drop" => r.op = "machine") /\ (pc = "layer" => r.op = "build")
      /\ (pc = "restore" => r.op \in {"provision", "join"})
  BY <1>1 DEF FirstStep, Ops, Pcs, Install, Outside
<1>3. Goto(p, pc) /\ lock = None /\ lock' = p
  BY DEF Acquire
<1> HIDE DEF pc
<1>4. Course([r EXCEPT !.pc = pc])
  BY <1>0, <1>1, <1>2 DEF Shape, Course
<1>5. QED
  BY <1>2, <1>3, <1>4, Gone

LEMMA InitLInv == Init => LInv
  BY BlankFits, NullAssumption DEF Init, LInv, Ordered, LockedInside, Procs, Blank

LEMMA NextLInv == LInv /\ [Next]_vars => LInv'
<1> SUFFICES ASSUME LInv, [Next]_vars PROVE LInv'
  OBVIOUS
<1>1. CASE UNCHANGED <<proc, lock>>
  BY <1>1 DEF LInv, Ordered, LockedInside
<1>2. CASE \E cn \in CNs : Enroll(cn) \/ Leave(cn) \/ StartProvision(cn)
  BY <1>1, <1>2, JobStartKeepsLock DEF Enroll, Leave
<1>3. CASE \E l \in Layers : EditLayer(l)
  BY <1>1, <1>3 DEF EditLayer
<1>4. CASE \E p \in Requests : Start(p) \/ DeleteStep(p)
  BY <1>4, StartKeepsLock, DeleteKeepsLock DEF Procs
<1>5. CASE StartBuild \/ CancelJob
  BY <1>1, <1>5, JobStartKeepsLock DEF CancelJob
<1>6. CASE \E p \in Procs : Acquire(p) \/ InstallStep(p)
  BY <1>6, AcquireKeepsLock, InstallKeepsLock
<1>7. CASE JobStep
  BY <1>7, JobKeepsLock
<1>8. CASE Crash
  BY <1>8, BlankFits, NullAssumption DEF Crash, LInv, Ordered, LockedInside, Procs
<1>9. CASE UNCHANGED vars
  BY <1>1, <1>9 DEF vars
<1>10. QED
  BY <1>2, <1>3, <1>4, <1>5, <1>6, <1>7, <1>8, <1>9, Zenon DEF Next

\* LockedInside: whoever changes the config, the archives or the chroot's trees holds
\* the lock, and nobody else does; no path out of a handler keeps it.
THEOREM LockIsGivenBack == Spec => []LockedInside
<1>1. Init => LInv
  BY InitLInv
<1>2. LInv /\ [Next]_vars => LInv'
  BY NextLInv
<1>3. LInv => LockedInside
  BY DEF LInv
<1>4. QED
  BY <1>1, <1>2, <1>3, PTL DEF Spec

-----------------------------------------------------------------------------
(* The config that is being installed *)

Brought(dir, c) == \A q \in Holds[c] \ {MakeConf} : dir[q] = c

\* What a sync has brought so far of its archive into the chroot.
SyncApplied ==
    \A p \in Procs : proc[p].op = "sync" =>
        /\ proc[p].pc \in {"aside", "place"} =>
               proc[p].conf # None /\ Brought(staging, proc[p].conf)
        /\ proc[p].pc \in {"link", "profile", "store"} =>
               proc[p].conf # None /\ config # NoDir /\ Brought(config, proc[p].conf)
        /\ proc[p].pc \in {"profile", "store"} =>
               Holds[proc[p].conf] \ {MakeConf} \subseteq links

Swapping ==
    \A p \in Procs : /\ proc[p].pc \in {"aside", "place"} => staging # NoDir
                     /\ proc[p].pc = "link" => config # NoDir

\* Between the archive and the record, and between their removals, somebody is at it.
Paired ==
    /\ Synced => record.by \in CNs
    /\ Quiet /\ Synced /\ archive[record.by] # record.print =>
           \E p \in Procs : proc[p].pc \in {"record", "blank"} /\ proc[p].cn = record.by
    /\ \A p \in Procs : proc[p].pc = "record" => archive[proc[p].cn] = proc[p].conf

\* What was built since the layer got its make.conf has it.
Midway == \E p \in Procs : proc[p].pc \in {"aside", "place"}
Fresh ==
    Quiet /\ MakeConf \in layer /\ "install" \in since =>
        /\ Midway => staging[MakeConf] = Layer
        /\ ~Midway /\ config # NoDir => config[MakeConf] = Layer

\* A build that is past EnsureLayer found the link, or makes it from what it built.
BuildLinked ==
    Quiet /\ proc[Job].op = "build" /\ MakeConf \in layer /\ "look" \in since =>
        /\ proc[Job].pc \in {"aside", "place", "link"} => "install" \in since
        /\ proc[Job].pc \in {"profile", "building"} => MakeConf \in links

Files == faults \in Nat /\ archive \in [CNs -> Confs \cup {None}]

IInv ==
    /\ LInv /\ Files
    /\ Swapping /\ SyncApplied /\ Paired /\ LinksResolve /\ Fresh /\ BuildLinked

-----------------------------------------------------------------------------
(* What a step leaves behind *)

Delicate == {"aside", "place", "link", "profile", "store", "record", "blank", "building"}

\* Nobody is between two steps of an installation or a deletion.
Settled == \A q \in Procs : proc[q].pc \notin Delicate
\* Nobody gets there, or away from there.
Calm == \A q \in Procs : \/ proc'[q] = proc[q]
                         \/ proc[q].pc \notin Delicate /\ proc'[q].pc \notin Delicate

\* Only one is inside.
LEMMA OneInside ==
    ASSUME LInv, NEW p \in Procs, Inside(p)
    PROVE  lock = p /\ \A q \in Procs \ {p} : proc[q].pc \in Outside
  BY DEF LInv, LockedInside, Inside, Outside

LEMMA Went ==
    ASSUME LInv, NEW p \in Procs, NEW pc, Goto(p, pc)
    PROVE  /\ proc'[p].pc = pc /\ proc'[p].op = proc[p].op /\ proc'[p].cn = proc[p].cn
           /\ proc'[p].conf = proc[p].conf /\ proc'[p].todo = proc[p].todo
           /\ \A q \in Procs \ {p} : proc'[q] = proc[q]
  BY DEF LInv, Ordered, Shape, Goto

LEMMA Ended ==
    ASSUME LInv, NEW p \in Procs, End(p)
    PROVE  /\ proc'[p].pc = "idle"
           /\ \A q \in Procs \ {p} : proc'[q] = proc[q]
  BY DEF LInv, Ordered, End, Blank

LEMMA LinkMoves ==
    ASSUME LInv, NEW p \in Procs, Link(p)
    PROVE  /\ proc'[p].pc = AfterLink(p) /\ AfterLink(p) \in {"stage", "profile", "reprofile"}
           /\ proc'[p].op = proc[p].op /\ proc'[p].cn = proc[p].cn /\ proc'[p].conf = proc[p].conf
           /\ \A q \in Procs \ {p} : proc'[q] = proc[q]
<1>1. AfterLink(p) \in {"stage", "profile", "reprofile"}
  BY DEF AfterLink
<1>2. QED
  BY <1>1 DEF LInv, Ordered, Shape, Link

LEMMA SettledAfter ==
    ASSUME LInv, NEW p \in Procs, Inside(p) \/ lock = None, proc'[p].pc \notin Delicate,
           \A q \in Procs \ {p} : proc'[q] = proc[q]
    PROVE  Settled'
<1>1. CASE Inside(p)
  BY <1>1, OneInside DEF Settled, Delicate, Outside
<1>2. CASE lock = None
  BY <1>2, NullAssumption DEF LInv, LockedInside, Procs, Settled, Delicate
<1>3. QED
  BY <1>1, <1>2

LEMMA InstallSettles ==
    ASSUME LInv, NEW p \in Procs,
           \/ StageRefused(p) \/ SetAsideFails(p) \/ PlaceFails(p) \/ LinkFails(p)
           \/ ProfileRefused(p) \/ SetRecord(p) \/ CommitFails(p)
           \/ (SetProfile(p) /\ End(p))
    PROVE  Settled'
<1>1. Inside(p) /\ End(p)
  BY DEF StageRefused, SetAsideFails, PlaceFails, LinkFails, ProfileRefused, SetRecord,
         CommitFails, SetProfile, At, Inside, Outside
<1>2. QED
  BY <1>1, Ended, SettledAfter DEF Delicate

LEMMA DeleteSettles ==
    ASSUME LInv, NEW p \in Procs, DeleteStep(p), ~DropArchive(p)
    PROVE  Settled'
<1>1. CASE RemoveSync(p)
  <2>1. Inside(p)
    BY <1>1 DEF RemoveSync, At, Inside, Outside
  <2>2. \A q \in Procs : proc'[q].pc = IF q = p THEN "unlayer" ELSE proc[q].pc
    BY <1>1 DEF RemoveSync, LInv, Ordered, Shape
  <2>3. QED
    BY <2>1, <2>2, OneInside DEF Settled, Delicate, Outside
<1>2. CASE ~RemoveSync(p)
  <2>1. Inside(p) /\ (End(p) \/ \E pc \in {"raze", "unsync"} : Goto(p, pc))
    BY <1>2 DEF DeleteStep, BlankRecord, CheckBusy, RemoveChroot, RemoveLayer, RemovalFails, At,
                Inside, Outside
  <2>2. QED
    BY <2>1, Ended, Went, SettledAfter DEF Delicate
<1>3. QED
  BY <1>1, <1>2

LEMMA JobSettles ==
    ASSUME LInv, Restore \/ RestoreFails \/ Reprofile \/ BuildEnds \/ (EnsureLayer /\ ~LayerApplied)
    PROVE  Settled'
<1>1. Job \in Procs /\ (Inside(Job) \/ lock = None)
  BY DEF Procs, Restore, RestoreFails, Reprofile, BuildEnds, EnsureLayer, At, Inside, Outside
<1>2. /\ proc'[Job].pc \in {"idle", "machine", "reprofile", "stage"}
      /\ \A q \in Procs \ {Job} : proc'[q] = proc[q]
  <2>1. CASE End(Job) \/ \E pc \in {"machine", "reprofile"} : Goto(Job, pc)
    BY <1>1, <2>1, Ended, Went
  <2>2. CASE \E todo : proc' = [proc EXCEPT ![Job].pc = "stage", ![Job].todo = todo]
    BY <1>1, <2>2 DEF LInv, Ordered, Shape
  <2>3. QED
    BY <2>1, <2>2 DEF Restore, RestoreFails, Reprofile, BuildEnds, EnsureLayer
<1>3. QED
  BY <1>1, <1>2, SettledAfter DEF Delicate

LEMMA AcquireSettles ==
    ASSUME LInv, NEW p \in Procs, Acquire(p)
    PROVE  Settled'
<1> DEFINE pc == FirstStep(proc[p].op)
<1>1. proc[p].op \in Ops \ {"none"}
  BY DEF LInv, Ordered, Shape, Course, Acquire, At
<1>2. pc \notin Delicate
  BY <1>1 DEF FirstStep, Ops, Delicate
<1>3. Goto(p, pc) /\ lock = None
  BY DEF Acquire
<1> HIDE DEF pc
<1>4. QED
  BY <1>2, <1>3, Went, SettledAfter

LEMMA CrashSettles == LInv /\ Crash => Settled'
  BY DEF LInv, Crash, Blank, Settled, Delicate

\* Steps that leave the config, the archives and the record alone.
Aside ==
    \/ \E cn \in CNs : Enroll(cn) \/ Leave(cn) \/ StartProvision(cn)
    \/ \E p \in Requests : Start(p)
    \/ StartBuild \/ CancelJob \/ ExtractFails \/ ProvisionMachine

LEMMA AsideIsCalm ==
    ASSUME LInv, Aside
    PROVE  Calm /\ UNCHANGED <<config, staging, links, layer, archive, record, since>>
<1>1. ASSUME NEW p \in Procs, NEW op, NEW pc \in {"wait", "extract"}, NEW cn, NEW conf, NEW todo,
             Begin(p, op, pc, cn, conf, todo)
      PROVE  Calm
  BY <1>1 DEF Begin, Blank, LInv, Ordered, Calm, Delicate
<1>2. CASE \E cn \in CNs : Enroll(cn) \/ Leave(cn)
  BY <1>2 DEF Enroll, Leave, Calm, disk
<1>3. ASSUME NEW cn \in CNs, StartProvision(cn) PROVE Calm
  BY <1>1, <1>3 DEF StartProvision, Procs
<1>4. ASSUME NEW p \in Requests, Start(p) PROVE Calm /\ UNCHANGED <<disk, since>>
  <2>1. CASE UNCHANGED proc
    BY <1>4, <2>1 DEF Calm, Start, StartSync, StartApply, StartDeleteMachine, StartDeleteFlavor
  <2>2. CASE \E op, cn, conf, todo : Begin(p, op, "wait", cn, conf, todo)
    BY <1>1, <1>4, <2>2 DEF Procs, Start, StartSync, StartApply, StartDeleteMachine,
                            StartDeleteFlavor
  <2>3. QED
    BY <1>4, <2>1, <2>2 DEF Start, StartSync, StartApply, StartDeleteMachine, StartDeleteFlavor
<1>5. CASE StartBuild
  BY <1>1, <1>5 DEF StartBuild, Procs, disk
<1>6. CASE CancelJob
  BY <1>6 DEF CancelJob, Calm, disk
<1>7. CASE ExtractFails \/ ProvisionMachine
  BY <1>7, Ended DEF ExtractFails, ProvisionMachine, At, disk, Calm, Delicate, Procs
<1>8. QED
  BY <1>2, <1>3, <1>4, <1>5, <1>6, <1>7 DEF Aside, StartProvision, disk

LEMMA QuietBack == LInv /\ Files /\ Next => Files' /\ (Quiet' => Quiet /\ faults' = faults)
<1> SUFFICES ASSUME LInv, Files, Next PROVE Files' /\ (Quiet' => Quiet /\ faults' = faults)
  OBVIOUS
<1>1. /\ faults' = faults \/ faults' = faults + 1
      /\ archive' \in [CNs -> Confs \cup {None}]
  <2>1. CASE Aside
    BY <2>1 DEF Aside, Enroll, Leave, StartProvision, Start, StartSync, StartApply,
                StartDeleteMachine, StartDeleteFlavor, StartBuild, CancelJob, ExtractFails,
                ProvisionMachine, Fault, disk, Files
  <2>2. CASE (\E l \in Layers : EditLayer(l)) \/ Crash \/ JobStep
    BY <2>2 DEF EditLayer, Crash, Fault, disk, JobStep, Extract, ExtractFails, Restore,
                RestoreFails, Reprofile, ProvisionMachine, EnsureLayer, BuildEnds, Files
  <2>3. ASSUME NEW p \in Procs, DeleteStep(p)
        PROVE  (faults' = faults \/ faults' = faults + 1) /\ archive' \in [CNs -> Confs \cup {None}]
    BY <2>3 DEF DeleteStep, DropArchive, BlankRecord, CheckBusy, RemoveChroot, RemoveSync,
                RemoveLayer, RemovalFails, Fault, disk, Files
  <2>4. ASSUME NEW p \in Procs, Acquire(p) \/ InstallStep(p)
        PROVE  (faults' = faults \/ faults' = faults + 1) /\ archive' \in [CNs -> Confs \cup {None}]
    <3>1. CASE Store(p)
      <4>1. proc[p].cn \in CNs /\ proc[p].conf \in Confs \cup {None}
        BY <3>1 DEF LInv, Ordered, Shape, Course, Store, At
      <4>2. QED
        BY <3>1, <4>1 DEF Store, Files
    <3>2. QED
      BY <2>4, <3>1 DEF Acquire, InstallStep, Stage, StageRefused, SetAside, SetAsideFails, Place,
                PlaceFails, Link, LinkFails, SetProfile, ProfileRefused, SetRecord,
                CommitFails, Fault, disk, Files
  <2>5. QED
    BY <2>1, <2>2, <2>3, <2>4 DEF Next, Aside, Procs
<1>2. QED
  BY <1>1 DEF Files, Quiet

-----------------------------------------------------------------------------
(* Swapping and SyncApplied *)

\* Where the config may differ after a step from what it was, somebody is inside.
LEMMA SwapKept ==
    ASSUME Swapping, SyncApplied, Calm, UNCHANGED <<config, staging, links>>
    PROVE  Swapping' /\ SyncApplied'
  BY DEF Swapping, SyncApplied, Calm, Delicate, Brought

LEMMA SwapSettled == Settled' => Swapping' /\ SyncApplied'
  BY DEF Swapping, SyncApplied, Settled, Delicate

\* buildStagedConfig
LEMMA BuiltIsDir ==
    ASSUME NEW c \in Confs \cup {None}
    PROVE  Built(c) \in Dir /\ Built(c) # NoDir
<1>1. Built(c) \in Dir
  BY DEF Built, Dir
<1>2. QED
  BY <1>1, NullAssumption DEF Dir

LEMMA BuiltBrings ==
    ASSUME NEW c \in Confs
    PROVE  Brought(Built(c), c)
  BY PathAssumption, NullAssumption DEF Built, Brought

\* What an install is made from.
LEMMA ContentIs ==
    ASSUME LInv, Files, NEW p \in Procs
    PROVE  /\ Content(p) \in Confs \cup {None}
           /\ Source(p) = Upload => Content(p) = proc[p].conf
<1>1. Uploads \subseteq Confs
  BY DEF Uploads, LInv, Ordered, Shape, Procs
<1>2. Source(p) = Upload => Source(p) \notin CNs /\ Source(p) \notin Uploads
  BY <1>1, NullAssumption
<1>3. Source(p) \in Uploads => Source(p) \notin CNs
  BY <1>1, NullAssumption
<1>4. /\ proc[p].conf \in Confs \cup {None}
      /\ \A cn \in CNs : archive[cn] \in Confs \cup {None}
  BY DEF LInv, Ordered, Shape, Files
<1>5. QED
  BY <1>1, <1>2, <1>3, <1>4 DEF Content

LEMMA SwapInstall ==
    ASSUME LInv, Files, Swapping, SyncApplied, NEW p \in Procs, InstallStep(p)
    PROVE  Swapping' /\ SyncApplied'
<1>1. Inside(p)
  BY DEF InstallStep, Stage, StageRefused, SetAside, SetAsideFails, Place, PlaceFails, Link,
         LinkFails, SetProfile, ProfileRefused, Store, SetRecord, CommitFails, At, Inside, Outside
<1>2. \A q \in Procs \ {p} : proc[q].pc \notin Delicate
  BY <1>1, OneInside DEF Outside, Delicate
<1>3. proc[p].op = "sync" => proc[p].conf \in Confs \cup {None}
  BY DEF LInv, Ordered, Shape
<1>4. CASE Stage(p)
  <2>1. CASE Goto(p, "profile") /\ Source(p) = Alone
    <3>1. proc[p].op # "sync"
      <4>1. proc[p].op = "sync" => proc[p].todo = <<Upload>>
        BY <1>4 DEF LInv, Ordered, Course, Stage, At
      <4>2. QED
        BY <2>1, <4>1, NullAssumption DEF Source
    <3>2. QED
      BY <1>2, <2>1, <3>1, Went DEF Swapping, SyncApplied, Delicate
  <2>2. CASE Goto(p, "aside") /\ staging' = Built(Content(p))
    <3>1. staging' # NoDir
      <4>1. Content(p) \in Confs \cup {None}
        BY ContentIs
      <4>2. QED
        BY <2>2, <4>1, BuiltIsDir
    <3>2. proc[p].op = "sync" => proc[p].conf # None /\ Brought(staging', proc[p].conf)
      <4>1. proc[p].op = "sync" => proc[p].todo = <<Upload>>
        BY <1>4 DEF LInv, Ordered, Course, Stage, At
      <4>2. proc[p].op = "sync" => Content(p) = proc[p].conf /\ Source(p) # Alone
        BY <4>1, ContentIs, NullAssumption DEF Source
      <4>3. proc[p].op = "sync" => proc[p].conf \in Confs
        BY <1>3, <1>4, <4>2 DEF Stage, Readable
      <4>4. QED
        BY <2>2, <4>2, <4>3, BuiltBrings, NullAssumption
    <3>3. QED
      BY <1>2, <2>2, <3>1, <3>2, Went DEF Swapping, SyncApplied, Delicate, Brought
  <2>3. QED
    BY <1>4, <2>1, <2>2 DEF Stage
<1>5. CASE SetAside(p)
  BY <1>2, <1>5, Went DEF SetAside, At, Swapping, SyncApplied, Delicate, Brought
<1>6. CASE Place(p)
  BY <1>2, <1>6, Went DEF Place, At, Swapping, SyncApplied, Delicate, Brought
<1>7. CASE Link(p)
  <2>1. proc[p].op = "sync" => /\ proc[p].conf \in Confs /\ config # NoDir
                              /\ Brought(config, proc[p].conf)
    BY <1>3, <1>7 DEF Link, At, SyncApplied
  <2>2. proc[p].op = "sync" => Holds[proc[p].conf] \ {MakeConf} \subseteq Present(config)
    BY <2>1, PathAssumption, NullAssumption DEF Brought, Present
  <2>3. /\ UNCHANGED <<config, staging>> /\ links' = Present(config)
        /\ AfterLink(p) \notin {"aside", "place", "link", "store"}
    BY <1>7, LinkMoves DEF Link
  <2>4. QED
    BY <1>2, <1>7, <2>1, <2>2, <2>3, LinkMoves, NullAssumption DEF Swapping, SyncApplied, Delicate, Brought
<1>8. CASE SetProfile(p) /\ ~End(p)
  BY <1>2, <1>8, Went DEF SetProfile, At, disk, Swapping, SyncApplied, Delicate, Brought
<1>9. CASE Store(p)
  BY <1>2, <1>9, Went DEF Store, Swapping, SyncApplied, Delicate
<1>10. QED
  BY <1>4, <1>5, <1>6, <1>7, <1>8, <1>9, InstallSettles, SwapSettled DEF InstallStep

LEMMA NextSwap ==
    ASSUME LInv, Files, Swapping, SyncApplied, Next
    PROVE  Swapping' /\ SyncApplied'
<1>1. CASE Aside
  BY <1>1, AsideIsCalm, SwapKept
<1>2. ASSUME NEW p \in Procs, InstallStep(p) PROVE Swapping' /\ SyncApplied'
  BY <1>2, SwapInstall
<1>3. ASSUME NEW p \in Procs, Acquire(p) PROVE Swapping' /\ SyncApplied'
  BY <1>3, AcquireSettles, SwapSettled
<1>4. ASSUME NEW p \in Procs, DeleteStep(p) PROVE Swapping' /\ SyncApplied'
  <2>1. CASE DropArchive(p)
    <3>1. UNCHANGED <<config, staging, links>> /\ Goto(p, "blank")
      BY <2>1 DEF DropArchive
    <3>2. QED
      BY <3>1, Went DEF Swapping, SyncApplied, Brought
  <2>2. QED
    BY <1>4, <2>1, DeleteSettles, SwapSettled
<1>5. CASE Extract
  <2>1. UNCHANGED <<config, staging>> /\ links' = links \ {MakeConf} /\ Goto(Job, "wait")
    BY <1>5 DEF Extract
  <2>2. QED
    BY <2>1, Went DEF Procs, Swapping, SyncApplied, Brought
<1>6. CASE EnsureLayer /\ LayerApplied
  <2>1. UNCHANGED <<config, staging, links>> /\ Goto(Job, "building")
    BY <1>6 DEF EnsureLayer, disk
  <2>2. QED
    BY <2>1, Went DEF Procs, Swapping, SyncApplied, Brought
<1>7. CASE JobStep
  BY <1>1, <1>5, <1>6, <1>7, JobSettles, SwapSettled DEF JobStep, Aside
<1>8. CASE \E l \in Layers : EditLayer(l)
  BY <1>8, SwapKept DEF EditLayer, Calm
<1>9. CASE Crash
  BY <1>9, CrashSettles, SwapSettled
<1>10. QED
  BY <1>1, <1>2, <1>3, <1>4, <1>7, <1>8, <1>9 DEF Next, Aside, Procs

-----------------------------------------------------------------------------
(* Paired *)

LEMMA PairKept ==
    ASSUME Paired, Calm, UNCHANGED <<archive, record>>, Quiet' => Quiet
    PROVE  Paired'
  BY DEF Paired, Calm, Delicate, Synced

\* Nobody was between the archive and the record, and nobody is.
LEMMA PairSettled ==
    ASSUME Paired, UNCHANGED <<archive, record>>,
           \A q \in Procs : proc'[q].pc # "record",
           \/ ~Quiet'
           \/ Quiet /\ \A q \in Procs : proc[q].pc \notin {"record", "blank"}
    PROVE  Paired'
  BY DEF Paired, Synced

LEMMA FaultShows == Files /\ Fault => ~Quiet'
  BY DEF Files, Fault, Quiet

LEMMA PairInstall ==
    ASSUME LInv, Files, Paired, NEW p \in Procs, InstallStep(p), Quiet' => Quiet
    PROVE  Paired'
<1>1. Inside(p)
  BY DEF InstallStep, Stage, StageRefused, SetAside, SetAsideFails, Place, PlaceFails, Link,
         LinkFails, SetProfile, ProfileRefused, Store, SetRecord, CommitFails, At, Inside, Outside
<1>2. \A q \in Procs \ {p} : proc[q].pc \notin Delicate
  BY <1>1, OneInside DEF Outside, Delicate
<1>3. CASE Store(p)
  <2>1. proc[p].cn \in CNs /\ proc[p].pc = "store"
    BY <1>3 DEF LInv, Ordered, Course, Store, At
  <2>2. /\ archive' = [archive EXCEPT ![proc[p].cn] = proc[p].conf]
        /\ Goto(p, "record") /\ record' = record
    BY <1>3 DEF Store
  <2>3. \A q \in Procs : proc[q].pc \notin {"record", "blank"}
    BY <1>2, <2>1 DEF Delicate
  <2>4. QED
    BY <1>2, <2>1, <2>2, <2>3, Went DEF Paired, Synced, Files, Delicate
<1>4. CASE SetRecord(p)
  <2>1. proc[p].cn \in CNs /\ proc[p].pc = "record"
    BY <1>4 DEF LInv, Ordered, Course, SetRecord, At
  <2>2. record' = [print |-> proc[p].conf, by |-> proc[p].cn] /\ archive' = archive /\ Settled'
    BY <1>4, InstallSettles DEF SetRecord
  <2>3. QED
    BY <2>1, <2>2 DEF Paired, Settled, Delicate
<1>5. CASE CommitFails(p)
  BY <1>5, FaultShows, PairSettled, InstallSettles DEF CommitFails, disk, Settled, Delicate
<1>6. CASE ~(Store(p) \/ SetRecord(p) \/ CommitFails(p))
  <2>1. proc[p].pc \notin {"record", "blank"} /\ UNCHANGED <<archive, record>>
    BY <1>6 DEF InstallStep, Stage, StageRefused, SetAside, SetAsideFails, Place, PlaceFails, Link,
                LinkFails, SetProfile, ProfileRefused, At, disk
  <2>2. proc'[p].pc # "record" /\ \A q \in Procs \ {p} : proc'[q] = proc[q]
    <3>1. \/ End(p) \/ Link(p)
          \/ \E pc \in {"aside", "place", "link", "profile", "store", "building"} : Goto(p, pc)
      BY <1>6 DEF InstallStep, Stage, StageRefused, SetAside, SetAsideFails, Place, PlaceFails,
                  LinkFails, SetProfile, ProfileRefused
    <3>2. QED
      BY <3>1, Ended, LinkMoves, Went
  <2>3. \A q \in Procs : /\ proc'[q].pc # "record"
                         /\ proc[q].pc \notin {"record", "blank"}
    BY <1>2, <2>1, <2>2 DEF Delicate
  <2>4. QED
    BY <2>1, <2>3, PairSettled
<1>7. QED
  BY <1>3, <1>4, <1>5, <1>6

LEMMA PairDelete ==
    ASSUME LInv, Files, Paired, NEW p \in Procs, DeleteStep(p), Quiet' => Quiet
    PROVE  Paired'
<1>1. Inside(p)
  BY DEF DeleteStep, DropArchive, BlankRecord, CheckBusy, RemoveChroot, RemoveSync, RemoveLayer,
         RemovalFails, At, Inside, Outside
<1>2. \A q \in Procs \ {p} : proc[q].pc \notin Delicate
  BY <1>1, OneInside DEF Outside, Delicate
<1>3. CASE DropArchive(p)
  <2>1. proc[p].cn \in CNs /\ proc[p].pc = "drop"
    BY <1>3 DEF LInv, Ordered, Course, Shape, DropArchive, At
  <2>2. /\ archive' = [archive EXCEPT ![proc[p].cn] = None]
        /\ Goto(p, "blank") /\ record' = record
    BY <1>3 DEF DropArchive
  <2>3. \A q \in Procs : proc[q].pc \notin {"record", "blank"}
    BY <1>2, <2>1 DEF Delicate
  <2>4. QED
    BY <1>2, <2>1, <2>2, <2>3, Went DEF Paired, Synced, Files, Delicate
<1>4. CASE BlankRecord(p)
  <2>1. Settled' /\ archive' = archive /\ proc[p].pc = "blank"
    BY <1>4, DeleteSettles DEF BlankRecord, DropArchive, At
  <2>2. record' = IF record.by = proc[p].cn THEN NoRecord ELSE record
    BY <1>4 DEF BlankRecord
  <2>3. QED
    BY <1>2, <2>1, <2>2 DEF Paired, Settled, Delicate, Synced, NoRecord
<1>5. CASE RemoveSync(p)
  <2>1. Settled' /\ record' = NoRecord
    BY <1>5, DeleteSettles DEF RemoveSync, DropArchive, At
  <2>2. QED
    BY <2>1 DEF Paired, Settled, Delicate, Synced, NoRecord
<1>6. CASE RemovalFails(p)
  <2>1. Settled'
    <3>1. Inside(p) /\ End(p)
      BY <1>6 DEF RemovalFails, At, Inside, Outside
    <3>2. QED
      BY <3>1, Ended, SettledAfter DEF Delicate
  <2>2. QED
    BY <1>6, <2>1, FaultShows, PairSettled DEF RemovalFails, Settled, Delicate
<1>7. CASE CheckBusy(p) \/ RemoveChroot(p) \/ RemoveLayer(p)
  <2>1. proc[p].pc \notin {"record", "blank"} /\ UNCHANGED <<archive, record>> /\ ~DropArchive(p)
    BY <1>7 DEF CheckBusy, RemoveChroot, RemoveLayer, DropArchive, At, disk
  <2>2. QED
    BY <1>2, <2>1, DeleteSettles, PairSettled DEF Settled, Delicate
<1>8. QED
  BY <1>3, <1>4, <1>5, <1>6, <1>7 DEF DeleteStep

LEMMA NextPaired ==
    ASSUME LInv, Files, Paired, Next
    PROVE  Paired'
<1>0. Quiet' => Quiet
  BY QuietBack
<1>1. CASE Aside
  BY <1>0, <1>1, AsideIsCalm, PairKept
<1>2. ASSUME NEW p \in Procs, InstallStep(p) PROVE Paired'
  BY <1>0, <1>2, PairInstall
<1>3. ASSUME NEW p \in Procs, DeleteStep(p) PROVE Paired'
  BY <1>0, <1>3, PairDelete
<1>4. ASSUME NEW p \in Procs, Acquire(p) PROVE Paired'
  <2>1. UNCHANGED <<archive, record>> /\ lock = None
    BY <1>4 DEF Acquire, disk
  <2>2. \A q \in Procs : proc[q].pc \notin {"record", "blank"}
    BY <2>1, NullAssumption DEF LInv, LockedInside, Procs
  <2>3. QED
    BY <1>0, <1>4, <2>1, <2>2, AcquireSettles, PairSettled DEF Settled, Delicate
<1>5. CASE JobStep
  <2>1. CASE Extract
    <3>1. UNCHANGED <<archive, record>> /\ Goto(Job, "wait") /\ proc[Job].pc = "extract"
      BY <2>1 DEF Extract, At
    <3>2. Calm
      BY <3>1, Went DEF Procs, Calm, Delicate
    <3>3. QED
      BY <1>0, <3>1, <3>2, PairKept
  <2>2. CASE EnsureLayer /\ LayerApplied
    <3>1. UNCHANGED <<archive, record>> /\ Goto(Job, "building") /\ proc[Job].pc = "layer"
      BY <2>2 DEF EnsureLayer, disk, At
    <3>2. \A q \in Procs : proc'[q].pc \in {proc[q].pc, "building"} /\ proc[q].pc \notin {"record", "blank"}
      BY <3>1, Went, OneInside DEF Procs, Inside, Outside
    <3>3. QED
      BY <1>0, <3>1, <3>2, PairSettled
  <2>3. CASE Restore \/ RestoreFails \/ Reprofile \/ BuildEnds \/ (EnsureLayer /\ ~LayerApplied)
    <3>1. UNCHANGED <<archive, record>> /\ proc[Job].pc \notin {"record", "blank"} /\ Job \in Procs
      BY <2>3 DEF Restore, RestoreFails, Reprofile, BuildEnds, EnsureLayer, disk, At, Procs
    <3>2. Inside(Job) \/ lock = None
      BY <2>3 DEF Restore, RestoreFails, Reprofile, BuildEnds, EnsureLayer, At, Inside, Outside
    <3>3. \A q \in Procs : proc[q].pc \notin {"record", "blank"}
      BY <3>1, <3>2, OneInside, NullAssumption DEF Outside, LInv, LockedInside, Procs
    <3>4. QED
      BY <1>0, <2>3, <3>1, <3>3, JobSettles, PairSettled DEF Settled, Delicate
  <2>4. QED
    BY <1>1, <1>5, <2>1, <2>2, <2>3 DEF JobStep, Aside
<1>6. CASE \E l \in Layers : EditLayer(l)
  BY <1>0, <1>6, PairKept DEF EditLayer, Calm
<1>7. CASE Crash
  BY <1>7, FaultShows, CrashSettles, PairSettled DEF Crash, disk, Settled, Delicate
<1>8. QED
  BY <1>1, <1>2, <1>3, <1>4, <1>5, <1>6, <1>7 DEF Next, Aside, Procs

-----------------------------------------------------------------------------
(* LinksResolve *)

LEMMA LinksKept ==
    ASSUME LinksResolve, links' \subseteq links, config' = config,
           \A q \in Procs : proc[q].pc \in {"place", "link"} => proc'[q].pc = proc[q].pc,
           Quiet' => Quiet
    PROVE  LinksResolve'
  BY DEF LinksResolve

LEMMA NothingInside ==
    ASSUME LInv, lock = None
    PROVE  \A q \in Procs : proc[q].pc \in Outside
  BY NullAssumption DEF LInv, LockedInside, Outside, Procs

LEMMA LinksInstall ==
    ASSUME LInv, Files, Swapping, LinksResolve, NEW p \in Procs, InstallStep(p), Quiet' => Quiet
    PROVE  LinksResolve'
<1>1. Inside(p)
  BY DEF InstallStep, Stage, StageRefused, SetAside, SetAsideFails, Place, PlaceFails, Link,
         LinkFails, SetProfile, ProfileRefused, Store, SetRecord, CommitFails, At, Inside, Outside
<1>2. \A q \in Procs \ {p} : proc[q].pc \in Outside
  BY <1>1, OneInside
<1>3. CASE SetAside(p) \/ Place(p)
  <2>1. proc'[p].pc \in {"place", "link"}
    BY <1>3, Went DEF SetAside, Place
  <2>2. QED
    BY <2>1 DEF LinksResolve
<1>4. CASE Link(p)
  <2>1. config' = config /\ links' = Present(config) /\ config # NoDir
    BY <1>4 DEF Link, At, Swapping
  <2>2. QED
    BY <2>1 DEF LinksResolve, Present
<1>5. CASE SetAsideFails(p) \/ PlaceFails(p) \/ LinkFails(p) \/ CommitFails(p)
  BY <1>5, FaultShows DEF SetAsideFails, PlaceFails, LinkFails, CommitFails, LinksResolve
<1>6. CASE \/ Stage(p) \/ StageRefused(p) \/ SetProfile(p) \/ ProfileRefused(p) \/ Store(p)
           \/ SetRecord(p)
  <2>1. proc[p].pc \notin {"place", "link"} /\ UNCHANGED <<config, links>>
    BY <1>6 DEF Stage, StageRefused, SetProfile, ProfileRefused, Store, SetRecord, At, disk
  <2>2. QED
    BY <1>2, <2>1, LinksKept DEF Outside
<1>7. QED
  BY <1>3, <1>4, <1>5, <1>6 DEF InstallStep

LEMMA LinksDelete ==
    ASSUME LInv, Files, LinksResolve, NEW p \in Procs, DeleteStep(p), Quiet' => Quiet
    PROVE  LinksResolve'
<1>1. Inside(p)
  BY DEF DeleteStep, DropArchive, BlankRecord, CheckBusy, RemoveChroot, RemoveSync, RemoveLayer,
         RemovalFails, At, Inside, Outside
<1>2. \A q \in Procs \ {p} : proc[q].pc \in Outside
  BY <1>1, OneInside
<1>3. CASE RemoveChroot(p)
  BY <1>3 DEF RemoveChroot, LinksResolve
<1>4. CASE RemovalFails(p)
  BY <1>4, FaultShows DEF RemovalFails, LinksResolve
<1>5. CASE ~(RemoveChroot(p) \/ RemovalFails(p))
  <2>1. proc[p].pc \notin {"place", "link"} /\ UNCHANGED <<config, links>>
    BY <1>5 DEF DeleteStep, DropArchive, BlankRecord, CheckBusy, RemoveSync, RemoveLayer, At, disk
  <2>2. QED
    BY <1>2, <2>1, LinksKept DEF Outside
<1>6. QED
  BY <1>3, <1>4, <1>5

LEMMA LinksJob ==
    ASSUME LInv, LinksResolve, JobStep, Quiet' => Quiet
    PROVE  LinksResolve'
<1>0. Job \in Procs
  BY DEF Procs
<1>1. CASE Extract
  <2>1. links' \subseteq links /\ config' = config /\ Goto(Job, "wait") /\ proc[Job].pc = "extract"
    BY <1>1 DEF Extract, At
  <2>2. QED
    BY <1>0, <2>1, Went, LinksKept
<1>2. CASE ExtractFails \/ ProvisionMachine
  <2>1. UNCHANGED <<links, config>> /\ End(Job) /\ proc[Job].pc \in {"extract", "machine"}
    BY <1>2 DEF ExtractFails, ProvisionMachine, disk, At
  <2>2. QED
    BY <1>0, <2>1, Ended, LinksKept
<1>3. CASE Restore \/ RestoreFails \/ Reprofile \/ EnsureLayer \/ BuildEnds
  <2>1. proc[Job].pc \notin {"place", "link"} /\ (Inside(Job) \/ lock = None)
    BY <1>3 DEF Restore, RestoreFails, Reprofile, BuildEnds, EnsureLayer, At, Inside, Outside
  <2>2. \A q \in Procs : proc[q].pc \notin {"place", "link"}
    BY <1>0, <2>1, OneInside, NothingInside DEF Outside
  <2>3. CASE Restore
    <3>1. CASE UNCHANGED <<links, config>>
      BY <2>2, <3>1, LinksKept
    <3>2. CASE config # NoDir /\ config' = config /\ links' = Present(config)
      BY <3>2 DEF LinksResolve, Present
    <3>3. QED
      BY <2>3, <3>1, <3>2 DEF Restore
  <2>4. CASE ~Restore
    <3>1. UNCHANGED <<links, config>>
      BY <1>3, <2>4 DEF RestoreFails, Reprofile, BuildEnds, EnsureLayer, disk
    <3>2. QED
      BY <2>2, <3>1, LinksKept
  <2>5. QED
    BY <2>3, <2>4
<1>4. QED
  BY <1>1, <1>2, <1>3 DEF JobStep

LEMMA NextLinks ==
    ASSUME LInv, Files, Swapping, LinksResolve, Next
    PROVE  LinksResolve'
<1>0. Quiet' => Quiet
  BY QuietBack
<1>1. CASE Aside
  BY <1>0, <1>1, AsideIsCalm, LinksKept DEF Calm, Delicate
<1>2. ASSUME NEW p \in Procs, InstallStep(p) PROVE LinksResolve'
  BY <1>0, <1>2, LinksInstall
<1>3. ASSUME NEW p \in Procs, DeleteStep(p) PROVE LinksResolve'
  BY <1>0, <1>3, LinksDelete
<1>4. ASSUME NEW p \in Procs, Acquire(p) PROVE LinksResolve'
  <2>1. UNCHANGED <<links, config>> /\ lock = None
    BY <1>4 DEF Acquire, disk
  <2>2. QED
    BY <1>0, <2>1, NothingInside, LinksKept DEF Outside
<1>5. CASE JobStep
  BY <1>0, <1>5, LinksJob
<1>6. CASE \E l \in Layers : EditLayer(l)
  BY <1>0, <1>6, LinksKept DEF EditLayer
<1>7. CASE Crash
  BY <1>7, FaultShows DEF Crash, LinksResolve
<1>8. QED
  BY <1>1, <1>2, <1>3, <1>4, <1>5, <1>6, <1>7 DEF Next, Aside, Procs

-----------------------------------------------------------------------------
(* Fresh and BuildLinked *)

\* One that is inside, and is not at the swap itself, is the only one there.
LEMMA NotMidway ==
    ASSUME LInv, NEW p \in Procs, Inside(p) \/ lock = None, proc[p].pc \notin {"aside", "place"}
    PROVE  ~Midway
<1>1. CASE Inside(p)
  BY <1>1, OneInside DEF Midway, Outside
<1>2. CASE lock = None
  BY <1>2, NothingInside DEF Midway, Outside
<1>3. QED
  BY <1>1, <1>2

LEMMA MidwaySame ==
    ASSUME NEW p \in Procs, \A q \in Procs \ {p} : proc'[q] = proc[q],
           proc[p].pc \notin {"aside", "place"}, proc'[p].pc \notin {"aside", "place"}
    PROVE  Midway' <=> Midway
  BY DEF Midway

LEMMA MidwaySettled == Settled' => ~Midway'
  BY DEF Settled, Midway, Delicate

LEMMA FreshKept ==
    ASSUME Fresh, config' = config, Midway' <=> Midway, Midway => staging' = staging,
           Quiet' => Quiet, MakeConf \in layer' => MakeConf \in layer,
           "install" \in since' => "install" \in since
    PROVE  Fresh'
  BY DEF Fresh

LEMMA FreshInstall ==
    ASSUME LInv, Files, Fresh, NEW p \in Procs, InstallStep(p), Quiet' => Quiet
    PROVE  Fresh'
<1>0. Inside(p)
  BY DEF InstallStep, Stage, StageRefused, SetAside, SetAsideFails, Place, PlaceFails, Link,
         LinkFails, SetProfile, ProfileRefused, Store, SetRecord, CommitFails, At, Inside, Outside
<1>1. CASE Stage(p)
  <2>1. CASE layer = {}
    BY <1>1, <2>1 DEF Stage, Fresh
  <2>2. CASE layer # {}
    <3>1. staging' = Built(Content(p)) /\ Goto(p, "aside") /\ layer' = layer
      BY <1>1, <2>2 DEF Stage
    <3>2. MakeConf \in layer => Built(Content(p))[MakeConf] = Layer
      BY PathAssumption DEF Built
    <3>3. Midway'
      BY <3>1, Went DEF Midway
    <3>4. QED
      BY <3>1, <3>2, <3>3 DEF Fresh
  <2>3. QED
    BY <2>1, <2>2
<1>2. CASE SetAside(p)
  <2>1. UNCHANGED <<staging, layer, since>> /\ proc[p].pc = "aside" /\ Goto(p, "place")
    BY <1>2 DEF SetAside, At
  <2>2. Midway /\ Midway'
    BY <2>1, Went DEF Midway
  <2>3. QED
    BY <2>1, <2>2 DEF Fresh, Quiet, SetAside
<1>3. CASE Place(p)
  <2>1. UNCHANGED <<layer, since>> /\ config' = staging /\ proc[p].pc = "place" /\ Goto(p, "link")
    BY <1>3 DEF Place, At
  <2>2. Midway
    BY <2>1 DEF Midway
  <2>3. ~Midway'
    BY <1>0, <2>1, OneInside, Went DEF Midway, Outside, Inside
  <2>4. QED
    BY <2>1, <2>2, <2>3 DEF Fresh, Quiet, Place
<1>4. CASE SetAsideFails(p) \/ PlaceFails(p) \/ LinkFails(p) \/ CommitFails(p)
  BY <1>4, FaultShows DEF SetAsideFails, PlaceFails, LinkFails, CommitFails, Fresh
<1>5. CASE StageRefused(p)
  <2>1. UNCHANGED <<config, layer, since>> /\ proc[p].pc = "stage"
    BY <1>5 DEF StageRefused, At
  <2>2. ~Midway /\ ~Midway'
    BY <1>0, <1>5, <2>1, NotMidway, InstallSettles, MidwaySettled
  <2>3. QED
    BY <2>1, <2>2, FreshKept
<1>6. CASE Link(p) \/ SetProfile(p) \/ ProfileRefused(p) \/ Store(p) \/ SetRecord(p)
  <2>1. UNCHANGED <<config, staging, layer, since>>
    BY <1>6 DEF Link, SetProfile, ProfileRefused, Store, SetRecord, disk
  <2>2. proc[p].pc \notin {"aside", "place"}
    BY <1>6 DEF Link, SetProfile, ProfileRefused, Store, SetRecord, At
  <2>3. /\ proc'[p].pc \notin {"aside", "place"}
        /\ \A q \in Procs \ {p} : proc'[q] = proc[q]
    <3>1. CASE Link(p)
      BY <3>1, LinkMoves
    <3>2. CASE ~Link(p)
      <4>1. End(p) \/ \E pc \in {"store", "building", "record"} : Goto(p, pc)
        BY <1>6, <3>2 DEF SetProfile, ProfileRefused, Store, SetRecord
      <4>2. QED
        BY <4>1, Ended, Went
    <3>3. QED
      BY <3>1, <3>2
  <2>4. QED
    BY <2>1, <2>2, <2>3, MidwaySame, FreshKept
<1>7. QED
  BY <1>1, <1>2, <1>3, <1>4, <1>5, <1>6 DEF InstallStep

LEMMA FreshJob ==
    ASSUME LInv, Files, Fresh, JobStep, Quiet' => Quiet
    PROVE  Fresh'
<1>0. Job \in Procs
  BY DEF Procs
<1>1. /\ UNCHANGED <<config, layer>>
      /\ "install" \in since' => "install" \in since
  BY DEF JobStep, Extract, ExtractFails, Restore, RestoreFails, Reprofile, ProvisionMachine,
         EnsureLayer, BuildEnds, disk, Noted
<1>2. proc[Job].pc \notin {"aside", "place"}
  BY DEF JobStep, Extract, ExtractFails, Restore, RestoreFails, Reprofile, ProvisionMachine,
         EnsureLayer, BuildEnds, At
<1>3. Midway => staging' = staging
  <2>1. CASE Restore
    <3>1. Inside(Job)
      BY <2>1 DEF Restore, At, Inside, Outside
    <3>2. QED
      BY <1>0, <1>2, <3>1, NotMidway
  <2>2. CASE ~Restore
    BY <2>2 DEF JobStep, Extract, ExtractFails, RestoreFails, Reprofile, ProvisionMachine,
                EnsureLayer, BuildEnds, disk
  <2>3. QED
    BY <2>1, <2>2
<1>4. /\ proc'[Job].pc \notin {"aside", "place"}
      /\ \A q \in Procs \ {Job} : proc'[q] = proc[q]
  <2>1. CASE End(Job) \/ \E pc \in {"wait", "reprofile", "machine", "building"} : Goto(Job, pc)
    BY <1>0, <2>1, Ended, Went
  <2>2. CASE \E todo : proc' = [proc EXCEPT ![Job].pc = "stage", ![Job].todo = todo]
    BY <1>0, <2>2 DEF LInv, Ordered, Shape
  <2>3. QED
    BY <2>1, <2>2 DEF JobStep, Extract, ExtractFails, Restore, RestoreFails, Reprofile,
                      ProvisionMachine, EnsureLayer, BuildEnds
<1>5. QED
  BY <1>0, <1>1, <1>2, <1>3, <1>4, MidwaySame, FreshKept

LEMMA NextFresh ==
    ASSUME LInv, Files, Fresh, Next
    PROVE  Fresh'
<1>0. Quiet' => Quiet
  BY QuietBack
<1>1. CASE Aside
  <2>1. Midway' <=> Midway
    BY <1>1, AsideIsCalm DEF Calm, Midway, Delicate
  <2>2. QED
    BY <1>0, <1>1, <2>1, AsideIsCalm, FreshKept
<1>2. ASSUME NEW p \in Procs, InstallStep(p) PROVE Fresh'
  BY <1>0, <1>2, FreshInstall
<1>3. ASSUME NEW p \in Procs, DeleteStep(p) PROVE Fresh'
  <2>1. CASE RemoveChroot(p) \/ RemoveLayer(p)
    BY <2>1 DEF RemoveChroot, RemoveLayer, Fresh
  <2>2. CASE RemovalFails(p)
    BY <2>2, FaultShows DEF RemovalFails, Fresh
  <2>3. CASE DropArchive(p) \/ BlankRecord(p) \/ CheckBusy(p) \/ RemoveSync(p)
    <3>1. /\ UNCHANGED <<config, staging, layer, since>>
          /\ Inside(p) /\ proc[p].pc \notin {"aside", "place"}
      BY <2>3 DEF DropArchive, BlankRecord, CheckBusy, RemoveSync, disk, At, Inside, Outside
    <3>2. ~Midway
      BY <3>1, NotMidway
    <3>3. ~Midway'
      <4>1. CASE DropArchive(p)
        BY <3>1, <3>2, <4>1, Went, MidwaySame DEF DropArchive
      <4>2. CASE ~DropArchive(p)
        BY <1>3, <4>2, DeleteSettles, MidwaySettled
      <4>3. QED
        BY <4>1, <4>2
    <3>4. QED
      BY <1>0, <3>1, <3>2, <3>3, FreshKept
  <2>4. QED
    BY <1>3, <2>1, <2>2, <2>3 DEF DeleteStep
<1>4. ASSUME NEW p \in Procs, Acquire(p) PROVE Fresh'
  <2>1. UNCHANGED <<config, staging, layer, since>> /\ lock = None /\ proc[p].pc = "wait"
    BY <1>4 DEF Acquire, At, disk
  <2>2. ~Midway /\ ~Midway'
    BY <1>4, <2>1, NotMidway, AcquireSettles, MidwaySettled
  <2>3. QED
    BY <1>0, <2>1, <2>2, FreshKept
<1>5. CASE JobStep
  BY <1>0, <1>5, FreshJob
<1>6. ASSUME NEW l \in Layers, EditLayer(l) PROVE Fresh'
  <2>1. CASE since' = {}
    BY <2>1 DEF Fresh
  <2>2. CASE since' # {}
    <3>1. UNCHANGED <<config, staging, since, proc>> /\ MakeConf \in layer
      BY <1>6, <2>2 DEF EditLayer
    <3>2. Midway' <=> Midway
      BY <3>1 DEF Midway
    <3>3. QED
      BY <1>0, <3>1, <3>2, FreshKept
  <2>3. QED
    BY <2>1, <2>2
<1>7. CASE Crash
  BY <1>7, FaultShows DEF Crash, Fresh
<1>8. QED
  BY <1>1, <1>2, <1>3, <1>4, <1>5, <1>6, <1>7 DEF Next, Aside, Procs

\* Where a build installs, and where it is past that.
Installing == {"aside", "place", "link"}
Past       == {"profile", "building"}

LEMMA LinkedKept ==
    ASSUME BuildLinked, UNCHANGED <<links, layer, since>>, Quiet' => Quiet,
           \A pcs \in {Installing, Past} : proc'[Job].pc \in pcs =>
               proc'[Job].op = proc[Job].op /\ proc[Job].pc \in pcs
    PROVE  BuildLinked'
  BY DEF BuildLinked, Installing, Past

LEMMA LinkedElsewhere ==
    ASSUME proc'[Job].pc \notin Installing \cup Past
    PROVE  BuildLinked'
  BY DEF BuildLinked, Installing, Past

LEMMA LinkedSettled == Settled' => BuildLinked'
  BY LinkedElsewhere DEF Settled, Delicate, Installing, Past, Procs

\* While a build is past EnsureLayer nobody else is inside.
LEMMA LinkedBeside ==
    ASSUME LInv, NEW p \in Procs \ {Job}, Inside(p), proc'[Job].pc = proc[Job].pc
    PROVE  BuildLinked'
<1>1. proc'[Job].pc \in Outside
  BY OneInside DEF Procs
<1>2. QED
  BY <1>1, LinkedElsewhere DEF Installing, Past, Outside

LEMMA LinkedInstall ==
    ASSUME LInv, Files, Swapping, Fresh, BuildLinked, NEW p \in Procs, InstallStep(p), Quiet' => Quiet
    PROVE  BuildLinked'
<1>1. Inside(p)
  BY DEF InstallStep, Stage, StageRefused, SetAside, SetAsideFails, Place, PlaceFails, Link,
         LinkFails, SetProfile, ProfileRefused, Store, SetRecord, CommitFails, At, Inside, Outside
<1>2. CASE Stage(p)
  <2>1. CASE MakeConf \notin layer
    BY <1>2, <2>1 DEF Stage, BuildLinked
  <2>2. CASE MakeConf \in layer
    <3>1. /\ since' = since \cup {"install"} /\ Goto(p, "aside")
          /\ \A q \in Procs \ {p} : proc'[q] = proc[q]
      BY <1>2, <2>2, Went DEF Stage, Noted
    <3>2. CASE p = Job
      BY <3>1, <3>2, Went DEF BuildLinked
    <3>3. CASE p # Job
      BY <1>1, <3>1, <3>3, LinkedBeside DEF Procs
    <3>4. QED
      BY <3>2, <3>3
  <2>3. QED
    BY <2>1, <2>2
<1>3. CASE Link(p)
  <2>1. /\ UNCHANGED <<config, layer, since>> /\ links' = Present(config) /\ config # NoDir
        /\ proc[p].pc = "link"
    BY <1>3 DEF Link, At, Swapping
  <2>2. CASE p = Job
    <3>1. ~Midway
      BY <1>1, <2>1, NotMidway
    <3>2. /\ proc'[Job].op = proc[Job].op /\ proc'[Job].pc \notin Installing
      BY <1>3, <2>2, LinkMoves DEF Installing
    <3>3. SUFFICES ASSUME Quiet', proc'[Job].op = "build", MakeConf \in layer, "look" \in since
                   PROVE  MakeConf \in links'
      BY <2>1, <3>2 DEF BuildLinked, Installing
    <3>4. "install" \in since
      BY <2>1, <2>2, <3>2, <3>3 DEF BuildLinked
    <3>5. config[MakeConf] = Layer
      BY <2>1, <3>1, <3>3, <3>4 DEF Fresh
    <3>6. QED
      BY <2>1, <3>5, PathAssumption, NullAssumption DEF Present
  <2>3. CASE p # Job
    BY <1>1, <1>3, <2>3, LinkMoves, LinkedBeside DEF Procs
  <2>4. QED
    BY <2>2, <2>3
<1>4. CASE SetAside(p) \/ Place(p) \/ (SetProfile(p) /\ ~End(p)) \/ Store(p)
  <2>1. UNCHANGED <<links, layer, since>>
    BY <1>4 DEF SetAside, Place, SetProfile, Store, disk
  <2>2. PICK pc \in {"place", "link", "building", "store", "record"} :
           /\ Goto(p, pc)
           /\ pc \in {"place", "link"} => proc[p].pc \in {"aside", "place"}
           /\ pc = "building" => proc[p].pc = "profile"
    BY <1>4 DEF SetAside, Place, SetProfile, Store, At
  <2>3. CASE p = Job
    BY <2>1, <2>2, <2>3, Went, LinkedKept DEF Installing, Past
  <2>4. CASE p # Job
    BY <1>1, <2>2, <2>4, Went, LinkedBeside DEF Procs
  <2>5. QED
    BY <2>3, <2>4
<1>5. CASE \/ StageRefused(p) \/ SetAsideFails(p) \/ PlaceFails(p) \/ LinkFails(p)
           \/ ProfileRefused(p) \/ SetRecord(p) \/ CommitFails(p) \/ (SetProfile(p) /\ End(p))
  BY <1>5, InstallSettles, LinkedSettled
<1>6. QED
  BY <1>2, <1>3, <1>4, <1>5 DEF InstallStep

LEMMA NextLinked ==
    ASSUME LInv, Files, Swapping, Fresh, BuildLinked, Next
    PROVE  BuildLinked'
<1>0. (Quiet' => Quiet) /\ Job \in Procs
  BY QuietBack DEF Procs
<1>1. CASE Aside
  <2>1. UNCHANGED <<links, layer, since>> /\ Calm
    BY <1>1, AsideIsCalm
  <2>2. proc'[Job] = proc[Job] \/ proc'[Job].pc \notin Installing \cup Past
    BY <1>0, <2>1 DEF Calm, Delicate, Installing, Past
  <2>3. QED
    BY <1>0, <2>1, <2>2, LinkedKept, LinkedElsewhere
<1>2. ASSUME NEW p \in Procs, InstallStep(p) PROVE BuildLinked'
  BY <1>0, <1>2, LinkedInstall
<1>3. ASSUME NEW p \in Procs, DeleteStep(p) PROVE BuildLinked'
  <2>1. CASE DropArchive(p)
    <3>1. UNCHANGED <<links, layer, since>> /\ Goto(p, "blank")
      BY <2>1 DEF DropArchive
    <3>2. proc'[Job] = proc[Job] \/ proc'[Job].pc \notin Installing \cup Past
      BY <1>0, <3>1, Went DEF Installing, Past
    <3>3. QED
      BY <1>0, <3>1, <3>2, LinkedKept, LinkedElsewhere
  <2>2. QED
    BY <1>0, <1>3, <2>1, DeleteSettles, LinkedSettled
<1>4. ASSUME NEW p \in Procs, Acquire(p) PROVE BuildLinked'
  BY <1>0, <1>4, AcquireSettles, LinkedSettled
<1>5. CASE JobStep
  <2>1. CASE Extract
    BY <1>0, <2>1, Went, LinkedElsewhere DEF Extract, Installing, Past
  <2>2. CASE EnsureLayer /\ LayerApplied
    <3>1. UNCHANGED <<links, layer>> /\ Goto(Job, "building")
      BY <2>2 DEF EnsureLayer, disk
    <3>2. MakeConf \in layer => MakeConf \in links
      BY <2>2 DEF LayerApplied
    <3>3. QED
      BY <1>0, <3>1, <3>2, Went DEF BuildLinked
  <2>3. CASE Restore \/ RestoreFails \/ Reprofile \/ BuildEnds \/ (EnsureLayer /\ ~LayerApplied)
    BY <1>0, <2>3, JobSettles, LinkedSettled
  <2>4. QED
    BY <1>1, <1>5, <2>1, <2>2, <2>3 DEF JobStep, Aside
<1>6. ASSUME NEW l \in Layers, EditLayer(l) PROVE BuildLinked'
  <2>1. CASE since' = {}
    BY <2>1 DEF BuildLinked
  <2>2. CASE since' # {}
    BY <1>0, <1>6, <2>2 DEF EditLayer, BuildLinked
  <2>3. QED
    BY <2>1, <2>2
<1>7. CASE Crash
  BY <1>0, <1>7, CrashSettles, LinkedSettled
<1>8. QED
  BY <1>1, <1>2, <1>3, <1>4, <1>5, <1>6, <1>7 DEF Next, Aside, Procs

-----------------------------------------------------------------------------
(* The theorems *)

LEMMA InitIInv == Init => IInv
<1> SUFFICES ASSUME Init PROVE IInv
  OBVIOUS
<1>1. LInv
  BY InitLInv
<1>2. Settled
  BY DEF Init, Blank, Settled, Delicate
<1>3. Files
  BY DEF Init, Files
<1>4. QED
  BY <1>1, <1>2, <1>3, NullAssumption DEF Init, IInv, NoRecord, Settled, Delicate, Swapping,
     SyncApplied, Paired, Synced, LinksResolve, Fresh, BuildLinked

LEMMA NextIInv == IInv /\ [Next]_vars => IInv'
<1>1. CASE Next
  BY <1>1, NextLInv, QuietBack, NextSwap, NextPaired, NextLinks, NextFresh, NextLinked DEF IInv
<1>2. CASE UNCHANGED vars
  BY <1>2 DEF vars, disk, IInv, LInv, Ordered, LockedInside, Files, Swapping, SyncApplied, Brought,
     Paired, Synced, Quiet, LinksResolve, Fresh, Midway, BuildLinked
<1>3. QED
  BY <1>1, <1>2

THEOREM InstallInvariant == Spec => []IInv
<1>1. Init => IInv
  BY InitIInv
<1>2. IInv /\ [Next]_vars => IInv'
  BY NextIInv
<1>3. QED
  BY <1>1, <1>2, PTL DEF Spec

\* PairStored: between two requests the recorded fingerprint is that of the stored
\* archive of the machine it names, whatever syncs, applies and deletions ran.
THEOREM RecordMatchesArchive == Spec => []PairStored
<1>1. IInv => PairStored
  BY NothingInside DEF IInv, Paired, PairStored, Outside
<1>2. QED
  BY <1>1, InstallInvariant, PTL

\* LinksResolve: outside an install every link of etc/portage leads to a file.
THEOREM NoLinkDangles == Spec => []LinksResolve
<1>1. IInv => LinksResolve
  BY DEF IInv
<1>2. QED
  BY <1>1, InstallInvariant, PTL

\* BuildReadsLayer: once a flavor has a make.conf no build emerges with the stage's, and
\* none with a client's if a config was installed since.
THEOREM BuildsReadTheConfig == Spec => []BuildReadsLayer
<1>1. IInv => BuildReadsLayer
  <2> SUFFICES ASSUME IInv, Quiet, At(Job, "building"), MakeConf \in layer, "look" \in since
               PROVE  /\ MakeConf \in links /\ config[MakeConf] # None
                      /\ "install" \in since => config[MakeConf] = Layer
    BY DEF BuildReadsLayer
  <2>1. Job \in Procs /\ proc[Job].pc = "building" /\ Inside(Job)
    BY DEF Procs, At, Inside, Outside
  <2>2. proc[Job].op = "build"
    BY <2>1 DEF IInv, LInv, Ordered, Shape, Course
  <2>3. MakeConf \in links
    BY <2>1, <2>2 DEF IInv, BuildLinked
  <2>4. \A q \in Procs : proc[q].pc \notin {"place", "link"}
    BY <2>1, OneInside DEF IInv, Outside
  <2>5. config # NoDir /\ config[MakeConf] # None
    BY <2>3, <2>4 DEF IInv, LinksResolve
  <2>6. ~Midway
    BY <2>1, NotMidway DEF IInv
  <2>7. QED
    BY <2>3, <2>5, <2>6 DEF IInv, Fresh
<1>2. QED
  BY <1>1, InstallInvariant, PTL

\* OnlyAppliedIsKept: an archive is stored only while the chroot reads all of it but
\* the make.conf.
THEOREM StoredWasApplied == Spec => OnlyAppliedIsKept
<1> DEFINE Kept == \A cn \in CNs : archive'[cn] \notin {None, archive[cn]} =>
                      /\ config # NoDir
                      /\ \A q \in Holds[archive'[cn]] \ {MakeConf} :
                            q \in links /\ config[q] = archive'[cn]
<1>1. IInv /\ [Next]_vars => [Kept]_vars
  <2> SUFFICES ASSUME IInv, Next PROVE Kept
    BY DEF vars
  <2>1. CASE Aside
    BY <2>1, AsideIsCalm DEF IInv
  <2>2. ASSUME NEW p \in Procs, Store(p) PROVE Kept
    <3>1. /\ archive' = [archive EXCEPT ![proc[p].cn] = proc[p].conf]
          /\ proc[p].op = "sync" /\ proc[p].pc = "store"
      BY <2>2 DEF Store, At, IInv, LInv, Ordered, Course
    <3>2. \A cn \in CNs : archive'[cn] # archive[cn] => archive'[cn] = proc[p].conf
      BY <3>1 DEF IInv, Files
    <3>3. /\ config # NoDir /\ Brought(config, proc[p].conf)
          /\ Holds[proc[p].conf] \ {MakeConf} \subseteq links
      BY <3>1 DEF IInv, SyncApplied
    <3>4. QED
      BY <3>2, <3>3 DEF Brought
  <2>3. ASSUME NEW p \in Procs, Acquire(p) \/ (InstallStep(p) /\ ~Store(p)) PROVE Kept
    BY <2>3 DEF Acquire, InstallStep, Stage, StageRefused, SetAside, SetAsideFails, Place, PlaceFails,
                Link, LinkFails, SetProfile, ProfileRefused, SetRecord, CommitFails, disk
  <2>4. ASSUME NEW p \in Procs, DeleteStep(p) PROVE Kept
    BY <2>4 DEF DeleteStep, DropArchive, BlankRecord, CheckBusy, RemoveChroot, RemoveSync,
                RemoveLayer, RemovalFails, disk, IInv, Files
  <2>5. CASE JobStep
    BY <2>5 DEF JobStep, Extract, ExtractFails, Restore, RestoreFails, Reprofile, ProvisionMachine,
                EnsureLayer, BuildEnds, disk
  <2>6. CASE (\E l \in Layers : EditLayer(l)) \/ Crash
    BY <2>6 DEF EditLayer, Crash, disk
  <2>7. QED
    BY <2>1, <2>2, <2>3, <2>4, <2>5, <2>6 DEF Next, Aside, Procs
<1>2. QED
  BY <1>1, InstallInvariant, PTL DEF OnlyAppliedIsKept, Spec
-----------------------------------------------------------------------------
(* The order of an apply *)

LEMMA PlacesFinite ==
    ASSUME NEW S
    PROVE  /\ Places(S) \subseteq 1 .. Len(ByName) /\ Len(ByName) \in Nat
           /\ IsFiniteSet(Places(S)) /\ Cardinality(Places(S)) \in Nat
<1>1. Places(S) \in SUBSET (1 .. Len(ByName)) /\ Len(ByName) \in Nat
  BY NameAssumption DEF Places
<1>2. IsFiniteSet(1 .. Len(ByName))
  <2>1. ASSUME NEW n \in Nat PROVE IsFiniteSet(1 .. n)
    BY FS_Interval
  <2>2. QED
    BY <1>1, <2>1
<1>3. IsFiniteSet(Places(S))
  BY <1>1, <1>2, FS_Subset
<1>4. QED
  BY <1>1, <1>3, FS_CardinalityType

\* Of two machines of S the later one has more of them up to it.
LEMMA LaterIsMore ==
    ASSUME NEW S, NEW i \in Places(S), NEW j \in Places(S), i < j
    PROVE  Cardinality(Upto(S, i)) < Cardinality(Upto(S, j))
<1>1. IsFiniteSet(Upto(S, j)) /\ Upto(S, j) \subseteq Places(S)
  BY PlacesFinite, FS_Subset DEF Upto
<1>2. Upto(S, i) \subseteq Upto(S, j) /\ j \in Upto(S, j) /\ j \notin Upto(S, i)
  BY PlacesFinite DEF Upto
<1>3. /\ Cardinality(Upto(S, i)) <= Cardinality(Upto(S, j))
      /\ Cardinality(Upto(S, i)) # Cardinality(Upto(S, j))
  BY <1>1, <1>2, FS_Subset
<1>4. Cardinality(Upto(S, i)) \in Nat /\ Cardinality(Upto(S, j)) \in Nat
  BY <1>1, <1>2, FS_Subset, FS_CardinalityType
<1>5. QED
  BY <1>3, <1>4

\* There is a kth machine for every k there may be.
LEMMA KthExists ==
    ASSUME NEW S, NEW k \in 1 .. Cardinality(Places(S))
    PROVE  \E i \in Places(S) : Cardinality(Upto(S, i)) = k
<1> DEFINE P == Places(S)
           n == Cardinality(P)
           rank == [i \in P |-> Cardinality(Upto(S, i))]
<1>1. rank \in [P -> 1 .. n]
  <2>1. SUFFICES ASSUME NEW i \in P PROVE Cardinality(Upto(S, i)) \in 1 .. n
    OBVIOUS
  <2>2. /\ Upto(S, i) \in SUBSET P /\ i \in Upto(S, i)
    BY PlacesFinite DEF Upto
  <2>3. IsFiniteSet(Upto(S, i)) /\ Cardinality(Upto(S, i)) <= n
    BY <2>2, PlacesFinite, FS_Subset
  <2>4. Cardinality(Upto(S, i)) \in Nat /\ Cardinality(Upto(S, i)) # 0
    BY <2>2, <2>3, FS_CardinalityType, FS_EmptySet
  <2>5. QED
    BY <2>3, <2>4, PlacesFinite
<1>2. \A i, j \in P : rank[i] = rank[j] => i = j
  <2>1. SUFFICES ASSUME NEW i \in P, NEW j \in P, rank[i] = rank[j], i # j PROVE FALSE
    OBVIOUS
  <2>2. i < j \/ j < i
    BY <2>1, PlacesFinite
  <2>3. /\ i < j => Cardinality(Upto(S, i)) < Cardinality(Upto(S, j))
        /\ j < i => Cardinality(Upto(S, j)) < Cardinality(Upto(S, i))
    BY LaterIsMore
  <2>4. Cardinality(Upto(S, i)) \in Nat /\ Cardinality(Upto(S, i)) = Cardinality(Upto(S, j))
    BY <1>1, <2>1
  <2>5. QED
    BY <2>2, <2>3, <2>4
<1>3. rank \in Injection(P, 1 .. n)
  BY <1>1, <1>2, Zenon DEF Injection, IsInjective
<1>4. IsFiniteSet(1 .. n) /\ Cardinality(1 .. n) = n
  BY PlacesFinite, FS_Interval
<1>5. rank \in Surjection(P, 1 .. n)
  BY <1>3, <1>4, FS_Injection
<1>6. QED
  BY <1>5 DEF Surjection

\* Sorted lists machines of S, each once.
LEMMA SortedIs ==
    ASSUME NEW S
    PROVE  /\ Sorted(S) \in Seq(CNs) /\ IsInjective(Sorted(S))
           /\ \A k \in 1 .. Len(Sorted(S)) : Sorted(S)[k] \in S
<1> DEFINE n == Cardinality(Places(S))
           kth(k) == CHOOSE i \in Places(S) : Cardinality(Upto(S, i)) = k
<1>1. \A k \in 1 .. n : kth(k) \in Places(S) /\ Cardinality(Upto(S, kth(k))) = k
  BY KthExists
<1>2. \A i \in Places(S) : i \in DOMAIN ByName /\ ByName[i] \in CNs /\ ByName[i] \in S
  BY NameAssumption DEF Places
<1>3. Sorted(S) = [k \in 1 .. n |-> ByName[kth(k)]]
  BY DEF Sorted
<1> HIDE DEF kth
<1>4. Sorted(S) \in [1 .. n -> CNs] /\ \A k \in 1 .. n : Sorted(S)[k] \in S
  BY <1>1, <1>2, <1>3
<1>5. ASSUME NEW a \in 1 .. n, NEW b \in 1 .. n, Sorted(S)[a] = Sorted(S)[b] PROVE a = b
  <2>1. kth(a) = kth(b)
    BY <1>1, <1>2, <1>3, <1>5, NameAssumption DEF IsInjective
  <2>2. QED
    BY <1>1, <2>1
<1>6. n \in Nat
  BY PlacesFinite
<1> HIDE DEF n
<1>7. DOMAIN Sorted(S) = 1 .. n
  BY <1>4
<1>8. IsInjective(Sorted(S))
  BY <1>5, <1>7, Zenon DEF IsInjective
<1>9. QED
  BY <1>4, <1>6, <1>8

-----------------------------------------------------------------------------
(* TypeOK *)

\* What a request has left to do: no archive is applied twice.
Fits(r) ==
    /\ r \in Proc /\ IsInjective(r.todo)
    /\ r.op \in {"provision", "join"} => r.cn \in CNs
Todos == \A p \in Procs : Fits(proc[p])
RecordNames == record \in Record /\ (Synced => record.by \in CNs)
Disk ==
    /\ entry \in [CNs -> Entries]
    /\ stage \in {"absent", "bare", "provisioned"}
    /\ config \in Dir \cup {NoDir} /\ staging \in Dir \cup {NoDir} /\ trash \in Dir \cup {NoDir}
    /\ links \subseteq Paths
    /\ layer \in Layers \cup {{}}
    /\ lock \in Procs \cup {None}
    /\ busy \in BOOLEAN
    /\ faults \in 0 .. MaxFaults
    /\ since \subseteq {"install", "look"}
TInv == Todos /\ RecordNames /\ Disk

\* The uploads a list begins with.
LEMMA UploadsListed ==
    ASSUME LInv, NEW uploads \in SetToSeqs(Uploads)
    PROVE  uploads \in Seq(Confs) /\ IsInjective(uploads)
<1>1. Uploads \in SUBSET Confs
  BY DEF Uploads, LInv, Ordered, Shape, Procs
<1>2. Cardinality(Uploads) \in Nat
  BY <1>1, BoundAssumption, FS_Subset, FS_CardinalityType
<1>3. /\ uploads \in [1 .. Cardinality(Uploads) -> Uploads]
      /\ \A i, j \in 1 .. Cardinality(Uploads) : i # j => uploads[i] # uploads[j]
  BY DEF SetToSeqs
<1>4. DOMAIN uploads = 1 .. Cardinality(Uploads)
  BY <1>3
<1>5. IsInjective(uploads)
  BY <1>3, <1>4 DEF IsInjective
<1>6. QED
  BY <1>1, <1>2, <1>3, <1>5

\* Two lists without a common member, one behind the other.
LEMMA BothOnce ==
    ASSUME NEW A, NEW B, NEW s \in Seq(A), NEW t \in Seq(B), IsInjective(s), IsInjective(t),
           \A i \in 1 .. Len(s), j \in 1 .. Len(t) : s[i] # t[j]
    PROVE  s \o t \in Seq(A \cup B) /\ IsInjective(s \o t)
<1>1. s \in Seq(A \cup B) /\ t \in Seq(A \cup B)
  OBVIOUS
<1>2. /\ s \o t \in Seq(A \cup B) /\ DOMAIN (s \o t) = 1 .. Len(s) + Len(t)
      /\ \A k \in 1 .. Len(s) + Len(t) :
            (s \o t)[k] = IF k <= Len(s) THEN s[k] ELSE t[k - Len(s)]
  BY <1>1
<1>3. /\ Len(s) \in Nat /\ Len(t) \in Nat /\ DOMAIN s = 1 .. Len(s) /\ DOMAIN t = 1 .. Len(t)
      /\ \A i, j \in 1 .. Len(s) : s[i] = s[j] => i = j
      /\ \A i, j \in 1 .. Len(t) : t[i] = t[j] => i = j
  BY DEF IsInjective
<1>4. ASSUME NEW i \in 1 .. Len(s) + Len(t), NEW j \in 1 .. Len(s) + Len(t),
             (s \o t)[i] = (s \o t)[j]
      PROVE  i = j
  <2>1. CASE i <= Len(s) /\ j <= Len(s)
    BY <1>2, <1>3, <1>4, <2>1
  <2>2. CASE i > Len(s) /\ j > Len(s)
    BY <1>2, <1>3, <1>4, <2>2
  <2>3. CASE i <= Len(s) /\ j > Len(s)
    BY <1>2, <1>3, <1>4, <2>3
  <2>4. CASE i > Len(s) /\ j <= Len(s)
    BY <1>2, <1>3, <1>4, <2>4
  <2>5. QED
    BY <1>3, <2>1, <2>2, <2>3, <2>4
<1>5. QED
  BY <1>2, <1>4 DEF IsInjective

Once(todo) == todo \in Seq(CNs \cup Confs \cup {Upload, Alone}) /\ IsInjective(todo)

\* A list of uploads and machines.
LEMMA ListFits ==
    ASSUME NEW u \in Seq(Confs), IsInjective(u), NEW s \in Seq(CNs), IsInjective(s)
    PROVE  Once(u \o s)
<1>1. \A i \in 1 .. Len(u), j \in 1 .. Len(s) : u[i] # s[j]
  BY NullAssumption
<1>2. u \o s \in Seq(Confs \cup CNs) /\ IsInjective(u \o s)
  BY <1>1, BothOnce
<1>3. QED
  BY <1>2 DEF Once

LEMMA OneFits ==
    ASSUME NEW source \in CNs \cup Confs \cup {Upload, Alone}
    PROVE  Once(<<source>>)
  BY DEF Once, IsInjective

LEMMA TailOnce ==
    ASSUME NEW todo, Once(todo), todo # <<>>
    PROVE  Once(Tail(todo))
<1>1. /\ todo \in Seq(CNs \cup Confs \cup {Upload, Alone}) /\ Len(todo) \in Nat \ {0}
      /\ DOMAIN todo = 1 .. Len(todo) /\ \A i, j \in 1 .. Len(todo) : todo[i] = todo[j] => i = j
  BY DEF Once, IsInjective
<1>2. /\ Tail(todo) \in Seq(CNs \cup Confs \cup {Upload, Alone})
      /\ DOMAIN Tail(todo) = 1 .. Len(todo) - 1
      /\ \A i \in 1 .. Len(todo) - 1 : Tail(todo)[i] = todo[i + 1]
  BY <1>1
<1>3. \A i, j \in 1 .. Len(todo) - 1 : Tail(todo)[i] = Tail(todo)[j] => i = j
  BY <1>1, <1>2
<1>4. QED
  BY <1>2, <1>3 DEF Once, IsInjective

LEMMA NoneFits == Once(<<>>)
  BY DEF Once, IsInjective

\* Putting the last syncer last repeats nobody.
LEMMA ApplyOrderIs ==
    ASSUME LInv, RecordNames, NEW uploads \in SetToSeqs(Uploads)
    PROVE  Once(ApplyOrder(uploads)) /\ Once(Archives(uploads))
<1>0. uploads \in Seq(Confs) /\ IsInjective(uploads)
  BY UploadsListed
<1>1. Once(Archives(uploads))
  BY <1>0, SortedIs, ListFits DEF Archives
<1>2. CASE Synced
  <2>1. record.by \in CNs
    BY <1>2 DEF RecordNames
  <2> DEFINE s == Sorted(Archived \ {record.by})
             t == s \o <<record.by>>
  <2>2. /\ s \in Seq(CNs) /\ IsInjective(s)
        /\ \A i \in 1 .. Len(s) : s[i] # record.by
    BY SortedIs
  <2>3. ApplyOrder(uploads) = uploads \o s \o <<record.by>>
    BY <1>2 DEF ApplyOrder
  <2> HIDE DEF s
  <2>4. t \in Seq(CNs) /\ IsInjective(t)
    <3>1. /\ <<record.by>> \in Seq(CNs) /\ IsInjective(<<record.by>>)
          /\ Len(<<record.by>>) = 1 /\ <<record.by>>[1] = record.by
      BY <2>1 DEF IsInjective
    <3>2. \A i \in 1 .. Len(s), j \in 1 .. Len(<<record.by>>) : s[i] # <<record.by>>[j]
      BY <2>2, <3>1
    <3>3. t \in Seq(CNs \cup CNs) /\ IsInjective(t)
      BY <2>2, <3>1, <3>2, BothOnce
    <3>4. QED
      BY <3>3
  <2>5. uploads \o s \o <<record.by>> = uploads \o t
    <3>1. uploads \in Seq(CNs \cup Confs) /\ s \in Seq(CNs \cup Confs)
          /\ <<record.by>> \in Seq(CNs \cup Confs)
      BY <1>0, <2>1, <2>2
    <3>2. QED
      BY <3>1
  <2> HIDE DEF t
  <2>6. QED
    BY <1>0, <1>1, <2>3, <2>4, <2>5, ListFits
<1>3. CASE ~Synced
  BY <1>1, <1>3 DEF ApplyOrder
<1>4. QED
  BY <1>2, <1>3

LEMMA TurnFits ==
    ASSUME Todos, NEW p \in Procs, NEW r, Turns(p, r), Fits(r)
    PROVE  Todos'
  BY DEF Todos, Turns, Fits

LEMMA BlankFitsToo == Fits(Blank)
  BY NoneFits DEF Once, Fits, Blank, Proc, Ops, Pcs

LEMMA EndFits ==
    ASSUME LInv, Todos, NEW p \in Procs, End(p)
    PROVE  Todos'
  BY Turned, TurnFits, BlankFitsToo DEF End

LEMMA GotoFits ==
    ASSUME LInv, Todos, NEW p \in Procs, NEW pc \in Pcs, Goto(p, pc)
    PROVE  Todos'
<1> DEFINE r == [proc[p] EXCEPT !.pc = pc]
<1>1. Fits(r)
  BY DEF Todos, Fits, Proc
<1>2. proc' = [proc EXCEPT ![p] = r]
  BY DEF Goto, LInv, Ordered
<1>3. QED
  BY <1>1, <1>2, Turned, TurnFits

LEMMA TodoFits ==
    ASSUME LInv, Todos, NEW p \in Procs, NEW pc \in Pcs, NEW todo, Once(todo),
           proc' = [proc EXCEPT ![p].pc = pc, ![p].todo = todo]
    PROVE  Todos'
<1> DEFINE r == [proc[p] EXCEPT !.pc = pc, !.todo = todo]
<1>1. Fits(r)
  BY DEF Todos, Fits, Proc, Once
<1>2. proc' = [proc EXCEPT ![p] = r]
  BY DEF LInv, Ordered
<1>3. QED
  BY <1>1, <1>2, Turned, TurnFits

LEMMA BeginFits ==
    ASSUME LInv, Todos, NEW p \in Procs, NEW op \in Ops, NEW pc \in Pcs, NEW cn \in CNs \cup {None},
           NEW conf \in Confs \cup {None}, NEW todo, Once(todo),
           op \in {"provision", "join"} => cn \in CNs,
           Begin(p, op, pc, cn, conf, todo)
    PROVE  Todos'
<1> DEFINE r == [op |-> op, pc |-> pc, cn |-> cn, conf |-> conf, todo |-> todo]
<1>1. Fits(r)
  BY DEF Fits, Proc, Once
<1>2. proc' = [proc EXCEPT ![p] = r]
  BY DEF Begin
<1>3. QED
  BY <1>1, <1>2, Turned, TurnFits

LEMMA InstallFits ==
    ASSUME LInv, Todos, NEW p \in Procs, Acquire(p) \/ InstallStep(p)
    PROVE  Todos'
<1> USE DEF Pcs, Install
<1>1. CASE StageRefused(p) \/ SetAsideFails(p) \/ PlaceFails(p) \/ LinkFails(p)
           \/ ProfileRefused(p) \/ SetRecord(p) \/ CommitFails(p)
  BY <1>1, EndFits DEF StageRefused, SetAsideFails, PlaceFails, LinkFails, ProfileRefused,
                       SetRecord, CommitFails
<1>2. CASE Stage(p) \/ SetAside(p) \/ Place(p) \/ Store(p)
  BY <1>2, GotoFits DEF Stage, SetAside, Place, Store
<1>3. CASE SetProfile(p)
  BY <1>3, GotoFits, EndFits DEF SetProfile
<1>4. CASE Acquire(p)
  <2>1. FirstStep(proc[p].op) \in Pcs
    BY <1>4 DEF LInv, Ordered, Shape, Course, Acquire, At, FirstStep, Ops
  <2>2. QED
    BY <1>4, <2>1, GotoFits DEF Acquire
<1>5. CASE Link(p)
  <2> DEFINE t == proc[p].todo
             rest == IF t = <<>> THEN t ELSE Tail(t)
  <2>1. Once(t)
    BY DEF Todos, Fits, Proc, Once
  <2>2. Once(rest)
    BY <2>1, TailOnce
  <2>3. proc' = [proc EXCEPT ![p].pc = AfterLink(p), ![p].todo = rest]
    BY <1>5 DEF Link, LInv, Ordered, Shape
  <2>4. AfterLink(p) \in Pcs
    BY DEF AfterLink
  <2> HIDE DEF rest
  <2>5. QED
    BY <2>2, <2>3, <2>4, TodoFits
<1>6. QED
  BY <1>1, <1>2, <1>3, <1>4, <1>5 DEF InstallStep

LEMMA DeleteFits ==
    ASSUME LInv, Todos, NEW p \in Procs, DeleteStep(p)
    PROVE  Todos'
<1> USE DEF Pcs, Install
<1>1. CASE BlankRecord(p) \/ RemoveLayer(p) \/ RemovalFails(p)
  BY <1>1, EndFits DEF BlankRecord, RemoveLayer, RemovalFails
<1>2. CASE DropArchive(p) \/ CheckBusy(p) \/ RemoveChroot(p)
  BY <1>2, EndFits, GotoFits DEF DropArchive, CheckBusy, RemoveChroot
<1>3. CASE RemoveSync(p)
  <2>1. \A q \in Procs : proc'[q] = IF q = p THEN [proc[p] EXCEPT !.pc = "unlayer"]
                                    ELSE [proc[q] EXCEPT !.conf = None]
    BY <1>3 DEF RemoveSync
  <2>2. \A q \in Procs : Fits([proc[q] EXCEPT !.pc = "unlayer"]) /\ Fits([proc[q] EXCEPT !.conf = None])
    BY DEF Todos, Fits, Proc
  <2>3. QED
    BY <2>1, <2>2 DEF Todos, Fits
<1>4. QED
  BY <1>1, <1>2, <1>3 DEF DeleteStep

LEMMA JobFits ==
    ASSUME LInv, Todos, RecordNames, JobStep
    PROVE  Todos'
<1> USE DEF Pcs, Install
<1>0. Job \in Procs
  BY DEF Procs
<1>1. CASE ExtractFails \/ RestoreFails \/ ProvisionMachine \/ BuildEnds
  BY <1>0, <1>1, EndFits DEF ExtractFails, RestoreFails, ProvisionMachine, BuildEnds
<1>2. CASE Extract \/ Reprofile
  BY <1>0, <1>2, EndFits, GotoFits DEF Extract, Reprofile
<1>3. CASE Restore
  <2>1. proc[Job].cn \in CNs
    BY <1>0, <1>3 DEF Restore, At, LInv, Ordered, Course, Todos, Fits
  <2> DEFINE mine == IF archive[proc[Job].cn] # None THEN <<proc[Job].cn>> ELSE <<Alone>>
  <2>2. Once(mine)
    BY <2>1, OneFits
  <2> HIDE DEF mine
  <2>3. \/ proc' = [proc EXCEPT ![Job].pc = "stage", ![Job].todo = mine]
        \/ Goto(Job, "reprofile")
    BY <1>3 DEF Restore, mine
  <2>4. QED
    BY <1>0, <2>2, <2>3, TodoFits, GotoFits
<1>4. CASE EnsureLayer
  <2>1. \A uploads \in SetToSeqs(Uploads) : Once(Archives(uploads))
    BY ApplyOrderIs
  <2>2. \/ \E uploads \in SetToSeqs(Uploads) :
              proc' = [proc EXCEPT ![Job].pc = "stage", ![Job].todo = Archives(uploads)]
        \/ Goto(Job, "building")
    BY <1>4 DEF EnsureLayer
  <2>3. QED
    BY <1>0, <2>1, <2>2, TodoFits, GotoFits
<1>5. QED
  BY <1>1, <1>2, <1>3, <1>4 DEF JobStep

LEMMA StartFits ==
    ASSUME LInv, Todos, RecordNames, NEW p \in Requests, Start(p)
    PROVE  Todos'
<1> USE DEF Pcs, Ops
<1>0. p \in Procs /\ Once(<<>>)
  BY NoneFits DEF Procs
<1>1. ASSUME NEW cn \in CNs, NEW c \in Confs, StartSync(p, cn, c) PROVE Todos'
  <2>1. Once(<<Upload>>)
    BY OneFits
  <2>2. QED
    BY <1>0, <1>1, <2>1, BeginFits DEF StartSync
<1>2. CASE StartApply(p)
  <2>1. PICK uploads \in SetToSeqs(Uploads) :
           Begin(p, "apply", "wait", None, None, ApplyOrder(uploads))
    BY <1>2 DEF StartApply
  <2>2. Once(ApplyOrder(uploads))
    BY ApplyOrderIs
  <2>3. QED
    BY <1>0, <2>1, <2>2, BeginFits
<1>3. ASSUME NEW cn \in CNs, StartDeleteMachine(p, cn) PROVE Todos'
  <2>1. CASE Begin(p, "machine", "wait", cn, None, <<>>)
    BY <1>0, <2>1, BeginFits
  <2>2. CASE proc' = proc
    BY <2>2 DEF Todos, Fits
  <2>3. QED
    BY <1>3, <2>1, <2>2 DEF StartDeleteMachine
<1>4. CASE StartDeleteFlavor(p)
  BY <1>0, <1>4, BeginFits DEF StartDeleteFlavor
<1>5. QED
  BY <1>1, <1>2, <1>3, <1>4 DEF Start

LEMMA JobStartFits ==
    ASSUME LInv, Todos, StartBuild \/ \E cn \in CNs : StartProvision(cn)
    PROVE  Todos'
<1> USE DEF Pcs, Ops
<1>0. Job \in Procs /\ Once(<<>>)
  BY NoneFits DEF Procs
<1>1. CASE StartBuild
  BY <1>0, <1>1, BeginFits DEF StartBuild
<1>2. ASSUME NEW cn \in CNs, StartProvision(cn) PROVE Todos'
  <2>1. \E op \in {"provision", "join"}, pc \in {"wait", "extract"} : Begin(Job, op, pc, cn, None, <<>>)
    BY <1>2 DEF StartProvision
  <2>2. QED
    BY <1>0, <2>1, BeginFits
<1>3. QED
  BY <1>1, <1>2

LEMMA NextTodos == LInv /\ Todos /\ RecordNames /\ Next => Todos'
<1> SUFFICES ASSUME LInv, Todos, RecordNames, Next PROVE Todos'
  OBVIOUS
<1>1. CASE \/ \E cn \in CNs : Enroll(cn) \/ Leave(cn)
           \/ \E l \in Layers : EditLayer(l)
           \/ CancelJob
  BY <1>1 DEF Enroll, Leave, EditLayer, CancelJob, Todos, Fits
<1>2. CASE Crash
  BY <1>2, BlankFitsToo DEF Crash, Todos, Fits
<1>3. QED
  BY <1>1, <1>2, InstallFits, DeleteFits, JobFits, StartFits, JobStartFits DEF Next, Procs

LEMMA NextRecord == LInv /\ RecordNames /\ Next => RecordNames'
<1> SUFFICES ASSUME LInv, RecordNames, Next PROVE RecordNames'
  OBVIOUS
<1>1. ASSUME NEW p \in Procs, SetRecord(p) PROVE RecordNames'
  <2>1. proc[p].cn \in CNs /\ proc[p].conf \in Confs \cup {None}
    BY <1>1 DEF LInv, Ordered, Shape, Course, SetRecord, At
  <2>2. QED
    BY <1>1, <2>1 DEF SetRecord, RecordNames, Record, Synced
<1>2. ASSUME NEW p \in Procs, DeleteStep(p) PROVE RecordNames'
  BY <1>2 DEF DeleteStep, DropArchive, BlankRecord, CheckBusy, RemoveChroot, RemoveSync,
              RemoveLayer, RemovalFails, disk, NoRecord, RecordNames, Record, Synced
<1>3. CASE UNCHANGED record
  BY <1>3 DEF RecordNames, Synced
<1>4. QED
  <2>1. CASE Aside
    BY <1>3, <2>1 DEF Aside, Enroll, Leave, StartProvision, Start, StartSync, StartApply,
                StartDeleteMachine, StartDeleteFlavor, StartBuild, CancelJob, ExtractFails,
                ProvisionMachine, disk
  <2>2. CASE (\E l \in Layers : EditLayer(l)) \/ Crash \/ JobStep
    BY <1>3, <2>2 DEF EditLayer, Crash, disk, JobStep, Extract, ExtractFails, Restore,
                RestoreFails, Reprofile, ProvisionMachine, EnsureLayer, BuildEnds
  <2>3. ASSUME NEW p \in Procs, Acquire(p) \/ (InstallStep(p) /\ ~SetRecord(p)) PROVE RecordNames'
    BY <1>3, <2>3 DEF Acquire, InstallStep, Stage, StageRefused, SetAside, SetAsideFails, Place,
                PlaceFails, Link, LinkFails, SetProfile, ProfileRefused, Store, CommitFails, disk
  <2>4. QED
    BY <1>1, <1>2, <2>1, <2>2, <2>3 DEF Next, Aside, Procs

LEMMA PresentIs == ASSUME NEW dir PROVE Present(dir) \subseteq Paths
  BY DEF Present

LEMMA FaultCounts == Disk /\ Fault => faults' \in 0 .. MaxFaults
  BY BoundAssumption DEF Disk, Fault

LEMMA NextDisk == LInv /\ Files /\ Disk /\ Next => Disk'
<1> SUFFICES ASSUME LInv, Files, Disk, Next PROVE Disk'
  OBVIOUS
<1>0. ASSUME NEW p \in Procs, End(p) PROVE lock' \in Procs \cup {None} /\ busy' \in BOOLEAN
  BY <1>0 DEF End, Unlock, Disk
<1>1. CASE Aside
  BY <1>0, <1>1, FaultCounts DEF Aside, Enroll, Leave, StartProvision, Start, StartSync, StartApply,
              StartDeleteMachine, StartDeleteFlavor, StartBuild, CancelJob, ExtractFails,
              ProvisionMachine, disk, Disk, Entries, Procs
<1>2. CASE (\E l \in Layers : EditLayer(l)) \/ Crash
  BY <1>2, FaultCounts DEF EditLayer, Crash, disk, Disk
<1>3. CASE JobStep
  BY <1>0, <1>3, FaultCounts, PresentIs DEF JobStep, Extract, ExtractFails, Restore,
              RestoreFails, Reprofile, ProvisionMachine, EnsureLayer, BuildEnds, Noted, disk, Disk, Entries,
              Procs
<1>4. ASSUME NEW p \in Procs, DeleteStep(p) PROVE Disk'
  BY <1>0, <1>4, FaultCounts DEF DeleteStep, DropArchive, BlankRecord, CheckBusy, RemoveChroot,
              RemoveSync, RemoveLayer, RemovalFails, disk, Disk
<1>5. ASSUME NEW p \in Procs, Acquire(p) \/ InstallStep(p) PROVE Disk'
  <2>1. CASE Acquire(p)
    BY <2>1 DEF Acquire, disk, Disk
  <2>2. CASE Stage(p)
    <3>1. Content(p) \in Confs \cup {None}
      BY ContentIs
    <3>2. Built(Content(p)) \in Dir
      BY <3>1, BuiltIsDir
    <3>3. QED
      BY <2>2, <3>2 DEF Stage, Noted, Disk
  <2>3. CASE Place(p) \/ SetAside(p) \/ Link(p) \/ Store(p)
    BY <2>3, PresentIs DEF Place, SetAside, Link, Store, Disk
  <2>4. CASE LinkFails(p)
    BY <1>0, <2>4, PresentIs, FaultCounts DEF LinkFails, Disk
  <2>5. CASE \/ StageRefused(p) \/ SetAsideFails(p) \/ PlaceFails(p) \/ SetProfile(p)
             \/ ProfileRefused(p) \/ SetRecord(p) \/ CommitFails(p)
    BY <1>0, <2>5, FaultCounts DEF StageRefused, SetAsideFails, PlaceFails, SetProfile,
                ProfileRefused, SetRecord, CommitFails, disk, Disk
  <2>6. QED
    BY <1>5, <2>1, <2>2, <2>3, <2>4, <2>5 DEF InstallStep
<1>6. QED
  BY <1>1, <1>2, <1>3, <1>4, <1>5 DEF Next, Aside, Procs

\* TypeOK: in particular an apply, a restore and a build's install never apply an
\* archive twice, however many synced, whoever synced last and whatever is uploaded.
THEOREM InstallTypes == Spec => []TypeOK
<1>1. Init => TInv
  <2>1. Fits(Blank)
    BY BlankFitsToo
  <2>2. QED
    <3>1. Init => Todos
      BY <2>1 DEF Init, Todos
    <3>2. Init => RecordNames
      BY DEF Init, RecordNames, Record, NoRecord, Synced
    <3>3. Init => Disk
      <4>1. 0 \in 0 .. MaxFaults
        BY BoundAssumption
      <4>2. QED
        BY <4>1 DEF Init, Disk, Entries
    <3>4. QED
      BY <3>1, <3>2, <3>3 DEF TInv
<1>2. IInv /\ TInv /\ [Next]_vars => TInv'
  <2>1. CASE Next
    BY <2>1, NextTodos, NextRecord, NextDisk DEF IInv, TInv
  <2>2. CASE UNCHANGED vars
    BY <2>2 DEF vars, disk, TInv, Todos, Fits, RecordNames, Synced, Disk
  <2>3. QED
    BY <2>1, <2>2
<1>3. IInv /\ TInv => TypeOK
  BY DEF IInv, TInv, LInv, Ordered, Files, Todos, Fits, RecordNames, Disk, TypeOK
<1>4. QED
  BY <1>1, <1>2, <1>3, InstallInvariant, PTL DEF Spec
=============================================================================
