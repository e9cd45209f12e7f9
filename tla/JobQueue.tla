------------------------------ MODULE JobQueue ------------------------------
(***************************************************************************)
(* The job registry of eserved (cmd/eserved/jobs/jobs.go): Start, the      *)
(* per-flavor queues and their goroutines, the cancel handlers, the        *)
(* janitor, and a restart of the server.                                   *)
(*                                                                         *)
(* A step is what the code does under one lock, or one channel operation.  *)
(* The queue of a flavor is a Go channel made together with the goroutine  *)
(* that serves it, so a channel is named by its goroutine w \in Workers.   *)
(* Events, subscribers and streams are in JobStream.                       *)
(***************************************************************************)
EXTENDS Naturals, Sequences, FiniteSets

CONSTANTS
    Jobs,         \* pool of job IDs: newJobID never returns one twice
    Flavors,      \* names a request may carry (ValidFlavor: never empty)
    Workers,      \* pool of serveQueue goroutines
    Handlers,     \* cancel requests that may be in progress at once
    QueueBuffer,  \* capacity of a flavor's channel (8 in the code)
    NoFlavor, NoWorker, NoJob

ASSUME QueueBufferAssumption == QueueBuffer \in Nat \ {0}
ASSUME NullAssumption ==
    /\ NoFlavor \notin Flavors
    /\ NoWorker \notin Workers
    /\ NoJob \notin Jobs

VARIABLES
    up,         \* the server process is running
    state,      \* job.state; "none" before Start, "lost" after a restart
    flavor,     \* job.Flavor
    ctxDone,    \* jobs whose context was cancelled
    logs,       \* jobs whose log file is on disk
    reg,        \* keys of JobRegistry.jobs
    queues,     \* JobRegistry.queues
    chan,       \* content of each channel
    wpc,        \* program counter of each serveQueue goroutine
    wflavor,    \* its flavor argument
    wjob,       \* the job it took from its channel
    call,       \* program counter of the Start call of each job
    callQueue,  \* the queue that call got from ensureFlavorQueue
    hpc, hjob   \* program counter and job of each cancel handler

jobVars    == <<state, flavor, ctxDone, logs>>
workerVars == <<wpc, wflavor, wjob>>
callVars   == <<call, callQueue>>
cancelVars == <<hpc, hjob>>
vars == <<up, jobVars, reg, queues, chan, workerVars, callVars, cancelVars>>

Terminal == {"done", "error", "cancelled"}
States   == {"none", "new", "queued", "running", "lost"} \cup Terminal

\* Start is between registering the job and returning.
Starting == {"registered", "ensured", "marked", "full"}
\* The goroutine has a job in its hands.
Holding  == {"check", "start", "work", "returning"}

TypeOK ==
    /\ up \in BOOLEAN
    /\ state \in [Jobs -> States]
    /\ flavor \in [Jobs -> Flavors \cup {NoFlavor}]
    /\ ctxDone \subseteq Jobs
    /\ logs \subseteq Jobs
    /\ reg \subseteq Jobs
    /\ queues \in [Flavors -> Workers \cup {NoWorker}]
    /\ chan \in [Workers -> Seq(Jobs)]
    /\ \A w \in Workers : Len(chan[w]) <= QueueBuffer
    /\ wpc \in [Workers -> {"none", "wait"} \cup Holding]
    /\ wflavor \in [Workers -> Flavors \cup {NoFlavor}]
    /\ wjob \in [Workers -> Jobs \cup {NoJob}]
    /\ call \in [Jobs -> {"idle", "accepted", "refused"} \cup Starting]
    /\ callQueue \in [Jobs -> Workers \cup {NoWorker}]
    /\ hpc \in [Handlers -> {"idle", "checked", "signalled"}]
    /\ hjob \in [Handlers -> Jobs \cup {NoJob}]

Init ==
    /\ up = TRUE
    /\ state = [j \in Jobs |-> "none"]
    /\ flavor = [j \in Jobs |-> NoFlavor]
    /\ ctxDone = {} /\ logs = {} /\ reg = {}
    /\ queues = [f \in Flavors |-> NoWorker]
    /\ chan = [w \in Workers |-> <<>>]
    /\ wpc = [w \in Workers |-> "none"]
    /\ wflavor = [w \in Workers |-> NoFlavor]
    /\ wjob = [w \in Workers |-> NoJob]
    /\ call = [j \in Jobs |-> "idle"]
    /\ callQueue = [j \in Jobs |-> NoWorker]
    /\ hpc = [h \in Handlers |-> "idle"]
    /\ hjob = [h \in Handlers |-> NoJob]

-----------------------------------------------------------------------------
(* Job.Finish and the predicates the handlers ask of a job. *)

Finished(j) == state[j] \in Terminal

\* mutants of Finish: the log is left on disk; the check for a job that is
\* already over is missing
FinishKeepsLog(j, s) ==
    IF Finished(j) THEN UNCHANGED <<state, ctxDone, logs>>
    ELSE /\ state' = [state EXCEPT ![j] = s]
         /\ ctxDone' = ctxDone \cup {j}
         /\ UNCHANGED logs
FinishAgain(j, s) ==
    /\ state' = [state EXCEPT ![j] = s]
    /\ ctxDone' = ctxDone \cup {j}
    /\ logs' = logs \ {j}

\* Only the first Finish counts: it fixes the state, deletes the log and
\* cancels the context.
Finish(j, s) ==
    IF Finished(j) THEN UNCHANGED <<state, ctxDone, logs>>
    ELSE /\ state' = [state EXCEPT ![j] = s]
         /\ ctxDone' = ctxDone \cup {j}
         /\ logs' = logs \ {j}

\* FlavorBusy: some job the registry knows on this flavor is not over.
FlavorBusy(f) == \E j \in reg : flavor[j] = f /\ ~Finished(j)

-----------------------------------------------------------------------------
(* JobRegistry.Start, run by the handler of a provision or build request. *)

\* The log file is made and the job registered, its state still empty. A
\* failure before that has no effect.
StartRegister(j, f) ==
    /\ up
    /\ state[j] = "none"
    /\ state' = [state EXCEPT ![j] = "new"]
    /\ flavor' = [flavor EXCEPT ![j] = f]
    /\ logs' = logs \cup {j}
    /\ reg' = reg \cup {j}
    /\ call' = [call EXCEPT ![j] = "registered"]
    /\ UNCHANGED <<up, ctxDone, queues, chan, workerVars, callQueue, cancelVars>>

\* mutant: the lookup is made before the lock is taken and finds nothing
HasQueueStale(f) == FALSE
HasQueue(f) == queues[f] # NoWorker

\* ensureFlavorQueue: the flavor's channel, made with its goroutine if new.
EnsureQueue(j) ==
    /\ call[j] = "registered"
    /\ call' = [call EXCEPT ![j] = "ensured"]
    /\ \/ /\ HasQueue(flavor[j])
          /\ callQueue' = [callQueue EXCEPT ![j] = queues[flavor[j]]]
          /\ UNCHANGED <<queues, wpc, wflavor>>
       \/ /\ ~HasQueue(flavor[j])
          /\ \E w \in Workers :
                /\ wpc[w] = "none"
                /\ wpc' = [wpc EXCEPT ![w] = "wait"]
                /\ wflavor' = [wflavor EXCEPT ![w] = flavor[j]]
                /\ queues' = [queues EXCEPT ![flavor[j]] = w]
                /\ callQueue' = [callQueue EXCEPT ![j] = w]
    /\ UNCHANGED <<up, jobVars, reg, chan, wjob, cancelVars>>

\* The state becomes queued, whatever it was.
MarkQueued(j) ==
    /\ call[j] = "ensured"
    /\ state' = [state EXCEPT ![j] = "queued"]
    /\ call' = [call EXCEPT ![j] = "marked"]
    /\ UNCHANGED <<up, flavor, ctxDone, logs, reg, queues, chan, workerVars,
                   callQueue, cancelVars>>

\* mutant: one job too many fits
HasRoomOffByOne(w) == Len(chan[w]) <= QueueBuffer
HasRoom(w) == Len(chan[w]) < QueueBuffer

\* The non-blocking send: it succeeds, or Start learns the queue is full.
Enqueue(j) ==
    /\ call[j] = "marked"
    /\ HasRoom(callQueue[j])
    /\ chan' = [chan EXCEPT ![callQueue[j]] = Append(@, j)]
    /\ call' = [call EXCEPT ![j] = "accepted"]
    /\ UNCHANGED <<up, jobVars, reg, queues, workerVars, callQueue, cancelVars>>

QueueFull(j) ==
    /\ call[j] = "marked"
    /\ ~HasRoom(callQueue[j])
    /\ call' = [call EXCEPT ![j] = "full"]
    /\ UNCHANGED <<up, jobVars, reg, queues, chan, workerVars, callQueue, cancelVars>>

\* mutant: the refused job is left as it is
RefuseForgotten(j) ==
    /\ call[j] = "full"
    /\ call' = [call EXCEPT ![j] = "refused"]
    /\ UNCHANGED <<up, jobVars, reg, queues, chan, workerVars, callQueue, cancelVars>>
Refuse(j) ==
    /\ call[j] = "full"
    /\ Finish(j, "error")
    /\ call' = [call EXCEPT ![j] = "refused"]
    /\ UNCHANGED <<up, flavor, reg, queues, chan, workerVars, callQueue, cancelVars>>

-----------------------------------------------------------------------------
(* serveQueue, the goroutine of a flavor, and the work it runs. *)

Idle(w) == /\ wpc' = [wpc EXCEPT ![w] = "wait"]
           /\ wjob' = [wjob EXCEPT ![w] = NoJob]

\* mutant: the job is looked at and not removed
TakeKeeps(w) ==
    /\ wpc[w] = "wait"
    /\ chan[w] # <<>>
    /\ wjob' = [wjob EXCEPT ![w] = Head(chan[w])]
    /\ wpc' = [wpc EXCEPT ![w] = "check"]
    /\ UNCHANGED <<up, jobVars, reg, queues, chan, wflavor, callVars, cancelVars>>
\* mutant: the job that waited least is taken
TakeLast(w) ==
    /\ wpc[w] = "wait"
    /\ chan[w] # <<>>
    /\ wjob' = [wjob EXCEPT ![w] = chan[w][Len(chan[w])]]
    /\ chan' = [chan EXCEPT ![w] = SubSeq(@, 1, Len(@) - 1)]
    /\ wpc' = [wpc EXCEPT ![w] = "check"]
    /\ UNCHANGED <<up, jobVars, reg, queues, wflavor, callVars, cancelVars>>
Take(w) ==
    /\ wpc[w] = "wait"
    /\ chan[w] # <<>>
    /\ wjob' = [wjob EXCEPT ![w] = Head(chan[w])]
    /\ chan' = [chan EXCEPT ![w] = Tail(@)]
    /\ wpc' = [wpc EXCEPT ![w] = "check"]
    /\ UNCHANGED <<up, jobVars, reg, queues, wflavor, callVars, cancelVars>>

\* mutant: the goroutine returns instead of going on with the next job
SkipReturns(w) ==
    /\ wpc[w] = "check"
    /\ Finished(wjob[w])
    /\ wpc' = [wpc EXCEPT ![w] = "none"]
    /\ wjob' = [wjob EXCEPT ![w] = NoJob]
    /\ UNCHANGED <<up, jobVars, reg, queues, chan, wflavor, callVars, cancelVars>>
\* The job ended while it waited: nothing to run.
SkipFinished(w) ==
    /\ wpc[w] = "check"
    /\ Finished(wjob[w])
    /\ Idle(w)
    /\ UNCHANGED <<up, jobVars, reg, queues, chan, wflavor, callVars, cancelVars>>

\* mutant: IsFinished is not asked
PassUnchecked(w) ==
    /\ wpc[w] = "check"
    /\ wpc' = [wpc EXCEPT ![w] = "start"]
    /\ UNCHANGED <<up, jobVars, reg, queues, chan, wflavor, wjob, callVars, cancelVars>>
PassCheck(w) ==
    /\ wpc[w] = "check"
    /\ ~Finished(wjob[w])
    /\ wpc' = [wpc EXCEPT ![w] = "start"]
    /\ UNCHANGED <<up, jobVars, reg, queues, chan, wflavor, wjob, callVars, cancelVars>>

\* A job cancelled since the check stays cancelled, and its work runs all the
\* same.
StartRunning(w) ==
    /\ wpc[w] = "start"
    /\ state' = IF state[wjob[w]] = "queued"
                THEN [state EXCEPT ![wjob[w]] = "running"] ELSE state
    /\ wpc' = [wpc EXCEPT ![w] = "work"]
    /\ UNCHANGED <<up, flavor, ctxDone, logs, reg, queues, chan, wflavor, wjob,
                   callVars, cancelVars>>

\* The work calls Finish itself: ProvisionJob always, a build when it fails.
WorkFinishes(w, s) ==
    /\ wpc[w] = "work"
    /\ Finish(wjob[w], s)
    /\ wpc' = [wpc EXCEPT ![w] = "returning"]
    /\ UNCHANGED <<up, flavor, reg, queues, chan, wflavor, wjob, callVars, cancelVars>>

WorkReturns(w) ==
    /\ wpc[w] = "work"
    /\ wpc' = [wpc EXCEPT ![w] = "returning"]
    /\ UNCHANGED <<up, jobVars, reg, queues, chan, wflavor, wjob, callVars, cancelVars>>

\* The work panics: runWorkBlocking recovers and ends the job.
WorkPanics(w) ==
    /\ wpc[w] = "work"
    /\ Finish(wjob[w], "error")
    /\ Idle(w)
    /\ UNCHANGED <<up, flavor, reg, queues, chan, wflavor, callVars, cancelVars>>

\* finishWorkedJob: done, unless someone already ended the job.
FinishWorked(w) ==
    /\ wpc[w] = "returning"
    /\ Finish(wjob[w], "done")
    /\ Idle(w)
    /\ UNCHANGED <<up, flavor, reg, queues, chan, wflavor, callVars, cancelVars>>

-----------------------------------------------------------------------------
(* The cancel handlers (client and admin), the janitor, a restart. *)

\* Get and IsFinished; a job that is over is answered 409. The admin's list
\* shows a job from the moment it is registered.
CancelCheck(h, j) ==
    /\ up
    /\ hpc[h] = "idle"
    /\ j \in reg
    /\ ~Finished(j)
    /\ hpc' = [hpc EXCEPT ![h] = "checked"]
    /\ hjob' = [hjob EXCEPT ![h] = j]
    /\ UNCHANGED <<up, jobVars, reg, queues, chan, workerVars, callVars>>

CancelSignal(h) ==
    /\ hpc[h] = "checked"
    /\ ctxDone' = ctxDone \cup {hjob[h]}
    /\ hpc' = [hpc EXCEPT ![h] = "signalled"]
    /\ UNCHANGED <<up, state, flavor, logs, reg, queues, chan, workerVars, callVars, hjob>>

CancelFinish(h) ==
    /\ hpc[h] = "signalled"
    /\ Finish(hjob[h], "cancelled")
    /\ hpc' = [hpc EXCEPT ![h] = "idle"]
    /\ hjob' = [hjob EXCEPT ![h] = NoJob]
    /\ UNCHANGED <<up, flavor, reg, queues, chan, workerVars, callVars>>

\* mutant: the janitor looks at the age alone
ReapableByAge(j) == call[j] \notin Starting
\* jobRetention is an hour, longer than any Start call.
Reapable(j) == Finished(j) /\ call[j] \notin Starting

Reap(j) ==
    /\ j \in reg
    /\ Reapable(j)
    /\ reg' = reg \ {j}
    /\ UNCHANGED <<up, jobVars, queues, chan, workerVars, callVars, cancelVars>>

\* The process dies: everything but the log files goes with it.
Crash ==
    /\ up
    /\ up' = FALSE
    /\ state' = [j \in Jobs |-> IF state[j] = "none" THEN "none" ELSE "lost"]
    /\ ctxDone' = {} /\ reg' = {}
    /\ queues' = [f \in Flavors |-> NoWorker]
    /\ chan' = [w \in Workers |-> <<>>]
    /\ wpc' = [w \in Workers |-> "none"]
    /\ wflavor' = [w \in Workers |-> NoFlavor]
    /\ wjob' = [w \in Workers |-> NoJob]
    /\ call' = [j \in Jobs |-> "idle"]
    /\ callQueue' = [j \in Jobs |-> NoWorker]
    /\ hpc' = [h \in Handlers |-> "idle"]
    /\ hjob' = [h \in Handlers |-> NoJob]
    /\ UNCHANGED <<flavor, logs>>

\* serveHTTP: SweepStaleLogs, then the server listens.
Boot ==
    /\ ~up
    /\ up' = TRUE
    /\ logs' = {}
    /\ UNCHANGED <<state, flavor, ctxDone, reg, queues, chan, workerVars, callVars, cancelVars>>

-----------------------------------------------------------------------------
StartStep(j) ==
    \/ EnsureQueue(j) \/ MarkQueued(j) \/ Enqueue(j) \/ QueueFull(j) \/ Refuse(j)

WorkerStep(w) ==
    \/ Take(w) \/ SkipFinished(w) \/ PassCheck(w) \/ StartRunning(w)
    \/ \E s \in {"done", "error"} : WorkFinishes(w, s)
    \/ WorkReturns(w) \/ WorkPanics(w) \/ FinishWorked(w)

CancelStep(h) == CancelSignal(h) \/ CancelFinish(h)

Next ==
    \/ \E j \in Jobs, f \in Flavors : StartRegister(j, f)
    \/ \E j \in Jobs : StartStep(j) \/ Reap(j)
    \/ \E w \in Workers : WorkerStep(w)
    \/ \E h \in Handlers, j \in Jobs : CancelCheck(h, j)
    \/ \E h \in Handlers : CancelStep(h)
    \/ Crash
    \/ Boot

Spec == Init /\ [][Next]_vars

\* A Go routine that can run does run, and the work of a job ends (its commands
\* exit, or are killed by its context). Nobody has to ask for anything.
Fairness ==
    /\ \A j \in Jobs : WF_vars(StartStep(j))
    /\ \A w \in Workers : WF_vars(WorkerStep(w))
    /\ \A h \in Handlers : WF_vars(CancelStep(h))

FairSpec == Spec /\ Fairness

-----------------------------------------------------------------------------
(* Properties *)

Waiting(j, w) == \E i \in DOMAIN chan[w] : chan[w][i] = j
InHand(j, w)  == wpc[w] \in Holding /\ wjob[w] = j
Running(w)    == wpc[w] \in {"work", "returning"}

\* Two goroutines never run jobs of the same flavor at the same time, not even
\* when one of the two was cancelled and its work is still winding down.
OneAtATime ==
    \A v, w \in Workers :
        Running(v) /\ Running(w) /\ flavor[wjob[v]] = flavor[wjob[w]] => v = w

Places(j) ==
    (IF call[j] \in Starting THEN 1 ELSE 0)
    + Cardinality({p \in Workers \X (1 .. QueueBuffer) :
                      p[2] <= Len(chan[p[1]]) /\ chan[p[1]][p[2]] = j})
    + Cardinality({w \in Workers : InHand(j, w)})

\* A job that is not over is in exactly one place that will end it: its Start
\* call, its flavor's channel or its flavor's goroutine. No job is in two, so
\* none runs twice; none is stranded, so none keeps its flavor busy for ever.
OneOwner ==
    \A j \in Jobs :
        /\ Places(j) <= 1
        /\ state[j] \in {"new", "queued", "running"} => Places(j) = 1

\* A job that Start refused is over and is with no channel and no goroutine: its
\* work never runs. PostProvision hands the switch token back because of this.
RefusedNeverRuns ==
    \A j \in Jobs : call[j] = "refused" =>
        Finished(j) /\ \A w \in Workers : ~Waiting(j, w) /\ ~InHand(j, w)

\* A job that is over has released its context, and its log is off the disk;
\* after a restart no log of an earlier process is left either.
EndedJobsHoldNothing ==
    up => \A j \in Jobs :
        /\ Finished(j) => j \in ctxDone
        /\ j \in logs => state[j] \in {"new", "queued", "running"}

\* While a job that is not over waits or runs, FlavorBusy says so: the janitor
\* never takes it out of the registry.
UnfinishedIsBusy ==
    \A j \in Jobs : state[j] \in {"new", "queued", "running"} => FlavorBusy(flavor[j])

\* Once Start has marked its job, the way it ended is final.
EndIsFinal ==
    [][\A j \in Jobs : Finished(j) /\ call[j] \notin {"registered", "ensured"}
            => state'[j] \in {state[j], "lost"}]_vars

\* A job that ended while it waited in the channel is never run.
EndedWaitingNeverRuns ==
    \A j \in Jobs :
        []((call[j] = "accepted" /\ Finished(j) /\ \E w \in Workers : Waiting(j, w))
            => [](\A w \in Workers : ~(InHand(j, w) /\ Running(w))))

\* Every job that was registered ends, for good, or is lost in a restart: no
\* cancelled, failed or panicking job keeps the ones behind it waiting.
EveryJobEnds ==
    \A j \in Jobs : (state[j] # "none") ~> [](Finished(j) \/ state[j] = "lost")

-----------------------------------------------------------------------------
(* JobQueue implements JobLanes: the lane of a flavor is its channel, what is *)
(* in its hand is the job its goroutine took.                                 *)

HasLane(f) == queues[f] # NoWorker

LaneOf == [f \in Flavors |-> IF HasLane(f) THEN chan[queues[f]] ELSE <<>>]
HandOf == [f \in Flavors |-> IF HasLane(f) THEN wjob[queues[f]] ELSE NoJob]
WorkingOf == {f \in Flavors : HasLane(f) /\ Running(queues[f])}
TakenOf   == {j \in Jobs : flavor[j] # NoFlavor /\ call[j] \in {"accepted", "idle"}}

Lanes == INSTANCE JobLanes WITH
             Capacity <- QueueBuffer, Nothing <- NoJob,
             lane <- LaneOf, hand <- HandOf, working <- WorkingOf, taken <- TakenOf

\* Jobs of a flavor are worked on one at a time, each once, in the order Start
\* accepted them, whichever are cancelled, panic or are skipped on the way.
ImplementsLanes == Lanes!Spec
=============================================================================
