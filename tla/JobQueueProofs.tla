--------------------------- MODULE JobQueueProofs ---------------------------
(***************************************************************************)
(* What is proved of the job registry, for any number of jobs, flavors,    *)
(* queue goroutines and cancel requests and any queue length.              *)
(***************************************************************************)
EXTENDS JobQueue, FiniteSetTheorems, TLAPS

\* A cancel handler in progress has a job.
HandlersHaveJobs == \A h \in Handlers : hpc[h] # "idle" => hjob[h] \in Jobs

\* JobRegistry.queues and the goroutines name each other: a flavor has one
\* goroutine, and every goroutine is the one its flavor has.
ServedOnce ==
    /\ \A w \in Workers : wpc[w] # "none" =>
           wflavor[w] \in Flavors /\ queues[wflavor[w]] = w
    /\ \A f \in Flavors : queues[f] # NoWorker =>
           wpc[queues[f]] # "none" /\ wflavor[queues[f]] = f

\* A Start call has a registered job, and the channel of its flavor.
CallsOwned ==
    \A j \in Jobs :
        /\ call[j] # "idle" => state[j] # "none" /\ flavor[j] \in Flavors
        /\ call[j] \in {"ensured", "marked", "full"} =>
               /\ callQueue[j] \in Workers
               /\ wpc[callQueue[j]] # "none"
               /\ wflavor[callQueue[j]] = flavor[j]

\* A channel holds jobs of its flavor only.
ChansOwned ==
    \A w \in Workers :
        /\ wpc[w] = "none" => chan[w] = <<>>
        /\ \A i \in 1 .. Len(chan[w]) :
               state[chan[w][i]] # "none" /\ flavor[chan[w][i]] = wflavor[w]

\* A goroutine has a job of its flavor in its hands.
HandsOwned ==
    \A w \in Workers : wpc[w] \in Holding =>
        wjob[w] \in Jobs /\ state[wjob[w]] # "none" /\ flavor[wjob[w]] = wflavor[w]

\* The inductive invariant: OneAtATime says nothing of where a goroutine got
\* its job from, these do.
IInv ==
    TypeOK /\ HandlersHaveJobs /\ ServedOnce /\ CallsOwned /\ ChansOwned /\ HandsOwned

-----------------------------------------------------------------------------
\* The server starts with nothing registered.
LEMMA InitIInv == Init => IInv
<1> SUFFICES ASSUME Init PROVE IInv
  OBVIOUS
<1>1. TypeOK
  BY QueueBufferAssumption DEF Init, TypeOK, States, Terminal, Starting, Holding
<1>2. HandlersHaveJobs /\ ServedOnce /\ CallsOwned /\ ChansOwned /\ HandsOwned
  BY DEF Init, HandlersHaveJobs, ServedOnce, CallsOwned, ChansOwned, HandsOwned, Holding
<1>3. QED
  BY <1>1, <1>2 DEF IInv

\* What Finish does to the types, and that it neither makes nor unmakes a job.
LEMMA FinishKeeps ==
    ASSUME TypeOK, NEW j \in Jobs, NEW s \in Terminal, Finish(j, s)
    PROVE  /\ state' \in [Jobs -> States] /\ ctxDone' \subseteq Jobs /\ logs' \subseteq Jobs
           /\ \A i \in Jobs : state[i] # "none" => state'[i] # "none"
  BY DEF TypeOK, Finish, Finished, States, Terminal

\* No job is unmade and none changes its flavor.
JobsKept == /\ \A j \in Jobs : state[j] # "none" => state'[j] # "none"
            /\ UNCHANGED flavor

Owned == ServedOnce /\ CallsOwned /\ ChansOwned /\ HandsOwned

\* What a channel holds are jobs.
LEMMA ChansHoldJobs ==
    ASSUME TypeOK
    PROVE  \A w \in Workers : \A i \in 1 .. Len(chan[w]) : chan[w][i] \in Jobs
  BY DEF TypeOK

\* A step that leaves the queues, the channels and the calls alone keeps what
\* they own.
LEMMA OwnedKept ==
    ASSUME IInv, JobsKept,
           UNCHANGED <<queues, chan, wpc, wflavor, wjob, call, callQueue>>
    PROVE  Owned'
<1> USE DEF IInv, JobsKept
<1>1. ServedOnce'
  BY DEF ServedOnce
<1>2. CallsOwned'
  BY DEF CallsOwned
<1>3. ChansOwned'
  BY ChansHoldJobs DEF ChansOwned
<1>4. HandsOwned'
  BY DEF HandsOwned
<1>5. QED
  BY <1>1, <1>2, <1>3, <1>4 DEF Owned

\* So does a Start call that has its channel and moves on,
LEMMA CallMoves ==
    ASSUME IInv, JobsKept, NEW j \in Jobs,
           call[j] \in {"ensured", "marked", "full"},
           \A i \in Jobs \ {j} : call'[i] = call[i],
           UNCHANGED <<queues, chan, wpc, wflavor, wjob, callQueue>>
    PROVE  Owned'
<1> USE DEF IInv, JobsKept
<1>1. ServedOnce'
  BY DEF ServedOnce
<1>2. CallsOwned'
  BY DEF CallsOwned, TypeOK
<1>3. ChansOwned'
  BY ChansHoldJobs DEF ChansOwned
<1>4. HandsOwned'
  BY DEF HandsOwned
<1>5. QED
  BY <1>1, <1>2, <1>3, <1>4 DEF Owned

\* and a goroutine that goes on with its job, or lets it go.
LEMMA HandMoves ==
    ASSUME IInv, JobsKept, NEW w \in Workers, NEW pc \in Holding \cup {"wait"},
           wpc[w] \in Holding, wpc' = [wpc EXCEPT ![w] = pc],
           \/ wjob' = wjob
           \/ pc = "wait" /\ wjob' = [wjob EXCEPT ![w] = NoJob],
           UNCHANGED <<queues, chan, wflavor, call, callQueue>>
    PROVE  Owned'
<1> USE DEF IInv, JobsKept, TypeOK, Holding
<1>1. ServedOnce'
  BY DEF ServedOnce
<1>2. CallsOwned'
  BY DEF CallsOwned
<1>3. ChansOwned'
  BY ChansHoldJobs DEF ChansOwned
<1>4. HandsOwned'
  BY DEF HandsOwned
<1>5. QED
  BY <1>1, <1>2, <1>3, <1>4 DEF Owned

-----------------------------------------------------------------------------
\* Start registers a job with no queue yet.
LEMMA StartRegisterIInv ==
    ASSUME IInv, NEW j \in Jobs, NEW f \in Flavors, StartRegister(j, f)
    PROVE  IInv'
<1> USE DEF IInv, StartRegister, workerVars, cancelVars
<1>1. TypeOK' /\ HandlersHaveJobs'
  BY DEF TypeOK, HandlersHaveJobs, States, Starting
<1>2. ServedOnce'
  BY DEF ServedOnce
<1>3. CallsOwned'
  BY DEF CallsOwned, TypeOK
<1>4. ChansOwned'
  BY ChansHoldJobs DEF ChansOwned, TypeOK
<1>5. HandsOwned'
  BY DEF HandsOwned, TypeOK
<1>6. QED
  BY <1>1, <1>2, <1>3, <1>4, <1>5

\* ensureFlavorQueue finds the goroutine of the flavor, or starts its only one.
LEMMA EnsureQueueIInv ==
    ASSUME IInv, NEW j \in Jobs, EnsureQueue(j)
    PROVE  IInv'
<1> DEFINE f == flavor[j]
<1> USE DEF IInv
<1>1. f \in Flavors /\ state[j] # "none"
  BY DEF EnsureQueue, CallsOwned
<1>2. /\ call[j] = "registered" /\ call' = [call EXCEPT ![j] = "ensured"]
      /\ UNCHANGED <<up, state, flavor, ctxDone, logs, reg, chan, wjob, hpc, hjob>>
  BY DEF EnsureQueue, jobVars, cancelVars
<1>3. CASE HasQueue(f)
  <2>1. /\ queues[f] \in Workers
        /\ callQueue' = [callQueue EXCEPT ![j] = queues[f]]
        /\ UNCHANGED <<queues, wpc, wflavor>>
    BY <1>1, <1>3 DEF TypeOK, HasQueue, EnsureQueue
  <2>2. TypeOK' /\ HandlersHaveJobs'
    BY <1>2, <2>1 DEF TypeOK, HandlersHaveJobs, Starting
  <2>3. ServedOnce' /\ ChansOwned' /\ HandsOwned'
    BY <1>2, <2>1 DEF ServedOnce, ChansOwned, HandsOwned
  <2>4. CallsOwned'
    BY <1>1, <1>2, <1>3, <2>1 DEF CallsOwned, ServedOnce, TypeOK, HasQueue
  <2>5. QED
    BY <2>2, <2>3, <2>4
<1>4. CASE ~HasQueue(f)
  <2>1. PICK w \in Workers :
           /\ wpc[w] = "none"
           /\ wpc' = [wpc EXCEPT ![w] = "wait"]
           /\ wflavor' = [wflavor EXCEPT ![w] = f]
           /\ queues' = [queues EXCEPT ![f] = w]
           /\ callQueue' = [callQueue EXCEPT ![j] = w]
    BY <1>4 DEF EnsureQueue
  <2>2. TypeOK' /\ HandlersHaveJobs'
    BY <1>1, <1>2, <2>1 DEF TypeOK, HandlersHaveJobs, Starting
  <2>3. ServedOnce'
    <3>1. queues[f] = NoWorker
      BY <1>4 DEF HasQueue
    <3>2. \A v \in Workers : wpc'[v] # "none" =>
             wflavor'[v] \in Flavors /\ queues'[wflavor'[v]] = v
      BY <1>1, <2>1, <3>1, NullAssumption DEF ServedOnce, TypeOK
    <3>3. \A g \in Flavors : queues'[g] # NoWorker =>
             wpc'[queues'[g]] # "none" /\ wflavor'[queues'[g]] = g
      <4> SUFFICES ASSUME NEW g \in Flavors, queues'[g] # NoWorker
                   PROVE  wpc'[queues'[g]] # "none" /\ wflavor'[queues'[g]] = g
        OBVIOUS
      <4>1. CASE g = f
        BY <1>1, <2>1, <4>1 DEF TypeOK
      <4>2. CASE g # f
        <5>1. queues'[g] = queues[g] /\ queues[g] \in Workers
          BY <1>1, <2>1, <4>2 DEF TypeOK
        <5>2. wpc[queues[g]] # "none" /\ wflavor[queues[g]] = g
          BY <5>1 DEF ServedOnce
        <5>3. QED
          BY <2>1, <5>1, <5>2 DEF TypeOK
      <4>3. QED
        BY <4>1, <4>2
    <3>4. QED
      BY <3>2, <3>3 DEF ServedOnce
  <2>4. CallsOwned'
    <3> SUFFICES ASSUME NEW i \in Jobs
                 PROVE  /\ call'[i] # "idle" => state'[i] # "none" /\ flavor'[i] \in Flavors
                        /\ call'[i] \in {"ensured", "marked", "full"} =>
                              /\ callQueue'[i] \in Workers
                              /\ wpc'[callQueue'[i]] # "none"
                              /\ wflavor'[callQueue'[i]] = flavor'[i]
      BY DEF CallsOwned
    <3>1. CASE i = j
      BY <1>1, <1>2, <2>1, <3>1 DEF TypeOK
    <3>2. CASE i # j
      <4>1. call'[i] = call[i] /\ callQueue'[i] = callQueue[i]
        BY <1>2, <2>1, <3>2 DEF TypeOK
      <4>2. QED
        BY <1>2, <2>1, <4>1 DEF CallsOwned, TypeOK
    <3>3. QED
      BY <3>1, <3>2
  <2>5. ChansOwned'
    <3>1. chan[w] = <<>>
      BY <2>1 DEF ChansOwned
    <3>2. QED
      BY <1>2, <2>1, <3>1 DEF ChansOwned, TypeOK
  <2>6. HandsOwned'
    BY <1>2, <2>1 DEF HandsOwned, TypeOK, Holding
  <2>7. QED
    BY <2>2, <2>3, <2>4, <2>5, <2>6
<1>5. QED
  BY <1>3, <1>4

\* What the send does to the channels.
LEMMA EnqueueAppends ==
    ASSUME IInv, NEW j \in Jobs, Enqueue(j)
    PROVE  /\ callQueue[j] \in Workers
           /\ Len(chan'[callQueue[j]]) = Len(chan[callQueue[j]]) + 1
           /\ \A i \in 1 .. Len(chan'[callQueue[j]]) :
                  /\ i <= Len(chan[callQueue[j]]) =>
                         chan'[callQueue[j]][i] = chan[callQueue[j]][i]
                  /\ i > Len(chan[callQueue[j]]) => chan'[callQueue[j]][i] = j
           /\ \A w \in Workers \ {callQueue[j]} : chan'[w] = chan[w]
<1> USE DEF IInv, Enqueue, TypeOK
<1>1. callQueue[j] \in Workers
  BY DEF CallsOwned
<1>2. /\ chan'[callQueue[j]] = Append(chan[callQueue[j]], j)
      /\ chan[callQueue[j]] \in Seq(Jobs)
  BY <1>1
<1>3. QED
  BY <1>1, <1>2

\* What a receive does to the channels.
LEMMA TakeRemoves ==
    ASSUME IInv, NEW w \in Workers, Take(w)
    PROVE  /\ chan[w] \in Seq(Jobs) /\ chan[w] # <<>>
           /\ Head(chan[w]) = chan[w][1] /\ 1 \in 1 .. Len(chan[w]) /\ Head(chan[w]) \in Jobs
           /\ Len(chan'[w]) = Len(chan[w]) - 1
           /\ \A i \in 1 .. Len(chan'[w]) :
                  chan'[w][i] = chan[w][i + 1] /\ i + 1 \in 1 .. Len(chan[w])
           /\ \A v \in Workers \ {w} : chan'[v] = chan[v]
<1> USE DEF IInv, Take, TypeOK
<1>1. chan[w] \in Seq(Jobs) /\ chan[w] # <<>> /\ chan'[w] = Tail(chan[w])
  OBVIOUS
<1>2. \A v \in Workers \ {w} : chan'[v] = chan[v]
  OBVIOUS
<1>3. QED
  BY <1>1, <1>2

\* The send appends the job to the channel of the job's flavor.
LEMMA EnqueueIInv ==
    ASSUME IInv, NEW j \in Jobs, Enqueue(j)
    PROVE  IInv'
<1> USE DEF IInv, Enqueue, HasRoom, jobVars, workerVars, cancelVars
<1>1. callQueue[j] \in Workers /\ wpc[callQueue[j]] # "none"
      /\ wflavor[callQueue[j]] = flavor[j] /\ state[j] # "none"
  BY DEF CallsOwned
<1>2. TypeOK' /\ HandlersHaveJobs'
  <2>1. \A w \in Workers : Len(chan'[w]) <= QueueBuffer
    BY EnqueueAppends, QueueBufferAssumption DEF TypeOK
  <2>2. chan' \in [Workers -> Seq(Jobs)]
    BY <1>1 DEF TypeOK
  <2>3. QED
    BY <2>1, <2>2 DEF TypeOK, HandlersHaveJobs, Starting
<1>3. ServedOnce' /\ HandsOwned'
  BY DEF ServedOnce, HandsOwned
<1>4. CallsOwned'
  BY DEF CallsOwned, TypeOK
<1>5. ChansOwned'
  BY <1>1, EnqueueAppends DEF ChansOwned, TypeOK
<1>6. QED
  BY <1>2, <1>3, <1>4, <1>5

\* serveQueue takes the head of its own channel.
LEMMA TakeIInv ==
    ASSUME IInv, NEW w \in Workers, Take(w)
    PROVE  IInv'
<1> USE DEF IInv, Take, jobVars, callVars, cancelVars
<1>1. TypeOK' /\ HandlersHaveJobs'
  <2>1. \A v \in Workers : Len(chan'[v]) <= QueueBuffer
    BY TakeRemoves, QueueBufferAssumption DEF TypeOK
  <2>2. QED
    BY <2>1, TakeRemoves DEF TypeOK, HandlersHaveJobs, Holding
<1>2. ServedOnce' /\ CallsOwned'
  BY DEF ServedOnce, CallsOwned, TypeOK
<1>3. ChansOwned'
  BY TakeRemoves DEF ChansOwned, TypeOK
<1>4. HandsOwned'
  BY TakeRemoves DEF HandsOwned, ChansOwned, TypeOK, Holding
<1>5. QED
  BY <1>1, <1>2, <1>3, <1>4

\* The remaining steps of a Start call, of a goroutine and of a handler.
LEMMA CallIInv ==
    ASSUME IInv, NEW j \in Jobs, MarkQueued(j) \/ QueueFull(j) \/ Refuse(j)
    PROVE  IInv'
<1> USE DEF IInv, jobVars, workerVars, cancelVars
<1>1. CASE MarkQueued(j)
  <2>1. TypeOK' /\ HandlersHaveJobs' /\ JobsKept
    BY <1>1 DEF MarkQueued, TypeOK, HandlersHaveJobs, JobsKept, States, Starting
  <2>2. Owned'
    BY <1>1, <2>1, CallMoves DEF MarkQueued, TypeOK
  <2>3. QED
    BY <2>1, <2>2 DEF Owned
<1>2. CASE QueueFull(j)
  <2>1. TypeOK' /\ HandlersHaveJobs' /\ JobsKept
    BY <1>2 DEF QueueFull, TypeOK, HandlersHaveJobs, JobsKept, Starting
  <2>2. Owned'
    BY <1>2, <2>1, CallMoves DEF QueueFull, TypeOK
  <2>3. QED
    BY <2>1, <2>2 DEF Owned
<1>3. CASE Refuse(j)
  <2>1. /\ state' \in [Jobs -> States] /\ ctxDone' \subseteq Jobs /\ logs' \subseteq Jobs
        /\ \A i \in Jobs : state[i] # "none" => state'[i] # "none"
    <3>1. \E s \in Terminal : Finish(j, s)
      BY <1>3 DEF Refuse, Terminal
    <3>2. QED
      BY <3>1, FinishKeeps
  <2>2. TypeOK' /\ HandlersHaveJobs' /\ JobsKept
    BY <1>3, <2>1 DEF Refuse, TypeOK, HandlersHaveJobs, JobsKept, Starting
  <2>3. Owned'
    <3>1. /\ call[j] \in {"ensured", "marked", "full"}
          /\ \A i \in Jobs \ {j} : call'[i] = call[i]
          /\ UNCHANGED <<queues, chan, wpc, wflavor, wjob, callQueue>>
      BY <1>3 DEF Refuse, TypeOK
    <3>2. QED
      BY <2>2, <3>1, CallMoves
  <2>4. QED
    BY <2>2, <2>3 DEF Owned
<1>4. QED
  BY <1>1, <1>2, <1>3

\* The goroutine goes on with the job in its hands: checks, runs and ends it.
LEMMA WorkerIInv ==
    ASSUME IInv, NEW w \in Workers, WorkerStep(w), ~Take(w)
    PROVE  IInv'
<1> USE DEF IInv, jobVars, callVars, cancelVars, Idle
<1>1. CASE SkipFinished(w) \/ PassCheck(w) \/ WorkReturns(w)
  <2>1. TypeOK' /\ HandlersHaveJobs' /\ JobsKept
    BY <1>1 DEF SkipFinished, PassCheck, WorkReturns, TypeOK, HandlersHaveJobs,
                JobsKept, Holding
  <2>2. Owned'
    BY <1>1, <2>1, HandMoves DEF SkipFinished, PassCheck, WorkReturns, Holding
  <2>3. QED
    BY <2>1, <2>2 DEF Owned
<1>2. CASE StartRunning(w)
  <2>1. TypeOK' /\ HandlersHaveJobs' /\ JobsKept
    BY <1>2 DEF StartRunning, TypeOK, HandlersHaveJobs, JobsKept, Holding, States
  <2>2. Owned'
    BY <1>2, <2>1, HandMoves DEF StartRunning, Holding
  <2>3. QED
    BY <2>1, <2>2 DEF Owned
<1>3. CASE (\E s \in {"done", "error"} : WorkFinishes(w, s)) \/ WorkPanics(w) \/ FinishWorked(w)
  <2>1. wpc[w] \in Holding /\ \E s \in Terminal : Finish(wjob[w], s)
    BY <1>3 DEF WorkFinishes, WorkPanics, FinishWorked, Holding, Terminal
  <2>2. wjob[w] \in Jobs
    BY <2>1 DEF HandsOwned
  <2>3. /\ state' \in [Jobs -> States] /\ ctxDone' \subseteq Jobs /\ logs' \subseteq Jobs
        /\ \A i \in Jobs : state[i] # "none" => state'[i] # "none"
    BY <2>1, <2>2, FinishKeeps
  <2>4. TypeOK' /\ HandlersHaveJobs' /\ JobsKept
    BY <1>3, <2>3 DEF WorkFinishes, WorkPanics, FinishWorked, TypeOK, HandlersHaveJobs,
                      JobsKept, Holding
  <2>5. Owned'
    BY <1>3, <2>1, <2>4, HandMoves DEF WorkFinishes, WorkPanics, FinishWorked, Holding
  <2>6. QED
    BY <2>4, <2>5 DEF Owned
<1>4. QED
  BY <1>1, <1>2, <1>3 DEF WorkerStep

\* A cancel handler touches the state of its job alone.
LEMMA HandlerIInv ==
    ASSUME IInv, NEW h \in Handlers,
           (\E j \in Jobs : CancelCheck(h, j)) \/ CancelSignal(h) \/ CancelFinish(h)
    PROVE  IInv'
<1> USE DEF IInv, jobVars, workerVars, callVars
<1>1. CASE (\E j \in Jobs : CancelCheck(h, j)) \/ CancelSignal(h)
  <2>1. TypeOK' /\ HandlersHaveJobs' /\ JobsKept
    <3>1. CASE \E j \in Jobs : CancelCheck(h, j)
      BY <3>1 DEF CancelCheck, TypeOK, HandlersHaveJobs, JobsKept
    <3>2. CASE CancelSignal(h)
      BY <3>2 DEF CancelSignal, TypeOK, HandlersHaveJobs, JobsKept
    <3>3. QED
      BY <1>1, <3>1, <3>2
  <2>2. Owned'
    BY <1>1, <2>1, OwnedKept DEF CancelCheck, CancelSignal
  <2>3. QED
    BY <2>1, <2>2 DEF Owned
<1>2. CASE CancelFinish(h)
  <2>1. hjob[h] \in Jobs
    BY <1>2 DEF CancelFinish, HandlersHaveJobs
  <2>2. /\ state' \in [Jobs -> States] /\ ctxDone' \subseteq Jobs /\ logs' \subseteq Jobs
        /\ \A i \in Jobs : state[i] # "none" => state'[i] # "none"
    <3>1. \E s \in Terminal : Finish(hjob[h], s)
      BY <1>2 DEF CancelFinish, Terminal
    <3>2. QED
      BY <2>1, <3>1, FinishKeeps
  <2>3. TypeOK' /\ HandlersHaveJobs' /\ JobsKept
    BY <1>2, <2>2 DEF CancelFinish, TypeOK, HandlersHaveJobs, JobsKept
  <2>4. Owned'
    <3>1. UNCHANGED <<queues, chan, wpc, wflavor, wjob, call, callQueue>>
      BY <1>2 DEF CancelFinish
    <3>2. QED
      BY <2>3, <3>1, OwnedKept
  <2>5. QED
    BY <2>3, <2>4 DEF Owned
<1>3. QED
  BY <1>1, <1>2

\* The janitor takes a job out of the registry and out of nothing else.
LEMMA ReapIInv ==
    ASSUME IInv, NEW j \in Jobs, Reap(j)
    PROVE  IInv'
<1> USE DEF IInv, Reap, jobVars, workerVars, callVars, cancelVars
<1>1. TypeOK' /\ HandlersHaveJobs' /\ JobsKept
  BY DEF TypeOK, HandlersHaveJobs, JobsKept
<1>2. Owned'
  BY <1>1, OwnedKept
<1>3. QED
  BY <1>1, <1>2 DEF Owned

\* A restart leaves no goroutine and no channel.
LEMMA RestartIInv ==
    ASSUME IInv, Crash \/ Boot
    PROVE  IInv'
<1> USE DEF IInv, jobVars, workerVars, callVars, cancelVars
<1>1. CASE Crash
  <2>1. TypeOK'
    <3>1. state' \in [Jobs -> States] /\ up' \in BOOLEAN
      BY <1>1 DEF Crash, TypeOK, States
    <3>2. chan' \in [Workers -> Seq(Jobs)] /\ \A w \in Workers : Len(chan'[w]) <= QueueBuffer
      BY <1>1, QueueBufferAssumption DEF Crash
    <3>3. QED
      BY <1>1, <3>1, <3>2 DEF Crash, TypeOK, Starting, Holding
  <2>2. HandlersHaveJobs' /\ ServedOnce' /\ CallsOwned' /\ ChansOwned' /\ HandsOwned'
    BY <1>1 DEF Crash, HandlersHaveJobs, ServedOnce, CallsOwned, ChansOwned, HandsOwned, Holding
  <2>3. QED
    BY <2>1, <2>2
<1>2. CASE Boot
  <2>1. TypeOK' /\ HandlersHaveJobs' /\ JobsKept
    BY <1>2 DEF Boot, TypeOK, HandlersHaveJobs, JobsKept
  <2>2. Owned'
    BY <1>2, <2>1, OwnedKept DEF Boot
  <2>3. QED
    BY <2>1, <2>2 DEF Owned
<1>3. QED
  BY <1>1, <1>2

-----------------------------------------------------------------------------
\* Every step keeps the invariant.
LEMMA NextIInv == IInv /\ [Next]_vars => IInv'
<1> SUFFICES ASSUME IInv, [Next]_vars PROVE IInv'
  OBVIOUS
<1>1. ASSUME NEW j \in Jobs, NEW f \in Flavors, StartRegister(j, f) PROVE IInv'
  BY <1>1, StartRegisterIInv
<1>2. ASSUME NEW j \in Jobs, StartStep(j) PROVE IInv'
  BY <1>2, EnsureQueueIInv, EnqueueIInv, CallIInv DEF StartStep
<1>3. ASSUME NEW j \in Jobs, Reap(j) PROVE IInv'
  BY <1>3, ReapIInv
<1>4. ASSUME NEW w \in Workers, WorkerStep(w) PROVE IInv'
  BY <1>4, TakeIInv, WorkerIInv
<1>5. ASSUME NEW h \in Handlers, (\E j \in Jobs : CancelCheck(h, j)) \/ CancelStep(h)
      PROVE  IInv'
  BY <1>5, HandlerIInv DEF CancelStep
<1>6. CASE Crash \/ Boot
  BY <1>6, RestartIInv
<1>7. CASE UNCHANGED vars
  BY <1>7 DEF vars, jobVars, workerVars, callVars, cancelVars, IInv, TypeOK,
              HandlersHaveJobs, ServedOnce, CallsOwned, ChansOwned, HandsOwned
<1>8. QED
  BY <1>1, <1>2, <1>3, <1>4, <1>5, <1>6, <1>7 DEF Next

\* The inductive invariant holds of every behaviour of the registry.
THEOREM Invariant == Spec => []IInv
  BY InitIInv, NextIInv, PTL DEF Spec

\* Every variable keeps its type, and no channel holds more than QueueBuffer
\* jobs: Start and serveQueue, whatever is cancelled, reaped or restarted.
THEOREM TypeCorrect == Spec => []TypeOK
<1>1. IInv => TypeOK
  BY DEF IInv
<1>2. QED
  BY <1>1, Invariant, PTL

\* The work of two jobs of one flavor never runs at the same time: there is one
\* goroutine per flavor, and it runs one job after the other.
THEOREM MutualExclusion == Spec => []OneAtATime
<1>1. IInv => OneAtATime
  <2> SUFFICES ASSUME IInv, NEW v \in Workers, NEW w \in Workers,
                      Running(v), Running(w), flavor[wjob[v]] = flavor[wjob[w]]
               PROVE  v = w
    BY DEF OneAtATime
  <2>1. wflavor[v] = wflavor[w]
    BY DEF IInv, HandsOwned, Running, Holding
  <2>2. queues[wflavor[v]] = v /\ queues[wflavor[w]] = w
    BY DEF IInv, ServedOnce, Running
  <2>3. QED
    BY <2>1, <2>2
<1>2. QED
  BY <1>1, Invariant, PTL

\* What a job ended as is kept by every step, unless Start has yet to mark it.
LEMMA EndKept ==
    IInv /\ [Next]_vars =>
        \A j \in Jobs : Finished(j) /\ call[j] \notin {"registered", "ensured"}
            => state'[j] = state[j] \/ Crash
<1> SUFFICES ASSUME IInv, [Next]_vars, NEW j \in Jobs, Finished(j),
                    call[j] \notin {"registered", "ensured"}
             PROVE  state'[j] = state[j] \/ Crash
  OBVIOUS
<1> USE DEF IInv, TypeOK, Finished, jobVars
<1>1. state[j] \in Terminal /\ state[j] \notin {"none", "new", "queued"}
  BY DEF Terminal
<1>2. \A i \in Jobs, s \in Terminal : Finish(i, s) => state'[j] = state[j]
  BY <1>1 DEF Finish
<1>3. ASSUME NEW i \in Jobs, NEW f \in Flavors, StartRegister(i, f)
      PROVE  state'[j] = state[j]
  BY <1>1, <1>3 DEF StartRegister
<1>4. ASSUME NEW i \in Jobs, StartStep(i) \/ Reap(i) PROVE state'[j] = state[j]
  <2>1. CASE MarkQueued(i)
    BY <2>1 DEF MarkQueued
  <2>2. CASE Refuse(i)
    BY <1>2, <2>2 DEF Refuse, Terminal
  <2>3. CASE EnsureQueue(i) \/ Enqueue(i) \/ QueueFull(i) \/ Reap(i)
    BY <2>3 DEF EnsureQueue, Enqueue, QueueFull, Reap
  <2>4. QED
    BY <1>4, <2>1, <2>2, <2>3 DEF StartStep
<1>5. ASSUME NEW w \in Workers, WorkerStep(w) PROVE state'[j] = state[j]
  <2>1. CASE StartRunning(w)
    BY <1>1, <2>1 DEF StartRunning
  <2>2. CASE (\E s \in {"done", "error"} : WorkFinishes(w, s)) \/ WorkPanics(w)
             \/ FinishWorked(w)
    <3>1. wjob[w] \in Jobs
      BY <2>2 DEF WorkFinishes, WorkPanics, FinishWorked, HandsOwned, Holding
    <3>2. QED
      BY <1>2, <2>2, <3>1 DEF WorkFinishes, WorkPanics, FinishWorked, Terminal
  <2>3. CASE Take(w) \/ SkipFinished(w) \/ PassCheck(w) \/ WorkReturns(w)
    BY <2>3 DEF Take, SkipFinished, PassCheck, WorkReturns
  <2>4. QED
    BY <1>5, <2>1, <2>2, <2>3 DEF WorkerStep
<1>6. ASSUME NEW h \in Handlers, (\E i \in Jobs : CancelCheck(h, i)) \/ CancelStep(h)
      PROVE  state'[j] = state[j]
  <2>1. CASE CancelFinish(h)
    <3>1. hjob[h] \in Jobs
      BY <2>1 DEF CancelFinish, HandlersHaveJobs
    <3>2. QED
      BY <1>2, <2>1, <3>1 DEF CancelFinish, Terminal
  <2>2. CASE (\E i \in Jobs : CancelCheck(h, i)) \/ CancelSignal(h)
    BY <2>2 DEF CancelCheck, CancelSignal
  <2>3. QED
    BY <1>6, <2>1, <2>2 DEF CancelStep
<1>7. CASE Boot \/ UNCHANGED vars
  BY <1>7 DEF Boot, vars
<1>8. QED
  BY <1>3, <1>4, <1>5, <1>6, <1>7 DEF Next

\* Once Start has marked its job, no step but a restart changes how it ended:
\* Finish counts once, and MarkQueued is the only step that does not ask.
THEOREM EndStays == Spec => EndIsFinal
<1>1. IInv /\ [Next]_vars =>
        \A j \in Jobs : Finished(j) /\ call[j] \notin {"registered", "ensured"}
            => state'[j] \in {state[j], "lost"}
  BY EndKept DEF Crash, Finished, Terminal
<1>2. QED
  BY <1>1, Invariant, PTL DEF Spec, EndIsFinal

-----------------------------------------------------------------------------
\* A job gets into a channel, and from there into a goroutine's hands, only by
\* the send that makes Start accept it; a job Start refused has ended.
Placed ==
    /\ \A w \in Workers : \A i \in 1 .. Len(chan[w]) : call[chan[w][i]] = "accepted"
    /\ \A w \in Workers : wpc[w] \in Holding => call[wjob[w]] = "accepted"
    /\ \A j \in Jobs : call[j] = "refused" => Finished(j)

\* The channels and the hands: only the send adds a job to a channel, only Take
\* to a goroutine's hands, and no call that was accepted changes but by a crash.
LEMMA PlacesKept ==
    ASSUME IInv, Placed, Next
    PROVE  /\ \A w \in Workers : \A i \in 1 .. Len(chan'[w]) : call'[chan'[w][i]] = "accepted"
           /\ \A w \in Workers : wpc'[w] \in Holding => call'[wjob'[w]] = "accepted"
<1> USE DEF IInv, TypeOK, Placed, Holding, jobVars, workerVars, callVars, cancelVars
<1> DEFINE Chans == \A w \in Workers : \A i \in 1 .. Len(chan'[w]) :
                        call'[chan'[w][i]] = "accepted"
           Hands == \A w \in Workers : wpc'[w] \in Holding => call'[wjob'[w]] = "accepted"
<1>1. ASSUME NEW j \in Jobs, NEW f \in Flavors, StartRegister(j, f) PROVE Chans /\ Hands
  <2>1. call[j] # "accepted"
    BY <1>1 DEF StartRegister, CallsOwned
  <2>2. QED
    BY <1>1, <2>1, ChansHoldJobs DEF StartRegister, HandsOwned
<1>2. ASSUME NEW j \in Jobs, MarkQueued(j) \/ QueueFull(j) \/ Refuse(j) \/ Reap(j)
      PROVE  Chans /\ Hands
  BY <1>2, ChansHoldJobs DEF MarkQueued, QueueFull, Refuse, Reap, HandsOwned
<1>3. ASSUME NEW j \in Jobs, EnsureQueue(j) PROVE Chans /\ Hands
  BY <1>3, ChansHoldJobs DEF EnsureQueue, HandsOwned
<1>4. ASSUME NEW j \in Jobs, Enqueue(j) PROVE Chans /\ Hands
  <2>1. \A i \in Jobs : call'[i] = IF i = j THEN "accepted" ELSE call[i]
    BY <1>4 DEF Enqueue
  <2>2. Chans
    <3>1. SUFFICES ASSUME NEW w \in Workers, NEW i \in 1 .. Len(chan'[w])
                   PROVE  call'[chan'[w][i]] = "accepted"
      OBVIOUS
    <3>2. CASE w # callQueue[j]
      <4>1. chan'[w] = chan[w]
        BY <1>4, <3>2, EnqueueAppends
      <4>2. QED
        BY <2>1, <4>1, ChansHoldJobs
    <3>3. CASE w = callQueue[j]
      <4>1. \/ i \in 1 .. Len(chan[w]) /\ chan'[w][i] = chan[w][i]
            \/ chan'[w][i] = j
        BY <1>4, <3>1, <3>3, EnqueueAppends
      <4>2. QED
        BY <2>1, <4>1, ChansHoldJobs
    <3>4. QED
      BY <3>2, <3>3
  <2>3. QED
    BY <1>4, <2>1, <2>2 DEF Enqueue, HandsOwned
<1>5. ASSUME NEW w \in Workers, Take(w) PROVE Chans /\ Hands
  <2>1. Chans
    BY <1>5, TakeRemoves DEF Take
  <2>2. QED
    BY <1>5, <2>1, TakeRemoves DEF Take
<1>6. ASSUME NEW w \in Workers, WorkerStep(w), ~Take(w) PROVE Chans /\ Hands
  <2>1. /\ chan' = chan /\ call' = call
        /\ \A v \in Workers : wpc'[v] \in Holding =>
               wpc[v] \in Holding /\ wjob'[v] = wjob[v]
    <3>1. CASE PassCheck(w) \/ StartRunning(w) \/ WorkReturns(w)
               \/ \E s \in {"done", "error"} : WorkFinishes(w, s)
      BY <3>1 DEF PassCheck, StartRunning, WorkReturns, WorkFinishes
    <3>2. CASE SkipFinished(w) \/ WorkPanics(w) \/ FinishWorked(w)
      BY <3>2 DEF SkipFinished, WorkPanics, FinishWorked, Idle
    <3>3. QED
      BY <1>6, <3>1, <3>2 DEF WorkerStep
  <2>2. QED
    BY <2>1
<1>7. ASSUME NEW h \in Handlers, (\E j \in Jobs : CancelCheck(h, j)) \/ CancelStep(h)
      PROVE  Chans /\ Hands
  BY <1>7 DEF CancelCheck, CancelStep, CancelSignal, CancelFinish
<1>8. CASE Crash \/ Boot
  BY <1>8 DEF Crash, Boot
<1>9. QED
  BY <1>1, <1>2, <1>3, <1>4, <1>5, <1>6, <1>7, <1>8 DEF Next, StartStep

\* A refused call stays refused as long as the process lives, and Refuse, which
\* finishes the job, is the only step that refuses one.
LEMMA RefusedKept ==
    ASSUME IInv, Placed, Next, NEW j \in Jobs, call'[j] = "refused"
    PROVE  Finished(j)'
<1> USE DEF IInv, TypeOK, jobVars, workerVars, callVars, cancelVars
<1>1. CASE Refuse(j)
  BY <1>1 DEF Refuse, Finish, Finished, Terminal
<1>2. CASE call[j] = "refused"
  <2>1. Finished(j) /\ (state'[j] = state[j] \/ Crash)
    BY <1>2, EndKept DEF Placed
  <2>2. ~Crash
    BY DEF Crash
  <2>3. QED
    BY <2>1, <2>2 DEF Finished
<1>3. ~Refuse(j) => call'[j] = call[j] \/ call'[j] # "refused"
  <2>1. CASE \E i \in Jobs, f \in Flavors : StartRegister(i, f)
    BY <2>1 DEF StartRegister
  <2>2. CASE \E i \in Jobs : StartStep(i) \/ Reap(i)
    BY <2>2 DEF StartStep, EnsureQueue, MarkQueued, Enqueue, QueueFull, Refuse, Reap
  <2>3. CASE \E w \in Workers : WorkerStep(w)
    BY <2>3 DEF WorkerStep, Take, SkipFinished, PassCheck, StartRunning, WorkFinishes,
                WorkReturns, WorkPanics, FinishWorked
  <2>4. CASE \/ \E h \in Handlers, i \in Jobs : CancelCheck(h, i)
             \/ \E h \in Handlers : CancelStep(h)
    BY <2>4 DEF CancelCheck, CancelStep, CancelSignal, CancelFinish
  <2>5. CASE Crash \/ Boot
    BY <2>5 DEF Crash, Boot
  <2>6. QED
    BY <2>1, <2>2, <2>3, <2>4, <2>5 DEF Next
<1>4. QED
  BY <1>1, <1>2, <1>3

\* Both parts together: Placed is kept by every step.
LEMMA PlacedKept == IInv /\ Placed /\ [Next]_vars => Placed'
<1>1. ASSUME IInv, Placed, Next PROVE Placed'
  BY <1>1, PlacesKept, RefusedKept DEF Placed
<1>2. CASE UNCHANGED vars
  BY <1>2 DEF Placed, Finished, vars, jobVars, workerVars, callVars
<1>3. QED
  BY <1>1, <1>2

\* A job that Start refused is over, and is in no channel and in no hands: the
\* switch token PostProvision hands back on a full queue is never also used.
THEOREM RefusedStays == Spec => []RefusedNeverRuns
<1>1. Init => Placed
  BY DEF Init, Placed, Holding
<1>2. IInv /\ Placed => RefusedNeverRuns
  <2>1. SUFFICES ASSUME IInv, Placed, NEW j \in Jobs, call[j] = "refused", NEW w \in Workers
                 PROVE  Finished(j) /\ ~Waiting(j, w) /\ ~InHand(j, w)
    BY DEF RefusedNeverRuns, Placed
  <2>2. DOMAIN chan[w] = 1 .. Len(chan[w])
    BY DEF IInv, TypeOK
  <2>3. QED
    BY <2>1, <2>2 DEF Placed, Waiting, InHand
<1>3. QED
  BY <1>1, <1>2, PlacedKept, Invariant, PTL DEF Spec

-----------------------------------------------------------------------------
Unfinished == {"new", "queued", "running"}

\* The registry has every job that is not over, and every job whose Start call
\* is in progress: the janitor cannot take one that MarkQueued brings back.
Registered ==
    \A j \in Jobs : call[j] \in Starting \/ state[j] \in Unfinished => j \in reg

\* While the server is down there is no job, call, goroutine or handler left.
Down ==
    ~up => /\ \A j \in Jobs : state[j] \in {"none", "lost"} /\ call[j] = "idle"
           /\ \A w \in Workers : wpc[w] = "none"
           /\ \A h \in Handlers : hpc[h] = "idle"

Kept == Registered /\ Down /\ EndedJobsHoldNothing

\* A Finish in a living server keeps all three.
LEMMA FinishHoldsNothing ==
    ASSUME IInv, Kept, up, up', NEW i \in Jobs, NEW s \in Terminal, Finish(i, s),
           reg' = reg, \A j \in Jobs : call'[j] \in Starting => call[j] \in Starting
    PROVE  Kept'
<1> USE DEF Kept, IInv, TypeOK, Finish, Finished
<1>1. Registered'
  BY DEF Registered, Unfinished, Terminal
<1>2. Down'
  BY DEF Down
<1>3. EndedJobsHoldNothing'
  BY DEF EndedJobsHoldNothing
<1>4. QED
  BY <1>1, <1>2, <1>3

\* Every step keeps all three.
LEMMA KeptKept == IInv /\ Kept /\ [Next]_vars => Kept'
<1> SUFFICES ASSUME IInv, Kept, [Next]_vars PROVE Kept'
  OBVIOUS
<1> USE DEF IInv, TypeOK, jobVars, workerVars, callVars, cancelVars
<1> DEFINE Same == state' = state /\ ctxDone' = ctxDone /\ logs' = logs /\ reg' = reg
<1>1. ASSUME up, up', Same,
             \A j \in Jobs : call'[j] \in Starting => call[j] \in Starting
      PROVE  Kept'
  BY <1>1 DEF Kept, Registered, Down, EndedJobsHoldNothing, Finished, Unfinished
<1>2. ASSUME NEW i \in Jobs, NEW f \in Flavors, StartRegister(i, f) PROVE Kept'
  BY <1>2 DEF StartRegister, Kept, Registered, Down, EndedJobsHoldNothing, Finished,
              Terminal, Unfinished
<1>3. ASSUME NEW i \in Jobs, StartStep(i) PROVE Kept'
  <2>1. up /\ up'
    BY <1>3 DEF StartStep, EnsureQueue, MarkQueued, Enqueue, QueueFull, Refuse, Kept, Down
  <2>2. CASE MarkQueued(i)
    BY <2>1, <2>2 DEF MarkQueued, Kept, Registered, Down, EndedJobsHoldNothing, Finished,
                      Terminal, Unfinished, Starting
  <2>3. CASE Refuse(i)
    <3>1. Finish(i, "error") /\ reg' = reg
          /\ \A j \in Jobs : call'[j] \in Starting => call[j] \in Starting
      BY <2>3 DEF Refuse, Starting
    <3>2. "error" \in Terminal
      BY DEF Terminal
    <3>3. QED
      BY <2>1, <3>1, <3>2, FinishHoldsNothing
  <2>4. CASE EnsureQueue(i) \/ Enqueue(i) \/ QueueFull(i)
    <3>1. Same /\ \A j \in Jobs : call'[j] \in Starting => call[j] \in Starting
      BY <2>4 DEF EnsureQueue, Enqueue, QueueFull, Starting
    <3>2. QED
      BY <1>1, <2>1, <3>1
  <2>5. QED
    BY <1>3, <2>2, <2>3, <2>4 DEF StartStep
<1>4. ASSUME NEW i \in Jobs, Reap(i) PROVE Kept'
  BY <1>4 DEF Reap, Reapable, Kept, Registered, Down, EndedJobsHoldNothing, Finished,
              Terminal, Unfinished
<1>5. ASSUME NEW w \in Workers, WorkerStep(w) PROVE Kept'
  <2>1. up /\ up' /\ reg' = reg /\ call' = call
    BY <1>5 DEF WorkerStep, Take, SkipFinished, PassCheck, StartRunning, WorkFinishes,
                WorkReturns, WorkPanics, FinishWorked, Kept, Down
  <2>2. CASE StartRunning(w)
    BY <2>1, <2>2 DEF StartRunning, Kept, Registered, Down, EndedJobsHoldNothing, Finished,
                      Terminal, Unfinished
  <2>3. CASE (\E s \in {"done", "error"} : WorkFinishes(w, s)) \/ WorkPanics(w)
             \/ FinishWorked(w)
    <3>1. wjob[w] \in Jobs
      BY <2>3 DEF WorkFinishes, WorkPanics, FinishWorked, HandsOwned, Holding
    <3>2. \E s \in Terminal : Finish(wjob[w], s)
      BY <2>3 DEF WorkFinishes, WorkPanics, FinishWorked, Terminal
    <3>3. QED
      BY <2>1, <3>1, <3>2, FinishHoldsNothing
  <2>4. CASE Take(w) \/ SkipFinished(w) \/ PassCheck(w) \/ WorkReturns(w)
    BY <1>1, <2>1, <2>4 DEF Take, SkipFinished, PassCheck, WorkReturns
  <2>5. QED
    BY <1>5, <2>2, <2>3, <2>4 DEF WorkerStep
<1>6. ASSUME NEW h \in Handlers, (\E i \in Jobs : CancelCheck(h, i)) \/ CancelStep(h)
      PROVE  Kept'
  <2>1. up /\ up' /\ reg' = reg /\ call' = call
    BY <1>6 DEF CancelCheck, CancelStep, CancelSignal, CancelFinish, Kept, Down
  <2>2. CASE \E i \in Jobs : CancelCheck(h, i)
    BY <1>1, <2>1, <2>2 DEF CancelCheck
  <2>3. CASE CancelSignal(h)
    <3>1. ctxDone \subseteq ctxDone' /\ state' = state /\ logs' = logs
      BY <2>3 DEF CancelSignal
    <3>2. QED
      BY <2>1, <3>1 DEF Kept, Registered, Down, EndedJobsHoldNothing, Finished, Unfinished
  <2>4. CASE CancelFinish(h)
    <3>1. hjob[h] \in Jobs
      BY <2>4 DEF CancelFinish, HandlersHaveJobs
    <3>2. \E s \in Terminal : Finish(hjob[h], s)
      BY <2>4 DEF CancelFinish, Terminal
    <3>3. QED
      BY <2>1, <3>1, <3>2, FinishHoldsNothing
  <2>5. QED
    BY <1>6, <2>2, <2>3, <2>4 DEF CancelStep
<1>7. CASE Crash
  BY <1>7 DEF Crash, Kept, Registered, Down, EndedJobsHoldNothing, Unfinished, Starting
<1>8. CASE Boot
  BY <1>8 DEF Boot, Kept, Registered, Down, EndedJobsHoldNothing, Finished, Terminal,
              Unfinished
<1>9. CASE UNCHANGED vars
  BY <1>9 DEF vars, Kept, Registered, Down, EndedJobsHoldNothing, Finished, Unfinished
<1>10. QED
  BY <1>2, <1>3, <1>4, <1>5, <1>6, <1>7, <1>8, <1>9 DEF Next

\* The three hold in every state.
LEMMA KeptAlways == Spec => []Kept
<1>1. Init => Kept
  BY DEF Init, Kept, Registered, Down, EndedJobsHoldNothing, Finished, Terminal,
         Unfinished, Starting
<1>2. QED
  BY <1>1, KeptKept, Invariant, PTL DEF Spec

\* A job that is over holds neither its context nor its log file, whoever ended
\* it and however often; no log survives a restart.
THEOREM EndReleases == Spec => []EndedJobsHoldNothing
<1>1. Kept => EndedJobsHoldNothing
  BY DEF Kept
<1>2. QED
  BY <1>1, KeptAlways, PTL

\* FlavorBusy never misses a job that is not over: the janitor cannot have taken
\* it out of the registry.
THEOREM BusyIsTrue == Spec => []UnfinishedIsBusy
<1>1. Kept => UnfinishedIsBusy
  BY DEF Kept, Registered, UnfinishedIsBusy, FlavorBusy, Finished, Terminal, Unfinished
<1>2. QED
  BY <1>1, KeptAlways, PTL

-----------------------------------------------------------------------------
\* A job is once in a channel or once in a goroutine's hands, and never in both.
Single ==
    /\ \A v, w \in Workers : \A i \in 1 .. Len(chan[v]), k \in 1 .. Len(chan[w]) :
           chan[v][i] = chan[w][k] => v = w /\ i = k
    /\ \A v, w \in Workers :
           wpc[v] \in Holding /\ wpc[w] \in Holding /\ wjob[v] = wjob[w] => v = w
    /\ \A v, w \in Workers : \A i \in 1 .. Len(chan[v]) :
           wpc[w] \in Holding => chan[v][i] # wjob[w]

\* Someone has a job that is not over: its Start call, a channel or a goroutine.
Queued(j)  == \E w \in Workers : \E i \in 1 .. Len(chan[w]) : chan[w][i] = j
InHands(j) == \E w \in Workers : InHand(j, w)
Had(j)     == call[j] \in Starting \/ Queued(j) \/ InHands(j)
NoneStranded == \A j \in Jobs : state[j] \in Unfinished => Had(j)

\* A step that puts no job into a channel or into hands keeps them single.
LEMMA SingleSame ==
    ASSUME Single, chan' = chan,
           \A w \in Workers : wpc'[w] \in Holding => wpc[w] \in Holding /\ wjob'[w] = wjob[w]
    PROVE  Single'
  BY DEF Single

LEMMA SingleKept == IInv /\ Placed /\ Single /\ [Next]_vars => Single'
<1> SUFFICES ASSUME IInv, Placed, Single, [Next]_vars PROVE Single'
  OBVIOUS
<1> USE DEF IInv, TypeOK, Holding, jobVars, workerVars, callVars, cancelVars
<1>1. ASSUME NEW j \in Jobs, NEW f \in Flavors, StartRegister(j, f) PROVE Single'
  BY <1>1, SingleSame DEF StartRegister
<1>2. ASSUME NEW j \in Jobs, StartStep(j) \/ Reap(j), ~Enqueue(j) PROVE Single'
  BY <1>2, SingleSame DEF StartStep, EnsureQueue, MarkQueued, QueueFull, Refuse, Reap
<1>3. ASSUME NEW j \in Jobs, Enqueue(j) PROVE Single'
  <2>1. /\ call[j] # "accepted" /\ UNCHANGED <<wpc, wjob>>
    BY <1>3 DEF Enqueue
  <2>2. \A v \in Workers, i \in Nat : i \in 1 .. Len(chan'[v]) =>
           \/ i \in 1 .. Len(chan[v]) /\ chan'[v][i] = chan[v][i]
           \/ v = callQueue[j] /\ i = Len(chan[v]) + 1 /\ chan'[v][i] = j
    BY <1>3, EnqueueAppends
  <2>3. \A v \in Workers : \A i \in 1 .. Len(chan[v]) : chan[v][i] # j
    BY <2>1 DEF Placed
  <2>4. \A w \in Workers : wpc[w] \in Holding => wjob[w] # j
    BY <2>1 DEF Placed
  <2>5. \A v, w \in Workers : \A i \in 1 .. Len(chan'[v]), k \in 1 .. Len(chan'[w]) :
           chan'[v][i] = chan'[w][k] => v = w /\ i = k
    <3>1. SUFFICES ASSUME NEW v \in Workers, NEW w \in Workers,
                          NEW i \in 1 .. Len(chan'[v]), NEW k \in 1 .. Len(chan'[w]),
                          chan'[v][i] = chan'[w][k]
                   PROVE  v = w /\ i = k
      OBVIOUS
    <3>2. \/ i \in 1 .. Len(chan[v]) /\ chan'[v][i] = chan[v][i]
          \/ v = callQueue[j] /\ i = Len(chan[v]) + 1 /\ chan'[v][i] = j
      BY <2>2
    <3>3. \/ k \in 1 .. Len(chan[w]) /\ chan'[w][k] = chan[w][k]
          \/ w = callQueue[j] /\ k = Len(chan[w]) + 1 /\ chan'[w][k] = j
      BY <2>2
    <3>4. QED
      BY <2>3, <3>1, <3>2, <3>3 DEF Single
  <2>6. \A v, w \in Workers : \A i \in 1 .. Len(chan'[v]) :
           wpc[w] \in Holding => chan'[v][i] # wjob[w]
    <3>1. SUFFICES ASSUME NEW v \in Workers, NEW w \in Workers, NEW i \in 1 .. Len(chan'[v]),
                          wpc[w] \in Holding
                   PROVE  chan'[v][i] # wjob[w]
      OBVIOUS
    <3>2. \/ i \in 1 .. Len(chan[v]) /\ chan'[v][i] = chan[v][i]
          \/ chan'[v][i] = j
      BY <2>2
    <3>3. QED
      BY <2>4, <3>1, <3>2 DEF Single
  <2>7. QED
    BY <2>1, <2>5, <2>6 DEF Single
<1>4. ASSUME NEW w \in Workers, Take(w) PROVE Single'
  <2>1. /\ \A v \in Workers \ {w} : wpc'[v] = wpc[v] /\ wjob'[v] = wjob[v] /\ chan'[v] = chan[v]
        /\ wjob'[w] = chan[w][1] /\ 1 \in 1 .. Len(chan[w])
        /\ \A i \in 1 .. Len(chan'[w]) :
              chan'[w][i] = chan[w][i + 1] /\ i + 1 \in 1 .. Len(chan[w]) /\ i + 1 # 1
    BY <1>4, TakeRemoves DEF Take
  <2>2. \A v \in Workers : \A i \in 1 .. Len(chan'[v]) :
           \E k \in 1 .. Len(chan[v]) : /\ chan'[v][i] = chan[v][k]
                                        /\ v = w => k = i + 1 /\ k # 1
                                        /\ v # w => k = i
    <3>1. SUFFICES ASSUME NEW v \in Workers, NEW i \in 1 .. Len(chan'[v])
                   PROVE  \E k \in 1 .. Len(chan[v]) : /\ chan'[v][i] = chan[v][k]
                                                       /\ v = w => k = i + 1 /\ k # 1
                                                       /\ v # w => k = i
      OBVIOUS
    <3>2. CASE v = w
      <4>1. i + 1 \in 1 .. Len(chan[v]) /\ chan'[v][i] = chan[v][i + 1] /\ i + 1 # 1
        BY <2>1, <3>2
      <4>2. QED
        BY <3>2, <4>1
    <3>3. CASE v # w
      <4>1. chan'[v] = chan[v]
        BY <2>1, <3>3
      <4>2. QED
        BY <3>3, <4>1
    <3>4. QED
      BY <3>2, <3>3
  <2>3. \A u, v \in Workers : \A i \in 1 .. Len(chan'[u]), k \in 1 .. Len(chan'[v]) :
           chan'[u][i] = chan'[v][k] => u = v /\ i = k
    <3>1. SUFFICES ASSUME NEW u \in Workers, NEW v \in Workers,
                          NEW i \in 1 .. Len(chan'[u]), NEW k \in 1 .. Len(chan'[v]),
                          chan'[u][i] = chan'[v][k]
                   PROVE  u = v /\ i = k
      OBVIOUS
    <3>2. PICK a \in 1 .. Len(chan[u]) : /\ chan'[u][i] = chan[u][a]
                                         /\ u = w => a = i + 1
                                         /\ u # w => a = i
      BY <2>2
    <3>3. PICK b \in 1 .. Len(chan[v]) : /\ chan'[v][k] = chan[v][b]
                                         /\ v = w => b = k + 1
                                         /\ v # w => b = k
      BY <2>2
    <3>4. u = v /\ a = b
      <4>1. chan[u][a] = chan[v][b]
        BY <3>1, <3>2, <3>3
      <4>2. QED
        BY <4>1 DEF Single
    <3>5. QED
      BY <3>2, <3>3, <3>4
  <2>4. \A u, v \in Workers :
           wpc'[u] \in Holding /\ wpc'[v] \in Holding /\ wjob'[u] = wjob'[v] => u = v
    BY <2>1 DEF Single
  <2>5. \A u, v \in Workers : \A i \in 1 .. Len(chan'[u]) :
           wpc'[v] \in Holding => chan'[u][i] # wjob'[v]
    <3>1. \A u \in Workers : \A i \in 1 .. Len(chan'[u]) : chan'[u][i] # chan[w][1]
      BY <2>1, <2>2 DEF Single
    <3>2. \A u \in Workers, v \in Workers \ {w} : \A i \in 1 .. Len(chan'[u]) :
             wpc[v] \in Holding => chan'[u][i] # wjob[v]
      <4>1. SUFFICES ASSUME NEW u \in Workers, NEW v \in Workers \ {w},
                            NEW i \in 1 .. Len(chan'[u]), wpc[v] \in Holding
                     PROVE  chan'[u][i] # wjob[v]
        OBVIOUS
      <4>2. PICK k \in 1 .. Len(chan[u]) : chan'[u][i] = chan[u][k]
        BY <2>2
      <4>3. QED
        BY <4>1, <4>2 DEF Single
    <3>3. SUFFICES ASSUME NEW u \in Workers, NEW v \in Workers, NEW i \in 1 .. Len(chan'[u]),
                          wpc'[v] \in Holding
                   PROVE  chan'[u][i] # wjob'[v]
      OBVIOUS
    <3>4. CASE v = w
      BY <2>1, <3>1, <3>4
    <3>5. CASE v # w
      BY <2>1, <3>2, <3>3, <3>5
    <3>6. QED
      BY <3>4, <3>5
  <2>6. QED
    BY <2>3, <2>4, <2>5 DEF Single
<1>5. ASSUME NEW w \in Workers, WorkerStep(w), ~Take(w) PROVE Single'
  <2>1. CASE PassCheck(w) \/ StartRunning(w) \/ WorkReturns(w)
             \/ \E s \in {"done", "error"} : WorkFinishes(w, s)
    BY <2>1, SingleSame DEF PassCheck, StartRunning, WorkReturns, WorkFinishes
  <2>2. CASE SkipFinished(w) \/ WorkPanics(w) \/ FinishWorked(w)
    BY <2>2, SingleSame DEF SkipFinished, WorkPanics, FinishWorked, Idle
  <2>3. QED
    BY <1>5, <2>1, <2>2 DEF WorkerStep
<1>6. ASSUME NEW h \in Handlers, (\E j \in Jobs : CancelCheck(h, j)) \/ CancelStep(h)
      PROVE  Single'
  BY <1>6, SingleSame DEF CancelCheck, CancelStep, CancelSignal, CancelFinish
<1>7. CASE Crash
  BY <1>7 DEF Crash, Single
<1>8. CASE Boot \/ UNCHANGED vars
  BY <1>8, SingleSame DEF Boot, vars
<1>9. QED
  BY <1>1, <1>2, <1>3, <1>4, <1>5, <1>6, <1>7, <1>8 DEF Next

\* Finish leaves no job to look after.
LEMMA FinishStrands ==
    ASSUME IInv, NEW i \in Jobs, NEW s \in Terminal, Finish(i, s)
    PROVE  /\ \A j \in Jobs \ {i} : state'[j] = state[j]
           /\ state'[i] \notin Unfinished
  BY DEF IInv, TypeOK, Finish, Finished, Terminal, Unfinished

\* A step that takes no job out of a channel or of hands, gives up no call and
\* makes no job unfinished but one whose call is in progress strands none.
LEMMA StrandedSame ==
    ASSUME NoneStranded, chan' = chan,
           \A w \in Workers : wpc[w] \in Holding => wpc'[w] \in Holding /\ wjob'[w] = wjob[w],
           \A j \in Jobs : call[j] \in Starting => call'[j] \in Starting,
           \A j \in Jobs : state'[j] \in Unfinished =>
                               state[j] \in Unfinished \/ call'[j] \in Starting
    PROVE  NoneStranded'
<1>1. \A j \in Jobs : Queued(j) => Queued(j)'
  BY DEF Queued
<1>2. \A j \in Jobs : InHands(j) => InHands(j)'
  BY DEF InHands, InHand
<1>3. QED
  BY <1>1, <1>2 DEF NoneStranded, Had

LEMMA StrandedKept == IInv /\ NoneStranded /\ [Next]_vars => NoneStranded'
<1> SUFFICES ASSUME IInv, NoneStranded, [Next]_vars PROVE NoneStranded'
  OBVIOUS
<1> USE DEF IInv, TypeOK, Starting, Holding, jobVars, workerVars, callVars, cancelVars
<1>1. ASSUME NEW j \in Jobs, NEW f \in Flavors, StartRegister(j, f) PROVE NoneStranded'
  BY <1>1, StrandedSame DEF StartRegister
<1>2. ASSUME NEW j \in Jobs, EnsureQueue(j) PROVE NoneStranded'
  <2>1. UNCHANGED <<state, chan, wjob>> /\ \A w \in Workers : wpc[w] \in Holding => wpc'[w] = wpc[w]
    BY <1>2 DEF EnsureQueue
  <2>2. \A i \in Jobs : call[i] \in Starting => call'[i] \in Starting
    BY <1>2 DEF EnsureQueue
  <2>3. QED
    BY <2>1, <2>2, StrandedSame
<1>3. ASSUME NEW j \in Jobs, MarkQueued(j) \/ QueueFull(j) \/ Reap(j) PROVE NoneStranded'
  BY <1>3, StrandedSame DEF MarkQueued, QueueFull, Reap
<1>4. ASSUME NEW j \in Jobs, Enqueue(j) PROVE NoneStranded'
  <2>1. /\ UNCHANGED <<state, wpc, wjob>> /\ \A i \in Jobs \ {j} : call'[i] = call[i]
    BY <1>4 DEF Enqueue
  <2>2. /\ callQueue[j] \in Workers
        /\ Len(chan'[callQueue[j]]) \in 1 .. Len(chan'[callQueue[j]])
        /\ chan'[callQueue[j]][Len(chan'[callQueue[j]])] = j
    <3>1. /\ callQueue[j] \in Workers /\ Len(chan[callQueue[j]]) \in Nat
          /\ Len(chan'[callQueue[j]]) = Len(chan[callQueue[j]]) + 1
      BY <1>4, EnqueueAppends
    <3>2. /\ Len(chan'[callQueue[j]]) \in 1 .. Len(chan'[callQueue[j]])
          /\ Len(chan'[callQueue[j]]) > Len(chan[callQueue[j]])
      BY <3>1
    <3>3. QED
      BY <1>4, <3>1, <3>2, EnqueueAppends
  <2>3. \A w \in Workers : \A i \in 1 .. Len(chan[w]) :
           i \in 1 .. Len(chan'[w]) /\ chan'[w][i] = chan[w][i]
    <3>1. SUFFICES ASSUME NEW w \in Workers, NEW i \in 1 .. Len(chan[w])
                   PROVE  i \in 1 .. Len(chan'[w]) /\ chan'[w][i] = chan[w][i]
      OBVIOUS
    <3>2. CASE w = callQueue[j]
      BY <1>4, <3>2, EnqueueAppends
    <3>3. CASE w # callQueue[j]
      BY <1>4, <3>3, EnqueueAppends
    <3>4. QED
      BY <3>2, <3>3
  <2>4. \A i \in Jobs : Queued(i) => Queued(i)'
    BY <2>3 DEF Queued
  <2>5. Queued(j)'
    BY <2>2 DEF Queued
  <2>6. \A i \in Jobs : InHands(i) => InHands(i)'
    BY <2>1 DEF InHands, InHand
  <2>7. QED
    BY <2>1, <2>4, <2>5, <2>6 DEF NoneStranded, Had
<1>5. ASSUME NEW j \in Jobs, Refuse(j) PROVE NoneStranded'
  <2>1. UNCHANGED <<chan, wpc, wjob>> /\ \A i \in Jobs \ {j} : call'[i] = call[i]
    BY <1>5 DEF Refuse
  <2>2. (\A i \in Jobs \ {j} : state'[i] = state[i]) /\ state'[j] \notin Unfinished
    BY <1>5, FinishStrands DEF Refuse, Terminal
  <2>3. \A i \in Jobs \ {j} : Had(i) => Had(i)'
    BY <2>1 DEF Had, Queued, InHands, InHand
  <2>4. QED
    BY <2>2, <2>3 DEF NoneStranded
<1>6. ASSUME NEW w \in Workers, Take(w) PROVE NoneStranded'
  <2>1. /\ \A v \in Workers \ {w} : wpc'[v] = wpc[v] /\ wjob'[v] = wjob[v] /\ chan'[v] = chan[v]
        /\ wpc[w] = "wait" /\ wpc'[w] = "check" /\ wjob'[w] = chan[w][1]
        /\ UNCHANGED <<state, call>>
    BY <1>6, TakeRemoves DEF Take
  <2>2. \A i \in 2 .. Len(chan[w]) : i - 1 \in 1 .. Len(chan'[w]) /\ chan'[w][i - 1] = chan[w][i]
    <3>1. SUFFICES ASSUME NEW i \in 2 .. Len(chan[w])
                   PROVE  i - 1 \in 1 .. Len(chan'[w]) /\ chan'[w][i - 1] = chan[w][i]
      OBVIOUS
    <3>2. Len(chan[w]) \in Nat /\ Len(chan'[w]) = Len(chan[w]) - 1
      BY <1>6, TakeRemoves
    <3>3. i - 1 \in 1 .. Len(chan'[w]) /\ (i - 1) + 1 = i
      BY <3>2
    <3>4. chan'[w][i - 1] = chan[w][(i - 1) + 1]
      BY <1>6, <3>3, TakeRemoves
    <3>5. QED
      BY <3>3, <3>4
  <2>3. \A j \in Jobs : Queued(j) => Queued(j)' \/ wjob'[w] = j
    <3>1. SUFFICES ASSUME NEW j \in Jobs, NEW v \in Workers, NEW i \in 1 .. Len(chan[v]),
                          chan[v][i] = j
                   PROVE  Queued(j)' \/ wjob'[w] = j
      BY DEF Queued
    <3>2. CASE v # w
      BY <2>1, <3>1, <3>2 DEF Queued
    <3>3. CASE v = w /\ i = 1
      BY <2>1, <3>1, <3>3
    <3>4. CASE v = w /\ i # 1
      <4>1. i \in 2 .. Len(chan[w])
        BY <3>4
      <4>2. QED
        BY <2>2, <3>1, <3>4, <4>1 DEF Queued
    <3>5. QED
      BY <3>2, <3>3, <3>4
  <2>4. \A j \in Jobs : InHands(j) => InHands(j)'
    BY <2>1 DEF InHands, InHand
  <2>5. \A j \in Jobs : wjob'[w] = j => InHands(j)'
    BY <2>1 DEF InHands, InHand
  <2>6. QED
    BY <2>1, <2>3, <2>4, <2>5 DEF NoneStranded, Had
<1>7. ASSUME NEW w \in Workers, WorkerStep(w), ~Take(w) PROVE NoneStranded'
  <2>1. CASE PassCheck(w) \/ WorkReturns(w)
    BY <2>1, StrandedSame DEF PassCheck, WorkReturns
  <2>2. CASE StartRunning(w)
    <3>1. /\ UNCHANGED <<chan, wjob, call>> /\ \A v \in Workers : wpc[v] \in Holding => wpc'[v] \in Holding
          /\ wjob[w] \in Jobs
      BY <2>2 DEF StartRunning, HandsOwned
    <3>2. \A j \in Jobs : state'[j] \in Unfinished => state[j] \in Unfinished
      BY <2>2, <3>1 DEF StartRunning, Unfinished
    <3>3. QED
      BY <3>1, <3>2, StrandedSame
  <2>3. CASE \E s \in {"done", "error"} : WorkFinishes(w, s)
    <3>1. UNCHANGED <<chan, wjob, call>> /\ \A v \in Workers : wpc[v] \in Holding => wpc'[v] \in Holding
      BY <2>3 DEF WorkFinishes
    <3>2. wjob[w] \in Jobs /\ \E s \in Terminal : Finish(wjob[w], s)
      BY <2>3 DEF WorkFinishes, Terminal, HandsOwned
    <3>3. \A j \in Jobs : state'[j] \in Unfinished => state[j] \in Unfinished
      BY <3>2, FinishStrands
    <3>4. /\ chan' = chan /\ \A j \in Jobs : call[j] \in Starting => call'[j] \in Starting
          /\ \A v \in Workers : wpc[v] \in Holding => wpc'[v] \in Holding /\ wjob'[v] = wjob[v]
      BY <3>1
    <3>5. QED
      BY <3>3, <3>4, StrandedSame
  <2>4. CASE SkipFinished(w) \/ WorkPanics(w) \/ FinishWorked(w)
    <3>1. /\ UNCHANGED <<chan, call>> /\ wjob[w] \in Jobs
          /\ \A v \in Workers \ {w} : wpc'[v] = wpc[v] /\ wjob'[v] = wjob[v]
      BY <2>4 DEF SkipFinished, WorkPanics, FinishWorked, Idle, HandsOwned
    <3>2. /\ \A j \in Jobs : state'[j] \in Unfinished => state[j] \in Unfinished
          /\ state'[wjob[w]] \notin Unfinished
      <4>1. CASE SkipFinished(w)
        BY <4>1 DEF SkipFinished, Finished, Terminal, Unfinished
      <4>2. CASE WorkPanics(w) \/ FinishWorked(w)
        <5>1. \E s \in Terminal : Finish(wjob[w], s)
          BY <4>2 DEF WorkPanics, FinishWorked, Terminal
        <5>2. QED
          BY <3>1, <5>1, FinishStrands
      <4>3. QED
        BY <2>4, <4>1, <4>2
    <3>3. \A j \in Jobs \ {wjob[w]} : Had(j) => Had(j)'
      BY <3>1 DEF Had, Queued, InHands, InHand
    <3>4. QED
      BY <3>2, <3>3 DEF NoneStranded
  <2>5. QED
    BY <1>7, <2>1, <2>2, <2>3, <2>4 DEF WorkerStep
<1>8. ASSUME NEW h \in Handlers, (\E j \in Jobs : CancelCheck(h, j)) \/ CancelStep(h)
      PROVE  NoneStranded'
  <2>1. CASE (\E j \in Jobs : CancelCheck(h, j)) \/ CancelSignal(h)
    BY <2>1, StrandedSame DEF CancelCheck, CancelSignal
  <2>2. CASE CancelFinish(h)
    <3>1. UNCHANGED <<chan, wpc, wjob, call>> /\ hjob[h] \in Jobs
      BY <2>2 DEF CancelFinish, HandlersHaveJobs
    <3>2. \A j \in Jobs : state'[j] \in Unfinished => state[j] \in Unfinished
      BY <2>2, <3>1, FinishStrands DEF CancelFinish, Terminal
    <3>3. QED
      BY <3>1, <3>2, StrandedSame
  <2>3. QED
    BY <1>8, <2>1, <2>2 DEF CancelStep
<1>9. CASE Crash
  BY <1>9 DEF Crash, NoneStranded, Unfinished
<1>10. CASE Boot \/ UNCHANGED vars
  BY <1>10, StrandedSame DEF Boot, vars
<1>11. QED
  BY <1>1, <1>2, <1>3, <1>4, <1>5, <1>6, <1>7, <1>8, <1>9, <1>10 DEF Next, StartStep

\* Where a job is, counted.
LEMMA PlacesAre ==
    ASSUME IInv, Placed, Single, NEW j \in Jobs
    PROVE  Places(j) = IF Had(j) THEN 1 ELSE 0
<1> DEFINE Slots == {p \in Workers \X (1 .. QueueBuffer) :
                         p[2] <= Len(chan[p[1]]) /\ chan[p[1]][p[2]] = j}
           Hands == {w \in Workers : InHand(j, w)}
<1>1. Places(j) = (IF call[j] \in Starting THEN 1 ELSE 0) + Cardinality(Slots) + Cardinality(Hands)
  BY DEF Places
<1>2. Cardinality(Slots) = IF Queued(j) THEN 1 ELSE 0
  <2>1. CASE Queued(j)
    <3>0. PICK w \in Workers : \E i \in 1 .. Len(chan[w]) : chan[w][i] = j
      BY <2>1 DEF Queued
    <3>1. PICK i \in 1 .. Len(chan[w]) : chan[w][i] = j
      BY <3>0
    <3>2. <<w, i>> \in Slots
      BY <3>1, QueueBufferAssumption DEF IInv, TypeOK
    <3>3. \A v \in Workers, k \in 1 .. QueueBuffer : <<v, k>> \in Slots => v = w /\ k = i
      <4>1. SUFFICES ASSUME NEW v \in Workers, NEW k \in 1 .. QueueBuffer, <<v, k>> \in Slots
                     PROVE  v = w /\ k = i
        OBVIOUS
      <4>2. k \in 1 .. Len(chan[v]) /\ chan[v][k] = j
        BY <4>1 DEF IInv, TypeOK
      <4>3. QED
        BY <3>1, <4>2 DEF Single
    <3>4. Slots = {<<w, i>>}
      BY <3>2, <3>3
    <3>5. QED
      BY <2>1, <3>4, FS_Singleton
  <2>2. CASE ~Queued(j)
    <3>1. Slots = {}
      BY <2>2 DEF Queued, IInv, TypeOK
    <3>2. QED
      BY <2>2, <3>1, FS_EmptySet
  <2>3. QED
    BY <2>1, <2>2
<1>3. Cardinality(Hands) = IF InHands(j) THEN 1 ELSE 0
  <2>1. CASE InHands(j)
    <3>1. PICK w \in Workers : InHand(j, w)
      BY <2>1 DEF InHands
    <3>2. Hands = {w}
      BY <3>1 DEF Single, InHand
    <3>3. QED
      BY <2>1, <3>2, FS_Singleton
  <2>2. CASE ~InHands(j)
    <3>1. Hands = {}
      BY <2>2 DEF InHands
    <3>2. QED
      BY <2>2, <3>1, FS_EmptySet
  <2>3. QED
    BY <2>1, <2>2
<1>4. /\ call[j] \in Starting => ~Queued(j) /\ ~InHands(j)
      /\ ~(Queued(j) /\ InHands(j))
  BY DEF Placed, Single, Queued, InHands, InHand, Starting
<1> HIDE DEF Slots, Hands
<1>5. QED
  BY <1>1, <1>2, <1>3, <1>4 DEF Had

\* For any number of goroutines and any queue length: a job that is not over is in
\* exactly one place that will end it, and no job is in two.
THEOREM OwnedByOne == Spec => []OneOwner
<1>1. Init => Placed /\ Single /\ NoneStranded
  BY DEF Init, Placed, Single, NoneStranded, Unfinished, Holding
<1>2. IInv /\ Placed /\ Single /\ NoneStranded => OneOwner
  <2> SUFFICES ASSUME IInv, Placed, Single, NoneStranded, NEW j \in Jobs
               PROVE  /\ Places(j) <= 1
                      /\ state[j] \in {"new", "queued", "running"} => Places(j) = 1
    BY DEF OneOwner
  <2>1. Places(j) = IF Had(j) THEN 1 ELSE 0
    BY PlacesAre
  <2>2. state[j] \in Unfinished => Had(j)
    BY DEF NoneStranded
  <2>3. QED
    BY <2>1, <2>2 DEF Unfinished
<1>3. QED
  BY <1>1, <1>2, PlacedKept, SingleKept, StrandedKept, Invariant, PTL DEF Spec
-----------------------------------------------------------------------------
\* A job that ended before a goroutine looked at it, or that a restart lost, is
\* nowhere past the goroutine's check.
Passed(j) ==
    \/ /\ call[j] = "accepted" /\ Finished(j)
       /\ \A w \in Workers : InHand(j, w) => wpc[w] = "check"
    \/ call[j] = "idle" /\ state[j] # "none"

\* A step that starts no call and brings nothing past a check.
LEMMA PassedSame ==
    ASSUME NEW j \in Jobs, Passed(j), call'[j] = call[j],
           Finished(j) => Finished(j)', state[j] # "none" => state'[j] # "none",
           \A w \in Workers : InHand(j, w)' =>
               \/ InHand(j, w) /\ wpc'[w] = wpc[w]
               \/ wpc'[w] = "check"
    PROVE  Passed(j)'
  BY DEF Passed

LEMMA FinishPasses ==
    ASSUME IInv, NEW i \in Jobs, NEW s \in Terminal, Finish(i, s), NEW j \in Jobs
    PROVE  /\ Finished(j) => Finished(j)'
           /\ state[j] # "none" => state'[j] # "none"
  BY DEF IInv, TypeOK, Finish, Finished, Terminal

LEMMA PassedKept ==
    ASSUME IInv, Placed, NEW j \in Jobs, Passed(j), [Next]_vars
    PROVE  Passed(j)'
<1> USE DEF IInv, TypeOK, Holding, jobVars, workerVars, callVars, cancelVars
<1>1. ASSUME NEW i \in Jobs, NEW f \in Flavors, StartRegister(i, f) PROVE Passed(j)'
  BY <1>1 DEF StartRegister, Passed, Finished, Terminal, InHand
<1>2. ASSUME NEW i \in Jobs, EnsureQueue(i) PROVE Passed(j)'
  BY <1>2 DEF EnsureQueue, Passed, Finished, InHand
<1>3. ASSUME NEW i \in Jobs, MarkQueued(i) \/ QueueFull(i) \/ Enqueue(i) \/ Reap(i) PROVE Passed(j)'
  BY <1>3 DEF MarkQueued, QueueFull, Enqueue, Reap, Passed, Finished, InHand
<1>4. ASSUME NEW i \in Jobs, Refuse(i) PROVE Passed(j)'
  <2>1. call[j] # "full"
    BY DEF Passed
  <2>2. call'[j] = call[j] /\ UNCHANGED <<wpc, wjob>> /\ Finish(i, "error")
    BY <1>4, <2>1 DEF Refuse
  <2>3. QED
    BY <2>2, FinishPasses, PassedSame DEF Terminal, InHand
<1>5. ASSUME NEW w \in Workers, WorkerStep(w) PROVE Passed(j)'
  <2>1. CASE Take(w)
    BY <2>1, PassedSame DEF Take, Finished, InHand
  <2>2. CASE PassCheck(w)
    <3>1. ~InHand(j, w)
      BY <2>2 DEF PassCheck, Passed, Placed, InHand
    <3>2. QED
      BY <2>2, <3>1, PassedSame DEF PassCheck, Finished, InHand
  <2>3. CASE StartRunning(w)
    <3>1. ~InHand(j, w)
      BY <2>3 DEF StartRunning, Passed, Placed, InHand
    <3>2. wjob[w] # j
      BY <2>3, <3>1 DEF StartRunning, InHand
    <3>3. state'[j] = state[j]
      BY <2>3, <3>2 DEF StartRunning
    <3>4. QED
      BY <2>3, <3>1, <3>3, PassedSame DEF StartRunning, Finished, InHand
  <2>4. CASE WorkReturns(w) \/ \E s \in {"done", "error"} : WorkFinishes(w, s)
    <3>1. ~InHand(j, w) /\ UNCHANGED <<wjob, call>> /\ \A v \in Workers \ {w} : wpc'[v] = wpc[v]
      BY <2>4 DEF WorkReturns, WorkFinishes, Passed, Placed, InHand
    <3>2. (Finished(j) => Finished(j)') /\ (state[j] # "none" => state'[j] # "none")
      BY <2>4, FinishPasses DEF WorkReturns, WorkFinishes, HandsOwned, Terminal, Finished
    <3>3. \A v \in Workers : InHand(j, v)' => InHand(j, v) /\ wpc'[v] = wpc[v]
      <4>1. ~InHand(j, w)'
        BY <2>4, <3>1 DEF WorkReturns, WorkFinishes, InHand
      <4>2. QED
        BY <3>1, <4>1 DEF InHand
    <3>4. QED
      BY <3>1, <3>2, <3>3, PassedSame
  <2>5. CASE SkipFinished(w) \/ WorkPanics(w) \/ FinishWorked(w)
    <3>1. /\ wpc'[w] = "wait" /\ call' = call
          /\ \A v \in Workers \ {w} : wpc'[v] = wpc[v] /\ wjob'[v] = wjob[v]
      BY <2>5 DEF SkipFinished, WorkPanics, FinishWorked, Idle
    <3>2. (Finished(j) => Finished(j)') /\ (state[j] # "none" => state'[j] # "none")
      BY <2>5, FinishPasses DEF SkipFinished, WorkPanics, FinishWorked, HandsOwned, Terminal, Finished
    <3>3. \A v \in Workers : InHand(j, v)' => InHand(j, v) /\ wpc'[v] = wpc[v]
      BY <3>1 DEF InHand
    <3>4. QED
      BY <3>1, <3>2, <3>3, PassedSame
  <2>6. QED
    BY <1>5, <2>1, <2>2, <2>3, <2>4, <2>5 DEF WorkerStep
<1>6. ASSUME NEW h \in Handlers, (\E i \in Jobs : CancelCheck(h, i)) \/ CancelSignal(h) PROVE Passed(j)'
  BY <1>6, PassedSame DEF CancelCheck, CancelSignal, Finished, InHand
<1>7. ASSUME NEW h \in Handlers, CancelFinish(h) PROVE Passed(j)'
  <2>1. hjob[h] \in Jobs /\ Finish(hjob[h], "cancelled") /\ UNCHANGED <<call, wpc, wjob>>
    BY <1>7 DEF CancelFinish, HandlersHaveJobs
  <2>2. QED
    BY <2>1, FinishPasses, PassedSame DEF Terminal, InHand
<1>8. CASE Crash
  BY <1>8 DEF Crash, Passed, Finished, Terminal
<1>9. CASE Boot \/ UNCHANGED vars
  BY <1>9, PassedSame DEF Boot, vars, Finished, InHand
<1>10. QED
  BY <1>1, <1>2, <1>3, <1>4, <1>5, <1>6, <1>7, <1>8, <1>9 DEF Next, StartStep, CancelStep

\* A job that ended while it waited in the channel is never run: not by the
\* goroutine that takes it later, and not after a restart.
THEOREM EndedIsSkipped == Spec => EndedWaitingNeverRuns
<1>1. Init => Placed /\ Single
  BY DEF Init, Placed, Single, Holding
<1>2. ASSUME NEW j \in Jobs
      PROVE  Spec => []((call[j] = "accepted" /\ Finished(j) /\ \E w \in Workers : Waiting(j, w))
                          => [](\A w \in Workers : ~(InHand(j, w) /\ Running(w))))
  <2>1. IInv /\ Single /\ call[j] = "accepted" /\ Finished(j) /\ (\E w \in Workers : Waiting(j, w)) => Passed(j)
    BY DEF IInv, TypeOK, Single, Waiting, InHand, Passed
  <2>2. IInv /\ Placed /\ Passed(j) /\ [Next]_vars => Passed(j)'
    BY PassedKept
  <2>3. Placed /\ Passed(j) => \A w \in Workers : ~(InHand(j, w) /\ Running(w))
    BY DEF Placed, Passed, InHand, Running
  <2>4. QED
    BY <1>1, <2>1, <2>2, <2>3, PlacedKept, SingleKept, Invariant, PTL DEF Spec
<1>3. QED
  BY <1>2 DEF EndedWaitingNeverRuns
=============================================================================
