--------------------------- MODULE JobLanesProofs ---------------------------
(***************************************************************************)
(* The job registry implements JobLanes, for any number of jobs, flavors,  *)
(* queue goroutines and cancel requests and any queue length. Each step of *)
(* JobQueue is a step of the lanes or changes none of them.                *)
(***************************************************************************)
EXTENDS JobQueueProofs

\* A job that was not registered has no flavor yet: a job is registered once.
FreshJobs == \A j \in Jobs : state[j] = "none" => flavor[j] = NoFlavor

\* A goroutine that waits, or was not made, has nothing in its hands.
EmptyHands == \A w \in Workers : wpc[w] \notin Holding => wjob[w] = NoJob

LInv == IInv /\ FreshJobs /\ EmptyHands

-----------------------------------------------------------------------------
\* Finish makes no job unregistered.
LEMMA FinishKeepsFresh ==
    ASSUME FreshJobs, TypeOK, NEW j \in Jobs, NEW s \in Terminal, Finish(j, s), flavor' = flavor
    PROVE  FreshJobs'
  BY DEF FreshJobs, TypeOK, Finish, Finished, Terminal

\* A job is registered once in every step.
LEMMA FreshKept == IInv /\ FreshJobs /\ [Next]_vars => FreshJobs'
<1> SUFFICES ASSUME IInv, FreshJobs, [Next]_vars PROVE FreshJobs'
  OBVIOUS
<1> USE DEF IInv
<1>1. ASSUME NEW j \in Jobs, NEW f \in Flavors, StartRegister(j, f) PROVE FreshJobs'
  BY <1>1 DEF StartRegister, FreshJobs, TypeOK
<1>2. ASSUME NEW j \in Jobs, StartStep(j) PROVE FreshJobs'
  <2>1. CASE Refuse(j)
    BY <2>1, FinishKeepsFresh DEF Refuse, Terminal
  <2>2. CASE EnsureQueue(j) \/ MarkQueued(j) \/ Enqueue(j) \/ QueueFull(j)
    BY <2>2 DEF EnsureQueue, MarkQueued, Enqueue, QueueFull, FreshJobs, TypeOK, jobVars
  <2>3. QED
    BY <1>2, <2>1, <2>2 DEF StartStep
<1>3. ASSUME NEW w \in Workers, WorkerStep(w) PROVE FreshJobs'
  <2>1. CASE (\E s \in {"done", "error"} : WorkFinishes(w, s)) \/ WorkPanics(w) \/ FinishWorked(w)
    <3>1. wjob[w] \in Jobs /\ flavor' = flavor
      BY <2>1 DEF WorkFinishes, WorkPanics, FinishWorked, HandsOwned, Holding
    <3>2. \E s \in Terminal : Finish(wjob[w], s)
      BY <2>1 DEF WorkFinishes, WorkPanics, FinishWorked, Terminal
    <3>3. QED
      BY <3>1, <3>2, FinishKeepsFresh
  <2>2. CASE StartRunning(w)
    BY <2>2 DEF StartRunning, FreshJobs, TypeOK
  <2>3. CASE Take(w) \/ SkipFinished(w) \/ PassCheck(w) \/ WorkReturns(w)
    BY <2>3 DEF Take, SkipFinished, PassCheck, WorkReturns, FreshJobs, jobVars
  <2>4. QED
    BY <1>3, <2>1, <2>2, <2>3 DEF WorkerStep
<1>4. ASSUME NEW h \in Handlers, CancelStep(h) PROVE FreshJobs'
  <2>1. CASE CancelSignal(h)
    BY <2>1 DEF CancelSignal, FreshJobs
  <2>2. CASE CancelFinish(h)
    <3>1. hjob[h] \in Jobs
      BY <2>2 DEF CancelFinish, HandlersHaveJobs
    <3>2. QED
      BY <2>2, <3>1, FinishKeepsFresh DEF CancelFinish, Terminal
  <2>3. QED
    BY <1>4, <2>1, <2>2 DEF CancelStep
<1>5. CASE Crash
  BY <1>5 DEF Crash, FreshJobs, TypeOK
<1>6. CASE \/ Boot \/ UNCHANGED vars \/ \E j \in Jobs : Reap(j)
           \/ \E h \in Handlers, j \in Jobs : CancelCheck(h, j)
  BY <1>6 DEF Boot, vars, Reap, CancelCheck, jobVars, FreshJobs
<1>7. QED
  BY <1>1, <1>2, <1>3, <1>4, <1>5, <1>6 DEF Next

\* Hands are empty between two jobs in every step.
LEMMA EmptyKept == IInv /\ EmptyHands /\ [Next]_vars => EmptyHands'
<1> SUFFICES ASSUME IInv, EmptyHands, [Next]_vars PROVE EmptyHands'
  OBVIOUS
<1> USE DEF IInv
<1>1. ASSUME NEW j \in Jobs, EnsureQueue(j) PROVE EmptyHands'
  BY <1>1 DEF EnsureQueue, EmptyHands, TypeOK, Holding
<1>2. ASSUME NEW w \in Workers, WorkerStep(w) PROVE EmptyHands'
  <2>1. CASE Take(w)
    BY <2>1 DEF Take, EmptyHands, TypeOK, Holding
  <2>2. CASE SkipFinished(w) \/ WorkPanics(w) \/ FinishWorked(w)
    <3>1. Idle(w)
      BY <2>2 DEF SkipFinished, WorkPanics, FinishWorked
    <3>2. QED
      BY <3>1 DEF Idle, EmptyHands, TypeOK, Holding
  <2>3. CASE PassCheck(w) \/ StartRunning(w) \/ WorkReturns(w)
             \/ \E s \in {"done", "error"} : WorkFinishes(w, s)
    <3>1. /\ wjob' = wjob /\ wpc[w] \in Holding
          /\ \A v \in Workers \ {w} : wpc'[v] = wpc[v]
          /\ wpc'[w] \in Holding
      BY <2>3 DEF PassCheck, StartRunning, WorkReturns, WorkFinishes, Holding, TypeOK
    <3>2. QED
      BY <3>1 DEF EmptyHands
  <2>4. QED
    BY <1>2, <2>1, <2>2, <2>3 DEF WorkerStep
<1>3. CASE Crash
  BY <1>3 DEF Crash, EmptyHands
<1>4. ASSUME UNCHANGED <<wpc, wjob>> PROVE EmptyHands'
  BY <1>4 DEF EmptyHands
<1>5. CASE \/ \E j \in Jobs, f \in Flavors : StartRegister(j, f)
           \/ \E j \in Jobs : MarkQueued(j) \/ Enqueue(j) \/ QueueFull(j) \/ Refuse(j) \/ Reap(j)
           \/ \E h \in Handlers, j \in Jobs : CancelCheck(h, j)
           \/ \E h \in Handlers : CancelStep(h)
           \/ Boot \/ UNCHANGED vars
  <2>1. UNCHANGED <<wpc, wjob>>
    BY <1>5 DEF StartRegister, MarkQueued, Enqueue, QueueFull, Refuse, Reap, CancelCheck,
                CancelStep, CancelSignal, CancelFinish, Boot, vars, workerVars
  <2>2. QED
    BY <1>4, <2>1
<1>6. QED
  BY <1>1, <1>2, <1>3, <1>5 DEF Next, StartStep

LEMMA LanesInvariant == Spec => []LInv
<1>1. Init => FreshJobs /\ EmptyHands
  BY DEF Init, FreshJobs, EmptyHands
<1>2. QED
  BY <1>1, FreshKept, EmptyKept, Invariant, PTL DEF Spec, LInv
-----------------------------------------------------------------------------
(* The refinement mapping, step by step. *)

\* The goroutine of a flavor serves no other one.
LEMMA OneLane ==
    ASSUME IInv, NEW w \in Workers, wpc[w] # "none"
    PROVE  /\ wflavor[w] \in Flavors /\ queues[wflavor[w]] = w /\ HasLane(wflavor[w])
           /\ \A g \in Flavors \ {wflavor[w]} : queues[g] # w
  BY NullAssumption DEF IInv, ServedOnce, TypeOK, HasLane

\* A step that leaves channels, hands and acceptance alone, and lets no work
\* begin or end, is no step of the lanes.
LEMMA LanesStutter ==
    ASSUME UNCHANGED <<queues, chan, wjob>>, TakenOf' = TakenOf,
           \A w \in Workers : Running(w)' <=> Running(w), queues \in [Flavors -> Workers \cup {NoWorker}]
    PROVE  UNCHANGED Lanes!laneVars
<1>1. LaneOf' = LaneOf /\ HandOf' = HandOf
  BY DEF LaneOf, HandOf, HasLane
<1>2. WorkingOf' = WorkingOf
  BY DEF WorkingOf, HasLane
<1>3. QED
  BY <1>1, <1>2 DEF Lanes!laneVars

LEMMA LanesInit == Init => Lanes!Init
  BY DEF Init, Lanes!Init, LaneOf, HandOf, WorkingOf, TakenOf, HasLane

\* Start: the send is the moment a job is accepted, a new goroutine comes with
\* an empty channel and empty hands, the rest is not seen.
LEMMA StartLanes ==
    ASSUME LInv, NEW j \in Jobs, StartStep(j)
    PROVE  Lanes!Next \/ UNCHANGED Lanes!laneVars
<1> USE DEF LInv, IInv
<1>1. CASE EnsureQueue(j)
  <2>1. TakenOf' = TakenOf
    BY <1>1 DEF EnsureQueue, TakenOf, TypeOK, jobVars
  <2>2. CASE HasQueue(flavor[j])
    <3>1. UNCHANGED <<queues, chan, wjob, wpc>>
      BY <1>1, <2>2 DEF EnsureQueue
    <3>2. QED
      BY <2>1, <3>1, LanesStutter DEF Running, TypeOK
  <2>3. CASE ~HasQueue(flavor[j])
    <3>1. PICK w \in Workers : /\ wpc[w] = "none"
                               /\ wpc' = [wpc EXCEPT ![w] = "wait"]
                               /\ queues' = [queues EXCEPT ![flavor[j]] = w]
                               /\ UNCHANGED <<chan, wjob>>
      BY <1>1, <2>3 DEF EnsureQueue
    <3>2. flavor[j] \in Flavors /\ queues[flavor[j]] = NoWorker
      BY <1>1, <2>3 DEF EnsureQueue, CallsOwned, HasQueue
    <3>3. chan[w] = <<>> /\ wjob[w] = NoJob
      BY <3>1 DEF ChansOwned, EmptyHands, Holding
    <3>4. LaneOf' = LaneOf /\ HandOf' = HandOf
      BY <3>1, <3>2, <3>3, NullAssumption DEF LaneOf, HandOf, HasLane, TypeOK
    <3>5. \A f \in Flavors : (HasLane(f) /\ Running(queues[f]))' <=> HasLane(f) /\ Running(queues[f])
      BY <3>1, <3>2, NullAssumption DEF HasLane, Running, TypeOK
    <3>6. WorkingOf' = WorkingOf
      BY <3>5 DEF WorkingOf
    <3>7. QED
      BY <2>1, <3>4, <3>6 DEF Lanes!laneVars
  <2>4. QED
    BY <2>2, <2>3
<1>2. CASE Enqueue(j)
  <2> DEFINE w == callQueue[j]
             f == flavor[j]
  <2>1. w \in Workers /\ f \in Flavors /\ wflavor[w] = f /\ wpc[w] # "none"
    BY <1>2 DEF Enqueue, CallsOwned
  <2>2. queues[f] = w /\ HasLane(f) /\ \A g \in Flavors \ {f} : queues[g] # w
    BY <2>1, OneLane
  <2>3. LaneOf' = [LaneOf EXCEPT ![f] = Append(@, j)] /\ Len(LaneOf[f]) < QueueBuffer
    BY <1>2, <2>1, <2>2 DEF Enqueue, HasRoom, LaneOf, HasLane, TypeOK
  <2>4. HandOf' = HandOf /\ WorkingOf' = WorkingOf
    BY <1>2 DEF Enqueue, HandOf, WorkingOf, HasLane, Running, workerVars
  <2>5. TakenOf' = TakenOf \cup {j} /\ j \notin TakenOf
    BY <1>2, <2>1, NullAssumption DEF Enqueue, TakenOf, TypeOK, jobVars
  <2>6. Lanes!Accept(j, f)
    BY <2>3, <2>4, <2>5 DEF Lanes!Accept
  <2>7. QED
    BY <2>1, <2>6 DEF Lanes!Next
<1>3. CASE MarkQueued(j) \/ QueueFull(j) \/ Refuse(j)
  <2>1. UNCHANGED <<queues, chan, wjob, wpc>>
    BY <1>3 DEF MarkQueued, QueueFull, Refuse, workerVars
  <2>2. TakenOf' = TakenOf
    BY <1>3 DEF MarkQueued, QueueFull, Refuse, TakenOf, TypeOK, jobVars
  <2>3. QED
    BY <2>1, <2>2, LanesStutter DEF Running, TypeOK
<1>4. QED
  BY <1>1, <1>2, <1>3 DEF StartStep

\* A goroutine takes, works on and releases what its flavor's lane holds.
LEMMA WorkerLanes ==
    ASSUME LInv, NEW w \in Workers, WorkerStep(w)
    PROVE  Lanes!Next \/ UNCHANGED Lanes!laneVars
<1> USE DEF LInv, IInv
<1> DEFINE f == wflavor[w]
<1>1. wpc[w] # "none" /\ UNCHANGED <<queues, call, flavor>>
  BY DEF WorkerStep, Take, SkipFinished, PassCheck, StartRunning, WorkFinishes, WorkReturns,
         WorkPanics, FinishWorked, jobVars, callVars
<1>2. /\ f \in Flavors /\ queues[f] = w /\ HasLane(f)
      /\ \A g \in Flavors \ {f} : queues[g] # w
  BY <1>1, OneLane
<1>3. TakenOf' = TakenOf
  BY <1>1 DEF TakenOf
<1>4. CASE Take(w)
  <2>1. HandOf[f] = NoJob /\ LaneOf[f] = chan[w] /\ chan[w] # <<>>
    BY <1>2, <1>4 DEF Take, EmptyHands, HandOf, LaneOf, Holding
  <2>2. LaneOf' = [LaneOf EXCEPT ![f] = Tail(@)]
    BY <1>1, <1>2, <1>4 DEF Take, LaneOf, HasLane, TypeOK
  <2>3. HandOf' = [HandOf EXCEPT ![f] = Head(LaneOf[f])]
    BY <1>1, <1>2, <1>4, <2>1 DEF Take, HandOf, HasLane, TypeOK
  <2>4. \A g \in Flavors : (HasLane(g) /\ Running(queues[g]))' <=> HasLane(g) /\ Running(queues[g])
    BY <1>1, <1>2, <1>4 DEF Take, HasLane, Running, TypeOK
  <2>5. WorkingOf' = WorkingOf
    BY <2>4 DEF WorkingOf
  <2>6. Lanes!Take(f)
    BY <1>3, <2>1, <2>2, <2>3, <2>5 DEF Lanes!Take
  <2>7. QED
    BY <1>2, <2>6 DEF Lanes!Next
<1>5. CASE StartRunning(w)
  <2>1. LaneOf' = LaneOf /\ HandOf' = HandOf
    BY <1>5 DEF StartRunning, LaneOf, HandOf, HasLane
  <2>2. HandOf[f] # NoJob
    BY <1>2, <1>5, NullAssumption DEF StartRunning, HandsOwned, Holding, HandOf
  <2>3. \A g \in Flavors : (HasLane(g) /\ Running(queues[g]))' <=>
                               g = f \/ (HasLane(g) /\ Running(queues[g]))
    BY <1>1, <1>2, <1>5 DEF StartRunning, HasLane, Running, TypeOK
  <2>4. f \notin WorkingOf
    BY <1>2, <1>5 DEF StartRunning, WorkingOf, Running
  <2>5. WorkingOf' = WorkingOf \cup {f}
    BY <1>2, <2>3 DEF WorkingOf
  <2>6. Lanes!Work(f)
    BY <1>3, <2>1, <2>2, <2>4, <2>5 DEF Lanes!Work
  <2>7. QED
    BY <1>2, <2>6 DEF Lanes!Next
<1>6. CASE SkipFinished(w) \/ WorkPanics(w) \/ FinishWorked(w)
  <2>1. Idle(w) /\ chan' = chan /\ wpc[w] \in Holding
    BY <1>6 DEF SkipFinished, WorkPanics, FinishWorked, Holding
  <2>2. LaneOf' = LaneOf
    BY <1>1, <2>1 DEF LaneOf, HasLane
  <2>3. HandOf' = [HandOf EXCEPT ![f] = NoJob] /\ HandOf[f] # NoJob
    <3>1. HandOf[f] = wjob[w] /\ wjob[w] # NoJob
      BY <1>2, <2>1, NullAssumption DEF HandOf, HandsOwned
    <3>2. HandOf' = [HandOf EXCEPT ![f] = NoJob]
      BY <1>1, <1>2, <2>1 DEF Idle, HandOf, HasLane, TypeOK
    <3>3. QED
      BY <3>1, <3>2
  <2>4. \A g \in Flavors : (HasLane(g) /\ Running(queues[g]))' <=>
                               g # f /\ HasLane(g) /\ Running(queues[g])
    BY <1>1, <1>2, <2>1 DEF Idle, HasLane, Running, TypeOK
  <2>5. WorkingOf' = WorkingOf \ {f}
    BY <2>4 DEF WorkingOf
  <2>6. Lanes!Release(f)
    BY <1>3, <2>2, <2>3, <2>5 DEF Lanes!Release
  <2>7. QED
    BY <1>2, <2>6 DEF Lanes!Next
<1>7. CASE PassCheck(w) \/ WorkReturns(w) \/ \E s \in {"done", "error"} : WorkFinishes(w, s)
  <2>1. UNCHANGED <<chan, wjob>> /\ \A v \in Workers : Running(v)' <=> Running(v)
    BY <1>7 DEF PassCheck, WorkReturns, WorkFinishes, Running, TypeOK
  <2>2. QED
    BY <1>1, <1>3, <2>1, LanesStutter DEF TypeOK
<1>8. QED
  BY <1>4, <1>5, <1>6, <1>7 DEF WorkerStep

\* Each step of the registry is a step of the lanes or leaves them alone.
LEMMA LanesStep == LInv /\ [Next]_vars => [Lanes!Next]_Lanes!laneVars
<1> SUFFICES ASSUME LInv, [Next]_vars PROVE Lanes!Next \/ UNCHANGED Lanes!laneVars
  OBVIOUS
<1> USE DEF LInv, IInv
<1>1. ASSUME NEW j \in Jobs, NEW f \in Flavors, StartRegister(j, f)
      PROVE  UNCHANGED Lanes!laneVars
  <2>1. UNCHANGED <<queues, chan, wjob, wpc>>
    BY <1>1 DEF StartRegister, workerVars
  <2>2. TakenOf' = TakenOf
    BY <1>1 DEF StartRegister, FreshJobs, TakenOf, TypeOK
  <2>3. QED
    BY <2>1, <2>2, LanesStutter DEF Running, TypeOK
<1>2. CASE Crash
  <2>1. LaneOf' = [f \in Flavors |-> <<>>] /\ HandOf' = [f \in Flavors |-> NoJob]
    BY <1>2 DEF Crash, LaneOf, HandOf, HasLane
  <2>2. WorkingOf' = {}
    BY <1>2 DEF Crash, WorkingOf, HasLane
  <2>3. TakenOf \subseteq TakenOf' /\ TakenOf' \subseteq Jobs
    BY <1>2 DEF Crash, TakenOf
  <2>4. Lanes!Restart
    BY <2>1, <2>2, <2>3 DEF Lanes!Restart
  <2>5. QED
    BY <2>4 DEF Lanes!Next
<1>3. CASE \/ \E j \in Jobs : Reap(j)
           \/ \E h \in Handlers, j \in Jobs : CancelCheck(h, j)
           \/ \E h \in Handlers : CancelStep(h)
           \/ Boot \/ UNCHANGED vars
  <2>1. UNCHANGED <<queues, chan, wjob, wpc, call, flavor>>
    BY <1>3 DEF Reap, CancelCheck, CancelStep, CancelSignal, CancelFinish, Boot, vars,
                jobVars, workerVars, callVars
  <2>2. QED
    BY <2>1, LanesStutter DEF Running, TakenOf, TypeOK
<1>4. QED
  BY <1>1, <1>2, <1>3, StartLanes, WorkerLanes DEF Next

\* The job registry implements its lanes: jobs of a flavor are taken in the
\* order Start accepted them, worked on one at a time, and none twice.
THEOREM LanesImplemented == Spec => ImplementsLanes
<1>1. Lanes!Init /\ [][Lanes!Next]_Lanes!laneVars => ImplementsLanes
  BY DEF ImplementsLanes, Lanes!Spec
<1>2. QED
  BY <1>1, LanesInit, LanesStep, LanesInvariant, PTL DEF Spec
=============================================================================
