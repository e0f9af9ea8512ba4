--------------------- MODULE BackgroundThreadPoolProofs ---------------------
(***************************************************************************)
(* Proofs about the background thread pool, for any number of workers,     *)
(* submitters, waiters and tasks and any capacities.                       *)
(***************************************************************************)
EXTENDS BackgroundThreadPool, SequenceTheorems, FiniteSetTheorems, TLAPS

-----------------------------------------------------------------------------
(* Lemmas about the operators of the model. *)

\* An index reduced modulo the number of workers names a worker.
LEMMA ModWorker == \A n \in Nat : n % NumWorkers \in Workers
BY PoolAssumption DEF Workers, PoolAssumption

\* Worker 0 exists.
LEMMA ZeroWorker == 0 \in Workers
BY PoolAssumption DEF Workers, PoolAssumption

\* The index after a worker's is a worker's, unless it was the last.
LEMMA NextWorker == \A a \in Workers : a < NumWorkers - 1 => a + 1 \in Workers
BY PoolAssumption DEF Workers, PoolAssumption

\* No worker comes after the last one.
LEMMA LastWorker == \A a, v \in Workers : ~(a < NumWorkers - 1) => v < a \/ v = a
BY PoolAssumption DEF Workers, PoolAssumption

\* The queue scanned by submit belongs to a worker.
LEMMA SubmitIndexWorker ==
  ASSUME SubmitterType, NEW s \in Submitters
  PROVE  SubmitIndex(s) \in Workers
<1>1. roundRobin \in Workers /\ submitter[s].at \in Workers
  BY DEF SubmitterType
<1>2. roundRobin + NumWorkers - 1 + submitter[s].at \in Nat
  BY <1>1, PoolAssumption DEF Workers, PoolAssumption
<1>3. QED
  BY <1>2, ModWorker DEF SubmitIndex

\* A worker's steal looks at the queue of a worker.
LEMMA VictimWorker ==
  ASSUME WorkerType, NEW w \in Workers
  PROVE  (w + 1 + worker[w].at) % NumWorkers \in Workers
<1>1. worker[w].at \in Workers
  BY DEF WorkerType
<1>2. w + 1 + worker[w].at \in Nat
  BY <1>1, PoolAssumption DEF Workers, PoolAssumption
<1>3. QED
  BY <1>2, ModWorker

\* What popping the back of a queue returns and leaves.
LEMMA BackAndPop ==
  ASSUME NEW q \in Seq(Tasks), q # <<>>
  PROVE  Back(q) \in Tasks /\ PopBack(q) \in Seq(Tasks)
<1>1. Len(q) \in Nat /\ Len(q) > 0
  BY EmptySeq, LenProperties
<1>2. Back(q) \in Tasks
  BY <1>1, ElementOfSeq DEF Back
<1>3. \A i \in 1 .. Len(q) - 1 : q[i] \in Tasks
  BY <1>1, ElementOfSeq
<1>4. PopBack(q) \in Seq(Tasks)
  BY <1>1, <1>3, SubSeqProperties DEF PopBack
<1>5. QED
  BY <1>2, <1>4

-----------------------------------------------------------------------------
(* Type correctness, one lemma per thread. *)

\* A worker that moves on without a task keeps the type of the worker states.
LEMMA GoToType ==
  ASSUME WorkerType, NEW w \in Workers, NEW pc \in WorkerPC \ {"execute"},
         NEW at \in Workers, GoTo(w, pc, at)
  PROVE  WorkerType'
BY DEF WorkerType, GoTo

\* So does one that begins a task.
LEMMA BeginType ==
  ASSUME WorkerType, NEW w \in Workers, NEW t \in Tasks, Begin(w, t)
  PROVE  WorkerType'
BY ZeroWorker DEF WorkerType, Begin, WorkerPC

\* A pool that has not been started has the right types.
LEMMA TypeInit == Init => TypeOK
<1> SUFFICES ASSUME Init PROVE TypeOK
    OBVIOUS
<1> USE ZeroWorker DEF Init
<1>1. ControlType
  BY DEF ControlType, OwnerPC
<1>0. CounterType
  BY DEF CounterType
<1>2. QueueType
  BY EmptySeq DEF QueueType
<1>3. WorkerType
  BY DEF WorkerType, WorkerPC
<1>4. SubmitterType
  BY DEF SubmitterType, SubmitterPC
<1>5. CallerType
  BY DEF CallerType, CancellerPC, WaiterPC
<1>6. HistoryType
  BY DEF HistoryType, Outcome
<1>7. QED
  BY <1>0, <1>1, <1>2, <1>3, <1>4, <1>5, <1>6 DEF TypeOK

\* start and shutdown keep the types.
LEMMA TypeOwner == TypeOK /\ OwnerNext => TypeOK'
<1> SUFFICES ASSUME TypeOK, OwnerNext PROVE TypeOK'
    OBVIOUS
<1> USE DEF TypeOK, OwnerNext, Start, StartReturn, ShutdownRequest, ShutdownJoined,
            ShutdownReturn, counters, bounds
<1>1. ControlType'
  BY DEF ControlType, OwnerPC
<1>2. QueueType' /\ SubmitterType' /\ CallerType'
  BY DEF QueueType, SubmitterType, CallerType
<1>3. CounterType'
  BY DEF CounterType
<1>4. WorkerType'
  BY ZeroWorker DEF WorkerType, WorkerPC
<1>5. HistoryType'
  BY DEF HistoryType
<1>6. QED
  BY <1>1, <1>2, <1>3, <1>4, <1>5

\* So does a step of submit: the queue it pushes to belongs to a worker.
LEMMA TypeSubmit == ASSUME NEW s \in Submitters PROVE TypeOK /\ SubmitNext(s) => TypeOK'
<1> SUFFICES ASSUME TypeOK, SubmitNext(s) PROVE TypeOK'
    OBVIOUS
<1> USE DEF TypeOK, flags, counters, bounds
<1>1. ASSUME NEW t \in Tasks, SubmitCall(s, t) PROVE TypeOK'
  <2> USE <1>1 DEF SubmitCall
  <2>1. ControlType' /\ QueueType' /\ CounterType' /\ WorkerType' /\ CallerType'
    BY DEF ControlType, QueueType, CounterType, WorkerType, CallerType
  <2>2. SubmitterType'
    BY ZeroWorker DEF SubmitterType, SubmitterPC
  <2>3. HistoryType'
    BY DEF HistoryType, Outcome
  <2>4. QED
    BY <2>1, <2>2, <2>3
<1>2. CASE SubmitEnter(s)
  <2> USE <1>2 DEF SubmitEnter, Reject, LeaveSubmit
  <2>1. (roundRobin + 1) % NumWorkers \in Workers
    <3>1. roundRobin + 1 \in Nat
      BY PoolAssumption DEF SubmitterType, Workers, PoolAssumption
    <3>2. QED
      BY <3>1, ModWorker
  <2>2. QueueType' /\ WorkerType' /\ CallerType'
    BY DEF QueueType, WorkerType, CallerType
  <2>3. ControlType' /\ CounterType'
    BY DEF ControlType, CounterType
  <2>4. SubmitterType'
    BY <2>1, ZeroWorker DEF SubmitterType, SubmitterPC
  <2>5. HistoryType'
    BY DEF HistoryType, Outcome, SubmitterType
  <2>6. QED
    BY <2>2, <2>3, <2>4, <2>5
<1>3. CASE SubmitScan(s)
  <2> DEFINE w == SubmitIndex(s)
  <2>1. w \in Workers
    BY SubmitIndexWorker
  <2>2. submitter[s].task \in Tasks
    BY <1>3 DEF SubmitScan, SubmitterType
  <2>3. Append(queue[w], submitter[s].task) \in Seq(Tasks)
    BY <2>1, <2>2, AppendProperties DEF QueueType
  <2> HIDE DEF w
  <2>4. WorkerType' /\ CallerType' /\ ControlType' /\ CounterType'
    BY <1>3 DEF SubmitScan, WorkerType, CallerType, ControlType, CounterType
  <2>5. QueueType'
    BY <1>3, <2>1, <2>3 DEF SubmitScan, QueueType, w
  <2>6. SubmitterType'
    BY <1>3, ZeroWorker, NextWorker DEF SubmitScan, LeaveSubmit, SubmitterType, SubmitterPC
  <2>7. HistoryType'
    BY <1>3, <2>2 DEF SubmitScan, HistoryType, Outcome
  <2>8. QED
    BY <2>4, <2>5, <2>6, <2>7
<1>4. CASE SubmitRelease(s)
  <2> USE <1>4 DEF SubmitRelease, Reject, LeaveSubmit
  <2>1. QueueType' /\ WorkerType' /\ CallerType' /\ ControlType' /\ CounterType'
    BY DEF QueueType, WorkerType, CallerType, ControlType, CounterType
  <2>2. SubmitterType'
    BY ZeroWorker DEF SubmitterType, SubmitterPC
  <2>3. HistoryType'
    BY DEF HistoryType, Outcome, SubmitterType
  <2>4. QED
    BY <2>1, <2>2, <2>3
<1>5. QED
  BY <1>1, <1>2, <1>3, <1>4 DEF SubmitNext

\* So does a step of a worker: what it pops was in a queue.
LEMMA TypeWorker == ASSUME NEW w \in Workers PROVE TypeOK /\ WorkerNext(w) => TypeOK'
<1> SUFFICES ASSUME TypeOK, WorkerNext(w) PROVE TypeOK'
    OBVIOUS
<1> USE DEF TypeOK
<1>1. ControlType' /\ SubmitterType' /\ CallerType'
  BY DEF WorkerNext, TakeLocalTask, StealTask, ExecuteTask, ExecuteNotify, CheckStop,
         HasQueuedWork, WaitForWork, workerFrame, flags, bounds, NotifyIdle,
         ControlType, SubmitterType, CallerType, WaiterPC
<1>2. CASE TakeLocalTask(w)
  <2>1. queue[w] # <<>> => Head(queue[w]) \in Tasks /\ Tail(queue[w]) \in Seq(Tasks)
    BY HeadTailProperties DEF QueueType
  <2>2. QueueType'
    BY <1>2, <2>1 DEF TakeLocalTask, QueueType
  <2>3. CounterType' /\ HistoryType'
    BY <1>2, <2>1 DEF TakeLocalTask, Begin, CounterType, HistoryType, Outcome,
                      workerFrame, bounds
  <2>4. WorkerType'
    BY <1>2, <2>1, GoToType, BeginType, ZeroWorker DEF TakeLocalTask, WorkerPC
  <2>5. QED
    BY <1>1, <2>2, <2>3, <2>4
<1>3. CASE StealTask(w)
  <2> DEFINE victim == (w + 1 + worker[w].at) % NumWorkers
  <2>1. victim \in Workers
    BY VictimWorker
  <2> HIDE DEF victim
  <2>2. queue[victim] # <<>> => /\ Back(queue[victim]) \in Tasks
                                /\ PopBack(queue[victim]) \in Seq(Tasks)
    BY <2>1, BackAndPop DEF QueueType
  <2>3. QueueType'
    BY <1>3, <2>1, <2>2 DEF StealTask, QueueType, victim
  <2>4. CounterType' /\ HistoryType'
    BY <1>3, <2>2 DEF StealTask, Begin, CounterType, HistoryType, Outcome, workerFrame,
                      bounds, victim
  <2>5. worker[w].at \in Workers
    BY DEF WorkerType
  <2>6. WorkerType'
    BY <1>3, <2>2, <2>5, GoToType, BeginType, ZeroWorker, NextWorker
       DEF StealTask, WorkerPC, victim
  <2>7. QED
    BY <1>1, <2>3, <2>4, <2>6
<1>4. CASE ExecuteTask(w)
  <2>1. worker[w].task \in Tasks
    BY <1>4 DEF ExecuteTask, WorkerType
  <2>2. QueueType' /\ CounterType' /\ HistoryType'
    BY <1>4, <2>1 DEF ExecuteTask, QueueType, CounterType, HistoryType, Outcome,
                      workerFrame, bounds
  <2>3. WorkerType'
    BY <1>4, GoToType, ZeroWorker DEF ExecuteTask, WorkerPC
  <2>4. QED
    BY <1>1, <2>2, <2>3
<1>5. CASE ExecuteNotify(w) \/ CheckStop(w) \/ HasQueuedWork(w) \/ WaitForWork(w)
  <2> USE <1>5 DEF ExecuteNotify, CheckStop, HasQueuedWork, WaitForWork
  <2>1. QueueType' /\ CounterType' /\ HistoryType'
    BY DEF QueueType, CounterType, HistoryType, workerFrame, bounds
  <2>2. worker[w].at \in Workers
    BY DEF WorkerType
  <2>3. WorkerType'
    BY <2>2, GoToType, ZeroWorker, NextWorker DEF WorkerPC
  <2>4. QED
    BY <1>1, <2>1, <2>3
<1>6. QED
  BY <1>2, <1>3, <1>4, <1>5 DEF WorkerNext

\* So does a step of cancelAll: the queue it empties belongs to a worker.
LEMMA TypeCancel == TypeOK /\ CancelNext => TypeOK'
<1> SUFFICES ASSUME TypeOK, CancelNext PROVE TypeOK'
    OBVIOUS
<1> USE DEF TypeOK
<1> DEFINE n == Len(queue[canceller.at])
<1>1. canceller.at \in Workers
  BY DEF CallerType
<1>2. n \in Nat
  BY <1>1, LenProperties DEF QueueType
<1> HIDE DEF n
<1> USE DEF CancelNext, CancelAll, CancelQueue, CancelFinish, CancelNotify, NotifyIdle
<1>3. ControlType' /\ SubmitterType' /\ WorkerType'
  BY DEF cancelFrame, flags, ControlType, SubmitterType, WorkerType
<1>4. QueueType'
  BY EmptySeq DEF QueueType
<1>5. CounterType'
  <2>1. CASE CancelAll \/ CancelQueue \/ CancelNotify
    BY <1>2, <2>1 DEF CounterType, cancelFrame, n
  <2>2. CASE CancelFinish
    BY <2>2 DEF CounterType, CallerType, cancelFrame
  <2>3. QED
    BY <2>1, <2>2
<1>0. HistoryType'
  BY DEF HistoryType, Outcome, cancelFrame
<1>6. CallerType'
  BY <1>1, <1>2, ZeroWorker, NextWorker DEF CallerType, CancellerPC, WaiterPC, n
<1>7. QED
  BY <1>0, <1>3, <1>4, <1>5, <1>6

\* So does a step of waitUntilIdle.
LEMMA TypeWait == ASSUME NEW u \in Waiters PROVE TypeOK /\ WaitNext(u) => TypeOK'
<1> SUFFICES ASSUME TypeOK, WaitNext(u) PROVE TypeOK'
    OBVIOUS
<1> USE DEF TypeOK, WaitNext, WaitUntilIdle, WaitWake, WaitTimeout, IdleOrSleep, waitFrame,
            flags, counters
<1>1. ControlType' /\ QueueType' /\ CounterType' /\ WorkerType' /\ SubmitterType'
  BY DEF ControlType, QueueType, CounterType, WorkerType, SubmitterType
<1>2. CallerType' /\ HistoryType'
  BY DEF CallerType, WaiterPC, HistoryType
<1>3. QED
  BY <1>1, <1>2

\* Every variable keeps its range in every behaviour of the pool.
THEOREM PoolTypeCorrect == Spec => []TypeOK
<1>1. TypeOK /\ [Next]_vars => TypeOK'
  <2>1. TypeOK /\ UNCHANGED vars => TypeOK'
    BY DEF vars, flags, counters, bounds, TypeOK, ControlType, QueueType, CounterType,
           WorkerType, SubmitterType, CallerType, HistoryType
  <2>2. QED
    BY <2>1, TypeOwner, TypeSubmit, TypeWorker, TypeCancel, TypeWait DEF Next
<1>2. QED
  BY TypeInit, <1>1, PTL DEF Spec

-----------------------------------------------------------------------------
(* Shutdown drains the queues. *)

\* The owner requests a stop only while no submitter is between check and push.
LEMMA DrainOwner == TypeOK /\ DrainInv /\ OwnerNext => DrainInv'
<1> SUFFICES ASSUME TypeOK, DrainInv, OwnerNext PROVE DrainInv'
    OBVIOUS
<1> USE DEF DrainInv
<1>1. CASE Start
  BY <1>1 DEF Start
<1>2. CASE StartReturn \/ ShutdownRequest \/ ShutdownReturn
  BY <1>2 DEF StartReturn, ShutdownRequest, ShutdownReturn
<1>3. CASE ShutdownJoined
  BY <1>3 DEF ShutdownJoined
<1>4. QED
  BY <1>1, <1>2, <1>3 DEF OwnerNext

\* A push happens before any stop request, so no worker has begun its scan.
LEMMA DrainSubmit ==
  ASSUME NEW s \in Submitters PROVE TypeOK /\ DrainInv /\ SubmitNext(s) => DrainInv'
<1> SUFFICES ASSUME TypeOK, DrainInv, SubmitNext(s) PROVE DrainInv'
    OBVIOUS
<1> USE PoolAssumption DEF TypeOK, SubmitterType, SubmitterPC, PoolAssumption, flags
<1>1. ASSUME NEW t \in Tasks, SubmitCall(s, t) PROVE DrainInv'
  BY <1>1 DEF SubmitCall, DrainInv
<1>2. CASE SubmitEnter(s)
  BY <1>2 DEF SubmitEnter, Reject, LeaveSubmit, Closed, DrainInv
<1>3. CASE SubmitScan(s)
  <2>1. lifecycleMutex = s /\ ~stopRequested
    BY <1>3 DEF SubmitScan, DrainInv
  <2>2. \A w \in Workers : worker[w].pc \notin {"scan", "exited"}
    BY <2>1 DEF DrainInv
  <2>3. \A r \in Submitters : r # s => submitter[r].pc # "scan"
    BY <2>1 DEF DrainInv
  <2>4. UNCHANGED <<worker, stopRequested>>
    BY <1>3 DEF SubmitScan
  <2>5. /\ \A r \in Submitters : submitter'[r].pc = "scan" => lifecycleMutex' = r
        /\ lifecycleMutex' # Nobody => ~stopRequested'
    BY <1>3, <2>1, <2>3, <2>4 DEF SubmitScan, LeaveSubmit
  <2>6. QED
    BY <2>2, <2>4, <2>5 DEF DrainInv
<1>4. CASE SubmitRelease(s)
  BY <1>4 DEF SubmitRelease, Reject, LeaveSubmit, DrainInv
<1>5. QED
  BY <1>1, <1>2, <1>3, <1>4 DEF SubmitNext

\* Workers only take tasks out, and an empty queue passed in a scan counts.
LEMMA DrainWorker ==
  ASSUME NEW w \in Workers PROVE TypeOK /\ DrainInv /\ WorkerNext(w) => DrainInv'
<1> SUFFICES ASSUME TypeOK, DrainInv, WorkerNext(w) PROVE DrainInv'
    OBVIOUS
<1> USE DEF TypeOK, QueueType
<1>1. UNCHANGED <<lifecycleMutex, submitter, stopRequested>>
  BY DEF WorkerNext, TakeLocalTask, StealTask, ExecuteTask, ExecuteNotify, CheckStop,
         HasQueuedWork, WaitForWork, workerFrame, flags
<1>2. \A v \in Workers : queue[v] = <<>> => queue'[v] = <<>>
  <2>1. CASE StealTask(w)
    <3> DEFINE victim == (w + 1 + worker[w].at) % NumWorkers
    <3> HIDE DEF victim
    <3>1. QED
      BY <2>1 DEF StealTask, victim
  <2>2. CASE TakeLocalTask(w)
    BY <2>2 DEF TakeLocalTask
  <2>3. QED
    BY <2>1, <2>2 DEF WorkerNext, ExecuteTask, ExecuteNotify, CheckStop, HasQueuedWork,
                      WaitForWork
<1>3. \A x \in Workers : x # w => worker'[x] = worker[x]
  BY DEF WorkerNext, TakeLocalTask, StealTask, ExecuteTask, ExecuteNotify, CheckStop,
         HasQueuedWork, WaitForWork, GoTo, Begin, WorkerType
<1>4. CASE HasQueuedWork(w)
  <2> USE DEF WorkerType
  <2>1. UNCHANGED queue /\ stopRequested
    BY <1>4 DEF HasQueuedWork, DrainInv
  <2>2. worker[w].at \in Workers
    OBVIOUS
  <2>3. CASE queue[worker[w].at] # <<>>
    <3>1. worker'[w].pc = "wait"
      BY <1>4, <2>3 DEF HasQueuedWork, GoTo
    <3>2. QED
      BY <1>1, <1>3, <2>1, <3>1 DEF DrainInv
  <2>4. CASE queue[worker[w].at] = <<>> /\ worker[w].at < NumWorkers - 1
    <3>1. worker'[w].pc = "scan" /\ worker'[w].at = worker[w].at + 1
      BY <1>4, <2>4 DEF HasQueuedWork, GoTo
    <3>2. \A v \in Workers : v < worker[w].at => queue[v] = <<>>
      BY <1>4 DEF HasQueuedWork, DrainInv
    <3>3. \A v \in Workers : v < worker[w].at + 1 => queue[v] = <<>>
      BY <2>2, <2>4, <3>2 DEF Workers
    <3>4. QED
      BY <1>1, <1>3, <2>1, <3>1, <3>3 DEF DrainInv
  <2>5. CASE queue[worker[w].at] = <<>> /\ ~(worker[w].at < NumWorkers - 1)
    <3>1. worker'[w].pc = "exited"
      BY <1>4, <2>5 DEF HasQueuedWork, GoTo
    <3>2. \A v \in Workers : v < worker[w].at => queue[v] = <<>>
      BY <1>4 DEF HasQueuedWork, DrainInv
    <3>3. \A v \in Workers : queue[v] = <<>>
      <4>1. \A v \in Workers : v < worker[w].at \/ v = worker[w].at
        BY <2>2, <2>5, LastWorker
      <4>2. QED
        BY <2>5, <3>2, <4>1
    <3>4. QED
      BY <1>1, <1>3, <2>1, <3>1, <3>3 DEF DrainInv
  <2>6. QED
    BY <2>3, <2>4, <2>5
<1>5. CASE CheckStop(w)
  <2>1. \/ worker'[w].pc = "wait"
        \/ worker'[w].pc = "scan" /\ worker'[w].at = 0 /\ stopRequested
    BY <1>5 DEF CheckStop, GoTo, WorkerType
  <2>2. \A v \in Workers : ~(v < 0)
    BY DEF Workers
  <2>3. QED
    BY <1>1, <1>2, <1>3, <2>1, <2>2 DEF DrainInv
<1>6. CASE \/ TakeLocalTask(w) \/ StealTask(w) \/ ExecuteTask(w) \/ ExecuteNotify(w)
           \/ WaitForWork(w)
  <2>1. worker'[w].pc \notin {"scan", "exited"}
    BY <1>6 DEF TakeLocalTask, StealTask, ExecuteTask, ExecuteNotify, WaitForWork, GoTo,
                Begin, WorkerType
  <2>2. QED
    BY <1>1, <1>2, <1>3, <2>1 DEF DrainInv
<1>7. QED
  BY <1>4, <1>5, <1>6 DEF WorkerNext

\* cancelAll only empties queues.
LEMMA DrainCancel == TypeOK /\ DrainInv /\ CancelNext => DrainInv'
<1> SUFFICES ASSUME TypeOK, DrainInv, CancelNext PROVE DrainInv'
    OBVIOUS
<1>1. UNCHANGED <<lifecycleMutex, submitter, stopRequested, worker>>
  BY DEF CancelNext, CancelAll, CancelQueue, CancelFinish, CancelNotify, cancelFrame, flags
<1>2. \A v \in Workers : queue[v] = <<>> => queue'[v] = <<>>
  BY DEF CancelNext, CancelAll, CancelQueue, CancelFinish, CancelNotify, TypeOK, QueueType
<1>3. QED
  BY <1>1, <1>2 DEF DrainInv

\* shutdown leaves no accepted task in a queue.
THEOREM ShutdownDrains == Spec => []NoTaskStranded
<1>1. Init => DrainInv
  BY DEF Init, DrainInv
<1>2. TypeOK /\ DrainInv /\ [Next]_vars => DrainInv'
  <2>1. ASSUME NEW u \in Waiters PROVE DrainInv /\ WaitNext(u) => DrainInv'
    BY DEF DrainInv, WaitNext, WaitUntilIdle, WaitWake, WaitTimeout, waitFrame, flags
  <2>2. DrainInv /\ UNCHANGED vars => DrainInv'
    BY DEF DrainInv, vars, flags
  <2>3. QED
    BY <2>1, <2>2, DrainOwner, DrainSubmit, DrainWorker, DrainCancel DEF Next
<1>3. DrainInv => NoTaskStranded
  BY DEF DrainInv, NoTaskStranded
<1>4. QED
  BY <1>1, <1>2, <1>3, PoolTypeCorrect, PTL DEF Spec

-----------------------------------------------------------------------------
(* Each task is in one place. *)

\* No queue is longer than its capacity.
QueuesBounded == \A w \in Workers : Len(queue[w]) <= MaxQueuedTasksPerWorker

\* A queued task was accepted, and is queued once.
QueuedOnce ==
  \A w, v \in Workers : \A i \in 1 .. Len(queue[w]), j \in 1 .. Len(queue[v]) :
    /\ outcome[queue[w][i]] = "accepted"
    /\ queue[w][i] = queue[v][j] => w = v /\ i = j

\* A task a worker executes is executed by no other.
ExecutedOnce ==
  \A w \in Workers : worker[w].pc = "execute" =>
    /\ outcome[worker[w].task] = "executing"
    /\ \A v \in Workers : worker[v].pc = "execute" /\ worker[v].task = worker[w].task => v = w

\* A task that is being submitted is new, and submitted by no other.
SubmittedOnce ==
  \A s \in Submitters : submitter[s].pc # "out" =>
    /\ outcome[submitter[s].task] = "new"
    /\ \A r \in Submitters :
         submitter[r].pc # "out" /\ submitter[r].task = submitter[s].task => r = s

\* The tasks waitUntilIdle waits for, and the submitters that hold a reserved slot.
PendingTasks == {t \in Tasks : outcome[t] \in {"accepted", "executing"}}
Reserving    == {s \in Submitters : submitter[s].pc \in {"scan", "release"}}

\* The inductive invariant: the places, and the counts of what is in them.
PlacesInv == QueuesBounded /\ QueuedOnce /\ ExecutedOnce /\ SubmittedOnce /\ TaskRunsOnce
CountInv  == IsFiniteSet(PendingTasks) /\ IsFiniteSet(Reserving) /\ CountersExact

-----------------------------------------------------------------------------
(* A place is left for another in one step. *)

\* What popping the front of a queue returns and leaves.
LEMMA FrontAndTail ==
  ASSUME NEW q \in Seq(Tasks), q # <<>>
  PROVE  /\ Len(q) \in Nat \ {0} /\ Head(q) = q[1]
         /\ Len(Tail(q)) = Len(q) - 1
         /\ \A i \in 1 .. Len(q) - 1 : Tail(q)[i] = q[i + 1]
BY EmptySeq, LenProperties, HeadTailProperties

\* The places left by popping the back of a queue.
LEMMA PopBackPlaces ==
  ASSUME NEW q \in Seq(Tasks), q # <<>>
  PROVE  /\ Len(q) \in Nat \ {0} /\ Back(q) = q[Len(q)]
         /\ Len(PopBack(q)) = Len(q) - 1
         /\ \A i \in 1 .. Len(q) - 1 : PopBack(q)[i] = q[i]
<1>1. Len(q) \in Nat \ {0}
  BY EmptySeq, LenProperties
<1>2. \A i \in 1 .. Len(q) - 1 : q[i] \in Tasks
  BY <1>1, ElementOfSeq
<1>3. /\ Len(PopBack(q)) = IF 1 <= Len(q) - 1 THEN Len(q) - 1 - 1 + 1 ELSE 0
      /\ \A i \in 1 .. Len(q) - 1 - 1 + 1 : PopBack(q)[i] = q[1 + i - 1]
  <2>1. 1 \in Int /\ Len(q) - 1 \in Int
    BY <1>1
  <2>2. QED
    BY <1>2, <2>1, SubSeqProperties DEF PopBack
<1>4. ASSUME NEW i \in 1 .. Len(q) - 1 PROVE PopBack(q)[i] = q[i]
  <2>1. i \in 1 .. Len(q) - 1 - 1 + 1 /\ 1 + i - 1 = i
    BY <1>1
  <2>2. QED
    BY <1>3, <2>1
<1>5. Len(PopBack(q)) = Len(q) - 1
  <2> DEFINE n == Len(q)
             m == Len(PopBack(q))
  <2>1. m = (IF 1 <= n - 1 THEN n - 1 - 1 + 1 ELSE 0) /\ n \in Nat \ {0}
    BY <1>1, <1>3
  <2> HIDE DEF n, m
  <2>2. m = n - 1
    BY <2>1
  <2>3. QED
    BY <2>2 DEF n, m
<1>6. QED
  BY <1>1, <1>4, <1>5 DEF Back

\* The i-th task of a queue is a task.
LEMMA QueuedIsTask ==
  ASSUME QueueType
  PROVE  \A w \in Workers : /\ Len(queue[w]) \in Nat
                            /\ \A i \in 1 .. Len(queue[w]) : queue[w][i] \in Tasks
BY ElementOfSeq, LenProperties DEF QueueType

\* A worker w that takes the first (d = 1) or the last (d = 0) task of queue v.
Taken(w, v, d) ==
  LET k == IF d = 1 THEN 1 ELSE Len(queue[v]) IN
  /\ Len(queue[v]) # 0
  /\ Len(queue'[v]) = Len(queue[v]) - 1
  /\ \A i \in 1 .. Len(queue[v]) - 1 : queue'[v][i] = queue[v][i + d]
  /\ \A u \in Workers : u # v => queue'[u] = queue[u]
  /\ Begin(w, queue[v][k])
  /\ worker[w].pc # "execute"
  /\ UNCHANGED <<submitter, executions, tasksPending>>

\* Taking a task out of a queue leaves every task in one place.
LEMMA TakenPlaces ==
  ASSUME TypeOK, PlacesInv, NEW w \in Workers, NEW v \in Workers, NEW d \in {0, 1},
         Taken(w, v, d)
  PROVE  PlacesInv'
<1> DEFINE k == IF d = 1 THEN 1 ELSE Len(queue[v])
           t == queue[v][k]
<1>1. /\ Len(queue[v]) \in Nat \ {0} /\ k \in 1 .. Len(queue[v]) /\ t \in Tasks
  BY QueuedIsTask DEF Taken, TypeOK
<1>2. \A u \in Workers : Len(queue[u]) \in Nat
  BY QueuedIsTask DEF TypeOK
<1>3. /\ outcome' = [outcome EXCEPT ![t] = "executing"]
      /\ worker' = [worker EXCEPT ![w] = [pc |-> "execute", task |-> t, at |-> 0]]
      /\ outcome[t] = "accepted"
  BY <1>1 DEF Taken, Begin, PlacesInv, QueuedOnce
<1>4. \A i \in 1 .. Len(queue[v]) - 1 :
         queue'[v][i] = queue[v][i + d] /\ i + d \in 1 .. Len(queue[v]) /\ i + d # k
  BY <1>1 DEF Taken
<1>5. Len(queue'[v]) = Len(queue[v]) - 1 /\ \A u \in Workers : u # v => queue'[u] = queue[u]
  BY DEF Taken
<1>6. \A u \in Workers : \A i \in 1 .. Len(queue'[u]) :
         \E j \in 1 .. Len(queue[u]) :
           /\ queue'[u][i] = queue[u][j]
           /\ j = IF u = v THEN i + d ELSE i
           /\ u = v => j # k
  <2> SUFFICES ASSUME NEW u \in Workers, NEW i \in 1 .. Len(queue'[u])
               PROVE  \E j \in 1 .. Len(queue[u]) :
                        /\ queue'[u][i] = queue[u][j]
                        /\ j = IF u = v THEN i + d ELSE i
                        /\ u = v => j # k
    OBVIOUS
  <2>1. CASE u = v
    <3>1. i \in 1 .. Len(queue[v]) - 1
      BY <1>5, <2>1
    <3>2. /\ i + d \in 1 .. Len(queue[u]) /\ i + d # k
          /\ queue'[u][i] = queue[u][i + d]
      BY <1>4, <2>1, <3>1
    <3>3. QED
      BY <2>1, <3>2
  <2>2. CASE u # v
    <3>1. queue'[u] = queue[u] /\ i \in 1 .. Len(queue[u])
      BY <1>5, <2>2
    <3>2. QED
      BY <2>2, <3>1
  <2>3. QED
    BY <2>1, <2>2
<1>7. \A u \in Workers : \A i \in 1 .. Len(queue'[u]) :
         queue'[u][i] # t /\ outcome[queue'[u][i]] = "accepted"
  BY <1>1, <1>6 DEF PlacesInv, QueuedOnce
<1> HIDE DEF k, t
<1>8. QueuesBounded'
  BY <1>1, <1>5, PoolAssumption DEF PlacesInv, QueuesBounded, PoolAssumption
<1>9. QueuedOnce'
  <2>1. ASSUME NEW u \in Workers, NEW x \in Workers, NEW i \in 1 .. Len(queue'[u]),
               NEW j \in 1 .. Len(queue'[x]), queue'[u][i] = queue'[x][j]
        PROVE  u = x /\ i = j
    <3>1. PICK a \in 1 .. Len(queue[u]) : queue'[u][i] = queue[u][a]
                                          /\ a = IF u = v THEN i + d ELSE i
      BY <1>6
    <3>2. PICK b \in 1 .. Len(queue[x]) : queue'[x][j] = queue[x][b]
                                          /\ b = IF x = v THEN j + d ELSE j
      BY <1>6
    <3>3. u = x /\ a = b
      <4>1. queue[u][a] = queue[x][b]
        BY <2>1, <3>1, <3>2
      <4>2. QED
        BY <4>1 DEF PlacesInv, QueuedOnce
    <3>4. QED
      BY <3>1, <3>2, <3>3
  <2>2. ASSUME NEW u \in Workers, NEW i \in 1 .. Len(queue'[u])
        PROVE  outcome'[queue'[u][i]] = "accepted"
    <3>1. queue'[u][i] \in Tasks
      <4>1. PICK a \in 1 .. Len(queue[u]) : queue'[u][i] = queue[u][a]
        BY <1>6
      <4>2. QED
        BY <4>1, QueuedIsTask DEF TypeOK
    <3>2. QED
      BY <1>3, <1>7, <3>1 DEF TypeOK, HistoryType
  <2>3. QED
    BY <2>1, <2>2 DEF QueuedOnce
<1>10. ExecutedOnce'
  <2>1. \A u \in Workers : worker[u].pc = "execute" => worker[u].task \in Tasks /\ worker[u].task # t
    BY <1>3 DEF PlacesInv, ExecutedOnce, TypeOK, WorkerType
  <2>2. QED
    BY <1>1, <1>3, <2>1 DEF PlacesInv, ExecutedOnce, TypeOK, WorkerType, HistoryType
<1>11. SubmittedOnce' /\ TaskRunsOnce'
  BY <1>1, <1>3 DEF Taken, PlacesInv, SubmittedOnce, TaskRunsOnce, TypeOK, HistoryType, SubmitterType
<1>12. QED
  BY <1>8, <1>9, <1>10, <1>11 DEF PlacesInv

\* There are finitely many places in the queues.
LEMMA FinitePlaces == IsFiniteSet(QueuePlaces)
<1>1. IsFiniteSet(Workers) /\ IsFiniteSet(1 .. MaxQueuedTasksPerWorker)
  BY FS_Interval, PoolAssumption DEF Workers, PoolAssumption
<1>2. IsFiniteSet(Workers \X (1 .. MaxQueuedTasksPerWorker))
  BY <1>1, FS_Product
<1>3. QED
  BY <1>2, FS_Subset DEF QueuePlaces

\* Taking a task gives back one slot, and the task stays pending.
LEMMA TakenCounts ==
  ASSUME TypeOK, PlacesInv, CountInv, NEW w \in Workers, NEW v \in Workers, NEW d \in {0, 1},
         Taken(w, v, d)
  PROVE  CountInv'
<1> DEFINE k == IF d = 1 THEN 1 ELSE Len(queue[v])
           t == queue[v][k]
           place == <<v, Len(queue[v])>>
<1>1. /\ Len(queue[v]) \in Nat \ {0} /\ k \in 1 .. Len(queue[v]) /\ t \in Tasks
  BY QueuedIsTask DEF Taken, TypeOK
<1>2. \A u \in Workers : Len(queue[u]) \in Nat
  BY QueuedIsTask DEF TypeOK
<1>3. /\ outcome' = [outcome EXCEPT ![t] = "executing"]
      /\ queuedTasks' = queuedTasks - 1
      /\ outcome[t] = "accepted"
      /\ UNCHANGED <<submitter, tasksPending>>
  BY <1>1 DEF Taken, Begin, PlacesInv, QueuedOnce
<1> HIDE DEF k, t
<1>4. PendingTasks' = PendingTasks
  BY <1>1, <1>3 DEF PendingTasks, TypeOK, HistoryType
<1>5. Reserving' = Reserving
  BY <1>3 DEF Reserving
<1>6. place \in QueuePlaces
  BY <1>1 DEF PlacesInv, QueuesBounded, QueuePlaces
<1>7. QueuePlaces' = QueuePlaces \ {place}
  <2>1. Len(queue'[v]) = Len(queue[v]) - 1 /\ \A u \in Workers : u # v => queue'[u] = queue[u]
    BY DEF Taken
  <2>2. QED
    BY <1>1, <1>2, <2>1 DEF QueuePlaces
<1>8. Cardinality(QueuePlaces') = Cardinality(QueuePlaces) - 1
  BY <1>6, <1>7, FinitePlaces, FS_RemoveElement
<1>9. Cardinality(QueuePlaces) \in Nat /\ Cardinality(Reserving) \in Nat
  BY FinitePlaces, FS_CardinalityType DEF CountInv
<1>10. QueuedSlotsExact'
  <2>1. queuedTasks' = Cardinality(QueuePlaces') + Cardinality(Reserving')
    BY <1>3, <1>5, <1>8, <1>9 DEF CountInv, CountersExact, QueuedSlotsExact, Reserving
  <2>2. MaxQueuedTasksTotal # 0 => queuedTasks' <= MaxQueuedTasksTotal
    BY <1>3, PoolAssumption
       DEF CountInv, CountersExact, QueuedSlotsExact, TypeOK, CounterType, PoolAssumption
  <2>3. QED
    BY <2>1, <2>2 DEF QueuedSlotsExact, Reserving
<1>11. PendingExact'
  BY <1>3, <1>4 DEF CountInv, CountersExact, PendingExact, PendingTasks
<1>12. QED
  BY <1>4, <1>5, <1>10, <1>11 DEF CountInv, CountersExact

\* A step that moves no task, except that a worker may lay one down, keeps each in its place.
LEMMA PlacesStutter ==
  ASSUME PlacesInv, UNCHANGED <<queue, outcome, submitter, executions>>,
         \A w \in Workers : worker'[w].pc = "execute" => worker'[w] = worker[w]
  PROVE  PlacesInv'
BY DEF PlacesInv, QueuesBounded, QueuedOnce, ExecutedOnce, SubmittedOnce, TaskRunsOnce

\* And the counts, if the submitters stay where they are.
LEMMA CountStutter ==
  ASSUME CountInv, UNCHANGED <<queue, outcome, submitter, queuedTasks, tasksPending>>
  PROVE  CountInv'
BY DEF CountInv, PendingTasks, Reserving, CountersExact, QueuedSlotsExact, PendingExact, QueuePlaces

\* start and shutdown: only the workers change, and none of them executes then.
LEMMA PlacesOwner ==
  ASSUME TypeOK, PlacesInv, CountInv, OwnerNext
  PROVE  PlacesInv' /\ CountInv'
<1>1. UNCHANGED <<queue, outcome, submitter, executions, queuedTasks, tasksPending>>
  BY DEF OwnerNext, Start, StartReturn, ShutdownRequest, ShutdownJoined, ShutdownReturn, counters
<1>2. \A w \in Workers : worker'[w].pc = "execute" => worker'[w] = worker[w]
  BY DEF OwnerNext, Start, StartReturn, ShutdownRequest, ShutdownJoined, ShutdownReturn
<1>3. QED
  BY <1>1, <1>2, PlacesStutter, CountStutter

\* waitUntilIdle only looks at the pending counter.
LEMMA PlacesWait ==
  ASSUME TypeOK, PlacesInv, CountInv, NEW u \in Waiters, WaitNext(u)
  PROVE  PlacesInv' /\ CountInv'
<1>1. UNCHANGED <<queue, outcome, submitter, executions, queuedTasks, tasksPending, worker>>
  BY DEF WaitNext, WaitUntilIdle, WaitWake, WaitTimeout, waitFrame, counters
<1>2. QED
  BY <1>1, PlacesStutter, CountStutter

\* A worker takes a task out of a queue, or lays one down done.
LEMMA PlacesWorker ==
  ASSUME TypeOK, PlacesInv, CountInv, NEW w \in Workers, WorkerNext(w)
  PROVE  PlacesInv' /\ CountInv'
<1>1. CASE TakeLocalTask(w)
  <2>1. CASE queue[w] = <<>>
    <3>1. UNCHANGED <<queue, outcome, submitter, executions, queuedTasks, tasksPending>>
      BY <1>1, <2>1 DEF TakeLocalTask, workerFrame
    <3>2. \A v \in Workers : worker'[v].pc = "execute" => worker'[v] = worker[v]
      BY <1>1, <2>1 DEF TakeLocalTask, GoTo, TypeOK, WorkerType
    <3>3. QED
      BY <3>1, <3>2, PlacesStutter, CountStutter
  <2>2. CASE queue[w] # <<>>
    <3>1. queue[w] \in Seq(Tasks)
      BY DEF TypeOK, QueueType
    <3>2. Taken(w, w, 1)
      BY <1>1, <2>2, <3>1, FrontAndTail DEF TakeLocalTask, Taken, workerFrame, TypeOK, QueueType
    <3>3. QED
      BY <3>2, TakenPlaces, TakenCounts
  <2>3. QED
    BY <2>1, <2>2
<1>2. CASE StealTask(w)
  <2> DEFINE v == (w + 1 + worker[w].at) % NumWorkers
  <2>1. v \in Workers
    BY VictimWorker DEF TypeOK
  <2>2. CASE v = w \/ queue[v] = <<>>
    <3>1. UNCHANGED <<queue, outcome, submitter, executions, queuedTasks, tasksPending>>
      BY <1>2, <2>2 DEF StealTask, workerFrame
    <3>2. \A x \in Workers : worker'[x].pc = "execute" => worker'[x] = worker[x]
      BY <1>2, <2>2 DEF StealTask, GoTo, TypeOK, WorkerType
    <3>3. QED
      BY <3>1, <3>2, PlacesStutter, CountStutter
  <2>3. CASE v # w /\ queue[v] # <<>>
    <3>1. queue[v] \in Seq(Tasks)
      BY <2>1 DEF TypeOK, QueueType
    <3>2. /\ Begin(w, Back(queue[v])) /\ worker[w].pc = "steal"
          /\ queue' = [queue EXCEPT ![v] = PopBack(@)]
          /\ UNCHANGED <<submitter, executions, tasksPending>>
      BY <1>2, <2>3 DEF StealTask, workerFrame
    <3> HIDE DEF v
    <3>3. Taken(w, v, 0)
      BY <2>1, <2>3, <3>1, <3>2, PopBackPlaces, SMTT(20) DEF Taken, TypeOK, QueueType
    <3>4. QED
      BY <2>1, <3>3, TakenPlaces, TakenCounts
  <2>4. QED
    BY <2>2, <2>3
<1>3. CASE ExecuteTask(w)
  <2> DEFINE t == worker[w].task
  <2>1. t \in Tasks /\ outcome[t] = "executing"
    BY <1>3 DEF ExecuteTask, TypeOK, WorkerType, PlacesInv, ExecutedOnce
  <2>2. /\ executions' = [executions EXCEPT ![t] = @ + 1]
        /\ outcome' = [outcome EXCEPT ![t] = "done"]
        /\ tasksPending' = tasksPending - 1
        /\ UNCHANGED <<queue, submitter, queuedTasks>>
    BY <1>3 DEF ExecuteTask, workerFrame
  <2>3. \A v \in Workers : worker'[v].pc = "execute" => worker'[v] = worker[v] /\ v # w
    BY <1>3 DEF ExecuteTask, GoTo, TypeOK, WorkerType
  <2>4. \A v \in Workers : v # w /\ worker[v].pc = "execute" => worker[v].task # t
    BY <1>3 DEF ExecuteTask, PlacesInv, ExecutedOnce
  <2> HIDE DEF t
  <2>5. PlacesInv'
    <3>1. TaskRunsOnce'
      BY <2>1, <2>2 DEF PlacesInv, TaskRunsOnce, TypeOK, HistoryType
    <3>2. QueuesBounded' /\ QueuedOnce'
      BY <2>1, <2>2 DEF PlacesInv, QueuesBounded, QueuedOnce, TypeOK, HistoryType
    <3>3. ExecutedOnce'
      BY <2>1, <2>2, <2>3, <2>4 DEF PlacesInv, ExecutedOnce, TypeOK, HistoryType
    <3>4. SubmittedOnce'
      BY <2>1, <2>2 DEF PlacesInv, SubmittedOnce, TypeOK, HistoryType
    <3>5. QED
      BY <3>1, <3>2, <3>3, <3>4 DEF PlacesInv
  <2>6. CountInv'
    <3>1. t \in PendingTasks /\ PendingTasks' = PendingTasks \ {t}
      BY <2>1, <2>2 DEF PendingTasks, TypeOK, HistoryType
    <3>2. IsFiniteSet(PendingTasks') /\ Cardinality(PendingTasks') = Cardinality(PendingTasks) - 1
      BY <3>1, FS_RemoveElement DEF CountInv
    <3>3. PendingExact'
      BY <2>2, <3>2 DEF CountInv, CountersExact, PendingExact, PendingTasks
    <3>4. QueuedSlotsExact' /\ Reserving' = Reserving
      BY <2>2 DEF CountInv, CountersExact, QueuedSlotsExact, QueuePlaces, Reserving
    <3>5. QED
      BY <3>2, <3>3, <3>4 DEF CountInv, CountersExact
  <2>7. QED
    BY <2>5, <2>6
<1>4. CASE ExecuteNotify(w) \/ CheckStop(w) \/ HasQueuedWork(w) \/ WaitForWork(w)
  <2>1. UNCHANGED <<queue, outcome, submitter, executions, queuedTasks, tasksPending>>
    BY <1>4 DEF ExecuteNotify, CheckStop, HasQueuedWork, WaitForWork, workerFrame
  <2>2. \A v \in Workers : worker'[v].pc = "execute" => worker'[v] = worker[v]
    BY <1>4 DEF ExecuteNotify, CheckStop, HasQueuedWork, WaitForWork, GoTo, TypeOK, WorkerType
  <2>3. QED
    BY <2>1, <2>2, PlacesStutter, CountStutter
<1>5. QED
  BY <1>1, <1>2, <1>3, <1>4 DEF WorkerNext

\* A call of submit brings a new task that nobody else is submitting.
LEMMA PlacesSubmitCall ==
  ASSUME TypeOK, PlacesInv, CountInv, NEW s \in Submitters, NEW t \in Tasks, SubmitCall(s, t)
  PROVE  PlacesInv' /\ CountInv'
<1>1. /\ submitter[s].pc = "out" /\ outcome[t] = "new"
      /\ \A r \in Submitters : submitter[r].task # t
      /\ UNCHANGED <<queue, executions, worker, queuedTasks, tasksPending>>
  BY DEF SubmitCall, counters
<1>2. CASE serviceRunning
  <2>1. /\ submitter' = [submitter EXCEPT ![s] = [pc |-> "enter", task |-> t, at |-> 0]]
        /\ UNCHANGED outcome
    BY <1>2 DEF SubmitCall
  <2>2. SubmittedOnce'
    BY <1>1, <2>1 DEF PlacesInv, SubmittedOnce, TypeOK, SubmitterType
  <2>3. QueuesBounded' /\ QueuedOnce' /\ ExecutedOnce' /\ TaskRunsOnce'
    BY <1>1, <2>1 DEF PlacesInv, QueuesBounded, QueuedOnce, ExecutedOnce, TaskRunsOnce
  <2>4. Reserving' = Reserving /\ PendingTasks' = PendingTasks
    BY <1>1, <2>1 DEF Reserving, PendingTasks, TypeOK, SubmitterType
  <2>5. CountInv'
    BY <1>1, <2>4 DEF CountInv, CountersExact, QueuedSlotsExact, PendingExact, Reserving,
                      PendingTasks, QueuePlaces
  <2>6. QED
    BY <2>2, <2>3, <2>5 DEF PlacesInv
<1>3. CASE ~serviceRunning
  <2>1. outcome' = [outcome EXCEPT ![t] = "rejected"] /\ UNCHANGED submitter
    BY <1>3 DEF SubmitCall
  <2>2. \A w \in Workers : \A i \in 1 .. Len(queue[w]) : queue[w][i] \in Tasks /\ queue[w][i] # t
    BY <1>1, QueuedIsTask DEF TypeOK, PlacesInv, QueuedOnce
  <2>3. QueuesBounded' /\ QueuedOnce'
    BY <1>1, <2>1, <2>2 DEF PlacesInv, QueuesBounded, QueuedOnce, TypeOK, HistoryType
  <2>4. ExecutedOnce'
    BY <1>1, <2>1 DEF PlacesInv, ExecutedOnce, TypeOK, WorkerType, HistoryType
  <2>5. SubmittedOnce'
    BY <1>1, <2>1 DEF PlacesInv, SubmittedOnce, TypeOK, SubmitterType, HistoryType
  <2>6. TaskRunsOnce'
    BY <1>1, <2>1 DEF PlacesInv, TaskRunsOnce, TypeOK, HistoryType
  <2>7. Reserving' = Reserving /\ PendingTasks' = PendingTasks
    BY <1>1, <2>1 DEF Reserving, PendingTasks, TypeOK, HistoryType
  <2>8. CountInv'
    BY <1>1, <2>7 DEF CountInv, CountersExact, QueuedSlotsExact, PendingExact, Reserving,
                      PendingTasks, QueuePlaces
  <2>9. QED
    BY <2>3, <2>4, <2>5, <2>6, <2>8 DEF PlacesInv
<1>4. QED
  BY <1>2, <1>3

\* A rejected task was in no other place.
LEMMA RejectPlaces ==
  ASSUME TypeOK, PlacesInv, NEW s \in Submitters, submitter[s].pc # "out", Reject(s),
         UNCHANGED <<queue, executions, worker>>
  PROVE  PlacesInv' /\ PendingTasks' = PendingTasks
<1> DEFINE t == submitter[s].task
<1>1. t \in Tasks /\ outcome[t] = "new"
  BY DEF TypeOK, SubmitterType, PlacesInv, SubmittedOnce
<1>2. /\ outcome' = [outcome EXCEPT ![t] = "rejected"]
      /\ submitter' = [submitter EXCEPT ![s] = [pc |-> "out", task |-> Nobody, at |-> 0]]
  BY DEF Reject, LeaveSubmit
<1>3. \A r \in Submitters : r # s /\ submitter[r].pc # "out" => submitter[r].task # t
  BY DEF PlacesInv, SubmittedOnce
<1> HIDE DEF t
<1>4. \A w \in Workers : \A i \in 1 .. Len(queue[w]) : queue[w][i] \in Tasks /\ queue[w][i] # t
  BY <1>1, QueuedIsTask DEF TypeOK, PlacesInv, QueuedOnce
<1>5. QueuesBounded' /\ QueuedOnce'
  BY <1>1, <1>2, <1>4 DEF PlacesInv, QueuesBounded, QueuedOnce, TypeOK, HistoryType
<1>6. ExecutedOnce'
  BY <1>1, <1>2 DEF PlacesInv, ExecutedOnce, TypeOK, WorkerType, HistoryType
<1>7. SubmittedOnce'
  BY <1>1, <1>2, <1>3 DEF PlacesInv, SubmittedOnce, TypeOK, SubmitterType, HistoryType
<1>8. TaskRunsOnce' /\ PendingTasks' = PendingTasks
  BY <1>1, <1>2 DEF PlacesInv, TaskRunsOnce, PendingTasks, TypeOK, HistoryType
<1>9. QED
  BY <1>5, <1>6, <1>7, <1>8 DEF PlacesInv

\* Under the mutex: rejected, or one slot more is reserved.
LEMMA PlacesSubmitEnter ==
  ASSUME TypeOK, PlacesInv, CountInv, NEW s \in Submitters, SubmitEnter(s)
  PROVE  PlacesInv' /\ CountInv'
<1>1. submitter[s].pc = "enter" /\ UNCHANGED <<queue, executions, worker, tasksPending>>
  BY DEF SubmitEnter
<1>2. CASE Closed \/ ~SlotFree
  <2>1. Reject(s) /\ UNCHANGED queuedTasks
    BY <1>2 DEF SubmitEnter
  <2>2. PlacesInv' /\ PendingTasks' = PendingTasks
    BY <1>1, <2>1, RejectPlaces
  <2>3. Reserving' = Reserving
    BY <1>1, <2>1 DEF Reject, LeaveSubmit, Reserving, TypeOK, SubmitterType
  <2>4. CountInv'
    BY <1>1, <2>1, <2>2, <2>3 DEF CountInv, CountersExact, QueuedSlotsExact, PendingExact,
                      Reserving, PendingTasks, QueuePlaces
  <2>5. QED
    BY <2>2, <2>4
<1>3. CASE ~(Closed \/ ~SlotFree)
  <2>1. /\ queuedTasks' = queuedTasks + 1 /\ SlotFree
        /\ submitter' = [submitter EXCEPT ![s].pc = "scan", ![s].at = 0]
        /\ UNCHANGED outcome
    BY <1>3 DEF SubmitEnter
  <2>2. SubmittedOnce'
    BY <1>1, <2>1 DEF PlacesInv, SubmittedOnce, TypeOK, SubmitterType
  <2>3. QueuesBounded' /\ QueuedOnce' /\ ExecutedOnce' /\ TaskRunsOnce'
    BY <1>1, <2>1 DEF PlacesInv, QueuesBounded, QueuedOnce, ExecutedOnce, TaskRunsOnce
  <2>4. Reserving' = Reserving \cup {s} /\ s \notin Reserving /\ PendingTasks' = PendingTasks
    BY <1>1, <2>1 DEF Reserving, PendingTasks, TypeOK, SubmitterType
  <2>5. IsFiniteSet(Reserving') /\ Cardinality(Reserving') = Cardinality(Reserving) + 1
    BY <2>4, FS_AddElement DEF CountInv
  <2>6. Cardinality(Reserving) \in Nat /\ Cardinality(QueuePlaces) \in Nat
    BY FS_CardinalityType, FinitePlaces DEF CountInv
  <2>7. queuedTasks = Cardinality(QueuePlaces) + Cardinality(Reserving)
    BY DEF CountInv, CountersExact, QueuedSlotsExact, Reserving
  <2>8. queuedTasks' = Cardinality(QueuePlaces') + Cardinality(Reserving')
    <3>1. QueuePlaces' = QueuePlaces
      BY <1>1 DEF QueuePlaces
    <3>2. QED
      BY <2>1, <2>5, <2>6, <2>7, <3>1
  <2>9. MaxQueuedTasksTotal # 0 => queuedTasks' <= MaxQueuedTasksTotal
    BY <2>1, <2>6, <2>7, PoolAssumption DEF SlotFree, PoolAssumption
  <2>10. QueuedSlotsExact' /\ PendingExact'
    BY <1>1, <2>4, <2>8, <2>9
       DEF QueuedSlotsExact, Reserving, CountInv, CountersExact, PendingExact, PendingTasks
  <2>11. QED
    BY <2>2, <2>3, <2>4, <2>5, <2>10 DEF PlacesInv, CountInv, CountersExact
<1>4. QED
  BY <1>2, <1>3

\* The push: the slot reserved becomes the slot of the task.
LEMMA PlacesPush ==
  ASSUME TypeOK, PlacesInv, CountInv, NEW s \in Submitters, NEW w \in Workers,
         submitter[s].pc = "scan", Len(queue[w]) < MaxQueuedTasksPerWorker,
         queue' = [queue EXCEPT ![w] = Append(@, submitter[s].task)],
         tasksPending' = tasksPending + 1,
         outcome' = [outcome EXCEPT ![submitter[s].task] = "accepted"],
         LeaveSubmit(s), UNCHANGED <<queuedTasks, worker, executions>>
  PROVE  PlacesInv' /\ CountInv'
<1> DEFINE t == submitter[s].task
           n == Len(queue[w])
<1>1. t \in Tasks /\ outcome[t] = "new"
  BY DEF TypeOK, SubmitterType, PlacesInv, SubmittedOnce
<1>2. \A r \in Submitters : r # s /\ submitter[r].pc # "out" => submitter[r].task # t
  BY DEF PlacesInv, SubmittedOnce
<1>3. /\ outcome' = [outcome EXCEPT ![t] = "accepted"]
      /\ submitter' = [submitter EXCEPT ![s] = [pc |-> "out", task |-> Nobody, at |-> 0]]
  BY DEF LeaveSubmit
<1>4. /\ n \in Nat /\ Len(queue'[w]) = n + 1 /\ queue'[w][n + 1] = t
      /\ \A i \in 1 .. n : queue'[w][i] = queue[w][i]
  <2>1. queue[w] \in Seq(Tasks) /\ queue'[w] = Append(queue[w], t)
    BY DEF TypeOK, QueueType
  <2>2. QED
    BY <1>1, <2>1, AppendProperties, LenProperties
<1>5. \A u \in Workers : u # w => queue'[u] = queue[u]
  BY DEF TypeOK, QueueType
<1>6. \A u \in Workers : /\ Len(queue[u]) \in Nat
                         /\ \A i \in 1 .. Len(queue[u]) : queue[u][i] \in Tasks /\ queue[u][i] # t
  BY <1>1, QueuedIsTask DEF TypeOK, PlacesInv, QueuedOnce
<1> HIDE DEF t, n
<1>7. \A u \in Workers : \A i \in 1 .. Len(queue'[u]) :
        \/ i \in 1 .. Len(queue[u]) /\ queue'[u][i] = queue[u][i]
        \/ u = w /\ i = n + 1 /\ queue'[u][i] = t
  BY <1>4, <1>5 DEF n
<1>8. QueuesBounded'
  BY <1>4, <1>5, PoolAssumption DEF n, PlacesInv, QueuesBounded, PoolAssumption
<1>9. QueuedOnce'
  <2>1. ASSUME NEW u \in Workers, NEW x \in Workers, NEW i \in 1 .. Len(queue'[u]),
               NEW j \in 1 .. Len(queue'[x]), queue'[u][i] = queue'[x][j]
        PROVE  u = x /\ i = j
    BY <1>6, <1>7, <2>1 DEF PlacesInv, QueuedOnce
  <2>2. ASSUME NEW u \in Workers, NEW i \in 1 .. Len(queue'[u])
        PROVE  outcome'[queue'[u][i]] = "accepted"
    BY <1>1, <1>3, <1>6, <1>7 DEF PlacesInv, QueuedOnce, TypeOK, HistoryType
  <2>3. QED
    BY <2>1, <2>2 DEF QueuedOnce
<1>10. ExecutedOnce'
  BY <1>1, <1>3 DEF PlacesInv, ExecutedOnce, TypeOK, WorkerType, HistoryType
<1>11. SubmittedOnce'
  BY <1>1, <1>2, <1>3 DEF PlacesInv, SubmittedOnce, TypeOK, SubmitterType, HistoryType
<1>12. TaskRunsOnce'
  BY <1>1, <1>3 DEF PlacesInv, TaskRunsOnce, TypeOK, HistoryType
<1>13. PendingTasks' = PendingTasks \cup {t} /\ t \notin PendingTasks
  BY <1>1, <1>3 DEF PendingTasks, TypeOK, HistoryType
<1>14. /\ IsFiniteSet(PendingTasks')
       /\ Cardinality(PendingTasks') = Cardinality(PendingTasks) + 1
  BY <1>13, FS_AddElement DEF CountInv
<1>15. Reserving' = Reserving \ {s} /\ s \in Reserving
  BY <1>3 DEF Reserving, TypeOK, SubmitterType
<1>16. IsFiniteSet(Reserving') /\ Cardinality(Reserving') = Cardinality(Reserving) - 1
  BY <1>15, FS_RemoveElement DEF CountInv
<1>17. QueuePlaces' = QueuePlaces \cup {<<w, n + 1>>} /\ <<w, n + 1>> \notin QueuePlaces
  BY <1>4, <1>5, <1>6, PoolAssumption DEF QueuePlaces, n, PoolAssumption
<1>18. Cardinality(QueuePlaces') = Cardinality(QueuePlaces) + 1
  BY <1>17, FinitePlaces, FS_AddElement
<1>19. Cardinality(Reserving) \in Nat /\ Cardinality(QueuePlaces) \in Nat
  BY FS_CardinalityType, FinitePlaces DEF CountInv
<1>20. queuedTasks' = Cardinality(QueuePlaces') + Cardinality(Reserving')
  BY <1>16, <1>18, <1>19 DEF CountInv, CountersExact, QueuedSlotsExact, Reserving
<1>21. QueuedSlotsExact'
  BY <1>20 DEF CountInv, CountersExact, QueuedSlotsExact, Reserving
<1>22. PendingExact'
  BY <1>14 DEF CountInv, CountersExact, PendingExact, PendingTasks
<1>23. QED
  BY <1>8, <1>9, <1>10, <1>11, <1>12, <1>14, <1>16, <1>21, <1>22
     DEF PlacesInv, CountInv, CountersExact

\* One queue is looked at.
LEMMA PlacesSubmitScan ==
  ASSUME TypeOK, PlacesInv, CountInv, NEW s \in Submitters, SubmitScan(s)
  PROVE  PlacesInv' /\ CountInv'
<1> DEFINE w == SubmitIndex(s)
<1>1. w \in Workers
  BY SubmitIndexWorker DEF TypeOK
<1>2. submitter[s].pc = "scan" /\ UNCHANGED <<queuedTasks, worker, executions>>
  BY DEF SubmitScan
<1>3. CASE Len(queue[w]) < MaxQueuedTasksPerWorker
  <2>1. Len(queue[w]) \in Nat
    BY <1>1, QueuedIsTask DEF TypeOK
  <2>2. /\ queue' = [queue EXCEPT ![w] = Append(@, submitter[s].task)]
        /\ tasksPending' = tasksPending + 1
        /\ outcome' = [outcome EXCEPT ![submitter[s].task] = "accepted"]
        /\ LeaveSubmit(s)
    BY <1>3, <2>1, PoolAssumption DEF SubmitScan, PoolAssumption
  <2> HIDE DEF w
  <2>3. QED
    BY <1>1, <1>2, <1>3, <2>2, PlacesPush
<1>4. CASE ~(Len(queue[w]) < MaxQueuedTasksPerWorker)
  <2>1. /\ UNCHANGED <<queue, tasksPending, outcome>>
        /\ \/ submitter' = [submitter EXCEPT ![s].at = @ + 1]
           \/ submitter' = [submitter EXCEPT ![s].pc = "release"]
    BY <1>4 DEF SubmitScan
  <2> HIDE DEF w
  <2>2. Reserving' = Reserving
    BY <1>2, <2>1 DEF Reserving, TypeOK, SubmitterType
  <2>3. SubmittedOnce'
    BY <1>2, <2>1 DEF PlacesInv, SubmittedOnce, TypeOK, SubmitterType
  <2>4. QueuesBounded' /\ QueuedOnce' /\ ExecutedOnce' /\ TaskRunsOnce'
    BY <1>2, <2>1 DEF PlacesInv, QueuesBounded, QueuedOnce, ExecutedOnce, TaskRunsOnce
  <2>5. CountInv'
    BY <1>2, <2>1, <2>2 DEF CountInv, CountersExact, QueuedSlotsExact, PendingExact, Reserving,
                            PendingTasks, QueuePlaces
  <2>6. QED
    BY <2>3, <2>4, <2>5 DEF PlacesInv
<1>5. QED
  BY <1>3, <1>4

\* The reserved slot goes back.
LEMMA PlacesSubmitRelease ==
  ASSUME TypeOK, PlacesInv, CountInv, NEW s \in Submitters, SubmitRelease(s)
  PROVE  PlacesInv' /\ CountInv'
<1>1. /\ submitter[s].pc = "release" /\ queuedTasks' = queuedTasks - 1 /\ Reject(s)
      /\ UNCHANGED <<queue, executions, worker, tasksPending>>
  BY DEF SubmitRelease
<1>2. PlacesInv' /\ PendingTasks' = PendingTasks
  BY <1>1, RejectPlaces
<1>3. Reserving' = Reserving \ {s} /\ s \in Reserving
  BY <1>1 DEF Reject, LeaveSubmit, Reserving, TypeOK, SubmitterType
<1>4. IsFiniteSet(Reserving') /\ Cardinality(Reserving') = Cardinality(Reserving) - 1
  BY <1>3, FS_RemoveElement DEF CountInv
<1>5. Cardinality(Reserving) \in Nat /\ Cardinality(QueuePlaces) \in Nat
  BY FS_CardinalityType, FinitePlaces DEF CountInv
<1>6. QueuePlaces' = QueuePlaces
  BY <1>1 DEF QueuePlaces
<1>7. queuedTasks = Cardinality(QueuePlaces) + Cardinality(Reserving)
  BY DEF CountInv, CountersExact, QueuedSlotsExact, Reserving
<1>8. queuedTasks' = Cardinality(QueuePlaces') + Cardinality(Reserving')
  BY <1>1, <1>4, <1>5, <1>6, <1>7
<1>9. MaxQueuedTasksTotal # 0 => queuedTasks' <= MaxQueuedTasksTotal
  <2>1. MaxQueuedTasksTotal # 0 => queuedTasks <= MaxQueuedTasksTotal
    BY DEF CountInv, CountersExact, QueuedSlotsExact
  <2>2. QED
    BY <1>1, <1>5, <1>7, <2>1, PoolAssumption DEF PoolAssumption
<1>10. QueuedSlotsExact' /\ PendingExact'
  BY <1>1, <1>2, <1>8, <1>9
     DEF QueuedSlotsExact, Reserving, CountInv, CountersExact, PendingExact, PendingTasks
<1>11. QED
  BY <1>2, <1>4, <1>10 DEF CountInv, CountersExact

\* cancelAll empties a queue: its tasks are no longer pending, its slots are given back.
LEMMA PlacesCancelQueue ==
  ASSUME TypeOK, PlacesInv, CountInv, CancelQueue
  PROVE  PlacesInv' /\ CountInv'
<1> DEFINE w == canceller.at
           n == Len(queue[w])
           gone == {t \in Tasks : InQueue(w, t)}
<1>1. /\ w \in Workers /\ n \in Nat /\ \A i \in 1 .. n : queue[w][i] \in Tasks
      /\ \A u \in Workers : /\ Len(queue[u]) \in Nat
                            /\ \A i \in 1 .. Len(queue[u]) : queue[u][i] \in Tasks
  BY QueuedIsTask DEF TypeOK, CallerType
<1>2. /\ queue' = [queue EXCEPT ![w] = <<>>]
      /\ tasksPending' = tasksPending - n /\ queuedTasks' = queuedTasks - n
      /\ outcome' = [t \in Tasks |-> IF t \in gone THEN "cancelled" ELSE outcome[t]]
      /\ UNCHANGED <<worker, submitter, executions>>
  BY DEF CancelQueue, cancelFrame
<1>3. gone = {queue[w][i] : i \in 1 .. n}
  BY <1>1 DEF InQueue
<1> HIDE DEF w, gone
<1>4. \A t \in gone : outcome[t] = "accepted" /\ t \in Tasks
  BY <1>1, <1>3 DEF PlacesInv, QueuedOnce
<1>5. /\ Len(queue'[w]) = 0
      /\ \A u \in Workers : u # w => queue'[u] = queue[u]
  BY <1>1, <1>2, LenProperties, EmptySeq DEF TypeOK, QueueType
<1>6. \A u \in Workers : u # w => \A i \in 1 .. Len(queue[u]) : queue[u][i] \notin gone
  BY <1>1, <1>3 DEF PlacesInv, QueuedOnce
<1> HIDE DEF n
<1>7. QueuesBounded'
  BY <1>5, PoolAssumption DEF PlacesInv, QueuesBounded, PoolAssumption
<1>8. QueuedOnce'
  <2>1. ASSUME NEW u \in Workers, NEW i \in 1 .. Len(queue'[u])
        PROVE  u # w /\ i \in 1 .. Len(queue[u]) /\ queue'[u][i] = queue[u][i]
    BY <1>5
  <2>2. ASSUME NEW u \in Workers, NEW i \in 1 .. Len(queue'[u])
        PROVE  outcome'[queue'[u][i]] = "accepted"
    BY <1>1, <1>2, <1>6, <2>1 DEF PlacesInv, QueuedOnce
  <2>3. ASSUME NEW u \in Workers, NEW x \in Workers, NEW i \in 1 .. Len(queue'[u]),
               NEW j \in 1 .. Len(queue'[x]), queue'[u][i] = queue'[x][j]
        PROVE  u = x /\ i = j
    BY <2>1, <2>3 DEF PlacesInv, QueuedOnce
  <2>4. QED
    BY <2>2, <2>3 DEF QueuedOnce
<1>9. ExecutedOnce'
  BY <1>2, <1>4 DEF PlacesInv, ExecutedOnce, TypeOK, WorkerType
<1>10. SubmittedOnce'
  BY <1>2, <1>4 DEF PlacesInv, SubmittedOnce, TypeOK, SubmitterType
<1>11. TaskRunsOnce'
  BY <1>2, <1>4 DEF PlacesInv, TaskRunsOnce
<1>12. PendingTasks' = PendingTasks \ gone /\ gone \subseteq PendingTasks
  BY <1>2, <1>4 DEF PendingTasks
<1>13. IsFiniteSet(gone) /\ Cardinality(gone) = n
  <2> DEFINE f == [i \in 1 .. n |-> queue[w][i]]
  <2>1. f \in Bijection(1 .. n, gone)
    <3>1. \A i, j \in 1 .. n : queue[w][i] = queue[w][j] => i = j
      BY <1>1 DEF PlacesInv, QueuedOnce, n
    <3>2. QED
      BY <1>3, <3>1, Zenon DEF Bijection, Injection, Surjection, IsInjective
  <2>2. ExistsBijection(1 .. n, gone)
    BY <2>1 DEF ExistsBijection
  <2>3. IsFiniteSet(1 .. n) /\ Cardinality(1 .. n) = n
    BY <1>1, FS_Interval
  <2>4. QED
    BY <2>2, <2>3, FS_Bijection
<1>14. IsFiniteSet(PendingTasks') /\ Cardinality(PendingTasks') = Cardinality(PendingTasks) - n
  <2>1. PendingTasks \cap gone = gone
    BY <1>12
  <2>2. QED
    BY <1>12, <1>13, <2>1, FS_Difference DEF CountInv
<1>15. PendingExact'
  BY <1>2, <1>14 DEF CountInv, CountersExact, PendingExact, PendingTasks
<1>16. Reserving' = Reserving
  BY <1>2 DEF Reserving
<1>17. /\ QueuePlaces' = QueuePlaces \ ({w} \X (1 .. n))
       /\ QueuePlaces \cap ({w} \X (1 .. n)) = {w} \X (1 .. n)
  <2>1. \A i \in 1 .. n : i \in 1 .. MaxQueuedTasksPerWorker
    BY <1>1, PoolAssumption DEF PlacesInv, QueuesBounded, n, PoolAssumption
  <2>2. QueuePlaces \cap ({w} \X (1 .. n)) = {w} \X (1 .. n)
    BY <1>1, <2>1 DEF QueuePlaces, n
  <2>3. QueuePlaces' = QueuePlaces \ ({w} \X (1 .. n))
    BY <1>1, <1>5 DEF QueuePlaces, n
  <2>4. QED
    BY <2>2, <2>3
<1>18. Cardinality({w} \X (1 .. n)) = n
  <2>1. IsFiniteSet(1 .. n) /\ Cardinality(1 .. n) = n
    BY <1>1, FS_Interval
  <2>2. IsFiniteSet({w}) /\ Cardinality({w}) = 1
    BY FS_Singleton
  <2>3. Cardinality({w} \X (1 .. n)) = 1 * n
    BY <2>1, <2>2, FS_Product, ZenonT(20)
  <2>4. QED
    BY <1>1, <2>3
<1>19. Cardinality(QueuePlaces') = Cardinality(QueuePlaces) - n
  <2> DEFINE places == {w} \X (1 .. n)
  <2>1. /\ QueuePlaces' = QueuePlaces \ places /\ QueuePlaces \cap places = places
        /\ Cardinality(places) = n
    BY <1>17, <1>18
  <2> HIDE DEF places
  <2>2. Cardinality(QueuePlaces \ places)
          = Cardinality(QueuePlaces) - Cardinality(QueuePlaces \cap places)
    BY FinitePlaces, FS_Difference
  <2>3. QED
    BY <2>1, <2>2
<1>20. Cardinality(Reserving) \in Nat /\ Cardinality(QueuePlaces) \in Nat
  BY FS_CardinalityType, FinitePlaces DEF CountInv
<1>21. queuedTasks = Cardinality(QueuePlaces) + Cardinality(Reserving)
  BY DEF CountInv, CountersExact, QueuedSlotsExact, Reserving
<1>22. queuedTasks' = Cardinality(QueuePlaces') + Cardinality(Reserving')
  BY <1>1, <1>2, <1>16, <1>19, <1>20, <1>21
<1>23. MaxQueuedTasksTotal # 0 => queuedTasks' <= MaxQueuedTasksTotal
  <2>1. MaxQueuedTasksTotal # 0 => queuedTasks <= MaxQueuedTasksTotal
    BY DEF CountInv, CountersExact, QueuedSlotsExact
  <2>2. QED
    BY <1>1, <1>2, <1>20, <1>21, <2>1, PoolAssumption DEF PoolAssumption
<1>24. QueuedSlotsExact'
  BY <1>22, <1>23 DEF QueuedSlotsExact, Reserving
<1>25. QED
  BY <1>7, <1>8, <1>9, <1>10, <1>11, <1>14, <1>15, <1>16, <1>24
     DEF PlacesInv, CountInv, CountersExact

\* The rest of cancelAll moves no task.
LEMMA PlacesCancel ==
  ASSUME TypeOK, PlacesInv, CountInv, CancelNext
  PROVE  PlacesInv' /\ CountInv'
<1>1. CASE CancelQueue
  BY <1>1, PlacesCancelQueue
<1>2. CASE CancelAll \/ CancelFinish \/ CancelNotify
  <2>1. UNCHANGED <<queue, outcome, submitter, executions, queuedTasks, tasksPending, worker>>
    BY <1>2 DEF CancelAll, CancelFinish, CancelNotify, cancelFrame
  <2>2. QED
    BY <2>1, PlacesStutter, CountStutter
<1>3. QED
  BY <1>1, <1>2 DEF CancelNext

\* A pool that has not been started.
LEMMA PlacesInit ==
  ASSUME Init
  PROVE  PlacesInv /\ CountInv
<1>1. \A w \in Workers : Len(queue[w]) = 0
  BY EmptySeq DEF Init
<1>2. QueuesBounded /\ QueuedOnce
  BY <1>1, PoolAssumption DEF QueuesBounded, QueuedOnce, PoolAssumption
<1>3. ExecutedOnce /\ SubmittedOnce /\ TaskRunsOnce
  BY DEF Init, ExecutedOnce, SubmittedOnce, TaskRunsOnce
<1>4. PendingTasks = {} /\ Reserving = {}
  BY DEF Init, PendingTasks, Reserving
<1>5. QueuePlaces = {}
  BY <1>1 DEF QueuePlaces
<1>6. CountersExact
  <2>1. Cardinality(PendingTasks) = 0 /\ Cardinality(Reserving) = 0 /\ Cardinality(QueuePlaces) = 0
    BY <1>4, <1>5, FS_EmptySet
  <2>2. queuedTasks = 0 /\ tasksPending = 0
    BY DEF Init
  <2>3. QueuedSlotsExact
    BY <2>1, <2>2, PoolAssumption DEF QueuedSlotsExact, Reserving, PoolAssumption
  <2>4. PendingExact
    BY <2>1, <2>2 DEF PendingExact, PendingTasks
  <2>5. QED
    BY <2>3, <2>4 DEF CountersExact
<1>7. QED
  BY <1>2, <1>3, <1>4, <1>6, FS_EmptySet DEF PlacesInv, CountInv

\* Every step of a pool keeps each task in one place, and counted.
LEMMA PlacesNext ==
  ASSUME TypeOK, PlacesInv, CountInv, [Next]_vars
  PROVE  PlacesInv' /\ CountInv'
<1>1. CASE UNCHANGED vars
  <2>1. UNCHANGED <<queue, outcome, submitter, executions, queuedTasks, tasksPending, worker>>
    BY <1>1 DEF vars, counters
  <2>2. QED
    BY <2>1, PlacesStutter, CountStutter
<1>2. ASSUME NEW s \in Submitters, SubmitNext(s) PROVE PlacesInv' /\ CountInv'
  BY <1>2, PlacesSubmitCall, PlacesSubmitEnter, PlacesSubmitScan, PlacesSubmitRelease
     DEF SubmitNext
<1>3. QED
  BY <1>1, <1>2, PlacesOwner, PlacesWorker, PlacesCancel, PlacesWait DEF Next

\* It holds always.
LEMMA PlacesAlways == Spec => [](PlacesInv /\ CountInv)
BY PlacesInit, PlacesNext, PoolTypeCorrect, PTL DEF Spec

\* A task that finished ran once, one that was rejected or cancelled never, however local
\* takes, steals and cancellation meet at the deques (BackgroundThreadPool.hpp
\* takeLocalTask, stealTask, executeTask, cancelAll).
THEOREM EachTaskRunsOnce == Spec => []TaskRunsOnce
<1>1. PlacesInv => TaskRunsOnce
  BY DEF PlacesInv
<1>2. QED
  BY <1>1, PlacesAlways, PTL

\* The slot counter behind the total cap and the pending counter behind waitUntilIdle are
\* exact in every state, and neither goes below zero (BackgroundThreadPool.hpp
\* reserveQueuedSlot, releaseQueuedSlots, waitUntilIdle).
THEOREM CountersStayExact == Spec => []CountersExact
<1>1. CountInv => CountersExact
  BY DEF CountInv
<1>2. QED
  BY <1>1, PlacesAlways, PTL
=============================================================================
