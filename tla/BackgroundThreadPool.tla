------------------------ MODULE BackgroundThreadPool ------------------------
(***************************************************************************)
(* machine/BackgroundThreadPool.hpp behind machine/BackgroundTaskService.hpp:*)
(* a bounded pool of work-stealing workers.                                *)
(*                                                                         *)
(* Threads: the workers (workerLoop), the submitters (submit), one owner   *)
(* (start, shutdown), one canceller (cancelAll) and the idle waiters       *)
(* (waitUntilIdle).  A section under a worker's queue mutex or under       *)
(* idleMutex_ is one step; lifecycleMutex_, which submit holds across      *)
(* several queue sections, is the variable lifecycleMutex.  The condition  *)
(* variable of a worker only shortens a wait of 1 ms, so a waiting worker  *)
(* may look again at any time.                                             *)
(*                                                                         *)
(* Left out: what a task computes, whether it throws (executeTask treats   *)
(* both alike), times and high-water marks.                                *)
(***************************************************************************)
EXTENDS Integers, Sequences, FiniteSets

CONSTANTS
  NumWorkers,              \* threadCount_
  MaxQueuedTasksPerWorker, \* maxQueuedTasksPerWorker_
  MaxQueuedTasksTotal,     \* maxQueuedTasksTotal_, 0 = no cap
  Tasks,                   \* the tasks ever submitted, each one once
  Submitters,              \* threads that call submit
  Waiters,                 \* threads that call waitUntilIdle
  Nobody,                  \* no holder of lifecycleMutex_, no task at hand
  MaxStarts,               \* bound: calls of start that start the pool
  MaxCancels,              \* bound: calls of cancelAll
  MaxWaits                 \* bound: calls of waitUntilIdle

ASSUME PoolAssumption ==
  /\ NumWorkers \in Nat \ {0}
  /\ MaxQueuedTasksPerWorker \in Nat \ {0}
  /\ MaxQueuedTasksTotal \in Nat
  /\ MaxStarts \in Nat /\ MaxCancels \in Nat /\ MaxWaits \in Nat
  /\ Nobody \notin Tasks
  /\ Nobody \notin Submitters

Workers == 0 .. NumWorkers - 1

VARIABLES
  serviceRunning,   \* BackgroundTaskService::running_
  running,          \* running_
  stopRequested,    \* stopRequested_
  lifecycleMutex,   \* the submitter inside lifecycleMutex_, or Nobody
  queue,            \* WorkerState::queue of each worker
  queuedTasks,      \* queuedTasks_: slots reserved against the total cap
  roundRobin,       \* roundRobin_ modulo the number of workers
  tasksSubmitted, tasksCompleted, tasksPending, tasksRejected,
  cancelled,        \* cancelled_
  worker,           \* [pc, task, at]: where each worker thread is
  submitter,        \* [pc, task, at]: where each submitting thread is
  owner,            \* where the thread in start or shutdown is
  canceller,        \* [pc, at, count]: where the thread in cancelAll is
  waiter,           \* where each thread in waitUntilIdle is
  outcome,          \* history: what became of each task
  executions,       \* history: how often each task was run
  starts, cancels, waits \* history: calls made, for the bounds

counters == <<tasksSubmitted, tasksCompleted, tasksPending, tasksRejected, cancelled>>
flags    == <<serviceRunning, running, stopRequested>>
bounds   == <<starts, cancels, waits>>
vars == <<flags, lifecycleMutex, queue, queuedTasks, roundRobin, counters, worker,
          submitter, owner, canceller, waiter, outcome, executions, bounds>>

WorkerPC    == {"none", "take", "steal", "execute", "notify", "checkStop", "scan",
                "wait", "exited"}
SubmitterPC == {"out", "enter", "scan", "release"}
OwnerPC     == {"out", "starting", "joining", "stopping"}
CancellerPC == {"out", "cancel", "finish", "notify"}
WaiterPC    == {"out", "asleep", "woken"}
Outcome     == {"new", "accepted", "rejected", "executing", "done", "cancelled"}

Init ==
  /\ serviceRunning = FALSE /\ running = FALSE /\ stopRequested = FALSE
  /\ lifecycleMutex = Nobody
  /\ queue = [w \in Workers |-> <<>>]
  /\ queuedTasks = 0 /\ roundRobin = 0
  /\ tasksSubmitted = 0 /\ tasksCompleted = 0 /\ tasksPending = 0
  /\ tasksRejected = 0 /\ cancelled = 0
  /\ worker = [w \in Workers |-> [pc |-> "none", task |-> Nobody, at |-> 0]]
  /\ submitter = [s \in Submitters |-> [pc |-> "out", task |-> Nobody, at |-> 0]]
  /\ owner = "out"
  /\ canceller = [pc |-> "out", at |-> 0, count |-> 0]
  /\ waiter = [u \in Waiters |-> "out"]
  /\ outcome = [t \in Tasks |-> "new"]
  /\ executions = [t \in Tasks |-> 0]
  /\ starts = 0 /\ cancels = 0 /\ waits = 0

-----------------------------------------------------------------------------
(* start and shutdown, called by the owner through BackgroundTaskService. *)

\* start: cancelled_ is reset, the other counters are not.
Start ==
  /\ owner = "out" /\ lifecycleMutex = Nobody /\ ~running /\ starts < MaxStarts
  /\ stopRequested' = FALSE /\ cancelled' = 0 /\ running' = TRUE
  /\ worker' = [w \in Workers |-> [pc |-> "take", task |-> Nobody, at |-> 0]]
  /\ owner' = "starting" /\ starts' = starts + 1
  /\ UNCHANGED <<serviceRunning, lifecycleMutex, queue, queuedTasks, roundRobin,
                 tasksSubmitted, tasksCompleted, tasksPending, tasksRejected,
                 submitter, canceller, waiter, outcome, executions, cancels, waits>>

\* BackgroundTaskService::start raises its own flag after the pool runs.
StartReturn ==
  /\ owner = "starting"
  /\ owner' = "out" /\ serviceRunning' = TRUE
  /\ UNCHANGED <<running, stopRequested, lifecycleMutex, queue, queuedTasks, roundRobin,
                 counters, worker, submitter, canceller, waiter, outcome, executions,
                 bounds>>

ShutdownRequest ==
  /\ owner = "out" /\ lifecycleMutex = Nobody /\ running
  /\ stopRequested' = TRUE /\ owner' = "joining"
  /\ UNCHANGED <<serviceRunning, running, lifecycleMutex, queue, queuedTasks, roundRobin,
                 counters, worker, submitter, canceller, waiter, outcome, executions,
                 bounds>>

\* Every worker has been joined; running_ falls under lifecycleMutex_.
ShutdownJoined ==
  /\ owner = "joining" /\ lifecycleMutex = Nobody
  /\ \A w \in Workers : worker[w].pc = "exited"
  /\ running' = FALSE /\ owner' = "stopping"
  /\ worker' = [w \in Workers |-> [pc |-> "none", task |-> Nobody, at |-> 0]]
  /\ UNCHANGED <<serviceRunning, stopRequested, lifecycleMutex, queue, queuedTasks,
                 roundRobin, counters, submitter, canceller, waiter, outcome, executions,
                 bounds>>

ShutdownReturn ==
  /\ owner = "stopping"
  /\ owner' = "out" /\ serviceRunning' = FALSE
  /\ UNCHANGED <<running, stopRequested, lifecycleMutex, queue, queuedTasks, roundRobin,
                 counters, worker, submitter, canceller, waiter, outcome, executions,
                 bounds>>

-----------------------------------------------------------------------------
(* submit *)

\* BackgroundTaskService::submit: turned away by the service, or on to the pool.
SubmitCall(s, t) ==
  /\ submitter[s].pc = "out" /\ outcome[t] = "new"
  /\ \A r \in Submitters : submitter[r].task # t
  /\ IF serviceRunning
     THEN /\ submitter' = [submitter EXCEPT ![s] = [pc |-> "enter", task |-> t, at |-> 0]]
          /\ UNCHANGED outcome
     ELSE /\ outcome' = [outcome EXCEPT ![t] = "rejected"]
          /\ UNCHANGED submitter
  /\ UNCHANGED <<flags, lifecycleMutex, queue, queuedTasks, roundRobin, counters, worker,
                 owner, canceller, waiter, executions, bounds>>

LeaveSubmit(s) == submitter' = [submitter EXCEPT ![s] = [pc |-> "out", task |-> Nobody, at |-> 0]]

Reject(s) ==
  /\ tasksRejected' = tasksRejected + 1
  /\ outcome' = [outcome EXCEPT ![submitter[s].task] = "rejected"]
  /\ LeaveSubmit(s)

Closed == ~running \/ stopRequested

\* reserveQueuedSlot succeeds.
SlotFree == MaxQueuedTasksTotal = 0 \/ queuedTasks < MaxQueuedTasksTotal

\* Mutant: the mutex is not held over the push, so a shutdown can pass in between.
SubmitEnter_DropsMutex(s) ==
  /\ submitter[s].pc = "enter" /\ lifecycleMutex = Nobody
  /\ IF Closed \/ ~SlotFree
     THEN Reject(s) /\ UNCHANGED <<queuedTasks, roundRobin>>
     ELSE /\ queuedTasks' = queuedTasks + 1
          /\ roundRobin' = (roundRobin + 1) % NumWorkers
          /\ submitter' = [submitter EXCEPT ![s].pc = "scan", ![s].at = 0]
          /\ UNCHANGED <<outcome, tasksRejected>>
  /\ UNCHANGED <<flags, lifecycleMutex, queue, tasksSubmitted, tasksCompleted,
                 tasksPending, cancelled, worker, owner, canceller, waiter, executions,
                 bounds>>

\* Under lifecycleMutex_: rejected, or a slot is reserved and the mutex stays held.
SubmitEnter(s) ==
  /\ submitter[s].pc = "enter" /\ lifecycleMutex = Nobody
  /\ IF Closed \/ ~SlotFree
     THEN /\ Reject(s)
          /\ UNCHANGED <<lifecycleMutex, queuedTasks, roundRobin>>
     ELSE /\ queuedTasks' = queuedTasks + 1
          /\ roundRobin' = (roundRobin + 1) % NumWorkers
          /\ lifecycleMutex' = s
          /\ submitter' = [submitter EXCEPT ![s].pc = "scan", ![s].at = 0]
          /\ UNCHANGED <<outcome, tasksRejected>>
  /\ UNCHANGED <<flags, queue, tasksSubmitted, tasksCompleted, tasksPending, cancelled,
                 worker, owner, canceller, waiter, executions, bounds>>

\* The worker looked at: rr + offset, rr being the value before the increment.
SubmitIndex(s) == (roundRobin + NumWorkers - 1 + submitter[s].at) % NumWorkers

\* One queue is looked at under its mutex: pushed there, or on to the next one.
SubmitScan(s) ==
  LET w == SubmitIndex(s) IN
  /\ submitter[s].pc = "scan"
  /\ \/ /\ Len(queue[w]) < MaxQueuedTasksPerWorker
        /\ queue' = [queue EXCEPT ![w] = Append(@, submitter[s].task)]
        /\ tasksSubmitted' = tasksSubmitted + 1
        /\ tasksPending' = tasksPending + 1
        /\ outcome' = [outcome EXCEPT ![submitter[s].task] = "accepted"]
        /\ lifecycleMutex' = Nobody
        /\ LeaveSubmit(s)
     \/ /\ Len(queue[w]) >= MaxQueuedTasksPerWorker
        /\ submitter[s].at < NumWorkers - 1
        /\ submitter' = [submitter EXCEPT ![s].at = @ + 1]
        /\ UNCHANGED <<queue, tasksSubmitted, tasksPending, outcome, lifecycleMutex>>
     \/ /\ Len(queue[w]) >= MaxQueuedTasksPerWorker
        /\ submitter[s].at = NumWorkers - 1
        /\ submitter' = [submitter EXCEPT ![s].pc = "release"]
        /\ lifecycleMutex' = Nobody
        /\ UNCHANGED <<queue, tasksSubmitted, tasksPending, outcome>>
  /\ UNCHANGED <<flags, queuedTasks, roundRobin, tasksCompleted, tasksRejected, cancelled,
                 worker, owner, canceller, waiter, executions, bounds>>

\* Mutant: the reserved slot is kept when every queue was full.
SubmitRelease_KeepsSlot(s) ==
  /\ submitter[s].pc = "release"
  /\ Reject(s)
  /\ UNCHANGED <<flags, lifecycleMutex, queue, queuedTasks, roundRobin, tasksSubmitted,
                 tasksCompleted, tasksPending, cancelled, worker, owner, canceller, waiter,
                 executions, bounds>>

\* Every queue was full: the reserved slot goes back.
SubmitRelease(s) ==
  /\ submitter[s].pc = "release"
  /\ queuedTasks' = queuedTasks - 1
  /\ Reject(s)
  /\ UNCHANGED <<flags, lifecycleMutex, queue, roundRobin, tasksSubmitted, tasksCompleted,
                 tasksPending, cancelled, worker, owner, canceller, waiter, executions,
                 bounds>>

-----------------------------------------------------------------------------
(* workerLoop *)

GoTo(w, pc, at) == worker' = [worker EXCEPT ![w] = [pc |-> pc, task |-> Nobody, at |-> at]]

Begin(w, t) ==
  /\ worker' = [worker EXCEPT ![w] = [pc |-> "execute", task |-> t, at |-> 0]]
  /\ outcome' = [outcome EXCEPT ![t] = "executing"]
  /\ queuedTasks' = queuedTasks - 1

workerFrame == <<flags, lifecycleMutex, roundRobin, tasksSubmitted, tasksRejected,
                 cancelled, submitter, owner, canceller, bounds>>

\* takeLocalTask: the front of the worker's own queue.
TakeLocalTask(w) ==
  /\ worker[w].pc = "take"
  /\ IF queue[w] = <<>>
     THEN GoTo(w, "steal", 0) /\ UNCHANGED <<queue, queuedTasks, outcome>>
     ELSE /\ Begin(w, Head(queue[w]))
          /\ queue' = [queue EXCEPT ![w] = Tail(@)]
  /\ UNCHANGED <<workerFrame, tasksCompleted, tasksPending, waiter, executions>>

Back(q) == q[Len(q)]
PopBack(q) == SubSeq(q, 1, Len(q) - 1)

\* Mutant: a steal copies the task without removing it.
StealTask_LeavesTask(w) ==
  LET victim == (w + 1 + worker[w].at) % NumWorkers IN
  /\ worker[w].pc = "steal"
  /\ IF victim = w \/ queue[victim] = <<>>
     THEN /\ IF worker[w].at < NumWorkers - 1
             THEN GoTo(w, "steal", worker[w].at + 1)
             ELSE GoTo(w, "checkStop", 0)
          /\ UNCHANGED <<queuedTasks, outcome>>
     ELSE Begin(w, Back(queue[victim]))
  /\ UNCHANGED <<workerFrame, queue, tasksCompleted, tasksPending, waiter, executions>>

\* stealTask: the back of each other queue in turn, starting with the next worker.
StealTask(w) ==
  LET victim == (w + 1 + worker[w].at) % NumWorkers IN
  /\ worker[w].pc = "steal"
  /\ IF victim = w \/ queue[victim] = <<>>
     THEN /\ IF worker[w].at < NumWorkers - 1
             THEN GoTo(w, "steal", worker[w].at + 1)
             ELSE GoTo(w, "checkStop", 0)
          /\ UNCHANGED <<queue, queuedTasks, outcome>>
     ELSE /\ Begin(w, Back(queue[victim]))
          /\ queue' = [queue EXCEPT ![victim] = PopBack(@)]
  /\ UNCHANGED <<workerFrame, tasksCompleted, tasksPending, waiter, executions>>

\* Mutant: fetch_sub's result is taken for the new value instead of the old one.
ExecuteTask_NewValue(w) ==
  /\ worker[w].pc = "execute"
  /\ executions' = [executions EXCEPT ![worker[w].task] = @ + 1]
  /\ outcome' = [outcome EXCEPT ![worker[w].task] = "done"]
  /\ tasksCompleted' = tasksCompleted + 1
  /\ tasksPending' = tasksPending - 1
  /\ GoTo(w, IF tasksPending = 0 THEN "notify" ELSE "take", 0)
  /\ UNCHANGED <<workerFrame, queue, queuedTasks, waiter>>

\* executeTask: tasksPending_ falls last; the step to zero owes a notification.
ExecuteTask(w) ==
  /\ worker[w].pc = "execute"
  /\ executions' = [executions EXCEPT ![worker[w].task] = @ + 1]
  /\ outcome' = [outcome EXCEPT ![worker[w].task] = "done"]
  /\ tasksCompleted' = tasksCompleted + 1
  /\ tasksPending' = tasksPending - 1
  /\ GoTo(w, IF tasksPending = 1 THEN "notify" ELSE "take", 0)
  /\ UNCHANGED <<workerFrame, queue, queuedTasks, waiter>>

\* idleCv_.notify_all() under idleMutex_.
NotifyIdle == waiter' = [u \in Waiters |-> IF waiter[u] = "asleep" THEN "woken" ELSE waiter[u]]

ExecuteNotify(w) ==
  /\ worker[w].pc = "notify"
  /\ NotifyIdle
  /\ GoTo(w, "take", 0)
  /\ UNCHANGED <<workerFrame, queue, queuedTasks, tasksCompleted, tasksPending, outcome,
                 executions>>

\* Mutant: a stop request ends the loop whatever is queued.
CheckStop_NoDrain(w) ==
  /\ worker[w].pc = "checkStop"
  /\ GoTo(w, IF stopRequested THEN "exited" ELSE "wait", 0)
  /\ UNCHANGED <<workerFrame, queue, queuedTasks, tasksCompleted, tasksPending, waiter,
                 outcome, executions>>

\* Mutant: the stop request is only looked at by the wait's predicate.
CheckStop_Ignored(w) ==
  /\ worker[w].pc = "checkStop"
  /\ GoTo(w, "wait", 0)
  /\ UNCHANGED <<workerFrame, queue, queuedTasks, tasksCompleted, tasksPending, waiter,
                 outcome, executions>>

CheckStop(w) ==
  /\ worker[w].pc = "checkStop"
  /\ GoTo(w, IF stopRequested THEN "scan" ELSE "wait", 0)
  /\ UNCHANGED <<workerFrame, queue, queuedTasks, tasksCompleted, tasksPending, waiter,
                 outcome, executions>>

\* Mutant: the scan runs one past the last queue.
HasQueuedWork_PastEnd(w) ==
  /\ worker[w].pc = "scan"
  /\ IF queue[worker[w].at] # <<>> THEN GoTo(w, "wait", 0)
     ELSE IF worker[w].at <= NumWorkers - 1 THEN GoTo(w, "scan", worker[w].at + 1)
     ELSE GoTo(w, "exited", 0)
  /\ UNCHANGED <<workerFrame, queue, queuedTasks, tasksCompleted, tasksPending, waiter,
                 outcome, executions>>

\* hasQueuedWork, one queue at a time; a worker that finds all of them empty exits.
HasQueuedWork(w) ==
  /\ worker[w].pc = "scan"
  /\ IF queue[worker[w].at] # <<>> THEN GoTo(w, "wait", 0)
     ELSE IF worker[w].at < NumWorkers - 1 THEN GoTo(w, "scan", worker[w].at + 1)
     ELSE GoTo(w, "exited", 0)
  /\ UNCHANGED <<workerFrame, queue, queuedTasks, tasksCompleted, tasksPending, waiter,
                 outcome, executions>>

\* cv.wait_for returns: notified, or after 1 ms.
WaitForWork(w) ==
  /\ worker[w].pc = "wait"
  /\ GoTo(w, "take", 0)
  /\ UNCHANGED <<workerFrame, queue, queuedTasks, tasksCompleted, tasksPending, waiter,
                 outcome, executions>>

-----------------------------------------------------------------------------
(* cancelAll *)

cancelFrame == <<flags, lifecycleMutex, roundRobin, tasksSubmitted, tasksCompleted,
                 tasksRejected, worker, submitter, owner, executions, starts, waits>>

CancelAll ==
  /\ canceller.pc = "out" /\ cancels < MaxCancels
  /\ cancels' = cancels + 1
  /\ canceller' = [pc |-> "cancel", at |-> 0, count |-> 0]
  /\ UNCHANGED <<cancelFrame, queue, queuedTasks, tasksPending, cancelled, waiter, outcome>>

InQueue(w, t) == \E i \in 1 .. Len(queue[w]) : queue[w][i] = t

\* Mutant: a cancelled queue stays pending.
CancelQueue_StaysPending ==
  LET w == canceller.at
      n == Len(queue[w])
  IN
  /\ canceller.pc = "cancel"
  /\ queue' = [queue EXCEPT ![w] = <<>>]
  /\ queuedTasks' = queuedTasks - n
  /\ outcome' = [t \in Tasks |-> IF InQueue(w, t) THEN "cancelled" ELSE outcome[t]]
  /\ canceller' = [pc |-> IF w < NumWorkers - 1 THEN "cancel" ELSE "finish",
                   at |-> IF w < NumWorkers - 1 THEN w + 1 ELSE 0,
                   count |-> canceller.count + n]
  /\ UNCHANGED <<cancelFrame, tasksPending, cancelled, waiter, cancels>>

\* One queue is emptied under its mutex.
CancelQueue ==
  LET w == canceller.at
      n == Len(queue[w])
  IN
  /\ canceller.pc = "cancel"
  /\ queue' = [queue EXCEPT ![w] = <<>>]
  /\ tasksPending' = tasksPending - n
  /\ queuedTasks' = queuedTasks - n
  /\ outcome' = [t \in Tasks |-> IF InQueue(w, t) THEN "cancelled" ELSE outcome[t]]
  /\ canceller' = [pc |-> IF w < NumWorkers - 1 THEN "cancel" ELSE "finish",
                   at |-> IF w < NumWorkers - 1 THEN w + 1 ELSE 0,
                   count |-> canceller.count + n]
  /\ UNCHANGED <<cancelFrame, cancelled, waiter, cancels>>

\* Mutant: nobody is told that cancelling made the pool idle.
CancelFinish_NoNotify ==
  /\ canceller.pc = "finish"
  /\ cancelled' = cancelled + canceller.count
  /\ canceller' = [pc |-> "out", at |-> 0, count |-> 0]
  /\ UNCHANGED <<cancelFrame, queue, queuedTasks, tasksPending, waiter, outcome, cancels>>

CancelFinish ==
  /\ canceller.pc = "finish"
  /\ cancelled' = cancelled + canceller.count
  /\ canceller' = [pc |-> IF canceller.count > 0 /\ tasksPending = 0 THEN "notify" ELSE "out",
                   at |-> 0, count |-> 0]
  /\ UNCHANGED <<cancelFrame, queue, queuedTasks, tasksPending, waiter, outcome, cancels>>

CancelNotify ==
  /\ canceller.pc = "notify"
  /\ NotifyIdle
  /\ canceller' = [pc |-> "out", at |-> 0, count |-> 0]
  /\ UNCHANGED <<cancelFrame, queue, queuedTasks, tasksPending, cancelled, outcome, cancels>>

-----------------------------------------------------------------------------
(* waitUntilIdle: the predicate is evaluated under idleMutex_. *)

waitFrame == <<flags, lifecycleMutex, queue, queuedTasks, roundRobin, counters, worker,
               submitter, owner, canceller, outcome, executions, starts, cancels>>

IdleOrSleep(u) == waiter' = [waiter EXCEPT ![u] = IF tasksPending = 0 THEN "out" ELSE "asleep"]

WaitUntilIdle(u) ==
  /\ waiter[u] = "out" /\ waits < MaxWaits
  /\ waits' = waits + 1
  /\ IdleOrSleep(u)
  /\ UNCHANGED waitFrame

\* Notified: the predicate decides whether the wait goes on.
WaitWake(u) ==
  /\ waiter[u] = "woken"
  /\ IdleOrSleep(u)
  /\ UNCHANGED <<waitFrame, waits>>

\* The deadline passes; the caller is told what the predicate says.
WaitTimeout(u) ==
  /\ waiter[u] = "asleep"
  /\ waiter' = [waiter EXCEPT ![u] = "out"]
  /\ UNCHANGED <<waitFrame, waits>>

-----------------------------------------------------------------------------
OwnerNext     == Start \/ StartReturn \/ ShutdownRequest \/ ShutdownJoined \/ ShutdownReturn
SubmitNext(s) == (\E t \in Tasks : SubmitCall(s, t)) \/ SubmitEnter(s) \/ SubmitScan(s)
                 \/ SubmitRelease(s)
WorkerNext(w) == \/ TakeLocalTask(w) \/ StealTask(w) \/ ExecuteTask(w) \/ ExecuteNotify(w)
                 \/ CheckStop(w) \/ HasQueuedWork(w) \/ WaitForWork(w)
CancelNext    == CancelAll \/ CancelQueue \/ CancelFinish \/ CancelNotify
WaitNext(u)   == WaitUntilIdle(u) \/ WaitWake(u) \/ WaitTimeout(u)

Next ==
  \/ OwnerNext
  \/ \E s \in Submitters : SubmitNext(s)
  \/ \E w \in Workers : WorkerNext(w)
  \/ CancelNext
  \/ \E u \in Waiters : WaitNext(u)

Spec == Init /\ [][Next]_vars

(* Threads run: each call that has begun goes on.  No call is ever made by   *)
(* fairness, no deadline passes by fairness, and tasks return.               *)
Fairness ==
  /\ \A w \in Workers : WF_vars(WorkerNext(w))
  /\ \A s \in Submitters : WF_vars(SubmitEnter(s) \/ SubmitScan(s) \/ SubmitRelease(s))
  /\ WF_vars(StartReturn \/ ShutdownJoined \/ ShutdownReturn)
  /\ WF_vars(CancelQueue \/ CancelFinish \/ CancelNotify)
  /\ \A u \in Waiters : WF_vars(WaitWake(u))

FairSpec == Spec /\ Fairness

-----------------------------------------------------------------------------
(* Properties *)

ControlType ==
  /\ serviceRunning \in BOOLEAN /\ running \in BOOLEAN /\ stopRequested \in BOOLEAN
  /\ lifecycleMutex \in Submitters \cup {Nobody}
  /\ owner \in OwnerPC
QueueType == queue \in [Workers -> Seq(Tasks)]
CounterType ==
  /\ queuedTasks \in Int /\ tasksPending \in Int
  /\ tasksSubmitted \in Nat /\ tasksCompleted \in Nat /\ tasksRejected \in Nat
  /\ cancelled \in Nat
WorkerType ==
  /\ worker \in [Workers -> [pc : WorkerPC, task : Tasks \cup {Nobody}, at : Workers]]
  /\ \A w \in Workers : worker[w].pc = "execute" => worker[w].task \in Tasks
SubmitterType ==
  /\ roundRobin \in Workers
  /\ submitter \in [Submitters -> [pc : SubmitterPC, task : Tasks \cup {Nobody}, at : Workers]]
  /\ \A s \in Submitters : submitter[s].pc # "out" => submitter[s].task \in Tasks
CallerType ==
  /\ canceller \in [pc : CancellerPC, at : Workers, count : Nat]
  /\ waiter \in [Waiters -> WaiterPC]
HistoryType ==
  /\ outcome \in [Tasks -> Outcome] /\ executions \in [Tasks -> Nat]
  /\ starts \in Nat /\ cancels \in Nat /\ waits \in Nat

\* Every variable keeps the range its C++ type and its use give it; in particular
\* every index into the workers stays in range and a thread that runs or submits a
\* task has one.
TypeOK == /\ ControlType /\ QueueType /\ CounterType /\ WorkerType
          /\ SubmitterType /\ CallerType /\ HistoryType

QueuePlaces == {p \in Workers \X (1 .. MaxQueuedTasksPerWorker) : p[2] <= Len(queue[p[1]])}

\* The slot counter that enforces the total cap (reserveQueuedSlot,
\* releaseQueuedSlots) is exact: one slot per queued task and one per submission
\* between its reservation and its push or release.  It never wraps below zero
\* and the queues never hold more than the cap.
QueuedSlotsExact ==
  /\ queuedTasks = Cardinality(QueuePlaces)
                   + Cardinality({s \in Submitters : submitter[s].pc \in {"scan", "release"}})
  /\ MaxQueuedTasksTotal # 0 => queuedTasks <= MaxQueuedTasksTotal

\* tasksPending_, the only thing waitUntilIdle looks at, counts the tasks that
\* were accepted and have neither finished nor been cancelled: it is zero exactly
\* when none is left, and the unsigned counter never wraps.
PendingExact ==
  tasksPending = Cardinality({t \in Tasks : outcome[t] \in {"accepted", "executing"}})

\* Both counters, which submit, take, steal, cancel and the end of a task update
\* in different steps and under different locks.
CountersExact == QueuedSlotsExact /\ PendingExact

\* Local takes, steals and cancellation compete for the same deques, yet a task
\* runs once if it finished and never if it was rejected or cancelled.
TaskRunsOnce ==
  \A t \in Tasks : executions[t] = IF outcome[t] = "done" THEN 1 ELSE 0

\* A task submit accepted is not left in a queue by shutdown: a worker exits only
\* once a stop was requested and it found every queue empty, and nothing is pushed
\* after a stop request.
NoTaskStranded ==
  (\E w \in Workers : worker[w].pc = "exited") => \A w \in Workers : queue[w] = <<>>

\* Why no task is stranded: a submitter between its check and its push holds
\* lifecycleMutex_, under which no stop can be requested; only after a stop request
\* does a worker scan the queues, and those it has passed stay empty.
DrainInv ==
  /\ \A s \in Submitters : submitter[s].pc = "scan" => lifecycleMutex = s
  /\ lifecycleMutex # Nobody => ~stopRequested
  /\ \A w \in Workers : worker[w].pc \in {"scan", "exited"} => stopRequested
  /\ \A w, v \in Workers : worker[w].pc = "scan" /\ v < worker[w].at => queue[v] = <<>>
  /\ \A w, v \in Workers : worker[w].pc = "exited" => queue[v] = <<>>

\* waitUntilIdle misses no wakeup: while a thread sleeps in it and nothing is
\* pending, a worker or cancelAll is on its way to notify it.
NoLostIdleWakeup ==
  (tasksPending = 0 /\ \E u \in Waiters : waiter[u] = "asleep") =>
    \/ \E w \in Workers : worker[w].pc = "notify"
    \/ canceller.pc = "notify"
    \/ canceller.pc \in {"cancel", "finish"} /\ canceller.count > 0

\* Every accepted task is run or cancelled in the end.
AcceptedTaskFinishes ==
  \A t \in Tasks : outcome[t] = "accepted" ~> outcome[t] \in {"done", "cancelled"}

\* shutdown returns although it joins the workers without holding a lock.
ShutdownReturns == owner = "joining" ~> owner = "out"

\* Once nothing is pending for good, a thread in waitUntilIdle comes back without
\* the help of its timeout.
IdleWaiterReturns ==
  \A u \in Waiters : []<>(waiter[u] = "out" \/ tasksPending # 0)
=============================================================================
