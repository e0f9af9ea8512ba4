\* Two workers, queues of one task, three slots in all: both ways of rejecting a
\* task, a steal, a restart after a shutdown and a cancellation that meets them.
CONSTANTS
  t1 = t1
  t2 = t2
  t3 = t3
  t4 = t4
  s1 = s1
  s2 = s2
  u1 = u1
  nobody = nobody
  NumWorkers = 2
  MaxQueuedTasksPerWorker = 1
  MaxQueuedTasksTotal = 3
  Tasks <- FourTasks
  Submitters <- TwoSubmitters
  Waiters <- OneWaiter
  Nobody = nobody
  MaxStarts = 2
  MaxCancels = 1
  MaxWaits = 1
SPECIFICATION Spec
SYMMETRY Symmetry
INVARIANT CountersExact
INVARIANT TaskRunsOnce
INVARIANT NoTaskStranded
CHECK_DEADLOCK FALSE
