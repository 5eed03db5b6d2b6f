SPECIFICATION Spec
CONSTANTS
  w1 = w1
  w2 = w2
  t1 = t1
  t2 = t2
  Workers = {w1, w2}
  Tasks = {t1, t2}
  NoWorker = NoWorker
  Joined = {w1, w2}
  Capacity <- UnitCapacity
  MaxQueued = 2
  MaxAttempts = 3
SYMMETRY Symmetry
CONSTRAINT RetriesOrContention
INVARIANTS OneExecution RowsConsistent QueuedIsLeasable ChargedExactlyOnce
  CapacityRespected MaintenanceExcludesExecution
PROPERTIES FinishedTasksStay
