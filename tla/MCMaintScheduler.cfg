SPECIFICATION MCFairSpec
CONSTANTS
  w1 = w1
  t1 = t1
  i1 = i1
  i2 = i2
  b1 = b1
  b2 = b2
  d1 = d1
  d2 = d2
  u1 = u1
  s1 = s1
  s2 = s2
  Workers = {w1}
  Tasks = {t1}
  NoWorker = NoWorker
  Joined = {w1}
  Capacity <- UnitCapacity
  MaxQueued = 2
  MaxAttempts = 1
  Intents = {i1}
  NoIntent = NoIntent
  Target <- AtW1
  Kind <- InstallKinds
  Subject <- OneSubject
  Device <- OneDevice
  Broker <- ByB1
  Brokers = {b1}
  Sessions = {s1}
  NoSession = NoSession
  MaxFence = 2
  Installs = {n1, n2}
  NoSource = NoSource
  MaxInstallFaults = 1
\* A command that ended does nothing more.
CHECK_DEADLOCK FALSE
INVARIANT InstallsAreIndependent
PROPERTIES SchedulerRefined AbandonedJobsReturn GrantsAreAuthorized
