SPECIFICATION Spec
CONSTANTS
  w1 = w1
  t1 = t1
  i1 = i1
  i2 = i2
  b1 = b1
  b2 = b2
  d1 = d1
  d2 = d2
  u1 = u1
  s1 = s1
  s2 = s2
  Workers = {w1}
  Tasks = {}
  NoWorker = NoWorker
  Joined = {w1}
  Capacity <- UnitCapacity
  MaxQueued = 2
  MaxAttempts = 1
  Intents = {i1, i2}
  NoIntent = NoIntent
  Target <- AtW1
  Kind <- Updates
  Subject <- OneSubject
  Device <- TwoDevices
  Broker <- ByB1
  Brokers = {b1, b2}
  Sessions = {s1, s2}
  NoSession = NoSession
  MaxFence = 2
SYMMETRY Symmetry
INVARIANTS ActiveJobsInForce
PROPERTIES HandoverIsFenced
