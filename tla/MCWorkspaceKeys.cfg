SPECIFICATION AccessSpec
CONSTANTS
  owner = owner
  other = other
  o1 = o1
  o2 = o2
  d1 = d1
  e1 = e1
  e2 = e2
  svc = svc
  NoOne = NoOne
  Users = {owner, other}
  Devices = {o1, o2, d1}
  Services = {svc}
  Enrollments = {e1, e2}
  Owner = owner
  UserOf <- MCUserOf
  Starts <- MCStarts
  MaxRevoked = 1
  Roles = {"admin"}
  MaxVersion = 2
  MaxSetups = 2
  Principals = {p1, p2}
  Challenges = {c1}
  SessionIds = {s1, s2}
  LoginCalls = {l1, l2}
  Signed = {r1}
  Deliveries = {x1, x2}
  NoId = NoId
  ChallengeTtl = 1
  SessionTtl = 5
  NonceTtl = 5
  MaxAge = 2
  MaxSkew = 1
  MaxLag = 1
  CreatedTimes = {1, 3}
  LastTime = 5
SYMMETRY MCSymmetry
CONSTRAINT SentAlone
CHECK_DEADLOCK FALSE
INVARIANTS OneKeyPerVersion LockedOut SignaturesCountOnce
PROPERTIES SealedOnlyToAdmitted
