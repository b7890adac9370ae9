SPECIFICATION Spec
CONSTANTS
  j1 = j1
  t1 = t1
  t2 = t2
  g1 = g1
  Jobs = {j1, j2}
  Types = {t1}
  Groups = {g1}
  Processes = {p1, p2}
  Errors = {"timeout", "refused"}
  TypeOf <- MCOneTypeOf
  PriorityOf <- MCPriorityOf
  GroupOf <- MCGroupOf
  RankOf <- MCRankOf
  DelayedJobs = {}
  MaxAttempts = 2
  FaultKinds = {"crash", "redis", "evict"}
  MaxFaults = 1
  MaxCancels = 1
  Nothing = Nothing
INVARIANTS TypeOK NoJobLost DeadOnlyAfterMaxAttempts RunsBounded
