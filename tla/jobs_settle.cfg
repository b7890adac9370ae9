SPECIFICATION FairSpec
CONSTANTS
  j1 = j1
  t1 = t1
  t2 = t2
  g1 = g1
  Jobs = {j1, j2}
  Types = {t1, t2}
  Groups = {g1}
  Processes = {p1}
  Errors = {"timeout"}
  TypeOf <- MCTwoTypesOf
  PriorityOf <- MCPriorityOf
  GroupOf <- MCGroupOf
  RankOf <- MCRankOf
  DelayedJobs = {j2}
  MaxAttempts = 3
  FaultKinds = {"crash"}
  MaxFaults = 2
  MaxCancels = 0
  Nothing = Nothing
PROPERTIES ImplementsFairLifecycle EveryJobSettles TerminalIsFinal QueuesDrain
INVARIANTS StatusIsHonest
