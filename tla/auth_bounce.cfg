SPECIFICATION FairSpec
CONSTANTS
  Tabs = {t1}
  Users = {a, b}
  Slots = {s1, s2}
  MaxFaults = 1
  Nobody = Nobody
  Loading = Loading
  Idle = Idle
  NoSync = NoSync
CHECK_DEADLOCK FALSE
PROPERTIES SessionStays
