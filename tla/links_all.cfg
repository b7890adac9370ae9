SPECIFICATION FairSpec
CONSTANTS
  Creators = {c1, c2}
  Writers = {w1}
  Readers = {r1}
  Cleaners = {k1}
  Ops = {"retarget", "activate", "deactivate", "expire", "extend", "delete"}
  Timed = TRUE
  Background = TRUE
  MaxFaults = 1
  NoRow = NoRow
  Miss = Miss
  Free = Free
CHECK_DEADLOCK FALSE
INVARIANTS TypeOK RedirectsOnlyCommitted
PROPERTIES EventuallyFresh
