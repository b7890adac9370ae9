SPECIFICATION Spec
CONSTANTS
  Creators = {c1}
  Writers = {w1, w2}
  Readers = {r1}
  Cleaners = {}
  Ops = {"retarget", "delete"}
  Timed = TRUE
  Background = FALSE
  MaxFaults = 0
  NoRow = NoRow
  Miss = Miss
  Free = Free
CHECK_DEADLOCK FALSE
INVARIANTS FreshUnlessRaced ExpiredNeverRedirects
