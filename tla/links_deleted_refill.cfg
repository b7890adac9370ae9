SPECIFICATION Spec
CONSTANTS
  Creators = {c1}
  Writers = {w1}
  Readers = {r1, r2}
  Cleaners = {}
  Ops = {"delete"}
  Timed = FALSE
  Background = FALSE
  MaxFaults = 0
  NoRow = NoRow
  Miss = Miss
  Free = Free
CHECK_DEADLOCK FALSE
INVARIANTS DeletedNeverRedirects
