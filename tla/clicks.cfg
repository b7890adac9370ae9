SPECIFICATION FairSpec
CONSTANTS
  Visits = {0, 1, 2}
  VisitorOf <- MCVisitorOf
  Old = {0}
  Here = here
  Others = {other}
  None = None
CHECK_DEADLOCK FALSE
INVARIANTS TypeOK CountIsRows FirstClickIsNew FiguresAreReal
PROPERTIES TotalNeverShrinks SummaryCatchesUp
