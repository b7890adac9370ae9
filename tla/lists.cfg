SPECIFICATION Spec
CONSTANTS
  Codes = {1, 2}
  Matching = {1}
  PageSize = 1
  Routes = {"urls", "analytics"}
  MaxCached = 2
  MaxChanges = 2
  None = None
CHECK_DEADLOCK FALSE
INVARIANTS TypeOK ListsKnowOwnWork SelectionIsMade
