SPECIFICATION FairSpec
CONSTANTS
  Urls = {u1, u2}
  Codes = {c1, c2}
  None = None
CHECK_DEADLOCK FALSE
PROPERTIES StreamReconnects
