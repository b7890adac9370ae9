SPECIFICATION Spec
CONSTANTS
  Urls = {u1, u2}
  Codes = {c1, c2}
  Windows = {here, other}
  Here = here
  MaxLinks = 2
  None = None
SYMMETRY MCSymmetry
CHECK_DEADLOCK FALSE
INVARIANTS TypeOK LoadingIsReal QrIsOfResult ResultIsRemembered PreviewIsOfField
PROPERTIES NoSilentLoss
