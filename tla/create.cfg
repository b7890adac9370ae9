SPECIFICATION Spec
CONSTANTS
  Urls = {u1, u2}
  Codes = {c1, c2}
  None = None
SYMMETRY MCSymmetry
CHECK_DEADLOCK FALSE
INVARIANTS TypeOK SpinnerIsReal MetadataIsOfLink ClosedIsClean 
