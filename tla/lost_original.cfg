\* An approval fails between the file and the version.
CONSTANTS
  Suggestions = {s1}
  Categories = {UPI_FAILURE, DRIFT_DETECTED}
  Shipped = {UPI_FAILURE}
  DriftCategory = DRIFT_DETECTED
  Texts = {t1}
  Original = Original
  Empty = Empty
  Null = Null
  MaxFaults = 1
SYMMETRY Symmetry
SPECIFICATION Spec
INVARIANTS
  OriginalRecoverable
