\* Two suggestions, every step of an approval failing or restarting once.
CONSTANTS
  Suggestions = {s1, s2}
  Categories = {UPI_FAILURE, POT_WITHDRAWAL, DRIFT_DETECTED}
  Shipped = {UPI_FAILURE, POT_WITHDRAWAL}
  DriftCategory = DRIFT_DETECTED
  Texts = {t1, t2}
  Original = Original
  Empty = Empty
  Null = Null
  MaxFaults = 1
SYMMETRY Symmetry
SPECIFICATION Spec
INVARIANTS
  TypeOK
  ApprovedIsRecorded
  NumberedInOrder
  ApprovedUnderPassingRules
PROPERTIES
  ReviewIsFinal
  HistorySpec
