SPECIFICATION Spec
SYMMETRY Symmetry
CONSTANTS
  Editor = {e1, e2, e3}
  None = None
  MaxPublications = 3
  MaxCrashes = 1
CHECK_DEADLOCK FALSE
INVARIANT AuditMirrorsMatrix
PROPERTY SavesReplaceWhatWasLoaded
