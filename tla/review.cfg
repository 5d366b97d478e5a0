\* Two pages, racing saves, failed writes and a server that is killed.
SPECIFICATION Spec
CONSTANTS
  None = None
  Browsers = {b1, b2}
  Events = {e1}
  Values = {v1, v2}
  MaxRevision = 4
  MaxPending = 1
  WriteErrors = TRUE
  Restarts = TRUE
INVARIANT RevisionNamesOneState
INVARIANT SavedIsKept
PROPERTY OverwritesAreSeen
SYMMETRY ReviewSymmetry
