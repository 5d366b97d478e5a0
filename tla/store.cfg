\* Raising calls, killed processes, power losses and restarted clocks.
SPECIFICATION Spec
CONSTANTS
  None = None
  Names = {1, 2, 3}
  Sizes = {1, 2, 4}
  MaxIncidents = 2
  MaxDiskBytes = 3
  IOErrors = TRUE
  PowerLosses = TRUE
  ClockRestarts = TRUE
INVARIANT ReportedIsDurable
INVARIANT BudgetsKept
INVARIANT StagingIsThisSessions
INVARIANT HalfMeansEvicted
PROPERTY ImplementsArchive
