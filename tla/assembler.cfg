SPECIFICATION Spec
CONSTANTS
  NoZone = 0
  MaxSafeInteger = 100
  WireSteps = 10
  SumSlack = 1
  LogicalLatency = 1
  InferenceWindow = 4
  Window = 4
  MaxTargets = 4
  MaxFrameEntries = 9
  MaxIncidentFrames = 4
  Unbound = Unbound
  Incidents <- MCIncidents
  Streams <- MCStreams
  Parents = {1, 2}
  Foreign = Foreign
  MaxRuns = 2
  MaxChanges = 2
  Nothing = Nothing
INVARIANT PublishedIsAccepted
INVARIANT ClipsShowTheirCat
INVARIANT DerivedIsValid
PROPERTY NothingIsReplaced
CHECK_DEADLOCK FALSE
