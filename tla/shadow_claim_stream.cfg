SPECIFICATION Spec
CONSTANTS
  RowSets <- MCFineRowSets
  CatConfidence = 5
  PersonConfidence = 5
  NmsIou <- MCNmsIou
  TrackerIou <- MCTrackerIou
  MaxMissed = 0
  ImageWidth = 5000
  Zones <- MCFineZones
  WireSteps = 1000
  TicksPerSecond = 20
  Fps = 10
  SourceKinds = {"camera"}
  MaxFrames = 3
  Camera = "camera"
  NoZone = 0
  Window = 2
  MaxTargets = 4
  MaxFrameEntries = 6
  Models <- MCModels
  ExpectedModel <- MCExpectedModel
  LogicalLatency = 1
  InferenceWindow = 2
  NetProbabilities <- MCNetProbabilities
  Damaged <- MCDamaged
  MaxReplacements = 1
  Nothing = Nothing
  MaxAuditAge = 30
  MaxSafeInteger = 100
  MaxTimeline = 4
  MaxSequence = 10
  MaxReference = 5
  ScoreSlack = 10
  SumSlack = 1
  ReferenceLength = 5
  Timeout = 3
  MaxLatency = 2
  Configs <- MCConfigs
  OutputNames <- MCOutputNames
  MaxEdits = 1
  NoPreset = NoPreset
  NoSequence = NoSequence
  Absent = Absent
  Fates <- MCFates
  MaxAnswers = 2
  OtherModel <- MCOtherModel
  MaxCats = 2
INVARIANT PipelineRecordsAreAccepted
CHECK_DEADLOCK FALSE
