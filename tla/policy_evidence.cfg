\* Evidence that comes, breaks off, changes and is missing, as an observer of the
\* accepted frames sees it.
SPECIFICATION ObserverSpec
CONSTANTS
  None = None
  a = a
  b = b
  pot = pot
  Tracks = {a, b}
  Presets = {pot}
  TrackingPersistence = 1
  MinTrackingFrames = 2
  ConfirmationPersistence = 2
  MinConfirmationFrames = 2
  AimSettle = 1
  EventClearPersistence = 1
  MinEventClearFrames = 2
  PerceptionStaleAfter = 1
  SafetyStaleAfter = 1
  CooldownPeriod = 2
  BurstDuration = 1
  InitialCommandId = 1
  MaxTimestamp = 7
  MaxFrameId = 8
  MaxCommandId = 9
  ClockSteps = {1}
  FrameLags = {0}
  FrameSteps = {1}
  SafetyLags = {0}
  FrameShapes <- EvidenceShapes
  SafetyFaults <- NoFaults
  Omissible = {"frame"}
  Controls = {"Arm"}
  DeviceStatuses <- Vanishing
  DeviceReplies = {"Default"}
PROPERTY BurstIsEarned
