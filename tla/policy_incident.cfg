\* Incidents opening, clearing and re-opening while the operator disarms and re-arms and answers get lost.
SPECIFICATION Spec
CONSTANTS
  None = None
  a = a
  b = b
  pot = pot
  Tracks = {a, b}
  Presets = {pot}
  TrackingPersistence = 1
  MinTrackingFrames = 2
  ConfirmationPersistence = 1
  MinConfirmationFrames = 2
  AimSettle = 1
  EventClearPersistence = 1
  MinEventClearFrames = 2
  PerceptionStaleAfter = 1
  SafetyStaleAfter = 1
  CooldownPeriod = 2
  BurstDuration = 1
  InitialCommandId = 1
  MaxTimestamp = 13
  MaxFrameId = 13
  MaxCommandId = 9
  ClockSteps = {1}
  FrameLags = {0}
  FrameSteps = {1}
  SafetyLags = {0}
  FrameShapes <- IncidentShapes
  SafetyFaults <- NoFaults
  Omissible = {}
  Controls = {"Arm", "Disarm"}
  DeviceStatuses <- NoDevices
  DeviceReplies = {"Default", "TimedOut", "Garbled"}
INVARIANT TypeOK
INVARIANT OneBurstPerEvent
INVARIANT AimedEventIsLive
INVARIANT PolicyAndDeviceAgree
PROPERTY ImplementsOneShot
CHECK_DEADLOCK FALSE
