\* Clock regressions, corrupt and late frames, missing snapshots, a device failing by itself, ids running out.
SPECIFICATION Spec
CONSTANTS
  None = None
  a = a
  b = b
  pot = pot
  Tracks = {a, b}
  Presets = {pot}
  TrackingPersistence = 1
  MinTrackingFrames = 2
  ConfirmationPersistence = 1
  MinConfirmationFrames = 2
  AimSettle = 1
  EventClearPersistence = 1
  MinEventClearFrames = 2
  PerceptionStaleAfter = 1
  SafetyStaleAfter = 1
  CooldownPeriod = 2
  BurstDuration = 1
  InitialCommandId = 1
  MaxTimestamp = 4
  MaxFrameId = 4
  MaxCommandId = 3
  ClockSteps <- Backwards
  FrameLags = {0}
  FrameSteps <- BackAndForth
  SafetyLags = {0}
  FrameShapes <- FaultShapes
  SafetyFaults <- SomeFaults
  Omissible = {"frame", "safety"}
  Controls = {"None", "Arm", "Disarm", "EmergencyStop"}
  DeviceStatuses <- SomeDevices
  DeviceReplies = {"Default", "TimedOut"}
INVARIANT ActivePolicyCanStop
PROPERTY CommandIdsAreFresh
PROPERTY FaultStopsActuator
