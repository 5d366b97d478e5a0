\* Time for a second incident's burst, up to the last value of the clock.
SPECIFICATION FairSpec
CONSTANTS
  None = None
  a = a
  b = b
  pot = pot
  Tracks = {a, b}
  Presets = {pot}
  TrackingPersistence = 1
  MinTrackingFrames = 2
  ConfirmationPersistence = 1
  MinConfirmationFrames = 2
  AimSettle = 1
  EventClearPersistence = 5
  MinEventClearFrames = 2
  PerceptionStaleAfter = 0
  SafetyStaleAfter = 1
  CooldownPeriod = 2
  BurstDuration = 1
  InitialCommandId = 1
  MaxTimestamp = 18
  MaxFrameId = 12
  MaxCommandId = 9
  ClockSteps = {1}
  FrameLags = {0}
  FrameSteps = {1}
  SafetyLags = {0}
  FrameShapes <- CalmShapes
  SafetyFaults <- NoFaults
  Omissible = {"frame"}
  Controls = {"Arm"}
  DeviceStatuses <- NoDevices
  DeviceReplies = {"Default"}
INVARIANT BurstsAreSpaced
PROPERTY CooldownEnds
