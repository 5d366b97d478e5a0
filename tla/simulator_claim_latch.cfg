SPECIFICATION Spec
CONSTANTS
  None = None
  Keys = {k1, k2}
  ActuationEnabled = TRUE
  MaxFrameAge = 1
  CameraTimeout = 2
  MaxTrackGap = 1
  ConfirmationWindow = 2
  HarmfulPersistence = 1
  MinSupport = 2
  IncidentClear = 1
  CooldownTime = 3
  AckTimeout = 2
  FrameAges = {0, 2}
  Delays = {0, 2}
  Responses = {"ACK", "DENIED", "DROP"}
  InjectedIds = {2}
  InjectedNames = {"BURST"}
  MaxNow = 4
  MaxInputs = 2
  MaxIncidents = 2
  MaxDisturbances = 1
INVARIANT LatchIsOnOpenIncident
SYMMETRY SimulatorSymmetry
CHECK_DEADLOCK FALSE
