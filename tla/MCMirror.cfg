\* The firmware's fallback against the service's rule, once the first readings
\* come after the minimum off-time of the boot.
SPECIFICATION MirrorSpec
CONSTANTS
  ClockModulus = 64
  RiseEnabled = TRUE
  RiseThreshold = 4
  RiseWindow = 2
  RiseMinSamples = 2
  RiseBufferSize = 3
  Minute = 2
  FanOnPercent = 70
  FanOffPercent = 60
  HumidityMin = 0
  HumidityMax = 100
  TemperatureMin = 0
  TemperatureMax = 60
  MinFanOn = 2
  MinFanOff = 2
  MaxRuntime = 3
  StaleTimeout = 2
  OverrideDefault = 1
  OverrideMax = 1
  FailureLimit = 2
  FailureMax = 3
  HoldLastState = FALSE
  Readings <- MirrorReadings
  Ages = {0, 2}
  Durations = {}
  TickPeriod = 2
  Horizon = 6
  RuleBufferSize = 5
  Epoch = 20
  FirstReading = 2
PROPERTIES
  SameDecision
  SimulatorAlike
\* Time stops at the horizon.
CHECK_DEADLOCK FALSE
