\* A retained message that is already stale when the device boots.
SPECIFICATION Spec
CONSTANTS
  ClockModulus = 64
  RiseEnabled = FALSE
  RiseThreshold = 3
  RiseWindow = 2
  RiseMinSamples = 2
  RiseBufferSize = 3
  Minute = 2
  FanOnPercent = 70
  FanOffPercent = 60
  HumidityMin = 0
  HumidityMax = 100
  TemperatureMin = 0
  TemperatureMax = 60
  MinFanOn = 3
  MinFanOff = 2
  MaxRuntime = 4
  StaleTimeout = 1
  OverrideDefault = 1
  OverrideMax = 2
  FailureLimit = 2
  FailureMax = 3
  HoldLastState = FALSE
  Readings = {}
  Ages = {0, 2}
  Durations = {}
  TickPeriod = 2
  Horizon = 8
PROPERTIES
  StaleCommandIgnored
\* Time stops at the horizon.
CHECK_DEADLOCK FALSE
