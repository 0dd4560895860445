\* A message handled after the pass has read the time.
SPECIFICATION FirmwareSpec
CONSTANTS
  ClockModulus = 64
  RiseEnabled = FALSE
  RiseThreshold = 3
  RiseWindow = 2
  RiseMinSamples = 2
  RiseBufferSize = 3
  Minute = 2
  FanOnPercent = 70
  FanOffPercent = 60
  HumidityMin = 0
  HumidityMax = 100
  TemperatureMin = 0
  TemperatureMax = 60
  MinFanOn = 2
  MinFanOff = 1
  MaxRuntime = 3
  StaleTimeout = 3
  OverrideDefault = 2
  OverrideMax = 2
  FailureLimit = 1
  FailureMax = 1
  HoldLastState = FALSE
  Readings <- DryReading
  Ages = {}
  Durations = {}
  TickPeriod = 2
  Horizon = 6
  SampleInterval = 1
  LoopLag = 1
  InboxMax = 1
  Second = 1
  BootTime = 101
  SyncedAtBoot = {FALSE}
  PastLives <- FreshBroker
PROPERTIES
  FreshCommandGoverns
\* Time stops at the horizon.
CHECK_DEADLOCK FALSE
