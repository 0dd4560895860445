\* The device alone with the broker: slow passes, lost connections, its own messages.
SPECIFICATION FirmwareSpec
CONSTANTS
  ClockModulus = 64
  RiseEnabled = FALSE
  RiseThreshold = 3
  RiseWindow = 2
  RiseMinSamples = 2
  RiseBufferSize = 3
  Minute = 2
  FanOnPercent = 70
  FanOffPercent = 60
  HumidityMin = 0
  HumidityMax = 100
  TemperatureMin = 0
  TemperatureMax = 60
  MinFanOn = 3
  MinFanOff = 4
  MaxRuntime = 3
  StaleTimeout = 1
  OverrideDefault = 2
  OverrideMax = 2
  FailureLimit = 1
  FailureMax = 1
  HoldLastState = FALSE
  Readings <- WetDryReadings
  Ages = {}
  Durations = {}
  TickPeriod = 2
  Horizon = 11
  SampleInterval = 1
  LoopLag = 2
  InboxMax = 0
  Second = 2
  BootTime = 101
  SyncedAtBoot = {TRUE, FALSE}
  PastLives <- FreshBroker
INVARIANTS
  ContactRuntimeBounded
PROPERTIES
  ContactDwellKept
  EchoNeutral
\* Time stops at the horizon.
CHECK_DEADLOCK FALSE
