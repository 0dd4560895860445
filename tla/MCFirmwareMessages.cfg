\* Messages of the service, of an operator and of an earlier life, over lost connections.
SPECIFICATION FirmwareSpec
CONSTANTS
  ClockModulus = 64
  RiseEnabled = FALSE
  RiseThreshold = 3
  RiseWindow = 2
  RiseMinSamples = 2
  RiseBufferSize = 3
  Minute = 2
  FanOnPercent = 70
  FanOffPercent = 60
  HumidityMin = 0
  HumidityMax = 100
  TemperatureMin = 0
  TemperatureMax = 60
  MinFanOn = 1
  MinFanOff = 3
  MaxRuntime = 2
  StaleTimeout = 2
  OverrideDefault = 1
  OverrideMax = 1
  FailureLimit = 1
  FailureMax = 1
  HoldLastState = FALSE
  Readings <- DryReading
  Ages = {}
  Durations = {0}
  TickPeriod = 2
  Horizon = 4
  SampleInterval = 1
  LoopLag = 1
  InboxMax = 1
  Second = 2
  BootTime = 101
  SyncedAtBoot = {FALSE}
  PastLives <- OldBroker
INVARIANTS
  FirmwareTypeOK
PROPERTIES
  StaleMessageIgnoredIfAged
  HeldCommandGoverns
  MessageLapses
\* Time stops at the horizon.
CHECK_DEADLOCK FALSE
