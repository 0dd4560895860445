\* All sources at once: readings, messages and commands against the timers.
SPECIFICATION Spec
CONSTANTS
  ClockModulus = 64
  RiseEnabled = FALSE
  RiseThreshold = 3
  RiseWindow = 2
  RiseMinSamples = 2
  RiseBufferSize = 3
  Minute = 2
  FanOnPercent = 70
  FanOffPercent = 60
  HumidityMin = 0
  HumidityMax = 100
  TemperatureMin = 0
  TemperatureMax = 60
  MinFanOn = 2
  MinFanOff = 1
  MaxRuntime = 3
  StaleTimeout = 1
  OverrideDefault = 1
  OverrideMax = 1
  FailureLimit = 1
  FailureMax = 1
  HoldLastState = FALSE
  Readings <- AllReadings
  Ages = {0, 2}
  Durations = {3}
  TickPeriod = 2
  Horizon = 6
INVARIANTS
  TypeOK
  RuntimeBounded
  StartsBounded
PROPERTIES
  DwellKept
  HysteresisHolds
  FailSafeOff
  OnlyTimersOverrule
  OverrideLapses
  StaleCommandIgnoredAfterBoot
  ImplementsRelay
\* Time stops at the horizon.
CHECK_DEADLOCK FALSE
