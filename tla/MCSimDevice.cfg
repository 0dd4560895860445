\* Two threads on one controller, messages of the service and of an earlier life,
\* over lost connections.
SPECIFICATION SimSpec
CONSTANTS
  FanOnPercent = 70
  FanOffPercent = 60
  HumidityMin = 0
  HumidityMax = 100
  MinFanOn = 1
  MinFanOff = 1
  MaxRuntime = 2
  StaleTimeout = 1
  FailureLimit = 1
  HoldLastState = FALSE
  Readings <- SimReadings
  PastMessage <- OldMessage
  PastTopics <- OldTopics
  ReadLag = 1
  InboxMax = 1
  Horizon = 3
INVARIANTS
  SimTypeOK
PROPERTIES
  ObeyedIsFresh
  ModeInStep
  SimDwellKept
\* Time stops at the horizon.
CHECK_DEADLOCK FALSE
