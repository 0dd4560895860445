\* The service with a device that repeats itself and one that does not: resets of
\* the devices, restarts of the service, lost and repeated telemetry.
SPECIFICATION ServiceSpec
CONSTANTS
  FanOnPercent = 70
  FanOffPercent = 60
  HumidityMin = 0
  HumidityMax = 100
  TemperatureMin = 0
  TemperatureMax = 60
  MinFanOn = 1
  MinFanOff = 1
  MaxRuntime = 2
  FailureLimit = 2
  HoldLastState = FALSE
  RiseEnabled = FALSE
  RiseThreshold = 4
  RiseWindow = 2
  RiseMinSamples = 2
  Minute = 2
  RuleBufferSize = 3
  DeviceIds = {esp, sim}
  esp = esp
  sim = sim
  Resending = {sim}
  Readings <- ServiceReadings
  Window = 2
  Epoch = 10
  Horizon = 2
  SeqMax <- MessageBound
  BootMax <- ResetBound
  InboxMax = 2

  
  
PROPERTIES
  
  FreshTelemetryUsed
  RequestDwellKept
  RequestBounded
\* Time and the sequence numbers end at their bounds.
CHECK_DEADLOCK FALSE
