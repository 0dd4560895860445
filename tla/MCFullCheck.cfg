\* The full check with the end-to-end demonstration, under one fault at any point,
\* in half seconds and with the values of demo.yaml; and the energy reports.
SPECIFICATION FullSpec
CONSTANTS
  FanOnPercent = 70
  FanOffPercent = 60
  HumidityMin = 0
  HumidityMax = 100
  MinFanOn = 6
  MinFanOff = 4
  MaxRuntime = 24
  StaleTimeout = 8
  FailureLimit = 3
  HoldLastState = FALSE
  Readings = {}
  PastMessage <- NothingRetained
  PastTopics <- NothingPublished
  ReadLag = 0
  InboxMax = 0
  Horizon = 120
  SampleInterval = 2
  ServicePause = 3
  Patience = 16
  BrokerPatience = 2
  StopPatience = 2
  Poll = 1
  Second = 2
  Epochs = {101}
  Settings <- SomeSettings
  MaxDelay = 1
  StartupMax = 2
  ReportMinFanOn = 4
  ReportMinFanOff = 1
  ReportMaxRuntime = 5
  Baseline = 45
  Peak = 85
  RiseStart = 1
  RiseTime = 4
  Plateau = 5
  DecayTime = 3
  Noise = 1
  DayLength = 24
  DemoReport <- OneHour
  Reports <- SomeReports
INVARIANTS
  FailsOnlyAfterFault
  CleanedUp
  InstallationLeftAlone
  CountedTimeIsReal
  FixedTimeIsReal
  ShowersVentilated
PROPERTIES
  DeadServiceNotObeyed
  EverythingEnds
\* Every script comes to its end.
CHECK_DEADLOCK FALSE
