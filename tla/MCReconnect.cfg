\* Wi-Fi and the broker fail and come back in any order, for ever.
SPECIFICATION Spec
CONSTANTS
  ClockModulus = 14
  BackoffInitial = 1
  BackoffMax = 8
  LoopLag = 1
  AssociationMax = 2
  ConnectMax = 3
  NoticeMax = 2
  RecoveryMax = 26
INVARIANTS
  ReconnectTypeOK
  RecoveryBounded
PROPERTIES
  ComesBack
