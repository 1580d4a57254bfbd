CONSTANT MaxReady = 4
SPECIFICATION FairSpec
CHECK_DEADLOCK FALSE
INVARIANTS
  TypeOK
  OneAttempt
  ConnectedIsLive
  StoppedStaysDown
PROPERTIES
  KeepsTrying
  SilenceNoticed
  StopEnds
