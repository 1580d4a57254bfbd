CONSTANTS
  AdapterTimeout = 1
  ObserverTimeout = 1
  ReadinessTimeout = 1
  MaxSequence = 2
  Incarnations = {i1, i2}
  gnss_required = TRUE
  wheel_odometry_required = FALSE
  OtherStreams = {"imu"}
  DockVoltages = {"none"}
SPECIFICATION FairSpec
INVARIANTS
  ReadyPositionRecent
  ReadyTractionRecent
PROPERTY GnssRecovers
