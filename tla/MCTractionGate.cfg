CONSTANTS
  Modes <- MCModes
  Serials = {1}
  ConfirmTimeout = 1
  GuidedVelocity = TRUE
  Causes = {"switch", "service", "tilt", "lift"}
  Services <- MCUp
  Reports <- MCPlainReports
  TiltTicks = 0
SPECIFICATION FairSpec
INVARIANTS
  GateHolds
  OneTransport
  TiltRetainsMode
  LatchCovers
PROPERTIES OnsetAnnounced TractionStops
