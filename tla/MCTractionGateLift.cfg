CONSTANTS
  Modes <- MCPlainModes
  Serials = {1}
  ConfirmTimeout = 1
  GuidedVelocity = FALSE
  Causes = {"switch", "lift"}
  Services <- MCUp
  Reports <- MCReports
  TiltTicks = 1
SPECIFICATION Spec
INVARIANT RetainsMode
