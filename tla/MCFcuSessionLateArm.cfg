CONSTANTS
  Modes <- MCOneMode
  Serials <- MCSerials
  ConfirmTimeout = 1
  MaxOnWire = 2
  Services <- MCAllUp
SPECIFICATION AloneSpec
PROPERTY LateArmCorrected
