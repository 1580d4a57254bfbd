CONSTANTS
  Modes <- MCModes
  Serials <- MCSerials
  ConfirmTimeout = 1
  MaxOnWire = 1
  Services <- MCModeMayBeDown
SPECIFICATION Spec
INVARIANTS
  TypeOK
  FailureIsOwn
  EmergencyRetiresArm
PROPERTY KeepsContract
