CONSTANTS
  Modes <- MCOneMode
  Serials <- MCSerials
  ConfirmTimeout = 1
  MaxOnWire = 2
  Services <- MCAllServices
SPECIFICATION FairSpec
PROPERTIES
  EmergencyDisarms
  SessionSettles
