CONSTANTS
  Timeout = 1
  MaxSkew = 1
  Interval = 1
  MaxTime = 3
  OtherSlots = {"blade"}
  Vehicles <- MCVehicles
  Configs <- MCConfigs
SPECIFICATION FairSpec
INVARIANTS
  FreshPair
  OneOwner
PROPERTIES
  SoundInterval
  LeaseExpires
