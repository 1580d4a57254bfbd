CONSTANTS
  Timeout = 1
  Steps = {0, 1}
  MaxTravel = 1
  MaxEpoch = 0
SPECIFICATION Spec
INVARIANT CountsAreTravel
