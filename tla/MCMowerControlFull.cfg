CONSTANTS
  Callers = {c1, c2}
  Capacity = 1
  Troubles <- MCNoTrouble
  SessionOutcomes <- MCOutcomes
SPECIFICATION Spec
PROPERTY RefusedIsCancelled
