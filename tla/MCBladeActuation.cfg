CONSTANTS
  AckTimeout = 1
  StopTimeout = 2
  Freshness = 1
  Coast = 1
  StopSamples = 2
  Tokens <- MCFewTokens
  MaxOutstanding = 2
  RevisionMod = 1
SPECIFICATION FairSpec
INVARIANTS
  TypeOK
  IssuedWanted
  SatisfiedIsTrue
PROPERTIES
  KeepsInterlock
  NeutralGetsOut
  TransitionEnds
