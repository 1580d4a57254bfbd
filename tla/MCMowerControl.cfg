CONSTANTS
  Callers = {c1, c2, c3}
  Capacity = 2
  Troubles <- MCTroubles
  SessionOutcomes <- MCOutcomes
SPECIFICATION FairSpec
INVARIANTS
  TypeOK
  OneAnswerEach
  SuccessIsTrue
  CalledOffFails
  TestHasReason
  CallersAgree
PROPERTIES
  LateFails
  CallersAnswered
