CONSTANTS
  Providers = {"p1", "p2"}
  Tokens <- Presented
  Checks = {"postgres", "queue"}
  Algorithms = {"RS256", "PS256"}
  Skew = 1
  MaxTime = 3
  Nil = Nil
  None = Nil
  MaxLayers = 6
SPECIFICATION BesidesSpec
INVARIANTS ActsWithinGrant AnswerFitsFailure
PROPERTIES EveryRequestAnswered
