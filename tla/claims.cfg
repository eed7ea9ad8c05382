SPECIFICATION Spec
CONSTANTS
  Nil = Nil
  w1 = w1
  p1 = p1
  p2 = p2
  Aggregates = {w1}
  MaxEvents = 2
  Publishers = {p1, p2}
  Steady = {}
  Batch = 1
  Hold = 2
  Window = 3
  Delay <- Doubling
  DelayMax = 2
  MaxAttempts = 3
  Skew = 1
INVARIANTS TypeOK PublishedWasAccepted
PROPERTY ClaimsRespected
PROPERTY ImplementsEventStream
