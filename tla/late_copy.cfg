SPECIFICATION FairSpec
CONSTANTS
  Nil = Nil
  w1 = w1
  p1 = p1
  p2 = p2
  Aggregates = {w1}
  MaxEvents = 2
  Publishers = {p1, p2}
  Steady = {p1}
  Batch = 1
  Hold = 1
  Window = 2
  Delay <- Doubling
  DelayMax = 1
  MaxAttempts = 2
  Skew = 0
PROPERTY NeverOutOfOrder
