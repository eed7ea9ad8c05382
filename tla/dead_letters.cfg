SPECIFICATION Spec
CONSTANTS
  Nil = Nil
  g1 = g1
  g2 = g2
  c1 = c1
  c2 = c2
  i1 = i1
  i2 = i2
  x = x
  y = y
  Groups = {g1, g2}
  MaxMessages = 1
  Bodies <- Poisoned
  Ids = {i1, i2}
  Contents = {x, y}
  Consumers = {c1}
  Steady = {c1}
  Concurrency = 1
  Batch = 2
  MaxReceiveCount = 2
  Faults = {}
INVARIANT DeadLettersAnnounced
