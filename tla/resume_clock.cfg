SPECIFICATION Spec
CONSTANTS
  Nil = Nil
  w1 = w1
  w2 = w2
  m1 = m1
  s1 = s1
  s2 = s2
  s3 = s3
  p1 = p1
  p2 = p2
  MaxBalance = 4
  MaxAttempts = 2
  TTL = 2
  Wallets = {w1}
  Submitters = {s1}
  Workers = {p1}
  Messages = {}
  Deliveries <- ClockDeliveries
  Openings <- RicherWallet
  Unbuildable = {}
  Backoff <- Doubling
  Skew = 0
  Horizon = 3
INVARIANT StampNeverStale
