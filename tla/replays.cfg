SPECIFICATION Spec
CONSTANTS
  Nil = Nil
  w1 = w1
  w2 = w2
  m1 = m1
  s1 = s1
  s2 = s2
  s3 = s3
  p1 = p1
  p2 = p2
  MaxBalance = 4
  MaxAttempts = 2
  TTL = 2
  Wallets = {w1, w2}
  Submitters = {s1, s2, s3}
  Workers = {}
  Messages = {m1}
  Deliveries <- IdempotencyDeliveries
  Openings <- TwoWallets
  Unbuildable = {}
  Backoff <- Doubling
  Skew = 1
  Horizon = 1
SYMMETRY Interchangeable
INVARIANTS AnswersAgree HandledMeansRecorded
