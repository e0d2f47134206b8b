\* Two workers, or two processes; one failure of Redis or etcd, or a death.
SPECIFICATION PartsSpec
CONSTANTS
  w1 = w1
  w2 = w2
  Worker <- TwoWorkers
  MaxTokens = 3
  MaxSessions = 1
  AccessTtl = 1
  RefreshTtl = 2
  MaxTime = 2
  MaxFaults = 1
  MaxCaptchas = 1
  MarkTtl = 2
  Limit = 2
  FailTtl = 2
  LockTtl = 2
  MaxOrders = 2
  Chain <- AllTrc
  Bases <- OneBase
  Offsets = 1
  MaxTransfers = 1
  Window = 2
  Slack = 1
  SweepEvery = 1
  MaxIdle = 3
  MaxInstants = 4
  MaxCalls = 5
  MaxInstances = 2
  LeaseTtl = 3
SYMMETRY Symmetry
CHECK_DEADLOCK FALSE
INVARIANTS
  RefreshedOnce DeadStaysDead SessionsBounded
  CaptchaServesOnce GuessesBounded StaleNeverCounts
  AmountsDiffer ShownIsKept
  NeverTooMany NeverTooFew RegisteredIsFound EndedIsGone
PROPERTY TransferFindsItsOrder
