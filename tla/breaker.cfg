\* Every interleaving of four concurrent calls, any of which may be dropped.
SPECIFICATION RecoverySpec
CONSTANTS
  c1 = c1
  c2 = c2
  c3 = c3
  c4 = c4
  Call <- FourCalls
  FailureRatio = 50
  Window = 2
  HalfOpenProbes = 2
  OpenDuration = 1
  MinCalls = 5
  ClassifyType = "response"
  ResponseType = "response"
  Cancellable = TRUE
  MaxOutcomes = 7
INVARIANTS ClosedMeansHealthy ProbeBudget
PROPERTIES ImplementsGate Recovers
