\* The types of tracking-gateway: the callback takes a Result, the response is not one.
SPECIFICATION Spec
CONSTANTS
  c1 = c1
  c2 = c2
  c3 = c3
  c4 = c4
  Call <- FourCalls
  FailureRatio = 50
  Window = 2
  HalfOpenProbes = 2
  OpenDuration = 1
  MinCalls = 5
  ClassifyType = "Result<QueryResponse, UpstreamError>"
  ResponseType = "QueryResponse"
  Cancellable = TRUE
  MaxOutcomes = 7
SYMMETRY Symmetry
INVARIANT ClosedMeansHealthy
