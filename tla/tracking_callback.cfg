\* A callback that fails half-way is repeated.
SPECIFICATION Spec
CONSTANTS
  r1 = r1
  r2 = r2
  h1 = h1
  h2 = h2
  t1 = t1
  t2 = t2
  Request = {r1}
  Hook = {h1}
  Nobody = Nobody
  Tenant = {t1}
  MaxEvents = 1
  MaxQueries = 1
  TrackTtl = 1
  DetailTtl = 1
  ErrTtl = 1
  DetectTtl = 1
  Faulty = TRUE
INVARIANT AckedIsHandled
