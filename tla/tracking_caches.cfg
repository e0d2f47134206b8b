\* Two handlers, two tenants, one callback handler.
SPECIFICATION Spec
CONSTANTS
  r1 = r1
  r2 = r2
  h1 = h1
  h2 = h2
  t1 = t1
  t2 = t2
  Request = {r1, r2}
  Hook = {h1}
  Nobody = Nobody
  Tenant = {t1, t2}
  MaxEvents = 1
  MaxQueries = 1
  TrackTtl = 1
  DetailTtl = 2
  ErrTtl = 1
  DetectTtl = 1
  Faulty = FALSE
SYMMETRY Symmetry
INVARIANTS TypeOK DetailIsOwn ToldIsReadable OutageIsSpared
