SPECIFICATION Spec
CONSTANTS
  r1 = r1  r2 = r2  r3 = r3  t1 = t1  t2 = t2  p1 = p1  p2 = p2
  Requests = {r1, r2, r3}
  Tenants = {t1, t2}
  TenantOf <- TwoTenants
  Procs = {p1, p2}
  ProcOf <- TwoProcs
  Workers = {w1, w2}
  NoJob = NoJob
  Quota <- NoQuota
  MaxGlobal = 1
  MaxTenant = 2
  ListCap = 3
  Expiry = TRUE
PROPERTIES FinalOnlyWorsens
INVARIANTS TypeOK RunsOnce SlotsFollowJobs GlobalOvershoot
CONSTRAINT MCBounds
SYMMETRY WorkersAlike
CHECK_DEADLOCK FALSE
