SPECIFICATION Spec
CONSTANTS
  p1 = p1
  p2 = p2
  c1 = c1
  c2 = c2
  t1 = t1
  t2 = t2
  Nobody = Nobody
  Posts <- OnePost
  Clients <- OneClient
  Tenants <- AllTenants
  Default = t2
  NoTenant = Nobody
  Caller <- Callers
  Configured = TRUE
  Bodies <- ValidBatch
  Retain = 2
  MaxStarts = 2
INVARIANT PostsAreScoped
