SPECIFICATION Spec
CONSTANTS
  p1 = p1
  p2 = p2
  t1 = t1
  t2 = t2
  Nobody = Nobody
  Posts <- TwoPosts
  Tenants <- AllTenants
  Default = t2
  NoTenant = Nobody
  Caller <- Callers12
  Bodies <- OddAndOrdinary
  Values <- JsonValues
  Depth <- JsonDepth
  SecretKeys = {"token"}
  Filters <- Questions
  KeepsZone = TRUE
  Times = {0, 1}
INVARIANTS
  TypeOK
  AllOrNothing
  AnswersAreOwn
  FoundAtItsTime
  OlderPageContinues
  TreeAgreesWithQuery
  FrameIsReadBack
  OnlySecretsGo
\* When every POST has been answered nothing more happens.
CHECK_DEADLOCK FALSE
