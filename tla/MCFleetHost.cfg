SPECIFICATION FairSpec
CONSTANTS
  p1 = p1
  p2 = p2
  c1 = c1
  c2 = c2
  t1 = t1
  t2 = t2
  Nobody = Nobody
  Posts <- TwoPosts
  Clients <- OneClient
  Tenants <- AllTenants
  Default = t2
  NoTenant = Nobody
  Caller <- Callers
  Configured = TRUE
  Bodies <- Batches
  Retain = 2
  MaxStarts = 2
INVARIANTS
  TypeOK
  LiveIsDurable
  BatchesAreWhole
  StreamsAreScoped
  StreamsAreComplete
  NeverTwice
  StopReachesRegistered
  LeftBehindOnlyByRestart
PROPERTIES
  MisfiledOnlyAcrossStop
  ResumeKeepsBuffered
  CommitReachesReaders
  ClosingStreamsEnd
