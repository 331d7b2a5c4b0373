SPECIFICATION Spec
CONSTANTS
  Others = {"poll", "refresh"}
  MaxEvents = 3
  Retain = 1
  QueryLimit = 2
  MaxShown = 2
  MaxFaults = 2
INVARIANTS
  TypeOK
  NothingTwice
  ResumedIsComplete
  LiveIsStreaming
PROPERTIES
  DestroyedOpensNothing
