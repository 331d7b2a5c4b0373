SPECIFICATION TreeSpec
CONSTANTS
  Others = {"poll"}
  Loads = {"first", "second"}
  MaxEvents = 1
  Retain = 1
  QueryLimit = 2
  MaxShown = 2
  MaxFaults = 2
PROPERTIES
  PollingConverges
  DestroyedLoopEnds
  TreeConverges
