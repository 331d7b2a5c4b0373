SPECIFICATION FairSpec
CONSTANTS
  Others = {"poll"}
  MaxEvents = 2
  Retain = 1
  QueryLimit = 2
  MaxShown = 2
  MaxFaults = 0
PROPERTIES
  SafetyNet
