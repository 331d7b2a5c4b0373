SPECIFICATION FairSpec
CONSTANTS
  s1 = s1
  s2 = s2
  a = a
  Close = Close
  Subs <- TwoSubs
  Events <- OneEvent
  ReplaySize = 2
  MaxPublish = 3
INVARIANTS
  TypeOK
  GapFree
  Registered
  ReplayIsFilter
PROPERTIES
  ImplementsFeed
  Delivery
  ClosedReadersEnd
