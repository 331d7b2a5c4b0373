SPECIFICATION Spec
CONSTANTS
  Kinds <- AllKinds
  Task = "Task"
  Window = 1
  MaxTime = 2
  MaxEvents = 4
INVARIANTS
  CountIsExact
\* A session that was built is the end of the computation.
CHECK_DEADLOCK FALSE
