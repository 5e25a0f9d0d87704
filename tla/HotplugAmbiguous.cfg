\* Overlapping discoveries and two radios under one name.
SPECIFICATION Spec
CONSTANTS
  Radios = {r1, r2}
  Names = {n1, n2}
  Gone = Gone
  Watcher = Watcher
  Tabs = {b1}
  QueueSize = 1
  MaxFaults <- FourFaults
INVARIANT NamesUnambiguous
CHECK_DEADLOCK FALSE
