\* A plug, a replug and browsers that react.
SPECIFICATION FairSpec
CONSTANTS
  Radios = {r1, r2}
  Names = {n1, n2}
  Gone = Gone
  Watcher = Watcher
  Tabs = {b1}
  QueueSize = 1
  MaxFaults <- MCFaults
INVARIANTS TypeOK UnambiguousAlone FoundWasTrue QuietIsTrue
PROPERTIES FollowsHardware PollingRepairs PollingConverges
CHECK_DEADLOCK FALSE
