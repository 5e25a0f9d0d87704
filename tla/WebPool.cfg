SPECIFICATION FairSpec
CONSTANTS
  t1 = t1
  Tabs <- MCTabs
  Threads <- MCThreads
  Keepalive = 2
  Patience = 2
  Deadline = 9
  MaxStreams = 4
INVARIANTS
  TypeOK
  KeptInTime
PROPERTIES
  CallsAreServed
  StreamsEnd
CHECK_DEADLOCK FALSE
