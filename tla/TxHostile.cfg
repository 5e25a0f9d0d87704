\* Answers at any time, from a web worker and two watchdogs, with crashes.
SPECIFICATION FairSpec
CONSTANTS
  Boot = Boot
  NoTx = NoTx
  Factory = Factory
  Absent = Absent
  Tx = {t1, t2}
  Workers = {w1}
  Overlap = TRUE
  Crashes = TRUE
  Faults = FALSE
  Rejected <- OneRejected
INVARIANTS NoOrphanLock BootConverges
PROPERTY LockIsFreed
CHECK_DEADLOCK FALSE
