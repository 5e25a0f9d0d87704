\* The admin answers a running countdown, once at a time; nothing crashes.
SPECIFICATION FairSpec
CONSTANTS
  Boot = Boot
  NoTx = NoTx
  Factory = Factory
  Absent = Absent
  Tx = {t1, t2, t3}
  Workers = {w1, w2}
  Overlap = FALSE
  Crashes = FALSE
  Faults = FALSE
  Rejected <- OneRejected
INVARIANTS TypeOK WholeConfig WholeBox KeptStaysKept TrialIsWatched
PROPERTIES Resolved KeepsPromise FollowsCourse
CHECK_DEADLOCK FALSE
