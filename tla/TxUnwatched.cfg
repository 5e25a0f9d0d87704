\* A restart of the web process forgets the countdown.
SPECIFICATION Spec
CONSTANTS
  Boot = Boot
  NoTx = NoTx
  Factory = Factory
  Absent = Absent
  Tx = {t1}
  Workers = {w1}
  Overlap = FALSE
  Crashes = TRUE
  Faults = FALSE
  Rejected = {}
INVARIANT TrialIsWatched
CHECK_DEADLOCK FALSE
