\* The table and what is built from it are not rolled back.
SPECIFICATION Spec
CONSTANTS
  Boot = Boot
  NoTx = NoTx
  Factory = Factory
  Absent = Absent
  Tx = {t1, t2}
  Workers = {w1}
  Overlap = FALSE
  Crashes = FALSE
  Faults = FALSE
  Rejected = {}
INVARIANT LastKnownGood
CHECK_DEADLOCK FALSE
