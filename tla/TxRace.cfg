\* A confirmation that arrives as the countdown ends.
SPECIFICATION Spec
CONSTANTS
  Boot = Boot
  NoTx = NoTx
  Factory = Factory
  Absent = Absent
  Tx = {t1}
  Workers = {w1}
  Overlap = TRUE
  Crashes = FALSE
  Faults = FALSE
  Rejected = {}
INVARIANT KeptStaysKept
CHECK_DEADLOCK FALSE
