\* A reboot brings a reverted change back for good.
SPECIFICATION Spec
CONSTANTS
  Boot = Boot
  NoTx = NoTx
  Factory = Factory
  Absent = Absent
  Tx = {t1, t2}
  Workers = {w1}
  Overlap = FALSE
  Crashes = TRUE
  Faults = FALSE
  Rejected = {}
INVARIANT BootAppliesCommitted
CHECK_DEADLOCK FALSE
