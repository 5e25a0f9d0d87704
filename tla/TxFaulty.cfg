\* One answer at a time; anything may crash or raise.
SPECIFICATION Spec
CONSTANTS
  Boot = Boot
  NoTx = NoTx
  Factory = Factory
  Absent = Absent
  Tx = {t1, t2}
  Workers = {w1, w2}
  Overlap = FALSE
  Crashes = TRUE
  Faults = TRUE
  Rejected <- OneRejected
SYMMETRY WorkerSymmetry
INVARIANT Exclusive
PROPERTY JournalFinal
CHECK_DEADLOCK FALSE
