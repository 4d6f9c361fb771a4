SPECIFICATION Spec
CONSTANTS
  c1 = c1
  Calls = {c1}
  Syncs = {}
  Blocks = Blocks
  Status = Status
  NoTx = NoTx
  Preemptive = FALSE
  LostAnswers = FALSE
  MaxRestarts = 1
INVARIANTS TimedOutHasNoLockup
