SPECIFICATION MCFairSpec
CONSTANTS
  c1 = c1
  Scenarios = {"crash"}
  Calls = {c1}
  Syncs = {}
  Blocks = Blocks
  Status = Status
  NoTx = NoTx
  Preemptive = TRUE
  LostAnswers = TRUE
  MaxRestarts = 1
PROPERTY LockedFundsAreSettled
