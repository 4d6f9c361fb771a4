SPECIFICATION MCSpec
CONSTANTS
  c1 = c1  c2 = c2  s1 = s1
  Scenarios = {"calls", "sync", "crash"}
  Calls = {c1, c2}
  Syncs = {s1}
  Blocks = Blocks
  Status = Status
  NoTx = NoTx
  Preemptive = TRUE
  LostAnswers = FALSE
  MaxRestarts = 1
INVARIANTS TypeOK AtMostOneLockup LockupNotForgotten CompleteHasProof RefundIdIsReal
PROPERTY KeepsPromiseAtomically
SYMMETRY CallSymmetry
