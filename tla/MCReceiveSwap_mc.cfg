SPECIFICATION MCSpec
CONSTANTS
  k1 = k1  k2 = k2
  Syncs = {}
  Blocks = Blocks
  Status = Status
  ClaimTxs = {k1, k2}
  Lockup = Lockup
  Replacement = Replacement
  Refund = Refund
  MrhTx = MrhTx
  NoTx = NoTx
  Payers = {"lightning", "mrh"}
  Small = TRUE
  Honest = FALSE
  LostAnswers = TRUE
  MaxRestarts = 0
INVARIANTS TypeOK PreimageOnlyForFunds CompleteMeansReceived
PROPERTY KeepsPromise
SYMMETRY ClaimSymmetry
