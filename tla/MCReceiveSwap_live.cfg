SPECIFICATION MCFairSpec
CONSTANTS
  k1 = k1  s1 = s1
  Syncs = {s1}
  Blocks = Blocks
  Status = Status
  ClaimTxs = {k1}
  Lockup = Lockup
  Replacement = Replacement
  Refund = Refund
  MrhTx = MrhTx
  NoTx = NoTx
  Payers = {"lightning", "mrh"}
  Small = FALSE
  Honest = TRUE
  LostAnswers = FALSE
  MaxRestarts = 1
INVARIANT ClaimNotForgotten
PROPERTIES LockupIsClaimed PaidBecomesComplete
