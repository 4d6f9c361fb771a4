SPECIFICATION MCSpec
CONSTANTS
  k1 = k1
  f1 = f1  f2 = f2
  Scenarios = {"fees", "refund", "again", "claim", "crash"}
  Calls = {"accept", "refund", "rescan"}
  Blocks = Blocks
  Status = Status
  ClaimTxs = {k1}
  RefundTxs = {f1, f2}
  ServerRefund = ServerRefund
  ServerClaim = ServerClaim
  NoTx = NoTx
  Zero = {TRUE, FALSE}
  Deposits = {"agreed", "unexpected"}
  More = TRUE
  Quotes = {1, 2}
  Offers = {"good", "short", "rbf"}
  Timeouts = {"bitcoin"}
  LostAnswers = FALSE
  MaxRestarts = 1
INVARIANTS TypeOK PreimageOnlyForLockup ClaimNotForgotten
PROPERTY KeepsPromise
SYMMETRY RefundSymmetry
