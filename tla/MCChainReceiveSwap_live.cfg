SPECIFICATION MCFairSpec
CONSTANTS
  k1 = k1
  f1 = f1
  Scenarios = {"expire", "settle"}
  Calls = {}
  Blocks = Blocks
  Status = Status
  ClaimTxs = {k1}
  RefundTxs = {f1}
  ServerRefund = ServerRefund
  ServerClaim = ServerClaim
  NoTx = NoTx
  Zero = {FALSE}
  Deposits = {"agreed", "unexpected"}
  More = TRUE
  Quotes = {1}
  Offers = {"good"}
  Timeouts = {"bitcoin"}
  LostAnswers = FALSE
  MaxRestarts = 1
PROPERTIES ExpiredFundsAreRefundable ServerLockupIsClaimed
