SPECIFICATION MCSpec
CONSTANTS
  k1 = k1
  f1 = f1
  Scenarios = {"claim"}
  Calls = {"accept", "refund", "rescan"}
  Blocks = Blocks
  Status = Status
  ClaimTxs = {k1}
  RefundTxs = {f1}
  ServerRefund = ServerRefund
  ServerClaim = ServerClaim
  NoTx = NoTx
  Zero = {FALSE}
  Deposits = {"agreed"}
  More = FALSE
  Quotes = {1}
  Offers = {"good"}
  Timeouts = {}
  LostAnswers = FALSE
  MaxRestarts = 0
INVARIANT RefundIdIsReal
