SPECIFICATION MCFairSpec
CONSTANTS
  u1 = u1
  k1 = k1
  Scenarios = {"lock"}
  Rescans = {}
  Blocks = Blocks
  Status = Status
  UserLockups = {u1}
  ClaimTxs = {k1}
  ServerLockup = ServerLockup
  Replacement = Replacement
  ServerRefund = ServerRefund
  NoTx = NoTx
  Offers = {"good"}
  ZeroConf = {FALSE}
  Timeouts = {"liquid"}
  LostAnswers = FALSE
  MaxRestarts = 0
PROPERTIES LockupIsSettled ServerLockupIsClaimed
