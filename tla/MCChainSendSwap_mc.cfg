SPECIFICATION MCSpec
CONSTANTS
  u1 = u1  u2 = u2
  k1 = k1
  r1 = r1
  Scenarios = {"lock", "rescan"}
  Rescans = {r1}
  Blocks = Blocks
  Status = Status
  UserLockups = {u1, u2}
  ClaimTxs = {k1}
  ServerLockup = ServerLockup
  Replacement = Replacement
  ServerRefund = ServerRefund
  NoTx = NoTx
  Offers = {"good", "short", "rbf"}
  ZeroConf = {TRUE, FALSE}
  Timeouts = {"bitcoin"}
  LostAnswers = FALSE
  MaxRestarts = 1
INVARIANTS TypeOK FundedOncePerStart PreimageOnlyForLockup ClaimNotForgotten
PROPERTIES KeepsPromise LockupIdIsKept
SYMMETRY LockupSymmetry
