SPECIFICATION MCSpec
CONSTANTS
  Parts = {"chain", "send", "details", "index", "call", "sync", "swaps", "payDirect", "payBySwap", "payOnchain", "receive", "android", "ios", "nwc", "addresses", "search", "asset", "table"}
  i1 = i1  i2 = i2
  Instances = {i1, i2}
  MaxIndex = 2
  MaxFailedPush = 0
  MaxEvents = 3
  w1 = w1  w2 = w2
  Swaps = {w1, w2}
  Capacity = 1
  MaxBreaks = 1
  Amounts = {18}
  Balances = {14, 22, 30}
  Pairs <- TwoPairs
  ClaimFees = {2}
  DrainFee = 1
  Width = 8
  MaxChanges = 2
  j1 = j1  j2 = j2
  Jobs = {j1, j2}
  JobKinds <- Messages
  MaxServices = 2
  Names = {"alby"}
  Calls = {1, 2}
  Triggers = 1
  MaxStarts = 2
  MaxListeners = 2
  Users = {1, 2, 3}
  Lifetime = 1
  MaxTip = 4
  CoinSeqs <- SomeCoins
  Targets = {1, 3, 6, 8, 11, 13}
  MaxIterations = 9
  AssetWallets <- SomeWallets
  Asked = {18, 20}
  Rates <- ARate
  Offers <- SomeOffers
  Deals <- SomeDeals
  LiquidFee = 4
  Txs = {1, 2}
  Syncs = {3}
  PaymentKinds = {"liquid", "asset", "payjoin", "sideswap", "receive"}
  Funds <- AmpleFunds
  Amount = 5
  Fee = 1
  QuotedFee = 2
  PayjoinFee = 3
INVARIANTS TypeOK SyncedMeansEqual NewsArrives AnswerIsTrue KeepsToQuote PreparedIsPayable JobsAreAnswered ClientsAreServed MrhAddressIsOwn PaymentsAreListed CoinsAreCounted
PROPERTY FieldIsKept
SYMMETRY Interchangeable
CHECK_DEADLOCK FALSE
