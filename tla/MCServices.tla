----------------------------- MODULE MCServices -----------------------------
(***************************************************************************)
(* The services around the swaps, for TLC. They share no state: a          *)
(* behaviour is one of a part of one of them, and leaves the others alone. *)
(***************************************************************************)
EXTENDS RealtimeSync, Notifications, NwcService, Addresses, PreparedPayments, NotificationJobs, Payments, TLC

CONSTANTS
  Parts,                                                  \* which of the ones below
  MaxListeners,                                           \* bound: listeners of NwcService
  CoinSeqs, Targets, MaxIterations,                       \* of UtxoSearch
  AssetWallets, Asked, Rates, Offers, Deals, LiquidFee    \* of AssetPayments

VARIABLES
  part,
  offered, wanted, searching, iteration, index, selection, reached, available, best, selected,
  coins, step, asked, offer, pset, signed

Search == INSTANCE UtxoSearch WITH Wallets <- CoinSeqs
Asset == INSTANCE AssetPayments WITH Wallets <- AssetWallets, quote <- asked

ASSUME PricesAreReal == AmountsAreReal /\ PairsAreReal
ASSUME JobsAreReal == MaxServices \in Nat
ASSUME TableIsReal == PaymentsAreReal

searchVars == <<offered, wanted, searching, iteration, index, selection, reached, available, best, selected>>
assetVars == <<coins, step, asked, offer, pset, signed>>
serviceVars == <<syncVars, newsVars, priceVars, jobVars, nwcVars, addressVars>>
MCVars == <<part, serviceVars, searchVars, assetVars, paymentVars>>

\* One record is synchronised
Syncing(r) ==
  /\ SyncNext
  /\ \A i \in Instances : exists'[i] \subseteq {r}
  /\ r # "send" => events' < MaxEvents

\* Recovery that finds nothing new sends an id again: that is left to the proofs
NothingAgain == rowVars' = rowVars /\ task' = task => payments' = payments /\ unheard' = unheard

\* call: a call waits for the payment of one swap. The socket breaks once the call has its answer, if it waits for the chain
Waiting ==
  /\ NewsNext /\ NothingAgain /\ firstSync' = firstSync
  /\ \E s \in Swaps : state'[s] = "None"
  /\ waiter'.zeroConf => breaks' = 0
  /\ breaks' # breaks => StreamBreaks /\ waiter.at = "done"

\* sync: one swap during the first sync, which may fail, as may the handling of a status or of an event
Starting ==
  /\ NewsNext /\ NothingAgain /\ waiter' = waiter
  /\ \E s \in Swaps : state'[s] = "None"
  /\ breaks' # breaks => FirstSync \/ HandleUpdateFails \/ EmitFails

\* swaps: all of them fill the channels while the socket breaks. One of them gets as far as Boltz's lockup, and none expires or completes
AllSwaps ==
  /\ NewsNext /\ NothingAgain /\ waiter' = waiter /\ firstSync' = firstSync
  /\ \A s \in Swaps : boltzAt'[s] # "expired" /\ state'[s] # "Complete"
  /\ Cardinality({s \in Swaps : boltzAt'[s] \in {"mempool", "locked"}}) <= 1
  /\ breaks' # breaks => StreamBreaks \/ ConnectFails

\* Payments of one kind are quoted and made
Quotes == [payDirect |-> {"liquid"}, payBySwap |-> {"bolt11", "bolt12"}, payOnchain |-> {"onchain"},
          receive |-> {"lightning", "address"}]
Quoting(p) == PriceNext /\ quote'.kind \in Quotes[p] \cup {"None"}

TwoPairs == {[percentage |-> p, miner |-> 1, claim |-> 1, server |-> 1, minimal |-> 6, maximal |-> 40] : p \in {10, 20}}

\* One job waits for a swap, the other is of any kind
Messages == [j \in Jobs |-> IF j = CHOOSE k \in Jobs : TRUE THEN {"swap"}
                           ELSE {"swap", "invoiceRequest", "lnurlPayInfo", "lnurlPayInvoice", "lnurlPayVerify"}]

\* The users are interchangeable: they ask for their addresses in order, before the last block. The
\* first two do not ask at once, and one is paid
Asking ==
  /\ AddressNext /\ ~raced'
  /\ tip = MaxTip => \A u \in Users : users'[u].at # "none" => users[u].at # "none"
  /\ Cardinality({u \in Users : heights'[u] <= MaxTip}) <= 1
  /\ \A u, v \in Users : u < v /\ users'[v].at # "none" => users'[u].at # "none"

\* Coins of several values, and prices that do not divide the fees
SomeCoins == UNION {[1..n -> {1, 2, 4, 5, 7}] : n \in 1..3} \cup {<<4, 1, 5, 2>>, <<2, 5, 4, 7>>, <<3, 6, 6, 9>>}
SomeWallets == {[asset |-> <<a>>, lbtc |-> <<50>>] : a \in {28, 36, 43, 44, 51, 67, 70}}
               \cup {[asset |-> <<24, b>>, lbtc |-> <<30, 20>>] : b \in {11, 19}}
SomeOffers == {[server |-> s, price |-> [num |-> 1, den |-> d], fixed |-> 2] :
                 s \in {<<60>>, <<40, 39>>, <<200, 45, 37>>, <<30, 20, 10>>}, d \in {2, 3, 10}}
SomeDeals == {[payer |-> p, fees |-> f] : p \in {20, 30}, f \in {1, 2}}
ARate == {[price |-> [num |-> 1, den |-> 4], fixed |-> 2]}

\* A payment by payjoin next to one of L-BTC, one of an asset alone, or one that is bought next to one that is received;
\* one call at a time
MixedKinds ==
  LET t == CHOOSE u \in Txs : TRUE IN
  /\ kind[t] \in {"payjoin", "asset", "sideswap"}
  /\ \A u \in Txs \ {t} : kind[u] = IF kind[t] = "sideswap" THEN "receive" ELSE "liquid"

\* The network and the clock do their part before a sync lists the payments; only payments of an asset are lost,
\* by payjoin before the other payment begins
ActOutside ==
  \/ \E t \in Txs : ~table[t].old /\ table'[t].old
  \/ chain' # chain /\ \A t \in Txs : senders[t] = "broadcast" => senders'[t] = "broadcast"
Paying ==
  /\ PaymentNext
  /\ Cardinality({t \in Txs : senders'[t] \notin {"idle", "done", "failed"}}) <= 1
  /\ ActOutside => \A s \in Syncs : syncs[s].at \in {"idle", "list"}
  /\ \A t \in Txs :
       /\ \/ kind[t] = "asset"
          \/ kind[t] = "payjoin" /\ \A u \in Txs \ {t} : senders'[u] = "idle"
          \/ ~table'[t].old /\ (chain[t] = "mempool" => chain'[t] # "none")
       /\ senders'[t] # "idle" /\ kind[t] = "liquid" => \A u \in Txs : kind[u] # "asset"
AmpleFunds == [lbtc |-> 14, asset |-> 14]

\* The calls are interchangeable: the first one that is free begins; after the last start, when no other is there
Calling ==
  /\ NwcNext /\ added' <= MaxListeners
  /\ \A d \in Calls : calls[d].at = "none" /\ calls'[d].at # "none" =>
       \A c \in Calls \ {d} : IF starts = MaxStarts THEN calls[c].at = "none" ELSE c < d => calls[c].at # "none"

\* What a behaviour leaves alone stays in one of its initial states. A search and a payment of an asset do not begin
None == << >>
AnyPrice == wallet = (CHOOSE b \in Balances : TRUE) /\ pair = CHOOSE p \in Pairs : TRUE
AnyKind == kind = [t \in Txs |-> CHOOSE k \in PaymentKinds : TRUE]
NoSearch == /\ offered = None /\ wanted = None /\ searching = None /\ iteration = None /\ index = None
            /\ selection = None /\ reached = None /\ available = None /\ best = None /\ selected = None
NoAsset == coins = None /\ step = None /\ asked = None /\ offer = None /\ pset = None /\ signed = None

MCInit ==
  /\ part \in Parts /\ SyncInit /\ NewsInit /\ NwcInit /\ AddressInit /\ JobInit
  /\ PriceInit /\ (part \in DOMAIN Quotes \/ AnyPrice)
  /\ PaymentInit /\ IF part = "table" THEN MixedKinds ELSE AnyKind
  /\ IF part = "search" THEN Search!Init ELSE NoSearch
  /\ IF part = "asset" THEN Asset!AssetInit ELSE NoAsset
MCNext ==
  /\ UNCHANGED part
  /\ \/ /\ UNCHANGED <<searchVars, assetVars, paymentVars>>
        /\ \/ \E r \in Records : part = r /\ Syncing(r) /\ UNCHANGED <<addressVars, newsVars, priceVars, jobVars, nwcVars>>
           \/ part = "call" /\ Waiting /\ UNCHANGED <<addressVars, syncVars, priceVars, jobVars, nwcVars>>
           \/ part = "sync" /\ Starting /\ UNCHANGED <<addressVars, syncVars, priceVars, jobVars, nwcVars>>
           \/ part = "swaps" /\ AllSwaps /\ UNCHANGED <<addressVars, syncVars, priceVars, jobVars, nwcVars>>
           \/ \E p \in DOMAIN Quotes : part = p /\ Quoting(p) /\ UNCHANGED <<addressVars, syncVars, newsVars, jobVars, nwcVars>>
           \/ part = "android" /\ NextAndroid /\ UNCHANGED <<addressVars, syncVars, newsVars, priceVars, nwcVars>>
           \/ part = "ios" /\ NextIOS /\ UNCHANGED <<addressVars, syncVars, newsVars, priceVars, nwcVars>>
           \/ part = "nwc" /\ Calling /\ UNCHANGED <<addressVars, syncVars, newsVars, priceVars, jobVars>>
           \/ part = "addresses" /\ Asking /\ UNCHANGED <<syncVars, newsVars, priceVars, jobVars, nwcVars>>
     \/ part = "search" /\ Search!Next /\ UNCHANGED <<serviceVars, assetVars, paymentVars>>
     \/ part = "asset" /\ Asset!AssetNext /\ UNCHANGED <<serviceVars, searchVars, paymentVars>>
     \/ part = "table" /\ Paying /\ UNCHANGED <<serviceVars, searchVars, assetVars>>
MCSpec == MCInit /\ [][MCNext]_MCVars

\* What a behaviour leaves alone is not looked at
TypeOK ==
  /\ part \in Records => SyncTypeOK
  /\ part \in {"call", "sync", "swaps"} => NewsTypeOK
  /\ part \in DOMAIN Quotes => PriceTypeOK
  /\ part \in {"android", "ios"} => JobTypeOK
  /\ part = "nwc" => NwcTypeOK
  /\ part = "addresses" => AddressTypeOK
  /\ part = "search" => Search!TypeOK
  /\ part = "asset" => Asset!AssetTypeOK
  /\ part = "table" => PaymentTypeOK

\* What is summed up is right: no choice of coins leaves less or costs less, neither for a transaction nor for an asset,
\* and the balance of the payments is what can be spent
CoinsAreCounted ==
  /\ part = "search" => Search!SelectionIsBest
  /\ part = "asset" => Asset!SignedIsFair
  /\ part = "table" => BalanceIsCovered

Interchangeable == Permutations(Instances) \cup Permutations(Swaps)
=============================================================================
