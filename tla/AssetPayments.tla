--------------------------- MODULE AssetPayments ---------------------------
(***************************************************************************)
(* Payments of an asset that is not L-BTC, with SideSwap: by payjoin, where *)
(* SideSwap pays the fee of the network and is paid in the asset           *)
(* (payjoin/side_swap.rs), or from L-BTC, where SideSwap sells the asset   *)
(* (side_swap/api). SideSwap takes part in the transaction: what it offers *)
(* and what it returns is not known before.                                *)
(***************************************************************************)
EXTENDS UtxoSelect

CONSTANTS
  Wallets,    \* the coins of the asset and of L-BTC, sequences of values
  Asked,      \* amounts the receiver is to get
  Rates,      \* prices of the asset, and the base fee in it, as the wallet knows them
  Offers,     \* what SideSwap may offer for a payjoin: its coins, its price and its fee
  Deals,      \* what SideSwap may ask for the asset: [payer, fees]
  LiquidFee   \* the fee of a transaction without SideSwap

VARIABLES
  coins,   \* of the wallet
  step,    \* of the payment
  quote,   \* what prepare_send_payment returned
  offer,   \* StartResponse, or AssetSwap
  pset,    \* what was constructed
  signed   \* what the wallet signed

assetVars == <<coins, step, quote, offer, pset, signed>>
Balance(a) == Total(coins[a])

Nothing == [kind |-> "none"]

AssetInit ==
  /\ coins \in Wallets
  /\ step = "idle" /\ quote = Nothing /\ offer = Nothing /\ pset = Nothing /\ signed = Nothing

-----------------------------------------------------------------------------
(* Quotes *)

\* For one coin of each, with change
estimate_payjoin_tx_fee(rate, amount) ==
  {f \in {AssetFee(rate.price, rate.fixed, TxFee(1, 1, 4))} : Balance("asset") > amount /\ Balance("asset") >= amount + f}

build_tx(amount) == {f \in {LiquidFee} : Balance("asset") >= amount /\ Balance("lbtc") >= f}

\* With a fee in L-BTC, in the asset, or with either
PrepareAsset(amount, rate, estimated) ==
  LET fees == build_tx(amount)
      assetFees == IF estimated THEN estimate_payjoin_tx_fee(rate, amount) ELSE {}
  IN /\ step = "idle" /\ step' = "quoted"
     /\ fees \cup assetFees # {}
     /\ amount <= Balance("asset")
     /\ quote' = [kind |-> "asset", amount |-> amount, fees |-> fees, assetFees |-> assetFees]
     /\ UNCHANGED <<coins, offer, pset, signed>>

PrepareSideSwap(from, amount, deal) ==
  /\ step = "idle" /\ step' = "quoted"
  /\ Balance("lbtc") >= deal.payer + deal.fees
  /\ quote' = [kind |-> "sideswap", from |-> from, amount |-> amount, fees |-> {deal.fees}]
  /\ UNCHANGED <<coins, offer, pset, signed>>

-----------------------------------------------------------------------------
Goto(from, to) == step = from /\ step' = to

\* An answer that does not come, or is refused
Fail == step \in {"paying", "offered", "constructed"} /\ step' = "failed" /\ UNCHANGED <<coins, quote, offer, pset, signed>>

(* A payjoin, whether or not its fee was estimated *)

PayLiquidPayjoin ==
  /\ quote.kind = "asset" /\ Goto("quoted", "paying")
  /\ quote.amount <= Balance("asset")
  /\ UNCHANGED <<coins, quote, offer, pset, signed>>

StartPayjoin(o) ==
  /\ quote.kind = "asset" /\ Goto("paying", "offered")
  /\ coins.asset # << >> /\ o.server # << >>
  /\ offer' = o
  /\ UNCHANGED <<coins, quote, pset, signed>>

Selected == utxo_select(coins.asset, offer.server, offer, quote.amount)

ConstructPset ==
  /\ quote.kind = "asset" /\ step = "offered"
  /\ \/ \E s \in Selected : step' = "constructed" /\ pset' = s
     \/ Selected = {} /\ step' = "unpayable" /\ UNCHANGED pset
  /\ UNCHANGED <<coins, quote, offer, signed>>

\* Of what SideSwap returns only its signatures are taken
SignPayjoin ==
  /\ quote.kind = "asset" /\ Goto("constructed", "signed")
  /\ signed' = [kind |-> "payjoin", taken |-> pset.taken, change |-> pset.change, fee |-> pset.fee, network |-> pset.network]
  /\ UNCHANGED <<coins, quote, offer, pset>>

-----------------------------------------------------------------------------
(* A swap from L-BTC *)

\* The price may have changed
PaySideSwap(deal) ==
  /\ quote.kind = "sideswap" /\ Goto("quoted", "offered")
  /\ \A f \in quote.fees : deal.fees <= f
  /\ Balance("lbtc") >= deal.payer
  /\ offer' = deal
  /\ UNCHANGED <<coins, quote, pset, signed>>

\* The coins as they come, until they suffice
Enough == {n \in DOMAIN coins.lbtc : Value(coins.lbtc, 1..n) >= offer.payer}

\* Only L-BTC is looked at, whatever the payer wants to pay with
SwapStart ==
  /\ quote.kind = "sideswap" /\ Goto("offered", "constructed")
  /\ quote.from = "lbtc" /\ Enough # {}
  /\ pset' = [kind |-> "sideswap", sent |-> Value(coins.lbtc, 1..Min(Enough))]
  /\ UNCHANGED <<coins, quote, offer, signed>>

\* Mutant: it is not looked at what comes back
Verified_Change(received, change) == received = quote.amount

\* An output for each, of what was agreed: without change there is none, and the swap is refused
Verified(received, change) == received = quote.amount /\ change > 0 /\ change = pset.sent - offer.payer

\* What SideSwap constructed
SwapSign(received, change) ==
  /\ quote.kind = "sideswap" /\ Goto("constructed", "signed")
  /\ Verified(received, change)
  /\ signed' = [kind |-> "sideswap", spent |-> pset.sent - change, received |-> received]
  /\ UNCHANGED <<coins, quote, offer, pset>>

AssetNext ==
  \/ \E amount \in Asked :
       \/ \E rate \in Rates, estimated \in BOOLEAN : PrepareAsset(amount, rate, estimated)
       \/ \E from \in {"lbtc", "other"}, deal \in Deals : PrepareSideSwap(from, amount, deal)
  \/ PayLiquidPayjoin \/ ConstructPset \/ SignPayjoin \/ SwapStart \/ Fail
  \/ \E o \in Offers : StartPayjoin(o)
  \/ \E deal \in Deals : PaySideSwap(deal)
  \/ \E received \in Asked, change \in 0..Balance("lbtc") : SwapSign(received, change)
AssetSpec == AssetInit /\ [][AssetNext]_assetVars

-----------------------------------------------------------------------------
AssetTypeOK ==
  /\ coins \in Wallets
  /\ step \in {"idle", "quoted", "paying", "offered", "constructed", "signed", "unpayable", "failed"}
  /\ signed.kind \in {"none", "payjoin", "sideswap"}

\* What a payjoin may cost, by any of the coins SideSwap offers: the network gets its fee, SideSwap what it asks for
\* that, and what would not pay for an output is left. `change`: whether the wallet gets some of its asset back
FairFees(change) ==
  UNION {LET Options == [feeChange : change, serverChange : BOOLEAN, count : {Cardinality(S)}]
             Price(o) ==
               LET least == LeastFee(o, coins.asset)
                   networks == IF o.serverChange THEN {least} \cap 0..(Value(offer.server, S) - 1)
                               ELSE {Value(offer.server, S)} \cap least..(least + UpperBoundDelta)
               IN UNION {LET asset == AssetFee(offer.price, offer.fixed, n)
                             rest == Balance("asset") - quote.amount
                         IN IF o.feeChange THEN {asset} \cap 0..(rest - 1)
                            ELSE {rest} \cap asset..(asset + Priced(offer.price, UpperBoundDelta)) :
                         n \in networks}
         IN UNION {Price(o) : o \in Options} :
         S \in (SUBSET DOMAIN offer.server) \ {{}}}

\* A payjoin the wallet signs takes nothing but the amount and the fee, and no choice of coins has a smaller fee
\* (utxo_select); it is given up only when no choice leaves change. (For a payment of all there is, only the least that
\* a number of SideSwap's coins may leave is tried.) A swap takes what was agreed, for at most the quoted fee
\* (execute_swap)
SignedIsFair ==
  /\ signed.kind = "payjoin" =>
       signed.taken - signed.change = quote.amount + signed.fee /\ signed.fee = Min(FairFees(BOOLEAN))
  /\ step = "unpayable" => FairFees({TRUE}) = {}
  /\ signed.kind = "sideswap" =>
       signed.spent = offer.payer /\ signed.received = quote.amount /\ \A f \in quote.fees : offer.fees <= f
=============================================================================
