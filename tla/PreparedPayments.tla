-------------------------- MODULE PreparedPayments --------------------------
(***************************************************************************)
(* A payment is quoted by a `prepare_*` call and made by a later call that *)
(* is given the quote. In between the wallet, the cached balance and the   *)
(* fees of Boltz may change: the second call computes everything again and *)
(* refuses a quote that no longer holds (sdk.rs). Amounts are satoshi.     *)
(***************************************************************************)
EXTENDS Naturals

CONSTANTS
  Amounts,    \* what invoices and requests ask for
  Balances,   \* what the wallet may hold
  Pairs,      \* the fees and limits Boltz may publish
  ClaimFees,  \* what the claim of a payment to Bitcoin costs at the fee rates a user may ask for
  DrainFee,   \* the fee of a transaction without a change output
  Width,      \* an amount is an unsigned number of this many bits
  MaxChanges  \* how often the surroundings change

VARIABLES
  wallet,   \* what the on-chain wallet can spend
  info,     \* the cached WalletInfo: [balance, pending]
  pair,     \* what Boltz publishes now
  quote,    \* the last answer of a prepare call
  swaps,    \* the send swap of the invoice over each amount
  sending,  \* a swap whose lockup is to be built
  paid,     \* ghost: what the payment of the last quote moved
  accepted, \* ghost: the most that an accepted quote over the invoice of an amount allows to leave
  fresh,    \* ghost: nothing changed since the quote
  changes   \* ghost: MaxChanges bounds it

priceVars == <<wallet, info, pair, quote, swaps, sending, paid, accepted, fresh, changes>>

-----------------------------------------------------------------------------
(* Arithmetic *)

\* Release builds wrap around
Minus(a, b) == (a + 2^Width - b) % 2^Width

CeilDiv(a, b) == (a + b - 1) \div b
boltz(p, a) == CeilDiv(a * p.percentage, 100)
total(p, a) == boltz(p, a) + p.miner
within(p, a) == p.minimal <= a /\ a <= p.maximal

ChangeFee == DrainFee + 1

(* The fees a transaction paying `a` may have: none when it cannot be built *)
build_tx(a) == {f \in {ChangeFee} : a + f < wallet}
build_drain_tx == {f \in {DrainFee} : f < wallet}
build_tx_or_drain_tx(a) == build_tx(a) \cup {f \in build_drain_tx : a + f = wallet}

validate_sufficient_funds(a, fees) == (a + fees) % 2^Width <= info.balance

\* One more at a time, as long as a swap delivers the next amount out of a lockup of `drained`
increment_receiver_amount(a, drained) ==
  LET Fits(n) == n + total(pair, n) <= drained IN
  {n \in {a} \cup a..drained : (\A m \in (a + 1)..n : Fits(m)) /\ ~Fits(n + 1)}

\* What the user locks for a chain swap that pays `a` after the service fee
user_lockup_amount(a) == CeilDiv(a * 100, 100 - pair.percentage)

-----------------------------------------------------------------------------
(* What is assumed of the constants *)

\* The wallet holds amounts that a number of Width bits can be. Boltz asks for at most half of an amount, and never
\* for one satoshi: its miner's fee comes on top of its percentage. The least that a chain swap locks up pays for
\* its claim: the quote of a drain is computed without a check of that
AmountsAreReal ==
  /\ 2^Width \in Nat \ {0} /\ DrainFee \in Nat /\ MaxChanges \in Nat
  /\ Amounts \subseteq Nat /\ ClaimFees \subseteq Nat /\ Balances \subseteq 0..(2^Width - 1)
PairsAreReal ==
  \A p \in Pairs :
    /\ p \in [percentage : 0..50, miner : Nat, claim : Nat, server : Nat, minimal : Nat, maximal : Nat]
    /\ \A a \in p.minimal..p.maximal :
         total(p, a) # 1 /\ \A c \in ClaimFees \cup {p.claim} : boltz(p, a) + c + p.server < a

-----------------------------------------------------------------------------
NoQuote == [kind |-> "None", drain |-> FALSE, mrh |-> FALSE, invoice |-> 0, receiver |-> 0, boltz |-> 0,
            claim |-> 0, fees |-> 0]
NoSwap == [state |-> "None", expected |-> 0]
Nowhere == [kind |-> "None", amount |-> 0, quote |-> NoQuote]
NoPayment == [kind |-> "None", quote |-> NoQuote, amount |-> 0, fee |-> 0, balance |-> 0]

PriceInit ==
  /\ wallet \in Balances
  /\ info = [balance |-> wallet, pending |-> FALSE]
  /\ pair \in Pairs
  /\ quote = NoQuote
  /\ swaps = [a \in Amounts |-> NoSwap]
  /\ sending = Nowhere
  /\ paid = NoPayment
  /\ accepted = [a \in Amounts |-> 0]
  /\ fresh = FALSE
  /\ changes = 0

-----------------------------------------------------------------------------
(* Quotes *)

Quoted(q) ==
  /\ quote' = q
  /\ fresh' = (info.balance = wallet /\ ~info.pending)
  /\ paid' = NoPayment
  /\ UNCHANGED <<wallet, info, pair, swaps, sending, accepted, changes>>

QuotedSend(q) == validate_sufficient_funds(q.receiver, q.fees) /\ Quoted(q)

CanDrain == ~info.pending

PrepareLiquid(a) ==
  \E f \in build_tx_or_drain_tx(a) : QuotedSend([NoQuote EXCEPT !.kind = "liquid", !.receiver = a, !.fees = f])

PrepareLiquidDrain ==
  /\ CanDrain
  /\ \E f \in build_drain_tx :
       QuotedSend([NoQuote EXCEPT !.kind = "liquid", !.drain = TRUE, !.receiver = Minus(info.balance, f), !.fees = f])

\* A swap that delivers `a`: the fees of Boltz and of the lockup
QuotedSwap(q, a) ==
  \E f \in build_tx_or_drain_tx(a + total(pair, a)) :
    QuotedSend([q EXCEPT !.receiver = a, !.boltz = total(pair, a), !.fees = total(pair, a) + f])

\* The invoice names a Liquid address (magic routing hint): it is paid directly
PrepareBolt11(a, mrh, drain) ==
  LET q == [NoQuote EXCEPT !.kind = "bolt11", !.mrh = mrh, !.drain = drain, !.invoice = a] IN
  /\ within(pair, a)
  /\ \/ mrh /\ drain
        /\ \E f \in build_drain_tx : QuotedSend([q EXCEPT !.receiver = Minus(info.balance, f), !.fees = f])
     \/ mrh /\ ~drain
        /\ \E f \in build_tx_or_drain_tx(a) : QuotedSend([q EXCEPT !.receiver = a, !.fees = f])
     \/ ~mrh /\ QuotedSwap(q, a)

\* Whether the offer's invoice has a hint is known when it is fetched, to be paid
PrepareBolt12(a, mrh) ==
  /\ within(pair, a)
  /\ QuotedSwap([NoQuote EXCEPT !.kind = "bolt12", !.mrh = mrh, !.invoice = a], a)

PrepareBolt12Drain(mrh) ==
  /\ CanDrain
  /\ \E f \in build_drain_tx :
       LET drained == Minus(info.balance, f)
           dummy == Minus(drained, total(pair, drained))
       IN \E a \in increment_receiver_amount(dummy, drained) :
            /\ within(pair, a)
            /\ a + total(pair, a) = drained
            /\ QuotedSend([kind |-> "bolt12", drain |-> TRUE, mrh |-> mrh, invoice |-> a, receiver |-> a,
                           boltz |-> total(pair, a), claim |-> 0, fees |-> total(pair, a) + f])

\* prepare_lnurl_pay finds out what a drain delivers, asks for an invoice over it and has that prepared
PrepareLnUrlPayDrain(mrh) ==
  /\ CanDrain
  /\ \E f \in build_drain_tx :
       LET drained == Minus(info.balance, f)
       IN \E a \in increment_receiver_amount(Minus(drained, total(pair, drained)), drained) :
            a \in Amounts /\ a + total(pair, a) = drained /\ PrepareBolt11(a, mrh, TRUE)

\* What the claim transaction costs: as Boltz estimates, or at the rate that is asked for
claim_fees == ClaimFees \cup {pair.claim}

\* A chain swap that pays `a` with a claim for `c`: the fees of Boltz, the server and the claim
ServiceFees(a, c) == c + pair.server + user_lockup_amount(a + c + pair.server) - (a + c + pair.server)

PreparePayOnchain(a) ==
  \E c \in claim_fees :
    LET service == ServiceFees(a, c) IN
    /\ within(pair, a + service)
    /\ \E f \in build_tx(a + service) :
         /\ a + service + f <= info.balance
         /\ Quoted([NoQuote EXCEPT !.kind = "onchain", !.receiver = a, !.boltz = service, !.claim = c,
                    !.fees = service + f])

PreparePayOnchainDrain ==
  /\ CanDrain
  /\ \E f \in build_drain_tx, c \in claim_fees :
       LET lockup == Minus(info.balance, f)
           service == boltz(pair, lockup) + c + pair.server
       IN /\ within(pair, lockup)
          /\ Quoted([NoQuote EXCEPT !.kind = "onchain", !.drain = TRUE, !.receiver = lockup - service,
                     !.boltz = service, !.claim = c, !.fees = service + f])

PrepareReceive(kind, a) ==
  /\ within(pair, a)
  /\ Quoted([NoQuote EXCEPT !.kind = kind, !.receiver = a,
             !.fees = IF kind = "lightning" THEN total(pair, a) ELSE boltz(pair, a) + pair.claim + pair.server])

-----------------------------------------------------------------------------
(* Payments *)

Leaves(a, f, kind, q) ==
  /\ wallet' = wallet - a - f
  /\ fresh' = FALSE
  /\ paid' = [kind |-> kind, quote |-> q, amount |-> a, fee |-> f, balance |-> info.balance]

\* The transaction may not cost more than the quote says
pay_liquid_onchain(a, fees) == {f \in build_tx_or_drain_tx(a) : f <= fees}

PayLiquid ==
  /\ quote.kind = "liquid"
  /\ validate_sufficient_funds(quote.receiver, quote.fees)
  /\ \E f \in pay_liquid_onchain(quote.receiver, quote.fees) : Leaves(quote.receiver, f, "direct", quote)
  /\ UNCHANGED <<info, pair, quote, swaps, sending, accepted, changes>>

Affordable == quote.invoice + quote.fees <= info.balance

\* A drain is computed again, from what the wallet holds now
PayHinted ==
  /\ quote.kind \in {"bolt11", "bolt12"} /\ quote.mrh
  /\ Affordable
  /\ \/ ~quote.drain /\ \E f \in pay_liquid_onchain(quote.invoice, quote.fees) : Leaves(quote.invoice, f, "direct", quote)
     \/ /\ quote.drain
        /\ \E d \in build_drain_tx : LET a == Minus(info.balance, d) IN
             \E f \in pay_liquid_onchain(a, d) : Leaves(a, f, "drained", quote)
  /\ UNCHANGED <<info, pair, quote, swaps, sending, accepted, changes>>

\* Mutant: the fees may have changed
SwapFeesHold_Unchecked == within(pair, quote.invoice)

\* The quoted fees are still those of the swap and its lockup
SwapFeesHold ==
  /\ within(pair, quote.invoice)
  /\ \E f \in build_tx_or_drain_tx(quote.invoice + total(pair, quote.invoice)) :
       quote.fees = total(pair, quote.invoice) + f

Allowed(q) == q.receiver + q.fees

\* The swap of a bolt11 invoice that was not funded is used again, as Boltz created it
SendPaymentViaSwap ==
  /\ quote.kind \in {"bolt11", "bolt12"} /\ ~quote.mrh /\ sending = Nowhere
  /\ Affordable /\ SwapFeesHold
  /\ LET a == quote.invoice
         new == a + total(pair, a)
         used == quote.kind = "bolt11" /\ swaps[a].state \in {"Created", "TimedOut"}
     IN /\ quote.kind = "bolt11" => swaps[a].state # "Pending"
        /\ sending' = [kind |-> quote.kind, amount |-> IF used THEN swaps[a].expected ELSE new, quote |-> quote]
        /\ IF quote.kind = "bolt11"
           THEN /\ swaps' = [swaps EXCEPT ![a] = [state |-> "Created", expected |-> IF used THEN @.expected ELSE new]]
                /\ accepted' = [accepted EXCEPT ![a] = IF Allowed(quote) > @ THEN Allowed(quote) ELSE @]
           ELSE UNCHANGED <<swaps, accepted>>
  /\ fresh' = FALSE
  /\ UNCHANGED <<wallet, info, pair, quote, paid, changes>>

\* What Boltz asks to be locked up for the amount and the claim that were quoted, by its prices of now
QuotedLockup == quote.receiver + ServiceFees(quote.receiver, quote.claim)

\* Mutant: a drain is not told from another payment
OnchainFees_NoDrain == {ServiceFees(quote.receiver, quote.claim) + f : f \in build_tx(QuotedLockup)}

\* The fee is that of a drain when the quote is the whole balance
OnchainFees ==
  {ServiceFees(quote.receiver, quote.claim) + f :
     f \in IF quote.receiver + quote.fees = info.balance THEN build_drain_tx ELSE build_tx(QuotedLockup)}

OnchainFeesHold ==
  /\ within(pair, QuotedLockup)
  /\ quote.fees \in OnchainFees
  /\ quote.receiver + quote.fees <= info.balance

\* Boltz creates the swap with the lockup that was computed: it is given the hash of the prices
PayOnchain ==
  /\ quote.kind = "onchain" /\ sending = Nowhere
  /\ OnchainFeesHold
  /\ sending' = [kind |-> "onchain", amount |-> QuotedLockup, quote |-> quote]
  /\ fresh' = FALSE
  /\ UNCHANGED <<wallet, info, pair, quote, swaps, paid, accepted, changes>>

\* try_lockup, lockup_funds: whatever the transaction costs by now
Lockup ==
  /\ sending # Nowhere
  /\ \/ /\ \E f \in build_tx_or_drain_tx(sending.amount) : Leaves(sending.amount, f, sending.kind, sending.quote)
        /\ swaps' = IF sending.kind = "bolt11" THEN [swaps EXCEPT ![sending.quote.invoice].state = "Pending"] ELSE swaps
     \/ build_tx_or_drain_tx(sending.amount) = {} /\ UNCHANGED <<wallet, fresh, paid, swaps>>
  /\ sending' = Nowhere
  /\ UNCHANGED <<info, pair, quote, accepted, changes>>

\* create_bolt11_receive_swap, create_receive_chain_swap
CreateReceiveSwap ==
  /\ quote.kind \in {"lightning", "address"}
  /\ LET fees == IF quote.kind = "lightning" THEN total(pair, quote.receiver)
                 ELSE boltz(pair, quote.receiver) + pair.claim + pair.server
     IN /\ quote.kind = "address" => within(pair, quote.receiver)
        /\ quote.fees = fees
        /\ paid' = [kind |-> quote.kind, quote |-> quote, amount |-> quote.receiver - fees, fee |-> fees, balance |-> 0]
  /\ fresh' = FALSE
  /\ UNCHANGED <<wallet, info, pair, quote, swaps, sending, accepted, changes>>

-----------------------------------------------------------------------------
(* The surroundings *)

Changes == changes < MaxChanges /\ changes' = changes + 1 /\ fresh' = FALSE

\* The wallet receives, or another payment leaves it
WalletChanges ==
  /\ Changes /\ wallet' \in Balances \ {wallet}
  /\ UNCHANGED <<info, pair, quote, swaps, sending, paid, accepted>>

\* update_wallet_info: unconfirmed receipts are spendable, and not in the balance
UpdateWalletInfo ==
  /\ \E pending \in BOOLEAN, b \in Balances \cup {wallet} :
       /\ pending \/ b = wallet
       /\ b <= wallet
       /\ info' = [balance |-> b, pending |-> pending]
  /\ info' # info
  /\ Changes
  /\ UNCHANGED <<wallet, pair, quote, swaps, sending, paid, accepted>>

PairChanges ==
  /\ Changes /\ pair' \in Pairs \ {pair}
  /\ UNCHANGED <<wallet, info, quote, swaps, sending, paid, accepted>>

TimesOut ==
  /\ \E a \in Amounts : swaps[a].state = "Created" /\ swaps' = [swaps EXCEPT ![a].state = "TimedOut"]
  /\ sending = Nowhere
  /\ UNCHANGED <<wallet, info, pair, quote, sending, paid, accepted, fresh, changes>>

PriceNext ==
  \/ \E a \in Amounts : PrepareLiquid(a) \/ PreparePayOnchain(a)
  \/ \E a \in Amounts, mrh, drain \in BOOLEAN : PrepareBolt11(a, mrh, drain)
  \/ \E a \in Amounts, mrh \in BOOLEAN : PrepareBolt12(a, mrh)
  \/ \E mrh \in BOOLEAN : PrepareBolt12Drain(mrh) \/ PrepareLnUrlPayDrain(mrh)
  \/ \E a \in Amounts, kind \in {"lightning", "address"} : PrepareReceive(kind, a)
  \/ PrepareLiquidDrain \/ PreparePayOnchainDrain
  \/ PayLiquid \/ PayHinted \/ SendPaymentViaSwap \/ PayOnchain \/ Lockup \/ CreateReceiveSwap
  \/ WalletChanges \/ UpdateWalletInfo \/ PairChanges \/ TimesOut

PriceSpec == PriceInit /\ [][PriceNext]_priceVars

-----------------------------------------------------------------------------
\* Every amount is a number of the wallet's, the quote and the swaps have their form
PriceTypeOK ==
  /\ wallet \in Nat /\ info \in [balance : Nat, pending : BOOLEAN] /\ pair \in Pairs
  /\ quote.fees \in Nat /\ quote.receiver \in Nat /\ quote.boltz \in Nat
  /\ swaps \in [Amounts -> [state : {"None", "Created", "TimedOut", "Pending"}, expected : Nat]]
  /\ sending.amount \in Nat /\ fresh \in BOOLEAN

\* What leaves the wallet, and what a swap to receive delivers, is what the accepted quote allows: a direct
\* payment is of the quoted amount and costs no more, and a lockup is no more than the quote without the
\* cheapest lockup fee. An unfunded swap that is used again is locked up as an earlier quote allowed
KeepsToQuote ==
  /\ paid.kind = "direct" => paid.amount = paid.quote.receiver /\ paid.fee <= paid.quote.fees
  /\ paid.kind = "drained" => paid.amount + paid.fee <= paid.balance
  /\ sending.kind = "bolt11" => sending.amount + DrainFee <= accepted[sending.quote.invoice]
  /\ sending.kind \in {"bolt12", "onchain"} => sending.amount + DrainFee <= Allowed(sending.quote)
  /\ paid.kind \in {"lightning", "address"} => paid.amount + paid.quote.fees = paid.quote.receiver

\* A quote is not refused while nothing changed
PreparedIsPayable ==
  fresh =>
    /\ quote.kind = "liquid" =>
         validate_sufficient_funds(quote.receiver, quote.fees) /\ pay_liquid_onchain(quote.receiver, quote.fees) # {}
    /\ quote.kind \in {"bolt11", "bolt12"} /\ ~quote.mrh => Affordable /\ SwapFeesHold
    /\ quote.kind \in {"bolt11", "bolt12"} /\ quote.mrh /\ quote.invoice <= quote.receiver =>
         Affordable /\ pay_liquid_onchain(quote.receiver, quote.fees) # {}
    /\ quote.kind = "onchain" /\ ~quote.drain => OnchainFeesHold
    /\ quote.kind = "onchain" /\ quote.drain =>
         \E fees \in OnchainFees : fees <= quote.fees /\ quote.fees <= fees + 1
=============================================================================
