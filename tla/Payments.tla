------------------------------ MODULE Payments ------------------------------
(***************************************************************************)
(* The table of payments and the cached balance (persist/mod.rs, sdk.rs),  *)
(* for payments that are no swaps. A call that broadcasts a transaction    *)
(* inserts its row before LWK knows it; a sync inserts what LWK knows,     *)
(* confirms it, and deletes what LWK did not find in time. Whoever changes *)
(* a row computes the balance again, all of them in parallel.              *)
(***************************************************************************)
EXTENDS Integers, FiniteSets, FiniteSetsExt

CONSTANTS
  Txs, Syncs,
  PaymentKinds,                       \* see Net
  Funds,                              \* of each asset, confirmed, before the payments
  Amount, Fee, QuotedFee, PayjoinFee  \* amounts of a payment: the fee its transaction has, at most the one that was quoted

VARIABLES
  kind,
  chain,      \* where the transaction of each payment is: none, mempool or block
  view,       \* the same, as LWK's last scan found it
  table,      \* payment_tx_data with payment_balance
  feesKnown,  \* the rows of payment_details that have asset_fees
  senders,    \* where the call that makes a payment is
  syncs,      \* where a sync is, the transactions it found, and what it read
  seen,       \* the transactions that an update_wallet_info read
  balance,    \* the cached WalletInfo
  clean,      \* ghost: who read what is still true
  sound,      \* ghost: the balance is from what is still true
  listed      \* ghost: a sync was the last to change the table

paymentVars == <<kind, chain, view, table, feesKnown, senders, syncs, seen, balance, clean, sound, listed>>
ghosts == <<clean, sound, listed>>

\* What is assumed of the constants: a payment is of an amount, and a sync is no call
PaymentsAreReal ==
  /\ Amount \in Nat \ {0} /\ {Fee, QuotedFee, PayjoinFee} \subseteq Nat
  /\ PaymentKinds \subseteq {"liquid", "asset", "payjoin", "sideswap", "receive"}
  /\ Txs \cap Syncs = {}

-----------------------------------------------------------------------------
(* What a transaction moves *)

\* payjoin: SideSwap pays the fee of the network and is paid in the asset. sideswap: the service fee is part of
\* what the payer pays
Net(t) ==
  CASE kind[t] = "liquid"   -> [lbtc |-> -(Amount + Fee), asset |-> 0]
    [] kind[t] = "asset"    -> [lbtc |-> -Fee, asset |-> -Amount]
    [] kind[t] = "payjoin"  -> [lbtc |-> 0, asset |-> -(Amount + PayjoinFee)]
    [] kind[t] = "sideswap" -> [lbtc |-> -(Amount + QuotedFee), asset |-> 0]
    [] kind[t] = "receive"  -> [lbtc |-> Amount, asset |-> 0]

Absolute(n) == IF n < 0 THEN -n ELSE n
Touched(t) == {a \in {"lbtc", "asset"} : Net(t)[a] # 0}
IsSend(t) == kind[t] # "receive"

Balance(a, S) == Funds[a] + MapThenSumSet(LAMBDA t : Net(t)[a], S)
Known(where) == {t \in Txs : where[t] # "none"}
Spendable(a) == Balance(a, Known(chain))

-----------------------------------------------------------------------------
(* Rows *)

NoRow == [listed |-> FALSE, confirmed |-> FALSE, old |-> FALSE, fees |-> 0, balances |-> << >>]
Listed == {t \in Txs : table[t].listed}
Unconfirmed == {t \in Listed : ~table[t].confirmed}

\* The timestamp stays, and so does the balance of an asset that is not given
insert_or_update_payment(t, confirmed, fees, balances) ==
  [table EXCEPT ![t] =
     [listed |-> TRUE, confirmed |-> confirmed, old |-> @.old, fees |-> fees,
      balances |-> [a \in DOMAIN balances \cup DOMAIN @.balances |->
                      IF a \in DOMAIN balances THEN balances[a] ELSE @.balances[a]]]]

PseudoTx(t) ==
  CASE kind[t] = "liquid"   -> [fees |-> QuotedFee, balances |-> [lbtc |-> Amount]]
    [] kind[t] = "asset"    -> [fees |-> QuotedFee, balances |-> [asset |-> Amount]]
    [] kind[t] = "payjoin"  -> [fees |-> Fee, balances |-> [asset |-> Amount + PayjoinFee]]
    [] kind[t] = "sideswap" -> [fees |-> QuotedFee, balances |-> [lbtc |-> Amount + QuotedFee]]

WalletBalances(t) ==
  [a \in Touched(t) |-> IF a = "lbtc" /\ IsSend(t) THEN Absolute(Net(t)[a]) - Fee ELSE Absolute(Net(t)[a])]

insert_or_update_payment_with_wallet_tx(t, where) ==
  insert_or_update_payment(t, where = "block", Fee, WalletBalances(t))

-----------------------------------------------------------------------------
(* The balance *)

\* A payment in an asset has no amount in sat, and its fee none if it was paid in the asset. A transaction that moves
\* both L-BTC and an asset is listed once for each
amount_sat(t, a) == IF a = "lbtc" THEN table[t].balances[a] ELSE 0
fees_sat(t, a) == IF a # "lbtc" /\ t \in feesKnown THEN 0 ELSE table[t].fees

\* What a pending payment takes from the balance
Total(t) == MapThenSumSet(LAMBDA a : amount_sat(t, a) + fees_sat(t, a), DOMAIN table[t].balances)

Sending == {t \in Unconfirmed : IsSend(t)}
Received == {t \in Unconfirmed : ~IsSend(t)}
SaturatingSub(a, b) == IF b > a THEN 0 ELSE a - b

\* Mutant: the payments that LWK does not know yet are forgotten
WalletInfo_Known(txs) ==
  [lbtc |-> Absolute(Balance("lbtc", {t \in Known(txs) : txs[t] = "block" \/ IsSend(t)})),
   asset |-> Absolute(Balance("asset", Known(txs))),
   sending |-> MapThenSumSet(Total, Sending), receiving |-> Cardinality(Received) * Amount]

\* What is confirmed less what is spent, without its sign, and less the pending payments that LWK does not know yet
WalletInfo(txs) ==
  [lbtc |-> SaturatingSub(Absolute(Balance("lbtc", {t \in Known(txs) : txs[t] = "block" \/ IsSend(t)})),
                          MapThenSumSet(Total, Sending \ Known(txs))),
   asset |-> Absolute(Balance("asset", Known(txs))),
   sending |-> MapThenSumSet(Total, Sending),
   receiving |-> Cardinality(Received) * Amount]

-----------------------------------------------------------------------------
NotSeen == [t \in Txs |-> "none"]
Idle == [at |-> "idle", txs |-> NotSeen, payments |-> NotSeen, unconfirmed |-> {}, todo |-> {}]

PaymentInit ==
  /\ kind \in [Txs -> PaymentKinds]
  /\ chain = NotSeen /\ view = NotSeen
  /\ table = [t \in Txs |-> NoRow] /\ feesKnown = {}
  /\ senders = [t \in Txs |-> "idle"] /\ syncs = [s \in Syncs |-> Idle]
  /\ seen = [p \in Txs \cup Syncs |-> NotSeen]
  /\ balance = [lbtc |-> Funds.lbtc, asset |-> Funds.asset, sending |-> 0, receiving |-> 0]
  /\ clean = {} /\ sound = TRUE /\ listed = TRUE

\* p changed the table, or what LWK knows
Changed(p) == clean' = clean \cap {p} /\ sound' = FALSE /\ listed' = FALSE

(* update_wallet_info of p: it reads the transactions, then the payments *)
ReadTransactions(p) == seen' = [seen EXCEPT ![p] = view]
WriteInfo(p) == balance' = WalletInfo(seen[p]) /\ seen' = [seen EXCEPT ![p] = NotSeen]

-----------------------------------------------------------------------------
(* A call that pays *)

Goes(t, from, to) == senders[t] = from /\ senders' = [senders EXCEPT ![t] = to]

CanPay(t) ==
  CASE kind[t] = "liquid"   -> Amount + QuotedFee <= balance.lbtc
    [] kind[t] = "asset"    -> Amount <= balance.asset /\ QuotedFee <= balance.lbtc
    [] kind[t] = "payjoin"  -> Amount <= balance.asset
    [] kind[t] = "sideswap" -> Amount + QuotedFee <= balance.lbtc
    [] kind[t] = "receive"  -> FALSE

\* The funds are checked, and the transaction is built of what LWK knows
BuildTx(t) ==
  /\ CanPay(t)
  /\ \A a \in Touched(t) : Balance(a, Known(view)) + Net(t)[a] >= 0
  /\ Goes(t, "idle", "broadcast")
  /\ UNCHANGED <<kind, chain, view, table, feesKnown, syncs, seen, balance, ghosts>>

\* The network takes it if nothing else has spent the same; the answer may be lost
Broadcast(t) ==
  /\ \/ /\ \A a \in Touched(t) : Spendable(a) + Net(t)[a] >= 0
        /\ chain' = [chain EXCEPT ![t] = "mempool"]
        /\ Goes(t, "broadcast", "record") \/ Goes(t, "broadcast", "failed")
     \/ Goes(t, "broadcast", "failed") /\ UNCHANGED chain
  /\ UNCHANGED <<kind, view, table, feesKnown, syncs, seen, balance, ghosts>>

\* Before LWK knows the transaction
Record(t) ==
  /\ Goes(t, "record", "emit")
  /\ table' = insert_or_update_payment(t, FALSE, PseudoTx(t).fees, PseudoTx(t).balances)
  /\ feesKnown' = IF kind[t] = "payjoin" THEN feesKnown \cup {t} ELSE feesKnown
  /\ Changed(t)
  /\ UNCHANGED <<kind, chain, view, syncs, seen, balance>>

\* emit_payment_updated
Emit(t) ==
  /\ t \in Listed /\ Goes(t, "emit", "write") /\ ReadTransactions(t)
  /\ clean' = clean \cup {t}
  /\ UNCHANGED <<kind, chain, view, table, feesKnown, syncs, balance, sound, listed>>

EmitNothing(t) ==
  /\ t \notin Listed /\ Goes(t, "emit", "done")
  /\ UNCHANGED <<kind, chain, view, table, feesKnown, syncs, seen, balance, ghosts>>

WriteBalance(t) ==
  /\ Goes(t, "write", "done") /\ WriteInfo(t)
  /\ sound' = (t \in clean) /\ clean' = clean \ {t}
  /\ UNCHANGED <<kind, chain, view, table, feesKnown, syncs, listed>>

-----------------------------------------------------------------------------
(* A sync *)

SyncAt(s, from) == syncs[s].at = from
Goto(s, to) == syncs' = [syncs EXCEPT ![s].at = to]

\* A transaction may reach LWK's server later than it was broadcast
Scan(s) ==
  /\ SyncAt(s, "idle")
  /\ \E late \in SUBSET {t \in Txs : chain[t] = "mempool" /\ view[t] = "none"} :
       /\ view' = [t \in Txs |-> IF t \in late THEN "none" ELSE chain[t]]
       /\ syncs' = [syncs EXCEPT ![s] = [Idle EXCEPT !.at = "list", !.txs = view']]
  /\ Changed(s)
  /\ UNCHANGED <<kind, chain, table, feesKnown, senders, seen, balance>>

ListPayments(s) ==
  /\ SyncAt(s, "list")
  /\ syncs' = [syncs EXCEPT ![s].at = "loop", ![s].unconfirmed = Unconfirmed, ![s].todo = Known(syncs[s].txs),
                            ![s].payments = [t \in Txs |-> IF t \notin Listed THEN "none"
                                                           ELSE IF table[t].confirmed THEN "complete" ELSE "pending"]]
  /\ clean' = IF syncs[s].txs = view THEN clean \cup {s} ELSE clean
  /\ UNCHANGED <<kind, chain, view, table, feesKnown, senders, seen, balance, sound, listed>>

\* Mutant: a payment that is in the table is left as it is
UpdatedNeeded_New(s, t) == syncs[s].payments[t] = "none"

\* Not in the table, or confirmed since
UpdatedNeeded(s, t) ==
  \/ syncs[s].payments[t] = "none"
  \/ syncs[s].payments[t] = "pending" /\ syncs[s].txs[t] = "block"

UpdatePayment(s, t) ==
  /\ SyncAt(s, "loop") /\ t \in syncs[s].todo
  /\ \/ /\ UpdatedNeeded(s, t)
        /\ table' = insert_or_update_payment_with_wallet_tx(t, syncs[s].txs[t])
        /\ syncs' = [syncs EXCEPT ![s].todo = @ \ {t}, ![s].at = "emit"]
        /\ Changed(s)
     \/ /\ ~UpdatedNeeded(s, t)
        /\ syncs' = [syncs EXCEPT ![s].todo = @ \ {t}]
        /\ UNCHANGED <<table, ghosts>>
  /\ UNCHANGED <<kind, chain, view, feesKnown, senders, seen, balance>>

\* What LWK did not find, and had the time to
Unknown(s) == {t \in syncs[s].unconfirmed \ Known(syncs[s].txs) : table[t].old}

DeleteUnknown(s) ==
  /\ SyncAt(s, "loop") /\ syncs[s].todo = {}
  /\ table' = [t \in Txs |-> IF t \in Unknown(s) THEN NoRow ELSE table[t]]
  /\ Goto(s, "read")
  /\ IF Unknown(s) # {} THEN Changed(s) ELSE UNCHANGED ghosts
  /\ UNCHANGED <<kind, chain, view, feesKnown, senders, seen, balance>>

SyncReads(s) ==
  /\ \/ SyncAt(s, "emit") /\ Goto(s, "emitted")
     \/ SyncAt(s, "read") /\ Goto(s, "write")
  /\ ReadTransactions(s)
  /\ UNCHANGED <<kind, chain, view, table, feesKnown, senders, balance, ghosts>>

\* `clean`: since it listed the payments, with the transactions that LWK still knows, nobody else changed anything
SyncWrites(s) ==
  /\ \/ SyncAt(s, "emitted") /\ Goto(s, "loop") /\ UNCHANGED <<clean, listed>>
     \/ SyncAt(s, "write") /\ syncs' = [syncs EXCEPT ![s] = Idle] /\ listed' = (s \in clean) /\ clean' = clean \ {s}
  /\ WriteInfo(s)
  /\ sound' = (s \in clean)
  /\ UNCHANGED <<kind, chain, view, table, feesKnown, senders>>

-----------------------------------------------------------------------------
(* The network, time and restarts *)

Receive(t) ==
  /\ kind[t] = "receive" /\ chain[t] = "none" /\ senders[t] = "idle"
  /\ chain' = [chain EXCEPT ![t] = "mempool"] /\ senders' = [senders EXCEPT ![t] = "done"]
  /\ UNCHANGED <<kind, view, table, feesKnown, syncs, seen, balance, ghosts>>

Confirm(t) ==
  /\ chain[t] = "mempool" /\ chain' = [chain EXCEPT ![t] = "block"]
  /\ UNCHANGED <<kind, view, table, feesKnown, senders, syncs, seen, balance, ghosts>>

\* Nothing was built on it yet
Evict(t) ==
  /\ chain[t] = "mempool" /\ chain' = [chain EXCEPT ![t] = "none"]
  /\ \A a \in {"lbtc", "asset"} : Balance(a, Known(chain')) >= 0
  /\ UNCHANGED <<kind, view, table, feesKnown, senders, syncs, seen, balance, ghosts>>

\* NETWORK_PROPAGATION_GRACE_PERIOD after the row was inserted
GrowOld(t) ==
  /\ t \in Unconfirmed /\ ~table[t].old
  /\ table' = [table EXCEPT ![t].old = TRUE]
  /\ clean' = clean \ Syncs /\ listed' = FALSE
  /\ UNCHANGED <<kind, chain, view, feesKnown, senders, syncs, seen, balance, sound>>

\* The process stops, and is started again
RestartWallet ==
  /\ senders' = [t \in Txs |-> IF senders[t] = "idle" THEN "idle" ELSE "done"]
  /\ syncs' = [s \in Syncs |-> Idle]
  /\ seen' = [p \in Txs \cup Syncs |-> NotSeen] /\ clean' = {}
  /\ UNCHANGED <<kind, chain, view, table, feesKnown, balance, sound, listed>>

PaymentNext ==
  \/ \E t \in Txs :
       \/ BuildTx(t) \/ Broadcast(t) \/ Record(t) \/ Emit(t) \/ EmitNothing(t) \/ WriteBalance(t)
       \/ Receive(t) \/ Confirm(t) \/ Evict(t) \/ GrowOld(t)
  \/ \E s \in Syncs :
       \/ Scan(s) \/ ListPayments(s) \/ DeleteUnknown(s) \/ SyncReads(s) \/ SyncWrites(s)
       \/ \E t \in Txs : UpdatePayment(s, t)
  \/ RestartWallet
PaymentSpec == PaymentInit /\ [][PaymentNext]_paymentVars

-----------------------------------------------------------------------------
PaymentTypeOK ==
  /\ kind \in [Txs -> PaymentKinds]
  /\ {chain, view} \subseteq [Txs -> {"none", "mempool", "block"}]
  /\ \A t \in Txs : /\ DOMAIN table[t].balances \subseteq {"lbtc", "asset"}
                     /\ \A a \in DOMAIN table[t].balances : table[t].balances[a] \in Nat
  /\ senders \in [Txs -> {"idle", "broadcast", "record", "emit", "write", "done", "failed"}]
  /\ \A s \in Syncs : syncs[s].at \in {"idle", "list", "loop", "emit", "emitted", "read", "write"}
  /\ balance \in [lbtc : Nat, asset : Nat, sending : Nat, receiving : Nat]

\* A payment is said to be confirmed only if it is, and then has the amounts of its transaction and not those it was
\* inserted with (insert_or_update_payment_with_wallet_tx). After a sync that nobody interfered with the table has what
\* LWK knows, and of the rest only what may still reach it (sync_payments_with_chain_data)
PaymentsAreListed ==
  /\ \A t \in Listed : table[t].confirmed =>
       chain[t] = "block" /\ table[t].fees = Fee /\ table[t].balances = WalletBalances(t)
  /\ listed => \A t \in Txs :
       IF view[t] # "none" THEN t \in Listed /\ table[t].confirmed = (view[t] = "block")
       ELSE t \in Listed => t \in Unconfirmed /\ ~table[t].old

\* A payment that neither LWK nor the table knows: its call was cut off, or its row deleted before LWK found it
Unaware == {t \in Known(chain) : t \notin Listed /\ view[t] = "none"}

\* A balance from what is still true promises no more than can be spent, also while LWK does not know a payment, and
\* exactly that once everything is confirmed (update_wallet_info)
BalanceIsCovered ==
  sound /\ Unaware = {} =>
    /\ balance.lbtc <= Spendable("lbtc")
    /\ view = chain /\ Unconfirmed = {} /\ (\A t \in Txs : chain[t] # "mempool") =>
         balance = [lbtc |-> Spendable("lbtc"), asset |-> Spendable("asset"), sending |-> 0, receiving |-> 0]
=============================================================================
