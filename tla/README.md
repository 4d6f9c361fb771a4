# TLA+ models of the Breez SDK (Liquid)

This directory holds the specifications of the Breez SDK: of its swaps, the part of
`src/lib/core` in which money can be lost, sent twice, or left locked, and of the services around
them. The modules are translated from the Rust code (and, for push notifications, the Kotlin and Swift
code); every definition names the code it stands for in `PROJECT.json` ("map").

## 1. The system

The SDK is a Lightning wallet whose funds are L-BTC. Each payment that is not a
plain Liquid transaction is a swap with Boltz:

| component | state it keeps | operations | interacts with |
|---|---|---|---|
| send swap (`send_swap.rs`, `persist/send.rs`) | a row of `send_swaps`: state, lockup and refund tx ids, preimage, refund address | `send_payment` (create, lock up, wait), `on_new_status`, refunds per block, recovery | wallet, chain service, Boltz client, status stream |
| receive swap (`receive_swap.rs`, `persist/receive.rs`) | a row of `receive_swaps`: state, lockup, claim and magic-routing-hint tx ids | `receive_payment`, `on_new_status`, claim per block, recovery | the same |
| chain swap (`chain_swap.rs`, `persist/chain.rs`) | a row of `chain_swaps`: state, user and server lockup, claim, refund, accepted amount | outgoing: lock up L-BTC, claim BTC; incoming: wait for BTC, claim L-BTC, refund by hand, accept fees | both chains |
| recoverer (`recover/`) | none | recomputes a swap from the scripts' histories and the wallet's txs, and writes it back | rows of all swaps |
| background tasks (`sdk.rs`) | the last tips seen | `track_new_blocks`, `track_swap_updates`, `track_realtime_sync_events` | handlers above |
| status stream (`swapper/boltz/status_stream.rs`) | the ids it subscribed to | subscribe, reconnect | Boltz's websocket |
| real-time sync (`sync/`, `persist/sync.rs`) | revision and outgoing queue per record | pull, push, merge | sync server, swap rows |
| payments table, balance (`persist/mod.rs`, `sdk.rs`) | `payment_tx_data`, `payment_balance`, the cached `WalletInfo` | calls that pay insert, a sync inserts, confirms and deletes, each computes the balance again | wallet, the application |
| events (`event.rs`) | listeners | `emit_payment_updated` | the application |
| asset payments (`payjoin`, `side_swap`) | none; the swap SideSwap is asked for | quote, choose coins, build and sign with SideSwap | wallet, SideSwap |
| prepare calls (`sdk.rs`) | none; the caller keeps the quote | quote a payment, then check it and pay | wallet, cached balance, Boltz's fees |
| addresses (`wallet/mod.rs`, `persist/address.rs`) | `reserved_addresses`, the last derivation index | take an address, reserve it for an invoice, free it | receive swaps, recovery |
| push notifications (`bindings/langs`) | the connected SDK, the jobs of a service, its callbacks | start, connect, run a job, end the service | the SDK, the operating system |
| NWC plugin (`plugins/nwc`) | connection strings, the task and its listener | start, stop, add and remove clients, answer requests | storage, relays, SDK events |
| chain services, signer, Boltz client, LNURL, CLI, WASM | their own | external I/O or pure functions | |

All tasks run on one tokio runtime (possibly with several threads) and share the
SQLite rows. There is no lock per swap. What protects a row is

- `UPDATE ... WHERE lockup_tx_id IS NULL`, a compare-and-set of one column;
- a `version` column that recovery checks when it writes its copy back;
- a grace period of 120 s during which recovery may not erase a tx id;
- `validate_state_transition`, which is read-then-write and has no version.

**What is hard**: every `await` is an interleaving point; the process can die at
any of them; Boltz's status updates are lost, repeated and late; a tx that was
just broadcast is not visible for a while; recovery writes back a copy that is
seconds old; refunds are retried on each block. `PROJECT.json` lists these
hazards with their lines and the properties that watch them.

**What makes each part correct**

- send swap: an invoice is funded at most once; the id of a broadcast lockup is
  never lost; Complete means that there is a proof of payment, and is final; locked
  funds are either claimed by Boltz or refunded, without any status update;
- receive swap: the preimage is revealed only by a claim of a lockup that pays enough, a claim
  that was broadcast is not forgotten, a paid swap completes;
- chain swap: the user's funds are locked at most once, what Boltz locked is
  claimed or the user is refunded, fees above what was agreed are not accepted silently;
- recovery: derives the same state from the same chain; changes nothing when
  nothing happened;
- real-time sync: instances converge and a field set by one is not dropped by another;
- events: news that was not dropped is handled and told, the next connection or event makes up for what
  was, and what a call answered stays true;
- prepare calls: a payment does not exceed its quote, and a quote holds while nothing changes;
- addresses: no two users wait for a payment at the same address;
- payments table: it has what the wallet knows, and the balance is neither more than can be spent nor less for ever;
- asset payments: coins cost no more than they must, and what is signed is what was asked for;
- push notifications: every job is answered, or somebody ends it;
- NWC: the service is subscribed to, and has one listener for, the clients that are stored.

## 2. Modules

| module | models |
|---|---|
| `SwapPromise` | what every swap promises the user; the abstract specification |
| `SendSwap` | one send swap, from `send_payment` to its final state |
| `ReceiveSwap` | one receive swap, from the invoice to its final state |
| `ChainSendSwap` | one outgoing chain swap, L-BTC to BTC, from `pay_onchain` to its final state |
| `ChainReceiveSwap` | one incoming chain swap, BTC to L-BTC, with quotes and refunds by hand |
| `SendSwapProofs`, `ReceiveSwapProofs`, `ChainSendSwapProofs`, `ChainReceiveSwapProofs` | theorems about them |
| `RealtimeSync` | the instances of a wallet and the sync server |
| `Notifications` | from a status of Boltz to an event of the application and the answer of a call |
| `PreparedPayments` | quotes, and the calls that are given one |
| `Addresses` | the addresses of the wallet and their reservation |
| `NotificationJobs` | the jobs of push notifications on Android and iOS |
| `NwcService` | the Nostr Wallet Connect plugin |
| `UtxoSelect`, `UtxoSearch` | which coins a payjoin takes: what is selected, and the search that selects |
| `AssetPayments` | payments of an asset by payjoin or by a swap from L-BTC |
| `Payments` | the table of payments that are no swaps, and the cached balance |
| `RealtimeSyncProofs`, `NwcServiceProofs` | theorems about them |
| `NotificationsProofs` | theorems about `Notifications` and `NotificationJobs` |
| `WalletProofs` | theorems about `Addresses`, `PreparedPayments` and `Payments` |
| `MCSendSwap`, `MCReceiveSwap`, `MCChainSendSwap`, `MCChainReceiveSwap`, `MCServices` | the above for TLC: scenarios and symmetry |

A swap is alone in its module: the handlers take a swap id and touch only its row,
so that two swaps meet only in the wallet's coins, which are not modelled.

### SendSwap

Tasks: the calls of `send_payment` with the invoice (`Calls`), the block task
(`Blocks`), the status task (`Status`) and calls of `sync()` (`Syncs`). `pc[t]` is where a task is
between two awaits, `copy[t]` the `SendSwap` value it fetched, `pend[t]` the
arguments of an `update_swap_info` it has started.

| variable | in the code |
|---|---|
| `row` | the `send_swaps` row; a NULL lockup id is `NoTx`; the refund id, preimage and address are "set or not" |
| `fresh` | the tasks whose copy still has the `version` of the row: the version counter up to what a comparison can see |
| `grace` | `now - last_updated_at < NETWORK_PROPAGATION_GRACE_PERIOD` |
| `tracked` | the id is subscribed on the status stream |
| `tip` | `open`: height below the timeout; `expired`: above, `scanned`: the wallet's own tip (used by `check_swap_expiry`) is too |
| `lockups`, `seen`, `spend` | the chain: lockups broadcast, those visible, what spent the lockup |
| `boltz` | Boltz waits, has paid, or has failed the swap |

An action is what a task does from one await to the next. `Preemptive` splits
`update_swap_info` further into its validation and its write, which only another
thread can separate. `send_payment` is `FetchSwap`, `CreateSwap`,
`TrackAndCheckLockup`, `SetLockupTxId`, `BroadcastLockup`/`UnsetLockupTxId`,
`LockupSent`, `PaymentTimeout`/`PaymentEvent`. Recovery is `ListRecoverable`,
`RecoverSwap` (or `RecoveryFails`), `SaveRecovered`. The block task then does
`CheckRefunds`, `SetRefundAddress`, `BroadcastRefund`, `RefundSent`/`RefundFails`.
The status task does `TransactionClaimPending`, `ClaimPreimage`/`ClaimFails`,
`TransactionClaimed` (recovery of one swap), `SwapFailed`. `Restart` is a crash
followed by `start()`.

Assumptions about the environment, each an enabling condition of an external
action: Boltz claims what it paid before the timeout; a broadcast
is over and visible to the wallet within the grace period (this is
what the constant in the code is chosen for); the lockup output is spent once.
`LostAnswers` says whether `BroadcastLockup` may fail for the caller although the
tx reached the network. The code then unsets the id, and a second call funds the
invoice again: with `LostAnswers = TRUE` TLC finds `AtMostOneLockup` violated, so the runs and
the theorems about it take broadcasts to tell the truth. `send_live` does not. The answer of a refund that
is broadcast may be lost in all of them (`RefundFails`).

`RecoverSwap` is one step here: the wallet's scan, its tx map and the histories of the scripts (`sdk.rs:4535`,
`recoverer.rs:108`) are taken to be of one moment. What comes of reading them one after the other is in the other
three modules, whose `view` holds what was read first.

### ReceiveSwap

Tasks: the status task, the block task and calls of `sync()`. `copy[t]` is what a task
still uses of the row it fetched.

| variable | in the code |
|---|---|
| `row` | the `receive_swaps` row: state, lockup, claim and MRH tx ids, and whether the claim address is set |
| `fresh`, `grace` | as in `SendSwap` |
| `claiming` | the id is in `claiming_swaps` |
| `view` | what a recovering task read before it asked for the script histories: the tip, the wallet's incoming txs, the grace period |
| `tip` | the tip against the timeout height |
| `lockup` | Boltz's lockup tx: its id, whether it pays enough and signals RBF, and where it is |
| `spend`, `mrh` | what spent the lockup, and where; where the MRH payment is |
| `revealed` | Boltz was given the preimage, for its signature of a claim tx |
| `boltz` | whether Boltz still waits for the swap |

A place is `none`, `mempool`, `mined` (below the timeout height) or `late` (from that height
on): recovery drops the txs of the history at or above the timeout height.

`on_new_status` is `TransactionMempool` or `TransactionConfirmed` followed by
`VerifyMempoolLockup`/`VerifyConfirmedLockup` (or `VerifyFails`), and `SwapFailed`. `claim`
is `BeginClaim`, `SetClaimAddress`, `SetClaimTxId`, then `BroadcastClaim` or
`UnsetClaimTxId`. The block task recovers (`ListRecoverable`, `ScanWallet`,
`RecoverSwap`, `SaveRecovered`), then runs `claim_confirmed_lockups`
(`ClaimConfirmedLockups`, `VerifyRowLockup`, and the claim), unless no new block came. The
histories are read after the wallet scan, so that recovery may see a claim it does not know.

Assumptions about the environment: only a lockup that signals RBF is replaced, once (a lockup
whose unconfirmed ancestor is replaced, the TODO at `receive_swap.rs:177`, is not covered);
after the timeout Boltz may take an unclaimed lockup back; a broadcast is over and visible
within the grace period. `validate_state_transition` and the write that follows it are one
step here: no await separates them, and `SendSwap` shows what a thread could do in between.

### ChainSendSwap

Tasks: the status task, the block task and calls of `rescan_onchain_swaps()`. `copy[t]` is what
a task still uses of the row it fetched (and, for a lockup or claim it built, the tx id).

| variable | in the code |
|---|---|
| `row` | the `chain_swaps` row: state, user lockup, server lockup and claim tx ids, whether a refund id and a refund address are set, `accept_zero_conf` |
| `fresh`, `grace`, `claiming`, `view` | as in `ReceiveSwap` |
| `liquid`, `bitcoin` | each chain's tip below, at or above its timeout: refunds and recovery compare with `>=`, the list of monitored swaps with `>` |
| `lockups`, `taken`, `refund` | the Liquid side: user lockups that are broadcast and visible, the one Boltz claimed, the refund and what it spends |
| `server`, `spend` | the Bitcoin side: Boltz's lockup (good, short, or good and replaceable) and what spends it |
| `revealed`, `boltz` | Boltz has the preimage; Boltz goes on, gave up, or gave up and said so |

`on_new_outgoing_status` is `SwapCreated` (then `BroadcastLockup`/`LockupFails`, `LockupSent`),
`UserLockupAnnounced`, `ServerLockupAnnounced` (then `VerifyUserLockup`, `VerifyServerLockup` or
`VerifyFails`, and the claim) and `SwapFailed` (then the refund). `claim` is `BeginClaim`,
`SetClaimTxId`/`BuildFails`, `BroadcastClaim`/`UnsetClaimTxId`; `refund_outgoing_swap` is
`SetRefundAddress`, `BroadcastRefund`, `RefundSent`/`RefundFails`. The block task recovers
(`ListMonitored`, `RecoverSwap`, `SaveRecovered`), then runs `refund_outgoing` (`CheckRefunds`)
if a Liquid block came and `claim_outgoing` (`ClaimOutgoing`, `ClaimConfirmedServerLockup`) if a
Bitcoin block did.

Assumptions about the environment, and where the model allows more than the code:

- a status update may be lost, repeated and late, but none Boltz sent before a failure is handled
  after it, and `swap.created` is handled before a timeout is near;
- a swap whose state is TimedOut, RefundPending or Failed still gets status updates after a
  restart; the code subscribes again to ongoing swaps only;
- a lockup is visible long before a timeout comes (`LockupIsOut`); a stored id is of a visible tx
  when the grace period ends (`GracePeriodEnds`);
- Boltz signs a refund only if nothing of its own is at stake (`BoltzSigns`), may take its lockup back
  from the Bitcoin timeout on, and claims the user's lockup only with the preimage;
- only a server lockup that signals RBF is replaced, once.

### ChainReceiveSwap

Tasks: the status task, the block task and three calls of the application, `accept`
(`accept_payment_proposed_fees`), `refund` and `rescan`. `copy[t]` is what a task still uses of the
row it fetched.

| variable | in the code |
|---|---|
| `row` | the `chain_swaps` row: state, whether it is a swap without an amount, whether the lockup ids are set, claim and refund tx ids, `accept_zero_conf`, `accepted_receiver_amount_sat` |
| `fresh`, `grace`, `claiming`, `view` | as in `ReceiveSwap` |
| `liquid`, `bitcoin` | each chain's tip against its timeout |
| `deposit`, `more`, `refunds`, `sweep` | the Bitcoin side: what was paid to the address, a second payment, the user's refunds and what they spend, Boltz's claim |
| `server`, `spend`, `revealed` | the Liquid side: Boltz's lockup, what spends it, whether Boltz has the preimage |
| `boltz`, `quote`, `agreed` | Boltz waits, refused the payment and has a quote for it, was told that the quote is accepted, or gave up |

`on_new_incoming_status` is `UserLockupAnnounced` (then `StorePayerAmount`, when the actual amount was fetched),
`ServerLockupAnnounced` (then the verifications and the claim), `LockupFailedAmountless` (then `ValidateAmountlessSwap`/`ValidateFails`, `AutoAccepted`) and
`SwapFailed` (then `MarkFailed`/`MarkFails`). The application does `AcceptProposedFees`, `StoreProposedFees`/`ProposalFails` and
`ProposedFeesAccepted`/`AcceptFails`, `Refund`, `BroadcastRefund` (which may replace an earlier refund),
`RefundSent`/`RefundFails`, `RescanOnchainSwaps`. The block task recovers and claims as for outgoing swaps.
Amounts are two quotes: `High`, which the SDK accepts by itself, and `Low`, which the user has to accept.

Assumptions: those of `ChainSendSwap`; Boltz accepts its present quote only; it signs a refund when it
failed the swap and nothing of its own is at stake. The end of the monitoring, two weeks after the timeout, is not modelled.

### SwapPromise

The abstract specification: a payment is `open`, `complete` or `failed`; the secret is given away only
for what is due; Complete is shown only when the user has what the payment was for, and is final unless
funds are left at the swap's address. All four kinds of swap implement it (`KeepsPromise`), by this mapping:

| | `SendSwap` | `ReceiveSwap` | chain swaps |
|---|---|---|---|
| `offered` | Boltz paid the invoice | the lockup is confirmed, or cannot be replaced and pays enough | the server lockup is, or does |
| `secret` | Boltz paid (it learned the preimage) | `revealed` | `revealed` |
| `earned` | Boltz paid | a claim, or the MRH payment, is confirmed | a claim is confirmed |
| `left` | nothing | nothing | a refund (outgoing); the timeout, a second payment, a failure handler under way (incoming) |

`SendSwap` implements it with an update of the row as one step; `KeepsPromiseAtomically` leaves the scenario
with preemption out. For outgoing chain swaps a claim that is Boltz's refund (section 6) is not shown as complete.

### RealtimeSync

Two instances, each with its rows, its queue `sync_outgoing` (`queued`, `fields`), what it knows of revisions
(`known`, `latest`) and its event loop (`at`). A record is the set of its fields that are set; one record stands
for each type that is merged in its own way. `RunEventLoop`, `PullAnswered`, `RecoveryFails`, `Commit`,
`PushAccepted`/`PushConflicts`/`PushFails`, `FinishPush` are the loop from one await to the next, the other actions
are the wallet's. `forgotten` (a ghost) notes the records whose change the code itself drops from the queue, each where it
does (section 6), and `Stored` leaves out `auto_accepted_fees`, which a pull does not write. The two properties except
these, and nothing else.

### Notifications

The swaps are those of `pay_onchain`. From Boltz to the call that waits:

| variable | in the code |
|---|---|
| `state`, `onchain` | the state of each `chain_swaps` row and which txs it names; the txs that were broadcast |
| `boltzAt`, `unsent` | what Boltz has to say of a swap, and whether this connection was sent it |
| `socket`, `tracked` | the loop of the status stream, and the ids it subscribed to on this connection |
| `requests`, `updates`, `payments` | the broadcast channels of subscriptions, of statuses and of ids of changed swaps |
| `task` | `track_swap_updates`, which handles one thing at a time; `untracked`: calls between the insert and `track_swap_id` |
| `paused`, `firstSync`, `told` | the events, which the first sync pauses, and the last one each listener had |
| `waiter` | `wait_for_payment_with_timeout` of one call |

The status handler is `TakeUpdate` and then, by status, `HandleCreated`, `BroadcastLockup`, `HandleLockup`,
`HandleServerLockup`, `HandleClaim`, `HandleExpired`, or `HandleUpdateFails` at any of these (perhaps after the broadcast). The tasks of
blocks and rescans are `RecoverSwap`, `ClaimOutgoing`, `RefundOutgoing`, one step each: what is inside is in `ChainSendSwap`.
`RecoverSwap` monitors every swap that is not Complete or Failed, a TimedOut one too, sees any part of the txs that the row does
not name yet, derives a state as `derive_partial_state` does and stores it without validation: TimedOut becomes Pending, RefundPending,
Complete or Failed, Pending becomes RefundPending or Failed. The events are `TakePayment` and `EmitPaymentUpdated`.

Two ghosts say of which swaps the code promises nothing for now.

- `missed`: a subscription dropped from a full channel (`TrackSwapId`, `ConnectSocket`), a status dropped (`ReceiveUpdate`), a handler that
  failed (`HandleUpdateFails`), and a swap that was not ongoing and that recovery made ongoing again (TimedOut or RefundPending to
  Pending), to which nobody subscribes. The next connection (`ConnectSocket`) subscribes to all ongoing swaps: from then on only
  what it dropped itself is `missed`.
- `unheard`: an id dropped from a full channel, an event while events are paused, an event that could not be made (`EmitFails`).
  It ends when an event of the swap is next taken up.

`NewsArrives` promises the rest, and says by this that the next connection, or event, makes up for what was dropped. `AnswerIsTrue` promises
nothing when the lockup was out, or was about to be (`paying`), as the call answered PaymentTimeout: `lockup_funds` goes on although
the call gave up, the swap is TimedOut with its funds locked, and recovery revives it. Any other swap that timed out stays
TimedOut, or becomes Failed, and is never funded.

Assumptions: `swap.created` is handled long before Boltz gives the swap up, and the tips pass the timeout then; recovery sees what the row names
(the grace period); whether a tx is confirmed is open. The code ends the recovery of a swap with its timeout, the model does not.

### PreparedPayments

A quote of each kind (`PrepareLiquid`, `PrepareBolt11`, `PrepareBolt12`, `PrepareLnUrlPayDrain`, `PreparePayOnchain`,
`PrepareReceive`, with and without a drain or a magic routing hint), then changes of the wallet, of its cached balance and
of Boltz's fees, then the call that pays (`PayLiquid`, `PayHinted`, `SendPaymentViaSwap`, `PayOnchain`,
`CreateReceiveSwap`) with each of its checks, and the lockup. Unsigned arithmetic wraps. A payment to Bitcoin costs what Boltz estimates for
the claim, or what the fee rate of the request makes (`ClaimFees`); `pay_onchain` takes that part from the quote and the others from
the fees of now, and locks up the amount Boltz creates the swap with, under the prices it was asked with. That the least lockup of a chain
swap pays for its claim is an assumption (`PairsAreReal`): the quote of a drain subtracts the fees unchecked (`sdk.rs:2602`), so that
a fee rate above that would wrap.

### Addresses

Users take addresses (`next_unused_address`, from the reservations that expired or by the next index), an invoice reserves
its own, payers pay in time or late, blocks and scans come, recovery tells by the address which invoice was paid.

### NotificationJobs

`NextAndroid` is the foreground service: messages become jobs, one connected SDK is shared, callbacks end the service.
`NextIOS` is the notification extension, one instance for each message. A job for a swap polls and hears events, the others
post one answer.

### NwcService

`on_start`, `on_stop`, the task (list the clients, subscribe, add a listener, wait for requests or the trigger) and calls
of the API on the storage, each a read and a write.

### UtxoSelect, UtxoSearch and AssetPayments

`UtxoSelect` says what `utxo_select_in_range`, `utxo_select_fixed`, `utxo_select_inner` and `validate_selection` return,
as sets of coins, with the fees in integers as the code rounds them; what floats round differently is left out. `UtxoSearch` is
the loop of `utxo_select_in_range`, one step a turn: `SelectUtxo`, `StepBack`, `Finish`. Its
variables are those of the function, and `SelectionIsBest` compares what it returns with `UtxoSelect`. So that the loop may be cut
short, `MaxIterations` is small. `AssetPayments` is a quote (`PrepareAsset`, `PrepareSideSwap`) and one payment:
`PayLiquidPayjoin`, `StartPayjoin`, `ConstructPset`, `SignPayjoin`; or `PaySideSwap`, `SwapStart`, `SwapSign`. SideSwap may offer any
of `Offers` and `Deals` and return any outputs; each call to it may `Fail`.

### Payments

Up to one payment per transaction: `kind` says which call makes it, or that it is received. A call is `BuildTx`, `Broadcast`,
`Record` (the row inserted before LWK knows the transaction), `Emit` and `WriteBalance` (the balance). A sync is `Scan`,
`ListPayments`, then `UpdatePayment` for each transaction LWK found, with the balance after each (`SyncReads`,
`SyncWrites`), then `DeleteUnknown`. `chain` is where a transaction is, `view` what LWK's last scan found, `seen` what an
`update_wallet_info` has read and not yet used. Three ghosts say when the properties may ask: `clean` names who has read nothing
that was changed since, `sound` that the balance is from such reads, `listed` that the table is.

## 3. Runs

| run | instance | question |
|---|---|---|
| `send_mc` | two calls with preemption; one call and a `sync()`; one call and a crash | Is an invoice ever funded twice, or a lockup forgotten, even if another thread runs between validation and write? Is the promise kept? |
| `send_live` | 1 call, 1 crash, lost answers, fairness | Are locked funds settled and the states final without status updates? |
| `recv_mc` | 2 claim txs, any lockup, both ways to pay, lost answers | Is the preimage given away for money that is not there? Is Complete backed by a confirmed tx? Is the promise kept? |
| `recv_live` | 1 `sync()`, 1 crash, both ways to pay, fairness | Is a confirmed lockup claimed, and the swap Complete, without status updates? Is a broadcast claim ever forgotten? |
| `chainsend_mc` | 2 lockups, any server lockup, Bitcoin timeout, 1 crash; or a rescan | Is the swap funded twice without a crash? Is the preimage given away for too little? Are ids kept, and the promise? |
| `chainsend_live` | 1 lockup, Liquid timeout, fairness | Does the user get the money of one side or the other, without status updates? |
| `chainrecv_mc` | five scenarios: quotes, refunds, a second payment, a rescan, a crash or timeout | Is the preimage given away for less than what was agreed or accepted? Is a claim forgotten? Is the promise kept? |
| `chainrecv_live` | any payment, a second one, Bitcoin timeout, 1 crash, fairness | Does BTC that is left become refundable, and is a server lockup claimed, without status updates? |
| `services` | the services, one at a time | see below |
| `send_timedout`, `send_failed`, `chainrecv_refundid` | | what comments in the code say, refuted (section 6) |

The parts of `services` and what they ask:

| part | instance | properties |
|---|---|---|
| `chain`, `send`, `details`, `index` | 2 instances, one record of the type, 2 events (3 for a send swap, which a chain swap differs from in its fields only) | `FieldIsKept`, `SyncedMeansEqual` |
| `call` | 1 swap and the call that waits for it, channels of 1; 1 break, after the answer if the call waits for the chain | `NewsArrives`, `AnswerIsTrue` |
| `sync` | 1 swap and the first sync; this, a handler or an event fails once | `NewsArrives` |
| `swaps` | 2 swaps, channels of 1, 1 break; one gets to Boltz's lockup, none expires or completes | `NewsArrives` |
| `payDirect`, `payBySwap`, `payOnchain`, `receive` | balances 14, 22, 30, an invoice of 18, fees of 10 or 20 per cent, claims for 1 or 2, 8 bits, 2 changes | `KeepsToQuote`, `PreparedIsPayable` |
| `android`, `ios` | 2 messages, one of a swap, 2 services | `JobsAreAnswered` |
| `search` | 1 to 3 coins of five values, some walletfuls of 4, 6 targets, 9 turns | `CoinsAreCounted` |
| `asset` | 9 walletfuls, 2 amounts, 12 offers, 4 deals | `CoinsAreCounted` |
| `table` | 2 payments in three pairs of kinds, 1 sync, 1 call at a time | `PaymentsAreListed`, `CoinsAreCounted` |
| `nwc` | 1 name, 2 calls, a trigger channel of 1, 2 starts | `ClientsAreServed` |
| `addresses` | 3 users, 1 payment, 4 blocks, a lifetime of one block | `MrhAddressIsOwn` |

Bounds: two calls are enough for each race on a row (a third would race with one
of them in the same way); one crash separates every pair of steps once, and a
second start finds what a first one leaves; two claim txs let a second claim follow one that
was unset; two user lockups let a second one follow a crash; two refund txs let one replace the other.
A scenario of an MC module leaves out what would only multiply the states: it names what it has. The Liquid timeout of an outgoing
swap, and with it the refund without Boltz, is in `chainsend_live`, the Bitcoin timeout in `chainsend_mc`; the two together are
not checked. A channel of 1 is full with the second message, as one of 30 is with the 31st. In `call`, `sync` and `swaps` recovery that finds
nothing new does not send the id again, which the proofs allow. The balances are below, at and above
what the invoice costs, and the amounts include one that rounding hits. Three users let one take the address of another
that expired while a third does, too. The
coins and prices of `asset` are such that each option of `utxo_select_inner` (with and without change of the asset and of SideSwap) is
chosen for some of them, and that some payments are refused. In `table` the network and the clock move while no sync is between its reads and
its writes, payments of L-BTC are not lost, and one by payjoin only before the other payment begins: the other orders multiply the states, and the ghosts make the properties silent for
most of them. The first two calls of `nwc` are interchangeable, and so are the users; the variables of the parts that a behaviour leaves alone are empty. The theorems remove the bounds for the invariants proved.

## 4. Fairness

`FairSpec` of `SendSwap`: the block task runs in a loop, so its steps get weak fairness;
network calls it repeats per block get strong fairness (a service that answers
again and again is at some time reached); chain and Boltz move on. Nothing is assumed of
calls, `sync()` and status updates. Crashes are bounded by `MaxRestarts`, without
which no liveness holds.

`FairSpec` of `ReceiveSwap` is the same for the block task: weak fairness of its loop and of
a claim that began, strong fairness of the network calls it repeats, a broadcast tx
propagates. Blocks with news (`ClaimConfirmedLockups` instead of `NoNewBlock`) keep coming.
Neither Boltz, the payer nor the miners are assumed to do anything: the properties begin
when the lockup, the claim or the MRH payment is confirmed.

`FairSpec` of `ChainSendSwap` again fixes the block task's loop, the handlers that began and the
network calls that are repeated, with new blocks on both chains. It adds that Boltz does not announce the
same user lockup for ever: each announcement rewrites the row, which renews the
grace period and makes every copy stale. No status update needs to arrive. `LockupIsSettled` is
conditional on the Liquid timeout, `ServerLockupIsClaimed` ends with either timeout: nothing is
said of when a timeout comes. It is checked without crashes and lost answers: a crash may leave a second lockup.

`Fairness` of `ChainReceiveSwap` is the same; of Bitcoin's miners, the payer, Boltz and the application nothing is
assumed. The properties begin when BTC is at the address and the timeout has come, or when the server lockup is confirmed.
The run includes a restart.

The services are checked for safety only: their properties say what holds when everything has come to rest (`NewsArrives`,
`SyncedMeansEqual`), or that somebody is left who will act (`JobsAreAnswered`).

## 5. Proofs

The theorems hold for every value of the constants: any number of calls, tasks, tx ids, restarts, instances, users.
They rest on the named assumptions of their modules, which TLC evaluates on every run: those of the swaps say that the tasks
and the tx ids differ, those of the services that a bound is a number and that what is counted is finite. Where a module of the services says no
more than a property of its constants, the theorem has it as a hypothesis, and an `ASSUME` of `MCServices` has TLC evaluate it for the run:

- `Prices` (`AmountsAreReal`, `PairsAreReal`): amounts are numbers and the wallet's fit the width of the program's integers;
  a percentage of Boltz is at most 50; any lockup within the limits pays for its claim; and the total fee of a swap is never exactly one satoshi. Fees have a miner's part, so that
  none is that small. With a fee of one satoshi the quote of a drain by a magic routing hint or a BOLT12 offer may be
  refused when it is paid, though nothing changed.
- `PaymentsAreReal`: a payment is of more than nothing, its fees are numbers, a sync is no call.
- `MaxServices \in Nat` for iOS, where an instance is found by counting.

| module | theorem | states |
|---|---|---|
| `SendSwapProofs` | `TypeCorrect` | `Spec => []TypeOK` |
| | `LockupIsNeverForgotten` | `~LostAnswers /\ Spec => []LockupNotForgotten` |
| | `NoDoubleLockup` | `~LostAnswers /\ Spec => []AtMostOneLockup` |
| | `CompletePaymentHasProof` | `Spec => []CompleteHasProof` |
| | `RefundIdIsNeverInvented` | `Spec => []RefundIdIsReal` |
| | `KeepsItsPromise` | `~Preemptive /\ Spec => KeepsPromise` |
| `ReceiveSwapProofs` | `TypeCorrect` | `Spec => []TypeOK` |
| | `PreimageNeedsFunds` | `Spec => []PreimageOnlyForFunds` |
| | `CompleteIsReceived` | `Spec => []CompleteMeansReceived` |
| | `ClaimIsNeverForgotten` | `~LostAnswers /\ Spec => []ClaimNotForgotten` |
| | `KeepsItsPromise` | `Spec => KeepsPromise` |
| `ChainSendSwapProofs` | `TypeCorrect` | `Spec => []TypeOK` |
| | `PreimageNeedsLockup` | `Spec => []PreimageOnlyForLockup` |
| | `LockupIsNeverLost` | `Spec => LockupIdIsKept` |
| | `FundedOnce` | `~LostAnswers /\ Spec => []FundedOncePerStart` |
| | `ClaimIsNeverForgotten` | `~LostAnswers /\ Spec => []ClaimNotForgotten` |
| | `KeepsItsPromise` | `Spec => KeepsPromise` |
| `ChainReceiveSwapProofs` | `TypeCorrect` | `Spec => []TypeOK` |
| | `PreimageNeedsLockup` | `Spec => []PreimageOnlyForLockup` |
| | `ClaimIsNeverForgotten` | `~LostAnswers /\ Spec => []ClaimNotForgotten` |
| | `KeepsItsPromise` | `Spec => KeepsPromise` |
| `RealtimeSyncProofs` | `TypeCorrect` | `SyncSpec => []SyncTypeOK` |
| | `FieldsAreKept` | `SyncSpec => FieldIsKept` |
| | `SyncedInstancesAgree` | `SyncSpec => []SyncedMeansEqual` |
| `NotificationsProofs` | `TypeCorrect` | `NewsSpec => []NewsTypeOK` |
| | `NewsAlwaysArrives` | `NewsSpec => []NewsArrives` |
| | `AnswerIsAlwaysTrue` | `NewsSpec => []AnswerIsTrue` |
| | `AndroidAnswersJobs` | `SpecAndroid => []JobsAreAnswered` |
| | `IOSAnswersJobs` | `MaxServices \in Nat /\ SpecIOS => []JobsAreAnswered` |
| `NwcServiceProofs` | `TypeCorrect` | `NwcSpec => []NwcTypeOK` |
| | `ClientsAreAlwaysServed` | `NwcSpec => []ClientsAreServed` |
| `WalletProofs` | `TypeCorrect` | `AddressSpec => []AddressTypeOK` |
| | `AddressesAreOwn` | `AddressSpec => []MrhAddressIsOwn` |
| | `PricesTypeCorrect` | `Prices /\ PriceSpec => []PriceTypeOK` |
| | `PricesKeepToQuote` | `Prices /\ PriceSpec => []KeepsToQuote` |
| | `PreparedStaysPayable` | `Prices /\ PriceSpec => []PreparedIsPayable` |
| | `TableFollowsWallet` | `PaymentsAreReal /\ PaymentSpec => []PaymentsAreListed` |

`LostAnswers` and `Preemptive` are constants: the theorems without a hypothesis on them hold for both values. `KeepsPromise` is
that the swap implements `SwapPromise`: a theorem of it shows that the initial states are its initial states, and that each step is
one of its steps or changes nothing it speaks of.

None of the invariants is inductive. What each proof adds to it is what the code relies on without writing it down:

- *Types.* An incoming chain swap is well typed only because recovery writes the id of a claim (`ClaimSeenIsThere`) and
  Boltz's quotes are amounts (`QuoteIsThere`).
- *The id of a tx stays* (`LockupNotForgotten`, `LockupIdIsKept`, `ClaimNotForgotten`). A copy that passes the version check
  names what the row names, or its chain view shows the tx (`CopyAgrees`, `CopyKeepsLockup`, `CopyKeepsClaim`); the grace period
  runs while a broadcast is under way or cannot be seen (`GraceCoversBroadcast`, `GraceCoversLockup`, `GraceCoversClaim`); and who
  broadcasts owns the column (`SentOnce`, `BroadcasterOwnsClaim`), because one task at a time holds `claiming_swaps`
  (`OneClaimer`). The claims of a receive swap need it only before the timeout, those of an outgoing chain swap not after
  Boltz took its lockup back. A broadcast that reached the network but is reported as failed breaks all of these: the id is unset.
- *The preimage is given for a lockup that is there.* The verification and the claim are several awaits apart: `ClaimersVerified`
  (whoever claims, verified) is kept by the environment because only a lockup that was not verified can be replaced
  (`VerifiedStable`, `SettledStable`). For an incoming chain swap what is due may change in between, too: `AmountInv` says that
  a copy and the row agree on it, but for an amount that was erased.
- *Complete is true.* `CompleteMeansReceived` needs that the id a task is about to unset is not that of the claim that was
  confirmed (`BroadcastIsNew`); `CompleteHasProof` that rows, copies and pending updates are all honest (`RowHonest`,
  `UpdateHonest`). Incoming chain swaps add that no payment is spent by two txs (`RefundsDisjoint`).
- *Funded once.* `FundInv`: a swap that may still be funded is open, not expired, without a lockup id, and was funded by
  processes that crashed only (`FundedBefore`).
- *News arrives.* Per swap (`NewsInv`): what the row and Boltz say is on the chains (`RowIsTrue`, `BoltzIsTrue`), and the news is
  somewhere on its way: an ongoing swap is asked for or the connection that will do so is yet to be made (`IsAsked`); a status Boltz has
  not sent is in the stream, the channel or the handler, unless the row needs it no more (`StatusComes`); a state that was not told
  is in the channel or being told (`EventComes`). `Follows` exempts what the ghosts name. `RecoverSwapWrites` and `HandlersWrite` say what recovery and the handler
  may write, and the channels are sequences, which `SetOfTail`, `SetOfConcat` and `SetOfOrder` turn into sets.
- *A call's answer is true.* An event that is being told is not more than the row says (`EventInv`); nothing times out but the swap
  that is waited for; and a swap that timed out or failed with its lockup neither out nor about to be (`Forsaken`) stays so: recovery
  derives no ongoing state without a lockup, and `HandleCreated` refuses a swap that is TimedOut (`CallInv`).
- *Clients are served.* `ChangeIsTold`: a change the task has not read is told by a message in the channel or by a call that
  is about to send one. `Listening`: a listener of an earlier start is known as such.
- *Instances agree.* `SyncInv` says, per record of an instance, in which of the places where a change can be (the queue, a
  push, a batch, the server, the notice of another instance) it is. A step of one instance leaves the others' parts as they
  are, unless the server's revision goes up: then they have a notice (`OthersKeep`).
- *Addresses are own.* Users of one address are in an order (`OneByOne`): the invoice of the older one timed out before the
  other was created and before its payment was confirmed (`Older`). `Reserved` says the same of an address that waits in the table.
- *Quotes are kept.* `QuoteInv` adds to the two properties that a quote is over its invoice (`QuoteIsOfInvoice`), and that an
  unfunded swap which a later payment of the same invoice takes costs what an earlier quote allowed (`SwapsAreAccepted`). That
  what is quoted can be paid is arithmetic: a percentage rounded up grows with its amount (`CeilDivBounds`), so that the amount a
  drain computes downwards, and the fees computed upwards from it, differ by at most a satoshi (`DrainRoundsOnce`). A subtraction that wraps, of a
  cached balance that is too low, stays an amount (`MinusIsLess`); what a transaction takes is in the wallet (`BuildFits`, `DrainFits`).
- *Jobs are answered.* On Android (`AndroidInv`) a job that polls asks a connection that was made (`PollingIsConnected`), and connections
  have new numbers: a callback that disconnects leaves no job that polls a live one, whatever service it was of. On iOS (`IOSInv`)
  the instances are started one after the other and have one job each (`OneJobEach`), and an instance whose job has told nobody is
  timed (`WaitingIsTimed`).
- *The table has what LWK knows.* `CleanSyncs` says how far a sync that nobody interfered with is: what it still has to do is
  in the table as it was listed, what it has done agrees with LWK (`RowAgrees`), and what it may delete was unconfirmed then. When nothing is
  left, the table agrees (`TableAgrees`). `ConfirmedRows` needs that LWK never forgets a block (`OnceBroadcast`), and that a row a call
  inserted names no asset its transaction does not move (`PseudoTouches`): the update would leave that one standing.

These invariants were checked by TLC before they were proved. Model-checked only are: liveness (section 4), as the prover has no
rules for fairness here; `KeepsPromiseAtomically` of `send_mc` (with preemption, whose scenario it names; `KeepsItsPromise` is its
part without); `CoinsAreCounted`, as what the coins and the balance are compared with are sums over sets, which are folds: no fact of them can
be proved without an induction over data; and, for the same reason, the types of `Payments`, whose balance is such a sum, and of `NotificationJobs`,
whose lists are filtered by an operator. The proofs about these two rest on the forms their records have (`TableForms`, `JobForms`).

## 6. What the code does and its comments do not say

The first three are refuted by a run each; the others were seen while modelling, and are findings without a run.

1. `TimedOutHasNoLockup` (`send_timedout`): TimedOut "indicates the lockup tx should never be broadcast", but a crash
   after the broadcast and `start()` make a funded swap TimedOut, which nothing follows.
2. `FailedHoldsNoFunds` (`send_failed`): a failure status with no lockup id stored makes a swap Failed while
   `try_lockup` is building its tx, and is then funded.
3. `RefundIdIsReal` (`chainrecv_refundid`): a claim of an incoming chain swap that fails after Boltz was given the preimage lets
   Boltz take the BTC; recovery stores Boltz's tx as the user's refund, and the L-BTC is no longer claimed.
4. `ReceivedIsNotFailed`: a failure status that is handled before recovery stored the MRH payment makes
   a swap Failed whose money has arrived.
5. `CompleteMeansClaimed`: Boltz's refund of its own lockup is taken for the claim of an outgoing chain swap.
6. `AgreedIsStored`: a second failure status while the acceptance of a quote is awaited erases the accepted amount.
7. NWC requests: "Verify the event has not expired" skips the events that have not expired (`plugins/nwc/src/lib.rs:194`).

More was seen that no comment speaks of. Send and receive swaps:

- recovery takes an unexpired swap out of RefundPending (`handle_send_swap.rs:274`), although it
  "ensures that the background thread will pick it up" (`send_swap.rs:180`);
- when lockup and claim are confirmed at one height and the wallet scan is older than the
  history, recovery may store the claim tx as the lockup (`recover/handlers/mod.rs:44`);
- the lockup id of a send swap is stored before, not "only when", its tx is broadcast
  (`model.rs:1405`, `send_swap.rs:238`);
- the refund id of a swap that already is RefundPending is not stored with the refund
  (`send_swap.rs:568`);
- a send swap can leave Complete if another thread runs between the validation of an update and its
  write (`send_swap.rs:371`).

Chain swaps:

- `swap.created` broadcasts the lockup before it stores anything (`chain_swap.rs:545`): after a crash
  in between a repeated `swap.created` funds the swap again. Only one of two lockups is followed;
- if the wait for the payment times out during `lockup_funds`, the move to Pending is refused and
  the lockup's id is stored by recovery only; a failure status before that makes the swap Failed;
- `claim_confirmed_server_lockup` looks at the confirmation of the server lockup, not at its
  amount (`chain_swap.rs:189`), though the status handler does;
- outgoing swaps are not recovered after a timeout (`sdk.rs:3972`), contrary to the TODO at
  `handle_chain_send_swap.rs:217`;
- `zero_conf_rejected = false` sets `accept_zero_conf` for an amount above the limit, too
  (`chain_swap.rs:580`);
- a failure handler of an incoming swap that began before the fees were accepted may mark the swap Refundable after it
  was claimed; a lost answer of the acceptance erases the accepted amount.

Real-time sync:

- a push removes the record from the queue after the answer, whatever was queued meanwhile (`sync/mod.rs:652`);
- an update of a send swap without a preimage writes NULL for the list of changed fields, and an earlier "preimage" is no
  news any more;
- `auto_accepted_fees` is pushed and merged but not written by a pull;
- after too many failed pushes what is queued for payment details, the derivation index and offers is dropped;
- a failed round is made up for at the next trigger only, and `start()` triggers none; `SyncedCompleted` is sent after a push that failed, too.

Notifications:

- a reconnection puts all ongoing swaps into a channel of 30 which the same loop has not begun to read;
- a status whose handler failed is handled again only when Boltz sends it again; a failed first sync leaves the
  events paused until a later one succeeds;
- a lockup broadcast while the wait times out leaves a TimedOut chain swap with its funds locked, although the call answered
  PaymentTimeout; recovery, when it sees the lockup, makes the swap Pending again (`chain_swap.rs:801` does not validate), and it is paid;
- to a swap that was TimedOut when the socket connected nobody subscribes after that: it is not among the ongoing swaps
  (`persist/chain.rs:261`), and what revives it (`sdk.rs:3974`) does not ask for its statuses. Claim and refund by blocks do without.

Prepare calls:

- the quote of a drain to Bitcoin computes the lockup amount downwards, `pay_onchain` upwards: for some balances they differ by
  one and the quote is always refused (`PreparedIsPayable` allows one satoshi);
- `balance_sat - drain_fees_sat` wraps when the cached balance is too low, and the check of the funds wraps back;
- `send_payment_via_swap` with an unfunded swap of the invoice checks the new fees and locks up the amount of the old ones;
- a drain by a magic routing hint drains what the wallet has when it is paid.

Addresses:

- before the first index is stored two calls get the same address, and the later one may set the index back
  (`wallet/mod.rs:455`);
- an unconfirmed payment at a reused address counts for every invoice that had it (`handle_receive_swap.rs:161`); one that
  is confirmed after the timeout of its invoice, for the next one;
- the reservations are local: two instances of a wallet that are not synchronised give out the same addresses.

Payments and assets:

- two calls of `update_wallet_info` that overlap may write the older balance last; of two syncs that overlap the earlier
  may delete the row of a transaction the later one just found (`sdk.rs:4131`), until the next sync;
- the balance of an asset is a signed sum whose sign is dropped (`sdk.rs:4180`): were more spent than is confirmed, it would be
  shown as what is left. The check of the funds prevents it for calls that follow one another;
- a payment that moves L-BTC and an asset has two rows of `payment_balance`. The wallet's own asset payments have, once LWK
  knows them: the list shows them twice, although "each tx results in a Payment" (`persist/mod.rs:632`), and the fee of a
  pending one counts twice in what is being sent;
- the fee of a payjoin is not compared with its estimate; that of a swap is compared, but not what the payer pays, and the amounts are
  those of SideSwap's last answer;
- a swap may be quoted from any asset but is built from L-BTC; coins that match exactly leave no change, and the
  swap is refused; a payjoin spends all coins of the asset;
- a payjoin of nearly everything may be given up though another choice of SideSwap's coins would do: per number of coins only the
  least value is tried;
- SideSwap's socket does not log in again after it reconnected, and an answer that is an error is dropped, so that the call times out.

Push notifications:

- a shutdown scheduled when one job ended disconnects the SDK under another that is connecting or polling; callbacks outlive
  their service and disconnect the next one's SDK; a job that starts after the last callback is ended by nobody;
- an event reaches the first job that it matches, and does not stop the job's polling: success may be followed by failure;
- a swap message that is not decoded is never answered; on iOS an expired or failed task disconnects the SDK for all.

NWC:

- `set_nwc_uri` and `remove_nwc_uri` read, change and write without a lock; removing an unknown name succeeds (`persist.rs:48`
  makes an error and drops it);
- a call that began before a restart triggers the task that is gone; a stop between adding the listener and noting
  its id leaves the listener in the SDK; an error when subscribing ends the task, and the service counts as running;
- the task answers requests one by one: a payment blocks it for up to three minutes; `on_start` is spawned by the bindings
  and may run after `on_stop`.

## 7. Plan

Done: the swaps, their common promise, sync, notifications, quotes, addresses, push notifications, NWC, asset payments, the
table of payments; the theorems of section 5. What is left:

1. Proofs, once the provers have a theory of folds: the loop invariant of the coin search, and that the balance is covered.
2. A change of the sync server (`set_new_remote`), and the manual scan of synced derivation indexes.

## 8. Not modelled

Boltz's and the chains' protocols beyond what the code observes; amounts and fees of swaps except
where a guard compares them; the content of scripts, signatures and blinding; the joins of the payments table with swaps;
SideSwap's socket, LNURL, BIP353, webhooks and buying (requests to services and the parsing
of their answers); the wallet library; the CLI, WASM and the bindings, which forward calls and convert values.
Two swaps meet in the wallet's coins, which are not modelled: each swap is alone in its module.
