-------------------------- MODULE ChainReceiveSwap --------------------------
(***************************************************************************)
(* The life of one incoming chain swap: somebody pays BTC to the lockup    *)
(* address, Boltz locks L-BTC, and the SDK claims it with the preimage, by *)
(* which Boltz can claim the BTC. A swap may be created without an amount: *)
(* Boltz then quotes one for what was paid, and the SDK (when the fees are *)
(* low) or the user has to accept it. BTC that Boltz does not take is      *)
(* refunded, when the user says where to.                                  *)
(*                                                                         *)
(* Three kinds of tasks work on the row of the chain_swaps table:          *)
(*   - the track-swap-updates task: Boltz status updates       (Status)    *)
(*   - the track-new-blocks task: recovery and claims          (Blocks)    *)
(*   - calls of the application: accept_payment_proposed_fees(),           *)
(*     refund() and rescan_onchain_swaps()                     (Calls)     *)
(* The process may crash and be started again between any two steps. The   *)
(* payer, Boltz and the two chains are the environment.                    *)
(***************************************************************************)
EXTENDS Naturals, FiniteSets

CONSTANTS Calls,         \* what the application calls, of "accept", "refund" and "rescan": one call at a time of each
          Blocks,        \* the track-new-blocks task
          Status,        \* the track-swap-updates task
          ClaimTxs,      \* ids of the L-BTC claim txs that are built
          RefundTxs,     \* ids of the BTC refund txs that are built
          ServerRefund,  \* the tx by which Boltz takes its L-BTC lockup back
          ServerClaim,   \* the tx by which Boltz takes the BTC
          NoTx,          \* "no transaction id" (a NULL column)
          Zero,          \* bound: may the swap be one without an amount?
          Deposits,      \* bound: what is paid, of "agreed" (for a swap without an amount: within the
                         \* limits) and "unexpected"
          More,          \* bound: may the address be paid a second time?
          Quotes,        \* bound: the amounts Boltz may quote, of Low and High
          Offers,        \* what Boltz may lock up, of "good" (what is due), "short" (too little) and
                         \* "rbf" (what is due, in a tx that can still be replaced)
          Timeouts,      \* bound: the chains, of "liquid" and "bitcoin", whose tip may reach the timeout
          LostAnswers,   \* may a broadcast, or Boltz's acceptance, fail for the caller only?
          MaxRestarts    \* bound: how often the process crashes and starts again

\* What a quote leaves for the receiver: the SDK accepts High by itself, Low needs the user
Low  == 1
High == 2

ASSUME TasksAssumption ==
  /\ Calls \subseteq {"accept", "refund", "rescan"}
  /\ Blocks \notin Calls /\ Status \notin Calls /\ Blocks # Status

ASSUME TxsAssumption ==
  /\ ClaimTxs \cap {ServerRefund, NoTx} = {} /\ RefundTxs \cap {ServerClaim, NoTx} = {}
  /\ ServerRefund # NoTx /\ ServerClaim # NoTx

ASSUME BoundsAssumption ==
  /\ Zero \subseteq BOOLEAN /\ Deposits \subseteq {"agreed", "unexpected"} /\ More \in BOOLEAN
  /\ Quotes \subseteq {Low, High} /\ Offers \subseteq {"good", "short", "rbf"}
  /\ Timeouts \subseteq {"liquid", "bitcoin"} /\ LostAnswers \in BOOLEAN /\ MaxRestarts \in Nat

Tasks == Calls \cup {Blocks, Status}

VARIABLES
  row,       \* the persisted swap: the columns the handlers read and write
  fresh,     \* tasks whose copy still carries the row's current version
  grace,     \* last_updated_at is younger than NETWORK_PROPAGATION_GRACE_PERIOD
  claiming,  \* the swap's id is in claiming_swaps
  pc,        \* where each task is
  copy,      \* what each task still uses of the ChainSwap it fetched, the amounts and ids it has
  view,      \* what recovery read earlier of the tips, the wallet and the clock
  restarts,  \* crashes so far
  liquid,    \* the Liquid tip against claim_timeout_block_height
  bitcoin,   \* the Bitcoin tip against timeout_block_height
  deposit,   \* the user lockup: what it is like, and where it is
  more,      \* a second payment to the address was confirmed
  refunds,   \* each refund tx: the payments it spends, and where it is
  sweep,     \* where ServerClaim is
  server,    \* Boltz's lockup: its amount, whether it signals RBF, and where it is
  spend,     \* the tx that spends Boltz's lockup, and where it is
  revealed,  \* Boltz was given the preimage, for its signature of a claim tx
  boltz,     \* Boltz waits for the lockup, asks for a quote to be accepted, was told so, or gave up
  quote,     \* the quote Boltz has for what was paid
  agreed     \* the quote that was accepted at Boltz, 0 if none was

rowVars     == <<row, fresh, grace>>
taskVars    == <<claiming, pc, copy, view>>
tipVars     == <<liquid, bitcoin>>
bitcoinTxs  == <<deposit, more, refunds, sweep>>
liquidTxs   == <<server, spend>>
quoteVars   == <<quote, agreed>>
boltzVars   == <<revealed, boltz, quoteVars>>
chainVars   == <<tipVars, bitcoinTxs, liquidTxs, boltzVars>>
vars == <<rowVars, taskVars, chainVars, restarts>>

-----------------------------------------------------------------------------
(* The persisted row. *)

States == {"None", "Created", "Pending", "WaitingFeeAcceptance", "Refundable", "RefundPending",
           "Complete", "Failed"}

RefundIds == RefundTxs \cup {ServerClaim, NoTx}
ClaimIds  == ClaimTxs \cup {NoTx}

\* `lockup' and `server' say whether user_lockup_tx_id and server_lockup_tx_id are set; `accepted'
\* is accepted_receiver_amount_sat, 0 for NULL. The actual payer amount is the deposit's.
Rows == [state: States, zero: BOOLEAN, lockup: BOOLEAN, server: BOOLEAN, claim: ClaimIds,
         refund: RefundIds, zeroConf: BOOLEAN, accepted: {0, Low, High}]

NoRow == [state |-> "None", zero |-> FALSE, lockup |-> FALSE, server |-> FALSE, claim |-> NoTx,
          refund |-> NoTx, zeroConf |-> FALSE, accepted |-> 0]

\* validate_state_transition: the pairs it accepts among the states of an incoming swap
Allowed ==
  LET early == {"Created", "Pending", "WaitingFeeAcceptance"}
  IN  (early \X {"Pending", "WaitingFeeAcceptance"})
      \cup ((early \cup {"RefundPending", "Failed", "Complete"}) \X {"Refundable"})
      \cup ({"Pending", "WaitingFeeAcceptance", "Refundable", "RefundPending"} \X {"RefundPending"})
      \cup ((States \ {"Complete", "None"}) \X {"Failed"})

\* Any UPDATE that matches the row: the triggers move version and last_updated_at
UpdateRow(r) == row' = r /\ fresh' = {} /\ grace' = TRUE

Accepts(to) == <<row.state, to>> \in Allowed

\* update_swap_info: ids of lockups that are set stay, a refund id replaces the one before. No await.
update_swap_info(to, lockup, serverLockup, refundId) ==
  IF Accepts(to)
    THEN UpdateRow([row EXCEPT !.state = to, !.lockup = @ \/ lockup, !.server = @ \/ serverLockup,
                               !.refund = IF refundId = NoTx THEN @ ELSE refundId])
    ELSE UNCHANGED rowVars

IsExpired == liquid # "below" \/ bitcoin # "below"

\* create_receive_chain_swap; only small amounts accept zero-conf, one that is not known does not
CreateReceiveChainSwap ==
  /\ row.state = "None" /\ ~IsExpired
  /\ \E zero \in Zero :
       \E zeroConf \in IF zero THEN {FALSE} ELSE BOOLEAN :
         UpdateRow([NoRow EXCEPT !.state = "Created", !.zero = zero, !.zeroConf = zeroConf])
  /\ UNCHANGED <<taskVars, chainVars, restarts>>

-----------------------------------------------------------------------------
(* Control of a task. *)

NoView == [expired |-> FALSE, recent |-> FALSE, claim |-> FALSE]

Goto(t, label) == pc' = [pc EXCEPT ![t] = label]

\* A task that is done with the swap forgets its copy
Leave(t) == Goto(t, "idle") /\ copy' = [copy EXCEPT ![t] = NoRow]

Keep(t, r, label) == Goto(t, label) /\ copy' = [copy EXCEPT ![t] = r]

-----------------------------------------------------------------------------
(* What the lockup address shows. *)

Visible == {"seen", "mined"}

DepositSeen == deposit.at \in Visible

\* The payments that nothing confirmed has spent
Unspent ==
  LET paid  == (IF deposit.at = "mined" THEN {"deposit"} ELSE {}) \cup (IF more THEN {"more"} ELSE {})
      spent == UNION {refunds[f].of : f \in {g \in RefundTxs : refunds[g].at = "mined"}}
  IN  paid \ (spent \cup (IF sweep = "mined" THEN {"deposit"} ELSE {}))

\* The txs that spend from it
Outgoing == {f \in RefundTxs : refunds[f].at \in Visible} \cup (IF sweep \in Visible THEN {ServerClaim} ELSE {})

OutgoingAt(id) == IF id = ServerClaim THEN sweep ELSE refunds[id].at

-----------------------------------------------------------------------------
(* on_new_incoming_status. Updates may be lost, repeated and late: a status that was true may be *)
(* handled at any later time, but a failure ends the ones before it.                             *)

StatusArrives == pc[Status] = "idle" /\ row.state # "None"

\* transaction.mempool and transaction.confirmed: Boltz saw the user lockup. It may say whether it
\* rejects zero-conf, and which the tx is
UserLockupAnnounced ==
  /\ StatusArrives /\ boltz # "gone" /\ DepositSeen
  /\ LET TellsZeroConf == \E zeroConf \in BOOLEAN : UpdateRow([row EXCEPT !.zeroConf = zeroConf])
     IN  \/ (TellsZeroConf \/ UNCHANGED rowVars) /\ Goto(Status, "amount")
         \/ TellsZeroConf /\ UNCHANGED pc
  /\ UNCHANGED <<claiming, copy, view, chainVars, restarts>>

\* fetch_incoming_swap_actual_payer_amount has an answer, which is stored even if the transition is refused
StorePayerAmount ==
  /\ pc[Status] = "amount"
  /\ UpdateRow(IF Accepts("Pending") THEN [row EXCEPT !.state = "Pending", !.lockup = TRUE] ELSE row)
  /\ Leave(Status)
  /\ UNCHANGED <<claiming, view, chainVars, restarts>>

\* transaction.server.mempool and transaction.server.confirmed
ServerLockupAnnounced(confirmed) ==
  /\ StatusArrives /\ boltz # "gone" /\ row.claim = NoTx
  /\ server.at \in IF confirmed THEN {"mined"} ELSE Visible
  /\ Keep(Status, [NoRow EXCEPT !.zero = row.zero, !.lockup = row.lockup, !.zeroConf = row.zeroConf,
                                !.accepted = row.accepted],
          IF confirmed THEN "userConfirmed" ELSE "userMempool")
  /\ UNCHANGED <<rowVars, claiming, view, chainVars, restarts>>

\* verify_user_lockup_tx: the id is stored if it was not known, the amount has to be the agreed one
VerifyUserLockup ==
  /\ pc[Status] \in {"userMempool", "userConfirmed"}
  /\ DepositSeen /\ (copy[Status].zero \/ deposit.kind = "agreed")
  /\ IF copy[Status].lockup THEN UNCHANGED rowVars ELSE update_swap_info("Pending", TRUE, FALSE, NoTx)
  /\ IF copy[Status].lockup \/ Accepts("Pending")
       THEN Goto(Status, IF pc[Status] = "userMempool" THEN "serverMempool" ELSE "serverConfirmed")
            /\ UNCHANGED copy
       ELSE Leave(Status)
  /\ UNCHANGED <<claiming, view, chainVars, restarts>>

\* Mutant: only an accepted amount is looked at
PaysEnough_Accepted(s) == server.value >= s.accepted

\* The amounts of verify_incoming_server_lockup_tx: what was accepted is due, else what was agreed
\* at creation, which is 0 for a swap without an amount
PaysEnough(s) == IF s.accepted # 0 THEN server.value >= s.accepted ELSE s.zero \/ server.value >= High

\* A mempool lockup is verified, and claimed if the copy accepts zero-conf
VerifyMempoolLockup ==
  /\ pc[Status] = "serverMempool" /\ PaysEnough(copy[Status]) /\ ~server.rbf
  /\ update_swap_info("Pending", FALSE, TRUE, NoTx)
  /\ IF Accepts("Pending") /\ copy[Status].zeroConf THEN Keep(Status, NoRow, "claim") ELSE Leave(Status)
  /\ UNCHANGED <<claiming, view, chainVars, restarts>>

\* The id of a confirmed lockup is stored whether it can be verified or not
VerifyConfirmedLockup ==
  /\ pc[Status] = "serverConfirmed"
  /\ update_swap_info("Pending", FALSE, TRUE, NoTx)
  /\ \/ /\ Accepts("Pending") /\ server.at = "mined" /\ PaysEnough(copy[Status])
        /\ Keep(Status, NoRow, "claim")
     \/ Leave(Status)
  /\ UNCHANGED <<claiming, view, chainVars, restarts>>

\* Something could not be verified or fetched: not found, another amount, RBF, no answer
VerifyFails(t) ==
  /\ pc[t] \in {"amount", "userMempool", "userConfirmed", "serverMempool", "verify"}
  /\ Leave(t)
  /\ UNCHANGED <<rowVars, claiming, view, chainVars, restarts>>

\* transaction.lockupFailed for a swap without an amount: handle_amountless_update first erases an
\* amount that was accepted before
LockupFailedAmountless ==
  /\ StatusArrives /\ boltz = "lockupFailed" /\ row.zero
  /\ IF row.accepted # 0 THEN UpdateRow([row EXCEPT !.accepted = 0]) ELSE UNCHANGED rowVars
  /\ Keep(Status, [NoRow EXCEPT !.lockup = row.lockup, !.refund = row.refund], "quote")
  /\ UNCHANGED <<claiming, view, chainVars, restarts>>

\* The quote was fetched and validate_amountless_swap compared it with the fees that are accepted
\* without asking. One that is good enough is stored before it is accepted at Boltz.
ValidateAmountlessSwap ==
  /\ pc[Status] = "quote" /\ boltz = "lockupFailed"
  /\ IF quote = High
       THEN UpdateRow([row EXCEPT !.accepted = quote]) /\ Keep(Status, [copy[Status] EXCEPT !.accepted = quote], "accept")
       ELSE /\ update_swap_info("WaitingFeeAcceptance", FALSE, FALSE, NoTx)
            /\ IF Accepts("WaitingFeeAcceptance") THEN Leave(Status) ELSE Goto(Status, "failed") /\ UNCHANGED copy
  /\ UNCHANGED <<claiming, view, chainVars, restarts>>

\* No quote or no balance could be had: the swap is marked as refundable instead
ValidateFails ==
  /\ pc[Status] = "quote"
  /\ Goto(Status, "failed")
  /\ UNCHANGED <<rowVars, claiming, copy, view, chainVars, restarts>>

\* accept_zero_amount_chain_swap_quote at Boltz, which takes its present quote only
BoltzAccepts(t) ==
  /\ boltz = "lockupFailed" /\ quote = copy[t].accepted
  /\ boltz' = "accepted" /\ agreed' = quote
  /\ UNCHANGED <<revealed, quote>>

\* The SDK accepted by itself and stores that it did
AutoAccepted ==
  /\ pc[Status] = "accept"
  /\ BoltzAccepts(Status)
  /\ UpdateRow(row)
  /\ Leave(Status)
  /\ UNCHANGED <<claiming, view, tipVars, bitcoinTxs, liquidTxs, restarts>>

EraseAccepted == UpdateRow([row EXCEPT !.accepted = 0])

\* Boltz refused, or its answer was lost
AcceptFails(t) ==
  /\ pc[t] = "accept"
  /\ (LostAnswers /\ BoltzAccepts(t)) \/ UNCHANGED boltzVars
  /\ EraseAccepted
  /\ IF t = Status THEN Goto(t, "failed") /\ copy' = [copy EXCEPT ![t].accepted = 0] ELSE Leave(t)
  /\ UNCHANGED <<claiming, view, tipVars, bitcoinTxs, liquidTxs, restarts>>

\* The other failures: Boltz gave up, or a lockup with an agreed amount was not what was agreed
SwapFailed ==
  /\ StatusArrives
  /\ boltz = "gone" \/ (boltz = "lockupFailed" /\ ~row.zero)
  /\ Keep(Status, [NoRow EXCEPT !.lockup = row.lockup, !.refund = row.refund], "failed")
  /\ UNCHANGED <<rowVars, claiming, view, chainVars, restarts>>

\* user_lockup_tx_exists, and the swap is refundable or failed
MarkFailed ==
  /\ pc[Status] = "failed"
  /\ \/ copy[Status].refund # NoTx /\ UNCHANGED rowVars
     \/ /\ copy[Status].refund = NoTx
        /\ IF DepositSeen
             THEN LET \* storing the id is a transition to Pending, whose refusal ends the handler
                      known == copy[Status].lockup \/ Accepts("Pending")
                  IN  IF known /\ (Accepts("Refundable") \/ ~copy[Status].lockup)
                        THEN UpdateRow([row EXCEPT !.state = "Refundable", !.lockup = @ \/ ~copy[Status].lockup])
                        ELSE UNCHANGED rowVars
             ELSE update_swap_info("Failed", FALSE, FALSE, NoTx)
  /\ Leave(Status)
  /\ UNCHANGED <<claiming, view, chainVars, restarts>>

\* The history could not be had
MarkFails ==
  /\ pc[Status] = "failed"
  /\ Leave(Status)
  /\ UNCHANGED <<rowVars, claiming, view, chainVars, restarts>>

-----------------------------------------------------------------------------
(* What the application calls. *)

\* accept_payment_proposed_fees asks for the quote, of a swap that waits for its fees to be accepted
AcceptProposedFees(t) ==
  /\ t = "accept" /\ pc[t] = "idle" /\ row.state = "WaitingFeeAcceptance"
  /\ Goto(t, "quote")
  /\ UNCHANGED <<rowVars, claiming, copy, view, chainVars, restarts>>

\* The quote could not be had, or is another one than was proposed
ProposalFails(t) ==
  /\ pc[t] = "quote"
  /\ Leave(t)
  /\ UNCHANGED <<rowVars, claiming, view, chainVars, restarts>>

\* The quote is the proposed one: it is stored before it is accepted at Boltz
StoreProposedFees(t) ==
  /\ pc[t] = "quote" /\ boltz = "lockupFailed"
  /\ UpdateRow([row EXCEPT !.accepted = quote])
  /\ Keep(t, [NoRow EXCEPT !.accepted = quote], "accept")
  /\ UNCHANGED <<claiming, view, chainVars, restarts>>

ProposedFeesAccepted(t) ==
  /\ pc[t] = "accept"
  /\ BoltzAccepts(t)
  /\ update_swap_info("Pending", FALSE, FALSE, NoTx)
  /\ Leave(t)
  /\ UNCHANGED <<claiming, view, tipVars, bitcoinTxs, liquidTxs, restarts>>

\* refund_incoming_swap: is_refundable, checked on the swap it fetched
Refund(t) ==
  /\ t = "refund" /\ pc[t] = "idle" /\ row.state \in {"Refundable", "RefundPending", "WaitingFeeAcceptance"}
  /\ Goto(t, "refund")
  /\ UNCHANGED <<rowVars, claiming, copy, view, chainVars, restarts>>

\* Boltz signs a refund when it failed the swap and nothing of its own is at stake
BoltzSigns == boltz \in {"lockupFailed", "gone"} /\ (server.at = "none" \/ spend.by = ServerRefund)

\* With Boltz's signature, or else after the timeout without. It spends all that nothing confirmed
\* has spent, so it may replace a refund that is not confirmed.
BroadcastRefund(t) ==
  /\ pc[t] = "refund"
  /\ BoltzSigns \/ bitcoin # "below"
  /\ LET utxos == Unspent \cup (IF deposit.at = "seen" THEN {"deposit"} ELSE {})
     IN  /\ utxos # {} /\ (sweep \in Visible => "deposit" \notin utxos)
         /\ \E f \in RefundTxs :
              /\ refunds[f].at = "none"
              /\ refunds' = [g \in RefundTxs |->
                   IF g = f THEN [of |-> utxos, at |-> "sent"]
                   ELSE IF refunds[g].at \in {"sent", "seen"} THEN [refunds[g] EXCEPT !.at = "replaced"]
                   ELSE refunds[g]]
              /\ Keep(t, [NoRow EXCEPT !.refund = f], "refunded")
  /\ UNCHANGED <<rowVars, claiming, view, tipVars, deposit, more, sweep, liquidTxs, boltzVars, restarts>>

RefundSent(t) ==
  /\ pc[t] = "refunded"
  /\ update_swap_info("RefundPending", FALSE, FALSE, copy[t].refund)
  /\ Leave(t)
  /\ UNCHANGED <<claiming, view, chainVars, restarts>>

\* There was no refund, or the answer of its broadcast was lost
RefundFails(t) ==
  /\ pc[t] = "refund" \/ (LostAnswers /\ pc[t] = "refunded")
  /\ Leave(t)
  /\ UNCHANGED <<rowVars, claiming, view, chainVars, restarts>>

-----------------------------------------------------------------------------
(* claim_incoming, which the block task calls on a new Liquid block, and claim. *)

ClaimIncoming ==
  /\ pc[Blocks] = "liquid"
  /\ IF row.state = "Pending" /\ row.claim = NoTx /\ row.server
       THEN Goto(Blocks, "verify") /\ UNCHANGED copy
       ELSE Leave(Blocks)
  /\ UNCHANGED <<rowVars, claiming, view, chainVars, restarts>>

NoNewBlock ==
  /\ pc[Blocks] = "liquid"
  /\ Leave(Blocks)
  /\ UNCHANGED <<rowVars, claiming, view, chainVars, restarts>>

\* claim_confirmed_server_lockup: the tx of the row is in the history, confirmed. The amount is
\* not looked at.
ClaimConfirmedServerLockup ==
  /\ pc[Blocks] = "verify" /\ server.at = "mined"
  /\ Goto(Blocks, "claim")
  /\ UNCHANGED <<rowVars, claiming, copy, view, chainVars, restarts>>

BeginClaim(t) ==
  /\ pc[t] = "claim"
  /\ IF claiming \/ row.claim # NoTx
       THEN Leave(t) /\ UNCHANGED claiming
       ELSE Goto(t, "build") /\ claiming' = TRUE /\ UNCHANGED copy
  /\ UNCHANGED <<rowVars, view, chainVars, restarts>>

\* Whatever the result of claim_inner, the id leaves claiming_swaps
EndClaim(t) == Leave(t) /\ claiming' = FALSE

\* create_claim_tx returned a tx that Boltz signed, for which it was given the preimage;
\* set_chain_swap_claim writes only over NULL
SetClaimTxId(t, k) ==
  /\ pc[t] = "build" /\ k # spend.by
  /\ revealed' = TRUE
  /\ IF row.claim = NoTx
       THEN /\ UpdateRow([row EXCEPT !.claim = k])
            /\ Keep(t, [NoRow EXCEPT !.claim = k], "broadcast")
            /\ UNCHANGED claiming
       ELSE EndClaim(t) /\ UNCHANGED rowVars
  /\ UNCHANGED <<view, tipVars, bitcoinTxs, liquidTxs, boltz, quoteVars, restarts>>

BuildFails(t) ==
  /\ pc[t] = "build"
  /\ revealed' \in {revealed, TRUE}
  /\ EndClaim(t)
  /\ UNCHANGED <<rowVars, view, tipVars, bitcoinTxs, liquidTxs, boltz, quoteVars, restarts>>

\* The network takes a claim tx of an unspent server lockup
Sent(t) ==
  /\ spend.by = NoTx
  /\ spend' = [by |-> copy[t].claim, at |-> "sent"]

\* By the chain service or, when that fails, by Boltz
BroadcastClaim(t) ==
  /\ pc[t] = "broadcast"
  /\ Sent(t)
  /\ EndClaim(t)
  /\ UNCHANGED <<rowVars, view, tipVars, bitcoinTxs, server, boltzVars, restarts>>

\* Both failed, or the answer was lost: unset_chain_swap_claim_tx_id clears this id only
UnsetClaimTxId(t) ==
  /\ pc[t] = "broadcast"
  /\ (LostAnswers /\ Sent(t)) \/ UNCHANGED spend
  /\ IF row.claim = copy[t].claim THEN UpdateRow([row EXCEPT !.claim = NoTx]) ELSE UNCHANGED rowVars
  /\ EndClaim(t)
  /\ UNCHANGED <<view, tipVars, bitcoinTxs, server, boltzVars, restarts>>

-----------------------------------------------------------------------------
(* Recovery from the chains, and the write of what it found. *)

\* get_monitored_swaps_list: in any state, past the timeouts only when there is a new Bitcoin
\* block. That stops about two weeks later, which is not modelled.
Monitored(newBitcoinBlock) == newBitcoinBlock \/ (liquid # "above" /\ bitcoin # "above")

\* The copy that recovery works on, the tips, and then the wallet's full scan. A row that changes
\* between its read and the scan makes the copy stale: as nothing is written then, one step does.
Scan(t) ==
  /\ Keep(t, row, "recover") /\ fresh' = fresh \cup {t}
  /\ view' = [view EXCEPT ![t] =
       [expired |-> IsExpired, recent |-> grace, claim |-> spend.by \in ClaimTxs /\ spend.at \in Visible]]

\* get_sync_context of the block task, and recover_from_onchain
ListMonitored ==
  /\ pc[Blocks] = "idle" /\ row.state # "None"
  /\ \E newBitcoinBlock \in BOOLEAN : Monitored(newBitcoinBlock)
  /\ Scan(Blocks)
  /\ UNCHANGED <<row, grace, claiming, chainVars, restarts>>

\* Without a new Liquid block only Lightning receive swaps are recovered
NothingMonitored ==
  /\ pc[Blocks] = "idle" /\ row.state # "None"
  /\ Goto(Blocks, "liquid")
  /\ UNCHANGED <<rowVars, claiming, copy, view, chainVars, restarts>>

\* rescan_onchain_swaps lists every chain swap
RescanOnchainSwaps(t) ==
  /\ t = "rescan" /\ pc[t] = "idle" /\ row.state # "None"
  /\ Scan(t)
  /\ UNCHANGED <<row, grace, claiming, chainVars, restarts>>

\* determine_incoming_lockup_and_claim_txs: a tx of the wallet is the claim. Otherwise a second tx
\* is Boltz's refund, and what is confirmed is the lockup; of two unconfirmed ones nothing is known.
FoundClaim(v)  == IF v.claim THEN spend.by ELSE NoTx

\* Mutant: a lockup that nothing spends is not taken for one
FoundServer_OnlySpent(v) == v.claim

FoundServer(v) == server.at # "none" /\ (v.claim \/ spend.at \notin Visible \/ server.at = "mined")

\* The refund is an unconfirmed tx that spends from the address, or else a later one of them;
\* when the claim is known, the only one there is is Boltz's
FoundRefunds(claimId) ==
  IF Outgoing = {} \/ (claimId # NoTx /\ Cardinality(Outgoing) = 1) THEN {NoTx}
  ELSE LET unconfirmed == {f \in Outgoing : OutgoingAt(f) = "seen"}
       IN  IF unconfirmed # {} THEN unconfirmed ELSE Outgoing

\* Mutant: funds that are left after the timeout are not looked for
derive_partial_state_NoRefundable(s, claimId, refundId, expired) ==
  IF ~DepositSeen THEN (IF expired THEN "Failed" ELSE s.state)
  ELSE IF claimId # NoTx /\ spend.at = "mined" THEN "Complete"
  ELSE IF refundId # NoTx THEN (IF OutgoingAt(refundId) = "mined" THEN "Failed" ELSE "RefundPending")
  ELSE "Pending"

\* Mutant: a claim that is not confirmed is good enough
derive_partial_state_ClaimSeen(s, claimId, refundId, expired) ==
  IF claimId # NoTx THEN "Complete" ELSE IF DepositSeen THEN "Pending" ELSE s.state

\* derive_partial_state, where s.state is what the swap keeps when nothing can be derived
derive_partial_state(s, claimId, refundId, expired) ==
  LET left     == expired /\ Unspent # {}
      claimed  == claimId # NoTx /\ spend.at = "mined"
      refunded == refundId # NoTx /\ OutgoingAt(refundId) = "mined"
  IN  CASE ~DepositSeen -> IF expired THEN "Failed" ELSE s.state
        [] DepositSeen /\ claimId # NoTx /\ ~claimed -> "Pending"
        [] DepositSeen /\ refundId # NoTx /\ ~refunded /\ (claimId = NoTx \/ claimed) -> "RefundPending"
        [] DepositSeen /\ claimed /\ (refundId = NoTx \/ refunded) -> IF left THEN "Refundable" ELSE "Complete"
        [] DepositSeen /\ claimId = NoTx /\ refunded -> IF left THEN "Refundable" ELSE "Failed"
        [] DepositSeen /\ claimId = NoTx /\ refundId = NoTx ->
             IF left \/ deposit.kind = "unexpected" THEN "Refundable"
             ELSE IF s.zero /\ s.accepted = 0 THEN "WaitingFeeAcceptance" ELSE "Pending"

\* Mutant: recovery without the grace period
should_skip_recovery_NoGrace(s, recent, claimId, refundId) == FALSE

\* A recent update is kept from losing an id
should_skip_recovery(s, recent, claimId, refundId) ==
  recent /\ ((s.claim # NoTx /\ claimId = NoTx) \/ (s.refund # NoTx /\ refundId = NoTx))

\* Mutant: the ids of the claim and of the refund are swapped
Recovered_Swapped(s, v) ==
  {[s EXCEPT !.lockup = DepositSeen, !.server = FoundServer(v), !.claim = refundId, !.refund = FoundClaim(v)] :
     refundId \in FoundRefunds(FoundClaim(v))}

\* ChainReceiveSwapHandler::recover_swap on the copy s: the swaps it may make of it
Recovered(s, v) ==
  LET claimId == FoundClaim(v)
      With(refundId) ==
        IF should_skip_recovery(s, v.recent, claimId, refundId) THEN s
        ELSE [s EXCEPT !.state = derive_partial_state(s, claimId, refundId, v.expired),
                       !.lockup = DepositSeen, !.server = FoundServer(v), !.claim = claimId, !.refund = refundId]
  IN  {With(refundId) : refundId \in FoundRefunds(claimId)}

RecoverSwap(t) ==
  /\ pc[t] = "recover"
  /\ \E r \in Recovered(copy[t], view[t]) : copy' = [copy EXCEPT ![t] = r]
  /\ view' = [view EXCEPT ![t] = NoView]
  /\ Goto(t, "save")
  /\ UNCHANGED <<rowVars, claiming, chainVars, restarts>>

\* After recovery the block task goes on to its handlers
AfterRecovery(t) ==
  /\ Goto(t, IF t = Blocks THEN "liquid" ELSE "idle")
  /\ copy' = [copy EXCEPT ![t] = NoRow]
  /\ view' = [view EXCEPT ![t] = NoView]

\* The wallet scan or the histories could not be had: nothing is recovered
RecoveryFails(t) ==
  /\ pc[t] = "recover"
  /\ AfterRecovery(t)
  /\ fresh' = fresh \ {t}
  /\ UNCHANGED <<row, grace, claiming, chainVars, restarts>>

\* WHERE version = :version
CopyIsFresh(t) == t \in fresh

\* update_swap: written when it differs, and only if the row kept the version of the copy
SaveRecovered(t) ==
  /\ pc[t] = "save"
  /\ IF copy[t] # row /\ CopyIsFresh(t)
       THEN UpdateRow(copy[t])
       ELSE fresh' = fresh \ {t} /\ UNCHANGED <<row, grace>>
  /\ AfterRecovery(t)
  /\ UNCHANGED <<claiming, chainVars, restarts>>

-----------------------------------------------------------------------------
(* The process and the clock. *)

\* The process dies and is started again; the row is all that is left
Restart ==
  /\ restarts < MaxRestarts /\ row.state # "None"
  /\ restarts' = restarts + 1
  /\ fresh' = {} /\ claiming' = FALSE
  /\ pc' = [t \in Tasks |-> "idle"]
  /\ copy' = [t \in Tasks |-> NoRow]
  /\ view' = [t \in Tasks |-> NoView]
  /\ UNCHANGED <<row, grace, chainVars>>

\* 120 s without an UPDATE of the row. A tx whose id was stored is broadcast and visible by then:
\* that is what the grace period is chosen for.
GracePeriodEnds ==
  /\ grace
  /\ \A t \in Tasks : pc[t] # "broadcast"
  /\ row.claim # NoTx => spend.at # "sent"
  /\ \A f \in RefundTxs : refunds[f].at # "sent"
  /\ grace' = FALSE
  /\ UNCHANGED <<row, fresh, taskVars, chainVars, restarts>>

-----------------------------------------------------------------------------
(* The payer, Boltz and the chains. *)

NextTip(tip) == IF tip = "below" THEN "at" ELSE "above"

LiquidBlock ==
  /\ "liquid" \in Timeouts /\ liquid # "above" /\ row.state # "None"
  /\ liquid' = NextTip(liquid)
  /\ UNCHANGED <<rowVars, taskVars, bitcoin, bitcoinTxs, liquidTxs, boltzVars, restarts>>

BitcoinBlock ==
  /\ "bitcoin" \in Timeouts /\ bitcoin # "above" /\ row.state # "None"
  /\ bitcoin' = NextTip(bitcoin)
  /\ UNCHANGED <<rowVars, taskVars, liquid, bitcoinTxs, liquidTxs, boltzVars, restarts>>

\* The payer may pay at any time, another amount, and once more
Pay ==
  /\ row.state # "None" /\ deposit.at = "none"
  /\ \E kind \in Deposits : deposit' = [kind |-> kind, at |-> "seen"]
  /\ UNCHANGED <<rowVars, taskVars, tipVars, more, refunds, sweep, liquidTxs, boltzVars, restarts>>

PayMined ==
  /\ deposit.at = "seen"
  /\ deposit' = [deposit EXCEPT !.at = "mined"]
  /\ UNCHANGED <<rowVars, taskVars, tipVars, more, refunds, sweep, liquidTxs, boltzVars, restarts>>

PayMore ==
  /\ More /\ ~more /\ deposit.at = "mined"
  /\ more' = TRUE
  /\ UNCHANGED <<rowVars, taskVars, tipVars, deposit, refunds, sweep, liquidTxs, boltzVars, restarts>>

RefundVisible(f) ==
  /\ refunds[f].at = "sent"
  /\ refunds' = [refunds EXCEPT ![f].at = "seen"]
  /\ UNCHANGED <<rowVars, taskVars, tipVars, deposit, more, sweep, liquidTxs, boltzVars, restarts>>

RefundMined(f) ==
  /\ refunds[f].at = "seen" /\ ("deposit" \in refunds[f].of => deposit.at = "mined")
  /\ refunds' = [refunds EXCEPT ![f].at = "mined"]
  /\ UNCHANGED <<rowVars, taskVars, tipVars, deposit, more, sweep, liquidTxs, boltzVars, restarts>>

\* With the preimage Boltz takes the BTC, if no refund spends it
BoltzClaims ==
  /\ revealed /\ sweep = "none" /\ DepositSeen
  /\ \A f \in RefundTxs : refunds[f].at \in {"none", "replaced"} \/ "deposit" \notin refunds[f].of
  /\ sweep' = "seen"
  /\ UNCHANGED <<rowVars, taskVars, tipVars, deposit, more, refunds, liquidTxs, boltzVars, restarts>>

SweepMined ==
  /\ sweep = "seen" /\ deposit.at = "mined"
  /\ sweep' = "mined"
  /\ UNCHANGED <<rowVars, taskVars, tipVars, deposit, more, refunds, liquidTxs, boltzVars, restarts>>

Due == IF row.zero THEN agreed ELSE High

\* Boltz locks up what is due, or less, for the agreed payment or for a quote that was accepted
BoltzLocks ==
  /\ server.at = "none" /\ DepositSeen /\ ~IsExpired
  /\ boltz = "accepted" \/ (boltz = "open" /\ ~row.zero /\ deposit.kind = "agreed")
  /\ \E k \in Offers :
       server' = [value |-> IF k = "short" THEN Due - 1 ELSE Due, rbf |-> k = "rbf", at |-> "seen"]
  /\ UNCHANGED <<rowVars, taskVars, tipVars, bitcoinTxs, spend, boltzVars, restarts>>

ServerLockupMined ==
  /\ server.at = "seen"   \* what is confirmed cannot be replaced
  /\ server' = [server EXCEPT !.at = "mined", !.rbf = FALSE]
  /\ UNCHANGED <<rowVars, taskVars, tipVars, bitcoinTxs, spend, boltzVars, restarts>>

SpendVisible ==
  /\ spend.at = "sent"
  /\ spend' = [spend EXCEPT !.at = "seen"]
  /\ UNCHANGED <<rowVars, taskVars, tipVars, bitcoinTxs, server, boltzVars, restarts>>

SpendMined ==
  /\ spend.at = "seen" /\ server.at = "mined"
  /\ spend' = [spend EXCEPT !.at = "mined"]
  /\ UNCHANGED <<rowVars, taskVars, tipVars, bitcoinTxs, server, boltzVars, restarts>>

BoltzRefunds ==
  /\ liquid # "below" /\ server.at = "mined" /\ spend.by = NoTx
  /\ spend' = [by |-> ServerRefund, at |-> "seen"]
  /\ boltz' = "gone"
  /\ UNCHANGED <<rowVars, taskVars, tipVars, bitcoinTxs, server, revealed, quoteVars, restarts>>

\* The payment is not the agreed one, or there was no agreed one: Boltz has a quote for it
BoltzFailsLockup ==
  /\ boltz = "open" /\ server.at = "none" /\ DepositSeen
  /\ row.zero \/ deposit.kind = "unexpected"
  /\ boltz' = "lockupFailed"
  /\ quote' \in Quotes
  /\ UNCHANGED <<rowVars, taskVars, tipVars, bitcoinTxs, liquidTxs, revealed, agreed, restarts>>

\* Fees changed
BoltzRequotes ==
  /\ boltz = "lockupFailed" /\ quote' \in Quotes \ {quote}
  /\ UNCHANGED <<rowVars, taskVars, tipVars, bitcoinTxs, liquidTxs, revealed, boltz, agreed, restarts>>

\* The swap expired, or failed otherwise
BoltzGivesUp ==
  /\ row.state # "None" /\ boltz # "gone" /\ server.at = "none"
  /\ boltz' = "gone"
  /\ UNCHANGED <<rowVars, taskVars, tipVars, bitcoinTxs, liquidTxs, revealed, quoteVars, restarts>>

-----------------------------------------------------------------------------

Init ==
  /\ row = NoRow /\ fresh = {} /\ grace = FALSE
  /\ claiming = FALSE
  /\ pc = [t \in Tasks |-> "idle"]
  /\ copy = [t \in Tasks |-> NoRow]
  /\ view = [t \in Tasks |-> NoView]
  /\ restarts = 0
  /\ liquid = "below" /\ bitcoin = "below"
  /\ deposit = [kind |-> "none", at |-> "none"] /\ more = FALSE
  /\ refunds = [f \in RefundTxs |-> [of |-> {}, at |-> "none"]] /\ sweep = "none"
  /\ server = [value |-> 0, rbf |-> FALSE, at |-> "none"]
  /\ spend = [by |-> NoTx, at |-> "none"]
  /\ revealed = FALSE /\ boltz = "open"
  /\ quote = 0 /\ agreed = 0

StatusStep ==
  \/ UserLockupAnnounced \/ StorePayerAmount \/ (\E c \in BOOLEAN : ServerLockupAnnounced(c))
  \/ VerifyUserLockup \/ VerifyMempoolLockup \/ VerifyConfirmedLockup
  \/ LockupFailedAmountless \/ ValidateAmountlessSwap \/ ValidateFails \/ AutoAccepted
  \/ SwapFailed \/ MarkFailed \/ MarkFails

CallStep(t) ==
  \/ AcceptProposedFees(t) \/ ProposalFails(t) \/ StoreProposedFees(t) \/ ProposedFeesAccepted(t)
  \/ Refund(t) \/ BroadcastRefund(t) \/ RefundSent(t) \/ RefundFails(t)
  \/ RescanOnchainSwaps(t)

ClaimStep(t) ==
  \/ VerifyFails(t) \/ BeginClaim(t)
  \/ \E k \in ClaimTxs : SetClaimTxId(t, k)
  \/ BuildFails(t) \/ BroadcastClaim(t) \/ UnsetClaimTxId(t)

BlockStep == ListMonitored \/ NothingMonitored \/ ClaimIncoming \/ NoNewBlock \/ ClaimConfirmedServerLockup

RecoveryStep(t) == RecoverSwap(t) \/ RecoveryFails(t) \/ SaveRecovered(t)

Environment ==
  \/ Restart \/ GracePeriodEnds \/ LiquidBlock \/ BitcoinBlock
  \/ Pay \/ PayMined \/ PayMore
  \/ (\E f \in RefundTxs : RefundVisible(f) \/ RefundMined(f))
  \/ BoltzClaims \/ SweepMined \/ BoltzLocks \/ ServerLockupMined \/ SpendVisible \/ SpendMined
  \/ BoltzRefunds \/ BoltzFailsLockup \/ BoltzRequotes \/ BoltzGivesUp

Next ==
  \/ CreateReceiveChainSwap
  \/ StatusStep
  \/ \E t \in Calls : CallStep(t)
  \/ \E t \in Calls \cup {Status} : AcceptFails(t)
  \/ \E t \in {Blocks, Status} : ClaimStep(t)
  \/ BlockStep
  \/ \E t \in Calls \cup {Blocks} : RecoveryStep(t)
  \/ Environment

Spec == Init /\ [][Next]_vars

(***************************************************************************)
(* Fairness. The block task runs in a loop: new blocks come on both        *)
(* chains, its steps are taken, and a network call that is made again and  *)
(* again is at some time answered. A handler that began ends. A tx that    *)
(* was sent to Liquid is mined. The 120 seconds of the grace period pass,  *)
(* and Boltz does not announce the same lockup for ever. Nothing else is   *)
(* assumed of Boltz, the payer, Bitcoin's miners, the application and      *)
(* crashes.                                                                *)
(***************************************************************************)
StatusGoesOn ==
  \/ StorePayerAmount \/ VerifyUserLockup \/ VerifyMempoolLockup \/ VerifyConfirmedLockup \/ ValidateAmountlessSwap \/ ValidateFails
  \/ AutoAccepted \/ MarkFailed \/ MarkFails

Fairness ==
  /\ SF_vars(ListMonitored) /\ SF_vars(RecoverSwap(Blocks)) /\ WF_vars(SaveRecovered(Blocks))
  /\ WF_vars(NoNewBlock) /\ SF_vars(ClaimIncoming) /\ SF_vars(ClaimConfirmedServerLockup)
  /\ WF_vars(StatusGoesOn) /\ <>[][~UserLockupAnnounced]_vars
  /\ \A t \in {Blocks, Status} : WF_vars(ClaimStep(t))
  /\ SF_vars(\E t \in {Blocks, Status}, k \in ClaimTxs : SetClaimTxId(t, k))
  /\ SF_vars(\E t \in {Blocks, Status} : BroadcastClaim(t))
  /\ WF_vars(ServerLockupMined) /\ WF_vars(SpendVisible) /\ WF_vars(SpendMined) /\ WF_vars(GracePeriodEnds)

FairSpec == Spec /\ Fairness

-----------------------------------------------------------------------------
(* Properties. *)

PCs == {"idle", "amount", "userMempool", "userConfirmed", "serverMempool", "serverConfirmed", "quote", "accept",
        "failed", "refund", "refunded", "verify", "claim", "build", "broadcast", "recover", "save",
        "liquid"}

Views == [expired: BOOLEAN, recent: BOOLEAN, claim: BOOLEAN]

Tips == {"below", "at", "above"}

\* Every variable stays in its domain: the columns hold what the schema and the handlers allow.
TypeOK ==
  /\ row \in Rows /\ fresh \subseteq Tasks
  /\ grace \in BOOLEAN /\ claiming \in BOOLEAN
  /\ pc \in [Tasks -> PCs] /\ copy \in [Tasks -> Rows] /\ view \in [Tasks -> Views]
  /\ restarts \in 0..MaxRestarts /\ liquid \in Tips /\ bitcoin \in Tips
  /\ deposit \in [kind: {"none", "agreed", "unexpected"}, at: {"none", "seen", "mined"}] /\ more \in BOOLEAN
  /\ refunds \in [RefundTxs -> [of: SUBSET {"deposit", "more"}, at: {"none", "sent", "seen", "mined", "replaced"}]]
  /\ sweep \in {"none", "seen", "mined"}
  /\ server \in [value: 0..High, rbf: BOOLEAN, at: {"none", "seen", "mined"}]
  /\ spend \in [by: ClaimTxs \cup {ServerRefund, NoTx}, at: {"none", "sent", "seen", "mined"}]
  /\ revealed \in BOOLEAN /\ boltz \in {"open", "lockupFailed", "accepted", "gone"}
  /\ quote \in {0, Low, High} /\ agreed \in {0, Low, High}

\* The preimage is given away only for a server lockup that is confirmed or, unconfirmed, cannot be
\* replaced and pays what was agreed at creation or accepted later (verify_incoming_server_lockup_tx).
PreimageOnlyForLockup ==
  revealed => \/ server.at = "mined"
              \/ server.at = "seen" /\ ~server.rbf /\ server.value >= IF row.zero THEN row.accepted ELSE High

\* The id of a claim tx that reached the network stays in the row: no unset, stale copy or early
\* recovery erases it (set_chain_swap_claim, should_skip_recovery, the version check).
ClaimNotForgotten == spend.by \in ClaimTxs => row.claim = spend.by

\* What Boltz was told to pay is what the row remembers as accepted: the amount is erased only when
\* accepting it failed (update_accepted_receiver_amount, handle_amountless_update).
AgreedIsStored == agreed # 0 => row.accepted = agreed

\* BTC that is still there after the timeout is shown to the user as refundable: a late payment, a
\* second one, one that Boltz did not take; whatever state the swap was in, without any status
\* update (get_monitored_swaps_list, is_expired_refundable).
ExpiredFundsAreRefundable ==
  (bitcoin # "below" /\ Unspent # {}) ~> (row.state \in {"Refundable", "RefundPending"} \/ Unspent = {})

\* The payment keeps what SwapPromise says: the preimage is exchanged for a server lockup that is
\* due, a payment is Complete only when its claim is confirmed, and stays so: no late status, no
\* task with an older copy and no rescan, which recovers final swaps too, takes it back
\* (validate_state_transition, the version check). BTC that is there after a timeout, or came to
\* the address again, makes it Refundable. So does a handler of a failure that began before the
\* fees were accepted and ends after the claim.
Promise == INSTANCE SwapPromise WITH
  Direct  <- FALSE,
  shown   <- CASE row.state = "Complete" -> "complete" [] row.state = "Failed" -> "failed" [] OTHER -> "open",
  offered <- server.at = "mined"
             \/ (server.at = "seen" /\ ~server.rbf /\ server.value >= IF row.zero THEN row.accepted ELSE High),
  secret  <- revealed,
  earned  <- spend.by \in ClaimTxs /\ spend.at = "mined",
  left    <- IsExpired \/ more \/ pc[Status] = "failed"
KeepsPromise == Promise!Spec

\* A confirmed server lockup is claimed before a timeout, even if no status update announces it and
\* claims of it fail, unless Boltz took the BTC for a preimage it was given without a claim that
\* was broadcast (recovery, claim_incoming, unset_chain_swap_claim_tx_id).
ServerLockupIsClaimed ==
  (row.state = "Pending" /\ server.at = "mined") ~> (spend.by # NoTx \/ IsExpired \/ sweep # "none")

\* The refund in the row is a refund of the user.
RefundIdIsReal == row.refund \in RefundTxs \cup {NoTx}
=============================================================================
