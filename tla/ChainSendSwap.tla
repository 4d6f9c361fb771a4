--------------------------- MODULE ChainSendSwap ---------------------------
(***************************************************************************)
(* The life of one outgoing chain swap: the user locks L-BTC on Liquid,    *)
(* Boltz locks BTC on Bitcoin, the SDK claims the BTC with the preimage,   *)
(* by which Boltz can claim the L-BTC. When Boltz fails, the user's lockup *)
(* is refunded: with Boltz's signature, or after its timeout without.      *)
(*                                                                         *)
(* Three kinds of tasks work on the row of the chain_swaps table:          *)
(*   - the track-swap-updates task: Boltz status updates       (Status)    *)
(*   - the track-new-blocks task: recovery, refunds, claims    (Blocks)    *)
(*   - calls of rescan_onchain_swaps() by the application      (Rescans)   *)
(* and the wait of pay_onchain may time the swap out. The process may      *)
(* crash and be started again between any two steps. Boltz and the two     *)
(* chains are the environment.                                             *)
(***************************************************************************)
EXTENDS Naturals, FiniteSets

CONSTANTS Rescans,       \* concurrent calls of rescan_onchain_swaps() by the application
          Blocks,        \* the track-new-blocks task
          Status,        \* the track-swap-updates task
          UserLockups,   \* ids of the L-BTC lockup txs that are built
          ServerLockup,  \* id of the BTC lockup tx Boltz broadcasts
          Replacement,   \* id of the tx that may replace it while it signals RBF
          ClaimTxs,      \* ids of the BTC claim txs that are built
          ServerRefund,  \* the tx by which Boltz takes its lockup back
          NoTx,          \* "no transaction id" (a NULL column)
          Offers,        \* what Boltz may lock up: {} (nothing), or some of "good" (what was agreed), "short"
                         \* (too little), "rbf" (what was agreed, in a tx that can still be replaced)
          ZeroConf,      \* bound: the values of accept_zero_conf
          Timeouts,      \* bound: the chains, of "liquid" and "bitcoin", whose tip may reach the timeout
          LostAnswers,   \* may a broadcast fail for the caller although the tx reached the network?
          MaxRestarts    \* bound: how often the process crashes and starts again

ASSUME TasksAssumption ==
  Blocks \notin Rescans /\ Status \notin Rescans /\ Blocks # Status

ASSUME TxsAssumption ==
  /\ NoTx \notin UserLockups /\ ClaimTxs \cap {ServerRefund, NoTx} = {}
  /\ ServerRefund # NoTx
  /\ ServerLockup \notin {Replacement, NoTx} /\ Replacement # NoTx

ASSUME BoundsAssumption ==
  Offers \subseteq {"good", "short", "rbf"} /\ ZeroConf \subseteq BOOLEAN /\ Timeouts \subseteq {"liquid", "bitcoin"}
  /\ LostAnswers \in BOOLEAN /\ MaxRestarts \in Nat

Tasks == Rescans \cup {Blocks, Status}

VARIABLES
  row,       \* the persisted swap: the columns the handlers read and write
  fresh,     \* tasks whose copy still carries the row's current version
  grace,     \* last_updated_at is younger than NETWORK_PROPAGATION_GRACE_PERIOD
  claiming,  \* the swap's id is in claiming_swaps
  pc,        \* where each task is
  copy,      \* what each task still uses of the ChainSwap it fetched, and the ids of its txs
  view,      \* what a task read earlier of the tips, the wallet and the clock
  restarts,  \* crashes so far
  liquid,    \* the Liquid tip against timeout_block_height
  bitcoin,   \* the Bitcoin tip against claim_timeout_block_height
  lockups,   \* where each user lockup is
  taken,     \* the user lockup Boltz claimed
  refund,    \* the user's refund: the lockups it spends, and where it is
  server,    \* Boltz's lockup: what it is like, and where it is
  spend,     \* the tx that spends Boltz's lockup, and where it is
  revealed,  \* Boltz was given the preimage, for its signature of a claim tx
  boltz      \* Boltz still goes on with the swap, gave it up, or gave it up and said so

rowVars    == <<row, fresh, grace>>
taskVars   == <<claiming, pc, copy, view>>
tipVars    == <<liquid, bitcoin>>
liquidTxs  == <<lockups, taken, refund>>
bitcoinTxs == <<server, spend>>
boltzVars  == <<revealed, boltz>>
chainVars  == <<tipVars, liquidTxs, bitcoinTxs, boltzVars>>
vars == <<rowVars, taskVars, chainVars, restarts>>

-----------------------------------------------------------------------------
(* The persisted row. *)

States == {"None", "Created", "Pending", "Complete", "Failed", "TimedOut", "RefundPending"}

Rows == [state: States, lockup: UserLockups \cup {NoTx},
         server: {ServerLockup, Replacement, NoTx}, claim: ClaimTxs \cup {ServerRefund, NoTx},
         refund: BOOLEAN, raddr: BOOLEAN, zeroConf: BOOLEAN]

NoRow == [state |-> "None", lockup |-> NoTx, server |-> NoTx, claim |-> NoTx,
          refund |-> FALSE, raddr |-> FALSE, zeroConf |-> FALSE]

\* validate_state_transition: the pairs it accepts among the states of an outgoing swap
Allowed ==
  ({"Created", "Pending"} \X {"Pending"})
  \cup ({"Created", "Pending", "RefundPending"} \X {"Complete"})
  \cup {<<"Created", "TimedOut">>}
  \cup ({"Pending", "RefundPending"} \X {"RefundPending"})
  \cup ((States \ {"Complete", "None"}) \X {"Failed"})

list_pending == {"Pending", "RefundPending"}

\* Any UPDATE that matches the row: the triggers move version and last_updated_at
UpdateRow(r) == row' = r /\ fresh' = {} /\ grace' = TRUE

Accepts(to) == <<row.state, to>> \in Allowed

Coalesce(id, new) == IF id = NoTx THEN new ELSE id

\* update_swap_info: the first lockup and server lockup ids stay. It has no await.
update_swap_info(to, lockupId, serverId, refunded) ==
  IF Accepts(to)
    THEN UpdateRow([row EXCEPT !.state = to, !.lockup = Coalesce(@, lockupId),
                               !.server = Coalesce(@, serverId), !.refund = @ \/ refunded])
    ELSE UNCHANGED rowVars

IsExpired == liquid # "below" \/ bitcoin # "below"

\* pay_onchain created the swap; small amounts accept zero-conf
PayOnchain ==
  /\ row.state = "None" /\ ~IsExpired
  /\ \E z \in ZeroConf : UpdateRow([NoRow EXCEPT !.state = "Created", !.zeroConf = z])
  /\ UNCHANGED <<taskVars, chainVars, restarts>>

\* wait_for_payment_with_timeout saw no event in time. A crash ends the wait.
PaymentTimeout ==
  /\ Accepts("TimedOut") /\ restarts = 0
  /\ update_swap_info("TimedOut", NoTx, NoTx, FALSE)
  /\ UNCHANGED <<taskVars, chainVars, restarts>>

-----------------------------------------------------------------------------
(* Control of a task. *)

NoView == [expired |-> FALSE, recent |-> FALSE, lockups |-> {}, refund |-> FALSE]

Goto(t, label) == pc' = [pc EXCEPT ![t] = label]

\* A task that is done with the swap forgets its copy
Leave(t) == Goto(t, "idle") /\ copy' = [copy EXCEPT ![t] = NoRow]

Keep(t, r, label) == Goto(t, label) /\ copy' = [copy EXCEPT ![t] = r]

\* The lockup txs that are in the history of the lockup script, and those nothing spends
SeenLockups == {u \in UserLockups : lockups[u] = "seen"}
Utxos       == SeenLockups \ ({taken} \cup refund.of)

-----------------------------------------------------------------------------
(* on_new_outgoing_status. Updates may be lost, repeated and late: a status that was *)
(* true may be handled at any later time, but none before a failure comes after it.  *)

StatusArrives == pc[Status] = "idle" /\ row.state # "None"

\* swap.created, which comes long before a timeout: unless it timed out or is locked up already,
\* the swap is funded
SwapCreated ==
  /\ StatusArrives /\ boltz # "told" /\ ~IsExpired
  /\ row.state # "TimedOut" /\ row.lockup = NoTx
  /\ Goto(Status, "lockup")
  /\ UNCHANGED <<rowVars, claiming, copy, view, chainVars, restarts>>

\* lockup_funds: the tx is built and broadcast; its id is stored later
BroadcastLockup ==
  /\ pc[Status] = "lockup"
  /\ \E u \in UserLockups :
       /\ lockups[u] = "none"
       /\ lockups' = [lockups EXCEPT ![u] = "sent"]
       /\ \/ Keep(Status, [NoRow EXCEPT !.lockup = u], "lockedUp")
          \/ LostAnswers /\ Leave(Status)
  /\ UNCHANGED <<rowVars, claiming, view, tipVars, taken, refund, bitcoinTxs, boltzVars, restarts>>

LockupFails ==
  /\ pc[Status] = "lockup"
  /\ Leave(Status)
  /\ UNCHANGED <<rowVars, claiming, view, chainVars, restarts>>

\* Mutant: the id of the lockup is not stored
LockupSent_NoId ==
  /\ pc[Status] = "lockedUp"
  /\ update_swap_info("Pending", NoTx, NoTx, FALSE)
  /\ Leave(Status)
  /\ UNCHANGED <<claiming, view, chainVars, restarts>>

\* A swap that was timed out meanwhile stays so, without the id of its lockup
LockupSent ==
  /\ pc[Status] = "lockedUp"
  /\ update_swap_info("Pending", copy[Status].lockup, NoTx, FALSE)
  /\ Leave(Status)
  /\ UNCHANGED <<claiming, view, chainVars, restarts>>

\* transaction.mempool and transaction.confirmed: Boltz saw a user lockup. It may say whether it
\* rejects zero-conf, which is stored even if the transition to Pending is refused, and which the tx is.
UserLockupAnnounced ==
  /\ StatusArrives /\ boltz # "told" /\ SeenLockups # {}
  /\ \E u \in SeenLockups \cup {NoTx}, z \in ZeroConf \cup {row.zeroConf} :
       LET told == [row EXCEPT !.zeroConf = z]
       IN  UpdateRow(IF u # NoTx /\ Accepts("Pending")
                       THEN [told EXCEPT !.state = "Pending", !.lockup = Coalesce(@, u)] ELSE told)
  /\ UNCHANGED <<taskVars, chainVars, restarts>>

\* transaction.server.mempool and transaction.server.confirmed
ServerLockupAnnounced(confirmed) ==
  /\ StatusArrives /\ boltz # "told" /\ row.claim = NoTx
  /\ server.at \in IF confirmed THEN {"mined"} ELSE {"mempool", "mined"}
  /\ Keep(Status, [NoRow EXCEPT !.lockup = row.lockup, !.zeroConf = row.zeroConf, !.server = server.id],
          IF confirmed THEN "userConfirmed" ELSE "userMempool")
  /\ UNCHANGED <<rowVars, claiming, view, chainVars, restarts>>

\* verify_user_lockup_tx: a swap that has no lockup id gets the first tx of the history
VerifyUserLockup ==
  /\ pc[Status] \in {"userMempool", "userConfirmed"}
  /\ LET next == IF pc[Status] = "userMempool" THEN "serverMempool" ELSE "serverConfirmed"
     IN  \/ /\ copy[Status].lockup \in SeenLockups
            /\ Goto(Status, next) /\ UNCHANGED <<rowVars, copy>>
         \/ /\ copy[Status].lockup = NoTx
            /\ \E u \in SeenLockups : update_swap_info("Pending", u, NoTx, FALSE)
            /\ IF Accepts("Pending") THEN Goto(Status, next) /\ UNCHANGED copy ELSE Leave(Status)
  /\ UNCHANGED <<claiming, view, chainVars, restarts>>

\* Mutant: the RBF signal is not looked at
AcceptsUnconfirmed_Rbf == server.kind # "short"

\* verify_server_lockup_tx without verify_confirmation
AcceptsUnconfirmed == server.kind = "good"

\* The announced tx was verified. An unconfirmed one is claimed if the copy accepts zero-conf.
VerifyServerLockup ==
  /\ \/ pc[Status] = "serverMempool" /\ AcceptsUnconfirmed
     \/ pc[Status] = "serverConfirmed" /\ server.at = "mined" /\ server.kind # "short"
  /\ server.id = copy[Status].server
  /\ update_swap_info("Pending", NoTx, server.id, FALSE)
  /\ IF Accepts("Pending") /\ (pc[Status] = "serverConfirmed" \/ copy[Status].zeroConf)
       THEN Keep(Status, NoRow, "claim")
       ELSE Leave(Status)
  /\ UNCHANGED <<claiming, view, chainVars, restarts>>

\* Something could not be verified: not found, too little, RBF, no answer
VerifyFails(t) ==
  /\ pc[t] \in {"userMempool", "userConfirmed", "serverMempool", "serverConfirmed", "verify"}
  /\ Leave(t)
  /\ UNCHANGED <<rowVars, claiming, view, chainVars, restarts>>

\* transaction.failed, transaction.lockupFailed, transaction.refunded, swap.expired
SwapFailed ==
  /\ StatusArrives /\ boltz # "open" /\ ~row.refund
  /\ boltz' = "told"
  /\ IF row.lockup = NoTx
       THEN update_swap_info("Failed", NoTx, NoTx, FALSE) /\ UNCHANGED <<pc, copy>>
       ELSE Keep(Status, [NoRow EXCEPT !.raddr = row.raddr], "refund") /\ UNCHANGED rowVars
  /\ UNCHANGED <<claiming, view, tipVars, liquidTxs, bitcoinTxs, revealed, restarts>>

-----------------------------------------------------------------------------
(* refund_outgoing, which the block task calls after recovery, and refund_outgoing_swap. *)

\* A pending swap is refunded when it expired, one in RefundPending always
IsRefundDue(s, expired) == s.state = "RefundPending" \/ (s.state = "Pending" /\ expired)

\* Only a new Liquid block makes the task call the handler
CheckRefunds ==
  /\ pc[Blocks] = "liquid"
  /\ LET expired == liquid # "below"
     IN  IF row.state \in list_pending /\ ~row.refund /\ IsRefundDue(row, expired)
           THEN Keep(Blocks, [NoRow EXCEPT !.state = row.state, !.raddr = row.raddr], "refund") /\ view' = [view EXCEPT ![Blocks].expired = expired]
           ELSE Goto(Blocks, "bitcoin") /\ UNCHANGED <<copy, view>>
  /\ UNCHANGED <<rowVars, claiming, chainVars, restarts>>

\* The status task is done after a refund, the block task goes on to its Bitcoin handlers
AfterRefund(t) ==
  /\ Goto(t, IF t = Blocks THEN "bitcoin" ELSE "idle")
  /\ copy' = [copy EXCEPT ![t] = NoRow]
  /\ view' = [view EXCEPT ![t] = NoView]

SetRefundAddress(t) ==
  /\ pc[t] = "refund" /\ ~copy[t].raddr
  /\ copy' = [copy EXCEPT ![t].raddr = TRUE]
  /\ UpdateRow([row EXCEPT !.raddr = TRUE])
  /\ UNCHANGED <<pc, claiming, view, chainVars, restarts>>

\* Boltz signs a refund when it failed the swap and nothing of its own is at stake
BoltzSigns == boltz # "open" /\ (server.at = "none" \/ spend.by = ServerRefund)

\* The status handler refunds cooperatively; so does the block task for a swap in RefundPending,
\* and once the timeout has passed it refunds without Boltz
MayRefund(t) ==
  \/ BoltzSigns /\ (t = Status \/ copy[t].state = "RefundPending")
  \/ t = Blocks /\ view[t].expired

BroadcastRefund(t) ==
  /\ pc[t] = "refund" /\ copy[t].raddr
  /\ MayRefund(t) /\ Utxos # {} /\ refund.at = "none"
  /\ refund' = [of |-> Utxos, at |-> "sent"]
  /\ Goto(t, "refunded")
  /\ UNCHANGED <<rowVars, claiming, copy, view, tipVars, lockups, taken, bitcoinTxs, boltzVars, restarts>>

RefundSent(t) ==
  /\ pc[t] = "refunded"
  /\ update_swap_info("RefundPending", NoTx, NoTx, TRUE)
  /\ AfterRefund(t)
  /\ UNCHANGED <<claiming, chainVars, restarts>>

\* There was no refund, or the answer of its broadcast was lost: the status handler leaves it to
\* the block task
RefundFails(t) ==
  /\ (pc[t] = "refund" /\ copy[t].raddr) \/ (LostAnswers /\ pc[t] = "refunded")
  /\ IF t = Status THEN update_swap_info("RefundPending", NoTx, NoTx, FALSE) ELSE UNCHANGED rowVars
  /\ AfterRefund(t)
  /\ UNCHANGED <<claiming, chainVars, restarts>>

-----------------------------------------------------------------------------
(* claim_outgoing, which the block task calls after the refunds, and claim. *)

\* Only a new Bitcoin block makes the task call the handler
ClaimOutgoing ==
  /\ pc[Blocks] = "bitcoin"
  /\ IF row.state = "Pending" /\ row.claim = NoTx /\ row.server # NoTx
       THEN Keep(Blocks, [NoRow EXCEPT !.server = row.server], "verify")
       ELSE Leave(Blocks)
  /\ UNCHANGED <<rowVars, claiming, view, chainVars, restarts>>

NoNewBlock ==
  /\ pc[Blocks] \in {"liquid", "bitcoin"}
  /\ Leave(Blocks)
  /\ UNCHANGED <<rowVars, claiming, view, chainVars, restarts>>

\* claim_confirmed_server_lockup: the tx of the row is in the history, confirmed. The amount is
\* not looked at.
ClaimConfirmedServerLockup ==
  /\ pc[Blocks] = "verify"
  /\ copy[Blocks].server = server.id /\ server.at = "mined"
  /\ Keep(Blocks, NoRow, "claim")
  /\ UNCHANGED <<rowVars, claiming, view, chainVars, restarts>>

BeginClaim(t) ==
  /\ pc[t] = "claim"
  /\ IF claiming \/ row.claim # NoTx
       THEN Leave(t) /\ UNCHANGED claiming
       ELSE Goto(t, "build") /\ claiming' = TRUE /\ UNCHANGED copy
  /\ UNCHANGED <<rowVars, view, chainVars, restarts>>

\* Whatever the result of claim_inner, the id leaves claiming_swaps
EndClaim(t) == Leave(t) /\ claiming' = FALSE

\* create_claim_tx returned a tx that Boltz signed, for which it was given the preimage;
\* set_chain_swap_claim writes only over NULL
SetClaimTxId(t, k) ==
  /\ pc[t] = "build" /\ k # spend.by
  /\ revealed' = TRUE
  /\ IF row.claim = NoTx
       THEN /\ UpdateRow([row EXCEPT !.claim = k])
            /\ Keep(t, [NoRow EXCEPT !.claim = k], "broadcast")
            /\ UNCHANGED claiming
       ELSE EndClaim(t) /\ UNCHANGED rowVars
  /\ UNCHANGED <<view, tipVars, liquidTxs, bitcoinTxs, boltz, restarts>>

BuildFails(t) ==
  /\ pc[t] = "build"
  /\ revealed' \in {revealed, TRUE}
  /\ EndClaim(t)
  /\ UNCHANGED <<rowVars, view, tipVars, liquidTxs, bitcoinTxs, boltz, restarts>>

\* The network takes a claim tx of an unspent server lockup
Sent(t) ==
  /\ spend.by = NoTx
  /\ spend' = [by |-> copy[t].claim, at |-> "sent"]

BroadcastClaim(t) ==
  /\ pc[t] = "broadcast"
  /\ Sent(t)
  /\ EndClaim(t)
  /\ UNCHANGED <<rowVars, view, tipVars, liquidTxs, server, boltzVars, restarts>>

\* The broadcast failed, or its answer was lost: unset_chain_swap_claim_tx_id clears this id only
UnsetClaimTxId(t) ==
  /\ pc[t] = "broadcast"
  /\ (LostAnswers /\ Sent(t)) \/ UNCHANGED spend
  /\ IF row.claim = copy[t].claim THEN UpdateRow([row EXCEPT !.claim = NoTx]) ELSE UNCHANGED rowVars
  /\ EndClaim(t)
  /\ UNCHANGED <<view, tipVars, liquidTxs, server, boltzVars, restarts>>

-----------------------------------------------------------------------------
(* Recovery from the chains, and the write of what it found. *)

\* Mutant: an outgoing swap is not monitored once it is pending
Monitored_OnlyCreated == row.state = "Created"

\* get_monitored_swaps_list: the swap is not final and no timeout is passed
Monitored ==
  /\ row.state \notin {"Complete", "Failed"}
  /\ liquid # "above" /\ bitcoin # "above"

\* The copy that recovery works on, the tips, and then the wallet's full scan. A row that changes
\* between its read and the scan makes the copy stale: as nothing is written then, one step does.
Scan(t) ==
  /\ Keep(t, row, "recover") /\ fresh' = fresh \cup {t}
  /\ view' = [view EXCEPT ![t] =
       [expired |-> IsExpired, recent |-> grace, lockups |-> SeenLockups,
        refund |-> refund.at \in {"seen", "mined"}]]

\* get_sync_context of the block task, and recover_from_onchain
ListMonitored ==
  /\ pc[Blocks] = "idle" /\ row.state # "None"
  /\ IF Monitored
       THEN Scan(Blocks)
       ELSE Goto(Blocks, "liquid") /\ UNCHANGED <<copy, fresh, view>>
  /\ UNCHANGED <<row, grace, claiming, chainVars, restarts>>

\* rescan_onchain_swaps lists every chain swap
RescanOnchainSwaps(t) ==
  /\ pc[t] = "idle" /\ row.state # "None"
  /\ Scan(t)
  /\ UNCHANGED <<row, grace, claiming, chainVars, restarts>>

\* recover_onchain_data: whatever spends Boltz's lockup is taken for the claim, whoever made it
FoundClaim == IF spend.at \in {"seen", "mined"} THEN spend.by ELSE NoTx

\* Mutant: an expired swap is Failed, though its lockup is there
derive_partial_state_ExpiredFails(state, lockupId, claimId, refunded, expired) ==
  IF expired THEN "Failed" ELSE IF lockupId # NoTx THEN "Pending" ELSE state

\* Mutant: a claim that is not confirmed is good enough
derive_partial_state_ClaimSeen(state, lockupId, claimId, refunded, expired) ==
  IF claimId # NoTx THEN "Complete" ELSE IF lockupId # NoTx THEN "Pending" ELSE state

\* derive_partial_state, where `state' is what the swap keeps when nothing can be derived
derive_partial_state(state, lockupId, claimId, refunded, expired) ==
  CASE lockupId = NoTx -> IF expired THEN "Failed" ELSE state
    [] lockupId # NoTx /\ claimId = NoTx /\ ~refunded -> IF expired THEN "RefundPending" ELSE "Pending"
    [] lockupId # NoTx /\ claimId = NoTx /\ refunded  -> IF refund.at = "mined" THEN "Failed" ELSE "RefundPending"
    [] lockupId # NoTx /\ claimId # NoTx -> IF spend.at # "mined" THEN "Pending"
                                            ELSE IF refunded /\ refund.at # "mined" THEN "RefundPending"
                                            ELSE "Complete"

\* Mutant: recovery without the grace period
should_skip_recovery_NoGrace(s, recent, lockupId, claimId, refunded) == FALSE

\* A recent update is kept from losing an id
should_skip_recovery(s, recent, lockupId, claimId, refunded) ==
  recent /\ (\/ s.lockup # NoTx /\ lockupId = NoTx
             \/ s.claim # NoTx /\ claimId = NoTx
             \/ s.refund /\ ~refunded)

\* Mutant: the ids of the two lockups are swapped
Recovered_Swapped(s, v, lockupId) ==
  [s EXCEPT !.state = derive_partial_state(@, lockupId, FoundClaim, v.refund, v.expired),
            !.lockup = server.id, !.server = lockupId, !.claim = FoundClaim, !.refund = v.refund]

\* ChainSendSwapHandler::recover_swap on the copy s, with a lockup that the wallet and the history know
Recovered(s, v, lockupId) ==
  IF should_skip_recovery(s, v.recent, lockupId, FoundClaim, v.refund) THEN s
  ELSE [s EXCEPT !.state = derive_partial_state(@, lockupId, FoundClaim, v.refund, v.expired),
                 !.lockup = lockupId, !.server = server.id, !.claim = FoundClaim, !.refund = v.refund]

RecoverSwap(t) ==
  /\ pc[t] = "recover"
  /\ \E u \in IF view[t].lockups = {} THEN {NoTx} ELSE view[t].lockups :
       copy' = [copy EXCEPT ![t] = Recovered(@, view[t], u)]
  /\ view' = [view EXCEPT ![t] = NoView]
  /\ Goto(t, "save")
  /\ UNCHANGED <<rowVars, claiming, chainVars, restarts>>

\* After recovery the block task goes on to its handlers
AfterRecovery(t) ==
  /\ Goto(t, IF t = Blocks THEN "liquid" ELSE "idle")
  /\ copy' = [copy EXCEPT ![t] = NoRow]
  /\ view' = [view EXCEPT ![t] = NoView]

\* The wallet scan or the histories could not be had: nothing is recovered
RecoveryFails(t) ==
  /\ pc[t] = "recover"
  /\ AfterRecovery(t)
  /\ fresh' = fresh \ {t}
  /\ UNCHANGED <<row, grace, claiming, chainVars, restarts>>

\* WHERE version = :version
CopyIsFresh(t) == t \in fresh

\* update_swap: written when it differs, and only if the row kept the version of the copy
SaveRecovered(t) ==
  /\ pc[t] = "save"
  /\ IF copy[t] # row /\ CopyIsFresh(t)
       THEN UpdateRow(copy[t])
       ELSE fresh' = fresh \ {t} /\ UNCHANGED <<row, grace>>
  /\ AfterRecovery(t)
  /\ UNCHANGED <<claiming, chainVars, restarts>>

-----------------------------------------------------------------------------
(* The process and the clock. *)

\* The process dies and is started again; the row is all that is left
Restart ==
  /\ restarts < MaxRestarts /\ row.state # "None"
  /\ restarts' = restarts + 1
  /\ fresh' = {} /\ claiming' = FALSE
  /\ pc' = [t \in Tasks |-> "idle"]
  /\ copy' = [t \in Tasks |-> NoRow]
  /\ view' = [t \in Tasks |-> NoView]
  /\ UNCHANGED <<row, grace, chainVars>>

\* 120 s without an UPDATE of the row. A tx whose id was stored is broadcast and visible by then:
\* that is what the grace period is chosen for.
GracePeriodEnds ==
  /\ grace
  /\ \A t \in Tasks : pc[t] # "broadcast"
  /\ row.lockup # NoTx => lockups[row.lockup] = "seen"
  /\ row.refund => refund.at # "sent"
  /\ row.claim # NoTx => spend.at # "sent"
  /\ grace' = FALSE
  /\ UNCHANGED <<row, fresh, taskVars, chainVars, restarts>>

-----------------------------------------------------------------------------
(* Boltz and the chains. *)

NextTip(tip) == IF tip = "below" THEN "at" ELSE "above"

\* The timeouts are a day of blocks away from swap.created: its lockup is visible by then
LockupIsOut ==
  /\ row.state # "None" /\ pc[Status] \notin {"lockup", "lockedUp"}
  /\ \A u \in UserLockups : lockups[u] # "sent"

LiquidBlock ==
  /\ "liquid" \in Timeouts /\ liquid # "above" /\ LockupIsOut
  /\ liquid' = NextTip(liquid)
  /\ UNCHANGED <<rowVars, taskVars, bitcoin, liquidTxs, bitcoinTxs, boltzVars, restarts>>

BitcoinBlock ==
  /\ "bitcoin" \in Timeouts /\ bitcoin # "above" /\ LockupIsOut
  /\ bitcoin' = NextTip(bitcoin)
  /\ UNCHANGED <<rowVars, taskVars, liquid, liquidTxs, bitcoinTxs, boltzVars, restarts>>

LockupVisible(u) ==
  /\ lockups[u] = "sent"
  /\ lockups' = [lockups EXCEPT ![u] = "seen"]
  /\ UNCHANGED <<rowVars, taskVars, tipVars, taken, refund, bitcoinTxs, boltzVars, restarts>>

RefundVisible ==
  /\ refund.at = "sent"
  /\ refund' = [refund EXCEPT !.at = "seen"]
  /\ UNCHANGED <<rowVars, taskVars, tipVars, lockups, taken, bitcoinTxs, boltzVars, restarts>>

RefundMined ==
  /\ refund.at = "seen"
  /\ refund' = [refund EXCEPT !.at = "mined"]
  /\ UNCHANGED <<rowVars, taskVars, tipVars, lockups, taken, bitcoinTxs, boltzVars, restarts>>

BoltzOffers(id) == \E k \in Offers : server' = [id |-> id, kind |-> k, at |-> "mempool"]

\* Boltz saw a user lockup and locks up, but perhaps too little
BoltzLocks ==
  /\ SeenLockups # {} /\ boltz = "open" /\ ~IsExpired /\ server.at = "none"
  /\ BoltzOffers(ServerLockup)
  /\ UNCHANGED <<rowVars, taskVars, tipVars, liquidTxs, spend, boltzVars, restarts>>

\* At most once
ServerLockupReplaced ==
  /\ server.at = "mempool" /\ server.kind = "rbf" /\ server.id = ServerLockup /\ spend.by = NoTx
  /\ BoltzOffers(Replacement)
  /\ UNCHANGED <<rowVars, taskVars, tipVars, liquidTxs, spend, boltzVars, restarts>>

ServerLockupMined ==
  /\ server.at = "mempool"   \* what is confirmed cannot be replaced
  /\ server' = [server EXCEPT !.at = "mined", !.kind = IF @ = "rbf" THEN "good" ELSE @]
  /\ UNCHANGED <<rowVars, taskVars, tipVars, liquidTxs, spend, boltzVars, restarts>>

SpendVisible ==
  /\ spend.at = "sent"
  /\ spend' = [spend EXCEPT !.at = "seen"]
  /\ UNCHANGED <<rowVars, taskVars, tipVars, liquidTxs, server, boltzVars, restarts>>

SpendMined ==
  /\ server.at = "mined" /\ spend.at = "seen"
  /\ spend.by = ServerRefund => bitcoin = "above"   \* its lock time is the timeout
  /\ spend' = [spend EXCEPT !.at = "mined"]
  /\ UNCHANGED <<rowVars, taskVars, tipVars, liquidTxs, server, boltzVars, restarts>>

\* With the preimage Boltz claims a user lockup
BoltzClaims ==
  /\ revealed /\ taken = NoTx
  /\ taken' \in Utxos
  /\ UNCHANGED <<rowVars, taskVars, tipVars, lockups, refund, bitcoinTxs, boltzVars, restarts>>

BoltzRefunds ==
  /\ bitcoin # "below" /\ server.at # "none" /\ spend.by = NoTx
  /\ spend' = [by |-> ServerRefund, at |-> "seen"]
  /\ boltz' = IF boltz = "open" THEN "gone" ELSE boltz
  /\ UNCHANGED <<rowVars, taskVars, tipVars, liquidTxs, server, revealed, restarts>>

\* The lockup was not acceptable, or the swap expired
BoltzGivesUp ==
  /\ row.state # "None" /\ boltz = "open"
  /\ server.at = "none"
  /\ boltz' = "gone"
  /\ UNCHANGED <<rowVars, taskVars, tipVars, liquidTxs, bitcoinTxs, revealed, restarts>>

-----------------------------------------------------------------------------

Init ==
  /\ row = NoRow /\ fresh = {} /\ grace = FALSE
  /\ claiming = FALSE
  /\ pc = [t \in Tasks |-> "idle"]
  /\ copy = [t \in Tasks |-> NoRow]
  /\ view = [t \in Tasks |-> NoView]
  /\ restarts = 0
  /\ liquid = "below" /\ bitcoin = "below"
  /\ lockups = [u \in UserLockups |-> "none"] /\ taken = NoTx
  /\ refund = [of |-> {}, at |-> "none"]
  /\ server = [id |-> NoTx, kind |-> "none", at |-> "none"]
  /\ spend = [by |-> NoTx, at |-> "none"]
  /\ revealed = FALSE /\ boltz = "open"

StatusStep ==
  \/ SwapCreated \/ BroadcastLockup \/ LockupFails \/ LockupSent
  \/ UserLockupAnnounced \/ (\E c \in BOOLEAN : ServerLockupAnnounced(c))
  \/ VerifyUserLockup \/ VerifyServerLockup \/ SwapFailed

RefundStep(t) == SetRefundAddress(t) \/ BroadcastRefund(t) \/ RefundSent(t) \/ RefundFails(t)

ClaimStep(t) ==
  \/ VerifyFails(t) \/ BeginClaim(t)
  \/ \E k \in ClaimTxs : SetClaimTxId(t, k)
  \/ BuildFails(t) \/ BroadcastClaim(t) \/ UnsetClaimTxId(t)

BlockStep == ListMonitored \/ CheckRefunds \/ ClaimOutgoing \/ NoNewBlock \/ ClaimConfirmedServerLockup

RecoveryStep(t) == RecoverSwap(t) \/ RecoveryFails(t) \/ SaveRecovered(t)

Environment ==
  \/ Restart \/ GracePeriodEnds \/ LiquidBlock \/ BitcoinBlock
  \/ (\E u \in UserLockups : LockupVisible(u)) \/ RefundVisible \/ RefundMined
  \/ BoltzLocks \/ ServerLockupReplaced \/ ServerLockupMined \/ SpendVisible \/ SpendMined
  \/ BoltzClaims \/ BoltzRefunds \/ BoltzGivesUp

Next ==
  \/ PayOnchain \/ PaymentTimeout
  \/ StatusStep
  \/ \E t \in {Blocks, Status} : RefundStep(t) \/ ClaimStep(t)
  \/ BlockStep
  \/ \E t \in Rescans : RescanOnchainSwaps(t)
  \/ \E t \in Rescans \cup {Blocks} : RecoveryStep(t)
  \/ Environment

Spec == Init /\ [][Next]_vars

(***************************************************************************)
(* Fairness. The block task runs in a loop: its steps are taken, new       *)
(* blocks come on both chains, and a network call that is made again and   *)
(* again is at some time answered. A handler that began ends. A lockup     *)
(* that was sent propagates. Boltz does not announce the same lockup for   *)
(* ever. Nothing else is assumed of status updates and of Boltz, and       *)
(* nothing of Bitcoin's miners, of rescans and of when a timeout comes.    *)
(***************************************************************************)
StatusGoesOn == BroadcastLockup \/ LockupFails \/ LockupSent \/ VerifyUserLockup \/ VerifyServerLockup

Fairness ==
  /\ WF_vars(ListMonitored) /\ SF_vars(RecoverSwap(Blocks)) /\ WF_vars(SaveRecovered(Blocks))
  /\ SF_vars(CheckRefunds) /\ SF_vars(ClaimOutgoing) /\ SF_vars(ClaimConfirmedServerLockup)
  /\ WF_vars(StatusGoesOn) /\ <>[][~UserLockupAnnounced]_vars
  /\ \A t \in {Blocks, Status} : WF_vars(RefundStep(t)) /\ WF_vars(ClaimStep(t))
  /\ SF_vars(BroadcastRefund(Blocks))
  /\ SF_vars(\E t \in {Blocks, Status}, k \in ClaimTxs : SetClaimTxId(t, k))
  /\ SF_vars(\E t \in {Blocks, Status} : BroadcastClaim(t))
  /\ \A u \in UserLockups : WF_vars(LockupVisible(u))

FairSpec == Spec /\ Fairness

-----------------------------------------------------------------------------
(* Properties. *)

PCs == {"idle", "lockup", "lockedUp", "userMempool", "userConfirmed", "serverMempool",
        "serverConfirmed", "refund", "refunded", "claim", "build", "broadcast", "recover",
        "save", "liquid", "bitcoin", "verify"}

Views == [expired: BOOLEAN, recent: BOOLEAN, lockups: SUBSET UserLockups, refund: BOOLEAN]

Tips == {"below", "at", "above"}

\* Every variable stays in its domain: the columns hold what the schema and the handlers allow.
TypeOK ==
  /\ row \in Rows /\ fresh \subseteq Tasks
  /\ grace \in BOOLEAN /\ claiming \in BOOLEAN
  /\ pc \in [Tasks -> PCs] /\ copy \in [Tasks -> Rows] /\ view \in [Tasks -> Views]
  /\ restarts \in 0..MaxRestarts /\ liquid \in Tips /\ bitcoin \in Tips
  /\ lockups \in [UserLockups -> {"none", "sent", "seen"}] /\ taken \in UserLockups \cup {NoTx}
  /\ refund \in [of: SUBSET UserLockups, at: {"none", "sent", "seen", "mined"}]
  /\ server \in [id: {ServerLockup, Replacement, NoTx}, kind: {"none", "good", "short", "rbf"},
                 at: {"none", "mempool", "mined"}]
  /\ spend \in [by: ClaimTxs \cup {ServerRefund, NoTx}, at: {"none", "sent", "seen", "mined"}]
  /\ revealed \in BOOLEAN /\ boltz \in {"open", "gone", "told"}

Lockups == {u \in UserLockups : lockups[u] # "none"}

\* The swap is funded once, and again only after a crash, which may hit between the broadcast of
\* the lockup and the storing of its id (on_new_outgoing_status, swap.created).
FundedOncePerStart == Cardinality(Lockups) <= 1 + restarts

\* The preimage is given away only for a server lockup that is confirmed or, unconfirmed, pays
\* enough and cannot be replaced (verify_outgoing_server_lockup_tx, claim_confirmed_server_lockup).
PreimageOnlyForLockup ==
  revealed => server.at = "mined" \/ (server.at = "mempool" /\ server.kind = "good")

\* The id of a claim tx that reached the network stays in the row: no unset, stale copy or early
\* recovery erases it (set_chain_swap_claim, should_skip_recovery, the version check).
ClaimNotForgotten == spend.by \in ClaimTxs => row.claim = spend.by

\* Once the timeout of the Liquid lockup comes the user's funds do not stay locked: Boltz claims the
\* lockup the row names, or the user gets it back, without any status update (refund_outgoing). A
\* second lockup and a swap that is Complete are left out: only one of two lockups is followed.
LockupIsSettled ==
  <>(liquid # "below") =>
    (row.lockup # NoTx ~>
       \/ taken # NoTx \/ refund.at # "none"
       \/ row.state = "Complete" \/ Cardinality(Lockups) > 1)

\* A confirmed server lockup is claimed before a timeout, even if no status update announces it
\* and claims of it fail (recovery, claim_outgoing, unset_chain_swap_claim_tx_id).
ServerLockupIsClaimed ==
  (row.state = "Pending" /\ server.at = "mined") ~> (spend.by # NoTx \/ IsExpired)

\* The payment keeps what SwapPromise says: the preimage is exchanged for a server lockup that is
\* due, a payment is Complete only when its claim is confirmed, and stays so: no late status, no
\* task with an older copy and no rescan, which recovers final swaps too, takes it back
\* (validate_state_transition, the version check). If the lockup was refunded as well, recovery
\* says RefundPending until the refund is confirmed. That recovery takes Boltz's own refund for the
\* claim is left out here, and is the subject of CompleteMeansClaimed.
Promise == INSTANCE SwapPromise WITH
  Direct  <- FALSE,
  shown   <- CASE row.state = "Complete" /\ row.claim # ServerRefund -> "complete"
               [] row.state = "Failed" -> "failed"
               [] OTHER -> "open",
  offered <- server.at = "mined" \/ (server.at = "mempool" /\ server.kind = "good"),
  secret  <- revealed,
  earned  <- spend.by \in ClaimTxs /\ spend.at = "mined",
  left    <- refund.at # "none"
KeepsPromise == Promise!Spec

\* The row never loses its lockup, without which nothing would be refunded: recovery, though it
\* writes what it sees in the wallet, does not run ahead of the network (should_skip_recovery).
LockupIdIsKept == [][row.lockup # NoTx => row'.lockup # NoTx]_vars

\* A swap is Complete only when the user's claim is confirmed
CompleteMeansClaimed == row.state = "Complete" => spend.by \in ClaimTxs /\ spend.at = "mined"
=============================================================================
