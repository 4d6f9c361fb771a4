------------------------------ MODULE SendSwap ------------------------------
(***************************************************************************)
(* The life of one send (submarine) swap: the user locks L-BTC, Boltz pays *)
(* a Lightning invoice and claims the lockup with the preimage, or the     *)
(* user takes the lockup back.                                             *)
(*                                                                         *)
(* Four kinds of asynchronous tasks of the SDK work on the same row of the *)
(* send_swaps table, and every await is a point where another one may run: *)
(*   - each call of send_payment for the invoice          (Calls)          *)
(*   - the track-new-blocks task: recovery, then refunds  (Blocks)         *)
(*   - the track-swap-updates task: Boltz status updates  (Status)         *)
(*   - each call of sync() by the application             (Syncs)          *)
(* The process may crash and be started again between any two steps.       *)
(* Boltz and the Liquid chain are the environment.                         *)
(***************************************************************************)
EXTENDS Naturals, FiniteSets

CONSTANTS Calls,        \* calls of send_payment with this invoice; a call names the lockup tx it builds
          Syncs,        \* concurrent calls of sync() by the application
          Blocks,       \* the track-new-blocks task
          Status,       \* the track-swap-updates task
          NoTx,         \* "no transaction id" (a NULL column)
          Preemptive,   \* may another thread run inside a section that has no await?
          LostAnswers,  \* may a broadcast fail for the caller although the tx reached the network?
          MaxRestarts   \* bound: how often the process crashes and starts again

ASSUME TasksAssumption ==
  /\ Blocks \notin Calls /\ Status \notin Calls /\ NoTx \notin Calls
  /\ Syncs \cap Calls = {} /\ Blocks \notin Syncs /\ Status \notin Syncs
  /\ Blocks # Status

ASSUME BoundsAssumption ==
  Preemptive \in BOOLEAN /\ LostAnswers \in BOOLEAN /\ MaxRestarts \in Nat

Tasks == Calls \cup Syncs \cup {Blocks, Status}

VARIABLES
  row,      \* the persisted swap: the columns the handlers read and write
  fresh,    \* tasks whose copy still carries the row's current version
  grace,    \* last_updated_at is younger than NETWORK_PROPAGATION_GRACE_PERIOD
  tracked,  \* the swap is subscribed to on the Boltz status stream
  pc,       \* where each task is
  copy,     \* the SendSwap each task fetched
  pend,     \* the update_swap_info arguments a task has yet to write
  restarts, \* crashes so far
  tip,      \* the Liquid tip against the swap's timeout, and whether the wallet scanned it
  lockups,  \* lockup txs ever broadcast
  seen,     \* those the wallet and the chain service can see
  spend,    \* what happened to the locked funds
  boltz     \* Boltz's side of the swap

rowVars == <<row, fresh, grace>>
taskVars == <<pc, copy, pend>>
chainVars == <<tip, lockups, seen, spend, boltz>>
vars == <<rowVars, taskVars, chainVars, tracked, restarts>>

-----------------------------------------------------------------------------
(* The persisted row. *)

States == {"None", "Created", "Pending", "Complete", "Failed", "TimedOut", "RefundPending"}

TxIds == Calls \cup {NoTx}

Rows == [state: States, lockup: TxIds, refund: BOOLEAN, preimage: BOOLEAN, addr: BOOLEAN]

NoRow == [state |-> "None", lockup |-> NoTx, refund |-> FALSE, preimage |-> FALSE, addr |-> FALSE]

Updates == [to: States, lockup: TxIds, refund: BOOLEAN, preimage: BOOLEAN, then: {"done", "wait", "lockup", "idle"}]

\* update_swap_info(to) with no ids, after which the task goes on at `then'
To(state, then) ==
  [to |-> state, lockup |-> NoTx, refund |-> FALSE, preimage |-> FALSE, then |-> then]

NoUpdate == To("None", "idle")

\* Mutant: a wait that times out may overwrite any state
Allowed_LateTimeout == (States \X {"TimedOut"}) \cup {<<"TimedOut", "Created">>, <<"Pending", "RefundPending">>}
  \cup ({"Created", "Pending"} \X {"Pending", "Complete"})

\* validate_state_transition: the pairs it accepts (a row that exists is in one of the six real states)
Allowed ==
  {<<"TimedOut", "Created">>}
  \cup ({"Created", "Pending"} \X {"Pending", "Complete"})
  \cup ({"Created", "TimedOut"} \X {"TimedOut"})
  \cup {<<"Pending", "RefundPending">>}
  \cup ((States \ {"Complete", "None"}) \X {"Failed"})

\* Mutant: the list forgets the swaps being refunded
list_pending_NoRefunds == {"Pending"}

list_ongoing     == {"Created", "Pending"}
list_pending     == {"Pending", "RefundPending"}
list_recoverable == {"Created", "Pending", "RefundPending"}

\* Any UPDATE that matches the row: the triggers move version and last_updated_at
UpdateRow(r) == row' = r /\ fresh' = {} /\ grace' = TRUE

\* try_handle_send_swap_update: the first preimage, lockup and refund id stay, the state is overwritten
Merged(u) ==
  [row EXCEPT !.state = u.to,
              !.preimage = @ \/ u.preimage,
              !.lockup = IF @ = NoTx THEN u.lockup ELSE @,
              !.refund = @ \/ u.refund]

-----------------------------------------------------------------------------
(* Control of a task. *)

Goto(t, label) == pc' = [pc EXCEPT ![t] = label]

\* A task that leaves a handler forgets its copy and its arguments
Leave(t, label) ==
  /\ Goto(t, label)
  /\ copy' = [copy EXCEPT ![t] = NoRow]
  /\ pend' = [pend EXCEPT ![t] = NoUpdate]

\* Where an error takes a task: a call returns it, a background task logs it
GiveUp(t) == Leave(t, IF t \in Calls THEN "done" ELSE "idle")

\* update_swap_info once the transition was accepted
Apply(t, u) ==
  /\ UpdateRow(Merged(u))
  /\ IF u.then = "lockup"
       THEN Goto(t, "lockup") /\ pend' = [pend EXCEPT ![t] = NoUpdate] /\ UNCHANGED copy
       ELSE Leave(t, u.then)

\* update_swap_info: fetch and validate, then write. The two have no await between them but are
\* separate statements, so only another thread can come in between.
update_swap_info(t, u) ==
  IF Preemptive
    THEN /\ Goto(t, "update")
         /\ pend' = [pend EXCEPT ![t] = u]
         /\ UNCHANGED <<copy, rowVars>>
    ELSE IF <<row.state, u.to>> \in Allowed
           THEN Apply(t, u)
           ELSE GiveUp(t) /\ UNCHANGED rowVars

ValidateUpdate(t) ==
  /\ pc[t] = "update"
  /\ IF <<row.state, pend[t].to>> \in Allowed
       THEN Goto(t, "write") /\ UNCHANGED <<copy, pend>>
       ELSE GiveUp(t)
  /\ UNCHANGED <<rowVars, chainVars, tracked, restarts>>

WriteUpdate(t) ==
  /\ pc[t] = "write"
  /\ Apply(t, pend[t])
  /\ UNCHANGED <<chainVars, tracked, restarts>>

-----------------------------------------------------------------------------
(* send_payment: fetch or create the swap, lock up the funds, wait. *)

\* fetch_send_swap_by_invoice and the match on the state it returns. A timed out
\* swap is reopened, but try_lockup is later given the copy fetched before that.
FetchSwap(c) ==
  /\ pc[c] = "start"
  /\ UNCHANGED <<chainVars, tracked, restarts>>
  /\ \/ /\ row.state = "None"
        /\ Goto(c, "create")
        /\ UNCHANGED <<copy, pend, rowVars>>
     \/ /\ row.state = "Created"
        /\ copy' = [copy EXCEPT ![c] = row]
        /\ Goto(c, "lockup")
        /\ UNCHANGED <<pend, rowVars>>
     \/ /\ row.state = "TimedOut"
        /\ IF Preemptive
             THEN /\ copy' = [copy EXCEPT ![c] = row]
                  /\ pend' = [pend EXCEPT ![c] = To("Created", "lockup")]
                  /\ Goto(c, "update")
                  /\ UNCHANGED rowVars
             ELSE /\ copy' = [copy EXCEPT ![c] = row]
                  /\ Goto(c, "lockup")
                  /\ UpdateRow(Merged(To("Created", "lockup")))
                  /\ UNCHANGED pend
     \/ /\ row.state \in {"Pending", "Complete", "RefundPending", "Failed"}
        /\ GiveUp(c)
        /\ UNCHANGED rowVars

\* create_send_swap returned: the row is inserted, unless another call already inserted
\* one for the invoice (UNIQUE), in which case the version check of the UPDATE fails
CreateSwap(c) ==
  /\ pc[c] = "create"
  /\ UNCHANGED <<pend, chainVars, tracked, restarts>>
  /\ \/ /\ row.state = "None"
        /\ UpdateRow([NoRow EXCEPT !.state = "Created"])
        /\ copy' = [copy EXCEPT ![c] = row']
        /\ Goto(c, "lockup")
     \/ /\ Goto(c, "done")
        /\ UNCHANGED <<copy, rowVars>>

\* track_swap_id, then the early return of try_lockup on the copy it was given
TrackAndCheckLockup(c) ==
  /\ pc[c] = "lockup"
  /\ UNCHANGED <<rowVars, chainVars, restarts>>
  /\ \/ /\ tracked' = TRUE
        /\ IF copy[c].lockup # NoTx
             THEN GiveUp(c)
             ELSE Goto(c, "build") /\ UNCHANGED <<copy, pend>>
     \/ GiveUp(c) /\ UNCHANGED tracked           \* the stream has no receiver

\* Mutant: the UPDATE without its IS NULL condition
LockupIsNull_NoCondition == TRUE

\* WHERE lockup_tx_id IS NULL
LockupIsNull == row.lockup = NoTx

\* build_tx_or_drain_tx returned: set_send_swap_lockup_tx_id writes only over NULL
SetLockupTxId(c) ==
  /\ pc[c] = "build"
  /\ UNCHANGED <<chainVars, tracked, restarts>>
  /\ \/ /\ LockupIsNull
        /\ UpdateRow([row EXCEPT !.lockup = c])
        /\ Goto(c, "broadcast")
        /\ UNCHANGED <<copy, pend>>
     \/ GiveUp(c) /\ UNCHANGED rowVars           \* already set, or no tx could be built

BroadcastLockup(c) ==
  /\ pc[c] = "broadcast"
  /\ lockups' = lockups \cup {c}
  /\ Goto(c, "sent")
  /\ UNCHANGED <<copy, pend, rowVars, tip, seen, spend, boltz, tracked, restarts>>

\* The network refused the tx, or its answer was lost: unset_send_swap_lockup_tx_id clears
\* this id and no other
UnsetLockupTxId(c) ==
  /\ pc[c] = "broadcast"
  /\ \/ UNCHANGED lockups
     \/ LostAnswers /\ lockups' = lockups \cup {c}
  /\ IF row.lockup = c THEN UpdateRow([row EXCEPT !.lockup = NoTx]) ELSE UNCHANGED rowVars
  /\ GiveUp(c)
  /\ UNCHANGED <<tip, seen, spend, boltz, tracked, restarts>>

LockupSent(c) ==
  /\ pc[c] = "sent"
  /\ update_swap_info(c, [To("Pending", "wait") EXCEPT !.lockup = c])
  /\ UNCHANGED <<chainVars, tracked, restarts>>

\* wait_for_payment_with_timeout: an event of the swap ends it, or the timeout does
PaymentTimeout(c) ==
  /\ pc[c] = "wait"
  /\ update_swap_info(c, To("TimedOut", "done"))
  /\ UNCHANGED <<chainVars, tracked, restarts>>

PaymentEvent(c) ==
  /\ pc[c] = "wait"
  /\ row.state \in {"Pending", "Complete"}
  /\ GiveUp(c)
  /\ UNCHANGED <<rowVars, chainVars, tracked, restarts>>

-----------------------------------------------------------------------------
(* Recovery from the chain, and the write of what it found. *)

\* Mutant: any tx that spends the lockup is taken for a refund
FoundRefund_AnySpend == spend \in {"refundSeen", "refundConfirmed", "claimed"}

\* A tx of the swap's script history that is one of the wallet's incoming txs
FoundRefund == spend \in {"refundSeen", "refundConfirmed"}

\* The cooperative endpoint gives the preimage once Boltz paid, the claim tx once it is out.
\* Either is asked for only when the lockup was found, and may fail.
PreimageAvailable(found) == found # NoTx /\ boltz = "paid"

\* Mutants: a claimed lockup is Complete without the preimage; an unconfirmed and a confirmed refund
\* are not told apart; a lockup that expired is Refundable, as for incoming chain swaps
derive_partial_state_ClaimOnly(state, found, preimage) ==
  IF found # NoTx /\ (preimage \/ spend = "claimed") THEN "Complete" ELSE state
derive_partial_state_NoConfirmation(state, found, preimage) ==
  IF found = NoTx THEN state
  ELSE IF preimage THEN "Complete" ELSE IF FoundRefund \/ tip # "open" THEN "RefundPending" ELSE "Pending"
derive_partial_state_Refundable(state, found, preimage) ==
  IF found # NoTx /\ tip # "open" THEN "Refundable" ELSE state

\* derive_partial_state, where `state' is what the swap keeps when nothing can be derived
derive_partial_state(state, found, preimage) ==
  IF found # NoTx
    THEN CASE preimage                                  -> "Complete"
           [] ~preimage /\ ~FoundRefund                 -> IF tip = "open" THEN "Pending" ELSE "RefundPending"
           [] ~preimage /\ FoundRefund                  -> IF spend = "refundConfirmed" THEN "Failed" ELSE "RefundPending"
    ELSE IF tip = "open" THEN state ELSE "Failed"

\* Mutant: recovery without the grace period
should_skip_recovery_NoGrace(s, found) == FALSE

should_skip_recovery(s, found) ==
  /\ grace
  /\ \/ s.lockup # NoTx /\ found = NoTx
     \/ s.refund /\ ~FoundRefund

\* SendSwapHandler::recover_swap on the copy s, with the lockup found on chain
Recovered(s, found, preimage) ==
  IF should_skip_recovery(s, found) THEN s
  ELSE [s EXCEPT !.lockup = found,
                 !.refund = FoundRefund,
                 !.preimage = preimage,
                 !.state = derive_partial_state(s.state, found, preimage)]

\* get_sync_context: the copy that recovery works on. Without a new Liquid block the
\* block task leaves send swaps out of it (and takes no step of this module).
ListRecoverable(t) ==
  /\ t \in Syncs \cup {Blocks}
  /\ pc[t] = "idle"
  /\ IF row.state \in list_recoverable
       THEN /\ copy' = [copy EXCEPT ![t] = row]
            /\ fresh' = fresh \cup {t}
            /\ Goto(t, "recover")
            /\ UNCHANGED pend
       ELSE /\ t = Blocks
            /\ Goto(t, "refunds")
            /\ UNCHANGED <<copy, pend, fresh>>
  /\ UNCHANGED <<row, grace, chainVars, tracked, restarts>>

AfterRecovery(t) == IF t = Blocks THEN "refunds" ELSE "idle"

RecoverSwap(t, found, preimage) ==
  /\ pc[t] = "recover"
  /\ found \in (IF seen = {} THEN {NoTx} ELSE seen)
  /\ preimage => (copy[t].preimage \/ PreimageAvailable(found))
  /\ copy[t].preimage => preimage
  /\ copy' = [copy EXCEPT ![t] = Recovered(copy[t], found, preimage)]
  /\ Goto(t, "save")
  /\ UNCHANGED <<pend, rowVars, chainVars, tracked, restarts>>

\* Tips, the wallet scan or the history could not be had: nothing is recovered
RecoveryFails(t) ==
  /\ pc[t] = "recover"
  /\ Leave(t, AfterRecovery(t))
  /\ fresh' = fresh \ {t}
  /\ UNCHANGED <<row, grace, chainVars, tracked, restarts>>

\* update_swap: written when it differs, and only if the row kept the version of the copy
SaveRecovered(t) ==
  /\ pc[t] = "save"
  /\ IF copy[t] # row /\ t \in fresh
       THEN UpdateRow(copy[t])
       ELSE fresh' = fresh \ {t} /\ UNCHANGED <<row, grace>>
  /\ Leave(t, AfterRecovery(t))
  /\ UNCHANGED <<chainVars, tracked, restarts>>

-----------------------------------------------------------------------------
(* Refunds: the block task's check_refunds and the status task's handler. *)

\* check_refunds lists the pending swaps; try_refund_all skips one with a refund tx, and a
\* Pending one that has not expired. The expiry check uses the tip the wallet scanned.
CheckRefunds ==
  /\ pc[Blocks] = "refunds"
  /\ IF /\ row.state \in list_pending
        /\ ~row.refund
        /\ row.state = "Pending" => tip = "scanned"
       THEN /\ copy' = [copy EXCEPT ![Blocks] = row]
            /\ Goto(Blocks, IF tip = "scanned" THEN "refund" ELSE "refundCoop")
            /\ UNCHANGED pend
       ELSE Leave(Blocks, "idle")
  /\ UNCHANGED <<rowVars, chainVars, tracked, restarts>>

\* refund and cooperate_claim take an unused address when the copy has none
SetRefundAddress(t) ==
  /\ pc[t] \in {"refund", "refundCoop", "claim"}
  /\ ~copy[t].addr
  /\ copy' = [copy EXCEPT ![t].addr = TRUE]
  /\ UpdateRow([row EXCEPT !.addr = TRUE])
  /\ UNCHANGED <<pc, pend, chainVars, tracked, restarts>>

\* A cooperative refund needs Boltz's signature, the other one the timeout. For an expired
\* swap the block task makes the latter, after the former failed if the swap is RefundPending.
CanRefund(t) ==
  /\ seen # {} /\ spend = "unspent"
  /\ pc[t] = "refundCoop" => boltz = "failed"

BroadcastRefund(t) ==
  /\ pc[t] \in {"refund", "refundCoop"}
  /\ copy[t].addr
  /\ CanRefund(t)
  /\ spend' = "refundSent"
  /\ Goto(t, "refunded")
  /\ UNCHANGED <<copy, pend, rowVars, tip, lockups, seen, boltz, tracked, restarts>>

RefundSent(t) ==
  /\ pc[t] = "refunded"
  /\ update_swap_info(t, [To("RefundPending", "idle") EXCEPT !.refund = TRUE])
  /\ UNCHANGED <<chainVars, tracked, restarts>>

\* No refund tx could be made or broadcast, or the answer of the broadcast was lost: the block task
\* goes on to the next swap, the status task still asks for RefundPending
RefundFails(t) ==
  /\ pc[t] \in {"refund", "refundCoop", "refunded"}
  /\ IF t = Blocks
       THEN Leave(t, "idle") /\ UNCHANGED rowVars
       ELSE update_swap_info(t, To("RefundPending", "idle"))
  /\ UNCHANGED <<chainVars, tracked, restarts>>

-----------------------------------------------------------------------------
(* on_new_status. Updates may be lost, repeated and late: a status that was true *)
(* may be handled at any later time while the swap is tracked.                   *)

StatusArrives == pc[Status] = "idle" /\ tracked /\ row.state # "None"

TransactionClaimPending ==
  /\ StatusArrives /\ boltz = "paid"
  /\ copy' = [copy EXCEPT ![Status] = row]
  /\ Goto(Status, "claim")
  /\ UNCHANGED <<pend, rowVars, chainVars, tracked, restarts>>

\* The preimage came with the claim details or from get_submarine_preimage, and was verified
ClaimPreimage ==
  /\ pc[Status] = "claim"
  /\ update_swap_info(Status, [To("Complete", "idle") EXCEPT !.preimage = TRUE])
  /\ UNCHANGED <<chainVars, tracked, restarts>>

ClaimFails ==
  /\ pc[Status] = "claim"
  /\ Leave(Status, "idle")
  /\ UNCHANGED <<rowVars, chainVars, tracked, restarts>>

TransactionClaimed ==
  /\ StatusArrives /\ spend = "claimed" /\ ~row.preimage
  /\ copy' = [copy EXCEPT ![Status] = row]
  /\ fresh' = fresh \cup {Status}
  /\ Goto(Status, "recover")
  /\ UNCHANGED <<pend, row, grace, chainVars, tracked, restarts>>

\* transaction.lockupFailed, invoice.failedToPay, swap.expired
SwapFailed ==
  /\ StatusArrives /\ boltz = "failed"
  /\ \/ /\ row.lockup # NoTx /\ ~row.refund
        /\ copy' = [copy EXCEPT ![Status] = row]
        /\ Goto(Status, "refundCoop")
        /\ UNCHANGED <<pend, rowVars>>
     \/ /\ row.lockup = NoTx
        /\ update_swap_info(Status, To("Failed", "idle"))
  /\ UNCHANGED <<chainVars, tracked, restarts>>

\* The stream reconnects and track_subscriptions subscribes to the ongoing swaps
Reconnect ==
  /\ tracked' = (row.state \in list_ongoing)
  /\ tracked' # tracked
  /\ UNCHANGED <<rowVars, taskVars, chainVars, restarts>>

-----------------------------------------------------------------------------
(* The process, the clock, the chain and Boltz. *)

\* The process dies and is started again: start() times out the swaps still Created. A call
\* that was running is gone, one that was not made yet can still be made.
Restart ==
  /\ restarts < MaxRestarts
  /\ restarts' = restarts + 1
  /\ IF row.state = "Created"
       THEN UpdateRow([row EXCEPT !.state = "TimedOut"])
       ELSE fresh' = {} /\ UNCHANGED <<row, grace>>
  /\ pc' = [t \in Tasks |-> IF t \notin Calls THEN "idle" ELSE IF pc[t] = "start" THEN "start" ELSE "done"]
  /\ copy' = [t \in Tasks |-> NoRow]
  /\ pend' = [t \in Tasks |-> NoUpdate]
  /\ tracked' = FALSE
  /\ UNCHANGED chainVars

\* 120 s without an UPDATE of the row. A broadcast is over and its tx visible by then: that is
\* what the grace period is chosen for.
GracePeriodEnds ==
  /\ grace
  /\ \A c \in Calls : pc[c] # "broadcast"
  /\ seen = lockups /\ spend # "refundSent"
  /\ grace' = FALSE
  /\ UNCHANGED <<row, fresh, taskVars, chainVars, tracked, restarts>>

\* Boltz claims what it paid for before the timeout
TimeoutHeightReached ==
  /\ tip = "open" /\ ~(boltz = "paid" /\ spend = "unspent")
  /\ tip' = "expired"
  /\ UNCHANGED <<rowVars, taskVars, lockups, seen, spend, boltz, tracked, restarts>>

WalletScansTip ==
  /\ tip = "expired"
  /\ tip' = "scanned"
  /\ UNCHANGED <<rowVars, taskVars, lockups, seen, spend, boltz, tracked, restarts>>

LockupVisible ==
  /\ seen # lockups
  /\ seen' = lockups
  /\ UNCHANGED <<rowVars, taskVars, tip, lockups, spend, boltz, tracked, restarts>>

RefundVisible ==
  /\ spend = "refundSent"
  /\ spend' = "refundSeen"
  /\ UNCHANGED <<rowVars, taskVars, tip, lockups, seen, boltz, tracked, restarts>>

RefundConfirmed ==
  /\ spend = "refundSeen"
  /\ spend' = "refundConfirmed"
  /\ UNCHANGED <<rowVars, taskVars, tip, lockups, seen, boltz, tracked, restarts>>

BoltzPays ==
  /\ boltz = "waiting" /\ seen # {} /\ tip = "open"
  /\ boltz' = "paid"
  /\ UNCHANGED <<rowVars, taskVars, tip, lockups, seen, spend, tracked, restarts>>

BoltzFails ==
  /\ boltz = "waiting" /\ (seen # {} \/ tip # "open")
  /\ boltz' = "failed"
  /\ UNCHANGED <<rowVars, taskVars, tip, lockups, seen, spend, tracked, restarts>>

BoltzClaims ==
  /\ boltz = "paid" /\ spend = "unspent"
  /\ spend' = "claimed"
  /\ UNCHANGED <<rowVars, taskVars, tip, lockups, seen, boltz, tracked, restarts>>

-----------------------------------------------------------------------------

Init ==
  /\ row = NoRow /\ fresh = {} /\ grace = FALSE
  /\ tracked = FALSE
  /\ pc = [t \in Tasks |-> IF t \in Calls THEN "start" ELSE "idle"]
  /\ copy = [t \in Tasks |-> NoRow]
  /\ pend = [t \in Tasks |-> NoUpdate]
  /\ restarts = 0
  /\ tip = "open" /\ lockups = {} /\ seen = {} /\ spend = "unspent" /\ boltz = "waiting"

CallStep(c) ==
  \/ FetchSwap(c) \/ CreateSwap(c) \/ TrackAndCheckLockup(c) \/ SetLockupTxId(c)
  \/ BroadcastLockup(c) \/ UnsetLockupTxId(c) \/ LockupSent(c)
  \/ PaymentTimeout(c) \/ PaymentEvent(c)

RecoveryStep(t) ==
  \/ ListRecoverable(t)
  \/ \E found \in TxIds, preimage \in BOOLEAN : RecoverSwap(t, found, preimage)
  \/ RecoveryFails(t)
  \/ SaveRecovered(t)

RefundStep(t) ==
  SetRefundAddress(t) \/ BroadcastRefund(t) \/ RefundSent(t) \/ RefundFails(t)

StatusStep ==
  TransactionClaimPending \/ ClaimPreimage \/ ClaimFails \/ TransactionClaimed \/ SwapFailed

Environment ==
  \/ Reconnect \/ Restart \/ GracePeriodEnds \/ TimeoutHeightReached \/ WalletScansTip
  \/ LockupVisible \/ RefundVisible \/ RefundConfirmed \/ BoltzPays \/ BoltzFails \/ BoltzClaims

Next ==
  \/ \E c \in Calls : CallStep(c)
  \/ \E t \in Syncs \cup {Blocks, Status} : RecoveryStep(t)
  \/ \E t \in {Blocks, Status} : RefundStep(t)
  \/ CheckRefunds
  \/ StatusStep
  \/ \E t \in Tasks : ValidateUpdate(t) \/ WriteUpdate(t)
  \/ Environment

Spec == Init /\ [][Next]_vars

(***************************************************************************)
(* Fairness. The block task runs in a loop, so its steps are taken; a      *)
(* network call it repeats on every block succeeds if it can succeed again *)
(* and again. The chain moves, a broadcast tx propagates and confirms, and *)
(* Boltz decides and claims. Nothing is assumed of the calls, of sync(),   *)
(* or of status updates: none of them need ever arrive.                    *)
(***************************************************************************)
RecoverFully(t) ==
  \E found \in TxIds : RecoverSwap(t, found, copy[t].preimage \/ PreimageAvailable(found))

Fairness ==
  /\ WF_vars(ListRecoverable(Blocks)) /\ WF_vars(SaveRecovered(Blocks))
  /\ WF_vars(CheckRefunds) /\ WF_vars(RefundSent(Blocks))
  /\ WF_vars(RecoveryStep(Blocks)) /\ WF_vars(RefundStep(Blocks))
  /\ SF_vars(RecoverFully(Blocks))
  /\ SF_vars(SetRefundAddress(Blocks)) /\ SF_vars(BroadcastRefund(Blocks))
  /\ WF_vars(ValidateUpdate(Blocks)) /\ WF_vars(WriteUpdate(Blocks))
  /\ \A c \in Calls : WF_vars(BroadcastLockup(c) \/ UnsetLockupTxId(c))
  /\ WF_vars(GracePeriodEnds)
  /\ WF_vars(TimeoutHeightReached) /\ WF_vars(WalletScansTip)
  /\ WF_vars(LockupVisible) /\ WF_vars(RefundVisible) /\ WF_vars(RefundConfirmed)
  /\ WF_vars(BoltzPays \/ BoltzFails) /\ WF_vars(BoltzClaims)

FairSpec == Spec /\ Fairness

-----------------------------------------------------------------------------
(* Properties. *)

PCs == {"start", "create", "lockup", "build", "broadcast", "sent", "wait", "done",
        "idle", "recover", "save", "refunds", "refund", "refundCoop", "refunded", "claim",
        "update", "write"}

\* Every variable stays in its domain: the columns hold what the schema and the handlers allow.
TypeOK ==
  /\ row \in Rows /\ fresh \subseteq Tasks /\ grace \in BOOLEAN /\ tracked \in BOOLEAN
  /\ pc \in [Tasks -> PCs] /\ copy \in [Tasks -> Rows] /\ pend \in [Tasks -> Updates]
  /\ restarts \in 0..MaxRestarts
  /\ tip \in {"open", "expired", "scanned"}
  /\ lockups \subseteq Calls /\ seen \subseteq lockups
  /\ spend \in {"unspent", "refundSent", "refundSeen", "refundConfirmed", "claimed"}
  /\ boltz \in {"waiting", "paid", "failed"}

\* The user never pays the same swap twice: whatever calls, recoveries, failed broadcasts and
\* restarts interleave (try_lockup, set_send_swap_lockup_tx_id, the grace period of recovery).
AtMostOneLockup == \A s, t \in lockups : s = t

\* The id of a lockup tx that reached the network stays in the row: no unset, no stale copy
\* and no early recovery erases it (should_skip_recovery, the version check).
LockupNotForgotten == \A t \in lockups : row.lockup = t

\* A payment is reported Complete only if Boltz paid the invoice and the proof is stored.
CompleteHasProof == row.state = "Complete" => row.preimage /\ boltz = "paid"

\* A refund tx id is stored only for a refund that was broadcast (refund, should_skip_recovery).
RefundIdIsReal == row.refund => spend \in {"refundSent", "refundSeen", "refundConfirmed"}

Shown == CASE row.state = "Complete" -> "complete" [] row.state = "Failed" -> "failed" [] OTHER -> "open"

\* The payment keeps what SwapPromise says: it is shown as Complete only when Boltz paid the
\* invoice, which is when it learns the preimage, and Complete is final: no late refund, timeout,
\* status or recovery takes it back (validate_state_transition, the version check).
Promise == INSTANCE SwapPromise WITH
  Direct  <- FALSE,
  shown   <- Shown,
  offered <- boltz = "paid",
  secret  <- boltz = "paid",
  earned  <- boltz = "paid",
  left    <- FALSE
KeepsPromise == Promise!Spec

\* The funds of a swap the background task follows do not stay locked: Boltz claims them or
\* the user gets them back, even if no status update ever arrives (check_refunds). What became of
\* the lockup reaches the row by recovery alone: a paid swap becomes Complete (recover_preimage), a
\* refunded one Failed, its final state.
LockedFundsAreSettled ==
  /\ (lockups # {} /\ row.state \in list_pending) ~> spend \in {"claimed", "refundConfirmed"}
  /\ (boltz = "paid" /\ row.state \in list_pending) ~> row.state = "Complete"
  /\ (spend = "refundConfirmed" /\ row.state \in list_pending) ~> row.state = "Failed"

(***************************************************************************)
(* What comments of the code say and a run refutes.                        *)
(***************************************************************************)

\* model.rs: "The TimedOut state indicates the lockup tx should never be broadcast".
TimedOutHasNoLockup == row.state = "TimedOut" => lockups = {}

\* model.rs, on Failed: "a swap refund was initiated and the refund tx is confirmed".
FailedHoldsNoFunds == row.state = "Failed" /\ lockups # {} => spend = "refundConfirmed"
=============================================================================
