---------------------------- MODULE ReceiveSwap ----------------------------
(***************************************************************************)
(* The life of one receive (reverse submarine) swap: a payer pays a        *)
(* Lightning invoice, Boltz locks up L-BTC, the SDK claims it with the     *)
(* preimage. A payer who finds the magic routing hint (MRH) pays the       *)
(* wallet's Liquid address instead, and Boltz never locks anything up.     *)
(*                                                                         *)
(* Three kinds of tasks work on the row of the receive_swaps table:        *)
(*   - the track-swap-updates task: Boltz status updates       (Status)    *)
(*   - the track-new-blocks task: recovery, then claims        (Blocks)    *)
(*   - each call of sync() by the application                  (Syncs)     *)
(* The process may crash and be started again between any two steps.       *)
(* Boltz, the payer and the Liquid chain are the environment.              *)
(***************************************************************************)
EXTENDS Naturals

CONSTANTS Syncs,        \* concurrent calls of sync() by the application
          Blocks,       \* the track-new-blocks task
          Status,       \* the track-swap-updates task
          ClaimTxs,     \* ids of the claim txs that are built
          Lockup,       \* id of the lockup tx Boltz broadcasts
          Replacement,  \* id of the tx that may replace it while it signals RBF
          Refund,       \* the tx by which Boltz takes its lockup back
          MrhTx,        \* the tx that pays the MRH address
          NoTx,         \* "no transaction id" (a NULL column)
          Payers,       \* the ways the payer may pay: "lightning", "mrh" or both
  Small,        \* is the amount within the zero-conf limit?
  Honest,       \* does Boltz always lock up what was agreed, in a tx that does not signal RBF?
  LostAnswers,  \* may a broadcast fail for the caller although the tx reached the network?
          MaxRestarts   \* bound: how often the process crashes and starts again

ASSUME TasksAssumption ==
  Blocks \notin Syncs /\ Status \notin Syncs /\ Blocks # Status

ASSUME TxsAssumption ==
  /\ {Lockup, Replacement, Refund, MrhTx, NoTx} \cap ClaimTxs = {}
  /\ Lockup \notin {Replacement, Refund, NoTx} /\ Replacement \notin {Refund, NoTx}
  /\ Refund # NoTx /\ MrhTx \notin {Refund, NoTx}

ASSUME BoundsAssumption ==
  Payers \subseteq {"lightning", "mrh"} /\ Small \in BOOLEAN
  /\ Honest \in BOOLEAN /\ LostAnswers \in BOOLEAN /\ MaxRestarts \in Nat

Tasks == Syncs \cup {Blocks, Status}

VARIABLES
  row,       \* the persisted swap: the columns the handlers read and write
  fresh,     \* tasks whose copy still carries the row's current version
  grace,     \* last_updated_at is younger than NETWORK_PROPAGATION_GRACE_PERIOD
  claiming,  \* the swap's id is in claiming_swaps
  pc,        \* where each task is
  copy,      \* what each task still uses of the ReceiveSwap it fetched, and the claim tx it built
  view,      \* what a recovering task read before the script histories
  restarts,  \* crashes so far
  tip,       \* the Liquid tip against the swap's timeout height
  lockup,    \* Boltz's lockup tx: what it is like, and where it is
  spend,     \* the tx that spends the lockup, and where it is
  mrh,       \* where the MRH payment is
  revealed,  \* Boltz was given the preimage, for its signature of a claim tx
  boltz      \* does Boltz still wait for the swap?

rowVars == <<row, fresh, grace>>
taskVars == <<claiming, pc, copy, view>>
chainVars == <<tip, lockup, spend, mrh, revealed, boltz>>
vars == <<rowVars, taskVars, chainVars, restarts>>

-----------------------------------------------------------------------------
(* The persisted row. *)

States == {"None", "Created", "Pending", "Complete", "Failed", "TimedOut"}

Rows == [state: States, lockup: ClaimTxs \cup {Lockup, Replacement, Refund, NoTx},
         claim: ClaimTxs \cup {NoTx}, mrh: BOOLEAN, addr: BOOLEAN]

NoRow == [state |-> "None", lockup |-> NoTx, claim |-> NoTx, mrh |-> FALSE, addr |-> FALSE]

\* Mutant: a final swap can be failed
Allowed_CompleteFails ==
  ({"Created", "Pending"} \X {"Pending", "Complete"}) \cup ({"Created", "TimedOut"} \X {"TimedOut"})
  \cup ((States \ {"None"}) \X {"Failed"})

\* validate_state_transition: the pairs it accepts
Allowed ==
  ({"Created", "Pending"} \X {"Pending", "Complete"})
  \cup ({"Created", "TimedOut"} \X {"TimedOut"})
  \cup ((States \ {"Complete", "None"}) \X {"Failed"})

\* Mutant: a list that forgets the swaps that progressed
list_recoverable_OnlyCreated == {"Created"}

list_ongoing     == {"Created", "Pending"}
list_recoverable == {"Created", "Pending"}

\* Any UPDATE that matches the row: the triggers move version and last_updated_at
UpdateRow(r) == row' = r /\ fresh' = {} /\ grace' = TRUE

Accepts(to) == <<row.state, to>> \in Allowed

\* update_swap_info with a lockup id or none; the first id stays. It has no await.
update_swap_info(to, lockupId) ==
  IF Accepts(to)
    THEN UpdateRow([row EXCEPT !.state = to, !.lockup = IF @ = NoTx THEN lockupId ELSE @])
    ELSE UNCHANGED rowVars

\* A payment request was made: the row is inserted. Whether the id is then tracked decides
\* only which status updates are lost.
ReceivePayment ==
  /\ row.state = "None"
  /\ UpdateRow([NoRow EXCEPT !.state = "Created"])
  /\ UNCHANGED <<taskVars, chainVars, restarts>>

-----------------------------------------------------------------------------
(* Control of a task. *)

NoView == [txs |-> {}, recent |-> FALSE, expired |-> FALSE]

Goto(t, label) == pc' = [pc EXCEPT ![t] = label]

\* A task that is done with the swap forgets its copy
Leave(t) == Goto(t, "idle") /\ copy' = [copy EXCEPT ![t] = NoRow]

Keep(t, r, label) == Goto(t, label) /\ copy' = [copy EXCEPT ![t] = r]

-----------------------------------------------------------------------------
(* on_new_status. Updates may be lost, repeated and late: a status that was true *)
(* may be handled at any later time.                                             *)

StatusArrives == pc[Status] = "idle" /\ row.state # "None"

TransactionMempool ==
  /\ StatusArrives /\ lockup.at # "none"
  /\ row.claim = NoTx /\ ~row.mrh
  /\ Goto(Status, "mempool") /\ UNCHANGED copy
  /\ UNCHANGED <<rowVars, claiming, view, chainVars, restarts>>

TransactionConfirmed ==
  /\ StatusArrives /\ lockup.at \in {"mined", "late"}
  /\ ~row.mrh
  /\ Keep(Status, [NoRow EXCEPT !.claim = row.claim], "confirmed")
  /\ UNCHANGED <<rowVars, claiming, view, chainVars, restarts>>

\* swap.expired, invoice.expired, transaction.failed, transaction.refunded
SwapFailed ==
  /\ StatusArrives /\ boltz = "gone"
  /\ ~row.mrh
  /\ update_swap_info("Failed", NoTx)
  /\ UNCHANGED <<taskVars, chainVars, restarts>>

\* Mutant: the RBF check is missing
AcceptsZeroConf_Rbf == Small

\* The conditions under which an unconfirmed lockup is claimed
AcceptsZeroConf == Small /\ ~lockup.rbf

\* verify_lockup_tx_amount
EnoughLocked == lockup.enough

\* The lockup tx of the update was broadcast, or found in the history of the swap script
VerifyMempoolLockup ==
  /\ pc[Status] = "mempool" /\ lockup.at # "none"
  /\ IF EnoughLocked
       THEN /\ update_swap_info("Pending", lockup.id)
            /\ IF Accepts("Pending") /\ AcceptsZeroConf
                 THEN Goto(Status, "claim") /\ UNCHANGED copy
                 ELSE Leave(Status)
       ELSE update_swap_info("Failed", NoTx) /\ Leave(Status)
  /\ UNCHANGED <<claiming, view, chainVars, restarts>>

\* verify_tx with verify_confirmation
IsConfirmed(at) == at \in {"mined", "late"}

\* verify_lockup_tx_status of the update's lockup succeeded, with confirmation
VerifyConfirmedLockup ==
  /\ pc[Status] = "confirmed" /\ IsConfirmed(lockup.at)
  /\ \/ /\ ~EnoughLocked
        /\ update_swap_info("Failed", NoTx)
        /\ Leave(Status)
     \/ /\ EnoughLocked /\ copy[Status].claim # NoTx
        /\ Leave(Status)
        /\ UNCHANGED rowVars
     \/ /\ EnoughLocked /\ copy[Status].claim = NoTx
        /\ update_swap_info("Pending", NoTx)
        /\ IF Accepts("Pending") THEN Goto(Status, "claim") /\ UNCHANGED copy ELSE Leave(Status)
  /\ UNCHANGED <<claiming, view, chainVars, restarts>>

-----------------------------------------------------------------------------
(* claim_confirmed_lockups: what the block task does after recovery. *)

\* Only a new Liquid block makes the task call the handler
ClaimConfirmedLockups ==
  /\ pc[Blocks] = "rescan"
  /\ IF row.state \in list_ongoing /\ row.lockup # NoTx /\ row.claim = NoTx
       THEN Keep(Blocks, [NoRow EXCEPT !.lockup = row.lockup], "verify")
       ELSE Leave(Blocks)
  /\ UNCHANGED <<rowVars, claiming, view, chainVars, restarts>>

NoNewBlock ==
  /\ pc[Blocks] = "rescan"
  /\ Leave(Blocks)
  /\ UNCHANGED <<rowVars, claiming, view, chainVars, restarts>>

\* The tx of the row's lockup id was found, confirmed, in the history of the swap script. That
\* history has the spending tx too, which pays nothing to the script.
VerifyRowLockup ==
  /\ pc[Blocks] = "verify"
  /\ \/ /\ copy[Blocks].lockup = lockup.id /\ IsConfirmed(lockup.at) /\ EnoughLocked
        /\ Keep(Blocks, NoRow, "claim")
        /\ UNCHANGED rowVars
     \/ /\ \/ copy[Blocks].lockup = lockup.id /\ IsConfirmed(lockup.at) /\ ~EnoughLocked
           \/ copy[Blocks].lockup = spend.by /\ IsConfirmed(spend.at)
        /\ update_swap_info("Failed", NoTx)
        /\ Leave(Blocks)
  /\ UNCHANGED <<claiming, view, chainVars, restarts>>

\* The lockup could not be verified: not found, not confirmed, no answer
VerifyFails(t) ==
  /\ pc[t] \in {"mempool", "confirmed", "verify"}
  /\ Leave(t)
  /\ UNCHANGED <<rowVars, claiming, view, chainVars, restarts>>

-----------------------------------------------------------------------------
(* claim and claim_inner. *)

BeginClaim(t) ==
  /\ pc[t] = "claim"
  /\ IF claiming \/ row.claim # NoTx
       THEN Leave(t) /\ UNCHANGED claiming
       ELSE Keep(t, [NoRow EXCEPT !.addr = row.addr], "build") /\ claiming' = TRUE
  /\ UNCHANGED <<rowVars, view, chainVars, restarts>>

\* Whatever the result of claim_inner, the id leaves claiming_swaps
EndClaim(t) == Leave(t) /\ claiming' = FALSE

SetClaimAddress(t) ==
  /\ pc[t] = "build" /\ ~copy[t].addr
  /\ copy' = [copy EXCEPT ![t].addr = TRUE]
  /\ UpdateRow([row EXCEPT !.addr = TRUE])
  /\ UNCHANGED <<pc, claiming, view, chainVars, restarts>>

\* create_claim_tx returned a tx that Boltz signed, for which it was given the preimage;
\* set_receive_swap_claim_tx_id writes only over NULL
SetClaimTxId(t, k) ==
  /\ pc[t] = "build" /\ copy[t].addr /\ lockup.at # "none"
  /\ k # spend.by                                \* a tx built anew has an id of its own
  /\ revealed' = TRUE
  /\ IF row.claim = NoTx
       THEN /\ UpdateRow([row EXCEPT !.claim = k])
            /\ copy' = [copy EXCEPT ![t].claim = k]
            /\ Goto(t, "broadcast")
            /\ UNCHANGED claiming
       ELSE EndClaim(t) /\ UNCHANGED rowVars
  /\ UNCHANGED <<view, tip, lockup, spend, mrh, boltz, restarts>>

BuildFails(t) ==
  /\ pc[t] = "build"
  /\ revealed' \in {revealed, TRUE}
  /\ EndClaim(t)
  /\ UNCHANGED <<rowVars, view, tip, lockup, spend, mrh, boltz, restarts>>

\* The network takes a claim tx of an unspent lockup
Sent(t) ==
  /\ spend.by = NoTx
  /\ spend' = [by |-> copy[t].claim, at |-> "sent", same |-> FALSE]

\* By the chain service or, when that failed, by Boltz
BroadcastClaim(t) ==
  /\ pc[t] = "broadcast"
  /\ Sent(t)
  /\ EndClaim(t)
  /\ UNCHANGED <<rowVars, view, tip, lockup, mrh, revealed, boltz, restarts>>

\* Both refused the tx, or their answers were lost:
\* unset_receive_swap_claim_tx_id clears this id and no other
UnsetClaimTxId(t) ==
  /\ pc[t] = "broadcast"
  /\ (LostAnswers /\ Sent(t)) \/ UNCHANGED spend
  /\ IF row.claim = copy[t].claim THEN UpdateRow([row EXCEPT !.claim = NoTx]) ELSE UNCHANGED rowVars
  /\ EndClaim(t)
  /\ UNCHANGED <<view, tip, lockup, mrh, revealed, boltz, restarts>>

-----------------------------------------------------------------------------
(* Recovery from the chain, and the write of what it found. *)

\* get_sync_context: the tip, and the copy that recovery works on
ListRecoverable(t) ==
  /\ pc[t] = "idle" /\ row.state # "None"
  /\ IF row.state \in list_recoverable
       THEN Keep(t, row, "scan") /\ fresh' = fresh \cup {t}
       ELSE t = Blocks /\ Goto(t, "rescan") /\ UNCHANGED <<copy, fresh>>
  /\ view' = [view EXCEPT ![t] = [NoView EXCEPT !.expired = tip = "expired"]]
  /\ UNCHANGED <<row, grace, claiming, chainVars, restarts>>

\* The wallet's incoming txs the scan finds
IncomingTxs ==
  {k \in ClaimTxs : spend.by = k /\ spend.at # "sent"} \cup {x \in {MrhTx} : mrh # "none"}

\* full_scan, recovery_started_at and transactions_by_tx_id
ScanWallet(t) ==
  /\ pc[t] = "scan"
  /\ view' = [view EXCEPT ![t] = [@ EXCEPT !.txs = IncomingTxs, !.recent = grace]]
  /\ Goto(t, "recover")
  /\ UNCHANGED <<rowVars, claiming, copy, chainVars, restarts>>

\* A script history's txs, without those at or above the timeout height
InHistory(at) == at \in {"mempool", "mined"}

\* Mutant: whatever spent the lockup is taken for the claim
determine_incoming_lockup_and_claim_txs_AnySpend(known, lockupFirst) ==
  IF InHistory(lockup.at) THEN <<lockup.id, IF InHistory(spend.at) THEN spend.by ELSE NoTx>> ELSE <<NoTx, NoTx>>

\* determine_incoming_lockup_and_claim_txs on the history of the claim script, which lists the
\* lockup first or second: the lockup and the claim tx, as far as the wallet's txs tell
determine_incoming_lockup_and_claim_txs(known, lockupFirst) ==
  CASE InHistory(lockup.at) /\ ~InHistory(spend.at) -> <<lockup.id, NoTx>>
    [] ~InHistory(lockup.at) /\ InHistory(spend.at) -> <<spend.by, NoTx>>
    [] ~InHistory(lockup.at) /\ ~InHistory(spend.at) -> <<NoTx, NoTx>>
    [] InHistory(lockup.at) /\ InHistory(spend.at) /\ spend.by \in known -> <<lockup.id, spend.by>>
    [] InHistory(lockup.at) /\ InHistory(spend.at) /\ spend.by \notin known ->
         IF lockup.at = "mempool" THEN <<NoTx, NoTx>>
         ELSE <<IF spend.same /\ lockupFirst THEN spend.by ELSE lockup.id, NoTx>>

\* Mutants: a claim in the mempool completes the swap; MRH payments are ignored
derive_partial_state_ClaimSeen(state, lockupId, claimId, mrhFound, expired) ==
  IF claimId # NoTx THEN "Complete" ELSE state
derive_partial_state_NoMrh(state, lockupId, claimId, mrhFound, expired) ==
  IF lockupId = NoTx /\ expired THEN "Failed" ELSE state

\* derive_partial_state, where `state' is what the swap keeps when nothing can be derived
derive_partial_state(state, lockupId, claimId, mrhFound, expired) ==
  CASE lockupId # NoTx /\ claimId # NoTx -> IF spend.at = "mined" THEN "Complete" ELSE "Pending"
    [] lockupId # NoTx /\ claimId = NoTx -> IF expired THEN "Failed" ELSE "Pending"
    [] lockupId = NoTx /\ mrhFound       -> IF mrh = "mined" THEN "Complete" ELSE "Pending"
    [] lockupId = NoTx /\ ~mrhFound      -> IF expired THEN "Failed" ELSE state

\* Mutant: recovery without the grace period
should_skip_recovery_NoGrace(s, recent, claimId) == FALSE

should_skip_recovery(s, recent, claimId) == recent /\ s.claim # NoTx /\ claimId = NoTx

\* ReceiveSwapHandler::recover_swap on the copy s: a lockup hides an MRH payment
Recovered(s, v, lockupFirst) ==
  LET found    == determine_incoming_lockup_and_claim_txs(v.txs, lockupFirst)
      mrhFound == found[1] = NoTx /\ MrhTx \in v.txs /\ InHistory(mrh)
  IN  IF should_skip_recovery(s, v.recent, found[2]) THEN s
      ELSE [s EXCEPT !.state = derive_partial_state(@, found[1], found[2], mrhFound, v.expired),
                     !.lockup = found[1], !.claim = found[2], !.mrh = mrhFound]

RecoverSwap(t) ==
  /\ pc[t] = "recover"
  /\ \E lockupFirst \in BOOLEAN : copy' = [copy EXCEPT ![t] = Recovered(@, view[t], lockupFirst)]
  /\ view' = [view EXCEPT ![t] = NoView]
  /\ Goto(t, "save")
  /\ UNCHANGED <<rowVars, claiming, chainVars, restarts>>

\* After recovery the block task goes on to its handlers
AfterRecovery(t) ==
  /\ Goto(t, IF t = Blocks THEN "rescan" ELSE "idle")
  /\ copy' = [copy EXCEPT ![t] = NoRow]
  /\ view' = [view EXCEPT ![t] = NoView]

\* The wallet scan or the histories could not be had: nothing is recovered
RecoveryFails(t) ==
  /\ pc[t] \in {"scan", "recover"}
  /\ AfterRecovery(t)
  /\ fresh' = fresh \ {t}
  /\ UNCHANGED <<row, grace, claiming, chainVars, restarts>>

\* WHERE version = :version
CopyIsFresh(t) == t \in fresh

\* update_swap: written when it differs, and only if the row kept the version of the copy
SaveRecovered(t) ==
  /\ pc[t] = "save"
  /\ IF copy[t] # row /\ CopyIsFresh(t)
       THEN UpdateRow(copy[t])
       ELSE fresh' = fresh \ {t} /\ UNCHANGED <<row, grace>>
  /\ AfterRecovery(t)
  /\ UNCHANGED <<claiming, chainVars, restarts>>

-----------------------------------------------------------------------------
(* The process and the clock. *)

\* The process dies and is started again; the row is all that is left
Restart ==
  /\ restarts < MaxRestarts
  /\ restarts' = restarts + 1
  /\ fresh' = {} /\ claiming' = FALSE
  /\ pc' = [t \in Tasks |-> "idle"]
  /\ copy' = [t \in Tasks |-> NoRow]
  /\ view' = [t \in Tasks |-> NoView]
  /\ UNCHANGED <<row, grace, chainVars>>

\* 120 s without an UPDATE of the row. A broadcast is over and its tx visible by then: that is
\* what the grace period is chosen for.
GracePeriodEnds ==
  /\ grace
  /\ \A t \in Tasks : pc[t] # "broadcast"
  /\ spend.at # "sent"
  /\ grace' = FALSE
  /\ UNCHANGED <<row, fresh, taskVars, chainVars, restarts>>

-----------------------------------------------------------------------------
(* Boltz, the payer and the chain. A tx is "mined" below the timeout height *)
(* and "late" from that height on.                                          *)

ThisBlock == IF tip = "open" THEN "mined" ELSE "late"

TimeoutHeightReached ==
  /\ tip = "open"
  /\ tip' = "expired"
  /\ UNCHANGED <<rowVars, taskVars, lockup, spend, mrh, revealed, boltz, restarts>>

\* The lockup txs Boltz may broadcast under this id
LockupTxs(id) ==
  {l \in [id: {id}, enough: BOOLEAN, rbf: BOOLEAN, at: {"mempool"}] : Honest => l.enough /\ ~l.rbf}

\* The invoice was paid: Boltz locks up, but perhaps too little
BoltzLocks ==
  /\ "lightning" \in Payers
  /\ row.state # "None" /\ boltz = "open" /\ tip = "open" /\ lockup.at = "none"
  /\ lockup' \in LockupTxs(Lockup)
  /\ UNCHANGED <<rowVars, taskVars, tip, spend, mrh, revealed, boltz, restarts>>

\* At most once
LockupReplaced ==
  /\ lockup.at = "mempool" /\ lockup.rbf /\ lockup.id = Lockup /\ spend.by = NoTx
  /\ lockup' \in LockupTxs(Replacement)
  /\ UNCHANGED <<rowVars, taskVars, tip, spend, mrh, revealed, boltz, restarts>>

LockupMined ==
  /\ lockup.at = "mempool"
  /\ lockup' = [lockup EXCEPT !.at = ThisBlock]
  /\ UNCHANGED <<rowVars, taskVars, tip, spend, mrh, revealed, boltz, restarts>>

LockupAndSpendMined ==
  /\ lockup.at = "mempool" /\ spend.at = "mempool"
  /\ lockup' = [lockup EXCEPT !.at = ThisBlock]
  /\ spend' = [spend EXCEPT !.at = ThisBlock, !.same = TRUE]
  /\ UNCHANGED <<rowVars, taskVars, tip, mrh, revealed, boltz, restarts>>

SpendVisible ==
  /\ spend.at = "sent"
  /\ spend' = [spend EXCEPT !.at = "mempool"]
  /\ UNCHANGED <<rowVars, taskVars, tip, lockup, mrh, revealed, boltz, restarts>>

SpendMined ==
  /\ lockup.at \in {"mined", "late"} /\ spend.at = "mempool"
  /\ spend' = [spend EXCEPT !.at = ThisBlock]
  /\ UNCHANGED <<rowVars, taskVars, tip, lockup, mrh, revealed, boltz, restarts>>

BoltzRefunds ==
  /\ tip = "expired" /\ lockup.at # "none" /\ spend.by = NoTx
  /\ spend' = [by |-> Refund, at |-> "mempool", same |-> FALSE]
  /\ boltz' = "gone"
  /\ UNCHANGED <<rowVars, taskVars, tip, lockup, mrh, revealed, restarts>>

\* The invoice or the swap expired, and Boltz saw no claim
BoltzGivesUp ==
  /\ row.state # "None" /\ boltz = "open"
  /\ lockup.at = "none" \/ tip = "expired"
  /\ spend.at \in {"none", "sent"}
  /\ boltz' = "gone"
  /\ UNCHANGED <<rowVars, taskVars, tip, lockup, spend, mrh, revealed, restarts>>

PayMrh ==
  /\ "mrh" \in Payers
  /\ row.state # "None" /\ mrh = "none"
  /\ mrh' = "mempool"
  /\ UNCHANGED <<rowVars, taskVars, tip, lockup, spend, revealed, boltz, restarts>>

MrhMined ==
  /\ mrh = "mempool"
  /\ mrh' = ThisBlock
  /\ UNCHANGED <<rowVars, taskVars, tip, lockup, spend, revealed, boltz, restarts>>

-----------------------------------------------------------------------------

Init ==
  /\ row = NoRow /\ fresh = {} /\ grace = FALSE
  /\ claiming = FALSE
  /\ pc = [t \in Tasks |-> "idle"]
  /\ copy = [t \in Tasks |-> NoRow]
  /\ view = [t \in Tasks |-> NoView]
  /\ restarts = 0
  /\ tip = "open"
  /\ lockup = [id |-> NoTx, enough |-> FALSE, rbf |-> FALSE, at |-> "none"]
  /\ spend = [by |-> NoTx, at |-> "none", same |-> FALSE]
  /\ mrh = "none" /\ revealed = FALSE /\ boltz = "open"

StatusStep ==
  \/ TransactionMempool \/ TransactionConfirmed \/ SwapFailed
  \/ VerifyMempoolLockup \/ VerifyConfirmedLockup

RescanStep == ClaimConfirmedLockups \/ NoNewBlock \/ VerifyRowLockup

ClaimStep(t) ==
  \/ VerifyFails(t) \/ BeginClaim(t) \/ SetClaimAddress(t)
  \/ \E k \in ClaimTxs : SetClaimTxId(t, k)
  \/ BuildFails(t) \/ BroadcastClaim(t) \/ UnsetClaimTxId(t)

RecoveryStep(t) ==
  ListRecoverable(t) \/ ScanWallet(t) \/ RecoverSwap(t) \/ RecoveryFails(t) \/ SaveRecovered(t)

Environment ==
  \/ Restart \/ GracePeriodEnds \/ TimeoutHeightReached
  \/ BoltzLocks \/ LockupReplaced \/ LockupMined \/ LockupAndSpendMined \/ SpendVisible
  \/ SpendMined \/ BoltzRefunds \/ BoltzGivesUp \/ PayMrh \/ MrhMined

Next ==
  \/ ReceivePayment
  \/ StatusStep
  \/ RescanStep
  \/ \E t \in {Blocks, Status} : ClaimStep(t)
  \/ \E t \in Syncs \cup {Blocks} : RecoveryStep(t)
  \/ Environment

Spec == Init /\ [][Next]_vars

(***************************************************************************)
(* Fairness. The block task runs in a loop: its steps are taken, new       *)
(* blocks come, and a network call that is made again and again is at some *)
(* time answered, in whichever task. A claim that began ends. A broadcast  *)
(* tx propagates. Nothing is assumed of sync() or of status updates.       *)
(***************************************************************************)
Fairness ==
  /\ WF_vars(ListRecoverable(Blocks)) /\ WF_vars(RecoveryStep(Blocks))
  /\ SF_vars(ScanWallet(Blocks)) /\ SF_vars(RecoverSwap(Blocks))
  /\ SF_vars(CopyIsFresh(Blocks) /\ SaveRecovered(Blocks))
  /\ SF_vars(ClaimConfirmedLockups) /\ SF_vars(VerifyRowLockup)
  /\ \A t \in {Blocks, Status} : WF_vars(ClaimStep(t))
  /\ SF_vars(\E t \in {Blocks, Status} : SetClaimAddress(t))
  /\ SF_vars(\E t \in {Blocks, Status}, k \in ClaimTxs : SetClaimTxId(t, k))
  /\ SF_vars(\E t \in {Blocks, Status} : BroadcastClaim(t))
  /\ WF_vars(GracePeriodEnds) /\ WF_vars(SpendVisible)

FairSpec == Spec /\ Fairness

-----------------------------------------------------------------------------
(* Properties. *)

PCs == {"idle", "mempool", "confirmed", "claim", "build", "broadcast",
        "scan", "recover", "save", "rescan", "verify"}

Places == {"none", "mempool", "mined", "late"}

Views == [txs: SUBSET (ClaimTxs \cup {MrhTx}), recent: BOOLEAN, expired: BOOLEAN]

\* Every variable stays in its domain: the columns hold what the schema and the handlers allow.
TypeOK ==
  /\ row \in Rows /\ fresh \subseteq Tasks
  /\ grace \in BOOLEAN /\ claiming \in BOOLEAN
  /\ pc \in [Tasks -> PCs] /\ copy \in [Tasks -> Rows] /\ view \in [Tasks -> Views]
  /\ restarts \in 0..MaxRestarts /\ tip \in {"open", "expired"}
  /\ lockup \in [id: {Lockup, Replacement, NoTx}, enough: BOOLEAN, rbf: BOOLEAN, at: Places]
  /\ spend \in [by: ClaimTxs \cup {Refund, NoTx}, at: Places \cup {"sent"}, same: BOOLEAN]
  /\ mrh \in Places /\ revealed \in BOOLEAN /\ boltz \in {"open", "gone"}

Claimed == spend.by \in ClaimTxs

\* The preimage leaves the wallet, for Boltz's signature of a claim tx, only when the lockup pays
\* what was agreed and is either confirmed or cannot be replaced (verify_lockup_tx_status,
\* verify_lockup_tx_amount, zero-conf).
PreimageOnlyForFunds ==
  revealed =>
    /\ lockup.enough
    /\ \/ lockup.at \in {"mined", "late"}
       \/ lockup.at = "mempool" /\ Small /\ ~lockup.rbf

\* The id of a claim tx that reached the network stays in the row: no unset, stale copy or early
\* recovery erases it while the swap runs (should_skip_recovery, the version check).
ClaimNotForgotten == Claimed /\ tip = "open" => row.claim = spend.by

\* A payment is reported Complete only when its claim or its MRH tx is confirmed.
CompleteMeansReceived ==
  row.state = "Complete" =>
    \/ Claimed /\ row.claim = spend.by /\ IsConfirmed(spend.at)
    \/ row.mrh /\ IsConfirmed(mrh)

\* What is due, and stays: confirmed, or of a small amount and not replaceable
Due == lockup.enough /\ (lockup.at \in {"mined", "late"} \/ (lockup.at = "mempool" /\ Small /\ ~lockup.rbf))

\* The payment keeps what SwapPromise says: the preimage is exchanged for a lockup that is due, a
\* payment is Complete only when its claim or its MRH payment is confirmed, and Complete is final:
\* no late status, failed verification or recovery takes it back.
Promise == INSTANCE SwapPromise WITH
  Direct  <- TRUE,
  shown   <- CASE row.state = "Complete" -> "complete" [] row.state = "Failed" -> "failed" [] OTHER -> "open",
  offered <- Due,
  secret  <- revealed,
  earned  <- (Claimed /\ IsConfirmed(spend.at)) \/ IsConfirmed(mrh),
  left    <- FALSE
KeepsPromise == Promise!Spec

\* A confirmed lockup of the agreed amount is claimed before its timeout, even if no status
\* update arrives and a crash left the id of a claim tx that never was sent (on_liquid_block,
\* recovery). A swap completed by MRH is left alone.
LockupIsClaimed ==
  (row.state \in list_ongoing /\ lockup.at = "mined" /\ lockup.enough)
    ~> (Claimed \/ tip # "open" \/ row.state = "Complete")

\* A claim that is confirmed in time completes the swap by recovery alone. So does an MRH payment,
\* unless Boltz fails or locks up the swap meanwhile.
PaidBecomesComplete ==
  /\ (row.state \in list_ongoing /\ Claimed /\ spend.at = "mined") ~> row.state = "Complete"
  /\ (row.state \in list_ongoing /\ mrh = "mined")
       ~> (row.state = "Complete" \/ boltz = "gone" \/ lockup.at # "none")

(***************************************************************************)
(* What comments of the code say and a run refutes.                        *)
(***************************************************************************)

\* model.rs, on Failed: "the swap failed for any reason and the Receive could not complete". So
\* a swap whose money has arrived must not become Failed.
ReceivedIsNotFailed ==
  [][ (row.state # "Failed" /\ row'.state = "Failed")
        => ~(Claimed /\ IsConfirmed(spend.at)) /\ ~IsConfirmed(mrh) ]_vars
=============================================================================
