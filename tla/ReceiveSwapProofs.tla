------------------------- MODULE ReceiveSwapProofs -------------------------
(***************************************************************************)
(* For any number of sync() calls, claim txs and restarts, with lost       *)
(* answers, underpaying and replaced lockups: a claim tx, and with it the  *)
(* preimage, leaves the wallet only for a lockup that was verified, and a  *)
(* swap is Complete only when its money arrived. It keeps its promise.     *)
(***************************************************************************)
EXTENDS ReceiveSwap, TLAPS

\* The lockup pays what was agreed and cannot be taken away before the timeout
Verified ==
  /\ lockup.enough
  /\ \/ lockup.at \in {"mined", "late"}
     \/ lockup.at = "mempool" /\ Small /\ ~lockup.rbf

\* A task that claims verified the lockup before it started
ClaimersVerified ==
  \A t \in Tasks : pc[t] \in {"claim", "build", "broadcast"} => Verified

\* The inductive invariant
IInv == TypeOK /\ ClaimersVerified /\ PreimageOnlyForFunds

-----------------------------------------------------------------------------
(* Types. *)

LEMMA NoRowType == NoRow \in Rows /\ NoView \in Views
  BY DEF NoRow, Rows, States, NoView, Views

LEMMA LeaveType ==
  ASSUME TypeOK, NEW t \in Tasks, Leave(t)
  PROVE  pc' \in [Tasks -> PCs] /\ copy' \in [Tasks -> Rows]
  BY NoRowType DEF TypeOK, Leave, Goto, PCs

LEMMA KeepType ==
  ASSUME TypeOK, NEW t \in Tasks, NEW r \in Rows, NEW label \in PCs, Keep(t, r, label)
  PROVE  pc' \in [Tasks -> PCs] /\ copy' \in [Tasks -> Rows]
  BY DEF TypeOK, Keep, Goto

LEMMA UpdateSwapInfoType ==
  ASSUME TypeOK, NEW to \in States, NEW l \in {Lockup, Replacement, NoTx}, update_swap_info(to, l)
  PROVE  row' \in Rows /\ fresh' \subseteq Tasks /\ grace' \in BOOLEAN
<1>1. [row EXCEPT !.state = to, !.lockup = IF @ = NoTx THEN l ELSE @] \in Rows
  BY DEF TypeOK, Rows
<1> QED
  BY <1>1 DEF TypeOK, update_swap_info, UpdateRow, rowVars

LEMMA StatusStepType ==
  ASSUME TypeOK, StatusStep
  PROVE  TypeOK'
<1> USE DEF TypeOK
<1>0. Status \in Tasks /\ NoTx \in {Lockup, Replacement, NoTx} /\ {"Pending", "Failed"} \subseteq States
  BY DEF Tasks, States
<1>1. CASE TransactionMempool
  BY <1>0, <1>1 DEF TransactionMempool, Goto, PCs, rowVars, chainVars
<1>2. CASE TransactionConfirmed
  <2>1. [NoRow EXCEPT !.claim = row.claim] \in Rows
    BY DEF NoRow, Rows, States
  <2>2. pc' \in [Tasks -> PCs] /\ copy' \in [Tasks -> Rows]
    BY <1>0, <1>2, <2>1, KeepType DEF TransactionConfirmed, PCs
  <2> QED
    BY <1>2, <2>2 DEF TransactionConfirmed, rowVars, chainVars
<1>3. CASE SwapFailed
  <2>1. row' \in Rows /\ fresh' \subseteq Tasks /\ grace' \in BOOLEAN
    BY <1>0, <1>3, UpdateSwapInfoType DEF SwapFailed
  <2> QED
    BY <1>3, <2>1 DEF SwapFailed, taskVars, chainVars
<1>4. CASE VerifyMempoolLockup
  <2>1. row' \in Rows /\ fresh' \subseteq Tasks /\ grace' \in BOOLEAN
    BY <1>0, <1>4, UpdateSwapInfoType DEF VerifyMempoolLockup
  <2>2. Leave(Status) => pc' \in [Tasks -> PCs] /\ copy' \in [Tasks -> Rows]
    BY <1>0, LeaveType
  <2>3. pc' \in [Tasks -> PCs] /\ copy' \in [Tasks -> Rows]
    BY <1>0, <1>4, <2>2 DEF VerifyMempoolLockup, Goto, PCs
  <2> QED
    BY <1>4, <2>1, <2>3 DEF VerifyMempoolLockup, chainVars
<1>5. CASE VerifyConfirmedLockup
  <2>1. row' \in Rows /\ fresh' \subseteq Tasks /\ grace' \in BOOLEAN
    <3>1. update_swap_info("Failed", NoTx) => row' \in Rows /\ fresh' \subseteq Tasks /\ grace' \in BOOLEAN
      BY <1>0, UpdateSwapInfoType
    <3>2. update_swap_info("Pending", NoTx) => row' \in Rows /\ fresh' \subseteq Tasks /\ grace' \in BOOLEAN
      BY <1>0, UpdateSwapInfoType
    <3> QED
      BY <1>5, <3>1, <3>2 DEF VerifyConfirmedLockup, rowVars
  <2>2. Leave(Status) => pc' \in [Tasks -> PCs] /\ copy' \in [Tasks -> Rows]
    BY <1>0, LeaveType
  <2>3. pc' \in [Tasks -> PCs] /\ copy' \in [Tasks -> Rows]
    BY <1>0, <1>5, <2>2 DEF VerifyConfirmedLockup, Goto, PCs
  <2> QED
    BY <1>5, <2>1, <2>3 DEF VerifyConfirmedLockup, chainVars
<1> QED
  BY <1>1, <1>2, <1>3, <1>4, <1>5 DEF StatusStep

LEMMA RescanStepType ==
  ASSUME TypeOK, RescanStep
  PROVE  TypeOK'
<1> USE DEF TypeOK
<1>0. Blocks \in Tasks /\ {"claim", "verify"} \subseteq PCs
  BY DEF Tasks, PCs
<1>1. CASE ClaimConfirmedLockups
  <2>1. [NoRow EXCEPT !.lockup = row.lockup] \in Rows
    BY DEF NoRow, Rows, States
  <2>2. pc' \in [Tasks -> PCs] /\ copy' \in [Tasks -> Rows]
    BY <1>0, <1>1, <2>1, KeepType, LeaveType DEF ClaimConfirmedLockups
  <2> QED
    BY <1>1, <2>2 DEF ClaimConfirmedLockups, rowVars, chainVars
<1>2. CASE NoNewBlock
  BY <1>0, <1>2, LeaveType DEF NoNewBlock, rowVars, chainVars
<1>3. CASE VerifyRowLockup
  <2>1. update_swap_info("Failed", NoTx) => row' \in Rows /\ fresh' \subseteq Tasks /\ grace' \in BOOLEAN
    BY UpdateSwapInfoType DEF States
  <2>2. Keep(Blocks, NoRow, "claim") => pc' \in [Tasks -> PCs] /\ copy' \in [Tasks -> Rows]
    BY <1>0, KeepType, NoRowType
  <2>3. Leave(Blocks) => pc' \in [Tasks -> PCs] /\ copy' \in [Tasks -> Rows]
    BY <1>0, LeaveType
  <2>4. /\ row' \in Rows /\ fresh' \subseteq Tasks /\ grace' \in BOOLEAN
        /\ pc' \in [Tasks -> PCs] /\ copy' \in [Tasks -> Rows]
    BY <1>3, <2>1, <2>2, <2>3 DEF VerifyRowLockup, rowVars
  <2> QED
    BY <1>3, <2>4 DEF VerifyRowLockup, chainVars
<1> QED
  BY <1>1, <1>2, <1>3 DEF RescanStep

LEMMA ClaimStepType ==
  ASSUME TypeOK, NEW t \in {Blocks, Status}, ClaimStep(t)
  PROVE  TypeOK'
<1> USE DEF TypeOK
<1>0. t \in Tasks
  BY DEF Tasks
<1>00. Leave(t) => pc' \in [Tasks -> PCs] /\ copy' \in [Tasks -> Rows]
  BY <1>0, LeaveType
<1>1. CASE VerifyFails(t)
  BY <1>1, <1>00 DEF VerifyFails, rowVars, chainVars
<1>2. CASE BeginClaim(t)
  <2>1. [NoRow EXCEPT !.addr = row.addr] \in Rows /\ "build" \in PCs
    BY DEF NoRow, Rows, States, PCs
  <2>2. pc' \in [Tasks -> PCs] /\ copy' \in [Tasks -> Rows]
    BY <1>0, <1>00, <1>2, <2>1, KeepType DEF BeginClaim
  <2> QED
    BY <1>2, <2>2 DEF BeginClaim, rowVars, chainVars
<1>3. CASE SetClaimAddress(t)
  <2>1. [copy[t] EXCEPT !.addr = TRUE] \in Rows /\ [row EXCEPT !.addr = TRUE] \in Rows
    BY <1>0 DEF Rows
  <2> QED
    BY <1>0, <1>3, <2>1 DEF SetClaimAddress, UpdateRow, chainVars
<1>4. ASSUME NEW k \in ClaimTxs, SetClaimTxId(t, k)
      PROVE  TypeOK'
  <2>1. [copy[t] EXCEPT !.claim = k] \in Rows /\ [row EXCEPT !.claim = k] \in Rows
    BY <1>0 DEF Rows
  <2>2. CASE row.claim = NoTx
    BY <1>0, <1>4, <2>1, <2>2 DEF SetClaimTxId, UpdateRow, Goto, PCs, chainVars
  <2>3. CASE row.claim # NoTx
    BY <1>00, <1>4, <2>3 DEF SetClaimTxId, EndClaim, rowVars, chainVars
  <2> QED
    BY <2>2, <2>3
<1>5. CASE BuildFails(t)
  BY <1>00, <1>5 DEF BuildFails, EndClaim, rowVars, chainVars
<1>6. copy[t].claim \in ClaimTxs \cup {NoTx}
  BY <1>0 DEF Rows
<1>7. Sent(t) => spend' \in [by: ClaimTxs \cup {Refund, NoTx}, at: Places \cup {"sent"}, same: BOOLEAN]
  BY <1>6 DEF Sent
<1>8. CASE BroadcastClaim(t)
  BY <1>00, <1>7, <1>8 DEF BroadcastClaim, EndClaim, rowVars
<1>9. CASE UnsetClaimTxId(t)
  <2>1. [row EXCEPT !.claim = NoTx] \in Rows
    BY DEF Rows
  <2>2. row' \in Rows /\ fresh' \subseteq Tasks /\ grace' \in BOOLEAN
    BY <1>9, <2>1 DEF UnsetClaimTxId, UpdateRow, rowVars
  <2> QED
    BY <1>00, <1>7, <1>9, <2>2 DEF UnsetClaimTxId, EndClaim
<1> QED
  BY <1>1, <1>2, <1>3, <1>4, <1>5, <1>8, <1>9 DEF ClaimStep

\* Recovery finds ids that the columns can hold.
LEMMA RecoveredType ==
  ASSUME TypeOK, NEW s \in Rows, NEW v \in Views, NEW lockupFirst \in BOOLEAN
  PROVE  Recovered(s, v, lockupFirst) \in Rows
<1> DEFINE found    == determine_incoming_lockup_and_claim_txs(v.txs, lockupFirst)
           mrhFound == found[1] = NoTx /\ MrhTx \in v.txs /\ InHistory(mrh)
           d        == derive_partial_state(s.state, found[1], found[2], mrhFound, v.expired)
<1>1. /\ found[1] \in ClaimTxs \cup {Lockup, Replacement, Refund, NoTx}
      /\ found[2] \in ClaimTxs \cup {NoTx}
  BY TxsAssumption DEF determine_incoming_lockup_and_claim_txs, InHistory, TypeOK, Views
<1>2. mrhFound \in BOOLEAN
  BY DEF InHistory
<1>3. d \in States
  <2> HIDE DEF found, mrhFound
  <2> QED
    BY <1>2 DEF derive_partial_state, States, Rows
<1>4. CASE should_skip_recovery(s, v.recent, found[2])
  BY <1>4 DEF Recovered
<1>5. CASE ~should_skip_recovery(s, v.recent, found[2])
  <2>1. Recovered(s, v, lockupFirst)
          = [s EXCEPT !.state = d, !.lockup = found[1], !.claim = found[2], !.mrh = mrhFound]
    BY <1>5 DEF Recovered
  <2> HIDE DEF found, mrhFound, d
  <2> QED
    BY <1>1, <1>2, <1>3, <2>1 DEF Rows
<1> QED
  BY <1>4, <1>5

LEMMA RecoveryStepType ==
  ASSUME TypeOK, NEW t \in Tasks, RecoveryStep(t)
  PROVE  TypeOK'
<1> USE DEF TypeOK
<1>0. AfterRecovery(t) => /\ pc' \in [Tasks -> PCs] /\ copy' \in [Tasks -> Rows]
                          /\ view' \in [Tasks -> Views]
  BY NoRowType DEF AfterRecovery, Goto, PCs
<1>1. CASE ListRecoverable(t)
  <2>1. [NoView EXCEPT !.expired = tip = "expired"] \in Views
    BY DEF NoView, Views
  <2>2. view' \in [Tasks -> Views]
    BY <1>1, <2>1 DEF ListRecoverable
  <2>3. Keep(t, row, "scan") => pc' \in [Tasks -> PCs] /\ copy' \in [Tasks -> Rows]
    BY KeepType DEF PCs
  <2>4. pc' \in [Tasks -> PCs] /\ copy' \in [Tasks -> Rows] /\ fresh' \subseteq Tasks
    BY <1>1, <2>3 DEF ListRecoverable, Goto, PCs
  <2> QED
    BY <1>1, <2>2, <2>4 DEF ListRecoverable, chainVars
<1>2. CASE ScanWallet(t)
  <2>1. IncomingTxs \in SUBSET (ClaimTxs \cup {MrhTx}) /\ view[t] \in Views
    BY DEF IncomingTxs
  <2>2. [view[t] EXCEPT !.txs = IncomingTxs, !.recent = grace] \in Views
    BY <2>1 DEF Views
  <2> QED
    BY <1>2, <2>2 DEF ScanWallet, Goto, PCs, rowVars, chainVars
<1>3. CASE RecoverSwap(t)
  <2>1. \A lockupFirst \in BOOLEAN : Recovered(copy[t], view[t], lockupFirst) \in Rows
    BY RecoveredType
  <2>2. copy' \in [Tasks -> Rows]
    BY <1>3, <2>1 DEF RecoverSwap
  <2> QED
    BY <1>3, <2>2, NoRowType DEF RecoverSwap, Goto, PCs, rowVars, chainVars
<1>4. CASE RecoveryFails(t)
  BY <1>0, <1>4 DEF RecoveryFails, chainVars
<1>5. CASE SaveRecovered(t)
  <2>1. CASE copy[t] # row /\ CopyIsFresh(t)
    <3>1. row' = copy[t] /\ fresh' = {} /\ grace' = TRUE
      BY <1>5, <2>1 DEF SaveRecovered, UpdateRow
    <3> QED
      BY <3>1, <1>0, <1>5 DEF SaveRecovered, chainVars
  <2>2. CASE ~(copy[t] # row /\ CopyIsFresh(t))
    <3>1. row' = row /\ fresh' = fresh \ {t} /\ grace' = grace
      BY <1>5, <2>2 DEF SaveRecovered
    <3> QED
      BY <3>1, <1>0, <1>5 DEF SaveRecovered, chainVars
  <2> QED
    BY <2>1, <2>2
<1> QED
  BY <1>1, <1>2, <1>3, <1>4, <1>5 DEF RecoveryStep

LEMMA EnvironmentType ==
  ASSUME TypeOK, Environment
  PROVE  TypeOK'
<1> USE DEF TypeOK
<1>1. CASE Restart
  <2>1. restarts' \in 0..MaxRestarts
    BY <1>1, BoundsAssumption DEF Restart
  <2>2. pc' \in [Tasks -> PCs] /\ copy' \in [Tasks -> Rows] /\ view' \in [Tasks -> Views]
    BY <1>1, NoRowType DEF Restart, PCs
  <2> QED
    BY <1>1, <2>1, <2>2 DEF Restart, chainVars
<1>2. CASE GracePeriodEnds \/ TimeoutHeightReached
  BY <1>2 DEF GracePeriodEnds, TimeoutHeightReached, rowVars, taskVars, chainVars
<1>3. CASE BoltzLocks \/ LockupReplaced
  <2>1. lockup' \in [id: {Lockup, Replacement, NoTx}, enough: BOOLEAN, rbf: BOOLEAN, at: Places]
    BY <1>3 DEF BoltzLocks, LockupReplaced, LockupTxs, Places
  <2> QED
    BY <1>3, <2>1 DEF BoltzLocks, LockupReplaced, rowVars, taskVars
<1>4. CASE LockupMined \/ LockupAndSpendMined
  BY <1>4 DEF LockupMined, LockupAndSpendMined, ThisBlock, Places, rowVars, taskVars
<1>5. CASE SpendVisible \/ SpendMined \/ BoltzRefunds
  <2>1. spend' \in [by: ClaimTxs \cup {Refund, NoTx}, at: Places \cup {"sent"}, same: BOOLEAN]
    <3>1. CASE SpendVisible
      BY <3>1 DEF SpendVisible, Places
    <3>2. CASE SpendMined
      BY <3>2 DEF SpendMined, ThisBlock, Places
    <3>3. CASE BoltzRefunds
      BY <3>3 DEF BoltzRefunds, Places
    <3> QED
      BY <1>5, <3>1, <3>2, <3>3
  <2>2. boltz' \in {"open", "gone"}
    BY <1>5 DEF SpendVisible, SpendMined, BoltzRefunds
  <2> QED
    BY <1>5, <2>1, <2>2 DEF SpendVisible, SpendMined, BoltzRefunds, rowVars, taskVars
<1>6. CASE BoltzGivesUp \/ PayMrh \/ MrhMined
  BY <1>6 DEF BoltzGivesUp, PayMrh, MrhMined, ThisBlock, Places, rowVars, taskVars
<1> QED
  BY <1>1, <1>2, <1>3, <1>4, <1>5, <1>6 DEF Environment

LEMMA InitType == Init => TypeOK
<1> SUFFICES ASSUME Init
             PROVE  TypeOK
  OBVIOUS
<1>1. row \in Rows /\ fresh \subseteq Tasks /\ grace \in BOOLEAN /\ claiming \in BOOLEAN
  BY NoRowType DEF Init
<1>2. pc \in [Tasks -> PCs] /\ copy \in [Tasks -> Rows] /\ view \in [Tasks -> Views]
  BY NoRowType DEF Init, PCs
<1>3. restarts \in 0..MaxRestarts /\ tip \in {"open", "expired"}
  BY BoundsAssumption DEF Init
<1>4. /\ lockup \in [id: {Lockup, Replacement, NoTx}, enough: BOOLEAN, rbf: BOOLEAN, at: Places]
      /\ spend \in [by: ClaimTxs \cup {Refund, NoTx}, at: Places \cup {"sent"}, same: BOOLEAN]
      /\ mrh \in Places /\ revealed \in BOOLEAN /\ boltz \in {"open", "gone"}
  BY DEF Init, Places
<1> QED
  BY <1>1, <1>2, <1>3, <1>4 DEF TypeOK

LEMMA NextType ==
  ASSUME TypeOK, [Next]_vars
  PROVE  TypeOK'
<1>1. CASE ReceivePayment
  <2>1. [NoRow EXCEPT !.state = "Created"] \in Rows
    BY NoRowType DEF Rows, States
  <2> QED
    BY <1>1, <2>1 DEF ReceivePayment, TypeOK, UpdateRow, taskVars, chainVars
<1>2. CASE StatusStep
  BY <1>2, StatusStepType
<1>3. CASE RescanStep
  BY <1>3, RescanStepType
<1>4. CASE \E t \in {Blocks, Status} : ClaimStep(t)
  BY <1>4, ClaimStepType
<1>5. CASE \E t \in Syncs \cup {Blocks} : RecoveryStep(t)
  BY <1>5, RecoveryStepType DEF Tasks
<1>6. CASE Environment
  BY <1>6, EnvironmentType
<1>7. CASE UNCHANGED vars
  BY <1>7 DEF TypeOK, vars, rowVars, taskVars, chainVars
<1> QED
  BY <1>1, <1>2, <1>3, <1>4, <1>5, <1>6, <1>7 DEF Next

\* For any tasks, claim txs and number of restarts, every variable stays in its domain (the
\* schema's columns and the handlers' control states).
THEOREM TypeCorrect == Spec => []TypeOK
<1>1. Init => TypeOK
  BY InitType
<1>2. TypeOK /\ [Next]_vars => TypeOK'
  BY NextType
<1> QED
  BY <1>1, <1>2, PTL DEF Spec

-----------------------------------------------------------------------------
(* The preimage. *)

Claimers == {"claim", "build", "broadcast"}

\* Only an unverified lockup can still be replaced; the others can only be mined.
LEMMA VerifiedStable ==
  ASSUME TypeOK, Verified, [Next]_vars
  PROVE  Verified'
<1> USE DEF Verified
<1>1. CASE BoltzLocks
  BY <1>1 DEF BoltzLocks
<1>2. CASE LockupReplaced
  BY <1>2 DEF LockupReplaced
<1>3. CASE LockupMined \/ LockupAndSpendMined
  <2>1. lockup' = [lockup EXCEPT !.at = ThisBlock]
    BY <1>3 DEF LockupMined, LockupAndSpendMined
  <2>2. lockup'.enough = lockup.enough /\ lockup'.at \in {"mined", "late"}
    BY <2>1 DEF TypeOK, ThisBlock
  <2> QED
    BY <2>2
<1>4. CASE UNCHANGED lockup
  BY <1>4
<1>5. \/ BoltzLocks \/ LockupReplaced \/ LockupMined \/ LockupAndSpendMined
      \/ UNCHANGED lockup
  <2> USE DEF chainVars
  <2>1. StatusStep => UNCHANGED lockup
    BY DEF StatusStep, TransactionMempool, TransactionConfirmed, SwapFailed,
           VerifyMempoolLockup, VerifyConfirmedLockup
  <2>2. RescanStep => UNCHANGED lockup
    BY DEF RescanStep, ClaimConfirmedLockups, NoNewBlock, VerifyRowLockup
  <2>3. ASSUME NEW t \in Tasks, ClaimStep(t) PROVE UNCHANGED lockup
    BY <2>3 DEF ClaimStep, VerifyFails, BeginClaim, SetClaimAddress, SetClaimTxId, BuildFails,
           BroadcastClaim, UnsetClaimTxId
  <2>4. ASSUME NEW t \in Tasks, RecoveryStep(t) PROVE UNCHANGED lockup
    BY <2>4 DEF RecoveryStep, ListRecoverable, ScanWallet, RecoverSwap, RecoveryFails, SaveRecovered
  <2>5. Environment => \/ BoltzLocks \/ LockupReplaced \/ LockupMined \/ LockupAndSpendMined
                       \/ UNCHANGED lockup
    BY DEF Environment, Restart, GracePeriodEnds, TimeoutHeightReached, SpendVisible, SpendMined,
           BoltzRefunds, BoltzGivesUp, PayMrh, MrhMined
  <2>6. ReceivePayment \/ UNCHANGED vars => UNCHANGED lockup
    BY DEF ReceivePayment, vars
  <2> QED
    BY <2>1, <2>2, <2>3, <2>4, <2>5, <2>6 DEF Next, Tasks
<1> QED
  BY <1>1, <1>2, <1>3, <1>4, <1>5

\* A task comes to a claim by a verification, and only by one.
LEMMA ClaimersStep ==
  ASSUME TypeOK, ClaimersVerified, [Next]_vars
  PROVE  ClaimersVerified'
<1> SUFFICES ASSUME NEW c \in Tasks, pc'[c] \in Claimers
             PROVE  Verified
  BY VerifiedStable DEF ClaimersVerified, Claimers
<1> USE DEF Claimers
<1>1. CASE pc[c] \in Claimers
  BY <1>1 DEF ClaimersVerified
<1>2. CASE pc[c] \notin Claimers
  <2> SUFFICES ASSUME pc' # pc, pc'[c] # pc[c]
               PROVE  Verified
    BY <1>2
  <2> USE DEF TypeOK, Goto, Leave, Keep
  <2>1. CASE StatusStep
    <3>1. CASE VerifyMempoolLockup
      <4>1. EnoughLocked /\ AcceptsZeroConf /\ lockup.at # "none"
        BY <3>1, <1>2 DEF VerifyMempoolLockup
      <4> QED
        BY <4>1 DEF EnoughLocked, AcceptsZeroConf, Verified, Places
    <3>2. CASE VerifyConfirmedLockup
      BY <3>2, <1>2 DEF VerifyConfirmedLockup, EnoughLocked, IsConfirmed, Verified
    <3> QED
      BY <1>2, <2>1, <3>1, <3>2
      DEF StatusStep, TransactionMempool, TransactionConfirmed, SwapFailed, taskVars
  <2>2. CASE RescanStep
    <3>1. CASE VerifyRowLockup
      BY <3>1, <1>2 DEF VerifyRowLockup, EnoughLocked, IsConfirmed, Verified
    <3> QED
      BY <1>2, <2>2, <3>1 DEF RescanStep, ClaimConfirmedLockups, NoNewBlock
  <2>3. ASSUME NEW t \in Tasks, ClaimStep(t) PROVE Verified
    BY <1>2, <2>3 DEF ClaimStep, VerifyFails, BeginClaim, SetClaimAddress, SetClaimTxId, BuildFails,
       BroadcastClaim, UnsetClaimTxId, EndClaim
  <2>4. ASSUME NEW t \in Tasks, RecoveryStep(t) PROVE Verified
    BY <1>2, <2>4 DEF RecoveryStep, ListRecoverable, ScanWallet, RecoverSwap, RecoveryFails,
       SaveRecovered, AfterRecovery
  <2>5. CASE Environment
    BY <1>2, <2>5 DEF Environment, Restart, GracePeriodEnds, TimeoutHeightReached, BoltzLocks,
       LockupReplaced, LockupMined, LockupAndSpendMined, SpendVisible, SpendMined, BoltzRefunds,
       BoltzGivesUp, PayMrh, MrhMined, taskVars
  <2>6. CASE ReceivePayment \/ UNCHANGED vars
    BY <2>6 DEF ReceivePayment, vars, taskVars
  <2> QED
    BY <2>1, <2>2, <2>3, <2>4, <2>5, <2>6 DEF Next, Tasks
<1> QED
  BY <1>1, <1>2

\* The preimage leaves the wallet when a claim tx is built, and only then.
LEMMA RevealedStep ==
  ASSUME [Next]_vars, revealed' # revealed
  PROVE  \E t \in Tasks : pc[t] = "build"
<1> USE DEF chainVars
<1>1. StatusStep => UNCHANGED revealed
  BY DEF StatusStep, TransactionMempool, TransactionConfirmed, SwapFailed,
         VerifyMempoolLockup, VerifyConfirmedLockup
<1>2. RescanStep => UNCHANGED revealed
  BY DEF RescanStep, ClaimConfirmedLockups, NoNewBlock, VerifyRowLockup
<1>3. ASSUME NEW t \in Tasks, ClaimStep(t) PROVE pc[t] = "build"
  BY <1>3 DEF ClaimStep, VerifyFails, BeginClaim, SetClaimAddress, SetClaimTxId, BuildFails,
         BroadcastClaim, UnsetClaimTxId
<1>4. ASSUME NEW t \in Tasks, RecoveryStep(t) PROVE UNCHANGED revealed
  BY <1>4 DEF RecoveryStep, ListRecoverable, ScanWallet, RecoverSwap, RecoveryFails, SaveRecovered
<1>5. Environment => UNCHANGED revealed
  BY DEF Environment, Restart, GracePeriodEnds, TimeoutHeightReached, BoltzLocks, LockupReplaced,
         LockupMined, LockupAndSpendMined, SpendVisible, SpendMined, BoltzRefunds, BoltzGivesUp,
         PayMrh, MrhMined
<1>6. ReceivePayment \/ UNCHANGED vars => UNCHANGED revealed
  BY DEF ReceivePayment, vars
<1> QED
  BY <1>1, <1>2, <1>3, <1>4, <1>5, <1>6 DEF Next, Tasks

\* For any tasks, claim txs and restarts, and whatever Boltz locks up: the preimage leaves the
\* wallet only for a lockup of the agreed amount that is confirmed, or that is small enough and
\* does not signal RBF. The handlers check this one await after another; the proof shows that
\* what they checked still holds when the claim tx is built.
THEOREM PreimageNeedsFunds == Spec => []PreimageOnlyForFunds
<1>1. Init => IInv
  <2>1. Init => ClaimersVerified /\ PreimageOnlyForFunds
    BY DEF Init, ClaimersVerified, PreimageOnlyForFunds
  <2> QED
    BY <2>1, InitType DEF IInv
<1>2. IInv /\ [Next]_vars => IInv'
  <2> SUFFICES ASSUME IInv, [Next]_vars
               PROVE  IInv'
    OBVIOUS
  <2>1. TypeOK /\ ClaimersVerified /\ PreimageOnlyForFunds
    BY DEF IInv
  <2>2. TypeOK' /\ ClaimersVerified'
    BY <2>1, NextType, ClaimersStep
  <2>3. CASE revealed
    <3>1. Verified
      BY <2>1, <2>3 DEF PreimageOnlyForFunds, Verified
    <3>2. Verified'
      BY <2>1, <3>1, VerifiedStable
    <3> QED
      BY <2>2, <3>2 DEF IInv, PreimageOnlyForFunds, Verified
  <2>4. CASE ~revealed /\ revealed'
    <3>1. PICK t \in Tasks : pc[t] = "build"
      BY <2>4, RevealedStep
    <3>2. Verified
      BY <2>1, <3>1 DEF ClaimersVerified
    <3>3. Verified'
      BY <2>1, <3>2, VerifiedStable
    <3> QED
      BY <2>2, <3>3 DEF IInv, PreimageOnlyForFunds, Verified
  <2>5. CASE ~revealed'
    BY <2>2, <2>5 DEF IInv, PreimageOnlyForFunds
  <2> QED
    BY <2>3, <2>4, <2>5
<1>3. IInv => PreimageOnlyForFunds
  BY DEF IInv
<1> QED
  BY <1>1, <1>2, <1>3, PTL DEF Spec

-----------------------------------------------------------------------------
(* Who changes what. *)

\* A step that is one of task c's own, or that ends it.
OwnStep(c) ==
  \/ c = Status /\ StatusStep
  \/ c = Blocks /\ RescanStep
  \/ c \in {Blocks, Status} /\ ClaimStep(c)
  \/ c \in Syncs \cup {Blocks} /\ RecoveryStep(c)
  \/ Restart

\* The other steps leave what the task is doing and what it has read.
LEMMA TaskFrame ==
  ASSUME TypeOK, [Next]_vars, NEW c \in Tasks
  PROVE  OwnStep(c) \/ (pc'[c] = pc[c] /\ copy'[c] = copy[c] /\ view'[c] = view[c])
<1> DEFINE Same == pc'[c] = pc[c] /\ copy'[c] = copy[c] /\ view'[c] = view[c]
<1>0. pc \in [Tasks -> PCs] /\ copy \in [Tasks -> Rows] /\ view \in [Tasks -> Views]
  BY DEF TypeOK
<1> USE <1>0 DEF taskVars, Goto, Leave, Keep, EndClaim, AfterRecovery
<1>1. CASE ReceivePayment \/ UNCHANGED vars
  BY <1>1 DEF ReceivePayment, vars
<1>2. CASE StatusStep /\ c # Status
  BY <1>2 DEF StatusStep, TransactionMempool, TransactionConfirmed, SwapFailed, VerifyMempoolLockup,
     VerifyConfirmedLockup
<1>3. CASE RescanStep /\ c # Blocks
  BY <1>3 DEF RescanStep, ClaimConfirmedLockups, NoNewBlock, VerifyRowLockup
<1>4. ASSUME NEW t \in {Blocks, Status}, ClaimStep(t), c # t PROVE Same
  BY <1>4 DEF ClaimStep, VerifyFails, BeginClaim, SetClaimAddress, SetClaimTxId, BuildFails, BroadcastClaim,
     UnsetClaimTxId
<1>5. ASSUME NEW t \in Syncs \cup {Blocks}, RecoveryStep(t), c # t PROVE Same
  BY <1>5 DEF RecoveryStep, ListRecoverable, ScanWallet, RecoverSwap, RecoveryFails, SaveRecovered
<1>6. CASE Environment /\ ~Restart
  BY <1>6 DEF Environment, GracePeriodEnds, TimeoutHeightReached, BoltzLocks, LockupReplaced, LockupMined,
     LockupAndSpendMined, SpendVisible, SpendMined, BoltzRefunds, BoltzGivesUp, PayMrh, MrhMined
<1> QED
  BY <1>1, <1>2, <1>3, <1>4, <1>5, <1>6 DEF Next, OwnStep

Stays(c) == pc'[c] = pc[c] /\ copy'[c] = copy[c] /\ view'[c] = view[c]

\* How a task comes to where something is relied on.
Arrives(c) ==
  \/ pc'[c] \in {"idle", "mempool", "confirmed", "claim", "rescan", "verify"}
  \/ pc'[c] = "scan" /\ ListRecoverable(c) /\ row.state \in list_recoverable /\ copy'[c] = row
  \/ pc'[c] = "recover" /\ pc[c] = "scan" /\ ScanWallet(c)
  \/ pc'[c] = "save" /\ pc[c] = "recover" /\ RecoverSwap(c)
  \/ pc'[c] = "build" /\ c \in {Blocks, Status} /\ ((BeginClaim(c) /\ ~claiming) \/ SetClaimAddress(c))
  \/ pc'[c] = "broadcast" /\ c \in {Blocks, Status} /\ row.claim = NoTx /\ (\E k \in ClaimTxs : SetClaimTxId(c, k))

\* A task starts at the beginning of its work, and only for a swap that exists.
LEMMA Arrival ==
  ASSUME TypeOK, [Next]_vars, NEW c \in Tasks
  PROVE  Stays(c) \/ (Arrives(c) /\ (row.state = "None" => pc[c] # "idle" \/ pc'[c] = "idle"))
<1> DEFINE Goal == Stays(c) \/ (Arrives(c) /\ (row.state = "None" => pc[c] # "idle" \/ pc'[c] = "idle"))
<1>0. pc \in [Tasks -> PCs] /\ copy \in [Tasks -> Rows] /\ view \in [Tasks -> Views]
  BY DEF TypeOK
<1> USE DEF Arrives
<1>1. Leave(c) => pc'[c] = "idle"
  BY <1>0 DEF Leave, Goto
<1>2. \A label : Goto(c, label) => pc'[c] = label
  BY <1>0 DEF Goto
<1>3. \A r, label : Keep(c, r, label) => pc'[c] = label /\ copy'[c] = r
  BY <1>0 DEF Keep, Goto
<1>4. CASE c = Status /\ StatusStep
  <2> USE <1>1, <1>2, <1>3, <1>4
  <2>1. CASE TransactionMempool \/ TransactionConfirmed
    BY <2>1 DEF TransactionMempool, TransactionConfirmed, StatusArrives
  <2>2. CASE SwapFailed
    BY <2>2 DEF SwapFailed, taskVars, Stays
  <2>3. CASE VerifyMempoolLockup \/ VerifyConfirmedLockup
    BY <2>3 DEF VerifyMempoolLockup, VerifyConfirmedLockup
  <2> QED
    BY <2>1, <2>2, <2>3 DEF StatusStep
<1>5. CASE c = Blocks /\ RescanStep
  BY <1>1, <1>3, <1>5 DEF RescanStep, ClaimConfirmedLockups, NoNewBlock, VerifyRowLockup
<1>6. CASE c \in {Blocks, Status} /\ ClaimStep(c)
  <2> USE <1>1, <1>2, <1>3, <1>6
  <2>1. EndClaim(c) => pc'[c] = "idle"
    BY DEF EndClaim
  <2>2. CASE BeginClaim(c)
    BY <2>2 DEF BeginClaim
  <2>3. ASSUME NEW k \in ClaimTxs, SetClaimTxId(c, k) PROVE Goal
    BY <2>1, <2>3 DEF SetClaimTxId
  <2>4. CASE SetClaimAddress(c)
    BY <2>4 DEF SetClaimAddress
  <2> QED
    BY <2>1, <2>2, <2>3, <2>4 DEF ClaimStep, VerifyFails, BuildFails, BroadcastClaim, UnsetClaimTxId
<1>7. CASE c \in Syncs \cup {Blocks} /\ RecoveryStep(c)
  <2>1. AfterRecovery(c) => pc'[c] \in {"rescan", "idle"}
    BY <1>2 DEF AfterRecovery
  <2>2. ListRecoverable(c) => Goal
    BY <1>2, <1>3 DEF ListRecoverable
  <2> QED
    BY <1>2, <1>7, <2>1, <2>2 DEF RecoveryStep, ScanWallet, RecoverSwap, RecoveryFails, SaveRecovered
<1>8. CASE Restart
  BY <1>8 DEF Restart
<1> QED
  BY <1>4, <1>5, <1>6, <1>7, <1>8, TaskFrame DEF OwnStep, Stays

\* A handler that moves the swap to another state leaves the claim and the MRH payment.
Moves ==
  /\ row'.claim = row.claim /\ row'.mrh = row.mrh
  /\ row'.state = row.state \/ (<<row.state, row'.state>> \in Allowed /\ row'.state \in {"Pending", "Failed"})

ClaimWritten ==
  /\ \E t \in {Blocks, Status} : UnsetClaimTxId(t) \/ (\E k \in ClaimTxs : SetClaimTxId(t, k))
  /\ row'.state = row.state /\ row'.mrh = row.mrh
CopyWritten == \E t \in Syncs \cup {Blocks} : SaveRecovered(t) /\ t \in fresh /\ UpdateRow(copy[t])

\* update_swap_info only moves the row along.
LEMMA UpdateSwapInfoMoves ==
  ASSUME TypeOK, NEW to \in {"Pending", "Failed"}, NEW l, update_swap_info(to, l)
  PROVE  Moves
<1>1. CASE UNCHANGED rowVars
  BY <1>1 DEF rowVars, Moves
<1>2. CASE Accepts(to) /\ row' = [row EXCEPT !.state = to, !.lockup = IF @ = NoTx THEN l ELSE @]
  BY <1>2 DEF TypeOK, Rows, Accepts, Moves
<1> QED
  BY <1>1, <1>2 DEF update_swap_info, UpdateRow

\* The row changes when the swap is created, a copy is saved, a claim is written, or it moves along.
LEMMA RowFrame ==
  ASSUME TypeOK, [Next]_vars
  PROVE  ReceivePayment \/ CopyWritten \/ ClaimWritten \/ Moves
<1> USE DEF rowVars
<1>0. row \in Rows
  BY DEF TypeOK
<1>1. row' = row => Moves
  BY DEF Moves
<1>2. CASE StatusStep
  BY <1>1, <1>2, UpdateSwapInfoMoves DEF StatusStep, TransactionMempool, TransactionConfirmed, SwapFailed,
     VerifyMempoolLockup, VerifyConfirmedLockup
<1>3. CASE RescanStep
  BY <1>1, <1>3, UpdateSwapInfoMoves DEF RescanStep, ClaimConfirmedLockups, NoNewBlock, VerifyRowLockup
<1>4. ASSUME NEW t \in {Blocks, Status}, ClaimStep(t) PROVE ClaimWritten \/ Moves
  <2>1. CASE SetClaimAddress(t)
    BY <1>0, <2>1 DEF SetClaimAddress, UpdateRow, Rows, Moves
  <2>2. CASE UnsetClaimTxId(t) \/ (\E k \in ClaimTxs : SetClaimTxId(t, k))
    <3>1. row'.state = row.state /\ row'.mrh = row.mrh
      BY <1>0, <2>2 DEF UnsetClaimTxId, SetClaimTxId, UpdateRow, Rows
    <3> QED
      BY <2>2, <3>1 DEF ClaimWritten
  <2> QED
    BY <1>1, <1>4, <2>1, <2>2 DEF ClaimStep, VerifyFails, BeginClaim, BuildFails, BroadcastClaim
<1>5. ASSUME NEW t \in Syncs \cup {Blocks}, RecoveryStep(t) PROVE CopyWritten \/ Moves
  BY <1>1, <1>5 DEF RecoveryStep, ListRecoverable, ScanWallet, RecoverSwap, RecoveryFails, SaveRecovered,
     CopyWritten, CopyIsFresh
<1>6. CASE Environment \/ UNCHANGED vars
  BY <1>1, <1>6 DEF Environment, Restart, GracePeriodEnds, TimeoutHeightReached, BoltzLocks, LockupReplaced,
     LockupMined, LockupAndSpendMined, SpendVisible, SpendMined, BoltzRefunds, BoltzGivesUp, PayMrh, MrhMined, vars
<1> QED
  BY <1>2, <1>3, <1>4, <1>5, <1>6 DEF Next

\* The version of the row: a copy is fresh as long as nothing is written, and grace only ends.
LEMMA FreshFrame ==
  ASSUME TypeOK, [Next]_vars, NEW c \in fresh'
  PROVE  /\ row' = row /\ (grace' => grace)
         /\ c \in fresh \/ (ListRecoverable(c) /\ row.state \in list_recoverable)
<1> DEFINE Keeps == /\ row' = row /\ (grace' => grace)
                    /\ c \in fresh \/ (ListRecoverable(c) /\ row.state \in list_recoverable)
<1> USE DEF rowVars, UpdateRow
<1>0. grace \in BOOLEAN /\ (row' = row /\ grace' = grace /\ fresh' = fresh => Keeps) /\ c \notin {}
  BY DEF TypeOK
<1>a. \A to, l : update_swap_info(to, l) => Keeps
  BY <1>0 DEF update_swap_info
<1>1. CASE ReceivePayment \/ UNCHANGED vars
  BY <1>0, <1>1 DEF ReceivePayment, vars
<1>2. CASE StatusStep
  BY <1>0, <1>a, <1>2 DEF StatusStep, TransactionMempool, TransactionConfirmed, SwapFailed,
     VerifyMempoolLockup, VerifyConfirmedLockup
<1>3. CASE RescanStep
  BY <1>0, <1>a, <1>3 DEF RescanStep, ClaimConfirmedLockups, NoNewBlock, VerifyRowLockup
<1>4. ASSUME NEW t \in {Blocks, Status}, ClaimStep(t) PROVE Keeps
  BY <1>0, <1>4 DEF ClaimStep, VerifyFails, BeginClaim, SetClaimAddress, SetClaimTxId, BuildFails, BroadcastClaim,
     UnsetClaimTxId
<1>5. ASSUME NEW t \in Syncs \cup {Blocks}, RecoveryStep(t) PROVE Keeps
  <2>1. CASE ListRecoverable(t)
    <3>1. /\ row' = row /\ grace' = grace
          /\ (row.state \in list_recoverable /\ fresh' = fresh \cup {t}) \/ fresh' = fresh
      BY <2>1 DEF ListRecoverable
    <3>2. c \in fresh \/ (c = t /\ row.state \in list_recoverable)
      BY <3>1
    <3> QED
      BY <1>0, <2>1, <3>1, <3>2
  <2> QED
    BY <1>0, <1>5, <2>1 DEF RecoveryStep, ScanWallet, RecoverSwap, RecoveryFails, SaveRecovered
<1>6. CASE Environment
  BY <1>0, <1>6 DEF Environment, Restart, GracePeriodEnds, TimeoutHeightReached, BoltzLocks, LockupReplaced,
     LockupMined, LockupAndSpendMined, SpendVisible, SpendMined, BoltzRefunds, BoltzGivesUp, PayMrh, MrhMined
<1> QED
  BY <1>1, <1>2, <1>3, <1>4, <1>5, <1>6 DEF Next

\* Who broadcasts, or spends the lockup otherwise.
LEMMA SpendFrame ==
  ASSUME [Next]_vars, spend' # spend
  PROVE  \/ \E t \in {Blocks, Status} : /\ BroadcastClaim(t) \/ (UnsetClaimTxId(t) /\ LostAnswers)
                                        /\ pc[t] = "broadcast" /\ Sent(t) /\ UNCHANGED <<lockup, mrh, revealed>>
         \/ (SpendVisible \/ SpendMined \/ BoltzRefunds) /\ UNCHANGED <<row, lockup, mrh, revealed>>
         \/ LockupAndSpendMined /\ UNCHANGED <<row, mrh, revealed>>
<1> USE DEF chainVars, rowVars
<1>1. ReceivePayment \/ StatusStep \/ RescanStep \/ UNCHANGED vars => UNCHANGED spend
  BY DEF ReceivePayment, StatusStep, TransactionMempool, TransactionConfirmed, SwapFailed, VerifyMempoolLockup,
     VerifyConfirmedLockup, RescanStep, ClaimConfirmedLockups, NoNewBlock, VerifyRowLockup, vars
<1>2. ASSUME NEW t \in {Blocks, Status}, ClaimStep(t)
      PROVE  UNCHANGED spend \/ (/\ BroadcastClaim(t) \/ (UnsetClaimTxId(t) /\ LostAnswers)
                                 /\ pc[t] = "broadcast" /\ Sent(t) /\ UNCHANGED <<lockup, mrh, revealed>>)
  BY <1>2 DEF ClaimStep, VerifyFails, BeginClaim, SetClaimAddress, SetClaimTxId, BuildFails, BroadcastClaim,
     UnsetClaimTxId
<1>3. ASSUME NEW t \in Syncs \cup {Blocks}, RecoveryStep(t) PROVE UNCHANGED spend
  BY <1>3 DEF RecoveryStep, ListRecoverable, ScanWallet, RecoverSwap, RecoveryFails, SaveRecovered
<1>4. CASE Environment
  BY <1>4 DEF Environment, Restart, GracePeriodEnds, TimeoutHeightReached, BoltzLocks, LockupReplaced, LockupMined,
     LockupAndSpendMined, SpendVisible, SpendMined, BoltzRefunds, BoltzGivesUp, PayMrh, MrhMined
<1> QED
  BY <1>1, <1>2, <1>3, <1>4 DEF Next

\* Who locks up, pays the MRH address, and moves the tip.
LEMMA BoltzFrame ==
  ASSUME [Next]_vars
  PROVE  /\ UNCHANGED lockup \/ (/\ BoltzLocks \/ LockupReplaced \/ LockupMined \/ LockupAndSpendMined
                                 /\ UNCHANGED <<row, mrh, revealed>>)
         /\ UNCHANGED mrh \/ ((PayMrh \/ MrhMined) /\ UNCHANGED <<row, lockup, spend, revealed>>)
         /\ UNCHANGED tip \/ (TimeoutHeightReached /\ tip' = "expired")
<1> USE DEF chainVars, rowVars
<1>1. ReceivePayment \/ StatusStep \/ RescanStep \/ UNCHANGED vars => UNCHANGED <<lockup, mrh, tip>>
  BY DEF ReceivePayment, StatusStep, TransactionMempool, TransactionConfirmed, SwapFailed, VerifyMempoolLockup,
     VerifyConfirmedLockup, RescanStep, ClaimConfirmedLockups, NoNewBlock, VerifyRowLockup, vars
<1>2. ASSUME NEW t \in {Blocks, Status}, ClaimStep(t)
      PROVE  UNCHANGED <<lockup, mrh, tip>>
  BY <1>2 DEF ClaimStep, VerifyFails, BeginClaim, SetClaimAddress, SetClaimTxId, BuildFails, BroadcastClaim,
     UnsetClaimTxId
<1>3. ASSUME NEW t \in Syncs \cup {Blocks}, RecoveryStep(t) PROVE UNCHANGED <<lockup, mrh, tip>>
  BY <1>3 DEF RecoveryStep, ListRecoverable, ScanWallet, RecoverSwap, RecoveryFails, SaveRecovered
<1>4. CASE Environment
  BY <1>4 DEF Environment, Restart, GracePeriodEnds, TimeoutHeightReached, BoltzLocks, LockupReplaced, LockupMined,
     LockupAndSpendMined, SpendVisible, SpendMined, BoltzRefunds, BoltzGivesUp, PayMrh, MrhMined
<1> QED
  BY <1>1, <1>2, <1>3, <1>4 DEF Next

\* Before the swap is created nothing works on it, and nothing is paid
NothingBefore ==
  row.state = "None" => (\A t \in Tasks : pc[t] = "idle") /\ lockup.at = "none" /\ spend.by = NoTx

\* What is spent was locked up, a claim that spends it gave the preimage away, and until the tip
\* reaches the timeout height nothing is late
SpendIsPaidFor ==
  /\ spend.by # NoTx => lockup.at # "none"
  /\ spend.by = NoTx <=> spend.at = "none"
  /\ Claimed => revealed
  /\ \A t \in Tasks : pc[t] = "broadcast" => revealed
  /\ tip = "open" => lockup.at # "late" /\ spend.at # "late"

\* One task at a time is in claim_inner: it holds the id in claiming_swaps
Claiming(t) == pc[t] \in {"build", "broadcast"}
OneClaimer ==
  /\ \A t \in Tasks : Claiming(t) => claiming /\ t \in {Blocks, Status}
  /\ \A t, u \in Tasks : Claiming(t) /\ Claiming(u) => t = u

\* What recovery works on is a swap that is under way; as long as it can be written nothing changed
CopiesAgree ==
  \A t \in Tasks :
    /\ pc[t] \in {"scan", "recover"} => copy[t].state \in list_recoverable
    /\ pc[t] = "save" => copy[t].state # "None"
    /\ t \in fresh /\ pc[t] \in {"scan", "recover"} => copy[t] = row
    /\ t \in fresh /\ pc[t] = "save" => row.state \in list_recoverable

\* The tx that a task is about to broadcast is not the one that spends the lockup
BroadcastIsNew == \A t \in Tasks : pc[t] = "broadcast" => copy[t].claim \in ClaimTxs /\ copy[t].claim # spend.by

Received(r) == (Claimed /\ r.claim = spend.by /\ IsConfirmed(spend.at)) \/ (r.mrh /\ IsConfirmed(mrh))

\* What recovery found complete has been received
CopyIsReceived == \A t \in Tasks : pc[t] = "save" /\ copy[t].state = "Complete" => Received(copy[t])

BroadcasterOwnsClaim ==
  tip = "open" => \A t \in Tasks : pc[t] = "broadcast" => row.claim = copy[t].claim /\ grace /\ ~Claimed

GraceCoversClaim == tip = "open" /\ Claimed => spend.at # "sent" \/ grace

CopyKeepsClaim ==
  tip = "open" => \A t \in fresh :
    /\ pc[t] = "recover" =>
         /\ grace => view[t].recent
         /\ ~view[t].recent => ~Claimed \/ spend.by \in view[t].txs
    /\ pc[t] = "save" => copy[t].claim = row.claim \/ (~grace /\ ~Claimed)

\* The inductive invariant of what is reported
ReportInv ==
  IInv /\ NothingBefore /\ SpendIsPaidFor /\ OneClaimer /\ CopiesAgree /\ BroadcastIsNew /\ CopyIsReceived
  /\ CompleteMeansReceived

LEMMA TaskNames == Status \in Tasks /\ Blocks \in Tasks /\ Syncs \subseteq Tasks
  BY DEF Tasks

\* A swap that exists goes on to exist, and a Complete one is only claimed.
LEMMA StateStep ==
  ASSUME TypeOK, CopiesAgree, [Next]_vars
  PROVE  /\ row.state # "None" => row'.state # "None"
         /\ row'.state = "Complete" => row.state = "Complete" \/ CopyWritten
         /\ row.state = "Complete" => row'.state = "Complete"
<1>0. row \in Rows /\ copy \in [Tasks -> Rows]
  BY DEF TypeOK
<1>1. CASE ReceivePayment
  BY <1>1 DEF ReceivePayment, UpdateRow, NoRow
<1>2. CASE CopyWritten
  <2>1. PICK t \in Syncs \cup {Blocks} : pc[t] = "save" /\ t \in fresh /\ row' = copy[t]
    BY <1>2 DEF CopyWritten, SaveRecovered, UpdateRow
  <2> QED
    BY <1>2, <2>1, TaskNames DEF CopiesAgree, list_recoverable
<1>3. CASE ClaimWritten
  BY <1>3 DEF ClaimWritten
<1>4. CASE Moves
  BY <1>0, <1>4 DEF Moves, Allowed, States
<1> QED
  BY <1>1, <1>2, <1>3, <1>4, RowFrame

\* Before the swap exists nothing happens.
LEMMA NothingBeforeStep ==
  ASSUME TypeOK, NothingBefore, CopiesAgree, [Next]_vars
  PROVE  NothingBefore'
<1> SUFFICES ASSUME row'.state = "None"
             PROVE  (\A t \in Tasks : pc'[t] = "idle") /\ lockup'.at = "none" /\ spend'.by = NoTx
  BY DEF NothingBefore
<1>1. row.state = "None"
  BY StateStep
<1>2. (\A t \in Tasks : pc[t] = "idle") /\ lockup.at = "none" /\ spend.by = NoTx
  BY <1>1 DEF NothingBefore
<1>3. \A t \in Tasks : pc'[t] = "idle"
  BY <1>1, <1>2, Arrival DEF Stays
<1>4. lockup'.at = "none"
  BY <1>1, <1>2, BoltzFrame DEF BoltzLocks, LockupReplaced, LockupMined, LockupAndSpendMined
<1>5. spend'.by = NoTx
  <2>1. SpendVisible \/ SpendMined \/ LockupAndSpendMined => spend'.by = spend.by
    BY DEF SpendVisible, SpendMined, LockupAndSpendMined, TypeOK
  <2> QED
    BY <1>2, <2>1, TaskNames, SpendFrame DEF BoltzRefunds
<1> QED
  BY <1>3, <1>4, <1>5

\* The preimage leaves the wallet in a step of its own.
LEMMA RevealedFrame ==
  ASSUME TypeOK, [Next]_vars, revealed' # revealed
  PROVE  ~revealed /\ revealed' /\ row'.state = row.state /\ UNCHANGED <<lockup, spend, mrh>>
<1> USE DEF chainVars
<1>0. row \in Rows /\ revealed \in BOOLEAN
  BY DEF TypeOK
<1>1. ReceivePayment \/ StatusStep \/ RescanStep \/ UNCHANGED vars => UNCHANGED revealed
  BY DEF ReceivePayment, StatusStep, TransactionMempool, TransactionConfirmed, SwapFailed, VerifyMempoolLockup,
     VerifyConfirmedLockup, RescanStep, ClaimConfirmedLockups, NoNewBlock, VerifyRowLockup, vars
<1>2. ASSUME NEW t \in {Blocks, Status}, ClaimStep(t)
      PROVE  /\ UNCHANGED revealed \/ BuildFails(t) \/ (\E k \in ClaimTxs : SetClaimTxId(t, k))
  BY <1>2 DEF ClaimStep, VerifyFails, BeginClaim, SetClaimAddress, BroadcastClaim, UnsetClaimTxId
<1>3. ASSUME NEW t \in Syncs \cup {Blocks}, RecoveryStep(t) PROVE UNCHANGED revealed
  BY <1>3 DEF RecoveryStep, ListRecoverable, ScanWallet, RecoverSwap, RecoveryFails, SaveRecovered
<1>4. Environment => UNCHANGED revealed
  BY DEF Environment, Restart, GracePeriodEnds, TimeoutHeightReached, BoltzLocks, LockupReplaced, LockupMined,
     LockupAndSpendMined, SpendVisible, SpendMined, BoltzRefunds, BoltzGivesUp, PayMrh, MrhMined
<1>5. ASSUME NEW t \in {Blocks, Status}, BuildFails(t) \/ (\E k \in ClaimTxs : SetClaimTxId(t, k))
      PROVE  ~revealed /\ revealed' /\ row'.state = row.state /\ UNCHANGED <<lockup, spend, mrh>>
  BY <1>0, <1>5 DEF BuildFails, SetClaimTxId, UpdateRow, rowVars, Rows
<1> QED
  BY <1>1, <1>2, <1>3, <1>4, <1>5 DEF Next

\* What is on the chain stays there.
LEMMA ChainsGoOn ==
  ASSUME TypeOK, SpendIsPaidFor, [Next]_vars
  PROVE  /\ lockup.at # "none" => lockup'.at # "none"
         /\ spend.by # NoTx => spend'.by = spend.by
         /\ IsConfirmed(spend.at) => spend' = spend
         /\ IsConfirmed(mrh) => mrh' = mrh
         /\ revealed => revealed'
         /\ tip' = "open" => tip = "open"
<1>0. spend \in [by: ClaimTxs \cup {Refund, NoTx}, at: Places \cup {"sent"}, same: BOOLEAN]
  BY DEF TypeOK
<1>1. lockup.at # "none" => lockup'.at # "none"
  <2>1. LockupMined \/ LockupAndSpendMined => lockup'.at # "none"
    BY DEF LockupMined, LockupAndSpendMined, TypeOK, ThisBlock
  <2> QED
    BY <2>1, BoltzFrame DEF BoltzLocks, LockupReplaced, LockupTxs
<1>2. spend.by # NoTx => spend'.by = spend.by
  <2>1. SpendVisible \/ SpendMined \/ LockupAndSpendMined => spend'.by = spend.by
    BY <1>0 DEF SpendVisible, SpendMined, LockupAndSpendMined
  <2> QED
    BY <2>1, SpendFrame DEF BoltzRefunds, Sent
<1>3. IsConfirmed(spend.at) => spend' = spend
  BY SpendFrame DEF IsConfirmed, SpendIsPaidFor, BoltzRefunds, Sent, SpendVisible, SpendMined, LockupAndSpendMined
<1>4. IsConfirmed(mrh) => mrh' = mrh
  BY BoltzFrame DEF IsConfirmed, PayMrh, MrhMined
<1>5. revealed => revealed'
  BY RevealedFrame
<1>6. tip' = "open" => tip = "open"
  BY BoltzFrame
<1> QED
  BY <1>1, <1>2, <1>3, <1>4, <1>5, <1>6

\* The lockup is claimed with a revealed preimage.
LEMMA SpendIsPaidForStep ==
  ASSUME TypeOK, TypeOK', ClaimersVerified, SpendIsPaidFor, BroadcastIsNew, [Next]_vars
  PROVE  SpendIsPaidFor'
<1>0. /\ spend \in [by: ClaimTxs \cup {Refund, NoTx}, at: Places \cup {"sent"}, same: BOOLEAN]
      /\ NoTx \notin ClaimTxs /\ Refund \notin ClaimTxs /\ Refund # NoTx
  BY TxsAssumption DEF TypeOK
<1>1. ASSUME NEW t \in {Blocks, Status}, pc[t] = "broadcast", Sent(t)
      PROVE  /\ spend'.by \in ClaimTxs /\ spend'.at = "sent"
             /\ lockup.at # "none" /\ revealed
  <2>1. spend' = [by |-> copy[t].claim, at |-> "sent", same |-> FALSE] /\ copy[t].claim \in ClaimTxs
    BY <1>1, TaskNames DEF Sent, BroadcastIsNew
  <2>2. Verified /\ revealed
    BY <1>1, TaskNames DEF ClaimersVerified, SpendIsPaidFor
  <2> QED
    BY <2>1, <2>2 DEF Verified
<1>3. BoltzRefunds => spend'.by = Refund /\ spend'.at = "mempool" /\ lockup.at # "none"
  BY DEF BoltzRefunds
<1>4. /\ spend'.by # NoTx => lockup'.at # "none"
      /\ spend'.by = NoTx <=> spend'.at = "none"
      /\ spend'.by \in ClaimTxs => revealed'
      /\ tip = "open" => spend'.at # "late"
  <2>1. CASE spend' = spend
    BY <2>1, ChainsGoOn DEF SpendIsPaidFor, Claimed
  <2>2. ASSUME NEW t \in {Blocks, Status}, pc[t] = "broadcast", Sent(t), UNCHANGED <<lockup, revealed>>
        PROVE  /\ spend'.by # NoTx => lockup'.at # "none"
               /\ spend'.by = NoTx <=> spend'.at = "none"
               /\ spend'.by \in ClaimTxs => revealed'
               /\ tip = "open" => spend'.at # "late"
    BY <1>0, <1>1, <2>2
  <2>3. CASE SpendVisible \/ SpendMined \/ LockupAndSpendMined
    <3>1. /\ spend'.by = spend.by /\ spend.at # "none" /\ spend'.at # "none"
          /\ tip = "open" => spend'.at # "late"
      BY <1>0, <2>3 DEF SpendVisible, SpendMined, LockupAndSpendMined, ThisBlock
    <3> QED
      BY <3>1, ChainsGoOn DEF SpendIsPaidFor, Claimed
  <2>4. CASE BoltzRefunds
    BY <1>0, <1>3, <2>4, ChainsGoOn
  <2> QED
    BY <2>1, <2>2, <2>3, <2>4, SpendFrame
<1>5. ASSUME NEW t \in Tasks, pc'[t] = "broadcast"
      PROVE  revealed'
  <2>1. (\E k \in ClaimTxs : SetClaimTxId(t, k)) => revealed'
    BY DEF SetClaimTxId
  <2> QED
    BY <1>5, <2>1, Arrival, ChainsGoOn DEF Arrives, Stays, SpendIsPaidFor
<1>6. tip = "open" => lockup'.at # "late"
  BY BoltzFrame DEF SpendIsPaidFor, BoltzLocks, LockupReplaced, LockupTxs, LockupMined, LockupAndSpendMined, ThisBlock,
     TypeOK
<1> QED
  BY <1>4, <1>5, <1>6, ChainsGoOn DEF SpendIsPaidFor, Claimed

\* The id leaves claiming_swaps when the claim that put it there ends, or with the process.
LEMMA ClaimingFrame ==
  ASSUME TypeOK, [Next]_vars, claiming
  PROVE  claiming' \/ Restart \/ (\E t \in {Blocks, Status} : Claiming(t) /\ EndClaim(t))
<1> USE DEF taskVars
<1>1. CASE ReceivePayment \/ StatusStep \/ RescanStep \/ UNCHANGED vars
  BY <1>1 DEF ReceivePayment, StatusStep, TransactionMempool, TransactionConfirmed, SwapFailed, VerifyMempoolLockup,
     VerifyConfirmedLockup, RescanStep, ClaimConfirmedLockups, NoNewBlock, VerifyRowLockup, vars
<1>2. ASSUME NEW t \in {Blocks, Status}, ClaimStep(t) PROVE claiming' \/ (Claiming(t) /\ EndClaim(t))
  BY <1>2 DEF ClaimStep, VerifyFails, BeginClaim, SetClaimAddress, SetClaimTxId, BuildFails, BroadcastClaim,
     UnsetClaimTxId, Claiming
<1>3. ASSUME NEW t \in Syncs \cup {Blocks}, RecoveryStep(t) PROVE claiming'
  BY <1>3 DEF RecoveryStep, ListRecoverable, ScanWallet, RecoverSwap, RecoveryFails, SaveRecovered
<1>4. CASE Environment
  BY <1>4 DEF Environment, GracePeriodEnds, TimeoutHeightReached, BoltzLocks, LockupReplaced, LockupMined,
     LockupAndSpendMined, SpendVisible, SpendMined, BoltzRefunds, BoltzGivesUp, PayMrh, MrhMined
<1> QED
  BY <1>1, <1>2, <1>3, <1>4 DEF Next

\* The lock of the claim lets one task through.
LEMMA OneClaimerStep ==
  ASSUME TypeOK, OneClaimer, [Next]_vars
  PROVE  OneClaimer'
<1>0. pc \in [Tasks -> PCs] /\ claiming \in BOOLEAN
  BY DEF TypeOK
<1>1. ASSUME NEW t \in Tasks, Claiming(t)'
      PROVE  Claiming(t) \/ (t \in {Blocks, Status} /\ BeginClaim(t) /\ ~claiming)
  BY <1>1, Arrival DEF Arrives, Stays, Claiming, SetClaimTxId, SetClaimAddress
<1>2. ASSUME NEW t \in Tasks, Claiming(t)', NEW u \in Tasks, Claiming(u)'
      PROVE  t = u
  <2>1. CASE Claiming(t) /\ Claiming(u)
    BY <2>1 DEF OneClaimer
  <2>2. CASE BeginClaim(t) /\ BeginClaim(u)
    BY <1>0, <1>2, <2>2 DEF BeginClaim, Leave, Keep, Goto, Claiming
  <2> QED
    BY <1>1, <1>2, <2>1, <2>2 DEF OneClaimer
<1>3. ASSUME NEW t \in Tasks, Claiming(t)' PROVE claiming'
  <2>1. CASE BeginClaim(t)
    BY <1>0, <1>3, <2>1 DEF BeginClaim, Leave, Goto, Claiming
  <2>2. CASE Claiming(t)
    <3>1. claiming
      BY <2>2 DEF OneClaimer
    <3>2. ~Restart
      BY <1>3 DEF Restart, Claiming
    <3>3. \A u \in {Blocks, Status} : ~(Claiming(u) /\ EndClaim(u))
      BY <1>0, <1>3, <2>2, TaskNames DEF EndClaim, Leave, Goto, Claiming, OneClaimer
    <3> QED
      BY <3>1, <3>2, <3>3, ClaimingFrame
  <2> QED
    BY <1>1, <1>3, <2>1, <2>2
<1> QED
  BY <1>1, <1>2, <1>3 DEF OneClaimer, Claiming

\* While a task is about to broadcast no other one spends the lockup with a claim.
LEMMA NoOtherClaim ==
  ASSUME TypeOK, SpendIsPaidFor, OneClaimer, [Next]_vars, NEW t \in Tasks, pc[t] = "broadcast", pc'[t] = "broadcast"
  PROVE  /\ \A u \in {Blocks, Status} : /\ ~BroadcastClaim(u) /\ ~UnsetClaimTxId(u)
                                        /\ \A k \in ClaimTxs : ~SetClaimTxId(u, k)
         /\ spend'.by \in {spend.by, Refund}
<1>0. pc \in [Tasks -> PCs] /\ spend \in [by: ClaimTxs \cup {Refund, NoTx}, at: Places \cup {"sent"}, same: BOOLEAN]
  BY DEF TypeOK
<1>1. \A u \in {Blocks, Status} : Claiming(u) => u = t
  BY TaskNames DEF OneClaimer, Claiming
<1>2. ASSUME NEW u \in {Blocks, Status}
      PROVE  /\ ~BroadcastClaim(u) /\ ~UnsetClaimTxId(u)
             /\ \A k \in ClaimTxs : ~SetClaimTxId(u, k)
  BY <1>0, <1>1 DEF BroadcastClaim, UnsetClaimTxId, SetClaimTxId, EndClaim, Leave, Goto, Claiming
<1>3. spend'.by \in {spend.by, Refund}
  <2>1. SpendVisible \/ SpendMined \/ LockupAndSpendMined => spend'.by = spend.by
    BY <1>0 DEF SpendVisible, SpendMined, LockupAndSpendMined
  <2> QED
    BY <1>2, <2>1, SpendFrame DEF BoltzRefunds
<1> QED
  BY <1>2, <1>3

\* The claim that is about to be broadcast was not before.
LEMMA BroadcastIsNewStep ==
  ASSUME TypeOK, SpendIsPaidFor, OneClaimer, BroadcastIsNew, [Next]_vars
  PROVE  BroadcastIsNew'
<1> SUFFICES ASSUME NEW t \in Tasks, pc'[t] = "broadcast"
             PROVE  copy'[t].claim \in ClaimTxs /\ copy'[t].claim # spend'.by
  BY DEF BroadcastIsNew
<1>0. copy \in [Tasks -> Rows] /\ Refund \notin ClaimTxs
  BY TxsAssumption DEF TypeOK
<1>1. ASSUME NEW k \in ClaimTxs, SetClaimTxId(t, k), row.claim = NoTx
      PROVE  copy'[t].claim \in ClaimTxs /\ copy'[t].claim # spend'.by
  BY <1>0, <1>1 DEF SetClaimTxId, Rows
<1>2. CASE Stays(t)
  BY <1>0, <1>2, NoOtherClaim DEF Stays, BroadcastIsNew
<1> QED
  BY <1>1, <1>2, Arrival DEF Arrives

\* A copy that was found complete tells what is true; what recovery keeps is under way.
LEMMA RecoveredReceived ==
  ASSUME TypeOK, SpendIsPaidFor, NEW s \in Rows, NEW v \in Views, NEW lockupFirst \in BOOLEAN,
         s.state \in list_recoverable
  PROVE  LET r == Recovered(s, v, lockupFirst)
         IN  r.state # "None" /\ (r.state = "Complete" => Received(r))
<1> DEFINE found    == determine_incoming_lockup_and_claim_txs(v.txs, lockupFirst)
           mrhFound == found[1] = NoTx /\ MrhTx \in v.txs /\ InHistory(mrh)
           d        == derive_partial_state(s.state, found[1], found[2], mrhFound, v.expired)
<1>0. s.state \notin {"None", "Complete"}
  BY DEF list_recoverable
<1>1. found[2] # NoTx => found[2] = spend.by /\ Claimed
  BY TxsAssumption DEF determine_incoming_lockup_and_claim_txs, TypeOK, Views, Claimed
<1>2. /\ d # "None"
      /\ d = "Complete" => (found[2] # NoTx /\ spend.at = "mined") \/ (mrhFound /\ mrh = "mined")
  <2> HIDE DEF found, mrhFound
  <2> QED
    BY <1>0 DEF derive_partial_state
<1>3. CASE should_skip_recovery(s, v.recent, found[2])
  BY <1>0, <1>3 DEF Recovered
<1>4. CASE ~should_skip_recovery(s, v.recent, found[2])
  <2>1. Recovered(s, v, lockupFirst)
          = [s EXCEPT !.state = d, !.lockup = found[1], !.claim = found[2], !.mrh = mrhFound]
    BY <1>4 DEF Recovered
  <2> HIDE DEF found, mrhFound, d
  <2> QED
    BY <1>1, <1>2, <2>1 DEF Rows, Received, IsConfirmed
<1> QED
  BY <1>3, <1>4

\* A copy under recovery is of a swap that is under way.
LEMMA CopiesStep ==
  ASSUME TypeOK, TypeOK', SpendIsPaidFor, CopiesAgree, [Next]_vars
  PROVE  CopiesAgree'
<1> SUFFICES ASSUME NEW t \in Tasks
             PROVE  /\ pc'[t] \in {"scan", "recover"} => copy'[t].state \in list_recoverable
                    /\ pc'[t] = "save" => copy'[t].state # "None"
                    /\ t \in fresh' /\ pc'[t] \in {"scan", "recover"} => copy'[t] = row'
                    /\ t \in fresh' /\ pc'[t] = "save" => row'.state \in list_recoverable
  BY DEF CopiesAgree, list_recoverable
<1>0. copy \in [Tasks -> Rows] /\ view \in [Tasks -> Views] /\ pc \in [Tasks -> PCs]
  BY DEF TypeOK
<1>1. t \in fresh' => row' = row /\ (t \in fresh \/ (pc'[t] = "scan" /\ copy'[t] = row))
  BY <1>0, FreshFrame DEF ListRecoverable, Keep, Goto
<1>2. CASE Stays(t)
  BY <1>1, <1>2 DEF Stays, CopiesAgree
<1>3. CASE pc'[t] = "scan" /\ row.state \in list_recoverable /\ copy'[t] = row
  BY <1>1, <1>3
<1>4. CASE pc'[t] = "recover" /\ pc[t] = "scan" /\ ScanWallet(t)
  BY <1>1, <1>4 DEF ScanWallet, CopiesAgree
<1>5. CASE pc'[t] = "save" /\ pc[t] = "recover" /\ RecoverSwap(t)
  <2>1. PICK lockupFirst \in BOOLEAN : copy'[t] = Recovered(copy[t], view[t], lockupFirst)
    BY <1>0, <1>5 DEF RecoverSwap
  <2>2. copy'[t].state # "None"
    BY <1>0, <1>5, <2>1, RecoveredReceived DEF CopiesAgree
  <2> QED
    BY <1>1, <1>5, <2>2 DEF CopiesAgree
<1> QED
  BY <1>2, <1>3, <1>4, <1>5, Arrival DEF Arrives

\* What has been received stays received.
LEMMA ReceivedStable ==
  ASSUME TypeOK, SpendIsPaidFor, [Next]_vars, NEW r, Received(r), NEW q, q.claim = r.claim, q.mrh = r.mrh
  PROVE  (Claimed' /\ q.claim = spend'.by /\ IsConfirmed(spend'.at)) \/ (q.mrh /\ IsConfirmed(mrh'))
BY ChainsGoOn DEF Received, Claimed

\* A copy is Complete when its claim is there.
LEMMA CopyIsReceivedStep ==
  ASSUME TypeOK, SpendIsPaidFor, CopiesAgree, CopyIsReceived, [Next]_vars
  PROVE  CopyIsReceived'
<1> SUFFICES ASSUME NEW t \in Tasks, pc'[t] = "save", copy'[t].state = "Complete"
             PROVE  Received(copy[t])'
  BY DEF CopyIsReceived
<1>0. copy \in [Tasks -> Rows] /\ view \in [Tasks -> Views]
  BY DEF TypeOK
<1>1. CASE Stays(t)
  BY <1>1, ReceivedStable DEF Stays, CopyIsReceived, Received, Claimed
<1>2. CASE pc[t] = "recover" /\ RecoverSwap(t)
  <2>1. PICK lockupFirst \in BOOLEAN : copy'[t] = Recovered(copy[t], view[t], lockupFirst)
    BY <1>0, <1>2 DEF RecoverSwap
  <2>2. Received(copy'[t])
    BY <1>0, <1>2, <2>1, RecoveredReceived DEF CopiesAgree
  <2> QED
    BY <2>2, ReceivedStable DEF Received, Claimed
<1> QED
  BY <1>1, <1>2, Arrival DEF Arrives

\* The row is Complete when its claim is there.
LEMMA CompleteStep ==
  ASSUME TypeOK, SpendIsPaidFor, OneClaimer, BroadcastIsNew, CopiesAgree, CopyIsReceived, CompleteMeansReceived, [Next]_vars
  PROVE  CompleteMeansReceived'
<1> SUFFICES ASSUME row'.state = "Complete"
             PROVE  Received(row)'
  BY DEF CompleteMeansReceived, Received
<1>0. row \in Rows
  BY DEF TypeOK
<1>1. CASE CopyWritten
  <2>1. PICK t \in Tasks : pc[t] = "save" /\ row' = copy[t]
    BY <1>1, TaskNames DEF CopyWritten, SaveRecovered, UpdateRow
  <2>2. Received(row')
    BY <2>1 DEF CopyIsReceived
  <2> QED
    BY <2>2, ReceivedStable DEF Received, Claimed
<1>2. CASE row.state = "Complete" /\ ~CopyWritten
  <2>1. Received(row)
    BY <1>2 DEF CompleteMeansReceived, Received
  <2>2. CASE row'.claim = row.claim /\ row'.mrh = row.mrh
    BY <2>1, <2>2, ReceivedStable DEF Received, Claimed
  <2>3. CASE ClaimWritten
    <3>1. CASE row.claim = NoTx
      <4>1. row.mrh /\ IsConfirmed(mrh)
        BY <2>1, <3>1, TxsAssumption DEF Received, Claimed
      <4> QED
        BY <2>3, <4>1, ChainsGoOn DEF ClaimWritten, Received
    <3>2. CASE row.claim # NoTx
      <4>1. row'.claim = row.claim \/ (\E t \in {Blocks, Status} : pc[t] = "broadcast" /\ row.claim = copy[t].claim)
        BY <1>0, <2>3, <3>2 DEF ClaimWritten, SetClaimTxId, UnsetClaimTxId, rowVars
      <4>2. CASE \E t \in {Blocks, Status} : pc[t] = "broadcast" /\ row.claim = copy[t].claim
        <5>1. row.mrh /\ IsConfirmed(mrh)
          BY <2>1, <4>2, TaskNames DEF Received, BroadcastIsNew
        <5> QED
          BY <2>3, <5>1, ChainsGoOn DEF ClaimWritten, Received
      <4> QED
        BY <2>2, <2>3, <4>1, <4>2 DEF ClaimWritten
    <3> QED
      BY <3>1, <3>2
  <2>4. ~ReceivePayment
    BY <1>2 DEF ReceivePayment
  <2> QED
    BY <1>2, <2>2, <2>3, <2>4, RowFrame DEF Moves
<1> QED
  BY <1>1, <1>2, StateStep

LEMMA IInvStep ==
  ASSUME IInv, [Next]_vars
  PROVE  IInv'
<1>1. TypeOK /\ ClaimersVerified /\ PreimageOnlyForFunds
  BY DEF IInv
<1>2. TypeOK' /\ ClaimersVerified'
  BY <1>1, NextType, ClaimersStep
<1>3. revealed' => Verified
  BY <1>1, RevealedStep DEF PreimageOnlyForFunds, Verified, ClaimersVerified
<1>4. PreimageOnlyForFunds'
  BY <1>1, <1>3, VerifiedStable DEF PreimageOnlyForFunds, Verified
<1> QED
  BY <1>2, <1>4 DEF IInv

LEMMA ReportInvInit == Init => ReportInv
<1> SUFFICES ASSUME Init
             PROVE  ReportInv
  OBVIOUS
<1>1. IInv
  BY InitType DEF Init, IInv, ClaimersVerified, PreimageOnlyForFunds
<1>2. /\ NothingBefore /\ SpendIsPaidFor /\ OneClaimer /\ CopiesAgree /\ BroadcastIsNew /\ CopyIsReceived
      /\ CompleteMeansReceived
  BY TxsAssumption DEF Init, NothingBefore, SpendIsPaidFor, OneClaimer, Claiming, CopiesAgree, BroadcastIsNew,
     CopyIsReceived, CompleteMeansReceived, Claimed, NoRow
<1> QED
  BY <1>1, <1>2 DEF ReportInv

LEMMA ReportInvStep ==
  ASSUME ReportInv, [Next]_vars
  PROVE  ReportInv'
<1>1. IInv /\ TypeOK /\ ClaimersVerified
  BY DEF ReportInv, IInv
<1>2. IInv' /\ TypeOK'
  BY <1>1, IInvStep DEF IInv
<1> QED
  BY <1>1, <1>2, NothingBeforeStep, SpendIsPaidForStep, OneClaimerStep, CopiesStep, BroadcastIsNewStep,
     CopyIsReceivedStep, CompleteStep DEF ReportInv

LEMMA ReportInvHolds == Spec => []ReportInv
BY ReportInvInit, ReportInvStep, PTL DEF Spec

\* For any sync() calls, claim txs and restarts, and with lost answers: a swap is Complete only
\* when its claim tx, the one in the row, or its MRH tx is confirmed. Recovery reads the wallet, the
\* histories and the row at different times, and claims go on meanwhile; the proof shows that no
\* task unsets the id of a claim that was confirmed, because the id it is about to unset is not
\* that of the tx which spends the lockup.
THEOREM CompleteIsReceived == Spec => []CompleteMeansReceived
<1>1. ReportInv => CompleteMeansReceived
  BY DEF ReportInv
<1> QED
  BY <1>1, ReportInvHolds, PTL

-----------------------------------------------------------------------------
(* The refinement of SwapPromise. *)

Shown  == CASE row.state = "Complete" -> "complete" [] row.state = "Failed" -> "failed" [] OTHER -> "open"
Earned == (Claimed /\ IsConfirmed(spend.at)) \/ IsConfirmed(mrh)

\* Nothing else that the promise speaks of changes with the state.
LEMMA StateChanges ==
  ASSUME TypeOK, [Next]_vars, row'.state # row.state
  PROVE  UNCHANGED <<lockup, spend, mrh, revealed>>
<1>0. row \in Rows
  BY DEF TypeOK
<1>1. UNCHANGED <<lockup, mrh>>
  BY BoltzFrame
<1>2. UNCHANGED revealed
  BY RevealedFrame
<1>3. UNCHANGED spend
  <2>1. ASSUME NEW t \in {Blocks, Status}, BroadcastClaim(t) \/ UnsetClaimTxId(t)
        PROVE  row'.state = row.state
    BY <1>0, <2>1 DEF BroadcastClaim, UnsetClaimTxId, UpdateRow, rowVars, Rows
  <2> QED
    BY <2>1, SpendFrame
<1> QED
  BY <1>1, <1>2, <1>3

\* The swap implements SwapPromise, for any sync() calls, claim txs and restarts, whatever Boltz
\* locks up and however the payer pays, with lost answers: the preimage is exchanged for a lockup
\* that is due and stays, Complete means that the money is there for good, and it is final.
THEOREM KeepsItsPromise == Spec => KeepsPromise
<1>1. Init => Promise!Init
  BY TxsAssumption DEF Init, Promise!Init, NoRow, Due, Claimed, IsConfirmed
<1>2. ASSUME ReportInv, [Next]_vars
      PROVE  [Promise!Next]_(Promise!vars)
  <2>0. /\ TypeOK /\ IInv /\ SpendIsPaidFor /\ PreimageOnlyForFunds /\ CopiesAgree /\ ClaimersVerified
        /\ CompleteMeansReceived' /\ TypeOK' /\ lockup \in [id: {Lockup, Replacement, NoTx}, enough: BOOLEAN, rbf: BOOLEAN, at: Places]
    BY <1>2, ReportInvStep DEF ReportInv, IInv, TypeOK
  <2>1. Shown \in {"open", "complete", "failed"} /\ Shown' \in {"open", "complete", "failed"}
    BY DEF Shown
  <2>2. Shown' # Shown =>
          /\ Shown # "complete" /\ (Shown' = "complete" => Earned)
          /\ UNCHANGED <<Due, revealed, Earned>>
    <3>1. Shown' # Shown => UNCHANGED <<lockup, spend, mrh, revealed>>
      BY <1>2, <2>0, StateChanges DEF Shown
    <3>2. Shown' # Shown => Shown # "complete"
      BY <1>2, <2>0, StateStep DEF Shown
    <3>3. Shown' = "complete" => Earned'
      BY <2>0 DEF Shown, Earned, CompleteMeansReceived
    <3> QED
      BY <3>1, <3>2, <3>3 DEF Due, Earned, Claimed
  <2>3. revealed' # revealed => ~revealed /\ revealed' /\ Due /\ UNCHANGED <<Shown, Due, Earned>>
    <3>1. revealed' # revealed => ~revealed /\ revealed' /\ row'.state = row.state /\ UNCHANGED <<lockup, spend, mrh>>
      BY <1>2, <2>0, RevealedFrame
    <3>2. revealed' # revealed => Due
      BY <1>2, <2>0, RevealedStep DEF ClaimersVerified, Verified, Due
    <3> QED
      BY <3>1, <3>2 DEF Due, Earned, Claimed, Shown
  <2>4. Due => Due'
    BY <1>2, <2>0, VerifiedStable DEF Due, Verified
  <2>5. Earned' # Earned => ~Earned /\ Earned' /\ UNCHANGED <<Shown, Due, revealed>>
    <3>1. (Earned => Earned') /\ Earned \in BOOLEAN /\ Earned' \in BOOLEAN
      BY <1>2, <2>0, ChainsGoOn DEF Earned, Claimed
    <3>2. UNCHANGED <<spend, mrh>> => Earned' = Earned
      BY DEF Earned, Claimed
    <3>3. ASSUME LockupAndSpendMined, Earned' # Earned
          PROVE  UNCHANGED Due
      <4>1. spend'.by = spend.by /\ mrh' = mrh
        BY <1>2, <2>0, <3>3 DEF LockupAndSpendMined, TypeOK
      <4>2. Claimed
        BY <3>1, <3>3, <4>1 DEF Earned, Claimed
      <4> QED
        BY <2>0, <2>4, <4>2 DEF SpendIsPaidFor, PreimageOnlyForFunds, Due
    <3>4. UNCHANGED mrh \/ UNCHANGED <<row, lockup, spend, revealed>>
      BY <1>2, BoltzFrame
    <3>5. UNCHANGED spend \/ LockupAndSpendMined \/ UNCHANGED lockup
      BY <1>2, SpendFrame
    <3>6. UNCHANGED <<Shown, revealed>> \/ UNCHANGED <<spend, mrh>>
      BY <2>2, <2>3, <1>2, <2>0, StateChanges, RevealedFrame DEF Shown
    <3>7. UNCHANGED lockup => UNCHANGED Due
      BY DEF Due
    <3>8. UNCHANGED row => UNCHANGED Shown
      BY DEF Shown
    <3> QED
      BY <3>1, <3>2, <3>3, <3>4, <3>5, <3>6, <3>7, <3>8
  <2>6. Due' # Due => ~revealed /\ UNCHANGED <<Shown, revealed, Earned>>
    BY <2>0, <2>2, <2>3, <2>4, <2>5 DEF PreimageOnlyForFunds, Due
  <2> QED
    BY <2>1, <2>2, <2>3, <2>4, <2>5, <2>6
    DEF Promise!Next, Promise!vars, Promise!Offer, Promise!Reveal, Promise!PayDirectly, Promise!Show, Shown, Earned, Due,
        Claimed
<1> QED
  BY <1>1, <1>2, ReportInvInit, ReportInvStep, PTL DEF Spec, KeepsPromise, Promise!Spec

-----------------------------------------------------------------------------
(* The claim. *)

\* A grace period ends by itself only.
LEMMA GraceFrame ==
  ASSUME TypeOK, [Next]_vars, grace
  PROVE  grace' \/ GracePeriodEnds
<1> USE DEF rowVars, UpdateRow
<1>a. \A to, l : update_swap_info(to, l) => grace'
  BY DEF update_swap_info
<1>1. CASE ReceivePayment \/ UNCHANGED vars
  BY <1>1 DEF ReceivePayment, vars
<1>2. CASE StatusStep
  BY <1>a, <1>2 DEF StatusStep, TransactionMempool, TransactionConfirmed, SwapFailed,
     VerifyMempoolLockup, VerifyConfirmedLockup
<1>3. CASE RescanStep
  BY <1>a, <1>3 DEF RescanStep, ClaimConfirmedLockups, NoNewBlock, VerifyRowLockup
<1>4. ASSUME NEW t \in {Blocks, Status}, ClaimStep(t) PROVE grace'
  BY <1>4 DEF ClaimStep, VerifyFails, BeginClaim, SetClaimAddress, SetClaimTxId, BuildFails, BroadcastClaim,
     UnsetClaimTxId
<1>5. ASSUME NEW t \in Syncs \cup {Blocks}, RecoveryStep(t) PROVE grace'
  BY <1>5 DEF RecoveryStep, ListRecoverable, ScanWallet, RecoverSwap, RecoveryFails, SaveRecovered
<1>6. CASE Environment
  BY <1>6 DEF Environment, Restart, TimeoutHeightReached, BoltzLocks, LockupReplaced, LockupMined,
     LockupAndSpendMined, SpendVisible, SpendMined, BoltzRefunds, BoltzGivesUp, PayMrh, MrhMined
<1> QED
  BY <1>1, <1>2, <1>3, <1>4, <1>5, <1>6 DEF Next

\* The inductive invariant of the claim
ClaimInv ==
  ReportInv /\ BroadcasterOwnsClaim /\ GraceCoversClaim /\ CopyKeepsClaim /\ ClaimNotForgotten

\* Without lost answers a claim is sent by a broadcast that says so.
LEMMA ClaimSent ==
  ASSUME TypeOK, ~LostAnswers, BroadcastIsNew, [Next]_vars, Claimed'
  PROVE  \/ Claimed /\ spend'.by = spend.by
         \/ \E t \in {Blocks, Status} : /\ BroadcastClaim(t) /\ pc[t] = "broadcast" /\ spend'.by = copy[t].claim
                                        /\ row' = row /\ grace' = grace
<1>1. SpendVisible \/ SpendMined \/ LockupAndSpendMined => spend'.by = spend.by
  BY DEF SpendVisible, SpendMined, LockupAndSpendMined, TypeOK
<1>2. ~BoltzRefunds
  BY TxsAssumption DEF BoltzRefunds, Claimed
<1> QED
  BY <1>1, <1>2, SpendFrame DEF Claimed, Sent, BroadcastClaim, rowVars

\* The transaction that is about to be broadcast is the one in the row.
LEMMA BroadcasterStep ==
  ASSUME ClaimInv, TypeOK, ~LostAnswers, [Next]_vars, tip' = "open", NEW t \in Tasks, pc'[t] = "broadcast"
  PROVE  row'.claim = copy'[t].claim /\ grace' /\ ~Claimed'
<1>0. /\ copy \in [Tasks -> Rows] /\ row \in Rows /\ NoTx \notin ClaimTxs /\ Refund \notin ClaimTxs
      /\ tip = "open" /\ SpendIsPaidFor /\ OneClaimer /\ BroadcastIsNew /\ BroadcasterOwnsClaim /\ CopyKeepsClaim
      /\ ClaimNotForgotten
  BY TxsAssumption, ChainsGoOn DEF TypeOK, ClaimInv, ReportInv
<1>1. ASSUME NEW k \in ClaimTxs, SetClaimTxId(t, k), row.claim = NoTx
      PROVE  row'.claim = copy'[t].claim /\ grace' /\ ~Claimed'
  <2>1. row' = [row EXCEPT !.claim = k] /\ copy'[t] = [copy[t] EXCEPT !.claim = k] /\ grace' /\ spend' = spend
    BY <1>0, <1>1 DEF SetClaimTxId, UpdateRow
  <2>2. ~Claimed
    BY <1>0, <1>1 DEF ClaimNotForgotten, Claimed
  <2> QED
    BY <1>0, <2>1, <2>2 DEF Rows, Claimed
<1>2. CASE Stays(t)
  <2>1. pc[t] = "broadcast" /\ copy'[t] = copy[t] /\ row.claim = copy[t].claim /\ grace /\ ~Claimed
    BY <1>0, <1>2 DEF Stays, BroadcasterOwnsClaim
  <2>2. copy[t].claim \in ClaimTxs
    BY <1>0, <2>1 DEF BroadcastIsNew
  <2>3. ~ClaimWritten /\ ~Claimed'
    BY <1>0, <2>1, NoOtherClaim DEF ClaimWritten, Claimed
  <2>4. CopyWritten => row'.claim = row.claim
    BY <1>0, <2>1 DEF CopyWritten, SaveRecovered, UpdateRow, CopyKeepsClaim
  <2>5. ~ReceivePayment
    BY <2>1 DEF ReceivePayment, ClaimInv, ReportInv, NothingBefore
  <2>6. grace'
    BY <2>1, GraceFrame DEF GracePeriodEnds
  <2> QED
    BY <2>1, <2>3, <2>4, <2>5, <2>6, RowFrame DEF Moves
<1> QED
  BY <1>1, <1>2, Arrival DEF Arrives

\* A claim that no scan can see yet is in its grace period.
LEMMA GraceCoversStep ==
  ASSUME ClaimInv, TypeOK, ~LostAnswers, [Next]_vars, tip' = "open", Claimed'
  PROVE  spend'.at # "sent" \/ grace'
<1>0. /\ tip = "open" /\ SpendIsPaidFor /\ BroadcasterOwnsClaim /\ GraceCoversClaim /\ BroadcastIsNew
  BY ChainsGoOn DEF ClaimInv, ReportInv
<1>1. CASE Claimed /\ spend'.at = "sent"
  <2>1. spend.at = "sent"
    BY <1>0, <1>1, TxsAssumption, SpendFrame
    DEF SpendVisible, SpendMined, LockupAndSpendMined, BoltzRefunds, Sent, Claimed, ThisBlock, TypeOK
  <2> QED
    BY <1>0, <1>1, <2>1, GraceFrame DEF GraceCoversClaim, GracePeriodEnds
<1>2. ASSUME NEW t \in {Blocks, Status}, pc[t] = "broadcast", grace' = grace
      PROVE  grace'
  BY <1>0, <1>2, TaskNames DEF BroadcasterOwnsClaim
<1> QED
  BY <1>0, <1>1, <1>2, ClaimSent

\* Recovery finds the claim that spends the lockup, when the scan found it in the wallet.
LEMMA ClaimFound ==
  ASSUME TypeOK, SpendIsPaidFor, tip = "open", NEW known, NEW lockupFirst,
         spend.by \in known, Claimed, spend.at # "sent"
  PROVE  determine_incoming_lockup_and_claim_txs(known, lockupFirst)[2] = spend.by
<1>1. spend.at \in {"mempool", "mined"}
  BY TxsAssumption DEF TypeOK, SpendIsPaidFor, Claimed, Places
<1>2. lockup.at \in {"mempool", "mined"}
  BY TxsAssumption DEF TypeOK, SpendIsPaidFor, Claimed, Places
<1> QED
  BY <1>1, <1>2 DEF determine_incoming_lockup_and_claim_txs, InHistory

\* The claim id of a recovered copy: the one found on the chain, or the one the row had when the
\* grace period does not let recovery touch it.
LEMMA RecoveredClaim ==
  ASSUME NEW s \in Rows, NEW v, NEW lockupFirst
  PROVE  LET found == determine_incoming_lockup_and_claim_txs(v.txs, lockupFirst)[2]
             claim == Recovered(s, v, lockupFirst).claim
         IN  /\ claim = s.claim \/ claim = found
             /\ v.recent /\ s.claim # NoTx /\ found = NoTx => claim = s.claim
<1> DEFINE both     == determine_incoming_lockup_and_claim_txs(v.txs, lockupFirst)
           mrhFound == both[1] = NoTx /\ MrhTx \in v.txs /\ InHistory(mrh)
           d        == derive_partial_state(s.state, both[1], both[2], mrhFound, v.expired)
<1>1. CASE should_skip_recovery(s, v.recent, both[2])
  BY <1>1 DEF Recovered
<1>2. CASE ~should_skip_recovery(s, v.recent, both[2])
  <2>1. Recovered(s, v, lockupFirst)
          = [s EXCEPT !.state = d, !.lockup = both[1], !.claim = both[2], !.mrh = mrhFound]
    BY <1>2 DEF Recovered
  <2> HIDE DEF both, mrhFound, d
  <2>2. Recovered(s, v, lockupFirst).claim = both[2]
    BY <2>1 DEF Rows
  <2>3. ~(v.recent /\ s.claim # NoTx /\ both[2] = NoTx)
    BY <1>2 DEF should_skip_recovery
  <2> QED
    BY <2>2, <2>3 DEF both
<1> QED
  BY <1>1, <1>2

\* A copy that will be saved keeps the claim of the row, or its scan saw it.
LEMMA CopyKeepsStep ==
  ASSUME ClaimInv, TypeOK, TypeOK', ~LostAnswers, [Next]_vars, tip' = "open", NEW t \in fresh'
  PROVE  /\ pc'[t] = "recover" =>
              /\ grace' => view'[t].recent
              /\ ~view'[t].recent => ~Claimed' \/ spend'.by \in view'[t].txs
         /\ pc'[t] = "save" => copy'[t].claim = row'.claim \/ (~grace' /\ ~Claimed')
<1>0. /\ t \in Tasks /\ pc \in [Tasks -> PCs] /\ copy \in [Tasks -> Rows] /\ view \in [Tasks -> Views] /\ row \in Rows
      /\ tip = "open" /\ SpendIsPaidFor /\ BroadcasterOwnsClaim /\ GraceCoversClaim /\ ClaimNotForgotten /\ CopyKeepsClaim
      /\ CopiesAgree /\ BroadcastIsNew /\ NoTx \notin ClaimTxs
  BY TxsAssumption, ChainsGoOn DEF TypeOK, ClaimInv, ReportInv
<1>1. row' = row /\ (grace' => grace) /\ (t \in fresh \/ pc'[t] = "scan")
  BY <1>0, FreshFrame DEF ListRecoverable, Keep, Goto
\* Without the grace period no claim is under way
<1>2. ~grace /\ ~Claimed => ~Claimed'
  BY <1>0, ClaimSent, TaskNames DEF BroadcasterOwnsClaim
<1>3. Claimed => spend'.by = spend.by
  BY <1>0, ChainsGoOn DEF Claimed
<1>4. CASE pc'[t] = "recover" /\ pc[t] = "scan" /\ ScanWallet(t)
  <2>1. /\ view'[t].recent = grace /\ view'[t].txs = IncomingTxs
        /\ spend' = spend /\ grace' = grace
    BY <1>0, <1>4 DEF ScanWallet, Views, rowVars, chainVars
  <2>2. Claimed /\ ~grace => spend.by \in IncomingTxs
    BY <1>0 DEF GraceCoversClaim, IncomingTxs, Claimed
  <2> QED
    BY <1>4, <2>1, <2>2 DEF Claimed
<1>5. CASE Stays(t) /\ t \in fresh
  <2>1. CASE pc[t] = "recover"
    BY <1>0, <1>1, <1>2, <1>3, <1>5, <2>1, TypeOK DEF Stays, CopyKeepsClaim
  <2>2. CASE pc[t] = "save"
    BY <1>0, <1>1, <1>2, <1>5, <2>2 DEF Stays, CopyKeepsClaim
  <2> QED
    BY <1>5, <2>1, <2>2 DEF Stays
<1>6. CASE t \in fresh /\ pc'[t] = "save" /\ pc[t] = "recover" /\ RecoverSwap(t)
  <2>1. PICK lockupFirst \in BOOLEAN : copy'[t] = Recovered(copy[t], view[t], lockupFirst)
    BY <1>0, <1>6 DEF RecoverSwap
  <2>2. spend' = spend /\ grace' = grace
    BY <1>6 DEF RecoverSwap, rowVars, chainVars
  <2>3. /\ copy[t] = row
        /\ grace => view[t].recent
        /\ ~view[t].recent => ~Claimed \/ spend.by \in view[t].txs
    BY <1>0, <1>6 DEF CopiesAgree, CopyKeepsClaim
  <2> DEFINE found == determine_incoming_lockup_and_claim_txs(view[t].txs, lockupFirst)[2]
  <2>4. /\ copy'[t].claim = row.claim \/ copy'[t].claim = found
        /\ view[t].recent /\ row.claim # NoTx /\ found = NoTx => copy'[t].claim = row.claim
    BY <1>0, <2>1, <2>3, RecoveredClaim
  <2>5. found # NoTx => found = spend.by /\ Claimed
    BY <1>0, TxsAssumption DEF determine_incoming_lockup_and_claim_txs, TypeOK, Views, Claimed
  <2>6. ~view[t].recent /\ Claimed => found = spend.by
    BY <1>0, <2>3, ClaimFound DEF GraceCoversClaim
  <2> HIDE DEF found
  <2> QED
    BY <1>0, <1>1, <1>6, <2>2, <2>3, <2>4, <2>5, <2>6 DEF ClaimNotForgotten, Claimed
<1> QED
  BY <1>0, <1>1, <1>4, <1>5, <1>6, Arrival DEF Arrives

\* What claimed the lockup stays in the row.
LEMMA ClaimKept ==
  ASSUME ClaimInv, TypeOK, ~LostAnswers, [Next]_vars, tip' = "open", Claimed'
  PROVE  row'.claim = spend'.by
<1>0. /\ copy \in [Tasks -> Rows] /\ row \in Rows /\ NoTx \notin ClaimTxs
      /\ tip = "open" /\ SpendIsPaidFor /\ BroadcasterOwnsClaim /\ ClaimNotForgotten /\ CopyKeepsClaim
      /\ BroadcastIsNew /\ NothingBefore
  BY TxsAssumption, ChainsGoOn DEF TypeOK, ClaimInv, ReportInv
<1>1. ASSUME NEW t \in {Blocks, Status}, pc[t] = "broadcast", spend'.by = copy[t].claim, row' = row
      PROVE  row'.claim = spend'.by
  BY <1>0, <1>1, TaskNames DEF BroadcasterOwnsClaim
<1>2. CASE Claimed /\ spend'.by = spend.by
  <2>1. row.claim = spend.by /\ spend.by # NoTx
    BY <1>0, <1>2 DEF ClaimNotForgotten, Claimed
  <2>2. ~ReceivePayment
    BY <1>0, <2>1 DEF ReceivePayment, NothingBefore
  <2>3. ~ClaimWritten \/ row'.claim = row.claim
    BY <1>0, <1>2, <2>1, TaskNames DEF ClaimWritten, SetClaimTxId, UnsetClaimTxId, BroadcasterOwnsClaim, rowVars
  <2>4. CopyWritten => row'.claim = row.claim
    BY <1>0, <1>2 DEF CopyWritten, SaveRecovered, UpdateRow, CopyKeepsClaim
  <2> QED
    BY <1>2, <2>1, <2>2, <2>3, <2>4, RowFrame DEF Moves
<1> QED
  BY <1>0, <1>1, <1>2, ClaimSent

\* Without lost answers, for any sync() calls, claim txs and restarts, and whatever Boltz locks up:
\* while the swap runs the id of a claim tx that reached the network stays in the row. A copy that
\* recovery read when the claim could not yet be seen may still be written if nothing else was; the
\* proof shows that the grace period covers that time.
THEOREM ClaimIsNeverForgotten == ~LostAnswers /\ Spec => []ClaimNotForgotten
<1>1. ASSUME ~LostAnswers, ClaimInv, [Next]_vars
      PROVE  ClaimInv'
  <2>1. ReportInv' /\ TypeOK /\ TypeOK'
    BY <1>1, ReportInvStep DEF ClaimInv, ReportInv, IInv
  <2>2. BroadcasterOwnsClaim' /\ GraceCoversClaim' /\ ClaimNotForgotten'
    BY <1>1, <2>1, BroadcasterStep, GraceCoversStep, ClaimKept
    DEF BroadcasterOwnsClaim, GraceCoversClaim, ClaimNotForgotten, Claimed
  <2>3. CopyKeepsClaim'
    BY <1>1, <2>1, CopyKeepsStep DEF CopyKeepsClaim, Claimed
  <2> QED
    BY <2>1, <2>2, <2>3 DEF ClaimInv
<1>2. Init => ClaimInv
  <2>1. Init => BroadcasterOwnsClaim /\ GraceCoversClaim /\ CopyKeepsClaim /\ ClaimNotForgotten
    BY TxsAssumption DEF Init, BroadcasterOwnsClaim, GraceCoversClaim, CopyKeepsClaim, ClaimNotForgotten, Claimed
  <2> QED
    BY <2>1, ReportInvInit DEF ClaimInv
<1>3. ClaimInv => ClaimNotForgotten
  BY DEF ClaimInv
<1>4. ~LostAnswers => (Spec => []ClaimNotForgotten)
  <2> SUFFICES ASSUME ~LostAnswers
               PROVE  Spec => []ClaimNotForgotten
    OBVIOUS
  <2>1. ClaimInv /\ [Next]_vars => ClaimInv'
    BY <1>1
  <2> QED
    BY <1>2, <1>3, <2>1, PTL DEF Spec
<1> QED
  BY <1>4
=============================================================================
