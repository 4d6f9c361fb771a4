------------------------ MODULE ChainSendSwapProofs ------------------------
(***************************************************************************)
(* For any number of rescans, lockups, claim txs and restarts, and         *)
(* whatever Boltz locks up, of an outgoing chain swap: Boltz is given the  *)
(* preimage only for a server lockup that is confirmed, or that pays what  *)
(* was agreed and cannot be replaced; the id of a lockup stays; a start of *)
(* the SDK funds the swap at most once; what was claimed is not forgotten. *)
(* It keeps its promise.                                                   *)
(***************************************************************************)
EXTENDS ChainSendSwap, FiniteSetTheorems, TLAPS

\* The server lockup cannot be exchanged for another one
Settled == server.at = "mined" \/ (server.at = "mempool" /\ server.kind = "good")

\* A task that claims verified the server lockup before it started
ClaimersVerified ==
  \A t \in Tasks : pc[t] \in {"claim", "build", "broadcast"} => Settled

\* A lockup that is not there has no amount that could be accepted
NothingToAccept == server.at = "none" => server.kind = "none"

\* The inductive invariant
IInv == TypeOK /\ NothingToAccept /\ ClaimersVerified /\ PreimageOnlyForLockup

-----------------------------------------------------------------------------
(* Types. *)

RowTyped  == row' \in Rows /\ fresh' \subseteq Tasks /\ grace' \in BOOLEAN
TaskTyped == pc' \in [Tasks -> PCs] /\ copy' \in [Tasks -> Rows]

ServerIds == {ServerLockup, Replacement, NoTx}

LEMMA NoRowType == NoRow \in Rows /\ NoView \in Views
  BY DEF NoRow, Rows, States, NoView, Views

LEMMA LeaveType ==
  ASSUME TypeOK, NEW t \in Tasks, Leave(t)
  PROVE  TaskTyped
  BY NoRowType DEF TypeOK, Leave, Goto, PCs, TaskTyped

LEMMA GotoType ==
  ASSUME TypeOK, NEW t \in Tasks, NEW label \in PCs, Goto(t, label), UNCHANGED copy
  PROVE  TaskTyped
  BY DEF TypeOK, Goto, TaskTyped

LEMMA KeepType ==
  ASSUME TypeOK, NEW t \in Tasks, NEW r \in Rows, NEW label \in PCs, Keep(t, r, label)
  PROVE  TaskTyped
  BY DEF TypeOK, Keep, Goto, TaskTyped

LEMMA UpdateSwapInfoType ==
  ASSUME TypeOK, NEW to \in States, NEW l \in UserLockups \cup {NoTx}, NEW s \in ServerIds,
         NEW r \in BOOLEAN, update_swap_info(to, l, s, r)
  PROVE  RowTyped
<1>1. [row EXCEPT !.state = to, !.lockup = Coalesce(@, l), !.server = Coalesce(@, s),
                  !.refund = @ \/ r] \in Rows
  BY DEF TypeOK, Rows, Coalesce, ServerIds
<1> QED
  BY <1>1 DEF TypeOK, update_swap_info, UpdateRow, rowVars, RowTyped

LEMMA SameRowType == TypeOK /\ UNCHANGED rowVars => RowTyped
  BY DEF TypeOK, rowVars, RowTyped

\* What a handler changes of the row and of its task, when the rest stays
LEMMA HandlerType ==
  ASSUME TypeOK, RowTyped, TaskTyped, claiming' \in BOOLEAN, view' \in [Tasks -> Views],
         UNCHANGED <<chainVars, restarts>>
  PROVE  TypeOK'
  BY DEF TypeOK, RowTyped, TaskTyped, chainVars, tipVars, liquidTxs, bitcoinTxs, boltzVars

LEMMA StatusType ==
  /\ Status \in Tasks /\ Blocks \in Tasks
  /\ NoTx \in UserLockups \cup {NoTx} /\ NoTx \in ServerIds
  /\ {"Pending", "Failed", "TimedOut", "RefundPending"} \subseteq States
  BY DEF Tasks, ServerIds, States

LEMMA LockupStepType ==
  ASSUME TypeOK, SwapCreated \/ BroadcastLockup \/ LockupFails \/ LockupSent
  PROVE  TypeOK'
<1>0. claiming \in BOOLEAN /\ view \in [Tasks -> Views]
  BY DEF TypeOK
<1>1. CASE SwapCreated
  <2>1. TaskTyped
    BY <1>1, StatusType, GotoType DEF SwapCreated, PCs
  <2> QED
    BY <1>0, <1>1, <2>1, SameRowType, HandlerType DEF SwapCreated
<1>2. CASE BroadcastLockup
  <2>1. PICK u \in UserLockups :
          /\ lockups' = [lockups EXCEPT ![u] = "sent"]
          /\ \/ Keep(Status, [NoRow EXCEPT !.lockup = u], "lockedUp")
             \/ LostAnswers /\ Leave(Status)
    BY <1>2 DEF BroadcastLockup
  <2>2. [NoRow EXCEPT !.lockup = u] \in Rows /\ "lockedUp" \in PCs
    BY DEF NoRow, Rows, States, PCs
  <2>3. TaskTyped
    BY <2>1, <2>2, StatusType, KeepType, LeaveType
  <2>4. lockups' \in [UserLockups -> {"none", "sent", "seen"}]
    BY <2>1 DEF TypeOK
  <2> QED
    BY <1>2, <2>3, <2>4
    DEF BroadcastLockup, TypeOK, TaskTyped, rowVars, tipVars, bitcoinTxs, boltzVars
<1>3. CASE LockupFails
  BY <1>0, <1>3, StatusType, LeaveType, SameRowType, HandlerType DEF LockupFails
<1>4. CASE LockupSent
  <2>1. copy[Status].lockup \in UserLockups \cup {NoTx}
    BY StatusType DEF TypeOK, Rows
  <2>2. RowTyped
    BY <1>4, <2>1, StatusType, UpdateSwapInfoType DEF LockupSent
  <2> QED
    BY <1>0, <1>4, <2>2, StatusType, LeaveType, HandlerType DEF LockupSent
<1> QED
  BY <1>1, <1>2, <1>3, <1>4

LEMMA AnnouncementType ==
  ASSUME TypeOK, UserLockupAnnounced \/ (\E c \in BOOLEAN : ServerLockupAnnounced(c)) \/ SwapFailed
  PROVE  TypeOK'
<1>0. claiming \in BOOLEAN /\ view \in [Tasks -> Views]
  BY DEF TypeOK
<1>1. CASE UserLockupAnnounced
  <2>1. PICK u \in SeenLockups \cup {NoTx}, z \in ZeroConf \cup {row.zeroConf} :
          UpdateRow(IF u # NoTx /\ Accepts("Pending")
                      THEN [[row EXCEPT !.zeroConf = z] EXCEPT !.state = "Pending", !.lockup = Coalesce(@, u)]
                      ELSE [row EXCEPT !.zeroConf = z])
    BY <1>1 DEF UserLockupAnnounced
  <2>2. u \in UserLockups \cup {NoTx} /\ z \in BOOLEAN
    BY BoundsAssumption DEF SeenLockups, TypeOK, Rows
  <2>3. [row EXCEPT !.zeroConf = z] \in Rows
    BY <2>2 DEF TypeOK, Rows
  <2>4. [[row EXCEPT !.zeroConf = z] EXCEPT !.state = "Pending", !.lockup = Coalesce(@, u)] \in Rows
    BY <2>2, <2>3, StatusType DEF Rows, Coalesce
  <2>5. RowTyped
    BY <2>1, <2>3, <2>4 DEF UpdateRow, RowTyped
  <2>6. TaskTyped /\ UNCHANGED <<claiming, view>>
    BY <1>1 DEF UserLockupAnnounced, TypeOK, TaskTyped, taskVars
  <2> QED
    BY <1>0, <1>1, <2>5, <2>6, HandlerType DEF UserLockupAnnounced
<1>2. ASSUME NEW c \in BOOLEAN, ServerLockupAnnounced(c) PROVE TypeOK'
  <2>1. [NoRow EXCEPT !.lockup = row.lockup, !.zeroConf = row.zeroConf, !.server = server.id] \in Rows
    BY DEF TypeOK, NoRow, Rows, States
  <2>2. (IF c THEN "userConfirmed" ELSE "userMempool") \in PCs
    BY DEF PCs
  <2>3. TaskTyped
    BY <1>2, <2>1, <2>2, StatusType, KeepType DEF ServerLockupAnnounced
  <2> QED
    BY <1>0, <1>2, <2>3, SameRowType, HandlerType DEF ServerLockupAnnounced
<1>3. CASE SwapFailed
  <2>1. CASE row.lockup = NoTx
    <3>1. RowTyped
      BY <1>3, <2>1, StatusType, UpdateSwapInfoType DEF SwapFailed
    <3> QED
      BY <1>3, <2>1, <3>1 DEF SwapFailed, TypeOK, RowTyped, tipVars, liquidTxs, bitcoinTxs
  <2>2. CASE row.lockup # NoTx
    <3>1. [NoRow EXCEPT !.raddr = row.raddr] \in Rows /\ "refund" \in PCs
      BY DEF TypeOK, NoRow, Rows, States, PCs
    <3>2. TaskTyped
      BY <1>3, <2>2, <3>1, StatusType, KeepType DEF SwapFailed
    <3> QED
      BY <1>3, <2>2, <3>2 DEF SwapFailed, TypeOK, TaskTyped, rowVars, tipVars, liquidTxs, bitcoinTxs
  <2> QED
    BY <2>1, <2>2
<1> QED
  BY <1>1, <1>2, <1>3

LEMMA VerifyStepType ==
  ASSUME TypeOK, VerifyUserLockup \/ VerifyServerLockup
  PROVE  TypeOK'
<1>0. claiming \in BOOLEAN /\ view \in [Tasks -> Views] /\ server.id \in ServerIds
  BY DEF TypeOK, ServerIds
<1>1. CASE VerifyUserLockup
  <2> DEFINE next == IF pc[Status] = "userMempool" THEN "serverMempool" ELSE "serverConfirmed"
  <2>1. next \in PCs
    BY DEF PCs
  <2>2. SeenLockups \subseteq UserLockups \cup {NoTx}
    BY DEF SeenLockups
  <2>3. CASE copy[Status].lockup \in SeenLockups /\ Goto(Status, next) /\ UNCHANGED <<rowVars, copy>>
    <3>1. TaskTyped
      BY <2>1, <2>3, StatusType, GotoType
    <3> QED
      BY <1>0, <1>1, <2>3, <3>1, SameRowType, HandlerType DEF VerifyUserLockup
  <2>4. CASE /\ \E u \in SeenLockups : update_swap_info("Pending", u, NoTx, FALSE)
             /\ IF Accepts("Pending") THEN Goto(Status, next) /\ UNCHANGED copy ELSE Leave(Status)
    <3>1. RowTyped
      BY <2>2, <2>4, StatusType, UpdateSwapInfoType
    <3>2. TaskTyped
      BY <2>1, <2>4, StatusType, GotoType, LeaveType
    <3> QED
      BY <1>0, <1>1, <3>1, <3>2, HandlerType DEF VerifyUserLockup
  <2> QED
    BY <1>1, <2>3, <2>4 DEF VerifyUserLockup
<1>2. CASE VerifyServerLockup
  <2>1. RowTyped
    BY <1>0, <1>2, StatusType, UpdateSwapInfoType DEF VerifyServerLockup
  <2>2. NoRow \in Rows /\ "claim" \in PCs
    BY NoRowType DEF PCs
  <2>3. TaskTyped
    BY <1>2, <2>2, StatusType, KeepType, LeaveType DEF VerifyServerLockup
  <2> QED
    BY <1>0, <1>2, <2>1, <2>3, HandlerType DEF VerifyServerLockup
<1> QED
  BY <1>1, <1>2

LEMMA StatusStepType ==
  ASSUME TypeOK, StatusStep
  PROVE  TypeOK'
  BY LockupStepType, AnnouncementType, VerifyStepType DEF StatusStep

LEMMA AfterRefundType ==
  ASSUME TypeOK, NEW t \in Tasks, AfterRefund(t)
  PROVE  TaskTyped /\ view' \in [Tasks -> Views]
  BY NoRowType DEF TypeOK, AfterRefund, Goto, PCs, TaskTyped

LEMMA RefundStepType ==
  ASSUME TypeOK, NEW t \in {Blocks, Status}, RefundStep(t)
  PROVE  TypeOK'
<1>0. t \in Tasks /\ claiming \in BOOLEAN /\ view \in [Tasks -> Views]
  BY DEF TypeOK, Tasks
<1>1. CASE SetRefundAddress(t)
  <2>1. [copy[t] EXCEPT !.raddr = TRUE] \in Rows /\ [row EXCEPT !.raddr = TRUE] \in Rows
    BY <1>0 DEF TypeOK, Rows
  <2>2. RowTyped /\ TaskTyped
    BY <1>0, <1>1, <2>1 DEF SetRefundAddress, TypeOK, UpdateRow, RowTyped, TaskTyped
  <2> QED
    BY <1>0, <1>1, <2>2, HandlerType DEF SetRefundAddress
<1>2. CASE BroadcastRefund(t)
  <2>1. Utxos \in SUBSET UserLockups
    BY DEF Utxos, SeenLockups
  <2>2. "refunded" \in PCs
    BY DEF PCs
  <2>3. TaskTyped
    BY <1>0, <1>2, <2>2, GotoType DEF BroadcastRefund
  <2> QED
    BY <1>2, <2>1, <2>3 DEF BroadcastRefund, TypeOK, TaskTyped, rowVars, tipVars, bitcoinTxs, boltzVars
<1>3. CASE RefundSent(t)
  <2>1. RowTyped
    BY <1>3, StatusType, UpdateSwapInfoType DEF RefundSent
  <2> QED
    BY <1>0, <1>3, <2>1, AfterRefundType, HandlerType DEF RefundSent
<1>4. CASE RefundFails(t)
  <2>1. RowTyped
    BY <1>4, StatusType, UpdateSwapInfoType, SameRowType DEF RefundFails
  <2> QED
    BY <1>0, <1>4, <2>1, AfterRefundType, HandlerType DEF RefundFails
<1> QED
  BY <1>1, <1>2, <1>3, <1>4 DEF RefundStep

LEMMA ScanType ==
  ASSUME TypeOK, NEW t \in Tasks, Scan(t), UNCHANGED <<row, grace, claiming, chainVars, restarts>>
  PROVE  TypeOK'
<1>1. [expired |-> IsExpired, recent |-> grace, lockups |-> SeenLockups,
       refund |-> refund.at \in {"seen", "mined"}] \in Views
  BY DEF TypeOK, IsExpired, SeenLockups, Views
<1>2. view' \in [Tasks -> Views]
  BY <1>1 DEF Scan, TypeOK
<1>3. TaskTyped
  BY KeepType DEF Scan, TypeOK, PCs
<1>4. RowTyped
  BY DEF Scan, TypeOK, RowTyped
<1> QED
  BY <1>2, <1>3, <1>4, HandlerType DEF TypeOK

LEMMA BlockStepType ==
  ASSUME TypeOK, BlockStep
  PROVE  TypeOK'
<1>0. /\ claiming \in BOOLEAN /\ view \in [Tasks -> Views]
      /\ {"refund", "bitcoin", "verify", "claim", "liquid", "recover"} \subseteq PCs
  BY DEF TypeOK, PCs
<1>1. CASE ListMonitored
  <2>1. CASE Monitored
    BY <1>1, <2>1, StatusType, ScanType DEF ListMonitored
  <2>2. CASE ~Monitored
    <3>1. TaskTyped
      BY <1>0, <1>1, <2>2, StatusType, GotoType DEF ListMonitored
    <3>2. RowTyped
      BY <1>1, <2>2 DEF ListMonitored, TypeOK, RowTyped
    <3> QED
      BY <1>0, <1>1, <2>2, <3>1, <3>2, HandlerType DEF ListMonitored
  <2> QED
    BY <2>1, <2>2
<1>2. CASE CheckRefunds
  <2>1. [NoRow EXCEPT !.state = row.state, !.raddr = row.raddr] \in Rows
    BY DEF TypeOK, NoRow, Rows
  <2>2. \A b \in BOOLEAN : [view[Blocks] EXCEPT !.expired = b] \in Views
    BY StatusType DEF TypeOK, Views
  <2>3. TaskTyped
    BY <1>0, <1>2, <2>1, StatusType, KeepType, GotoType DEF CheckRefunds
  <2>4. view' \in [Tasks -> Views]
    BY <1>0, <1>2, <2>2 DEF CheckRefunds
  <2> QED
    BY <1>0, <1>2, <2>3, <2>4, SameRowType, HandlerType DEF CheckRefunds
<1>3. CASE ClaimOutgoing
  <2>1. [NoRow EXCEPT !.server = row.server] \in Rows
    BY DEF TypeOK, NoRow, Rows, States
  <2>2. TaskTyped
    BY <1>0, <1>3, <2>1, StatusType, KeepType, LeaveType DEF ClaimOutgoing
  <2> QED
    BY <1>0, <1>3, <2>2, SameRowType, HandlerType DEF ClaimOutgoing
<1>4. CASE NoNewBlock
  BY <1>0, <1>4, StatusType, LeaveType, SameRowType, HandlerType DEF NoNewBlock
<1>5. CASE ClaimConfirmedServerLockup
  <2>1. TaskTyped
    BY <1>0, <1>5, NoRowType, StatusType, KeepType DEF ClaimConfirmedServerLockup
  <2> QED
    BY <1>0, <1>5, <2>1, SameRowType, HandlerType DEF ClaimConfirmedServerLockup
<1> QED
  BY <1>1, <1>2, <1>3, <1>4, <1>5 DEF BlockStep

LEMMA ClaimStepType ==
  ASSUME TypeOK, NEW t \in {Blocks, Status}, ClaimStep(t)
  PROVE  TypeOK'
<1>0. t \in Tasks /\ claiming \in BOOLEAN /\ view \in [Tasks -> Views] /\ {"build", "broadcast"} \subseteq PCs
  BY DEF TypeOK, Tasks, PCs
<1>1. CASE VerifyFails(t)
  BY <1>0, <1>1, LeaveType, SameRowType, HandlerType DEF VerifyFails
<1>2. CASE BeginClaim(t)
  <2>1. TaskTyped /\ claiming' \in BOOLEAN
    BY <1>0, <1>2, LeaveType, GotoType DEF BeginClaim
  <2> QED
    BY <1>0, <1>2, <2>1, SameRowType, HandlerType DEF BeginClaim
<1>3. EndClaim(t) => TaskTyped /\ claiming' \in BOOLEAN
  BY <1>0, LeaveType DEF EndClaim
<1>4. ASSUME NEW k \in ClaimTxs, SetClaimTxId(t, k)
      PROVE  TypeOK'
  <2>1. [NoRow EXCEPT !.claim = k] \in Rows /\ [row EXCEPT !.claim = k] \in Rows
    BY DEF TypeOK, NoRow, Rows, States
  <2>2. RowTyped
    BY <1>4, <2>1, SameRowType DEF SetClaimTxId, UpdateRow, RowTyped
  <2>3. TaskTyped /\ claiming' \in BOOLEAN
    BY <1>0, <1>3, <1>4, <2>1, KeepType DEF SetClaimTxId
  <2> QED
    BY <1>4, <2>2, <2>3 DEF SetClaimTxId, TypeOK, RowTyped, TaskTyped, tipVars, liquidTxs, bitcoinTxs
<1>5. CASE BuildFails(t)
  <2>1. RowTyped /\ TaskTyped /\ claiming' \in BOOLEAN
    BY <1>3, <1>5, SameRowType DEF BuildFails
  <2>2. revealed' \in BOOLEAN
    BY <1>5 DEF BuildFails, TypeOK
  <2>3. UNCHANGED <<view, restarts, liquid, bitcoin, lockups, taken, refund, server, spend, boltz>>
    BY <1>5 DEF BuildFails, tipVars, liquidTxs, bitcoinTxs
  <2> QED
    BY <2>1, <2>2, <2>3 DEF TypeOK, RowTyped, TaskTyped
<1>6. Sent(t) => spend' \in [by: ClaimTxs \cup {ServerRefund, NoTx}, at: {"none", "sent", "seen", "mined"}]
  <2>1. copy[t].claim \in ClaimTxs \cup {ServerRefund, NoTx}
    BY <1>0 DEF TypeOK, Rows
  <2> QED
    BY <2>1 DEF Sent
<1>7. CASE BroadcastClaim(t)
  <2>1. RowTyped /\ TaskTyped /\ claiming' \in BOOLEAN
    BY <1>3, <1>7, SameRowType DEF BroadcastClaim
  <2> QED
    BY <1>6, <1>7, <2>1 DEF BroadcastClaim, TypeOK, RowTyped, TaskTyped, tipVars, liquidTxs, boltzVars
<1>8. CASE UnsetClaimTxId(t)
  <2>1. [row EXCEPT !.claim = NoTx] \in Rows
    BY DEF TypeOK, Rows
  <2>2. RowTyped
    BY <1>8, <2>1, SameRowType DEF UnsetClaimTxId, UpdateRow, RowTyped
  <2>3. TaskTyped /\ claiming' \in BOOLEAN
    BY <1>3, <1>8 DEF UnsetClaimTxId
  <2> QED
    BY <1>6, <1>8, <2>2, <2>3
    DEF UnsetClaimTxId, TypeOK, RowTyped, TaskTyped, tipVars, liquidTxs, boltzVars
<1> QED
  BY <1>1, <1>2, <1>4, <1>5, <1>7, <1>8 DEF ClaimStep

\* Recovery finds ids that the columns can hold.
LEMMA RecoveredType ==
  ASSUME TypeOK, NEW s \in Rows, NEW v \in Views, NEW u \in UserLockups \cup {NoTx}
  PROVE  Recovered(s, v, u) \in Rows
<1> DEFINE d == derive_partial_state(s.state, u, FoundClaim, v.refund, v.expired)
<1>1. FoundClaim \in ClaimTxs \cup {ServerRefund, NoTx} /\ server.id \in ServerIds
  BY DEF TypeOK, FoundClaim, ServerIds
<1>2. d \in States
  BY DEF derive_partial_state, States, Rows, Views
<1>3. CASE should_skip_recovery(s, v.recent, u, FoundClaim, v.refund)
  BY <1>3 DEF Recovered
<1>4. CASE ~should_skip_recovery(s, v.recent, u, FoundClaim, v.refund)
  <2>1. Recovered(s, v, u)
          = [s EXCEPT !.state = d, !.lockup = u, !.server = server.id, !.claim = FoundClaim, !.refund = v.refund]
    BY <1>4 DEF Recovered
  <2>2. v.refund \in BOOLEAN
    BY DEF Views
  <2> HIDE DEF d
  <2> QED
    BY <1>1, <1>2, <2>1, <2>2 DEF Rows, ServerIds
<1> QED
  BY <1>3, <1>4

LEMMA RecoveryStepType ==
  ASSUME TypeOK, NEW t \in Tasks, RecoveryStep(t)
  PROVE  TypeOK'
<1>0. /\ claiming \in BOOLEAN
      /\ AfterRecovery(t) => TaskTyped /\ view' \in [Tasks -> Views]
  BY NoRowType DEF TypeOK, AfterRecovery, Goto, PCs, TaskTyped
<1>1. CASE RecoverSwap(t)
  <2>1. copy[t] \in Rows /\ view[t] \in Views /\ view[t].lockups \subseteq UserLockups
    BY DEF TypeOK, Views
  <2>2. \A u \in UserLockups \cup {NoTx} : Recovered(copy[t], view[t], u) \in Rows
    BY <2>1, RecoveredType
  <2>3. PICK u \in UserLockups \cup {NoTx} : copy' = [copy EXCEPT ![t] = Recovered(copy[t], view[t], u)]
    BY <1>1, <2>1 DEF RecoverSwap
  <2>4. TaskTyped
    BY <1>1, <2>2, <2>3 DEF RecoverSwap, TypeOK, Goto, PCs, TaskTyped
  <2>5. view' \in [Tasks -> Views]
    BY <1>1, NoRowType DEF RecoverSwap, TypeOK
  <2> QED
    BY <1>0, <1>1, <2>4, <2>5, SameRowType, HandlerType DEF RecoverSwap
<1>2. CASE RecoveryFails(t)
  <2>1. RowTyped
    BY <1>2 DEF RecoveryFails, TypeOK, RowTyped
  <2> QED
    BY <1>0, <1>2, <2>1, HandlerType DEF RecoveryFails
<1>3. CASE SaveRecovered(t)
  <2>1. RowTyped
    <3>1. CASE copy[t] # row /\ CopyIsFresh(t)
      <4>1. row' = copy[t] /\ fresh' = {} /\ grace' = TRUE
        BY <1>3, <3>1 DEF SaveRecovered, UpdateRow
      <4> QED
        BY <4>1 DEF TypeOK, RowTyped
    <3>2. CASE ~(copy[t] # row /\ CopyIsFresh(t))
      <4>1. row' = row /\ fresh' = fresh \ {t} /\ grace' = grace
        BY <1>3, <3>2 DEF SaveRecovered
      <4> QED
        BY <4>1 DEF TypeOK, RowTyped
    <3> QED
      BY <3>1, <3>2
  <2> QED
    BY <1>0, <1>3, <2>1, HandlerType DEF SaveRecovered
<1> QED
  BY <1>1, <1>2, <1>3 DEF RecoveryStep

LEMMA EnvironmentType ==
  ASSUME TypeOK, Environment
  PROVE  TypeOK'
<1> USE DEF TypeOK
<1>1. CASE Restart
  <2>1. restarts' \in 0..MaxRestarts
    BY <1>1, BoundsAssumption DEF Restart
  <2>2. pc' \in [Tasks -> PCs] /\ copy' \in [Tasks -> Rows] /\ view' \in [Tasks -> Views]
    BY <1>1, NoRowType DEF Restart, PCs
  <2>3. row' \in Rows /\ fresh' \subseteq Tasks /\ grace' \in BOOLEAN /\ claiming' \in BOOLEAN
    BY <1>1 DEF Restart
  <2>4. UNCHANGED <<liquid, bitcoin, lockups, taken, refund, server, spend, revealed, boltz>>
    BY <1>1 DEF Restart, chainVars, tipVars, liquidTxs, bitcoinTxs, boltzVars
  <2> QED
    BY <2>1, <2>2, <2>3, <2>4
<1>2. CASE GracePeriodEnds
  <2>1. RowTyped /\ TaskTyped /\ UNCHANGED <<claiming, view>>
    BY <1>2 DEF GracePeriodEnds, RowTyped, TaskTyped, taskVars
  <2> QED
    BY <1>2, <2>1, HandlerType DEF GracePeriodEnds
<1> USE DEF rowVars, taskVars
<1>3. CASE LiquidBlock \/ BitcoinBlock
  BY <1>3 DEF LiquidBlock, BitcoinBlock, NextTip, Tips, liquidTxs, bitcoinTxs, boltzVars
<1>4. ASSUME NEW u \in UserLockups, LockupVisible(u) PROVE TypeOK'
  BY <1>4 DEF LockupVisible, tipVars, bitcoinTxs, boltzVars
<1>5. CASE RefundVisible \/ RefundMined
  BY <1>5 DEF RefundVisible, RefundMined, tipVars, bitcoinTxs, boltzVars
<1>6. CASE BoltzLocks \/ ServerLockupReplaced \/ ServerLockupMined
  <2>1. server' \in [id: {ServerLockup, Replacement, NoTx}, kind: {"none", "good", "short", "rbf"},
                     at: {"none", "mempool", "mined"}]
    <3>1. CASE BoltzLocks
      BY <3>1, BoundsAssumption DEF BoltzLocks, BoltzOffers
    <3>2. CASE ServerLockupReplaced
      BY <3>2, BoundsAssumption DEF ServerLockupReplaced, BoltzOffers
    <3>3. CASE ServerLockupMined
      BY <3>3 DEF ServerLockupMined
    <3> QED
      BY <1>6, <3>1, <3>2, <3>3
  <2> QED
    BY <1>6, <2>1 DEF BoltzLocks, ServerLockupReplaced, ServerLockupMined, tipVars, liquidTxs, boltzVars
<1>7. CASE SpendVisible \/ SpendMined
  BY <1>7 DEF SpendVisible, SpendMined, tipVars, liquidTxs, boltzVars
<1>8. CASE BoltzClaims
  <2>1. taken' \in UserLockups
    BY <1>8 DEF BoltzClaims, Utxos, SeenLockups
  <2> QED
    BY <1>8, <2>1 DEF BoltzClaims, tipVars, bitcoinTxs, boltzVars
<1>9. CASE BoltzRefunds \/ BoltzGivesUp
  BY <1>9 DEF BoltzRefunds, BoltzGivesUp, tipVars, liquidTxs, bitcoinTxs
<1> QED
  BY <1>1, <1>2, <1>3, <1>4, <1>5, <1>6, <1>7, <1>8, <1>9 DEF Environment

LEMMA InitType == Init => TypeOK
<1> SUFFICES ASSUME Init
             PROVE  TypeOK
  OBVIOUS
<1>1. pc \in [Tasks -> PCs] /\ copy \in [Tasks -> Rows] /\ view \in [Tasks -> Views]
  BY NoRowType DEF Init, PCs
<1>2. row \in Rows /\ restarts \in 0..MaxRestarts
  BY NoRowType, BoundsAssumption DEF Init
<1> QED
  BY <1>1, <1>2 DEF Init, TypeOK, Tips

LEMMA NextType ==
  ASSUME TypeOK, [Next]_vars
  PROVE  TypeOK'
<1>0. claiming \in BOOLEAN /\ view \in [Tasks -> Views]
  BY DEF TypeOK
<1>1. CASE PayOnchain
  <2>1. PICK z \in ZeroConf : UpdateRow([NoRow EXCEPT !.state = "Created", !.zeroConf = z])
    BY <1>1 DEF PayOnchain
  <2>2. [NoRow EXCEPT !.state = "Created", !.zeroConf = z] \in Rows
    BY BoundsAssumption DEF NoRow, Rows, States
  <2>3. RowTyped
    BY <2>1, <2>2 DEF UpdateRow, RowTyped
  <2>4. TaskTyped /\ UNCHANGED <<claiming, view>>
    BY <1>1 DEF PayOnchain, TypeOK, TaskTyped, taskVars
  <2> QED
    BY <1>0, <1>1, <2>3, <2>4, HandlerType DEF PayOnchain
<1>2. CASE PaymentTimeout
  <2>1. RowTyped
    BY <1>2, StatusType, UpdateSwapInfoType DEF PaymentTimeout
  <2>2. TaskTyped /\ UNCHANGED <<claiming, view>>
    BY <1>2 DEF PaymentTimeout, TypeOK, TaskTyped, taskVars
  <2> QED
    BY <1>0, <1>2, <2>1, <2>2, HandlerType DEF PaymentTimeout
<1>3. CASE StatusStep
  BY <1>3, StatusStepType
<1>4. CASE \E t \in {Blocks, Status} : RefundStep(t) \/ ClaimStep(t)
  BY <1>4, RefundStepType, ClaimStepType
<1>5. CASE BlockStep
  BY <1>5, BlockStepType
<1>6. CASE \E t \in Rescans : RescanOnchainSwaps(t)
  BY <1>6, ScanType DEF RescanOnchainSwaps, Tasks
<1>7. CASE \E t \in Rescans \cup {Blocks} : RecoveryStep(t)
  BY <1>7, RecoveryStepType DEF Tasks
<1>8. CASE Environment
  BY <1>8, EnvironmentType
<1>9. CASE UNCHANGED vars
  BY <1>9 DEF TypeOK, vars, rowVars, taskVars, chainVars, tipVars, liquidTxs, bitcoinTxs, boltzVars
<1> QED
  BY <1>1, <1>2, <1>3, <1>4, <1>5, <1>6, <1>7, <1>8, <1>9 DEF Next

\* For any rescans, lockups, claim txs and number of restarts, every variable stays in its domain
\* (the schema's columns and the handlers' control states).
THEOREM TypeCorrect == Spec => []TypeOK
<1>1. Init => TypeOK
  BY InitType
<1>2. TypeOK /\ [Next]_vars => TypeOK'
  BY NextType
<1> QED
  BY <1>1, <1>2, PTL DEF Spec

-----------------------------------------------------------------------------
(* The preimage. *)

Claimers == {"claim", "build", "broadcast"}

\* Only Boltz and the miners change what is locked up on Bitcoin.
LEMMA ServerStep ==
  ASSUME [Next]_vars
  PROVE  BoltzLocks \/ ServerLockupReplaced \/ ServerLockupMined \/ UNCHANGED server
<1> USE DEF chainVars, bitcoinTxs
<1>1. StatusStep => UNCHANGED server
  BY DEF StatusStep, SwapCreated, BroadcastLockup, LockupFails, LockupSent, UserLockupAnnounced,
         ServerLockupAnnounced, VerifyUserLockup, VerifyServerLockup, SwapFailed
<1>2. ASSUME NEW t \in Tasks, RefundStep(t) PROVE UNCHANGED server
  BY <1>2 DEF RefundStep, SetRefundAddress, BroadcastRefund, RefundSent, RefundFails
<1>3. ASSUME NEW t \in Tasks, ClaimStep(t) PROVE UNCHANGED server
  BY <1>3 DEF ClaimStep, VerifyFails, BeginClaim, SetClaimTxId, BuildFails, BroadcastClaim, UnsetClaimTxId
<1>4. BlockStep => UNCHANGED server
  BY DEF BlockStep, ListMonitored, CheckRefunds, ClaimOutgoing, NoNewBlock, ClaimConfirmedServerLockup
<1>5. ASSUME NEW t \in Tasks, RecoveryStep(t) \/ RescanOnchainSwaps(t) PROVE UNCHANGED server
  BY <1>5 DEF RecoveryStep, RecoverSwap, RecoveryFails, SaveRecovered, RescanOnchainSwaps
<1>6. Environment => BoltzLocks \/ ServerLockupReplaced \/ ServerLockupMined \/ UNCHANGED server
  BY DEF Environment, Restart, GracePeriodEnds, LiquidBlock, BitcoinBlock, LockupVisible, RefundVisible,
         RefundMined, SpendVisible, SpendMined, BoltzClaims, BoltzRefunds, BoltzGivesUp
<1>7. PayOnchain \/ PaymentTimeout \/ UNCHANGED vars => UNCHANGED server
  BY DEF PayOnchain, PaymentTimeout, vars
<1> QED
  BY <1>1, <1>2, <1>3, <1>4, <1>5, <1>6, <1>7 DEF Next, Tasks

\* A lockup that was verified can only be mined: it signals no RBF, so it is not replaced.
LEMMA SettledStable ==
  ASSUME TypeOK, NothingToAccept, [Next]_vars
  PROVE  NothingToAccept' /\ (Settled => Settled')
<1> USE DEF TypeOK, NothingToAccept, Settled
<1>1. CASE BoltzLocks
  BY <1>1 DEF BoltzLocks, BoltzOffers
<1>2. CASE ServerLockupReplaced
  BY <1>2 DEF ServerLockupReplaced, BoltzOffers
<1>3. CASE ServerLockupMined
  BY <1>3 DEF ServerLockupMined
<1>4. CASE UNCHANGED server
  BY <1>4
<1> QED
  BY <1>1, <1>2, <1>3, <1>4, ServerStep

\* A task comes to a claim by a verification, and only by one.
LEMMA ClaimersStep ==
  ASSUME TypeOK, NothingToAccept, ClaimersVerified, [Next]_vars
  PROVE  ClaimersVerified'
<1> SUFFICES ASSUME NEW c \in Tasks, pc'[c] \in Claimers
             PROVE  Settled
  BY SettledStable DEF ClaimersVerified, Claimers
<1> USE DEF Claimers
<1>1. CASE pc[c] \in Claimers
  BY <1>1 DEF ClaimersVerified
<1>2. CASE pc[c] \notin Claimers
  <2> SUFFICES ASSUME pc'[c] # pc[c]
               PROVE  Settled
    BY <1>2
  <2>0. pc \in [Tasks -> PCs] /\ server.at \in {"none", "mempool", "mined"}
    BY DEF TypeOK
  <2> USE DEF Goto, Leave, Keep
  <2>1. CASE StatusStep
    <3>1. CASE VerifyServerLockup
      <4>1. (pc[Status] = "serverMempool" /\ AcceptsUnconfirmed) \/ server.at = "mined"
        BY <3>1 DEF VerifyServerLockup
      <4> QED
        BY <2>0, <4>1 DEF AcceptsUnconfirmed, NothingToAccept, Settled
    <3>2. CASE VerifyUserLockup
      BY <2>0, <3>2 DEF VerifyUserLockup
    <3> QED
      BY <2>0, <2>1, <3>1, <3>2
      DEF StatusStep, SwapCreated, BroadcastLockup, LockupFails, LockupSent, UserLockupAnnounced,
          ServerLockupAnnounced, SwapFailed, taskVars
  <2>2. ASSUME NEW t \in Tasks, RefundStep(t) PROVE Settled
    BY <2>0, <2>2 DEF RefundStep, SetRefundAddress, BroadcastRefund, RefundSent, RefundFails, AfterRefund
  <2>3. ASSUME NEW t \in Tasks, ClaimStep(t) PROVE Settled
    BY <1>2, <2>0, <2>3 DEF ClaimStep, VerifyFails, BeginClaim, SetClaimTxId, BuildFails, BroadcastClaim,
       UnsetClaimTxId, EndClaim
  <2>4. CASE BlockStep
    <3>1. CASE ClaimConfirmedServerLockup
      BY <3>1 DEF ClaimConfirmedServerLockup, Settled
    <3>2. CASE ListMonitored
      BY <2>0, <3>2 DEF ListMonitored, Scan
    <3> QED
      BY <2>0, <2>4, <3>1, <3>2 DEF BlockStep, CheckRefunds, ClaimOutgoing, NoNewBlock
  <2>5. ASSUME NEW t \in Tasks, RecoveryStep(t) \/ RescanOnchainSwaps(t) PROVE Settled
    BY <2>0, <2>5 DEF RecoveryStep, RecoverSwap, RecoveryFails, SaveRecovered, AfterRecovery,
       RescanOnchainSwaps, Scan
  <2>6. CASE Environment
    BY <2>0, <2>6 DEF Environment, Restart, GracePeriodEnds, LiquidBlock, BitcoinBlock, LockupVisible,
       RefundVisible, RefundMined, BoltzLocks, ServerLockupReplaced, ServerLockupMined, SpendVisible,
       SpendMined, BoltzClaims, BoltzRefunds, BoltzGivesUp, taskVars
  <2>7. CASE PayOnchain \/ PaymentTimeout \/ UNCHANGED vars
    BY <2>7 DEF PayOnchain, PaymentTimeout, vars, taskVars
  <2> QED
    BY <2>1, <2>2, <2>3, <2>4, <2>5, <2>6, <2>7 DEF Next, Tasks
<1> QED
  BY <1>1, <1>2

\* Boltz gets the preimage when a claim tx is built, and only then.
LEMMA RevealedStep ==
  ASSUME [Next]_vars, revealed' # revealed
  PROVE  \E t \in Tasks : pc[t] = "build"
<1> USE DEF chainVars, boltzVars
<1>1. StatusStep => UNCHANGED revealed
  BY DEF StatusStep, SwapCreated, BroadcastLockup, LockupFails, LockupSent, UserLockupAnnounced,
         ServerLockupAnnounced, VerifyUserLockup, VerifyServerLockup, SwapFailed
<1>2. ASSUME NEW t \in Tasks, RefundStep(t) PROVE UNCHANGED revealed
  BY <1>2 DEF RefundStep, SetRefundAddress, BroadcastRefund, RefundSent, RefundFails
<1>3. ASSUME NEW t \in Tasks, ClaimStep(t) PROVE pc[t] = "build"
  BY <1>3 DEF ClaimStep, VerifyFails, BeginClaim, SetClaimTxId, BuildFails, BroadcastClaim, UnsetClaimTxId
<1>4. BlockStep => UNCHANGED revealed
  BY DEF BlockStep, ListMonitored, CheckRefunds, ClaimOutgoing, NoNewBlock, ClaimConfirmedServerLockup
<1>5. ASSUME NEW t \in Tasks, RecoveryStep(t) \/ RescanOnchainSwaps(t) PROVE UNCHANGED revealed
  BY <1>5 DEF RecoveryStep, RecoverSwap, RecoveryFails, SaveRecovered, RescanOnchainSwaps
<1>6. Environment => UNCHANGED revealed
  BY DEF Environment, Restart, GracePeriodEnds, LiquidBlock, BitcoinBlock, LockupVisible, RefundVisible,
         RefundMined, BoltzLocks, ServerLockupReplaced, ServerLockupMined, SpendVisible, SpendMined,
         BoltzClaims, BoltzRefunds, BoltzGivesUp
<1>7. PayOnchain \/ PaymentTimeout \/ UNCHANGED vars => UNCHANGED revealed
  BY DEF PayOnchain, PaymentTimeout, vars
<1> QED
  BY <1>1, <1>2, <1>3, <1>4, <1>5, <1>6, <1>7 DEF Next, Tasks

LEMMA IInvStep == IInv /\ [Next]_vars => IInv'
<1> SUFFICES ASSUME IInv, [Next]_vars
             PROVE  IInv'
  OBVIOUS
<1>1. TypeOK /\ NothingToAccept /\ ClaimersVerified /\ PreimageOnlyForLockup
  BY DEF IInv
<1>2. TypeOK' /\ NothingToAccept' /\ ClaimersVerified'
  BY <1>1, NextType, SettledStable, ClaimersStep
<1>3. revealed' => Settled
  <2>1. CASE revealed
    BY <1>1, <2>1 DEF PreimageOnlyForLockup, Settled
  <2>2. CASE ~revealed
    BY <1>1, <2>2, RevealedStep DEF ClaimersVerified, TypeOK
  <2> QED
    BY <2>1, <2>2
<1>4. Settled => Settled'
  BY <1>1, SettledStable
<1>5. PreimageOnlyForLockup'
  BY <1>3, <1>4 DEF PreimageOnlyForLockup, Settled
<1> QED
  BY <1>2, <1>5 DEF IInv

\* For any rescans, lockups, claim txs and restarts, and whatever Boltz locks up: Boltz is given the
\* preimage only for a server lockup that is confirmed, or that pays what was agreed and does not
\* signal RBF. The handlers check this several awaits before they build the claim tx; the proof
\* shows that what they checked still holds there.
THEOREM PreimageNeedsLockup == Spec => []PreimageOnlyForLockup
<1>1. Init => IInv
  <2>1. Init => NothingToAccept /\ ClaimersVerified /\ PreimageOnlyForLockup
    BY DEF Init, NothingToAccept, ClaimersVerified, PreimageOnlyForLockup
  <2> QED
    BY <2>1, InitType DEF IInv
<1>2. IInv /\ [Next]_vars => IInv'
  BY IInvStep
<1>3. IInv => PreimageOnlyForLockup
  BY DEF IInv
<1> QED
  BY <1>1, <1>2, <1>3, PTL DEF Spec

-----------------------------------------------------------------------------
(* What each step may touch. *)

LEMMA TaskNames == Status \in Tasks /\ Blocks \in Tasks /\ Rescans \subseteq Tasks
  BY DEF Tasks

LEMMA InvHolds == Spec => []IInv
<1>1. Init => IInv
  BY InitType DEF Init, NothingToAccept, ClaimersVerified, PreimageOnlyForLockup, IInv
<1> QED
  BY <1>1, IInvStep, PTL DEF Spec

\* Who changes what the chains, Boltz and the process are at.
LEMMA ChainFrame ==
  ASSUME [Next]_vars
  PROVE  /\ UNCHANGED lockups \/ BroadcastLockup \/ (\E u \in UserLockups : LockupVisible(u))
         /\ UNCHANGED refund \/ (\E t \in {Blocks, Status} : BroadcastRefund(t)) \/ RefundVisible \/ RefundMined
         /\ UNCHANGED tipVars \/ LiquidBlock \/ BitcoinBlock
         /\ UNCHANGED spend \/ SpendVisible \/ SpendMined \/ BoltzRefunds
            \/ (\E t \in {Blocks, Status} : BroadcastClaim(t) \/ UnsetClaimTxId(t))
         /\ UNCHANGED boltz \/ SwapFailed \/ BoltzRefunds \/ BoltzGivesUp
         /\ UNCHANGED restarts \/ Restart
<1> USE DEF chainVars, liquidTxs, bitcoinTxs, boltzVars
<1>1. CASE PayOnchain \/ PaymentTimeout \/ BlockStep \/ UNCHANGED vars
  BY <1>1 DEF PayOnchain, PaymentTimeout, BlockStep, ListMonitored, CheckRefunds, ClaimOutgoing, NoNewBlock,
     ClaimConfirmedServerLockup, vars
<1>2. CASE StatusStep
  BY <1>2 DEF StatusStep, SwapCreated, BroadcastLockup, LockupFails, LockupSent, UserLockupAnnounced,
     ServerLockupAnnounced, VerifyUserLockup, VerifyServerLockup, SwapFailed
<1>3. ASSUME NEW t \in {Blocks, Status}, RefundStep(t)
      PROVE  UNCHANGED <<lockups, tipVars, spend, boltz, restarts>> /\ (UNCHANGED refund \/ BroadcastRefund(t))
  BY <1>3 DEF RefundStep, SetRefundAddress, BroadcastRefund, RefundSent, RefundFails
<1>4. ASSUME NEW t \in {Blocks, Status}, ClaimStep(t)
      PROVE  /\ UNCHANGED <<liquidTxs, tipVars, boltz, restarts>>
             /\ UNCHANGED spend \/ BroadcastClaim(t) \/ UnsetClaimTxId(t)
  BY <1>4 DEF ClaimStep, VerifyFails, BeginClaim, SetClaimTxId, BuildFails, BroadcastClaim, UnsetClaimTxId
<1>5. ASSUME NEW t \in Tasks, RecoveryStep(t) \/ RescanOnchainSwaps(t)
      PROVE  UNCHANGED <<chainVars, restarts>>
  BY <1>5 DEF RecoveryStep, RecoverSwap, RecoveryFails, SaveRecovered, RescanOnchainSwaps
<1>6. CASE Environment
  BY <1>6 DEF Environment, Restart, GracePeriodEnds, LiquidBlock, BitcoinBlock, LockupVisible, RefundVisible,
     RefundMined, BoltzLocks, ServerLockupReplaced, ServerLockupMined, SpendVisible, SpendMined, BoltzClaims,
     BoltzRefunds, BoltzGivesUp
<1> QED
  BY <1>1, <1>2, <1>3, <1>4, <1>5, <1>6 DEF Next, Tasks

\* A step that is one of task c's own, or that ends it.
OwnStep(c) ==
  \/ c = Status /\ StatusStep
  \/ c \in {Blocks, Status} /\ (RefundStep(c) \/ ClaimStep(c))
  \/ c = Blocks /\ BlockStep
  \/ c \in Rescans /\ RescanOnchainSwaps(c)
  \/ c \in Rescans \cup {Blocks} /\ RecoveryStep(c)
  \/ Restart

Stays(c) == pc'[c] = pc[c] /\ copy'[c] = copy[c] /\ view'[c] = view[c]

\* The other steps leave what the task is doing and what it has read.
LEMMA TaskFrame ==
  ASSUME TypeOK, [Next]_vars, NEW c \in Tasks
  PROVE  OwnStep(c) \/ Stays(c)
<1>0. pc \in [Tasks -> PCs] /\ copy \in [Tasks -> Rows] /\ view \in [Tasks -> Views]
  BY DEF TypeOK
<1> USE <1>0 DEF Stays, taskVars, Goto, Leave, Keep, EndClaim, AfterRecovery, AfterRefund, Scan
<1>1. CASE PayOnchain \/ PaymentTimeout \/ UNCHANGED vars
  BY <1>1 DEF PayOnchain, PaymentTimeout, vars
<1>2. CASE StatusStep /\ c # Status
  BY <1>2 DEF StatusStep, SwapCreated, BroadcastLockup, LockupFails, LockupSent, UserLockupAnnounced,
     ServerLockupAnnounced, VerifyUserLockup, VerifyServerLockup, SwapFailed
<1>3. ASSUME NEW t \in {Blocks, Status}, RefundStep(t), c # t PROVE Stays(c)
  BY <1>3 DEF RefundStep, SetRefundAddress, BroadcastRefund, RefundSent, RefundFails
<1>4. ASSUME NEW t \in {Blocks, Status}, ClaimStep(t), c # t PROVE Stays(c)
  BY <1>4 DEF ClaimStep, VerifyFails, BeginClaim, SetClaimTxId, BuildFails, BroadcastClaim, UnsetClaimTxId
<1>5. CASE BlockStep /\ c # Blocks
  BY <1>5 DEF BlockStep, ListMonitored, CheckRefunds, ClaimOutgoing, NoNewBlock, ClaimConfirmedServerLockup
<1>6. ASSUME NEW t \in Tasks, RecoveryStep(t) \/ RescanOnchainSwaps(t), c # t PROVE Stays(c)
  BY <1>6 DEF RecoveryStep, RecoverSwap, RecoveryFails, SaveRecovered, RescanOnchainSwaps
<1>7. CASE Environment /\ ~Restart
  BY <1>7 DEF Environment, GracePeriodEnds, LiquidBlock, BitcoinBlock, LockupVisible, RefundVisible,
     RefundMined, BoltzLocks, ServerLockupReplaced, ServerLockupMined, SpendVisible, SpendMined, BoltzClaims,
     BoltzRefunds, BoltzGivesUp
<1> QED
  BY <1>1, <1>2, <1>3, <1>4, <1>5, <1>6, <1>7 DEF Next, OwnStep, Tasks

\* The labels at which nothing is relied on
Quiet == {"idle", "userMempool", "userConfirmed", "serverMempool", "serverConfirmed", "claim", "liquid",
          "bitcoin", "verify"}

\* How a task comes to the others.
Arrives(c) ==
  \/ pc'[c] \in Quiet
  \/ pc'[c] = "lockup" /\ c = Status /\ SwapCreated
  \/ pc'[c] = "lockedUp" /\ c = Status /\ BroadcastLockup
  \/ pc'[c] \in {"refund", "refunded"} /\ pc[c] = "refund"
  \/ pc'[c] = "refund" /\ c = Status /\ SwapFailed
  \/ pc'[c] = "refund" /\ c = Blocks /\ CheckRefunds /\ IsRefundDue(row, liquid # "below")
  \/ pc'[c] = "build" /\ c \in {Blocks, Status} /\ BeginClaim(c) /\ ~claiming /\ row.claim = NoTx
  \/ pc'[c] = "broadcast" /\ c \in {Blocks, Status} /\ row.claim = NoTx /\ (\E k \in ClaimTxs : SetClaimTxId(c, k))
  \/ pc'[c] = "recover" /\ Scan(c) /\ row.state # "None" /\ row' = row
  \/ pc'[c] = "save" /\ RecoverSwap(c)

\* A task starts at the beginning of its work, and only for a swap that exists.
LEMMA Arrival ==
  ASSUME TypeOK, [Next]_vars, NEW c \in Tasks
  PROVE  Stays(c) \/ (Arrives(c) /\ (row.state = "None" => pc[c] # "idle" \/ pc'[c] = "idle"))
<1> DEFINE Goal == Stays(c) \/ (Arrives(c) /\ (row.state = "None" => pc[c] # "idle" \/ pc'[c] = "idle"))
<1>0. pc \in [Tasks -> PCs] /\ copy \in [Tasks -> Rows] /\ view \in [Tasks -> Views]
  BY DEF TypeOK
<1> USE DEF Arrives, Quiet
<1>1. Leave(c) => pc'[c] = "idle"
  BY <1>0 DEF Leave, Goto
<1>2. \A label : Goto(c, label) => pc'[c] = label
  BY <1>0 DEF Goto
<1>3. \A r, label : Keep(c, r, label) => pc'[c] = label
  BY <1>0 DEF Keep, Goto
<1>4. CASE c = Status /\ StatusStep
  <2> USE <1>1, <1>2, <1>3, <1>4
  <2>1. CASE SwapCreated \/ (\E k \in BOOLEAN : ServerLockupAnnounced(k)) \/ SwapFailed
    <3>1. row.state # "None"
      BY <2>1 DEF SwapCreated, ServerLockupAnnounced, SwapFailed, StatusArrives
    <3>2. CASE SwapFailed /\ UNCHANGED <<pc, copy>>
      BY <3>2 DEF SwapFailed, Stays
    <3> QED
      BY <2>1, <3>1, <3>2 DEF SwapCreated, ServerLockupAnnounced, SwapFailed
  <2>2. CASE BroadcastLockup \/ LockupFails \/ LockupSent
    BY <2>2 DEF BroadcastLockup, LockupFails, LockupSent
  <2>3. CASE UserLockupAnnounced
    BY <2>3 DEF UserLockupAnnounced, taskVars, Stays
  <2>4. CASE VerifyUserLockup \/ VerifyServerLockup
    BY <2>4 DEF VerifyUserLockup, VerifyServerLockup
  <2> QED
    BY <2>1, <2>2, <2>3, <2>4 DEF StatusStep
<1>5. CASE c \in {Blocks, Status} /\ RefundStep(c)
  <2>1. AfterRefund(c) => pc'[c] \in {"bitcoin", "idle"}
    BY <1>2 DEF AfterRefund
  <2> QED
    BY <1>0, <1>2, <1>5, <2>1 DEF RefundStep, SetRefundAddress, BroadcastRefund, RefundSent, RefundFails
<1>6. CASE c \in {Blocks, Status} /\ ClaimStep(c)
  <2> USE <1>1, <1>2, <1>3, <1>6
  <2>1. EndClaim(c) => pc'[c] = "idle"
    BY DEF EndClaim
  <2>2. CASE BeginClaim(c)
    BY <2>2 DEF BeginClaim
  <2>3. ASSUME NEW k \in ClaimTxs, SetClaimTxId(c, k) PROVE Goal
    BY <2>1, <2>3 DEF SetClaimTxId
  <2> QED
    BY <2>1, <2>2, <2>3 DEF ClaimStep, VerifyFails, BuildFails, BroadcastClaim, UnsetClaimTxId
<1>7. CASE c = Blocks /\ BlockStep
  <2> USE <1>1, <1>2, <1>3, <1>7
  <2>1. CASE ListMonitored
    BY <2>1 DEF ListMonitored, Scan
  <2>2. CASE CheckRefunds
    BY <2>2 DEF CheckRefunds
  <2> QED
    BY <2>1, <2>2 DEF BlockStep, ClaimOutgoing, NoNewBlock, ClaimConfirmedServerLockup
<1>8. CASE c \in Rescans /\ RescanOnchainSwaps(c)
  BY <1>3, <1>8 DEF RescanOnchainSwaps, Scan
<1>9. CASE c \in Rescans \cup {Blocks} /\ RecoveryStep(c)
  <2>1. AfterRecovery(c) => pc'[c] \in {"liquid", "idle"}
    BY <1>2 DEF AfterRecovery
  <2> QED
    BY <1>2, <1>9, <2>1 DEF RecoveryStep, RecoverSwap, RecoveryFails, SaveRecovered
<1>10. CASE Restart
  BY <1>10 DEF Restart
<1> QED
  BY <1>4, <1>5, <1>6, <1>7, <1>8, <1>9, <1>10, TaskFrame DEF OwnStep, Stays

\* A handler that moves the swap to another state: the transition is accepted, Failed is what Boltz
\* said, RefundPending follows a refund, and ids that are there stay.
Refunding(t) == pc[t] \in {"refund", "refunded"}

Moves ==
  /\ row'.claim = row.claim /\ (row.lockup # NoTx => row'.lockup = row.lockup)
  /\ row.state = "None" /\ (\A t \in Tasks : pc[t] = "idle") => row' = row
  /\ \/ row'.state = row.state
     \/ /\ <<row.state, row'.state>> \in Allowed
        /\ \/ row'.state \in {"Pending", "TimedOut"}
           \/ row'.state = "Failed" /\ boltz' = "told"
           \/ row'.state = "RefundPending" /\ (\E t \in Tasks : Refunding(t))

\* Who writes the other columns.
ClaimWritten == \E t \in {Blocks, Status} : UnsetClaimTxId(t) \/ (\E k \in ClaimTxs : SetClaimTxId(t, k))
CopyWritten  == \E t \in Rescans \cup {Blocks} : SaveRecovered(t) /\ t \in fresh /\ UpdateRow(copy[t])

\* update_swap_info only moves the row along.
LEMMA UpdateSwapInfoMoves ==
  ASSUME TypeOK, NEW to, NEW l, NEW s, NEW r \in BOOLEAN, update_swap_info(to, l, s, r),
         \/ to \in {"Pending", "TimedOut"}
         \/ to = "Failed" /\ boltz' = "told"
         \/ to = "RefundPending" /\ (\E t \in Tasks : Refunding(t))
  PROVE  Moves
<1>1. CASE UNCHANGED rowVars
  BY <1>1 DEF rowVars, Moves
<1>2. CASE Accepts(to) /\ row' = [row EXCEPT !.state = to, !.lockup = Coalesce(@, l), !.server = Coalesce(@, s),
                                             !.refund = @ \/ r]
  <2>1. row'.state = to /\ row'.claim = row.claim /\ row'.lockup = Coalesce(row.lockup, l)
    BY <1>2 DEF TypeOK, Rows
  <2>2. <<row.state, to>> \in Allowed /\ row.state # "None"
    BY <1>2 DEF Accepts, Allowed
  <2> QED
    BY <2>1, <2>2 DEF Moves, Coalesce
<1> QED
  BY <1>1, <1>2 DEF update_swap_info, UpdateRow

\* The row changes when the swap is created, a copy is saved, a claim is written, or it moves along.
LEMMA RowFrame ==
  ASSUME TypeOK, [Next]_vars
  PROVE  PayOnchain \/ CopyWritten \/ ClaimWritten \/ Moves
<1> USE DEF rowVars
<1>0. row \in Rows
  BY DEF TypeOK
<1>1. row' = row => Moves
  BY DEF Moves
<1>2. CASE StatusStep
  <2>1. CASE UserLockupAnnounced
    <3>1. PICK u \in SeenLockups \cup {NoTx}, z \in ZeroConf \cup {row.zeroConf} :
            row' = IF u # NoTx /\ Accepts("Pending")
                     THEN [[row EXCEPT !.zeroConf = z] EXCEPT !.state = "Pending", !.lockup = Coalesce(@, u)]
                     ELSE [row EXCEPT !.zeroConf = z]
      BY <2>1 DEF UserLockupAnnounced, UpdateRow
    <3>2. row.state # "None"
      BY <2>1 DEF UserLockupAnnounced, StatusArrives
    <3>3. CASE u # NoTx /\ Accepts("Pending")
      <4>1. row'.state = "Pending" /\ row'.claim = row.claim /\ row'.lockup = Coalesce(row.lockup, u)
        BY <1>0, <3>1, <3>3 DEF Rows
      <4> QED
        BY <3>2, <3>3, <4>1 DEF Moves, Accepts, Coalesce
    <3>4. CASE ~(u # NoTx /\ Accepts("Pending"))
      BY <1>0, <3>1, <3>2, <3>4 DEF Rows, Moves
    <3> QED
      BY <3>3, <3>4
  <2>2. CASE LockupSent \/ VerifyUserLockup \/ VerifyServerLockup
    BY <1>1, <2>2, UpdateSwapInfoMoves DEF LockupSent, VerifyUserLockup, VerifyServerLockup
  <2>3. CASE SwapFailed
    BY <1>1, <2>3, UpdateSwapInfoMoves DEF SwapFailed
  <2>4. CASE SwapCreated \/ BroadcastLockup \/ LockupFails \/ (\E c \in BOOLEAN : ServerLockupAnnounced(c))
    BY <1>1, <2>4 DEF SwapCreated, BroadcastLockup, LockupFails, ServerLockupAnnounced
  <2> QED
    BY <1>2, <2>1, <2>2, <2>3, <2>4 DEF StatusStep
<1>3. ASSUME NEW t \in {Blocks, Status}, RefundStep(t) PROVE Moves
  <2>1. CASE SetRefundAddress(t)
    <3>1. row' = [row EXCEPT !.raddr = TRUE] /\ pc[t] = "refund"
      BY <2>1 DEF SetRefundAddress, UpdateRow
    <3> QED
      BY <1>0, <3>1, TaskNames DEF Rows, Moves
  <2>2. CASE RefundSent(t) \/ RefundFails(t)
    <3>1. \E u \in Tasks : Refunding(u)
      BY <2>2, TaskNames DEF RefundSent, RefundFails, Refunding
    <3> QED
      BY <1>1, <2>2, <3>1, UpdateSwapInfoMoves DEF RefundSent, RefundFails
  <2> QED
    BY <1>1, <1>3, <2>1, <2>2 DEF RefundStep, BroadcastRefund
<1>4. ASSUME NEW t \in {Blocks, Status}, ClaimStep(t) PROVE ClaimWritten \/ Moves
  BY <1>1, <1>4 DEF ClaimStep, VerifyFails, BeginClaim, BuildFails, BroadcastClaim, ClaimWritten
<1>5. ASSUME NEW t \in Rescans \cup {Blocks}, RecoveryStep(t) PROVE CopyWritten \/ Moves
  BY <1>1, <1>5 DEF RecoveryStep, RecoverSwap, RecoveryFails, SaveRecovered, CopyWritten, CopyIsFresh
<1>6. CASE BlockStep \/ (\E t \in Rescans : RescanOnchainSwaps(t)) \/ UNCHANGED vars
  BY <1>1, <1>6 DEF BlockStep, ListMonitored, CheckRefunds, ClaimOutgoing, NoNewBlock,
     ClaimConfirmedServerLockup, RescanOnchainSwaps, vars
<1>7. CASE Environment
  BY <1>1, <1>7 DEF Environment, Restart, GracePeriodEnds, LiquidBlock, BitcoinBlock, LockupVisible, RefundVisible,
     RefundMined, BoltzLocks, ServerLockupReplaced, ServerLockupMined, SpendVisible, SpendMined, BoltzClaims,
     BoltzRefunds, BoltzGivesUp
<1>8. CASE PaymentTimeout
  BY <1>8, UpdateSwapInfoMoves DEF PaymentTimeout
<1> QED
  BY <1>2, <1>3, <1>4, <1>5, <1>6, <1>7, <1>8 DEF Next

\* The version of the row: a copy is fresh as long as nothing is written, and grace only ends.
LEMMA FreshFrame ==
  ASSUME TypeOK, [Next]_vars, NEW c \in fresh'
  PROVE  row' = row /\ (grace' => grace) /\ (c \in fresh \/ (Scan(c) /\ grace' = grace))
<1> DEFINE Keeps == row' = row /\ (grace' => grace) /\ (c \in fresh \/ (Scan(c) /\ grace' = grace))
<1> USE DEF rowVars, UpdateRow
<1>0. grace \in BOOLEAN /\ (row' = row /\ grace' = grace /\ fresh' = fresh => Keeps) /\ c \notin {}
  BY DEF TypeOK
<1>a. \A to, l, s, r : update_swap_info(to, l, s, r) => Keeps
  BY <1>0 DEF update_swap_info
<1>1. CASE PayOnchain \/ PaymentTimeout \/ UNCHANGED vars
  BY <1>0, <1>a, <1>1 DEF PayOnchain, PaymentTimeout, vars
<1>2. CASE StatusStep
  BY <1>0, <1>a, <1>2 DEF StatusStep, SwapCreated, BroadcastLockup, LockupFails, LockupSent, UserLockupAnnounced,
     ServerLockupAnnounced, VerifyUserLockup, VerifyServerLockup, SwapFailed
<1>3. ASSUME NEW t \in {Blocks, Status}, RefundStep(t) PROVE Keeps
  BY <1>0, <1>a, <1>3 DEF RefundStep, SetRefundAddress, BroadcastRefund, RefundSent, RefundFails
<1>4. ASSUME NEW t \in {Blocks, Status}, ClaimStep(t) PROVE Keeps
  BY <1>0, <1>4 DEF ClaimStep, VerifyFails, BeginClaim, SetClaimTxId, BuildFails, BroadcastClaim, UnsetClaimTxId
<1>5. CASE BlockStep
  BY <1>0, <1>5 DEF BlockStep, ListMonitored, CheckRefunds, ClaimOutgoing, NoNewBlock, ClaimConfirmedServerLockup, Scan
<1>6. ASSUME NEW t \in Rescans, RescanOnchainSwaps(t) PROVE Keeps
  <2>1. Scan(t) /\ fresh' = fresh \cup {t} /\ row' = row /\ grace' = grace
    BY <1>6 DEF RescanOnchainSwaps, Scan
  <2> QED
    BY <1>0, <2>1
<1>7. ASSUME NEW t \in Rescans \cup {Blocks}, RecoveryStep(t) PROVE Keeps
  BY <1>0, <1>7 DEF RecoveryStep, RecoverSwap, RecoveryFails, SaveRecovered
<1>8. CASE Environment
  BY <1>0, <1>8 DEF Environment, Restart, GracePeriodEnds, LiquidBlock, BitcoinBlock, LockupVisible, RefundVisible,
     RefundMined, BoltzLocks, ServerLockupReplaced, ServerLockupMined, SpendVisible, SpendMined, BoltzClaims,
     BoltzRefunds, BoltzGivesUp
<1> QED
  BY <1>1, <1>2, <1>3, <1>4, <1>5, <1>6, <1>7, <1>8 DEF Next

\* The grace period ends by itself only, and every write starts it anew.
LEMMA GraceFrame ==
  ASSUME TypeOK, [Next]_vars
  PROVE  (grace => grace' \/ GracePeriodEnds) /\ (row' # row => grace')
<1> DEFINE Kept == (grace => grace' \/ GracePeriodEnds) /\ (row' # row => grace')
<1> USE DEF rowVars, UpdateRow
<1>0. \A to, l, s, r : update_swap_info(to, l, s, r) => Kept
  BY DEF TypeOK, update_swap_info
<1>1. CASE PayOnchain \/ PaymentTimeout \/ UNCHANGED vars
  <2>1. CASE PayOnchain
    BY <2>1 DEF PayOnchain
  <2>2. CASE PaymentTimeout
    BY <1>0, <2>2 DEF PaymentTimeout
  <2> QED
    BY <1>1, <2>1, <2>2 DEF vars
<1>2. CASE StatusStep
  BY <1>0, <1>2 DEF StatusStep, SwapCreated, BroadcastLockup, LockupFails, LockupSent, UserLockupAnnounced,
     ServerLockupAnnounced, VerifyUserLockup, VerifyServerLockup, SwapFailed
<1>3. ASSUME NEW t \in {Blocks, Status}, RefundStep(t) PROVE Kept
  <2>1. CASE SetRefundAddress(t) \/ BroadcastRefund(t)
    BY <2>1 DEF SetRefundAddress, BroadcastRefund
  <2>2. CASE RefundSent(t)
    BY <1>0, <2>2 DEF RefundSent
  <2>3. CASE RefundFails(t)
    BY <1>0, <2>3 DEF RefundFails
  <2> QED
    BY <1>3, <2>1, <2>2, <2>3 DEF RefundStep
<1>4. ASSUME NEW t \in {Blocks, Status}, ClaimStep(t) PROVE Kept
  BY <1>4 DEF ClaimStep, VerifyFails, BeginClaim, SetClaimTxId, BuildFails, BroadcastClaim, UnsetClaimTxId
<1>5. CASE BlockStep
  BY <1>5 DEF BlockStep, ListMonitored, CheckRefunds, ClaimOutgoing, NoNewBlock, ClaimConfirmedServerLockup
<1>6. ASSUME NEW t \in Tasks, RecoveryStep(t) \/ RescanOnchainSwaps(t) PROVE Kept
  BY <1>6 DEF RecoveryStep, RecoverSwap, RecoveryFails, SaveRecovered, RescanOnchainSwaps
<1>7. CASE Environment
  BY <1>7 DEF Environment, Restart, GracePeriodEnds, LiquidBlock, BitcoinBlock, LockupVisible, RefundVisible,
     RefundMined, BoltzLocks, ServerLockupReplaced, ServerLockupMined, SpendVisible, SpendMined, BoltzClaims,
     BoltzRefunds, BoltzGivesUp
<1> QED
  BY <1>1, <1>2, <1>3, <1>4, <1>5, <1>6, <1>7 DEF Next, Tasks

\* The id leaves claiming_swaps when claim_inner ends, or with the process.
Claiming(t) == pc[t] \in {"build", "broadcast"}

\* Only its holder, or a restart, gives the lock of the claim back.
LEMMA ClaimingFrame ==
  ASSUME TypeOK, [Next]_vars, claiming
  PROVE  claiming' \/ Restart \/ (\E t \in {Blocks, Status} : Claiming(t) /\ EndClaim(t))
<1> USE DEF taskVars
<1>1. CASE PayOnchain \/ PaymentTimeout \/ UNCHANGED vars
  BY <1>1 DEF PayOnchain, PaymentTimeout, vars
<1>2. CASE StatusStep
  BY <1>2 DEF StatusStep, SwapCreated, BroadcastLockup, LockupFails, LockupSent, UserLockupAnnounced,
     ServerLockupAnnounced, VerifyUserLockup, VerifyServerLockup, SwapFailed
<1>3. ASSUME NEW t \in {Blocks, Status}, RefundStep(t) PROVE claiming'
  BY <1>3 DEF RefundStep, SetRefundAddress, BroadcastRefund, RefundSent, RefundFails
<1>4. ASSUME NEW t \in {Blocks, Status}, ClaimStep(t) PROVE claiming' \/ (Claiming(t) /\ EndClaim(t))
  BY <1>4 DEF ClaimStep, VerifyFails, BeginClaim, SetClaimTxId, BuildFails, BroadcastClaim, UnsetClaimTxId, Claiming
<1>5. CASE BlockStep
  BY <1>5 DEF BlockStep, ListMonitored, CheckRefunds, ClaimOutgoing, NoNewBlock, ClaimConfirmedServerLockup
<1>6. ASSUME NEW t \in Tasks, RecoveryStep(t) \/ RescanOnchainSwaps(t) PROVE claiming'
  BY <1>6 DEF RecoveryStep, RecoverSwap, RecoveryFails, SaveRecovered, RescanOnchainSwaps
<1>7. CASE Environment
  BY <1>7 DEF Environment, GracePeriodEnds, LiquidBlock, BitcoinBlock, LockupVisible, RefundVisible,
     RefundMined, BoltzLocks, ServerLockupReplaced, ServerLockupMined, SpendVisible, SpendMined, BoltzClaims,
     BoltzRefunds, BoltzGivesUp
<1> QED
  BY <1>1, <1>2, <1>3, <1>4, <1>5, <1>6, <1>7 DEF Next, Tasks

-----------------------------------------------------------------------------
(* The lockup and its id. *)

\* Before the swap is created nothing works on it, and nothing is on the chains
NothingBefore ==
  row.state = "None" =>
    /\ row = NoRow /\ \A t \in Tasks : pc[t] = "idle"
    /\ \A u \in UserLockups : lockups[u] = "none"
    /\ server.at = "none" /\ spend.by = NoTx

\* A copy under recovery is of a swap that exists
CopiesAgree ==
  \A t \in Tasks : pc[t] \in {"recover", "save"} =>
    copy[t].state # "None" /\ (pc[t] = "recover" /\ t \in fresh => copy[t] = row)

\* The grace period lasts until the lockup whose id was stored can be seen
GraceCoversLockup == row.lockup # NoTx => grace \/ SeenLockups # {}

\* A copy that passes the version check does not make the row forget its lockup
CopyKeepsLockup ==
  \A t \in fresh : row.lockup # NoTx =>
    /\ pc[t] = "recover" => view[t].recent \/ view[t].lockups # {}
    /\ pc[t] = "save" => copy[t].lockup # NoTx

\* The inductive invariant
LockupInv == TypeOK /\ NothingBefore /\ CopiesAgree /\ GraceCoversLockup /\ CopyKeepsLockup

\* What recovery makes of a swap.
LEMMA RecoveredRow ==
  ASSUME NEW s \in Rows, NEW v, NEW u
  PROVE  LET r    == Recovered(s, v, u)
             skip == should_skip_recovery(s, v.recent, u, FoundClaim, v.refund)
         IN  \/ skip /\ r = s
             \/ /\ ~skip /\ r.lockup = u /\ r.claim = FoundClaim
                /\ r.state = derive_partial_state(s.state, u, FoundClaim, v.refund, v.expired)
<1> DEFINE d == derive_partial_state(s.state, u, FoundClaim, v.refund, v.expired)
           f == FoundClaim
<1>1. CASE should_skip_recovery(s, v.recent, u, f, v.refund)
  BY <1>1 DEF Recovered
<1>2. CASE ~should_skip_recovery(s, v.recent, u, f, v.refund)
  <2>1. Recovered(s, v, u)
          = [s EXCEPT !.state = d, !.lockup = u, !.server = server.id, !.claim = f, !.refund = v.refund]
    BY <1>2 DEF Recovered
  <2> HIDE DEF d, f
  <2>2. Recovered(s, v, u).state = d /\ Recovered(s, v, u).lockup = u /\ Recovered(s, v, u).claim = f
    BY <2>1 DEF Rows
  <2> QED
    BY <1>2, <2>2 DEF d, f
<1> QED
  BY <1>1, <1>2

\* A lockup that was broadcast or seen stays so.
LEMMA SeenStable ==
  ASSUME TypeOK, [Next]_vars
  PROVE  SeenLockups \subseteq SeenLockups' /\ Lockups \subseteq Lockups'
  BY ChainFrame DEF TypeOK, SeenLockups, Lockups, BroadcastLockup, LockupVisible

\* A row that is there stays, and so does the fact that it is.
LEMMA StateStep ==
  ASSUME TypeOK, CopiesAgree, [Next]_vars, row'.state = "None"
  PROVE  row.state = "None" /\ ((\A t \in Tasks : pc[t] = "idle") => row' = row)
<1>0. row \in Rows /\ copy \in [Tasks -> Rows]
  BY DEF TypeOK
<1>1. ~PayOnchain
  BY DEF PayOnchain, UpdateRow, NoRow
<1>2. ~CopyWritten
  BY TaskNames DEF CopyWritten, SaveRecovered, UpdateRow, CopiesAgree
<1>3. CASE ClaimWritten
  <2>1. row'.state = row.state
    BY <1>0, <1>3 DEF ClaimWritten, UnsetClaimTxId, SetClaimTxId, UpdateRow, rowVars, Rows
  <2>2. ~(\A t \in Tasks : pc[t] = "idle")
    BY <1>3, TaskNames DEF ClaimWritten, UnsetClaimTxId, SetClaimTxId
  <2> QED
    BY <2>1, <2>2
<1>4. CASE Moves
  BY <1>4 DEF Moves
<1> QED
  BY <1>1, <1>2, <1>3, <1>4, RowFrame

\* Before the swap exists nothing happens.
LEMMA NothingBeforeStep ==
  ASSUME LockupInv, TypeOK, [Next]_vars
  PROVE  NothingBefore'
<1> SUFFICES ASSUME row'.state = "None"
             PROVE  /\ row' = NoRow /\ \A t \in Tasks : pc'[t] = "idle"
                    /\ \A u \in UserLockups : lockups'[u] = "none"
                    /\ server'.at = "none" /\ spend'.by = NoTx
  BY DEF NothingBefore
<1>1. row.state = "None" /\ row' = row
  BY StateStep DEF LockupInv, NothingBefore
<1>2. /\ row = NoRow /\ \A t \in Tasks : pc[t] = "idle"
      /\ \A u \in UserLockups : lockups[u] = "none"
      /\ server.at = "none" /\ spend.by = NoTx
  BY <1>1 DEF LockupInv, NothingBefore
<1>3. \A t \in Tasks : pc'[t] = "idle"
  BY <1>1, <1>2, Arrival DEF Stays
<1>4. UNCHANGED lockups
  BY <1>2, TaskNames, ChainFrame DEF BroadcastLockup, LockupVisible
<1>5. UNCHANGED server
  BY <1>2, ServerStep DEF BoltzLocks, SeenLockups, ServerLockupReplaced, ServerLockupMined
<1>6. spend'.by = spend.by
  BY <1>2, TaskNames, ChainFrame DEF SpendVisible, SpendMined, BoltzRefunds, BroadcastClaim, UnsetClaimTxId, TypeOK
<1> QED
  BY <1>1, <1>2, <1>3, <1>4, <1>5, <1>6

\* A copy that was just read is the row.
LEMMA CopiesStep ==
  ASSUME LockupInv, TypeOK, [Next]_vars
  PROVE  CopiesAgree'
<1> SUFFICES ASSUME NEW t \in Tasks, pc'[t] \in {"recover", "save"}
             PROVE  copy'[t].state # "None" /\ (pc'[t] = "recover" /\ t \in fresh' => copy'[t] = row')
  BY DEF CopiesAgree
<1>0. pc \in [Tasks -> PCs] /\ copy \in [Tasks -> Rows] /\ CopiesAgree
  BY DEF TypeOK, LockupInv
<1>1. CASE Stays(t)
  BY <1>0, <1>1, FreshFrame DEF Stays, CopiesAgree, Scan, Keep, Goto
<1>2. CASE Scan(t) /\ row.state # "None" /\ row' = row
  BY <1>0, <1>2 DEF Scan, Keep, Goto
<1>3. CASE RecoverSwap(t)
  <2>1. PICK u : copy'[t] = Recovered(copy[t], view[t], u)
    BY <1>0, <1>3 DEF RecoverSwap
  <2>2. copy[t].state # "None" /\ pc'[t] = "save" /\ copy[t] \in Rows
    BY <1>0, <1>3 DEF RecoverSwap, CopiesAgree, Goto
  <2>3. \A v, c, e, s : s # "None" => derive_partial_state(s, u, c, v, e) # "None"
    BY DEF derive_partial_state
  <2> QED
    BY <2>1, <2>2, <2>3, RecoveredRow
<1> QED
  BY <1>1, <1>2, <1>3, Arrival DEF Arrives, Quiet

\* A lockup that was written stays written.
LEMMA LockupKept ==
  ASSUME LockupInv, TypeOK, [Next]_vars, row.lockup # NoTx
  PROVE  row'.lockup # NoTx
<1>0. row \in Rows /\ copy \in [Tasks -> Rows]
  BY DEF TypeOK
<1>1. ~PayOnchain
  <2>1. NoRow.lockup = NoTx
    BY DEF NoRow
  <2>2. row.state = "None" => row.lockup = NoTx
    BY <2>1 DEF LockupInv, NothingBefore
  <2> QED
    BY <2>2 DEF PayOnchain
<1>2. CASE CopyWritten
  BY <1>2 DEF CopyWritten, SaveRecovered, UpdateRow, LockupInv, CopyKeepsLockup
<1>3. CASE ClaimWritten
  BY <1>0, <1>3 DEF ClaimWritten, UnsetClaimTxId, SetClaimTxId, UpdateRow, rowVars, Rows
<1>4. CASE Moves
  BY <1>4 DEF Moves
<1> QED
  BY <1>1, <1>2, <1>3, <1>4, RowFrame

\* A lockup that no scan can see yet is in its grace period.
LEMMA GraceCoversLockupStep ==
  ASSUME LockupInv, TypeOK, [Next]_vars
  PROVE  GraceCoversLockup'
<1> SUFFICES ASSUME row' = row, row.lockup # NoTx
             PROVE  grace' \/ SeenLockups' # {}
  BY GraceFrame DEF GraceCoversLockup
<1>1. grace \/ SeenLockups # {}
  BY DEF LockupInv, GraceCoversLockup
<1>2. GracePeriodEnds => row.lockup \in SeenLockups
  BY DEF GracePeriodEnds, SeenLockups, TypeOK, Rows
<1> QED
  BY <1>1, <1>2, GraceFrame, SeenStable

\* A copy that will be saved keeps the lockup of the row, or its scan saw one.
LEMMA CopyKeepsLockupStep ==
  ASSUME LockupInv, TypeOK, TypeOK', [Next]_vars
  PROVE  CopyKeepsLockup'
<1> SUFFICES ASSUME NEW t \in fresh', row'.lockup # NoTx
             PROVE  /\ pc'[t] = "recover" => view'[t].recent \/ view'[t].lockups # {}
                    /\ pc'[t] = "save" => copy'[t].lockup # NoTx
  BY DEF CopyKeepsLockup
<1>0. /\ t \in Tasks /\ pc \in [Tasks -> PCs] /\ copy \in [Tasks -> Rows] /\ view \in [Tasks -> Views]
      /\ CopiesAgree /\ GraceCoversLockup /\ CopyKeepsLockup
  BY DEF TypeOK, LockupInv
<1>1. row' = row /\ (t \in fresh \/ Scan(t))
  BY FreshFrame
<1>2. CASE Scan(t)
  <2>1. pc'[t] = "recover" /\ view'[t].recent = grace /\ view'[t].lockups = SeenLockups
    BY <1>0, <1>2 DEF Scan, Keep, Goto
  <2> QED
    BY <1>0, <1>1, <2>1 DEF GraceCoversLockup
<1>3. CASE Stays(t) /\ t \in fresh
  BY <1>0, <1>1, <1>3 DEF Stays, CopyKeepsLockup
<1>4. CASE RecoverSwap(t) /\ t \in fresh
  <2>1. PICK u \in IF view[t].lockups = {} THEN {NoTx} ELSE view[t].lockups :
          copy' = [copy EXCEPT ![t] = Recovered(copy[t], view[t], u)]
    BY <1>4 DEF RecoverSwap
  <2>2. /\ pc'[t] = "save" /\ copy[t] = row /\ copy'[t] = Recovered(row, view[t], u)
        /\ view[t].recent \/ view[t].lockups # {}
    BY <1>0, <1>1, <1>4, <2>1 DEF RecoverSwap, Goto, CopiesAgree, CopyKeepsLockup
  <2>3. view[t].lockups # {} => u # NoTx
    BY <1>0, <2>1, TxsAssumption DEF Views
  <2> QED
    BY <1>0, <1>1, <2>2, <2>3, RecoveredRow DEF should_skip_recovery
<1> QED
  BY <1>0, <1>1, <1>2, <1>3, <1>4, Arrival DEF Arrives, Quiet

LEMMA LockupInvInit == Init => LockupInv
<1> SUFFICES ASSUME Init
             PROVE  LockupInv
  OBVIOUS
<1>1. NothingBefore /\ CopiesAgree /\ GraceCoversLockup /\ CopyKeepsLockup
  BY DEF Init, NothingBefore, CopiesAgree, GraceCoversLockup, CopyKeepsLockup, NoRow
<1> QED
  BY <1>1, InitType DEF LockupInv

LEMMA LockupInvStep ==
  ASSUME LockupInv, [Next]_vars
  PROVE  LockupInv'
<1>1. TypeOK /\ TypeOK'
  BY NextType DEF LockupInv
<1> QED
  BY <1>1, NothingBeforeStep, CopiesStep, GraceCoversLockupStep, CopyKeepsLockupStep DEF LockupInv

\* For any rescans, txs and restarts, with lost answers, and whatever Boltz does: the row does not
\* lose the id of its lockup. A copy is written without one only if the wallet did not show the
\* lockup when the copy was read; that the grace period was on then is what the proof is about.
THEOREM LockupIsNeverLost == Spec => LockupIdIsKept
<1>1. LockupInv /\ [Next]_vars => LockupInv'
  BY LockupInvStep
<1>2. LockupInv /\ [Next]_vars => [row.lockup # NoTx => row'.lockup # NoTx]_vars
  BY LockupKept DEF LockupInv
<1> QED
  BY <1>1, <1>2, LockupInvInit, PTL DEF Spec, LockupIdIsKept

-----------------------------------------------------------------------------
(* The funding. *)

\* swap.created would still fund the swap, if it came
MayFund == ~IsExpired /\ boltz # "told" /\ row.lockup = NoTx

\* What a task read of the timeouts stays true
ExpiredSeen == \A t \in Tasks : view[t].expired => IsExpired

\* A swap that may be funded has not failed, is not refunded, and recovery leaves its state
FundableIsOpen ==
  MayFund =>
    /\ row.state \in {"None", "Created", "Pending", "TimedOut"}
    /\ \A t \in Tasks : ~Refunding(t)
    /\ \A t \in fresh : pc[t] = "save" /\ copy[t].lockup = NoTx => copy[t].state = row.state

\* While the status handler funds the swap it neither expires nor fails
FundingOpen == pc[Status] \in {"lockup", "lockedUp"} => ~IsExpired /\ boltz # "told"

LockedUpIsSent == pc[Status] = "lockedUp" => copy[Status].lockup \in Lockups

\* As long as the swap may be funded, it was so only by processes that crashed
FundedBefore ==
  \/ pc[Status] = "lockup"
  \/ MayFund /\ row.state # "TimedOut" /\ pc[Status] # "lockedUp"
  => Cardinality(Lockups) <= restarts

\* The inductive invariant
FundInv ==
  /\ LockupInv /\ ExpiredSeen /\ FundableIsOpen /\ FundingOpen /\ LockedUpIsSent
  /\ IsFiniteSet(Lockups) /\ FundedBefore /\ FundedOncePerStart

\* A timeout that came, and a failure that Boltz announced, stay.
LEMMA TipsGoOn ==
  ASSUME TypeOK, [Next]_vars
  PROVE  /\ IsExpired => IsExpired'
         /\ boltz = "told" => boltz' = "told"
         /\ IsExpired' => IsExpired \/ (LockupIsOut /\ boltz' = boltz)
<1>1. IsExpired => IsExpired'
  BY ChainFrame DEF IsExpired, tipVars, LiquidBlock, BitcoinBlock, NextTip
<1>2. boltz = "told" => boltz' = "told"
  BY ChainFrame DEF SwapFailed, BoltzRefunds, BoltzGivesUp
<1>3. IsExpired' => IsExpired \/ (LockupIsOut /\ boltz' = boltz)
  BY ChainFrame DEF IsExpired, tipVars, LiquidBlock, BitcoinBlock, boltzVars
<1> QED
  BY <1>1, <1>2, <1>3

\* What may be funded now might have been funded before.
LEMMA MayFundBefore ==
  ASSUME LockupInv, TypeOK, [Next]_vars, MayFund'
  PROVE  MayFund
  BY TipsGoOn, LockupKept DEF MayFund

\* What a task reads of the chains, it reads as it is.
LEMMA ViewStep ==
  ASSUME TypeOK, [Next]_vars, NEW c \in Tasks
  PROVE  /\ view'[c].expired => view[c].expired \/ IsExpired
         /\ view'[c].refund => view[c].refund \/ refund.at \in {"seen", "mined"}
<1> DEFINE Goal == /\ view'[c].expired => view[c].expired \/ IsExpired
                   /\ view'[c].refund => view[c].refund \/ refund.at \in {"seen", "mined"}
<1>0. view \in [Tasks -> Views] /\ Status \in Tasks /\ Blocks \in Tasks
  BY TaskNames DEF TypeOK
<1>1. view' = view \/ view'[c] = NoView => Goal
  BY DEF NoView
<1>2. CASE OwnStep(c)
  <2>1. CASE c = Status /\ StatusStep
    <3>1. view' = view
      BY <2>1 DEF StatusStep, SwapCreated, BroadcastLockup, LockupFails, LockupSent, UserLockupAnnounced,
         ServerLockupAnnounced, VerifyUserLockup, VerifyServerLockup, SwapFailed, taskVars
    <3> QED
      BY <1>1, <3>1
  <2>2. CASE c \in {Blocks, Status} /\ RefundStep(c)
    <3>1. view' = view \/ view'[c] = NoView
      BY <1>0, <2>2 DEF RefundStep, SetRefundAddress, BroadcastRefund, RefundSent, RefundFails, AfterRefund
    <3> QED
      BY <1>1, <3>1
  <2>3. CASE c \in {Blocks, Status} /\ ClaimStep(c)
    <3>1. view' = view
      BY <2>3 DEF ClaimStep, VerifyFails, BeginClaim, SetClaimTxId, BuildFails, BroadcastClaim, UnsetClaimTxId
    <3> QED
      BY <1>1, <3>1
  <2>4. ASSUME Scan(c) PROVE Goal
    <3>1. /\ view'[c].expired <=> IsExpired
          /\ view'[c].refund <=> refund.at \in {"seen", "mined"}
      BY <1>0, <2>4 DEF Scan
    <3> QED
      BY <3>1
  <2>5. CASE CheckRefunds /\ c = Blocks
    <3>1. view' = view \/ view' = [view EXCEPT ![Blocks].expired = (liquid # "below")]
      BY <2>5 DEF CheckRefunds
    <3>2. view' = [view EXCEPT ![Blocks].expired = (liquid # "below")] => Goal
      BY <1>0, <2>5 DEF IsExpired, Views
    <3> QED
      BY <1>1, <3>1, <3>2
  <2>6. CASE BlockStep /\ c = Blocks
    <3>1. CASE ListMonitored
      BY <1>1, <2>4, <2>6, <3>1 DEF ListMonitored
    <3>2. CASE ClaimOutgoing \/ NoNewBlock \/ ClaimConfirmedServerLockup
      BY <1>1, <3>2 DEF ClaimOutgoing, NoNewBlock, ClaimConfirmedServerLockup
    <3> QED
      BY <2>5, <2>6, <3>1, <3>2 DEF BlockStep
  <2>7. CASE RecoveryStep(c)
    <3>1. view'[c] = NoView
      BY <1>0, <2>7 DEF RecoveryStep, RecoverSwap, RecoveryFails, SaveRecovered, AfterRecovery
    <3> QED
      BY <1>1, <3>1
  <2>8. CASE Restart
    BY <1>1, <2>8 DEF Restart
  <2> QED
    BY <1>2, <2>1, <2>2, <2>3, <2>4, <2>6, <2>7, <2>8 DEF OwnStep, RescanOnchainSwaps
<1> QED
  BY <1>2, TaskFrame DEF Stays

\* A task that saw the timeout pass is right.
LEMMA ExpiredSeenStep ==
  ASSUME FundInv, TypeOK, [Next]_vars
  PROVE  ExpiredSeen'
<1>1. \A c \in Tasks : view'[c].expired => IsExpired
  BY ViewStep DEF FundInv, ExpiredSeen
<1> QED
  BY <1>1, TipsGoOn DEF ExpiredSeen

\* A swap that may be funded has not failed, and recovery leaves its state.
LEMMA FundableStep ==
  ASSUME FundInv, TypeOK, TypeOK', [Next]_vars
  PROVE  FundableIsOpen'
<1> SUFFICES ASSUME MayFund'
             PROVE  /\ row'.state \in {"None", "Created", "Pending", "TimedOut"}
                    /\ \A t \in Tasks : ~Refunding(t)'
                    /\ \A t \in fresh' : pc'[t] = "save" /\ copy'[t].lockup = NoTx => copy'[t].state = row'.state
  BY DEF FundableIsOpen
<1>0. /\ row \in Rows /\ copy \in [Tasks -> Rows] /\ pc \in [Tasks -> PCs] /\ view \in [Tasks -> Views]
      /\ MayFund /\ ExpiredSeen /\ CopiesAgree /\ LockupInv
      /\ row.state \in {"None", "Created", "Pending", "TimedOut"}
      /\ \A t \in Tasks : ~Refunding(t)
      /\ \A t \in fresh : pc[t] = "save" /\ copy[t].lockup = NoTx => copy[t].state = row.state
  BY MayFundBefore DEF TypeOK, FundInv, LockupInv, FundableIsOpen
<1>1. row'.state \in {"None", "Created", "Pending", "TimedOut"}
  <2>1. CASE PayOnchain
    <3>1. PICK z \in ZeroConf : row' = [NoRow EXCEPT !.state = "Created", !.zeroConf = z]
      BY <2>1 DEF PayOnchain, UpdateRow
    <3> QED
      BY <3>1 DEF NoRow
  <2>2. CASE CopyWritten
    BY <1>0, <2>2 DEF CopyWritten, SaveRecovered, UpdateRow, MayFund
  <2>3. CASE ClaimWritten
    BY <1>0, <2>3 DEF ClaimWritten, UnsetClaimTxId, SetClaimTxId, UpdateRow, rowVars, Rows
  <2>4. CASE Moves
    BY <1>0, <2>4 DEF Moves, MayFund
  <2> QED
    BY <2>1, <2>2, <2>3, <2>4, RowFrame
<1>2. ASSUME NEW t \in Tasks PROVE ~Refunding(t)'
  <2>1. ~(CheckRefunds /\ IsRefundDue(row, liquid # "below"))
    BY <1>0 DEF IsRefundDue, MayFund, IsExpired
  <2>2. ~(SwapFailed)
    BY DEF SwapFailed, MayFund
  <2> QED
    BY <1>0, <2>1, <2>2, Arrival DEF Arrives, Quiet, Stays, Refunding
<1>3. ASSUME NEW t \in fresh', pc'[t] = "save", copy'[t].lockup = NoTx
      PROVE  copy'[t].state = row'.state
  <2>0. t \in Tasks /\ row' = row /\ (t \in fresh \/ Scan(t))
    BY FreshFrame DEF TypeOK
  <2>1. t \in fresh
    BY <1>0, <1>3, <2>0 DEF Scan, Keep, Goto
  <2>2. CASE Stays(t)
    BY <1>0, <1>3, <2>0, <2>1, <2>2 DEF Stays
  <2>3. CASE RecoverSwap(t)
    <3>1. PICK u : copy'[t] = Recovered(copy[t], view[t], u)
      BY <1>0, <2>0, <2>3 DEF RecoverSwap
    <3>2. copy[t] = row /\ ~view[t].expired
      BY <1>0, <2>0, <2>1, <2>3 DEF RecoverSwap, CopiesAgree, ExpiredSeen, MayFund
    <3>3. \A s, c, r : derive_partial_state(s, NoTx, c, r, view[t].expired) = s
      BY <3>2 DEF derive_partial_state
    <3> QED
      BY <1>0, <1>3, <2>0, <3>1, <3>2, <3>3, RecoveredRow
  <2> QED
    BY <1>3, <2>0, <2>2, <2>3, Arrival DEF Arrives, Quiet
<1> QED
  BY <1>1, <1>2, <1>3

\* A task that is funding the swap ends that by its own steps, or with the process.
LEMMA FundingFrame ==
  ASSUME TypeOK, [Next]_vars, pc[Status] \in {"lockup", "lockedUp"}
  PROVE  /\ pc[Status] = "lockup" => Stays(Status) \/ BroadcastLockup \/ LockupFails \/ Restart
         /\ pc[Status] = "lockedUp" => Stays(Status) \/ LockupSent \/ Restart
<1>0. Status # Blocks /\ Status \notin Rescans
  BY TasksAssumption
<1>1. StatusStep => BroadcastLockup \/ LockupFails \/ (LockupSent /\ pc[Status] = "lockedUp") \/ Stays(Status)
  BY DEF StatusStep, SwapCreated, LockupSent, UserLockupAnnounced, ServerLockupAnnounced, VerifyUserLockup,
     VerifyServerLockup, SwapFailed, StatusArrives
<1>2. (BroadcastLockup \/ LockupFails) => pc[Status] = "lockup"
  BY DEF BroadcastLockup, LockupFails
<1>3. ~RefundStep(Status) /\ ~ClaimStep(Status)
  BY DEF RefundStep, SetRefundAddress, BroadcastRefund, RefundSent, RefundFails,
         ClaimStep, VerifyFails, BeginClaim, SetClaimTxId, BuildFails, BroadcastClaim, UnsetClaimTxId
<1> QED
  BY <1>0, <1>1, <1>2, <1>3, TaskFrame, TaskNames DEF OwnStep

\* The lockups that were broadcast, and the crashes.
LEMMA LockupsStep ==
  ASSUME TypeOK, [Next]_vars
  PROVE  /\ Lockups' = Lockups \/ (BroadcastLockup /\ \E u \in UserLockups : Lockups' = Lockups \cup {u})
         /\ restarts \in Nat /\ restarts' \in Nat
         /\ restarts' = restarts \/ (Restart /\ restarts' = restarts + 1)
<1>1. ASSUME BroadcastLockup PROVE \E u \in UserLockups : Lockups' = Lockups \cup {u}
  <2>1. PICK u \in UserLockups : lockups' = [lockups EXCEPT ![u] = "sent"]
    BY <1>1 DEF BroadcastLockup
  <2>2. Lockups' = Lockups \cup {u}
    BY <2>1 DEF TypeOK, Lockups
  <2> QED
    BY <1>1, <2>2
<1>2. ASSUME NEW u \in UserLockups, LockupVisible(u) PROVE Lockups' = Lockups
  BY <1>2 DEF TypeOK, LockupVisible, Lockups
<1>3. ASSUME UNCHANGED lockups PROVE Lockups' = Lockups
  BY <1>3 DEF Lockups
<1>4. restarts \in Nat /\ (restarts' = restarts \/ (Restart /\ restarts' = restarts + 1))
  <2>1. restarts \in Nat
    BY BoundsAssumption DEF TypeOK
  <2> QED
    BY <2>1, ChainFrame DEF Restart
<1>5. restarts' \in Nat
  BY <1>4
<1>6. Lockups' = Lockups \/ (BroadcastLockup /\ \E u \in UserLockups : Lockups' = Lockups \cup {u})
  BY <1>1, <1>2, <1>3, ChainFrame
<1> QED
  BY <1>4, <1>5, <1>6

\* While the status handler funds the swap it neither expires nor fails.
LEMMA FundingOpenStep ==
  ASSUME FundInv, TypeOK, [Next]_vars
  PROVE  FundingOpen'
<1> SUFFICES ASSUME pc'[Status] \in {"lockup", "lockedUp"}
             PROVE  ~IsExpired' /\ boltz' # "told"
  BY DEF FundingOpen
<1>1. CASE pc[Status] \in {"lockup", "lockedUp"}
  <2>1. ~IsExpired /\ boltz # "told" /\ ~LockupIsOut /\ ~SwapFailed
    BY <1>1 DEF FundInv, FundingOpen, LockupIsOut, SwapFailed, StatusArrives
  <2> QED
    BY <2>1, TipsGoOn, ChainFrame DEF BoltzRefunds, BoltzGivesUp
<1>2. CASE SwapCreated
  BY <1>2 DEF SwapCreated, chainVars, tipVars, boltzVars, IsExpired
<1> QED
  BY <1>1, <1>2, Arrival, TaskNames DEF Arrives, Quiet, Stays, BroadcastLockup

\* A lockup that is about to be written was broadcast.
LEMMA LockedUpStep ==
  ASSUME FundInv, TypeOK, [Next]_vars
  PROVE  LockedUpIsSent'
<1> SUFFICES ASSUME pc'[Status] = "lockedUp"
             PROVE  copy'[Status].lockup \in Lockups'
  BY DEF LockedUpIsSent
<1>0. pc \in [Tasks -> PCs] /\ copy \in [Tasks -> Rows] /\ lockups \in [UserLockups -> {"none", "sent", "seen"}]
  BY DEF TypeOK
<1>1. CASE Stays(Status)
  BY <1>1, SeenStable DEF Stays, FundInv, LockedUpIsSent
<1>2. CASE BroadcastLockup
  <2>1. PICK u \in UserLockups :
          /\ lockups' = [lockups EXCEPT ![u] = "sent"]
          /\ Keep(Status, [NoRow EXCEPT !.lockup = u], "lockedUp") \/ Leave(Status)
    BY <1>2 DEF BroadcastLockup
  <2>2. ~Leave(Status)
    BY <1>0, TaskNames DEF Leave, Goto
  <2>3. copy'[Status] = [NoRow EXCEPT !.lockup = u]
    BY <1>0, <2>1, <2>2, TaskNames DEF Keep
  <2> QED
    BY <1>0, <2>1, <2>3 DEF NoRow, Lockups
<1> QED
  BY <1>1, <1>2, Arrival, TaskNames DEF Arrives, Quiet

\* What may be funded was so only by processes that crashed.
LEMMA FundedBeforeStep ==
  ASSUME FundInv, TypeOK, ~LostAnswers, [Next]_vars
  PROVE  FundedBefore'
<1> SUFFICES ASSUME \/ pc'[Status] = "lockup"
                    \/ MayFund' /\ row'.state # "TimedOut" /\ pc'[Status] # "lockedUp"
             PROVE  Cardinality(Lockups') <= restarts'
  BY DEF FundedBefore
<1>0. /\ row \in Rows /\ copy \in [Tasks -> Rows] /\ pc \in [Tasks -> PCs]
      /\ Status \in Tasks /\ CopiesAgree /\ NothingBefore /\ LockupInv
      /\ FundedBefore /\ FundedOncePerStart /\ FundableIsOpen /\ LockedUpIsSent
      /\ IsFiniteSet(Lockups) /\ restarts \in Nat
  BY LockupsStep, TaskNames DEF TypeOK, FundInv, LockupInv
<1>1. Cardinality(Lockups) \in Nat
  BY <1>0, FS_CardinalityType
\* Only the broadcast adds a lockup, and leaves the handler with its id
<1>2. Lockups' = Lockups
  <2>1. BroadcastLockup => pc'[Status] = "lockedUp"
    BY <1>0 DEF BroadcastLockup, Keep, Goto
  <2>2. BroadcastLockup => FALSE
    BY <2>1
  <2> QED
    BY <2>2, LockupsStep
<1>3. CASE Restart
  <2>1. restarts' = restarts + 1
    BY <1>3 DEF Restart
  <2> QED
    BY <1>0, <1>1, <1>2, <2>1 DEF FundedOncePerStart
<1>4. CASE ~Restart
  <2>1. restarts' = restarts
    BY <1>4, LockupsStep
  <2>2. CASE pc'[Status] = "lockup"
    <3>1. pc[Status] = "lockup" \/ SwapCreated
      BY <1>0, <2>2, Arrival DEF Arrives, Quiet, Stays
    <3>2. SwapCreated => MayFund /\ row.state # "TimedOut" /\ pc[Status] = "idle"
      BY DEF SwapCreated, StatusArrives, MayFund
    <3> QED
      BY <1>0, <1>2, <2>1, <3>1, <3>2 DEF FundedBefore
  <2>3. CASE MayFund' /\ row'.state # "TimedOut" /\ pc'[Status] # "lockedUp"
    <3>0. MayFund /\ row'.lockup = NoTx /\ boltz' # "told"
      BY <1>0, <2>3, MayFundBefore DEF MayFund
    <3>1. pc[Status] # "lockedUp"
      <4> SUFFICES ASSUME pc[Status] = "lockedUp"
                   PROVE  FALSE
        OBVIOUS
      <4>1. LockupSent
        BY <1>4, <2>3, FundingFrame DEF Stays
      <4>2. copy[Status].lockup \in UserLockups /\ copy[Status].lockup # NoTx
        BY <1>0, TxsAssumption DEF LockedUpIsSent, Lockups
      <4>3. ~Accepts("Pending")
        <5> SUFFICES ASSUME Accepts("Pending")
                     PROVE  FALSE
          OBVIOUS
        <5>1. row' = [row EXCEPT !.state = "Pending", !.lockup = Coalesce(@, copy[Status].lockup),
                                 !.server = Coalesce(@, NoTx), !.refund = @ \/ FALSE]
          BY <4>1 DEF LockupSent, update_swap_info, UpdateRow
        <5>2. row'.lockup = Coalesce(row.lockup, copy[Status].lockup)
          BY <1>0, <5>1 DEF Rows
        <5> QED
          BY <3>0, <4>2, <5>2 DEF Coalesce
      <4>4. row' = row
        BY <4>1, <4>3 DEF LockupSent, update_swap_info, rowVars
      <4>5. row.state \notin {"Created", "Pending"}
        BY <4>3 DEF Accepts, Allowed
      <4>6. row.state # "None"
        BY <1>0 DEF NothingBefore
      <4> QED
        BY <1>0, <2>3, <3>0, <4>4, <4>5, <4>6 DEF FundableIsOpen
    <3>2. row.state # "TimedOut"
      <4> SUFFICES ASSUME row.state = "TimedOut"
                   PROVE  FALSE
        OBVIOUS
      <4>1. ~PayOnchain
        BY DEF PayOnchain
      <4>2. ~CopyWritten
        BY <1>0, <2>3, <3>0 DEF CopyWritten, SaveRecovered, UpdateRow, FundableIsOpen
      <4>3. ~ClaimWritten
        BY <1>0, <2>3 DEF ClaimWritten, UnsetClaimTxId, SetClaimTxId, UpdateRow, rowVars, Rows
      <4>4. ~Moves
        BY <1>0, <2>3, <3>0 DEF Moves, Allowed, FundableIsOpen
      <4> QED
        BY <4>1, <4>2, <4>3, <4>4, RowFrame
    <3> QED
      BY <1>0, <1>2, <2>1, <3>0, <3>1, <3>2 DEF FundedBefore
  <2> QED
    BY <2>2, <2>3
<1> QED
  BY <1>3, <1>4

\* There is at most one lockup per start.
LEMMA FundedStep ==
  ASSUME FundInv, TypeOK, [Next]_vars
  PROVE  IsFiniteSet(Lockups') /\ FundedOncePerStart'
<1>0. /\ FundedBefore /\ FundedOncePerStart /\ IsFiniteSet(Lockups) /\ Cardinality(Lockups) \in Nat
  BY FS_CardinalityType DEF FundInv
<1>1. CASE Lockups' = Lockups
  BY <1>0, <1>1, LockupsStep DEF FundedOncePerStart
<1>2. ASSUME BroadcastLockup, NEW u, Lockups' = Lockups \cup {u}
      PROVE  IsFiniteSet(Lockups') /\ FundedOncePerStart'
  <2>1. /\ IsFiniteSet(Lockups')
        /\ Cardinality(Lockups') = Cardinality(Lockups) \/ Cardinality(Lockups') = Cardinality(Lockups) + 1
    BY <1>0, <1>2, FS_AddElement
  <2>2. Cardinality(Lockups) <= restarts /\ restarts' = restarts
    BY <1>0, <1>2 DEF BroadcastLockup, FundedBefore
  <2> QED
    BY <1>0, <2>1, <2>2, LockupsStep DEF FundedOncePerStart
<1> QED
  BY <1>1, <1>2, LockupsStep

LEMMA FundInvInit == Init => FundInv
<1> SUFFICES ASSUME Init
             PROVE  FundInv
  OBVIOUS
<1>1. Lockups = {}
  BY DEF Init, Lockups
<1>2. IsFiniteSet(Lockups) /\ Cardinality(Lockups) = 0
  BY <1>1, FS_EmptySet
<1>3. ExpiredSeen /\ FundableIsOpen /\ FundingOpen /\ LockedUpIsSent
  BY TaskNames DEF Init, ExpiredSeen, FundableIsOpen, FundingOpen, LockedUpIsSent, NoRow, NoView, Refunding
<1>4. FundedBefore /\ FundedOncePerStart
  BY <1>2 DEF Init, FundedBefore, FundedOncePerStart
<1> QED
  BY <1>2, <1>3, <1>4, LockupInvInit DEF FundInv

\* Without lost answers, for any rescans, lockups and restarts: the swap is funded once, and again
\* only after a crash, which hit between the broadcast of the lockup and the storing of its id. The
\* guard of swap.created, that the row has no lockup id yet, does not give this by itself: the
\* payment timeout and a recovery that does not see the lockup yet also leave a row without one.
THEOREM FundedOnce == ~LostAnswers /\ Spec => []FundedOncePerStart
<1>1. ASSUME ~LostAnswers, FundInv, [Next]_vars
      PROVE  FundInv'
  <2>1. LockupInv' /\ TypeOK /\ TypeOK'
    BY <1>1, LockupInvStep DEF FundInv, LockupInv
  <2> QED
    BY <1>1, <2>1, ExpiredSeenStep, FundableStep, FundingOpenStep, LockedUpStep, FundedBeforeStep, FundedStep
    DEF FundInv
<1>2. FundInv => FundedOncePerStart
  BY DEF FundInv
<1>3. ~LostAnswers => (Spec => []FundedOncePerStart)
  <2> SUFFICES ASSUME ~LostAnswers
               PROVE  Spec => []FundedOncePerStart
    OBVIOUS
  <2>1. FundInv /\ [Next]_vars => FundInv'
    BY <1>1
  <2> QED
    BY <1>2, <2>1, FundInvInit, PTL DEF Spec
<1> QED
  BY <1>3

-----------------------------------------------------------------------------
(* The claim. *)

Claimed == spend.by \in ClaimTxs

\* claiming_swaps: one task at a time is in claim_inner
OneClaimer ==
  \A t \in Tasks : Claiming(t) => claiming /\ \A u \in Tasks : Claiming(u) => u = t

\* Until Boltz takes its lockup back: between its compare-and-set and the end of the broadcast a
\* task owns the row's claim
BroadcasterOwnsClaim ==
  spend.by # ServerRefund =>
    \A t \in Tasks : pc[t] = "broadcast" =>
      copy[t].claim \in ClaimTxs /\ row.claim = copy[t].claim /\ grace /\ spend.by = NoTx

\* The grace period lasts until a claim that was sent can be seen
GraceCoversClaim == Claimed => spend.at # "none" /\ (spend.at # "sent" \/ grace)

\* A copy that passes the version check does not make the row forget a claim
CopyKeepsClaim ==
  spend.by # ServerRefund =>
    \A t \in fresh :
      /\ pc[t] = "recover" =>
           /\ grace => view[t].recent
           /\ ~view[t].recent => ~Claimed \/ spend.at # "sent"
      /\ pc[t] = "save" => copy[t].claim = row.claim \/ (~grace /\ ~Claimed)

\* The inductive invariant
ClaimInv ==
  LockupInv /\ OneClaimer /\ BroadcasterOwnsClaim /\ GraceCoversClaim /\ CopyKeepsClaim /\ ClaimNotForgotten

\* The lock of the claim lets one task through.
LEMMA OneClaimerStep ==
  ASSUME TypeOK, OneClaimer, [Next]_vars
  PROVE  OneClaimer'
<1>0. pc \in [Tasks -> PCs] /\ claiming \in BOOLEAN
  BY DEF TypeOK
<1>1. ASSUME NEW t \in Tasks, Claiming(t)'
      PROVE  Claiming(t) \/ (t \in {Blocks, Status} /\ BeginClaim(t) /\ ~claiming)
  BY <1>1, Arrival DEF Arrives, Quiet, Stays, Claiming, SetClaimTxId
<1>2. ASSUME NEW t \in Tasks, Claiming(t)', NEW u \in Tasks, Claiming(u)'
      PROVE  t = u
  <2>1. CASE Claiming(t) /\ Claiming(u)
    BY <2>1 DEF OneClaimer
  <2>2. CASE BeginClaim(t) /\ BeginClaim(u)
    BY <1>0, <1>2, <2>2 DEF BeginClaim, Leave, Goto, Claiming
  <2> QED
    BY <1>1, <1>2, <2>1, <2>2 DEF OneClaimer
<1>3. ASSUME NEW t \in Tasks, Claiming(t)' PROVE claiming'
  <2>1. CASE BeginClaim(t)
    BY <1>0, <1>3, <2>1 DEF BeginClaim, Leave, Goto, Claiming
  <2>2. CASE Claiming(t)
    <3>1. claiming
      BY <2>2 DEF OneClaimer
    <3>2. ~Restart
      BY <1>3 DEF Restart, Claiming
    <3>3. \A u \in {Blocks, Status} : ~(Claiming(u) /\ EndClaim(u))
      BY <1>0, <1>3, <2>2, TaskNames DEF EndClaim, Leave, Goto, Claiming, OneClaimer
    <3> QED
      BY <3>1, <3>2, <3>3, ClaimingFrame
  <2> QED
    BY <1>1, <1>3, <2>1, <2>2
<1> QED
  BY <1>2, <1>3 DEF OneClaimer, Claiming

\* What spends Boltz's lockup is not replaced; it comes to the mempool, and into a block.
LEMMA SpendStep ==
  ASSUME TypeOK, [Next]_vars, spend' # spend
  PROVE  \/ spend.by = NoTx /\ spend'.by = ServerRefund /\ server.at # "none" /\ spend'.at = "seen"
         \/ spend'.by = spend.by /\ spend.at \in {"sent", "seen"} /\ spend'.at \in {"seen", "mined"}
         \/ \E t \in {Blocks, Status} :
              /\ pc[t] = "broadcast" /\ spend.by = NoTx /\ spend' = [by |-> copy[t].claim, at |-> "sent"]
              /\ BroadcastClaim(t) \/ LostAnswers
<1>1. CASE SpendVisible \/ SpendMined \/ BoltzRefunds
  BY <1>1 DEF SpendVisible, SpendMined, BoltzRefunds, TypeOK
<1>2. ASSUME NEW t \in {Blocks, Status}, BroadcastClaim(t) \/ UnsetClaimTxId(t)
      PROVE  /\ pc[t] = "broadcast" /\ spend.by = NoTx /\ spend' = [by |-> copy[t].claim, at |-> "sent"]
             /\ BroadcastClaim(t) \/ LostAnswers
  BY <1>2 DEF BroadcastClaim, UnsetClaimTxId, Sent
<1> QED
  BY <1>1, <1>2, ChainFrame

\* What spent the server lockup stays.
LEMMA SpentStays ==
  ASSUME TypeOK, [Next]_vars, spend.by # NoTx
  PROVE  spend'.by = spend.by
  BY SpendStep

\* The transaction that is about to be broadcast is the one in the row.
LEMMA BroadcasterStep ==
  ASSUME ClaimInv, TypeOK, ~LostAnswers, [Next]_vars
  PROVE  BroadcasterOwnsClaim'
<1> SUFFICES ASSUME spend'.by # ServerRefund, NEW t \in Tasks, pc'[t] = "broadcast"
             PROVE  /\ copy'[t].claim \in ClaimTxs /\ row'.claim = copy'[t].claim
                    /\ grace' /\ spend'.by = NoTx
  BY DEF BroadcasterOwnsClaim
<1>0. /\ pc \in [Tasks -> PCs] /\ copy \in [Tasks -> Rows] /\ row \in Rows /\ NoTx \notin ClaimTxs
      /\ spend.by \in ClaimTxs \cup {ServerRefund, NoTx} /\ ServerRefund # NoTx
      /\ OneClaimer /\ BroadcasterOwnsClaim /\ CopyKeepsClaim /\ ClaimNotForgotten
  BY TxsAssumption DEF TypeOK, ClaimInv
<1>a. spend.by # ServerRefund
  BY <1>0, SpentStays
<1>1. ASSUME NEW k \in ClaimTxs, SetClaimTxId(t, k), row.claim = NoTx
      PROVE  /\ copy'[t].claim \in ClaimTxs /\ row'.claim = copy'[t].claim
             /\ grace' /\ spend'.by = NoTx
  <2>1. row' = [row EXCEPT !.claim = k] /\ copy'[t] = [NoRow EXCEPT !.claim = k] /\ grace' /\ spend' = spend
    BY <1>0, <1>1 DEF SetClaimTxId, UpdateRow, Keep, bitcoinTxs
  <2>2. spend.by = NoTx
    BY <1>0, <1>1, <1>a DEF ClaimNotForgotten
  <2> QED
    BY <1>0, <2>1, <2>2 DEF Rows, NoRow
<1>2. CASE Stays(t)
  <2>1. /\ pc[t] = "broadcast" /\ copy'[t] = copy[t]
        /\ copy[t].claim \in ClaimTxs /\ row.claim = copy[t].claim /\ grace /\ spend.by = NoTx
    BY <1>0, <1>2, <1>a DEF Stays, BroadcasterOwnsClaim
  <2>2. \A u \in {Blocks, Status} : Claiming(u) => u = t
    BY <1>0, <2>1, TaskNames DEF OneClaimer, Claiming
  <2>3. \A u \in {Blocks, Status} : ~BroadcastClaim(u) /\ ~UnsetClaimTxId(u) /\ \A k \in ClaimTxs : ~SetClaimTxId(u, k)
    BY <1>0, <2>1, <2>2 DEF BroadcastClaim, UnsetClaimTxId, SetClaimTxId, EndClaim, Leave, Goto, Claiming
  <2>4. row'.claim = row.claim
    <3>1. ~PayOnchain
      BY <2>1 DEF PayOnchain, ClaimInv, LockupInv, NothingBefore
    <3>2. ~ClaimWritten
      BY <2>3 DEF ClaimWritten
    <3>3. CASE CopyWritten
      BY <1>0, <1>a, <2>1, <3>3 DEF CopyWritten, SaveRecovered, UpdateRow, CopyKeepsClaim
    <3> QED
      BY <3>1, <3>2, <3>3, RowFrame DEF Moves
  <2>5. grace'
    BY <2>1, GraceFrame DEF GracePeriodEnds
  <2>6. spend'.by = NoTx
    BY <2>1, <2>3, SpendStep
  <2> QED
    BY <2>1, <2>4, <2>5, <2>6
<1> QED
  BY <1>1, <1>2, Arrival DEF Arrives, Quiet

\* A claim that no scan can see yet is in its grace period.
LEMMA GraceCoversStep ==
  ASSUME ClaimInv, TypeOK, ~LostAnswers, [Next]_vars
  PROVE  GraceCoversClaim'
<1> SUFFICES ASSUME spend'.by \in ClaimTxs
             PROVE  spend'.at # "none" /\ (spend'.at # "sent" \/ grace')
  BY DEF GraceCoversClaim, Claimed
<1>0. /\ BroadcasterOwnsClaim /\ GraceCoversClaim /\ ClaimNotForgotten
      /\ NoTx \notin ClaimTxs /\ ServerRefund \notin ClaimTxs /\ ServerRefund # NoTx
  BY TxsAssumption DEF ClaimInv
<1>1. CASE spend' = spend
  <2>1. row.claim # NoTx /\ spend.at # "none" /\ (spend.at # "sent" \/ grace)
    BY <1>0, <1>1 DEF GraceCoversClaim, Claimed, ClaimNotForgotten
  <2> QED
    BY <1>1, <2>1, GraceFrame DEF GracePeriodEnds
<1>2. ASSUME NEW t \in {Blocks, Status}, BroadcastClaim(t), spend.by = NoTx,
             pc[t] = "broadcast", spend' = [by |-> copy[t].claim, at |-> "sent"]
      PROVE  spend'.at # "none" /\ grace'
  BY <1>0, <1>2, TaskNames DEF BroadcastClaim, BroadcasterOwnsClaim, rowVars
<1> QED
  BY <1>0, <1>1, <1>2, SpendStep

\* A copy that will be saved keeps the claim of the row, or its scan saw it.
LEMMA CopyKeepsStep ==
  ASSUME ClaimInv, TypeOK, TypeOK', ~LostAnswers, [Next]_vars
  PROVE  CopyKeepsClaim'
<1> SUFFICES ASSUME spend'.by # ServerRefund, NEW t \in fresh'
             PROVE  /\ pc'[t] = "recover" =>
                         /\ grace' => view'[t].recent
                         /\ ~view'[t].recent => ~Claimed' \/ spend'.at # "sent"
                    /\ pc'[t] = "save" => copy'[t].claim = row'.claim \/ (~grace' /\ ~Claimed')
  BY DEF CopyKeepsClaim
<1>0. /\ t \in Tasks /\ pc \in [Tasks -> PCs] /\ copy \in [Tasks -> Rows] /\ view \in [Tasks -> Views] /\ row \in Rows
      /\ spend.by \in ClaimTxs \cup {ServerRefund, NoTx} /\ spend.at \in {"none", "sent", "seen", "mined"}
      /\ BroadcasterOwnsClaim /\ GraceCoversClaim /\ ClaimNotForgotten /\ CopyKeepsClaim /\ CopiesAgree
      /\ NoTx \notin ClaimTxs /\ ServerRefund \notin ClaimTxs /\ ServerRefund # NoTx
  BY TxsAssumption DEF TypeOK, ClaimInv, LockupInv
<1>a. spend.by # ServerRefund
  BY <1>0, SpentStays
<1>1. row' = row /\ (grace' => grace) /\ (t \in fresh \/ (Scan(t) /\ grace' = grace))
  BY FreshFrame
\* Without the grace period no claim is under way
<1>2. ~grace /\ ~Claimed => ~Claimed'
  BY <1>0, <1>a, SpendStep, TaskNames DEF BroadcasterOwnsClaim, Claimed
<1>3. ~grace /\ (~Claimed \/ spend.at # "sent") => ~Claimed' \/ spend'.at # "sent"
  BY <1>0, <1>a, SpendStep, TaskNames DEF BroadcasterOwnsClaim, Claimed
<1>4. CASE Scan(t)
  <2>1. pc'[t] = "recover" /\ view'[t].recent = grace
    BY <1>0, <1>4 DEF Scan, Keep, Goto
  <2> QED
    BY <1>0, <1>1, <1>3, <1>4, <2>1 DEF GraceCoversClaim
<1>5. CASE Stays(t) /\ t \in fresh
  <2>1. CASE pc[t] = "recover"
    BY <1>0, <1>1, <1>3, <1>5, <1>a, <2>1 DEF Stays, CopyKeepsClaim
  <2>2. CASE pc[t] = "save"
    BY <1>0, <1>1, <1>2, <1>5, <1>a, <2>2 DEF Stays, CopyKeepsClaim
  <2> QED
    BY <1>5, <2>1, <2>2 DEF Stays
<1>6. CASE RecoverSwap(t) /\ t \in fresh
  <2>1. PICK u : copy'[t] = Recovered(copy[t], view[t], u)
    BY <1>0, <1>6 DEF RecoverSwap
  <2>2. pc'[t] = "save" /\ copy[t] = row /\ grace' = grace /\ spend' = spend
    BY <1>0, <1>6 DEF RecoverSwap, Goto, rowVars, chainVars, bitcoinTxs, CopiesAgree
  <2>3. /\ grace => view[t].recent
        /\ ~view[t].recent => ~Claimed \/ spend.at # "sent"
    BY <1>0, <1>a, <1>6 DEF RecoverSwap, CopyKeepsClaim
  <2>4. copy'[t].claim = row.claim \/ (copy'[t].claim = FoundClaim /\ ~(view[t].recent /\ row.claim # NoTx /\ FoundClaim = NoTx))
    BY <1>0, <2>1, <2>2, RecoveredRow DEF should_skip_recovery
  <2>5. FoundClaim # NoTx => FoundClaim = row.claim
    BY <1>0, <1>a DEF FoundClaim, ClaimNotForgotten
  <2>6. ~view[t].recent /\ FoundClaim = NoTx => ~Claimed
    BY <1>0, <2>3 DEF FoundClaim, Claimed, GraceCoversClaim
  <2> QED
    BY <1>1, <2>2, <2>3, <2>4, <2>5, <2>6 DEF Claimed
<1> QED
  BY <1>0, <1>1, <1>4, <1>5, <1>6, Arrival DEF Arrives, Quiet, Scan

\* What claimed the lockup stays in the row.
LEMMA ClaimKept ==
  ASSUME ClaimInv, TypeOK, ~LostAnswers, [Next]_vars
  PROVE  ClaimNotForgotten'
<1> SUFFICES ASSUME spend'.by \in ClaimTxs
             PROVE  row'.claim = spend'.by
  BY DEF ClaimNotForgotten
<1>0. /\ copy \in [Tasks -> Rows] /\ row \in Rows
      /\ NoTx \notin ClaimTxs /\ ServerRefund \notin ClaimTxs /\ ServerRefund # NoTx
      /\ BroadcasterOwnsClaim /\ GraceCoversClaim /\ ClaimNotForgotten /\ CopyKeepsClaim /\ NothingBefore
  BY TxsAssumption DEF TypeOK, ClaimInv, LockupInv
<1>1. ASSUME NEW t \in {Blocks, Status}, BroadcastClaim(t), spend.by = NoTx,
             pc[t] = "broadcast", spend' = [by |-> copy[t].claim, at |-> "sent"]
      PROVE  row'.claim = spend'.by
  BY <1>0, <1>1, TaskNames DEF BroadcastClaim, BroadcasterOwnsClaim, rowVars
<1>2. CASE spend'.by = spend.by
  <2>1. row.claim = spend.by /\ spend.by # NoTx /\ spend.by # ServerRefund
    BY <1>0, <1>2 DEF ClaimNotForgotten
  <2>2. ~PayOnchain
    BY <1>0, <2>1 DEF PayOnchain, NothingBefore
  <2>3. ~ClaimWritten \/ row'.claim = row.claim
    BY <1>0, <1>2, <2>1, TaskNames DEF ClaimWritten, SetClaimTxId, UnsetClaimTxId, BroadcasterOwnsClaim, rowVars
  <2>4. CopyWritten => row'.claim = row.claim
    BY <1>0, <1>2, <2>1 DEF CopyWritten, SaveRecovered, UpdateRow, CopyKeepsClaim, Claimed
  <2> QED
    BY <1>2, <2>1, <2>2, <2>3, <2>4, RowFrame DEF Moves
<1> QED
  BY <1>0, <1>1, <1>2, SpendStep

LEMMA ClaimInvInit == Init => ClaimInv
<1> SUFFICES ASSUME Init
             PROVE  ClaimInv
  OBVIOUS
<1>1. OneClaimer /\ BroadcasterOwnsClaim /\ GraceCoversClaim /\ CopyKeepsClaim /\ ClaimNotForgotten
  BY TxsAssumption
  DEF Init, OneClaimer, Claiming, BroadcasterOwnsClaim, GraceCoversClaim, CopyKeepsClaim, ClaimNotForgotten, Claimed
<1> QED
  BY <1>1, LockupInvInit DEF ClaimInv

\* Without lost answers, for any rescans, txs and restarts: the id of a claim tx that reached the
\* network stays in the row, whatever rescans and recoveries run next to the claim. Boltz may take
\* its lockup back while a claim of it is built; the proof sets that case apart, as no claim can
\* reach the network any more.
THEOREM ClaimIsNeverForgotten == ~LostAnswers /\ Spec => []ClaimNotForgotten
<1>1. ASSUME ~LostAnswers, ClaimInv, [Next]_vars
      PROVE  ClaimInv'
  <2>1. LockupInv' /\ TypeOK /\ TypeOK'
    BY <1>1, LockupInvStep DEF ClaimInv, LockupInv
  <2> QED
    BY <1>1, <2>1, OneClaimerStep, BroadcasterStep, GraceCoversStep, CopyKeepsStep, ClaimKept DEF ClaimInv
<1>2. ClaimInv => ClaimNotForgotten
  BY DEF ClaimInv
<1>3. ~LostAnswers => (Spec => []ClaimNotForgotten)
  <2> SUFFICES ASSUME ~LostAnswers
               PROVE  Spec => []ClaimNotForgotten
    OBVIOUS
  <2>1. ClaimInv /\ [Next]_vars => ClaimInv'
    BY <1>1
  <2> QED
    BY <1>2, <2>1, ClaimInvInit, PTL DEF Spec
<1> QED
  BY <1>3

-----------------------------------------------------------------------------
(* What the payment promises. *)

Earned == Claimed /\ spend.at = "mined"

\* A claim is broadcast by a task that paid for it, and not twice
SpendIsPaidFor ==
  /\ Claimed => revealed
  /\ spend.by = NoTx => spend.at = "none"
  /\ \A t \in Tasks : pc[t] = "broadcast" =>
       revealed /\ copy[t].claim \in ClaimTxs /\ copy[t].claim # spend.by

RefundWasSeen == \A t \in Tasks : view[t].refund => refund.at \in {"seen", "mined"}

\* A row that says Complete names what spent Boltz's lockup, for good
CompleteSound(r) ==
  r.state = "Complete" => r.lockup # NoTx /\ r.claim = spend.by /\ spend.by # NoTx /\ spend.at = "mined"

\* So does a copy that passes the version check; it takes Complete back only for a refund
CompleteIsEarned ==
  /\ CompleteSound(row)
  /\ \A t \in fresh : pc[t] = "save" =>
       /\ CompleteSound(copy[t])
       /\ row.state = "Complete" =>
            /\ copy[t].claim = row.claim
            /\ copy[t].state = "Complete" \/ (copy[t].state = "RefundPending" /\ refund.at # "none")

\* The inductive invariant
PromiseInv == IInv /\ LockupInv /\ OneClaimer /\ SpendIsPaidFor /\ RefundWasSeen /\ CompleteIsEarned

\* Boltz gets the preimage when a claim tx is built.
LEMMA RevealedFrame ==
  ASSUME [Next]_vars, revealed' # revealed
  PROVE  \E t \in {Blocks, Status} : BuildFails(t) \/ (\E k \in ClaimTxs : SetClaimTxId(t, k))
<1> USE DEF chainVars, boltzVars
<1>1. StatusStep => UNCHANGED revealed
  BY DEF StatusStep, SwapCreated, BroadcastLockup, LockupFails, LockupSent, UserLockupAnnounced,
         ServerLockupAnnounced, VerifyUserLockup, VerifyServerLockup, SwapFailed
<1>2. ASSUME NEW t \in {Blocks, Status}, RefundStep(t) PROVE UNCHANGED revealed
  BY <1>2 DEF RefundStep, SetRefundAddress, BroadcastRefund, RefundSent, RefundFails
<1>3. ASSUME NEW t \in {Blocks, Status}, ClaimStep(t)
      PROVE  BuildFails(t) \/ (\E k \in ClaimTxs : SetClaimTxId(t, k)) \/ UNCHANGED revealed
  BY <1>3 DEF ClaimStep, VerifyFails, BeginClaim, BroadcastClaim, UnsetClaimTxId
<1>4. BlockStep => UNCHANGED revealed
  BY DEF BlockStep, ListMonitored, CheckRefunds, ClaimOutgoing, NoNewBlock, ClaimConfirmedServerLockup
<1>5. ASSUME NEW t \in Tasks, RecoveryStep(t) \/ RescanOnchainSwaps(t) PROVE UNCHANGED revealed
  BY <1>5 DEF RecoveryStep, RecoverSwap, RecoveryFails, SaveRecovered, RescanOnchainSwaps
<1>6. Environment => UNCHANGED revealed
  BY DEF Environment, Restart, GracePeriodEnds, LiquidBlock, BitcoinBlock, LockupVisible, RefundVisible,
         RefundMined, BoltzLocks, ServerLockupReplaced, ServerLockupMined, SpendVisible, SpendMined,
         BoltzClaims, BoltzRefunds, BoltzGivesUp
<1>7. PayOnchain \/ PaymentTimeout \/ UNCHANGED vars => UNCHANGED revealed
  BY DEF PayOnchain, PaymentTimeout, vars
<1> QED
  BY <1>1, <1>2, <1>3, <1>4, <1>5, <1>6, <1>7 DEF Next, Tasks

\* The preimage stays revealed.
LEMMA RevealedStays ==
  ASSUME TypeOK, [Next]_vars, revealed
  PROVE  revealed'
  BY RevealedFrame DEF BuildFails, SetClaimTxId

\* A claim is broadcast by a task that revealed the preimage for it.
LEMMA SpendPaidStep ==
  ASSUME PromiseInv, TypeOK, [Next]_vars
  PROVE  SpendIsPaidFor'
<1>0. /\ pc \in [Tasks -> PCs] /\ copy \in [Tasks -> Rows] /\ SpendIsPaidFor /\ OneClaimer
      /\ spend.by \in ClaimTxs \cup {ServerRefund, NoTx}
      /\ NoTx \notin ClaimTxs /\ ServerRefund \notin ClaimTxs /\ ServerRefund # NoTx
  BY TxsAssumption DEF TypeOK, PromiseInv
<1>1. Claimed' => revealed'
  <2>1. spend' # spend /\ Claimed' => revealed
    BY <1>0, SpendStep, TaskNames DEF SpendIsPaidFor, Claimed
  <2> QED
    BY <1>0, <2>1, RevealedStays DEF SpendIsPaidFor, Claimed
<1>2. spend'.by = NoTx => spend'.at = "none"
  BY <1>0, SpendStep, TaskNames DEF SpendIsPaidFor
<1>3. ASSUME NEW t \in Tasks, pc'[t] = "broadcast"
      PROVE  revealed' /\ copy'[t].claim \in ClaimTxs /\ copy'[t].claim # spend'.by
  <2>1. ASSUME NEW k \in ClaimTxs, SetClaimTxId(t, k), row.claim = NoTx
        PROVE  revealed' /\ copy'[t].claim \in ClaimTxs /\ copy'[t].claim # spend'.by
    <3>1. copy'[t] = [NoRow EXCEPT !.claim = k] /\ revealed' /\ spend' = spend /\ k # spend.by
      BY <1>0, <2>1 DEF SetClaimTxId, Keep, bitcoinTxs
    <3> QED
      BY <3>1 DEF NoRow
  <2>2. CASE Stays(t)
    <3>1. /\ pc[t] = "broadcast" /\ copy'[t] = copy[t]
          /\ revealed /\ copy[t].claim \in ClaimTxs /\ copy[t].claim # spend.by
      BY <1>0, <1>3, <2>2 DEF Stays, SpendIsPaidFor
    <3>2. \A u \in {Blocks, Status} : BroadcastClaim(u) \/ UnsetClaimTxId(u) => u = t
      BY <1>0, <3>1, TaskNames DEF OneClaimer, Claiming, BroadcastClaim, UnsetClaimTxId
    <3>3. ~BroadcastClaim(t) /\ ~UnsetClaimTxId(t)
      BY <1>0, <1>3 DEF BroadcastClaim, UnsetClaimTxId, EndClaim, Leave, Goto
    <3>4. spend'.by = spend.by \/ spend'.by = ServerRefund
      BY <3>2, <3>3, ChainFrame DEF SpendVisible, SpendMined, BoltzRefunds, TypeOK
    <3> QED
      BY <1>0, <3>1, <3>4, RevealedStays
  <2> QED
    BY <1>3, <2>1, <2>2, Arrival DEF Arrives, Quiet
<1> QED
  BY <1>1, <1>2, <1>3 DEF SpendIsPaidFor

\* A refund a task saw is on the chain.
LEMMA RefundSeenStep ==
  ASSUME PromiseInv, TypeOK, [Next]_vars
  PROVE  RefundWasSeen'
<1>1. \A c \in Tasks : view'[c].refund => refund.at \in {"seen", "mined"}
  BY ViewStep DEF PromiseInv, RefundWasSeen
<1>2. refund.at \in {"seen", "mined"} => refund'.at \in {"seen", "mined"}
  BY ChainFrame DEF BroadcastRefund, RefundVisible, RefundMined, TypeOK
<1> QED
  BY <1>1, <1>2 DEF RefundWasSeen

\* A refund that was broadcast stays so.
LEMMA RefundStays ==
  ASSUME TypeOK, [Next]_vars, refund.at # "none"
  PROVE  refund'.at # "none"
  BY ChainFrame DEF BroadcastRefund, RefundVisible, RefundMined, TypeOK

\* What is in a block stays.
LEMMA SoundStays ==
  ASSUME TypeOK, SpendIsPaidFor, [Next]_vars, NEW r, CompleteSound(r)
  PROVE  r.state = "Complete" => r.lockup # NoTx /\ r.claim = spend'.by /\ spend'.by # NoTx /\ spend'.at = "mined"
  BY SpendStep DEF CompleteSound, SpendIsPaidFor

\* Recovery of the row as it is.
LEMMA RecoveredSound ==
  ASSUME TypeOK, CompleteSound(row), NEW v \in Views, NEW u,
         v.refund => refund.at \in {"seen", "mined"},
         row.lockup # NoTx => v.recent \/ u # NoTx
  PROVE  LET r == Recovered(row, v, u)
         IN  /\ CompleteSound(r)
             /\ row.state = "Complete" =>
                  /\ r.claim = row.claim
                  /\ r.state = "Complete" \/ (r.state = "RefundPending" /\ refund.at # "none")
<1> DEFINE r    == Recovered(row, v, u)
           d    == derive_partial_state(row.state, u, FoundClaim, v.refund, v.expired)
           skip == should_skip_recovery(row, v.recent, u, FoundClaim, v.refund)
<1>r. row \in Rows
  BY DEF TypeOK
<1>0. /\ v.refund \in BOOLEAN /\ v.recent \in BOOLEAN /\ v.expired \in BOOLEAN
      /\ \/ skip /\ r = row
         \/ ~skip /\ r.lockup = u /\ r.claim = FoundClaim /\ r.state = d
  <2>1. v.refund \in BOOLEAN /\ v.recent \in BOOLEAN /\ v.expired \in BOOLEAN
    BY DEF Views
  <2>2. \/ skip /\ r = row
        \/ ~skip /\ r.lockup = u /\ r.claim = FoundClaim /\ r.state = d
    BY <1>r, RecoveredRow
  <2> QED
    BY <2>1, <2>2
<1>1. CASE skip /\ r = row
  BY <1>1
<1>2. CASE ~skip /\ r.lockup = u /\ r.claim = FoundClaim /\ r.state = d
  <2>1. CASE row.state = "Complete"
    <3>1. row.lockup # NoTx /\ FoundClaim = row.claim /\ FoundClaim = spend.by /\ FoundClaim # NoTx /\ spend.at = "mined"
      BY <2>1 DEF CompleteSound, FoundClaim
    <3>2. u # NoTx
      BY <1>2, <3>1 DEF should_skip_recovery
    <3>3. d = "Complete" \/ (d = "RefundPending" /\ refund.at # "none")
      BY <1>0, <3>1, <3>2 DEF derive_partial_state
    <3> QED
      BY <1>2, <3>1, <3>2, <3>3 DEF CompleteSound
  <2>2. CASE row.state # "Complete"
    <3>1. d = "Complete" => u # NoTx /\ FoundClaim # NoTx /\ spend.at = "mined"
      BY <1>0, <2>2 DEF derive_partial_state
    <3> QED
      BY <1>2, <2>2, <3>1 DEF CompleteSound, FoundClaim
  <2> QED
    BY <2>1, <2>2
<1> QED
  BY <1>0, <1>1, <1>2

\* A swap is Complete when the transaction its row names as the claim is confirmed.
LEMMA CompleteStep ==
  ASSUME PromiseInv, TypeOK, TypeOK', [Next]_vars
  PROVE  CompleteIsEarned'
<1>0. /\ row \in Rows /\ copy \in [Tasks -> Rows] /\ pc \in [Tasks -> PCs] /\ view \in [Tasks -> Views]
      /\ SpendIsPaidFor /\ CompleteIsEarned /\ CompleteSound(row) /\ CopiesAgree /\ CopyKeepsLockup /\ RefundWasSeen
      /\ NoTx \notin ClaimTxs
  BY TxsAssumption DEF TypeOK, PromiseInv, LockupInv, CompleteIsEarned
<1>1. CompleteSound(row)'
  <2> SUFFICES ASSUME row'.state = "Complete"
               PROVE  row'.lockup # NoTx /\ row'.claim = spend'.by /\ spend'.by # NoTx /\ spend'.at = "mined"
    BY DEF CompleteSound
  <2>1. ~PayOnchain
    <3> SUFFICES ASSUME PayOnchain
                 PROVE  FALSE
      OBVIOUS
    <3>1. PICK z \in ZeroConf : row' = [NoRow EXCEPT !.state = "Created", !.zeroConf = z]
      BY DEF PayOnchain, UpdateRow
    <3> QED
      BY <3>1 DEF NoRow
  <2>2. ASSUME NEW t \in fresh, pc[t] = "save", row' = copy[t]
        PROVE  row'.lockup # NoTx /\ row'.claim = spend'.by /\ spend'.by # NoTx /\ spend'.at = "mined"
    BY <1>0, <2>2, SoundStays DEF CompleteIsEarned
  <2>3. ~ClaimWritten \/ row' = row
    <3> SUFFICES ASSUME ClaimWritten, row' # row
                 PROVE  FALSE
      OBVIOUS
    <3>1. row'.state = row.state
      BY <1>0 DEF ClaimWritten, UnsetClaimTxId, SetClaimTxId, UpdateRow, rowVars, Rows
    <3>2. row.claim = spend.by /\ spend.by # NoTx
      BY <1>0, <3>1 DEF CompleteSound
    <3>3. PICK t \in {Blocks, Status} : UnsetClaimTxId(t)
      BY <3>2 DEF ClaimWritten, SetClaimTxId, rowVars
    <3>4. pc[t] = "broadcast" /\ row.claim = copy[t].claim
      BY <3>3 DEF UnsetClaimTxId, rowVars
    <3> QED
      BY <1>0, <3>2, <3>4, TaskNames DEF SpendIsPaidFor
  <2>4. CASE Moves
    <3>1. row.state = "Complete" /\ row'.claim = row.claim /\ (row.lockup # NoTx => row'.lockup = row.lockup)
      BY <2>4 DEF Moves
    <3> QED
      BY <1>0, <3>1, SoundStays
  <2>5. CASE row' = row
    BY <1>0, <2>5, SoundStays
  <2> QED
    BY <2>1, <2>2, <2>3, <2>4, <2>5, RowFrame DEF CopyWritten, SaveRecovered, UpdateRow
<1>2. ASSUME NEW t \in fresh', pc'[t] = "save"
      PROVE  /\ CompleteSound(copy[t])'
             /\ row'.state = "Complete" =>
                  /\ copy'[t].claim = row'.claim
                  /\ copy'[t].state = "Complete" \/ (copy'[t].state = "RefundPending" /\ refund'.at # "none")
  <2>0. t \in Tasks /\ row' = row /\ (t \in fresh \/ Scan(t))
    BY FreshFrame DEF TypeOK
  <2>1. t \in fresh
    BY <1>0, <1>2, <2>0 DEF Scan, Keep, Goto
  <2>2. CASE Stays(t)
    <3>1. /\ copy'[t] = copy[t] /\ CompleteSound(copy[t])
          /\ row.state = "Complete" =>
               /\ copy[t].claim = row.claim
               /\ copy[t].state = "Complete" \/ (copy[t].state = "RefundPending" /\ refund.at # "none")
      BY <1>0, <1>2, <2>1, <2>2 DEF Stays, CompleteIsEarned
    <3>2. CompleteSound(copy[t])'
      BY <1>0, <3>1, SoundStays DEF CompleteSound
    <3> QED
      BY <2>0, <3>1, <3>2, RefundStays
  <2>3. CASE RecoverSwap(t)
    <3>1. PICK u \in IF view[t].lockups = {} THEN {NoTx} ELSE view[t].lockups :
            copy'[t] = Recovered(copy[t], view[t], u)
      BY <1>0, <2>0, <2>3 DEF RecoverSwap
    <3>2. /\ copy[t] = row /\ spend' = spend /\ refund' = refund
          /\ row.lockup # NoTx => view[t].recent \/ view[t].lockups # {}
          /\ view[t].refund => refund.at \in {"seen", "mined"}
      BY <1>0, <2>0, <2>1, <2>3
      DEF RecoverSwap, CopiesAgree, CopyKeepsLockup, RefundWasSeen, chainVars, liquidTxs, bitcoinTxs
    <3>3. view[t].lockups # {} => u # NoTx
      BY <1>0, <2>0, <3>1, TxsAssumption DEF Views
    <3>4. /\ CompleteSound(copy'[t])
          /\ row.state = "Complete" =>
               /\ copy'[t].claim = row.claim
               /\ copy'[t].state = "Complete" \/ (copy'[t].state = "RefundPending" /\ refund.at # "none")
      BY <1>0, <2>0, <3>1, <3>2, <3>3, RecoveredSound
    <3> QED
      BY <2>0, <3>2, <3>4 DEF CompleteSound
  <2> QED
    BY <1>2, <2>0, <2>2, <2>3, Arrival DEF Arrives, Quiet
<1> QED
  BY <1>1, <1>2 DEF CompleteIsEarned

LEMMA PromiseInvInit == Init => PromiseInv
<1> SUFFICES ASSUME Init
             PROVE  PromiseInv
  OBVIOUS
<1>1. OneClaimer /\ SpendIsPaidFor /\ RefundWasSeen /\ CompleteIsEarned
  BY TxsAssumption
  DEF Init, OneClaimer, Claiming, SpendIsPaidFor, Claimed, RefundWasSeen, CompleteIsEarned, CompleteSound, NoRow, NoView
<1>2. IInv
  BY InitType DEF Init, NothingToAccept, ClaimersVerified, PreimageOnlyForLockup, IInv
<1> QED
  BY <1>1, <1>2, LockupInvInit DEF PromiseInv

LEMMA PromiseInvStep ==
  ASSUME PromiseInv, [Next]_vars
  PROVE  PromiseInv'
<1>1. IInv /\ LockupInv /\ TypeOK
  BY DEF PromiseInv, IInv
<1>2. IInv' /\ LockupInv' /\ TypeOK'
  BY <1>1, IInvStep, LockupInvStep DEF IInv
<1>3. OneClaimer'
  BY <1>1, OneClaimerStep DEF PromiseInv
<1> QED
  BY <1>1, <1>2, <1>3, SpendPaidStep, RefundSeenStep, CompleteStep DEF PromiseInv

\* Nothing else that the promise speaks of changes with the state.
LEMMA StateChanges ==
  ASSUME TypeOK, [Next]_vars, row'.state # row.state
  PROVE  UNCHANGED <<server, spend, revealed>>
<1>0. row \in Rows
  BY DEF TypeOK
<1>1. UNCHANGED server
  BY ServerStep DEF BoltzLocks, ServerLockupReplaced, ServerLockupMined, rowVars
<1>2. UNCHANGED spend
  BY <1>0, ChainFrame DEF SpendVisible, SpendMined, BoltzRefunds, BroadcastClaim, UnsetClaimTxId, UpdateRow, rowVars, Rows
<1>3. UNCHANGED revealed
  BY <1>0, RevealedFrame DEF BuildFails, SetClaimTxId, UpdateRow, rowVars, Rows
<1> QED
  BY <1>1, <1>2, <1>3

\* The state the user is shown, Boltz's own refund apart
Shown == CASE row.state = "Complete" /\ row.claim # ServerRefund -> "complete"
           [] row.state = "Failed" -> "failed"
           [] OTHER -> "open"

\* What names the spend of Boltz's lockup goes on naming it.
LEMMA CompleteClaim ==
  ASSUME PromiseInv, TypeOK, TypeOK', [Next]_vars, row.state = "Complete", row'.state = "Complete"
  PROVE  row'.claim = row.claim
<1>1. CompleteSound(row) /\ CompleteSound(row)'
  BY CompleteStep DEF PromiseInv, CompleteIsEarned
<1> QED
  BY <1>1, SpentStays DEF CompleteSound

\* Each change of what the user is shown is one that was promised.
LEMMA ShownStep ==
  ASSUME PromiseInv, TypeOK, TypeOK', [Next]_vars, Shown' # Shown
  PROVE  /\ Shown = "complete" => refund.at # "none" /\ Shown' = "open"
         /\ Shown' = "complete" => Earned
         /\ UNCHANGED <<server, spend, revealed>>
<1>0. row \in Rows /\ copy \in [Tasks -> Rows] /\ CompleteIsEarned /\ CompleteSound(row)'
  BY CompleteStep DEF PromiseInv, CompleteIsEarned, TypeOK
<1>1. row'.state # row.state
  BY CompleteClaim DEF Shown
<1>2. UNCHANGED <<server, spend, revealed>>
  BY <1>1, StateChanges
<1>3. Shown' = "complete" => Earned
  BY <1>0, <1>2 DEF Shown, Earned, Claimed, CompleteSound, TypeOK
<1>4. ASSUME Shown = "complete"
      PROVE  refund.at # "none" /\ Shown' = "open"
  <2>0. row.state = "Complete"
    BY <1>4 DEF Shown
  <2>1. ~PayOnchain /\ ~ClaimWritten
    BY <1>0, <1>1, <2>0 DEF PayOnchain, ClaimWritten, SetClaimTxId, UnsetClaimTxId, UpdateRow, rowVars, Rows
  <2>2. ~Moves
    BY <1>1, <2>0 DEF Moves, Allowed
  <2>3. PICK t \in Tasks : pc[t] = "save" /\ t \in fresh /\ row' = copy[t]
    BY <2>1, <2>2, RowFrame, TaskNames DEF CopyWritten, SaveRecovered, UpdateRow
  <2>4. row'.state = "RefundPending" /\ refund.at # "none"
    BY <1>0, <1>1, <2>0, <2>3 DEF CompleteIsEarned
  <2> QED
    BY <2>4 DEF Shown
<1> QED
  BY <1>2, <1>3, <1>4

\* This payment implements SwapPromise, for any calls, rescans, lockups, claim txs and restarts,
\* whatever the chains and Boltz do, and lost answers too: the preimage is exchanged for a lockup
\* that cannot be replaced, the payment is Complete when what spends that lockup is confirmed, and
\* Complete stays unless the user lockup was refunded as well.
THEOREM KeepsItsPromise == Spec => KeepsPromise
<1>1. Init => Promise!Init
  BY TxsAssumption DEF Init, Promise!Init, NoRow
<1>2. ASSUME PromiseInv, [Next]_vars
      PROVE  [Promise!Next]_(Promise!vars)
  <2>0. /\ TypeOK /\ TypeOK' /\ IInv /\ SpendIsPaidFor /\ PreimageOnlyForLockup /\ NothingToAccept /\ ClaimersVerified
        /\ revealed \in BOOLEAN /\ Settled \in BOOLEAN /\ Earned \in BOOLEAN
        /\ ServerRefund \notin ClaimTxs /\ NoTx \notin ClaimTxs
    BY <1>2, IInvStep, TxsAssumption DEF PromiseInv, IInv, TypeOK, Settled, Earned, Claimed
  <2>1. (refund.at # "none")' \in BOOLEAN
    OBVIOUS
  <2>2. Shown' # Shown =>
           /\ Shown = "complete" => refund.at # "none" /\ Shown' = "open"
           /\ Shown' = "complete" => Earned
           /\ UNCHANGED <<revealed, Earned, Settled>>
    BY <1>2, <2>0, ShownStep DEF Earned, Claimed, Settled
  <2>3. Shown \in {"open", "complete", "failed"} /\ Shown' \in {"open", "complete", "failed"}
    BY DEF Shown
  <2>4. revealed' # revealed => ~revealed /\ revealed' /\ Settled /\ UNCHANGED <<Shown, Settled, Earned>>
    <3>1. revealed' # revealed => ~revealed /\ revealed' /\ Settled
      BY <1>2, <2>0, RevealedFrame, TaskNames DEF BuildFails, SetClaimTxId, ClaimersVerified
    <3>2. revealed' # revealed => UNCHANGED spend
      BY <1>2, RevealedFrame DEF BuildFails, SetClaimTxId, chainVars, bitcoinTxs
    <3>3. revealed' # revealed => Settled' = Settled
      BY <1>2, <2>0, <3>1, SettledStable DEF Settled
    <3> QED
      BY <2>2, <3>1, <3>2, <3>3 DEF Earned, Claimed
  <2>5. Earned' # Earned => ~Earned /\ Earned' /\ revealed /\ UNCHANGED <<Shown, Settled, revealed>>
    <3>1. ASSUME Earned' # Earned
          PROVE  /\ ~Earned /\ Earned' /\ Claimed
                 /\ spend' # spend /\ spend.by # NoTx /\ spend'.at = "mined"
      BY <1>2, <2>0, <3>1, SpendStep DEF Earned, Claimed
    <3>2. ASSUME Earned' # Earned
          PROVE  UNCHANGED <<server, revealed, row>>
      <4>1. SpendVisible \/ SpendMined \/ BoltzRefunds
        BY <1>2, <2>0, <3>1, <3>2, ChainFrame DEF BroadcastClaim, UnsetClaimTxId, Sent
      <4> QED
        BY <4>1 DEF SpendVisible, SpendMined, BoltzRefunds, rowVars, boltzVars
    <3> QED
      BY <2>0, <3>1, <3>2 DEF SpendIsPaidFor, Settled, Shown
  <2>6. Settled' # Settled => ~revealed /\ UNCHANGED <<Shown, revealed, Earned>>
    <3>1. Settled => Settled'
      BY <1>2, <2>0, SettledStable
    <3> QED
      BY <2>0, <2>2, <2>4, <2>5, <3>1 DEF PreimageOnlyForLockup, Settled
  <2> QED
    BY <2>0, <2>1, <2>2, <2>3, <2>4, <2>5, <2>6
    DEF Promise!Next, Promise!vars, Promise!Offer, Promise!Reveal, Promise!Earn, Promise!Show, Promise!Reopen,
        Shown, Earned, Claimed, Settled
<1> QED
  BY <1>1, <1>2, PromiseInvInit, PromiseInvStep, PTL DEF Spec, KeepsPromise, Promise!Spec
=============================================================================
