--------------------------- MODULE SendSwapProofs ---------------------------
(***************************************************************************)
(* For any number of send_payment and sync() calls, restarts, and with     *)
(* preemption: the user never locks up funds twice for one send swap, no   *)
(* lockup is forgotten, and what the row says of proofs of payment and     *)
(* refunds is true. Without preemption the swap keeps its promise.         *)
(***************************************************************************)
EXTENDS SendSwap, TLAPS

\* A call between the write of its lockup id and the answer of the network
Broadcasting == {c \in Calls : pc[c] = "broadcast"}

\* A call that has not put its lockup tx on the network yet
NotSentYet == {"start", "create", "lockup", "build", "broadcast"}

\* The row holds the id that is being broadcast, and that of every lockup on the network
RowHoldsLockup ==
  /\ \A t \in lockups : row.lockup = t
  /\ \A c \in Broadcasting : row.lockup = c

\* A call sends its lockup once: afterwards it is past the broadcast for good
SentOnce ==
  \A c \in Calls : c \in lockups =>
    /\ pc[c] \notin NotSentYet
    /\ pc[c] \in {"update", "write"} => pend[c].then # "lockup"

\* The grace period covers a lockup until the wallet can see it
GraceCoversBroadcast == (Broadcasting # {} \/ lockups # seen) => grace

\* A copy with the current version agrees with the row, or clears an id that never was broadcast
CopyAgrees ==
  \A t \in fresh :
    /\ pc[t] = "recover" => copy[t] = row
    /\ pc[t] = "save" => \/ copy[t].lockup = row.lockup
                         \/ copy[t].lockup = NoTx /\ lockups = {} /\ Broadcasting = {}

\* Nothing takes a row that exists away
RowExists ==
  /\ row.state = "None" => row.lockup = NoTx
  /\ \A c \in Calls : pc[c] \in {"lockup", "build", "broadcast"} => row.state # "None"
  /\ \A t \in Tasks : pc[t] \in {"recover", "save"} => copy[t].state # "None"
  /\ \A t \in Tasks : pc[t] \in {"update", "write"} => pend[t].to # "None"

Core == RowHoldsLockup /\ SentOnce /\ GraceCoversBroadcast /\ CopyAgrees /\ RowExists

\* The inductive invariant
IInv == TypeOK /\ Core /\ ~LostAnswers

-----------------------------------------------------------------------------
(* Types. *)

\* A row with an existing state and typed ids is a row.
LEMMA MergedType ==
  ASSUME row \in Rows, NEW u \in Updates
  PROVE  Merged(u) \in Rows
  BY DEF Merged, Rows, Updates

\* The domains of the task variables survive a change of one task's entry.
LEMMA LeaveType ==
  ASSUME TypeOK, NEW t \in Tasks, NEW label \in PCs, Leave(t, label)
  PROVE  /\ pc' \in [Tasks -> PCs]
         /\ copy' \in [Tasks -> Rows]
         /\ pend' \in [Tasks -> Updates]
<1>1. NoRow \in Rows
  BY DEF NoRow, Rows, States, TxIds
<1>2. NoUpdate \in Updates
  BY DEF NoUpdate, To, Updates, States, TxIds
<1> QED
  BY <1>1, <1>2 DEF TypeOK, Leave, Goto

LEMMA GiveUpType ==
  ASSUME TypeOK, NEW t \in Tasks, GiveUp(t)
  PROVE  /\ pc' \in [Tasks -> PCs]
         /\ copy' \in [Tasks -> Rows]
         /\ pend' \in [Tasks -> Updates]
  BY LeaveType DEF GiveUp, PCs

LEMMA UpdateRowType ==
  ASSUME NEW r \in Rows, UpdateRow(r)
  PROVE  row' \in Rows /\ fresh' \subseteq Tasks /\ grace' \in BOOLEAN
  BY DEF UpdateRow

LEMMA ApplyType ==
  ASSUME TypeOK, NEW t \in Tasks, NEW u \in Updates, Apply(t, u)
  PROVE  /\ row' \in Rows /\ fresh' \subseteq Tasks /\ grace' \in BOOLEAN
         /\ pc' \in [Tasks -> PCs]
         /\ copy' \in [Tasks -> Rows]
         /\ pend' \in [Tasks -> Updates]
<1>1. row' \in Rows /\ fresh' \subseteq Tasks /\ grace' \in BOOLEAN
  <2>1. Merged(u) \in Rows
    BY MergedType DEF TypeOK
  <2> QED
    BY <2>1, UpdateRowType DEF Apply
<1>2. CASE u.then = "lockup"
  <2>1. NoUpdate \in Updates
    BY DEF NoUpdate, To, Updates, States, TxIds
  <2> QED
    BY <1>1, <1>2, <2>1 DEF Apply, Goto, TypeOK, PCs
<1>3. CASE u.then # "lockup"
  <2>1. u.then \in PCs
    BY DEF Updates, PCs
  <2> QED
    BY <1>1, <1>3, <2>1, LeaveType DEF Apply
<1> QED
  BY <1>2, <1>3

LEMMA UpdateSwapInfoType ==
  ASSUME TypeOK, NEW t \in Tasks, NEW u \in Updates, update_swap_info(t, u)
  PROVE  /\ row' \in Rows /\ fresh' \subseteq Tasks /\ grace' \in BOOLEAN
         /\ pc' \in [Tasks -> PCs]
         /\ copy' \in [Tasks -> Rows]
         /\ pend' \in [Tasks -> Updates]
<1>1. CASE Preemptive
  BY <1>1 DEF update_swap_info, Goto, TypeOK, PCs, rowVars
<1>2. CASE ~Preemptive /\ <<row.state, u.to>> \in Allowed
  BY <1>2, ApplyType DEF update_swap_info
<1>3. CASE ~Preemptive /\ <<row.state, u.to>> \notin Allowed
  BY <1>3, GiveUpType DEF update_swap_info, rowVars, TypeOK
<1> QED
  BY <1>1, <1>2, <1>3

LEMMA RecoveredType ==
  ASSUME TypeOK, NEW s \in Rows, NEW found \in TxIds, NEW preimage \in BOOLEAN
  PROVE  /\ Recovered(s, found, preimage) \in Rows
         /\ s.state # "None" => Recovered(s, found, preimage).state # "None"
<1>1. /\ derive_partial_state(s.state, found, preimage) \in States
      /\ s.state # "None" => derive_partial_state(s.state, found, preimage) # "None"
  BY DEF derive_partial_state, FoundRefund, States, TypeOK, Rows
<1>2. CASE should_skip_recovery(s, found)
  BY <1>2 DEF Recovered
<1>3. CASE ~should_skip_recovery(s, found)
  <2> DEFINE d == derive_partial_state(s.state, found, preimage)
  <2>1. FoundRefund \in BOOLEAN
    BY DEF FoundRefund
  <2>2. Recovered(s, found, preimage)
          = [s EXCEPT !.lockup = found, !.refund = FoundRefund, !.preimage = preimage, !.state = d]
    BY <1>3 DEF Recovered
  <2>3. d \in States /\ (s.state # "None" => d # "None")
    BY <1>1
  <2> HIDE DEF d
  <2> QED
    BY <2>1, <2>2, <2>3 DEF Rows
<1> QED
  BY <1>2, <1>3

LEMMA CallStepType ==
  ASSUME TypeOK, NEW c \in Calls, CallStep(c)
  PROVE  TypeOK'
<1> USE DEF TypeOK
<1>0. c \in Tasks /\ NoRow \in Rows /\ NoUpdate \in Updates
  BY DEF Tasks, NoRow, Rows, NoUpdate, To, Updates, States, TxIds
<1>1. CASE FetchSwap(c)
  <2>1. To("Created", "lockup") \in Updates
    BY DEF To, Updates, States, TxIds
  <2>2. Merged(To("Created", "lockup")) \in Rows
    BY <2>1, MergedType
  <2>3. GiveUp(c) => pc' \in [Tasks -> PCs] /\ copy' \in [Tasks -> Rows] /\ pend' \in [Tasks -> Updates]
    BY <1>0, GiveUpType
  <2> QED
    BY <1>0, <1>1, <2>1, <2>2, <2>3 DEF FetchSwap, Goto, UpdateRow, PCs, chainVars, rowVars
<1>2. CASE CreateSwap(c)
  <2>1. [NoRow EXCEPT !.state = "Created"] \in Rows
    BY <1>0 DEF Rows, States
  <2>2. row' \in Rows /\ fresh' \subseteq Tasks /\ grace' \in BOOLEAN
    BY <1>2, <2>1 DEF CreateSwap, UpdateRow, rowVars
  <2>3. copy' \in [Tasks -> Rows] /\ pc' \in [Tasks -> PCs]
    BY <1>0, <1>2, <2>2 DEF CreateSwap, Goto, PCs
  <2> QED
    BY <1>2, <2>2, <2>3 DEF CreateSwap, chainVars
<1>3. CASE TrackAndCheckLockup(c)
  <2>1. GiveUp(c) => pc' \in [Tasks -> PCs] /\ copy' \in [Tasks -> Rows] /\ pend' \in [Tasks -> Updates]
    BY <1>0, GiveUpType
  <2> QED
    BY <1>0, <1>3, <2>1 DEF TrackAndCheckLockup, Goto, PCs, chainVars, rowVars
<1>4. CASE SetLockupTxId(c)
  <2>1. GiveUp(c) => pc' \in [Tasks -> PCs] /\ copy' \in [Tasks -> Rows] /\ pend' \in [Tasks -> Updates]
    BY <1>0, GiveUpType
  <2>2. [row EXCEPT !.lockup = c] \in Rows
    BY DEF Rows, TxIds
  <2> QED
    BY <1>0, <1>4, <2>1, <2>2 DEF SetLockupTxId, LockupIsNull, Goto, UpdateRow, PCs, chainVars, rowVars
<1>5. CASE BroadcastLockup(c)
  BY <1>0, <1>5 DEF BroadcastLockup, Goto, PCs, rowVars
<1>6. CASE UnsetLockupTxId(c)
  <2>1. pc' \in [Tasks -> PCs] /\ copy' \in [Tasks -> Rows] /\ pend' \in [Tasks -> Updates]
    BY <1>0, <1>6, GiveUpType DEF UnsetLockupTxId
  <2>2. [row EXCEPT !.lockup = NoTx] \in Rows
    BY DEF Rows, TxIds
  <2> QED
    BY <1>6, <2>1, <2>2 DEF UnsetLockupTxId, UpdateRow, rowVars
<1>7. CASE LockupSent(c)
  <2>1. [To("Pending", "wait") EXCEPT !.lockup = c] \in Updates
    BY DEF To, Updates, States, TxIds
  <2> QED
    BY <1>0, <1>7, <2>1, UpdateSwapInfoType DEF LockupSent, chainVars
<1>8. CASE PaymentTimeout(c)
  <2>1. To("TimedOut", "done") \in Updates
    BY DEF To, Updates, States, TxIds
  <2> QED
    BY <1>0, <1>8, <2>1, UpdateSwapInfoType DEF PaymentTimeout, chainVars
<1>9. CASE PaymentEvent(c)
  BY <1>0, <1>9, GiveUpType DEF PaymentEvent, chainVars, rowVars
<1> QED
  BY <1>1, <1>2, <1>3, <1>4, <1>5, <1>6, <1>7, <1>8, <1>9 DEF CallStep

LEMMA RecoveryStepType ==
  ASSUME TypeOK, NEW t \in Tasks, RecoveryStep(t)
  PROVE  TypeOK'
<1> USE DEF TypeOK
<1>0. NoRow \in Rows /\ NoUpdate \in Updates /\ AfterRecovery(t) \in PCs
  BY DEF NoRow, Rows, NoUpdate, To, Updates, States, TxIds, AfterRecovery, PCs
<1>1. CASE ListRecoverable(t)
  BY <1>1 DEF ListRecoverable, Goto, PCs, chainVars
<1>2. ASSUME NEW found \in TxIds, NEW preimage \in BOOLEAN, RecoverSwap(t, found, preimage)
      PROVE  TypeOK'
  <2>1. Recovered(copy[t], found, preimage) \in Rows
    BY RecoveredType
  <2> QED
    BY <1>2, <2>1 DEF RecoverSwap, Goto, PCs, chainVars, rowVars
<1>3. CASE RecoveryFails(t)
  BY <1>0, <1>3, LeaveType DEF RecoveryFails, chainVars
<1>4. CASE SaveRecovered(t)
  BY <1>0, <1>4, LeaveType DEF SaveRecovered, UpdateRow, chainVars
<1> QED
  BY <1>1, <1>2, <1>3, <1>4 DEF RecoveryStep

LEMMA RefundStepType ==
  ASSUME TypeOK, NEW t \in {Blocks, Status}, RefundStep(t)
  PROVE  TypeOK'
<1> USE DEF TypeOK
<1>0. t \in Tasks
  BY DEF Tasks
<1>1. CASE SetRefundAddress(t)
  <2>1. [copy[t] EXCEPT !.addr = TRUE] \in Rows /\ [row EXCEPT !.addr = TRUE] \in Rows
    BY <1>0 DEF Rows
  <2> QED
    BY <1>0, <1>1, <2>1 DEF SetRefundAddress, UpdateRow, chainVars
<1>2. CASE BroadcastRefund(t)
  BY <1>0, <1>2 DEF BroadcastRefund, Goto, PCs, rowVars
<1>3. CASE RefundSent(t)
  <2>1. [To("RefundPending", "idle") EXCEPT !.refund = TRUE] \in Updates
    BY DEF To, Updates, States, TxIds
  <2> QED
    BY <1>0, <1>3, <2>1, UpdateSwapInfoType DEF RefundSent, chainVars
<1>4. CASE RefundFails(t)
  <2>1. To("RefundPending", "idle") \in Updates /\ "idle" \in PCs
    BY DEF To, Updates, States, TxIds, PCs
  <2> QED
    BY <1>0, <1>4, <2>1, UpdateSwapInfoType, LeaveType DEF RefundFails, chainVars, rowVars
<1> QED
  BY <1>1, <1>2, <1>3, <1>4 DEF RefundStep

LEMMA StatusStepType ==
  ASSUME TypeOK, StatusStep
  PROVE  TypeOK'
<1> USE DEF TypeOK
<1>0. Status \in Tasks /\ "idle" \in PCs
  BY DEF Tasks, PCs
<1>1. CASE TransactionClaimPending
  BY <1>0, <1>1 DEF TransactionClaimPending, Goto, PCs, chainVars, rowVars
<1>2. CASE ClaimPreimage
  <2>1. [To("Complete", "idle") EXCEPT !.preimage = TRUE] \in Updates
    BY DEF To, Updates, States, TxIds
  <2> QED
    BY <1>0, <1>2, <2>1, UpdateSwapInfoType DEF ClaimPreimage, chainVars
<1>3. CASE ClaimFails
  BY <1>0, <1>3, LeaveType DEF ClaimFails, chainVars, rowVars
<1>4. CASE TransactionClaimed
  BY <1>0, <1>4 DEF TransactionClaimed, Goto, PCs, chainVars
<1>5. CASE SwapFailed
  <2>1. To("Failed", "idle") \in Updates
    BY DEF To, Updates, States, TxIds
  <2>2. update_swap_info(Status, To("Failed", "idle")) =>
          /\ row' \in Rows /\ fresh' \subseteq Tasks /\ grace' \in BOOLEAN
          /\ pc' \in [Tasks -> PCs] /\ copy' \in [Tasks -> Rows] /\ pend' \in [Tasks -> Updates]
    BY <1>0, <2>1, UpdateSwapInfoType
  <2> QED
    BY <1>0, <1>5, <2>2 DEF SwapFailed, Goto, PCs, chainVars, rowVars
<1> QED
  BY <1>1, <1>2, <1>3, <1>4, <1>5 DEF StatusStep

LEMMA UpdateStepType ==
  ASSUME TypeOK, NEW t \in Tasks, ValidateUpdate(t) \/ WriteUpdate(t)
  PROVE  TypeOK'
<1> USE DEF TypeOK
<1>1. CASE ValidateUpdate(t)
  BY <1>1, GiveUpType DEF ValidateUpdate, Goto, PCs, chainVars, rowVars
<1>2. CASE WriteUpdate(t)
  <2>1. pend[t] \in Updates
    OBVIOUS
  <2> QED
    BY <1>2, <2>1, ApplyType DEF WriteUpdate, chainVars
<1> QED
  BY <1>1, <1>2

LEMMA CheckRefundsType ==
  ASSUME TypeOK, CheckRefunds
  PROVE  TypeOK'
<1>1. Blocks \in Tasks /\ "idle" \in PCs
  BY DEF Tasks, PCs
<1>2. Leave(Blocks, "idle") =>
        pc' \in [Tasks -> PCs] /\ copy' \in [Tasks -> Rows] /\ pend' \in [Tasks -> Updates]
  BY <1>1, LeaveType
<1> QED
  BY <1>1, <1>2 DEF TypeOK, CheckRefunds, Goto, PCs, chainVars, rowVars

LEMMA EnvironmentType ==
  ASSUME TypeOK, Environment
  PROVE  TypeOK'
<1> USE DEF TypeOK
<1>1. CASE Restart
  <2>1. NoRow \in Rows /\ NoUpdate \in Updates
    BY DEF NoRow, Rows, NoUpdate, To, Updates, States, TxIds
  <2>2. [row EXCEPT !.state = "TimedOut"] \in Rows
    BY DEF Rows, States
  <2>3. restarts' \in 0..MaxRestarts
    BY <1>1, BoundsAssumption DEF Restart
  <2>4. row' \in Rows /\ fresh' \subseteq Tasks /\ grace' \in BOOLEAN
    BY <1>1, <2>2 DEF Restart, UpdateRow
  <2>5. pc' \in [Tasks -> PCs] /\ copy' \in [Tasks -> Rows] /\ pend' \in [Tasks -> Updates]
    BY <1>1, <2>1 DEF Restart, PCs
  <2> QED
    BY <1>1, <2>3, <2>4, <2>5 DEF Restart, chainVars
<1>2. CASE Reconnect
  BY <1>2 DEF Reconnect, rowVars, taskVars, chainVars
<1>3. CASE GracePeriodEnds
  BY <1>3 DEF GracePeriodEnds, taskVars, chainVars
<1>4. CASE TimeoutHeightReached \/ WalletScansTip
  BY <1>4 DEF TimeoutHeightReached, WalletScansTip, rowVars, taskVars
<1>5. CASE LockupVisible \/ RefundVisible \/ RefundConfirmed
  BY <1>5 DEF LockupVisible, RefundVisible, RefundConfirmed, rowVars, taskVars
<1>6. CASE BoltzPays \/ BoltzFails \/ BoltzClaims
  BY <1>6 DEF BoltzPays, BoltzFails, BoltzClaims, rowVars, taskVars
<1> QED
  BY <1>1, <1>2, <1>3, <1>4, <1>5, <1>6 DEF Environment

\* No step of any task, of the process or of the environment leaves the domains.
LEMMA NextType ==
  ASSUME TypeOK, [Next]_vars
  PROVE  TypeOK'
<1>1. CASE UNCHANGED vars
  BY <1>1 DEF TypeOK, vars, rowVars, taskVars, chainVars
<1>2. ASSUME NEW c \in Calls, CallStep(c) PROVE TypeOK'
  BY <1>2, CallStepType
<1>3. ASSUME NEW t \in Syncs \cup {Blocks, Status}, RecoveryStep(t) PROVE TypeOK'
  BY <1>3, RecoveryStepType DEF Tasks
<1>4. ASSUME NEW t \in {Blocks, Status}, RefundStep(t) PROVE TypeOK'
  BY <1>4, RefundStepType
<1>5. ASSUME NEW t \in Tasks, ValidateUpdate(t) \/ WriteUpdate(t) PROVE TypeOK'
  BY <1>5, UpdateStepType
<1> QED
  BY <1>1, <1>2, <1>3, <1>4, <1>5, CheckRefundsType, StatusStepType, EnvironmentType DEF Next

LEMMA InitType == Init => TypeOK
<1> SUFFICES ASSUME Init PROVE TypeOK
  OBVIOUS
<1>1. NoRow \in Rows /\ NoUpdate \in Updates
  BY DEF NoRow, Rows, NoUpdate, To, Updates, States, TxIds
<1>2. pc \in [Tasks -> PCs] /\ copy \in [Tasks -> Rows] /\ pend \in [Tasks -> Updates]
  BY <1>1 DEF Init, PCs
<1>3. restarts \in 0..MaxRestarts
  BY BoundsAssumption DEF Init
<1> QED
  BY <1>1, <1>2, <1>3 DEF Init, TypeOK

\* Every reachable state is well typed: the columns of the row, the copies and the pending
\* arguments hold values the handlers can produce.
THEOREM TypeCorrect == Spec => []TypeOK
<1>1. Init => TypeOK
  BY InitType
<1>2. TypeOK /\ [Next]_vars => TypeOK'
  BY NextType
<1> QED
  BY <1>1, <1>2, PTL DEF Spec

-----------------------------------------------------------------------------
(* One lockup. *)

\* A task that leaves its handler without touching the row disturbs nothing.
LEMMA LeaveCore ==
  ASSUME IInv, NEW t \in Tasks, NEW label \in {"done", "wait", "idle", "refunds"}, Leave(t, label),
         fresh' \subseteq fresh, UNCHANGED <<row, grace, lockups, seen>>
  PROVE  Core'
<1> USE DEF IInv, TypeOK, Core, Leave, Goto
<1>1. Broadcasting' \subseteq Broadcasting
  BY DEF Broadcasting
<1>2. RowHoldsLockup'
  BY <1>1 DEF RowHoldsLockup
<1>3. SentOnce'
  BY DEF SentOnce, NotSentYet
<1>4. GraceCoversBroadcast'
  BY <1>1 DEF GraceCoversBroadcast
<1>5. CopyAgrees'
  BY <1>1 DEF CopyAgrees
<1>6. RowExists'
  BY DEF RowExists, NoRow
<1> QED
  BY <1>2, <1>3, <1>4, <1>5, <1>6

\* A task that gives up changes no lockup.
LEMMA GiveUpCore ==
  ASSUME IInv, NEW t \in Tasks, GiveUp(t), UNCHANGED <<rowVars, lockups, seen>>
  PROVE  Core'
<1>1. ASSUME NEW label \in {"done", "wait", "idle", "refunds"}, Leave(t, label) PROVE Core'
  BY <1>1, LeaveCore DEF rowVars
<1> QED
  BY <1>1 DEF GiveUp

\* An UPDATE that keeps the state's existence and a lockup id that is in use, made by a task that is
\* past its broadcast or will not make one, disturbs nothing: every copy becomes stale.
LEMMA ApplyCore ==
  ASSUME IInv, NEW t \in Tasks, NEW u \in Updates, u.to # "None",
         t \in lockups => u.then # "lockup",
         Apply(t, u), UNCHANGED <<lockups, seen>>
  PROVE  Core'
<1> USE DEF IInv, TypeOK, Core
<1>1. /\ row'.state = u.to /\ fresh' = {} /\ grace' = TRUE
      /\ row.lockup # NoTx => row'.lockup = row.lockup
  BY DEF Apply, UpdateRow, Merged, Rows
<1>2. /\ pc' = [pc EXCEPT ![t] = u.then]
      /\ \A s \in Tasks : s # t => copy'[s] = copy[s] /\ pend'[s] = pend[s]
  BY DEF Apply, Leave, Goto
<1>3. u.then \in {"done", "wait", "lockup", "idle"}
  BY DEF Updates
<1>4. Broadcasting' \subseteq Broadcasting
  BY <1>2, <1>3 DEF Broadcasting
<1>5. RowHoldsLockup'
  BY <1>1, <1>4, TasksAssumption DEF RowHoldsLockup, Broadcasting
<1>6. SentOnce'
  <2> SUFFICES ASSUME NEW c \in Calls, c \in lockups
               PROVE  /\ pc'[c] \notin NotSentYet
                      /\ pc'[c] \in {"update", "write"} => pend'[c].then # "lockup"
    BY DEF SentOnce
  <2>1. c \in Tasks
    BY DEF Tasks
  <2>2. CASE c = t
    BY <1>2, <1>3, <2>2 DEF NotSentYet
  <2>3. CASE c # t
    BY <1>2, <2>1, <2>3 DEF SentOnce
  <2> QED
    BY <2>2, <2>3
<1>7. GraceCoversBroadcast' /\ CopyAgrees'
  BY <1>1 DEF GraceCoversBroadcast, CopyAgrees
<1>8. RowExists'
  BY <1>1, <1>2, <1>3 DEF RowExists
<1> QED
  BY <1>5, <1>6, <1>7, <1>8

\* update_swap_info, at whichever of its points the task is left.
LEMMA UpdateSwapInfoCore ==
  ASSUME IInv, NEW t \in Tasks, NEW u \in Updates, u.to # "None",
         t \in lockups => u.then # "lockup",
         update_swap_info(t, u), UNCHANGED <<lockups, seen>>
  PROVE  Core'
<1>1. CASE Preemptive
  <2> USE DEF IInv, TypeOK, Core
  <2>1. /\ pc' = [pc EXCEPT ![t] = "update"] /\ pend' = [pend EXCEPT ![t] = u]
        /\ UNCHANGED <<copy, row, fresh, grace>>
    BY <1>1 DEF update_swap_info, Goto, rowVars
  <2>2. Broadcasting' \subseteq Broadcasting
    BY <2>1 DEF Broadcasting
  <2>3. RowHoldsLockup' /\ GraceCoversBroadcast'
    BY <2>1, <2>2 DEF RowHoldsLockup, GraceCoversBroadcast
  <2>4. SentOnce'
    BY <2>1 DEF SentOnce, NotSentYet, Tasks
  <2>5. CopyAgrees'
    BY <2>1, <2>2 DEF CopyAgrees
  <2>6. RowExists'
    BY <2>1 DEF RowExists
  <2> QED
    BY <2>3, <2>4, <2>5, <2>6
<1>2. CASE ~Preemptive /\ <<row.state, u.to>> \in Allowed
  BY <1>2, ApplyCore DEF update_swap_info
<1>3. CASE ~Preemptive /\ <<row.state, u.to>> \notin Allowed
  BY <1>3, GiveUpCore DEF update_swap_info
<1> QED
  BY <1>1, <1>2, <1>3

\* A step of the chain or of Boltz: a lockup may become visible, nothing else concerns the row.
LEMMA ChainCore ==
  ASSUME IInv, UNCHANGED <<row, fresh, grace, taskVars, lockups>>, seen' \in {seen, lockups}
  PROVE  Core'
  BY DEF IInv, TypeOK, Core, taskVars, Broadcasting, RowHoldsLockup, SentOnce,
         GraceCoversBroadcast, CopyAgrees, RowExists

LEMMA CallStepCore ==
  ASSUME IInv, NEW c \in Calls, CallStep(c)
  PROVE  Core'
<1> USE DEF IInv, TypeOK, Core
<1>0. c \in Tasks
  BY DEF Tasks
<1>1. CASE FetchSwap(c)
  <2>0. c \notin lockups /\ pc[c] = "start"
    BY <1>1 DEF FetchSwap, SentOnce, NotSentYet
  <2>1. UNCHANGED <<lockups, seen>>
    BY <1>1 DEF FetchSwap, chainVars
  <2>2. CASE GiveUp(c) /\ UNCHANGED rowVars
    BY <1>0, <2>1, <2>2, GiveUpCore
  <2>3. CASE /\ UNCHANGED rowVars
             /\ \/ Goto(c, "create") /\ row.state = "None" /\ UNCHANGED <<copy, pend>>
                \/ Goto(c, "lockup") /\ row.state = "Created" /\ UNCHANGED pend
                \/ Goto(c, "update") /\ pend' = [pend EXCEPT ![c] = To("Created", "lockup")]
             /\ \A t \in Tasks : t # c => copy'[t] = copy[t]
    <3>0. PICK label \in {"create", "lockup", "update"} :
            /\ pc' = [pc EXCEPT ![c] = label]
            /\ label = "lockup" => row.state = "Created"
            /\ label = "update" => pend'[c].to = "Created"
            /\ \A t \in Tasks : t # c => pend'[t] = pend[t]
      BY <1>0, <2>3 DEF Goto, To
    <3>1. Broadcasting' = Broadcasting
      BY <2>0, <3>0 DEF Broadcasting
    <3>2. RowHoldsLockup' /\ GraceCoversBroadcast'
      BY <2>1, <2>3, <3>1 DEF RowHoldsLockup, GraceCoversBroadcast, rowVars
    <3>3. SentOnce'
      BY <2>0, <2>1, <3>0 DEF SentOnce, Tasks
    <3>4. CopyAgrees'
      BY <2>1, <2>3, <3>0, <3>1 DEF CopyAgrees, rowVars
    <3>5. RowExists'
      BY <2>0, <2>3, <3>0 DEF RowExists, rowVars
    <3> QED
      BY <3>2, <3>3, <3>4, <3>5
  <2>4. CASE /\ ~Preemptive /\ row.state = "TimedOut"
             /\ Goto(c, "lockup") /\ UpdateRow(Merged(To("Created", "lockup"))) /\ UNCHANGED pend
             /\ \A t \in Tasks : t # c => copy'[t] = copy[t]
    <3>1. row'.lockup = row.lockup /\ row'.state = "Created" /\ fresh' = {} /\ grace' = TRUE
      BY <2>4 DEF UpdateRow, Merged, To, Rows
    <3>2. Broadcasting' = Broadcasting
      BY <2>0, <2>4 DEF Broadcasting, Goto
    <3>3. RowHoldsLockup' /\ GraceCoversBroadcast' /\ CopyAgrees'
      BY <2>1, <3>1, <3>2 DEF RowHoldsLockup, GraceCoversBroadcast, CopyAgrees
    <3>4. SentOnce'
      BY <2>0, <2>1, <2>4 DEF SentOnce, Goto, Tasks
    <3>5. RowExists'
      BY <2>4, <3>1 DEF RowExists, Goto
    <3> QED
      BY <3>3, <3>4, <3>5
  <2> QED
    BY <1>0, <1>1, <2>2, <2>3, <2>4 DEF FetchSwap
<1>2. CASE CreateSwap(c)
  <2>0. c \notin lockups /\ pc[c] = "create" /\ UNCHANGED <<lockups, seen, pend>>
    BY <1>2 DEF CreateSwap, SentOnce, NotSentYet, chainVars
  <2>1. CASE Goto(c, "done") /\ UNCHANGED <<copy, rowVars>>
    <3>1. Broadcasting' = Broadcasting
      BY <2>0, <2>1 DEF Broadcasting, Goto
    <3>2. SentOnce'
      BY <2>0, <2>1 DEF SentOnce, Goto, Tasks
    <3> QED
      BY <2>0, <2>1, <3>1, <3>2
         DEF RowHoldsLockup, GraceCoversBroadcast, CopyAgrees, RowExists, Goto, rowVars
  <2>2. CASE /\ row.state = "None"
             /\ UpdateRow([NoRow EXCEPT !.state = "Created"])
             /\ copy' = [copy EXCEPT ![c] = row']
             /\ Goto(c, "lockup")
    <3>1. row'.state = "Created" /\ row'.lockup = NoTx /\ fresh' = {} /\ grace' = TRUE
      BY <2>2 DEF UpdateRow, NoRow
    <3>2. lockups = {} /\ Broadcasting = {}
      BY <2>2, TasksAssumption DEF RowExists, RowHoldsLockup, Broadcasting
    <3>3. Broadcasting' = {}
      BY <2>2, <3>2 DEF Broadcasting, Goto
    <3>4. RowHoldsLockup' /\ GraceCoversBroadcast' /\ CopyAgrees' /\ SentOnce'
      BY <2>0, <3>1, <3>2, <3>3 DEF RowHoldsLockup, GraceCoversBroadcast, CopyAgrees, SentOnce
    <3>5. RowExists'
      BY <2>0, <2>2, <3>1 DEF RowExists, Goto
    <3> QED
      BY <3>4, <3>5
  <2> QED
    BY <1>2, <2>1, <2>2 DEF CreateSwap
<1>3. CASE TrackAndCheckLockup(c)
  <2>0. /\ c \notin lockups /\ pc[c] = "lockup" /\ row.state # "None"
        /\ UNCHANGED <<rowVars, lockups, seen>>
    BY <1>3 DEF TrackAndCheckLockup, SentOnce, NotSentYet, RowExists, chainVars
  <2>1. CASE GiveUp(c)
    BY <1>0, <2>0, <2>1, GiveUpCore
  <2>2. CASE Goto(c, "build") /\ UNCHANGED <<copy, pend>>
    <3>1. Broadcasting' = Broadcasting
      BY <2>0, <2>2 DEF Broadcasting, Goto
    <3>2. SentOnce'
      BY <2>0, <2>2 DEF SentOnce, Goto, Tasks
    <3> QED
      BY <2>0, <2>2, <3>1, <3>2
         DEF RowHoldsLockup, GraceCoversBroadcast, CopyAgrees, RowExists, Goto, rowVars
  <2> QED
    BY <1>3, <2>1, <2>2 DEF TrackAndCheckLockup
<1>4. CASE SetLockupTxId(c)
  <2>0. /\ c \notin lockups /\ pc[c] = "build" /\ row.state # "None"
        /\ UNCHANGED <<lockups, seen>>
    BY <1>4 DEF SetLockupTxId, SentOnce, NotSentYet, RowExists, chainVars
  <2>1. CASE GiveUp(c) /\ UNCHANGED rowVars
    BY <1>0, <2>0, <2>1, GiveUpCore
  <2>2. CASE /\ row.lockup = NoTx
             /\ UpdateRow([row EXCEPT !.lockup = c])
             /\ Goto(c, "broadcast")
             /\ UNCHANGED <<copy, pend>>
    <3>1. row'.lockup = c /\ row'.state = row.state /\ fresh' = {} /\ grace' = TRUE
      BY <2>2 DEF UpdateRow, Rows
    <3>2. lockups = {} /\ Broadcasting = {}
      BY <2>2, TasksAssumption DEF RowHoldsLockup, Broadcasting
    <3>3. Broadcasting' = {c}
      BY <1>0, <2>2, <3>2 DEF Broadcasting, Goto, Tasks
    <3>4. RowHoldsLockup' /\ GraceCoversBroadcast' /\ CopyAgrees' /\ SentOnce'
      BY <2>0, <3>1, <3>2, <3>3 DEF RowHoldsLockup, GraceCoversBroadcast, CopyAgrees, SentOnce
    <3>5. RowExists'
      BY <2>0, <2>2, <3>1 DEF RowExists, Goto
    <3> QED
      BY <3>4, <3>5
  <2> QED
    BY <1>4, <2>1, <2>2 DEF SetLockupTxId, LockupIsNull
<1>5. CASE BroadcastLockup(c)
  <2>0. /\ pc[c] = "broadcast" /\ row.lockup = c /\ grace
        /\ lockups' = lockups \cup {c} /\ Goto(c, "sent") /\ UNCHANGED <<copy, pend, rowVars>>
    BY <1>5 DEF BroadcastLockup, RowHoldsLockup, GraceCoversBroadcast, Broadcasting
  <2>1. Broadcasting' \subseteq Broadcasting /\ Broadcasting # {}
    BY <2>0 DEF Broadcasting, Goto
  <2>2. RowHoldsLockup' /\ GraceCoversBroadcast'
    BY <2>0, <2>1 DEF RowHoldsLockup, GraceCoversBroadcast, rowVars
  <2>3. SentOnce'
    BY <1>0, <2>0 DEF SentOnce, Goto, NotSentYet, Tasks
  <2>4. CopyAgrees'
    BY <2>0, <2>1 DEF CopyAgrees, Goto, rowVars
  <2>5. RowExists'
    BY <2>0 DEF RowExists, Goto, rowVars
  <2> QED
    BY <2>2, <2>3, <2>4, <2>5
<1>6. CASE UnsetLockupTxId(c)
  <2>0. /\ c \notin lockups /\ pc[c] = "broadcast" /\ row.lockup = c /\ row.state # "None"
        /\ UNCHANGED <<lockups, seen>>
    BY <1>6 DEF UnsetLockupTxId, SentOnce, NotSentYet, RowExists, RowHoldsLockup, Broadcasting, chainVars
  <2>1. row'.lockup = NoTx /\ row'.state = row.state /\ fresh' = {} /\ grace' = TRUE
    BY <1>6, <2>0 DEF UnsetLockupTxId, UpdateRow, Rows
  <2>2. lockups = {} /\ Broadcasting = {c}
    BY <2>0 DEF RowHoldsLockup, Broadcasting
  <2>3. Goto(c, "done") /\ \A t \in Tasks : t # c => copy'[t] = copy[t] /\ pend'[t] = pend[t]
    BY <1>6 DEF UnsetLockupTxId, GiveUp, Leave
  <2>4. Broadcasting' = {}
    BY <2>2, <2>3 DEF Broadcasting, Goto, Tasks
  <2>5. RowHoldsLockup' /\ SentOnce'
    BY <2>0, <2>2, <2>4 DEF RowHoldsLockup, SentOnce
  <2>6. GraceCoversBroadcast' /\ CopyAgrees'
    BY <2>1 DEF GraceCoversBroadcast, CopyAgrees
  <2>7. RowExists'
    BY <2>0, <2>1, <2>3 DEF RowExists, Goto
  <2> QED
    BY <2>5, <2>6, <2>7
<1>7. CASE LockupSent(c)
  <2>1. [To("Pending", "wait") EXCEPT !.lockup = c] \in Updates
    BY DEF To, Updates, States, TxIds
  <2> QED
    BY <1>0, <1>7, <2>1, UpdateSwapInfoCore DEF LockupSent, chainVars, To
<1>8. CASE PaymentTimeout(c)
  <2>1. To("TimedOut", "done") \in Updates
    BY DEF To, Updates, States, TxIds
  <2> QED
    BY <1>0, <1>8, <2>1, UpdateSwapInfoCore DEF PaymentTimeout, chainVars, To
<1>9. CASE PaymentEvent(c)
  BY <1>0, <1>9, GiveUpCore DEF PaymentEvent, chainVars
<1> QED
  BY <1>1, <1>2, <1>3, <1>4, <1>5, <1>6, <1>7, <1>8, <1>9 DEF CallStep

LEMMA RecoveryStepCore ==
  ASSUME IInv, NEW t \in Syncs \cup {Blocks, Status}, RecoveryStep(t)
  PROVE  Core'
<1> USE DEF IInv, TypeOK, Core
<1>0. t \in Tasks /\ t \notin Calls
  BY TasksAssumption DEF Tasks
<1>1. CASE ListRecoverable(t)
  <2>0. UNCHANGED <<row, grace, pend, lockups, seen>>
    BY <1>1 DEF ListRecoverable, chainVars
  <2>1. PICK label \in {"recover", "refunds"} :
          /\ pc' = [pc EXCEPT ![t] = label]
          /\ label = "refunds" => UNCHANGED <<copy, fresh>>
          /\ label = "recover" => /\ row.state # "None"
                                 /\ copy' = [copy EXCEPT ![t] = row]
                                 /\ fresh' = fresh \cup {t}
    BY <1>1 DEF ListRecoverable, Goto, list_recoverable
  <2>2. Broadcasting' = Broadcasting
    BY <1>0, <2>1 DEF Broadcasting
  <2>3. RowHoldsLockup' /\ GraceCoversBroadcast'
    BY <2>0, <2>2 DEF RowHoldsLockup, GraceCoversBroadcast
  <2>4. SentOnce'
    BY <1>0, <2>0, <2>1 DEF SentOnce
  <2>5. CopyAgrees'
    BY <1>0, <2>0, <2>1, <2>2 DEF CopyAgrees
  <2>6. RowExists'
    BY <1>0, <2>0, <2>1 DEF RowExists
  <2> QED
    BY <2>3, <2>4, <2>5, <2>6
<1>2. ASSUME NEW found \in TxIds, NEW preimage \in BOOLEAN, RecoverSwap(t, found, preimage)
      PROVE  Core'
  <2> DEFINE r == Recovered(copy[t], found, preimage)
  <2>0. /\ pc[t] = "recover" /\ pc' = [pc EXCEPT ![t] = "save"]
        /\ copy' = [copy EXCEPT ![t] = r]
        /\ UNCHANGED <<rowVars, pend, lockups, seen>>
    BY <1>2 DEF RecoverSwap, Goto, chainVars
  <2>1. r.state # "None"
    BY <1>0, <2>0, RecoveredType DEF RowExists
  <2>2. Broadcasting' = Broadcasting
    BY <1>0, <2>0 DEF Broadcasting
  <2>3. t \in fresh => r.lockup = row.lockup \/ (r.lockup = NoTx /\ lockups = {} /\ Broadcasting = {})
    <3> SUFFICES ASSUME t \in fresh
                 PROVE  r.lockup = row.lockup \/ (r.lockup = NoTx /\ lockups = {} /\ Broadcasting = {})
      OBVIOUS
    <3>1. copy[t] = row
      BY <2>0 DEF CopyAgrees
    <3>2. CASE should_skip_recovery(copy[t], found)
      BY <3>1, <3>2 DEF Recovered
    <3>3. CASE ~should_skip_recovery(copy[t], found)
      <4>1. r.lockup = found
        BY <1>0, <3>3 DEF Recovered, Rows
      <4>2. CASE seen # {}
        BY <1>2, <4>1, <4>2 DEF RecoverSwap, RowHoldsLockup
      <4>3. CASE seen = {} /\ row.lockup # NoTx
        <5>1. found = NoTx /\ ~grace
          BY <1>2, <3>1, <3>3, <4>3 DEF RecoverSwap, should_skip_recovery
        <5> QED
          BY <4>1, <4>3, <5>1 DEF GraceCoversBroadcast
      <4>4. CASE seen = {} /\ row.lockup = NoTx
        BY <1>2, <4>1, <4>4 DEF RecoverSwap
      <4> QED
        BY <4>2, <4>3, <4>4
    <3> QED
      BY <3>2, <3>3
  <2> HIDE DEF r
  <2>4. RowHoldsLockup' /\ GraceCoversBroadcast'
    BY <2>0, <2>2 DEF RowHoldsLockup, GraceCoversBroadcast, rowVars
  <2>5. SentOnce'
    BY <1>0, <2>0 DEF SentOnce
  <2>6. CopyAgrees'
    BY <1>0, <2>0, <2>2, <2>3 DEF CopyAgrees, rowVars
  <2>7. RowExists'
    BY <1>0, <2>0, <2>1 DEF RowExists, rowVars
  <2> QED
    BY <2>4, <2>5, <2>6, <2>7
<1>3. CASE RecoveryFails(t)
  BY <1>0, <1>3, LeaveCore DEF RecoveryFails, AfterRecovery, chainVars
<1>4. CASE SaveRecovered(t)
  <2>0. pc[t] = "save" /\ Leave(t, AfterRecovery(t)) /\ UNCHANGED <<lockups, seen>>
    BY <1>4 DEF SaveRecovered, chainVars
  <2>1. CASE t \in fresh /\ UpdateRow(copy[t])
    <3>1. row' = copy[t] /\ fresh' = {} /\ grace' = TRUE /\ copy[t].state # "None"
      BY <1>0, <2>0, <2>1 DEF UpdateRow, RowExists
    <3>2. copy[t].lockup = row.lockup \/ (copy[t].lockup = NoTx /\ lockups = {} /\ Broadcasting = {})
      BY <2>0, <2>1 DEF CopyAgrees
    <3>3. Broadcasting' = Broadcasting
      BY <1>0, <2>0 DEF Broadcasting, Leave, Goto
    <3>4. RowHoldsLockup'
      BY <2>0, <3>1, <3>2, <3>3 DEF RowHoldsLockup
    <3>5. GraceCoversBroadcast' /\ CopyAgrees'
      BY <3>1 DEF GraceCoversBroadcast, CopyAgrees
    <3>6. SentOnce'
      BY <1>0, <2>0 DEF SentOnce, Leave, Goto
    <3>7. RowExists'
      BY <1>0, <2>0, <3>1 DEF RowExists, Leave, Goto, AfterRecovery
    <3> QED
      BY <3>4, <3>5, <3>6, <3>7
  <2>2. CASE fresh' = fresh \ {t} /\ UNCHANGED <<row, grace>>
    BY <1>0, <2>0, <2>2, LeaveCore DEF AfterRecovery
  <2> QED
    BY <1>4, <2>1, <2>2 DEF SaveRecovered
<1> QED
  BY <1>1, <1>2, <1>3, <1>4 DEF RecoveryStep

\* A background task that moves on, to a point that is neither recovery nor a pending update,
\* disturbs nothing.
LEMMA MoveCore ==
  ASSUME IInv, NEW t \in {Blocks, Status}, NEW label \in {"refund", "refundCoop", "refunded", "claim"},
         Goto(t, label), \A s \in Tasks : s # t => copy'[s] = copy[s],
         UNCHANGED <<rowVars, pend, lockups, seen>>
  PROVE  Core'
<1> USE DEF IInv, TypeOK, Core, Goto
<1>0. t \in Tasks /\ t \notin Calls
  BY TasksAssumption DEF Tasks
<1>1. Broadcasting' = Broadcasting
  BY <1>0 DEF Broadcasting
<1>2. RowHoldsLockup' /\ GraceCoversBroadcast'
  BY <1>1 DEF RowHoldsLockup, GraceCoversBroadcast, rowVars
<1>3. SentOnce'
  BY <1>0 DEF SentOnce
<1>4. CopyAgrees' /\ RowExists'
  BY <1>0, <1>1 DEF CopyAgrees, RowExists, rowVars
<1> QED
  BY <1>2, <1>3, <1>4

LEMMA RefundStepCore ==
  ASSUME IInv, NEW t \in {Blocks, Status}, RefundStep(t)
  PROVE  Core'
<1>0. t \in Tasks /\ t \notin lockups
  BY TasksAssumption DEF Tasks, IInv, TypeOK
<1>1. CASE SetRefundAddress(t)
  <2> USE DEF IInv, TypeOK, Core
  <2>1. /\ row'.lockup = row.lockup /\ row'.state = row.state /\ fresh' = {} /\ grace' = TRUE
        /\ UNCHANGED <<pc, pend, lockups, seen>>
    BY <1>1 DEF SetRefundAddress, UpdateRow, Rows, chainVars
  <2>2. pc[t] \notin {"recover", "save"} /\ \A s \in Tasks : s # t => copy'[s] = copy[s]
    BY <1>0, <1>1 DEF SetRefundAddress
  <2>3. Broadcasting' = Broadcasting
    BY <2>1 DEF Broadcasting
  <2>4. RowHoldsLockup' /\ GraceCoversBroadcast' /\ CopyAgrees' /\ SentOnce'
    BY <2>1, <2>3 DEF RowHoldsLockup, GraceCoversBroadcast, CopyAgrees, SentOnce
  <2>5. RowExists'
    BY <2>1, <2>2 DEF RowExists
  <2> QED
    BY <2>4, <2>5
<1>2. CASE BroadcastRefund(t)
  BY <1>2, MoveCore DEF BroadcastRefund
<1>3. CASE RefundSent(t)
  <2>1. [To("RefundPending", "idle") EXCEPT !.refund = TRUE] \in Updates
    BY DEF To, Updates, States, TxIds
  <2> QED
    BY <1>0, <1>3, <2>1, UpdateSwapInfoCore DEF RefundSent, chainVars, To
<1>4. CASE RefundFails(t)
  <2>1. To("RefundPending", "idle") \in Updates
    BY DEF To, Updates, States, TxIds
  <2> QED
    BY <1>0, <1>4, <2>1, UpdateSwapInfoCore, LeaveCore DEF RefundFails, chainVars, rowVars, To
<1> QED
  BY <1>1, <1>2, <1>3, <1>4 DEF RefundStep

LEMMA CheckRefundsCore ==
  ASSUME IInv, CheckRefunds
  PROVE  Core'
<1>0. Blocks \in Tasks
  BY DEF Tasks
<1>1. CASE Leave(Blocks, "idle")
  BY <1>0, <1>1, LeaveCore DEF CheckRefunds, chainVars, rowVars
<1>2. CASE /\ copy' = [copy EXCEPT ![Blocks] = row] /\ UNCHANGED pend
           /\ Goto(Blocks, IF tip = "scanned" THEN "refund" ELSE "refundCoop")
  <2>1. \A s \in Tasks : s # Blocks => copy'[s] = copy[s]
    BY <1>2 DEF IInv, TypeOK
  <2> QED
    BY <1>2, <2>1, MoveCore DEF CheckRefunds, chainVars
<1> QED
  BY <1>1, <1>2 DEF CheckRefunds

LEMMA StatusStepCore ==
  ASSUME IInv, StatusStep
  PROVE  Core'
<1>0. Status \in Tasks /\ Status \notin lockups /\ Status \notin Calls
  BY TasksAssumption DEF Tasks, IInv, TypeOK
<1>1. CASE TransactionClaimPending
  <2>1. \A s \in Tasks : s # Status => copy'[s] = copy[s]
    BY <1>1 DEF TransactionClaimPending, IInv, TypeOK
  <2> QED
    BY <1>1, <2>1, MoveCore DEF TransactionClaimPending, chainVars
<1>2. CASE ClaimPreimage
  <2>1. [To("Complete", "idle") EXCEPT !.preimage = TRUE] \in Updates
    BY DEF To, Updates, States, TxIds
  <2> QED
    BY <1>0, <1>2, <2>1, UpdateSwapInfoCore DEF ClaimPreimage, chainVars, To
<1>3. CASE ClaimFails
  BY <1>0, <1>3, LeaveCore DEF ClaimFails, chainVars, rowVars
<1>4. CASE TransactionClaimed
  <2> USE DEF IInv, TypeOK, Core
  <2>0. /\ row.state # "None" /\ copy' = [copy EXCEPT ![Status] = row]
        /\ fresh' = fresh \cup {Status} /\ pc' = [pc EXCEPT ![Status] = "recover"]
        /\ UNCHANGED <<row, grace, pend, lockups, seen>>
    BY <1>4 DEF TransactionClaimed, StatusArrives, Goto, chainVars
  <2>1. Broadcasting' = Broadcasting
    BY <1>0, <2>0 DEF Broadcasting
  <2>2. RowHoldsLockup' /\ GraceCoversBroadcast'
    BY <2>0, <2>1 DEF RowHoldsLockup, GraceCoversBroadcast
  <2>3. SentOnce'
    BY <1>0, <2>0 DEF SentOnce
  <2>4. CopyAgrees' /\ RowExists'
    BY <1>0, <2>0, <2>1 DEF CopyAgrees, RowExists
  <2> QED
    BY <2>2, <2>3, <2>4
<1>5. CASE SwapFailed
  <2>1. CASE update_swap_info(Status, To("Failed", "idle"))
    <3>1. To("Failed", "idle") \in Updates
      BY DEF To, Updates, States, TxIds
    <3> QED
      BY <1>0, <1>5, <2>1, <3>1, UpdateSwapInfoCore DEF SwapFailed, chainVars, To
  <2>2. CASE copy' = [copy EXCEPT ![Status] = row] /\ Goto(Status, "refundCoop") /\ UNCHANGED <<pend, rowVars>>
    <3>1. \A s \in Tasks : s # Status => copy'[s] = copy[s]
      BY <2>2 DEF IInv, TypeOK
    <3> QED
      BY <1>5, <2>2, <3>1, MoveCore DEF SwapFailed, chainVars
  <2> QED
    BY <1>5, <2>1, <2>2 DEF SwapFailed
<1> QED
  BY <1>1, <1>2, <1>3, <1>4, <1>5 DEF StatusStep

LEMMA UpdateStepCore ==
  ASSUME IInv, NEW t \in Tasks, ValidateUpdate(t) \/ WriteUpdate(t)
  PROVE  Core'
<1>0. /\ pend[t] \in Updates
      /\ pc[t] \in {"update", "write"} => pend[t].to # "None" /\ (t \in lockups => pend[t].then # "lockup")
  BY DEF IInv, TypeOK, Core, RowExists, SentOnce
<1>1. CASE ValidateUpdate(t) /\ GiveUp(t)
  BY <1>1, GiveUpCore DEF ValidateUpdate, chainVars
<1>2. CASE ValidateUpdate(t) /\ Goto(t, "write") /\ UNCHANGED <<copy, pend>>
  <2> USE DEF IInv, TypeOK, Core
  <2>0. /\ pc[t] = "update" /\ pc' = [pc EXCEPT ![t] = "write"]
        /\ UNCHANGED <<rowVars, copy, pend, lockups, seen>>
    BY <1>2 DEF ValidateUpdate, Goto, chainVars
  <2>1. Broadcasting' = Broadcasting
    BY <2>0 DEF Broadcasting
  <2>2. RowHoldsLockup' /\ GraceCoversBroadcast'
    BY <2>0, <2>1 DEF RowHoldsLockup, GraceCoversBroadcast, rowVars
  <2>3. SentOnce'
    BY <1>0, <2>0 DEF SentOnce, NotSentYet, Tasks
  <2>4. CopyAgrees' /\ RowExists'
    BY <2>0, <2>1 DEF CopyAgrees, RowExists, rowVars
  <2> QED
    BY <2>2, <2>3, <2>4
<1>3. CASE WriteUpdate(t)
  BY <1>0, <1>3, ApplyCore DEF WriteUpdate, chainVars
<1> QED
  BY <1>1, <1>2, <1>3 DEF ValidateUpdate

LEMMA EnvironmentCore ==
  ASSUME IInv, Environment
  PROVE  Core'
<1>1. CASE Restart
  <2> USE DEF IInv, TypeOK, Core
  <2>0. /\ row'.lockup = row.lockup /\ fresh' = {} /\ UNCHANGED <<lockups, seen>>
        /\ row'.state = "None" => row.state = "None"
        /\ grace => grace'
    BY <1>1 DEF Restart, UpdateRow, Rows, chainVars
  <2>1. \A t \in Tasks : pc'[t] \in {"idle", "start", "done"} /\ (pc'[t] = "start" => pc[t] = "start")
    BY <1>1, TasksAssumption DEF Restart
  <2>3. Broadcasting' = {}
    BY <2>1 DEF Broadcasting, Tasks
  <2>4. RowHoldsLockup' /\ GraceCoversBroadcast' /\ CopyAgrees'
    BY <2>0, <2>3 DEF RowHoldsLockup, GraceCoversBroadcast, CopyAgrees
  <2>5. SentOnce'
    BY <2>0, <2>1 DEF SentOnce, NotSentYet, Tasks
  <2>6. RowExists'
    BY <2>0, <2>1 DEF RowExists, Tasks
  <2> QED
    BY <2>4, <2>5, <2>6
<1>2. CASE GracePeriodEnds
  <2> USE DEF IInv, TypeOK, Core
  <2>1. Broadcasting' = Broadcasting /\ Broadcasting = {} /\ seen = lockups
        /\ UNCHANGED <<row, fresh, pc, copy, pend, lockups, seen>>
    BY <1>2 DEF GracePeriodEnds, Broadcasting, taskVars, chainVars
  <2> QED
    BY <2>1 DEF RowHoldsLockup, GraceCoversBroadcast, CopyAgrees, SentOnce, RowExists
<1>3. CASE Reconnect
  BY <1>3, ChainCore DEF Reconnect, rowVars, chainVars
<1>4. CASE TimeoutHeightReached \/ WalletScansTip
  BY <1>4, ChainCore DEF TimeoutHeightReached, WalletScansTip, rowVars
<1>5. CASE LockupVisible \/ RefundVisible \/ RefundConfirmed
  BY <1>5, ChainCore DEF LockupVisible, RefundVisible, RefundConfirmed, rowVars
<1>6. CASE BoltzPays \/ BoltzFails \/ BoltzClaims
  BY <1>6, ChainCore DEF BoltzPays, BoltzFails, BoltzClaims, rowVars
<1> QED
  BY <1>1, <1>2, <1>3, <1>4, <1>5, <1>6 DEF Environment

\* The inductive invariant survives every step.
LEMMA NextIInv ==
  ASSUME IInv, [Next]_vars
  PROVE  IInv'
<1>0. TypeOK'
  BY NextType DEF IInv
<1>1. CASE UNCHANGED vars
  <2>1. Core'
    BY <1>1, ChainCore DEF vars, rowVars, chainVars
  <2> QED
    BY <1>0, <2>1 DEF IInv
<1>2. CASE Next
  <2>1. ASSUME NEW c \in Calls, CallStep(c) PROVE Core'
    BY <2>1, CallStepCore
  <2>2. ASSUME NEW t \in Syncs \cup {Blocks, Status}, RecoveryStep(t) PROVE Core'
    BY <2>2, RecoveryStepCore
  <2>3. ASSUME NEW t \in {Blocks, Status}, RefundStep(t) PROVE Core'
    BY <2>3, RefundStepCore
  <2>4. ASSUME NEW t \in Tasks, ValidateUpdate(t) \/ WriteUpdate(t) PROVE Core'
    BY <2>4, UpdateStepCore
  <2>5. Core'
    BY <1>2, <2>1, <2>2, <2>3, <2>4, CheckRefundsCore, StatusStepCore, EnvironmentCore DEF Next
  <2> QED
    BY <1>0, <2>5 DEF IInv
<1> QED
  BY <1>1, <1>2

LEMMA InitIInv == Init /\ ~LostAnswers => IInv
<1> SUFFICES ASSUME Init PROVE Core
  BY InitType DEF IInv
<1>1. Broadcasting = {}
  BY TasksAssumption DEF Init, Broadcasting, Tasks
<1>2. RowHoldsLockup /\ SentOnce /\ GraceCoversBroadcast /\ CopyAgrees
  BY <1>1 DEF Init, RowHoldsLockup, SentOnce, GraceCoversBroadcast, CopyAgrees
<1>3. RowExists
  BY DEF Init, RowExists, NoRow, Tasks
<1> QED
  BY <1>2, <1>3 DEF Core

\* The lockup tx that reached the network is, in every reachable state, the one the row records:
\* unset_send_swap_lockup_tx_id, stale copies and early recovery never erase it. It holds only
\* as long as a broadcast that reached the network is not reported as failed: try_lockup would
\* unset the id.
THEOREM LockupIsNeverForgotten == ~LostAnswers /\ Spec => []LockupNotForgotten
<1>1. IInv => LockupNotForgotten
  BY DEF IInv, Core, RowHoldsLockup, LockupNotForgotten
<1> QED
  BY <1>1, InitIInv, NextIInv, PTL DEF Spec

\* try_lockup broadcasts at most one lockup tx for a swap, for any number of calls of send_payment
\* and sync(), any number of restarts, and whether or not threads preempt each other, as long as a
\* broadcast that reached the network is not reported as failed.
THEOREM NoDoubleLockup == ~LostAnswers /\ Spec => []AtMostOneLockup
<1>1. IInv => AtMostOneLockup
  BY DEF IInv, Core, RowHoldsLockup, AtMostOneLockup
<1> QED
  BY <1>1, InitIInv, NextIInv, PTL DEF Spec

-----------------------------------------------------------------------------
(* Proofs of payment and refund ids: what a record claims has happened, and *)
(* a record is every copy of the row and every update that is to be written.*)

Refunded == {"refundSent", "refundSeen", "refundConfirmed"}

RowHonest(r) ==
  /\ r.preimage => boltz = "paid"
  /\ r.state = "Complete" => r.preimage
  /\ r.refund => spend \in Refunded

UpdateHonest(u) ==
  /\ u.preimage => boltz = "paid"
  /\ u.to = "Complete" => u.preimage
  /\ u.refund => spend \in Refunded

\* Whoever is to store a preimage or a refund id has seen Boltz pay, or has broadcast the refund; a
\* task that recovers a Complete swap does not carry its version
HonestInv ==
  /\ TypeOK
  /\ RowHonest(row)
  /\ \A t \in Tasks : /\ RowHonest(copy[t]) /\ UpdateHonest(pend[t])
                      /\ pc[t] = "claim" => boltz = "paid"
                      /\ pc[t] = "refunded" => spend \in Refunded
  /\ fresh # {} => row.state # "Complete"

\* What Boltz paid and what was refunded stays so.
LEMMA ChainSteps ==
  ASSUME [Next]_vars
  PROVE  /\ boltz = "paid" => boltz' = "paid"
         /\ boltz' # boltz => UNCHANGED rowVars
         /\ spend \in Refunded => spend' \in Refunded
<1> USE DEF Refunded, chainVars
<1>1. ASSUME NEW c \in Calls, CallStep(c) PROVE UNCHANGED <<boltz, spend>>
  BY <1>1 DEF CallStep, FetchSwap, CreateSwap, TrackAndCheckLockup, SetLockupTxId, BroadcastLockup, UnsetLockupTxId,
     LockupSent, PaymentTimeout, PaymentEvent
<1>2. ASSUME NEW t \in Tasks, RecoveryStep(t) \/ ValidateUpdate(t) \/ WriteUpdate(t) PROVE UNCHANGED <<boltz, spend>>
  BY <1>2 DEF RecoveryStep, ListRecoverable, RecoverSwap, RecoveryFails, SaveRecovered, ValidateUpdate, WriteUpdate
<1>3. ASSUME NEW t \in {Blocks, Status}, RefundStep(t)
      PROVE  boltz' = boltz /\ (spend' = spend \/ spend' = "refundSent")
  BY <1>3 DEF RefundStep, SetRefundAddress, BroadcastRefund, RefundSent, RefundFails
<1>4. CheckRefunds \/ StatusStep \/ UNCHANGED vars => UNCHANGED <<boltz, spend>>
  BY DEF CheckRefunds, StatusStep, TransactionClaimPending, ClaimPreimage, ClaimFails, TransactionClaimed, SwapFailed, vars
<1>5. CASE Environment
  BY <1>5 DEF Environment, Reconnect, Restart, GracePeriodEnds, TimeoutHeightReached, WalletScansTip, LockupVisible,
     RefundVisible, RefundConfirmed, BoltzPays, BoltzFails, BoltzClaims
<1> QED
  BY <1>1, <1>2, <1>3, <1>4, <1>5 DEF Next, Tasks

\* What was true of a row or an update stays true.
LEMMA HonestyLasts ==
  ASSUME [Next]_vars
  PROVE  /\ \A r : RowHonest(r) => (r.preimage => boltz' = "paid") /\ (r.state = "Complete" => r.preimage)
                                   /\ (r.refund => spend' \in Refunded)
         /\ \A u : UpdateHonest(u) => (u.preimage => boltz' = "paid") /\ (u.to = "Complete" => u.preimage)
                                      /\ (u.refund => spend' \in Refunded)
  BY ChainSteps DEF RowHonest, UpdateHonest

\* An update of task t stores a preimage only where it was verified, a refund id only of a refund
\* that was sent
Asked(t, u) ==
  /\ u.preimage => pc[t] = "claim"
  /\ u.to = "Complete" => u.preimage
  /\ u.refund => pc[t] = "refunded"

Fetched(t) == copy'[t] = copy[t] \/ copy'[t] = NoRow \/ copy'[t] = row \/ copy'[t] = row'

\* What a step does to a task.
TaskMoves(t) ==
  /\ \/ Fetched(t)
     \/ copy'[t] = [copy[t] EXCEPT !.addr = TRUE]
     \/ \E found \in TxIds, preimage \in BOOLEAN : RecoverSwap(t, found, preimage)
  /\ pend'[t] = pend[t] \/ pend'[t] = NoUpdate \/ Asked(t, pend'[t])
  /\ pc'[t] = "claim" => pc[t] = "claim" \/ boltz = "paid"
  /\ pc'[t] = "refunded" => pc[t] = "refunded" \/ spend' = "refundSent"
  /\ ~Preemptive /\ pc[t] \notin {"update", "write"} => pc'[t] \notin {"update", "write"}

\* An update of a task moves the tasks one step on.
LEMMA UpdateMoves ==
  ASSUME TypeOK, NEW s \in Tasks, NEW u \in Updates, Asked(s, u), update_swap_info(s, u), NEW t \in Tasks
  PROVE  TaskMoves(t)
<1>0. pc \in [Tasks -> PCs] /\ copy \in [Tasks -> Rows] /\ pend \in [Tasks -> Updates]
      /\ u.then \in {"done", "wait", "lockup", "idle"}
  BY DEF TypeOK, Updates
<1>1. CASE s # t
  BY <1>0, <1>1 DEF update_swap_info, Apply, GiveUp, Leave, Goto, TaskMoves, Fetched
<1>2. CASE s = t /\ Preemptive
  BY <1>0, <1>2 DEF update_swap_info, Goto, TaskMoves, Fetched
<1>3. CASE s = t /\ ~Preemptive
  BY <1>0, <1>3 DEF update_swap_info, Apply, GiveUp, Leave, Goto, TaskMoves, Fetched
<1> QED
  BY <1>1, <1>2, <1>3

\* Each task moves one step on, or starts, or rests.
LEMMA TaskStep ==
  ASSUME TypeOK, [Next]_vars, NEW t \in Tasks
  PROVE  TaskMoves(t)
<1>0. pc \in [Tasks -> PCs] /\ copy \in [Tasks -> Rows] /\ pend \in [Tasks -> Updates]
  BY DEF TypeOK
<1>t. Status \in Tasks /\ Blocks \in Tasks /\ Status \notin Calls /\ Blocks \notin Calls
  BY TasksAssumption DEF Tasks
<1> DEFINE Simple == Fetched(t) /\ (pend'[t] = pend[t] \/ pend'[t] = NoUpdate)
                     /\ (pc'[t] = pc[t] \/ pc'[t] \notin {"claim", "refunded", "update", "write"})
<1>s. Simple => TaskMoves(t)
  BY DEF TaskMoves
<1> HIDE DEF Simple
<1>1. ASSUME NEW c \in Calls, CallStep(c)
      PROVE  TaskMoves(t)
  <2>0. c \in Tasks
    BY DEF Tasks
  <2>1. CASE FetchSwap(c)
    <3>1. CASE row.state = "TimedOut" /\ Preemptive
      <4>1. /\ copy' = [copy EXCEPT ![c] = row] /\ pend' = [pend EXCEPT ![c] = To("Created", "lockup")]
            /\ pc' = [pc EXCEPT ![c] = "update"]
        BY <2>1, <3>1 DEF FetchSwap, Goto
      <4>2. Asked(c, To("Created", "lockup"))
        BY DEF Asked, To
      <4> QED
        BY <1>0, <2>0, <3>1, <4>1, <4>2 DEF TaskMoves, Fetched
    <3>2. CASE ~(row.state = "TimedOut" /\ Preemptive)
      BY <1>0, <1>s, <2>0, <2>1, <3>2 DEF FetchSwap, Goto, GiveUp, Leave, Simple, Fetched
    <3> QED
      BY <3>1, <3>2
  <2>2. CASE CreateSwap(c) \/ TrackAndCheckLockup(c) \/ SetLockupTxId(c) \/ BroadcastLockup(c) \/ UnsetLockupTxId(c)
             \/ PaymentEvent(c)
    BY <1>0, <1>s, <2>0, <2>2
    DEF CreateSwap, TrackAndCheckLockup, SetLockupTxId, BroadcastLockup, UnsetLockupTxId, PaymentEvent,
        Goto, GiveUp, Leave, Simple, Fetched
  <2>3. CASE LockupSent(c)
    <3>1. /\ [To("Pending", "wait") EXCEPT !.lockup = c] \in Updates
          /\ Asked(c, [To("Pending", "wait") EXCEPT !.lockup = c])
      BY DEF To, Updates, States, TxIds, Asked
    <3> QED
      BY <2>0, <2>3, <3>1, UpdateMoves DEF LockupSent
  <2>4. CASE PaymentTimeout(c)
    <3>1. To("TimedOut", "done") \in Updates /\ Asked(c, To("TimedOut", "done"))
      BY DEF To, Updates, States, TxIds, Asked
    <3> QED
      BY <2>0, <2>4, <3>1, UpdateMoves DEF PaymentTimeout
  <2> QED
    BY <1>1, <2>1, <2>2, <2>3, <2>4 DEF CallStep
<1>2. ASSUME NEW s \in Syncs \cup {Blocks, Status}, RecoveryStep(s)
      PROVE  TaskMoves(t)
  <2>0. s \in Tasks
    BY DEF Tasks
  <2>1. ASSUME NEW found \in TxIds, NEW preimage \in BOOLEAN, RecoverSwap(s, found, preimage)
        PROVE  TaskMoves(t)
    <3>1. CASE s = t
      BY <1>0, <2>1, <3>1 DEF RecoverSwap, Goto, TaskMoves
    <3>2. CASE s # t
      BY <1>0, <2>1, <3>2 DEF RecoverSwap, Goto, TaskMoves, Fetched
    <3> QED
      BY <3>1, <3>2
  <2>2. CASE ListRecoverable(s) \/ RecoveryFails(s) \/ SaveRecovered(s)
    BY <1>0, <1>s, <2>0, <2>2 DEF ListRecoverable, RecoveryFails, SaveRecovered, AfterRecovery, Goto, Leave, Simple, Fetched
  <2> QED
    BY <1>2, <2>1, <2>2 DEF RecoveryStep
<1>3. ASSUME NEW s \in {Blocks, Status}, RefundStep(s)
      PROVE  TaskMoves(t)
  <2>1. CASE SetRefundAddress(s)
    BY <1>0, <1>t, <2>1 DEF SetRefundAddress, TaskMoves, Fetched
  <2>2. CASE BroadcastRefund(s)
    BY <1>0, <1>t, <2>2 DEF BroadcastRefund, Goto, TaskMoves, Fetched
  <2>3. CASE RefundSent(s)
    <3>1. /\ [To("RefundPending", "idle") EXCEPT !.refund = TRUE] \in Updates
          /\ pc[s] = "refunded" => Asked(s, [To("RefundPending", "idle") EXCEPT !.refund = TRUE])
      BY DEF To, Updates, States, TxIds, Asked
    <3> QED
      BY <1>t, <2>3, <3>1, UpdateMoves DEF RefundSent
  <2>4. CASE RefundFails(s)
    <3>1. To("RefundPending", "idle") \in Updates /\ Asked(s, To("RefundPending", "idle"))
      BY DEF To, Updates, States, TxIds, Asked
    <3>2. CASE update_swap_info(s, To("RefundPending", "idle"))
      BY <1>t, <3>1, <3>2, UpdateMoves
    <3>3. CASE Leave(s, "idle")
      BY <1>0, <1>s, <1>t, <3>3 DEF Goto, Leave, Simple, Fetched
    <3> QED
      BY <2>4, <3>2, <3>3 DEF RefundFails
  <2> QED
    BY <1>3, <2>1, <2>2, <2>3, <2>4 DEF RefundStep
<1>4. CASE CheckRefunds
  BY <1>0, <1>s, <1>t, <1>4 DEF CheckRefunds, Goto, Leave, Simple, Fetched
<1>5. CASE StatusStep
  <2>1. CASE TransactionClaimPending
    BY <1>0, <1>t, <2>1 DEF TransactionClaimPending, Goto, TaskMoves, Fetched
  <2>2. CASE ClaimPreimage
    <3>1. /\ [To("Complete", "idle") EXCEPT !.preimage = TRUE] \in Updates
          /\ pc[Status] = "claim" => Asked(Status, [To("Complete", "idle") EXCEPT !.preimage = TRUE])
      BY DEF To, Updates, States, TxIds, Asked
    <3> QED
      BY <1>t, <2>2, <3>1, UpdateMoves DEF ClaimPreimage
  <2>3. CASE SwapFailed
    <3>1. To("Failed", "idle") \in Updates /\ Asked(Status, To("Failed", "idle"))
      BY DEF To, Updates, States, TxIds, Asked
    <3>2. CASE update_swap_info(Status, To("Failed", "idle"))
      BY <1>t, <3>1, <3>2, UpdateMoves
    <3>3. CASE copy' = [copy EXCEPT ![Status] = row] /\ Goto(Status, "refundCoop") /\ UNCHANGED <<pend, rowVars>>
      BY <1>0, <1>s, <1>t, <3>3 DEF Goto, Simple, Fetched
    <3> QED
      BY <2>3, <3>2, <3>3 DEF SwapFailed
  <2>4. CASE ClaimFails \/ TransactionClaimed
    BY <1>0, <1>s, <1>t, <2>4 DEF ClaimFails, TransactionClaimed, Goto, Leave, Simple, Fetched
  <2> QED
    BY <1>5, <2>1, <2>2, <2>3, <2>4 DEF StatusStep
<1>6. ASSUME NEW s \in Tasks, ValidateUpdate(s) \/ WriteUpdate(s)
      PROVE  TaskMoves(t)
  <2>0. pend[s].then \in {"done", "wait", "lockup", "idle"}
    BY <1>0 DEF Updates
  <2>1. CASE ValidateUpdate(s) /\ s = t
    BY <1>0, <2>1 DEF ValidateUpdate, GiveUp, Leave, Goto, TaskMoves, Fetched
  <2>2. CASE (ValidateUpdate(s) \/ WriteUpdate(s)) /\ s # t
    BY <1>0, <1>s, <2>2 DEF ValidateUpdate, WriteUpdate, Apply, GiveUp, Leave, Goto, Simple, Fetched
  <2>3. CASE WriteUpdate(s) /\ s = t
    BY <1>0, <2>0, <2>3 DEF WriteUpdate, Apply, Leave, Goto, TaskMoves, Fetched
  <2> QED
    BY <1>6, <2>1, <2>2, <2>3
<1>7. CASE Environment \/ UNCHANGED vars
  <2>1. CASE Restart
    <3>1. pc'[t] \in {"idle", "start", "done"} /\ copy'[t] = NoRow /\ pend'[t] = NoUpdate
      BY <2>1 DEF Restart
    <3> QED
      BY <1>s, <3>1 DEF Simple, Fetched
  <2>2. CASE UNCHANGED taskVars
    BY <1>s, <2>2 DEF taskVars, Simple, Fetched
  <2> QED
    BY <1>7, <2>1, <2>2 DEF Environment, Reconnect, GracePeriodEnds, TimeoutHeightReached, WalletScansTip,
       LockupVisible, RefundVisible, RefundConfirmed, BoltzPays, BoltzFails, BoltzClaims, vars
<1> QED
  BY <1>1, <1>2, <1>3, <1>4, <1>5, <1>6, <1>7 DEF Next

\* How the row is written: by a handler, by a recovery that carries its version, or without its state,
\* preimage and refund id (but that a swap that is not Complete may be reopened or timed out).
ByHandler ==
  \E t \in Tasks, u \in Updates :
    /\ row' = Merged(u)
    /\ \/ pc[t] = "write" /\ u = pend[t]
       \/ <<row.state, u.to>> \in Allowed /\ Asked(t, u)

ByRecovery == \E t \in fresh : row' = copy[t]

Aside ==
  /\ row'.state = row.state \/ (row.state # "Complete" /\ row'.state # "Complete")
  /\ row'.preimage => row.preimage
  /\ row'.state = "Complete" /\ row.preimage => row'.preimage
  /\ row'.refund => row.refund

\* A task takes the version of a row that is not Complete, or that has no preimage.
VersionTaken == fresh' \subseteq fresh \/ row.state # "Complete" \/ ~row.preimage

\* The row is changed by one handler or one recovery at a time.
LEMMA RowStep ==
  ASSUME TypeOK, [Next]_vars
  PROVE  /\ ByHandler \/ ByRecovery \/ Aside
         /\ fresh' # {} => row' = row /\ VersionTaken
<1> DEFINE Right == /\ ByHandler \/ ByRecovery \/ Aside
                    /\ fresh' # {} => row' = row /\ VersionTaken
<1>0. row \in Rows /\ copy \in [Tasks -> Rows] /\ pend \in [Tasks -> Updates]
  BY DEF TypeOK
<1>t. Status \in Tasks /\ Blocks \in Tasks
  BY DEF Tasks
<1>s. row' = row /\ VersionTaken => Right
  BY <1>0 DEF Aside, Rows
<1>f. fresh' = fresh => VersionTaken
  BY DEF VersionTaken
<1>r. row' = row /\ fresh' = fresh => Right
  BY <1>s, <1>f
<1>u. Aside /\ fresh' = {} => Right
  OBVIOUS
<1>a. ASSUME NEW t \in Tasks, NEW u \in Updates, UpdateRow(Merged(u)),
             (pc[t] = "write" /\ u = pend[t]) \/ (<<row.state, u.to>> \in Allowed /\ Asked(t, u))
      PROVE  Right
  BY <1>a DEF UpdateRow, ByHandler
<1>b. ASSUME NEW t \in Tasks, NEW u \in Updates, update_swap_info(t, u), Asked(t, u)
      PROVE  Right
  <2>1. CASE UNCHANGED rowVars
    BY <1>r, <2>1 DEF rowVars
  <2>2. CASE <<row.state, u.to>> \in Allowed /\ UpdateRow(Merged(u))
    BY <1>a, <1>b, <2>2
  <2> QED
    BY <1>b, <2>1, <2>2 DEF update_swap_info, Apply
<1> SUFFICES Right
  OBVIOUS
<1> HIDE DEF Right
<1>1. ASSUME NEW c \in Calls, CallStep(c)
      PROVE  Right
  <2>0. c \in Tasks
    BY DEF Tasks
  <2>1. CASE FetchSwap(c)
    <3>1. CASE UNCHANGED rowVars
      BY <1>r, <3>1 DEF rowVars
    <3>2. CASE row.state = "TimedOut" /\ UpdateRow(Merged(To("Created", "lockup")))
      <4>1. To("Created", "lockup") \in Updates /\ Asked(c, To("Created", "lockup")) /\ To("Created", "lockup").to = "Created"
        BY DEF To, Updates, States, TxIds, Asked
      <4>2. <<row.state, To("Created", "lockup").to>> \in Allowed
        BY <3>2, <4>1 DEF Allowed
      <4> QED
        BY <1>a, <2>0, <3>2, <4>1, <4>2
    <3> QED
      BY <2>1, <3>1, <3>2 DEF FetchSwap
  <2>2. CASE CreateSwap(c)
    <3>1. CASE row.state = "None" /\ UpdateRow([NoRow EXCEPT !.state = "Created"])
      <4>1. row'.state = "Created" /\ row'.preimage = FALSE /\ row'.refund = FALSE /\ fresh' = {}
        BY <3>1 DEF UpdateRow, NoRow
      <4> QED
        BY <1>u, <3>1, <4>1 DEF Aside
    <3> QED
      BY <1>r, <2>2, <3>1 DEF CreateSwap, rowVars
  <2>3. CASE SetLockupTxId(c) \/ UnsetLockupTxId(c)
    <3>1. CASE \E l \in TxIds : UpdateRow([row EXCEPT !.lockup = l])
      BY <1>0, <1>u, <3>1 DEF UpdateRow, Aside, Rows
    <3> QED
      BY <1>r, <2>3, <3>1 DEF SetLockupTxId, UnsetLockupTxId, rowVars, TxIds
  <2>4. CASE TrackAndCheckLockup(c) \/ BroadcastLockup(c) \/ PaymentEvent(c)
    BY <1>r, <2>4 DEF TrackAndCheckLockup, BroadcastLockup, PaymentEvent, rowVars
  <2>5. CASE LockupSent(c)
    <3>1. /\ [To("Pending", "wait") EXCEPT !.lockup = c] \in Updates
          /\ Asked(c, [To("Pending", "wait") EXCEPT !.lockup = c])
      BY DEF To, Updates, States, TxIds, Asked
    <3> QED
      BY <1>b, <2>0, <2>5, <3>1 DEF LockupSent
  <2>6. CASE PaymentTimeout(c)
    <3>1. To("TimedOut", "done") \in Updates /\ Asked(c, To("TimedOut", "done"))
      BY DEF To, Updates, States, TxIds, Asked
    <3> QED
      BY <1>b, <2>0, <2>6, <3>1 DEF PaymentTimeout
  <2> QED
    BY <1>1, <2>1, <2>2, <2>3, <2>4, <2>5, <2>6 DEF CallStep
<1>2. ASSUME NEW s \in Syncs \cup {Blocks, Status}, RecoveryStep(s)
      PROVE  Right
  <2>1. CASE ListRecoverable(s)
    BY <1>s, <2>1 DEF ListRecoverable, VersionTaken, list_recoverable
  <2>2. CASE RecoveryFails(s) \/ (\E found \in TxIds, preimage \in BOOLEAN : RecoverSwap(s, found, preimage))
    BY <1>s, <2>2 DEF RecoveryFails, RecoverSwap, VersionTaken, rowVars
  <2>3. CASE SaveRecovered(s)
    <3>1. CASE s \in fresh /\ UpdateRow(copy[s])
      BY <3>1 DEF UpdateRow, ByRecovery, Right
    <3>2. CASE fresh' = fresh \ {s} /\ row' = row
      BY <1>s, <3>2 DEF VersionTaken
    <3> QED
      BY <2>3, <3>1, <3>2 DEF SaveRecovered
  <2> QED
    BY <1>2, <2>1, <2>2, <2>3 DEF RecoveryStep
<1>3. ASSUME NEW s \in {Blocks, Status}, RefundStep(s)
      PROVE  Right
  <2>1. CASE SetRefundAddress(s)
    BY <1>0, <1>u, <2>1 DEF SetRefundAddress, UpdateRow, Aside, Rows
  <2>2. CASE BroadcastRefund(s)
    BY <1>r, <2>2 DEF BroadcastRefund, rowVars
  <2>3. CASE RefundSent(s)
    <3>1. /\ [To("RefundPending", "idle") EXCEPT !.refund = TRUE] \in Updates
          /\ pc[s] = "refunded" => Asked(s, [To("RefundPending", "idle") EXCEPT !.refund = TRUE])
      BY DEF To, Updates, States, TxIds, Asked
    <3> QED
      BY <1>b, <1>t, <2>3, <3>1 DEF RefundSent
  <2>4. CASE RefundFails(s)
    <3>1. To("RefundPending", "idle") \in Updates /\ Asked(s, To("RefundPending", "idle"))
      BY DEF To, Updates, States, TxIds, Asked
    <3> QED
      BY <1>b, <1>r, <1>t, <2>4, <3>1 DEF RefundFails, rowVars
  <2> QED
    BY <1>3, <2>1, <2>2, <2>3, <2>4 DEF RefundStep
<1>4. CASE CheckRefunds
  BY <1>r, <1>4 DEF CheckRefunds, rowVars
<1>5. CASE StatusStep
  <2>1. CASE TransactionClaimPending \/ ClaimFails
    BY <1>r, <2>1 DEF TransactionClaimPending, ClaimFails, rowVars
  <2>2. CASE ClaimPreimage
    <3>1. /\ [To("Complete", "idle") EXCEPT !.preimage = TRUE] \in Updates
          /\ pc[Status] = "claim" => Asked(Status, [To("Complete", "idle") EXCEPT !.preimage = TRUE])
      BY DEF To, Updates, States, TxIds, Asked
    <3> QED
      BY <1>b, <1>t, <2>2, <3>1 DEF ClaimPreimage
  <2>3. CASE TransactionClaimed
    BY <1>s, <2>3 DEF TransactionClaimed, VersionTaken
  <2>4. CASE SwapFailed
    <3>1. To("Failed", "idle") \in Updates /\ Asked(Status, To("Failed", "idle"))
      BY DEF To, Updates, States, TxIds, Asked
    <3> QED
      BY <1>b, <1>r, <1>t, <2>4, <3>1 DEF SwapFailed, rowVars
  <2> QED
    BY <1>5, <2>1, <2>2, <2>3, <2>4 DEF StatusStep
<1>6. ASSUME NEW s \in Tasks, ValidateUpdate(s) \/ WriteUpdate(s)
      PROVE  Right
  <2>1. CASE ValidateUpdate(s)
    BY <1>r, <2>1 DEF ValidateUpdate, rowVars
  <2>2. CASE WriteUpdate(s)
    BY <1>0, <1>a, <2>2 DEF WriteUpdate, Apply
  <2> QED
    BY <1>6, <2>1, <2>2
<1>7. CASE Environment \/ UNCHANGED vars
  <2>1. CASE Restart
    <3>1. CASE row.state = "Created" /\ UpdateRow([row EXCEPT !.state = "TimedOut"])
      BY <1>0, <1>u, <3>1 DEF UpdateRow, Aside, Rows
    <3>2. CASE row' = row /\ fresh' = {}
      BY <1>s, <3>2 DEF VersionTaken
    <3> QED
      BY <2>1, <3>1, <3>2 DEF Restart
  <2>2. CASE row' = row /\ fresh' = fresh
    BY <1>r, <2>2
  <2> QED
    BY <1>7, <2>1, <2>2 DEF Environment, Reconnect, GracePeriodEnds, TimeoutHeightReached, WalletScansTip,
       LockupVisible, RefundVisible, RefundConfirmed, BoltzPays, BoltzFails, BoltzClaims, vars, rowVars
<1> QED
  BY <1>1, <1>2, <1>3, <1>4, <1>5, <1>6, <1>7 DEF Next

LEMMA HonestInvInit == Init => HonestInv
<1> SUFFICES ASSUME Init
             PROVE  HonestInv
  OBVIOUS
<1>1. \A t \in Tasks : pc[t] \notin {"claim", "refunded"} /\ copy[t] = NoRow /\ pend[t] = NoUpdate
  BY DEF Init
<1> QED
  BY <1>1, InitType DEF Init, HonestInv, RowHonest, UpdateHonest, NoRow, NoUpdate, To

\* What the row says has happened.
LEMMA HonestRow ==
  ASSUME HonestInv, [Next]_vars
  PROVE  RowHonest(row)'
<1> SUFFICES (row'.preimage => boltz' = "paid") /\ (row'.state = "Complete" => row'.preimage)
             /\ (row'.refund => spend' \in Refunded)
  BY DEF RowHonest
<1>0. row \in Rows /\ RowHonest(row) /\ fresh \subseteq Tasks
  BY DEF HonestInv, TypeOK
<1>1. CASE ByHandler
  <2>1. PICK t \in Tasks, u \in Updates :
          /\ row' = Merged(u)
          /\ (pc[t] = "write" /\ u = pend[t]) \/ (<<row.state, u.to>> \in Allowed /\ Asked(t, u))
    BY <1>1 DEF ByHandler
  <2>2. UpdateHonest(u)
    BY <2>1 DEF HonestInv, UpdateHonest, Asked
  <2>3. /\ row'.state = u.to
        /\ row'.preimage <=> row.preimage \/ u.preimage
        /\ row'.refund <=> row.refund \/ u.refund
    BY <1>0, <2>1 DEF Merged, Rows
  <2> QED
    BY <1>0, <2>2, <2>3, HonestyLasts
<1>2. CASE ByRecovery
  BY <1>0, <1>2, HonestyLasts DEF ByRecovery, HonestInv
<1>3. CASE Aside
  <2>1. (row.preimage => boltz' = "paid") /\ (row.state = "Complete" => row.preimage) /\ (row.refund => spend' \in Refunded)
    BY <1>0, HonestyLasts
  <2> QED
    BY <1>3, <2>1 DEF Aside
<1> QED
  BY <1>1, <1>2, <1>3, RowStep DEF HonestInv

\* Recovery stores what it has seen, or what was there.
LEMMA RecoveredHonest ==
  ASSUME NEW s \in Rows, RowHonest(s), NEW found, NEW preimage \in BOOLEAN,
         s.preimage => preimage, preimage => s.preimage \/ boltz = "paid"
  PROVE  RowHonest(Recovered(s, found, preimage))
<1> DEFINE d == derive_partial_state(s.state, found, preimage)
           f == FoundRefund
<1>1. CASE should_skip_recovery(s, found)
  BY <1>1 DEF Recovered
<1>2. CASE ~should_skip_recovery(s, found)
  <2>1. Recovered(s, found, preimage) = [s EXCEPT !.lockup = found, !.refund = f, !.preimage = preimage, !.state = d]
    BY <1>2 DEF Recovered
  <2>2. d = "Complete" => preimage
    <3>1. CASE found # NoTx
      BY <3>1 DEF derive_partial_state
    <3>2. CASE found = NoTx
      BY <3>2 DEF derive_partial_state, RowHonest
    <3> QED
      BY <3>1, <3>2
  <2>3. f <=> spend \in {"refundSeen", "refundConfirmed"}
    BY DEF FoundRefund
  <2> HIDE DEF d, f
  <2>4. /\ Recovered(s, found, preimage).state = d
        /\ Recovered(s, found, preimage).preimage <=> preimage
        /\ Recovered(s, found, preimage).refund <=> f
    BY <2>1 DEF Rows
  <2> QED
    BY <2>2, <2>3, <2>4 DEF RowHonest, Refunded
<1> QED
  BY <1>1, <1>2

\* What a copy says has happened.
LEMMA HonestCopies ==
  ASSUME HonestInv, [Next]_vars, NEW t \in Tasks
  PROVE  RowHonest(copy[t])'
<1> SUFFICES (copy'[t].preimage => boltz' = "paid") /\ (copy'[t].state = "Complete" => copy'[t].preimage)
             /\ (copy'[t].refund => spend' \in Refunded)
  BY DEF RowHonest
<1>0. copy \in [Tasks -> Rows] /\ RowHonest(row) /\ RowHonest(copy[t]) /\ RowHonest(row)'
  BY HonestRow DEF HonestInv, TypeOK
<1>1. CASE Fetched(t)
  <2>1. copy'[t] = row' => RowHonest(copy[t])'
    BY <1>0 DEF RowHonest
  <2>2. ~NoRow.preimage /\ NoRow.state # "Complete" /\ ~NoRow.refund
    BY DEF NoRow
  <2> QED
    BY <1>0, <1>1, <2>1, <2>2, HonestyLasts DEF Fetched, RowHonest
<1>2. CASE copy'[t] = [copy[t] EXCEPT !.addr = TRUE]
  <2>1. /\ copy'[t].state = copy[t].state
        /\ copy'[t].preimage <=> copy[t].preimage
        /\ copy'[t].refund <=> copy[t].refund
    BY <1>0, <1>2 DEF Rows
  <2> QED
    BY <1>0, <2>1, HonestyLasts
<1>3. ASSUME NEW found \in TxIds, NEW preimage \in BOOLEAN, RecoverSwap(t, found, preimage)
      PROVE  RowHonest(copy[t])'
  <2>1. copy'[t] = Recovered(copy[t], found, preimage) /\ UNCHANGED <<boltz, spend>>
    BY <1>0, <1>3 DEF RecoverSwap, chainVars
  <2>2. RowHonest(Recovered(copy[t], found, preimage))
    BY <1>0, <1>3, RecoveredHonest DEF RecoverSwap, PreimageAvailable
  <2> QED
    BY <2>1, <2>2 DEF RowHonest
<1> QED
  BY <1>1, <1>2, <1>3, TaskStep DEF TaskMoves, RowHonest, HonestInv

LEMMA HonestInvStep ==
  ASSUME HonestInv, [Next]_vars
  PROVE  HonestInv'
<1>0. TypeOK /\ TypeOK'
  BY NextType DEF HonestInv
<1>1. ASSUME NEW t \in Tasks
      PROVE  /\ UpdateHonest(pend[t])'
             /\ pc'[t] = "claim" => boltz' = "paid"
             /\ pc'[t] = "refunded" => spend' \in Refunded
  <2>0. UpdateHonest(pend[t]) /\ (pc[t] = "claim" => boltz = "paid") /\ (pc[t] = "refunded" => spend \in Refunded)
        /\ TaskMoves(t)
    BY <1>0, TaskStep DEF HonestInv
  <2>1. (pc'[t] = "claim" => boltz' = "paid") /\ (pc'[t] = "refunded" => spend' \in Refunded)
    BY <2>0, ChainSteps DEF TaskMoves, Refunded
  <2>2. Asked(t, pend'[t]) => UpdateHonest(pend[t])'
    BY <2>0, ChainSteps DEF Asked, UpdateHonest
  <2>3. pend'[t] = NoUpdate => UpdateHonest(pend[t])'
    BY DEF NoUpdate, To, UpdateHonest
  <2>4. pend'[t] = pend[t] => UpdateHonest(pend[t])'
    BY <2>0, HonestyLasts DEF UpdateHonest
  <2> QED
    BY <2>0, <2>1, <2>2, <2>3, <2>4 DEF TaskMoves
<1>2. fresh' # {} => row'.state # "Complete"
  BY <1>0, RowStep DEF VersionTaken, HonestInv, RowHonest
<1> QED
  BY <1>0, <1>1, <1>2, HonestRow, HonestCopies DEF HonestInv

LEMMA HonestInvHolds == Spec => []HonestInv
  BY HonestInvInit, HonestInvStep, PTL DEF Spec

\* For any calls, syncs and restarts, with preemption and with lost answers: a payment that is
\* Complete was paid by Boltz and has its preimage. Whoever is about to store Complete carries the
\* preimage, be it a status handler, another thread in the middle of update_swap_info, or a recovery.
THEOREM CompletePaymentHasProof == Spec => []CompleteHasProof
<1>1. HonestInv => CompleteHasProof
  BY DEF HonestInv, RowHonest, CompleteHasProof
<1> QED
  BY <1>1, HonestInvHolds, PTL

\* Nor is a refund id ever stored for a refund that was not broadcast.
THEOREM RefundIdIsNeverInvented == Spec => []RefundIdIsReal
<1>1. HonestInv => RefundIdIsReal
  BY DEF HonestInv, RowHonest, RefundIdIsReal, Refunded
<1> QED
  BY <1>1, HonestInvHolds, PTL

-----------------------------------------------------------------------------
(* What the payment promises. *)

\* Within update_swap_info nothing else runs
OneStepUpdates == ~Preemptive /\ \A t \in Tasks : pc[t] \notin {"update", "write"}

\* Unless updates are preempted, one is asked for and applied in one step.
LEMMA OneStepUpdatesStep ==
  ASSUME OneStepUpdates, TypeOK, [Next]_vars
  PROVE  OneStepUpdates'
  BY TaskStep DEF OneStepUpdates, TaskMoves

\* Complete is final.
LEMMA CompleteIsFinal ==
  ASSUME OneStepUpdates, HonestInv, [Next]_vars, row.state = "Complete"
  PROVE  row'.state = "Complete"
<1>1. ~ByRecovery
  BY DEF ByRecovery, HonestInv
<1>2. ~ByHandler
  BY DEF ByHandler, OneStepUpdates, Allowed
<1> QED
  BY <1>1, <1>2, RowStep DEF Aside, HonestInv

\* Without preemption, and for any calls, syncs and restarts, lost answers or not, this payment
\* implements SwapPromise: what Boltz buys with its Lightning payment is the preimage, the payment is
\* Complete after that, and Complete is final.
THEOREM KeepsItsPromise == ~Preemptive /\ Spec => KeepsPromise
<1>1. Init => Promise!Init
  BY DEF Init, Promise!Init, Shown, NoRow
<1>2. ASSUME OneStepUpdates, HonestInv, [Next]_vars
      PROVE  [Promise!Next]_(Promise!vars)
  <2>1. Shown \in {"open", "complete", "failed"} /\ Shown' \in {"open", "complete", "failed"}
    BY DEF Shown
  <2>2. Shown = "complete" => Shown' = "complete"
    BY <1>2, CompleteIsFinal DEF Shown
  <2>3. boltz' # boltz => Shown' = Shown
    BY <1>2, ChainSteps DEF rowVars, Shown
  <2>4. Shown' = "complete" => boltz' = "paid"
    BY <1>2, HonestRow DEF Shown, RowHonest
  <2>5. boltz = "paid" => boltz' = "paid"
    BY <1>2, ChainSteps
  <2> QED
    BY <2>1, <2>2, <2>3, <2>4, <2>5 DEF Promise!Next, Promise!vars, Promise!Exchange, Promise!Show
<1>3. ~Preemptive /\ Init => OneStepUpdates
  BY DEF Init, OneStepUpdates
<1>4. HonestInv => TypeOK
  BY DEF HonestInv
<1> QED
  BY <1>1, <1>2, <1>3, <1>4, OneStepUpdatesStep, HonestInvInit, HonestInvStep, PTL DEF Spec, KeepsPromise, Promise!Spec
=============================================================================
