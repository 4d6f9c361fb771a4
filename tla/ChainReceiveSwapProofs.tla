----------------------- MODULE ChainReceiveSwapProofs -----------------------
(***************************************************************************)
(* What an incoming chain swap never does, for any calls, claim txs,       *)
(* refund txs and restarts, and whatever the payer and Boltz do.           *)
(***************************************************************************)
EXTENDS ChainReceiveSwap, FiniteSetTheorems, TLAPS

\* The server lockup is confirmed, or pays what is due and cannot be replaced
Settled ==
  server.at = "mined"
  \/ (server.at = "seen" /\ ~server.rbf /\ server.value >= IF row.zero THEN row.accepted ELSE High)

\* Boltz has a quote to accept, and what was accepted was a quote
QuoteIsThere ==
  /\ boltz = "lockupFailed" => quote \in {Low, High}
  /\ boltz = "accepted" => agreed \in {Low, High}

\* A claim that recovery saw is there for good
ClaimSeenIsThere == \A t \in Tasks : view[t].claim => spend.by \in ClaimTxs /\ spend.at \in Visible

\* What the types rest on
TypeInv == TypeOK /\ QuoteIsThere /\ ClaimSeenIsThere

-----------------------------------------------------------------------------
(* Types. *)

RowTyped  == row' \in Rows /\ fresh' \subseteq Tasks /\ grace' \in BOOLEAN
TaskTyped == pc' \in [Tasks -> PCs] /\ copy' \in [Tasks -> Rows]

LEMMA NoRowType == NoRow \in Rows /\ NoView \in Views
  BY DEF NoRow, Rows, States, RefundIds, ClaimIds, NoView, Views

LEMMA TaskNames == Status \in Tasks /\ Blocks \in Tasks /\ Calls \subseteq Tasks
  BY DEF Tasks

LEMMA LeaveType ==
  ASSUME TypeOK, NEW t \in Tasks, Leave(t)
  PROVE  TaskTyped
  BY NoRowType DEF TypeOK, Leave, Goto, PCs, TaskTyped

LEMMA GotoType ==
  ASSUME TypeOK, NEW t \in Tasks, NEW label \in PCs, Goto(t, label), UNCHANGED copy
  PROVE  TaskTyped
  BY DEF TypeOK, Goto, TaskTyped

LEMMA KeepType ==
  ASSUME TypeOK, NEW t \in Tasks, NEW r \in Rows, NEW label \in PCs, Keep(t, r, label)
  PROVE  TaskTyped
  BY DEF TypeOK, Keep, Goto, TaskTyped

LEMMA SameTaskType == TypeOK /\ UNCHANGED <<pc, copy>> => TaskTyped
  BY DEF TypeOK, TaskTyped

LEMMA UpdateRowType ==
  ASSUME NEW r \in Rows, UpdateRow(r)
  PROVE  RowTyped
  BY DEF UpdateRow, RowTyped

LEMMA SameRowType == TypeOK /\ UNCHANGED rowVars => RowTyped
  BY DEF TypeOK, rowVars, RowTyped

LEMMA UpdateSwapInfoType ==
  ASSUME TypeOK, NEW to \in States, NEW lockup \in BOOLEAN, NEW serverLockup \in BOOLEAN,
         NEW refundId \in RefundIds, update_swap_info(to, lockup, serverLockup, refundId)
  PROVE  RowTyped
<1>1. [row EXCEPT !.state = to, !.lockup = @ \/ lockup, !.server = @ \/ serverLockup,
                  !.refund = IF refundId = NoTx THEN @ ELSE refundId] \in Rows
  BY DEF TypeOK, Rows
<1> QED
  BY <1>1, UpdateRowType, SameRowType DEF update_swap_info

LEMMA AcceptedType ==
  ASSUME TypeOK, NEW amount \in {0, Low, High}
  PROVE  [row EXCEPT !.accepted = amount] \in Rows
  BY DEF TypeOK, Rows

\* The states and labels that the handlers name
LEMMA Names ==
  /\ {"Created", "Pending", "WaitingFeeAcceptance", "Refundable", "RefundPending", "Complete", "Failed"} \subseteq States
  /\ {"idle", "amount", "userMempool", "userConfirmed", "serverMempool", "serverConfirmed", "quote", "accept", "failed",
      "refund", "refunded", "verify", "claim", "build", "broadcast", "recover", "save", "liquid"} \subseteq PCs
  /\ NoTx \in RefundIds /\ NoTx \in ClaimIds
  BY DEF States, PCs, RefundIds, ClaimIds

\* What a handler changes of the row and of its task, when the chains and Boltz stay
LEMMA HandlerType ==
  ASSUME TypeOK, RowTyped, TaskTyped, claiming' \in BOOLEAN, view' \in [Tasks -> Views],
         UNCHANGED <<chainVars, restarts>>
  PROVE  TypeOK'
  BY DEF TypeOK, RowTyped, TaskTyped, chainVars, tipVars, bitcoinTxs, liquidTxs, boltzVars, quoteVars

\* ... and when Boltz may learn the preimage or be told of an accepted quote
LEMMA BoltzHandlerType ==
  ASSUME TypeOK, RowTyped, TaskTyped, claiming' \in BOOLEAN, UNCHANGED view,
         UNCHANGED <<tipVars, bitcoinTxs, liquidTxs, restarts>>,
         revealed' \in BOOLEAN, boltz' \in {boltz, "accepted"}, quote' = quote, agreed' \in {agreed, quote}
  PROVE  TypeOK'
  BY DEF TypeOK, RowTyped, TaskTyped, tipVars, bitcoinTxs, liquidTxs

LEMMA CreateType ==
  ASSUME TypeOK, CreateReceiveChainSwap
  PROVE  TypeOK'
<1>1. PICK zero \in Zero : \E zeroConf \in BOOLEAN :
        UpdateRow([NoRow EXCEPT !.state = "Created", !.zero = zero, !.zeroConf = zeroConf])
  BY DEF CreateReceiveChainSwap
<1>2. \A zeroConf \in BOOLEAN : [NoRow EXCEPT !.state = "Created", !.zero = zero, !.zeroConf = zeroConf] \in Rows
  BY BoundsAssumption DEF NoRow, Rows, States, RefundIds, ClaimIds
<1>3. RowTyped
  BY <1>1, <1>2, UpdateRowType
<1> QED
  BY <1>3, SameTaskType, HandlerType DEF CreateReceiveChainSwap, TypeOK, taskVars

LEMMA AnnouncementType ==
  ASSUME TypeOK, UserLockupAnnounced \/ (\E c \in BOOLEAN : ServerLockupAnnounced(c))
                 \/ LockupFailedAmountless \/ SwapFailed
  PROVE  TypeOK'
<1>0. claiming \in BOOLEAN /\ view \in [Tasks -> Views] /\ Status \in Tasks
  BY TaskNames DEF TypeOK
<1>1. CASE UserLockupAnnounced
  <2>1. UNCHANGED rowVars \/ \E zeroConf \in BOOLEAN : UpdateRow([row EXCEPT !.zeroConf = zeroConf])
    BY <1>1 DEF UserLockupAnnounced
  <2>2. \A zeroConf \in BOOLEAN : [row EXCEPT !.zeroConf = zeroConf] \in Rows
    BY DEF TypeOK, Rows
  <2>3. RowTyped
    BY <2>1, <2>2, UpdateRowType, SameRowType
  <2>4. TaskTyped
    BY <1>0, <1>1, Names, GotoType, SameTaskType DEF UserLockupAnnounced
  <2> QED
    BY <1>0, <1>1, <2>3, <2>4, HandlerType DEF UserLockupAnnounced
<1>2. ASSUME NEW c \in BOOLEAN, ServerLockupAnnounced(c) PROVE TypeOK'
  <2>1. [NoRow EXCEPT !.zero = row.zero, !.lockup = row.lockup, !.zeroConf = row.zeroConf,
                      !.accepted = row.accepted] \in Rows
    BY NoRowType DEF TypeOK, Rows
  <2>2. TaskTyped
    BY <1>0, <1>2, <2>1, Names, KeepType DEF ServerLockupAnnounced
  <2> QED
    BY <1>0, <1>2, <2>2, SameRowType, HandlerType DEF ServerLockupAnnounced
<1>3. [NoRow EXCEPT !.lockup = row.lockup, !.refund = row.refund] \in Rows
  BY NoRowType DEF TypeOK, Rows
<1>4. CASE LockupFailedAmountless
  <2>1. RowTyped
    BY <1>4, AcceptedType, UpdateRowType, SameRowType DEF LockupFailedAmountless
  <2>2. TaskTyped
    BY <1>0, <1>3, <1>4, Names, KeepType DEF LockupFailedAmountless
  <2> QED
    BY <1>0, <1>4, <2>1, <2>2, HandlerType DEF LockupFailedAmountless
<1>5. CASE SwapFailed
  <2>1. TaskTyped
    BY <1>0, <1>3, <1>5, Names, KeepType DEF SwapFailed
  <2> QED
    BY <1>0, <1>5, <2>1, SameRowType, HandlerType DEF SwapFailed
<1> QED
  BY <1>1, <1>2, <1>4, <1>5

LEMMA VerifyStepType ==
  ASSUME TypeOK, StorePayerAmount \/ VerifyUserLockup \/ VerifyMempoolLockup \/ VerifyConfirmedLockup
  PROVE  TypeOK'
<1>0. claiming \in BOOLEAN /\ view \in [Tasks -> Views] /\ Status \in Tasks
  BY TaskNames DEF TypeOK
<1>1. CASE VerifyUserLockup
  <2>1. RowTyped
    BY <1>1, Names, UpdateSwapInfoType, SameRowType DEF VerifyUserLockup
  <2>2. TaskTyped
    BY <1>0, <1>1, Names, GotoType, LeaveType DEF VerifyUserLockup
  <2> QED
    BY <1>0, <1>1, <2>1, <2>2, HandlerType DEF VerifyUserLockup
<1>2. CASE VerifyMempoolLockup
  <2>1. RowTyped
    BY <1>2, Names, UpdateSwapInfoType DEF VerifyMempoolLockup
  <2>2. TaskTyped
    BY <1>0, <1>2, Names, NoRowType, KeepType, LeaveType DEF VerifyMempoolLockup
  <2> QED
    BY <1>0, <1>2, <2>1, <2>2, HandlerType DEF VerifyMempoolLockup
<1>3. CASE VerifyConfirmedLockup
  <2>1. RowTyped
    BY <1>3, Names, UpdateSwapInfoType DEF VerifyConfirmedLockup
  <2>2. TaskTyped
    BY <1>0, <1>3, Names, NoRowType, KeepType, LeaveType DEF VerifyConfirmedLockup
  <2> QED
    BY <1>0, <1>3, <2>1, <2>2, HandlerType DEF VerifyConfirmedLockup
<1>4. CASE StorePayerAmount
  <2>1. row \in Rows /\ [row EXCEPT !.state = "Pending", !.lockup = TRUE] \in Rows
    BY Names DEF TypeOK, Rows
  <2>2. RowTyped
    BY <1>4, <2>1, UpdateRowType DEF StorePayerAmount
  <2> QED
    BY <1>0, <1>4, <2>2, LeaveType, HandlerType DEF StorePayerAmount
<1> QED
  BY <1>1, <1>2, <1>3, <1>4

LEMMA MarkFailedType ==
  ASSUME TypeOK, MarkFailed
  PROVE  RowTyped
<1>1. CASE UNCHANGED rowVars
  BY <1>1, SameRowType
<1>2. CASE update_swap_info("Failed", FALSE, FALSE, NoTx)
  BY <1>2, Names, UpdateSwapInfoType
<1>3. CASE UpdateRow([row EXCEPT !.state = "Refundable", !.lockup = @ \/ ~copy[Status].lockup])
  <2>1. [row EXCEPT !.state = "Refundable", !.lockup = @ \/ ~copy[Status].lockup] \in Rows
    BY Names DEF TypeOK, Rows
  <2> QED
    BY <1>3, <2>1, UpdateRowType
<1> QED
  BY <1>1, <1>2, <1>3 DEF MarkFailed

LEMMA FailureStepType ==
  ASSUME TypeOK, ValidateAmountlessSwap \/ ValidateFails \/ MarkFailed \/ MarkFails
  PROVE  TypeOK'
<1>0. claiming \in BOOLEAN /\ view \in [Tasks -> Views] /\ Status \in Tasks /\ quote \in {0, Low, High}
  BY TaskNames DEF TypeOK
<1>1. CASE ValidateAmountlessSwap
  <2>1. [copy[Status] EXCEPT !.accepted = quote] \in Rows
    BY <1>0 DEF TypeOK, Rows
  <2>2. RowTyped
    BY <1>0, <1>1, Names, AcceptedType, UpdateRowType, UpdateSwapInfoType DEF ValidateAmountlessSwap
  <2>3. TaskTyped
    BY <1>0, <1>1, <2>1, Names, KeepType, LeaveType, GotoType DEF ValidateAmountlessSwap
  <2> QED
    BY <1>0, <1>1, <2>2, <2>3, HandlerType DEF ValidateAmountlessSwap
<1>2. CASE ValidateFails
  <2>1. TaskTyped
    BY <1>0, <1>2, Names, GotoType DEF ValidateFails
  <2> QED
    BY <1>0, <1>2, <2>1, SameRowType, HandlerType DEF ValidateFails
<1>3. CASE MarkFailed
  BY <1>0, <1>3, MarkFailedType, LeaveType, HandlerType DEF MarkFailed
<1>4. CASE MarkFails
  BY <1>0, <1>4, LeaveType, SameRowType, HandlerType DEF MarkFails
<1> QED
  BY <1>1, <1>2, <1>3, <1>4

\* Accepting a quote: by the SDK, by the application, or not at all
LEMMA AcceptStepType ==
  ASSUME TypeOK, AutoAccepted \/ (\E t \in Calls : ProposedFeesAccepted(t))
                 \/ (\E t \in Calls \cup {Status} : AcceptFails(t))
  PROVE  TypeOK'
<1>0. claiming \in BOOLEAN /\ Status \in Tasks /\ row \in Rows /\ revealed \in BOOLEAN
  BY TaskNames DEF TypeOK
<1>1. \A t \in Tasks : BoltzAccepts(t) => revealed' \in BOOLEAN /\ boltz' = "accepted" /\ quote' = quote /\ agreed' = quote
  BY <1>0 DEF BoltzAccepts
<1>2. CASE AutoAccepted
  <2>1. RowTyped /\ TaskTyped
    BY <1>0, <1>2, UpdateRowType, LeaveType DEF AutoAccepted
  <2>2. UNCHANGED <<claiming, view, tipVars, bitcoinTxs, liquidTxs, restarts>>
    BY <1>2 DEF AutoAccepted
  <2> QED
    BY <1>0, <1>1, <1>2, <2>1, <2>2, BoltzHandlerType DEF AutoAccepted
<1>3. ASSUME NEW t \in Calls, ProposedFeesAccepted(t) PROVE TypeOK'
  <2>0. t \in Tasks
    BY TaskNames
  <2>1. RowTyped /\ TaskTyped
    BY <1>3, <2>0, Names, UpdateSwapInfoType, LeaveType DEF ProposedFeesAccepted
  <2>2. UNCHANGED <<claiming, view, tipVars, bitcoinTxs, liquidTxs, restarts>>
    BY <1>3 DEF ProposedFeesAccepted
  <2> QED
    BY <1>0, <1>1, <1>3, <2>0, <2>1, <2>2, BoltzHandlerType DEF ProposedFeesAccepted
<1>4. ASSUME NEW t \in Calls \cup {Status}, AcceptFails(t) PROVE TypeOK'
  <2>0. t \in Tasks
    BY TaskNames
  <2>1. RowTyped
    BY <1>4, AcceptedType, UpdateRowType DEF AcceptFails, EraseAccepted
  <2>2. [copy[t] EXCEPT !.accepted = 0] \in Rows
    BY <2>0 DEF TypeOK, Rows
  <2>3. TaskTyped
    BY <1>4, <2>0, <2>2, Names, LeaveType DEF AcceptFails, Goto, TypeOK, TaskTyped
  <2>4. UNCHANGED <<claiming, view, tipVars, bitcoinTxs, liquidTxs, restarts>>
    BY <1>4 DEF AcceptFails
  <2>5. revealed' \in BOOLEAN /\ boltz' \in {boltz, "accepted"} /\ quote' = quote /\ agreed' \in {agreed, quote}
    BY <1>0, <1>1, <1>4, <2>0 DEF AcceptFails, boltzVars, quoteVars
  <2> QED
    BY <1>0, <2>1, <2>3, <2>4, <2>5, BoltzHandlerType
<1> QED
  BY <1>2, <1>3, <1>4

LEMMA ScanType ==
  ASSUME TypeOK, NEW t \in Tasks, Scan(t), UNCHANGED <<row, grace, claiming, chainVars, restarts>>
  PROVE  TypeOK'
<1>1. [expired |-> IsExpired, recent |-> grace,
       claim |-> spend.by \in ClaimTxs /\ spend.at \in Visible] \in Views
  BY DEF TypeOK, IsExpired, Views
<1>2. view' \in [Tasks -> Views]
  BY <1>1 DEF Scan, TypeOK
<1>3. TaskTyped
  BY Names, KeepType DEF Scan, TypeOK
<1>4. RowTyped
  BY DEF Scan, TypeOK, RowTyped
<1> QED
  BY <1>2, <1>3, <1>4, HandlerType DEF TypeOK

LEMMA CallStepType ==
  ASSUME TypeOK, NEW t \in Calls,
         AcceptProposedFees(t) \/ ProposalFails(t) \/ StoreProposedFees(t) \/ Refund(t) \/ BroadcastRefund(t)
         \/ RefundSent(t) \/ RefundFails(t) \/ RescanOnchainSwaps(t)
  PROVE  TypeOK'
<1>0. claiming \in BOOLEAN /\ view \in [Tasks -> Views] /\ t \in Tasks /\ quote \in {0, Low, High}
  BY TaskNames DEF TypeOK
<1>1. CASE StoreProposedFees(t)
  <2>1. [NoRow EXCEPT !.accepted = quote] \in Rows
    BY <1>0, NoRowType DEF Rows
  <2>2. RowTyped
    BY <1>0, <1>1, AcceptedType, UpdateRowType DEF StoreProposedFees
  <2>3. TaskTyped
    BY <1>0, <1>1, <2>1, Names, KeepType DEF StoreProposedFees
  <2> QED
    BY <1>0, <1>1, <2>2, <2>3, HandlerType DEF StoreProposedFees
<1>2. CASE Refund(t)
  <2>1. TaskTyped
    BY <1>0, <1>2, Names, GotoType DEF Refund
  <2> QED
    BY <1>0, <1>2, <2>1, SameRowType, HandlerType DEF Refund
<1>3. CASE BroadcastRefund(t)
  <2> DEFINE utxos == Unspent \cup (IF deposit.at = "seen" THEN {"deposit"} ELSE {})
  <2>1. PICK f \in RefundTxs :
          /\ refunds' = [g \in RefundTxs |->
               IF g = f THEN [of |-> utxos, at |-> "sent"]
               ELSE IF refunds[g].at \in {"sent", "seen"} THEN [refunds[g] EXCEPT !.at = "replaced"]
               ELSE refunds[g]]
          /\ Keep(t, [NoRow EXCEPT !.refund = f], "refunded")
    BY <1>3 DEF BroadcastRefund
  <2>2. utxos \in SUBSET {"deposit", "more"}
    BY DEF Unspent
  <2>3. refunds' \in [RefundTxs -> [of: SUBSET {"deposit", "more"}, at: {"none", "sent", "seen", "mined", "replaced"}]]
    <3> HIDE DEF utxos
    <3> QED
      BY <2>1, <2>2 DEF TypeOK
  <2>4. [NoRow EXCEPT !.refund = f] \in Rows
    BY NoRowType DEF Rows, RefundIds
  <2>5. TaskTyped
    BY <1>0, <2>1, <2>4, Names, KeepType
  <2> QED
    BY <1>3, <2>3, <2>5
    DEF BroadcastRefund, TypeOK, TaskTyped, rowVars, tipVars, liquidTxs, boltzVars, quoteVars
<1>4. CASE RefundSent(t)
  <2>1. copy[t].refund \in RefundIds
    BY <1>0 DEF TypeOK, Rows
  <2>2. RowTyped
    BY <1>4, <2>1, Names, UpdateSwapInfoType DEF RefundSent
  <2> QED
    BY <1>0, <1>4, <2>2, LeaveType, HandlerType DEF RefundSent
<1>5. CASE RefundFails(t)
  BY <1>0, <1>5, LeaveType, SameRowType, HandlerType DEF RefundFails
<1>6. CASE RescanOnchainSwaps(t)
  BY <1>0, <1>6, ScanType DEF RescanOnchainSwaps
<1>7. CASE AcceptProposedFees(t)
  <2>1. TaskTyped
    BY <1>0, <1>7, Names, GotoType DEF AcceptProposedFees
  <2> QED
    BY <1>0, <1>7, <2>1, SameRowType, HandlerType DEF AcceptProposedFees
<1>8. CASE ProposalFails(t)
  BY <1>0, <1>8, LeaveType, SameRowType, HandlerType DEF ProposalFails
<1> QED
  BY <1>1, <1>2, <1>3, <1>4, <1>5, <1>6, <1>7, <1>8

LEMMA BlockStepType ==
  ASSUME TypeOK, BlockStep
  PROVE  TypeOK'
<1>0. claiming \in BOOLEAN /\ view \in [Tasks -> Views] /\ Blocks \in Tasks
  BY TaskNames DEF TypeOK
<1>1. CASE ListMonitored
  BY <1>0, <1>1, ScanType DEF ListMonitored
<1>2. CASE NothingMonitored \/ ClaimIncoming \/ NoNewBlock \/ ClaimConfirmedServerLockup
  <2>1. TaskTyped
    BY <1>0, <1>2, Names, GotoType, LeaveType
    DEF NothingMonitored, ClaimIncoming, NoNewBlock, ClaimConfirmedServerLockup
  <2>2. UNCHANGED <<rowVars, claiming, view, chainVars, restarts>>
    BY <1>2 DEF NothingMonitored, ClaimIncoming, NoNewBlock, ClaimConfirmedServerLockup
  <2> QED
    BY <1>0, <2>1, <2>2, SameRowType, HandlerType
<1> QED
  BY <1>1, <1>2 DEF BlockStep

LEMMA ClaimStepType ==
  ASSUME TypeOK, NEW t \in {Blocks, Status}, ClaimStep(t)
  PROVE  TypeOK'
<1>0. t \in Tasks /\ claiming \in BOOLEAN /\ view \in [Tasks -> Views] /\ revealed \in BOOLEAN
  BY TaskNames DEF TypeOK
<1>1. CASE VerifyFails(t)
  BY <1>0, <1>1, LeaveType, SameRowType, HandlerType DEF VerifyFails
<1>2. CASE BeginClaim(t)
  <2>1. TaskTyped /\ claiming' \in BOOLEAN
    BY <1>0, <1>2, Names, LeaveType, GotoType DEF BeginClaim
  <2> QED
    BY <1>0, <1>2, <2>1, SameRowType, HandlerType DEF BeginClaim
<1>3. EndClaim(t) => TaskTyped /\ claiming' \in BOOLEAN
  BY <1>0, LeaveType DEF EndClaim
<1>4. ASSUME NEW k \in ClaimTxs, SetClaimTxId(t, k)
      PROVE  TypeOK'
  <2>1. [NoRow EXCEPT !.claim = k] \in Rows /\ [row EXCEPT !.claim = k] \in Rows
    BY NoRowType DEF TypeOK, Rows, ClaimIds
  <2>2. RowTyped
    BY <1>4, <2>1, UpdateRowType, SameRowType DEF SetClaimTxId
  <2>3. TaskTyped /\ claiming' \in BOOLEAN
    BY <1>0, <1>3, <1>4, <2>1, Names, KeepType DEF SetClaimTxId
  <2>4. UNCHANGED <<view, tipVars, bitcoinTxs, liquidTxs, boltz, quote, agreed, restarts>> /\ revealed' \in BOOLEAN
    BY <1>4 DEF SetClaimTxId, quoteVars
  <2> QED
    BY <2>2, <2>3, <2>4, BoltzHandlerType
<1>5. CASE BuildFails(t)
  <2>1. RowTyped /\ TaskTyped /\ claiming' \in BOOLEAN
    BY <1>3, <1>5, SameRowType DEF BuildFails
  <2>2. UNCHANGED <<view, tipVars, bitcoinTxs, liquidTxs, boltz, quote, agreed, restarts>> /\ revealed' \in BOOLEAN
    BY <1>0, <1>5 DEF BuildFails, quoteVars
  <2> QED
    BY <2>1, <2>2, BoltzHandlerType
<1>6. Sent(t) => spend' \in [by: ClaimTxs \cup {ServerRefund, NoTx}, at: {"none", "sent", "seen", "mined"}]
  <2>1. copy[t].claim \in ClaimTxs \cup {ServerRefund, NoTx}
    BY <1>0 DEF TypeOK, Rows, ClaimIds
  <2> QED
    BY <2>1 DEF Sent
<1>7. CASE BroadcastClaim(t)
  <2>1. RowTyped /\ TaskTyped /\ claiming' \in BOOLEAN
    BY <1>3, <1>7, SameRowType DEF BroadcastClaim
  <2> QED
    BY <1>6, <1>7, <2>1 DEF BroadcastClaim, TypeOK, RowTyped, TaskTyped, tipVars, bitcoinTxs, boltzVars, quoteVars
<1>8. CASE UnsetClaimTxId(t)
  <2>1. [row EXCEPT !.claim = NoTx] \in Rows
    BY Names DEF TypeOK, Rows
  <2>2. RowTyped
    BY <1>8, <2>1, UpdateRowType, SameRowType DEF UnsetClaimTxId
  <2>3. TaskTyped /\ claiming' \in BOOLEAN
    BY <1>3, <1>8 DEF UnsetClaimTxId
  <2> QED
    BY <1>6, <1>8, <2>2, <2>3
    DEF UnsetClaimTxId, TypeOK, RowTyped, TaskTyped, tipVars, bitcoinTxs, boltzVars, quoteVars
<1> QED
  BY <1>1, <1>2, <1>4, <1>5, <1>7, <1>8 DEF ClaimStep

LEMMA OutgoingIds == Outgoing \subseteq RefundTxs \cup {ServerClaim}
  BY DEF Outgoing

\* Recovery finds ids that the columns can hold.
LEMMA RecoveredType ==
  ASSUME TypeOK, NEW s \in Rows, NEW v \in Views, v.claim => spend.by \in ClaimTxs, NEW r \in Recovered(s, v)
  PROVE  r \in Rows
<1>1. FoundClaim(v) \in ClaimIds
  BY DEF FoundClaim, ClaimIds
<1>2. FoundRefunds(FoundClaim(v)) \subseteq RefundIds
  BY OutgoingIds DEF FoundRefunds, RefundIds
<1>3. PICK refundId \in FoundRefunds(FoundClaim(v)) :
        r = IF should_skip_recovery(s, v.recent, FoundClaim(v), refundId) THEN s
            ELSE [s EXCEPT !.state = derive_partial_state(s, FoundClaim(v), refundId, v.expired),
                           !.lockup = DepositSeen, !.server = FoundServer(v), !.claim = FoundClaim(v),
                           !.refund = refundId]
  BY DEF Recovered
<1>4. derive_partial_state(s, FoundClaim(v), refundId, v.expired) \in States
  BY DEF derive_partial_state, States, Rows
<1>5. DepositSeen \in BOOLEAN /\ FoundServer(v) \in BOOLEAN
  BY DEF DepositSeen, FoundServer, Views
<1> QED
  BY <1>1, <1>2, <1>3, <1>4, <1>5 DEF Rows

LEMMA RecoveryStepType ==
  ASSUME TypeOK, ClaimSeenIsThere, NEW t \in Tasks, RecoveryStep(t)
  PROVE  TypeOK'
<1>0. /\ claiming \in BOOLEAN
      /\ AfterRecovery(t) => TaskTyped /\ view' \in [Tasks -> Views]
  BY NoRowType DEF TypeOK, AfterRecovery, Goto, PCs, TaskTyped
<1>1. CASE RecoverSwap(t)
  <2>1. copy[t] \in Rows /\ view[t] \in Views /\ (view[t].claim => spend.by \in ClaimTxs)
    BY DEF TypeOK, ClaimSeenIsThere
  <2>2. PICK r \in Recovered(copy[t], view[t]) : copy' = [copy EXCEPT ![t] = r]
    BY <1>1 DEF RecoverSwap
  <2>3. r \in Rows
    BY <2>1, RecoveredType
  <2>4. TaskTyped
    BY <1>1, <2>2, <2>3, Names DEF RecoverSwap, TypeOK, Goto, TaskTyped
  <2>5. view' \in [Tasks -> Views]
    BY <1>1, NoRowType DEF RecoverSwap, TypeOK
  <2> QED
    BY <1>0, <1>1, <2>4, <2>5, SameRowType, HandlerType DEF RecoverSwap
<1>2. CASE RecoveryFails(t)
  <2>1. RowTyped
    BY <1>2 DEF RecoveryFails, TypeOK, RowTyped
  <2> QED
    BY <1>0, <1>2, <2>1, HandlerType DEF RecoveryFails
<1>3. CASE SaveRecovered(t)
  <2>1. CASE copy[t] # row /\ CopyIsFresh(t)
    <3>1. UpdateRow(copy[t]) /\ copy[t] \in Rows
      BY <1>3, <2>1 DEF SaveRecovered, TypeOK
    <3> QED
      BY <1>0, <1>3, <3>1, UpdateRowType, HandlerType DEF SaveRecovered
  <2>2. CASE ~(copy[t] # row /\ CopyIsFresh(t))
    <3>1. RowTyped
      BY <1>3, <2>2 DEF SaveRecovered, TypeOK, RowTyped
    <3> QED
      BY <1>0, <1>3, <3>1, HandlerType DEF SaveRecovered
  <2> QED
    BY <2>1, <2>2
<1> QED
  BY <1>1, <1>2, <1>3 DEF RecoveryStep

LEMMA DueType ==
  ASSUME TypeOK, QuoteIsThere, BoltzLocks
  PROVE  Due \in {Low, High}
  BY DEF TypeOK, QuoteIsThere, BoltzLocks, Due

LEMMA EnvironmentType ==
  ASSUME TypeOK, QuoteIsThere, Environment
  PROVE  TypeOK'
<1> USE DEF TypeOK
<1>1. CASE Restart
  <2>1. restarts' \in 0..MaxRestarts
    BY <1>1, BoundsAssumption DEF Restart
  <2>2. pc' \in [Tasks -> PCs] /\ copy' \in [Tasks -> Rows] /\ view' \in [Tasks -> Views]
    BY <1>1, NoRowType, Names DEF Restart
  <2>3. row' \in Rows /\ fresh' \subseteq Tasks /\ grace' \in BOOLEAN /\ claiming' \in BOOLEAN
    BY <1>1 DEF Restart
  <2>4. UNCHANGED <<liquid, bitcoin, deposit, more, refunds, sweep, server, spend, revealed, boltz, quote, agreed>>
    BY <1>1 DEF Restart, chainVars, tipVars, bitcoinTxs, liquidTxs, boltzVars, quoteVars
  <2> QED
    BY <2>1, <2>2, <2>3, <2>4
<1>2. CASE GracePeriodEnds
  <2>1. RowTyped /\ TaskTyped /\ UNCHANGED <<claiming, view>>
    BY <1>2 DEF GracePeriodEnds, RowTyped, TaskTyped, taskVars
  <2> QED
    BY <1>2, <2>1, HandlerType DEF GracePeriodEnds
<1> USE DEF rowVars, taskVars
<1>3. CASE LiquidBlock \/ BitcoinBlock
  BY <1>3 DEF LiquidBlock, BitcoinBlock, NextTip, Tips, bitcoinTxs, liquidTxs, boltzVars, quoteVars
<1>4. CASE Pay \/ PayMined \/ PayMore
  <2>1. deposit' \in [kind: {"none", "agreed", "unexpected"}, at: {"none", "seen", "mined"}] /\ more' \in BOOLEAN
    <3>1. CASE Pay
      <4>1. PICK kind \in Deposits : deposit' = [kind |-> kind, at |-> "seen"]
        BY <3>1 DEF Pay
      <4> QED
        BY <3>1, <4>1, BoundsAssumption DEF Pay
    <3>2. CASE PayMined \/ PayMore
      BY <3>2 DEF PayMined, PayMore
    <3> QED
      BY <1>4, <3>1, <3>2
  <2> QED
    BY <1>4, <2>1 DEF Pay, PayMined, PayMore, tipVars, liquidTxs, boltzVars, quoteVars
<1>5. ASSUME NEW f \in RefundTxs, RefundVisible(f) \/ RefundMined(f) PROVE TypeOK'
  BY <1>5 DEF RefundVisible, RefundMined, tipVars, liquidTxs, boltzVars, quoteVars
<1>6. CASE BoltzClaims \/ SweepMined
  BY <1>6 DEF BoltzClaims, SweepMined, tipVars, liquidTxs, boltzVars, quoteVars
<1>7. CASE BoltzLocks \/ ServerLockupMined
  <2>1. server' \in [value: 0..High, rbf: BOOLEAN, at: {"none", "seen", "mined"}]
    <3>1. CASE BoltzLocks
      <4>1. PICK k \in Offers :
              server' = [value |-> IF k = "short" THEN Due - 1 ELSE Due, rbf |-> k = "rbf", at |-> "seen"]
        BY <3>1 DEF BoltzLocks
      <4>2. Due \in 1..2
        BY <3>1, DueType DEF Low, High
      <4> QED
        BY <4>1, <4>2 DEF High
    <3>2. CASE ServerLockupMined
      BY <3>2 DEF ServerLockupMined
    <3> QED
      BY <1>7, <3>1, <3>2
  <2> QED
    BY <1>7, <2>1 DEF BoltzLocks, ServerLockupMined, tipVars, bitcoinTxs, boltzVars, quoteVars
<1>8. CASE SpendVisible \/ SpendMined
  BY <1>8 DEF SpendVisible, SpendMined, tipVars, bitcoinTxs, boltzVars, quoteVars
<1>9. CASE BoltzRefunds
  BY <1>9 DEF BoltzRefunds, tipVars, bitcoinTxs, quoteVars
<1>10. CASE BoltzFailsLockup \/ BoltzRequotes \/ BoltzGivesUp
  BY <1>10, BoundsAssumption
  DEF BoltzFailsLockup, BoltzRequotes, BoltzGivesUp, tipVars, bitcoinTxs, liquidTxs, quoteVars
<1> QED
  BY <1>1, <1>2, <1>3, <1>4, <1>5, <1>6, <1>7, <1>8, <1>9, <1>10 DEF Environment

\* What changes what the chains show of the Liquid side and what Boltz says: a split of the steps
\* that the lemmas below share
Broadcasts == \E t \in {Blocks, Status} : BroadcastClaim(t) \/ UnsetClaimTxId(t)
Accepting  == AutoAccepted \/ (\E t \in Calls : ProposedFeesAccepted(t)) \/ (\E t \in Calls \cup {Status} : AcceptFails(t))

\* Who changes what was offered, claimed and quoted.
LEMMA LiquidFrame ==
  ASSUME [Next]_vars
  PROVE  /\ UNCHANGED spend \/ Broadcasts \/ SpendVisible \/ SpendMined \/ BoltzRefunds
         /\ UNCHANGED server \/ BoltzLocks \/ ServerLockupMined
         /\ UNCHANGED <<boltz, quoteVars>> \/ Accepting \/ BoltzRefunds \/ BoltzFailsLockup \/ BoltzRequotes \/ BoltzGivesUp
         /\ UNCHANGED revealed \/ (\E t \in {Blocks, Status} : BuildFails(t) \/ (\E k \in ClaimTxs : SetClaimTxId(t, k)))
<1> USE DEF chainVars, liquidTxs, boltzVars, Broadcasts, Accepting
<1>1. CASE CreateReceiveChainSwap \/ BlockStep \/ (\E t \in Calls \cup {Blocks} : RecoveryStep(t)) \/ UNCHANGED vars
  BY <1>1 DEF CreateReceiveChainSwap, BlockStep, ListMonitored, NothingMonitored, ClaimIncoming, NoNewBlock,
     ClaimConfirmedServerLockup, RecoveryStep, RecoverSwap, RecoveryFails, SaveRecovered, vars
<1>2. CASE StatusStep
  <2>1. CASE AutoAccepted
    BY <2>1 DEF AutoAccepted, BoltzAccepts
  <2> QED
    BY <1>2, <2>1 DEF StatusStep, UserLockupAnnounced, StorePayerAmount, ServerLockupAnnounced, VerifyUserLockup,
       VerifyMempoolLockup,
       VerifyConfirmedLockup, LockupFailedAmountless, ValidateAmountlessSwap, ValidateFails, SwapFailed,
       MarkFailed, MarkFails
<1>3. ASSUME NEW t \in Calls, CallStep(t)
      PROVE  UNCHANGED liquidTxs /\ UNCHANGED revealed /\ (UNCHANGED <<boltz, quoteVars>> \/ ProposedFeesAccepted(t))
  BY <1>3 DEF CallStep, AcceptProposedFees, ProposalFails, StoreProposedFees, ProposedFeesAccepted, BoltzAccepts,
     Refund, BroadcastRefund, RefundSent,
     RefundFails, RescanOnchainSwaps
<1>4. ASSUME NEW t \in Calls \cup {Status}, AcceptFails(t)
      PROVE  UNCHANGED liquidTxs /\ UNCHANGED revealed
  BY <1>4 DEF AcceptFails, BoltzAccepts
<1>5. ASSUME NEW t \in {Blocks, Status}, ClaimStep(t)
      PROVE  /\ UNCHANGED <<server, boltz, quoteVars>>
             /\ UNCHANGED spend \/ BroadcastClaim(t) \/ UnsetClaimTxId(t)
             /\ UNCHANGED revealed \/ BuildFails(t) \/ (\E k \in ClaimTxs : SetClaimTxId(t, k))
  BY <1>5 DEF ClaimStep, VerifyFails, BeginClaim, SetClaimTxId, BuildFails, BroadcastClaim, UnsetClaimTxId
<1>6. CASE Environment
  BY <1>6 DEF Environment, Restart, GracePeriodEnds, LiquidBlock, BitcoinBlock, Pay, PayMined, PayMore, RefundVisible,
     RefundMined, BoltzClaims, SweepMined, BoltzLocks, ServerLockupMined, SpendVisible, SpendMined, BoltzRefunds,
     BoltzFailsLockup, BoltzRequotes, BoltzGivesUp
<1> QED
  BY <1>1, <1>2, <1>3, <1>4, <1>5, <1>6 DEF Next

\* Who changes what is paid, refunded and taken on Bitcoin, and the tips.
LEMMA BitcoinFrame ==
  ASSUME [Next]_vars
  PROVE  /\ UNCHANGED deposit \/ Pay \/ PayMined
         /\ UNCHANGED more \/ PayMore
         /\ UNCHANGED sweep \/ BoltzClaims \/ SweepMined
         /\ UNCHANGED refunds \/ (\E t \in Calls : BroadcastRefund(t))
            \/ (\E f \in RefundTxs : RefundVisible(f) \/ RefundMined(f))
         /\ UNCHANGED tipVars \/ LiquidBlock \/ BitcoinBlock
<1> USE DEF chainVars, bitcoinTxs
<1>1. CASE CreateReceiveChainSwap \/ BlockStep \/ (\E t \in Calls \cup {Blocks} : RecoveryStep(t)) \/ UNCHANGED vars
  BY <1>1 DEF CreateReceiveChainSwap, BlockStep, ListMonitored, NothingMonitored, ClaimIncoming, NoNewBlock,
     ClaimConfirmedServerLockup, RecoveryStep, RecoverSwap, RecoveryFails, SaveRecovered, vars
<1>2. CASE StatusStep
  BY <1>2 DEF StatusStep, UserLockupAnnounced, StorePayerAmount, ServerLockupAnnounced, VerifyUserLockup,
     VerifyMempoolLockup,
     VerifyConfirmedLockup, LockupFailedAmountless, ValidateAmountlessSwap, ValidateFails, AutoAccepted, SwapFailed,
     MarkFailed, MarkFails
<1>3. ASSUME NEW t \in Calls, CallStep(t)
      PROVE  UNCHANGED <<tipVars, deposit, more, sweep>> /\ (UNCHANGED refunds \/ BroadcastRefund(t))
  BY <1>3 DEF CallStep, AcceptProposedFees, ProposalFails, StoreProposedFees, ProposedFeesAccepted, Refund,
     BroadcastRefund, RefundSent,
     RefundFails, RescanOnchainSwaps
<1>4. ASSUME NEW t \in Calls \cup {Status}, AcceptFails(t)
      PROVE  UNCHANGED <<tipVars, bitcoinTxs>>
  BY <1>4 DEF AcceptFails
<1>5. ASSUME NEW t \in {Blocks, Status}, ClaimStep(t)
      PROVE  UNCHANGED <<tipVars, bitcoinTxs>>
  BY <1>5 DEF ClaimStep, VerifyFails, BeginClaim, SetClaimTxId, BuildFails, BroadcastClaim, UnsetClaimTxId
<1>6. CASE Environment
  BY <1>6 DEF Environment, Restart, GracePeriodEnds, LiquidBlock, BitcoinBlock, Pay, PayMined, PayMore, RefundVisible,
     RefundMined, BoltzClaims, SweepMined, BoltzLocks, ServerLockupMined, SpendVisible, SpendMined, BoltzRefunds,
     BoltzFailsLockup, BoltzRequotes, BoltzGivesUp
<1> QED
  BY <1>1, <1>2, <1>3, <1>4, <1>5, <1>6 DEF Next

\* A step that is one of task c's own, or that ends it.
OwnStep(c) ==
  \/ c = Status /\ StatusStep
  \/ c \in Calls /\ CallStep(c)
  \/ c \in Calls \cup {Status} /\ AcceptFails(c)
  \/ c \in {Blocks, Status} /\ ClaimStep(c)
  \/ c = Blocks /\ BlockStep
  \/ c \in Calls \cup {Blocks} /\ RecoveryStep(c)
  \/ Restart

\* The other steps leave what the task is doing and what it has read.
LEMMA TaskFrame ==
  ASSUME TypeOK, [Next]_vars, NEW c \in Tasks
  PROVE  OwnStep(c) \/ (pc'[c] = pc[c] /\ copy'[c] = copy[c] /\ view'[c] = view[c])
<1> DEFINE Same == pc'[c] = pc[c] /\ copy'[c] = copy[c] /\ view'[c] = view[c]
<1>0. pc \in [Tasks -> PCs] /\ copy \in [Tasks -> Rows] /\ view \in [Tasks -> Views]
  BY DEF TypeOK
<1> USE <1>0 DEF taskVars, Goto, Leave, Keep, EndClaim, AfterRecovery, Scan
<1>1. CASE CreateReceiveChainSwap \/ UNCHANGED vars
  BY <1>1 DEF CreateReceiveChainSwap, vars
<1>2. CASE StatusStep /\ c # Status
  BY <1>2 DEF StatusStep, UserLockupAnnounced, StorePayerAmount, ServerLockupAnnounced, VerifyUserLockup,
     VerifyMempoolLockup,
     VerifyConfirmedLockup, LockupFailedAmountless, ValidateAmountlessSwap, ValidateFails, AutoAccepted, SwapFailed,
     MarkFailed, MarkFails
<1>3. ASSUME NEW t \in Calls, CallStep(t), c # t PROVE Same
  BY <1>3 DEF CallStep, AcceptProposedFees, ProposalFails, StoreProposedFees, ProposedFeesAccepted, Refund,
     BroadcastRefund, RefundSent,
     RefundFails, RescanOnchainSwaps
<1>4. ASSUME NEW t \in Calls \cup {Status}, AcceptFails(t), c # t PROVE Same
  BY <1>4 DEF AcceptFails
<1>5. ASSUME NEW t \in {Blocks, Status}, ClaimStep(t), c # t PROVE Same
  BY <1>5 DEF ClaimStep, VerifyFails, BeginClaim, SetClaimTxId, BuildFails, BroadcastClaim, UnsetClaimTxId
<1>6. CASE BlockStep /\ c # Blocks
  BY <1>6 DEF BlockStep, ListMonitored, NothingMonitored, ClaimIncoming, NoNewBlock, ClaimConfirmedServerLockup
<1>7. ASSUME NEW t \in Calls \cup {Blocks}, RecoveryStep(t), c # t PROVE Same
  BY <1>7 DEF RecoveryStep, RecoverSwap, RecoveryFails, SaveRecovered
<1>8. CASE Environment /\ ~Restart
  BY <1>8 DEF Environment, GracePeriodEnds, LiquidBlock, BitcoinBlock, Pay, PayMined, PayMore, RefundVisible,
     RefundMined, BoltzClaims, SweepMined, BoltzLocks, ServerLockupMined, SpendVisible, SpendMined, BoltzRefunds,
     BoltzFailsLockup, BoltzRequotes, BoltzGivesUp
<1> QED
  BY <1>1, <1>2, <1>3, <1>4, <1>5, <1>6, <1>7, <1>8 DEF Next, OwnStep

\* A handler that moves the swap to another state: the transition is one that is accepted, or it
\* is that of a failed swap. The amounts and the claim stay.
Moves ==
  /\ row'.zero = row.zero /\ row'.claim = row.claim /\ row'.accepted = row.accepted
  /\ \/ row'.state = row.state
     \/ <<row.state, row'.state>> \in Allowed /\ row'.state \notin {"WaitingFeeAcceptance", "Refundable"}
     \/ pc[Status] = "failed" /\ row'.state = "Refundable"

\* Who writes the other columns.
AcceptedWritten ==
  \/ LockupFailedAmountless \/ ValidateAmountlessSwap
  \/ \E t \in Calls : StoreProposedFees(t)
  \/ \E t \in Calls \cup {Status} : AcceptFails(t)
ClaimWritten == \E t \in {Blocks, Status} : UnsetClaimTxId(t) \/ (\E k \in ClaimTxs : SetClaimTxId(t, k))
CopyWritten  == \E t \in Calls \cup {Blocks} : SaveRecovered(t) /\ t \in fresh /\ UpdateRow(copy[t])

\* update_swap_info only moves the row along.
LEMMA UpdateSwapInfoMoves ==
  ASSUME TypeOK, NEW to, NEW l, NEW s, NEW r, update_swap_info(to, l, s, r),
         to # "WaitingFeeAcceptance", to # "Refundable"
  PROVE  Moves
<1>1. CASE UNCHANGED rowVars
  BY <1>1 DEF rowVars, Moves
<1>2. CASE Accepts(to) /\ row' = [row EXCEPT !.state = to, !.lockup = @ \/ l, !.server = @ \/ s,
                                             !.refund = IF r = NoTx THEN @ ELSE r]
  BY <1>2 DEF TypeOK, Rows, Accepts, Moves
<1> QED
  BY <1>1, <1>2 DEF update_swap_info, UpdateRow

\* The row changes when the swap is created, a copy is saved, a claim or a fee is written, or it moves along.
LEMMA RowFrame ==
  ASSUME TypeOK, [Next]_vars
  PROVE  CreateReceiveChainSwap \/ CopyWritten \/ ClaimWritten \/ AcceptedWritten \/ Moves
<1> USE DEF rowVars
<1>0. row \in Rows
  BY DEF TypeOK
<1>1. row' = row => Moves
  BY DEF Moves
<1>2. CASE StatusStep
  <2>1. CASE UserLockupAnnounced
    <3>1. row' = row \/ \E zeroConf \in BOOLEAN : row' = [row EXCEPT !.zeroConf = zeroConf]
      BY <2>1 DEF UserLockupAnnounced, UpdateRow
    <3> QED
      BY <1>0, <1>1, <3>1 DEF Rows, Moves
  <2>2. CASE VerifyUserLockup \/ VerifyMempoolLockup \/ VerifyConfirmedLockup
    BY <1>1, <2>2, UpdateSwapInfoMoves DEF VerifyUserLockup, VerifyMempoolLockup, VerifyConfirmedLockup
  <2>3. CASE MarkFailed
    <3>1. CASE UpdateRow([row EXCEPT !.state = "Refundable", !.lockup = @ \/ ~copy[Status].lockup])
      BY <1>0, <2>3, <3>1 DEF MarkFailed, UpdateRow, Rows, Moves
    <3> QED
      BY <1>1, <2>3, <3>1, UpdateSwapInfoMoves DEF MarkFailed
  <2>4. CASE (\E c \in BOOLEAN : ServerLockupAnnounced(c)) \/ ValidateFails \/ AutoAccepted \/ SwapFailed \/ MarkFails
    BY <1>1, <2>4 DEF ServerLockupAnnounced, ValidateFails, AutoAccepted, SwapFailed, MarkFails, UpdateRow
  <2>5. CASE StorePayerAmount
    BY <1>0, <1>1, <2>5 DEF StorePayerAmount, UpdateRow, Rows, Moves, Accepts
  <2> QED
    BY <1>2, <2>1, <2>2, <2>3, <2>4, <2>5 DEF StatusStep, AcceptedWritten
<1>3. ASSUME NEW t \in Calls, CallStep(t) PROVE StoreProposedFees(t) \/ Moves
  <2>1. CASE ProposedFeesAccepted(t)
    BY <1>1, <2>1, UpdateSwapInfoMoves DEF ProposedFeesAccepted
  <2>2. CASE RefundSent(t)
    BY <1>1, <2>2, UpdateSwapInfoMoves DEF RefundSent
  <2> QED
    BY <1>1, <1>3, <2>1, <2>2 DEF CallStep, AcceptProposedFees, ProposalFails, Refund, BroadcastRefund, RefundFails,
       RescanOnchainSwaps
<1>4. ASSUME NEW t \in {Blocks, Status}, ClaimStep(t) PROVE ClaimWritten \/ Moves
  BY <1>1, <1>4 DEF ClaimStep, VerifyFails, BeginClaim, BuildFails, BroadcastClaim, ClaimWritten
<1>5. ASSUME NEW t \in Calls \cup {Blocks}, RecoveryStep(t) PROVE CopyWritten \/ Moves
  BY <1>1, <1>5 DEF RecoveryStep, RecoverSwap, RecoveryFails, SaveRecovered, CopyWritten, CopyIsFresh
<1>6. CASE BlockStep \/ UNCHANGED vars
  BY <1>1, <1>6 DEF BlockStep, ListMonitored, NothingMonitored, ClaimIncoming, NoNewBlock,
     ClaimConfirmedServerLockup, vars
<1>7. CASE Environment
  BY <1>1, <1>7 DEF Environment, Restart, GracePeriodEnds, LiquidBlock, BitcoinBlock, Pay, PayMined, PayMore,
     RefundVisible, RefundMined, BoltzClaims, SweepMined, BoltzLocks, ServerLockupMined, SpendVisible, SpendMined,
     BoltzRefunds, BoltzFailsLockup, BoltzRequotes, BoltzGivesUp
<1> QED
  BY <1>2, <1>3, <1>4, <1>5, <1>6, <1>7 DEF Next, AcceptedWritten

\* The version of the row: a copy is fresh as long as nothing is written, and grace only ends.
LEMMA FreshFrame ==
  ASSUME TypeOK, [Next]_vars, NEW c \in fresh'
  PROVE  row' = row /\ (grace' => grace) /\ (c \in fresh \/ (Scan(c) /\ grace' = grace))
<1> DEFINE Keeps == row' = row /\ (grace' => grace) /\ (c \in fresh \/ (Scan(c) /\ grace' = grace))
<1> USE DEF rowVars, UpdateRow
<1>0. grace \in BOOLEAN /\ (row' = row /\ grace' = grace /\ fresh' = fresh => Keeps) /\ c \notin {}
  BY DEF TypeOK
<1>a. \A to, l, s, r : update_swap_info(to, l, s, r) => Keeps
  BY <1>0 DEF update_swap_info
<1>1. CASE CreateReceiveChainSwap \/ UNCHANGED vars
  BY <1>0, <1>1 DEF CreateReceiveChainSwap, vars
<1>2. CASE StatusStep
  BY <1>0, <1>a, <1>2 DEF StatusStep, UserLockupAnnounced, StorePayerAmount, ServerLockupAnnounced, VerifyUserLockup,
     VerifyMempoolLockup,
     VerifyConfirmedLockup, LockupFailedAmountless, ValidateAmountlessSwap, ValidateFails, AutoAccepted, SwapFailed,
     MarkFailed, MarkFails
<1>3. ASSUME NEW t \in Calls, CallStep(t) PROVE Keeps
  <2>1. CASE RescanOnchainSwaps(t)
    <3>1. Scan(t) /\ fresh' = fresh \cup {t} /\ row' = row /\ grace' = grace
      BY <2>1 DEF RescanOnchainSwaps, Scan
    <3> QED
      BY <1>0, <3>1
  <2> QED
    BY <1>0, <1>a, <1>3, <2>1 DEF CallStep, AcceptProposedFees, ProposalFails, StoreProposedFees,
       ProposedFeesAccepted, Refund, BroadcastRefund,
       RefundSent, RefundFails
<1>4. ASSUME NEW t \in Calls \cup {Status}, AcceptFails(t) PROVE Keeps
  BY <1>0, <1>4 DEF AcceptFails, EraseAccepted
<1>5. ASSUME NEW t \in {Blocks, Status}, ClaimStep(t) PROVE Keeps
  BY <1>0, <1>5 DEF ClaimStep, VerifyFails, BeginClaim, SetClaimTxId, BuildFails, BroadcastClaim, UnsetClaimTxId
<1>6. CASE BlockStep
  BY <1>0, <1>6 DEF BlockStep, ListMonitored, NothingMonitored, ClaimIncoming, NoNewBlock, ClaimConfirmedServerLockup,
     Scan
<1>7. ASSUME NEW t \in Calls \cup {Blocks}, RecoveryStep(t) PROVE Keeps
  BY <1>0, <1>7 DEF RecoveryStep, RecoverSwap, RecoveryFails, SaveRecovered
<1>8. CASE Environment
  BY <1>0, <1>8 DEF Environment, Restart, GracePeriodEnds, LiquidBlock, BitcoinBlock, Pay, PayMined, PayMore,
     RefundVisible,
     RefundMined, BoltzClaims, SweepMined, BoltzLocks, ServerLockupMined, SpendVisible, SpendMined, BoltzRefunds,
     BoltzFailsLockup, BoltzRequotes, BoltzGivesUp
<1> QED
  BY <1>1, <1>2, <1>3, <1>4, <1>5, <1>6, <1>7, <1>8 DEF Next

\* A claim that can be seen is not replaced by anything.
LEMMA ClaimSeenStable ==
  ASSUME TypeOK, [Next]_vars, spend.by \in ClaimTxs, spend.at \in Visible
  PROVE  spend'.by \in ClaimTxs /\ spend'.at \in Visible /\ (spend.at = "mined" => spend' = spend)
<1>1. spend.by # NoTx
  BY TxsAssumption
<1>2. CASE Broadcasts
  BY <1>1, <1>2 DEF Broadcasts, BroadcastClaim, UnsetClaimTxId, Sent
<1>3. CASE SpendVisible \/ SpendMined \/ BoltzRefunds
  BY <1>1, <1>3 DEF SpendVisible, SpendMined, BoltzRefunds, TypeOK, Visible
<1> QED
  BY <1>2, <1>3, LiquidFrame

\* What a task reads of the chains, it reads as it is.
LEMMA ViewStep ==
  ASSUME TypeOK, [Next]_vars, NEW t \in Tasks
  PROVE  view'[t] = view[t] \/ view'[t] = NoView \/ Scan(t)
<1>0. view \in [Tasks -> Views]
  BY DEF TypeOK
<1>1. CASE view'[t] = view[t]
  BY <1>1
<1>2. CASE Restart
  BY <1>2 DEF Restart
<1>3. CASE OwnStep(t) /\ ~Restart
  <2>1. UNCHANGED view \/ Scan(t) \/ RecoverSwap(t) \/ AfterRecovery(t)
    BY <1>3 DEF OwnStep, StatusStep, UserLockupAnnounced, StorePayerAmount, ServerLockupAnnounced, VerifyUserLockup,
       VerifyMempoolLockup, VerifyConfirmedLockup, LockupFailedAmountless, ValidateAmountlessSwap, ValidateFails,
       AutoAccepted, SwapFailed, MarkFailed, MarkFails, CallStep, AcceptProposedFees, ProposalFails,
       StoreProposedFees, ProposedFeesAccepted,
       Refund, BroadcastRefund, RefundSent, RefundFails, RescanOnchainSwaps, AcceptFails, ClaimStep, VerifyFails,
       BeginClaim, SetClaimTxId, BuildFails, BroadcastClaim, UnsetClaimTxId, BlockStep, ListMonitored,
       NothingMonitored, ClaimIncoming, NoNewBlock, ClaimConfirmedServerLockup, RecoveryStep, RecoveryFails,
       SaveRecovered, taskVars
  <2>2. RecoverSwap(t) \/ AfterRecovery(t) => view'[t] = NoView
    BY <1>0 DEF RecoverSwap, AfterRecovery
  <2> QED
    BY <2>1, <2>2
<1> QED
  BY <1>1, <1>2, <1>3, TaskFrame

\* A claim a task saw is on the chain.
LEMMA ClaimSeenStep ==
  ASSUME TypeOK, ClaimSeenIsThere, [Next]_vars
  PROVE  ClaimSeenIsThere'
<1> SUFFICES ASSUME NEW t \in Tasks, view'[t].claim
             PROVE  spend.by \in ClaimTxs /\ spend.at \in Visible
  BY ClaimSeenStable DEF ClaimSeenIsThere
<1>1. view \in [Tasks -> Views] /\ ~NoView.claim
  BY DEF TypeOK, NoView
<1>2. ASSUME Scan(t) PROVE spend.by \in ClaimTxs /\ spend.at \in Visible
  <2>1. view'[t].claim <=> spend.by \in ClaimTxs /\ spend.at \in Visible
    BY <1>1, <1>2 DEF Scan
  <2> QED
    BY <2>1
<1> QED
  BY <1>1, <1>2, ViewStep DEF ClaimSeenIsThere

\* What is accepted was quoted by Boltz.
LEMMA QuoteStep ==
  ASSUME TypeOK, QuoteIsThere, [Next]_vars
  PROVE  QuoteIsThere'
<1> USE DEF QuoteIsThere
<1>1. CASE UNCHANGED <<boltz, quoteVars>>
  BY <1>1 DEF quoteVars
<1>2. CASE Accepting
  <2>1. (\E t \in Tasks : BoltzAccepts(t)) \/ UNCHANGED <<boltz, quoteVars>>
    BY <1>2, TaskNames DEF Accepting, AutoAccepted, ProposedFeesAccepted, AcceptFails, boltzVars
  <2>2. (\E t \in Tasks : BoltzAccepts(t)) => QuoteIsThere'
    BY DEF BoltzAccepts
  <2> QED
    BY <1>1, <2>1, <2>2
<1>3. CASE BoltzRefunds \/ BoltzFailsLockup \/ BoltzRequotes \/ BoltzGivesUp
  BY <1>3, BoundsAssumption DEF BoltzRefunds, BoltzFailsLockup, BoltzRequotes, BoltzGivesUp, quoteVars
<1> QED
  BY <1>1, <1>2, <1>3, LiquidFrame

LEMMA NextType ==
  ASSUME TypeInv, [Next]_vars
  PROVE  TypeInv'
<1>0. TypeOK /\ QuoteIsThere /\ ClaimSeenIsThere
  BY DEF TypeInv
<1>1. TypeOK'
  <2> USE <1>0, TaskNames
  <2>1. CASE CreateReceiveChainSwap
    BY <2>1, CreateType
  <2>2. CASE StatusStep
    BY <2>2, AnnouncementType, VerifyStepType, FailureStepType, AcceptStepType DEF StatusStep
  <2>3. CASE \E t \in Calls : CallStep(t)
    BY <2>3, CallStepType, AcceptStepType DEF CallStep
  <2>4. CASE \E t \in Calls \cup {Status} : AcceptFails(t)
    BY <2>4, AcceptStepType
  <2>5. CASE (\E t \in {Blocks, Status} : ClaimStep(t)) \/ BlockStep
    BY <2>5, ClaimStepType, BlockStepType
  <2>6. CASE \E t \in Calls \cup {Blocks} : RecoveryStep(t)
    BY <2>6, RecoveryStepType
  <2>7. CASE Environment
    BY <2>7, EnvironmentType
  <2>8. CASE UNCHANGED vars
    BY <2>8 DEF TypeOK, vars, rowVars, taskVars, chainVars, tipVars, bitcoinTxs, liquidTxs, boltzVars, quoteVars
  <2> QED
    BY <2>1, <2>2, <2>3, <2>4, <2>5, <2>6, <2>7, <2>8 DEF Next
<1> QED
  BY <1>0, <1>1, ClaimSeenStep, QuoteStep DEF TypeInv

LEMMA InitType == Init => TypeInv
<1> SUFFICES ASSUME Init
             PROVE  TypeInv
  OBVIOUS
<1>1. pc \in [Tasks -> PCs] /\ copy \in [Tasks -> Rows] /\ view \in [Tasks -> Views]
  BY NoRowType, Names DEF Init
<1>2. row \in Rows /\ restarts \in 0..MaxRestarts
  BY NoRowType, BoundsAssumption DEF Init
<1>3. /\ refunds \in [RefundTxs -> [of: SUBSET {"deposit", "more"}, at: {"none", "sent", "seen", "mined", "replaced"}]]
      /\ server \in [value: 0..High, rbf: BOOLEAN, at: {"none", "seen", "mined"}]
      /\ spend \in [by: ClaimTxs \cup {ServerRefund, NoTx}, at: {"none", "sent", "seen", "mined"}]
      /\ deposit \in [kind: {"none", "agreed", "unexpected"}, at: {"none", "seen", "mined"}]
  BY DEF Init, High
<1>4. TypeOK
  BY <1>1, <1>2, <1>3 DEF Init, TypeOK, Tips
<1>5. QuoteIsThere /\ ClaimSeenIsThere
  BY DEF Init, QuoteIsThere, ClaimSeenIsThere, NoView
<1> QED
  BY <1>4, <1>5 DEF TypeInv

LEMMA TypesHold == Spec => []TypeInv
BY InitType, NextType, PTL DEF Spec

\* For any calls, claim and refund txs and number of restarts, every variable stays in its domain
\* (the schema's columns and the handlers' control states). That recovery writes the id of a claim,
\* and that what Boltz locks up is not less than nothing, takes more than the types.
THEOREM TypeCorrect == Spec => []TypeOK
<1>1. TypeInv => TypeOK
  BY DEF TypeInv
<1> QED
  BY <1>1, TypesHold, PTL

-----------------------------------------------------------------------------
(* The preimage. *)

\* Only a swap without an amount waits for fees to be accepted, or has accepted them
AmountSound(r) == ~r.zero => r.accepted = 0 /\ r.state # "WaitingFeeAcceptance"

\* Before the swap is created nothing works on it, and nothing is paid
NothingBefore ==
  row.state = "None" => (\A t \in Tasks : pc[t] = "idle") /\ deposit.at = "none" /\ server.at = "none"

\* A copy under recovery is of a swap that exists; when it is written the amounts do not change
CopiesAgree ==
  \A t \in Tasks : pc[t] \in {"recover", "save"} =>
    /\ AmountSound(copy[t]) /\ copy[t].state # "None"
    /\ t \in fresh =>
         /\ copy[t].zero = row.zero /\ copy[t].accepted = row.accepted
         /\ pc[t] = "recover" => copy[t] = row

\* Only a swap without an amount gets a quote. What the status handler looks at while it verifies the
\* lockups: an accepted amount may since have been erased, but no other one was accepted
VerifierAgrees ==
  /\ \A t \in Tasks : pc[t] = "quote" => row.zero
  /\ pc[Status] \in {"userMempool", "userConfirmed", "serverMempool"} =>
       /\ server.at # "none"
       /\ copy[Status].zero = row.zero /\ row.accepted \in {copy[Status].accepted, 0}
       /\ ~copy[Status].zero => copy[Status].accepted = 0

\* Boltz asks for a quote to be accepted before it locks up anything
QuoteBeforeLockup == boltz = "lockupFailed" => server.at = "none"

\* A task that claims verified the server lockup before it started
ClaimersVerified == \A t \in Tasks : pc[t] \in {"claim", "build", "broadcast"} => Settled

AmountInv == AmountSound(row) /\ NothingBefore /\ CopiesAgree /\ VerifierAgrees /\ QuoteBeforeLockup

\* The inductive invariant
IInv == TypeInv /\ AmountInv /\ ClaimersVerified /\ PreimageOnlyForLockup

Stays(c) == pc'[c] = pc[c] /\ copy'[c] = copy[c] /\ view'[c] = view[c]

\* The labels at which nothing is relied on
Quiet == {"idle", "amount", "serverConfirmed", "accept", "failed", "refund", "refunded", "verify", "liquid"}

\* How a task comes to the others.
Arrives(c) ==
  \/ pc'[c] \in Quiet
  \/ pc'[c] = "recover" /\ Scan(c) /\ row.state # "None" /\ row' = row
  \/ pc'[c] = "save" /\ RecoverSwap(c)
  \/ pc'[c] = "quote" /\ ((c = Status /\ LockupFailedAmountless) \/ row.state = "WaitingFeeAcceptance")
  \/ pc'[c] \in {"userMempool", "userConfirmed"} /\ c = Status /\ (\E k \in BOOLEAN : ServerLockupAnnounced(k))
  \/ pc'[c] = "serverMempool" /\ c = Status /\ pc[c] = "userMempool" /\ copy' = copy
  \/ pc'[c] = "claim" /\ ((VerifyMempoolLockup /\ c = Status) \/ server.at = "mined")
  \/ pc'[c] = "build" /\ c \in {Blocks, Status} /\ BeginClaim(c) /\ ~claiming /\ row.claim = NoTx
  \/ pc'[c] = "broadcast" /\ c \in {Blocks, Status} /\ row.claim = NoTx /\ (\E k \in ClaimTxs : SetClaimTxId(c, k))

\* A task starts at the beginning of its work, and only for a swap that exists.
LEMMA Arrival ==
  ASSUME TypeOK, [Next]_vars, NEW c \in Tasks
  PROVE  Stays(c) \/ (Arrives(c) /\ (row.state = "None" => pc[c] # "idle" \/ pc'[c] = "idle"))
<1> DEFINE Goal == Stays(c) \/ (Arrives(c) /\ (row.state = "None" => pc[c] # "idle" \/ pc'[c] = "idle"))
<1>0. pc \in [Tasks -> PCs] /\ copy \in [Tasks -> Rows] /\ view \in [Tasks -> Views]
  BY DEF TypeOK
<1> USE DEF Arrives, Quiet
<1>1. Leave(c) => pc'[c] = "idle"
  BY <1>0 DEF Leave, Goto
<1>2. \A label : Goto(c, label) => pc'[c] = label
  BY <1>0 DEF Goto
<1>3. \A r, label : Keep(c, r, label) => pc'[c] = label
  BY <1>0 DEF Keep, Goto
<1>4. CASE c = Status /\ StatusStep
  <2> USE <1>1, <1>2, <1>3, <1>4
  <2>1. CASE UserLockupAnnounced
    <3>1. row.state # "None"
      BY <2>1 DEF UserLockupAnnounced, StatusArrives
    <3> QED
      BY <2>1, <3>1 DEF UserLockupAnnounced, Stays
  <2>2. CASE (\E k \in BOOLEAN : ServerLockupAnnounced(k)) \/ LockupFailedAmountless
    <3>1. row.state # "None"
      BY <2>2 DEF ServerLockupAnnounced, LockupFailedAmountless, StatusArrives
    <3> QED
      BY <2>2, <3>1 DEF ServerLockupAnnounced, LockupFailedAmountless
  <2>3. CASE VerifyUserLockup
    BY <2>3 DEF VerifyUserLockup
  <2>4. CASE VerifyMempoolLockup \/ VerifyConfirmedLockup
    BY <2>4 DEF VerifyMempoolLockup, VerifyConfirmedLockup
  <2>5. CASE ValidateAmountlessSwap \/ ValidateFails \/ AutoAccepted \/ MarkFailed \/ MarkFails
    BY <2>5 DEF ValidateAmountlessSwap, ValidateFails, AutoAccepted, MarkFailed, MarkFails
  <2>6. CASE SwapFailed
    BY <2>6 DEF SwapFailed, StatusArrives
  <2>7. CASE StorePayerAmount
    BY <2>7 DEF StorePayerAmount
  <2> QED
    BY <2>1, <2>2, <2>3, <2>4, <2>5, <2>6, <2>7 DEF StatusStep
<1>5. CASE c \in Calls /\ CallStep(c)
  <2> USE <1>1, <1>2, <1>3, <1>5
  <2>1. CASE RescanOnchainSwaps(c)
    BY <2>1 DEF RescanOnchainSwaps, Scan
  <2> QED
    BY <2>1 DEF CallStep, AcceptProposedFees, ProposalFails, StoreProposedFees, ProposedFeesAccepted, Refund,
       BroadcastRefund, RefundSent, RefundFails
<1>6. CASE c \in Calls \cup {Status} /\ AcceptFails(c)
  BY <1>1, <1>2, <1>6 DEF AcceptFails
<1>7. CASE c \in {Blocks, Status} /\ ClaimStep(c)
  <2> USE <1>1, <1>2, <1>3, <1>7
  <2>1. EndClaim(c) => pc'[c] = "idle"
    BY DEF EndClaim
  <2>2. CASE BeginClaim(c)
    BY <2>2 DEF BeginClaim
  <2>3. ASSUME NEW k \in ClaimTxs, SetClaimTxId(c, k) PROVE Goal
    BY <2>1, <2>3 DEF SetClaimTxId
  <2> QED
    BY <2>1, <2>2, <2>3 DEF ClaimStep, VerifyFails, BuildFails, BroadcastClaim, UnsetClaimTxId
<1>8. CASE c = Blocks /\ BlockStep
  <2> USE <1>1, <1>2, <1>3, <1>8
  <2>1. CASE ListMonitored
    BY <2>1 DEF ListMonitored, Scan
  <2> QED
    BY <2>1 DEF BlockStep, NothingMonitored, ClaimIncoming, NoNewBlock, ClaimConfirmedServerLockup
<1>9. CASE c \in Calls \cup {Blocks} /\ RecoveryStep(c)
  <2>1. AfterRecovery(c) => pc'[c] \in {"liquid", "idle"}
    BY <1>2 DEF AfterRecovery
  <2> QED
    BY <1>2, <1>9, <2>1 DEF RecoveryStep, RecoverSwap, RecoveryFails, SaveRecovered
<1>10. CASE Restart
  BY <1>10 DEF Restart
<1> QED
  BY <1>4, <1>5, <1>6, <1>7, <1>8, <1>9, <1>10, TaskFrame DEF OwnStep, Stays

\* What recovery makes of a swap keeps the amounts, and the swap.
LEMMA RecoveredSound ==
  ASSUME NEW s \in Rows, NEW v, NEW r \in Recovered(s, v)
  PROVE  /\ r.zero = s.zero /\ r.accepted = s.accepted
         /\ AmountSound(s) => AmountSound(r)
         /\ s.state # "None" => r.state # "None"
<1>1. PICK refundId \in FoundRefunds(FoundClaim(v)) :
        r = IF should_skip_recovery(s, v.recent, FoundClaim(v), refundId) THEN s
            ELSE [s EXCEPT !.state = derive_partial_state(s, FoundClaim(v), refundId, v.expired),
                           !.lockup = DepositSeen, !.server = FoundServer(v), !.claim = FoundClaim(v),
                           !.refund = refundId]
  BY DEF Recovered
<1> DEFINE d == derive_partial_state(s, FoundClaim(v), refundId, v.expired)
<1>2. /\ d = "WaitingFeeAcceptance" => s.zero \/ s.state = "WaitingFeeAcceptance"
      /\ d = "None" => s.state = "None"
  BY DEF derive_partial_state
<1>3. CASE r = s
  BY <1>3
<1>4. CASE r = [s EXCEPT !.state = d, !.lockup = DepositSeen, !.server = FoundServer(v), !.claim = FoundClaim(v),
                         !.refund = refundId]
  <2> HIDE DEF d
  <2>1. r.state = d /\ r.zero = s.zero /\ r.accepted = s.accepted
    BY <1>4 DEF Rows
  <2> QED
    BY <1>2, <2>1 DEF AmountSound
<1> QED
  BY <1>1, <1>3, <1>4

\* The row: its kind stays, and no amount is accepted once Boltz has locked up.
LEMMA AmountStep ==
  ASSUME TypeOK, AmountInv, [Next]_vars
  PROVE  /\ row.state # "None" => row'.zero = row.zero /\ row'.state # "None"
         /\ server.at # "none" => row'.accepted \in {row.accepted, 0}
         /\ AmountSound(row')
<1> USE DEF AmountInv
<1>0. row \in Rows /\ copy \in [Tasks -> Rows] /\ quote \in {0, Low, High} /\ AmountSound(row)
  BY DEF TypeOK
<1>1. CASE CreateReceiveChainSwap
  <2>1. PICK zero \in Zero : \E zeroConf \in BOOLEAN :
          row' = [NoRow EXCEPT !.state = "Created", !.zero = zero, !.zeroConf = zeroConf]
    BY <1>1 DEF CreateReceiveChainSwap, UpdateRow
  <2>2. row'.state = "Created" /\ row'.accepted = 0
    BY <2>1 DEF NoRow
  <2> QED
    BY <1>1, <2>2 DEF CreateReceiveChainSwap, AmountSound
<1>2. CASE CopyWritten
  <2>1. PICK t \in Calls \cup {Blocks} : SaveRecovered(t) /\ t \in fresh /\ UpdateRow(copy[t])
    BY <1>2 DEF CopyWritten
  <2>2. t \in Tasks /\ pc[t] = "save" /\ row' = copy[t]
    BY <2>1, TaskNames DEF SaveRecovered, UpdateRow
  <2> QED
    BY <2>1, <2>2 DEF CopiesAgree
<1>3. CASE ClaimWritten
  <2>1. row' = row \/ (\E k : row' = [row EXCEPT !.claim = k])
    BY <1>3 DEF ClaimWritten, SetClaimTxId, UnsetClaimTxId, UpdateRow, rowVars
  <2> QED
    BY <1>0, <2>1 DEF Rows, AmountSound
<1>4. CASE AcceptedWritten
  <2>1. ASSUME NEW amount, row' = [row EXCEPT !.accepted = amount],
               amount = 0 \/ (boltz = "lockupFailed" /\ row.zero)
        PROVE  /\ row'.zero = row.zero /\ row'.state = row.state
               /\ server.at # "none" => row'.accepted \in {row.accepted, 0}
               /\ AmountSound(row')
    BY <1>0, <2>1 DEF Rows, AmountSound, QuoteBeforeLockup
  <2>2. CASE LockupFailedAmountless
    BY <1>0, <2>1, <2>2 DEF LockupFailedAmountless, UpdateRow, rowVars
  <2>3. CASE ValidateAmountlessSwap
    <3>1. boltz = "lockupFailed" /\ row.zero
      BY <2>3, TaskNames DEF ValidateAmountlessSwap, VerifierAgrees
    <3>2. CASE quote = High
      BY <2>1, <2>3, <3>1, <3>2 DEF ValidateAmountlessSwap, UpdateRow
    <3>3. CASE quote # High
      <4>1. update_swap_info("WaitingFeeAcceptance", FALSE, FALSE, NoTx)
        BY <2>3, <3>3 DEF ValidateAmountlessSwap
      <4>2. row' = row \/ (row'.zero = row.zero /\ row'.accepted = row.accepted /\ row'.state = "WaitingFeeAcceptance")
        BY <1>0, <4>1 DEF update_swap_info, UpdateRow, rowVars, Rows
      <4> QED
        BY <1>0, <3>1, <4>2 DEF AmountSound
    <3> QED
      BY <3>2, <3>3
  <2>4. ASSUME NEW t \in Calls, StoreProposedFees(t)
        PROVE  row' = [row EXCEPT !.accepted = quote] /\ boltz = "lockupFailed" /\ row.zero
    BY <2>4, TaskNames DEF StoreProposedFees, UpdateRow, VerifierAgrees
  <2>5. ASSUME NEW t \in Calls \cup {Status}, AcceptFails(t)
        PROVE  row' = [row EXCEPT !.accepted = 0]
    BY <2>5 DEF AcceptFails, EraseAccepted, UpdateRow
  <2> QED
    BY <1>4, <2>1, <2>2, <2>3, <2>4, <2>5 DEF AcceptedWritten
<1>5. CASE Moves
  BY <1>0, <1>5 DEF Moves, AmountSound, Allowed, States
<1> QED
  BY <1>1, <1>2, <1>3, <1>4, <1>5, RowFrame

\* Boltz does not take its lockup off the chain, nor its failure back.
LEMMA LockupStep ==
  ASSUME TypeOK, AmountInv, [Next]_vars
  PROVE  /\ server.at # "none" => server'.at # "none" /\ server'.value = server.value
         /\ QuoteBeforeLockup'
<1> USE DEF AmountInv, QuoteBeforeLockup
<1>1. server.at # "none" => server'.at # "none" /\ server'.value = server.value
  BY LiquidFrame DEF BoltzLocks, ServerLockupMined, TypeOK
<1>2. CASE UNCHANGED <<boltz, server>>
  BY <1>2
<1>3. CASE BoltzLocks
  BY <1>3 DEF BoltzLocks, boltzVars
<1>4. CASE ServerLockupMined
  BY <1>4 DEF ServerLockupMined, boltzVars
<1>5. CASE Accepting
  BY <1>5 DEF Accepting, AutoAccepted, ProposedFeesAccepted, AcceptFails, BoltzAccepts, liquidTxs, boltzVars
<1>6. CASE BoltzRefunds \/ BoltzFailsLockup \/ BoltzRequotes \/ BoltzGivesUp
  BY <1>6 DEF BoltzRefunds, BoltzFailsLockup, BoltzRequotes, BoltzGivesUp, liquidTxs
<1> QED
  BY <1>1, <1>2, <1>3, <1>4, <1>5, <1>6, LiquidFrame

\* Once the amount that is due has arrived it stays.
LEMMA SettledStable ==
  ASSUME TypeOK, AmountInv, [Next]_vars, Settled
  PROVE  Settled'
<1> USE DEF Settled, AmountInv
<1>0. server \in [value: 0..High, rbf: BOOLEAN, at: {"none", "seen", "mined"}] /\ High \in Nat /\ row.state # "None"
  BY DEF TypeOK, High, NothingBefore
<1>1. CASE UNCHANGED server
  <2>1. row'.zero = row.zero /\ row'.accepted \in {row.accepted, 0}
    BY <1>0, AmountStep
  <2> QED
    BY <1>0, <1>1, <2>1
<1>2. CASE BoltzLocks
  BY <1>2 DEF BoltzLocks
<1>3. CASE ServerLockupMined
  BY <1>3 DEF ServerLockupMined, TypeOK
<1> QED
  BY <1>1, <1>2, <1>3, LiquidFrame

\* Before the swap exists nothing happens.
LEMMA NothingBeforeStep ==
  ASSUME TypeOK, AmountInv, [Next]_vars
  PROVE  NothingBefore'
<1> SUFFICES ASSUME row'.state = "None"
             PROVE  (\A t \in Tasks : pc'[t] = "idle") /\ deposit'.at = "none" /\ server'.at = "none"
  BY DEF NothingBefore
<1>1. row.state = "None"
  BY AmountStep
<1>2. (\A t \in Tasks : pc[t] = "idle") /\ deposit.at = "none" /\ server.at = "none"
  BY <1>1 DEF AmountInv, NothingBefore
<1>3. \A t \in Tasks : pc'[t] = "idle"
  BY <1>1, <1>2, Arrival DEF Stays
<1>4. deposit'.at = "none"
  BY <1>1, <1>2, BitcoinFrame DEF Pay, PayMined
<1>5. server'.at = "none"
  BY <1>2, LiquidFrame DEF BoltzLocks, ServerLockupMined, DepositSeen, Visible
<1> QED
  BY <1>3, <1>4, <1>5

\* The copy of a task has an amount that was agreed on.
LEMMA CopiesStep ==
  ASSUME TypeOK, AmountInv, [Next]_vars
  PROVE  CopiesAgree'
<1> SUFFICES ASSUME NEW t \in Tasks, pc'[t] \in {"recover", "save"}
             PROVE  /\ AmountSound(copy'[t]) /\ copy'[t].state # "None"
                    /\ t \in fresh' =>
                         /\ copy'[t].zero = row'.zero /\ copy'[t].accepted = row'.accepted
                         /\ pc'[t] = "recover" => copy'[t] = row'
  BY DEF CopiesAgree, AmountSound
<1>0. pc \in [Tasks -> PCs] /\ copy \in [Tasks -> Rows] /\ AmountSound(row) /\ CopiesAgree
  BY DEF TypeOK, AmountInv
<1>1. CASE Scan(t) /\ row.state # "None" /\ row' = row
  <2>1. copy'[t] = row
    BY <1>0, <1>1 DEF Scan, Keep
  <2> QED
    BY <1>0, <1>1, <2>1
<1>2. CASE Stays(t)
  <2>1. pc[t] \in {"recover", "save"} /\ copy'[t] = copy[t] /\ pc'[t] = pc[t]
    BY <1>2 DEF Stays
  <2>2. t \in fresh' => row' = row /\ (t \in fresh \/ Scan(t))
    BY FreshFrame
  <2>3. Scan(t) => copy'[t] = row
    BY <1>0 DEF Scan, Keep
  <2> QED
    BY <1>0, <2>1, <2>2, <2>3 DEF CopiesAgree
<1>3. CASE RecoverSwap(t)
  <2>1. PICK r \in Recovered(copy[t], view[t]) : copy' = [copy EXCEPT ![t] = r]
    BY <1>3 DEF RecoverSwap
  <2>2. copy'[t] = r /\ pc[t] = "recover" /\ pc'[t] = "save" /\ fresh' = fresh /\ row' = row /\ copy[t] \in Rows
    BY <1>0, <1>3, <2>1 DEF RecoverSwap, Goto, rowVars
  <2> QED
    BY <1>0, <2>1, <2>2, RecoveredSound DEF CopiesAgree
<1> QED
  BY <1>1, <1>2, <1>3, Arrival DEF Arrives, Quiet

\* The amounts the status handler compares with are those of the row, or were erased since.
LEMMA VerifierStep ==
  ASSUME TypeOK, AmountInv, [Next]_vars
  PROVE  VerifierAgrees'
<1>0. /\ pc \in [Tasks -> PCs] /\ copy \in [Tasks -> Rows] /\ row \in Rows /\ Status \in Tasks
      /\ AmountSound(row) /\ VerifierAgrees /\ NothingBefore
  BY TaskNames DEF TypeOK, AmountInv
<1> DEFINE Looks == {"userMempool", "userConfirmed", "serverMempool"}
           Agrees == /\ server.at # "none"
                     /\ copy[Status].zero = row.zero /\ row.accepted \in {copy[Status].accepted, 0}
                     /\ ~copy[Status].zero => copy[Status].accepted = 0
<1>1. ASSUME NEW c \in Tasks, pc'[c] = "quote"
      PROVE  row'.zero
  <2>1. row.zero /\ row.state # "None"
    <3>1. CASE LockupFailedAmountless
      BY <3>1 DEF LockupFailedAmountless, StatusArrives
    <3>2. CASE Stays(c)
      BY <1>0, <1>1, <3>2 DEF Stays, VerifierAgrees, NothingBefore
    <3>3. CASE row.state = "WaitingFeeAcceptance"
      BY <1>0, <3>3 DEF AmountSound
    <3> QED
      BY <1>1, <3>1, <3>2, <3>3, Arrival DEF Arrives, Quiet
  <2> QED
    BY <2>1, AmountStep
<1>2. ASSUME pc'[Status] \in Looks
      PROVE  Agrees'
  <2>1. CASE \E k \in BOOLEAN : ServerLockupAnnounced(k)
    <3>1. /\ copy'[Status] = [NoRow EXCEPT !.zero = row.zero, !.lockup = row.lockup, !.zeroConf = row.zeroConf,
                                          !.accepted = row.accepted]
          /\ row' = row /\ server' = server /\ server.at # "none"
      BY <1>0, <2>1 DEF ServerLockupAnnounced, Keep, rowVars, chainVars, liquidTxs, Visible
    <3>2. copy'[Status].zero = row.zero /\ copy'[Status].accepted = row.accepted
      BY <3>1 DEF NoRow
    <3> QED
      BY <1>0, <3>1, <3>2 DEF AmountSound
  <2>2. CASE pc[Status] \in Looks /\ copy'[Status] = copy[Status]
    <3>1. Agrees /\ row.state # "None"
      BY <1>0, <2>2 DEF VerifierAgrees, NothingBefore
    <3>2. row'.zero = row.zero /\ row'.accepted \in {row.accepted, 0} /\ server'.at # "none"
      BY <3>1, AmountStep, LockupStep
    <3> QED
      BY <2>2, <3>1, <3>2
  <2> QED
    BY <1>0, <1>2, <2>1, <2>2, Arrival DEF Arrives, Quiet, Stays
<1>3. pc'[Status] \in Looks => Agrees'
  BY <1>2
<1> QED
  BY <1>1, <1>3 DEF VerifierAgrees

\* Every step keeps the amounts sound.
LEMMA AmountInvStep ==
  ASSUME TypeOK, AmountInv, [Next]_vars
  PROVE  AmountInv'
BY AmountStep, LockupStep, NothingBeforeStep, CopiesStep, VerifierStep DEF AmountInv, AmountSound

\* A task comes to a claim by a verification, and only by one.
LEMMA ClaimersStep ==
  ASSUME TypeOK, AmountInv, ClaimersVerified, [Next]_vars
  PROVE  ClaimersVerified'
<1> SUFFICES ASSUME NEW c \in Tasks, pc'[c] \in {"claim", "build", "broadcast"}
             PROVE  Settled
  BY SettledStable DEF ClaimersVerified
<1>1. CASE pc[c] \in {"claim", "build", "broadcast"}
  BY <1>1 DEF ClaimersVerified
<1>2. CASE server.at = "mined"
  BY <1>2 DEF Settled
<1>3. CASE VerifyMempoolLockup /\ server.at # "mined"
  <2>1. PaysEnough(copy[Status]) /\ ~server.rbf /\ pc[Status] = "serverMempool"
    BY <1>3 DEF VerifyMempoolLockup
  <2>2. server.at = "seen" /\ server.value \in Nat /\ row.accepted \in Nat /\ High \in Nat
    BY <1>3, <2>1 DEF AmountInv, VerifierAgrees, TypeOK, Rows, Low, High
  <2>3. copy[Status].zero = row.zero /\ row.accepted \in {copy[Status].accepted, 0}
        /\ (~copy[Status].zero => copy[Status].accepted = 0)
    BY <2>1 DEF AmountInv, VerifierAgrees
  <2> QED
    BY <2>1, <2>2, <2>3 DEF PaysEnough, Settled
<1>4. Arrives(c) \/ Stays(c)
  BY Arrival
<1> QED
  BY <1>1, <1>2, <1>3, <1>4 DEF Arrives, Quiet, Stays, BeginClaim, SetClaimTxId

\* Boltz gets the preimage when a claim tx is built, and only then.
LEMMA RevealedStep ==
  ASSUME TypeOK, ClaimersVerified, [Next]_vars, revealed' # revealed
  PROVE  Settled
BY LiquidFrame, TaskNames DEF BuildFails, SetClaimTxId, ClaimersVerified

LEMMA PreimageInvInit == Init => IInv
<1> SUFFICES ASSUME Init
             PROVE  IInv
  OBVIOUS
<1>1. AmountInv
  BY DEF Init, AmountInv, AmountSound, NothingBefore, CopiesAgree, VerifierAgrees, QuoteBeforeLockup, NoRow, Tasks
<1>2. ClaimersVerified /\ PreimageOnlyForLockup
  BY DEF Init, ClaimersVerified, PreimageOnlyForLockup
<1> QED
  BY <1>1, <1>2, InitType DEF IInv

LEMMA PreimageInvStep ==
  ASSUME IInv, [Next]_vars
  PROVE  IInv'
<1>1. TypeInv /\ TypeOK /\ AmountInv /\ ClaimersVerified /\ PreimageOnlyForLockup
  BY DEF IInv, TypeInv
<1>2. TypeInv' /\ AmountInv' /\ ClaimersVerified'
  BY <1>1, NextType, AmountInvStep, ClaimersStep
<1>3. revealed' => Settled
  BY <1>1, RevealedStep DEF PreimageOnlyForLockup, Settled
<1>4. PreimageOnlyForLockup'
  BY <1>1, <1>3, SettledStable DEF PreimageOnlyForLockup, Settled
<1> QED
  BY <1>2, <1>4 DEF IInv

LEMMA IInvHolds == Spec => []IInv
BY PreimageInvInit, PreimageInvStep, PTL DEF Spec

\* For any calls, txs and restarts, any amount that is paid and whatever Boltz quotes and locks up:
\* Boltz is given the preimage only for a server lockup that is confirmed, or that pays what is due
\* and cannot be replaced. What is due may be accepted, and erased again, while the lockup is
\* verified and claimed; the proof shows that it is not raised any more.
THEOREM PreimageNeedsLockup == Spec => []PreimageOnlyForLockup
<1>1. IInv => PreimageOnlyForLockup
  BY DEF IInv
<1> QED
  BY <1>1, IInvHolds, PTL

-----------------------------------------------------------------------------
(* The claim. *)

Claiming(t) == pc[t] \in {"build", "broadcast"}

\* claiming_swaps: one task at a time is in claim_inner
OneClaimer ==
  \A t \in Tasks : Claiming(t) => claiming /\ \A u \in Tasks : Claiming(u) => u = t

\* Between its compare-and-set and the end of the broadcast a task owns the row's claim
BroadcasterOwnsClaim ==
  \A t \in Tasks : pc[t] = "broadcast" =>
    /\ copy[t].claim \in ClaimTxs /\ row.claim = copy[t].claim
    /\ grace /\ spend.by \notin ClaimTxs

\* The grace period lasts until a claim that was sent can be seen
GraceCoversClaim ==
  /\ spend.by \in ClaimTxs => spend.at # "none" /\ (spend.at \in Visible \/ grace)
  /\ row.state = "None" => spend.by = NoTx

\* A copy that passes the version check does not make the row forget a claim
CopyKeepsClaim ==
  \A t \in fresh :
    /\ pc[t] = "recover" =>
         /\ grace => view[t].recent
         /\ ~view[t].recent /\ ~view[t].claim => spend.by \notin ClaimTxs
    /\ pc[t] = "save" => copy[t].claim = row.claim \/ (~grace /\ spend.by \notin ClaimTxs)

\* The inductive invariant
ClaimInv ==
  IInv /\ OneClaimer /\ BroadcasterOwnsClaim /\ GraceCoversClaim /\ CopyKeepsClaim /\ ClaimNotForgotten

\* The grace period ends by itself only.
LEMMA GraceFrame ==
  ASSUME TypeOK, [Next]_vars, grace
  PROVE  grace' \/ GracePeriodEnds
<1> USE DEF rowVars, UpdateRow
<1>0. \A to, l, s, r : update_swap_info(to, l, s, r) => grace'
  BY DEF update_swap_info
<1>1. CASE CreateReceiveChainSwap \/ UNCHANGED vars
  BY <1>1 DEF CreateReceiveChainSwap, vars
<1>2. CASE StatusStep
  BY <1>0, <1>2 DEF StatusStep, UserLockupAnnounced, StorePayerAmount, ServerLockupAnnounced, VerifyUserLockup,
     VerifyMempoolLockup,
     VerifyConfirmedLockup, LockupFailedAmountless, ValidateAmountlessSwap, ValidateFails, AutoAccepted, SwapFailed,
     MarkFailed, MarkFails
<1>3. ASSUME NEW t \in Calls, CallStep(t) PROVE grace'
  BY <1>0, <1>3 DEF CallStep, AcceptProposedFees, ProposalFails, StoreProposedFees, ProposedFeesAccepted, Refund,
     BroadcastRefund, RefundSent,
     RefundFails, RescanOnchainSwaps
<1>4. ASSUME NEW t \in Calls \cup {Status}, AcceptFails(t) PROVE grace'
  BY <1>4 DEF AcceptFails, EraseAccepted
<1>5. ASSUME NEW t \in {Blocks, Status}, ClaimStep(t) PROVE grace'
  BY <1>5 DEF ClaimStep, VerifyFails, BeginClaim, SetClaimTxId, BuildFails, BroadcastClaim, UnsetClaimTxId
<1>6. CASE BlockStep
  BY <1>6 DEF BlockStep, ListMonitored, NothingMonitored, ClaimIncoming, NoNewBlock, ClaimConfirmedServerLockup
<1>7. ASSUME NEW t \in Calls \cup {Blocks}, RecoveryStep(t) PROVE grace'
  BY <1>7 DEF RecoveryStep, RecoverSwap, RecoveryFails, SaveRecovered
<1>8. CASE Environment
  BY <1>8 DEF Environment, Restart, LiquidBlock, BitcoinBlock, Pay, PayMined, PayMore, RefundVisible,
     RefundMined, BoltzClaims, SweepMined, BoltzLocks, ServerLockupMined, SpendVisible, SpendMined, BoltzRefunds,
     BoltzFailsLockup, BoltzRequotes, BoltzGivesUp
<1> QED
  BY <1>1, <1>2, <1>3, <1>4, <1>5, <1>6, <1>7, <1>8 DEF Next

\* The id leaves claiming_swaps when claim_inner ends, or with the process.
LEMMA ClaimingFrame ==
  ASSUME TypeOK, [Next]_vars, claiming
  PROVE  claiming' \/ Restart \/ (\E t \in {Blocks, Status} : Claiming(t) /\ EndClaim(t))
<1> USE DEF taskVars
<1>1. CASE CreateReceiveChainSwap \/ UNCHANGED vars
  BY <1>1 DEF CreateReceiveChainSwap, vars
<1>2. CASE StatusStep
  BY <1>2 DEF StatusStep, UserLockupAnnounced, StorePayerAmount, ServerLockupAnnounced, VerifyUserLockup,
     VerifyMempoolLockup,
     VerifyConfirmedLockup, LockupFailedAmountless, ValidateAmountlessSwap, ValidateFails, AutoAccepted, SwapFailed,
     MarkFailed, MarkFails
<1>3. ASSUME NEW t \in Calls, CallStep(t) PROVE claiming'
  BY <1>3 DEF CallStep, AcceptProposedFees, ProposalFails, StoreProposedFees, ProposedFeesAccepted, Refund,
     BroadcastRefund, RefundSent,
     RefundFails, RescanOnchainSwaps
<1>4. ASSUME NEW t \in Calls \cup {Status}, AcceptFails(t) PROVE claiming'
  BY <1>4 DEF AcceptFails
<1>5. ASSUME NEW t \in {Blocks, Status}, ClaimStep(t) PROVE claiming' \/ (Claiming(t) /\ EndClaim(t))
  BY <1>5 DEF ClaimStep, VerifyFails, BeginClaim, SetClaimTxId, BuildFails, BroadcastClaim, UnsetClaimTxId, Claiming
<1>6. CASE BlockStep
  BY <1>6 DEF BlockStep, ListMonitored, NothingMonitored, ClaimIncoming, NoNewBlock, ClaimConfirmedServerLockup
<1>7. ASSUME NEW t \in Calls \cup {Blocks}, RecoveryStep(t) PROVE claiming'
  BY <1>7 DEF RecoveryStep, RecoverSwap, RecoveryFails, SaveRecovered
<1>8. CASE Environment
  BY <1>8 DEF Environment, GracePeriodEnds, LiquidBlock, BitcoinBlock, Pay, PayMined, PayMore, RefundVisible,
     RefundMined, BoltzClaims, SweepMined, BoltzLocks, ServerLockupMined, SpendVisible, SpendMined, BoltzRefunds,
     BoltzFailsLockup, BoltzRequotes, BoltzGivesUp
<1> QED
  BY <1>1, <1>2, <1>3, <1>4, <1>5, <1>6, <1>7, <1>8 DEF Next

\* The lock of the claim lets one task through.
LEMMA OneClaimerStep ==
  ASSUME TypeOK, OneClaimer, [Next]_vars
  PROVE  OneClaimer'
<1>0. pc \in [Tasks -> PCs] /\ claiming \in BOOLEAN
  BY DEF TypeOK
<1>1. ASSUME NEW t \in Tasks, Claiming(t)'
      PROVE  Claiming(t) \/ (t \in {Blocks, Status} /\ BeginClaim(t) /\ ~claiming)
  BY <1>1, Arrival DEF Arrives, Quiet, Stays, Claiming, SetClaimTxId
<1>2. ASSUME NEW t \in Tasks, Claiming(t)', NEW u \in Tasks, Claiming(u)'
      PROVE  t = u
  <2>1. CASE Claiming(t) /\ Claiming(u)
    BY <2>1 DEF OneClaimer
  <2>2. CASE BeginClaim(t) /\ BeginClaim(u)
    BY <1>0, <1>2, <2>2 DEF BeginClaim, Leave, Goto, Claiming
  <2> QED
    BY <1>1, <1>2, <2>1, <2>2 DEF OneClaimer
<1>3. ASSUME NEW t \in Tasks, Claiming(t)' PROVE claiming'
  <2>1. CASE BeginClaim(t)
    BY <1>0, <1>3, <2>1 DEF BeginClaim, Leave, Goto, Claiming
  <2>2. CASE Claiming(t)
    <3>1. claiming
      BY <2>2 DEF OneClaimer
    <3>2. ~Restart
      BY <1>3 DEF Restart, Claiming
    <3>3. \A u \in {Blocks, Status} : ~(Claiming(u) /\ EndClaim(u))
      BY <1>0, <1>3, <2>2, TaskNames DEF EndClaim, Leave, Goto, Claiming, OneClaimer
    <3> QED
      BY <3>1, <3>2, <3>3, ClaimingFrame
  <2> QED
    BY <1>1, <1>3, <2>1, <2>2
<1> QED
  BY <1>2, <1>3 DEF OneClaimer, Claiming

\* Without lost answers a claim is sent by a broadcast that says so.
LEMMA ClaimSent ==
  ASSUME TypeOK, ~LostAnswers, [Next]_vars, spend' # spend
  PROVE  \/ \E t \in {Blocks, Status} : BroadcastClaim(t) /\ spend' = [by |-> copy[t].claim, at |-> "sent"]
         \/ spend'.by = spend.by /\ spend.at # "none" /\ spend'.at \in Visible
         \/ spend'.by = ServerRefund /\ server.at # "none"
<1>1. CASE Broadcasts
  BY <1>1 DEF Broadcasts, BroadcastClaim, UnsetClaimTxId, Sent
<1>2. CASE SpendVisible \/ SpendMined \/ BoltzRefunds
  BY <1>2 DEF SpendVisible, SpendMined, BoltzRefunds, TypeOK, Visible
<1> QED
  BY <1>1, <1>2, LiquidFrame

\* The claim of the row, while nothing recovers.
LEMMA ClaimColumn ==
  ASSUME TypeOK, [Next]_vars, row'.claim # row.claim
  PROVE  CreateReceiveChainSwap \/ CopyWritten \/ ClaimWritten
<1>0. row \in Rows
  BY DEF TypeOK
<1>1. AcceptedWritten => row'.claim = row.claim
  BY <1>0 DEF AcceptedWritten, LockupFailedAmountless, ValidateAmountlessSwap, StoreProposedFees, AcceptFails,
     EraseAccepted, update_swap_info, UpdateRow, rowVars, Rows
<1> QED
  BY <1>1, RowFrame DEF Moves

\* The transaction that is about to be broadcast is the one in the row.
LEMMA BroadcasterStep ==
  ASSUME ClaimInv, TypeOK, ~LostAnswers, [Next]_vars
  PROVE  BroadcasterOwnsClaim'
<1> SUFFICES ASSUME NEW t \in Tasks, pc'[t] = "broadcast"
             PROVE  /\ copy'[t].claim \in ClaimTxs /\ row'.claim = copy'[t].claim
                    /\ grace' /\ spend'.by \notin ClaimTxs
  BY DEF BroadcasterOwnsClaim
<1>0. /\ pc \in [Tasks -> PCs] /\ copy \in [Tasks -> Rows] /\ row \in Rows /\ NoTx \notin ClaimTxs
      /\ OneClaimer /\ BroadcasterOwnsClaim /\ CopyKeepsClaim /\ ClaimNotForgotten
  BY TxsAssumption DEF TypeOK, ClaimInv
<1>1. ASSUME NEW k \in ClaimTxs, SetClaimTxId(t, k), row.claim = NoTx
      PROVE  /\ copy'[t].claim \in ClaimTxs /\ row'.claim = copy'[t].claim
             /\ grace' /\ spend'.by \notin ClaimTxs
  <2>1. row' = [row EXCEPT !.claim = k] /\ copy'[t] = [NoRow EXCEPT !.claim = k] /\ grace' /\ spend' = spend
    BY <1>0, <1>1 DEF SetClaimTxId, UpdateRow, Keep, liquidTxs
  <2>2. spend.by \notin ClaimTxs
    BY <1>0, <1>1 DEF ClaimNotForgotten
  <2> QED
    BY <1>0, <2>1, <2>2 DEF Rows, NoRow
<1>2. CASE Stays(t)
  <2>1. /\ pc[t] = "broadcast" /\ copy'[t] = copy[t]
        /\ copy[t].claim \in ClaimTxs /\ row.claim = copy[t].claim /\ grace /\ spend.by \notin ClaimTxs
    BY <1>0, <1>2 DEF Stays, BroadcasterOwnsClaim
  <2>2. \A u \in {Blocks, Status} : Claiming(u) => u = t
    BY <1>0, <2>1, TaskNames DEF OneClaimer, Claiming
  <2>3. \A u \in {Blocks, Status} : ~BroadcastClaim(u) /\ ~UnsetClaimTxId(u) /\ \A k \in ClaimTxs : ~SetClaimTxId(u, k)
    BY <1>0, <2>1, <2>2 DEF BroadcastClaim, UnsetClaimTxId, SetClaimTxId, EndClaim, Leave, Goto, Claiming
  <2>4. row'.claim = row.claim
    <3>1. ~CreateReceiveChainSwap
      BY <2>1 DEF CreateReceiveChainSwap, ClaimInv, IInv, AmountInv, NothingBefore
    <3>2. ~ClaimWritten
      BY <2>3 DEF ClaimWritten
    <3>3. CASE CopyWritten
      BY <1>0, <2>1, <3>3 DEF CopyWritten, SaveRecovered, UpdateRow, CopyKeepsClaim
    <3> QED
      BY <3>1, <3>2, <3>3, ClaimColumn
  <2>5. grace'
    BY <2>1, GraceFrame DEF GracePeriodEnds
  <2>6. spend'.by \notin ClaimTxs
    BY <2>1, <2>3, ClaimSent, TxsAssumption
  <2> QED
    BY <2>1, <2>4, <2>5, <2>6
<1> QED
  BY <1>1, <1>2, Arrival DEF Arrives, Quiet

\* A claim that no scan can see yet is in its grace period.
LEMMA GraceCoversStep ==
  ASSUME ClaimInv, TypeOK, ~LostAnswers, [Next]_vars
  PROVE  GraceCoversClaim'
<1>0. /\ BroadcasterOwnsClaim /\ GraceCoversClaim /\ ClaimNotForgotten /\ AmountInv /\ NothingBefore
      /\ NoTx \notin ClaimTxs /\ ServerRefund \notin ClaimTxs
  BY TxsAssumption DEF ClaimInv, IInv, AmountInv
<1>1. ASSUME spend'.by \in ClaimTxs
      PROVE  spend'.at # "none" /\ (spend'.at \in Visible \/ grace')
  <2>1. CASE spend' = spend
    <3>1. /\ spend.at \in {"sent", "seen", "mined"} /\ row.claim # NoTx
          /\ spend.at \in Visible \/ grace
      BY <1>0, <1>1, <2>1 DEF GraceCoversClaim, ClaimNotForgotten, TypeOK
    <3>2. GracePeriodEnds => spend.at \in Visible
      BY <3>1 DEF GracePeriodEnds, Visible
    <3> QED
      BY <2>1, <3>1, <3>2, GraceFrame
  <2>2. ASSUME NEW t \in {Blocks, Status}, BroadcastClaim(t), spend' = [by |-> copy[t].claim, at |-> "sent"]
        PROVE  spend'.at # "none" /\ grace'
    BY <1>0, <2>2, TaskNames DEF BroadcastClaim, BroadcasterOwnsClaim, rowVars
  <2>3. CASE spend'.by = spend.by /\ spend.at # "none" /\ spend'.at \in Visible
    BY <2>3 DEF Visible
  <2> QED
    BY <1>0, <1>1, <2>1, <2>2, <2>3, ClaimSent
<1>2. ASSUME row'.state = "None"
      PROVE  spend'.by = NoTx
  <2>1. row.state = "None"
    BY <1>0, <1>2, AmountStep
  <2>2. spend.by = NoTx /\ server.at = "none" /\ \A t \in {Blocks, Status} : ~BroadcastClaim(t)
    BY <1>0, <2>1, TaskNames DEF NothingBefore, GraceCoversClaim, BroadcastClaim
  <2> QED
    BY <2>2, ClaimSent
<1> QED
  BY <1>1, <1>2 DEF GraceCoversClaim

\* A copy that will be saved keeps the claim of the row, or its scan saw it.
LEMMA CopyKeepsStep ==
  ASSUME ClaimInv, TypeOK, TypeOK', ~LostAnswers, [Next]_vars
  PROVE  CopyKeepsClaim'
<1> SUFFICES ASSUME NEW t \in fresh'
             PROVE  /\ pc'[t] = "recover" =>
                         /\ grace' => view'[t].recent
                         /\ ~view'[t].recent /\ ~view'[t].claim => spend'.by \notin ClaimTxs
                    /\ pc'[t] = "save" => copy'[t].claim = row'.claim \/ (~grace' /\ spend'.by \notin ClaimTxs)
  BY DEF CopyKeepsClaim
<1>0. /\ t \in Tasks /\ pc \in [Tasks -> PCs] /\ copy \in [Tasks -> Rows] /\ view \in [Tasks -> Views] /\ row \in Rows
      /\ BroadcasterOwnsClaim /\ GraceCoversClaim /\ ClaimNotForgotten /\ CopyKeepsClaim
      /\ ClaimSeenIsThere /\ CopiesAgree
      /\ NoTx \notin ClaimTxs /\ ServerRefund \notin ClaimTxs
  BY TxsAssumption DEF TypeOK, ClaimInv, IInv, TypeInv, AmountInv
<1>1. row' = row /\ (grace' => grace) /\ (t \in fresh \/ (Scan(t) /\ grace' = grace))
  BY FreshFrame
\* Without the grace period no claim is under way
<1>2. ~grace /\ spend.by \notin ClaimTxs => spend'.by \notin ClaimTxs
  BY <1>0, ClaimSent, TaskNames DEF BroadcastClaim, BroadcasterOwnsClaim
<1>3. CASE Scan(t)
  <2>1. /\ pc'[t] = "recover" /\ copy'[t] = row
        /\ view'[t].recent = grace /\ (view'[t].claim <=> spend.by \in ClaimTxs /\ spend.at \in Visible)
    BY <1>0, <1>3 DEF Scan, Keep, Goto
  <2>2. ~grace /\ ~view'[t].claim => spend.by \notin ClaimTxs
    BY <1>0, <2>1 DEF GraceCoversClaim
  <2> QED
    BY <1>1, <1>2, <2>1, <2>2
<1>4. CASE Stays(t) /\ t \in fresh
  BY <1>0, <1>1, <1>2, <1>4 DEF Stays, CopyKeepsClaim
<1>5. CASE RecoverSwap(t) /\ t \in fresh
  <2>1. PICK r \in Recovered(copy[t], view[t]) : copy' = [copy EXCEPT ![t] = r]
    BY <1>5 DEF RecoverSwap
  <2>2. pc[t] = "recover" /\ pc'[t] = "save" /\ copy'[t] = r /\ grace' = grace /\ spend' = spend
    BY <1>0, <1>5, <2>1 DEF RecoverSwap, Goto, rowVars, chainVars, liquidTxs
  <2>3. /\ copy[t] = row
        /\ grace => view[t].recent
        /\ ~view[t].recent /\ ~view[t].claim => spend.by \notin ClaimTxs
    BY <1>0, <1>5, <2>2 DEF CopyKeepsClaim, CopiesAgree
  <2>4. r.claim = row.claim \/ (r.claim = FoundClaim(view[t]) /\ ~(view[t].recent /\ row.claim # NoTx /\ FoundClaim(view[t]) = NoTx))
    <3>1. PICK refundId \in FoundRefunds(FoundClaim(view[t])) :
            r = IF should_skip_recovery(row, view[t].recent, FoundClaim(view[t]), refundId) THEN row
                ELSE [row EXCEPT !.state = derive_partial_state(row, FoundClaim(view[t]), refundId, view[t].expired),
                                 !.lockup = DepositSeen, !.server = FoundServer(view[t]),
                                 !.claim = FoundClaim(view[t]), !.refund = refundId]
      BY <2>1, <2>3 DEF Recovered
    <3> QED
      BY <1>0, <3>1 DEF should_skip_recovery, Rows
  <2>5. CASE view[t].claim
    BY <1>0, <1>1, <2>2, <2>4, <2>5 DEF FoundClaim, ClaimSeenIsThere, ClaimNotForgotten
  <2>6. CASE ~view[t].claim
    BY <1>0, <1>1, <2>2, <2>3, <2>4, <2>6 DEF FoundClaim
  <2> QED
    BY <2>5, <2>6
<1> QED
  BY <1>1, <1>3, <1>4, <1>5, <1>0, Arrival DEF Arrives, Quiet

\* What claimed the lockup stays in the row.
LEMMA ClaimKept ==
  ASSUME ClaimInv, TypeOK, ~LostAnswers, [Next]_vars
  PROVE  ClaimNotForgotten'
<1> SUFFICES ASSUME spend'.by \in ClaimTxs
             PROVE  row'.claim = spend'.by
  BY DEF ClaimNotForgotten
<1>0. /\ copy \in [Tasks -> Rows] /\ row \in Rows /\ NoTx \notin ClaimTxs /\ ServerRefund \notin ClaimTxs
      /\ BroadcasterOwnsClaim /\ GraceCoversClaim /\ ClaimNotForgotten /\ CopyKeepsClaim /\ NothingBefore
  BY TxsAssumption DEF TypeOK, ClaimInv, IInv, AmountInv
<1>1. ASSUME NEW t \in {Blocks, Status}, BroadcastClaim(t), spend' = [by |-> copy[t].claim, at |-> "sent"]
      PROVE  row'.claim = spend'.by
  BY <1>0, <1>1, TaskNames DEF BroadcastClaim, BroadcasterOwnsClaim, rowVars
<1>2. CASE spend'.by = spend.by
  <2>1. row.claim = spend.by /\ spend.by # NoTx
    BY <1>0, <1>2 DEF ClaimNotForgotten
  <2>2. ~CreateReceiveChainSwap
    BY <1>0, <2>1 DEF CreateReceiveChainSwap, GraceCoversClaim
  <2>3. ~ClaimWritten \/ row'.claim = row.claim
    BY <1>0, <1>2, <2>1, TaskNames DEF ClaimWritten, SetClaimTxId, UnsetClaimTxId, BroadcasterOwnsClaim, rowVars
  <2>4. CopyWritten => row'.claim = row.claim
    BY <1>0, <1>2 DEF CopyWritten, SaveRecovered, UpdateRow, CopyKeepsClaim
  <2> QED
    BY <1>2, <2>1, <2>2, <2>3, <2>4, ClaimColumn
<1> QED
  BY <1>0, <1>1, <1>2, ClaimSent

LEMMA ClaimInvInit == Init => ClaimInv
<1> SUFFICES ASSUME Init
             PROVE  ClaimInv
  OBVIOUS
<1>1. OneClaimer /\ BroadcasterOwnsClaim /\ GraceCoversClaim /\ CopyKeepsClaim /\ ClaimNotForgotten
  BY TxsAssumption
  DEF Init, OneClaimer, Claiming, BroadcasterOwnsClaim, GraceCoversClaim, CopyKeepsClaim, ClaimNotForgotten
<1> QED
  BY <1>1, PreimageInvInit DEF ClaimInv

\* Without lost answers, for any calls, txs and restarts: the id of a claim tx that reached the
\* network stays in the row, whatever rescans and recoveries run next to the claim. The version
\* check alone does not give this: a copy that is read while the claim is not yet visible is
\* fresh, and it is the grace period that keeps it from erasing the id.
THEOREM ClaimIsNeverForgotten == ~LostAnswers /\ Spec => []ClaimNotForgotten
<1>1. ASSUME ~LostAnswers, ClaimInv, [Next]_vars
      PROVE  ClaimInv'
  <2>1. IInv' /\ TypeOK /\ TypeOK'
    BY <1>1, PreimageInvStep DEF ClaimInv, IInv, TypeInv
  <2> QED
    BY <1>1, <2>1, OneClaimerStep, BroadcasterStep, GraceCoversStep, CopyKeepsStep, ClaimKept DEF ClaimInv
<1>2. ClaimInv => ClaimNotForgotten
  BY DEF ClaimInv
<1>3. ~LostAnswers => (Spec => []ClaimNotForgotten)
  <2> SUFFICES ASSUME ~LostAnswers
               PROVE  Spec => []ClaimNotForgotten
    OBVIOUS
  <2>1. ClaimInv /\ [Next]_vars => ClaimInv'
    BY <1>1
  <2> QED
    BY <1>2, <2>1, ClaimInvInit, PTL DEF Spec
<1> QED
  BY <1>3

-----------------------------------------------------------------------------
(* What the payment promises. *)

\* The user has the L-BTC for good
Earned == spend.by \in ClaimTxs /\ spend.at = "mined"

\* Boltz locks up for a payment, what it locked up is spent, and by a claim only for the preimage
SpendIsPaidFor ==
  /\ server.at # "none" => DepositSeen
  /\ spend.by # NoTx => server.at # "none"
  /\ spend.by \in ClaimTxs => revealed
  /\ \A t \in Tasks : pc[t] = "broadcast" => revealed

\* No payment is spent by two txs: a refund that another one may replace counts until it is
RefundsDisjoint ==
  \A f \in RefundTxs : refunds[f].at \in {"sent", "seen", "mined"} =>
    /\ refunds[f].of # {}
    /\ "more" \in refunds[f].of => more
    /\ "deposit" \in refunds[f].of => sweep = "none" /\ (refunds[f].at = "mined" => deposit.at = "mined")
    /\ \A g \in RefundTxs \ {f} : refunds[g].at \in {"sent", "seen", "mined"} => refunds[f].of \cap refunds[g].of = {}

\* A timeout that recovery saw has passed
ExpiredSeen == \A t \in Tasks : view[t].expired => IsExpired

\* What is Complete, or would be written as such, has been earned
CompleteIsEarned ==
  /\ row.state = "Complete" => Earned
  /\ \A t \in Tasks : pc[t] \in {"recover", "save"} /\ copy[t].state = "Complete" => Earned

\* A copy of a Complete swap that may still be written makes it Refundable at most, for what is left
CompleteIsKept ==
  \A t \in fresh : row.state = "Complete" =>
    /\ pc[t] = "recover" => view[t].claim
    /\ pc[t] = "save" => copy[t].state = "Complete" \/ (copy[t].state # "Failed" /\ (IsExpired \/ more))

PromiseInv == IInv /\ SpendIsPaidFor /\ RefundsDisjoint /\ ExpiredSeen /\ CompleteIsEarned /\ CompleteIsKept

\* What is over on the chains stays so.
LEMMA ChainsGoOn ==
  ASSUME TypeOK, [Next]_vars
  PROVE  /\ DepositSeen => DepositSeen'
         /\ deposit.at = "mined" => deposit'.at = "mined"
         /\ IsExpired => IsExpired'
         /\ more => more'
<1>1. deposit \in [kind: {"none", "agreed", "unexpected"}, at: {"none", "seen", "mined"}]
  BY DEF TypeOK
<1>2. (DepositSeen => DepositSeen') /\ (deposit.at = "mined" => deposit'.at = "mined")
  BY <1>1, BitcoinFrame DEF DepositSeen, Visible, Pay, PayMined
<1>3. IsExpired => IsExpired'
  BY BitcoinFrame DEF IsExpired, tipVars, LiquidBlock, BitcoinBlock, NextTip
<1>4. more => more'
  BY BitcoinFrame DEF PayMore
<1> QED
  BY <1>2, <1>3, <1>4

\* What is earned stays so: a claim that is confirmed is not replaced.
LEMMA EarnedStable ==
  ASSUME TypeOK, [Next]_vars, Earned
  PROVE  Earned'
BY ClaimSeenStable DEF Earned, Visible

\* Who spends the server lockup.
LEMMA SpendStep ==
  ASSUME TypeOK, [Next]_vars, spend' # spend
  PROVE  \/ \E t \in {Blocks, Status} : (BroadcastClaim(t) \/ UnsetClaimTxId(t)) /\ pc[t] = "broadcast" /\ spend.by = NoTx
                                        /\ spend'.at = "sent" /\ UNCHANGED <<server, revealed, row.state, row.zero, row.accepted>>
         \/ /\ SpendVisible \/ SpendMined \/ BoltzRefunds
            /\ UNCHANGED <<server, revealed, row>>
<1>0. row \in Rows
  BY DEF TypeOK
<1>1. ASSUME NEW t \in {Blocks, Status}, BroadcastClaim(t)
      PROVE  /\ pc[t] = "broadcast" /\ spend.by = NoTx
             /\ spend'.at = "sent" /\ UNCHANGED <<server, revealed, row.state, row.zero, row.accepted>>
  BY <1>1 DEF BroadcastClaim, Sent, rowVars, boltzVars
<1>2. ASSUME NEW t \in {Blocks, Status}, UnsetClaimTxId(t)
      PROVE  /\ pc[t] = "broadcast" /\ spend.by = NoTx
             /\ spend'.at = "sent" /\ UNCHANGED <<server, revealed, row.state, row.zero, row.accepted>>
  BY <1>0, <1>2 DEF UnsetClaimTxId, Sent, UpdateRow, rowVars, boltzVars, Rows
<1>3. SpendVisible \/ SpendMined \/ BoltzRefunds => UNCHANGED <<server, revealed, row>>
  BY DEF SpendVisible, SpendMined, BoltzRefunds, rowVars, boltzVars
<1> QED
  BY <1>1, <1>2, <1>3, LiquidFrame DEF Broadcasts

\* The server lockup is claimed with a revealed preimage, after the deposit was seen.
LEMMA SpendIsPaidForStep ==
  ASSUME PromiseInv, TypeOK, [Next]_vars
  PROVE  SpendIsPaidFor'
<1>0. SpendIsPaidFor /\ ClaimersVerified /\ AmountInv
  BY DEF PromiseInv, IInv
<1>1. server'.at # "none" => DepositSeen'
  <2>1. server'.at # "none" => DepositSeen
    BY <1>0, LiquidFrame DEF SpendIsPaidFor, BoltzLocks, ServerLockupMined
  <2> QED
    BY <2>1, ChainsGoOn
<1>2. server.at # "none" => server'.at # "none"
  BY <1>0, LockupStep
<1>3. revealed => revealed'
  BY LiquidFrame DEF BuildFails, SetClaimTxId
<1>4. (spend'.by # NoTx => server'.at # "none") /\ (spend'.by \in ClaimTxs => revealed')
  <2>1. ASSUME NEW t \in {Blocks, Status}, pc[t] = "broadcast"
        PROVE  server.at # "none" /\ revealed
    BY <1>0, <2>1, TaskNames DEF ClaimersVerified, Settled, SpendIsPaidFor
  <2>2. CASE SpendVisible \/ SpendMined
    BY <1>0, <1>2, <1>3, <2>2 DEF SpendVisible, SpendMined, SpendIsPaidFor, TypeOK
  <2>3. CASE BoltzRefunds
    BY <1>2, <2>3, TxsAssumption DEF BoltzRefunds
  <2>4. CASE spend' = spend
    BY <1>0, <1>2, <1>3, <2>4 DEF SpendIsPaidFor
  <2> QED
    BY <1>2, <1>3, <2>1, <2>2, <2>3, <2>4, SpendStep
<1>5. ASSUME NEW t \in Tasks, pc'[t] = "broadcast"
      PROVE  revealed'
  <2>1. (\E k \in ClaimTxs : SetClaimTxId(t, k)) => revealed'
    BY DEF SetClaimTxId
  <2> QED
    BY <1>0, <1>3, <1>5, <2>1, Arrival DEF Arrives, Quiet, Stays, SpendIsPaidFor
<1> QED
  BY <1>1, <1>4, <1>5 DEF SpendIsPaidFor

\* No payment is spent by two transactions.
LEMMA RefundsStep ==
  ASSUME PromiseInv, TypeOK, [Next]_vars
  PROVE  RefundsDisjoint'
<1> DEFINE Live == {"sent", "seen", "mined"}
<1>0. /\ RefundsDisjoint
      /\ refunds \in [RefundTxs -> [of: SUBSET {"deposit", "more"}, at: {"none", "sent", "seen", "mined", "replaced"}]]
      /\ deposit \in [kind: {"none", "agreed", "unexpected"}, at: {"none", "seen", "mined"}]
      /\ sweep \in {"none", "seen", "mined"}
  BY DEF PromiseInv, TypeOK
<1>1. (more => more') /\ (deposit.at = "mined" => deposit'.at = "mined")
  BY ChainsGoOn
<1>2. \A f \in RefundTxs : refunds[f].at \in Live /\ "deposit" \in refunds[f].of => sweep' = "none"
  BY <1>0, BitcoinFrame DEF RefundsDisjoint, BoltzClaims, SweepMined
\* Txs that go on spend what they spent
<1>3. ASSUME \A f \in RefundTxs : refunds'[f].at \in Live =>
               /\ refunds[f].at \in Live /\ refunds'[f].of = refunds[f].of
               /\ refunds'[f].at = "mined" => refunds[f].at = "mined" \/ "deposit" \notin refunds[f].of \/ deposit.at = "mined"
      PROVE  RefundsDisjoint'
  BY <1>0, <1>1, <1>2, <1>3 DEF RefundsDisjoint
<1>4. CASE UNCHANGED refunds
  BY <1>3, <1>4
<1>5. ASSUME NEW f \in RefundTxs, RefundVisible(f) \/ RefundMined(f)
      PROVE  RefundsDisjoint'
  <2>1. /\ refunds[f].at \in Live /\ refunds'[f].of = refunds[f].of
        /\ RefundMined(f) => "deposit" \notin refunds[f].of \/ deposit.at = "mined"
        /\ RefundVisible(f) => refunds'[f].at = "seen"
        /\ \A g \in RefundTxs \ {f} : refunds'[g] = refunds[g]
    BY <1>0, <1>5 DEF RefundVisible, RefundMined
  <2> QED
    BY <1>3, <1>5, <2>1
<1>6. ASSUME NEW t \in Calls, BroadcastRefund(t)
      PROVE  RefundsDisjoint'
  <2> DEFINE utxos == Unspent \cup (IF deposit.at = "seen" THEN {"deposit"} ELSE {})
  <2>1. /\ utxos # {} /\ (sweep \in Visible => "deposit" \notin utxos)
        /\ more' = more /\ deposit' = deposit /\ sweep' = sweep
    BY <1>6 DEF BroadcastRefund
  <2>2. PICK f \in RefundTxs :
          /\ refunds[f].at = "none"
          /\ refunds' = [g \in RefundTxs |->
                 IF g = f THEN [of |-> utxos, at |-> "sent"]
                 ELSE IF refunds[g].at \in {"sent", "seen"} THEN [refunds[g] EXCEPT !.at = "replaced"]
                 ELSE refunds[g]]
    BY <1>6 DEF BroadcastRefund
  <2>3. ("more" \in utxos => more) /\ utxos \subseteq {"deposit", "more"}
    BY DEF Unspent
  <2>4. ASSUME NEW g \in RefundTxs, refunds[g].at = "mined"
        PROVE  refunds[g].of \cap utxos = {}
    BY <1>0, <2>4 DEF Unspent, RefundsDisjoint
  <2>5. refunds'[f].of = utxos /\ refunds'[f].at = "sent"
    BY <2>2
  <2>6. ASSUME NEW g \in RefundTxs, g # f, refunds'[g].at \in Live
        PROVE  refunds[g].at = "mined" /\ refunds'[g] = refunds[g]
    BY <1>0, <2>2, <2>6
  <2>7. "deposit" \in utxos => sweep = "none"
    BY <1>0, <2>1 DEF Visible
  <2> HIDE DEF utxos
  <2>8. ASSUME NEW g \in RefundTxs, refunds'[g].at \in Live
        PROVE  /\ refunds'[g].of # {}
               /\ "more" \in refunds'[g].of => more'
               /\ "deposit" \in refunds'[g].of => sweep' = "none" /\ (refunds'[g].at = "mined" => deposit'.at = "mined")
    <3>1. CASE g = f
      BY <2>1, <2>3, <2>5, <2>7, <3>1
    <3>2. CASE g # f
      BY <1>0, <1>1, <1>2, <2>6, <2>8, <3>2 DEF RefundsDisjoint
    <3> QED
      BY <3>1, <3>2
  <2>9. ASSUME NEW g \in RefundTxs, NEW h \in RefundTxs \ {g}, refunds'[g].at \in Live, refunds'[h].at \in Live
        PROVE  refunds'[g].of \cap refunds'[h].of = {}
    <3>1. CASE g = f
      BY <2>4, <2>5, <2>6, <2>9, <3>1
    <3>2. CASE h = f
      BY <2>4, <2>5, <2>6, <2>9, <3>2
    <3>3. CASE g # f /\ h # f
      BY <1>0, <2>6, <2>9, <3>3 DEF RefundsDisjoint
    <3> QED
      BY <3>1, <3>2, <3>3
  <2> QED
    BY <2>8, <2>9 DEF RefundsDisjoint
<1> QED
  BY <1>4, <1>5, <1>6, BitcoinFrame

\* A task that saw the timeout pass is right.
LEMMA ExpiredStep ==
  ASSUME TypeOK, ExpiredSeen, [Next]_vars
  PROVE  ExpiredSeen'
<1> SUFFICES ASSUME NEW t \in Tasks, view'[t].expired
             PROVE  IsExpired
  BY ChainsGoOn DEF ExpiredSeen
<1>1. view \in [Tasks -> Views] /\ ~NoView.expired
  BY DEF TypeOK, NoView
<1>2. ASSUME Scan(t) PROVE IsExpired
  <2>1. view'[t].expired <=> IsExpired
    BY <1>1, <1>2 DEF Scan, IsExpired
  <2> QED
    BY <2>1
<1> QED
  BY <1>1, <1>2, ViewStep DEF ExpiredSeen

\* Two txs that spend from the address spend two payments.
LEMMA TwoOutgoing ==
  ASSUME TypeOK, RefundsDisjoint, NEW claimId, claimId # NoTx, NEW id \in FoundRefunds(claimId), id # NoTx
  PROVE  more
<1>0. refunds \in [RefundTxs -> [of: SUBSET {"deposit", "more"}, at: {"none", "sent", "seen", "mined", "replaced"}]]
  BY DEF TypeOK
<1>1. Outgoing # {} /\ Cardinality(Outgoing) # 1
  BY DEF FoundRefunds
<1>2. PICK x \in Outgoing, y \in Outgoing : x # y
  <2>1. PICK x : x \in Outgoing
    BY <1>1
  <2>2. Outgoing # {x}
    BY <1>1, FS_Singleton
  <2> QED
    BY <2>1, <2>2
\* One of them is a refund, and of two refunds not both spend the first payment
<1>3. ASSUME NEW f \in RefundTxs, refunds[f].at \in Visible, "deposit" \notin refunds[f].of
      PROVE  more
  <2>1. refunds[f].of # {} /\ ("more" \in refunds[f].of => more)
    BY <1>3 DEF RefundsDisjoint, Visible
  <2> QED
    BY <1>0, <1>3, <2>1
<1>4. ASSUME NEW f \in Outgoing, NEW g \in Outgoing, f # g, f \in RefundTxs, refunds[f].at \in Visible
      PROVE  more
  <2>1. CASE g \in RefundTxs /\ refunds[g].at \in Visible
    <3>1. refunds[f].of \cap refunds[g].of = {}
      BY <1>4, <2>1 DEF RefundsDisjoint, Visible
    <3> QED
      BY <1>3, <1>4, <2>1, <3>1
  <2>2. CASE sweep \in Visible
    BY <1>3, <1>4, <2>2 DEF RefundsDisjoint, Visible
  <2> QED
    BY <1>4, <2>1, <2>2 DEF Outgoing
<1>5. \A f \in Outgoing : (f \in RefundTxs /\ refunds[f].at \in Visible) \/ f = ServerClaim
  BY DEF Outgoing
<1> QED
  BY <1>2, <1>4, <1>5

\* What recovery makes of a swap: Complete is what was, or what is claimed; and what was Complete
\* and is claimed stays so, unless something is left.
LEMMA RecoveredPromise ==
  ASSUME PromiseInv, TypeOK, NEW t \in Tasks, NEW r \in Recovered(copy[t], view[t])
  PROVE  /\ r.state = "Complete" => copy[t].state = "Complete" \/ Earned
         /\ Earned /\ view[t].claim /\ copy[t].state = "Complete" =>
              r.state = "Complete" \/ (r.state # "Failed" /\ (IsExpired \/ more))
<1> DEFINE s == copy[t]
           v == view[t]
           claimId == FoundClaim(v)
<1>0. /\ s \in Rows /\ v \in Views
      /\ SpendIsPaidFor /\ RefundsDisjoint /\ ExpiredSeen /\ ClaimSeenIsThere /\ NoTx \notin ClaimTxs
  BY TxsAssumption DEF TypeOK, PromiseInv, IInv, TypeInv
<1> HIDE DEF s, v
<1>1. PICK refundId \in FoundRefunds(claimId) :
        r = IF should_skip_recovery(s, v.recent, claimId, refundId) THEN s
            ELSE [s EXCEPT !.state = derive_partial_state(s, claimId, refundId, v.expired),
                           !.lockup = DepositSeen, !.server = FoundServer(v), !.claim = claimId, !.refund = refundId]
  BY DEF Recovered, s, v
<1> DEFINE d == derive_partial_state(s, claimId, refundId, v.expired)
<1>2. r.state = s.state \/ r.state = d
  <2>1. CASE r = s
    BY <2>1
  <2>2. CASE r = [s EXCEPT !.state = d, !.lockup = DepositSeen, !.server = FoundServer(v), !.claim = claimId,
                           !.refund = refundId]
    <3> HIDE DEF d, claimId
    <3> QED
      BY <1>0, <2>2 DEF Rows
  <2> QED
    BY <1>1, <2>1, <2>2
<1>3. claimId # NoTx /\ spend.at = "mined" => Earned
  BY <1>0 DEF FoundClaim, ClaimSeenIsThere, Earned, v
<1>4. d = "Complete" => s.state = "Complete" \/ Earned
  BY <1>3 DEF derive_partial_state
<1>5. ASSUME Earned, v.claim, s.state = "Complete"
      PROVE  d = "Complete" \/ (d # "Failed" /\ (IsExpired \/ more))
  <2>1. claimId # NoTx /\ spend.at = "mined" /\ DepositSeen
    BY <1>0, <1>5 DEF FoundClaim, Earned, SpendIsPaidFor
  <2>2. refundId # NoTx => more
    BY <1>0, <2>1, TwoOutgoing
  <2>3. v.expired => IsExpired
    BY <1>0 DEF ExpiredSeen, v
  <2> HIDE DEF claimId
  <2> QED
    BY <2>1, <2>2, <2>3 DEF derive_partial_state
<1> QED
  BY <1>2, <1>4, <1>5 DEF s, v

\* A swap is Complete when its claim is there.
LEMMA CompleteStep ==
  ASSUME PromiseInv, TypeOK, [Next]_vars
  PROVE  CompleteIsEarned'
<1>0. /\ CompleteIsEarned /\ row \in Rows /\ NothingBefore
      /\ pc \in [Tasks -> PCs] /\ copy \in [Tasks -> Rows]
  BY DEF PromiseInv, IInv, AmountInv, TypeOK
<1>1. ASSUME row'.state = "Complete"
      PROVE  Earned'
  <2>1. CASE row.state = "Complete"
    BY <1>0, <2>1, EarnedStable DEF CompleteIsEarned
  <2>2. CASE CreateReceiveChainSwap
    BY <1>1, <2>2 DEF CreateReceiveChainSwap, UpdateRow, NoRow
  <2>3. CASE CopyWritten
    BY <1>0, <1>1, <2>3, TaskNames, EarnedStable DEF CopyWritten, SaveRecovered, UpdateRow, CompleteIsEarned
  <2>4. CASE ClaimWritten
    BY <1>0, <1>1, <2>1, <2>4 DEF ClaimWritten, SetClaimTxId, UnsetClaimTxId, UpdateRow, rowVars, Rows
  <2>5. CASE AcceptedWritten
    BY <1>0, <1>1, <2>1, <2>5 DEF AcceptedWritten, LockupFailedAmountless, ValidateAmountlessSwap, StoreProposedFees,
       AcceptFails, EraseAccepted, update_swap_info, UpdateRow, rowVars, Rows
  <2>6. CASE Moves
    BY <1>1, <2>1, <2>6 DEF Moves, Allowed
  <2> QED
    BY <2>2, <2>3, <2>4, <2>5, <2>6, RowFrame
<1>2. ASSUME NEW t \in Tasks, pc'[t] \in {"recover", "save"}, copy'[t].state = "Complete"
      PROVE  Earned'
  <2>1. CASE Scan(t)
    <3>1. copy'[t] = row
      BY <1>0, <2>1 DEF Scan, Keep
    <3> QED
      BY <1>0, <1>2, <3>1, EarnedStable DEF CompleteIsEarned
  <2>2. CASE Stays(t)
    BY <1>0, <1>2, <2>2, EarnedStable DEF Stays, CompleteIsEarned
  <2>3. CASE RecoverSwap(t)
    <3>1. PICK r \in Recovered(copy[t], view[t]) : copy'[t] = r
      BY <1>0, <2>3 DEF RecoverSwap
    <3> QED
      BY <1>0, <1>2, <2>3, <3>1, RecoveredPromise, EarnedStable DEF RecoverSwap, CompleteIsEarned
  <2> QED
    BY <1>2, <2>1, <2>2, <2>3, Arrival DEF Arrives, Quiet
<1> QED
  BY <1>1, <1>2 DEF CompleteIsEarned

\* A copy of a Complete row takes Complete back only for what is left to refund.
LEMMA CompleteKeptStep ==
  ASSUME PromiseInv, TypeOK, TypeOK', [Next]_vars
  PROVE  CompleteIsKept'
<1> SUFFICES ASSUME NEW t \in fresh', row'.state = "Complete"
             PROVE  /\ pc'[t] = "recover" => view'[t].claim
                    /\ pc'[t] = "save" => copy'[t].state = "Complete" \/ (copy'[t].state # "Failed" /\ (IsExpired \/ more))
  BY ChainsGoOn DEF CompleteIsKept
<1>0. /\ CompleteIsKept /\ CompleteIsEarned /\ CopiesAgree /\ t \in Tasks
      /\ pc \in [Tasks -> PCs] /\ copy \in [Tasks -> Rows] /\ view \in [Tasks -> Views]
  BY DEF PromiseInv, IInv, AmountInv, TypeOK
<1>1. row.state = "Complete" /\ (t \in fresh \/ Scan(t)) /\ Earned
  BY <1>0, FreshFrame DEF CompleteIsEarned
<1>2. CASE Scan(t)
  <2>1. view'[t].claim <=> spend.by \in ClaimTxs /\ spend.at \in Visible
    BY <1>0, <1>2 DEF Scan
  <2>2. pc'[t] = "recover"
    BY <1>0, <1>2 DEF Scan, Keep, Goto
  <2> QED
    BY <1>1, <2>1, <2>2 DEF Earned, Visible
<1>3. CASE t \in fresh /\ Stays(t)
  BY <1>0, <1>1, <1>3 DEF Stays, CompleteIsKept
<1>4. CASE t \in fresh /\ RecoverSwap(t)
  <2>1. PICK r \in Recovered(copy[t], view[t]) : copy'[t] = r
    BY <1>0, <1>4 DEF RecoverSwap
  <2>2. pc[t] = "recover" /\ pc'[t] = "save"
    BY <1>0, <1>4 DEF RecoverSwap, Goto
  <2>3. view[t].claim /\ copy[t].state = "Complete"
    BY <1>0, <1>1, <1>4, <2>2 DEF CompleteIsKept, CopiesAgree
  <2> QED
    BY <1>0, <1>1, <2>1, <2>2, <2>3, RecoveredPromise
<1> QED
  BY <1>0, <1>1, <1>2, <1>3, <1>4, Arrival DEF Arrives, Quiet

LEMMA PromiseInvInit == Init => PromiseInv
<1> SUFFICES ASSUME Init
             PROVE  PromiseInv
  OBVIOUS
<1>1. SpendIsPaidFor /\ RefundsDisjoint /\ ExpiredSeen /\ CompleteIsEarned /\ CompleteIsKept
  BY TxsAssumption
  DEF Init, SpendIsPaidFor, RefundsDisjoint, ExpiredSeen, CompleteIsEarned, CompleteIsKept, NoRow, NoView
<1> QED
  BY <1>1, PreimageInvInit DEF PromiseInv

LEMMA PromiseInvStep ==
  ASSUME PromiseInv, [Next]_vars
  PROVE  PromiseInv'
<1>1. TypeOK /\ ExpiredSeen /\ IInv
  BY DEF PromiseInv, IInv, TypeInv
<1>2. IInv' /\ TypeOK'
  BY <1>1, PreimageInvStep DEF IInv, TypeInv
<1> QED
  BY <1>1, <1>2, SpendIsPaidForStep, RefundsStep, ExpiredStep, CompleteStep, CompleteKeptStep DEF PromiseInv

\* Nothing else that the promise speaks of changes with the state.
LEMMA StateChanges ==
  ASSUME TypeOK, [Next]_vars, row'.state # row.state
  PROVE  UNCHANGED <<server, spend, revealed>>
<1>0. row \in Rows
  BY DEF TypeOK
<1>1. UNCHANGED server
  BY LiquidFrame DEF BoltzLocks, ServerLockupMined, rowVars
<1>2. UNCHANGED spend
  BY SpendStep
<1>3. UNCHANGED revealed
  BY <1>0, LiquidFrame DEF BuildFails, SetClaimTxId, UpdateRow, rowVars, Rows
<1> QED
  BY <1>1, <1>2, <1>3

\* What is due depends on the row too.
LEMMA DueChanges ==
  ASSUME TypeOK, IInv, [Next]_vars, row'.zero # row.zero \/ row'.accepted # row.accepted
  PROVE  /\ (CreateReceiveChainSwap /\ Settled' = Settled) \/ AcceptedWritten
         /\ UNCHANGED <<server, spend, revealed>>
<1>0. row \in Rows /\ CopiesAgree /\ NothingBefore
  BY DEF TypeOK, IInv, AmountInv
<1>1. ~ClaimWritten
  BY <1>0 DEF ClaimWritten, SetClaimTxId, UnsetClaimTxId, UpdateRow, rowVars, Rows
<1>2. ~CopyWritten
  BY <1>0, TaskNames DEF CopyWritten, SaveRecovered, UpdateRow, CopiesAgree
<1>3. CreateReceiveChainSwap \/ AcceptedWritten
  BY <1>1, <1>2, RowFrame DEF Moves
<1>4. CreateReceiveChainSwap => UNCHANGED <<server, spend, revealed>> /\ Settled' = Settled
  BY <1>0 DEF CreateReceiveChainSwap, NothingBefore, Settled, chainVars, liquidTxs, boltzVars
<1>5. AcceptedWritten => UNCHANGED <<server, spend, revealed>>
  BY DEF AcceptedWritten, LockupFailedAmountless, ValidateAmountlessSwap, StoreProposedFees, AcceptFails,
     BoltzAccepts,
     chainVars, liquidTxs, boltzVars
<1> QED
  BY <1>3, <1>4, <1>5

Shown == CASE row.state = "Complete" -> "complete" [] row.state = "Failed" -> "failed" [] OTHER -> "open"
Left  == IsExpired \/ more \/ pc[Status] = "failed"

\* The steps of the promise.
LEMMA ShownStep ==
  ASSUME PromiseInv, TypeOK, [Next]_vars, Shown' # Shown
  PROVE  /\ Shown = "complete" => Left /\ Shown' = "open"
         /\ Shown' = "complete" => Earned
         /\ UNCHANGED <<revealed, Earned, Settled>>
<1>0. /\ row \in Rows /\ CopiesAgree /\ CompleteIsEarned /\ CompleteIsKept /\ IInv
      /\ row'.state # row.state
  BY DEF PromiseInv, IInv, AmountInv, TypeOK, Shown
<1>1. UNCHANGED <<server, spend, revealed>>
  BY <1>0, StateChanges
<1>2. ~CreateReceiveChainSwap /\ ~ClaimWritten
  BY <1>0 DEF CreateReceiveChainSwap, ClaimWritten, SetClaimTxId, UnsetClaimTxId, UpdateRow, NoRow, rowVars, Rows,
     Shown
<1>3. ~AcceptedWritten
  BY <1>0 DEF AcceptedWritten, LockupFailedAmountless, ValidateAmountlessSwap, StoreProposedFees,
     AcceptFails, EraseAccepted, update_swap_info, UpdateRow, rowVars, Rows, Shown, Accepts, Allowed
<1>4. Shown' = "complete" => Earned
  <2>1. CompleteIsEarned'
    BY CompleteStep
  <2> QED
    BY <1>1, <2>1 DEF Shown, Earned, CompleteIsEarned
<1>5. CASE CopyWritten
  <2>1. PICK t \in Calls \cup {Blocks} : pc[t] = "save" /\ t \in fresh /\ row' = copy[t]
    BY <1>5 DEF CopyWritten, SaveRecovered, UpdateRow
  <2>2. Shown = "complete" => Left /\ Shown' = "open"
    BY <1>0, <2>1 DEF Shown, Left, CompleteIsKept
  <2> QED
    BY <1>1, <1>4, <2>2, <1>0, <1>2, <1>3, DueChanges DEF Earned, Settled
<1>6. CASE Moves
  <2>1. Shown = "complete" => Left /\ Shown' = "open"
    BY <1>0, <1>6 DEF Moves, Shown, Left, Allowed
  <2> QED
    BY <1>1, <1>4, <1>6, <2>1 DEF Moves, Earned, Settled
<1> QED
  BY <1>2, <1>3, <1>5, <1>6, RowFrame

\* This payment implements SwapPromise, for any calls, txs and restarts, whatever the payer and
\* Boltz do, and lost answers too: the preimage is exchanged for a lockup that is due, the payment
\* is Complete when its claim is confirmed, and Complete stays unless there is something to refund.
THEOREM KeepsItsPromise == Spec => KeepsPromise
<1>1. Init => Promise!Init
  BY TxsAssumption DEF Init, Promise!Init, IsExpired, NoRow
<1>2. ASSUME PromiseInv, [Next]_vars
      PROVE  [Promise!Next]_(Promise!vars)
  <2>0. /\ TypeOK /\ IInv /\ SpendIsPaidFor /\ PreimageOnlyForLockup /\ AmountInv /\ ClaimersVerified
        /\ revealed \in BOOLEAN
    BY <1>2 DEF PromiseInv, IInv, TypeInv, TypeOK
  <2>1. Left' \in BOOLEAN
    BY <1>2, PromiseInvStep DEF Left, IsExpired, PromiseInv, IInv, TypeInv, TypeOK
  <2>2. Shown' # Shown =>
           /\ Shown = "complete" => Left /\ Shown' = "open"
           /\ Shown' = "complete" => Earned
           /\ UNCHANGED <<revealed, Earned, Settled>>
    BY <1>2, <2>0, ShownStep
  <2>3. Shown \in {"open", "complete", "failed"} /\ Shown' \in {"open", "complete", "failed"}
    BY DEF Shown
  <2>4. revealed' # revealed => ~revealed /\ revealed' /\ Settled /\ UNCHANGED <<Shown, Settled, Earned>>
    <3>1. revealed' # revealed => ~revealed /\ revealed' /\ Settled
      BY <1>2, <2>0, RevealedStep, LiquidFrame DEF BuildFails, SetClaimTxId
    <3>2. revealed' # revealed => UNCHANGED <<spend, Settled>>
      BY <1>2, <2>0, SettledStable, SpendStep, <3>1 DEF Settled
    <3> QED
      BY <2>2, <3>1, <3>2 DEF Earned
  <2>5. Earned' # Earned => ~Earned /\ Earned' /\ revealed /\ UNCHANGED <<Shown, Settled, revealed>>
    <3>1. ASSUME Earned' # Earned
          PROVE  ~Earned /\ Earned'
      BY <1>2, <2>0, <3>1, EarnedStable DEF Earned
    <3>2. ASSUME Earned' # Earned
          PROVE  spend' # spend /\ spend'.at = "mined"
      BY <3>1, <3>2 DEF Earned
    <3>3. ASSUME Earned' # Earned
          PROVE  spend.by \in ClaimTxs /\ UNCHANGED <<server, revealed, row>>
      <4>1. (SpendVisible \/ SpendMined \/ BoltzRefunds) /\ UNCHANGED <<server, revealed, row>>
        BY <1>2, <2>0, <3>2, <3>3, SpendStep
      <4>2. spend'.by = spend.by
        BY <2>0, <3>2, <3>3, <4>1 DEF SpendVisible, SpendMined, BoltzRefunds, TypeOK
      <4> QED
        BY <3>1, <3>3, <4>1, <4>2 DEF Earned
    <3> QED
      BY <2>0, <3>1, <3>3 DEF SpendIsPaidFor, Settled, Shown
  <2>6. Settled' # Settled => ~revealed /\ UNCHANGED <<Shown, revealed, Earned>>
    <3>1. Settled => Settled'
      BY <1>2, <2>0, SettledStable
    <3> QED
      BY <2>0, <2>2, <2>4, <2>5, <3>1 DEF PreimageOnlyForLockup, Settled
  <2> QED
    BY <2>0, <2>1, <2>2, <2>3, <2>4, <2>5, <2>6
    DEF Promise!Next, Promise!vars, Promise!Offer, Promise!Reveal, Promise!Earn, Promise!Show, Promise!Reopen,
        Shown, Left, Earned, Settled
<1> QED
  BY <1>1, <1>2, PromiseInvInit, PromiseInvStep, PTL DEF Spec, KeepsPromise, Promise!Spec
=============================================================================
