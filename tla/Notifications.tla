--------------------------- MODULE Notifications ---------------------------
(***************************************************************************)
(* How news reaches the wallet and the application: Boltz tells the status *)
(* of the swaps the web socket has subscribed to (status_stream.rs,        *)
(* subscription_handler.rs), one task handles what it tells and tells the  *)
(* listeners what changed (track_swap_updates, emit_payment_updated,       *)
(* event.rs), and a call waits for that (wait_for_payment_with_timeout).   *)
(* Between them are broadcast channels, whose receivers lose the oldest    *)
(* messages when they are slow. The swaps are those of pay_onchain, and    *)
(* the tasks of blocks and rescans write their rows as well: they recover  *)
(* them from the chains, claim and refund. Here each of that is one step;  *)
(* its inner steps are in ChainSendSwap.                                   *)
(***************************************************************************)
EXTENDS Naturals, Sequences, FiniteSets, SequencesExt

CONSTANTS
  Swaps,
  Capacity,   \* of the channels, 30 in the code
  MaxBreaks   \* bound: breaks of the web socket, and steps of the tasks that fail

ASSUME NewsAssumption == IsFiniteSet(Swaps) /\ Capacity \in Nat \ {0} /\ MaxBreaks \in Nat

VARIABLES
  state,      \* [s -> state of its row; "claiming" is Pending with a claim tx, "Refunded" Failed with a lockup tx]
  onchain,    \* [s -> which of the user's lockup, Boltz's, the claim and the refund are broadcast]
  boltzAt,    \* [s -> what Boltz has to say of it]
  socket,     \* the loop of the status stream: sleeping, connecting, open
  requests,   \* the channel of subscriptions
  tracked,    \* swaps that this connection has subscribed to
  unsent,     \* of these, those whose last status Boltz has not sent yet
  updates,    \* the channel of statuses
  payments,   \* the channel of ids of changed swaps
  task,       \* where track_swap_updates is, and with what
  untracked,  \* swaps that were inserted and are not asked for yet
  paused,     \* EventManager.is_paused
  firstSync,  \* the first sync: to do, running, complete
  told,       \* [s -> the state the listeners were told last]
  waiter,     \* the call that waits: for which swap, what it heard, its answer
  breaks,     \* breaks and failures so far
  missed,     \* history: swaps that lost a subscription or a status since the connection was made, or that
              \* recovery made ongoing again since
  unheard     \* history: swaps that lost an event since one was last taken up

rowVars == <<state, onchain>>
boltzVars == <<boltzAt, socket, tracked, unsent>>
taskVars == <<task, paused, firstSync, told>>
newsVars == <<rowVars, boltzVars, requests, updates, payments, untracked, taskVars, waiter, breaks, missed, unheard>>

\* Mutant: the channels have no bound
Kept_All(q) == q

\* A receiver that is behind by more than Capacity messages loses the oldest
Kept(q) == SubSeq(q, (IF Len(q) > Capacity THEN Len(q) - Capacity ELSE 0) + 1, Len(q))
Lost(q) == ToSet(q) \ ToSet(Kept(q))

TaskIdle == [at |-> "select", id |-> "none", news |-> "none"]
NoWaiter == [at |-> "none", id |-> "none", zeroConf |-> FALSE, heard |-> "none", answer |-> "none", paying |-> FALSE]

NewsInit ==
  /\ state = [s \in Swaps |-> "None"] /\ onchain = [s \in Swaps |-> {}] /\ boltzAt = [s \in Swaps |-> "none"]
  /\ socket = "sleeping" /\ tracked = {} /\ unsent = {}
  /\ requests = <<>> /\ updates = <<>> /\ payments = <<>>
  /\ task = TaskIdle /\ untracked = {} /\ paused = FALSE /\ firstSync = "todo"
  /\ told = [s \in Swaps |-> "none"] /\ waiter = NoWaiter
  /\ breaks = 0 /\ missed = {} /\ unheard = {}

Fails == breaks < MaxBreaks /\ breaks' = breaks + 1

-----------------------------------------------------------------------------
(* The rows *)

\* list_ongoing_chain_swaps
Ongoing == {"Created", "Pending", "claiming"}

\* A row that names its lockup is a payment, and has events
Happened == {"Pending", "claiming", "RefundPending", "Refunded", "Complete"}

\* The txs a row in this state names, those of them that were broadcast
Named(st) ==
  CASE st = "Pending"       -> {"lockup"}
    [] st = "claiming"      -> {"lockup", "claim"}
    [] st = "RefundPending" -> {"lockup", "claim", "refund"}
    [] OTHER                -> {}

\* A row changes and its id is sent: update_swap_info, update_swap
UpdateSwap(s, to) ==
  /\ state' = [state EXCEPT ![s] = to]
  /\ payments' = Kept(Append(payments, s))
  /\ unheard' = unheard \cup Lost(Append(payments, s))

\* pay_onchain creates the swap and inserts it
CreateSwap(s) ==
  /\ state[s] = "None"
  /\ state' = [state EXCEPT ![s] = "Created"]
  /\ boltzAt' = [boltzAt EXCEPT ![s] = "created"]
  /\ untracked' = untracked \cup {s}
  /\ UNCHANGED <<onchain, socket, tracked, unsent, requests, updates, payments, taskVars, waiter, breaks, missed, unheard>>

\* track_swap_id, and the wait for the payment, of one of the calls
TrackSwapId(s) ==
  /\ s \in untracked /\ untracked' = untracked \ {s}
  /\ requests' = Kept(Append(requests, s))
  /\ missed' = missed \cup Lost(Append(requests, s))
  /\ \/ UNCHANGED waiter
     \/ /\ waiter.at = "none"
        /\ \E z \in BOOLEAN : waiter' = [NoWaiter EXCEPT !.at = "waiting", !.id = s, !.zeroConf = z]
  /\ UNCHANGED <<rowVars, boltzVars, updates, payments, taskVars, breaks, unheard>>

-----------------------------------------------------------------------------
(* The tasks of blocks and of rescans. The tips pass the timeout of a swap when Boltz gives it up *)

\* get_monitored_swaps_list: the outgoing chain swaps but the Complete and the Failed ones. (Also until their timeout
\* has passed: here a swap may be recovered later, too)
IsMonitored(s) == state[s] \in {"Created", "TimedOut", "Pending", "claiming", "RefundPending"}

\* derive_partial_state, from the txs that are seen: which of them are confirmed is open. No state is derived
\* of a swap that has no lockup and may still get one
derive_partial_state(seen, expired) ==
  CASE "lockup" \notin seen -> IF expired THEN {"Failed"} ELSE {}
    [] seen = {"lockup"} -> IF expired THEN {"RefundPending"} ELSE {"Pending"}
    [] seen = {"lockup", "claim"} -> {"claiming", "Complete"}
    [] seen = {"lockup", "refund"} -> {"RefundPending", "Refunded"}
    [] seen = {"lockup", "claim", "refund"} -> {"claiming", "RefundPending", "Complete"}

\* Recovery sees some of what was broadcast, and what the row names at least (the grace period). The state it derives
\* is stored without validation (update_swap), and the id is sent also when only other columns changed. A swap
\* that was not ongoing and is again has not been asked for
RecoverSwap(s) ==
  /\ IsMonitored(s)
  /\ \E seen \in SUBSET (onchain[s] \ {"server"}), expired \in {FALSE, boltzAt[s] = "expired"} :
       /\ onchain[s] \cap Named(state[s]) \subseteq seen
       /\ \E to \in derive_partial_state(seen, expired) :
            /\ UpdateSwap(s, to)
            /\ missed' = missed \cup IF state[s] \notin Ongoing /\ to \in Ongoing THEN {s} ELSE {}
  /\ UNCHANGED <<onchain, boltzVars, requests, updates, taskVars, untracked, waiter, breaks>>

\* claim_outgoing: a claim that fails leaves the row as it was
ClaimOutgoing(s) ==
  /\ state[s] = "Pending" /\ "server" \in onchain[s]
  /\ UpdateSwap(s, "claiming")
  /\ onchain' = [onchain EXCEPT ![s] = @ \cup {"claim"}]
  /\ UNCHANGED <<boltzVars, requests, updates, taskVars, untracked, waiter, breaks, missed>>

\* refund_outgoing: likewise, of a swap that expired
RefundOutgoing(s) ==
  /\ state[s] \in {"Pending", "claiming", "RefundPending"} /\ boltzAt[s] = "expired" /\ "refund" \notin onchain[s]
  /\ UpdateSwap(s, "RefundPending")
  /\ onchain' = [onchain EXCEPT ![s] = @ \cup {"refund"}]
  /\ UNCHANGED <<boltzVars, requests, updates, taskVars, untracked, waiter, breaks, missed>>

-----------------------------------------------------------------------------
(* The status stream *)

\* request_stream = subscribe(): what the last receiver still had is gone
ResubscribeSwaps ==
  /\ socket = "sleeping" /\ socket' = "connecting" /\ requests' = <<>>
  /\ UNCHANGED <<rowVars, boltzAt, tracked, unsent, updates, payments, untracked, taskVars, waiter, breaks, missed, unheard>>

ConnectFails ==
  /\ socket = "connecting" /\ socket' = "sleeping" /\ Fails
  /\ UNCHANGED <<rowVars, boltzAt, tracked, unsent, requests, updates, payments, untracked, taskVars, waiter, missed, unheard>>

\* Mutant: the swaps that wait for Boltz's lockup only
list_ongoing_swaps_Pending == {s \in Swaps : state[s] = "Pending"}

list_ongoing_swaps == {s \in Swaps : state[s] \in Ongoing}

\* Every ongoing swap is asked for, in the order of the tables, while no request is read
track_subscriptions ==
  \E swaps \in SetToSeqs(list_ongoing_swaps) :
    /\ requests' = Kept(requests \o swaps)
    /\ missed' = Lost(requests \o swaps)

ConnectSocket ==
  /\ socket = "connecting" /\ socket' = "open"
  /\ tracked' = {} /\ unsent' = {}
  /\ track_subscriptions
  /\ UNCHANGED <<rowVars, boltzAt, updates, payments, untracked, taskVars, waiter, breaks, unheard>>

\* A request is sent unless this connection has sent it; Boltz answers with the status
ReceiveRequest ==
  /\ socket = "open" /\ requests # <<>>
  /\ requests' = Tail(requests)
  /\ tracked' = tracked \cup {Head(requests)}
  /\ unsent' = unsent \cup ({Head(requests)} \ tracked)
  /\ UNCHANGED <<rowVars, boltzAt, socket, updates, payments, untracked, taskVars, waiter, breaks, missed, unheard>>

\* An update is received and passed on
ReceiveUpdate(s) ==
  LET sent == Append(updates, [id |-> s, at |-> boltzAt[s]]) IN
  /\ socket = "open" /\ s \in unsent
  /\ unsent' = unsent \ {s}
  /\ updates' = Kept(sent)
  /\ missed' = missed \cup {u.id : u \in Lost(sent)}
  /\ UNCHANGED <<rowVars, boltzAt, socket, requests, tracked, payments, untracked, taskVars, waiter, breaks, unheard>>

StreamBreaks ==
  /\ socket = "open" /\ socket' = "sleeping" /\ Fails
  /\ tracked' = {} /\ unsent' = {}
  /\ UNCHANGED <<rowVars, boltzAt, requests, updates, payments, untracked, taskVars, waiter, missed, unheard>>

\* The lockup of the user may still be sent: swap.created is on its way to the task, or handled
CreatedComes(s) ==
  \/ [id |-> s, at |-> "created"] \in ToSet(updates)
  \/ task.at = "status" /\ task.id = s /\ task.news \in {"created", "lockup", "lockedUp"}

\* Boltz sees the user's lockup, locks up itself, or gives up, which comes long after swap.created
BoltzProceeds(s) ==
  /\ \/ /\ boltzAt[s] = "created" /\ "lockup" \in onchain[s]
        /\ boltzAt' = [boltzAt EXCEPT ![s] = "mempool"] /\ UNCHANGED onchain
     \/ /\ boltzAt[s] = "mempool"
        /\ boltzAt' = [boltzAt EXCEPT ![s] = "locked"]
        /\ onchain' = [onchain EXCEPT ![s] = @ \cup {"server"}]
     \/ /\ boltzAt[s] \in {"created", "mempool", "locked"} /\ "claim" \notin onchain[s] /\ ~CreatedComes(s)
        /\ boltzAt' = [boltzAt EXCEPT ![s] = "expired"] /\ UNCHANGED onchain
  /\ unsent' = unsent \cup ({s} \cap tracked)
  /\ UNCHANGED <<state, socket, requests, tracked, updates, payments, untracked, taskVars, waiter, breaks, missed, unheard>>

-----------------------------------------------------------------------------
(* track_swap_updates: while it handles one thing, nothing else is received *)

TakeUpdate ==
  /\ task.at = "select" /\ updates # <<>>
  /\ updates' = Tail(updates)
  /\ task' = [at |-> "status", id |-> Head(updates).id, news |-> Head(updates).at]
  /\ UNCHANGED <<rowVars, boltzVars, requests, payments, untracked, paused, firstSync, told, waiter, breaks, missed, unheard>>

Handles(news) == task.at = "status" /\ task.news = news

\* Mutant: only a swap that has a lockup is left alone
MayLockUp_TimedOut(s) == state[s] \notin Happened

\* swap.created: unless it timed out or is locked up, the swap is funded
MayLockUp(s) == state[s] # "TimedOut" /\ state[s] \notin Happened

HandleCreated ==
  /\ Handles("created")
  /\ task' = IF MayLockUp(task.id) THEN [task EXCEPT !.news = "lockup"] ELSE TaskIdle
  /\ UNCHANGED <<rowVars, boltzVars, requests, updates, payments, untracked, paused, firstSync, told, waiter, breaks, missed, unheard>>

\* lockup_funds
BroadcastLockup ==
  /\ Handles("lockup")
  /\ task' = [task EXCEPT !.news = "lockedUp"]
  /\ onchain' = [onchain EXCEPT ![task.id] = @ \cup {"lockup"}]
  /\ UNCHANGED <<state, boltzVars, requests, updates, payments, untracked, paused, firstSync, told, waiter, breaks, missed, unheard>>

\* The row after the lockup, or transaction.mempool: refused unless the swap is ongoing, and nothing new when it is Pending
HandleLockup ==
  /\ Handles("lockedUp") \/ Handles("mempool")
  /\ task' = TaskIdle
  /\ IF state[task.id] = "Created" THEN UpdateSwap(task.id, "Pending") ELSE UNCHANGED <<state, payments, unheard>>
  /\ UNCHANGED <<onchain, boltzVars, requests, updates, untracked, paused, firstSync, told, waiter, breaks, missed>>

\* transaction.server.confirmed, or .mempool: refused unless the swap is ongoing, else the row is written, then the
\* swap is claimed
HandleServerLockup ==
  /\ Handles("locked")
  /\ IF state[task.id] \in {"Created", "Pending"}
     THEN UpdateSwap(task.id, "Pending") /\ task' = [task EXCEPT !.news = "claim"]
     ELSE UNCHANGED <<state, payments, unheard>> /\ task' = TaskIdle
  /\ UNCHANGED <<onchain, boltzVars, requests, updates, untracked, paused, firstSync, told, waiter, breaks, missed>>

\* claim, which does not look at the state
HandleClaim ==
  LET s == task.id IN
  /\ Handles("claim") /\ task' = TaskIdle
  /\ IF "claim" \in onchain[s] THEN UNCHANGED <<rowVars, payments, unheard>>
     ELSE /\ UpdateSwap(s, IF state[s] = "Pending" THEN "claiming" ELSE state[s])
          /\ onchain' = [onchain EXCEPT ![s] = @ \cup {"claim"}]
  /\ UNCHANGED <<boltzVars, requests, updates, untracked, paused, firstSync, told, waiter, breaks, missed>>

\* swap.expired and the failures: a swap that is locked up is refunded, now or by the task of blocks
HandleExpired ==
  LET s == task.id IN
  /\ Handles("expired") /\ task' = TaskIdle
  /\ \/ /\ state[s] \in {"Created", "TimedOut"} /\ UpdateSwap(s, "Failed") /\ UNCHANGED onchain
     \/ /\ state[s] \in {"Pending", "claiming", "RefundPending"} /\ "refund" \notin onchain[s]
        /\ \/ UpdateSwap(s, "RefundPending") /\ onchain' = [onchain EXCEPT ![s] = @ \cup {"refund"}]
           \/ /\ IF state[s] # "RefundPending" THEN UpdateSwap(s, "RefundPending") ELSE UNCHANGED <<state, payments, unheard>>
              /\ UNCHANGED onchain
     \/ /\ state[s] \in {"Failed", "Refunded", "Complete"} \/ "refund" \in onchain[s]
        /\ UNCHANGED <<rowVars, payments, unheard>>
  /\ UNCHANGED <<boltzVars, requests, updates, untracked, paused, firstSync, told, waiter, breaks, missed>>

\* It fails, perhaps with the answer of a broadcast that was made: the status is not handled again, unless it is received again
HandleUpdateFails ==
  /\ task.at = "status" /\ task' = TaskIdle /\ Fails
  /\ \/ UNCHANGED onchain
     \/ Handles("lockup") /\ onchain' = [onchain EXCEPT ![task.id] = @ \cup {"lockup"}]
  /\ missed' = missed \cup {task.id}
  /\ UNCHANGED <<state, boltzVars, requests, updates, payments, untracked, paused, firstSync, told, waiter, unheard>>

\* get_payment, and then update_wallet_info. What is told next is the state of now
TakePayment ==
  /\ task.at = "select" /\ payments # <<>>
  /\ payments' = Tail(payments)
  /\ task' = [at |-> "emit", id |-> Head(payments), news |-> state[Head(payments)]]
  /\ unheard' = unheard \ {Head(payments)}
  /\ UNCHANGED <<rowVars, boltzVars, requests, updates, untracked, paused, firstSync, told, waiter, breaks, missed>>

\* What the waiting call makes of an event of its swap: without zero-conf a Pending one is kept
Hear(s, event) ==
  waiter' = IF waiter.at # "waiting" \/ waiter.id # s THEN waiter
            ELSE CASE event = "Complete" -> [waiter EXCEPT !.at = "done", !.answer = event]
                   [] event = "Pending"  -> IF waiter.zeroConf
                                            THEN [waiter EXCEPT !.at = "done", !.answer = event]
                                            ELSE [waiter EXCEPT !.heard = event]
                   [] OTHER -> waiter

\* notify
EmitPaymentUpdated ==
  /\ task.at = "emit" /\ task' = TaskIdle
  /\ IF task.news \in Happened
     THEN IF paused
          THEN unheard' = unheard \cup {task.id} /\ UNCHANGED <<told, waiter>>
          ELSE told' = [told EXCEPT ![task.id] = task.news] /\ Hear(task.id, task.news) /\ UNCHANGED unheard
     ELSE UNCHANGED <<told, waiter, unheard>>
  /\ UNCHANGED <<rowVars, boltzVars, requests, updates, payments, untracked, paused, firstSync, breaks, missed>>

EmitFails ==
  /\ task.at = "emit" /\ task' = TaskIdle /\ Fails
  /\ unheard' = unheard \cup {task.id}
  /\ UNCHANGED <<rowVars, boltzVars, requests, updates, payments, untracked, paused, firstSync, told, waiter, missed>>

-----------------------------------------------------------------------------

\* The user's lockup is out, or is about to be
IsPaying(s) ==
  "lockup" \in onchain[s] \/ (task.at = "status" /\ task.id = s /\ task.news \in {"lockup", "lockedUp"})

\* wait_for_payment_with_timeout: what was heard is the answer, else the swap times out, if it can, else the answer
\* is what get_payment finds
WaitTimesOut ==
  LET s == waiter.id
      answers(a) == waiter' = [waiter EXCEPT !.at = "done", !.answer = a, !.paying = IsPaying(s)]
  IN
  /\ waiter.at = "waiting"
  /\ CASE waiter.heard # "none" -> answers(waiter.heard) /\ UNCHANGED <<state, payments, unheard>>
       [] waiter.heard = "none" /\ state[s] = "Created" -> answers("PaymentTimeout") /\ UpdateSwap(s, "TimedOut")
       [] OTHER -> /\ answers(IF state[s] \in Happened THEN state[s] ELSE "not found")
                   /\ UNCHANGED <<state, payments, unheard>>
  /\ UNCHANGED <<onchain, boltzVars, requests, updates, untracked, taskVars, breaks, missed>>

\* sync_inner: the first sync pauses the events, and resumes them only if it succeeds
FirstSync ==
  /\ \/ firstSync = "todo" /\ firstSync' = "running" /\ paused' = TRUE /\ UNCHANGED breaks
     \/ firstSync = "running" /\ firstSync' = "complete" /\ paused' = FALSE /\ UNCHANGED breaks
     \/ firstSync = "running" /\ firstSync' = "todo" /\ Fails /\ UNCHANGED paused
  /\ UNCHANGED <<rowVars, boltzVars, requests, updates, payments, untracked, task, told, waiter, missed, unheard>>

NewsNext ==
  \/ \E s \in Swaps : CreateSwap(s) \/ TrackSwapId(s) \/ RecoverSwap(s) \/ ClaimOutgoing(s) \/ RefundOutgoing(s)
                       \/ ReceiveUpdate(s) \/ BoltzProceeds(s)
  \/ ResubscribeSwaps \/ ConnectFails \/ ConnectSocket \/ ReceiveRequest \/ StreamBreaks
  \/ TakeUpdate \/ HandleCreated \/ BroadcastLockup \/ HandleLockup \/ HandleServerLockup \/ HandleClaim
  \/ HandleExpired \/ HandleUpdateFails \/ TakePayment \/ EmitPaymentUpdated \/ EmitFails
  \/ WaitTimesOut \/ FirstSync

NewsSpec == NewsInit /\ [][NewsNext]_newsVars

-----------------------------------------------------------------------------

States == {"None", "Created", "TimedOut", "Failed"} \cup Happened
Statuses == {"none", "created", "mempool", "locked", "expired"}
NewsTypeOK ==
  /\ state \in [Swaps -> States] /\ boltzAt \in [Swaps -> Statuses]
  /\ onchain \in [Swaps -> SUBSET {"lockup", "server", "claim", "refund"}]
  /\ socket \in {"sleeping", "connecting", "open"} /\ unsent \subseteq tracked /\ tracked \subseteq Swaps
  /\ \A q \in {requests, updates, payments} : Len(q) <= Capacity
  /\ untracked \subseteq Swaps /\ missed \subseteq Swaps /\ unheard \subseteq Swaps /\ breaks \in 0..MaxBreaks
  /\ told \in [Swaps -> States \cup {"none"}]
  /\ task.at \in {"select", "status", "emit"} /\ waiter.at \in {"none", "waiting", "done"}

AtRest == socket = "open" /\ unsent = {} /\ untracked = {} /\ requests = <<>> /\ updates = <<>> /\ payments = <<>> /\ task = TaskIdle

\* A swap in this state needs nothing more of what Boltz said of it
Settled(s) ==
  CASE boltzAt[s] \in {"created", "mempool"} -> state[s] # "Created"
    [] boltzAt[s] = "locked"  -> state[s] \notin {"Created", "Pending"}
    [] boltzAt[s] = "expired" -> state[s] \notin Ongoing \/ "refund" \in onchain[s]
    [] OTHER -> TRUE

\* Once nothing is on its way, every ongoing swap is subscribed to and what Boltz said of it is handled, unless this
\* connection lost that, or recovery made the swap ongoing again since it was made: the next one makes up for both.
\* And the last event of the listeners is of the state of the swap, unless one was lost since: the next one makes up
\* for that. So it is however the socket broke and whatever recovery, the claims and the refunds wrote meanwhile.
NewsArrives ==
  AtRest =>
    \A s \in Swaps :
      /\ s \notin missed => Settled(s) /\ (s \in list_ongoing_swaps => s \in tracked)
      /\ s \notin unheard => (state[s] \in Happened => told[s] = state[s])

\* When a call answers PaymentTimeout and the lockup was neither out nor about to be sent, it is never sent: the swap
\* stays TimedOut, or fails, whatever status, recovery or block comes after. And a call that answers with a payment does
\* not say more than the row and the chains (wait_for_payment_with_timeout).
AnswerIsTrue ==
  waiter.at = "done" =>
    LET s == waiter.id IN
    CASE waiter.answer = "PaymentTimeout" ->
           waiter.paying \/ (state[s] \in {"TimedOut", "Failed"} /\ "lockup" \notin onchain[s])
      [] waiter.answer = "not found" -> state[s] = "Failed"
      [] waiter.answer \in {"Complete", "Refunded"} -> state[s] = waiter.answer /\ "lockup" \in onchain[s]
      [] OTHER -> state[s] \in Happened /\ "lockup" \in onchain[s]
=============================================================================
