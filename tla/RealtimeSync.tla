---------------------------- MODULE RealtimeSync ----------------------------
(***************************************************************************)
(* Real-time sync (sync/mod.rs, persist/sync.rs): the instances of one      *)
(* wallet push their records to a server and pull those of the others. A   *)
(* record is what an instance knows that the chain does not tell: here, the *)
(* set of the synced fields that are set, and for the last derivation index *)
(* the indexes used so far. Fields are only ever set, so that one that is  *)
(* missing later was lost.                                                 *)
(***************************************************************************)
EXTENDS Naturals, FiniteSets, FiniteSetsExt

CONSTANTS
  Instances,      \* of the wallet, each with its database
  MaxIndex,       \* bound: derivation indexes 1..MaxIndex
  MaxFailedPush,  \* MAX_FAILED_PUSH, smaller
  MaxEvents       \* bound: updates of records, failed calls and restarts, in all

ASSUME SyncAssumption == MaxFailedPush \in Nat

\* A record for each type that is merged in its own way; receive swaps are never merged, bolt12
\* offers are merged as chain swaps are
Records == {"chain", "send", "details", "index"}
SwapRecords == {"chain", "send"}
Fields ==
  [r \in Records |-> CASE r = "chain"   -> {"accept_zero_conf", "accepted_receiver_amount_sat", "auto_accepted_fees"}
                       [] r = "send"    -> {"preimage"}
                       [] r = "details" -> {"lnurl_info", "payer_note"}
                       [] r = "index"   -> 1..MaxIndex]
\* A pulled chain swap is written without auto_accepted_fees (insert_or_update_chain_swap_inner)
Stored(r) == IF r = "chain" THEN Fields[r] \ {"auto_accepted_fees"} ELSE Fields[r]

VARIABLES
  remote,     \* what the server holds of each record: its revision (0: none) and data
  revision,   \* the server's last revision
  exists,     \* [i -> records in the tables]
  rows,       \* [i -> [r -> its data there]]
  queued,     \* [i -> records in sync_outgoing]
  fields,     \* [i -> [r -> updated_fields_json there; NoFields when it is NULL]]
  known,      \* [i -> [r -> sync_state.record_revision]]
  latest,     \* [i -> latest_revision of sync_settings]
  incoming,   \* [i -> [r -> what sync_incoming holds]]
  at,         \* [i -> where the event loop awaits]
  batch,      \* [i -> the records decrypted and merged, to be committed]
  changed,    \* [i -> records changed here since: the row's version, or commit_time in a later second]
  pushing,    \* [i -> the push: records to do, the one that is sent, those done, those that conflicted, and failed]
  failed,     \* [i -> failed_push_counter]
  trigger,    \* [i -> a message on the local sync trigger]
  notice,     \* [i -> a notification of another instance's push]
  events,     \* the updates, failures and restarts so far, which are bounded
  completed,  \* history: [i -> the last event loop sent SyncedCompleted]
  forgotten   \* history: [i -> records whose queued change was dropped before it was pushed]

stores == <<exists, rows, queued, fields, known, latest, incoming>>
server == <<remote, revision, notice>>
syncLoop == <<at, batch, changed, pushing, failed>>
syncVars == <<stores, server, syncLoop, trigger, events, completed, forgotten>>

-----------------------------------------------------------------------------

NoFields == {"NULL"}
Nothing == [rev |-> 0, data |-> {}]
NoBatch == [r \in Records |-> [rev |-> 0, data |-> {}, checked |-> FALSE]]
NoPush == [todo |-> {}, sent |-> "none", rev |-> 0, data |-> {}, done |-> {}, renewed |-> {}, conflicts |-> {}, errors |-> {}]

SyncInit ==
  /\ remote = [r \in Records |-> Nothing] /\ revision = 0
  /\ exists = [i \in Instances |-> {}]
  /\ rows = [i \in Instances |-> [r \in Records |-> {}]]
  /\ queued = [i \in Instances |-> {}]
  /\ fields = [i \in Instances |-> [r \in Records |-> {}]]
  /\ known = [i \in Instances |-> [r \in Records |-> 0]]
  /\ latest = [i \in Instances |-> 0]
  /\ incoming = [i \in Instances |-> [r \in Records |-> Nothing]]
  /\ at = [i \in Instances |-> "select"]
  /\ batch = [i \in Instances |-> NoBatch]
  /\ changed = [i \in Instances |-> {}]
  /\ pushing = [i \in Instances |-> NoPush]
  /\ failed = [i \in Instances |-> 0]
  /\ trigger = [i \in Instances |-> FALSE]
  /\ notice = [i \in Instances |-> FALSE]
  /\ events = 0
  /\ completed = [i \in Instances |-> TRUE]
  /\ forgotten = [i \in Instances |-> {}]

-----------------------------------------------------------------------------
Event == events < MaxEvents /\ events' = events + 1

(* Local changes *)

\* commit_outgoing: a list of fields is added to the queued one, NULL replaces it. `later`: in a later
\* second than the change that was queued when the record was decrypted
commit_outgoing(i, r, list, later) ==
  /\ queued' = [queued EXCEPT ![i] = @ \cup {r}]
  /\ fields' = [fields EXCEPT ![i][r] = IF list = NoFields THEN NoFields ELSE (@ \ NoFields) \cup list]
  /\ changed' = [changed EXCEPT ![i] = IF later \/ r \in SwapRecords THEN @ \cup {r} ELSE @]
  /\ trigger' = [trigger EXCEPT ![i] = TRUE]

\* The list a write of field f of record r queues
UpdatedFields(r, f) ==
  CASE r = "details" -> NoFields                   \* insert_or_update_payment_details
    [] r = "index"   -> {"last-derivation-index"}  \* set_last_derivation_index_inner
    [] OTHER         -> {f}

\* A swap, or the details of a payment, or the first derivation index, are inserted
Insert(i, r) ==
  /\ r \notin exists[i]
  /\ r \in SwapRecords => remote[r].rev = 0 /\ \A j \in Instances : r \notin exists[j]
  /\ exists' = [exists EXCEPT ![i] = @ \cup {r}]
  /\ \E later \in BOOLEAN : commit_outgoing(i, r, IF r = "index" THEN UpdatedFields(r, 0) ELSE NoFields, later)
  /\ UNCHANGED <<rows, known, latest, incoming, server, at, batch, pushing, failed, events, completed, forgotten>>

\* update_chain_swap_accept_zero_conf, try_handle_send_swap_update with a preimage, ..., next_derivation_index
SetField(i, r, f) ==
  /\ r \in exists[i] /\ f \in Fields[r] \ rows[i][r]
  /\ Event
  /\ r = "index" => f = Cardinality(rows[i][r]) + 1
  /\ rows' = [rows EXCEPT ![i][r] = @ \cup {f}]
  /\ \E later \in BOOLEAN : commit_outgoing(i, r, UpdatedFields(r, f), later)
  /\ pushing' = [pushing EXCEPT ![i].renewed = IF r \in pushing[i].done \cup {pushing[i].sent} THEN @ \cup {r} ELSE @]
  /\ UNCHANGED <<exists, known, latest, incoming, server, at, batch, failed, completed, forgotten>>

\* try_handle_send_swap_update of the state alone queues NULL, and so forgets that the preimage is news
UpdateSendSwap(i) ==
  /\ "send" \in exists[i] /\ Event
  /\ commit_outgoing(i, "send", NoFields, TRUE)
  /\ forgotten' = [forgotten EXCEPT ![i] = IF fields[i]["send"] \notin {{}, NoFields} THEN @ \cup {"send"} ELSE @]
  /\ UNCHANGED <<exists, rows, known, latest, incoming, server, at, batch, pushing, failed, completed>>

-----------------------------------------------------------------------------
(* run_event_loop *)

\* The loop wakes up; after too many conflicts it wipes the sync tables and queues every swap as a whole
reset_sync(i) ==
  /\ queued' = [queued EXCEPT ![i] = exists[i] \cap SwapRecords]
  /\ fields' = [fields EXCEPT ![i] = [r \in Records |-> IF r \in exists[i] \cap SwapRecords THEN NoFields ELSE {}]]
  /\ known' = [known EXCEPT ![i] = [r \in Records |-> 0]]
  /\ incoming' = [incoming EXCEPT ![i] = [r \in Records |-> Nothing]]
  /\ forgotten' = [forgotten EXCEPT ![i] = @ \cup queued[i]]

RunEventLoop(i) ==
  /\ at[i] = "select"
  /\ \/ trigger[i] /\ trigger' = [trigger EXCEPT ![i] = FALSE] /\ UNCHANGED notice
     \/ notice[i] /\ notice' = [notice EXCEPT ![i] = FALSE] /\ UNCHANGED trigger
  /\ at' = [at EXCEPT ![i] = "pull"]
  /\ completed' = [completed EXCEPT ![i] = FALSE]
  /\ IF failed[i] > MaxFailedPush
     THEN reset_sync(i) /\ failed' = [failed EXCEPT ![i] = 0]
     ELSE UNCHANGED <<queued, fields, known, incoming, forgotten, failed>>
  /\ UNCHANGED <<exists, rows, latest, remote, revision, batch, changed, pushing, events>>

PullFails(i) ==
  /\ at[i] = "pull" /\ Event
  /\ at' = [at EXCEPT ![i] = "select"]
  /\ UNCHANGED <<stores, server, batch, changed, pushing, failed, trigger, completed, forgotten>>

\* Mutant: what is queued is not merged
merge_Theirs(r, theirs, ours, list) == theirs

\* merge: the fields changed here win over those of the record; nothing is merged into a record that is
\* queued as a whole, and the larger derivation index wins
merge(r, theirs, ours, list) ==
  CASE list = NoFields -> theirs
    [] r = "index"     -> theirs \cup ours
    [] OTHER           -> (theirs \ list) \cup (ours \cap list)

\* handle_decryption: what a record that is new here becomes, and whether its queued change has a commit_time
handle_decryption(i, r, rec) ==
  [rev     |-> rec.rev,
   data    |-> IF r \in queued[i] THEN merge(r, rec.data, rows[i][r], fields[i][r]) ELSE rec.data,
   checked |-> r \in queued[i]]

\* What is written: COALESCE keeps the details that the record does not have, a swap keeps what is not stored
Written(i, r, data) ==
  CASE r = "details" -> rows[i][r] \cup data
    [] r = "index"   -> data
    [] OTHER         -> (data \cap Stored(r)) \cup (rows[i][r] \ Stored(r))

\* The records the server sends for the latest revision known here
News(i) == {r \in Records : remote[r].rev > latest[i]}

\* fetch_and_save_records, then steps 2 to 5 of pull: the answer of the server is saved and decrypted, and
\* the derivation index committed
PullAnswered(i) ==
  /\ at[i] = "pull"
  /\ LET saved == [r \in Records |-> IF r \in News(i) THEN remote[r] ELSE incoming[i][r]]
         new == {r \in Records : saved[r].rev > known[i][r]}
         decrypted == [r \in Records |-> IF r \in new THEN handle_decryption(i, r, saved[r]) ELSE NoBatch[r]]
     IN /\ latest' = [latest EXCEPT ![i] = IF News(i) = {} THEN @ ELSE Max({remote[r].rev : r \in News(i)})]
        \* records that are not newer, and the index, are cleaned up at the end of the pull
        /\ incoming' = [incoming EXCEPT ![i] = [r \in Records |-> IF r \in new THEN saved[r] ELSE Nothing]]
        /\ batch' = [batch EXCEPT ![i] = [decrypted EXCEPT !["index"] = NoBatch["index"]]]
        /\ IF "index" \in new
           THEN /\ rows' = [rows EXCEPT ![i]["index"] = Written(i, "index", decrypted["index"].data)]
                /\ exists' = [exists EXCEPT ![i] = @ \cup {"index"}]
                /\ known' = [known EXCEPT ![i]["index"] = decrypted["index"].rev]
           ELSE UNCHANGED <<rows, exists, known>>
  /\ changed' = [changed EXCEPT ![i] = {}]
  /\ at' = [at EXCEPT ![i] = "recover"]
  /\ UNCHANGED <<queued, fields, server, pushing, failed, trigger, events, completed, forgotten>>

RecoveryFails(i) ==
  /\ at[i] = "recover" /\ Event
  /\ at' = [at EXCEPT ![i] = "select"]
  /\ batch' = [batch EXCEPT ![i] = NoBatch]
  /\ UNCHANGED <<stores, server, changed, pushing, failed, trigger, completed, forgotten>>

\* Fails when the queued change that was merged was followed by another, in a later second
check_commit_update(i, r) == batch[i][r].checked => r \notin changed[i]

\* Nor is a swap written whose row has another version than when the record was decrypted
commit_incoming_swap(i, r) == check_commit_update(i, r) /\ r \notin changed[i]

Committable(i, r) ==
  batch[i][r].rev > 0 /\ IF r \in SwapRecords THEN commit_incoming_swap(i, r) ELSE check_commit_update(i, r)

\* Steps 6 to 8 of pull, and the list of what is to be pushed; without any, the loop is done
Commit(i) ==
  /\ at[i] = "recover"
  /\ LET ok == {r \in Records : Committable(i, r)}
     IN /\ exists' = [exists EXCEPT ![i] = @ \cup ok]
        /\ rows' = [rows EXCEPT ![i] = [r \in Records |-> IF r \in ok THEN Written(i, r, batch[i][r].data) ELSE @[r]]]
        /\ known' = [known EXCEPT ![i] = [r \in Records |-> IF r \in ok THEN batch[i][r].rev ELSE @[r]]]
        /\ incoming' = [incoming EXCEPT ![i] = [r \in Records |-> IF r \in ok THEN Nothing ELSE @[r]]]
  /\ batch' = [batch EXCEPT ![i] = NoBatch]
  /\ changed' = [changed EXCEPT ![i] = {}]
  /\ at' = [at EXCEPT ![i] = "push"]
  /\ pushing' = [pushing EXCEPT ![i].todo = queued[i]]
  /\ UNCHANGED <<queued, fields, latest, server, failed, trigger, events, completed, forgotten>>

\* handle_push: the record as it is now, based on the revision it was last seen with
SendRecord(i, r) ==
  /\ at[i] = "push" /\ pushing[i].sent = "none" /\ r \in pushing[i].todo
  /\ pushing' = [pushing EXCEPT ![i].todo = @ \ {r}, ![i].sent = r, ![i].rev = known[i][r], ![i].data = rows[i][r]]
  /\ UNCHANGED <<stores, server, at, batch, changed, failed, trigger, events, completed, forgotten>>

\* The server takes a record that is based on its own
SetRecord(i, r) ==
  /\ pushing[i].rev = remote[r].rev
  /\ revision' = revision + 1
  /\ remote' = [remote EXCEPT ![r] = [rev |-> revision + 1, data |-> pushing[i].data]]
  /\ notice' = [j \in Instances |-> notice[j] \/ j # i]

PushAccepted(i) ==
  LET r == pushing[i].sent IN
  /\ r # "none" /\ SetRecord(i, r)
  /\ known' = [known EXCEPT ![i][r] = revision + 1]
  /\ pushing' = [pushing EXCEPT ![i].sent = "none", ![i].done = @ \cup {r}]
  /\ UNCHANGED <<exists, rows, queued, fields, latest, incoming, at, batch, changed, failed, trigger, events, completed, forgotten>>

PushConflicts(i) ==
  LET r == pushing[i].sent IN
  /\ r # "none" /\ pushing[i].rev # remote[r].rev
  /\ pushing' = [pushing EXCEPT ![i].sent = "none", ![i].conflicts = @ \cup {r}]
  /\ UNCHANGED <<stores, server, at, batch, changed, failed, trigger, events, completed, forgotten>>

\* The push, or only its answer, is lost
PushFails(i) ==
  LET r == pushing[i].sent IN
  /\ r # "none" /\ Event
  /\ SetRecord(i, r) \/ UNCHANGED server
  /\ pushing' = [pushing EXCEPT ![i].sent = "none", ![i].errors = @ \cup {r}]
  /\ UNCHANGED <<stores, at, batch, changed, failed, trigger, completed, forgotten>>

\* Mutant: what was sent leaves the queue, whatever the answer
Pushed_Sent(p) == p.done \cup p.conflicts \cup p.errors

\* What leaves the queue
Pushed(p) == p.done

\* The rest of push: what was pushed leaves the queue, whatever was queued meanwhile
FinishPush(i) ==
  LET p == pushing[i] IN
  /\ at[i] = "push" /\ p.todo = {} /\ p.sent = "none"
  /\ queued' = [queued EXCEPT ![i] = @ \ Pushed(p)]
  /\ fields' = [fields EXCEPT ![i] = [r \in Records |-> IF r \in Pushed(p) THEN {} ELSE @[r]]]
  /\ forgotten' = [forgotten EXCEPT ![i] = @ \cup (p.renewed \cap p.done)]
  /\ failed' = [failed EXCEPT ![i] = IF p.conflicts # {} THEN @ + 1 ELSE 0]
  /\ completed' = [completed EXCEPT ![i] = p.conflicts = {}]
  /\ pushing' = [pushing EXCEPT ![i] = NoPush]
  /\ at' = [at EXCEPT ![i] = "select"]
  /\ UNCHANGED <<exists, rows, known, latest, incoming, server, batch, changed, trigger, events>>

-----------------------------------------------------------------------------

LoopIdle(i) ==
  /\ at' = [at EXCEPT ![i] = "select"]
  /\ batch' = [batch EXCEPT ![i] = NoBatch]
  /\ pushing' = [pushing EXCEPT ![i] = NoPush]
  /\ failed' = [failed EXCEPT ![i] = 0]
  /\ notice' = [notice EXCEPT ![i] = FALSE]
  /\ completed' = [completed EXCEPT ![i] = FALSE]

\* The process stops at any await; start() waits for a trigger or a notification
Restart(i) ==
  /\ Event
  /\ LoopIdle(i)
  /\ trigger' = [trigger EXCEPT ![i] = FALSE]
  /\ UNCHANGED <<stores, remote, revision, changed, forgotten>>

\* The stream of notifications breaks, and one is missed before the next new_listener
ListenerBreaks(i) ==
  /\ at[i] = "select" /\ Event /\ LoopIdle(i)
  /\ UNCHANGED <<stores, remote, revision, changed, trigger, forgotten>>

SyncNext ==
  \E i \in Instances :
    \/ \E r \in Records :
         \/ Insert(i, r) \/ SendRecord(i, r)
         \/ \E f \in Fields[r] : SetField(i, r, f)
    \/ UpdateSendSwap(i)
    \/ RunEventLoop(i) \/ PullFails(i) \/ PullAnswered(i) \/ RecoveryFails(i) \/ Commit(i)
    \/ PushAccepted(i) \/ PushConflicts(i) \/ PushFails(i) \/ FinishPush(i)
    \/ Restart(i) \/ ListenerBreaks(i)

SyncSpec == SyncInit /\ [][SyncNext]_syncVars

-----------------------------------------------------------------------------

Data(r) == SUBSET Fields[r]
SyncTypeOK ==
  /\ \A r \in Records : remote[r].rev \in 0..revision /\ remote[r].data \in Data(r)
  /\ \A i \in Instances :
       /\ exists[i] \subseteq Records /\ queued[i] \subseteq exists[i]
       /\ \A r \in Records :
            /\ rows[i][r] \in Data(r) /\ (r \notin exists[i] => rows[i][r] = {})
            /\ known[i][r] \in 0..remote[r].rev
            /\ incoming[i][r].rev \in 0..remote[r].rev /\ incoming[i][r].data \in Data(r)
            /\ fields[i][r] # {} <=> r \in queued[i]
       /\ latest[i] \in 0..revision
       /\ at[i] \in {"select", "pull", "recover", "push"}

\* No instance loses a field it has set, or an index it has used, to a record of another one, whatever the
\* order of their pushes and pulls, unless the code forgot that it was news (handle_decryption, merge,
\* check_commit_update, commit_incoming_swap).
FieldIsKept ==
  [][\A i \in Instances, r \in Records : r \notin forgotten[i] => rows[i][r] \subseteq rows'[i][r]]_rows

\* When every instance is at rest after a SyncedCompleted, with nothing queued, no trigger and no
\* notification, they and the server agree, without any other round: nothing left the queue that the server
\* does not have, and no record was skipped by a pull (run_event_loop, pull, push).
SyncedMeansEqual ==
  (\A i \in Instances : completed[i] /\ at[i] = "select" /\ queued[i] = {} /\ ~notice[i])
    => \A i \in Instances : \A r \in Records \ UNION {forgotten[j] : j \in Instances} :
         rows[i][r] \cap Stored(r) = remote[r].data \cap Stored(r)
=============================================================================
