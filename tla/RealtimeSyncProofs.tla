-------------------------- MODULE RealtimeSyncProofs --------------------------
(***************************************************************************)
(* For any instances of a wallet and any number of changes, failures and   *)
(* restarts: no instance loses a field it has set to a record of another   *)
(* one, and instances that are done with synchronising agree with the      *)
(* server, both of records whose queued change the code did not forget.    *)
(***************************************************************************)
EXTENDS RealtimeSync, TLAPS

\* What SyncAssumption says of the constants, for the steps to cite
Bounds == MaxFailedPush \in Nat

-----------------------------------------------------------------------------
(* The types *)

AllFields == UNION {Fields[r] : r \in Records}
Everything == AllFields \cup {"NULL", "last-derivation-index"}
Record == [rev : Nat, data : SUBSET Everything]
Merged == [rev : Nat, data : SUBSET Everything, checked : BOOLEAN]
Push == [todo : SUBSET Records, sent : Records \cup {"none"}, rev : Nat, data : SUBSET Everything,
         done : SUBSET Records, renewed : SUBSET Records, conflicts : SUBSET Records, errors : SUBSET Records]

ServerTypes == remote \in [Records -> Record] /\ revision \in Nat /\ notice \in [Instances -> BOOLEAN]
StoreTypes ==
  /\ exists \in [Instances -> SUBSET Records] /\ rows \in [Instances -> [Records -> SUBSET Everything]]
  /\ queued \in [Instances -> SUBSET Records] /\ fields \in [Instances -> [Records -> SUBSET Everything]]
  /\ known \in [Instances -> [Records -> Nat]] /\ latest \in [Instances -> Nat]
  /\ incoming \in [Instances -> [Records -> Record]]
LoopTypes ==
  /\ at \in [Instances -> {"select", "pull", "recover", "push"}] /\ batch \in [Instances -> [Records -> Merged]]
  /\ changed \in [Instances -> SUBSET Records] /\ pushing \in [Instances -> Push] /\ failed \in [Instances -> Nat]
HistoryTypes ==
  /\ trigger \in [Instances -> BOOLEAN]
  /\ completed \in [Instances -> BOOLEAN] /\ forgotten \in [Instances -> SUBSET Records]
Types == ServerTypes /\ StoreTypes /\ LoopTypes /\ HistoryTypes

-----------------------------------------------------------------------------
(* The inductive invariant: of the server, and of each instance with it *)

\* Every record has fields of its own, and what is queued has a list
ServerFormed ==
  /\ \A r \in Records : /\ remote[r].rev <= revision /\ remote[r].data \subseteq Fields[r]
                        /\ remote[r].rev = 0 => remote[r].data = {}
  /\ \A i \in Instances : latest[i] <= revision
Formed(i, r) ==
  /\ rows[i][r] \subseteq Fields[r] /\ (r \notin exists[i] => rows[i][r] = {})
  /\ r \in queued[i] => r \in exists[i]
  /\ fields[i][r] # {} <=> r \in queued[i]
  /\ r = "details" => fields[i][r] \subseteq NoFields
  /\ r = "index" => fields[i][r] \subseteq {"last-derivation-index"}
  /\ incoming[i][r].data \subseteq Fields[r] /\ batch[i][r].data \subseteq Fields[r]
  /\ pushing[i].sent = r => pushing[i].data \subseteq Fields[r]

\* What the server holds of a record that an instance would write
Remote(r) == remote[r].data \cap Stored(r)

\* What a row has that is queued: the fields on the list, or all of them where no list is kept
Covered(i, r) == IF r \in SwapRecords THEN fields[i][r] ELSE IF r \in queued[i] THEN Fields[r] ELSE {}

Behind(i, r) == ~(Remote(r) \subseteq rows[i][r])

\* The event loop: it is completed only at its end, and what it pushes and merges is of this loop
Control(i) ==
  /\ at[i] # "select" => ~completed[i]
  /\ at[i] # "push" => pushing[i] = NoPush
  /\ at[i] # "recover" => batch[i] = NoBatch
  /\ batch[i]["index"].rev = 0
  /\ at[i] = "recover" => changed[i] \subseteq queued[i]
  /\ failed[i] > MaxFailedPush => at[i] = "select"

\* An instance knows no revision the server does not have, and what it knows, it has
Seen(i, r) ==
  /\ known[i][r] <= remote[r].rev
  /\ known[i][r] = remote[r].rev => ~Behind(i, r)

\* What is queued is in the row, and what is not queued is at the server, unless it was forgotten
IsQueued(i, r) ==
  /\ r \in SwapRecords => fields[i][r] \ NoFields \subseteq rows[i][r]
  /\ r \notin forgotten[i] => (rows[i][r] \cap Stored(r)) \ Covered(i, r) \subseteq remote[r].data

\* What was pulled and is not committed is what the server holds, unless it has another revision since
IsPulled(i, r) ==
  /\ incoming[i][r].rev <= remote[r].rev
  /\ incoming[i][r].rev = remote[r].rev => incoming[i][r].data = remote[r].data
  /\ remote[r].rev <= latest[i] =>
       /\ incoming[i][r].rev = remote[r].rev \/ incoming[i][r].rev <= known[i][r]
       /\ Behind(i, r) /\ r \notin forgotten[i] => incoming[i][r].rev = remote[r].rev
  /\ at[i] = "push" \/ failed[i] > MaxFailedPush => incoming[i][r].rev <= known[i][r] \/ r \in queued[i]
  /\ at[i] = "recover" => IF r = "index" THEN incoming[i][r].rev <= known[i][r]
                          ELSE batch[i][r].rev = IF incoming[i][r].rev > known[i][r] THEN incoming[i][r].rev ELSE 0

\* What is to be committed: nothing of the server is missing, nothing that is queued, and nothing of the row unless
\* that has changed
IsMerged(i, r) ==
  at[i] = "recover" /\ batch[i][r].rev > 0 =>
    /\ batch[i][r].rev = remote[r].rev => Remote(r) \subseteq batch[i][r].data
    /\ r \notin forgotten[i] => (batch[i][r].data \cap Stored(r)) \ Covered(i, r) \subseteq remote[r].data
    /\ r \in SwapRecords /\ r \notin changed[i] =>
         /\ fields[i][r] \ NoFields \subseteq batch[i][r].data
         /\ r \notin forgotten[i] => rows[i][r] \cap Stored(r) \subseteq batch[i][r].data

\* What is sent is the row, unless that was renewed, and on top of what the server holds, or it conflicts
IsPushed(i, r) ==
  /\ pushing[i].sent = r =>
       /\ pushing[i].rev <= remote[r].rev
       /\ pushing[i].rev = remote[r].rev => Remote(r) \subseteq pushing[i].data
       /\ pushing[i].data \subseteq rows[i][r]
       /\ r \notin pushing[i].renewed => rows[i][r] \subseteq pushing[i].data
  /\ r \in pushing[i].done =>
       /\ incoming[i][r].rev <= known[i][r]
       /\ r \notin pushing[i].renewed => rows[i][r] \cap Stored(r) \subseteq remote[r].data

\* An instance that is behind will hear of it
WillHear(i, r) ==
  /\ at[i] = "recover" /\ remote[r].rev > latest[i] => notice[i]
  /\ Behind(i, r) /\ remote[r].rev > latest[i] => notice[i] \/ at[i] = "pull" \/ (at[i] = "select" /\ ~completed[i])
  /\ Behind(i, r) /\ at[i] = "select" /\ completed[i] => notice[i] \/ r \in queued[i] \/ r \in forgotten[i]

Parts(i, r) ==
  Formed(i, r) /\ Seen(i, r) /\ IsQueued(i, r) /\ IsPulled(i, r) /\ IsMerged(i, r) /\ IsPushed(i, r) /\ WillHear(i, r)
SyncInv ==
  Types /\ ServerFormed /\ \A i \in Instances : Control(i) /\ \A r \in Records : Parts(i, r)

-----------------------------------------------------------------------------
(* Types *)

\* What the records hold is fixed.
LEMMA FieldsOfRecords ==
  /\ \A r \in Records : Fields[r] \subseteq Everything /\ Stored(r) \subseteq Fields[r]
  /\ NoFields \subseteq Everything /\ NoFields # {} /\ "last-derivation-index" \in Everything
  /\ SwapRecords \subseteq Records /\ "send" \in SwapRecords /\ "index" \in Records /\ "index" \notin SwapRecords
  /\ "none" \notin Records
  /\ \A r \in SwapRecords : NoFields \cap Fields[r] = {}
<1>1. \A r \in Records : Fields[r] \subseteq Everything
  BY DEF Everything, AllFields
<1>2. \A r \in Records : Stored(r) \subseteq Fields[r]
  BY DEF Stored
<1>3. SwapRecords \subseteq Records /\ "send" \in SwapRecords /\ "index" \in Records /\ "index" \notin SwapRecords
      /\ "none" \notin Records
  BY DEF SwapRecords, Records
<1>4. \A r \in SwapRecords : NoFields \cap Fields[r] = {}
  <2>1. NoFields \cap Fields["chain"] = {}
    BY DEF NoFields, Fields, Records
  <2>2. NoFields \cap Fields["send"] = {}
    BY DEF NoFields, Fields, Records
  <2> QED BY <2>1, <2>2 DEF SwapRecords
<1>5. "NULL" \in Everything /\ "last-derivation-index" \in Everything
  BY DEF Everything
<1>6. NoFields \subseteq Everything /\ NoFields # {}
  BY <1>5 DEF NoFields
<1> QED BY <1>1, <1>2, <1>3, <1>4, <1>5, <1>6

\* The list of a local change.
LEMMA ListTypes ==
  ASSUME NEW r \in Records, NEW f \in Fields[r]
  PROVE  UpdatedFields(r, f) \in SUBSET Everything /\ UpdatedFields(r, f) # {}
<1>1. f \in Everything
  BY FieldsOfRecords
<1>2. CASE r = "details"
  BY <1>2, FieldsOfRecords DEF UpdatedFields
<1>3. CASE r = "index"
  BY <1>3, FieldsOfRecords DEF UpdatedFields
<1>4. CASE r \notin {"details", "index"}
  BY <1>1, <1>4 DEF UpdatedFields
<1> QED BY <1>2, <1>3, <1>4

\* The list of a record after one is queued.
NewList(i, r, list) == IF list = NoFields THEN NoFields ELSE (fields[i][r] \ NoFields) \cup list

\* A change of a row is queued for the next push, with the fields it touched.
LEMMA CommitOutgoing ==
  ASSUME Types, NEW i \in Instances, NEW r \in Records, NEW list \in SUBSET Everything, list # {},
         NEW later \in BOOLEAN, commit_outgoing(i, r, list, later)
  PROVE  /\ queued' \in [Instances -> SUBSET Records] /\ fields' \in [Instances -> [Records -> SUBSET Everything]]
         /\ changed' \in [Instances -> SUBSET Records] /\ trigger' \in [Instances -> BOOLEAN]
         /\ queued'[i] = queued[i] \cup {r}
         /\ fields'[i][r] = NewList(i, r, list)
         /\ \A q \in Records : q # r => fields'[i][q] = fields[i][q]
         /\ changed'[i] \subseteq changed[i] \cup {r} /\ changed[i] \subseteq changed'[i]
         /\ r \in SwapRecords => r \in changed'[i]
         /\ \A j \in Instances : j # i => queued'[j] = queued[j] /\ fields'[j] = fields[j] /\ changed'[j] = changed[j]
<1>1. /\ queued \in [Instances -> SUBSET Records] /\ fields \in [Instances -> [Records -> SUBSET Everything]]
      /\ changed \in [Instances -> SUBSET Records] /\ trigger \in [Instances -> BOOLEAN]
  BY DEF Types, StoreTypes, LoopTypes, HistoryTypes
<1>2. /\ queued' = [queued EXCEPT ![i] = queued[i] \cup {r}]
      /\ fields' = [fields EXCEPT ![i] = [fields[i] EXCEPT ![r] = NewList(i, r, list)]]
      /\ changed' \in {[changed EXCEPT ![i] = changed[i] \cup {r}], changed}
      /\ r \in SwapRecords => changed' = [changed EXCEPT ![i] = changed[i] \cup {r}]
      /\ trigger' = [trigger EXCEPT ![i] = TRUE]
  BY <1>1 DEF commit_outgoing, NewList
<1>3. fields'[i] \in [Records -> SUBSET Everything]
  <2>1. NewList(i, r, list) \in SUBSET Everything
    BY <1>1, FieldsOfRecords DEF NewList
  <2> QED BY <1>1, <1>2, <2>1
<1>4. fields' \in [Instances -> [Records -> SUBSET Everything]]
  BY <1>1, <1>2, <1>3
<1>5. queued' \in [Instances -> SUBSET Records] /\ changed' \in [Instances -> SUBSET Records]
  BY <1>1, <1>2
<1>6. trigger' \in [Instances -> BOOLEAN]
  BY <1>1, <1>2
<1> QED BY <1>1, <1>2, <1>4, <1>5, <1>6

-----------------------------------------------------------------------------
(* What a step of one instance is for the others *)

\* An instance that has nothing to do with a step, but for a notification.
Unaltered(j) ==
  /\ exists'[j] = exists[j] /\ rows'[j] = rows[j] /\ queued'[j] = queued[j] /\ fields'[j] = fields[j]
  /\ known'[j] = known[j] /\ latest'[j] = latest[j] /\ incoming'[j] = incoming[j]
  /\ at'[j] = at[j] /\ batch'[j] = batch[j] /\ changed'[j] = changed[j] /\ pushing'[j] = pushing[j]
  /\ failed'[j] = failed[j] /\ completed'[j] = completed[j] /\ forgotten'[j] = forgotten[j]
  /\ notice[j] => notice'[j]

\* The server takes a record that has all it held of it, or keeps the one it has.
Accepted(i, r) ==
  /\ remote'[r].rev = revision + 1 /\ revision' = revision + 1
  /\ remote'[r].data \subseteq Fields[r] /\ Remote(r) \subseteq remote'[r].data
  /\ \A j \in Instances : j # i => notice'[j]
ServerStep(i) == \A r \in Records : (remote'[r] = remote[r] /\ revision' >= revision) \/ Accepted(i, r)

\* Whatever one instance does, the invariant of the others is kept.
LEMMA OthersKeep ==
  ASSUME SyncInv, Types', NEW i \in Instances, ServerStep(i), NEW j \in Instances, Unaltered(j), j # i
  PROVE  Control(j)' /\ \A r \in Records : Parts(j, r)'
<1>1. Control(j)'
  BY DEF SyncInv, Control, Unaltered
<1>2. ASSUME NEW r \in Records
      PROVE  Parts(j, r)'
  <2>1. /\ Parts(j, r) /\ Control(j) /\ ServerFormed
        /\ remote[r].rev \in Nat /\ remote'[r].rev \in Nat /\ revision \in Nat /\ known[j][r] \in Nat
        /\ latest[j] \in Nat /\ incoming[j][r].rev \in Nat /\ batch[j][r].rev \in Nat /\ pushing[j].rev \in Nat
        /\ notice'[j] \in BOOLEAN
    BY DEF SyncInv, Types, ServerTypes, StoreTypes, LoopTypes, Record, Merged, Push
  <2>2. Stored(r) \subseteq Fields[r]
    BY FieldsOfRecords
  <2>3. CASE remote'[r] = remote[r]
    <3>1. Behind(j, r)' <=> Behind(j, r)
      BY <2>3 DEF Behind, Remote, Unaltered
    <3>2. Formed(j, r)' /\ Seen(j, r)' /\ IsPushed(j, r)'
      BY <2>1, <2>3, <3>1 DEF Parts, Formed, Seen, IsPushed, Unaltered, Remote
    <3>3. IsQueued(j, r)' /\ IsMerged(j, r)'
      BY <2>1, <2>3 DEF Parts, IsQueued, IsMerged, Covered, Unaltered, Remote
    <3>4. IsPulled(j, r)'
      BY <2>1, <2>3, <3>1 DEF Parts, IsPulled, Unaltered
    <3>5. WillHear(j, r)'
      BY <2>1, <2>3, <3>1 DEF Parts, WillHear, Unaltered
    <3> QED BY <3>2, <3>3, <3>4, <3>5 DEF Parts
  <2>4. CASE Accepted(i, r)
    <3>1. /\ remote'[r].rev > revision /\ remote'[r].rev > remote[r].rev /\ remote'[r].rev > latest[j]
          /\ Remote(r) \subseteq remote'[r].data /\ notice'[j]
      BY <2>1, <2>4 DEF Accepted, ServerFormed
    <3>2. incoming[j][r].rev <= remote[r].rev /\ known[j][r] <= remote[r].rev
      BY <2>1 DEF Parts, IsPulled, Seen
    <3>3. Formed(j, r)'
      BY <2>1 DEF Parts, Formed, Unaltered
    <3>4. Seen(j, r)'
      BY <2>1, <3>1, <3>2 DEF Seen, Unaltered
    <3>5. IsQueued(j, r)'
      BY <2>1, <3>1 DEF Parts, IsQueued, Covered, Unaltered, Remote
    <3>6. IsPulled(j, r)'
      BY <2>1, <3>1, <3>2 DEF Parts, IsPulled, Unaltered
    <3>7. IsMerged(j, r)'
      <4>1. at[j] = "recover" /\ batch[j][r].rev > 0 => batch[j][r].rev <= remote[r].rev
        BY <2>1, <3>2 DEF Parts, IsPulled, Control
      <4> QED BY <2>1, <3>1, <4>1 DEF Parts, IsMerged, Covered, Unaltered, Remote
    <3>8. IsPushed(j, r)'
      BY <2>1, <3>1 DEF Parts, IsPushed, Unaltered, Remote
    <3>9. WillHear(j, r)'
      BY <3>1 DEF WillHear
    <3> QED BY <3>3, <3>4, <3>5, <3>6, <3>7, <3>8, <3>9 DEF Parts
  <2> QED BY <2>3, <2>4 DEF ServerStep
<1> QED BY <1>1, <1>2

-----------------------------------------------------------------------------
(* Every step keeps the types *)

\* The types hold at the start.
LEMMA InitTypes ==
  ASSUME SyncInit
  PROVE  Types
<1>1. Nothing \in Record
  BY DEF Nothing, Record
<1>2. NoBatch \in [Records -> Merged]
  BY DEF NoBatch, Merged
<1>3. NoPush \in Push
  BY DEF NoPush, Push
<1>4. ServerTypes
  BY <1>1 DEF SyncInit, ServerTypes
<1>5. StoreTypes
  BY <1>1 DEF SyncInit, StoreTypes
<1>6. LoopTypes
  BY <1>2, <1>3 DEF SyncInit, LoopTypes
<1>7. HistoryTypes
  BY DEF SyncInit, HistoryTypes
<1> QED BY <1>4, <1>5, <1>6, <1>7 DEF Types

\* A change of a row keeps the types.
LEMMA TypesOfChange ==
  ASSUME Types, NEW i \in Instances, NEW r \in Records,
         Insert(i, r) \/ (\E f \in Fields[r] : SetField(i, r, f)) \/ UpdateSendSwap(i)
  PROVE  Types'
<1> USE DEF Types
<1>1. CASE Insert(i, r)
  <2>1. PICK list \in SUBSET Everything : /\ list # {}
                                       /\ \E later \in BOOLEAN : commit_outgoing(i, r, list, later)
    <3>1. {"last-derivation-index"} \in SUBSET Everything /\ {"last-derivation-index"} # {}
      BY FieldsOfRecords
    <3>2. CASE r = "index"
      BY <1>1, <3>1, <3>2 DEF Insert, UpdatedFields
    <3>3. CASE r # "index"
      BY <1>1, <3>3, FieldsOfRecords DEF Insert
    <3> QED BY <3>2, <3>3
  <2>2. /\ queued' \in [Instances -> SUBSET Records] /\ fields' \in [Instances -> [Records -> SUBSET Everything]]
        /\ changed' \in [Instances -> SUBSET Records] /\ trigger' \in [Instances -> BOOLEAN]
    BY <2>1, CommitOutgoing
  <2>3. exists' \in [Instances -> SUBSET Records]
    BY <1>1 DEF Insert, StoreTypes
  <2>4. UNCHANGED <<rows, known, latest, incoming, server, at, batch, pushing, failed, events, completed, forgotten>>
    BY <1>1 DEF Insert
  <2> QED BY <2>2, <2>3, <2>4 DEF server, ServerTypes, StoreTypes, LoopTypes, HistoryTypes
<1>2. ASSUME NEW f \in Fields[r], SetField(i, r, f)
      PROVE  Types'
  <2>1. \E later \in BOOLEAN : commit_outgoing(i, r, UpdatedFields(r, f), later)
    BY <1>2 DEF SetField
  <2>2. /\ queued' \in [Instances -> SUBSET Records] /\ fields' \in [Instances -> [Records -> SUBSET Everything]]
        /\ changed' \in [Instances -> SUBSET Records] /\ trigger' \in [Instances -> BOOLEAN]
    BY <2>1, ListTypes, CommitOutgoing
  <2>3. rows' = [rows EXCEPT ![i] = [rows[i] EXCEPT ![r] = rows[i][r] \cup {f}]]
    BY <1>2 DEF SetField, StoreTypes
  <2>4. rows' \in [Instances -> [Records -> SUBSET Everything]]
    BY <2>3, FieldsOfRecords DEF StoreTypes
  <2>5. pushing' = [pushing EXCEPT ![i] = [pushing[i] EXCEPT !.renewed = IF r \in pushing[i].done \cup {pushing[i].sent}
                                                                        THEN pushing[i].renewed \cup {r}
                                                                        ELSE pushing[i].renewed]]
    BY <1>2 DEF SetField, LoopTypes
  <2>6. pushing[i] \in Push
    BY DEF LoopTypes
  <2>7. pushing'[i] \in Push
    <3>1. PICK s \in SUBSET Records : pushing'[i] = [pushing[i] EXCEPT !.renewed = s]
      <4>1. pushing[i].renewed \in SUBSET Records /\ pushing[i].renewed \cup {r} \in SUBSET Records
        BY <2>6 DEF Push
      <4> QED BY <2>5, <4>1 DEF LoopTypes
    <3> QED BY <2>6, <3>1 DEF Push
  <2>8. pushing' \in [Instances -> Push]
    BY <2>5, <2>7 DEF LoopTypes
  <2>9. UNCHANGED <<exists, known, latest, incoming, server, at, batch, failed, completed, forgotten>>
    BY <1>2 DEF SetField
  <2> QED BY <2>2, <2>4, <2>8, <2>9 DEF server, ServerTypes, StoreTypes, LoopTypes, HistoryTypes
<1>3. CASE UpdateSendSwap(i)
  <2>1. commit_outgoing(i, "send", NoFields, TRUE) /\ "send" \in Records
    BY <1>3 DEF UpdateSendSwap, Records
  <2>2. /\ queued' \in [Instances -> SUBSET Records] /\ fields' \in [Instances -> [Records -> SUBSET Everything]]
        /\ changed' \in [Instances -> SUBSET Records] /\ trigger' \in [Instances -> BOOLEAN]
    BY <2>1, FieldsOfRecords, CommitOutgoing
  <2>3. forgotten' \in [Instances -> SUBSET Records]
    BY <1>3, <2>1 DEF UpdateSendSwap, HistoryTypes
  <2>4. UNCHANGED <<exists, rows, known, latest, incoming, server, at, batch, pushing, failed, completed>>
    BY <1>3 DEF UpdateSendSwap
  <2> QED BY <2>2, <2>3, <2>4 DEF server, ServerTypes, StoreTypes, LoopTypes, HistoryTypes
<1> QED BY <1>1, <1>2, <1>3

\* The loop wakes up, and the tables may be wiped.
LEMMA RunEventLoopFrame ==
  ASSUME Types, NEW i \in Instances, RunEventLoop(i)
  PROVE  /\ Types'
         /\ at[i] = "select" /\ at'[i] = "pull" /\ ~completed'[i]
         /\ \A j \in Instances : j # i => /\ at'[j] = at[j] /\ completed'[j] = completed[j] /\ notice'[j] = notice[j]
                                          /\ queued'[j] = queued[j] /\ fields'[j] = fields[j] /\ known'[j] = known[j]
                                          /\ incoming'[j] = incoming[j] /\ forgotten'[j] = forgotten[j]
                                          /\ failed'[j] = failed[j]
         /\ \/ /\ failed[i] > MaxFailedPush /\ failed'[i] = 0
               /\ queued'[i] = exists[i] \cap SwapRecords /\ forgotten'[i] = forgotten[i] \cup queued[i]
               /\ \A r \in Records : /\ fields'[i][r] = IF r \in exists[i] \cap SwapRecords THEN NoFields ELSE {}
                                     /\ known'[i][r] = 0 /\ incoming'[i][r] = Nothing
            \/ ~(failed[i] > MaxFailedPush) /\ UNCHANGED <<queued, fields, known, incoming, forgotten, failed>>
<1> USE DEF Types
<1>1. at' = [at EXCEPT ![i] = "pull"] /\ completed' = [completed EXCEPT ![i] = FALSE] /\ at[i] = "select"
      /\ UNCHANGED <<exists, rows, latest, remote, revision, batch, changed, pushing, events>>
  BY DEF RunEventLoop
<1>2. /\ trigger' \in [Instances -> BOOLEAN] /\ notice' \in [Instances -> BOOLEAN]
      /\ \A j \in Instances : j # i => notice'[j] = notice[j]
  BY DEF RunEventLoop, ServerTypes, HistoryTypes
<1>3. ServerTypes' /\ at' \in [Instances -> {"select", "pull", "recover", "push"}]
      /\ completed' \in [Instances -> BOOLEAN]
  BY <1>1, <1>2 DEF ServerTypes, LoopTypes, HistoryTypes
<1>4. CASE failed[i] > MaxFailedPush
  <2>1. /\ failed' = [failed EXCEPT ![i] = 0] /\ queued' = [queued EXCEPT ![i] = exists[i] \cap SwapRecords]
        /\ fields' = [fields EXCEPT ![i] = [r \in Records |-> IF r \in exists[i] \cap SwapRecords THEN NoFields ELSE {}]]
        /\ known' = [known EXCEPT ![i] = [r \in Records |-> 0]]
        /\ incoming' = [incoming EXCEPT ![i] = [r \in Records |-> Nothing]]
        /\ forgotten' = [forgotten EXCEPT ![i] = forgotten[i] \cup queued[i]]
    BY <1>4 DEF RunEventLoop, reset_sync, HistoryTypes
  <2>2. Nothing \in Record
    BY DEF Nothing, Record
  <2>3. [r \in Records |-> IF r \in exists[i] \cap SwapRecords THEN NoFields ELSE {}] \in [Records -> SUBSET Everything]
    BY FieldsOfRecords
  <2>4. StoreTypes'
    BY <1>1, <2>1, <2>2, <2>3 DEF StoreTypes
  <2>5. LoopTypes'
    BY <1>1, <1>3, <2>1 DEF LoopTypes
  <2>6. HistoryTypes'
    BY <1>2, <1>3, <2>1 DEF HistoryTypes, StoreTypes
  <2> QED BY <1>1, <1>2, <1>3, <1>4, <2>1, <2>4, <2>5, <2>6 DEF StoreTypes, LoopTypes, HistoryTypes
<1>5. CASE ~(failed[i] > MaxFailedPush)
  <2>1. UNCHANGED <<queued, fields, known, incoming, forgotten, failed>>
    BY <1>5 DEF RunEventLoop
  <2>2. StoreTypes' /\ LoopTypes' /\ HistoryTypes'
    BY <1>1, <1>2, <1>3, <2>1 DEF StoreTypes, LoopTypes, HistoryTypes
  <2> QED BY <1>1, <1>2, <1>3, <1>5, <2>1, <2>2 DEF LoopTypes, HistoryTypes
<1> QED BY <1>4, <1>5

\* What is pulled, what is pushed, and the ends of the loop: the parts of each step, and what it leaves.
LEMMA LoopEndTypes ==
  ASSUME Types, NEW i \in Instances,
         at' = [at EXCEPT ![i] = "select"], batch' \in {batch, [batch EXCEPT ![i] = NoBatch]},
         pushing' \in {pushing, [pushing EXCEPT ![i] = NoPush]}, changed' = changed,
         failed' \in {failed, [failed EXCEPT ![i] = 0]}
  PROVE  LoopTypes'
<1>1. NoBatch \in [Records -> Merged]
  BY DEF NoBatch, Merged
<1>2. NoPush \in Push
  BY DEF NoPush, Push
<1> USE DEF Types, LoopTypes
<1>3. batch' \in [Instances -> [Records -> Merged]]
  BY <1>1
<1>4. pushing' \in [Instances -> Push]
  BY <1>2
<1>5. failed' \in [Instances -> Nat]
  OBVIOUS
<1>6. at' \in [Instances -> {"select", "pull", "recover", "push"}]
  OBVIOUS
<1> QED BY <1>3, <1>4, <1>5, <1>6

\* The loop gives up, or is stopped.
LEMMA GiveUpFrame ==
  ASSUME Types, NEW i \in Instances, PullFails(i) \/ RecoveryFails(i) \/ Restart(i) \/ ListenerBreaks(i)
  PROVE  /\ Types' /\ at'[i] = "select" /\ UNCHANGED <<stores, remote, revision, forgotten>>
         /\ \A j \in Instances : j # i => Unaltered(j)
         /\ \/ at[i] \in {"pull", "recover"} /\ completed' = completed /\ notice' = notice
               /\ pushing' = pushing /\ failed' = failed
               /\ batch'[i] = IF at[i] = "recover" THEN NoBatch ELSE batch[i]
            \/ ~completed'[i] /\ pushing'[i] = NoPush /\ batch'[i] = NoBatch /\ failed'[i] = 0
<1> USE DEF Types
<1>1. CASE PullFails(i) \/ RecoveryFails(i)
  <2>1. /\ UNCHANGED <<stores, server, changed, pushing, failed, trigger, completed, forgotten>>
        /\ at' = [at EXCEPT ![i] = "select"] /\ at[i] \in {"pull", "recover"}
        /\ batch' = IF at[i] = "recover" THEN [batch EXCEPT ![i] = NoBatch] ELSE batch
    BY <1>1 DEF PullFails, RecoveryFails
  <2>2. LoopTypes'
    BY <2>1, LoopEndTypes
  <2>3. ServerTypes' /\ StoreTypes' /\ HistoryTypes'
    BY <2>1 DEF server, stores, ServerTypes, StoreTypes, HistoryTypes
  <2>4. \A j \in Instances : j # i => Unaltered(j)
    BY <2>1 DEF server, stores, Unaltered, LoopTypes
  <2> QED BY <2>1, <2>2, <2>3, <2>4 DEF server, LoopTypes
<1>2. CASE Restart(i) \/ ListenerBreaks(i)
  <2>1. /\ UNCHANGED <<stores, remote, revision, changed, forgotten>> /\ trigger' \in {trigger, [trigger EXCEPT ![i] = FALSE]}
        /\ LoopIdle(i)
    BY <1>2 DEF Restart, ListenerBreaks
  <2>2. LoopTypes'
    BY <2>1, LoopEndTypes DEF LoopIdle
  <2>3. ServerTypes' /\ StoreTypes' /\ HistoryTypes'
    BY <2>1 DEF LoopIdle, stores, ServerTypes, StoreTypes, HistoryTypes
  <2>4. \A j \in Instances : j # i => Unaltered(j)
    BY <2>1 DEF stores, LoopIdle, Unaltered, LoopTypes, ServerTypes, HistoryTypes
  <2> QED BY <2>1, <2>2, <2>3, <2>4 DEF LoopIdle, LoopTypes, HistoryTypes
<1> QED BY <1>1, <1>2

\* The next record of a push is sent.
LEMMA SendRecordFrame ==
  ASSUME Types, NEW i \in Instances, NEW r \in Records, SendRecord(i, r)
  PROVE  /\ Types' /\ UNCHANGED <<stores, server, at, batch, changed, failed, completed, forgotten>>
         /\ \A j \in Instances : j # i => Unaltered(j)
         /\ at[i] = "push" /\ pushing'[i].renewed = pushing[i].renewed
         /\ pushing'[i].sent = r /\ pushing'[i].rev = known[i][r] /\ pushing'[i].data = rows[i][r]
         /\ pushing'[i].done = pushing[i].done
<1> USE DEF Types
<1>1. pushing[i] \in Push /\ known[i][r] \in Nat /\ rows[i][r] \in SUBSET Everything
  BY DEF LoopTypes, StoreTypes
<1>2. pushing' = [pushing EXCEPT ![i] = [pushing[i] EXCEPT !.todo = pushing[i].todo \ {r}, !.sent = r,
                                                           !.rev = known[i][r], !.data = rows[i][r]]]
  BY DEF SendRecord, LoopTypes
<1>3. pushing'[i] = [pushing[i] EXCEPT !.todo = pushing[i].todo \ {r}, !.sent = r, !.rev = known[i][r], !.data = rows[i][r]]
  BY <1>2 DEF LoopTypes
<1>4. /\ pushing'[i] \in Push /\ pushing'[i].sent = r /\ pushing'[i].rev = known[i][r] /\ pushing'[i].data = rows[i][r]
      /\ pushing'[i].done = pushing[i].done /\ pushing'[i].renewed = pushing[i].renewed
  BY <1>1, <1>3 DEF Push
<1>5. UNCHANGED <<stores, server, at, batch, changed, failed, trigger, completed, forgotten>> /\ at[i] = "push"
  BY DEF SendRecord
<1>6. LoopTypes' /\ \A j \in Instances : j # i => pushing'[j] = pushing[j]
  BY <1>2, <1>4, <1>5 DEF LoopTypes
<1>7. ServerTypes' /\ StoreTypes' /\ HistoryTypes'
  BY <1>5 DEF stores, server, ServerTypes, StoreTypes, HistoryTypes
<1> QED BY <1>4, <1>5, <1>6, <1>7 DEF stores, server, Unaltered

\* The record that was sent is the server's, or the server is as it was.
LEMMA SetRecordTypes ==
  ASSUME Types, NEW i \in Instances, pushing[i].sent \in Records,
         SetRecord(i, pushing[i].sent) \/ UNCHANGED server
  PROVE  ServerTypes' /\ notice'[i] = notice[i] /\ \A j \in Instances : notice[j] => notice'[j]
<1> USE DEF Types
<1>1. CASE UNCHANGED server
  BY <1>1 DEF server, ServerTypes
<1>2. CASE SetRecord(i, pushing[i].sent)
  <2>1. pushing[i].data \in SUBSET Everything
    BY DEF LoopTypes, Push
  <2>2. revision' \in Nat /\ [rev |-> revision + 1, data |-> pushing[i].data] \in Record
    BY <1>2, <2>1 DEF SetRecord, ServerTypes, Record
  <2>3. notice' \in [Instances -> BOOLEAN] /\ notice'[i] = notice[i] /\ \A j \in Instances : notice[j] => notice'[j]
    BY <1>2 DEF SetRecord, ServerTypes
  <2>4. remote' \in [Records -> Record]
    BY <1>2, <2>2 DEF SetRecord, ServerTypes
  <2> QED BY <2>2, <2>3, <2>4 DEF ServerTypes
<1> QED BY <1>1, <1>2

\* A push is answered, whether the server took it or not.
LEMMA PushAnswered ==
  ASSUME Types, NEW i \in Instances, PushAccepted(i) \/ PushConflicts(i) \/ PushFails(i)
  PROVE  /\ Types' /\ pushing[i].sent \in Records
         /\ UNCHANGED <<exists, rows, queued, fields, latest, incoming, at, batch, changed, failed, completed, forgotten>>
         /\ \A j \in Instances : j # i => Unaltered(j)
         /\ notice'[i] = notice[i] /\ pushing'[i].renewed = pushing[i].renewed /\ pushing'[i].sent = "none"
         /\ \/ /\ SetRecord(i, pushing[i].sent) /\ pushing'[i].done = pushing[i].done \cup {pushing[i].sent}
               /\ known'[i][pushing[i].sent] = revision + 1
               /\ \A q \in Records : q # pushing[i].sent => known'[i][q] = known[i][q]
            \/ /\ SetRecord(i, pushing[i].sent) \/ UNCHANGED server
               /\ known' = known /\ pushing'[i].done = pushing[i].done
<1> USE DEF Types
<1> DEFINE r == pushing[i].sent
<1>1. pushing[i] \in Push
  BY DEF LoopTypes
<1>2. r \in Records
  BY <1>1 DEF PushAccepted, PushConflicts, PushFails, Push
<1>3. /\ UNCHANGED <<exists, rows, queued, fields, latest, incoming, at, batch, changed, failed, trigger, completed, forgotten>>
      /\ SetRecord(i, r) \/ UNCHANGED server
  BY DEF PushAccepted, PushConflicts, PushFails, stores
<1>4. ServerTypes' /\ notice'[i] = notice[i] /\ \A j \in Instances : notice[j] => notice'[j]
  BY <1>2, <1>3, SetRecordTypes
<1>5. \/ /\ SetRecord(i, r) /\ known' = [known EXCEPT ![i] = [known[i] EXCEPT ![r] = revision + 1]]
         /\ pushing' = [pushing EXCEPT ![i] = [pushing[i] EXCEPT !.sent = "none", !.done = pushing[i].done \cup {r}]]
      \/ /\ known' = known
         /\ \/ pushing' = [pushing EXCEPT ![i] = [pushing[i] EXCEPT !.sent = "none",
                                                                    !.conflicts = pushing[i].conflicts \cup {r}]]
            \/ pushing' = [pushing EXCEPT ![i] = [pushing[i] EXCEPT !.sent = "none", !.errors = pushing[i].errors \cup {r}]]
  <2>1. CASE PushAccepted(i)
    BY <2>1 DEF PushAccepted, LoopTypes, StoreTypes
  <2>2. CASE PushConflicts(i) \/ PushFails(i)
    BY <2>2 DEF PushConflicts, PushFails, LoopTypes, stores
  <2> QED BY <2>1, <2>2
<1> HIDE DEF r
<1>6. CASE SetRecord(i, r) /\ known' = [known EXCEPT ![i] = [known[i] EXCEPT ![r] = revision + 1]]
           /\ pushing' = [pushing EXCEPT ![i] = [pushing[i] EXCEPT !.sent = "none", !.done = pushing[i].done \cup {r}]]
  <2>1. PICK done \in SUBSET Records : /\ done = pushing[i].done \cup {r}
                                       /\ pushing'[i] = [pushing[i] EXCEPT !.sent = "none", !.done = done]
    <3>1. pushing[i].done \cup {r} \in SUBSET Records
      BY <1>1, <1>2 DEF Push
    <3>2. pushing'[i] = [pushing[i] EXCEPT !.sent = "none", !.done = pushing[i].done \cup {r}]
      BY <1>6 DEF LoopTypes
    <3> QED BY <3>1, <3>2
  <2>2. /\ pushing'[i] \in Push /\ pushing'[i].sent = "none" /\ pushing'[i].done = pushing[i].done \cup {r}
        /\ pushing'[i].renewed = pushing[i].renewed
    BY <1>1, <2>1 DEF Push
  <2>3. LoopTypes' /\ \A j \in Instances : j # i => pushing'[j] = pushing[j]
    BY <1>3, <1>6, <2>2 DEF LoopTypes
  <2>4. known'[i] = [known[i] EXCEPT ![r] = revision + 1] /\ revision + 1 \in Nat
    BY <1>6 DEF StoreTypes, ServerTypes
  <2>5. known'[i] \in [Records -> Nat] /\ known'[i][r] = revision + 1 /\ \A q \in Records : q # r => known'[i][q] = known[i][q]
    BY <1>2, <2>4 DEF StoreTypes
  <2>6. StoreTypes' /\ \A j \in Instances : j # i => known'[j] = known[j]
    BY <1>3, <1>6, <2>5 DEF StoreTypes
  <2>7. HistoryTypes'
    BY <1>3 DEF HistoryTypes
  <2>8. \A j \in Instances : j # i => Unaltered(j)
    BY <1>3, <1>4, <2>3, <2>6 DEF Unaltered
  <2> QED BY <1>2, <1>3, <1>4, <1>6, <2>2, <2>3, <2>5, <2>6, <2>7, <2>8 DEF r
<1>7. CASE /\ known' = known
           /\ \/ pushing' = [pushing EXCEPT ![i] = [pushing[i] EXCEPT !.sent = "none",
                                                                      !.conflicts = pushing[i].conflicts \cup {r}]]
              \/ pushing' = [pushing EXCEPT ![i] = [pushing[i] EXCEPT !.sent = "none", !.errors = pushing[i].errors \cup {r}]]
  <2>1. PICK rs \in SUBSET Records : \/ pushing'[i] = [pushing[i] EXCEPT !.sent = "none", !.conflicts = rs]
                                     \/ pushing'[i] = [pushing[i] EXCEPT !.sent = "none", !.errors = rs]
    <3>1. pushing[i].conflicts \cup {r} \in SUBSET Records /\ pushing[i].errors \cup {r} \in SUBSET Records
      BY <1>1, <1>2 DEF Push
    <3>2. \/ pushing'[i] = [pushing[i] EXCEPT !.sent = "none", !.conflicts = pushing[i].conflicts \cup {r}]
          \/ pushing'[i] = [pushing[i] EXCEPT !.sent = "none", !.errors = pushing[i].errors \cup {r}]
      BY <1>7 DEF LoopTypes
    <3> QED BY <3>1, <3>2
  <2>2. /\ pushing'[i] \in Push /\ pushing'[i].sent = "none" /\ pushing'[i].done = pushing[i].done
        /\ pushing'[i].renewed = pushing[i].renewed
    <3>1. CASE pushing'[i] = [pushing[i] EXCEPT !.sent = "none", !.conflicts = rs]
      BY <1>1, <3>1 DEF Push
    <3>2. CASE pushing'[i] = [pushing[i] EXCEPT !.sent = "none", !.errors = rs]
      BY <1>1, <3>2 DEF Push
    <3> QED BY <2>1, <3>1, <3>2
  <2>3. LoopTypes' /\ \A j \in Instances : j # i => pushing'[j] = pushing[j]
    BY <1>3, <1>7, <2>2 DEF LoopTypes
  <2>4. StoreTypes' /\ HistoryTypes'
    BY <1>3, <1>7 DEF StoreTypes, HistoryTypes
  <2>5. \A j \in Instances : j # i => Unaltered(j)
    BY <1>3, <1>4, <1>7, <2>3 DEF Unaltered
  <2> QED BY <1>2, <1>3, <1>4, <1>7, <2>2, <2>3, <2>4, <2>5 DEF r
<1> QED BY <1>5, <1>6, <1>7

\* What was pushed leaves the queue.
LEMMA FinishPushFrame ==
  ASSUME Types, NEW i \in Instances, FinishPush(i)
  PROVE  /\ Types' /\ UNCHANGED <<exists, rows, known, latest, incoming, server, batch, changed>>
         /\ \A j \in Instances : j # i => Unaltered(j)
         /\ at[i] = "push" /\ at'[i] = "select" /\ pushing'[i] = NoPush /\ pushing[i].sent = "none"
         /\ queued'[i] = queued[i] \ pushing[i].done
         /\ \A r \in Records : fields'[i][r] = IF r \in pushing[i].done THEN {} ELSE fields[i][r]
         /\ forgotten'[i] = forgotten[i] \cup (pushing[i].renewed \cap pushing[i].done)
<1> USE DEF Types
<1> DEFINE p == pushing[i]
<1>1. p \in Push
  BY DEF LoopTypes
<1>2. p.done \in SUBSET Records /\ p.renewed \in SUBSET Records
  BY <1>1 DEF Push
<1>3. /\ queued' = [queued EXCEPT ![i] = queued[i] \ p.done]
      /\ fields' = [fields EXCEPT ![i] = [r \in Records |-> IF r \in p.done THEN {} ELSE fields[i][r]]]
      /\ forgotten' = [forgotten EXCEPT ![i] = forgotten[i] \cup (p.renewed \cap p.done)]
      /\ failed' = [failed EXCEPT ![i] = IF p.conflicts # {} THEN failed[i] + 1 ELSE 0]
      /\ completed' = [completed EXCEPT ![i] = p.conflicts = {}]
      /\ pushing' = [pushing EXCEPT ![i] = NoPush] /\ at' = [at EXCEPT ![i] = "select"]
      /\ at[i] = "push" /\ p.sent = "none"
      /\ UNCHANGED <<exists, rows, known, latest, incoming, server, batch, changed, trigger>>
  BY DEF FinishPush, Pushed, StoreTypes, HistoryTypes, LoopTypes
<1>4. NoPush \in Push
  BY DEF NoPush, Push
<1> HIDE DEF p
<1>5. [r \in Records |-> IF r \in p.done THEN {} ELSE fields[i][r]] \in [Records -> SUBSET Everything]
  BY DEF StoreTypes
<1>6. StoreTypes' /\ fields'[i] = [r \in Records |-> IF r \in p.done THEN {} ELSE fields[i][r]]
  BY <1>3, <1>5 DEF StoreTypes
<1>7. failed' \in [Instances -> Nat]
  BY <1>3 DEF LoopTypes
<1>8. LoopTypes'
  BY <1>3, <1>4, <1>7 DEF LoopTypes
<1>9. HistoryTypes' /\ ServerTypes'
  BY <1>2, <1>3 DEF HistoryTypes, ServerTypes, server
<1>10. \A j \in Instances : j # i => Unaltered(j)
  BY <1>3 DEF Unaltered, StoreTypes, LoopTypes, HistoryTypes, server
<1>11. queued'[i] = queued[i] \ p.done /\ forgotten'[i] = forgotten[i] \cup (p.renewed \cap p.done)
       /\ at'[i] = "select" /\ pushing'[i] = NoPush
  BY <1>3 DEF StoreTypes, LoopTypes, HistoryTypes
<1> QED BY <1>3, <1>6, <1>8, <1>9, <1>10, <1>11 DEF p

\* The server's last revision of some records is one of theirs.
LEMMA MaxOfRecords ==
  ASSUME NEW rev \in [Records -> Nat], NEW T \in SUBSET Records, T # {}
  PROVE  /\ Max({rev[r] : r \in T}) \in {rev[r] : r \in T}
         /\ \A r \in T : rev[r] <= Max({rev[q] : q \in T})
<1> DEFINE S == {rev[r] : r \in T}
<1> DEFINE Has(A) == T \cap A = {} \/ \E m \in T \cap A : \A r \in T \cap A : rev[r] <= rev[m]
<1>0. ASSUME NEW A \in SUBSET Records, NEW x \in Records, Has(A)
      PROVE  Has(A \cup {x})
  <2>1. \A r \in T : rev[r] \in Nat
    OBVIOUS
  <2>2. CASE x \notin T
    BY <1>0, <2>2
  <2>3. CASE x \in T /\ T \cap A = {}
    BY <2>1, <2>3
  <2>4. CASE x \in T /\ T \cap A # {}
    <3>1. PICK m \in T \cap A : \A r \in T \cap A : rev[r] <= rev[m]
      BY <1>0, <2>4
    <3>2. CASE rev[x] <= rev[m]
      BY <2>1, <3>1, <3>2
    <3>3. CASE ~(rev[x] <= rev[m])
      <4>1. \A r \in T \cap (A \cup {x}) : rev[r] <= rev[x]
        BY <2>1, <2>4, <3>1, <3>3
      <4> QED BY <2>4, <4>1
    <3> QED BY <3>2, <3>3
  <2> QED BY <2>2, <2>3, <2>4
<1>1. \E m \in T : \A r \in T : rev[r] <= rev[m]
  <2>1. Has({})
    OBVIOUS
  <2> HIDE DEF Has
  <2>2. {"chain"} \in SUBSET Records /\ {"chain", "send"} \in SUBSET Records /\ {"chain", "send", "details"} \in SUBSET Records
        /\ {} \cup {"chain"} = {"chain"} /\ {"chain"} \cup {"send"} = {"chain", "send"}
        /\ {"chain", "send"} \cup {"details"} = {"chain", "send", "details"}
        /\ {"chain", "send", "details"} \cup {"index"} = Records
    BY DEF Records
  <2>3. "chain" \in Records /\ "send" \in Records /\ "details" \in Records /\ "index" \in Records
    BY DEF Records
  <2>4. Has({"chain"})
    BY <1>0, <2>1, <2>2, <2>3
  <2>5. Has({"chain", "send"})
    BY <1>0, <2>2, <2>3, <2>4
  <2>6. Has({"chain", "send", "details"})
    BY <1>0, <2>2, <2>3, <2>5
  <2>7. Has(Records)
    BY <1>0, <2>2, <2>3, <2>6
  <2> QED BY <2>7 DEF Has
<1>2. \E x \in S : \A y \in S : x >= y
  BY <1>1
<1>3. Max(S) \in S /\ \A y \in S : Max(S) >= y
  BY <1>2 DEF Max
<1>4. \A r \in T : rev[r] \in S
  OBVIOUS
<1>5. \A r \in T : rev[r] <= Max(S)
  BY <1>3, <1>4
<1> QED BY <1>3, <1>5

\* The types of what a pull merges.
LEMMA MergeTypes ==
  ASSUME Types, NEW i \in Instances, NEW r \in Records, NEW rec \in Record
  PROVE  /\ handle_decryption(i, r, rec) \in Merged /\ handle_decryption(i, r, rec).rev = rec.rev
         /\ handle_decryption(i, r, rec).data =
              IF r \in queued[i] THEN merge(r, rec.data, rows[i][r], fields[i][r]) ELSE rec.data
         /\ \A data \in SUBSET Everything : Written(i, r, data) \in SUBSET Everything
<1>1. rows[i][r] \in SUBSET Everything /\ rec.rev \in Nat /\ rec.data \in SUBSET Everything
  BY DEF Types, StoreTypes, Record
<1>2. merge(r, rec.data, rows[i][r], fields[i][r]) \in SUBSET Everything
  BY <1>1 DEF merge
<1>3. handle_decryption(i, r, rec) \in Merged
  BY <1>1, <1>2 DEF handle_decryption, Merged
<1>4. \A data \in SUBSET Everything : Written(i, r, data) \in SUBSET Everything
  BY <1>1 DEF Written
<1> QED BY <1>3, <1>4 DEF handle_decryption

\* What the pull has of a record, and whether that is new here.
Saved(i, r) == IF r \in News(i) THEN remote[r] ELSE incoming[i][r]
IsNew(i, r) == Saved(i, r).rev > known[i][r]

\* The pull is answered.
LEMMA PullAnsweredFrame ==
  ASSUME Types, ServerFormed, NEW i \in Instances, PullAnswered(i)
  PROVE  /\ Types' /\ UNCHANGED <<queued, fields, server, pushing, failed, completed, forgotten>>
         /\ \A j \in Instances : j # i => Unaltered(j)
         /\ at[i] = "pull" /\ at'[i] = "recover" /\ changed'[i] = {}
         /\ latest'[i] <= revision /\ \A r \in Records : remote[r].rev <= latest'[i]
         /\ \A r \in Records : incoming'[i][r] = IF IsNew(i, r) THEN Saved(i, r) ELSE Nothing
         /\ \A r \in Records \ {"index"} :
              /\ batch'[i][r] = IF IsNew(i, r) THEN handle_decryption(i, r, Saved(i, r)) ELSE NoBatch[r]
              /\ rows'[i][r] = rows[i][r] /\ known'[i][r] = known[i][r] /\ (r \in exists'[i] <=> r \in exists[i])
         /\ batch'[i]["index"] = NoBatch["index"]
         /\ IsNew(i, "index") =>
              /\ known'[i]["index"] = Saved(i, "index").rev /\ "index" \in exists'[i]
              /\ rows'[i]["index"] = Written(i, "index", handle_decryption(i, "index", Saved(i, "index")).data)
         /\ ~IsNew(i, "index") => /\ rows'[i]["index"] = rows[i]["index"] /\ known'[i]["index"] = known[i]["index"]
                                  /\ exists'[i] = exists[i]
<1> USE DEF Types
<1> DEFINE new == {r \in Records : IsNew(i, r)}
           decrypted == [r \in Records |-> IF r \in new THEN handle_decryption(i, r, Saved(i, r)) ELSE NoBatch[r]]
<1>1. \A r \in Records : /\ remote[r] \in Record /\ incoming[i][r] \in Record /\ Saved(i, r) \in Record
                         /\ remote[r].rev \in Nat /\ known[i][r] \in Nat
  BY DEF ServerTypes, StoreTypes, Saved, Record
<1>2. "index" \in Records /\ \A r \in Records : NoBatch[r] \in Merged
  BY DEF Records, NoBatch, Merged
<1>3. decrypted \in [Records -> Merged]
  BY <1>1, <1>2, MergeTypes
<1>4. /\ incoming' = [incoming EXCEPT ![i] = [r \in Records |-> IF r \in new THEN Saved(i, r) ELSE Nothing]]
      /\ batch' = [batch EXCEPT ![i] = [decrypted EXCEPT !["index"] = NoBatch["index"]]]
      /\ latest' = [latest EXCEPT ![i] = IF News(i) = {} THEN latest[i] ELSE Max({remote[r].rev : r \in News(i)})]
      /\ changed' = [changed EXCEPT ![i] = {}] /\ at' = [at EXCEPT ![i] = "recover"] /\ at[i] = "pull"
      /\ UNCHANGED <<queued, fields, server, pushing, failed, trigger, events, completed, forgotten>>
  <2>1. latest' = [latest EXCEPT ![i] = IF News(i) = {} THEN latest[i] ELSE Max({remote[r].rev : r \in News(i)})]
    BY DEF PullAnswered, StoreTypes
  <2>2. incoming' = [incoming EXCEPT ![i] = [r \in Records |-> IF r \in new THEN Saved(i, r) ELSE Nothing]]
    BY DEF PullAnswered, Saved, IsNew
  <2>3. batch' = [batch EXCEPT ![i] = [decrypted EXCEPT !["index"] = NoBatch["index"]]]
    BY DEF PullAnswered, Saved, IsNew
  <2> QED BY <2>1, <2>2, <2>3 DEF PullAnswered
<1>5. IF "index" \in new
      THEN /\ rows' = [rows EXCEPT ![i] = [rows[i] EXCEPT !["index"] = Written(i, "index", decrypted["index"].data)]]
           /\ exists' = [exists EXCEPT ![i] = exists[i] \cup {"index"}]
           /\ known' = [known EXCEPT ![i] = [known[i] EXCEPT !["index"] = decrypted["index"].rev]]
      ELSE UNCHANGED <<rows, exists, known>>
  BY DEF PullAnswered, Saved, IsNew, StoreTypes
<1>6. latest'[i] \in Nat /\ latest'[i] <= revision /\ \A r \in Records : remote[r].rev <= latest'[i]
  <2> DEFINE rev == [r \in Records |-> remote[r].rev]
  <2>1. latest[i] \in Nat /\ revision \in Nat /\ latest[i] <= revision /\ \A r \in Records : remote[r].rev <= revision
    BY DEF ServerTypes, StoreTypes, ServerFormed
  <2>2. CASE News(i) = {}
    BY <1>1, <1>4, <2>1, <2>2 DEF News, StoreTypes
  <2>3. CASE News(i) # {}
    <3>1. News(i) \in SUBSET Records /\ rev \in [Records -> Nat]
      BY <1>1 DEF News
    <3> DEFINE top == Max({rev[r] : r \in News(i)})
    <3>2. {rev[r] : r \in News(i)} = {remote[r].rev : r \in News(i)}
      BY <3>1
    <3>3. latest'[i] = top
      BY <1>4, <2>3, <3>2 DEF StoreTypes
    <3>4. top \in {rev[r] : r \in News(i)} /\ \A r \in News(i) : rev[r] <= top
      BY <2>3, <3>1, MaxOfRecords
    <3>5. PICK q \in News(i) : top = remote[q].rev
      BY <3>1, <3>4
    <3>6. top > latest[i] /\ top <= revision /\ top \in Nat
      BY <1>1, <2>1, <3>5 DEF News
    <3>7. ASSUME NEW r \in Records
          PROVE  remote[r].rev <= top
      <4>1. CASE r \in News(i)
        BY <3>4, <4>1
      <4>2. CASE r \notin News(i)
        BY <1>1, <2>1, <3>6, <4>2 DEF News
      <4> QED BY <4>1, <4>2
    <3> QED BY <3>3, <3>6, <3>7
  <2> QED BY <2>2, <2>3
<1>7. decrypted["index"] \in Merged
  BY <1>2, <1>3
<1> HIDE DEF decrypted
<1>8. [decrypted EXCEPT !["index"] = NoBatch["index"]] \in [Records -> Merged]
  BY <1>2, <1>3
<1>9. LoopTypes'
  BY <1>4, <1>8 DEF LoopTypes
<1>10. decrypted["index"].rev \in Nat /\ decrypted["index"].data \in SUBSET Everything
  BY <1>7 DEF Merged
<1>11. Written(i, "index", decrypted["index"].data) \in SUBSET Everything
  BY <1>1, <1>2, <1>10, MergeTypes
<1>12. rows' \in [Instances -> [Records -> SUBSET Everything]]
  <2>1. [rows[i] EXCEPT !["index"] = Written(i, "index", decrypted["index"].data)] \in [Records -> SUBSET Everything]
    BY <1>11 DEF StoreTypes
  <2> QED BY <1>5, <2>1 DEF StoreTypes
<1>13. exists' \in [Instances -> SUBSET Records] /\ known' \in [Instances -> [Records -> Nat]]
  <2>1. [known[i] EXCEPT !["index"] = decrypted["index"].rev] \in [Records -> Nat]
    BY <1>10 DEF StoreTypes
  <2>2. known' \in [Instances -> [Records -> Nat]]
    BY <1>5, <2>1 DEF StoreTypes
  <2>3. exists' \in [Instances -> SUBSET Records]
    BY <1>2, <1>5 DEF StoreTypes
  <2> QED BY <2>2, <2>3
<1>14. Nothing \in Record
  BY DEF Nothing, Record
<1>15. [r \in Records |-> IF r \in new THEN Saved(i, r) ELSE Nothing] \in [Records -> Record]
  BY <1>1, <1>14
<1> HIDE DEF new
<1>16. incoming' \in [Instances -> [Records -> Record]]
  BY <1>4, <1>15 DEF StoreTypes
<1>17. latest' \in [Instances -> Nat]
  BY <1>4, <1>6 DEF StoreTypes
<1>18. StoreTypes' /\ ServerTypes' /\ HistoryTypes'
  BY <1>4, <1>12, <1>13, <1>16, <1>17 DEF StoreTypes, ServerTypes, HistoryTypes, server
<1>19. \A j \in Instances : j # i => Unaltered(j)
  BY <1>4, <1>5 DEF Unaltered, StoreTypes, LoopTypes, server
<1>20. /\ at'[i] = "recover" /\ changed'[i] = {}
       /\ incoming'[i] = [r \in Records |-> IF r \in new THEN Saved(i, r) ELSE Nothing]
       /\ batch'[i] = [decrypted EXCEPT !["index"] = NoBatch["index"]]
  BY <1>4 DEF LoopTypes, StoreTypes
<1>21. \A r \in Records : incoming'[i][r] = IF IsNew(i, r) THEN Saved(i, r) ELSE Nothing
  BY <1>20 DEF new
<1>22. /\ batch'[i]["index"] = NoBatch["index"]
       /\ \A r \in Records \ {"index"} : batch'[i][r] = decrypted[r]
  BY <1>2, <1>3, <1>20
<1>23. \A r \in Records : decrypted[r] = IF IsNew(i, r) THEN handle_decryption(i, r, Saved(i, r)) ELSE NoBatch[r]
  BY DEF decrypted, new
<1>24. \A r \in Records \ {"index"} : rows'[i][r] = rows[i][r] /\ known'[i][r] = known[i][r] /\ (r \in exists'[i] <=> r \in exists[i])
  BY <1>5 DEF StoreTypes
<1>25. IsNew(i, "index") =>
         /\ known'[i]["index"] = Saved(i, "index").rev /\ "index" \in exists'[i]
         /\ rows'[i]["index"] = Written(i, "index", handle_decryption(i, "index", Saved(i, "index")).data)
  <2> SUFFICES ASSUME IsNew(i, "index") PROVE /\ known'[i]["index"] = Saved(i, "index").rev /\ "index" \in exists'[i]
         /\ rows'[i]["index"] = Written(i, "index", handle_decryption(i, "index", Saved(i, "index")).data)
    OBVIOUS
  <2>1. "index" \in new /\ decrypted["index"] = handle_decryption(i, "index", Saved(i, "index"))
    BY <1>2, <1>23 DEF new
  <2>2. decrypted["index"].rev = Saved(i, "index").rev
    BY <1>1, <1>2, <2>1, MergeTypes
  <2>3. /\ rows'[i] = [rows[i] EXCEPT !["index"] = Written(i, "index", decrypted["index"].data)]
        /\ exists'[i] = exists[i] \cup {"index"}
        /\ known'[i] = [known[i] EXCEPT !["index"] = decrypted["index"].rev]
    BY <1>5, <2>1 DEF StoreTypes
  <2> QED BY <1>2, <2>1, <2>2, <2>3 DEF StoreTypes
<1>26. ~IsNew(i, "index") => rows' = rows /\ known' = known /\ exists' = exists
  BY <1>5 DEF new
<1> QED BY <1>4, <1>6, <1>9, <1>18, <1>19, <1>20, <1>21, <1>22, <1>23, <1>24, <1>25, <1>26

\* What was merged is written, and the push begins.
LEMMA CommitFrame ==
  ASSUME Types, NEW i \in Instances, Commit(i)
  PROVE  /\ Types' /\ UNCHANGED <<queued, fields, latest, server, failed, completed, forgotten>>
         /\ \A j \in Instances : j # i => Unaltered(j)
         /\ at[i] = "recover" /\ at'[i] = "push" /\ batch'[i] = NoBatch /\ changed'[i] = {}
         /\ pushing'[i].sent = pushing[i].sent /\ pushing'[i].done = pushing[i].done
         /\ pushing'[i].rev = pushing[i].rev /\ pushing'[i].data = pushing[i].data
         /\ pushing'[i].renewed = pushing[i].renewed
         /\ \A r \in Records : r \in exists'[i] <=> r \in exists[i] \/ Committable(i, r)
         /\ \A r \in Records : Committable(i, r) =>
              rows'[i][r] = Written(i, r, batch[i][r].data) /\ known'[i][r] = batch[i][r].rev /\ incoming'[i][r] = Nothing
         /\ \A r \in Records : ~Committable(i, r) =>
              rows'[i][r] = rows[i][r] /\ known'[i][r] = known[i][r] /\ incoming'[i][r] = incoming[i][r]
<1> USE DEF Types
<1> DEFINE ok == {r \in Records : Committable(i, r)}
           row == [r \in Records |-> IF r \in ok THEN Written(i, r, batch[i][r].data) ELSE rows[i][r]]
           seen == [r \in Records |-> IF r \in ok THEN batch[i][r].rev ELSE known[i][r]]
           left == [r \in Records |-> IF r \in ok THEN Nothing ELSE incoming[i][r]]
<1>1. /\ exists' = [exists EXCEPT ![i] = exists[i] \cup ok] /\ rows' = [rows EXCEPT ![i] = row]
      /\ known' = [known EXCEPT ![i] = seen] /\ incoming' = [incoming EXCEPT ![i] = left]
  BY DEF Commit, StoreTypes
<1>2. /\ batch' = [batch EXCEPT ![i] = NoBatch] /\ changed' = [changed EXCEPT ![i] = {}]
      /\ at' = [at EXCEPT ![i] = "push"] /\ at[i] = "recover"
      /\ pushing' = [pushing EXCEPT ![i] = [pushing[i] EXCEPT !.todo = queued[i]]]
      /\ UNCHANGED <<queued, fields, latest, server, failed, trigger, events, completed, forgotten>>
  BY DEF Commit, LoopTypes
<1>3. NoBatch \in [Records -> Merged] /\ Nothing \in Record
  BY DEF NoBatch, Merged, Nothing, Record
<1>4. \A r \in Records : /\ batch[i][r].rev \in Nat /\ batch[i][r].data \in SUBSET Everything
                         /\ rows[i][r] \in SUBSET Everything /\ known[i][r] \in Nat /\ incoming[i][r] \in Record
  BY DEF LoopTypes, StoreTypes, Merged
<1>5. \A r \in Records : Written(i, r, batch[i][r].data) \in SUBSET Everything
  BY <1>4 DEF Written
<1>6. row \in [Records -> SUBSET Everything] /\ seen \in [Records -> Nat] /\ left \in [Records -> Record]
  <2>1. row \in [Records -> SUBSET Everything]
    BY <1>4, <1>5
  <2>2. seen \in [Records -> Nat]
    BY <1>4
  <2>3. left \in [Records -> Record]
    BY <1>3, <1>4
  <2> QED BY <2>1, <2>2, <2>3
<1>7. \A r \in Records : /\ r \in ok <=> Committable(i, r)
                         /\ r \in ok => row[r] = Written(i, r, batch[i][r].data) /\ seen[r] = batch[i][r].rev /\ left[r] = Nothing
                         /\ r \notin ok => row[r] = rows[i][r] /\ seen[r] = known[i][r] /\ left[r] = incoming[i][r]
  OBVIOUS
<1>8. ok \in SUBSET Records
  OBVIOUS
<1> HIDE DEF row, seen, left, ok
<1>9. /\ exists'[i] = exists[i] \cup ok /\ rows'[i] = row /\ known'[i] = seen /\ incoming'[i] = left
      /\ at'[i] = "push" /\ batch'[i] = NoBatch /\ changed'[i] = {}
      /\ pushing'[i] = [pushing[i] EXCEPT !.todo = queued[i]]
  BY <1>1, <1>2 DEF StoreTypes, LoopTypes
<1>10. pushing[i] \in Push /\ queued[i] \in SUBSET Records
  BY DEF LoopTypes, StoreTypes
<1>11. /\ pushing'[i] \in Push /\ pushing'[i].sent = pushing[i].sent /\ pushing'[i].done = pushing[i].done
       /\ pushing'[i].rev = pushing[i].rev /\ pushing'[i].data = pushing[i].data
       /\ pushing'[i].renewed = pushing[i].renewed
  BY <1>9, <1>10 DEF Push
<1>12. LoopTypes'
  BY <1>2, <1>3, <1>11 DEF LoopTypes
<1>13. exists' \in [Instances -> SUBSET Records]
  BY <1>1, <1>8 DEF StoreTypes
<1>14. StoreTypes'
  BY <1>1, <1>2, <1>6, <1>13 DEF StoreTypes
<1>15. ServerTypes' /\ HistoryTypes'
  BY <1>2 DEF ServerTypes, HistoryTypes, server
<1>16. \A j \in Instances : j # i => Unaltered(j)
  BY <1>1, <1>2 DEF Unaltered, StoreTypes, LoopTypes, server
<1> QED BY <1>2, <1>7, <1>9, <1>11, <1>12, <1>14, <1>15, <1>16

-----------------------------------------------------------------------------
(* Every step keeps the invariant of the instance that takes it *)

\* What the parts compare.
LEMMA Numbers ==
  ASSUME Types, NEW i \in Instances, NEW r \in Records
  PROVE  /\ remote[r].rev \in Nat /\ revision \in Nat /\ known[i][r] \in Nat /\ latest[i] \in Nat /\ failed[i] \in Nat
         /\ incoming[i][r].rev \in Nat /\ batch[i][r].rev \in Nat /\ pushing[i].rev \in Nat
         /\ remote[r] \in Record /\ incoming[i][r] \in Record /\ pushing[i].sent \in Records \cup {"none"}
  BY DEF Types, ServerTypes, StoreTypes, LoopTypes, Record, Merged, Push

\* What a reset or a pull leaves is nothing.
LEMMA Nothings ==
  /\ Nothing.rev = 0 /\ Nothing.data = {} /\ NoPush.sent = "none" /\ NoPush.done = {}
  /\ \A r \in Records : NoBatch[r].rev = 0 /\ NoBatch[r].data = {}
  BY DEF Nothing, NoPush, NoBatch

\* A pull, a recovery, a run or a listener that breaks leaves what was stored as it is.
LEMMA GiveUpKeeps ==
  ASSUME Bounds, SyncInv, NEW i \in Instances, PullFails(i) \/ RecoveryFails(i) \/ Restart(i) \/ ListenerBreaks(i)
  PROVE  Control(i)' /\ \A r \in Records : Parts(i, r)'
<1>1. /\ Types /\ Types' /\ at'[i] = "select" /\ UNCHANGED <<stores, remote, revision, forgotten>> /\ Control(i)
      /\ \/ at[i] \in {"pull", "recover"} /\ completed' = completed /\ notice' = notice
            /\ pushing' = pushing /\ failed' = failed
            /\ batch'[i] = IF at[i] = "recover" THEN NoBatch ELSE batch[i]
         \/ ~completed'[i] /\ pushing'[i] = NoPush /\ batch'[i] = NoBatch /\ failed'[i] = 0
  BY GiveUpFrame DEF SyncInv
<1>2. pushing'[i] = NoPush /\ batch'[i] = NoBatch /\ ~completed'[i] /\ ~(failed'[i] > MaxFailedPush)
  <2>1. failed[i] \in Nat
    BY <1>1 DEF Types, LoopTypes
  <2> QED BY <1>1, <2>1 DEF Control, Bounds
<1>3. Control(i)'
  BY <1>1, <1>2, Nothings DEF Control, Records
<1>4. ASSUME NEW r \in Records
      PROVE  Parts(i, r)'
  <2>1. Parts(i, r)
    BY DEF SyncInv
  <2>2. Behind(i, r)' <=> Behind(i, r)
    BY <1>1 DEF Behind, Remote, stores
  <2>3. Formed(i, r)' /\ Seen(i, r)' /\ IsQueued(i, r)'
    BY <1>1, <1>2, <2>1, <2>2, Nothings DEF Parts, Formed, Seen, IsQueued, Covered, stores, Records
  <2>4. IsPulled(i, r)'
    BY <1>1, <1>2, <2>1, <2>2 DEF Parts, IsPulled, stores
  <2>5. IsMerged(i, r)' /\ IsPushed(i, r)'
    BY <1>1, <1>2, Nothings DEF IsMerged, IsPushed, Records
  <2>6. WillHear(i, r)'
    BY <1>1, <1>2 DEF WillHear
  <2> QED BY <2>3, <2>4, <2>5, <2>6 DEF Parts
<1> QED BY <1>3, <1>4

\* A new run starts with a pull, whatever woke it.
LEMMA RunEventLoopKeeps ==
  ASSUME Bounds, SyncInv, NEW i \in Instances, RunEventLoop(i)
  PROVE  Control(i)' /\ \A r \in Records : Parts(i, r)'
<1>1. /\ Types /\ Types' /\ Control(i) /\ ServerFormed
      /\ at[i] = "select" /\ at'[i] = "pull" /\ ~completed'[i]
      /\ UNCHANGED <<exists, rows, latest, remote, revision, batch, changed, pushing>>
  BY RunEventLoopFrame DEF SyncInv, RunEventLoop
<1>2. \/ /\ failed[i] > MaxFailedPush /\ failed'[i] = 0
         /\ queued'[i] = exists[i] \cap SwapRecords /\ forgotten'[i] = forgotten[i] \cup queued[i]
         /\ \A r \in Records : /\ fields'[i][r] = IF r \in exists[i] \cap SwapRecords THEN NoFields ELSE {}
                               /\ known'[i][r] = 0 /\ incoming'[i][r] = Nothing
      \/ ~(failed[i] > MaxFailedPush) /\ UNCHANGED <<queued, fields, known, incoming, forgotten, failed>>
  BY <1>1, RunEventLoopFrame
<1>3. pushing'[i] = NoPush /\ batch'[i] = NoBatch /\ ~(failed'[i] > MaxFailedPush)
  <2>1. failed[i] \in Nat
    BY <1>1 DEF Types, LoopTypes
  <2> QED BY <1>1, <1>2, <2>1 DEF Control, Bounds
<1>4. Control(i)'
  BY <1>1, <1>3, Nothings DEF Control, Records
<1>5. ASSUME NEW r \in Records
      PROVE  Parts(i, r)'
  <2>1. Parts(i, r)
    BY DEF SyncInv
  <2>2. Behind(i, r)' <=> Behind(i, r)
    BY <1>1 DEF Behind, Remote
  <2>3. IsMerged(i, r)' /\ IsPushed(i, r)' /\ WillHear(i, r)'
    BY <1>1, <1>3, Nothings DEF IsMerged, IsPushed, WillHear, Records
  <2>4. CASE ~(failed[i] > MaxFailedPush) /\ UNCHANGED <<queued, fields, known, incoming, forgotten, failed>>
    <3>1. Formed(i, r)' /\ Seen(i, r)' /\ IsQueued(i, r)'
      BY <1>1, <2>1, <2>2, <2>4 DEF Parts, Formed, Seen, IsQueued, Covered
    <3>2. IsPulled(i, r)'
      BY <1>1, <2>1, <2>2, <2>4 DEF Parts, IsPulled
    <3> QED BY <2>3, <3>1, <3>2 DEF Parts
  <2>5. CASE /\ failed[i] > MaxFailedPush /\ failed'[i] = 0
             /\ queued'[i] = exists[i] \cap SwapRecords /\ forgotten'[i] = forgotten[i] \cup queued[i]
             /\ \A q \in Records : /\ fields'[i][q] = IF q \in exists[i] \cap SwapRecords THEN NoFields ELSE {}
                                   /\ known'[i][q] = 0 /\ incoming'[i][q] = Nothing
    <3>1. /\ fields'[i][r] = IF r \in exists[i] \cap SwapRecords THEN NoFields ELSE {}
          /\ known'[i][r] = 0 /\ incoming'[i][r] = Nothing /\ incoming'[i][r].rev = 0 /\ incoming'[i][r].data = {}
      BY <2>5, Nothings
    <3>2. remote[r].rev \in Nat /\ known[i][r] \in Nat /\ incoming[i][r].rev \in Nat /\ latest[i] \in Nat
      BY <1>1, Numbers
    <3>3. NoFields # {} /\ "details" \notin SwapRecords /\ "index" \notin SwapRecords
      BY DEF NoFields, SwapRecords
    <3>4. Formed(i, r)'
      BY <1>1, <1>3, <2>1, <2>5, <3>1, <3>3 DEF Parts, Formed
    <3>5. remote[r].rev = 0 => remote[r].data = {} /\ ~Behind(i, r)
      BY <1>1 DEF ServerFormed, Behind, Remote
    <3>6. Seen(i, r)'
      BY <1>1, <2>2, <3>1, <3>2, <3>5 DEF Seen
    <3>7. IsQueued(i, r)'
      <4>1. r \notin forgotten'[i] => r \notin forgotten[i] /\ r \notin queued[i] /\ Covered(i, r) = {}
        BY <2>1, <2>5 DEF Parts, Formed, Covered
      <4> QED BY <1>1, <2>1, <3>1, <4>1 DEF Parts, IsQueued
    <3>8. IsPulled(i, r)'
      <4>1. Behind(i, r) /\ r \notin forgotten'[i] /\ remote[r].rev <= latest[i] => FALSE
        BY <2>1, <2>5, <3>2 DEF Parts, IsPulled, Seen
      <4> QED BY <1>1, <1>3, <2>2, <3>1, <3>2, <3>5, <4>1 DEF IsPulled
    <3> QED BY <2>3, <3>4, <3>6, <3>7, <3>8 DEF Parts
  <2> QED BY <1>2, <2>4, <2>5
<1> QED BY <1>4, <1>5

\* A push sends the row as it is, on top of the revision the instance knows.
LEMMA SendRecordKeeps ==
  ASSUME SyncInv, NEW i \in Instances, NEW q \in Records, SendRecord(i, q)
  PROVE  Control(i)' /\ \A r \in Records : Parts(i, r)'
<1>1. /\ Types /\ Types' /\ UNCHANGED <<stores, server, at, batch, changed, failed, completed, forgotten>>
      /\ at[i] = "push" /\ pushing'[i].renewed = pushing[i].renewed
      /\ pushing'[i].sent = q /\ pushing'[i].rev = known[i][q] /\ pushing'[i].data = rows[i][q]
      /\ pushing'[i].done = pushing[i].done
  BY SendRecordFrame DEF SyncInv
<1>2. Control(i)'
  BY <1>1 DEF SyncInv, Control
<1>3. ASSUME NEW r \in Records
      PROVE  Parts(i, r)'
  <2>1. Parts(i, r)
    BY DEF SyncInv
  <2>2. Behind(i, r)' <=> Behind(i, r)
    BY <1>1 DEF Behind, Remote, stores, server
  <2>3. Formed(i, r)' /\ Seen(i, r)' /\ IsQueued(i, r)'
    BY <1>1, <2>1, <2>2 DEF Parts, Formed, Seen, IsQueued, Covered, stores, server
  <2>4. IsPulled(i, r)' /\ IsMerged(i, r)' /\ WillHear(i, r)'
    BY <1>1, <2>1, <2>2 DEF Parts, IsPulled, IsMerged, WillHear, stores, server
  <2>5. IsPushed(i, r)'
    BY <1>1, <2>1 DEF Parts, IsPushed, Seen, Behind, Remote, stores, server
  <2> QED BY <2>3, <2>4, <2>5 DEF Parts
<1> QED BY <1>2, <1>3

\* The server takes a record only on top of its own revision, and tells everybody else of it.
LEMMA PushAnsweredKeeps ==
  ASSUME SyncInv, NEW i \in Instances, PushAccepted(i) \/ PushConflicts(i) \/ PushFails(i)
  PROVE  ServerStep(i) /\ Control(i)' /\ \A r \in Records : Parts(i, r)'
<1> DEFINE q == pushing[i].sent
<1>1. /\ Types /\ Types' /\ q \in Records
      /\ UNCHANGED <<exists, rows, queued, fields, latest, incoming, at, batch, changed, failed, completed, forgotten>>
      /\ notice'[i] = notice[i] /\ pushing'[i].renewed = pushing[i].renewed /\ pushing'[i].sent = "none"
      /\ \/ /\ SetRecord(i, q) /\ pushing'[i].done = pushing[i].done \cup {q} /\ known'[i][q] = revision + 1
            /\ \A r \in Records : r # q => known'[i][r] = known[i][r]
         \/ (SetRecord(i, q) \/ UNCHANGED server) /\ known' = known /\ pushing'[i].done = pushing[i].done
  BY PushAnswered DEF SyncInv
<1>2. ServerFormed /\ Control(i) /\ Parts(i, q)
  BY <1>1 DEF SyncInv
<1>3. "none" \notin Records /\ "none" # q /\ NoPush.sent = "none"
  BY <1>1, FieldsOfRecords, Nothings
<1>4. at[i] = "push"
  BY <1>2, <1>3 DEF Control
<1>5. SetRecord(i, q) => /\ Accepted(i, q) /\ remote'[q].data = pushing[i].data /\ remote'[q].data \subseteq rows[i][q]
                         /\ q \notin pushing[i].renewed => rows[i][q] \subseteq remote'[q].data
                         /\ \A r \in Records : r # q => remote'[r] = remote[r]
                         /\ revision' = revision + 1
  <2> SUFFICES ASSUME SetRecord(i, q)
               PROVE  /\ Accepted(i, q) /\ remote'[q].data = pushing[i].data /\ remote'[q].data \subseteq rows[i][q]
                      /\ q \notin pushing[i].renewed => rows[i][q] \subseteq remote'[q].data
                      /\ \A r \in Records : r # q => remote'[r] = remote[r]
                      /\ revision' = revision + 1
    OBVIOUS
  <2>1. /\ pushing[i].rev = remote[q].rev /\ revision' = revision + 1
        /\ remote' = [remote EXCEPT ![q] = [rev |-> revision + 1, data |-> pushing[i].data]]
        /\ notice' = [j \in Instances |-> notice[j] \/ j # i]
    BY DEF SetRecord
  <2>2. /\ remote'[q].rev = revision + 1 /\ remote'[q].data = pushing[i].data
        /\ \A r \in Records : r # q => remote'[r] = remote[r]
    BY <1>1, <2>1 DEF Types, ServerTypes
  <2>3. /\ pushing[i].data \subseteq Fields[q] /\ Remote(q) \subseteq pushing[i].data /\ pushing[i].data \subseteq rows[i][q]
        /\ q \notin pushing[i].renewed => rows[i][q] \subseteq pushing[i].data
    BY <1>2, <2>1 DEF Parts, Formed, IsPushed
  <2>4. \A j \in Instances : j # i => notice'[j]
    BY <2>1
  <2> QED BY <2>1, <2>2, <2>3, <2>4 DEF Accepted
<1>6. revision \in Nat
  BY <1>1 DEF Types, ServerTypes
<1>7. ServerStep(i)
  BY <1>1, <1>5, <1>6 DEF ServerStep, server
<1>8. Control(i)'
  BY <1>1, <1>2, <1>4 DEF Control
<1> HIDE DEF q
<1>9. ASSUME NEW r \in Records
      PROVE  Parts(i, r)'
  <2>1. Parts(i, r) /\ Stored(r) \subseteq Fields[r]
    BY FieldsOfRecords DEF SyncInv
  <2>2. /\ remote[r].rev \in Nat /\ known[i][r] \in Nat /\ incoming[i][r].rev \in Nat /\ latest[i] \in Nat
        /\ remote[r].rev <= revision /\ latest[i] <= revision
    BY <1>1, <1>2, Numbers DEF ServerFormed
  <2>3. CASE remote'[r] = remote[r]
    <3>1. known'[i][r] = known[i][r] /\ (r \in pushing'[i].done <=> r \in pushing[i].done)
      BY <1>1, <1>5, <1>6, <2>2, <2>3 DEF Accepted
    <3>2. Behind(i, r)' <=> Behind(i, r)
      BY <1>1, <2>3 DEF Behind, Remote
    <3>3. Formed(i, r)' /\ Seen(i, r)' /\ IsQueued(i, r)'
      BY <1>1, <1>3, <2>1, <2>3, <3>1, <3>2 DEF Parts, Formed, Seen, IsQueued, Covered
    <3>4. IsPulled(i, r)' /\ WillHear(i, r)'
      BY <1>1, <2>1, <2>3, <3>1, <3>2 DEF Parts, IsPulled, WillHear
    <3>5. IsMerged(i, r)' /\ IsPushed(i, r)'
      BY <1>1, <1>3, <1>4, <2>1, <2>3, <3>1 DEF Parts, IsMerged, IsPushed
    <3> QED BY <3>3, <3>4, <3>5 DEF Parts
  <2>4. CASE remote'[r] # remote[r]
    <3>1. r = q /\ SetRecord(i, q)
      BY <1>1, <1>5, <2>4 DEF server
    <3>2. /\ remote'[r].rev = revision + 1 /\ Remote(r) \subseteq remote'[r].data /\ remote'[r].data \subseteq rows[i][r]
          /\ remote'[r].data \subseteq Fields[r]
          /\ known'[i][r] \in {known[i][r], revision + 1}
          /\ r \notin pushing[i].renewed => rows[i][r] \subseteq remote'[r].data
      BY <1>1, <1>5, <3>1 DEF Accepted
    <3>3. ~Behind(i, r)'
      BY <1>1, <3>2 DEF Behind, Remote
    <3>4. known[i][r] <= remote[r].rev /\ incoming[i][r].rev <= remote[r].rev
      BY <2>1 DEF Parts, Seen, IsPulled
    <3>5. Formed(i, r)' /\ IsQueued(i, r)'
      BY <1>1, <1>3, <2>1, <3>2 DEF Parts, Formed, IsQueued, Covered, Remote
    <3>6. Seen(i, r)'
      BY <1>6, <2>2, <3>2, <3>3, <3>4 DEF Seen
    <3>7. IsPulled(i, r)'
      BY <1>1, <1>4, <1>6, <2>1, <2>2, <3>2, <3>3, <3>4 DEF IsPulled, Parts
    <3>8. IsMerged(i, r)' /\ WillHear(i, r)'
      BY <1>1, <1>4, <3>3 DEF IsMerged, WillHear
    <3>9. IsPushed(i, r)'
      <4>1. r \in pushing'[i].done => incoming[i][r].rev <= known'[i][r]
        BY <1>1, <1>6, <2>1, <2>2, <3>1, <3>4 DEF Parts, IsPushed
      <4>2. r \in pushing'[i].done /\ r \notin pushing[i].renewed => rows[i][r] \cap Stored(r) \subseteq remote'[r].data
        BY <3>2
      <4> QED BY <1>1, <1>3, <4>1, <4>2 DEF IsPushed
    <3> QED BY <3>5, <3>6, <3>7, <3>8, <3>9 DEF Parts
  <2> QED BY <2>3, <2>4
<1> QED BY <1>7, <1>8, <1>9

\* Only what the server took leaves the queue.
LEMMA FinishPushKeeps ==
  ASSUME SyncInv, NEW i \in Instances, FinishPush(i)
  PROVE  Control(i)' /\ \A r \in Records : Parts(i, r)'
<1>1. /\ Types /\ Types' /\ UNCHANGED <<exists, rows, known, latest, incoming, server, batch, changed>>
      /\ at[i] = "push" /\ at'[i] = "select" /\ pushing'[i] = NoPush
      /\ queued'[i] = queued[i] \ pushing[i].done
      /\ \A r \in Records : fields'[i][r] = IF r \in pushing[i].done THEN {} ELSE fields[i][r]
      /\ forgotten'[i] = forgotten[i] \cup (pushing[i].renewed \cap pushing[i].done)
  BY FinishPushFrame DEF SyncInv
<1>2. Control(i)'
  BY <1>1 DEF SyncInv, Control
<1>3. ASSUME NEW r \in Records
      PROVE  Parts(i, r)'
  <2>1. Parts(i, r)
    BY DEF SyncInv
  <2>2. Behind(i, r)' <=> Behind(i, r)
    BY <1>1 DEF Behind, Remote, server
  <2>3. remote[r].rev \in Nat /\ known[i][r] \in Nat /\ incoming[i][r].rev \in Nat /\ latest[i] \in Nat
    BY <1>1, Numbers
  <2>4. Formed(i, r)' /\ Seen(i, r)'
    BY <1>1, <2>1, <2>2, Nothings DEF Parts, Formed, Seen, Records, server
  <2>5. IsQueued(i, r)'
    BY <1>1, <2>1 DEF Parts, IsQueued, IsPushed, Covered, server
  <2>6. incoming[i][r].rev <= known[i][r] \/ r \in queued'[i]
    BY <1>1, <2>1 DEF Parts, IsPulled, IsPushed
  <2>7. IsPulled(i, r)'
    BY <1>1, <2>1, <2>2, <2>6 DEF Parts, IsPulled, server
  <2>8. IsMerged(i, r)' /\ IsPushed(i, r)'
    BY <1>1, Nothings DEF IsMerged, IsPushed, Records
  <2>9. WillHear(i, r)'
    <3>1. Behind(i, r) /\ remote[r].rev > latest[i] => notice[i]
      BY <1>1, <2>1 DEF Parts, WillHear
    <3>2. ASSUME Behind(i, r), ~notice[i], r \notin forgotten'[i]
          PROVE  r \in queued'[i]
      <4>1. remote[r].rev <= latest[i]
        BY <2>3, <3>1, <3>2
      <4>2. incoming[i][r].rev = remote[r].rev
        BY <1>1, <2>1, <3>2, <4>1 DEF Parts, IsPulled
      <4>3. ~(incoming[i][r].rev <= known[i][r])
        BY <2>1, <2>3, <3>2, <4>2 DEF Parts, Seen
      <4> QED BY <2>6, <4>3
    <3> QED BY <1>1, <2>2, <3>1, <3>2 DEF WillHear, server
  <2> QED BY <2>4, <2>5, <2>7, <2>8, <2>9 DEF Parts
<1> QED BY <1>2, <1>3

\* A merged batch keeps the fields of the row, and what was pulled is known from now on.
LEMMA CommitKeeps ==
  ASSUME SyncInv, NEW i \in Instances, Commit(i)
  PROVE  /\ Control(i)' /\ \A r \in Records : Parts(i, r)'
         /\ \A r \in Records : r \notin forgotten[i] => rows[i][r] \subseteq rows'[i][r]
<1>1. /\ Types /\ Types' /\ UNCHANGED <<queued, fields, latest, server, failed, completed, forgotten>>
      /\ at[i] = "recover" /\ at'[i] = "push" /\ batch'[i] = NoBatch /\ changed'[i] = {}
      /\ pushing'[i].sent = pushing[i].sent /\ pushing'[i].done = pushing[i].done
      /\ pushing'[i].renewed = pushing[i].renewed
      /\ \A r \in Records : r \in exists'[i] <=> r \in exists[i] \/ Committable(i, r)
      /\ \A r \in Records : Committable(i, r) =>
           rows'[i][r] = Written(i, r, batch[i][r].data) /\ known'[i][r] = batch[i][r].rev /\ incoming'[i][r] = Nothing
      /\ \A r \in Records : ~Committable(i, r) =>
           rows'[i][r] = rows[i][r] /\ known'[i][r] = known[i][r] /\ incoming'[i][r] = incoming[i][r]
  BY CommitFrame DEF SyncInv
<1>2. Control(i) /\ pushing[i] = NoPush
  BY <1>1 DEF SyncInv, Control
<1>3. Control(i)'
  BY <1>1, <1>2, Nothings DEF Control, Records
<1>4. ASSUME NEW r \in Records
      PROVE  Parts(i, r)' /\ (r \notin forgotten[i] => rows[i][r] \subseteq rows'[i][r])
  <2>1. Parts(i, r) /\ Stored(r) \subseteq Fields[r] /\ (r \in SwapRecords => NoFields \cap Fields[r] = {})
    BY FieldsOfRecords DEF SyncInv
  <2>2. /\ remote[r].rev \in Nat /\ known[i][r] \in Nat /\ incoming[i][r].rev \in Nat /\ latest[i] \in Nat
        /\ batch[i][r].rev \in Nat
    BY <1>1, Numbers
  <2>3. IsMerged(i, r)' /\ IsPushed(i, r)'
    BY <1>1, <1>2, Nothings DEF IsMerged, IsPushed, Records
  <2>4. CASE ~Committable(i, r)
    <3>1. /\ rows'[i][r] = rows[i][r] /\ known'[i][r] = known[i][r] /\ incoming'[i][r] = incoming[i][r]
          /\ r \in exists'[i] <=> r \in exists[i]
      BY <1>1, <2>4
    <3>2. Behind(i, r)' <=> Behind(i, r)
      BY <1>1, <3>1 DEF Behind, Remote, server
    <3>3. Formed(i, r)' /\ Seen(i, r)' /\ IsQueued(i, r)'
      BY <1>1, <1>2, <2>1, <3>1, <3>2, Nothings DEF Parts, Formed, Seen, IsQueued, Covered, server, Records
    <3>4. incoming[i][r].rev <= known[i][r] \/ r \in queued[i]
      <4>1. CASE r = "index"
        BY <1>1, <2>1, <4>1 DEF Parts, IsPulled
      <4>2. CASE r # "index" /\ incoming[i][r].rev > known[i][r]
        <5>1. batch[i][r].rev > 0
          BY <1>1, <2>1, <2>2, <4>2 DEF Parts, IsPulled
        <5>2. r \in changed[i]
          BY <2>4, <5>1 DEF Committable, commit_incoming_swap, check_commit_update
        <5> QED BY <1>1, <1>2, <5>2 DEF Control
      <4> QED BY <2>2, <4>1, <4>2
    <3>5. IsPulled(i, r)'
      BY <1>1, <2>1, <3>1, <3>2, <3>4 DEF Parts, IsPulled, server
    <3>6. WillHear(i, r)'
      BY <1>1, <2>1, <3>2 DEF Parts, WillHear, server
    <3> QED BY <2>3, <3>1, <3>3, <3>5, <3>6 DEF Parts
  <2>5. CASE Committable(i, r)
    <3>1. /\ rows'[i][r] = Written(i, r, batch[i][r].data) /\ known'[i][r] = batch[i][r].rev
          /\ incoming'[i][r].rev = 0 /\ incoming'[i][r].data = {} /\ r \in exists'[i]
      BY <1>1, <2>5, Nothings
    <3>2. batch[i][r].rev > 0 /\ r # "index" /\ (r \in SwapRecords => r \notin changed[i])
      BY <1>2, <2>2, <2>5 DEF Committable, commit_incoming_swap, Control
    <3>3. batch[i][r].rev = incoming[i][r].rev /\ incoming[i][r].rev > known[i][r] /\ incoming[i][r].rev <= remote[r].rev
      BY <1>1, <2>1, <2>2, <3>2 DEF Parts, IsPulled
    <3>4. /\ batch[i][r].rev = remote[r].rev => Remote(r) \subseteq batch[i][r].data
          /\ r \notin forgotten[i] => (batch[i][r].data \cap Stored(r)) \ Covered(i, r) \subseteq remote[r].data
          /\ r \in SwapRecords =>
               /\ fields[i][r] \ NoFields \subseteq batch[i][r].data
               /\ r \notin forgotten[i] => rows[i][r] \cap Stored(r) \subseteq batch[i][r].data
      BY <1>1, <2>1, <3>2 DEF Parts, IsMerged
    <3>5. r \in SwapRecords \/ r = "details"
      BY <3>2 DEF Records, SwapRecords
    <3>6. /\ r \in SwapRecords => rows'[i][r] = (batch[i][r].data \cap Stored(r)) \cup (rows[i][r] \ Stored(r))
          /\ r \notin SwapRecords => rows'[i][r] = rows[i][r] \cup batch[i][r].data
          /\ rows'[i][r] \subseteq rows[i][r] \cup batch[i][r].data
          /\ batch[i][r].data \cap Stored(r) \subseteq rows'[i][r]
      BY <3>1, <3>2, <3>5 DEF Written, SwapRecords
    <3>7. Formed(i, r)'
      BY <1>1, <1>2, <2>1, <3>1, <3>6, Nothings DEF Parts, Formed, Records
    <3>8. batch[i][r].rev = remote[r].rev => ~Behind(i, r)'
      BY <1>1, <3>4, <3>6 DEF Behind, Remote, server
    <3>9. Seen(i, r)'
      BY <1>1, <3>1, <3>3, <3>8 DEF Seen, server
    <3>10. IsQueued(i, r)'
      <4>1. r \in SwapRecords => fields[i][r] \ NoFields \subseteq rows'[i][r]
        BY <2>1, <3>4, <3>6 DEF Parts, IsQueued
      <4>2. r \notin forgotten[i] => (rows'[i][r] \cap Stored(r)) \ Covered(i, r) \subseteq remote[r].data
        BY <2>1, <3>4, <3>6 DEF Parts, IsQueued
      <4> QED BY <1>1, <4>1, <4>2 DEF IsQueued, Covered, server
    <3>11. IsPulled(i, r)'
      <4>1. remote[r].rev <= latest[i] => batch[i][r].rev = remote[r].rev
        BY <2>1, <2>2, <3>3 DEF Parts, IsPulled
      <4>2. remote[r].rev > 0
        BY <2>2, <3>2, <3>3
      <4> QED BY <1>1, <2>2, <3>1, <3>8, <4>1, <4>2 DEF IsPulled, server
    <3>12. WillHear(i, r)'
      BY <1>1, <2>1 DEF Parts, WillHear, server
    <3>13. r \notin forgotten[i] => rows[i][r] \subseteq rows'[i][r]
      BY <3>4, <3>6
    <3> QED BY <2>3, <3>7, <3>9, <3>10, <3>11, <3>12, <3>13 DEF Parts
  <2> QED BY <2>4, <2>5
<1> QED BY <1>3, <1>4

\* What a pull has that is new is what the server has; a row that misses something of the server gets it.
LEMMA NewIsRemote ==
  ASSUME SyncInv, NEW i \in Instances, NEW r \in Records
  PROVE  /\ IsNew(i, r) => Saved(i, r) = remote[r] /\ remote[r].rev > known[i][r]
         /\ ~IsNew(i, r) => ~Behind(i, r) \/ r \in forgotten[i]
<1>1. Parts(i, r) /\ Types
  BY DEF SyncInv
<1>2. /\ remote[r].rev \in Nat /\ known[i][r] \in Nat /\ incoming[i][r].rev \in Nat /\ latest[i] \in Nat
      /\ remote[r] \in Record /\ incoming[i][r] \in Record
  BY <1>1, Numbers
<1>3. CASE r \in News(i)
  BY <1>1, <1>2, <1>3 DEF IsNew, Saved, Parts, Seen
<1>4. CASE r \notin News(i)
  <2>1. remote[r].rev <= latest[i] /\ Saved(i, r) = incoming[i][r]
    BY <1>2, <1>4 DEF News, Saved
  <2>2. IsNew(i, r) => incoming[i][r].rev = remote[r].rev /\ incoming[i][r].data = remote[r].data
    BY <1>1, <1>2, <2>1 DEF IsNew, Parts, IsPulled
  <2>3. incoming[i][r].rev = remote[r].rev /\ incoming[i][r].data = remote[r].data => incoming[i][r] = remote[r]
    BY <1>2 DEF Record
  <2>4. Behind(i, r) /\ r \notin forgotten[i] => IsNew(i, r)
    BY <1>1, <1>2, <2>1 DEF IsNew, Parts, IsPulled, Seen
  <2> QED BY <1>2, <2>1, <2>2, <2>3, <2>4 DEF IsNew
<1> QED BY <1>3, <1>4

\* A merge has all the server holds, and of the row what is on the list, or all of it when that is not forgotten.
LEMMA Merges ==
  ASSUME SyncInv, NEW i \in Instances, NEW r \in Records, NEW data,
         data = handle_decryption(i, r, remote[r]).data
  PROVE  /\ data \subseteq Fields[r] /\ Remote(r) \subseteq data
         /\ r \notin forgotten[i] => (data \cap Stored(r)) \ Covered(i, r) \subseteq remote[r].data
         /\ r \in SwapRecords => fields[i][r] \ NoFields \subseteq data
         /\ r \in SwapRecords /\ r \notin forgotten[i] => rows[i][r] \cap Stored(r) \subseteq data
         /\ r = "index" /\ r \notin forgotten[i] => rows[i][r] \subseteq data
<1>1. /\ Parts(i, r) /\ Types /\ ServerFormed /\ Stored(r) \subseteq Fields[r] /\ Stored("index") = Fields["index"]
      /\ r \in SwapRecords => NoFields \cap Fields[r] = {}
      /\ "index" \notin SwapRecords /\ "index" \in Records /\ NoFields # {}
  BY FieldsOfRecords DEF SyncInv, Stored
<1>2. remote[r].data \subseteq Fields[r] /\ rows[i][r] \subseteq Fields[r] /\ (fields[i][r] # {} <=> r \in queued[i])
  BY <1>1 DEF ServerFormed, Parts, Formed
<1>3. /\ r \in SwapRecords => fields[i][r] \ NoFields \subseteq rows[i][r]
      /\ r \notin forgotten[i] => (rows[i][r] \cap Stored(r)) \ Covered(i, r) \subseteq remote[r].data
  BY <1>1 DEF Parts, IsQueued
<1>4. data = IF r \in queued[i] THEN merge(r, remote[r].data, rows[i][r], fields[i][r]) ELSE remote[r].data
  BY DEF handle_decryption
<1>5. CASE r \notin queued[i]
  BY <1>1, <1>2, <1>3, <1>4, <1>5 DEF Covered, Remote
<1>6. CASE r \in queued[i] /\ r = "index"
  <2>1. fields[i][r] # NoFields
    BY <1>1, <1>6 DEF Parts, Formed, NoFields
  <2>2. data = remote[r].data \cup rows[i][r]
    BY <1>4, <1>6, <2>1 DEF merge
  <2> QED BY <1>1, <1>2, <1>6, <2>2 DEF Remote, Covered
<1>7. CASE r \in queued[i] /\ r = "details"
  <2>1. fields[i][r] = NoFields
    BY <1>1, <1>2, <1>7 DEF Parts, Formed, NoFields
  <2>2. data = remote[r].data
    BY <1>4, <1>7, <2>1 DEF merge
  <2> QED BY <1>1, <1>2, <1>7, <2>2 DEF Remote, SwapRecords
<1>8. CASE r \in queued[i] /\ r \in SwapRecords /\ fields[i][r] = NoFields
  <2>1. data = remote[r].data
    BY <1>1, <1>4, <1>8 DEF merge
  <2> QED BY <1>1, <1>2, <1>3, <1>8, <2>1 DEF Remote, Covered
<1>9. CASE r \in queued[i] /\ r \in SwapRecords /\ fields[i][r] # NoFields
  <2>1. data = (remote[r].data \ fields[i][r]) \cup (rows[i][r] \cap fields[i][r])
    BY <1>1, <1>4, <1>9 DEF merge
  <2>2. Covered(i, r) = fields[i][r]
    BY <1>9 DEF Covered
  <2> QED BY <1>1, <1>2, <1>3, <1>9, <2>1, <2>2 DEF Remote
<1>10. r = "index" \/ r = "details" \/ r \in SwapRecords
  BY DEF Records, SwapRecords
<1> QED BY <1>5, <1>6, <1>7, <1>8, <1>9, <1>10

\* What the server holds after the last pull is pulled, and merged with the changes that wait.
LEMMA PullAnsweredKeeps ==
  ASSUME SyncInv, NEW i \in Instances, PullAnswered(i)
  PROVE  /\ latest'[i] <= revision /\ Control(i)' /\ \A r \in Records : Parts(i, r)'
         /\ \A r \in Records : r \notin forgotten[i] => rows[i][r] \subseteq rows'[i][r]
<1>1. /\ Types /\ ServerFormed /\ Control(i)
      /\ UNCHANGED <<queued, fields, server, pushing, failed, completed, forgotten>>
      /\ at[i] = "pull" /\ at'[i] = "recover" /\ changed'[i] = {}
      /\ latest'[i] <= revision /\ \A r \in Records : remote[r].rev <= latest'[i]
      /\ \A r \in Records : incoming'[i][r] = IF IsNew(i, r) THEN Saved(i, r) ELSE Nothing
      /\ \A r \in Records \ {"index"} :
           /\ batch'[i][r] = IF IsNew(i, r) THEN handle_decryption(i, r, Saved(i, r)) ELSE NoBatch[r]
           /\ rows'[i][r] = rows[i][r] /\ known'[i][r] = known[i][r] /\ (r \in exists'[i] <=> r \in exists[i])
      /\ batch'[i]["index"] = NoBatch["index"]
      /\ IsNew(i, "index") =>
           /\ known'[i]["index"] = Saved(i, "index").rev /\ "index" \in exists'[i]
           /\ rows'[i]["index"] = Written(i, "index", handle_decryption(i, "index", Saved(i, "index")).data)
      /\ ~IsNew(i, "index") => /\ rows'[i]["index"] = rows[i]["index"] /\ known'[i]["index"] = known[i]["index"]
                               /\ exists'[i] = exists[i]
  BY PullAnsweredFrame DEF SyncInv
<1>2. pushing[i] = NoPush /\ ~(failed[i] > MaxFailedPush) /\ latest'[i] \in Nat
  <2>1. Types'
    BY <1>1, PullAnsweredFrame
  <2> QED BY <1>1, <2>1 DEF Control, Types, StoreTypes
<1>3. Control(i)'
  BY <1>1, Nothings DEF Control, Records
<1>4. ASSUME NEW r \in Records
      PROVE  Parts(i, r)' /\ (r \notin forgotten[i] => rows[i][r] \subseteq rows'[i][r])
  <2>1. /\ Parts(i, r) /\ Stored(r) \subseteq Fields[r]
        /\ IsNew(i, r) => Saved(i, r) = remote[r] /\ remote[r].rev > known[i][r]
        /\ ~IsNew(i, r) => ~Behind(i, r) \/ r \in forgotten[i]
    BY FieldsOfRecords, NewIsRemote DEF SyncInv
  <2>2. remote[r].rev \in Nat /\ known[i][r] \in Nat /\ remote[r] \in Record /\ "index" \in Records
        /\ remote[r].data \subseteq Fields[r] /\ (remote[r].rev = 0 => remote[r].data = {})
    BY <1>1, Numbers, FieldsOfRecords DEF ServerFormed
  <2> DEFINE data == handle_decryption(i, r, remote[r]).data
  <2>3. /\ data \subseteq Fields[r] /\ Remote(r) \subseteq data
        /\ r \notin forgotten[i] => (data \cap Stored(r)) \ Covered(i, r) \subseteq remote[r].data
        /\ r \in SwapRecords => fields[i][r] \ NoFields \subseteq data
        /\ r \in SwapRecords /\ r \notin forgotten[i] => rows[i][r] \cap Stored(r) \subseteq data
        /\ r = "index" /\ r \notin forgotten[i] => rows[i][r] \subseteq data
        /\ handle_decryption(i, r, remote[r]).rev = remote[r].rev
    BY <1>1, <2>2, Merges, MergeTypes
  <2> HIDE DEF data
  <2>4. CASE ~IsNew(i, r)
    <3>1. /\ rows'[i][r] = rows[i][r] /\ known'[i][r] = known[i][r] /\ (r \in exists'[i] <=> r \in exists[i])
          /\ incoming'[i][r] = Nothing /\ batch'[i][r] = NoBatch[r]
      BY <1>1, <2>4
    <3>2. Behind(i, r)' <=> Behind(i, r)
      BY <1>1, <3>1 DEF Behind, Remote, server
    <3>3. Formed(i, r)' /\ Seen(i, r)' /\ IsQueued(i, r)'
      BY <1>1, <1>2, <2>1, <3>1, <3>2, Nothings DEF Parts, Formed, Seen, IsQueued, Covered, server, Records
    <3>4. IsPulled(i, r)'
      BY <1>1, <1>2, <2>1, <2>2, <2>4, <3>1, <3>2, Nothings DEF IsPulled, server
    <3>5. IsMerged(i, r)' /\ IsPushed(i, r)'
      BY <1>1, <1>2, <3>1, Nothings DEF IsMerged, IsPushed, Records
    <3>6. ~(remote'[r].rev > latest'[i]) /\ at'[i] = "recover"
      BY <1>1, <1>2, <2>2 DEF server
    <3>7. WillHear(i, r)'
      BY <3>6 DEF WillHear
    <3> QED BY <3>1, <3>3, <3>4, <3>5, <3>7 DEF Parts
  <2>5. CASE IsNew(i, r) /\ r # "index"
    <3>1. /\ rows'[i][r] = rows[i][r] /\ known'[i][r] = known[i][r] /\ (r \in exists'[i] <=> r \in exists[i])
          /\ incoming'[i][r] = remote[r] /\ batch'[i][r].rev = remote[r].rev /\ batch'[i][r].data = data
      BY <1>1, <2>1, <2>3, <2>5 DEF data
    <3>2. Behind(i, r)' <=> Behind(i, r)
      BY <1>1, <3>1 DEF Behind, Remote, server
    <3>3. Formed(i, r)' /\ Seen(i, r)' /\ IsQueued(i, r)'
      BY <1>1, <1>2, <2>1, <2>2, <2>3, <3>1, <3>2, Nothings DEF Parts, Formed, Seen, IsQueued, Covered, server, Records
    <3>4. IsPulled(i, r)'
      BY <1>1, <1>2, <2>1, <2>2, <2>5, <3>1, <3>2 DEF IsPulled, server
    <3>5. IsMerged(i, r)'
      BY <1>1, <2>3, <3>1 DEF IsMerged, Remote, Covered, server
    <3>6. IsPushed(i, r)'
      BY <1>1, <1>2, <3>1, Nothings DEF IsPushed, Records
    <3>7. ~(remote'[r].rev > latest'[i]) /\ at'[i] = "recover"
      BY <1>1, <1>2, <2>2 DEF server
    <3>8. WillHear(i, r)'
      BY <3>7 DEF WillHear
    <3> QED BY <3>1, <3>3, <3>4, <3>5, <3>6, <3>8 DEF Parts
  <2>6. CASE IsNew(i, r) /\ r = "index"
    <3>1. /\ rows'[i][r] = data /\ known'[i][r] = remote[r].rev /\ r \in exists'[i]
          /\ incoming'[i][r] = remote[r] /\ batch'[i][r] = NoBatch[r]
      BY <1>1, <2>1, <2>6 DEF data, Written
    <3>2. ~Behind(i, r)'
      BY <1>1, <2>3, <3>1 DEF Behind, Remote, server
    <3>3. Formed(i, r)' /\ Seen(i, r)'
      BY <1>1, <1>2, <2>1, <2>2, <2>3, <3>1, <3>2, Nothings DEF Parts, Formed, Seen, server, Records
    <3>4. IsQueued(i, r)'
      BY <1>1, <2>3, <2>6, <3>1, FieldsOfRecords DEF IsQueued, Covered, server
    <3>5. IsPulled(i, r)'
      BY <1>1, <1>2, <2>2, <2>6, <3>1, <3>2 DEF IsPulled, server
    <3>6. IsMerged(i, r)' /\ IsPushed(i, r)'
      BY <1>1, <1>2, <3>1, Nothings DEF IsMerged, IsPushed, Records
    <3>7. ~(remote'[r].rev > latest'[i]) /\ at'[i] = "recover"
      BY <1>1, <1>2, <2>2 DEF server
    <3>8. WillHear(i, r)'
      BY <3>7 DEF WillHear
    <3> QED BY <2>3, <2>6, <3>1, <3>3, <3>4, <3>5, <3>6, <3>8 DEF Parts
  <2> QED BY <2>4, <2>5, <2>6
<1> QED BY <1>1, <1>3, <1>4

\* A record that was inserted has no field yet, and nobody else has it.
LEMMA InsertKeeps ==
  ASSUME SyncInv, NEW i \in Instances, NEW q \in Records, Insert(i, q)
  PROVE  /\ Control(i)' /\ \A r \in Records : Parts(i, r)'
         /\ \A j \in Instances : j # i => Unaltered(j)
<1>1. PICK list \in SUBSET Everything :
        /\ \E later \in BOOLEAN : commit_outgoing(i, q, list, later)
        /\ list # {}
        /\ q # "index" => list = NoFields
        /\ q = "index" => list = {"last-derivation-index"}
  <2>1. {"last-derivation-index"} \in SUBSET Everything /\ {"last-derivation-index"} # {}
    BY FieldsOfRecords
  <2>2. CASE q = "index"
    BY <2>1, <2>2 DEF Insert, UpdatedFields
  <2>3. CASE q # "index"
    <3>1. \E later \in BOOLEAN : commit_outgoing(i, q, NoFields, later)
      BY <2>3 DEF Insert
    <3> QED BY <2>3, <3>1, FieldsOfRecords
  <2> QED BY <2>2, <2>3
<1>2. /\ Types /\ Control(i) /\ Parts(i, q)
      /\ UNCHANGED <<rows, known, latest, incoming, server, at, batch, pushing, failed, completed, forgotten>>
      /\ q \notin exists[i] /\ (q \in SwapRecords => remote[q].rev = 0)
      /\ exists' = [exists EXCEPT ![i] = exists[i] \cup {q}]
  BY DEF SyncInv, Insert, Types, StoreTypes
<1>3. /\ queued'[i] = queued[i] \cup {q}
      /\ fields'[i][q] = NewList(i, q, list)
      /\ \A r \in Records : r # q => fields'[i][r] = fields[i][r]
      /\ changed'[i] \subseteq changed[i] \cup {q} /\ changed[i] \subseteq changed'[i]
      /\ \A j \in Instances : j # i => queued'[j] = queued[j] /\ fields'[j] = fields[j] /\ changed'[j] = changed[j]
  BY <1>1, <1>2, CommitOutgoing
<1>4. exists'[i] = exists[i] \cup {q} /\ \A j \in Instances : j # i => exists'[j] = exists[j]
  BY <1>2 DEF Types, StoreTypes
<1>5. \A j \in Instances : j # i => Unaltered(j)
  BY <1>2, <1>3, <1>4 DEF Unaltered, server
<1>6. Control(i)'
  BY <1>2, <1>3 DEF Control
<1>7. rows[i][q] = {} /\ fields[i][q] = {} /\ fields'[i][q] = list
  BY <1>1, <1>2, <1>3 DEF Parts, Formed, NewList
<1>8. "details" # "index" /\ NoFields \subseteq NoFields
  OBVIOUS
<1>9. ASSUME NEW r \in Records
      PROVE  Parts(i, r)'
  <2>1. Parts(i, r) /\ Stored(r) \subseteq Fields[r]
    BY FieldsOfRecords DEF SyncInv
  <2>2. Behind(i, r)' <=> Behind(i, r)
    BY <1>2 DEF Behind, Remote, server
  <2>3. Formed(i, r)'
    BY <1>1, <1>2, <1>3, <1>4, <1>7, <2>1 DEF Parts, Formed
  <2>4. Seen(i, r)' /\ IsPushed(i, r)'
    BY <1>2, <2>1, <2>2 DEF Parts, Seen, IsPushed, Remote, server
  <2>5. IsPulled(i, r)' /\ WillHear(i, r)'
    BY <1>2, <1>3, <2>1, <2>2 DEF Parts, IsPulled, WillHear, server
  <2>6. CASE r # q
    <3>1. IsQueued(i, r)'
      BY <1>2, <1>3, <2>1, <2>6 DEF Parts, IsQueued, Covered, server
    <3>2. IsMerged(i, r)'
      BY <1>2, <1>3, <2>1, <2>6 DEF Parts, IsMerged, Covered, Remote, server
    <3> QED BY <2>3, <2>4, <2>5, <2>6, <3>1, <3>2 DEF Parts
  <2>7. CASE r = q
    <3>1. r \in SwapRecords => fields'[i][r] = NoFields
      BY <1>1, <1>7, <2>7 DEF SwapRecords
    <3>2. IsQueued(i, r)'
      BY <1>2, <1>7, <2>7, <3>1 DEF IsQueued
    <3>3. IsMerged(i, r)'
      <4>1. at[i] = "recover" /\ batch[i][r].rev > 0 => r \notin SwapRecords
        <5>1. batch[i][r].rev \in Nat /\ incoming[i][r].rev \in Nat
          BY <1>2, Numbers
        <5> QED BY <1>2, <2>1, <2>7, <5>1 DEF Parts, IsPulled, Control
      <4>2. r \notin SwapRecords => Covered(i, r)' = Fields[r]
        BY <1>3, <2>7 DEF Covered
      <4> QED BY <1>2, <2>1, <4>1, <4>2 DEF Parts, IsMerged, Remote, server
    <3> QED BY <2>3, <2>4, <2>5, <3>2, <3>3 DEF Parts
  <2> QED BY <2>6, <2>7
<1> QED BY <1>5, <1>6, <1>9

\* A field that is set is queued, and renewed where its record is being pushed.
LEMMA SetFieldKeeps ==
  ASSUME SyncInv, NEW i \in Instances, NEW q \in Records, NEW f \in Fields[q], SetField(i, q, f)
  PROVE  /\ Control(i)' /\ \A r \in Records : Parts(i, r)' /\ rows[i][r] \subseteq rows'[i][r]
         /\ \A j \in Instances : j # i => Unaltered(j)
<1> DEFINE list == UpdatedFields(q, f)
<1>1. \E later \in BOOLEAN : commit_outgoing(i, q, list, later)
  BY DEF SetField
<1>2. /\ Types /\ Control(i) /\ Parts(i, q)
      /\ UNCHANGED <<exists, known, latest, incoming, server, at, batch, failed, completed, forgotten>>
      /\ q \in exists[i]
      /\ rows' = [rows EXCEPT ![i] = [rows[i] EXCEPT ![q] = rows[i][q] \cup {f}]]
      /\ pushing' = [pushing EXCEPT ![i] = [pushing[i] EXCEPT !.renewed = IF q \in pushing[i].done \cup {pushing[i].sent}
                                                                        THEN pushing[i].renewed \cup {q}
                                                                        ELSE pushing[i].renewed]]
  BY DEF SyncInv, SetField, Types, StoreTypes, LoopTypes
<1>3. /\ list \in SUBSET Everything /\ list # {}
      /\ q \in SwapRecords => list = {f} /\ f \notin NoFields /\ {f} # NoFields
      /\ q = "index" => list = {"last-derivation-index"}
      /\ q = "details" => list = NoFields
  <2>1. q \in SwapRecords => list = {f}
    BY DEF UpdatedFields, SwapRecords
  <2>2. q \in SwapRecords => f \notin NoFields
    BY FieldsOfRecords
  <2>3. (q = "index" => list = {"last-derivation-index"}) /\ (q = "details" => list = NoFields)
    BY DEF UpdatedFields
  <2> QED BY <2>1, <2>2, <2>3, ListTypes
<1> HIDE DEF list
<1>4. /\ queued'[i] = queued[i] \cup {q}
      /\ fields'[i][q] = NewList(i, q, list)
      /\ \A r \in Records : r # q => fields'[i][r] = fields[i][r]
      /\ changed'[i] \subseteq changed[i] \cup {q} /\ changed[i] \subseteq changed'[i]
      /\ q \in SwapRecords => q \in changed'[i]
      /\ \A j \in Instances : j # i => queued'[j] = queued[j] /\ fields'[j] = fields[j] /\ changed'[j] = changed[j]
  BY <1>1, <1>2, <1>3, CommitOutgoing
<1>5. /\ rows'[i][q] = rows[i][q] \cup {f} /\ \A r \in Records : r # q => rows'[i][r] = rows[i][r]
      /\ \A j \in Instances : j # i => rows'[j] = rows[j] /\ pushing'[j] = pushing[j]
  BY <1>2 DEF Types, StoreTypes, LoopTypes
<1>6. pushing[i] \in Push /\ pushing'[i] = [pushing[i] EXCEPT !.renewed = IF q \in pushing[i].done \cup {pushing[i].sent}
                                                                        THEN pushing[i].renewed \cup {q}
                                                                        ELSE pushing[i].renewed]
  BY <1>2 DEF Types, LoopTypes
<1>7. /\ pushing'[i].sent = pushing[i].sent /\ pushing'[i].rev = pushing[i].rev /\ pushing'[i].data = pushing[i].data
      /\ pushing'[i].done = pushing[i].done
      /\ pushing'[i].renewed = IF q \in pushing[i].done \cup {pushing[i].sent} THEN pushing[i].renewed \cup {q}
                                                                              ELSE pushing[i].renewed
  BY <1>6 DEF Push
<1>8. \A j \in Instances : j # i => Unaltered(j)
  BY <1>2, <1>4, <1>5 DEF Unaltered, server
<1>9. Control(i)'
  <2>1. at[i] # "push" => pushing'[i] = NoPush
    <3>1. at[i] # "push" => pushing[i].done \cup {pushing[i].sent} = {"none"}
      BY <1>2, Nothings DEF Control
    <3>2. at[i] # "push" => pushing'[i] = pushing[i]
      <4>1. pushing[i] = [pushing[i] EXCEPT !.renewed = pushing[i].renewed]
        BY <1>6 DEF Push
      <4> QED BY <1>6, <3>1, <4>1, FieldsOfRecords
    <3> QED BY <1>2, <3>2 DEF Control
  <2> QED BY <1>2, <1>4, <2>1 DEF Control
<1>10. ASSUME NEW r \in Records
      PROVE  Parts(i, r)' /\ rows[i][r] \subseteq rows'[i][r]
  <2>1. Parts(i, r) /\ Stored(r) \subseteq Fields[r]
    BY FieldsOfRecords DEF SyncInv
  <2>2. rows[i][r] \subseteq rows'[i][r] /\ (Behind(i, r)' => Behind(i, r))
    BY <1>2, <1>5 DEF Behind, Remote, server
  <2>3. Formed(i, r)'
    BY <1>2, <1>3, <1>4, <1>5, <1>7, <2>1 DEF Parts, Formed, NewList
  <2>4. Seen(i, r)'
    BY <1>2, <2>1, <2>2 DEF Parts, Seen, server
  <2>5. IsPulled(i, r)' /\ WillHear(i, r)'
    BY <1>2, <1>4, <2>1, <2>2 DEF Parts, IsPulled, WillHear, server
  <2>6. IsPushed(i, r)'
    BY <1>2, <1>5, <1>7, <2>1 DEF Parts, IsPushed, Remote, server
  <2>7. CASE r # q
    <3>1. IsQueued(i, r)'
      BY <1>2, <1>4, <1>5, <2>1, <2>2, <2>6, <2>7 DEF Parts, IsQueued, Covered, server
    <3>2. IsMerged(i, r)'
      BY <1>2, <1>4, <1>5, <2>1, <2>2, <2>6, <2>7 DEF Parts, IsMerged, Covered, Remote, server
    <3> QED BY <2>2, <2>3, <2>4, <2>5, <2>6, <3>1, <3>2 DEF Parts
  <2>8. CASE r = q
    <3>1. r \in SwapRecords => fields'[i][r] = (fields[i][r] \ NoFields) \cup {f}
      BY <1>3, <1>4, <2>8 DEF NewList
    <3>2. r \notin SwapRecords => Covered(i, r)' = Fields[r]
      BY <1>4, <2>8 DEF Covered
    <3>3. r \in SwapRecords => Covered(i, r) \ NoFields \subseteq Covered(i, r)' /\ NoFields \cap Fields[r] = {}
      BY <3>1, FieldsOfRecords DEF Covered
    <3>4. IsQueued(i, r)'
      <4>1. r \in SwapRecords => fields'[i][r] \ NoFields \subseteq rows'[i][r]
        BY <1>5, <2>1, <2>8, <3>1 DEF Parts, IsQueued
      <4>2. r \in SwapRecords => f \in Covered(i, r)'
        BY <3>1 DEF Covered
      <4>3. r \notin forgotten'[i] => (rows'[i][r] \cap Stored(r)) \ Covered(i, r)' \subseteq remote'[r].data
        BY <1>2, <1>5, <2>1, <2>8, <3>2, <3>3, <4>2 DEF Parts, IsQueued, server
      <4> QED BY <4>1, <4>3 DEF IsQueued
    <3>5. IsMerged(i, r)'
      <4>1. batch[i][r].data \subseteq Fields[r]
        BY <2>1 DEF Parts, Formed
      <4> QED BY <1>2, <1>4, <2>1, <2>8, <3>2, <3>3, <4>1 DEF Parts, IsMerged, Remote, server
    <3> QED BY <2>2, <2>3, <2>4, <2>5, <2>6, <3>4, <3>5 DEF Parts
  <2> QED BY <2>7, <2>8
<1> QED BY <1>8, <1>9, <1>10

\* A change of the state alone: the list of the preimage is lost, and that is forgotten.
LEMMA UpdateSendSwapKeeps ==
  ASSUME SyncInv, NEW i \in Instances, UpdateSendSwap(i)
  PROVE  /\ Control(i)' /\ \A r \in Records : Parts(i, r)'
         /\ \A j \in Instances : j # i => Unaltered(j)
<1> DEFINE q == "send"
<1>1. /\ Types /\ Control(i) /\ q \in Records /\ q \in SwapRecords /\ commit_outgoing(i, q, NoFields, TRUE) /\ q \in exists[i]
      /\ UNCHANGED <<exists, rows, known, latest, incoming, server, at, batch, pushing, failed, completed>>
      /\ forgotten' = [forgotten EXCEPT ![i] = IF fields[i][q] \notin {{}, NoFields} THEN forgotten[i] \cup {q} ELSE forgotten[i]]
  BY FieldsOfRecords DEF SyncInv, UpdateSendSwap, Types, HistoryTypes
<1> HIDE DEF q
<1>2. /\ queued'[i] = queued[i] \cup {q} /\ fields'[i][q] = NoFields
      /\ \A r \in Records : r # q => fields'[i][r] = fields[i][r]
      /\ changed'[i] \subseteq changed[i] \cup {q} /\ changed[i] \subseteq changed'[i] /\ q \in changed'[i]
      /\ \A j \in Instances : j # i => queued'[j] = queued[j] /\ fields'[j] = fields[j] /\ changed'[j] = changed[j]
  BY <1>1, FieldsOfRecords, CommitOutgoing DEF NewList
<1>3. /\ forgotten[i] \subseteq forgotten'[i] /\ forgotten'[i] \subseteq forgotten[i] \cup {q}
      /\ q \notin forgotten'[i] => fields[i][q] \subseteq NoFields
      /\ \A j \in Instances : j # i => forgotten'[j] = forgotten[j]
  BY <1>1 DEF Types, HistoryTypes
<1>4. \A j \in Instances : j # i => Unaltered(j)
  BY <1>1, <1>2, <1>3 DEF Unaltered, server
<1>5. Control(i)'
  BY <1>1, <1>2 DEF Control
<1>6. ASSUME NEW r \in Records
      PROVE  Parts(i, r)'
  <2>1. Parts(i, r) /\ Stored(r) \subseteq Fields[r] /\ (r \in SwapRecords => NoFields \cap Fields[r] = {})
    BY FieldsOfRecords DEF SyncInv
  <2>2. Behind(i, r)' <=> Behind(i, r)
    BY <1>1 DEF Behind, Remote, server
  <2>3. Formed(i, r)'
    BY <1>1, <1>2, <2>1, FieldsOfRecords DEF Parts, Formed
  <2>4. Seen(i, r)' /\ IsPushed(i, r)'
    BY <1>1, <2>1, <2>2 DEF Parts, Seen, IsPushed, Remote, server
  <2>5. IsPulled(i, r)' /\ WillHear(i, r)'
    BY <1>1, <1>2, <1>3, <2>1, <2>2 DEF Parts, IsPulled, WillHear, server
  <2>6. CASE r # q
    <3>1. IsQueued(i, r)'
      BY <1>1, <1>2, <1>3, <2>1, <2>6 DEF Parts, IsQueued, Covered, server
    <3>2. IsMerged(i, r)'
      BY <1>1, <1>2, <1>3, <2>1, <2>6 DEF Parts, IsMerged, Covered, Remote, server
    <3> QED BY <2>3, <2>4, <2>5, <2>6, <3>1, <3>2 DEF Parts
  <2>7. CASE r = q
    <3>1. Covered(i, r)' = NoFields /\ (r \notin forgotten'[i] => Covered(i, r) \subseteq NoFields /\ r \notin forgotten[i])
      BY <1>1, <1>2, <1>3, <2>7 DEF Covered
    <3>2. IsQueued(i, r)'
      BY <1>1, <1>2, <2>1, <2>7, <3>1 DEF Parts, IsQueued, server
    <3>3. IsMerged(i, r)'
      BY <1>1, <1>2, <2>1, <2>7, <3>1 DEF Parts, IsMerged, Remote, server
    <3> QED BY <2>3, <2>4, <2>5, <3>2, <3>3 DEF Parts
  <2> QED BY <2>6, <2>7
<1> QED BY <1>4, <1>5, <1>6

-----------------------------------------------------------------------------
(* Every step *)

\* The invariant holds at the start.
LEMMA InitInv ==
  ASSUME Bounds, SyncInit
  PROVE  SyncInv
<1>1. Types
  BY InitTypes
<1>2. ServerFormed
  BY DEF SyncInit, ServerFormed, Nothing
<1>3. ASSUME NEW i \in Instances, NEW r \in Records
      PROVE  Parts(i, r)
  <2>1. /\ remote[r] = Nothing /\ rows[i][r] = {} /\ queued[i] = {} /\ fields[i][r] = {} /\ known[i][r] = 0 /\ latest[i] = 0
        /\ incoming[i][r] = Nothing /\ at[i] = "select" /\ batch[i][r] = NoBatch[r] /\ pushing[i] = NoPush /\ failed[i] = 0
        /\ completed[i] = TRUE
    BY <1>3 DEF SyncInit
  <2>2. ~Behind(i, r)
    BY <2>1, Nothings DEF Behind, Remote
  <2>3. Formed(i, r) /\ Seen(i, r) /\ IsQueued(i, r)
    BY <2>1, <2>2, Nothings DEF Formed, Seen, IsQueued, Records
  <2>4. IsPulled(i, r)
    BY <2>1, <2>2, Nothings DEF IsPulled, Bounds
  <2>5. IsMerged(i, r) /\ IsPushed(i, r) /\ WillHear(i, r)
    BY <2>1, <2>2, Nothings DEF IsMerged, IsPushed, WillHear, Records
  <2> QED BY <2>3, <2>4, <2>5 DEF Parts
<1>4. ASSUME NEW i \in Instances
      PROVE  Control(i)
  <2>1. /\ at[i] = "select" /\ batch[i] = NoBatch /\ pushing[i] = NoPush /\ failed[i] = 0
    BY <1>4 DEF SyncInit
  <2> QED BY <2>1, Nothings DEF Control, Records, Bounds
<1> QED BY <1>1, <1>2, <1>3, <1>4 DEF SyncInv

\* What holds of a step of instance i: of the server, of the others, and of i.
StepKeeps(i) ==
  /\ Types' /\ ServerStep(i) /\ latest'[i] <= revision'
  /\ \A j \in Instances : j # i => Unaltered(j)
  /\ Control(i)' /\ \A r \in Records : Parts(i, r)'
  /\ \A r \in Records : r \notin forgotten[i] => rows[i][r] \subseteq rows'[i][r]

\* Each step is of one instance, and keeps the invariant there.
LEMMA EveryStepKeeps ==
  ASSUME Bounds, SyncInv, SyncNext
  PROVE  \E i \in Instances : StepKeeps(i)
<1> USE DEF SyncInv
<1>1. PICK i \in Instances :
        \/ \E r \in Records : Insert(i, r) \/ SendRecord(i, r) \/ \E f \in Fields[r] : SetField(i, r, f)
        \/ UpdateSendSwap(i) \/ RunEventLoop(i) \/ PullAnswered(i) \/ Commit(i) \/ FinishPush(i)
        \/ PullFails(i) \/ RecoveryFails(i) \/ Restart(i) \/ ListenerBreaks(i)
        \/ PushAccepted(i) \/ PushConflicts(i) \/ PushFails(i)
  BY DEF SyncNext
<1>2. revision \in Nat /\ latest[i] <= revision
  BY DEF Types, ServerTypes, ServerFormed
<1>3. UNCHANGED <<remote, revision>> => ServerStep(i)
  BY <1>2 DEF ServerStep
<1>4. CASE \E r \in Records : Insert(i, r)
  <2>1. PICK r \in Records : Insert(i, r)
    BY <1>4
  <2>2. UNCHANGED <<remote, revision, latest, rows>>
    BY <2>1 DEF Insert, server
  <2>3. Types'
    BY <2>1, TypesOfChange
  <2> QED BY <1>2, <1>3, <2>1, <2>2, <2>3, InsertKeeps DEF StepKeeps
<1>5. CASE \E r \in Records : \E f \in Fields[r] : SetField(i, r, f)
  <2>0. PICK r \in Records : \E f \in Fields[r] : SetField(i, r, f)
    BY <1>5
  <2>1. PICK f \in Fields[r] : SetField(i, r, f)
    BY <2>0
  <2>2. UNCHANGED <<remote, revision, latest>>
    BY <2>1 DEF SetField, server
  <2>3. Types'
    BY <2>1, TypesOfChange
  <2> QED BY <1>2, <1>3, <2>1, <2>2, <2>3, SetFieldKeeps DEF StepKeeps
<1>6. CASE UpdateSendSwap(i)
  <2>1. UNCHANGED <<remote, revision, latest, rows>>
    BY <1>6 DEF UpdateSendSwap, server
  <2>2. Types'
    BY <1>6, FieldsOfRecords, TypesOfChange
  <2> QED BY <1>2, <1>3, <1>6, <2>1, <2>2, UpdateSendSwapKeeps DEF StepKeeps
<1>7. CASE RunEventLoop(i)
  <2>1. UNCHANGED <<exists, rows, latest, remote, revision, batch, changed, pushing>>
    BY <1>7 DEF RunEventLoop
  <2>2. Types' /\ \A j \in Instances : j # i => Unaltered(j)
    BY <1>7, <2>1, RunEventLoopFrame DEF Unaltered
  <2> QED BY <1>2, <1>3, <1>7, <2>1, <2>2, RunEventLoopKeeps DEF StepKeeps
<1>8. CASE PullFails(i) \/ RecoveryFails(i) \/ Restart(i) \/ ListenerBreaks(i)
  <2>1. Types' /\ UNCHANGED <<stores, remote, revision>> /\ \A j \in Instances : j # i => Unaltered(j)
    BY <1>8, GiveUpFrame
  <2> QED BY <1>2, <1>3, <1>8, <2>1, GiveUpKeeps DEF StepKeeps, stores
<1>9. CASE PullAnswered(i)
  <2>1. Types' /\ UNCHANGED server /\ \A j \in Instances : j # i => Unaltered(j)
    BY <1>9, PullAnsweredFrame
  <2> QED BY <1>2, <1>3, <1>9, <2>1, PullAnsweredKeeps DEF StepKeeps, server
<1>10. CASE Commit(i)
  <2>1. Types' /\ UNCHANGED <<latest, server>> /\ \A j \in Instances : j # i => Unaltered(j)
    BY <1>10, CommitFrame
  <2> QED BY <1>2, <1>3, <1>10, <2>1, CommitKeeps DEF StepKeeps, server
<1>11. CASE \E r \in Records : SendRecord(i, r)
  <2>1. PICK r \in Records : SendRecord(i, r)
    BY <1>11
  <2>2. Types' /\ UNCHANGED <<stores, server>> /\ \A j \in Instances : j # i => Unaltered(j)
    BY <2>1, SendRecordFrame
  <2> QED BY <1>2, <1>3, <2>1, <2>2, SendRecordKeeps DEF StepKeeps, stores, server
<1>12. CASE PushAccepted(i) \/ PushConflicts(i) \/ PushFails(i)
  <2>1. Types' /\ UNCHANGED <<rows, latest>> /\ \A j \in Instances : j # i => Unaltered(j)
    BY <1>12, PushAnswered
  <2>2. ServerStep(i) /\ Control(i)' /\ \A r \in Records : Parts(i, r)'
    BY <1>12, PushAnsweredKeeps
  <2>3. revision' >= revision
    BY <1>2, <2>2 DEF ServerStep, Accepted, Records
  <2>4. latest'[i] <= revision'
    <3>1. revision' \in Nat /\ latest[i] \in Nat
      BY <2>1 DEF Types, ServerTypes, StoreTypes
    <3> QED BY <1>2, <2>1, <2>3, <3>1
  <2> QED BY <2>1, <2>2, <2>4 DEF StepKeeps
<1>13. CASE FinishPush(i)
  <2>1. Types' /\ UNCHANGED <<rows, latest, server>> /\ \A j \in Instances : j # i => Unaltered(j)
    BY <1>13, FinishPushFrame
  <2> QED BY <1>2, <1>3, <1>13, <2>1, FinishPushKeeps DEF StepKeeps, server
<1> QED BY <1>1, <1>4, <1>5, <1>6, <1>7, <1>8, <1>9, <1>10, <1>11, <1>12, <1>13

\* Every step keeps the invariant, and the rows but for what was forgotten.
LEMMA StepInv ==
  ASSUME Bounds, SyncInv, [SyncNext]_syncVars
  PROVE  SyncInv' /\ \A j \in Instances, r \in Records : r \notin forgotten[j] => rows[j][r] \subseteq rows'[j][r]
<1>1. CASE UNCHANGED syncVars
  BY <1>1 DEF syncVars, stores, server, syncLoop, SyncInv, Types, ServerTypes, StoreTypes, LoopTypes, HistoryTypes, ServerFormed,
              Control, Parts, Formed, Seen, IsQueued, IsPulled, IsMerged, IsPushed, WillHear, Behind, Remote, Covered
<1>2. CASE SyncNext
  <2>1. PICK i \in Instances : StepKeeps(i)
    BY <1>2, EveryStepKeeps
  <2>2. Types' /\ ServerStep(i)
    BY <2>1 DEF StepKeeps
  <2>3. ASSUME NEW j \in Instances
        PROVE  Control(j)' /\ \A r \in Records : Parts(j, r)'
    <3>1. CASE j = i
      BY <2>1, <3>1 DEF StepKeeps
    <3>2. CASE j # i
      <4>1. Unaltered(j)
        BY <2>1, <3>2 DEF StepKeeps
      <4> QED BY <2>2, <3>2, <4>1, OthersKeep
    <3> QED BY <3>1, <3>2
  <2>4. revision' >= revision /\ revision \in Nat /\ revision' \in Nat
    BY <2>2 DEF ServerStep, Accepted, SyncInv, Types, ServerTypes, Records
  <2>5. ServerFormed'
    <3>1. ASSUME NEW r \in Records
          PROVE  /\ remote'[r].rev <= revision' /\ remote'[r].data \subseteq Fields[r]
                 /\ remote'[r].rev = 0 => remote'[r].data = {}
      <4>1. remote[r].rev \in Nat /\ remote[r].rev <= revision
        BY <3>1, Numbers DEF SyncInv, ServerFormed, Types, ServerTypes, Record
      <4>2. CASE remote'[r] = remote[r]
        BY <2>4, <3>1, <4>1, <4>2 DEF SyncInv, ServerFormed
      <4>3. CASE Accepted(i, r)
        BY <2>4, <4>3 DEF Accepted
      <4> QED BY <2>2, <3>1, <4>2, <4>3 DEF ServerStep
    <3>2. ASSUME NEW j \in Instances
          PROVE  latest'[j] <= revision'
      <4>1. CASE j = i
        BY <2>1, <4>1 DEF StepKeeps
      <4>2. CASE j # i
        <5>1. latest'[j] = latest[j] /\ latest[j] \in Nat /\ latest[j] <= revision
          BY <2>1, <4>2 DEF StepKeeps, Unaltered, SyncInv, ServerFormed, Types, StoreTypes
        <5> QED BY <2>4, <5>1
      <4> QED BY <4>1, <4>2
    <3> QED BY <3>1, <3>2 DEF ServerFormed
  <2>6. ASSUME NEW j \in Instances, NEW r \in Records, r \notin forgotten[j]
        PROVE  rows[j][r] \subseteq rows'[j][r]
    BY <2>1, <2>6 DEF StepKeeps, Unaltered
  <2> QED BY <2>2, <2>3, <2>5, <2>6 DEF SyncInv
<1> QED BY <1>1, <1>2

-----------------------------------------------------------------------------
(* The theorems *)

\* The invariant implies the type invariant the run checks.
LEMMA InvMeansTypeOK ==
  ASSUME SyncInv
  PROVE  SyncTypeOK
<1>1. ASSUME NEW r \in Records
      PROVE  remote[r].rev \in 0..revision /\ remote[r].data \in Data(r)
  BY <1>1 DEF SyncInv, Types, ServerTypes, Record, ServerFormed, Data
<1>2. ASSUME NEW i \in Instances, NEW r \in Records
      PROVE  /\ rows[i][r] \in Data(r) /\ (r \notin exists[i] => rows[i][r] = {})
             /\ known[i][r] \in 0..remote[r].rev
             /\ incoming[i][r].rev \in 0..remote[r].rev /\ incoming[i][r].data \in Data(r)
             /\ fields[i][r] # {} <=> r \in queued[i]
             /\ r \in queued[i] => r \in exists[i]
  <2>1. Formed(i, r) /\ Seen(i, r) /\ IsPulled(i, r) /\ Types
    BY <1>2 DEF SyncInv, Parts
  <2>2. remote[r].rev \in Nat /\ known[i][r] \in Nat /\ incoming[i][r].rev \in Nat
    BY <1>2, <2>1, Numbers
  <2> QED BY <2>1, <2>2 DEF Formed, Seen, IsPulled, Data
<1>3. ASSUME NEW i \in Instances
      PROVE  /\ exists[i] \subseteq Records /\ queued[i] \subseteq Records /\ latest[i] \in 0..revision
             /\ at[i] \in {"select", "pull", "recover", "push"}
  <2>1. latest[i] \in Nat /\ revision \in Nat /\ latest[i] <= revision
    BY <1>3 DEF SyncInv, Types, ServerTypes, StoreTypes, ServerFormed
  <2> QED BY <1>3, <2>1 DEF SyncInv, Types, StoreTypes, LoopTypes
<1> QED BY <1>1, <1>2, <1>3 DEF SyncTypeOK

\* Where every instance is done, each row is what the server has of it.
LEMMA InvMeansEqual ==
  ASSUME SyncInv
  PROVE  SyncedMeansEqual
<1> SUFFICES ASSUME \A i \in Instances : completed[i] /\ at[i] = "select" /\ queued[i] = {} /\ ~notice[i],
                    NEW i \in Instances, NEW r \in Records \ UNION {forgotten[j] : j \in Instances}
             PROVE  rows[i][r] \cap Stored(r) = remote[r].data \cap Stored(r)
  BY DEF SyncedMeansEqual
<1>1. Parts(i, r) /\ r \notin forgotten[i] /\ queued[i] = {}
  BY DEF SyncInv
<1>2. Covered(i, r) = {}
  BY <1>1 DEF Covered, Parts, Formed
<1>3. rows[i][r] \cap Stored(r) \subseteq remote[r].data
  BY <1>1, <1>2 DEF Parts, IsQueued
<1>4. ~Behind(i, r)
  BY <1>1 DEF Parts, WillHear
<1> QED BY <1>3, <1>4 DEF Behind, Remote

\* The state of the instances and of the server is always of its type (persist/sync.rs, sync/mod.rs).
THEOREM TypeCorrect == SyncSpec => []SyncTypeOK
<1>1. Bounds /\ SyncInit => SyncInv
  BY InitInv
<1>2. Bounds /\ SyncInv /\ [SyncNext]_syncVars => SyncInv'
  BY StepInv
<1>3. Bounds => (SyncSpec => []SyncTypeOK)
  <2> SUFFICES ASSUME Bounds PROVE SyncSpec => []SyncTypeOK
    OBVIOUS
  <2>1. SyncInit => SyncInv
    BY <1>1
  <2>2. SyncInv /\ [SyncNext]_syncVars => SyncInv'
    BY <1>2
  <2>3. SyncInv => SyncTypeOK
    BY InvMeansTypeOK
  <2> QED BY <2>1, <2>2, <2>3, PTL DEF SyncSpec
<1> QED BY <1>3, SyncAssumption DEF Bounds

\* Whatever the order in which any number of instances push, pull, fail and restart, none loses a field it has
\* set, or an index it has used, unless the code forgot that it was news (merge, check_commit_update).
THEOREM FieldsAreKept == SyncSpec => FieldIsKept
<1> DEFINE Kept == \A i \in Instances, r \in Records : r \notin forgotten[i] => rows[i][r] \subseteq rows'[i][r]
<1>1. Bounds => (SyncSpec => [][Kept]_rows)
  <2> SUFFICES ASSUME Bounds PROVE SyncSpec => [][Kept]_rows
    OBVIOUS
  <2>1. SyncInit => SyncInv
    BY InitInv
  <2>2. SyncInv /\ [SyncNext]_syncVars => SyncInv' /\ Kept
    BY StepInv
  <2> HIDE DEF Kept
  <2> QED BY <2>1, <2>2, PTL DEF SyncSpec
<1> QED BY <1>1, SyncAssumption DEF Bounds, FieldIsKept

\* Instances that rest after a SyncedCompleted, with nothing queued and nobody to hear of, agree with the server
\* and so with each other: nothing left the queue that the server lacks, and no pull skipped a record.
THEOREM SyncedInstancesAgree == SyncSpec => []SyncedMeansEqual
<1>1. Bounds => (SyncSpec => []SyncedMeansEqual)
  <2> SUFFICES ASSUME Bounds PROVE SyncSpec => []SyncedMeansEqual
    OBVIOUS
  <2>1. SyncInit => SyncInv
    BY InitInv
  <2>2. SyncInv /\ [SyncNext]_syncVars => SyncInv'
    BY StepInv
  <2>3. SyncInv => SyncedMeansEqual
    BY InvMeansEqual
  <2> QED BY <2>1, <2>2, <2>3, PTL DEF SyncSpec
<1> QED BY <1>1, SyncAssumption DEF Bounds
=============================================================================
