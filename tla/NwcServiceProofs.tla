--------------------------- MODULE NwcServiceProofs ---------------------------
(***************************************************************************)
(* For any connection strings, any number of calls of the application, any *)
(* capacity of the channel that triggers and any number of starts: once    *)
(* nothing is to be told to the task of the plugin, it serves the clients  *)
(* in the storage.                                                         *)
(***************************************************************************)
EXTENDS NwcService, TLAPS

\* What NwcAssumption says of the constants, for the steps to cite
Bounds == Triggers \in Nat /\ MaxStarts \in Nat

-----------------------------------------------------------------------------
(* The inductive invariant *)

Serving == Methods \cup {"select", "responding"}
Listed == Serving \cup {"subscribing", "listening", "noting"}
LoopAts == Listed \cup {"none", "connecting", "listing", "ended"}

Loop == [at : LoopAts, clients : SUBSET Names, id : Nat]
Listener == [id : Nat \ {0}, clients : SUBSET Names, start : 1..MaxStarts]
CallOf == [at : {"none", "called", "read", "written"}, name : Names \cup {"none"}, add : BOOLEAN,
           start : 0..MaxStarts, read : SUBSET Names]

Types ==
  /\ started \in 0..MaxStarts /\ starting \in 0..MaxStarts /\ starts \in 0..MaxStarts /\ service \in 0..MaxStarts
  /\ loop \in Loop /\ triggers \in 0..Triggers /\ uris \subseteq Names
  /\ listeners \subseteq Listener /\ listenerId \in Nat /\ added \in Nat
  /\ calls \in [Calls -> CallOf] /\ \A c \in Calls : calls[c].at # "none" => calls[c].name \in Names
  /\ behind \in BOOLEAN /\ leaked \subseteq listeners

Own == {l \in listeners : l.start = service}

\* A start is new to the listeners, and the task lives as long as its service
Started ==
  /\ starting <= starts /\ service <= starts
  /\ starting # 0 => service # starting
  /\ \A l \in listeners : l.start <= starts /\ l.start # starting
  /\ loop.at = "none" <=> service = 0

\* The service has the listener of its task, and no other; the ones that were left behind are not taken for it
Listening ==
  /\ \A l \in listeners : l.id <= added /\ (l.start = service \/ l \in leaked)
  /\ \A l, m \in listeners : l.id = m.id => l = m
  /\ \A l \in leaked : l.start # service /\ l.id # listenerId
  /\ Own = IF loop.at \in Serving \cup {"noting"}
           THEN {[id |-> loop.id, clients |-> loop.clients, start |-> service]} ELSE {}

\* A change of the storage since the task read the clients is yet to be told to it, by a call or in the channel
ChangeIsTold ==
  loop.at \in Listed /\ ~behind =>
    \/ loop.clients = uris
    \/ triggers > 0
    \/ \E c \in Calls : calls[c].at = "written" /\ calls[c].start = service

NwcInv == Types /\ Started /\ Listening /\ ChangeIsTold

-----------------------------------------------------------------------------
(* Types *)

\* At the start no client is connected.
LEMMA InitNwc ==
  ASSUME Bounds, NwcInit
  PROVE  NwcInv
<1>1. Types
  <2>1. NoCall \in CallOf
    BY DEF Bounds, NoCall, CallOf
  <2>2. calls \in [Calls -> CallOf]
    BY <2>1 DEF NwcInit
  <2>3. loop \in Loop
    BY DEF NwcInit, NoLoop, Loop, LoopAts
  <2>4. \A c \in Calls : calls[c].at = "none"
    BY DEF NwcInit, NoCall
  <2>5. behind \in BOOLEAN
    BY DEF NwcInit
  <2>6. /\ started \in 0..MaxStarts /\ starting \in 0..MaxStarts /\ starts \in 0..MaxStarts
        /\ service \in 0..MaxStarts /\ triggers \in 0..Triggers /\ listenerId \in Nat /\ added \in Nat
    BY DEF NwcInit, Bounds
  <2>7. uris \subseteq Names /\ listeners \subseteq Listener /\ leaked \subseteq listeners
    BY DEF NwcInit
  <2> QED BY <2>2, <2>3, <2>4, <2>5, <2>6, <2>7 DEF Types
<1>2. Started /\ Listening /\ ChangeIsTold
  BY DEF NwcInit, Started, Listening, ChangeIsTold, Own, NoLoop, Listed, Serving, Methods
<1> QED BY <1>1, <1>2 DEF NwcInv

\* The steps of the task that handle requests only move it on, from waiting to waiting.
LEMMA HandlingMoves ==
  ASSUME Types, HandleEvent \/ PayInvoice \/ ListTransactions \/ GetBalance \/ Respond
  PROVE  /\ Handling /\ loop.at \in Serving
         /\ \E to \in Serving : loop' = [loop EXCEPT !.at = to]
         /\ loop' \in Loop /\ loop'.at \in Serving /\ loop'.clients = loop.clients /\ loop'.id = loop.id
<1>1. Handling /\ loop.at \in Serving /\ \E to \in Serving : loop' = [loop EXCEPT !.at = to]
  BY DEF HandleEvent, PayInvoice, ListTransactions, GetBalance, Respond, Moves, Methods, Serving
<1> QED BY <1>1 DEF Types, Loop, LoopAts, Listed

\* Every step keeps the types; no listener that was left behind is removed.
LEMMA TypesStep ==
  ASSUME Bounds, NwcInv, [NwcNext]_nwcVars
  PROVE  Types'
<1> USE DEF callVars, sdkVars
<1>0. Types /\ MaxStarts \in Nat /\ Triggers \in Nat
  BY DEF NwcInv, Bounds
<1>1. CASE InitPlugins
  BY <1>0, <1>1 DEF InitPlugins, Types
<1>2. CASE OnStart
  BY <1>0, <1>2 DEF OnStart, Types, Loop, LoopAts, NoLoop
<1>3. CASE OnStop
  <2>1. CASE service = 0
    BY <1>0, <1>3, <2>1 DEF OnStop, Types
  <2>2. CASE service # 0
    <3>1. Clear /\ started' = 0 /\ UNCHANGED <<starting, starts, added, callVars>>
      BY <1>3, <2>2 DEF OnStop
    <3>2. \A l \in leaked : l.id # listenerId
      BY DEF NwcInv, Listening
    <3>3. leaked' \subseteq listeners' /\ listeners' \subseteq listeners
      BY <1>0, <3>1, <3>2 DEF Clear, Types
    <3>4. loop' \in Loop /\ service' = 0 /\ triggers' = 0 /\ listenerId' = 0
      BY <3>1 DEF Clear, NoLoop, Loop, LoopAts
    <3> QED BY <1>0, <3>1, <3>3, <3>4 DEF Types
  <2> QED BY <2>1, <2>2
<1>4. CASE Connect \/ Resubscribe
  BY <1>0, <1>4 DEF Connect, Resubscribe, Moves, Types, Loop, LoopAts, Listed
<1>5. CASE ListClients
  BY <1>0, <1>5 DEF ListClients, Types, Loop, LoopAts, Listed
<1>6. CASE AddSdkListener
  <2>1. service # 0
    BY <1>6 DEF AddSdkListener, NwcInv, Started
  <2>2. [id |-> added', clients |-> loop.clients, start |-> service] \in Listener
    BY <1>0, <1>6, <2>1 DEF AddSdkListener, Types, Loop, Listener
  <2>3. added' \in Nat
    BY <1>0, <1>6 DEF AddSdkListener, Types
  <2>4. loop' \in Loop
    BY <1>0, <1>6, <2>3 DEF AddSdkListener, Types, Loop, LoopAts, Listed
  <2> QED BY <1>0, <1>6, <2>2, <2>3, <2>4 DEF AddSdkListener, Types
<1>7. CASE NoteListenerId
  BY <1>0, <1>7 DEF NoteListenerId, Moves, Types, Loop, LoopAts, Listed, Serving
<1>8. CASE TakeTrigger
  <2>1. loop.at = "select" /\ loop' = [loop EXCEPT !.at = "listing"] /\ triggers' = triggers - 1 /\ triggers > 0
    BY <1>8 DEF TakeTrigger, Moves
  <2>2. \A l \in leaked : l.id # loop.id
    <3>1. Own = {[id |-> loop.id, clients |-> loop.clients, start |-> service]}
      BY <2>1 DEF NwcInv, Listening, Serving
    <3>2. PICK o \in listeners : o.id = loop.id /\ o.start = service
      BY <3>1 DEF Own
    <3> QED BY <1>0, <3>2 DEF NwcInv, Listening, Types
  <2>3. listeners' = {l \in listeners : l.id # loop.id} /\ leaked' = leaked
    BY <1>8 DEF TakeTrigger
  <2>4. leaked' \subseteq listeners'
    BY <1>0, <2>2, <2>3 DEF Types
  <2>5. loop' \in Loop /\ triggers' \in 0..Triggers
    BY <1>0, <2>1 DEF Types, Loop, LoopAts
  <2> QED BY <1>0, <1>8, <2>3, <2>4, <2>5 DEF TakeTrigger, Types
<1>9. CASE HandleEvent \/ PayInvoice \/ ListTransactions \/ GetBalance \/ Respond
  BY <1>0, <1>9, HandlingMoves DEF Handling, Types
<1>10. ASSUME NEW c \in Calls, Call(c) PROVE Types'
  <2>1. PICK n \in Names, add \in BOOLEAN :
          calls' = [calls EXCEPT ![c] = [NoCall EXCEPT !.at = "called", !.name = n, !.add = add, !.start = service]]
    BY <1>10 DEF Call
  <2>2. [NoCall EXCEPT !.at = "called", !.name = n, !.add = add, !.start = service] \in CallOf
    BY <1>0 DEF NoCall, CallOf, Types
  <2> QED BY <1>0, <1>10, <2>1, <2>2 DEF Call, Types
<1>11. ASSUME NEW c \in Calls, ReadUris(c) PROVE Types'
  <2>1. [calls[c] EXCEPT !.at = "read", !.read = uris] \in CallOf
    BY <1>0 DEF CallOf, Types
  <2>2. calls' = [calls EXCEPT ![c] = [calls[c] EXCEPT !.at = "read", !.read = uris]]
    BY <1>0, <1>11 DEF ReadUris, Types
  <2> QED BY <1>0, <1>11, <2>1, <2>2 DEF ReadUris, Types
<1>12. ASSUME NEW c \in Calls, WriteUris(c) PROVE Types'
  <2>1. calls[c] \in CallOf
    BY <1>0 DEF Types
  <2>2. [calls[c] EXCEPT !.at = "written"] \in CallOf
    BY <2>1 DEF CallOf
  <2>3. calls' = [calls EXCEPT ![c] = [calls[c] EXCEPT !.at = "written"]]
    BY <1>0, <1>12 DEF WriteUris, Types
  <2>4. uris' \subseteq Names
    <3>1. calls[c].at = "read" /\ calls[c].read \in SUBSET Names /\ calls[c].name \in Names \cup {"none"}
      BY <1>12, <2>1 DEF WriteUris, CallOf
    <3>2. calls[c].name \in Names
      BY <1>0, <1>12, <3>1 DEF Types
    <3> QED BY <1>12, <3>1, <3>2 DEF WriteUris
  <2> QED BY <1>0, <1>12, <2>2, <2>3, <2>4 DEF WriteUris, Types
<1>13. ASSUME NEW c \in Calls, TriggerResubscription(c) PROVE Types'
  <2>1. NoCall \in CallOf
    BY <1>0 DEF NoCall, CallOf
  <2>2. triggers' \in 0..Triggers
    BY <1>0, <1>13 DEF TriggerResubscription, Types
  <2>3. calls' = [calls EXCEPT ![c] = NoCall]
        /\ UNCHANGED <<sdkVars, service, loop, uris, listeners, listenerId, added, behind, leaked>>
    BY <1>13 DEF TriggerResubscription
  <2>4. NoCall.at = "none"
    BY DEF NoCall
  <2>5. calls' \in [Calls -> CallOf] /\ \A d \in Calls : calls'[d].at # "none" => calls'[d].name \in Names
    BY <1>0, <2>1, <2>3, <2>4 DEF Types
  <2> QED BY <1>0, <2>2, <2>3, <2>5 DEF Types
<1>14. CASE UNCHANGED nwcVars
  BY <1>0, <1>14 DEF nwcVars, Types
<1> QED
  BY <1>1, <1>2, <1>3, <1>4, <1>5, <1>6, <1>7, <1>8, <1>9, <1>10, <1>11, <1>12, <1>13, <1>14 DEF NwcNext


-----------------------------------------------------------------------------
(* The parts of the invariant *)

\* Each start of the service is a new one, and its task lives as long as it does.
LEMMA StartedStep ==
  ASSUME Bounds, NwcInv, [NwcNext]_nwcVars
  PROVE  Started'
<1> USE DEF callVars, sdkVars
<1>0. Types /\ Started
  BY DEF NwcInv
<1>1. CASE InitPlugins
  <2>1. /\ starts' = starts + 1 /\ starting' = starts' /\ starts \in Nat
        /\ UNCHANGED <<service, loop, listeners>>
    BY <1>0, <1>1 DEF InitPlugins, Types
  <2>2. \A l \in listeners : l.start \in Nat
    BY <1>0 DEF Types, Listener
  <2> QED BY <1>0, <2>1, <2>2 DEF Types, Started
<1>2. CASE OnStart
  <2>1. starting # 0 /\ starting' = 0 /\ UNCHANGED <<starts, listeners>> /\ starts \in Nat
    BY <1>0, <1>2 DEF OnStart, Types
  <2>2. \A l \in listeners : l.start # 0
    BY <1>0 DEF Types, Listener
  <2>3. CASE UNCHANGED <<service, loop>>
    BY <1>0, <2>1, <2>2, <2>3 DEF Started
  <2>4. CASE service' = starting /\ loop' = [NoLoop EXCEPT !.at = "connecting"]
    <3>1. loop'.at = "connecting"
      BY <2>4 DEF NoLoop
    <3> QED BY <1>0, <2>1, <2>2, <2>4, <3>1 DEF Started
  <2> QED BY <1>2, <2>3, <2>4 DEF OnStart
<1>3. CASE OnStop
  <2>1. CASE service = 0
    BY <1>0, <1>3, <2>1 DEF OnStop, Started
  <2>2. CASE service # 0
    BY <1>0, <1>3, <2>2 DEF OnStop, Clear, Types, Started, NoLoop
  <2> QED BY <2>1, <2>2
<1>4. CASE Connect \/ Resubscribe \/ ListClients \/ NoteListenerId
  BY <1>0, <1>4 DEF Connect, Resubscribe, ListClients, NoteListenerId, Moves, Types, Loop, Started
<1>5. CASE AddSdkListener
  <2>1. /\ listeners' = listeners \cup {[id |-> added', clients |-> loop.clients, start |-> service]}
        /\ loop' = [loop EXCEPT !.at = "noting", !.id = added'] /\ loop.at = "listening"
        /\ UNCHANGED <<sdkVars, service>>
    BY <1>5 DEF AddSdkListener
  <2>2. loop'.at = "noting" /\ service # 0
    BY <1>0, <2>1 DEF Types, Loop, Started
  <2>3. service <= starts /\ service # starting
    BY <1>0, <2>2 DEF Started, Types
  <2>4. \A l \in listeners' : l.start <= starts /\ l.start # starting
    BY <1>0, <2>1, <2>3 DEF Started
  <2> QED BY <1>0, <2>1, <2>2, <2>4 DEF Started
<1>6. CASE TakeTrigger
  BY <1>0, <1>6 DEF TakeTrigger, Moves, Types, Loop, Started
<1>7. CASE HandleEvent \/ PayInvoice \/ ListTransactions \/ GetBalance \/ Respond
  <2>1. Handling /\ loop.at # "none" /\ loop'.at # "none"
    BY <1>0, <1>7, HandlingMoves DEF Serving, Methods
  <2> QED BY <1>0, <2>1 DEF Handling, Started
<1>8. ASSUME NEW c \in Calls, Call(c) \/ ReadUris(c) \/ WriteUris(c) \/ TriggerResubscription(c)
      PROVE  Started'
  BY <1>0, <1>8 DEF Call, ReadUris, WriteUris, TriggerResubscription, Started
<1>9. CASE UNCHANGED nwcVars
  BY <1>0, <1>9 DEF nwcVars, Started
<1> QED BY <1>1, <1>2, <1>3, <1>4, <1>5, <1>6, <1>7, <1>8, <1>9 DEF NwcNext

\* The service has the listener of its task, and those that are left behind are told apart from it.
LEMMA ListeningStep ==
  ASSUME Bounds, NwcInv, [NwcNext]_nwcVars
  PROVE  Listening'
<1> USE DEF callVars, sdkVars
<1>0. Types /\ Started /\ Listening
  BY DEF NwcInv
<1>a. \A l \in listeners : l.id \in Nat \ {0} /\ l.start \in Nat \ {0}
  BY <1>0 DEF Types, Listener
<1>1. CASE InitPlugins
  BY <1>0, <1>1 DEF InitPlugins, Listening, Own
<1>2. CASE OnStart
  <2>1. CASE UNCHANGED <<service, loop, triggers, listenerId>>
    BY <1>0, <1>2, <2>1 DEF OnStart, Listening, Own
  <2>2. CASE /\ service = 0 /\ service' = starting
             /\ loop' = [NoLoop EXCEPT !.at = "connecting"] /\ listenerId' = 0
    <3>1. UNCHANGED <<listeners, added, leaked>> /\ loop'.at = "connecting"
      BY <1>2, <2>2 DEF OnStart, NoLoop
    <3>2. \A l \in listeners : l \in leaked /\ l.start # service'
      BY <1>0, <1>a, <2>2 DEF Listening, Started
    <3>3. Own' = {}
      BY <3>1, <3>2 DEF Own
    <3>4. \A l \in leaked : l.start # service' /\ l.id # listenerId'
      BY <1>0, <1>a, <2>2, <3>2 DEF Types
    <3> QED BY <1>0, <3>1, <3>2, <3>3, <3>4 DEF Listening, Serving, Methods
  <2> QED BY <1>2, <2>1, <2>2 DEF OnStart
<1>3. CASE OnStop
  <2>1. CASE service = 0
    BY <1>0, <1>3, <2>1 DEF OnStop, Listening, Own
  <2>2. CASE service # 0
    <3>1. /\ service' = 0 /\ loop' = NoLoop /\ listenerId' = 0 /\ UNCHANGED added
          /\ listeners' = {l \in listeners : l.id # listenerId}
          /\ leaked' = leaked \cup {l \in listeners' : l.start = service}
      BY <1>3, <2>2 DEF OnStop, Clear
    <3>2. leaked' \subseteq listeners
      BY <1>0, <3>1 DEF Types
    <3>3. \A l \in leaked' : l.start # service' /\ l.id # listenerId'
      BY <1>a, <3>1, <3>2
    <3>4. Own' = {}
      BY <1>a, <3>1 DEF Own
    <3>5. \A l \in listeners' : l.id <= added' /\ (l.start = service' \/ l \in leaked')
      BY <1>0, <3>1 DEF Listening
    <3>6. \A l, m \in listeners' : l.id = m.id => l = m
      BY <1>0, <3>1 DEF Listening
    <3> QED BY <3>1, <3>3, <3>4, <3>5, <3>6 DEF Listening, NoLoop, Serving, Methods
  <2> QED BY <2>1, <2>2
<1>4. CASE Connect \/ Resubscribe \/ ListClients
  <2>1. /\ UNCHANGED <<service, listeners, listenerId, added, leaked>>
        /\ loop.at \notin Serving \cup {"noting"} /\ loop'.at \notin Serving \cup {"noting"}
    BY <1>0, <1>4 DEF Connect, Resubscribe, ListClients, Moves, Types, Loop, Serving, Methods
  <2> QED BY <1>0, <2>1 DEF Listening, Own
<1>5. CASE NoteListenerId
  <2>1. /\ UNCHANGED <<service, listeners, added, leaked>> /\ listenerId' = loop.id
        /\ loop.at = "noting" /\ loop'.at = "select" /\ loop'.id = loop.id /\ loop'.clients = loop.clients
    BY <1>0, <1>5 DEF NoteListenerId, Moves, Types, Loop
  <2>2. Own = {[id |-> loop.id, clients |-> loop.clients, start |-> service]} /\ Own' = Own
    BY <1>0, <2>1 DEF Listening, Own
  <2>3. PICK o \in listeners : o.id = loop.id /\ o.start = service
    BY <2>2 DEF Own
  <2>4. \A l \in leaked : l.id # listenerId'
    BY <1>0, <2>1, <2>3 DEF Listening, Types
  <2> QED BY <1>0, <2>1, <2>2, <2>4 DEF Listening, Serving
<1>6. CASE AddSdkListener
  <2> DEFINE new == [id |-> added + 1, clients |-> loop.clients, start |-> service]
  <2>1. /\ listeners' = listeners \cup {new} /\ added' = added + 1
        /\ loop.at = "listening" /\ UNCHANGED <<service, listenerId, leaked>>
    BY <1>6 DEF AddSdkListener
  <2>2. loop'.at = "noting" /\ loop'.id = added + 1 /\ loop'.clients = loop.clients
    BY <1>0, <1>6 DEF AddSdkListener, Types, Loop
  <2>3. new.id = added + 1 /\ new.start = service /\ added \in Nat
    BY <1>0 DEF Types
  <2>4. \A l \in listeners : l.id <= added
    BY <1>0 DEF Listening
  <2>5. Own = {}
    BY <1>0, <2>1 DEF Listening, Serving, Methods
  <2> HIDE DEF new
  <2>6. Own' = {new}
    BY <2>1, <2>3, <2>5 DEF Own
  <2>7. \A l \in listeners' : l.id <= added' /\ (l.start = service' \/ l \in leaked')
    BY <1>0, <1>a, <2>1, <2>3, <2>4 DEF Listening
  <2>8. \A l, m \in listeners' : l.id = m.id => l = m
    BY <1>0, <1>a, <2>1, <2>3, <2>4 DEF Listening
  <2>9. \A l \in leaked' : l.start # service' /\ l.id # listenerId'
    BY <1>0, <2>1 DEF Listening
  <2>10. Own' = {[id |-> loop'.id, clients |-> loop'.clients, start |-> service']}
    BY <2>1, <2>2, <2>6 DEF new
  <2> QED BY <2>2, <2>7, <2>8, <2>9, <2>10 DEF Listening
<1>7. CASE TakeTrigger
  <2>1. /\ loop.at = "select" /\ listeners' = {l \in listeners : l.id # loop.id}
        /\ UNCHANGED <<service, listenerId, added, leaked>> /\ loop'.at = "listing"
    BY <1>0, <1>7 DEF TakeTrigger, Moves, Types, Loop
  <2>2. Own = {[id |-> loop.id, clients |-> loop.clients, start |-> service]}
    BY <1>0, <2>1 DEF Listening, Serving
  <2>3. \A l \in Own : l.id = loop.id
    BY <2>2
  <2>4. Own' = {}
    BY <2>1, <2>3 DEF Own
  <2> QED BY <1>0, <2>1, <2>4 DEF Listening, Serving, Methods
<1>8. CASE HandleEvent \/ PayInvoice \/ ListTransactions \/ GetBalance \/ Respond
  <2>1. /\ Handling /\ loop.at \in Serving /\ loop'.at \in Serving
        /\ loop'.clients = loop.clients /\ loop'.id = loop.id
    BY <1>0, <1>8, HandlingMoves
  <2> QED BY <1>0, <2>1 DEF Handling, Listening, Own
<1>9. ASSUME NEW c \in Calls, Call(c) \/ ReadUris(c) \/ WriteUris(c) \/ TriggerResubscription(c)
      PROVE  Listening'
  BY <1>0, <1>9 DEF Call, ReadUris, WriteUris, TriggerResubscription, Listening, Own
<1>10. CASE UNCHANGED nwcVars
  BY <1>0, <1>10 DEF nwcVars, Listening, Own
<1> QED BY <1>1, <1>2, <1>3, <1>4, <1>5, <1>6, <1>7, <1>8, <1>9, <1>10 DEF NwcNext

\* What the task does not know of the storage is still to be told to it.
LEMMA ChangeStep ==
  ASSUME Bounds, NwcInv, [NwcNext]_nwcVars
  PROVE  ChangeIsTold'
<1> USE DEF callVars, sdkVars
<1>0. Types /\ Started /\ ChangeIsTold
  BY DEF NwcInv
<1>1. CASE InitPlugins
  BY <1>0, <1>1 DEF InitPlugins, ChangeIsTold
<1>2. CASE OnStart
  <2>1. (loop' = loop /\ UNCHANGED <<service, triggers>>) \/ loop'.at = "connecting"
    BY <1>2 DEF OnStart, NoLoop
  <2>2. UNCHANGED callVars
    BY <1>2 DEF OnStart
  <2> QED BY <1>0, <2>1, <2>2 DEF ChangeIsTold, Listed, Serving, Methods
<1>3. CASE OnStop
  <2>1. (loop' = loop /\ UNCHANGED <<service, triggers>>) \/ loop'.at = "none"
    BY <1>3 DEF OnStop, Clear, NoLoop
  <2>2. UNCHANGED callVars
    BY <1>3 DEF OnStop
  <2> QED BY <1>0, <2>1, <2>2 DEF ChangeIsTold, Listed, Serving, Methods
<1>4. CASE Connect \/ Resubscribe \/ NoteListenerId \/ AddSdkListener
  <2>1. /\ UNCHANGED <<service, triggers, callVars>> /\ loop'.clients = loop.clients
        /\ loop'.at \in Listed => loop.at \in Listed
    BY <1>0, <1>4 DEF Connect, Resubscribe, NoteListenerId, AddSdkListener, Moves, Types, Loop, Listed, Serving, Methods
  <2> QED BY <1>0, <2>1 DEF ChangeIsTold
<1>5. CASE ListClients
  <2>1. loop'.at = "ended" \/ (loop'.clients = uris /\ uris' = uris)
    BY <1>0, <1>5 DEF ListClients, Types, Loop
  <2> QED BY <2>1 DEF ChangeIsTold, Listed, Serving, Methods
<1>6. CASE TakeTrigger
  <2>1. loop'.at = "listing"
    BY <1>0, <1>6 DEF TakeTrigger, Moves, Types, Loop
  <2> QED BY <2>1 DEF ChangeIsTold, Listed, Serving, Methods
<1>7. CASE HandleEvent \/ PayInvoice \/ ListTransactions \/ GetBalance \/ Respond
  <2>1. Handling /\ loop.at \in Serving /\ loop'.clients = loop.clients
    BY <1>0, <1>7, HandlingMoves
  <2> QED BY <1>0, <2>1 DEF Handling, ChangeIsTold, Listed
<1>8. ASSUME NEW c \in Calls, Call(c) \/ ReadUris(c) PROVE ChangeIsTold'
  <2>1. /\ UNCHANGED <<service, loop, triggers, uris, behind>> /\ calls[c].at # "written"
        /\ \A d \in Calls : d # c => calls'[d] = calls[d]
    BY <1>0, <1>8 DEF Call, ReadUris, Types
  <2> QED BY <1>0, <2>1 DEF ChangeIsTold
<1>9. ASSUME NEW c \in Calls, WriteUris(c) PROVE ChangeIsTold'
  <2>1. calls[c] \in CallOf
    BY <1>0 DEF Types
  <2>2. calls'[c].at = "written" /\ calls'[c].start = calls[c].start
    BY <1>0, <1>9, <2>1 DEF WriteUris, Types, CallOf
  <2>3. UNCHANGED service /\ (calls[c].start # service => behind')
    BY <1>9 DEF WriteUris
  <2> QED BY <2>2, <2>3 DEF ChangeIsTold
<1>10. ASSUME NEW c \in Calls, TriggerResubscription(c) PROVE ChangeIsTold'
  <2>1. /\ UNCHANGED <<service, loop, uris, behind>> /\ triggers \in Nat
        /\ \A d \in Calls : d # c => calls'[d] = calls[d]
    BY <1>0, <1>10 DEF TriggerResubscription, Types
  <2>2. triggers' = triggers \/ triggers' = triggers + 1
    BY <1>10 DEF TriggerResubscription
  <2>3. calls[c].start = service /\ loop.at \in Listed => triggers' > 0
    BY <1>10, <2>1 DEF TriggerResubscription, Listed, Serving, Methods
  <2> QED BY <1>0, <2>1, <2>2, <2>3 DEF ChangeIsTold
<1>11. CASE UNCHANGED nwcVars
  BY <1>0, <1>11 DEF nwcVars, ChangeIsTold
<1> QED BY <1>1, <1>2, <1>3, <1>4, <1>5, <1>6, <1>7, <1>8, <1>9, <1>10, <1>11 DEF NwcNext

\* Every step keeps the invariant.
LEMMA NwcStep ==
  ASSUME Bounds, NwcInv, [NwcNext]_nwcVars
  PROVE  NwcInv'
BY TypesStep, StartedStep, ListeningStep, ChangeStep DEF NwcInv

-----------------------------------------------------------------------------

\* For any connection strings, calls and starts, every variable of the plugin stays in its domain, and a listener
\* that was left behind is never taken for one of a later start and removed.
THEOREM TypeCorrect == NwcSpec => []NwcTypeOK
<1>1. NwcInv => NwcTypeOK
  <2> SUFFICES ASSUME NwcInv PROVE NwcTypeOK
    OBVIOUS
  <2>1. Types
    BY DEF NwcInv
  <2>2. loop.clients \subseteq Names /\ \A c \in Calls : calls[c].start \in 0..MaxStarts
    BY <2>1 DEF Types, Loop, CallOf
  <2> QED BY <2>1, <2>2 DEF Types, NwcTypeOK
<1>2. ASSUME Bounds, NwcInv, [NwcNext]_nwcVars
      PROVE  NwcInv'
  BY <1>2, NwcStep
<1>3. Bounds => (NwcSpec => []NwcTypeOK)
  <2> SUFFICES ASSUME Bounds
               PROVE  NwcSpec => []NwcTypeOK
    OBVIOUS
  <2>1. NwcInit => NwcInv
    BY InitNwc
  <2>2. NwcInv /\ [NwcNext]_nwcVars => NwcInv'
    BY <1>2
  <2> QED BY <1>1, <2>1, <2>2, PTL DEF NwcSpec
<1> QED BY <1>3, NwcAssumption DEF Bounds

\* For any connection strings, any number of concurrent calls and any starts, a task that waits for requests with
\* no change of the storage yet to be told to it serves exactly the clients in the storage, and exactly one listener
\* of its service notifies them (subscribe_to_notifications, trigger_resubscription, RuntimeContext::clear).
THEOREM ClientsAreAlwaysServed == NwcSpec => []ClientsAreServed
<1>1. NwcInv => ClientsAreServed
  <2> SUFFICES ASSUME NwcInv PROVE ClientsAreServed
    OBVIOUS
  <2>1. \A l \in listeners : l.start = service \/ l \in leaked
    BY DEF NwcInv, Listening
  <2>2. ASSUME loop.at \in Methods \cup {"select", "responding"}, triggers = 0, ~behind,
               \A c \in Calls : calls[c].at # "written"
        PROVE  /\ loop.clients = uris
               /\ {[id |-> loop.id, clients |-> uris, start |-> service]} = {l \in listeners : l.start = service}
    <3>1. loop.clients = uris
      BY <2>2 DEF NwcInv, ChangeIsTold, Listed, Serving
    <3>2. Own = {[id |-> loop.id, clients |-> loop.clients, start |-> service]}
      BY <2>2 DEF NwcInv, Listening, Serving
    <3> QED BY <3>1, <3>2 DEF Own
  <2> QED BY <2>1, <2>2 DEF ClientsAreServed
<1>2. ASSUME Bounds, NwcInv, [NwcNext]_nwcVars
      PROVE  NwcInv'
  BY <1>2, NwcStep
<1>3. Bounds => (NwcSpec => []ClientsAreServed)
  <2> SUFFICES ASSUME Bounds
               PROVE  NwcSpec => []ClientsAreServed
    OBVIOUS
  <2>1. NwcInit => NwcInv
    BY InitNwc
  <2>2. NwcInv /\ [NwcNext]_nwcVars => NwcInv'
    BY <1>2
  <2> QED BY <1>1, <2>1, <2>2, PTL DEF NwcSpec
<1> QED BY <1>3, NwcAssumption DEF Bounds

=============================================================================
