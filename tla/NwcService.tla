----------------------------- MODULE NwcService -----------------------------
(***************************************************************************)
(* The Nostr Wallet Connect plugin (plugins/nwc): a task answers requests  *)
(* that clients send through relays, and an event listener of the SDK      *)
(* notifies the clients of payments. Clients are connection strings kept   *)
(* in the storage of the plugin; a call that adds or removes one triggers  *)
(* the task to subscribe again, with a new listener. The bindings spawn    *)
(* on_start, which may run after the SDK has stopped.                      *)
(***************************************************************************)
EXTENDS Naturals, FiniteSets

CONSTANTS
  Names,     \* of connection strings
  Calls,     \* of the API, from threads of the application
  Triggers,  \* capacity of the channel that triggers, 10 in the code
  MaxStarts  \* bound: starts of the SDK

ASSUME NwcAssumption == Triggers \in Nat /\ MaxStarts \in Nat

VARIABLES
  started,    \* the SDK: what it started as last, 0 for stopped
  starting,   \* the start whose on_start is spawned and has not run, 0 for none
  starts,     \* starts so far
  service,    \* runtime_ctx: the start it is of, 0 for none
  loop,       \* the task of the service: where it is, the clients it read, its listener
  triggers,   \* what is in the channel of this service
  uris,       \* the connection strings in the storage
  listeners,  \* the listeners of the plugin that the SDK has: [id, clients, start]
  listenerId, \* sdk_listener_id
  added,      \* listeners so far, numbers their ids
  calls,      \* [c -> [at, name, add, start, read]]
  behind,     \* ghost: a call for an earlier start changed the storage since the clients were read
  leaked      \* ghost: listeners whose id was not noted when the service stopped

nwcVars == <<started, starting, starts, service, loop, triggers, uris, listeners, listenerId, added, calls,
             behind, leaked>>
callVars == <<uris, calls, behind>>
sdkVars == <<started, starting, starts>>

Methods == {"pay_invoice", "list_transactions", "get_balance"}
NoLoop == [at |-> "none", clients |-> {}, id |-> 0]
NoCall == [at |-> "none", name |-> "none", add |-> FALSE, start |-> 0, read |-> {}]

NwcInit ==
  /\ started = 0 /\ starting = 0 /\ starts = 0 /\ service = 0
  /\ loop = NoLoop /\ triggers = 0 /\ uris = {}
  /\ listeners = {} /\ listenerId = 0 /\ added = 0
  /\ calls = [c \in Calls |-> NoCall]
  /\ behind = FALSE /\ leaked = {}

-----------------------------------------------------------------------------
(* The plugin *)

\* LiquidSdk::init_plugins
InitPlugins ==
  /\ started = 0 /\ starts < MaxStarts
  /\ starts' = starts + 1 /\ started' = starts' /\ starting' = starts'
  /\ UNCHANGED <<service, loop, triggers, listeners, listenerId, added, callVars, leaked>>

\* Refused while it runs; the keys or the storage may fail
OnStart ==
  /\ starting # 0 /\ starting' = 0
  /\ \/ UNCHANGED <<service, loop, triggers, listenerId>>
     \/ /\ service = 0
        /\ service' = starting
        /\ loop' = [NoLoop EXCEPT !.at = "connecting"]
        /\ triggers' = 0 /\ listenerId' = 0
  /\ UNCHANGED <<started, starts, listeners, added, callVars, leaked>>

\* RuntimeContext::clear: the task is aborted wherever it is, and the listener removed whose id it noted
Clear ==
  /\ service' = 0 /\ loop' = NoLoop /\ triggers' = 0 /\ listenerId' = 0
  /\ listeners' = {l \in listeners : l.id # listenerId}
  /\ leaked' = leaked \cup {l \in listeners' : l.start = service}

\* LiquidSdk::disconnect
OnStop ==
  /\ started # 0 /\ started' = 0
  /\ IF service = 0 THEN UNCHANGED <<service, loop, triggers, listenerId, listeners, leaked>> ELSE Clear
  /\ UNCHANGED <<starting, starts, added, callVars>>

-----------------------------------------------------------------------------
(* Its task *)

Moves(from, to) == loop.at = from /\ loop' = [loop EXCEPT !.at = to]

Connect ==
  /\ Moves("connecting", "listing")
  /\ UNCHANGED <<sdkVars, service, triggers, listeners, listenerId, added, callVars, leaked>>

\* A storage that cannot be read ends the task; the service stays
ListClients ==
  /\ loop.at = "listing"
  /\ \/ loop' = [loop EXCEPT !.at = "subscribing", !.clients = uris] /\ behind' = FALSE
     \/ loop' = [loop EXCEPT !.at = "ended"] /\ UNCHANGED behind
  /\ UNCHANGED <<sdkVars, service, triggers, listeners, listenerId, added, uris, calls, leaked>>

Resubscribe ==
  /\ Moves("subscribing", "listening") \/ Moves("subscribing", "ended")
  /\ UNCHANGED <<sdkVars, service, triggers, listeners, listenerId, added, callVars, leaked>>

AddSdkListener ==
  /\ loop.at = "listening"
  /\ added' = added + 1
  /\ listeners' = listeners \cup {[id |-> added', clients |-> loop.clients, start |-> service]}
  /\ loop' = [loop EXCEPT !.at = "noting", !.id = added']
  /\ UNCHANGED <<sdkVars, service, triggers, listenerId, callVars, leaked>>

NoteListenerId ==
  /\ Moves("noting", "select")
  /\ listenerId' = loop.id
  /\ UNCHANGED <<sdkVars, service, triggers, listeners, added, callVars, leaked>>

\* Mutant: the listener is kept
TakeTrigger_Keeps ==
  /\ triggers > 0 /\ Moves("select", "listing")
  /\ triggers' = triggers - 1
  /\ UNCHANGED <<sdkVars, service, listeners, listenerId, added, callVars, leaked>>

TakeTrigger ==
  /\ triggers > 0 /\ Moves("select", "listing")
  /\ triggers' = triggers - 1
  /\ listeners' = {l \in listeners : l.id # loop.id}
  /\ UNCHANGED <<sdkVars, service, listenerId, added, callVars, leaked>>

Handling == UNCHANGED <<sdkVars, service, triggers, listeners, listenerId, added, callVars, leaked>>

\* handle_event skips a request whose expiration is still to come, and what it cannot verify, decrypt or read
HandleEvent ==
  /\ \E expiration \in {"none", "past", "future"}, valid \in BOOLEAN, method \in Methods \cup {"other"} :
       /\ expiration # "future" /\ valid /\ method # "other"
       /\ Moves("select", method)
  /\ Handling

\* Nothing else is handled while a payment is made, which takes up to three minutes: one that is pending then has
\* failed, as one that cannot be made. A stop in between leaves the request without a response
PayInvoice == Moves("pay_invoice", "responding") /\ Handling
ListTransactions == Moves("list_transactions", "responding") /\ Handling
GetBalance == Moves("get_balance", "responding") /\ Handling
Respond == Moves("responding", "select") /\ Handling

-----------------------------------------------------------------------------
(* Calls of the application *)

\* runtime_ctx: refused when the service is not running
Call(c) ==
  /\ calls[c].at = "none" /\ service # 0
  /\ \E n \in Names, add \in BOOLEAN :
       calls' = [calls EXCEPT ![c] = [NoCall EXCEPT !.at = "called", !.name = n, !.add = add, !.start = service]]
  /\ UNCHANGED <<sdkVars, service, loop, triggers, uris, listeners, listenerId, added, behind, leaked>>

ReadUris(c) ==
  /\ calls[c].at = "called"
  /\ calls' = [calls EXCEPT ![c].at = "read", ![c].read = uris]
  /\ UNCHANGED <<sdkVars, service, loop, triggers, uris, listeners, listenerId, added, behind, leaked>>

\* set_nwc_uri, remove_nwc_uri: what another call wrote since the strings were read is lost
WriteUris(c) ==
  /\ calls[c].at = "read"
  /\ uris' = IF calls[c].add THEN calls[c].read \cup {calls[c].name} ELSE calls[c].read \ {calls[c].name}
  /\ calls' = [calls EXCEPT ![c].at = "written"]
  /\ behind' = (behind \/ calls[c].start # service)
  /\ UNCHANGED <<sdkVars, service, loop, triggers, listeners, listenerId, added, leaked>>

\* trigger_resubscription waits for a place in the channel, unless its task is gone
TriggerResubscription(c) ==
  /\ calls[c].at = "written"
  /\ \/ (calls[c].start # service \/ loop.at = "ended") /\ UNCHANGED triggers
     \/ calls[c].start = service /\ loop.at # "ended" /\ triggers < Triggers /\ triggers' = triggers + 1
  /\ calls' = [calls EXCEPT ![c] = NoCall]
  /\ UNCHANGED <<sdkVars, service, loop, uris, listeners, listenerId, added, behind, leaked>>

NwcNext ==
  \/ InitPlugins \/ OnStart \/ OnStop
  \/ Connect \/ ListClients \/ Resubscribe \/ AddSdkListener \/ NoteListenerId \/ TakeTrigger
  \/ HandleEvent \/ PayInvoice \/ ListTransactions \/ GetBalance \/ Respond
  \/ \E c \in Calls : Call(c) \/ ReadUris(c) \/ WriteUris(c) \/ TriggerResubscription(c)

NwcSpec == NwcInit /\ [][NwcNext]_nwcVars

-----------------------------------------------------------------------------
\* Every variable has its form
NwcTypeOK ==
  /\ {started, starting, service} \subseteq 0..MaxStarts /\ triggers \in 0..Triggers
  /\ uris \subseteq Names /\ loop.clients \subseteq Names /\ leaked \subseteq listeners
  /\ \A c \in Calls : calls[c].start \in 0..MaxStarts

\* While the task waits for requests and no change of the storage is still to be told to it, it has subscribed for
\* the clients in the storage, and exactly one listener of this service notifies exactly these; a listener of an
\* earlier start is left only if the stop came before its id was noted. A change by a call that began before the
\* service was started again is excepted: the trigger went to the task that is gone
ClientsAreServed ==
  /\ loop.at \in Methods \cup {"select", "responding"} /\ triggers = 0 /\ ~behind /\ (\A c \in Calls : calls[c].at # "written") =>
       /\ loop.clients = uris
       /\ {[id |-> loop.id, clients |-> uris, start |-> service]} = {l \in listeners : l.start = service}
  /\ \A l \in listeners : l.start = service \/ l \in leaked
=============================================================================
