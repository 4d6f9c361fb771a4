-------------------------- MODULE NotificationJobs --------------------------
(***************************************************************************)
(* What the bindings do when a push notification wakes the application:    *)
(* the foreground service of Android (ForegroundService.kt, job/) and the  *)
(* notification extension of iOS (SDKNotificationService.swift, Task/).    *)
(* Each message becomes a job, run on one SDK that all instances of the    *)
(* service share (BreezSdkLiquidConnector). A job for a swap waits for the *)
(* payment, by polling and by events; the others post one answer. Somebody *)
(* must disconnect the SDK in the end, and tell the user when a job fails. *)
(***************************************************************************)
EXTENDS Naturals, Sequences, FiniteSets, SequencesExt

CONSTANTS
  Jobs,
  JobKinds,    \* [j -> the messages it may be of]
  MaxServices  \* bound: instances of the service

VARIABLES
  connector,  \* the shared SDK: 0 when not connected, else the number of the connection
  connected,  \* connections made so far
  listener,   \* the service that hears the events
  services,   \* [i -> [started, sdk, timeout, shutdown, jobs]]: its SDK, its pending callbacks, the jobs it lists
  running,    \* the service that is started, 0 for none
  jobs,       \* [j -> [at, kind, good, service, sdk, told, late]]
  claimed     \* the payment of the swap is complete, or its claim has an id

jobVars == <<connector, connected, listener, services, running, jobs, claimed>>

Services == 1..MaxServices
NewService == [started |-> FALSE, sdk |-> 0, timeout |-> FALSE, shutdown |-> FALSE, jobs |-> <<>>]
NoJob == [at |-> "none", kind |-> "none", good |-> FALSE, service |-> 0, sdk |-> 0, told |-> {}, late |-> FALSE]

JobInit ==
  /\ connector = 0 /\ connected = 0 /\ listener = 0
  /\ services = [i \in Services |-> NewService] /\ running = 0
  /\ jobs = [j \in Jobs |-> NoJob]
  /\ claimed = FALSE

NextService == 1 + Cardinality({i \in Services : services[i].started})

At(j, place) == jobs[j].at = place
Live(j) == jobs[j].sdk = connector

\* A call of the SDK fails when it is disconnected, and may fail when it is not
Answered(j, answers) == IF Live(j) THEN answers \cup {"error"} ELSE {"error"}

-----------------------------------------------------------------------------
(* Android *)

resetDelayedCallbacks(s) == [s EXCEPT !.started = TRUE, !.timeout = TRUE, !.shutdown = FALSE]

delayedShutdown(s) == [s EXCEPT !.shutdown = @ \/ s.jobs = <<>>]

onFinished(s, j) == delayedShutdown([s EXCEPT !.jobs = Remove(@, j)])

getJobFromIntent(j) == [kind : JobKinds[j], good : BOOLEAN]

\* A message without a payload, or of a kind it does not know, starts the service only. Once it stopped, the
\* system makes a new one
OnStartCommand(j) ==
  /\ At(j, "none")
  /\ LET i == IF running = 0 THEN NextService ELSE running
         s == resetDelayedCallbacks(services[i])
     IN /\ i \in Services
        /\ running' = i
        /\ \/ /\ services' = [services EXCEPT ![i] = delayedShutdown(s)]
              /\ jobs' = [jobs EXCEPT ![j].at = "invalid"]
           \/ /\ services' = [services EXCEPT ![i] = s]
              /\ \E m \in getJobFromIntent(j) :
                   jobs' = [jobs EXCEPT ![j] = [NoJob EXCEPT !.at = "launched", !.kind = m.kind, !.good = m.good,
                                                             !.service = i]]
  /\ UNCHANGED <<connector, connected, listener, claimed>>

\* The first one connects, under the lock of the connector, and hears the events
ConnectSdk(j) ==
  LET i == jobs[j].service IN
  /\ At(j, "launched")
  /\ \/ /\ services[i].sdk # 0
        /\ jobs' = [jobs EXCEPT ![j].at = "start", ![j].sdk = services[i].sdk]
        /\ UNCHANGED <<connector, connected, listener, services>>
     \/ /\ services[i].sdk = 0 /\ connector # 0
        /\ jobs' = [jobs EXCEPT ![j].at = "connected", ![j].sdk = connector]
        /\ UNCHANGED <<connector, connected, listener, services>>
     \/ /\ services[i].sdk = 0 /\ connector = 0
        /\ connected' = connected + 1 /\ connector' = connected + 1 /\ listener' = i
        /\ jobs' = [jobs EXCEPT ![j].at = "connected", ![j].sdk = connected + 1]
        /\ UNCHANGED services
     \/ /\ services[i].sdk = 0 /\ connector = 0
        /\ jobs' = [jobs EXCEPT ![j].at = "unconnected"]
        /\ services' = [services EXCEPT ![i] = delayedShutdown(@)]
        /\ UNCHANGED <<connector, connected, listener>>
  /\ UNCHANGED <<running, claimed>>

\* liquidSDK = connectSDK(...): a shutdown in between is forgotten
SetSdk(j) ==
  /\ At(j, "connected")
  /\ services' = [services EXCEPT ![jobs[j].service].sdk = jobs[j].sdk]
  /\ jobs' = [jobs EXCEPT ![j].at = "start"]
  /\ UNCHANGED <<connector, connected, listener, running, claimed>>

Pending(s) == s.timeout \/ s.shutdown

\* A swap job whose payload is not decoded stays in the list, and does nothing. A job is late when no callback
\* of its service is left
StartJob(j) ==
  LET i == jobs[j].service
      s == services[i]
      doing == IF jobs[j].kind # "swap" THEN "replying" ELSE IF jobs[j].good THEN "polling" ELSE "stuck"
  IN /\ At(j, "start")
     /\ IF s.sdk = 0
        THEN jobs' = [jobs EXCEPT ![j].at = "dropped"] /\ UNCHANGED services
        ELSE /\ services' = [services EXCEPT ![i].jobs = Append(@, j)]
             /\ jobs' = [jobs EXCEPT ![j].at = doing, ![j].sdk = s.sdk, ![j].late = ~Pending(s)]
     /\ UNCHANGED <<connector, connected, listener, running, claimed>>

\* The callback is one of a service that may have stopped since: it disconnects whatever is connected
Shutdown(i) ==
  /\ connector' = 0
  /\ running' = IF running = i THEN 0 ELSE running

\* notifyFailure: the user is told unless the id of the swap was never decoded
Failed(j) == jobs[j].kind = "swap" /\ jobs[j].good

ServiceTimeout(i) ==
  /\ services[i].timeout
  /\ services' = [services EXCEPT ![i].timeout = FALSE, ![i].sdk = 0]
  /\ jobs' = [j \in Jobs |-> IF Failed(j) /\ Contains(services[i].jobs, j)
                             THEN [jobs[j] EXCEPT !.told = @ \cup {"failure"}] ELSE jobs[j]]
  /\ Shutdown(i)
  /\ UNCHANGED <<connected, listener, claimed>>

ScheduledShutdown(i) ==
  /\ services[i].shutdown
  /\ services' = [services EXCEPT ![i].shutdown = FALSE, ![i].sdk = 0]
  /\ Shutdown(i)
  /\ UNCHANGED <<connected, listener, jobs, claimed>>

notified(j) == "success" \in jobs[j].told

\* Mutant: the error is logged
stopPolling_Logged(j, error) == [jobs[j] EXCEPT !.at = "ended"]

\* The polling ends, and tells the user when it is for an error
stopPolling(j, error) ==
  [jobs[j] EXCEPT !.at = "ended", !.told = @ \cup (IF error THEN {"failure"} ELSE {})]

\* One round. A call of the SDK fails when it is disconnected, and may fail when it is not: then the job stays
\* in the list
Poll(j) ==
  /\ At(j, "polling")
  /\ \/ jobs' = [jobs EXCEPT ![j] = stopPolling(j, TRUE)]
     \/ /\ Live(j) /\ claimed
        /\ jobs' = [jobs EXCEPT ![j] = IF notified(j) THEN stopPolling(j, FALSE)
                                       ELSE [jobs[j] EXCEPT !.at = "finishing", !.told = @ \cup {"success"}]]
  /\ UNCHANGED <<connector, connected, listener, services, running, claimed>>

\* The polling has told the user: fgService.onFinished
Finish(j) ==
  /\ At(j, "finishing")
  /\ services' = [services EXCEPT ![jobs[j].service] = onFinished(@, j)]
  /\ jobs' = [jobs EXCEPT ![j].at = "ended"]
  /\ UNCHANGED <<connector, connected, listener, running, claimed>>

\* An event reaches the service that connected. The first job it finishes leaves the list, which ends the
\* iteration: the next ones do not see the event. Nothing stops the polling
OnEvent ==
  /\ connector # 0 /\ claimed
  /\ LET waiting == {j \in ToSet(services[listener].jobs) : Failed(j) /\ ~notified(j)}
         order == SelectSeq(services[listener].jobs, LAMBDA j : j \in waiting)
     IN /\ order # <<>>
        /\ jobs' = [jobs EXCEPT ![Head(order)].told = @ \cup {"success"}]
        /\ services' = [services EXCEPT ![listener] = onFinished(@, Head(order))]
  /\ UNCHANGED <<connector, connected, listener, running, claimed>>

\* What a job asks of the SDK: the invoice for an offer of the wallet; the limits, an error when they are none; an
\* invoice, an error when its amount or comment is out of the limits, for a swap made before the answer is posted;
\* and the preimage, once the payment has a claim tx or is complete
InvoiceRequestJob(j) == Answered(j, {"invoice"})
LnurlPayInfoJob(j) == Answered(j, {"limits"})
LnurlPayInvoiceJob(j) == Answered(j, {"invoice"})
LnurlPayVerifyJob(j) == Answered(j, IF claimed THEN {"preimage"} ELSE {"unsettled"})

\* Posting an answer may fail: then an error is posted too, and when that fails as well nobody hears of it and
\* the job stays in the list
Reply(j) ==
  LET i == jobs[j].service
      answers == CASE jobs[j].kind = "invoiceRequest" -> InvoiceRequestJob(j)
                   [] jobs[j].kind = "lnurlPayInfo" -> LnurlPayInfoJob(j)
                   [] jobs[j].kind = "lnurlPayInvoice" -> LnurlPayInvoiceJob(j)
                   [] jobs[j].kind = "lnurlPayVerify" -> LnurlPayVerifyJob(j)
  IN /\ At(j, "replying")
     /\ \/ /\ \E answer \in IF jobs[j].good THEN {{a} : a \in answers} \cup {{a, "error"} : a \in answers} ELSE {{}} :
                jobs' = [jobs EXCEPT ![j].at = "ended", ![j].told = answer]
           /\ services' = [services EXCEPT ![i] = onFinished(@, j)]
        \/ /\ jobs[j].good
           /\ jobs' = [jobs EXCEPT ![j].at = "stuck"]
           /\ services' = [services EXCEPT ![i] = delayedShutdown(@)]
     /\ UNCHANGED <<connector, connected, listener, running, claimed>>

\* The payment is claimed, by this SDK or another instance of the wallet
Claim ==
  /\ ~claimed /\ claimed' = TRUE
  /\ UNCHANGED <<connector, connected, listener, services, running, jobs>>

NextAndroid ==
  \/ \E j \in Jobs : OnStartCommand(j) \/ ConnectSdk(j) \/ SetSdk(j) \/ StartJob(j) \/ Poll(j) \/ Finish(j) \/ Reply(j)
  \/ \E i \in Services : ServiceTimeout(i) \/ ScheduledShutdown(i)
  \/ OnEvent \/ Claim

-----------------------------------------------------------------------------
(* iOS: one instance of the extension for each job; its timeout is the      *)
(* system's limit of its time                                              *)

\* A message that is not understood: the content is shown as it is, or the system waits for the end of the time
DidReceive(j) ==
  LET i == NextService IN
  /\ At(j, "none") /\ i \in Services
  /\ \/ /\ \E shown \in BOOLEAN : services' = [services EXCEPT ![i].started = TRUE, ![i].timeout = ~shown]
        /\ jobs' = [jobs EXCEPT ![j].at = "invalid"]
     \/ /\ services' = [services EXCEPT ![i].started = TRUE, ![i].timeout = TRUE]
        /\ \E m \in getJobFromIntent(j) :
             jobs' = [jobs EXCEPT ![j] = [NoJob EXCEPT !.at = "launched", !.kind = m.kind, !.good = m.good, !.service = i]]
  /\ UNCHANGED <<connector, connected, listener, running, claimed>>

\* The extension tells the user through the content handler, and the system ends it
ToldBy(i) == [services EXCEPT ![i].timeout = FALSE]

\* A connection that fails, and a payload that is not decoded, shut the shared SDK down
Register(j) ==
  LET i == jobs[j].service
      failed == [jobs EXCEPT ![j].at = "ended", ![j].told = {"failure"}]
  IN
  /\ At(j, "launched")
  /\ \/ /\ connector = 0 /\ connector' = 0 /\ listener' = 0
        /\ jobs' = failed /\ services' = ToldBy(i)
        /\ UNCHANGED connected
     \/ /\ ~jobs[j].good /\ connector' = 0 /\ listener' = 0
        /\ connected' = IF connector = 0 THEN connected + 1 ELSE connected
        /\ jobs' = failed /\ services' = ToldBy(i)
     \/ /\ jobs[j].good /\ listener' = i
        /\ connected' = IF connector = 0 THEN connected + 1 ELSE connected
        /\ connector' = IF connector = 0 THEN connected + 1 ELSE connector
        /\ jobs' = [jobs EXCEPT ![j].at = IF jobs[j].kind = "swap" THEN "polling" ELSE "replying", ![j].sdk = connector']
        /\ UNCHANGED services
  /\ UNCHANGED <<running, claimed>>

PollTask(j) ==
  /\ At(j, "polling")
  /\ \/ jobs' = [jobs EXCEPT ![j] = stopPolling(j, TRUE)]
     \/ Live(j) /\ claimed /\ jobs' = [jobs EXCEPT ![j] = [stopPolling(j, FALSE) EXCEPT !.told = @ \cup {"success"}]]
  /\ services' = ToldBy(jobs[j].service)
  /\ UNCHANGED <<connector, connected, listener, running, claimed>>

OnEventTask ==
  /\ connector # 0 /\ claimed
  /\ \E j \in Jobs : /\ jobs[j].service = listener /\ listener # 0 /\ Failed(j) /\ ~notified(j)
                     /\ jobs' = [jobs EXCEPT ![j].told = @ \cup {"success"}]
                     /\ services' = ToldBy(listener)
  /\ UNCHANGED <<connector, connected, listener, running, claimed>>

\* As on Android
InvoiceRequestTask(j) == Answered(j, {"invoice"})
LnurlPayInfoTask(j) == Answered(j, {"limits"})
LnurlPayInvoiceTask(j) == Answered(j, {"invoice"})
LnurlPayVerifyTask(j) == Answered(j, IF claimed THEN {"preimage"} ELSE {"unsettled"})

ReplyTask(j) ==
  /\ At(j, "replying")
  /\ \E answer \in CASE jobs[j].kind = "invoiceRequest" -> InvoiceRequestTask(j)
                     [] jobs[j].kind = "lnurlPayInfo" -> LnurlPayInfoTask(j)
                     [] jobs[j].kind = "lnurlPayInvoice" -> LnurlPayInvoiceTask(j)
                     [] jobs[j].kind = "lnurlPayVerify" -> LnurlPayVerifyTask(j) :
       jobs' = [jobs EXCEPT ![j].at = "ended", ![j].told = {answer}]
  /\ services' = ToldBy(jobs[j].service)
  /\ UNCHANGED <<connector, connected, listener, running, claimed>>

\* The shared SDK is disconnected for all
ServiceExtensionTimeWillExpire(i) ==
  /\ services[i].timeout
  /\ services' = ToldBy(i)
  /\ connector' = 0 /\ listener' = 0
  /\ jobs' = [j \in Jobs |-> IF jobs[j].service = i THEN [jobs[j] EXCEPT !.told = @ \cup {"failure"}] ELSE jobs[j]]
  /\ UNCHANGED <<connected, running, claimed>>

NextIOS ==
  \/ \E j \in Jobs : DidReceive(j) \/ Register(j) \/ PollTask(j) \/ ReplyTask(j)
  \/ \E i \in Services : ServiceExtensionTimeWillExpire(i)
  \/ OnEventTask \/ Claim

SpecAndroid == JobInit /\ [][NextAndroid]_jobVars
SpecIOS == JobInit /\ [][NextIOS]_jobVars

-----------------------------------------------------------------------------
\* Every variable has its form
JobTypeOK ==
  /\ connector \in Nat /\ connected \in Nat /\ listener \in 0..MaxServices /\ running \in 0..MaxServices
  /\ \A i \in Services : services[i].sdk \in Nat /\ ToSet(services[i].jobs) \subseteq Jobs
  /\ \A j \in Jobs : jobs[j].service \in 0..MaxServices /\ jobs[j].sdk \in Nat
  /\ claimed \in BOOLEAN

\* No job is forgotten: a job that ended has told the user or the server how, and a job that still waits for its
\* payment is ended by a callback of its service or fails when it asks again, since the SDK it asks is gone. The
\* jobs of a service that shut down before they started are excepted: nobody ends them
JobsAreAnswered ==
  \A j \in Jobs :
    /\ At(j, "ended") /\ jobs[j].good => jobs[j].told # {}
    /\ At(j, "polling") /\ jobs[j].told = {} /\ Live(j) /\ ~jobs[j].late => Pending(services[jobs[j].service])
=============================================================================
