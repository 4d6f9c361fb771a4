------------------------- MODULE MCChainReceiveSwap -------------------------
(***************************************************************************)
(* ChainReceiveSwap for TLC. The full product of what the application, the *)
(* payer and Boltz may do is out of reach: each behaviour keeps to a       *)
(* scenario that is chosen at the start.                                   *)
(***************************************************************************)
EXTENDS ChainReceiveSwap, TLC

CONSTANT Scenarios  \* which of the ones below

VARIABLE scenario

\* fees: a swap without an amount, whose fees are accepted before the timeout
\* refund: a payment that Boltz refuses, or that is late, is refunded; one with a good quote is in time and in the limits
\* again: so is one that comes to the address after another
\* claim: an agreed payment is claimed while a rescan interferes, and zero-conf stays accepted
\* crash: an agreed payment is claimed while the process crashes, or else the timeout comes
\* expire: Boltz does not lock up, for the funds that are left after the timeout
\* settle: nothing is late, for the claim of what Boltz locked up
Within ==
  CASE scenario = "fees" ->
         /\ (row.zero \/ row.state = "None") /\ ~row.zeroConf /\ deposit.kind # "unexpected" /\ ~more /\ ~server.rbf
         /\ bitcoin = "below" /\ restarts = 0 /\ pc["refund"] = "idle" /\ pc["rescan"] = "idle"
    [] scenario \in {"refund", "again"} ->
         /\ restarts = 0 /\ ~row.zeroConf /\ server.at = "none" /\ pc["accept"] = "idle" /\ pc["rescan"] = "idle"
         /\ bitcoin # "above"
         /\ scenario = "refund" => ~more /\ (row.zero /\ quote = High => bitcoin = "below" /\ deposit.kind # "unexpected")
         /\ scenario = "again" => ~row.zero
         /\ scenario = "again" \/ row.zero => \E f \in RefundTxs : refunds[f].at = "none"
    [] scenario = "claim" ->
         /\ ~row.zero /\ deposit.kind # "unexpected" /\ ~more /\ bitcoin = "below" /\ restarts = 0
         /\ ~server.rbf /\ (server.at = "none" \/ server.value = High)
         /\ pc["accept"] = "idle" /\ pc["refund"] = "idle" /\ (row.zeroConf \/ row.state = "None")
    [] scenario = "crash" ->
         /\ ~row.zero /\ deposit.kind # "unexpected" /\ ~more
         /\ pc["accept"] = "idle" /\ pc["refund"] = "idle" /\ pc["rescan"] = "idle"
         /\ restarts = 0 \/ bitcoin = "below"
    [] scenario = "expire" -> server.at = "none" /\ ~row.zeroConf
    [] scenario = "settle" -> ~more /\ bitcoin = "below" /\ ~row.zeroConf

MCVars == <<vars, scenario>>
MCInit == Init /\ scenario \in Scenarios
MCNext == Next /\ UNCHANGED scenario /\ Within'
MCSpec == MCInit /\ [][MCNext]_MCVars

\* What is fair is left out of no scenario it is run with
MCFairSpec == MCSpec /\ Fairness

RefundSymmetry == Permutations(RefundTxs)
=============================================================================
