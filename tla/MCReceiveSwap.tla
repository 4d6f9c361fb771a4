--------------------------- MODULE MCReceiveSwap ---------------------------
(***************************************************************************)
(* ReceiveSwap for TLC: the ids of claim txs are interchangeable. The      *)
(* liveness of a Lightning payment and that of a payment by the magic      *)
(* routing hint are one run, in which sync() interferes with the latter    *)
(* only.                                                                   *)
(***************************************************************************)
EXTENDS ReceiveSwap, TLC

\* One way to pay; sync() runs when the MRH tx is there
OneWay == /\ mrh = "none" \/ lockup.at = "none"
          /\ mrh = "none" => \A s \in Syncs : pc[s] = "idle"

\* The process stops when it has stored the id of a claim tx and not sent the tx yet
Crash == restarts' # restarts => spend.by = NoTx /\ row.claim # NoTx

MCNext == Next /\ Crash
MCSpec == Init /\ [][MCNext]_vars
MCFairSpec == Init /\ [][MCNext /\ OneWay']_vars /\ Fairness

ClaimSymmetry == Permutations(ClaimTxs)
=============================================================================
