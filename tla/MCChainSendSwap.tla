-------------------------- MODULE MCChainSendSwap --------------------------
(***************************************************************************)
(* ChainSendSwap for TLC: the ids of the user's lockup txs are             *)
(* interchangeable, and each behaviour keeps to a scenario.                *)
(***************************************************************************)
EXTENDS ChainSendSwap, TLC

CONSTANT Scenarios  \* which of the ones below

VARIABLE scenario

\* lock: the process may crash after the swap was funded, unless zero-conf is accepted, the timeout may come
\* rescan: a rescan of an honest swap interferes before any timeout, without a crash
Within ==
  CASE scenario = "lock"   -> (\A t \in Rescans : pc[t] = "idle") /\ (row.zeroConf => restarts = 0)
    [] scenario = "rescan" -> /\ restarts = 0 /\ bitcoin = "below" /\ server.kind \in {"none", "good"}
                              /\ \A u \in Lockups, v \in Lockups : u = v

MCVars == <<vars, scenario>>
MCInit == Init /\ scenario \in Scenarios
MCNext == Next /\ UNCHANGED scenario /\ Within'
MCSpec == MCInit /\ [][MCNext]_MCVars
MCFairSpec == MCSpec /\ Fairness

LockupSymmetry == Permutations(UserLockups)
=============================================================================
