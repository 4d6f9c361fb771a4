----------------------------- MODULE MCSendSwap -----------------------------
(***************************************************************************)
(* SendSwap for TLC: calls of send_payment are interchangeable, and each   *)
(* behaviour keeps to a scenario.                                          *)
(***************************************************************************)
EXTENDS SendSwap, TLC

CONSTANT Scenarios  \* which of the ones below

VARIABLE scenario

Atomic == INSTANCE SendSwap WITH Preemptive <- FALSE

\* calls: two calls for one invoice, no crash nor scan past the timeout; another thread may run within an
\*        update of the row
\* sync: one call and a sync(), and an update of the row is one step
\* crash: so it is, and the process may crash
MCVars == <<vars, scenario>>
MCInit == Init /\ scenario \in Scenarios
MCNext ==
  /\ UNCHANGED scenario
  /\ \/ scenario = "calls" /\ Next /\ restarts' = 0 /\ tip' # "scanned" /\ \A s \in Syncs : pc'[s] = "idle"
     \/ /\ scenario \in {"sync", "crash"} /\ Atomic!Next /\ Cardinality({c \in Calls : pc'[c] # "start"}) <= 1
        /\ IF scenario = "sync" THEN restarts' = 0 ELSE \A s \in Syncs : pc'[s] = "idle"
MCSpec == MCInit /\ [][MCNext]_MCVars
MCFairSpec == MCSpec /\ Atomic!Fairness

\* KeepsPromise, which needs an update of the row to be one step: another thread within it could
\* take a Complete swap back
PromiseOfSync == INSTANCE SwapPromise WITH
  Direct  <- FALSE,
  shown   <- IF scenario # "calls" THEN Shown ELSE "open",
  offered <- boltz = "paid",
  secret  <- boltz = "paid",
  earned  <- boltz = "paid",
  left    <- FALSE
KeepsPromiseAtomically == PromiseOfSync!Spec

CallSymmetry == Permutations(Calls)
=============================================================================
