----------------------------- MODULE SwapPromise -----------------------------
(***************************************************************************)
(* What every swap promises the user, whatever its kind. The secret is the *)
(* preimage: who has it can take what the other side put up. The user      *)
(* gives it away (or, as the sender of a Lightning payment, buys it) only  *)
(* against what is due, and is told that the payment is complete only when *)
(* he has what it was for. Complete is final.                              *)
(*                                                                         *)
(* SendSwap, ReceiveSwap, ChainSendSwap and ChainReceiveSwap implement it. *)
(***************************************************************************)

CONSTANT Direct  \* can a payer who knows the address behind the invoice pay without the swap?

VARIABLES
  shown,    \* the state of the payment: open, complete or failed
  offered,  \* what is due to the user is there, and cannot be replaced
  secret,   \* the other side has the preimage
  earned,   \* the user has what the payment was for, for good
  left      \* funds are left at the swap's address that the swap did not use

vars == <<shown, offered, secret, earned, left>>

Init ==
  /\ shown = "open"
  /\ ~offered /\ ~secret /\ ~earned
  /\ left \in BOOLEAN

\* The other side puts up what is due; before it has the secret it may take it back
Offer == ~secret /\ offered' = ~offered /\ UNCHANGED <<shown, secret, earned>>

Reveal == offered /\ ~secret /\ secret' = TRUE /\ UNCHANGED <<shown, offered, earned>>

\* The claim is confirmed
Earn == secret /\ ~earned /\ earned' = TRUE /\ UNCHANGED <<shown, offered, secret>>

\* A Lightning payment is an offer, its secret and its success at once
Exchange == ~secret /\ offered' = TRUE /\ secret' = TRUE /\ earned' = TRUE /\ UNCHANGED shown

PayDirectly == Direct /\ ~earned /\ earned' = TRUE /\ UNCHANGED <<shown, offered, secret>>

Show ==
  /\ shown # "complete" /\ shown' \in {"open", "complete", "failed"}
  /\ shown' = "complete" => earned
  /\ UNCHANGED <<offered, secret, earned>>

\* Funds that are left make it a payment with something to refund
Reopen == left /\ shown = "complete" /\ shown' = "open" /\ UNCHANGED <<offered, secret, earned>>

Next ==
  /\ Offer \/ Reveal \/ Earn \/ Exchange \/ PayDirectly \/ Show \/ Reopen \/ UNCHANGED <<shown, offered, secret, earned>>
  /\ left' \in BOOLEAN

Spec == Init /\ [][Next]_vars
=============================================================================
