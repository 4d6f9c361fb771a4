----------------------------- MODULE Addresses -----------------------------
(***************************************************************************)
(* The addresses of the wallet (wallet/mod.rs, persist/address.rs and      *)
(* cache.rs). A Lightning invoice of the wallet hides one of its addresses *)
(* (the magic routing hint, MRH): a payer who has a Liquid wallet pays     *)
(* there. Such an address is reserved until the swap of the invoice times  *)
(* out, and is then given to the next user that asks for one; when it was  *)
(* paid it is not. Whether the invoice was paid is told from the           *)
(* transactions of its address, so no two users may wait for a payment at  *)
(* the same one.                                                           *)
(***************************************************************************)
EXTENDS Naturals, FiniteSets, FiniteSetsExt

CONSTANTS
  Users,     \* the operations that ask for an address
  Lifetime,  \* blocks from the creation of a swap until its timeout
  MaxTip     \* bound: blocks

ASSUME AddressAssumption == IsFiniteSet(Users) /\ Lifetime \in Nat /\ MaxTip \in Nat \ {0}

VARIABLES
  tip,       \* the height of the chain
  scanned,   \* what the wallet knows: [tip, heights], of its last full scan
  lastIndex, \* KEY_LAST_DERIVATION_INDEX, 0 for none
  reserved,  \* the table reserved_addresses: records [address, expiry]
  users,     \* [u -> [at, kind, address, created, timeout]]
  heights,   \* [u -> where the payment meant for u is: Unpaid, Mempool or its height]
  paidBy,    \* [u -> whose payment its swap was recorded as paid with, {} for none, and whether it was confirmed]
  raced      \* two operations asked for the first address of the wallet at once

addressVars == <<tip, scanned, lastIndex, reserved, users, heights, paidBy, raced>>

Mempool == 0
Unpaid == MaxTip + 1
NoUser == [at |-> "none", kind |-> "none", address |-> 0, created |-> 0, timeout |-> 0]

AddressInit ==
  /\ tip = 1 /\ lastIndex = 0 /\ reserved = {} /\ raced = FALSE
  /\ users = [u \in Users |-> NoUser]
  /\ heights = [u \in Users |-> Unpaid]
  /\ scanned = [tip |-> 1, heights |-> [u \in Users |-> Unpaid]]
  /\ paidBy = [u \in Users |-> [by |-> {}, confirmed |-> FALSE]]

\* An invoice goes on to create its swap. Any other address is given for good: to a payer, a claim or a refund
Holding(kind) == IF kind = "invoice" THEN "creating" ELSE "given"

\* What is wrong with the request is found before an address is asked for
Takes(u, address) ==
  /\ users[u].at = "none"
  /\ \E kind \in {"invoice", "address"} :
       users' = [users EXCEPT ![u] = [NoUser EXCEPT !.at = Holding(kind), !.kind = kind, !.address = address]]

delete_reserved_address(address) == reserved' = {r \in reserved : r.address # address}

Expired == {r \in reserved : r.expiry < scanned.tip}

\* Mutant: the reservation is only read
next_expired_reserved_address_Kept(r) == r \in Expired /\ UNCHANGED reserved

\* The one that expired first, of the tip the wallet is aware of; it is deleted in the same transaction
next_expired_reserved_address(r) ==
  /\ r \in Expired
  /\ \A s \in Expired : r.expiry <= s.expiry
  /\ delete_reserved_address(r.address)

next_unused_address_Reserved(u) ==
  \E r \in reserved :
    /\ next_expired_reserved_address(r) /\ Takes(u, r.address)
    /\ UNCHANGED <<tip, scanned, lastIndex, heights, paidBy, raced>>

\* One transaction
next_derivation_index == lastIndex # 0 /\ lastIndex' = lastIndex + 1

next_unused_address(u) ==
  /\ Expired = {}
  /\ next_derivation_index /\ Takes(u, lastIndex')
  /\ UNCHANGED <<tip, scanned, reserved, heights, paidBy, raced>>

\* Before the first one the wallet chooses: the address after the last one it saw a transaction of
FirstUnused ==
  1 + Max({0} \cup {users[u].address : u \in {v \in Users : scanned.heights[v] # Unpaid}})

next_unused_address_First(u) ==
  /\ Expired = {} /\ lastIndex = 0
  /\ users[u].at = "none"
  /\ \E kind \in {"invoice", "address"} :
       users' = [users EXCEPT ![u] = [NoUser EXCEPT !.at = "first", !.kind = kind, !.address = FirstUnused]]
  /\ raced' = (raced \/ \E v \in Users : users[v].at = "first")
  /\ UNCHANGED <<tip, scanned, lastIndex, reserved, heights, paidBy>>

\* ... and its index is written in a transaction of its own
set_last_derivation_index(u) ==
  /\ users[u].at = "first"
  /\ lastIndex' = users[u].address
  /\ users' = [users EXCEPT ![u].at = Holding(users[u].kind)]
  /\ UNCHANGED <<tip, scanned, reserved, heights, paidBy, raced>>

insert_or_update_reserved_address(address, expiry) ==
  reserved' = {r \in reserved : r.address # address} \cup {[address |-> address, expiry |-> expiry]}

\* create_bolt11_receive_swap and create_bolt12_invoice: the address is reserved once Boltz has created the swap. An
\* invoice without the address in its hint is not given out
CreateInvoice(u) ==
  /\ users[u].at = "creating"
  /\ insert_or_update_reserved_address(users[u].address, tip + Lifetime)
  /\ \E at \in {"given", "failed"} :
       users' = [users EXCEPT ![u].at = at, ![u].created = tip, ![u].timeout = tip + Lifetime]
  /\ UNCHANGED <<tip, scanned, lastIndex, heights, paidBy, raced>>

\* Boltz refuses, or the invoice cannot be made: nobody uses the address again
InvoiceFails(u) ==
  /\ users[u].at = "creating"
  /\ users' = [users EXCEPT ![u].at = "failed"]
  /\ UNCHANGED <<tip, scanned, lastIndex, reserved, heights, paidBy, raced>>

\* Somebody pays at the address, in time or not
Pay(u) ==
  /\ users[u].at = "given" /\ heights[u] = Unpaid
  /\ heights' = [heights EXCEPT ![u] = Mempool]
  /\ UNCHANGED <<tip, scanned, lastIndex, reserved, users, paidBy, raced>>

Block ==
  /\ tip < MaxTip
  /\ tip' = tip + 1
  /\ \E txs \in SUBSET {u \in Users : heights[u] = Mempool} :
       heights' = [u \in Users |-> IF u \in txs THEN tip + 1 ELSE heights[u]]
  /\ UNCHANGED <<scanned, lastIndex, reserved, users, paidBy, raced>>

\* The scan covers all the addresses that were taken, with a buffer of five
full_scan ==
  /\ scanned' = [tip |-> tip, heights |-> heights]
  /\ UNCHANGED <<tip, lastIndex, reserved, users, heights, paidBy, raced>>

\* A payment counts for a swap if it has no height or one before the timeout, and, as the wallet knows it, is not
\* confirmed or later than the swap
mrh_txs(u) ==
  {v \in Users : /\ users[v].address = users[u].address
                 /\ heights[v] < users[u].timeout
                 /\ scanned.heights[v] # Unpaid
                 /\ scanned.heights[v] = Mempool \/ scanned.heights[v] > users[u].created}

\* The amount of a payment may be too small
recover_mrh(u) ==
  /\ users[u].at = "given" /\ users[u].kind = "invoice"
  /\ \/ \E v \in mrh_txs(u) :
          /\ paidBy' = [paidBy EXCEPT ![u] = [by |-> {v}, confirmed |-> scanned.heights[v] # Mempool]]
          /\ delete_reserved_address(users[u].address)
     \/ /\ paidBy' = [paidBy EXCEPT ![u] = [by |-> {}, confirmed |-> FALSE]]
        /\ UNCHANGED reserved
  /\ UNCHANGED <<tip, scanned, lastIndex, users, heights, raced>>

AddressNext ==
  \/ \E u \in Users :
       \/ next_unused_address_Reserved(u) \/ next_unused_address(u) \/ next_unused_address_First(u)
       \/ set_last_derivation_index(u) \/ CreateInvoice(u) \/ InvoiceFails(u) \/ Pay(u) \/ recover_mrh(u)
  \/ Block \/ full_scan

AddressSpec == AddressInit /\ [][AddressNext]_addressVars

-----------------------------------------------------------------------------
\* Every variable has its form
AddressTypeOK ==
  /\ tip \in 1..MaxTip /\ lastIndex \in 0..Cardinality(Users) /\ raced \in BOOLEAN
  /\ \A r \in reserved : r.address \in 1..Cardinality(Users) /\ r.expiry \in Nat
  /\ \A u \in Users : paidBy[u].by \subseteq Users /\ heights[u] \in 0..Unpaid

\* Somebody may pay u, and expects it to be noticed
Payable(u) == users[u].at = "given" /\ (users[u].kind = "invoice" => tip < users[u].timeout)

\* Unless the first two addresses of the wallet were asked for at once, no two users wait for a payment at the same
\* address, and a confirmed payment that was recorded for the invoice of another user was confirmed after the timeout
\* of the invoice it was meant for
MrhAddressIsOwn ==
  \/ raced
  \/ \A u, v \in Users :
       u # v => /\ ~(Payable(u) /\ Payable(v) /\ users[u].address = users[v].address)
                /\ paidBy[u].by = {v} /\ paidBy[u].confirmed
                     => users[v].kind = "invoice" /\ heights[v] >= users[v].timeout
=============================================================================
