------------------------------ MODULE WalletProofs ------------------------------
(***************************************************************************)
(* What holds of the wallet, whatever the constants of its modules. For    *)
(* any users, payments and blocks: unless the first two addresses of the   *)
(* wallet were asked for at once, no two users wait for a payment at the   *)
(* same one, and what was paid for one invoice is not taken for another's. *)
(* For any amounts, prices and balances: a payment keeps to its quote, and *)
(* what was quoted can be paid. For any payments and syncs: the table of   *)
(* payments has what LWK knows.                                            *)
(***************************************************************************)
EXTENDS Addresses, PreparedPayments, Payments, Integers, FiniteSetTheorems, TLAPS

\* What AddressAssumption says of the constants, for the steps to cite
Bounds == IsFiniteSet(Users) /\ Lifetime \in Nat /\ MaxTip \in Nat \ {0}

-----------------------------------------------------------------------------
(* The types *)

Reservation == [address : Nat, expiry : Nat]
User == [at : {"none", "first", "creating", "given", "failed"}, kind : {"none", "invoice", "address"}, address : Nat,
         created : Nat, timeout : Nat]

Types ==
  /\ tip \in Nat \ {0} /\ tip <= MaxTip /\ lastIndex \in Nat /\ raced \in BOOLEAN
  /\ scanned \in [tip : Nat, heights : [Users -> 0..Unpaid]]
  /\ reserved \subseteq Reservation
  /\ users \in [Users -> User]
  /\ heights \in [Users -> 0..Unpaid]
  /\ paidBy \in [Users -> [by : SUBSET Users, confirmed : BOOLEAN]]

-----------------------------------------------------------------------------
(* The inductive invariant *)

Confirmed(height) == height \notin {Unpaid, Mempool}

\* The wallet may know less than the chain has, but nothing else; only who was given an address is paid
Chain ==
  /\ scanned.tip <= tip
  /\ \A u \in Users : /\ Confirmed(scanned.heights[u]) => heights[u] = scanned.heights[u]
                      /\ heights[u] # Unpaid => users[u].at = "given"
                      /\ scanned.heights[u] # Unpaid => heights[u] # Unpaid
                      /\ Confirmed(heights[u]) => heights[u] <= tip

\* The user has the address for good, but for the first one
Has(u) == users[u].at \notin {"none", "first"}
Holders == {u \in Users : Has(u)}

\* Addresses are counted from the first one, which nobody has until its index is written
Counted ==
  /\ lastIndex <= Cardinality(Holders)
  /\ lastIndex = 0 => reserved = {} /\ \A u \in Users : ~Has(u)
  /\ \A u \in Users : users[u].at # "none" => users[u].address \in 1..Cardinality(Users)
  /\ \A u \in Users : users[u].at = "first" => users[u].address = 1
  /\ \A r \in reserved : r.address \in 1..Cardinality(Users)

\* What a user waits for: an invoice that was created has a timeout, what was given for good has none
Formed(u) ==
  /\ users[u].at \in {"first", "creating", "given"} => users[u].kind # "none"
  /\ users[u].at = "creating" => users[u].kind = "invoice"
  /\ users[u].at \notin {"given", "failed"} => users[u].created = 0
  /\ users[u].at = "given" /\ users[u].kind = "invoice" => users[u].created > 0
  /\ users[u].created <= tip

\* Nobody asked for the first address while another did
Alone ==
  /\ \A u, v \in Users : users[u].at = "first" /\ u # v => users[v].at = "none"
  /\ \A u \in Users : users[u].at = "first" => lastIndex = 0
  /\ \A u \in Users : Has(u) => users[u].address <= lastIndex
  /\ \A r \in reserved : r.address <= lastIndex

\* An address is reserved once, until the last invoice with it has timed out
Reserved(r) ==
  /\ \A s \in reserved : s.address = r.address => s = r
  /\ \A u \in Users : users[u].at # "none" /\ users[u].address = r.address =>
       users[u].kind = "invoice" /\ users[u].at \in {"given", "failed"} /\ users[u].timeout <= r.expiry

\* The invoice of u timed out before v was given the same address
Older(u, v) ==
  /\ users[u].kind = "invoice" /\ users[u].at \in {"given", "failed"} /\ users[u].timeout < tip
  /\ users[v].created > 0 => users[u].timeout < users[v].created
  /\ Confirmed(heights[v]) => users[u].timeout < heights[v]

Shared(u, v) == u # v /\ users[u].at # "none" /\ users[v].at # "none" /\ users[u].address = users[v].address
OneByOne == \A u, v \in Users : Shared(u, v) => Older(u, v) \/ Older(v, u)

\* What was taken for the payment of another invoice came after that had timed out
Taken(u, v) ==
  u # v /\ paidBy[u].by = {v} /\ paidBy[u].confirmed =>
    users[v].kind = "invoice" /\ users[v].at = "given" /\ Confirmed(heights[v]) /\ heights[v] >= users[v].timeout

Own == Alone /\ (\A r \in reserved : Reserved(r)) /\ OneByOne /\ \A u, v \in Users : Taken(u, v)
AddressInv == Types /\ Chain /\ Counted /\ (\A u \in Users : Formed(u)) /\ (~raced => Own)

-----------------------------------------------------------------------------
(* What each step does *)

\* The two heights that are no heights are different.
LEMMA Constants ==
  ASSUME Bounds
  PROVE  /\ Unpaid \in Nat /\ Unpaid = MaxTip + 1 /\ Mempool = 0 /\ Mempool \in 0..Unpaid /\ Unpaid \in 0..Unpaid
         /\ Unpaid # Mempool
  BY DEF Bounds, Unpaid, Mempool

\* The types of what one user has.
LEMMA UserTypes ==
  ASSUME Types, NEW u \in Users
  PROVE  /\ users[u] \in User /\ users[u].address \in Nat /\ users[u].created \in Nat /\ users[u].timeout \in Nat
         /\ users[u].at \in {"none", "first", "creating", "given", "failed"} /\ users[u].kind \in {"none", "invoice", "address"}
         /\ heights[u] \in 0..Unpaid /\ scanned.heights[u] \in 0..Unpaid /\ scanned.tip \in Nat
         /\ paidBy[u].by \subseteq Users
  BY DEF Types, User

\* One more user has an address.
LEMMA OneMoreHolder ==
  ASSUME Bounds, Types, NEW w \in Users, ~Has(w), Has(w)', \A u \in Users : u # w => users'[u] = users[u]
  PROVE  /\ Cardinality(Holders') = Cardinality(Holders) + 1 /\ Cardinality(Holders') <= Cardinality(Users)
         /\ Cardinality(Holders) \in Nat /\ Cardinality(Users) \in Nat
<1>1. IsFiniteSet(Users)
  BY DEF Bounds
<1>2. Holders \subseteq Users /\ w \notin Holders
  BY DEF Holders
<1>3. Holders' = Holders \cup {w} /\ Holders' \subseteq Users
  BY DEF Holders, Has
<1>4. IsFiniteSet(Holders) /\ IsFiniteSet(Holders')
  BY <1>1, <1>2, <1>3, FS_Subset
<1>5. Cardinality(Holders) \in Nat /\ Cardinality(Users) \in Nat
  BY <1>1, <1>4, FS_CardinalityType
<1>6. Cardinality(Holders') = Cardinality(Holders) + 1
  BY <1>2, <1>3, <1>4, FS_AddElement
<1>7. Cardinality(Holders') <= Cardinality(Users)
  BY <1>1, <1>3, FS_Subset
<1> QED BY <1>5, <1>6, <1>7

\* The users that have an address are the same.
LEMMA SameHolders ==
  ASSUME \A u \in Users : Has(u)' <=> Has(u)
  PROVE  Holders' = Holders
  BY DEF Holders

\* A user takes an address.
LEMMA TakesFrame ==
  ASSUME Types, NEW w \in Users, NEW address \in Nat, Takes(w, address)
  PROVE  /\ users' \in [Users -> User] /\ users[w].at = "none"
         /\ users'[w].kind \in {"invoice", "address"}
         /\ users'[w].at = IF users'[w].kind = "invoice" THEN "creating" ELSE "given"
         /\ users'[w].address = address /\ users'[w].created = 0 /\ users'[w].timeout = 0
         /\ \A u \in Users : u # w => users'[u] = users[u]
<1>1. users \in [Users -> User] /\ users[w].at = "none"
  BY DEF Types, Takes
<1>2. PICK asks \in {"invoice", "address"} :
        users' = [users EXCEPT ![w] = [NoUser EXCEPT !.at = Holding(asks), !.kind = asks, !.address = address]]
  BY DEF Takes
<1>3. users'[w] = [at |-> Holding(asks), kind |-> asks, address |-> address, created |-> 0, timeout |-> 0]
  <2>1. users'[w] = [NoUser EXCEPT !.at = Holding(asks), !.kind = asks, !.address = address]
    BY <1>1, <1>2
  <2> QED BY <2>1 DEF NoUser
<1>0. Holding(asks) \in {"creating", "given"}
  BY DEF Holding
<1>4. /\ users'[w] \in User /\ users'[w].kind = asks /\ users'[w].at = Holding(asks) /\ users'[w].address = address
      /\ users'[w].created = 0 /\ users'[w].timeout = 0
  BY <1>0, <1>3 DEF User
<1>5. users' \in [Users -> User] /\ \A u \in Users : u # w => users'[u] = users[u]
  BY <1>1, <1>2, <1>4
<1> QED BY <1>1, <1>4, <1>5 DEF Holding

\* A user of the first address.
LEMMA FirstFrame ==
  ASSUME Bounds, AddressInv, NEW w \in Users, next_unused_address_First(w)
  PROVE  /\ users' \in [Users -> User] /\ users[w].at = "none" /\ lastIndex = 0
         /\ users'[w].kind \in {"invoice", "address"} /\ users'[w].at = "first"
         /\ users'[w].address = 1 /\ users'[w].created = 0
         /\ \A u \in Users : u # w => users'[u] = users[u]
         /\ ~raced' => ~raced /\ \A u \in Users : users[u].at # "first"
<1>1. users \in [Users -> User] /\ users[w].at = "none" /\ lastIndex = 0
  BY DEF AddressInv, Types, next_unused_address_First
<1>2. FirstUnused = 1
  <2>1. {v \in Users : scanned.heights[v] # Unpaid} = {}
    BY <1>1 DEF AddressInv, Chain, Counted, Has
  <2>2. {0} \cup {users[u].address : u \in {v \in Users : scanned.heights[v] # Unpaid}} = {0}
    BY <2>1
  <2>3. Max({0}) = 0
    <3>1. \E x \in {0} : \A y \in {0} : x >= y
      OBVIOUS
    <3>2. Max({0}) \in {0}
      BY <3>1 DEF Max
    <3> QED BY <3>2
  <2>4. FirstUnused = 1 + Max({0})
    BY <2>2 DEF FirstUnused
  <2> QED BY <2>3, <2>4
<1>3. PICK asks \in {"invoice", "address"} :
        users' = [users EXCEPT ![w] = [NoUser EXCEPT !.at = "first", !.kind = asks, !.address = 1]]
  BY <1>2 DEF next_unused_address_First
<1>4. users'[w] = [at |-> "first", kind |-> asks, address |-> 1, created |-> 0, timeout |-> 0]
  <2>1. users'[w] = [NoUser EXCEPT !.at = "first", !.kind = asks, !.address = 1]
    BY <1>1, <1>3
  <2> QED BY <2>1 DEF NoUser
<1>5. /\ users'[w] \in User /\ users'[w].kind = asks /\ users'[w].at = "first" /\ users'[w].address = 1
      /\ users'[w].created = 0
  BY <1>4 DEF User
<1>6. users' \in [Users -> User] /\ \A u \in Users : u # w => users'[u] = users[u]
  BY <1>1, <1>3, <1>5
<1>7. ~raced' => ~raced /\ \A u \in Users : users[u].at # "first"
  BY DEF next_unused_address_First
<1> QED BY <1>1, <1>5, <1>6, <1>7

-----------------------------------------------------------------------------
(* Each action keeps the invariant *)

\* A user that takes an address takes one nobody waits at any more.
LEMMA TakesKeeps ==
  ASSUME Bounds, AddressInv, NEW w \in Users, NEW address \in Nat, Takes(w, address),
         address \in 1..Cardinality(Users),
         lastIndex' \in {lastIndex, lastIndex + 1}, lastIndex' # 0,
         reserved' \subseteq reserved,
         UNCHANGED <<tip, scanned, heights, paidBy, raced>>,
         ~raced => /\ address <= lastIndex'
                   /\ \A u \in Users : users[u].at # "first"
                   /\ \A s \in reserved' : s.address # address
                   /\ \A u \in Users : users[u].at # "none" /\ users[u].address = address =>
                        users[u].kind = "invoice" /\ users[u].at \in {"given", "failed"} /\ users[u].timeout < tip
  PROVE  AddressInv'
<1>1. /\ users' \in [Users -> User] /\ users[w].at = "none"
      /\ users'[w].kind \in {"invoice", "address"}
      /\ users'[w].at = IF users'[w].kind = "invoice" THEN "creating" ELSE "given"
      /\ users'[w].address = address /\ users'[w].created = 0 /\ users'[w].timeout = 0
      /\ \A u \in Users : u # w => users'[u] = users[u]
  BY TakesFrame DEF AddressInv
<1>2. Types /\ Chain /\ Counted /\ (\A u \in Users : Formed(u)) /\ (~raced => Own)
  BY DEF AddressInv
<1>3. users'[w].at \in {"creating", "given"} /\ heights[w] = Unpaid
  BY <1>1, <1>2 DEF Chain
<1>4. Types'
  BY <1>1, <1>2 DEF Types
<1>5. Chain'
  BY <1>1, <1>2, <1>3 DEF Chain, Confirmed
<1>6. /\ Cardinality(Holders') = Cardinality(Holders) + 1 /\ Cardinality(Holders) \in Nat
  <2>1. ~Has(w) /\ Has(w)'
    BY <1>1, <1>3 DEF Has
  <2> QED BY <1>1, <1>2, <2>1, OneMoreHolder
<1>7. Counted'
  <2>1. lastIndex' <= Cardinality(Holders')
    BY <1>2, <1>6 DEF Counted, Types
  <2>2. \A u \in Users : users'[u].at # "none" => users'[u].address \in 1..Cardinality(Users)
    BY <1>1, <1>2 DEF Counted
  <2>3. \A u \in Users : users'[u].at = "first" => users'[u].address = 1
    BY <1>1, <1>2, <1>3 DEF Counted
  <2>4. \A r \in reserved' : r.address \in 1..Cardinality(Users)
    BY <1>2 DEF Counted
  <2> QED BY <2>1, <2>2, <2>3, <2>4 DEF Counted
<1>8. ASSUME NEW u \in Users PROVE Formed(u)'
  <2>1. Formed(u)
    BY <1>2
  <2>2. CASE u = w
    BY <1>1, <1>2, <2>2 DEF Formed, Types
  <2>3. CASE u # w
    BY <1>1, <2>1, <2>3 DEF Formed
  <2> QED BY <2>2, <2>3
<1>9. ASSUME ~raced' PROVE Own'
  <2>1. Own /\ ~raced
    BY <1>2, <1>9
  <2>2. /\ address <= lastIndex' /\ \A u \in Users : users[u].at # "first"
        /\ \A s \in reserved' : s.address # address
        /\ \A u \in Users : users[u].at # "none" /\ users[u].address = address =>
             users[u].kind = "invoice" /\ users[u].at \in {"given", "failed"} /\ users[u].timeout < tip
    BY <2>1
  <2>3. Alone'
    <3>1. \A u \in Users : users'[u].at # "first"
      BY <1>1, <1>3, <2>2
    <3>2. \A u \in Users : Has(u)' => users'[u].address <= lastIndex'
      <4> TAKE u \in Users
      <4>1. Has(u) => users[u].address <= lastIndex
        BY <2>1 DEF Own, Alone
      <4>2. users[u].address \in Nat /\ lastIndex \in Nat
        BY <1>2, UserTypes DEF Types
      <4> QED BY <1>1, <2>2, <4>1, <4>2 DEF Has
    <3>3. \A r \in reserved' : r.address <= lastIndex'
      <4> TAKE r \in reserved'
      <4>1. r.address <= lastIndex /\ r.address \in Nat /\ lastIndex \in Nat
        BY <1>2, <2>1 DEF Own, Alone, Types, Reservation
      <4> QED BY <4>1
    <3> QED BY <3>1, <3>2, <3>3 DEF Alone
  <2>4. ASSUME NEW r \in reserved' PROVE Reserved(r)'
    <3>1. Reserved(r) /\ r.address # address
      BY <2>1, <2>2 DEF Own
    <3> QED BY <1>1, <3>1 DEF Reserved
  <2>5. ASSUME NEW u \in Users, NEW v \in Users, Shared(u, v)' PROVE Older(u, v)' \/ Older(v, u)'
    <3>1. CASE u # w /\ v # w
      <4>1. Shared(u, v)
        BY <1>1, <2>5, <3>1 DEF Shared
      <4>2. Older(u, v) \/ Older(v, u)
        BY <2>1, <4>1 DEF Own, OneByOne
      <4> QED BY <1>1, <3>1, <4>2 DEF Older
    <3>2. CASE v = w
      <4>1. u # w /\ users[u].at # "none" /\ users[u].address = address
        BY <1>1, <2>5, <3>2 DEF Shared
      <4> QED BY <1>1, <1>3, <2>2, <3>2, <4>1 DEF Older, Confirmed
    <3>3. CASE u = w
      <4>1. v # w /\ users[v].at # "none" /\ users[v].address = address
        BY <1>1, <2>5, <3>3 DEF Shared
      <4> QED BY <1>1, <1>3, <2>2, <3>3, <4>1 DEF Older, Confirmed
    <3> QED BY <3>1, <3>2, <3>3
  <2>6. ASSUME NEW u \in Users, NEW v \in Users PROVE Taken(u, v)'
    <3>1. Taken(u, v)
      BY <2>1 DEF Own
    <3> QED BY <1>1, <3>1 DEF Taken
  <2> QED BY <2>3, <2>4, <2>5, <2>6 DEF Own, OneByOne
<1> QED BY <1>4, <1>5, <1>7, <1>8, <1>9 DEF AddressInv

\* A reserved address is given again once every invoice with it has timed out.
LEMMA ReservedKeeps ==
  ASSUME Bounds, AddressInv, NEW w \in Users, next_unused_address_Reserved(w)
  PROVE  AddressInv'
<1>1. PICK r \in reserved : next_expired_reserved_address(r) /\ Takes(w, r.address)
  BY DEF next_unused_address_Reserved
<1>2. Types /\ Chain /\ Counted /\ (~raced => Own)
  BY DEF AddressInv
<1>3. reserved' = {s \in reserved : s.address # r.address} /\ r.expiry < scanned.tip
  BY <1>1 DEF next_expired_reserved_address, Expired, delete_reserved_address
<1>4. r.address \in Nat /\ r.expiry \in Nat /\ r.address \in 1..Cardinality(Users) /\ lastIndex \in Nat /\ lastIndex # 0
  BY <1>2 DEF Types, Reservation, Counted
<1>5. UNCHANGED <<tip, scanned, lastIndex, heights, paidBy, raced>>
  BY DEF next_unused_address_Reserved
<1>6. ASSUME ~raced
      PROVE  /\ r.address <= lastIndex
             /\ \A u \in Users : users[u].at # "first"
             /\ \A u \in Users : users[u].at # "none" /\ users[u].address = r.address =>
                  users[u].kind = "invoice" /\ users[u].at \in {"given", "failed"} /\ users[u].timeout < tip
  <2>1. Own
    BY <1>2, <1>6
  <2>2. r.address <= lastIndex /\ \A u \in Users : users[u].at # "first"
    BY <1>4, <2>1 DEF Own, Alone
  <2>3. ASSUME NEW u \in Users, users[u].at # "none", users[u].address = r.address
        PROVE  users[u].kind = "invoice" /\ users[u].at \in {"given", "failed"} /\ users[u].timeout < tip
    <3>1. users[u].kind = "invoice" /\ users[u].at \in {"given", "failed"} /\ users[u].timeout <= r.expiry
      BY <2>1, <2>3 DEF Own, Reserved
    <3>2. users[u].timeout \in Nat /\ scanned.tip \in Nat /\ tip \in Nat /\ scanned.tip <= tip
      BY <1>2, UserTypes DEF Types, Chain
    <3> QED BY <1>3, <1>4, <3>1, <3>2
  <2> QED BY <2>2, <2>3
<1> QED BY <1>1, <1>3, <1>4, <1>5, <1>6, TakesKeeps

\* The next address of the wallet is nobody's.
LEMMA NextKeeps ==
  ASSUME Bounds, AddressInv, NEW w \in Users, next_unused_address(w)
  PROVE  AddressInv'
<1>1. Takes(w, lastIndex + 1) /\ lastIndex' = lastIndex + 1 /\ lastIndex # 0
  BY DEF next_unused_address, next_derivation_index
<1>2. Types /\ Chain /\ Counted /\ (~raced => Own)
  BY DEF AddressInv
<1>3. UNCHANGED <<tip, scanned, reserved, heights, paidBy, raced>>
  BY DEF next_unused_address
<1>4. lastIndex \in Nat
  BY <1>2 DEF Types
<1>5. lastIndex + 1 \in 1..Cardinality(Users)
  <2>1. /\ users[w].at = "none" /\ users'[w].at \in {"creating", "given"}
        /\ \A u \in Users : u # w => users'[u] = users[u]
    BY <1>1, <1>2, <1>4, TakesFrame
  <2>2. ~Has(w) /\ Has(w)'
    BY <2>1 DEF Has
  <2>3. /\ Cardinality(Holders') = Cardinality(Holders) + 1 /\ Cardinality(Holders') <= Cardinality(Users)
        /\ Cardinality(Holders) \in Nat /\ Cardinality(Users) \in Nat
    BY <1>2, <2>1, <2>2, OneMoreHolder
  <2>4. lastIndex <= Cardinality(Holders)
    BY <1>2 DEF Counted
  <2> QED BY <1>4, <2>3, <2>4
<1>6. ASSUME ~raced
      PROVE  /\ \A u \in Users : users[u].at # "first"
             /\ \A s \in reserved : s.address # lastIndex + 1
             /\ \A u \in Users : users[u].at # "none" => users[u].address # lastIndex + 1
  <2>1. Own
    BY <1>2, <1>6
  <2>2. \A u \in Users : users[u].at # "first"
    BY <1>1, <2>1 DEF Own, Alone
  <2>3. ASSUME NEW s \in reserved PROVE s.address # lastIndex + 1
    <3>1. s.address <= lastIndex /\ s.address \in Nat
      BY <1>2, <2>1 DEF Own, Alone, Types, Reservation
    <3> QED BY <1>4, <3>1
  <2>4. ASSUME NEW u \in Users, users[u].at # "none" PROVE users[u].address # lastIndex + 1
    <3>1. users[u].address <= lastIndex /\ users[u].address \in Nat
      BY <1>2, <2>1, <2>2, <2>4, UserTypes DEF Own, Alone, Has
    <3> QED BY <1>4, <3>1
  <2> QED BY <2>2, <2>3, <2>4
<1>7. /\ lastIndex + 1 \in Nat /\ lastIndex' \in {lastIndex, lastIndex + 1} /\ lastIndex' # 0
      /\ reserved' \subseteq reserved
  BY <1>1, <1>3, <1>4
<1>8. ~raced => /\ lastIndex + 1 <= lastIndex'
                /\ \A u \in Users : users[u].at # "first"
                /\ \A s \in reserved' : s.address # lastIndex + 1
                /\ \A u \in Users : users[u].at # "none" /\ users[u].address = lastIndex + 1 =>
                     users[u].kind = "invoice" /\ users[u].at \in {"given", "failed"} /\ users[u].timeout < tip
  BY <1>1, <1>3, <1>4, <1>6
<1> QED BY <1>1, <1>3, <1>5, <1>7, <1>8, TakesKeeps

\* Who asks for the first address of the wallet is alone, or the first two raced.
LEMMA FirstKeeps ==
  ASSUME Bounds, AddressInv, NEW w \in Users, next_unused_address_First(w)
  PROVE  AddressInv'
<1>1. /\ users' \in [Users -> User] /\ users[w].at = "none" /\ lastIndex = 0
      /\ users'[w].kind \in {"invoice", "address"} /\ users'[w].at = "first"
      /\ users'[w].address = 1 /\ users'[w].created = 0
      /\ \A u \in Users : u # w => users'[u] = users[u]
      /\ ~raced' => ~raced /\ \A u \in Users : users[u].at # "first"
  BY FirstFrame
<1>2. Types /\ Chain /\ Counted /\ (\A u \in Users : Formed(u)) /\ (~raced => Own)
  BY DEF AddressInv
<1>3. UNCHANGED <<tip, scanned, lastIndex, reserved, heights, paidBy>> /\ raced' \in BOOLEAN
  BY <1>2 DEF next_unused_address_First, Types
<1>4. Types'
  BY <1>1, <1>2, <1>3 DEF Types
<1>5. Chain'
  BY <1>1, <1>2, <1>3 DEF Chain, Confirmed
<1>6. Holders' = Holders /\ \A u \in Users : ~Has(u)'
  <2>1. \A u \in Users : (Has(u)' <=> Has(u)) /\ ~Has(u)
    BY <1>1, <1>2 DEF Has, Counted
  <2> QED BY <2>1, SameHolders
<1>7. 1 \in 1..Cardinality(Users)
  <2>1. IsFiniteSet(Users) /\ Users # {}
    BY DEF Bounds
  <2>2. Cardinality(Users) \in Nat /\ Cardinality(Users) # 0
    BY <2>1, FS_CardinalityType, FS_EmptySet
  <2> QED BY <2>2
<1>8. Counted'
  <2>1. \A u \in Users : users'[u].at # "none" => users'[u].address \in 1..Cardinality(Users)
    BY <1>1, <1>2, <1>7 DEF Counted
  <2>2. \A u \in Users : users'[u].at = "first" => users'[u].address = 1
    BY <1>1, <1>2 DEF Counted
  <2> QED BY <1>1, <1>2, <1>3, <1>6, <2>1, <2>2 DEF Counted
<1>9. ASSUME NEW u \in Users PROVE Formed(u)'
  <2>1. Formed(u)
    BY <1>2
  <2>2. CASE u = w
    BY <1>1, <1>2, <1>3, <2>2 DEF Formed, Types
  <2>3. CASE u # w
    BY <1>1, <1>3, <2>1, <2>3 DEF Formed
  <2> QED BY <2>2, <2>3
<1>10. ASSUME ~raced' PROVE Own'
  <2>1. Own /\ \A u \in Users : users[u].at = "none"
    BY <1>1, <1>2, <1>10 DEF Counted, Has
  <2>2. reserved' = {}
    BY <1>1, <1>2, <1>3 DEF Counted
  <2>3. Alone'
    BY <1>1, <1>3, <1>6, <2>1, <2>2 DEF Alone
  <2>4. OneByOne'
    BY <1>1, <2>1 DEF OneByOne, Shared
  <2>5. ASSUME NEW u \in Users, NEW v \in Users PROVE Taken(u, v)'
    <3>1. Taken(u, v)
      BY <2>1 DEF Own
    <3> QED BY <1>1, <1>3, <2>1, <3>1 DEF Taken
  <2> QED BY <2>2, <2>3, <2>4, <2>5 DEF Own
<1> QED BY <1>4, <1>5, <1>8, <1>9, <1>10 DEF AddressInv

\* The index of the first address is written before anybody else has an address.
LEMMA SetLastKeeps ==
  ASSUME Bounds, AddressInv, NEW w \in Users, set_last_derivation_index(w)
  PROVE  AddressInv'
<1>1. Types /\ Chain /\ Counted /\ (\A u \in Users : Formed(u)) /\ (~raced => Own)
  BY DEF AddressInv
<1>2. /\ users[w].at = "first" /\ users[w].address = 1 /\ users[w].kind \in {"invoice", "address"} /\ lastIndex' = 1
      /\ users[w].created = 0 /\ 1 \in 1..Cardinality(Users)
  BY <1>1, UserTypes DEF set_last_derivation_index, Counted, Formed
<1>3. UNCHANGED <<tip, scanned, reserved, heights, paidBy, raced>>
  BY DEF set_last_derivation_index
<1>4. /\ users' \in [Users -> User] /\ users'[w].kind = users[w].kind /\ users'[w].address = 1
      /\ users'[w].created = 0 /\ users'[w].timeout = users[w].timeout
      /\ users'[w].at = IF users'[w].kind = "invoice" THEN "creating" ELSE "given"
      /\ \A u \in Users : u # w => users'[u] = users[u]
  <2>1. users' = [users EXCEPT ![w] = [users[w] EXCEPT !.at = Holding(users[w].kind)]] /\ users \in [Users -> User]
    BY <1>1 DEF set_last_derivation_index, Types
  <2>2. Holding(users[w].kind) \in {"creating", "given"}
    BY DEF Holding
  <2>3. users'[w] = [users[w] EXCEPT !.at = Holding(users[w].kind)] /\ users[w] \in User
    BY <2>1
  <2>4. /\ users'[w] \in User /\ users'[w].at = Holding(users[w].kind) /\ users'[w].kind = users[w].kind
        /\ users'[w].address = users[w].address /\ users'[w].created = users[w].created
        /\ users'[w].timeout = users[w].timeout
    BY <2>2, <2>3 DEF User
  <2>5. users' \in [Users -> User] /\ \A u \in Users : u # w => users'[u] = users[u]
    BY <2>1, <2>4
  <2> QED BY <1>2, <2>4, <2>5 DEF Holding
<1>5. users'[w].at \in {"creating", "given"} /\ heights[w] = Unpaid
  BY <1>1, <1>2, <1>4 DEF Chain
<1>6. Types'
  BY <1>1, <1>2, <1>3, <1>4 DEF Types
<1>7. Chain'
  BY <1>1, <1>2, <1>3, <1>4, <1>5 DEF Chain, Confirmed
<1>8. Counted'
  <2>1. ~Has(w) /\ Has(w)'
    BY <1>2, <1>5 DEF Has
  <2>2. Cardinality(Holders') = Cardinality(Holders) + 1 /\ Cardinality(Holders) \in Nat
    BY <1>1, <1>4, <2>1, OneMoreHolder
  <2>3. lastIndex' <= Cardinality(Holders') /\ lastIndex' # 0
    BY <1>2, <2>2
  <2>4. \A u \in Users : users'[u].at # "none" => users'[u].address \in 1..Cardinality(Users)
    BY <1>1, <1>2, <1>4 DEF Counted
  <2>5. \A u \in Users : users'[u].at = "first" => users'[u].address = 1
    BY <1>1, <1>4 DEF Counted
  <2> QED BY <1>1, <1>3, <2>3, <2>4, <2>5 DEF Counted
<1>9. ASSUME NEW u \in Users PROVE Formed(u)'
  <2>1. Formed(u)
    BY <1>1
  <2>2. CASE u = w /\ users'[w].kind = "invoice"
    BY <1>1, <1>2, <1>3, <1>4, <2>2 DEF Formed, Types
  <2>3. CASE u = w /\ users'[w].kind # "invoice"
    BY <1>1, <1>2, <1>3, <1>4, <2>3 DEF Formed, Types
  <2>4. CASE u # w
    BY <1>3, <1>4, <2>1, <2>4 DEF Formed
  <2> QED BY <2>2, <2>3, <2>4
<1>10. ASSUME ~raced' PROVE Own'
  <2>1. Own
    BY <1>1, <1>3, <1>10
  <2>2. lastIndex = 0 /\ \A v \in Users : v # w => users[v].at = "none"
    BY <1>2, <2>1 DEF Own, Alone
  <2>3. reserved' = {}
    BY <1>1, <1>3, <2>2 DEF Counted
  <2>4. Alone'
    BY <1>2, <1>4, <1>5, <2>2, <2>3 DEF Alone, Has
  <2>5. OneByOne'
    BY <1>4, <2>2 DEF OneByOne, Shared
  <2>6. ASSUME NEW u \in Users, NEW v \in Users PROVE Taken(u, v)'
    <3>1. Taken(u, v)
      BY <2>1 DEF Own
    <3> QED BY <1>2, <1>3, <1>4, <2>2, <3>1 DEF Taken
  <2> QED BY <2>3, <2>4, <2>5, <2>6 DEF Own
<1> QED BY <1>6, <1>7, <1>8, <1>9, <1>10 DEF AddressInv

\* Who creates an invoice at an address is the only one that waits for it, and it is reserved from now on.
LEMMA CreateKeeps ==
  ASSUME Bounds, AddressInv, NEW w \in Users, CreateInvoice(w)
  PROVE  AddressInv'
<1>1. Types /\ Chain /\ Counted /\ (\A u \in Users : Formed(u)) /\ (~raced => Own)
  BY DEF AddressInv
<1>2. UNCHANGED <<tip, scanned, lastIndex, heights, paidBy, raced>>
  BY DEF CreateInvoice
<1>3. /\ users[w].at = "creating" /\ users[w].kind = "invoice" /\ users[w].address \in 1..Cardinality(Users)
      /\ users[w].address \in Nat /\ heights[w] = Unpaid
  BY <1>1, UserTypes DEF CreateInvoice, Formed, Counted, Chain
<1>4. tip \in Nat /\ tip > 0 /\ tip + Lifetime \in Nat /\ tip <= tip + Lifetime /\ lastIndex \in Nat
  BY <1>1 DEF Types, Bounds
<1>5. /\ users' \in [Users -> User]
      /\ users'[w].kind = "invoice" /\ users'[w].at \in {"given", "failed"} /\ users'[w].address = users[w].address
      /\ users'[w].created = tip /\ users'[w].timeout = tip + Lifetime
      /\ \A u \in Users : u # w => users'[u] = users[u]
  <2>1. PICK at \in {"given", "failed"} :
          users' = [users EXCEPT ![w].at = at, ![w].created = tip, ![w].timeout = tip + Lifetime]
    BY DEF CreateInvoice
  <2>2. users' = [users EXCEPT ![w] = [users[w] EXCEPT !.at = at, !.created = tip, !.timeout = tip + Lifetime]]
    BY <1>1, <2>1 DEF Types
  <2>3. users'[w] = [users[w] EXCEPT !.at = at, !.created = tip, !.timeout = tip + Lifetime] /\ users[w] \in User
    BY <1>1, <2>2 DEF Types
  <2>4. /\ users'[w] \in User /\ users'[w].at = at /\ users'[w].kind = users[w].kind
        /\ users'[w].address = users[w].address /\ users'[w].created = tip /\ users'[w].timeout = tip + Lifetime
    BY <1>4, <2>3 DEF User
  <2> QED BY <1>1, <1>3, <2>2, <2>4 DEF Types
<1>6. reserved' = {s \in reserved : s.address # users[w].address}
                    \cup {[address |-> users[w].address, expiry |-> tip + Lifetime]}
  BY DEF CreateInvoice, insert_or_update_reserved_address
<1>7. reserved' \subseteq Reservation
  BY <1>1, <1>3, <1>4, <1>6 DEF Types, Reservation
<1>8. Types'
  BY <1>1, <1>2, <1>5, <1>7 DEF Types
<1>9. Chain'
  BY <1>1, <1>2, <1>3, <1>5 DEF Chain, Confirmed
<1>10. Counted'
  <2>1. Holders' = Holders /\ Has(w)
    <3>1. \A u \in Users : Has(u)' <=> Has(u)
      BY <1>3, <1>5 DEF Has
    <3> QED BY <1>3, <3>1, SameHolders DEF Has
  <2>2. lastIndex # 0
    BY <1>1, <2>1 DEF Counted
  <2>3. \A u \in Users : users'[u].at # "none" => users'[u].address \in 1..Cardinality(Users)
    BY <1>1, <1>3, <1>5 DEF Counted
  <2>4. \A u \in Users : users'[u].at = "first" => users'[u].address = 1
    BY <1>1, <1>5 DEF Counted
  <2>5. \A r \in reserved' : r.address \in 1..Cardinality(Users)
    BY <1>1, <1>3, <1>6 DEF Counted
  <2> QED BY <1>1, <1>2, <2>1, <2>2, <2>3, <2>4, <2>5 DEF Counted
<1>11. ASSUME NEW u \in Users PROVE Formed(u)'
  <2>1. Formed(u)
    BY <1>1
  <2>2. CASE u = w
    BY <1>2, <1>4, <1>5, <2>2 DEF Formed
  <2>3. CASE u # w
    BY <1>2, <1>5, <2>1, <2>3 DEF Formed
  <2> QED BY <2>2, <2>3
<1>12. ASSUME ~raced' PROVE Own'
  <2>1. Own
    BY <1>1, <1>2, <1>12
  <2>2. \A u \in Users : users[u].at # "first"
    BY <1>3, <2>1 DEF Own, Alone
  <2>3. users[w].address <= lastIndex
    BY <1>3, <2>1 DEF Own, Alone, Has
  <2>4. Alone'
    <3>1. \A u \in Users : users'[u].at # "first"
      BY <1>5, <2>2
    <3>2. \A u \in Users : Has(u)' => users'[u].address <= lastIndex
      BY <1>5, <2>1, <2>3 DEF Own, Alone, Has
    <3>3. \A r \in reserved' : r.address <= lastIndex
      BY <1>6, <2>1, <2>3 DEF Own, Alone
    <3> QED BY <1>2, <3>1, <3>2, <3>3 DEF Alone
  <2>5. ASSUME NEW u \in Users, u # w, users[u].at # "none", users[u].address = users[w].address
        PROVE  users[u].kind = "invoice" /\ users[u].at \in {"given", "failed"} /\ users[u].timeout < tip
    <3>1. Shared(u, w)
      BY <1>3, <2>5 DEF Shared
    <3>2. Older(u, w) \/ Older(w, u)
      BY <2>1, <3>1 DEF Own, OneByOne
    <3> QED BY <1>3, <3>2 DEF Older
  <2>6. ASSUME NEW r \in reserved' PROVE Reserved(r)'
    <3>1. CASE r \in reserved /\ r.address # users[w].address
      <4>1. Reserved(r)
        BY <2>1, <3>1 DEF Own
      <4> QED BY <1>5, <1>6, <3>1, <4>1 DEF Reserved
    <3>2. CASE r = [address |-> users[w].address, expiry |-> tip + Lifetime]
      <4>1. r.address = users[w].address /\ r.expiry = tip + Lifetime
        BY <3>2
      <4>2. \A s \in reserved' : s.address = r.address => s = r
        BY <1>6, <3>2, <4>1
      <4>3. ASSUME NEW u \in Users, users'[u].at # "none", users'[u].address = r.address
            PROVE  users'[u].kind = "invoice" /\ users'[u].at \in {"given", "failed"} /\ users'[u].timeout <= r.expiry
        <5>1. CASE u = w
          BY <1>4, <1>5, <4>1, <5>1
        <5>2. CASE u # w
          <6>1. users[u].kind = "invoice" /\ users[u].at \in {"given", "failed"} /\ users[u].timeout < tip
            BY <1>5, <2>5, <4>1, <4>3, <5>2
          <6>2. users[u].timeout \in Nat
            BY <1>1, UserTypes
          <6> QED BY <1>4, <1>5, <4>1, <5>2, <6>1, <6>2
        <5> QED BY <5>1, <5>2
      <4> QED BY <4>2, <4>3 DEF Reserved
    <3> QED BY <1>6, <3>1, <3>2
  <2>7. ASSUME NEW u \in Users, NEW v \in Users, Shared(u, v)' PROVE Older(u, v)' \/ Older(v, u)'
    <3>1. CASE u # w /\ v # w
      <4>1. Shared(u, v)
        BY <1>5, <2>7, <3>1 DEF Shared
      <4>2. Older(u, v) \/ Older(v, u)
        BY <2>1, <4>1 DEF Own, OneByOne
      <4> QED BY <1>2, <1>5, <3>1, <4>2 DEF Older
    <3>2. CASE v = w
      <4>1. u # w /\ users[u].at # "none" /\ users[u].address = users[w].address
        BY <1>5, <2>7, <3>2 DEF Shared
      <4>2. users[u].kind = "invoice" /\ users[u].at \in {"given", "failed"} /\ users[u].timeout < tip
        BY <2>5, <4>1
      <4> QED BY <1>2, <1>3, <1>5, <3>2, <4>1, <4>2 DEF Older, Confirmed
    <3>3. CASE u = w
      <4>1. v # w /\ users[v].at # "none" /\ users[v].address = users[w].address
        BY <1>5, <2>7, <3>3 DEF Shared
      <4>2. users[v].kind = "invoice" /\ users[v].at \in {"given", "failed"} /\ users[v].timeout < tip
        BY <2>5, <4>1
      <4> QED BY <1>2, <1>3, <1>5, <3>3, <4>1, <4>2 DEF Older, Confirmed
    <3> QED BY <3>1, <3>2, <3>3
  <2>8. ASSUME NEW u \in Users, NEW v \in Users PROVE Taken(u, v)'
    <3>1. Taken(u, v)
      BY <2>1 DEF Own
    <3> QED BY <1>2, <1>3, <1>5, <3>1 DEF Taken
  <2> QED BY <2>4, <2>6, <2>7, <2>8 DEF Own, OneByOne
<1> QED BY <1>8, <1>9, <1>10, <1>11, <1>12 DEF AddressInv

\* The address of an invoice that could not be made is not reserved.
LEMMA FailsKeeps ==
  ASSUME Bounds, AddressInv, NEW w \in Users, InvoiceFails(w)
  PROVE  AddressInv'
<1>1. Types /\ Chain /\ Counted /\ (\A u \in Users : Formed(u)) /\ (~raced => Own)
  BY DEF AddressInv
<1>2. UNCHANGED <<tip, scanned, lastIndex, reserved, heights, paidBy, raced>>
  BY DEF InvoiceFails
<1>3. users[w].at = "creating" /\ users[w].kind = "invoice" /\ users[w].created = 0 /\ heights[w] = Unpaid
  BY <1>1 DEF InvoiceFails, Formed, Chain
<1>4. /\ users' \in [Users -> User] /\ users'[w].kind = "invoice" /\ users'[w].at = "failed"
      /\ users'[w].address = users[w].address /\ users'[w].created = 0 /\ users'[w].timeout = users[w].timeout
      /\ \A u \in Users : u # w => users'[u] = users[u]
  <2>1. users' = [users EXCEPT ![w] = [users[w] EXCEPT !.at = "failed"]] /\ users \in [Users -> User]
    BY <1>1 DEF InvoiceFails, Types
  <2>2. users'[w] = [users[w] EXCEPT !.at = "failed"] /\ users[w] \in User
    BY <2>1
  <2>3. /\ users'[w] \in User /\ users'[w].at = "failed" /\ users'[w].kind = users[w].kind
        /\ users'[w].address = users[w].address /\ users'[w].created = users[w].created
        /\ users'[w].timeout = users[w].timeout
    BY <2>2 DEF User
  <2> QED BY <1>3, <2>1, <2>3
<1>5. Types'
  BY <1>1, <1>2, <1>4 DEF Types
<1>6. Chain'
  BY <1>1, <1>2, <1>3, <1>4 DEF Chain, Confirmed
<1>7. Counted'
  <2>1. Holders' = Holders /\ \A u \in Users : Has(u)' <=> Has(u)
    <3>1. \A u \in Users : Has(u)' <=> Has(u)
      BY <1>3, <1>4 DEF Has
    <3> QED BY <3>1, SameHolders
  <2>2. \A u \in Users : users'[u].at # "none" => users'[u].address \in 1..Cardinality(Users)
    BY <1>1, <1>3, <1>4 DEF Counted
  <2>3. \A u \in Users : users'[u].at = "first" => users'[u].address = 1
    BY <1>1, <1>4 DEF Counted
  <2> QED BY <1>1, <1>2, <2>1, <2>2, <2>3 DEF Counted
<1>8. ASSUME NEW u \in Users PROVE Formed(u)'
  <2>1. Formed(u)
    BY <1>1
  <2>2. CASE u = w
    BY <1>1, <1>2, <1>4, <2>2 DEF Formed, Types
  <2>3. CASE u # w
    BY <1>2, <1>4, <2>1, <2>3 DEF Formed
  <2> QED BY <2>2, <2>3
<1>9. ASSUME ~raced' PROVE Own'
  <2>1. Own
    BY <1>1, <1>2, <1>9
  <2>2. Alone'
    BY <1>2, <1>3, <1>4, <2>1 DEF Own, Alone, Has
  <2>3. ASSUME NEW r \in reserved' PROVE Reserved(r)'
    <3>1. Reserved(r)
      BY <1>2, <2>1, <2>3 DEF Own
    <3>2. users[w].address # r.address
      BY <1>3, <3>1 DEF Reserved
    <3> QED BY <1>2, <1>4, <3>1, <3>2 DEF Reserved
  <2>4. ASSUME NEW u \in Users, NEW v \in Users, Shared(u, v)' PROVE Older(u, v)' \/ Older(v, u)'
    <3>1. Shared(u, v)
      BY <1>3, <1>4, <2>4 DEF Shared
    <3>2. Older(u, v) \/ Older(v, u)
      BY <2>1, <3>1 DEF Own, OneByOne
    <3>3. \A x, y \in Users : Older(x, y) => Older(x, y)'
      BY <1>2, <1>3, <1>4 DEF Older
    <3> QED BY <3>2, <3>3
  <2>5. ASSUME NEW u \in Users, NEW v \in Users PROVE Taken(u, v)'
    <3>1. Taken(u, v)
      BY <2>1 DEF Own
    <3> QED BY <1>2, <1>3, <1>4, <3>1 DEF Taken
  <2> QED BY <2>2, <2>3, <2>4, <2>5 DEF Own, OneByOne
<1> QED BY <1>5, <1>6, <1>7, <1>8, <1>9 DEF AddressInv

\* A payment that is not confirmed is nobody's proof.
LEMMA PayKeeps ==
  ASSUME Bounds, AddressInv, NEW w \in Users, Pay(w)
  PROVE  AddressInv'
<1>1. Types /\ Chain /\ Counted /\ (\A u \in Users : Formed(u)) /\ (~raced => Own)
  BY DEF AddressInv
<1>2. UNCHANGED <<tip, scanned, lastIndex, reserved, users, paidBy, raced>>
  BY DEF Pay
<1>3. /\ users[w].at = "given" /\ heights[w] = Unpaid /\ heights' \in [Users -> 0..Unpaid] /\ heights'[w] = Mempool
      /\ \A u \in Users : u # w => heights'[u] = heights[u]
  BY <1>1, Constants DEF Pay, Types
<1>4. Types'
  BY <1>1, <1>2, <1>3 DEF Types
<1>5. \A u \in Users : Confirmed(heights'[u]) <=> Confirmed(heights[u])
  BY <1>3 DEF Confirmed
<1>6. Chain'
  BY <1>1, <1>2, <1>3, Constants DEF Chain, Confirmed
<1>7. Holders' = Holders /\ \A u \in Users : Has(u)' <=> Has(u)
  BY <1>2 DEF Has, Holders
<1>8. Counted'
  BY <1>1, <1>2, <1>7 DEF Counted
<1>9. \A u \in Users : Formed(u)'
  BY <1>1, <1>2 DEF Formed
<1>10. ASSUME ~raced' PROVE Own'
  <2>1. Own
    BY <1>1, <1>2, <1>10
  <2>2. Alone'
    BY <1>2, <1>7, <2>1 DEF Own, Alone
  <2>3. \A r \in reserved' : Reserved(r)'
    BY <1>2, <2>1 DEF Own, Reserved
  <2>4. ASSUME NEW u \in Users, NEW v \in Users, Older(u, v) PROVE Older(u, v)'
    BY <1>2, <1>3, <1>5, <2>4 DEF Older, Confirmed
  <2>5. \A u, v \in Users : Shared(u, v)' <=> Shared(u, v)
    BY <1>2 DEF Shared
  <2>6. OneByOne'
    BY <2>1, <2>4, <2>5 DEF Own, OneByOne
  <2>7. ASSUME NEW u \in Users, NEW v \in Users PROVE Taken(u, v)'
    <3>1. Taken(u, v)
      BY <2>1 DEF Own
    <3>2. CASE v = w
      BY <1>2, <1>3, <3>1, <3>2 DEF Taken, Confirmed
    <3>3. CASE v # w
      BY <1>2, <1>3, <3>1, <3>3 DEF Taken
    <3> QED BY <3>2, <3>3
  <2> QED BY <2>2, <2>3, <2>6, <2>7 DEF Own
<1> QED BY <1>4, <1>6, <1>8, <1>9, <1>10 DEF AddressInv

\* What a block confirms is later than every timeout that has passed.
LEMMA BlockKeeps ==
  ASSUME Bounds, AddressInv, Block
  PROVE  AddressInv'
<1>1. Types /\ Chain /\ Counted /\ (\A u \in Users : Formed(u)) /\ (~raced => Own)
  BY DEF AddressInv
<1>2. UNCHANGED <<scanned, lastIndex, reserved, users, paidBy, raced>>
  BY DEF Block
<1>3. tip \in Nat /\ tip > 0 /\ tip' = tip + 1 /\ tip < MaxTip /\ MaxTip \in Nat /\ tip + 1 \in 0..Unpaid
      /\ tip + 1 # Unpaid /\ tip + 1 # Mempool
  BY <1>1, Constants DEF Block, Types, Bounds
<1>4. PICK txs \in SUBSET {u \in Users : heights[u] = Mempool} :
        heights' = [u \in Users |-> IF u \in txs THEN tip + 1 ELSE heights[u]]
  BY DEF Block
<1>5. heights' \in [Users -> 0..Unpaid]
  BY <1>1, <1>3, <1>4 DEF Types
<1>6. \A u \in Users : \/ heights'[u] = heights[u]
                       \/ heights[u] = Mempool /\ heights'[u] = tip + 1
  BY <1>4
<1>7. Types'
  BY <1>1, <1>2, <1>3, <1>5 DEF Types
<1>8. Chain'
  <2>1. scanned.tip <= tip'
    BY <1>1, <1>3 DEF Chain, Types
  <2>2. ASSUME NEW u \in Users
        PROVE  /\ Confirmed(scanned.heights[u]) => heights'[u] = scanned.heights[u]
               /\ heights'[u] # Unpaid => users[u].at = "given"
               /\ scanned.heights[u] # Unpaid => heights'[u] # Unpaid
               /\ Confirmed(heights'[u]) => heights'[u] <= tip'
    <3>1. /\ Confirmed(scanned.heights[u]) => heights[u] = scanned.heights[u]
          /\ heights[u] # Unpaid => users[u].at = "given"
          /\ scanned.heights[u] # Unpaid => heights[u] # Unpaid
          /\ Confirmed(heights[u]) => heights[u] <= tip
      BY <1>1 DEF Chain
    <3>2. CASE heights'[u] = heights[u]
      <4>1. heights[u] \in Nat
        BY <1>1, Constants, UserTypes
      <4> QED BY <1>3, <3>1, <3>2, <4>1 DEF Confirmed
    <3>3. CASE heights[u] = Mempool /\ heights'[u] = tip + 1
      BY <1>3, <3>1, <3>3, Constants DEF Confirmed
    <3> QED BY <1>6, <3>2, <3>3
  <2> QED BY <1>2, <2>1, <2>2 DEF Chain, Confirmed
<1>9. Holders' = Holders /\ \A u \in Users : Has(u)' <=> Has(u)
  BY <1>2 DEF Has, Holders
<1>10. Counted'
  BY <1>1, <1>2, <1>9 DEF Counted
<1>11. ASSUME NEW u \in Users PROVE Formed(u)'
  <2>1. Formed(u) /\ users[u].created \in Nat
    BY <1>1, UserTypes
  <2> QED BY <1>2, <1>3, <2>1 DEF Formed
<1>12. ASSUME ~raced' PROVE Own'
  <2>1. Own
    BY <1>1, <1>2, <1>12
  <2>2. Alone'
    BY <1>2, <1>9, <2>1 DEF Own, Alone
  <2>3. \A r \in reserved' : Reserved(r)'
    BY <1>2, <2>1 DEF Own, Reserved
  <2>4. ASSUME NEW u \in Users, NEW v \in Users, Older(u, v) PROVE Older(u, v)'
    <3>1. /\ users[u].kind = "invoice" /\ users[u].at \in {"given", "failed"} /\ users[u].timeout < tip
          /\ users[v].created > 0 => users[u].timeout < users[v].created
          /\ Confirmed(heights[v]) => users[u].timeout < heights[v]
      BY <2>4 DEF Older
    <3>2. users[u].timeout \in Nat
      BY <1>1, UserTypes
    <3>3. users[u].timeout < tip + 1
      BY <1>3, <3>1, <3>2
    <3>4. Confirmed(heights'[v]) => users[u].timeout < heights'[v]
      BY <1>6, <3>1, <3>3
    <3> QED BY <1>2, <1>3, <3>1, <3>3, <3>4 DEF Older, Confirmed
  <2>5. \A u, v \in Users : Shared(u, v)' <=> Shared(u, v)
    BY <1>2 DEF Shared
  <2>6. OneByOne'
    BY <2>1, <2>4, <2>5 DEF Own, OneByOne
  <2>7. ASSUME NEW u \in Users, NEW v \in Users PROVE Taken(u, v)'
    <3>1. Taken(u, v)
      BY <2>1 DEF Own
    <3>2. Confirmed(heights[v]) => heights'[v] = heights[v]
      BY <1>6 DEF Confirmed
    <3> QED BY <1>2, <3>1, <3>2 DEF Taken, Confirmed
  <2> QED BY <2>2, <2>3, <2>6, <2>7 DEF Own
<1> QED BY <1>7, <1>8, <1>10, <1>11, <1>12 DEF AddressInv

\* A scan learns what the chain has.
LEMMA ScanKeeps ==
  ASSUME Bounds, AddressInv, full_scan
  PROVE  AddressInv'
<1>1. Types /\ Chain /\ Counted /\ (\A u \in Users : Formed(u)) /\ (~raced => Own)
  BY DEF AddressInv
<1>2. /\ UNCHANGED <<tip, lastIndex, reserved, users, heights, paidBy, raced>>
      /\ scanned' = [tip |-> tip, heights |-> heights]
  BY DEF full_scan
<1>3. Types' /\ Chain'
  BY <1>1, <1>2 DEF Types, Chain, Confirmed
<1>4. Counted' /\ \A u \in Users : Formed(u)'
  BY <1>1, <1>2 DEF Counted, Holders, Has, Formed
<1>5. Own => Own'
  BY <1>2 DEF Own, Alone, Has, Reserved, OneByOne, Shared, Older, Confirmed, Taken
<1> QED BY <1>1, <1>2, <1>3, <1>4, <1>5 DEF AddressInv

\* A payment that is taken for an invoice of another user came after the other's timeout.
LEMMA RecoverKeeps ==
  ASSUME Bounds, AddressInv, NEW w \in Users, recover_mrh(w)
  PROVE  AddressInv'
<1>1. Types /\ Chain /\ Counted /\ (\A u \in Users : Formed(u)) /\ (~raced => Own)
  BY DEF AddressInv
<1>2. /\ UNCHANGED <<tip, scanned, lastIndex, users, heights, raced>> /\ reserved' \subseteq reserved
      /\ users[w].at = "given" /\ users[w].kind = "invoice"
  BY DEF recover_mrh, delete_reserved_address
<1>3. PICK by \in SUBSET Users, confirmed \in BOOLEAN :
        /\ paidBy' = [paidBy EXCEPT ![w] = [by |-> by, confirmed |-> confirmed]]
        /\ \A v \in by : by = {v} /\ v \in mrh_txs(w) /\ (confirmed => scanned.heights[v] # Mempool)
  <2>1. CASE \E v \in mrh_txs(w) :
               paidBy' = [paidBy EXCEPT ![w] = [by |-> {v}, confirmed |-> scanned.heights[v] # Mempool]]
    <3>1. PICK v \in mrh_txs(w) :
            paidBy' = [paidBy EXCEPT ![w] = [by |-> {v}, confirmed |-> scanned.heights[v] # Mempool]]
      BY <2>1
    <3>2. {v} \in SUBSET Users /\ (scanned.heights[v] # Mempool) \in BOOLEAN
      BY <3>1 DEF mrh_txs
    <3>3. \A x \in {v} : {v} = {x} /\ x \in mrh_txs(w)
                         /\ ((scanned.heights[v] # Mempool) => scanned.heights[x] # Mempool)
      BY <3>1
    <3> QED BY <3>1, <3>2, <3>3
  <2>2. CASE paidBy' = [paidBy EXCEPT ![w] = [by |-> {}, confirmed |-> FALSE]]
    <3>1. {} \in SUBSET Users /\ FALSE \in BOOLEAN
      OBVIOUS
    <3> QED BY <2>2, <3>1
  <2> QED BY <2>1, <2>2 DEF recover_mrh
<1>4. /\ paidBy' \in [Users -> [by : SUBSET Users, confirmed : BOOLEAN]]
      /\ paidBy'[w].by = by /\ (paidBy'[w].confirmed <=> confirmed)
      /\ \A u \in Users : u # w => paidBy'[u] = paidBy[u]
  BY <1>1, <1>3 DEF Types
<1>5. Types' /\ Chain'
  BY <1>1, <1>2, <1>4 DEF Types, Chain, Confirmed
<1>6. Counted' /\ \A u \in Users : Formed(u)'
  BY <1>1, <1>2 DEF Counted, Holders, Has, Formed
<1>7. ASSUME ~raced' PROVE Own'
  <2>1. Own
    BY <1>1, <1>2, <1>7
  <2>2. Alone' /\ OneByOne'
    BY <1>2, <2>1 DEF Own, Alone, Has, OneByOne, Shared, Older, Confirmed
  <2>3. \A r \in reserved' : Reserved(r)'
    BY <1>2, <2>1 DEF Own, Reserved
  <2>4. ASSUME NEW v \in Users PROVE Taken(w, v)'
    <3> SUFFICES ASSUME w # v, by = {v}, confirmed
                 PROVE  /\ users[v].kind = "invoice" /\ users[v].at = "given" /\ Confirmed(heights[v])
                        /\ heights[v] >= users[v].timeout
      BY <1>2, <1>4 DEF Taken, Confirmed
    <3>1. /\ users[v].address = users[w].address /\ heights[v] < users[w].timeout
          /\ scanned.heights[v] # Unpaid /\ scanned.heights[v] # Mempool /\ scanned.heights[v] > users[w].created
      BY <1>3 DEF mrh_txs
    <3>2. Confirmed(heights[v]) /\ heights[v] = scanned.heights[v] /\ users[v].at = "given"
      BY <1>1, <3>1 DEF Chain, Confirmed
    <3>3. Older(v, w) \/ Older(w, v)
      BY <1>2, <2>1, <3>1, <3>2 DEF Own, OneByOne, Shared
    <3>4. heights[v] \in Nat /\ users[v].timeout \in Nat /\ users[w].created \in Nat /\ users[w].timeout \in Nat
      BY <1>1, UserTypes, Constants
    <3>5. ~Older(w, v)
      BY <3>1, <3>2, <3>4 DEF Older
    <3>6. users[v].kind = "invoice" /\ users[v].timeout < users[w].created
      BY <1>1, <1>2, <3>3, <3>5 DEF Older, Formed
    <3> QED BY <3>1, <3>2, <3>4, <3>6
  <2>5. ASSUME NEW u \in Users, NEW v \in Users, u # w PROVE Taken(u, v)'
    <3>1. Taken(u, v)
      BY <2>1 DEF Own
    <3> QED BY <1>2, <1>4, <2>5, <3>1 DEF Taken, Confirmed
  <2>6. \A u, v \in Users : Taken(u, v)'
    BY <2>4, <2>5
  <2> QED BY <2>2, <2>3, <2>6 DEF Own
<1> QED BY <1>1, <1>5, <1>6, <1>7 DEF AddressInv

-----------------------------------------------------------------------------
(* The theorems *)

\* At the start nobody has an address.
LEMMA InitInv ==
  ASSUME Bounds, AddressInit
  PROVE  AddressInv
<1>1. tip = 1 /\ lastIndex = 0 /\ reserved = {} /\ raced = FALSE
  BY DEF AddressInit
<1>2. /\ users = [u \in Users |-> NoUser] /\ heights = [u \in Users |-> Unpaid]
      /\ scanned = [tip |-> 1, heights |-> [u \in Users |-> Unpaid]]
      /\ paidBy = [u \in Users |-> [by |-> {}, confirmed |-> FALSE]]
  BY DEF AddressInit
<1>3. \A u \in Users : /\ users[u] = NoUser /\ users[u].at = "none" /\ users[u].created = 0 /\ heights[u] = Unpaid
                       /\ scanned.heights[u] = Unpaid /\ paidBy[u].by = {}
  BY <1>2 DEF NoUser
<1>4. Types
  <2>1. users \in [Users -> User]
    BY <1>2 DEF NoUser, User
  <2>2. MaxTip >= 1 /\ tip \in Nat \ {0} /\ tip <= MaxTip
    BY <1>1 DEF Bounds
  <2> QED BY <1>1, <1>2, <2>1, <2>2, Constants DEF Types
<1>5. Chain
  BY <1>1, <1>2, <1>3 DEF Chain, Confirmed
<1>6. Counted
  <2>1. \A u \in Users : ~Has(u)
    BY <1>3 DEF Has
  <2>2. Holders = {}
    BY <2>1 DEF Holders
  <2>3. Cardinality(Holders) = 0
    BY <2>2, FS_EmptySet
  <2> QED BY <1>1, <1>3, <2>1, <2>3 DEF Counted
<1>7. \A u \in Users : Formed(u)
  BY <1>1, <1>3 DEF Formed
<1>8. Own
  <2>1. Alone
    BY <1>1, <1>3 DEF Alone, Has
  <2>2. OneByOne
    BY <1>3 DEF OneByOne, Shared
  <2>3. \A u, v \in Users : Taken(u, v)
    BY <1>3 DEF Taken
  <2> QED BY <1>1, <2>1, <2>2, <2>3 DEF Own
<1> QED BY <1>4, <1>5, <1>6, <1>7, <1>8 DEF AddressInv

\* Every step keeps the invariant.
LEMMA StepInv ==
  ASSUME Bounds, AddressInv, [AddressNext]_addressVars
  PROVE  AddressInv'
<1>1. CASE AddressNext
  <2>1. ASSUME NEW u \in Users, next_unused_address_Reserved(u) PROVE AddressInv'
    BY <2>1, ReservedKeeps
  <2>2. ASSUME NEW u \in Users, next_unused_address(u) PROVE AddressInv'
    BY <2>2, NextKeeps
  <2>3. ASSUME NEW u \in Users, next_unused_address_First(u) PROVE AddressInv'
    BY <2>3, FirstKeeps
  <2>4. ASSUME NEW u \in Users, set_last_derivation_index(u) PROVE AddressInv'
    BY <2>4, SetLastKeeps
  <2>5. ASSUME NEW u \in Users, CreateInvoice(u) PROVE AddressInv'
    BY <2>5, CreateKeeps
  <2>6. ASSUME NEW u \in Users, InvoiceFails(u) PROVE AddressInv'
    BY <2>6, FailsKeeps
  <2>7. ASSUME NEW u \in Users, Pay(u) PROVE AddressInv'
    BY <2>7, PayKeeps
  <2>8. ASSUME NEW u \in Users, recover_mrh(u) PROVE AddressInv'
    BY <2>8, RecoverKeeps
  <2>9. CASE Block
    BY <2>9, BlockKeeps
  <2>10. CASE full_scan
    BY <2>10, ScanKeeps
  <2> QED BY <1>1, <2>1, <2>2, <2>3, <2>4, <2>5, <2>6, <2>7, <2>8, <2>9, <2>10 DEF AddressNext
<1>2. CASE UNCHANGED addressVars
  <2>1. UNCHANGED <<tip, scanned, lastIndex, reserved, users, heights, paidBy, raced>>
    BY <1>2 DEF addressVars
  <2>2. (Types' <=> Types) /\ (Chain' <=> Chain) /\ (Counted' <=> Counted)
    BY <2>1 DEF Types, Chain, Confirmed, Counted, Holders, Has
  <2>3. (\A u \in Users : Formed(u)) => \A u \in Users : Formed(u)'
    BY <2>1 DEF Formed
  <2>4. Own => Own'
    BY <2>1 DEF Own, Alone, Has, Reserved, OneByOne, Shared, Older, Confirmed, Taken
  <2> QED BY <2>1, <2>2, <2>3, <2>4 DEF AddressInv
<1> QED BY <1>1, <1>2

\* The invariant implies the type invariant the run checks.
LEMMA InvMeansTypeOK ==
  ASSUME Bounds, AddressInv
  PROVE  AddressTypeOK
<1>1. Types /\ Counted
  BY DEF AddressInv
<1>2. Cardinality(Holders) <= Cardinality(Users) /\ Cardinality(Holders) \in Nat /\ Cardinality(Users) \in Nat
  <2>1. Holders \subseteq Users /\ IsFiniteSet(Users)
    BY DEF Holders, Bounds
  <2>2. IsFiniteSet(Holders)
    BY <2>1, FS_Subset
  <2> QED BY <2>1, <2>2, FS_Subset, FS_CardinalityType
<1>3. tip \in 1..MaxTip /\ raced \in BOOLEAN
  BY <1>1 DEF Types, Bounds
<1>4. lastIndex \in 0..Cardinality(Users)
  BY <1>1, <1>2 DEF Types, Counted
<1>5. \A r \in reserved : r.address \in 1..Cardinality(Users) /\ r.expiry \in Nat
  BY <1>1 DEF Types, Counted, Reservation
<1>6. \A u \in Users : paidBy[u].by \subseteq Users /\ heights[u] \in 0..Unpaid
  BY <1>1 DEF Types
<1> QED BY <1>3, <1>4, <1>5, <1>6 DEF AddressTypeOK

\* The invariant implies that nobody waits where another does.
LEMMA InvMeansOwn ==
  ASSUME Bounds, AddressInv
  PROVE  MrhAddressIsOwn
<1> SUFFICES ASSUME ~raced, NEW u \in Users, NEW v \in Users, u # v
             PROVE  /\ ~(Payable(u) /\ Payable(v) /\ users[u].address = users[v].address)
                    /\ paidBy[u].by = {v} /\ paidBy[u].confirmed
                         => users[v].kind = "invoice" /\ heights[v] >= users[v].timeout
  BY DEF MrhAddressIsOwn
<1>1. Own /\ Types
  BY DEF AddressInv
<1>2. ASSUME Payable(u), Payable(v), users[u].address = users[v].address PROVE FALSE
  <2>1. Older(u, v) \/ Older(v, u)
    BY <1>1, <1>2 DEF Own, OneByOne, Shared, Payable
  <2>2. users[u].timeout \in Nat /\ users[v].timeout \in Nat /\ tip \in Nat
    BY <1>1, UserTypes DEF Types
  <2> QED BY <1>2, <2>1, <2>2 DEF Older, Payable
<1>3. Taken(u, v)
  BY <1>1 DEF Own
<1> QED BY <1>2, <1>3 DEF Taken

\* The invariant holds in every state of every behaviour.
LEMMA AlwaysInv == Bounds /\ AddressSpec => []AddressInv
<1>1. ASSUME Bounds PROVE AddressInit => AddressInv
  BY <1>1, InitInv
<1>2. ASSUME Bounds PROVE AddressInv /\ [AddressNext]_addressVars => AddressInv'
  BY <1>2, StepInv
<1>3. Bounds => (AddressSpec => []AddressInv)
  <2> SUFFICES ASSUME Bounds PROVE AddressSpec => []AddressInv
    OBVIOUS
  <2>1. AddressInit => AddressInv
    BY <1>1
  <2>2. AddressInv /\ [AddressNext]_addressVars => AddressInv'
    BY <1>2
  <2> QED BY <2>1, <2>2, PTL DEF AddressSpec
<1> QED BY <1>3

\* Every variable keeps its form, and no address is derived that no user asked for.
THEOREM TypeCorrect == AddressSpec => []AddressTypeOK
<1>1. Bounds => (AddressSpec => []AddressTypeOK)
  <2> SUFFICES ASSUME Bounds PROVE AddressSpec => []AddressTypeOK
    OBVIOUS
  <2>1. AddressInv => AddressTypeOK
    BY InvMeansTypeOK
  <2>2. AddressSpec => []AddressInv
    BY AlwaysInv
  <2> QED BY <2>1, <2>2, PTL
<1> QED BY <1>1, AddressAssumption DEF Bounds

\* However many users ask for an address, pay late or twice and recover: no two wait for a payment at the same
\* address (next_expired_reserved_address and next_derivation_index), and no payment that came in time for one invoice
\* is taken for another's (recover_mrh), unless the first two addresses were asked for at once.
THEOREM AddressesAreOwn == AddressSpec => []MrhAddressIsOwn
<1>1. Bounds => (AddressSpec => []MrhAddressIsOwn)
  <2> SUFFICES ASSUME Bounds PROVE AddressSpec => []MrhAddressIsOwn
    OBVIOUS
  <2>1. AddressInv => MrhAddressIsOwn
    BY InvMeansOwn
  <2>2. AddressSpec => []AddressInv
    BY AlwaysInv
  <2> QED BY <2>1, <2>2, PTL
<1> QED BY <1>1, AddressAssumption DEF Bounds

-----------------------------------------------------------------------------
(* The quotes of payments (PreparedPayments) *)

\* What is assumed of the constants
Prices == AmountsAreReal /\ PairsAreReal

Money == 0..(2^Width - 1)

PriceKinds == {"None", "liquid", "bolt11", "bolt12", "onchain", "lightning", "address"}
Quote == [kind : PriceKinds, drain : BOOLEAN, mrh : BOOLEAN, invoice : Nat, receiver : Nat, boltz : Nat,
          claim : Nat, fees : Nat]
PaidKinds == PriceKinds \cup {"direct", "drained"}

QuoteTypes ==
  /\ wallet \in Money /\ info \in [balance : Money, pending : BOOLEAN] /\ pair \in Pairs
  /\ quote \in Quote
  /\ swaps \in [Amounts -> [state : {"None", "Created", "TimedOut", "Pending"}, expected : Nat]]
  /\ sending \in [kind : {"None", "bolt11", "bolt12", "onchain"}, amount : Nat, quote : Quote]
  /\ paid \in [kind : PaidKinds, quote : Quote, amount : Int, fee : Nat, balance : Nat]
  /\ accepted \in [Amounts -> Nat] /\ fresh \in BOOLEAN /\ changes \in Nat

\* A quote is over the amount of its invoice, but for a drain by a hint
QuoteIsOfInvoice ==
  /\ quote.kind = "bolt11" => quote.invoice \in Amounts
  /\ quote.kind = "bolt12" \/ (quote.kind = "bolt11" /\ ~(quote.mrh /\ quote.drain)) => quote.receiver = quote.invoice

\* A swap that may be used again costs what an earlier quote allowed
SwapsAreAccepted ==
  /\ \A a \in Amounts : swaps[a].state \in {"Created", "TimedOut"} => swaps[a].expected + DrainFee <= accepted[a]
  /\ sending.kind = "bolt11" => sending.quote.invoice \in Amounts

QuoteInv == QuoteTypes /\ QuoteIsOfInvoice /\ SwapsAreAccepted /\ KeepsToQuote /\ PreparedIsPayable

-----------------------------------------------------------------------------
(* Arithmetic *)

LEMMA ModBounds == ASSUME NEW M \in Nat \ {0}, NEW x \in Int PROVE x % M \in 0..(M - 1)
  BY SMT
LEMMA ModSmall == ASSUME NEW M \in Nat \ {0}, NEW x \in 0..(M - 1) PROVE x % M = x
  BY SMT
LEMMA TimesMonotone == ASSUME NEW q \in Nat, NEW a \in Int, NEW b \in Int, a <= b PROVE q * a <= q * b
  BY SMT

\* Rounding up: the least number whose multiple is not below.
LEMMA CeilDivBounds ==
  ASSUME NEW a \in Nat, NEW b \in Nat \ {0}
  PROVE  CeilDiv(a, b) \in Nat /\ a <= b * CeilDiv(a, b) /\ b * CeilDiv(a, b) < a + b
<1> DEFINE x == a + b - 1
<1>1. x \in Nat
  OBVIOUS
<1> HIDE DEF x
<1>2. x \div b \in Nat /\ b * (x \div b) <= x /\ x < b * (x \div b) + b
  BY <1>1, SMT
<1>3. b * (x \div b) \in Nat
  BY <1>2, SMT
<1> DEFINE y == b * (x \div b)
<1>4. a <= y /\ y < a + b
  <2> HIDE DEF y
  <2> QED BY <1>1, <1>2, <1>3 DEF x, y
<1> QED BY <1>2, <1>4 DEF CeilDiv, x, y

\* The prices of Boltz are numbers.
LEMMA PairNumbers ==
  ASSUME PairsAreReal, pair \in Pairs
  PROVE  /\ pair.percentage \in 0..50 /\ pair.miner \in Nat /\ pair.claim \in Nat /\ pair.server \in Nat
         /\ pair.minimal \in Nat /\ pair.maximal \in Nat
<1>1. pair \in [percentage : 0..50, miner : Nat, claim : Nat, server : Nat, minimal : Nat, maximal : Nat]
  BY Zenon DEF PairsAreReal
<1> QED BY <1>1

LEMMA FeeNumbers ==
  ASSUME PairsAreReal, pair \in Pairs, NEW a \in Nat
  PROVE  boltz(pair, a) \in Nat /\ total(pair, a) \in Nat
<1> DEFINE x == a * pair.percentage
<1>1. x \in Nat
  BY PairNumbers, SMT
<1>2. boltz(pair, a) = CeilDiv(x, 100)
  BY DEF boltz
<1>3. boltz(pair, a) \in Nat
  <2> HIDE DEF x
  <2> QED BY <1>1, <1>2, CeilDivBounds
<1> QED BY <1>3, PairNumbers DEF total

\* The lockup of a chain swap that pays `a` is not less than `a`.
LEMMA ServiceFeeNumbers ==
  ASSUME PairsAreReal, pair \in Pairs, NEW a \in Nat, NEW claim \in Nat
  PROVE  ServiceFees(a, claim) \in Nat
<1> DEFINE c == claim + pair.server
           n == a + c
           q == 100 - pair.percentage
           U == CeilDiv(n * 100, q)
<1>1. n \in Nat /\ c \in Nat /\ q \in 50..100
  BY PairNumbers
<1>2. U \in Nat /\ n * 100 <= q * U
  <2> HIDE DEF n, q
  <2> QED BY <1>1, CeilDivBounds
<1>3. q * U <= 100 * U
  <2> HIDE DEF q, U
  <2> QED BY <1>1, <1>2, TimesMonotone
<1>4. n <= U
  <2> HIDE DEF n, q, U
  <2> q * U \in Int
    BY <1>1, <1>2
  <2> QED BY <1>1, <1>2, <1>3
<1>5. ServiceFees(a, claim) = c + U - n
  BY PairNumbers, a + claim + pair.server = n DEF ServiceFees, user_lockup_amount
<1> HIDE DEF c, n, U
<1> QED BY <1>1, <1>2, <1>4, <1>5

\* The lockup of a drain is computed downwards when it is quoted and upwards when it is paid: rounding costs at
\* most one satoshi.
LEMMA DrainRoundsOnce ==
  ASSUME PairsAreReal, pair \in Pairs, NEW L \in Nat, NEW claim \in Nat,
         boltz(pair, L) + claim + pair.server < L
  PROVE  LET service == boltz(pair, L) + claim + pair.server
         IN ServiceFees(L - service, claim) <= service /\ service <= ServiceFees(L - service, claim) + 1
<1> DEFINE p == pair.percentage
           c == claim + pair.server
           B == boltz(pair, L)
           n == L - B
           q == 100 - p
           U == CeilDiv(n * 100, q)
           r == L - (B + claim + pair.server)
<1>1. p \in 0..50 /\ c \in Nat /\ q \in 50..100 /\ B \in Nat /\ claim \in Nat /\ pair.server \in Nat
  BY PairNumbers, FeeNumbers
<1>2. n \in Nat /\ r \in Nat /\ r + claim + pair.server = n
  <2> HIDE DEF B
  <2> QED BY <1>1 DEF B
<1>3. L * p \in Nat /\ L * p <= 100 * B /\ 100 * B < L * p + 100
  <2> DEFINE x == L * p
  <2>1. x \in Nat
    BY <1>1, SMT
  <2>2. B = CeilDiv(x, 100)
    BY DEF boltz
  <2> HIDE DEF x, B
  <2>3. x <= 100 * B /\ 100 * B < x + 100
    BY <2>1, <2>2, CeilDivBounds
  <2> QED BY <2>1, <2>3 DEF x
<1>4. U \in Nat /\ n * 100 <= q * U /\ q * U < n * 100 + q
  <2> DEFINE m == n * 100
  <2>1. m \in Nat /\ q \in Nat \ {0}
    BY <1>1, <1>2
  <2> HIDE DEF m, q
  <2> QED BY <2>1, CeilDivBounds DEF m
<1>5. q * L = 100 * L - L * p
  <2> HIDE DEF p
  <2> QED BY <1>1, SMT
<1>6. n * 100 <= q * L /\ q * L < n * 100 + 100
  <2> DEFINE x == L * p
             y == q * L
  <2> x \in Nat /\ y = 100 * L - x /\ x <= 100 * B /\ 100 * B < x + 100
    BY <1>3, <1>5
  <2> HIDE DEF x, y, B, q
  <2> QED BY <1>1, <1>2 DEF y
<1> DEFINE qU == q * U
           qL == q * L
<1>7. qU \in Nat /\ qL \in Nat
  <2> HIDE DEF q, U
  <2> QED BY <1>1, <1>4, SMT
<1>8. U <= L
  <2> SUFFICES ASSUME L + 1 <= U PROVE FALSE
    <3> HIDE DEF U
    <3> QED BY <1>4
  <2>1. q * (L + 1) <= q * U
    <3> HIDE DEF q, U
    <3> QED BY <1>1, <1>4, TimesMonotone
  <2>2. q * (L + 1) = qL + q
    <3> HIDE DEF q
    <3> QED BY <1>1, SMT
  <2>3. qL + q <= qU /\ qU < n * 100 + q /\ n * 100 <= qL
    BY <1>4, <1>6, <2>1, <2>2
  <2> HIDE DEF qL, qU, q, n
  <2> QED BY <1>1, <1>2, <1>7, <2>3
<1>9. L <= U + 1
  <2> SUFFICES ASSUME U + 2 <= L PROVE FALSE
    <3> HIDE DEF U
    <3> QED BY <1>4
  <2>1. q * (U + 2) <= q * L
    <3> HIDE DEF q, U
    <3> QED BY <1>1, <1>4, TimesMonotone
  <2>2. q * (U + 2) = qU + 2 * q
    <3> HIDE DEF q, U
    <3> QED BY <1>1, <1>4, SMT
  <2>3. qU + 2 * q <= qL /\ qL < n * 100 + 100 /\ n * 100 <= qU
    BY <1>4, <1>6, <2>1, <2>2
  <2> HIDE DEF qL, qU, q, n
  <2> QED BY <1>1, <1>2, <1>7, <2>3
<1>10. ServiceFees(r, claim) = c + U - n
  BY <1>2 DEF ServiceFees, user_lockup_amount
<1>11. B + claim + pair.server = L - n + c
  <2> HIDE DEF B
  <2> QED BY <1>1
<1> DEFINE service == B + claim + pair.server
<1>12. service = L - n + c /\ L - service = r
  BY <1>11
<1>13. c + U - n <= L - n + c /\ L - n + c <= c + U - n + 1
  <2> HIDE DEF U, n, c
  <2> QED BY <1>1, <1>2, <1>4, <1>8, <1>9
<1>14. ServiceFees(L - service, claim) <= service /\ service <= ServiceFees(L - service, claim) + 1
  <2> HIDE DEF U, n, c, service, r
  <2> QED BY <1>10, <1>12, <1>13
<1> QED BY <1>14 DEF service


\* What is locked up pays for the claim.
LEMMA ClaimIsPaid ==
  ASSUME Prices, pair \in Pairs, NEW c \in claim_fees
  PROVE  /\ c \in Nat
         /\ \A a \in Nat : within(pair, a) => boltz(pair, a) + c + pair.server < a
<1>1. c \in Nat
  BY PairNumbers DEF Prices, AmountsAreReal, claim_fees
<1>2. pair.minimal \in Nat /\ pair.maximal \in Nat
  BY PairNumbers DEF Prices
<1>3. \A a \in pair.minimal..pair.maximal : boltz(pair, a) + c + pair.server < a
  BY Zenon DEF Prices, PairsAreReal, claim_fees
<1> QED BY <1>1, <1>2, <1>3 DEF within

LEMMA MoneyIsNat == ASSUME Prices PROVE Money \subseteq Nat
  BY DEF Prices, AmountsAreReal, Money

\* Nothing wraps around when no more is taken than there is.
LEMMA MinusIsLess ==
  ASSUME Prices, NEW a \in Money, NEW b \in Nat
  PROVE  /\ b <= a => Minus(a, b) = a - b
         /\ a < b /\ b < 2^Width => Minus(a, b) = a + 2^Width - b
         /\ Minus(a, b) \in Money
<1> DEFINE M == 2^Width
<1>1. M \in Nat \ {0}
  BY DEF Prices, AmountsAreReal
<1>2. a \in 0..(M - 1)
  BY DEF Money
<1>3. Minus(a, b) = (a + M - b) % M
  BY DEF Minus
<1> HIDE DEF M
<1>4. Minus(a, b) \in 0..(M - 1)
  BY <1>1, <1>2, <1>3, ModBounds
<1>5. ASSUME b <= a PROVE Minus(a, b) = a - b
  BY <1>1, <1>2, <1>3, <1>5, SMT
<1>6. ASSUME a < b, b < M PROVE Minus(a, b) = a + M - b
  BY <1>1, <1>2, <1>3, <1>6, SMT
<1> QED BY <1>4, <1>5, <1>6 DEF M, Money

\* A transaction that can be built leaves no debt.
LEMMA BuildFits ==
  ASSUME Prices, wallet \in Money, NEW a \in Nat, NEW f \in build_tx_or_drain_tx(a)
  PROVE  /\ f \in {DrainFee, ChangeFee} /\ f \in Nat /\ a + f <= wallet
         /\ wallet - a - f \in Money
         /\ f = ChangeFee => a + f < wallet \/ a + f = wallet
<1>1. DrainFee \in Nat /\ 2^Width \in Nat \ {0}
  BY DEF Prices, AmountsAreReal
<1>2. f \in {DrainFee, ChangeFee} /\ f \in Nat /\ a + f <= wallet
  BY <1>1 DEF build_tx_or_drain_tx, build_tx, build_drain_tx, ChangeFee, Money
<1>3. wallet - a - f \in Money
  BY <1>1, <1>2 DEF Money
<1> QED BY <1>1, <1>2, <1>3 DEF build_tx_or_drain_tx, build_tx, build_drain_tx, ChangeFee, Money

LEMMA DrainFits ==
  ASSUME Prices, wallet \in Money, NEW f \in build_drain_tx
  PROVE  f = DrainFee /\ f \in Nat /\ f < wallet
BY DEF Prices, AmountsAreReal, build_drain_tx

-----------------------------------------------------------------------------
(* What a quote promises: PreparedIsPayable of the quote `q` *)

PayableFees(q) ==
  {ServiceFees(q.receiver, q.claim) + f :
     f \in IF q.receiver + q.fees = info.balance
           THEN build_drain_tx ELSE build_tx(q.receiver + ServiceFees(q.receiver, q.claim))}

QuoteIsPayable(q) ==
  /\ q.kind = "liquid" =>
       validate_sufficient_funds(q.receiver, q.fees) /\ pay_liquid_onchain(q.receiver, q.fees) # {}
  /\ q.kind \in {"bolt11", "bolt12"} /\ ~q.mrh =>
       /\ q.invoice + q.fees <= info.balance
       /\ within(pair, q.invoice)
       /\ \E f \in build_tx_or_drain_tx(q.invoice + total(pair, q.invoice)) :
            q.fees = total(pair, q.invoice) + f
  /\ q.kind \in {"bolt11", "bolt12"} /\ q.mrh /\ q.invoice <= q.receiver =>
       q.invoice + q.fees <= info.balance /\ pay_liquid_onchain(q.receiver, q.fees) # {}
  /\ q.kind = "onchain" /\ ~q.drain =>
       /\ within(pair, q.receiver + ServiceFees(q.receiver, q.claim))
       /\ q.fees \in PayableFees(q)
       /\ q.receiver + q.fees <= info.balance
  /\ q.kind = "onchain" /\ q.drain =>
       \E fees \in PayableFees(q) : fees <= q.fees /\ q.fees <= fees + 1

LEMMA PreparedMeansPayable ==
  ASSUME PreparedIsPayable, fresh
  PROVE  QuoteIsPayable(quote)
BY DEF QuoteIsPayable, PayableFees, PreparedIsPayable, Affordable, SwapFeesHold, OnchainFeesHold, OnchainFees, QuotedLockup

OfInvoice(q) ==
  /\ q.kind = "bolt11" => q.invoice \in Amounts
  /\ q.kind = "bolt12" \/ (q.kind = "bolt11" /\ ~(q.mrh /\ q.drain)) => q.receiver = q.invoice

\* A new quote leaves everything else alone.
LEMMA QuotedKeeps ==
  ASSUME QuoteInv, NEW q \in Quote, Quoted(q), OfInvoice(q),
         info.balance = wallet /\ ~info.pending => QuoteIsPayable(q)
  PROVE  QuoteInv'
<1> USE DEF Quoted
<1>1. QuoteTypes'
  <2>1. NoPayment \in [kind : PaidKinds, quote : Quote, amount : Int, fee : Nat, balance : Nat]
    BY DEF NoPayment, NoQuote, Quote, PaidKinds, PriceKinds
  <2> QED BY <2>1 DEF QuoteInv, QuoteTypes
<1>2. QuoteIsOfInvoice'
  BY DEF QuoteIsOfInvoice, OfInvoice
<1>3. SwapsAreAccepted'
  BY DEF QuoteInv, SwapsAreAccepted
<1>4. KeepsToQuote'
  BY DEF QuoteInv, KeepsToQuote, NoPayment
<1>5. PreparedIsPayable'
  <2>1. fresh' => QuoteIsPayable(q)
    OBVIOUS
  <2>2. QuoteIsPayable(q) => QuoteIsPayable(quote)'
    BY DEF QuoteIsPayable, PayableFees, validate_sufficient_funds, pay_liquid_onchain, build_tx_or_drain_tx, build_tx,
       build_drain_tx, within, total, boltz, ServiceFees, user_lockup_amount
  <2>3. (fresh => QuoteIsPayable(quote))'
    BY <2>1, <2>2
  <2> QED BY <2>3 DEF QuoteIsPayable, PayableFees, PreparedIsPayable, Affordable, SwapFeesHold, OnchainFeesHold, OnchainFees, QuotedLockup
<1> QED BY <1>1, <1>2, <1>3, <1>4, <1>5 DEF QuoteInv

-----------------------------------------------------------------------------
(* Each prepare call quotes what can be paid *)

\* The numbers every quote is made of.
LEMMA QuoteNumbers ==
  ASSUME Prices, QuoteInv
  PROVE  /\ wallet \in Money /\ wallet \in Nat /\ wallet < 2^Width /\ 2^Width \in Nat \ {0}
         /\ info.balance \in Money /\ info.balance \in Nat /\ info.balance < 2^Width
         /\ pair \in Pairs /\ PairsAreReal /\ DrainFee \in Nat /\ ChangeFee = DrainFee + 1 /\ quote \in Quote
BY DEF Prices, AmountsAreReal, QuoteInv, QuoteTypes, Money, ChangeFee

\* A payment that the wallet can build passes the check of the balance, unless that is lower.
LEMMA PrepareLiquidQuotes ==
  ASSUME Prices, QuoteInv, NEW a \in Amounts, PrepareLiquid(a)
  PROVE  QuoteInv'
<1>1. PICK f \in build_tx_or_drain_tx(a) :
         QuotedSend([NoQuote EXCEPT !.kind = "liquid", !.receiver = a, !.fees = f])
  BY DEF PrepareLiquid
<1> DEFINE q == [NoQuote EXCEPT !.kind = "liquid", !.receiver = a, !.fees = f]
<1>2. a \in Nat /\ f \in Nat
  BY QuoteNumbers, BuildFits DEF Prices, AmountsAreReal
<1>3. q \in Quote
  BY <1>2 DEF NoQuote, Quote, PriceKinds
<1>4. q.kind = "liquid" /\ q.receiver = a /\ q.fees = f
  BY DEF NoQuote
<1>5. Quoted(q) /\ validate_sufficient_funds(a, f)
  BY <1>1, <1>4 DEF QuotedSend
<1> HIDE DEF q
<1>6. QuoteIsPayable(q)
  BY <1>2, <1>4, <1>5 DEF QuoteIsPayable, pay_liquid_onchain
<1> QED BY <1>3, <1>4, <1>5, <1>6, QuotedKeeps DEF OfInvoice

\* What is left after the fee is the whole balance.
LEMMA PrepareLiquidDrainQuotes ==
  ASSUME Prices, QuoteInv, PrepareLiquidDrain
  PROVE  QuoteInv'
<1>1. PICK f \in build_drain_tx :
         QuotedSend([NoQuote EXCEPT !.kind = "liquid", !.drain = TRUE, !.receiver = Minus(info.balance, f), !.fees = f])
  BY DEF PrepareLiquidDrain
<1> DEFINE a == Minus(info.balance, f)
           q == [NoQuote EXCEPT !.kind = "liquid", !.drain = TRUE, !.receiver = a, !.fees = f]
<1>2. f = DrainFee /\ f \in Nat /\ f < wallet
  BY QuoteNumbers, DrainFits
<1>3. a \in Money /\ a \in Nat /\ (f <= info.balance => a = info.balance - f)
  BY <1>2, QuoteNumbers, MinusIsLess, MoneyIsNat
<1>4. q \in Quote
  <2> HIDE DEF a
  <2> QED BY <1>2, <1>3 DEF NoQuote, Quote, PriceKinds
<1>5. q.kind = "liquid" /\ q.receiver = a /\ q.fees = f
  BY DEF NoQuote
<1>6. Quoted(q) /\ validate_sufficient_funds(a, f)
  BY <1>1, <1>5 DEF QuotedSend
<1> HIDE DEF q
<1>7. ASSUME info.balance = wallet PROVE f \in build_tx_or_drain_tx(a)
  <2>1. a + f = wallet
    BY <1>2, <1>3, <1>7, QuoteNumbers
  <2> QED BY <2>1 DEF build_tx_or_drain_tx
<1>8. ASSUME info.balance = wallet PROVE QuoteIsPayable(q)
  BY <1>2, <1>5, <1>6, <1>7, <1>8 DEF QuoteIsPayable, pay_liquid_onchain
<1> QED BY <1>4, <1>5, <1>6, <1>8, QuotedKeeps DEF OfInvoice

\* A quote over the amount of an invoice, whose fees are those of a swap: it can be paid by a swap, or directly
\* to the address of a hint, which costs no more.
LEMMA SwapQuoteIsPayable ==
  ASSUME Prices, QuoteInv, NEW q \in Quote,
         q.kind \in {"bolt11", "bolt12"}, q.receiver = q.invoice, within(pair, q.invoice),
         NEW f \in build_tx_or_drain_tx(q.invoice + total(pair, q.invoice)),
         q.fees = total(pair, q.invoice) + f, info.balance = wallet
  PROVE  QuoteIsPayable(q)
<1> DEFINE a == q.invoice
           T == total(pair, a)
<1>1. a \in Nat
  BY DEF Quote
<1>2. T \in Nat
  BY <1>1, QuoteNumbers, FeeNumbers
<1>3. T # 1
  <2>1. a \in pair.minimal..pair.maximal
    BY <1>1, QuoteNumbers, PairNumbers DEF within
  <2> QED BY <2>1, QuoteNumbers DEF PairsAreReal
<1>4. f \in {DrainFee, ChangeFee} /\ f \in Nat /\ a + T + f <= wallet
  <2> a + T \in Nat
    BY <1>1, <1>2
  <2> QED BY QuoteNumbers, BuildFits
<1>5. pay_liquid_onchain(a, T + f) # {}
  <2> HIDE DEF a, T
  <2>1. CASE T = 0
    <3>1. f \in build_tx_or_drain_tx(a)
      BY <1>1, <2>1, a + T = a DEF a, T
    <3> QED BY <1>4, <2>1, <3>1 DEF pay_liquid_onchain
  <2>2. CASE T >= 2
    <3>1. a + ChangeFee < wallet /\ ChangeFee <= T + f
      BY <1>1, <1>2, <1>4, <2>2, QuoteNumbers
    <3>2. ChangeFee \in build_tx(a)
      BY <3>1 DEF build_tx
    <3> QED BY <3>1, <3>2 DEF pay_liquid_onchain, build_tx_or_drain_tx
  <2> QED BY <1>2, <1>3, <2>1, <2>2
<1>6. a + q.fees <= info.balance
  <2> HIDE DEF a, T
  <2> QED BY <1>1, <1>2, <1>4, QuoteNumbers DEF a, T
<1> QED BY <1>5, <1>6 DEF QuoteIsPayable

\* A quote for a payment to the address of a hint.
LEMMA HintQuoteIsPayable ==
  ASSUME Prices, QuoteInv, NEW q \in Quote, q.kind = "bolt11", q.mrh,
         NEW f \in build_tx_or_drain_tx(q.receiver), q.fees = f, info.balance = wallet
  PROVE  QuoteIsPayable(q)
<1>1. q.receiver \in Nat /\ q.invoice \in Nat
  BY DEF Quote
<1>2. f \in Nat /\ q.receiver + f <= wallet
  BY <1>1, QuoteNumbers, BuildFits
<1>3. f \in pay_liquid_onchain(q.receiver, q.fees)
  BY <1>2 DEF pay_liquid_onchain
<1>4. q.invoice <= q.receiver => q.invoice + q.fees <= info.balance
  BY <1>1, <1>2, QuoteNumbers
<1> QED BY <1>3, <1>4 DEF QuoteIsPayable

\* A quote over an amount plus the fees of its swap.
LEMMA QuotedSwapQuotes ==
  ASSUME Prices, QuoteInv, NEW a \in Amounts, within(pair, a), NEW o \in Quote,
         o.kind \in {"bolt11", "bolt12"}, o.invoice = a, QuotedSwap(o, a)
  PROVE  QuoteInv'
<1>0. PICK f \in build_tx_or_drain_tx(a + total(pair, a)) :
        QuotedSend([o EXCEPT !.receiver = a, !.boltz = total(pair, a), !.fees = total(pair, a) + f])
  BY DEF QuotedSwap
<1> DEFINE T == total(pair, a)
           q == [o EXCEPT !.receiver = a, !.boltz = T, !.fees = T + f]
<1>1. a \in Nat /\ T \in Nat
  BY QuoteNumbers, FeeNumbers DEF Prices, AmountsAreReal
<1>2. f \in Nat
  <2> a + T \in Nat
    BY <1>1
  <2> QED BY QuoteNumbers, BuildFits
<1>3. q \in Quote
  <2>1. T + f \in Nat
    <3> HIDE DEF T
    <3> QED BY <1>1, <1>2
  <2> DEFINE fees == T + f
  <2> HIDE DEF T, fees
  <2> QED BY <1>1, <2>1 DEF Quote, fees
<1>4. q.kind = o.kind /\ q.receiver = a /\ q.invoice = a /\ q.fees = T + f
  BY DEF Quote
<1>5. Quoted(q)
  BY <1>0 DEF QuotedSend
<1> HIDE DEF q
<1>6. ASSUME info.balance = wallet PROVE QuoteIsPayable(q)
  BY <1>3, <1>4, <1>6, SwapQuoteIsPayable
<1>7. OfInvoice(q)
  BY <1>4 DEF OfInvoice
<1> QED BY <1>3, <1>5, <1>6, <1>7, QuotedKeeps

\* An invoice is paid to the address of its hint, or by a swap.
LEMMA PrepareBolt11Quotes ==
  ASSUME Prices, QuoteInv, NEW a \in Amounts, NEW mrh \in BOOLEAN, NEW drain \in BOOLEAN, PrepareBolt11(a, mrh, drain)
  PROVE  QuoteInv'
<1> DEFINE o == [NoQuote EXCEPT !.kind = "bolt11", !.mrh = mrh, !.drain = drain, !.invoice = a]
<1>1. a \in Nat /\ within(pair, a)
  BY DEF Prices, AmountsAreReal, PrepareBolt11
<1>2. ASSUME NEW r \in Nat, mrh, NEW f \in build_tx_or_drain_tx(r), drain \/ r = a,
             QuotedSend([o EXCEPT !.receiver = r, !.fees = f])
      PROVE  QuoteInv'
  <2> DEFINE q == [o EXCEPT !.receiver = r, !.fees = f]
  <2>1. f \in Nat
    BY QuoteNumbers, BuildFits
  <2>2. q \in Quote
    BY <1>1, <2>1 DEF NoQuote, Quote, PriceKinds
  <2>3. q.kind = "bolt11" /\ q.mrh = mrh /\ q.drain = drain /\ q.invoice = a /\ q.receiver = r /\ q.fees = f
    BY DEF NoQuote
  <2>4. Quoted(q)
    BY <1>2 DEF QuotedSend
  <2> HIDE DEF q
  <2>5. ASSUME info.balance = wallet PROVE QuoteIsPayable(q)
    BY <1>2, <2>2, <2>3, <2>5, HintQuoteIsPayable
  <2>6. OfInvoice(q)
    BY <1>2, <2>3 DEF OfInvoice
  <2> QED BY <2>2, <2>4, <2>5, <2>6, QuotedKeeps
<1>3. CASE mrh /\ drain
  <2>1. PICK f \in build_drain_tx : QuotedSend([o EXCEPT !.receiver = Minus(info.balance, f), !.fees = f])
    BY <1>3 DEF PrepareBolt11
  <2> DEFINE r == Minus(info.balance, f)
             q == [o EXCEPT !.receiver = r, !.fees = f]
  <2>2. f = DrainFee /\ f \in Nat /\ f < wallet
    BY QuoteNumbers, DrainFits
  <2>3. r \in Nat /\ (f <= info.balance => r = info.balance - f)
    BY <2>2, QuoteNumbers, MinusIsLess, MoneyIsNat
  <2>4. q \in Quote
    <3> HIDE DEF r
    <3> QED BY <1>1, <2>2, <2>3 DEF NoQuote, Quote, PriceKinds
  <2>5. q.kind = "bolt11" /\ q.mrh = mrh /\ q.drain = drain /\ q.invoice = a /\ q.receiver = r /\ q.fees = f
    BY DEF NoQuote
  <2>6. Quoted(q)
    BY <2>1 DEF QuotedSend
  <2> HIDE DEF q
  <2>7. ASSUME info.balance = wallet PROVE QuoteIsPayable(q)
    <3>1. r + f = wallet
      BY <2>2, <2>3, <2>7, QuoteNumbers
    <3>2. f \in build_tx_or_drain_tx(q.receiver)
      BY <2>5, <3>1 DEF build_tx_or_drain_tx
    <3> QED BY <1>3, <2>4, <2>5, <2>7, <3>2, HintQuoteIsPayable
  <2>8. OfInvoice(q)
    BY <1>3, <2>5 DEF OfInvoice
  <2> QED BY <2>4, <2>6, <2>7, <2>8, QuotedKeeps
<1>4. CASE mrh /\ ~drain
  BY <1>1, <1>2, <1>4 DEF PrepareBolt11
<1>5. CASE ~mrh
  <2>1. QuotedSwap(o, a)
    BY <1>5 DEF PrepareBolt11
  <2>2. o \in Quote /\ o.kind = "bolt11" /\ o.invoice = a
    BY <1>1 DEF NoQuote, Quote, PriceKinds
  <2> HIDE DEF o
  <2> QED BY <1>1, <2>1, <2>2, QuotedSwapQuotes
<1> QED BY <1>3, <1>4, <1>5

LEMMA PrepareBolt12Quotes ==
  ASSUME Prices, QuoteInv, NEW a \in Amounts, NEW mrh \in BOOLEAN, PrepareBolt12(a, mrh)
  PROVE  QuoteInv'
<1> DEFINE o == [NoQuote EXCEPT !.kind = "bolt12", !.mrh = mrh, !.invoice = a]
<1>1. QuotedSwap(o, a) /\ within(pair, a) /\ a \in Nat
  BY DEF PrepareBolt12, Prices, AmountsAreReal
<1>2. o \in Quote /\ o.kind = "bolt12" /\ o.invoice = a
  BY <1>1 DEF NoQuote, Quote, PriceKinds
<1> HIDE DEF o
<1> QED BY <1>1, <1>2, QuotedSwapQuotes

\* What a drained swap delivers is a number.
LEMMA IncrementedNumbers ==
  ASSUME NEW a \in Nat, NEW drained \in Nat, NEW n \in increment_receiver_amount(a, drained)
  PROVE  n \in Nat
BY DEF increment_receiver_amount

\* A drain of a swap: the amount and the fees of the swap make up what the lockup leaves of the wallet.
LEMMA PrepareBolt12DrainQuotes ==
  ASSUME Prices, QuoteInv, NEW mrh \in BOOLEAN, PrepareBolt12Drain(mrh)
  PROVE  QuoteInv'
<1>1. PICK f \in build_drain_tx :
        LET drained == Minus(info.balance, f)
            dummy == Minus(drained, total(pair, drained))
        IN \E a \in increment_receiver_amount(dummy, drained) :
             /\ within(pair, a)
             /\ a + total(pair, a) = drained
             /\ QuotedSend([kind |-> "bolt12", drain |-> TRUE, mrh |-> mrh, invoice |-> a, receiver |-> a,
                            boltz |-> total(pair, a), claim |-> 0, fees |-> total(pair, a) + f])
  BY DEF PrepareBolt12Drain
<1> DEFINE drained == Minus(info.balance, f)
           dummy == Minus(drained, total(pair, drained))
<1>2. PICK a \in increment_receiver_amount(dummy, drained) :
             /\ within(pair, a)
             /\ a + total(pair, a) = drained
             /\ QuotedSend([kind |-> "bolt12", drain |-> TRUE, mrh |-> mrh, invoice |-> a, receiver |-> a,
                            boltz |-> total(pair, a), claim |-> 0, fees |-> total(pair, a) + f])
  BY <1>1
<1>3. f = DrainFee /\ f \in Nat /\ f < wallet
  BY QuoteNumbers, DrainFits
<1>4. drained \in Money /\ (f <= info.balance => drained = info.balance - f)
  BY <1>3, QuoteNumbers, MinusIsLess
<1>5. a \in Nat
  <2> HIDE DEF drained
  <2>1. drained \in Nat /\ total(pair, drained) \in Nat
    BY <1>4, MoneyIsNat, QuoteNumbers, FeeNumbers
  <2>2. dummy \in Nat
    BY <1>4, <2>1, MinusIsLess, MoneyIsNat
  <2> HIDE DEF dummy
  <2> QED BY <1>2, <2>1, <2>2, IncrementedNumbers
<1> HIDE DEF drained, dummy
<1> DEFINE T == total(pair, a)
           q == [kind |-> "bolt12", drain |-> TRUE, mrh |-> mrh, invoice |-> a, receiver |-> a,
                 boltz |-> T, claim |-> 0, fees |-> T + f]
<1>6. T \in Nat
  BY <1>5, QuoteNumbers, FeeNumbers
<1>7. q \in Quote
  BY <1>3, <1>5, <1>6 DEF Quote, PriceKinds
<1>8. q.kind = "bolt12" /\ q.receiver = a /\ q.invoice = a /\ q.fees = T + f
  OBVIOUS
<1>9. Quoted(q)
  BY <1>2 DEF QuotedSend
<1> HIDE DEF q
<1>10. ASSUME info.balance = wallet PROVE QuoteIsPayable(q)
  <2>1. a + T + f = wallet
    BY <1>2, <1>3, <1>4, <1>5, <1>6, <1>10, QuoteNumbers
  <2>2. f \in build_tx_or_drain_tx(a + T)
    BY <2>1 DEF build_tx_or_drain_tx
  <2> QED BY <1>2, <1>7, <1>8, <1>10, <2>2, SwapQuoteIsPayable
<1>11. OfInvoice(q)
  BY <1>8 DEF OfInvoice
<1> QED BY <1>7, <1>9, <1>10, <1>11, QuotedKeeps

LEMMA PrepareLnUrlPayDrainQuotes ==
  ASSUME Prices, QuoteInv, NEW mrh \in BOOLEAN, PrepareLnUrlPayDrain(mrh)
  PROVE  QuoteInv'
<1>1. PICK a \in Amounts : PrepareBolt11(a, mrh, TRUE)
  BY DEF PrepareLnUrlPayDrain
<1> QED BY <1>1, PrepareBolt11Quotes

\* The quote of a chain swap names the fee of a transaction with change: it is less than the whole balance.
LEMMA PreparePayOnchainQuotes ==
  ASSUME Prices, QuoteInv, NEW a \in Amounts, PreparePayOnchain(a)
  PROVE  QuoteInv'
<1>0. PICK c \in claim_fees :
        LET service == ServiceFees(a, c) IN
        /\ within(pair, a + service)
        /\ \E f \in build_tx(a + service) :
             /\ a + service + f <= info.balance
             /\ Quoted([NoQuote EXCEPT !.kind = "onchain", !.receiver = a, !.boltz = service, !.claim = c,
                        !.fees = service + f])
  BY DEF PreparePayOnchain
<1> DEFINE S == ServiceFees(a, c)
<1>1. PICK f \in build_tx(a + S) :
        /\ a + S + f <= info.balance
        /\ Quoted([NoQuote EXCEPT !.kind = "onchain", !.receiver = a, !.boltz = S, !.claim = c, !.fees = S + f])
  BY <1>0
<1> DEFINE q == [NoQuote EXCEPT !.kind = "onchain", !.receiver = a, !.boltz = S, !.claim = c, !.fees = S + f]
<1>c. c \in Nat
  BY QuoteNumbers, ClaimIsPaid
<1>2. a \in Nat /\ S \in Nat
  BY <1>c, QuoteNumbers, ServiceFeeNumbers DEF Prices, AmountsAreReal
<1>3. f \in Nat /\ f = ChangeFee /\ a + S + f < wallet
  BY <1>2, QuoteNumbers DEF build_tx
<1>4. q \in Quote
  <2>1. S + f \in Nat
    <3> HIDE DEF S
    <3> QED BY <1>2, <1>3
  <2> DEFINE fees == S + f
  <2> HIDE DEF S, fees
  <2> QED BY <1>c, <1>2, <2>1 DEF NoQuote, Quote, PriceKinds, fees
<1>5. q.kind = "onchain" /\ ~q.drain /\ q.receiver = a /\ q.claim = c /\ q.fees = S + f
  BY DEF NoQuote
<1>6. within(pair, a + S)
  BY <1>0
<1> HIDE DEF q
<1>7. ASSUME info.balance = wallet PROVE QuoteIsPayable(q)
  <2>1. q.receiver + q.fees <= info.balance /\ q.receiver + q.fees # info.balance
    <3> HIDE DEF S
    <3> QED BY <1>1, <1>2, <1>3, <1>5, <1>7, QuoteNumbers
  <2>2. q.fees \in PayableFees(q)
    BY <1>1, <1>5, <2>1 DEF PayableFees
  <2> QED BY <1>5, <1>6, <2>1, <2>2 DEF QuoteIsPayable
<1> QED BY <1>1, <1>4, <1>5, <1>7, QuotedKeeps DEF OfInvoice, q

\* The quote of a drain is computed from the lockup, and checked from the amount.
LEMMA PreparePayOnchainDrainQuotes ==
  ASSUME Prices, QuoteInv, PreparePayOnchainDrain
  PROVE  QuoteInv'
<1>1. PICK f \in build_drain_tx, c \in claim_fees :
        LET lockup == Minus(info.balance, f)
            service == boltz(pair, lockup) + c + pair.server
        IN /\ within(pair, lockup)
           /\ Quoted([NoQuote EXCEPT !.kind = "onchain", !.drain = TRUE, !.receiver = lockup - service,
                      !.boltz = service, !.claim = c, !.fees = service + f])
  BY DEF PreparePayOnchainDrain
<1> DEFINE L == Minus(info.balance, f)
           S == boltz(pair, L) + c + pair.server
           a == L - S
           fees == S + f
           q == [NoQuote EXCEPT !.kind = "onchain", !.drain = TRUE, !.receiver = a, !.boltz = S, !.claim = c,
                !.fees = fees]
<1>2. f = DrainFee /\ f \in Nat /\ f < wallet
  BY QuoteNumbers, DrainFits
<1>3. L \in Nat /\ (f <= info.balance => L = info.balance - f)
  BY <1>2, QuoteNumbers, MinusIsLess, MoneyIsNat
<1>c. c \in Nat
  BY QuoteNumbers, ClaimIsPaid
<1>4. S \in Nat /\ S < L
  <2>1. within(pair, L)
    BY <1>1
  <2> HIDE DEF L
  <2> QED BY <1>3, <1>c, <2>1, QuoteNumbers, FeeNumbers, PairNumbers, ClaimIsPaid
<1>5. a \in Nat /\ fees \in Nat /\ a + fees = L + f
  <2> HIDE DEF S, L
  <2> QED BY <1>2, <1>3, <1>4
<1>6. Quoted(q)
  BY <1>1
<1>7. q \in Quote
  <2> HIDE DEF a, S, fees
  <2> QED BY <1>4, <1>5, <1>c DEF NoQuote, Quote, PriceKinds
<1>8. q.kind = "onchain" /\ q.drain /\ q.receiver = a /\ q.claim = c /\ q.fees = fees
  BY DEF NoQuote
<1>9. ServiceFees(a, c) <= S /\ S <= ServiceFees(a, c) + 1
  <2> HIDE DEF L
  <2> QED BY <1>3, <1>4, <1>c, QuoteNumbers, DrainRoundsOnce
<1> HIDE DEF q
<1>10. ASSUME info.balance = wallet PROVE QuoteIsPayable(q)
  <2>1. q.receiver + q.fees = info.balance
    <3> HIDE DEF L, S, a, fees
    <3> QED BY <1>2, <1>3, <1>5, <1>8, <1>10, QuoteNumbers
  <2>2. ServiceFees(a, c) + f \in PayableFees(q)
    BY <1>8, <2>1 DEF PayableFees
  <2>3. ServiceFees(a, c) \in Nat
    <3> HIDE DEF a
    <3> QED BY <1>5, <1>c, QuoteNumbers, ServiceFeeNumbers
  <2>4. ServiceFees(a, c) + f <= fees /\ fees <= ServiceFees(a, c) + f + 1
    <3> HIDE DEF L, S, a
    <3> QED BY <1>2, <1>4, <1>9, <2>3
  <2> QED BY <1>8, <2>2, <2>4 DEF QuoteIsPayable
<1> QED BY <1>6, <1>7, <1>8, <1>10, QuotedKeeps DEF OfInvoice

\* A quote to receive is not paid from the wallet.
LEMMA PrepareReceiveQuotes ==
  ASSUME Prices, QuoteInv, NEW a \in Amounts, NEW way \in {"lightning", "address"}, PrepareReceive(way, a)
  PROVE  QuoteInv'
<1> DEFINE fees == IF way = "lightning" THEN total(pair, a) ELSE boltz(pair, a) + pair.claim + pair.server
           q == [NoQuote EXCEPT !.kind = way, !.receiver = a, !.fees = fees]
<1>1. a \in Nat
  BY DEF Prices, AmountsAreReal
<1>2. fees \in Nat
  BY <1>1, QuoteNumbers, FeeNumbers, PairNumbers
<1>3. Quoted(q)
  BY DEF PrepareReceive
<1>4. q \in Quote
  <2> HIDE DEF fees
  <2> QED BY <1>1, <1>2 DEF NoQuote, Quote, PriceKinds
<1>5. q.kind \in {"lightning", "address"}
  BY DEF NoQuote
<1> HIDE DEF q
<1>6. QuoteIsPayable(q)
  BY <1>5 DEF QuoteIsPayable
<1> QED BY <1>3, <1>4, <1>5, <1>6, QuotedKeeps DEF OfInvoice

-----------------------------------------------------------------------------
(* Each payment keeps to its quote *)

\* A step that forgets that the quote is fresh.
LEMMA NotFresh == ASSUME fresh' = FALSE PROVE PreparedIsPayable'
  BY DEF PreparedIsPayable

\* A payment out of the wallet.
LEMMA LeavesKeeps ==
  ASSUME Prices, QuoteInv, NEW a \in Nat, NEW f \in build_tx_or_drain_tx(a), NEW way \in PaidKinds,
         NEW q \in Quote, Leaves(a, f, way, q), UNCHANGED <<info, pair, quote, accepted, changes>>
  PROVE  /\ wallet' \in Money
         /\ paid' \in [kind : PaidKinds, quote : Quote, amount : Int, fee : Nat, balance : Nat]
         /\ paid'.kind = way /\ paid'.quote = q /\ paid'.amount = a /\ paid'.fee = f
         /\ paid'.balance = info.balance
         /\ QuoteIsOfInvoice' /\ PreparedIsPayable'
<1>1. f \in Nat /\ wallet - a - f \in Money
  BY QuoteNumbers, BuildFits
<1>2. QuoteIsOfInvoice'
  BY DEF QuoteInv, QuoteIsOfInvoice
<1>3. PreparedIsPayable'
  BY NotFresh DEF Leaves
<1> QED BY <1>1, <1>2, <1>3, QuoteNumbers DEF Leaves

\* The rest of a payment that does not go over a swap.
LEMMA DirectKeeps ==
  ASSUME Prices, QuoteInv, NEW a \in Nat, NEW f \in build_tx_or_drain_tx(a), NEW way \in {"direct", "drained"},
         Leaves(a, f, way, quote), UNCHANGED <<info, pair, quote, swaps, sending, accepted, changes>>,
         way = "direct" => a = quote.receiver /\ f <= quote.fees,
         way = "drained" => a + f <= info.balance
  PROVE  QuoteInv'
<1>1. way \in PaidKinds /\ quote \in Quote
  BY QuoteNumbers DEF PaidKinds
<1>2. /\ wallet' \in Money
      /\ paid' \in [kind : PaidKinds, quote : Quote, amount : Int, fee : Nat, balance : Nat]
      /\ paid'.kind = way /\ paid'.quote = quote /\ paid'.amount = a /\ paid'.fee = f
      /\ paid'.balance = info.balance
      /\ QuoteIsOfInvoice' /\ PreparedIsPayable'
  BY <1>1, LeavesKeeps
<1>3. QuoteTypes'
  BY <1>2 DEF QuoteInv, QuoteTypes, Leaves
<1>4. SwapsAreAccepted'
  BY DEF QuoteInv, SwapsAreAccepted
<1>5. KeepsToQuote'
  BY <1>2 DEF QuoteInv, KeepsToQuote
<1> QED BY <1>2, <1>3, <1>4, <1>5 DEF QuoteInv

LEMMA PayLiquidKeeps == ASSUME Prices, QuoteInv, PayLiquid PROVE QuoteInv'
<1>1. PICK f \in pay_liquid_onchain(quote.receiver, quote.fees) : Leaves(quote.receiver, f, "direct", quote)
  BY DEF PayLiquid
<1>2. f \in build_tx_or_drain_tx(quote.receiver) /\ f <= quote.fees
  BY DEF pay_liquid_onchain
<1>3. quote.receiver \in Nat
  BY QuoteNumbers DEF Quote
<1> QED BY <1>1, <1>2, <1>3, DirectKeeps DEF PayLiquid

\* The amount of a drain wraps around when the balance is less than the fee: no transaction can pay it.
LEMMA PayHintedKeeps == ASSUME Prices, QuoteInv, PayHinted PROVE QuoteInv'
<1>1. CASE ~quote.drain
  <2>1. PICK f \in pay_liquid_onchain(quote.invoice, quote.fees) : Leaves(quote.invoice, f, "direct", quote)
    BY <1>1 DEF PayHinted
  <2>2. f \in build_tx_or_drain_tx(quote.invoice) /\ f <= quote.fees
    BY DEF pay_liquid_onchain
  <2>3. quote.invoice \in Nat /\ quote.receiver = quote.invoice
    BY <1>1, QuoteNumbers DEF Quote, QuoteInv, QuoteIsOfInvoice, PayHinted
  <2> QED BY <2>1, <2>2, <2>3, DirectKeeps DEF PayHinted
<1>2. CASE quote.drain
  <2>1. PICK d \in build_drain_tx :
          \E f \in pay_liquid_onchain(Minus(info.balance, d), d) : Leaves(Minus(info.balance, d), f, "drained", quote)
    BY <1>2 DEF PayHinted
  <2> DEFINE a == Minus(info.balance, d)
  <2>2. PICK f \in pay_liquid_onchain(a, d) : Leaves(a, f, "drained", quote)
    BY <2>1
  <2>3. d = DrainFee /\ d \in Nat /\ d < wallet
    BY QuoteNumbers, DrainFits
  <2>4. /\ a \in Nat
        /\ d <= info.balance => a = info.balance - d
        /\ info.balance < d => a = info.balance + 2^Width - d
    <3> d < 2^Width
      BY <2>3, QuoteNumbers
    <3> QED BY <2>3, QuoteNumbers, MinusIsLess, MoneyIsNat
  <2> HIDE DEF a
  <2>5. f \in build_tx_or_drain_tx(a) /\ f <= d
    BY DEF pay_liquid_onchain
  <2>6. f = d /\ a + f <= wallet
    BY <2>3, <2>4, <2>5, QuoteNumbers, BuildFits
  <2>7. a + f <= info.balance
    <3> DEFINE M == 2^Width
    <3> M \in Nat /\ wallet < M
      BY QuoteNumbers
    <3>1. info.balance < d => a = info.balance + M - d
      BY <2>4
    <3> HIDE DEF M
    <3> QED BY <2>3, <2>4, <2>6, <3>1, QuoteNumbers
  <2> QED BY <2>2, <2>4, <2>5, <2>7, DirectKeeps DEF PayHinted
<1> QED BY <1>1, <1>2, QuoteNumbers DEF Quote

\* The lockup of a new swap is the quote without the fee of its transaction; the one of a swap used again was
\* accepted with an earlier quote.
LEMMA SendPaymentViaSwapKeeps == ASSUME Prices, QuoteInv, SendPaymentViaSwap PROVE QuoteInv'
<1> DEFINE a == quote.invoice
           new == a + total(pair, a)
           used == quote.kind = "bolt11" /\ swaps[a].state \in {"Created", "TimedOut"}
           amount == IF used THEN swaps[a].expected ELSE new
<1>1. a \in Nat /\ quote.fees \in Nat /\ quote.receiver = a
  BY QuoteNumbers DEF Quote, QuoteInv, QuoteIsOfInvoice, SendPaymentViaSwap
<1>2. total(pair, a) \in Nat /\ new \in Nat
  <2> total(pair, a) \in Nat
    BY <1>1, QuoteNumbers, FeeNumbers
  <2> QED BY <1>1
<1>3. PICK f \in build_tx_or_drain_tx(new) : quote.fees = total(pair, a) + f
  BY DEF SendPaymentViaSwap, SwapFeesHold
<1>4. new + DrainFee <= Allowed(quote) /\ Allowed(quote) \in Nat
  <2> DEFINE T == total(pair, a)
  <2>1. f \in Nat /\ f \in {DrainFee, ChangeFee}
    <3> HIDE DEF new
    <3> QED BY <1>2, <1>3, QuoteNumbers, BuildFits
  <2>2. Allowed(quote) = a + (T + f)
    BY <1>1, <1>3 DEF Allowed
  <2> HIDE DEF T, a
  <2> QED BY <1>1, <1>2, <2>1, <2>2, QuoteNumbers DEF T
<1>5. /\ sending' = [kind |-> quote.kind, amount |-> amount, quote |-> quote]
      /\ quote.kind = "bolt11" =>
           /\ swaps' = [swaps EXCEPT ![a] = [state |-> "Created", expected |-> amount]]
           /\ accepted' = [accepted EXCEPT ![a] = IF Allowed(quote) > @ THEN Allowed(quote) ELSE @]
      /\ quote.kind # "bolt11" => UNCHANGED <<swaps, accepted>>
      /\ fresh' = FALSE
      /\ UNCHANGED <<wallet, info, pair, quote, paid, changes>>
  BY DEF SendPaymentViaSwap
<1>6. quote.kind = "bolt11" => a \in Amounts
  BY DEF QuoteInv, QuoteIsOfInvoice
<1>7. quote.kind = "bolt11" =>
        /\ swaps[a] \in [state : {"None", "Created", "TimedOut", "Pending"}, expected : Nat]
        /\ accepted[a] \in Nat
        /\ swaps[a].state \in {"Created", "TimedOut"} => swaps[a].expected + DrainFee <= accepted[a]
  BY <1>6 DEF QuoteInv, QuoteTypes, SwapsAreAccepted
<1>8. amount \in Nat
  BY <1>2, <1>7
<1>9. ASSUME quote.kind = "bolt11" PROVE /\ accepted'[a] \in Nat /\ amount + DrainFee <= accepted'[a]
                                         /\ swaps'[a] = [state |-> "Created", expected |-> amount]
  <2>1. a \in DOMAIN accepted /\ a \in DOMAIN swaps
    BY <1>6, <1>9 DEF QuoteInv, QuoteTypes
  <2>2. accepted'[a] = IF Allowed(quote) > accepted[a] THEN Allowed(quote) ELSE accepted[a]
    <3> HIDE DEF amount
    <3> QED BY <1>5, <1>9, <2>1
  <2>3. swaps'[a] = [state |-> "Created", expected |-> amount]
    <3> HIDE DEF amount
    <3> QED BY <1>5, <1>9, <2>1
  <2>4. (amount = swaps[a].expected /\ swaps[a].state \in {"Created", "TimedOut"}) \/ amount = new
    BY <1>9
  <2>5. accepted'[a] \in Nat /\ amount + DrainFee <= accepted'[a]
    <3> HIDE DEF amount, new, a
    <3> QED BY <1>2, <1>4, <1>7, <1>8, <1>9, <2>2, <2>4, QuoteNumbers
  <2> QED BY <2>3, <2>5
<1>10. quote.kind = "bolt12" => amount + DrainFee <= Allowed(quote)
  BY <1>4
<1> HIDE DEF amount
<1>11. quote.kind \in {"bolt11", "bolt12"}
  BY DEF SendPaymentViaSwap
<1>12. sending'.kind = quote.kind /\ sending'.amount = amount /\ sending'.quote = quote
  BY <1>5
<1>13. QuoteTypes'
  <2>1. sending' \in [kind : {"None", "bolt11", "bolt12", "onchain"}, amount : Nat, quote : Quote]
    BY <1>5, <1>8, <1>11, QuoteNumbers
  <2>2. swaps' \in [Amounts -> [state : {"None", "Created", "TimedOut", "Pending"}, expected : Nat]]
    BY <1>5, <1>8, <1>11 DEF QuoteInv, QuoteTypes
  <2>3. accepted' \in [Amounts -> Nat]
    <3>1. CASE quote.kind = "bolt11"
      <4> DEFINE m == IF Allowed(quote) > accepted[a] THEN Allowed(quote) ELSE accepted[a]
      <4>1. m \in Nat
        BY <1>4, <1>7, <3>1
      <4>2. accepted' = [accepted EXCEPT ![a] = m]
        BY <1>5, <3>1
      <4> HIDE DEF m
      <4> QED BY <4>1, <4>2 DEF QuoteInv, QuoteTypes
    <3> QED BY <1>5, <1>11, <3>1 DEF QuoteInv, QuoteTypes
  <2> QED BY <1>5, <2>1, <2>2, <2>3 DEF QuoteInv, QuoteTypes
<1>14. QuoteIsOfInvoice'
  BY <1>5 DEF QuoteInv, QuoteIsOfInvoice
<1>15. SwapsAreAccepted'
  <2>1. ASSUME NEW b \in Amounts, swaps'[b].state \in {"Created", "TimedOut"}
        PROVE  swaps'[b].expected + DrainFee <= accepted'[b]
    <3>1. CASE quote.kind = "bolt11" /\ b = a
      BY <1>9, <3>1
    <3>2. CASE ~(quote.kind = "bolt11" /\ b = a)
      <4>1. swaps'[b] = swaps[b] /\ accepted'[b] = accepted[b]
        BY <1>5, <1>11, <3>2 DEF QuoteInv, QuoteTypes
      <4> QED BY <2>1, <4>1 DEF QuoteInv, SwapsAreAccepted
    <3> QED BY <3>1, <3>2
  <2>2. (sending.kind = "bolt11" => sending.quote.invoice \in Amounts)'
    BY <1>6, <1>12
  <2> QED BY <2>1, <2>2 DEF SwapsAreAccepted
<1>16. KeepsToQuote'
  <2>1. (sending.kind = "bolt11" => sending.amount + DrainFee <= accepted[sending.quote.invoice])'
    BY <1>9, <1>12
  <2>2. (sending.kind \in {"bolt12", "onchain"} => sending.amount + DrainFee <= Allowed(sending.quote))'
    BY <1>10, <1>11, <1>12 DEF Allowed
  <2> QED BY <1>5, <2>1, <2>2 DEF QuoteInv, KeepsToQuote
<1>17. PreparedIsPayable'
  BY <1>5, NotFresh
<1> QED BY <1>13, <1>14, <1>15, <1>16, <1>17 DEF QuoteInv

\* The fees of a chain swap that were checked again are those of its lockup.
LEMMA PayOnchainKeeps == ASSUME Prices, QuoteInv, PayOnchain PROVE QuoteInv'
<1> DEFINE a == quote.receiver
           S == ServiceFees(a, quote.claim)
<1>1. a \in Nat /\ quote.fees \in Nat /\ S \in Nat
  <2> a \in Nat /\ quote.fees \in Nat /\ quote.claim \in Nat
    BY QuoteNumbers DEF Quote
  <2> QED BY QuoteNumbers, ServiceFeeNumbers
<1>2. PICK f \in {DrainFee, ChangeFee} : quote.fees = S + f
  BY DEF PayOnchain, OnchainFeesHold, OnchainFees, build_drain_tx, build_tx
<1>3. sending' = [kind |-> "onchain", amount |-> a + S, quote |-> quote]
  BY DEF PayOnchain, QuotedLockup
<1>4. UNCHANGED <<wallet, info, pair, quote, swaps, paid, accepted, changes>> /\ fresh' = FALSE
  BY DEF PayOnchain
<1>5. a + S \in Nat /\ a + S + DrainFee <= Allowed(quote)
  <2> DEFINE T == ServiceFees(a, quote.claim)
             b == quote.receiver
  <2>1. b \in Nat /\ T \in Nat /\ Allowed(quote) = b + (T + f) /\ a = b /\ S = T
    BY <1>1, <1>2 DEF Allowed
  <2> HIDE DEF T, a, b, S
  <2> QED BY <2>1, QuoteNumbers
<1> HIDE DEF S
<1>6. sending'.kind = "onchain" /\ sending'.amount = a + S /\ sending'.quote = quote
  BY <1>3
<1>7. QuoteTypes'
  BY <1>3, <1>4, <1>5, QuoteNumbers DEF QuoteInv, QuoteTypes
<1>8. QuoteIsOfInvoice' /\ SwapsAreAccepted'
  BY <1>4, <1>6 DEF QuoteInv, QuoteIsOfInvoice, SwapsAreAccepted
<1>9. KeepsToQuote'
  BY <1>4, <1>5, <1>6 DEF QuoteInv, KeepsToQuote, Allowed
<1> QED BY <1>4, <1>7, <1>8, <1>9, NotFresh DEF QuoteInv

\* The lockup leaves the wallet, or it cannot be built.
LEMMA LockupKeeps == ASSUME Prices, QuoteInv, Lockup PROVE QuoteInv'
<1>1. /\ sending' = Nowhere
      /\ UNCHANGED <<info, pair, quote, accepted, changes>>
  BY DEF Lockup
<1>2. /\ sending'.kind = "None"
      /\ sending' \in [kind : {"None", "bolt11", "bolt12", "onchain"}, amount : Nat, quote : Quote]
  BY <1>1 DEF Nowhere, NoQuote, Quote, PriceKinds
<1>3. CASE UNCHANGED <<wallet, fresh, paid, swaps>>
  <2>1. QuoteTypes' /\ QuoteIsOfInvoice' /\ SwapsAreAccepted'
    BY <1>1, <1>2, <1>3 DEF QuoteInv, QuoteTypes, QuoteIsOfInvoice, SwapsAreAccepted
  <2>2. KeepsToQuote'
    BY <1>1, <1>2, <1>3 DEF QuoteInv, KeepsToQuote
  <2>3. PreparedIsPayable'
    <3>1. fresh' => QuoteIsPayable(quote)
      BY <1>3, PreparedMeansPayable DEF QuoteInv
    <3>2. QuoteIsPayable(quote) => QuoteIsPayable(quote)'
      BY <1>1, <1>3 DEF QuoteIsPayable, PayableFees, validate_sufficient_funds, pay_liquid_onchain, build_tx_or_drain_tx,
         build_tx, build_drain_tx, within, total, boltz, ServiceFees, user_lockup_amount
    <3>3. (fresh => QuoteIsPayable(quote))'
      BY <3>1, <3>2
    <3> QED BY <3>3
       DEF QuoteIsPayable, PayableFees, PreparedIsPayable, Affordable, SwapFeesHold, OnchainFeesHold, OnchainFees, QuotedLockup
  <2> QED BY <2>1, <2>2, <2>3 DEF QuoteInv
<1>4. CASE /\ \E f \in build_tx_or_drain_tx(sending.amount) :
                Leaves(sending.amount, f, sending.kind, sending.quote)
           /\ swaps' = IF sending.kind = "bolt11"
                       THEN [swaps EXCEPT ![sending.quote.invoice].state = "Pending"] ELSE swaps
  <2>1. PICK f \in build_tx_or_drain_tx(sending.amount) :
               Leaves(sending.amount, f, sending.kind, sending.quote)
    BY <1>4
  <2>2. sending.amount \in Nat /\ sending.quote \in Quote /\ sending.kind \in {"None", "bolt11", "bolt12", "onchain"}
    BY DEF QuoteInv, QuoteTypes
  <2>3. sending.kind \in PaidKinds
    BY <2>2 DEF PaidKinds, PriceKinds
  <2>4. /\ wallet' \in Money
        /\ paid' \in [kind : PaidKinds, quote : Quote, amount : Int, fee : Nat, balance : Nat]
        /\ paid'.kind = sending.kind
        /\ QuoteIsOfInvoice' /\ PreparedIsPayable'
    BY <1>1, <2>1, <2>2, <2>3, LeavesKeeps
  <2>5. swaps' \in [Amounts -> [state : {"None", "Created", "TimedOut", "Pending"}, expected : Nat]]
    BY <1>4 DEF QuoteInv, QuoteTypes
  <2>6. QuoteTypes'
    BY <1>1, <1>2, <2>1, <2>4, <2>5 DEF QuoteInv, QuoteTypes, Leaves
  <2>7. ASSUME NEW b \in Amounts, swaps'[b].state \in {"Created", "TimedOut"} PROVE swaps'[b] = swaps[b]
    BY <1>4, <2>7 DEF QuoteInv, QuoteTypes
  <2>8. SwapsAreAccepted'
    BY <1>1, <1>2, <2>7 DEF QuoteInv, SwapsAreAccepted
  <2>9. KeepsToQuote'
    BY <1>2, <2>2, <2>4 DEF KeepsToQuote
  <2> QED BY <2>4, <2>6, <2>8, <2>9 DEF QuoteInv
<1> QED BY <1>3, <1>4 DEF Lockup

\* What is received is the quote without its fees.
LEMMA CreateReceiveSwapKeeps == ASSUME Prices, QuoteInv, CreateReceiveSwap PROVE QuoteInv'
<1> DEFINE fees == IF quote.kind = "lightning" THEN total(pair, quote.receiver)
                   ELSE boltz(pair, quote.receiver) + pair.claim + pair.server
<1>1. quote.kind \in {"lightning", "address"} /\ quote.fees = fees
  BY DEF CreateReceiveSwap
<1>2. paid' = [kind |-> quote.kind, quote |-> quote, amount |-> quote.receiver - fees, fee |-> fees, balance |-> 0]
  BY DEF CreateReceiveSwap
<1>3. UNCHANGED <<wallet, info, pair, quote, swaps, sending, accepted, changes>> /\ fresh' = FALSE
  BY DEF CreateReceiveSwap
<1> HIDE DEF fees
<1>4. quote.receiver \in Nat /\ quote.fees \in Nat
  BY QuoteNumbers DEF Quote
<1>5. paid' \in [kind : PaidKinds, quote : Quote, amount : Int, fee : Nat, balance : Nat]
  BY <1>1, <1>2, <1>4, QuoteNumbers DEF PaidKinds, PriceKinds
<1>6. QuoteTypes' /\ QuoteIsOfInvoice' /\ SwapsAreAccepted'
  BY <1>3, <1>5 DEF QuoteInv, QuoteTypes, QuoteIsOfInvoice, SwapsAreAccepted
<1>7. paid'.amount + paid'.quote.fees = paid'.quote.receiver /\ paid'.kind \in {"lightning", "address"}
  BY <1>1, <1>2, <1>4
<1>8. KeepsToQuote'
  BY <1>3, <1>7 DEF QuoteInv, KeepsToQuote
<1> QED BY <1>3, <1>6, <1>8, NotFresh DEF QuoteInv

\* The surroundings change no quote, and no payment.
LEMMA ChangesKeep ==
  ASSUME Prices, QuoteInv, WalletChanges \/ UpdateWalletInfo \/ PairChanges PROVE QuoteInv'
<1>1. /\ fresh' = FALSE /\ changes' = changes + 1
      /\ UNCHANGED <<quote, swaps, sending, paid, accepted>>
  BY DEF WalletChanges, UpdateWalletInfo, PairChanges, Changes
<1>2. Balances \subseteq Money
  BY DEF Prices, AmountsAreReal, Money
<1>3. wallet' \in Money
  BY <1>2, QuoteNumbers DEF WalletChanges, UpdateWalletInfo, PairChanges
<1>4. info' \in [balance : Money, pending : BOOLEAN]
  BY <1>2, QuoteNumbers DEF WalletChanges, UpdateWalletInfo, PairChanges, QuoteInv, QuoteTypes
<1>5. pair' \in Pairs
  BY QuoteNumbers DEF WalletChanges, UpdateWalletInfo, PairChanges
<1>6. QuoteTypes' /\ QuoteIsOfInvoice' /\ SwapsAreAccepted'
  <2>1. changes' \in Nat
    BY <1>1 DEF QuoteInv, QuoteTypes
  <2>2. QuoteTypes'
    BY <1>1, <1>3, <1>4, <1>5, <2>1 DEF QuoteInv, QuoteTypes
  <2> QED BY <1>1, <2>2 DEF QuoteInv, QuoteIsOfInvoice, SwapsAreAccepted
<1>7. KeepsToQuote'
  BY <1>1 DEF QuoteInv, KeepsToQuote
<1> QED BY <1>1, <1>6, <1>7, NotFresh DEF QuoteInv

\* The amount of a swap is not changed when it times out, and the quote does not see it.
LEMMA TimesOutKeeps == ASSUME QuoteInv, TimesOut PROVE QuoteInv'
<1>1. UNCHANGED <<wallet, info, pair, quote, sending, paid, accepted, fresh, changes>>
  BY DEF TimesOut
<1>2. PICK a \in Amounts : swaps[a].state = "Created" /\ swaps' = [swaps EXCEPT ![a].state = "TimedOut"]
  BY DEF TimesOut
<1>3. swaps' \in [Amounts -> [state : {"None", "Created", "TimedOut", "Pending"}, expected : Nat]]
  BY <1>2 DEF QuoteInv, QuoteTypes
<1>4. ASSUME NEW b \in Amounts, swaps'[b].state \in {"Created", "TimedOut"}
      PROVE  swaps[b].state \in {"Created", "TimedOut"} /\ swaps'[b].expected = swaps[b].expected
  BY <1>2, <1>4 DEF QuoteInv, QuoteTypes
<1>5. QuoteTypes' /\ QuoteIsOfInvoice'
  BY <1>1, <1>3 DEF QuoteInv, QuoteTypes, QuoteIsOfInvoice
<1>6. SwapsAreAccepted'
  BY <1>1, <1>4 DEF QuoteInv, SwapsAreAccepted
<1>7. KeepsToQuote'
  BY <1>1 DEF QuoteInv, KeepsToQuote
<1>8. PreparedIsPayable'
  <2>1. fresh' => QuoteIsPayable(quote)
    BY <1>1, PreparedMeansPayable DEF QuoteInv
  <2>2. QuoteIsPayable(quote) => QuoteIsPayable(quote)'
    BY <1>1 DEF QuoteIsPayable, PayableFees, validate_sufficient_funds, pay_liquid_onchain, build_tx_or_drain_tx,
       build_tx, build_drain_tx, within, total, boltz, ServiceFees, user_lockup_amount
  <2>3. (fresh => QuoteIsPayable(quote))'
    BY <2>1, <2>2
  <2> QED BY <2>3 DEF QuoteIsPayable, PayableFees, PreparedIsPayable, Affordable, SwapFeesHold, OnchainFeesHold, OnchainFees, QuotedLockup
<1> QED BY <1>5, <1>6, <1>7, <1>8 DEF QuoteInv

-----------------------------------------------------------------------------
LEMMA PricesInit == ASSUME Prices, PriceInit PROVE QuoteInv
<1>1. NoQuote \in Quote /\ NoQuote.kind = "None"
  BY DEF NoQuote, Quote, PriceKinds
<1>2. wallet \in Money
  BY DEF PriceInit, Prices, AmountsAreReal, Money
<1>3. Nowhere \in [kind : {"None", "bolt11", "bolt12", "onchain"}, amount : Nat, quote : Quote]
  BY <1>1 DEF Nowhere
<1>4. NoPayment \in [kind : PaidKinds, quote : Quote, amount : Int, fee : Nat, balance : Nat]
  BY <1>1 DEF NoPayment, PaidKinds, PriceKinds
<1>5. QuoteTypes
  <2>1. swaps \in [Amounts -> [state : {"None", "Created", "TimedOut", "Pending"}, expected : Nat]]
    BY DEF PriceInit, NoSwap
  <2> QED BY <1>1, <1>2, <1>3, <1>4, <2>1 DEF PriceInit, QuoteTypes
<1>6. QuoteIsOfInvoice
  BY <1>1 DEF PriceInit, QuoteIsOfInvoice
<1>7. SwapsAreAccepted
  BY DEF PriceInit, SwapsAreAccepted, NoSwap, Nowhere
<1>8. KeepsToQuote
  BY DEF PriceInit, KeepsToQuote, Nowhere, NoPayment
<1>9. PreparedIsPayable
  BY DEF PriceInit, PreparedIsPayable
<1> QED BY <1>5, <1>6, <1>7, <1>8, <1>9 DEF QuoteInv

LEMMA PricesStep == ASSUME Prices, QuoteInv, [PriceNext]_priceVars PROVE QuoteInv'
<1>1. CASE UNCHANGED priceVars
  <2>1. QuoteTypes' /\ QuoteIsOfInvoice' /\ SwapsAreAccepted' /\ KeepsToQuote'
    BY <1>1 DEF priceVars, QuoteInv, QuoteTypes, QuoteIsOfInvoice, SwapsAreAccepted, KeepsToQuote
  <2>2. fresh' => QuoteIsPayable(quote)
    BY <1>1, PreparedMeansPayable DEF QuoteInv, priceVars
  <2>3. QuoteIsPayable(quote) => QuoteIsPayable(quote)'
    BY <1>1 DEF priceVars, QuoteIsPayable, PayableFees, validate_sufficient_funds, pay_liquid_onchain, build_tx_or_drain_tx,
       build_tx, build_drain_tx, within, total, boltz, ServiceFees, user_lockup_amount
  <2>4. (fresh => QuoteIsPayable(quote))'
    BY <2>2, <2>3
  <2>5. PreparedIsPayable'
    BY <2>4 DEF QuoteIsPayable, PayableFees, PreparedIsPayable, Affordable, SwapFeesHold, OnchainFeesHold, OnchainFees, QuotedLockup
  <2> QED BY <2>1, <2>5 DEF QuoteInv
<1>2. CASE \E a \in Amounts : PrepareLiquid(a) \/ PreparePayOnchain(a)
  BY <1>2, PrepareLiquidQuotes, PreparePayOnchainQuotes
<1>3. CASE \E a \in Amounts, mrh, drain \in BOOLEAN : PrepareBolt11(a, mrh, drain)
  BY <1>3, PrepareBolt11Quotes
<1>4. CASE \E a \in Amounts, mrh \in BOOLEAN : PrepareBolt12(a, mrh)
  BY <1>4, PrepareBolt12Quotes
<1>5. CASE \E mrh \in BOOLEAN : PrepareBolt12Drain(mrh) \/ PrepareLnUrlPayDrain(mrh)
  BY <1>5, PrepareBolt12DrainQuotes, PrepareLnUrlPayDrainQuotes
<1>6. CASE \E a \in Amounts, way \in {"lightning", "address"} : PrepareReceive(way, a)
  BY <1>6, PrepareReceiveQuotes
<1>7. CASE PrepareLiquidDrain \/ PreparePayOnchainDrain
  BY <1>7, PrepareLiquidDrainQuotes, PreparePayOnchainDrainQuotes
<1>8. CASE PayLiquid \/ PayHinted
  BY <1>8, PayLiquidKeeps, PayHintedKeeps
<1>9. CASE SendPaymentViaSwap \/ PayOnchain \/ Lockup \/ CreateReceiveSwap
  BY <1>9, SendPaymentViaSwapKeeps, PayOnchainKeeps, LockupKeeps, CreateReceiveSwapKeeps
<1>10. CASE WalletChanges \/ UpdateWalletInfo \/ PairChanges
  BY <1>10, ChangesKeep
<1>11. CASE TimesOut
  BY <1>11, TimesOutKeeps
<1> QED BY <1>1, <1>2, <1>3, <1>4, <1>5, <1>6, <1>7, <1>8, <1>9, <1>10, <1>11 DEF PriceNext

LEMMA AlwaysQuoteInv == Prices /\ PriceSpec => []QuoteInv
<1> SUFFICES ASSUME Prices PROVE PriceSpec => []QuoteInv
  OBVIOUS
<1>1. PriceInit => QuoteInv
  BY PricesInit
<1>2. QuoteInv /\ [PriceNext]_priceVars => QuoteInv'
  BY PricesStep
<1> QED BY <1>1, <1>2, PTL DEF PriceSpec

\* Every amount of a quote, of a swap and of a payment is a number, whatever was asked for: the wallet of a payment that
\* was sent (pay_liquid_onchain, lockup) never goes below zero, and what is quoted (prepare_send_payment,
\* prepare_pay_onchain, prepare_receive_payment) does not either, though a subtraction may wrap.
THEOREM PricesTypeCorrect == Prices /\ PriceSpec => []PriceTypeOK
<1> SUFFICES ASSUME Prices PROVE PriceSpec => []PriceTypeOK
  OBVIOUS
<1>1. QuoteInv => PriceTypeOK
  BY MoneyIsNat DEF QuoteInv, QuoteTypes, Quote, PriceTypeOK
<1>2. PriceSpec => []QuoteInv
  BY AlwaysQuoteInv
<1> QED BY <1>1, <1>2, PTL

\* A payment costs what its quote said, or less: a change of the fees between the quote and the payment fails the payment,
\* and a swap that is used again costs what an earlier quote allowed (send_payment, create_boltz_swap, pay_onchain).
THEOREM PricesKeepToQuote == Prices /\ PriceSpec => []KeepsToQuote
<1> SUFFICES ASSUME Prices PROVE PriceSpec => []KeepsToQuote
  OBVIOUS
<1>1. QuoteInv => KeepsToQuote
  BY DEF QuoteInv
<1>2. PriceSpec => []QuoteInv
  BY AlwaysQuoteInv
<1> QED BY <1>1, <1>2, PTL

\* What was quoted is paid as long as neither the balance nor the fees changed: every prepare_* leaves enough for the
\* fees that the call that pays will have, a drain included.
THEOREM PreparedStaysPayable == Prices /\ PriceSpec => []PreparedIsPayable
<1> SUFFICES ASSUME Prices PROVE PriceSpec => []PreparedIsPayable
  OBVIOUS
<1>1. QuoteInv => PreparedIsPayable
  BY DEF QuoteInv
<1>2. PriceSpec => []QuoteInv
  BY AlwaysQuoteInv
<1> QED BY <1>1, <1>2, PTL

-----------------------------------------------------------------------------
(* The table of payments (Payments) *)

(* Rows and syncs are records, and stay it *)
Where == {"none", "mempool", "block"}
RowFields == {"listed", "confirmed", "old", "fees", "balances"}
SyncFields == {"at", "txs", "payments", "unconfirmed", "todo"}

TableForms ==
  /\ kind \in [Txs -> PaymentKinds] /\ chain \in [Txs -> Where] /\ view \in [Txs -> Where]
  /\ DOMAIN table = Txs
  /\ \A t \in Txs : /\ DOMAIN table[t] = RowFields
                    /\ table[t].listed \in BOOLEAN /\ table[t].confirmed \in BOOLEAN /\ table[t].old \in BOOLEAN
                    /\ DOMAIN table[t].balances \subseteq Touched(t)
  /\ DOMAIN senders = Txs
  /\ DOMAIN syncs = Syncs /\ \A s \in Syncs : DOMAIN syncs[s] = SyncFields

\* A transaction is broadcast once, by the wallet or by another, and LWK follows the network
OnceBroadcast ==
  \A t \in Txs :
    /\ senders[t] \in {"idle", "broadcast"} => chain[t] = "none"
    /\ senders[t] \in {"broadcast", "record"} => IsSend(t)
    /\ view[t] = "block" => chain[t] = "block"
    /\ \A s \in Syncs : syncs[s].txs[t] = "block" => view[t] = "block"

ConfirmedRows ==
  \A t \in Listed : table[t].confirmed => view[t] = "block" /\ table[t].fees = Fee /\ table[t].balances = WalletBalances(t)

RowAgrees(t) == t \in Listed /\ table[t].confirmed = (view[t] = "block")

TableAgrees ==
  \A t \in Txs : IF view[t] # "none" THEN RowAgrees(t) ELSE t \in Listed => t \in Unconfirmed /\ ~table[t].old

Found(s) == {t \in Txs : syncs[s].txs[t] # "none"}

\* What a sync that nobody interfered with knows of the table
SyncAgrees(s) ==
  /\ syncs[s].txs = view
  /\ \/ /\ syncs[s].at \in {"loop", "emit", "emitted"}
        /\ syncs[s].todo \subseteq Found(s)
        /\ \A t \in syncs[s].todo :
             syncs[s].payments[t] = IF t \notin Listed THEN "none" ELSE IF table[t].confirmed THEN "complete" ELSE "pending"
        /\ \A t \in Found(s) \ syncs[s].todo : RowAgrees(t)
        /\ Unconfirmed \ Found(s) \subseteq syncs[s].unconfirmed
     \/ syncs[s].at \in {"read", "write"} /\ TableAgrees

CleanSyncs == \A s \in Syncs \cap clean : SyncAgrees(s)
ListedAgrees == listed => TableAgrees

TableInv == TableForms /\ OnceBroadcast /\ ConfirmedRows /\ CleanSyncs /\ ListedAgrees

\* A constant of this module is a number.
LEMMA AmountNumbers ==
  ASSUME PaymentsAreReal
  PROVE  /\ Amount \in Nat \ {0} /\ Fee \in Nat /\ QuotedFee \in Nat /\ PayjoinFee \in Nat
         /\ PaymentKinds \subseteq {"liquid", "asset", "payjoin", "sideswap", "receive"} /\ Txs \cap Syncs = {}
BY DEF PaymentsAreReal

\* A row that a call inserts names no asset that its transaction does not move.
LEMMA PseudoTouches ==
  ASSUME PaymentsAreReal, NEW t \in Txs, kind[t] \in PaymentKinds, IsSend(t)
  PROVE  DOMAIN PseudoTx(t).balances \subseteq Touched(t)
<1>1. kind[t] \in {"liquid", "asset", "payjoin", "sideswap"}
  BY AmountNumbers DEF IsSend
<1>2. CASE kind[t] = "liquid"
  <2>1. PseudoTx(t).balances = [lbtc |-> Amount] /\ Net(t).lbtc = -(Amount + Fee)
    BY <1>2 DEF PseudoTx, Net
  <2>2. Net(t).lbtc # 0
    BY <2>1, AmountNumbers
  <2> QED BY <2>1, <2>2 DEF Touched
<1>3. CASE kind[t] = "asset"
  <2>1. PseudoTx(t).balances = [asset |-> Amount] /\ Net(t).asset = -Amount
    BY <1>3 DEF PseudoTx, Net
  <2>2. Net(t).asset # 0
    BY <2>1, AmountNumbers
  <2> QED BY <2>1, <2>2 DEF Touched
<1>4. CASE kind[t] = "payjoin"
  <2>1. PseudoTx(t).balances = [asset |-> Amount + PayjoinFee] /\ Net(t).asset = -(Amount + PayjoinFee)
    BY <1>4 DEF PseudoTx, Net
  <2>2. Net(t).asset # 0
    BY <2>1, AmountNumbers
  <2> QED BY <2>1, <2>2 DEF Touched
<1>5. CASE kind[t] = "sideswap"
  <2>1. PseudoTx(t).balances = [lbtc |-> Amount + QuotedFee] /\ Net(t).lbtc = -(Amount + QuotedFee)
    BY <1>5 DEF PseudoTx, Net
  <2>2. Net(t).lbtc # 0
    BY <2>1, AmountNumbers
  <2> QED BY <2>1, <2>2 DEF Touched
<1> QED BY <1>1, <1>2, <1>3, <1>4, <1>5

\* What a row becomes: it is listed as it was given, and keeps its age.
LEMMA InsertedRow ==
  ASSUME TableForms, NEW t \in Txs, NEW c \in BOOLEAN, NEW fees, NEW b, DOMAIN b \subseteq Touched(t),
         table' = insert_or_update_payment(t, c, fees, b)
  PROVE  /\ DOMAIN table' = Txs /\ \A u \in Txs \ {t} : table'[u] = table[u]
         /\ DOMAIN table'[t] = RowFields /\ table'[t].listed = TRUE /\ table'[t].confirmed = c
         /\ table'[t].old = table[t].old /\ table'[t].fees = fees
         /\ DOMAIN table'[t].balances \subseteq Touched(t)
<1> DEFINE old == table[t].balances
           m == [a \in DOMAIN b \cup DOMAIN old |-> IF a \in DOMAIN b THEN b[a] ELSE old[a]]
           r == [listed |-> TRUE, confirmed |-> c, old |-> table[t].old, fees |-> fees, balances |-> m]
<1>1. table' = [table EXCEPT ![t] = r]
  BY DEF insert_or_update_payment
<1>2. DOMAIN table = Txs /\ DOMAIN old \subseteq Touched(t)
  BY DEF TableForms
<1>3. DOMAIN m \subseteq Touched(t)
  BY <1>2
<1> HIDE DEF m
<1>4. /\ DOMAIN r = RowFields /\ r.listed = TRUE /\ r.confirmed = c /\ r.old = table[t].old /\ r.fees = fees
      /\ r.balances = m
  BY DEF RowFields
<1> HIDE DEF r
<1>5. table'[t] = r /\ DOMAIN table' = Txs /\ \A u \in Txs \ {t} : table'[u] = table[u]
  BY <1>1, <1>2
<1> QED BY <1>3, <1>4, <1>5

LEMMA TableStart == ASSUME PaymentsAreReal, PaymentInit PROVE TableInv
<1>1. DOMAIN << >> = {}
  OBVIOUS
<1>2. TableForms
  <2>1. \A t \in Txs : table[t] = NoRow
    BY DEF PaymentInit
  <2>2. DOMAIN NoRow = RowFields /\ NoRow.listed = FALSE /\ NoRow.confirmed = FALSE /\ NoRow.old = FALSE
        /\ NoRow.balances = << >>
    BY DEF NoRow, RowFields
  <2>3. \A s \in Syncs : DOMAIN syncs[s] = SyncFields
    BY DEF PaymentInit, Idle, SyncFields
  <2>4. chain \in [Txs -> Where] /\ view \in [Txs -> Where]
    BY DEF PaymentInit, NotSeen, Where
  <2>5. kind \in [Txs -> PaymentKinds] /\ DOMAIN table = Txs /\ DOMAIN senders = Txs /\ DOMAIN syncs = Syncs
    BY DEF PaymentInit
  <2>6. \A t \in Txs : /\ DOMAIN table[t] = RowFields
                    /\ table[t].listed \in BOOLEAN /\ table[t].confirmed \in BOOLEAN /\ table[t].old \in BOOLEAN
                    /\ DOMAIN table[t].balances \subseteq Touched(t)
    BY <1>1, <2>1, <2>2
  <2> QED BY <2>3, <2>4, <2>5, <2>6 DEF TableForms
<1>3. Listed = {}
  BY DEF PaymentInit, NoRow, Listed
<1>4. \A t \in Txs : chain[t] = "none" /\ view[t] = "none" /\ senders[t] = "idle"
  BY DEF PaymentInit, NotSeen
<1>5. \A s \in Syncs : \A t \in Txs : syncs[s].txs[t] = "none"
  BY DEF PaymentInit, Idle, NotSeen
<1>6. OnceBroadcast
  BY <1>4, <1>5 DEF OnceBroadcast
<1>7. ConfirmedRows /\ TableAgrees
  BY <1>3, <1>4 DEF ConfirmedRows, TableAgrees
<1>8. CleanSyncs
  BY DEF PaymentInit, CleanSyncs
<1> QED BY <1>2, <1>6, <1>7, <1>8 DEF TableInv, ListedAgrees

-----------------------------------------------------------------------------
\* What a payment moves depends on its kind alone.
LEMMA SameMoves ==
  ASSUME kind' = kind
  PROVE  \A t \in Txs : Touched(t)' = Touched(t) /\ WalletBalances(t)' = WalletBalances(t) /\ IsSend(t)' = IsSend(t)
<1> TAKE t \in Txs
<1>1. kind[t]' = kind[t]
  OBVIOUS
<1>2. Net(t)' = Net(t)
  BY <1>1, Zenon DEF Net
<1>3. IsSend(t)' = IsSend(t)
  BY <1>1 DEF IsSend
<1>4. Touched(t)' = Touched(t)
  BY <1>2, Zenon DEF Touched
<1>5. WalletBalances(t)' = WalletBalances(t)
  BY <1>2, <1>3, <1>4, Zenon DEF WalletBalances
<1> QED BY <1>3, <1>4, <1>5

\* What leaves the table, the scans and the syncs alone.
LEMMA TableStays ==
  ASSUME TableInv, UNCHANGED <<kind, view, table, syncs>>, clean' \cap Syncs \subseteq clean, listed' => listed,
         chain' \in [Txs -> Where], DOMAIN senders' = Txs,
         \A t \in Txs :
           /\ senders'[t] \in {"idle", "broadcast"} => chain'[t] = "none"
           /\ senders'[t] \in {"broadcast", "record"} => IsSend(t)
           /\ chain[t] = "block" => chain'[t] = "block"
  PROVE  TableInv'
<1>1. TableForms'
  BY SameMoves DEF TableInv, TableForms
<1>2. OnceBroadcast'
  <2>1. SUFFICES ASSUME NEW t \in Txs
                 PROVE  /\ senders'[t] \in {"idle", "broadcast"} => chain'[t] = "none"
                        /\ senders'[t] \in {"broadcast", "record"} => IsSend(t)
                        /\ view[t] = "block" => chain'[t] = "block"
                        /\ \A s \in Syncs : syncs[s].txs[t] = "block" => view[t] = "block"
    BY DEF OnceBroadcast, IsSend
  <2>2. /\ view[t] = "block" => chain[t] = "block"
        /\ \A s \in Syncs : syncs[s].txs[t] = "block" => view[t] = "block"
    BY DEF TableInv, OnceBroadcast
  <2> QED BY <2>2
<1>3. ConfirmedRows'
  BY SameMoves DEF TableInv, ConfirmedRows, Listed
<1>4. TableAgrees = TableAgrees'
  BY Zenon DEF TableAgrees, RowAgrees, Listed, Unconfirmed
<1>5. \A s \in Syncs : SyncAgrees(s) => SyncAgrees(s)'
  BY <1>4 DEF SyncAgrees, Found, RowAgrees, Listed, Unconfirmed
<1>6. CleanSyncs'
  BY <1>5 DEF TableInv, CleanSyncs
<1> QED BY <1>1, <1>2, <1>3, <1>4, <1>6 DEF TableInv, ListedAgrees

\* A transaction reaches the network once.
LEMMA CallKeeps ==
  ASSUME PaymentsAreReal, TableInv, NEW t \in Txs,
         BuildTx(t) \/ Broadcast(t) \/ Emit(t) \/ EmitNothing(t) \/ WriteBalance(t) \/ Receive(t) \/ Confirm(t) \/ Evict(t)
  PROVE  TableInv'
<1>1. /\ kind[t] \in PaymentKinds /\ chain \in [Txs -> Where] /\ DOMAIN senders = Txs
      /\ \A u \in Txs : /\ senders[u] \in {"idle", "broadcast"} => chain[u] = "none"
                        /\ senders[u] \in {"broadcast", "record"} => IsSend(u)
  BY DEF TableInv, TableForms, OnceBroadcast
<1>2. UNCHANGED <<kind, view, table, syncs, listed>>
  BY DEF BuildTx, Broadcast, Emit, EmitNothing, WriteBalance, Receive, Confirm, Evict, ghosts
<1>3. clean' \cap Syncs \subseteq clean
  BY AmountNumbers DEF BuildTx, Broadcast, Emit, EmitNothing, WriteBalance, Receive, Confirm, Evict, ghosts
<1>4. /\ chain' \in [Txs -> Where] /\ DOMAIN senders' = Txs
      /\ \A u \in Txs :
           /\ senders'[u] \in {"idle", "broadcast"} => chain'[u] = "none"
           /\ senders'[u] \in {"broadcast", "record"} => IsSend(u)
           /\ chain[u] = "block" => chain'[u] = "block"
  <2>1. CASE BuildTx(t)
    <3>1. senders[t] = "idle" /\ senders' = [senders EXCEPT ![t] = "broadcast"] /\ chain' = chain
      BY <2>1 DEF BuildTx, Goes
    <3>2. IsSend(t)
      BY <2>1 DEF BuildTx, CanPay, IsSend
    <3> QED BY <1>1, <3>1, <3>2
  <2>2. CASE Broadcast(t)
    <3>1. /\ senders[t] = "broadcast"
          /\ \E to \in {"record", "failed"} : senders' = [senders EXCEPT ![t] = to]
          /\ chain' = chain \/ chain' = [chain EXCEPT ![t] = "mempool"]
      BY <2>2 DEF Broadcast, Goes
    <3> QED BY <1>1, <3>1 DEF Where
  <2>3. CASE Emit(t) \/ EmitNothing(t) \/ WriteBalance(t)
    <3>1. (\E to \in {"write", "done"} : senders' = [senders EXCEPT ![t] = to]) /\ chain' = chain
      BY <2>3 DEF Emit, EmitNothing, WriteBalance, Goes
    <3> QED BY <1>1, <3>1
  <2>4. CASE Receive(t)
    <3>1. senders' = [senders EXCEPT ![t] = "done"] /\ chain[t] = "none" /\ chain' = [chain EXCEPT ![t] = "mempool"]
      BY <2>4 DEF Receive
    <3> QED BY <1>1, <3>1 DEF Where
  <2>5. CASE Confirm(t) \/ Evict(t)
    <3>1. /\ chain[t] = "mempool" /\ senders' = senders
          /\ chain' = [chain EXCEPT ![t] = "block"] \/ chain' = [chain EXCEPT ![t] = "none"]
      BY <2>5 DEF Confirm, Evict
    <3> QED BY <1>1, <3>1 DEF Where
  <2> QED BY <2>1, <2>2, <2>3, <2>4, <2>5
<1> QED BY <1>2, <1>3, <1>4, TableStays

\* Of a row that is inserted nothing is known yet, and no sync that listed the payments before is clean.
LEMMA RecordKeeps == ASSUME PaymentsAreReal, TableInv, NEW t \in Txs, Record(t) PROVE TableInv'
<1>1. /\ senders[t] = "record" /\ senders' = [senders EXCEPT ![t] = "emit"]
      /\ table' = insert_or_update_payment(t, FALSE, PseudoTx(t).fees, PseudoTx(t).balances)
      /\ clean' = clean \cap {t} /\ listed' = FALSE
      /\ UNCHANGED <<kind, chain, view, syncs>>
  BY DEF Record, Goes, Changed
<1>2. TableForms /\ kind[t] \in PaymentKinds /\ IsSend(t)
  BY <1>1 DEF TableInv, TableForms, OnceBroadcast
<1>3. DOMAIN PseudoTx(t).balances \subseteq Touched(t)
  BY <1>2, PseudoTouches
<1>4. /\ DOMAIN table' = Txs /\ \A u \in Txs \ {t} : table'[u] = table[u]
      /\ DOMAIN table'[t] = RowFields /\ table'[t].listed = TRUE /\ table'[t].confirmed = FALSE
      /\ table'[t].old = table[t].old /\ DOMAIN table'[t].balances \subseteq Touched(t)
  <2> DEFINE fees == PseudoTx(t).fees
             b == PseudoTx(t).balances
  <2>1. table' = insert_or_update_payment(t, FALSE, fees, b) /\ DOMAIN b \subseteq Touched(t)
    BY <1>1, <1>3
  <2> HIDE DEF fees, b
  <2> QED BY <1>2, <2>1, InsertedRow
<1>5. TableForms'
  <2>1. \A u \in Txs : Touched(u)' = Touched(u)
    BY <1>1, SameMoves
  <2>2. \A u \in Txs : /\ DOMAIN table'[u] = RowFields
                       /\ table'[u].listed \in BOOLEAN /\ table'[u].confirmed \in BOOLEAN /\ table'[u].old \in BOOLEAN
                       /\ DOMAIN table'[u].balances \subseteq Touched(u)
    BY <1>2, <1>4 DEF TableForms
  <2>3. DOMAIN senders' = Txs
    BY <1>1, <1>2 DEF TableForms
  <2>4. /\ (kind \in [Txs -> PaymentKinds] /\ chain \in [Txs -> Where] /\ view \in [Txs -> Where])'
        /\ (DOMAIN syncs = Syncs /\ \A s \in Syncs : DOMAIN syncs[s] = SyncFields)'
    BY <1>1, <1>2 DEF TableForms
  <2>5. \A u \in Txs : DOMAIN table'[u].balances \subseteq Touched(u)'
    BY <2>1, <2>2
  <2> QED BY <1>4, <2>2, <2>3, <2>4, <2>5 DEF TableForms
<1>6. OnceBroadcast'
  BY <1>1, <1>2 DEF TableInv, OnceBroadcast, IsSend, TableForms
<1>7. ConfirmedRows'
  <2>1. \A u \in Txs : WalletBalances(u)' = WalletBalances(u)
    BY <1>1, SameMoves
  <2>2. SUFFICES ASSUME NEW u \in Txs, table'[u].listed, table'[u].confirmed
                 PROVE  view[u] = "block" /\ table'[u].fees = Fee /\ table'[u].balances = WalletBalances(u)
    BY <1>1, <2>1 DEF ConfirmedRows, Listed
  <2>3. table'[u] = table[u]
    BY <1>4, <2>2
  <2> QED BY <2>2, <2>3 DEF TableInv, ConfirmedRows, Listed
<1>8. CleanSyncs'
  BY <1>1, AmountNumbers DEF CleanSyncs
<1> QED BY <1>1, <1>5, <1>6, <1>7, <1>8 DEF TableInv, ListedAgrees

-----------------------------------------------------------------------------
\* What a sync knows stays what it knows while the table, the scan and the sync are the same.
LEMMA SameTable ==
  ASSUME TableForms, view' = view, \A t \in Txs : table'[t] = table[t]
  PROVE  /\ TableAgrees' = TableAgrees
         /\ \A r \in Syncs : syncs'[r] = syncs[r] /\ SyncAgrees(r) => SyncAgrees(r)'
<1>1. Listed' = Listed
  BY DEF Listed
<1>2. Unconfirmed' = Unconfirmed
  BY <1>1 DEF Unconfirmed, Listed
<1>3. \A t \in Txs : RowAgrees(t)' = RowAgrees(t)
  BY <1>1 DEF RowAgrees
<1>4. TableAgrees' = TableAgrees
  BY <1>1, <1>2, <1>3 DEF TableAgrees
<1>5. ASSUME NEW r \in Syncs, syncs'[r] = syncs[r], SyncAgrees(r) PROVE SyncAgrees(r)'
  <2>1. Found(r)' = Found(r) /\ Found(r) \subseteq Txs
    BY <1>5 DEF Found
  <2>2. (syncs[r].txs = view)'
    BY <1>5 DEF SyncAgrees
  <2>3. CASE syncs[r].at \in {"read", "write"} /\ TableAgrees
    BY <1>4, <1>5, <2>2, <2>3 DEF SyncAgrees
  <2>4. CASE /\ syncs[r].at \in {"loop", "emit", "emitted"}
             /\ syncs[r].todo \subseteq Found(r)
             /\ \A t \in syncs[r].todo :
                  syncs[r].payments[t] = IF t \notin Listed THEN "none" ELSE IF table[t].confirmed THEN "complete" ELSE "pending"
             /\ \A t \in Found(r) \ syncs[r].todo : RowAgrees(t)
             /\ Unconfirmed \ Found(r) \subseteq syncs[r].unconfirmed
    <3>1. \A t \in syncs[r].todo : t \in Txs
      BY <2>1, <2>4
    <3>2. \A t \in syncs'[r].todo :
            syncs'[r].payments[t] = IF t \notin Listed' THEN "none" ELSE IF table'[t].confirmed THEN "complete" ELSE "pending"
      BY <1>1, <1>5, <2>4, <3>1
    <3>3. \A t \in Found(r)' \ syncs'[r].todo : RowAgrees(t)'
      BY <1>3, <1>5, <2>1, <2>4
    <3>4. /\ syncs'[r].at \in {"loop", "emit", "emitted"} /\ syncs'[r].todo \subseteq Found(r)'
          /\ Unconfirmed' \ Found(r)' \subseteq syncs'[r].unconfirmed
      BY <1>2, <1>5, <2>1, <2>4
    <3> QED BY <2>2, <3>2, <3>3, <3>4 DEF SyncAgrees
  <2> QED BY <1>5, <2>3, <2>4 DEF SyncAgrees
<1> QED BY <1>4, <1>5

\* A step of a sync that does not scan leaves the network and what it scanned alone.
LEMMA SyncStep ==
  ASSUME TableInv, NEW s \in Syncs, UNCHANGED <<kind, chain, view, senders>>, DOMAIN syncs' = Syncs,
         \A r \in Syncs \ {s} : syncs'[r] = syncs[r],
         DOMAIN syncs'[s] = SyncFields, syncs'[s].txs \in {syncs[s].txs, NotSeen}
  PROVE  /\ OnceBroadcast'
         /\ (\A t \in Txs : table'[t] = table[t]) /\ DOMAIN table' = Txs => TableForms' /\ ConfirmedRows'
<1>1. \A r \in Syncs : DOMAIN syncs'[r] = SyncFields
  BY DEF TableInv, TableForms
<1>2. OnceBroadcast'
  <2>1. SUFFICES ASSUME NEW t \in Txs
                 PROVE  /\ senders[t] \in {"idle", "broadcast"} => chain[t] = "none"
                        /\ senders[t] \in {"broadcast", "record"} => IsSend(t)
                        /\ view[t] = "block" => chain[t] = "block"
                        /\ \A r \in Syncs : syncs'[r].txs[t] = "block" => view[t] = "block"
    BY SameMoves DEF OnceBroadcast
  <2>2. \A r \in Syncs : syncs'[r].txs = syncs[r].txs \/ syncs'[r].txs[t] = "none"
    BY DEF NotSeen
  <2> QED BY <2>2 DEF TableInv, OnceBroadcast
<1>3. ASSUME \A t \in Txs : table'[t] = table[t], DOMAIN table' = Txs PROVE TableForms' /\ ConfirmedRows'
  <2>1. TableForms'
    BY <1>1, <1>3, SameMoves DEF TableInv, TableForms
  <2>2. ConfirmedRows'
    <3>1. SUFFICES ASSUME NEW u \in Txs, table'[u].listed, table'[u].confirmed
                   PROVE  view[u] = "block" /\ table'[u].fees = Fee /\ table'[u].balances = WalletBalances(u)
      BY SameMoves DEF ConfirmedRows, Listed
    <3>2. table'[u] = table[u]
      BY <1>3
    <3> QED BY <3>1, <3>2 DEF TableInv, ConfirmedRows, Listed
  <2> QED BY <2>1, <2>2
<1> QED BY <1>2, <1>3

\* A scan forgets no block, and no sync that began before is clean.
LEMMA TableScanKeeps == ASSUME PaymentsAreReal, TableInv, NEW s \in Syncs, Scan(s) PROVE TableInv'
<1>1. PICK late \in SUBSET {t \in Txs : chain[t] = "mempool" /\ view[t] = "none"} :
        /\ view' = [t \in Txs |-> IF t \in late THEN "none" ELSE chain[t]]
        /\ syncs' = [syncs EXCEPT ![s] = [Idle EXCEPT !.at = "list", !.txs = view']]
  BY DEF Scan
<1>2. /\ syncs[s].at = "idle" /\ clean' = clean \cap {s} /\ listed' = FALSE
      /\ UNCHANGED <<kind, chain, table, senders>>
  BY DEF Scan, SyncAt, Changed
<1>3. TableForms /\ ConfirmedRows /\ s \notin clean
  BY <1>2 DEF TableInv, CleanSyncs, SyncAgrees
<1>4. /\ DOMAIN syncs' = Syncs /\ DOMAIN syncs'[s] = SyncFields /\ syncs'[s].txs = view'
      /\ \A r \in Syncs \ {s} : syncs'[r] = syncs[r]
  <2> DEFINE idle == [Idle EXCEPT !.at = "list", !.txs = view']
  <2>1. DOMAIN idle = SyncFields /\ idle.txs = view'
    BY DEF Idle, SyncFields
  <2>2. syncs' = [syncs EXCEPT ![s] = idle]
    BY <1>1
  <2> HIDE DEF idle
  <2> QED BY <1>3, <2>1, <2>2 DEF TableForms
<1>5. /\ view' \in [Txs -> Where]
      /\ \A t \in Txs : /\ chain[t] = "block" => view'[t] = "block"
                        /\ view'[t] = "block" => chain[t] = "block"
  BY <1>1, <1>3 DEF TableForms, Where
<1>6. \A t \in Txs : view[t] = "block" => view'[t] = "block"
  BY <1>5 DEF TableInv, OnceBroadcast
<1>7. TableForms'
  BY <1>2, <1>3, <1>4, <1>5, SameMoves DEF TableForms
<1>8. OnceBroadcast'
  <2>1. SUFFICES ASSUME NEW t \in Txs
                 PROVE  /\ senders[t] \in {"idle", "broadcast"} => chain[t] = "none"
                        /\ senders[t] \in {"broadcast", "record"} => IsSend(t)
                        /\ view'[t] = "block" => chain[t] = "block"
                        /\ \A r \in Syncs : syncs'[r].txs[t] = "block" => view'[t] = "block"
    BY <1>2, SameMoves DEF OnceBroadcast
  <2>2. \A r \in Syncs : syncs'[r].txs[t] = "block" => view'[t] = "block"
    BY <1>4, <1>6 DEF TableInv, OnceBroadcast
  <2> QED BY <1>5, <2>2 DEF TableInv, OnceBroadcast
<1>9. ConfirmedRows'
  BY <1>2, <1>3, <1>6, SameMoves DEF ConfirmedRows, Listed
<1>10. CleanSyncs'
  BY <1>2, <1>3 DEF CleanSyncs
<1> QED BY <1>2, <1>7, <1>8, <1>9, <1>10 DEF TableInv, ListedAgrees

\* A sync that lists the payments knows the table, if LWK still knows what it scanned.
LEMMA ListKeeps == ASSUME PaymentsAreReal, TableInv, NEW s \in Syncs, ListPayments(s) PROVE TableInv'
<1> DEFINE status == [t \in Txs |-> IF t \notin Listed THEN "none" ELSE IF table[t].confirmed THEN "complete" ELSE "pending"]
           was == syncs[s]
           next == [was EXCEPT !.at = "loop", !.unconfirmed = Unconfirmed, !.todo = Known(was.txs), !.payments = status]
<1>1. /\ was.at = "list" /\ syncs' = [syncs EXCEPT ![s] = next]
      /\ clean' = IF was.txs = view THEN clean \cup {s} ELSE clean
      /\ UNCHANGED <<kind, chain, view, table, senders, listed>>
  BY DEF ListPayments, SyncAt
<1>2. TableForms /\ s \notin clean
  BY <1>1 DEF TableInv, CleanSyncs, SyncAgrees
<1>3. DOMAIN was = SyncFields /\ DOMAIN syncs = Syncs
  BY <1>2 DEF TableForms
<1>4. /\ DOMAIN next = SyncFields /\ next.txs = was.txs /\ next.at = "loop"
      /\ next.unconfirmed = Unconfirmed /\ next.todo = Known(was.txs) /\ next.payments = status
  <2> HIDE DEF was, status
  <2> QED BY <1>3 DEF SyncFields
<1>5. Known(was.txs) = Found(s)
  BY DEF Known, Found
<1>6. /\ DOMAIN syncs' = Syncs /\ syncs'[s] = next /\ \A r \in Syncs \ {s} : syncs'[r] = syncs[r]
  <2> HIDE DEF next, was
  <2> QED BY <1>1, <1>3
<1>7. OnceBroadcast' /\ TableForms' /\ ConfirmedRows'
  <2>1. syncs'[s].txs = syncs[s].txs /\ DOMAIN syncs'[s] = SyncFields
    BY <1>4, <1>6
  <2>2. \A t \in Txs : table'[t] = table[t]
    BY <1>1
  <2>3. DOMAIN table' = Txs
    BY <1>1, <1>2 DEF TableForms
  <2>4. UNCHANGED <<kind, chain, view, senders>>
    BY <1>1
  <2> QED BY <1>6, <2>1, <2>2, <2>3, <2>4, SyncStep
<1>8. /\ TableAgrees' = TableAgrees
      /\ \A r \in Syncs : syncs'[r] = syncs[r] /\ SyncAgrees(r) => SyncAgrees(r)'
  BY <1>1, <1>2, SameTable
<1>9. was.txs = view => SyncAgrees(s)'
  <2>1. SUFFICES ASSUME was.txs = view PROVE SyncAgrees(s)'
    OBVIOUS
  <2>2. Found(s)' = Found(s) /\ Found(s) \subseteq Txs
    BY <1>4, <1>6 DEF Found
  <2>3. syncs'[s].todo = Found(s)'
    BY <1>4, <1>5, <1>6, <2>2
  <2>4. \A t \in Txs : syncs'[s].payments[t] =
           IF t \notin Listed THEN "none" ELSE IF table[t].confirmed THEN "complete" ELSE "pending"
    BY <1>4, <1>6
  <2>5. Listed' = Listed /\ Unconfirmed' = Unconfirmed
    BY <1>1 DEF Listed, Unconfirmed
  <2>6. (\A t \in syncs[s].todo :
             syncs[s].payments[t] = IF t \notin Listed THEN "none" ELSE IF table[t].confirmed THEN "complete" ELSE "pending")'
    BY <1>1, <2>2, <2>3, <2>4, <2>5
  <2>7. /\ syncs'[s].at = "loop" /\ syncs'[s].txs = view' /\ syncs'[s].unconfirmed = Unconfirmed'
    BY <1>1, <1>4, <1>6, <2>1, <2>5
  <2> QED BY <2>3, <2>6, <2>7 DEF SyncAgrees
<1>10. CleanSyncs'
  <2>1. SUFFICES ASSUME NEW r \in Syncs, r \in clean' PROVE SyncAgrees(r)'
    BY DEF CleanSyncs
  <2>2. CASE r = s
    BY <1>1, <1>2, <1>9, <2>1, <2>2
  <2>3. CASE r # s
    <3>1. r \in clean /\ syncs'[r] = syncs[r]
      BY <1>1, <1>6, <2>1, <2>3
    <3> QED BY <1>8, <3>1 DEF TableInv, CleanSyncs
  <2> QED BY <2>2, <2>3
<1> QED BY <1>1, <1>7, <1>8, <1>10 DEF TableInv, ListedAgrees

\* Reading the transactions and writing the balance leave the table alone: a clean sync that ends knows that it agrees.
LEMMA BalanceKeeps == ASSUME PaymentsAreReal, TableInv, NEW s \in Syncs, SyncReads(s) \/ SyncWrites(s) PROVE TableInv'
<1>1. /\ UNCHANGED <<kind, chain, view, table, senders>>
      /\ \/ /\ syncs[s].at \in {"emit", "read", "emitted"} /\ clean' = clean /\ listed' = listed
            /\ \/ syncs[s].at = "emit" /\ Goto(s, "emitted")
               \/ syncs[s].at = "emitted" /\ Goto(s, "loop")
               \/ syncs[s].at = "read" /\ Goto(s, "write")
         \/ /\ syncs[s].at = "write" /\ syncs' = [syncs EXCEPT ![s] = Idle]
            /\ listed' = (s \in clean) /\ clean' = clean \ {s}
  BY DEF SyncReads, SyncWrites, SyncAt, ghosts
<1>2. TableForms /\ DOMAIN syncs = Syncs /\ DOMAIN syncs[s] = SyncFields /\ DOMAIN table = Txs
  BY DEF TableInv, TableForms
<1>3. /\ DOMAIN syncs' = Syncs /\ \A r \in Syncs \ {s} : syncs'[r] = syncs[r]
      /\ DOMAIN syncs'[s] = SyncFields /\ syncs'[s].txs \in {syncs[s].txs, NotSeen}
  <2>1. CASE \E to : Goto(s, to)
    BY <1>2, <2>1 DEF Goto
  <2>2. CASE syncs' = [syncs EXCEPT ![s] = Idle]
    BY <1>2, <2>2 DEF Idle, SyncFields
  <2> QED BY <1>1, <2>1, <2>2
<1>4. OnceBroadcast' /\ TableForms' /\ ConfirmedRows'
  BY <1>1, <1>2, <1>3, SyncStep
<1>5. /\ TableAgrees' = TableAgrees
      /\ \A r \in Syncs : syncs'[r] = syncs[r] /\ SyncAgrees(r) => SyncAgrees(r)'
  BY <1>1, <1>2, SameTable
<1>6. CASE syncs[s].at = "write" /\ syncs' = [syncs EXCEPT ![s] = Idle] /\ listed' = (s \in clean) /\ clean' = clean \ {s}
  <2>1. CleanSyncs'
    BY <1>3, <1>5, <1>6 DEF TableInv, CleanSyncs
  <2>2. s \in clean => TableAgrees
    BY <1>6 DEF TableInv, CleanSyncs, SyncAgrees
  <2>3. ListedAgrees'
    BY <1>5, <1>6, <2>2 DEF ListedAgrees
  <2> QED BY <1>4, <2>1, <2>3 DEF TableInv
<1>7. CASE /\ clean' = clean /\ listed' = listed
           /\ \/ syncs[s].at = "emit" /\ Goto(s, "emitted")
              \/ syncs[s].at = "emitted" /\ Goto(s, "loop")
              \/ syncs[s].at = "read" /\ Goto(s, "write")
  <2>1. SyncAgrees(s) => SyncAgrees(s)'
    <3>1. PICK to : /\ syncs' = [syncs EXCEPT ![s].at = to]
                    /\ \/ syncs[s].at = "read" /\ to = "write"
                       \/ syncs[s].at \in {"emit", "emitted"} /\ to \in {"emitted", "loop"}
      <4>1. CASE syncs[s].at = "emit" /\ Goto(s, "emitted")
        BY <4>1 DEF Goto
      <4>2. CASE syncs[s].at = "emitted" /\ Goto(s, "loop")
        BY <4>2 DEF Goto
      <4>3. CASE syncs[s].at = "read" /\ Goto(s, "write")
        BY <4>3 DEF Goto
      <4> QED BY <1>7, <4>1, <4>2, <4>3
    <3>2. syncs'[s] = [syncs[s] EXCEPT !.at = to]
      BY <1>2, <3>1
    <3>3. /\ syncs'[s].txs = syncs[s].txs /\ syncs'[s].todo = syncs[s].todo /\ syncs'[s].payments = syncs[s].payments
          /\ syncs'[s].unconfirmed = syncs[s].unconfirmed /\ syncs'[s].at = to
      BY <1>2, <3>2 DEF SyncFields
    <3>4. Listed' = Listed /\ Unconfirmed' = Unconfirmed /\ (\A t \in Txs : RowAgrees(t)' = RowAgrees(t))
      BY <1>1 DEF Listed, Unconfirmed, RowAgrees
    <3>5. Found(s)' = Found(s) /\ Found(s) \subseteq Txs
      BY <3>3 DEF Found
    <3>6. (\A t \in Found(s) \ syncs[s].todo : RowAgrees(t)) => (\A t \in Found(s)' \ syncs'[s].todo : RowAgrees(t)')
      BY <3>3, <3>4, <3>5
    <3> QED BY <1>1, <1>5, <3>1, <3>3, <3>4, <3>5, <3>6 DEF SyncAgrees
  <2>2. CleanSyncs'
    BY <1>3, <1>5, <1>7, <2>1 DEF TableInv, CleanSyncs
  <2> QED BY <1>4, <1>5, <1>7, <2>2 DEF TableInv, ListedAgrees
<1> QED BY <1>1, <1>6, <1>7

-----------------------------------------------------------------------------
\* What LWK knows is in the table as LWK has it when an update is done, and the row of a transaction names what it moves.
LEMMA UpdateKeeps ==
  ASSUME PaymentsAreReal, TableInv, NEW s \in Syncs, NEW t \in Txs, UpdatePayment(s, t) PROVE TableInv'
<1> DEFINE was == syncs[s]
<1>1. /\ was.at = "loop" /\ t \in was.todo /\ UNCHANGED <<kind, chain, view, senders>>
  BY DEF UpdatePayment, SyncAt
<1>2. TableForms /\ DOMAIN syncs = Syncs /\ DOMAIN was = SyncFields /\ DOMAIN table = Txs
  BY DEF TableInv, TableForms
<1>3. s \in clean => /\ was.txs = view /\ was.todo \subseteq Found(s)
                     /\ \A u \in was.todo :
                          was.payments[u] = IF u \notin Listed THEN "none" ELSE IF table[u].confirmed THEN "complete" ELSE "pending"
                     /\ \A u \in Found(s) \ was.todo : RowAgrees(u)
                     /\ Unconfirmed \ Found(s) \subseteq was.unconfirmed
  BY <1>1 DEF TableInv, CleanSyncs, SyncAgrees
<1>4. CASE UpdatedNeeded(s, t)
  <2> DEFINE next == [was EXCEPT !.todo = @ \ {t}, !.at = "emit"]
             b == WalletBalances(t)
  <2>c. PICK c \in BOOLEAN : c = (was.txs[t] = "block")
    OBVIOUS
  <2>1. /\ table' = insert_or_update_payment(t, c, Fee, b)
        /\ syncs' = [syncs EXCEPT ![s] = next]
        /\ clean' = clean \cap {s} /\ listed' = FALSE
    BY <1>4, <2>c DEF UpdatePayment, insert_or_update_payment_with_wallet_tx, Changed
  <2>2. /\ DOMAIN next = SyncFields /\ next.txs = was.txs /\ next.at = "emit" /\ next.todo = was.todo \ {t}
        /\ next.payments = was.payments /\ next.unconfirmed = was.unconfirmed
    <3> HIDE DEF was
    <3> QED BY <1>2 DEF SyncFields
  <2>3. /\ DOMAIN syncs' = Syncs /\ syncs'[s] = next /\ \A r \in Syncs \ {s} : syncs'[r] = syncs[r]
    <3> HIDE DEF next
    <3> QED BY <1>2, <2>1
  <2>4. DOMAIN b = Touched(t) /\ b = [a \in Touched(t) |-> b[a]]
    BY DEF WalletBalances
  <2> HIDE DEF b, next
  <2>5. /\ DOMAIN table' = Txs /\ \A u \in Txs \ {t} : table'[u] = table[u]
        /\ DOMAIN table'[t] = RowFields /\ table'[t].listed = TRUE /\ table'[t].confirmed = c
        /\ table'[t].old = table[t].old /\ table'[t].fees = Fee
        /\ DOMAIN table'[t].balances \subseteq Touched(t)
    <3>1. table' = insert_or_update_payment(t, c, Fee, b) /\ DOMAIN b \subseteq Touched(t)
      BY <2>1, <2>4
    <3> QED BY <1>2, <3>1, InsertedRow
  <2>6. table'[t].balances = WalletBalances(t)
    <3> DEFINE old == table[t].balances
               m == [a \in DOMAIN b \cup DOMAIN old |-> IF a \in DOMAIN b THEN b[a] ELSE old[a]]
               row == [listed |-> TRUE, confirmed |-> c, old |-> table[t].old, fees |-> Fee, balances |-> m]
    <3>1. table' = [table EXCEPT ![t] = row]
      BY <2>1 DEF insert_or_update_payment
    <3>2. DOMAIN old \subseteq Touched(t)
      BY <1>2 DEF TableForms
    <3>3. m = b
      BY <2>4, <3>2
    <3> HIDE DEF m
    <3>4. row.balances = m
      OBVIOUS
    <3> HIDE DEF row
    <3>5. table'[t] = row
      BY <1>2, <3>1
    <3> QED BY <3>3, <3>4, <3>5 DEF b
  <2>7. OnceBroadcast'
    <3>1. syncs'[s].txs \in {syncs[s].txs, NotSeen} /\ DOMAIN syncs'[s] = SyncFields
      BY <2>2, <2>3
    <3>2. DOMAIN syncs' = Syncs /\ \A r \in Syncs \ {s} : syncs'[r] = syncs[r]
      BY <2>3
    <3> HIDE DEF was
    <3> QED BY <1>1, <3>1, <3>2, SyncStep
  <2>8. TableForms'
    <3>1. \A r \in Syncs : DOMAIN syncs'[r] = SyncFields
      BY <1>2, <2>2, <2>3 DEF TableForms
    <3>2. \A u \in Txs : /\ DOMAIN table'[u] = RowFields
                         /\ table'[u].listed \in BOOLEAN /\ table'[u].confirmed \in BOOLEAN /\ table'[u].old \in BOOLEAN
                         /\ DOMAIN table'[u].balances \subseteq Touched(u)
      BY <1>2, <2>4, <2>5 DEF TableForms
    <3>3. \A u \in Txs : Touched(u)' = Touched(u)
      BY <1>1, SameMoves
    <3>4. /\ (kind \in [Txs -> PaymentKinds] /\ chain \in [Txs -> Where] /\ view \in [Txs -> Where] /\ DOMAIN senders = Txs)'
          /\ DOMAIN table' = Txs
      BY <1>1, <1>2, <2>5 DEF TableForms
    <3> QED BY <2>3, <3>1, <3>2, <3>3, <3>4 DEF TableForms
  <2>9. c => view[t] = "block"
    BY <2>c DEF TableInv, OnceBroadcast
  <2>10. ConfirmedRows'
    <3>1. SUFFICES ASSUME NEW u \in Txs, table'[u].listed, table'[u].confirmed
                   PROVE  view[u] = "block" /\ table'[u].fees = Fee /\ table'[u].balances = WalletBalances(u)
      BY <1>1, SameMoves DEF ConfirmedRows, Listed
    <3>2. CASE u = t
      BY <2>5, <2>6, <2>9, <3>1, <3>2
    <3>3. CASE u # t
      <4>1. table'[u] = table[u]
        BY <2>5, <3>3
      <4> QED BY <3>1, <4>1 DEF TableInv, ConfirmedRows, Listed
    <3> QED BY <3>2, <3>3
  <2>11. ASSUME s \in clean PROVE SyncAgrees(s)'
    <3>1. Found(s)' = Found(s) /\ t \in Found(s) /\ Found(s) \subseteq Txs
      BY <1>1, <1>3, <2>2, <2>3, <2>11 DEF Found
    <3>2. \A u \in Txs \ {t} : /\ RowAgrees(u)' = RowAgrees(u) /\ (u \in Listed' <=> u \in Listed)
                               /\ (u \in Unconfirmed' <=> u \in Unconfirmed)
      BY <1>1, <2>5 DEF RowAgrees, Listed, Unconfirmed
    <3>3. RowAgrees(t)'
      <4>1. table'[t].confirmed = (view[t] = "block")
        BY <1>3, <2>c, <2>5, <2>11
      <4> QED BY <1>1, <2>5, <4>1 DEF RowAgrees, Listed
    <3>4. \A u \in syncs'[s].todo : u \in Txs \ {t} /\ u \in was.todo
      BY <1>3, <2>2, <2>3, <2>11, <3>1
    <3>5. \A u \in syncs'[s].todo :
            syncs'[s].payments[u] = IF u \notin Listed' THEN "none" ELSE IF table'[u].confirmed THEN "complete" ELSE "pending"
      BY <1>3, <2>2, <2>3, <2>5, <2>11, <3>2, <3>4
    <3>6. \A u \in Found(s)' \ syncs'[s].todo : RowAgrees(u)'
      BY <1>3, <2>2, <2>3, <2>11, <3>1, <3>2, <3>3
    <3>7. Unconfirmed' \ Found(s)' \subseteq syncs'[s].unconfirmed
      <4>1. Unconfirmed' \subseteq Txs
        BY DEF Unconfirmed, Listed
      <4> QED BY <1>3, <2>2, <2>3, <2>11, <3>1, <3>2, <4>1
    <3>8. /\ syncs'[s].txs = view' /\ syncs'[s].at = "emit" /\ syncs'[s].todo \subseteq Found(s)'
      BY <1>1, <1>3, <2>2, <2>3, <2>11, <3>1
    <3> QED BY <3>5, <3>6, <3>7, <3>8 DEF SyncAgrees
  <2>12. CleanSyncs'
    BY <2>1, <2>11 DEF CleanSyncs
  <2> QED BY <2>1, <2>7, <2>8, <2>10, <2>12 DEF TableInv, ListedAgrees
<1>5. CASE ~UpdatedNeeded(s, t)
  <2> DEFINE next == [was EXCEPT !.todo = @ \ {t}]
  <2>1. /\ syncs' = [syncs EXCEPT ![s] = next] /\ table' = table /\ clean' = clean /\ listed' = listed
    BY <1>5 DEF UpdatePayment, ghosts
  <2>2. /\ DOMAIN next = SyncFields /\ next.txs = was.txs /\ next.at = "loop" /\ next.todo = was.todo \ {t}
        /\ next.payments = was.payments /\ next.unconfirmed = was.unconfirmed
    <3>1. was.at = "loop"
      BY <1>1
    <3> HIDE DEF was
    <3> QED BY <1>2, <3>1 DEF SyncFields
  <2> HIDE DEF next
  <2>3. /\ DOMAIN syncs' = Syncs /\ syncs'[s] = next /\ \A r \in Syncs \ {s} : syncs'[r] = syncs[r]
    BY <1>2, <2>1
  <2>4. OnceBroadcast' /\ TableForms' /\ ConfirmedRows'
    <3>1. syncs'[s].txs = syncs[s].txs /\ DOMAIN syncs'[s] = SyncFields
      BY <2>2, <2>3
    <3> QED BY <1>1, <1>2, <2>1, <2>3, <3>1, SyncStep
  <2>5. /\ TableAgrees' = TableAgrees
        /\ \A r \in Syncs : syncs'[r] = syncs[r] /\ SyncAgrees(r) => SyncAgrees(r)'
    BY <1>1, <1>2, <2>1, SameTable
  <2>6. ASSUME s \in clean PROVE SyncAgrees(s)'
    <3>1. Found(s)' = Found(s) /\ t \in Found(s) /\ Found(s) \subseteq Txs
      BY <1>1, <1>3, <2>2, <2>3, <2>6 DEF Found
    <3>2. Listed' = Listed /\ Unconfirmed' = Unconfirmed /\ \A u \in Txs : RowAgrees(u)' = RowAgrees(u)
      BY <1>1, <2>1 DEF Listed, Unconfirmed, RowAgrees
    <3>3. RowAgrees(t)
      <4>1. t \in Listed /\ (table[t].confirmed \/ view[t] # "block")
        <5>1. was.payments[t] # "none" /\ ~(was.payments[t] = "pending" /\ was.txs[t] = "block")
          BY <1>5 DEF UpdatedNeeded
        <5> QED BY <1>1, <1>3, <2>6, <5>1
      <4>2. table[t].confirmed => view[t] = "block"
        BY <4>1 DEF TableInv, ConfirmedRows
      <4>3. table[t].confirmed \in BOOLEAN
        BY <1>2 DEF TableForms
      <4> QED BY <4>1, <4>2, <4>3 DEF RowAgrees
    <3>4. \A u \in syncs'[s].todo :
            syncs'[s].payments[u] = IF u \notin Listed' THEN "none" ELSE IF table'[u].confirmed THEN "complete" ELSE "pending"
      BY <1>3, <2>1, <2>2, <2>3, <2>6, <3>2
    <3>5. \A u \in Found(s)' \ syncs'[s].todo : RowAgrees(u)'
      BY <1>3, <2>2, <2>3, <2>6, <3>1, <3>2, <3>3
    <3>6. Unconfirmed' \ Found(s)' \subseteq syncs'[s].unconfirmed
      BY <1>3, <2>2, <2>3, <2>6, <3>1, <3>2
    <3>7. /\ syncs'[s].txs = view' /\ syncs'[s].at = "loop" /\ syncs'[s].todo \subseteq Found(s)'
      BY <1>1, <1>3, <2>2, <2>3, <2>6, <3>1
    <3> QED BY <3>4, <3>5, <3>6, <3>7 DEF SyncAgrees
  <2>7. CleanSyncs'
    BY <2>1, <2>3, <2>5, <2>6 DEF TableInv, CleanSyncs
  <2> QED BY <2>1, <2>4, <2>5, <2>7 DEF TableInv, ListedAgrees
<1> QED BY <1>4, <1>5

\* A clean sync that has been through LWK's transactions and deletes the rest that is old leaves a table that agrees.
LEMMA DeleteKeeps == ASSUME PaymentsAreReal, TableInv, NEW s \in Syncs, DeleteUnknown(s) PROVE TableInv'
<1>1. /\ syncs[s].at = "loop" /\ syncs[s].todo = {} /\ UNCHANGED <<kind, chain, view, senders>>
      /\ table' = [t \in Txs |-> IF t \in Unknown(s) THEN NoRow ELSE table[t]]
      /\ syncs' = [syncs EXCEPT ![s].at = "read"]
      /\ IF Unknown(s) # {} THEN clean' = clean \cap {s} /\ listed' = FALSE ELSE clean' = clean /\ listed' = listed
  BY DEF DeleteUnknown, SyncAt, Goto, Changed, ghosts
<1>2. TableForms /\ DOMAIN syncs = Syncs /\ DOMAIN syncs[s] = SyncFields
  BY DEF TableInv, TableForms
<1>3. DOMAIN table' = Txs /\ \A t \in Txs : table'[t] = IF t \in Unknown(s) THEN NoRow ELSE table[t]
  BY <1>1
<1>4. /\ DOMAIN syncs' = Syncs /\ \A r \in Syncs \ {s} : syncs'[r] = syncs[r]
      /\ DOMAIN syncs'[s] = SyncFields /\ syncs'[s].txs = syncs[s].txs /\ syncs'[s].at = "read"
  BY <1>1, <1>2 DEF SyncFields
<1>5. /\ DOMAIN NoRow = RowFields /\ NoRow.listed = FALSE /\ NoRow.confirmed = FALSE /\ NoRow.old = FALSE
      /\ DOMAIN NoRow.balances = {}
  BY DEF NoRow, RowFields
<1>6. OnceBroadcast'
  BY <1>1, <1>4, SyncStep
<1>7. TableForms'
  <2>1. \A u \in Txs : /\ DOMAIN table'[u] = RowFields
                       /\ table'[u].listed \in BOOLEAN /\ table'[u].confirmed \in BOOLEAN /\ table'[u].old \in BOOLEAN
                       /\ DOMAIN table'[u].balances \subseteq Touched(u)
    <3> TAKE u \in Txs
    <3>1. CASE u \in Unknown(s)
      <4>1. table'[u] = NoRow
        BY <1>3, <3>1
      <4> QED BY <1>5, <4>1
    <3>2. CASE u \notin Unknown(s)
      <4>1. table'[u] = table[u]
        BY <1>3, <3>2
      <4> QED BY <1>2, <4>1 DEF TableForms
    <3> QED BY <3>1, <3>2
  <2>2. \A r \in Syncs : DOMAIN syncs'[r] = SyncFields
    BY <1>2, <1>4 DEF TableForms
  <2>3. \A u \in Txs : Touched(u)' = Touched(u)
    BY <1>1, SameMoves
  <2>4. (kind \in [Txs -> PaymentKinds] /\ chain \in [Txs -> Where] /\ view \in [Txs -> Where] /\ DOMAIN senders = Txs)'
    BY <1>1, <1>2 DEF TableForms
  <2> QED BY <1>3, <1>4, <2>1, <2>2, <2>3, <2>4 DEF TableForms
<1>8. ConfirmedRows'
  <2>1. SUFFICES ASSUME NEW u \in Txs, table'[u].listed, table'[u].confirmed
                 PROVE  view[u] = "block" /\ table'[u].fees = Fee /\ table'[u].balances = WalletBalances(u)
    BY <1>1, SameMoves DEF ConfirmedRows, Listed
  <2>2. u \notin Unknown(s)
    BY <1>3, <1>5, <2>1
  <2>3. table'[u] = table[u]
    BY <1>3, <2>2
  <2> QED BY <2>1, <2>3 DEF TableInv, ConfirmedRows, Listed
<1>9. ASSUME s \in clean PROVE TableAgrees' /\ SyncAgrees(s)'
  <2>1. /\ syncs[s].txs = view /\ (\A t \in Found(s) : RowAgrees(t)) /\ Unconfirmed \ Found(s) \subseteq syncs[s].unconfirmed
    <3>1. SyncAgrees(s)
      BY <1>9 DEF TableInv, CleanSyncs
    <3> QED BY <1>1, <3>1 DEF SyncAgrees
  <2>2. Known(syncs[s].txs) = Found(s) /\ Found(s) = {t \in Txs : view[t] # "none"}
    BY <2>1 DEF Known, Found
  <2>3. SUFFICES ASSUME NEW t \in Txs
                 PROVE  IF view[t] # "none" THEN RowAgrees(t)' ELSE t \in Listed' => t \in Unconfirmed' /\ ~table'[t].old
    BY <1>1, <1>4, <2>1 DEF TableAgrees, SyncAgrees
  <2>4. CASE view[t] # "none"
    <3>1. t \notin Unknown(s) /\ RowAgrees(t)
      BY <2>1, <2>2, <2>4 DEF Unknown
    <3>2. table'[t] = table[t]
      BY <1>3, <3>1
    <3>3. RowAgrees(t)'
      BY <1>1, <3>1, <3>2 DEF RowAgrees, Listed
    <3> QED BY <2>4, <3>3
  <2>5. CASE view[t] = "none"
    <3>1. SUFFICES ASSUME t \in Listed' PROVE t \in Unconfirmed' /\ ~table'[t].old
      BY <2>5
    <3>2. t \notin Unknown(s)
      BY <1>3, <1>5, <3>1 DEF Listed
    <3>3. table'[t] = table[t]
      BY <1>3, <3>2
    <3>4. t \in Listed
      BY <3>1, <3>3 DEF Listed
    <3>5. ~table[t].confirmed
      BY <2>5, <3>4 DEF TableInv, ConfirmedRows
    <3>6. t \in Unconfirmed
      BY <3>4, <3>5 DEF Unconfirmed
    <3>7. t \in syncs[s].unconfirmed \ Known(syncs[s].txs)
      BY <2>1, <2>2, <2>5, <3>6
    <3>8. ~table[t].old
      BY <3>2, <3>7 DEF Unknown
    <3> QED BY <3>1, <3>3, <3>5, <3>8 DEF Unconfirmed
  <2> QED BY <2>4, <2>5
<1>10. CASE Unknown(s) = {}
  <2>1. \A t \in Txs : table'[t] = table[t]
    BY <1>3, <1>10
  <2>2. /\ TableAgrees' = TableAgrees
        /\ \A r \in Syncs : syncs'[r] = syncs[r] /\ SyncAgrees(r) => SyncAgrees(r)'
    BY <1>1, <1>2, <2>1, SameTable
  <2>3. CleanSyncs'
    BY <1>1, <1>4, <1>9, <1>10, <2>2 DEF TableInv, CleanSyncs
  <2> QED BY <1>1, <1>6, <1>7, <1>8, <1>10, <2>2, <2>3 DEF TableInv, ListedAgrees
<1>11. CASE Unknown(s) # {}
  <2>1. CleanSyncs'
    BY <1>1, <1>9, <1>11 DEF CleanSyncs
  <2> QED BY <1>1, <1>6, <1>7, <1>8, <1>11, <2>1 DEF TableInv, ListedAgrees
<1> QED BY <1>10, <1>11

\* Time that passes unsettles what every sync knows, and no row that is confirmed.
LEMMA AgeKeeps == ASSUME PaymentsAreReal, TableInv, NEW t \in Txs, GrowOld(t) PROVE TableInv'
<1> DEFINE r == [table[t] EXCEPT !.old = TRUE]
<1>1. /\ ~table[t].confirmed /\ UNCHANGED <<kind, chain, view, senders, syncs>>
      /\ table' = [table EXCEPT ![t] = r] /\ clean' = clean \ Syncs /\ listed' = FALSE
  BY DEF GrowOld, Unconfirmed
<1>2. TableForms
  BY DEF TableInv
<1>3. /\ DOMAIN r = RowFields /\ r.listed = table[t].listed /\ r.confirmed = table[t].confirmed /\ r.old = TRUE
      /\ r.balances = table[t].balances
  BY <1>2 DEF TableForms, RowFields
<1> HIDE DEF r
<1>4. DOMAIN table' = Txs /\ table'[t] = r /\ \A u \in Txs \ {t} : table'[u] = table[u]
  BY <1>1, <1>2 DEF TableForms
<1>5. TableForms'
  <2>1. \A u \in Txs : /\ DOMAIN table'[u] = RowFields
                       /\ table'[u].listed \in BOOLEAN /\ table'[u].confirmed \in BOOLEAN /\ table'[u].old \in BOOLEAN
                       /\ DOMAIN table'[u].balances \subseteq Touched(u)
    BY <1>2, <1>3, <1>4 DEF TableForms
  <2>2. \A u \in Txs : Touched(u)' = Touched(u)
    BY <1>1, SameMoves
  <2>3. /\ (kind \in [Txs -> PaymentKinds] /\ chain \in [Txs -> Where] /\ view \in [Txs -> Where] /\ DOMAIN senders = Txs)'
        /\ (DOMAIN syncs = Syncs /\ \A s \in Syncs : DOMAIN syncs[s] = SyncFields)'
    BY <1>1, <1>2 DEF TableForms
  <2> QED BY <1>4, <2>1, <2>2, <2>3 DEF TableForms
<1>6. OnceBroadcast'
  BY <1>1, SameMoves DEF TableInv, OnceBroadcast
<1>7. ConfirmedRows'
  <2>1. SUFFICES ASSUME NEW u \in Txs, table'[u].listed, table'[u].confirmed
                 PROVE  view[u] = "block" /\ table'[u].fees = Fee /\ table'[u].balances = WalletBalances(u)
    BY <1>1, SameMoves DEF ConfirmedRows, Listed
  <2>2. table'[u] = table[u]
    BY <1>1, <1>3, <1>4, <2>1
  <2> QED BY <2>1, <2>2 DEF TableInv, ConfirmedRows, Listed
<1>8. CleanSyncs'
  BY <1>1 DEF CleanSyncs
<1> QED BY <1>1, <1>5, <1>6, <1>7, <1>8 DEF TableInv, ListedAgrees

\* A restart forgets the syncs, and the table is as it was.
LEMMA RestartKeepsTable == ASSUME TableInv, RestartWallet PROVE TableInv'
<1>1. /\ senders' = [t \in Txs |-> IF senders[t] = "idle" THEN "idle" ELSE "done"]
      /\ syncs' = [s \in Syncs |-> Idle] /\ clean' = {} /\ UNCHANGED <<kind, chain, view, table, listed>>
  BY DEF RestartWallet
<1>2. TableForms'
  <2>1. \A s \in Syncs : DOMAIN syncs'[s] = SyncFields
    BY <1>1 DEF Idle, SyncFields
  <2> QED BY <1>1, <2>1, SameMoves DEF TableInv, TableForms
<1>3. OnceBroadcast'
  <2>1. SUFFICES ASSUME NEW t \in Txs
                 PROVE  /\ senders'[t] \in {"idle", "broadcast"} => chain[t] = "none"
                        /\ senders'[t] \in {"broadcast", "record"} => IsSend(t)
                        /\ view[t] = "block" => chain[t] = "block"
                        /\ \A r \in Syncs : syncs'[r].txs[t] = "block" => view[t] = "block"
    BY <1>1, SameMoves DEF OnceBroadcast
  <2>2. \A r \in Syncs : syncs'[r].txs[t] = "none"
    BY <1>1 DEF Idle, NotSeen
  <2> QED BY <1>1, <2>2 DEF TableInv, OnceBroadcast
<1>4. ConfirmedRows'
  BY <1>1, SameMoves DEF TableInv, ConfirmedRows, Listed
<1>5. TableAgrees' = TableAgrees
  BY <1>1, SameTable DEF TableInv
<1>6. CleanSyncs'
  BY <1>1 DEF CleanSyncs
<1> QED BY <1>1, <1>2, <1>3, <1>4, <1>5, <1>6 DEF TableInv, ListedAgrees

LEMMA TableKeeps == ASSUME PaymentsAreReal, TableInv, [PaymentNext]_paymentVars PROVE TableInv'
<1>1. CASE UNCHANGED paymentVars
  BY <1>1, TableStays DEF paymentVars, TableInv, TableForms, OnceBroadcast
<1>2. CASE \E t \in Txs : BuildTx(t) \/ Broadcast(t) \/ Emit(t) \/ EmitNothing(t) \/ WriteBalance(t) \/ Receive(t) \/ Confirm(t) \/ Evict(t)
  BY <1>2, CallKeeps
<1>3. CASE \E t \in Txs : Record(t) \/ GrowOld(t)
  BY <1>3, RecordKeeps, AgeKeeps
<1>4. CASE \E s \in Syncs : Scan(s) \/ ListPayments(s) \/ DeleteUnknown(s) \/ SyncReads(s) \/ SyncWrites(s)
  BY <1>4, TableScanKeeps, ListKeeps, DeleteKeeps, BalanceKeeps
<1>5. CASE \E s \in Syncs, t \in Txs : UpdatePayment(s, t)
  BY <1>5, UpdateKeeps
<1>6. CASE RestartWallet
  BY <1>6, RestartKeepsTable
<1> QED BY <1>1, <1>2, <1>3, <1>4, <1>5, <1>6 DEF PaymentNext

\* The table of payments (sync_payments_with_chain_data, insert_or_update_payment_with_wallet_tx): a payment that is said
\* to be confirmed is in a block, with the amounts of its transaction, whatever its call inserted before; and after a
\* sync that nobody interfered with the table has what LWK knows and, of the rest, only what may still reach it. For any
\* number of payments and syncs, and for any interleaving of them with calls, blocks, evictions and restarts.
THEOREM TableFollowsWallet == PaymentsAreReal /\ PaymentSpec => []PaymentsAreListed
<1> SUFFICES ASSUME PaymentsAreReal PROVE PaymentSpec => []PaymentsAreListed
  OBVIOUS
<1>1. PaymentInit => TableInv
  BY TableStart
<1>2. TableInv /\ [PaymentNext]_paymentVars => TableInv'
  BY TableKeeps
<1>3. TableInv => PaymentsAreListed
  <2>1. SUFFICES ASSUME TableInv PROVE PaymentsAreListed
    OBVIOUS
  <2>2. \A t \in Listed : t \in Txs
    BY DEF Listed
  <2>3. \A t \in Listed : table[t].confirmed =>
          chain[t] = "block" /\ table[t].fees = Fee /\ table[t].balances = WalletBalances(t)
    BY <2>1, <2>2 DEF TableInv, OnceBroadcast, ConfirmedRows
  <2>4. listed => TableAgrees
    BY <2>1 DEF TableInv, ListedAgrees
  <2> QED BY <2>3, <2>4 DEF PaymentsAreListed, TableAgrees, RowAgrees
<1> QED BY <1>1, <1>2, <1>3, PTL DEF PaymentSpec
=============================================================================
