-------------------------- MODULE NotificationsProofs --------------------------
(***************************************************************************)
(* For any swaps, any capacity of the channels and any number of breaks:   *)
(* the news of a swap arrives unless the connection lost some of it, and a *)
(* call that waits gives a true answer. The capacity is at least one, as   *)
(* that of a broadcast channel of tokio; the swaps of a wallet are         *)
(* finitely many. And for any jobs of push notifications: no job is        *)
(* forgotten.                                                              *)
(***************************************************************************)
EXTENDS Notifications, NotificationJobs, SequenceTheorems, FiniteSetTheorems, TLAPS

\* What NewsAssumption says of the constants, for the steps to cite
Bounds == IsFiniteSet(Swaps) /\ Capacity \in Nat \ {0} /\ MaxBreaks \in Nat

-----------------------------------------------------------------------------
(* The channels *)

\* What is left of a channel after its oldest messages were dropped is part of it.
LEMMA KeptIsPart ==
  ASSUME NEW S, NEW q \in Seq(S), Capacity \in Nat
  PROVE  /\ Kept(q) \in Seq(S) /\ Len(Kept(q)) <= Capacity
         /\ ToSet(Kept(q)) \subseteq ToSet(q)
         /\ ToSet(q) \subseteq ToSet(Kept(q)) \cup Lost(q)
         /\ Lost(q) \subseteq ToSet(q)
<1> DEFINE m == (IF Len(q) > Capacity THEN Len(q) - Capacity ELSE 0) + 1
           n == Len(q)
<1>1. m \in Nat \ {0} /\ n \in Nat
  BY LenProperties
<1>2. Kept(q) = SubSeq(q, m, n)
  BY DEF Kept
<1>3. \A i \in m .. n : q[i] \in S
  BY <1>1, ElementOfSeq
<1> HIDE DEF m, n
<1>4. /\ SubSeq(q, m, n) \in Seq(S)
      /\ Len(SubSeq(q, m, n)) = IF m <= n THEN n - m + 1 ELSE 0
      /\ \A i \in 1 .. n - m + 1 : SubSeq(q, m, n)[i] = q[m + i - 1]
  <2>1. m \in Int /\ n \in Int
    BY <1>1
  <2> QED BY <2>1, <1>3, SubSeqProperties
<1>5. n - m + 1 <= Capacity
  BY <1>1 DEF m, n
<1>6. Len(Kept(q)) <= Capacity
  BY <1>1, <1>2, <1>4, <1>5
<1>7. ToSet(Kept(q)) \subseteq ToSet(q)
  <2> SUFFICES ASSUME NEW i \in DOMAIN Kept(q)
               PROVE  Kept(q)[i] \in ToSet(q)
    BY DEF ToSet
  <2>1. i \in 1 .. n - m + 1
    <3>1. DOMAIN Kept(q) = 1 .. Len(Kept(q))
      BY <1>2, <1>4, LenProperties
    <3> QED BY <3>1, <1>1, <1>2, <1>4
  <2>2. m + i - 1 \in 1 .. n
    BY <2>1, <1>1
  <2>3. DOMAIN q = 1 .. n
    BY LenProperties DEF n
  <2> QED BY <2>1, <2>2, <2>3, <1>2, <1>4 DEF ToSet
<1> QED BY <1>2, <1>4, <1>6, <1>7 DEF Lost

\* The elements of a sequence that grew by one, and of the two parts of one that is read.
LEMMA SetOfAppend ==
  ASSUME NEW S, NEW q \in Seq(S), NEW e \in S
  PROVE  Append(q, e) \in Seq(S) /\ ToSet(Append(q, e)) = ToSet(q) \cup {e}
<1>1. /\ Append(q, e) \in Seq(S) /\ Len(Append(q, e)) = Len(q) + 1
      /\ \A i \in 1 .. Len(q) : Append(q, e)[i] = q[i]
      /\ Append(q, e)[Len(q) + 1] = e
  BY AppendProperties
<1>2. DOMAIN q = 1 .. Len(q) /\ Len(q) \in Nat /\ DOMAIN Append(q, e) = 1 .. Len(q) + 1
  BY <1>1, LenProperties
<1> QED BY <1>1, <1>2 DEF ToSet

\* What leaves a channel is its first element, and nothing else.
LEMMA SetOfTail ==
  ASSUME NEW S, NEW q \in Seq(S), q # <<>>
  PROVE  /\ Head(q) \in S /\ Tail(q) \in Seq(S) /\ Len(Tail(q)) <= Len(q)
         /\ ToSet(q) = {Head(q)} \cup ToSet(Tail(q))
<1>1. /\ Head(q) \in S /\ Tail(q) \in Seq(S) /\ Len(Tail(q)) = Len(q) - 1
      /\ \A i \in 1 .. Len(Tail(q)) : Tail(q)[i] = q[i + 1]
  BY HeadTailProperties
<1>2. DOMAIN q = 1 .. Len(q) /\ Len(q) \in Nat \ {0} /\ DOMAIN Tail(q) = 1 .. Len(q) - 1
  BY <1>1, LenProperties, EmptySeq
<1>3. Head(q) = q[1]
  OBVIOUS
<1>4. Len(Tail(q)) <= Len(q)
  BY <1>1, <1>2
<1>5. ASSUME NEW i \in DOMAIN q PROVE q[i] \in {Head(q)} \cup ToSet(Tail(q))
  <2>1. CASE i = 1
    BY <2>1, <1>3
  <2>2. CASE i # 1
    <3>1. i - 1 \in DOMAIN Tail(q) /\ Tail(q)[i - 1] = q[i]
      BY <2>2, <1>1, <1>2
    <3> QED BY <3>1 DEF ToSet
  <2> QED BY <2>1, <2>2
<1>6. ASSUME NEW i \in DOMAIN Tail(q) PROVE Tail(q)[i] \in ToSet(q)
  BY <1>1, <1>2 DEF ToSet
<1>7. Head(q) \in ToSet(q)
  BY <1>2, <1>3 DEF ToSet
<1> QED BY <1>1, <1>4, <1>5, <1>6, <1>7 DEF ToSet

\* What a channel holds after sending is what it held and what was sent.
LEMMA SetOfConcat ==
  ASSUME NEW S, NEW p \in Seq(S), NEW q \in Seq(S)
  PROVE  p \o q \in Seq(S) /\ ToSet(p \o q) = ToSet(p) \cup ToSet(q)
<1>1. /\ p \o q \in Seq(S) /\ Len(p \o q) = Len(p) + Len(q)
      /\ \A i \in 1 .. Len(p) + Len(q) : (p \o q)[i] = IF i <= Len(p) THEN p[i] ELSE q[i - Len(p)]
  BY ConcatProperties
<1>2. /\ DOMAIN p = 1 .. Len(p) /\ DOMAIN q = 1 .. Len(q) /\ DOMAIN (p \o q) = 1 .. Len(p) + Len(q)
      /\ Len(p) \in Nat /\ Len(q) \in Nat
  BY <1>1, LenProperties
<1>3. ASSUME NEW i \in DOMAIN (p \o q) PROVE (p \o q)[i] \in ToSet(p) \cup ToSet(q)
  <2>1. CASE i <= Len(p)
    BY <2>1, <1>1, <1>2 DEF ToSet
  <2>2. CASE ~(i <= Len(p))
    <3>1. i - Len(p) \in DOMAIN q
      BY <2>2, <1>2
    <3> QED BY <3>1, <2>2, <1>1, <1>2 DEF ToSet
  <2> QED BY <2>1, <2>2
<1>4. ASSUME NEW i \in DOMAIN p PROVE p[i] \in ToSet(p \o q)
  <2>1. i \in 1 .. Len(p) + Len(q) /\ i <= Len(p)
    BY <1>2
  <2> QED BY <2>1, <1>1, <1>2 DEF ToSet
<1>5. ASSUME NEW i \in DOMAIN q PROVE q[i] \in ToSet(p \o q)
  <2>1. i + Len(p) \in 1 .. Len(p) + Len(q) /\ ~(i + Len(p) <= Len(p)) /\ i + Len(p) - Len(p) = i
    BY <1>2
  <2>2. (p \o q)[i + Len(p)] = q[i]
    BY <2>1, <1>1
  <2> QED BY <2>1, <2>2, <1>2 DEF ToSet
<1> QED BY <1>1, <1>3, <1>4, <1>5 DEF ToSet

\* An order of a finite set has exactly its elements.
LEMMA SetOfOrder ==
  ASSUME NEW T, IsFiniteSet(T), NEW q \in SetToSeqs(T)
  PROVE  q \in Seq(T) /\ ToSet(q) = T
<1> DEFINE D == 1 .. Cardinality(T)
<1>1. Cardinality(T) \in Nat
  BY FS_CardinalityType
<1>2. q \in [D -> T] /\ \A i, j \in D : i # j => q[i] # q[j]
  BY DEF SetToSeqs
<1>3. q \in Seq(T)
  BY <1>1, <1>2, SeqDef
<1>4. q \in Injection(D, T)
  BY <1>2 DEF Injection, IsInjective
<1>5. IsFiniteSet(D) /\ Cardinality(D) = Cardinality(T)
  <2>1. 1 \in Int /\ Cardinality(T) \in Int
    BY <1>1
  <2>2. IsFiniteSet(D) /\ Cardinality(D) = IF 1 > Cardinality(T) THEN 0 ELSE Cardinality(T) - 1 + 1
    BY <2>1, FS_Interval
  <2> QED BY <2>2, <1>1
<1>6. q \in Surjection(D, T)
  BY <1>4, <1>5, FS_Injection
<1>7. \A t \in T : \E i \in D : q[i] = t
  BY <1>6 DEF Surjection
<1> QED BY <1>2, <1>3, <1>7 DEF ToSet

\* A message is sent: whoever is in the channel or is sent is in it then, or was dropped.
LEMMA Sent ==
  ASSUME NEW S, NEW q \in Seq(S), NEW e \in S, Capacity \in Nat
  PROVE  /\ Kept(Append(q, e)) \in Seq(S) /\ Len(Kept(Append(q, e))) <= Capacity
         /\ ToSet(Kept(Append(q, e))) \subseteq ToSet(q) \cup {e}
         /\ ToSet(q) \cup {e} \subseteq ToSet(Kept(Append(q, e))) \cup Lost(Append(q, e))
         /\ Lost(Append(q, e)) \subseteq ToSet(q) \cup {e}
<1>1. Append(q, e) \in Seq(S) /\ ToSet(Append(q, e)) = ToSet(q) \cup {e}
  BY SetOfAppend
<1> DEFINE p == Append(q, e)
<1> HIDE DEF p
<1>2. p \in Seq(S) /\ ToSet(p) = ToSet(q) \cup {e}
  BY <1>1 DEF p
<1>3. /\ Kept(p) \in Seq(S) /\ Len(Kept(p)) <= Capacity /\ ToSet(Kept(p)) \subseteq ToSet(p)
      /\ ToSet(p) \subseteq ToSet(Kept(p)) \cup Lost(p) /\ Lost(p) \subseteq ToSet(p)
  BY <1>2, KeptIsPart
<1> QED BY <1>2, <1>3 DEF p

\* The ongoing swaps are asked for.
LEMMA Requested ==
  ASSUME NEW q \in Seq(Swaps), NEW T, T \subseteq Swaps, IsFiniteSet(Swaps), Capacity \in Nat,
         NEW swaps \in SetToSeqs(T)
  PROVE  /\ Kept(q \o swaps) \in Seq(Swaps) /\ Len(Kept(q \o swaps)) <= Capacity
         /\ ToSet(Kept(q \o swaps)) \subseteq ToSet(q) \cup T
         /\ ToSet(q) \cup T \subseteq ToSet(Kept(q \o swaps)) \cup Lost(q \o swaps)
         /\ Lost(q \o swaps) \subseteq ToSet(q) \cup T
<1>1. IsFiniteSet(T)
  BY FS_Subset
<1>2. swaps \in Seq(T) /\ ToSet(swaps) = T
  BY <1>1, SetOfOrder
<1>3. swaps \in Seq(Swaps)
  BY <1>2, SeqMonotonic
<1>4. q \o swaps \in Seq(Swaps) /\ ToSet(q \o swaps) = ToSet(q) \cup T
  BY <1>2, <1>3, SetOfConcat
<1> DEFINE p == q \o swaps
<1> HIDE DEF p
<1>5. p \in Seq(Swaps) /\ ToSet(p) = ToSet(q) \cup T
  BY <1>4 DEF p
<1>6. /\ Kept(p) \in Seq(Swaps) /\ Len(Kept(p)) <= Capacity /\ ToSet(Kept(p)) \subseteq ToSet(p)
      /\ ToSet(p) \subseteq ToSet(Kept(p)) \cup Lost(p) /\ Lost(p) \subseteq ToSet(p)
  BY <1>5, KeptIsPart
<1> QED BY <1>5, <1>6 DEF p
-----------------------------------------------------------------------------
(* The inductive invariant *)

Update == [id : Swaps, at : Statuses]
Handled == [at : {"status"}, id : Swaps, news : Statuses \cup {"lockup", "lockedUp", "claim"}]
Emitted == [at : {"emit"}, id : Swaps, news : States]
Waiter == [at : {"waiting", "done"}, id : Swaps, zeroConf : BOOLEAN, heard : {"none", "Pending"},
           answer : States \cup {"none", "PaymentTimeout", "not found"}, paying : BOOLEAN]
Txs == {"lockup", "server", "claim", "refund"}

Types ==
  /\ state \in [Swaps -> States] /\ boltzAt \in [Swaps -> Statuses] /\ onchain \in [Swaps -> SUBSET Txs]
  /\ socket \in {"sleeping", "connecting", "open"} /\ unsent \subseteq tracked /\ tracked \subseteq Swaps
  /\ requests \in Seq(Swaps) /\ payments \in Seq(Swaps) /\ updates \in Seq(Update)
  /\ Len(requests) <= Capacity /\ Len(payments) <= Capacity /\ Len(updates) <= Capacity
  /\ untracked \subseteq Swaps /\ missed \subseteq Swaps /\ unheard \subseteq Swaps /\ breaks \in 0..MaxBreaks
  /\ told \in [Swaps -> States \cup {"none"}]
  /\ task \in {TaskIdle} \cup Handled \cup Emitted
  /\ waiter \in {NoWaiter} \cup Waiter

\* Somewhere on the way of the news of s
Asked(s) == s \in untracked \/ s \in ToSet(requests) \/ s \in tracked
Changed(s) == s \in ToSet(payments)
Emitting(s) == task.at = "emit" /\ task.id = s
Handling(s, news) == task.at = "status" /\ task.id = s /\ task.news \in news
Sending(s, status) == [id |-> s, at |-> status] \in ToSet(updates)
Replied(s, status) == s \in unsent \/ Sending(s, status)

\* A swap that was not created is nowhere
Known(s) ==
  /\ state[s] = "None" <=> boltzAt[s] = "none"
  /\ Asked(s) \/ Changed(s) \/ Emitting(s) => state[s] # "None"

\* What a row says is on the chains: nothing happened without a lockup, and a claim is not forgotten
RowIsTrue(s) ==
  /\ state[s] \in Happened => "lockup" \in onchain[s]
  /\ state[s] = "claiming" => "claim" \in onchain[s]
  /\ "claim" \in onchain[s] => state[s] \in {"claiming", "RefundPending", "Refunded", "Complete"}
  /\ state[s] = "Failed" => boltzAt[s] = "expired"

\* So is what Boltz says, and swap.created does not come after it gave the swap up
BoltzIsTrue(s) ==
  /\ boltzAt[s] \in {"mempool", "locked"} \/ Sending(s, "mempool") \/ Sending(s, "locked")
       \/ Handling(s, {"mempool", "locked", "claim", "lockedUp"}) => "lockup" \in onchain[s]
  /\ Handling(s, {"claim"}) => state[s] \in Happened
  /\ Sending(s, "expired") \/ Handling(s, {"expired"}) => boltzAt[s] = "expired"
  /\ boltzAt[s] = "expired" => ~Sending(s, "created") /\ ~Handling(s, {"created", "lockup", "lockedUp"})

RowInv == \A s \in Swaps : Known(s) /\ RowIsTrue(s) /\ BoltzIsTrue(s)

\* What the listeners were not told of is on its way to them
EventComes(s) ==
  /\ Emitting(s) => task.news = state[s] \/ Changed(s)
  /\ state[s] \in Happened => told[s] = state[s] \/ Changed(s) \/ Emitting(s)

\* An ongoing swap is asked for, unless the connection that will do so is yet to be made
IsAsked(s) == state[s] \in Ongoing => Asked(s) \/ socket # "open"

\* What Boltz has to say of a swap it was asked for is on its way to the task, or is handled
HandlingOf(status) ==
  CASE status = "created" -> {"created", "lockup", "lockedUp"}
    [] status = "locked"  -> {"locked", "claim"}
    [] OTHER -> {status}
StatusComes(s) ==
  s \in tracked => Settled(s) \/ Replied(s, boltzAt[s]) \/ Handling(s, HandlingOf(boltzAt[s]))

\* Of a swap that lost something nothing is promised
Follows(s) ==
  /\ s \notin unheard => EventComes(s)
  /\ s \notin missed => IsAsked(s) /\ StatusComes(s)

NewsInv == Types /\ RowInv /\ \A s \in Swaps : Follows(s)

\* What is told is true, and stays true
EventInv ==
  task.at = "emit" => /\ task.news \in Happened => state[task.id] \in Happened
                      /\ task.news = "Complete" => state[task.id] = "Complete"

\* A swap that timed out or failed while its lockup was neither out nor about to be sent
Forsaken(s) == state[s] \in {"TimedOut", "Failed"} /\ ~IsPaying(s)

\* Nothing times out but the swap that was waited for, and what then was not about to be paid will not be
CallInv ==
  /\ \A s \in Swaps : state[s] = "TimedOut" => waiter.at = "done"
  /\ waiter.at = "waiting" => /\ state[waiter.id] # "None"
                              /\ waiter.heard # "none" => state[waiter.id] \in Happened
  /\ AnswerIsTrue
  /\ waiter.at = "done" /\ waiter.answer = "PaymentTimeout" /\ ~waiter.paying => Forsaken(waiter.id)

AnswerInv == NewsInv /\ EventInv /\ CallInv

-----------------------------------------------------------------------------
(* Types *)

\* What a change of a row sends, and what it keeps of the channel.
LEMMA UpdateSwapSends ==
  ASSUME Bounds, Types, NEW s \in Swaps, NEW to \in States, UpdateSwap(s, to)
  PROVE  /\ state' = [state EXCEPT ![s] = to] /\ state' \in [Swaps -> States]
         /\ payments' \in Seq(Swaps) /\ Len(payments') <= Capacity
         /\ ToSet(payments') \subseteq ToSet(payments) \cup {s}
         /\ ToSet(payments) \cup {s} \subseteq ToSet(payments') \cup unheard'
         /\ unheard \subseteq unheard' /\ unheard' \subseteq Swaps
<1>1. payments \in Seq(Swaps) /\ state \in [Swaps -> States] /\ unheard \subseteq Swaps /\ Capacity \in Nat
  BY DEF Types, Bounds
<1>2. /\ Kept(Append(payments, s)) \in Seq(Swaps) /\ Len(Kept(Append(payments, s))) <= Capacity
      /\ ToSet(Kept(Append(payments, s))) \subseteq ToSet(payments) \cup {s}
      /\ ToSet(payments) \cup {s} \subseteq ToSet(Kept(Append(payments, s))) \cup Lost(Append(payments, s))
      /\ Lost(Append(payments, s)) \subseteq ToSet(payments) \cup {s}
  BY <1>1, Sent
<1>3. ToSet(payments) \subseteq Swaps
  BY <1>1, LenProperties DEF ToSet
<1>4. /\ state' = [state EXCEPT ![s] = to]
      /\ payments' = Kept(Append(payments, s)) /\ unheard' = unheard \cup Lost(Append(payments, s))
  BY DEF UpdateSwap
<1>5. state' \in [Swaps -> States]
  BY <1>1, <1>4
<1> HIDE DEF UpdateSwap
<1> QED BY <1>1, <1>2, <1>3, <1>4, <1>5

\* A request that finds the channel full pushes the oldest one out, and its swap is remembered as missed.
LEMMA TrackSwapIdSends ==
  ASSUME Bounds, Types, NEW s \in Swaps, TrackSwapId(s)
  PROVE  /\ requests' \in Seq(Swaps) /\ Len(requests') <= Capacity
         /\ ToSet(requests') \subseteq ToSet(requests) \cup {s}
         /\ ToSet(requests) \cup {s} \subseteq ToSet(requests') \cup missed'
         /\ missed \subseteq missed' /\ missed' \subseteq Swaps
<1>1. requests \in Seq(Swaps) /\ missed \subseteq Swaps /\ Capacity \in Nat
  BY DEF Types, Bounds
<1>2. /\ Kept(Append(requests, s)) \in Seq(Swaps) /\ Len(Kept(Append(requests, s))) <= Capacity
      /\ ToSet(Kept(Append(requests, s))) \subseteq ToSet(requests) \cup {s}
      /\ ToSet(requests) \cup {s} \subseteq ToSet(Kept(Append(requests, s))) \cup Lost(Append(requests, s))
      /\ Lost(Append(requests, s)) \subseteq ToSet(requests) \cup {s}
  BY <1>1, Sent
<1>3. ToSet(requests) \subseteq Swaps
  BY <1>1, LenProperties DEF ToSet
<1>4. requests' = Kept(Append(requests, s)) /\ missed' = missed \cup Lost(Append(requests, s))
  BY DEF TrackSwapId
<1> QED BY <1>1, <1>2, <1>3, <1>4

\* Every ongoing swap is asked for at a connection, or is one that the new connection missed.
LEMMA ConnectSends ==
  ASSUME Bounds, Types, ConnectSocket
  PROVE  /\ requests' \in Seq(Swaps) /\ Len(requests') <= Capacity
         /\ ToSet(requests') \subseteq ToSet(requests) \cup list_ongoing_swaps
         /\ ToSet(requests) \cup list_ongoing_swaps \subseteq ToSet(requests') \cup missed'
         /\ missed' \subseteq Swaps
<1>1. requests \in Seq(Swaps) /\ Capacity \in Nat /\ IsFiniteSet(Swaps)
  BY DEF Types, Bounds
<1>2. list_ongoing_swaps \subseteq Swaps
  BY DEF list_ongoing_swaps
<1>3. PICK swaps \in SetToSeqs(list_ongoing_swaps) :
        requests' = Kept(requests \o swaps) /\ missed' = Lost(requests \o swaps)
  BY DEF ConnectSocket, track_subscriptions
<1>4. /\ Kept(requests \o swaps) \in Seq(Swaps) /\ Len(Kept(requests \o swaps)) <= Capacity
      /\ ToSet(Kept(requests \o swaps)) \subseteq ToSet(requests) \cup list_ongoing_swaps
      /\ ToSet(requests) \cup list_ongoing_swaps \subseteq ToSet(Kept(requests \o swaps)) \cup Lost(requests \o swaps)
      /\ Lost(requests \o swaps) \subseteq ToSet(requests) \cup list_ongoing_swaps
  BY <1>1, <1>2, Requested
<1>5. ToSet(requests) \subseteq Swaps
  BY <1>1, LenProperties DEF ToSet
<1> QED BY <1>1, <1>2, <1>3, <1>4, <1>5

\* An update that is received is passed on, and the one it pushes out is one that the connection missed.
LEMMA ReceiveUpdateSends ==
  ASSUME Bounds, Types, NEW s \in Swaps, ReceiveUpdate(s)
  PROVE  /\ updates' \in Seq(Update) /\ Len(updates') <= Capacity
         /\ ToSet(updates') \subseteq ToSet(updates) \cup {[id |-> s, at |-> boltzAt[s]]}
         /\ \A u \in ToSet(updates) \cup {[id |-> s, at |-> boltzAt[s]]} : u \in ToSet(updates') \/ u.id \in missed'
         /\ missed \subseteq missed' /\ missed' \subseteq Swaps
<1> DEFINE u == [id |-> s, at |-> boltzAt[s]]
<1>1. updates \in Seq(Update) /\ missed \subseteq Swaps /\ Capacity \in Nat /\ boltzAt \in [Swaps -> Statuses]
  BY DEF Types, Bounds
<1>2. u \in Update
  BY <1>1 DEF Update
<1>3. updates' = Kept(Append(updates, u)) /\ missed' = missed \cup {v.id : v \in Lost(Append(updates, u))}
  BY DEF ReceiveUpdate
<1> HIDE DEF u
<1>4. /\ Kept(Append(updates, u)) \in Seq(Update) /\ Len(Kept(Append(updates, u))) <= Capacity
      /\ ToSet(Kept(Append(updates, u))) \subseteq ToSet(updates) \cup {u}
      /\ ToSet(updates) \cup {u} \subseteq ToSet(Kept(Append(updates, u))) \cup Lost(Append(updates, u))
      /\ Lost(Append(updates, u)) \subseteq ToSet(updates) \cup {u}
  BY <1>1, <1>2, Sent
<1>5. ToSet(updates) \subseteq Update
  BY <1>1, LenProperties DEF ToSet
<1>6. \A v \in Update : v.id \in Swaps
  BY DEF Update
<1>7. \A v \in ToSet(updates) \cup {u} : v \in ToSet(updates') \/ v.id \in missed'
  BY <1>3, <1>4
<1>8. missed' \subseteq Swaps
  BY <1>1, <1>2, <1>3, <1>4, <1>5, <1>6
<1> QED BY <1>1, <1>3, <1>4, <1>7, <1>8 DEF u

\* What recovery makes of the txs it sees.
LEMMA Derived ==
  ASSUME NEW seen \in SUBSET {"lockup", "claim", "refund"}, NEW expired \in BOOLEAN,
         NEW to \in derive_partial_state(seen, expired)
  PROVE  /\ to \in {"Failed", "Pending", "claiming", "RefundPending", "Refunded", "Complete"}
         /\ to = "Failed" <=> "lockup" \notin seen
         /\ to = "Failed" => expired
         /\ to = "claiming" => "claim" \in seen
         /\ {"lockup", "claim"} \subseteq seen => to \in {"claiming", "RefundPending", "Complete"}
<1>1. CASE "lockup" \notin seen
  BY <1>1 DEF derive_partial_state
<1>2. CASE "lockup" \in seen
  <2>1. seen \in {{"lockup"}, {"lockup", "claim"}, {"lockup", "refund"}, {"lockup", "claim", "refund"}}
    <3>1. CASE "claim" \in seen /\ "refund" \in seen
      <4>1. seen = {"lockup", "claim", "refund"}
        BY <1>2, <3>1
      <4> QED BY <4>1
    <3>2. CASE "claim" \in seen /\ "refund" \notin seen
      <4>1. seen = {"lockup", "claim"}
        BY <1>2, <3>2
      <4> QED BY <4>1
    <3>3. CASE "claim" \notin seen /\ "refund" \in seen
      <4>1. seen = {"lockup", "refund"}
        BY <1>2, <3>3
      <4> QED BY <4>1
    <3>4. CASE "claim" \notin seen /\ "refund" \notin seen
      <4>1. seen = {"lockup"}
        BY <1>2, <3>4
      <4> QED BY <4>1
    <3> QED BY <3>1, <3>2, <3>3, <3>4
  <2>2. CASE seen = {"lockup"}
    <3>1. seen # {"lockup", "claim"} /\ seen # {"lockup", "refund"} /\ seen # {"lockup", "claim", "refund"}
      BY <2>2
    <3>2. to \in {"RefundPending", "Pending"}
      BY <1>2, <2>2, <3>1 DEF derive_partial_state
    <3> QED BY <1>2, <2>2, <3>2
  <2>3. CASE seen = {"lockup", "claim"}
    <3>1. seen # {"lockup"} /\ seen # {"lockup", "refund"} /\ seen # {"lockup", "claim", "refund"}
      BY <2>3
    <3>2. to \in {"claiming", "Complete"}
      BY <1>2, <2>3, <3>1 DEF derive_partial_state
    <3> QED BY <1>2, <2>3, <3>2
  <2>4. CASE seen = {"lockup", "refund"}
    <3>1. seen # {"lockup"} /\ seen # {"lockup", "claim"} /\ seen # {"lockup", "claim", "refund"}
      BY <2>4
    <3>2. to \in {"RefundPending", "Refunded"}
      BY <1>2, <2>4, <3>1 DEF derive_partial_state
    <3> QED BY <1>2, <2>4, <3>2
  <2>5. CASE seen = {"lockup", "claim", "refund"}
    <3>1. seen # {"lockup"} /\ seen # {"lockup", "claim"} /\ seen # {"lockup", "refund"}
      BY <2>5
    <3>2. to \in {"claiming", "RefundPending", "Complete"}
      BY <1>2, <2>5, <3>1 DEF derive_partial_state
    <3> QED BY <1>2, <2>5, <3>2
  <2> QED BY <2>1, <2>2, <2>3, <2>4, <2>5
<1> QED BY <1>1, <1>2

\* What recovery writes: the state it derives from what it sees, which the row named or not.
LEMMA RecoverSwapWrites ==
  ASSUME Types, NEW s \in Swaps, RecoverSwap(s)
  PROVE  /\ state[s] \in {"Created", "TimedOut", "Pending", "claiming", "RefundPending"}
         /\ \E to \in States :
              /\ UpdateSwap(s, to)
              /\ to \in Happened \cup {"Failed"}
              /\ to = "Failed" => boltzAt[s] = "expired" /\ ~("lockup" \in onchain[s] /\ "lockup" \in Named(state[s]))
              /\ to \in Happened => "lockup" \in onchain[s]
              /\ to = "claiming" => "claim" \in onchain[s]
              /\ {"lockup", "claim"} \subseteq onchain[s] \cap Named(state[s]) => to \in {"claiming", "RefundPending", "Complete"}
              /\ missed' = missed \cup IF state[s] \notin Ongoing /\ to \in Ongoing THEN {s} ELSE {}
         /\ UNCHANGED <<onchain, boltzVars, requests, updates, taskVars, untracked, waiter, breaks>>
<1>1. PICK seen \in SUBSET (onchain[s] \ {"server"}), expired \in {FALSE, boltzAt[s] = "expired"} :
        /\ onchain[s] \cap Named(state[s]) \subseteq seen
        /\ \E to \in derive_partial_state(seen, expired) :
             /\ UpdateSwap(s, to)
             /\ missed' = missed \cup IF state[s] \notin Ongoing /\ to \in Ongoing THEN {s} ELSE {}
  BY DEF RecoverSwap
<1>2. PICK to \in derive_partial_state(seen, expired) :
        /\ UpdateSwap(s, to)
        /\ missed' = missed \cup IF state[s] \notin Ongoing /\ to \in Ongoing THEN {s} ELSE {}
  BY <1>1
<1>3. onchain[s] \subseteq Txs /\ seen \subseteq onchain[s] /\ seen \in SUBSET {"lockup", "claim", "refund"} /\ expired \in BOOLEAN
  BY <1>1 DEF Types, Txs
<1>4. /\ to \in {"Failed", "Pending", "claiming", "RefundPending", "Refunded", "Complete"}
      /\ to = "Failed" <=> "lockup" \notin seen
      /\ to = "Failed" => expired
      /\ to = "claiming" => "claim" \in seen
      /\ {"lockup", "claim"} \subseteq seen => to \in {"claiming", "RefundPending", "Complete"}
  BY <1>3, Derived
<1>5. expired => boltzAt[s] = "expired"
  BY <1>1
<1>6. to \in Happened \cup {"Failed"} /\ to \in States /\ (to \in Happened => to # "Failed")
  BY <1>4 DEF Happened, States
<1>7. /\ to = "Failed" => boltzAt[s] = "expired" /\ ~("lockup" \in onchain[s] /\ "lockup" \in Named(state[s]))
      /\ to \in Happened => "lockup" \in onchain[s]
      /\ to = "claiming" => "claim" \in onchain[s]
      /\ {"lockup", "claim"} \subseteq onchain[s] \cap Named(state[s]) => to \in {"claiming", "RefundPending", "Complete"}
  <2> HIDE DEF UpdateSwap, Named
  <2> QED BY <1>1, <1>3, <1>4, <1>5, <1>6
<1> HIDE DEF UpdateSwap, Named, derive_partial_state
<1> QED BY <1>2, <1>6, <1>7 DEF RecoverSwap, IsMonitored

\* The types hold at the start.
LEMMA InitTypes ==
  ASSUME Bounds, NewsInit
  PROVE  Types
<1>1. \A S : <<>> \in Seq(S) /\ Len(<<>>) = 0
  BY EmptySeq
<1> QED BY <1>1 DEF NewsInit, Types, Bounds, States, Statuses

\* What the task handles is of a swap.
LEMMA TaskIsOfSwap ==
  ASSUME Types
  PROVE  /\ task.at = "status" => task \in Handled /\ task.id \in Swaps
         /\ task.at = "emit" => task \in Emitted /\ task.id \in Swaps /\ task.news \in States
  BY DEF Types, Handled, Emitted, TaskIdle

\* A transaction that is broadcast is one of the four, and of one swap.
LEMMA TxIsSent ==
  ASSUME Types, NEW s \in Swaps, NEW t \in Txs, onchain' = [onchain EXCEPT ![s] = @ \cup {t}]
  PROVE  /\ onchain' \in [Swaps -> SUBSET Txs]
         /\ \A x \in Swaps : onchain'[x] = IF x = s THEN onchain[x] \cup {t} ELSE onchain[x]
<1>1. onchain \in [Swaps -> SUBSET Txs]
  BY DEF Types
<1>2. onchain[s] \cup {t} \in SUBSET Txs
  BY <1>1
<1> QED BY <1>1, <1>2

\* The call that waits is there, or there is none.
LEMMA WaiterIsThere ==
  ASSUME Types
  PROVE  /\ waiter.at \in {"none", "waiting", "done"}
         /\ waiter.at # "none" => waiter \in Waiter /\ waiter.id \in Swaps
<1>1. CASE waiter = NoWaiter
  BY <1>1 DEF NoWaiter
<1>2. CASE waiter \in Waiter
  BY <1>2 DEF Waiter
<1> QED BY <1>1, <1>2 DEF Types

\* Every step keeps the types.
LEMMA TypesStep ==
  ASSUME Bounds, Types, [NewsNext]_newsVars
  PROVE  Types'
<1> USE DEF rowVars, boltzVars, taskVars
<1>0. Capacity \in Nat /\ MaxBreaks \in Nat
  BY DEF Bounds
<1>1. ASSUME NEW s \in Swaps, CreateSwap(s) PROVE Types'
  BY <1>1 DEF CreateSwap, Types, States, Statuses
<1>2. ASSUME NEW s \in Swaps, TrackSwapId(s) PROVE Types'
  <2>1. requests' \in Seq(Swaps) /\ Len(requests') <= Capacity /\ missed' \subseteq Swaps
    BY <1>2, TrackSwapIdSends
  <2>2. waiter' \in {NoWaiter} \cup Waiter
    <3>1. CASE UNCHANGED waiter
      BY <3>1 DEF Types
    <3>2. CASE \E z \in BOOLEAN : waiter' = [NoWaiter EXCEPT !.at = "waiting", !.id = s, !.zeroConf = z]
      BY <3>2 DEF NoWaiter, Waiter
    <3> QED BY <1>2, <3>1, <3>2 DEF TrackSwapId
  <2>3. untracked' \subseteq Swaps /\ UNCHANGED <<rowVars, boltzVars, updates, payments, taskVars, breaks, unheard>>
    BY <1>2 DEF TrackSwapId, Types
  <2> QED BY <2>1, <2>2, <2>3 DEF Types
<1>3. ASSUME NEW s \in Swaps, RecoverSwap(s) PROVE Types'
  <2>1. PICK to \in States : UpdateSwap(s, to) /\ missed' \subseteq missed \cup {s}
    BY <1>3, RecoverSwapWrites
  <2>2. /\ state' \in [Swaps -> States] /\ payments' \in Seq(Swaps) /\ Len(payments') <= Capacity
        /\ unheard' \subseteq Swaps
    BY <2>1, UpdateSwapSends
  <2>3. UNCHANGED <<onchain, boltzVars, requests, updates, taskVars, untracked, waiter, breaks>>
    BY <1>3, RecoverSwapWrites
  <2> QED BY <2>1, <2>2, <2>3 DEF Types
<1>4. ASSUME NEW s \in Swaps, ClaimOutgoing(s) \/ RefundOutgoing(s) PROVE Types'
  <2>1. PICK to \in States : UpdateSwap(s, to)
    BY <1>4 DEF ClaimOutgoing, RefundOutgoing, States, Happened
  <2>2. /\ state' \in [Swaps -> States] /\ payments' \in Seq(Swaps) /\ Len(payments') <= Capacity
        /\ unheard' \subseteq Swaps
    BY <2>1, UpdateSwapSends
  <2>3. onchain' \in [Swaps -> SUBSET Txs]
    BY <1>4 DEF ClaimOutgoing, RefundOutgoing, Types, Txs
  <2>4. UNCHANGED <<boltzVars, requests, updates, taskVars, untracked, waiter, breaks, missed>>
    BY <1>4 DEF ClaimOutgoing, RefundOutgoing
  <2> QED BY <2>2, <2>3, <2>4 DEF Types
<1>5. ASSUME NEW s \in Swaps, ReceiveUpdate(s) PROVE Types'
  <2>1. updates' \in Seq(Update) /\ Len(updates') <= Capacity /\ missed' \subseteq Swaps
    BY <1>5, ReceiveUpdateSends
  <2>2. /\ unsent' \subseteq unsent
        /\ UNCHANGED <<rowVars, boltzAt, socket, requests, tracked, payments, untracked, taskVars, waiter, breaks, unheard>>
    BY <1>5 DEF ReceiveUpdate
  <2> QED BY <2>1, <2>2 DEF Types
<1>6. ASSUME NEW s \in Swaps, BoltzProceeds(s) PROVE Types'
  <2>1. onchain' \in [Swaps -> SUBSET Txs]
    <3>1. UNCHANGED onchain \/ \E t \in Txs : onchain' = [onchain EXCEPT ![s] = @ \cup {t}]
      BY <1>6 DEF BoltzProceeds, Txs
    <3>2. CASE UNCHANGED onchain
      BY <3>2 DEF Types
    <3> QED BY <3>1, <3>2, TxIsSent
  <2>2. boltzAt' \in [Swaps -> Statuses] /\ unsent' \subseteq tracked
    BY <1>6 DEF BoltzProceeds, Types, Statuses
  <2>3. /\ UNCHANGED <<state, socket, requests, tracked, updates, payments, untracked, taskVars, waiter, breaks>>
        /\ UNCHANGED <<missed, unheard>>
    BY <1>6 DEF BoltzProceeds
  <2> QED BY <2>1, <2>2, <2>3 DEF Types
<1>7. ASSUME ResubscribeSwaps PROVE Types'
  <2>1. requests' \in Seq(Swaps) /\ Len(requests') = 0
    BY <1>7, EmptySeq DEF ResubscribeSwaps
  <2> QED BY <1>0, <1>7, <2>1 DEF ResubscribeSwaps, Types
<1>8. ASSUME ConnectFails \/ StreamBreaks PROVE Types'
  BY <1>0, <1>8 DEF ConnectFails, StreamBreaks, Fails, Types
<1>9. ASSUME ConnectSocket PROVE Types'
  <2>1. requests' \in Seq(Swaps) /\ Len(requests') <= Capacity /\ missed' \subseteq Swaps
    BY <1>9, ConnectSends
  <2>2. /\ socket' = "open" /\ tracked' = {} /\ unsent' = {}
        /\ UNCHANGED <<rowVars, boltzAt, updates, payments, untracked, taskVars, waiter, breaks, unheard>>
    BY <1>9 DEF ConnectSocket
  <2> QED BY <2>1, <2>2 DEF Types
<1>10. ASSUME ReceiveRequest PROVE Types'
  <2>1. /\ Head(requests) \in Swaps /\ Tail(requests) \in Seq(Swaps) /\ Len(Tail(requests)) <= Len(requests)
        /\ Len(requests) \in Nat /\ Len(Tail(requests)) \in Nat
    BY <1>10, SetOfTail, LenProperties DEF ReceiveRequest, Types
  <2>2. Len(Tail(requests)) <= Capacity
    BY <1>0, <2>1 DEF Types
  <2> QED BY <1>10, <2>1, <2>2 DEF ReceiveRequest, Types
<1>11. ASSUME TakeUpdate PROVE Types'
  <2>1. /\ Head(updates) \in Update /\ Tail(updates) \in Seq(Update) /\ Len(Tail(updates)) <= Len(updates)
        /\ Len(updates) \in Nat /\ Len(Tail(updates)) \in Nat
    BY <1>11, SetOfTail, LenProperties DEF TakeUpdate, Types
  <2>2. Len(Tail(updates)) <= Capacity
    BY <1>0, <2>1 DEF Types
  <2>3. task' \in Handled
    BY <1>11, <2>1 DEF TakeUpdate, Handled, Update
  <2> QED BY <1>11, <2>1, <2>2, <2>3 DEF TakeUpdate, Types
<1>12. ASSUME HandleCreated \/ BroadcastLockup PROVE Types'
  <2>1. task \in Handled /\ task.id \in Swaps
    BY <1>12, TaskIsOfSwap DEF HandleCreated, BroadcastLockup, Handles
  <2>2. task' \in {TaskIdle} \cup Handled
    BY <1>12, <2>1 DEF HandleCreated, BroadcastLockup, Handled
  <2>3. onchain' \in [Swaps -> SUBSET Txs]
    <3>1. CASE HandleCreated
      BY <3>1 DEF HandleCreated, Types
    <3>2. CASE BroadcastLockup
      <4>1. onchain' = [onchain EXCEPT ![task.id] = @ \cup {"lockup"}] /\ "lockup" \in Txs
        BY <3>2 DEF BroadcastLockup, Txs
      <4> QED BY <2>1, <4>1, TxIsSent
    <3> QED BY <1>12, <3>1, <3>2
  <2>4. /\ UNCHANGED <<state, boltzVars, requests, updates, payments, untracked, paused, firstSync, told, waiter, breaks>>
        /\ UNCHANGED <<missed, unheard>>
    BY <1>12 DEF HandleCreated, BroadcastLockup
  <2> QED BY <2>2, <2>3, <2>4 DEF Types
<1>13. ASSUME HandleLockup \/ HandleServerLockup \/ HandleClaim \/ HandleExpired PROVE Types'
  <2>1. task \in Handled /\ task.id \in Swaps
    BY <1>13, TaskIsOfSwap DEF HandleLockup, HandleServerLockup, HandleClaim, HandleExpired, Handles
  <2>2. (\E to \in States : UpdateSwap(task.id, to)) \/ UNCHANGED <<state, payments, unheard>>
    <3>1. {"Pending", "claiming", "RefundPending", "Failed"} \subseteq States
      BY DEF States, Happened
    <3>2. state[task.id] \in States
      BY <2>1 DEF Types
    <3> HIDE DEF UpdateSwap
    <3>3. CASE HandleLockup
      BY <3>1, <3>3 DEF HandleLockup
    <3>4. CASE HandleServerLockup
      BY <3>1, <3>4 DEF HandleServerLockup
    <3>5. CASE HandleClaim
      BY <3>1, <3>2, <3>5 DEF HandleClaim
    <3>6. CASE HandleExpired
      BY <3>1, <3>6 DEF HandleExpired
    <3> QED BY <1>13, <3>3, <3>4, <3>5, <3>6
  <2>3. /\ state' \in [Swaps -> States] /\ payments' \in Seq(Swaps) /\ Len(payments') <= Capacity
        /\ unheard' \subseteq Swaps
    <3>1. CASE \E to \in States : UpdateSwap(task.id, to)
      BY <2>1, <3>1, UpdateSwapSends
    <3>2. CASE UNCHANGED <<state, payments, unheard>>
      BY <3>2 DEF Types
    <3> QED BY <2>2, <3>1, <3>2
  <2>4. onchain' \in [Swaps -> SUBSET Txs]
    <3>1. UNCHANGED onchain \/ \E t \in Txs : onchain' = [onchain EXCEPT ![task.id] = @ \cup {t}]
      BY <1>13 DEF HandleLockup, HandleServerLockup, HandleClaim, HandleExpired, Txs
    <3>2. CASE UNCHANGED onchain
      BY <3>2 DEF Types
    <3> QED BY <2>1, <3>1, <3>2, TxIsSent
  <2>5. task' \in {TaskIdle} \cup Handled
    BY <1>13, <2>1 DEF HandleLockup, HandleServerLockup, HandleClaim, HandleExpired, Handled
  <2>6. UNCHANGED <<boltzVars, requests, updates, untracked, paused, firstSync, told, waiter, breaks, missed>>
    BY <1>13 DEF HandleLockup, HandleServerLockup, HandleClaim, HandleExpired
  <2> QED BY <2>3, <2>4, <2>5, <2>6 DEF Types
<1>14. ASSUME HandleUpdateFails \/ EmitFails PROVE Types'
  <2>1. task.id \in Swaps
    BY <1>14, TaskIsOfSwap DEF HandleUpdateFails, EmitFails
  <2>2. onchain' \in [Swaps -> SUBSET Txs]
    <3>1. UNCHANGED onchain \/ \E t \in Txs : onchain' = [onchain EXCEPT ![task.id] = @ \cup {t}]
      BY <1>14 DEF HandleUpdateFails, EmitFails, Txs
    <3>2. CASE UNCHANGED onchain
      BY <3>2 DEF Types
    <3> QED BY <2>1, <3>1, <3>2, TxIsSent
  <2>4. task' = TaskIdle /\ missed' \subseteq Swaps /\ unheard' \subseteq Swaps
    BY <1>14, <2>1 DEF HandleUpdateFails, EmitFails, Types
  <2>3. /\ breaks' \in 0..MaxBreaks
        /\ UNCHANGED <<state, boltzVars, requests, updates, payments, untracked, paused, firstSync, told, waiter>>
    BY <1>0, <1>14 DEF HandleUpdateFails, EmitFails, Fails, Types
  <2> QED BY <2>2, <2>3, <2>4 DEF Types
<1>15. ASSUME TakePayment PROVE Types'
  <2>1. /\ Head(payments) \in Swaps /\ Tail(payments) \in Seq(Swaps) /\ Len(Tail(payments)) <= Len(payments)
        /\ Len(payments) \in Nat /\ Len(Tail(payments)) \in Nat
    BY <1>15, SetOfTail, LenProperties DEF TakePayment, Types
  <2>2. Len(Tail(payments)) <= Capacity
    BY <1>0, <2>1 DEF Types
  <2>3. task' \in Emitted
    BY <1>15, <2>1 DEF TakePayment, Emitted, Types
  <2> QED BY <1>15, <2>1, <2>2, <2>3 DEF TakePayment, Types
<1>16. ASSUME EmitPaymentUpdated PROVE Types'
  <2>1. task.id \in Swaps /\ task.news \in States
    BY <1>16, TaskIsOfSwap DEF EmitPaymentUpdated
  <2>2. told' \in [Swaps -> States \cup {"none"}] /\ unheard' \subseteq Swaps
    BY <1>16, <2>1 DEF EmitPaymentUpdated, Types
  <2>3. waiter' \in {NoWaiter} \cup Waiter
    <3>1. CASE UNCHANGED waiter
      BY <3>1 DEF Types
    <3>2. CASE Hear(task.id, task.news)
      <4>1. CASE waiter.at # "waiting" \/ waiter.id # task.id
        BY <3>2, <4>1 DEF Hear, Types
      <4>2. CASE ~(waiter.at # "waiting" \/ waiter.id # task.id)
        <5>1. waiter \in Waiter
          BY <4>2 DEF Types, NoWaiter
        <5> QED BY <3>2, <4>2, <5>1, <2>1 DEF Hear, Waiter, States
      <4> QED BY <4>1, <4>2
    <3> QED BY <1>16, <3>1, <3>2 DEF EmitPaymentUpdated
  <2>4. /\ task' = TaskIdle
        /\ UNCHANGED <<rowVars, boltzVars, requests, updates, payments, untracked, paused, firstSync, breaks, missed>>
    BY <1>16 DEF EmitPaymentUpdated
  <2> QED BY <2>2, <2>3, <2>4 DEF Types
<1>17. ASSUME WaitTimesOut PROVE Types'
  <2>1. waiter \in Waiter /\ waiter.id \in Swaps
    BY <1>17, WaiterIsThere DEF WaitTimesOut
  <2>2. UpdateSwap(waiter.id, "TimedOut") \/ UNCHANGED <<state, payments, unheard>>
    BY <1>17 DEF WaitTimesOut
  <2>3. /\ state' \in [Swaps -> States] /\ payments' \in Seq(Swaps) /\ Len(payments') <= Capacity
        /\ unheard' \subseteq Swaps
    <3>1. "TimedOut" \in States
      BY DEF States
    <3>2. CASE UpdateSwap(waiter.id, "TimedOut")
      BY <2>1, <3>1, <3>2, UpdateSwapSends
    <3>3. CASE UNCHANGED <<state, payments, unheard>>
      BY <3>3 DEF Types
    <3> QED BY <2>2, <3>2, <3>3
  <2>4. PICK a \in {"Pending", "PaymentTimeout", "not found"} \cup Happened :
          waiter' = [waiter EXCEPT !.at = "done", !.answer = a, !.paying = IsPaying(waiter.id)]
    <3>1. waiter.heard \in {"none", "Pending"}
      BY <2>1 DEF Waiter
    <3> QED BY <1>17, <3>1 DEF WaitTimesOut
  <2>5. IsPaying(waiter.id) \in BOOLEAN
    BY DEF IsPaying
  <2>6. waiter' \in Waiter
    BY <2>1, <2>4, <2>5 DEF Waiter, States, Happened
  <2>7. UNCHANGED <<onchain, boltzVars, requests, updates, untracked, taskVars, breaks, missed>>
    BY <1>17 DEF WaitTimesOut
  <2> QED BY <2>3, <2>6, <2>7 DEF Types
<1>18. ASSUME FirstSync PROVE Types'
  BY <1>0, <1>18 DEF FirstSync, Fails, Types
<1>19. ASSUME UNCHANGED newsVars PROVE Types'
  BY <1>19 DEF newsVars, Types
<1> QED
  BY <1>1, <1>2, <1>3, <1>4, <1>5, <1>6, <1>7, <1>8, <1>9, <1>10, <1>11, <1>12, <1>13, <1>14, <1>15, <1>16, <1>17,
     <1>18, <1>19 DEF NewsNext

\* For any finite set of swaps, any capacity and any number of breaks, every channel stays within its capacity and
\* every variable of the notifications in its domain: nothing is sent of a swap that does not exist.
THEOREM TypeCorrect == NewsSpec => []NewsTypeOK
<1>1. ASSUME Bounds, Types, [NewsNext]_newsVars
      PROVE  Types'
  BY <1>1, TypesStep
<1>2. Types => NewsTypeOK
  <2> SUFFICES ASSUME Types PROVE NewsTypeOK
    OBVIOUS
  <2>1. task.at \in {"select", "status", "emit"}
    BY DEF Types, TaskIdle, Handled, Emitted
  <2>2. waiter.at \in {"none", "waiting", "done"}
    BY WaiterIsThere
  <2> QED BY <2>1, <2>2 DEF Types, NewsTypeOK, Txs
<1>3. Bounds => (NewsSpec => []NewsTypeOK)
  <2> SUFFICES ASSUME Bounds
               PROVE  NewsSpec => []NewsTypeOK
    OBVIOUS
  <2>1. NewsInit => Types
    BY InitTypes
  <2>2. Types /\ [NewsNext]_newsVars => Types'
    BY <1>1
  <2> QED BY <1>2, <2>1, <2>2, PTL DEF NewsSpec
<1> QED BY <1>3, NewsAssumption DEF Bounds

-----------------------------------------------------------------------------
(* Rows, chains and what Boltz says of them *)

\* At the start no swap is there.
LEMMA InitRows ==
  ASSUME NewsInit
  PROVE  RowInv
<1>1. ToSet(requests) = {} /\ ToSet(payments) = {} /\ ToSet(updates) = {}
  BY DEF NewsInit, ToSet
<1> QED BY <1>1 DEF NewsInit, TaskIdle, RowInv, Known, RowIsTrue, BoltzIsTrue, Asked, Changed, Emitting, Handling,
           Sending, Happened

\* What stays, and what nothing was sent of, is as true as before.
LEMMA RowStays ==
  ASSUME NEW x \in Swaps, Known(x), RowIsTrue(x), BoltzIsTrue(x),
         state'[x] = state[x], onchain'[x] = onchain[x], boltzAt'[x] = boltzAt[x],
         Asked(x)' => Asked(x), Changed(x)' => Changed(x), Emitting(x)' => Emitting(x) \/ Changed(x),
         \A a : Sending(x, a)' => Sending(x, a),
         task' = task \/ task'.at # "status"
  PROVE  Known(x)' /\ RowIsTrue(x)' /\ BoltzIsTrue(x)'
<1>1. Known(x)'
  BY DEF Known
<1>2. RowIsTrue(x)'
  BY DEF RowIsTrue
<1>3. \A N : Handling(x, N)' => Handling(x, N)
  BY DEF Handling
<1>4. BoltzIsTrue(x)'
  BY <1>3 DEF BoltzIsTrue
<1> QED BY <1>1, <1>2, <1>4

\* A handler of a status writes the row, if at all, as follows, and broadcasts the following
Written(s, to) ==
  \/ to = state[s]
  \/ to = "Pending" /\ state[s] = "Created" /\ "lockup" \in onchain[s]
  \/ to = "claiming" /\ state[s] = "Pending" /\ "claim" \in onchain'[s]
  \/ to = "Failed" /\ state[s] \in {"Created", "TimedOut"} /\ boltzAt[s] = "expired"
  \/ to = "RefundPending" /\ state[s] \in {"Pending", "claiming", "RefundPending"}
Sends(s, to) ==
  \/ onchain'[s] = onchain[s]
  \/ onchain'[s] = onchain[s] \cup {"claim"} /\ to \in {"claiming", "RefundPending", "Refunded", "Complete"}
  \/ onchain'[s] = onchain[s] \cup {"refund"}
Writes(s, to) ==
  /\ task.at = "status" /\ task.id = s
  /\ UNCHANGED <<boltzVars, requests, updates, untracked, paused, firstSync, told, waiter, breaks, missed>>
  /\ (UpdateSwap(s, to) /\ to # "None") \/ (to = state[s] /\ UNCHANGED <<state, payments, unheard>>)
  /\ Written(s, to) /\ Sends(s, to) /\ \A y \in Swaps \ {s} : onchain'[y] = onchain[y]
  /\ \/ task'.at = "select"
     \/ task'.at = "status" /\ task'.id = s /\ task'.news = "claim" /\ task.news = "locked" /\ to = "Pending"
  /\ task.news \in {"lockedUp", "mempool"} => to # "Created"
  /\ task.news = "locked" => to \notin {"Created", "Pending"} \/ task'.at = "status"
  /\ task.news = "claim" => to \notin {"Created", "Pending"}
  /\ task.news = "expired" => to \notin Ongoing \/ "refund" \in onchain'[s]
  /\ task.news \in {"lockedUp", "mempool", "locked", "claim", "expired"}

\* So the handlers do, and what they handle is settled then.
LEMMA HandlersWrite ==
  ASSUME Types, RowInv, HandleLockup \/ HandleServerLockup \/ HandleClaim \/ HandleExpired
  PROVE  \E s \in Swaps, to \in States : Writes(s, to)
<1> USE DEF rowVars
<1> DEFINE s == task.id
<1>1. task.at = "status" /\ s \in Swaps /\ task \in Handled
  BY TaskIsOfSwap DEF HandleLockup, HandleServerLockup, HandleClaim, HandleExpired, Handles
<1>2. UNCHANGED <<boltzVars, requests, updates, untracked, paused, firstSync, told, waiter, breaks, missed>>
  BY DEF HandleLockup, HandleServerLockup, HandleClaim, HandleExpired
<1>3. Known(s) /\ RowIsTrue(s) /\ BoltzIsTrue(s) /\ state[s] \in States /\ onchain \in [Swaps -> SUBSET Txs]
  BY <1>1 DEF RowInv, Types
<1>4. TaskIdle.at = "select"
  BY DEF TaskIdle
<1>5. ASSUME NEW to, to \in Happened \cup {"Failed", "Created", "TimedOut"} PROVE to \in States
  BY <1>5 DEF States
<1>6. ASSUME NEW tx, onchain' = [onchain EXCEPT ![s] = @ \cup {tx}]
      PROVE  onchain'[s] = onchain[s] \cup {tx} /\ \A y \in Swaps \ {s} : onchain'[y] = onchain[y]
  BY <1>1, <1>3, <1>6
<1> HIDE DEF UpdateSwap
<1>7. CASE HandleLockup
  <2>1. task' = TaskIdle /\ UNCHANGED onchain /\ task.news \in {"lockedUp", "mempool"} /\ "lockup" \in onchain[s]
    BY <1>1, <1>3, <1>7 DEF HandleLockup, Handles, BoltzIsTrue, Handling
  <2>2. CASE state[s] = "Created"
    <3>1. UpdateSwap(s, "Pending") /\ "Pending" \in States
      BY <1>7, <2>2 DEF HandleLockup, States, Happened
    <3>2. Writes(s, "Pending")
      BY <1>1, <1>2, <1>4, <2>1, <2>2, <3>1 DEF Writes, Written, Sends
    <3> QED BY <1>1, <3>1, <3>2
  <2>3. CASE state[s] # "Created"
    <3>1. UNCHANGED <<state, payments, unheard>>
      BY <1>7, <2>3 DEF HandleLockup
    <3>2. Writes(s, state[s])
      BY <1>1, <1>2, <1>4, <2>1, <2>3, <3>1 DEF Writes, Written, Sends
    <3> QED BY <1>1, <1>3, <3>2
  <2> QED BY <2>2, <2>3
<1>8. CASE HandleServerLockup
  <2>1. UNCHANGED onchain /\ task.news = "locked" /\ "lockup" \in onchain[s]
    BY <1>1, <1>3, <1>8 DEF HandleServerLockup, Handles, BoltzIsTrue, Handling
  <2>2. CASE state[s] \in {"Created", "Pending"}
    <3>1. UpdateSwap(s, "Pending") /\ "Pending" \in States
      BY <1>8, <2>2 DEF HandleServerLockup, States, Happened
    <3>2. task'.at = "status" /\ task'.id = s /\ task'.news = "claim"
      BY <1>1, <1>8, <2>2 DEF HandleServerLockup, Handled
    <3>3. Written(s, "Pending") /\ Sends(s, "Pending")
      BY <2>1, <2>2 DEF Written, Sends
    <3>4. Writes(s, "Pending")
      BY <1>1, <1>2, <2>1, <3>1, <3>2, <3>3 DEF Writes
    <3> QED BY <1>1, <3>1, <3>4
  <2>3. CASE state[s] \notin {"Created", "Pending"}
    <3>1. UNCHANGED <<state, payments, unheard>> /\ task' = TaskIdle
      BY <1>8, <2>3 DEF HandleServerLockup
    <3>2. Writes(s, state[s])
      BY <1>1, <1>2, <1>4, <2>1, <2>3, <3>1 DEF Writes, Written, Sends
    <3> QED BY <1>1, <1>3, <3>2
  <2> QED BY <2>2, <2>3
<1>9. CASE HandleClaim
  <2>1. task' = TaskIdle /\ task.news = "claim" /\ state[s] \in Happened
    BY <1>1, <1>3, <1>9 DEF HandleClaim, Handles, BoltzIsTrue, Handling
  <2>2. CASE "claim" \in onchain[s]
    <3>1. UNCHANGED <<state, onchain, payments, unheard>>
      BY <1>9, <2>2 DEF HandleClaim
    <3>2. state[s] \notin {"Created", "Pending"}
      BY <1>3, <2>2 DEF RowIsTrue
    <3>3. Writes(s, state[s])
      BY <1>1, <1>2, <1>4, <2>1, <3>1, <3>2 DEF Writes, Written, Sends
    <3> QED BY <1>1, <1>3, <3>3
  <2>3. CASE "claim" \notin onchain[s]
    <3> DEFINE to == IF state[s] = "Pending" THEN "claiming" ELSE state[s]
    <3>1. UpdateSwap(s, to) /\ onchain' = [onchain EXCEPT ![s] = @ \cup {"claim"}]
      BY <1>9, <2>3 DEF HandleClaim
    <3>2. to \in {"claiming", "RefundPending", "Refunded", "Complete"}
      BY <2>1 DEF Happened
    <3>3. onchain'[s] = onchain[s] \cup {"claim"} /\ \A y \in Swaps \ {s} : onchain'[y] = onchain[y]
      BY <1>6, <3>1
    <3>4. Written(s, to)
      BY <3>3 DEF Written
    <3> HIDE DEF to
    <3>5. Sends(s, to)
      BY <3>2, <3>3 DEF Sends
    <3>6. Writes(s, to) /\ to \in States
      BY <1>1, <1>2, <1>4, <1>5, <2>1, <3>1, <3>2, <3>3, <3>4, <3>5 DEF Writes, Happened
    <3> QED BY <1>1, <3>6
  <2> QED BY <2>2, <2>3
<1>10. CASE HandleExpired
  <2>1. task' = TaskIdle /\ task.news = "expired" /\ boltzAt[s] = "expired"
    BY <1>1, <1>3, <1>10 DEF HandleExpired, Handles, BoltzIsTrue, Handling
  <2>2. CASE state[s] \in {"Created", "TimedOut"} /\ UpdateSwap(s, "Failed") /\ UNCHANGED onchain
    <3>1. Writes(s, "Failed")
      BY <1>1, <1>2, <1>4, <2>1, <2>2 DEF Writes, Written, Sends, Ongoing
    <3> QED BY <1>1, <1>5, <3>1
  <2>3. CASE /\ state[s] \in {"Pending", "claiming", "RefundPending"} /\ UpdateSwap(s, "RefundPending")
             /\ onchain' = [onchain EXCEPT ![s] = @ \cup {"refund"}]
    <3>1. onchain'[s] = onchain[s] \cup {"refund"} /\ \A y \in Swaps \ {s} : onchain'[y] = onchain[y]
      BY <1>6, <2>3
    <3>2. Writes(s, "RefundPending")
      BY <1>1, <1>2, <1>4, <2>1, <2>3, <3>1 DEF Writes, Written, Sends, Ongoing
    <3> QED BY <1>1, <1>5, <3>2 DEF Happened
  <2>4. CASE /\ state[s] \in {"Pending", "claiming"} /\ UpdateSwap(s, "RefundPending") /\ UNCHANGED onchain
    <3>1. Writes(s, "RefundPending")
      BY <1>1, <1>2, <1>4, <2>1, <2>4 DEF Writes, Written, Sends, Ongoing
    <3> QED BY <1>1, <1>5, <3>1 DEF Happened
  <2>5. CASE UNCHANGED <<state, onchain, payments, unheard>> /\ (state[s] \notin Ongoing \/ "refund" \in onchain[s])
    <3>1. Writes(s, state[s])
      BY <1>1, <1>2, <1>4, <2>1, <2>5 DEF Writes, Written, Sends
    <3> QED BY <1>1, <1>3, <3>1
  <2>6. \/ state[s] \in {"Created", "TimedOut"} /\ UpdateSwap(s, "Failed") /\ UNCHANGED onchain
        \/ /\ state[s] \in {"Pending", "claiming", "RefundPending"} /\ UpdateSwap(s, "RefundPending")
           /\ onchain' = [onchain EXCEPT ![s] = @ \cup {"refund"}]
        \/ /\ state[s] \in {"Pending", "claiming"} /\ UpdateSwap(s, "RefundPending") /\ UNCHANGED onchain
        \/ UNCHANGED <<state, onchain, payments, unheard>> /\ (state[s] \notin Ongoing \/ "refund" \in onchain[s])
    BY <1>10 DEF HandleExpired, Ongoing
  <2> QED BY <2>2, <2>3, <2>4, <2>5, <2>6
<1> QED BY <1>7, <1>8, <1>9, <1>10

\* Every step keeps it true.
LEMMA RowStep ==
  ASSUME Bounds, Types, RowInv, [NewsNext]_newsVars
  PROVE  RowInv'
<1> USE DEF rowVars, boltzVars, taskVars
<1>0. Types'
  BY TypesStep
<1> SUFFICES ASSUME NEW x \in Swaps
             PROVE  Known(x)' /\ RowIsTrue(x)' /\ BoltzIsTrue(x)'
  BY DEF RowInv
<1>a. Known(x) /\ RowIsTrue(x) /\ BoltzIsTrue(x)
  BY DEF RowInv
<1>b. /\ state \in [Swaps -> States] /\ boltzAt \in [Swaps -> Statuses] /\ onchain \in [Swaps -> SUBSET Txs]
      /\ state' \in [Swaps -> States] /\ boltzAt' \in [Swaps -> Statuses] /\ onchain' \in [Swaps -> SUBSET Txs]
  BY <1>0 DEF Types
<1>1. ASSUME NEW s \in Swaps, CreateSwap(s) PROVE Known(x)' /\ RowIsTrue(x)' /\ BoltzIsTrue(x)'
  <2>1. /\ state[s] = "None" /\ state' = [state EXCEPT ![s] = "Created"] /\ boltzAt' = [boltzAt EXCEPT ![s] = "created"]
        /\ untracked' = untracked \cup {s}
        /\ UNCHANGED <<onchain, socket, tracked, unsent, requests, updates, payments, taskVars, waiter, breaks, missed, unheard>>
    BY <1>1 DEF CreateSwap
  <2>2. CASE x = s
    <3>1. state'[x] = "Created" /\ boltzAt'[x] = "created"
      BY <1>b, <2>1, <2>2
    <3>2. Known(x)'
      BY <3>1 DEF Known
    <3>3. RowIsTrue(x)'
      BY <1>a, <2>1, <2>2, <3>1 DEF RowIsTrue, Happened
    <3>4. BoltzIsTrue(x)'
      BY <1>a, <2>1, <2>2, <3>1 DEF Known, BoltzIsTrue, Handling, Sending, Happened
    <3> QED BY <3>2, <3>3, <3>4
  <2>3. CASE x # s
    BY <1>a, <1>b, <2>1, <2>3, RowStays DEF Asked, Changed, Emitting, Sending
  <2> QED BY <2>2, <2>3
<1>2. ASSUME NEW s \in Swaps, TrackSwapId(s) PROVE Known(x)' /\ RowIsTrue(x)' /\ BoltzIsTrue(x)'
  <2>1. ToSet(requests') \subseteq ToSet(requests) \cup {s}
    BY <1>2, TrackSwapIdSends
  <2>2. /\ s \in untracked /\ untracked' = untracked \ {s}
        /\ UNCHANGED <<rowVars, boltzVars, updates, payments, taskVars, breaks, unheard>>
    BY <1>2 DEF TrackSwapId
  <2> QED BY <1>a, <2>1, <2>2, RowStays DEF Asked, Changed, Emitting, Sending
<1>3. ASSUME NEW s \in Swaps, RecoverSwap(s) PROVE Known(x)' /\ RowIsTrue(x)' /\ BoltzIsTrue(x)'
  <2>0. RowIsTrue(s) /\ Known(s)
    BY DEF RowInv
  <2>1. /\ state[s] \in {"Created", "TimedOut", "Pending", "claiming", "RefundPending"}
        /\ UNCHANGED <<onchain, boltzVars, requests, updates, taskVars, untracked, waiter, breaks>>
    BY <1>3, RecoverSwapWrites
  <2>2. PICK to \in States :
          /\ UpdateSwap(s, to)
          /\ to \in Happened \cup {"Failed"}
          /\ to = "Failed" => boltzAt[s] = "expired" /\ ~("lockup" \in onchain[s] /\ "lockup" \in Named(state[s]))
          /\ to \in Happened => "lockup" \in onchain[s]
          /\ to = "claiming" => "claim" \in onchain[s]
          /\ {"lockup", "claim"} \subseteq onchain[s] \cap Named(state[s]) => to \in {"claiming", "RefundPending", "Complete"}
    BY <1>3, RecoverSwapWrites
  <2>3. state' = [state EXCEPT ![s] = to] /\ ToSet(payments') \subseteq ToSet(payments) \cup {s}
    BY <2>2, UpdateSwapSends
  <2>4. CASE x = s
    <3>1. state'[x] = to
      BY <1>b, <2>3, <2>4
    <3>2. Known(x)'
      BY <1>a, <2>1, <2>2, <2>4, <3>1 DEF Known, Happened
    <3>3. "claim" \in onchain[x] => to \in {"claiming", "RefundPending", "Complete"}
      <4> SUFFICES ASSUME "claim" \in onchain[x] PROVE to \in {"claiming", "RefundPending", "Complete"}
        OBVIOUS
      <4>1. state[s] \in {"claiming", "RefundPending"}
        BY <2>0, <2>1, <2>4 DEF RowIsTrue
      <4>2. {"lockup", "claim"} \subseteq Named(state[s])
        BY <4>1 DEF Named
      <4>3. "lockup" \in onchain[s]
        BY <2>0, <4>1 DEF RowIsTrue, Happened
      <4> QED BY <2>2, <2>4, <4>2, <4>3
    <3>4. RowIsTrue(x)'
      BY <2>1, <2>2, <2>4, <3>1, <3>3 DEF RowIsTrue
    <3>5. state[x] \in Happened => to \in Happened
      <4>1. state[x] \in Happened => "lockup" \in Named(state[s])
        BY <2>1, <2>4 DEF Named, Happened
      <4> QED BY <2>0, <2>2, <2>4, <4>1 DEF RowIsTrue
    <3>6. BoltzIsTrue(x)'
      BY <1>a, <2>1, <2>4, <3>1, <3>5 DEF BoltzIsTrue, Handling, Sending
    <3> QED BY <3>2, <3>4, <3>6
  <2>5. CASE x # s
    BY <1>a, <1>b, <2>1, <2>3, <2>5, RowStays DEF Asked, Changed, Emitting, Sending
  <2> QED BY <2>4, <2>5
<1>4. ASSUME NEW s \in Swaps, ClaimOutgoing(s) \/ RefundOutgoing(s)
      PROVE  Known(x)' /\ RowIsTrue(x)' /\ BoltzIsTrue(x)'
  <2>1. PICK to \in States, tx \in Txs :
          /\ UpdateSwap(s, to) /\ onchain' = [onchain EXCEPT ![s] = @ \cup {tx}]
          /\ state[s] \in Happened
          /\ (to = "claiming" /\ tx = "claim") \/ (to = "RefundPending" /\ tx = "refund")
    <3>1. {"claiming", "RefundPending"} \subseteq States /\ {"claim", "refund"} \subseteq Txs
      BY DEF States, Happened, Txs
    <3>2. CASE ClaimOutgoing(s)
      <4>1. /\ UpdateSwap(s, "claiming") /\ onchain' = [onchain EXCEPT ![s] = @ \cup {"claim"}]
            /\ state[s] \in Happened
        BY <3>2 DEF ClaimOutgoing, Happened
      <4> HIDE DEF UpdateSwap
      <4> QED BY <3>1, <4>1
    <3>3. CASE RefundOutgoing(s)
      <4>1. /\ UpdateSwap(s, "RefundPending") /\ onchain' = [onchain EXCEPT ![s] = @ \cup {"refund"}]
            /\ state[s] \in Happened
        BY <3>3 DEF RefundOutgoing, Happened
      <4> QED BY <3>1, <4>1
    <3> QED BY <1>4, <3>2, <3>3
  <2>2. UNCHANGED <<boltzVars, requests, updates, taskVars, untracked, waiter, breaks, missed>>
    BY <1>4 DEF ClaimOutgoing, RefundOutgoing
  <2>3. state' = [state EXCEPT ![s] = to] /\ ToSet(payments') \subseteq ToSet(payments) \cup {s}
    BY <2>1, UpdateSwapSends
  <2>4. \A y \in Swaps : onchain'[y] = IF y = s THEN onchain[y] \cup {tx} ELSE onchain[y]
    BY <2>1, TxIsSent
  <2>5. CASE x = s
    <3>1. state'[x] = to /\ onchain'[x] = onchain[x] \cup {tx}
      BY <1>b, <2>3, <2>4, <2>5
    <3>2. Known(x)'
      BY <1>a, <2>1, <2>2, <2>5, <3>1 DEF Known, Happened
    <3>3. RowIsTrue(x)'
      BY <1>a, <2>1, <2>2, <2>5, <3>1 DEF RowIsTrue, Happened
    <3>4. BoltzIsTrue(x)'
      BY <1>a, <2>1, <2>2, <2>5, <3>1 DEF BoltzIsTrue, Handling, Sending, Happened
    <3> QED BY <3>2, <3>3, <3>4
  <2>6. CASE x # s
    BY <1>a, <1>b, <2>2, <2>3, <2>4, <2>6, RowStays DEF Asked, Changed, Emitting, Sending
  <2> QED BY <2>5, <2>6
<1>5. ASSUME NEW s \in Swaps, ReceiveUpdate(s) PROVE Known(x)' /\ RowIsTrue(x)' /\ BoltzIsTrue(x)'
  <2>1. ToSet(updates') \subseteq ToSet(updates) \cup {[id |-> s, at |-> boltzAt[s]]}
    BY <1>5, ReceiveUpdateSends
  <2>2. UNCHANGED <<rowVars, boltzAt, socket, requests, tracked, payments, untracked, taskVars, waiter, breaks, unheard>>
    BY <1>5 DEF ReceiveUpdate
  <2>3. \A a : Sending(x, a)' => Sending(x, a) \/ boltzAt[x] = a
    BY <2>1 DEF Sending
  <2>4. Known(x)' /\ RowIsTrue(x)'
    BY <1>a, <2>2 DEF Known, RowIsTrue, Asked, Changed, Emitting
  <2>5. BoltzIsTrue(x)'
    BY <1>a, <2>2, <2>3 DEF BoltzIsTrue, Handling
  <2> QED BY <2>4, <2>5
<1>6. ASSUME NEW s \in Swaps, BoltzProceeds(s) PROVE Known(x)' /\ RowIsTrue(x)' /\ BoltzIsTrue(x)'
  <2>1. /\ UNCHANGED <<state, socket, requests, tracked, updates, payments, untracked, taskVars, waiter, breaks>>
        /\ UNCHANGED <<missed, unheard>>
    BY <1>6 DEF BoltzProceeds
  <2>2. CASE x = s
    <3>1. \/ boltzAt[x] = "created" /\ "lockup" \in onchain[x] /\ boltzAt'[x] = "mempool" /\ onchain'[x] = onchain[x]
          \/ boltzAt[x] = "mempool" /\ boltzAt'[x] = "locked" /\ onchain'[x] = onchain[x] \cup {"server"}
          \/ /\ boltzAt[x] \in {"created", "mempool", "locked"} /\ ~CreatedComes(x)
             /\ boltzAt'[x] = "expired" /\ onchain'[x] = onchain[x]
      BY <1>6, <1>b, <2>2 DEF BoltzProceeds
    <3>2. Known(x)'
      BY <1>a, <2>1, <3>1 DEF Known, Asked, Changed, Emitting
    <3>3. RowIsTrue(x)'
      BY <1>a, <2>1, <3>1 DEF RowIsTrue
    <3>4. CreatedComes(x) <=> Sending(x, "created") \/ Handling(x, {"created", "lockup", "lockedUp"})
      BY DEF CreatedComes, Sending, Handling
    <3>5. BoltzIsTrue(x)'
      BY <1>a, <2>1, <3>1, <3>4 DEF BoltzIsTrue, Handling, Sending
    <3> QED BY <3>2, <3>3, <3>5
  <2>3. CASE x # s
    <3>1. boltzAt'[x] = boltzAt[x] /\ onchain'[x] = onchain[x]
      BY <1>6, <1>b, <2>3 DEF BoltzProceeds
    <3> QED BY <1>a, <2>1, <3>1, RowStays DEF Asked, Changed, Emitting, Sending
  <2> QED BY <2>2, <2>3
<1>7. ASSUME ResubscribeSwaps PROVE Known(x)' /\ RowIsTrue(x)' /\ BoltzIsTrue(x)'
  <2>1. ToSet(requests') = {}
    BY <1>7 DEF ResubscribeSwaps, ToSet
  <2> QED BY <1>7, <1>a, <2>1, RowStays DEF ResubscribeSwaps, Asked, Changed, Emitting, Sending
<1>8. ASSUME ConnectFails \/ StreamBreaks PROVE Known(x)' /\ RowIsTrue(x)' /\ BoltzIsTrue(x)'
  BY <1>8, <1>a, RowStays DEF ConnectFails, StreamBreaks, Asked, Changed, Emitting, Sending
<1>9. ASSUME ConnectSocket PROVE Known(x)' /\ RowIsTrue(x)' /\ BoltzIsTrue(x)'
  <2>1. ToSet(requests') \subseteq ToSet(requests) \cup list_ongoing_swaps
    BY <1>9, ConnectSends
  <2>2. /\ tracked' = {}
        /\ UNCHANGED <<rowVars, boltzAt, updates, payments, untracked, taskVars, waiter, breaks, unheard>>
    BY <1>9 DEF ConnectSocket
  <2>3. x \in list_ongoing_swaps => state[x] # "None"
    BY DEF list_ongoing_swaps, Ongoing
  <2>4. Known(x)'
    BY <1>a, <2>1, <2>2, <2>3 DEF Known, Asked, Changed, Emitting
  <2>5. RowIsTrue(x)' /\ BoltzIsTrue(x)'
    BY <1>a, <2>2 DEF RowIsTrue, BoltzIsTrue, Handling, Sending
  <2> QED BY <2>4, <2>5
<1>10. ASSUME ReceiveRequest PROVE Known(x)' /\ RowIsTrue(x)' /\ BoltzIsTrue(x)'
  <2>1. ToSet(requests) = {Head(requests)} \cup ToSet(requests')
    BY <1>10, SetOfTail DEF ReceiveRequest, Types
  <2> QED BY <1>10, <1>a, <2>1, RowStays DEF ReceiveRequest, Asked, Changed, Emitting, Sending
<1>11. ASSUME TakeUpdate PROVE Known(x)' /\ RowIsTrue(x)' /\ BoltzIsTrue(x)'
  <2>1. ToSet(updates) = {Head(updates)} \cup ToSet(updates') /\ Head(updates) \in Update
    BY <1>11, SetOfTail DEF TakeUpdate, Types
  <2>2. /\ task.at = "select" /\ task' = [at |-> "status", id |-> Head(updates).id, news |-> Head(updates).at]
        /\ UNCHANGED <<rowVars, boltzVars, requests, payments, untracked, paused, firstSync, told, waiter, breaks, missed, unheard>>
    BY <1>11 DEF TakeUpdate
  <2>3. Head(updates) = [id |-> Head(updates).id, at |-> Head(updates).at]
    BY <2>1 DEF Update
  <2>4. \A a : Sending(x, a)' => Sending(x, a)
    BY <2>1 DEF Sending
  <2>5. task'.id = x => Sending(x, task'.news)
    BY <2>1, <2>2, <2>3 DEF Sending
  <2>6. task'.news \in Statuses
    BY <2>1, <2>2 DEF Update
  <2>7. Known(x)' /\ RowIsTrue(x)'
    BY <1>a, <2>2 DEF Known, RowIsTrue, Asked, Changed, Emitting
  <2>8. BoltzIsTrue(x)'
    BY <1>a, <2>2, <2>4, <2>5, <2>6 DEF BoltzIsTrue, Handling, Statuses
  <2> QED BY <2>7, <2>8
<1>12. ASSUME HandleCreated \/ BroadcastLockup PROVE Known(x)' /\ RowIsTrue(x)' /\ BoltzIsTrue(x)'
  <2>1. task.at = "status" /\ task.id \in Swaps /\ task \in Handled
    BY <1>12, TaskIsOfSwap DEF HandleCreated, BroadcastLockup, Handles
  <2>2. /\ UNCHANGED <<state, boltzVars, requests, updates, payments, untracked, paused, firstSync, told, waiter, breaks>>
        /\ UNCHANGED <<missed, unheard>>
    BY <1>12 DEF HandleCreated, BroadcastLockup
  <2>3. CASE HandleCreated /\ task' = TaskIdle
    BY <1>a, <2>2, <2>3, RowStays DEF HandleCreated, TaskIdle, Asked, Changed, Emitting, Sending
  <2>4. CASE HandleCreated /\ task' = [task EXCEPT !.news = "lockup"]
    <3>1. /\ task.news = "created" /\ task'.at = "status" /\ task'.id = task.id /\ task'.news = "lockup"
          /\ UNCHANGED onchain
      BY <2>1, <2>4 DEF HandleCreated, Handles, Handled
    <3>2. Known(x)' /\ RowIsTrue(x)'
      BY <1>a, <2>2, <3>1 DEF Known, RowIsTrue, Asked, Changed, Emitting
    <3>3. BoltzIsTrue(x)'
      BY <1>a, <2>1, <2>2, <3>1 DEF BoltzIsTrue, Handling, Sending
    <3> QED BY <3>2, <3>3
  <2>5. CASE BroadcastLockup
    <3>1. /\ task.news = "lockup" /\ task'.at = "status" /\ task'.id = task.id /\ task'.news = "lockedUp"
          /\ onchain' = [onchain EXCEPT ![task.id] = @ \cup {"lockup"}]
      BY <2>1, <2>5 DEF BroadcastLockup, Handles, Handled
    <3>2. \A y \in Swaps : onchain'[y] = IF y = task.id THEN onchain[y] \cup {"lockup"} ELSE onchain[y]
      BY <2>1, <3>1, TxIsSent DEF Txs
    <3>3. Known(x)'
      BY <1>a, <2>1, <2>2, <3>1 DEF Known, Asked, Changed, Emitting
    <3>4. RowIsTrue(x)'
      BY <1>a, <2>2, <3>2 DEF RowIsTrue
    <3>5. BoltzIsTrue(x)'
      BY <1>a, <2>1, <2>2, <3>1, <3>2 DEF BoltzIsTrue, Handling, Sending
    <3> QED BY <3>3, <3>4, <3>5
  <2> QED BY <1>12, <2>3, <2>4, <2>5 DEF HandleCreated
<1>13. ASSUME HandleLockup \/ HandleServerLockup \/ HandleClaim \/ HandleExpired
       PROVE  Known(x)' /\ RowIsTrue(x)' /\ BoltzIsTrue(x)'
  <2>1. PICK s \in Swaps, to \in States : Writes(s, to)
    BY <1>13, HandlersWrite
  <2>2. /\ UNCHANGED <<boltzVars, requests, updates, untracked, paused, firstSync, told, waiter, breaks, missed>>
        /\ task.at = "status" /\ task.id = s
        /\ task'.at = "select" \/ (task'.at = "status" /\ task'.id = s /\ task'.news = "claim" /\ task.news = "locked" /\ to = "Pending")
    BY <2>1 DEF Writes
  <2>3. /\ state' = [state EXCEPT ![s] = to] /\ ToSet(payments') \subseteq ToSet(payments) \cup {s}
        /\ to # "None" \/ (to = state[s] /\ UNCHANGED payments)
    <3>1. CASE UpdateSwap(s, to) /\ to # "None"
      BY <3>1, UpdateSwapSends
    <3>2. CASE to = state[s] /\ UNCHANGED <<state, payments, unheard>>
      BY <1>b, <3>2
    <3> QED BY <2>1, <3>1, <3>2 DEF Writes
  <2>4. CASE x = s
    <3>1. state'[x] = to
      BY <1>b, <2>3, <2>4
    <3>2. state[x] = "None" <=> to = "None"
      BY <2>1, <2>4 DEF Writes, Written
    <3>3. Known(x)'
      BY <1>a, <2>2, <2>3, <2>4, <3>1, <3>2 DEF Known, Asked, Changed, Emitting
    <3>4. RowIsTrue(x)'
      BY <1>a, <2>1, <2>2, <2>4, <3>1 DEF RowIsTrue, Writes, Written, Sends, Happened
    <3>5. BoltzIsTrue(x)'
      BY <1>a, <2>1, <2>2, <2>4, <3>1 DEF BoltzIsTrue, Handling, Sending, Writes, Written, Sends, Happened
    <3> QED BY <3>3, <3>4, <3>5
  <2>5. CASE x # s
    <3>1. state'[x] = state[x] /\ onchain'[x] = onchain[x] /\ (Changed(x)' => Changed(x))
      BY <1>b, <2>1, <2>3, <2>5 DEF Writes, Changed
    <3>2. Known(x)' /\ RowIsTrue(x)'
      BY <1>a, <2>2, <3>1 DEF Known, RowIsTrue, Asked, Emitting
    <3>3. BoltzIsTrue(x)'
      BY <1>a, <2>2, <2>5, <3>1 DEF BoltzIsTrue, Handling, Sending
    <3> QED BY <3>2, <3>3
  <2> QED BY <2>4, <2>5
<1>14. ASSUME HandleUpdateFails \/ EmitFails PROVE Known(x)' /\ RowIsTrue(x)' /\ BoltzIsTrue(x)'
  <2>1. task.id \in Swaps
    BY <1>14, TaskIsOfSwap DEF HandleUpdateFails, EmitFails
  <2>2. /\ task' = TaskIdle
        /\ UNCHANGED <<state, boltzVars, requests, updates, payments, untracked, paused, firstSync, told, waiter>>
    BY <1>14 DEF HandleUpdateFails, EmitFails
  <2>3. \/ UNCHANGED onchain
        \/ onchain' = [onchain EXCEPT ![task.id] = @ \cup {"lockup"}]
    BY <1>14 DEF HandleUpdateFails, EmitFails
  <2>4. onchain'[x] = onchain[x] \/ onchain'[x] = onchain[x] \cup {"lockup"}
    <3>1. CASE UNCHANGED onchain
      BY <3>1
    <3>2. CASE onchain' = [onchain EXCEPT ![task.id] = @ \cup {"lockup"}]
      BY <1>b, <2>1, <3>2
    <3> QED BY <2>3, <3>1, <3>2
  <2>5. Known(x)'
    BY <1>a, <2>2 DEF Known, Asked, Changed, Emitting, TaskIdle
  <2>6. RowIsTrue(x)'
    BY <1>a, <2>2, <2>4 DEF RowIsTrue
  <2>7. BoltzIsTrue(x)'
    BY <1>a, <2>2, <2>4 DEF BoltzIsTrue, Handling, Sending, TaskIdle
  <2> QED BY <2>5, <2>6, <2>7
<1>15. ASSUME TakePayment PROVE Known(x)' /\ RowIsTrue(x)' /\ BoltzIsTrue(x)'
  <2>1. ToSet(payments) = {Head(payments)} \cup ToSet(payments')
    BY <1>15, SetOfTail DEF TakePayment, Types
  <2> QED BY <1>15, <1>a, <2>1, RowStays DEF TakePayment, Asked, Changed, Emitting, Sending
<1>16. ASSUME EmitPaymentUpdated PROVE Known(x)' /\ RowIsTrue(x)' /\ BoltzIsTrue(x)'
  BY <1>16, <1>a, RowStays DEF EmitPaymentUpdated, TaskIdle, Asked, Changed, Emitting, Sending
<1>17. ASSUME WaitTimesOut PROVE Known(x)' /\ RowIsTrue(x)' /\ BoltzIsTrue(x)'
  <2>1. waiter.id \in Swaps
    BY <1>17, WaiterIsThere DEF WaitTimesOut
  <2>2. UNCHANGED <<onchain, boltzVars, requests, updates, untracked, taskVars, breaks, missed>>
    BY <1>17 DEF WaitTimesOut
  <2>3. \/ state[waiter.id] = "Created" /\ UpdateSwap(waiter.id, "TimedOut")
        \/ UNCHANGED <<state, payments, unheard>>
    BY <1>17 DEF WaitTimesOut
  <2>4. CASE state[waiter.id] = "Created" /\ UpdateSwap(waiter.id, "TimedOut")
    <3>1. "TimedOut" \in States
      BY DEF States
    <3>2. state' = [state EXCEPT ![waiter.id] = "TimedOut"] /\ ToSet(payments') \subseteq ToSet(payments) \cup {waiter.id}
      BY <2>1, <2>4, <3>1, UpdateSwapSends
    <3>3. CASE x = waiter.id
      <4>1. state[x] = "Created" /\ state'[x] = "TimedOut"
        BY <1>b, <2>4, <3>2, <3>3
      <4>2. Known(x)' /\ RowIsTrue(x)'
        BY <1>a, <2>2, <4>1 DEF Known, RowIsTrue, Happened
      <4>3. BoltzIsTrue(x)'
        BY <1>a, <2>2, <4>1 DEF BoltzIsTrue, Handling, Sending, Happened
      <4> QED BY <4>2, <4>3
    <3>4. CASE x # waiter.id
      BY <1>a, <1>b, <2>2, <3>2, <3>4, RowStays DEF Asked, Changed, Emitting, Sending
    <3> QED BY <3>3, <3>4
  <2>5. CASE UNCHANGED <<state, payments, unheard>>
    BY <1>a, <2>2, <2>5, RowStays DEF Asked, Changed, Emitting, Sending
  <2> QED BY <2>3, <2>4, <2>5
<1>18. ASSUME FirstSync PROVE Known(x)' /\ RowIsTrue(x)' /\ BoltzIsTrue(x)'
  BY <1>18, <1>a, RowStays DEF FirstSync, Asked, Changed, Emitting, Sending
<1>19. ASSUME UNCHANGED newsVars PROVE Known(x)' /\ RowIsTrue(x)' /\ BoltzIsTrue(x)'
  BY <1>19, <1>a, RowStays DEF newsVars, Asked, Changed, Emitting, Sending
<1> QED
  BY <1>1, <1>2, <1>3, <1>4, <1>5, <1>6, <1>7, <1>8, <1>9, <1>10, <1>11, <1>12, <1>13, <1>14, <1>15, <1>16, <1>17,
     <1>18, <1>19 DEF NewsNext

-----------------------------------------------------------------------------
(* News *)

\* At the start there is no news.
LEMMA InitNews ==
  ASSUME Bounds, NewsInit
  PROVE  NewsInv
<1>1. Types /\ RowInv
  BY InitTypes, InitRows
<1>2. ASSUME NEW s \in Swaps PROVE Follows(s)
  BY <1>2 DEF NewsInit, TaskIdle, Follows, EventComes, IsAsked, StatusComes, Emitting, Happened, Ongoing
<1> QED BY <1>1, <1>2 DEF NewsInv

\* An event that comes still does, unless its id was dropped.
LEMMA EventStays ==
  ASSUME NEW x \in Swaps, Follows(x), x \notin unheard' => x \notin unheard,
         state'[x] = state[x], told'[x] = told[x], x \notin unheard' /\ Changed(x) => Changed(x)',
         task' = task \/ (~Emitting(x) /\ ~Emitting(x)')
  PROVE  x \notin unheard' => EventComes(x)'
<1>1. Emitting(x)' => Emitting(x) /\ task' = task
  BY DEF Emitting
<1>2. Emitting(x) => Emitting(x)'
  BY DEF Emitting
<1> QED BY <1>1, <1>2 DEF Follows, EventComes

\* A row that was written has an event on its way.
LEMMA EventIsSent ==
  ASSUME NEW x \in Swaps, x \notin unheard' => Changed(x)'
  PROVE  x \notin unheard' => EventComes(x)'
BY DEF EventComes

\* A status that comes still does, unless it was dropped.
LEMMA StatusStays ==
  ASSUME NEW x \in Swaps, Follows(x), x \notin missed' => x \notin missed, boltzAt'[x] = boltzAt[x],
         x \notin missed' /\ state'[x] \in Ongoing => state[x] \in Ongoing,
         x \notin missed' /\ x \in tracked /\ Settled(x) => Settled(x)',
         x \notin missed' /\ Asked(x) => Asked(x)', socket' = "open" => socket = "open",
         x \in tracked' => x \in tracked,
         x \notin missed' /\ x \in tracked' /\ Replied(x, boltzAt[x]) => StatusComes(x)',
         x \notin missed' /\ x \in tracked' /\ Handling(x, HandlingOf(boltzAt[x])) => StatusComes(x)'
  PROVE  x \notin missed' => IsAsked(x)' /\ StatusComes(x)'
<1> SUFFICES ASSUME x \notin missed' PROVE IsAsked(x)' /\ StatusComes(x)'
  OBVIOUS
<1>1. IsAsked(x)'
  BY DEF Follows, IsAsked
<1>2. CASE x \notin tracked'
  BY <1>1, <1>2 DEF StatusComes
<1>3. CASE x \in tracked'
  <2>1. Settled(x) \/ Replied(x, boltzAt[x]) \/ Handling(x, HandlingOf(boltzAt[x]))
    BY <1>3 DEF Follows, StatusComes
  <2>2. Settled(x) => StatusComes(x)'
    BY <1>3 DEF StatusComes
  <2> QED BY <1>1, <1>3, <2>1, <2>2
<1> QED BY <1>2, <1>3

\* So it is when the row stays, the chains grow, and neither the task nor the stream handles anything of the swap.
LEMMA AllStays ==
  ASSUME NEW x \in Swaps, Follows(x), x \notin missed' => x \notin missed, boltzAt'[x] = boltzAt[x],
         state'[x] = state[x], onchain[x] \subseteq onchain'[x],
         x \notin missed' /\ Asked(x) => Asked(x)', socket' = "open" => socket = "open",
         x \in tracked' => x \in tracked,
         x \notin missed' /\ x \in tracked' /\ Replied(x, boltzAt[x]) => Replied(x, boltzAt[x])',
         x \notin missed' => task' = task \/ ~(task.at = "status" /\ task.id = x)
  PROVE  x \notin missed' => IsAsked(x)' /\ StatusComes(x)'
<1>1. Settled(x) => Settled(x)'
  BY DEF Settled
<1>2. x \notin missed' /\ Handling(x, HandlingOf(boltzAt[x])) => Handling(x, HandlingOf(boltzAt[x]))'
  BY DEF Handling, HandlingOf
<1>3. x \notin missed' /\ x \in tracked' /\ Replied(x, boltzAt[x]) => StatusComes(x)'
  BY DEF StatusComes, Replied, Sending
<1>4. x \notin missed' /\ x \in tracked' /\ Handling(x, HandlingOf(boltzAt[x])) => StatusComes(x)'
  BY <1>2 DEF StatusComes
<1> QED BY <1>1, <1>3, <1>4, StatusStays

\* Every step keeps where the news of a swap is: a message passes it on, or was dropped with it.
LEMMA NewsStep ==
  ASSUME Bounds, NewsInv, [NewsNext]_newsVars
  PROVE  NewsInv'
<1> USE DEF rowVars, boltzVars, taskVars
<1>0. Types /\ RowInv /\ Types' /\ RowInv'
  BY TypesStep, RowStep DEF NewsInv
<1> SUFFICES ASSUME NEW x \in Swaps
             PROVE  Follows(x)'
  BY <1>0 DEF NewsInv
<1>a. Follows(x) /\ Known(x) /\ RowIsTrue(x) /\ BoltzIsTrue(x)
  BY <1>0 DEF NewsInv, RowInv
<1>b. /\ state \in [Swaps -> States] /\ boltzAt \in [Swaps -> Statuses] /\ onchain \in [Swaps -> SUBSET Txs]
      /\ told \in [Swaps -> States \cup {"none"}]
      /\ state' \in [Swaps -> States] /\ boltzAt' \in [Swaps -> Statuses] /\ onchain' \in [Swaps -> SUBSET Txs]
  BY <1>0 DEF Types
<1> SUFFICES /\ x \notin unheard' => EventComes(x)'
             /\ x \notin missed' => IsAsked(x)' /\ StatusComes(x)'
  BY DEF Follows
<1> DEFINE Event == x \notin unheard' => EventComes(x)'
           Status == x \notin missed' => IsAsked(x)' /\ StatusComes(x)'
<1>1. ASSUME NEW s \in Swaps, CreateSwap(s) PROVE Event /\ Status
  <2>1. /\ state[s] = "None" /\ state' = [state EXCEPT ![s] = "Created"] /\ boltzAt' = [boltzAt EXCEPT ![s] = "created"]
        /\ untracked' = untracked \cup {s}
        /\ UNCHANGED <<onchain, socket, tracked, unsent, requests, updates, payments, taskVars, waiter, breaks, missed, unheard>>
    BY <1>1 DEF CreateSwap
  <2>2. CASE x = s
    <3>1. state'[x] = "Created" /\ x \notin tracked' /\ ~Emitting(x)' /\ x \in untracked'
      BY <1>a, <1>b, <2>1, <2>2 DEF Known, Asked, Emitting
    <3> QED BY <3>1 DEF EventComes, IsAsked, StatusComes, Asked, Happened
  <2>3. CASE x # s
    <3>1. Event
      BY <1>a, <1>b, <2>1, <2>3, EventStays DEF Changed
    <3>2. Status
      BY <1>a, <1>b, <2>1, <2>3, AllStays DEF Asked, Replied, Sending
    <3> QED BY <3>1, <3>2
  <2> QED BY <2>2, <2>3
<1>2. ASSUME NEW s \in Swaps, TrackSwapId(s) PROVE Event /\ Status
  <2>1. ToSet(requests) \cup {s} \subseteq ToSet(requests') \cup missed' /\ missed \subseteq missed'
    BY <1>0, <1>2, TrackSwapIdSends
  <2>2. /\ s \in untracked /\ untracked' = untracked \ {s}
        /\ UNCHANGED <<rowVars, boltzVars, updates, payments, taskVars, breaks, unheard>>
    BY <1>2 DEF TrackSwapId
  <2>3. Event
    BY <1>a, <2>2, EventStays DEF Changed
  <2>4. Status
    BY <1>a, <2>1, <2>2, AllStays DEF Asked, Replied, Sending
  <2> QED BY <2>3, <2>4
<1>3. ASSUME NEW s \in Swaps, RecoverSwap(s) PROVE Event /\ Status
  <2>0. RowIsTrue(s)
    BY <1>0 DEF RowInv
  <2>1. /\ state[s] \in {"Created", "TimedOut", "Pending", "claiming", "RefundPending"}
        /\ UNCHANGED <<onchain, boltzVars, requests, updates, taskVars, untracked, waiter, breaks>>
    BY <1>0, <1>3, RecoverSwapWrites
  <2>2. PICK to \in States :
          /\ UpdateSwap(s, to)
          /\ to \in Happened \cup {"Failed"}
          /\ {"lockup", "claim"} \subseteq onchain[s] \cap Named(state[s]) => to \in {"claiming", "RefundPending", "Complete"}
          /\ missed' = missed \cup IF state[s] \notin Ongoing /\ to \in Ongoing THEN {s} ELSE {}
    BY <1>0, <1>3, RecoverSwapWrites
  <2>3. /\ state' = [state EXCEPT ![s] = to]
        /\ ToSet(payments) \cup {s} \subseteq ToSet(payments') \cup unheard' /\ unheard \subseteq unheard'
    BY <1>0, <2>2, UpdateSwapSends
  <2>4. CASE x = s
    <3>1. Event
      BY <2>3, <2>4, EventIsSent DEF Changed
    <3>2. state'[x] = to
      BY <1>b, <2>3, <2>4
    <3>3. x \notin missed' /\ state'[x] \in Ongoing => state[x] \in Ongoing
      BY <2>2, <2>4, <3>2
    <3>4. state[x] = "claiming" => to # "Pending"
      BY <2>0, <2>2, <2>4 DEF RowIsTrue, Happened, Named
    <3>5. x \notin missed' /\ Settled(x) => Settled(x)'
      <4>1. to # "Created"
        BY <2>2 DEF Happened
      <4>2. x \notin missed' /\ state[x] \notin {"Created", "Pending"} => state'[x] \notin {"Created", "Pending"}
        BY <3>2, <3>3, <3>4, <4>1 DEF Ongoing
      <4> QED BY <2>1, <3>2, <3>3, <4>1, <4>2 DEF Settled
    <3>6. x \notin missed' /\ Asked(x) => Asked(x)'
      BY <2>1 DEF Asked
    <3>7. /\ Replied(x, boltzAt[x]) /\ x \in tracked' => StatusComes(x)'
          /\ Handling(x, HandlingOf(boltzAt[x])) /\ x \in tracked' => StatusComes(x)'
      BY <2>1 DEF StatusComes, Replied, Sending, Handling, HandlingOf
    <3>8. Status
      BY <1>a, <2>1, <2>2, <3>3, <3>5, <3>6, <3>7, StatusStays
    <3> QED BY <3>1, <3>8
  <2>5. CASE x # s
    <3>1. state'[x] = state[x]
      BY <1>b, <2>3, <2>5
    <3>2. Event
      BY <1>a, <2>1, <2>3, <3>1, EventStays DEF Changed
    <3>3. Status
      BY <1>a, <2>1, <2>2, <3>1, AllStays DEF Asked, Replied, Sending
    <3> QED BY <3>2, <3>3
  <2> QED BY <2>4, <2>5
<1>4. ASSUME NEW s \in Swaps, ClaimOutgoing(s) \/ RefundOutgoing(s) PROVE Event /\ Status
  <2>1. PICK to \in {"claiming", "RefundPending"}, tx \in Txs :
          /\ UpdateSwap(s, to) /\ onchain' = [onchain EXCEPT ![s] = @ \cup {tx}]
          /\ to \in Ongoing => state[s] \in Ongoing
    <3>1. {"claim", "refund"} \subseteq Txs
      BY DEF Txs
    <3>2. CASE ClaimOutgoing(s)
      <4>1. UpdateSwap(s, "claiming") /\ onchain' = [onchain EXCEPT ![s] = @ \cup {"claim"}] /\ state[s] \in Ongoing
        BY <3>2 DEF ClaimOutgoing, Ongoing
      <4> QED BY <3>1, <4>1
    <3>3. CASE RefundOutgoing(s)
      <4>1. UpdateSwap(s, "RefundPending") /\ onchain' = [onchain EXCEPT ![s] = @ \cup {"refund"}] /\ "RefundPending" \notin Ongoing
        BY <3>3 DEF RefundOutgoing, Ongoing
      <4> QED BY <3>1, <4>1
    <3> QED BY <1>4, <3>2, <3>3
  <2>2. UNCHANGED <<boltzVars, requests, updates, taskVars, untracked, waiter, breaks, missed>>
    BY <1>4 DEF ClaimOutgoing, RefundOutgoing
  <2>3. /\ state' = [state EXCEPT ![s] = to]
        /\ ToSet(payments) \cup {s} \subseteq ToSet(payments') \cup unheard' /\ unheard \subseteq unheard'
    BY <1>0, <2>1, UpdateSwapSends DEF States, Happened
  <2>4. \A y \in Swaps : onchain'[y] = IF y = s THEN onchain[y] \cup {tx} ELSE onchain[y]
    BY <1>0, <2>1, TxIsSent
  <2>5. CASE x = s
    <3>1. Event
      BY <2>3, <2>5, EventIsSent DEF Changed
    <3>2. state'[x] = to /\ onchain[x] \subseteq onchain'[x]
      BY <1>b, <2>3, <2>4, <2>5
    <3>3. Settled(x) => Settled(x)'
      BY <2>1, <2>2, <2>5, <3>2 DEF Settled, Ongoing
    <3>4. Asked(x) => Asked(x)'
      BY <2>2 DEF Asked
    <3>5. /\ Replied(x, boltzAt[x]) /\ x \in tracked' => StatusComes(x)'
          /\ Handling(x, HandlingOf(boltzAt[x])) /\ x \in tracked' => StatusComes(x)'
      BY <2>2 DEF StatusComes, Replied, Sending, Handling, HandlingOf
    <3>6. Status
      BY <1>a, <2>1, <2>2, <2>5, <3>2, <3>3, <3>4, <3>5, StatusStays
    <3> QED BY <3>1, <3>6
  <2>6. CASE x # s
    <3>1. state'[x] = state[x] /\ onchain'[x] = onchain[x]
      BY <1>b, <2>3, <2>4, <2>6
    <3>2. Event
      BY <1>a, <2>2, <2>3, <3>1, EventStays DEF Changed
    <3>3. Status
      BY <1>a, <2>2, <3>1, AllStays DEF Asked, Replied, Sending
    <3> QED BY <3>2, <3>3
  <2> QED BY <2>5, <2>6
<1>5. ASSUME NEW s \in Swaps, ReceiveUpdate(s) PROVE Event /\ Status
  <2>1. /\ \A u \in ToSet(updates) \cup {[id |-> s, at |-> boltzAt[s]]} : u \in ToSet(updates') \/ u.id \in missed'
        /\ missed \subseteq missed'
    BY <1>0, <1>5, ReceiveUpdateSends
  <2>2. /\ unsent' = unsent \ {s}
        /\ UNCHANGED <<rowVars, boltzAt, socket, requests, tracked, payments, untracked, taskVars, waiter, breaks, unheard>>
    BY <1>5 DEF ReceiveUpdate
  <2>3. ASSUME Replied(x, boltzAt[x]), x \notin missed'
        PROVE  Replied(x, boltzAt[x])'
    <3>1. CASE x \in unsent /\ x # s
      BY <3>1, <2>2 DEF Replied
    <3>2. CASE x \in unsent /\ x = s
      <4>1. [id |-> x, at |-> boltzAt[x]] \in ToSet(updates')
        BY <2>1, <2>3, <3>2
      <4> QED BY <2>2, <4>1 DEF Replied, Sending
    <3>3. CASE [id |-> x, at |-> boltzAt[x]] \in ToSet(updates)
      <4>1. [id |-> x, at |-> boltzAt[x]] \in ToSet(updates')
        BY <2>1, <2>3, <3>3
      <4> QED BY <2>2, <4>1 DEF Replied, Sending
    <3> QED BY <2>3, <3>1, <3>2, <3>3 DEF Replied, Sending
  <2>4. Event
    BY <1>a, <2>2, EventStays DEF Changed
  <2>5. Status
    <3>1. x \notin missed' /\ Replied(x, boltzAt[x]) => Replied(x, boltzAt[x])'
      BY <2>3
    <3> QED BY <1>a, <2>1, <2>2, <3>1, AllStays DEF Asked
  <2> QED BY <2>4, <2>5
<1>6. ASSUME NEW s \in Swaps, BoltzProceeds(s) PROVE Event /\ Status
  <2>1. /\ UNCHANGED <<state, socket, requests, tracked, updates, payments, untracked, taskVars, waiter, breaks, missed, unheard>>
        /\ unsent' = unsent \cup ({s} \cap tracked)
    BY <1>6 DEF BoltzProceeds
  <2>2. Event
    BY <1>a, <2>1, EventStays DEF Changed
  <2>3. CASE x = s
    <3>1. StatusComes(x)'
      BY <2>1, <2>3 DEF StatusComes, Replied
    <3>2. x \notin missed' => IsAsked(x)'
      BY <1>a, <2>1 DEF Follows, IsAsked, Asked
    <3> QED BY <2>2, <3>1, <3>2
  <2>4. CASE x # s
    <3>1. boltzAt'[x] = boltzAt[x] /\ onchain'[x] = onchain[x]
      BY <1>6, <1>b, <2>4 DEF BoltzProceeds
    <3>2. Status
      BY <1>a, <2>1, <3>1, AllStays DEF Asked, Replied, Sending
    <3> QED BY <2>2, <3>2
  <2> QED BY <2>3, <2>4
<1>7. ASSUME ResubscribeSwaps PROVE Event /\ Status
  <2>1. /\ socket' = "connecting"
        /\ UNCHANGED <<rowVars, boltzAt, tracked, unsent, updates, payments, untracked, taskVars, waiter, breaks, missed, unheard>>
    BY <1>7 DEF ResubscribeSwaps
  <2>2. Event
    BY <1>a, <2>1, EventStays DEF Changed
  <2>3. x \notin missed' => IsAsked(x)' /\ StatusComes(x)'
    BY <1>a, <2>1 DEF Follows, IsAsked, StatusComes, Settled, Replied, Sending, Handling, HandlingOf
  <2> QED BY <2>2, <2>3
<1>8. ASSUME ConnectFails \/ StreamBreaks PROVE Event /\ Status
  <2>1. /\ socket' = "sleeping" /\ (tracked' = {} \/ UNCHANGED <<tracked, unsent>>)
        /\ UNCHANGED <<rowVars, boltzAt, requests, updates, payments, untracked, taskVars, waiter, missed, unheard>>
    BY <1>8 DEF ConnectFails, StreamBreaks
  <2>2. Event
    BY <1>a, <2>1, EventStays DEF Changed
  <2>3. x \notin missed' => IsAsked(x)' /\ StatusComes(x)'
    BY <1>a, <2>1 DEF Follows, IsAsked, StatusComes, Settled, Replied, Sending, Handling, HandlingOf
  <2> QED BY <2>2, <2>3
<1>9. ASSUME ConnectSocket PROVE Event /\ Status
  <2>1. ToSet(requests) \cup list_ongoing_swaps \subseteq ToSet(requests') \cup missed'
    BY <1>0, <1>9, ConnectSends
  <2>2. /\ tracked' = {}
        /\ UNCHANGED <<rowVars, boltzAt, updates, payments, untracked, taskVars, waiter, breaks, unheard>>
    BY <1>9 DEF ConnectSocket
  <2>3. Event
    BY <1>a, <2>2, EventStays DEF Changed
  <2>4. StatusComes(x)'
    BY <2>2 DEF StatusComes
  <2>5. x \notin missed' => IsAsked(x)'
    BY <2>1, <2>2 DEF IsAsked, Asked, list_ongoing_swaps
  <2> QED BY <2>3, <2>4, <2>5
<1>10. ASSUME ReceiveRequest PROVE Event /\ Status
  <2>1. ToSet(requests) = {Head(requests)} \cup ToSet(requests')
    BY <1>0, <1>10, SetOfTail DEF ReceiveRequest, Types
  <2>2. /\ tracked' = tracked \cup {Head(requests)} /\ unsent' = unsent \cup ({Head(requests)} \ tracked)
        /\ UNCHANGED <<rowVars, boltzAt, socket, updates, payments, untracked, taskVars, waiter, breaks, missed, unheard>>
    BY <1>10 DEF ReceiveRequest
  <2>3. Event
    BY <1>a, <2>2, EventStays DEF Changed
  <2>4. x \notin missed' => IsAsked(x)'
    BY <1>a, <2>1, <2>2 DEF Follows, IsAsked, Asked
  <2>5. CASE x \in tracked' \ tracked
    <3>1. StatusComes(x)'
      BY <2>2, <2>5 DEF StatusComes, Replied
    <3> QED BY <2>3, <2>4, <3>1
  <2>6. CASE x \notin tracked' \ tracked
    <3>1. Status
      BY <1>a, <2>1, <2>2, <2>6, AllStays DEF Asked, Replied, Sending
    <3> QED BY <2>3, <3>1
  <2> QED BY <2>5, <2>6
<1>11. ASSUME TakeUpdate PROVE Event /\ Status
  <2>1. ToSet(updates) = {Head(updates)} \cup ToSet(updates') /\ Head(updates) \in Update
    BY <1>0, <1>11, SetOfTail DEF TakeUpdate, Types
  <2>2. /\ task.at = "select" /\ task' = [at |-> "status", id |-> Head(updates).id, news |-> Head(updates).at]
        /\ UNCHANGED <<rowVars, boltzVars, requests, payments, untracked, paused, firstSync, told, waiter, breaks, missed, unheard>>
    BY <1>11 DEF TakeUpdate
  <2>3. Event
    BY <1>a, <2>2, EventStays DEF Changed, Emitting
  <2>4. CASE Head(updates) = [id |-> x, at |-> boltzAt[x]]
    <3>1. Handling(x, {boltzAt[x]})' /\ boltzAt[x] \in HandlingOf(boltzAt[x])
      BY <2>2, <2>4 DEF Handling, HandlingOf
    <3>2. StatusComes(x)'
      BY <2>2, <3>1 DEF StatusComes, Handling
    <3>3. x \notin missed' => IsAsked(x)'
      BY <1>a, <2>2 DEF Follows, IsAsked, Asked
    <3> QED BY <2>3, <3>2, <3>3
  <2>5. CASE Head(updates) # [id |-> x, at |-> boltzAt[x]]
    <3>1. Replied(x, boltzAt[x]) => Replied(x, boltzAt[x])'
      BY <2>1, <2>2, <2>5 DEF Replied, Sending
    <3>2. Status
      BY <1>a, <2>2, <3>1, AllStays DEF Asked
    <3> QED BY <2>3, <3>2
  <2> QED BY <2>4, <2>5
<1>12. ASSUME HandleCreated \/ BroadcastLockup PROVE Event /\ Status
  <2>1. task.at = "status" /\ task.id \in Swaps /\ task \in Handled
    BY <1>0, <1>12, TaskIsOfSwap DEF HandleCreated, BroadcastLockup, Handles
  <2>2. /\ UNCHANGED <<state, boltzVars, requests, updates, payments, untracked, paused, firstSync, told, waiter, breaks>>
        /\ UNCHANGED <<missed, unheard>>
    BY <1>12 DEF HandleCreated, BroadcastLockup
  <2>3. onchain[x] \subseteq onchain'[x]
    <3>1. CASE HandleCreated
      BY <3>1 DEF HandleCreated
    <3>2. CASE BroadcastLockup
      BY <1>b, <2>1, <3>2 DEF BroadcastLockup
    <3> QED BY <1>12, <3>1, <3>2
  <2>4. /\ task'.at = "select" \/ (task'.at = "status" /\ task'.id = task.id /\ task'.news \in {"lockup", "lockedUp"})
        /\ task.news \in {"created", "lockup"} /\ (task'.at = "select" => ~MayLockUp(task.id))
    BY <1>12, <2>1 DEF HandleCreated, BroadcastLockup, TaskIdle, Handled, Handles
  <2>5. Event
    BY <1>a, <2>1, <2>2, <2>4, EventStays DEF Changed, Emitting
  <2>6. CASE x = task.id
    <3>1. Settled(x) => Settled(x)'
      BY <2>2, <2>3 DEF Settled
    <3>2. Replied(x, boltzAt[x]) /\ x \in tracked' => StatusComes(x)'
      BY <2>2 DEF StatusComes, Replied, Sending
    <3>3. Handling(x, HandlingOf(boltzAt[x])) => boltzAt[x] = "created"
      BY <1>b, <2>4 DEF Handling, HandlingOf, Statuses
    <3>4. boltzAt[x] = "created" => Settled(x)' \/ Handling(x, HandlingOf(boltzAt[x]))'
      <4>1. CASE task'.at = "select"
        <5>1. state[x] # "Created"
          BY <2>4, <2>6, <4>1 DEF MayLockUp, Happened
        <5> QED BY <2>2, <5>1 DEF Settled
      <4>2. CASE task'.at # "select"
        BY <2>2, <2>4, <2>6, <4>2 DEF Handling, HandlingOf
      <4> QED BY <4>1, <4>2
    <3>5. Handling(x, HandlingOf(boltzAt[x])) => StatusComes(x)'
      BY <3>3, <3>4 DEF StatusComes
    <3>6. Status
      BY <1>a, <2>2, <3>1, <3>2, <3>5, StatusStays DEF Asked
    <3> QED BY <2>5, <3>6
  <2>7. CASE x # task.id
    <3>1. Status
      BY <1>a, <2>2, <2>3, <2>7, AllStays DEF Asked, Replied, Sending
    <3> QED BY <2>5, <3>1
  <2> QED BY <2>6, <2>7
<1>13. ASSUME HandleLockup \/ HandleServerLockup \/ HandleClaim \/ HandleExpired PROVE Event /\ Status
  <2>1. PICK s \in Swaps, to \in States : Writes(s, to)
    BY <1>0, <1>13, HandlersWrite
  <2>2. /\ UNCHANGED <<boltzVars, requests, updates, untracked, paused, firstSync, told, waiter, breaks, missed>>
        /\ task.at = "status" /\ task.id = s
        /\ task'.at = "select" \/ (task'.at = "status" /\ task'.id = s /\ task'.news = "claim")
    BY <2>1 DEF Writes
  <2>3. /\ state' = [state EXCEPT ![s] = to] /\ unheard \subseteq unheard' /\ ToSet(payments) \subseteq ToSet(payments') \cup unheard'
        /\ s \in ToSet(payments') \cup unheard' \/ (to = state[s] /\ UNCHANGED <<payments, unheard>>)
    <3>1. CASE UpdateSwap(s, to)
      BY <1>0, <3>1, UpdateSwapSends
    <3>2. CASE to = state[s] /\ UNCHANGED <<state, payments, unheard>>
      BY <1>b, <3>2
    <3> QED BY <2>1, <3>1, <3>2 DEF Writes
  <2>4. CASE x = s
    <3>1. state'[x] = to
      BY <1>b, <2>3, <2>4
    <3>2. Event
      <4>1. CASE s \in ToSet(payments') \cup unheard'
        BY <2>4, <4>1, EventIsSent DEF Changed
      <4>2. CASE to = state[s] /\ UNCHANGED <<payments, unheard>>
        BY <1>a, <2>2, <2>4, <3>1, <4>2, EventStays DEF Changed, Emitting
      <4> QED BY <2>3, <4>1, <4>2
    <3>3. onchain[x] \subseteq onchain'[x]
      BY <2>1, <2>4 DEF Writes, Sends
    <3>4. to \in Ongoing => state[x] \in Ongoing
      BY <2>1, <2>4 DEF Writes, Written, Ongoing
    <3>5. Settled(x) => Settled(x)'
      BY <2>1, <2>2, <2>4, <3>1, <3>3 DEF Settled, Writes, Written, Ongoing
    <3>6. Replied(x, boltzAt[x]) /\ x \in tracked' => StatusComes(x)'
      BY <2>2 DEF StatusComes, Replied, Sending
    <3>7. Handling(x, HandlingOf(boltzAt[x])) => Settled(x)' \/ Handling(x, HandlingOf(boltzAt[x]))'
      <4> SUFFICES ASSUME task.news \in HandlingOf(boltzAt[x]) PROVE Settled(x)' \/ Handling(x, HandlingOf(boltzAt[x]))'
        BY DEF Handling
      <4>1. CASE boltzAt[x] = "created"
        BY <2>1, <2>2, <2>4, <3>1, <4>1 DEF Settled, Writes, HandlingOf
      <4>2. CASE boltzAt[x] = "mempool"
        BY <2>1, <2>2, <2>4, <3>1, <4>2 DEF Settled, Writes, HandlingOf
      <4>3. CASE boltzAt[x] = "locked"
        BY <2>1, <2>2, <2>4, <3>1, <4>3 DEF Settled, Writes, HandlingOf, Handling
      <4>4. CASE boltzAt[x] = "expired"
        BY <2>1, <2>2, <2>4, <3>1, <4>4 DEF Settled, Writes, HandlingOf
      <4>5. CASE boltzAt[x] = "none"
        BY <2>2, <4>5 DEF Settled
      <4> QED BY <1>b, <4>1, <4>2, <4>3, <4>4, <4>5 DEF Statuses
    <3>8. Handling(x, HandlingOf(boltzAt[x])) => StatusComes(x)'
      BY <2>2, <3>7 DEF StatusComes
    <3>9. Status
      BY <1>a, <2>2, <3>1, <3>4, <3>5, <3>6, <3>8, StatusStays DEF Asked
    <3> QED BY <3>2, <3>9
  <2>5. CASE x # s
    <3>1. state'[x] = state[x] /\ onchain'[x] = onchain[x]
      BY <1>b, <2>1, <2>3, <2>5 DEF Writes
    <3>2. Event
      BY <1>a, <2>2, <2>3, <3>1, EventStays DEF Changed, Emitting
    <3>3. Status
      BY <1>a, <2>2, <2>5, <3>1, AllStays DEF Asked, Replied, Sending
    <3> QED BY <3>2, <3>3
  <2> QED BY <2>4, <2>5
<1>14. ASSUME HandleUpdateFails \/ EmitFails PROVE Event /\ Status
  <2>1. /\ task' = TaskIdle
        /\ UNCHANGED <<state, boltzVars, requests, updates, payments, untracked, paused, firstSync, told, waiter>>
    BY <1>14 DEF HandleUpdateFails, EmitFails
  <2>2. task.id \in Swaps /\ onchain[x] \subseteq onchain'[x]
    <3>1. task.id \in Swaps
      BY <1>0, <1>14, TaskIsOfSwap DEF HandleUpdateFails, EmitFails
    <3>2. UNCHANGED onchain \/ onchain' = [onchain EXCEPT ![task.id] = @ \cup {"lockup"}]
      BY <1>14 DEF HandleUpdateFails, EmitFails
    <3> QED BY <1>b, <3>1, <3>2
  <2>3. CASE HandleUpdateFails
    <3>1. task.at = "status" /\ missed' = missed \cup {task.id} /\ unheard' = unheard
      BY <2>3 DEF HandleUpdateFails
    <3>2. Event
      BY <1>a, <2>1, <3>1, EventStays DEF Changed, Emitting, TaskIdle
    <3>3. Status
      BY <1>a, <2>1, <2>2, <3>1, AllStays DEF Asked, Replied, Sending
    <3> QED BY <3>2, <3>3
  <2>4. CASE EmitFails
    <3>1. task.at = "emit" /\ unheard' = unheard \cup {task.id} /\ missed' = missed
      BY <2>4 DEF EmitFails
    <3>2. CASE x = task.id
      <4>1. Status
        BY <1>a, <2>1, <2>2, <3>1, AllStays DEF Asked, Replied, Sending
      <4> QED BY <3>1, <3>2, <4>1
    <3>3. CASE x # task.id
      <4>1. Event
        BY <1>a, <2>1, <3>1, <3>3, EventStays DEF Changed, Emitting, TaskIdle
      <4>2. Status
        BY <1>a, <2>1, <2>2, <3>1, AllStays DEF Asked, Replied, Sending
      <4> QED BY <4>1, <4>2
    <3> QED BY <3>2, <3>3
  <2> QED BY <1>14, <2>3, <2>4
<1>15. ASSUME TakePayment PROVE Event /\ Status
  <2>1. ToSet(payments) = {Head(payments)} \cup ToSet(payments') /\ Head(payments) \in Swaps
    BY <1>0, <1>15, SetOfTail DEF TakePayment, Types
  <2>2. /\ task.at = "select" /\ task' = [at |-> "emit", id |-> Head(payments), news |-> state[Head(payments)]]
        /\ unheard' = unheard \ {Head(payments)}
        /\ UNCHANGED <<rowVars, boltzVars, requests, updates, untracked, paused, firstSync, told, waiter, breaks, missed>>
    BY <1>15 DEF TakePayment
  <2>3. Status
    BY <1>a, <2>2, AllStays DEF Asked, Replied, Sending
  <2>4. CASE x = Head(payments)
    BY <2>2, <2>3, <2>4 DEF EventComes, Emitting
  <2>5. CASE x # Head(payments)
    <3>1. Event
      BY <1>a, <2>1, <2>2, <2>5, EventStays DEF Changed, Emitting
    <3> QED BY <2>3, <3>1
  <2> QED BY <2>4, <2>5
<1>16. ASSUME EmitPaymentUpdated PROVE Event /\ Status
  <2>1. /\ task.at = "emit" /\ task' = TaskIdle
        /\ UNCHANGED <<rowVars, boltzVars, requests, updates, payments, untracked, paused, firstSync, breaks, missed>>
    BY <1>16 DEF EmitPaymentUpdated
  <2>2. task.id \in Swaps
    BY <1>0, <2>1, TaskIsOfSwap
  <2>3. Status
    BY <1>a, <2>1, AllStays DEF Asked, Replied, Sending
  <2>4. CASE x = task.id
    <3>1. \/ task.news \in Happened /\ x \in unheard'
          \/ task.news \in Happened /\ told'[x] = task.news /\ unheard' = unheard
          \/ task.news \notin Happened /\ told' = told /\ unheard' = unheard
      BY <1>16, <1>b, <2>2, <2>4 DEF EmitPaymentUpdated
    <3>2. ~Emitting(x)' /\ Emitting(x)
      BY <2>1, <2>4 DEF Emitting, TaskIdle
    <3>3. Event
      BY <1>a, <2>1, <3>1, <3>2 DEF Follows, EventComes, Changed
    <3> QED BY <2>3, <3>3
  <2>5. CASE x # task.id
    <3>1. told'[x] = told[x] /\ (x \notin unheard' => x \notin unheard)
      BY <1>16, <1>b, <2>2, <2>5 DEF EmitPaymentUpdated
    <3>2. Event
      BY <1>a, <2>1, <2>5, <3>1, EventStays DEF Changed, Emitting, TaskIdle
    <3> QED BY <2>3, <3>2
  <2> QED BY <2>4, <2>5
<1>17. ASSUME WaitTimesOut PROVE Event /\ Status
  <2>1. waiter.id \in Swaps
    BY <1>0, <1>17, WaiterIsThere DEF WaitTimesOut
  <2>2. UNCHANGED <<onchain, boltzVars, requests, updates, untracked, taskVars, breaks, missed>>
    BY <1>17 DEF WaitTimesOut
  <2>3. \/ state[waiter.id] = "Created" /\ UpdateSwap(waiter.id, "TimedOut")
        \/ UNCHANGED <<state, payments, unheard>>
    BY <1>17 DEF WaitTimesOut
  <2>4. CASE state[waiter.id] = "Created" /\ UpdateSwap(waiter.id, "TimedOut")
    <3>1. "TimedOut" \in States
      BY DEF States
    <3>2. /\ state' = [state EXCEPT ![waiter.id] = "TimedOut"] /\ unheard \subseteq unheard'
          /\ ToSet(payments) \cup {waiter.id} \subseteq ToSet(payments') \cup unheard'
      BY <1>0, <2>1, <2>4, <3>1, UpdateSwapSends
    <3>3. CASE x = waiter.id
      <4>1. state'[x] = "TimedOut"
        BY <1>b, <3>2, <3>3
      <4>2. Settled(x)' /\ state'[x] \notin Ongoing
        BY <4>1 DEF Settled, Ongoing
      <4>3. IsAsked(x)' /\ StatusComes(x)'
        BY <4>2 DEF IsAsked, StatusComes
      <4>4. Event
        BY <3>2, <3>3, EventIsSent DEF Changed
      <4> QED BY <4>3, <4>4
    <3>4. CASE x # waiter.id
      <4>1. state'[x] = state[x]
        BY <1>b, <3>2, <3>4
      <4>2. Event
        BY <1>a, <2>2, <3>2, <4>1, EventStays DEF Changed
      <4>3. Status
        BY <1>a, <2>2, <4>1, AllStays DEF Asked, Replied, Sending
      <4> QED BY <4>2, <4>3
    <3> QED BY <3>3, <3>4
  <2>5. CASE UNCHANGED <<state, payments, unheard>>
    <3>1. Event
      BY <1>a, <2>2, <2>5, EventStays DEF Changed
    <3>2. Status
      BY <1>a, <2>2, <2>5, AllStays DEF Asked, Replied, Sending
    <3> QED BY <3>1, <3>2
  <2> QED BY <2>3, <2>4, <2>5
<1>18. ASSUME FirstSync \/ UNCHANGED newsVars PROVE Event /\ Status
  <2>1. UNCHANGED <<rowVars, boltzVars, requests, updates, payments, untracked, task, told, waiter, missed, unheard>>
    BY <1>18 DEF FirstSync, newsVars
  <2>2. Event
    BY <1>a, <2>1, EventStays DEF Changed
  <2>3. Status
    BY <1>a, <2>1, AllStays DEF Asked, Replied, Sending
  <2> QED BY <2>2, <2>3
<1> QED
  BY <1>1, <1>2, <1>3, <1>4, <1>5, <1>6, <1>7, <1>8, <1>9, <1>10, <1>11, <1>12, <1>13, <1>14, <1>15, <1>16, <1>17,
     <1>18 DEF NewsNext

\* For any finite set of swaps, any capacity and any number of breaks: once nothing is on its way, every ongoing swap is
\* subscribed to and what Boltz said of it is handled, whatever recovery, the claims and the refunds wrote meanwhile,
\* unless this connection lost some of that or recovery made the swap ongoing again. And the listeners were told the
\* state of every swap that happened, unless an event of it was lost since (status_stream.rs, track_swap_updates).
THEOREM NewsAlwaysArrives == NewsSpec => []NewsArrives
<1>1. ASSUME Bounds, NewsInv, [NewsNext]_newsVars
      PROVE  NewsInv'
  BY <1>1, NewsStep
<1>2. NewsInv => NewsArrives
  <2> SUFFICES ASSUME NewsInv, AtRest, NEW s \in Swaps
               PROVE  /\ s \notin missed => Settled(s) /\ (s \in list_ongoing_swaps => s \in tracked)
                      /\ s \notin unheard => (state[s] \in Happened => told[s] = state[s])
    BY DEF NewsArrives
  <2>1. Follows(s) /\ state[s] \in States /\ boltzAt[s] \in Statuses
    BY DEF NewsInv, Types
  <2>2. /\ ToSet(requests) = {} /\ ToSet(payments) = {} /\ ToSet(updates) = {} /\ untracked = {} /\ unsent = {}
        /\ socket = "open" /\ task.at = "select"
    BY DEF AtRest, TaskIdle, ToSet
  <2>3. ~Changed(s) /\ ~Emitting(s) /\ ~Replied(s, boltzAt[s]) /\ ~Handling(s, HandlingOf(boltzAt[s]))
    BY <2>2 DEF Changed, Emitting, Replied, Sending, Handling
  <2>4. s \notin unheard => (state[s] \in Happened => told[s] = state[s])
    BY <2>1, <2>3 DEF Follows, EventComes
  <2>5. s \notin missed => (state[s] \in Ongoing => s \in tracked)
    BY <2>1, <2>2 DEF Follows, IsAsked, Asked
  <2>6. state[s] \notin Ongoing => Settled(s)
    BY DEF Settled, Ongoing
  <2>7. s \notin missed => Settled(s)
    BY <2>1, <2>3, <2>5, <2>6 DEF Follows, StatusComes
  <2> QED BY <2>4, <2>5, <2>7 DEF list_ongoing_swaps
<1>3. Bounds => (NewsSpec => []NewsArrives)
  <2> SUFFICES ASSUME Bounds
               PROVE  NewsSpec => []NewsArrives
    OBVIOUS
  <2>1. NewsInit => NewsInv
    BY InitNews
  <2>2. NewsInv /\ [NewsNext]_newsVars => NewsInv'
    BY <1>1
  <2> QED BY <1>2, <2>1, <2>2, PTL DEF NewsSpec
<1> QED BY <1>3, NewsAssumption DEF Bounds

-----------------------------------------------------------------------------
(* The call that waits *)

\* What is said of a swap stays true
RowGoesOn(s) ==
  /\ onchain[s] \subseteq onchain'[s]
  /\ state[s] # "None" => state'[s] # "None"
  /\ state[s] \in Happened => state'[s] \in Happened
  /\ state[s] \in {"Failed", "Refunded", "Complete"} => state'[s] = state[s]
  /\ state'[s] = "TimedOut" => state[s] = "TimedOut" \/ WaitTimesOut
  /\ Forsaken(s) => Forsaken(s)'

\* What was paid or is final stays so, whoever writes the row, and what was forsaken is never paid.
LEMMA RowStaysTrue ==
  ASSUME Bounds, Types, RowInv, [NewsNext]_newsVars, NEW x \in Swaps
  PROVE  RowGoesOn(x)
<1> USE DEF rowVars, boltzVars, taskVars
<1>a. Known(x) /\ RowIsTrue(x) /\ BoltzIsTrue(x)
  BY DEF RowInv
<1>b. Types' /\ state \in [Swaps -> States] /\ onchain \in [Swaps -> SUBSET Txs]
  BY TypesStep DEF Types
<1>1. ASSUME state'[x] = state[x], onchain'[x] = onchain[x] \/ \E tx \in {"server", "claim", "refund"} : onchain'[x] = onchain[x] \cup {tx},
             task' = task \/ ~(task'.at = "status" /\ task'.id = x /\ task'.news \in {"lockup", "lockedUp"})
      PROVE  RowGoesOn(x)
  <2>1. IsPaying(x)' => IsPaying(x)
    BY <1>1 DEF IsPaying
  <2> QED BY <1>1, <2>1 DEF RowGoesOn, Forsaken
<1>2. ASSUME NEW s \in Swaps, CreateSwap(s) PROVE RowGoesOn(x)
  <2>1. /\ state[s] = "None" /\ state' = [state EXCEPT ![s] = "Created"] /\ UNCHANGED <<onchain, task>>
    BY <1>2 DEF CreateSwap
  <2>2. CASE x = s
    BY <1>b, <2>1, <2>2 DEF RowGoesOn, Forsaken, Happened
  <2>3. CASE x # s
    BY <1>1, <1>b, <2>1, <2>3
  <2> QED BY <2>2, <2>3
<1>3. ASSUME NEW s \in Swaps, RecoverSwap(s) PROVE RowGoesOn(x)
  <2>1. /\ state[s] \in {"Created", "TimedOut", "Pending", "claiming", "RefundPending"} /\ UNCHANGED <<onchain, task>>
    BY <1>3, RecoverSwapWrites
  <2>2. PICK to \in States :
          /\ UpdateSwap(s, to)
          /\ to \in Happened \cup {"Failed"}
          /\ to = "Failed" => boltzAt[s] = "expired" /\ ~("lockup" \in onchain[s] /\ "lockup" \in Named(state[s]))
          /\ to \in Happened => "lockup" \in onchain[s]
    BY <1>3, RecoverSwapWrites
  <2>3. state' = [state EXCEPT ![s] = to]
    BY <2>2, UpdateSwapSends
  <2>4. CASE x = s
    <3>1. state'[x] = to /\ to \notin {"None", "TimedOut"}
      BY <1>b, <2>2, <2>3, <2>4 DEF Happened
    <3>2. state[x] \in Happened => to \in Happened
      <4>1. state[x] \in Happened => "lockup" \in Named(state[x]) /\ "lockup" \in onchain[x]
        BY <1>a, <2>1, <2>4 DEF Named, Happened, RowIsTrue
      <4> QED BY <2>2, <2>4, <4>1
    <3>3. Forsaken(x) => Forsaken(x)'
      BY <2>1, <2>2, <2>4, <3>1 DEF Forsaken, IsPaying
    <3> QED BY <2>1, <2>4, <3>1, <3>2, <3>3 DEF RowGoesOn
  <2>5. CASE x # s
    BY <1>1, <1>b, <2>1, <2>3, <2>5
  <2> QED BY <2>4, <2>5
<1>4. ASSUME NEW s \in Swaps, ClaimOutgoing(s) \/ RefundOutgoing(s) PROVE RowGoesOn(x)
  <2>1. PICK to \in {"claiming", "RefundPending"}, tx \in {"claim", "refund"} :
          UpdateSwap(s, to) /\ onchain' = [onchain EXCEPT ![s] = @ \cup {tx}]
    <3>1. CASE ClaimOutgoing(s)
      BY <3>1 DEF ClaimOutgoing
    <3>2. CASE RefundOutgoing(s)
      BY <3>2 DEF RefundOutgoing
    <3> QED BY <1>4, <3>1, <3>2
  <2>2. state[s] \in {"Pending", "claiming", "RefundPending"} /\ task' = task
    BY <1>4 DEF ClaimOutgoing, RefundOutgoing
  <2>3. state' = [state EXCEPT ![s] = to]
    BY <2>1, UpdateSwapSends DEF States, Happened
  <2>4. \A y \in Swaps : onchain'[y] = IF y = s THEN onchain[y] \cup {tx} ELSE onchain[y]
    BY <2>1, TxIsSent DEF Txs
  <2>5. CASE x = s
    <3>1. state'[x] = to /\ onchain[x] \subseteq onchain'[x]
      BY <1>b, <2>3, <2>4, <2>5
    <3> QED BY <2>1, <2>2, <2>5, <3>1 DEF RowGoesOn, Forsaken, Happened
  <2>6. CASE x # s
    BY <1>1, <1>b, <2>2, <2>3, <2>4, <2>6
  <2> QED BY <2>5, <2>6
<1>5. ASSUME NEW s \in Swaps, BoltzProceeds(s) PROVE RowGoesOn(x)
  <2>1. state' = state /\ task' = task
    BY <1>5 DEF BoltzProceeds
  <2>2. onchain'[x] = onchain[x] \/ onchain'[x] = onchain[x] \cup {"server"}
    BY <1>5, <1>b DEF BoltzProceeds
  <2> QED BY <1>1, <2>1, <2>2
<1>6. ASSUME NEW s \in Swaps, TrackSwapId(s) \/ ReceiveUpdate(s) PROVE RowGoesOn(x)
  <2>1. UNCHANGED <<state, onchain, task>>
    BY <1>6 DEF TrackSwapId, ReceiveUpdate
  <2> QED BY <1>1, <2>1
<1>7. ASSUME ResubscribeSwaps \/ ConnectFails \/ ConnectSocket \/ ReceiveRequest \/ StreamBreaks \/ FirstSync \/ UNCHANGED newsVars
      PROVE  RowGoesOn(x)
  <2>1. UNCHANGED <<state, onchain, task>>
    BY <1>7 DEF ResubscribeSwaps, ConnectFails, ConnectSocket, ReceiveRequest, StreamBreaks, FirstSync, newsVars
  <2> QED BY <1>1, <2>1
<1>8. ASSUME TakeUpdate PROVE RowGoesOn(x)
  <2>1. Head(updates) \in Update
    BY <1>8, SetOfTail DEF TakeUpdate, Types
  <2>2. task'.news \notin {"lockup", "lockedUp"} /\ UNCHANGED <<state, onchain>>
    BY <1>8, <2>1 DEF TakeUpdate, Update, Statuses
  <2> QED BY <1>1, <2>2
<1>9. ASSUME TakePayment \/ EmitPaymentUpdated \/ EmitFails PROVE RowGoesOn(x)
  <2>1. UNCHANGED <<state, onchain>> /\ task'.at # "status"
    BY <1>9 DEF TakePayment, EmitPaymentUpdated, EmitFails, TaskIdle
  <2> QED BY <1>1, <2>1
<1>10. ASSUME HandleCreated PROVE RowGoesOn(x)
  <2>1. task.at = "status" /\ task \in Handled /\ task.news = "created" /\ UNCHANGED <<state, onchain>>
    BY <1>10, TaskIsOfSwap DEF HandleCreated, Handles
  <2>2. CASE task' = TaskIdle
    BY <1>1, <2>1, <2>2 DEF TaskIdle
  <2>3. CASE MayLockUp(task.id) /\ task' = [task EXCEPT !.news = "lockup"]
    <3>1. CASE x = task.id
      <4>1. boltzAt[x] # "expired"
        BY <1>a, <2>1, <3>1 DEF BoltzIsTrue, Handling
      <4>2. state[x] \notin {"TimedOut", "Failed"} \cup Happened
        BY <1>a, <2>3, <3>1, <4>1 DEF RowIsTrue, MayLockUp
      <4> QED BY <2>1, <4>2 DEF RowGoesOn, Forsaken, Happened
    <3>2. CASE x # task.id
      <4>1. task'.id = task.id
        BY <2>1, <2>3 DEF Handled
      <4> QED BY <1>1, <2>1, <3>2, <4>1
    <3> QED BY <3>1, <3>2
  <2> QED BY <1>10, <2>2, <2>3 DEF HandleCreated
<1>11. ASSUME BroadcastLockup \/ HandleUpdateFails PROVE RowGoesOn(x)
  <2>1. task.at = "status" /\ task \in Handled /\ task.id \in Swaps /\ UNCHANGED state
    BY <1>11, TaskIsOfSwap DEF BroadcastLockup, HandleUpdateFails, Handles
  <2>2. /\ task' = TaskIdle \/ (task' = [task EXCEPT !.news = "lockedUp"] /\ task.news = "lockup")
        /\ UNCHANGED onchain \/ (task.news = "lockup" /\ onchain' = [onchain EXCEPT ![task.id] = @ \cup {"lockup"}])
    BY <1>11 DEF BroadcastLockup, HandleUpdateFails, Handles
  <2>3. CASE x = task.id
    <3>1. onchain[x] \subseteq onchain'[x]
      BY <1>b, <2>1, <2>2
    <3>2. CASE task.news = "lockup"
      <4>1. IsPaying(x)
        BY <2>1, <2>3, <3>2 DEF IsPaying
      <4> QED BY <2>1, <3>1, <4>1 DEF RowGoesOn, Forsaken
    <3>3. CASE task.news # "lockup"
      BY <1>1, <2>1, <2>2, <3>3 DEF TaskIdle
    <3> QED BY <3>2, <3>3
  <2>4. CASE x # task.id
    <3>1. onchain'[x] = onchain[x]
      BY <1>b, <2>1, <2>2, <2>4
    <3>2. ~(task'.at = "status" /\ task'.id = x)
      BY <2>1, <2>2, <2>4 DEF TaskIdle, Handled
    <3> QED BY <1>1, <2>1, <3>1, <3>2
  <2> QED BY <2>3, <2>4
<1>12. ASSUME HandleLockup \/ HandleServerLockup \/ HandleClaim \/ HandleExpired PROVE RowGoesOn(x)
  <2>1. PICK s \in Swaps, to \in States : Writes(s, to)
    BY <1>12, HandlersWrite
  <2>2. state' = [state EXCEPT ![s] = to]
    <3>1. CASE UpdateSwap(s, to)
      BY <3>1 DEF UpdateSwap
    <3>2. CASE to = state[s] /\ UNCHANGED state
      BY <1>b, <3>2
    <3> QED BY <2>1, <3>1, <3>2 DEF Writes
  <2>3. ~(task'.at = "status" /\ task'.news \in {"lockup", "lockedUp"})
    BY <2>1 DEF Writes
  <2>4. CASE x = s
    <3>1. state'[x] = to
      BY <1>b, <2>2, <2>4
    <3>2. onchain[x] \subseteq onchain'[x] /\ ("lockup" \in onchain'[x] => "lockup" \in onchain[x])
      BY <2>1, <2>4 DEF Writes, Sends
    <3>3. Forsaken(x) => Forsaken(x)'
      BY <2>1, <2>3, <2>4, <3>1, <3>2 DEF Forsaken, IsPaying, Writes, Written
    <3>4. /\ state[x] # "None" => to # "None"
          /\ state[x] \in Happened => to \in Happened
          /\ state[x] \in {"Failed", "Refunded", "Complete"} => to = state[x]
          /\ to = "TimedOut" => state[x] = "TimedOut"
      BY <2>1, <2>4 DEF Writes, Written, Happened
    <3> QED BY <3>1, <3>2, <3>3, <3>4 DEF RowGoesOn
  <2>5. CASE x # s
    <3>1. state'[x] = state[x] /\ onchain'[x] = onchain[x]
      BY <1>b, <2>1, <2>2, <2>5 DEF Writes
    <3> QED BY <1>1, <2>3, <3>1
  <2> QED BY <2>4, <2>5
<1>13. ASSUME WaitTimesOut PROVE RowGoesOn(x)
  <2>1. UNCHANGED <<onchain, task>>
    BY <1>13 DEF WaitTimesOut
  <2>2. \/ state[waiter.id] = "Created" /\ state' = [state EXCEPT ![waiter.id] = "TimedOut"]
        \/ UNCHANGED state
    BY <1>13 DEF WaitTimesOut, UpdateSwap
  <2>3. state'[x] = state[x] \/ (state[x] = "Created" /\ state'[x] = "TimedOut")
    BY <1>b, <2>2
  <2> QED BY <1>13, <2>1, <2>3 DEF RowGoesOn, Forsaken, IsPaying, Happened
<1> QED
  BY <1>2, <1>3, <1>4, <1>5, <1>6, <1>7, <1>8, <1>9, <1>10, <1>11, <1>12, <1>13 DEF NewsNext

\* What an event says was true when it was read, and is no less true when it is told.
LEMMA EventStep ==
  ASSUME Bounds, NewsInv, EventInv, [NewsNext]_newsVars
  PROVE  EventInv'
<1> USE DEF rowVars, boltzVars, taskVars
<1>0. Types /\ RowInv
  BY DEF NewsInv
<1> SUFFICES ASSUME task'.at = "emit"
             PROVE  /\ task'.news \in Happened => state'[task'.id] \in Happened
                    /\ task'.news = "Complete" => state'[task'.id] = "Complete"
  BY DEF EventInv
<1>1. CASE TakePayment
  <2>1. task'.news = state'[task'.id]
    BY <1>1 DEF TakePayment
  <2> QED BY <2>1
<1>2. CASE ~TakePayment
  <2>1. task' = task
    <3>1. CASE \E s \in Swaps : CreateSwap(s) \/ TrackSwapId(s) \/ RecoverSwap(s) \/ ClaimOutgoing(s) \/ RefundOutgoing(s)
                                  \/ ReceiveUpdate(s) \/ BoltzProceeds(s)
      BY <3>1 DEF CreateSwap, TrackSwapId, RecoverSwap, ClaimOutgoing, RefundOutgoing, ReceiveUpdate, BoltzProceeds
    <3>2. CASE ResubscribeSwaps \/ ConnectFails \/ ConnectSocket \/ ReceiveRequest \/ StreamBreaks \/ WaitTimesOut \/ FirstSync
                 \/ UNCHANGED newsVars
      BY <3>2 DEF ResubscribeSwaps, ConnectFails, ConnectSocket, ReceiveRequest, StreamBreaks, WaitTimesOut, FirstSync, newsVars
    <3>3. CASE TakeUpdate \/ HandleUpdateFails \/ EmitPaymentUpdated \/ EmitFails
      BY <3>3 DEF TakeUpdate, HandleUpdateFails, EmitPaymentUpdated, EmitFails, TaskIdle
    <3>4. CASE HandleCreated \/ BroadcastLockup
      <4>1. task.at = "status" /\ task \in Handled
        BY <1>0, <3>4, TaskIsOfSwap DEF HandleCreated, BroadcastLockup, Handles
      <4> QED BY <3>4, <4>1 DEF HandleCreated, BroadcastLockup, TaskIdle, Handled
    <3>5. CASE HandleLockup \/ HandleServerLockup \/ HandleClaim \/ HandleExpired
      BY <1>0, <3>5, HandlersWrite DEF Writes
    <3> QED BY <1>2, <3>1, <3>2, <3>3, <3>4, <3>5 DEF NewsNext
  <2>2. task.id \in Swaps
    BY <1>0, <2>1, TaskIsOfSwap
  <2>3. RowGoesOn(task.id)
    BY <1>0, <2>2, RowStaysTrue
  <2> QED BY <2>1, <2>3 DEF EventInv, RowGoesOn
<1> QED BY <1>1, <1>2

\* The call that waits hears what is true, and answers it; and a swap it gave up is given up.
LEMMA CallStep ==
  ASSUME Bounds, AnswerInv, [NewsNext]_newsVars
  PROVE  CallInv'
<1> USE DEF rowVars, boltzVars, taskVars
<1>0. NewsInv /\ EventInv /\ CallInv /\ Types /\ RowInv /\ Types'
  BY TypesStep DEF AnswerInv, NewsInv
<1>a. \A s \in Swaps : RowGoesOn(s)
  BY <1>0, RowStaysTrue
<1>b. waiter.at # "none" => waiter \in Waiter /\ waiter.id \in Swaps
  BY <1>0, WaiterIsThere
<1>c. \A s \in Swaps : state'[s] = "TimedOut" => waiter.at = "done" \/ WaitTimesOut
  BY <1>0, <1>a DEF CallInv, RowGoesOn
<1>1. CASE UNCHANGED waiter
  <2>1. ~WaitTimesOut
    <3>1. WaitTimesOut => waiter.at = "waiting" /\ waiter'.at = "done"
      BY <1>b DEF WaitTimesOut, Waiter
    <3> QED BY <1>1, <3>1
  <2>2. \A s \in Swaps : state'[s] = "TimedOut" => waiter'.at = "done"
    BY <1>1, <1>c, <2>1
  <2>3. CASE waiter.at = "none"
    BY <1>1, <2>2, <2>3 DEF CallInv, AnswerIsTrue
  <2>4. CASE waiter.at = "waiting"
    BY <1>0, <1>1, <1>a, <1>b, <2>2, <2>4 DEF CallInv, AnswerIsTrue, RowGoesOn
  <2>5. CASE waiter.at = "done"
    <3> DEFINE s == waiter.id
    <3>1. s \in Swaps /\ RowGoesOn(s)
      BY <1>a, <1>b, <2>5
    <3>2. waiter.answer = "PaymentTimeout" /\ ~waiter.paying => Forsaken(s) /\ Forsaken(s)'
      BY <1>0, <2>5, <3>1 DEF CallInv, RowGoesOn
    <3>3. AnswerIsTrue'
      <4>1. CASE waiter.answer = "PaymentTimeout"
        BY <1>1, <3>2, <4>1 DEF AnswerIsTrue, Forsaken, IsPaying
      <4>2. CASE waiter.answer = "not found"
        BY <1>0, <1>1, <2>5, <3>1, <4>2 DEF CallInv, AnswerIsTrue, RowGoesOn
      <4>3. CASE waiter.answer \in {"Complete", "Refunded"}
        BY <1>0, <1>1, <2>5, <3>1, <4>3 DEF CallInv, AnswerIsTrue, RowGoesOn
      <4>4. CASE waiter.answer \notin {"PaymentTimeout", "not found", "Complete", "Refunded"}
        BY <1>0, <1>1, <2>5, <3>1, <4>4 DEF CallInv, AnswerIsTrue, RowGoesOn
      <4> QED BY <4>1, <4>2, <4>3, <4>4
    <3> QED BY <1>1, <2>2, <2>5, <3>2, <3>3 DEF CallInv
  <2> QED BY <1>b, <2>3, <2>4, <2>5 DEF Waiter
<1>2. ASSUME NEW s \in Swaps, TrackSwapId(s), waiter' # waiter PROVE CallInv'
  <2>1. /\ s \in untracked /\ waiter.at = "none" /\ UNCHANGED <<state, onchain, task>>
        /\ \E z \in BOOLEAN : waiter' = [NoWaiter EXCEPT !.at = "waiting", !.id = s, !.zeroConf = z]
    BY <1>2 DEF TrackSwapId
  <2>2. waiter'.at = "waiting" /\ waiter'.id = s /\ waiter'.heard = "none"
    BY <2>1 DEF NoWaiter
  <2>3. state[s] # "None"
    BY <1>0, <2>1 DEF RowInv, Known, Asked
  <2>4. \A y \in Swaps : state[y] # "TimedOut"
    BY <1>0, <2>1 DEF CallInv
  <2> QED BY <2>1, <2>2, <2>3, <2>4 DEF CallInv, AnswerIsTrue
<1>3. ASSUME EmitPaymentUpdated, waiter' # waiter PROVE CallInv'
  <2>1. /\ task.at = "emit" /\ task.news \in Happened /\ Hear(task.id, task.news) /\ UNCHANGED <<state, onchain>>
    BY <1>3 DEF EmitPaymentUpdated
  <2>2. waiter.at = "waiting" /\ waiter.id = task.id
    BY <1>3, <2>1 DEF Hear
  <2>3. waiter \in Waiter /\ task.id \in Swaps
    BY <1>b, <2>2
  <2>4. state[task.id] \in Happened /\ (task.news = "Complete" => state[task.id] = "Complete")
    BY <1>0, <2>1 DEF EventInv
  <2>5. "lockup" \in onchain[task.id]
    BY <1>0, <2>3, <2>4 DEF RowInv, RowIsTrue
  <2>6. \A y \in Swaps : state[y] # "TimedOut"
    BY <1>0, <2>2 DEF CallInv
  <2>7. CASE task.news = "Complete"
    <3>1. waiter'.at = "done" /\ waiter'.id = task.id /\ waiter'.answer = "Complete"
      BY <2>1, <2>2, <2>3, <2>7 DEF Hear, Waiter
    <3> QED BY <2>1, <2>4, <2>5, <2>6, <2>7, <3>1 DEF CallInv, AnswerIsTrue
  <2>8. CASE task.news = "Pending" /\ waiter.zeroConf
    <3>1. waiter'.at = "done" /\ waiter'.id = task.id /\ waiter'.answer = "Pending"
      BY <2>1, <2>2, <2>3, <2>8 DEF Hear, Waiter
    <3> QED BY <2>1, <2>4, <2>5, <2>6, <3>1 DEF CallInv, AnswerIsTrue
  <2>9. CASE task.news = "Pending" /\ ~waiter.zeroConf
    <3>1. waiter'.at = "waiting" /\ waiter'.id = task.id
      BY <2>1, <2>2, <2>3, <2>9 DEF Hear, Waiter
    <3>2. state[task.id] # "None"
      BY <2>4 DEF Happened
    <3> QED BY <2>1, <2>4, <2>6, <3>1, <3>2 DEF CallInv, AnswerIsTrue
  <2>10. CASE task.news \notin {"Complete", "Pending"}
    BY <1>3, <2>1, <2>2, <2>10 DEF Hear
  <2> QED BY <2>7, <2>8, <2>9, <2>10
<1>4. ASSUME WaitTimesOut PROVE CallInv'
  <2> DEFINE s == waiter.id
  <2>1. waiter.at = "waiting" /\ waiter \in Waiter /\ s \in Swaps /\ UNCHANGED <<onchain, task>>
    BY <1>4, <1>b DEF WaitTimesOut
  <2>2. /\ state[s] # "None" /\ state[s] # "TimedOut" /\ (waiter.heard # "none" => state[s] \in Happened)
        /\ state \in [Swaps -> States] /\ RowIsTrue(s)
    BY <1>0, <2>1 DEF CallInv, Types, RowInv
  <2>3. waiter.heard \in {"none", "Pending"}
    BY <2>1 DEF Waiter
  <2>4. waiter'.at = "done" /\ waiter'.id = s /\ waiter'.paying = IsPaying(s)
    BY <1>4, <2>1 DEF WaitTimesOut, Waiter
  <2>5. CASE waiter.heard # "none"
    <3>1. waiter'.answer = "Pending" /\ UNCHANGED state
      BY <1>4, <2>1, <2>3, <2>5 DEF WaitTimesOut, Waiter
    <3> QED BY <2>1, <2>2, <2>4, <2>5, <3>1 DEF CallInv, AnswerIsTrue, RowIsTrue
  <2>6. CASE waiter.heard = "none" /\ state[s] = "Created"
    <3>1. waiter'.answer = "PaymentTimeout" /\ state' = [state EXCEPT ![s] = "TimedOut"]
      BY <1>4, <2>1, <2>6 DEF WaitTimesOut, UpdateSwap, Waiter
    <3>2. state'[s] = "TimedOut"
      BY <2>1, <2>2, <3>1
    <3>3. IsPaying(s)' <=> IsPaying(s)
      BY <2>1, <2>4 DEF IsPaying
    <3>4. ~waiter'.paying => Forsaken(s)'
      BY <2>4, <3>2, <3>3 DEF Forsaken, IsPaying
    <3> QED BY <2>4, <3>1, <3>4 DEF CallInv, AnswerIsTrue, Forsaken, IsPaying
  <2>7. CASE waiter.heard = "none" /\ state[s] # "Created"
    <3>1. waiter'.answer = (IF state[s] \in Happened THEN state[s] ELSE "not found") /\ UNCHANGED state
      BY <1>4, <2>1, <2>7 DEF WaitTimesOut, Waiter
    <3>2. state[s] \in Happened \cup {"Failed"}
      BY <2>1, <2>2, <2>7 DEF States
    <3>3. waiter'.answer # "PaymentTimeout"
      BY <3>1 DEF Happened
    <3>4. AnswerIsTrue'
      BY <2>1, <2>2, <2>4, <3>1, <3>2 DEF AnswerIsTrue, RowIsTrue, Happened
    <3> QED BY <2>4, <3>3, <3>4 DEF CallInv
  <2> QED BY <2>5, <2>6, <2>7
<1>5. waiter' = waiter \/ WaitTimesOut \/ EmitPaymentUpdated \/ \E s \in Swaps : TrackSwapId(s)
  <2>1. CASE \E s \in Swaps : CreateSwap(s) \/ RecoverSwap(s) \/ ClaimOutgoing(s) \/ RefundOutgoing(s)
                                \/ ReceiveUpdate(s) \/ BoltzProceeds(s)
    BY <2>1 DEF CreateSwap, RecoverSwap, ClaimOutgoing, RefundOutgoing, ReceiveUpdate, BoltzProceeds
  <2>2. CASE ResubscribeSwaps \/ ConnectFails \/ ConnectSocket \/ ReceiveRequest \/ StreamBreaks \/ FirstSync \/ UNCHANGED newsVars
    BY <2>2 DEF ResubscribeSwaps, ConnectFails, ConnectSocket, ReceiveRequest, StreamBreaks, FirstSync, newsVars
  <2>3. CASE TakeUpdate \/ HandleUpdateFails \/ TakePayment \/ EmitFails \/ HandleCreated \/ BroadcastLockup
    BY <2>3 DEF TakeUpdate, HandleUpdateFails, TakePayment, EmitFails, HandleCreated, BroadcastLockup
  <2>4. CASE HandleLockup \/ HandleServerLockup \/ HandleClaim \/ HandleExpired
    BY <2>4 DEF HandleLockup, HandleServerLockup, HandleClaim, HandleExpired
  <2> QED BY <2>1, <2>2, <2>3, <2>4 DEF NewsNext
<1> QED BY <1>1, <1>2, <1>3, <1>4, <1>5

\* For any finite set of swaps, any capacity and any number of breaks: a call that answers PaymentTimeout while the lockup is
\* neither out nor about to be sent leaves a swap that is never paid, whichever status, recovery or task of blocks comes
\* after; and a call that answers with a payment says no more than the row and the chains
\* (wait_for_payment_with_timeout).
THEOREM AnswerIsAlwaysTrue == NewsSpec => []AnswerIsTrue
<1>1. ASSUME Bounds, AnswerInv, [NewsNext]_newsVars
      PROVE  AnswerInv'
  BY <1>1, NewsStep, EventStep, CallStep DEF AnswerInv
<1>2. ASSUME Bounds, NewsInit
      PROVE  AnswerInv
  <2>1. NewsInv
    BY <1>2, InitNews
  <2>2. EventInv /\ CallInv
    BY <1>2 DEF NewsInit, TaskIdle, NoWaiter, EventInv, CallInv, AnswerIsTrue
  <2> QED BY <2>1, <2>2 DEF AnswerInv
<1>3. AnswerInv => AnswerIsTrue
  BY DEF AnswerInv, CallInv
<1>4. Bounds => (NewsSpec => []AnswerIsTrue)
  <2> SUFFICES ASSUME Bounds
               PROVE  NewsSpec => []AnswerIsTrue
    OBVIOUS
  <2>1. NewsInit => AnswerInv
    BY <1>2
  <2>2. AnswerInv /\ [NewsNext]_newsVars => AnswerInv'
    BY <1>1
  <2> QED BY <1>3, <2>1, <2>2, PTL DEF NewsSpec
<1> QED BY <1>4, NewsAssumption DEF Bounds

-----------------------------------------------------------------------------
(* The jobs of push notifications (NotificationJobs). On Android one SDK is shared by all of them *)

(* Jobs and services are records, and stay it. What a service lists has no form here: a job is taken out of *)
(* the list by an operator that takes a test as an argument *)
JobFields == {"at", "kind", "good", "service", "sdk", "told", "late"}
ServiceFields == {"started", "sdk", "timeout", "shutdown", "jobs"}

JobForms ==
  /\ DOMAIN jobs = Jobs /\ \A j \in Jobs : DOMAIN jobs[j] = JobFields
  /\ DOMAIN services = Services /\ \A i \in Services : DOMAIN services[i] = ServiceFields

JobTypes ==
  /\ JobForms
  /\ connector \in Nat /\ connected \in Nat /\ connector <= connected
  /\ \A j \in Jobs : jobs[j].sdk \in 0..connected /\ (At(j, "none") \/ At(j, "invalid") \/ jobs[j].service \in Services)
  /\ \A i \in Services : services[i].sdk \in 0..connected

EndedIsTold ==
  \A j \in Jobs :
    /\ At(j, "ended") /\ jobs[j].good => jobs[j].told # {}
    /\ At(j, "finishing") => jobs[j].told # {}

\* A job that polls asks a connection that was made
PollingIsConnected == \A j \in Jobs : At(j, "polling") => jobs[j].sdk # 0

WaitingIsEnded ==
  \A j \in Jobs :
    At(j, "polling") /\ jobs[j].told = {} /\ Live(j) /\ ~jobs[j].late => Pending(services[jobs[j].service])

AndroidInv == JobTypes /\ EndedIsTold /\ PollingIsConnected /\ WaitingIsEnded

LEMMA AndroidStart == JobInit => AndroidInv
<1> SUFFICES ASSUME JobInit PROVE AndroidInv
  OBVIOUS
<1>1. \A j \in Jobs : jobs[j] = NoJob
  BY DEF JobInit
<1>2. \A i \in Services : services[i] = NewService
  BY DEF JobInit
<1>3. JobTypes
  BY DEF JobInit, JobTypes, JobForms, NoJob, NewService, JobFields, ServiceFields, At
<1> QED BY <1>1, <1>3 DEF AndroidInv, EndedIsTold, PollingIsConnected, WaitingIsEnded, At, NoJob

\* A step of the job `j` alone, that takes no callback from a service, and connects with a new number.
LEMMA JobSteps ==
  ASSUME AndroidInv, NEW j \in Jobs, NEW r, jobs'[j] = r, DOMAIN r = JobFields,
         DOMAIN jobs' = Jobs, \A k \in Jobs \ {j} : jobs'[k] = jobs[k],
         connected' \in Nat, connected <= connected', connector' \in 0..connected',
         connector' = connector \/ connector' > connected,
         DOMAIN services' = Services,
         \A i \in Services :
           /\ DOMAIN services'[i] = ServiceFields /\ services'[i].sdk \in 0..connected'
           /\ Pending(services[i]) => Pending(services'[i]),
         r.sdk \in 0..connected', r.at \in {"none", "invalid"} \/ r.service \in Services,
         (r.at = "ended" /\ r.good) \/ r.at = "finishing" => r.told # {},
         r.at = "polling" => r.sdk # 0 /\ (r.told = {} /\ r.sdk = connector' /\ ~r.late => Pending(services'[r.service]))
  PROVE  AndroidInv'
<1>1. JobTypes'
  <2>1. \A k \in Jobs : /\ DOMAIN jobs'[k] = JobFields /\ jobs'[k].sdk \in 0..connected'
                        /\ jobs'[k].at \in {"none", "invalid"} \/ jobs'[k].service \in Services
    <3> SUFFICES ASSUME NEW k \in Jobs, k # j
                 PROVE  /\ DOMAIN jobs'[k] = JobFields /\ jobs'[k].sdk \in 0..connected'
                        /\ jobs'[k].at \in {"none", "invalid"} \/ jobs'[k].service \in Services
      OBVIOUS
    <3>1. jobs'[k] = jobs[k]
      OBVIOUS
    <3> QED BY <3>1 DEF AndroidInv, JobTypes, JobForms, At
  <2>2. JobForms'
    BY <2>1 DEF JobForms
  <2> QED BY <2>1, <2>2 DEF JobTypes, At
<1>2. EndedIsTold'
  BY DEF AndroidInv, EndedIsTold, At
<1>3. PollingIsConnected'
  BY DEF AndroidInv, PollingIsConnected, At
<1>4. WaitingIsEnded'
  <2> SUFFICES ASSUME NEW k \in Jobs, jobs'[k].at = "polling", jobs'[k].told = {}, jobs'[k].sdk = connector',
                      ~jobs'[k].late
               PROVE  Pending(services'[jobs'[k].service])
    BY DEF WaitingIsEnded, At, Live, Pending
  <2>1. CASE k = j
    BY <2>1
  <2>2. CASE k # j
    <3>1. jobs'[k] = jobs[k]
      BY <2>2
    <3>2. jobs[k].sdk \in 0..connected
      BY DEF AndroidInv, JobTypes
    <3>3. jobs[k].sdk = connector
      BY <3>1, <3>2 DEF AndroidInv, JobTypes
    <3>4. Pending(services[jobs[k].service]) /\ jobs[k].service \in Services
      BY <3>1, <3>3 DEF AndroidInv, JobTypes, WaitingIsEnded, At, Live
    <3> QED BY <3>1, <3>4
  <2> QED BY <2>1, <2>2
<1> QED BY <1>1, <1>2, <1>3, <1>4 DEF AndroidInv

LEMMA ConnectionStays ==
  ASSUME AndroidInv, UNCHANGED <<connector, connected>>
  PROVE  /\ connected' \in Nat /\ connected <= connected' /\ connector' \in 0..connected'
         /\ connector' = connector /\ connected' = connected
<1>1. connected \in Nat /\ connector \in Nat /\ connector <= connected
  BY DEF AndroidInv, JobTypes
<1>2. connected' = connected /\ connector' = connector
  OBVIOUS
<1> QED BY <1>1, <1>2

\* A service whose sdk stays, and no callback of which is taken.
LEMMA ServiceSteps ==
  ASSUME AndroidInv, NEW i, NEW s, DOMAIN s = ServiceFields, connected' \in Nat, connected <= connected',
         s.sdk \in 0..connected', i \in Services /\ Pending(services[i]) => Pending(s),
         services' = [services EXCEPT ![i] = s]
  PROVE  /\ DOMAIN services' = Services
         /\ \A k \in Services :
              /\ DOMAIN services'[k] = ServiceFields /\ services'[k].sdk \in 0..connected'
              /\ Pending(services[k]) => Pending(services'[k])
BY DEF AndroidInv, JobTypes, JobForms

LEMMA ServicesStay ==
  ASSUME AndroidInv, UNCHANGED services, connected' \in Nat, connected <= connected'
  PROVE  /\ DOMAIN services' = Services
         /\ \A k \in Services :
              /\ DOMAIN services'[k] = ServiceFields /\ services'[k].sdk \in 0..connected'
              /\ Pending(services[k]) => Pending(services'[k])
BY DEF AndroidInv, JobTypes, JobForms, Pending

\* The callbacks of a service are only added to.
LEMMA ShutdownIsAdded ==
  ASSUME NEW s, DOMAIN s = ServiceFields
  PROVE  /\ DOMAIN delayedShutdown(s) = ServiceFields /\ delayedShutdown(s).sdk = s.sdk
         /\ Pending(s) => Pending(delayedShutdown(s))
         /\ DOMAIN resetDelayedCallbacks(s) = ServiceFields /\ resetDelayedCallbacks(s).sdk = s.sdk
         /\ Pending(resetDelayedCallbacks(s))
         /\ \A j : /\ DOMAIN onFinished(s, j) = ServiceFields /\ onFinished(s, j).sdk = s.sdk
                   /\ Pending(s) => Pending(onFinished(s, j))
<1>1. ASSUME NEW u, DOMAIN u = ServiceFields
      PROVE  /\ DOMAIN delayedShutdown(u) = ServiceFields /\ delayedShutdown(u).sdk = u.sdk
             /\ Pending(u) => Pending(delayedShutdown(u))
  BY <1>1 DEF delayedShutdown, ServiceFields, Pending
<1>2. /\ DOMAIN resetDelayedCallbacks(s) = ServiceFields /\ resetDelayedCallbacks(s).sdk = s.sdk
      /\ Pending(resetDelayedCallbacks(s))
  BY DEF resetDelayedCallbacks, ServiceFields, Pending
<1>3. ASSUME NEW j
      PROVE  /\ DOMAIN onFinished(s, j) = ServiceFields /\ onFinished(s, j).sdk = s.sdk
             /\ Pending(s) => Pending(onFinished(s, j))
  <2> DEFINE u == [s EXCEPT !.jobs = Remove(@, j)]
  <2>1. DOMAIN u = ServiceFields /\ u.sdk = s.sdk /\ (Pending(s) => Pending(u))
    BY DEF ServiceFields, Pending
  <2>2. onFinished(s, j) = delayedShutdown(u)
    BY DEF onFinished
  <2> HIDE DEF u
  <2> QED BY <1>1, <2>1, <2>2
<1> QED BY <1>1, <1>2, <1>3

-----------------------------------------------------------------------------
(* Android *)

LEMMA OnStartCommandKeeps == ASSUME AndroidInv, NEW j \in Jobs, OnStartCommand(j) PROVE AndroidInv'
<1> DEFINE i == IF running = 0 THEN NextService ELSE running
           s == resetDelayedCallbacks(services[i])
<1>1. /\ i \in Services /\ At(j, "none")
      /\ UNCHANGED <<connector, connected>>
      /\ \/ /\ services' = [services EXCEPT ![i] = delayedShutdown(s)]
            /\ jobs' = [jobs EXCEPT ![j].at = "invalid"]
         \/ /\ services' = [services EXCEPT ![i] = s]
            /\ \E m \in getJobFromIntent(j) :
                 jobs' = [jobs EXCEPT ![j] = [NoJob EXCEPT !.at = "launched", !.kind = m.kind, !.good = m.good,
                                                           !.service = i]]
  BY DEF OnStartCommand
<1> HIDE DEF i
<1>2. /\ DOMAIN s = ServiceFields /\ s.sdk \in 0..connected /\ Pending(s)
      /\ DOMAIN delayedShutdown(s) = ServiceFields /\ delayedShutdown(s).sdk \in 0..connected
      /\ Pending(delayedShutdown(s))
  <2>1. DOMAIN services[i] = ServiceFields /\ services[i].sdk \in 0..connected
    BY <1>1 DEF AndroidInv, JobTypes, JobForms
  <2>2. DOMAIN s = ServiceFields /\ s.sdk \in 0..connected /\ Pending(s)
    BY <2>1, ShutdownIsAdded
  <2> HIDE DEF s
  <2> QED BY <2>2, ShutdownIsAdded
<1> HIDE DEF s
<1>3. /\ connected' \in Nat /\ connected <= connected' /\ connector' \in 0..connected'
      /\ connector' = connector /\ connected' = connected
  BY <1>1, ConnectionStays
<1>4. /\ DOMAIN services' = Services
      /\ \A k \in Services :
           /\ DOMAIN services'[k] = ServiceFields /\ services'[k].sdk \in 0..connected'
           /\ Pending(services[k]) => Pending(services'[k])
  <2>1. PICK t \in {s, delayedShutdown(s)} : services' = [services EXCEPT ![i] = t]
    BY <1>1
  <2>2. DOMAIN t = ServiceFields /\ t.sdk \in 0..connected' /\ Pending(t)
    BY <1>1, <1>2, <2>1
  <2> QED BY <1>3, <2>1, <2>2, ServiceSteps
<1>5. /\ DOMAIN jobs[j] = JobFields /\ jobs[j].sdk \in 0..connected /\ DOMAIN jobs = Jobs
  BY DEF AndroidInv, JobTypes, JobForms
<1>6. CASE jobs' = [jobs EXCEPT ![j].at = "invalid"]
  <2>1. /\ DOMAIN jobs' = Jobs /\ \A k \in Jobs \ {j} : jobs'[k] = jobs[k]
        /\ DOMAIN jobs'[j] = JobFields /\ jobs'[j].sdk \in 0..connected' /\ jobs'[j].at = "invalid"
    BY <1>1, <1>5, <1>6 DEF JobFields
  <2> QED BY <1>3, <1>4, <2>1, JobSteps
<1>7. CASE \E m \in getJobFromIntent(j) :
             jobs' = [jobs EXCEPT ![j] = [NoJob EXCEPT !.at = "launched", !.kind = m.kind, !.good = m.good,
                                                       !.service = i]]
  <2>1. PICK m \in getJobFromIntent(j) :
             jobs' = [jobs EXCEPT ![j] = [NoJob EXCEPT !.at = "launched", !.kind = m.kind, !.good = m.good,
                                                       !.service = i]]
    BY <1>7
  <2> DEFINE r == [NoJob EXCEPT !.at = "launched", !.kind = m.kind, !.good = m.good, !.service = i]
  <2>2. DOMAIN r = JobFields /\ r.sdk = 0 /\ r.at = "launched" /\ r.service = i
    BY DEF NoJob, JobFields
  <2>3. jobs' = [jobs EXCEPT ![j] = r]
    BY <2>1
  <2> HIDE DEF r
  <2>4. /\ DOMAIN jobs' = Jobs /\ \A k \in Jobs \ {j} : jobs'[k] = jobs[k]
        /\ DOMAIN jobs'[j] = JobFields /\ jobs'[j].sdk = 0 /\ jobs'[j].at = "launched" /\ jobs'[j].service = i
    BY <1>5, <2>2, <2>3
  <2>5. jobs'[j].sdk \in 0..connected'
    BY <1>3, <2>4
  <2> QED BY <1>1, <1>3, <1>4, <2>4, <2>5, JobSteps
<1> QED BY <1>1, <1>6, <1>7

LEMMA ConnectSdkKeeps == ASSUME AndroidInv, NEW j \in Jobs, ConnectSdk(j) PROVE AndroidInv'
<1> DEFINE i == jobs[j].service
<1>1. /\ DOMAIN jobs[j] = JobFields /\ DOMAIN jobs = Jobs /\ jobs[j].sdk \in 0..connected
      /\ connected \in Nat /\ connector \in 0..connected
  BY DEF AndroidInv, JobTypes, JobForms
<1>2. i \in Services /\ DOMAIN services[i] = ServiceFields /\ services[i].sdk \in 0..connected
  BY DEF AndroidInv, JobTypes, JobForms, ConnectSdk, At
<1>3. /\ connected' \in Nat /\ connected <= connected' /\ connector' \in 0..connected'
      /\ connector' = connector \/ connector' > connected
  BY <1>1 DEF ConnectSdk
<1>4. /\ DOMAIN services' = Services
      /\ \A k \in Services :
           /\ DOMAIN services'[k] = ServiceFields /\ services'[k].sdk \in 0..connected'
           /\ Pending(services[k]) => Pending(services'[k])
  <2>1. CASE UNCHANGED services
    BY <1>3, <2>1, ServicesStay
  <2>2. CASE services' = [services EXCEPT ![i] = delayedShutdown(@)]
    <3> DEFINE t == delayedShutdown(services[i])
    <3>1. DOMAIN t = ServiceFields /\ t.sdk \in 0..connected' /\ (Pending(services[i]) => Pending(t))
      BY <1>1, <1>2, <1>3, ShutdownIsAdded
    <3>2. services' = [services EXCEPT ![i] = t]
      BY <2>2
    <3> HIDE DEF t, i
    <3> QED BY <1>3, <3>1, <3>2, ServiceSteps
  <2> QED BY <2>1, <2>2 DEF ConnectSdk
<1>5. /\ DOMAIN jobs' = Jobs /\ \A k \in Jobs \ {j} : jobs'[k] = jobs[k]
      /\ DOMAIN jobs'[j] = JobFields /\ jobs'[j].sdk \in 0..connected'
      /\ jobs'[j].at \in {"start", "connected", "unconnected"} /\ jobs'[j].service = i
  <2> HIDE DEF i
  <2> QED BY <1>1, <1>2, <1>3 DEF ConnectSdk, JobFields, i
<1> HIDE DEF i
<1> QED BY <1>2, <1>3, <1>4, <1>5, JobSteps

LEMMA SetSdkKeeps == ASSUME AndroidInv, NEW j \in Jobs, SetSdk(j) PROVE AndroidInv'
<1> DEFINE i == jobs[j].service
           t == [services[i] EXCEPT !.sdk = jobs[j].sdk]
<1>1. /\ DOMAIN jobs[j] = JobFields /\ DOMAIN jobs = Jobs /\ jobs[j].sdk \in 0..connected
      /\ connected \in Nat /\ connector \in 0..connected
  BY DEF AndroidInv, JobTypes, JobForms
<1>2. i \in Services /\ DOMAIN services[i] = ServiceFields
  BY DEF AndroidInv, JobTypes, JobForms, SetSdk, At
<1>3. /\ connected' \in Nat /\ connected <= connected' /\ connector' \in 0..connected'
      /\ connector' = connector /\ connected' = connected
  BY ConnectionStays DEF SetSdk
<1>4. services' = [services EXCEPT ![i] = t] /\ jobs' = [jobs EXCEPT ![j].at = "start"]
  BY DEF SetSdk
<1>5. DOMAIN t = ServiceFields /\ t.sdk = jobs[j].sdk /\ (Pending(services[i]) => Pending(t))
  BY <1>2 DEF ServiceFields, Pending
<1> HIDE DEF t, i
<1>6. /\ DOMAIN services' = Services
      /\ \A k \in Services :
           /\ DOMAIN services'[k] = ServiceFields /\ services'[k].sdk \in 0..connected'
           /\ Pending(services[k]) => Pending(services'[k])
  BY <1>1, <1>3, <1>4, <1>5, ServiceSteps
<1>7. /\ DOMAIN jobs' = Jobs /\ \A k \in Jobs \ {j} : jobs'[k] = jobs[k]
      /\ DOMAIN jobs'[j] = JobFields /\ jobs'[j].sdk \in 0..connected'
      /\ jobs'[j].at = "start" /\ jobs'[j].service = i
  BY <1>1, <1>3, <1>4 DEF JobFields, i
<1> QED BY <1>1, <1>2, <1>3, <1>6, <1>7, JobSteps

\* A job waits on a connection of its service, and one that is not late for a callback of it.
LEMMA StartJobKeeps == ASSUME AndroidInv, NEW j \in Jobs, StartJob(j) PROVE AndroidInv'
<1> DEFINE i == jobs[j].service
           doing == IF jobs[j].kind # "swap" THEN "replying" ELSE IF jobs[j].good THEN "polling" ELSE "stuck"
<1>1. /\ DOMAIN jobs[j] = JobFields /\ DOMAIN jobs = Jobs /\ jobs[j].sdk \in 0..connected
      /\ connected \in Nat /\ connector \in 0..connected
  BY DEF AndroidInv, JobTypes, JobForms
<1>2. i \in Services /\ DOMAIN services[i] = ServiceFields /\ services[i].sdk \in 0..connected
  BY DEF AndroidInv, JobTypes, JobForms, StartJob, At
<1>3. /\ connected' \in Nat /\ connected <= connected' /\ connector' \in 0..connected'
      /\ connector' = connector /\ connected' = connected
  BY ConnectionStays DEF StartJob
<1>4. CASE services[i].sdk = 0
  <2>1. jobs' = [jobs EXCEPT ![j].at = "dropped"] /\ UNCHANGED services
    BY <1>4 DEF StartJob
  <2>2. /\ DOMAIN jobs' = Jobs /\ \A k \in Jobs \ {j} : jobs'[k] = jobs[k]
        /\ DOMAIN jobs'[j] = JobFields /\ jobs'[j].sdk \in 0..connected'
        /\ jobs'[j].at = "dropped" /\ jobs'[j].service = i
    BY <1>1, <1>3, <2>1 DEF JobFields
  <2>3. /\ DOMAIN services' = Services
        /\ \A k \in Services :
             /\ DOMAIN services'[k] = ServiceFields /\ services'[k].sdk \in 0..connected'
             /\ Pending(services[k]) => Pending(services'[k])
    BY <1>1, <1>3, <2>1, ServicesStay
  <2> HIDE DEF i
  <2> QED BY <1>1, <1>2, <1>3, <2>2, <2>3, JobSteps
<1>5. CASE services[i].sdk # 0
  <2> DEFINE t == [services[i] EXCEPT !.jobs = Append(@, j)]
  <2>1. /\ services' = [services EXCEPT ![i] = t]
        /\ jobs' = [jobs EXCEPT ![j].at = doing, ![j].sdk = services[i].sdk, ![j].late = ~Pending(services[i])]
    BY <1>5 DEF StartJob
  <2>2. DOMAIN t = ServiceFields /\ t.sdk = services[i].sdk /\ (Pending(services[i]) => Pending(t))
    BY <1>2 DEF ServiceFields, Pending
  <2> HIDE DEF t, i
  <2>3. /\ DOMAIN services' = Services
        /\ \A k \in Services :
             /\ DOMAIN services'[k] = ServiceFields /\ services'[k].sdk \in 0..connected'
             /\ Pending(services[k]) => Pending(services'[k])
    BY <1>1, <1>2, <1>3, <2>1, <2>2, ServiceSteps
  <2>4. /\ DOMAIN jobs' = Jobs /\ \A k \in Jobs \ {j} : jobs'[k] = jobs[k]
        /\ DOMAIN jobs'[j] = JobFields /\ jobs'[j].sdk = services[i].sdk
        /\ jobs'[j].at = doing /\ jobs'[j].service = i /\ (jobs'[j].late = ~Pending(services[i]))
    <3> DEFINE late == ~Pending(services[i])
               sdk == services[i].sdk
    <3> HIDE DEF doing, late, sdk
    <3> SUFFICES /\ DOMAIN jobs' = Jobs /\ \A k \in Jobs \ {j} : jobs'[k] = jobs[k]
                 /\ DOMAIN jobs'[j] = JobFields /\ jobs'[j].sdk = sdk
                 /\ jobs'[j].at = doing /\ jobs'[j].service = i /\ jobs'[j].late = late
      BY DEF late, sdk
    <3>1. jobs' = [jobs EXCEPT ![j].at = doing, ![j].sdk = sdk, ![j].late = late]
      BY <2>1 DEF late, sdk
    <3> QED BY <1>1, <3>1 DEF JobFields, i
  <2>5. doing \notin {"none", "invalid", "ended", "finishing"}
    OBVIOUS
  <2>6. ~jobs'[j].late => Pending(services'[i])
    BY <1>2, <2>3, <2>4
  <2> HIDE DEF doing
  <2> QED BY <1>1, <1>2, <1>3, <1>5, <2>3, <2>4, <2>5, <2>6, JobSteps
<1> QED BY <1>4, <1>5

\* The SDK is gone: no job that polls may ask it again.
LEMMA DisconnectedKeeps ==
  ASSUME AndroidInv, connector' = 0, connected' = connected, DOMAIN jobs' = Jobs, DOMAIN services' = Services,
         \A i \in Services : DOMAIN services'[i] = ServiceFields /\ services'[i].sdk \in 0..connected,
         \A j \in Jobs :
           /\ DOMAIN jobs'[j] = JobFields
           /\ jobs'[j].at = jobs[j].at /\ jobs'[j].sdk = jobs[j].sdk /\ jobs'[j].service = jobs[j].service
           /\ jobs'[j].good = jobs[j].good /\ jobs[j].told \subseteq jobs'[j].told
  PROVE  AndroidInv'
<1>1. JobTypes'
  <2>1. \A j \in Jobs : /\ jobs'[j].sdk \in 0..connected
                        /\ jobs'[j].at \in {"none", "invalid"} \/ jobs'[j].service \in Services
    BY DEF AndroidInv, JobTypes, At
  <2>2. connector' \in Nat /\ connected' \in Nat /\ connector' <= connected'
    BY DEF AndroidInv, JobTypes
  <2> QED BY <2>1, <2>2 DEF JobTypes, JobForms, At
<1>2. EndedIsTold'
  <2> SUFFICES ASSUME NEW j \in Jobs, (jobs'[j].at = "ended" /\ jobs'[j].good) \/ jobs'[j].at = "finishing"
               PROVE  jobs'[j].told # {}
    BY DEF EndedIsTold, At
  <2>1. jobs[j].told # {}
    BY DEF AndroidInv, EndedIsTold, At
  <2> QED BY <2>1
<1>3. PollingIsConnected'
  BY DEF AndroidInv, PollingIsConnected, At
<1>4. WaitingIsEnded'
  BY <1>3 DEF WaitingIsEnded, PollingIsConnected, At, Live
<1> QED BY <1>1, <1>2, <1>3, <1>4 DEF AndroidInv

\* What the user is told, and a callback that is taken, change nothing else.
LEMMA CallbackForms ==
  ASSUME AndroidInv, NEW i, NEW s, DOMAIN s = ServiceFields, s.sdk = 0, services' = [services EXCEPT ![i] = s]
  PROVE  /\ DOMAIN services' = Services
         /\ \A k \in Services : DOMAIN services'[k] = ServiceFields /\ services'[k].sdk \in 0..connected
<1>1. connected \in Nat
  BY DEF AndroidInv, JobTypes
<1> QED BY <1>1 DEF AndroidInv, JobTypes, JobForms

LEMMA ServiceTimeoutKeeps == ASSUME AndroidInv, NEW i \in Services, ServiceTimeout(i) PROVE AndroidInv'
<1> DEFINE s == [services[i] EXCEPT !.timeout = FALSE, !.sdk = 0]
<1>1. DOMAIN s = ServiceFields /\ s.sdk = 0
  BY DEF AndroidInv, JobTypes, JobForms, ServiceFields
<1>2. services' = [services EXCEPT ![i] = s]
  BY DEF ServiceTimeout
<1> HIDE DEF s
<1>3. /\ DOMAIN services' = Services
      /\ \A k \in Services : DOMAIN services'[k] = ServiceFields /\ services'[k].sdk \in 0..connected
  BY <1>1, <1>2, CallbackForms
<1>4. DOMAIN jobs' = Jobs
  BY DEF ServiceTimeout
<1>5. ASSUME NEW j \in Jobs
      PROVE  /\ DOMAIN jobs'[j] = JobFields
             /\ jobs'[j].at = jobs[j].at /\ jobs'[j].sdk = jobs[j].sdk /\ jobs'[j].service = jobs[j].service
             /\ jobs'[j].good = jobs[j].good /\ jobs[j].told \subseteq jobs'[j].told
  <2>1. DOMAIN jobs[j] = JobFields
    BY DEF AndroidInv, JobTypes, JobForms
  <2>2. jobs'[j] = jobs[j] \/ jobs'[j] = [jobs[j] EXCEPT !.told = @ \cup {"failure"}]
    BY DEF ServiceTimeout
  <2> QED BY <2>1, <2>2 DEF JobFields
<1>6. connector' = 0 /\ connected' = connected
  BY DEF ServiceTimeout, Shutdown
<1> QED BY <1>3, <1>4, <1>5, <1>6, DisconnectedKeeps

LEMMA ScheduledShutdownKeeps == ASSUME AndroidInv, NEW i \in Services, ScheduledShutdown(i) PROVE AndroidInv'
<1> DEFINE s == [services[i] EXCEPT !.shutdown = FALSE, !.sdk = 0]
<1>1. DOMAIN s = ServiceFields /\ s.sdk = 0
  BY DEF AndroidInv, JobTypes, JobForms, ServiceFields
<1>2. services' = [services EXCEPT ![i] = s]
  BY DEF ScheduledShutdown
<1> HIDE DEF s
<1>3. /\ DOMAIN services' = Services
      /\ \A k \in Services : DOMAIN services'[k] = ServiceFields /\ services'[k].sdk \in 0..connected
  BY <1>1, <1>2, CallbackForms
<1>4. connector' = 0 /\ connected' = connected /\ jobs' = jobs
  BY DEF ScheduledShutdown, Shutdown
<1>5. DOMAIN jobs' = Jobs /\ \A j \in Jobs : DOMAIN jobs'[j] = JobFields
  BY <1>4 DEF AndroidInv, JobTypes, JobForms
<1> QED BY <1>3, <1>4, <1>5, DisconnectedKeeps

\* A job that ends or goes on has told the user.
LEMMA PollKeeps == ASSUME AndroidInv, NEW j \in Jobs, Poll(j) PROVE AndroidInv'
<1>1. /\ DOMAIN jobs[j] = JobFields /\ DOMAIN jobs = Jobs /\ jobs[j].sdk \in 0..connected
      /\ jobs[j].service \in Services
  BY DEF AndroidInv, JobTypes, JobForms, Poll, At
<1>2. /\ connected' \in Nat /\ connected <= connected' /\ connector' \in 0..connected'
      /\ connector' = connector /\ connected' = connected
  BY ConnectionStays DEF Poll
<1>3. /\ DOMAIN services' = Services
      /\ \A k \in Services :
           /\ DOMAIN services'[k] = ServiceFields /\ services'[k].sdk \in 0..connected'
           /\ Pending(services[k]) => Pending(services'[k])
  BY <1>2, ServicesStay DEF Poll
<1>4. PICK r : /\ jobs' = [jobs EXCEPT ![j] = r]
               /\ \/ r = stopPolling(j, TRUE)
                  \/ r = stopPolling(j, FALSE) /\ notified(j)
                  \/ r = [jobs[j] EXCEPT !.at = "finishing", !.told = @ \cup {"success"}]
  <2>1. CASE jobs' = [jobs EXCEPT ![j] = stopPolling(j, TRUE)]
    BY <2>1
  <2>2. CASE jobs' = [jobs EXCEPT ![j] = IF notified(j) THEN stopPolling(j, FALSE)
                                         ELSE [jobs[j] EXCEPT !.at = "finishing", !.told = @ \cup {"success"}]]
    <3> DEFINE a == stopPolling(j, FALSE)
               b == [jobs[j] EXCEPT !.at = "finishing", !.told = @ \cup {"success"}]
               c == IF notified(j) THEN a ELSE b
    <3>1. jobs' = [jobs EXCEPT ![j] = c]
      BY <2>2
    <3>2. (c = a /\ notified(j)) \/ c = b
      OBVIOUS
    <3> HIDE DEF c
    <3> QED BY <3>1, <3>2
  <2> QED BY <2>1, <2>2 DEF Poll
<1>5. /\ DOMAIN r = JobFields /\ r.sdk = jobs[j].sdk /\ r.service = jobs[j].service
      /\ r.at \in {"ended", "finishing"} /\ r.told # {}
  <2>1. PICK a, t : /\ r = [jobs[j] EXCEPT !.at = a, !.told = t]
                    /\ a \in {"ended", "finishing"}
                    /\ t # {}
    <3>1. CASE r = stopPolling(j, TRUE)
      <4>1. r = [jobs[j] EXCEPT !.at = "ended", !.told = jobs[j].told \cup {"failure"}]
        BY <1>1, <3>1 DEF stopPolling, JobFields
      <4> QED BY <4>1
    <3>2. CASE r = stopPolling(j, FALSE) /\ notified(j)
      <4>1. r = [jobs[j] EXCEPT !.at = "ended", !.told = jobs[j].told \cup {}]
        BY <1>1, <3>2 DEF stopPolling, JobFields
      <4>2. jobs[j].told \cup {} # {}
        BY <3>2 DEF notified
      <4> QED BY <4>1, <4>2
    <3>3. CASE r = [jobs[j] EXCEPT !.at = "finishing", !.told = @ \cup {"success"}]
      <4>1. r = [jobs[j] EXCEPT !.at = "finishing", !.told = jobs[j].told \cup {"success"}]
        BY <1>1, <3>3 DEF JobFields
      <4> QED BY <4>1
    <3> QED BY <1>4, <3>1, <3>2, <3>3
  <2> QED BY <1>1, <2>1 DEF JobFields
<1>6. jobs'[j] = r /\ DOMAIN jobs' = Jobs /\ \A k \in Jobs \ {j} : jobs'[k] = jobs[k]
  BY <1>1, <1>4
<1> QED BY <1>1, <1>2, <1>3, <1>5, <1>6, JobSteps

LEMMA FinishKeeps == ASSUME AndroidInv, NEW j \in Jobs, Finish(j) PROVE AndroidInv'
<1> DEFINE i == jobs[j].service
           s == onFinished(services[i], j)
<1>1. /\ DOMAIN jobs[j] = JobFields /\ DOMAIN jobs = Jobs /\ jobs[j].sdk \in 0..connected /\ i \in Services
  BY DEF AndroidInv, JobTypes, JobForms, Finish, At
<1>2. /\ connected' \in Nat /\ connected <= connected' /\ connector' \in 0..connected'
      /\ connector' = connector /\ connected' = connected
  BY ConnectionStays DEF Finish
<1>3. services' = [services EXCEPT ![i] = s] /\ jobs' = [jobs EXCEPT ![j].at = "ended"]
  BY DEF Finish
<1>4. DOMAIN s = ServiceFields /\ s.sdk \in 0..connected' /\ (Pending(services[i]) => Pending(s))
  <2>1. DOMAIN services[i] = ServiceFields /\ services[i].sdk \in 0..connected
    BY <1>1 DEF AndroidInv, JobTypes, JobForms
  <2> HIDE DEF i
  <2> QED BY <1>2, <2>1, ShutdownIsAdded
<1>5. jobs[j].told # {}
  BY DEF AndroidInv, EndedIsTold, Finish
<1> HIDE DEF s
<1>6. /\ DOMAIN jobs' = Jobs /\ \A k \in Jobs \ {j} : jobs'[k] = jobs[k]
      /\ DOMAIN jobs'[j] = JobFields /\ jobs'[j].sdk = jobs[j].sdk /\ jobs'[j].service = i
      /\ jobs'[j].at = "ended" /\ jobs'[j].told # {}
  BY <1>1, <1>3, <1>5 DEF JobFields
<1> HIDE DEF i
<1>7. /\ DOMAIN services' = Services
      /\ \A k \in Services :
           /\ DOMAIN services'[k] = ServiceFields /\ services'[k].sdk \in 0..connected'
           /\ Pending(services[k]) => Pending(services'[k])
  BY <1>2, <1>3, <1>4, ServiceSteps
<1> QED BY <1>1, <1>2, <1>6, <1>7, JobSteps

\* The answer to a message that was understood says something.
LEMMA ReplyKeeps == ASSUME AndroidInv, NEW j \in Jobs, Reply(j) PROVE AndroidInv'
<1> DEFINE i == jobs[j].service
<1>1. /\ DOMAIN jobs[j] = JobFields /\ DOMAIN jobs = Jobs /\ jobs[j].sdk \in 0..connected /\ i \in Services
  BY DEF AndroidInv, JobTypes, JobForms, Reply, At
<1>2. /\ connected' \in Nat /\ connected <= connected' /\ connector' \in 0..connected'
      /\ connector' = connector /\ connected' = connected
  BY ConnectionStays DEF Reply
<1>3. DOMAIN services[i] = ServiceFields /\ services[i].sdk \in 0..connected
  BY <1>1 DEF AndroidInv, JobTypes, JobForms
<1>4. PICK s : /\ services' = [services EXCEPT ![i] = s]
               /\ s = onFinished(services[i], j) \/ s = delayedShutdown(services[i])
  BY DEF Reply
<1>5. /\ DOMAIN jobs' = Jobs /\ \A k \in Jobs \ {j} : jobs'[k] = jobs[k]
      /\ DOMAIN jobs'[j] = JobFields /\ jobs'[j].sdk = jobs[j].sdk /\ jobs'[j].service = i
      /\ jobs'[j].at \in {"ended", "stuck"} /\ (jobs'[j].at = "ended" /\ jobs'[j].good => jobs'[j].told # {})
  <2>1. CASE jobs' = [jobs EXCEPT ![j].at = "stuck"]
    BY <1>1, <2>1 DEF JobFields
  <2>2. ASSUME NEW answer, jobs[j].good => answer # {}, jobs' = [jobs EXCEPT ![j].at = "ended", ![j].told = answer]
        PROVE  /\ DOMAIN jobs' = Jobs /\ \A k \in Jobs \ {j} : jobs'[k] = jobs[k]
               /\ DOMAIN jobs'[j] = JobFields /\ jobs'[j].sdk = jobs[j].sdk /\ jobs'[j].service = i
               /\ jobs'[j].at = "ended" /\ (jobs'[j].good => jobs'[j].told # {})
    BY <1>1, <2>2 DEF JobFields
  <2>3. jobs' = [jobs EXCEPT ![j].at = "stuck"]
        \/ \E answer : (jobs[j].good => answer # {}) /\ jobs' = [jobs EXCEPT ![j].at = "ended", ![j].told = answer]
    <3> DEFINE answers == CASE jobs[j].kind = "invoiceRequest" -> InvoiceRequestJob(j)
                            [] jobs[j].kind = "lnurlPayInfo" -> LnurlPayInfoJob(j)
                            [] jobs[j].kind = "lnurlPayInvoice" -> LnurlPayInvoiceJob(j)
                            [] jobs[j].kind = "lnurlPayVerify" -> LnurlPayVerifyJob(j)
    <3>1. \/ \E answer \in IF jobs[j].good THEN {{a} : a \in answers} \cup {{a, "error"} : a \in answers} ELSE {{}} :
               jobs' = [jobs EXCEPT ![j].at = "ended", ![j].told = answer]
          \/ jobs' = [jobs EXCEPT ![j].at = "stuck"]
      BY DEF Reply
    <3> HIDE DEF answers
    <3>2. \A answer \in IF jobs[j].good THEN {{a} : a \in answers} \cup {{a, "error"} : a \in answers} ELSE {{}} :
            jobs[j].good => answer # {}
      OBVIOUS
    <3> QED BY <3>1, <3>2
  <2> QED BY <2>1, <2>2, <2>3
<1> HIDE DEF i
<1>6. DOMAIN s = ServiceFields /\ s.sdk \in 0..connected' /\ (Pending(services[i]) => Pending(s))
  BY <1>2, <1>3, <1>4, ShutdownIsAdded
<1>7. /\ DOMAIN services' = Services
      /\ \A k \in Services :
           /\ DOMAIN services'[k] = ServiceFields /\ services'[k].sdk \in 0..connected'
           /\ Pending(services[k]) => Pending(services'[k])
  BY <1>2, <1>4, <1>6, ServiceSteps
<1> QED BY <1>1, <1>2, <1>5, <1>7, JobSteps

\* An event tells the user of one job, and changes no other.
LEMMA OnEventKeeps == ASSUME AndroidInv, OnEvent PROVE AndroidInv'
<1> DEFINE i == listener
<1>1. PICK h : /\ jobs' = [jobs EXCEPT ![h].told = @ \cup {"success"}]
               /\ services' = [services EXCEPT ![i] = onFinished(@, h)]
  BY DEF OnEvent
<1>2. /\ connected' \in Nat /\ connected <= connected' /\ connector' \in 0..connected'
      /\ connector' = connector /\ connected' = connected
  BY ConnectionStays DEF OnEvent
<1>3. /\ DOMAIN services' = Services
      /\ \A k \in Services :
           /\ DOMAIN services'[k] = ServiceFields /\ services'[k].sdk \in 0..connected'
           /\ Pending(services[k]) => Pending(services'[k])
  <2>1. CASE i \in Services
    <3> DEFINE s == onFinished(services[i], h)
    <3>1. DOMAIN services[i] = ServiceFields /\ services[i].sdk \in 0..connected
      BY <2>1 DEF AndroidInv, JobTypes, JobForms
    <3>2. DOMAIN s = ServiceFields /\ s.sdk \in 0..connected' /\ (Pending(services[i]) => Pending(s))
      BY <1>2, <3>1, ShutdownIsAdded
    <3>3. services' = [services EXCEPT ![i] = s]
      BY <1>1
    <3> HIDE DEF s, i
    <3> QED BY <1>2, <3>2, <3>3, ServiceSteps
  <2>2. CASE i \notin Services
    <3>1. DOMAIN services' = Services /\ \A k \in Services : services'[k] = services[k]
      BY <1>1, <2>2 DEF AndroidInv, JobTypes, JobForms
    <3> QED BY <1>2, <3>1 DEF AndroidInv, JobTypes, JobForms
  <2> QED BY <2>1, <2>2
<1>4. CASE h \in Jobs
  <2>1. /\ DOMAIN jobs[h] = JobFields /\ DOMAIN jobs = Jobs /\ jobs[h].sdk \in 0..connected
        /\ jobs[h].at \in {"none", "invalid"} \/ jobs[h].service \in Services
    BY <1>4 DEF AndroidInv, JobTypes, JobForms, At
  <2>2. /\ DOMAIN jobs' = Jobs /\ \A k \in Jobs \ {h} : jobs'[k] = jobs[k]
        /\ DOMAIN jobs'[h] = JobFields /\ jobs'[h].sdk = jobs[h].sdk /\ jobs'[h].service = jobs[h].service
        /\ jobs'[h].at = jobs[h].at /\ jobs'[h].told # {}
    BY <1>1, <1>4, <2>1 DEF JobFields
  <2>3. jobs'[h].at = "polling" => jobs'[h].sdk # 0
    BY <1>4, <2>2 DEF AndroidInv, PollingIsConnected, At
  <2> QED BY <1>2, <1>3, <1>4, <2>1, <2>2, <2>3, JobSteps
<1>5. CASE h \notin Jobs
  <2>1. DOMAIN jobs' = Jobs /\ \A k \in Jobs : jobs'[k] = jobs[k]
    BY <1>1, <1>5 DEF AndroidInv, JobTypes, JobForms
  <2>2. CASE Jobs = {}
    BY <1>2, <1>3, <2>1, <2>2 DEF AndroidInv, JobTypes, JobForms, EndedIsTold, PollingIsConnected, WaitingIsEnded
  <2>3. CASE Jobs # {}
    <3>1. PICK j \in Jobs : TRUE
      BY <2>3
    <3>2. /\ DOMAIN jobs[j] = JobFields /\ jobs[j].sdk \in 0..connected
          /\ jobs[j].at \in {"none", "invalid"} \/ jobs[j].service \in Services
          /\ (jobs[j].at = "ended" /\ jobs[j].good) \/ jobs[j].at = "finishing" => jobs[j].told # {}
          /\ jobs[j].at = "polling" => jobs[j].sdk # 0
          /\ jobs[j].at = "polling" /\ jobs[j].told = {} /\ jobs[j].sdk = connector /\ ~jobs[j].late =>
               Pending(services[jobs[j].service])
      BY DEF AndroidInv, JobTypes, JobForms, EndedIsTold, PollingIsConnected, WaitingIsEnded, At, Live
    <3> QED BY <1>2, <1>3, <2>1, <3>2, JobSteps
  <2> QED BY <2>2, <2>3
<1> QED BY <1>4, <1>5

LEMMA AndroidUnchanged ==
  ASSUME AndroidInv, UNCHANGED <<connector, connected, services, jobs>> PROVE AndroidInv'
BY DEF AndroidInv, JobTypes, JobForms, EndedIsTold, PollingIsConnected, WaitingIsEnded, At, Live, Pending

LEMMA AndroidStep == ASSUME AndroidInv, [NextAndroid]_jobVars PROVE AndroidInv'
<1>1. CASE \E j \in Jobs : \/ OnStartCommand(j) \/ ConnectSdk(j) \/ SetSdk(j) \/ StartJob(j)
                           \/ Poll(j) \/ Finish(j) \/ Reply(j)
  BY <1>1, OnStartCommandKeeps, ConnectSdkKeeps, SetSdkKeeps, StartJobKeeps, PollKeeps, FinishKeeps, ReplyKeeps
<1>2. CASE \E i \in Services : ServiceTimeout(i) \/ ScheduledShutdown(i)
  BY <1>2, ServiceTimeoutKeeps, ScheduledShutdownKeeps
<1>3. CASE OnEvent
  BY <1>3, OnEventKeeps
<1>4. CASE Claim \/ UNCHANGED jobVars
  BY <1>4, AndroidUnchanged DEF Claim, jobVars
<1> QED BY <1>1, <1>2, <1>3, <1>4 DEF NextAndroid

\* On Android a job that ended has told the user or the server how, and one that waits for its payment is ended by a
\* callback of its service (ForegroundService, SwapUpdatedJob), for any jobs and any number of instances of the service.
THEOREM AndroidAnswersJobs == SpecAndroid => []JobsAreAnswered
<1>1. JobInit => AndroidInv
  BY AndroidStart
<1>2. AndroidInv /\ [NextAndroid]_jobVars => AndroidInv'
  BY AndroidStep
<1>3. AndroidInv => JobsAreAnswered
  BY DEF AndroidInv, EndedIsTold, WaitingIsEnded, JobsAreAnswered
<1> QED BY <1>1, <1>2, <1>3, PTL DEF SpecAndroid

-----------------------------------------------------------------------------
(* iOS: the instances of the extension are started one after the other, and each has one job *)

Started == {i \in Services : services[i].started}

IOSTypes ==
  /\ JobForms
  /\ \E n \in 0..MaxServices : Started = 1..n
  /\ \A j \in Jobs : IF jobs[j].at \in {"none", "invalid"} THEN jobs[j].service = 0 ELSE jobs[j].service \in Started

OneJobEach ==
  \A j, k \in Jobs : jobs[j].service \in Services /\ jobs[j].service = jobs[k].service => j = k

EndedHasTold == \A j \in Jobs : At(j, "ended") => jobs[j].told # {}

\* The system ends an instance whose job has told nobody
WaitingIsTimed ==
  \A j \in Jobs : jobs[j].at \in {"launched", "polling"} /\ jobs[j].told = {} => services[jobs[j].service].timeout

IOSInv == IOSTypes /\ OneJobEach /\ EndedHasTold /\ WaitingIsTimed

LEMMA IOSStart == ASSUME MaxServices \in Nat, JobInit PROVE IOSInv
<1>1. \A j \in Jobs : jobs[j] = NoJob
  BY DEF JobInit
<1>2. JobForms
  BY DEF JobInit, JobForms, NoJob, NewService, JobFields, ServiceFields
<1>3. Started = {}
  BY DEF JobInit, Started, NewService
<1>4. 1..0 = {} /\ 0 \in 0..MaxServices
  OBVIOUS
<1>5. IOSTypes
  BY <1>1, <1>2, <1>3, <1>4 DEF IOSTypes, NoJob
<1>6. OneJobEach
  BY <1>1 DEF OneJobEach, NoJob, Services
<1> QED BY <1>1, <1>5, <1>6 DEF IOSInv, EndedHasTold, WaitingIsTimed, At, NoJob

\* The next instance is a new one.
LEMMA NextIsNew ==
  ASSUME MaxServices \in Nat, IOSInv, NextService \in Services
  PROVE  /\ NextService \notin Started
         /\ \E n \in 0..MaxServices : Started \cup {NextService} = 1..n
<1>1. PICK n \in 0..MaxServices : Started = 1..n
  BY DEF IOSInv, IOSTypes
<1>2. Cardinality(1..n) = n
  <2>1. 1 \in Int /\ n \in Int /\ n \in Nat
    BY <1>1
  <2> QED BY <2>1, FS_Interval
<1>3. NextService = n + 1
  <2>1. NextService = 1 + Cardinality(Started)
    BY Zenon DEF NextService, Started
  <2> QED BY <1>1, <1>2, <2>1
<1>4. n + 1 \in 0..MaxServices /\ 1..n \cup {n + 1} = 1..(n + 1) /\ n + 1 \notin 1..n
  BY <1>1, <1>3 DEF Services
<1> QED BY <1>1, <1>3, <1>4

\* A step of the job `j`, by which it keeps its instance, and may tell somebody.
LEMMA TaskSteps ==
  ASSUME IOSInv, NEW j \in Jobs, DOMAIN jobs' = Jobs, \A k \in Jobs \ {j} : jobs'[k] = jobs[k],
         DOMAIN jobs'[j] = JobFields, jobs'[j].service = jobs[j].service, jobs[j].service \in Started,
         jobs'[j].at \notin {"none", "invalid"},
         jobs'[j].at = "ended" => jobs'[j].told # {},
         \/ UNCHANGED services /\ (jobs'[j].told = {} => jobs[j].told = {} /\ jobs[j].at \in {"launched", "polling"})
         \/ services' = ToldBy(jobs[j].service) /\ jobs'[j].told # {}
  PROVE  IOSInv'
<1> DEFINE i == jobs[j].service
<1>1. /\ DOMAIN services' = Services
      /\ \A k \in Services : /\ DOMAIN services'[k] = ServiceFields /\ services'[k].started = services[k].started
                             /\ k # i => services'[k] = services[k]
  <2>1. DOMAIN services = Services /\ \A k \in Services : DOMAIN services[k] = ServiceFields
    BY DEF IOSInv, IOSTypes, JobForms
  <2>2. CASE services' = ToldBy(i)
    <3> HIDE DEF i
    <3> QED BY <2>1, <2>2 DEF ToldBy, ServiceFields
  <2> QED BY <2>1, <2>2
<1>2. Started' = Started
  BY <1>1 DEF Started
<1>3. \A k \in Jobs : jobs'[k].service = jobs[k].service
  OBVIOUS
<1>4. IOSTypes'
  <2>1. JobForms'
    BY <1>1 DEF IOSInv, IOSTypes, JobForms
  <2>2. \A k \in Jobs : IF jobs'[k].at \in {"none", "invalid"} THEN jobs'[k].service = 0
                         ELSE jobs'[k].service \in Started
    BY DEF IOSInv, IOSTypes
  <2> QED BY <1>2, <2>1, <2>2 DEF IOSInv, IOSTypes
<1>5. OneJobEach'
  BY <1>3 DEF IOSInv, OneJobEach
<1>6. EndedHasTold'
  BY DEF IOSInv, EndedHasTold, At
<1>7. WaitingIsTimed'
  <2> SUFFICES ASSUME NEW k \in Jobs, jobs'[k].at \in {"launched", "polling"}, jobs'[k].told = {}
               PROVE  services'[jobs'[k].service].timeout
    BY DEF WaitingIsTimed
  <2>1. CASE k = j
    BY <2>1 DEF IOSInv, WaitingIsTimed
  <2>2. CASE k # j
    <3>1. jobs'[k] = jobs[k] /\ services[jobs[k].service].timeout /\ jobs[k].service \in Started
      BY <2>2 DEF IOSInv, IOSTypes, WaitingIsTimed, At
    <3>2. jobs[k].service # i /\ jobs[k].service \in Services
      BY <2>2, <3>1 DEF IOSInv, OneJobEach, Started
    <3> QED BY <1>1, <3>1, <3>2
  <2> QED BY <2>1, <2>2
<1> QED BY <1>4, <1>5, <1>6, <1>7 DEF IOSInv

\* A message is served by an instance of its own.
LEMMA DidReceiveKeeps == ASSUME MaxServices \in Nat, IOSInv, NEW j \in Jobs, DidReceive(j) PROVE IOSInv'
<1> DEFINE i == NextService
<1>1. /\ i \in Services /\ At(j, "none")
      /\ \/ /\ \E shown \in BOOLEAN : services' = [services EXCEPT ![i].started = TRUE, ![i].timeout = ~shown]
            /\ jobs' = [jobs EXCEPT ![j].at = "invalid"]
         \/ /\ services' = [services EXCEPT ![i].started = TRUE, ![i].timeout = TRUE]
            /\ \E m \in getJobFromIntent(j) :
                 jobs' = [jobs EXCEPT ![j] = [NoJob EXCEPT !.at = "launched", !.kind = m.kind, !.good = m.good,
                                                           !.service = i]]
  BY DEF DidReceive
<1>2. i \notin Started /\ \E n \in 0..MaxServices : Started \cup {i} = 1..n
  BY <1>1, NextIsNew
<1> HIDE DEF i
<1>3. /\ DOMAIN services = Services /\ \A k \in Services : DOMAIN services[k] = ServiceFields
      /\ DOMAIN jobs = Jobs /\ \A k \in Jobs : DOMAIN jobs[k] = JobFields
  BY DEF IOSInv, IOSTypes, JobForms
<1>4. /\ DOMAIN services' = Services /\ \A k \in Services : DOMAIN services'[k] = ServiceFields
      /\ services'[i].started /\ \A k \in Services \ {i} : services'[k] = services[k]
      /\ services'[i].timeout \/ jobs' = [jobs EXCEPT ![j].at = "invalid"]
  <2>1. PICK t \in BOOLEAN : /\ services' = [services EXCEPT ![i].started = TRUE, ![i].timeout = t]
                             /\ t \/ jobs' = [jobs EXCEPT ![j].at = "invalid"]
    BY <1>1
  <2> QED BY <1>1, <1>3, <2>1 DEF ServiceFields
<1>5. Started' = Started \cup {i}
  BY <1>1, <1>4 DEF Started
<1>6. /\ DOMAIN jobs' = Jobs /\ \A k \in Jobs \ {j} : jobs'[k] = jobs[k]
      /\ DOMAIN jobs'[j] = JobFields
      /\ \/ jobs'[j].at = "invalid" /\ jobs'[j].service = jobs[j].service
         \/ jobs'[j].at = "launched" /\ jobs'[j].service = i /\ services'[i].timeout
  <2>1. CASE jobs' = [jobs EXCEPT ![j].at = "invalid"]
    BY <1>3, <2>1 DEF JobFields
  <2>2. CASE \E m \in getJobFromIntent(j) :
                 jobs' = [jobs EXCEPT ![j] = [NoJob EXCEPT !.at = "launched", !.kind = m.kind, !.good = m.good,
                                                           !.service = i]]
    <3>1. PICK m \in getJobFromIntent(j) :
             jobs' = [jobs EXCEPT ![j] = [NoJob EXCEPT !.at = "launched", !.kind = m.kind, !.good = m.good,
                                                       !.service = i]]
      BY <2>2
    <3> DEFINE r == [NoJob EXCEPT !.at = "launched", !.kind = m.kind, !.good = m.good, !.service = i]
    <3>2. DOMAIN r = JobFields /\ r.at = "launched" /\ r.service = i
      BY DEF NoJob, JobFields
    <3>3. jobs' = [jobs EXCEPT ![j] = r]
      BY <3>1
    <3> HIDE DEF r
    <3>4. /\ DOMAIN jobs' = Jobs /\ \A k \in Jobs \ {j} : jobs'[k] = jobs[k]
          /\ DOMAIN jobs'[j] = JobFields /\ jobs'[j].at = "launched" /\ jobs'[j].service = i
      BY <1>3, <3>2, <3>3
    <3>5. jobs' # [jobs EXCEPT ![j].at = "invalid"]
      <4> SUFFICES ASSUME jobs' = [jobs EXCEPT ![j].at = "invalid"] PROVE FALSE
        OBVIOUS
      <4>1. jobs'[j].at = "invalid"
        BY <1>3 DEF JobFields
      <4> QED BY <3>4, <4>1
    <3> QED BY <1>4, <3>4, <3>5
  <2> QED BY <1>1, <2>1, <2>2
<1>7. \A k \in Jobs : jobs[k].service # i
  <2>0. i \in Services
    BY <1>1
  <2>1. i # 0
    BY <2>0 DEF Services
  <2>2. \A k \in Jobs : jobs[k].service = 0 \/ jobs[k].service \in Started
    <3> SUFFICES ASSUME NEW k \in Jobs PROVE jobs[k].service = 0 \/ jobs[k].service \in Started
      OBVIOUS
    <3>1. IF jobs[k].at \in {"none", "invalid"} THEN jobs[k].service = 0 ELSE jobs[k].service \in Started
      BY DEF IOSInv, IOSTypes
    <3> QED BY <3>1
  <2> QED BY <1>2, <2>1, <2>2
<1>8. jobs[j].service = 0
  BY <1>1 DEF IOSInv, IOSTypes, At
<1>9. IOSTypes'
  <2>1. JobForms'
    BY <1>4, <1>6 DEF JobForms, IOSInv, IOSTypes
  <2>2. \A k \in Jobs : IF jobs'[k].at \in {"none", "invalid"} THEN jobs'[k].service = 0 ELSE jobs'[k].service \in Started'
    <3> SUFFICES ASSUME NEW k \in Jobs
                 PROVE  IF jobs'[k].at \in {"none", "invalid"} THEN jobs'[k].service = 0
                        ELSE jobs'[k].service \in Started'
      OBVIOUS
    <3>1. CASE k = j
      BY <1>5, <1>6, <1>8, <3>1
    <3>2. CASE k # j
      <4>1. jobs'[k] = jobs[k]
        BY <1>6, <3>2
      <4>2. IF jobs[k].at \in {"none", "invalid"} THEN jobs[k].service = 0 ELSE jobs[k].service \in Started
        BY DEF IOSInv, IOSTypes
      <4> QED BY <1>5, <4>1, <4>2
    <3> QED BY <3>1, <3>2
  <2> QED BY <1>2, <1>5, <2>1, <2>2 DEF IOSTypes
<1>10. OneJobEach'
  <2> SUFFICES ASSUME NEW k \in Jobs, NEW l \in Jobs, jobs'[k].service \in Services,
                      jobs'[k].service = jobs'[l].service, k # l
               PROVE  FALSE
    BY DEF OneJobEach
  <2>1. jobs[k].service \in Services /\ jobs[k].service = jobs[l].service => k = l
    BY DEF IOSInv, OneJobEach
  <2>2. 0 \notin Services
    BY DEF Services
  <2> QED BY <1>6, <1>7, <1>8, <2>1, <2>2
<1>11. EndedHasTold'
  BY <1>6 DEF IOSInv, EndedHasTold, At
<1>12. WaitingIsTimed'
  <2> SUFFICES ASSUME NEW k \in Jobs, jobs'[k].at \in {"launched", "polling"}, jobs'[k].told = {}
               PROVE  services'[jobs'[k].service].timeout
    BY DEF WaitingIsTimed
  <2>1. CASE k = j
    BY <1>4, <1>6, <2>1
  <2>2. CASE k # j
    <3>1. jobs'[k] = jobs[k]
      BY <1>6, <2>2
    <3>2. services[jobs[k].service].timeout /\ jobs[k].service \in Services
      BY <3>1 DEF IOSInv, IOSTypes, WaitingIsTimed, Started
    <3> QED BY <1>4, <1>7, <3>1, <3>2
  <2> QED BY <2>1, <2>2
<1> QED BY <1>9, <1>10, <1>11, <1>12 DEF IOSInv

\* A job that cannot ask the SDK tells the user so. One that can has an instance that is timed.
LEMMA RegisterKeeps == ASSUME IOSInv, NEW j \in Jobs, Register(j) PROVE IOSInv'
<1> DEFINE i == jobs[j].service
<1>1. /\ DOMAIN jobs = Jobs /\ DOMAIN jobs[j] = JobFields /\ jobs[j].at = "launched" /\ i \in Started
  BY DEF IOSInv, IOSTypes, JobForms, Register, At
<1>2. CASE jobs' = [jobs EXCEPT ![j].at = "ended", ![j].told = {"failure"}] /\ services' = ToldBy(i)
  <2>1. /\ DOMAIN jobs' = Jobs /\ \A k \in Jobs \ {j} : jobs'[k] = jobs[k]
        /\ DOMAIN jobs'[j] = JobFields /\ jobs'[j].service = i /\ jobs'[j].at = "ended" /\ jobs'[j].told # {}
    BY <1>1, <1>2 DEF JobFields
  <2> QED BY <1>1, <1>2, <2>1, TaskSteps
<1>3. CASE /\ jobs' = [jobs EXCEPT ![j].at = IF jobs[j].kind = "swap" THEN "polling" ELSE "replying",
                                   ![j].sdk = connector']
           /\ UNCHANGED services
  <2>1. /\ DOMAIN jobs' = Jobs /\ \A k \in Jobs \ {j} : jobs'[k] = jobs[k]
        /\ DOMAIN jobs'[j] = JobFields /\ jobs'[j].service = i /\ jobs'[j].at \in {"polling", "replying"}
        /\ jobs'[j].told = jobs[j].told
    BY <1>1, <1>3 DEF JobFields
  <2> QED BY <1>1, <1>3, <2>1, TaskSteps
<1> QED BY <1>2, <1>3 DEF Register

LEMMA PollTaskKeeps == ASSUME IOSInv, NEW j \in Jobs, PollTask(j) PROVE IOSInv'
<1>1. /\ DOMAIN jobs = Jobs /\ DOMAIN jobs[j] = JobFields /\ jobs[j].service \in Started
  BY DEF IOSInv, IOSTypes, JobForms, PollTask, At
<1>2. \/ jobs' = [jobs EXCEPT ![j] = stopPolling(j, TRUE)]
      \/ jobs' = [jobs EXCEPT ![j] = [stopPolling(j, FALSE) EXCEPT !.told = @ \cup {"success"}]]
  BY DEF PollTask
<1>3. PICK r : /\ jobs' = [jobs EXCEPT ![j] = r]
               /\ r = stopPolling(j, TRUE) \/ r = [stopPolling(j, FALSE) EXCEPT !.told = @ \cup {"success"}]
  BY <1>2
<1>4. /\ DOMAIN r = JobFields /\ r.service = jobs[j].service /\ r.at = "ended" /\ r.told # {}
  <2>1. CASE r = stopPolling(j, TRUE)
    BY <1>1, <2>1 DEF stopPolling, JobFields
  <2>2. CASE r = [stopPolling(j, FALSE) EXCEPT !.told = @ \cup {"success"}]
    <3> DEFINE q == stopPolling(j, FALSE)
    <3>1. DOMAIN q = JobFields /\ q.service = jobs[j].service /\ q.at = "ended"
      BY <1>1 DEF stopPolling, JobFields
    <3>2. r = [q EXCEPT !.told = @ \cup {"success"}]
      BY <2>2
    <3> HIDE DEF q
    <3> QED BY <3>1, <3>2 DEF JobFields
  <2> QED BY <1>3, <2>1, <2>2
<1>5. jobs'[j] = r /\ DOMAIN jobs' = Jobs /\ \A k \in Jobs \ {j} : jobs'[k] = jobs[k]
  BY <1>1, <1>3
<1>6. services' = ToldBy(jobs[j].service)
  BY DEF PollTask
<1> QED BY <1>1, <1>4, <1>5, <1>6, TaskSteps

LEMMA ReplyTaskKeeps == ASSUME IOSInv, NEW j \in Jobs, ReplyTask(j) PROVE IOSInv'
<1>1. /\ DOMAIN jobs = Jobs /\ DOMAIN jobs[j] = JobFields /\ jobs[j].service \in Started
  BY DEF IOSInv, IOSTypes, JobForms, ReplyTask, At
<1>2. PICK answer : jobs' = [jobs EXCEPT ![j].at = "ended", ![j].told = {answer}]
  BY DEF ReplyTask
<1>3. /\ DOMAIN jobs' = Jobs /\ \A k \in Jobs \ {j} : jobs'[k] = jobs[k]
      /\ DOMAIN jobs'[j] = JobFields /\ jobs'[j].service = jobs[j].service /\ jobs'[j].at = "ended"
      /\ jobs'[j].told # {}
  BY <1>1, <1>2 DEF JobFields
<1>4. services' = ToldBy(jobs[j].service)
  BY DEF ReplyTask
<1> QED BY <1>1, <1>3, <1>4, TaskSteps

LEMMA OnEventTaskKeeps == ASSUME MaxServices \in Nat, IOSInv, OnEventTask PROVE IOSInv'
<1>1. PICK j \in Jobs : /\ jobs[j].service = listener /\ listener # 0
                        /\ jobs' = [jobs EXCEPT ![j].told = @ \cup {"success"}]
                        /\ services' = ToldBy(listener)
  BY DEF OnEventTask
<1>2. /\ DOMAIN jobs = Jobs /\ DOMAIN jobs[j] = JobFields /\ jobs[j].service \in Started
      /\ jobs[j].at \notin {"none", "invalid"}
  BY <1>1 DEF IOSInv, IOSTypes, JobForms
<1>3. /\ DOMAIN jobs' = Jobs /\ \A k \in Jobs \ {j} : jobs'[k] = jobs[k]
      /\ DOMAIN jobs'[j] = JobFields /\ jobs'[j].service = jobs[j].service /\ jobs'[j].at = jobs[j].at
      /\ jobs'[j].told # {}
  BY <1>1, <1>2 DEF JobFields
<1> QED BY <1>1, <1>2, <1>3, TaskSteps

\* The end of the time of an instance is told by its job.
LEMMA TimeExpiresKeeps ==
  ASSUME IOSInv, NEW i \in Services, ServiceExtensionTimeWillExpire(i) PROVE IOSInv'
<1>1. /\ DOMAIN jobs = Jobs /\ \A j \in Jobs : DOMAIN jobs[j] = JobFields
      /\ DOMAIN services = Services /\ \A k \in Services : DOMAIN services[k] = ServiceFields
  BY DEF IOSInv, IOSTypes, JobForms
<1>2. DOMAIN jobs' = Jobs
  BY DEF ServiceExtensionTimeWillExpire
<1>3. ASSUME NEW j \in Jobs
      PROVE  /\ DOMAIN jobs'[j] = JobFields /\ jobs'[j].at = jobs[j].at /\ jobs'[j].service = jobs[j].service
             /\ jobs[j].told \subseteq jobs'[j].told /\ (jobs[j].service = i => jobs'[j].told # {})
  <2>1. CASE jobs[j].service = i
    <3>1. jobs'[j] = [jobs[j] EXCEPT !.told = @ \cup {"failure"}]
      BY <2>1 DEF ServiceExtensionTimeWillExpire
    <3> QED BY <1>1, <3>1 DEF JobFields
  <2>2. CASE jobs[j].service # i
    <3>1. jobs'[j] = jobs[j]
      BY <2>2 DEF ServiceExtensionTimeWillExpire
    <3> QED BY <1>1, <2>2, <3>1
  <2> QED BY <2>1, <2>2
<1>4. /\ DOMAIN services' = Services
      /\ \A k \in Services : /\ DOMAIN services'[k] = ServiceFields /\ services'[k].started = services[k].started
                             /\ k # i => services'[k] = services[k]
  <2>1. services' = [services EXCEPT ![i].timeout = FALSE]
    BY DEF ServiceExtensionTimeWillExpire, ToldBy
  <2> QED BY <1>1, <2>1 DEF ServiceFields
<1>5. Started' = Started
  BY <1>4 DEF Started
<1>6. IOSTypes'
  <2>1. JobForms'
    BY <1>2, <1>3, <1>4 DEF JobForms
  <2>2. \A j \in Jobs : IF jobs'[j].at \in {"none", "invalid"} THEN jobs'[j].service = 0
                        ELSE jobs'[j].service \in Started'
    BY <1>3, <1>5 DEF IOSInv, IOSTypes
  <2> QED BY <1>5, <2>1, <2>2 DEF IOSInv, IOSTypes
<1>7. OneJobEach'
  BY <1>3 DEF IOSInv, OneJobEach
<1>8. EndedHasTold'
  <2> SUFFICES ASSUME NEW j \in Jobs, jobs'[j].at = "ended" PROVE jobs'[j].told # {}
    BY DEF EndedHasTold, At
  <2>1. jobs[j].told # {} /\ jobs[j].told \subseteq jobs'[j].told
    BY <1>3 DEF IOSInv, EndedHasTold, At
  <2> QED BY <2>1
<1>9. WaitingIsTimed'
  <2> SUFFICES ASSUME NEW j \in Jobs, jobs'[j].at \in {"launched", "polling"}, jobs'[j].told = {}
               PROVE  services'[jobs'[j].service].timeout
    BY DEF WaitingIsTimed
  <2>1. jobs[j].told = {} /\ jobs[j].at \in {"launched", "polling"} /\ jobs[j].service # i
    BY <1>3
  <2>2. services[jobs[j].service].timeout /\ jobs[j].service \in Services
    BY <2>1 DEF IOSInv, IOSTypes, WaitingIsTimed, Started
  <2> QED BY <1>3, <1>4, <2>1, <2>2
<1> QED BY <1>6, <1>7, <1>8, <1>9 DEF IOSInv

LEMMA IOSUnchanged == ASSUME IOSInv, UNCHANGED <<services, jobs>> PROVE IOSInv'
<1>1. Started' = Started
  BY DEF Started
<1> QED BY <1>1 DEF IOSInv, IOSTypes, JobForms, OneJobEach, EndedHasTold, WaitingIsTimed, At

LEMMA IOSStep == ASSUME MaxServices \in Nat, IOSInv, [NextIOS]_jobVars PROVE IOSInv'
<1>1. CASE \E j \in Jobs : DidReceive(j) \/ Register(j) \/ PollTask(j) \/ ReplyTask(j)
  BY <1>1, DidReceiveKeeps, RegisterKeeps, PollTaskKeeps, ReplyTaskKeeps
<1>2. CASE \E i \in Services : ServiceExtensionTimeWillExpire(i)
  BY <1>2, TimeExpiresKeeps
<1>3. CASE OnEventTask
  BY <1>3, OnEventTaskKeeps
<1>4. CASE Claim \/ UNCHANGED jobVars
  BY <1>4, IOSUnchanged DEF Claim, jobVars
<1> QED BY <1>1, <1>2, <1>3, <1>4 DEF NextIOS

\* The same on iOS, where each job has an instance of the extension and the system ends its time
\* (SDKNotificationService, SwapUpdatedTask).
THEOREM IOSAnswersJobs == MaxServices \in Nat /\ SpecIOS => []JobsAreAnswered
<1> SUFFICES ASSUME MaxServices \in Nat PROVE SpecIOS => []JobsAreAnswered
  OBVIOUS
<1>1. JobInit => IOSInv
  BY IOSStart
<1>2. IOSInv /\ [NextIOS]_jobVars => IOSInv'
  BY IOSStep
<1>3. IOSInv => JobsAreAnswered
  BY DEF IOSInv, EndedHasTold, WaitingIsTimed, JobsAreAnswered, At, Pending
<1> QED BY <1>1, <1>2, <1>3, PTL DEF SpecIOS
=============================================================================
