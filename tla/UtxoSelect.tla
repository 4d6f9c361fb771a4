----------------------------- MODULE UtxoSelect -----------------------------
(***************************************************************************)
(* Which coins a payjoin takes and what they leave (payjoin/utxo_select,   *)
(* payjoin/network_fee). Coins are sequences of values, largest first; a   *)
(* selection is a set of their indexes, prices are fractions.              *)
(***************************************************************************)
EXTENDS Naturals, Sequences, FiniteSets, FiniteSetsExt, Functions

Value(utxos, S) == SumFunctionOnSet(utxos, S)
Total(utxos) == Value(utxos, DOMAIN utxos)

\* A tenth of a satoshi for each virtual byte
weight_to_fee(weight) == (((weight + 3) \div 4) + 9) \div 10
TxFee(serverInputs, userInputs, outputs) ==
  weight_to_fee(222 + 275 * serverInputs + 367 * userInputs + 270 * outputs)
UpperBoundDelta == weight_to_fee(270)

Priced(price, a) == (a * price.num) \div price.den
AssetFee(price, fixed, networkFee) == Priced(price, networkFee) + fixed

-----------------------------------------------------------------------------
(* What the searches find *)

\* Selections of as many coins as asked for whose value is in the range, which the last coin brings it into: the
\* search goes no further once the value suffices
InRange(utxos, target, delta, count) ==
  {S \in kSubset(count, DOMAIN utxos) :
     /\ Value(utxos, S) \in target..(target + delta)
     /\ Value(utxos, S \ {Max(S)}) < target}

\* The value of the selection utxo_select_in_range returns for a count: the least that is in the range
utxo_select_in_range(utxos, target, delta, count) ==
  LET Values == {Value(utxos, S) : S \in InRange(utxos, target, delta, count)} IN
  {v \in Values : \A w \in Values : v <= w}

utxo_select_fixed(utxos, target, count) ==
  {v \in {Value(utxos, 1..count)} : v >= target}

-----------------------------------------------------------------------------
(* What is selected *)

Bit(b) == IF b THEN 1 ELSE 0
Outputs(o) == 2 + Bit(o.feeChange) + Bit(o.serverChange)
LeastFee(o, fees) == TxFee(o.count, Len(fees), Outputs(o))

\* The coins of the server pay the network: `count` of its largest with change, or `count` that leave none
ServerInputs(o, fees, server) ==
  LET least == LeastFee(o, fees) IN
  IF o.serverChange THEN utxo_select_fixed(server, least + 1, o.count)
  ELSE utxo_select_in_range(server, least, UpperBoundDelta, o.count)

NetworkFee(o, fees, paid) == IF o.serverChange THEN LeastFee(o, fees) ELSE paid

\* All coins of the asset pay the receiver and the server, with change or leaving almost none
ClientInputs(o, fees, target, price) ==
  IF o.feeChange THEN utxo_select_fixed(fees, target + 1, Len(fees))
  ELSE utxo_select_in_range(fees, target, Priced(price, UpperBoundDelta), Len(fees))

\* Mutant: without change the server gets its fee, and nobody the rest
ServerFee_Rest(taken, change, amount, least) == least

ServerFee(taken, change, amount, least) == taken - change - amount

\* The selections an option allows, of coins for a payment of `amount`
Selections(o, fees, server, offer, amount) ==
  UNION {LET network == NetworkFee(o, fees, paid)
             least == AssetFee(offer.price, offer.fixed, network)
         IN {LET change == IF o.feeChange THEN taken - amount - least ELSE 0 IN
             [option |-> o, taken |-> taken, change |-> change, network |-> network,
              fee |-> ServerFee(taken, change, amount, least)] :
               taken \in ClientInputs(o, fees, amount + least, offer.price)} :
         paid \in ServerInputs(o, fees, server)}

\* The least fee, and the first option that has it
Rank(o) == <<Bit(o.feeChange), Bit(o.serverChange), o.count>>
Before(o, p) ==
  \E i \in 1..3 : Rank(o)[i] < Rank(p)[i] /\ \A j \in 1..(i - 1) : Rank(o)[j] = Rank(p)[j]

utxo_select_inner(fees, server, offer, amount) ==
  LET All == UNION {Selections(o, fees, server, offer, amount) :
                      o \in [feeChange : BOOLEAN, serverChange : BOOLEAN, count : 1..Len(server)]}
  IN {s \in All : \A t \in All : s.fee < t.fee \/ (s.fee = t.fee /\ ~Before(t.option, s.option))}

\* Nothing is lost, and neither the network nor the server gets more than twice what it may ask for
validate_selection(s, fees, offer, amount) ==
  LET least == LeastFee(s.option, fees)
      asset == AssetFee(offer.price, offer.fixed, s.network)
  IN /\ s.taken = amount + s.fee + s.change
     /\ s.network \in least..(2 * least) /\ s.fee \in asset..(2 * asset)

utxo_select(fees, server, offer, amount) ==
  {s \in utxo_select_inner(fees, server, offer, amount) : validate_selection(s, fees, offer, amount)}
=============================================================================
