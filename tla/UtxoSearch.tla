----------------------------- MODULE UtxoSearch -----------------------------
(***************************************************************************)
(* The search of utxo_select_in_range, one step for each turn of its loop: *)
(* branch and bound over the coins, largest first. asset_select searches   *)
(* for an exact match and takes the coins as they come when there is none; *)
(* a payjoin does so only if what it pays is not the asset of the fee.     *)
(***************************************************************************)
EXTENDS UtxoSelect, SequencesExt

CONSTANTS
  Wallets,        \* the coins that may be offered, sequences of values
  Targets,
  MaxIterations   \* UTXO_SELECTION_ITERATION_LIMIT, smaller

VARIABLES
  offered,    \* wallet_utxos, as they come
  wanted,     \* the arguments: [target, delta, count], no count for asset_select
  searching,  \* in the loop
  iteration,
  index,      \* of the coin that is decided on next
  selection,  \* index_selection
  reached,    \* its value
  available,  \* the value of the coins that are not decided on
  best,       \* best_selection: indexes, too
  selected    \* what the caller is given: [value, count]

searchVars == <<offered, wanted, searching, iteration, index, selection, reached, available, best, selected>>

utxos == Reverse(SortSeq(offered, <))
NoSelection == << >>
Nothing == [value |-> 0, count |-> 0]

Init ==
  /\ offered \in Wallets
  /\ wanted \in [target : Targets, delta : {0}, count : {0}] \cup
                [target : Targets, delta : {0, UpperBoundDelta}, count : 1..Len(offered)]
  /\ iteration = 0 /\ index = 1 /\ selection = NoSelection /\ reached = 0 /\ best = NoSelection
  /\ available = Total(offered)
  /\ searching = (available >= wanted.target)
  /\ selected = Nothing

-----------------------------------------------------------------------------
TooLittle == available + reached < wanted.target
TooMuch == reached > wanted.target + wanted.delta
Suffices == ~TooLittle /\ ~TooMuch /\ reached >= wanted.target
IsFull == wanted.count # 0 /\ Len(selection) >= wanted.count
Turns == TooLittle \/ TooMuch \/ Suffices \/ IsFull

\* Mutant: the smaller selection is not preferred
IsBetter_Count == best = NoSelection \/ reached <= Value(utxos, Range(best))

\* No more change than the best, and as many coins as asked for or no more than the best
IsBetter ==
  /\ best # NoSelection => reached <= Value(utxos, Range(best))
  /\ IF wanted.count = 0 THEN best # NoSelection => Len(selection) <= Len(best)
     ELSE Len(selection) = wanted.count

InLoop == searching /\ iteration < MaxIterations /\ iteration' = iteration + 1 /\ UNCHANGED <<offered, wanted, searching, selected>>

\* The last coin is given up, and those after it may be selected again
StepBack ==
  /\ Turns /\ selection # NoSelection
  /\ InLoop
  /\ best' = IF Suffices /\ IsBetter THEN selection ELSE best
  /\ LET last == Last(selection) IN
     /\ selection' = Front(selection)
     /\ reached' = reached - utxos[last]
     /\ available' = available + Value(utxos, (last + 1)..(index - 1))
     /\ index' = last + 1

SelectUtxo ==
  /\ ~Turns
  /\ InLoop
  /\ selection' = Append(selection, index)
  /\ reached' = reached + utxos[index]
  /\ available' = available - utxos[index]
  /\ index' = index + 1
  /\ UNCHANGED best

\* The coins as they come, until they suffice
Enough == {n \in 1..Len(offered) : Value(offered, 1..n) >= wanted.target}
utxo_select_basic == {[value |-> Value(offered, 1..n), count |-> n] : n \in {m \in Enough : \A l \in Enough : m <= l}}

Finish ==
  /\ searching /\ (iteration = MaxIterations \/ (Turns /\ selection = NoSelection))
  /\ searching' = FALSE
  /\ \/ best # NoSelection /\ selected' = [value |-> Value(utxos, Range(best)), count |-> Len(best)]
     \/ best = NoSelection /\ wanted.count # 0 /\ UNCHANGED selected
     \/ best = NoSelection /\ wanted.count = 0 /\ selected' \in utxo_select_basic
  /\ UNCHANGED <<offered, wanted, iteration, index, selection, reached, available, best>>

Next == StepBack \/ SelectUtxo \/ Finish
Spec == Init /\ [][Next]_searchVars

-----------------------------------------------------------------------------
TypeOK ==
  /\ offered \in Wallets /\ wanted.target \in Targets /\ iteration \in 0..MaxIterations /\ searching \in BOOLEAN
  /\ index \in 1..(Len(offered) + 1) /\ reached \in Nat /\ available \in Nat

\* The loop keeps account of what it selected and may still select, and what it returns is the best there is:
\* for asset_select the fewest coins that match exactly, for a payjoin the coins in the range that leave least
\* (utxo_select_in_range). When the loop is cut short what it found is in the range
SelectionIsBest ==
  /\ reached = Value(utxos, Range(selection)) /\ available = Value(utxos, index..Len(utxos))
  /\ ~searching =>
       LET found == {selected.value} \ {0}
           Exact == {S \in SUBSET DOMAIN utxos : Value(utxos, S) = wanted.target}
       IN IF iteration = MaxIterations
          THEN wanted.count # 0 /\ selected # Nothing =>
                /\ selected.count = wanted.count
                /\ selected.value \in wanted.target..(wanted.target + wanted.delta)
          ELSE IF wanted.count # 0 THEN found = utxo_select_in_range(utxos, wanted.target, wanted.delta, wanted.count)
          ELSE /\ Exact # {} => /\ found = {wanted.target}
                                /\ \A S \in Exact : selected.count <= Cardinality(S)
               /\ found = {} <=> Total(utxos) < wanted.target
=============================================================================
