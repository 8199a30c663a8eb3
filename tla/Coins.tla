------------------------------- MODULE Coins -------------------------------
(***************************************************************************)
(* How a client makes up amounts from notes (picomint-client,              *)
(* ecash/mod.rs, tx/builder.rs; picomint-core, ecash).                     *)
(*                                                                         *)
(* A wallet is a bag of denominations: notes of one denomination differ in *)
(* nothing that is chosen by.  Amounts are in msat.  The functions are     *)
(* pure; a behaviour is one transaction that is to be funded, chosen in    *)
(* the initial state.                                                      *)
(***************************************************************************)
EXTENDS Integers, FiniteSets, FiniteSetsExt, SequencesExt

CONSTANTS Denomination,  \* client_denominations: d stands for 2^d msat
          EcashFee,      \* ECASH_INPUT_FEE and ECASH_OUTPUT_FEE
          Target,        \* TARGET_PER_DENOMINATION
          Skipped,       \* denominations that a max send does not mint
          Short          \* no notes are selected

ASSUME CoinsAssumption ==
  /\ Denomination \subseteq 1 .. 30 /\ IsFiniteSet(Denomination)
  /\ EcashFee \in Nat /\ \A d \in Denomination : EcashFee < 2 ^ d
  /\ Target \in Nat /\ Skipped < Cardinality(Denomination)

VARIABLES hold,   \* the notes of the account
          needs,  \* deficit of the transaction before it is funded
          brings, \* its excess
          pays,   \* has it any output?
          rail    \* what a max send pays for: [base, ppm, fee]

coinsVars == <<hold, needs, brings, pays, rail>>

Bag == [Denomination -> Nat]

NoNotes == [d \in Denomination |-> 0]

One(d) == [NoNotes EXCEPT ![d] = 1]

Plus(a, b) == [d \in Denomination |-> a[d] + b[d]]

\* The sum of the notes, each at the price that it is given.
At(bag, Price(_)) == MapThenSumSet(LAMBDA d : bag[d] * Price(d), Denomination)

Amount(d) == 2 ^ d

NoteValue(d) == Amount(d) - EcashFee

\* What a note costs that is minted.
MintCost(d) == Amount(d) + EcashFee

Descending == SetToSortSeq(Denomination, >)

\* The notes of a bag one by one, largest first.
Notes(bag) ==
  FlattenSeq([i \in 1 .. Len(Descending) |->
                [k \in 1 .. bag[Descending[i]] |-> Descending[i]]])

(***************************************************************************)
(* select_funding_input                                                    *)
(***************************************************************************)

Kept(held) == [d \in Denomination |-> Min({held[d], 2 * Target})]

Surplus(held) == [d \in Denomination |-> held[d] - Kept(held)[d]]

\* Greedy, with the last note that is too large as a filler.
SelectFundingInput(held, deficit) ==
  LET fits(acc, d) == NoteValue(d) + At(acc.selected, NoteValue) <= deficit
      step(acc, d) ==
        IF fits(acc, d) THEN [acc EXCEPT !.selected = Plus(@, One(d))]
        ELSE [acc EXCEPT !.last = d]
      end == FoldLeft(step, [selected |-> Surplus(held), last |-> Short], Notes(Kept(held)))
  IN IF deficit <= At(Surplus(held), NoteValue) THEN Surplus(held)
     ELSE IF end.last = Short THEN Short
     ELSE Plus(end.selected, One(end.last))

(***************************************************************************)
(* select_output_denominations, fund                                       *)
(***************************************************************************)

\* A bug: the fee for the output is forgotten.
MutMintable(left, d) == left \div Amount(d)

\* How many notes are minted of a denomination.
Mintable(left, d) == left \div MintCost(d)

\* Greedy, largest first.
Change(excess, denominations) ==
  FoldLeft(LAMBDA acc, d :
             IF d \notin denominations THEN acc
             ELSE [left |-> acc.left - Mintable(acc.left, d) * MintCost(d),
                   minted |-> [acc.minted EXCEPT ![d] = Mintable(acc.left, d)]],
           [left |-> excess, minted |-> NoNotes], Descending).minted

\* change_denominations.
ChangeDenominations(max) ==
  IF max THEN {d \in Denomination : Cardinality({e \in Denomination : e < d}) >= Skipped}
  ELSE Denomination

\* What a transaction spends and mints, if it can be funded: it must have an
\* output, and one that has none so far has none if there is nothing to mint.
Fund(held, deficit, excess, outputs, max) ==
  LET spent == SelectFundingInput(held, deficit)
      left == excess + At(spent, NoteValue) - deficit
      minted == Change(left, ChangeDenominations(max))
  IN IF spent = Short \/ (~ outputs /\ minted = NoNotes) THEN Short
     ELSE [spent |-> spent, minted |-> minted]

(***************************************************************************)
(* max_spendable, largest_affordable_amount                                *)
(***************************************************************************)

\* What a rail makes of the amount: rail_fees.
Total(r, amount) == amount + r.base + (amount * r.ppm) \div 1000000 + r.fee

\* The binary search over whole sats.
LargestAffordableAmount(held, r) ==
  LET spendable == At(held, NoteValue)
      f[range \in (0 .. spendable \div 1000) \X (0 .. spendable \div 1000)] ==
        LET lo == range[1]
            hi == range[2]
            mid == (lo + hi + 1) \div 2
        IN IF lo >= hi THEN lo
           ELSE IF Total(r, 1000 * mid) <= spendable THEN f[<<mid, hi>>]
           ELSE f[<<lo, mid - 1>>]
  IN IF spendable < Total(r, 0) THEN 0 ELSE 1000 * f[<<0, spendable \div 1000>>]

(***************************************************************************)
(* ecash_send: send_ecash_dbtx, represent_amount                           *)
(***************************************************************************)

RoundUp(amount) ==
  LET unit == Amount(Min(Denomination))
  IN ((amount + unit - 1) \div unit) * unit

\* Notes that sum up to the amount exactly.
SendEcash(held, amount) ==
  LET step(acc, d) ==
        IF Amount(d) > acc.left THEN acc
        ELSE [left |-> acc.left - Amount(d), notes |-> Plus(acc.notes, One(d))]
      end == FoldLeft(step, [left |-> amount, notes |-> NoNotes], Notes(held))
  IN IF end.left = 0 THEN end.notes ELSE Short

RepresentAmount(amount) ==
  FoldLeft(LAMBDA acc, d : [left |-> acc.left % Amount(d),
                            notes |-> [acc.notes EXCEPT ![d] = acc.left \div Amount(d)]],
           [left |-> amount, notes |-> NoNotes], Descending).notes

(***************************************************************************)
(* Properties                                                              *)
(***************************************************************************)

Within(bag, held) == \A d \in Denomination : bag[d] <= held[d]

\* The bags of notes that are in another.
Bags(held) ==
  FoldSet(LAMBDA d, bags : {[bag EXCEPT ![d] = n] : bag \in bags, n \in 0 .. held[d]},
          {NoNotes}, Denomination)

\* A transaction that has an output is funded whenever the notes are worth more
\* than it needs (if they are worth exactly that it is not, unless no note is held
\* in reserve), and one that has none unless notes that cover it leave too little
\* to mint.  Nothing is lost on it but what is too little to mint; surplus notes
\* go along, and no reserve is opened that the deficit does not call for.
FundedWell(tx, surplus, worth, cheapest) ==
  IF tx = Short
  THEN \/ worth <= needs
       \/ /\ ~ pays
          /\ \E bag \in Bags(hold) :
               /\ Within(surplus, bag)
               /\ brings + At(bag, NoteValue) - needs \in 0 .. cheapest - 1
  ELSE /\ Within(tx.spent, hold) /\ Within(surplus, tx.spent)
       /\ pays \/ tx.minted # NoNotes
       /\ brings + At(tx.spent, NoteValue) - needs - At(tx.minted, MintCost) \in 0 .. cheapest - 1
       /\ \A d \in Denomination :
            tx.spent[d] > surplus[d] =>
              /\ needs > At(surplus, NoteValue)
              /\ At(tx.spent, NoteValue) - needs <= Amount(Max(Denomination))
       /\ \A d \in Denomination \ {Max(Denomination)} : tx.minted[d] <= 1

FundingCovers ==
  FundedWell(Fund(hold, needs, brings, pays, FALSE), Surplus(hold), At(hold, NoteValue),
             MintCost(Min(Denomination)))

\* The amount of a max send is the largest one there is, and a send of it mints
\* no change and leaves no more behind than the part of a sat that could not be
\* sent (not always nothing: change_denominations says "pulls every note").
\* Only when it is worth exactly what the account holds the send is refused.
EmptiesBy(tx, amount, worth) ==
  LET rest == worth - Total(rail, amount)
  IN worth >= Total(rail, 0) =>
       /\ rest >= 0 /\ Total(rail, amount + 1000) > worth
       /\ tx = Short <=> rest = 0 /\ worth > At(Surplus(hold), NoteValue)
       /\ tx # Short => /\ tx.minted = NoNotes
                        /\ worth - At(tx.spent, NoteValue) <= rest

MaxSendEmpties ==
  LET amount == LargestAffordableAmount(hold, rail)
  IN EmptiesBy(Fund(hold, Total(rail, amount), 0, TRUE, TRUE), amount, At(hold, NoteValue))

\* ecash_send takes notes that are there and sum up to the amount, whenever any
\* do, and the notes that it mints otherwise sum up to it.
SendExact ==
  LET amount == RoundUp(needs)
      taken == SendEcash(hold, amount)
  IN /\ amount >= needs
     /\ At(RepresentAmount(amount), Amount) = amount
     /\ IF taken # Short
        THEN Within(taken, hold) /\ At(taken, Amount) = amount
        ELSE \A bag \in Bags(hold) : At(bag, Amount) # amount

CoinsSound == FundingCovers /\ MaxSendEmpties /\ SendExact
=============================================================================
