------------------------------ MODULE FeeModel ------------------------------
(***************************************************************************)
(* What both ends of a trade ask of a fee table: protocols.FeeModel, the   *)
(* total fee on a sale price, and no more. The buy side scores with it,    *)
(* the sell side searches for its break-even with it.                      *)
(*                                                                         *)
(* A table's percentages are rounded one by one, so one more penny of      *)
(* price may tick several of them at once and leave a penny or two less:   *)
(* net proceeds do not rise with the price. Slack is how far they fall.    *)
(***************************************************************************)
EXTENDS Integers

CONSTANTS
  MaxPrice,  \* the dearest price looked at, in pence
  Fees,      \* fees_pence, of each price
  Slack,     \* how far net proceeds may fall while the price rises
  ShipOut,   \* ship_out_pence, what posting a sale costs
  None

Price == 0 .. MaxPrice

ASSUME FeeModelAssumption ==
  /\ MaxPrice \in Nat
  /\ Fees \in [Price -> Nat]
  /\ Slack \in Nat
  /\ ShipOut \in Nat
  /\ \A p, q \in Price : p <= q => p - Fees[p] <= q - Fees[q] + Slack
  /\ None \notin Int

\* What a sale leaves after the table's fees.
Proceeds(price) == price - Fees[price]
=============================================================================
