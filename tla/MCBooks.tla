------------------------------ MODULE MCBooks ------------------------------
(* Small instances of Books. *)
EXTENDS Books, TLC

CONSTANTS ebay, vinted, value, fixed, seller, t1, t2, t3, refund, torn

MCParts == (ebay :> {value, fixed}) @@ (vinted :> {seller})
MCAssumed == (value :> 1) @@ (fixed :> 3) @@ (seller :> 0)
MCMapped == {value, fixed}

\* Three sales and a refund: an odd rate among them, a fixed fee that the second
\* does not carry, a component of the other table that nothing is mapped to, and a
\* sale whose line item lacks its fee basis.
MCReading == [x \in Txn |-> IF x = torn THEN "dropped" ELSE "kept"]
MCIsSale == [x \in Txn |-> x # refund]
MCCharged ==
  [x \in Txn |->
     (value :> CASE x = t3 -> 9 [] x = refund -> 0 [] OTHER -> 2)
       @@ (fixed :> CASE x = t1 -> 4 [] x = t3 -> 5 [] OTHER -> None)
       @@ (seller :> None)]

MCThresholds == [backtest |-> 2, retune |-> 1, shipments |-> 1, decisions |-> 2]

Symmetry == Permutations(Row)
=============================================================================
