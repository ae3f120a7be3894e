------------------------------- MODULE MCTrade -------------------------------
(* A small market: two listings worth buying, one damaged, one contested, one  *)
(* without a cost; sales that agree, sales that do not.                        *)
EXTENDS Trade, TLC

Listed(id, price, total, title, size, favourites, views) ==
  [id |-> id, price |-> price, total |-> total, title |-> title, brand |-> "acme",
   size |-> size, favourites |-> favourites, views |-> views]

MCItems ==
  {Listed("plain", 34, 40, <<"acme", "shirt">>, None, 3, 30),
   Listed("denied", 30, None, <<"acme", "shirt", "no", "stains">>, "M", None, None),
   Listed("stained", 20, 22, <<"acme", "shirt", "stains">>, "M", 40, 60),
   Listed("wanted", 30, 33, <<"acme", "shirt">>, None, 6, 20),
   Listed("free", 0, 0, <<"acme", "shirt">>, None, 0, 0)}

Sold(id, price, size, upper, timed) ==
  [id |-> id, price |-> price, brand |-> "acme", size |-> size, title |-> <<"shirt">>,
   listed |-> IF timed THEN 1 ELSE None, sold |-> 5, upper |-> upper]

MCSales ==
  {Sold("a", 80, None, FALSE, TRUE), Sold("b", 80, None, FALSE, FALSE),
   Sold("c", 80, "M", FALSE, FALSE), Sold("d", 89, None, FALSE, FALSE),
   Sold("lot", 210, None, FALSE, FALSE), Sold("rag", 30, "M", FALSE, TRUE),
   Sold("offer", 95, None, TRUE, TRUE), Sold("large", 60, "L", FALSE, FALSE)}

MCSimilar == {<<i.title, <<"shirt">>>> : i \in MCItems}

\* Two percentages rounded one by one and a fixed fee; above 120 pence the table
\* takes everything, so that an item which cost too much has no break-even.
Table(p) == (p * 12 + 50) \div 100 + (p * 3 + 50) \div 100 + 5

MCFees == [p \in 0 .. 1000 |-> IF p <= 120 THEN Table(p) ELSE Table(120) + p - 120]
=============================================================================
