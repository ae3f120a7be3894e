-------------------------------- MODULE Trade --------------------------------
(***************************************************************************)
(* One item from the scan that found it to the sale that ends it: the buy  *)
(* side of BuyScan and the sell side of Repricing, which share one fee     *)
(* table and one valuation. The operator records what was spent with       *)
(* `arb decide`, lists the item, and reprices it until it sells.           *)
(***************************************************************************)
EXTENDS BuyScan, Repricing

CONSTANTS
  Extra,     \* what the operator may have spent beyond the scored cost
  MaxListed  \* bound: with so many opportunities written nobody scans

ASSUME TradeAssumption == Extra \subseteq Nat /\ MaxListed \in Nat

VARIABLES
  judged,        \* the outcome of the scan just run: what became of every listing
  opportunities  \* the opportunities table

\* What is kept of a score; velocity, fee table version and time are left out.
Opportunity == [item : Listing, worth : Valued, net : Int]

buyVars == <<judged, opportunities>>
vars == <<judged, opportunities, stock, search>>

Init ==
  /\ judged = {}
  /\ opportunities = {}
  /\ SellInit

-----------------------------------------------------------------------------
(* The buy list.                                                           *)

\* write_opportunity: the score of every ranked listing.
Written(outcome) ==
  {[item |-> j.item, worth |-> [p25 |-> j.worth.p25, p60 |-> j.worth.p60],
    net |-> Net(j.item, j.worth)] : j \in {k \in outcome : k.verdict = "ranked"}}

\* top_opportunities, as the console filters it: whatever was ever written, what was
\* bought long ago included. Any limit may be asked for, so its order is left out.
BuyList == {o \in opportunities : o.net >= 0}

-----------------------------------------------------------------------------
(* Actions.                                                                *)

\* `arb scan`: the venue answers with some items, the comp source with some sales.
Scan ==
  /\ judged = {} /\ Cardinality(opportunities) < MaxListed
  /\ \E items \in SUBSET Items, market \in SUBSET Sales, answered \in SUBSET Queries :
       judged' = RunScan(items, market, answered)
  /\ opportunities' = opportunities \cup Written(judged')
  /\ UNCHANGED sellVars

\* `arb decide --outcome bought --spend`: the item is listed at the top of its band.
Buy ==
  /\ judged = {}
  /\ \E o \in BuyList, extra \in Extra :
       List(Deployed(o.item) + extra, extra = 0, o.worth)
  /\ UNCHANGED buyVars

\* The scan's report has been read; nothing of it is kept but what was written.
PassOver ==
  /\ judged # {}
  /\ judged' = {}
  /\ UNCHANGED <<opportunities, sellVars>>

Next ==
  \/ Scan \/ Buy \/ PassOver
  \/ SellNext /\ UNCHANGED buyVars

\* A command that is running goes on to its end.
Fairness == WF_vars((Searching \/ RepriceListing) /\ UNCHANGED buyVars)

Spec == Init /\ [][Next]_vars

FairSpec == Spec /\ Fairness

-----------------------------------------------------------------------------
(* Type invariant and properties.                                          *)

\* Every variable holds what the code can put there.
TypeOK ==
  /\ stock \in Item \cup {None}
  /\ search \in Search
  /\ opportunities \subseteq Opportunity
  /\ \A o \in opportunities : Deployed(o.item) > 0

\* trim_outliers never costs a listing its valuation: with three usable sales or
\* more the comp floor of three is met after trimming.
FenceNeverRefuses ==
  \A j \in judged :
    Cardinality(Usable(j.comps)) >= MinComps => j.worth # None

\* A bundle or a mispriced lot moves nothing: where all usable sales but one were at
\* one price, and fencing applies, both percentiles are that price.
OneOddSaleMovesNothing ==
  \A j \in judged : \A odd \in Usable(j.comps) :
    LET others == Usable(j.comps) \ {odd}
        prices == {s.price : s \in others}
    IN  Cardinality(others) >= 3 /\ Cardinality(prices) = 1
          => j.worth # None /\ {j.worth.p25, j.worth.p60} = prices

\* break_even_pence: what is found clears, and one penny less does not.
BreakEvenIsTight ==
  search.step = "found" =>
    /\ Clears(search.low, search.outlay)
    /\ search.low > 0 => ~Clears(search.low - 1, search.outlay)

\* Both ends use one valuation: an item the scan ranked, bought for what it was
\* scored at, is never asked for below its break-even however long it is listed.
RankedStockIsNeverFlagged ==
  stock # None /\ stock.scored => ~stock.flagged

\* The threshold that fires unattended never loses money: where break-even was
\* found, what an accepted offer leaves covers the outlay, up to the table's Slack.
UnattendedSaleCovers ==
  stock # None /\ stock.unattended /\ stock.breakEven # None
    => Proceeds(stock.paid) + Slack >= Outlay(stock)

\* The ladder goes one way: while an item is for sale its ask never rises and never
\* leaves the band, in whatever order days and commands come.
AskOnlyDecays ==
  [][ stock # None /\ stock' # None
        => stock'.ask <= stock.ask /\ stock.worth.p25 <= stock'.ask ]_vars

\* The break-even search comes to an end, whatever the fee table.
SearchEnds == search.step # "idle" ~> search.step = "idle"
=============================================================================
