------------------------------ MODULE Repricing ------------------------------
(***************************************************************************)
(* The sell side of one item (src/arb/selling/reprice.py and the command   *)
(* `arb reprice` of cli.py): the ask decays from est_p60 to est_p25 with   *)
(* the days listed, break-even is searched for on the fee table, and the   *)
(* Best Offer thresholds are set from both.                                *)
(*                                                                         *)
(* The break-even search is a loop of the code and a sequence of steps     *)
(* here: it doubles an upper end until that clears, then halves the        *)
(* interval. The operator lists at est_p60, runs the command on any day    *)
(* and applies what it prints; buyers buy at the ask or make offers.       *)
(***************************************************************************)
EXTENDS FeeModel

CONSTANTS
  DecayDays,   \* RepricePolicy.decay_days
  MinChange,   \* RepricePolicy.min_change_pence
  Concession,  \* RepricePolicy.concession, in hundredths
  SearchFrom,  \* the least upper end the search begins with
  MaxTries,    \* how often the upper end is doubled
  MaxDays      \* bound: days an item is listed

ASSUME RepricingAssumption ==
  /\ DecayDays \in Nat \ {0}
  /\ MinChange \in Nat
  /\ Concession \in 0 .. 100
  /\ SearchFrom \in Nat
  /\ MaxTries \in Nat
  /\ MaxDays \in Nat

VARIABLES
  stock,   \* the item: what it cost, its valuation, its listing
  search   \* the break-even search of the command that is running

sellVars == <<stock, search>>

Least(a, b) == IF a <= b THEN a ELSE b
Greatest(a, b) == IF a >= b THEN a ELSE b

Valued == {v \in [p25 : Price, p60 : Price] : v.p25 <= v.p60}

\* One item. `scored` says it cost what the scan scored it at, `breakEven` is what
\* the last command found, `flagged` RepriceDecision.below_break_even, `paid` what
\* the buyer paid, `unattended` that the threshold accepted an offer by itself.
Item == [cost : Nat, scored : BOOLEAN, worth : Valued, day : 0 .. MaxDays, ask : Price,
         breakEven : Price \cup {None}, accept : Price \cup {None},
         decline : Price \cup {-1, None}, flagged : BOOLEAN,
         paid : Price \cup {None}, unattended : BOOLEAN]

Steps == {"idle", "widen", "halve", "found", "none"}
Search == [step : Steps, outlay : Nat, low : Price, high : Price, tries : 0 .. MaxTries]

Idle == [step |-> "idle", outlay |-> 0, low |-> 0, high |-> 0, tries |-> 0]

SellInit ==
  /\ stock = None
  /\ search = Idle

Unsold == stock # None /\ stock.paid = None

-----------------------------------------------------------------------------
(* The break-even search.                                                  *)

Clears(price, outlay) == Proceeds(price) - outlay >= 0

Outlay(item) == item.cost + ShipOut

\* The command runs: the loop begins with an upper end of four times the outlay.
RepriceBegins ==
  /\ Unsold /\ search.step = "idle"
  /\ LET outlay == Outlay(stock)
         high == Greatest(4 * outlay, SearchFrom)
     IN  /\ high <= MaxPrice
         /\ search' = [step |-> "widen", outlay |-> outlay, low |-> 0, high |-> high,
                       tries |-> 0]
  /\ UNCHANGED stock

\* Too low an upper end is doubled; after the last try the loop gives up.
Widen ==
  /\ search.step = "widen" /\ search.tries < MaxTries
  /\ ~Clears(search.high, search.outlay)
  /\ 2 * search.high <= MaxPrice
  /\ search' = [search EXCEPT !.high = 2 * search.high, !.tries = search.tries + 1]
  /\ UNCHANGED stock

GiveUp ==
  /\ search.step = "widen"
  /\ \/ search.tries = MaxTries
     \/ ~Clears(search.high, search.outlay) /\ 2 * search.high > MaxPrice  \* bound
  /\ search' = [search EXCEPT !.step = "none"]
  /\ UNCHANGED stock

WideEnough ==
  /\ search.step = "widen" /\ search.tries < MaxTries
  /\ Clears(search.high, search.outlay)
  /\ search' = [search EXCEPT !.step = "halve"]
  /\ UNCHANGED stock

\* Mutant: the lower end stays at the middle that did not clear.
AtMiddle(mid) == mid

\* Mutant: one more penny is skipped.
TwoAbove(mid) == mid + 2

AboveMiddle(mid) == mid + 1

Halve ==
  /\ search.step = "halve" /\ search.low < search.high
  /\ LET mid == (search.low + search.high) \div 2
     IN  search' = IF Clears(mid, search.outlay)
                   THEN [search EXCEPT !.high = mid]
                   ELSE [search EXCEPT !.low = AboveMiddle(mid)]
  /\ UNCHANGED stock

Meet ==
  /\ search.step = "halve" /\ search.low >= search.high
  /\ search' = [search EXCEPT !.step = "found"]
  /\ UNCHANGED stock

\* break_even_pence: a price, or None where the search gave up.
BreakEven == IF search.step = "found" THEN search.low ELSE None

-----------------------------------------------------------------------------
(* The decision.                                                           *)

\* round((top - floor) * fraction): the whole numbers nearest to drop * day /
\* DecayDays. The product is a float, so a tie may round either way.
Nearest(drop, day) ==
  {r \in 0 .. drop : /\ 2 * (r * DecayDays - drop * day) <= DecayDays
                     /\ 2 * (drop * day - r * DecayDays) <= DecayDays}

\* Mutant: the decay goes on past the end of its window.
PastFloor(worth, day) == {worth.p60 - ((worth.p60 - worth.p25) * day) \div DecayDays}

\* ask_price: linear from the top of the band to its floor.
Asks(worth, day) ==
  IF day >= DecayDays THEN {worth.p25}
  ELSE {Greatest(worth.p25, worth.p60 - r) : r \in Nearest(worth.p60 - worth.p25, day)}

WorthMoving(target, current) ==
  Greatest(target - current, current - target) >= MinChange

\* Mutant: the concession is granted whatever it costs.
Unclamped(ask, breakEven) == ask - (ask * Concession) \div 100

\* offer_ladder's auto_accept_pence; where nothing clears the floor is the ask.
AutoAccept(ask, breakEven) ==
  LET floor == IF breakEven = None THEN ask ELSE breakEven
      accept == Greatest(ask - (ask * Concession) \div 100, floor)
  IN  IF accept > ask THEN None ELSE accept

AutoDecline(ask, worth) == Least(worth.p25, ask) - 1

\* below_break_even: a missing break-even is recorded as 0.
BelowBreakEven(ask, breakEven) == breakEven # None /\ ask < breakEven

\* reprice and offer_ladder, and the operator applies what they suggest.
RepriceListing ==
  /\ search.step \in {"found", "none"}
  /\ \E target \in Asks(stock.worth, stock.day) :
       LET ask == IF WorthMoving(target, stock.ask) THEN target ELSE stock.ask
       IN  stock' = [stock EXCEPT
             !.ask = ask,
             !.breakEven = BreakEven,
             !.accept = AutoAccept(ask, BreakEven),
             !.decline = AutoDecline(ask, stock.worth),
             !.flagged = BelowBreakEven(ask, BreakEven)]
  /\ search' = Idle

-----------------------------------------------------------------------------
(* Outside the code: the operator lists, days pass, buyers buy.            *)

List(cost, scored, worth) ==
  /\ stock = None
  /\ stock' = [cost |-> cost, scored |-> scored, worth |-> worth, day |-> 0,
               ask |-> worth.p60, breakEven |-> None, accept |-> None, decline |-> None,
               flagged |-> FALSE, paid |-> None, unattended |-> FALSE]
  /\ UNCHANGED search

DayPasses ==
  /\ Unsold /\ search.step = "idle" /\ stock.day < MaxDays
  /\ stock' = [stock EXCEPT !.day = stock.day + 1]
  /\ UNCHANGED search

BuyNow ==
  /\ Unsold /\ search.step = "idle"
  /\ stock' = [stock EXCEPT !.paid = stock.ask]
  /\ UNCHANGED search

\* An offer at or above the threshold is taken with nobody looking.
OfferAccepted ==
  /\ Unsold /\ search.step = "idle" /\ stock.accept # None
  /\ \E offer \in stock.accept .. stock.ask :
       stock' = [stock EXCEPT !.paid = offer, !.unattended = TRUE]
  /\ UNCHANGED search

Ship ==
  /\ stock # None /\ stock.paid # None
  /\ stock' = None
  /\ UNCHANGED search

Searching == Widen \/ GiveUp \/ WideEnough \/ Halve \/ Meet

SellNext ==
  \/ RepriceBegins \/ Searching \/ RepriceListing
  \/ DayPasses \/ BuyNow \/ OfferAccepted \/ Ship
=============================================================================
