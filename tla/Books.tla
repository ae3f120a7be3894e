-------------------------------- MODULE Books --------------------------------
(***************************************************************************)
(* The books (src/arb/repo.py, books/ledger.py, books/tax.py,              *)
(* books/verticals.py, provenance.py): decisions and the stock they open,  *)
(* the seeded rows beside it, what the ledger and the tax summary make of  *)
(* both, and the register of placeholders that counts the evidence. The    *)
(* fee tables (FeeTables) change underneath.                               *)
(*                                                                         *)
(* Nothing in the repository records a sale or its settlement yet: Sell    *)
(* and Settle are the operator, who fills in the columns that the ledger   *)
(* reads.                                                                  *)
(***************************************************************************)
EXTENDS FeeTables, FiniteSetsExt

CONSTANTS
  Row,             \* rows the inventory table may come to hold
  Spend,           \* what may be paid for an item, in pence
  Gross,           \* what may be received for one
  Fee,             \* what a venue may have kept of it
  Ship,            \* what postage may have cost
  Percent,         \* the components of kind percentage; the others are fixed
  RateUnit,        \* the rate that is 100 %
  BooksTable,      \* --fee-table
  YearLength,      \* of the calendar year
  YearStart,       \* 6 April, within the calendar year
  Allowance,       \* TRADING_ALLOWANCE_PENCE
  Thresholds,      \* BACKTEST_ITEMS, RETUNE_TRADES, MEASURED_SHIPMENTS, AUTOBUY_DECISIONS
  AgeingDays,      \* AGEING_DAYS
  MaxDecisions,    \* bound of the decisions
  MaxNow           \* bound of the clock, in days

ASSUME BooksAssumption ==
  /\ Spend \subseteq Nat /\ Gross \subseteq Nat /\ Fee \subseteq Nat /\ Ship \subseteq Nat
  /\ IsFiniteSet(Row)
  /\ Percent \subseteq Component
  /\ RateUnit \in Nat \ {0}
  /\ BooksTable \in Table
  /\ YearLength \in Nat \ {0} /\ YearStart \in 0 .. YearLength - 1
  /\ Thresholds \in [backtest : Nat \ {0}, retune : Nat \ {0}, shipments : Nat \ {0},
                     decisions : Nat \ {0}]
  /\ Allowance \in Nat
  /\ AgeingDays \in Nat /\ MaxDecisions \in Nat /\ MaxNow \in Nat

VARIABLES
  inventory,   \* the rows of the inventory table
  decisions,   \* rows of the decisions table
  today        \* the clock

bookVars == <<inventory, decisions, today>>
vars == <<feeVars, bookVars>>

Day == 0 .. MaxNow

RowRecord ==
  [cost : Nat, acquired : Day, sold : Day \cup {None}, gross : Nat \cup {None},
   fees : Nat \cup {None}, ship : Nat \cup {None}, synthetic : BOOLEAN]

Stock == {r \in Row : inventory[r] # None}
SoldRows == {r \in Stock : inventory[r].sold # None}
Unsold == Stock \ SoldRows

Init ==
  /\ FeeInit
  /\ inventory = [r \in Row |-> None]
  /\ decisions = 0
  /\ today = 0

-----------------------------------------------------------------------------
(* What writes the tables.                                                 *)

\* record_decision: the decision, and for a purchase its stock, in one
\* transaction. The API and the command refuse a purchase without a spend; a
\* blank one is no number, and its cost is zero.
Buy(r) ==
  /\ inventory[r] = None /\ decisions < MaxDecisions
  /\ \E cost \in Spend \cup {0} :
       inventory' = [inventory EXCEPT ![r] =
         [cost |-> cost, acquired |-> today, sold |-> None, gross |-> None,
          fees |-> None, ship |-> None, synthetic |-> FALSE]]
  /\ decisions' = decisions + 1
  /\ UNCHANGED <<feeVars, today>>

\* A skip opens no stock.
Skip ==
  /\ decisions < MaxDecisions
  /\ decisions' = decisions + 1
  /\ UNCHANGED <<feeVars, inventory, today>>

SeededSettled(sold, settled) == sold # None /\ settled

\* seed_synthetic_trades, one trade: unsold, sold, or sold and settled.
SeedSyntheticTrade(r) ==
  /\ inventory[r] = None
  /\ \E cost \in Spend, d \in 0 .. today, gross \in Gross, fees \in Fee, ship \in Ship :
     \E s \in (d .. today) \cup {None}, settled \in BOOLEAN :
       inventory' = [inventory EXCEPT ![r] =
         [cost |-> cost, acquired |-> d, sold |-> s, synthetic |-> TRUE,
          gross |-> IF s = None THEN None ELSE gross,
          fees |-> IF SeededSettled(s, settled) THEN fees ELSE None,
          ship |-> IF SeededSettled(s, settled) THEN ship ELSE None]]
  /\ UNCHANGED <<feeVars, decisions, today>>

\* The operator records a sale, and later what the venue settled.
Sell(r) ==
  /\ r \in Unsold /\ ~inventory[r].synthetic
  /\ \E gross \in Gross :
       inventory' = [inventory EXCEPT ![r] =
                       [inventory[r] EXCEPT !.sold = today, !.gross = gross]]
  /\ UNCHANGED <<feeVars, decisions, today>>

Settle(r) ==
  /\ r \in SoldRows /\ ~inventory[r].synthetic /\ inventory[r].fees = None
  /\ \E fees \in Fee, ship \in Ship :
       inventory' = [inventory EXCEPT ![r] =
                       [inventory[r] EXCEPT !.fees = fees, !.ship = ship]]
  /\ UNCHANGED <<feeVars, decisions, today>>

Tick ==
  /\ today < MaxNow
  /\ today' = today + 1
  /\ UNCHANGED <<feeVars, inventory, decisions>>

Next ==
  \/ FeeNext /\ UNCHANGED bookVars
  \/ \E r \in Row : Buy(r) \/ SeedSyntheticTrade(r) \/ Sell(r) \/ Settle(r)
  \/ Skip
  \/ Tick

Spec == Init /\ [][Next]_vars

-----------------------------------------------------------------------------
(* The ledger.                                                             *)

\* charge_pence, each component rounded by itself, half up. While a rewrite has
\* the table open a report fails; the sums keep the values it last loaded.
ChargePence(c, price) ==
  IF c \in Percent
    THEN (2 * price * disk[BooksTable].value[c] + RateUnit) \div (2 * RateUnit)
    ELSE disk[BooksTable].value[c]

FeesPence(price) ==
  SumFunction([c \in Parts[BooksTable] |-> ChargePence(c, price)])

\* realised_trade's fees: what was settled, else what the table predicts.
RealisedFees(r) ==
  IF inventory[r].fees # None THEN inventory[r].fees ELSE FeesPence(inventory[r].gross)

\* RealisedTrade.settled.
SettledTrades == {r \in SoldRows : inventory[r].fees # None}

OrZero(x) == IF x = None THEN 0 ELSE x

NetPence(r) ==
  inventory[r].gross - inventory[r].cost - RealisedFees(r) - OrZero(inventory[r].ship)

\* totals(): settled and estimated trades, never in one sum.
SettledNet == SumFunction([r \in SettledTrades |-> NetPence(r)])
EstimatedNet == SumFunction([r \in SoldRows \ SettledTrades |-> NetPence(r)])

\* capital_position.
Deployed == SumFunction([r \in Unsold |-> inventory[r].cost])
Recycled == SumFunction([r \in SoldRows |-> inventory[r].gross])

Aged == {r \in Unsold : today - inventory[r].acquired > AgeingDays}

\* `arb books`: a settled and an estimated line, the second only where there is
\* something on it, and a warning while the table is provisional.
BooksCommand ==
  [deployed  |-> Deployed, recycled |-> Recycled,
   ageing    |-> <<SumFunction([r \in Aged |-> inventory[r].cost]), Cardinality(Aged)>>,
   settled   |-> <<SettledNet, Cardinality(SettledTrades)>>,
   estimated |-> IF SoldRows = SettledTrades THEN None
                 ELSE <<EstimatedNet, Cardinality(SoldRows \ SettledTrades)>>,
   warned    |-> disk[BooksTable].provisional]

\* read_books: the line of each trade.
BookLine(r) ==
  [cost |-> inventory[r].cost, gross |-> inventory[r].gross, fees |-> RealisedFees(r),
   ship |-> OrZero(inventory[r].ship), net |-> NetPence(r),
   daysHeld |-> inventory[r].sold - inventory[r].acquired, settled |-> r \in SettledTrades]

\* The run rate is over the days held, of thirty at least, and cut to whole pence.
RunRate ==
  LET net == SettledNet + EstimatedNet
      span == Max({30, SumFunction([r \in SoldRows |-> BookLine(r).daysHeld])})
  IN  IF SoldRows = {} THEN 0
      ELSE IF net >= 0 THEN (net * 365) \div span ELSE -((-net * 365) \div span)

Card(value, measured) == [value |-> value, measured |-> measured]

\* read_dashboard: the metric cards; `measured` is None where it does not apply.
Dashboard ==
  [deployed  |-> Card(Deployed, None),
   recycled  |-> Card(Recycled, None),
   settled   |-> Card(<<SettledNet, Cardinality(SettledTrades)>>, TRUE),
   estimated |-> Card(<<EstimatedNet, Cardinality(SoldRows \ SettledTrades)>>, FALSE),
   runRate   |-> Card(RunRate, FALSE),
   margin    |-> Card(<<SettledNet + EstimatedNet, Recycled>>, FALSE)]

-----------------------------------------------------------------------------
(* The tax year.                                                           *)

Starts(y) == y * YearLength + YearStart

\* Mutant: a year includes the first day of the next.
ContainsBoth(y, d) == Starts(y) <= d /\ d <= Starts(y + 1)

Contains(y, d) == Starts(y) <= d /\ d < Starts(y + 1)

\* tax_year_of, from the calendar year of the day.
TaxYearOf(d) ==
  LET year == d \div YearLength IN IF d >= Starts(year) THEN year ELSE year - 1

SoldIn(y) == {r \in SoldRows : Contains(y, inventory[r].sold)}
BoughtIn(y) == {r \in Stock : Contains(y, inventory[r].acquired)}

\* summarise_tax_year.
GrossIncome(y) == SumFunction([r \in SoldIn(y) |-> inventory[r].gross])

AllowableCosts(y) ==
  SumFunction([r \in SoldIn(y) |-> RealisedFees(r) + OrZero(inventory[r].ship)])
    + SumFunction([r \in BoughtIn(y) |-> inventory[r].cost])

\* Mutant: only a year without a settled sale is provisional.
EstimatedUnlessSettled(y) == IF SoldIn(y) \cap SettledTrades = {} THEN SoldIn(y) ELSE {}

EstimatedIn(y) == SoldIn(y) \ SettledTrades

FiguresAreProvisional(y) == EstimatedIn(y) # {}

\* Trades whose cost fell in another year than their income.
Straddling(y) == SoldIn(y) \ BoughtIn(y)

\* What each of the two methods leaves to be taxed, and which leaves less.
ActualExpenses(gross, costs) == gross - costs
TradingAllowance(gross) == Max({gross - Allowance, 0})

LowerMethod(gross, costs) ==
  CASE TradingAllowance(gross) < ActualExpenses(gross, costs) -> "trading_allowance"
    [] ActualExpenses(gross, costs) < TradingAllowance(gross) -> "actual_expenses"
    [] OTHER -> "either"

\* read_tax.
TaxReport(y) ==
  LET gross == GrossIncome(y)
      costs == AllowableCosts(y)
  IN  [gross |-> gross, costs |-> costs, actual |-> ActualExpenses(gross, costs),
       allowance |-> TradingAllowance(gross), lower |-> LowerMethod(gross, costs),
       below |-> gross <= Allowance, sales |-> Cardinality(SoldIn(y)),
       straddling |-> Cardinality(Straddling(y)), provisional |-> FiguresAreProvisional(y)]

-----------------------------------------------------------------------------
(* The register.                                                           *)

\* Mutant: seeded rows are evidence like any other.
AllRows == Stock

\* gather: synthetic rows are excluded everywhere.
RealRows == {r \in Stock : ~inventory[r].synthetic}
RealisedSales == Cardinality(RealRows \cap SoldRows)
SettledSales == Cardinality({r \in RealRows : inventory[r].fees # None})
MeasuredShipments == Cardinality({r \in RealRows : inventory[r].ship # None})

\* resolve: the placeholders that are closed. P2, P9 and P10 rest on settings and
\* on observations that nothing here writes.
Closed ==
  {p \in {"P1", "P3", "P4", "P5", "P6", "P7", "P8"} :
     CASE p = "P1" -> FeesMeasured
       [] p = "P3" -> RealisedSales >= Thresholds.backtest
       [] p \in {"P4", "P6"} -> RealisedSales >= Thresholds.retune
       [] p = "P5" -> MeasuredShipments >= Thresholds.shipments
       [] p = "P7" -> SettledSales > 0
       [] p = "P8" -> decisions >= Thresholds.decisions}

-----------------------------------------------------------------------------
(* Properties.                                                             *)

\* Every variable keeps its shape; what is sold has a price.
TypeOK ==
  /\ FeeTypeOK
  /\ inventory \in [Row -> RowRecord \cup {None}]
  /\ \A r \in SoldRows : inventory[r].gross # None /\ inventory[r].acquired <= inventory[r].sold
  /\ \A r \in Unsold : inventory[r].fees = None
  /\ decisions \in 0 .. MaxDecisions
  /\ today \in Day

\* Seeding closes nothing (gather: "Seeding the dashboard with generated trades must
\* not be able to close a placeholder"): whatever is seeded, the register says the same.
SeedingClosesNothing ==
  [][(\E r \in Row : SeedSyntheticTrade(r)) => Closed' = Closed]_vars

\* A figure that a fee table can still change says so, wherever it is shown (ledger.py:
\* "one is measured, the other is not"): whatever a rewrite changes is an
\* unsettled line of the books, a card marked as not measured, or a tax year marked as
\* provisional.
MovingFiguresAreMarked ==
  [][disk' # disk /\ UNCHANGED inventory =>
       /\ \A r \in SoldRows : BookLine(r)' # BookLine(r) => ~BookLine(r).settled
       /\ \A f \in {"deployed", "recycled", "ageing", "settled"} :
            BooksCommand'[f] = BooksCommand[f]
       /\ \A c \in DOMAIN Dashboard :
            Dashboard'[c] # Dashboard[c] => Dashboard[c].measured = FALSE
       /\ \A y \in {TaxYearOf(d) : d \in Day} :
            TaxReport(y)' # TaxReport(y) => TaxReport(y).provisional]_vars

\* Every penny falls in one tax year: over the years that days fall in, income is
\* what was recycled, and costs are what was paid, sold or not (cash basis).
EveryPennyInOneYear ==
  LET years == {TaxYearOf(d) : d \in Day} IN
  /\ SumFunction([y \in years |-> GrossIncome(y)]) = Recycled
  /\ SumFunction([y \in years |-> AllowableCosts(y)]) =
       SumFunction([r \in Stock |-> inventory[r].cost])
         + SumFunction([r \in SoldRows |-> RealisedFees(r) + OrZero(inventory[r].ship)])
=============================================================================
