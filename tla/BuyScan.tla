------------------------------- MODULE BuyScan -------------------------------
(***************************************************************************)
(* One scan of the buy side (src/arb/pipeline.py and what it calls): the   *)
(* venue's items become listings, each listing passes the quality gate and *)
(* the contest gate or costs no request, the rest are priced from sold     *)
(* observations, scored at est_p25 and ranked or suppressed.               *)
(*                                                                         *)
(* Text is a sequence of words, normalised already; a phrase of the        *)
(* lexicon is one word. Money is in pence. Titles that are alike enough    *)
(* (token_set_ratio) are a constant relation. The order of the ranking is  *)
(* left out: the buy list sorts again when it reads the table.             *)
(***************************************************************************)
EXTENDS FeeModel, FiniteSetsExt, Sequences

CONSTANTS
  Items,          \* what the venue's search may answer with
  Sales,          \* the sold observations there may be
  Lexicon,        \* terms that speak against a listing
  Negators,       \* words that turn such a term round
  Similar,        \* pairs of titles that score MIN_TITLE_SCORE or more
  MaxFavourites, MinFavourites,
  MaxSaveRate,    \* in hundredths
  MinComps,       \* min_comp_n
  ShipIn,         \* ship_in_pence
  MinNet,         \* min_net_pence
  AssumeDays      \* TRUE: VelocityPolicy.ASSUME_DEFAULT, FALSE: EXCLUDE

\* A listing; what the venue does not show is None. first_seen and last_seen are
\* capture that no step of a scan reads.
Listing ==
  [id : STRING, price : Price, total : Price \cup {None}, title : Seq(STRING),
   brand : STRING, size : STRING \cup {None},
   favourites : Nat \cup {None}, views : Nat \cup {None}]

\* One completed sale. `upper` is price_is_upper_bound: the price of a Best Offer
\* sale is what was asked, not what was paid.
SoldObservation ==
  [id : STRING, price : Price, title : Seq(STRING), brand : STRING,
   size : STRING \cup {None}, listed : Nat \cup {None}, sold : Nat \cup {None},
   upper : BOOLEAN]

ASSUME BuyScanAssumption ==
  /\ IsFiniteSet(Items) /\ IsFiniteSet(Sales)
  /\ \A i \in Items : i.price # None => i \in Listing
  /\ Sales \subseteq SoldObservation
  /\ MaxFavourites \in Nat /\ MinFavourites \in Nat /\ MaxSaveRate \in Nat
  /\ MinComps \in Nat \ {0}
  /\ ShipIn \in Nat /\ MinNet \in Nat
  /\ AssumeDays \in BOOLEAN
  /\ None \notin [p25 : Price, p60 : Price, timed : BOOLEAN]

-----------------------------------------------------------------------------
(* The adapter: to_listing makes nothing of what has no title or no price, *)
(* and the search leaves it out.                                           *)

Priceable(item) == item.title # <<>> /\ item.price # None

ToListings(items) == {i \in items : Priceable(i)}

-----------------------------------------------------------------------------
(* The quality gate.                                                       *)

NegationWindow == 3

Mentions(text, term) == {i \in DOMAIN text : text[i] = term}

\* One of the three words before a mention turns it round.
Negated(text, i) ==
  \E j \in DOMAIN text : i - NegationWindow <= j /\ j < i /\ text[j] \in Negators

\* pattern.search finds the first mention of a term and no other.
Assess(text) ==
  \A term \in Lexicon :
    Mentions(text, term) # {} => Negated(text, Min(Mentions(text, term)))

-----------------------------------------------------------------------------
(* The contest gate: unknown counters pass.                                *)

HighFavourites(item) == item.favourites >= MaxFavourites

HighSaveRate(item) ==
  /\ item.views # None /\ item.views > 0
  /\ item.favourites >= MinFavourites
  /\ 100 * item.favourites >= MaxSaveRate * item.views

AssessContest(item) ==
  item.favourites # None => ~HighFavourites(item) /\ ~HighSaveRate(item)

\* What run_scan asks before it pays a comps request for a listing.
Contender(item) == Assess(item.title) /\ AssessContest(item)

-----------------------------------------------------------------------------
(* Comparable sales.                                                       *)

\* query_for: the condition is left out on purpose.
QueryFor(item) == [brand |-> item.brand, size |-> item.size, title |-> item.title]

Blocks(query, sale) ==
  /\ query.brand = sale.brand
  /\ query.size # None /\ sale.size # None => query.size = sale.size

SelectComps(query, sales) ==
  {s \in sales : Blocks(query, s) /\ <<query.title, s.title>> \in Similar}

-----------------------------------------------------------------------------
(* Valuation.                                                              *)

\* The price at place k of the sales in order of price.
Nth(sales, k) ==
  CHOOSE p \in {s.price : s \in sales} :
    /\ Cardinality({s \in sales : s.price < p}) < k
    /\ k <= Cardinality({s \in sales : s.price <= p})

\* Cut i of statistics.quantiles(n = m, method = "inclusive"), times m.
Cut(sales, i, m) ==
  LET place == i * (Cardinality(sales) - 1)
      over == place % m
      below == Nth(sales, place \div m + 1)
  IN  IF over = 0 THEN below * m
      ELSE below * (m - over) + Nth(sales, place \div m + 2) * over

MinPointsToFence == 4

\* Mutant: the fences are the quartiles themselves.
AtQuartiles(sale, q1, q3) == q1 <= 4 * sale.price /\ 4 * sale.price <= q3

\* Mutant: only the upper fence is kept.
BelowUpperFence(sale, q1, q3) == 8 * sale.price <= 2 * q3 + 3 * (q3 - q1)

\* Between the Tukey fences; q1 and q3 come four times as large.
WithinFences(sale, q1, q3) ==
  /\ 2 * q1 - 3 * (q3 - q1) <= 8 * sale.price
  /\ 8 * sale.price <= 2 * q3 + 3 * (q3 - q1)

TrimOutliers(sales) ==
  IF Cardinality(sales) < MinPointsToFence THEN sales
  ELSE LET q1 == Cut(sales, 1, 4)
           q3 == Cut(sales, 3, 4)
       IN  {s \in sales : WithinFences(s, q1, q3)}

\* Python's round of x / m: to the nearest whole number, a tie to the even one.
Rounded(x, m) ==
  LET q == x \div m
      r == x % m
  IN  IF 2 * r < m \/ (2 * r = m /\ q % 2 = 0) THEN q ELSE q + 1

Percentile(sales, pct) ==
  IF Cardinality(sales) = 1 THEN Nth(sales, 1) ELSE Rounded(Cut(sales, pct, 100), 100)

Usable(sales) == {s \in sales : ~s.upper}

\* days_to_sell: known where both its ends are.
Timed(sale) == sale.listed # None /\ sale.sold # None

\* value: None below the comp floor. `timed` is whether days_to_sell_p50 is known.
Value(sales) ==
  LET kept == TrimOutliers(Usable(sales))
      p25 == Percentile(kept, 25)
  IN  IF Cardinality(kept) < MinComps THEN None
      ELSE [p25 |-> p25, p60 |-> Max({p25, Percentile(kept, 60)}),
            timed |-> \E s \in Usable(sales) : Timed(s)]

-----------------------------------------------------------------------------
(* Scoring and ranking.                                                    *)

\* `total_pence or price_pence`: a total of zero is no total.
Cost(item) == IF item.total \in {None, 0} THEN item.price ELSE item.total

Deployed(item) == Cost(item) + ShipIn

\* Mutant: scored at the optimal price.
NetAtTop(item, worth) == Proceeds(worth.p60) - Deployed(item) - ShipOut

\* score: at the fast-sale price.
Net(item, worth) == Proceeds(worth.p25) - Deployed(item) - ShipOut

Verdict(item, worth) ==
  IF ~Assess(item.title) THEN "quality"
  ELSE IF ~AssessContest(item) THEN "contest"
  ELSE IF worth = None THEN "unpriceable"
  ELSE IF Deployed(item) <= 0 THEN "anomalous_cost"
  ELSE IF Net(item, worth) < MinNet THEN "below_floor"
  ELSE IF ~(worth.timed \/ AssumeDays) THEN "unknown_velocity"
  ELSE "ranked"

\* run_scan for one listing, with what its query is answered.
Judge(item, answer) ==
  LET asked == Contender(item)
      comps == IF asked THEN SelectComps(QueryFor(item), answer) ELSE {}
      worth == IF comps = {} THEN None ELSE Value(comps)
  IN  [item |-> item, asked |-> asked, comps |-> comps, worth |-> worth,
       verdict |-> Verdict(item, worth)]

\* run_scan: a query outside `answered` met an exhausted quota and an empty cache.
RunScan(items, market, answered) ==
  {Judge(i, IF QueryFor(i) \in answered THEN market ELSE {}) : i \in ToListings(items)}

\* A query is known by its hash, which is over these fields and no others.
Queries == {QueryFor(i) : i \in Items}
=============================================================================
