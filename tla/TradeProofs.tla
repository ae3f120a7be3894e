----------------------------- MODULE TradeProofs -----------------------------
(***************************************************************************)
(* What Trade promises of any fee table, market, policy and bounds. The    *)
(* valuation is an order statistic that CHOOSE picks: the first part shows *)
(* that a percentile is a price. The rest is induction over the steps, on  *)
(* an invariant that says where the break-even search stands and what a    *)
(* listing carries over from the command that ran last.                    *)
(***************************************************************************)
EXTENDS Trade, FiniteSetTheorems, NaturalsInduction, WellFoundedInduction, TLAPS

-----------------------------------------------------------------------------
(* Arithmetic.                                                             *)

\* A non-empty set of naturals has a least element.
LEMMA LeastNatural ==
  ASSUME NEW T \in SUBSET Nat, T # {}
  PROVE  \E k \in T : \A j \in T : k <= j
  <1>. DEFINE R == OpToRel(<, Nat)
  <1>1. IsWellFoundedOn(R, Nat)
    BY NatLessThanWellFounded
  <1>2. \A x, y \in Nat : x < y => <<x, y>> \in R
    BY DEF OpToRel
  <1>. HIDE DEF R
  <1>3. PICK k \in T : \A y \in T : ~ (<<y, k>> \in R)
    BY <1>1, WFMin, Zenon
  <1>4. \A j \in T : ~ (j < k)
    BY <1>2, <1>3, Zenon
  <1>5. QED
    BY <1>4

\* A product grows with its factors.
LEMMA ProductGrows ==
  ASSUME NEW a \in Nat, NEW b \in Nat, NEW c \in Nat, a <= b
  PROVE  a * c <= b * c /\ a * c \in Nat /\ c * a <= c * b /\ c * a \in Nat
  OBVIOUS

\* A weighted mean of two prices is no dearer than the dearest price.
LEMMA WeightedMean ==
  ASSUME NEW a \in 0 .. MaxPrice, NEW b \in 0 .. MaxPrice, NEW w \in 0 .. 99
  PROVE  a * (100 - w) + b * w \in 0 .. 100 * MaxPrice
  <1>1. a \in Nat /\ b \in Nat /\ MaxPrice \in Nat /\ a <= MaxPrice /\ b <= MaxPrice
    BY FeeModelAssumption
  <1>. DEFINE v == 100 - w
  <1>2. v \in Nat /\ w \in Nat /\ v + w = 100
    OBVIOUS
  <1>. HIDE DEF v
  <1>3. a * v <= MaxPrice * v /\ a * v \in Nat /\ b * w <= MaxPrice * w /\ b * w \in Nat
    BY <1>1, <1>2, ProductGrows
  <1>4. MaxPrice * v + MaxPrice * w = MaxPrice * (v + w)
    BY <1>1, <1>2
  <1>5. MaxPrice * v \in Nat /\ MaxPrice * w \in Nat
    BY <1>1, <1>2, ProductGrows
  <1>6. MaxPrice * v + MaxPrice * w = MaxPrice * 100
    BY <1>2, <1>4
  <1>7. a * v + b * w \in 0 .. 100 * MaxPrice
    <2>. DEFINE A == a * v  B == b * w  C == MaxPrice * v  D == MaxPrice * w
    <2>1. A \in Nat /\ B \in Nat /\ C \in Nat /\ D \in Nat /\ A <= C /\ B <= D
          /\ C + D = MaxPrice * 100
      BY <1>3, <1>5, <1>6
    <2>. HIDE DEF A, B, C, D
    <2>2. A + B \in 0 .. 100 * MaxPrice
      BY <2>1, <1>1
    <2>3. QED
      BY <2>2 DEF A, B
  <1>8. QED
    BY <1>7 DEF v

\* Rounding a hundredfold price gives a price.
LEMMA RoundedIsPrice ==
  ASSUME NEW x \in 0 .. 100 * MaxPrice
  PROVE  Rounded(x, 100) \in Price
  <1>1. MaxPrice \in Nat
    BY FeeModelAssumption
  <1>2. x \div 100 \in 0 .. MaxPrice
        /\ (2 * (x % 100) >= 100 => x \div 100 + 1 <= MaxPrice)
    BY <1>1
  <1>3. QED
    BY <1>1, <1>2 DEF Rounded, Price

-----------------------------------------------------------------------------
(* Percentiles.                                                            *)

\* There is a price at every place of a finite set of sales, and Nth is one.
LEMMA NthIsPrice ==
  ASSUME NEW sales \in SUBSET Sales, NEW k \in 1 .. Cardinality(sales)
  PROVE  /\ Nth(sales, k) \in Price
         /\ Cardinality({s \in sales : s.price < Nth(sales, k)}) < k
         /\ k <= Cardinality({s \in sales : s.price <= Nth(sales, k)})
  <1>. DEFINE UpTo(p) == {s \in sales : s.price <= p}
              Below(p) == {s \in sales : s.price < p}
              Enough == {p \in Nat : k <= Cardinality(UpTo(p))}
              IsNth(p) == Cardinality(Below(p)) < k /\ k <= Cardinality(UpTo(p))
  <1>1. IsFiniteSet(sales) /\ Cardinality(sales) \in Nat
        /\ \A s \in sales : s.price \in Price
    BY BuyScanAssumption, FS_Subset, FS_CardinalityType DEF SoldObservation
  <1>2. \A p : IsFiniteSet(UpTo(p)) /\ Cardinality(UpTo(p)) \in Nat
               /\ IsFiniteSet(Below(p)) /\ Cardinality(Below(p)) \in Nat
    <2>1. \A p : UpTo(p) \in SUBSET sales /\ Below(p) \in SUBSET sales
      OBVIOUS
    <2>. HIDE DEF UpTo, Below
    <2>2. QED
      BY <1>1, <2>1, FS_Subset, FS_CardinalityType
  <1>3. MaxPrice \in Enough
    <2>1. UpTo(MaxPrice) = sales /\ MaxPrice \in Nat
      BY <1>1, FeeModelAssumption DEF Price
    <2>2. QED
      BY <2>1
  <1>4. PICK p \in Enough : \A q \in Enough : p <= q
    <2>1. Enough \in SUBSET Nat /\ Enough # {}
      BY <1>3
    <2>. HIDE DEF Enough
    <2>2. QED
      BY <2>1, LeastNatural
  <1>5. Cardinality(Below(p)) < k
    <2>1. CASE p = 0
      <3>1. Below(p) = {}
        BY <1>1, <2>1 DEF Price
      <3>2. QED
        BY <3>1, FS_EmptySet
    <2>2. CASE p # 0
      <3>1. p - 1 \in Nat /\ p - 1 < p
        BY <1>4, <2>2
      <3>2. UpTo(p - 1) = Below(p)
        BY <1>1, <1>4, <3>1 DEF Price
      <3>3. p - 1 \notin Enough
        BY <1>4, <3>1
      <3>4. ~(k <= Cardinality(UpTo(p - 1)))
        BY <3>1, <3>3
      <3>. HIDE DEF UpTo, Below
      <3>5. QED
        BY <1>2, <3>2, <3>4
    <2>3. QED
      BY <2>1, <2>2
  <1>6. IsNth(p)
    BY <1>4, <1>5
  <1>7. p \in {s.price : s \in sales}
    <2>1. Below(p) # UpTo(p)
      <3>. HIDE DEF UpTo, Below
      <3>1. QED
        BY <1>2, <1>6
    <2>2. PICK s \in UpTo(p) : s \notin Below(p)
      <3>1. Below(p) \subseteq UpTo(p)
        BY <1>1, <1>4 DEF Price
      <3>2. QED
        BY <2>1, <3>1
    <2>3. s.price = p
      BY <1>1, <1>4, <2>2 DEF Price
    <2>4. QED
      BY <2>2, <2>3
  <1>8. Nth(sales, k) = CHOOSE q \in {s.price : s \in sales} : IsNth(q)
    BY DEF Nth
  <1>9. Nth(sales, k) \in {s.price : s \in sales} /\ IsNth(Nth(sales, k))
    <2>. HIDE DEF IsNth
    <2>1. QED
      BY <1>6, <1>7, <1>8
  <1>10. QED
    BY <1>1, <1>9

\* A percentile of at least one sale is a price.
LEMMA PercentileIsPrice ==
  ASSUME NEW sales \in SUBSET Sales, Cardinality(sales) >= 1, NEW pct \in {25, 60}
  PROVE  Percentile(sales, pct) \in Price
  <1>. DEFINE n == Cardinality(sales)
              place == pct * (n - 1)
              over == place % 100
              k == place \div 100 + 1
  <1>1. n \in Nat /\ n >= 1
    BY BuyScanAssumption, FS_Subset, FS_CardinalityType
  <1>2. Nth(sales, 1) \in Price
    <2>1. 1 \in 1 .. Cardinality(sales)
      BY <1>1
    <2>2. QED
      BY <2>1, NthIsPrice
  <1>3. CASE n = 1
    BY <1>2, <1>3 DEF Percentile
  <1>4. CASE n # 1
    <2>. HIDE DEF n
    <2>1. place \in Nat /\ over \in 0 .. 99 /\ k \in 1 .. n /\ (over # 0 => k + 1 \in 1 .. n)
      BY <1>1, <1>4
    <2>2. Nth(sales, k) \in Price /\ (over # 0 => Nth(sales, k + 1) \in Price)
      BY <2>1, NthIsPrice DEF n
    <2>3. Cut(sales, pct, 100) = IF over = 0 THEN Nth(sales, k) * 100
            ELSE Nth(sales, k) * (100 - over) + Nth(sales, place \div 100 + 2) * over
      BY DEF Cut, n
    <2>4. place \div 100 + 2 = k + 1
      BY <2>1
    <2>5. Cut(sales, pct, 100) \in 0 .. 100 * MaxPrice
      <3>. HIDE DEF place, over, k
      <3>1. CASE over = 0
        BY <2>2, <2>3, <3>1, FeeModelAssumption DEF Price
      <3>2. CASE over # 0
        <4>1. Nth(sales, k) \in 0 .. MaxPrice /\ Nth(sales, k + 1) \in 0 .. MaxPrice
          BY <2>2, <3>2 DEF Price
        <4>2. Cut(sales, pct, 100) = Nth(sales, k) * (100 - over) + Nth(sales, k + 1) * over
          BY <2>3, <2>4, <3>2
        <4>3. over \in 0 .. 99
          BY <2>1
        <4>4. ASSUME NEW a \in 0 .. MaxPrice, NEW b \in 0 .. MaxPrice
              PROVE  a * (100 - over) + b * over \in 0 .. 100 * MaxPrice
          BY <4>3, WeightedMean
        <4>5. QED
          <5>1. Nth(sales, k) * (100 - over) + Nth(sales, k + 1) * over \in 0 .. 100 * MaxPrice
            BY <4>1, <4>4
          <5>2. QED
            BY <4>2, <5>1, Zenon
      <3>3. QED
        BY <3>1, <3>2
    <2>6. QED
      BY <1>4, <2>5, RoundedIsPrice DEF Percentile, n
  <1>5. QED
    BY <1>3, <1>4

\* The greater of two numbers.
LEMMA MaxOfTwo ==
  ASSUME NEW a \in Int, NEW b \in Int
  PROVE  Max({a, b}) \in {a, b} /\ Max({a, b}) >= a
  <1>1. \E x \in {a, b} : \A y \in {a, b} : x >= y
    <2>1. CASE a >= b
      BY <2>1
    <2>2. CASE b >= a
      BY <2>2
    <2>3. QED
      BY <2>1, <2>2
  <1>2. QED
    BY <1>1 DEF Max

\* What value() makes of sold observations is a valuation, or nothing.
LEMMA ValueIsValued ==
  ASSUME NEW sales \in SUBSET Sales, Value(sales) # None
  PROVE  /\ Value(sales).p25 \in Price /\ Value(sales).p60 \in Price
         /\ Value(sales).p25 <= Value(sales).p60
  <1>. DEFINE kept == TrimOutliers(Usable(sales))
              low == Percentile(kept, 25)
              top == Percentile(kept, 60)
  <1>1. kept \in SUBSET Sales
    BY DEF TrimOutliers, Usable
  <1>2. ~(Cardinality(kept) < MinComps)
    BY DEF Value
  <1>3. Cardinality(kept) \in Nat
    BY <1>1, BuyScanAssumption, FS_Subset, FS_CardinalityType
  <1>4. low \in Price /\ top \in Price
    <2>. HIDE DEF kept
    <2>1. Cardinality(kept) >= 1
      BY <1>2, <1>3, BuyScanAssumption
    <2>2. QED
      BY <1>1, <2>1, PercentileIsPrice
  <1>5. Value(sales) = [p25 |-> low, p60 |-> Max({low, top}),
                        timed |-> \E s \in Usable(sales) : Timed(s)]
    BY <1>2 DEF Value
  <1>. HIDE DEF kept, low, top
  <1>6. Max({low, top}) \in Price /\ low <= Max({low, top})
    BY <1>4, MaxOfTwo DEF Price
  <1>7. QED
    BY <1>4, <1>5, <1>6

-----------------------------------------------------------------------------
(* The scan and the buy list.                                              *)

\* What a scan writes is a valued listing that costs something and nets at least
\* the floor.
LEMMA WrittenIsSound ==
  ASSUME NEW items \in SUBSET Items, NEW market \in SUBSET Sales,
         NEW answered \in SUBSET Queries, NEW o \in Written(RunScan(items, market, answered))
  PROVE  /\ o \in Opportunity
         /\ Deployed(o.item) \in Int /\ Deployed(o.item) > 0
         /\ o.net = Net(o.item, o.worth) /\ o.net >= MinNet
  <1>1. PICK i \in ToListings(items) :
          LET j == Judge(i, IF QueryFor(i) \in answered THEN market ELSE {}) IN
          /\ j.verdict = "ranked"
          /\ o = [item |-> j.item, worth |-> [p25 |-> j.worth.p25, p60 |-> j.worth.p60],
                  net |-> Net(j.item, j.worth)]
    BY DEF Written, RunScan
  <1>. DEFINE answer == IF QueryFor(i) \in answered THEN market ELSE {}
              j == Judge(i, answer)
              comps == SelectComps(QueryFor(i), answer)
  <1>2. j.verdict = "ranked" /\ j.item = i /\ j.verdict = Verdict(i, j.worth)
    BY <1>1 DEF Judge
  <1>3. j.worth # None /\ ~(Deployed(i) <= 0) /\ ~(Net(i, j.worth) < MinNet)
    <2>. HIDE DEF j
    <2>1. QED
      BY <1>2 DEF Verdict
  <1>4. j.worth = Value(comps) /\ comps \in SUBSET Sales
    <2>1. comps \in SUBSET Sales
      BY DEF SelectComps
    <2>2. QED
      BY <1>3, <2>1 DEF Judge
  <1>5. /\ j.worth.p25 \in Price /\ j.worth.p60 \in Price
        /\ j.worth.p25 <= j.worth.p60
    <2>. HIDE DEF comps, j
    <2>1. QED
      BY <1>3, <1>4, ValueIsValued
  <1>6. i \in Listing
    BY BuyScanAssumption DEF ToListings, Priceable
  <1>7. Deployed(i) \in Int
    BY <1>6, BuyScanAssumption, FeeModelAssumption DEF Deployed, Cost, Listing, Price
  <1>8. o.item = i /\ o.worth = [p25 |-> j.worth.p25, p60 |-> j.worth.p60]
        /\ o.net = Net(i, j.worth)
    BY <1>1, <1>2
  <1>. HIDE DEF j
  <1>9. Net(i, j.worth) = Net(i, o.worth)
    BY <1>8 DEF Net
  <1>10. Net(i, j.worth) \in Int
    BY <1>5, <1>7, FeeModelAssumption DEF Net, Proceeds, Price
  <1>11. o.worth \in Valued
    BY <1>5, <1>8 DEF Valued
  <1>12. o \in [item : Listing, worth : Valued, net : Int]
    BY <1>1, <1>6, <1>8, <1>10, <1>11 DEF j
  <1>13. QED
    BY <1>3, <1>7, <1>8, <1>9, <1>10, <1>12, BuyScanAssumption DEF Opportunity

-----------------------------------------------------------------------------
(* The inductive invariant.                                                *)

\* What is on the buy list was scored, and above the floor.
ListIsSound ==
  \A o \in opportunities :
    /\ o \in Opportunity
    /\ Deployed(o.item) \in Int /\ Deployed(o.item) > 0
    /\ o.net = Net(o.item, o.worth) /\ o.net >= MinNet

\* The search runs for the item in hand, and its interval always holds a price that
\* clears and, below it, one that does not.
SearchIsSound ==
  /\ search.step # "idle" => Unsold /\ search.outlay = Outlay(stock)
  /\ search.step = "widen" => search.low = 0
  /\ search.step \in {"halve", "found"} =>
       /\ search.low <= search.high /\ Clears(search.high, search.outlay)
       /\ search.low > 0 => ~Clears(search.low - 1, search.outlay)
  /\ search.step = "found" => search.low = search.high

\* The last command's break-even clears, and no threshold undercuts it.
StockIsSound ==
  stock # None =>
    /\ stock.worth.p25 <= stock.ask
    /\ stock.breakEven # None =>
         /\ Clears(stock.breakEven, Outlay(stock))
         /\ stock.accept # None => stock.breakEven <= stock.accept
         /\ stock.unattended => stock.breakEven <= stock.paid
    /\ stock.unattended => stock.paid # None

SellTypeOK == stock \in Item \cup {None} /\ search \in Search

IInv == SellTypeOK /\ ListIsSound /\ SearchIsSound /\ StockIsSound

\* Stated of constants, for a chain of prices that are fields of a record.
LEMMA LeqIsTransitive ==
  ASSUME NEW a \in Int, NEW b \in Int, NEW c \in Int, a <= b, b <= c
  PROVE  a <= c
  OBVIOUS

\* Every sum of the sell side is an integer.
LEMMA SellNumbers ==
  /\ \A p \in Price : p \in Nat /\ p <= MaxPrice /\ Fees[p] \in Nat /\ Proceeds(p) \in Int
  /\ None \notin Int /\ MaxPrice \in Nat /\ ShipOut \in Nat
  BY FeeModelAssumption DEF Price, Proceeds

\* The concession takes nothing below zero and nothing above the ask.
LEMMA ConcessionIsPart ==
  ASSUME NEW ask \in Nat
  PROVE  (ask * Concession) \div 100 \in 0 .. ask
  <1>1. Concession \in Nat /\ Concession <= 100
    BY RepricingAssumption
  <1>2. ask * Concession <= ask * 100 /\ ask * Concession \in Nat
    BY <1>1, ProductGrows
  <1>. DEFINE x == ask * Concession
  <1>3. x \in Nat /\ x <= ask * 100
    BY <1>2
  <1>. HIDE DEF x
  <1>4. x \div 100 \in 0 .. ask
    BY <1>3
  <1>5. QED
    BY <1>4 DEF x

\* The threshold of an offer lies between break-even and the ask, if there is one.
LEMMA ThresholdHolds ==
  ASSUME NEW ask \in Price, NEW breakEven \in Price \cup {None},
         AutoAccept(ask, breakEven) # None
  PROVE  /\ AutoAccept(ask, breakEven) \in Price /\ AutoAccept(ask, breakEven) <= ask
         /\ breakEven # None => breakEven <= AutoAccept(ask, breakEven)
  <1>. DEFINE cut == (ask * Concession) \div 100
              floor == IF breakEven = None THEN ask ELSE breakEven
              accept == Greatest(ask - cut, floor)
  <1>1. cut \in 0 .. ask /\ ask \in Nat /\ ask <= MaxPrice /\ MaxPrice \in Nat
    BY SellNumbers, ConcessionIsPart
  <1>2. AutoAccept(ask, breakEven) = IF accept > ask THEN None ELSE accept
    BY DEF AutoAccept
  <1>3. floor \in Nat /\ (breakEven # None => floor = breakEven)
    BY SellNumbers, <1>1
  <1>. HIDE DEF cut, floor
  <1>4. accept \in Nat /\ accept >= floor
    BY <1>1, <1>3 DEF Greatest
  <1>. HIDE DEF accept
  <1>5. ~(accept > ask) /\ AutoAccept(ask, breakEven) = accept
    BY <1>2
  <1>6. QED
    BY <1>1, <1>3, <1>4, <1>5 DEF Price

-----------------------------------------------------------------------------
(* The steps of the search.                                                *)

\* Fields of a search that is under way.
LEMMA SearchFields ==
  ASSUME SellTypeOK
  PROVE  /\ search.step \in Steps /\ search.outlay \in Nat
         /\ search.low \in Price /\ search.high \in Price /\ search.tries \in 0 .. MaxTries
         /\ search = [step |-> search.step, outlay |-> search.outlay, low |-> search.low,
                      high |-> search.high, tries |-> search.tries]
  BY DEF SellTypeOK, Search

\* The command begins with the whole interval.
LEMMA BeginsKeeps ==
  ASSUME IInv, RepriceBegins
  PROVE  SellTypeOK' /\ SearchIsSound' /\ StockIsSound'
  <1>. DEFINE outlay == Outlay(stock)
              high == Greatest(4 * outlay, SearchFrom)
  <1>1. /\ stock' = stock /\ stock # None /\ stock.paid = None /\ high <= MaxPrice
        /\ search' = [step |-> "widen", outlay |-> outlay, low |-> 0, high |-> high, tries |-> 0]
    BY DEF RepriceBegins, Unsold
  <1>2. outlay \in Nat
    BY <1>1, SellNumbers DEF IInv, SellTypeOK, Item, Outlay
  <1>. HIDE DEF outlay
  <1>3. high \in Nat
    BY <1>2, RepricingAssumption DEF Greatest
  <1>. HIDE DEF high
  <1>4. search' \in Search
    BY <1>1, <1>2, <1>3, SellNumbers, RepricingAssumption DEF Search, Steps, Price
  <1>5. search'.step = "widen" /\ search'.low = 0 /\ search'.outlay = outlay
    BY <1>1
  <1>6. SearchIsSound'
    BY <1>1, <1>5 DEF SearchIsSound, Unsold, Outlay, outlay
  <1>7. QED
    BY <1>1, <1>4, <1>6 DEF IInv, SellTypeOK, StockIsSound, Outlay

\* Each step of the search keeps a price that clears above one that does not.
LEMMA SearchingKeeps ==
  ASSUME IInv, Searching
  PROVE  SellTypeOK' /\ SearchIsSound' /\ StockIsSound'
  <1>. USE DEF IInv
  <1>1. stock' = stock
    BY DEF Searching, Widen, GiveUp, WideEnough, Halve, Meet
  <1>2. search.step # "idle" /\ Unsold /\ search.outlay = Outlay(stock)
    BY DEF Searching, Widen, GiveUp, WideEnough, Halve, Meet, SearchIsSound
  <1>3. StockIsSound' /\ Unsold' /\ (Outlay(stock))' = Outlay(stock)
    BY <1>1, <1>2 DEF StockIsSound, Unsold, Outlay
  <1>4. CASE Widen
    <2>1. 2 * search.high \in Price /\ search.tries + 1 \in 0 .. MaxTries
      BY <1>4, SearchFields, SellNumbers, RepricingAssumption DEF Widen, Price
    <2>2. search' = [search EXCEPT !.high = 2 * search.high, !.tries = search.tries + 1]
          /\ search.step = "widen"
      BY <1>4 DEF Widen
    <2>3. search' \in Search
      BY <2>1, <2>2 DEF SellTypeOK, Search
    <2>4. search'.step = "widen" /\ search'.low = search.low /\ search'.outlay = search.outlay
      BY <2>2 DEF SellTypeOK, Search
    <2>5. SearchIsSound'
      BY <1>2, <1>3, <2>2, <2>4 DEF SearchIsSound
    <2>6. QED
      BY <1>1, <1>3, <2>3, <2>5 DEF SellTypeOK
  <1>5. CASE GiveUp
    <2>1. search' = [search EXCEPT !.step = "none"]
      BY <1>5 DEF GiveUp
    <2>2. search' \in Search
      BY <2>1 DEF SellTypeOK, Search, Steps
    <2>3. search'.step = "none" /\ search'.outlay = search.outlay
      BY <2>1 DEF SellTypeOK, Search
    <2>4. SearchIsSound'
      BY <1>2, <1>3, <2>3 DEF SearchIsSound
    <2>5. QED
      BY <1>1, <1>3, <2>2, <2>4 DEF SellTypeOK
  <1>6. CASE WideEnough
    <2>1. search' = [search EXCEPT !.step = "halve"] /\ search.step = "widen"
          /\ Clears(search.high, search.outlay)
      BY <1>6 DEF WideEnough
    <2>2. search' \in Search
      BY <2>1 DEF SellTypeOK, Search, Steps
    <2>3. search'.step = "halve" /\ search'.outlay = search.outlay /\ search'.low = 0
          /\ search'.high = search.high
      BY <2>1 DEF SellTypeOK, Search, SearchIsSound
    <2>4. 0 <= search.high
      BY SearchFields, SellNumbers
    <2>5. SearchIsSound'
      BY <1>2, <1>3, <2>1, <2>3, <2>4 DEF SearchIsSound, Clears
    <2>6. QED
      BY <1>1, <1>3, <2>2, <2>5 DEF SellTypeOK
  <1>7. CASE Halve
    <2>. DEFINE mid == (search.low + search.high) \div 2
    <2>1. /\ search.step = "halve"
          /\ search' = IF Clears(mid, search.outlay) THEN [search EXCEPT !.high = mid]
                       ELSE [search EXCEPT !.low = mid + 1]
      BY <1>7 DEF Halve, AboveMiddle
    <2>2. search.low < search.high
      BY <1>7 DEF Halve
    <2>3. mid \in Price /\ search.low <= mid /\ mid + 1 \in Price /\ mid + 1 <= search.high
          /\ mid + 1 > 0 /\ (mid + 1) - 1 = mid
      BY <2>2, SearchFields, SellNumbers DEF Price
    <2>4. /\ search.low <= search.high /\ Clears(search.high, search.outlay)
          /\ search.low > 0 => ~Clears(search.low - 1, search.outlay)
      BY <2>1 DEF SearchIsSound
    <2>. HIDE DEF mid
    <2>5. CASE Clears(mid, search.outlay)
      <3>1. search' = [search EXCEPT !.high = mid]
        BY <2>1, <2>5
      <3>2. search' \in Search
        BY <2>3, <3>1 DEF SellTypeOK, Search
      <3>3. search'.step = "halve" /\ search'.outlay = search.outlay
            /\ search'.low = search.low /\ search'.high = mid
        BY <2>1, <3>1 DEF SellTypeOK, Search
      <3>4. SearchIsSound'
        BY <1>2, <1>3, <2>3, <2>4, <2>5, <3>3 DEF SearchIsSound, Clears
      <3>5. QED
        BY <1>1, <1>3, <3>2, <3>4 DEF SellTypeOK
    <2>6. CASE ~Clears(mid, search.outlay)
      <3>1. search' = [search EXCEPT !.low = mid + 1]
        BY <2>1, <2>6
      <3>2. search' \in Search
        BY <2>3, <3>1 DEF SellTypeOK, Search
      <3>3. search'.step = "halve" /\ search'.outlay = search.outlay
            /\ search'.low = mid + 1 /\ search'.high = search.high
        BY <2>1, <3>1 DEF SellTypeOK, Search
      <3>4. SearchIsSound'
        BY <1>2, <1>3, <2>3, <2>4, <2>6, <3>3 DEF SearchIsSound, Clears
      <3>5. QED
        BY <1>1, <1>3, <3>2, <3>4 DEF SellTypeOK
    <2>7. QED
      BY <2>5, <2>6
  <1>8. CASE Meet
    <2>1. search' = [search EXCEPT !.step = "found"] /\ search.step = "halve"
          /\ search.low >= search.high
      BY <1>8 DEF Meet
    <2>2. search.low <= search.high /\ Clears(search.high, search.outlay)
          /\ (search.low > 0 => ~Clears(search.low - 1, search.outlay))
      BY <2>1 DEF SearchIsSound
    <2>3. search.low = search.high
      BY <2>1, <2>2, SearchFields, SellNumbers
    <2>4. search' \in Search
      BY <2>1 DEF SellTypeOK, Search, Steps
    <2>5. search'.step = "found" /\ search'.outlay = search.outlay
          /\ search'.low = search.low /\ search'.high = search.high
      BY <2>1 DEF SellTypeOK, Search
    <2>6. SearchIsSound'
      BY <1>2, <1>3, <2>2, <2>3, <2>5 DEF SearchIsSound, Clears
    <2>7. QED
      BY <1>1, <1>3, <2>4, <2>6 DEF SellTypeOK
  <1>9. QED
    BY <1>4, <1>5, <1>6, <1>7, <1>8 DEF Searching

-----------------------------------------------------------------------------
(* The steps of the listing.                                               *)

\* Whatever is asked lies in the band.
LEMMA AsksAreInBand ==
  ASSUME NEW worth \in Valued, NEW day \in Nat, NEW target \in Asks(worth, day)
  PROVE  target \in Price /\ worth.p25 <= target /\ target <= worth.p60
  <1>1. worth.p25 \in Nat /\ worth.p60 \in Nat /\ worth.p25 <= worth.p60
        /\ worth.p60 <= MaxPrice /\ MaxPrice \in Nat
    BY SellNumbers DEF Valued
  <1>2. target = worth.p25
          \/ \E r \in 0 .. worth.p60 - worth.p25 : target = Greatest(worth.p25, worth.p60 - r)
    BY DEF Asks, Nearest
  <1>3. target \in Nat /\ worth.p25 <= target /\ target <= worth.p60
    BY <1>1, <1>2 DEF Greatest
  <1>4. QED
    BY <1>1, <1>3 DEF Price

\* Fields of the item in hand.
LEMMA StockFields ==
  ASSUME SellTypeOK, stock # None
  PROVE  /\ stock \in Item
         /\ stock.cost \in Nat /\ stock.scored \in BOOLEAN /\ stock.worth \in Valued
         /\ stock.day \in 0 .. MaxDays /\ stock.ask \in Price
         /\ stock.breakEven \in Price \cup {None} /\ stock.accept \in Price \cup {None}
         /\ stock.paid \in Price \cup {None} /\ stock.unattended \in BOOLEAN
         /\ stock.worth.p25 \in Price /\ stock.worth.p60 \in Price
         /\ stock.worth.p25 <= stock.worth.p60
  BY DEF SellTypeOK, Item, Valued

\* The command ends: a suggested ask, and thresholds that cover the break-even.
LEMMA RepriceKeeps ==
  ASSUME IInv, RepriceListing
  PROVE  /\ SellTypeOK' /\ SearchIsSound' /\ StockIsSound'
         /\ stock' \in Item /\ stock'.worth.p25 <= stock'.ask
  <1>. USE DEF IInv
  <1>1. PICK target \in Asks(stock.worth, stock.day) :
          stock' = [stock EXCEPT
            !.ask = IF WorthMoving(target, stock.ask) THEN target ELSE stock.ask,
            !.breakEven = BreakEven,
            !.accept = AutoAccept(IF WorthMoving(target, stock.ask) THEN target
                                                                    ELSE stock.ask, BreakEven),
            !.decline = AutoDecline(IF WorthMoving(target, stock.ask) THEN target
                                                                      ELSE stock.ask, stock.worth),
            !.flagged = BelowBreakEven(IF WorthMoving(target, stock.ask) THEN target
                                                                         ELSE stock.ask, BreakEven)]
    BY DEF RepriceListing
  <1>. DEFINE ask == IF WorthMoving(target, stock.ask) THEN target ELSE stock.ask
              accept == AutoAccept(ask, BreakEven)
              decline == AutoDecline(ask, stock.worth)
              flagged == BelowBreakEven(ask, BreakEven)
  <1>2. search' = Idle /\ search.step \in {"found", "none"}
    BY DEF RepriceListing
  <1>3. stock # None /\ stock.paid = None /\ search.outlay = Outlay(stock)
    BY <1>2 DEF SearchIsSound, Unsold
  <1>4. stock.day \in Nat
    BY <1>3, StockFields, RepricingAssumption
  <1>5. ask \in Price /\ stock.worth.p25 <= ask
    BY <1>3, <1>4, StockFields, AsksAreInBand DEF StockIsSound
  <1>6. BreakEven \in Price \cup {None} /\ (BreakEven # None => Clears(BreakEven, Outlay(stock)))
    BY <1>3, SearchFields DEF BreakEven, SearchIsSound
  <1>7. stock' = [stock EXCEPT !.ask = ask, !.breakEven = BreakEven, !.accept = accept,
                               !.decline = decline, !.flagged = flagged]
    BY <1>1
  <1>. HIDE DEF ask
  <1>8. accept \in Price \cup {None} /\ (accept # None /\ BreakEven # None => BreakEven <= accept)
    BY <1>5, <1>6, ThresholdHolds
  <1>9. decline \in Price \cup {-1, None}
    <2>1. stock.worth.p25 \in Price
      BY <1>3, StockFields
    <2>2. QED
      BY <1>5, <2>1, SellNumbers DEF AutoDecline, Least, Price
  <1>10. flagged \in BOOLEAN
    BY DEF BelowBreakEven
  <1>. HIDE DEF accept, decline, flagged
  <1>11. stock' \in Item
    BY <1>3, <1>5, <1>6, <1>7, <1>8, <1>9, <1>10, StockFields DEF Item
  <1>12. /\ stock'.ask = ask /\ stock'.breakEven = BreakEven /\ stock'.accept = accept
         /\ stock'.worth = stock.worth /\ stock'.cost = stock.cost
         /\ stock'.unattended = stock.unattended /\ stock'.paid = stock.paid
    BY <1>3, <1>7, StockFields DEF Item
  <1>13. stock.unattended = FALSE
    BY <1>3, StockFields DEF StockIsSound
  <1>14. SearchIsSound'
    BY <1>2 DEF SearchIsSound, Idle
  <1>15. StockIsSound'
    BY <1>5, <1>6, <1>8, <1>12, <1>13 DEF StockIsSound, Outlay
  <1>16. Idle \in Search
    BY SellNumbers, RepricingAssumption DEF Idle, Search, Steps, Price
  <1>17. QED
    BY <1>2, <1>5, <1>11, <1>12, <1>14, <1>15, <1>16 DEF SellTypeOK

\* An item is listed at the top of its band; nothing is known of its break-even.
LEMMA ListKeeps ==
  ASSUME IInv, NEW cost \in Nat, NEW scored \in BOOLEAN, NEW worth \in Valued,
         List(cost, scored, worth)
  PROVE  SellTypeOK' /\ SearchIsSound' /\ StockIsSound'
  <1>. USE DEF IInv
  <1>1. /\ stock = None /\ search' = search
        /\ stock' = [cost |-> cost, scored |-> scored, worth |-> worth, day |-> 0,
                     ask |-> worth.p60, breakEven |-> None, accept |-> None,
                     decline |-> None, flagged |-> FALSE, paid |-> None,
                     unattended |-> FALSE]
    BY DEF List
  <1>2. worth.p25 \in Price /\ worth.p60 \in Price /\ worth.p25 <= worth.p60
    BY DEF Valued
  <1>3. stock' \in Item
    BY <1>1, <1>2, RepricingAssumption DEF Item
  <1>4. search.step = "idle"
    BY <1>1 DEF SearchIsSound, Unsold
  <1>5. SearchIsSound'
    BY <1>1, <1>4 DEF SearchIsSound
  <1>6. StockIsSound'
    BY <1>1, <1>2 DEF StockIsSound
  <1>7. QED
    BY <1>1, <1>3, <1>5, <1>6 DEF SellTypeOK

\* Days and sales change no threshold; a sale pays the ask, or an offer that met it.
LEMMA MarketKeeps ==
  ASSUME IInv, DayPasses \/ BuyNow \/ OfferAccepted \/ Ship
  PROVE  SellTypeOK' /\ SearchIsSound' /\ StockIsSound'
  <1>. USE DEF IInv
  <1>1. search' = search /\ stock # None
    BY DEF DayPasses, BuyNow, OfferAccepted, Ship, Unsold
  <1>2. search.step = "idle"
    BY DEF DayPasses, BuyNow, OfferAccepted, Ship, SearchIsSound, Unsold
  <1>3. SearchIsSound'
    BY <1>1, <1>2 DEF SearchIsSound
  <1>4. CASE DayPasses
    <2>1. stock' = [stock EXCEPT !.day = stock.day + 1] /\ stock.day + 1 \in 0 .. MaxDays
      BY <1>1, <1>4, StockFields, RepricingAssumption DEF DayPasses
    <2>2. stock' \in Item
      BY <1>1, <2>1, StockFields DEF Item
    <2>3. /\ stock'.ask = stock.ask /\ stock'.worth = stock.worth /\ stock'.cost = stock.cost
          /\ stock'.breakEven = stock.breakEven /\ stock'.accept = stock.accept
          /\ stock'.paid = stock.paid /\ stock'.unattended = stock.unattended
      BY <1>1, <2>1, StockFields DEF Item
    <2>4. StockIsSound'
      BY <1>1, <2>3 DEF StockIsSound, Outlay
    <2>5. QED
      BY <1>1, <1>3, <2>2, <2>4 DEF SellTypeOK
  <1>5. CASE BuyNow
    <2>1. stock' = [stock EXCEPT !.paid = stock.ask] /\ stock.paid = None
      BY <1>5 DEF BuyNow, Unsold
    <2>2. stock' \in Item
      BY <1>1, <2>1, StockFields DEF Item
    <2>3. /\ stock'.ask = stock.ask /\ stock'.worth = stock.worth /\ stock'.cost = stock.cost
          /\ stock'.breakEven = stock.breakEven /\ stock'.accept = stock.accept
          /\ stock'.unattended = stock.unattended
      BY <1>1, <2>1, StockFields DEF Item
    <2>4. stock.unattended = FALSE
      BY <1>1, <2>1, StockFields DEF StockIsSound
    <2>5. StockIsSound'
      BY <1>1, <2>3, <2>4 DEF StockIsSound, Outlay
    <2>6. QED
      BY <1>1, <1>3, <2>2, <2>5 DEF SellTypeOK
  <1>6. CASE OfferAccepted
    <2>1. PICK offer \in stock.accept .. stock.ask :
            stock' = [stock EXCEPT !.paid = offer, !.unattended = TRUE]
      BY <1>6 DEF OfferAccepted
    <2>2. stock.accept \in Price
      BY <1>1, <1>6, StockFields DEF OfferAccepted
    <2>3. stock.ask \in Price
      BY <1>1, StockFields
    <2>4. offer \in Price /\ stock.accept <= offer
      BY <2>2, <2>3, SellNumbers DEF Price
    <2>5. stock' \in Item
      BY <1>1, <2>1, <2>4, StockFields DEF Item
    <2>6. /\ stock'.ask = stock.ask /\ stock'.worth = stock.worth /\ stock'.cost = stock.cost
          /\ stock'.breakEven = stock.breakEven /\ stock'.accept = stock.accept
          /\ stock'.paid = offer
      BY <1>1, <2>1, StockFields DEF Item
    <2>7. offer # None
      BY <2>4, SellNumbers
    <2>8. stock.breakEven # None => stock.breakEven <= offer
      <3>1. ASSUME stock.breakEven # None PROVE stock.breakEven <= offer
        <4>1. stock.breakEven <= stock.accept
          BY <1>1, <2>2, <3>1, SellNumbers DEF StockIsSound
        <4>2. stock.breakEven \in Price
          BY <1>1, <3>1, StockFields
        <4>3. ASSUME NEW p \in Price PROVE p \in Int
          BY SellNumbers
        <4>4. stock.breakEven \in Int
          BY <4>2, <4>3, Zenon
        <4>5. stock.accept \in Int
          BY <2>2, <4>3, Zenon
        <4>6. offer \in Int
          BY <2>4, <4>3, Zenon
        <4>7. stock.accept <= offer
          BY <2>4, Zenon
        <4>8. QED
          BY <4>1, <4>4, <4>5, <4>6, <4>7, LeqIsTransitive, Zenon
      <3>2. QED
        BY <3>1
    <2>9. StockIsSound'
      BY <1>1, <2>6, <2>7, <2>8 DEF StockIsSound, Outlay
    <2>10. QED
      BY <1>1, <1>3, <2>5, <2>9 DEF SellTypeOK
  <1>7. CASE Ship
    <2>1. stock' = None
      BY <1>7 DEF Ship
    <2>2. QED
      BY <1>1, <1>3, <2>1 DEF SellTypeOK, StockIsSound
  <1>8. QED
    BY <1>4, <1>5, <1>6, <1>7

-----------------------------------------------------------------------------
(* Theorems.                                                               *)

LEMMA InitHolds ==
  ASSUME Init PROVE IInv
  <1>1. Idle \in Search
    BY SellNumbers, RepricingAssumption DEF Idle, Search, Steps, Price
  <1>2. QED
    BY <1>1 DEF Init, SellInit, IInv, SellTypeOK, ListIsSound, SearchIsSound, StockIsSound, Idle

LEMMA StepHolds ==
  ASSUME IInv, [Next]_vars PROVE IInv'
  <1>. USE DEF IInv
  <1>1. CASE Scan
    <2>1. PICK items \in SUBSET Items, market \in SUBSET Sales, answered \in SUBSET Queries :
            judged' = RunScan(items, market, answered)
      BY <1>1 DEF Scan
    <2>2. opportunities' = opportunities \cup Written(RunScan(items, market, answered))
      BY <1>1, <2>1 DEF Scan
    <2>3. ListIsSound'
      BY <2>2, WrittenIsSound DEF ListIsSound
    <2>4. stock' = stock /\ search' = search
      BY <1>1 DEF Scan, sellVars
    <2>5. QED
      BY <2>3, <2>4 DEF SellTypeOK, SearchIsSound, StockIsSound, Unsold, Outlay
  <1>2. CASE Buy
    <2>1. PICK o \in BuyList, extra \in Extra : List(Deployed(o.item) + extra, extra = 0, o.worth)
      BY <1>2 DEF Buy
    <2>2. Deployed(o.item) + extra \in Nat /\ o.worth \in Valued /\ (extra = 0) \in BOOLEAN
      BY <2>1, TradeAssumption DEF BuyList, ListIsSound, Opportunity
    <2>3. SellTypeOK' /\ SearchIsSound' /\ StockIsSound'
      BY <2>1, <2>2, ListKeeps
    <2>4. opportunities' = opportunities
      BY <1>2 DEF Buy, buyVars
    <2>5. QED
      BY <2>3, <2>4 DEF ListIsSound
  <1>3. CASE PassOver
    BY <1>3 DEF PassOver, sellVars, SellTypeOK, ListIsSound, SearchIsSound, StockIsSound, Unsold,
                Outlay
  <1>4. CASE SellNext /\ UNCHANGED buyVars
    <2>1. ListIsSound'
      BY <1>4 DEF buyVars, ListIsSound
    <2>2. QED
      BY <1>4, <2>1, BeginsKeeps, SearchingKeeps, RepriceKeeps, MarketKeeps DEF SellNext
  <1>5. CASE UNCHANGED vars
    BY <1>5 DEF vars, SellTypeOK, ListIsSound, SearchIsSound, StockIsSound, Unsold, Outlay
  <1>6. QED
    BY <1>1, <1>2, <1>3, <1>4, <1>5 DEF Next

\* The invariant holds of every behaviour.
THEOREM InvariantHolds == Spec => []IInv
  BY InitHolds, StepHolds, PTL DEF Spec

\* Every variable holds what the code can put there: a valuation is two prices in
\* order, a listing's ask and thresholds are prices, whatever the market and the table.
THEOREM TypeCorrect == Spec => []TypeOK
<1>1. IInv => TypeOK
  BY DEF IInv, TypeOK, SellTypeOK, ListIsSound
<1>2. QED
  BY <1>1, InvariantHolds, PTL

\* break_even_pence: what is found clears, and one penny less does not.
THEOREM BreakEvenIsExact == Spec => []BreakEvenIsTight
<1>1. IInv => BreakEvenIsTight
  BY DEF IInv, SearchIsSound, BreakEvenIsTight
<1>2. QED
  BY <1>1, InvariantHolds, PTL

\* A sale at the unattended threshold covers what the item cost, up to the table's Slack.
THEOREM NoUnattendedLoss == Spec => []UnattendedSaleCovers
<1>1. ASSUME IInv PROVE UnattendedSaleCovers
  <2>1. SUFFICES ASSUME stock # None, stock.unattended, stock.breakEven # None
                 PROVE  Proceeds(stock.paid) + Slack >= Outlay(stock)
    BY DEF UnattendedSaleCovers
  <2>2. stock.breakEven \in Price /\ stock.paid \in Price /\ stock.breakEven <= stock.paid
        /\ Clears(stock.breakEven, Outlay(stock))
    BY <1>1, <2>1, StockFields DEF IInv, StockIsSound
  <2>3. Proceeds(stock.breakEven) <= Proceeds(stock.paid) + Slack
    BY <2>2, FeeModelAssumption DEF Proceeds
  <2>4. Outlay(stock) \in Nat
    BY <1>1, <2>1, StockFields, SellNumbers DEF IInv, Outlay
  <2>5. Proceeds(stock.breakEven) \in Int /\ Proceeds(stock.paid) \in Int /\ Slack \in Nat
    BY <2>2, SellNumbers, FeeModelAssumption
  <2>6. Proceeds(stock.breakEven) - Outlay(stock) >= 0
    BY <2>2 DEF Clears
  <2>7. QED
    BY <2>3, <2>4, <2>5, <2>6
<1>2. QED
  BY <1>1, InvariantHolds, PTL

-----------------------------------------------------------------------------
(* Both ends of the trade agree.                                           *)

\* An item bought for what it was scored at clears at the bottom of its band.
ScoredClears ==
  stock # None /\ stock.scored =>
    ~stock.flagged /\ Proceeds(stock.worth.p25) - Outlay(stock) >= MinNet

\* Where the bottom of the band clears by more than the table's Slack, a price that
\* does not clear lies below it, and with it the break-even.
LEMMA BandClears ==
  ASSUME NEW p25 \in Price, NEW ask \in Price, NEW low \in Price, NEW outlay \in Nat,
         p25 <= ask, MinNet >= Slack, Proceeds(p25) - outlay >= MinNet,
         low > 0 => ~Clears(low - 1, outlay)
  PROVE  ~(ask < low)
  <1>1. SUFFICES ASSUME ask < low PROVE FALSE
    OBVIOUS
  <1>2. p25 \in Nat /\ ask \in Nat /\ low \in Nat /\ low <= MaxPrice /\ MaxPrice \in Nat
    BY SellNumbers
  <1>3. low - 1 \in Price /\ p25 <= low - 1 /\ low > 0
    BY <1>1, <1>2 DEF Price
  <1>4. Proceeds(p25) <= Proceeds(low - 1) + Slack
    BY <1>3, FeeModelAssumption DEF Proceeds
  <1>5. ~(Proceeds(low - 1) - outlay >= 0)
    BY <1>3 DEF Clears
  <1>6. Proceeds(p25) \in Int /\ Proceeds(low - 1) \in Int /\ Slack \in Nat /\ MinNet \in Nat
    BY <1>3, SellNumbers, FeeModelAssumption, BuyScanAssumption
  <1>7. QED
    BY <1>4, <1>5, <1>6

\* Only a purchase and the command touch what ScoredClears speaks of.
LEMMA ScoredKeeps ==
  ASSUME MinNet >= Slack, IInv, ScoredClears, [Next]_vars
  PROVE  ScoredClears'
  <1>. USE DEF IInv
  <1>1. CASE Buy
    <2>1. PICK o \in BuyList, extra \in Extra : List(Deployed(o.item) + extra, extra = 0, o.worth)
      BY <1>1 DEF Buy
    <2>2. /\ stock' # None => /\ stock'.scored = (extra = 0) /\ stock'.flagged = FALSE
                              /\ stock'.worth = o.worth
                              /\ stock'.cost = Deployed(o.item) + extra
      BY <2>1 DEF List
    <2>3. o \in opportunities /\ extra \in Nat
      BY TradeAssumption DEF BuyList
    <2>4. o.net = Net(o.item, o.worth) /\ o.net >= MinNet /\ Deployed(o.item) \in Int
          /\ o.worth.p25 \in Price
      BY <2>3 DEF ListIsSound, Opportunity, Valued
    <2>5. Proceeds(o.worth.p25) - Deployed(o.item) - ShipOut >= MinNet
      BY <2>4 DEF Net
    <2>6. Proceeds(o.worth.p25) \in Int /\ ShipOut \in Nat /\ MinNet \in Nat
      BY <2>4, SellNumbers, BuyScanAssumption
    <2>7. Proceeds(o.worth.p25) - (Deployed(o.item) + 0 + ShipOut) >= MinNet
      BY <2>4, <2>5, <2>6
    <2>8. QED
      BY <2>2, <2>7 DEF ScoredClears, Outlay
  <1>2. CASE RepriceListing
    <2>1. PICK ask : /\ stock' = [stock EXCEPT !.ask = ask, !.breakEven = BreakEven,
                          !.accept = AutoAccept(ask, BreakEven),
                          !.decline = AutoDecline(ask, stock.worth),
                          !.flagged = BelowBreakEven(ask, BreakEven)]
      BY <1>2 DEF RepriceListing
    <2>2. stock # None /\ search.outlay = Outlay(stock) /\ stock \in Item
      BY <1>2, StockFields DEF RepriceListing, SearchIsSound, Unsold
    <2>3. /\ stock'.ask = ask /\ stock'.flagged = BelowBreakEven(ask, BreakEven)
          /\ stock'.worth = stock.worth /\ stock'.cost = stock.cost
          /\ stock'.scored = stock.scored
      BY <2>1, <2>2 DEF Item
    <2>4. stock' \in Item /\ stock'.worth.p25 <= stock'.ask
      BY <1>2, RepriceKeeps
    <2>5. stock'.ask \in Price
      BY <2>4 DEF Item
    <2>6. ask \in Price /\ stock.worth.p25 <= ask
      BY <2>3, <2>4, <2>5
    <2>7. SUFFICES ASSUME stock.scored PROVE ~BelowBreakEven(ask, BreakEven)
      BY <2>2, <2>3 DEF ScoredClears, Outlay
    <2>8. CASE search.step = "found"
      <3>1. search.low \in Price /\ (search.low > 0 => ~Clears(search.low - 1, Outlay(stock)))
        BY <2>2, <2>8, SearchFields DEF SearchIsSound
      <3>2. Outlay(stock) \in Nat /\ stock.worth.p25 \in Price
        BY <2>2, StockFields, SellNumbers DEF Outlay
      <3>3. Proceeds(stock.worth.p25) - Outlay(stock) >= MinNet
        BY <2>2, <2>7 DEF ScoredClears
      <3>4. ~(ask < search.low)
        BY <2>6, <3>1, <3>2, <3>3, BandClears
      <3>5. QED
        BY <2>8, <3>4 DEF BelowBreakEven, BreakEven
    <2>9. QED
      BY <2>8 DEF BelowBreakEven, BreakEven
  <1>3. CASE DayPasses \/ BuyNow \/ OfferAccepted
    <2>1. stock # None /\ stock \in Item
      BY <1>3, StockFields DEF DayPasses, BuyNow, OfferAccepted, Unsold
    <2>2. /\ stock'.flagged = stock.flagged /\ stock'.scored = stock.scored
          /\ stock'.worth = stock.worth /\ stock'.cost = stock.cost
      BY <1>3, <2>1 DEF DayPasses, BuyNow, OfferAccepted, Item
    <2>3. QED
      BY <2>1, <2>2 DEF ScoredClears, Outlay
  <1>4. CASE Scan \/ PassOver \/ RepriceBegins \/ Searching \/ UNCHANGED vars
    <2>1. stock' = stock
      BY <1>4 DEF Scan, PassOver, RepriceBegins, Searching, Widen, GiveUp, WideEnough, Halve, Meet,
                  sellVars, vars
    <2>2. QED
      BY <2>1 DEF ScoredClears, Outlay
  <1>5. CASE Ship
    BY <1>5 DEF Ship, ScoredClears
  <1>6. QED
    BY <1>1, <1>2, <1>3, <1>4, <1>5 DEF Next, SellNext

\* Repricing never flags what the scan ranked: with the floor at the table's Slack or
\* above, an item bought for its scored cost stays above its break-even.
THEOREM EndsAgree == MinNet >= Slack => (Spec => []RankedStockIsNeverFlagged)
<1>1. SUFFICES ASSUME MinNet >= Slack PROVE Spec => []RankedStockIsNeverFlagged
  OBVIOUS
<1>2. Init => ScoredClears
  BY DEF Init, SellInit, ScoredClears
<1>3. IInv /\ ScoredClears /\ [Next]_vars => ScoredClears'
  BY <1>1, ScoredKeeps
<1>4. ScoredClears => RankedStockIsNeverFlagged
  BY DEF ScoredClears, RankedStockIsNeverFlagged
<1>5. QED
  BY <1>2, <1>3, <1>4, InvariantHolds, PTL DEF Spec

-----------------------------------------------------------------------------
(* The ladder goes one way.                                                *)

\* A later day's drop, rounded, is at most a penny less than an earlier day's.
LEMMA RoundedGrows ==
  ASSUME NEW drop \in Nat, NEW d0 \in Nat, NEW d \in Nat, d0 <= d,
         NEW r0 \in Nearest(drop, d0), NEW r \in Nearest(drop, d)
  PROVE  r0 \in Nat /\ r \in Nat /\ r0 <= r + 1
  <1>. DEFINE D == DecayDays
              x0 == drop * d0
              x == drop * d
  <1>1. x0 \in Nat /\ x \in Nat /\ x0 <= x
    BY ProductGrows
  <1>2. D \in Nat /\ D > 0
    BY RepricingAssumption
  <1>3. /\ r0 \in Nat /\ 2 * (r0 * D - x0) <= D
        /\ r \in Nat /\ 2 * (x - r * D) <= D
    BY DEF Nearest
  <1>. HIDE DEF D, x0, x
  <1>4. ASSUME r + 2 <= r0 PROVE FALSE
    <2>1. (r + 2) * D <= r0 * D
      BY <1>2, <1>3, <1>4, ProductGrows
    <2>. DEFINE y0 == r0 * D
                y == r * D
    <2>2. y0 \in Nat /\ y \in Nat /\ (r + 2) * D = y + 2 * D
      BY <1>2, <1>3
    <2>3. y + 2 * D <= y0 /\ 2 * (y0 - x0) <= D /\ 2 * (x - y) <= D
      BY <1>3, <2>1, <2>2
    <2>. HIDE DEF y0, y
    <2>4. QED
      BY <1>1, <1>2, <2>2, <2>3
  <1>5. QED
    BY <1>3, <1>4

\* A later day never asks for more, but for a penny where a tie was rounded up.
LEMMA LaterAsksLess ==
  ASSUME NEW worth \in Valued, NEW d0 \in Nat, NEW d \in Nat, d0 <= d,
         NEW a \in Asks(worth, d0), NEW t \in Asks(worth, d)
  PROVE  t <= a + 1
  <1>. DEFINE drop == worth.p60 - worth.p25
  <1>1. worth.p25 \in Nat /\ worth.p60 \in Nat /\ worth.p25 <= worth.p60 /\ drop \in Nat
    BY SellNumbers DEF Valued
  <1>2. a \in Nat /\ worth.p25 <= a /\ t \in Nat
    BY AsksAreInBand, SellNumbers
  <1>3. DecayDays \in Nat
    BY RepricingAssumption
  <1>4. CASE d >= DecayDays
    BY <1>1, <1>2, <1>4 DEF Asks
  <1>5. CASE ~(d >= DecayDays)
    <2>1. ~(d0 >= DecayDays)
      BY <1>3, <1>5
    <2>2. PICK r0 \in Nearest(drop, d0) : a = Greatest(worth.p25, worth.p60 - r0)
      BY <2>1 DEF Asks
    <2>3. PICK r \in Nearest(drop, d) : t = Greatest(worth.p25, worth.p60 - r)
      BY <1>5 DEF Asks
    <2>4. r0 \in Nat /\ r \in Nat /\ r0 <= r + 1
      BY <1>1, RoundedGrows
    <2>. HIDE DEF drop
    <2>5. QED
      BY <1>1, <2>2, <2>3, <2>4 DEF Greatest
  <1>6. QED
    BY <1>4, <1>5

\* What is asked was due on some day that has come.
AskIsDue ==
  stock # None => \E d \in 0 .. stock.day : stock.ask \in Asks(stock.worth, d)

\* On the first day the top of the band is due.
LEMMA TopIsDue ==
  ASSUME NEW worth \in Valued PROVE worth.p60 \in Asks(worth, 0)
  <1>1. worth.p25 \in Nat /\ worth.p60 \in Nat /\ worth.p25 <= worth.p60
    BY SellNumbers DEF Valued
  <1>. DEFINE drop == worth.p60 - worth.p25
  <1>2. drop \in Nat
    BY <1>1
  <1>. HIDE DEF drop
  <1>3. 0 \in Nearest(drop, 0) /\ ~(0 >= DecayDays)
    BY <1>2, RepricingAssumption DEF Nearest
  <1>4. worth.p60 = Greatest(worth.p25, worth.p60 - 0)
    BY <1>1 DEF Greatest
  <1>5. QED
    BY <1>3, <1>4 DEF Asks, drop

\* The command asks for what is due, or for less than it was worth changing.
LEMMA AskKeeps ==
  ASSUME MinChange >= 2, IInv, AskIsDue, [Next]_vars
  PROVE  /\ AskIsDue'
         /\ stock # None /\ stock' # None =>
              stock'.ask <= stock.ask /\ stock.worth.p25 <= stock'.ask
  <1>. USE DEF IInv
  <1>1. CASE Buy
    <2>1. PICK o \in BuyList, extra \in Extra : List(Deployed(o.item) + extra, extra = 0, o.worth)
      BY <1>1 DEF Buy
    <2>2. o.worth \in Valued
      BY <2>1 DEF BuyList, ListIsSound, Opportunity
    <2>3. /\ stock = None
          /\ stock'.ask = o.worth.p60 /\ stock'.worth = o.worth /\ stock'.day = 0
      BY <2>1 DEF List
    <2>4. 0 \in 0 .. 0
      OBVIOUS
    <2>5. QED
      BY <2>2, <2>3, <2>4, TopIsDue DEF AskIsDue
  <1>2. CASE RepriceListing
    <2>1. PICK target \in Asks(stock.worth, stock.day) :
            LET ask == IF WorthMoving(target, stock.ask) THEN target ELSE stock.ask IN
            stock' = [stock EXCEPT
              !.ask = ask, !.breakEven = BreakEven, !.accept = AutoAccept(ask, BreakEven),
              !.decline = AutoDecline(ask, stock.worth),
              !.flagged = BelowBreakEven(ask, BreakEven)]
      BY <1>2 DEF RepriceListing
    <2>2. stock # None /\ stock \in Item
      BY <1>2, StockFields DEF RepriceListing, SearchIsSound, Unsold
    <2>3. /\ stock'.ask = IF WorthMoving(target, stock.ask) THEN target ELSE stock.ask
          /\ stock'.worth = stock.worth /\ stock'.day = stock.day
      BY <2>1, <2>2 DEF Item
    <2>4. PICK d \in 0 .. stock.day : stock.ask \in Asks(stock.worth, d)
      BY <2>2 DEF AskIsDue
    <2>5. stock.day \in Nat /\ d \in Nat /\ d <= stock.day /\ stock.day \in 0 .. stock.day
      BY <2>2, StockFields, RepricingAssumption
    <2>6. /\ target \in Nat /\ stock.ask \in Nat /\ stock.worth \in Valued
          /\ stock.worth.p25 \in Nat
          /\ stock.worth.p25 <= target /\ stock.worth.p25 <= stock.ask
      BY <2>2, <2>5, StockFields, AsksAreInBand, SellNumbers DEF StockIsSound
    <2>7. target <= stock.ask + 1
      BY <2>4, <2>5, <2>6, LaterAsksLess
    <2>8. WorthMoving(target, stock.ask) => target <= stock.ask
      BY <2>6, <2>7, RepricingAssumption DEF WorthMoving, Greatest
    <2>9. stock'.ask <= stock.ask /\ stock.worth.p25 <= stock'.ask
      BY <2>3, <2>6, <2>8
    <2>10. \E e \in 0 .. stock.day : stock'.ask \in Asks(stock.worth, e)
      BY <2>3, <2>4, <2>5
    <2>11. QED
      BY <2>3, <2>9, <2>10 DEF AskIsDue
  <1>3. CASE DayPasses \/ BuyNow \/ OfferAccepted
    <2>1. stock # None /\ stock \in Item
      BY <1>3, StockFields DEF DayPasses, BuyNow, OfferAccepted, Unsold
    <2>2. /\ stock'.ask = stock.ask /\ stock'.worth = stock.worth
          /\ stock'.day \in {stock.day, stock.day + 1}
      BY <1>3, <2>1 DEF DayPasses, BuyNow, OfferAccepted, Item
    <2>3. stock.day \in Nat /\ stock.ask \in Nat /\ stock.worth.p25 <= stock.ask
      BY <2>1, StockFields, RepricingAssumption, SellNumbers DEF StockIsSound
    <2>4. PICK d \in 0 .. stock.day : stock.ask \in Asks(stock.worth, d)
      BY <2>1 DEF AskIsDue
    <2>5. d \in 0 .. stock'.day
      BY <2>2, <2>3
    <2>6. QED
      BY <2>2, <2>3, <2>4, <2>5 DEF AskIsDue
  <1>4. CASE Scan \/ PassOver \/ RepriceBegins \/ Searching \/ UNCHANGED vars
    <2>1. stock' = stock
      BY <1>4 DEF Scan, PassOver, RepriceBegins, Searching, Widen, GiveUp, WideEnough, Halve, Meet,
                  sellVars, vars
    <2>2. stock # None => stock.ask \in Nat /\ stock.worth.p25 <= stock.ask
      BY StockFields, SellNumbers DEF StockIsSound
    <2>3. QED
      BY <2>1, <2>2 DEF AskIsDue
  <1>5. CASE Ship
    BY <1>5 DEF Ship, AskIsDue
  <1>6. QED
    BY <1>1, <1>2, <1>3, <1>4, <1>5 DEF Next, SellNext

\* The ask never rises and never leaves its band, in whatever order days and commands
\* come, where a change of one penny is not worth making: ties may round either way.
THEOREM LadderGoesDown == MinChange >= 2 => (Spec => AskOnlyDecays)
<1>1. SUFFICES ASSUME MinChange >= 2 PROVE Spec => AskOnlyDecays
  OBVIOUS
<1>2. Init => AskIsDue
  BY DEF Init, SellInit, AskIsDue
<1>3. IInv /\ AskIsDue /\ [Next]_vars => AskIsDue'
  BY <1>1, AskKeeps
<1>4. IInv /\ AskIsDue /\ [Next]_vars =>
        [stock # None /\ stock' # None
           => stock'.ask <= stock.ask /\ stock.worth.p25 <= stock'.ask]_vars
  BY <1>1, AskKeeps
<1>5. QED
  BY <1>2, <1>3, <1>4, InvariantHolds, PTL DEF Spec, AskOnlyDecays

-----------------------------------------------------------------------------
(* The fence. What is left between the fences is counted: the prices at two *)
(* places have at least as many sales between them as the places do.       *)

\* The places of a set of sales, and how many sales are about a price.
LEMMA PlacesCount ==
  ASSUME NEW sales \in SUBSET Sales
  PROVE  /\ IsFiniteSet(sales) /\ Cardinality(sales) \in Nat
         /\ \A s \in sales : s.price \in Nat
         /\ \A k \in 1 .. Cardinality(sales) :
              /\ Nth(sales, k) \in Nat
              /\ Cardinality({s \in sales : s.price < Nth(sales, k)}) < k
              /\ k <= Cardinality({s \in sales : s.price <= Nth(sales, k)})
  <1>1. IsFiniteSet(sales) /\ Cardinality(sales) \in Nat
    BY BuyScanAssumption, FS_Subset, FS_CardinalityType
  <1>2. \A s \in sales : s.price \in Nat
    BY BuyScanAssumption, FeeModelAssumption DEF SoldObservation, Price
  <1>3. \A p \in Price : p \in Nat
    BY FeeModelAssumption DEF Price
  <1>4. QED
    BY <1>1, <1>2, <1>3, NthIsPrice

\* The part of a set of sales that a condition picks out is no larger than the set.
LEMMA PartOfSales ==
  ASSUME NEW sales \in SUBSET Sales, NEW part \in SUBSET sales
  PROVE  IsFiniteSet(part) /\ Cardinality(part) \in Nat /\ Cardinality(part) <= Cardinality(sales)
  BY PlacesCount, FS_Subset, FS_CardinalityType

\* A later place has no smaller price.
LEMMA NthGrows ==
  ASSUME NEW sales \in SUBSET Sales,
         NEW a \in 1 .. Cardinality(sales), NEW b \in 1 .. Cardinality(sales), a <= b
  PROVE  Nth(sales, a) <= Nth(sales, b)
  <1>. DEFINE low == {s \in sales : s.price < Nth(sales, a)}
              high == {s \in sales : s.price <= Nth(sales, b)}
  <1>1. /\ Nth(sales, a) \in Nat /\ Nth(sales, b) \in Nat
        /\ Cardinality(low) < a /\ b <= Cardinality(high)
        /\ \A s \in sales : s.price \in Nat
    BY PlacesCount
  <1>2. CASE Nth(sales, b) < Nth(sales, a)
    <2>1. high \in SUBSET low /\ low \in SUBSET Sales
      BY <1>1, <1>2
    <2>. HIDE DEF low, high
    <2>2. Cardinality(high) <= Cardinality(low)
          /\ Cardinality(high) \in Nat /\ Cardinality(low) \in Nat
      BY <2>1, PartOfSales
    <2>3. QED
      BY <1>1, <2>2
  <1>3. QED
    BY <1>1, <1>2

\* From place a to place b there are at least b - a + 1 sales.
LEMMA SalesBetween ==
  ASSUME NEW sales \in SUBSET Sales,
         NEW a \in 1 .. Cardinality(sales), NEW b \in 1 .. Cardinality(sales), a <= b
  PROVE  b - a + 1 <= Cardinality({s \in sales : Nth(sales, a) <= s.price
                                                   /\ s.price <= Nth(sales, b)})
  <1>. DEFINE low == {s \in sales : s.price < Nth(sales, a)}
              high == {s \in sales : s.price <= Nth(sales, b)}
              mid == {s \in sales : Nth(sales, a) <= s.price /\ s.price <= Nth(sales, b)}
  <1>1. /\ Nth(sales, a) \in Nat /\ Nth(sales, b) \in Nat
        /\ Cardinality(low) < a /\ b <= Cardinality(high)
        /\ \A s \in sales : s.price \in Nat
    BY PlacesCount
  <1>2. high \subseteq low \cup mid /\ mid \in SUBSET sales /\ low \in SUBSET sales
    BY <1>1
  <1>. HIDE DEF low, high, mid
  <1>3. /\ IsFiniteSet(low) /\ IsFiniteSet(mid)
        /\ Cardinality(low) \in Nat /\ Cardinality(mid) \in Nat
    BY <1>2, PartOfSales
  <1>4. /\ IsFiniteSet(low \cup mid)
        /\ Cardinality(low \cup mid) = Cardinality(low) + Cardinality(mid)
                                         - Cardinality(low \cap mid)
    BY <1>3, FS_Union
  <1>5. Cardinality(low \cap mid) \in Nat
    BY <1>3, FS_Intersection, FS_CardinalityType
  <1>6. Cardinality(high) <= Cardinality(low \cup mid) /\ Cardinality(high) \in Nat
    BY <1>2, <1>4, FS_Subset, FS_CardinalityType
  <1>7. b - a + 1 <= Cardinality(mid)
    BY <1>1, <1>3, <1>4, <1>5, <1>6
  <1>8. QED
    BY <1>7 DEF mid

\* A quartile lies on a place, or a quarter, a half or three quarters of the way to the
\* next one.
LEMMA QuartileAt ==
  ASSUME NEW sales \in SUBSET Sales, NEW n, n = Cardinality(sales), n \in Nat, n >= 4,
         NEW i \in {1, 3}, NEW k, k = (i * (n - 1)) \div 4 + 1,
         NEW over, over = (i * (n - 1)) % 4
  PROVE  /\ k \in 1 .. n /\ over \in 0 .. 3 /\ (over # 0 => k + 1 \in 1 .. n)
         /\ over = 0 => Cut(sales, i, 4) = 4 * Nth(sales, k)
         /\ over # 0 => Cut(sales, i, 4) = Nth(sales, k) * (4 - over) + Nth(sales, k + 1) * over
  <1>1. k \in 1 .. n /\ over \in 0 .. 3 /\ (over # 0 => k + 1 \in 1 .. n)
    BY i = 1 \/ i = 3
  <1>2. Cut(sales, i, 4) = IF over = 0 THEN Nth(sales, k) * 4
          ELSE Nth(sales, k) * (4 - over) + Nth(sales, (i * (n - 1)) \div 4 + 2) * over
    BY DEF Cut
  <1>3. (i * (n - 1)) \div 4 + 2 = k + 1
    BY i = 1 \/ i = 3
  <1>4. Nth(sales, k) \in Nat
    BY <1>1, PlacesCount
  <1>. DEFINE x == Nth(sales, k)
  <1>5. x \in Nat /\ Cut(sales, i, 4) = IF over = 0 THEN x * 4
                      ELSE x * (4 - over) + Nth(sales, k + 1) * over
    BY <1>2, <1>3, <1>4
  <1>. HIDE DEF x
  <1>6. over = 0 => Cut(sales, i, 4) = 4 * x
    BY <1>5
  <1>7. QED
    BY <1>1, <1>5, <1>6 DEF x

\* With four sales or more, three places in a row or more are within the fences.
LEMMA ThreeWithinFences ==
  ASSUME NEW sales \in SUBSET Sales, Cardinality(sales) >= 4
  PROVE  LET q1 == Cut(sales, 1, 4)
             q3 == Cut(sales, 3, 4)
         IN  \E a, b \in 1 .. Cardinality(sales) :
               /\ a + 2 <= b
               /\ q1 \in Int /\ q3 \in Int
               /\ 2 * q1 - 3 * (q3 - q1) <= 8 * Nth(sales, a)
               /\ 8 * Nth(sales, b) <= 2 * q3 + 3 * (q3 - q1)
  <1>. DEFINE n == Cardinality(sales)
              x(k) == Nth(sales, k)
              q1 == Cut(sales, 1, 4)
              q3 == Cut(sales, 3, 4)
              k1 == (1 * (n - 1)) \div 4 + 1
              o1 == (1 * (n - 1)) % 4
              k3 == (3 * (n - 1)) \div 4 + 1
              o3 == (3 * (n - 1)) % 4
  <1>. SUFFICES \E a, b \in 1 .. n :
                  /\ a + 2 <= b
                  /\ q1 \in Int /\ q3 \in Int
                  /\ 2 * q1 - 3 * (q3 - q1) <= 8 * x(a)
                  /\ 8 * x(b) <= 2 * q3 + 3 * (q3 - q1)
    OBVIOUS
  <1>1. n \in Nat /\ n >= 4 /\ \A k \in 1 .. n : x(k) \in Nat
    BY PlacesCount
  <1>2. \A a, b \in 1 .. n : a <= b => x(a) <= x(b)
    BY NthGrows
  <1>3. /\ k1 \in 1 .. n /\ o1 \in 0 .. 3 /\ (o1 # 0 => k1 + 1 \in 1 .. n)
        /\ o1 = 0 => q1 = 4 * x(k1)
        /\ o1 # 0 => q1 = x(k1) * (4 - o1) + x(k1 + 1) * o1
    BY <1>1, QuartileAt
  <1>4. /\ k3 \in 1 .. n /\ o3 \in 0 .. 3 /\ (o3 # 0 => k3 + 1 \in 1 .. n)
        /\ o3 = 0 => q3 = 4 * x(k3)
        /\ o3 # 0 => q3 = x(k3) * (4 - o3) + x(k3 + 1) * o3
    BY <1>1, QuartileAt
  <1>. HIDE DEF n, x, q1, q3
  <1>5. CASE n = 4
    <2>1. k1 = 1 /\ o1 = 3 /\ k3 = 3 /\ o3 = 1
      BY <1>5
    <2>2. q1 = x(1) + 3 * x(2) /\ q3 = 3 * x(3) + x(4)
          /\ x(1) \in Nat /\ x(2) \in Nat /\ x(3) \in Nat /\ x(4) \in Nat
          /\ x(1) <= x(2) /\ x(2) <= x(3) /\ x(3) <= x(4)
      <3>1. x(1) \in Nat /\ x(2) \in Nat /\ x(3) \in Nat /\ x(4) \in Nat
        BY <1>1, <1>5
      <3>2. x(1) <= x(2) /\ x(2) <= x(3) /\ x(3) <= x(4)
        BY <1>2, <1>5
      <3>3. q1 = x(1) * (4 - 3) + x(1 + 1) * 3 /\ q3 = x(3) * (4 - 1) + x(3 + 1) * 1
        BY <1>3, <1>4, <2>1
      <3>4. x(1 + 1) = x(2) /\ x(3 + 1) = x(4)
        OBVIOUS
      <3>5. QED
        BY <3>1, <3>2, <3>3, <3>4
    <2>3. CASE x(2) - x(1) <= x(4) - x(3)
      <3>1. /\ q1 \in Int /\ q3 \in Int
            /\ 2 * q1 - 3 * (q3 - q1) <= 8 * x(1) /\ 8 * x(3) <= 2 * q3 + 3 * (q3 - q1)
        BY <2>2, <2>3
      <3>2. 1 \in 1 .. n /\ 3 \in 1 .. n /\ 1 + 2 <= 3
        BY <1>5
      <3>3. QED
        BY <3>1, <3>2
    <2>4. CASE x(2) - x(1) > x(4) - x(3)
      <3>1. /\ q1 \in Int /\ q3 \in Int
            /\ 2 * q1 - 3 * (q3 - q1) <= 8 * x(2) /\ 8 * x(4) <= 2 * q3 + 3 * (q3 - q1)
        BY <2>2, <2>4
      <3>2. 2 \in 1 .. n /\ 4 \in 1 .. n /\ 2 + 2 <= 4
        BY <1>5
      <3>3. QED
        BY <3>1, <3>2
    <2>5. QED
      BY <2>2, <2>3, <2>4
  <1>6. CASE n = 6
    <2>1. k1 = 2 /\ o1 = 1 /\ k3 = 4 /\ o3 = 3
      BY <1>6
    <2>2. q1 = 3 * x(2) + x(3) /\ q3 = x(4) + 3 * x(5)
          /\ x(2) \in Nat /\ x(3) \in Nat /\ x(4) \in Nat /\ x(5) \in Nat
          /\ x(2) <= x(3) /\ x(3) <= x(4) /\ x(4) <= x(5)
      <3>1. x(2) \in Nat /\ x(3) \in Nat /\ x(4) \in Nat /\ x(5) \in Nat
        BY <1>1, <1>6
      <3>2. x(2) <= x(3) /\ x(3) <= x(4) /\ x(4) <= x(5)
        BY <1>2, <1>6
      <3>3. q1 = x(2) * (4 - 1) + x(2 + 1) * 1 /\ q3 = x(4) * (4 - 3) + x(4 + 1) * 3
        BY <1>3, <1>4, <2>1
      <3>4. x(2 + 1) = x(3) /\ x(4 + 1) = x(5)
        OBVIOUS
      <3>5. QED
        BY <3>1, <3>2, <3>3, <3>4
    <2>3. /\ q1 \in Int /\ q3 \in Int
          /\ 2 * q1 - 3 * (q3 - q1) <= 8 * x(2) /\ 8 * x(5) <= 2 * q3 + 3 * (q3 - q1)
      BY <2>2
    <2>4. 2 \in 1 .. n /\ 5 \in 1 .. n /\ 2 + 2 <= 5
      BY <1>6
    <2>5. QED
      BY <2>3, <2>4
  <1>7. CASE n # 4 /\ n # 6
    <2>. DEFINE a == IF o1 = 0 THEN k1 ELSE k1 + 1
    <2>1. a \in 1 .. n /\ k3 \in 1 .. n /\ a + 2 <= k3
      BY <1>1, <1>3, <1>4, <1>7
    <2>2. x(a) \in Nat /\ x(k3) \in Nat /\ x(k1) \in Nat /\ x(a) <= x(k3)
          /\ (o1 # 0 => x(k1 + 1) = x(a) /\ x(k1) <= x(a))
          /\ (o3 # 0 => x(k3 + 1) \in Nat /\ x(k3) <= x(k3 + 1))
      <3>1. k1 \in 1 .. n /\ a <= k3 /\ k1 <= a
        BY <1>1, <1>3, <2>1
      <3>2. o3 # 0 => k3 + 1 \in 1 .. n /\ k3 <= k3 + 1
        BY <1>4, <2>1
      <3>. HIDE DEF k1, k3, o3
      <3>3. x(a) \in Nat /\ x(k3) \in Nat /\ x(k1) \in Nat /\ x(a) <= x(k3) /\ x(k1) <= x(a)
        BY <1>1, <1>2, <2>1, <3>1
      <3>4. o3 # 0 => x(k3 + 1) \in Nat /\ x(k3) <= x(k3 + 1)
        BY <1>1, <1>2, <2>1, <3>2
      <3>5. QED
        BY <3>3, <3>4
    <2>3. q1 \in Int /\ q1 <= 4 * x(a)
      <3>. HIDE DEF k1
      <3>1. CASE o1 = 0
        BY <1>3, <2>2, <3>1
      <3>2. CASE o1 # 0
        <4>1. q1 = x(k1) * (4 - o1) + x(a) * o1 /\ o1 \in {1, 2, 3} /\ x(k1) <= x(a)
          BY <1>3, <2>2, <3>2
        <4>. HIDE DEF o1, a
        <4>2. QED
          BY <2>2, <4>1
      <3>3. QED
        BY <3>1, <3>2
    <2>4. q3 \in Int /\ 4 * x(k3) <= q3
      <3>. HIDE DEF k3
      <3>1. CASE o3 = 0
        BY <1>4, <2>2, <3>1
      <3>2. CASE o3 # 0
        <4>1. q3 = x(k3) * (4 - o3) + x(k3 + 1) * o3 /\ o3 \in {1, 2, 3}
              /\ x(k3 + 1) \in Nat /\ x(k3) <= x(k3 + 1)
          BY <1>4, <2>2, <3>2
        <4>. HIDE DEF o3
        <4>2. QED
          BY <2>2, <4>1
      <3>3. QED
        BY <3>1, <3>2
    <2>. HIDE DEF a, k3
    <2>5. /\ 2 * q1 - 3 * (q3 - q1) <= 8 * x(a) /\ 8 * x(k3) <= 2 * q3 + 3 * (q3 - q1)
      BY <2>2, <2>3, <2>4
    <2>6. QED
      BY <2>1, <2>3, <2>4, <2>5
  <1>8. QED
    BY <1>5, <1>6, <1>7

\* Three usable sales or more leave three or more after the fences.
LEMMA FenceKeepsThree ==
  ASSUME NEW sales \in SUBSET Sales, Cardinality(sales) >= 3
  PROVE  Cardinality(TrimOutliers(sales)) >= 3
  <1>1. Cardinality(sales) \in Nat
    BY PlacesCount
  <1>2. CASE Cardinality(sales) < 4
    BY <1>1, <1>2 DEF TrimOutliers, MinPointsToFence
  <1>3. CASE Cardinality(sales) >= 4
    <2>. DEFINE q1 == Cut(sales, 1, 4)
                q3 == Cut(sales, 3, 4)
                kept == {s \in sales : WithinFences(s, q1, q3)}
    <2>1. TrimOutliers(sales) = kept
      BY <1>1, <1>3 DEF TrimOutliers, MinPointsToFence
    <2>2. PICK a \in 1 .. Cardinality(sales), b \in 1 .. Cardinality(sales) :
            /\ a + 2 <= b
            /\ q1 \in Int /\ q3 \in Int
            /\ 2 * q1 - 3 * (q3 - q1) <= 8 * Nth(sales, a)
            /\ 8 * Nth(sales, b) <= 2 * q3 + 3 * (q3 - q1)
      BY <1>3, ThreeWithinFences
    <2>. DEFINE mid == {s \in sales : Nth(sales, a) <= s.price /\ s.price <= Nth(sales, b)}
    <2>3. a <= b /\ b - a + 1 >= 3 /\ a \in Nat /\ b \in Nat
      BY <1>1, <2>2
    <2>4. b - a + 1 <= Cardinality(mid)
      BY <2>3, SalesBetween
    <2>. HIDE DEF q1, q3
    <2>5. mid \subseteq kept
      <3>1. SUFFICES ASSUME NEW s \in sales, Nth(sales, a) <= s.price, s.price <= Nth(sales, b)
                     PROVE  WithinFences(s, q1, q3)
        OBVIOUS
      <3>2. s.price \in Nat /\ Nth(sales, a) \in Nat /\ Nth(sales, b) \in Nat
        BY PlacesCount
      <3>3. QED
        BY <2>2, <3>1, <3>2 DEF WithinFences
    <2>6. mid \in SUBSET kept /\ kept \in SUBSET sales /\ kept \in SUBSET Sales
      BY <2>5
    <2>. HIDE DEF mid, kept
    <2>7. Cardinality(mid) <= Cardinality(kept)
          /\ Cardinality(mid) \in Nat /\ Cardinality(kept) \in Nat
      BY <2>6, PartOfSales
    <2>8. QED
      BY <2>1, <2>3, <2>4, <2>7
  <1>4. QED
    BY <1>1, <1>2, <1>3

-----------------------------------------------------------------------------
(* One odd sale among sales that agree.                                    *)

\* Where all sales are at one price, so is every place.
LEMMA AgreedPlace ==
  ASSUME NEW sales \in SUBSET Sales, NEW x \in Nat, \A s \in sales : s.price = x,
         NEW k \in 1 .. Cardinality(sales)
  PROVE  Nth(sales, k) = x
  <1>. DEFINE low == {s \in sales : s.price < Nth(sales, k)}
              upTo == {s \in sales : s.price <= Nth(sales, k)}
  <1>1. /\ Nth(sales, k) \in Nat /\ Cardinality(sales) \in Nat
        /\ Cardinality(low) < k /\ k <= Cardinality(upTo)
    BY PlacesCount
  <1>2. CASE x < Nth(sales, k)
    <2>1. low = sales
      BY <1>2
    <2>. HIDE DEF low
    <2>2. QED
      BY <1>1, <2>1
  <1>3. CASE Nth(sales, k) < x
    <2>1. upTo = {}
      BY <1>1, <1>3
    <2>2. Cardinality(upTo) = 0
      BY <2>1, FS_EmptySet
    <2>. HIDE DEF upTo
    <2>3. QED
      BY <1>1, <2>2
  <1>4. QED
    BY <1>1, <1>2, <1>3

\* ... and every percentile.
LEMMA AgreedPercentile ==
  ASSUME NEW sales \in SUBSET Sales, NEW x \in Nat, \A s \in sales : s.price = x,
         Cardinality(sales) >= 1, NEW pct \in {25, 60}
  PROVE  Percentile(sales, pct) = x
  <1>. DEFINE n == Cardinality(sales)
              place == pct * (n - 1)
              over == place % 100
              k == place \div 100 + 1
  <1>1. n \in Nat /\ n >= 1 /\ \A i \in 1 .. n : Nth(sales, i) = x
    BY PlacesCount, AgreedPlace
  <1>2. CASE n = 1
    BY <1>1, <1>2 DEF Percentile
  <1>3. CASE n # 1
    <2>. HIDE DEF n
    <2>1. k \in 1 .. n /\ over \in 0 .. 99 /\ (over # 0 => k + 1 \in 1 .. n)
          /\ place \div 100 + 2 = k + 1
      BY <1>1, <1>3
    <2>2. Cut(sales, pct, 100) = IF over = 0 THEN Nth(sales, k) * 100
            ELSE Nth(sales, k) * (100 - over) + Nth(sales, place \div 100 + 2) * over
      BY DEF Cut, n
    <2>. HIDE DEF place, over, k
    <2>3. Cut(sales, pct, 100) = IF over = 0 THEN x * 100 ELSE x * (100 - over) + x * over
      BY <1>1, <2>1, <2>2
    <2>4. Cut(sales, pct, 100) = 100 * x
      BY <2>1, <2>3
    <2>5. Rounded(100 * x, 100) = x
      BY DEF Rounded
    <2>6. QED
      BY <1>3, <2>4, <2>5 DEF Percentile, n
  <1>4. QED
    BY <1>2, <1>3

\* An odd sale above the others has the last place, one below them has the first.
LEMMA OddPlace ==
  ASSUME NEW sales \in SUBSET Sales, NEW odd \in sales, NEW x \in Nat,
         \A s \in sales \ {odd} : s.price = x, NEW k \in 1 .. Cardinality(sales)
  PROVE  /\ odd.price > x => Nth(sales, k) = IF k = Cardinality(sales) THEN odd.price ELSE x
         /\ odd.price < x => Nth(sales, k) = IF k = 1 THEN odd.price ELSE x
  <1>. DEFINE low == {s \in sales : s.price < Nth(sales, k)}
              upTo == {s \in sales : s.price <= Nth(sales, k)}
              others == sales \ {odd}
              n == Cardinality(sales)
  <1>1. /\ Nth(sales, k) \in Nat /\ n \in Nat /\ odd.price \in Nat
        /\ Cardinality(low) < k /\ k <= Cardinality(upTo)
        /\ IsFiniteSet(sales) /\ \A s \in sales : s.price \in Nat
    BY PlacesCount
  <1>2. /\ Cardinality(low) \in Nat /\ Cardinality(upTo) \in Nat
        /\ low \in SUBSET sales /\ upTo \in SUBSET sales
    <2>1. low \in SUBSET sales /\ upTo \in SUBSET sales
      OBVIOUS
    <2>. HIDE DEF low, upTo
    <2>2. QED
      BY <2>1, PartOfSales
  <1>3. Cardinality(others) = n - 1 /\ IsFiniteSet(others)
    BY <1>1, FS_RemoveElement
  <1>4. Cardinality({odd}) = 1 /\ IsFiniteSet({odd}) /\ Cardinality({}) = 0
    BY FS_Singleton, FS_EmptySet
  <1>5. \A part \in SUBSET sales : IsFiniteSet(part) /\ Cardinality(part) \in Nat
          /\ (others \subseteq part => n - 1 <= Cardinality(part))
          /\ (part \subseteq {odd} => Cardinality(part) <= 1)
          /\ (part \subseteq others => Cardinality(part) <= n - 1)
    <2>1. SUFFICES ASSUME NEW part \in SUBSET sales
                   PROVE  IsFiniteSet(part) /\ Cardinality(part) \in Nat
                          /\ (others \subseteq part => n - 1 <= Cardinality(part))
                          /\ (part \subseteq {odd} => Cardinality(part) <= 1)
                          /\ (part \subseteq others => Cardinality(part) <= n - 1)
      OBVIOUS
    <2>2. IsFiniteSet(part) /\ Cardinality(part) \in Nat
      BY PartOfSales
    <2>. HIDE DEF others, n
    <2>3. others \subseteq part => Cardinality(others) <= Cardinality(part)
      BY <2>2, FS_Subset
    <2>4. part \subseteq {odd} => Cardinality(part) <= Cardinality({odd})
      BY <1>4, FS_Subset
    <2>5. part \subseteq others => Cardinality(part) <= Cardinality(others)
      BY <1>3, FS_Subset
    <2>6. QED
      BY <1>3, <1>4, <2>2, <2>3, <2>4, <2>5
  <1>6. /\ x < Nth(sales, k) => others \subseteq low
        /\ Nth(sales, k) < x => upTo \subseteq {odd}
        /\ odd.price < Nth(sales, k) => odd \in low
        /\ Nth(sales, k) < odd.price => upTo \subseteq others
        /\ upTo # {}
    <2>1. upTo # {}
      <3>. HIDE DEF upTo
      <3>1. QED
        BY <1>1, <1>2, <1>4
    <2>2. /\ x < Nth(sales, k) => others \subseteq low
          /\ Nth(sales, k) < x => upTo \subseteq {odd}
          /\ odd.price < Nth(sales, k) => odd \in low
          /\ Nth(sales, k) < odd.price => upTo \subseteq others
      BY <1>1
    <2>3. QED
      BY <2>1, <2>2
  <1>7. others \cup {odd} = sales
    OBVIOUS
  <1>8. upTo \subseteq {odd} => Nth(sales, k) >= odd.price
    BY <1>1, <1>6
  <1>9. (others \subseteq low /\ odd \in low) => low = sales
    BY <1>2, <1>7
  <1>. HIDE DEF low, upTo, others
  <1>10. low # sales
    <2>1. CASE low = sales
      BY <1>1, <2>1
    <2>2. QED
      BY <2>1
  <1>11. ASSUME odd.price > x
         PROVE  Nth(sales, k) = IF k = n THEN odd.price ELSE x
    <2>1. Nth(sales, k) >= x
      BY <1>1, <1>6, <1>8, <1>11
    <2>2. CASE k = n
      <3>1. ~(upTo \subseteq others)
        BY <1>1, <1>2, <1>5, <2>2
      <3>2. Nth(sales, k) >= odd.price
        BY <1>1, <1>6, <3>1
      <3>3. ~(Nth(sales, k) > odd.price)
        BY <1>1, <1>6, <1>9, <1>10, <1>11, <3>2
      <3>4. QED
        BY <1>1, <2>2, <3>2, <3>3
    <2>3. CASE k # n
      <3>1. ~(others \subseteq low)
        BY <1>1, <1>2, <1>5, <2>3
      <3>2. QED
        BY <1>1, <1>6, <2>1, <2>3, <3>1
    <2>4. QED
      BY <2>2, <2>3
  <1>12. ASSUME odd.price < x
         PROVE  Nth(sales, k) = IF k = 1 THEN odd.price ELSE x
    <2>1. Nth(sales, k) <= x /\ Nth(sales, k) >= odd.price
      <3>1. ~(Nth(sales, k) > x)
        BY <1>1, <1>6, <1>9, <1>10, <1>12
      <3>2. Nth(sales, k) < x => Nth(sales, k) >= odd.price
        BY <1>6, <1>8
      <3>3. QED
        BY <1>1, <1>12, <3>1, <3>2
    <2>2. CASE k = 1
      <3>1. Cardinality(low) = 0
        BY <1>1, <1>2, <2>2
      <3>2. odd \notin low
        BY <1>1, <1>2, <1>5, <3>1, FS_EmptySet
      <3>3. QED
        BY <1>1, <1>6, <2>1, <2>2, <3>2
    <2>3. CASE k # 1
      <3>1. ~(upTo \subseteq {odd})
        BY <1>1, <1>2, <1>5, <2>3
      <3>2. QED
        BY <1>1, <1>6, <2>1, <2>3, <3>1
    <2>4. QED
      BY <2>2, <2>3
  <1>13. QED
    BY <1>11, <1>12 DEF n

\* Whatever the odd sale costs, the fences leave sales at the price of the others only.
LEMMA FenceDropsTheOdd ==
  ASSUME NEW sales \in SUBSET Sales, Cardinality(sales) >= 4, NEW odd \in sales,
         NEW x \in Nat, \A s \in sales \ {odd} : s.price = x
  PROVE  \A s \in TrimOutliers(sales) : s.price = x
  <1>. DEFINE n == Cardinality(sales)
              at(k) == Nth(sales, k)
              q1 == Cut(sales, 1, 4)
              q3 == Cut(sales, 3, 4)
              k1 == (1 * (n - 1)) \div 4 + 1
              o1 == (1 * (n - 1)) % 4
              k3 == (3 * (n - 1)) \div 4 + 1
              o3 == (3 * (n - 1)) % 4
              o == odd.price
  <1>1. n \in Nat /\ n >= 4 /\ o \in Nat
    BY PlacesCount
  <1>2. /\ k1 \in 1 .. n /\ o1 \in 0 .. 3 /\ (o1 # 0 => k1 + 1 \in 1 .. n)
        /\ o1 = 0 => q1 = 4 * at(k1)
        /\ o1 # 0 => q1 = at(k1) * (4 - o1) + at(k1 + 1) * o1
    BY <1>1, QuartileAt
  <1>3. /\ k3 \in 1 .. n /\ o3 \in 0 .. 3 /\ (o3 # 0 => k3 + 1 \in 1 .. n)
        /\ o3 = 0 => q3 = 4 * at(k3)
        /\ o3 # 0 => q3 = at(k3) * (4 - o3) + at(k3 + 1) * o3
    BY <1>1, QuartileAt
  <1>4. /\ o > x => \A k \in 1 .. n : at(k) = IF k = n THEN o ELSE x
        /\ o < x => \A k \in 1 .. n : at(k) = IF k = 1 THEN o ELSE x
    BY OddPlace
  <1>5. TrimOutliers(sales) = {s \in sales : WithinFences(s, q1, q3)}
    BY <1>1 DEF TrimOutliers, MinPointsToFence
  <1>. HIDE DEF n, at, q1, q3, o
  <1>6. CASE o > x
    <2>1. q1 = 4 * x
      <3>1. k1 \in 1 .. n - 1 /\ (o1 # 0 => k1 + 1 \in 1 .. n - 1)
        BY <1>1
      <3>. HIDE DEF k1, o1
      <3>2. at(k1) = x /\ (o1 # 0 => at(k1 + 1) = x)
        BY <1>1, <1>4, <1>6, <3>1
      <3>3. o1 # 0 => q1 = x * (4 - o1) + x * o1
        BY <1>2, <3>2
      <3>4. QED
        BY <1>2, <3>2, <3>3
    <2>2. q3 = IF n = 4 THEN 3 * x + o ELSE 4 * x
      <3>1. CASE n = 4
        <4>1. k3 = 3 /\ o3 = 1 /\ k3 + 1 = 4
          BY <3>1
        <4>2. at(3) = x /\ at(4) = o
          BY <1>4, <1>6, <3>1
        <4>3. q3 = at(3) * (4 - 1) + at(4) * 1
          BY <1>3, <4>1
        <4>4. QED
          BY <1>1, <3>1, <4>2, <4>3
      <3>2. CASE n # 4
        <4>1. k3 \in 1 .. n - 1 /\ (o3 # 0 => k3 + 1 \in 1 .. n - 1)
          BY <1>1, <3>2
        <4>. HIDE DEF k3, o3
        <4>2. at(k3) = x /\ (o3 # 0 => at(k3 + 1) = x)
          BY <1>1, <1>4, <1>6, <4>1
        <4>3. o3 # 0 => q3 = x * (4 - o3) + x * o3
          BY <1>3, <4>2
        <4>4. QED
          BY <1>3, <3>2, <4>2, <4>3
      <3>3. QED
        BY <3>1, <3>2
    <2>3. ~(8 * o <= 2 * q3 + 3 * (q3 - q1))
      BY <1>1, <1>6, <2>1, <2>2
    <2>4. ~WithinFences(odd, q1, q3)
      BY <2>3 DEF WithinFences, o
    <2>5. QED
      BY <1>5, <2>4
  <1>7. CASE o < x
    <2>1. q3 = 4 * x
      <3>1. k3 \in 2 .. n /\ (o3 # 0 => k3 + 1 \in 2 .. n)
        BY <1>1
      <3>. HIDE DEF k3, o3
      <3>2. at(k3) = x /\ (o3 # 0 => at(k3 + 1) = x)
        BY <1>1, <1>4, <1>7, <3>1
      <3>3. o3 # 0 => q3 = x * (4 - o3) + x * o3
        BY <1>3, <3>2
      <3>4. QED
        BY <1>3, <3>2, <3>3
    <2>2. q1 = IF n = 4 THEN o + 3 * x ELSE 4 * x
      <3>1. CASE n = 4
        <4>1. k1 = 1 /\ o1 = 3 /\ k1 + 1 = 2
          BY <3>1
        <4>2. at(1) = o /\ at(2) = x
          BY <1>4, <1>7, <3>1
        <4>3. q1 = at(1) * (4 - 3) + at(2) * 3
          BY <1>2, <4>1
        <4>4. QED
          BY <1>1, <3>1, <4>2, <4>3
      <3>2. CASE n # 4
        <4>1. k1 \in 2 .. n /\ (o1 # 0 => k1 + 1 \in 2 .. n)
          BY <1>1, <3>2
        <4>. HIDE DEF k1, o1
        <4>2. at(k1) = x /\ (o1 # 0 => at(k1 + 1) = x)
          BY <1>1, <1>4, <1>7, <4>1
        <4>3. o1 # 0 => q1 = x * (4 - o1) + x * o1
          BY <1>2, <4>2
        <4>4. QED
          BY <1>2, <3>2, <4>2, <4>3
      <3>3. QED
        BY <3>1, <3>2
    <2>3. ~(2 * q1 - 3 * (q3 - q1) <= 8 * o)
      BY <1>1, <1>7, <2>1, <2>2
    <2>4. ~WithinFences(odd, q1, q3)
      BY <2>3 DEF WithinFences, o
    <2>5. QED
      BY <1>5, <2>4
  <1>8. CASE o = x
    <2>1. \A s \in sales : s.price = x
      BY <1>8 DEF o
    <2>2. QED
      BY <1>5, <2>1
  <1>9. QED
    BY <1>1, <1>6, <1>7, <1>8

-----------------------------------------------------------------------------
(* What is judged.                                                         *)

\* The scan's report values the comps it names, and values nothing without any.
ReportIsSound ==
  \A j \in judged :
    /\ j.comps \in SUBSET Sales
    /\ j.worth = IF j.comps = {} THEN None ELSE Value(j.comps)

LEMMA ReportHolds == Spec => []ReportIsSound
  <1>1. Init => ReportIsSound
    BY DEF Init, ReportIsSound
  <1>2. ReportIsSound /\ [Next]_vars => ReportIsSound'
    <2>. SUFFICES ASSUME ReportIsSound, [Next]_vars PROVE ReportIsSound'
      OBVIOUS
    <2>1. CASE Scan
      <3>1. PICK items \in SUBSET Items, market \in SUBSET Sales, answered \in SUBSET Queries :
              judged' = RunScan(items, market, answered)
        BY <2>1 DEF Scan
      <3>2. SUFFICES ASSUME NEW j \in RunScan(items, market, answered)
                     PROVE  /\ j.comps \in SUBSET Sales
                            /\ j.worth = IF j.comps = {} THEN None ELSE Value(j.comps)
        BY <3>1 DEF ReportIsSound
      <3>3. PICK i \in ToListings(items) :
              j = Judge(i, IF QueryFor(i) \in answered THEN market ELSE {})
        BY DEF RunScan
      <3>. DEFINE answer == IF QueryFor(i) \in answered THEN market ELSE {}
                  comps == IF Contender(i) THEN SelectComps(QueryFor(i), answer) ELSE {}
                  worth == IF comps = {} THEN None ELSE Value(comps)
      <3>4. j = [item |-> i, asked |-> Contender(i), comps |-> comps, worth |-> worth,
                 verdict |-> Verdict(i, worth)]
        BY <3>3 DEF Judge
      <3>5. comps \in SUBSET Sales
        BY DEF SelectComps
      <3>. HIDE DEF comps
      <3>6. QED
        BY <3>4, <3>5
    <2>2. CASE PassOver
      BY <2>2 DEF PassOver, ReportIsSound
    <2>3. CASE UNCHANGED judged
      BY <2>3 DEF ReportIsSound
    <2>4. QED
      BY <2>1, <2>2, <2>3 DEF Next, Buy, buyVars, vars
  <1>3. QED
    BY <1>1, <1>2, PTL DEF Spec

\* A valuation is not the absence of one.
LEMMA ValuedIsSome ==
  ASSUME NEW sales \in SUBSET Sales,
         Cardinality(TrimOutliers(Usable(sales))) >= MinComps
  PROVE  Value(sales) # None
  <1>. DEFINE kept == TrimOutliers(Usable(sales))
              low == Percentile(kept, 25)
              top == Percentile(kept, 60)
  <1>1. kept \in SUBSET Sales
    BY DEF TrimOutliers, Usable
  <1>2. Cardinality(kept) \in Nat /\ Cardinality(kept) >= 1 /\ MinComps \in Nat
    BY <1>1, PlacesCount, BuyScanAssumption
  <1>3. low \in Price /\ top \in Price
    <2>. HIDE DEF kept
    <2>1. QED
      BY <1>1, <1>2, PercentileIsPrice
  <1>4. Value(sales) = [p25 |-> low, p60 |-> Max({low, top}),
                        timed |-> \E s \in Usable(sales) : Timed(s)]
    BY <1>2 DEF Value
  <1>. HIDE DEF kept, low, top
  <1>5. Max({low, top}) \in Price
    <2>1. low \in Int /\ top \in Int
      BY <1>3, FeeModelAssumption DEF Price
    <2>2. Max({low, top}) \in {low, top}
      BY <2>1, MaxOfTwo
    <2>3. QED
      BY <1>3, <2>2
  <1>. DEFINE timed == \E s \in Usable(sales) : Timed(s)
  <1>6. timed \in BOOLEAN
    OBVIOUS
  <1>. HIDE DEF timed
  <1>7. [p25 |-> low, p60 |-> Max({low, top}), timed |-> timed]
          \in [p25 : Price, p60 : Price, timed : BOOLEAN]
    BY <1>3, <1>5, <1>6
  <1>8. QED
    BY <1>4, <1>7, BuyScanAssumption DEF timed

\* Where no more than three comps are asked for, as they are by default (min_comp_n),
\* trimming outliers never costs a listing its valuation, whatever was paid for them.
THEOREM TrimmingNeverRefuses == MinComps <= 3 => (Spec => []FenceNeverRefuses)
  <1>. SUFFICES ASSUME MinComps <= 3 PROVE Spec => []FenceNeverRefuses
    OBVIOUS
  <1>1. ReportIsSound => FenceNeverRefuses
    <2>. SUFFICES ASSUME ReportIsSound, NEW j \in judged,
                         Cardinality(Usable(j.comps)) >= MinComps
                  PROVE  j.worth # None
      BY DEF FenceNeverRefuses
    <2>1. j.comps \in SUBSET Sales /\ j.worth = IF j.comps = {} THEN None ELSE Value(j.comps)
      BY DEF ReportIsSound
    <2>2. Usable(j.comps) \in SUBSET Sales
      BY <2>1 DEF Usable
    <2>3. Cardinality(Usable(j.comps)) \in Nat /\ MinComps \in Nat /\ MinComps >= 1
      BY <2>2, PlacesCount, BuyScanAssumption
    <2>4. j.comps # {}
      <3>1. j.comps = {} => Usable(j.comps) = {}
        BY DEF Usable
      <3>2. QED
        BY <2>3, <3>1, FS_EmptySet
    <2>5. Cardinality(TrimOutliers(Usable(j.comps))) >= MinComps
      <3>1. CASE Cardinality(Usable(j.comps)) < 3
        BY <2>3, <3>1 DEF TrimOutliers, MinPointsToFence
      <3>2. CASE Cardinality(Usable(j.comps)) >= 3
        <4>1. Cardinality(TrimOutliers(Usable(j.comps))) >= 3
          BY <2>2, <3>2, FenceKeepsThree
        <4>2. TrimOutliers(Usable(j.comps)) \in SUBSET Sales
          BY <2>2 DEF TrimOutliers
        <4>3. Cardinality(TrimOutliers(Usable(j.comps))) \in Nat
          BY <4>2, PlacesCount
        <4>4. QED
          BY <2>3, <4>1, <4>3
      <3>3. QED
        BY <2>3, <3>1, <3>2
    <2>6. QED
      BY <2>1, <2>4, <2>5, ValuedIsSome
  <1>2. QED
    BY <1>1, ReportHolds, PTL

\* For any sales and any odd price, high or low: among three or more usable sales at one
\* price, a bundle or a mispriced lot leaves both percentiles at that price.
THEOREM OddSaleIsFenced == MinComps <= 3 => (Spec => []OneOddSaleMovesNothing)
  <1>. SUFFICES ASSUME MinComps <= 3 PROVE Spec => []OneOddSaleMovesNothing
    OBVIOUS
  <1>1. ReportIsSound => OneOddSaleMovesNothing
    <2>. SUFFICES ASSUME ReportIsSound, NEW j \in judged, NEW odd \in Usable(j.comps),
                         Cardinality(Usable(j.comps) \ {odd}) >= 3,
                         Cardinality({s.price : s \in Usable(j.comps) \ {odd}}) = 1
                  PROVE  /\ j.worth # None
                         /\ {j.worth.p25, j.worth.p60}
                              = {s.price : s \in Usable(j.comps) \ {odd}}
      BY DEF OneOddSaleMovesNothing
    <2>. DEFINE sales == Usable(j.comps)
                prices == {s.price : s \in sales \ {odd}}
                kept == TrimOutliers(sales)
    <2>1. j.comps \in SUBSET Sales /\ j.worth = IF j.comps = {} THEN None ELSE Value(j.comps)
      BY DEF ReportIsSound
    <2>2. sales \in SUBSET Sales /\ odd \in sales /\ j.comps # {}
      BY <2>1 DEF Usable
    <2>3. Cardinality(sales) >= 4
      <3>1. IsFiniteSet(sales) /\ Cardinality(sales) \in Nat
        BY <2>2, PlacesCount
      <3>2. Cardinality(sales \ {odd}) = Cardinality(sales) - 1
        BY <2>2, <3>1, FS_RemoveElement
      <3>3. QED
        BY <3>1, <3>2
    <2>4. PICK x : prices = {x}
      <3>1. \A s \in sales \ {odd} : s.price \in Price
        BY <2>2, BuyScanAssumption DEF SoldObservation
      <3>2. prices \in SUBSET (0 .. MaxPrice)
        BY <3>1 DEF Price
      <3>3. IsFiniteSet(0 .. MaxPrice)
        <4>1. 0 \in Int /\ MaxPrice \in Int
          BY FeeModelAssumption
        <4>2. QED
          BY <4>1, FS_Interval
      <3>4. IsFiniteSet(prices)
        BY <3>2, <3>3, FS_Subset
      <3>5. QED
        BY <3>4, FS_Singleton
    <2>5. x \in Nat /\ \A s \in sales \ {odd} : s.price = x
      <3>1. \A s \in sales \ {odd} : s.price = x /\ s.price \in Nat
        BY <2>2, <2>4, PlacesCount
      <3>2. \E s \in sales \ {odd} : s.price = x
        BY <2>4
      <3>3. QED
        BY <3>1, <3>2
    <2>. HIDE DEF sales
    <2>6. kept \in SUBSET Sales /\ \A s \in kept : s.price = x
      BY <2>2, <2>3, <2>5, FenceDropsTheOdd DEF TrimOutliers
    <2>7. Cardinality(kept) \in Nat /\ Cardinality(kept) >= 3
      <3>1. Cardinality(sales) \in Nat
        BY <2>2, PlacesCount
      <3>2. Cardinality(sales) >= 3
        BY <2>3, <3>1
      <3>3. QED
        BY <2>2, <2>6, <3>2, PlacesCount, FenceKeepsThree
    <2>. HIDE DEF kept
    <2>8. Percentile(kept, 25) = x /\ Percentile(kept, 60) = x
      <3>1. Cardinality(kept) >= 1
        BY <2>7
      <3>2. QED
        BY <2>5, <2>6, <3>1, AgreedPercentile
    <2>9. Max({x, x}) = x
      <3>1. x \in Int
        BY <2>5
      <3>2. Max({x, x}) \in {x, x}
        BY <3>1, MaxOfTwo
      <3>3. QED
        BY <3>2
    <2>10. ~(Cardinality(kept) < MinComps) /\ Cardinality(kept) >= MinComps
      BY <2>7, BuyScanAssumption
    <2>11. Value(j.comps).p25 = x /\ Value(j.comps).p60 = x
      BY <2>8, <2>9, <2>10 DEF Value, kept, sales
    <2>12. Value(j.comps) # None
      BY <2>1, <2>10, ValuedIsSome DEF kept, sales
    <2>13. QED
      BY <2>1, <2>2, <2>4, <2>11, <2>12 DEF sales
  <1>2. QED
    BY <1>1, ReportHolds, PTL

-----------------------------------------------------------------------------
(* The search runs down.                                                   *)

\* How many steps the search can still take, and the command with it.
StepsLeft ==
  CASE search.step = "widen" -> 3 + MaxPrice + (MaxTries - search.tries)
    [] search.step = "halve" -> 2 + (search.high - search.low)
    [] search.step \in {"found", "none"} -> 1
    [] OTHER -> 0

\* There is only so much of it.
LEMMA StepsAreBounded ==
  ASSUME IInv
  PROVE  /\ StepsLeft \in Nat /\ StepsLeft <= 3 + MaxPrice + MaxTries
         /\ search.step # "idle" => StepsLeft > 0
  <1>1. /\ search.low \in Nat /\ search.high \in Nat /\ search.high <= MaxPrice
        /\ search.tries \in Nat /\ search.tries <= MaxTries
        /\ search.step \in Steps /\ MaxTries \in Nat /\ MaxPrice \in Nat
    BY SellNumbers, RepricingAssumption DEF IInv, SellTypeOK, Search, Price
  <1>2. search.step = "halve" => search.low <= search.high
    BY DEF IInv, SearchIsSound
  <1>3. QED
    BY <1>1, <1>2 DEF StepsLeft, Steps

\* Each step of the search leaves less of it.
LEMMA SearchingTakesOne ==
  ASSUME IInv, Searching
  PROVE  /\ StepsLeft' < StepsLeft
         /\ search.step = "halve" /\ search'.step = "halve" =>
              2 * (search'.high - search'.low) <= search.high - search.low
  <1>1. /\ search.low \in Nat /\ search.high \in Nat /\ search.high <= MaxPrice
        /\ search.tries \in Nat /\ search.tries <= MaxTries
        /\ search \in Search /\ MaxTries \in Nat /\ MaxPrice \in Nat
    BY SellNumbers, RepricingAssumption DEF IInv, SellTypeOK, Search, Price
  <1>2. CASE Widen
    <2>1. /\ search.step = "widen" /\ search'.step = "widen"
          /\ search'.tries = search.tries + 1
      BY <1>1, <1>2 DEF Widen, Search
    <2>2. QED
      BY <1>1, <2>1 DEF StepsLeft
  <1>3. CASE GiveUp
    <2>1. search.step = "widen" /\ search'.step = "none"
      BY <1>1, <1>3 DEF GiveUp, Search
    <2>2. QED
      BY <1>1, <2>1 DEF StepsLeft
  <1>4. CASE WideEnough
    <2>1. /\ search.step = "widen" /\ search'.step = "halve"
          /\ search'.low = search.low /\ search'.high = search.high
      BY <1>1, <1>4 DEF WideEnough, Search
    <2>2. QED
      BY <1>1, <2>1 DEF StepsLeft
  <1>5. CASE Halve
    <2>. DEFINE mid == (search.low + search.high) \div 2
    <2>1. /\ search.step = "halve" /\ search.low < search.high
          /\ search' = IF Clears(mid, search.outlay) THEN [search EXCEPT !.high = mid]
                       ELSE [search EXCEPT !.low = mid + 1]
      BY <1>5 DEF Halve, AboveMiddle
    <2>2. /\ mid \in Nat /\ search.low <= mid /\ mid < search.high
          /\ 2 * mid <= search.low + search.high /\ search.low + search.high <= 2 * mid + 1
      BY <1>1, <2>1
    <2>. HIDE DEF mid
    <2>3. /\ search'.step = "halve"
          /\ \/ search'.high = mid /\ search'.low = search.low
             \/ search'.high = search.high /\ search'.low = mid + 1
      BY <1>1, <2>1 DEF Search
    <2>4. QED
      BY <1>1, <2>1, <2>2, <2>3 DEF StepsLeft
  <1>6. CASE Meet
    <2>1. search.step = "halve" /\ search'.step = "found" /\ search.low = search.high
      BY <1>1, <1>6 DEF Meet, Search, IInv, SearchIsSound
    <2>2. QED
      BY <1>1, <2>1 DEF StepsLeft
  <1>7. QED
    BY <1>2, <1>3, <1>4, <1>5, <1>6 DEF Searching

\* A break-even search once begun takes a bounded number of steps whatever the fee
\* table says, the doubling of its upper end by the tries, and every comparison
\* halves what is left (break_even_pence). What SearchEnds adds is that the command
\* is not stopped.
THEOREM SearchRunsDown ==
  Spec => /\ [](StepsLeft \in 0 .. 3 + MaxPrice + MaxTries)
          /\ [][ search.step # "idle" /\ search' # search =>
                   /\ StepsLeft' < StepsLeft
                   /\ search.step = "halve" /\ search'.step = "halve" =>
                        2 * (search'.high - search'.low) <= search.high - search.low ]_vars
  <1>1. IInv => StepsLeft \in 0 .. 3 + MaxPrice + MaxTries
    BY StepsAreBounded, SellNumbers, RepricingAssumption
  <1>2. ASSUME IInv, Next, search.step # "idle", search' # search
        PROVE  /\ StepsLeft' < StepsLeft
               /\ search.step = "halve" /\ search'.step = "halve" =>
                    2 * (search'.high - search'.low) <= search.high - search.low
    <2>1. Searching \/ RepriceListing
      BY <1>2 DEF Next, Scan, Buy, List, PassOver, SellNext, sellVars, RepriceBegins,
                  DayPasses, BuyNow, OfferAccepted, Ship
    <2>2. CASE RepriceListing
      <3>1. search'.step = "idle" /\ search.step \in {"found", "none"}
        BY <2>2 DEF RepriceListing, Idle
      <3>2. QED
        BY <3>1 DEF StepsLeft
    <2>3. QED
      BY <1>2, <2>1, <2>2, SearchingTakesOne
  <1>3. IInv /\ [Next]_vars =>
          [ search.step # "idle" /\ search' # search =>
              /\ StepsLeft' < StepsLeft
              /\ search.step = "halve" /\ search'.step = "halve" =>
                   2 * (search'.high - search'.low) <= search.high - search.low ]_vars
    BY <1>2, Zenon
  <1>4. QED
    BY <1>1, <1>3, InvariantHolds, PTL DEF Spec
=============================================================================
