----------------------------- MODULE BooksProofs -----------------------------
(***************************************************************************)
(* What Books and FeeTables promise of any tables, components, line items  *)
(* and bounds. The median is an order statistic that CHOOSE picks, so the  *)
(* first part shows that there is one to pick, and that only one is. The   *)
(* totals are sums over sets: before anything is proved of one, the part   *)
(* on sums shows what a sum is, by the smallest set on which it would not  *)
(* be. The rest is induction over the steps.                               *)
(***************************************************************************)
EXTENDS Books, FiniteSetTheorems, NaturalsInduction, WellFoundedInduction, TLAPS

Below(S, f, v) == {x \in S : f[x] < v}
UpTo(S, f, v) == {x \in S : f[x] <= v}

-----------------------------------------------------------------------------
(* Order statistics.                                                       *)

\* A non-empty set of naturals has a least element.
LEMMA LeastOfNaturals ==
  ASSUME NEW T \in SUBSET Nat, T # {}
  PROVE  \E k \in T : \A j \in T : k <= j
  <1>. DEFINE R == OpToRel(<, Nat)
  <1>1. IsWellFoundedOn(R, Nat)
    BY NatLessThanWellFounded
  <1>2. \A x, y \in Nat : x < y => <<x, y>> \in R
    BY DEF OpToRel
  <1>. HIDE DEF R
  <1>3. PICK k \in T : \A y \in T : ~ (<<y, k>> \in R)
    BY <1>1, WFMin, Zenon
  <1>4. \A j \in T : ~ (j < k)
    BY <1>2, <1>3, Zenon
  <1>5. QED
    BY <1>4

\* A finite set of observations has a greatest one: the one with the fewest
\* observations above it.
LEMMA GreatestObservation ==
  ASSUME NEW S, IsFiniteSet(S), S # {}, NEW f, \A x \in S : f[x] \in Nat
  PROVE  \E y \in S : \A x \in S : f[x] <= f[y]
  <1>. DEFINE Above(y) == {x \in S : f[x] > f[y]}
              Counts == {Cardinality(Above(y)) : y \in S}
  <1>1. \A y \in S : IsFiniteSet(Above(y)) /\ Cardinality(Above(y)) \in Nat
    BY FS_Subset, FS_CardinalityType
  <1>2. PICK y \in S : \A z \in S : Cardinality(Above(y)) <= Cardinality(Above(z))
    <2>1. Counts \in SUBSET Nat /\ Counts # {}
      BY <1>1
    <2>2. PICK k \in Counts : \A j \in Counts : k <= j
      BY <2>1, LeastOfNaturals
    <2>3. QED
      BY <2>2
  <1>3. Above(y) = {}
    <2>1. SUFFICES ASSUME NEW z \in Above(y) PROVE FALSE
      OBVIOUS
    <2>2. Above(z) \in SUBSET Above(y) /\ z \notin Above(z) /\ z \in S
      BY <2>1
    <2>3. Cardinality(Above(z)) < Cardinality(Above(y))
      <3>1. IsFiniteSet(Above(y)) /\ Cardinality(Above(y)) \in Nat /\ Cardinality(Above(z)) \in Nat
        BY <1>1, <2>2
      <3>2. Above(y) # Above(z)
        BY <2>1, <2>2
      <3>. HIDE DEF Above
      <3>3. Cardinality(Above(z)) <= Cardinality(Above(y))
            /\ Cardinality(Above(y)) # Cardinality(Above(z))
        BY <2>2, <3>1, <3>2, FS_Subset
      <3>4. QED
        BY <3>1, <3>3
    <2>4. Cardinality(Above(y)) <= Cardinality(Above(z))
      BY <1>2, <2>2
    <2>5. Cardinality(Above(y)) \in Nat /\ Cardinality(Above(z)) \in Nat
      BY <1>1, <2>2
    <2>. HIDE DEF Above
    <2>6. QED
      BY <2>3, <2>4, <2>5
  <1>4. QED
    BY <1>3

\* There is a k-th smallest observation.
LEMMA RankExists ==
  ASSUME NEW S, IsFiniteSet(S), NEW f, \A x \in S : f[x] \in Nat,
         NEW k \in Nat \ {0}, k <= Cardinality(S)
  PROVE  \E v \in {f[x] : x \in S} :
           Cardinality(Below(S, f, v)) < k /\ k <= Cardinality(UpTo(S, f, v))
  <1>. DEFINE V == {f[x] : x \in S}
              Enough == {v \in V : k <= Cardinality(UpTo(S, f, v))}
  <1>1. S # {}
    BY FS_EmptySet
  <1>2. Enough # {}
    <2>1. PICK y \in S : \A x \in S : f[x] <= f[y]
      BY <1>1, GreatestObservation
    <2>2. UpTo(S, f, f[y]) = S
      BY <2>1 DEF UpTo
    <2>3. QED
      BY <2>2
  <1>3. PICK v \in Enough : \A w \in Enough : v <= w
    BY <1>2, LeastOfNaturals
  <1>4. ASSUME k <= Cardinality(Below(S, f, v)) PROVE FALSE
    <2>. DEFINE B == Below(S, f, v)
    <2>1. IsFiniteSet(B) /\ B \subseteq S
      BY FS_Subset DEF Below
    <2>2. B # {}
      BY <1>4, FS_EmptySet
    <2>3. PICK y \in B : \A x \in B : f[x] <= f[y]
      <3>. HIDE DEF B
      <3>1. QED
        BY <2>1, <2>2, GreatestObservation
    <2>4. y \in S /\ f[y] < v /\ f[y] \in V /\ v \in Nat
      BY <2>3 DEF Below
    <2>5. UpTo(S, f, f[y]) = B
      BY <2>3, <2>4 DEF Below, UpTo
    <2>6. f[y] \in Enough
      BY <1>4, <2>4, <2>5
    <2>7. QED
      BY <1>3, <2>4, <2>6
  <1>5. IsFiniteSet(Below(S, f, v))
    BY FS_Subset DEF Below
  <1>6. Cardinality(Below(S, f, v)) < k
    BY <1>4, <1>5, FS_CardinalityType
  <1>7. QED
    BY <1>3, <1>6

\* And only one.
LEMMA RankIsUnique ==
  ASSUME NEW S, IsFiniteSet(S), NEW f, NEW k \in Nat,
         NEW u \in Nat, Cardinality(Below(S, f, u)) < k, k <= Cardinality(UpTo(S, f, u)),
         NEW v \in Nat, Cardinality(Below(S, f, v)) < k, k <= Cardinality(UpTo(S, f, v)),
         \A x \in S : f[x] \in Nat
  PROVE  u = v
  <1>1. ASSUME NEW a \in Nat, NEW b \in Nat, a < b,
               Cardinality(Below(S, f, b)) < k, k <= Cardinality(UpTo(S, f, a))
        PROVE FALSE
    <2>1. UpTo(S, f, a) \in SUBSET Below(S, f, b) /\ Below(S, f, b) \in SUBSET S
      BY <1>1 DEF UpTo, Below
    <2>2. IsFiniteSet(Below(S, f, b)) /\ IsFiniteSet(UpTo(S, f, a))
      BY <2>1, FS_Subset
    <2>3. Cardinality(UpTo(S, f, a)) <= Cardinality(Below(S, f, b))
      BY <2>1, <2>2, FS_Subset
    <2>4. QED
      BY <1>1, <2>2, <2>3, FS_CardinalityType
  <1>2. ~(u < v) /\ ~(v < u)
    BY <1>1
  <1>3. QED
    BY <1>2

-----------------------------------------------------------------------------
(* The median.                                                             *)

\* What CHOOSE picks is the k-th smallest.
LEMMA AtRankHolds ==
  ASSUME NEW S \in SUBSET Txn, NEW c, \A x \in S : Charged[x][c] \in Nat,
         NEW k \in Nat \ {0}, k <= Cardinality(S)
  PROVE  LET v == AtRank(S, c, k)
             f == [x \in S |-> Charged[x][c]]
         IN  v \in Nat /\ Cardinality(Below(S, f, v)) < k /\ k <= Cardinality(UpTo(S, f, v))
  <1>. DEFINE f == [x \in S |-> Charged[x][c]]
              IsRank(v) == Cardinality({x \in S : Charged[x][c] < v}) < k
                             /\ k <= Cardinality({x \in S : Charged[x][c] <= v})
  <1>1. IsFiniteSet(S)
    BY FeeAssumption, FS_Subset
  <1>2. \A v : Below(S, f, v) = {x \in S : Charged[x][c] < v}
               /\ UpTo(S, f, v) = {x \in S : Charged[x][c] <= v}
    BY DEF Below, UpTo
  <1>3. {f[x] : x \in S} = {Charged[x][c] : x \in S}
    OBVIOUS
  <1>4. \A x \in S : f[x] \in Nat
    OBVIOUS
  <1>5. \E v \in {f[x] : x \in S} :
          Cardinality(Below(S, f, v)) < k /\ k <= Cardinality(UpTo(S, f, v))
    <2>. HIDE DEF f
    <2>1. QED
      BY <1>1, <1>4, RankExists
  <1>6. \E v \in {Charged[x][c] : x \in S} : IsRank(v)
    BY <1>2, <1>3, <1>5
  <1>7. AtRank(S, c, k) \in {Charged[x][c] : x \in S} /\ IsRank(AtRank(S, c, k))
    <2>1. AtRank(S, c, k) = CHOOSE v \in {Charged[x][c] : x \in S} : IsRank(v)
      BY DEF AtRank
    <2>. HIDE DEF IsRank
    <2>2. QED
      BY <1>6, <2>1
  <1>8. QED
    BY <1>2, <1>7

\* The two middle ranks are ranks.
LEMMA MiddleRanks ==
  ASSUME NEW n \in Nat, n # 0
  PROVE  /\ (n + 1) \div 2 \in Nat \ {0} /\ (n + 1) \div 2 <= n
         /\ (n + 2) \div 2 \in Nat \ {0} /\ (n + 2) \div 2 <= n
         /\ n <= 2 * ((n + 1) \div 2) /\ 2 * ((n + 2) \div 2) <= n + 2
         /\ (n + 1) \div 2 <= (n + 2) \div 2
  OBVIOUS

\* The median of observations is a natural.
LEMMA MedianIsNatural ==
  ASSUME NEW S \in SUBSET Txn, S # {}, NEW c, \A x \in S : Charged[x][c] \in Nat
  PROVE  Median(S, c) \in Nat
  <1>. DEFINE n == Cardinality(S)
  <1>1. n \in Nat /\ n # 0
    BY FeeAssumption, FS_Subset, FS_CardinalityType, FS_EmptySet
  <1>. HIDE DEF n
  <1>2. AtRank(S, c, (n + 1) \div 2) \in Nat /\ AtRank(S, c, (n + 2) \div 2) \in Nat
    BY <1>1, MiddleRanks, AtRankHolds DEF n
  <1>. DEFINE lower == AtRank(S, c, (n + 1) \div 2)
              upper == AtRank(S, c, (n + 2) \div 2)
  <1>. HIDE DEF lower, upper
  <1>3. (lower + upper + 1) \div 2 \in Nat
    BY <1>2 DEF lower, upper
  <1>4. QED
    BY <1>3 DEF Median, lower, upper, n

\* When more than half of the observations agree, both middle ranks hold what
\* they agree on, and so does the median.
LEMMA MedianOfMajority ==
  ASSUME NEW S \in SUBSET Txn, NEW c, \A x \in S : Charged[x][c] \in Nat,
         NEW v \in {Charged[x][c] : x \in S},
         2 * Cardinality({x \in S : Charged[x][c] = v}) > Cardinality(S)
  PROVE  Median(S, c) = v
  <1>. DEFINE f == [x \in S |-> Charged[x][c]]
              n == Cardinality(S)
              agree == Cardinality({x \in S : Charged[x][c] = v})
              below == Cardinality(Below(S, f, v))
              upto == Cardinality(UpTo(S, f, v))
  <1>1. IsFiniteSet(S) /\ n \in Nat /\ n # 0 /\ v \in Nat
    BY FeeAssumption, FS_Subset, FS_CardinalityType, FS_EmptySet
  <1>2. /\ agree \in Nat /\ below \in Nat /\ upto \in Nat
        /\ below + agree = upto /\ upto <= n
    <2>. DEFINE E == {x \in S : Charged[x][c] = v}
                B == Below(S, f, v)
    <2>1. UpTo(S, f, v) = B \cup E /\ B \cap E = {} /\ B \subseteq S /\ E \subseteq S
      BY <1>1 DEF Below, UpTo
    <2>2. IsFiniteSet(B) /\ IsFiniteSet(E) /\ IsFiniteSet(B \cup E)
      BY <1>1, <2>1, FS_Subset, FS_Union
    <2>3. Cardinality(B \cup E) = Cardinality(B) + Cardinality(E)
      <3>. HIDE DEF B, E
      <3>1. Cardinality(B \cup E) = Cardinality(B) + Cardinality(E) - Cardinality(B \cap E)
        BY <2>2, FS_Union
      <3>2. Cardinality(B \cap E) = 0 /\ Cardinality(B) \in Nat /\ Cardinality(E) \in Nat
        BY <2>1, <2>2, FS_EmptySet, FS_CardinalityType
      <3>3. QED
        BY <3>1, <3>2
    <2>4. QED
      BY <1>1, <2>1, <2>2, <2>3, FS_Subset, FS_CardinalityType
  <1>3. 2 * agree > n
    OBVIOUS
  <1>4. \A x \in S : f[x] \in Nat
    OBVIOUS
  <1>5. ASSUME NEW k \in Nat \ {0}, k <= n, n <= 2 * k, 2 * k <= n + 2
        PROVE  AtRank(S, c, k) = v
    <2>1. below < k /\ k <= upto
      <3>. HIDE DEF n, agree, below, upto
      <3>1. QED
        BY <1>1, <1>2, <1>3, <1>5
    <2>2. LET u == AtRank(S, c, k)
          IN  u \in Nat /\ Cardinality(Below(S, f, u)) < k /\ k <= Cardinality(UpTo(S, f, u))
      BY <1>5, AtRankHolds
    <2>. HIDE DEF f
    <2>3. QED
      BY <1>1, <1>4, <2>1, <2>2, RankIsUnique
  <1>6. AtRank(S, c, (n + 1) \div 2) = v /\ AtRank(S, c, (n + 2) \div 2) = v
    <2>. HIDE DEF n
    <2>1. QED
      BY <1>1, <1>5, MiddleRanks
  <1>7. (v + v + 1) \div 2 = v
    BY <1>1
  <1>8. QED
    BY <1>6, <1>7 DEF Median

-----------------------------------------------------------------------------
(* The steps.                                                              *)

\* Nothing was bought in the future: what a sale today rests on.
BoughtInThePast == \A r \in Stock : inventory[r].acquired <= today

\* What is measured on disk, and what a reconcile is about to write, rests on enough
\* sales. A table that says it is measured is not yet evidence: it is what the rail
\* reads, so the floor has to hold from the fit to the write.
RestsOnEnoughSales ==
  /\ job.step # "idle" => job.text.sales >= MinSettlements
  /\ \A t \in Table :
       disk[t].whole /\ ~disk[t].provisional => disk[t].sales >= MinSettlements

IInv == TypeOK /\ RestsOnEnoughSales /\ MajorityDecides /\ BoughtInThePast

\* What a line item says of a component it was sampled for is a number.
LEMMA SamplesAreNumbers ==
  ASSUME NEW file \in SUBSET Txn, NEW c \in Component
  PROVE  /\ Samples(file, c) \in SUBSET Txn
         /\ \A x \in Samples(file, c) : Charged[x][c] \in Nat
  BY FeeAssumption DEF Samples, Sales

\* What a reconcile fits is a table.
LEMMA CorrectedIsContent ==
  ASSUME FeeTypeOK, NEW t \in Table, NEW file \in SUBSET Txn
  PROVE  Corrected(t, file) \in Content
  <1>1. disk[t] \in Content /\ Observed(t, file) \in SUBSET Component
    BY FeeAssumption DEF FeeTypeOK, Observed
  <1>2. ASSUME NEW c \in Component
        PROVE  (IF c \in Observed(t, file) THEN Median(Samples(file, c), c)
                                           ELSE disk[t].value[c]) \in Nat
    <2>1. CASE c \in Observed(t, file)
      <3>1. Samples(file, c) # {}
        BY <2>1 DEF Observed
      <3>2. Median(Samples(file, c), c) \in Nat
        BY <3>1, SamplesAreNumbers, MedianIsNatural
      <3>3. QED
        BY <2>1, <3>2
    <2>2. CASE c \notin Observed(t, file)
      BY <1>1, <2>2 DEF Content
    <2>3. QED
      BY <2>1, <2>2
  <1>3. [c \in Component |-> IF c \in Observed(t, file) THEN Median(Samples(file, c), c)
                                                        ELSE disk[t].value[c]]
          \in [Component -> Nat]
    BY <1>2
  <1>4. disk[t].fitted \cup Observed(t, file) \in SUBSET Component
    BY <1>1 DEF Content
  <1>5. Cardinality({x \in file : IsSale[x]}) \in Nat
    <2>1. IsFiniteSet(file)
      BY FeeAssumption, FS_Subset
    <2>2. IsFiniteSet({x \in file : IsSale[x]})
      BY <2>1, FS_Subset
    <2>3. QED
      BY <2>2, FS_CardinalityType
  <1>6. QED
    BY <1>3, <1>4, <1>5 DEF Corrected, Content

\* Its values are what most of the observations agree on.
LEMMA CorrectedFollowsMajority ==
  ASSUME NEW t \in Table, NEW file \in SUBSET Txn, NEW c \in Parts[t],
         NEW v \in {Charged[x][c] : x \in Samples(file, c)},
         2 * Cardinality({x \in Samples(file, c) : Charged[x][c] = v})
           > Cardinality(Samples(file, c))
  PROVE  Corrected(t, file).value[c] = v
  <1>1. c \in Component
    BY FeeAssumption
  <1>2. c \in Observed(t, file)
    BY DEF Observed
  <1>3. Median(Samples(file, c), c) = v
    BY <1>1, SamplesAreNumbers, MedianOfMajority
  <1>4. QED
    BY <1>1, <1>2, <1>3 DEF Corrected

\* The steps of a reconcile keep the tables and the job.
LEMMA FeeStep ==
  ASSUME FeeTypeOK, RestsOnEnoughSales, MajorityDecides, FeeNext
  PROVE  FeeTypeOK' /\ RestsOnEnoughSales' /\ MajorityDecides'
  <1>1. ASSUME NEW t \in Table, NEW file \in SUBSET Txn, ReconcileFees(t, file)
        PROVE  FeeTypeOK' /\ RestsOnEnoughSales' /\ MajorityDecides'
    <2>1. job' = [step |-> "fitted", table |-> t, file |-> file, text |-> Corrected(t, file)]
          /\ disk' = disk
      BY <1>1 DEF ReconcileFees
    <2>2. FeeTypeOK'
      BY <2>1, CorrectedIsContent DEF FeeTypeOK
    <2>3. RestsOnEnoughSales'
      BY <1>1, <2>1 DEF RestsOnEnoughSales, ReconcileFees, Sales, Corrected
    <2>4. MajorityDecides'
      <3>1. ASSUME NEW c \in Parts[t],
                   NEW v \in {Charged[x][c] : x \in Samples(file, c)},
                   2 * Cardinality({x \in Samples(file, c) : Charged[x][c] = v})
                     > Cardinality(Samples(file, c))
            PROVE  job'.text.value[c] = v
        BY <2>1, <3>1, CorrectedFollowsMajority
      <3>2. job'.table = t /\ job'.file = file
        BY <2>1
      <3>3. QED
        BY <3>1, <3>2 DEF MajorityDecides
    <2>5. QED
      BY <2>2, <2>3, <2>4
  <1>2. ASSUME OpenTable PROVE FeeTypeOK' /\ RestsOnEnoughSales' /\ MajorityDecides'
    <2>1. /\ job.step = "fitted" /\ job.table \in Table
          /\ job'.step = "writing" /\ job'.table = job.table /\ job'.file = job.file
          /\ job'.text = job.text /\ job' = [job EXCEPT !.step = "writing"]
      BY <1>2 DEF OpenTable, FeeTypeOK
    <2>2. [disk[job.table] EXCEPT !.whole = FALSE, !.sales = 0] \in Content
      BY <2>1 DEF FeeTypeOK, Content
    <2>3. FeeTypeOK'
      <3>1. disk' \in [Table -> Content]
        BY <1>2, <2>1, <2>2 DEF OpenTable, FeeTypeOK
      <3>2. job' \in [step : {"idle", "fitted", "writing"}, table : Table \cup {None},
                      file : SUBSET Txn, text : Content]
        BY <2>1 DEF FeeTypeOK
      <3>3. QED
        BY <2>1, <3>1, <3>2 DEF FeeTypeOK
    <2>4. RestsOnEnoughSales'
      <3>1. \A t \in Table : IF t = job.table THEN ~disk'[t].whole ELSE disk'[t] = disk[t]
        BY <1>2, <2>1 DEF OpenTable, FeeTypeOK, Content
      <3>2. \A t \in Table : disk'[t].whole /\ ~disk'[t].provisional
                               => disk'[t].sales >= MinSettlements
        BY <3>1 DEF RestsOnEnoughSales
      <3>3. QED
        BY <2>1, <3>2 DEF RestsOnEnoughSales
    <2>5. MajorityDecides'
      BY <2>1 DEF MajorityDecides
    <2>6. QED
      BY <2>3, <2>4, <2>5
  <1>3. Shipped \in Content
    BY FeeAssumption DEF Shipped, Content
  <1>4. ASSUME job' = IdleJob, disk' \in [Table -> Content],
               \A t \in Table : disk'[t].whole /\ ~disk'[t].provisional
                                 => disk'[t].sales >= MinSettlements
        PROVE  FeeTypeOK' /\ RestsOnEnoughSales' /\ MajorityDecides'
    BY <1>3, <1>4 DEF IdleJob, FeeTypeOK, RestsOnEnoughSales, MajorityDecides
  <1>5. ASSUME WriteTable PROVE FeeTypeOK' /\ RestsOnEnoughSales' /\ MajorityDecides'
    <2>1. /\ job.text \in Content /\ job.step # "idle"
          /\ disk' = [disk EXCEPT ![job.table] = job.text]
      BY <1>5 DEF WriteTable, FeeTypeOK
    <2>2. \A t \in Table : disk'[t] = IF t = job.table THEN job.text ELSE disk[t]
      BY <2>1 DEF FeeTypeOK
    <2>3. \A t \in Table : disk'[t].whole /\ ~disk'[t].provisional
                             => disk'[t].sales >= MinSettlements
      BY <2>1, <2>2 DEF RestsOnEnoughSales
    <2>4. QED
      BY <1>4, <1>5, <2>1, <2>3 DEF WriteTable, FeeTypeOK
  <1>6. ASSUME ReconcileDies PROVE FeeTypeOK' /\ RestsOnEnoughSales' /\ MajorityDecides'
    BY <1>4, <1>6 DEF ReconcileDies, FeeTypeOK, RestsOnEnoughSales
  <1>7. ASSUME NEW t \in Table, Restore(t)
        PROVE  FeeTypeOK' /\ RestsOnEnoughSales' /\ MajorityDecides'
    <2>1. job' = job /\ disk' = [disk EXCEPT ![t] = Shipped] /\ job.step = "idle"
      BY <1>7 DEF Restore
    <2>2. FeeTypeOK'
      BY <1>3, <2>1 DEF FeeTypeOK
    <2>3. \A u \in Table : disk'[u] = IF u = t THEN Shipped ELSE disk[u]
      BY <2>1 DEF FeeTypeOK
    <2>4. \A u \in Table : disk'[u].whole /\ ~disk'[u].provisional
                             => disk'[u].sales >= MinSettlements
      BY <2>3 DEF Shipped, RestsOnEnoughSales
    <2>5. QED
      BY <2>1, <2>2, <2>4 DEF RestsOnEnoughSales, MajorityDecides
  <1>8. ASSUME NEW payload \in SUBSET Txn PROVE ParseTransactions(payload) \in SUBSET Txn
    BY DEF ParseTransactions
  <1>9. QED
    BY <1>1, <1>2, <1>5, <1>6, <1>7, <1>8 DEF FeeNext

\* A new row is a row, and the others stay: what every step that writes one row
\* does to the inventory.
LEMMA RowWritten ==
  ASSUME IInv, NEW r \in Row, NEW rec \in RowRecord,
         inventory' = [inventory EXCEPT ![r] = rec],
         rec.acquired <= today,
         rec.sold # None => rec.gross # None /\ rec.acquired <= rec.sold,
         rec.sold = None => rec.fees = None,
         UNCHANGED <<feeVars, today>>, decisions' \in 0 .. MaxDecisions
  PROVE  IInv'
  <1>1. inventory' \in [Row -> RowRecord \cup {None}]
    BY DEF IInv, TypeOK
  <1>2. \A q \in Row : inventory'[q] = IF q = r THEN rec ELSE inventory[q]
    BY DEF IInv, TypeOK
  <1>3. FeeTypeOK' /\ RestsOnEnoughSales' /\ MajorityDecides'
    BY DEF IInv, TypeOK, feeVars, FeeTypeOK, RestsOnEnoughSales, MajorityDecides
  <1>4. \A q \in SoldRows' : inventory'[q].gross # None
                              /\ inventory'[q].acquired <= inventory'[q].sold
    BY <1>2 DEF IInv, TypeOK, SoldRows, Stock
  <1>5. \A q \in Unsold' : inventory'[q].fees = None
    BY <1>2 DEF IInv, TypeOK, Unsold, SoldRows, Stock
  <1>6. BoughtInThePast'
    BY <1>2 DEF IInv, BoughtInThePast, Stock
  <1>7. today' \in Day
    BY DEF IInv, TypeOK
  <1>8. QED
    BY <1>1, <1>3, <1>4, <1>5, <1>6, <1>7 DEF IInv, TypeOK

\* Every step keeps the invariant.
LEMMA StepKeepsIInv ==
  ASSUME IInv, Next
  PROVE  IInv'
  <1>. USE DEF Day
  <1>1. today \in Day /\ decisions \in 0 .. MaxDecisions /\ None \notin Nat
    BY FeeAssumption DEF IInv, TypeOK
  <1>2. CASE FeeNext /\ UNCHANGED bookVars
    <2>1. FeeTypeOK' /\ RestsOnEnoughSales' /\ MajorityDecides'
      BY <1>2, FeeStep DEF IInv, TypeOK
    <2>2. QED
      BY <1>2, <2>1 DEF IInv, TypeOK, bookVars, BoughtInThePast, Stock, SoldRows, Unsold
  <1>3. ASSUME NEW r \in Row, Buy(r) PROVE IInv'
    <2>1. PICK cost \in Spend \cup {0} :
            inventory' = [inventory EXCEPT ![r] =
              [cost |-> cost, acquired |-> today, sold |-> None, gross |-> None,
               fees |-> None, ship |-> None, synthetic |-> FALSE]]
      BY <1>3 DEF Buy
    <2>. DEFINE rec == [cost |-> cost, acquired |-> today, sold |-> None, gross |-> None,
                        fees |-> None, ship |-> None, synthetic |-> FALSE]
    <2>2. rec \in RowRecord
      BY <1>1, BooksAssumption DEF RowRecord
    <2>3. rec.acquired <= today /\ rec.sold = None /\ rec.fees = None
      BY <1>1
    <2>4. decisions' \in 0 .. MaxDecisions /\ UNCHANGED <<feeVars, today>>
      BY <1>1, <1>3, BooksAssumption DEF Buy
    <2>5. inventory' = [inventory EXCEPT ![r] = rec]
      BY <2>1
    <2>. HIDE DEF rec
    <2>6. QED
      BY <2>2, <2>3, <2>4, <2>5, RowWritten
  <1>4. ASSUME NEW r \in Row, SeedSyntheticTrade(r) PROVE IInv'
    <2>1. PICK cost \in Spend, d \in 0 .. today, gross \in Gross, fees \in Fee, ship \in Ship :
          \E s \in (d .. today) \cup {None}, settled \in BOOLEAN :
            inventory' = [inventory EXCEPT ![r] =
              [cost |-> cost, acquired |-> d, sold |-> s, synthetic |-> TRUE,
               gross |-> IF s = None THEN None ELSE gross,
               fees |-> IF SeededSettled(s, settled) THEN fees ELSE None,
               ship |-> IF SeededSettled(s, settled) THEN ship ELSE None]]
      BY <1>4 DEF SeedSyntheticTrade
    <2>2. PICK s \in (d .. today) \cup {None}, settled \in BOOLEAN :
            inventory' = [inventory EXCEPT ![r] =
              [cost |-> cost, acquired |-> d, sold |-> s, synthetic |-> TRUE,
               gross |-> IF s = None THEN None ELSE gross,
               fees |-> IF SeededSettled(s, settled) THEN fees ELSE None,
               ship |-> IF SeededSettled(s, settled) THEN ship ELSE None]]
      BY <2>1
    <2>. DEFINE rec ==
           [cost |-> cost, acquired |-> d, sold |-> s, synthetic |-> TRUE,
            gross |-> IF s = None THEN None ELSE gross,
            fees |-> IF SeededSettled(s, settled) THEN fees ELSE None,
            ship |-> IF SeededSettled(s, settled) THEN ship ELSE None]
    <2>3. rec \in RowRecord
      BY <1>1, BooksAssumption DEF RowRecord
    <2>4. /\ rec.acquired <= today
          /\ rec.sold # None => rec.gross # None /\ rec.acquired <= rec.sold
          /\ rec.sold = None => rec.fees = None
      BY <1>1, BooksAssumption DEF SeededSettled
    <2>5. decisions' \in 0 .. MaxDecisions /\ UNCHANGED <<feeVars, today>>
      BY <1>1, <1>4 DEF SeedSyntheticTrade
    <2>6. inventory' = [inventory EXCEPT ![r] = rec]
      BY <2>2
    <2>. HIDE DEF rec
    <2>7. QED
      BY <2>3, <2>4, <2>5, <2>6, RowWritten
  <1>5. ASSUME NEW r \in Row, Sell(r) PROVE IInv'
    <2>1. PICK gross \in Gross :
            inventory' = [inventory EXCEPT ![r] =
                            [inventory[r] EXCEPT !.sold = today, !.gross = gross]]
      BY <1>5 DEF Sell
    <2>. DEFINE rec == [inventory[r] EXCEPT !.sold = today, !.gross = gross]
    <2>2. r \in Stock /\ inventory[r] \in RowRecord /\ inventory[r].acquired <= today
      BY <1>5 DEF Sell, Unsold, Stock, IInv, TypeOK, BoughtInThePast
    <2>3. rec \in RowRecord /\ rec.sold = today /\ rec.gross = gross
          /\ rec.acquired = inventory[r].acquired
      BY <1>1, <2>2, BooksAssumption DEF RowRecord
    <2>4. today # None /\ gross # None
      BY <1>1, BooksAssumption
    <2>5. decisions' \in 0 .. MaxDecisions /\ UNCHANGED <<feeVars, today>>
      BY <1>1, <1>5 DEF Sell
    <2>6. inventory' = [inventory EXCEPT ![r] = rec]
      BY <2>1
    <2>. HIDE DEF rec
    <2>7. QED
      BY <2>2, <2>3, <2>4, <2>5, <2>6, RowWritten
  <1>6. ASSUME NEW r \in Row, Settle(r) PROVE IInv'
    <2>1. PICK fees \in Fee, ship \in Ship :
            inventory' = [inventory EXCEPT ![r] =
                            [inventory[r] EXCEPT !.fees = fees, !.ship = ship]]
      BY <1>6 DEF Settle
    <2>. DEFINE rec == [inventory[r] EXCEPT !.fees = fees, !.ship = ship]
    <2>2. /\ r \in Stock /\ inventory[r] \in RowRecord /\ inventory[r].acquired <= today
          /\ inventory[r].sold # None /\ inventory[r].gross # None
          /\ inventory[r].acquired <= inventory[r].sold
      BY <1>6 DEF Settle, SoldRows, Stock, IInv, TypeOK, BoughtInThePast
    <2>3. rec \in RowRecord /\ rec.sold = inventory[r].sold /\ rec.gross = inventory[r].gross
          /\ rec.acquired = inventory[r].acquired
      BY <1>1, <2>2, BooksAssumption DEF RowRecord
    <2>4. decisions' \in 0 .. MaxDecisions /\ UNCHANGED <<feeVars, today>>
      BY <1>1, <1>6 DEF Settle
    <2>5. inventory' = [inventory EXCEPT ![r] = rec]
      BY <2>1
    <2>. HIDE DEF rec
    <2>6. QED
      BY <2>2, <2>3, <2>4, <2>5, RowWritten
  <1>7. CASE Skip
    <2>1. decisions' \in 0 .. MaxDecisions
      BY <1>1, <1>7, BooksAssumption DEF Skip
    <2>2. QED
      BY <1>7, <2>1 DEF Skip, feeVars, IInv, TypeOK, FeeTypeOK, RestsOnEnoughSales,
                        MajorityDecides, BoughtInThePast, Stock, SoldRows, Unsold
  <1>8. CASE Tick
    <2>1. today' \in Day /\ today' = today + 1
      BY <1>1, <1>8, BooksAssumption DEF Tick
    <2>2. BoughtInThePast'
      <3>1. SUFFICES ASSUME NEW r \in Stock' PROVE inventory'[r].acquired <= today'
        BY DEF BoughtInThePast
      <3>2. inventory' = inventory /\ r \in Stock
        BY <1>8, <3>1 DEF Tick, Stock
      <3>3. inventory[r].acquired <= today /\ inventory[r].acquired \in Nat
        BY <3>2 DEF IInv, TypeOK, BoughtInThePast, Stock, RowRecord
      <3>4. QED
        BY <1>1, <2>1, <3>2, <3>3
    <2>3. QED
      BY <1>8, <2>1, <2>2 DEF Tick, feeVars, IInv, TypeOK, FeeTypeOK, RestsOnEnoughSales,
                              MajorityDecides, Stock, SoldRows, Unsold
  <1>9. QED
    BY <1>2, <1>3, <1>4, <1>5, <1>6, <1>7, <1>8 DEF Next

LEMMA InvariantHolds == Spec => []IInv
  <1>1. Init => IInv
    <2>1. ASSUME Init PROVE IInv
      <3>1. FeeTypeOK /\ RestsOnEnoughSales /\ MajorityDecides
        BY <2>1, FeeAssumption
        DEF Init, FeeInit, Shipped, IdleJob, Content, FeeTypeOK, RestsOnEnoughSales,
            MajorityDecides
      <3>2. Stock = {} /\ inventory \in [Row -> RowRecord \cup {None}]
        BY <2>1 DEF Init, Stock
      <3>3. decisions \in 0 .. MaxDecisions /\ today \in Day
        BY <2>1, BooksAssumption DEF Init, Day
      <3>4. QED
        BY <3>1, <3>2, <3>3 DEF IInv, TypeOK, BoughtInThePast, SoldRows, Unsold
    <2>2. QED
      BY <2>1
  <1>2. IInv /\ [Next]_vars => IInv'
    <2>1. ASSUME IInv, UNCHANGED vars PROVE IInv'
      BY <2>1 DEF vars, feeVars, bookVars, IInv, TypeOK, FeeTypeOK, RestsOnEnoughSales,
                  MajorityDecides, BoughtInThePast, Stock, SoldRows, Unsold
    <2>2. QED
      BY <2>1, StepKeepsIInv
  <1>3. QED
    BY <1>1, <1>2, PTL DEF Spec

-----------------------------------------------------------------------------
(* The theorems.                                                           *)

\* The tables, the reconcile, the inventory and the clock keep their types, for
\* any tables, line items, rows and bounds.
THEOREM TypeCorrect == Spec => []TypeOK
  <1>1. IInv => TypeOK
    BY DEF IInv
  <1>2. QED
    BY <1>1, InvariantHolds, PTL

\* AutoBuy's rail is lifted only over tables that are whole and rest on the floor's
\* worth of sales, whatever refunds the files held and wherever a rewrite stopped.
THEOREM RailNeedsSales == Spec => []RailRestsOnSales
  <1>1. IInv => RailRestsOnSales
    BY DEF IInv, RestsOnEnoughSales, RailRestsOnSales, FeesMeasured, FeesStatus,
           ProvisionalTables
  <1>2. QED
    BY <1>1, InvariantHolds, PTL

\* The fitted value is the one that more than half of the observations agree on,
\* whatever the others say and however many they are (the median of reconcile.py).
THEOREM OddOrdersMoveNothing == Spec => []MajorityDecides
  <1>1. IInv => MajorityDecides
    BY DEF IInv
  <1>2. QED
    BY <1>1, InvariantHolds, PTL

\* No generated trade closes or opens a placeholder (gather excludes them).
THEOREM SeedsAreNoEvidence == Spec => SeedingClosesNothing
  <1>1. ASSUME IInv, \E r \in Row : SeedSyntheticTrade(r)
        PROVE  Closed' = Closed
    <2>1. PICK r \in Row : SeedSyntheticTrade(r)
      BY <1>1
    <2>2. /\ inventory[r] = None /\ inventory'[r].synthetic
          /\ \A q \in Row \ {r} : inventory'[q] = inventory[q]
          /\ decisions' = decisions /\ disk' = disk
      BY <1>1, <2>1 DEF SeedSyntheticTrade, IInv, TypeOK, feeVars
    <2>3. RealRows' = RealRows
      BY <2>2 DEF RealRows, Stock
    <2>4. /\ RealRows' \cap SoldRows' = RealRows \cap SoldRows
          /\ {q \in RealRows' : inventory'[q].fees # None}
               = {q \in RealRows : inventory[q].fees # None}
          /\ {q \in RealRows' : inventory'[q].ship # None}
               = {q \in RealRows : inventory[q].ship # None}
      BY <2>2, <2>3 DEF RealRows, Stock, SoldRows
    <2>5. /\ RealisedSales' = RealisedSales /\ SettledSales' = SettledSales
          /\ MeasuredShipments' = MeasuredShipments
      BY <2>4 DEF RealisedSales, SettledSales, MeasuredShipments
    <2>6. FeesMeasured' = FeesMeasured
      BY <2>2 DEF FeesMeasured, FeesStatus, ProvisionalTables
    <2>7. QED
      BY <2>2, <2>5, <2>6 DEF Closed
  <1>2. IInv => [(\E r \in Row : SeedSyntheticTrade(r)) => Closed' = Closed]_vars
    BY <1>1
  <1>3. QED
    BY <1>2, InvariantHolds, PTL DEF SeedingClosesNothing

-----------------------------------------------------------------------------
(* The calendar.                                                           *)

\* The years of a common length do not overlap.
LEMMA YearsAreApart ==
  ASSUME NEW a \in Int, NEW b \in Int, a < b
  PROVE  Starts(a + 1) <= Starts(b)
  <1>. DEFINE L == YearLength
  <1>1. L \in Nat /\ YearStart \in Int
    BY BooksAssumption
  <1>2. PICK k \in Nat : b = a + 1 + k
    BY b = a + 1 + (b - a - 1), b - a - 1 \in Nat
  <1>3. b * L = (a + 1) * L + k * L /\ k * L \in Nat
    BY <1>1, <1>2
  <1>4. QED
    BY <1>1, <1>3 DEF Starts

\* Every day falls in exactly one tax year, and tax_year_of names it: what the sum
\* over the years rests on.
THEOREM OneTaxYearPerDay ==
  \A d \in Nat, y \in Int : Contains(y, d) <=> y = TaxYearOf(d)
  <1>. SUFFICES ASSUME NEW d \in Nat, NEW y \in Int
                PROVE  Contains(y, d) <=> y = TaxYearOf(d)
    OBVIOUS
  <1>. DEFINE L == YearLength
              q == d \div YearLength
              t == TaxYearOf(d)
  <1>1. L \in Nat \ {0} /\ YearStart \in 0 .. L - 1
    BY BooksAssumption
  <1>2. q \in Nat /\ q * L <= d /\ d < q * L + L
    BY <1>1
  <1>3. Starts(q + 1) = Starts(q) + L /\ Starts(q) = Starts(q - 1) + L
    BY <1>1, <1>2 DEF Starts
  <1>4. t \in Int /\ Contains(t, d)
    BY <1>1, <1>2, <1>3 DEF TaxYearOf, Contains, Starts
  <1>5. ASSUME Contains(y, d), y # t PROVE FALSE
    <2>. HIDE DEF t
    <2>1. Starts(y) \in Int /\ Starts(t) \in Int /\ Starts(y + 1) \in Int /\ Starts(t + 1) \in Int
      BY <1>1, <1>4 DEF Starts
    <2>2. Starts(y + 1) <= Starts(t) \/ Starts(t + 1) <= Starts(y)
      BY <1>4, <1>5, YearsAreApart
    <2>3. QED
      BY <1>4, <1>5, <2>1, <2>2 DEF Contains
  <1>6. QED
    BY <1>4, <1>5

-----------------------------------------------------------------------------
(* Sums.                                                                   *)

\* The element that a fold takes next.
First(s) == CHOOSE x \in s : TRUE

\* g holds the sum of f over every subset of S.
AreSums(f, S, g) ==
  g = [s \in SUBSET S |-> IF s = {} THEN 0 ELSE f[First(s)] + g[s \ {First(s)}]]

\* Among finite sets there is one that does not stay among them when it loses an
\* element: how finite sets are induced over below.
LEMMA SmallestSet ==
  ASSUME NEW C, C # {}, \A s \in C : IsFiniteSet(s)
  PROVE  \E s \in C : \A x \in s : s \ {x} \notin C
  <1>. DEFINE Sizes == {Cardinality(s) : s \in C}
  <1>1. Sizes \in SUBSET Nat /\ Sizes # {}
    BY FS_CardinalityType
  <1>2. PICK k \in Sizes : \A j \in Sizes : k <= j
    <2>. HIDE DEF Sizes
    <2>1. QED
      BY <1>1, LeastOfNaturals
  <1>3. PICK s \in C : \A t \in C : Cardinality(s) <= Cardinality(t)
    BY <1>2
  <1>4. ASSUME NEW x \in s, s \ {x} \in C PROVE FALSE
    <2>1. IsFiniteSet(s)
      OBVIOUS
    <2>2. Cardinality(s \ {x}) = Cardinality(s) - 1 /\ Cardinality(s) \in Nat
      BY <2>1, FS_RemoveElement, FS_CardinalityType
    <2>3. Cardinality(s) <= Cardinality(s \ {x})
      BY <1>3, <1>4
    <2>4. QED
      BY <2>2, <2>3
  <1>5. QED
    BY <1>4

LEMMA FirstIsOne ==
  ASSUME NEW s, s # {}
  PROVE  First(s) \in s
  BY DEF First

\* The sums over the subsets of a finite set exist.
LEMMA SumsExist ==
  ASSUME NEW S, IsFiniteSet(S), NEW f, \A x \in S : f[x] \in Int
  PROVE  \E g \in [SUBSET S -> Int] : AreSums(f, S, g)
  <1>. DEFINE Entry(g, s) == IF s = {} THEN 0 ELSE f[First(s)] + g[s \ {First(s)}]
              Right(g, n) == \A s \in SUBSET S : Cardinality(s) <= n => g[s] = Entry(g, s)
              Reached(n) == \E g \in [SUBSET S -> Int] : Right(g, n)
              Bad == {n \in Nat : ~ Reached(n)}
  <1>1. \A s \in SUBSET S : IsFiniteSet(s) /\ Cardinality(s) \in Nat
                            /\ (Cardinality(s) = 0 <=> s = {})
    BY FS_Subset, FS_CardinalityType, FS_EmptySet
  <1>2. \A g \in [SUBSET S -> Int], s \in SUBSET S : Entry(g, s) \in Int
    BY FirstIsOne
  <1>3. \A s \in SUBSET S : s # {} =>
          s \ {First(s)} \in SUBSET S
          /\ Cardinality(s \ {First(s)}) = Cardinality(s) - 1
    BY <1>1, FirstIsOne, FS_RemoveElement
  <1>4. Bad = {}
    <2>. SUFFICES ASSUME Bad # {} PROVE FALSE
      OBVIOUS
    <2>1. PICK n \in Bad : \A m \in Bad : n <= m
      <3>1. Bad \in SUBSET Nat
        OBVIOUS
      <3>. HIDE DEF Bad
      <3>2. QED
        BY <3>1, LeastOfNaturals
    <2>2. CASE n = 0
      <3>. DEFINE g == [s \in SUBSET S |-> 0]
      <3>1. g \in [SUBSET S -> Int]
        OBVIOUS
      <3>2. \A s \in SUBSET S : Cardinality(s) <= 0 => s = {}
        BY <1>1
      <3>3. Right(g, 0)
        BY <3>2
      <3>4. QED
        <4>. HIDE DEF g, Right
        <4>1. QED
          BY <2>1, <2>2, <3>1, <3>3
    <2>3. CASE n # 0
      <3>1. Reached(n - 1)
        <4>. HIDE DEF Reached
        <4>1. n - 1 \in Nat /\ n - 1 \notin Bad
          BY <2>1, <2>3
        <4>2. QED
          BY <4>1
      <3>2. PICK g \in [SUBSET S -> Int] : Right(g, n - 1)
        BY <3>1
      <3>. DEFINE h == [s \in SUBSET S |-> IF Cardinality(s) = n THEN Entry(g, s) ELSE g[s]]
      <3>3. h \in [SUBSET S -> Int]
        BY <1>2
      <3>4. ASSUME NEW s \in SUBSET S, Cardinality(s) <= n PROVE h[s] = Entry(h, s)
        <4>1. h[s] = Entry(g, s)
          <5>1. CASE Cardinality(s) = n
            BY <5>1
          <5>2. CASE Cardinality(s) # n
            <6>1. Cardinality(s) <= n - 1
              BY <1>1, <3>4, <5>2, n \in Nat
            <6>. HIDE DEF Entry
            <6>2. QED
              BY <3>2, <5>2, <6>1
          <5>3. QED
            BY <5>1, <5>2
        <4>2. CASE s = {}
          BY <4>1, <4>2
        <4>3. CASE s # {}
          <5>1. /\ s \ {First(s)} \in SUBSET S
                /\ Cardinality(s \ {First(s)}) = Cardinality(s) - 1
                /\ Cardinality(s) \in Nat
            BY <1>1, <1>3, <4>3
          <5>2. Cardinality(s \ {First(s)}) # n
            BY <3>4, <5>1, n \in Nat
          <5>3. h[s \ {First(s)}] = g[s \ {First(s)}]
            BY <5>1, <5>2
          <5>4. QED
            BY <4>1, <4>3, <5>3
        <4>4. QED
          BY <4>2, <4>3
      <3>5. Right(h, n)
        <4>. HIDE DEF h, Entry
        <4>1. QED
          BY <3>4
      <3>6. QED
        <4>. HIDE DEF h, Right
        <4>1. QED
          BY <3>3, <3>5
    <2>4. QED
      BY <2>2, <2>3
  <1>5. PICK g \in [SUBSET S -> Int] : Right(g, Cardinality(S))
    BY <1>1, <1>4
  <1>6. \A s \in SUBSET S : g[s] = Entry(g, s)
    <2>. SUFFICES ASSUME NEW s \in SUBSET S PROVE g[s] = Entry(g, s)
      OBVIOUS
    <2>1. Cardinality(s) <= Cardinality(S)
      BY FS_Subset
    <2>. HIDE DEF Entry
    <2>2. QED
      BY <1>5, <2>1
  <1>7. g = [s \in SUBSET S |-> Entry(g, s)]
    <2>. HIDE DEF Entry
    <2>1. QED
      BY <1>6
  <1>8. QED
    BY <1>7 DEF AreSums

\* Where two functions agree, so do their sums.
LEMMA SumsAgree ==
  ASSUME NEW S, NEW T, NEW f, NEW h, NEW g, AreSums(f, S, g), NEW k, AreSums(h, T, k),
         NEW s \in SUBSET S, s \in SUBSET T, IsFiniteSet(s), \A x \in s : f[x] = h[x]
  PROVE  g[s] = k[s]
  <1>. DEFINE C == {t \in SUBSET s : g[t] # k[t]}
  <1>1. \A t \in SUBSET s : IsFiniteSet(t)
    BY FS_Subset
  <1>2. C = {}
    <2>. SUFFICES ASSUME C # {} PROVE FALSE
      OBVIOUS
    <2>1. PICK t \in C : \A x \in t : t \ {x} \notin C
      <3>1. \A t \in C : IsFiniteSet(t)
        BY <1>1
      <3>. HIDE DEF C
      <3>2. QED
        BY <3>1, SmallestSet
    <2>2. t \in SUBSET S /\ t \in SUBSET T /\ g[t] # k[t]
      OBVIOUS
    <2>3. /\ g[t] = IF t = {} THEN 0 ELSE f[First(t)] + g[t \ {First(t)}]
          /\ k[t] = IF t = {} THEN 0 ELSE h[First(t)] + k[t \ {First(t)}]
      BY <2>2 DEF AreSums
    <2>4. t # {}
      BY <2>2, <2>3
    <2>5. First(t) \in t
      BY <2>4, FirstIsOne
    <2>6. g[t \ {First(t)}] = k[t \ {First(t)}] /\ f[First(t)] = h[First(t)]
      BY <2>1, <2>5
    <2>7. QED
      BY <2>2, <2>3, <2>4, <2>6
  <1>3. QED
    BY <1>2

\* What SumFunctionOnSet is.
LEMMA SumIsASum ==
  ASSUME NEW S, IsFiniteSet(S), NEW f, \A x \in S : f[x] \in Int
  PROVE  \E g \in [SUBSET S -> Int] : AreSums(f, S, g) /\ SumFunctionOnSet(f, S) = g[S]
  <1>. DEFINE c == CHOOSE g : AreSums(f, S, g)
  <1>1. PICK g \in [SUBSET S -> Int] : AreSums(f, S, g)
    BY SumsExist
  <1>2. AreSums(f, S, c)
    BY <1>1
  <1>3. SumFunctionOnSet(f, S) = c[S]
    BY Zenon DEF SumFunctionOnSet, FoldFunctionOnSet, MapThenFoldSet, AreSums, First
  <1>4. c[S] = g[S]
    <2>. HIDE DEF c
    <2>1. QED
      BY <1>1, <1>2, SumsAgree
  <1>5. QED
    BY <1>1, <1>3, <1>4

\* Over nothing the sum is zero.
LEMMA SumOfNone ==
  ASSUME NEW f
  PROVE  SumFunctionOnSet(f, {}) = 0
  <1>1. PICK g \in [SUBSET {} -> Int] : AreSums(f, {}, g) /\ SumFunctionOnSet(f, {}) = g[{}]
    BY FS_EmptySet, SumIsASum
  <1>2. QED
    BY <1>1 DEF AreSums

\* It is a number.
LEMMA SumIsInt ==
  ASSUME NEW S, IsFiniteSet(S), NEW f, \A x \in S : f[x] \in Int
  PROVE  SumFunctionOnSet(f, S) \in Int
  <1>1. PICK g \in [SUBSET S -> Int] : AreSums(f, S, g) /\ SumFunctionOnSet(f, S) = g[S]
    BY SumIsASum
  <1>2. g[S] \in Int
    OBVIOUS
  <1>3. QED
    BY <1>1, <1>2

\* It looks at the values over S alone.
LEMMA SumsOfEquals ==
  ASSUME NEW S, IsFiniteSet(S), NEW f, \A x \in S : f[x] \in Int,
         NEW h, \A x \in S : f[x] = h[x]
  PROVE  SumFunctionOnSet(f, S) = SumFunctionOnSet(h, S)
  <1>1. PICK g \in [SUBSET S -> Int] : AreSums(f, S, g) /\ SumFunctionOnSet(f, S) = g[S]
    BY SumIsASum
  <1>2. PICK k \in [SUBSET S -> Int] : AreSums(h, S, k) /\ SumFunctionOnSet(h, S) = k[S]
    BY SumIsASum
  <1>3. QED
    BY <1>1, <1>2, SumsAgree

\* What the fold takes first, and the rest.
LEMMA SumOfFirst ==
  ASSUME NEW S, IsFiniteSet(S), S # {}, NEW f, \A x \in S : f[x] \in Int
  PROVE  SumFunctionOnSet(f, S) = f[First(S)] + SumFunctionOnSet(f, S \ {First(S)})
  <1>. DEFINE R == S \ {First(S)}
  <1>1. IsFiniteSet(R) /\ R \in SUBSET S /\ R \in SUBSET R
    BY FS_Subset
  <1>2. PICK g \in [SUBSET S -> Int] : AreSums(f, S, g) /\ SumFunctionOnSet(f, S) = g[S]
    BY SumIsASum
  <1>3. PICK k \in [SUBSET R -> Int] : AreSums(f, R, k) /\ SumFunctionOnSet(f, R) = k[R]
    <2>. HIDE DEF R
    <2>1. QED
      BY <1>1, SumIsASum
  <1>4. g[S] = f[First(S)] + g[R]
    BY <1>2 DEF AreSums
  <1>5. g[R] = k[R]
    <2>. HIDE DEF R
    <2>1. QED
      BY <1>1, <1>2, <1>3, SumsAgree
  <1>6. QED
    BY <1>2, <1>3, <1>4, <1>5

\* Any element can be taken out.
LEMMA SumOfOneMore ==
  ASSUME NEW S, IsFiniteSet(S), NEW f, \A x \in S : f[x] \in Int, NEW x \in S
  PROVE  SumFunctionOnSet(f, S) = f[x] + SumFunctionOnSet(f, S \ {x})
  <1>. DEFINE Sum(s) == SumFunctionOnSet(f, s)
              C == {s \in SUBSET S : \E y \in s : Sum(s) # f[y] + Sum(s \ {y})}
  <1>1. \A s \in SUBSET S : IsFiniteSet(s) /\ Sum(s) \in Int
    BY FS_Subset, SumIsInt
  <1>2. C = {}
    <2>. SUFFICES ASSUME C # {} PROVE FALSE
      OBVIOUS
    <2>1. PICK s \in C : \A y \in s : s \ {y} \notin C
      <3>1. \A s \in C : IsFiniteSet(s)
        BY <1>1
      <3>. HIDE DEF C
      <3>2. QED
        BY <3>1, SmallestSet
    <2>2. PICK y \in s : Sum(s) # f[y] + Sum(s \ {y})
      OBVIOUS
    <2>. DEFINE z == First(s)
    <2>3. s \in SUBSET S /\ z \in s /\ IsFiniteSet(s)
      BY <1>1, <2>2, FirstIsOne
    <2>4. \A t \in s : f[t] \in Int
      BY <2>3
    <2>5. Sum(s) = f[z] + Sum(s \ {z})
      BY <2>3, <2>4, SumOfFirst
    <2>6. y # z
      BY <2>2, <2>5
    <2>7. Sum(s \ {z}) = f[y] + Sum((s \ {z}) \ {y})
      <3>1. s \ {z} \notin C /\ s \ {z} \in SUBSET S /\ y \in s \ {z}
        BY <2>1, <2>3, <2>6
      <3>. HIDE DEF Sum
      <3>2. QED
        BY <3>1
    <2>8. Sum(s \ {y}) = f[z] + Sum((s \ {y}) \ {z})
      <3>1. s \ {y} \notin C /\ s \ {y} \in SUBSET S /\ z \in s \ {y}
        BY <2>1, <2>3, <2>6
      <3>. HIDE DEF Sum
      <3>2. QED
        BY <3>1
    <2>9. Sum((s \ {z}) \ {y}) = Sum((s \ {y}) \ {z})
      <3>1. (s \ {z}) \ {y} = (s \ {y}) \ {z}
        OBVIOUS
      <3>. HIDE DEF Sum, z
      <3>2. QED
        BY <3>1
    <2>10. Sum((s \ {z}) \ {y}) \in Int /\ f[y] \in Int /\ f[z] \in Int
      BY <1>1, <2>3, <2>4
    <2>. HIDE DEF Sum, z, C
    <2>11. QED
      BY <2>2, <2>5, <2>7, <2>8, <2>9, <2>10
  <1>3. S \notin C
    BY <1>2
  <1>4. QED
    BY <1>3

\* The sum over two sets that share nothing.
LEMMA SumOfDisjoint ==
  ASSUME NEW S, IsFiniteSet(S), NEW T, IsFiniteSet(T), S \cap T = {},
         NEW f, \A x \in S \cup T : f[x] \in Int
  PROVE  SumFunctionOnSet(f, S \cup T) = SumFunctionOnSet(f, S) + SumFunctionOnSet(f, T)
  <1>. DEFINE Sum(s) == SumFunctionOnSet(f, s)
              C == {s \in SUBSET T : Sum(S \cup s) # Sum(S) + Sum(s)}
  <1>1. \A s \in SUBSET T : /\ IsFiniteSet(s) /\ IsFiniteSet(S \cup s)
                            /\ Sum(s) \in Int /\ Sum(S) \in Int
    <2>. SUFFICES ASSUME NEW s \in SUBSET T
                  PROVE  /\ IsFiniteSet(s) /\ IsFiniteSet(S \cup s)
                         /\ Sum(s) \in Int /\ Sum(S) \in Int
      OBVIOUS
    <2>1. IsFiniteSet(s) /\ IsFiniteSet(S \cup s)
      BY FS_Subset, FS_Union
    <2>2. QED
      BY <2>1, SumIsInt
  <1>2. C = {}
    <2>. SUFFICES ASSUME C # {} PROVE FALSE
      OBVIOUS
    <2>1. PICK s \in C : \A y \in s : s \ {y} \notin C
      <3>1. \A s \in C : IsFiniteSet(s)
        BY <1>1
      <3>. HIDE DEF C
      <3>2. QED
        BY <3>1, SmallestSet
    <2>2. s \in SUBSET T /\ Sum(S \cup s) # Sum(S) + Sum(s)
      OBVIOUS
    <2>3. s # {}
      <3>1. CASE s = {}
        <4>1. S \cup s = S /\ Sum(s) = 0
          BY <3>1, SumOfNone
        <4>2. Sum(S \cup s) = Sum(S) /\ Sum(S) \in Int
          BY <1>1, <4>1
        <4>. HIDE DEF Sum, C
        <4>3. QED
          BY <2>2, <4>1, <4>2
      <3>2. QED
        BY <3>1
    <2>4. PICK y : y \in s
      BY <2>3
    <2>5. /\ Sum(s) = f[y] + Sum(s \ {y})
          /\ Sum(S \cup s) = f[y] + Sum((S \cup s) \ {y})
      BY <1>1, <2>2, <2>4, SumOfOneMore
    <2>6. (S \cup s) \ {y} = S \cup (s \ {y})
      BY <2>2, <2>4
    <2>7. Sum(S \cup (s \ {y})) = Sum(S) + Sum(s \ {y})
      <3>1. s \ {y} \notin C /\ s \ {y} \in SUBSET T
        BY <2>1, <2>2, <2>4
      <3>. HIDE DEF Sum
      <3>2. QED
        BY <3>1
    <2>8. Sum(s \ {y}) \in Int /\ Sum(S) \in Int /\ f[y] \in Int
      BY <1>1, <2>2, <2>4
    <2>9. Sum((S \cup s) \ {y}) = Sum(S \cup (s \ {y}))
      <3>. HIDE DEF Sum
      <3>1. QED
        BY <2>6
    <2>. HIDE DEF Sum, C
    <2>10. QED
      BY <2>2, <2>5, <2>7, <2>8, <2>9
  <1>3. T \notin C
    BY <1>2
  <1>4. QED
    BY <1>3

\* The sum of the sums is the sum of both.
LEMMA SumOfBoth ==
  ASSUME NEW S, IsFiniteSet(S), NEW f, \A x \in S : f[x] \in Int,
         NEW h, \A x \in S : h[x] \in Int
  PROVE  SumFunctionOnSet([x \in S |-> f[x] + h[x]], S)
           = SumFunctionOnSet(f, S) + SumFunctionOnSet(h, S)
  <1>. DEFINE b == [x \in S |-> f[x] + h[x]]
              C == {s \in SUBSET S : SumFunctionOnSet(b, s)
                                       # SumFunctionOnSet(f, s) + SumFunctionOnSet(h, s)}
  <1>1. \A x \in S : b[x] = f[x] + h[x] /\ b[x] \in Int
    OBVIOUS
  <1>. HIDE DEF b
  <1>2. \A s \in SUBSET S : IsFiniteSet(s)
    BY FS_Subset
  <1>3. C = {}
    <2>. SUFFICES ASSUME C # {} PROVE FALSE
      OBVIOUS
    <2>1. PICK s \in C : \A y \in s : s \ {y} \notin C
      <3>1. \A s \in C : IsFiniteSet(s)
        BY <1>2
      <3>. HIDE DEF C
      <3>2. QED
        BY <3>1, SmallestSet
    <2>2. /\ s \in SUBSET S
          /\ SumFunctionOnSet(b, s) # SumFunctionOnSet(f, s) + SumFunctionOnSet(h, s)
      OBVIOUS
    <2>3. s # {}
      <3>1. CASE s = {}
        BY <2>2, <3>1, SumOfNone
      <3>2. QED
        BY <3>1
    <2>4. PICK y : y \in s
      BY <2>3
    <2>5. /\ IsFiniteSet(s) /\ IsFiniteSet(s \ {y}) /\ \A x \in s : x \in S
      BY <1>2, <2>2
    <2>6. /\ SumFunctionOnSet(b, s) = b[y] + SumFunctionOnSet(b, s \ {y})
          /\ SumFunctionOnSet(f, s) = f[y] + SumFunctionOnSet(f, s \ {y})
          /\ SumFunctionOnSet(h, s) = h[y] + SumFunctionOnSet(h, s \ {y})
      BY <1>1, <2>4, <2>5, SumOfOneMore
    <2>7. SumFunctionOnSet(b, s \ {y})
            = SumFunctionOnSet(f, s \ {y}) + SumFunctionOnSet(h, s \ {y})
      BY <2>1, <2>2, <2>4
    <2>8. /\ SumFunctionOnSet(f, s \ {y}) \in Int /\ SumFunctionOnSet(h, s \ {y}) \in Int
          /\ b[y] = f[y] + h[y] /\ f[y] \in Int /\ h[y] \in Int
      BY <1>1, <2>4, <2>5, SumIsInt
    <2>9. QED
      BY <2>2, <2>6, <2>7, <2>8
  <1>4. S \notin C
    BY <1>3
  <1>5. QED
    BY <1>4 DEF b

\* Summing part by part: over parts that share nothing, the sum of the sums is
\* the sum over all of them.
LEMMA SumByParts ==
  ASSUME NEW J, IsFiniteSet(J), NEW S, IsFiniteSet(S), NEW f, \A x \in S : f[x] \in Int,
         NEW part \in [J -> SUBSET S],
         \A i, j \in J : i # j => part[i] \cap part[j] = {}
  PROVE  SumFunctionOnSet([j \in J |-> SumFunctionOnSet(f, part[j])], J)
           = SumFunctionOnSet(f, UNION {part[j] : j \in J})
  <1>. DEFINE Sum(s) == SumFunctionOnSet(f, s)
              p == [j \in J |-> Sum(part[j])]
              All(K) == UNION {part[j] : j \in K}
              C == {K \in SUBSET J : SumFunctionOnSet(p, K) # Sum(All(K))}
  <1>1. \A s \in SUBSET S : IsFiniteSet(s) /\ Sum(s) \in Int
    BY FS_Subset, SumIsInt
  <1>2. \A j \in J : p[j] = Sum(part[j]) /\ p[j] \in Int
    BY <1>1
  <1>. HIDE DEF p, Sum
  <1>3. \A K \in SUBSET J : IsFiniteSet(K)
    BY FS_Subset
  <1>4. C = {}
    <2>. SUFFICES ASSUME C # {} PROVE FALSE
      OBVIOUS
    <2>1. PICK K \in C : \A j \in K : K \ {j} \notin C
      <3>1. \A K \in C : IsFiniteSet(K)
        BY <1>3
      <3>. HIDE DEF C
      <3>2. QED
        BY <3>1, SmallestSet
    <2>2. K \in SUBSET J /\ SumFunctionOnSet(p, K) # Sum(All(K))
      OBVIOUS
    <2>3. K # {}
      <3>1. CASE K = {}
        <4>1. All(K) = {}
          BY <3>1
        <4>. HIDE DEF All
        <4>2. QED
          BY <2>2, <3>1, <4>1, SumOfNone DEF Sum
      <3>2. QED
        BY <3>1
    <2>4. PICK j : j \in K
      BY <2>3
    <2>. DEFINE R == K \ {j}
    <2>5. All(K) = part[j] \cup All(R) /\ part[j] \cap All(R) = {}
      BY <2>2, <2>4
    <2>6. part[j] \in SUBSET S /\ All(R) \in SUBSET S /\ R \in SUBSET J /\ IsFiniteSet(K)
      BY <1>3, <2>2, <2>4
    <2>7. SumFunctionOnSet(p, R) = Sum(All(R))
      <3>1. R \notin C
        BY <2>1, <2>4
      <3>. HIDE DEF R, All
      <3>2. QED
        BY <2>6, <3>1
    <2>8. SumFunctionOnSet(p, K) = p[j] + SumFunctionOnSet(p, R)
      BY <1>2, <2>2, <2>4, <2>6, SumOfOneMore
    <2>9. Sum(part[j] \cup All(R)) = Sum(part[j]) + Sum(All(R))
      <3>. HIDE DEF All
      <3>1. IsFiniteSet(part[j]) /\ IsFiniteSet(All(R))
            /\ \A x \in part[j] \cup All(R) : f[x] \in Int
        BY <1>1, <2>6
      <3>2. QED
        BY <2>5, <3>1, SumOfDisjoint DEF Sum
    <2>10. p[j] = Sum(part[j])
      BY <1>2, <2>2, <2>4
    <2>. HIDE DEF All, R
    <2>11. QED
      BY <2>2, <2>5, <2>7, <2>8, <2>9, <2>10
  <1>5. J \notin C
    BY <1>4
  <1>6. QED
    BY <1>5 DEF p, Sum

\* What the domain of the summed function says.
LEMMA SumOverDomain ==
  ASSUME NEW S, IsFiniteSet(S), NEW f, \A x \in S : f[x] \in Int,
         NEW h, DOMAIN h = S, \A x \in S : h[x] = f[x]
  PROVE  SumFunction(h) = SumFunctionOnSet(f, S)
  <1>1. SumFunction(h) = SumFunctionOnSet(h, S)
    BY DEF SumFunction
  <1>2. QED
    BY <1>1, SumsOfEquals

-----------------------------------------------------------------------------
(* Every penny.                                                            *)

Years == {TaxYearOf(d) : d \in Day}

\* What a table predicts is a number.
LEMMA FeesAreNumbers ==
  ASSUME FeeTypeOK, NEW price \in Nat
  PROVE  FeesPence(price) \in Int
  <1>. DEFINE f == [c \in Parts[BooksTable] |-> ChargePence(c, price)]
  <1>1. Parts[BooksTable] \in SUBSET Component /\ IsFiniteSet(Parts[BooksTable])
    BY FeeAssumption, BooksAssumption, FS_Subset
  <1>2. \A c \in Parts[BooksTable] : ChargePence(c, price) \in Int
    <2>. SUFFICES ASSUME NEW c \in Component PROVE ChargePence(c, price) \in Int
      BY <1>1
    <2>1. disk[BooksTable].value[c] \in Nat /\ RateUnit \in Nat \ {0}
      BY BooksAssumption DEF FeeTypeOK, Content
    <2>2. ASSUME NEW v \in Nat, NEW u \in Nat \ {0}
          PROVE  (2 * price * v + u) \div (2 * u) \in Int
      <3>1. price * v \in Nat
        OBVIOUS
      <3>2. 2 * price * v + u \in Int /\ 2 * u \in Nat \ {0}
        BY <3>1
      <3>3. QED
        BY <3>2
    <2>3. QED
      BY <2>1, <2>2 DEF ChargePence
  <1>3. \A c \in Parts[BooksTable] : f[c] \in Int
    BY <1>2
  <1>4. SumFunction(f) = SumFunctionOnSet(f, Parts[BooksTable])
    BY DEF SumFunction
  <1>. HIDE DEF f
  <1>5. SumFunction(f) \in Int
    BY <1>1, <1>3, <1>4, SumIsInt
  <1>6. QED
    BY <1>5 DEF FeesPence, f

\* The figures of a row are numbers.
LEMMA RowsAreNumbers ==
  ASSUME IInv
  PROVE  /\ IsFiniteSet(Stock) /\ IsFiniteSet(SoldRows)
         /\ \A r \in Stock : inventory[r].cost \in Int /\ inventory[r].acquired \in Day
         /\ \A r \in SoldRows : /\ inventory[r].gross \in Nat /\ inventory[r].sold \in Day
                                /\ RealisedFees(r) + OrZero(inventory[r].ship) \in Int
  <1>1. \A r \in Stock : inventory[r] \in RowRecord
    BY DEF IInv, TypeOK, Stock
  <1>2. \A r \in SoldRows : inventory[r].gross \in Nat /\ inventory[r].sold \in Day
    BY <1>1 DEF IInv, TypeOK, SoldRows, RowRecord
  <1>3. ASSUME NEW r \in SoldRows
        PROVE  RealisedFees(r) \in Int /\ OrZero(inventory[r].ship) \in Int
    <2>1. FeesPence(inventory[r].gross) \in Int
      BY <1>2, FeesAreNumbers DEF IInv, TypeOK
    <2>2. inventory[r].fees \in Nat \cup {None} /\ inventory[r].ship \in Nat \cup {None}
      BY <1>1 DEF SoldRows, RowRecord
    <2>3. QED
      BY <2>1, <2>2 DEF RealisedFees, OrZero
  <1>4. IsFiniteSet(Stock) /\ IsFiniteSet(SoldRows)
    BY BooksAssumption, FS_Subset DEF Stock, SoldRows
  <1>5. \A r \in Stock : inventory[r].cost \in Int /\ inventory[r].acquired \in Day
    BY <1>1 DEF RowRecord
  <1>6. QED
    BY <1>2, <1>3, <1>4, <1>5

\* There are finitely many of them.
LEMMA YearsAreFinite == IsFiniteSet(Years)
  <1>. DEFINE year == [d \in Day |-> TaxYearOf(d)]
  <1>1. IsFiniteSet(Day)
    BY BooksAssumption, FS_Interval DEF Day
  <1>2. year \in Surjection(Day, Years)
    BY Zenon DEF Surjection, Years
  <1>3. QED
    BY <1>1, <1>2, FS_Surjection

\* Summed year by year, everything that has a day is summed once.
LEMMA SumOverYears ==
  ASSUME NEW S, IsFiniteSet(S), NEW f, \A x \in S : f[x] \in Int,
         NEW when, \A x \in S : when[x] \in Day,
         NEW income, DOMAIN income = Years,
         \A y \in Years :
           income[y] = SumFunctionOnSet(f, {x \in S : Contains(y, when[x])})
  PROVE  /\ SumFunction(income) = SumFunctionOnSet(f, S)
         /\ \A y \in Years : income[y] \in Int
  <1>. DEFINE part == [y \in Years |-> {x \in S : Contains(y, when[x])}]
  <1>1. IsFiniteSet(Years)
    BY YearsAreFinite
  <1>2. \A d \in Day : d \in Nat /\ TaxYearOf(d) \in Int
    BY BooksAssumption DEF Day, TaxYearOf, Starts
  <1>3. Years \in SUBSET Int
    BY <1>2 DEF Years
  <1>4. \A x \in S, y \in Years : Contains(y, when[x]) <=> y = TaxYearOf(when[x])
    BY <1>2, <1>3, OneTaxYearPerDay
  <1>5. part \in [Years -> SUBSET S]
    OBVIOUS
  <1>6. \A i, j \in Years : i # j => part[i] \cap part[j] = {}
    BY <1>4
  <1>7. UNION {part[y] : y \in Years} = S
    <2>1. \A x \in S : TaxYearOf(when[x]) \in Years
      BY DEF Years
    <2>2. \A x \in S : x \in part[TaxYearOf(when[x])]
      BY <1>4, <2>1
    <2>. HIDE DEF part
    <2>3. QED
      BY <1>5, <2>1, <2>2
  <1>8. \A y \in Years : income[y] = SumFunctionOnSet(f, part[y])
    OBVIOUS
  <1>. HIDE DEF part
  <1>. DEFINE sums == [y \in Years |-> SumFunctionOnSet(f, part[y])]
  <1>9. SumFunctionOnSet(sums, Years) = SumFunctionOnSet(f, S)
    BY <1>1, <1>5, <1>6, <1>7, SumByParts
  <1>10. \A y \in Years : sums[y] \in Int /\ income[y] = sums[y]
    <2>1. \A y \in Years : IsFiniteSet(part[y]) /\ \A x \in part[y] : f[x] \in Int
      BY <1>5, FS_Subset
    <2>2. \A y \in Years : SumFunctionOnSet(f, part[y]) \in Int
      BY <2>1, SumIsInt
    <2>3. QED
      BY <1>8, <2>2
  <1>. HIDE DEF sums
  <1>11. SumFunction(income) = SumFunctionOnSet(sums, Years)
    BY <1>1, <1>10, SumOverDomain
  <1>12. QED
    BY <1>9, <1>10, <1>11

\* Over the years that days fall in, income is what was recycled and costs are
\* what was paid, for any rows, days and tables: no sale falls between two tax
\* years and none is taxed twice (summarise_tax_year, tax_year_of).
THEOREM EveryPennyIsTaxedOnce == Spec => []EveryPennyInOneYear
  <1>1. ASSUME IInv PROVE EveryPennyInOneYear
    <2>. DEFINE gross == [r \in SoldRows |-> inventory[r].gross]
                spent == [r \in SoldRows |-> RealisedFees(r) + OrZero(inventory[r].ship)]
                cost == [r \in Stock |-> inventory[r].cost]
                sold == [r \in SoldRows |-> inventory[r].sold]
                acquired == [r \in Stock |-> inventory[r].acquired]
                incomes == [y \in Years |-> GrossIncome(y)]
                fees == [y \in Years |-> SumFunctionOnSet(spent, SoldIn(y))]
                goods == [y \in Years |-> SumFunctionOnSet(cost, BoughtIn(y))]
                costs == [y \in Years |-> AllowableCosts(y)]
    <2>1. /\ IsFiniteSet(SoldRows) /\ IsFiniteSet(Stock)
          /\ \A r \in SoldRows : gross[r] \in Int /\ spent[r] \in Int /\ sold[r] \in Day
          /\ \A r \in Stock : cost[r] \in Int /\ acquired[r] \in Day
      BY <1>1, RowsAreNumbers
    <2>2. \A y \in Years : /\ SoldIn(y) = {r \in SoldRows : Contains(y, sold[r])}
                           /\ BoughtIn(y) = {r \in Stock : Contains(y, acquired[r])}
                           /\ SoldIn(y) \in SUBSET SoldRows /\ BoughtIn(y) \in SUBSET Stock
      BY DEF SoldIn, BoughtIn
    <2>3. \A y \in Years :
            /\ SumFunction([r \in SoldIn(y) |-> inventory[r].gross])
                 = SumFunctionOnSet(gross, SoldIn(y))
            /\ SumFunction([r \in SoldIn(y) |-> RealisedFees(r) + OrZero(inventory[r].ship)])
                 = SumFunctionOnSet(spent, SoldIn(y))
            /\ SumFunction([r \in BoughtIn(y) |-> inventory[r].cost])
                 = SumFunctionOnSet(cost, BoughtIn(y))
      <3>. SUFFICES ASSUME NEW y \in Years
           PROVE  /\ SumFunction([r \in SoldIn(y) |-> inventory[r].gross])
                       = SumFunctionOnSet(gross, SoldIn(y))
                  /\ SumFunction([r \in SoldIn(y) |-> RealisedFees(r)
                                                        + OrZero(inventory[r].ship)])
                       = SumFunctionOnSet(spent, SoldIn(y))
                  /\ SumFunction([r \in BoughtIn(y) |-> inventory[r].cost])
                       = SumFunctionOnSet(cost, BoughtIn(y))
        OBVIOUS
      <3>1. /\ IsFiniteSet(SoldIn(y)) /\ IsFiniteSet(BoughtIn(y))
            /\ \A r \in SoldIn(y) : gross[r] \in Int /\ spent[r] \in Int
            /\ \A r \in BoughtIn(y) : cost[r] \in Int
        BY <2>1, <2>2, FS_Subset
      <3>. DEFINE g == [r \in SoldIn(y) |-> inventory[r].gross]
                  s == [r \in SoldIn(y) |-> RealisedFees(r) + OrZero(inventory[r].ship)]
                  b == [r \in BoughtIn(y) |-> inventory[r].cost]
      <3>2. /\ DOMAIN g = SoldIn(y) /\ DOMAIN s = SoldIn(y) /\ DOMAIN b = BoughtIn(y)
            /\ \A r \in SoldIn(y) : g[r] = gross[r] /\ s[r] = spent[r]
            /\ \A r \in BoughtIn(y) : b[r] = cost[r]
        BY <2>2
      <3>. HIDE DEF g, s, b, gross, spent, cost
      <3>3. SumFunction(g) = SumFunctionOnSet(gross, SoldIn(y))
        BY <3>1, <3>2, SumOverDomain
      <3>4. SumFunction(s) = SumFunctionOnSet(spent, SoldIn(y))
        BY <3>1, <3>2, SumOverDomain
      <3>5. SumFunction(b) = SumFunctionOnSet(cost, BoughtIn(y))
        BY <3>1, <3>2, SumOverDomain
      <3>6. QED
        BY <3>3, <3>4, <3>5 DEF g, s, b
    <2>4. \A y \in Years : /\ incomes[y] = SumFunctionOnSet(gross, SoldIn(y))
                           /\ costs[y] = fees[y] + goods[y]
      BY <2>3 DEF GrossIncome, AllowableCosts
    <2>5. /\ DOMAIN incomes = Years /\ DOMAIN fees = Years /\ DOMAIN goods = Years
          /\ DOMAIN costs = Years
          /\ \A y \in Years : /\ fees[y] = SumFunctionOnSet(spent, SoldIn(y))
                              /\ goods[y] = SumFunctionOnSet(cost, BoughtIn(y))
      OBVIOUS
    <2>6. /\ SumFunction(gross) = SumFunctionOnSet(gross, SoldRows)
          /\ SumFunction(spent) = SumFunctionOnSet(spent, SoldRows)
          /\ SumFunction(cost) = SumFunctionOnSet(cost, Stock)
      BY DEF SumFunction
    <2>. HIDE DEF incomes, fees, goods, costs, gross, spent, cost, sold, acquired
    <2>7. SumFunction(incomes) = SumFunction(gross)
      <3>1. \A y \in Years :
              incomes[y] = SumFunctionOnSet(gross, {r \in SoldRows : Contains(y, sold[r])})
        BY <2>2, <2>4, Zenon
      <3>2. SumFunction(incomes) = SumFunctionOnSet(gross, SoldRows)
        BY <2>1, <2>5, <3>1, SumOverYears
      <3>3. QED
        BY <2>6, <3>2
    <2>8. SumFunction(fees) = SumFunction(spent) /\ \A y \in Years : fees[y] \in Int
      <3>1. \A y \in Years :
              fees[y] = SumFunctionOnSet(spent, {r \in SoldRows : Contains(y, sold[r])})
        BY <2>2, <2>5, Zenon
      <3>2. /\ SumFunction(fees) = SumFunctionOnSet(spent, SoldRows)
            /\ \A y \in Years : fees[y] \in Int
        BY <2>1, <2>5, <3>1, SumOverYears
      <3>3. QED
        BY <2>6, <3>2
    <2>9. SumFunction(goods) = SumFunction(cost) /\ \A y \in Years : goods[y] \in Int
      <3>1. \A y \in Years :
              goods[y] = SumFunctionOnSet(cost, {r \in Stock : Contains(y, acquired[r])})
        BY <2>2, <2>5, Zenon
      <3>2. /\ SumFunction(goods) = SumFunctionOnSet(cost, Stock)
            /\ \A y \in Years : goods[y] \in Int
        BY <2>1, <2>5, <3>1, SumOverYears
      <3>3. QED
        BY <2>6, <3>2
    <2>10. SumFunction(costs) = SumFunction(fees) + SumFunction(goods)
      <3>. DEFINE both == [y \in Years |-> fees[y] + goods[y]]
      <3>1. IsFiniteSet(Years)
        BY YearsAreFinite
      <3>2. SumFunctionOnSet(both, Years)
              = SumFunctionOnSet(fees, Years) + SumFunctionOnSet(goods, Years)
        BY <2>8, <2>9, <3>1, SumOfBoth
      <3>3. \A y \in Years : both[y] \in Int /\ costs[y] = both[y]
        BY <2>4, <2>8, <2>9
      <3>. HIDE DEF both
      <3>4. SumFunction(costs) = SumFunctionOnSet(both, Years)
        BY <2>5, <3>1, <3>3, SumOverDomain
      <3>5. SumFunction(fees) = SumFunctionOnSet(fees, Years)
            /\ SumFunction(goods) = SumFunctionOnSet(goods, Years)
        BY <2>5 DEF SumFunction
      <3>6. QED
        BY <3>2, <3>4, <3>5
    <2>11. SumFunction(costs) = SumFunction(cost) + SumFunction(spent)
      <3>1. SumFunction(cost) \in Int /\ SumFunction(spent) \in Int
        BY <2>1, <2>6, SumIsInt
      <3>2. QED
        BY <2>8, <2>9, <2>10, <3>1
    <2>12. QED
      BY <2>7, <2>11, Zenon
      DEF EveryPennyInOneYear, Years, Recycled, incomes, costs, gross, spent, cost
  <1>2. QED
    BY <1>1, InvariantHolds, PTL

-----------------------------------------------------------------------------
(* What a rewrite of the fee tables can change.                            *)

\* Only a reconcile's write changes a table, and it leaves the books alone.
LEMMA OnlyReconcileWrites ==
  ASSUME Next, disk' # disk
  PROVE  inventory' = inventory /\ today' = today
  BY DEF Next, Buy, SeedSyntheticTrade, Sell, Settle, Skip, Tick, feeVars, bookVars

\* The rows of the books stay, and so does what is settled of them.
LEMMA SettledStays ==
  ASSUME inventory' = inventory, today' = today
  PROVE  /\ Stock' = Stock /\ SoldRows' = SoldRows /\ Unsold' = Unsold
         /\ SettledTrades' = SettledTrades /\ Aged' = Aged
         /\ \A r \in SettledTrades : /\ RealisedFees(r)' = RealisedFees(r)
                                     /\ NetPence(r)' = NetPence(r)
  <1>1. Stock' = Stock /\ SoldRows' = SoldRows /\ Unsold' = Unsold
    BY DEF Stock, SoldRows, Unsold
  <1>2. SettledTrades' = SettledTrades /\ Aged' = Aged
    BY <1>1 DEF SettledTrades, Aged
  <1>3. \A r \in SettledTrades : RealisedFees(r)' = RealisedFees(r)
    BY DEF SettledTrades, RealisedFees
  <1>4. \A r \in SettledTrades : NetPence(r)' = NetPence(r)
    BY <1>3 DEF NetPence
  <1>5. QED
    BY <1>1, <1>2, <1>3, <1>4

\* So do the sums of what is settled, paid and received.
LEMMA MeasuredSumsStay ==
  ASSUME inventory' = inventory, today' = today
  PROVE  /\ SettledNet' = SettledNet /\ Deployed' = Deployed /\ Recycled' = Recycled
         /\ BooksCommand.ageing' = BooksCommand.ageing
  <1>1. [r \in SettledTrades' |-> NetPence(r)'] = [r \in SettledTrades |-> NetPence(r)]
    BY SettledStays
  <1>2. SettledNet' = SettledNet
    BY <1>1, Zenon DEF SettledNet
  <1>3. Deployed' = Deployed /\ Recycled' = Recycled
    BY SettledStays, Zenon DEF Deployed, Recycled
  <1>4. BooksCommand.ageing' = BooksCommand.ageing
    <2>. DEFINE ageing == <<SumFunction([r \in Aged |-> inventory[r].cost]), Cardinality(Aged)>>
    <2>1. BooksCommand.ageing = ageing /\ BooksCommand.ageing' = ageing'
      BY DEF BooksCommand
    <2>2. ageing' = ageing
      BY SettledStays, Zenon
    <2>3. QED
      BY <2>1, <2>2, Zenon
  <1>5. QED
    BY <1>2, <1>3, <1>4

\* A tax year whose sales are all settled reports what it reported.
LEMMA SettledYearStays ==
  ASSUME inventory' = inventory, today' = today, NEW y, EstimatedIn(y) = {}
  PROVE  TaxReport(y)' = TaxReport(y)
  <1>1. SoldIn(y)' = SoldIn(y) /\ BoughtIn(y)' = BoughtIn(y)
    BY SettledStays DEF SoldIn, BoughtIn
  <1>2. \A r \in SoldIn(y) : r \in SettledTrades
    BY DEF EstimatedIn
  <1>3. [r \in SoldIn(y)' |-> RealisedFees(r)' + OrZero(inventory[r].ship)']
          = [r \in SoldIn(y) |-> RealisedFees(r) + OrZero(inventory[r].ship)]
    BY <1>1, <1>2, SettledStays
  <1>4. GrossIncome(y)' = GrossIncome(y)
    BY <1>1, Zenon DEF GrossIncome
  <1>5. AllowableCosts(y)' = AllowableCosts(y)
    BY <1>1, <1>3, Zenon DEF AllowableCosts
  <1>6. Straddling(y)' = Straddling(y) /\ EstimatedIn(y)' = EstimatedIn(y)
    BY <1>1, SettledStays DEF Straddling, EstimatedIn
  <1>7. QED
    BY <1>1, <1>4, <1>5, <1>6, Zenon DEF TaxReport, FiguresAreProvisional

\* Whatever a fee table can still change is marked where it is shown, for any
\* tables and rows: a settled line, a measured card and a settled tax year say the
\* same before and after a reconcile (ledger.py: one is measured, the other is not).
THEOREM FeesMoveOnlyEstimates == Spec => MovingFiguresAreMarked
  <1>1. ASSUME Next, disk' # disk, UNCHANGED inventory
        PROVE  /\ \A r \in SoldRows : BookLine(r)' # BookLine(r) => ~BookLine(r).settled
               /\ \A f \in {"deployed", "recycled", "ageing", "settled"} :
                    BooksCommand'[f] = BooksCommand[f]
               /\ \A c \in DOMAIN Dashboard :
                    Dashboard'[c] # Dashboard[c] => Dashboard[c].measured = FALSE
               /\ \A y \in {TaxYearOf(d) : d \in Day} :
                    TaxReport(y)' # TaxReport(y) => TaxReport(y).provisional
    <2>1. inventory' = inventory /\ today' = today
      BY <1>1, OnlyReconcileWrites
    <2>2. ASSUME NEW r \in SoldRows, BookLine(r).settled
          PROVE  BookLine(r)' = BookLine(r)
      <3>1. r \in SettledTrades
        BY <2>2, Zenon DEF BookLine
      <3>2. RealisedFees(r)' = RealisedFees(r) /\ NetPence(r)' = NetPence(r)
            /\ SettledTrades' = SettledTrades
        BY <2>1, <3>1, SettledStays
      <3>3. QED
        BY <2>1, <3>2, Zenon DEF BookLine
    <2>3. ASSUME NEW f \in {"deployed", "recycled", "ageing", "settled"}
          PROVE  BooksCommand'[f] = BooksCommand[f]
      <3>1. BooksCommand'["deployed"] = BooksCommand["deployed"]
            /\ BooksCommand'["recycled"] = BooksCommand["recycled"]
        BY <2>1, MeasuredSumsStay, Zenon DEF BooksCommand
      <3>2. BooksCommand'["ageing"] = BooksCommand["ageing"]
        BY <2>1, MeasuredSumsStay, Zenon
      <3>3. BooksCommand'["settled"] = BooksCommand["settled"]
        BY <2>1, MeasuredSumsStay, SettledStays, Zenon DEF BooksCommand
      <3>4. QED
        BY <3>1, <3>2, <3>3, Zenon
    <2>4. ASSUME NEW c \in DOMAIN Dashboard, Dashboard'[c] # Dashboard[c]
          PROVE  Dashboard[c].measured = FALSE
      <3>1. c \in {"deployed", "recycled", "settled", "estimated", "runRate", "margin"}
        BY <2>4, Zenon DEF Dashboard
      <3>2. Dashboard'["deployed"] = Dashboard["deployed"]
            /\ Dashboard'["recycled"] = Dashboard["recycled"]
            /\ Dashboard'["settled"] = Dashboard["settled"]
        BY <2>1, MeasuredSumsStay, SettledStays, Zenon DEF Dashboard, Card
      <3>3. c \in {"estimated", "runRate", "margin"}
        BY <2>4, <3>1, <3>2, Zenon
      <3>4. /\ Dashboard["estimated"].measured = FALSE
            /\ Dashboard["runRate"].measured = FALSE
            /\ Dashboard["margin"].measured = FALSE
        BY Zenon DEF Dashboard, Card
      <3>5. QED
        BY <3>3, <3>4, Zenon
    <2>5. ASSUME NEW y, ~ TaxReport(y).provisional PROVE TaxReport(y)' = TaxReport(y)
      <3>1. EstimatedIn(y) = {}
        BY <2>5, Zenon DEF TaxReport, FiguresAreProvisional
      <3>2. QED
        BY <2>1, <3>1, SettledYearStays
    <2>6. QED
      BY <2>2, <2>3, <2>4, <2>5, Zenon
  <1>2. [Next]_vars =>
          [disk' # disk /\ UNCHANGED inventory =>
             /\ \A r \in SoldRows : BookLine(r)' # BookLine(r) => ~BookLine(r).settled
             /\ \A f \in {"deployed", "recycled", "ageing", "settled"} :
                  BooksCommand'[f] = BooksCommand[f]
             /\ \A c \in DOMAIN Dashboard :
                  Dashboard'[c] # Dashboard[c] => Dashboard[c].measured = FALSE
             /\ \A y \in {TaxYearOf(d) : d \in Day} :
                  TaxReport(y)' # TaxReport(y) => TaxReport(y).provisional]_vars
    BY <1>1, Zenon
  <1>3. QED
    BY <1>2, PTL DEF Spec, MovingFiguresAreMarked

=============================================================================
