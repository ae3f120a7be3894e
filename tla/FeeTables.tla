------------------------------ MODULE FeeTables ------------------------------
(***************************************************************************)
(* The fee tables on disk and what rewrites them: `arb reconcile-fees`     *)
(* (src/arb/cli.py, books/reconcile.py, comps/fees.py), which fits their   *)
(* components to settled sales, and placeholder P1 (provenance.py), which  *)
(* says whether the fees are measured and so whether AutoBuy may spend.    *)
(*                                                                         *)
(* What a transaction says of a component is one number: a percentage      *)
(* component's amount over its fee basis, in ten-thousandths, or a fixed   *)
(* component's pence. The table is rewritten in place: opening it empties  *)
(* it, and a reader or a crash may come before the text is written.        *)
(***************************************************************************)
EXTENDS Integers, FiniteSets

CONSTANTS
  Table,           \* fee tables under data/fees
  Component,       \* their components
  Parts,           \* the components of each table
  Assumed,         \* the values the tables ship with
  Mapped,          \* components EBAY_FEE_TYPE_TO_COMPONENT names
  Txn,             \* line items of getTransactions
  Reading,         \* what parsing makes of each: it is kept, dropped, or raises
  IsSale,          \* Settlement.is_sale
  Charged,         \* what each line item says of each component, None if nothing
  MinSettlements,  \* MIN_SETTLEMENTS
  None

ASSUME FeeAssumption ==
  /\ Parts \in [Table -> SUBSET Component]
  /\ Assumed \in [Component -> Nat]
  /\ Mapped \subseteq Component
  /\ Reading \in [Txn -> {"kept", "dropped", "raises"}]
  /\ IsSale \in [Txn -> BOOLEAN]
  /\ Charged \in [Txn -> [Component -> Nat \cup {None}]]
  /\ IsFiniteSet(Txn) /\ IsFiniteSet(Component)
  /\ MinSettlements \in Nat \ {0}
  /\ None \notin Nat \cup Table

VARIABLES
  disk,   \* the tables: whole or emptied, their `provisional`, their values
  job     \* the reconcile in progress

feeVars == <<disk, job>>

\* History: the components ever `fitted`, and how many `sales` the text rests on.
Content == [whole : BOOLEAN, provisional : BOOLEAN, value : [Component -> Nat],
            fitted : SUBSET Component, sales : Nat]
Shipped == [whole |-> TRUE, provisional |-> TRUE, value |-> Assumed, fitted |-> {},
            sales |-> 0]

IdleJob == [step |-> "idle", table |-> None, file |-> {}, text |-> Shipped]

FeeInit ==
  /\ disk = [t \in Table |-> Shipped]
  /\ job = IdleJob

-----------------------------------------------------------------------------
(* reconcile.                                                              *)

\* parse_transactions: a line item without an order, an id or a fee basis is dropped,
\* refunds are not; a basis in another currency raises, and the command is over.
Raises(payload) == \E x \in payload : Reading[x] = "raises"
ParseTransactions(payload) == {x \in payload : Reading[x] = "kept"}

\* Mutant: refunds count as settlements.
AllSettled(file) == file

\* The clean observations: sales, without the refunds.
Sales(file) == {x \in file : IsSale[x]}

\* The line items that carry a fee of the component; a fee type that nothing
\* maps to a component is counted as unmodelled and fits nothing.
Samples(file, c) == IF c \in Mapped THEN {x \in Sales(file) : Charged[x][c] # None} ELSE {}

\* The k-th smallest of the samples.
AtRank(S, c, k) ==
  CHOOSE v \in {Charged[x][c] : x \in S} :
    /\ Cardinality({x \in S : Charged[x][c] < v}) < k
    /\ k <= Cardinality({x \in S : Charged[x][c] <= v})

\* Mutant: the largest sample decides.
LargestSample(S, c) == AtRank(S, c, Cardinality(S))

\* median(), then quantize with ROUND_HALF_UP.
Median(S, c) ==
  (AtRank(S, c, (Cardinality(S) + 1) \div 2) + AtRank(S, c, (Cardinality(S) + 2) \div 2) + 1)
    \div 2

Observed(t, file) == {c \in Parts[t] : Samples(file, c) # {}}

\* corrected_yaml: a component without a fit keeps its value, and the table is
\* no longer provisional.
Corrected(t, file) ==
  [whole |-> TRUE, provisional |-> FALSE,
   value |-> [c \in Component |->
                IF c \in Observed(t, file) THEN Median(Samples(file, c), c)
                                           ELSE disk[t].value[c]],
   fitted |-> disk[t].fitted \cup Observed(t, file),
   sales |-> Cardinality({x \in file : IsSale[x]})]

\* reconcile_fees with --write, up to the rewrite. It refuses below the floor, and a
\* table that is not whole does not load.
ReconcileFees(t, file) ==
  /\ job.step = "idle"
  /\ disk[t].whole
  /\ Cardinality(Sales(file)) >= MinSettlements
  /\ job' = [step |-> "fitted", table |-> t, file |-> file, text |-> Corrected(t, file)]
  /\ UNCHANGED disk

\* write_text opens the file, which empties it,
OpenTable ==
  /\ job.step = "fitted"
  /\ disk' = [disk EXCEPT ![job.table] =
                [disk[job.table] EXCEPT !.whole = FALSE, !.sales = 0]]
  /\ job' = [job EXCEPT !.step = "writing"]

\* and then writes.
WriteTable ==
  /\ job.step = "writing"
  /\ disk' = [disk EXCEPT ![job.table] = job.text]
  /\ job' = IdleJob

ReconcileDies ==
  /\ job.step # "idle"
  /\ job' = IdleJob
  /\ UNCHANGED disk

\* The operator puts the shipped table back (outside the program).
Restore(t) ==
  /\ job.step = "idle"
  /\ disk' = [disk EXCEPT ![t] = Shipped]
  /\ UNCHANGED job

FeeNext ==
  \/ \E t \in Table : \E payload \in SUBSET Txn :
       ~Raises(payload) /\ ReconcileFees(t, ParseTransactions(payload))
  \/ OpenTable
  \/ WriteTable
  \/ ReconcileDies
  \/ \E t \in Table : Restore(t)

-----------------------------------------------------------------------------
(* Placeholder P1.                                                         *)

\* _fee_table_flags: an emptied file is no mapping, and so provisional.
ProvisionalTables == {t \in Table : ~disk[t].whole \/ disk[t].provisional}

\* _resolve_fees.
FeesStatus ==
  IF Table = {} THEN "unknown" ELSE IF ProvisionalTables # {} THEN "open" ELSE "closed"

\* _fees_measured, the rail of AutoBuy.
FeesMeasured == FeesStatus = "closed"

-----------------------------------------------------------------------------
FeeTypeOK ==
  /\ disk \in [Table -> Content]
  /\ job \in [step : {"idle", "fitted", "writing"}, table : Table \cup {None},
              file : SUBSET Txn, text : Content]
  /\ job.step # "idle" => job.table \in Table

\* One odd order moves no rate (reconcile.py: "One promoted or discounted order
\* should not move the rate"): when more than half of the observations agree, the
\* table is given what they agree on.
MajorityDecides ==
  job.step # "idle" =>
    \A c \in Parts[job.table] :
      LET S == Samples(job.file, c) IN
      \A v \in {Charged[x][c] : x \in S} :
        2 * Cardinality({x \in S : Charged[x][c] = v}) > Cardinality(S)
          => job.text.value[c] = v

\* AutoBuy's rail is lifted on evidence alone (provenance.py: "Only positive evidence
\* closes a placeholder"): every table is whole and rests on MinSettlements sales,
\* refunds not counted, whatever rewrites were refused, stopped half-way or undone.
RailRestsOnSales ==
  FeesMeasured =>
    \A t \in Table : disk[t].whole /\ disk[t].sales >= MinSettlements

\* corrected_yaml: "`provisional` becomes false: the numbers now come from
\* settlement data. That flag is what `arb provenance` reads to close P1."
ClosedMeansMeasured ==
  FeesMeasured => \A t \in Table : Parts[t] \subseteq disk[t].fitted
=============================================================================
