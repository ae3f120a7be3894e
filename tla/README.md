# A verification of the arbitrage system

This directory holds TLA+ specifications of the program in this repository, the
TLC configurations that model-check them, and theorems about them that the
TLAPS proof system checks. Every definition is translated from the code; the
source lines it stands for are in `PROJECT.json`, under `map`.

The repository holds two programs. **arb** (`src/src/arb`) finds second-hand
listings on Vinted, values them against sold comparables, ranks them, keeps the
books of what was bought and sold, and lists stock on several venues. The
**engine** (`src/engine`) is a smaller, separate service: a polling loop over a
proxy pool, with checkout and cross-listing helpers behind console endpoints.

Paths below are relative to the repository's root. All runs and proofs work from
inside this directory:

    tlc -workers 2 -config CrossVenue.cfg MCCrossVenue
    tlapm SellingProofs.tla


## 1. The system

### arb: selling

| Component | State | Operations | What makes it correct |
|---|---|---|---|
| Cross-venue register (`selling/crossvenue.py`, table `own_listings`) | one row per (venue, external id): `sold_at`, `delist_requested_at`, `delisted_at`, `delist_error` | `mark_sold`, `request_delists`, `record_delisted`, `record_delist_failure`; queries `hazards`, `unresolved_delists` | A row shown as down cannot be bought. Anything that can still be bought after a sale is reported, and what is pending is in a work queue. Repeated notifications change nothing. |
| Vinted sell adapter (`selling/vinted_sell.py`) | none of its own | `publish`, `delist`, `register_own_listing` | Reports "down" only on the venue's word. |
| Repricing and offers (`selling/reprice.py`, `arb reprice`) | pure; the listing is the operator's | ask by days, break-even search, `reprice`, `offer_ladder` | The ask only falls and stays in its band; the search ends and is exact to the penny; an offer taken unattended covers the outlay. |
| Taxonomy and aspects (`selling/taxonomy.py`, `selling/aspects_repo.py`, `arb taxonomy`) | table `taxonomy_aspects`, one copy per category; saved files | `load`, `check` | A checked listing is held only when eBay's rules moved since or the copy is malformed; the gate refuses nothing eBay would take. |
| Shipping labels (`selling/labels.py`) | none | PDF rendering | not modelled |
| Active-listing sweep (`sourcing/sweep.py`) | none; no caller yet | difference of two observations, corroboration by sales | not modelled |

### arb: buying

| Component | State | Operations | What makes it correct |
|---|---|---|---|
| AutoBuy switch (`cli.py`, `autobuy …`, table `autobuy_state`) | one row: `armed_until`, `kill_switch` | `arm`, `stop`, `resume`, `status` | Walking away disarms; a stop stays in force until a resume. |
| AutoBuy rails (`autobuy.py`) | none between calls; a fold over one batch | `authorise` | Three caps bind together; one approval per listing; no affordable candidate skipped. |
| Comps service and cache (`comps/`) | table `comps_cache`, the quota flag | `comps_for`, `fresh_payloads`, `append_payload` | One request per query and run; what a run that commits paid for is kept; an exhausted quota degrades, it does not fail. |
| Scan pipeline (`pipeline.py`) | none | quality gate, contest gate, valuation, rank | Order of the gates: cheap ones before the one that costs a request. |
| Scan and monitor (`cli.py`, `monitor.py`, table `monitor_runs`) | `listings` (the seen set), heartbeat rows | `scan`, `monitor run`, `monitor health` | A run is atomic, nothing is swallowed unannounced, a run leaves a heartbeat, it ends. |
| Vinted read adapter (`sourcing/vinted.py`) | none | `search` | An item without title or price is left out. |
| Quality and contest gates (`sourcing/quality.py`, `sourcing/contest.py`) | pure | `assess`, `assess_contest` | Decide before anything costs a request. |
| Valuation, matching, ranking (`comps/valuation.py`, `comps/matching.py`, `sourcing/rank.py`) | table `opportunities` (the buy list) | `select_comps`, `value`, `score`, floors | One odd sale moves no price; fencing never costs a valuation; buy and sell side agree on what is a profit. |

### arb: books

| Component | State | Operations | What makes it correct |
|---|---|---|---|
| Buy loop and books (`repo.py`, `books/ledger.py`, `books/verticals.py`) | tables `decisions` and `inventory` | `record_decision`, seeding, realised trades, totals, capital position | Settled figures are measurements and stay; estimates say that they are. Nothing in the repository records a sale yet. |
| Fees and reconciliation (`comps/fees.py`, `books/reconcile.py`) | fee tables on disk | charge, fit, `reconcile-fees --write` | A table is marked measured only on enough sales; one odd order moves no rate. |
| Placeholder register (`provenance.py`) | none; reads tables and rows | `gather`, `resolve` | Only real evidence closes a placeholder; P1 guards AutoBuy. |
| Tax books (`books/tax.py`) | none; reads rows | `tax_year_of`, `summarise_tax_year` | Every penny in one tax year, on the cash basis. |
| Session and database plumbing (`db.py`) | the SQLite file | `session_scope` | commit or roll back, one writer at a time |
| Console (`web/api.py`) | none | reads; `request-delist` | |

### engine

| Component | State | Operations | What makes it correct |
|---|---|---|---|
| Proxy pool (`engine/proxy.py`) | ring of proxies, index, quarantine table | `get_proxy`, `mark_failed`, `available_count` | A failed proxy rests; nobody starves; the count is honest. |
| Polling loop (`engine/monitor.py`) | none | `poll_vinted`, `run_monitor_loop` | Survives failures of single polls. |
| Checkout (`engine/autocop.py`) | one attempt | payment methods, session, charge | One charge, within the cap, for an operator who reads the error's stage. |
| Transport and CAPTCHA solver (`engine/tls.py`, `engine/captcha.py`) | the keys that are set | `request` with one retry; providers in turn, polled | A call comes back; a failure of one provider is not the failure of all. |
| Cross-lister, browser profiles, settings, command line, console endpoints | none | one stateless call each | not modelled |

### How the components meet, and where it is hard

All of arb shares one SQLite database. There is no server: the parties that
overlap are processes (two terminals, a scheduled `monitor run`, the console's
threads), and each opens sessions with `session_scope`. Three facts of that
plumbing shape every model here:

- a SELECT takes no lock and opens no write transaction, so **read, decide,
  write** is two steps with other sessions in between;
- an UPDATE names only the columns a session changed, so two overlapping
  sessions merge column by column;
- the first INSERT or UPDATE takes the single write lock and keeps it until
  commit or rollback, and a session that meets it waits for some seconds and
  then fails.

On top of that come parties outside the repository: venues whose answers are
lost or ambiguous, notifications that are lost or repeated, an API with a
hundred requests a month, and processes that are killed. The hazards in
`PROJECT.json` list, line by line, what can go wrong from this and which
property would see it.


## 2. The modules

### CrossVenue: the register under lost answers

`CrossVenue` has the register's table as one variable per column (a column that
is only compared with NULL is the set of rows where it is not), the venues as
`market`, notifications in flight as `notices`, and two kinds of concurrent
actors. A *session* (console or notification handler) does `MarkSold` or
`CreateDelistRequest`, then `RequestDelistsRead` (the SELECT) and
`RequestDelistsWrite` (the UPDATE), and may die between any two of them. A
*worker* takes a row off `unresolved_delists` (`Pick`), has the venue answer
(`VenueDeletes`, `VenueRepeats`) and records it (`RecordDelisted`,
`RecordDelistFailure`), and may die or time out with the venue's work done
(`WorkerDies`).

A venue may refuse to take a live listing down, and may call a listing that is
already gone either deleted or unknown. It is assumed never to confirm the
removal of a listing it has not shown yet. A listing that is down stays down.

`DelistLedger` is the abstract specification: four sets and no requests,
sessions, workers or crashes. `ImplementsLedger` says that the detailed module
implements it: only real sales are recorded, only listings that can no longer be
bought are confirmed, nothing is ever taken back.

What the console and `arb hazards` make of the table is there as state functions:
`Hazard` is one row of the report with its kind, `ReadHazards` the endpoint's answer,
`HazardCheck` the exit code a scheduler looks at.

Two callers of these functions do not exist in the repository: no code calls
`mark_sold` from a notification, and no code loops over `unresolved_delists`.
`MarksThenAsks` and `Pick` model them from what the functions require and from
what their docstrings say they are for. `Pick` is marked external in the map: that a
worker takes only rows of the queue is assumed of it, and `OwnedHazardIsQueued` rests
on that.

### AutobuySwitch: overlapping commands on one row

The row is `[found, armed, kill]`. A command is two steps: `Issue` reads the row
and computes the new one (`Arm`, `Stop`, `Resume`, `Status` are its four forms,
each with the guard of the command), `Commit` writes the columns whose value
differs from what was read. `Rollback` is a lock timeout, an integrity error, or
a killed process. The clock counts hours. The rails ask the row the question
`Permits`.

### AutobuyRails: the caps as a fold

`authorise` is a loop, here one action per candidate (`Refuse`, `Approve`) after
an `Authorise` that applies the whole-batch rails in the code's order. The buyer
that would call it is not written yet; `Book`, `NewDay` and `Release` model what
`RailContext` asks of it: it books what was approved and claims the keys before
it asks again. A buyer that did not would void `NeverBoughtTwice` and the daily
cap, and nothing in `authorise` could prevent it.

### MonitorRun: scans, monitors and one write lock

A run is a process with one session: it reads the seen set, searches, prices
each listing (`Reject`, `PriceFromCache`, `Fetch` then `Append`, or one of the
failures), commits listings, payloads and heartbeat together, and notifies.
The lock is the variable `writer`; `Append` takes it, `Commit`, a rollback and a
crash give it back, and `LockTimeout` is the process that waited in vain.
Failures are split exactly as the `except` clauses split them: what
`monitor_run` catches goes to `failing` and to a second session that records a
failed row, everything else ends the process. `arb scan` catches nothing.

`AtomicRuns` is the abstract specification: a run takes effect in one piece, or
leaves a failed row and nothing else, or leaves nothing.

Left out: what a payload says (a listing ranks or it does not), the verdicts of
the quality and contest gates (`Reject` may drop any listing), updates of a
listing already stored (the seen set only grows), and the age of a payload
inside the run that fetched it (a run is far shorter than the freshness window).

### EnginePool: round robin under quarantine

`poll_vinted` contains no await between `get_proxy` and `mark_failed`, so in one
event loop a poll is one action that takes up to `MaxRequest` time. Pools are
sequences, with repetitions, as a proxy file may repeat a line; quarantine is
keyed by the proxy, so every repeated entry is quarantined at once. `Advance`,
`Turn` and `Skips` are the index arithmetic of the scan; `Swept` is the deletion of expired
entries that only `get_proxy` performs, which is why `AvailableIsHonest` is not
obvious.

### FeeTables and Books: what the money reports rest on

`FeeTables` has the fee tables on disk and the one command that rewrites them.
`ReconcileFees` computes the whole corrected text from a file of line items (the
floor, the refunds left out, the median of each observed component, the values
kept where nothing was observed); `OpenTable` and `WriteTable` are the two halves
of `write_text`, and `ReconcileDies` may come between. `FeesMeasured` is
placeholder P1 as `_fees_measured` asks it for AutoBuy. A line item says of each
component one number or nothing: the rate in ten-thousandths, or pence.

`Books` extends it with the inventory, the decisions and a clock in days. `Buy`
and `Skip` are `record_decision`, `SeedSyntheticTrade` one row of `arb seed`;
`Sell` and `Settle` are the operator, since nothing in the repository writes
those columns. The reports are state functions: `RealisedFees`, `SettledNet` and
`Recycled` of the ledger, `GrossIncome`, `AllowableCosts` and `EstimatedIn` of
the tax year, and `Closed`, the placeholders that the register counts as closed.

A saved response may hold a transaction that says nothing usable: `Reading` says of
each whether `ParseTransactions` keeps it, drops it, or raises and ends the command.
`BooksCommand` is what `arb books` prints, `Dashboard` the console's cards,
`TaxReport` the year with both methods of counting costs.

Left out: quantities and the per-item scope of a component (every row is one
item), P2, P9 and P10, which rest on settings nothing here writes,
and leap years (years have one length). A file holds a line item once. A report
reads the tables in one step; the code issues several SELECTs without a
transaction and may meet two commits.

### FeeModel, BuyScan, Repricing and Trade: one item from find to sale

`FeeModel` is what both ends ask of a fee table: a total fee for each price.
Percentages are rounded one by one, so proceeds do not quite grow with the price;
`Slack` bounds how far they fall, and is a constant because it depends on the table.

`BuyScan` is the buy side as pure operators: which items become listings
(`ToListings`), the two gates (`Assess`, `AssessContest`), the comps of a query
(`SelectComps`), the Tukey fences and interpolated percentiles (`Value`), the score
(`Net`) and the verdict of each listing. A cut point of `statistics.quantiles` is a
fraction with the number of parts below the line; `Cut` is its numerator, so fences
and rounding are exact.

`Repricing` is the sell side with state: `RepriceBegins` starts the command, and the
two loops of `break_even_pence` are its steps (`Widen`, `WideEnough`, `GiveUp`,
`Halve`, `Meet`); `RepriceListing` is `reprice` and `offer_ladder` together, applied.
Rounding a product of floats at a tie may go either way, so `Asks` is a set. Days and
buyers are outside the code.

`Trade` puts the two together over one fee table and one valuation: `Scan` writes
opportunities, `Buy` takes one off the buy list at its scored cost or more and lists
it. Nothing in the code removes an opportunity, so neither does the model.

### Publishing: a gate in front of somebody else's rules

eBay's aspects per category (`inForce`) change at any time; `Save` keeps a response
as a file, `Load` stores any file under any category, as `arb taxonomy load` does,
and `Check` is the gate over the copy. `Submit` is eBay: `Indexes` is what it asks
of a listing under the rules of the day. A saved response is the edition of its day or
malformed: an entry without a list of aspects, which `parse_aspects` reads as the empty
set, under which every draft with a condition passes. Lists of which single aspects are
malformed and dropped one by one are left out. The property is about who is to blame
for a listing that is held.

### Checkout and CaptchaSolver: a charge whose answer is lost

`Checkout` is `attempt_checkout` one request at a time; each may be answered,
refused, or lost before or after it took effect, and `paid` is what the venue
charged. `Interrupted` is a KeyboardInterrupt, which passes every `except Exception`
and leaves no result at all. The operator who starts again (`MayTryAgain`) looks at the
stage in the error's text and does not go on after an interrupt; no code does this for
him, and without him `PaidOnceWithinCap` would not hold. Beside it runs `call`, a
request of the transport with a solver, whose single retry and whose solver
(`CaptchaSolver`: `FirstBlock` and `SecondBlock`, one for each provider's key, each a
creation and a bounded number of polls) are steps; `asked` tells whether this call asked
a provider for a task never, once or again. The two
do not meet: `attempt_checkout` is a coroutine, `asyncio.run` raises in a running
loop, and the challenge itself is the response (section 3).

### MC modules

`MCCrossVenue`, `MCAutobuySwitch`, `MCAutobuyRails`, `MCMonitorRun`,
`MCEnginePool`, `MCBooks`, `MCTrade` and `MCPublishing` define the constant functions of the
small instances and the symmetry sets; `Checkout` needs none. No run replaces a
definition of a specification.


## 3. The runs

| Run | Module, configuration | Expected | Distinct states |
|---|---|---|---|
| crossvenue | MCCrossVenue, CrossVenue.cfg | pass | 1.3 M |
| autobuy_switch | MCAutobuySwitch, AutobuySwitch.cfg | pass | 400 k |
| autobuy_race | MCAutobuySwitch, AutobuySwitchRace.cfg | violation | |
| autobuy_rails | MCAutobuyRails, AutobuyRails.cfg | pass | 160 k |
| monitor | MCMonitorRun, MonitorRun.cfg | pass, liveness | 40 k |
| monitor_heartbeat | MCMonitorRun, MonitorHeartbeat.cfg | violation | |
| engine_pool | MCEnginePool, EnginePool.cfg | pass | 555 k |
| books | MCBooks, Books.cfg | pass | 53 k |
| fees_measured | MCBooks, BooksFees.cfg | violation | |
| trade | MCTrade, Trade.cfg | pass, liveness | 30 k |
| checkout | Checkout, Checkout.cfg | pass, liveness | 17.5 k |
| publishing | MCPublishing, Publishing.cfg | pass | 57 k |

**crossvenue.** One item listed on two venues, two sessions, two workers, a
clock of two instants. The hazards here need at most two of each: two sessions
that both read a row unstamped, two workers on one row, a venue that answers
one and then the other, a sale on either side of a request. Two instants are
enough to tell a request's first time from a second one. What it shows:

- `DelistedIsNotBuyable`: no lost, repeated or contradictory answer makes the
  register call a buyable listing down;
- `BuyableAfterSaleIsReported`: whatever crashed, a listing still on sale after
  its item's sale was recorded is in the console's report and fails the check;
- `OwnedHazardIsQueued`: a pending or failed hazard is in the workers' queue;
- `RequestClockNotReset`: a request is never shown younger than it is, even
  where two sessions stamp the same row;
- `SoldTwiceIsReal`: no false alarm from a repeated notification;
- `ImplementsLedger`: the refinement.

No item of the instance has two listings on one venue, and no third listing or process
fits into the time of a run: that a second listing on the venue of the sale is
reported although nobody asks for it (section 3, end) rests on the theorem
`NothingAtRiskIsHidden`.

**autobuy_switch.** Three overlapping commands, windows of one or two hours,
four instants. Three commands are needed for a stale arm to commit around a
stop and a resume. `WalkAwayDisarms` bounds the window by the last committed arm
whatever is lost or merged; `StoppedStaysStopped` says a stop that ran alone
holds against every later arm until a resume.

**autobuy_rails.** Every batch of up to three of five candidates, repetitions
included, again and again against the same books. The costs make sums that
meet each cap exactly and sums that pass it by one; one listing occurs
at two prices; one total is zero and two unknown; one candidate is below the
confidence and without velocity. `NothingAffordableIsLeft` and `SpendWithinCaps`
look at the fold from both sides: it takes no sum past a cap and skips nothing it
could have bought.

**monitor.** Two overlapping monitor runs, two listings under one query, a quota of
one request so that exhaustion occurs, payloads that expire and quotas that return at
any moment. Every property but one relates two runs at most. `PaidIsKept` counts: of each
query the cache has as many rows as committed runs that paid for it, so that a payload
which does not parse, a lock that is not had or a crash costs what was paid in that run
and nothing else. It says nothing for a run that does not commit, whose payloads are
lost, against the docstring (below). Under fairness of the processes every run ends. A
scan beside a monitor is in the proofs, which hold of any mix and number of runs, and in
no run of TLC's: two monitors and a scan take it past its time.

**engine_pool.** Every pool of up to four entries over three proxies with
repetitions, quarantine of three poll intervals, requests of zero or one time
unit, and fourteen instants: two full quarantines, so that entries expire, are
renewed and are dropped late. `PoolOutlastsQuarantine` is the sizing rule the
code relies on and states nowhere: with a distinct proxy for each poll of a
quarantine, `get_proxy` never raises under one loop. Pools of one and two proxies
do run dry, and the run visits those states.

**books.** Two inventory rows, each bought or seeded, sold and settled over two
days with the end of a tax year between them, under an allowance that lies between
the income of one sale and of two; stock counts as aged from the second day. Two
decisions; two fee tables, one of three components that nothing maps to; files drawn
from three sales, a refund and a transaction the parser drops, with a floor of
three, an odd rate among the sales and a fixed fee that one of them does not carry.
Two rows are the least that tell a sum from one of its terms and a seeded trade from
a real one.

- `RailRestsOnSales`: however refits are refused, stopped half-way, repeated or
  undone, AutoBuy's rail is lifted only over whole tables, each fitted to the
  floor's worth of sales;
- `MajorityDecides`: one odd order moves no rate;
- `SeedingClosesNothing`: generated rows are no evidence, whenever they come;
- `MovingFiguresAreMarked`: when a table is refitted under the books, whatever moves
  - a line of the books, a card of the console, a tax year - said beforehand that it
  is an estimate;
- `EveryPennyInOneYear`: over the years, income is what came back and costs are
  what was paid, sold or not, wherever the boundary falls between purchase and
  sale.

**trade.** Every choice of five items (one without a total, one with a denied and
one with a plain mention of a stain, one much wanted, one for nothing), of eight sold
observations (agreeing, far off, Best Offer, another size, undated) and of answered
queries, so that all 256 comp sets occur; what ranks is bought at its scored cost or
for 30 or 70 more, listed for four days of a ladder of three, and repriced on any of
them. The fee table takes everything above 120 pence, so that items without a
break-even occur, and one doubling is allowed, so that giving up does too. One scan's
opportunities may be written: `Opportunity` has no link to another.

- `FenceNeverRefuses`, `OneOddSaleMovesNothing`: what the fences promise;
- `BreakEvenIsTight`, `SearchEnds`: the search is exact, and ends;
- `RankedStockIsNeverFlagged`: the two sums, of `score` and of `break_even_pence`,
  agree on what a profit is however long the item is listed;
- `UnattendedSaleCovers`: no accepted offer loses more than the table's Slack;
- `AskOnlyDecays`: in whatever order days and commands come.

**checkout.** Three prices, at, below and above a cap of fifty; two proxies that rest
and recover; both providers, either or none; three polls.

- `PaidOnceWithinCap`: one purchase is enough, the question is whether a second one can
  follow it; it rests on the operator's rule;
- `EachProviderAskedOnce`: a task costs money, so one call, its retry included, asks a
  provider once at most; and it asks each before it raises a CaptchaError;
- `CallsEnd`: and it comes back.

**publishing.** Two categories, one of them with two editions: a size that leaves the
enum, a department that becomes required and gates a size; responses with and without
their list of aspects; eight drafts that state, contradict, omit or overwrite what is
asked; every history of changes, saves, loads and checks.

- `HeldOnlyWhenStale`: with another category's file under the category, no copy, or a
  constraint read wrongly, the gate still lets nothing through that its copy of the
  category forbids; what is held was checked against older rules, or by a response that
  came without its list of aspects;
- `RefusedOnlyForCause`: and it refuses nothing that those rules allow.

**Deadlock.** TLC's deadlock check is off in the monitor runs, engine_pool,
trade and checkout, where the system stops by design: processes exit, the loop ends,
an item is never listed again, a purchase is made. It is on in the others.

**Bounds.** `MaxNow` and `MaxDays` bound the clocks, `MaxListed` the opportunities,
`MaxPrice` the prices a table is asked about, `MaxDecisions` the decisions, `Quota` the
requests, `MaxBatch` and `MaxSize` the inputs; `MaxArm`, `Quarantine`, `Interval` and `MaxRequest` are the
code's own parameters scaled down, as are `DecayDays`, `MinChange`, `SearchFrom`,
`MaxTries`, `MaxPolls` and `Allowance`. Nothing else is capped.

**Fairness.** Three `FairSpec`s assume any. MonitorRun: a run that has begun
keeps working. A request to the comps API has httpx's timeout and a wait for the
lock has SQLite's. The search goes through vinted-api-wrapper, for which the
repository sets no timeout: that it returns is assumed. Starting a run, a crash, the expiry of a payload and a new month
are not assumed to happen. Fairness is per run and over everything the process
does, so it promises no particular outcome of a call. Trade: a reprice command
that runs goes on to its end; it is a loop of arithmetic. Checkout: a call that has
begun goes on, every request of it having a timeout; nothing has to be begun, and
nothing is assumed of what venue or provider answer.

### What the violation runs show

Each checks one sentence the repository says of itself, and TLC finds a
behaviour of the code against it.

1. **autobuy_race** (`cli.py:1046`). A `stop` that commits between an `arm`'s
   read and its UPDATE is half undone: the kill switch is on, the window is
   open. A later `resume`, which prints "still disarmed", leaves AutoBuy armed.
   `Permits` is false while the switch is on, so nothing is bought before that
   resume.
2. **monitor_heartbeat** (`cli.py:937`). A rate limit, an error of the comps API
   or a transport error is none of the classes `monitor_run` catches, and the
   run leaves no row; so does a failure path that itself meets the lock. The
   table's docstring says a row is written "whether it succeeded or failed".
3. **fees_measured** (`books/reconcile.py:233`). `corrected_yaml` writes
   `provisional: false` whatever was observed: eBay transactions reconciled
   against `vinted_uk` fit nothing, and the table is marked measured with every
   value it shipped with. P1 closes, and AutoBuy's fee rail lifts. The docstring
   says that the numbers now come from settlement data.

Seen while modelling, without a run of its own. Selling:

- `request_delists` excludes the *venue* of the sale, not the listing
  (`crossvenue.py:127`): a second listing of the item on that venue is never marked,
  though the docstring says every other listing is. It is reported, as nobody's job.
- The bottom of the offer band inverts: at the end of the ladder the ask is
  `est_p25`, auto-decline one penny less, auto-accept the concession below that
  (`reprice.py:226`, where `tests/test_reprice.py:189` asks for decline below accept
  of one ask only).
- Where nothing clears, the floor of the offers is the ask itself, and an offer at the
  ask is accepted unattended, although `break_even_pence` promises that a missing
  break-even does not look like an answer.
- The break-even search is exact at its own price; where rounding makes proceeds dip
  it may miss a smaller price that clears, by as much as Slack allows.
- `fetched_at` of a cached category is never read, and `taxonomy load` of a wrong
  file overwrites a good copy; only the exit code says so.
- A response whose entry for the category has no list of aspects parses to an empty set
  (`taxonomy.py:215`), which validates every draft: the very thing the docstring of
  `parse_aspects` says that returning None prevents (`taxonomy.py:200`).
- A listing registered and never published stays in the delist queue, though
  `register_own_listing` calls that row harmless and self-correcting
  (`vinted_sell.py:125`).

Buying:

- `cli.py:187` says the buy list reads what `scan` last wrote; every opportunity ever
  written is on it.
- `assess` looks at the first mention of a term only, and its negation window runs
  across the end of a sentence (`quality.py:198`).
- A garbled price of one item raises out of `to_listing` and ends the scan.
- `comps_for` flushes a payload before parsing it so that it survives a parser error
  (`comps/service.py:10`), but inside the run's transaction: the rollback takes it
  away, and the request is spent for nothing. `AppendUnparsed` is that step;
  `PaidIsKept` is what remains true.
- `autobuy dryrun` calls no rail, although its docstring says every rail is applied
  (`cli.py:1127`).
- `monitor health` looks at the last fifty rows, so after fifty failures the last
  success reads "never"; a message drops an item that has no velocity
  (`monitor.py:204`).

Books:

- The card of settled trades counts seeded ones as measurements (`web/api.py:147`).
- The median of a vertical ignores the country, though its slice has one
  (`verticals.py:78`); days to sell include the sales that were fenced out.
- A fee basis in another currency raises out of `reconcile-fees`.

Engine:

- The solver is never reached from `attempt_checkout`: `asyncio.run` raises inside
  the running loop (`tls.py:150`). When both providers fail, the error says that none
  is configured (`captcha.py`).
- An interrupt during the charge leaves neither a result nor a record
  (`autocop.py:263`); `purchase_attempts` was meant to hold a claim by then, and nothing
  writes it.
- The command line can never turn the dry run off.
- The cross-lister's delist promises to raise when the request fails
  (`engine/crosslister.py:107`) and returns a failed result.
- `poll_vinted` promises an empty list on any error (`engine/monitor.py:111`); a
  price that is no number raises out of it. `PollBreaks` models that as an end
  of the loop.
- The engine promises "each new listing found" and keeps no seen set.
- The proxy that was picked is never handed to the request.
- The console's quarantine endpoint (`web/api_engine.py:131`) acts on a pool
  built for that request.
- `scan` reports an exhausted quota, `monitor run` does not.
- A listing that sold while its delist was pending stays in
  `unresolved_delists`: the queue does not look at `sold_at`.
- `publish` does not register the listing; its caller has to do it first.
- A decision recorded twice opens two inventory rows.
- `decide --spend ""` and the console's `spend: ""` pass the guard against a
  missing spend and are recorded at a cost of zero (`repo.py:142`).
- Seeded rows are excluded by the register, and counted by `arb tax` and the
  capital position.
- `_fee_table_flags` says that a malformed table is reported and does not crash
  the report (`provenance.py:330`); that holds for text that is YAML, and text
  that is not raises.


## 4. The proofs

TLC checks the instances above; the theorems hold for every value of the
constants that satisfies the named assumptions of the module
(`ConstantsAssumption`, `SwitchAssumption`, `RailsAssumption`, `RunAssumption`,
`PoolAssumption`, `FeeAssumption`, `BooksAssumption`, `FeeModelAssumption`,
`BuyScanAssumption`, `RepricingAssumption`, `TradeAssumption`, `SolverAssumption`,
`CheckoutAssumption`, `PublishingAssumption`), which say only that the functions have
their types, that what one file or one market holds is finite, that NULL is none of
the values, that there is something to draw from, and that proceeds fall by no more
than Slack while the price rises. In particular any number of sessions, workers,
commands, runs, listings and proxies. Every invariant and every action property that
a passing run checks is stated by a theorem.

Each proof module states an inductive invariant `IInv`, proves `Init => IInv` and
`IInv /\ [Next]_vars => IInv'` one action at a time, and derives the theorems.

**SellingProofs** (9 theorems), the register and the gate. The register has 7: every
invariant of its run and the refinement. `DelistedIsNotBuyable` is not inductive: between a venue's yes and
`record_delisted` the truth is in a worker's hands. `IInv` adds what is carried:
`AnswersAreTrue` (a yes not yet recorded is about a listing that is gone),
`SalesAreReal` (notices and recorded sales are of sold listings),
`OnlyAskedIsCalled` (calls and errors exist only for rows asked about) and
`StampsAreOld` (a session's stamp is no later than the first commit). The
refinement `LedgerIsImplemented` maps the steps that change a set to the
abstract action and all others to a stutter; it needs `AnswersAreTrue` for
`Confirm` and `SalesAreReal` for `LearnSale`.

The gate has 2, over its own `GateSpec` (the module EXTENDS both, which is why the
names of `Publishing` are not the register's). `HeldOnlyWhenStale` holds
of a listing whose verdict is what the gate says under the response it was judged by
(`JudgedByItsRules`), which is what the invariant `GateInv` keeps while rules change
and copies are replaced. The rest is a comparison of two judgements: `Check` refuses
and `Indexes` accepts by conditions that must agree aspect by aspect, those scoped to
another aspect's value included.

**AutobuySwitchProofs** (3). `IInv` adds `WindowsAreBounded` (every window, in
the row ends at most `MaxArm` after the last arm, one a session is about to
write at most `MaxArm` from now), `AloneIsAlone` (a session nobody overlapped is the only
one and still sees the row it read),
`StopsStop` (what a stop will write), `SessionsAgree` (while a stop is in
force, every open session read it and will write it) and the property itself.

**AutobuyRailsProofs** (5). `IInv` adds `ApprovedIsRemembered` (a key approved
once is in this batch's keys or in the claimed ones) and `PassedIsJudged`
(everything before the cursor is approved or has a breach that holds now). The heart is
`BreachStays`: sums only grow within a batch, so a breach never lapses.

**MonitorRunProofs** (7, among them the refinement). `IInv` adds the shape of a
run in each step, `BeatsComeLast` (a run still at work has no row),
`AlertsAreStored`, `AfterIsSeen` (what was stored by runs over before this one
began is in its seen set) and `PaidIsHeld` (a query paid for is in hand or
flushed). `PaidPayloadsAreKept` adds the converse (`HeldIsPaid`): a commit then writes a
row for exactly the queries its run paid for, and adds the run to those that are counted
(`CommitKeeps`, `StoresNothing` for every other step). It takes finitely many runs, so
that there is something to count. `RunsRunDown` is the safety half of `RunsEnd`: each step of a run lowers a
count of what it has still to do, two steps for each listing found and four more. It
takes the listings that exist to be finitely many.

**EnginePoolProofs** (5). The arithmetic of the ring (`TurnInPool`, `PickIsFree`,
with the least free slot from the library's well-founded induction on the
naturals), then `EntryStands` (the table holds a failed proxy's
expiry until that time has passed) carries `QuarantineHolds`. Three more:

- `CountIsHonest` needs no invariant but a bijection: `available_count` counts slots
  of the list, the scan counts turns from the index, and a turn names each slot once.
- `EveryProxyHasItsTurn` rests on `RingOrder`: a proxy passed over so many times has a
  slot that is nearer by as many, `waited[p] + k < Size` where k is that slot's turn. A handout shifts the ring past the slots it skipped
  (`RingMovesOn`), and whoever is free was not skipped.
- `LargePoolsNeverStarve` rests on `FailuresAreSpaced`: two proxies in quarantine
  failed at least one Interval apart, because the loop sleeps after a failed poll too.
  Were all of them in quarantine at once, their failures would fit, one for each
  Interval, into less time than a quarantine takes; an injection into the intervals of
  a quarantine counts them.

**BooksProofs** (7). The median is an order statistic that CHOOSE picks, so the
first part proves that there is a k-th smallest observation (`RankExists`, over
`GreatestObservation`) and only one (`RankIsUnique`). From that come the type of
a fitted value and `MedianOfMajority`: when more than half agree, both middle
ranks hold what they agree on. `IInv` adds `RestsOnEnoughSales` (what a
reconcile is about to write, and every table on disk that says it is measured,
rests on the floor; `RailRestsOnSales` is about the tables together and says
nothing of the write to come) and `BoughtInThePast`. `SeedsAreNoEvidence` follows
from the set of real rows being the same before and after.
`OneTaxYearPerDay`: a day lies in exactly the year that `tax_year_of` names, for any
length of the year.

The totals are sums over sets, `SumFunction` of the community modules, which is a
recursive function that CHOOSE picks. The section "Sums" proves what a sum is before
anything is proved of one: that such a function exists on the subsets of a finite set
(`SumsExist`) and that any two agree (`SumsAgree`), by the smallest subset on which
they would not (`SmallestSet`, from the library's facts on cardinality, since an
induction theorem over an operator cannot be instantiated here). From that: a sum
grows by what one more member brings, sums over disjoint sets and sums of two figures
add (`SumOfDisjoint`, `SumOfBoth`), and a sum over parts is the sum over the whole
(`SumByParts`). `EveryPennyIsTaxedOnce` is `SumByParts` with the years as the parts,
which `OneTaxYearPerDay` says they are. `FeesMoveOnlyEstimates` compares every report
before and after a step that rewrites a table (`OnlyReconcileWrites`): a settled
trade's line has no fee of a table in it (`SettledStays`), so sums over settled trades
are sums of equals, and a year with nothing estimated in it stays (`SettledYearStays`).

**TradeProofs** (9). `IInv` has the types and three parts: `ListIsSound` (what is on
the buy list was scored, and above the floor), `SearchIsSound` (the interval of the
search always has a price that clears at its upper end and one that does not just
below its lower end; this is what makes the answer exact at `Meet`) and `StockIsSound`
(the last break-even clears and no threshold undercuts it). That a valuation is two
prices in order rests on lemmas about weighted means and rounding
(`WeightedMean`, `NthIsPrice`, `PercentileIsPrice`). Two theorems carry one more
invariant each and a condition that is part of what they say: `EndsAgree`
(`ScoredClears`; the scan's floor is at least the table's Slack - the default floor
is one penny, so a table that dips by two would void it) and `LadderGoesDown`
(`AskIsDue`: the ask was due on some day that has come; a change of one penny is not
worth making - by default it takes a hundred).

Two are about the fences. `ReportIsSound` says that what is judged is judged on some
set of sales; what remains is about order statistics of any multiset, whatever its
size. `QuartileAt` places a quartile between two neighbours, `ThreeWithinFences` finds
three sales that no fence drops, and `OddPlace` and `AgreedPercentile` show where one
stray sale among equals can sit. Both theorems have the hypothesis `MinComps <= 3`.
`min_comp_n` is three unless it is configured otherwise (`config.py:60`,
`pipeline.py:39`); with a floor of four, four sales of which one is fenced are refused
and `FenceNeverRefuses` is false, which is why it is a condition and no assumption.

`SearchRunsDown` is the safety half of `SearchEnds`: at most `3 + MaxPrice + MaxTries`
steps, whatever the fee table says, and each halving halves the interval at least.

**CheckoutProofs** (5). `ChargedOnce`: while an attempt is under way or another may be
started, nothing has been paid, so the one charge to come is the first and within the
cap. `AskedInOrder` says, for each place a solve can be at, how often either provider
has been asked; the property speaks of the end only. `CallRunsDown` is the safety half
of `CallsEnd`: at most `2 * MaxPolls + 7` steps, two requests and each provider once
with its polls.

### What is model-checked only

`RunsEnd`, `SearchEnds` and `CallsEnd`: liveness under fairness speaks of ENABLED,
which is out of the prover's reach. What a proof can say of them is proved: the three
`...RunsDown` theorems bound the steps there are, so that the runs of TLC have to
show only that a process with work left is never stuck.


## 5. Not modelled

- The active-listing sweep: pure functions that nothing calls, with no stored
  observation, so there is no history to check. Response mapping, the title score,
  the order of a ranking, the confidence of a valuation, the backtest, PDF labels,
  the page of the console, migrations: conversions of data, reports or display.
- A transaction whose reading raises ends the command with nothing done; the instance
  of `books` has none, since the step changes nothing.
- The engine's cross-lister and browser profiles: one stateless call each. Its
  console endpoints: placeholders, over a pool that every request builds for itself.
- Money arithmetic and wall-clock time zones: amounts are natural numbers, times
  are instants.
- SQLite itself: sessions, the write lock and the merge of columns are modelled
  from how `db.py` opens it (WAL, pysqlite's own transactions and its default
  wait of five seconds for the lock).


## 6. Plan

Done, in this order: A. the cross-venue register and its refinement; B. the
AutoBuy switch and rails; C. scans and monitor runs and their refinement; D. the
engine's pool and loop; E. fee tables, books, tax years and the register; F. the trade
from scan to sale; G. the publish gate; H. the engine's checkout.

Next:

1. **Composition of the fee tables with the rails.** `measured` is a free input
   of `AutobuyRails`; with `FeesMeasured` in its place a refit between two
   batches becomes a step of the model.
2. **Reports over several SELECTs.** A sale that commits between the sums of one
   `capital_position`.
3. **Monitor health**, a reader of the heartbeats.
