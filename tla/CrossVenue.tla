----------------------------- MODULE CrossVenue -----------------------------
(***************************************************************************)
(* Cross-venue de-listing (src/arb/selling/crossvenue.py): the own_listings *)
(* table, the functions that write it, the two queries read from it, and   *)
(* the parties they run against: venues that sell and take down listings,  *)
(* sale notifications that are lost or repeated, the console's             *)
(* request-delist endpoint, and workers that call a venue and record what  *)
(* it answered. Each table column that is only ever compared with NULL is  *)
(* the set of listings for which it is not NULL.                           *)
(*                                                                         *)
(* A session of the console and a notification handler may run at the same *)
(* time: request_delists is two steps, the SELECT that decides which rows  *)
(* to stamp and the UPDATE that stamps them, because pysqlite opens no     *)
(* transaction for a SELECT.                                               *)
(***************************************************************************)
EXTENDS Naturals

CONSTANTS
  Listing,      \* our listings: one (venue, external_id) each
  Item,         \* inventory items
  Venue,        \* venues we list on
  ItemOf,       \* the inventory item behind each listing
  VenueOf,      \* the venue each listing is on
  Session,      \* database sessions that may overlap
  Worker,       \* callers of VintedSellVenue.delist
  MaxNow,       \* bound of the clock
  None          \* SQL NULL

ASSUME ConstantsAssumption ==
  /\ ItemOf \in [Listing -> Item]
  /\ VenueOf \in [Listing -> Venue]
  /\ MaxNow \in Nat
  /\ None \notin Nat
  /\ None \notin Listing

VARIABLES
  registered,   \* listings with a row in own_listings
  soldAt,       \* rows with sold_at set
  requestedAt,  \* delist_requested_at of each row
  delistedAt,   \* rows with delisted_at set
  delistError,  \* rows with delist_error set
  market,       \* the venues: what a buyer sees of each listing
  notices,      \* sale notifications not yet lost
  session,      \* the sessions in progress
  call,         \* the workers' calls in progress
  now,          \* the clock
  firstAsked    \* history: when the first request for each row committed

rowVars == <<registered, soldAt, requestedAt, delistedAt, delistError>>
venueVars == <<market, notices>>
vars == <<rowVars, venueVars, session, call, now, firstAsked>>

Time == 0 .. MaxNow
MarketState == {"unpublished", "live", "sold", "down"}

IdleSession == [step |-> "idle", item |-> None, keep |-> None, stamp |-> {}, at |-> None]
IdleCall == [step |-> "idle", listing |-> None, answer |-> FALSE]

Init ==
  /\ registered = {} /\ soldAt = {} /\ delistedAt = {} /\ delistError = {}
  /\ requestedAt = [l \in Listing |-> None]
  /\ market = [l \in Listing |-> "unpublished"]
  /\ notices = {}
  /\ session = [s \in Session |-> IdleSession]
  /\ call = [w \in Worker |-> IdleCall]
  /\ now = 0
  /\ firstAsked = [l \in Listing |-> None]

-----------------------------------------------------------------------------
(* The queries.                                                            *)

\* unresolved_delists: asked to come down and not confirmed. The work queue.
Unresolved == {l \in registered : requestedAt[l] # None /\ l \notin delistedAt}

SameItem(l, m) == ItemOf[l] = ItemOf[m]

\* Mutant: a request counts as done.
AtRiskUntilAsked ==
  {l \in registered \ (soldAt \cup delistedAt) :
     requestedAt[l] = None /\ \E m \in soldAt : SameItem(l, m)}

\* _hazards_for_item: once an item has a sold row, every row of it that is
\* neither sold nor confirmed down is at risk.
AtRisk == {l \in registered \ (soldAt \cup delistedAt) : \E m \in soldAt : SameItem(l, m)}

\* _kind_for: an error outranks a request.
KindFor(l) ==
  IF l \in delistError THEN "delist_failed"
  ELSE IF requestedAt[l] # None THEN "delist_pending"
  ELSE "live_after_sale"

\* Items with a SOLD_TWICE hazard: every sold row after the first is one.
SoldTwice == {i \in Item : \E l, m \in soldAt : l # m /\ ItemOf[l] = i /\ ItemOf[m] = i}

\* One line of the report.
Hazard(l) ==
  [item |-> ItemOf[l], listing |-> l, kind |-> KindFor(l), requestedAt |-> requestedAt[l],
   detail |-> l \in delistError]

\* GET /hazards: the hazards, and what is in flight.
ReadHazards ==
  [hazards |-> {Hazard(l) : l \in AtRisk}, soldTwice |-> SoldTwice, inFlight |-> Unresolved]

\* `arb hazard-check`, meant to be scheduled: its exit code is 1 while there is a hazard.
HazardCheck == IF AtRisk = {} /\ SoldTwice = {} THEN 0 ELSE 1

-----------------------------------------------------------------------------
(* The venues (outside this repository).                                   *)

Publish(l) ==
  /\ market[l] = "unpublished"
  /\ market' = [market EXCEPT ![l] = "live"]
  /\ UNCHANGED <<rowVars, notices, session, call, now, firstAsked>>

Sell(l) ==
  /\ market[l] = "live"
  /\ market' = [market EXCEPT ![l] = "sold"]
  /\ notices' = notices \cup {l}
  /\ UNCHANGED <<rowVars, session, call, now, firstAsked>>

LoseNotice(l) ==
  /\ l \in notices
  /\ notices' = notices \ {l}
  /\ UNCHANGED <<rowVars, market, session, call, now, firstAsked>>

-----------------------------------------------------------------------------
(* Writers of own_listings.                                                *)

\* register_own_listing. UNIQUE(venue, external_id) refuses a second row.
RegisterOwnListing(l) ==
  /\ l \notin registered
  /\ registered' = registered \cup {l}
  /\ UNCHANGED <<soldAt, requestedAt, delistedAt, delistError, venueVars, session,
                 call, now, firstAsked>>

\* The handler of a sale notification, once mark_sold has written `rows`, asks
\* for the listings of the other venues.
MarksThenAsks(s, l, rows) ==
  /\ session[s].step = "idle"
  /\ soldAt' = soldAt \cup rows
  /\ session' = [session EXCEPT ![s] =
                   [IdleSession EXCEPT !.step = "asking", !.item = ItemOf[l],
                                       !.keep = VenueOf[l]]]
  /\ UNCHANGED <<registered, requestedAt, delistedAt, delistError, venueVars, call,
                 now, firstAsked>>

\* Mutant: the sale is matched by item instead of by (venue, external_id).
MarkSoldWholeItem(s, l) ==
  /\ l \in notices \cap registered
  /\ MarksThenAsks(s, l, {m \in registered : SameItem(l, m)})

\* mark_sold for a notification that arrives, possibly not for the first time.
MarkSold(s, l) == l \in notices \cap registered /\ MarksThenAsks(s, l, {l})

\* mark_sold for a listing it has no row for: None, and the notification is spent.
MarkSoldUnknown(l) ==
  /\ l \in notices \ registered
  /\ notices' = notices \ {l}
  /\ UNCHANGED <<rowVars, market, session, call, now, firstAsked>>

\* POST /hazards/{inventory_id}/request-delist: any item, any venue to keep.
CreateDelistRequest(s, i, v) ==
  /\ session[s].step = "idle"
  /\ session' = [session EXCEPT ![s] =
                   [IdleSession EXCEPT !.step = "asking", !.item = i, !.keep = v]]
  /\ UNCHANGED <<rowVars, venueVars, call, now, firstAsked>>

\* Mutant: every request stamps again.
ToStampAgain(s) ==
  {l \in registered : /\ ItemOf[l] = session[s].item
                      /\ VenueOf[l] # session[s].keep
                      /\ l \notin delistedAt}

\* The rows request_delists stamps: it skips rows already down and keeps the
\* time of the first request.
ToStamp(s) ==
  {l \in registered : /\ ItemOf[l] = session[s].item
                      /\ VenueOf[l] # session[s].keep
                      /\ l \notin delistedAt
                      /\ requestedAt[l] = None}

\* request_delists, first half: read the clock and the rows.
RequestDelistsRead(s) ==
  /\ session[s].step = "asking"
  /\ session' = [session EXCEPT ![s] =
                   [IdleSession EXCEPT !.step = "read", !.stamp = ToStamp(s), !.at = now]]
  /\ UNCHANGED <<rowVars, venueVars, call, now, firstAsked>>

\* request_delists, second half: the UPDATE, whatever happened since the read.
RequestDelistsWrite(s) ==
  /\ session[s].step = "read"
  /\ requestedAt' = [l \in Listing |->
                       IF l \in session[s].stamp THEN session[s].at ELSE requestedAt[l]]
  /\ firstAsked' = [l \in Listing |->
                      IF l \in session[s].stamp /\ firstAsked[l] = None
                        THEN now ELSE firstAsked[l]]
  /\ session' = [session EXCEPT ![s] = IdleSession]
  /\ UNCHANGED <<registered, soldAt, delistedAt, delistError, venueVars, call, now>>

\* The process dies, or the transaction rolls back, before the UPDATE commits.
SessionDies(s) ==
  /\ session[s].step # "idle"
  /\ session' = [session EXCEPT ![s] = IdleSession]
  /\ UNCHANGED <<rowVars, venueVars, call, now, firstAsked>>

-----------------------------------------------------------------------------
(* Workers: take a row off the work queue, call the venue, record.         *)

\* Mutant: a worker that does not wait for a request.
PickUnasked(w, l) ==
  /\ call[w].step = "idle"
  /\ l \in registered \ delistedAt
  /\ call' = [call EXCEPT ![w] = [IdleCall EXCEPT !.step = "asked", !.listing = l]]
  /\ UNCHANGED <<rowVars, venueVars, session, now, firstAsked>>

\* External: a worker takes a row of unresolved_delists and calls its venue.
Pick(w, l) ==
  /\ call[w].step = "idle"
  /\ l \in Unresolved
  /\ call' = [call EXCEPT ![w] = [IdleCall EXCEPT !.step = "asked", !.listing = l]]
  /\ UNCHANGED <<rowVars, venueVars, session, now, firstAsked>>

\* The venue takes a live listing down, or refuses to and says so.
VenueDeletes(w) ==
  LET l == call[w].listing IN
  /\ call[w].step = "asked" /\ market[l] = "live"
  /\ \E yes \in BOOLEAN :
       /\ call' = [call EXCEPT ![w] =
                      [step |-> "answered", listing |-> l, answer |-> yes]]
       /\ market' = [market EXCEPT ![l] = IF yes THEN "down" ELSE "live"]
  /\ UNCHANGED <<rowVars, notices, session, now, firstAsked>>

\* Asked about a listing that is not live, a venue may call it deleted or
\* unknown, but never promises anything of one it has yet to publish.
VenueRepeats(w) ==
  LET l == call[w].listing IN
  /\ call[w].step = "asked" /\ market[l] # "live"
  /\ \E yes \in BOOLEAN :
       /\ yes => market[l] # "unpublished"
       /\ call' = [call EXCEPT ![w] =
                      [step |-> "answered", listing |-> l, answer |-> yes]]
  /\ UNCHANGED <<rowVars, venueVars, session, now, firstAsked>>

\* Mutant: the venue's answer is not looked at.
RecordAnyAnswerAsDown(w) ==
  /\ call[w].step = "answered"
  /\ delistedAt' = delistedAt \cup {call[w].listing}
  /\ delistError' = delistError \ {call[w].listing}
  /\ call' = [call EXCEPT ![w] = IdleCall]
  /\ UNCHANGED <<registered, soldAt, requestedAt, venueVars, session, now, firstAsked>>

\* record_delisted: only a venue's yes sets delisted_at.
RecordDelisted(w) ==
  /\ call[w].step = "answered" /\ call[w].answer
  /\ delistedAt' = delistedAt \cup {call[w].listing}
  /\ delistError' = delistError \ {call[w].listing}
  /\ call' = [call EXCEPT ![w] = IdleCall]
  /\ UNCHANGED <<registered, soldAt, requestedAt, venueVars, session, now, firstAsked>>

\* record_delist_failure: delisted_at stays as it is.
RecordDelistFailure(w) ==
  /\ call[w].step = "answered" /\ ~call[w].answer
  /\ delistError' = delistError \cup {call[w].listing}
  /\ call' = [call EXCEPT ![w] = IdleCall]
  /\ UNCHANGED <<registered, soldAt, requestedAt, delistedAt, venueVars, session, now,
                 firstAsked>>

\* The call times out, its answer is lost or the worker dies: nothing is recorded.
WorkerDies(w) ==
  /\ call[w].step # "idle"
  /\ call' = [call EXCEPT ![w] = IdleCall]
  /\ UNCHANGED <<rowVars, venueVars, session, now, firstAsked>>

Tick ==
  /\ now < MaxNow
  /\ now' = now + 1
  /\ UNCHANGED <<rowVars, venueVars, session, call, firstAsked>>

-----------------------------------------------------------------------------
Market == \E l \in Listing : Publish(l) \/ Sell(l) \/ LoseNotice(l)

Handler(s) ==
  \/ \E l \in Listing : MarkSold(s, l)
  \/ \E i \in Item, v \in Venue : CreateDelistRequest(s, i, v)
  \/ RequestDelistsRead(s)
  \/ RequestDelistsWrite(s)
  \/ SessionDies(s)

Delister(w) ==
  \/ \E l \in Listing : Pick(w, l)
  \/ VenueDeletes(w)
  \/ VenueRepeats(w)
  \/ RecordDelisted(w)
  \/ RecordDelistFailure(w)
  \/ WorkerDies(w)

Next ==
  \/ Market
  \/ \E l \in Listing : RegisterOwnListing(l) \/ MarkSoldUnknown(l)
  \/ \E s \in Session : Handler(s)
  \/ \E w \in Worker : Delister(w)
  \/ Tick

Spec == Init /\ [][Next]_vars

-----------------------------------------------------------------------------
(* Properties.                                                             *)

SessionRecord == [step : {"idle", "asking", "read"}, item : Item \cup {None},
                  keep : Venue \cup {None}, stamp : SUBSET Listing,
                  at : Time \cup {None}]
CallRecord == [step : {"idle", "asked", "answered"}, listing : Listing \cup {None},
               answer : BOOLEAN]

\* Every variable keeps its shape; a call in progress has a listing.
TypeOK ==
  /\ registered \subseteq Listing
  /\ soldAt \subseteq registered
  /\ requestedAt \in [Listing -> Time \cup {None}]
  /\ delistedAt \subseteq registered
  /\ delistError \subseteq registered
  /\ market \in [Listing -> MarketState]
  /\ notices \subseteq Listing
  /\ session \in [Session -> SessionRecord]
  /\ call \in [Worker -> CallRecord]
  /\ now \in Time
  /\ firstAsked \in [Listing -> Time \cup {None}]
  /\ \A w \in Worker : call[w].step # "idle" => call[w].listing \in registered

\* A row the code shows as de-listed can no longer be bought, through lost
\* and repeated answers, refusals and workers racing on one row
\* (record_delisted: "Only a venue's answer sets this").
DelistedIsNotBuyable == \A l \in delistedAt : market[l] \in {"sold", "down"}

\* hazards() misses nothing: whatever crashed or was lost in between, a tracked
\* listing a buyer can still buy, of an item with a recorded sale, is on the console
\* and fails the scheduled check.
BuyableAfterSaleIsReported ==
  \A l \in registered :
    market[l] = "live" /\ (\E m \in soldAt : SameItem(l, m))
      => Hazard(l) \in ReadHazards.hazards /\ HazardCheck = 1

\* A hazard shown as pending or failed is in the work queue, so a worker will
\* come to it; only live_after_sale is nobody's job (HazardKind's docstrings).
OwnedHazardIsQueued ==
  \A l \in AtRisk : KindFor(l) # "live_after_sale" => l \in Unresolved

\* The age of a request is never understated: delist_requested_at is no later
\* than the moment the first request committed, however many sessions ask.
RequestClockNotReset ==
  \A l \in Listing : firstAsked[l] # None =>
    requestedAt[l] # None /\ requestedAt[l] <= firstAsked[l]

\* SOLD_TWICE is never a false alarm: two of the item's listings really sold,
\* however often a notification was repeated.
SoldTwiceIsReal ==
  \A i \in SoldTwice : \E l, m \in Listing :
    /\ l # m /\ ItemOf[l] = i /\ ItemOf[m] = i
    /\ market[l] = "sold" /\ market[m] = "sold"

\* The table, its sessions and its workers implement the abstract ledger.
Ledger == INSTANCE DelistLedger WITH tracked <- registered, known <- soldAt,
                                     confirmed <- delistedAt
ImplementsLedger == Ledger!Spec
=============================================================================
