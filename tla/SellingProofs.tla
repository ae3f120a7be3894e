---------------------------- MODULE SellingProofs ---------------------------
(***************************************************************************)
(* Proofs about the selling side: the register of cross-venue listings     *)
(* (CrossVenue), for every set of listings, items, venues, sessions and    *)
(* workers and every bound of the clock, and the publish gate              *)
(* (Publishing), for every set of editions and drafts.                     *)
(*                                                                         *)
(* The register's properties are not inductive by themselves: that a row   *)
(* is recorded as down only when the listing is gone depends on what a     *)
(* worker carries between the venue's answer and the write, and that a     *)
(* request's age is not understated depends on what a session carries      *)
(* between its SELECT and its UPDATE. IInv states both.                    *)
(***************************************************************************)
EXTENDS CrossVenue, Publishing, TLAPS

Gone(l) == market[l] \in {"sold", "down"}

\* A notification, and a recorded sale, exist only for a listing that sold.
SalesAreReal ==
  /\ \A l \in notices : market[l] = "sold"
  /\ \A l \in soldAt : market[l] = "sold"

\* A yes a worker has yet to record is about a listing that is gone.
AnswersAreTrue ==
  \A w \in Worker : call[w].step = "answered" /\ call[w].answer => Gone(call[w].listing)

\* Workers call, and failures are recorded, only for rows somebody asked for.
OnlyAskedIsCalled ==
  /\ \A w \in Worker : call[w].step # "idle" => requestedAt[call[w].listing] # None
  /\ \A l \in delistError : requestedAt[l] # None

\* What a session will stamp is no later than the first request's commit.
StampsAreOld ==
  /\ \A l \in Listing :
       /\ requestedAt[l] # None <=> firstAsked[l] # None
       /\ firstAsked[l] # None => firstAsked[l] <= now /\ requestedAt[l] <= firstAsked[l]
  /\ \A s \in Session : session[s].step = "read" =>
       /\ session[s].at # None /\ session[s].at <= now
       /\ \A l \in session[s].stamp :
            firstAsked[l] # None => session[s].at <= firstAsked[l]

IInv ==
  /\ TypeOK
  /\ SalesAreReal
  /\ DelistedIsNotBuyable
  /\ AnswersAreTrue
  /\ OnlyAskedIsCalled
  /\ StampsAreOld

-----------------------------------------------------------------------------
\* Initially nothing is listed, asked or in progress.
LEMMA InitIInv == Init => IInv
  BY ConstantsAssumption
  DEF Init, IInv, TypeOK, SalesAreReal, DelistedIsNotBuyable, AnswersAreTrue,
      OnlyAskedIsCalled, StampsAreOld, IdleSession, IdleCall, SessionRecord, CallRecord,
      Time, MarketState, Gone

\* The types are preserved by every step.
LEMMA TypeStep == ASSUME TypeOK, [Next]_vars PROVE TypeOK'
<1> USE ConstantsAssumption DEF TypeOK, rowVars, venueVars, Time, MarketState
<1>1. CASE Market
  BY <1>1 DEF Market, Publish, Sell, LoseNotice
<1>2. ASSUME NEW l \in Listing, RegisterOwnListing(l) \/ MarkSoldUnknown(l)
      PROVE TypeOK'
  BY <1>2 DEF RegisterOwnListing, MarkSoldUnknown
<1>3. ASSUME NEW s \in Session, Handler(s) PROVE TypeOK'
  <2>1. ASSUME NEW l \in Listing, MarkSold(s, l) PROVE TypeOK'
    BY <2>1 DEF MarkSold, MarksThenAsks, SessionRecord, IdleSession
  <2>2. ASSUME NEW i \in Item, NEW v \in Venue, CreateDelistRequest(s, i, v)
        PROVE TypeOK'
    BY <2>2 DEF CreateDelistRequest, SessionRecord, IdleSession
  <2>3. CASE RequestDelistsRead(s)
    BY <2>3 DEF RequestDelistsRead, SessionRecord, IdleSession, ToStamp
  <2>4. CASE RequestDelistsWrite(s)
    BY <2>4 DEF RequestDelistsWrite, SessionRecord, IdleSession
  <2>5. CASE SessionDies(s)
    BY <2>5 DEF SessionDies, SessionRecord, IdleSession
  <2>6. QED BY <1>3, <2>1, <2>2, <2>3, <2>4, <2>5 DEF Handler
<1>4. ASSUME NEW w \in Worker, Delister(w) PROVE TypeOK'
  <2> USE DEF CallRecord, IdleCall
  <2>1. ASSUME NEW l \in Listing, Pick(w, l) PROVE TypeOK'
    BY <2>1 DEF Pick, Unresolved
  <2>2. CASE VenueDeletes(w)
    BY <2>2 DEF VenueDeletes
  <2>3. CASE VenueRepeats(w)
    BY <2>3 DEF VenueRepeats
  <2>4. CASE RecordDelisted(w)
    BY <2>4 DEF RecordDelisted
  <2>5. CASE RecordDelistFailure(w)
    BY <2>5 DEF RecordDelistFailure
  <2>6. CASE WorkerDies(w)
    BY <2>6 DEF WorkerDies
  <2>7. QED BY <1>4, <2>1, <2>2, <2>3, <2>4, <2>5, <2>6 DEF Delister
<1>5. CASE Tick
  BY <1>5 DEF Tick
<1>6. CASE UNCHANGED vars
  BY <1>6 DEF vars
<1>7. QED BY <1>1, <1>2, <1>3, <1>4, <1>5, <1>6 DEF Next

\* Every variable keeps its shape in every behaviour (property TypeOK).
THEOREM TypeCorrect == Spec => []TypeOK
<1>1. Init => TypeOK BY InitIInv DEF IInv
<1>2. QED BY <1>1, TypeStep, PTL DEF Spec

-----------------------------------------------------------------------------
\* A listing that is gone stays gone, and one that sold stays sold.
LEMMA MarketStep ==
  ASSUME TypeOK, [Next]_vars, NEW l \in Listing
  PROVE  /\ Gone(l) => Gone(l)'
         /\ market[l] = "sold" => market'[l] = "sold"
<1> USE DEF TypeOK, rowVars, venueVars, Gone
<1>1. CASE Market
  BY <1>1 DEF Market, Publish, Sell, LoseNotice
<1>2. ASSUME NEW m \in Listing, RegisterOwnListing(m) \/ MarkSoldUnknown(m)
      PROVE UNCHANGED market
  BY <1>2 DEF RegisterOwnListing, MarkSoldUnknown
<1>3. ASSUME NEW s \in Session, Handler(s) PROVE UNCHANGED market
  BY <1>3 DEF Handler, MarkSold, MarksThenAsks, CreateDelistRequest, RequestDelistsRead,
              RequestDelistsWrite, SessionDies
<1>4. ASSUME NEW w \in Worker, Delister(w)
      PROVE UNCHANGED market \/ VenueDeletes(w)
  BY <1>4 DEF Delister, Pick, VenueRepeats, RecordDelisted, RecordDelistFailure, WorkerDies
<1>5. ASSUME NEW w \in Worker, VenueDeletes(w)
      PROVE /\ Gone(l) => Gone(l)'
            /\ market[l] = "sold" => market'[l] = "sold"
  BY <1>5 DEF VenueDeletes
<1>6. CASE Tick \/ UNCHANGED vars
  BY <1>6 DEF Tick, vars
<1>7. QED BY <1>1, <1>2, <1>3, <1>4, <1>5, <1>6 DEF Next

\* Notifications and recorded sales stay real.
LEMMA SalesStep == ASSUME IInv, [Next]_vars PROVE SalesAreReal'
<1> USE DEF IInv, TypeOK, SalesAreReal, rowVars, venueVars
<1>1. \A l \in Listing : market[l] = "sold" => market'[l] = "sold"
  BY MarketStep
<1>2. CASE Market
  BY <1>1, <1>2 DEF Market, Publish, Sell, LoseNotice
<1>3. ASSUME NEW m \in Listing, RegisterOwnListing(m) \/ MarkSoldUnknown(m)
      PROVE SalesAreReal'
  BY <1>3 DEF RegisterOwnListing, MarkSoldUnknown
<1>4. ASSUME NEW s \in Session, Handler(s) PROVE SalesAreReal'
  BY <1>4 DEF Handler, MarkSold, MarksThenAsks, CreateDelistRequest, RequestDelistsRead,
              RequestDelistsWrite, SessionDies
<1>5. ASSUME NEW w \in Worker, Delister(w) PROVE UNCHANGED <<notices, soldAt>>
  BY <1>5 DEF Delister, Pick, VenueDeletes, VenueRepeats, RecordDelisted,
              RecordDelistFailure, WorkerDies
<1>6. CASE Tick \/ UNCHANGED vars
  BY <1>6 DEF Tick, vars
<1>7. QED BY <1>1, <1>2, <1>3, <1>4, <1>5, <1>6 DEF Next

\* What workers carry stays true, and so does what they record.
LEMMA AnswersStep ==
  ASSUME IInv, [Next]_vars PROVE AnswersAreTrue' /\ DelistedIsNotBuyable'
<1> USE DEF IInv, TypeOK, AnswersAreTrue, DelistedIsNotBuyable, rowVars, venueVars
<1>1. \A l \in Listing : Gone(l) => Gone(l)'
  BY MarketStep
<1>2. ASSUME UNCHANGED <<call, delistedAt>>
      PROVE AnswersAreTrue' /\ DelistedIsNotBuyable'
  BY <1>1, <1>2 DEF Gone
<1>3. ASSUME Market \/ (\E m \in Listing : RegisterOwnListing(m) \/ MarkSoldUnknown(m))
      PROVE UNCHANGED <<call, delistedAt>>
  BY <1>3 DEF Market, Publish, Sell, LoseNotice, RegisterOwnListing, MarkSoldUnknown
<1>4. ASSUME NEW s \in Session, Handler(s) PROVE UNCHANGED <<call, delistedAt>>
  BY <1>4 DEF Handler, MarkSold, MarksThenAsks, CreateDelistRequest, RequestDelistsRead,
              RequestDelistsWrite, SessionDies
<1>5. ASSUME NEW w \in Worker, Delister(w)
      PROVE AnswersAreTrue' /\ DelistedIsNotBuyable'
  <2> USE <1>1 DEF Gone, CallRecord, IdleCall
  <2>1. ASSUME NEW l \in Listing, Pick(w, l)
        PROVE AnswersAreTrue' /\ DelistedIsNotBuyable'
    BY <2>1 DEF Pick
  <2>2. CASE VenueDeletes(w)
    BY <2>2 DEF VenueDeletes
  <2>3. CASE VenueRepeats(w)
    BY <2>3 DEF VenueRepeats, MarketState
  <2>4. CASE RecordDelisted(w)
    BY <2>4 DEF RecordDelisted
  <2>5. CASE RecordDelistFailure(w)
    BY <2>5 DEF RecordDelistFailure
  <2>6. CASE WorkerDies(w)
    BY <2>6 DEF WorkerDies
  <2>7. QED BY <1>5, <2>1, <2>2, <2>3, <2>4, <2>5, <2>6 DEF Delister
<1>6. ASSUME Tick \/ UNCHANGED vars PROVE UNCHANGED <<call, delistedAt>>
  BY <1>6 DEF Tick, vars
<1>7. QED BY <1>2, <1>3, <1>4, <1>5, <1>6 DEF Next

\* A request is never forgotten: NULL is never written back.
LEMMA RequestsStay ==
  ASSUME IInv, [Next]_vars, NEW l \in Listing, requestedAt[l] # None
  PROVE  requestedAt'[l] # None
<1> USE DEF IInv, TypeOK, StampsAreOld, rowVars, venueVars
<1>1. ASSUME NEW s \in Session, RequestDelistsWrite(s) PROVE requestedAt'[l] # None
  BY <1>1 DEF RequestDelistsWrite
<1>2. ASSUME NEW s \in Session, Handler(s), ~RequestDelistsWrite(s)
      PROVE UNCHANGED requestedAt
  BY <1>2 DEF Handler, MarkSold, MarksThenAsks, CreateDelistRequest, RequestDelistsRead,
              SessionDies
<1>3. ASSUME NEW w \in Worker, Delister(w) PROVE UNCHANGED requestedAt
  BY <1>3 DEF Delister, Pick, VenueDeletes, VenueRepeats, RecordDelisted,
              RecordDelistFailure, WorkerDies
<1>4. ASSUME \/ Market \/ Tick \/ UNCHANGED vars
             \/ \E m \in Listing : RegisterOwnListing(m) \/ MarkSoldUnknown(m)
      PROVE UNCHANGED requestedAt
  BY <1>4 DEF Market, Publish, Sell, LoseNotice, RegisterOwnListing, MarkSoldUnknown,
              Tick, vars
<1>5. QED BY <1>1, <1>2, <1>3, <1>4 DEF Next

\* Workers and errors stay on rows somebody asked for.
LEMMA AskedStep == ASSUME IInv, [Next]_vars PROVE OnlyAskedIsCalled'
<1> USE DEF IInv, TypeOK, OnlyAskedIsCalled, rowVars, venueVars
<1>1. \A l \in Listing : requestedAt[l] # None => requestedAt'[l] # None
  BY RequestsStay
<1>2. ASSUME UNCHANGED <<call, delistError>> PROVE OnlyAskedIsCalled'
  BY <1>1, <1>2
<1>3. ASSUME NEW s \in Session, Handler(s) PROVE UNCHANGED <<call, delistError>>
  BY <1>3 DEF Handler, MarkSold, MarksThenAsks, CreateDelistRequest, RequestDelistsRead,
              RequestDelistsWrite, SessionDies
<1>4. ASSUME NEW w \in Worker, Delister(w) PROVE OnlyAskedIsCalled'
  <2> USE <1>1 DEF CallRecord, IdleCall
  <2>1. ASSUME NEW l \in Listing, Pick(w, l) PROVE OnlyAskedIsCalled'
    BY <2>1 DEF Pick, Unresolved
  <2>2. CASE VenueDeletes(w)
    BY <2>2 DEF VenueDeletes
  <2>3. CASE VenueRepeats(w)
    BY <2>3 DEF VenueRepeats
  <2>4. CASE RecordDelisted(w)
    BY <2>4 DEF RecordDelisted
  <2>5. CASE RecordDelistFailure(w)
    BY <2>5 DEF RecordDelistFailure
  <2>6. CASE WorkerDies(w)
    BY <2>6 DEF WorkerDies
  <2>7. QED BY <1>4, <2>1, <2>2, <2>3, <2>4, <2>5, <2>6 DEF Delister
<1>5. ASSUME \/ Market \/ Tick \/ UNCHANGED vars
             \/ \E m \in Listing : RegisterOwnListing(m) \/ MarkSoldUnknown(m)
      PROVE UNCHANGED <<call, delistError>>
  BY <1>5 DEF Market, Publish, Sell, LoseNotice, RegisterOwnListing, MarkSoldUnknown,
              Tick, vars
<1>6. QED BY <1>2, <1>3, <1>4, <1>5 DEF Next

\* No session's stamp is later than the first request's commit.
LEMMA StampsStep == ASSUME IInv, [Next]_vars PROVE StampsAreOld'
<1> USE ConstantsAssumption DEF IInv, TypeOK, StampsAreOld, rowVars, venueVars, Time
<1>1. ASSUME UNCHANGED <<requestedAt, firstAsked, session, now>> PROVE StampsAreOld'
  BY <1>1
<1>2. ASSUME NEW s \in Session, Handler(s) PROVE StampsAreOld'
  <2> USE DEF SessionRecord, IdleSession
  <2>1. ASSUME NEW l \in Listing, MarkSold(s, l) PROVE StampsAreOld'
    BY <2>1 DEF MarkSold, MarksThenAsks
  <2>2. ASSUME NEW i \in Item, NEW v \in Venue, CreateDelistRequest(s, i, v)
        PROVE StampsAreOld'
    BY <2>2 DEF CreateDelistRequest
  <2>3. CASE RequestDelistsRead(s)
    BY <2>3 DEF RequestDelistsRead, ToStamp
  <2>4. CASE RequestDelistsWrite(s)
    <3>1. session[s].at \in Time /\ session[s].at <= now
      BY <2>4 DEF RequestDelistsWrite
    <3>2. \A l \in Listing :
            /\ requestedAt'[l] # None <=> firstAsked'[l] # None
            /\ firstAsked'[l] # None => firstAsked'[l] <= now /\ requestedAt'[l] <= firstAsked'[l]
      BY <2>4, <3>1 DEF RequestDelistsWrite
    <3>3. ASSUME NEW x \in Session, session'[x].step = "read"
          PROVE /\ session'[x].at # None /\ session'[x].at <= now
                /\ \A l \in session'[x].stamp :
                     firstAsked'[l] # None => session'[x].at <= firstAsked'[l]
      <4>1. x # s /\ session'[x] = session[x]
        BY <2>4, <3>3 DEF RequestDelistsWrite
      <4>2. session[x].at \in Time /\ session[x].at <= now
        BY <3>3, <4>1
      <4>3. QED BY <2>4, <3>3, <4>1, <4>2 DEF RequestDelistsWrite
    <3>4. QED BY <2>4, <3>2, <3>3 DEF RequestDelistsWrite
  <2>5. CASE SessionDies(s)
    BY <2>5 DEF SessionDies
  <2>6. QED BY <1>2, <2>1, <2>2, <2>3, <2>4, <2>5 DEF Handler
<1>3. ASSUME NEW w \in Worker, Delister(w)
      PROVE UNCHANGED <<requestedAt, firstAsked, session, now>>
  BY <1>3 DEF Delister, Pick, VenueDeletes, VenueRepeats, RecordDelisted,
              RecordDelistFailure, WorkerDies
<1>4. ASSUME Market \/ (\E m \in Listing : RegisterOwnListing(m) \/ MarkSoldUnknown(m))
      PROVE UNCHANGED <<requestedAt, firstAsked, session, now>>
  BY <1>4 DEF Market, Publish, Sell, LoseNotice, RegisterOwnListing, MarkSoldUnknown
<1>5. CASE Tick
  BY <1>5 DEF Tick, SessionRecord
<1>6. CASE UNCHANGED vars
  BY <1>1, <1>6 DEF vars
<1>7. QED BY <1>1, <1>2, <1>3, <1>4, <1>5, <1>6 DEF Next

\* IInv is inductive, so it holds in every behaviour.
LEMMA IInvHolds == Spec => []IInv
<1>1. IInv /\ [Next]_vars => IInv'
  BY TypeStep, SalesStep, AnswersStep, AskedStep, StampsStep DEF IInv
<1>2. QED BY InitIInv, <1>1, PTL DEF Spec

-----------------------------------------------------------------------------
\* A row recorded as down can no longer be bought.
THEOREM DelistedStaysSafe == Spec => []DelistedIsNotBuyable
<1>1. IInv => DelistedIsNotBuyable BY DEF IInv
<1>2. QED BY <1>1, IInvHolds, PTL

\* hazards() reports every tracked listing that is still for sale after a
\* recorded sale of its item.
THEOREM NothingAtRiskIsHidden == Spec => []BuyableAfterSaleIsReported
<1>1. IInv => BuyableAfterSaleIsReported
  BY DEF IInv, BuyableAfterSaleIsReported, AtRisk, SalesAreReal, DelistedIsNotBuyable,
         ReadHazards, HazardCheck
<1>2. QED BY <1>1, IInvHolds, PTL

\* Every hazard but live_after_sale is in the work queue.
THEOREM PendingHazardsAreQueued == Spec => []OwnedHazardIsQueued
<1>1. IInv => OwnedHazardIsQueued
  BY DEF IInv, OwnedHazardIsQueued, AtRisk, KindFor, Unresolved, OnlyAskedIsCalled
<1>2. QED BY <1>1, IInvHolds, PTL

\* The age of a request is never understated.
THEOREM RequestAgeIsHonest == Spec => []RequestClockNotReset
<1>1. IInv => RequestClockNotReset
  BY DEF IInv, RequestClockNotReset, StampsAreOld
<1>2. QED BY <1>1, IInvHolds, PTL

\* SOLD_TWICE is reported only for items that really sold twice.
THEOREM DoubleSaleIsReal == Spec => []SoldTwiceIsReal
<1>1. IInv => SoldTwiceIsReal
  BY DEF IInv, TypeOK, SoldTwiceIsReal, SoldTwice, SalesAreReal
<1>2. QED BY <1>1, IInvHolds, PTL

\* Every step of the table, its sessions and its workers is a step of the
\* abstract ledger or a stutter.
LEMMA LedgerStep == ASSUME IInv, [Next]_vars PROVE [Ledger!Next]_Ledger!ledgerVars
<1> USE DEF Ledger!ledgerVars, rowVars, venueVars
<1> DEFINE Quiet == UNCHANGED <<market, registered, soldAt, delistedAt>>
<1>1. ASSUME NEW l \in Listing, Publish(l) \/ Sell(l) \/ LoseNotice(l)
      PROVE Ledger!Next \/ Quiet
  BY <1>1 DEF Publish, Sell, LoseNotice, Ledger!Next, Ledger!Goes
<1>2. ASSUME NEW l \in Listing, RegisterOwnListing(l) PROVE Ledger!Next
  BY <1>2 DEF RegisterOwnListing, Ledger!Next, Ledger!Track
<1>3. ASSUME NEW l \in Listing, MarkSoldUnknown(l) PROVE Quiet
  BY <1>3 DEF MarkSoldUnknown
<1>4. ASSUME NEW s \in Session, NEW l \in Listing, MarkSold(s, l) PROVE Ledger!Next
  <2>1. l \in registered /\ market[l] = "sold" /\ soldAt' = soldAt \cup {l}
    BY <1>4 DEF MarkSold, MarksThenAsks, IInv, SalesAreReal
  <2>2. Ledger!LearnSale(l)
    BY <1>4, <2>1 DEF MarkSold, MarksThenAsks, Ledger!LearnSale
  <2>3. QED BY <2>2 DEF Ledger!Next
<1>5. ASSUME NEW s \in Session,
             \/ \E i \in Item, v \in Venue : CreateDelistRequest(s, i, v)
             \/ RequestDelistsRead(s) \/ RequestDelistsWrite(s) \/ SessionDies(s)
      PROVE Quiet
  BY <1>5 DEF CreateDelistRequest, RequestDelistsRead, RequestDelistsWrite, SessionDies
<1>6. ASSUME NEW w \in Worker, VenueDeletes(w) PROVE Ledger!Next \/ Quiet
  <2> DEFINE l == call[w].listing
  <2>1. l \in Listing
    BY <1>6 DEF VenueDeletes, IInv, TypeOK
  <2>2. CASE market' = [market EXCEPT ![l] = "down"]
    BY <1>6, <2>1, <2>2 DEF VenueDeletes, Ledger!Next, Ledger!Goes
  <2>3. CASE market' = [market EXCEPT ![l] = "live"]
    BY <1>6, <2>1, <2>3 DEF VenueDeletes, IInv, TypeOK
  <2>4. QED BY <1>6, <2>2, <2>3 DEF VenueDeletes
<1>7. ASSUME NEW w \in Worker, RecordDelisted(w) PROVE Ledger!Next
  <2> DEFINE l == call[w].listing
  <2>1. l \in registered /\ l \in Listing /\ Gone(l)
    BY <1>7 DEF RecordDelisted, IInv, TypeOK, AnswersAreTrue
  <2>2. Ledger!Confirm(l)
    BY <1>7, <2>1 DEF RecordDelisted, Gone, Ledger!Confirm, Ledger!Gone
  <2>3. QED BY <2>1, <2>2 DEF Ledger!Next
<1>8. ASSUME NEW w \in Worker,
             \/ \E l \in Listing : Pick(w, l)
             \/ VenueRepeats(w) \/ RecordDelistFailure(w) \/ WorkerDies(w)
      PROVE Quiet
  BY <1>8 DEF Pick, VenueRepeats, RecordDelistFailure, WorkerDies
<1>9. CASE Tick \/ UNCHANGED vars
  BY <1>9 DEF Tick, vars
<1>10. QED
  BY <1>1, <1>2, <1>3, <1>4, <1>5, <1>6, <1>7, <1>8, <1>9
  DEF Next, Market, Handler, Delister

\* The detailed protocol implements the abstract ledger.
THEOREM LedgerIsImplemented == Spec => ImplementsLedger
<1>1. Init => Ledger!Init
  BY DEF Init, Ledger!Init
<1>2. QED BY <1>1, LedgerStep, IInvHolds, PTL DEF Spec, ImplementsLedger, Ledger!Spec

-----------------------------------------------------------------------------
(* The publish gate, which decides what is listed at all.                   *)

\* The check's two verdicts were reached on a response of the draft's own category.
JudgedByItsRules ==
  listing # Absent /\ listing.verdict \in {"publishable", "refused"} =>
    /\ listing.judgedBy \in Parsed(listing.category)
    /\ listing.verdict = "publishable" <=> Publishable(listing.draft, listing.judgedBy)

GateInv == GateTypeOK /\ JudgedByItsRules /\ HeldOnlyWhenStale

\* For one aspect, nothing is wrong with it in the gate's eyes exactly if eBay would
\* take it.
LEMMA OneAspect ==
  ASSUME NEW c \in DOMAIN Editions, NEW aspects \in Parsed(c),
         NEW a \in aspects, NEW draft \in Drafts
  PROVE  LET sent == Chosen(draft)
             fits(rule) == \A s \in rule.scopes : \A name \in DOMAIN sent \cap {s.gate} :
                             sent[name] \in s.values
         IN  ViolationsOf(a, sent) = {} <=>
               IF a.name \in DOMAIN sent
               THEN /\ Length[sent[a.name]] <= a.maxLength
                    /\ a.mode = "SELECTION_ONLY" =>
                         sent[a.name] \in {rule.value : rule \in {r \in a.rules : fits(r)}}
               ELSE ~a.required
  <1>. DEFINE sent == Chosen(draft)
              fits(rule) == \A s \in rule.scopes : \A name \in DOMAIN sent \cap {s.gate} :
                              sent[name] \in s.values
              matched == {rule \in a.rules : rule.value = sent[a.name]}
  <1>. SUFFICES ViolationsOf(a, sent) = {} <=>
                  IF a.name \in DOMAIN sent
                  THEN /\ Length[sent[a.name]] <= a.maxLength
                       /\ a.mode = "SELECTION_ONLY" =>
                            sent[a.name] \in {rule.value : rule \in {r \in a.rules : fits(r)}}
                  ELSE ~a.required
    OBVIOUS
  <1>1. a.mode \in {"FREE_TEXT", "SELECTION_ONLY"} /\ a.maxLength \in Nat
    BY PublishingAssumption DEF Parsed
  <1>2. \A name \in DOMAIN sent : Length[sent[name]] \in Nat
    <2>1. \A name \in DOMAIN sent :
            sent[name] \in {draft.size, draft.brand}
                             \cup {draft.extra[n] : n \in DOMAIN draft.extra}
      BY DEF Chosen
    <2>2. QED
      BY <2>1, PublishingAssumption
  <1>3. \A rule : fits(rule) <=> Applies(rule, sent)
    BY DEF Applies
  <1>4. sent[a.name] \in {rule.value : rule \in {r \in a.rules : fits(r)}}
          <=> \E rule \in matched : Applies(rule, sent)
    <2>. HIDE DEF sent, fits
    <2>1. sent[a.name] \in {rule.value : rule \in {r \in a.rules : fits(r)}}
            <=> \E rule \in a.rules : fits(rule) /\ rule.value = sent[a.name]
      BY Zenon
    <2>2. (\E rule \in a.rules : fits(rule) /\ rule.value = sent[a.name])
            <=> \E rule \in matched : Applies(rule, sent)
      BY <1>3
    <2>3. QED
      BY <2>1, <2>2, Zenon
  <1>. HIDE DEF sent, fits
  <1>5. CASE a.name \notin DOMAIN sent
    <2>1. ViolationsOf(a, sent) = IF a.required THEN {"missing_required"} ELSE {}
      BY <1>5 DEF ViolationsOf
    <2>2. {"missing_required"} # {}
      OBVIOUS
    <2>3. QED
      BY <1>5, <2>1, <2>2, Zenon
  <1>6. CASE a.name \in DOMAIN sent
    <2>1. Length[sent[a.name]] > a.maxLength <=> ~(Length[sent[a.name]] <= a.maxLength)
      BY <1>1, <1>2, <1>6
    <2>2. ViolationsOf(a, sent) = {} <=>
            /\ ~(Length[sent[a.name]] > a.maxLength)
            /\ a.mode # "FREE_TEXT" => \E rule \in matched : Applies(rule, sent)
      BY <1>6 DEF ViolationsOf
    <2>3. a.mode # "FREE_TEXT" <=> a.mode = "SELECTION_ONLY"
      BY <1>1
    <2>4. QED
      BY <1>4, <1>6, <2>1, <2>2, <2>3, Zenon
  <1>7. QED
    BY <1>5, <1>6

\* The gate says of a draft and a copy what eBay would: a comparison in the one, a
\* list of the kinds of mistake in the other.
LEMMA GateAgrees ==
  ASSUME NEW c \in DOMAIN Editions, NEW aspects \in Parsed(c),
         NEW draft \in Drafts
  PROVE  Publishable(draft, aspects) <=> Indexes(draft, aspects)
  <1>. DEFINE sent == Chosen(draft)
              fits(rule) == \A s \in rule.scopes : \A name \in DOMAIN sent \cap {s.gate} :
                              sent[name] \in s.values
              fine(a) == /\ Length[sent[a.name]] <= a.maxLength
                         /\ a.mode = "SELECTION_ONLY" =>
                              sent[a.name] \in {rule.value : rule \in {r \in a.rules : fits(r)}}
  <1>1. \A a \in aspects : ViolationsOf(a, sent) = {} <=>
          IF a.name \in DOMAIN sent THEN fine(a) ELSE ~a.required
    BY OneAspect
  <1>2. Indexes(draft, aspects) <=>
          /\ draft.condition
          /\ {a.name : a \in {b \in aspects : b.required}} \subseteq DOMAIN sent
          /\ \A a \in aspects : a.name \in DOMAIN sent => fine(a)
    BY Zenon DEF Indexes
  <1>3. Publishable(draft, aspects) <=>
          (\A a \in aspects : ViolationsOf(a, sent) = {}) /\ draft.condition
    BY Zenon DEF Publishable
  <1>. HIDE DEF sent, fine
  <1>4. {a.name : a \in {b \in aspects : b.required}} \subseteq DOMAIN sent
          <=> \A a \in aspects : a.required => a.name \in DOMAIN sent
    BY Zenon
  <1>5. (\A a \in aspects : IF a.name \in DOMAIN sent THEN fine(a) ELSE ~a.required)
          <=> /\ \A a \in aspects : a.required => a.name \in DOMAIN sent
              /\ \A a \in aspects : a.name \in DOMAIN sent => fine(a)
    BY Zenon
  <1>6. (\A a \in aspects : ViolationsOf(a, sent) = {})
          <=> \A a \in aspects : IF a.name \in DOMAIN sent THEN fine(a) ELSE ~a.required
    BY <1>1, Zenon
  <1>7. QED
    BY <1>2, <1>3, <1>4, <1>5, <1>6, Zenon

LEMMA GateStarts == GateInit => GateInv
  <1>. SUFFICES ASSUME GateInit PROVE GateInv
    OBVIOUS
  <1>1. GateTypeOK
    BY DEF GateInit, GateTypeOK, Categories, Payloads
  <1>2. JudgedByItsRules /\ HeldOnlyWhenStale
    BY DEF GateInit, JudgedByItsRules, HeldOnlyWhenStale
  <1>3. QED
    BY <1>1, <1>2 DEF GateInv

\* What the cache gives for a category is parsed from a response for it, or nothing.
LEMMA CacheIsOfItsCategory ==
  ASSUME GateTypeOK, NEW c \in Categories
  PROVE  CachedAspects(c) \in Parsed(c) \cup {Absent}
  <1>1. cached[c] \in Payloads \cup {Absent}
    BY DEF GateTypeOK
  <1>2. CASE cached[c] = Absent \/ cached[c].category # c
    BY <1>2 DEF CachedAspects, AspectsOf
  <1>3. CASE ~(cached[c] = Absent \/ cached[c].category # c)
    <2>1. PICK k \in Categories : \E a \in Editions[k] \cup {Absent} :
            cached[c] = [category |-> k, aspects |-> a]
      BY <1>1, <1>3 DEF Payloads
    <2>2. k = c /\ cached[c].aspects \in Editions[k] \cup {Absent}
      BY <1>3, <2>1
    <2>3. QED
      BY <1>3, <2>2 DEF CachedAspects, AspectsOf, Parsed
  <1>4. QED
    BY <1>2, <1>3

\* A step that leaves the listing alone leaves what was said of it true.
LEMMA ListingRests ==
  ASSUME GateInv, listing' = listing, GateTypeOK'
  PROVE  GateInv'
  <1>1. JudgedByItsRules' /\ HeldOnlyWhenStale'
    BY DEF GateInv, JudgedByItsRules, HeldOnlyWhenStale
  <1>2. QED
    BY <1>1 DEF GateInv

\* What Check writes is a listing.
LEMMA ListingWritten ==
  ASSUME NEW l \in Listings,
         NEW v \in Verdicts, NEW j, \E c \in Categories : j \in Parsed(c) \cup {Absent}
  PROVE  [l EXCEPT !.verdict = v, !.judgedBy = j] \in Listings
  BY DEF Listings

LEMMA GateSteps ==
  ASSUME GateInv, [GateNext]_gateVars
  PROVE  GateInv'
  <1>1. /\ GateTypeOK
        /\ Categories = DOMAIN Editions
        /\ \A c \in Categories : inForce[c] \in Editions[c]
        /\ listing # Absent => listing \in Listings
    BY DEF GateInv, GateTypeOK, Categories
  <1>2. CASE RulesChange
    <2>1. PICK c \in Categories : \E aspects \in Editions[c] :
            inForce' = [inForce EXCEPT ![c] = aspects]
      BY <1>2 DEF RulesChange
    <2>2. \A k \in Categories : inForce'[k] \in Editions[k]
      BY <1>1, <2>1
    <2>3. GateTypeOK' /\ listing' = listing
      BY <1>1, <1>2, <2>2 DEF RulesChange, GateTypeOK, Categories, Payloads,
         Listings, Verdicts
    <2>4. QED
      BY <2>3, ListingRests
  <1>3. CASE Save
    <2>1. GateTypeOK' /\ listing' = listing
      BY <1>1, <1>3 DEF Save, GateTypeOK, Categories, Payloads, Listings,
         Verdicts
    <2>2. QED
      BY <2>1, ListingRests
  <1>4. CASE Load
    <2>1. GateTypeOK' /\ listing' = listing
      BY <1>1, <1>4 DEF Load, GateTypeOK, Categories, Payloads, Listings,
         Verdicts
    <2>2. QED
      BY <2>1, ListingRests
  <1>5. CASE Take
    <2>1. GateTypeOK'
      BY <1>1, <1>5 DEF Take, GateTypeOK, Categories, Payloads, Listings,
         Verdicts
    <2>2. JudgedByItsRules' /\ HeldOnlyWhenStale'
      BY <1>5 DEF Take, JudgedByItsRules, HeldOnlyWhenStale
    <2>3. QED
      BY <2>1, <2>2 DEF GateInv
  <1>6. CASE Check
    <2>. DEFINE c == listing.category
                aspects == CachedAspects(c)
                verdict == IF aspects = Absent THEN "no_enums"
                           ELSE IF Publishable(listing.draft, aspects)
                           THEN "publishable" ELSE "refused"
    <2>1. listing \in Listings /\ c \in Categories /\ listing.status = "draft"
      BY <1>1, <1>6 DEF Check, Listings
    <2>2. aspects \in Parsed(c) \cup {Absent}
      BY <1>1, <2>1, CacheIsOfItsCategory
    <2>3. listing' = [listing EXCEPT !.verdict = verdict, !.judgedBy = aspects]
      BY <1>6 DEF Check
    <2>. HIDE DEF aspects
    <2>4. listing' \in Listings
      <3>1. verdict \in Verdicts
        BY DEF Verdicts
      <3>2. \E k \in Categories : aspects \in Parsed(k) \cup {Absent}
        BY <2>1, <2>2
      <3>. HIDE DEF verdict
      <3>3. QED
        BY <2>1, <2>3, <3>1, <3>2, ListingWritten
    <2>5. /\ listing'.draft = listing.draft /\ listing'.category = c /\ listing'.status = "draft"
          /\ listing'.verdict = verdict /\ listing'.judgedBy = aspects
      BY <2>1, <2>3 DEF Listings
    <2>6. GateTypeOK'
      BY <1>1, <1>6, <2>4 DEF Check, GateTypeOK, Categories, Payloads,
         Listings, Verdicts
    <2>7. Publishable(listing'.draft, listing'.judgedBy)
            <=> Publishable(listing.draft, aspects)
      BY <2>5
    <2>8. JudgedByItsRules'
      BY <2>2, <2>5 DEF JudgedByItsRules
    <2>9. HeldOnlyWhenStale'
      BY <2>5 DEF HeldOnlyWhenStale
    <2>10. QED
      BY <2>6, <2>8, <2>9 DEF GateInv
  <1>7. CASE Submit
    <2>. DEFINE c == listing.category
                rules == inForce[c]
    <2>1. /\ listing \in Listings /\ c \in Categories /\ rules \in Editions[c]
          /\ listing.draft \in Drafts /\ listing.verdict = "publishable"
      BY <1>1, <1>7 DEF Submit, Listings
    <2>2. listing.judgedBy \in Parsed(c) /\ Publishable(listing.draft, listing.judgedBy)
      BY <1>7, <2>1 DEF Submit, GateInv, JudgedByItsRules
    <2>3. listing' = [listing EXCEPT
            !.status = IF Indexes(listing.draft, rules) THEN "indexed" ELSE "held",
            !.stale = listing.judgedBy \in Editions[c] \ {rules}]
      BY <1>7 DEF Submit
    <2>4. listing' \in Listings
      <3>. DEFINE status == IF Indexes(listing.draft, rules) THEN "indexed" ELSE "held"
                  stale == listing.judgedBy \in Editions[c] \ {rules}
      <3>1. status \in {"draft", "indexed", "held"} /\ stale \in BOOLEAN
        OBVIOUS
      <3>2. listing' = [listing EXCEPT !.status = status, !.stale = stale]
        BY <2>3
      <3>. HIDE DEF status, stale
      <3>3. [listing EXCEPT !.status = status, !.stale = stale] \in Listings
        BY <2>1, <3>1 DEF Listings
      <3>4. QED
        BY <3>2, <3>3
    <2>5. /\ listing'.draft = listing.draft /\ listing'.category = c
          /\ listing'.verdict = "publishable" /\ listing'.judgedBy = listing.judgedBy
          /\ listing'.status = "held" => ~Indexes(listing.draft, rules)
          /\ listing'.stale = (listing.judgedBy \in Editions[c] \ {rules})
      BY <2>1, <2>3 DEF Listings
    <2>6. GateTypeOK'
      BY <1>1, <1>7, <2>4 DEF Submit, GateTypeOK, Categories, Payloads,
         Listings, Verdicts
    <2>7. JudgedByItsRules'
      BY <2>2, <2>5 DEF JudgedByItsRules
    <2>8. listing'.status = "held" => listing.judgedBy # rules
      BY <1>1, <2>1, <2>2, <2>5, GateAgrees
    <2>9. HeldOnlyWhenStale'
      BY <2>2, <2>5, <2>8 DEF HeldOnlyWhenStale, Parsed
    <2>10. QED
      BY <2>6, <2>7, <2>9 DEF GateInv
  <1>8. CASE UNCHANGED gateVars
    <2>1. GateTypeOK' /\ listing' = listing
      BY <1>1, <1>8 DEF gateVars, GateTypeOK, Categories, Payloads, Listings,
         Verdicts
    <2>2. QED
      BY <2>1, ListingRests
  <1>9. QED
    BY <1>2, <1>3, <1>4, <1>5, <1>6, <1>7, <1>8 DEF GateNext

LEMMA GateInvHolds == GateSpec => []GateInv
  BY GateStarts, GateSteps, PTL DEF GateSpec

\* Whatever eBay changes and whatever is saved and loaded when, a listing that the check
\* let through is held back only where the check used another edition of its category's
\* rules than the one in force, or a response without a list of aspects
\* (parse_aspects, validate_draft, `arb taxonomy load`).
THEOREM OnlyStaleRulesLetThrough == GateSpec => []HeldOnlyWhenStale
  <1>1. GateInv => HeldOnlyWhenStale
    BY DEF GateInv
  <1>2. QED
    BY <1>1, GateInvHolds, PTL

\* For any aspects, value constraints and draft, what the check refuses eBay would not
\* have indexed under the rules the check had (_check, _check_enum).
THEOREM RefusalsAreDeserved == GateSpec => []RefusedOnlyForCause
  <1>1. GateInv => RefusedOnlyForCause
    <2>. SUFFICES ASSUME GateInv, listing # Absent, listing.verdict = "refused"
                  PROVE  ~Indexes(listing.draft, listing.judgedBy)
      BY DEF RefusedOnlyForCause
    <2>1. listing.category \in DOMAIN Editions /\ listing.draft \in Drafts
      BY DEF GateInv, GateTypeOK, Listings, Categories
    <2>2. /\ listing.judgedBy \in Parsed(listing.category)
          /\ ~Publishable(listing.draft, listing.judgedBy)
      BY DEF GateInv, JudgedByItsRules
    <2>3. QED
      BY <2>1, <2>2, GateAgrees
  <1>2. QED
    BY <1>1, GateInvHolds, PTL
=============================================================================
