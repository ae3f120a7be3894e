---------------------------- MODULE AutobuyRails ----------------------------
(***************************************************************************)
(* The purchase rails of AutoBuy (src/arb/autobuy.py, authorise): which    *)
(* candidates of a ranked batch may be bought, under three spend caps, the *)
(* switch, the fee rule and the no-second-purchase rule.                   *)
(*                                                                         *)
(* authorise is a loop over the batch, here one action per candidate. It   *)
(* is called again and again by a buyer that is not part of the repository *)
(* yet; the buyer is modelled by what RailContext asks of it: it hands     *)
(* over what was spent today, what is outstanding and which keys are       *)
(* claimed, and it books what was approved before it asks again.           *)
(***************************************************************************)
EXTENDS Integers, Sequences, FiniteSets

CONSTANTS
  Candidate,     \* ScoredCandidate
  Key,           \* idempotency keys, one per (venue, external_id)
  KeyOf,         \* idempotency_key of each candidate's listing
  Price,         \* price_pence
  Total,         \* total_pence, None when the venue does not say
  Confidence,    \* min(est_confidence, match_confidence), in tenths
  Velocity,      \* whether capital_velocity is known
  MinConfidence, \* RailContext.min_confidence, in tenths
  RunCap,        \* SpendCaps.per_run_pence
  DayCap,        \* SpendCaps.per_day_pence
  OutstandingCap,\* SpendCaps.outstanding_pence
  Batches,       \* the ranked batches that may be offered
  None           \* Python's None

\* RailBreach: the reasons to refuse a whole batch, and one candidate.
Halts == {"kill_switch", "fees_unmeasured", "not_armed", "daily_cap", "outstanding_cap"}
Refusals == {"duplicate", "low_confidence", "no_velocity", "run_cap", "daily_cap",
             "outstanding_cap"}

ASSUME RailsAssumption ==
  /\ KeyOf \in [Candidate -> Key]
  /\ Price \in [Candidate -> Nat]
  /\ Total \in [Candidate -> Nat \cup {None}]
  /\ Confidence \in [Candidate -> Nat]
  /\ Velocity \in [Candidate -> BOOLEAN]
  /\ MinConfidence \in Nat
  /\ RunCap \in Nat /\ DayCap \in Nat /\ OutstandingCap \in Nat
  /\ Batches \subseteq Seq(Candidate)
  /\ None \notin Nat \cup Halts \cup Refusals

VARIABLES
  batch,        \* the candidates offered to this call
  verdict,      \* what each of them got
  next,         \* the candidate under consideration
  halted,       \* Authorisation.halted
  spentRun,     \* spent_run
  seen,         \* seen_in_batch
  spentToday,   \* the buyer's books: RailContext.spent_today_pence
  outstanding,  \* the buyer's books: RailContext.outstanding_pence
  attempted,    \* the buyer's books: RailContext.already_attempted
  bought        \* history: how often each key was approved

loopVars == <<batch, verdict, next, halted, spentRun, seen>>
bookVars == <<spentToday, outstanding, attempted, bought>>
vars == <<loopVars, bookVars>>

Verdict == {"pending", "approved"} \cup Halts \cup Refusals

Init ==
  /\ batch = <<>> /\ verdict = <<>> /\ next = 1
  /\ halted = None /\ spentRun = 0 /\ seen = {}
  /\ spentToday = 0 /\ outstanding = 0 /\ attempted = {}
  /\ bought = [k \in Key |-> 0]

-----------------------------------------------------------------------------
\* _cost_of: `total_pence or price_pence`, so a total of zero is no total.
CostOf(c) == IF Total[c] \in {None, 0} THEN Price[c] ELSE Total[c]

\* _global_breach, in the order it is asked.
GlobalBreach(kill, measured, armed) ==
  IF kill THEN "kill_switch"
  ELSE IF ~measured THEN "fees_unmeasured"
  ELSE IF ~armed THEN "not_armed"
  ELSE IF spentToday >= DayCap THEN "daily_cap"
  ELSE IF outstanding >= OutstandingCap THEN "outstanding_cap"
  ELSE None

\* The duplicate test of the loop, then _item_breach.
ItemBreach(c) ==
  IF KeyOf[c] \in seen \cup attempted THEN "duplicate"
  ELSE IF Confidence[c] < MinConfidence THEN "low_confidence"
  ELSE IF ~Velocity[c] THEN "no_velocity"
  ELSE None

\* Mutant: the day is checked without what this run has spent already.
CapBreachOfItem(c) ==
  IF spentRun + CostOf(c) > RunCap THEN "run_cap"
  ELSE IF spentToday + CostOf(c) > DayCap THEN "daily_cap"
  ELSE IF outstanding + CostOf(c) > OutstandingCap THEN "outstanding_cap"
  ELSE None

CapBreach(c) ==
  IF spentRun + CostOf(c) > RunCap THEN "run_cap"
  ELSE IF spentToday + spentRun + CostOf(c) > DayCap THEN "daily_cap"
  ELSE IF outstanding + spentRun + CostOf(c) > OutstandingCap THEN "outstanding_cap"
  ELSE None

Breach(c) == IF ItemBreach(c) # None THEN ItemBreach(c) ELSE CapBreach(c)

Done == next > Len(batch)

\* A call begins. A global breach refuses the whole batch with one reason.
Authorise(b, kill, measured, armed) ==
  LET stop == GlobalBreach(kill, measured, armed) IN
  /\ batch = <<>>
  /\ batch' = b
  /\ halted' = stop
  /\ verdict' = [j \in DOMAIN b |-> IF stop = None THEN "pending" ELSE stop]
  /\ next' = IF stop = None THEN 1 ELSE Len(b) + 1
  /\ UNCHANGED <<spentRun, seen, bookVars>>

RefusesNext(after) ==
  /\ ~Done
  /\ Breach(batch[next]) # None
  /\ verdict' = [verdict EXCEPT ![next] = Breach(batch[next])]
  /\ next' = after
  /\ UNCHANGED <<batch, halted, spentRun, seen, bookVars>>

\* Mutant: the first refusal ends the loop.
RefuseTheRest == RefusesNext(Len(batch) + 1)

\* A refusal is recorded and the loop goes on.
Refuse == RefusesNext(next + 1)

ApprovesNext(keys, cost, after) ==
  /\ ~Done
  /\ Breach(batch[next]) = None
  /\ verdict' = [verdict EXCEPT ![next] = "approved"]
  /\ seen' = seen \cup keys
  /\ spentRun' = spentRun + cost
  /\ bought' = [bought EXCEPT ![KeyOf[batch[next]]] = @ + 1]
  /\ next' = after
  /\ UNCHANGED <<batch, halted, spentToday, outstanding, attempted>>

\* Mutant: the key of an approved candidate is not remembered.
ApproveForgetting == ApprovesNext({}, CostOf(batch[next]), next + 1)

\* Nothing forbids the candidate: it is approved, its key and its cost noted.
Approve == ApprovesNext({KeyOf[batch[next]]}, CostOf(batch[next]), next + 1)

-----------------------------------------------------------------------------
(* The buyer.                                                              *)

\* It books the approved spend and claims the keys, then may ask again.
Book ==
  /\ batch # <<>> /\ Done
  /\ spentToday' = spentToday + spentRun
  /\ outstanding' = outstanding + spentRun
  /\ attempted' = attempted \cup seen
  /\ batch' = <<>> /\ verdict' = <<>> /\ next' = 1
  /\ halted' = None /\ spentRun' = 0 /\ seen' = {}
  /\ UNCHANGED bought

\* Between calls: midnight, and money that comes back when an item sells.
NewDay ==
  /\ batch = <<>>
  /\ spentToday' = 0
  /\ UNCHANGED <<loopVars, outstanding, attempted, bought>>

Release ==
  /\ batch = <<>>
  /\ \E left \in 0 .. outstanding : outstanding' = left
  /\ UNCHANGED <<loopVars, spentToday, attempted, bought>>

Next ==
  \/ \E b \in Batches \ {<<>>}, kill, measured, armed \in BOOLEAN :
       Authorise(b, kill, measured, armed)
  \/ Refuse
  \/ Approve
  \/ Book
  \/ NewDay
  \/ Release

Spec == Init /\ [][Next]_vars

-----------------------------------------------------------------------------
(* Properties.                                                             *)

Approved == {j \in DOMAIN verdict : verdict[j] = "approved"}

\* Every variable keeps its shape, and the loop stays inside the batch.
TypeOK ==
  /\ batch \in Seq(Candidate)
  /\ verdict \in [DOMAIN batch -> Verdict]
  /\ next \in 1 .. Len(batch) + 1
  /\ halted \in Halts \cup {None}
  /\ spentRun \in Nat /\ spentToday \in Nat /\ outstanding \in Nat
  /\ seen \subseteq Key /\ attempted \subseteq Key
  /\ bought \in [Key -> Nat]

\* No sequence of calls spends past a cap: within a run, within a day and in
\* what is outstanding (SpendCaps: "they bound three different disasters").
SpendWithinCaps ==
  /\ spentRun <= RunCap
  /\ spentToday + spentRun <= DayCap
  /\ outstanding + spentRun <= OutstandingCap

\* No listing is ever approved twice, in one batch or across batches
\* (idempotency_key: "a retry recomputes the *same* key and is refused").
NeverBoughtTwice == \A k \in Key : bought[k] <= 1

\* A candidate refused for a cap does not fit what is left at any later moment
\* of the run, so no affordable item is skipped (authorise: "a cheap good item
\* behind an expensive one is still reachable").
CapRefusalStands ==
  \A j \in DOMAIN verdict :
    LET cost == CostOf(batch[j]) IN
    halted = None =>
      /\ verdict[j] = "run_cap" => spentRun + cost > RunCap
      /\ verdict[j] = "daily_cap" => spentToday + spentRun + cost > DayCap
      /\ verdict[j] = "outstanding_cap" => outstanding + spentRun + cost > OutstandingCap

\* An item nothing forbids is bought: when the call ends, a candidate with no
\* item breach that still fits every cap is among the approved.
NothingAffordableIsLeft ==
  Done /\ halted = None =>
    \A j \in DOMAIN verdict : Breach(batch[j]) = None => verdict[j] = "approved"
=============================================================================
