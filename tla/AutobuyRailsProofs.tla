------------------------- MODULE AutobuyRailsProofs -------------------------
(***************************************************************************)
(* Proofs about AutobuyRails, for any candidates, prices, caps and batches *)
(* and any number of calls.                                                *)
(*                                                                         *)
(* The caps bind because the loop tests the sum it is about to reach. The  *)
(* other facts need what the loop has judged so far to stay judged: an     *)
(* approval only adds to the keys and to the spend, so a reason to refuse  *)
(* never goes away within a call.                                          *)
(***************************************************************************)
EXTENDS AutobuyRails, TLAPS

\* A key approved once is remembered, by the loop or by the buyer.
ApprovedIsRemembered ==
  \A k \in Key : bought[k] = 0 \/ (bought[k] = 1 /\ k \in seen \cup attempted)

\* Every candidate the loop has passed is approved or has a reason not to be.
PassedIsJudged ==
  halted = None =>
    \A j \in DOMAIN batch : j < next => verdict[j] = "approved" \/ Breach(batch[j]) # None

IInv ==
  /\ TypeOK
  /\ SpendWithinCaps
  /\ ApprovedIsRemembered
  /\ CapRefusalStands
  /\ PassedIsJudged

-----------------------------------------------------------------------------
\* What a candidate costs is an amount.
LEMMA CostIsNat == ASSUME NEW c \in Candidate PROVE CostOf(c) \in Nat
  BY RailsAssumption DEF CostOf

\* A breach is a refusal; in particular it is neither "pending" nor "approved".
LEMMA BreachType ==
  ASSUME NEW c \in Candidate, Breach(c) # None
  PROVE  Breach(c) \in Refusals
  BY DEF Breach, ItemBreach, CapBreach, Refusals

\* A sum past a cap stays past it when one of its terms grows.
LEMMA SumGrows ==
  ASSUME NEW a \in Nat, NEW b \in Nat, a <= b, NEW u \in Nat, NEW x \in Nat, NEW cap \in Nat
  PROVE  (a + x > cap => b + x > cap) /\ (u + a + x > cap => u + b + x > cap)
  OBVIOUS

\* A reason to refuse survives any growth of the keys and of the spend.
LEMMA BreachStays ==
  ASSUME TypeOK, TypeOK', NEW c \in Candidate, Breach(c) # None,
         seen \cup attempted \subseteq seen' \cup attempted',
         spentRun <= spentRun', spentToday' = spentToday, outstanding' = outstanding
  PROVE  Breach(c)' # None
<1>1. CASE ItemBreach(c) # None
  <2>1. ItemBreach(c)' # None
    BY <1>1, RailsAssumption DEF ItemBreach, Refusals
  <2>2. QED BY <2>1, RailsAssumption DEF Breach, ItemBreach, CapBreach, Refusals
<1>2. CASE ItemBreach(c) = None
  <2>1. CapBreach(c) # None
    BY <1>2 DEF Breach
  <2>2. CostOf(c) \in Nat /\ CostOf(c)' = CostOf(c)
    BY CostIsNat DEF CostOf
  <2>3. \/ spentRun + CostOf(c) > RunCap
        \/ spentToday + spentRun + CostOf(c) > DayCap
        \/ outstanding + spentRun + CostOf(c) > OutstandingCap
    BY <2>1 DEF CapBreach
  <2>4. \/ spentRun' + CostOf(c) > RunCap
        \/ spentToday' + spentRun' + CostOf(c) > DayCap
        \/ outstanding' + spentRun' + CostOf(c) > OutstandingCap
    <3>1. /\ spentRun \in Nat /\ spentToday \in Nat /\ outstanding \in Nat
          /\ spentRun' \in Nat /\ RunCap \in Nat /\ DayCap \in Nat /\ OutstandingCap \in Nat
      BY RailsAssumption DEF TypeOK
    <3> DEFINE cost == CostOf(c)
    <3> HIDE DEF cost
    <3>2. cost \in Nat
      BY <2>2 DEF cost
    <3>3. \/ spentRun + cost > RunCap
          \/ spentToday + spentRun + cost > DayCap
          \/ outstanding + spentRun + cost > OutstandingCap
      BY <2>3 DEF cost
    <3>4. /\ spentRun + cost > RunCap => spentRun' + cost > RunCap
          /\ spentToday + spentRun + cost > DayCap
               => spentToday + spentRun' + cost > DayCap
          /\ outstanding + spentRun + cost > OutstandingCap
               => outstanding + spentRun' + cost > OutstandingCap
      BY <3>1, <3>2, SumGrows
    <3>5. QED BY <3>3, <3>4 DEF cost
  <2>5. None \notin {"run_cap", "daily_cap", "outstanding_cap"}
    BY RailsAssumption DEF Refusals
  <2>6. CapBreach(c)' # None
    BY <2>2, <2>4, <2>5 DEF CapBreach
  <2>7. ItemBreach(c)' = None \/ ItemBreach(c)' # None
    OBVIOUS
  <2>8. QED BY <2>6, <2>7 DEF Breach
<1>3. QED BY <1>1, <1>2

-----------------------------------------------------------------------------
\* Initially nothing was spent and nothing is offered.
LEMMA InitIInv == Init => IInv
<1> SUFFICES ASSUME Init PROVE IInv
  OBVIOUS
<1>1. TypeOK
  <2>1. batch \in Seq(Candidate) /\ DOMAIN batch = {} /\ Len(batch) = 0
    BY DEF Init
  <2>2. verdict \in [DOMAIN batch -> Verdict] /\ next \in 1 .. Len(batch) + 1
    BY <2>1 DEF Init
  <2>3. bought \in [Key -> Nat]
    BY DEF Init
  <2>4. QED BY <2>1, <2>2, <2>3 DEF Init, TypeOK
<1>2. DOMAIN batch = {} /\ DOMAIN verdict = {}
  BY DEF Init
<1>3. SpendWithinCaps
  BY RailsAssumption DEF Init, SpendWithinCaps
<1>4. ApprovedIsRemembered
  BY DEF Init, ApprovedIsRemembered
<1>5. CapRefusalStands /\ PassedIsJudged
  BY <1>2 DEF CapRefusalStands, PassedIsJudged
<1>6. QED BY <1>1, <1>3, <1>4, <1>5 DEF IInv

\* The candidate under consideration, and where the loop may stand after it.
LEMMA AtNext ==
  ASSUME TypeOK, ~Done
  PROVE  /\ next \in DOMAIN batch /\ DOMAIN verdict = DOMAIN batch
         /\ batch[next] \in Candidate /\ KeyOf[batch[next]] \in Key
         /\ next \in Nat /\ Len(batch) \in Nat /\ next <= Len(batch)
         /\ DOMAIN batch = 1 .. Len(batch)
  BY RailsAssumption DEF TypeOK, Done

\* A call begins.
LEMMA AuthoriseStep ==
  ASSUME IInv, NEW b \in Batches, NEW kill \in BOOLEAN, NEW measured \in BOOLEAN,
         NEW armed \in BOOLEAN, Authorise(b, kill, measured, armed)
  PROVE  IInv'
<1> USE DEF IInv
<1>1. halted' \in Halts \cup {None}
  BY DEF Authorise, GlobalBreach, Halts
<1>2. b \in Seq(Candidate) /\ batch' = b /\ DOMAIN b = 1 .. Len(b) /\ Len(b) \in Nat
  BY RailsAssumption DEF Authorise
<1>3. verdict' \in [DOMAIN b -> Verdict]
  BY <1>1 DEF Authorise, Verdict
<1>4. next' \in 1 .. Len(b) + 1 /\ (halted' = None => next' = 1)
  BY <1>2 DEF Authorise
<1>5. TypeOK'
  BY <1>1, <1>2, <1>3, <1>4 DEF Authorise, TypeOK, bookVars
<1>6. SpendWithinCaps' /\ ApprovedIsRemembered'
  BY DEF Authorise, SpendWithinCaps, ApprovedIsRemembered, bookVars
<1>7. CapRefusalStands'
  <2>1. halted' = None => \A j \in DOMAIN verdict' : verdict'[j] = "pending"
    BY DEF Authorise
  <2>2. QED BY <2>1 DEF CapRefusalStands
<1>8. PassedIsJudged'
  BY <1>2, <1>4 DEF PassedIsJudged
<1>9. QED BY <1>5, <1>6, <1>7, <1>8

\* What the loop has judged stays judged when the verdict on `next` is v.
LEMMA JudgedStays ==
  ASSUME IInv, ~Done, TypeOK', NEW v \in Refusals \cup {"approved"},
         batch' = batch, halted' = halted, verdict' = [verdict EXCEPT ![next] = v],
         next' = next + 1, seen \subseteq seen', spentRun <= spentRun',
         spentToday' = spentToday, outstanding' = outstanding, attempted' = attempted,
         v = "approved" \/ (v = Breach(batch[next]) /\ v # None)
  PROVE  PassedIsJudged'
<1> SUFFICES ASSUME halted = None, NEW j \in DOMAIN batch, j < next + 1
             PROVE  verdict'[j] = "approved" \/ Breach(batch[j])' # None
  BY DEF PassedIsJudged
<1>1. /\ next \in DOMAIN batch /\ DOMAIN verdict = DOMAIN batch /\ next \in Nat
      /\ batch[j] \in Candidate /\ DOMAIN batch = 1 .. Len(batch) /\ Len(batch) \in Nat
  BY AtNext DEF IInv, TypeOK
<1>2. Breach(batch[j]) # None => Breach(batch[j])' # None
  <2>1. PICK c \in Candidate : c = batch[j]
    BY <1>1
  <2>2. Breach(c) # None => Breach(c)' # None
    BY BreachStays DEF IInv
  <2>3. QED BY <2>1, <2>2
<1>3. CASE j = next
  <2>1. verdict'[j] = v
    BY <1>1, <1>3 DEF IInv, TypeOK
  <2>2. QED BY <1>2, <1>3, <2>1
<1>4. CASE j # next
  <2>1. j < next
    BY <1>1, <1>4
  <2>2. verdict[j] = "approved" \/ Breach(batch[j]) # None
    BY <2>1 DEF IInv, PassedIsJudged
  <2>3. verdict'[j] = verdict[j]
    BY <1>1, <1>4 DEF IInv, TypeOK
  <2>4. QED BY <1>2, <2>2, <2>3
<1>5. QED BY <1>3, <1>4

\* A candidate is turned away.
LEMMA RefuseStep == ASSUME IInv, Refuse PROVE IInv'
<1> USE DEF Refuse, RefusesNext, bookVars
<1> DEFINE v == Breach(batch[next])
<1>1. /\ ~Done /\ next \in DOMAIN batch /\ DOMAIN verdict = DOMAIN batch
      /\ batch[next] \in Candidate /\ next \in Nat /\ Len(batch) \in Nat
      /\ next <= Len(batch) /\ TypeOK /\ DOMAIN batch = 1 .. Len(batch)
  BY AtNext DEF IInv
<1>2. v \in Refusals /\ v # None
  <2>1. PICK c \in Candidate : c = batch[next]
    BY <1>1
  <2>2. Breach(c) \in Refusals
    BY <2>1, BreachType
  <2>3. QED BY <2>1, <2>2
<1>3. TypeOK'
  <2>1. verdict' \in [DOMAIN batch' -> Verdict]
    BY <1>1, <1>2 DEF TypeOK, Verdict
  <2>2. next' \in 1 .. Len(batch') + 1
    BY <1>1
  <2>3. QED BY <1>1, <2>1, <2>2 DEF TypeOK
<1>4. SpendWithinCaps' /\ ApprovedIsRemembered'
  BY DEF IInv, SpendWithinCaps, ApprovedIsRemembered
<1>5. CapRefusalStands'
  <2> SUFFICES ASSUME NEW j \in DOMAIN verdict', halted' = None
               PROVE  /\ verdict'[j] = "run_cap" => spentRun + CostOf(batch[j]) > RunCap
                      /\ verdict'[j] = "daily_cap" =>
                           spentToday + spentRun + CostOf(batch[j]) > DayCap
                      /\ verdict'[j] = "outstanding_cap" =>
                           outstanding + spentRun + CostOf(batch[j]) > OutstandingCap
    BY DEF CapRefusalStands, CostOf
  <2>1. CASE j = next
    <3>1. verdict'[j] = Breach(batch[j])
      BY <1>1, <2>1 DEF TypeOK
    <3>2. Breach(batch[j]) \in {"run_cap", "daily_cap", "outstanding_cap"}
            => Breach(batch[j]) = CapBreach(batch[j])
      BY DEF Breach, ItemBreach
    <3>3. QED BY <3>1, <3>2, RailsAssumption DEF CapBreach, Refusals
  <2>2. CASE j # next
    <3>1. verdict'[j] = verdict[j] /\ j \in DOMAIN verdict
      BY <1>1, <2>2 DEF TypeOK
    <3>2. QED BY <3>1 DEF IInv, CapRefusalStands
  <2>3. QED BY <2>1, <2>2
<1>6. PassedIsJudged'
  <2>1. spentRun <= spentRun' /\ seen \subseteq seen'
    BY <1>1 DEF TypeOK
  <2>2. QED BY <1>1, <1>2, <1>3, <2>1, JudgedStays
<1>7. QED BY <1>3, <1>4, <1>5, <1>6 DEF IInv

\* A candidate is approved. Its verdict is no refusal, and what was refused for
\* a cap is now further from fitting.
LEMMA ApproveStep == ASSUME IInv, Approve PROVE IInv'
<1> USE DEF Approve, ApprovesNext
<1>1. /\ ~Done /\ next \in DOMAIN batch /\ DOMAIN verdict = DOMAIN batch
      /\ batch[next] \in Candidate /\ KeyOf[batch[next]] \in Key
      /\ next \in Nat /\ Len(batch) \in Nat
      /\ next <= Len(batch) /\ TypeOK /\ DOMAIN batch = 1 .. Len(batch)
  BY AtNext DEF IInv
<1> DEFINE cost == CostOf(batch[next])
           key == KeyOf[batch[next]]
<1>2. cost \in Nat /\ spentRun' = spentRun + cost
  <2>1. PICK c \in Candidate : c = batch[next]
    BY <1>1
  <2>2. QED BY <2>1, CostIsNat
<1>3. ItemBreach(batch[next]) = None /\ CapBreach(batch[next]) = None
  BY DEF Breach
<1>4. TypeOK'
  <2>1. verdict' \in [DOMAIN batch' -> Verdict]
    BY <1>1 DEF TypeOK, Verdict
  <2>2. next' \in 1 .. Len(batch') + 1
    BY <1>1
  <2>3. spentRun' \in Nat
    BY <1>1, <1>2 DEF TypeOK
  <2>4. bought' \in [Key -> Nat]
    BY <1>1 DEF TypeOK
  <2>5. QED BY <1>1, <2>1, <2>2, <2>3, <2>4 DEF TypeOK
<1>5. SpendWithinCaps'
  <2>1. None \notin {"run_cap", "daily_cap", "outstanding_cap"}
    BY RailsAssumption DEF Refusals
  <2>2. /\ ~(spentRun + cost > RunCap)
        /\ ~(spentToday + spentRun + cost > DayCap)
        /\ ~(outstanding + spentRun + cost > OutstandingCap)
    BY <1>3, <2>1 DEF CapBreach
  <2>3. /\ spentRun \in Nat /\ spentToday \in Nat /\ outstanding \in Nat
        /\ RunCap \in Nat /\ DayCap \in Nat /\ OutstandingCap \in Nat
    BY <1>1, RailsAssumption DEF TypeOK
  <2> HIDE DEF cost
  <2>4. QED BY <1>2, <2>2, <2>3 DEF SpendWithinCaps
<1>6. ApprovedIsRemembered'
  <2>1. key \notin seen \cup attempted
    BY <1>3, RailsAssumption DEF ItemBreach, Refusals
  <2>2. bought[key] = 0
    BY <1>1, <2>1 DEF IInv, ApprovedIsRemembered
  <2>3. seen' = seen \cup {key} /\ attempted' = attempted
    OBVIOUS
  <2> SUFFICES ASSUME NEW k \in Key
               PROVE  bought'[k] = 0 \/ (bought'[k] = 1 /\ k \in seen' \cup attempted')
    BY DEF ApprovedIsRemembered
  <2>4. CASE k = key
    BY <1>1, <2>2, <2>3, <2>4 DEF TypeOK
  <2>5. CASE k # key
    BY <1>1, <2>3, <2>5 DEF TypeOK, IInv, ApprovedIsRemembered
  <2>6. QED BY <2>4, <2>5
<1>7. CapRefusalStands'
  <2> SUFFICES ASSUME NEW j \in DOMAIN verdict', halted = None
               PROVE  /\ verdict'[j] = "run_cap" => spentRun' + CostOf(batch[j]) > RunCap
                      /\ verdict'[j] = "daily_cap" =>
                           spentToday + spentRun' + CostOf(batch[j]) > DayCap
                      /\ verdict'[j] = "outstanding_cap" =>
                           outstanding + spentRun' + CostOf(batch[j]) > OutstandingCap
    BY DEF CapRefusalStands, CostOf
  <2>1. CASE j = next
    BY <1>1, <2>1 DEF TypeOK
  <2>2. CASE j # next
    <3>1. verdict'[j] = verdict[j] /\ j \in DOMAIN verdict /\ batch[j] \in Candidate
      BY <1>1, <2>2 DEF TypeOK
    <3>2. /\ verdict[j] = "run_cap" => spentRun + CostOf(batch[j]) > RunCap
          /\ verdict[j] = "daily_cap" =>
               spentToday + spentRun + CostOf(batch[j]) > DayCap
          /\ verdict[j] = "outstanding_cap" =>
               outstanding + spentRun + CostOf(batch[j]) > OutstandingCap
      BY <3>1 DEF IInv, CapRefusalStands
    <3> DEFINE other == CostOf(batch[j])
    <3>3. other \in Nat
      <4>1. PICK c \in Candidate : c = batch[j]
        BY <3>1
      <4>2. QED BY <4>1, CostIsNat
    <3>4. /\ spentRun \in Nat /\ spentToday \in Nat /\ outstanding \in Nat
          /\ RunCap \in Nat /\ DayCap \in Nat /\ OutstandingCap \in Nat
      BY <1>1, RailsAssumption DEF TypeOK
    <3> HIDE DEF cost, other
    <3>5. /\ spentRun + other > RunCap => spentRun' + other > RunCap
          /\ spentToday + spentRun + other > DayCap => spentToday + spentRun' + other > DayCap
          /\ outstanding + spentRun + other > OutstandingCap
               => outstanding + spentRun' + other > OutstandingCap
      BY <1>2, <3>3, <3>4
    <3>6. QED BY <3>1, <3>2, <3>5 DEF other
  <2>3. QED BY <2>1, <2>2
<1>8. PassedIsJudged'
  <2>1. spentRun <= spentRun'
    <3> HIDE DEF cost
    <3>1. spentRun \in Nat
      BY <1>1 DEF TypeOK
    <3>2. QED BY <1>2, <3>1
  <2>2. seen \subseteq seen'
    OBVIOUS
  <2>3. QED BY <1>1, <1>4, <2>1, <2>2, JudgedStays
<1>9. QED BY <1>4, <1>5, <1>6, <1>7, <1>8 DEF IInv

\* The buyer books what was approved and the next call starts afresh.
LEMMA BookStep == ASSUME IInv, Book PROVE IInv'
<1> USE DEF Book
<1>1. TypeOK'
  <2>1. batch' \in Seq(Candidate) /\ DOMAIN batch' = {} /\ Len(batch') = 0
    OBVIOUS
  <2>2. verdict' \in [DOMAIN batch' -> Verdict] /\ next' \in 1 .. Len(batch') + 1
    BY <2>1
  <2>3. spentToday' \in Nat /\ outstanding' \in Nat
    BY DEF IInv, TypeOK
  <2>4. QED BY <2>1, <2>2, <2>3 DEF IInv, TypeOK
<1>2. SpendWithinCaps'
  BY RailsAssumption DEF IInv, TypeOK, SpendWithinCaps
<1>3. ApprovedIsRemembered'
  BY DEF IInv, ApprovedIsRemembered
<1>4. DOMAIN batch' = {} /\ DOMAIN verdict' = {}
  OBVIOUS
<1>5. CapRefusalStands' /\ PassedIsJudged'
  BY <1>4 DEF CapRefusalStands, PassedIsJudged
<1>6. QED BY <1>1, <1>2, <1>3, <1>5 DEF IInv

\* Between calls the day turns or money comes back; nothing is on offer.
LEMMA BetweenCalls == ASSUME IInv, NewDay \/ Release PROVE IInv'
<1> USE DEF NewDay, Release, loopVars
<1>1. /\ batch' = batch /\ verdict' = verdict /\ next' = next /\ halted' = halted
      /\ spentRun' = spentRun /\ seen' = seen /\ attempted' = attempted /\ bought' = bought
  OBVIOUS
<1>2. spentToday' \in Nat /\ spentToday' <= spentToday
  BY DEF IInv, TypeOK
<1>3. outstanding' \in Nat /\ outstanding' <= outstanding
  BY DEF IInv, TypeOK
<1>4. TypeOK'
  BY <1>1, <1>2, <1>3 DEF IInv, TypeOK
<1>5. SpendWithinCaps'
  <2>1. PICK day, left \in Nat : day = spentToday' /\ left = outstanding'
    BY <1>2, <1>3
  <2>2. day <= spentToday /\ left <= outstanding
    BY <1>2, <1>3, <2>1
  <2>3. /\ spentRun \in Nat /\ spentToday \in Nat /\ outstanding \in Nat
        /\ DayCap \in Nat /\ OutstandingCap \in Nat
    BY RailsAssumption DEF IInv, TypeOK
  <2>4. day + spentRun <= DayCap /\ left + spentRun <= OutstandingCap
    BY <2>2, <2>3 DEF IInv, SpendWithinCaps
  <2>5. QED BY <1>1, <2>1, <2>4 DEF IInv, SpendWithinCaps
<1>6. ApprovedIsRemembered'
  BY <1>1 DEF IInv, ApprovedIsRemembered
<1>7. batch = <<>> /\ DOMAIN verdict' = {} /\ DOMAIN batch' = {}
  BY <1>1 DEF IInv, TypeOK
<1>8. CapRefusalStands' /\ PassedIsJudged'
  BY <1>7 DEF CapRefusalStands, PassedIsJudged
<1>9. QED BY <1>4, <1>5, <1>6, <1>8 DEF IInv

\* Every step keeps the invariant.
LEMMA NextIInv == IInv /\ [Next]_vars => IInv'
<1> SUFFICES ASSUME IInv, [Next]_vars PROVE IInv'
  OBVIOUS
<1>1. CASE \E b \in Batches \ {<<>>}, kill, measured, armed \in BOOLEAN :
             Authorise(b, kill, measured, armed)
  BY <1>1, AuthoriseStep
<1>2. CASE Refuse
  BY <1>2, RefuseStep
<1>3. CASE Approve
  BY <1>3, ApproveStep
<1>4. CASE Book
  BY <1>4, BookStep
<1>5. CASE NewDay \/ Release
  BY <1>5, BetweenCalls
<1>6. CASE UNCHANGED vars
  <2> USE <1>6 DEF vars, loopVars, bookVars, IInv
  <2>1. TypeOK'
    BY DEF TypeOK
  <2>2. SpendWithinCaps' /\ ApprovedIsRemembered'
    BY DEF SpendWithinCaps, ApprovedIsRemembered
  <2>3. CapRefusalStands'
    BY DEF CapRefusalStands, CostOf
  <2>4. PassedIsJudged'
    BY DEF PassedIsJudged, Breach, ItemBreach, CapBreach, CostOf
  <2>5. QED BY <2>1, <2>2, <2>3, <2>4
<1>7. QED BY <1>1, <1>2, <1>3, <1>4, <1>5, <1>6 DEF Next

LEMMA Invariance == Spec => []IInv
<1>1. QED BY InitIInv, NextIInv, PTL DEF Spec

-----------------------------------------------------------------------------
\* authorise and its books keep their types, for every batch.
THEOREM TypeCorrect == Spec => []TypeOK
<1>1. IInv => TypeOK
  BY DEF IInv
<1>2. QED BY <1>1, Invariance, PTL

\* No sequence of calls spends past the run, day or outstanding cap (authorise).
THEOREM CapsBind == Spec => []SpendWithinCaps
<1>1. IInv => SpendWithinCaps
  BY DEF IInv
<1>2. QED BY <1>1, Invariance, PTL

\* No idempotency key is approved twice, in a batch or across batches.
THEOREM OneApprovalPerListing == Spec => []NeverBoughtTwice
<1>1. IInv => NeverBoughtTwice
  <2> SUFFICES ASSUME IInv, NEW k \in Key PROVE bought[k] <= 1
    BY DEF NeverBoughtTwice
  <2>1. QED BY DEF IInv, ApprovedIsRemembered
<1>2. QED BY <1>1, Invariance, PTL

\* A refusal for a cap is still justified at every later moment of the call.
THEOREM CapRefusalsAreFinal == Spec => []CapRefusalStands
<1>1. IInv => CapRefusalStands
  BY DEF IInv
<1>2. QED BY <1>1, Invariance, PTL

\* When a call ends, every candidate that nothing forbids is among the approved.
THEOREM NothingIsSkipped == Spec => []NothingAffordableIsLeft
<1>1. IInv => NothingAffordableIsLeft
  <2> SUFFICES ASSUME IInv, Done, halted = None, NEW j \in DOMAIN verdict,
                      Breach(batch[j]) = None
               PROVE  verdict[j] = "approved"
    BY DEF NothingAffordableIsLeft
  <2>1. j \in DOMAIN batch /\ j < next
    BY DEF IInv, TypeOK, Done
  <2>2. QED BY <2>1 DEF IInv, PassedIsJudged
<1>2. QED BY <1>1, Invariance, PTL
=============================================================================
