-------------------------- MODULE MonitorRunProofs --------------------------
(***************************************************************************)
(* Proofs about MonitorRun, for any runs, listings, queries and quota.     *)
(*                                                                         *)
(* What a run announces is what it stored and had not seen. The seen set   *)
(* it read stays a part of the table, since nothing leaves the table, so a *)
(* listing new to the table is new to the run that stores it: that is why  *)
(* overlapping runs lose no announcement. And a run that began after       *)
(* another was over has read all that the other announced.                 *)
(***************************************************************************)
EXTENDS MonitorRun, FiniteSetTheorems, TLAPS

Working == {"searching", "pricing", "appending", "failing"}

\* A run that has not begun is new, and what it read stays in the table.
RunShape ==
  \A r \in Run :
    /\ run[r].step = "waiting" => run[r] = NewRun
    /\ run[r].step \in {"failing", "alerting"} => r \in Monitor
    /\ run[r].step = "appending" => run[r].at \in Listing
    /\ run[r].step \in Working \cup {"waiting"} => ~run[r].stored
    /\ run[r].known \subseteq listings

\* A run with a heartbeat has nothing left to record.
BeatsComeLast == \A r \in Run : run[r].step \in Working \cup {"waiting"} => beats[r] = None

\* Only a monitor that stored its listings has announced any: those it had not
\* seen. A run that stored them has them in the table.
AlertsAreStored ==
  \A r \in Run :
    /\ run[r].stored => run[r].ranked \subseteq listings
    /\ run[r].step = "alerting" => run[r].stored
    /\ alerted[r] # {} => run[r].step = "ended" /\ r \in Monitor /\ run[r].stored
    /\ alerted[r] \subseteq run[r].ranked \ run[r].known

\* A monitor has seen all that was announced by the runs over before it began.
AfterIsSeen ==
  \A x \in Monitor : \A r \in run[x].after :
    run[r].step \in Over /\ alerted[r] \subseteq run[x].known

\* What a run in progress has paid for, it has.
PaidIsHeld ==
  \A r \in Run, q \in Query :
    /\ calls[r][q] <= 1
    /\ run[r].step \in {"waiting", "searching"} => calls[r][q] = 0
    /\ run[r].step = "pricing" => calls[r][q] = 0 \/ q \in run[r].got
    /\ run[r].step = "appending" =>
         calls[r][q] = 0 \/ q \in run[r].got \/ q = QueryOf[run[r].at]

IInv ==
  /\ TypeOK
  /\ RunShape
  /\ BeatsComeLast
  /\ AlertsAreStored
  /\ AfterIsSeen
  /\ PaidIsHeld
  /\ KnownWasAnnounced

-----------------------------------------------------------------------------
\* A fresh run is a run.
LEMMA NewRunType == NewRun \in RunRecord
  BY DEF NewRun, RunRecord, Step

\* Initially nothing has begun and nothing is stored.
LEMMA InitIInv == Init => IInv
<1> SUFFICES ASSUME Init PROVE IInv
  OBVIOUS
<1> USE DEF Init
<1>1. \A r \in Run : run[r] = NewRun /\ alerted[r] = {} /\ beats[r] = None
  OBVIOUS
<1>2. TypeOK
  <2>1. run \in [Run -> RunRecord]
    BY NewRunType
  <2>2. payloads \in [Query -> Nat] /\ calls \in [Run -> [Query -> Nat]]
    OBVIOUS
  <2>3. quota \in 0 .. Quota
    BY RunAssumption
  <2>4. QED BY <2>1, <2>2, <2>3 DEF TypeOK
<1>3. RunShape /\ BeatsComeLast /\ AlertsAreStored /\ AfterIsSeen
  <2>1. \A r \in Run : /\ run[r].step = "waiting" /\ ~run[r].stored
                       /\ run[r].known = {} /\ run[r].after = {}
    BY <1>1 DEF NewRun
  <2>2. RunShape
    BY <1>1, <2>1 DEF RunShape
  <2>3. BeatsComeLast /\ AlertsAreStored
    BY <1>1, <2>1 DEF BeatsComeLast, AlertsAreStored
  <2>4. AfterIsSeen
    BY <2>1, RunAssumption DEF AfterIsSeen
  <2>5. QED BY <2>2, <2>3, <2>4
<1>4. PaidIsHeld
  BY <1>1 DEF PaidIsHeld, NewRun
<1>5. KnownWasAnnounced
  BY DEF KnownWasAnnounced
<1>6. QED BY <1>2, <1>3, <1>4, <1>5 DEF IInv

-----------------------------------------------------------------------------
(* What a change of one run leaves alone.                                  *)

\* The types, when the tables stay as they are.
LEMMA TypeStep ==
  ASSUME TypeOK, NEW r \in Run, NEW new \in RunRecord, run' = [run EXCEPT ![r] = new],
         UNCHANGED <<listings, payloads, fresh>>,
         beats' \in [Run -> {None, "ok", "failed"}],
         writer' \in {writer, None, r},
         writer' = r => new.step \in {"pricing", "appending"},
         quota' \in 0 .. Quota, calls' \in [Run -> [Query -> Nat]],
         alerted' \in [Run -> SUBSET Listing]
  PROVE  TypeOK'
<1>1. run' \in [Run -> RunRecord] /\ run'[r] = new /\ \A x \in Run \ {r} : run'[x] = run[x]
  BY DEF TypeOK
<1>2. writer' \in Run \cup {None}
  BY DEF TypeOK
<1>3. writer' # None => run'[writer'].step \in {"pricing", "appending"}
  BY <1>1, <1>2 DEF TypeOK
<1>4. QED BY <1>1, <1>2, <1>3 DEF TypeOK

\* Everything about the tables and the announcements, when a run that works goes
\* on working or comes to an end without storing anything.
LEMMA WorkStep ==
  ASSUME IInv, NEW r \in Run, NEW new \in RunRecord, run' = [run EXCEPT ![r] = new],
         run[r].step \in Working, new.step \in Working \cup Over,
         new.known = run[r].known, new.after = run[r].after, new.stored = run[r].stored,
         new.step = "failing" => r \in Monitor,
         new.step = "appending" => new.at \in Listing,
         listings' = listings, alerted' = alerted,
         \A x \in Run : (x # r \/ new.step \in Working) => beats'[x] = beats[x]
  PROVE  RunShape' /\ BeatsComeLast' /\ AlertsAreStored' /\ AfterIsSeen' /\ KnownWasAnnounced'
<1>1. run'[r] = new /\ \A x \in Run \ {r} : run'[x] = run[x]
  BY DEF IInv, TypeOK
<1>2. ~run[r].stored /\ alerted[r] = {} /\ run[r].known \subseteq listings
  BY DEF IInv, RunShape, AlertsAreStored, Working
<1>3. new.step \notin {"waiting", "alerting"}
  BY DEF Working, Over
<1>4. RunShape'
  BY <1>1, <1>2, <1>3 DEF IInv, RunShape
<1>5. BeatsComeLast'
  BY <1>1, <1>3 DEF IInv, BeatsComeLast
<1>6. AlertsAreStored'
  BY <1>1, <1>2, <1>3 DEF IInv, AlertsAreStored
<1>7. AfterIsSeen'
  <2> SUFFICES ASSUME NEW x \in Monitor, NEW y \in run'[x].after
               PROVE  run'[y].step \in Over /\ alerted[y] \subseteq run'[x].known
    BY DEF AfterIsSeen
  <2>1. x \in Run /\ run'[x].after = run[x].after /\ run'[x].known = run[x].known
    BY <1>1, RunAssumption
  <2>2. run[x].after \subseteq Run
    BY <2>1 DEF IInv, TypeOK, RunRecord
  <2>3. y \in Run /\ run[y].step \in Over /\ alerted[y] \subseteq run[x].known
    BY <2>1, <2>2 DEF IInv, AfterIsSeen
  <2>4. y # r
    BY <2>3 DEF Working, Over
  <2>5. QED BY <1>1, <2>1, <2>3, <2>4
<1>8. KnownWasAnnounced'
  <2> SUFFICES ASSUME NEW l \in listings
               PROVE  (\E x \in Run :
                         /\ run[x].stored /\ l \in run[x].ranked
                         /\ \/ l \in alerted[x]
                            \/ x \notin Monitor
                            \/ IsAt(x, "alerting") /\ l \in Alerts(x)
                            \/ IsAt(x, "crashed"))'
    BY DEF KnownWasAnnounced
  <2>1. PICK x \in Run :
          /\ run[x].stored /\ l \in run[x].ranked
          /\ \/ l \in alerted[x]
             \/ x \notin Monitor
             \/ IsAt(x, "alerting") /\ l \in Alerts(x)
             \/ IsAt(x, "crashed")
    BY DEF IInv, KnownWasAnnounced
  <2>2. x # r
    BY <1>2, <2>1
  <2>3. run'[x] = run[x]
    BY <1>1, <2>2
  <2>4. QED BY <2>1, <2>3 DEF IsAt, Alerts, Seen
<1>9. QED BY <1>4, <1>5, <1>6, <1>7, <1>8

\* What was paid for, when nothing is paid.
LEMMA PaidStep ==
  ASSUME IInv, NEW r \in Run, NEW new \in RunRecord, run' = [run EXCEPT ![r] = new],
         calls' = calls,
         new.step \notin {"waiting", "appending"},
         new.step = "searching" => run[r].step = "waiting",
         new.step = "pricing" =>
           \A q \in Query : calls[r][q] = 0 \/ q \in new.got
  PROVE  PaidIsHeld'
<1>1. run'[r] = new /\ \A x \in Run \ {r} : run'[x] = run[x]
  BY DEF IInv, TypeOK
<1>2. QED BY <1>1 DEF IInv, PaidIsHeld

-----------------------------------------------------------------------------
(* The steps of a run.                                                     *)

\* Where the lock may go.
LEMMA ReleasedType ==
  ASSUME TypeOK, NEW r \in Run
  PROVE  Released(r) \in {writer, None} /\ Released(r) # r
  BY RunAssumption DEF TypeOK, Released

\* A run that works exits.
LEMMA ExitStep ==
  ASSUME IInv, NEW r \in Run, run[r].step \in Working, Exits(r),
         UNCHANGED <<listings, payloads, fresh, calls, alerted>>,
         quota' \in 0 .. Quota,
         beats' \in [Run -> {None, "ok", "failed"}],
         \A x \in Run \ {r} : beats'[x] = beats[x]
  PROVE  IInv'
<1> DEFINE new == [run[r] EXCEPT !.step = "ended"]
<1>1. run[r] \in RunRecord /\ run' = [run EXCEPT ![r] = new] /\ writer' = Released(r)
  BY DEF Exits, IInv, TypeOK
<1>2. /\ new \in RunRecord /\ new.step = "ended" /\ new.known = run[r].known
      /\ new.after = run[r].after /\ new.stored = run[r].stored
  BY <1>1 DEF RunRecord, Step
<1> HIDE DEF new
<1>3. TypeOK'
  BY <1>1, <1>2, ReleasedType, TypeStep DEF IInv, TypeOK
<1>4. RunShape' /\ BeatsComeLast' /\ AlertsAreStored' /\ AfterIsSeen' /\ KnownWasAnnounced'
  BY <1>1, <1>2, WorkStep DEF Working, Over
<1>5. PaidIsHeld'
  BY <1>1, <1>2, PaidStep
<1>6. QED BY <1>3, <1>4, <1>5 DEF IInv

\* A run that works fails.
LEMMA FailStep ==
  ASSUME IInv, NEW r \in Run, run[r].step \in Working,
         Fails(r), UNCHANGED <<dbVars, calls, alerted>>, quota' \in 0 .. Quota
  PROVE  IInv'
<1> DEFINE step == IF r \in Monitor THEN "failing" ELSE "ended"
           new == [run[r] EXCEPT !.step = step, !.got = {}]
<1>1. run[r] \in RunRecord /\ run' = [run EXCEPT ![r] = new] /\ writer' = Released(r)
  BY DEF Fails, IInv, TypeOK
<1>2. /\ new \in RunRecord /\ new.step = step /\ new.known = run[r].known
      /\ new.after = run[r].after /\ new.stored = run[r].stored
  BY <1>1 DEF RunRecord, Step
<1>3. step \in {"failing", "ended"} /\ (step = "failing" => r \in Monitor)
  OBVIOUS
<1> HIDE DEF new, step
<1>4. TypeOK'
  BY <1>1, <1>2, <1>3, ReleasedType, TypeStep DEF IInv, TypeOK, dbVars
<1>5. RunShape' /\ BeatsComeLast' /\ AlertsAreStored' /\ AfterIsSeen' /\ KnownWasAnnounced'
  BY <1>1, <1>2, <1>3, WorkStep DEF Working, Over, dbVars
<1>6. PaidIsHeld'
  BY <1>1, <1>2, <1>3, PaidStep
<1>7. QED BY <1>4, <1>5, <1>6 DEF IInv

\* A listing is looked at and the run goes on pricing: it has what it had, and
\* perhaps the payload in hand.
LEMMA PricingStep ==
  ASSUME IInv, NEW r \in Run, NEW new \in RunRecord, run' = [run EXCEPT ![r] = new],
         run[r].step \in {"searching", "pricing", "appending"}, new.step = "pricing",
         new.known = run[r].known, new.after = run[r].after, new.stored = run[r].stored,
         run[r].got \subseteq new.got,
         run[r].step = "appending" => QueryOf[run[r].at] \in new.got,
         UNCHANGED <<dbVars, quota, calls, alerted>>, writer' \in {writer, r}
  PROVE  IInv'
<1>1. TypeOK'
  BY TypeStep DEF IInv, TypeOK, dbVars
<1>2. RunShape' /\ BeatsComeLast' /\ AlertsAreStored' /\ AfterIsSeen' /\ KnownWasAnnounced'
  BY WorkStep DEF Working, Over, dbVars
<1>3. \A q \in Query : calls[r][q] = 0 \/ q \in new.got
  BY DEF IInv, PaidIsHeld
<1>4. PaidIsHeld'
  BY <1>3, PaidStep
<1>5. QED BY <1>1, <1>2, <1>4 DEF IInv

\* A run begins: what a monitor reads holds all that was announced so far.
LEMMA StartStep == ASSUME IInv, NEW r \in Run, Start(r) PROVE IInv'
<1> DEFINE seen == IF r \in Monitor THEN listings ELSE {}
           over == {x \in Run : run[x].step \in Over}
           new == [NewRun EXCEPT !.step = "searching", !.known = seen, !.after = over]
<1>1. /\ run[r].step = "waiting" /\ run' = [run EXCEPT ![r] = new]
      /\ UNCHANGED <<dbVars, writer, quota, calls, alerted>>
  BY DEF Start, IsAt
<1>2. seen \subseteq listings /\ (r \in Monitor => seen = listings)
  OBVIOUS
<1>3. new \in RunRecord
  BY <1>2, NewRunType DEF NewRun, RunRecord, Step, IInv, TypeOK
<1>4. /\ new.step = "searching" /\ new.known = seen /\ new.after = over
      /\ ~new.stored /\ new.got = {} /\ new.ranked = {}
  BY DEF NewRun
<1>5. ~run[r].stored /\ alerted[r] = {}
  BY <1>1 DEF IInv, RunShape, AlertsAreStored, Working
<1> HIDE DEF new, seen
<1>6. run'[r] = new /\ \A x \in Run \ {r} : run'[x] = run[x]
  BY <1>1 DEF IInv, TypeOK
<1>7. TypeOK'
  <2>1. writer # r
    BY <1>1, RunAssumption DEF IInv, TypeOK
  <2>2. QED BY <1>1, <1>3, <2>1, TypeStep DEF IInv, TypeOK, dbVars
<1>8. RunShape'
  BY <1>1, <1>2, <1>4, <1>6 DEF IInv, RunShape, dbVars, Working
<1>9. BeatsComeLast' /\ AlertsAreStored'
  <2>1. beats' = beats /\ listings' = listings /\ alerted' = alerted
    BY <1>1 DEF dbVars
  <2>2. BeatsComeLast'
    BY <1>1, <1>6, <2>1 DEF IInv, BeatsComeLast
  <2>3. AlertsAreStored'
    BY <1>4, <1>5, <1>6, <2>1 DEF IInv, AlertsAreStored
  <2>4. QED BY <2>2, <2>3
<1>10. AfterIsSeen'
  <2> SUFFICES ASSUME NEW x \in Monitor, NEW y \in run'[x].after
               PROVE  run'[y].step \in Over /\ alerted[y] \subseteq run'[x].known
    BY <1>1 DEF AfterIsSeen
  <2>1. x \in Run
    BY RunAssumption
  <2>2. CASE x = r
    <3>1. y \in Run /\ run[y].step \in Over /\ y # r
      BY <1>1, <1>4, <1>6, <2>2 DEF Over
    <3>2. alerted[y] \subseteq listings
      BY <3>1 DEF IInv, AlertsAreStored
    <3>3. QED BY <1>2, <1>4, <1>6, <2>2, <3>1, <3>2
  <2>3. CASE x # r
    <3>1. run'[x] = run[x] /\ run[x].after \subseteq Run
      BY <1>6, <2>1, <2>3 DEF IInv, TypeOK, RunRecord
    <3>2. y \in Run /\ run[y].step \in Over /\ alerted[y] \subseteq run[x].known
      BY <3>1 DEF IInv, AfterIsSeen
    <3>3. y # r
      BY <1>1, <3>2 DEF Over
    <3>4. QED BY <1>6, <3>1, <3>2, <3>3
  <2>4. QED BY <2>2, <2>3
<1>11. PaidIsHeld'
  BY <1>1, <1>3, <1>4, PaidStep
<1>12. KnownWasAnnounced'
  <2> SUFFICES ASSUME NEW l \in listings
               PROVE  (\E x \in Run :
                         /\ run[x].stored /\ l \in run[x].ranked
                         /\ \/ l \in alerted[x]
                            \/ x \notin Monitor
                            \/ IsAt(x, "alerting") /\ l \in Alerts(x)
                            \/ IsAt(x, "crashed"))'
    BY <1>1 DEF KnownWasAnnounced, dbVars
  <2>1. PICK x \in Run :
          /\ run[x].stored /\ l \in run[x].ranked
          /\ \/ l \in alerted[x]
             \/ x \notin Monitor
             \/ IsAt(x, "alerting") /\ l \in Alerts(x)
             \/ IsAt(x, "crashed")
    BY DEF IInv, KnownWasAnnounced
  <2>2. run'[x] = run[x]
    BY <1>5, <1>6, <2>1
  <2>3. QED BY <1>1, <2>1, <2>2 DEF IsAt, Alerts, Seen
<1>13. QED BY <1>7, <1>8, <1>9, <1>10, <1>11, <1>12 DEF IInv

\* The search, the gates, the cache and the append.
LEMMA SearchStep == ASSUME IInv, NEW r \in Run, Search(r) PROVE IInv'
<1>1. PICK found \in SUBSET Listing :
        run' = [run EXCEPT ![r] = [run[r] EXCEPT !.step = "pricing", !.todo = found]]
  BY DEF Search
<1> DEFINE new == [run[r] EXCEPT !.step = "pricing", !.todo = found]
<1>2. run[r] \in RunRecord /\ run[r].step = "searching"
  BY DEF IInv, TypeOK, Search, IsAt
<1>3. /\ new \in RunRecord /\ new.step = "pricing" /\ new.known = run[r].known
      /\ new.after = run[r].after /\ new.stored = run[r].stored /\ new.got = run[r].got
  BY <1>2 DEF RunRecord, Step
<1> HIDE DEF new
<1>4. QED BY <1>1, <1>2, <1>3, PricingStep DEF Search, new

LEMMA PassedStep ==
  ASSUME IInv, NEW r \in Run, NEW l \in Listing, NEW gone \in BOOLEAN,
         run[r].step = "pricing",
         run' = [run EXCEPT ![r] = [run[r] EXCEPT !.exhausted = gone, !.todo = @ \ {l}]],
         UNCHANGED <<dbVars, writer, quota, calls, alerted>>
  PROVE  IInv'
<1> DEFINE new == [run[r] EXCEPT !.exhausted = gone, !.todo = @ \ {l}]
<1>1. run[r] \in RunRecord
  BY DEF IInv, TypeOK
<1>2. /\ new \in RunRecord /\ new.step = "pricing" /\ new.known = run[r].known
      /\ new.after = run[r].after /\ new.stored = run[r].stored /\ new.got = run[r].got
  BY <1>1 DEF RunRecord, Step
<1>3. run' = [run EXCEPT ![r] = new]
  OBVIOUS
<1> HIDE DEF new
<1>4. QED BY <1>2, <1>3, PricingStep

LEMMA DropStep ==
  ASSUME IInv, NEW r \in Run, NEW l \in Listing,
         Reject(r, l) \/ SkipExhausted(r, l) \/ QuotaGone(r, l)
  PROVE  IInv'
<1>1. run[r].step = "pricing" /\ UNCHANGED <<dbVars, writer, quota, calls, alerted>>
  BY DEF Reject, SkipExhausted, QuotaGone, Asks, IsAt
<1>2. run[r] \in RunRecord
  BY DEF IInv, TypeOK
<1>3. CASE QuotaGone(r, l)
  BY <1>1, <1>3, PassedStep DEF QuotaGone
<1>4. CASE Passed(r, l)
  <2>1. [run[r] EXCEPT !.todo = @ \ {l}]
          = [run[r] EXCEPT !.exhausted = run[r].exhausted, !.todo = @ \ {l}]
    BY <1>2 DEF RunRecord
  <2>2. run[r].exhausted \in BOOLEAN
    BY <1>2 DEF RunRecord
  <2>3. QED BY <1>1, <1>4, <2>1, <2>2, PassedStep DEF Passed
<1>5. QED BY <1>3, <1>4 DEF Reject, SkipExhausted

\* A listing is judged, from the cache or from the payload in hand.
LEMMA JudgedStep ==
  ASSUME IInv, NEW r \in Run, NEW l \in Listing, Judged(r, l),
         run[r].step = "pricing" \/ (run[r].step = "appending" /\ run[r].at = l),
         UNCHANGED <<dbVars, quota, calls, alerted>>, writer' \in {writer, r}
  PROVE  IInv'
<1>1. PICK worth \in BOOLEAN :
        run' = [run EXCEPT ![r] =
          [run[r] EXCEPT !.step = "pricing", !.todo = @ \ {l}, !.at = None,
                         !.ranked = IF worth THEN @ \cup {l} ELSE @,
                         !.got = IF run[r].at = l THEN @ \cup {QueryOf[l]} ELSE @]]
  BY DEF Judged
<1> DEFINE new == [run[r] EXCEPT !.step = "pricing", !.todo = @ \ {l}, !.at = None,
                         !.ranked = IF worth THEN @ \cup {l} ELSE @,
                         !.got = IF run[r].at = l THEN @ \cup {QueryOf[l]} ELSE @]
<1>2. run[r] \in RunRecord /\ QueryOf[l] \in Query
  BY RunAssumption DEF IInv, TypeOK
<1>3. /\ new.step = "pricing" /\ new.known = run[r].known
      /\ new.after = run[r].after /\ new.stored = run[r].stored
      /\ run[r].got \subseteq new.got
      /\ run[r].at = l => QueryOf[l] \in new.got
  BY <1>2 DEF RunRecord
<1>4. new \in RunRecord
  BY <1>2 DEF RunRecord, Step
<1>5. run' = [run EXCEPT ![r] = new]
  BY <1>1
<1> HIDE DEF new
<1>6. QED BY <1>3, <1>4, <1>5, PricingStep

LEMMA AppendStep == ASSUME IInv, NEW r \in Run, Append(r) PROVE IInv'
<1>1. run[r].step = "appending" /\ run[r].at \in Listing
  BY DEF Append, IsAt, IInv, RunShape
<1>2. QED BY <1>1, JudgedStep DEF Append

\* A request is paid for.
LEMMA FetchStep == ASSUME IInv, NEW r \in Run, NEW l \in Listing, Fetch(r, l) PROVE IInv'
<1> DEFINE new == [run[r] EXCEPT !.step = "appending", !.at = l]
           q == QueryOf[l]
<1>1. /\ run[r].step = "pricing" /\ q \notin run[r].got /\ q \in Query
      /\ run' = [run EXCEPT ![r] = new] /\ quota' = quota - 1 /\ quota > 0
      /\ calls' = [calls EXCEPT ![r][q] = @ + 1]
      /\ UNCHANGED <<dbVars, writer, alerted>>
  BY RunAssumption DEF Fetch, Asks, Cached, IsAt
<1>2. run[r] \in RunRecord
  BY DEF IInv, TypeOK
<1>3. /\ new \in RunRecord /\ new.step = "appending" /\ new.at = l /\ new.known = run[r].known
      /\ new.after = run[r].after /\ new.stored = run[r].stored /\ new.got = run[r].got
  BY <1>2 DEF RunRecord, Step
<1> HIDE DEF new
<1>4. calls[r][q] = 0
  BY <1>1 DEF IInv, PaidIsHeld
<1>5. calls \in [Run -> [Query -> Nat]]
  BY DEF IInv, TypeOK
<1>6. /\ calls' \in [Run -> [Query -> Nat]] /\ calls'[r][q] = 1
      /\ \A x \in Run, p \in Query : (x # r \/ p # q) => calls'[x][p] = calls[x][p]
  BY <1>1, <1>4, <1>5
<1>7. TypeOK'
  <2>1. quota' \in 0 .. Quota
    BY <1>1, RunAssumption DEF IInv, TypeOK
  <2>2. QED BY <1>1, <1>3, <1>6, <2>1, TypeStep DEF IInv, TypeOK, dbVars
<1>8. RunShape' /\ BeatsComeLast' /\ AlertsAreStored' /\ AfterIsSeen' /\ KnownWasAnnounced'
  BY <1>1, <1>3, WorkStep DEF Working, Over, dbVars
<1>9. PaidIsHeld'
  <2> SUFFICES ASSUME NEW x \in Run, NEW p \in Query
               PROVE  /\ calls'[x][p] <= 1
                      /\ run'[x].step \in {"waiting", "searching"} => calls'[x][p] = 0
                      /\ run'[x].step = "pricing" => calls'[x][p] = 0 \/ p \in run'[x].got
                      /\ run'[x].step = "appending" =>
                           calls'[x][p] = 0 \/ p \in run'[x].got \/ p = QueryOf[run'[x].at]
    BY DEF PaidIsHeld
  <2>1. run'[r] = new /\ \A y \in Run \ {r} : run'[y] = run[y]
    BY <1>1 DEF IInv, TypeOK
  <2>2. CASE x # r
    BY <1>6, <2>1, <2>2 DEF IInv, PaidIsHeld
  <2>3. CASE x = r /\ p = q
    BY <1>3, <1>6, <2>1, <2>3
  <2>4. CASE x = r /\ p # q
    BY <1>1, <1>3, <1>6, <2>1, <2>4 DEF IInv, PaidIsHeld
  <2>5. QED BY <2>2, <2>3, <2>4
<1>10. QED BY <1>7, <1>8, <1>9 DEF IInv

\* A run stores what it found. What is new to the table is new to the run.
LEMMA CommitStep == ASSUME IInv, NEW r \in Run, Commit(r) PROVE IInv'
<1> DEFINE step == IF r \in Monitor THEN "alerting" ELSE "ended"
           new == [run[r] EXCEPT !.step = step, !.stored = TRUE]
<1>1. /\ run[r].step = "pricing" /\ run' = [run EXCEPT ![r] = new]
      /\ listings' = listings \cup run[r].ranked
      /\ writer' = Released(r) /\ UNCHANGED <<quota, calls, alerted>>
  BY DEF Commit, Upserted, IsAt
<1>2. run[r] \in RunRecord
  BY DEF IInv, TypeOK
<1>3. /\ new \in RunRecord /\ new.step = step /\ new.stored = TRUE
      /\ new.ranked = run[r].ranked /\ new.known = run[r].known /\ new.after = run[r].after
  BY <1>2 DEF RunRecord, Step
<1>4. step \in {"alerting", "ended"} /\ (step = "alerting" <=> r \in Monitor)
  OBVIOUS
<1> HIDE DEF new, step
<1>5. run'[r] = new /\ \A x \in Run \ {r} : run'[x] = run[x]
  BY <1>1 DEF IInv, TypeOK
<1>6. ~run[r].stored /\ alerted[r] = {} /\ run[r].known \subseteq listings
      /\ run[r].ranked \subseteq Listing /\ run[r].got \subseteq Query
  BY <1>1, <1>2 DEF IInv, RunShape, AlertsAreStored, Working, RunRecord
<1>7. TypeOK'
  <2>1. payloads' \in [Query -> Nat] /\ fresh' \subseteq Query
    BY <1>6 DEF Commit, IInv, TypeOK
  <2>2. beats' \in [Run -> {None, "ok", "failed"}]
    BY DEF Commit, IInv, TypeOK
  <2>3. run' \in [Run -> RunRecord]
    BY <1>1, <1>3 DEF IInv, TypeOK
  <2>4. writer' \in {writer, None} /\ writer' # r
    BY <1>1, ReleasedType DEF IInv
  <2>5. writer' \in Run \cup {None}
    BY <2>4 DEF IInv, TypeOK
  <2>6. writer' # None => run'[writer'].step \in {"pricing", "appending"}
    BY <1>5, <2>4, <2>5 DEF IInv, TypeOK
  <2>7. listings' \subseteq Listing
    BY <1>1, <1>6 DEF IInv, TypeOK
  <2>8. QED BY <1>1, <2>1, <2>2, <2>3, <2>5, <2>6, <2>7 DEF IInv, TypeOK
<1>8. RunShape'
  BY <1>1, <1>3, <1>4, <1>5, <1>6 DEF IInv, RunShape, Working
<1>9. BeatsComeLast'
  <2>1. \A x \in Run \ {r} : beats'[x] = beats[x]
    BY DEF Commit, IInv, TypeOK
  <2>2. QED BY <1>3, <1>4, <1>5, <2>1 DEF IInv, BeatsComeLast, Working
<1>10. AlertsAreStored'
  BY <1>1, <1>3, <1>4, <1>5, <1>6 DEF IInv, AlertsAreStored
<1>11. AfterIsSeen'
  <2> SUFFICES ASSUME NEW x \in Monitor, NEW y \in run'[x].after
               PROVE  run'[y].step \in Over /\ alerted[y] \subseteq run'[x].known
    BY <1>1 DEF AfterIsSeen
  <2>1. x \in Run /\ run'[x].after = run[x].after /\ run'[x].known = run[x].known
    BY <1>3, <1>5, RunAssumption
  <2>2. y \in Run /\ run[y].step \in Over /\ alerted[y] \subseteq run[x].known
    BY <2>1 DEF IInv, TypeOK, RunRecord, AfterIsSeen
  <2>3. y # r
    BY <1>1, <2>2 DEF Over
  <2>4. QED BY <1>5, <2>1, <2>2, <2>3
<1>12. PaidIsHeld'
  BY <1>1, <1>3, <1>4, PaidStep
<1>13. KnownWasAnnounced'
  <2> SUFFICES ASSUME NEW l \in listings'
               PROVE  (\E x \in Run :
                         /\ run[x].stored /\ l \in run[x].ranked
                         /\ \/ l \in alerted[x]
                            \/ x \notin Monitor
                            \/ IsAt(x, "alerting") /\ l \in Alerts(x)
                            \/ IsAt(x, "crashed"))'
    BY DEF KnownWasAnnounced
  <2>1. CASE l \in listings
    <3>1. PICK x \in Run :
            /\ run[x].stored /\ l \in run[x].ranked
            /\ \/ l \in alerted[x]
               \/ x \notin Monitor
               \/ IsAt(x, "alerting") /\ l \in Alerts(x)
               \/ IsAt(x, "crashed")
      BY <2>1 DEF IInv, KnownWasAnnounced
    <3>2. run'[x] = run[x]
      BY <1>5, <1>6, <3>1
    <3>3. QED BY <1>1, <3>1, <3>2 DEF IsAt, Alerts, Seen
  <2>2. CASE l \notin listings
    <3>1. l \in run[r].ranked \ run[r].known
      BY <1>1, <1>6, <2>2
    <3>2. run'[r].stored /\ l \in run'[r].ranked \ run'[r].known
      BY <1>3, <1>5, <3>1
    <3>3. r \notin Monitor \/ run'[r].step = "alerting"
      BY <1>3, <1>4, <1>5
    <3>4. QED BY <3>2, <3>3 DEF IsAt, Alerts, Seen
  <2>3. QED BY <2>1, <2>2
<1>14. QED BY <1>7, <1>8, <1>9, <1>10, <1>11, <1>12, <1>13 DEF IInv

\* A run that is alerting notifies and exits, or dies: either way its alerts are
\* accounted for.
LEMMA AfterCommitStep ==
  ASSUME IInv, NEW r \in Run, NEW step \in Over, run[r].step = "alerting",
         run' = [run EXCEPT ![r] = [run[r] EXCEPT !.step = step]],
         writer' = Released(r), UNCHANGED <<dbVars, quota, calls>>,
         \/ step = "ended" /\ alerted' = [alerted EXCEPT ![r] = Alerts(r)]
         \/ step = "crashed" /\ alerted' = alerted
  PROVE  IInv'
<1> DEFINE new == [run[r] EXCEPT !.step = step]
<1>1. run[r] \in RunRecord /\ run' = [run EXCEPT ![r] = new]
  BY DEF IInv, TypeOK
<1>2. /\ new \in RunRecord /\ new.step = step /\ new.stored = run[r].stored
      /\ new.ranked = run[r].ranked /\ new.known = run[r].known /\ new.after = run[r].after
  BY <1>1 DEF RunRecord, Step, Over
<1> HIDE DEF new
<1>3. run'[r] = new /\ \A x \in Run \ {r} : run'[x] = run[x]
  BY <1>1 DEF IInv, TypeOK
<1>4. run[r].stored /\ r \in Monitor /\ alerted[r] = {}
  BY DEF IInv, RunShape, AlertsAreStored
<1>5. /\ \A x \in Run \ {r} : alerted'[x] = alerted[x]
      /\ alerted' \in [Run -> SUBSET Listing]
      /\ alerted'[r] \subseteq run[r].ranked \ run[r].known
      /\ step = "ended" => alerted'[r] = run[r].ranked \ run[r].known
      /\ step = "crashed" => alerted'[r] = {}
  <2>1. PICK A \in SUBSET Listing : A = run[r].ranked \ run[r].known
    BY <1>1 DEF RunRecord
  <2>2. Alerts(r) = A
    BY <2>1 DEF Alerts, Seen
  <2>3. alerted \in [Run -> SUBSET Listing]
    BY DEF IInv, TypeOK
  <2>4. CASE step = "ended" /\ alerted' = [alerted EXCEPT ![r] = A]
    BY <2>1, <2>3, <2>4
  <2>5. CASE step = "crashed" /\ alerted' = alerted
    BY <1>4, <2>3, <2>5
  <2>6. QED BY <2>2, <2>4, <2>5
<1>6. step \in {"ended", "crashed"} /\ listings' = listings /\ beats' = beats
  BY DEF Over, dbVars
<1>7. TypeOK'
  BY <1>1, <1>2, <1>5, ReleasedType, TypeStep DEF IInv, TypeOK, dbVars
<1>8. RunShape'
  BY <1>2, <1>3, <1>6 DEF IInv, RunShape, Working
<1>9. BeatsComeLast'
  BY <1>2, <1>3, <1>6 DEF IInv, BeatsComeLast, Working
<1>10. AlertsAreStored'
  BY <1>2, <1>3, <1>4, <1>5, <1>6 DEF IInv, AlertsAreStored
<1>11. AfterIsSeen'
  <2> SUFFICES ASSUME NEW x \in Monitor, NEW y \in run'[x].after
               PROVE  run'[y].step \in Over /\ alerted'[y] \subseteq run'[x].known
    BY DEF AfterIsSeen
  <2>1. x \in Run /\ run'[x].after = run[x].after /\ run'[x].known = run[x].known
    BY <1>2, <1>3, RunAssumption
  <2>2. y \in Run /\ run[y].step \in Over /\ alerted[y] \subseteq run[x].known
    BY <2>1 DEF IInv, TypeOK, RunRecord, AfterIsSeen
  <2>3. y # r
    BY <2>2 DEF Over
  <2>4. QED BY <1>3, <1>5, <2>1, <2>2, <2>3
<1>12. PaidIsHeld'
  BY <1>1, <1>2, <1>6, PaidStep
<1>13. KnownWasAnnounced'
  <2> SUFFICES ASSUME NEW l \in listings
               PROVE  (\E x \in Run :
                         /\ run[x].stored /\ l \in run[x].ranked
                         /\ \/ l \in alerted[x]
                            \/ x \notin Monitor
                            \/ IsAt(x, "alerting") /\ l \in Alerts(x)
                            \/ IsAt(x, "crashed"))'
    BY <1>6 DEF KnownWasAnnounced
  <2>1. PICK x \in Run :
          /\ run[x].stored /\ l \in run[x].ranked
          /\ \/ l \in alerted[x]
             \/ x \notin Monitor
             \/ IsAt(x, "alerting") /\ l \in Alerts(x)
             \/ IsAt(x, "crashed")
    BY DEF IInv, KnownWasAnnounced
  <2>2. CASE x # r
    BY <1>3, <1>5, <2>1, <2>2 DEF IsAt, Alerts, Seen
  <2>3. CASE x = r
    <3>1. l \in run[r].ranked \ run[r].known
      BY <1>4, <2>1, <2>3 DEF IsAt, Alerts, Seen
    <3>2. run'[r].stored /\ l \in run'[r].ranked /\ run'[r].step = step
      BY <1>2, <1>3, <1>4, <3>1
    <3>3. step = "ended" => l \in alerted'[r]
      BY <1>5, <3>1
    <3>4. QED BY <1>6, <3>2, <3>3 DEF IsAt
  <2>4. QED BY <2>2, <2>3
<1>14. QED BY <1>7, <1>8, <1>9, <1>10, <1>11, <1>12, <1>13 DEF IInv

\* The process of a run dies.
LEMMA CrashStep == ASSUME IInv, NEW r \in Run, Crash(r) PROVE IInv'
<1> DEFINE new == [run[r] EXCEPT !.step = "crashed"]
<1>1. /\ run' = [run EXCEPT ![r] = new] /\ writer' = Released(r)
      /\ UNCHANGED <<dbVars, quota, calls, alerted>>
      /\ run[r].step \notin Over \cup {"waiting"}
  BY DEF Crash
<1>2. run[r] \in RunRecord
  BY DEF IInv, TypeOK
<1>3. /\ new \in RunRecord /\ new.step = "crashed" /\ new.known = run[r].known
      /\ new.after = run[r].after /\ new.stored = run[r].stored
  BY <1>2 DEF RunRecord, Step
<1>4. CASE run[r].step = "alerting"
  BY <1>1, <1>4, AfterCommitStep DEF Over
<1>5. CASE run[r].step \in Working
  <2> HIDE DEF new
  <2>1. TypeOK'
    BY <1>1, <1>3, ReleasedType, TypeStep DEF IInv, TypeOK, dbVars
  <2>2. RunShape' /\ BeatsComeLast' /\ AlertsAreStored' /\ AfterIsSeen' /\ KnownWasAnnounced'
    BY <1>1, <1>3, <1>5, WorkStep DEF Working, Over, dbVars
  <2>3. PaidIsHeld'
    BY <1>1, <1>3, PaidStep
  <2>4. QED BY <2>1, <2>2, <2>3 DEF IInv
<1>6. run[r].step \in Working \cup {"alerting"}
  BY <1>1, <1>2 DEF RunRecord, Step, Over, Working
<1>7. QED BY <1>4, <1>5, <1>6

\* The time that passes: payloads age and the month turns.
LEMMA TimeStep == ASSUME IInv, (\E q \in Query : Expire(q)) \/ NewMonth PROVE IInv'
<1>1. /\ UNCHANGED <<listings, payloads, beats, writer, run, calls, alerted>>
      /\ fresh' \subseteq fresh /\ quota' \in {quota, Quota}
  BY DEF Expire, NewMonth, dbVars
<1>2. TypeOK'
  BY <1>1, RunAssumption DEF IInv, TypeOK
<1>3. RunShape' /\ BeatsComeLast' /\ AlertsAreStored' /\ AfterIsSeen' /\ PaidIsHeld'
  BY <1>1 DEF IInv, RunShape, BeatsComeLast, AlertsAreStored, AfterIsSeen, PaidIsHeld
<1>4. KnownWasAnnounced'
  BY <1>1 DEF IInv, KnownWasAnnounced, IsAt, Alerts, Seen
<1>5. QED BY <1>2, <1>3, <1>4 DEF IInv

\* Every step of a run's process.
LEMMA WorksStep == ASSUME IInv, NEW r \in Run, Works(r) PROVE IInv'
<1> USE DEF IsAt, Working
<1>0. quota \in 0 .. Quota /\ (quota > 0 => quota - 1 \in 0 .. Quota)
  BY RunAssumption DEF IInv, TypeOK
<1>1. CASE Search(r)
  BY <1>1, SearchStep
<1>2. CASE SearchFails(r)
  <2>1. run[r].step \in Working /\ UNCHANGED <<dbVars, quota, calls, alerted>>
    BY <1>2 DEF SearchFails
  <2>2. CASE Fails(r)
    BY <1>0, <2>1, <2>2, FailStep
  <2>3. CASE Exits(r)
    BY <1>0, <2>1, <2>3, ExitStep DEF dbVars, IInv, TypeOK
  <2>4. QED BY <1>2, <2>2, <2>3 DEF SearchFails
<1>3. ASSUME NEW l \in Listing, Reject(r, l) \/ SkipExhausted(r, l) \/ QuotaGone(r, l)
      PROVE  IInv'
  BY <1>3, DropStep
<1>4. ASSUME NEW l \in Listing, PriceFromCache(r, l) PROVE IInv'
  BY <1>4, JudgedStep DEF PriceFromCache
<1>5. ASSUME NEW l \in Listing, FetchEscapes(r, l) PROVE IInv'
  <2>1. /\ run[r].step \in Working /\ Exits(r)
        /\ UNCHANGED <<dbVars, quota, calls, alerted>>
    BY <1>5 DEF FetchEscapes, Asks
  <2>2. QED BY <1>0, <2>1, ExitStep DEF dbVars, IInv, TypeOK
<1>6. ASSUME NEW l \in Listing, FetchGarbage(r, l) PROVE IInv'
  BY <1>0, <1>6, FailStep DEF FetchGarbage, Asks
<1>7. ASSUME NEW l \in Listing, Fetch(r, l) PROVE IInv'
  BY <1>7, FetchStep
<1>8. CASE Append(r)
  BY <1>8, AppendStep
<1>9. CASE AppendUnparsed(r)
  <2>1. QueryOf[run[r].at] \in Query
    BY <1>9, RunAssumption DEF AppendUnparsed, IInv, RunShape
  <2>2. QED BY <1>0, <1>9, <2>1, FailStep DEF AppendUnparsed
<1>10. CASE Commit(r)
  BY <1>10, CommitStep
<1>11. CASE LockTimeout(r)
  BY <1>0, <1>11, FailStep DEF LockTimeout
<1>12. CASE RecordFailure(r)
  <2>1. beats' \in [Run -> {None, "ok", "failed"}] /\ \A x \in Run \ {r} : beats'[x] = beats[x]
    BY <1>12 DEF RecordFailure, IInv, TypeOK
  <2>2. QED BY <1>0, <1>12, <2>1, ExitStep DEF RecordFailure
<1>13. CASE FailureLockTimeout(r)
  BY <1>0, <1>13, ExitStep DEF FailureLockTimeout, dbVars, IInv, TypeOK
<1>14. CASE Notify(r)
  BY <1>14, AfterCommitStep DEF Notify, Exits, Over
<1>15. QED
  BY <1>1, <1>2, <1>3, <1>4, <1>5, <1>6, <1>7, <1>8, <1>9, <1>10, <1>11, <1>12, <1>13,
     <1>14 DEF Works

LEMMA NextIInv == IInv /\ [Next]_vars => IInv'
<1> SUFFICES ASSUME IInv, [Next]_vars PROVE IInv'
  OBVIOUS
<1>1. CASE \E r \in Run : Start(r) \/ Works(r) \/ Crash(r)
  BY <1>1, StartStep, WorksStep, CrashStep
<1>2. CASE (\E q \in Query : Expire(q)) \/ NewMonth
  BY <1>2, TimeStep
<1>3. CASE UNCHANGED vars
  <2> USE <1>3 DEF vars, dbVars, IInv
  <2>1. TypeOK'
    BY DEF TypeOK
  <2>2. RunShape' /\ BeatsComeLast' /\ AlertsAreStored' /\ AfterIsSeen' /\ PaidIsHeld'
    BY DEF RunShape, BeatsComeLast, AlertsAreStored, AfterIsSeen, PaidIsHeld
  <2>3. KnownWasAnnounced'
    BY DEF KnownWasAnnounced, IsAt, Alerts, Seen
  <2>4. QED BY <2>1, <2>2, <2>3
<1>4. QED BY <1>1, <1>2, <1>3 DEF Next

LEMMA Invariance == Spec => []IInv
<1>1. QED BY InitIInv, NextIInv, PTL DEF Spec

-----------------------------------------------------------------------------
\* The tables, the lock and the runs keep their types (session_scope, monitor_run).
THEOREM TypeCorrect == Spec => []TypeOK
<1>1. IInv => TypeOK
  BY DEF IInv
<1>2. QED BY <1>1, Invariance, PTL

\* No listing enters the seen set unannounced, however runs overlap, as long as
\* nobody kills a monitor between its commit and its notification (monitor_run).
THEOREM NothingIsSwallowed == Spec => []KnownWasAnnounced
<1>1. IInv => KnownWasAnnounced
  BY DEF IInv
<1>2. QED BY <1>1, Invariance, PTL

\* An alert is repeated only by runs that overlap (new_candidates).
THEOREM OnlyOverlapsRepeat == Spec => []RepeatsOverlapped
<1>1. IInv => RepeatsOverlapped
  <2> SUFFICES ASSUME IInv, NEW r \in Run, NEW x \in Run, r # x,
                      alerted[r] \cap alerted[x] # {}
               PROVE  r \notin run[x].after
    BY DEF RepeatsOverlapped
  <2>1. x \in Monitor /\ alerted[x] \cap run[x].known = {}
    BY DEF IInv, AlertsAreStored
  <2>2. r \in run[x].after => alerted[r] \subseteq run[x].known
    BY <2>1 DEF IInv, AfterIsSeen
  <2>3. QED BY <2>1, <2>2
<1>2. QED BY <1>1, Invariance, PTL

\* A run pays the comps API once for each query (comps_for).
THEOREM QueriesCollapse == Spec => []PaidOncePerRun
<1>1. IInv => PaidOncePerRun
  BY DEF IInv, PaidIsHeld, PaidOncePerRun
<1>2. QED BY <1>1, Invariance, PTL

-----------------------------------------------------------------------------
(* What is paid for is kept.                                               *)

\* What a run holds it has paid for, and so it has the payload in hand.
HeldIsPaid ==
  \A r \in Run :
    /\ run[r].step \in {"searching", "pricing"} => run[r].at = None
    /\ run[r].step = "appending" => calls[r][QueryOf[run[r].at]] = 1
    /\ run[r].step \in {"searching", "pricing", "appending"} =>
         \A q \in run[r].got : calls[r][q] = 1

\* The runs that stored a payload of a query.
Keepers(q) == {r \in Run : run[r].stored /\ calls[r][q] > 0}

\* No run stores, and what a run that stored has paid for does not change.
StoresNothing ==
  /\ payloads' = payloads
  /\ \A x \in Run : /\ run'[x].stored = run[x].stored
                    /\ run[x].stored => calls'[x] = calls[x]

\* A listing judged, a payload of it in hand or none.
LEMMA JudgedHolds ==
  ASSUME IInv, HeldIsPaid, NEW r \in Run, NEW l \in Listing, Judged(r, l),
         run[r].step = "pricing" \/ (run[r].step = "appending" /\ run[r].at = l),
         calls' = calls
  PROVE  HeldIsPaid' /\ \A x \in Run : run'[x].stored = run[x].stored
<1>1. PICK worth \in BOOLEAN :
        run' = [run EXCEPT ![r] =
          [run[r] EXCEPT !.step = "pricing", !.todo = @ \ {l}, !.at = None,
                         !.ranked = IF worth THEN @ \cup {l} ELSE @,
                         !.got = IF run[r].at = l THEN @ \cup {QueryOf[l]} ELSE @]]
  BY DEF Judged
<1>2. run[r] \in RunRecord /\ run \in [Run -> RunRecord]
  BY DEF IInv, TypeOK
<1>3. /\ run'[r].step = "pricing" /\ run'[r].at = None /\ run'[r].stored = run[r].stored
      /\ run'[r].got = IF run[r].at = l THEN run[r].got \cup {QueryOf[l]} ELSE run[r].got
  BY <1>1, <1>2 DEF RunRecord
<1>4. \A x \in Run \ {r} : run'[x] = run[x]
  BY <1>1, <1>2
<1>5. run[r].at = l => calls[r][QueryOf[l]] = 1
  BY RunAssumption DEF HeldIsPaid
<1>6. \A q \in run'[r].got : calls[r][q] = 1
  BY <1>3, <1>5 DEF HeldIsPaid
<1>7. QED BY <1>3, <1>4, <1>6 DEF HeldIsPaid

\* Only a commit stores.
LEMMA WorksHolds ==
  ASSUME IInv, HeldIsPaid, NEW r \in Run, Start(r) \/ Works(r) \/ Crash(r), ~Commit(r)
  PROVE  HeldIsPaid' /\ StoresNothing
<1>1. run[r] \in RunRecord /\ run \in [Run -> RunRecord]
  BY DEF IInv, TypeOK
<1>2. ASSUME NEW new \in RunRecord, run' = [run EXCEPT ![r] = new], calls' = calls,
             payloads' = payloads, new.stored = run[r].stored,
             \/ new.step \notin {"searching", "pricing", "appending"}
             \/ new.step = "searching" /\ new.at = None /\ new.got = {}
             \/ /\ new.step = "pricing" /\ run[r].step \in {"searching", "pricing"}
                /\ new.at = run[r].at /\ new.got = run[r].got
      PROVE  HeldIsPaid' /\ StoresNothing
  <2>1. run'[r] = new /\ \A x \in Run \ {r} : run'[x] = run[x]
    BY <1>1, <1>2
  <2>2. QED BY <1>2, <2>1 DEF HeldIsPaid, StoresNothing
<1>3. CASE Start(r)
  <2>. DEFINE new == [NewRun EXCEPT !.step = "searching",
                              !.known = IF r \in Monitor THEN listings ELSE {},
                              !.after = {x \in Run : run[x].step \in Over}]
  <2>1. /\ run' = [run EXCEPT ![r] = new] /\ calls' = calls /\ payloads' = payloads
        /\ ~run[r].stored
    BY <1>3 DEF Start, IsAt, dbVars, IInv, RunShape
  <2>2. new \in RunRecord
    BY NewRunType DEF NewRun, RunRecord, Step, IInv, TypeOK
  <2>3. new.step = "searching" /\ new.at = None /\ new.got = {} /\ new.stored = FALSE
    BY DEF NewRun
  <2>. HIDE DEF new
  <2>4. run[r].stored = FALSE
    BY <1>1, <2>1 DEF RunRecord
  <2>5. QED BY <1>2, <2>1, <2>2, <2>3, <2>4
<1>4. ASSUME NEW step \in {"failing", "ended", "crashed"}, NEW got \in {run[r].got, {}},
             run' = [run EXCEPT ![r] = [run[r] EXCEPT !.step = step, !.got = got]],
             calls' = calls, payloads' = payloads
      PROVE  HeldIsPaid' /\ StoresNothing
  <2>. DEFINE new == [run[r] EXCEPT !.step = step, !.got = got]
  <2>1. new \in RunRecord /\ new.step = step /\ new.stored = run[r].stored
    BY <1>1 DEF RunRecord, Step
  <2>. HIDE DEF new
  <2>2. run' = [run EXCEPT ![r] = new]
    BY <1>4 DEF new
  <2>3. QED BY <1>2, <1>4, <2>1, <2>2
<1>5. ASSUME Exits(r) \/ Fails(r), calls' = calls, payloads' = payloads PROVE HeldIsPaid' /\ StoresNothing
  <2>1. [run[r] EXCEPT !.step = "ended"] = [run[r] EXCEPT !.step = "ended", !.got = run[r].got]
    BY <1>1 DEF RunRecord
  <2>2. CASE Exits(r)
    BY <1>4, <1>5, <2>1, <2>2 DEF Exits
  <2>3. CASE Fails(r)
    BY <1>4, <1>5, <2>3 DEF Fails
  <2>4. QED BY <1>5, <2>2, <2>3
<1>6. CASE Crash(r)
  <2>1. [run[r] EXCEPT !.step = "crashed"]
          = [run[r] EXCEPT !.step = "crashed", !.got = run[r].got]
    BY <1>1 DEF RunRecord
  <2>2. QED BY <1>4, <1>6, <2>1 DEF Crash, dbVars
<1>7. CASE Search(r)
  <2>1. PICK found \in SUBSET Listing :
          run' = [run EXCEPT ![r] = [run[r] EXCEPT !.step = "pricing", !.todo = found]]
    BY <1>7 DEF Search
  <2>. DEFINE new == [run[r] EXCEPT !.step = "pricing", !.todo = found]
  <2>2. /\ new \in RunRecord /\ new.step = "pricing" /\ new.stored = run[r].stored
        /\ new.got = run[r].got /\ new.at = run[r].at
    BY <1>1 DEF RunRecord, Step
  <2>3. run[r].step = "searching" /\ calls' = calls /\ payloads' = payloads
    BY <1>7 DEF Search, IsAt, dbVars
  <2>. HIDE DEF new
  <2>4. run' = [run EXCEPT ![r] = new]
    BY <2>1 DEF new
  <2>5. QED BY <1>2, <2>2, <2>3, <2>4
<1>8. ASSUME NEW l \in Listing, Reject(r, l) \/ SkipExhausted(r, l) \/ QuotaGone(r, l)
      PROVE  HeldIsPaid' /\ StoresNothing
  <2>1. PICK gone \in BOOLEAN :
          run' = [run EXCEPT ![r] = [run[r] EXCEPT !.exhausted = gone, !.todo = @ \ {l}]]
    <3>1. [run[r] EXCEPT !.todo = @ \ {l}]
            = [run[r] EXCEPT !.exhausted = run[r].exhausted, !.todo = @ \ {l}]
      BY <1>1 DEF RunRecord
    <3>2. run[r].exhausted \in BOOLEAN
      BY <1>1 DEF RunRecord
    <3>3. CASE Passed(r, l)
      BY <3>1, <3>2, <3>3 DEF Passed
    <3>4. CASE QuotaGone(r, l)
      BY <3>4 DEF QuotaGone
    <3>5. QED BY <1>8, <3>3, <3>4 DEF Reject, SkipExhausted
  <2>. DEFINE new == [run[r] EXCEPT !.exhausted = gone, !.todo = @ \ {l}]
  <2>2. run[r].step = "pricing" /\ calls' = calls /\ payloads' = payloads
    BY <1>8 DEF Reject, SkipExhausted, QuotaGone, Asks, IsAt, dbVars
  <2>3. /\ new \in RunRecord /\ new.step = "pricing" /\ new.stored = run[r].stored
        /\ new.got = run[r].got /\ new.at = run[r].at
    BY <1>1, <2>2 DEF RunRecord, Step
  <2>. HIDE DEF new
  <2>4. run' = [run EXCEPT ![r] = new]
    BY <2>1 DEF new
  <2>5. QED BY <1>2, <2>2, <2>3, <2>4
<1>9. ASSUME NEW l \in Listing, PriceFromCache(r, l) PROVE HeldIsPaid' /\ StoresNothing
  BY <1>9, JudgedHolds DEF PriceFromCache, IsAt, dbVars, StoresNothing
<1>10. CASE Append(r)
  <2>1. run[r].at \in Listing
    BY <1>10 DEF Append, IsAt, IInv, RunShape
  <2>2. QED BY <1>10, <2>1, JudgedHolds DEF Append, IsAt, dbVars, StoresNothing
<1>11. ASSUME NEW l \in Listing, Fetch(r, l) PROVE HeldIsPaid' /\ StoresNothing
  <2>. DEFINE new == [run[r] EXCEPT !.step = "appending", !.at = l]
              q == QueryOf[l]
  <2>1. /\ run[r].step = "pricing" /\ q \notin run[r].got /\ q \in Query
        /\ run' = [run EXCEPT ![r] = new] /\ payloads' = payloads
        /\ calls' = [calls EXCEPT ![r][q] = @ + 1]
    BY <1>11, RunAssumption DEF Fetch, Asks, Cached, IsAt, dbVars
  <2>2. new.step = "appending" /\ new.at = l /\ new.stored = run[r].stored /\ new.got = run[r].got
    BY <1>1 DEF RunRecord
  <2>3. calls \in [Run -> [Query -> Nat]] /\ calls[r][q] = 0 /\ run[r].got \subseteq Query
    BY <1>1, <2>1 DEF IInv, TypeOK, PaidIsHeld, RunRecord
  <2>. HIDE DEF new, q
  <2>4. /\ calls'[r][q] = 1 /\ \A p \in Query \ {q} : calls'[r][p] = calls[r][p]
        /\ \A x \in Run \ {r} : calls'[x] = calls[x]
    BY <2>1, <2>3
  <2>5. run'[r] = new /\ \A x \in Run \ {r} : run'[x] = run[x]
    BY <1>1, <2>1
  <2>6. ~run[r].stored
    BY <2>1 DEF IInv, RunShape, Working
  <2>7. \A p \in run[r].got : calls'[r][p] = 1
    BY <2>1, <2>3, <2>4 DEF HeldIsPaid
  <2>8. HeldIsPaid'
    <3>1. calls'[r][QueryOf[run'[r].at]] = 1
      BY <2>2, <2>4, <2>5 DEF q
    <3>2. QED BY <2>2, <2>4, <2>5, <2>7, <3>1 DEF HeldIsPaid
  <2>9. QED BY <2>1, <2>2, <2>4, <2>5, <2>6, <2>8 DEF StoresNothing
<1>12. CASE Notify(r) \/ RecordFailure(r) \/ FailureLockTimeout(r) \/ LockTimeout(r)
            \/ AppendUnparsed(r) \/ SearchFails(r)
            \/ \E l \in Listing : FetchEscapes(r, l) \/ FetchGarbage(r, l)
  BY <1>5, <1>12 DEF Notify, RecordFailure, FailureLockTimeout, LockTimeout, AppendUnparsed,
     SearchFails, FetchEscapes, FetchGarbage, dbVars
<1>13. QED BY <1>3, <1>6, <1>7, <1>8, <1>9, <1>10, <1>11, <1>12 DEF Works

\* A commit stores a row for each query the run paid for, and adds the run to those that
\* keep one.
LEMMA CommitKeeps ==
  ASSUME IsFiniteSet(Run), IInv, HeldIsPaid, PaidIsKept, NEW r \in Run, Commit(r)
  PROVE  HeldIsPaid' /\ PaidIsKept'
<1>1. run[r] \in RunRecord /\ run \in [Run -> RunRecord] /\ payloads \in [Query -> Nat]
  BY DEF IInv, TypeOK
<1>2. PICK step \in {"alerting", "ended"} :
        run' = [run EXCEPT ![r] = [run[r] EXCEPT !.step = step, !.stored = TRUE]]
  BY DEF Commit
<1>3. run'[r].step = step /\ run'[r].stored
  BY <1>1, <1>2 DEF RunRecord
<1>4. \A x \in Run \ {r} : run'[x] = run[x]
  BY <1>1, <1>2
<1>5. run[r].step = "pricing" /\ ~run[r].stored /\ calls' = calls
  BY DEF Commit, IsAt, IInv, RunShape, Working
<1>6. HeldIsPaid'
  BY <1>3, <1>4, <1>5 DEF HeldIsPaid
<1>7. ASSUME NEW q \in Query PROVE payloads'[q] = Cardinality(Keepers(q)')
  <2>1. IsFiniteSet(Keepers(q)) /\ r \notin Keepers(q)
    BY <1>5, FS_Subset DEF Keepers
  <2>2. calls[r][q] > 0 <=> q \in run[r].got
    BY <1>5 DEF HeldIsPaid, IInv, PaidIsHeld
  <2>3. payloads[q] = Cardinality(Keepers(q))
    BY DEF PaidIsKept, Keepers
  <2>4. payloads'[q] = IF q \in run[r].got THEN payloads[q] + 1 ELSE payloads[q]
    BY DEF Commit
  <2>5. CASE q \in run[r].got
    <3>1. Keepers(q)' = Keepers(q) \cup {r}
      BY <1>3, <1>4, <1>5, <2>2, <2>5 DEF Keepers
    <3>2. QED BY <2>1, <2>3, <2>4, <2>5, <3>1, FS_AddElement
  <2>6. CASE q \notin run[r].got
    <3>1. Keepers(q)' = Keepers(q)
      BY <1>3, <1>4, <1>5, <2>2, <2>6 DEF Keepers
    <3>2. QED BY <2>3, <2>4, <2>6, <3>1
  <2>7. QED BY <2>5, <2>6
<1>8. QED BY <1>6, <1>7 DEF PaidIsKept, Keepers

\* A step of anything else leaves the rows and those that keep them as they are.
LEMMA KeptStep ==
  ASSUME IsFiniteSet(Run), IInv, HeldIsPaid, PaidIsKept, [Next]_vars
  PROVE  HeldIsPaid' /\ PaidIsKept'
<1>1. ASSUME StoresNothing PROVE PaidIsKept'
  <2>1. \A q \in Query : Keepers(q)' = Keepers(q)
    BY <1>1 DEF StoresNothing, Keepers
  <2>2. QED BY <1>1, <2>1 DEF StoresNothing, PaidIsKept, Keepers
<1>2. CASE \E r \in Run : Start(r) \/ Works(r) \/ Crash(r)
  <2>1. PICK r \in Run : Start(r) \/ Works(r) \/ Crash(r)
    BY <1>2
  <2>2. CASE Commit(r)
    BY <2>2, CommitKeeps
  <2>3. CASE ~Commit(r)
    BY <1>1, <2>1, <2>3, WorksHolds
  <2>4. QED BY <2>2, <2>3
<1>3. CASE UNCHANGED <<payloads, run, calls>>
  BY <1>1, <1>3 DEF HeldIsPaid, StoresNothing
<1>4. QED BY <1>2, <1>3 DEF Next, Expire, NewMonth, vars, dbVars

\* For any finite number of runs, of each query the cache has as many rows as runs that
\* stored had paid for it: what is paid for is lost only with a run that does not commit
\* (append_payload, session_scope).
THEOREM PaidPayloadsAreKept ==
  ASSUME IsFiniteSet(Run) PROVE Spec => []PaidIsKept
<1>1. Init => HeldIsPaid /\ PaidIsKept
  <2>. SUFFICES ASSUME Init PROVE HeldIsPaid /\ PaidIsKept
    OBVIOUS
  <2>1. \A r \in Run : run[r] = NewRun
    BY DEF Init
  <2>2. HeldIsPaid
    BY <2>1 DEF HeldIsPaid, NewRun
  <2>3. \A q \in Query : Keepers(q) = {}
    BY <2>1 DEF Keepers, NewRun
  <2>4. PaidIsKept
    BY <2>3, FS_EmptySet DEF PaidIsKept, Keepers, Init
  <2>5. QED BY <2>2, <2>4
<1>2. IInv /\ HeldIsPaid /\ PaidIsKept /\ [Next]_vars => HeldIsPaid' /\ PaidIsKept'
  BY KeptStep
<1>3. QED BY <1>1, <1>2, Invariance, PTL DEF Spec

-----------------------------------------------------------------------------
(* Runs are atomic.                                                        *)

\* A step of the database is a run that completes, a failure that is recorded,
\* or nothing at all.
LEMMA StepIsAtomic == IInv /\ [Next]_vars => [Atomic!Next]_(Atomic!atomicVars)
<1> SUFFICES ASSUME IInv, [Next]_vars
             PROVE  Atomic!Next \/ UNCHANGED <<listings, payloads, beats>>
  BY DEF Atomic!atomicVars
<1>1. ASSUME NEW r \in Run, Commit(r) PROVE Atomic!Next
  <2>1. beats[r] = None
    BY <1>1 DEF Commit, IsAt, IInv, BeatsComeLast, Working
  <2>2. run[r].ranked \in SUBSET Listing /\ run[r].got \in SUBSET Query
    BY DEF IInv, TypeOK, RunRecord
  <2>3. Atomic!Complete(r, run[r].ranked, run[r].got)
    BY <1>1, <2>1 DEF Commit, Upserted, Atomic!Complete
  <2>4. QED BY <2>2, <2>3 DEF Atomic!Next
<1>2. ASSUME NEW r \in Run, RecordFailure(r) PROVE Atomic!Next
  <2>1. beats[r] = None /\ r \in Monitor
    BY <1>2 DEF RecordFailure, IsAt, IInv, BeatsComeLast, RunShape, Working
  <2>2. Atomic!Fail(r)
    BY <1>2, <2>1 DEF RecordFailure, Atomic!Fail
  <2>3. QED BY <2>2 DEF Atomic!Next
<1>3. ASSUME NEW r \in Run, Works(r), ~Commit(r), ~RecordFailure(r)
      PROVE  UNCHANGED <<listings, payloads, beats>>
  BY <1>3
  DEF Works, Search, SearchFails, Reject, PriceFromCache, SkipExhausted, QuotaGone,
      FetchEscapes, FetchGarbage, Fetch, Append, AppendUnparsed, LockTimeout,
      FailureLockTimeout, Notify, dbVars
<1>4. ASSUME NEW r \in Run, Start(r) \/ Crash(r)
      PROVE  UNCHANGED <<listings, payloads, beats>>
  BY <1>4 DEF Start, Crash, dbVars
<1>5. CASE (\E q \in Query : Expire(q)) \/ NewMonth \/ UNCHANGED vars
  BY <1>5 DEF Expire, NewMonth, vars, dbVars
<1>6. QED BY <1>1, <1>2, <1>3, <1>4, <1>5 DEF Next

\* Runs are atomic in the database (session_scope around a scan).
THEOREM RunsAreAtomic == Spec => ImplementsAtomicRuns
<1>1. Init => Atomic!Init
  BY DEF Init, Atomic!Init
<1>2. QED BY <1>1, StepIsAtomic, Invariance, PTL DEF Spec, ImplementsAtomicRuns, Atomic!Spec

-----------------------------------------------------------------------------
(* A run runs down.                                                        *)

\* How many steps a run in this state can still take: two for a listing it has to
\* pay for, one to commit and one to notify or to record a failure.
StepsLeft(rec) ==
  CASE rec.step = "searching" -> 2 * Cardinality(Listing) + 4
    [] rec.step = "pricing" -> 2 * Cardinality(rec.todo) + 3
    [] rec.step = "appending" -> 2 * Cardinality(rec.todo) + 2
    [] rec.step \in {"failing", "alerting"} -> 1
    [] OTHER -> 0

\* The payload in hand is of a listing not yet passed.
InHand == \A r \in Run : run[r].step = "appending" => run[r].at \in run[r].todo

\* What is left of the listings is a number, and less without one of them.
LEMMA TodoCounts ==
  ASSUME IsFiniteSet(Listing), NEW todo \in SUBSET Listing
  PROVE  /\ Cardinality(todo) \in Nat /\ Cardinality(todo) <= Cardinality(Listing)
         /\ \A l \in todo : Cardinality(todo \ {l}) = Cardinality(todo) - 1
         /\ \A l : Cardinality(todo \ {l}) \in Nat /\ Cardinality(todo \ {l}) <= Cardinality(todo)
<1>1. IsFiniteSet(todo) /\ Cardinality(todo) \in Nat /\ Cardinality(todo) <= Cardinality(Listing)
  BY FS_Subset, FS_CardinalityType
<1>2. \A l \in todo : Cardinality(todo \ {l}) = Cardinality(todo) - 1
  BY <1>1, FS_RemoveElement
<1>3. ASSUME NEW l
      PROVE  Cardinality(todo \ {l}) \in Nat /\ Cardinality(todo \ {l}) <= Cardinality(todo)
  BY <1>1, FS_Subset, FS_CardinalityType
<1>4. QED BY <1>1, <1>2, <1>3

LEMMA StepsAreBounded ==
  ASSUME IsFiniteSet(Listing), NEW rec \in RunRecord
  PROVE  StepsLeft(rec) \in 0 .. 2 * Cardinality(Listing) + 4
<1>1. /\ Cardinality(rec.todo) \in Nat /\ Cardinality(rec.todo) <= Cardinality(Listing)
      /\ Cardinality(Listing) \in Nat
  <2>1. rec.todo \in SUBSET Listing
    BY DEF RunRecord
  <2>2. QED BY <2>1, TodoCounts, FS_CardinalityType
<1>2. QED BY <1>1 DEF StepsLeft

\* What every step of a run's process makes of its record: less is left of it.
LEMMA WorkTakesOne ==
  ASSUME IsFiniteSet(Listing), IInv, InHand, NEW r \in Run, Works(r)
  PROVE  /\ \A x \in Run \ {r} : run'[x] = run[x]
         /\ StepsLeft(run'[r]) < StepsLeft(run[r])
         /\ run'[r].step = "appending" => run'[r].at \in run'[r].todo
<1>. DEFINE old == run[r]
            new == run'[r]
            N == Cardinality(Listing)
            n == Cardinality(old.todo)
            Goal == StepsLeft(new) < StepsLeft(old)
                      /\ (new.step = "appending" => new.at \in new.todo)
<1>1. run \in [Run -> RunRecord] /\ old \in RunRecord /\ old.todo \in SUBSET Listing
  BY DEF IInv, TypeOK, RunRecord
<1>2. /\ n \in Nat /\ N \in Nat /\ n <= N
      /\ \A l \in old.todo : Cardinality(old.todo \ {l}) = n - 1
  BY <1>1, TodoCounts, FS_CardinalityType
<1>3. \A x \in Run \ {r} : run'[x] = run[x]
  BY <1>1
  DEF Works, Search, SearchFails, Fails, Exits, Reject, Passed, PriceFromCache, Judged,
      SkipExhausted, QuotaGone, FetchEscapes, FetchGarbage, Fetch, Append, AppendUnparsed,
      Commit, LockTimeout, RecordFailure, FailureLockTimeout, Notify
<1>4. ASSUME Fails(r) \/ Exits(r), old.step \in Working \cup {"alerting"},
             old.step \in {"failing", "alerting"} => Exits(r)
      PROVE  Goal
  <2>1. \/ new.step = "ended"
        \/ new.step = "failing" /\ old.step \notin {"failing", "alerting"}
    <3>1. CASE Exits(r)
      <4>1. new = [old EXCEPT !.step = "ended"]
        BY <1>1, <3>1 DEF Exits
      <4>2. new.step = "ended"
        BY <1>1, <4>1 DEF RunRecord
      <4>3. QED BY <4>2
    <3>2. CASE ~Exits(r)
      <4>1. Fails(r) /\ old.step \notin {"failing", "alerting"}
        BY <1>4, <3>2
      <4>2. new.step \in {"failing", "ended"}
        BY <1>1, <4>1 DEF Fails, RunRecord
      <4>3. QED BY <4>1, <4>2
    <3>3. QED BY <3>1, <3>2
  <2>2. QED BY <1>2, <1>4, <2>1 DEF StepsLeft, Working
<1>5. ASSUME Search(r) PROVE Goal
  <2>1. /\ old.step = "searching" /\ new.step = "pricing" /\ new.todo \in SUBSET Listing
    BY <1>1, <1>5 DEF Search, IsAt, RunRecord
  <2>2. Cardinality(new.todo) \in Nat /\ Cardinality(new.todo) <= N
    BY <2>1, TodoCounts
  <2>3. QED BY <1>2, <2>1, <2>2 DEF StepsLeft
<1>6. ASSUME NEW l \in old.todo, old.step \in {"pricing", "appending"}, new.step = "pricing",
             new.todo = old.todo \ {l}
      PROVE  Goal
  BY <1>2, <1>6 DEF StepsLeft
<1>7. ASSUME NEW l \in Listing,
             Reject(r, l) \/ SkipExhausted(r, l) \/ QuotaGone(r, l) \/ PriceFromCache(r, l)
      PROVE  Goal
  <2>1. l \in old.todo /\ old.step = "pricing" /\ new.step = "pricing"
        /\ new.todo = old.todo \ {l}
    <3>1. l \in old.todo /\ old.step = "pricing"
      BY <1>7 DEF Reject, SkipExhausted, QuotaGone, PriceFromCache, Asks, IsAt
    <3>2. CASE Passed(r, l)
      BY <1>1, <3>1, <3>2 DEF Passed, RunRecord
    <3>3. CASE QuotaGone(r, l)
      BY <1>1, <3>1, <3>3 DEF QuotaGone, RunRecord
    <3>4. CASE Judged(r, l)
      BY <1>1, <3>1, <3>4 DEF Judged, RunRecord
    <3>5. QED BY <1>7, <3>2, <3>3, <3>4 DEF Reject, SkipExhausted, PriceFromCache
  <2>2. QED BY <1>6, <2>1
<1>8. ASSUME NEW l \in Listing, Fetch(r, l) PROVE Goal
  <2>1. /\ l \in old.todo /\ old.step = "pricing" /\ new.step = "appending"
        /\ new.todo = old.todo /\ new.at = l
    BY <1>1, <1>8 DEF Fetch, Asks, IsAt, RunRecord
  <2>2. QED BY <1>2, <2>1 DEF StepsLeft
<1>9. ASSUME Append(r) PROVE Goal
  <2>1. /\ old.step = "appending" /\ old.at \in old.todo /\ new.step = "pricing"
        /\ new.todo = old.todo \ {old.at}
    BY <1>1, <1>9 DEF Append, Judged, IsAt, RunRecord, InHand
  <2>2. QED BY <1>6, <2>1
<1>10. ASSUME Commit(r) PROVE Goal
  <2>1. old.step = "pricing" /\ new.step \in {"alerting", "ended"}
    BY <1>1, <1>10 DEF Commit, IsAt, RunRecord
  <2>2. QED BY <1>2, <2>1 DEF StepsLeft
<1>11. ASSUME SearchFails(r) \/ AppendUnparsed(r) \/ LockTimeout(r) PROVE Goal
  <2>1. (Fails(r) \/ Exits(r)) /\ old.step \in {"searching", "pricing", "appending"}
    BY <1>11 DEF SearchFails, AppendUnparsed, LockTimeout, IsAt
  <2>2. QED BY <1>4, <2>1 DEF Working
<1>12. ASSUME NEW l \in Listing, FetchEscapes(r, l) \/ FetchGarbage(r, l) PROVE Goal
  <2>1. (Fails(r) \/ Exits(r)) /\ old.step = "pricing"
    BY <1>12 DEF FetchEscapes, FetchGarbage, Asks, IsAt
  <2>2. QED BY <1>4, <2>1 DEF Working
<1>13. ASSUME RecordFailure(r) \/ FailureLockTimeout(r) \/ Notify(r) PROVE Goal
  <2>1. Exits(r) /\ old.step \in {"failing", "alerting"}
    BY <1>13 DEF RecordFailure, FailureLockTimeout, Notify, IsAt
  <2>2. QED BY <1>4, <2>1 DEF Working
<1>. HIDE DEF Goal
<1>14. Goal
  BY <1>5, <1>7, <1>8, <1>9, <1>10, <1>11, <1>12, <1>13 DEF Works
<1>15. QED BY <1>3, <1>14 DEF Goal

\* A run that has begun takes a bounded number of steps, whatever the market, the
\* comps API and the lock do: nothing in a scan is tried again without limit. Only a
\* crash cuts it shorter. What RunsEnd adds is that the process goes on.
THEOREM RunsRunDown ==
  IsFiniteSet(Listing) =>
    (Spec => /\ [](\A r \in Run : StepsLeft(run[r]) \in 0 .. 2 * Cardinality(Listing) + 4)
             /\ [][ \A r \in Run :
                      run[r].step \notin Over \cup {"waiting"} /\ run'[r] # run[r]
                        => StepsLeft(run'[r]) < StepsLeft(run[r]) ]_vars)
<1> SUFFICES ASSUME IsFiniteSet(Listing)
    PROVE  Spec => /\ [](\A r \in Run : StepsLeft(run[r]) \in 0 .. 2 * Cardinality(Listing) + 4)
                   /\ [][ \A r \in Run :
                            run[r].step \notin Over \cup {"waiting"} /\ run'[r] # run[r]
                              => StepsLeft(run'[r]) < StepsLeft(run[r]) ]_vars
  OBVIOUS
<1>. DEFINE Down == \A r \in Run :
                      run[r].step \notin Over \cup {"waiting"} /\ run'[r] # run[r]
                        => StepsLeft(run'[r]) < StepsLeft(run[r])
<1>1. IInv => \A r \in Run : StepsLeft(run[r]) \in 0 .. 2 * Cardinality(Listing) + 4
  BY StepsAreBounded DEF IInv, TypeOK
<1>2. Init => InHand
  BY DEF Init, InHand, NewRun
<1>3. ASSUME IInv, InHand, Next PROVE InHand' /\ Down
  <2>1. run \in [Run -> RunRecord]
    BY <1>3 DEF IInv, TypeOK
  <2>2. ASSUME NEW r \in Run, Works(r) PROVE InHand' /\ Down
    <3>1. /\ \A x \in Run \ {r} : run'[x] = run[x]
          /\ StepsLeft(run'[r]) < StepsLeft(run[r])
          /\ run'[r].step = "appending" => run'[r].at \in run'[r].todo
      BY <1>3, <2>2, WorkTakesOne
    <3>2. QED BY <1>3, <3>1 DEF InHand
  <2>3. ASSUME NEW r \in Run, Start(r) PROVE InHand' /\ Down
    <3>1. /\ \A x \in Run \ {r} : run'[x] = run[x]
          /\ run[r].step = "waiting" /\ run'[r].step = "searching"
      BY <2>1, <2>3 DEF Start, IsAt, NewRun
    <3>2. QED BY <1>3, <3>1 DEF InHand
  <2>4. ASSUME NEW r \in Run, Crash(r) PROVE InHand' /\ Down
    <3>1. /\ \A x \in Run \ {r} : run'[x] = run[x]
          /\ run[r].step \notin Over \cup {"waiting"} /\ run'[r].step = "crashed"
      BY <2>1, <2>4 DEF Crash, RunRecord
    <3>2. StepsLeft(run'[r]) = 0
      BY <3>1 DEF StepsLeft
    <3>3. StepsLeft(run[r]) > 0
      <4>1. /\ run[r].step \in {"searching", "pricing", "appending", "failing", "alerting"}
            /\ run[r].todo \in SUBSET Listing
        BY <2>1, <3>1 DEF RunRecord, Step, Over
      <4>2. Cardinality(run[r].todo) \in Nat /\ Cardinality(Listing) \in Nat
        BY <4>1, TodoCounts, FS_CardinalityType
      <4>3. QED BY <4>1, <4>2 DEF StepsLeft
    <3>4. QED BY <1>3, <3>1, <3>2, <3>3 DEF InHand
  <2>5. CASE (\E q \in Query : Expire(q)) \/ NewMonth
    <3>1. run' = run
      BY <2>5 DEF Expire, NewMonth
    <3>2. QED BY <1>3, <3>1 DEF InHand
  <2>. HIDE DEF Down
  <2>6. QED BY <1>3, <2>2, <2>3, <2>4, <2>5 DEF Next
<1>4. InHand /\ UNCHANGED vars => InHand'
  BY DEF vars, InHand
<1>. HIDE DEF Down
<1>5. IInv /\ InHand /\ [Next]_vars => InHand' /\ [Down]_vars
  BY <1>3, <1>4
<1>6. Spec => []InHand
  BY <1>2, <1>5, Invariance, PTL DEF Spec
<1>7. Spec => [][Down]_vars
  BY <1>5, <1>6, Invariance, PTL DEF Spec
<1>8. QED BY <1>1, <1>7, Invariance, PTL DEF Down
=============================================================================
