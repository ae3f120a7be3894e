-------------------------- MODULE EnginePoolProofs --------------------------
(***************************************************************************)
(* Proofs about EnginePool, for any pool, interval and quarantine: its     *)
(* types, that a failed proxy rests, that available_count is what the scan *)
(* finds, that the round robin starves nobody and that a pool large enough *)
(* for its quarantine never runs dry.                                      *)
(***************************************************************************)
EXTENDS EnginePool, FiniteSetTheorems, FunctionTheorems, WellFoundedInduction, TLAPS

\* The table remembers a failure for as long as it matters: until the
\* quarantine is over, the entry is still there and names its end.
EntryStands ==
  \A p \in Proxy :
    lastFailed[p] # None =>
      /\ lastFailed[p] <= now
      /\ now < lastFailed[p] + Quarantine => quarantined[p] = lastFailed[p] + Quarantine

\* Nothing was handed out in the future.
TookInThePast == \A p \in Proxy : tookWhen[p] # None => tookWhen[p] <= now

IInv == TypeOK /\ EntryStands /\ TookInThePast /\ QuarantineHolds

\* A proxy of the pool that was passed over so many times has a slot that is nearer
\* by as many: the scan closes in on it with every handout.
RingOrder ==
  \A p \in InPool : \E k \in 0 .. Size - 1 :
    proxies[Turn(k) + 1] = p /\ waited[p] + k < Size

\* Every entry of the table is a failure's, the loop sleeps an Interval after each
\* failure, and so no two failures on record are closer than that.
FailuresAreSpaced ==
  /\ \A p \in Proxy : quarantined[p] # None =>
       lastFailed[p] # None /\ quarantined[p] = lastFailed[p] + Quarantine
  /\ \A p \in Proxy : lastFailed[p] # None => lastFailed[p] + Interval <= wake
  /\ \A p, q \in Proxy : p # q /\ lastFailed[p] # None /\ lastFailed[q] # None =>
       lastFailed[p] + Interval <= lastFailed[q] \/ lastFailed[q] + Interval <= lastFailed[p]
  /\ loop = "polling" => wake <= now

\* The invariant of the clock and the ring, on top of IInv.
PoolInv == IInv /\ RingOrder /\ FailuresAreSpaced /\ PoolOutlastsQuarantine

-----------------------------------------------------------------------------
(* The pool's arithmetic.                                                  *)

\* A pool has a slot, and its slots hold proxies.
LEMMA PoolHasSlots ==
  ASSUME proxies \in Pools
  PROVE  /\ Size \in Nat /\ Size > 0
         /\ proxies \in Seq(Proxy)
         /\ \A j \in 1 .. Size : proxies[j] \in Proxy
  <1>1. proxies \in Seq(Proxy) /\ proxies # <<>>
    BY PoolAssumption
  <1>2. QED
    BY <1>1 DEF Size

\* The scan stays inside the pool, wherever it begins.
LEMMA TurnInPool ==
  ASSUME proxies \in Pools, index \in Nat, NEW k \in Nat
  PROVE  Turn(k) \in 0 .. Size - 1 /\ (Turn(k) + 1) % Size \in 0 .. Size - 1
  <1>1. Size \in Nat /\ Size > 0
    BY PoolHasSlots
  <1>2. \A a \in Nat : a % Size \in 0 .. Size - 1
    BY <1>1
  <1>3. Turn(k) \in 0 .. Size - 1
    BY <1>2 DEF Turn
  <1>4. QED
    BY <1>1, <1>2, <1>3

\* A non-empty set of naturals has a least member.
LEMMA LeastOfNaturals ==
  ASSUME NEW T \in SUBSET Nat, T # {}
  PROVE  \E k \in T : \A j \in T : k <= j
  <1>. DEFINE R == OpToRel(<, Nat)
  <1>1. IsWellFoundedOn(R, Nat)
    BY NatLessThanWellFounded
  <1>2. \A x, y \in Nat : x < y => <<x, y>> \in R
    BY DEF OpToRel
  <1>. HIDE DEF R
  <1>3. PICK k \in T : \A y \in T : ~ (<<y, k>> \in R)
    BY <1>1, WFMin, Zenon
  <1>4. \A x \in T : x \in Nat
    OBVIOUS
  <1>5. \A j \in T : ~ (j < k)
    BY <1>2, <1>3, <1>4, Zenon
  <1>6. \A j \in T : k <= j
    BY <1>4, <1>5
  <1>7. QED
    BY <1>6

\* The scan stops at the first free slot, so it hands out a proxy that is not
\* held, and the index it leaves is a slot.
LEMMA PickIsFree ==
  ASSUME proxies \in Pools, index \in Nat, FreeAfter # {}
  PROVE  Pick \in Proxy /\ Pick \notin Held /\ Advance \in 0 .. Size - 1
  <1>1. Size \in Nat /\ Size > 0 /\ \A j \in 1 .. Size : proxies[j] \in Proxy
    BY PoolHasSlots
  <1>2. FreeAfter \subseteq 0 .. Size - 1
    BY DEF FreeAfter
  <1>3. \E k \in FreeAfter : \A j \in FreeAfter : k <= j
    <2>1. FreeAfter \in SUBSET Nat
      BY <1>1, <1>2
    <2>2. QED
      BY <2>1, LeastOfNaturals
  <1>4. Skips \in FreeAfter
    BY <1>3 DEF Skips
  <1>5. Skips \in Nat /\ proxies[Turn(Skips) + 1] \notin Held
    BY <1>1, <1>4 DEF FreeAfter
  <1>6. Turn(Skips) \in 0 .. Size - 1 /\ (Turn(Skips) + 1) % Size \in 0 .. Size - 1
    BY <1>5, TurnInPool
  <1>7. Turn(Skips) + 1 \in 1 .. Size
    BY <1>1, <1>6
  <1>8. QED
    BY <1>1, <1>5, <1>6, <1>7 DEF Pick, Advance

-----------------------------------------------------------------------------
(* One lemma per part of a step.                                           *)

\* A handout: a proxy that is not resting, and nobody else is touched.
LEMMA Handout ==
  ASSUME IInv, GetProxy
  PROVE  /\ Pick \in Proxy /\ Pick \notin Held
         /\ index' \in 0 .. Size - 1
         /\ tookWhen' = [tookWhen EXCEPT ![Pick] = now]
         /\ waited' \in [Proxy -> Nat]
         /\ proxies' = proxies
  <1>1. index \in Nat /\ proxies \in Pools /\ FreeAfter # {}
    BY PoolHasSlots DEF IInv, TypeOK, GetProxy
  <1>2. Pick \in Proxy /\ Pick \notin Held /\ Advance \in 0 .. Size - 1
    BY <1>1, PickIsFree
  <1>3. waited' \in [Proxy -> Nat]
    BY DEF IInv, TypeOK, GetProxy
  <1>4. QED
    BY <1>2, <1>3 DEF GetProxy

\* A proxy that is not held has rested since it last failed.
LEMMA FreeHasRested ==
  ASSUME IInv, NEW p \in Proxy, p \notin Held, lastFailed[p] # None
  PROVE  now >= lastFailed[p] + Quarantine
  <1>1. now \in Nat /\ lastFailed[p] \in Nat /\ Quarantine \in Nat
    BY PoolAssumption DEF IInv, TypeOK, Time
  <1>2. CASE now < lastFailed[p] + Quarantine
    <2>1. quarantined[p] = lastFailed[p] + Quarantine
      BY <1>2 DEF IInv, EntryStands
    <2>2. quarantined[p] # None /\ quarantined[p] > now
      BY <1>1, <1>2, <2>1, PoolAssumption
    <2>3. QED
      BY <2>2 DEF Held
  <1>3. QED
    BY <1>1, <1>2

\* Dropping what expired loses no entry that still counts.
LEMMA SweepKeepsEntries ==
  ASSUME IInv, NEW p \in Proxy, lastFailed[p] # None, now < lastFailed[p] + Quarantine
  PROVE  Swept[p] = lastFailed[p] + Quarantine
  <1>1. now \in Nat /\ lastFailed[p] \in Nat /\ Quarantine \in Nat
    BY PoolAssumption DEF IInv, TypeOK, Time
  <1>2. quarantined[p] = lastFailed[p] + Quarantine
    BY DEF IInv, EntryStands
  <1>3. p \in Held
    BY <1>1, <1>2, PoolAssumption DEF Held
  <1>4. QED
    BY <1>2, <1>3 DEF Swept

\* The swept table has the type of the table.
LEMMA SweepKeepsType ==
  ASSUME TypeOK
  PROVE  Swept \in [Proxy -> 0 .. MaxNow + Quarantine \cup {None}]
  BY DEF TypeOK, Swept

\* The clock may move on under the history without breaking it: what was true
\* of a failure and a handout at now is true of them at any later moment.
LEMMA TimeMovesOn ==
  ASSUME IInv, NEW t \in Nat, now <= t
  PROVE  /\ \A p \in Proxy : tookWhen[p] # None => tookWhen[p] <= t
         /\ \A p \in Proxy :
              lastFailed[p] # None =>
                /\ lastFailed[p] <= t
                /\ t < lastFailed[p] + Quarantine => now < lastFailed[p] + Quarantine
  <1>1. now \in Nat /\ Quarantine \in Nat
    BY PoolAssumption DEF IInv, TypeOK, Time
  <1>2. \A p \in Proxy : tookWhen[p] # None => tookWhen[p] \in Nat /\ tookWhen[p] <= now
    BY DEF IInv, TypeOK, Time, TookInThePast
  <1>3. \A p \in Proxy : lastFailed[p] # None => lastFailed[p] \in Nat /\ lastFailed[p] <= now
    BY DEF IInv, TypeOK, Time, EntryStands
  <1>4. QED
    BY <1>1, <1>2, <1>3

\* A step that only sleeps, or that ends in starvation, changes the table at most
\* by sweeping it and the clock at most forwards.
LEMMA QuietStep ==
  ASSUME IInv, NEW t \in Nat, now <= t, now' = t,
         quarantined' \in {quarantined, Swept},
         lastFailed' = lastFailed
  PROVE  EntryStands'
  <1>1. \A p \in Proxy : lastFailed[p] # None =>
          /\ lastFailed[p] <= t
          /\ t < lastFailed[p] + Quarantine => now < lastFailed[p] + Quarantine
    BY TimeMovesOn
  <1>2. \A p \in Proxy : lastFailed[p] # None /\ now < lastFailed[p] + Quarantine =>
          /\ quarantined[p] = lastFailed[p] + Quarantine
          /\ Swept[p] = lastFailed[p] + Quarantine
    BY SweepKeepsEntries DEF IInv, EntryStands
  <1>3. SUFFICES ASSUME NEW p \in Proxy, lastFailed[p] # None
                 PROVE  /\ lastFailed[p] <= t
                        /\ t < lastFailed[p] + Quarantine =>
                             quarantined'[p] = lastFailed[p] + Quarantine
    BY DEF EntryStands
  <1>4. lastFailed[p] <= t
    BY <1>1, <1>3
  <1>5. ASSUME t < lastFailed[p] + Quarantine
        PROVE  quarantined'[p] = lastFailed[p] + Quarantine
    <2>1. now < lastFailed[p] + Quarantine
      BY <1>1, <1>3, <1>5
    <2>2. quarantined[p] = lastFailed[p] + Quarantine /\ Swept[p] = lastFailed[p] + Quarantine
      BY <1>2, <1>3, <2>1
    <2>3. QED
      BY <2>2
  <1>6. QED
    BY <1>4, <1>5

\* A handout to a proxy that has rested keeps every proxy's rest on record.
LEMMA HandoutKeepsRest ==
  ASSUME IInv, GetProxy, NEW t \in Nat, now <= t
  PROVE  /\ \A p \in Proxy : tookWhen'[p] # None => tookWhen'[p] <= t
         /\ \A p \in Proxy :
              lastFailed[p] # None /\ tookWhen'[p] # None =>
                tookWhen'[p] <= lastFailed[p] \/ tookWhen'[p] >= lastFailed[p] + Quarantine
  <1>1. /\ Pick \in Proxy /\ Pick \notin Held
        /\ tookWhen' = [tookWhen EXCEPT ![Pick] = now]
    BY Handout
  <1>2. tookWhen \in [Proxy -> Time \cup {None}]
    BY DEF IInv, TypeOK
  <1>3. tookWhen'[Pick] = now /\ \A p \in Proxy \ {Pick} : tookWhen'[p] = tookWhen[p]
    BY <1>1, <1>2
  <1>4. \A p \in Proxy : tookWhen[p] # None => tookWhen[p] <= t
    BY TimeMovesOn
  <1>5. lastFailed[Pick] # None => now >= lastFailed[Pick] + Quarantine
    BY <1>1, FreeHasRested
  <1>6. \A p \in Proxy \ {Pick} :
          lastFailed[p] # None /\ tookWhen[p] # None =>
            tookWhen[p] <= lastFailed[p] \/ tookWhen[p] >= lastFailed[p] + Quarantine
    BY DEF IInv, QuarantineHolds
  <1>7. \A p \in Proxy : tookWhen'[p] # None => tookWhen'[p] <= t
    <2>1. SUFFICES ASSUME NEW p \in Proxy, tookWhen'[p] # None PROVE tookWhen'[p] <= t
      OBVIOUS
    <2>2. CASE p = Pick
      BY <1>3, <2>2
    <2>3. CASE p # Pick
      BY <1>3, <1>4, <2>1, <2>3
    <2>4. QED
      BY <2>2, <2>3
  <1>8. ASSUME NEW p \in Proxy, lastFailed[p] # None, tookWhen'[p] # None
        PROVE  tookWhen'[p] <= lastFailed[p] \/ tookWhen'[p] >= lastFailed[p] + Quarantine
    <2>1. CASE p = Pick
      BY <1>3, <1>5, <1>8, <2>1
    <2>2. CASE p # Pick
      BY <1>3, <1>6, <1>8, <2>2
    <2>3. QED
      BY <2>1, <2>2
  <1>9. QED
    BY <1>7, <1>8

\* The new moment of a poll is a moment of the run.
LEMMA PollTakesTime ==
  ASSUME IInv, Due, NEW d \in 0 .. MaxRequest
  PROVE  /\ now + d \in Time /\ now + d \in Nat /\ now <= now + d
         /\ now + d + Interval \in 0 .. MaxNow + Interval
         /\ now + d + Quarantine \in 0 .. MaxNow + Quarantine
  BY PoolAssumption DEF IInv, TypeOK, Time, Due

-----------------------------------------------------------------------------
(* The actions.                                                            *)

LEMMA InitEstablishes == Init => IInv
  <1>. SUFFICES ASSUME Init PROVE IInv
    OBVIOUS
  <1>1. TypeOK
    BY PoolHasSlots, PoolAssumption DEF Init, TypeOK, Time
  <1>2. EntryStands /\ TookInThePast /\ QuarantineHolds
    BY DEF Init, EntryStands, TookInThePast, QuarantineHolds
  <1>3. QED
    BY <1>1, <1>2 DEF IInv

\* What PollAnswered and PollBreaks have in common: a handout, and no failure.
LEMMA HandoutWithoutFailure ==
  ASSUME IInv, Due, GetProxy, quarantined' = Swept,
         NEW d \in 0 .. MaxRequest, now' = now + d,
         lastFailed' = lastFailed,
         wake' \in 0 .. MaxNow + Interval, loop' \in {"sleeping", "broken"}
  PROVE  IInv'
  <1>1. now + d \in Time /\ now + d \in Nat /\ now <= now + d
    BY PollTakesTime
  <1>2. TypeOK'
    <2>1. tookWhen' \in [Proxy -> Time \cup {None}]
      BY Handout DEF IInv, TypeOK
    <2>2. index' \in 0 .. Size - 1 /\ waited' \in [Proxy -> Nat] /\ proxies' = proxies
      BY Handout
    <2>3. quarantined' \in [Proxy -> 0 .. MaxNow + Quarantine \cup {None}]
      BY SweepKeepsType DEF IInv
    <2>4. QED
      BY <1>1, <2>1, <2>2, <2>3 DEF IInv, TypeOK, Size, Time
  <1>3. EntryStands'
    BY <1>1, QuietStep
  <1>4. TookInThePast' /\ QuarantineHolds'
    BY <1>1, HandoutKeepsRest DEF TookInThePast, QuarantineHolds
  <1>5. QED
    BY <1>2, <1>3, <1>4 DEF IInv

\* An answered request: only the handout counts.
LEMMA PollAnsweredStep == IInv /\ PollAnswered => IInv'
  <1>. SUFFICES ASSUME IInv, PollAnswered PROVE IInv'
    OBVIOUS
  <1>1. Due /\ GetProxy /\ quarantined' = Swept /\ lastFailed' = lastFailed
    BY DEF PollAnswered
  <1>2. PICK d \in 0 .. MaxRequest : now' = now + d
    BY DEF PollAnswered
  <1>3. loop' = "sleeping" /\ wake' = now + d + Interval
    BY <1>2 DEF PollAnswered, Sleep
  <1>4. wake' \in 0 .. MaxNow + Interval
    BY <1>1, <1>3, PollTakesTime
  <1>5. QED
    BY <1>1, <1>2, <1>3, <1>4, HandoutWithoutFailure

\* An item that cannot be read: the handout counts, and the loop is over.
LEMMA PollBreaksStep == IInv /\ PollBreaks => IInv'
  <1>. SUFFICES ASSUME IInv, PollBreaks PROVE IInv'
    OBVIOUS
  <1>1. Due /\ GetProxy /\ quarantined' = Swept /\ lastFailed' = lastFailed
    BY DEF PollBreaks
  <1>2. PICK d \in 0 .. MaxRequest : now' = now + d
    BY DEF PollBreaks
  <1>3. loop' = "broken" /\ wake' = wake /\ wake \in 0 .. MaxNow + Interval
    BY DEF PollBreaks, IInv, TypeOK
  <1>4. QED
    BY <1>1, <1>2, <1>3, HandoutWithoutFailure

\* A failed request: the proxy was free, and its rest begins.
LEMMA PollFailsStep == IInv /\ PollFails => IInv'
  <1>. SUFFICES ASSUME IInv, PollFails PROVE IInv'
    OBVIOUS
  <1>1. Due /\ GetProxy
    BY DEF PollFails
  <1>2. PICK d \in 0 .. MaxRequest :
          /\ now' = now + d
          /\ quarantined' = [Swept EXCEPT ![Pick] = now + d + Quarantine]
          /\ lastFailed' = [lastFailed EXCEPT ![Pick] = now + d]
    BY DEF PollFails
  <1>. DEFINE t == now + d
  <1>3. /\ t \in Time /\ t \in Nat /\ now <= t
        /\ t + Interval \in 0 .. MaxNow + Interval
        /\ t + Quarantine \in 0 .. MaxNow + Quarantine
    BY <1>1, PollTakesTime
  <1>4. /\ now' = t
        /\ quarantined' = [Swept EXCEPT ![Pick] = t + Quarantine]
        /\ lastFailed' = [lastFailed EXCEPT ![Pick] = t]
        /\ loop' = "sleeping" /\ wake' = t + Interval
    BY <1>2 DEF PollFails, Sleep
  <1>. HIDE DEF t
  <1>5. /\ Pick \in Proxy
        /\ index' \in 0 .. Size - 1 /\ waited' \in [Proxy -> Nat] /\ proxies' = proxies
        /\ tookWhen' = [tookWhen EXCEPT ![Pick] = now]
    BY <1>1, Handout
  <1>6. /\ lastFailed \in [Proxy -> Time \cup {None}]
        /\ tookWhen \in [Proxy -> Time \cup {None}]
        /\ now \in Time
        /\ Swept \in [Proxy -> 0 .. MaxNow + Quarantine \cup {None}]
    BY SweepKeepsType DEF IInv, TypeOK
  <1>7. /\ lastFailed'[Pick] = t /\ tookWhen'[Pick] = now
        /\ quarantined'[Pick] = t + Quarantine
    BY <1>4, <1>5, <1>6
  <1>8. \A p \in Proxy \ {Pick} :
          lastFailed'[p] = lastFailed[p] /\ quarantined'[p] = Swept[p]
    BY <1>4, <1>6
  <1>9. TypeOK'
    <2>1. /\ tookWhen' \in [Proxy -> Time \cup {None}]
          /\ lastFailed' \in [Proxy -> Time \cup {None}]
      BY <1>3, <1>4, <1>5, <1>6
    <2>2. quarantined' \in [Proxy -> 0 .. MaxNow + Quarantine \cup {None}]
      BY <1>3, <1>4, <1>6
    <2>3. QED
      BY <1>3, <1>4, <1>5, <2>1, <2>2 DEF IInv, TypeOK, Size, Time
  <1>10. EntryStands'
    <2>1. ASSUME NEW p \in Proxy \ {Pick}, lastFailed[p] # None
          PROVE  /\ lastFailed[p] <= t
                 /\ t < lastFailed[p] + Quarantine => Swept[p] = lastFailed[p] + Quarantine
      <3>1. /\ lastFailed[p] <= t
            /\ t < lastFailed[p] + Quarantine => now < lastFailed[p] + Quarantine
        BY <1>3, <2>1, TimeMovesOn
      <3>2. now < lastFailed[p] + Quarantine => Swept[p] = lastFailed[p] + Quarantine
        BY <2>1, SweepKeepsEntries
      <3>3. QED
        BY <3>1, <3>2
    <2>2. SUFFICES ASSUME NEW p \in Proxy, lastFailed'[p] # None
                   PROVE  /\ lastFailed'[p] <= t
                          /\ t < lastFailed'[p] + Quarantine =>
                               quarantined'[p] = lastFailed'[p] + Quarantine
      BY <1>4 DEF EntryStands
    <2>3. CASE p = Pick
      BY <1>3, <1>7, <2>3
    <2>4. CASE p # Pick
      BY <1>8, <2>1, <2>2, <2>4
    <2>5. QED
      BY <2>3, <2>4
  <1>11. TookInThePast'
    BY <1>1, <1>3, <1>4, HandoutKeepsRest DEF TookInThePast
  <1>12. QuarantineHolds'
    <2>1. SUFFICES ASSUME NEW p \in Proxy, lastFailed'[p] # None, tookWhen'[p] # None
                   PROVE  \/ tookWhen'[p] <= lastFailed'[p]
                          \/ tookWhen'[p] >= lastFailed'[p] + Quarantine
      BY DEF QuarantineHolds
    <2>2. CASE p = Pick
      BY <1>3, <1>7, <2>2
    <2>3. CASE p # Pick
      <3>1. lastFailed'[p] = lastFailed[p]
        BY <1>8, <2>3
      <3>2. QED
        BY <1>1, <1>3, <2>1, <3>1, HandoutKeepsRest
    <2>4. QED
      BY <2>2, <2>3
  <1>13. QED
    BY <1>9, <1>10, <1>11, <1>12 DEF IInv

\* A step of the loop's that hands nothing out.
LEMMA IdleStep ==
  ASSUME IInv, NEW t \in Time, now <= t, now' = t,
         quarantined' \in {quarantined, Swept},
         loop' \in {"polling", "sleeping", "starved", "broken"},
         UNCHANGED <<proxies, index, wake, lastFailed, tookWhen, waited>>
  PROVE  IInv'
  <1>1. t \in Nat
    BY PoolAssumption DEF Time
  <1>2. TypeOK'
    BY SweepKeepsType DEF IInv, TypeOK, Size, Time
  <1>3. EntryStands'
    BY <1>1, QuietStep
  <1>4. TookInThePast'
    BY <1>1, TimeMovesOn DEF TookInThePast
  <1>5. QuarantineHolds'
    BY DEF IInv, QuarantineHolds
  <1>6. QED
    BY <1>2, <1>3, <1>4, <1>5 DEF IInv

LEMMA NextPreserves == IInv /\ [Next]_vars => IInv'
  <1>. SUFFICES ASSUME IInv, [Next]_vars PROVE IInv'
    OBVIOUS
  <1>0. now \in Time /\ now <= now /\ loop \in {"polling", "sleeping", "starved", "broken"}
    BY PoolAssumption DEF IInv, TypeOK, Time
  <1>1. CASE PollAnswered
    BY <1>1, PollAnsweredStep
  <1>2. CASE PollFails
    BY <1>2, PollFailsStep
  <1>3. CASE PollBreaks
    BY <1>3, PollBreaksStep
  <1>4. CASE PollStarves
    BY <1>0, <1>4, IdleStep DEF PollStarves
  <1>5. CASE Wake
    BY <1>0, <1>5, IdleStep DEF Wake, poolVars
  <1>6. CASE Tick
    <2>1. now + 1 \in Time /\ now <= now + 1
      BY <1>6, PoolAssumption DEF IInv, TypeOK, Time, Tick
    <2>2. QED
      BY <1>0, <1>6, <2>1, IdleStep DEF Tick, poolVars
  <1>7. CASE UNCHANGED vars
    BY <1>0, <1>7, IdleStep DEF vars, poolVars
  <1>8. QED
    BY <1>1, <1>2, <1>3, <1>4, <1>5, <1>6, <1>7 DEF Next

LEMMA Invariance == Spec => []IInv
  BY InitEstablishes, NextPreserves, PTL DEF Spec

-----------------------------------------------------------------------------
(* The ring of slots.                                                      *)

\* From any slot every slot is one number of others away, and no two are the same.
LEMMA RingOrderIsTotal ==
  ASSUME NEW n \in Nat, n > 0, NEW i \in 0 .. n - 1
  PROVE  /\ \A j \in 0 .. n - 1 : \E k \in 0 .. n - 1 : (i + k) % n = j
         /\ \A k, m \in 0 .. n - 1 : (i + k) % n = (i + m) % n => k = m
  <1>1. ASSUME NEW j \in 0 .. n - 1
        PROVE  \E k \in 0 .. n - 1 : (i + k) % n = j
    <2>1. CASE i <= j
      <3>1. j - i \in 0 .. n - 1 /\ (i + (j - i)) % n = j
        BY <2>1
      <3>2. QED
        BY <3>1
    <2>2. CASE i > j
      <3>1. j - i + n \in 0 .. n - 1 /\ (i + (j - i + n)) % n = j
        BY <2>2
      <3>2. QED
        BY <3>1
    <2>3. QED
      BY <2>1, <2>2
  <1>2. ASSUME NEW k \in 0 .. n - 1, NEW m \in 0 .. n - 1, (i + k) % n = (i + m) % n
        PROVE  k = m
    BY <1>2
  <1>3. QED
    BY <1>1, <1>2

\* Past the slot s others away, a slot beyond it is nearer by s and one.
LEMMA RingMovesOn ==
  ASSUME NEW n \in Nat, n > 0, NEW i \in 0 .. n - 1,
         NEW s \in 0 .. n - 1, NEW k \in 0 .. n - 1, s < k
  PROVE  (((((i + s) % n) + 1) % n) + (k - s - 1)) % n = (i + k) % n
  OBVIOUS

\* What available_count counts are the slots at which the scan would stop, one to one.
LEMMA CountIsTheScans == IInv => AvailableIsHonest
  <1>. SUFFICES ASSUME IInv PROVE AvailableCount = Cardinality(FreeAfter)
    BY DEF AvailableIsHonest
  <1>. DEFINE Counted == {j \in DOMAIN proxies :
                            quarantined[proxies[j]] = None \/ quarantined[proxies[j]] <= now}
              slot == [k \in FreeAfter |-> Turn(k) + 1]
  <1>1. /\ Size \in Nat /\ Size > 0 /\ DOMAIN proxies = 1 .. Size
        /\ \A j \in 1 .. Size : proxies[j] \in Proxy
        /\ index \in 0 .. Size - 1 /\ now \in Nat
    BY PoolHasSlots, PoolAssumption DEF IInv, TypeOK, Time, Size
  <1>2. /\ \A j \in 0 .. Size - 1 : \E k \in 0 .. Size - 1 : Turn(k) = j
        /\ \A k, m \in 0 .. Size - 1 : Turn(k) = Turn(m) => k = m
    BY <1>1, RingOrderIsTotal DEF Turn
  <1>3. \A k \in 0 .. Size - 1 : Turn(k) \in 0 .. Size - 1
    <2>1. proxies \in Pools /\ index \in Nat /\ \A k \in 0 .. Size - 1 : k \in Nat
      BY <1>1 DEF IInv, TypeOK
    <2>2. QED
      BY <2>1, TurnInPool
  <1>4. \A j \in 1 .. Size : j \in Counted <=> proxies[j] \notin Held
    <2>1. \A p \in Proxy : quarantined[p] = None \/ quarantined[p] \in Nat
      BY PoolAssumption DEF IInv, TypeOK
    <2>2. \A p \in Proxy : p \notin Held <=> quarantined[p] = None \/ quarantined[p] <= now
      BY <1>1, <2>1 DEF Held
    <2>3. QED
      BY <1>1, <2>2
  <1>5. \A k \in 0 .. Size - 1 : k \in FreeAfter <=> Turn(k) + 1 \in Counted
    <2>1. \A k \in 0 .. Size - 1 : Turn(k) + 1 \in 1 .. Size
      BY <1>1, <1>3
    <2>2. QED
      BY <1>4, <2>1 DEF FreeAfter
  <1>6. FreeAfter \subseteq 0 .. Size - 1 /\ Counted \subseteq 1 .. Size
    BY <1>1 DEF FreeAfter
  <1>. HIDE DEF Counted
  <1>7. slot \in [FreeAfter -> Counted]
    BY <1>5, <1>6
  <1>8. \A a, b \in FreeAfter : slot[a] = slot[b] => a = b
    <2>1. SUFFICES ASSUME NEW a \in FreeAfter, NEW b \in FreeAfter, slot[a] = slot[b]
                   PROVE  a = b
      OBVIOUS
    <2>2. Turn(a) \in Nat /\ Turn(b) \in Nat /\ Turn(a) + 1 = Turn(b) + 1
      BY <1>1, <1>3, <1>6, <2>1
    <2>3. Turn(a) = Turn(b)
      BY <2>2
    <2>4. QED
      BY <1>2, <1>6, <2>3
  <1>9. \A j \in Counted : \E k \in FreeAfter : slot[k] = j
    <2>1. SUFFICES ASSUME NEW j \in Counted PROVE \E k \in FreeAfter : slot[k] = j
      OBVIOUS
    <2>2. j \in 1 .. Size /\ j - 1 \in 0 .. Size - 1
      BY <1>1, <1>6
    <2>3. PICK k \in 0 .. Size - 1 : Turn(k) = j - 1
      BY <1>2, <2>2
    <2>4. Turn(k) + 1 = j
      BY <2>2, <2>3
    <2>5. k \in FreeAfter
      BY <1>5, <2>4
    <2>6. QED
      BY <2>4, <2>5
  <1>10. slot \in Bijection(FreeAfter, Counted)
    BY <1>7, <1>8, <1>9, Fun_IsBij
  <1>11. IsFiniteSet(FreeAfter)
    <2>1. IsFiniteSet(0 .. Size - 1)
      BY <1>1, FS_Interval
    <2>2. QED
      BY <1>6, <2>1, FS_Subset
  <1>12. Cardinality(Counted) = Cardinality(FreeAfter)
    BY <1>10, <1>11, FS_Bijection DEF ExistsBijection
  <1>13. QED
    BY <1>12 DEF AvailableCount, Counted

-----------------------------------------------------------------------------
(* The round robin.                                                        *)

\* A handout brings every proxy that is free and is not handed out nearer to its
\* turn by at least the one handout it was passed over in.
LEMMA RingTurns ==
  ASSUME IInv, RingOrder, GetProxy
  PROVE  RingOrder'
  <1>1. /\ proxies \in Pools /\ Size \in Nat /\ Size > 0
        /\ index \in 0 .. Size - 1 /\ index \in Nat
        /\ \A j \in 1 .. Size : proxies[j] \in Proxy
        /\ InPool \subseteq Proxy
        /\ waited \in [Proxy -> Nat]
    BY PoolHasSlots DEF IInv, TypeOK, Size, InPool
  <1>2. FreeAfter # {} /\ index' = Advance /\ proxies' = proxies
    BY DEF GetProxy
  <1>3. Skips \in FreeAfter /\ \A j \in FreeAfter : Skips <= j
    <2>1. FreeAfter \in SUBSET Nat
      BY <1>1 DEF FreeAfter
    <2>2. \E k \in FreeAfter : \A j \in FreeAfter : k <= j
      BY <1>2, <2>1, LeastOfNaturals
    <2>3. QED
      BY <2>2 DEF Skips
  <1>. DEFINE s == Skips
              next == (Turn(s) + 1) % Size
  <1>4. s \in 0 .. Size - 1 /\ next \in 0 .. Size - 1 /\ index' = next
    <2>1. s \in 0 .. Size - 1 /\ s \in Nat
      BY <1>1, <1>3 DEF FreeAfter
    <2>2. QED
      BY <1>1, <1>2, <2>1, TurnInPool DEF Advance
  <1>5. \A k \in 0 .. Size - 1 : s < k => (next + (k - s - 1)) % Size = Turn(k)
    <2>1. \A t, k \in 0 .. Size - 1 : t < k =>
            (((((index + t) % Size) + 1) % Size) + (k - t - 1)) % Size = (index + k) % Size
      BY <1>1, RingMovesOn
    <2>2. next = (((index + s) % Size) + 1) % Size /\ \A k : Turn(k) = (index + k) % Size
      BY DEF Turn
    <2>. HIDE DEF s, next
    <2>3. QED
      BY <1>4, <2>1, <2>2
  <1>. HIDE DEF s, next
  <1>6. \A j \in 0 .. Size - 1 : \E k \in 0 .. Size - 1 : (next + k) % Size = j
    BY <1>1, <1>4, RingOrderIsTotal
  <1>7. Size' = Size /\ InPool' = InPool /\ \A k : Turn(k)' = (next + k) % Size
    BY <1>2, <1>4 DEF Size, InPool, Turn
  <1>8. SUFFICES ASSUME NEW p \in InPool
                 PROVE  \E k \in 0 .. Size - 1 :
                          proxies[((next + k) % Size) + 1] = p /\ waited'[p] + k < Size
    BY <1>2, <1>7 DEF RingOrder
  <1>9. waited'[p] = IF p = Pick \/ p \in Held THEN 0 ELSE waited[p] + 1
    BY <1>1 DEF GetProxy
  <1>10. PICK k \in 0 .. Size - 1 : proxies[Turn(k) + 1] = p /\ waited[p] + k < Size
    BY DEF RingOrder
  <1>11. CASE p = Pick \/ p \in Held
    <2>1. PICK j \in 1 .. Size : proxies[j] = p
      BY DEF InPool, Size
    <2>2. j - 1 \in 0 .. Size - 1
      BY <1>1, <2>1
    <2>3. PICK m \in 0 .. Size - 1 : (next + m) % Size = j - 1
      BY <1>6, <2>2
    <2>4. ((next + m) % Size) + 1 = j
      BY <2>1, <2>3
    <2>5. waited'[p] + m < Size
      BY <1>1, <1>9, <1>11
    <2>6. QED
      BY <2>1, <2>4, <2>5
  <1>12. CASE p # Pick /\ p \notin Held
    <2>1. k \in FreeAfter
      BY <1>10, <1>12 DEF FreeAfter
    <2>2. s <= k /\ s # k
      BY <1>3, <1>10, <1>12, <2>1 DEF s, Pick
    <2>3. s < k /\ k - s - 1 \in 0 .. Size - 1
      BY <1>1, <1>4, <2>2
    <2>4. proxies[((next + (k - s - 1)) % Size) + 1] = p
      BY <1>5, <1>10, <2>3
    <2>5. waited'[p] + (k - s - 1) < Size
      <3>1. waited'[p] = waited[p] + 1 /\ waited[p] \in Nat /\ waited[p] + k < Size
        BY <1>1, <1>9, <1>10, <1>12
      <3>2. QED
        BY <1>1, <1>4, <3>1
    <2>6. QED
      BY <2>3, <2>4, <2>5
  <1>13. QED
    BY <1>11, <1>12

\* At the start every slot of the pool is ahead.
LEMMA RingInit == Init => RingOrder
  <1>. SUFFICES ASSUME Init, NEW p \in InPool
                PROVE  \E k \in 0 .. Size - 1 : proxies[Turn(k) + 1] = p /\ waited[p] + k < Size
    BY DEF RingOrder
  <1>1. Size \in Nat /\ Size > 0 /\ index = 0 /\ \A j \in 1 .. Size : proxies[j] \in Proxy
    BY PoolHasSlots DEF Init
  <1>2. PICK j \in 1 .. Size : proxies[j] = p
    BY DEF InPool, Size
  <1>3. waited[p] = 0
    BY <1>1, <1>2 DEF Init
  <1>4. j - 1 \in 0 .. Size - 1 /\ Turn(j - 1) + 1 = j
    BY <1>1, <1>2 DEF Turn
  <1>5. QED
    BY <1>1, <1>2, <1>3, <1>4

\* What is near its turn was not passed over for a whole round.
LEMMA RingStarvesNobody == IInv /\ RingOrder => NobodyStarves
  <1>. SUFFICES ASSUME IInv, RingOrder, NEW p \in InPool PROVE waited[p] < Size
    BY DEF NobodyStarves
  <1>1. Size \in Nat /\ p \in Proxy /\ waited[p] \in Nat
    BY PoolHasSlots DEF IInv, TypeOK, InPool, Size
  <1>2. PICK k \in 0 .. Size - 1 : waited[p] + k < Size
    BY DEF RingOrder
  <1>3. QED
    BY <1>1, <1>2

-----------------------------------------------------------------------------
(* The clock.                                                              *)

\* Moments of one window that are at least an interval apart are few: the intervals
\* that begin at them do not meet, and all of them end within the window.
LEMMA IntervalsFit ==
  ASSUME NEW S, IsFiniteSet(S), S # {}, NEW f \in [S -> Nat],
         NEW width \in Nat, NEW window \in Nat, NEW t \in Nat,
         \A p \in S : t < f[p] + window /\ f[p] + width <= t,
         \A p, q \in S : p # q => f[p] + width <= f[q] \/ f[q] + width <= f[p]
  PROVE  Cardinality(S) * width < window
  <1>. DEFINE D == S \X (0 .. width - 1)
              R == t - window + 1 .. t - 1
              g == [x \in D |-> f[x[1]] + x[2]]
  <1>1. Cardinality(S) \in Nat
    BY FS_CardinalityType
  <1>2. width < window
    <2>1. PICK p \in S : TRUE
      OBVIOUS
    <2>2. f[p] \in Nat /\ t < f[p] + window /\ f[p] + width <= t
      OBVIOUS
    <2>3. QED
      BY <2>2
  <1>3. IsFiniteSet(R) /\ Cardinality(R) = window - 1
    <2>1. t - window + 1 \in Int /\ t - 1 \in Int
      OBVIOUS
    <2>2. IsFiniteSet(R) /\ Cardinality(R) =
            IF t - window + 1 > t - 1 THEN 0 ELSE t - 1 - (t - window + 1) + 1
      BY <2>1, FS_Interval
    <2>3. QED
      BY <1>2, <2>2
  <1>4. IsFiniteSet(D) /\ Cardinality(D) = Cardinality(S) * width
    <2>1. 0 \in Int /\ width - 1 \in Int
      OBVIOUS
    <2>2. IsFiniteSet(0 .. width - 1) /\ Cardinality(0 .. width - 1) =
            IF 0 > width - 1 THEN 0 ELSE width - 1 - 0 + 1
      BY <2>1, FS_Interval
    <2>3. Cardinality(0 .. width - 1) = width
      BY <2>2
    <2>4. QED
      BY <2>2, <2>3, FS_Product
  <1>5. \A p \in S, i \in 0 .. width - 1 : f[p] + i \in R
    <2>1. SUFFICES ASSUME NEW p \in S, NEW i \in 0 .. width - 1 PROVE f[p] + i \in R
      OBVIOUS
    <2>2. f[p] \in Nat /\ t < f[p] + window /\ f[p] + width <= t
      OBVIOUS
    <2>3. QED
      BY <2>2
  <1>6. \A p, q \in S, i, j \in 0 .. width - 1 : f[p] + i = f[q] + j => p = q /\ i = j
    <2>1. SUFFICES ASSUME NEW p \in S, NEW q \in S,
                          NEW i \in 0 .. width - 1, NEW j \in 0 .. width - 1,
                          f[p] + i = f[q] + j
                   PROVE  p = q /\ i = j
      OBVIOUS
    <2>2. f[p] \in Nat /\ f[q] \in Nat
      OBVIOUS
    <2>3. p = q
      <3>1. ~(f[p] + width <= f[q] \/ f[q] + width <= f[p])
        BY <2>1, <2>2
      <3>2. QED
        BY <3>1
    <2>4. QED
      BY <2>1, <2>2, <2>3
  <1>7. g \in [D -> R] /\ \A x, y \in D : g[x] = g[y] => x = y
    <2>1. \A x \in D : x[1] \in S /\ x[2] \in 0 .. width - 1 /\ x = <<x[1], x[2]>>
      OBVIOUS
    <2>. HIDE DEF D, R
    <2>2. \A x \in D : g[x] = f[x[1]] + x[2]
      OBVIOUS
    <2>3. g \in [D -> R]
      BY <1>5, <2>1
    <2>. HIDE DEF g
    <2>4. ASSUME NEW x \in D, NEW y \in D, g[x] = g[y]
          PROVE  x = y
      <3>1. x[1] = y[1] /\ x[2] = y[2]
        BY <1>6, <2>1, <2>2, <2>4
      <3>2. QED
        BY <2>1, <3>1
    <2>5. QED
      BY <2>3, <2>4
  <1>8. Cardinality(D) <= Cardinality(R)
    <2>1. g \in Injection(D, R)
      BY <1>7, Fun_IsInj
    <2>2. QED
      BY <1>3, <2>1, FS_Injection
  <1>. HIDE DEF D, R
  <1>9. Cardinality(S) * width <= window - 1
    BY <1>3, <1>4, <1>8
  <1>. DEFINE product == Cardinality(S) * width
  <1>10. product \in Nat /\ product <= window - 1
    BY <1>1, <1>9
  <1>. HIDE DEF product
  <1>11. product < window
    BY <1>10
  <1>12. QED
    BY <1>11 DEF product

\* The proxies of a pool are some, and finitely many.
LEMMA PoolIsFinite ==
  ASSUME proxies \in Pools
  PROVE  InPool \subseteq Proxy /\ InPool # {} /\ IsFiniteSet(InPool)
  <1>. DEFINE line == [j \in 1 .. Size |-> proxies[j]]
  <1>1. /\ Size \in Nat /\ Size > 0 /\ DOMAIN proxies = 1 .. Size
        /\ \A j \in 1 .. Size : proxies[j] \in Proxy
    BY PoolHasSlots DEF Size
  <1>2. InPool \subseteq Proxy /\ proxies[1] \in InPool
    BY <1>1 DEF InPool
  <1>3. line \in Surjection(1 .. Size, InPool)
    <2>1. line \in [1 .. Size -> InPool] /\ \A p \in InPool : \E j \in 1 .. Size : line[j] = p
      BY <1>1 DEF InPool
    <2>2. QED
      BY <2>1, Fun_IsSurj
  <1>4. IsFiniteSet(1 .. Size)
    BY <1>1, FS_Interval
  <1>5. IsFiniteSet(InPool)
    BY <1>3, <1>4, FS_Surjection
  <1>6. QED
    BY <1>2, <1>5

\* A scan that finds nothing has looked at every proxy of the pool, and so failures
\* of all of them fit into one quarantine.
LEMMA StarvesOnlySmallPools ==
  ASSUME IInv, FailuresAreSpaced, PollStarves
  PROVE  Cardinality(InPool) * Interval < Quarantine
  <1>. DEFINE failed == [p \in InPool |-> lastFailed[p]]
  <1>1. /\ Size \in Nat /\ Size > 0 /\ DOMAIN proxies = 1 .. Size
        /\ \A j \in 1 .. Size : proxies[j] \in Proxy
        /\ index \in 0 .. Size - 1 /\ now \in Nat
        /\ Interval \in Nat /\ Quarantine \in Nat
    BY PoolHasSlots, PoolAssumption DEF IInv, TypeOK, Time, Size
  <1>2. \A p \in InPool : p \in Held
    <2>1. SUFFICES ASSUME NEW j \in 1 .. Size PROVE proxies[j] \in Held
      BY <1>1 DEF InPool
    <2>2. j - 1 \in 0 .. Size - 1
      BY <1>1
    <2>3. \A i \in 0 .. Size - 1 : \E k \in 0 .. Size - 1 : (index + k) % Size = i
      BY <1>1, RingOrderIsTotal
    <2>4. PICK k \in 0 .. Size - 1 : (index + k) % Size = j - 1
      BY <2>2, <2>3
    <2>5. Turn(k) + 1 = j
      BY <2>4 DEF Turn
    <2>6. QED
      BY <2>5 DEF PollStarves, FreeAfter
  <1>3. InPool \subseteq Proxy /\ InPool # {} /\ IsFiniteSet(InPool)
    BY PoolIsFinite DEF IInv, TypeOK
  <1>4. \A p \in InPool : lastFailed[p] # None /\ quarantined[p] = lastFailed[p] + Quarantine
                          /\ now < quarantined[p] /\ lastFailed[p] + Interval <= wake
    BY <1>2, <1>3 DEF FailuresAreSpaced, Held
  <1>5. wake <= now /\ wake \in Nat
    BY PoolAssumption DEF PollStarves, Due, FailuresAreSpaced, IInv, TypeOK
  <1>6. \A p \in InPool : lastFailed[p] \in Nat
    BY <1>3, <1>4, PoolAssumption DEF IInv, TypeOK, Time
  <1>7. \A p \in InPool : now < failed[p] + Quarantine /\ failed[p] + Interval <= now
    <2>1. SUFFICES ASSUME NEW p \in InPool
                   PROVE  now < lastFailed[p] + Quarantine /\ lastFailed[p] + Interval <= now
      OBVIOUS
    <2>2. lastFailed[p] \in Nat /\ now < lastFailed[p] + Quarantine
          /\ lastFailed[p] + Interval <= wake
      BY <1>4, <1>6
    <2>3. QED
      BY <1>1, <1>5, <2>2
  <1>8. \A p, q \in InPool : p # q =>
          failed[p] + Interval <= failed[q] \/ failed[q] + Interval <= failed[p]
    BY <1>3, <1>4 DEF FailuresAreSpaced
  <1>9. failed \in [InPool -> Nat]
    BY <1>6
  <1>. HIDE DEF failed
  <1>10. QED
    BY <1>1, <1>3, <1>7, <1>8, <1>9, IntervalsFit

\* A step that marks no failure, and does not bring the end of the sleep forward.
LEMMA NoFailureMarked ==
  ASSUME IInv, FailuresAreSpaced,
         quarantined' \in {quarantined, Swept}, lastFailed' = lastFailed,
         NEW w \in Nat, wake <= w, wake' = w,
         loop' = "polling" => w <= now'
  PROVE  FailuresAreSpaced'
  <1>1. wake \in Nat /\ Interval \in Nat
        /\ \A p \in Proxy : lastFailed[p] # None => lastFailed[p] \in Nat
    BY PoolAssumption DEF IInv, TypeOK, Time
  <1>2. \A p \in Proxy : quarantined'[p] # None => quarantined'[p] = quarantined[p]
    BY DEF Swept
  <1>3. \A p \in Proxy : quarantined'[p] # None =>
          lastFailed[p] # None /\ quarantined'[p] = lastFailed[p] + Quarantine
    BY <1>2 DEF FailuresAreSpaced
  <1>4. ASSUME NEW p \in Proxy, lastFailed[p] # None
        PROVE  lastFailed[p] + Interval <= w
    <2>1. lastFailed[p] + Interval <= wake
      BY <1>4 DEF FailuresAreSpaced
    <2>2. QED
      BY <1>1, <1>4, <2>1
  <1>5. QED
    BY <1>3, <1>4 DEF FailuresAreSpaced

\* A failure is marked no sooner than the sleep after the one before was over.
LEMMA FailureMarked ==
  ASSUME IInv, FailuresAreSpaced, PollFails
  PROVE  FailuresAreSpaced'
  <1>1. Due /\ GetProxy
    BY DEF PollFails
  <1>2. PICK d \in 0 .. MaxRequest :
          /\ now' = now + d
          /\ quarantined' = [Swept EXCEPT ![Pick] = now + d + Quarantine]
          /\ lastFailed' = [lastFailed EXCEPT ![Pick] = now + d]
    BY DEF PollFails
  <1>. DEFINE t == now + d
  <1>3. t \in Nat /\ now <= t /\ now \in Nat /\ wake \in Nat /\ Interval \in Nat
    BY <1>1, PollTakesTime, PoolAssumption DEF IInv, TypeOK, Time
  <1>4. /\ quarantined' = [Swept EXCEPT ![Pick] = t + Quarantine]
        /\ lastFailed' = [lastFailed EXCEPT ![Pick] = t]
        /\ loop' = "sleeping" /\ wake' = t + Interval
    BY <1>2 DEF PollFails, Sleep
  <1>. HIDE DEF t
  <1>5. /\ Pick \in Proxy
        /\ lastFailed \in [Proxy -> Time \cup {None}]
        /\ Swept \in [Proxy -> 0 .. MaxNow + Quarantine \cup {None}]
    BY <1>1, Handout, SweepKeepsType DEF IInv, TypeOK
  <1>6. /\ lastFailed'[Pick] = t /\ quarantined'[Pick] = t + Quarantine
        /\ \A p \in Proxy \ {Pick} :
             lastFailed'[p] = lastFailed[p] /\ quarantined'[p] = Swept[p]
    BY <1>4, <1>5
  <1>7. wake <= t
    <2>1. wake <= now
      BY <1>1 DEF Due, FailuresAreSpaced
    <2>2. QED
      BY <1>3, <2>1
  <1>8. \A p \in Proxy : lastFailed[p] # None => lastFailed[p] + Interval <= t
    <2>1. SUFFICES ASSUME NEW p \in Proxy, lastFailed[p] # None
                   PROVE  lastFailed[p] + Interval <= t
      OBVIOUS
    <2>2. lastFailed[p] \in Nat
      BY <1>5, <2>1 DEF Time
    <2>3. lastFailed[p] + Interval <= wake
      BY <2>1 DEF FailuresAreSpaced
    <2>4. QED
      BY <1>3, <1>7, <2>2, <2>3
  <1>9. t # None /\ t + Interval <= t + Interval
    BY <1>3, PoolAssumption
  <1>10. ASSUME NEW p \in Proxy, quarantined'[p] # None
         PROVE  lastFailed'[p] # None /\ quarantined'[p] = lastFailed'[p] + Quarantine
    <2>1. CASE p = Pick
      BY <1>6, <1>9, <2>1
    <2>2. CASE p # Pick
      BY <1>6, <1>10, <2>2 DEF Swept, FailuresAreSpaced
    <2>3. QED
      BY <2>1, <2>2
  <1>11. ASSUME NEW p \in Proxy, lastFailed'[p] # None
         PROVE  lastFailed'[p] + Interval <= t + Interval
    <2>1. CASE p = Pick
      BY <1>6, <1>9, <2>1
    <2>2. CASE p # Pick
      <3>1. lastFailed'[p] = lastFailed[p] /\ lastFailed[p] \in Nat
            /\ lastFailed[p] + Interval <= t
        BY <1>5, <1>6, <1>8, <1>11, <2>2 DEF Time
      <3>2. QED
        BY <1>3, <3>1
    <2>3. QED
      BY <2>1, <2>2
  <1>12. ASSUME NEW p \in Proxy, NEW q \in Proxy, p # q,
                lastFailed'[p] # None, lastFailed'[q] # None
         PROVE  \/ lastFailed'[p] + Interval <= lastFailed'[q]
                \/ lastFailed'[q] + Interval <= lastFailed'[p]
    <2>1. CASE p = Pick \/ q = Pick
      BY <1>6, <1>8, <1>12, <2>1
    <2>2. CASE p # Pick /\ q # Pick
      BY <1>6, <1>12, <2>2 DEF FailuresAreSpaced
    <2>3. QED
      BY <2>1, <2>2
  <1>13. QED
    BY <1>4, <1>10, <1>11, <1>12 DEF FailuresAreSpaced

LEMMA PoolInvInit == Init => PoolInv
  <1>. SUFFICES ASSUME Init PROVE PoolInv
    OBVIOUS
  <1>1. IInv /\ RingOrder
    BY InitEstablishes, RingInit
  <1>2. FailuresAreSpaced
    BY DEF Init, FailuresAreSpaced
  <1>3. PoolOutlastsQuarantine
    BY DEF Init, PoolOutlastsQuarantine
  <1>4. QED
    BY <1>1, <1>2, <1>3 DEF PoolInv

\* A step that hands nothing out leaves the ring as it is.
LEMMA RingRests ==
  ASSUME RingOrder, UNCHANGED <<proxies, index, waited>>
  PROVE  RingOrder'
  BY DEF RingOrder, InPool, Turn, Size

LEMMA PoolInvPreserved == PoolInv /\ [Next]_vars => PoolInv'
  <1>. SUFFICES ASSUME PoolInv, [Next]_vars PROVE PoolInv'
    OBVIOUS
  <1>1. IInv /\ RingOrder /\ FailuresAreSpaced /\ PoolOutlastsQuarantine
    BY DEF PoolInv
  <1>2. IInv'
    BY <1>1, NextPreserves
  <1>3. wake \in Nat /\ wake <= wake /\ Interval \in Nat /\ now \in Nat
    BY <1>1, PoolAssumption DEF IInv, TypeOK, Time
  <1>4. RingOrder'
    <2>1. CASE GetProxy
      BY <1>1, <2>1, RingTurns
    <2>2. CASE UNCHANGED <<proxies, index, waited>>
      BY <1>1, <2>2, RingRests
    <2>3. QED
      BY <2>1, <2>2
         DEF Next, PollAnswered, PollFails, PollBreaks, PollStarves, Wake, Tick, vars, poolVars
  <1>5. FailuresAreSpaced'
    <2>1. CASE PollAnswered
      <3>1. PICK d \in 0 .. MaxRequest : now' = now + d
        BY <2>1 DEF PollAnswered
      <3>2. now + d \in Nat /\ now <= now + d
        BY <1>1, <2>1, PollTakesTime DEF PollAnswered
      <3>3. wake <= now
        BY <1>1, <2>1 DEF PollAnswered, Due, FailuresAreSpaced
      <3>4. now + d + Interval \in Nat /\ wake <= now + d + Interval
        BY <1>3, <3>2, <3>3
      <3>5. /\ wake' = now + d + Interval /\ loop' = "sleeping"
            /\ quarantined' = Swept /\ lastFailed' = lastFailed
        BY <2>1, <3>1 DEF PollAnswered, Sleep
      <3>6. QED
        BY <1>1, <3>4, <3>5, NoFailureMarked
    <2>2. CASE PollFails
      BY <1>1, <2>2, FailureMarked
    <2>3. CASE PollBreaks \/ PollStarves
      BY <1>1, <1>3, <2>3, NoFailureMarked DEF PollBreaks, PollStarves
    <2>4. CASE Wake
      BY <1>1, <1>3, <2>4, NoFailureMarked DEF Wake, poolVars
    <2>5. CASE Tick
      BY <1>1, <1>3, <2>5, NoFailureMarked DEF Tick, poolVars
    <2>6. CASE UNCHANGED vars
      BY <1>1, <2>6 DEF FailuresAreSpaced, vars, poolVars
    <2>7. QED
      BY <2>1, <2>2, <2>3, <2>4, <2>5, <2>6 DEF Next
  <1>6. PoolOutlastsQuarantine'
    <2>1. InPool' = InPool
      BY DEF Next, PollAnswered, PollFails, PollBreaks, PollStarves, Wake, Tick, GetProxy,
             vars, poolVars, InPool
    <2>2. CASE PollStarves
      <3>1. Cardinality(InPool) * Interval < Quarantine
        BY <1>1, <2>2, StarvesOnlySmallPools
      <3>2. Cardinality(InPool) * Interval \in Nat /\ Quarantine \in Nat
        BY <1>1, PoolIsFinite, FS_CardinalityType, PoolAssumption DEF IInv, TypeOK
      <3>. DEFINE product == Cardinality(InPool) * Interval
      <3>3. product < Quarantine /\ product \in Nat
        BY <3>1, <3>2
      <3>. HIDE DEF product
      <3>4. ~(product >= Quarantine)
        BY <3>2, <3>3
      <3>5. QED
        BY <2>1, <3>4 DEF PoolOutlastsQuarantine, product
    <2>3. CASE ~PollStarves
      <3>1. loop' = "starved" => loop = "starved"
        BY <2>3 DEF Next, PollAnswered, PollFails, PollBreaks, Wake, Tick, Sleep, vars, poolVars
      <3>2. QED
        BY <1>1, <2>1, <3>1, Zenon DEF PoolOutlastsQuarantine
    <2>4. QED
      BY <2>2, <2>3
  <1>7. QED
    BY <1>1, <1>2, <1>4, <1>5, <1>6 DEF PoolInv

LEMMA PoolInvariance == Spec => []PoolInv
  BY PoolInvInit, PoolInvPreserved, PTL DEF Spec

-----------------------------------------------------------------------------
(* The theorems.                                                           *)

\* Every variable of the pool and the loop keeps its type; the index of the
\* round robin in particular never leaves the pool (get_proxy).
THEOREM TypeCorrect == Spec => []TypeOK
  <1>1. IInv => TypeOK
    BY DEF IInv
  <1>2. QED
    BY <1>1, Invariance, PTL

\* For any pool, interval and quarantine, a proxy that failed is handed out no
\* sooner than its quarantine is over (mark_failed, get_proxy).
THEOREM FailedProxiesRest == Spec => []QuarantineHolds
  <1>1. IInv => QuarantineHolds
    BY DEF IInv
  <1>2. QED
    BY <1>1, Invariance, PTL

\* available_count tells, for any table and any moment, how many slots get_proxy would
\* stop at, entries that expired and were not dropped yet included.
THEOREM CountIsHonest == Spec => []AvailableIsHonest
  <1>1. IInv => AvailableIsHonest
    BY CountIsTheScans
  <1>2. QED
    BY <1>1, Invariance, PTL

\* In a pool of any size, with any lines repeated, a proxy that stays available is
\* handed out before every slot was passed (get_proxy's round robin).
THEOREM EveryProxyHasItsTurn == Spec => []NobodyStarves
  <1>1. PoolInv => NobodyStarves
    BY RingStarvesNobody DEF PoolInv
  <1>2. QED
    BY <1>1, PoolInvariance, PTL

\* For any interval and quarantine, a pool with a proxy for each poll of a quarantine
\* never leaves the loop without one, whatever requests fail (mark_failed, and the sleep
\* that follows a failed poll too).
THEOREM LargePoolsNeverStarve == Spec => []PoolOutlastsQuarantine
  <1>1. PoolInv => PoolOutlastsQuarantine
    BY DEF PoolInv
  <1>2. QED
    BY <1>1, PoolInvariance, PTL
=============================================================================
