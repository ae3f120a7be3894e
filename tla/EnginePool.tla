----------------------------- MODULE EnginePool -----------------------------
(***************************************************************************)
(* The engine's proxy pool (engine/proxy.py) under the polling loop that   *)
(* draws on it (engine/monitor.py, run_monitor_loop and poll_vinted).      *)
(*                                                                         *)
(* A poll has no await in it: get_proxy, the request and mark_failed follow *)
(* one another in one turn of the event loop, and only the sleep gives way. *)
(* So a poll is one action, which takes as long as its request does.       *)
(***************************************************************************)
EXTENDS Naturals, Sequences, FiniteSets

CONSTANTS
  Proxy,       \* proxy URLs
  Pools,       \* the proxy files that from_env may find, repetitions included
  Quarantine,  \* quarantine_seconds
  Interval,    \* poll_interval_seconds
  MaxRequest,  \* the longest a request takes
  MaxNow,      \* bound of the clock
  None

ASSUME PoolAssumption ==
  /\ Pools \subseteq Seq(Proxy) \ {<<>>}
  /\ Quarantine \in Nat /\ Interval \in Nat /\ MaxRequest \in Nat /\ MaxNow \in Nat
  /\ None \notin Nat

VARIABLES
  proxies,      \* _proxies
  index,        \* _index
  quarantined,  \* _quarantined: the expiry of each entry, None without one
  now,          \* time.monotonic()
  loop,         \* polling, sleeping, or how run_monitor_loop ended
  wake,         \* when the sleep is over
  lastFailed,   \* history: when each proxy last failed
  tookWhen,     \* history: for each proxy, when it was last handed out
  waited        \* history: handouts that passed over each available proxy in a row

poolVars == <<proxies, index, quarantined>>
vars == <<poolVars, now, loop, wake, lastFailed, tookWhen, waited>>

Init ==
  /\ proxies \in Pools
  /\ index = 0
  /\ quarantined = [p \in Proxy |-> None]
  /\ now = 0 /\ loop = "polling" /\ wake = 0
  /\ lastFailed = [p \in Proxy |-> None]
  /\ tookWhen = [p \in Proxy |-> None]
  /\ waited = [p \in Proxy |-> 0]

-----------------------------------------------------------------------------
(* The pool.                                                               *)

Size == Len(proxies)
InPool == {proxies[j] : j \in DOMAIN proxies}

\* Mutant: a quarantine ends a moment early.
HeldTooShort == {p \in Proxy : quarantined[p] # None /\ quarantined[p] > now + 1}

\* The entries get_proxy does not drop as expired.
Held == {p \in Proxy : quarantined[p] # None /\ quarantined[p] > now}

\* Mutant: the scan starts from the first proxy every time.
TurnFromTop(k) == k

\* The slot the scan of get_proxy looks at after k others.
Turn(k) == (index + k) % Size

\* How many slots the scan passes over before it finds one free.
FreeAfter == {k \in 0 .. Size - 1 : proxies[Turn(k) + 1] \notin Held}
Skips == CHOOSE k \in FreeAfter : \A j \in FreeAfter : k <= j
Pick == proxies[Turn(Skips) + 1]

\* Mutant: entries that expired, and that no get_proxy has dropped, still count.
AvailableWithStale == Cardinality({j \in DOMAIN proxies : quarantined[proxies[j]] = None})

\* How many of the pool's slots get_proxy would hand out (available_count).
AvailableCount ==
  Cardinality({j \in DOMAIN proxies :
                 quarantined[proxies[j]] = None \/ quarantined[proxies[j]] <= now})

\* Mutant: the index is not brought back to the start of the pool.
AdvanceUnwrapped == Turn(Skips) + 1

\* Where the scan stops: the slot after the one handed out.
Advance == (Turn(Skips) + 1) % Size

\* get_proxy finds a proxy: the pool moves on past it and forgets what expired.
GetProxy ==
  /\ FreeAfter # {}
  /\ index' = Advance
  /\ tookWhen' = [tookWhen EXCEPT ![Pick] = now]
  /\ waited' = [p \in Proxy |-> IF p = Pick \/ p \in Held THEN 0 ELSE waited[p] + 1]
  /\ UNCHANGED proxies

Swept == [p \in Proxy |-> IF p \in Held THEN quarantined[p] ELSE None]

-----------------------------------------------------------------------------
(* The loop.                                                               *)

Due == loop = "polling" /\ now + MaxRequest <= MaxNow

\* Mutant: a failed poll is tried again without the sleep.
SleepAfterSuccess(t, failed) ==
  IF failed THEN loop' = "polling" /\ wake' = wake
            ELSE loop' = "sleeping" /\ wake' = t + Interval

\* Every poll, whatever came of it, is followed by the sleep.
Sleep(t, failed) == loop' = "sleeping" /\ wake' = t + Interval

\* The request is answered with items, or with a body that is no JSON.
PollAnswered ==
  /\ Due /\ GetProxy
  /\ quarantined' = Swept
  /\ \E d \in 0 .. MaxRequest : now' = now + d
  /\ Sleep(now', FALSE)
  /\ UNCHANGED lastFailed

\* The request fails or is refused: mark_failed, and an empty list.
PollFails ==
  /\ Due /\ GetProxy
  /\ \E d \in 0 .. MaxRequest :
       /\ now' = now + d
       /\ quarantined' = [Swept EXCEPT ![Pick] = now + d + Quarantine]
       /\ lastFailed' = [lastFailed EXCEPT ![Pick] = now + d]
  /\ Sleep(now', TRUE)

\* An item with a price that is no number: the exception leaves poll_vinted.
PollBreaks ==
  /\ Due /\ GetProxy
  /\ quarantined' = Swept
  /\ \E d \in 0 .. MaxRequest : now' = now + d
  /\ loop' = "broken"
  /\ UNCHANGED <<wake, lastFailed>>

\* get_proxy finds none: its ProxyPoolError leaves poll_vinted and ends the loop.
PollStarves ==
  /\ Due /\ FreeAfter = {}
  /\ quarantined' = Swept
  /\ loop' = "starved"
  /\ UNCHANGED <<proxies, index, now, wake, lastFailed, tookWhen, waited>>

\* asyncio.sleep is over no sooner than it should be.
Wake ==
  /\ loop = "sleeping" /\ now >= wake
  /\ loop' = "polling"
  /\ UNCHANGED <<poolVars, now, wake, lastFailed, tookWhen, waited>>

Tick ==
  /\ loop = "sleeping" /\ now < MaxNow
  /\ now' = now + 1
  /\ UNCHANGED <<poolVars, loop, wake, lastFailed, tookWhen, waited>>

Next == PollAnswered \/ PollFails \/ PollBreaks \/ PollStarves \/ Wake \/ Tick

Spec == Init /\ [][Next]_vars

-----------------------------------------------------------------------------
(* Properties.                                                             *)

Time == 0 .. MaxNow

\* Every variable keeps its shape, and the index stays inside the pool.
TypeOK ==
  /\ proxies \in Pools
  /\ index \in 0 .. Size - 1
  /\ quarantined \in [Proxy -> 0 .. MaxNow + Quarantine \cup {None}]
  /\ now \in Time
  /\ loop \in {"polling", "sleeping", "starved", "broken"}
  /\ wake \in 0 .. MaxNow + Interval
  /\ lastFailed \in [Proxy -> Time \cup {None}]
  /\ tookWhen \in [Proxy -> Time \cup {None}]
  /\ waited \in [Proxy -> Nat]

\* available_count tells what get_proxy would do, though the one reads the
\* quarantine table as it is and the other drops what expired first.
AvailableIsHonest == AvailableCount = Cardinality(FreeAfter)

\* A proxy that failed rests for the whole of its quarantine, whatever was
\* handed out, failed and expired in the meantime (mark_failed).
QuarantineHolds ==
  \A p \in Proxy :
    lastFailed[p] # None /\ tookWhen[p] # None
      => tookWhen[p] <= lastFailed[p] \/ tookWhen[p] >= lastFailed[p] + Quarantine

\* Round robin starves nobody: a proxy that stays available is handed out before
\* every slot of the pool has been passed (ProxyPool: "a round-robin proxy pool").
NobodyStarves == \A p \in InPool : waited[p] < Size

\* A pool with a proxy for each poll of a quarantine never runs dry under one
\* loop, however often requests fail: the loop cannot be starved to its end.
PoolOutlastsQuarantine ==
  Cardinality(InPool) * Interval >= Quarantine => loop # "starved"
=============================================================================
