----------------------------- MODULE MonitorRun -----------------------------
(***************************************************************************)
(* Scans and monitor runs (src/arb/cli.py, scan and monitor_run; pipeline,  *)
(* comps/service, comps/cache, monitor): processes that search Vinted,     *)
(* price what they find against comps from the cache or the SoldComps API, *)
(* and write listings, payloads and a heartbeat to one SQLite database.    *)
(*                                                                         *)
(* A run has one session from its first query to its commit. Its first     *)
(* INSERT takes SQLite's write lock, which it holds until it commits or    *)
(* rolls back; a run that meets the lock waits for a few seconds and then  *)
(* fails with an OperationalError. Reads are never blocked (WAL) and see   *)
(* what is committed and what their own session has flushed.               *)
(***************************************************************************)
EXTENDS Naturals, FiniteSets

CONSTANTS
  Run,       \* executions of `arb scan` and `arb monitor run`
  Monitor,   \* those of `arb monitor run`
  Listing,   \* external ids on Vinted
  Query,     \* comp queries
  QueryOf,   \* query_for each listing
  Quota,     \* requests the comps API allows in a month
  None

ASSUME RunAssumption ==
  /\ Monitor \subseteq Run
  /\ QueryOf \in [Listing -> Query]
  /\ Quota \in Nat
  /\ None \notin Run \cup Listing \cup {"ok", "failed"}

VARIABLES
  listings,   \* external ids in the listings table
  payloads,   \* rows of comps_cache per query
  fresh,      \* queries with a row inside the freshness window
  beats,      \* the monitor_runs row of each run, None when there is none
  writer,     \* the run that holds the write lock
  quota,      \* requests left this month
  run,        \* the runs
  calls,      \* history: payloads each run got from the API, per query
  alerted     \* history: what each run notified about

dbVars == <<listings, payloads, fresh, beats>>
vars == <<dbVars, writer, quota, run, calls, alerted>>

\* Where a run stands. "ended" is a process that exited, "crashed" one that died.
Step == {"waiting", "searching", "pricing", "appending", "failing", "alerting",
         "ended", "crashed"}
Over == {"ended", "crashed"}

RunRecord ==
  [step      : Step,
   known     : SUBSET Listing,        \* known_external_ids, read first
   todo      : SUBSET Listing,        \* listings not yet looked at
   at        : Listing \cup {None},   \* the listing whose payload is in hand
   ranked    : SUBSET Listing,        \* what ranked so far
   got       : SUBSET Query,          \* queries with a payload flushed, uncommitted
   exhausted : BOOLEAN,               \* CompsResult.quota_exhausted
   stored    : BOOLEAN,               \* history: its commit went through
   after     : SUBSET Run]            \* history: runs over before this one began

NewRun == [step |-> "waiting", known |-> {}, todo |-> {}, at |-> None, ranked |-> {},
           got |-> {}, exhausted |-> FALSE, stored |-> FALSE, after |-> {}]

Init ==
  /\ listings = {} /\ fresh = {}
  /\ payloads = [q \in Query |-> 0]
  /\ beats = [r \in Run |-> None]
  /\ writer = None /\ quota = Quota
  /\ run = [r \in Run |-> NewRun]
  /\ calls = [r \in Run |-> [q \in Query |-> 0]]
  /\ alerted = [r \in Run |-> {}]

-----------------------------------------------------------------------------
IsAt(r, step) == run[r].step = step

\* The lock is free for r, or r has it.
MayWrite(r) == writer \in {None, r}

\* Commit and rollback give the lock back.
Released(r) == IF writer = r THEN None ELSE writer

\* The session of r rolls back and the process exits.
Exits(r) ==
  /\ run' = [run EXCEPT ![r] = [run[r] EXCEPT !.step = "ended"]]
  /\ writer' = Released(r)

\* The session of r rolls back on an error that monitor_run catches, and the
\* failure path opens a new session. `arb scan` catches nothing.
Fails(r) ==
  /\ run' = [run EXCEPT ![r] =
               [run[r] EXCEPT !.step = IF r \in Monitor THEN "failing" ELSE "ended",
                              !.got = {}]]
  /\ writer' = Released(r)

-----------------------------------------------------------------------------
(* The scan.                                                               *)

\* A run begins; a monitor reads the seen set before anything else.
Start(r) ==
  /\ IsAt(r, "waiting")
  /\ run' = [run EXCEPT ![r] =
               [NewRun EXCEPT !.step = "searching",
                              !.known = IF r \in Monitor THEN listings ELSE {},
                              !.after = {x \in Run : run[x].step \in Over}]]
  /\ UNCHANGED <<dbVars, writer, quota, calls, alerted>>

\* VintedBuyVenue.search: whatever the market holds.
Search(r) ==
  /\ IsAt(r, "searching")
  /\ \E found \in SUBSET Listing :
       run' = [run EXCEPT ![r] = [run[r] EXCEPT !.step = "pricing", !.todo = found]]
  /\ UNCHANGED <<dbVars, writer, quota, calls, alerted>>

\* The search fails: with an error monitor_run catches (OSError, ValueError) or not.
SearchFails(r) ==
  /\ IsAt(r, "searching")
  /\ Fails(r) \/ Exits(r)
  /\ UNCHANGED <<dbVars, quota, calls, alerted>>

\* The listing is dropped: the quality or the contest gate, no valuation, or rank.
Passed(r, l) ==
  run' = [run EXCEPT ![r] = [run[r] EXCEPT !.todo = @ \ {l}]]

Reject(r, l) ==
  /\ IsAt(r, "pricing") /\ l \in run[r].todo
  /\ Passed(r, l)
  /\ UNCHANGED <<dbVars, writer, quota, calls, alerted>>

\* Mutant: the cache is asked in a session of its own.
CachedByOthers(r, q) == q \in fresh

\* fresh_payloads: what is committed and what this session flushed.
Cached(r, q) == q \in fresh \cup run[r].got

\* Comps in hand, the listing ranks or it does not.
Judged(r, l) ==
  \E worth \in BOOLEAN :
    run' = [run EXCEPT ![r] =
              [run[r] EXCEPT !.step = "pricing", !.todo = @ \ {l}, !.at = None,
                             !.ranked = IF worth THEN @ \cup {l} ELSE @,
                             !.got = IF run[r].at = l THEN @ \cup {QueryOf[l]} ELSE @]]

\* comps_for, cache hit. A payload that was committed has been parsed before.
PriceFromCache(r, l) ==
  /\ IsAt(r, "pricing") /\ l \in run[r].todo
  /\ Cached(r, QueryOf[l])
  /\ Judged(r, l)
  /\ UNCHANGED <<dbVars, writer, quota, calls, alerted>>

\* comps_for, once the quota is known to be gone: no comps, no valuation.
SkipExhausted(r, l) ==
  /\ IsAt(r, "pricing") /\ l \in run[r].todo
  /\ ~Cached(r, QueryOf[l]) /\ run[r].exhausted
  /\ Passed(r, l)
  /\ UNCHANGED <<dbVars, writer, quota, calls, alerted>>

Asks(r, l) ==
  /\ IsAt(r, "pricing") /\ l \in run[r].todo
  /\ ~Cached(r, QueryOf[l]) /\ ~run[r].exhausted

\* The API says quota_exceeded: remembered, and the listing has no comps.
QuotaGone(r, l) ==
  /\ Asks(r, l) /\ quota = 0
  /\ run' = [run EXCEPT ![r] = [run[r] EXCEPT !.exhausted = TRUE, !.todo = @ \ {l}]]
  /\ UNCHANGED <<dbVars, writer, quota, calls, alerted>>

\* Mutant: a transient answer starts the run over, without limit.
FetchStartsOver(r, l) ==
  /\ Asks(r, l)
  /\ run' = [run EXCEPT ![r] = [run[r] EXCEPT !.step = "searching", !.todo = {}]]
  /\ UNCHANGED <<dbVars, writer, quota, calls, alerted>>

\* A rate limit, a SoldCompsError or a transport error: none is caught anywhere.
FetchEscapes(r, l) ==
  /\ Asks(r, l)
  /\ Exits(r)
  /\ UNCHANGED <<dbVars, quota, calls, alerted>>

\* A request is spent on a body that is no JSON (a ValueError).
FetchGarbage(r, l) ==
  /\ Asks(r, l) /\ quota > 0
  /\ quota' = quota - 1
  /\ Fails(r)
  /\ UNCHANGED <<dbVars, calls, alerted>>

Fetch(r, l) ==
  /\ Asks(r, l) /\ quota > 0
  /\ quota' = quota - 1
  /\ calls' = [calls EXCEPT ![r][QueryOf[l]] = @ + 1]
  /\ run' = [run EXCEPT ![r] = [run[r] EXCEPT !.step = "appending", !.at = l]]
  /\ UNCHANGED <<dbVars, writer, alerted>>

\* append_payload flushes the row, which takes the lock; then it is parsed.
Append(r) ==
  /\ IsAt(r, "appending") /\ MayWrite(r)
  /\ writer' = r
  /\ Judged(r, run[r].at)
  /\ UNCHANGED <<dbVars, quota, calls, alerted>>

\* Mutant: a payload that does not parse takes only its own row with it.
AppendSkipped(r) ==
  /\ IsAt(r, "appending") /\ MayWrite(r)
  /\ run' = [run EXCEPT ![r] = [run[r] EXCEPT !.step = "pricing", !.todo = @ \ {run[r].at},
                                              !.at = None]]
  /\ UNCHANGED <<dbVars, writer, quota, calls, alerted>>

\* The parser refuses the payload (a ValidationError is a ValueError).
AppendUnparsed(r) ==
  /\ IsAt(r, "appending") /\ MayWrite(r)
  /\ Fails(r)
  /\ UNCHANGED <<dbVars, quota, calls, alerted>>

-----------------------------------------------------------------------------
(* The end of a run.                                                       *)

\* Mutant: the seen set is read after the listings are written.
SeenTooLate(r) == run[r].known \cup run[r].ranked

\* Mutant: the seen set is never read.
SeenNever(r) == {}

\* known_external_ids as new_candidates gets it.
Seen(r) == run[r].known

Alerts(r) == run[r].ranked \ Seen(r)

\* upsert_listing of every ranked listing: a row of its own, or the row it has.
Upserted(r) == listings \cup run[r].ranked

\* Mutant: the heartbeat is left to a session that is never committed.
CommitSilently(r) ==
  /\ IsAt(r, "pricing") /\ run[r].todo = {} /\ MayWrite(r)
  /\ listings' = Upserted(r)
  /\ payloads' = [q \in Query |->
                    IF q \in run[r].got THEN payloads[q] + 1 ELSE payloads[q]]
  /\ fresh' = fresh \cup run[r].got
  /\ writer' = Released(r)
  /\ run' = [run EXCEPT ![r] =
               [run[r] EXCEPT !.step = IF r \in Monitor THEN "alerting" ELSE "ended",
                              !.stored = TRUE]]
  /\ UNCHANGED <<beats, quota, calls, alerted>>

\* The listings, the payloads and a monitor's heartbeat are committed together.
Commit(r) ==
  /\ IsAt(r, "pricing") /\ run[r].todo = {} /\ MayWrite(r)
  /\ listings' = Upserted(r)
  /\ payloads' = [q \in Query |->
                    IF q \in run[r].got THEN payloads[q] + 1 ELSE payloads[q]]
  /\ fresh' = fresh \cup run[r].got
  /\ beats' = IF r \in Monitor THEN [beats EXCEPT ![r] = "ok"] ELSE beats
  /\ writer' = Released(r)
  /\ run' = [run EXCEPT ![r] =
               [run[r] EXCEPT !.step = IF r \in Monitor THEN "alerting" ELSE "ended",
                              !.stored = TRUE]]
  /\ UNCHANGED <<quota, calls, alerted>>

\* The lock is not given up in time: "database is locked", an SQLAlchemyError.
LockTimeout(r) ==
  /\ ~MayWrite(r)
  /\ IsAt(r, "appending") \/ (IsAt(r, "pricing") /\ run[r].todo = {})
  /\ Fails(r)
  /\ UNCHANGED <<dbVars, quota, calls, alerted>>

\* The failure path commits a row that says so,
RecordFailure(r) ==
  /\ IsAt(r, "failing") /\ MayWrite(r)
  /\ beats' = [beats EXCEPT ![r] = "failed"]
  /\ Exits(r)
  /\ UNCHANGED <<listings, payloads, fresh, quota, calls, alerted>>

\* or meets the lock itself.
FailureLockTimeout(r) ==
  /\ IsAt(r, "failing") /\ ~MayWrite(r)
  /\ Exits(r)
  /\ UNCHANGED <<dbVars, quota, calls, alerted>>

\* _notify, which prints when it cannot send.
Notify(r) ==
  /\ IsAt(r, "alerting")
  /\ alerted' = [alerted EXCEPT ![r] = Alerts(r)]
  /\ Exits(r)
  /\ UNCHANGED <<dbVars, quota, calls>>

\* The process is killed: the session is gone and with it the lock.
Crash(r) ==
  /\ run[r].step \notin Over \cup {"waiting"}
  /\ run' = [run EXCEPT ![r] = [run[r] EXCEPT !.step = "crashed"]]
  /\ writer' = Released(r)
  /\ UNCHANGED <<dbVars, quota, calls, alerted>>

\* A cached payload leaves the freshness window.
Expire(q) ==
  /\ q \in fresh
  /\ fresh' = fresh \ {q}
  /\ UNCHANGED <<listings, payloads, beats, writer, quota, run, calls, alerted>>

NewMonth ==
  /\ quota # Quota
  /\ quota' = Quota
  /\ UNCHANGED <<dbVars, writer, run, calls, alerted>>

-----------------------------------------------------------------------------
\* What the process of a run does by itself.
Works(r) ==
  \/ Search(r) \/ SearchFails(r)
  \/ \E l \in Listing :
       \/ Reject(r, l) \/ PriceFromCache(r, l) \/ SkipExhausted(r, l)
       \/ QuotaGone(r, l) \/ FetchEscapes(r, l) \/ FetchGarbage(r, l) \/ Fetch(r, l)
  \/ Append(r) \/ AppendUnparsed(r)
  \/ Commit(r) \/ LockTimeout(r)
  \/ RecordFailure(r) \/ FailureLockTimeout(r)
  \/ Notify(r)

Next ==
  \/ \E r \in Run : Start(r) \/ Works(r) \/ Crash(r)
  \/ \E q \in Query : Expire(q)
  \/ NewMonth

\* A process that has begun goes on: a request to the comps API has a timeout (httpx,
\* 30 s) and so has its wait for the lock. The search goes through vinted-api-wrapper,
\* for which the repository sets none: that it returns is assumed of that library.
\* Nobody is obliged to start a run, nor does a crash, a new month or the age of a
\* payload have to come.
Spec == Init /\ [][Next]_vars
FairSpec == Spec /\ \A r \in Run : WF_vars(Works(r))

-----------------------------------------------------------------------------
(* Properties.                                                             *)

\* Every variable keeps its shape; only a run in progress holds the lock.
TypeOK ==
  /\ listings \subseteq Listing
  /\ payloads \in [Query -> Nat]
  /\ fresh \subseteq Query
  /\ beats \in [Run -> {None, "ok", "failed"}]
  /\ writer \in Run \cup {None}
  /\ writer # None => run[writer].step \in {"pricing", "appending"}
  /\ quota \in 0 .. Quota
  /\ run \in [Run -> RunRecord]
  /\ calls \in [Run -> [Query -> Nat]]
  /\ alerted \in [Run -> SUBSET Listing]

\* A listing enters the seen set only with an announcement: some run stored it
\* and notified, or is about to, or was killed just before; or it was a scan,
\* whose output is the buy list (monitor.py: "an item we have already considered
\* stays considered"). Overlapping runs lose nothing between them.
KnownWasAnnounced ==
  \A l \in listings : \E r \in Run :
    /\ run[r].stored /\ l \in run[r].ranked
    /\ \/ l \in alerted[r]
       \/ r \notin Monitor
       \/ IsAt(r, "alerting") /\ l \in Alerts(r)
       \/ IsAt(r, "crashed")

\* Two runs notify about one listing only if they overlapped: a listing alerted
\* on yesterday is not news today (MonitorReport.alerts).
RepeatsOverlapped ==
  \A r, x \in Run :
    r # x /\ alerted[r] \cap alerted[x] # {} => r \notin run[x].after /\ x \notin run[r].after

\* A run pays for a query once, whatever it lists under it and however often
\* (comps/service.py: "identical queries within a single run collapse onto the
\* first fetch").
PaidOncePerRun == \A r \in Run, q \in Query : calls[r][q] <= 1

\* What was paid for is kept by the run that commits and lost only with a run that does
\* not: of each query the cache has as many rows as runs that stored had paid for it
\* (comps/cache.py: "Append-only").
PaidIsKept ==
  \A q \in Query : payloads[q] = Cardinality({r \in Run : run[r].stored /\ calls[r][q] > 0})

\* A run that has begun comes to an end, whoever holds the lock and whatever the
\* API answers.
RunsEnd == \A r \in Run : (run[r].step = "searching") ~> (run[r].step \in Over)

\* Runs are atomic: what a run wrote and what it recorded appear together.
Atomic == INSTANCE AtomicRuns
ImplementsAtomicRuns == Atomic!Spec

\* MonitorRuns' docstring: "One row per monitor execution, written whether it
\* succeeded or failed." A process that was not killed leaves a row.
EveryRunLeavesARow == \A r \in Monitor : IsAt(r, "ended") => beats[r] # None
=============================================================================
