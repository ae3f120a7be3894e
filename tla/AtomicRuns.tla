----------------------------- MODULE AtomicRuns -----------------------------
(***************************************************************************)
(* What the database shows of the scans and monitor runs over it: a run    *)
(* takes effect in one piece (its listings, its comps payloads and its     *)
(* heartbeat together), or leaves a row that says it failed and nothing    *)
(* else, or leaves nothing at all. Sessions, locks, requests and crashes   *)
(* are absent, so MonitorRun, which has them, must show they are invisible.*)
(***************************************************************************)
EXTENDS Naturals

CONSTANTS Run, Monitor, Listing, Query, None

VARIABLES listings,   \* external ids in the listings table
          payloads,   \* rows of comps_cache per query
          beats       \* the monitor_runs row of each monitor run

atomicVars == <<listings, payloads, beats>>

Init ==
  /\ listings = {}
  /\ payloads = [q \in Query |-> 0]
  /\ beats = [r \in Run |-> None]

\* A run succeeds: all it found, and its row if it is a monitor's.
Complete(r, ls, qs) ==
  /\ beats[r] = None
  /\ listings' = listings \cup ls
  /\ payloads' = [q \in Query |-> IF q \in qs THEN payloads[q] + 1 ELSE payloads[q]]
  /\ beats' = IF r \in Monitor THEN [beats EXCEPT ![r] = "ok"] ELSE beats

\* A monitor run fails: its row, and nothing of what it found.
Fail(r) ==
  /\ r \in Monitor
  /\ beats[r] = None
  /\ beats' = [beats EXCEPT ![r] = "failed"]
  /\ UNCHANGED <<listings, payloads>>

Next ==
  \E r \in Run :
    \/ \E ls \in SUBSET Listing, qs \in SUBSET Query : Complete(r, ls, qs)
    \/ Fail(r)

Spec == Init /\ [][Next]_atomicVars
=============================================================================
