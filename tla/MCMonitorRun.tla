---------------------------- MODULE MCMonitorRun ----------------------------
(* Small instances of MonitorRun. *)
EXTENDS MonitorRun

CONSTANTS l1, l2, q1, m1, m2

\* Both listings share a query.
MCQueryOf == [l \in Listing |-> q1]
=============================================================================
