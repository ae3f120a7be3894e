---------------------------- MODULE MCCrossVenue ----------------------------
(* Small instances of CrossVenue. *)
EXTENDS CrossVenue, TLC

CONSTANTS i1, v1, v2, l1, l2

\* One item on two venues.
MCItemOf == [l \in Listing |-> i1]
MCVenueOf == [l \in Listing |-> IF l = l1 THEN v1 ELSE v2]

\* The two listings may trade places with their venues.
Swap == [x \in {l1, l2, v1, v2} |->
           CASE x = l1 -> l2 [] x = l2 -> l1 [] x = v1 -> v2 [] x = v2 -> v1]

Symmetry == Permutations(Session) \cup Permutations(Worker) \cup {Swap}
=============================================================================
