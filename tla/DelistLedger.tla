---------------------------- MODULE DelistLedger ----------------------------
(***************************************************************************)
(* What the cross-venue register promises, and nothing of how: which of    *)
(* our listings the venues still sell, which of them the register knows    *)
(* about, which sales it has learnt of and which take-downs it believes.   *)
(* Requests, sessions, workers, retries and crashes are all absent, so     *)
(* CrossVenue, which has them, must show that they are stuttering.         *)
(***************************************************************************)
CONSTANT Listing            \* our listings, on every venue

VARIABLES market,           \* what a buyer sees of each listing
          tracked,          \* listings with a row in own_listings
          known,            \* listings whose sale is recorded
          confirmed         \* listings recorded as taken down

ledgerVars == <<market, tracked, known, confirmed>>

MarketState == {"unpublished", "live", "sold", "down"}

\* A listing in one of these states can never be bought again.
Gone == {"sold", "down"}

Init ==
  /\ market = [l \in Listing |-> "unpublished"]
  /\ tracked = {} /\ known = {} /\ confirmed = {}

Goes(l, from, to) ==
  /\ market[l] = from
  /\ market' = [market EXCEPT ![l] = to]
  /\ UNCHANGED <<tracked, known, confirmed>>

Track(l) ==
  /\ tracked' = tracked \cup {l}
  /\ UNCHANGED <<market, known, confirmed>>

\* Only a sale that happened is ever recorded.
LearnSale(l) ==
  /\ l \in tracked /\ market[l] = "sold"
  /\ known' = known \cup {l}
  /\ UNCHANGED <<market, tracked, confirmed>>

\* Only a listing nobody can buy any more is ever recorded as down.
Confirm(l) ==
  /\ l \in tracked /\ market[l] \in Gone
  /\ confirmed' = confirmed \cup {l}
  /\ UNCHANGED <<market, tracked, known>>

Next ==
  \E l \in Listing :
    \/ Goes(l, "unpublished", "live")
    \/ Goes(l, "live", "sold")
    \/ Goes(l, "live", "down")
    \/ Track(l)
    \/ LearnSale(l)
    \/ Confirm(l)

Spec == Init /\ [][Next]_ledgerVars
=============================================================================
