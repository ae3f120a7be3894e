--------------------------- MODULE MCAutobuyRails ---------------------------
(* Small instances of AutobuyRails. *)
EXTENDS AutobuyRails, TLC

CONSTANTS k1, k2, k3,       \* listings
          a, a2, b, c, low  \* candidates; a and a2 are one listing, repriced

MCKeyOf == (a :> k1) @@ (a2 :> k1) @@ (b :> k2) @@ (c :> k3) @@ (low :> k3)
MCPrice == (a :> 3) @@ (a2 :> 1) @@ (b :> 2) @@ (c :> 1) @@ (low :> 1)
MCTotal == (a :> 4) @@ (a2 :> 0) @@ (b :> None) @@ (c :> 2) @@ (low :> None)
MCConfidence == (a :> 9) @@ (a2 :> 9) @@ (b :> 6) @@ (c :> 7) @@ (low :> 5)
MCVelocity == (a :> TRUE) @@ (a2 :> TRUE) @@ (b :> TRUE) @@ (c :> TRUE) @@ (low :> FALSE)

\* Every ranked batch of at most MaxBatch candidates, repetitions included.
MaxBatch == 3
MCBatches == UNION {[1 .. n -> Candidate] : n \in 0 .. MaxBatch}
=============================================================================
