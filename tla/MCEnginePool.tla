---------------------------- MODULE MCEnginePool ----------------------------
(* Small instances of EnginePool. *)
EXTENDS EnginePool, TLC

CONSTANT MaxSize   \* the longest proxy file

\* Every file of at most MaxSize lines, repeated lines included.
MCPools == UNION {[1 .. n -> Proxy] : n \in 1 .. MaxSize}

Symmetry == Permutations(Proxy)
=============================================================================
