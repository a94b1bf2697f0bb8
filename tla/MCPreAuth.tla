------------------------------ MODULE MCPreAuth ------------------------------
(* A small instance of PreAuth for TLC. *)
EXTENDS PreAuth, TLC

CONSTANTS a, b, c1, c2

Servers == {a, b}
Queries == {c1, c2}

Interchangeable == Permutations(Servers) \cup Permutations(Queries)
=============================================================================
