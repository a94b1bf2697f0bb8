--------------------------- MODULE MCServerTunnels ---------------------------
(* Small instances of ServerTunnels for TLC. *)
EXTENDS ServerTunnels, TLC

CONSTANTS s1, s2, p1

OneSession == {s1}
TwoSessions == {s1, s2}

Interchangeable == Permutations(TwoSessions)
=============================================================================
