--------------------------- MODULE MCClientStreams ---------------------------
(* A small instance of ClientStreams for TLC.                                *)
EXTENDS ClientStreams
CONSTANTS s1, s2
OnlyOnTcp == [i \in Stream |-> IF i \in Udp THEN 0 ELSE 2]
=============================================================================
