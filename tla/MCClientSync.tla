---------------------------- MODULE MCClientSync ----------------------------
(* A small instance of ClientSync for TLC: one row, which may move to the    *)
(* other server, to no server, be stopped, or change its PROXY setting.      *)
EXTENDS ClientSync

CONSTANT row1

On(s, p) == [sid |-> s, pp |-> p, online |-> TRUE]
Places == {On(1, FALSE), On(1, TRUE), On(2, FALSE), On(None, FALSE),
           [On(1, FALSE) EXCEPT !.online = FALSE]}
OnFirst == {On(1, FALSE)}
(* A client that hangs for good is not followed any further. *)
Works == ~kept
=============================================================================
