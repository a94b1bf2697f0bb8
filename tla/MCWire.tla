-------------------------------- MODULE MCWire --------------------------------
(* A small instance of Wire for TLC: frames of every encoding, with empty   *)
(* parts, a number that needs every byte, and all kinds of player address.  *)
EXTENDS Wire

V4 == [family |-> 4, port |-> 50000, ip |-> <<203, 0, 113, 7>>]
V6(prefix) == [family |-> 6, port |-> 443, ip |-> prefix \o <<203, 0, 113, 7>>]
Global == [i \in 1 .. 12 |-> i]

NewConnection(peer) ==
    [type |-> "NewConnection", tid |-> 258, id |-> 2147483647, udp |-> TRUE, peer |-> peer]
SomeFrames == {
    [type |-> "Auth", uuid |-> <<97, 98>>, secret |-> <<115>>],
    [type |-> "OpenTunnel", tid |-> 16909060, port |-> 25565, protocol |-> "both", db |-> 300],
    NewConnection(NoPeer), NewConnection(V4), NewConnection(V6(Mapped)),
    NewConnection(V6(Global)),
    [type |-> "Data", id |-> 7, payload |-> <<>>],
    [type |-> "Data", id |-> 7, payload |-> <<0, 255>>],
    [type |-> "StreamClose", id |-> 7],
    [type |-> "Ping"]}
AnyLocal == {[family |-> 4], [family |-> 6], [family |-> 0]}
=============================================================================
