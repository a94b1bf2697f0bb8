-------------------------------- MODULE MCDns --------------------------------
(* A small instance of Dns for TLC: two rows, two servers, one client; a     *)
(* tunnel that moves with its port, or to a server that manager.toml does    *)
(* not list or a domain that has no zone, and one that may take over its     *)
(* name.                                                                     *)
EXTENDS Dns

CONSTANTS home, other, abroad, client1

Moved(sid, port) == [name |-> home, sid |-> sid, port |-> port, srv |-> TRUE]
Requests == {Moved(1, 25565), Moved(2, 25566),
             [name |-> home, sid |-> 3, port |-> 25565, srv |-> FALSE],
             [name |-> other, sid |-> None, port |-> 25565, srv |-> FALSE],
             [name |-> abroad, sid |-> 1, port |-> 25565, srv |-> FALSE]}
Zones == {home, other}
OneRow == {[i \in Id |-> IF i = 1 THEN Fresh(Moved(1, 25565), None) ELSE Absent]}
=============================================================================
