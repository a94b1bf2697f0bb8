---------------------------- MODULE ServerTunnels ----------------------------
(****************************************************************************)
(* The tunnel server (server/src/main.rs): the frame loop of every client   *)
(* connection, the listener tasks OpenTunnel spawns, the task of every TCP  *)
(* player, the UDP task of every tunnel and the process-wide registry the   *)
(* manager reads and DELETEs from.                                          *)
(*                                                                          *)
(* One action is one stretch of code between two await points that can      *)
(* wait: taking a lock and what is done under it, one send on the channel   *)
(* to the client, one bind.  Payloads, addresses and byte counters are left *)
(* out; a player address is a member of Peer.  The client is the            *)
(* environment: it sends the frames a client may send, in any order.        *)
(****************************************************************************)
EXTENDS Naturals, Sequences

CONSTANTS
    Session,     \* client connections, one handle_client each
    TunnelId,    \* the ids a client numbers its tunnels with
    Port,        \* the ports OpenTunnel may ask for
    UdpTaken,    \* ports whose UDP side another process holds
    Protocol,    \* the protocols asked for, of {"tcp", "udp", "both"}
    DbId,        \* database row ids carried by OpenTunnel
    Peer,        \* player addresses
    MaxStream,   \* bound on STREAM_ID_COUNTER
    Cap,         \* capacity of the channel to the writer (8192 in the code)
    RecvErrors   \* whether recv_from may fail

ASSUME IdAssumption == TunnelId \subseteq Nat /\ DbId \subseteq Nat \ {0}
ASSUME BoundAssumption == MaxStream \in Nat /\ Cap \in Nat \ {0} /\ RecvErrors \in BOOLEAN
ASSUME PortAssumption == Port \subseteq 0 .. 65535 /\ UdpTaken \subseteq Port
ASSUME ProtocolAssumption == Protocol \subseteq {"tcp", "udp", "both"}

Sid == 1 .. MaxStream
NoRequest == [port |-> 0, protocol |-> "none", db |-> 0]

VARIABLES
    sess,          \* handle_client: "idle" before auth, "up", "down"
    hc,            \* where handle_client / handle_control_message stands
    req,           \* what OpenTunnel asked for, captured by the tasks it spawns
    tunnels, streams, udp_peers, stream_tunnel,     \* ServerState
    registry,      \* ConnRegistry: the streams that have a ConnRecord
    next_sid,      \* STREAM_ID_COUNTER
    tcp_task,      \* the TCP listener task of a tunnel
    udp_task,      \* the UDP task of a tunnel
    peer_streams,  \* the UDP task's map: address -> stream, 0 for none
    last_seen,     \* the addresses the UDP task has a time for
    shutdown,      \* tunnels whose shutdown channel has fired or lost its sender
    conn,          \* every stream id handed out: the task serving it, and the
                   \* db_id of its ConnRecord
    chan,          \* the mpsc channel to the writer, oldest frame first
    chan_open,     \* the writer still holds the receiver
    view           \* what the client has been told of a stream

loop  == <<sess, hc, req>>
state == <<tunnels, streams, udp_peers, stream_tunnel>>
seen  == <<peer_streams, last_seen>>
udp   == <<udp_task, seen>>
tasks == <<tcp_task, udp, shutdown>>
wire  == <<chan, chan_open, view>>
vars  == <<loop, state, registry, next_sid, tasks, conn, wire>>

-----------------------------------------------------------------------------
(* Frames towards the client (shared/src/protocol.rs).                      *)

Frame == [type : {"TunnelOpened", "CloseTunnel", "NewConnection", "Data",
                  "StreamClose"},
          id   : Nat]
Msg(type, id) == [type |-> type, id |-> id]

(* Mutants, here and below: faults the properties must notice.  Send with   *)
(* try_send; with the state's lock taken first; retried until it succeeds.  *)
SendTry(s, f) ==
    /\ chan' = IF chan_open[s] /\ Len(chan[s]) < Cap
               THEN [chan EXCEPT ![s] = Append(@, f)] ELSE chan
    /\ UNCHANGED <<chan_open, view>>
SendLocked(s, f) == hc[s].pc # "close_send" /\ SendTry(s, f)
SendRetried(s, f) == chan_open[s] /\ Len(chan[s]) < Cap /\ SendTry(s, f)

(* Sender::send: waits while the channel is full, fails once the receiver   *)
(* is gone.  Every caller but TunnelOpened ignores the failure.             *)
Send(s, f) ==
    /\ chan_open[s] => Len(chan[s]) < Cap
    /\ chan' = IF chan_open[s] THEN [chan EXCEPT ![s] = Append(@, f)] ELSE chan
    /\ UNCHANGED <<chan_open, view>>

(* is_valid_game_port *)
ValidPort(port) ==
    \/ port \in {80, 443}
    \/ port >= 1024 /\ port \notin {9000, 9001}

(* CloseTunnel awaits its sends with the state's write lock in hand: nobody *)
(* else gets at the session's state until the last of them is through.      *)
StateFree(s) == hc[s].pc # "close_send"

At(s, pc) == sess[s] = "up" /\ hc[s].pc = pc
Stage(pc, t, sids) == [pc |-> pc, tid |-> t, left |-> sids, sids |-> sids]
Idle == Stage("read", 0, {})
Goto(s, pc) == hc' = [hc EXCEPT ![s].pc = pc]

IsTcp(sid) == conn[sid].kind = "tcp"
Of(s, t, sid) == conn[sid].sess = s /\ conn[sid].tid = t
PortForDb(s, t) == IF t \in tunnels[s] THEN req[s][t].port ELSE 0   \* mutant
db_of(s, t) == IF t \in tunnels[s] THEN req[s][t].db ELSE 0

(* Mutants: nobody is signalled; udp_peers is forgotten. *)
SignalNobody(s, T) == UNCHANGED shutdown
ForgetButPeers(s, sids) ==
    /\ streams' = [streams EXCEPT ![s] = @ \ sids]
    /\ stream_tunnel' = [stream_tunnel EXCEPT ![s] = @ \ sids]
    /\ UNCHANGED udp_peers

(* shutdown_tx.send(true), or the sender dropped: watch receivers see both. *)
Signal(s, T) == shutdown' = [shutdown EXCEPT ![s] = @ \cup T]

(* Streams the client has closed, or whose tunnel it has, leave every map.  *)
Forget(s, sids) ==
    /\ streams' = [streams EXCEPT ![s] = @ \ sids]
    /\ udp_peers' = [udp_peers EXCEPT ![s] = @ \ sids]
    /\ stream_tunnel' = [stream_tunnel EXCEPT ![s] = @ \ sids]

(* The session's ServerState lives as long as a task holds its Arc, and the *)
(* UDP socket as long as its task or an entry of udp_peers does.            *)
UdpAlive(s, t) == udp_task[s][t].pc \notin {"none", "end", "failed"}
StateAlive(s) ==
    \/ sess[s] = "up"
    \/ \E sid \in Sid : IsTcp(sid) /\ conn[sid].sess = s /\ conn[sid].pc # "done"
    \/ \E t \in TunnelId : tcp_task[s][t] = "run" \/ UdpAlive(s, t)
TcpHeld(s, t) == tcp_task[s][t] = "run"
UdpHeld(s, t) ==
    \/ UdpAlive(s, t)
    \/ StateAlive(s) /\ \E sid \in udp_peers[s] : Of(s, t, sid)
TcpBusy(port) ==
    \E s \in Session, t \in TunnelId : req[s][t].port = port /\ TcpHeld(s, t)
UdpBusy(port) ==
    \/ port \in UdpTaken
    \/ \E s \in Session, t \in TunnelId : req[s][t].port = port /\ UdpHeld(s, t)

-----------------------------------------------------------------------------
Init ==
    /\ sess = [s \in Session |-> "idle"]
    /\ hc = [s \in Session |-> Idle]
    /\ req = [s \in Session |-> [t \in TunnelId |-> NoRequest]]
    /\ tunnels = [s \in Session |-> {}]
    /\ streams = [s \in Session |-> {}]
    /\ udp_peers = [s \in Session |-> {}]
    /\ stream_tunnel = [s \in Session |-> {}]
    /\ registry = {}
    /\ next_sid = 1
    /\ tcp_task = [s \in Session |-> [t \in TunnelId |-> "none"]]
    /\ udp_task = [s \in Session |-> [t \in TunnelId |-> [pc |-> "none", sid |-> 0]]]
    /\ peer_streams = [s \in Session |-> [t \in TunnelId |-> [p \in Peer |-> 0]]]
    /\ last_seen = [s \in Session |-> [t \in TunnelId |-> {}]]
    /\ shutdown = [s \in Session |-> {}]
    /\ conn = [sid \in Sid |-> [pc |-> "none", kind |-> "none", sess |-> "none",
                                tid |-> 0, db |-> 0]]
    /\ chan = [s \in Session |-> <<>>]
    /\ chan_open = [s \in Session |-> FALSE]
    /\ view = [s \in Session |-> [sid \in Sid |-> "none"]]

-----------------------------------------------------------------------------
(* The frame loop of a client connection.                                   *)

(* handle_client past AuthOk: empty state, a fresh channel and its writer. *)
Connect(s) ==
    /\ sess[s] = "idle"
    /\ sess' = [sess EXCEPT ![s] = "up"]
    /\ chan_open' = [chan_open EXCEPT ![s] = TRUE]
    /\ UNCHANGED <<hc, req, state, registry, next_sid, tasks, conn, chan, view>>

(* OpenTunnel up to its first bind: a bad port is refused, a tunnel id that *)
(* is open already is ignored.  A client never reuses the id of a tunnel it *)
(* has closed.                                                              *)
HandleOpenTunnel(s, t, r) ==
    /\ At(s, "read")
    /\ req[s][t] = NoRequest \/ t \in tunnels[s]
    /\ IF ~ValidPort(r.port)
       THEN /\ hc' = [hc EXCEPT ![s] = Stage("reject", t, {})]
            /\ UNCHANGED req
       ELSE IF t \in tunnels[s] THEN UNCHANGED <<hc, req>>
       ELSE /\ hc' = [hc EXCEPT ![s] =
                        Stage(IF r.protocol = "udp" THEN "bind_udp" ELSE "bind_tcp", t, {})]
            /\ req' = [req EXCEPT ![s][t] = r]
    /\ UNCHANGED <<sess, state, registry, next_sid, tasks, conn, wire>>

(* TcpListener::bind; the listener task is spawned at once, before the      *)
(* tunnel is in the map.                                                    *)
BindTcp(s) ==
    LET t == hc[s].tid IN
    /\ At(s, "bind_tcp")
    /\ ~TcpBusy(req[s][t].port)
    /\ tcp_task' = [tcp_task EXCEPT ![s][t] = "run"]
    /\ Goto(s, IF req[s][t].protocol = "both" THEN "bind_udp" ELSE "insert")
    /\ UNCHANGED <<sess, req, state, registry, next_sid, udp, shutdown, conn, wire>>

(* Ten attempts in 500 ms, all AddrInUse: the tunnel is refused. *)
BindTcpFails(s) ==
    /\ At(s, "bind_tcp")
    /\ TcpBusy(req[s][hc[s].tid].port)
    /\ Goto(s, "reject")
    /\ UNCHANGED <<sess, req, state, registry, next_sid, tasks, conn, wire>>

BindUdp(s) ==
    LET t == hc[s].tid IN
    /\ At(s, "bind_udp")
    /\ ~UdpBusy(req[s][t].port)
    /\ udp_task' = [udp_task EXCEPT ![s][t].pc = "recv"]
    /\ Goto(s, "insert")
    /\ UNCHANGED <<sess, req, state, registry, next_sid, tcp_task, seen, shutdown,
                   conn, wire>>

BindUdpFails(s) ==
    /\ At(s, "bind_udp")
    /\ UdpBusy(req[s][hc[s].tid].port)
    /\ Goto(s, "reject")
    /\ UNCHANGED <<sess, req, state, registry, next_sid, tasks, conn, wire>>

(* CloseTunnel answers a refused OpenTunnel.  Returning drops shutdown_tx,  *)
(* which ends a TCP listener the same OpenTunnel had spawned.               *)
Reject(s) ==
    /\ At(s, "reject")
    /\ Send(s, Msg("CloseTunnel", hc[s].tid))
    /\ hc' = [hc EXCEPT ![s] = Idle]
    /\ Signal(s, {hc[s].tid} \ tunnels[s])
    /\ UNCHANGED <<sess, req, state, registry, next_sid, tcp_task, udp, conn>>

InsertTunnel(s) ==
    /\ At(s, "insert")
    /\ tunnels' = [tunnels EXCEPT ![s] = @ \cup {hc[s].tid}]
    /\ Goto(s, "opened")
    /\ UNCHANGED <<sess, req, streams, udp_peers, stream_tunnel, registry, next_sid,
                   tasks, conn, wire>>

TunnelOpened(s) ==
    /\ At(s, "opened")
    /\ chan_open[s]
    /\ Send(s, Msg("TunnelOpened", hc[s].tid))
    /\ hc' = [hc EXCEPT ![s] = Idle]
    /\ UNCHANGED <<sess, req, state, registry, next_sid, tasks, conn>>

(* CloseTunnel under the write lock: tunnel and streams leave the maps.  An *)
(* orphaned stream of a tunnel that is gone already is found by its id.     *)
HandleCloseTunnel(s, t) ==
    LET sids == {sid \in stream_tunnel[s] : conn[sid].tid = t} IN
    /\ At(s, "read")
    /\ req[s][t] # NoRequest
    /\ tunnels' = [tunnels EXCEPT ![s] = @ \ {t}]
    /\ Signal(s, {t} \cap tunnels[s])
    /\ Forget(s, sids)
    /\ hc' = [hc EXCEPT ![s] = IF sids = {} THEN Idle
                                     ELSE Stage("close_send", t, sids)]
    /\ UNCHANGED <<sess, req, registry, next_sid, tcp_task, udp, conn, wire>>

CloseSend(s, sid) ==
    /\ At(s, "close_send")
    /\ sid \in hc[s].left
    /\ Send(s, Msg("StreamClose", sid))
    /\ hc' = [hc EXCEPT ![s] = [pc   |-> IF @.left = {sid} THEN "purge" ELSE "close_send",
                                tid  |-> @.tid, left |-> @.left \ {sid}, sids |-> @.sids]]
    /\ UNCHANGED <<sess, req, state, registry, next_sid, tasks, conn>>

(* registry.write() after CloseTunnel or StreamClose has left the state.    *)
Purge(s) ==
    /\ At(s, "purge")
    /\ registry' = registry \ hc[s].sids
    /\ hc' = [hc EXCEPT ![s] = Idle]
    /\ UNCHANGED <<sess, req, state, next_sid, tasks, conn, wire>>

(* StreamClose from the client, for a stream it has heard of. *)
HandleStreamClose(s, sid) ==
    /\ At(s, "read")
    /\ view[s][sid] # "none"
    /\ Forget(s, {sid})
    /\ hc' = [hc EXCEPT ![s] = Stage("purge", 0, {sid})]
    /\ view' = [view EXCEPT ![s][sid] = "closed"]
    /\ UNCHANGED <<sess, req, tunnels, registry, next_sid, tasks, conn, chan,
                   chan_open>>

(* Data for a TCP player: the sender is cloned out of the map, then used    *)
(* without the lock.  Data for a UDP player changes no state kept here.     *)
HandleData(s, sid) ==
    /\ At(s, "read")
    /\ view[s][sid] # "none"
    /\ sid \in streams[s]
    /\ hc' = [hc EXCEPT ![s] = Stage("data_send", 0, {sid})]
    /\ UNCHANGED <<sess, req, state, registry, next_sid, tasks, conn, wire>>

DataForwarded(s) ==
    /\ At(s, "data_send")
    /\ hc' = [hc EXCEPT ![s] = Idle]
    /\ UNCHANGED <<sess, req, state, registry, next_sid, tasks, conn, wire>>

(* The player's task has dropped its receiver. *)
DataRefused(s) ==
    /\ At(s, "data_send")
    /\ \A sid \in hc[s].sids : conn[sid].pc \in {"closing", "unmap", "done"}
    /\ Goto(s, "data_close")
    /\ UNCHANGED <<sess, req, state, registry, next_sid, tasks, conn, wire>>

DataClose(s) ==
    /\ At(s, "data_close")
    /\ \E sid \in hc[s].sids : Send(s, Msg("StreamClose", sid))
    /\ Goto(s, "data_unmap")
    /\ UNCHANGED <<sess, req, state, registry, next_sid, tasks, conn>>

DataUnmap(s) ==
    /\ At(s, "data_unmap")
    /\ streams' = [streams EXCEPT ![s] = @ \ hc[s].sids]
    /\ stream_tunnel' = [stream_tunnel EXCEPT ![s] = @ \ hc[s].sids]
    /\ hc' = [hc EXCEPT ![s] = Idle]
    /\ UNCHANGED <<sess, req, tunnels, udp_peers, registry, next_sid, tasks, conn,
                   wire>>

(* The loop returns (read error, idle timeout, or TunnelOpened could not be *)
(* sent): every tunnel is shut down, the player senders are dropped and the *)
(* writer is aborted.  udp_peers, stream_tunnel and registry are left.      *)
SessionEnd(s) ==
    /\ At(s, "read") \/ (At(s, "opened") /\ ~chan_open[s])
    /\ sess' = [sess EXCEPT ![s] = "down"]
    /\ hc' = [hc EXCEPT ![s] = Idle]
    /\ Signal(s, tunnels[s])
    /\ tunnels' = [tunnels EXCEPT ![s] = {}]
    /\ streams' = [streams EXCEPT ![s] = {}]
    /\ chan_open' = [chan_open EXCEPT ![s] = FALSE]
    /\ chan' = [chan EXCEPT ![s] = <<>>]
    /\ UNCHANGED <<req, udp_peers, stream_tunnel, registry, next_sid, tcp_task, udp,
                   conn, view>>

-----------------------------------------------------------------------------
(* The writer task and the client reading what it writes, in order.         *)

Deliver(s) ==
    LET f == Head(chan[s]) IN
    /\ chan[s] # <<>>
    /\ chan' = [chan EXCEPT ![s] = Tail(@)]
    /\ view' = CASE f.type = "NewConnection" -> [view EXCEPT ![s][f.id] = "open"]
                 [] f.type = "StreamClose" /\ view[s][f.id] = "open"
                                             -> [view EXCEPT ![s][f.id] = "closed"]
                 [] OTHER -> view
    /\ UNCHANGED <<loop, state, registry, next_sid, tasks, conn, chan_open>>

(* A write to the client fails: the writer returns and drops the receiver,  *)
(* the frame loop learns of it only through its own reads and sends.        *)
WriterFails(s) ==
    /\ chan_open[s]
    /\ chan_open' = [chan_open EXCEPT ![s] = FALSE]
    /\ chan' = [chan EXCEPT ![s] = <<>>]
    /\ UNCHANGED <<loop, state, registry, next_sid, tasks, conn, view>>

-----------------------------------------------------------------------------
(* The TCP listener task and the task of each TCP player.                   *)

NewConn(kind, pc, s, t) == [pc |-> pc, kind |-> kind, sess |-> s, tid |-> t, db |-> 0]

(* accept, the counter, and the spawn of the per-connection task; select!   *)
(* may still prefer accept after shutdown has fired.                        *)
Accept(s, t) ==
    /\ tcp_task[s][t] = "run"
    /\ next_sid \in Sid
    /\ conn' = [conn EXCEPT ![next_sid] = NewConn("tcp", "accepted", s, t)]
    /\ next_sid' = next_sid + 1
    /\ UNCHANGED <<loop, state, registry, tasks, wire>>

TcpShutdown(s, t) ==
    /\ tcp_task[s][t] = "run"
    /\ t \in shutdown[s]
    /\ tcp_task' = [tcp_task EXCEPT ![s][t] = "end"]
    /\ UNCHANGED <<loop, state, registry, next_sid, udp, shutdown, conn, wire>>

ConnAt(sid, pc) == IsTcp(sid) /\ conn[sid].pc = pc
ConnGoto(sid, pc) == conn' = [conn EXCEPT ![sid].pc = pc]

MapStream(sid) ==
    LET s == conn[sid].sess IN
    /\ ConnAt(sid, "accepted")
    /\ StateFree(s)
    /\ streams' = [streams EXCEPT ![s] = @ \cup {sid}]
    /\ stream_tunnel' = [stream_tunnel EXCEPT ![s] = @ \cup {sid}]
    /\ ConnGoto(sid, "mapped")
    /\ UNCHANGED <<loop, tunnels, udp_peers, registry, next_sid, tasks, wire>>

Announce(sid) ==
    /\ ConnAt(sid, "mapped")
    /\ Send(conn[sid].sess, Msg("NewConnection", sid))
    /\ ConnGoto(sid, "announced")
    /\ UNCHANGED <<loop, state, registry, next_sid, tasks>>

LookupDb(sid) ==
    LET s == conn[sid].sess IN
    /\ ConnAt(sid, "announced")
    /\ StateFree(s)
    /\ conn' = [conn EXCEPT ![sid].pc = "register", ![sid].db = db_of(s, conn[sid].tid)]
    /\ UNCHANGED <<loop, state, registry, next_sid, tasks, wire>>

Register(sid) ==
    /\ ConnAt(sid, "register")
    /\ registry' = registry \cup {sid}
    /\ ConnGoto(sid, "run")
    /\ UNCHANGED <<loop, state, next_sid, tasks, wire>>

(* read_task forwards what the player sent. *)
PlayerSends(sid) ==
    LET s == conn[sid].sess IN
    /\ ConnAt(sid, "run")
    /\ chan_open[s]
    /\ Send(s, Msg("Data", sid))
    /\ UNCHANGED <<loop, state, registry, next_sid, tasks, conn>>

(* EOF or error on the player's socket, a write that times out, or a read   *)
(* that cannot be forwarded because the channel is closed: select! returns  *)
(* and both halves are aborted.                                             *)
PlayerLeaves(sid) ==
    /\ ConnAt(sid, "run")
    /\ ConnGoto(sid, "closing")
    /\ UNCHANGED <<loop, state, registry, next_sid, tasks, wire>>

(* write_task ends when the last sender is dropped: the one in streams, and *)
(* the clone the frame loop holds while it forwards.                        *)
SenderDropped(sid) ==
    LET s == conn[sid].sess IN
    /\ ConnAt(sid, "run")
    /\ sid \notin streams[s]
    /\ ~(At(s, "data_send") /\ sid \in hc[s].sids)
    /\ ConnGoto(sid, "closing")
    /\ UNCHANGED <<loop, state, registry, next_sid, tasks, wire>>

(* kill_rx.changed() returns on DELETE, and also when the ConnRecord, which *)
(* owns the sender, is removed by anybody.                                  *)
Killed(sid) ==
    /\ ConnAt(sid, "run")
    /\ sid \notin registry
    /\ ConnGoto(sid, "closing")
    /\ UNCHANGED <<loop, state, registry, next_sid, tasks, wire>>

(* read_task is aborted but may be inside its poll on another worker: one   *)
(* more Data can still reach the channel.                                   *)
LateData(sid) ==
    LET s == conn[sid].sess IN
    /\ ConnAt(sid, "closing")
    /\ chan_open[s]
    /\ Send(s, Msg("Data", sid))
    /\ UNCHANGED <<loop, state, registry, next_sid, tasks, conn>>

SendStreamClose(sid) ==
    /\ ConnAt(sid, "closing")
    /\ Send(conn[sid].sess, Msg("StreamClose", sid))
    /\ ConnGoto(sid, "unmap")
    /\ UNCHANGED <<loop, state, registry, next_sid, tasks>>

(* Mutant: handle_player_stream returns once StreamClose is sent. *)
UnmapNothing(sid) ==
    /\ ConnAt(sid, "unmap")
    /\ ConnGoto(sid, "done")
    /\ UNCHANGED <<loop, state, registry, next_sid, tasks, wire>>

(* The registry's lock is taken inside the state's. *)
Unmap(sid) ==
    LET s == conn[sid].sess IN
    /\ ConnAt(sid, "unmap")
    /\ StateFree(s)
    /\ streams' = [streams EXCEPT ![s] = @ \ {sid}]
    /\ stream_tunnel' = [stream_tunnel EXCEPT ![s] = @ \ {sid}]
    /\ registry' = registry \ {sid}
    /\ ConnGoto(sid, "done")
    /\ UNCHANGED <<loop, tunnels, udp_peers, next_sid, tasks, wire>>

-----------------------------------------------------------------------------
(* The UDP task of a tunnel.                                                *)

UdpAt(s, t, pc) == udp_task[s][t].pc = pc
UdpGoto(s, t, pc) == udp_task' = [udp_task EXCEPT ![s][t].pc = pc]

(* A packet from an address whose stream is still in udp_peers. *)
UdpRecvKnown(s, t, p) ==
    LET sid == peer_streams[s][t][p] IN
    /\ UdpAt(s, t, "recv")
    /\ StateFree(s)
    /\ sid \in udp_peers[s]
    /\ udp_task' = [udp_task EXCEPT ![s][t] = [pc |-> "data", sid |-> sid]]
    /\ last_seen' = [last_seen EXCEPT ![s][t] = @ \cup {p}]
    /\ UNCHANGED <<loop, state, registry, next_sid, tcp_task, peer_streams,
                   shutdown, conn, wire>>

(* A packet from an unknown address, or from one whose stream the client    *)
(* has closed: the mapping is evicted, its last_seen with it, and a new     *)
(* stream id taken.                                                         *)
UdpRecvNew(s, t, p) ==
    /\ UdpAt(s, t, "recv")
    /\ peer_streams[s][t][p] # 0 => StateFree(s)
    /\ peer_streams[s][t][p] \notin udp_peers[s]
    /\ next_sid \in Sid
    /\ peer_streams' = [peer_streams EXCEPT ![s][t][p] = next_sid]
    /\ last_seen' = [last_seen EXCEPT ![s][t] =
                       IF peer_streams[s][t][p] = 0 THEN @ \cup {p} ELSE @ \ {p}]
    /\ conn' = [conn EXCEPT ![next_sid] = NewConn("udp", "run", s, t)]
    /\ next_sid' = next_sid + 1
    /\ udp_task' = [udp_task EXCEPT ![s][t] = [pc |-> "lookup", sid |-> next_sid]]
    /\ UNCHANGED <<loop, state, registry, tcp_task, shutdown, wire>>

UdpLookupDb(s, t) ==
    /\ UdpAt(s, t, "lookup")
    /\ StateFree(s)
    /\ conn' = [conn EXCEPT ![udp_task[s][t].sid].db = db_of(s, t)]
    /\ UdpGoto(s, t, "register")
    /\ UNCHANGED <<loop, state, registry, next_sid, tcp_task, seen, shutdown, wire>>

UdpRegister(s, t) ==
    LET sid == udp_task[s][t].sid IN
    /\ UdpAt(s, t, "register")
    /\ registry' = registry \cup {sid}
    /\ UdpGoto(s, t, "map")
    /\ UNCHANGED <<loop, state, next_sid, tcp_task, seen, shutdown, conn, wire>>

UdpMap(s, t) ==
    LET sid == udp_task[s][t].sid IN
    /\ UdpAt(s, t, "map")
    /\ StateFree(s)
    /\ udp_peers' = [udp_peers EXCEPT ![s] = @ \cup {sid}]
    /\ stream_tunnel' = [stream_tunnel EXCEPT ![s] = @ \cup {sid}]
    /\ UdpGoto(s, t, "announce")
    /\ UNCHANGED <<loop, tunnels, streams, registry, next_sid, tcp_task, seen,
                   shutdown, conn, wire>>

UdpAnnounce(s, t) ==
    /\ UdpAt(s, t, "announce")
    /\ Send(s, Msg("NewConnection", udp_task[s][t].sid))
    /\ UdpGoto(s, t, "data")
    /\ UNCHANGED <<loop, state, registry, next_sid, tcp_task, seen, shutdown, conn>>

UdpData(s, t) ==
    /\ UdpAt(s, t, "data")
    /\ Send(s, Msg("Data", udp_task[s][t].sid))
    /\ UdpGoto(s, t, "recv")
    /\ UNCHANGED <<loop, state, registry, next_sid, tcp_task, seen, shutdown, conn>>

(* The cleanup tick finds an address silent for more than 300 s. *)
UdpExpire(s, t, p) ==
    LET sid == peer_streams[s][t][p] IN
    /\ UdpAt(s, t, "recv")
    /\ p \in last_seen[s][t]
    /\ sid # 0
    /\ StateFree(s)
    /\ last_seen' = [last_seen EXCEPT ![s][t] = @ \ {p}]
    /\ peer_streams' = [peer_streams EXCEPT ![s][t][p] = 0]
    /\ udp_peers' = [udp_peers EXCEPT ![s] = @ \ {sid}]
    /\ stream_tunnel' = [stream_tunnel EXCEPT ![s] = @ \ {sid}]
    /\ udp_task' = [udp_task EXCEPT ![s][t] = [pc |-> "expire", sid |-> sid]]
    /\ UNCHANGED <<loop, tunnels, streams, registry, next_sid, tcp_task, shutdown,
                   conn, wire>>

UdpExpireRegistry(s, t) ==
    /\ UdpAt(s, t, "expire")
    /\ registry' = registry \ {udp_task[s][t].sid}
    /\ UdpGoto(s, t, "expire_close")
    /\ UNCHANGED <<loop, state, next_sid, tcp_task, seen, shutdown, conn, wire>>

UdpExpireClose(s, t) ==
    /\ UdpAt(s, t, "expire_close")
    /\ Send(s, Msg("StreamClose", udp_task[s][t].sid))
    /\ UdpGoto(s, t, "recv")
    /\ UNCHANGED <<loop, state, registry, next_sid, tcp_task, seen, shutdown, conn>>

(* Mutant: the shutdown branch only breaks. *)
UdpShutdownBreaks(s, t) ==
    /\ UdpAt(s, t, "recv")
    /\ t \in shutdown[s]
    /\ UdpGoto(s, t, "end")
    /\ UNCHANGED <<loop, state, registry, next_sid, tcp_task, seen, shutdown, conn,
                   wire>>

(* The shutdown branch takes its own sessions out of the registry; their    *)
(* udp_peers entries are the frame loop's business.                         *)
UdpShutdown(s, t) ==
    LET mine == {peer_streams[s][t][p] : p \in Peer} IN
    /\ UdpAt(s, t, "recv")
    /\ t \in shutdown[s]
    /\ registry' = registry \ mine
    /\ UdpGoto(s, t, "end")
    /\ UNCHANGED <<loop, state, next_sid, tcp_task, seen, shutdown, conn, wire>>

(* recv_from fails: the task breaks out of its loop and cleans up nothing;  *)
(* the tunnel stays open and deaf, and nobody opens it again.               *)
UdpRecvError(s, t) ==
    /\ RecvErrors
    /\ UdpAt(s, t, "recv")
    /\ UdpGoto(s, t, "failed")
    /\ UNCHANGED <<loop, state, registry, next_sid, tcp_task, seen, shutdown, conn,
                   wire>>

-----------------------------------------------------------------------------
(* DELETE /api/connections/{stream_id} *)
Disconnect(sid) ==
    /\ sid \in registry
    /\ registry' = registry \ {sid}
    /\ UNCHANGED <<loop, state, next_sid, tasks, conn, wire>>

(* Nothing left to do: every connection has ended and so has every task.    *)
Terminated ==
    /\ \A s \in Session : sess[s] = "down"
    /\ \A s \in Session, t \in TunnelId :
          tcp_task[s][t] # "run" /\ ~UdpAlive(s, t)
    /\ \A sid \in Sid : IsTcp(sid) => conn[sid].pc = "done"
    /\ UNCHANGED vars

Request == [port : Port, protocol : Protocol, db : DbId]

(* What the client does, and how its connection ends. *)
ClientStep(s) ==
    \/ Connect(s) \/ SessionEnd(s) \/ WriterFails(s)
    \/ \E t \in TunnelId, r \in Request : HandleOpenTunnel(s, t, r)
    \/ \E t \in TunnelId : HandleCloseTunnel(s, t)
    \/ \E sid \in Sid : HandleStreamClose(s, sid) \/ HandleData(s, sid)

(* The frame loop finishing what a frame has started. *)
LoopStep(s) ==
    \/ BindTcp(s) \/ BindTcpFails(s) \/ BindUdp(s) \/ BindUdpFails(s)
    \/ Reject(s) \/ InsertTunnel(s) \/ TunnelOpened(s)
    \/ \E sid \in Sid : CloseSend(s, sid)
    \/ Purge(s) \/ DataForwarded(s) \/ DataRefused(s) \/ DataClose(s) \/ DataUnmap(s)

(* A player task on its own way; PlayerStep is the player's doing. *)
ConnStep(sid) ==
    \/ MapStream(sid) \/ Announce(sid) \/ LookupDb(sid) \/ Register(sid)
    \/ SenderDropped(sid) \/ Killed(sid) \/ SendStreamClose(sid) \/ Unmap(sid)
PlayerStep(sid) == PlayerSends(sid) \/ PlayerLeaves(sid) \/ LateData(sid)

UdpStep(s, t) ==
    \/ UdpLookupDb(s, t) \/ UdpRegister(s, t) \/ UdpMap(s, t) \/ UdpAnnounce(s, t)
    \/ UdpData(s, t) \/ UdpExpireRegistry(s, t) \/ UdpExpireClose(s, t)
UdpPlayerStep(s, t) ==
    \/ UdpRecvError(s, t)
    \/ \E p \in Peer : UdpRecvKnown(s, t, p) \/ UdpRecvNew(s, t, p) \/ UdpExpire(s, t, p)

Next ==
    \/ \E s \in Session : ClientStep(s) \/ LoopStep(s) \/ Deliver(s)
    \/ \E s \in Session, t \in TunnelId :
          Accept(s, t) \/ TcpShutdown(s, t) \/ UdpStep(s, t) \/ UdpPlayerStep(s, t)
             \/ UdpShutdown(s, t)
    \/ \E sid \in Sid : ConnStep(sid) \/ PlayerStep(sid) \/ Disconnect(sid)
    \/ Terminated

Spec == Init /\ [][Next]_vars

(* Tokio polls every runnable task, its RwLock and its bounded channel queue *)
(* their waiters first-come first-served, and a connected client keeps       *)
(* reading: strong fairness for whatever waits on a lock or a slot.  Nothing *)
(* is assumed of the client's frames, of players or of the manager.          *)
Fairness ==
    /\ \A s \in Session : SF_vars(LoopStep(s)) /\ WF_vars(Deliver(s))
    /\ \A s \in Session, t \in TunnelId :
          WF_vars(TcpShutdown(s, t)) /\ SF_vars(UdpStep(s, t)) /\ SF_vars(UdpShutdown(s, t))
    /\ \A sid \in Sid : SF_vars(ConnStep(sid))
FairSpec == Spec /\ Fairness

-----------------------------------------------------------------------------
LoopPc == {"read", "bind_tcp", "bind_udp", "insert", "opened", "reject", "close_send",
           "purge", "data_send", "data_close", "data_unmap"}
ConnPc == {"none", "accepted", "mapped", "announced", "register", "run", "closing",
           "unmap", "done"}
UdpPc == {"none", "recv", "lookup", "register", "map", "announce", "data", "expire",
          "expire_close", "end", "failed"}
LoopType == [pc : LoopPc, tid : TunnelId \cup {0}, left : SUBSET Sid, sids : SUBSET Sid]
UdpType == [pc : UdpPc, sid : Sid \cup {0}]
ConnType == [pc : ConnPc, kind : {"none", "tcp", "udp"}, sess : Session \cup {"none"},
             tid : TunnelId \cup {0}, db : DbId \cup {0}]

(* Every variable stays in its type (the state of server/src/main.rs). *)
TypeOK ==
    /\ sess \in [Session -> {"idle", "up", "down"}]
    /\ hc \in [Session -> LoopType]
    /\ req \in [Session -> [TunnelId -> Request \cup {NoRequest}]]
    /\ tunnels \in [Session -> SUBSET TunnelId]
    /\ streams \in [Session -> SUBSET Sid]
    /\ udp_peers \in [Session -> SUBSET Sid]
    /\ stream_tunnel \in [Session -> SUBSET Sid]
    /\ registry \subseteq Sid
    /\ next_sid \in 1 .. MaxStream + 1
    /\ tcp_task \in [Session -> [TunnelId -> {"none", "run", "end"}]]
    /\ udp_task \in [Session -> [TunnelId -> UdpType]]
    /\ peer_streams \in [Session -> [TunnelId -> [Peer -> Sid \cup {0}]]]
    /\ last_seen \in [Session -> [TunnelId -> SUBSET Peer]]
    /\ shutdown \in [Session -> SUBSET TunnelId]
    /\ conn \in [Sid -> ConnType]
    /\ chan \in [Session -> Seq(Frame)]
    /\ chan_open \in [Session -> BOOLEAN]
    /\ view \in [Session -> [Sid -> {"none", "open", "closed"}]]

MappedPc == {"mapped", "announced", "register", "run", "closing", "unmap"}

(* An entry of streams belongs to a player task that has not ended yet and  *)
(* that will take it out: no interleaving of set-up, CloseTunnel,           *)
(* StreamClose, DELETE and the end of the session strands a sender.         *)
StreamsOwned ==
    \A s \in Session : \A sid \in streams[s] :
        /\ IsTcp(sid) /\ conn[sid].sess = s
        /\ conn[sid].pc \in MappedPc

(* CloseTunnel finds the streams of a tunnel through stream_tunnel only, so *)
(* while the connection is up stream_tunnel must name exactly the streams   *)
(* the two other maps hold.                                                 *)
MapsAgree ==
    \A s \in Session : sess[s] = "up" => stream_tunnel[s] = streams[s] \cup udp_peers[s]

(* Somebody still has the removal of a ConnRecord ahead of him: the task of *)
(* its TCP player, the UDP task that maps its address, or the frame loop.   *)
UdpRecordOwned(sid) ==
    LET s == conn[sid].sess
        t == conn[sid].tid IN
    \/ UdpAlive(s, t) /\ \E p \in Peer : peer_streams[s][t][p] = sid
    \/ UdpAt(s, t, "expire") /\ udp_task[s][t].sid = sid
    \/ hc[s].pc \in {"close_send", "purge"} /\ sid \in hc[s].sids
    \/ UdpAt(s, t, "failed")

(* No ghost connection: whatever GET /api/connections lists has an owner    *)
(* that will remove it, in spite of the registry being global and of the    *)
(* four places that remove from it.  Only a UDP task whose recv_from failed *)
(* leaves its players behind.                                               *)
RegistryOwned ==
    \A sid \in registry :
        IF IsTcp(sid) THEN conn[sid].pc \in {"run", "closing", "unmap"}
                      ELSE UdpRecordOwned(sid)

(* The frames a client reads: Data of a stream never comes before the       *)
(* NewConnection that announces it, although a task of its own sends it.    *)
DataAfterNewConnection ==
    \A s \in Session : \A i \in DOMAIN chan[s] :
        LET sid == chan[s][i].id IN
        chan[s][i].type = "Data" =>
            \/ view[s][sid] # "none"
            \/ \E j \in 1 .. i - 1 : chan[s][j] = Msg("NewConnection", sid)

(* What the client will hold open once it has read all there is.            *)
WillBeOpen(s, sid) ==
    LET news == {i \in DOMAIN chan[s] : chan[s][i] = Msg("NewConnection", sid)}
        ends == {i \in DOMAIN chan[s] : chan[s][i] = Msg("StreamClose", sid)} IN
    IF news = {} THEN view[s][sid] = "open" /\ ends = {}
                 ELSE \E i \in news : \A j \in ends : j < i

(* When the task of a TCP player has ended, the client has been told or     *)
(* will be: even if CloseTunnel overtook its NewConnection with a           *)
(* StreamClose, another StreamClose follows.                                *)
TcpEndIsTold ==
    \A s \in Session, sid \in Sid :
        chan_open[s] /\ IsTcp(sid) /\ conn[sid].sess = s /\ conn[sid].pc \in {"unmap", "done"}
            => ~WillBeOpen(s, sid)

OpeningPc == {"bind_tcp", "bind_udp", "insert", "opened", "reject"}
Opening(s, t) == hc[s].pc \in OpeningPc /\ hc[s].tid = t

(* A listener keeps its port only for a tunnel that is open or being        *)
(* opened; any other listener has its shutdown signal waiting.              *)
TcpListenerOwned ==
    \A s \in Session, t \in TunnelId :
        tcp_task[s][t] = "run" => t \in tunnels[s] \/ t \in shutdown[s] \/ Opening(s, t)

(* The same of the UDP task. *)
UdpTaskOwned ==
    \A s \in Session, t \in TunnelId :
        UdpAlive(s, t) => t \in tunnels[s] \/ t \in shutdown[s] \/ Opening(s, t)

-----------------------------------------------------------------------------
(* What the properties above rest on, for the proofs.                       *)

(* A stream id that was handed out names the connection and the tunnel that *)
(* accepted it; the others are untouched.                                   *)
StreamIds ==
    \A sid \in Sid :
        /\ conn[sid].kind # "none" => conn[sid].sess \in Session /\ conn[sid].tid \in TunnelId
        /\ sid >= next_sid => conn[sid].kind = "none"

(* OpenTunnel works on a tunnel id until it is in the map, a UDP task that  *)
(* is at work has a stream.                                                 *)
Targets ==
    \A s \in Session :
        /\ hc[s].pc \in OpeningPc => hc[s].tid \in TunnelId
        /\ hc[s].pc = "opened" => hc[s].tid \in tunnels[s]
        /\ \A t \in TunnelId :
              udp_task[s][t].pc \notin {"none", "recv", "end", "failed"} => udp_task[s][t].sid \in Sid

(* The inductive invariant of ServerTunnelsProofs.                          *)
IInv ==
    /\ TypeOK /\ StreamIds /\ Targets
    /\ StreamsOwned /\ TcpListenerOwned /\ UdpTaskOwned

-----------------------------------------------------------------------------
(* CloseTunnel gets through its sends although it holds the state's lock    *)
(* while it waits for slots of the channel.                                 *)
CloseTunnelCompletes ==
    \A s \in Session : hc[s].pc = "close_send" ~> hc[s].pc # "close_send"

(* A TCP player whose sender has left streams (CloseTunnel, StreamClose,    *)
(* the end of the session) is disconnected without the player's help.       *)
DroppedPlayerEnds ==
    \A sid \in Sid :
        ConnAt(sid, "run") /\ sid \notin streams[conn[sid].sess] ~> ConnAt(sid, "done")

(* After the client has gone, its UDP players leave the registry, but those *)
(* of a UDP task that an error of recv_from has ended.                      *)
UdpRecordsDrain ==
    \A s \in Session, sid \in Sid :
        sess[s] = "down" /\ conn[sid].kind = "udp" /\ conn[sid].sess = s /\ sid \in registry
            ~> sid \notin registry \/ UdpAt(s, conn[sid].tid, "failed")

-----------------------------------------------------------------------------
(* What comments of the source say and the code does not keep.              *)

(* The purge after CloseTunnel leaves only players about to end: none with  *)
(* a sender still in streams.                                               *)
ClosedTunnelPurged ==
    \A s \in Session, t \in TunnelId :
        At(s, "read") /\ req[s][t] # NoRequest /\ t \notin tunnels[s] =>
            \A sid \in registry : Of(s, t, sid) => sid \notin streams[s]
=============================================================================
