# Verification of game-tunnel

game-tunnel lets players reach a game server behind a NAT: a *client* beside the
game server keeps a TLS connection to a public *server*, the server listens on the
game's ports and multiplexes its players over that connection. A *manager* assigns
tunnels and pre-authorizes clients, a *web* service edits the tunnels in the
database both of them share. This directory holds TLA+ models of the parts, their
TLC runs and the TLAPS proofs. Paths are relative to the repository.

    tlc -workers 2 -config server.cfg MCServerTunnels          # a run
    tlapm ServerTunnelsProofs.tla                              # the proofs

## 1. The system

| component | where | state | operations |
|---|---|---|---|
| client session | `server/src/main.rs` 449-633, 635-933 | `ServerState`: `tunnels`, `streams`, `udp_peers`, `stream_tunnel`; the frame channel | OpenTunnel, CloseTunnel, Ping, Data, StreamClose, end of the connection |
| listeners and players | `server/src/main.rs` 689-742, 793-905, 935-1004 | one task per TCP listener, TCP player and UDP socket; the UDP task's `peer_streams` and `last_seen` | accept, receive, expiry, shutdown, kill, clean-up |
| registry and management API | `server/src/main.rs` 65-83, 210-330 | process-wide `ConnRegistry`, `PreAuthCache` | list, DELETE, pre-auth, rates, cache clean-up |
| accept loop, authentication | `server/src/main.rs` 381-446, 459-527 | `ACTIVE_CONNECTIONS` | TLS, secret, UUID against the cache |
| connection manager | `client/src/main.rs` 284-469, 524-598 | one `run_server_task` per server, the `servers` map | spawn, abort, reconnect with back-off |
| tunnel synchronization | `client/src/main.rs` 626-642, 688-876 | `ClientState`: tunnels by row id and by tunnel id | diff of the manager's list: open, close, move |
| local streams | `client/src/main.rs` 953-1290 | `streams`, `stream_tunnel`, one task per stream | NewConnection, Data, StreamClose, CloseTunnel |
| statistics | `client/src/stats.rs` | counters by tunnel id | add, remove, rates |
| management cycle | `manager/src/main.rs` 218-335, `database.rs` | tunnel rows, `client_server_mappings` | assign, sync mappings, set DNS |
| endpoints | `manager/src/main.rs` 338-883 | `ManagerState` | server list with pre-auth, tunnel list, status, disconnect |
| DNS records | `manager/src/cloudflare.rs`, `web/src/cloudflare.rs` | A and SRV records | ensure, delete |
| web API | `web/src/main.rs` | tunnel rows | create, update, delete, start, stop |
| wire protocol | `shared/src/protocol.rs` | none | encode, decode, framing |
| configuration, web page | `shared/src/config.rs`, `web/src/index.html` | none | |

How they interact. Client and server exchange `Frame`s over one TLS connection; each
side has one bounded channel (8192) to its writer task, shared by all tasks of the
connection. Inside the server the tasks share `ServerState` and the registry, each
behind a tokio `RwLock`; the end of a task is signalled by a `watch` channel, by
dropping a sender, or by removing a record that owns one. The client asks the manager
for its servers (which makes the manager notify them), polls it for its tunnels and
reports their status; the manager polls the servers for their connections. Manager and
web meet only in the database.

What is hard: the maps of one session are written by its frame loop and by tasks that
outlive a sweep of that loop; set-up of a player takes six steps with a lock or a send
between any two; four tasks send frames of one stream; a lock is held across a send;
listeners outlive a failed OpenTunnel; several copies of `sync_tunnels` run at once; the
client's stream tables mix the ids of all servers; DNS and rows change in two processes
without a transaction. `PROJECT.json` lists these hazards with their lines.

What makes each component correct:

* session, listeners, players: every entry of a map has an owner that will remove it; the
  maps agree; a listener serves a tunnel or is stopping; the client sees a stream's frames
  in order and learns of its end; CloseTunnel terminates; no ghost in the registry.
* pre-authorization: one notification lets in one connection; a banned client stays out;
  an answer leaves time to use it; nothing lingers in the cache.
* client synchronization: unless it hangs on its locks, a listed server comes back, a row is
  followed from server to server and a refused open retried, a removed row is forgotten for good;
  every recorded tunnel has its local address; the server has open what the client recorded (it
  may not: `client_lost_row`).
* local streams: a local server gets the data of one player, in order (not with two
  servers: `client_collision`); what is in `streams` has a connection that will remove it and is
  found by the clean-up; every stream is closed on both sides, whichever begins and even when
  StreamClose comes first.
* locks of the client: no cycle among `state`, `servers` and `stats.tunnels` (there is one:
  `client_locks`).
* wire: what is put into the channel is what is read, whatever the batches and the pieces; a
  PROXY header names the player as he was announced, and one family (not that of an IPv4 player
  whose local server is not on IPv4).
* management and DNS: a row that says `dns_set` has its records; an edit reaches DNS (it may
  not: `dns_stale`); mappings follow rows.

## 2. Modules

| module | models |
|---|---|
| `ServerTunnels` | sessions, listeners, players, registry, writer of the server |
| `PreAuth` | manager endpoint, server cache and UUID check, clean-up |
| `ClientSync` | connection manager, `run_server_task`, the concurrent `sync_tunnels` of the client |
| `ClientStreams` | frame loops, local TCP and UDP connections, clean-up of the client |
| `ClientLocks` | the locks the handlers of the client hold while they wait for another |
| `Dns` | management cycle, web edits, table, mappings, A and SRV records |
| `Wire` | channel, writer task, encoding, reader, PROXY header: one direction of a connection |
| `FrameChannel` | what `Wire` promises, as a specification of its own |
| `MC...` | the instances for TLC |
| `ServerTunnelsProofs`, `ServerMapsProofs`, `ServerFramesProofs`, `PreAuthProofs`, `ClientSyncProofs`, `ClientStreamsProofs`, `DnsProofs`, `WireProofs` | the theorems |

How the modules meet. `ServerTunnels` and `ClientStreams` are the two ends of a connection,
each with the other end as its environment: what `view` lets the client of `ServerTunnels`
send is what the client of `ClientStreams` sends, and the `Player` actions of `ClientStreams` are the
orders `DataAfterNewConnection` and `TcpEndIsTold` allow (data after NewConnection, a
StreamClose that may come before the NewConnection of a UDP peer). Between them lies `Wire`,
which `FrameChannel` summarizes: both use a FIFO channel of whole frames. `ClientSync` takes
from `ServerTunnels` that a second OpenTunnel for a held port is refused and that a closed
listener gives its port back later; `ClientStreams` takes from `ClientSync` that a tunnel
is recorded and forgotten at any time.

### ServerTunnels

One action is one stretch between awaits that can wait: a lock with what is done under
it, one send, one bind. `hc[s]` says where the frame loop of session `s` stands, with the
tunnel and the streams it is busy with; `tcp_task`, `udp_task` and `conn` do the same for
the other tasks. Names of state are the code's: `tunnels`, `streams`, `udp_peers`,
`stream_tunnel`, `registry`, `peer_streams`, `last_seen`, `shutdown`. Maps whose values play no part are
sets of keys; the tunnel of a stream never changes and stands in `conn`.

* **Frame loop.** `HandleOpenTunnel` (port and duplicate check), `BindTcp`, `BindUdp`,
  their failures, `InsertTunnel`, `TunnelOpened`, `Reject`: OpenTunnel from 641 to 909. The
  listener is spawned by the bind, before the insert, as in the code.
  `HandleCloseTunnel`, `CloseSend`, `Purge`: the sweep under the write lock, one send per
  stream with the lock held (`StateFree` is false meanwhile), the purge of the registry.
  `HandleStreamClose`, `HandleData` to `DataUnmap`, `SessionEnd`.
* **TCP.** `Accept`, then per player `MapStream`, `Announce`, `LookupDb`, `Register`, the
  stream itself (`PlayerSends`, `PlayerLeaves`, `SenderDropped`, `Killed`, `LateData`),
  `SendStreamClose`, `Unmap`. `Killed` fires on *any* removal of the record, since the
  record owns the sender of the kill channel. Aborting `read_task` does not interrupt a poll
  that is running on another worker thread, hence `LateData`, which is kept before the task's own
StreamClose; what comes after it a client without the stream passes over, and no property speaks of it.
* **UDP.** `UdpRecvKnown`, `UdpRecvNew`, the set-up `UdpLookupDb` to `UdpAnnounce`,
  `UdpData`, expiry, shutdown, receive error. A UDP socket is bound as long as its task
  runs or an entry of `udp_peers` in a state somebody still holds names it (`UdpHeld`).
* **Channel.** `chan` with capacity `Cap`; `Deliver` is the writer and the client reading,
  `view` what the client has been told. The client may send any frame about a stream it
  has heard of, in any order and as late as it likes. It does not reuse tunnel ids
  (`TUNNEL_ID_COUNTER` in `client/src/main.rs`).

Left out: payloads, byte counters and rates, Ping/Pong (a `try_send` that may only take a
slot), Data to UDP players (one `send_to`), bind errors other than AddrInUse (they behave
like it), the time the bind retries take, `ACTIVE_CONNECTIONS`. A bind succeeds exactly
when the port is free at that moment: the ten retries may be thought to have come before.

### PreAuth

One client UUID, since entries of different UUIDs never meet; time in units of 5 s, of
which every constant is a multiple. `Get`, `NotifyEnds`, `Answer` are
`get_servers_for_client`; `HandlePreAuth`, `Authenticate`, `CleanUp` the server's three uses
of the cache; `SetAllowed` is an operator editing the table, which no code does. Several
requests overlap, as those of every `run_server_task` and of the connection manager do. A
notification may fail although the server has handled it, and the answer lists the
server all the same.

`Get` looks at the permission and sends the notifications in one step. Between the two the code only
makes two queries; a ban that falls between them is, for every property, a ban just after.

Two assumptions: timers fire and database queries answer within the unit they are due,
and a notification the manager has given up does not reach the server later.
`Timeout` is 5 s: the manager's HTTP client has a limit of its own (160-161) that is
shorter than the 10 s its comments mention. `TimeoutAssumption` (`Timeout < Ttl`) is what
`AnswerLeavesTime` needs; with 10 s there would be nothing left to guarantee.

Left out: clients without a UUID, the secret, the TLS handshake; `get_server_for_client`,
which no client calls.

### ClientSync

`task[s]` is `run_server_task` of server `s` between two awaits, `sync[p]` a run of `sync_tunnels`:
of the poll loop, or the one every server task makes after it has connected. All share `tun`
(`ClientState.tunnels`) and `addrs` (`tunnel_local_addrs`). `Ask` is the request to the manager, `Diff`
the comparison under the read lock; then, per row, `Close` (what is recorded), `SendCloseTunnel`,
`Forget`, `Choose`, `Open` (OpenTunnel, by the `servers` entry) and `Insert` are separate, since each takes
its lock anew. `ManagerPoll` spawns and aborts: an abort leaves `servers`, `tun` and `addrs` as they
are and gives back the locks. `HandleCloseTunnel` is the refusal of a tunnel by its server.

The write lock on the state that two sections keep while they wait for `stats.tunnels` is modelled:
`CleanForget` goes to "drop", `CleanStats` then takes the counters of one row away and goes on to the
next with the state still in hand; `Forget` and `RemoveStats` do the same in a removal, while an update
gives the state back first. `ReportStatus` holds `stats.tunnels` from before each sync of the poll
loop until it gets the state (`StatusReported`). Every section under the state waits for `~StateHeld`,
the two drops for `~StatsHeld`. The handlers of streams take a second lock, too; they do nothing to this
module's state, and `StreamHandlerKeeps` is one of them that never gets it (`kept`). `Hangs` says that
somebody waits for good. What is in `stats.tunnels` and the POST of a removal are left out.

The server is what `ServerTunnels` shows a client: `open`, ports still held by listeners on
their way out (`held`, freed by `Release`), refusals on their way (`refused`). A frame is handled by the
server as it is sent: the client waits for no answer, and whatever a server may do later it
may do just before. Rows only name servers of `client.toml`, tunnel ids nobody holds may be
used again (they are only compared).

### ClientStreams

One frame loop per server (`loop`), one local connection per player stream (`local`), and the
two maps they share, `streams` and `mapped` (`stream_tunnel`, the tunnel id of a stream), keyed by the
stream id alone as in the code. `HandleNew` and `InsertStream` are the two map writes of NewConnection;
`HandleData` clones the sender, `SendData` waits with it; `RefuseData`, `ForgetStream` follow a closed
receiver. `Disconnect` takes the server out of `servers`, `CleanRead` reads which tunnel is recorded
for it, and `CleanDrop`, under a lock of its own, drops the streams of the tunnel *read then* and
forgets the row. `Abort` is the connection manager's: at any await, with whatever the loop has in
hand; the connection it leaves in `servers` is read by nobody (`unread`) until the next `Connect`
replaces it. `SyncOpens` and `SyncForgets` are `ClientSync` recording, under a new id, and
forgetting the one tunnel of each server; the server announces players of the tunnel its session has
open (`opened`), which need not be the recorded one. A local connection connects, fails, writes, ends on
its own, with its channel, or (UDP) after 120 s, tells the server and unmaps *its number*, whoever
owns it by then. Data is numbered in the order the player sent it. What the local server sends to
the player is one send that changes no state.
A number left in `stream_tunnel` by an abort between the two inserts stays there without an entry in
`streams`, until a clean-up of its tunnel; `StreamsOwned` is about the other direction. Streams that begin
after a reconnect are the same as those before; what a lost connection strands stays behind. A server
is one run of the server process: a process that was restarted counts stream ids from 1 again and is
another element of `Server`.

### ClientLocks

A handler is the sequence of locks it takes, read off its code; `Ask` queues it, `Grant`
gives it the lock as tokio's fair `RwLock` does (a waiting writer holds up later readers). `Handler` has
every handler that waits for one of the locks with another in hand: data, data for a connection that
is gone (`RefuseData`, 976-983), StreamClose, a failed connect, the end of a local connection, the
removal of a tunnel, the status report and the clean-up; and two that take `servers` alone.

### Dns

One action is one SQL statement, or one Cloudflare lookup with the write that follows it. A
row keeps what assignment and DNS depend on. The cycle is `GetUnassigned`, `GetCounts`, `AssignOne`, `SyncMapping`, `ReadPending` (one SELECT, then worked off from memory), `PutA`, `PutSrv`,
`Mark` (by id alone); the web API is `Create`, `UpdatePlace`, `UpdateOther`, `StartTunnel`,
`StopTunnel` and the three steps of a delete. Every query and every call may fail (`Failure`), the
manager may restart (`AbandonCycle`). `Written` allows for a failed lookup, after which `ensure_*`
adds a second record. `SyncMapping` reads and upserts in one step because nothing in between
reads the mapping. Ties between clients are left open; the code takes the first. `Zone` are the names
whose domain has a zone at Cloudflare: the others fail in every cycle (`Skip`), and their delete goes
straight to the row. `manager.toml` and `web.toml` each list the zones; they are taken to agree.
`dirty` is a history variable: rows edited, or whose names somebody else wrote, since the
cycle last read them.

### Wire, FrameChannel

Byte for byte: `Encode`, `Decode` and `FrameBytes` build and parse the real layouts, for a sender
of this or of an earlier version (`old`: OpenTunnel without `db_id`, NewConnection without
`is_udp` and peer). The writer takes a frame, drains up to `Batch` more, flushes; TLS may send
any piece before that (`SendSome`), the writer may be aborted at any point (`WriterEnds`). The
reader is `read_frame`: a header, then the payload. Numbers stay below 2^31 (`MaxNumber`), TLC's
integers; `FromBe` and `Be` are otherwise exact. `FrameAssumption` says what the programs put into
the channel: messages and data no longer than `MaxPayload`, a UUID whose length fits its two bytes,
stream ids from 1. `ProxyHeader` keeps the family it names, the player's address and the family of
the local server's, 0 for a host name (which 912-918 copies like an address). UTF-8 errors are left out, since both ends encode valid text.

## 3. Runs

Passing runs:

| run | instance | properties |
|---|---|---|
| `server` | 1 connection, 1 tunnel, a valid and a forbidden port, TCP and UDP, 1 address, 2 streams, 2 slots | `TypeOK` `StreamsOwned` `MapsAgree` `RegistryOwned` `DataAfterNewConnection` `TcpEndIsTold` |
| `server_live` | 1 connection, 2 tunnels that ask for "both" on one port, 1 stream, 1 slot, receive errors, fairness | `TcpListenerOwned` `UdpTaskOwned` `CloseTunnelCompletes` `DroppedPlayerEnds` `UdpRecordsDrain` |
| `preauth` | 2 servers, 2 requests, 20 s | `TypeOK` `OneUse` `RevokedStaysOut` `AnswerLeavesTime` `EntriesExpire` |
| `client_sync` | 1 row, 2 servers, 1 edit, 1 broken connection, fairness | `TypeOK` `AddressKnown` `RemovedRowForgotten` `ServerComesBack` `RowFollowed` |
| `client_streams` | 1 server, a TCP and a UDP stream, 1 slot, 2 frames under way, 2 data over TCP and none over UDP, 2 tunnel ids, 1 break or abort, fairness | `TypeOK` `OwnDataInOrder` `StreamsOwned` `EndIsTold` `DroppedStreamEnds` `UdpSessionEnds` |
| `dns` | 2 rows, 5 requests, one for a name without a zone, 2 edits, 2 failures, fairness | `TypeOK` `DnsSetHolds` `EditPublished` `MappingFollows` |
| `wire` | 10 frames (all encodings, all kinds of address), 2 sent, pieces of 7 bytes, both versions, fairness | `NoFrameRefused` `HeaderNamesPlayer` `ImplementsChannel` `EveryFrameArrives` |

What they show.

*Server.* `StreamsOwned`: an entry of `streams` belongs to a task of this connection that has
yet to remove it. `MapsAgree`: while the connection is up `stream_tunnel`, the only way
CloseTunnel finds streams, names exactly those of the two other maps. `RegistryOwned`:
whatever GET /api/connections lists has somebody who will remove it.
`DataAfterNewConnection`, `TcpEndIsTold`: order and completeness of what the client is told.
`TcpListenerOwned`, `UdpTaskOwned`: no listener outlives its tunnel unsignalled, in spite of
half-failed OpenTunnels. The liveness properties say that the send under the lock cannot block
for ever, that a player whose sender is gone is disconnected, and that UDP players of a
lost connection leave the registry.

*Pre-authorization.* `OneUse`: no more connections are let in than notifications were
handled. `RevokedStaysOut`: 15 s after a ban the client gets no new connection.
`AnswerLeavesTime`: an answer leaves 5 s to use each entry. `EntriesExpire`: no entry gets 20 s
old.

*Client.* `AddressKnown`: a recorded tunnel has its local address, whichever of the runs
removes and inserts at once. `RemovedRowForgotten`, `ServerComesBack`, `RowFollowed`: the three
things the synchronization is for, through aborts, refusals, dead connections and stale
answers, unless the client hangs (`Hangs`): each says so, as the cycle of locks `client_locks` finds stops
every sync and every clean-up for good. `RowFollowed` says *again and again*, not for good: two runs may keep opening a row
against each other (`client_lost_row`). `OwnDataInOrder`, `StreamsOwned`, `EndIsTold` with one
server, also when its task is aborted in the middle of a frame: what is in `streams` has a connection
that will take it out, and a tunnel in `stream_tunnel` by which the clean-up finds it. The two liveness properties say that a dropped stream ends without the local server,
and a UDP session even if its StreamClose came before its NewConnection or was lost.

*DNS.* `DnsSetHolds`: `dns_set` means what it says but for two named exceptions.
`EditPublished`, `MappingFollows`: edits reach Cloudflare and the mapping follows the table, whatever
fails. Nothing is claimed of a record that outlives its row, or of a second record beside the
one the cycle wrote: the model has both, as the code does.

*Wire.* `ImplementsChannel`: refinement of `FrameChannel`, so frames are neither lost, reordered,
doubled nor changed (the fields an earlier version leaves out excepted). `NoFrameRefused`: the reader
bails on no frame the two programs write, the empty datagram included. `EveryFrameArrives`:
no batch leaves frames unflushed. `HeaderNamesPlayer`: the header made from what was *read* names the
player who was *sent*, mapped addresses as IPv4, and no "TCP6 <ipv6> <ipv4>". The comment at
`client/src/main.rs` 894-895, "so both address fields always have the same family", is not what 923
and 930 do: an IPv4 player in front of a local server on IPv6, or behind a host name, gets
"TCP4 <ipv4> <ipv6>" or "TCP4 <ipv4> <name>". The property names this case as its one exception.

Runs that end in a counterexample, each against a comment of the source
(`PROJECT.json`, "findings"):

| run | property | what happens |
|---|---|---|
| `server_orphan` | `ClosedTunnelPurged` | a player mapped after CloseTunnel stays connected |
| `client_lost_row` | `OpenAsRecorded` | two runs of `sync_tunnels` both open a new row; the refusal of the second erases the record, the first stays open on the server and nobody knows it |
| `client_collision` | `OwnDataInOrder` | with two servers the data of one player reaches the local connection of another of the same number |
| `client_locks` | `CleanUpCompletes` | the status report (`stats.tunnels`, then `state`) and the clean-up (`state`, then `stats.tunnels`) wait for each other for good |
| `dns_stale` | `EditsReachDns` | an edit between the cycle's SELECT and `mark_dns_set` is marked as published |

**Bounds.** `MaxStream` bounds the stream counter, `Cap` the channel, `MaxTime` the clock,
`MaxEdits`, `MaxBreaks`, `MaxFails`, `MaxData`, `MaxFrames` the environment; the rest is finite in
the code's own terms.
In `server` two streams meet in one tunnel, one registry and one channel, the smallest number
for a sweep that must not touch, or must not miss, another player; two slots let a frame of one task
queue behind another's. In `server_live` one slot makes every send wait and two tunnels compete for one
port, so that the TCP half of an OpenTunnel succeeds and its UDP half does not. The theorems about `ServerTunnels`
have no bound.
In `PreAuth` two requests overlap at two servers; 20 s span notification, timeout, TTL
and clean-up one after the other. `RecvErrors` is FALSE where `RegistryOwned` is checked,
to keep the run small; `UdpRecordOwned` itself allows for a failed task.
`MaxBreaks` counts in `client_streams` the connections that break and the tasks that are aborted,
`MaxTunnels` the tunnel ids handed out.
In `client_sync` one edit moves, stops or deletes the row and one break falls on either
server; two runs overlap with the clean-up and with a refusal. That a task that gave its server
up is spawned again when the row returns takes a second edit and is not reached; the spawn
after an abort is. `client_lost_row` needs no edit at all.
In `client_streams` a channel of one slot fills with the second datum, and the loop waits with the
frame in hand while the other stream, the clean-up, an abort and the sync go on; two tunnel ids let a row be
recorded anew between the two locks of a clean-up. The UDP session is there for its ends; its data differ
from those over TCP in nothing the model has. In `dns` two edits meet one cycle
and the retry of a failed one; two rows may ask for one name. In `wire` two frames and batches of two
meet in one buffer; a piece of 7 bytes cuts headers and payloads.

**Fairness.** `server_live`: tokio polls every runnable task, its `RwLock` and bounded
channels serve waiters in order, and a connected client keeps reading: strong fairness for
whatever waits for a lock or a slot, weak for `Deliver` and `TcpShutdown`. A player that does
not read is cut off after 30 s, so forwarding to it ends too. `select!` picks at random among
ready branches, so a shutdown that stays ready is taken although packets keep coming.
Nothing is assumed of players, the manager or the frames the client sends. If the client
stops reading without its connection failing, CloseTunnel does wait for ever: the frame loop
is then not in the read its idle timeout guards.
`client_sync`: weak fairness for the connection manager's poll, every server task, every run of
`sync_tunnels` (both loop on an interval for ever) and the delivery of refusals; a closed listener gives its port
back. A server that can be reached is reached, as connects fail only `MaxBreaks` times. Nothing is assumed
of a task that waits for a lock nobody gives back: the properties except `Hangs`. The run's CONSTRAINT
`Works` stops where the client already hangs for good, since the properties hold there.
`client_streams`: every task is polled; a local write ends within 30 s. No fairness for
players, breaks, aborts, reconnects or the sync. Its last step, `Unmap`, takes the state and then
`stats.tunnels`: that it ends is assumed here, and is what `client_locks` puts in doubt. `dns`: the interval ticks for ever and a failed cycle is
only logged; failures are finitely many (`MaxFails`), nothing is assumed of the web UI. `wire`: writer and
reader are polled; nothing makes TLS send before the flush.

Deadlock is checked in every run but six. `wire` stops when all frames are read or the
connection is cut; `client_locks` is about the deadlock, stated as a liveness property that says who
waits. In `client_sync` and `client_lost_row` the client may hang, which `Hangs` is about. In
`client_streams` and `client_collision` all players may be gone, all connections over and the bounds
reached. In `ServerTunnels` and `PreAuth`, `Terminated` and `ClockStops` are the only stuttering: a
server whose connections and tasks have all ended, and the end of the clock.

## 4. Proofs

`ServerTunnelsProofs` proves, for every number of connections, tunnels, ports, addresses
and stream ids and every capacity of the channel,

* `TypeCorrect`: `Spec => []TypeOK`
* `StreamsAreOwned`: `Spec => []StreamsOwned`
* `TcpListenersAreOwned`: `Spec => []TcpListenerOwned`
* `UdpTasksAreOwned`: `Spec => []UdpTaskOwned`

from `Invariance`: `Spec => []IInv`. It assumes only the four named assumptions on the
constants. `IInv` adds two conjuncts because the properties are not inductive by
themselves: `StreamIds` (an id that has not been handed out has no task, one that has names a session
and a tunnel), without which a fresh id could already stand in some `streams`; and
`Targets` (OpenTunnel works on a tunnel id and `opened` comes after the insert; a UDP
task at work has a stream), without which a listener could be left between
`Opening` and `tunnels`. Each action has a lemma that it preserves `IInv`; frame lemmas
carry the conjuncts whose variables it leaves alone.

`ServerMapsProofs` goes on from there to `MapsAlwaysAgree` (`Spec => []MapsAgree`) and
`RecordsAreOwned` (`Spec => []RegistryOwned`), also with receive errors. See the comment on its
invariant `JInv`: what is in the maps of UDP is of kind UDP and what the frame loop takes out after
a refused send is of kind TCP (otherwise `DataUnmap` or `Unmap` could take a player out of
`stream_tunnel` and leave it in `udp_peers`); an OpenTunnel whose bind is still to come finds no UDP
task of its tunnel (otherwise the task's addresses would be lost with their records); and
every record has a named remover (`Records`), stronger than `RegistryOwned` in that a UDP peer is still
in `udp_peers` or about to be: without that a packet that replaces an entry swept by CloseTunnel
could strand the old record.

`ServerFramesProofs` adds what the client reads: `DataIsAnnounced` (`Spec =>
[]DataAfterNewConnection`) and `TcpEndsAreTold` (`Spec => []TcpEndIsTold`), for a channel of any
capacity. `KInv` joins to `JInv` who has announced what. `DataAfterNewConnection` is not inductive
because a packet from a known address is forwarded for no other reason than that its stream
is in `udp_peers`, where it is entered *before* NewConnection is sent: `UdpTold` says that only the
stream whose task is about to announce it is in there unannounced, and that this task is the only one that could
receive for it follows from `MineAreUdp` of `JInv`. `TcpTold` says the same of a TCP task past its
`Announce`, and that past its `SendStreamClose` a StreamClose stands behind every NewConnection
on the channel (`EndComes`), stronger than `~WillBeOpen` in that it survives what the frame loop
sends and the client reads in between. `FreshSessions` (nothing of a connection exists before
it is authenticated) carries both over the step that opens the channel. Five lemmas say what
a quiet step, a send, a read and the end of the writer do to announcements (`Flows`), one
(`ToldKeeps`) that a step which moves no task past an announcement keeps `Told`; positions in the
channel are handled there and nowhere else.

`PreAuthProofs` proves all five invariants of `preauth` (`TypeCorrect`,
`EntriesAreUsedOnce`, `RevokedClientsStayOut`, `AnswersLeaveTime`, `EntriesDoExpire`) for
every number of servers and requests and every `Ttl`, `Grace`, `Every` and `Timeout` with
`Timeout < Ttl`. Its `IInv` relates the clocks: an entry's next clean-up comes before
`Ttl + Grace + Every` are over (`CleanUpAhead`), a notification is handled within `Timeout` of
its request and what it stored is there, used or out of time (`Requests`), and whatever
is under way for a banned client began before the ban (`Revocation`). Without
`CleanUpAhead` an arbitrarily old entry would be a legal state just before a clean-up.

`ClientSyncProofs` proves `TypeCorrect` and `AddressesAreKnown` for every number of rows,
servers, runs, edits and breaks. `IInv` is the types, `JobsFit` (what a run has in hand fits the loop
it is in: an update knows the old server, an addition has none, an insert has an id) and
`TidsDiffer` (the ids of two rows, and of a row and a run, differ), together with
`AddressKnown`. Without `TidsDiffer` removing one row's address could take another's.

`ClientStreamsProofs` proves, for any number of servers, players, tunnels and data, through breaks and
aborts, `TypeCorrect` and `EndsAreTold` (`Spec => []EndIsTold`), and

* `DataArrivesInOrder`: `Spec /\ []NoCollision => []OwnDataInOrder`
* `StreamsHaveOwners`: `Spec /\ []NoCollision => []StreamsOwned`
* `OneServerInOrder`: with one server, `Spec => [](OwnDataInOrder /\ StreamsOwned)`, without that hypothesis.

`NoCollision` says that no two servers number a stream alike, and it is what the code does not
ensure with several: both maps are keyed by the number alone, each server counts from 1, and
`client_collision` shows the data of one player written to another's local connection. With one server it holds by
itself, since one counter hands out the numbers. `IInv` carries `TypeCorrect` and `EndsAreTold`; it
includes `IdsFit` (a tunnel id belongs to one server, whether recorded, open, about to be cleaned up
or in a NewConnection on its way): without it a clean-up could take another server's stream out of
`stream_tunnel` between the two inserts of its NewConnection. `JInv` adds `MapFits` (a stream about
to be entered, and one that is in `streams`, is in `stream_tunnel`; an abort may leave the latter without
the former, never the other way round), `OnTheWay` (data on the way to
the client follows what the local connection has), `InOrder` and `Continued` (frame, loop's hand, channel and connection
hold consecutive numbers, in this order) and `OwnFrames`. `OwnDataInOrder` alone speaks of what
has arrived; that the next datum arrives in its place rests on where all the others are.

`DnsProofs` proves `TypeCorrect` and `DnsSetIsTrue` (`Spec => []DnsSetHolds`) for every set of rows,
names, zones, servers, clients and requests. `IInv` adds `HandCurrent` (what the cycle holds is what the row
still says, unless it is dirty) and `WrittenStays` (what the cycle has written for the row in
hand is still there, or the row is dirty): `Mark` sets the flag by id alone, and only these two
relate that id to what was written. That a best server exists for `SyncMapping`'s type rests on
the well-foundedness of the naturals.

`WireProofs` proves, for every set of frames within `FrameAssumption` (fields of any length, any
number below 2^31), every batch and every cut into pieces,

* `MessageUnderstood`: `Decode(Payload(m, o)) = Meaning(m, o)`, every message of this or an
  earlier version is read back as what it means
* `NoFrameIsRefused`: `Spec => []NoFrameRefused`
* `ChannelIsImplemented`: `Spec => ImplementsChannel`, the refinement of `FrameChannel`
* `HeadersNamePlayers`: `Spec => []HeaderNamesPlayer`, for local servers of any family: what was read is
  what was sent, so the header is made from the address the server announced.

`MessageUnderstood` rests on lemmas about fields (`Spans(b, i, k)`: the bytes `b` reach from offset
`i` to `k`; `FieldFirst`, `FieldMid`, `FieldLast` cut them out again) and on `RoundTrip` for
big-endian numbers. The other two need `IInv`. What the reader will make of the
next bytes depends on where the frame boundaries are, and no variable says so: a header cut
at the wrong byte would be a legal state of the types. `IInv` states that there are offsets `c`, the sum of
the lengths of the frames sent so far, such that the bytes from the reader's position are those of
the frames at these offsets (`Carried`), that while the writer lives they end where the frames
still in the channel begin (`Waiting`), and that a header held is that of the next frame
(`HeaderFits`). A step of the writer adds the bytes of one frame (`More`), a read removes some
(`Fewer`), a piece sent or a flush moves bytes from `buf` to `stream` and changes neither. After
the writer has ended only `Carried` is left, which is why what was read stays a prefix of what was sent.

Model-checked only: all liveness, which is out of the prover's reach. Every safety property the passing runs
check has its theorem.

## 5. Plan

Done: the modules of section 2 with their runs, and the proofs of section 4. Next:

1. The status report: `tunnel_status` written by reports that overtake each other, and
   `stream_server_map`, the third map keyed by the stream id alone.
2. `ClientSync` and `ClientStreams` in one module, so that the clean-up of streams meets the real runs
   of `sync_tunnels` and not `SyncOpens`; two edits, for a server that leaves the list and returns.

## 6. Not modelled

The counters of `stats.rs` and the rates: shown on a page, read back only by the status
report; the order in which their lock is taken is in `ClientLocks`. `tunnel_status` (no program
reads it back). `refresh_stats` and `disconnect_tunnel_connection`: a cache of what is reported
and a stream id passed on. The web page and the configuration: presentation, and plain data
read once. The TLS handshake, the shared secrets and the login: comparisons without state.
`ACTIVE_CONNECTIONS`: an atomic add and its inverse; that a task may never return is listed as a
hazard. Data from a local server to a player: one send that changes no state. Functions marked
`dead_code` (`unassign_tunnel`, `reset_dns_flag`) and `get_server_for_client`, which no client calls.
