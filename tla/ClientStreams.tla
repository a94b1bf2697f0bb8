---------------------------- MODULE ClientStreams ----------------------------
(****************************************************************************)
(* The client's half of the player streams: the frame loop of every server  *)
(* (handle_server_frame, handle_control_message), one local connection per  *)
(* stream (handle_local_stream, handle_local_udp_stream), the clean-up of   *)
(* run_server_task and its abort by the connection manager                  *)
(* (client/src/main.rs).                                                    *)
(*                                                                          *)
(* The loops and connections of all servers share the maps streams and      *)
(* stream_tunnel, which know a stream by its number alone.  The table has   *)
(* one row for each server, which sync_tunnels records under a new tunnel   *)
(* id and forgets (ClientSync).  Data is numbered in the order the player   *)
(* sent it.                                                                 *)
(* The counters of stats.rs are left out.                                   *)
(****************************************************************************)
EXTENDS Naturals, Sequences

CONSTANTS
    Server,     \* the servers the client is connected to
    Stream,     \* stream ids, which every server counts on its own
    Udp,        \* the streams that are UDP sessions
    Capacity,   \* slots of the channel to a local connection (2048 or 1024)
    Window,     \* bound on the frames on their way to the client
    MaxData,    \* bound on the data of each stream
    MaxTunnels, \* bound on the tunnels opened, TUNNEL_ID_COUNTER
    MaxBreaks   \* bound on the connections that break and the tasks aborted

None == 0       \* no tunnel
ASSUME StreamAssumption == Udp \subseteq Stream
ASSUME BoundAssumption ==
    /\ Capacity \in Nat \ {0} /\ Window \in Nat \ {0} /\ MaxData \in [Stream -> Nat]
    /\ MaxTunnels \in Nat /\ MaxBreaks \in Nat

Conn == [srv : Server, id : Stream]     \* a player stream, and its local connection
Data(c, n) == [type |-> "data", conn |-> c, n |-> n]
New(c, t) == [type |-> "new", conn |-> c, n |-> t]    \* n is the tunnel's id
Close(c) == [type |-> "close", conn |-> c, n |-> 0]
Nothing == [type |-> "none"]            \* no frame, no connection

VARIABLES
    player,     \* the stream as the server has it: [st, sent]
    down,       \* frames of a server the client has not read
    told,       \* StreamClose frames of the client the server has not read
    link,       \* the servers entry: none, or a connection that is up, up with
                \* nobody who reads it, or broken
    recorded,   \* ClientState.tunnels: the id recorded for the server's row
    opened,     \* the id of the tunnel the server's session has open
    count,      \* TUNNEL_ID_COUNTER
    loop,       \* run_server_task: [pc, frame, to, tid]; "out" without a connection
    streams,    \* ClientState.streams: whose channel a number leads to
    mapped,     \* ClientState.stream_tunnel
    local,      \* the local connection of a stream: [pc, queue, got]
    breaks

outside == <<player, down, told>>
maps == <<streams, mapped>>
tunnels == <<recorded, opened, count>>
vars == <<outside, link, tunnels, loop, maps, local, breaks>>

At(pc) == [pc |-> pc, frame |-> Nothing, to |-> Nothing, tid |-> None]
Reading == At("read")
Out == At("out")
Init ==
    /\ player = [c \in Conn |-> [st |-> "none", sent |-> 0]]
    /\ down = [s \in Server |-> <<>>]
    /\ told = {}
    /\ link = [s \in Server |-> "up"]
    /\ recorded = [s \in Server |-> None]
    /\ opened = [s \in Server |-> None]
    /\ count = 0
    /\ loop = [s \in Server |-> Reading]
    /\ streams = [i \in Stream |-> Nothing]
    /\ mapped = [i \in Stream |-> None]
    /\ local = [c \in Conn |-> [pc |-> "none", queue |-> <<>>, got |-> <<>>]]
    /\ breaks = 0

-----------------------------------------------------------------------------
(* The server (ServerTunnels): NewConnection, data, StreamClose.  The       *)
(* StreamClose of a UDP session may be sent before its NewConnection.       *)

ServerSends(c, f) ==
    /\ \/ /\ link[c.srv] = "up" /\ Len(down[c.srv]) < Window
          /\ down' = [down EXCEPT ![c.srv] = Append(@, f)]
       \/ link[c.srv] = "unread" /\ UNCHANGED down
    /\ UNCHANGED <<told, link, tunnels, loop, maps, local, breaks>>
Becomes(c, from, to) == player[c].st = from /\ player' = [player EXCEPT ![c].st = to]

Player(c) ==
    \/ opened[c.srv] # None /\ Becomes(c, "none", "open") /\ ServerSends(c, New(c, opened[c.srv]))
    \/ Becomes(c, "open", "closed") /\ ServerSends(c, Close(c))
    \/ opened[c.srv] # None /\ c.id \in Udp /\ Becomes(c, "none", "early") /\ ServerSends(c, Close(c))
    \/ Becomes(c, "early", "closed") /\ ServerSends(c, New(c, opened[c.srv]))
    \/ /\ player[c].st = "open" /\ player[c].sent < MaxData[c.id]
       /\ player' = [player EXCEPT ![c].sent = @ + 1]
       /\ ServerSends(c, Data(c, player[c].sent + 1))

ServerHears(c) ==
    /\ c \in told
    /\ told' = told \ {c}
    /\ player' = [player EXCEPT ![c].st = IF @ = "open" THEN "closed" ELSE @]
    /\ UNCHANGED <<down, link, tunnels, loop, maps, local, breaks>>

(* The session at the server ends with its tunnel and its players. *)
EndSession(s) ==
    /\ player' = [c \in Conn |-> IF c.srv = s /\ player[c].st # "none"
                                 THEN [player[c] EXCEPT !.st = "closed"] ELSE player[c]]
    /\ told' = {c \in told : c.srv # s}
    /\ opened' = [opened EXCEPT ![s] = None]

Break(s) ==
    /\ link[s] \in {"up", "unread"} /\ breaks < MaxBreaks
    /\ link' = [link EXCEPT ![s] = "broken"]
    /\ breaks' = breaks + 1
    /\ EndSession(s)
    /\ UNCHANGED <<down, recorded, count, loop, maps, local>>

-----------------------------------------------------------------------------
(* The frame loop of a server.                                              *)

InSession(s) == link[s] \in {"up", "unread"}
(* Mutant: the server is not told of a connection that never came about. *)
TellRunning(c) ==
    told' = IF InSession(c.srv) /\ local[c].pc # "failing" THEN told \cup {c} ELSE told
Tell(c) == told' = IF InSession(c.srv) THEN told \cup {c} ELSE told

Read(s, type) ==
    /\ loop[s].pc = "read"
    /\ down[s] # <<>> /\ Head(down[s]).type = type
    /\ down' = [down EXCEPT ![s] = Tail(@)]
    /\ UNCHANGED <<player, link, tunnels, breaks>>
Then(s, pc, f, c) ==
    loop' = [loop EXCEPT ![s] = [pc |-> pc, frame |-> f, to |-> c, tid |-> None]]

(* NewConnection enters the two maps one after the other and starts the     *)
(* task that connects.                                                      *)
HandleNew(s) ==
    /\ Read(s, "new")
    /\ LET f == Head(down[s])
       IN mapped' = [mapped EXCEPT ![f.conn.id] = f.n] /\ Then(s, "insert", f, Nothing)
    /\ UNCHANGED <<told, streams, local>>
InsertStream(s) ==
    /\ loop[s].pc = "insert"
    /\ LET c == loop[s].frame.conn
       IN /\ streams' = [streams EXCEPT ![c.id] = c]
          /\ local' = [local EXCEPT ![c].pc = "connecting"]
    /\ loop' = [loop EXCEPT ![s] = Reading]
    /\ UNCHANGED <<outside, link, tunnels, mapped, breaks>>

HandleClose(s) ==
    /\ Read(s, "close")
    /\ LET i == Head(down[s]).conn.id
       IN streams' = [streams EXCEPT ![i] = Nothing] /\ mapped' = [mapped EXCEPT ![i] = None]
    /\ UNCHANGED <<told, loop, local>>

(* Data: the sender is cloned out of the map, then waited for without it. *)
HandleData(s) ==
    /\ Read(s, "data")
    /\ LET f == Head(down[s])
       IN IF streams[f.conn.id] = Nothing THEN UNCHANGED loop
          ELSE Then(s, "send", f, streams[f.conn.id])
    /\ UNCHANGED <<told, maps, local>>

Receiving(c) == local[c].pc \in {"connecting", "running", "failing"}
(* Mutant: the channel has no bound. *)
HasRoomAlways(c) == TRUE
HasRoom(c) == Len(local[c].queue) < Capacity

SendData(s) ==
    /\ loop[s].pc = "send"
    /\ LET c == loop[s].to
       IN IF Receiving(c)
          THEN /\ HasRoom(c)
               /\ local' = [local EXCEPT ![c].queue = Append(@, loop[s].frame)]
               /\ loop' = [loop EXCEPT ![s] = Reading]
          ELSE loop' = [loop EXCEPT ![s].pc = "refuse"] /\ UNCHANGED local
    /\ UNCHANGED <<outside, link, tunnels, maps, breaks>>

(* The local connection is gone: StreamClose to the server, then the maps. *)
RefuseData(s) ==
    /\ loop[s].pc = "refuse"
    /\ Tell(loop[s].frame.conn)
    /\ loop' = [loop EXCEPT ![s].pc = "forget"]
    /\ UNCHANGED <<player, down, link, tunnels, maps, local, breaks>>
ForgetStream(s) ==
    /\ loop[s].pc = "forget"
    /\ LET i == loop[s].frame.conn.id
       IN streams' = [streams EXCEPT ![i] = Nothing] /\ mapped' = [mapped EXCEPT ![i] = None]
    /\ loop' = [loop EXCEPT ![s] = Reading]
    /\ UNCHANGED <<outside, link, tunnels, local, breaks>>

(* The end of the loop takes the connection out of servers.  The clean-up   *)
(* reads which tunnel is recorded for the server; then it drops the streams *)
(* of that tunnel, and forgets the row under whatever id it has by now.     *)
Disconnect(s) ==
    /\ loop[s].pc = "read" /\ link[s] = "broken"
    /\ link' = [link EXCEPT ![s] = "none"]
    /\ down' = [down EXCEPT ![s] = <<>>]
    /\ loop' = [loop EXCEPT ![s] = At("clean")]
    /\ UNCHANGED <<player, told, tunnels, maps, local, breaks>>
CleanRead(s) ==
    /\ loop[s].pc = "clean"
    /\ loop' = [loop EXCEPT ![s] = IF recorded[s] = None THEN Out
                                   ELSE [At("drop") EXCEPT !.tid = recorded[s]]]
    /\ UNCHANGED <<outside, link, tunnels, maps, local, breaks>>
CleanDrop(s) ==
    /\ loop[s].pc = "drop"
    /\ LET stale == {i \in Stream : mapped[i] = loop[s].tid}
       IN /\ streams' = [i \in Stream |-> IF i \in stale THEN Nothing ELSE streams[i]]
          /\ mapped' = [i \in Stream |-> IF i \in stale THEN None ELSE mapped[i]]
    /\ recorded' = [recorded EXCEPT ![s] = None]
    /\ loop' = [loop EXCEPT ![s] = Out]
    /\ UNCHANGED <<outside, link, opened, count, local, breaks>>

(* The manager aborts the task, at whatever await it is: what it has in     *)
(* hand is lost, the servers entry stays, and nobody cleans up.             *)
Abort(s) ==
    /\ loop[s].pc # "out" /\ breaks < MaxBreaks
    /\ loop' = [loop EXCEPT ![s] = Out]
    /\ link' = [link EXCEPT ![s] = IF @ = "up" THEN "unread" ELSE @]
    /\ down' = [down EXCEPT ![s] = <<>>]
    /\ breaks' = breaks + 1
    /\ UNCHANGED <<player, told, tunnels, maps, local>>

(* A task connects, one that went on or a new one; an entry an aborted task *)
(* left in servers is dropped, which ends its session.                      *)
Connect(s) ==
    /\ loop[s].pc = "out"
    /\ link' = [link EXCEPT ![s] = "up"]
    /\ loop' = [loop EXCEPT ![s] = Reading]
    /\ EndSession(s)
    /\ UNCHANGED <<down, recorded, count, maps, local, breaks>>

(* sync_tunnels records the row and opens its tunnel, or forgets it; the    *)
(* server may still accept players when the client has forgotten.           *)
SyncOpens(s) ==
    /\ recorded[s] = None /\ link[s] # "none" /\ count < MaxTunnels
    /\ count' = count + 1
    /\ recorded' = [recorded EXCEPT ![s] = count + 1]
    /\ opened' = IF InSession(s) THEN [opened EXCEPT ![s] = count + 1] ELSE opened
    /\ UNCHANGED <<outside, link, loop, maps, local, breaks>>
SyncForgets(s) ==
    /\ recorded[s] # None
    /\ recorded' = [recorded EXCEPT ![s] = None]
    /\ UNCHANGED <<outside, link, opened, count, loop, maps, local, breaks>>

-----------------------------------------------------------------------------
(* A local connection.                                                      *)

LocalAt(c, pc) == local[c].pc = pc
LocalTo(c, pc) == local' = [local EXCEPT ![c].pc = pc]
Quit(c) == local' = [local EXCEPT ![c].pc = "telling", ![c].queue = <<>>]
OnlyLocal == UNCHANGED <<outside, link, tunnels, loop, maps, breaks>>

ConnectLocal(c) ==
    /\ LocalAt(c, "connecting")
    /\ LocalTo(c, "running") \/ LocalTo(c, "failing")
    /\ OnlyLocal

(* What is removed is what the number leads to by now. *)
(* Mutant: a failed connect leaves its entries. *)
RemovedNever(m, c, none) == IF LocalAt(c, "failing") THEN m ELSE [m EXCEPT ![c.id] = none]
Removed(m, c, none) == [m EXCEPT ![c.id] = none]

(* The connect failed: the maps and StreamClose under one lock. *)
ConnectFailed(c) ==
    /\ LocalAt(c, "failing")
    /\ streams' = Removed(streams, c, Nothing) /\ mapped' = Removed(mapped, c, None)
    /\ Tell(c)
    /\ local' = [local EXCEPT ![c].pc = "done", ![c].queue = <<>>]
    /\ UNCHANGED <<player, down, link, tunnels, loop, breaks>>

(* Mutant: a write that timed out is tried again. *)
WrittenAgain(q) == q
Written(q) == Tail(q)
(* write_task: data for the local server. *)
WriteLocal(c) ==
    /\ LocalAt(c, "running") /\ local[c].queue # <<>>
    /\ local' = [local EXCEPT ![c].queue = Written(@), ![c].got = Append(@, Head(local[c].queue))]
    /\ OnlyLocal

HeldByLoop(c) == \E s \in Server : loop[s].pc = "send" /\ loop[s].to = c
(* Mutant: the connection's own task keeps a clone of its sender. *)
SenderGoneHeld(c) == streams[c.id] # c /\ ~HeldByLoop(c) /\ local[c].pc = "done"
SenderGone(c) == streams[c.id] # c /\ ~HeldByLoop(c)
(* write_task: every sender is dropped and the channel is empty. *)
ChannelEnds(c) ==
    /\ LocalAt(c, "running") /\ local[c].queue = <<>> /\ SenderGone(c)
    /\ Quit(c)
    /\ OnlyLocal

(* Mutant: the timeout is taken from the TCP half, which has none. *)
TimeoutNone == {}
Timeout == Udp
(* write_task of a UDP session: 120 s without data. *)
Inactive(c) ==
    /\ LocalAt(c, "running") /\ local[c].queue = <<>> /\ c.id \in Timeout
    /\ Quit(c)
    /\ OnlyLocal

(* The local server closes, a write fails, or a read finds no connection.   *)
LocalEnds(c) ==
    /\ LocalAt(c, "running")
    /\ Quit(c)
    /\ OnlyLocal

SendStreamClose(c) ==
    /\ LocalAt(c, "telling")
    /\ Tell(c)
    /\ LocalTo(c, "unmap")
    /\ UNCHANGED <<player, down, link, tunnels, loop, maps, breaks>>
Unmap(c) ==
    /\ LocalAt(c, "unmap")
    /\ streams' = Removed(streams, c, Nothing) /\ mapped' = Removed(mapped, c, None)
    /\ LocalTo(c, "done")
    /\ UNCHANGED <<outside, link, tunnels, loop, breaks>>

-----------------------------------------------------------------------------
FrameLoop(s) ==
    \/ HandleNew(s) \/ InsertStream(s) \/ HandleClose(s) \/ HandleData(s)
    \/ SendData(s) \/ RefuseData(s) \/ ForgetStream(s)
    \/ Disconnect(s) \/ CleanRead(s) \/ CleanDrop(s)
LocalTask(c) ==
    \/ ConnectLocal(c) \/ ConnectFailed(c) \/ WriteLocal(c) \/ ChannelEnds(c)
    \/ Inactive(c) \/ SendStreamClose(c) \/ Unmap(c)

Next ==
    \/ \E c \in Conn : Player(c) \/ ServerHears(c) \/ LocalTask(c) \/ LocalEnds(c)
    \/ \E s \in Server :
          \/ FrameLoop(s) \/ Break(s) \/ Abort(s) \/ Connect(s)
          \/ SyncOpens(s) \/ SyncForgets(s)
Spec == Init /\ [][Next]_vars

(* The runtime runs every task; a local write ends within 30 s, a connect   *)
(* within the limits of the system.                                         *)
Fairness == (\A s \in Server : WF_vars(FrameLoop(s))) /\ (\A c \in Conn : WF_vars(LocalTask(c)))
FairSpec == Spec /\ Fairness

-----------------------------------------------------------------------------
TypeOK ==
    /\ player \in [Conn -> [st : {"none", "early", "open", "closed"}, sent : Nat]]
    /\ \A c \in Conn : player[c].sent <= MaxData[c.id]
    /\ \A s \in Server : Len(down[s]) <= Window
    /\ told \subseteq Conn
    /\ link \in [Server -> {"none", "up", "unread", "broken"}]
    /\ count \in 0..MaxTunnels
    /\ recorded \in [Server -> 0..count] /\ opened \in [Server -> 0..count]
    /\ \A s \in Server :
          loop[s].pc \in {"read", "insert", "send", "refuse", "forget", "clean", "drop", "out"}
    /\ streams \in [Stream -> Conn \cup {Nothing}]
    /\ mapped \in [Stream -> 0..count]
    /\ \A c \in Conn :
          /\ local[c].pc \in {"none", "connecting", "running", "failing", "telling", "unmap", "done"}
          /\ Len(local[c].queue) <= Capacity
    /\ breaks \in 0..MaxBreaks

(* A local server receives the data of one player, all of it so far and in  *)
(* the order it was sent, whatever else goes on (964-986, 1171-1186).       *)
OwnDataInOrder ==
    \A c \in Conn : \A k \in 1..Len(local[c].got) : local[c].got[k] = Data(c, k)

(* An entry of streams belongs to a connection that still has to end and    *)
(* will remove it, and its number is in stream_tunnel, too, where the       *)
(* clean-up finds it: no stream outlives its connection, and none escapes   *)
(* the clean-up of its tunnel (428-446, 1032-1124, 1202-1204, 981-983).     *)
StreamsOwned ==
    \A i \in Stream : streams[i] # Nothing =>
        local[streams[i]].pc # "done" /\ mapped[i] # None

(* A server that still has a stream open is told when its local connection  *)
(* is over, also when that connection never came about (1066, 1123, 1199).  *)
EndIsTold ==
    \A c \in Conn : local[c].pc = "done" /\ player[c].st = "open" => c \in told

(* A local connection whose stream was closed by the server or dropped by   *)
(* the clean-up ends without the local server doing anything (428-446).     *)
DroppedStreamEnds ==
    \A c \in Conn : (local[c].pc \in {"connecting", "running"} /\ streams[c.id] # c)
                        ~> local[c].pc = "done"

(* A UDP session that is over at the server ends here too, even if its      *)
(* StreamClose came first or was lost (1252-1272).                          *)
UdpSessionEnds ==
    \A c \in Conn : (c.id \in Udp /\ player[c].st = "closed") ~> local[c].pc \in {"none", "done"}
=============================================================================
