------------------------- MODULE ServerTunnelsProofs -------------------------
(****************************************************************************)
(* Safety of ServerTunnels for every number of connections, tunnels, ports, *)
(* players and stream ids and every capacity of the channel.                *)
(*                                                                          *)
(* The inductive invariant IInv joins the three properties proved           *)
(* (StreamsOwned, TcpListenerOwned, UdpTaskOwned) and TypeOK to the two     *)
(* facts they rest on: Targets says that the tunnel OpenTunnel works on is  *)
(* a tunnel id, in the map once it is to be announced, and that a UDP task  *)
(* at work holds a stream; StreamIds that an id not handed out yet has no   *)
(* task, so that a fresh id is in no map.                                   *)
(*                                                                          *)
(* First come lemmas on moving a loop or a task on, then one lemma per      *)
(* action (<Action>Step: it preserves IInv, the type of each variable it    *)
(* assigns first, then each conjunct it can disturb; the *Frame lemmas      *)
(* stand for the others), then the steps of each actor, Next, and the       *)
(* theorems at the end.                                                     *)
(****************************************************************************)
EXTENDS ServerTunnels, SequenceTheorems, TLAPS

(* Stream ids are numbers, and 0, "no stream", is none. *)
LEMMA SidsAreNumbers == Sid \subseteq Nat /\ 0 \notin Sid
  BY BoundAssumption DEF Sid

(* Moving the frame loop, a player task or a UDP task on keeps its type. *)
LEMMA GotoType ==
    ASSUME TypeOK, NEW s, NEW pc \in LoopPc, Goto(s, pc)
    PROVE  hc' \in [Session -> LoopType]
<1>1. hc \in [Session -> LoopType]
  BY DEF TypeOK
<1>2. ASSUME NEW l \in LoopType PROVE [l EXCEPT !.pc = pc] \in LoopType
  BY <1>2 DEF LoopType
<1> QED
  BY <1>1, <1>2 DEF Goto

(* The same of a player task. *)
LEMMA ConnGotoType ==
    ASSUME TypeOK, NEW sid, NEW pc \in ConnPc, ConnGoto(sid, pc)
    PROVE  conn' \in [Sid -> ConnType]
<1>1. conn \in [Sid -> ConnType]
  BY DEF TypeOK
<1>2. ASSUME NEW c \in ConnType PROVE [c EXCEPT !.pc = pc] \in ConnType
  BY <1>2 DEF ConnType
<1> QED
  BY <1>1, <1>2 DEF ConnGoto

(* The same of a UDP task. *)
LEMMA UdpGotoType ==
    ASSUME TypeOK, NEW s \in Session, NEW t, NEW pc \in UdpPc, UdpGoto(s, t, pc)
    PROVE  udp_task' \in [Session -> [TunnelId -> UdpType]]
<1>1. udp_task \in [Session -> [TunnelId -> UdpType]]
  BY DEF TypeOK
<1>2. ASSUME NEW u \in UdpType PROVE [u EXCEPT !.pc = pc] \in UdpType
  BY <1>2 DEF UdpType
<1>3. udp_task[s] \in [TunnelId -> UdpType]
  BY <1>1
<1>4. [udp_task[s] EXCEPT ![t] = [@ EXCEPT !.pc = pc]] \in [TunnelId -> UdpType]
  BY <1>2, <1>3
<1> QED
  BY <1>1, <1>4 DEF UdpGoto

(* What the frame loop and a UDP task hold. *)
LEMMA LoopFields ==
    ASSUME TypeOK, NEW s \in Session
    PROVE  /\ hc[s].pc \in LoopPc /\ hc[s].tid \in TunnelId \cup {0} /\ hc[s].tid \in Nat
           /\ hc[s].left \subseteq Sid /\ hc[s].sids \subseteq Sid
<1>1. hc[s] \in LoopType
  BY DEF TypeOK
<1>2. hc[s].tid \in TunnelId \cup {0} /\ hc[s].left \subseteq Sid /\ hc[s].sids \subseteq Sid
  BY <1>1 DEF LoopType
<1>3. hc[s].pc \in LoopPc
  BY <1>1 DEF LoopType
<1>4. TunnelId \subseteq Nat
  BY IdAssumption
<1>5. hc[s].tid \in Nat
  BY <1>2, <1>4
<1> QED
  BY <1>2, <1>3, <1>5

(* What a UDP task holds. *)
LEMMA UdpFields ==
    ASSUME TypeOK, NEW s \in Session, NEW t \in TunnelId
    PROVE  udp_task[s][t].sid \in Sid \cup {0} /\ udp_task[s][t].sid \in Nat
<1>1. udp_task[s][t] \in UdpType
  BY DEF TypeOK
<1>2. udp_task[s][t].sid \in Sid \cup {0}
  BY <1>1 DEF UdpType
<1>3. Sid \cup {0} \subseteq Nat
  BY SidsAreNumbers
<1> QED
  BY <1>2, <1>3

(* A stage of the frame loop has the type of the loop. *)
LEMMA StageType ==
    ASSUME NEW pc \in LoopPc, NEW t \in TunnelId \cup {0}, NEW X \in SUBSET Sid
    PROVE  Stage(pc, t, X) \in LoopType
  BY DEF Stage, LoopType

(* So has the loop that waits for a frame. *)
LEMMA IdleType == Idle \in LoopType
  BY StageType DEF Idle, LoopPc

(* A send puts a frame on a channel of frames. *)
LEMMA SendType ==
    ASSUME TypeOK, NEW s, NEW f \in Frame, Send(s, f)
    PROVE  chan' \in [Session -> Seq(Frame)] /\ UNCHANGED <<chan_open, view>>
<1>1. chan \in [Session -> Seq(Frame)]
  BY DEF TypeOK
<1>2. CASE s \in Session
  <2>1. Append(chan[s], f) \in Seq(Frame)
    BY <1>1, <1>2, AppendProperties
  <2> QED
    BY <1>1, <1>2, <2>1 DEF Send
<1>3. CASE s \notin Session
  BY <1>1, <1>3 DEF Send
<1> QED
  BY <1>2, <1>3

(* Msg builds frames. *)
LEMMA FrameType ==
    ASSUME NEW type \in {"TunnelOpened", "CloseTunnel", "NewConnection", "Data",
                         "StreamClose"},
           NEW id \in Nat
    PROVE  Msg(type, id) \in Frame
  BY DEF Msg, Frame

(* Every variable starts in its type. *)
LEMMA InitType == Init => TypeOK
<1> SUFFICES ASSUME Init PROVE TypeOK
  OBVIOUS
<1>1. hc \in [Session -> LoopType]
  BY IdleType DEF Init
<1>2. udp_task \in [Session -> [TunnelId -> UdpType]]
  BY DEF Init, UdpType, UdpPc
<1>3. conn \in [Sid -> ConnType]
  BY DEF Init, ConnType, ConnPc
<1>4. next_sid \in 1 .. MaxStream + 1
  <2>1. next_sid = 1
    BY DEF Init
  <2> QED
    BY <2>1, BoundAssumption
<1>5. chan \in [Session -> Seq(Frame)]
  BY DEF Init
<1>6. req \in [Session -> [TunnelId -> Request \cup {NoRequest}]]
  BY DEF Init
<1>7. peer_streams \in [Session -> [TunnelId -> [Peer -> Sid \cup {0}]]]
  BY DEF Init
<1>8. /\ tcp_task \in [Session -> [TunnelId -> {"none", "run", "end"}]]
      /\ last_seen \in [Session -> [TunnelId -> SUBSET Peer]]
      /\ view \in [Session -> [Sid -> {"none", "open", "closed"}]]
  BY DEF Init
<1>9. /\ sess \in [Session -> {"idle", "up", "down"}]
      /\ tunnels \in [Session -> SUBSET TunnelId] /\ shutdown \in [Session -> SUBSET TunnelId]
      /\ streams \in [Session -> SUBSET Sid] /\ udp_peers \in [Session -> SUBSET Sid]
      /\ stream_tunnel \in [Session -> SUBSET Sid]
      /\ registry \subseteq Sid /\ chan_open \in [Session -> BOOLEAN]
  BY DEF Init
<1> QED
  BY <1>1, <1>2, <1>3, <1>4, <1>5, <1>6, <1>7, <1>8, <1>9 DEF TypeOK

(* What a step that leaves the variables of a part alone does to it. *)
LEMMA StreamIdsFrame == StreamIds /\ UNCHANGED <<conn, next_sid>> => StreamIds'
  BY DEF StreamIds
(* The same of Targets. *)
LEMMA TargetsFrame == Targets /\ UNCHANGED <<hc, tunnels, udp_task>> => Targets'
  BY DEF Targets
(* The same of StreamsOwned. *)
LEMMA StreamsOwnedFrame == StreamsOwned /\ UNCHANGED <<streams, conn>> => StreamsOwned'
  BY DEF StreamsOwned, IsTcp
(* The same of TcpListenerOwned. *)
LEMMA TcpListenerOwnedFrame ==
    TcpListenerOwned /\ UNCHANGED <<tcp_task, tunnels, shutdown, hc>> => TcpListenerOwned'
  BY DEF TcpListenerOwned, Opening
(* The same of UdpTaskOwned. *)
LEMMA UdpTaskOwnedFrame ==
    UdpTaskOwned /\ UNCHANGED <<udp_task, tunnels, shutdown, hc>> => UdpTaskOwned'
  BY DEF UdpTaskOwned, Opening, UdpAlive

(* A step of a task never changes what its stream is a stream of. *)
SameIds ==
    \A sid \in Sid : /\ conn'[sid].kind = conn[sid].kind
                     /\ conn'[sid].sess = conn[sid].sess
                     /\ conn'[sid].tid = conn[sid].tid
Mapped == \A sid \in Sid : conn'[sid].pc = conn[sid].pc \/ conn'[sid].pc \in MappedPc

(* Moving a player task on leaves every stream the stream it was. *)
LEMMA GotoKeepsIds ==
    ASSUME TypeOK, NEW sid, NEW pc, ConnGoto(sid, pc)
    PROVE  SameIds
<1>1. conn \in [Sid -> ConnType]
  BY DEF TypeOK
<1>2. conn' = [conn EXCEPT ![sid] = [conn[sid] EXCEPT !.pc = pc]]
  BY DEF ConnGoto
<1>3. ASSUME NEW c \in ConnType
      PROVE  LET d == [c EXCEPT !.pc = pc] IN
             d.kind = c.kind /\ d.sess = c.sess /\ d.tid = c.tid
  BY DEF ConnType
<1> QED
  BY <1>1, <1>2, <1>3 DEF SameIds

(* A player task moved to a place between MapStream and Unmap is in one. *)
LEMMA GotoMapped ==
    ASSUME TypeOK, NEW sid, NEW pc \in MappedPc, ConnGoto(sid, pc)
    PROVE  Mapped
<1>1. conn \in [Sid -> ConnType]
  BY DEF TypeOK
<1>2. conn' = [conn EXCEPT ![sid] = [conn[sid] EXCEPT !.pc = pc]]
  BY DEF ConnGoto
<1>3. ASSUME NEW c \in ConnType PROVE [c EXCEPT !.pc = pc].pc = pc
  BY DEF ConnType
<1> QED
  BY <1>1, <1>2, <1>3 DEF Mapped

(* Where a player task stands once it has moved. *)
LEMMA GotoPc ==
    ASSUME TypeOK, NEW sid \in Sid, NEW pc, ConnGoto(sid, pc)
    PROVE  conn'[sid].pc = pc
<1>1. conn \in [Sid -> ConnType] /\ conn[sid] \in ConnType
  BY DEF TypeOK
<1>2. conn' = [conn EXCEPT ![sid] = [conn[sid] EXCEPT !.pc = pc]]
  BY DEF ConnGoto
<1>3. [conn[sid] EXCEPT !.pc = pc].pc = pc
  BY <1>1 DEF ConnType
<1> QED
  BY <1>1, <1>2, <1>3

(* StreamIds speaks of what a stream is a stream of, and of the counter. *)
LEMMA StreamIdsKept ==
    ASSUME StreamIds, SameIds, UNCHANGED next_sid
    PROVE  StreamIds'
  BY DEF StreamIds, SameIds

(* Entries of streams stay owned while no task leaves the mapped places. *)
LEMMA OwnedKept ==
    ASSUME TypeOK, StreamsOwned, SameIds, Mapped, UNCHANGED streams
    PROVE  StreamsOwned'
  BY DEF StreamsOwned, SameIds, Mapped, IsTcp, TypeOK

(* Taking entries out of streams strands none. *)
LEMMA OwnedShrinks ==
    ASSUME StreamsOwned, UNCHANGED conn, \A s \in Session : streams'[s] \subseteq streams[s]
    PROVE  StreamsOwned'
  BY DEF StreamsOwned, IsTcp

(* Reading db_id changes neither. *)
LEMMA LookupKeeps ==
    ASSUME TypeOK, NEW sid \in Sid, LookupDb(sid)
    PROVE  SameIds /\ Mapped
<1> DEFINE d == db_of(conn[sid].sess, conn[sid].tid)
<1>1. conn \in [Sid -> ConnType]
  BY DEF TypeOK
<1>2. conn' = [conn EXCEPT ![sid] = [[conn[sid] EXCEPT !.pc = "register"] EXCEPT !.db = d]]
  BY DEF LookupDb
<1> HIDE DEF d
<1>3. ASSUME NEW c \in ConnType
      PROVE  LET e == [[c EXCEPT !.pc = "register"] EXCEPT !.db = d] IN
             e.pc = "register" /\ e.kind = c.kind /\ e.sess = c.sess /\ e.tid = c.tid
  BY DEF ConnType
<1> QED
  BY <1>1, <1>2, <1>3 DEF SameIds, Mapped, MappedPc

(* Nor does the UDP task reading it. *)
LEMMA UdpLookupKeeps ==
    ASSUME TypeOK, NEW s, NEW t, UdpLookupDb(s, t)
    PROVE  SameIds /\ Mapped
<1> DEFINE d == db_of(s, t)
           sid == udp_task[s][t].sid
<1>1. conn \in [Sid -> ConnType]
  BY DEF TypeOK
<1>2. conn' = [conn EXCEPT ![sid] = [conn[sid] EXCEPT !.db = d]]
  BY DEF UdpLookupDb
<1> HIDE DEF d, sid
<1>3. ASSUME NEW c \in ConnType
      PROVE  LET e == [c EXCEPT !.db = d] IN
             e.pc = c.pc /\ e.kind = c.kind /\ e.sess = c.sess /\ e.tid = c.tid
  BY DEF ConnType
<1> QED
  BY <1>1, <1>2, <1>3 DEF SameIds, Mapped

(* A player task moving on between two places in the maps. *)
LEMMA ConnGotoStep ==
    ASSUME TypeOK, StreamIds, StreamsOwned, NEW sid, NEW pc \in MappedPc,
           ConnGoto(sid, pc), UNCHANGED <<streams, next_sid>>
    PROVE  StreamIds' /\ StreamsOwned'
<1>1. SameIds
  BY GotoKeepsIds
<1>2. Mapped
  BY GotoMapped
<1> QED
  BY <1>1, <1>2, StreamIdsKept, OwnedKept

(* A new stream id: nobody has it in a map yet. *)
LEMMA NewStreamStep ==
    ASSUME TypeOK, StreamIds, StreamsOwned, NEW s \in Session, NEW t \in TunnelId,
           NEW kind \in {"tcp", "udp"}, NEW pc, next_sid \in Sid,
           conn' = [conn EXCEPT ![next_sid] = NewConn(kind, pc, s, t)],
           next_sid' = next_sid + 1, UNCHANGED streams
    PROVE  StreamIds' /\ StreamsOwned'
<1>1. conn \in [Sid -> ConnType]
  BY DEF TypeOK
<1>2. /\ conn'[next_sid].kind = kind /\ conn'[next_sid].sess = s /\ conn'[next_sid].tid = t
      /\ \A sid \in Sid : sid # next_sid => conn'[sid] = conn[sid]
  BY <1>1 DEF NewConn
<1>3. StreamIds'
  <2> SUFFICES ASSUME NEW sid \in Sid
               PROVE  /\ conn'[sid].kind # "none" =>
                            conn'[sid].sess \in Session /\ conn'[sid].tid \in TunnelId
                      /\ sid >= next_sid' => conn'[sid].kind = "none"
    BY DEF StreamIds
  <2>1. CASE sid = next_sid
    BY <1>2, <2>1, SidsAreNumbers
  <2>2. CASE sid # next_sid
    <3>1. sid >= next_sid' => sid >= next_sid
      BY SidsAreNumbers
    <3> QED
      BY <1>2, <2>2, <3>1 DEF StreamIds
  <2> QED
    BY <2>1, <2>2
<1>4. \A x \in Session : next_sid \notin streams[x]
  <2>1. conn[next_sid].kind = "none"
    BY SidsAreNumbers DEF StreamIds
  <2> QED
    BY <2>1 DEF StreamsOwned, IsTcp
<1>5. StreamsOwned'
  <2>1. \A x \in Session : streams[x] \subseteq Sid
    BY DEF TypeOK
  <2> QED
    BY <1>2, <1>4, <2>1 DEF StreamsOwned, IsTcp
<1> QED
  BY <1>3, <1>5

(* What the frame loop does at session s leaves the others alone, and keeps *)
(* every listener covered that was.                                         *)
Covered(s, t) == t \in tunnels[s] \/ t \in shutdown[s] \/ Opening(s, t)

(* The frame loop of s steps: enough for the listeners to stay covered. *)
LEMMA LoopStepKeeps ==
    ASSUME Targets, TcpListenerOwned, UdpTaskOwned, NEW s \in Session,
           UNCHANGED <<tcp_task, udp_task>>,
           \A x \in Session : x # s => hc'[x] = hc[x] /\ tunnels'[x] = tunnels[x]
                                       /\ shutdown'[x] = shutdown[x],
           hc'[s].pc \in OpeningPc => hc'[s].tid \in TunnelId,
           hc'[s].pc = "opened" => hc'[s].tid \in tunnels'[s],
           \A t \in TunnelId : Covered(s, t) => Covered(s, t)'
    PROVE  Targets' /\ TcpListenerOwned' /\ UdpTaskOwned'
<1>1. Targets'
  BY DEF Targets
<1>2. \A x \in Session, t \in TunnelId : Covered(x, t) => Covered(x, t)'
  BY DEF Covered, Opening
<1>3. TcpListenerOwned'
  BY <1>2 DEF TcpListenerOwned, Covered
<1>4. UdpTaskOwned'
  BY <1>2 DEF UdpTaskOwned, Covered, UdpAlive
<1> QED
  BY <1>1, <1>3, <1>4

(* Where the loop stands after a step of each kind. *)
LEMMA GotoMoves ==
    ASSUME TypeOK, NEW s \in Session, NEW pc, Goto(s, pc)
    PROVE  /\ hc'[s].pc = pc /\ hc'[s].tid = hc[s].tid
           /\ \A x \in Session : x # s => hc'[x] = hc[x]
<1>1. hc \in [Session -> LoopType] /\ hc[s] \in LoopType
  BY DEF TypeOK
<1>2. hc' = [hc EXCEPT ![s] = [hc[s] EXCEPT !.pc = pc]]
  BY DEF Goto
<1>3. [hc[s] EXCEPT !.pc = pc].pc = pc /\ [hc[s] EXCEPT !.pc = pc].tid = hc[s].tid
  BY <1>1 DEF LoopType
<1> QED
  BY <1>1, <1>2, <1>3

(* The same for a stage that a frame starts. *)
LEMMA StageMoves ==
    ASSUME TypeOK, NEW s \in Session, NEW pc, NEW t, NEW X,
           hc' = [hc EXCEPT ![s] = Stage(pc, t, X)]
    PROVE  /\ hc'[s].pc = pc /\ hc'[s].tid = t
           /\ \A x \in Session : x # s => hc'[x] = hc[x]
<1>1. hc \in [Session -> LoopType]
  BY DEF TypeOK
<1> QED
  BY <1>1 DEF Stage

(* Steps of the loop that have nothing to do with opening a tunnel. *)
LEMMA LoopAside ==
    ASSUME TypeOK, Targets, TcpListenerOwned, UdpTaskOwned, NEW s \in Session,
           \A x \in Session : x # s => hc'[x] = hc[x],
           hc[s].pc \notin OpeningPc, hc'[s].pc \notin OpeningPc,
           UNCHANGED <<tcp_task, udp_task, tunnels, shutdown>>
    PROVE  Targets' /\ TcpListenerOwned' /\ UdpTaskOwned'
<1>1. hc'[s].pc # "opened"
  BY DEF OpeningPc
<1>2. \A t \in TunnelId : Covered(s, t) => Covered(s, t)'
  BY DEF Covered, Opening
<1> QED
  BY <1>1, <1>2, LoopStepKeeps

(* A step of the UDP task of tunnel t. *)
LEMMA UdpGotoMoves ==
    ASSUME TypeOK, NEW s \in Session, NEW t \in TunnelId, NEW pc, UdpGoto(s, t, pc)
    PROVE  /\ udp_task'[s][t].pc = pc /\ udp_task'[s][t].sid = udp_task[s][t].sid
           /\ \A x \in Session, y \in TunnelId :
                 x # s \/ y # t => udp_task'[x][y] = udp_task[x][y]
<1>1. /\ udp_task \in [Session -> [TunnelId -> UdpType]]
      /\ udp_task[s] \in [TunnelId -> UdpType] /\ udp_task[s][t] \in UdpType
  BY DEF TypeOK
<1> DEFINE u == [udp_task[s][t] EXCEPT !.pc = pc]
<1>2. udp_task' = [udp_task EXCEPT ![s] = [udp_task[s] EXCEPT ![t] = u]]
  BY DEF UdpGoto
<1>3. u.pc = pc /\ u.sid = udp_task[s][t].sid
  BY <1>1 DEF UdpType
<1> HIDE DEF u
<1> QED
  BY <1>1, <1>2, <1>3

(* What a live UDP task does on its own keeps it covered. *)
LEMMA UdpStepKeeps ==
    ASSUME Targets, UdpTaskOwned, NEW s \in Session, NEW t \in TunnelId,
           \A x \in Session, y \in TunnelId :
              x # s \/ y # t => udp_task'[x][y] = udp_task[x][y],
           UdpAlive(s, t),
           udp_task'[s][t].pc \notin {"none", "recv", "end", "failed"} => udp_task'[s][t].sid \in Sid,
           UNCHANGED <<hc, tunnels, shutdown>>
    PROVE  Targets' /\ UdpTaskOwned'
<1>1. Targets'
  BY DEF Targets
<1>2. \A x \in Session, y \in TunnelId : UdpAlive(x, y)' => UdpAlive(x, y)
  BY DEF UdpAlive
<1>3. UdpTaskOwned'
  BY <1>2 DEF UdpTaskOwned, Opening
<1> QED
  BY <1>1, <1>3

(* Connect assigns sess and chan_open. *)
LEMMA ConnectStep ==
    ASSUME IInv, NEW s \in Session, Connect(s)
    PROVE  IInv'
<1>a. Connect(s)
  OBVIOUS
<1>b. TypeOK /\ StreamIds /\ Targets /\ StreamsOwned /\ TcpListenerOwned /\ UdpTaskOwned
  BY DEF IInv
<1>1. (sess \in [Session -> {"idle", "up", "down"}])'
  BY <1>a, <1>b DEF Connect, TypeOK
<1>2. (chan_open \in [Session -> BOOLEAN])'
  BY <1>a, <1>b DEF Connect, TypeOK
<1>3. UNCHANGED <<hc, req, state, registry, next_sid, tasks, conn, chan, view>>
  BY <1>a DEF Connect
<1>4. TypeOK'
  BY <1>b, <1>1, <1>2, <1>3 DEF TypeOK, loop, state, seen, udp, tasks, wire
<1> QED
    BY <1>b, <1>3, <1>4, StreamIdsFrame, TargetsFrame, StreamsOwnedFrame,
     TcpListenerOwnedFrame, UdpTaskOwnedFrame DEF IInv, loop, state, seen, udp, tasks

(* HandleOpenTunnel assigns hc and req. *)
LEMMA HandleOpenTunnelStep ==
    ASSUME IInv, NEW s \in Session, NEW t \in TunnelId, NEW r \in Request, HandleOpenTunnel(s, t, r)
    PROVE  IInv'
<1>a. HandleOpenTunnel(s, t, r)
  OBVIOUS
<1>b. TypeOK /\ StreamIds /\ Targets /\ StreamsOwned /\ TcpListenerOwned /\ UdpTaskOwned
  BY DEF IInv
<1>1. (hc \in [Session -> LoopType])'
  <2> USE <1>b
  <2>1. hc \in [Session -> LoopType]
    BY DEF TypeOK
  <2>2. \A pc \in LoopPc : Stage(pc, t, {}) \in LoopType
    BY StageType
  <2>3. \/ hc' = hc
        \/ \E pc \in LoopPc : hc' = [hc EXCEPT ![s] = Stage(pc, t, {})]
    BY <1>a DEF HandleOpenTunnel, LoopPc
  <2> QED
    BY <2>1, <2>2, <2>3
<1>2. (req \in [Session -> [TunnelId -> Request \cup {NoRequest}]])'
  <2> USE <1>b
  <2>1. req' = req \/ req' = [req EXCEPT ![s][t] = r]
    BY <1>a DEF HandleOpenTunnel
  <2>2. req \in [Session -> [TunnelId -> Request \cup {NoRequest}]]
    BY DEF TypeOK
  <2> QED
    BY <2>1, <2>2
<1>3. UNCHANGED <<sess, state, registry, next_sid, tasks, conn, wire>>
  BY <1>a DEF HandleOpenTunnel
<1>4. TypeOK'
  BY <1>b, <1>1, <1>2, <1>3 DEF TypeOK, loop, state, seen, udp, tasks, wire
<1>5. Targets' /\ TcpListenerOwned' /\ UdpTaskOwned'
  <2>1. hc[s].pc = "read" /\ UNCHANGED <<tcp_task, udp_task, tunnels, shutdown>>
    BY <1>a DEF HandleOpenTunnel, At, loop, state, seen, udp, tasks
  <2>2. CASE hc' = hc
    BY <1>b, <2>1, <2>2, TargetsFrame, TcpListenerOwnedFrame, UdpTaskOwnedFrame
  <2>3. ASSUME NEW pc \in {"reject", "bind_udp", "bind_tcp"}, hc' = [hc EXCEPT ![s] = Stage(pc, t, {})]
        PROVE  Targets' /\ TcpListenerOwned' /\ UdpTaskOwned'
    <3>1. /\ hc'[s].pc = pc /\ hc'[s].tid = t
          /\ \A x \in Session : x # s => hc'[x] = hc[x]
      BY <1>b, <2>3, StageMoves
    <3>2. \A y \in TunnelId : Covered(s, y) => Covered(s, y)'
      BY <2>1 DEF Covered, Opening, OpeningPc
    <3>3. hc'[s].pc # "opened"
      BY <3>1
    <3> QED
      BY <1>b, <2>1, <3>1, <3>2, <3>3, LoopStepKeeps
  <2> QED
    BY <1>a, <2>2, <2>3 DEF HandleOpenTunnel
<1> QED
    BY <1>b, <1>3, <1>4, <1>5, StreamIdsFrame, StreamsOwnedFrame DEF IInv, loop, state,
     seen, udp, tasks

(* BindTcp assigns hc and tcp_task. *)
LEMMA BindTcpStep ==
    ASSUME IInv, NEW s \in Session, BindTcp(s)
    PROVE  IInv'
<1>a. BindTcp(s)
  OBVIOUS
<1>b. TypeOK /\ StreamIds /\ Targets /\ StreamsOwned /\ TcpListenerOwned /\ UdpTaskOwned
  BY DEF IInv
<1>1. (hc \in [Session -> LoopType])'
  BY <1>a, <1>b, GotoType DEF BindTcp, LoopPc
<1>2. (tcp_task \in [Session -> [TunnelId -> {"none", "run", "end"}]])'
  <2> USE <1>b
  <2>1. tcp_task' = [tcp_task EXCEPT ![s][hc[s].tid] = "run"]
    BY <1>a DEF BindTcp
  <2>2. tcp_task \in [Session -> [TunnelId -> {"none", "run", "end"}]]
    BY DEF TypeOK
  <2> QED
    BY <2>1, <2>2
<1>3. UNCHANGED <<sess, req, state, registry, next_sid, udp, shutdown, conn, wire>>
  BY <1>a DEF BindTcp
<1>4. TypeOK'
  BY <1>b, <1>1, <1>2, <1>3 DEF TypeOK, loop, state, seen, udp, tasks, wire
<1>5. Targets' /\ TcpListenerOwned' /\ UdpTaskOwned'
  <2>1. hc[s].pc = "bind_tcp" /\ UNCHANGED <<udp_task, tunnels, shutdown>>
    BY <1>a DEF BindTcp, At, loop, state, seen, udp, tasks
  <2>2. PICK pc \in {"bind_udp", "insert"} : Goto(s, pc)
    BY <1>a DEF BindTcp
  <2>3. /\ hc'[s].pc = pc /\ hc'[s].tid = hc[s].tid
        /\ \A x \in Session : x # s => hc'[x] = hc[x]
    BY <1>b, <2>2, GotoMoves
  <2>4. hc[s].tid \in TunnelId
    BY <1>b, <2>1 DEF Targets, OpeningPc
  <2>5. \A x \in Session, t \in TunnelId : Covered(x, t) => Covered(x, t)'
    BY <2>1, <2>2, <2>3 DEF Covered, Opening, OpeningPc
  <2>6. Targets'
    BY <1>b, <2>1, <2>2, <2>3, <2>4 DEF Targets, OpeningPc
  <2>7. UdpTaskOwned'
    BY <1>b, <2>1, <2>5 DEF UdpTaskOwned, Covered, UdpAlive
  <2>8. TcpListenerOwned'
    <3>1. \A t : t = hc[s].tid => Covered(s, t)'
      BY <2>2, <2>3 DEF Covered, Opening, OpeningPc
    <3>2. \A x \in Session, t \in TunnelId :
            tcp_task'[x][t] = "run" => tcp_task[x][t] = "run" \/ (x = s /\ t = hc[s].tid)
      BY <1>a, <1>b DEF BindTcp, TypeOK
    <3>3. \A x \in Session, t \in TunnelId : tcp_task[x][t] = "run" => Covered(x, t)
      BY <1>b DEF TcpListenerOwned, Covered
    <3>4. \A x \in Session, t \in TunnelId : tcp_task'[x][t] = "run" => Covered(x, t)'
      BY <2>5, <3>1, <3>2, <3>3
    <3> QED
      BY <3>4 DEF TcpListenerOwned, Covered
  <2> QED
    BY <2>6, <2>7, <2>8
<1> QED
    BY <1>b, <1>3, <1>4, <1>5, StreamIdsFrame, StreamsOwnedFrame DEF IInv, loop, state,
     seen, udp, tasks

(* BindTcpFails assigns hc. *)
LEMMA BindTcpFailsStep ==
    ASSUME IInv, NEW s \in Session, BindTcpFails(s)
    PROVE  IInv'
<1>a. BindTcpFails(s)
  OBVIOUS
<1>b. TypeOK /\ StreamIds /\ Targets /\ StreamsOwned /\ TcpListenerOwned /\ UdpTaskOwned
  BY DEF IInv
<1>1. (hc \in [Session -> LoopType])'
  BY <1>a, <1>b, GotoType DEF BindTcpFails, LoopPc
<1>2. UNCHANGED <<sess, req, state, registry, next_sid, tasks, conn, wire>>
  BY <1>a DEF BindTcpFails
<1>3. TypeOK'
  BY <1>b, <1>1, <1>2 DEF TypeOK, loop, state, seen, udp, tasks, wire
<1>4. Targets' /\ TcpListenerOwned' /\ UdpTaskOwned'
  <2>1. hc[s].pc = "bind_tcp" /\ UNCHANGED <<tcp_task, udp_task, tunnels, shutdown>>
    BY <1>a DEF BindTcpFails, At, loop, state, seen, udp, tasks
  <2>2. /\ hc'[s].pc = "reject" /\ hc'[s].tid = hc[s].tid
        /\ \A x \in Session : x # s => hc'[x] = hc[x]
    <3>1. Goto(s, "reject")
      BY <1>a DEF BindTcpFails
    <3> QED
      BY <1>b, <3>1, GotoMoves
  <2>3. hc[s].tid \in TunnelId
    BY <1>b, <2>1 DEF Targets, OpeningPc
  <2>4. \A t \in TunnelId : Covered(s, t) => Covered(s, t)'
    BY <2>1, <2>2 DEF Covered, Opening, OpeningPc
  <2> QED
    BY <1>b, <2>1, <2>2, <2>3, <2>4, LoopStepKeeps
<1> QED
    BY <1>b, <1>2, <1>3, <1>4, StreamIdsFrame, StreamsOwnedFrame DEF IInv, loop, state,
     seen, udp, tasks

(* BindUdp assigns hc and udp_task. *)
LEMMA BindUdpStep ==
    ASSUME IInv, NEW s \in Session, BindUdp(s)
    PROVE  IInv'
<1>a. BindUdp(s)
  OBVIOUS
<1>b. TypeOK /\ StreamIds /\ Targets /\ StreamsOwned /\ TcpListenerOwned /\ UdpTaskOwned
  BY DEF IInv
<1>1. (hc \in [Session -> LoopType])'
  BY <1>a, <1>b, GotoType DEF BindUdp, LoopPc
<1>2. (udp_task \in [Session -> [TunnelId -> UdpType]])'
  <2> USE <1>b
  <2>1. UdpGoto(s, hc[s].tid, "recv")
    BY <1>a DEF BindUdp, UdpGoto
  <2> QED
    BY <2>1, UdpGotoType DEF UdpPc
<1>3. UNCHANGED <<sess, req, state, registry, next_sid, tcp_task, seen, shutdown, conn,
                  wire>>
  BY <1>a DEF BindUdp
<1>4. TypeOK'
  BY <1>b, <1>1, <1>2, <1>3 DEF TypeOK, loop, state, seen, udp, tasks, wire
<1>5. Targets' /\ TcpListenerOwned' /\ UdpTaskOwned'
  <2>1. hc[s].pc = "bind_udp" /\ UNCHANGED <<tcp_task, tunnels, shutdown>>
    BY <1>a DEF BindUdp, At, loop, state, seen, udp, tasks
  <2>2. Goto(s, "insert")
    BY <1>a DEF BindUdp
  <2>3. /\ hc'[s].pc = "insert" /\ hc'[s].tid = hc[s].tid
        /\ \A x \in Session : x # s => hc'[x] = hc[x]
    BY <1>b, <2>2, GotoMoves
  <2>4. hc[s].tid \in TunnelId
    BY <1>b, <2>1 DEF Targets, OpeningPc
  <2>5. \A x \in Session, t \in TunnelId : Covered(x, t) => Covered(x, t)'
    BY <2>1, <2>3 DEF Covered, Opening, OpeningPc
  <2>6. /\ udp_task'[s][hc[s].tid].pc = "recv"
        /\ \A x \in Session, y \in TunnelId :
              x # s \/ y # hc[s].tid => udp_task'[x][y] = udp_task[x][y]
    <3>1. UdpGoto(s, hc[s].tid, "recv")
      BY <1>a DEF BindUdp, UdpGoto
    <3> QED
      BY <1>b, <2>4, <3>1, UdpGotoMoves
  <2>7. Targets'
    BY <1>b, <2>1, <2>3, <2>4, <2>6 DEF Targets, OpeningPc
  <2>8. TcpListenerOwned'
    BY <1>b, <2>1, <2>5 DEF TcpListenerOwned, Covered
  <2>9. UdpTaskOwned'
    <3>1. \A t : t = hc[s].tid => Covered(s, t)'
      BY <2>3 DEF Covered, Opening, OpeningPc
    <3>2. \A x \in Session, t \in TunnelId :
            UdpAlive(x, t)' => UdpAlive(x, t) \/ (x = s /\ t = hc[s].tid)
      BY <2>6 DEF UdpAlive
    <3>3. \A x \in Session, t \in TunnelId : UdpAlive(x, t) => Covered(x, t)
      BY <1>b DEF UdpTaskOwned, Covered
    <3>4. \A x \in Session, t \in TunnelId : UdpAlive(x, t)' => Covered(x, t)'
      BY <2>5, <3>1, <3>2, <3>3
    <3> QED
      BY <3>4 DEF UdpTaskOwned, Covered
  <2> QED
    BY <2>7, <2>8, <2>9
<1> QED
    BY <1>b, <1>3, <1>4, <1>5, StreamIdsFrame, StreamsOwnedFrame DEF IInv, loop, state,
     seen, udp, tasks

(* BindUdpFails assigns hc. *)
LEMMA BindUdpFailsStep ==
    ASSUME IInv, NEW s \in Session, BindUdpFails(s)
    PROVE  IInv'
<1>a. BindUdpFails(s)
  OBVIOUS
<1>b. TypeOK /\ StreamIds /\ Targets /\ StreamsOwned /\ TcpListenerOwned /\ UdpTaskOwned
  BY DEF IInv
<1>1. (hc \in [Session -> LoopType])'
  BY <1>a, <1>b, GotoType DEF BindUdpFails, LoopPc
<1>2. UNCHANGED <<sess, req, state, registry, next_sid, tasks, conn, wire>>
  BY <1>a DEF BindUdpFails
<1>3. TypeOK'
  BY <1>b, <1>1, <1>2 DEF TypeOK, loop, state, seen, udp, tasks, wire
<1>4. Targets' /\ TcpListenerOwned' /\ UdpTaskOwned'
  <2>1. hc[s].pc = "bind_udp" /\ UNCHANGED <<tcp_task, udp_task, tunnels, shutdown>>
    BY <1>a DEF BindUdpFails, At, loop, state, seen, udp, tasks
  <2>2. /\ hc'[s].pc = "reject" /\ hc'[s].tid = hc[s].tid
        /\ \A x \in Session : x # s => hc'[x] = hc[x]
    <3>1. Goto(s, "reject")
      BY <1>a DEF BindUdpFails
    <3> QED
      BY <1>b, <3>1, GotoMoves
  <2>3. hc[s].tid \in TunnelId
    BY <1>b, <2>1 DEF Targets, OpeningPc
  <2>4. \A t \in TunnelId : Covered(s, t) => Covered(s, t)'
    BY <2>1, <2>2 DEF Covered, Opening, OpeningPc
  <2> QED
    BY <1>b, <2>1, <2>2, <2>3, <2>4, LoopStepKeeps
<1> QED
    BY <1>b, <1>2, <1>3, <1>4, StreamIdsFrame, StreamsOwnedFrame DEF IInv, loop, state,
     seen, udp, tasks

(* Reject assigns hc, shutdown and chan. *)
LEMMA RejectStep ==
    ASSUME IInv, NEW s \in Session, Reject(s)
    PROVE  IInv'
<1>a. Reject(s)
  OBVIOUS
<1>b. TypeOK /\ StreamIds /\ Targets /\ StreamsOwned /\ TcpListenerOwned /\ UdpTaskOwned
  BY DEF IInv
<1>1. (hc \in [Session -> LoopType])'
  <2> USE <1>b
  <2>1. hc \in [Session -> LoopType] /\ hc' = [hc EXCEPT ![s] = Idle]
    BY <1>a DEF Reject, Signal, TypeOK
  <2> QED
    BY <2>1, IdleType
<1>2. (shutdown \in [Session -> SUBSET TunnelId])'
  <2> USE <1>b
  <2>1. shutdown' = [shutdown EXCEPT ![s] = @ \cup ({hc[s].tid} \ tunnels[s])]
    BY <1>a DEF Reject, Signal
  <2>2. shutdown \in [Session -> SUBSET TunnelId]
    BY DEF TypeOK
  <2>3. hc[s].pc = "reject"
    BY <1>a DEF Reject, Signal, At
  <2>4. hc[s].tid \in TunnelId
    BY <2>3 DEF Targets, OpeningPc
  <2> QED
    BY <2>1, <2>2, <2>4
<1>3. (chan \in [Session -> Seq(Frame)])'
  <2> USE <1>b
  <2>1. Send(s, Msg("CloseTunnel", hc[s].tid))
    BY <1>a DEF Reject, Signal
  <2>2. hc[s].tid \in Nat
    BY LoopFields
  <2> QED
    BY <2>1, <2>2, SendType, FrameType
<1>4. UNCHANGED <<sess, req, state, registry, next_sid, tcp_task, udp, conn>>
  BY <1>a DEF Reject, Signal
<1>5. UNCHANGED <<chan_open, view>>
  BY <1>a DEF Reject, Signal, Send
<1>6. TypeOK'
  BY <1>b, <1>1, <1>2, <1>3, <1>4, <1>5 DEF TypeOK, loop, state, seen, udp, tasks, wire
<1>7. Targets' /\ TcpListenerOwned' /\ UdpTaskOwned'
  <2>1. hc[s].pc = "reject" /\ UNCHANGED <<tcp_task, udp_task, tunnels>>
    BY <1>a DEF Reject, Signal, At, loop, state, seen, udp, tasks
  <2>2. hc'[s].pc = "read" /\ \A x \in Session : x # s => hc'[x] = hc[x]
    <3>1. hc' = [hc EXCEPT ![s] = Stage("read", 0, {})]
      BY <1>a DEF Reject, Signal, Idle
    <3> QED
      BY <1>b, <3>1, StageMoves
  <2>3. hc[s].tid \in tunnels[s] \/ hc[s].tid \in shutdown'[s]
    BY <1>a, <1>b DEF Reject, Signal, TypeOK
  <2>4. /\ \A x \in Session : x # s => shutdown'[x] = shutdown[x]
        /\ shutdown[s] \subseteq shutdown'[s]
    BY <1>a, <1>b DEF Reject, Signal, TypeOK
  <2>5. \A t \in TunnelId : Covered(s, t) => Covered(s, t)'
    BY <2>1, <2>3, <2>4 DEF Covered, Opening
  <2>6. hc'[s].pc \notin OpeningPc
    BY <2>2 DEF OpeningPc
  <2> QED
    BY <1>b, <2>1, <2>2, <2>4, <2>5, <2>6, LoopStepKeeps
<1> QED
    BY <1>b, <1>4, <1>6, <1>7, StreamIdsFrame, StreamsOwnedFrame DEF IInv, loop, state,
     seen, udp, tasks

(* InsertTunnel assigns hc and tunnels. *)
LEMMA InsertTunnelStep ==
    ASSUME IInv, NEW s \in Session, InsertTunnel(s)
    PROVE  IInv'
<1>a. InsertTunnel(s)
  OBVIOUS
<1>b. TypeOK /\ StreamIds /\ Targets /\ StreamsOwned /\ TcpListenerOwned /\ UdpTaskOwned
  BY DEF IInv
<1>1. (hc \in [Session -> LoopType])'
  BY <1>a, <1>b, GotoType DEF InsertTunnel, LoopPc
<1>2. (tunnels \in [Session -> SUBSET TunnelId])'
  <2> USE <1>b
  <2>1. tunnels' = [tunnels EXCEPT ![s] = @ \cup {hc[s].tid}]
    BY <1>a DEF InsertTunnel
  <2>2. tunnels \in [Session -> SUBSET TunnelId]
    BY DEF TypeOK
  <2>3. hc[s].pc = "insert"
    BY <1>a DEF InsertTunnel, At
  <2>4. hc[s].tid \in TunnelId
    BY <2>3 DEF Targets, OpeningPc
  <2> QED
    BY <2>1, <2>2, <2>4
<1>3. UNCHANGED <<sess, req, streams, udp_peers, stream_tunnel, registry, next_sid,
                  tasks, conn, wire>>
  BY <1>a DEF InsertTunnel
<1>4. TypeOK'
  BY <1>b, <1>1, <1>2, <1>3 DEF TypeOK, loop, state, seen, udp, tasks, wire
<1>5. Targets' /\ TcpListenerOwned' /\ UdpTaskOwned'
  <2>1. hc[s].pc = "insert" /\ UNCHANGED <<tcp_task, udp_task, shutdown>>
    BY <1>a DEF InsertTunnel, At, loop, state, seen, udp, tasks
  <2>2. /\ hc'[s].pc = "opened" /\ hc'[s].tid = hc[s].tid
        /\ \A x \in Session : x # s => hc'[x] = hc[x]
    <3>1. Goto(s, "opened")
      BY <1>a DEF InsertTunnel
    <3> QED
      BY <1>b, <3>1, GotoMoves
  <2>3. hc[s].tid \in TunnelId
    BY <1>b, <2>1 DEF Targets, OpeningPc
  <2>4. /\ \A x \in Session : x # s => tunnels'[x] = tunnels[x]
        /\ tunnels'[s] = tunnels[s] \cup {hc[s].tid}
    BY <1>a, <1>b DEF InsertTunnel, TypeOK
  <2>5. \A t \in TunnelId : Covered(s, t) => Covered(s, t)'
    BY <2>1, <2>2, <2>4 DEF Covered, Opening, OpeningPc
  <2> QED
    BY <1>b, <2>1, <2>2, <2>3, <2>4, <2>5, LoopStepKeeps
<1> QED
    BY <1>b, <1>3, <1>4, <1>5, StreamIdsFrame, StreamsOwnedFrame DEF IInv, loop, state,
     seen, udp, tasks

(* TunnelOpened assigns hc and chan. *)
LEMMA TunnelOpenedStep ==
    ASSUME IInv, NEW s \in Session, TunnelOpened(s)
    PROVE  IInv'
<1>a. TunnelOpened(s)
  OBVIOUS
<1>b. TypeOK /\ StreamIds /\ Targets /\ StreamsOwned /\ TcpListenerOwned /\ UdpTaskOwned
  BY DEF IInv
<1>1. (hc \in [Session -> LoopType])'
  <2> USE <1>b
  <2>1. hc \in [Session -> LoopType] /\ hc' = [hc EXCEPT ![s] = Idle]
    BY <1>a DEF TunnelOpened, TypeOK
  <2> QED
    BY <2>1, IdleType
<1>2. (chan \in [Session -> Seq(Frame)])'
  <2> USE <1>b
  <2>1. Send(s, Msg("TunnelOpened", hc[s].tid))
    BY <1>a DEF TunnelOpened
  <2>2. hc[s].tid \in Nat
    BY LoopFields
  <2> QED
    BY <2>1, <2>2, SendType, FrameType
<1>3. UNCHANGED <<sess, req, state, registry, next_sid, tasks, conn>>
  BY <1>a DEF TunnelOpened
<1>4. UNCHANGED <<chan_open, view>>
  BY <1>a DEF TunnelOpened, Send
<1>5. TypeOK'
  BY <1>b, <1>1, <1>2, <1>3, <1>4 DEF TypeOK, loop, state, seen, udp, tasks, wire
<1>6. Targets' /\ TcpListenerOwned' /\ UdpTaskOwned'
  <2>1. hc[s].pc = "opened" /\ UNCHANGED <<tcp_task, udp_task, tunnels, shutdown>>
    BY <1>a DEF TunnelOpened, At, loop, state, seen, udp, tasks
  <2>2. hc'[s].pc = "read" /\ \A x \in Session : x # s => hc'[x] = hc[x]
    <3>1. hc' = [hc EXCEPT ![s] = Stage("read", 0, {})]
      BY <1>a DEF TunnelOpened, Idle
    <3> QED
      BY <1>b, <3>1, StageMoves
  <2>3. hc[s].tid \in tunnels[s]
    BY <1>b, <2>1 DEF Targets
  <2>4. \A t \in TunnelId : Covered(s, t) => Covered(s, t)'
    BY <2>1, <2>3 DEF Covered, Opening
  <2>5. hc'[s].pc \notin OpeningPc
    BY <2>2 DEF OpeningPc
  <2> QED
    BY <1>b, <2>1, <2>2, <2>4, <2>5, LoopStepKeeps
<1> QED
    BY <1>b, <1>3, <1>5, <1>6, StreamIdsFrame, StreamsOwnedFrame DEF IInv, loop, state,
     seen, udp, tasks

(* HandleCloseTunnel assigns hc, tunnels, streams, udp_peers, stream_tunnel *)
(* and shutdown.                                                            *)
LEMMA HandleCloseTunnelStep ==
    ASSUME IInv, NEW s \in Session, NEW t \in TunnelId, HandleCloseTunnel(s, t)
    PROVE  IInv'
<1>a. HandleCloseTunnel(s, t)
  OBVIOUS
<1>b. TypeOK /\ StreamIds /\ Targets /\ StreamsOwned /\ TcpListenerOwned /\ UdpTaskOwned
  BY DEF IInv
<1>1. (hc \in [Session -> LoopType])'
  <2> USE <1>b
  <2>1. hc \in [Session -> LoopType]
    BY DEF TypeOK
  <2>2. \A X \in SUBSET Sid : Stage("close_send", t, X) \in LoopType
    BY StageType DEF LoopPc
  <2>3. \/ hc' = [hc EXCEPT ![s] = Idle]
        \/ \E X \in SUBSET Sid : hc' = [hc EXCEPT ![s] = Stage("close_send", t, X)]
    BY <1>a DEF HandleCloseTunnel, Signal, Forget, TypeOK
  <2> QED
    BY <2>1, <2>2, <2>3, IdleType
<1>2. (tunnels \in [Session -> SUBSET TunnelId])'
  BY <1>a, <1>b DEF HandleCloseTunnel, Signal, Forget, TypeOK
<1>3. (streams \in [Session -> SUBSET Sid])'
  BY <1>a, <1>b DEF HandleCloseTunnel, Signal, Forget, TypeOK
<1>4. (udp_peers \in [Session -> SUBSET Sid])'
  BY <1>a, <1>b DEF HandleCloseTunnel, Signal, Forget, TypeOK
<1>5. (stream_tunnel \in [Session -> SUBSET Sid])'
  BY <1>a, <1>b DEF HandleCloseTunnel, Signal, Forget, TypeOK
<1>6. (shutdown \in [Session -> SUBSET TunnelId])'
  BY <1>a, <1>b DEF HandleCloseTunnel, Signal, Forget, TypeOK
<1>7. UNCHANGED <<sess, req, registry, next_sid, tcp_task, udp, conn, wire>>
  BY <1>a DEF HandleCloseTunnel, Signal, Forget
<1>8. TypeOK'
    BY <1>b, <1>1, <1>2, <1>3, <1>4, <1>5, <1>6, <1>7 DEF TypeOK, loop, state, seen,
     udp, tasks, wire
<1>9. Targets' /\ TcpListenerOwned' /\ UdpTaskOwned'
  <2>1. hc[s].pc = "read" /\ UNCHANGED <<tcp_task, udp_task>>
    BY <1>a DEF HandleCloseTunnel, Signal, Forget, At, loop, state, seen, udp, tasks
  <2>2. hc'[s].pc \in {"read", "close_send"} /\ \A x \in Session : x # s => hc'[x] = hc[x]
    <3>1. \/ hc' = [hc EXCEPT ![s] = Stage("read", 0, {})]
          \/ \E X : hc' = [hc EXCEPT ![s] = Stage("close_send", t, X)]
      BY <1>a DEF HandleCloseTunnel, Signal, Forget, Idle
    <3> QED
      BY <1>b, <3>1, StageMoves
  <2>3. /\ \A x \in Session : x # s => tunnels'[x] = tunnels[x] /\ shutdown'[x] = shutdown[x]
        /\ tunnels[s] \subseteq tunnels'[s] \cup shutdown'[s]
        /\ shutdown[s] \subseteq shutdown'[s]
    BY <1>a, <1>b DEF HandleCloseTunnel, Signal, Forget, TypeOK
  <2>4. \A y \in TunnelId : Covered(s, y) => Covered(s, y)'
    BY <2>1, <2>3 DEF Covered, Opening, OpeningPc
  <2>5. hc'[s].pc \notin OpeningPc /\ hc'[s].pc # "opened"
    BY <2>2 DEF OpeningPc
  <2> QED
    BY <1>b, <2>1, <2>2, <2>3, <2>4, <2>5, LoopStepKeeps
<1>10. StreamsOwned'
  BY <1>a, <1>b, OwnedShrinks DEF HandleCloseTunnel, Signal, Forget, TypeOK
<1> QED
  BY <1>b, <1>7, <1>8, <1>9, <1>10, StreamIdsFrame DEF IInv, loop, state, seen, udp, tasks

(* CloseSend assigns hc and chan. *)
LEMMA CloseSendStep ==
    ASSUME IInv, NEW s \in Session, NEW sid \in Sid, CloseSend(s, sid)
    PROVE  IInv'
<1>a. CloseSend(s, sid)
  OBVIOUS
<1>b. TypeOK /\ StreamIds /\ Targets /\ StreamsOwned /\ TcpListenerOwned /\ UdpTaskOwned
  BY DEF IInv
<1>1. (hc \in [Session -> LoopType])'
  <2> USE <1>b
  <2>1. hc \in [Session -> LoopType]
    BY DEF TypeOK
  <2>2. PICK pc \in {"purge", "close_send"} :
          hc' = [hc EXCEPT ![s] = [pc |-> pc, tid |-> hc[s].tid, left |-> hc[s].left \ {sid},
                                   sids |-> hc[s].sids]]
    BY <1>a DEF CloseSend
  <2>3. [pc |-> pc, tid |-> hc[s].tid, left |-> hc[s].left \ {sid}, sids |-> hc[s].sids]
          \in LoopType
    BY LoopFields DEF LoopType, LoopPc
  <2> QED
    BY <2>1, <2>2, <2>3
<1>2. (chan \in [Session -> Seq(Frame)])'
  BY <1>a, <1>b, SendType, FrameType, SidsAreNumbers DEF CloseSend, TypeOK
<1>3. UNCHANGED <<sess, req, state, registry, next_sid, tasks, conn>>
  BY <1>a DEF CloseSend
<1>4. UNCHANGED <<chan_open, view>>
  BY <1>a DEF CloseSend, Send
<1>5. TypeOK'
  BY <1>b, <1>1, <1>2, <1>3, <1>4 DEF TypeOK, loop, state, seen, udp, tasks, wire
<1>6. Targets' /\ TcpListenerOwned' /\ UdpTaskOwned'
  <2>1. hc[s].pc = "close_send" /\ UNCHANGED <<tcp_task, udp_task, tunnels, shutdown>>
    BY <1>a DEF CloseSend, At, loop, state, seen, udp, tasks
  <2>2. hc'[s].pc \in {"purge", "close_send"} /\ \A x \in Session : x # s => hc'[x] = hc[x]
    BY <1>a, <1>b DEF CloseSend, TypeOK
  <2> QED
    BY <1>b, <2>1, <2>2, LoopAside DEF OpeningPc
<1> QED
    BY <1>b, <1>3, <1>5, <1>6, StreamIdsFrame, StreamsOwnedFrame DEF IInv, loop, state,
     seen, udp, tasks

(* Purge assigns hc and registry. *)
LEMMA PurgeStep ==
    ASSUME IInv, NEW s \in Session, Purge(s)
    PROVE  IInv'
<1>a. Purge(s)
  OBVIOUS
<1>b. TypeOK /\ StreamIds /\ Targets /\ StreamsOwned /\ TcpListenerOwned /\ UdpTaskOwned
  BY DEF IInv
<1>1. (hc \in [Session -> LoopType])'
  <2> USE <1>b
  <2>1. hc \in [Session -> LoopType] /\ hc' = [hc EXCEPT ![s] = Idle]
    BY <1>a DEF Purge, TypeOK
  <2> QED
    BY <2>1, IdleType
<1>2. (registry \subseteq Sid)'
  BY <1>a, <1>b DEF Purge, TypeOK
<1>3. UNCHANGED <<sess, req, state, next_sid, tasks, conn, wire>>
  BY <1>a DEF Purge
<1>4. TypeOK'
  BY <1>b, <1>1, <1>2, <1>3 DEF TypeOK, loop, state, seen, udp, tasks, wire
<1>5. Targets' /\ TcpListenerOwned' /\ UdpTaskOwned'
  <2>1. hc[s].pc = "purge" /\ UNCHANGED <<tcp_task, udp_task, tunnels, shutdown>>
    BY <1>a DEF Purge, At, loop, state, seen, udp, tasks
  <2>2. hc'[s].pc = "read" /\ \A x \in Session : x # s => hc'[x] = hc[x]
    <3>1. hc' = [hc EXCEPT ![s] = Stage("read", 0, {})]
      BY <1>a DEF Purge, Idle
    <3> QED
      BY <1>b, <3>1, StageMoves
  <2> QED
    BY <1>b, <2>1, <2>2, LoopAside DEF OpeningPc
<1> QED
    BY <1>b, <1>3, <1>4, <1>5, StreamIdsFrame, StreamsOwnedFrame DEF IInv, loop, state,
     seen, udp, tasks

(* HandleStreamClose assigns hc, streams, udp_peers, stream_tunnel and      *)
(* view.                                                                    *)
LEMMA HandleStreamCloseStep ==
    ASSUME IInv, NEW s \in Session, NEW sid \in Sid, HandleStreamClose(s, sid)
    PROVE  IInv'
<1>a. HandleStreamClose(s, sid)
  OBVIOUS
<1>b. TypeOK /\ StreamIds /\ Targets /\ StreamsOwned /\ TcpListenerOwned /\ UdpTaskOwned
  BY DEF IInv
<1>1. (hc \in [Session -> LoopType])'
  <2> USE <1>b
  <2>1. hc \in [Session -> LoopType]
    BY DEF TypeOK
  <2>2. Stage("purge", 0, {sid}) \in LoopType
    BY StageType DEF LoopPc
  <2>3. hc' = [hc EXCEPT ![s] = Stage("purge", 0, {sid})]
    BY <1>a DEF HandleStreamClose, Forget
  <2> QED
    BY <2>1, <2>2, <2>3
<1>2. (streams \in [Session -> SUBSET Sid])'
  BY <1>a, <1>b DEF HandleStreamClose, Forget, TypeOK
<1>3. (udp_peers \in [Session -> SUBSET Sid])'
  BY <1>a, <1>b DEF HandleStreamClose, Forget, TypeOK
<1>4. (stream_tunnel \in [Session -> SUBSET Sid])'
  BY <1>a, <1>b DEF HandleStreamClose, Forget, TypeOK
<1>5. (view \in [Session -> [Sid -> {"none", "open", "closed"}]])'
  BY <1>a, <1>b DEF HandleStreamClose, Forget, TypeOK
<1>6. UNCHANGED <<sess, req, tunnels, registry, next_sid, tasks, conn, chan, chan_open>>
  BY <1>a DEF HandleStreamClose, Forget
<1>7. TypeOK'
    BY <1>b, <1>1, <1>2, <1>3, <1>4, <1>5, <1>6 DEF TypeOK, loop, state, seen, udp,
     tasks, wire
<1>8. Targets' /\ TcpListenerOwned' /\ UdpTaskOwned'
  <2>1. hc[s].pc = "read" /\ UNCHANGED <<tcp_task, udp_task, tunnels, shutdown>>
    BY <1>a DEF HandleStreamClose, Forget, At, loop, state, seen, udp, tasks
  <2>2. hc'[s].pc = "purge" /\ \A x \in Session : x # s => hc'[x] = hc[x]
    <3>1. hc' = [hc EXCEPT ![s] = Stage("purge", 0, {sid})]
      BY <1>a DEF HandleStreamClose, Forget
    <3> QED
      BY <1>b, <3>1, StageMoves
  <2> QED
    BY <1>b, <2>1, <2>2, LoopAside DEF OpeningPc
<1>9. StreamsOwned'
  BY <1>a, <1>b, OwnedShrinks DEF HandleStreamClose, Forget, TypeOK
<1> QED
  BY <1>b, <1>6, <1>7, <1>8, <1>9, StreamIdsFrame DEF IInv, loop, state, seen, udp, tasks

(* HandleData assigns hc. *)
LEMMA HandleDataStep ==
    ASSUME IInv, NEW s \in Session, NEW sid \in Sid, HandleData(s, sid)
    PROVE  IInv'
<1>a. HandleData(s, sid)
  OBVIOUS
<1>b. TypeOK /\ StreamIds /\ Targets /\ StreamsOwned /\ TcpListenerOwned /\ UdpTaskOwned
  BY DEF IInv
<1>1. (hc \in [Session -> LoopType])'
  <2> USE <1>b
  <2>1. hc \in [Session -> LoopType]
    BY DEF TypeOK
  <2>2. Stage("data_send", 0, {sid}) \in LoopType
    BY StageType DEF LoopPc
  <2>3. hc' = [hc EXCEPT ![s] = Stage("data_send", 0, {sid})]
    BY <1>a DEF HandleData
  <2> QED
    BY <2>1, <2>2, <2>3
<1>2. UNCHANGED <<sess, req, state, registry, next_sid, tasks, conn, wire>>
  BY <1>a DEF HandleData
<1>3. TypeOK'
  BY <1>b, <1>1, <1>2 DEF TypeOK, loop, state, seen, udp, tasks, wire
<1>4. Targets' /\ TcpListenerOwned' /\ UdpTaskOwned'
  <2>1. hc[s].pc = "read" /\ UNCHANGED <<tcp_task, udp_task, tunnels, shutdown>>
    BY <1>a DEF HandleData, At, loop, state, seen, udp, tasks
  <2>2. hc'[s].pc = "data_send" /\ \A x \in Session : x # s => hc'[x] = hc[x]
    <3>1. hc' = [hc EXCEPT ![s] = Stage("data_send", 0, {sid})]
      BY <1>a DEF HandleData
    <3> QED
      BY <1>b, <3>1, StageMoves
  <2> QED
    BY <1>b, <2>1, <2>2, LoopAside DEF OpeningPc
<1> QED
    BY <1>b, <1>2, <1>3, <1>4, StreamIdsFrame, StreamsOwnedFrame DEF IInv, loop, state,
     seen, udp, tasks

(* DataForwarded assigns hc. *)
LEMMA DataForwardedStep ==
    ASSUME IInv, NEW s \in Session, DataForwarded(s)
    PROVE  IInv'
<1>a. DataForwarded(s)
  OBVIOUS
<1>b. TypeOK /\ StreamIds /\ Targets /\ StreamsOwned /\ TcpListenerOwned /\ UdpTaskOwned
  BY DEF IInv
<1>1. (hc \in [Session -> LoopType])'
  <2> USE <1>b
  <2>1. hc \in [Session -> LoopType] /\ hc' = [hc EXCEPT ![s] = Idle]
    BY <1>a DEF DataForwarded, TypeOK
  <2> QED
    BY <2>1, IdleType
<1>2. UNCHANGED <<sess, req, state, registry, next_sid, tasks, conn, wire>>
  BY <1>a DEF DataForwarded
<1>3. TypeOK'
  BY <1>b, <1>1, <1>2 DEF TypeOK, loop, state, seen, udp, tasks, wire
<1>4. Targets' /\ TcpListenerOwned' /\ UdpTaskOwned'
  <2>1. hc[s].pc = "data_send" /\ UNCHANGED <<tcp_task, udp_task, tunnels, shutdown>>
    BY <1>a DEF DataForwarded, At, loop, state, seen, udp, tasks
  <2>2. hc'[s].pc = "read" /\ \A x \in Session : x # s => hc'[x] = hc[x]
    <3>1. hc' = [hc EXCEPT ![s] = Stage("read", 0, {})]
      BY <1>a DEF DataForwarded, Idle
    <3> QED
      BY <1>b, <3>1, StageMoves
  <2> QED
    BY <1>b, <2>1, <2>2, LoopAside DEF OpeningPc
<1> QED
    BY <1>b, <1>2, <1>3, <1>4, StreamIdsFrame, StreamsOwnedFrame DEF IInv, loop, state,
     seen, udp, tasks

(* DataRefused assigns hc. *)
LEMMA DataRefusedStep ==
    ASSUME IInv, NEW s \in Session, DataRefused(s)
    PROVE  IInv'
<1>a. DataRefused(s)
  OBVIOUS
<1>b. TypeOK /\ StreamIds /\ Targets /\ StreamsOwned /\ TcpListenerOwned /\ UdpTaskOwned
  BY DEF IInv
<1>1. (hc \in [Session -> LoopType])'
  BY <1>a, <1>b, GotoType DEF DataRefused, LoopPc
<1>2. UNCHANGED <<sess, req, state, registry, next_sid, tasks, conn, wire>>
  BY <1>a DEF DataRefused
<1>3. TypeOK'
  BY <1>b, <1>1, <1>2 DEF TypeOK, loop, state, seen, udp, tasks, wire
<1>4. Targets' /\ TcpListenerOwned' /\ UdpTaskOwned'
  <2>1. hc[s].pc = "data_send" /\ UNCHANGED <<tcp_task, udp_task, tunnels, shutdown>>
    BY <1>a DEF DataRefused, At, loop, state, seen, udp, tasks
  <2>2. hc'[s].pc = "data_close" /\ \A x \in Session : x # s => hc'[x] = hc[x]
    <3>1. Goto(s, "data_close")
      BY <1>a DEF DataRefused
    <3> QED
      BY <1>b, <3>1, GotoMoves
  <2> QED
    BY <1>b, <2>1, <2>2, LoopAside DEF OpeningPc
<1> QED
    BY <1>b, <1>2, <1>3, <1>4, StreamIdsFrame, StreamsOwnedFrame DEF IInv, loop, state,
     seen, udp, tasks

(* DataClose assigns hc and chan. *)
LEMMA DataCloseStep ==
    ASSUME IInv, NEW s \in Session, DataClose(s)
    PROVE  IInv'
<1>a. DataClose(s)
  OBVIOUS
<1>b. TypeOK /\ StreamIds /\ Targets /\ StreamsOwned /\ TcpListenerOwned /\ UdpTaskOwned
  BY DEF IInv
<1>1. (hc \in [Session -> LoopType])'
  BY <1>a, <1>b, GotoType DEF DataClose, LoopPc
<1>2. (chan \in [Session -> Seq(Frame)])'
  <2> USE <1>b
  <2>1. PICK sid \in hc[s].sids : Send(s, Msg("StreamClose", sid))
    BY <1>a DEF DataClose
  <2>2. sid \in Nat
    BY SidsAreNumbers DEF TypeOK, LoopType
  <2> QED
    BY <2>1, <2>2, SendType, FrameType
<1>3. UNCHANGED <<sess, req, state, registry, next_sid, tasks, conn>>
  BY <1>a DEF DataClose
<1>4. UNCHANGED <<chan_open, view>>
  BY <1>a DEF DataClose, Send
<1>5. TypeOK'
  BY <1>b, <1>1, <1>2, <1>3, <1>4 DEF TypeOK, loop, state, seen, udp, tasks, wire
<1>6. Targets' /\ TcpListenerOwned' /\ UdpTaskOwned'
  <2>1. hc[s].pc = "data_close" /\ UNCHANGED <<tcp_task, udp_task, tunnels, shutdown>>
    BY <1>a DEF DataClose, At, loop, state, seen, udp, tasks
  <2>2. hc'[s].pc = "data_unmap" /\ \A x \in Session : x # s => hc'[x] = hc[x]
    <3>1. Goto(s, "data_unmap")
      BY <1>a DEF DataClose
    <3> QED
      BY <1>b, <3>1, GotoMoves
  <2> QED
    BY <1>b, <2>1, <2>2, LoopAside DEF OpeningPc
<1> QED
    BY <1>b, <1>3, <1>5, <1>6, StreamIdsFrame, StreamsOwnedFrame DEF IInv, loop, state,
     seen, udp, tasks

(* DataUnmap assigns hc, streams and stream_tunnel. *)
LEMMA DataUnmapStep ==
    ASSUME IInv, NEW s \in Session, DataUnmap(s)
    PROVE  IInv'
<1>a. DataUnmap(s)
  OBVIOUS
<1>b. TypeOK /\ StreamIds /\ Targets /\ StreamsOwned /\ TcpListenerOwned /\ UdpTaskOwned
  BY DEF IInv
<1>1. (hc \in [Session -> LoopType])'
  <2> USE <1>b
  <2>1. hc \in [Session -> LoopType] /\ hc' = [hc EXCEPT ![s] = Idle]
    BY <1>a DEF DataUnmap, TypeOK
  <2> QED
    BY <2>1, IdleType
<1>2. (streams \in [Session -> SUBSET Sid])'
  BY <1>a, <1>b DEF DataUnmap, TypeOK
<1>3. (stream_tunnel \in [Session -> SUBSET Sid])'
  BY <1>a, <1>b DEF DataUnmap, TypeOK
<1>4. UNCHANGED <<sess, req, tunnels, udp_peers, registry, next_sid, tasks, conn, wire>>
  BY <1>a DEF DataUnmap
<1>5. TypeOK'
  BY <1>b, <1>1, <1>2, <1>3, <1>4 DEF TypeOK, loop, state, seen, udp, tasks, wire
<1>6. Targets' /\ TcpListenerOwned' /\ UdpTaskOwned'
  <2>1. hc[s].pc = "data_unmap" /\ UNCHANGED <<tcp_task, udp_task, tunnels, shutdown>>
    BY <1>a DEF DataUnmap, At, loop, state, seen, udp, tasks
  <2>2. hc'[s].pc = "read" /\ \A x \in Session : x # s => hc'[x] = hc[x]
    <3>1. hc' = [hc EXCEPT ![s] = Stage("read", 0, {})]
      BY <1>a DEF DataUnmap, Idle
    <3> QED
      BY <1>b, <3>1, StageMoves
  <2> QED
    BY <1>b, <2>1, <2>2, LoopAside DEF OpeningPc
<1>7. StreamsOwned'
  BY <1>a, <1>b, OwnedShrinks DEF DataUnmap, TypeOK
<1> QED
  BY <1>b, <1>4, <1>5, <1>6, <1>7, StreamIdsFrame DEF IInv, loop, state, seen, udp, tasks

(* SessionEnd assigns sess, hc, tunnels, streams, shutdown, chan and        *)
(* chan_open.                                                               *)
LEMMA SessionEndStep ==
    ASSUME IInv, NEW s \in Session, SessionEnd(s)
    PROVE  IInv'
<1>a. SessionEnd(s)
  OBVIOUS
<1>b. TypeOK /\ StreamIds /\ Targets /\ StreamsOwned /\ TcpListenerOwned /\ UdpTaskOwned
  BY DEF IInv
<1>1. (sess \in [Session -> {"idle", "up", "down"}])'
  BY <1>a, <1>b DEF SessionEnd, Signal, TypeOK
<1>2. (hc \in [Session -> LoopType])'
  <2> USE <1>b
  <2>1. hc \in [Session -> LoopType] /\ hc' = [hc EXCEPT ![s] = Idle]
    BY <1>a DEF SessionEnd, Signal, TypeOK
  <2> QED
    BY <2>1, IdleType
<1>3. (tunnels \in [Session -> SUBSET TunnelId])'
  BY <1>a, <1>b DEF SessionEnd, Signal, TypeOK
<1>4. (streams \in [Session -> SUBSET Sid])'
  BY <1>a, <1>b DEF SessionEnd, Signal, TypeOK
<1>5. (shutdown \in [Session -> SUBSET TunnelId])'
  BY <1>a, <1>b DEF SessionEnd, Signal, TypeOK
<1>6. (chan \in [Session -> Seq(Frame)])'
  BY <1>a, <1>b DEF SessionEnd, Signal, TypeOK
<1>7. (chan_open \in [Session -> BOOLEAN])'
  BY <1>a, <1>b DEF SessionEnd, Signal, TypeOK
<1>8. UNCHANGED <<req, udp_peers, stream_tunnel, registry, next_sid, tcp_task, udp,
                  conn, view>>
  BY <1>a DEF SessionEnd, Signal
<1>9. TypeOK'
    BY <1>b, <1>1, <1>2, <1>3, <1>4, <1>5, <1>6, <1>7, <1>8 DEF TypeOK, loop, state,
     seen, udp, tasks, wire
<1>10. Targets' /\ TcpListenerOwned' /\ UdpTaskOwned'
  <2>1. hc[s].pc \in {"read", "opened"} /\ UNCHANGED <<tcp_task, udp_task>>
    BY <1>a DEF SessionEnd, Signal, At, loop, state, seen, udp, tasks
  <2>2. hc'[s].pc = "read" /\ \A x \in Session : x # s => hc'[x] = hc[x]
    <3>1. hc' = [hc EXCEPT ![s] = Stage("read", 0, {})]
      BY <1>a DEF SessionEnd, Signal, Idle
    <3> QED
      BY <1>b, <3>1, StageMoves
  <2>3. /\ \A x \in Session : x # s => tunnels'[x] = tunnels[x] /\ shutdown'[x] = shutdown[x]
        /\ shutdown'[s] = shutdown[s] \cup tunnels[s]
    BY <1>a, <1>b DEF SessionEnd, Signal, TypeOK
  <2>4. hc[s].pc = "opened" => hc[s].tid \in tunnels[s]
    BY <1>b DEF Targets
  <2>5. \A y \in TunnelId : Covered(s, y) => Covered(s, y)'
    BY <2>1, <2>3, <2>4 DEF Covered, Opening, OpeningPc
  <2>6. hc'[s].pc \notin OpeningPc /\ hc'[s].pc # "opened"
    BY <2>2 DEF OpeningPc
  <2> QED
    BY <1>b, <2>1, <2>2, <2>3, <2>5, <2>6, LoopStepKeeps
<1>11. StreamsOwned'
  BY <1>a, <1>b, OwnedShrinks DEF SessionEnd, Signal, TypeOK
<1> QED
    BY <1>b, <1>8, <1>9, <1>10, <1>11, StreamIdsFrame DEF IInv, loop, state, seen, udp,
     tasks

(* Deliver assigns chan and view. *)
LEMMA DeliverStep ==
    ASSUME IInv, NEW s \in Session, Deliver(s)
    PROVE  IInv'
<1>a. Deliver(s)
  OBVIOUS
<1>b. TypeOK /\ StreamIds /\ Targets /\ StreamsOwned /\ TcpListenerOwned /\ UdpTaskOwned
  BY DEF IInv
<1>1. (chan \in [Session -> Seq(Frame)])'
  BY <1>a, <1>b DEF Deliver, TypeOK
<1>2. (view \in [Session -> [Sid -> {"none", "open", "closed"}]])'
  <2> USE <1>b
  <2>1. view \in [Session -> [Sid -> {"none", "open", "closed"}]]
    BY DEF TypeOK
  <2>2. \/ view' = view
        \/ \E id : view' = [view EXCEPT ![s][id] = "open"]
        \/ \E id : view' = [view EXCEPT ![s][id] = "closed"]
    BY <1>a DEF Deliver
  <2> QED
    BY <2>1, <2>2
<1>3. UNCHANGED <<loop, state, registry, next_sid, tasks, conn, chan_open>>
  BY <1>a DEF Deliver
<1>4. TypeOK'
  BY <1>b, <1>1, <1>2, <1>3 DEF TypeOK, loop, state, seen, udp, tasks, wire
<1> QED
    BY <1>b, <1>3, <1>4, StreamIdsFrame, TargetsFrame, StreamsOwnedFrame,
     TcpListenerOwnedFrame, UdpTaskOwnedFrame DEF IInv, loop, state, seen, udp, tasks

(* WriterFails assigns chan and chan_open. *)
LEMMA WriterFailsStep ==
    ASSUME IInv, NEW s \in Session, WriterFails(s)
    PROVE  IInv'
<1>a. WriterFails(s)
  OBVIOUS
<1>b. TypeOK /\ StreamIds /\ Targets /\ StreamsOwned /\ TcpListenerOwned /\ UdpTaskOwned
  BY DEF IInv
<1>1. (chan \in [Session -> Seq(Frame)])'
  BY <1>a, <1>b DEF WriterFails, TypeOK
<1>2. (chan_open \in [Session -> BOOLEAN])'
  BY <1>a, <1>b DEF WriterFails, TypeOK
<1>3. UNCHANGED <<loop, state, registry, next_sid, tasks, conn, view>>
  BY <1>a DEF WriterFails
<1>4. TypeOK'
  BY <1>b, <1>1, <1>2, <1>3 DEF TypeOK, loop, state, seen, udp, tasks, wire
<1> QED
    BY <1>b, <1>3, <1>4, StreamIdsFrame, TargetsFrame, StreamsOwnedFrame,
     TcpListenerOwnedFrame, UdpTaskOwnedFrame DEF IInv, loop, state, seen, udp, tasks

(* Accept assigns next_sid and conn. *)
LEMMA AcceptStep ==
    ASSUME IInv, NEW s \in Session, NEW t \in TunnelId, Accept(s, t)
    PROVE  IInv'
<1>a. Accept(s, t)
  OBVIOUS
<1>b. TypeOK /\ StreamIds /\ Targets /\ StreamsOwned /\ TcpListenerOwned /\ UdpTaskOwned
  BY DEF IInv
<1>1. (next_sid \in 1 .. MaxStream + 1)'
  <2> USE <1>b
  <2>1. next_sid \in 1 .. MaxStream /\ next_sid' = next_sid + 1
    BY <1>a DEF Accept, Sid
  <2>2. MaxStream \in Nat
    BY BoundAssumption
  <2> QED
    BY <2>1, <2>2
<1>2. (conn \in [Sid -> ConnType])'
  BY <1>a, <1>b DEF Accept, TypeOK, ConnType, ConnPc, NewConn
<1>3. UNCHANGED <<loop, state, registry, tasks, wire>>
  BY <1>a DEF Accept
<1>4. TypeOK'
  BY <1>b, <1>1, <1>2, <1>3 DEF TypeOK, loop, state, seen, udp, tasks, wire
<1>5. StreamIds' /\ StreamsOwned'
  <2>1. next_sid \in Sid /\ next_sid' = next_sid + 1 /\ UNCHANGED streams
    BY <1>a DEF Accept, loop, state, seen, udp, tasks
  <2>2. conn' = [conn EXCEPT ![next_sid] = NewConn("tcp", "accepted", s, t)]
    BY <1>a DEF Accept
  <2> QED
    BY <1>b, <2>1, <2>2, NewStreamStep
<1> QED
    BY <1>b, <1>3, <1>4, <1>5, TargetsFrame, TcpListenerOwnedFrame, UdpTaskOwnedFrame
     DEF IInv, loop, state, seen, udp, tasks

(* TcpShutdown assigns tcp_task. *)
LEMMA TcpShutdownStep ==
    ASSUME IInv, NEW s \in Session, NEW t \in TunnelId, TcpShutdown(s, t)
    PROVE  IInv'
<1>a. TcpShutdown(s, t)
  OBVIOUS
<1>b. TypeOK /\ StreamIds /\ Targets /\ StreamsOwned /\ TcpListenerOwned /\ UdpTaskOwned
  BY DEF IInv
<1>1. (tcp_task \in [Session -> [TunnelId -> {"none", "run", "end"}]])'
  BY <1>a, <1>b DEF TcpShutdown, TypeOK
<1>2. UNCHANGED <<loop, state, registry, next_sid, udp, shutdown, conn, wire>>
  BY <1>a DEF TcpShutdown
<1>3. TypeOK'
  BY <1>b, <1>1, <1>2 DEF TypeOK, loop, state, seen, udp, tasks, wire
<1>4. TcpListenerOwned'
  <2>1. \A x \in Session, y \in TunnelId : tcp_task'[x][y] = "run" => tcp_task[x][y] = "run"
    BY <1>a, <1>b DEF TcpShutdown, TypeOK
  <2>2. UNCHANGED <<hc, tunnels, shutdown>>
    BY <1>a DEF TcpShutdown, loop, state, seen, udp, tasks
  <2> QED
    BY <1>b, <2>1, <2>2 DEF TcpListenerOwned, Opening
<1> QED
    BY <1>b, <1>2, <1>3, <1>4, StreamIdsFrame, TargetsFrame, StreamsOwnedFrame,
     UdpTaskOwnedFrame DEF IInv, loop, state, seen, udp, tasks

(* MapStream assigns streams, stream_tunnel and conn. *)
LEMMA MapStreamStep ==
    ASSUME IInv, NEW sid \in Sid, MapStream(sid)
    PROVE  IInv'
<1>a. MapStream(sid)
  OBVIOUS
<1>b. TypeOK /\ StreamIds /\ Targets /\ StreamsOwned /\ TcpListenerOwned /\ UdpTaskOwned
  BY DEF IInv
<1>1. (streams \in [Session -> SUBSET Sid])'
  <2> USE <1>b
  <2>1. streams' = [streams EXCEPT ![conn[sid].sess] = @ \cup {sid}]
    BY <1>a DEF MapStream
  <2>2. streams \in [Session -> SUBSET Sid]
    BY DEF TypeOK
  <2> QED
    BY <2>1, <2>2
<1>2. (stream_tunnel \in [Session -> SUBSET Sid])'
  <2> USE <1>b
  <2>1. stream_tunnel' = [stream_tunnel EXCEPT ![conn[sid].sess] = @ \cup {sid}]
    BY <1>a DEF MapStream
  <2>2. stream_tunnel \in [Session -> SUBSET Sid]
    BY DEF TypeOK
  <2> QED
    BY <2>1, <2>2
<1>3. (conn \in [Sid -> ConnType])'
  BY <1>a, <1>b, ConnGotoType DEF MapStream, ConnPc
<1>4. UNCHANGED <<loop, tunnels, udp_peers, registry, next_sid, tasks, wire>>
  BY <1>a DEF MapStream
<1>5. TypeOK'
  BY <1>b, <1>1, <1>2, <1>3, <1>4 DEF TypeOK, loop, state, seen, udp, tasks, wire
<1>6. StreamIds' /\ StreamsOwned'
  <2>1. ConnGoto(sid, "mapped") /\ UNCHANGED next_sid /\ IsTcp(sid)
    BY <1>a DEF MapStream, ConnAt
  <2>2. SameIds
    BY <1>b, <2>1, GotoKeepsIds
  <2>3. Mapped /\ conn'[sid].pc \in MappedPc
    <3>1. "mapped" \in MappedPc
      BY DEF MappedPc
    <3>2. conn'[sid].pc = "mapped"
      BY <1>b, <2>1, GotoPc
    <3> QED
      BY <1>b, <2>1, <3>1, <3>2, GotoMapped
  <2>4. \A s \in Session : \A x \in streams'[s] : x \in streams[s] \/ (x = sid /\ s = conn[sid].sess)
    <3>1. streams' = [streams EXCEPT ![conn[sid].sess] = @ \cup {sid}]
      BY <1>a DEF MapStream
    <3> QED
      BY <1>b, <3>1 DEF TypeOK
  <2>5. StreamsOwned'
    <3>1. \A s \in Session : streams[s] \subseteq Sid
      BY <1>b DEF TypeOK
    <3> QED
      BY <1>b, <2>1, <2>2, <2>3, <2>4, <3>1 DEF StreamsOwned, SameIds, Mapped, IsTcp
  <2> QED
    BY <1>b, <2>1, <2>2, <2>5, StreamIdsKept
<1> QED
    BY <1>b, <1>4, <1>5, <1>6, TargetsFrame, TcpListenerOwnedFrame, UdpTaskOwnedFrame
     DEF IInv, loop, state, seen, udp, tasks

(* Announce assigns conn and chan. *)
LEMMA AnnounceStep ==
    ASSUME IInv, NEW sid \in Sid, Announce(sid)
    PROVE  IInv'
<1>a. Announce(sid)
  OBVIOUS
<1>b. TypeOK /\ StreamIds /\ Targets /\ StreamsOwned /\ TcpListenerOwned /\ UdpTaskOwned
  BY DEF IInv
<1>1. (conn \in [Sid -> ConnType])'
  BY <1>a, <1>b, ConnGotoType DEF Announce, ConnPc
<1>2. (chan \in [Session -> Seq(Frame)])'
  <2> USE <1>b
  <2>1. Send(conn[sid].sess, Msg("NewConnection", sid))
    BY <1>a DEF Announce
  <2>2. sid \in Nat
    BY SidsAreNumbers
  <2> QED
    BY <2>1, <2>2, SendType, FrameType
<1>3. UNCHANGED <<loop, state, registry, next_sid, tasks>>
  BY <1>a DEF Announce
<1>4. UNCHANGED <<chan_open, view>>
  BY <1>a DEF Announce, Send
<1>5. TypeOK'
  BY <1>b, <1>1, <1>2, <1>3, <1>4 DEF TypeOK, loop, state, seen, udp, tasks, wire
<1>6. StreamIds' /\ StreamsOwned'
  <2>1. "announced" \in MappedPc
    BY DEF MappedPc
  <2>2. ConnGoto(sid, "announced") /\ UNCHANGED <<streams, next_sid>>
    BY <1>a DEF Announce, loop, state, seen, udp, tasks
  <2> QED
    BY <1>b, <2>1, <2>2, ConnGotoStep
<1> QED
    BY <1>b, <1>3, <1>5, <1>6, TargetsFrame, TcpListenerOwnedFrame, UdpTaskOwnedFrame
     DEF IInv, loop, state, seen, udp, tasks

(* LookupDb assigns conn. *)
LEMMA LookupDbStep ==
    ASSUME IInv, NEW sid \in Sid, LookupDb(sid)
    PROVE  IInv'
<1>a. LookupDb(sid)
  OBVIOUS
<1>b. TypeOK /\ StreamIds /\ Targets /\ StreamsOwned /\ TcpListenerOwned /\ UdpTaskOwned
  BY DEF IInv
<1>1. (conn \in [Sid -> ConnType])'
  <2> USE <1>b
  <2>1. conn[sid].sess \in Session /\ conn[sid].tid \in TunnelId
    BY <1>a DEF LookupDb, ConnAt, IsTcp, StreamIds
  <2>2. db_of(conn[sid].sess, conn[sid].tid) \in DbId \cup {0}
    <3>1. req[conn[sid].sess][conn[sid].tid] \in Request \cup {NoRequest}
      BY <2>1 DEF TypeOK
    <3> QED
      BY <3>1 DEF db_of, Request, NoRequest
  <2>3. conn \in [Sid -> ConnType]
    BY DEF TypeOK
  <2>4. ASSUME NEW c \in ConnType
        PROVE  [[c EXCEPT !.pc = "register"] EXCEPT !.db = db_of(conn[sid].sess, conn[sid].tid)] \in ConnType
    BY <2>2 DEF ConnType, ConnPc
  <2>5. conn' = [conn EXCEPT ![sid] = [[@ EXCEPT !.pc = "register"] EXCEPT !.db = db_of(conn[sid].sess, conn[sid].tid)]]
    BY <1>a DEF LookupDb
  <2> QED
    BY <2>3, <2>4, <2>5
<1>2. UNCHANGED <<loop, state, registry, next_sid, tasks, wire>>
  BY <1>a DEF LookupDb
<1>3. TypeOK'
  BY <1>b, <1>1, <1>2 DEF TypeOK, loop, state, seen, udp, tasks, wire
<1>4. StreamIds' /\ StreamsOwned'
  <2>1. SameIds /\ Mapped
    BY <1>a, <1>b, LookupKeeps
  <2>2. UNCHANGED <<streams, next_sid>>
    BY <1>a DEF LookupDb, loop, state, seen, udp, tasks
  <2> QED
    BY <1>b, <2>1, <2>2, StreamIdsKept, OwnedKept
<1> QED
    BY <1>b, <1>2, <1>3, <1>4, TargetsFrame, TcpListenerOwnedFrame, UdpTaskOwnedFrame
     DEF IInv, loop, state, seen, udp, tasks

(* Register assigns registry and conn. *)
LEMMA RegisterStep ==
    ASSUME IInv, NEW sid \in Sid, Register(sid)
    PROVE  IInv'
<1>a. Register(sid)
  OBVIOUS
<1>b. TypeOK /\ StreamIds /\ Targets /\ StreamsOwned /\ TcpListenerOwned /\ UdpTaskOwned
  BY DEF IInv
<1>1. (registry \subseteq Sid)'
  BY <1>a, <1>b DEF Register, TypeOK
<1>2. (conn \in [Sid -> ConnType])'
  BY <1>a, <1>b, ConnGotoType DEF Register, ConnPc
<1>3. UNCHANGED <<loop, state, next_sid, tasks, wire>>
  BY <1>a DEF Register
<1>4. TypeOK'
  BY <1>b, <1>1, <1>2, <1>3 DEF TypeOK, loop, state, seen, udp, tasks, wire
<1>5. StreamIds' /\ StreamsOwned'
  <2>1. "run" \in MappedPc
    BY DEF MappedPc
  <2>2. ConnGoto(sid, "run") /\ UNCHANGED <<streams, next_sid>>
    BY <1>a DEF Register, loop, state, seen, udp, tasks
  <2> QED
    BY <1>b, <2>1, <2>2, ConnGotoStep
<1> QED
    BY <1>b, <1>3, <1>4, <1>5, TargetsFrame, TcpListenerOwnedFrame, UdpTaskOwnedFrame
     DEF IInv, loop, state, seen, udp, tasks

(* PlayerSends assigns chan. *)
LEMMA PlayerSendsStep ==
    ASSUME IInv, NEW sid \in Sid, PlayerSends(sid)
    PROVE  IInv'
<1>a. PlayerSends(sid)
  OBVIOUS
<1>b. TypeOK /\ StreamIds /\ Targets /\ StreamsOwned /\ TcpListenerOwned /\ UdpTaskOwned
  BY DEF IInv
<1>1. (chan \in [Session -> Seq(Frame)])'
  <2> USE <1>b
  <2>1. Send(conn[sid].sess, Msg("Data", sid))
    BY <1>a DEF PlayerSends
  <2>2. sid \in Nat
    BY SidsAreNumbers
  <2> QED
    BY <2>1, <2>2, SendType, FrameType
<1>2. UNCHANGED <<loop, state, registry, next_sid, tasks, conn>>
  BY <1>a DEF PlayerSends
<1>3. UNCHANGED <<chan_open, view>>
  BY <1>a DEF PlayerSends, Send
<1>4. TypeOK'
  BY <1>b, <1>1, <1>2, <1>3 DEF TypeOK, loop, state, seen, udp, tasks, wire
<1> QED
    BY <1>b, <1>2, <1>4, StreamIdsFrame, TargetsFrame, StreamsOwnedFrame,
     TcpListenerOwnedFrame, UdpTaskOwnedFrame DEF IInv, loop, state, seen, udp, tasks

(* PlayerLeaves assigns conn. *)
LEMMA PlayerLeavesStep ==
    ASSUME IInv, NEW sid \in Sid, PlayerLeaves(sid)
    PROVE  IInv'
<1>a. PlayerLeaves(sid)
  OBVIOUS
<1>b. TypeOK /\ StreamIds /\ Targets /\ StreamsOwned /\ TcpListenerOwned /\ UdpTaskOwned
  BY DEF IInv
<1>1. (conn \in [Sid -> ConnType])'
  BY <1>a, <1>b, ConnGotoType DEF PlayerLeaves, ConnPc
<1>2. UNCHANGED <<loop, state, registry, next_sid, tasks, wire>>
  BY <1>a DEF PlayerLeaves
<1>3. TypeOK'
  BY <1>b, <1>1, <1>2 DEF TypeOK, loop, state, seen, udp, tasks, wire
<1>4. StreamIds' /\ StreamsOwned'
  <2>1. "closing" \in MappedPc
    BY DEF MappedPc
  <2>2. ConnGoto(sid, "closing") /\ UNCHANGED <<streams, next_sid>>
    BY <1>a DEF PlayerLeaves, loop, state, seen, udp, tasks
  <2> QED
    BY <1>b, <2>1, <2>2, ConnGotoStep
<1> QED
    BY <1>b, <1>2, <1>3, <1>4, TargetsFrame, TcpListenerOwnedFrame, UdpTaskOwnedFrame
     DEF IInv, loop, state, seen, udp, tasks

(* SenderDropped assigns conn. *)
LEMMA SenderDroppedStep ==
    ASSUME IInv, NEW sid \in Sid, SenderDropped(sid)
    PROVE  IInv'
<1>a. SenderDropped(sid)
  OBVIOUS
<1>b. TypeOK /\ StreamIds /\ Targets /\ StreamsOwned /\ TcpListenerOwned /\ UdpTaskOwned
  BY DEF IInv
<1>1. (conn \in [Sid -> ConnType])'
  BY <1>a, <1>b, ConnGotoType DEF SenderDropped, ConnPc
<1>2. UNCHANGED <<loop, state, registry, next_sid, tasks, wire>>
  BY <1>a DEF SenderDropped
<1>3. TypeOK'
  BY <1>b, <1>1, <1>2 DEF TypeOK, loop, state, seen, udp, tasks, wire
<1>4. StreamIds' /\ StreamsOwned'
  <2>1. "closing" \in MappedPc
    BY DEF MappedPc
  <2>2. ConnGoto(sid, "closing") /\ UNCHANGED <<streams, next_sid>>
    BY <1>a DEF SenderDropped, loop, state, seen, udp, tasks
  <2> QED
    BY <1>b, <2>1, <2>2, ConnGotoStep
<1> QED
    BY <1>b, <1>2, <1>3, <1>4, TargetsFrame, TcpListenerOwnedFrame, UdpTaskOwnedFrame
     DEF IInv, loop, state, seen, udp, tasks

(* Killed assigns conn. *)
LEMMA KilledStep ==
    ASSUME IInv, NEW sid \in Sid, Killed(sid)
    PROVE  IInv'
<1>a. Killed(sid)
  OBVIOUS
<1>b. TypeOK /\ StreamIds /\ Targets /\ StreamsOwned /\ TcpListenerOwned /\ UdpTaskOwned
  BY DEF IInv
<1>1. (conn \in [Sid -> ConnType])'
  BY <1>a, <1>b, ConnGotoType DEF Killed, ConnPc
<1>2. UNCHANGED <<loop, state, registry, next_sid, tasks, wire>>
  BY <1>a DEF Killed
<1>3. TypeOK'
  BY <1>b, <1>1, <1>2 DEF TypeOK, loop, state, seen, udp, tasks, wire
<1>4. StreamIds' /\ StreamsOwned'
  <2>1. "closing" \in MappedPc
    BY DEF MappedPc
  <2>2. ConnGoto(sid, "closing") /\ UNCHANGED <<streams, next_sid>>
    BY <1>a DEF Killed, loop, state, seen, udp, tasks
  <2> QED
    BY <1>b, <2>1, <2>2, ConnGotoStep
<1> QED
    BY <1>b, <1>2, <1>3, <1>4, TargetsFrame, TcpListenerOwnedFrame, UdpTaskOwnedFrame
     DEF IInv, loop, state, seen, udp, tasks

(* LateData assigns chan. *)
LEMMA LateDataStep ==
    ASSUME IInv, NEW sid \in Sid, LateData(sid)
    PROVE  IInv'
<1>a. LateData(sid)
  OBVIOUS
<1>b. TypeOK /\ StreamIds /\ Targets /\ StreamsOwned /\ TcpListenerOwned /\ UdpTaskOwned
  BY DEF IInv
<1>1. (chan \in [Session -> Seq(Frame)])'
  <2> USE <1>b
  <2>1. Send(conn[sid].sess, Msg("Data", sid))
    BY <1>a DEF LateData
  <2>2. sid \in Nat
    BY SidsAreNumbers
  <2> QED
    BY <2>1, <2>2, SendType, FrameType
<1>2. UNCHANGED <<loop, state, registry, next_sid, tasks, conn>>
  BY <1>a DEF LateData
<1>3. UNCHANGED <<chan_open, view>>
  BY <1>a DEF LateData, Send
<1>4. TypeOK'
  BY <1>b, <1>1, <1>2, <1>3 DEF TypeOK, loop, state, seen, udp, tasks, wire
<1> QED
    BY <1>b, <1>2, <1>4, StreamIdsFrame, TargetsFrame, StreamsOwnedFrame,
     TcpListenerOwnedFrame, UdpTaskOwnedFrame DEF IInv, loop, state, seen, udp, tasks

(* SendStreamClose assigns conn and chan. *)
LEMMA SendStreamCloseStep ==
    ASSUME IInv, NEW sid \in Sid, SendStreamClose(sid)
    PROVE  IInv'
<1>a. SendStreamClose(sid)
  OBVIOUS
<1>b. TypeOK /\ StreamIds /\ Targets /\ StreamsOwned /\ TcpListenerOwned /\ UdpTaskOwned
  BY DEF IInv
<1>1. (conn \in [Sid -> ConnType])'
  BY <1>a, <1>b, ConnGotoType DEF SendStreamClose, ConnPc
<1>2. (chan \in [Session -> Seq(Frame)])'
  <2> USE <1>b
  <2>1. Send(conn[sid].sess, Msg("StreamClose", sid))
    BY <1>a DEF SendStreamClose
  <2>2. sid \in Nat
    BY SidsAreNumbers
  <2> QED
    BY <2>1, <2>2, SendType, FrameType
<1>3. UNCHANGED <<loop, state, registry, next_sid, tasks>>
  BY <1>a DEF SendStreamClose
<1>4. UNCHANGED <<chan_open, view>>
  BY <1>a DEF SendStreamClose, Send
<1>5. TypeOK'
  BY <1>b, <1>1, <1>2, <1>3, <1>4 DEF TypeOK, loop, state, seen, udp, tasks, wire
<1>6. StreamIds' /\ StreamsOwned'
  <2>1. "unmap" \in MappedPc
    BY DEF MappedPc
  <2>2. ConnGoto(sid, "unmap") /\ UNCHANGED <<streams, next_sid>>
    BY <1>a DEF SendStreamClose, loop, state, seen, udp, tasks
  <2> QED
    BY <1>b, <2>1, <2>2, ConnGotoStep
<1> QED
    BY <1>b, <1>3, <1>5, <1>6, TargetsFrame, TcpListenerOwnedFrame, UdpTaskOwnedFrame
     DEF IInv, loop, state, seen, udp, tasks

(* Unmap assigns streams, stream_tunnel, registry and conn. *)
LEMMA UnmapStep ==
    ASSUME IInv, NEW sid \in Sid, Unmap(sid)
    PROVE  IInv'
<1>a. Unmap(sid)
  OBVIOUS
<1>b. TypeOK /\ StreamIds /\ Targets /\ StreamsOwned /\ TcpListenerOwned /\ UdpTaskOwned
  BY DEF IInv
<1>1. (streams \in [Session -> SUBSET Sid])'
  <2> USE <1>b
  <2>1. streams' = [streams EXCEPT ![conn[sid].sess] = @ \ {sid}]
    BY <1>a DEF Unmap
  <2>2. streams \in [Session -> SUBSET Sid]
    BY DEF TypeOK
  <2> QED
    BY <2>1, <2>2
<1>2. (stream_tunnel \in [Session -> SUBSET Sid])'
  <2> USE <1>b
  <2>1. stream_tunnel' = [stream_tunnel EXCEPT ![conn[sid].sess] = @ \ {sid}]
    BY <1>a DEF Unmap
  <2>2. stream_tunnel \in [Session -> SUBSET Sid]
    BY DEF TypeOK
  <2> QED
    BY <2>1, <2>2
<1>3. (registry \subseteq Sid)'
  BY <1>a, <1>b DEF Unmap, TypeOK
<1>4. (conn \in [Sid -> ConnType])'
  BY <1>a, <1>b, ConnGotoType DEF Unmap, ConnPc
<1>5. UNCHANGED <<loop, tunnels, udp_peers, next_sid, tasks, wire>>
  BY <1>a DEF Unmap
<1>6. TypeOK'
  BY <1>b, <1>1, <1>2, <1>3, <1>4, <1>5 DEF TypeOK, loop, state, seen, udp, tasks, wire
<1>7. StreamIds' /\ StreamsOwned'
  <2>1. ConnGoto(sid, "done") /\ UNCHANGED next_sid
    BY <1>a DEF Unmap
  <2>2. SameIds
    BY <1>b, <2>1, GotoKeepsIds
  <2>3. \A x \in Sid : x # sid => conn'[x] = conn[x]
    BY <1>b, <2>1 DEF ConnGoto, TypeOK
  <2>4. \A s \in Session : streams'[s] \subseteq streams[s] /\ (s = conn[sid].sess => sid \notin streams'[s])
    <3>1. streams' = [streams EXCEPT ![conn[sid].sess] = @ \ {sid}]
      BY <1>a DEF Unmap
    <3> QED
      BY <1>b, <3>1 DEF TypeOK
  <2>5. StreamsOwned'
    <3>1. \A s \in Session : streams[s] \subseteq Sid
      BY <1>b DEF TypeOK
    <3> QED
      BY <1>b, <2>2, <2>3, <2>4, <3>1 DEF StreamsOwned, SameIds, IsTcp
  <2> QED
    BY <1>b, <2>1, <2>2, <2>5, StreamIdsKept
<1> QED
    BY <1>b, <1>5, <1>6, <1>7, TargetsFrame, TcpListenerOwnedFrame, UdpTaskOwnedFrame
     DEF IInv, loop, state, seen, udp, tasks

(* UdpRecvKnown assigns udp_task and last_seen. *)
LEMMA UdpRecvKnownStep ==
    ASSUME IInv, NEW s \in Session, NEW t \in TunnelId, NEW p \in Peer, UdpRecvKnown(s, t, p)
    PROVE  IInv'
<1>a. UdpRecvKnown(s, t, p)
  OBVIOUS
<1>b. TypeOK /\ StreamIds /\ Targets /\ StreamsOwned /\ TcpListenerOwned /\ UdpTaskOwned
  BY DEF IInv
<1>1. (udp_task \in [Session -> [TunnelId -> UdpType]])'
  BY <1>a, <1>b DEF UdpRecvKnown, TypeOK, UdpType, UdpPc
<1>2. (last_seen \in [Session -> [TunnelId -> SUBSET Peer]])'
  BY <1>a, <1>b DEF UdpRecvKnown, TypeOK
<1>3. UNCHANGED <<loop, state, registry, next_sid, tcp_task, peer_streams, shutdown,
                  conn, wire>>
  BY <1>a DEF UdpRecvKnown
<1>4. TypeOK'
  BY <1>b, <1>1, <1>2, <1>3 DEF TypeOK, loop, state, seen, udp, tasks, wire
<1>5. Targets' /\ UdpTaskOwned'
  <2>1. udp_task[s][t].pc = "recv" /\ UNCHANGED <<hc, tunnels, shutdown>>
    BY <1>a DEF UdpRecvKnown, UdpAt, loop, state, seen, udp, tasks
  <2>2. /\ udp_task'[s][t] = [pc |-> "data", sid |-> peer_streams[s][t][p]]
        /\ \A x \in Session, y \in TunnelId :
              x # s \/ y # t => udp_task'[x][y] = udp_task[x][y]
    <3> DEFINE u == [pc |-> "data", sid |-> peer_streams[s][t][p]]
    <3>1. udp_task' = [udp_task EXCEPT ![s][t] = u]
      BY <1>a DEF UdpRecvKnown
    <3> HIDE DEF u
    <3>2. udp_task'[s][t] = u /\ \A x \in Session, y \in TunnelId :
            x # s \/ y # t => udp_task'[x][y] = udp_task[x][y]
      BY <1>b, <3>1 DEF TypeOK
    <3> QED
      BY <3>2 DEF u
  <2>3. udp_task'[s][t].pc \notin {"none", "recv", "end", "failed"} => udp_task'[s][t].sid \in Sid
    BY <1>a, <1>b, <2>2 DEF UdpRecvKnown, TypeOK
  <2>4. UdpAlive(s, t)
    BY <2>1 DEF UdpAlive
  <2> QED
    BY <1>b, <2>1, <2>2, <2>3, <2>4, UdpStepKeeps
<1> QED
    BY <1>b, <1>3, <1>4, <1>5, StreamIdsFrame, StreamsOwnedFrame, TcpListenerOwnedFrame
     DEF IInv, loop, state, seen, udp, tasks

(* UdpRecvNew assigns next_sid, udp_task, peer_streams, last_seen and conn. *)
LEMMA UdpRecvNewStep ==
    ASSUME IInv, NEW s \in Session, NEW t \in TunnelId, NEW p \in Peer, UdpRecvNew(s, t, p)
    PROVE  IInv'
<1>a. UdpRecvNew(s, t, p)
  OBVIOUS
<1>b. TypeOK /\ StreamIds /\ Targets /\ StreamsOwned /\ TcpListenerOwned /\ UdpTaskOwned
  BY DEF IInv
<1>1. (next_sid \in 1 .. MaxStream + 1)'
  <2> USE <1>b
  <2>1. next_sid \in 1 .. MaxStream /\ next_sid' = next_sid + 1
    BY <1>a DEF UdpRecvNew, Sid
  <2>2. MaxStream \in Nat
    BY BoundAssumption
  <2> QED
    BY <2>1, <2>2
<1>2. (udp_task \in [Session -> [TunnelId -> UdpType]])'
  BY <1>a, <1>b DEF UdpRecvNew, TypeOK, UdpType, UdpPc
<1>3. (peer_streams \in [Session -> [TunnelId -> [Peer -> Sid \cup {0}]]])'
  BY <1>a, <1>b DEF UdpRecvNew, TypeOK
<1>4. (last_seen \in [Session -> [TunnelId -> SUBSET Peer]])'
  BY <1>a, <1>b DEF UdpRecvNew, TypeOK
<1>5. (conn \in [Sid -> ConnType])'
  BY <1>a, <1>b DEF UdpRecvNew, TypeOK, ConnType, ConnPc, NewConn
<1>6. UNCHANGED <<loop, state, registry, tcp_task, shutdown, wire>>
  BY <1>a DEF UdpRecvNew
<1>7. TypeOK'
    BY <1>b, <1>1, <1>2, <1>3, <1>4, <1>5, <1>6 DEF TypeOK, loop, state, seen, udp,
     tasks, wire
<1>8. StreamIds' /\ StreamsOwned'
  <2>1. next_sid \in Sid /\ next_sid' = next_sid + 1 /\ UNCHANGED streams
    BY <1>a DEF UdpRecvNew, loop, state, seen, udp, tasks
  <2>2. conn' = [conn EXCEPT ![next_sid] = NewConn("udp", "run", s, t)]
    BY <1>a DEF UdpRecvNew
  <2> QED
    BY <1>b, <2>1, <2>2, NewStreamStep
<1>9. Targets' /\ UdpTaskOwned'
  <2>1. udp_task[s][t].pc = "recv" /\ UNCHANGED <<hc, tunnels, shutdown>>
    BY <1>a DEF UdpRecvNew, UdpAt, loop, state, seen, udp, tasks
  <2>2. /\ udp_task'[s][t] = [pc |-> "lookup", sid |-> next_sid]
        /\ \A x \in Session, y \in TunnelId :
              x # s \/ y # t => udp_task'[x][y] = udp_task[x][y]
    <3> DEFINE u == [pc |-> "lookup", sid |-> next_sid]
    <3>1. udp_task' = [udp_task EXCEPT ![s][t] = u]
      BY <1>a DEF UdpRecvNew
    <3> HIDE DEF u
    <3>2. udp_task'[s][t] = u /\ \A x \in Session, y \in TunnelId :
            x # s \/ y # t => udp_task'[x][y] = udp_task[x][y]
      BY <1>b, <3>1 DEF TypeOK
    <3> QED
      BY <3>2 DEF u
  <2>3. udp_task'[s][t].pc \notin {"none", "recv", "end", "failed"} => udp_task'[s][t].sid \in Sid
    BY <1>a, <2>2 DEF UdpRecvNew
  <2>4. UdpAlive(s, t)
    BY <2>1 DEF UdpAlive
  <2> QED
    BY <1>b, <2>1, <2>2, <2>3, <2>4, UdpStepKeeps
<1> QED
    BY <1>b, <1>6, <1>7, <1>8, <1>9, TcpListenerOwnedFrame DEF IInv, loop, state, seen,
     udp, tasks

(* UdpLookupDb assigns udp_task and conn. *)
LEMMA UdpLookupDbStep ==
    ASSUME IInv, NEW s \in Session, NEW t \in TunnelId, UdpLookupDb(s, t)
    PROVE  IInv'
<1>a. UdpLookupDb(s, t)
  OBVIOUS
<1>b. TypeOK /\ StreamIds /\ Targets /\ StreamsOwned /\ TcpListenerOwned /\ UdpTaskOwned
  BY DEF IInv
<1>1. (udp_task \in [Session -> [TunnelId -> UdpType]])'
  BY <1>a, <1>b, UdpGotoType DEF UdpLookupDb, UdpPc
<1>2. (conn \in [Sid -> ConnType])'
  <2> USE <1>b
  <2>1. s \in Session /\ t \in TunnelId
    OBVIOUS
  <2>2. db_of(s, t) \in DbId \cup {0}
    <3>1. req[s][t] \in Request \cup {NoRequest}
      BY <2>1 DEF TypeOK
    <3> QED
      BY <3>1 DEF db_of, Request, NoRequest
  <2>3. conn \in [Sid -> ConnType]
    BY DEF TypeOK
  <2>4. ASSUME NEW c \in ConnType
        PROVE  [c EXCEPT !.db = db_of(s, t)] \in ConnType
    BY <2>2 DEF ConnType, ConnPc
  <2>5. conn' = [conn EXCEPT ![udp_task[s][t].sid] = [@ EXCEPT !.db = db_of(s, t)]]
    BY <1>a DEF UdpLookupDb
  <2> QED
    BY <2>3, <2>4, <2>5
<1>3. UNCHANGED <<loop, state, registry, next_sid, tcp_task, seen, shutdown, wire>>
  BY <1>a DEF UdpLookupDb
<1>4. TypeOK'
  BY <1>b, <1>1, <1>2, <1>3 DEF TypeOK, loop, state, seen, udp, tasks, wire
<1>5. StreamIds' /\ StreamsOwned'
  <2>1. SameIds /\ Mapped
    BY <1>a, <1>b, UdpLookupKeeps
  <2>2. UNCHANGED <<streams, next_sid>>
    BY <1>a DEF UdpLookupDb, loop, state, seen, udp, tasks
  <2> QED
    BY <1>b, <2>1, <2>2, StreamIdsKept, OwnedKept
<1>6. Targets' /\ UdpTaskOwned'
  <2>1. udp_task[s][t].pc = "lookup" /\ UNCHANGED <<hc, tunnels, shutdown>>
    BY <1>a DEF UdpLookupDb, UdpAt, loop, state, seen, udp, tasks
  <2>2. /\ udp_task'[s][t].pc = "register" /\ udp_task'[s][t].sid = udp_task[s][t].sid
        /\ \A x \in Session, y \in TunnelId :
              x # s \/ y # t => udp_task'[x][y] = udp_task[x][y]
    <3>1. UdpGoto(s, t, "register")
      BY <1>a DEF UdpLookupDb
    <3> QED
      BY <1>b, <3>1, UdpGotoMoves
  <2>3. udp_task'[s][t].pc \notin {"none", "recv", "end", "failed"} => udp_task'[s][t].sid \in Sid
    BY <1>b, <2>1, <2>2 DEF Targets
  <2>4. UdpAlive(s, t)
    BY <2>1 DEF UdpAlive
  <2> QED
    BY <1>b, <2>1, <2>2, <2>3, <2>4, UdpStepKeeps
<1> QED
    BY <1>b, <1>3, <1>4, <1>5, <1>6, TcpListenerOwnedFrame DEF IInv, loop, state, seen,
     udp, tasks

(* UdpRegister assigns registry and udp_task. *)
LEMMA UdpRegisterStep ==
    ASSUME IInv, NEW s \in Session, NEW t \in TunnelId, UdpRegister(s, t)
    PROVE  IInv'
<1>a. UdpRegister(s, t)
  OBVIOUS
<1>b. TypeOK /\ StreamIds /\ Targets /\ StreamsOwned /\ TcpListenerOwned /\ UdpTaskOwned
  BY DEF IInv
<1>1. (registry \subseteq Sid)'
  <2> USE <1>b
  <2>1. registry' = registry \cup {udp_task[s][t].sid} /\ udp_task[s][t].pc = "register"
    BY <1>a DEF UdpRegister, UdpAt
  <2>2. udp_task[s][t].sid \in Sid
    BY <2>1 DEF Targets
  <2> QED
    BY <2>1, <2>2 DEF TypeOK
<1>2. (udp_task \in [Session -> [TunnelId -> UdpType]])'
  BY <1>a, <1>b, UdpGotoType DEF UdpRegister, UdpPc
<1>3. UNCHANGED <<loop, state, next_sid, tcp_task, seen, shutdown, conn, wire>>
  BY <1>a DEF UdpRegister
<1>4. TypeOK'
  BY <1>b, <1>1, <1>2, <1>3 DEF TypeOK, loop, state, seen, udp, tasks, wire
<1>5. Targets' /\ UdpTaskOwned'
  <2>1. udp_task[s][t].pc = "register" /\ UNCHANGED <<hc, tunnels, shutdown>>
    BY <1>a DEF UdpRegister, UdpAt, loop, state, seen, udp, tasks
  <2>2. /\ udp_task'[s][t].pc = "map" /\ udp_task'[s][t].sid = udp_task[s][t].sid
        /\ \A x \in Session, y \in TunnelId :
              x # s \/ y # t => udp_task'[x][y] = udp_task[x][y]
    <3>1. UdpGoto(s, t, "map")
      BY <1>a DEF UdpRegister
    <3> QED
      BY <1>b, <3>1, UdpGotoMoves
  <2>3. udp_task'[s][t].pc \notin {"none", "recv", "end", "failed"} => udp_task'[s][t].sid \in Sid
    BY <1>b, <2>1, <2>2 DEF Targets
  <2>4. UdpAlive(s, t)
    BY <2>1 DEF UdpAlive
  <2> QED
    BY <1>b, <2>1, <2>2, <2>3, <2>4, UdpStepKeeps
<1> QED
    BY <1>b, <1>3, <1>4, <1>5, StreamIdsFrame, StreamsOwnedFrame, TcpListenerOwnedFrame
     DEF IInv, loop, state, seen, udp, tasks

(* UdpMap assigns udp_peers, stream_tunnel and udp_task. *)
LEMMA UdpMapStep ==
    ASSUME IInv, NEW s \in Session, NEW t \in TunnelId, UdpMap(s, t)
    PROVE  IInv'
<1>a. UdpMap(s, t)
  OBVIOUS
<1>b. TypeOK /\ StreamIds /\ Targets /\ StreamsOwned /\ TcpListenerOwned /\ UdpTaskOwned
  BY DEF IInv
<1>1. (udp_peers \in [Session -> SUBSET Sid])'
  <2> USE <1>b
  <2>1. udp_peers' = [udp_peers EXCEPT ![s] = @ \cup {udp_task[s][t].sid}] /\ udp_task[s][t].pc = "map"
    BY <1>a DEF UdpMap, UdpAt
  <2>2. udp_task[s][t].sid \in Sid
    BY <2>1 DEF Targets
  <2>3. udp_peers \in [Session -> SUBSET Sid]
    BY DEF TypeOK
  <2> QED
    BY <2>1, <2>2, <2>3
<1>2. (stream_tunnel \in [Session -> SUBSET Sid])'
  <2> USE <1>b
  <2>1. stream_tunnel' = [stream_tunnel EXCEPT ![s] = @ \cup {udp_task[s][t].sid}] /\ udp_task[s][t].pc = "map"
    BY <1>a DEF UdpMap, UdpAt
  <2>2. udp_task[s][t].sid \in Sid
    BY <2>1 DEF Targets
  <2>3. stream_tunnel \in [Session -> SUBSET Sid]
    BY DEF TypeOK
  <2> QED
    BY <2>1, <2>2, <2>3
<1>3. (udp_task \in [Session -> [TunnelId -> UdpType]])'
  BY <1>a, <1>b, UdpGotoType DEF UdpMap, UdpPc
<1>4. UNCHANGED <<loop, tunnels, streams, registry, next_sid, tcp_task, seen, shutdown,
                  conn, wire>>
  BY <1>a DEF UdpMap
<1>5. TypeOK'
  BY <1>b, <1>1, <1>2, <1>3, <1>4 DEF TypeOK, loop, state, seen, udp, tasks, wire
<1>6. Targets' /\ UdpTaskOwned'
  <2>1. udp_task[s][t].pc = "map" /\ UNCHANGED <<hc, tunnels, shutdown>>
    BY <1>a DEF UdpMap, UdpAt, loop, state, seen, udp, tasks
  <2>2. /\ udp_task'[s][t].pc = "announce" /\ udp_task'[s][t].sid = udp_task[s][t].sid
        /\ \A x \in Session, y \in TunnelId :
              x # s \/ y # t => udp_task'[x][y] = udp_task[x][y]
    <3>1. UdpGoto(s, t, "announce")
      BY <1>a DEF UdpMap
    <3> QED
      BY <1>b, <3>1, UdpGotoMoves
  <2>3. udp_task'[s][t].pc \notin {"none", "recv", "end", "failed"} => udp_task'[s][t].sid \in Sid
    BY <1>b, <2>1, <2>2 DEF Targets
  <2>4. UdpAlive(s, t)
    BY <2>1 DEF UdpAlive
  <2> QED
    BY <1>b, <2>1, <2>2, <2>3, <2>4, UdpStepKeeps
<1> QED
    BY <1>b, <1>4, <1>5, <1>6, StreamIdsFrame, StreamsOwnedFrame, TcpListenerOwnedFrame
     DEF IInv, loop, state, seen, udp, tasks

(* UdpAnnounce assigns udp_task and chan. *)
LEMMA UdpAnnounceStep ==
    ASSUME IInv, NEW s \in Session, NEW t \in TunnelId, UdpAnnounce(s, t)
    PROVE  IInv'
<1>a. UdpAnnounce(s, t)
  OBVIOUS
<1>b. TypeOK /\ StreamIds /\ Targets /\ StreamsOwned /\ TcpListenerOwned /\ UdpTaskOwned
  BY DEF IInv
<1>1. (udp_task \in [Session -> [TunnelId -> UdpType]])'
  BY <1>a, <1>b, UdpGotoType DEF UdpAnnounce, UdpPc
<1>2. (chan \in [Session -> Seq(Frame)])'
  <2> USE <1>b
  <2>1. Send(s, Msg("NewConnection", udp_task[s][t].sid))
    BY <1>a DEF UdpAnnounce
  <2>2. udp_task[s][t].sid \in Nat
    BY UdpFields
  <2> QED
    BY <2>1, <2>2, SendType, FrameType
<1>3. UNCHANGED <<loop, state, registry, next_sid, tcp_task, seen, shutdown, conn>>
  BY <1>a DEF UdpAnnounce
<1>4. UNCHANGED <<chan_open, view>>
  BY <1>a DEF UdpAnnounce, Send
<1>5. TypeOK'
  BY <1>b, <1>1, <1>2, <1>3, <1>4 DEF TypeOK, loop, state, seen, udp, tasks, wire
<1>6. Targets' /\ UdpTaskOwned'
  <2>1. udp_task[s][t].pc = "announce" /\ UNCHANGED <<hc, tunnels, shutdown>>
    BY <1>a DEF UdpAnnounce, UdpAt, loop, state, seen, udp, tasks
  <2>2. /\ udp_task'[s][t].pc = "data" /\ udp_task'[s][t].sid = udp_task[s][t].sid
        /\ \A x \in Session, y \in TunnelId :
              x # s \/ y # t => udp_task'[x][y] = udp_task[x][y]
    <3>1. UdpGoto(s, t, "data")
      BY <1>a DEF UdpAnnounce
    <3> QED
      BY <1>b, <3>1, UdpGotoMoves
  <2>3. udp_task'[s][t].pc \notin {"none", "recv", "end", "failed"} => udp_task'[s][t].sid \in Sid
    BY <1>b, <2>1, <2>2 DEF Targets
  <2>4. UdpAlive(s, t)
    BY <2>1 DEF UdpAlive
  <2> QED
    BY <1>b, <2>1, <2>2, <2>3, <2>4, UdpStepKeeps
<1> QED
    BY <1>b, <1>3, <1>5, <1>6, StreamIdsFrame, StreamsOwnedFrame, TcpListenerOwnedFrame
     DEF IInv, loop, state, seen, udp, tasks

(* UdpData assigns udp_task and chan. *)
LEMMA UdpDataStep ==
    ASSUME IInv, NEW s \in Session, NEW t \in TunnelId, UdpData(s, t)
    PROVE  IInv'
<1>a. UdpData(s, t)
  OBVIOUS
<1>b. TypeOK /\ StreamIds /\ Targets /\ StreamsOwned /\ TcpListenerOwned /\ UdpTaskOwned
  BY DEF IInv
<1>1. (udp_task \in [Session -> [TunnelId -> UdpType]])'
  BY <1>a, <1>b, UdpGotoType DEF UdpData, UdpPc
<1>2. (chan \in [Session -> Seq(Frame)])'
  <2> USE <1>b
  <2>1. Send(s, Msg("Data", udp_task[s][t].sid))
    BY <1>a DEF UdpData
  <2>2. udp_task[s][t].sid \in Nat
    BY UdpFields
  <2> QED
    BY <2>1, <2>2, SendType, FrameType
<1>3. UNCHANGED <<loop, state, registry, next_sid, tcp_task, seen, shutdown, conn>>
  BY <1>a DEF UdpData
<1>4. UNCHANGED <<chan_open, view>>
  BY <1>a DEF UdpData, Send
<1>5. TypeOK'
  BY <1>b, <1>1, <1>2, <1>3, <1>4 DEF TypeOK, loop, state, seen, udp, tasks, wire
<1>6. Targets' /\ UdpTaskOwned'
  <2>1. udp_task[s][t].pc = "data" /\ UNCHANGED <<hc, tunnels, shutdown>>
    BY <1>a DEF UdpData, UdpAt, loop, state, seen, udp, tasks
  <2>2. /\ udp_task'[s][t].pc = "recv" /\ udp_task'[s][t].sid = udp_task[s][t].sid
        /\ \A x \in Session, y \in TunnelId :
              x # s \/ y # t => udp_task'[x][y] = udp_task[x][y]
    <3>1. UdpGoto(s, t, "recv")
      BY <1>a DEF UdpData
    <3> QED
      BY <1>b, <3>1, UdpGotoMoves
  <2>3. udp_task'[s][t].pc \notin {"none", "recv", "end", "failed"} => udp_task'[s][t].sid \in Sid
    BY <1>b, <2>1, <2>2 DEF Targets
  <2>4. UdpAlive(s, t)
    BY <2>1 DEF UdpAlive
  <2> QED
    BY <1>b, <2>1, <2>2, <2>3, <2>4, UdpStepKeeps
<1> QED
    BY <1>b, <1>3, <1>5, <1>6, StreamIdsFrame, StreamsOwnedFrame, TcpListenerOwnedFrame
     DEF IInv, loop, state, seen, udp, tasks

(* UdpExpire assigns udp_peers, stream_tunnel, udp_task, peer_streams and   *)
(* last_seen.                                                               *)
LEMMA UdpExpireStep ==
    ASSUME IInv, NEW s \in Session, NEW t \in TunnelId, NEW p \in Peer, UdpExpire(s, t, p)
    PROVE  IInv'
<1>a. UdpExpire(s, t, p)
  OBVIOUS
<1>b. TypeOK /\ StreamIds /\ Targets /\ StreamsOwned /\ TcpListenerOwned /\ UdpTaskOwned
  BY DEF IInv
<1>1. (udp_peers \in [Session -> SUBSET Sid])'
  BY <1>a, <1>b DEF UdpExpire, TypeOK
<1>2. (stream_tunnel \in [Session -> SUBSET Sid])'
  BY <1>a, <1>b DEF UdpExpire, TypeOK
<1>3. (udp_task \in [Session -> [TunnelId -> UdpType]])'
  BY <1>a, <1>b DEF UdpExpire, TypeOK, UdpType, UdpPc
<1>4. (peer_streams \in [Session -> [TunnelId -> [Peer -> Sid \cup {0}]]])'
  BY <1>a, <1>b DEF UdpExpire, TypeOK
<1>5. (last_seen \in [Session -> [TunnelId -> SUBSET Peer]])'
  BY <1>a, <1>b DEF UdpExpire, TypeOK
<1>6. UNCHANGED <<loop, tunnels, streams, registry, next_sid, tcp_task, shutdown, conn,
                  wire>>
  BY <1>a DEF UdpExpire
<1>7. TypeOK'
    BY <1>b, <1>1, <1>2, <1>3, <1>4, <1>5, <1>6 DEF TypeOK, loop, state, seen, udp,
     tasks, wire
<1>8. Targets' /\ UdpTaskOwned'
  <2>1. udp_task[s][t].pc = "recv" /\ UNCHANGED <<hc, tunnels, shutdown>>
    BY <1>a DEF UdpExpire, UdpAt, loop, state, seen, udp, tasks
  <2>2. /\ udp_task'[s][t] = [pc |-> "expire", sid |-> peer_streams[s][t][p]]
        /\ \A x \in Session, y \in TunnelId :
              x # s \/ y # t => udp_task'[x][y] = udp_task[x][y]
    <3> DEFINE u == [pc |-> "expire", sid |-> peer_streams[s][t][p]]
    <3>1. udp_task' = [udp_task EXCEPT ![s][t] = u]
      BY <1>a DEF UdpExpire
    <3> HIDE DEF u
    <3>2. udp_task'[s][t] = u /\ \A x \in Session, y \in TunnelId :
            x # s \/ y # t => udp_task'[x][y] = udp_task[x][y]
      BY <1>b, <3>1 DEF TypeOK
    <3> QED
      BY <3>2 DEF u
  <2>3. udp_task'[s][t].pc \notin {"none", "recv", "end", "failed"} => udp_task'[s][t].sid \in Sid
    BY <1>a, <1>b, <2>2 DEF UdpExpire, TypeOK
  <2>4. UdpAlive(s, t)
    BY <2>1 DEF UdpAlive
  <2> QED
    BY <1>b, <2>1, <2>2, <2>3, <2>4, UdpStepKeeps
<1> QED
    BY <1>b, <1>6, <1>7, <1>8, StreamIdsFrame, StreamsOwnedFrame, TcpListenerOwnedFrame
     DEF IInv, loop, state, seen, udp, tasks

(* UdpExpireRegistry assigns registry and udp_task. *)
LEMMA UdpExpireRegistryStep ==
    ASSUME IInv, NEW s \in Session, NEW t \in TunnelId, UdpExpireRegistry(s, t)
    PROVE  IInv'
<1>a. UdpExpireRegistry(s, t)
  OBVIOUS
<1>b. TypeOK /\ StreamIds /\ Targets /\ StreamsOwned /\ TcpListenerOwned /\ UdpTaskOwned
  BY DEF IInv
<1>1. (registry \subseteq Sid)'
  BY <1>a, <1>b DEF UdpExpireRegistry, TypeOK
<1>2. (udp_task \in [Session -> [TunnelId -> UdpType]])'
  BY <1>a, <1>b, UdpGotoType DEF UdpExpireRegistry, UdpPc
<1>3. UNCHANGED <<loop, state, next_sid, tcp_task, seen, shutdown, conn, wire>>
  BY <1>a DEF UdpExpireRegistry
<1>4. TypeOK'
  BY <1>b, <1>1, <1>2, <1>3 DEF TypeOK, loop, state, seen, udp, tasks, wire
<1>5. Targets' /\ UdpTaskOwned'
  <2>1. udp_task[s][t].pc = "expire" /\ UNCHANGED <<hc, tunnels, shutdown>>
    BY <1>a DEF UdpExpireRegistry, UdpAt, loop, state, seen, udp, tasks
  <2>2. /\ udp_task'[s][t].pc = "expire_close" /\ udp_task'[s][t].sid = udp_task[s][t].sid
        /\ \A x \in Session, y \in TunnelId :
              x # s \/ y # t => udp_task'[x][y] = udp_task[x][y]
    <3>1. UdpGoto(s, t, "expire_close")
      BY <1>a DEF UdpExpireRegistry
    <3> QED
      BY <1>b, <3>1, UdpGotoMoves
  <2>3. udp_task'[s][t].pc \notin {"none", "recv", "end", "failed"} => udp_task'[s][t].sid \in Sid
    BY <1>b, <2>1, <2>2 DEF Targets
  <2>4. UdpAlive(s, t)
    BY <2>1 DEF UdpAlive
  <2> QED
    BY <1>b, <2>1, <2>2, <2>3, <2>4, UdpStepKeeps
<1> QED
    BY <1>b, <1>3, <1>4, <1>5, StreamIdsFrame, StreamsOwnedFrame, TcpListenerOwnedFrame
     DEF IInv, loop, state, seen, udp, tasks

(* UdpExpireClose assigns udp_task and chan. *)
LEMMA UdpExpireCloseStep ==
    ASSUME IInv, NEW s \in Session, NEW t \in TunnelId, UdpExpireClose(s, t)
    PROVE  IInv'
<1>a. UdpExpireClose(s, t)
  OBVIOUS
<1>b. TypeOK /\ StreamIds /\ Targets /\ StreamsOwned /\ TcpListenerOwned /\ UdpTaskOwned
  BY DEF IInv
<1>1. (udp_task \in [Session -> [TunnelId -> UdpType]])'
  BY <1>a, <1>b, UdpGotoType DEF UdpExpireClose, UdpPc
<1>2. (chan \in [Session -> Seq(Frame)])'
  <2> USE <1>b
  <2>1. Send(s, Msg("StreamClose", udp_task[s][t].sid))
    BY <1>a DEF UdpExpireClose
  <2>2. udp_task[s][t].sid \in Nat
    BY UdpFields
  <2> QED
    BY <2>1, <2>2, SendType, FrameType
<1>3. UNCHANGED <<loop, state, registry, next_sid, tcp_task, seen, shutdown, conn>>
  BY <1>a DEF UdpExpireClose
<1>4. UNCHANGED <<chan_open, view>>
  BY <1>a DEF UdpExpireClose, Send
<1>5. TypeOK'
  BY <1>b, <1>1, <1>2, <1>3, <1>4 DEF TypeOK, loop, state, seen, udp, tasks, wire
<1>6. Targets' /\ UdpTaskOwned'
  <2>1. udp_task[s][t].pc = "expire_close" /\ UNCHANGED <<hc, tunnels, shutdown>>
    BY <1>a DEF UdpExpireClose, UdpAt, loop, state, seen, udp, tasks
  <2>2. /\ udp_task'[s][t].pc = "recv" /\ udp_task'[s][t].sid = udp_task[s][t].sid
        /\ \A x \in Session, y \in TunnelId :
              x # s \/ y # t => udp_task'[x][y] = udp_task[x][y]
    <3>1. UdpGoto(s, t, "recv")
      BY <1>a DEF UdpExpireClose
    <3> QED
      BY <1>b, <3>1, UdpGotoMoves
  <2>3. udp_task'[s][t].pc \notin {"none", "recv", "end", "failed"} => udp_task'[s][t].sid \in Sid
    BY <1>b, <2>1, <2>2 DEF Targets
  <2>4. UdpAlive(s, t)
    BY <2>1 DEF UdpAlive
  <2> QED
    BY <1>b, <2>1, <2>2, <2>3, <2>4, UdpStepKeeps
<1> QED
    BY <1>b, <1>3, <1>5, <1>6, StreamIdsFrame, StreamsOwnedFrame, TcpListenerOwnedFrame
     DEF IInv, loop, state, seen, udp, tasks

(* UdpShutdown assigns registry and udp_task. *)
LEMMA UdpShutdownStep ==
    ASSUME IInv, NEW s \in Session, NEW t \in TunnelId, UdpShutdown(s, t)
    PROVE  IInv'
<1>a. UdpShutdown(s, t)
  OBVIOUS
<1>b. TypeOK /\ StreamIds /\ Targets /\ StreamsOwned /\ TcpListenerOwned /\ UdpTaskOwned
  BY DEF IInv
<1>1. (registry \subseteq Sid)'
  BY <1>a, <1>b DEF UdpShutdown, TypeOK
<1>2. (udp_task \in [Session -> [TunnelId -> UdpType]])'
  BY <1>a, <1>b, UdpGotoType DEF UdpShutdown, UdpPc
<1>3. UNCHANGED <<loop, state, next_sid, tcp_task, seen, shutdown, conn, wire>>
  BY <1>a DEF UdpShutdown
<1>4. TypeOK'
  BY <1>b, <1>1, <1>2, <1>3 DEF TypeOK, loop, state, seen, udp, tasks, wire
<1>5. Targets' /\ UdpTaskOwned'
  <2>1. udp_task[s][t].pc = "recv" /\ UNCHANGED <<hc, tunnels, shutdown>>
    BY <1>a DEF UdpShutdown, UdpAt, loop, state, seen, udp, tasks
  <2>2. /\ udp_task'[s][t].pc = "end" /\ udp_task'[s][t].sid = udp_task[s][t].sid
        /\ \A x \in Session, y \in TunnelId :
              x # s \/ y # t => udp_task'[x][y] = udp_task[x][y]
    <3>1. UdpGoto(s, t, "end")
      BY <1>a DEF UdpShutdown
    <3> QED
      BY <1>b, <3>1, UdpGotoMoves
  <2>3. udp_task'[s][t].pc \notin {"none", "recv", "end", "failed"} => udp_task'[s][t].sid \in Sid
    BY <1>b, <2>1, <2>2 DEF Targets
  <2>4. UdpAlive(s, t)
    BY <2>1 DEF UdpAlive
  <2> QED
    BY <1>b, <2>1, <2>2, <2>3, <2>4, UdpStepKeeps
<1> QED
    BY <1>b, <1>3, <1>4, <1>5, StreamIdsFrame, StreamsOwnedFrame, TcpListenerOwnedFrame
     DEF IInv, loop, state, seen, udp, tasks

(* UdpRecvError assigns udp_task. *)
LEMMA UdpRecvErrorStep ==
    ASSUME IInv, NEW s \in Session, NEW t \in TunnelId, UdpRecvError(s, t)
    PROVE  IInv'
<1>a. UdpRecvError(s, t)
  OBVIOUS
<1>b. TypeOK /\ StreamIds /\ Targets /\ StreamsOwned /\ TcpListenerOwned /\ UdpTaskOwned
  BY DEF IInv
<1>1. (udp_task \in [Session -> [TunnelId -> UdpType]])'
  BY <1>a, <1>b, UdpGotoType DEF UdpRecvError, UdpPc
<1>2. UNCHANGED <<loop, state, registry, next_sid, tcp_task, seen, shutdown, conn, wire>>
  BY <1>a DEF UdpRecvError
<1>3. TypeOK'
  BY <1>b, <1>1, <1>2 DEF TypeOK, loop, state, seen, udp, tasks, wire
<1>4. Targets' /\ UdpTaskOwned'
  <2>1. udp_task[s][t].pc = "recv" /\ UNCHANGED <<hc, tunnels, shutdown>>
    BY <1>a DEF UdpRecvError, UdpAt, loop, state, seen, udp, tasks
  <2>2. /\ udp_task'[s][t].pc = "failed" /\ udp_task'[s][t].sid = udp_task[s][t].sid
        /\ \A x \in Session, y \in TunnelId :
              x # s \/ y # t => udp_task'[x][y] = udp_task[x][y]
    <3>1. UdpGoto(s, t, "failed")
      BY <1>a DEF UdpRecvError
    <3> QED
      BY <1>b, <3>1, UdpGotoMoves
  <2>3. udp_task'[s][t].pc \notin {"none", "recv", "end", "failed"} => udp_task'[s][t].sid \in Sid
    BY <1>b, <2>1, <2>2 DEF Targets
  <2>4. UdpAlive(s, t)
    BY <2>1 DEF UdpAlive
  <2> QED
    BY <1>b, <2>1, <2>2, <2>3, <2>4, UdpStepKeeps
<1> QED
    BY <1>b, <1>2, <1>3, <1>4, StreamIdsFrame, StreamsOwnedFrame, TcpListenerOwnedFrame
     DEF IInv, loop, state, seen, udp, tasks

(* Disconnect assigns registry. *)
LEMMA DisconnectStep ==
    ASSUME IInv, NEW sid \in Sid, Disconnect(sid)
    PROVE  IInv'
<1>a. Disconnect(sid)
  OBVIOUS
<1>b. TypeOK /\ StreamIds /\ Targets /\ StreamsOwned /\ TcpListenerOwned /\ UdpTaskOwned
  BY DEF IInv
<1>1. (registry \subseteq Sid)'
  BY <1>a, <1>b DEF Disconnect, TypeOK
<1>2. UNCHANGED <<loop, state, next_sid, tasks, conn, wire>>
  BY <1>a DEF Disconnect
<1>3. TypeOK'
  BY <1>b, <1>1, <1>2 DEF TypeOK, loop, state, seen, udp, tasks, wire
<1> QED
    BY <1>b, <1>2, <1>3, StreamIdsFrame, TargetsFrame, StreamsOwnedFrame,
     TcpListenerOwnedFrame, UdpTaskOwnedFrame DEF IInv, loop, state, seen, udp, tasks
-----------------------------------------------------------------------------
(* The initial state: no task, no stream, nothing in a map. *)
LEMMA InitInv == Init => IInv
<1> SUFFICES ASSUME Init PROVE IInv
  OBVIOUS
<1>1. TypeOK
  BY InitType
<1>2. StreamIds
  BY DEF Init, StreamIds
<1>3. Targets
  BY DEF Init, Targets, Idle, Stage, OpeningPc
<1>4. StreamsOwned
  BY DEF Init, StreamsOwned
<1>5. TcpListenerOwned
  BY DEF Init, TcpListenerOwned
<1>6. UdpTaskOwned
  BY DEF Init, UdpTaskOwned, UdpAlive
<1> QED
  BY <1>1, <1>2, <1>3, <1>4, <1>5, <1>6 DEF IInv

(* A step that changes nothing. *)
LEMMA StutterStep == IInv /\ UNCHANGED vars => IInv'
<1> SUFFICES ASSUME IInv, UNCHANGED vars PROVE IInv'
  OBVIOUS
<1>1. /\ UNCHANGED <<sess, hc, req, registry, next_sid, tcp_task, shutdown, conn>>
      /\ UNCHANGED <<tunnels, streams, udp_peers, stream_tunnel>>
      /\ UNCHANGED <<udp_task, peer_streams, last_seen>>
      /\ UNCHANGED <<chan, chan_open, view>>
  BY DEF vars, loop, state, seen, udp, tasks, wire
<1>2. TypeOK'
  BY <1>1 DEF IInv, TypeOK
<1> QED
  BY <1>1, <1>2, StreamIdsFrame, TargetsFrame, StreamsOwnedFrame, TcpListenerOwnedFrame,
     UdpTaskOwnedFrame DEF IInv

(* The steps of one actor after the other: the client. *)
LEMMA ClientStepKeeps == ASSUME IInv, NEW s \in Session, ClientStep(s) PROVE IInv'
<1>1. CASE Connect(s)
  BY <1>1, ConnectStep
<1>2. CASE SessionEnd(s)
  BY <1>2, SessionEndStep
<1>3. CASE WriterFails(s)
  BY <1>3, WriterFailsStep
<1>4. CASE \E t \in TunnelId, r \in Request : HandleOpenTunnel(s, t, r)
  BY <1>4, HandleOpenTunnelStep
<1>5. CASE \E t \in TunnelId : HandleCloseTunnel(s, t)
  BY <1>5, HandleCloseTunnelStep
<1>6. CASE \E sid \in Sid : HandleStreamClose(s, sid) \/ HandleData(s, sid)
  BY <1>6, HandleStreamCloseStep, HandleDataStep
<1> QED
  BY <1>1, <1>2, <1>3, <1>4, <1>5, <1>6 DEF ClientStep

(* The frame loop finishing what a frame has started. *)
LEMMA LoopStepInv == ASSUME IInv, NEW s \in Session, LoopStep(s) PROVE IInv'
<1>1. CASE BindTcp(s) \/ BindTcpFails(s) \/ BindUdp(s) \/ BindUdpFails(s)
  BY <1>1, BindTcpStep, BindTcpFailsStep, BindUdpStep, BindUdpFailsStep
<1>2. CASE Reject(s) \/ InsertTunnel(s) \/ TunnelOpened(s)
  BY <1>2, RejectStep, InsertTunnelStep, TunnelOpenedStep
<1>3. CASE (\E sid \in Sid : CloseSend(s, sid)) \/ Purge(s)
  BY <1>3, CloseSendStep, PurgeStep
<1>4. CASE DataForwarded(s) \/ DataRefused(s) \/ DataClose(s) \/ DataUnmap(s)
  BY <1>4, DataForwardedStep, DataRefusedStep, DataCloseStep, DataUnmapStep
<1> QED
  BY <1>1, <1>2, <1>3, <1>4 DEF LoopStep

(* A TCP player, its task, and DELETE. *)
LEMMA ConnStepInv ==
    ASSUME IInv, NEW sid \in Sid, ConnStep(sid) \/ PlayerStep(sid) \/ Disconnect(sid)
    PROVE  IInv'
<1>1. CASE MapStream(sid) \/ Announce(sid) \/ LookupDb(sid) \/ Register(sid)
  BY <1>1, MapStreamStep, AnnounceStep, LookupDbStep, RegisterStep
<1>2. CASE SenderDropped(sid) \/ Killed(sid) \/ SendStreamClose(sid) \/ Unmap(sid)
  BY <1>2, SenderDroppedStep, KilledStep, SendStreamCloseStep, UnmapStep
<1>3. CASE PlayerSends(sid) \/ PlayerLeaves(sid) \/ LateData(sid)
  BY <1>3, PlayerSendsStep, PlayerLeavesStep, LateDataStep
<1>4. CASE Disconnect(sid)
  BY <1>4, DisconnectStep
<1> QED
  BY <1>1, <1>2, <1>3, <1>4 DEF ConnStep, PlayerStep

(* The two listener tasks of a tunnel. *)
LEMMA ListenerStepInv ==
    ASSUME IInv, NEW s \in Session, NEW t \in TunnelId,
           Accept(s, t) \/ TcpShutdown(s, t) \/ UdpStep(s, t) \/ UdpPlayerStep(s, t)
              \/ UdpShutdown(s, t)
    PROVE  IInv'
<1>1. CASE Accept(s, t) \/ TcpShutdown(s, t) \/ UdpShutdown(s, t)
  BY <1>1, AcceptStep, TcpShutdownStep, UdpShutdownStep
<1>2. CASE UdpStep(s, t)
  <2>1. CASE UdpLookupDb(s, t) \/ UdpRegister(s, t) \/ UdpMap(s, t)
    BY <2>1, UdpLookupDbStep, UdpRegisterStep, UdpMapStep
  <2>2. CASE UdpAnnounce(s, t) \/ UdpData(s, t)
    BY <2>2, UdpAnnounceStep, UdpDataStep
  <2>3. CASE UdpExpireRegistry(s, t) \/ UdpExpireClose(s, t)
    BY <2>3, UdpExpireRegistryStep, UdpExpireCloseStep
  <2> QED
    BY <1>2, <2>1, <2>2, <2>3 DEF UdpStep
<1>3. CASE UdpPlayerStep(s, t)
  BY <1>3, UdpRecvErrorStep, UdpRecvKnownStep, UdpRecvNewStep, UdpExpireStep
     DEF UdpPlayerStep
<1> QED
  BY <1>1, <1>2, <1>3

(* The invariant is inductive. *)
LEMMA NextInv == IInv /\ [Next]_vars => IInv'
<1> SUFFICES ASSUME IInv, [Next]_vars PROVE IInv'
  OBVIOUS
<1>1. CASE \E s \in Session : ClientStep(s) \/ LoopStep(s) \/ Deliver(s)
  BY <1>1, ClientStepKeeps, LoopStepInv, DeliverStep
<1>2. CASE \E s \in Session, t \in TunnelId :
              Accept(s, t) \/ TcpShutdown(s, t) \/ UdpStep(s, t) \/ UdpPlayerStep(s, t)
                 \/ UdpShutdown(s, t)
  BY <1>2, ListenerStepInv
<1>3. CASE \E sid \in Sid : ConnStep(sid) \/ PlayerStep(sid) \/ Disconnect(sid)
  BY <1>3, ConnStepInv
<1>4. CASE Terminated \/ UNCHANGED vars
  BY <1>4, StutterStep DEF Terminated
<1> QED
  BY <1>1, <1>2, <1>3, <1>4 DEF Next

(* IInv holds in every state the server reaches, whatever the number of     *)
(* connections, tunnels, ports and players and the size of the channel:     *)
(* the frame loops, listener and player tasks of server/src/main.rs keep it *)
(* in any interleaving.                                                     *)
THEOREM Invariance == Spec => []IInv
<1>1. Init => IInv
  BY InitInv
<1>2. IInv /\ [Next]_vars => IInv'
  BY NextInv
<1> QED
  BY <1>1, <1>2, PTL DEF Spec

(* Type correctness: every variable of the server stays in its type.        *)
THEOREM TypeCorrect == Spec => []TypeOK
<1>1. IInv => TypeOK
  BY DEF IInv
<1> QED
  BY <1>1, Invariance, PTL

(* No sender is stranded in ServerState.streams: each entry belongs to a    *)
(* handle_player_stream that has not yet removed it, however CloseTunnel,   *)
(* StreamClose, DELETE and the end of the session interleave with it.       *)
THEOREM StreamsAreOwned == Spec => []StreamsOwned
<1>1. IInv => StreamsOwned
  BY DEF IInv
<1> QED
  BY <1>1, Invariance, PTL

(* No TCP listener outlives its tunnel unsignalled: OpenTunnel may fail at  *)
(* any bind, CloseTunnel or the end of the session may come at any time, a  *)
(* listener that still runs has an open tunnel, one being opened, or its    *)
(* shutdown signal waiting.                                                 *)
THEOREM TcpListenersAreOwned == Spec => []TcpListenerOwned
<1>1. IInv => TcpListenerOwned
  BY DEF IInv
<1> QED
  BY <1>1, Invariance, PTL

(* The same of the UDP task OpenTunnel spawns.                              *)
THEOREM UdpTasksAreOwned == Spec => []UdpTaskOwned
<1>1. IInv => UdpTaskOwned
  BY DEF IInv
<1> QED
  BY <1>1, Invariance, PTL

=============================================================================
