--------------------------- MODULE ServerMapsProofs ---------------------------
(****************************************************************************)
(* MapsAgree and RegistryOwned of ServerTunnels for every value of the      *)
(* constants, receive errors included.                                      *)
(*                                                                          *)
(* JInv joins to the invariant IInv of ServerTunnelsProofs what the maps of *)
(* a session and the global registry rest on: ids in the maps of UDP are    *)
(* ids of UDP players and those of a refused send ids of TCP players        *)
(* (PeersAreUdp, MineAreUdp, DataIsTcp), so that neither of the two kinds   *)
(* of task takes an entry of the other out of stream_tunnel; the UDP task   *)
(* of a tunnel is spawned once (BindsOnce), so that no second one inherits  *)
(* its addresses; and every record has a named remover (Records), who for a *)
(* UDP player is stronger than UdpRecordOwned: the address that maps it is  *)
(* still in udp_peers or about to be.                                       *)
(*                                                                          *)
(* First come lemmas on what leaves the parts alone, then one lemma for     *)
(* each kind of actor (LoopKeeps, PlayerKeeps, UdpTaskKeeps) that says when *)
(* its step keeps them all, then the actions, Next and the theorems.        *)
(****************************************************************************)
EXTENDS ServerTunnelsProofs

(* The places where the UDP task works on a stream. *)
AtWork == {"lookup", "register", "map", "announce", "data", "expire", "expire_close"}

MapsMatch ==
    \A s \in Session : sess[s] # "down" => stream_tunnel[s] = streams[s] \cup udp_peers[s]

IsUdp(s, t, sid) ==
    sid \in Sid /\ conn[sid].kind = "udp" /\ conn[sid].sess = s /\ conn[sid].tid = t
PeersAreUdp == \A s \in Session : \A sid \in udp_peers[s] : conn[sid].kind = "udp"
MineAt(s, t) ==
    /\ \A p \in Peer : peer_streams[s][t][p] # 0 => IsUdp(s, t, peer_streams[s][t][p])
    /\ udp_task[s][t].pc \in AtWork => IsUdp(s, t, udp_task[s][t].sid)
    /\ udp_task[s][t].pc \in {"lookup", "register"} =>
          \E p \in Peer : peer_streams[s][t][p] = udp_task[s][t].sid
MineAreUdp == \A s \in Session, t \in TunnelId : MineAt(s, t)
DataPc == {"data_send", "data_close", "data_unmap"}
DataIsTcp ==
    \A s \in Session : hc[s].pc \in DataPc => \A sid \in hc[s].sids : IsTcp(sid)

Binding(s, t) == hc[s].pc \in {"bind_tcp", "bind_udp"} /\ hc[s].tid = t
BindsOnce ==
    \A s \in Session, t \in TunnelId :
        /\ req[s][t] = NoRequest \/ Binding(s, t) => udp_task[s][t].pc = "none"
        /\ Binding(s, t) => req[s][t] # NoRequest

(* Who will remove the record of a UDP player: the frame loop, or the task. *)
LoopHolds(s, sid) == hc[s].pc \in {"close_send", "purge"} /\ sid \in hc[s].sids
TaskHolds(s, t, sid) ==
    \/ UdpAt(s, t, "expire") /\ udp_task[s][t].sid = sid
    \/ UdpAt(s, t, "failed")
    \/ /\ UdpAlive(s, t) /\ \E p \in Peer : peer_streams[s][t][p] = sid
       /\ sid \in udp_peers[s] \/ (UdpAt(s, t, "map") /\ udp_task[s][t].sid = sid)
TcpRecord(sid) == IsTcp(sid) /\ conn[sid].pc \in {"run", "closing", "unmap"}
UdpRecord(sid) ==
    /\ conn[sid].kind = "udp"
    /\ LoopHolds(conn[sid].sess, sid) \/ TaskHolds(conn[sid].sess, conn[sid].tid, sid)
Records == \A sid \in registry : TcpRecord(sid) \/ UdpRecord(sid)

Owners == MapsMatch /\ PeersAreUdp /\ MineAreUdp /\ DataIsTcp /\ BindsOnce /\ Records
JInv == IInv /\ Owners

-----------------------------------------------------------------------------
(* What a stream is a stream of does not change once it has been handed out. *)
KeptIds ==
    \A sid \in Sid : conn[sid].kind # "none" =>
        /\ conn'[sid].kind = conn[sid].kind /\ conn'[sid].sess = conn[sid].sess
        /\ conn'[sid].tid = conn[sid].tid

(* Steps of tasks keep it, *)
LEMMA SameIdsKept == SameIds => KeptIds
  BY DEF SameIds, KeptIds

(* and so does a step that does not touch conn, *)
LEMMA UnchangedKept == UNCHANGED conn => KeptIds
  BY DEF KeptIds

(* and the next id, which nobody had: no map knows it yet. *)
LEMMA NewIdKept ==
    ASSUME IInv, NEW kind \in {"tcp", "udp"}, NEW pc, NEW s \in Session, NEW t \in TunnelId,
           next_sid \in Sid, conn' = [conn EXCEPT ![next_sid] = NewConn(kind, pc, s, t)]
    PROVE  /\ KeptIds /\ conn[next_sid].kind = "none"
           /\ conn'[next_sid].kind = kind /\ conn'[next_sid].sess = s /\ conn'[next_sid].tid = t
           /\ \A sid \in Sid : sid # next_sid => conn'[sid] = conn[sid]
<1>1. conn \in [Sid -> ConnType]
  BY DEF IInv, TypeOK
<1>2. conn[next_sid].kind = "none"
  BY SidsAreNumbers DEF IInv, StreamIds
<1>3. \A sid \in Sid : sid # next_sid => conn'[sid] = conn[sid]
  BY <1>1
<1>4. conn'[next_sid].kind = kind /\ conn'[next_sid].sess = s /\ conn'[next_sid].tid = t
  BY <1>1 DEF NewConn
<1> QED
  BY <1>2, <1>3, <1>4 DEF KeptIds

(* Ids of UDP players stay ids of UDP players. *)
LEMMA PeersKept ==
    ASSUME IInv, PeersAreUdp, KeptIds, \A x \in Session : udp_peers'[x] \subseteq udp_peers[x]
    PROVE  PeersAreUdp'
<1>1. \A x \in Session : udp_peers[x] \subseteq Sid
  BY DEF IInv, TypeOK
<1> QED
  BY <1>1 DEF PeersAreUdp, KeptIds

(* The same of what one UDP task knows, when it does not step. *)
LEMMA MineKept ==
    ASSUME MineAreUdp, KeptIds, NEW s \in Session, NEW t \in TunnelId,
           udp_task'[s][t] = udp_task[s][t], peer_streams'[s][t] = peer_streams[s][t]
    PROVE  MineAt(s, t)'
<1>1. MineAt(s, t)
  BY DEF MineAreUdp
<1>2. \A sid : IsUdp(s, t, sid) => IsUdp(s, t, sid)'
  BY DEF IsUdp, KeptIds
<1> QED
  BY <1>1, <1>2 DEF MineAt

(* The same of the TCP players the frame loop forwards to. *)
LEMMA DataKept ==
    ASSUME IInv, DataIsTcp, KeptIds, NEW s \in Session, hc'[s] = hc[s], hc[s].pc \in DataPc
    PROVE  \A sid \in hc'[s].sids : IsTcp(sid)'
<1>1. hc[s].sids \subseteq Sid
  BY LoopFields DEF IInv
<1> QED
  BY <1>1 DEF DataIsTcp, IsTcp, KeptIds

(* No id of a map, of the registry or of a task is one not handed out. *)
LEMMA RecordFields ==
    ASSUME JInv, NEW sid \in registry
    PROVE  /\ sid \in Sid /\ conn[sid].kind # "none"
           /\ conn[sid].sess \in Session /\ conn[sid].tid \in TunnelId
<1>1. sid \in Sid
  BY DEF JInv, IInv, TypeOK
<1>2. conn[sid].kind # "none"
  BY DEF JInv, Owners, Records, TcpRecord, UdpRecord, IsTcp
<1> QED
  BY <1>1, <1>2 DEF JInv, IInv, StreamIds

-----------------------------------------------------------------------------
(* A step of the frame loop of s, the UDP tasks and conn aside: what leaves *)
(* udp_peers it holds for the registry, what it held it keeps or removes.   *)
LEMMA LoopKeeps ==
    ASSUME JInv, NEW s \in Session, UNCHANGED <<udp_task, peer_streams, conn>>,
           \A x \in Session : x # s => hc'[x] = hc[x] /\ req'[x] = req[x]
                                       /\ udp_peers'[x] = udp_peers[x],
           MapsMatch', udp_peers'[s] \subseteq udp_peers[s], registry' \subseteq registry,
           hc'[s].pc \in DataPc => \A sid \in hc'[s].sids : IsTcp(sid),
           \A t \in TunnelId :
              /\ req'[s][t] = NoRequest \/ Binding(s, t)' => udp_task[s][t].pc = "none"
              /\ Binding(s, t)' => req'[s][t] # NoRequest,
           \A sid \in registry' :
              LoopHolds(s, sid) \/ sid \in udp_peers[s] \ udp_peers'[s] => LoopHolds(s, sid)'
    PROVE  Owners'
<1>1. KeptIds
  BY UnchangedKept
<1>2. PeersAreUdp'
  BY <1>1, PeersKept DEF JInv, Owners
<1>3. MineAreUdp'
  BY <1>1, MineKept DEF JInv, Owners, MineAreUdp
<1>4. DataIsTcp'
  BY DEF JInv, Owners, DataIsTcp, IsTcp
<1>5. BindsOnce'
  BY DEF JInv, Owners, BindsOnce, Binding
<1>6. Records'
  <2> SUFFICES ASSUME NEW sid \in registry' PROVE (TcpRecord(sid) \/ UdpRecord(sid))'
    BY DEF Records
  <2>1. sid \in registry /\ (TcpRecord(sid) \/ UdpRecord(sid))
    BY DEF JInv, Owners, Records
  <2>2. conn[sid].sess \in Session /\ conn[sid].tid \in TunnelId
    BY <2>1, RecordFields
  <2>3. CASE TcpRecord(sid)
    BY <2>3 DEF TcpRecord, IsTcp
  <2>4. CASE UdpRecord(sid)
    <3> DEFINE x == conn[sid].sess
               t == conn[sid].tid
    <3>1. LoopHolds(x, sid) => LoopHolds(x, sid)'
      BY <2>2 DEF LoopHolds
    <3>2. sid \in udp_peers[x] => sid \in udp_peers'[x] \/ LoopHolds(x, sid)'
      BY <2>2
    <3>3. TaskHolds(x, t, sid) => TaskHolds(x, t, sid)' \/ LoopHolds(x, sid)'
      BY <3>2 DEF TaskHolds, UdpAt, UdpAlive
    <3> QED
      BY <2>4, <3>1, <3>3 DEF UdpRecord
  <2> QED
    BY <2>1, <2>3, <2>4
<1> QED
  BY <1>2, <1>3, <1>4, <1>5, <1>6 DEF Owners

(* A step of the task of the TCP player sid, or of its listener handing sid *)
(* out: its record is there only while it will remove it.                   *)
LEMMA PlayerKeeps ==
    ASSUME JInv, KeptIds, NEW sid \in Sid,
           UNCHANGED <<hc, req, udp_peers, udp_task, peer_streams>>, MapsMatch',
           \A x \in Sid : x # sid => conn'[x] = conn[x],
           \A x \in registry' : x # sid => x \in registry,
           sid \in registry' => TcpRecord(sid)'
    PROVE  Owners'
<1>1. PeersAreUdp'
  BY PeersKept DEF JInv, Owners
<1>2. MineAreUdp'
  BY MineKept DEF JInv, Owners, MineAreUdp
<1>3. DataIsTcp'
  BY DataKept DEF JInv, Owners, DataIsTcp
<1>4. BindsOnce'
  BY DEF JInv, Owners, BindsOnce, Binding
<1>5. Records'
  <2> SUFFICES ASSUME NEW x \in registry' PROVE (TcpRecord(x) \/ UdpRecord(x))'
    BY DEF Records
  <2>1. CASE x = sid
    BY <2>1
  <2>2. CASE x # sid
    <3>1. x \in registry /\ (TcpRecord(x) \/ UdpRecord(x))
      BY <2>2 DEF JInv, Owners, Records
    <3>2. conn'[x] = conn[x]
      BY <2>2, <3>1, RecordFields
    <3> QED
      BY <3>1, <3>2 DEF TcpRecord, UdpRecord, IsTcp, LoopHolds, TaskHolds, UdpAt, UdpAlive
  <2> QED
    BY <2>1, <2>2
<1> QED
  BY <1>1, <1>2, <1>3, <1>4, <1>5 DEF Owners

(* A step of the UDP task of tunnel t: it still holds the records it held,  *)
(* and leaves the players of others alone.                                  *)
LEMMA UdpTaskKeeps ==
    ASSUME JInv, KeptIds, NEW s \in Session, NEW t \in TunnelId, UNCHANGED <<hc, req>>,
           \A x \in Sid : IsTcp(x) => conn'[x].pc = conn[x].pc,
           \A x \in Session, y \in TunnelId : x # s \/ y # t =>
              udp_task'[x][y] = udp_task[x][y] /\ peer_streams'[x][y] = peer_streams[x][y],
           udp_task[s][t].pc # "none", MapsMatch', PeersAreUdp', MineAt(s, t)',
           \A x \in Session : \A sid \in udp_peers[x] :
              ~ IsUdp(s, t, sid) => sid \in udp_peers'[x],
           \A sid \in registry' : sid \notin registry => IsUdp(s, t, sid),
           \A sid \in registry' :
              IsUdp(s, t, sid) /\ (sid \notin registry \/ TaskHolds(s, t, sid))
                 => TaskHolds(s, t, sid)'
    PROVE  Owners'
<1>1. MineAreUdp'
  BY MineKept DEF JInv, Owners, MineAreUdp
<1>2. DataIsTcp'
  BY DataKept DEF JInv, Owners, DataIsTcp
<1>3. BindsOnce'
  BY DEF JInv, Owners, BindsOnce, Binding
<1>4. Records'
  <2> SUFFICES ASSUME NEW sid \in registry' PROVE (TcpRecord(sid) \/ UdpRecord(sid))'
    BY DEF Records
  <2>1. CASE IsUdp(s, t, sid)
    <3>1. sid \in registry => UdpRecord(sid)
      BY <2>1 DEF JInv, Owners, Records, TcpRecord, IsTcp, IsUdp
    <3>2. /\ conn'[sid].kind = "udp" /\ conn'[sid].sess = s /\ conn'[sid].tid = t
          /\ conn[sid].sess = s /\ conn[sid].tid = t
      BY <2>1 DEF IsUdp, KeptIds
    <3>3. LoopHolds(s, sid) => LoopHolds(s, sid)'
      BY DEF LoopHolds
    <3> QED
      BY <2>1, <3>1, <3>2, <3>3 DEF UdpRecord
  <2>2. CASE ~ IsUdp(s, t, sid)
    <3>1. sid \in registry /\ (TcpRecord(sid) \/ UdpRecord(sid))
      BY <2>2 DEF JInv, Owners, Records
    <3>2. sid \in Sid /\ conn[sid].kind # "none" /\ conn[sid].sess \in Session
          /\ conn[sid].tid \in TunnelId
      BY <3>1, RecordFields
    <3>3. /\ conn'[sid].kind = conn[sid].kind /\ conn'[sid].sess = conn[sid].sess
          /\ conn'[sid].tid = conn[sid].tid
      BY <3>2 DEF KeptIds
    <3>4. CASE TcpRecord(sid)
      BY <3>2, <3>3, <3>4 DEF TcpRecord, IsTcp
    <3>5. CASE UdpRecord(sid)
      <4>0. PICK x \in Session, y \in TunnelId : conn[sid].sess = x /\ conn[sid].tid = y
        BY <3>2
      <4>1. x # s \/ y # t
        BY <2>2, <3>2, <3>5, <4>0 DEF IsUdp, UdpRecord
      <4>2. LoopHolds(x, sid) => LoopHolds(x, sid)'
        BY DEF LoopHolds
      <4>3. udp_task'[x][y] = udp_task[x][y] /\ peer_streams'[x][y] = peer_streams[x][y]
        BY <4>1
      <4>4. sid \in udp_peers[x] => sid \in udp_peers'[x]
        BY <2>2
      <4>5. TaskHolds(x, y, sid) => TaskHolds(x, y, sid)'
        BY <4>3, <4>4 DEF TaskHolds, UdpAt, UdpAlive
      <4> QED
        BY <3>3, <3>5, <4>0, <4>2, <4>5 DEF UdpRecord
    <3> QED
      BY <3>1, <3>4, <3>5
  <2> QED
    BY <2>1, <2>2
<1> QED
  BY <1>1, <1>2, <1>3, <1>4 DEF Owners

-----------------------------------------------------------------------------
(* TCP players.                                                             *)

Parts == <<sess, hc, req, streams, udp_peers, stream_tunnel, registry, udp_task,
           peer_streams, conn>>

(* Steps that touch nothing JInv speaks of. *)
LEMMA AsideKeeps == ASSUME JInv, UNCHANGED Parts PROVE Owners'
<1>1. KeptIds
  BY UnchangedKept DEF Parts
<1>2. MapsMatch' /\ PeersAreUdp' /\ MineAreUdp' /\ DataIsTcp' /\ BindsOnce'
  BY DEF Parts, JInv, Owners, MapsMatch, PeersAreUdp, MineAreUdp, MineAt, IsUdp, DataIsTcp,
         IsTcp, BindsOnce, Binding
<1>3. Records'
  BY SMTT(30) DEF Parts, JInv, Owners, Records, TcpRecord, UdpRecord, LoopHolds, TaskHolds, UdpAt,
         UdpAlive, IsTcp
<1> QED
  BY <1>2, <1>3 DEF Owners

(* A player task on its way, with its record, if any, still its own.        *)
LEMMA PlayerMoves ==
    ASSUME JInv, SameIds, NEW sid \in Sid, IsTcp(sid),
           UNCHANGED <<sess, hc, req, streams, udp_peers, stream_tunnel, registry,
                       udp_task, peer_streams>>,
           \A x \in Sid : x # sid => conn'[x] = conn[x],
           conn[sid].pc \in {"run", "closing", "unmap"} =>
              conn'[sid].pc \in {"run", "closing", "unmap"}
    PROVE  Owners'
<1>1. KeptIds
  BY SameIdsKept
<1>2. MapsMatch'
  BY DEF JInv, Owners, MapsMatch
<1>3. sid \in registry => TcpRecord(sid)
  BY DEF JInv, Owners, Records, UdpRecord, IsTcp
<1>4. sid \in registry' => TcpRecord(sid)'
  BY <1>3 DEF TcpRecord, IsTcp, SameIds
<1> QED
  BY <1>1, <1>2, <1>4, PlayerKeeps

(* Moving a player task on does not move the others. *)
LEMMA GotoAlone ==
    ASSUME JInv, NEW sid \in Sid, NEW pc, ConnGoto(sid, pc)
    PROVE  /\ SameIds /\ conn'[sid].pc = pc
           /\ \A x \in Sid : x # sid => conn'[x] = conn[x]
<1>1. TypeOK
  BY DEF JInv, IInv
<1>2. SameIds /\ conn'[sid].pc = pc
  BY <1>1, GotoKeepsIds, GotoPc
<1> QED
  BY <1>1, <1>2 DEF ConnGoto, TypeOK

(* A player task of handle_player_stream and around it. *)
LEMMA PlayerTaskKeeps ==
    ASSUME JInv, NEW sid \in Sid,
           Announce(sid) \/ LookupDb(sid) \/ SenderDropped(sid) \/ Killed(sid)
              \/ SendStreamClose(sid) \/ PlayerLeaves(sid)
    PROVE  Owners'
<1>1. CASE LookupDb(sid)
  <2>1. SameIds
    BY <1>1, LookupKeeps DEF JInv, IInv
  <2>2. \A x \in Sid : x # sid => conn'[x] = conn[x]
    BY <1>1 DEF LookupDb, JInv, IInv, TypeOK
  <2> QED
    BY <1>1, <2>1, <2>2, PlayerMoves
       DEF LookupDb, ConnAt, IsTcp, loop, state, tasks, udp, seen
<1>2. CASE Announce(sid)
  BY <1>2, GotoAlone, PlayerMoves DEF Announce, ConnAt, loop, state, tasks, udp, seen
<1>3. CASE SenderDropped(sid)
  BY <1>3, GotoAlone, PlayerMoves DEF SenderDropped, ConnAt, loop, state, tasks, udp, seen
<1>4. CASE Killed(sid)
  BY <1>4, GotoAlone, PlayerMoves DEF Killed, ConnAt, loop, state, tasks, udp, seen
<1>5. CASE SendStreamClose(sid)
  BY <1>5, GotoAlone, PlayerMoves DEF SendStreamClose, ConnAt, loop, state, tasks, udp, seen
<1>6. CASE PlayerLeaves(sid)
  BY <1>6, GotoAlone, PlayerMoves DEF PlayerLeaves, ConnAt, loop, state, tasks, udp, seen
<1> QED
  BY <1>1, <1>2, <1>3, <1>4, <1>5, <1>6

(* PlayerSends, LateData: a frame and nothing else. *)
LEMMA PlayerDataKeeps ==
    ASSUME JInv, NEW sid \in Sid, PlayerSends(sid) \/ LateData(sid)
    PROVE  Owners'
<1>1. UNCHANGED Parts
  BY DEF PlayerSends, LateData, Parts, loop, state, tasks, udp, seen
<1> QED
  BY <1>1, AsideKeeps

(* Register: the record appears as the task starts to run. *)
LEMMA RegisterKeeps == ASSUME JInv, NEW sid \in Sid, Register(sid) PROVE Owners'
<1>1. SameIds /\ conn'[sid].pc = "run" /\ \A x \in Sid : x # sid => conn'[x] = conn[x]
  BY GotoAlone DEF Register
<1>2. KeptIds /\ TcpRecord(sid)'
  BY <1>1, SameIdsKept DEF Register, ConnAt, TcpRecord, IsTcp, SameIds
<1>3. MapsMatch'
  BY DEF Register, JInv, Owners, MapsMatch, loop, state
<1> QED
  BY <1>1, <1>2, <1>3, PlayerKeeps DEF Register, loop, state, tasks, udp, seen

(* MapStream enters both maps. *)
LEMMA MapStreamKeeps == ASSUME JInv, NEW sid \in Sid, MapStream(sid) PROVE Owners'
<1>1. SameIds /\ \A x \in Sid : x # sid => conn'[x] = conn[x]
  BY GotoAlone DEF MapStream
<1>2. KeptIds
  BY <1>1, SameIdsKept
<1>3. MapsMatch'
  BY DEF MapStream, JInv, Owners, MapsMatch, loop, IInv, TypeOK
<1>4. sid \notin registry
  BY DEF MapStream, ConnAt, IsTcp, JInv, Owners, Records, TcpRecord, UdpRecord
<1> QED
  BY <1>1, <1>2, <1>3, <1>4, PlayerKeeps DEF MapStream, loop, tasks, udp, seen

(* Unmap leaves both maps and the registry; it is not in udp_peers. *)
LEMMA UnmapKeeps == ASSUME JInv, NEW sid \in Sid, Unmap(sid) PROVE Owners'
<1>1. SameIds /\ \A x \in Sid : x # sid => conn'[x] = conn[x]
  BY GotoAlone DEF Unmap
<1>2. KeptIds
  BY <1>1, SameIdsKept
<1>3. \A x \in Session : sid \notin udp_peers[x]
  BY DEF Unmap, ConnAt, IsTcp, JInv, Owners, PeersAreUdp
<1>4. MapsMatch'
  BY <1>3 DEF Unmap, JInv, Owners, MapsMatch, loop, IInv, TypeOK
<1> QED
  BY <1>1, <1>2, <1>4, PlayerKeeps DEF Unmap, loop, tasks, udp, seen

(* Accept hands out an id nobody knows. *)
LEMMA AcceptKeeps ==
    ASSUME JInv, NEW s \in Session, NEW t \in TunnelId, Accept(s, t)
    PROVE  Owners'
<1>1. IInv /\ next_sid \in Sid /\ conn' = [conn EXCEPT ![next_sid] = NewConn("tcp", "accepted", s, t)]
  BY DEF Accept, JInv
<1>2. /\ KeptIds /\ conn[next_sid].kind = "none"
      /\ \A x \in Sid : x # next_sid => conn'[x] = conn[x]
  BY <1>1, NewIdKept
<1>3. next_sid \notin registry
  BY <1>2, RecordFields
<1>4. MapsMatch'
  BY DEF Accept, JInv, Owners, MapsMatch, loop, state
<1> QED
  BY <1>1, <1>2, <1>3, <1>4, PlayerKeeps DEF Accept, loop, state, tasks, udp, seen

(* DELETE takes a record away; so may anybody. *)
LEMMA DisconnectKeeps == ASSUME JInv, NEW sid \in Sid, Disconnect(sid) PROVE Owners'
<1>1. KeptIds
  BY UnchangedKept DEF Disconnect
<1>2. MapsMatch'
  BY DEF Disconnect, JInv, Owners, MapsMatch, loop, state
<1> QED
  BY <1>1, <1>2, PlayerKeeps DEF Disconnect, loop, state, tasks, udp, seen

-----------------------------------------------------------------------------
(* UDP tasks.                                                               *)

(* Who the task holds is handed on by a step that neither removes nor       *)
(* replaces an address, and keeps an expired or freshly registered stream.  *)
LEMMA UdpTaskMoves ==
    ASSUME JInv, SameIds, NEW s \in Session, NEW t \in TunnelId,
           UNCHANGED <<sess, hc, req, streams, udp_peers, stream_tunnel, peer_streams>>,
           \A x \in Sid : conn'[x].pc = conn[x].pc,
           \A x \in Session, y \in TunnelId :
              x # s \/ y # t => udp_task'[x][y] = udp_task[x][y],
           UdpAlive(s, t), udp_task[s][t].pc \notin {"map", "expire"},
           UdpAlive(s, t)' \/ UdpAt(s, t, "failed")', MineAt(s, t)',
           \A sid \in registry' : sid \notin registry => IsUdp(s, t, sid) /\ TaskHolds(s, t, sid)'
    PROVE  Owners'
<1>1. KeptIds
  BY SameIdsKept
<1>2. MapsMatch'
  BY DEF JInv, Owners, MapsMatch
<1>3. PeersAreUdp'
  BY <1>1, PeersKept DEF JInv, Owners
<1>4. udp_task[s][t].pc # "none"
  BY DEF UdpAlive
<1>5. \A sid : TaskHolds(s, t, sid) => TaskHolds(s, t, sid)'
  BY DEF TaskHolds, UdpAt, UdpAlive
<1> QED
  BY <1>1, <1>2, <1>3, <1>4, <1>5, UdpTaskKeeps

(* Steps that leave conn alone leave ids alone. *)
LEMMA UnchangedSame == UNCHANGED conn => SameIds
  BY DEF SameIds

(* UdpLookupDb, and the steps after udp_peers has the stream: the task      *)
(* moves on with it.                                                        *)
LEMMA UdpGotoKeeps ==
    ASSUME JInv, NEW s \in Session, NEW t \in TunnelId,
           UdpLookupDb(s, t) \/ UdpAnnounce(s, t) \/ UdpData(s, t) \/ UdpExpireClose(s, t)
              \/ UdpRecvError(s, t)
    PROVE  Owners'
<1>1. TypeOK
  BY DEF JInv, IInv
<1>2. SameIds /\ \A x \in Sid : conn'[x].pc = conn[x].pc
  <2>1. CASE UdpLookupDb(s, t)
    <3>1. SameIds
      BY <1>1, <2>1, UdpLookupKeeps
    <3>2. conn \in [Sid -> ConnType]
      BY <1>1 DEF TypeOK
    <3>3. ASSUME NEW c \in ConnType, NEW d PROVE [c EXCEPT !.db = d].pc = c.pc
      BY DEF ConnType
    <3>4. \A x \in Sid : conn'[x].pc = conn[x].pc
      BY <2>1, <3>2, <3>3 DEF UdpLookupDb
    <3> QED
      BY <3>1, <3>4
  <2>2. CASE ~ UdpLookupDb(s, t)
    BY <2>2, UnchangedSame DEF UdpAnnounce, UdpData, UdpExpireClose, UdpRecvError
  <2> QED
    BY <2>1, <2>2
<1>3. /\ UNCHANGED <<sess, hc, req, streams, udp_peers, stream_tunnel, peer_streams, registry>>
      /\ UdpAlive(s, t) /\ udp_task[s][t].pc \notin {"map", "expire"}
  BY DEF UdpLookupDb, UdpAnnounce, UdpData, UdpExpireClose, UdpRecvError, loop, state, seen,
         UdpAt, UdpAlive
<1>4. PICK pc \in {"register", "data", "recv", "failed"} :
         UdpGoto(s, t, pc) /\ (pc = "register" => UdpAt(s, t, "lookup"))
            /\ (pc = "data" => UdpAt(s, t, "announce"))
  BY DEF UdpLookupDb, UdpAnnounce, UdpData, UdpExpireClose, UdpRecvError
<1>5. /\ udp_task'[s][t].pc = pc /\ udp_task'[s][t].sid = udp_task[s][t].sid
      /\ \A x \in Session, y \in TunnelId :
            x # s \/ y # t => udp_task'[x][y] = udp_task[x][y]
  BY <1>1, <1>4, UdpGotoMoves
<1>6. MineAt(s, t)'
  <2>1. MineAt(s, t)
    BY DEF JInv, Owners, MineAreUdp
  <2>2. \A sid : IsUdp(s, t, sid) => IsUdp(s, t, sid)'
    BY <1>2 DEF IsUdp, SameIds
  <2> QED
    BY <1>3, <1>4, <1>5, <2>1, <2>2 DEF MineAt, UdpAt, AtWork
<1>7. UdpAlive(s, t)' \/ UdpAt(s, t, "failed")'
  BY <1>5 DEF UdpAlive, UdpAt
<1> QED
  BY <1>2, <1>3, <1>5, <1>6, <1>7, UdpTaskMoves

(* A packet of a known address. *)
LEMMA UdpRecvKnownKeeps ==
    ASSUME JInv, NEW s \in Session, NEW t \in TunnelId, NEW p \in Peer, UdpRecvKnown(s, t, p)
    PROVE  Owners'
<1>1. TypeOK
  BY DEF JInv, IInv
<1>2. SameIds
  BY UnchangedSame DEF UdpRecvKnown
<1>3. /\ udp_task'[s][t] = [pc |-> "data", sid |-> peer_streams[s][t][p]]
      /\ \A x \in Session, y \in TunnelId :
            x # s \/ y # t => udp_task'[x][y] = udp_task[x][y]
  BY <1>1 DEF UdpRecvKnown, TypeOK
<1>4. peer_streams[s][t][p] # 0
  BY <1>1, SidsAreNumbers DEF UdpRecvKnown, TypeOK
<1>5. MineAt(s, t)'
  <2>1. MineAt(s, t)
    BY DEF JInv, Owners, MineAreUdp
  <2> QED
    BY <1>3, <1>4, <2>1 DEF MineAt, IsUdp, UdpRecvKnown
<1>6. UdpAlive(s, t) /\ UdpAlive(s, t)' /\ udp_task[s][t].pc \notin {"map", "expire"}
  BY <1>3 DEF UdpAlive, UdpRecvKnown, UdpAt
<1> QED
  BY <1>2, <1>3, <1>5, <1>6, UdpTaskMoves DEF UdpRecvKnown, loop, state

(* UdpRegister: the address is mapped, the stream not yet in udp_peers. *)
LEMMA UdpRegisterKeeps ==
    ASSUME JInv, NEW s \in Session, NEW t \in TunnelId, UdpRegister(s, t)
    PROVE  Owners'
<1> DEFINE sid == udp_task[s][t].sid
<1>1. TypeOK
  BY DEF JInv, IInv
<1>2. SameIds
  BY UnchangedSame DEF UdpRegister
<1>3. /\ udp_task'[s][t].pc = "map" /\ udp_task'[s][t].sid = udp_task[s][t].sid
      /\ \A x \in Session, y \in TunnelId :
            x # s \/ y # t => udp_task'[x][y] = udp_task[x][y]
  BY <1>1, UdpGotoMoves DEF UdpRegister
<1>4. MineAt(s, t) /\ UdpAt(s, t, "register")
  BY DEF JInv, Owners, MineAreUdp, UdpRegister
<1>5. MineAt(s, t)'
  BY <1>3, <1>4 DEF MineAt, IsUdp, UdpRegister, seen, UdpAt, AtWork
<1>6. UdpAlive(s, t) /\ UdpAlive(s, t)' /\ udp_task[s][t].pc \notin {"map", "expire"}
  BY <1>3, <1>4 DEF UdpAlive, UdpAt
<1>7. \A x \in registry' : x \notin registry => IsUdp(s, t, x) /\ TaskHolds(s, t, x)'
  <2>1. IsUdp(s, t, sid) /\ \E p \in Peer : peer_streams[s][t][p] = sid
    BY <1>4 DEF MineAt, UdpAt, AtWork
  <2>2. TaskHolds(s, t, udp_task[s][t].sid)'
    BY <1>3, <1>6, <2>1 DEF TaskHolds, UdpAt, UdpRegister, seen
  <2>3. \A x \in registry' : x \notin registry => x = sid
    BY DEF UdpRegister
  <2>4. \A x \in registry' : x \notin registry => x = udp_task'[s][t].sid
    BY <1>3, <2>3
  <2> QED
    BY <2>1, <2>2, <2>3, <2>4
<1> QED
  BY <1>2, <1>3, <1>5, <1>6, <1>7, UdpTaskMoves DEF UdpRegister, loop, state, seen

(* UdpMap: the stream enters udp_peers and stream_tunnel together. *)
LEMMA UdpMapKeeps ==
    ASSUME JInv, NEW s \in Session, NEW t \in TunnelId, UdpMap(s, t)
    PROVE  Owners'
<1>1. PICK sid : sid = udp_task[s][t].sid
  OBVIOUS
<1>2. TypeOK
  BY DEF JInv, IInv
<1>3. KeptIds
  BY UnchangedKept DEF UdpMap
<1>4. MineAt(s, t) /\ IsUdp(s, t, sid) /\ UdpAt(s, t, "map")
  BY <1>1 DEF JInv, Owners, MineAreUdp, MineAt, UdpMap, UdpAt, AtWork
<1>5. /\ udp_task'[s][t].pc = "announce" /\ udp_task'[s][t].sid = sid
      /\ \A x \in Session, y \in TunnelId :
            x # s \/ y # t => udp_task'[x][y] = udp_task[x][y]
  BY <1>1, <1>2, UdpGotoMoves DEF UdpMap
<1>6. /\ udp_peers' = [udp_peers EXCEPT ![s] = @ \cup {sid}]
      /\ stream_tunnel' = [stream_tunnel EXCEPT ![s] = @ \cup {sid}]
      /\ UNCHANGED <<sess, hc, req, streams, registry, conn, peer_streams>>
  BY <1>1 DEF UdpMap, loop, seen
<1>7. MapsMatch'
  BY <1>2, <1>6 DEF JInv, Owners, MapsMatch, TypeOK
<1>8. PeersAreUdp'
  BY <1>2, <1>4, <1>6 DEF JInv, Owners, PeersAreUdp, TypeOK, IsUdp
<1>9. MineAt(s, t)'
  BY <1>4, <1>5, <1>6 DEF MineAt, IsUdp
<1>10. \A x \in Session : udp_peers[x] \subseteq udp_peers'[x]
  BY <1>2, <1>6 DEF TypeOK
<1>11. \A x : TaskHolds(s, t, x) => TaskHolds(s, t, x)'
  <2> SUFFICES ASSUME NEW x, TaskHolds(s, t, x) PROVE TaskHolds(s, t, x)'
    OBVIOUS
  <2>1. \E p \in Peer : peer_streams[s][t][p] = x
    BY <1>4 DEF TaskHolds, UdpAt
  <2>2. x \in udp_peers[s] \/ x = sid
    BY <1>1, <1>4 DEF TaskHolds, UdpAt
  <2>3. x \in udp_peers'[s]
    BY <1>2, <1>6, <2>2 DEF TypeOK
  <2> QED
    BY <1>5, <1>6, <2>1, <2>3 DEF TaskHolds, UdpAlive
<1>12. udp_task[s][t].pc # "none"
  BY <1>4 DEF UdpAt
<1> QED
  BY <1>3, <1>5, <1>6, <1>7, <1>8, <1>9, <1>10, <1>11, <1>12, UdpTaskKeeps

(* UdpExpire: the address goes from the maps into the hands of the task. *)
LEMMA UdpExpireKeeps ==
    ASSUME JInv, NEW s \in Session, NEW t \in TunnelId, NEW p \in Peer, UdpExpire(s, t, p)
    PROVE  Owners'
<1>1. PICK sid : sid = peer_streams[s][t][p]
  OBVIOUS
<1>2. TypeOK
  BY DEF JInv, IInv
<1>3. KeptIds
  BY UnchangedKept DEF UdpExpire
<1>4. MineAt(s, t) /\ IsUdp(s, t, sid) /\ UdpAt(s, t, "recv")
  BY <1>1 DEF JInv, Owners, MineAreUdp, MineAt, UdpExpire, UdpAt, AtWork
<1>5. /\ udp_task'[s][t] = [pc |-> "expire", sid |-> sid]
      /\ \A x \in Session, y \in TunnelId : x # s \/ y # t =>
            udp_task'[x][y] = udp_task[x][y] /\ peer_streams'[x][y] = peer_streams[x][y]
      /\ peer_streams'[s][t] = [peer_streams[s][t] EXCEPT ![p] = 0]
  BY <1>1, <1>2 DEF UdpExpire, TypeOK
<1>6. peer_streams[s][t] \in [Peer -> Sid \cup {0}]
  BY <1>2 DEF TypeOK
<1>7. /\ udp_peers' = [udp_peers EXCEPT ![s] = @ \ {sid}]
      /\ stream_tunnel' = [stream_tunnel EXCEPT ![s] = @ \ {sid}]
      /\ UNCHANGED <<sess, hc, req, streams, registry, conn>>
  BY <1>1 DEF UdpExpire, loop
<1>8. \A x \in Session : sid \notin streams[x]
  BY <1>4 DEF JInv, IInv, StreamsOwned, IsTcp, IsUdp
<1>9. MapsMatch'
  BY <1>2, <1>7, <1>8 DEF JInv, Owners, MapsMatch, TypeOK
<1>10. PeersAreUdp'
  BY <1>2, <1>7 DEF JInv, Owners, PeersAreUdp, TypeOK
<1>11. MineAt(s, t)'
  BY <1>4, <1>5, <1>6, <1>7 DEF MineAt, IsUdp
<1>12. \A x \in Session : \A i \in udp_peers[x] : ~ IsUdp(s, t, i) => i \in udp_peers'[x]
  BY <1>2, <1>4, <1>7 DEF TypeOK
<1>13. \A i \in Sid : TaskHolds(s, t, i) => TaskHolds(s, t, i)'
  <2> SUFFICES ASSUME NEW i \in Sid, TaskHolds(s, t, i) PROVE TaskHolds(s, t, i)'
    OBVIOUS
  <2>1. CASE i = sid
    BY <1>5, <2>1 DEF TaskHolds, UdpAt
  <2>2. CASE i # sid
    <3>1. i \in udp_peers[s] /\ \E q \in Peer : peer_streams[s][t][q] = i
      BY <1>4 DEF TaskHolds, UdpAt
    <3>2. i \in udp_peers'[s]
      BY <1>2, <1>7, <2>2, <3>1 DEF TypeOK
    <3>3. \E q \in Peer : peer_streams'[s][t][q] = i
      BY <1>1, <1>5, <1>6, <2>2, <3>1
    <3> QED
      BY <1>5, <3>2, <3>3 DEF TaskHolds, UdpAlive
  <2> QED
    BY <2>1, <2>2
<1>14. udp_task[s][t].pc # "none" /\ registry \subseteq Sid
  BY <1>2, <1>4 DEF UdpAt, TypeOK
<1> QED
  BY <1>3, <1>5, <1>7, <1>9, <1>10, <1>11, <1>12, <1>13, <1>14, UdpTaskKeeps

(* UdpExpireRegistry: the one record the task held as expired is removed. *)
LEMMA UdpExpireRegistryKeeps ==
    ASSUME JInv, NEW s \in Session, NEW t \in TunnelId, UdpExpireRegistry(s, t)
    PROVE  Owners'
<1>1. TypeOK
  BY DEF JInv, IInv
<1>2. KeptIds
  BY UnchangedKept DEF UdpExpireRegistry
<1>3. MineAt(s, t) /\ UdpAt(s, t, "expire")
  BY DEF JInv, Owners, MineAreUdp, UdpExpireRegistry
<1>4. /\ udp_task'[s][t].pc = "expire_close" /\ udp_task'[s][t].sid = udp_task[s][t].sid
      /\ \A x \in Session, y \in TunnelId :
            x # s \/ y # t => udp_task'[x][y] = udp_task[x][y]
  BY <1>1, UdpGotoMoves DEF UdpExpireRegistry
<1>5. /\ UNCHANGED <<sess, hc, req, streams, udp_peers, stream_tunnel, conn, peer_streams>>
      /\ registry' = registry \ {udp_task[s][t].sid}
  BY DEF UdpExpireRegistry, loop, state, seen
<1>6. MapsMatch' /\ PeersAreUdp'
  BY <1>2, <1>5, PeersKept DEF JInv, Owners, MapsMatch
<1>7. MineAt(s, t)'
  BY <1>3, <1>4, <1>5 DEF MineAt, IsUdp, UdpAt, AtWork
<1>8. \A i \in registry' : TaskHolds(s, t, i) => TaskHolds(s, t, i)'
  BY <1>3, <1>4, <1>5 DEF TaskHolds, UdpAt, UdpAlive
<1>9. udp_task[s][t].pc # "none"
  BY <1>3 DEF UdpAt
<1> QED
  BY <1>2, <1>4, <1>5, <1>6, <1>7, <1>8, <1>9, UdpTaskKeeps

(* UdpShutdown removes all the records the task holds. *)
LEMMA UdpShutdownKeeps ==
    ASSUME JInv, NEW s \in Session, NEW t \in TunnelId, UdpShutdown(s, t)
    PROVE  Owners'
<1>1. TypeOK
  BY DEF JInv, IInv
<1>2. KeptIds
  BY UnchangedKept DEF UdpShutdown
<1>3. MineAt(s, t) /\ UdpAt(s, t, "recv")
  BY DEF JInv, Owners, MineAreUdp, UdpShutdown
<1>4. /\ udp_task'[s][t].pc = "end"
      /\ \A x \in Session, y \in TunnelId :
            x # s \/ y # t => udp_task'[x][y] = udp_task[x][y]
  BY <1>1, UdpGotoMoves DEF UdpShutdown
<1>5. /\ UNCHANGED <<sess, hc, req, streams, udp_peers, stream_tunnel, conn, peer_streams>>
      /\ registry' = registry \ {peer_streams[s][t][p] : p \in Peer}
  BY DEF UdpShutdown, loop, state, seen
<1>6. MapsMatch' /\ PeersAreUdp'
  BY <1>2, <1>5, PeersKept DEF JInv, Owners, MapsMatch
<1>7. MineAt(s, t)'
  BY <1>3, <1>4, <1>5 DEF MineAt, IsUdp, UdpAt, AtWork
<1>8. \A i \in registry' : ~ TaskHolds(s, t, i)
  BY <1>3, <1>5 DEF TaskHolds, UdpAt
<1>9. udp_task[s][t].pc # "none"
  BY <1>3 DEF UdpAt
<1> QED
  BY <1>2, <1>4, <1>5, <1>6, <1>7, <1>8, <1>9, UdpTaskKeeps

(* UdpRecvNew: the stream an address had before is not in udp_peers, so     *)
(* that the task does not hold its record; the new one has none yet.        *)
LEMMA UdpRecvNewKeeps ==
    ASSUME JInv, NEW s \in Session, NEW t \in TunnelId, NEW p \in Peer, UdpRecvNew(s, t, p)
    PROVE  Owners'
<1>1. PICK n : n = next_sid
  OBVIOUS
<1>2. TypeOK /\ IInv
  BY DEF JInv, IInv
<1>3. /\ KeptIds /\ conn[n].kind = "none" /\ n \in Sid
      /\ conn'[n].kind = "udp" /\ conn'[n].sess = s /\ conn'[n].tid = t
      /\ \A x \in Sid : x # n => conn'[x] = conn[x]
  BY <1>1, <1>2, NewIdKept, ZenonT(30) DEF UdpRecvNew
<1>4. MineAt(s, t) /\ UdpAt(s, t, "recv")
  BY DEF JInv, Owners, MineAreUdp, UdpRecvNew
<1>5. /\ udp_task'[s][t] = [pc |-> "lookup", sid |-> n]
      /\ \A x \in Session, y \in TunnelId : x # s \/ y # t =>
            udp_task'[x][y] = udp_task[x][y] /\ peer_streams'[x][y] = peer_streams[x][y]
      /\ peer_streams'[s][t] = [peer_streams[s][t] EXCEPT ![p] = n]
  BY <1>1, <1>2 DEF UdpRecvNew, TypeOK
<1>6. peer_streams[s][t] \in [Peer -> Sid \cup {0}]
  BY <1>2 DEF TypeOK
<1>7. /\ UNCHANGED <<sess, hc, req, streams, udp_peers, stream_tunnel, registry>>
      /\ peer_streams[s][t][p] \notin udp_peers[s]
  BY DEF UdpRecvNew, loop, state
<1>8. MapsMatch' /\ PeersAreUdp'
  BY <1>2, <1>3, <1>7, PeersKept DEF JInv, Owners, MapsMatch
<1>9. MineAt(s, t)'
  <2>1. IsUdp(s, t, n)'
    BY <1>3 DEF IsUdp
  <2>2. \A q \in Peer : peer_streams'[s][t][q] = IF q = p THEN n ELSE peer_streams[s][t][q]
    BY <1>5, <1>6
  <2>3. \A i : IsUdp(s, t, i) => IsUdp(s, t, i)'
    BY <1>3 DEF IsUdp, KeptIds
  <2> QED
    BY <1>4, <1>5, <2>1, <2>2, <2>3 DEF MineAt
<1>10. \A x \in Sid : IsTcp(x) => conn'[x].pc = conn[x].pc
  BY <1>3 DEF IsTcp
<1>11. \A i \in registry : TaskHolds(s, t, i) => TaskHolds(s, t, i)'
  <2> SUFFICES ASSUME NEW i \in registry, TaskHolds(s, t, i) PROVE TaskHolds(s, t, i)'
    OBVIOUS
  <2>1. PICK q \in Peer : i \in udp_peers[s] /\ peer_streams[s][t][q] = i
    BY <1>4 DEF TaskHolds, UdpAt
  <2>2. peer_streams'[s][t][q] = i
    BY <1>5, <1>6, <1>7, <2>1
  <2> QED
    BY <1>5, <1>7, <2>1, <2>2 DEF TaskHolds, UdpAlive
<1>12. udp_task[s][t].pc # "none"
  BY <1>4 DEF UdpAt
<1> QED
  BY <1>3, <1>5, <1>7, <1>8, <1>9, <1>10, <1>11, <1>12, UdpTaskKeeps

-----------------------------------------------------------------------------
(* The frame loop.                                                          *)

(* What the loop holds after a step within a frame, *)
LEMMA GotoHolds ==
    ASSUME JInv, NEW s \in Session, NEW pc, Goto(s, pc)
    PROVE  /\ hc'[s].pc = pc /\ hc'[s].tid = hc[s].tid /\ hc'[s].sids = hc[s].sids
           /\ \A x \in Session : x # s => hc'[x] = hc[x]
<1>1. TypeOK
  BY DEF JInv, IInv
<1>2. hc \in [Session -> LoopType] /\ hc[s] \in LoopType
  BY <1>1 DEF TypeOK
<1>3. hc' = [hc EXCEPT ![s] = [hc[s] EXCEPT !.pc = pc]]
  BY DEF Goto
<1>4. [hc[s] EXCEPT !.pc = pc].sids = hc[s].sids
  BY <1>2 DEF LoopType
<1> QED
  BY <1>1, <1>2, <1>3, <1>4, GotoMoves

(* and as a frame begins or ends. *)
LEMMA StageHolds ==
    ASSUME JInv, NEW s \in Session, NEW pc, NEW t, NEW X,
           hc' = [hc EXCEPT ![s] = Stage(pc, t, X)]
    PROVE  /\ hc'[s].pc = pc /\ hc'[s].tid = t /\ hc'[s].sids = X
           /\ \A x \in Session : x # s => hc'[x] = hc[x]
  BY DEF JInv, IInv, TypeOK, Stage

(* The same of the end of a frame. *)
LEMMA IdleHolds ==
    ASSUME JInv, NEW s \in Session, hc' = [hc EXCEPT ![s] = Idle]
    PROVE  /\ hc'[s].pc = "read" /\ \A x \in Session : x # s => hc'[x] = hc[x]
  BY StageHolds DEF Idle

(* Steps that leave the maps and the registry alone. *)
LEMMA LoopMoves ==
    ASSUME JInv, NEW s \in Session,
           UNCHANGED <<sess, req, streams, udp_peers, stream_tunnel, registry, udp_task,
                       peer_streams, conn>>,
           \A x \in Session : x # s => hc'[x] = hc[x],
           hc[s].pc \notin {"close_send", "purge"},
           hc'[s].pc \in DataPc => \A sid \in hc'[s].sids : IsTcp(sid),
           \A t \in TunnelId : Binding(s, t)' => Binding(s, t)
    PROVE  Owners'
<1>1. MapsMatch'
  BY DEF JInv, Owners, MapsMatch
<1>2. \A t \in TunnelId :
         /\ req'[s][t] = NoRequest \/ Binding(s, t)' => udp_task[s][t].pc = "none"
         /\ Binding(s, t)' => req'[s][t] # NoRequest
  BY DEF JInv, Owners, BindsOnce
<1>3. \A sid : ~ LoopHolds(s, sid)
  BY DEF LoopHolds
<1> QED
  BY <1>1, <1>2, <1>3, LoopKeeps

(* OpenTunnel after its first check, and the frame loop around Data. *)
LEMMA LoopTaskKeeps ==
    ASSUME JInv, NEW s \in Session,
           BindTcp(s) \/ BindTcpFails(s) \/ BindUdpFails(s) \/ InsertTunnel(s)
              \/ DataRefused(s) \/ DataClose(s)
    PROVE  Owners'
<1>1. PICK pc \in {"bind_udp", "insert", "reject", "opened", "data_close", "data_unmap"} :
         /\ Goto(s, pc)
         /\ pc = "bind_udp" => At(s, "bind_tcp")
         /\ pc \in DataPc => hc[s].pc \in DataPc
  BY DEF BindTcp, BindTcpFails, BindUdpFails, InsertTunnel, DataRefused, DataClose, At, DataPc
<1>2. /\ hc'[s].pc = pc /\ hc'[s].tid = hc[s].tid /\ hc'[s].sids = hc[s].sids
      /\ \A x \in Session : x # s => hc'[x] = hc[x]
  BY <1>1, GotoHolds
<1>3. /\ UNCHANGED <<sess, req, streams, udp_peers, stream_tunnel, registry, udp_task,
                     peer_streams, conn>>
      /\ hc[s].pc \notin {"close_send", "purge"}
  BY DEF BindTcp, BindTcpFails, BindUdpFails, InsertTunnel, DataRefused, DataClose, At,
         state, tasks, udp, seen
<1>4. hc'[s].pc \in DataPc => \A sid \in hc'[s].sids : IsTcp(sid)
  BY <1>1, <1>2 DEF JInv, Owners, DataIsTcp
<1>5. \A t \in TunnelId : Binding(s, t)' => Binding(s, t)
  BY <1>1, <1>2 DEF Binding, At
<1> QED
  BY <1>2, <1>3, <1>4, <1>5, LoopMoves

(* The end of a frame that has left the maps alone. *)
LEMMA LoopEndKeeps ==
    ASSUME JInv, NEW s \in Session, Reject(s) \/ TunnelOpened(s) \/ DataForwarded(s)
    PROVE  Owners'
<1>1. hc' = [hc EXCEPT ![s] = Idle]
  BY DEF Reject, TunnelOpened, DataForwarded
<1>2. hc'[s].pc = "read" /\ \A x \in Session : x # s => hc'[x] = hc[x]
  BY <1>1, IdleHolds
<1>3. /\ UNCHANGED <<sess, req, streams, udp_peers, stream_tunnel, registry, udp_task,
                     peer_streams, conn>>
      /\ hc[s].pc \notin {"close_send", "purge"}
  BY DEF Reject, TunnelOpened, DataForwarded, At, state, tasks, udp, seen
<1> QED
  BY <1>2, <1>3, LoopMoves DEF DataPc, Binding

(* HandleData takes its sender out of streams, which has TCP players only. *)
LEMMA HandleDataKeeps ==
    ASSUME JInv, NEW s \in Session, NEW sid \in Sid, HandleData(s, sid)
    PROVE  Owners'
<1>0. hc' = [hc EXCEPT ![s] = Stage("data_send", 0, {sid})]
  BY DEF HandleData
<1>1. /\ hc'[s].pc = "data_send" /\ hc'[s].sids = {sid}
      /\ \A x \in Session : x # s => hc'[x] = hc[x]
  BY <1>0 DEF JInv, IInv, TypeOK, Stage
<1>2. IsTcp(sid)
  BY DEF HandleData, JInv, IInv, StreamsOwned
<1> QED
  BY <1>1, <1>2, LoopMoves DEF HandleData, At, state, tasks, udp, seen, Binding

(* DataUnmap takes a TCP player out of both maps; udp_peers has none. *)
LEMMA DataUnmapKeeps == ASSUME JInv, NEW s \in Session, DataUnmap(s) PROVE Owners'
<1>1. hc'[s].pc = "read" /\ \A x \in Session : x # s => hc'[x] = hc[x]
  BY IdleHolds DEF DataUnmap
<1>2. hc[s].pc = "data_unmap" /\ \A sid \in hc[s].sids : sid \notin udp_peers[s]
  BY DEF DataUnmap, At, JInv, Owners, DataIsTcp, PeersAreUdp, IsTcp, DataPc
<1>3. MapsMatch'
  BY <1>2 DEF DataUnmap, JInv, Owners, MapsMatch, IInv, TypeOK
<1>4. \A t \in TunnelId :
         /\ req'[s][t] = NoRequest \/ Binding(s, t)' => udp_task[s][t].pc = "none"
         /\ Binding(s, t)' => req'[s][t] # NoRequest
  BY <1>1 DEF DataUnmap, JInv, Owners, BindsOnce, Binding
<1>5. \A sid : ~ LoopHolds(s, sid)
  BY <1>2 DEF LoopHolds
<1> QED
  BY <1>1, <1>3, <1>4, <1>5, LoopKeeps DEF DataUnmap, tasks, udp, seen, DataPc

(* OpenTunnel past its checks: its tunnel has no UDP task. *)
LEMMA HandleOpenTunnelKeeps ==
    ASSUME JInv, NEW s \in Session, NEW t \in TunnelId, NEW r \in Request,
           HandleOpenTunnel(s, t, r)
    PROVE  Owners'
<1>1. /\ UNCHANGED <<sess, streams, udp_peers, stream_tunnel, registry, udp_task,
                     peer_streams, conn>>
      /\ hc[s].pc = "read"
  BY DEF HandleOpenTunnel, At, state, tasks, udp, seen
<1>2. \A x \in Session : x # s => hc'[x] = hc[x] /\ req'[x] = req[x]
  BY DEF HandleOpenTunnel, JInv, IInv, TypeOK
<1>3. MapsMatch'
  BY <1>1 DEF JInv, Owners, MapsMatch
<1>4. \A sid : ~ LoopHolds(s, sid)
  BY <1>1 DEF LoopHolds
<1>5. r # NoRequest
  BY IdAssumption DEF Request, NoRequest
<1>6. /\ hc'[s].pc \in {"read", "reject", "bind_tcp", "bind_udp"}
      /\ \A x \in TunnelId :
            /\ req'[s][x] = NoRequest \/ Binding(s, x)' => udp_task[s][x].pc = "none"
            /\ Binding(s, x)' => req'[s][x] # NoRequest
  <2>1. CASE UNCHANGED req /\ hc'[s].pc \in {"read", "reject"}
    BY <2>1 DEF JInv, Owners, BindsOnce, Binding
  <2>2. CASE /\ req' = [req EXCEPT ![s][t] = r] /\ req[s][t] = NoRequest
             /\ hc'[s].pc \in {"bind_tcp", "bind_udp"} /\ hc'[s].tid = t
    <3>1. req'[s][t] = r /\ \A x \in TunnelId : x # t => req'[s][x] = req[s][x]
      BY <2>2 DEF JInv, IInv, TypeOK
    <3>2. \A x \in TunnelId : req[s][x] = NoRequest => udp_task[s][x].pc = "none"
      BY DEF JInv, Owners, BindsOnce
    <3>3. \A x \in TunnelId : Binding(s, x)' => x = t
      BY <2>2 DEF Binding
    <3> QED
      BY <1>5, <2>2, <3>1, <3>2, <3>3
  <2>3. CASE ~ ValidPort(r.port)
    BY <2>1, <2>3, StageHolds DEF HandleOpenTunnel
  <2>4. CASE ValidPort(r.port) /\ t \in tunnels[s]
    BY <1>1, <2>1, <2>4 DEF HandleOpenTunnel
  <2>5. CASE ValidPort(r.port) /\ t \notin tunnels[s]
    BY <2>2, <2>5, StageHolds DEF HandleOpenTunnel
  <2> QED
    BY <2>3, <2>4, <2>5
<1> QED
  BY <1>1, <1>2, <1>3, <1>4, <1>6, LoopKeeps DEF DataPc

(* Outside OpenTunnel nothing is about to be bound. *)
LEMMA NotBinding ==
    ASSUME JInv, NEW s \in Session, UNCHANGED req,
           hc'[s].pc \notin {"bind_tcp", "bind_udp"}
    PROVE  \A t \in TunnelId :
              /\ req'[s][t] = NoRequest \/ Binding(s, t)' => udp_task[s][t].pc = "none"
              /\ Binding(s, t)' => req'[s][t] # NoRequest
  BY DEF JInv, Owners, BindsOnce, Binding

(* What CloseTunnel and StreamClose forget they forget in every map. *)
LEMMA ForgetMatches ==
    ASSUME JInv, NEW s \in Session, NEW X, Forget(s, X), UNCHANGED sess
    PROVE  /\ MapsMatch' /\ udp_peers'[s] = udp_peers[s] \ X
           /\ \A x \in Session : x # s => udp_peers'[x] = udp_peers[x]
  BY DEF Forget, JInv, Owners, MapsMatch, IInv, TypeOK

(* CloseTunnel: the loop takes over the records of the streams it sweeps. *)
LEMMA HandleCloseTunnelKeeps ==
    ASSUME JInv, NEW s \in Session, NEW t \in TunnelId, HandleCloseTunnel(s, t)
    PROVE  Owners'
<1>1. PICK X : X = {sid \in stream_tunnel[s] : conn[sid].tid = t}
  OBVIOUS
<1>2. /\ Forget(s, X) /\ hc[s].pc = "read"
      /\ hc' = [hc EXCEPT ![s] = IF X = {} THEN Idle ELSE Stage("close_send", t, X)]
      /\ UNCHANGED <<sess, req, registry, udp_task, peer_streams, conn>>
  BY <1>1 DEF HandleCloseTunnel, At, udp, seen
<1>3. /\ \A x \in Session : x # s => hc'[x] = hc[x]
      /\ hc'[s].pc \in {"read", "close_send"}
      /\ X # {} => hc'[s].pc = "close_send" /\ hc'[s].sids = X
  <2>1. CASE X = {}
    BY <1>2, <2>1, IdleHolds
  <2>2. CASE X # {}
    <3>1. hc' = [hc EXCEPT ![s] = Stage("close_send", t, X)]
      BY <1>2, <2>2
    <3> QED
      BY <2>2, <3>1 DEF JInv, IInv, TypeOK, Stage
  <2> QED
    BY <2>1, <2>2
<1>4. /\ MapsMatch' /\ udp_peers'[s] = udp_peers[s] \ X
      /\ \A x \in Session : x # s => udp_peers'[x] = udp_peers[x]
  BY <1>2, ForgetMatches
<1>5. \A sid : LoopHolds(s, sid) \/ sid \in udp_peers[s] \ udp_peers'[s] => LoopHolds(s, sid)'
  BY <1>2, <1>3, <1>4 DEF LoopHolds
<1>6. \A x \in TunnelId :
         /\ req'[s][x] = NoRequest \/ Binding(s, x)' => udp_task[s][x].pc = "none"
         /\ Binding(s, x)' => req'[s][x] # NoRequest
  BY <1>2, <1>3, NotBinding
<1> QED
  BY <1>2, <1>3, <1>4, <1>5, <1>6, LoopKeeps DEF DataPc

(* StreamClose: so it does with the one stream. *)
LEMMA HandleStreamCloseKeeps ==
    ASSUME JInv, NEW s \in Session, NEW sid \in Sid, HandleStreamClose(s, sid)
    PROVE  Owners'
<1>1. /\ Forget(s, {sid}) /\ hc[s].pc = "read"
      /\ hc' = [hc EXCEPT ![s] = Stage("purge", 0, {sid})]
      /\ UNCHANGED <<sess, req, registry, udp_task, peer_streams, conn>>
  BY DEF HandleStreamClose, At, tasks, udp, seen
<1>2. /\ \A x \in Session : x # s => hc'[x] = hc[x]
      /\ hc'[s].pc = "purge" /\ hc'[s].sids = {sid}
  BY <1>1, StageHolds
<1>3. /\ MapsMatch' /\ udp_peers'[s] = udp_peers[s] \ {sid}
      /\ \A x \in Session : x # s => udp_peers'[x] = udp_peers[x]
  BY <1>1, ForgetMatches
<1>4. \A i : LoopHolds(s, i) \/ i \in udp_peers[s] \ udp_peers'[s] => LoopHolds(s, i)'
  BY <1>1, <1>2, <1>3 DEF LoopHolds
<1>5. \A x \in TunnelId :
         /\ req'[s][x] = NoRequest \/ Binding(s, x)' => udp_task[s][x].pc = "none"
         /\ Binding(s, x)' => req'[s][x] # NoRequest
  BY <1>1, <1>2, NotBinding
<1> QED
  BY <1>1, <1>2, <1>3, <1>4, <1>5, LoopKeeps DEF DataPc

(* CloseSend: the loop keeps them through its sends. *)
LEMMA CloseSendKeeps ==
    ASSUME JInv, NEW s \in Session, NEW sid \in Sid, CloseSend(s, sid)
    PROVE  Owners'
<1>1. /\ hc'[s].pc \in {"close_send", "purge"} /\ hc'[s].sids = hc[s].sids
      /\ \A x \in Session : x # s => hc'[x] = hc[x]
  BY DEF CloseSend, JInv, IInv, TypeOK
<1>2. UNCHANGED <<sess, req, streams, udp_peers, stream_tunnel, registry, udp_task,
                  peer_streams, conn>>
  BY DEF CloseSend, state, tasks, udp, seen
<1>3. MapsMatch'
  BY <1>2 DEF JInv, Owners, MapsMatch
<1>4. \A i : LoopHolds(s, i) => LoopHolds(s, i)'
  BY <1>1 DEF LoopHolds
<1>5. \A x \in TunnelId :
         /\ req'[s][x] = NoRequest \/ Binding(s, x)' => udp_task[s][x].pc = "none"
         /\ Binding(s, x)' => req'[s][x] # NoRequest
  BY <1>1, <1>2, NotBinding
<1> QED
  BY <1>1, <1>2, <1>3, <1>4, <1>5, LoopKeeps DEF DataPc

(* Purge removes the records the loop held. *)
LEMMA PurgeKeeps == ASSUME JInv, NEW s \in Session, Purge(s) PROVE Owners'
<1>1. /\ hc'[s].pc = "read" /\ \A x \in Session : x # s => hc'[x] = hc[x]
  BY IdleHolds DEF Purge
<1>2. UNCHANGED <<sess, req, streams, udp_peers, stream_tunnel, udp_task, peer_streams, conn>>
  BY DEF Purge, state, tasks, udp, seen
<1>3. MapsMatch'
  BY <1>2 DEF JInv, Owners, MapsMatch
<1>4. registry' = registry \ hc[s].sids
  BY DEF Purge
<1>5. \A i \in registry' : ~ LoopHolds(s, i)
  BY <1>4 DEF LoopHolds
<1>6. \A x \in TunnelId :
         /\ req'[s][x] = NoRequest \/ Binding(s, x)' => udp_task[s][x].pc = "none"
         /\ Binding(s, x)' => req'[s][x] # NoRequest
  BY <1>1, <1>2, NotBinding
<1> QED
  BY <1>1, <1>2, <1>3, <1>4, <1>5, <1>6, LoopKeeps DEF DataPc

(* The connection begins: the maps are there and match. *)
LEMMA ConnectKeeps == ASSUME JInv, NEW s \in Session, Connect(s) PROVE Owners'
<1>1. UNCHANGED <<hc, req, streams, udp_peers, stream_tunnel, registry, udp_task,
                  peer_streams, conn>>
  BY DEF Connect, state, tasks, udp, seen
<1>2. MapsMatch'
  BY <1>1 DEF Connect, JInv, Owners, MapsMatch, IInv, TypeOK
<1>3. hc'[s].pc \in DataPc => \A sid \in hc'[s].sids : IsTcp(sid)
  BY <1>1 DEF JInv, Owners, DataIsTcp
<1>4. \A sid : LoopHolds(s, sid) => LoopHolds(s, sid)'
  BY <1>1 DEF LoopHolds
<1>5. \A x \in TunnelId :
         /\ req'[s][x] = NoRequest \/ Binding(s, x)' => udp_task[s][x].pc = "none"
         /\ Binding(s, x)' => req'[s][x] # NoRequest
  BY <1>1 DEF JInv, Owners, BindsOnce, Binding
<1> QED
  BY <1>1, <1>2, <1>3, <1>4, <1>5, LoopKeeps

(* The connection ends: the records of its UDP players stay with the task.  *)
LEMMA SessionEndKeeps == ASSUME JInv, NEW s \in Session, SessionEnd(s) PROVE Owners'
<1>1. /\ hc'[s].pc = "read" /\ \A x \in Session : x # s => hc'[x] = hc[x]
  BY IdleHolds DEF SessionEnd
<1>2. /\ UNCHANGED <<req, udp_peers, stream_tunnel, registry, udp_task, peer_streams, conn>>
      /\ hc[s].pc \in {"read", "opened"}
  BY DEF SessionEnd, At, udp, seen
<1>3. MapsMatch'
  BY DEF SessionEnd, JInv, Owners, MapsMatch, IInv, TypeOK
<1>4. \A sid : ~ LoopHolds(s, sid)
  BY <1>2 DEF LoopHolds
<1>5. \A x \in TunnelId :
         /\ req'[s][x] = NoRequest \/ Binding(s, x)' => udp_task[s][x].pc = "none"
         /\ Binding(s, x)' => req'[s][x] # NoRequest
  BY <1>1, <1>2, NotBinding
<1> QED
  BY <1>1, <1>2, <1>3, <1>4, <1>5, LoopKeeps DEF DataPc

(* BindUdp spawns the one UDP task of a tunnel, which has no address yet.   *)
LEMMA BindUdpKeeps == ASSUME JInv, NEW s \in Session, BindUdp(s) PROVE Owners'
<1>1. PICK t : t = hc[s].tid
  OBVIOUS
<1>2. hc[s].pc = "bind_udp" /\ t \in TunnelId
  BY <1>1 DEF BindUdp, At, JInv, IInv, Targets, OpeningPc
<1>3. /\ hc'[s].pc = "insert" /\ hc'[s].tid = t
      /\ \A x \in Session : x # s => hc'[x] = hc[x]
  BY <1>1, GotoHolds DEF BindUdp
<1>4. /\ udp_task'[s][t].pc = "recv"
      /\ \A x \in Session, y \in TunnelId :
            x # s \/ y # t => udp_task'[x][y] = udp_task[x][y]
  <2>1. TypeOK /\ UdpGoto(s, t, "recv")
    BY <1>1 DEF BindUdp, UdpGoto, JInv, IInv
  <2> QED
    BY <1>2, <2>1, UdpGotoMoves
<1>5. UNCHANGED <<sess, req, streams, udp_peers, stream_tunnel, registry, peer_streams, conn>>
  BY DEF BindUdp, state, seen
<1>6. udp_task[s][t].pc = "none" /\ req[s][t] # NoRequest
  BY <1>1, <1>2 DEF JInv, Owners, BindsOnce, Binding
<1>7. MapsMatch' /\ PeersAreUdp'
  BY <1>5 DEF JInv, Owners, MapsMatch, PeersAreUdp
<1>8. MineAreUdp'
  <2> SUFFICES ASSUME NEW x \in Session, NEW y \in TunnelId PROVE MineAt(x, y)'
    BY DEF MineAreUdp
  <2>1. CASE x = s /\ y = t
    BY <1>4, <1>5, <2>1 DEF JInv, Owners, MineAreUdp, MineAt, IsUdp, AtWork
  <2>2. CASE x # s \/ y # t
    BY <1>4, <1>5, <2>2, MineKept, UnchangedKept DEF JInv, Owners
  <2> QED
    BY <2>1, <2>2
<1>9. DataIsTcp'
  BY <1>3, <1>5 DEF JInv, Owners, DataIsTcp, IsTcp, DataPc
<1>10. BindsOnce'
  <2> SUFFICES ASSUME NEW x \in Session, NEW y \in TunnelId
               PROVE  /\ (req[x][y] = NoRequest \/ Binding(x, y)' => udp_task'[x][y].pc = "none")
                      /\ (Binding(x, y)' => req[x][y] # NoRequest)
    BY <1>5 DEF BindsOnce
  <2>1. Binding(x, y)' => Binding(x, y) /\ x # s
    BY <1>3 DEF Binding
  <2>2. CASE x = s /\ y = t
    BY <1>6, <2>1, <2>2
  <2>3. CASE x # s \/ y # t
    BY <1>4, <2>1, <2>3 DEF JInv, Owners, BindsOnce
  <2> QED
    BY <2>2, <2>3
<1>11. Records'
  <2> SUFFICES ASSUME NEW sid \in registry PROVE (TcpRecord(sid) \/ UdpRecord(sid))'
    BY <1>5 DEF Records
  <2>1. PICK x \in Session, y \in TunnelId : conn[sid].sess = x /\ conn[sid].tid = y
    BY RecordFields
  <2>2. TcpRecord(sid) => TcpRecord(sid)'
    BY <1>5 DEF TcpRecord, IsTcp
  <2>3. LoopHolds(x, sid) => LoopHolds(x, sid)'
    BY <1>2, <1>3 DEF LoopHolds
  <2>4. TaskHolds(x, y, sid) => TaskHolds(x, y, sid)'
    <3>1. CASE x = s /\ y = t
      BY <1>6, <3>1 DEF TaskHolds, UdpAt, UdpAlive
    <3>2. CASE x # s \/ y # t
      BY <1>4, <1>5, <3>2 DEF TaskHolds, UdpAt, UdpAlive
    <3> QED
      BY <3>1, <3>2
  <2> QED
    BY <1>5, <2>1, <2>2, <2>3, <2>4 DEF JInv, Owners, Records, UdpRecord
<1> QED
  BY <1>7, <1>8, <1>9, <1>10, <1>11 DEF Owners

-----------------------------------------------------------------------------
(* Steps of the writer and the TCP listener JInv does not speak of. *)
LEMMA AsideStepKeeps ==
    ASSUME JInv, NEW s \in Session,
           Deliver(s) \/ WriterFails(s) \/ \E t \in TunnelId : TcpShutdown(s, t)
    PROVE  Owners'
<1>1. UNCHANGED Parts
  BY DEF Deliver, WriterFails, TcpShutdown, Parts, loop, state, tasks, udp, seen
<1> QED
  BY <1>1, AsideKeeps

(* At the start there is nothing to own. *)
LEMMA InitOwners == Init => Owners
<1> SUFFICES ASSUME Init PROVE Owners
  OBVIOUS
<1>1. MapsMatch /\ PeersAreUdp /\ DataIsTcp /\ Records
  BY DEF Init, MapsMatch, PeersAreUdp, DataIsTcp, Records, Idle, Stage, DataPc
<1>2. MineAreUdp
  BY DEF Init, MineAreUdp, MineAt, AtWork
<1>3. BindsOnce
  BY DEF Init, BindsOnce, Binding, Idle, Stage
<1> QED
  BY <1>1, <1>2, <1>3 DEF Owners

(* The steps of the client and of the frame loop. *)
LEMMA SessionStepKeeps ==
    ASSUME JInv, NEW s \in Session, ClientStep(s) \/ LoopStep(s) \/ Deliver(s)
    PROVE  Owners'
<1>1. CASE Connect(s) \/ SessionEnd(s) \/ WriterFails(s) \/ Deliver(s)
  BY <1>1, ConnectKeeps, SessionEndKeeps, AsideStepKeeps
<1>2. CASE \/ \E t \in TunnelId, r \in Request : HandleOpenTunnel(s, t, r)
           \/ \E t \in TunnelId : HandleCloseTunnel(s, t)
  BY <1>2, HandleOpenTunnelKeeps, HandleCloseTunnelKeeps
<1>3. CASE \E sid \in Sid : HandleStreamClose(s, sid) \/ HandleData(s, sid) \/ CloseSend(s, sid)
  BY <1>3, HandleStreamCloseKeeps, HandleDataKeeps, CloseSendKeeps
<1>4. CASE BindTcp(s) \/ BindTcpFails(s) \/ BindUdpFails(s) \/ InsertTunnel(s)
              \/ DataRefused(s) \/ DataClose(s)
  BY <1>4, LoopTaskKeeps
<1>5. CASE Reject(s) \/ TunnelOpened(s) \/ DataForwarded(s)
  BY <1>5, LoopEndKeeps
<1>6. CASE BindUdp(s) \/ Purge(s) \/ DataUnmap(s)
  BY <1>6, BindUdpKeeps, PurgeKeeps, DataUnmapKeeps
<1> QED
  BY <1>1, <1>2, <1>3, <1>4, <1>5, <1>6 DEF ClientStep, LoopStep

(* The steps of the two listener tasks of a tunnel. *)
LEMMA ListenerStepKeeps ==
    ASSUME JInv, NEW s \in Session, NEW t \in TunnelId,
           Accept(s, t) \/ TcpShutdown(s, t) \/ UdpStep(s, t) \/ UdpPlayerStep(s, t)
              \/ UdpShutdown(s, t)
    PROVE  Owners'
<1>1. CASE Accept(s, t) \/ TcpShutdown(s, t) \/ UdpShutdown(s, t)
  BY <1>1, AcceptKeeps, AsideStepKeeps, UdpShutdownKeeps
<1>2. CASE UdpStep(s, t) \/ UdpRecvError(s, t)
  BY <1>2, UdpGotoKeeps, UdpRegisterKeeps, UdpMapKeeps, UdpExpireRegistryKeeps DEF UdpStep
<1>3. CASE \E p \in Peer : UdpRecvKnown(s, t, p) \/ UdpRecvNew(s, t, p) \/ UdpExpire(s, t, p)
  BY <1>3, UdpRecvKnownKeeps, UdpRecvNewKeeps, UdpExpireKeeps
<1> QED
  BY <1>1, <1>2, <1>3 DEF UdpPlayerStep

(* The steps about one player stream. *)
LEMMA StreamStepKeeps ==
    ASSUME JInv, NEW sid \in Sid, ConnStep(sid) \/ PlayerStep(sid) \/ Disconnect(sid)
    PROVE  Owners'
<1>1. CASE MapStream(sid) \/ Register(sid) \/ Unmap(sid) \/ Disconnect(sid)
  BY <1>1, MapStreamKeeps, RegisterKeeps, UnmapKeeps, DisconnectKeeps
<1>2. CASE Announce(sid) \/ LookupDb(sid) \/ SenderDropped(sid) \/ Killed(sid)
              \/ SendStreamClose(sid) \/ PlayerLeaves(sid)
  BY <1>2, PlayerTaskKeeps
<1>3. CASE PlayerSends(sid) \/ LateData(sid)
  BY <1>3, PlayerDataKeeps
<1> QED
  BY <1>1, <1>2, <1>3 DEF ConnStep, PlayerStep

(* JInv is inductive. *)
LEMMA NextOwners == JInv /\ [Next]_vars => JInv'
<1> SUFFICES ASSUME JInv, [Next]_vars PROVE JInv'
  OBVIOUS
<1>1. IInv'
  BY NextInv DEF JInv
<1>2. CASE \E s \in Session : ClientStep(s) \/ LoopStep(s) \/ Deliver(s)
  BY <1>1, <1>2, SessionStepKeeps DEF JInv
<1>3. CASE \E s \in Session, t \in TunnelId :
              Accept(s, t) \/ TcpShutdown(s, t) \/ UdpStep(s, t) \/ UdpPlayerStep(s, t)
                 \/ UdpShutdown(s, t)
  BY <1>1, <1>3, ListenerStepKeeps DEF JInv
<1>4. CASE \E sid \in Sid : ConnStep(sid) \/ PlayerStep(sid) \/ Disconnect(sid)
  BY <1>1, <1>4, StreamStepKeeps DEF JInv
<1>5. CASE Terminated \/ UNCHANGED vars
  <2>1. UNCHANGED Parts
    BY <1>5 DEF Terminated, vars, Parts, loop, state, tasks, udp, seen
  <2> QED
    BY <1>1, <2>1, AsideKeeps DEF JInv
<1> QED
  BY <1>2, <1>3, <1>4, <1>5 DEF Next

(* JInv holds in every state the server reaches. *)
THEOREM OwnersInvariance == Spec => []JInv
<1>1. Init => JInv
  BY InitInv, InitOwners DEF JInv
<1>2. JInv /\ [Next]_vars => JInv'
  BY NextOwners
<1> QED
  BY <1>1, <1>2, PTL DEF Spec

(* While a connection is up, its stream_tunnel names just the streams of    *)
(* streams and udp_peers (server/src/main.rs), so that CloseTunnel misses   *)
(* no player: the frame loop, player tasks and UDP tasks that write the     *)
(* three maps at their own times never leave an entry of one without the    *)
(* other.                                                                   *)
THEOREM MapsAlwaysAgree == Spec => []MapsAgree
<1>1. JInv => MapsAgree
  BY DEF JInv, Owners, MapsMatch, MapsAgree
<1> QED
  BY <1>1, OwnersInvariance, PTL

(* Whatever GET /api/connections lists has somebody who will remove it: a   *)
(* player task, the UDP task that maps its address, or the frame loop that  *)
(* took it over, for any number of connections, tunnels and players.        *)
THEOREM RecordsAreOwned == Spec => []RegistryOwned
<1>1. JInv => RegistryOwned
  <2> SUFFICES ASSUME JInv, NEW sid \in registry
               PROVE  IF IsTcp(sid) THEN conn[sid].pc \in {"run", "closing", "unmap"}
                                    ELSE UdpRecordOwned(sid)
    BY DEF RegistryOwned
  <2>1. TcpRecord(sid) \/ UdpRecord(sid)
    BY DEF JInv, Owners, Records
  <2>2. CASE TcpRecord(sid)
    BY <2>2 DEF TcpRecord
  <2>3. CASE UdpRecord(sid)
    BY <2>3 DEF UdpRecord, LoopHolds, TaskHolds, UdpRecordOwned, IsTcp
  <2> QED
    BY <2>1, <2>2, <2>3
<1> QED
  BY <1>1, OwnersInvariance, PTL
=============================================================================
