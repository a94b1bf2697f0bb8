-------------------------- MODULE ServerFramesProofs --------------------------
(****************************************************************************)
(* What the client of ServerTunnels is told, for every value of the         *)
(* constants: Data of a stream only after its NewConnection                 *)
(* (DataAfterNewConnection) and the end of every TCP player (TcpEndIsTold). *)
(*                                                                          *)
(* KInv joins to the invariant of ServerMapsProofs who has announced what:  *)
(* a TCP task that is past its Announce (TcpTold), a UDP task with data in  *)
(* hand, and whatever is in udp_peers but the stream whose task is about to *)
(* announce it (UdpTold) - a packet from a known address is forwarded       *)
(* because its stream is in that map, which says nothing of NewConnection   *)
(* by itself.  All of it holds as long as the channel is open; that an idle *)
(* session has no tasks (FreshSessions) carries it over the one step that   *)
(* opens the channel.                                                       *)
(****************************************************************************)
EXTENDS ServerMapsProofs

NewAt(s, i, sid) == i \in DOMAIN chan[s] /\ chan[s][i] = Msg("NewConnection", sid)
CloseAt(s, i, sid) == i \in DOMAIN chan[s] /\ chan[s][i] = Msg("StreamClose", sid)
DataAt(s, i, sid) == i \in DOMAIN chan[s] /\ chan[s][i] = Msg("Data", sid)
Announced(s, sid) == view[s][sid] # "none" \/ \E j \in Nat : NewAt(s, j, sid)

(* A StreamClose follows every NewConnection on the way, and there is one   *)
(* if the client has the stream open.                                       *)
EndComes(s, sid) ==
    /\ \A i \in Nat : NewAt(s, i, sid) => \E j \in Nat : i < j /\ CloseAt(s, j, sid)
    /\ view[s][sid] = "open" => \E j \in Nat : CloseAt(s, j, sid)

FreshSessions ==
    \A s \in Session : sess[s] = "idle" =>
        /\ \A t \in TunnelId : tcp_task[s][t] = "none" /\ udp_task[s][t].pc = "none"
        /\ \A sid \in Sid : conn[sid].kind # "none" => conn[sid].sess # s
        /\ udp_peers[s] = {}
StreamFrames == {"NewConnection", "Data", "StreamClose"}
FrameIds ==
    \A s \in Session : \A i \in DOMAIN chan[s] :
        chan[s][i].type \in StreamFrames => chan[s][i].id \in Sid
DataAnnounced ==
    \A s \in Session, sid \in Sid : \A i \in Nat : DataAt(s, i, sid) =>
        view[s][sid] # "none" \/ \E j \in Nat : j < i /\ NewAt(s, j, sid)

ToldPc == {"announced", "register", "run", "closing"}
EndedPc == {"unmap", "done"}
TcpTold(sid) ==
    IsTcp(sid) /\ chan_open[conn[sid].sess] =>
        /\ conn[sid].pc \in ToldPc => Announced(conn[sid].sess, sid)
        /\ conn[sid].pc \in EndedPc => EndComes(conn[sid].sess, sid)
AboutTo(s, sid) ==
    \E t \in TunnelId : UdpAt(s, t, "announce") /\ udp_task[s][t].sid = sid
UdpTold(s) ==
    chan_open[s] =>
        /\ \A sid \in udp_peers[s] : Announced(s, sid) \/ AboutTo(s, sid)
        /\ \A t \in TunnelId : UdpAt(s, t, "data") => Announced(s, udp_task[s][t].sid)

Told ==
    /\ FreshSessions /\ FrameIds /\ DataAnnounced
    /\ \A sid \in Sid : TcpTold(sid)
    /\ \A s \in Session : UdpTold(s)
KInv == JInv /\ Told

-----------------------------------------------------------------------------
(* A channel with one frame more. *)
LEMMA Appends ==
    ASSUME NEW q \in Seq(Frame), NEW f \in Frame
    PROVE  /\ Append(q, f) \in Seq(Frame) /\ Len(q) + 1 \in Nat
           /\ \A i \in Nat : i \in DOMAIN Append(q, f) <=> i \in DOMAIN q \/ i = Len(q) + 1
           /\ \A i \in DOMAIN q : Append(q, f)[i] = q[i] /\ i < Len(q) + 1 /\ i \in Nat
           /\ Append(q, f)[Len(q) + 1] = f
BY SMT

(* A channel without its first frame. *)
LEMMA Tails ==
    ASSUME NEW q \in Seq(Frame), q # <<>>
    PROVE  /\ Tail(q) \in Seq(Frame) /\ Head(q) = q[1] /\ q[1] \in Frame /\ 1 \in DOMAIN q
           /\ \A i \in Nat : i \in DOMAIN Tail(q) <=> i + 1 \in DOMAIN q /\ i # 0
           /\ \A i \in DOMAIN Tail(q) : Tail(q)[i] = q[i + 1]
BY SMT

(* Frames of two kinds, or of two streams, differ.                          *)
LEMMA Messages ==
    /\ \A a, b, x, y : Msg(a, x) = Msg(b, y) => a = b /\ x = y
    /\ \A a, x : Msg(a, x).type = a /\ Msg(a, x).id = x
    /\ \A f \in Frame : f = Msg(f.type, f.id)
BY DEF Msg, Frame

(* What a step does to the channels and the client's views: what is         *)
(* announced stays so, and so do the ends of streams that are over.         *)
Flows ==
    /\ FrameIds' /\ DataAnnounced'
    /\ \A s \in Session, sid \in Sid : chan_open'[s] =>
          /\ Announced(s, sid) => Announced(s, sid)'
          /\ IsTcp(sid) /\ conn[sid].pc \in EndedPc /\ EndComes(s, sid) => EndComes(s, sid)'

(* A step that leaves channels and views alone. *)
LEMMA QuietFlows ==
    ASSUME FrameIds, DataAnnounced, UNCHANGED <<chan, view>>
    PROVE  Flows
BY DEF Flows, FrameIds, DataAnnounced, Announced, EndComes, NewAt, CloseAt, DataAt

(* A task sends a frame: Data of a stream that is announced, NewConnection *)
(* of a stream that is not over. *)
LEMMA SendFlows ==
    ASSUME TypeOK, FrameIds, DataAnnounced, NEW s \in Session, NEW f \in Frame, Send(s, f),
           f.type \in StreamFrames => f.id \in Sid,
           f.type = "Data" /\ chan_open[s] => Announced(s, f.id),
           \A sid \in Sid : f = Msg("NewConnection", sid) =>
               ~(IsTcp(sid) /\ conn[sid].pc \in EndedPc)
    PROVE  /\ Flows /\ UNCHANGED <<chan_open, view>>
           /\ chan_open[s] => \A sid \in Sid :
                 /\ f = Msg("NewConnection", sid) => Announced(s, sid)'
                 /\ f = Msg("StreamClose", sid) => EndComes(s, sid)'
<1>1. UNCHANGED <<chan_open, view>>
  BY DEF Send
<1>2. CASE ~chan_open[s]
  <2>1. UNCHANGED chan
    BY <1>2 DEF Send
  <2> QED BY <1>1, <1>2, <2>1, QuietFlows
<1>3. CASE chan_open[s]
  <2>1. PICK q \in Seq(Frame) : q = chan[s]
    BY DEF TypeOK
  <2>2. chan'[s] = Append(q, f) /\ \A r \in Session : r # s => chan'[r] = chan[r]
    BY <1>3, <2>1 DEF Send, TypeOK
  <2>3. PICK n \in Nat : n = Len(q) + 1
    BY <2>1, Appends
  <2>4. /\ \A i \in Nat : i \in DOMAIN Append(q, f) <=> i \in DOMAIN q \/ i = n
        /\ \A i \in DOMAIN q : Append(q, f)[i] = q[i] /\ i < n /\ i \in Nat
        /\ Append(q, f)[n] = f
        /\ \A i \in DOMAIN Append(q, f) : i \in Nat
    BY <2>3, Appends
  <2>5. ASSUME NEW r \in Session, NEW i \in Nat, NEW sid \in Sid
        PROVE  /\ NewAt(r, i, sid) => NewAt(r, i, sid)'
               /\ CloseAt(r, i, sid) => CloseAt(r, i, sid)'
               /\ DataAt(r, i, sid)' => DataAt(r, i, sid) \/ (r = s /\ i = n /\ f = Msg("Data", sid))
               /\ r = s /\ NewAt(r, i, sid) => i < n
               /\ NewAt(r, i, sid)' => NewAt(r, i, sid) \/ (r = s /\ i = n /\ f = Msg("NewConnection", sid))
    BY <2>1, <2>2, <2>4 DEF NewAt, CloseAt, DataAt
  <2>6. ASSUME NEW r \in Session, NEW sid \in Sid, Announced(r, sid) PROVE Announced(r, sid)'
    BY <1>1, <2>5, <2>6 DEF Announced
  <2>7. ASSUME NEW r \in Session, NEW sid \in Sid, EndComes(r, sid),
               IsTcp(sid), conn[sid].pc \in EndedPc
        PROVE  EndComes(r, sid)'
    <3>1. f # Msg("NewConnection", sid)
      BY <2>7
    <3>2. ASSUME NEW i \in Nat, NewAt(r, i, sid)' PROVE \E j \in Nat : i < j /\ CloseAt(r, j, sid)'
      BY <2>5, <2>7, <3>1, <3>2 DEF EndComes
    <3>3. ASSUME view'[r][sid] = "open" PROVE \E j \in Nat : CloseAt(r, j, sid)'
      BY <1>1, <2>5, <2>7, <3>3 DEF EndComes
    <3> QED BY <3>2, <3>3 DEF EndComes
  <2>8. FrameIds'
    <3> SUFFICES ASSUME NEW r \in Session, NEW i \in DOMAIN chan'[r],
                        chan'[r][i].type \in StreamFrames
                 PROVE  chan'[r][i].id \in Sid
      BY DEF FrameIds
    <3> QED BY <2>1, <2>2, <2>4 DEF FrameIds
  <2>9. DataAnnounced'
    <3> SUFFICES ASSUME NEW r \in Session, NEW sid \in Sid, NEW i \in Nat, DataAt(r, i, sid)',
                        view'[r][sid] = "none"
                 PROVE  \E j \in Nat : j < i /\ NewAt(r, j, sid)'
      BY DEF DataAnnounced
    <3>1. CASE DataAt(r, i, sid)
      BY <1>1, <2>5, <3>1 DEF DataAnnounced
    <3>2. CASE r = s /\ i = n /\ f = Msg("Data", sid)
      <4>1. Announced(s, sid)
        BY <1>3, <3>2, Messages
      <4> QED BY <1>1, <2>5, <3>2, <4>1 DEF Announced
    <3> QED BY <2>5, <3>1, <3>2
  <2>10. ASSUME NEW sid \in Sid
         PROVE  /\ f = Msg("NewConnection", sid) => Announced(s, sid)'
                /\ f = Msg("StreamClose", sid) => EndComes(s, sid)'
    <3>1. n \in DOMAIN chan'[s] /\ chan'[s][n] = f
      BY <2>2, <2>3, <2>4
    <3>2. f = Msg("NewConnection", sid) => NewAt(s, n, sid)'
      BY <3>1 DEF NewAt
    <3>3. f = Msg("StreamClose", sid) => CloseAt(s, n, sid)'
      BY <3>1 DEF CloseAt
    <3>4. f = Msg("StreamClose", sid) => f # Msg("NewConnection", sid)
      BY Messages
    <3>5. ASSUME f = Msg("StreamClose", sid), NEW i \in Nat, NewAt(s, i, sid)' PROVE i < n
      BY <2>5, <3>4, <3>5
    <3> QED BY <2>3, <3>2, <3>3, <3>5 DEF Announced, EndComes
  <2>11. Flows
    BY <2>6, <2>7, <2>8, <2>9 DEF Flows
  <2> QED BY <1>1, <2>10, <2>11
<1> QED BY <1>2, <1>3

(* The client reads the first frame.                                        *)
LEMMA DeliverFlows ==
    ASSUME TypeOK, FrameIds, DataAnnounced, NEW s \in Session, Deliver(s)
    PROVE  Flows
<1>1. PICK q \in Seq(Frame) : q = chan[s] /\ q # <<>>
  BY DEF TypeOK, Deliver
<1>2. PICK f \in Frame : f = Head(q)
  BY <1>1, Tails
<1>3. /\ chan'[s] = Tail(q) /\ \A r \in Session : r # s => chan'[r] = chan[r]
      /\ chan_open' = chan_open
  BY <1>1 DEF Deliver, TypeOK
<1>4. view' = CASE f.type = "NewConnection" -> [view EXCEPT ![s][f.id] = "open"]
                [] f.type = "StreamClose" /\ view[s][f.id] = "open"
                                            -> [view EXCEPT ![s][f.id] = "closed"]
                [] OTHER -> view
  BY <1>1, <1>2 DEF Deliver
<1>5. /\ f = q[1] /\ 1 \in DOMAIN q
      /\ \A i \in DOMAIN Tail(q) : i \in Nat /\ i # 0 /\ i + 1 \in DOMAIN q /\ Tail(q)[i] = q[i + 1]
      /\ \A i, k \in Nat : k = i + 1 /\ i # 0 /\ k \in DOMAIN q => i \in DOMAIN Tail(q) /\ Tail(q)[i] = q[k]
  <2>1. f = q[1] /\ 1 \in DOMAIN q /\ Tail(q) \in Seq(Frame)
    BY <1>1, <1>2, Tails
  <2>2. \A i \in DOMAIN Tail(q) : i \in Nat
    BY <2>1
  <2> QED BY <1>1, <2>1, <2>2, Tails
<1>6. ASSUME NEW sid \in Sid, NEW i \in Nat, NEW k \in Nat, k = i + 1
      PROVE  /\ NewAt(s, i, sid)' => NewAt(s, k, sid) /\ i # 0
             /\ DataAt(s, i, sid)' => DataAt(s, k, sid) /\ i # 0
             /\ i # 0 /\ NewAt(s, k, sid) => NewAt(s, i, sid)'
             /\ i # 0 /\ CloseAt(s, k, sid) => CloseAt(s, i, sid)'
  <2>1. i \in DOMAIN Tail(q) => k \in DOMAIN q /\ Tail(q)[i] = q[k] /\ i # 0
    BY <1>5, <1>6
  <2>2. k \in DOMAIN q /\ i # 0 => i \in DOMAIN Tail(q) /\ Tail(q)[i] = q[k]
    BY <1>5, <1>6
  <2> QED BY <1>1, <1>3, <2>1, <2>2 DEF NewAt, DataAt, CloseAt
<1>7. ASSUME NEW k \in Nat, k # 0 PROVE \E i \in Nat : k = i + 1
  <2>1. k - 1 \in Nat /\ k = (k - 1) + 1
    BY <1>7
  <2> QED BY <2>1
<1>8. ASSUME NEW sid \in Sid, NEW i \in Nat, NewAt(s, i, sid) \/ CloseAt(s, i, sid) PROVE i # 0
  BY <1>1, <1>8 DEF NewAt, CloseAt
<1>9. \A r \in Session, sid \in Sid :
         /\ view[r][sid] # "none" => view'[r][sid] # "none"
         /\ r # s \/ (f # Msg("NewConnection", sid) /\ f # Msg("StreamClose", sid)) =>
               view'[r][sid] = view[r][sid]
         /\ r = s /\ f = Msg("NewConnection", sid) => view'[r][sid] = "open"
         /\ r = s /\ f = Msg("StreamClose", sid) => view'[r][sid] # "open"
  <2>1. view \in [Session -> [Sid -> {"none", "open", "closed"}]] /\ f = Msg(f.type, f.id)
    BY Messages DEF TypeOK
  <2>2. CASE f.type = "NewConnection"
    <3>1. view' = [view EXCEPT ![s][f.id] = "open"]
      BY <1>4, <2>2
    <3>2. \A sid : f # Msg("StreamClose", sid)
      BY <2>2, Messages
    <3> QED BY <2>1, <2>2, <3>1, <3>2, Messages
  <2>3. CASE f.type = "StreamClose" /\ view[s][f.id] = "open"
    <3>1. view' = [view EXCEPT ![s][f.id] = "closed"]
      BY <1>4, <2>3
    <3>2. \A sid : f # Msg("NewConnection", sid)
      BY <2>3, Messages
    <3> QED BY <2>1, <2>3, <3>1, <3>2, Messages
  <2>4. CASE f.type # "NewConnection" /\ ~(f.type = "StreamClose" /\ view[s][f.id] = "open")
    <3>1. view' = view
      BY <1>4, <2>4
    <3> QED BY <2>4, <3>1, Messages
  <2> QED BY <2>2, <2>3, <2>4
<1>10. ASSUME NEW r \in Session, NEW sid \in Sid, Announced(r, sid) PROVE Announced(r, sid)'
  <2>1. CASE r # s
    BY <1>3, <1>9, <1>10, <2>1 DEF Announced, NewAt
  <2>2. CASE r = s /\ view[s][sid] = "none"
    <3>1. PICK k \in Nat : NewAt(s, k, sid)
      BY <1>10, <2>2 DEF Announced
    <3>2. CASE k = 1
      <4>1. f = Msg("NewConnection", sid)
        BY <1>1, <1>5, <3>1, <3>2 DEF NewAt
      <4> QED BY <1>9, <2>2, <4>1 DEF Announced
    <3>3. CASE k # 1
      <4>1. PICK i \in Nat : k = i + 1
        BY <1>7, <1>8, <3>1
      <4>2. i # 0
        BY <3>3, <4>1
      <4>3. NewAt(s, i, sid)'
        BY <1>6, <3>1, <4>1, <4>2
      <4> QED BY <2>2, <4>3 DEF Announced
    <3> QED BY <3>2, <3>3
  <2>3. CASE r = s /\ view[s][sid] # "none"
    BY <1>9, <2>3 DEF Announced
  <2> QED BY <2>1, <2>2, <2>3
<1>11. ASSUME NEW r \in Session, NEW sid \in Sid, EndComes(r, sid) PROVE EndComes(r, sid)'
  <2>1. CASE r # s
    BY <1>3, <1>9, <1>11, <2>1 DEF EndComes, NewAt, CloseAt
  <2>2. CASE r = s
    <3>1. ASSUME NEW i \in Nat, NewAt(s, i, sid)' PROVE \E j \in Nat : i < j /\ CloseAt(s, j, sid)'
      <4>1. PICK k \in Nat : k = i + 1
        OBVIOUS
      <4>2. PICK l \in Nat : k < l /\ CloseAt(s, l, sid)
        BY <1>6, <1>11, <2>2, <3>1, <4>1 DEF EndComes
      <4>3. PICK j \in Nat : l = j + 1
        BY <1>7, <1>8, <4>2
      <4>4. i < j /\ j # 0
        BY <4>1, <4>2, <4>3
      <4> QED BY <1>6, <4>2, <4>3, <4>4
    <3>2. ASSUME view'[s][sid] = "open" PROVE \E j \in Nat : CloseAt(s, j, sid)'
      <4>1. PICK l \in Nat : CloseAt(s, l, sid) /\ l # 1
        <5>1. CASE f = Msg("NewConnection", sid)
          <6>1. NewAt(s, 1, sid)
            BY <1>1, <1>5, <5>1 DEF NewAt
          <6> QED BY <1>11, <2>2, <6>1 DEF EndComes
        <5>2. CASE f # Msg("NewConnection", sid)
          <6>1. f # Msg("StreamClose", sid) /\ view[s][sid] = "open"
            BY <1>9, <3>2, <5>2
          <6>2. PICK l \in Nat : CloseAt(s, l, sid)
            BY <1>11, <2>2, <6>1 DEF EndComes
          <6>3. l # 1
            BY <1>1, <1>5, <6>1, <6>2 DEF CloseAt
          <6> QED BY <6>2, <6>3
        <5> QED BY <5>1, <5>2
      <4>2. PICK j \in Nat : l = j + 1
        BY <1>7, <1>8, <4>1
      <4>3. j # 0
        BY <4>1, <4>2
      <4> QED BY <1>6, <4>1, <4>2, <4>3
    <3> QED BY <2>2, <3>1, <3>2 DEF EndComes
  <2> QED BY <2>1, <2>2
<1>12. FrameIds'
  <2> SUFFICES ASSUME NEW r \in Session, NEW i \in DOMAIN chan'[r],
                      chan'[r][i].type \in StreamFrames
               PROVE  chan'[r][i].id \in Sid
    BY DEF FrameIds
  <2>1. CASE r # s
    BY <1>3, <2>1 DEF FrameIds
  <2>2. CASE r = s
    <3>1. PICK k \in DOMAIN q : chan'[s][i] = q[k]
      BY <1>3, <1>5, <2>2
    <3> QED BY <1>1, <2>2, <3>1 DEF FrameIds
  <2> QED BY <2>1, <2>2
<1>13. DataAnnounced'
  <2> SUFFICES ASSUME NEW r \in Session, NEW sid \in Sid, NEW i \in Nat, DataAt(r, i, sid)',
                      view'[r][sid] = "none"
               PROVE  \E j \in Nat : j < i /\ NewAt(r, j, sid)'
    BY DEF DataAnnounced
  <2>0. view[r][sid] = "none"
    BY <1>9
  <2>1. CASE r # s
    BY <1>3, <2>0, <2>1 DEF DataAnnounced, NewAt, DataAt
  <2>2. CASE r = s
    <3>1. PICK k \in Nat : k = i + 1
      OBVIOUS
    <3>2. PICK l \in Nat : l < k /\ NewAt(s, l, sid)
      BY <1>6, <2>0, <2>2, <3>1 DEF DataAnnounced
    <3>3. l # 1
      BY <1>1, <1>5, <1>9, <2>2, <3>2 DEF NewAt
    <3>4. PICK j \in Nat : l = j + 1
      BY <1>7, <1>8, <3>2
    <3>5. j < i /\ j # 0
      BY <3>1, <3>2, <3>3, <3>4
    <3> QED BY <1>6, <2>2, <3>2, <3>4, <3>5
  <2> QED BY <2>1, <2>2
<1> QED BY <1>10, <1>11, <1>12, <1>13 DEF Flows

(* The writer returns, or is aborted.                                       *)
LEMMA EmptyFlows ==
    ASSUME TypeOK, FrameIds, DataAnnounced, NEW s \in Session, UNCHANGED view,
           chan' = [chan EXCEPT ![s] = <<>>], chan_open' = [chan_open EXCEPT ![s] = FALSE]
    PROVE  Flows
<1>1. /\ chan'[s] = <<>> /\ ~chan_open'[s]
      /\ \A r \in Session : r # s => chan'[r] = chan[r]
  BY DEF TypeOK
<1>2. FrameIds'
  BY <1>1 DEF FrameIds
<1>3. DataAnnounced'
  <2> SUFFICES ASSUME NEW r \in Session, NEW sid \in Sid, NEW i \in Nat, DataAt(r, i, sid)',
                      view'[r][sid] = "none"
               PROVE  \E j \in Nat : j < i /\ NewAt(r, j, sid)'
    BY DEF DataAnnounced
  <2>1. r # s
    BY <1>1 DEF DataAt
  <2> QED BY <1>1, <2>1 DEF DataAnnounced, NewAt, DataAt
<1>4. ASSUME NEW r \in Session, NEW sid \in Sid, r # s
      PROVE  /\ Announced(r, sid) => Announced(r, sid)'
             /\ EndComes(r, sid) => EndComes(r, sid)'
  BY <1>1, <1>4 DEF Announced, EndComes, NewAt, CloseAt
<1> QED BY <1>1, <1>2, <1>3, <1>4 DEF Flows

-----------------------------------------------------------------------------
(* What a step does to the tasks.  A TCP task gets no further than it was,  *)
(* or not far enough to matter.                                             *)
TcpSteady(sid) ==
    conn'[sid].kind = "tcp" =>
        \/ conn'[sid].pc \notin ToldPc \cup EndedPc
        \/ /\ IsTcp(sid) /\ conn'[sid].sess = conn[sid].sess
           /\ conn'[sid].pc \in ToldPc => conn[sid].pc \in ToldPc
           /\ conn'[sid].pc \in EndedPc => conn[sid].pc \in EndedPc

(* No UDP task of the session announces or takes up data. *)
UdpSteady(s) ==
    /\ udp_peers'[s] \subseteq udp_peers[s]
    /\ \A t \in TunnelId :
          \/ udp_task'[s][t] = udp_task[s][t]
          \/ udp_task[s][t].pc # "announce" /\ udp_task'[s][t].pc # "data"

(* A session that is idle still is as it was. *)
IdleSteady ==
    \A s \in Session : sess'[s] = "idle" =>
        /\ sess[s] = "idle" /\ udp_peers'[s] \subseteq udp_peers[s]
        /\ \A t \in TunnelId :
              tcp_task'[s][t] = tcp_task[s][t] /\ udp_task'[s][t] = udp_task[s][t]
        /\ \A sid \in Sid : conn'[sid].kind # "none" /\ conn'[sid].sess = s =>
              conn[sid].kind # "none" /\ conn[sid].sess = s

(* An idle session still has no tasks. *)
LEMMA FreshKept ==
    ASSUME FreshSessions, IdleSteady
    PROVE  FreshSessions'
<1> SUFFICES ASSUME NEW s \in Session, sess'[s] = "idle"
             PROVE  /\ \A t \in TunnelId : tcp_task'[s][t] = "none" /\ udp_task'[s][t].pc = "none"
                    /\ \A sid \in Sid : conn'[sid].kind # "none" => conn'[sid].sess # s
                    /\ udp_peers'[s] = {}
  BY DEF FreshSessions
<1> QED
  BY DEF FreshSessions, IdleSteady

(* The channel opens for a session without tasks only. *)
OpensFresh == \A s \in Session : chan_open'[s] => chan_open[s] \/ sess[s] = "idle"

(* A TCP task that is steady is told of as before. *)
LEMMA TcpKept ==
    ASSUME KInv, Flows, OpensFresh, NEW sid \in Sid, TcpSteady(sid)
    PROVE  TcpTold(sid)'
<1> SUFFICES ASSUME conn'[sid].kind = "tcp", chan_open'[conn'[sid].sess],
                    conn'[sid].pc \in ToldPc \cup EndedPc
             PROVE  /\ conn'[sid].pc \in ToldPc => Announced(conn[sid].sess, sid)'
                    /\ conn'[sid].pc \in EndedPc => EndComes(conn[sid].sess, sid)'
  BY DEF TcpTold, IsTcp
<1>1. PICK s : s = conn[sid].sess
  OBVIOUS
<1>2. /\ IsTcp(sid) /\ conn'[sid].sess = s
      /\ conn'[sid].pc \in ToldPc => conn[sid].pc \in ToldPc
      /\ conn'[sid].pc \in EndedPc => conn[sid].pc \in EndedPc
  BY <1>1 DEF TcpSteady
<1>3. s \in Session /\ sess[s] # "idle"
  BY <1>1, <1>2 DEF KInv, JInv, IInv, Told, StreamIds, FreshSessions, IsTcp
<1>4. chan_open'[s] /\ chan_open[s]
  BY <1>2, <1>3 DEF OpensFresh
<1>5. /\ conn'[sid].pc \in ToldPc => Announced(s, sid)
      /\ conn'[sid].pc \in EndedPc => EndComes(s, sid)
  BY <1>1, <1>2, <1>4 DEF KInv, Told, TcpTold
<1>6. /\ conn'[sid].pc \in ToldPc => Announced(s, sid)'
      /\ conn'[sid].pc \in EndedPc => EndComes(s, sid)'
  BY <1>2, <1>3, <1>4, <1>5 DEF Flows
<1>7. ASSUME NEW r, r = conn'[sid].sess PROVE r = s
  BY <1>2, <1>7
<1> QED
  BY <1>2, <1>6

(* The same of the UDP tasks of a session. *)
LEMMA UdpKept ==
    ASSUME KInv, Flows, OpensFresh, NEW s \in Session, UdpSteady(s)
    PROVE  UdpTold(s)'
<1> SUFFICES ASSUME chan_open'[s]
             PROVE  /\ \A sid \in udp_peers'[s] : Announced(s, sid)' \/ AboutTo(s, sid)'
                    /\ \A t \in TunnelId : UdpAt(s, t, "data")' =>
                          Announced(s, udp_task[s][t].sid)'
  BY DEF UdpTold
<1>1. CASE chan_open[s]
  <2>1. ASSUME NEW sid \in udp_peers'[s] PROVE Announced(s, sid)' \/ AboutTo(s, sid)'
    <3>1. sid \in udp_peers[s] /\ sid \in Sid
      BY <2>1 DEF UdpSteady, KInv, JInv, IInv, TypeOK
    <3>2. Announced(s, sid) \/ AboutTo(s, sid)
      BY <1>1, <3>1 DEF KInv, Told, UdpTold
    <3>3. AboutTo(s, sid) => AboutTo(s, sid)'
      BY DEF AboutTo, UdpAt, UdpSteady
    <3> QED BY <3>1, <3>2, <3>3 DEF Flows
  <2>2. ASSUME NEW t \in TunnelId, UdpAt(s, t, "data")' PROVE Announced(s, udp_task[s][t].sid)'
    <3>1. PICK sid : sid = udp_task[s][t].sid
      OBVIOUS
    <3>2. udp_task'[s][t] = udp_task[s][t] /\ udp_task[s][t].pc = "data"
      BY <2>2 DEF UdpSteady, UdpAt
    <3>3. Announced(s, sid) /\ udp_task'[s][t].sid = sid
      BY <1>1, <3>1, <3>2 DEF KInv, Told, UdpTold, UdpAt
    <3>4. sid \in Sid
      BY <3>1, <3>2 DEF KInv, JInv, IInv, Targets
    <3>5. Announced(s, sid)'
      BY <3>3, <3>4 DEF Flows
    <3> QED BY <3>3, <3>5
  <2> QED BY <2>1, <2>2
<1>2. CASE sess[s] = "idle"
  <2>1. udp_peers'[s] = {}
    BY <1>2 DEF KInv, Told, FreshSessions, UdpSteady
  <2>2. ASSUME NEW t \in TunnelId PROVE ~UdpAt(s, t, "data")'
    BY <1>2, <2>2 DEF KInv, Told, FreshSessions, UdpSteady, UdpAt
  <2> QED BY <2>1, <2>2
<1> QED BY <1>1, <1>2 DEF OpensFresh

(* Every step is steady but for the task it announces or ends.              *)
LEMMA ToldKeeps ==
    ASSUME KInv, Flows, OpensFresh, IdleSteady,
           \A sid \in Sid : TcpSteady(sid) \/ TcpTold(sid)',
           \A s \in Session : UdpSteady(s) \/ UdpTold(s)'
    PROVE  Told'
<1>1. FreshSessions'
  BY FreshKept DEF KInv, Told
<1>2. \A sid \in Sid : TcpTold(sid)'
  BY TcpKept
<1>3. \A s \in Session : UdpTold(s)'
  BY UdpKept
<1>4. FrameIds' /\ DataAnnounced'
  BY DEF Flows
<1> QED BY <1>1, <1>2, <1>3, <1>4 DEF Told

-----------------------------------------------------------------------------
(* Steps of the frame loop, the writer and the manager.                     *)
(* A step that leaves the tasks alone. *)
LEMMA StillTold ==
    ASSUME KInv, Flows, UNCHANGED <<sess, tcp_task, udp_task, conn>>,
           \A s \in Session : udp_peers'[s] \subseteq udp_peers[s],
           \A s \in Session : chan_open'[s] => chan_open[s]
    PROVE  Told'
<1>1. IdleSteady
  BY DEF IdleSteady
<1>2. \A sid \in Sid : TcpSteady(sid)
  BY DEF TcpSteady, IsTcp
<1>3. \A s \in Session : UdpSteady(s)
  BY DEF UdpSteady
<1> QED BY <1>1, <1>2, <1>3, ToldKeeps DEF OpensFresh

(* The same of one that sends nothing. *)
LEMMA QuietTold ==
    ASSUME KInv, UNCHANGED <<sess, tcp_task, udp_task, conn, wire>>,
           \A s \in Session : udp_peers'[s] \subseteq udp_peers[s]
    PROVE  Told'
<1>1. Flows
  BY QuietFlows DEF KInv, Told, wire
<1> QED BY <1>1, StillTold DEF wire

(* A frame that is neither Data nor NewConnection. *)
LEMMA PlainSend ==
    ASSUME KInv, NEW s \in Session, NEW id,
           NEW type \in {"TunnelOpened", "CloseTunnel", "StreamClose"},
           id \in Nat, type = "StreamClose" => id \in Sid, Send(s, Msg(type, id))
    PROVE  Flows /\ UNCHANGED <<chan_open, view>>
<1>1. PICK f : f = Msg(type, id)
  OBVIOUS
<1>2. f \in Frame /\ Send(s, f)
  BY <1>1, FrameType
<1>3. /\ f.type \in StreamFrames => f.id \in Sid
      /\ f.type # "Data" /\ \A sid : f # Msg("NewConnection", sid)
  BY <1>1, Messages DEF StreamFrames
<1> QED BY <1>2, <1>3, SendFlows DEF KInv, JInv, IInv, Told

(* The same of one that sends such a frame. *)
LEMMA SendTold ==
    ASSUME KInv, NEW s \in Session, NEW id,
           NEW type \in {"TunnelOpened", "CloseTunnel", "StreamClose"},
           id \in Nat, type = "StreamClose" => id \in Sid, Send(s, Msg(type, id)),
           UNCHANGED <<sess, tcp_task, udp_task, conn, udp_peers>>
    PROVE  Told'
BY PlainSend, StillTold

(* Frames that change no task and send nothing. *)
LEMMA QuietLoopTold ==
    ASSUME KInv, NEW s \in Session,
           \/ \E t \in TunnelId, r \in Request : HandleOpenTunnel(s, t, r)
           \/ \E t \in TunnelId : HandleCloseTunnel(s, t)
           \/ \E sid \in Sid : HandleData(s, sid)
           \/ BindTcpFails(s) \/ BindUdpFails(s) \/ InsertTunnel(s) \/ Purge(s)
           \/ DataForwarded(s) \/ DataRefused(s) \/ DataUnmap(s)
    PROVE  Told'
<1>1. /\ UNCHANGED <<sess, tcp_task, udp_task, conn, wire>>
      /\ udp_peers' = udp_peers \/ \E X : udp_peers' = [udp_peers EXCEPT ![s] = @ \ X]
  BY DEF HandleOpenTunnel, HandleCloseTunnel, HandleData, BindTcpFails, BindUdpFails,
         InsertTunnel, Purge, DataForwarded, DataRefused, DataUnmap, Forget, Goto,
         tasks, udp, state, loop
<1>2. udp_peers \in [Session -> SUBSET Sid]
  BY DEF KInv, JInv, IInv, TypeOK
<1>3. \A x \in Session : udp_peers'[x] \subseteq udp_peers[x]
  BY <1>1, <1>2
<1> QED BY <1>1, <1>3, QuietTold

(* TunnelOpened, CloseTunnel and StreamClose of the frame loop. *)
LEMMA LoopSendTold ==
    ASSUME KInv, NEW s \in Session,
           \/ Reject(s) \/ TunnelOpened(s) \/ DataClose(s)
           \/ \E sid \in Sid : CloseSend(s, sid)
    PROVE  Told'
<1>1. hc[s].tid \in Nat /\ hc[s].sids \subseteq Sid /\ Sid \subseteq Nat
  BY LoopFields, SidsAreNumbers DEF KInv, JInv, IInv
<1>2. UNCHANGED <<sess, tcp_task, udp_task, conn, udp_peers>>
  BY DEF Reject, TunnelOpened, DataClose, CloseSend, tasks, udp, state
<1>3. CASE Reject(s)
  BY <1>1, <1>2, <1>3, SendTold DEF Reject
<1>4. CASE TunnelOpened(s)
  BY <1>1, <1>2, <1>4, SendTold DEF TunnelOpened
<1>5. CASE DataClose(s)
  BY <1>1, <1>2, <1>5, SendTold DEF DataClose
<1>6. CASE \E sid \in Sid : CloseSend(s, sid)
  BY <1>1, <1>2, <1>6, SendTold DEF CloseSend
<1> QED BY <1>3, <1>4, <1>5, <1>6

(* The client closes a stream: what it has been told stays told. *)
LEMMA HandleStreamCloseTold ==
    ASSUME KInv, NEW s \in Session, NEW sid \in Sid, HandleStreamClose(s, sid)
    PROVE  Told'
<1>1. /\ UNCHANGED <<sess, tcp_task, udp_task, conn, chan, chan_open>>
      /\ udp_peers' = [udp_peers EXCEPT ![s] = @ \ {sid}]
      /\ view[s][sid] # "none" /\ view' = [view EXCEPT ![s][sid] = "closed"]
  BY DEF HandleStreamClose, tasks, udp, Forget
<1>2. \A r \in Session, x \in Sid :
         /\ view[r][x] # "none" <=> view'[r][x] # "none"
         /\ view'[r][x] = "open" => view[r][x] = "open"
  BY <1>1 DEF KInv, JInv, IInv, TypeOK
<1>3. \A r \in Session, x \in Sid :
         /\ Announced(r, x) => Announced(r, x)'
         /\ EndComes(r, x) => EndComes(r, x)'
  BY <1>1, <1>2 DEF Announced, EndComes, NewAt, CloseAt
<1>4. FrameIds' /\ DataAnnounced'
  BY <1>1, <1>2 DEF KInv, Told, FrameIds, DataAnnounced, DataAt, NewAt
<1>5. Flows
  BY <1>3, <1>4 DEF Flows
<1>6. \A x \in Session : udp_peers'[x] \subseteq udp_peers[x]
  BY <1>1 DEF KInv, JInv, IInv, TypeOK
<1> QED BY <1>1, <1>5, <1>6, StillTold

(* The writer sends a frame on, or returns. *)
LEMMA WriterTold ==
    ASSUME KInv, NEW s \in Session, Deliver(s) \/ WriterFails(s)
    PROVE  Told'
<1>1. UNCHANGED <<sess, tcp_task, udp_task, conn, udp_peers>>
  BY DEF Deliver, WriterFails, loop, tasks, udp, state
<1>2. Flows
  BY DeliverFlows, EmptyFlows DEF WriterFails, KInv, JInv, IInv, Told
<1>3. \A x \in Session : chan_open'[x] => chan_open[x]
  BY DEF Deliver, WriterFails, KInv, JInv, IInv, TypeOK
<1> QED BY <1>1, <1>2, <1>3, StillTold

(* The connection begins: nothing of it exists yet. *)
LEMMA ConnectTold == ASSUME KInv, NEW s \in Session, Connect(s) PROVE Told'
<1>1. /\ UNCHANGED <<tcp_task, udp_task, conn, udp_peers, chan, view>>
      /\ sess[s] = "idle"
      /\ sess' = [sess EXCEPT ![s] = "up"] /\ chan_open' = [chan_open EXCEPT ![s] = TRUE]
  BY DEF Connect, tasks, udp, state
<1>2. Flows
  BY <1>1, QuietFlows DEF KInv, Told
<1>3. IdleSteady /\ OpensFresh
  BY <1>1 DEF IdleSteady, OpensFresh, KInv, JInv, IInv, TypeOK
<1>4. \A sid \in Sid : TcpSteady(sid)
  BY <1>1 DEF TcpSteady, IsTcp
<1>5. \A x \in Session : UdpSteady(x)
  BY <1>1 DEF UdpSteady
<1> QED BY <1>2, <1>3, <1>4, <1>5, ToldKeeps

(* It ends: its channel is gone. *)
LEMMA SessionEndTold == ASSUME KInv, NEW s \in Session, SessionEnd(s) PROVE Told'
<1>1. /\ UNCHANGED <<tcp_task, udp_task, conn, udp_peers, view>>
      /\ sess' = [sess EXCEPT ![s] = "down"] /\ chan_open' = [chan_open EXCEPT ![s] = FALSE]
      /\ chan' = [chan EXCEPT ![s] = <<>>]
  BY DEF SessionEnd, udp
<1>2. Flows
  BY <1>1, EmptyFlows DEF KInv, JInv, IInv, Told
<1>3. IdleSteady /\ OpensFresh
  BY <1>1 DEF IdleSteady, OpensFresh, KInv, JInv, IInv, TypeOK
<1>4. \A sid \in Sid : TcpSteady(sid)
  BY <1>1 DEF TcpSteady, IsTcp
<1>5. \A x \in Session : UdpSteady(x)
  BY <1>1 DEF UdpSteady
<1> QED BY <1>2, <1>3, <1>4, <1>5, ToldKeeps

(* A listener, or the UDP task, is spawned or the listener shut down. *)
LEMMA SpawnTold ==
    ASSUME KInv, NEW s \in Session,
           BindTcp(s) \/ BindUdp(s) \/ \E t \in TunnelId : TcpShutdown(s, t)
    PROVE  Told'
<1>0. TypeOK /\ FreshSessions
  BY DEF KInv, JInv, IInv, Told
<1>1. /\ UNCHANGED <<sess, conn, udp_peers, wire>>
      /\ sess[s] # "idle"
  BY <1>0 DEF BindTcp, BindUdp, TcpShutdown, At, loop, state, FreshSessions
<1>2. Flows
  BY <1>1, QuietFlows DEF KInv, Told, wire
<1>3. \A x \in Session : x # s => tcp_task'[x] = tcp_task[x] /\ udp_task'[x] = udp_task[x]
  BY <1>0 DEF BindTcp, BindUdp, TcpShutdown, udp, TypeOK
<1>4. \A t \in TunnelId : \/ udp_task'[s][t] = udp_task[s][t]
                          \/ udp_task[s][t].pc # "announce" /\ udp_task'[s][t].pc # "data"
  <2>1. CASE BindTcp(s) \/ \E t \in TunnelId : TcpShutdown(s, t)
    BY <2>1 DEF BindTcp, TcpShutdown, udp
  <2>2. CASE BindUdp(s)
    <3>1. PICK t : t = hc[s].tid
      OBVIOUS
    <3>2. hc[s].pc = "bind_udp"
      BY <2>2 DEF BindUdp, At
    <3>3. t \in TunnelId
      BY <3>1, <3>2 DEF KInv, JInv, IInv, Targets, OpeningPc
    <3>4. udp_task[s][t].pc = "none"
      BY <3>1, <3>2, <3>3 DEF KInv, JInv, Owners, BindsOnce, Binding
    <3>5. UdpGoto(s, t, "recv")
      BY <2>2, <3>1 DEF BindUdp, UdpGoto
    <3>6. /\ udp_task'[s][t].pc = "recv"
          /\ \A y \in TunnelId : y # t => udp_task'[s][y] = udp_task[s][y]
      BY <1>0, <3>3, <3>5, UdpGotoMoves
    <3> QED BY <3>4, <3>6
  <2> QED BY <2>1, <2>2
<1>5. IdleSteady
  BY <1>1, <1>3 DEF IdleSteady
<1>6. OpensFresh
  BY <1>1 DEF OpensFresh, wire
<1>7. \A sid \in Sid : TcpSteady(sid)
  BY <1>1 DEF TcpSteady, IsTcp
<1>8. \A x \in Session : UdpSteady(x)
  BY <1>1, <1>3, <1>4 DEF UdpSteady
<1> QED BY <1>2, <1>5, <1>6, <1>7, <1>8, ToldKeeps

-----------------------------------------------------------------------------
(* The task of a TCP player.                                                *)
(* One TCP task moves on. *)
LEMMA ConnTold ==
    ASSUME KInv, Flows, NEW sid \in Sid, SameIds,
           \A x \in Sid : x # sid => conn'[x] = conn[x],
           UNCHANGED <<sess, tcp_task, udp_task, udp_peers, chan_open>>,
           TcpSteady(sid) \/ TcpTold(sid)'
    PROVE  Told'
<1>1. IdleSteady /\ OpensFresh
  BY DEF IdleSteady, OpensFresh, SameIds
<1>2. \A x \in Sid : x # sid => TcpSteady(x)
  BY DEF TcpSteady, IsTcp
<1>3. \A x \in Session : UdpSteady(x)
  BY DEF UdpSteady
<1> QED BY <1>1, <1>2, <1>3, ToldKeeps

(* Steps before the announcement, between it and the StreamClose, after it. *)
LEMMA ConnMovesTold ==
    ASSUME KInv, NEW sid \in Sid,
           MapStream(sid) \/ LookupDb(sid) \/ Register(sid) \/ PlayerLeaves(sid)
              \/ SenderDropped(sid) \/ Killed(sid) \/ Unmap(sid)
    PROVE  Told'
<1>0. TypeOK /\ JInv
  BY DEF KInv, JInv, IInv
<1>1. UNCHANGED <<sess, tcp_task, udp_task, udp_peers, wire>> /\ IsTcp(sid)
  BY DEF MapStream, LookupDb, Register, PlayerLeaves, SenderDropped, Killed, Unmap,
         loop, state, tasks, udp, ConnAt
<1>2. Flows
  BY <1>1, QuietFlows DEF KInv, Told, wire
<1>3. /\ SameIds /\ \A x \in Sid : x # sid => conn'[x] = conn[x]
      /\ \/ conn'[sid].pc = "mapped"
         \/ conn[sid].pc \in ToldPc /\ conn'[sid].pc \in {"register", "run", "closing"}
         \/ conn[sid].pc = "unmap" /\ conn'[sid].pc = "done"
  <2>1. CASE LookupDb(sid)
    <3>1. SameIds
      BY <1>0, <2>1, LookupKeeps
    <3>2. conn \in [Sid -> ConnType] /\ conn[sid] \in ConnType
      BY <1>0 DEF TypeOK
    <3>3. PICK d : conn' = [conn EXCEPT ![sid] = [[conn[sid] EXCEPT !.pc = "register"] EXCEPT !.db = d]]
      BY <2>1 DEF LookupDb
    <3>4. [[conn[sid] EXCEPT !.pc = "register"] EXCEPT !.db = d].pc = "register"
      BY <3>2 DEF ConnType
    <3>5. conn'[sid].pc = "register"
      BY <3>2, <3>3, <3>4
    <3>6. \A x \in Sid : x # sid => conn'[x] = conn[x]
      BY <3>2, <3>3
    <3> QED BY <2>1, <3>1, <3>5, <3>6 DEF LookupDb, ConnAt, ToldPc
  <2>2. CASE MapStream(sid)
    BY <1>0, <2>2, GotoAlone DEF MapStream
  <2>3. CASE Unmap(sid)
    BY <1>0, <2>3, GotoAlone DEF Unmap, ConnAt
  <2>4. CASE Register(sid)
    BY <1>0, <2>4, GotoAlone DEF Register, ConnAt, ToldPc
  <2>5. CASE PlayerLeaves(sid) \/ SenderDropped(sid) \/ Killed(sid)
    BY <1>0, <2>5, GotoAlone DEF PlayerLeaves, SenderDropped, Killed, ConnAt, ToldPc
  <2> QED BY <2>1, <2>2, <2>3, <2>4, <2>5
<1>4. TcpSteady(sid)
  BY <1>1, <1>3 DEF TcpSteady, SameIds, ToldPc, EndedPc
<1> QED BY <1>1, <1>2, <1>3, <1>4, ConnTold DEF wire

(* NewConnection is on the way once the task has announced its player. *)
LEMMA AnnounceTold == ASSUME KInv, NEW sid \in Sid, Announce(sid) PROVE Told'
<1>1. PICK s : s = conn[sid].sess
  OBVIOUS
<1>2. IsTcp(sid) /\ conn[sid].pc = "mapped" /\ s \in Session
  BY <1>1 DEF Announce, ConnAt, IsTcp, KInv, JInv, IInv, StreamIds
<1>3. PICK f : f = Msg("NewConnection", sid)
  OBVIOUS
<1>4. f \in Frame /\ Send(s, f) /\ f.type = "NewConnection" /\ f.id = sid
  BY <1>1, <1>3, FrameType, SidsAreNumbers, Messages DEF Announce
<1>5. \A x \in Sid : f = Msg("NewConnection", x) => ~(IsTcp(x) /\ conn[x].pc \in EndedPc)
  BY <1>2, <1>3, Messages DEF EndedPc
<1>6. /\ Flows /\ UNCHANGED chan_open
      /\ chan_open[s] => Announced(s, sid)'
  BY <1>2, <1>3, <1>4, <1>5, SendFlows DEF KInv, JInv, IInv, Told
<1>7. SameIds /\ conn'[sid].pc = "announced" /\ \A x \in Sid : x # sid => conn'[x] = conn[x]
  BY GotoAlone DEF Announce, KInv
<1>8. conn'[sid].sess = s
  BY <1>1, <1>7 DEF SameIds
<1>9. TcpTold(sid)'
  BY <1>6, <1>7, <1>8 DEF TcpTold, EndedPc
<1>10. UNCHANGED <<sess, tcp_task, udp_task, udp_peers>>
  BY DEF Announce, loop, state, tasks, udp
<1> QED BY <1>6, <1>7, <1>9, <1>10, ConnTold

(* StreamClose is on the way once the task has ended. *)
LEMMA SendStreamCloseTold == ASSUME KInv, NEW sid \in Sid, SendStreamClose(sid) PROVE Told'
<1>1. PICK s : s = conn[sid].sess
  OBVIOUS
<1>2. IsTcp(sid) /\ s \in Session
  BY <1>1 DEF SendStreamClose, ConnAt, IsTcp, KInv, JInv, IInv, StreamIds
<1>3. PICK f : f = Msg("StreamClose", sid)
  OBVIOUS
<1>4. f \in Frame /\ Send(s, f) /\ f.type = "StreamClose" /\ f.id = sid
  BY <1>1, <1>3, FrameType, SidsAreNumbers, Messages DEF SendStreamClose
<1>5. \A x \in Sid : f # Msg("NewConnection", x)
  BY <1>3, Messages
<1>6. /\ Flows /\ UNCHANGED chan_open
      /\ chan_open[s] => EndComes(s, sid)'
  BY <1>2, <1>3, <1>4, <1>5, SendFlows DEF KInv, JInv, IInv, Told
<1>7. SameIds /\ conn'[sid].pc = "unmap" /\ \A x \in Sid : x # sid => conn'[x] = conn[x]
  BY GotoAlone DEF SendStreamClose, KInv
<1>8. conn'[sid].sess = s
  BY <1>1, <1>7 DEF SameIds
<1>9. TcpTold(sid)'
  BY <1>6, <1>7, <1>8 DEF TcpTold, ToldPc
<1>10. UNCHANGED <<sess, tcp_task, udp_task, udp_peers>>
  BY DEF SendStreamClose, loop, state, tasks, udp
<1> QED BY <1>6, <1>7, <1>9, <1>10, ConnTold

(* Data is sent by a task that has announced its player. *)
LEMMA DataSend ==
    ASSUME KInv, NEW s \in Session, NEW sid \in Sid, Send(s, Msg("Data", sid)),
           chan_open[s] => Announced(s, sid)
    PROVE  Flows /\ UNCHANGED <<chan_open, view>>
<1>1. PICK f : f = Msg("Data", sid)
  OBVIOUS
<1>2. f \in Frame /\ Send(s, f) /\ f.type = "Data" /\ f.id = sid
  BY <1>1, FrameType, SidsAreNumbers, Messages
<1>3. \A x \in Sid : f # Msg("NewConnection", x)
  BY <1>1, Messages
<1> QED BY <1>2, <1>3, SendFlows DEF KInv, JInv, IInv, Told

(* read_task forwards, or is caught forwarding after its abort. *)
LEMMA PlayerDataTold ==
    ASSUME KInv, NEW sid \in Sid, PlayerSends(sid) \/ LateData(sid)
    PROVE  Told'
<1>1. PICK s : s = conn[sid].sess
  OBVIOUS
<1>2. /\ IsTcp(sid) /\ conn[sid].pc \in ToldPc /\ Send(s, Msg("Data", sid))
      /\ UNCHANGED <<sess, tcp_task, udp_task, udp_peers, conn>>
  BY <1>1 DEF PlayerSends, LateData, ConnAt, ToldPc, loop, state, tasks, udp
<1>3. s \in Session
  BY <1>1, <1>2 DEF IsTcp, KInv, JInv, IInv, StreamIds
<1>4. chan_open[s] => Announced(s, sid)
  BY <1>1, <1>2 DEF KInv, Told, TcpTold
<1>5. Flows /\ UNCHANGED chan_open
  BY <1>2, <1>3, <1>4, DataSend
<1> QED BY <1>2, <1>5, StillTold

(* A new player has not been announced yet. *)
LEMMA AcceptTold ==
    ASSUME KInv, NEW s \in Session, NEW t \in TunnelId, Accept(s, t)
    PROVE  Told'
<1>1. PICK n : n = next_sid
  OBVIOUS
<1>2. IInv /\ n \in Sid /\ conn' = [conn EXCEPT ![n] = NewConn("tcp", "accepted", s, t)]
  BY <1>1 DEF Accept, KInv, JInv
<1>3. conn'[n].sess = s /\ \A x \in Sid : x # n => conn'[x] = conn[x]
  BY <1>1, <1>2, NewIdKept
<1>4. conn'[n].pc = "accepted"
  BY <1>2 DEF NewConn, IInv, TypeOK
<1>5. sess[s] # "idle" /\ UNCHANGED <<sess, tcp_task, udp_task, udp_peers, wire>>
  BY DEF Accept, KInv, Told, FreshSessions, loop, state, tasks, udp
<1>6. Flows
  BY <1>5, QuietFlows DEF KInv, Told, wire
<1>7. IdleSteady /\ OpensFresh
  BY <1>3, <1>5 DEF IdleSteady, OpensFresh, wire
<1>8. \A x \in Sid : TcpSteady(x)
  BY <1>3, <1>4 DEF TcpSteady, IsTcp, ToldPc, EndedPc
<1>9. \A x \in Session : UdpSteady(x)
  BY <1>5 DEF UdpSteady
<1> QED BY <1>6, <1>7, <1>8, <1>9, ToldKeeps

-----------------------------------------------------------------------------
(* The UDP task of a tunnel.                                                *)
(* One UDP task moves on. *)
LEMMA UdpTaskTold ==
    ASSUME KInv, Flows, NEW s \in Session, NEW t \in TunnelId,
           udp_task[s][t].pc # "none", UNCHANGED <<sess, tcp_task, chan_open>>,
           \A x \in Session, y \in TunnelId : x # s \/ y # t => udp_task'[x][y] = udp_task[x][y],
           \A x \in Session : x # s => udp_peers'[x] = udp_peers[x],
           \A sid \in Sid :
              \/ conn'[sid].kind = conn[sid].kind /\ conn'[sid].sess = conn[sid].sess
                    /\ conn'[sid].pc = conn[sid].pc
              \/ conn'[sid].kind = "udp" /\ conn'[sid].sess = s,
           \/ UdpTold(s)'
           \/ /\ udp_peers'[s] \subseteq udp_peers[s]
              /\ udp_task[s][t].pc # "announce" /\ udp_task'[s][t].pc # "data"
    PROVE  Told'
<1>1. sess[s] # "idle"
  BY DEF KInv, Told, FreshSessions
<1>2. IdleSteady /\ OpensFresh
  BY <1>1 DEF IdleSteady, OpensFresh
<1>3. \A sid \in Sid : TcpSteady(sid)
  BY DEF TcpSteady, IsTcp
<1>4. \A x \in Session : UdpSteady(x) \/ UdpTold(x)'
  BY DEF UdpSteady
<1> QED BY <1>2, <1>3, <1>4, ToldKeeps

(* Steps of the task before it maps and after it has forwarded. *)
LEMMA UdpQuietTold ==
    ASSUME KInv, NEW s \in Session, NEW t \in TunnelId,
           UdpRegister(s, t) \/ UdpExpireRegistry(s, t) \/ UdpShutdown(s, t)
              \/ UdpRecvError(s, t) \/ UdpLookupDb(s, t)
    PROVE  Told'
<1>0. TypeOK
  BY DEF KInv, JInv, IInv
<1>1. UNCHANGED <<sess, tcp_task, udp_peers, wire>>
  BY DEF UdpRegister, UdpExpireRegistry, UdpShutdown, UdpRecvError, UdpLookupDb, loop, state
<1>2. Flows
  BY <1>1, QuietFlows DEF KInv, Told, wire
<1>3. PICK pc \in {"map", "expire_close", "end", "failed", "register"} : UdpGoto(s, t, pc)
  BY DEF UdpRegister, UdpExpireRegistry, UdpShutdown, UdpRecvError, UdpLookupDb
<1>4. /\ udp_task'[s][t].pc = pc
      /\ \A x \in Session, y \in TunnelId : x # s \/ y # t => udp_task'[x][y] = udp_task[x][y]
  BY <1>0, <1>3, UdpGotoMoves
<1>5. udp_task[s][t].pc \in {"register", "expire", "recv", "lookup"}
  BY DEF UdpRegister, UdpExpireRegistry, UdpShutdown, UdpRecvError, UdpLookupDb, UdpAt
<1>6. \A sid \in Sid : /\ conn'[sid].kind = conn[sid].kind /\ conn'[sid].sess = conn[sid].sess
                       /\ conn'[sid].pc = conn[sid].pc
  <2>1. CASE UdpLookupDb(s, t)
    <3>1. SameIds
      BY <1>0, <2>1, UdpLookupKeeps
    <3>2. conn \in [Sid -> ConnType]
      BY <1>0 DEF TypeOK
    <3>3. ASSUME NEW c \in ConnType, NEW d PROVE [c EXCEPT !.db = d].pc = c.pc
      BY DEF ConnType
    <3>4. \A x \in Sid : conn'[x].pc = conn[x].pc
      BY <2>1, <3>2, <3>3 DEF UdpLookupDb
    <3> QED BY <3>1, <3>4 DEF SameIds
  <2>2. CASE ~UdpLookupDb(s, t)
    BY <2>2 DEF UdpRegister, UdpExpireRegistry, UdpShutdown, UdpRecvError
  <2> QED BY <2>1, <2>2
<1> QED BY <1>1, <1>2, <1>3, <1>4, <1>5, <1>6, UdpTaskTold DEF wire

(* The cleanup tick. *)
LEMMA UdpExpireTold ==
    ASSUME KInv, NEW s \in Session, NEW t \in TunnelId, NEW p \in Peer, UdpExpire(s, t, p)
    PROVE  Told'
<1>0. TypeOK
  BY DEF KInv, JInv, IInv
<1>1. UNCHANGED <<sess, tcp_task, conn, wire>> /\ udp_task[s][t].pc = "recv"
  BY DEF UdpExpire, loop, UdpAt
<1>2. Flows
  BY <1>1, QuietFlows DEF KInv, Told, wire
<1>3. PICK sid : /\ udp_task' = [udp_task EXCEPT ![s][t] = [pc |-> "expire", sid |-> sid]]
                 /\ udp_peers' = [udp_peers EXCEPT ![s] = @ \ {sid}]
  BY DEF UdpExpire
<1>4. /\ udp_task'[s][t].pc = "expire"
      /\ \A x \in Session, y \in TunnelId : x # s \/ y # t => udp_task'[x][y] = udp_task[x][y]
  BY <1>0, <1>3 DEF TypeOK
<1>5. /\ udp_peers'[s] \subseteq udp_peers[s]
      /\ \A x \in Session : x # s => udp_peers'[x] = udp_peers[x]
  BY <1>0, <1>3 DEF TypeOK
<1> QED BY <1>1, <1>2, <1>4, <1>5, UdpTaskTold DEF wire

(* ... and the StreamClose it sends. *)
LEMMA UdpExpireCloseTold ==
    ASSUME KInv, NEW s \in Session, NEW t \in TunnelId, UdpExpireClose(s, t)
    PROVE  Told'
<1>0. TypeOK
  BY DEF KInv, JInv, IInv
<1>1. UNCHANGED <<sess, tcp_task, conn, udp_peers>> /\ udp_task[s][t].pc = "expire_close"
  BY DEF UdpExpireClose, loop, state, UdpAt
<1>2. PICK sid : sid = udp_task[s][t].sid
  OBVIOUS
<1>3. sid \in Sid /\ sid \in Nat
  BY <1>1, <1>2, SidsAreNumbers DEF KInv, JInv, IInv, Targets
<1>4. Flows /\ UNCHANGED chan_open
  BY <1>2, <1>3, PlainSend DEF UdpExpireClose
<1>5. /\ udp_task'[s][t].pc = "recv"
      /\ \A x \in Session, y \in TunnelId : x # s \/ y # t => udp_task'[x][y] = udp_task[x][y]
  BY <1>0, UdpGotoMoves DEF UdpExpireClose
<1> QED BY <1>1, <1>4, <1>5, UdpTaskTold

(* Data in hand is of a stream the client knows. *)
LEMMA UdpDataTold ==
    ASSUME KInv, NEW s \in Session, NEW t \in TunnelId, UdpData(s, t)
    PROVE  Told'
<1>0. TypeOK
  BY DEF KInv, JInv, IInv
<1>1. UNCHANGED <<sess, tcp_task, conn, udp_peers>> /\ UdpAt(s, t, "data")
  BY DEF UdpData, loop, state
<1>2. PICK sid : sid = udp_task[s][t].sid
  OBVIOUS
<1>3. sid \in Sid
  BY <1>1, <1>2 DEF KInv, JInv, IInv, Targets, UdpAt
<1>4. chan_open[s] => Announced(s, sid)
  BY <1>1, <1>2 DEF KInv, Told, UdpTold
<1>5. Flows /\ UNCHANGED chan_open
  BY <1>2, <1>3, <1>4, DataSend DEF UdpData
<1>6. /\ udp_task'[s][t].pc = "recv"
      /\ \A x \in Session, y \in TunnelId : x # s \/ y # t => udp_task'[x][y] = udp_task[x][y]
  BY <1>0, UdpGotoMoves DEF UdpData
<1> QED BY <1>1, <1>5, <1>6, UdpTaskTold DEF UdpAt

(* A new address gets an id of a UDP player. *)
LEMMA UdpRecvNewTold ==
    ASSUME KInv, NEW s \in Session, NEW t \in TunnelId, NEW p \in Peer, UdpRecvNew(s, t, p)
    PROVE  Told'
<1>0. TypeOK
  BY DEF KInv, JInv, IInv
<1>1. PICK n : n = next_sid
  OBVIOUS
<1>2. /\ UNCHANGED <<sess, tcp_task, udp_peers, wire>> /\ udp_task[s][t].pc = "recv"
      /\ IInv /\ n \in Sid /\ conn' = [conn EXCEPT ![n] = NewConn("udp", "run", s, t)]
      /\ udp_task' = [udp_task EXCEPT ![s][t] = [pc |-> "lookup", sid |-> n]]
  BY <1>1 DEF UdpRecvNew, loop, state, UdpAt, KInv, JInv
<1>3. /\ conn'[n].kind = "udp" /\ conn'[n].sess = s
      /\ \A x \in Sid : x # n => conn'[x] = conn[x]
  BY <1>1, <1>2, NewIdKept
<1>4. Flows
  BY <1>2, QuietFlows DEF KInv, Told, wire
<1>5. /\ udp_task'[s][t].pc = "lookup"
      /\ \A x \in Session, y \in TunnelId : x # s \/ y # t => udp_task'[x][y] = udp_task[x][y]
  BY <1>0, <1>2 DEF TypeOK
<1>6. \A x \in Sid : \/ conn'[x].kind = conn[x].kind /\ conn'[x].sess = conn[x].sess
                           /\ conn'[x].pc = conn[x].pc
                     \/ conn'[x].kind = "udp" /\ conn'[x].sess = s
  BY <1>3
<1> QED BY <1>2, <1>4, <1>5, <1>6, UdpTaskTold DEF wire

(* The stream enters udp_peers just before its task announces it. *)
LEMMA UdpMapTold ==
    ASSUME KInv, NEW s \in Session, NEW t \in TunnelId, UdpMap(s, t)
    PROVE  Told'
<1>0. TypeOK
  BY DEF KInv, JInv, IInv
<1>1. UNCHANGED <<sess, tcp_task, conn, wire>> /\ udp_task[s][t].pc = "map"
  BY DEF UdpMap, loop, UdpAt
<1>2. PICK sid : sid = udp_task[s][t].sid
  OBVIOUS
<1>3. Flows
  BY <1>1, QuietFlows DEF KInv, Told, wire
<1>4. /\ udp_task'[s][t].pc = "announce" /\ udp_task'[s][t].sid = sid
      /\ \A x \in Session, y \in TunnelId : x # s \/ y # t => udp_task'[x][y] = udp_task[x][y]
  BY <1>0, <1>2, UdpGotoMoves DEF UdpMap
<1>5. /\ udp_peers'[s] = udp_peers[s] \cup {sid} /\ udp_peers[s] \subseteq Sid
      /\ \A x \in Session : x # s => udp_peers'[x] = udp_peers[x]
  BY <1>0, <1>2 DEF UdpMap, TypeOK
<1>6. UdpTold(s)'
  <2> SUFFICES ASSUME chan_open'[s]
               PROVE  /\ \A x \in udp_peers'[s] : Announced(s, x)' \/ AboutTo(s, x)'
                      /\ \A y \in TunnelId : UdpAt(s, y, "data")' =>
                            Announced(s, udp_task[s][y].sid)'
    BY DEF UdpTold
  <2>1. UdpTold(s) /\ chan_open[s]
    BY <1>1 DEF KInv, Told, wire
  <2>2. AboutTo(s, sid)'
    BY <1>4 DEF AboutTo, UdpAt
  <2>3. ASSUME NEW x \in udp_peers[s] PROVE Announced(s, x)' \/ AboutTo(s, x)'
    <3>1. Announced(s, x) \/ AboutTo(s, x)
      BY <2>1, <2>3 DEF UdpTold
    <3>2. AboutTo(s, x) => AboutTo(s, x)'
      BY <1>1, <1>4 DEF AboutTo, UdpAt
    <3>3. Announced(s, x) => Announced(s, x)'
      BY <1>1 DEF Announced, NewAt, wire
    <3> QED BY <3>1, <3>2, <3>3
  <2>4. ASSUME NEW y \in TunnelId, UdpAt(s, y, "data")' PROVE Announced(s, udp_task[s][y].sid)'
    <3>1. udp_task'[s][y] = udp_task[s][y]
      BY <1>4, <2>4 DEF UdpAt
    <3>2. Announced(s, udp_task[s][y].sid)
      BY <2>1, <2>4, <3>1 DEF UdpTold, UdpAt
    <3> QED BY <1>1, <3>1, <3>2 DEF Announced, NewAt, wire
  <2> QED BY <1>5, <2>2, <2>3, <2>4
<1> QED BY <1>1, <1>3, <1>4, <1>5, <1>6, UdpTaskTold DEF wire

(* NewConnection is on the way before the task goes on to the data. *)
LEMMA UdpAnnounceTold ==
    ASSUME KInv, NEW s \in Session, NEW t \in TunnelId, UdpAnnounce(s, t)
    PROVE  Told'
<1>0. TypeOK
  BY DEF KInv, JInv, IInv
<1>1. UNCHANGED <<sess, tcp_task, conn, udp_peers>> /\ udp_task[s][t].pc = "announce"
  BY DEF UdpAnnounce, loop, state, UdpAt
<1>2. PICK sid : sid = udp_task[s][t].sid
  OBVIOUS
<1>3. IsUdp(s, t, sid)
  BY <1>1, <1>2 DEF KInv, JInv, Owners, MineAreUdp, MineAt, AtWork
<1>4. PICK f : f = Msg("NewConnection", sid)
  OBVIOUS
<1>5. /\ sid \in Sid /\ ~IsTcp(sid)
      /\ f \in Frame /\ Send(s, f) /\ f.type = "NewConnection" /\ f.id = sid
  BY <1>2, <1>3, <1>4, FrameType, SidsAreNumbers, Messages DEF UdpAnnounce, IsUdp, IsTcp
<1>6. \A x \in Sid : f = Msg("NewConnection", x) => ~(IsTcp(x) /\ conn[x].pc \in EndedPc)
  BY <1>4, <1>5, Messages
<1>7. /\ Flows /\ UNCHANGED chan_open
      /\ chan_open[s] => Announced(s, sid)'
  BY <1>4, <1>5, <1>6, SendFlows DEF KInv, JInv, IInv, Told
<1>8. /\ udp_task'[s][t].pc = "data" /\ udp_task'[s][t].sid = sid
      /\ \A x \in Session, y \in TunnelId : x # s \/ y # t => udp_task'[x][y] = udp_task[x][y]
  BY <1>0, <1>2, UdpGotoMoves DEF UdpAnnounce
<1>9. UdpTold(s)'
  <2> SUFFICES ASSUME chan_open'[s]
               PROVE  /\ \A x \in udp_peers'[s] : Announced(s, x)' \/ AboutTo(s, x)'
                      /\ \A y \in TunnelId : UdpAt(s, y, "data")' =>
                            Announced(s, udp_task[s][y].sid)'
    BY DEF UdpTold
  <2>1. UdpTold(s) /\ chan_open[s] /\ Announced(s, sid)' /\ udp_peers[s] \subseteq Sid
    BY <1>0, <1>7 DEF KInv, Told, TypeOK
  <2>2. ASSUME NEW x \in udp_peers[s] PROVE Announced(s, x)' \/ AboutTo(s, x)'
    <3>1. Announced(s, x) \/ AboutTo(s, x)
      BY <2>1, <2>2 DEF UdpTold
    <3>2. AboutTo(s, x) => AboutTo(s, x)' \/ x = sid
      BY <1>2, <1>8 DEF AboutTo, UdpAt
    <3>3. Announced(s, x) => Announced(s, x)'
      BY <1>7, <2>1 DEF Flows
    <3> QED BY <2>1, <3>1, <3>2, <3>3
  <2>3. ASSUME NEW y \in TunnelId, UdpAt(s, y, "data")' PROVE Announced(s, udp_task[s][y].sid)'
    <3>1. CASE y = t
      BY <1>8, <2>1, <3>1 DEF Announced, NewAt
    <3>2. CASE y # t
      <4>1. PICK x : x = udp_task[s][y].sid
        OBVIOUS
      <4>2. UdpAt(s, y, "data") /\ udp_task'[s][y].sid = x
        BY <1>8, <2>3, <3>2, <4>1 DEF UdpAt
      <4>3. Announced(s, x) /\ x \in Sid
        BY <2>1, <4>1, <4>2 DEF UdpTold, UdpAt, KInv, JInv, IInv, Targets
      <4>4. Announced(s, x)'
        BY <1>7, <4>3 DEF Flows
      <4> QED BY <4>2, <4>4 DEF Announced, NewAt
    <3> QED BY <3>1, <3>2
  <2> QED BY <1>1, <2>2, <2>3
<1> QED BY <1>1, <1>7, <1>8, <1>9, UdpTaskTold

(* A packet of an address whose stream is in udp_peers: its task, which is  *)
(* the only one that could be about to announce it, is here.                *)
LEMMA UdpRecvKnownTold ==
    ASSUME KInv, NEW s \in Session, NEW t \in TunnelId, NEW p \in Peer, UdpRecvKnown(s, t, p)
    PROVE  Told'
<1>0. TypeOK
  BY DEF KInv, JInv, IInv
<1>1. UNCHANGED <<sess, tcp_task, conn, udp_peers, wire>> /\ udp_task[s][t].pc = "recv"
  BY DEF UdpRecvKnown, loop, state, UdpAt
<1>2. PICK sid : sid = peer_streams[s][t][p]
  OBVIOUS
<1>3. /\ sid \in udp_peers[s]
      /\ udp_task' = [udp_task EXCEPT ![s][t] = [pc |-> "data", sid |-> sid]]
  BY <1>2 DEF UdpRecvKnown
<1>4. /\ udp_task'[s][t].pc = "data" /\ udp_task'[s][t].sid = sid
      /\ \A x \in Session, y \in TunnelId : x # s \/ y # t => udp_task'[x][y] = udp_task[x][y]
  BY <1>0, <1>3 DEF TypeOK
<1>5. Flows
  BY <1>1, QuietFlows DEF KInv, Told, wire
<1>6. ~AboutTo(s, sid)
  <2> SUFFICES ASSUME NEW y \in TunnelId, udp_task[s][y].pc = "announce",
                      udp_task[s][y].sid = sid
               PROVE  FALSE
    BY DEF AboutTo, UdpAt
  <2>1. sid # 0
    BY <1>0, <1>3, SidsAreNumbers DEF TypeOK
  <2>2. conn[sid].tid = t
    BY <1>2, <2>1 DEF KInv, JInv, Owners, MineAreUdp, MineAt, IsUdp
  <2>3. conn[sid].tid = y
    BY DEF KInv, JInv, Owners, MineAreUdp, MineAt, IsUdp, AtWork
  <2> QED BY <1>1, <2>2, <2>3
<1>7. UdpTold(s)'
  <2> SUFFICES ASSUME chan_open'[s]
               PROVE  /\ \A x \in udp_peers'[s] : Announced(s, x)' \/ AboutTo(s, x)'
                      /\ \A y \in TunnelId : UdpAt(s, y, "data")' =>
                            Announced(s, udp_task[s][y].sid)'
    BY DEF UdpTold
  <2>1. UdpTold(s) /\ chan_open[s]
    BY <1>1 DEF KInv, Told, wire
  <2>2. \A x : Announced(s, x) => Announced(s, x)'
    BY <1>1 DEF Announced, NewAt, wire
  <2>3. ASSUME NEW x \in udp_peers[s] PROVE Announced(s, x)' \/ AboutTo(s, x)'
    <3>1. Announced(s, x) \/ AboutTo(s, x)
      BY <2>1, <2>3 DEF UdpTold
    <3>2. AboutTo(s, x) => AboutTo(s, x)'
      BY <1>1, <1>4 DEF AboutTo, UdpAt
    <3> QED BY <2>2, <3>1, <3>2
  <2>4. ASSUME NEW y \in TunnelId, UdpAt(s, y, "data")' PROVE Announced(s, udp_task[s][y].sid)'
    <3>1. PICK x : x = udp_task'[s][y].sid
      OBVIOUS
    <3>2. Announced(s, x)
      <4>1. CASE y = t
        BY <1>3, <1>4, <1>6, <2>1, <3>1, <4>1 DEF UdpTold
      <4>2. CASE y # t
        BY <1>4, <2>1, <2>4, <3>1, <4>2 DEF UdpTold, UdpAt
      <4> QED BY <4>1, <4>2
    <3> QED BY <2>2, <3>1, <3>2 DEF Announced, NewAt
  <2> QED BY <1>1, <2>3, <2>4
<1> QED BY <1>1, <1>4, <1>5, <1>7, UdpTaskTold DEF wire

-----------------------------------------------------------------------------
(* At the start there is nothing to tell. *)
LEMMA InitTold == Init => Told
<1> SUFFICES ASSUME Init PROVE Told
  OBVIOUS
<1>1. FreshSessions
  BY DEF Init, FreshSessions
<1>2. FrameIds /\ DataAnnounced
  BY DEF Init, FrameIds, DataAnnounced, DataAt
<1>3. \A sid \in Sid : TcpTold(sid)
  BY DEF Init, TcpTold, IsTcp
<1>4. \A s \in Session : UdpTold(s)
  BY DEF Init, UdpTold
<1> QED BY <1>1, <1>2, <1>3, <1>4 DEF Told

(* The steps of the client, the frame loop and the writer. *)
LEMMA SessionStepTold ==
    ASSUME KInv, NEW s \in Session, ClientStep(s) \/ LoopStep(s) \/ Deliver(s)
    PROVE  Told'
<1>1. CASE Connect(s) \/ SessionEnd(s) \/ WriterFails(s) \/ Deliver(s)
  BY <1>1, ConnectTold, SessionEndTold, WriterTold
<1>2. CASE \/ \E t \in TunnelId, r \in Request : HandleOpenTunnel(s, t, r)
           \/ \E t \in TunnelId : HandleCloseTunnel(s, t)
           \/ BindTcpFails(s) \/ BindUdpFails(s) \/ InsertTunnel(s) \/ Purge(s)
           \/ DataForwarded(s) \/ DataRefused(s) \/ DataUnmap(s)
  BY <1>2, QuietLoopTold
<1>3. CASE \E sid \in Sid : HandleStreamClose(s, sid) \/ HandleData(s, sid) \/ CloseSend(s, sid)
  BY <1>3, HandleStreamCloseTold, QuietLoopTold, LoopSendTold
<1>4. CASE Reject(s) \/ TunnelOpened(s) \/ DataClose(s)
  BY <1>4, LoopSendTold
<1>5. CASE BindTcp(s) \/ BindUdp(s)
  BY <1>5, SpawnTold
<1> QED BY <1>1, <1>2, <1>3, <1>4, <1>5 DEF ClientStep, LoopStep

(* The steps of the two listener tasks of a tunnel. *)
LEMMA ListenerStepTold ==
    ASSUME KInv, NEW s \in Session, NEW t \in TunnelId,
           Accept(s, t) \/ TcpShutdown(s, t) \/ UdpStep(s, t) \/ UdpPlayerStep(s, t)
              \/ UdpShutdown(s, t)
    PROVE  Told'
<1>1. CASE Accept(s, t) \/ TcpShutdown(s, t)
  BY <1>1, AcceptTold, SpawnTold
<1>2. CASE UdpLookupDb(s, t) \/ UdpRegister(s, t) \/ UdpExpireRegistry(s, t)
              \/ UdpShutdown(s, t) \/ UdpRecvError(s, t)
  BY <1>2, UdpQuietTold
<1>3. CASE UdpMap(s, t) \/ UdpAnnounce(s, t) \/ UdpData(s, t) \/ UdpExpireClose(s, t)
  BY <1>3, UdpMapTold, UdpAnnounceTold, UdpDataTold, UdpExpireCloseTold
<1>4. CASE \E p \in Peer : UdpRecvKnown(s, t, p) \/ UdpRecvNew(s, t, p) \/ UdpExpire(s, t, p)
  BY <1>4, UdpRecvKnownTold, UdpRecvNewTold, UdpExpireTold
<1> QED BY <1>1, <1>2, <1>3, <1>4 DEF UdpStep, UdpPlayerStep

(* The steps about one player stream. *)
LEMMA StreamStepTold ==
    ASSUME KInv, NEW sid \in Sid, ConnStep(sid) \/ PlayerStep(sid) \/ Disconnect(sid)
    PROVE  Told'
<1>1. CASE MapStream(sid) \/ LookupDb(sid) \/ Register(sid) \/ PlayerLeaves(sid)
              \/ SenderDropped(sid) \/ Killed(sid) \/ Unmap(sid)
  BY <1>1, ConnMovesTold
<1>2. CASE Announce(sid) \/ SendStreamClose(sid) \/ PlayerSends(sid) \/ LateData(sid)
  BY <1>2, AnnounceTold, SendStreamCloseTold, PlayerDataTold
<1>3. CASE Disconnect(sid)
  BY <1>3, QuietTold DEF Disconnect, loop, state, tasks, udp
<1> QED BY <1>1, <1>2, <1>3 DEF ConnStep, PlayerStep

(* KInv is inductive. *)
LEMMA NextTold == KInv /\ [Next]_vars => KInv'
<1> SUFFICES ASSUME KInv, [Next]_vars PROVE KInv'
  OBVIOUS
<1>1. JInv'
  BY NextOwners DEF KInv
<1>2. CASE \E s \in Session : ClientStep(s) \/ LoopStep(s) \/ Deliver(s)
  BY <1>1, <1>2, SessionStepTold DEF KInv
<1>3. CASE \E s \in Session, t \in TunnelId :
              Accept(s, t) \/ TcpShutdown(s, t) \/ UdpStep(s, t) \/ UdpPlayerStep(s, t)
                 \/ UdpShutdown(s, t)
  BY <1>1, <1>3, ListenerStepTold DEF KInv
<1>4. CASE \E sid \in Sid : ConnStep(sid) \/ PlayerStep(sid) \/ Disconnect(sid)
  BY <1>1, <1>4, StreamStepTold DEF KInv
<1>5. CASE Terminated \/ UNCHANGED vars
  <2>1. UNCHANGED <<sess, tcp_task, udp_task, conn, wire, udp_peers>>
    BY <1>5 DEF Terminated, vars, loop, state, tasks, udp
  <2> QED BY <1>1, <2>1, QuietTold DEF KInv
<1> QED BY <1>2, <1>3, <1>4, <1>5 DEF Next

(* KInv holds in every state the server reaches. *)
THEOREM ToldInvariance == Spec => []KInv
<1>1. Init => KInv
  BY InitInv, InitOwners, InitTold DEF KInv, JInv
<1>2. KInv /\ [Next]_vars => KInv'
  BY NextTold
<1> QED BY <1>1, <1>2, PTL DEF Spec

(* On the channel to the client (server/src/main.rs), Data of a stream      *)
(* comes after the NewConnection that announces it, whichever task sends    *)
(* the two: the TCP task hands its sends to a read_task of its own, and the *)
(* UDP task forwards for any address whose stream is in udp_peers.          *)
THEOREM DataIsAnnounced == Spec => []DataAfterNewConnection
<1>1. KInv => DataAfterNewConnection
  <2> SUFFICES ASSUME KInv, NEW s \in Session, NEW i \in DOMAIN chan[s],
                      chan[s][i].type = "Data"
               PROVE  \/ view[s][chan[s][i].id] # "none"
                      \/ \E j \in 1 .. i - 1 : chan[s][j] = Msg("NewConnection", chan[s][i].id)
    BY DEF DataAfterNewConnection
  <2>1. PICK q \in Seq(Frame) : q = chan[s]
    BY DEF KInv, JInv, IInv, TypeOK
  <2>2. i \in Nat /\ q[i] \in Frame
    BY <2>1
  <2>3. PICK sid \in Sid : sid = chan[s][i].id
    BY DEF KInv, Told, FrameIds, StreamFrames
  <2>4. DataAt(s, i, sid)
    BY <2>1, <2>2, <2>3, Messages DEF DataAt
  <2>5. view[s][sid] # "none" \/ \E j \in Nat : j < i /\ NewAt(s, j, sid)
    BY <2>2, <2>4 DEF KInv, Told, DataAnnounced
  <2>6. ASSUME NEW j \in Nat, j < i, NewAt(s, j, sid)
        PROVE  j \in 1 .. i - 1 /\ chan[s][j] = Msg("NewConnection", sid)
    <3>1. j \in DOMAIN q
      BY <2>1, <2>6 DEF NewAt
    <3> QED BY <2>2, <2>6, <3>1 DEF NewAt
  <2> QED BY <2>3, <2>5, <2>6
<1> QED BY <1>1, ToldInvariance, PTL

(* Once the task of a TCP player has ended (handle_player_stream), the      *)
(* client will not hold its stream open when it has read what is on the     *)
(* channel: a CloseTunnel that overtakes the NewConnection with its own     *)
(* StreamClose does not leave the client with a stream nobody ends.         *)
THEOREM TcpEndsAreTold == Spec => []TcpEndIsTold
<1>1. KInv => TcpEndIsTold
  <2> SUFFICES ASSUME KInv, NEW s \in Session, NEW sid \in Sid, chan_open[s], IsTcp(sid),
                      conn[sid].sess = s, conn[sid].pc \in {"unmap", "done"},
                      WillBeOpen(s, sid)
               PROVE  FALSE
    BY DEF TcpEndIsTold
  <2>1. EndComes(s, sid)
    BY DEF KInv, Told, TcpTold, EndedPc
  <2>2. PICK q \in Seq(Frame) : q = chan[s]
    BY DEF KInv, JInv, IInv, TypeOK
  <2>3. DOMAIN q \subseteq Nat
    OBVIOUS
  <2>4. CASE \E i \in DOMAIN chan[s] : chan[s][i] = Msg("NewConnection", sid)
    <3>1. PICK i \in DOMAIN chan[s] :
             /\ chan[s][i] = Msg("NewConnection", sid)
             /\ \A j \in DOMAIN chan[s] : chan[s][j] = Msg("StreamClose", sid) => j < i
      BY <2>4 DEF WillBeOpen
    <3>2. i \in Nat /\ NewAt(s, i, sid)
      BY <2>2, <2>3, <3>1 DEF NewAt
    <3>3. PICK j \in Nat : i < j /\ CloseAt(s, j, sid)
      BY <2>1, <3>2 DEF EndComes
    <3>4. j < i
      BY <3>1, <3>3 DEF CloseAt
    <3> QED BY <3>2, <3>3, <3>4
  <2>5. CASE ~ \E i \in DOMAIN chan[s] : chan[s][i] = Msg("NewConnection", sid)
    <3>1. /\ view[s][sid] = "open"
          /\ \A j \in DOMAIN chan[s] : chan[s][j] # Msg("StreamClose", sid)
      BY <2>5 DEF WillBeOpen
    <3> QED BY <2>1, <3>1 DEF EndComes, CloseAt
  <2> QED BY <2>4, <2>5
<1> QED BY <1>1, ToldInvariance, PTL
=============================================================================
