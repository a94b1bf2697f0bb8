-------------------------- MODULE ClientStreamsProofs --------------------------
(****************************************************************************)
(* Proofs about ClientStreams, for any number of servers, streams and       *)
(* tunnels, any capacity and any number of connections that break and loops *)
(* that are aborted: it is well typed, and a server that has a stream open  *)
(* is told of its end.  A tunnel id belongs to one server only, so that a   *)
(* clean-up finds its own streams.  As long as no two servers give out the  *)
(* same stream number, the data of a player reaches its own local           *)
(* connection in order, and every stream has a connection and a tunnel.     *)
(****************************************************************************)
EXTENDS ClientStreams, SequenceTheorems, TLAPS

(* No two streams of different servers have the same number so far.  It     *)
(* holds by itself if there is only one server.                             *)
Known(c) == player[c].st \notin {"none", "early"}
NoCollision ==
    \A c, d \in Conn : player[c].st # "none" /\ player[d].st # "none" /\ c.id = d.id => c = d

Frame == [type : {"data", "new", "close"}, conn : Conn, n : Nat]
PlayerState == [st : {"none", "early", "open", "closed"}, sent : Nat]
Busy == {"insert", "send", "refuse", "forget"}
Away == {"clean", "drop", "out"}
LoopState == [pc : Busy \cup Away \cup {"read"}, frame : Frame \cup {Nothing},
              to : Conn \cup {Nothing}, tid : Nat]
USE DEF Busy, Away, None
LocalState == [pc : {"none", "connecting", "running", "failing", "telling", "unmap", "done"},
               queue : Seq(Frame), got : Seq(Frame)]

Shapes ==
    /\ player \in [Conn -> PlayerState]
    /\ down \in [Server -> Seq(Frame)]
    /\ told \subseteq Conn
    /\ link \in [Server -> {"none", "up", "unread", "broken"}]
    /\ recorded \in [Server -> Nat] /\ opened \in [Server -> Nat] /\ count \in Nat
    /\ loop \in [Server -> LoopState]
    /\ streams \in [Stream -> Conn \cup {Nothing}]
    /\ mapped \in [Stream -> Nat]
    /\ local \in [Conn -> LocalState]
    /\ breaks \in Nat
(* The bounds of TypeOK.                                                    *)
Bounds ==
    /\ \A c \in Conn : player[c].sent <= MaxData[c.id] /\ Len(local[c].queue) <= Capacity
    /\ \A s \in Server : Len(down[s]) <= Window
    /\ breaks <= MaxBreaks

(* A loop holds a frame of its own server; nobody reads a connection while  *)
(* there is no loop.                                                        *)
LoopFits(s) ==
    /\ \A i \in DOMAIN down[s] : down[s][i].conn.srv = s
    /\ loop[s].pc \in Busy => loop[s].frame \in Frame /\ loop[s].frame.conn.srv = s
    /\ loop[s].pc \in Away => link[s] # "up" /\ down[s] = <<>>
    /\ loop[s].pc = "insert" => loop[s].frame.type = "new"
    /\ loop[s].pc \in {"send", "refuse", "forget"} =>
          loop[s].frame.type = "data" /\ loop[s].to \in Conn

(* A stream is announced once, and its local connection starts after that.  *)
NewAt(c, i) == i \in DOMAIN down[c.srv] /\ down[c.srv][i].type = "new" /\ down[c.srv][i].conn = c
AtInsert(c) == loop[c.srv].pc = "insert" /\ loop[c.srv].frame.conn = c
AnnouncedOnce(c) ==
    /\ \A i, j \in Nat : NewAt(c, i) /\ NewAt(c, j) => i = j
    /\ \A i \in Nat : NewAt(c, i) => local[c].pc = "none" /\ Known(c) /\ ~AtInsert(c)
    /\ AtInsert(c) => local[c].pc = "none" /\ Known(c)
    /\ local[c].pc # "none" => Known(c)
    /\ streams[c.id] = c => local[c].pc \notin {"none", "done"}
    /\ loop[c.srv].to = c => local[c].pc # "none"

KeyFits(i) == streams[i] # Nothing => streams[i].id = i

(* Without a session there are no open streams; what is over is told.       *)
Ended(c) ==
    /\ ~InSession(c.srv) => player[c].st \in {"none", "closed"}
    /\ local[c].pc \in {"unmap", "done"} /\ player[c].st = "open" => c \in told
    /\ local[c].pc \notin {"connecting", "running", "failing"} => local[c].queue = <<>>
    /\ local[c].pc = "none" => local[c].got = <<>>

(* A tunnel id is given out once, to one server: what this has recorded and *)
(* open, its loop cleans up, and the frames on their way carry.             *)
Has(s, n) ==
    \/ n = recorded[s] \/ n = opened[s] \/ n = loop[s].tid
    \/ \E i \in DOMAIN down[s] : down[s][i].type = "new" /\ down[s][i].n = n
    \/ loop[s].pc = "insert" /\ loop[s].frame.n = n
NewFrames(s) ==
    /\ \A i \in DOMAIN down[s] : down[s][i].type = "new" => down[s][i].n # None
    /\ loop[s].pc = "insert" => loop[s].frame.n # None
IdsFit ==
    /\ count <= MaxTunnels
    /\ \A s \in Server, n \in Nat : Has(s, n) => n <= count
    /\ \A s, t \in Server, n \in Nat \ {None} : Has(s, n) /\ Has(t, n) => s = t
    /\ \A s \in Server : NewFrames(s)
    /\ \A c \in Conn : player[c].st = "early" => opened[c.srv] # None
    /\ \A i \in Stream : mapped[i] <= count

(* A stream in streams is in stream_tunnel, which it enters first.          *)
MapFits(i) ==
    /\ \A c \in Conn : c.id = i /\ AtInsert(c) => mapped[i] = loop[c.srv].frame.n
    /\ streams[i] # Nothing => mapped[i] # None

(* The data of a stream: what its local connection has, what its loop holds *)
(* and what is on the way continue each other.                              *)
DataAt(c, i) ==
    i \in DOMAIN down[c.srv] /\ down[c.srv][i].type = "data" /\ down[c.srv][i].conn = c
Held(c) == loop[c.srv].pc = "send" /\ loop[c.srv].to = c
Arrived(c) == Len(local[c].got) + Len(local[c].queue)
Taken(c) == Arrived(c) + IF Held(c) THEN 1 ELSE 0
Live(c) == local[c].pc = "none" \/ (Receiving(c) /\ streams[c.id] = c)

OnTheWay(c) ==
    /\ \A i \in Nat : DataAt(c, i) => down[c.srv][i].n <= player[c].sent /\ Known(c)
    /\ \A i, j \in Nat : DataAt(c, i) /\ DataAt(c, j) /\ i < j => down[c.srv][i].n < down[c.srv][j].n
    /\ \A i \in Nat : DataAt(c, i) /\ local[c].pc = "none" =>
          AtInsert(c) \/ \E j \in Nat : j < i /\ NewAt(c, j)
    /\ player[c].st = "open" /\ link[c.srv] = "up" /\ local[c].pc = "none" =>
          AtInsert(c) \/ \E j \in Nat : NewAt(c, j)
    /\ player[c].st \in {"none", "early"} => player[c].sent = 0

InOrder(c) ==
    /\ \A k \in DOMAIN local[c].got : local[c].got[k] = Data(c, k)
    /\ \A k \in DOMAIN local[c].queue : local[c].queue[k] = Data(c, Len(local[c].got) + k)
    /\ Held(c) /\ Receiving(c) => loop[c.srv].frame = Data(c, Arrived(c) + 1)

Continued(c) ==
    Live(c) =>
    /\ \A i \in Nat : DataAt(c, i) =>
          /\ down[c.srv][i].n > Taken(c)
          /\ down[c.srv][i].n > Taken(c) + 1 =>
                \E j \in Nat : j < i /\ DataAt(c, j) /\ down[c.srv][j].n = down[c.srv][i].n - 1
    /\ player[c].st = "open" /\ link[c.srv] = "up" =>
          /\ Taken(c) <= player[c].sent
          /\ Taken(c) < player[c].sent =>
                \E j \in Nat : DataAt(c, j) /\ down[c.srv][j].n = player[c].sent

OwnFrames(s) ==
    /\ \A i \in DOMAIN down[s] : player[down[s][i].conn].st # "none"
    /\ loop[s].pc \in Busy => player[loop[s].frame.conn].st # "none"
    /\ loop[s].pc = "send" => loop[s].to = loop[s].frame.conn

IInv ==
    /\ Shapes /\ Bounds
    /\ \A s \in Server : LoopFits(s)
    /\ \A c \in Conn : AnnouncedOnce(c) /\ Ended(c)
    /\ \A i \in Stream : KeyFits(i)

-----------------------------------------------------------------------------
LEMMA NothingElse == Nothing \notin Conn /\ Nothing \notin Frame
BY DEF Nothing, Conn, Frame

(* The loop when it holds no frame.                                         *)
LEMMA Loops ==
    /\ Reading \in LoopState /\ Reading.pc = "read" /\ Reading.to = Nothing /\ Reading.tid = None
    /\ Out \in LoopState /\ Out.pc = "out" /\ Out.to = Nothing /\ Out.tid = None
    /\ At("clean") \in LoopState /\ At("clean").pc = "clean"
    /\ At("clean").to = Nothing /\ At("clean").tid = None
    /\ \A n \in Nat : LET f == [At("drop") EXCEPT !.tid = n]
                      IN f \in LoopState /\ f.pc = "drop" /\ f.to = Nothing /\ f.tid = n
BY DEF At, Reading, Out, LoopState, None, Busy, Away

LEMMA ConnParts ==
    ASSUME NEW c \in Conn
    PROVE  c.srv \in Server /\ c.id \in Stream /\ c = [srv |-> c.srv, id |-> c.id]
BY DEF Conn

LEMMA MessageParts ==
    ASSUME NEW c \in Conn
    PROVE  /\ \A t \in Nat : New(c, t) \in Frame /\ New(c, t).type = "new"
                             /\ New(c, t).conn = c /\ New(c, t).n = t
           /\ Close(c) \in Frame /\ Close(c).type = "close" /\ Close(c).conn = c
           /\ \A n \in Nat : Data(c, n) \in Frame /\ Data(c, n).type = "data"
                             /\ Data(c, n).conn = c /\ Data(c, n).n = n
BY DEF New, Close, Data, Frame

LEMMA Tails ==
    ASSUME NEW q \in Seq(Frame), q # <<>>
    PROVE  /\ Tail(q) \in Seq(Frame) /\ Len(Tail(q)) = Len(q) - 1 /\ Len(q) \in Nat \ {0}
           /\ Head(q) = q[1] /\ q[1] \in Frame
           /\ \A i \in Nat : i \in DOMAIN Tail(q) <=> i + 1 \in DOMAIN q /\ i # 0
           /\ \A i \in DOMAIN Tail(q) : Tail(q)[i] = q[i + 1]
BY SMT

LEMMA Appends ==
    ASSUME NEW q \in Seq(Frame), NEW f \in Frame
    PROVE  /\ Append(q, f) \in Seq(Frame) /\ Len(Append(q, f)) = Len(q) + 1
           /\ \A i \in Nat : i \in DOMAIN Append(q, f) <=> i \in DOMAIN q \/ i = Len(q) + 1
           /\ \A i \in DOMAIN q : Append(q, f)[i] = q[i] /\ i <= Len(q)
           /\ Append(q, f)[Len(q) + 1] = f
BY SMT

(* The three ways a local connection moves on.                              *)
LocalPc == {"none", "connecting", "running", "failing", "telling", "unmap", "done"}
Moved(d, p, q, g) ==
    /\ local' \in [Conn -> LocalState]
    /\ local'[d].pc = p /\ local'[d].queue = q /\ local'[d].got = g
    /\ \A c \in Conn : c # d => local'[c] = local[c]

LEMMA PcMoves ==
    ASSUME Shapes, NEW d \in Conn, NEW p \in LocalPc, local' = [local EXCEPT ![d].pc = p]
    PROVE  Moved(d, p, local[d].queue, local[d].got)
BY DEF Shapes, LocalState, LocalPc, Moved

LEMMA Quits ==
    ASSUME Shapes, NEW d \in Conn, NEW p \in LocalPc,
           local' = [local EXCEPT ![d].pc = p, ![d].queue = <<>>]
    PROVE  Moved(d, p, <<>>, local[d].got)
<1>1. <<>> \in Seq(Frame)
  OBVIOUS
<1> QED BY <1>1 DEF Shapes, LocalState, LocalPc, Moved

LEMMA Writes ==
    ASSUME Shapes, NEW d \in Conn, WriteLocal(d)
    PROVE  /\ local[d].queue \in Seq(Frame) /\ local[d].queue # <<>> /\ local[d].pc = "running"
           /\ local[d].got \in Seq(Frame)
           /\ Moved(d, "running", Tail(local[d].queue), Append(local[d].got, Head(local[d].queue)))
<1> DEFINE q == Tail(local[d].queue)
           g == Append(local[d].got, Head(local[d].queue))
<1>1. local[d].queue \in Seq(Frame) /\ local[d].queue # <<>> /\ local[d].pc = "running"
      /\ local[d].got \in Seq(Frame)
  BY DEF Shapes, LocalState, WriteLocal, LocalAt
<1>2. q \in Seq(Frame) /\ g \in Seq(Frame)
  BY <1>1, Tails, Appends
<1>3. local' = [local EXCEPT ![d].queue = q, ![d].got = g]
  BY DEF WriteLocal, Written
<1> HIDE DEF q, g
<1>4. Moved(d, "running", q, g)
  BY <1>1, <1>2, <1>3 DEF Shapes, LocalState, Moved
<1> QED BY <1>1, <1>4 DEF q, g

LEMMA HandleNewKeeps ==
    ASSUME IInv, NEW s \in Server, HandleNew(s)
    PROVE  IInv'
<1> DEFINE f == Head(down[s])
<1>1. f \in Frame /\ f.type = "new" /\ f.conn \in Conn /\ f.conn.srv = s /\ f.conn.id \in Stream
      /\ down[s] # <<>> /\ f = down[s][1] /\ 1 \in DOMAIN down[s]
  BY Tails, SMTT(30) DEF IInv, Shapes, LoopFits, HandleNew, Read, Frame, Conn
<1>2. loop' = [loop EXCEPT ![s] = [pc |-> "insert", frame |-> f, to |-> Nothing, tid |-> None]]
  BY DEF HandleNew, Then
<1> HIDE DEF f
<1>3. Shapes'
  <2>1. down' \in [Server -> Seq(Frame)]
    BY <1>1, Tails DEF IInv, Shapes, HandleNew, Read
  <2>2. loop' \in [Server -> LoopState]
    BY <1>1, <1>2 DEF IInv, Shapes, LoopState
  <2>3. mapped' \in [Stream -> Nat]
    BY <1>1 DEF IInv, Shapes, HandleNew, Frame, f
  <2> QED BY <2>1, <2>2, <2>3 DEF IInv, Shapes, HandleNew, Read, tunnels
<1>4. Bounds'
  BY <1>1, <1>2, Tails, BoundAssumption DEF IInv, Shapes, Bounds, HandleNew, Read
<1>5. ASSUME NEW t \in Server PROVE LoopFits(t)'
  BY <1>1, <1>2, Tails DEF IInv, Shapes, LoopFits, HandleNew, Read
<1>6. ASSUME NEW c \in Conn PROVE AnnouncedOnce(c)'
  BY <1>1, <1>2, Tails, NothingElse, SMTT(30)
  DEF IInv, Shapes, AnnouncedOnce, NewAt, AtInsert, Known, HandleNew, Read
<1>7. ASSUME NEW c \in Conn PROVE Ended(c)'
  BY <1>1, <1>2 DEF IInv, Shapes, Ended, InSession, HandleNew, Read
<1>9. ASSUME NEW i \in Stream PROVE KeyFits(i)'
  BY <1>1, <1>2, ConnParts DEF IInv, Shapes, KeyFits, HandleNew, InsertStream
<1> QED BY <1>3, <1>4, <1>5, <1>6, <1>7, <1>9 DEF IInv

LEMMA InsertStreamKeeps ==
    ASSUME IInv, NEW s \in Server, InsertStream(s)
    PROVE  IInv'
<1> DEFINE c0 == loop[s].frame.conn
<1>1. c0 \in Conn /\ c0.srv = s /\ c0.id \in Stream /\ AtInsert(c0)
  BY DEF IInv, Shapes, LoopFits, InsertStream, Frame, Conn, AtInsert
<1>2. /\ streams' = [streams EXCEPT ![c0.id] = c0]
      /\ local' = [local EXCEPT ![c0] = [@ EXCEPT !.pc = "connecting"]]
      /\ loop' = [loop EXCEPT ![s] = Reading]
  BY DEF InsertStream
<1> HIDE DEF c0
<1>3. Shapes'
  <2>1. streams' \in [Stream -> Conn \cup {Nothing}]
    BY <1>1, <1>2 DEF IInv, Shapes
  <2>2. local' \in [Conn -> LocalState]
    BY <1>1, <1>2 DEF IInv, Shapes, LocalState
  <2>3. loop' \in [Server -> LoopState]
    BY <1>1, <1>2, Loops DEF IInv, Shapes, LoopState
  <2> QED BY <2>1, <2>2, <2>3 DEF IInv, Shapes, InsertStream, outside, tunnels
<1>4. Bounds'
  BY <1>1, <1>2 DEF IInv, Shapes, Bounds, InsertStream, outside, LocalState
<1>5. ASSUME NEW t \in Server PROVE LoopFits(t)'
  BY <1>1, <1>2, Loops DEF IInv, Shapes, LoopFits, InsertStream, outside
<1>6. ASSUME NEW c \in Conn PROVE AnnouncedOnce(c)'
  <2>1. local'[c].pc = IF c = c0 THEN "connecting" ELSE local[c].pc
    BY <1>1, <1>2 DEF IInv, Shapes, LocalState
  <2>2. AtInsert(c)' <=> c.srv # s /\ AtInsert(c)
    BY <1>1, <1>2, Loops DEF IInv, Shapes, AtInsert, Conn
  <2>3. \A i \in Nat : NewAt(c, i)' <=> NewAt(c, i)
    BY DEF NewAt, InsertStream, outside
  <2>4. streams'[c.id] = c => c = c0 \/ streams[c.id] = c
    BY <1>1, <1>2 DEF IInv, Shapes
  <2>5. loop'[c.srv].to = c => loop[c.srv].to = c
    BY <1>1, <1>2, NothingElse, Loops DEF IInv, Shapes, Conn
  <2>6. Known(c)' <=> Known(c)
    BY DEF Known, InsertStream, outside
  <2> QED BY <1>1, <2>1, <2>2, <2>3, <2>4, <2>5, <2>6 DEF IInv, AnnouncedOnce
<1>7. ASSUME NEW c \in Conn PROVE Ended(c)'
  BY <1>1, <1>2 DEF IInv, Shapes, Ended, InSession, AnnouncedOnce, InsertStream, outside, LocalState
<1>9. ASSUME NEW i \in Stream PROVE KeyFits(i)'
  BY <1>1, <1>2, ConnParts DEF IInv, Shapes, KeyFits, HandleNew, InsertStream
<1> QED BY <1>3, <1>4, <1>5, <1>6, <1>7, <1>9 DEF IInv

LEMMA HandleCloseKeeps ==
    ASSUME IInv, NEW s \in Server, HandleClose(s)
    PROVE  IInv'
<1> DEFINE f == Head(down[s])
<1>1. f \in Frame /\ f.conn \in Conn /\ f.conn.srv = s /\ f.conn.id \in Stream
      /\ down[s] # <<>> /\ f = down[s][1] /\ 1 \in DOMAIN down[s]
  BY Tails, SMTT(30) DEF IInv, Shapes, LoopFits, HandleClose, Read, Frame, Conn
<1>2. streams' = [streams EXCEPT ![f.conn.id] = Nothing] /\ mapped' = [mapped EXCEPT ![f.conn.id] = None]
  BY DEF HandleClose
<1> HIDE DEF f
<1>3. Shapes'
  BY <1>1, <1>2, Tails DEF IInv, Shapes, LoopState, LocalState, PlayerState, HandleClose, Read, tunnels
<1>4. Bounds'
  BY <1>1, <1>2, Tails, BoundAssumption DEF IInv, Shapes, Bounds, LocalState, PlayerState, HandleClose, Read
<1>5. ASSUME NEW t \in Server PROVE LoopFits(t)'
  BY <1>1, <1>2, Tails DEF IInv, Shapes, LoopFits, HandleClose, Read
<1>6. ASSUME NEW c \in Conn PROVE AnnouncedOnce(c)'
  <2>1. streams'[c.id] = c => streams[c.id] = c
    BY <1>1, <1>2, NothingElse, ConnParts DEF IInv, Shapes
  <2>2. \A i \in Nat : NewAt(c, i)' => IF c.srv = s THEN NewAt(c, i + 1) ELSE NewAt(c, i)
    BY <1>1, Tails, ConnParts DEF IInv, Shapes, NewAt, HandleClose, Read
  <2> QED BY <2>1, <2>2 DEF IInv, AnnouncedOnce, AtInsert, Known, HandleClose, Read
<1>7. ASSUME NEW c \in Conn PROVE Ended(c)'
  BY <1>1, <1>2, Tails DEF IInv, Shapes, Ended, InSession, LocalState, HandleClose, Read
<1>9. ASSUME NEW i \in Stream PROVE KeyFits(i)'
  BY <1>1, <1>2, Tails DEF IInv, Shapes, KeyFits, HandleClose, Read
<1> QED BY <1>3, <1>4, <1>5, <1>6, <1>7, <1>9 DEF IInv

LEMMA RefuseDataKeeps ==
    ASSUME IInv, NEW s \in Server, RefuseData(s)
    PROVE  IInv'
<1>1. loop[s].frame.conn \in Conn
  BY DEF IInv, Shapes, LoopFits, RefuseData, Frame
<1>3. Shapes'
  <2>1. loop' \in [Server -> LoopState]
    BY ZenonT(30) DEF IInv, Shapes, LoopState, RefuseData
  <2>2. told' \subseteq Conn
    BY <1>1 DEF IInv, Shapes, RefuseData, Tell
  <2> QED BY <2>1, <2>2 DEF IInv, Shapes, RefuseData, maps, tunnels
<1>4. Bounds'
  BY DEF IInv, Shapes, Bounds, LocalState, PlayerState, RefuseData, maps, Tell
<1>5. ASSUME NEW t \in Server PROVE LoopFits(t)'
  BY DEF IInv, Shapes, LoopFits, RefuseData, maps, Tell
<1>6. ASSUME NEW c \in Conn PROVE AnnouncedOnce(c)'
  BY SMTT(30) DEF IInv, Shapes, AnnouncedOnce, NewAt, AtInsert, Known, LocalState, RefuseData,
                  maps, Tell
<1>7. ASSUME NEW c \in Conn PROVE Ended(c)'
  BY DEF IInv, Shapes, Ended, InSession, LocalState, RefuseData, maps, Tell
<1>9. ASSUME NEW i \in Stream PROVE KeyFits(i)'
  BY DEF IInv, Shapes, KeyFits, RefuseData, maps, Tell
<1> QED BY <1>3, <1>4, <1>5, <1>6, <1>7, <1>9 DEF IInv

LEMMA ForgetStreamKeeps ==
    ASSUME IInv, NEW s \in Server, ForgetStream(s)
    PROVE  IInv'
<1>1. loop[s].frame.conn.id \in Stream
  BY DEF IInv, Shapes, LoopFits, ForgetStream, Frame, Conn
<1>2. /\ streams' = [streams EXCEPT ![loop[s].frame.conn.id] = Nothing]
      /\ mapped' = [mapped EXCEPT ![loop[s].frame.conn.id] = None]
  BY DEF ForgetStream
<1>3. Shapes'
  BY <1>1, <1>2, Loops DEF IInv, Shapes, LoopState, LocalState, PlayerState, ForgetStream, outside, tunnels
<1>4. Bounds'
  BY <1>1, <1>2, Loops DEF IInv, Shapes, Bounds, LocalState, PlayerState, ForgetStream, outside
<1>5. ASSUME NEW t \in Server PROVE LoopFits(t)'
  BY <1>1, <1>2, Loops DEF IInv, Shapes, LoopFits, ForgetStream, outside
<1>6. ASSUME NEW c \in Conn PROVE AnnouncedOnce(c)'
  <2>1. AtInsert(c)' => AtInsert(c)
    BY Loops DEF IInv, Shapes, AtInsert, ForgetStream
  <2>2. loop'[c.srv].to = c => loop[c.srv].to = c
    BY NothingElse, Loops DEF IInv, Shapes, ForgetStream
  <2>3. streams'[c.id] = c => streams[c.id] = c
    BY <1>1, <1>2, NothingElse, ConnParts DEF IInv, Shapes
  <2> QED BY <2>1, <2>2, <2>3 DEF IInv, AnnouncedOnce, NewAt, Known, ForgetStream, outside
<1>7. ASSUME NEW c \in Conn PROVE Ended(c)'
  BY <1>1, <1>2, Loops DEF IInv, Shapes, Ended, InSession, LocalState, ForgetStream, outside
<1>9. ASSUME NEW i \in Stream PROVE KeyFits(i)'
  BY <1>1, <1>2, Loops DEF IInv, Shapes, KeyFits, ForgetStream, outside
<1> QED BY <1>3, <1>4, <1>5, <1>6, <1>7, <1>9 DEF IInv

(* A session of a server ends.                                              *)
LEMMA SessionEnds ==
    ASSUME Shapes, NEW s \in Server, EndSession(s)
    PROVE  /\ player' \in [Conn -> PlayerState] /\ opened' \in [Server -> Nat]
           /\ told' \subseteq told /\ \A c \in told : c.srv # s => c \in told'
           /\ opened'[s] = None /\ \A t \in Server : t # s => opened'[t] = opened[t]
           /\ \A c \in Conn :
                 /\ player'[c].sent = player[c].sent
                 /\ c.srv = s => player'[c].st = IF player[c].st # "none" THEN "closed" ELSE "none"
                 /\ c.srv # s => player'[c].st = player[c].st
<1>1. \A c \in Conn : player'[c] = IF c.srv = s /\ player[c].st # "none"
                                   THEN [player[c] EXCEPT !.st = "closed"] ELSE player[c]
  BY DEF EndSession
<1>2. player' \in [Conn -> PlayerState]
  BY DEF EndSession, Shapes, PlayerState
<1>3. told' \subseteq told /\ \A c \in told : c.srv # s => c \in told'
  BY DEF EndSession
<1>4. /\ opened' \in [Server -> Nat] /\ opened'[s] = None
      /\ \A t \in Server : t # s => opened'[t] = opened[t]
  BY DEF EndSession, Shapes, None
<1>5. ASSUME NEW c \in Conn
      PROVE  /\ player'[c].sent = player[c].sent
             /\ c.srv = s => player'[c].st = IF player[c].st # "none" THEN "closed" ELSE "none"
             /\ c.srv # s => player'[c].st = player[c].st
  BY <1>1 DEF Shapes, PlayerState
<1> QED BY <1>2, <1>3, <1>4, <1>5

(* The steps that leave the local connections as they are, end streams and  *)
(* sessions, and hand the loop no frame.                                    *)
LEMMA AsideKeeps ==
    ASSUME IInv, Shapes', Bounds', local' = local,
           \A t \in Server : down'[t] = down[t] \/ down'[t] = <<>>,
           \A t \in Server : \/ loop'[t] = loop[t]
                             \/ loop'[t].pc \notin Busy /\ loop'[t].to = Nothing,
           \A t \in Server : loop'[t].pc \in Away => link'[t] # "up" /\ down'[t] = <<>>,
           \A i \in Stream : streams'[i] \in {streams[i], Nothing},
           \A c \in Conn : \/ player'[c].st = player[c].st
                           \/ player[c].st # "none" /\ player'[c].st = "closed",
           \A c \in Conn : InSession(c.srv)' \/ player'[c].st \in {"none", "closed"},
           \A c \in told : player'[c].st = "open" => c \in told'
    PROVE  IInv'
<1>1. ASSUME NEW t \in Server PROVE LoopFits(t)'
  BY DEF IInv, LoopFits
<1>2. ASSUME NEW c \in Conn PROVE AnnouncedOnce(c)'
  <2>1. \A i \in Nat : NewAt(c, i)' => NewAt(c, i)
    BY ConnParts DEF NewAt
  <2>2. AtInsert(c)' => AtInsert(c)
    BY ConnParts DEF AtInsert
  <2>3. loop'[c.srv].to = c => loop[c.srv].to = c
    BY ConnParts, NothingElse
  <2>4. streams'[c.id] = c => streams[c.id] = c
    BY ConnParts, NothingElse
  <2>5. Known(c) => Known(c)'
    BY DEF Known
  <2> QED BY <2>1, <2>2, <2>3, <2>4, <2>5 DEF IInv, AnnouncedOnce
<1>3. ASSUME NEW c \in Conn PROVE Ended(c)'
  BY DEF IInv, Ended, InSession
<1>4. ASSUME NEW i \in Stream PROVE KeyFits(i)'
  BY DEF IInv, KeyFits
<1> QED BY <1>1, <1>2, <1>3, <1>4 DEF IInv

LEMMA CleanReadKeeps ==
    ASSUME IInv, NEW s \in Server, CleanRead(s)
    PROVE  IInv'
<1>1. UNCHANGED <<player, down, told, link, recorded, opened, count, streams, mapped, local, breaks>>
      /\ loop[s].pc = "clean" /\ recorded[s] \in Nat
  BY DEF CleanRead, outside, maps, tunnels, IInv, Shapes
<1>2. PICK l \in LoopState : l.pc \in {"drop", "out"} /\ l.to = Nothing /\ loop' = [loop EXCEPT ![s] = l]
  BY <1>1, Loops DEF CleanRead
<1>3. /\ loop' \in [Server -> LoopState] /\ loop'[s] = l
      /\ \A t \in Server : t # s => loop'[t] = loop[t]
  BY <1>2 DEF IInv, Shapes
<1>4. Shapes' /\ Bounds'
  BY <1>1, <1>3 DEF IInv, Shapes, Bounds
<1>5. \A t \in Server : loop'[t].pc \in Away => link'[t] # "up" /\ down'[t] = <<>>
  BY <1>1, <1>2, <1>3 DEF IInv, LoopFits
<1>6. \A c \in Conn : InSession(c.srv)' \/ player'[c].st \in {"none", "closed"}
  BY <1>1 DEF IInv, Ended, InSession
<1> QED BY <1>1, <1>2, <1>3, <1>4, <1>5, <1>6, AsideKeeps

LEMMA CleanDropKeeps ==
    ASSUME IInv, NEW s \in Server, CleanDrop(s)
    PROVE  IInv'
<1>1. UNCHANGED <<player, down, told, link, opened, count, local, breaks>>
      /\ loop[s].pc = "drop" /\ loop' = [loop EXCEPT ![s] = Out]
      /\ recorded' = [recorded EXCEPT ![s] = None]
  BY DEF CleanDrop, outside
<1>2. /\ \A i \in Stream : streams'[i] \in {streams[i], Nothing} /\ mapped'[i] \in {mapped[i], None}
      /\ streams' = [i \in Stream |-> streams'[i]] /\ mapped' = [i \in Stream |-> mapped'[i]]
  BY DEF CleanDrop
<1>3. /\ loop' \in [Server -> LoopState] /\ loop'[s] = Out
      /\ \A t \in Server : t # s => loop'[t] = loop[t]
  BY <1>1, Loops DEF IInv, Shapes
<1>4. Shapes'
  <2>1. streams' \in [Stream -> Conn \cup {Nothing}] /\ mapped' \in [Stream -> Nat]
    BY <1>2 DEF IInv, Shapes, None
  <2>2. recorded' \in [Server -> Nat]
    BY <1>1 DEF IInv, Shapes, None
  <2> QED BY <1>1, <1>3, <2>1, <2>2 DEF IInv, Shapes
<1>5. Bounds'
  BY <1>1 DEF IInv, Bounds
<1>6. \A t \in Server : loop'[t].pc \in Away => link'[t] # "up" /\ down'[t] = <<>>
  BY <1>1, <1>3 DEF IInv, LoopFits
<1>7. \A c \in Conn : InSession(c.srv)' \/ player'[c].st \in {"none", "closed"}
  BY <1>1 DEF IInv, Ended, InSession
<1> QED BY <1>1, <1>2, <1>3, <1>4, <1>5, <1>6, <1>7, Loops, AsideKeeps

LEMMA SyncKeeps ==
    ASSUME IInv, NEW s \in Server, SyncOpens(s) \/ SyncForgets(s)
    PROVE  IInv'
<1>1. UNCHANGED <<player, down, told, link, loop, streams, mapped, local, breaks>>
  BY DEF SyncOpens, SyncForgets, outside, maps
<1>2. recorded' \in [Server -> Nat] /\ opened' \in [Server -> Nat] /\ count' \in Nat
  BY DEF SyncOpens, SyncForgets, IInv, Shapes, None
<1>3. Shapes' /\ Bounds'
  BY <1>1, <1>2 DEF IInv, Shapes, Bounds
<1>4. \A t \in Server : loop'[t].pc \in Away => link'[t] # "up" /\ down'[t] = <<>>
  BY <1>1 DEF IInv, LoopFits
<1>5. \A c \in Conn : InSession(c.srv)' \/ player'[c].st \in {"none", "closed"}
  BY <1>1 DEF IInv, Ended, InSession
<1> QED BY <1>1, <1>3, <1>4, <1>5, AsideKeeps

LEMMA BreakKeeps ==
    ASSUME IInv, NEW s \in Server, Break(s)
    PROVE  IInv'
<1>1. /\ EndSession(s) /\ breaks < MaxBreaks /\ breaks' = breaks + 1
      /\ link' = [link EXCEPT ![s] = "broken"]
      /\ UNCHANGED <<down, recorded, count, loop, streams, mapped, local>>
  BY DEF Break, maps
<1>2. /\ player' \in [Conn -> PlayerState] /\ opened' \in [Server -> Nat]
      /\ told' \subseteq told /\ \A c \in told : c.srv # s => c \in told'
      /\ \A c \in Conn :
            /\ player'[c].sent = player[c].sent
            /\ c.srv = s => player'[c].st = IF player[c].st # "none" THEN "closed" ELSE "none"
            /\ c.srv # s => player'[c].st = player[c].st
  BY <1>1, SessionEnds DEF IInv
<1>3. /\ link' \in [Server -> {"none", "up", "unread", "broken"}] /\ link'[s] = "broken"
      /\ \A t \in Server : t # s => link'[t] = link[t]
  BY <1>1 DEF IInv, Shapes
<1>4. Shapes'
  BY <1>1, <1>2, <1>3 DEF IInv, Shapes
<1>5. Bounds'
  BY <1>1, <1>2, BoundAssumption DEF IInv, Shapes, Bounds
<1>6. \A t \in Server : loop'[t].pc \in Away => link'[t] # "up" /\ down'[t] = <<>>
  BY <1>1, <1>3 DEF IInv, LoopFits
<1>7. \A c \in Conn : InSession(c.srv)' \/ player'[c].st \in {"none", "closed"}
  BY <1>2, <1>3, ConnParts DEF IInv, Ended, InSession
<1>8. \A c \in told : c \in Conn
  BY DEF IInv, Shapes
<1>9. \A c \in told : player'[c].st = "open" => c \in told'
  BY <1>2, <1>8
<1> QED BY <1>1, <1>2, <1>4, <1>5, <1>6, <1>7, <1>9, AsideKeeps

LEMMA ConnectKeeps ==
    ASSUME IInv, NEW s \in Server, Connect(s)
    PROVE  IInv'
<1>1. /\ EndSession(s) /\ loop' = [loop EXCEPT ![s] = Reading]
      /\ link' = [link EXCEPT ![s] = "up"]
      /\ UNCHANGED <<down, recorded, count, streams, mapped, local, breaks>>
  BY DEF Connect, maps
<1>2. /\ player' \in [Conn -> PlayerState] /\ opened' \in [Server -> Nat]
      /\ told' \subseteq told /\ \A c \in told : c.srv # s => c \in told'
      /\ \A c \in Conn :
            /\ player'[c].sent = player[c].sent
            /\ c.srv = s => player'[c].st = IF player[c].st # "none" THEN "closed" ELSE "none"
            /\ c.srv # s => player'[c].st = player[c].st
  BY <1>1, SessionEnds DEF IInv
<1>3. /\ link' \in [Server -> {"none", "up", "unread", "broken"}] /\ link'[s] = "up"
      /\ \A t \in Server : t # s => link'[t] = link[t]
      /\ loop' \in [Server -> LoopState] /\ loop'[s] = Reading
      /\ \A t \in Server : t # s => loop'[t] = loop[t]
  BY <1>1, Loops DEF IInv, Shapes
<1>4. Shapes'
  BY <1>1, <1>2, <1>3 DEF IInv, Shapes
<1>5. Bounds'
  BY <1>1, <1>2, BoundAssumption DEF IInv, Shapes, Bounds
<1>6. \A t \in Server : loop'[t].pc \in Away => link'[t] # "up" /\ down'[t] = <<>>
  BY <1>1, <1>3, Loops DEF IInv, LoopFits
<1>7. \A c \in Conn : InSession(c.srv)' \/ player'[c].st \in {"none", "closed"}
  BY <1>2, <1>3, ConnParts DEF IInv, Ended, InSession
<1>8. \A c \in told : c \in Conn
  BY DEF IInv, Shapes
<1>9. \A c \in told : player'[c].st = "open" => c \in told'
  BY <1>2, <1>8
<1>10. \A t \in Server : loop'[t] = loop[t] \/ (loop'[t].pc \notin Busy /\ loop'[t].to = Nothing)
  BY <1>3, Loops
<1> QED BY <1>1, <1>2, <1>4, <1>5, <1>6, <1>7, <1>9, <1>10, AsideKeeps

(* The two ways a loop ends.                                                *)
LEMMA StopKeeps ==
    ASSUME IInv, NEW s \in Server, Disconnect(s) \/ Abort(s)
    PROVE  IInv'
<1>1. /\ down' = [down EXCEPT ![s] = <<>>]
      /\ UNCHANGED <<player, told, recorded, opened, count, streams, mapped, local>>
  BY DEF Disconnect, Abort, tunnels, maps
<1>2. /\ down' \in [Server -> Seq(Frame)]
      /\ \A t \in Server : down'[t] = IF t = s THEN <<>> ELSE down[t]
  <2>1. <<>> \in Seq(Frame)
    OBVIOUS
  <2> QED BY <1>1, <2>1 DEF IInv, Shapes
<1>3. /\ link' \in [Server -> {"none", "up", "unread", "broken"}] /\ link'[s] # "up"
      /\ InSession(s)' => InSession(s)
      /\ \A t \in Server : t # s => link'[t] = link[t]
  BY DEF Disconnect, Abort, InSession, IInv, Shapes
<1>4. PICK l \in LoopState : l.pc \in Away /\ l.to = Nothing /\ loop' = [loop EXCEPT ![s] = l]
  BY Loops DEF Disconnect, Abort
<1>5. /\ loop' \in [Server -> LoopState] /\ loop'[s] = l
      /\ \A t \in Server : t # s => loop'[t] = loop[t]
  BY <1>4 DEF IInv, Shapes
<1>6. breaks' \in Nat /\ breaks' <= MaxBreaks
  BY BoundAssumption DEF Disconnect, Abort, IInv, Shapes, Bounds
<1>7. Shapes'
  BY <1>1, <1>2, <1>3, <1>5, <1>6 DEF IInv, Shapes
<1>8. Bounds'
  <2>1. Len(<<>>) = 0
    OBVIOUS
  <2>2. \A t \in Server : Len(down'[t]) <= Window
    BY <1>2, <2>1, BoundAssumption DEF IInv, Bounds
  <2> QED BY <1>1, <1>6, <2>2 DEF IInv, Bounds
<1>9. \A t \in Server : loop'[t].pc \in Away => link'[t] # "up" /\ down'[t] = <<>>
  BY <1>2, <1>3, <1>5, SMTT(30) DEF IInv, LoopFits
<1>10. \A c \in Conn : InSession(c.srv)' \/ player'[c].st \in {"none", "closed"}
  <2>1. ASSUME NEW c \in Conn, ~InSession(c.srv)' PROVE player'[c].st \in {"none", "closed"}
    <3>1. c.srv # s => ~InSession(c.srv)
      BY <1>3, <2>1, ConnParts DEF InSession
    <3>2. InSession(s) => c.srv # s
      <4>1. ASSUME InSession(s), c.srv = s PROVE FALSE
        BY <2>1, <4>1 DEF Disconnect, Abort, InSession, IInv, Shapes
      <4> QED BY <4>1
    <3> QED BY <1>1, <3>1, <3>2 DEF IInv, Ended, InSession
  <2> QED BY <2>1
<1>11. \A t \in Server : loop'[t] = loop[t] \/ (loop'[t].pc \notin Busy /\ loop'[t].to = Nothing)
  BY <1>4, <1>5
<1>12. \A t \in Server : down'[t] = down[t] \/ down'[t] = <<>>
  BY <1>2
<1> QED BY <1>1, <1>7, <1>8, <1>9, <1>10, <1>11, <1>12, AsideKeeps

LEMMA ServerHearsKeeps ==
    ASSUME IInv, NEW d \in Conn, ServerHears(d)
    PROVE  IInv'
<1>8. \A c \in Conn : /\ player'[c].sent = player[c].sent
                      /\ player'[c].st = IF c = d /\ player[c].st = "open" THEN "closed" ELSE player[c].st
  BY DEF IInv, Shapes, PlayerState, ServerHears
<1>2. player' \in [Conn -> PlayerState]
  BY DEF ServerHears, IInv, Shapes, PlayerState
<1>3. Shapes'
  BY <1>2, <1>8 DEF IInv, Shapes, LoopState, LocalState, PlayerState, ServerHears, maps, tunnels
<1>4. Bounds'
  BY <1>2, <1>8 DEF IInv, Shapes, Bounds, LocalState, PlayerState, ServerHears, maps
<1>5. ASSUME NEW t \in Server PROVE LoopFits(t)'
  BY <1>2, <1>8 DEF IInv, Shapes, LoopFits, ServerHears, maps
<1>6. ASSUME NEW c \in Conn PROVE AnnouncedOnce(c)'
  BY <1>2, <1>8 DEF IInv, Shapes, AnnouncedOnce, NewAt, AtInsert, Known, LocalState, ServerHears, maps
<1>7. ASSUME NEW c \in Conn PROVE Ended(c)'
  BY <1>2, <1>8 DEF IInv, Shapes, Ended, InSession, LocalState, ServerHears, maps
<1>9. ASSUME NEW i \in Stream PROVE KeyFits(i)'
  BY <1>2, <1>8 DEF IInv, Shapes, KeyFits, ServerHears, maps
<1> QED BY <1>3, <1>4, <1>5, <1>6, <1>7, <1>9 DEF IInv

LEMMA HandleDataKeeps ==
    ASSUME IInv, NEW s \in Server, HandleData(s)
    PROVE  IInv'
<1> DEFINE f == Head(down[s])
<1>1. Read(s, "data") /\ UNCHANGED <<told, maps, local>>
  BY DEF HandleData
<1>2. f \in Frame /\ f.conn \in Conn /\ f.conn.srv = s /\ f.conn.id \in Stream /\ f.type = "data"
      /\ down[s] # <<>> /\ f = down[s][1] /\ 1 \in DOMAIN down[s]
  <2>1. f \in Frame /\ down[s] # <<>> /\ f = down[s][1] /\ 1 \in DOMAIN down[s] /\ f.type = "data"
    BY <1>1, Tails DEF IInv, Shapes, Read
  <2>2. f.conn.srv = s
    BY <2>1 DEF IInv, LoopFits
  <2> QED BY <2>1, <2>2 DEF Frame, Conn
<1> DEFINE held == [pc |-> "send", frame |-> f, to |-> streams[f.conn.id], tid |-> None]
<1>3. \/ loop' = loop
      \/ streams[f.conn.id] # Nothing /\ loop' = [loop EXCEPT ![s] = held]
  BY DEF HandleData, Then
<1>4. /\ loop' \in [Server -> LoopState]
      /\ \A t \in Server : t # s => loop'[t] = loop[t]
      /\ \/ loop'[s] = loop[s]
         \/ /\ streams[f.conn.id] \in Conn /\ streams[f.conn.id].id = f.conn.id
            /\ loop'[s].pc = "send" /\ loop'[s].frame = f /\ loop'[s].to = streams[f.conn.id]
  <2>1. CASE loop' = loop
    BY <2>1 DEF IInv, Shapes
  <2>2. CASE streams[f.conn.id] # Nothing /\ loop' = [loop EXCEPT ![s] = held]
    <3>1. streams[f.conn.id] \in Conn /\ streams[f.conn.id].id = f.conn.id
      BY <1>2, <2>2 DEF IInv, Shapes, KeyFits
    <3>2. held \in LoopState
      BY <1>2, <3>1 DEF LoopState, None
    <3> QED BY <2>2, <3>1, <3>2 DEF IInv, Shapes
  <2> QED BY <1>3, <2>1, <2>2
<1> HIDE DEF f, held
<1>5. Shapes'
  BY <1>1, <1>2, <1>4, Tails DEF IInv, Shapes, Read, maps, tunnels
<1>6. Bounds'
  BY <1>1, <1>2, Tails, BoundAssumption DEF IInv, Shapes, Bounds, Read
<1>7. ASSUME NEW t \in Server PROVE LoopFits(t)'
  BY <1>1, <1>2, <1>4, Tails DEF IInv, Shapes, LoopFits, Read
<1>8. ASSUME NEW c \in Conn PROVE AnnouncedOnce(c)'
  <2>1. loop'[c.srv].to = c => loop[c.srv].to = c \/ streams[c.id] = c
    BY <1>2, <1>4, ConnParts
  <2>2. AtInsert(c)' => AtInsert(c)
    BY <1>2, <1>4, ConnParts DEF AtInsert
  <2>3. \A i \in Nat : NewAt(c, i)' => IF c.srv = s THEN NewAt(c, i + 1) ELSE NewAt(c, i)
    BY <1>1, <1>2, Tails DEF IInv, Shapes, NewAt, Read
  <2> QED BY <1>1, <2>1, <2>2, <2>3 DEF IInv, AnnouncedOnce, Read, Known, maps
<1>9. ASSUME NEW c \in Conn PROVE Ended(c)'
  BY <1>1 DEF IInv, Ended, InSession, Read
<1>10. ASSUME NEW i \in Stream PROVE KeyFits(i)'
  BY <1>1 DEF IInv, KeyFits, maps
<1> QED BY <1>5, <1>6, <1>7, <1>8, <1>9, <1>10 DEF IInv

(* A local connection moves on and nothing else of the invariant changes    *)
(* but what it tells and what it takes out of the maps.                     *)
LEMMA LocalMoves ==
    ASSUME IInv, NEW d \in Conn, local[d].pc # "none",
           NEW p \in LocalPc \ {"none"}, NEW q \in Seq(Frame), NEW g \in Seq(Frame),
           Moved(d, p, q, g), Len(q) <= Len(local[d].queue),
           p \notin {"connecting", "running", "failing"} => q = <<>>,
           UNCHANGED <<player, down, link, tunnels, loop, breaks>>,
           told \subseteq told', told' \subseteq Conn,
           p \in {"unmap", "done"} /\ player[d].st = "open" => d \in told',
           \/ UNCHANGED <<streams, mapped>> /\ p # "done"
           \/ /\ streams' = [streams EXCEPT ![d.id] = Nothing]
              /\ mapped' = [mapped EXCEPT ![d.id] = None]
    PROVE  IInv'
<1>1. Shapes'
  <2>1. streams' \in [Stream -> Conn \cup {Nothing}] /\ mapped' \in [Stream -> Nat]
    <3>1. CASE UNCHANGED <<streams, mapped>>
      BY <3>1 DEF IInv, Shapes
    <3>2. CASE /\ streams' = [streams EXCEPT ![d.id] = Nothing]
               /\ mapped' = [mapped EXCEPT ![d.id] = None]
      <4>1. streams' \in [Stream -> Conn \cup {Nothing}]
        BY <3>2 DEF IInv, Shapes
      <4>2. mapped' \in [Stream -> Nat]
        BY <3>2 DEF IInv, Shapes
      <4> QED BY <4>1, <4>2
    <3> QED BY <3>1, <3>2
  <2>2. local' \in [Conn -> LocalState]
    BY DEF Moved
  <2> QED BY <2>1, <2>2 DEF IInv, Shapes, tunnels
<1>2. Bounds'
  <2>1. ASSUME NEW c \in Conn PROVE Len(local'[c].queue) <= Capacity
    <3>1. CASE c = d
      <4>1. Len(q) \in Nat /\ Len(local[d].queue) \in Nat /\ Len(local[d].queue) <= Capacity
        BY DEF IInv, Shapes, Bounds, LocalState
      <4> QED BY <3>1, <4>1, BoundAssumption DEF Moved
    <3>2. CASE c # d
      BY <3>2 DEF IInv, Bounds, Moved
    <3> QED BY <3>1, <3>2
  <2> QED BY <2>1 DEF IInv, Bounds
<1>3. ASSUME NEW t \in Server PROVE LoopFits(t)'
  BY DEF IInv, LoopFits
<1>4. ASSUME NEW c \in Conn PROVE AnnouncedOnce(c)'
  <2>1. streams'[c.id] = c => streams[c.id] = c /\ (c = d => p # "done")
    BY ConnParts, NothingElse DEF IInv, Shapes
  <2>2. (local'[c].pc = "none") <=> (local[c].pc = "none")
    BY DEF Moved
  <2>3. local'[c].pc = "done" => (c = d /\ p = "done") \/ local[c].pc = "done"
    BY DEF Moved
  <2> QED BY <2>1, <2>2, <2>3 DEF IInv, AnnouncedOnce, NewAt, AtInsert, Known
<1>5. ASSUME NEW c \in Conn PROVE Ended(c)'
  <2>1. CASE c = d
    BY <2>1 DEF IInv, Ended, InSession, Moved
  <2>2. CASE c # d
    BY <2>2 DEF IInv, Ended, InSession, Moved
  <2> QED BY <2>1, <2>2
<1>6. ASSUME NEW i \in Stream PROVE KeyFits(i)'
  BY ConnParts DEF IInv, Shapes, KeyFits
<1> QED BY <1>1, <1>2, <1>3, <1>4, <1>5, <1>6 DEF IInv

LEMMA QueueOf ==
    ASSUME IInv, NEW d \in Conn
    PROVE  /\ local[d].queue \in Seq(Frame) /\ local[d].got \in Seq(Frame)
           /\ Len(local[d].queue) \in Nat /\ Len(<<>>) = 0 /\ <<>> \in Seq(Frame)
BY DEF IInv, Shapes, LocalState

LEMMA ConnectLocalKeeps ==
    ASSUME IInv, NEW d \in Conn, ConnectLocal(d)
    PROVE  IInv'
<1>1. local[d].pc = "connecting" /\ OnlyLocal
  BY DEF ConnectLocal, LocalAt
<1>2. PICK p \in {"running", "failing"} : Moved(d, p, local[d].queue, local[d].got)
  BY PcMoves DEF IInv, ConnectLocal, LocalTo, LocalPc
<1>3. UNCHANGED <<player, down, told, link, tunnels, loop, breaks, streams, mapped>> /\ told \subseteq Conn
  BY <1>1 DEF OnlyLocal, outside, maps, IInv, Shapes
<1>4. p \in LocalPc \ {"none"} /\ p \in {"running", "failing"}
  BY DEF LocalPc
<1> QED BY <1>1, <1>2, <1>3, <1>4, LocalMoves, QueueOf

LEMMA ChannelEndsKeeps ==
    ASSUME IInv, NEW d \in Conn, ChannelEnds(d)
    PROVE  IInv'
<1>1. local[d].pc = "running" /\ OnlyLocal /\ Quit(d)
  BY DEF ChannelEnds, LocalAt
<1>2. Moved(d, "telling", <<>>, local[d].got)
  BY <1>1, Quits DEF IInv, Quit, LocalPc
<1>3. UNCHANGED <<player, down, told, link, tunnels, loop, breaks, streams, mapped>> /\ told \subseteq Conn
  BY <1>1 DEF OnlyLocal, outside, maps, IInv, Shapes
<1>4. "telling" \in LocalPc \ {"none"}
  BY DEF LocalPc
<1>5. <<>> \in Seq(Frame) /\ local[d].got \in Seq(Frame) /\ Len(<<>>) <= Len(local[d].queue)
  BY QueueOf
<1>6. PICK q \in Seq(Frame) : q = <<>>
  BY <1>5
<1> QED BY <1>5, <1>6, <1>1, <1>2, <1>3, <1>4, LocalMoves

LEMMA InactiveKeeps ==
    ASSUME IInv, NEW d \in Conn, Inactive(d)
    PROVE  IInv'
<1>1. local[d].pc = "running" /\ OnlyLocal /\ Quit(d)
  BY DEF Inactive, LocalAt
<1>2. Moved(d, "telling", <<>>, local[d].got)
  BY <1>1, Quits DEF IInv, Quit, LocalPc
<1>3. UNCHANGED <<player, down, told, link, tunnels, loop, breaks, streams, mapped>> /\ told \subseteq Conn
  BY <1>1 DEF OnlyLocal, outside, maps, IInv, Shapes
<1>4. "telling" \in LocalPc \ {"none"}
  BY DEF LocalPc
<1>5. <<>> \in Seq(Frame) /\ local[d].got \in Seq(Frame) /\ Len(<<>>) <= Len(local[d].queue)
  BY QueueOf
<1>6. PICK q \in Seq(Frame) : q = <<>>
  BY <1>5
<1> QED BY <1>5, <1>6, <1>1, <1>2, <1>3, <1>4, LocalMoves

LEMMA LocalEndsKeeps ==
    ASSUME IInv, NEW d \in Conn, LocalEnds(d)
    PROVE  IInv'
<1>1. local[d].pc = "running" /\ OnlyLocal /\ Quit(d)
  BY DEF LocalEnds, LocalAt
<1>2. Moved(d, "telling", <<>>, local[d].got)
  BY <1>1, Quits DEF IInv, Quit, LocalPc
<1>3. UNCHANGED <<player, down, told, link, tunnels, loop, breaks, streams, mapped>> /\ told \subseteq Conn
  BY <1>1 DEF OnlyLocal, outside, maps, IInv, Shapes
<1>4. "telling" \in LocalPc \ {"none"}
  BY DEF LocalPc
<1>5. <<>> \in Seq(Frame) /\ local[d].got \in Seq(Frame) /\ Len(<<>>) <= Len(local[d].queue)
  BY QueueOf
<1>6. PICK q \in Seq(Frame) : q = <<>>
  BY <1>5
<1> QED BY <1>5, <1>6, <1>1, <1>2, <1>3, <1>4, LocalMoves

LEMMA WriteLocalKeeps ==
    ASSUME IInv, NEW d \in Conn, WriteLocal(d)
    PROVE  IInv'
<1> DEFINE q == Tail(local[d].queue)
           g == Append(local[d].got, Head(local[d].queue))
<1>1. local[d].pc = "running" /\ OnlyLocal /\ Moved(d, "running", q, g)
  BY Writes DEF IInv, WriteLocal
<1>2. q \in Seq(Frame) /\ g \in Seq(Frame) /\ Len(q) <= Len(local[d].queue)
  BY Writes, Tails, Appends DEF IInv
<1> HIDE DEF q, g
<1> QED BY <1>1, <1>2, LocalMoves DEF IInv, Shapes, OnlyLocal, outside, maps, LocalPc

LEMMA Tells ==
    ASSUME IInv, NEW d \in Conn, Tell(d)
    PROVE  /\ told \subseteq told' /\ told' \subseteq Conn
           /\ player[d].st = "open" => d \in told'
BY DEF IInv, Shapes, Ended, InSession, Tell

LEMMA SendStreamCloseKeeps ==
    ASSUME IInv, NEW d \in Conn, SendStreamClose(d)
    PROVE  IInv'
<1>1. local[d].pc = "telling" /\ Tell(d) /\ local[d].queue = <<>>
      /\ UNCHANGED <<player, down, link, tunnels, loop, breaks, streams, mapped>>
  BY DEF SendStreamClose, LocalAt, maps, IInv, Ended, InSession
<1>2. Moved(d, "unmap", <<>>, local[d].got)
  BY <1>1, PcMoves DEF IInv, SendStreamClose, LocalTo, LocalPc
<1> QED BY <1>1, <1>2, LocalMoves, QueueOf, Tells DEF LocalPc

LEMMA ConnectFailedKeeps ==
    ASSUME IInv, NEW d \in Conn, ConnectFailed(d)
    PROVE  IInv'
<1>1. /\ local[d].pc = "failing" /\ Tell(d)
      /\ UNCHANGED <<player, down, link, tunnels, loop, breaks>>
      /\ streams' = [streams EXCEPT ![d.id] = Nothing]
      /\ mapped' = [mapped EXCEPT ![d.id] = None]
  BY DEF ConnectFailed, LocalAt, Removed
<1>2. Moved(d, "done", <<>>, local[d].got)
  BY Quits DEF IInv, ConnectFailed, LocalPc
<1>3. "done" \in LocalPc \ {"none"} /\ told \subseteq Conn
  BY DEF LocalPc, IInv, Shapes
<1>5. <<>> \in Seq(Frame) /\ local[d].got \in Seq(Frame) /\ Len(<<>>) <= Len(local[d].queue)
  BY QueueOf
<1>6. PICK q \in Seq(Frame) : q = <<>>
  BY <1>5
<1> QED BY <1>5, <1>6, <1>1, <1>2, <1>3, LocalMoves, Tells

LEMMA UnmapKeeps ==
    ASSUME IInv, NEW d \in Conn, Unmap(d)
    PROVE  IInv'
<1>1. /\ local[d].pc = "unmap" /\ local[d].queue = <<>>
      /\ UNCHANGED <<player, down, told, link, tunnels, loop, breaks>>
      /\ streams' = [streams EXCEPT ![d.id] = Nothing]
      /\ mapped' = [mapped EXCEPT ![d.id] = None]
      /\ player[d].st = "open" => d \in told
  BY DEF Unmap, LocalAt, Removed, outside, IInv, Ended, InSession
<1>2. Moved(d, "done", <<>>, local[d].got)
  BY <1>1, PcMoves DEF IInv, Unmap, LocalTo, LocalPc
<1>3. "done" \in LocalPc \ {"none"} /\ told \subseteq Conn
  BY DEF LocalPc, IInv, Shapes
<1>5. <<>> \in Seq(Frame) /\ local[d].got \in Seq(Frame) /\ Len(<<>>) <= Len(local[d].queue)
  BY QueueOf
<1>6. PICK q \in Seq(Frame) : q = <<>>
  BY <1>5
<1> QED BY <1>5, <1>6, <1>1, <1>2, <1>3, LocalMoves

LEMMA SendDataKeeps ==
    ASSUME IInv, NEW s \in Server, SendData(s)
    PROVE  IInv'
<1> DEFINE d == loop[s].to
           f == loop[s].frame
<1>1. /\ loop[s].pc = "send" /\ d \in Conn /\ f \in Frame /\ f.type = "data"
      /\ f.conn.srv = s
      /\ UNCHANGED <<player, down, told, link, tunnels, streams, mapped, breaks>>
  BY DEF SendData, outside, maps, IInv, LoopFits
<1>2. CASE Receiving(d)
  <2> DEFINE q == Append(local[d].queue, f)
  <2>1. /\ HasRoom(d) /\ loop' = [loop EXCEPT ![s] = Reading]
        /\ local' = [local EXCEPT ![d].queue = q]
    BY <1>2 DEF SendData
  <2>2. q \in Seq(Frame) /\ Len(q) <= Capacity
    BY <1>1, <2>1, Appends, QueueOf, BoundAssumption DEF HasRoom
  <2> HIDE DEF q, d, f
  <2>3. Moved(d, local[d].pc, q, local[d].got)
    BY <1>1, <2>1, <2>2 DEF IInv, Shapes, LocalState, Moved
  <2>4. /\ loop' \in [Server -> LoopState] /\ loop'[s] = Reading
        /\ \A t \in Server : t # s => loop'[t] = loop[t]
    BY <2>1, Loops DEF IInv, Shapes, LoopState
  <2>5. Reading.pc = "read" /\ Reading.to = Nothing
    BY Loops
  <2>6. Shapes'
    BY <1>1, <2>3, <2>4 DEF IInv, Shapes, Moved, tunnels
  <2>7. Bounds'
    BY <1>1, <2>2, <2>3 DEF IInv, Bounds, Moved
  <2>8. ASSUME NEW t \in Server PROVE LoopFits(t)'
    BY <1>1, <2>4, <2>5 DEF IInv, LoopFits
  <2>9. ASSUME NEW c \in Conn PROVE AnnouncedOnce(c)'
    <3>1. AtInsert(c)' <=> AtInsert(c)
      BY <1>1, <2>4, <2>5, ConnParts DEF AtInsert
    <3>2. local'[c].pc = local[c].pc
      BY <2>3 DEF Moved
    <3>3. loop'[c.srv].to = c => loop[c.srv].to = c
      BY <2>4, <2>5, ConnParts, NothingElse
    <3> QED BY <1>1, <3>1, <3>2, <3>3 DEF IInv, AnnouncedOnce, NewAt, Known
  <2>10. ASSUME NEW c \in Conn PROVE Ended(c)'
    <3>1. CASE c = d
      BY <1>1, <1>2, <2>3, <3>1 DEF IInv, Ended, InSession, Moved, Receiving
    <3>2. CASE c # d
      BY <1>1, <2>3, <3>2 DEF IInv, Ended, InSession, Moved
    <3> QED BY <3>1, <3>2
  <2>11. ASSUME NEW i \in Stream PROVE KeyFits(i)'
    BY <1>1 DEF IInv, KeyFits
  <2> QED BY <2>6, <2>7, <2>8, <2>9, <2>10, <2>11 DEF IInv
<1>3. CASE ~Receiving(d)
  <2>1. loop' = [loop EXCEPT ![s].pc = "refuse"] /\ UNCHANGED local
    BY <1>3 DEF SendData
  <2> HIDE DEF d, f
  <2>2. Shapes'
    <3>1. loop' \in [Server -> LoopState]
      BY <2>1, ZenonT(30) DEF IInv, Shapes, LoopState
    <3> QED BY <1>1, <2>1, <3>1 DEF IInv, Shapes, tunnels
  <2>3. /\ loop'[s].pc = "refuse" /\ loop'[s].frame = loop[s].frame /\ loop'[s].to = loop[s].to
        /\ \A t \in Server : t # s => loop'[t] = loop[t]
    BY <2>1 DEF IInv, Shapes, LoopState
  <2>4. Bounds'
    BY <1>1, <2>1 DEF IInv, Bounds
  <2>5. ASSUME NEW t \in Server PROVE LoopFits(t)'
    BY <1>1, <2>3 DEF IInv, LoopFits, d, f
  <2>6. ASSUME NEW c \in Conn PROVE AnnouncedOnce(c)'
    <3>1. (AtInsert(c)' <=> AtInsert(c)) /\ loop'[c.srv].to = loop[c.srv].to
      BY <1>1, <2>3, ConnParts DEF AtInsert
    <3> QED BY <1>1, <2>1, <3>1 DEF IInv, AnnouncedOnce, NewAt, Known
  <2>7. ASSUME NEW c \in Conn PROVE Ended(c)'
    BY <1>1, <2>1 DEF IInv, Ended, InSession
  <2>8. ASSUME NEW i \in Stream PROVE KeyFits(i)'
    BY <1>1 DEF IInv, KeyFits
  <2> QED BY <2>2, <2>4, <2>5, <2>6, <2>7, <2>8 DEF IInv
<1> QED BY <1>2, <1>3

(* What the server does for a player: a frame about it, and its new state.  *)
Turn(c, p, f) ==
    /\ p \in PlayerState /\ player' = [player EXCEPT ![c] = p]
    /\ f \in Frame /\ f.conn = c /\ ServerSends(c, f)
    /\ f.type = "new" => f.n = opened[c.srv]
    /\ player[c].st = "none" => opened[c.srv] # None
    /\ \/ player[c].st = "none" /\ p.st = "open" /\ p.sent = player[c].sent /\ f.type = "new"
       \/ player[c].st = "open" /\ p.st = "closed" /\ p.sent = player[c].sent /\ f.type = "close"
       \/ player[c].st = "none" /\ p.st = "early" /\ p.sent = player[c].sent /\ f.type = "close"
       \/ player[c].st = "early" /\ p.st = "closed" /\ p.sent = player[c].sent /\ f.type = "new"
       \/ /\ player[c].st = "open" /\ p.st = "open" /\ p.sent = player[c].sent + 1
          /\ p.sent <= MaxData[c.id] /\ f = Data(c, p.sent)

LEMMA PlayerTurns ==
    ASSUME Shapes, NEW c \in Conn, Player(c)
    PROVE  \E p \in PlayerState, f \in Frame : Turn(c, p, f)
<1> USE DEF PlayerState
<1>0. player[c] \in PlayerState /\ c.id \in Stream
  BY ConnParts DEF Shapes
<1>1. ASSUME NEW st \in {"open", "closed", "early"}, NEW from \in {"none", "open", "early"},
             NEW f \in Frame, Becomes(c, from, st), ServerSends(c, f)
      PROVE  \E p \in PlayerState : /\ player' = [player EXCEPT ![c] = p] /\ p.st = st
                                    /\ p.sent = player[c].sent /\ player[c].st = from
  <2> DEFINE p == [st |-> st, sent |-> player[c].sent]
  <2>1. p \in PlayerState /\ p.st = st /\ p.sent = player[c].sent
    BY <1>0
  <2>2. player' = [player EXCEPT ![c] = p]
    <3>1. [player[c] EXCEPT !.st = st] = p
      BY <1>0
    <3>2. player' = [player EXCEPT ![c] = [player[c] EXCEPT !.st = st]]
      BY <1>1 DEF Becomes
    <3> QED BY <3>1, <3>2
  <2> QED BY <1>1, <2>1, <2>2 DEF Becomes
<1>7. opened[c.srv] \in Nat
  BY ConnParts DEF Shapes
<1>2. CASE opened[c.srv] # None /\ Becomes(c, "none", "open") /\ ServerSends(c, New(c, opened[c.srv]))
  BY <1>1, <1>2, <1>7, MessageParts DEF Turn
<1>3. CASE Becomes(c, "open", "closed") /\ ServerSends(c, Close(c))
  BY <1>1, <1>3, MessageParts DEF Turn
<1>4. CASE opened[c.srv] # None /\ Becomes(c, "none", "early") /\ ServerSends(c, Close(c))
  BY <1>1, <1>4, MessageParts DEF Turn
<1>5. CASE Becomes(c, "early", "closed") /\ ServerSends(c, New(c, opened[c.srv]))
  BY <1>1, <1>5, <1>7, MessageParts DEF Turn
<1>6. CASE /\ player[c].st = "open" /\ player[c].sent < MaxData[c.id]
           /\ player' = [player EXCEPT ![c].sent = @ + 1]
           /\ ServerSends(c, Data(c, player[c].sent + 1))
  <2> DEFINE p == [st |-> "open", sent |-> player[c].sent + 1]
  <2>1. p \in PlayerState /\ p.st = "open" /\ p.sent = player[c].sent + 1
    BY <1>0
  <2>2. player' = [player EXCEPT ![c] = p]
    <3>1. [player[c] EXCEPT !.sent = player[c].sent + 1] = p
      BY <1>0, <1>6
    <3>2. player' = [player EXCEPT ![c] = [player[c] EXCEPT !.sent = player[c].sent + 1]]
      BY <1>6
    <3> QED BY <3>1, <3>2
  <2>3. p.sent <= MaxData[c.id] /\ MaxData[c.id] \in Nat
    BY <1>0, <1>6, <2>1, BoundAssumption
  <2> HIDE DEF p
  <2>4. Data(c, p.sent) \in Frame /\ Data(c, p.sent).conn = c /\ Data(c, p.sent).type = "data"
        /\ ServerSends(c, Data(c, p.sent))
    BY <1>0, <1>6, <2>1, MessageParts
  <2>5. Turn(c, p, Data(c, p.sent))
    BY <1>6, <2>1, <2>2, <2>3, <2>4 DEF Turn
  <2> QED BY <2>1, <2>4, <2>5
<1> QED BY <1>2, <1>3, <1>4, <1>5, <1>6 DEF Player

LEMMA PlayerKeeps ==
    ASSUME IInv, NEW d \in Conn, Player(d)
    PROVE  IInv'
<1>1. PICK p \in PlayerState, f \in Frame : Turn(d, p, f)
  BY PlayerTurns DEF IInv
<1>2. UNCHANGED <<told, link, recorded, opened, count, loop, streams, mapped, local, breaks>>
  BY <1>1 DEF Turn, ServerSends, maps, tunnels
<1>3. player' \in [Conn -> PlayerState] /\ player'[d] = p /\ \A c \in Conn : c # d => player'[c] = player[c]
  BY <1>1 DEF Turn, IInv, Shapes
<1>4. InSession(d.srv) /\ d.srv \in Server
  BY <1>1, ConnParts DEF Turn, ServerSends, InSession
<1>5. ASSUME NEW c \in Conn PROVE Ended(c)'
  <2>1. CASE c = d
    <3>1. p.st = "open" => player[d].st = "open" \/ local[d].pc = "none"
      BY <1>1 DEF Turn, IInv, AnnouncedOnce, Known
    <3> QED BY <1>2, <1>3, <1>4, <2>1, <3>1 DEF IInv, Ended, InSession
  <2>2. CASE c # d
    BY <1>2, <1>3, <2>2 DEF IInv, Ended, InSession
  <2> QED BY <2>1, <2>2
<1>6. ASSUME NEW i \in Stream PROVE KeyFits(i)'
  BY <1>2 DEF IInv, KeyFits
<1>7. p.sent <= MaxData[d.id]
  BY <1>1 DEF Turn, IInv, Bounds
<1>8. CASE UNCHANGED down
  <2>1. Shapes' /\ Bounds'
    BY <1>2, <1>3, <1>7, <1>8 DEF IInv, Shapes, Bounds
  <2>2. ASSUME NEW t \in Server PROVE LoopFits(t)'
    BY <1>2, <1>8 DEF IInv, LoopFits
  <2>3. ASSUME NEW c \in Conn PROVE AnnouncedOnce(c)'
    <3>1. Known(c) => Known(c)'
      BY <1>1, <1>3 DEF Known, Turn
    <3> QED BY <1>2, <1>8, <3>1 DEF IInv, AnnouncedOnce, NewAt, AtInsert
  <2> QED BY <1>5, <1>6, <2>1, <2>2, <2>3 DEF IInv
<1>9. CASE /\ link[d.srv] = "up" /\ Len(down[d.srv]) < Window
            /\ down' = [down EXCEPT ![d.srv] = Append(@, f)]
  <2>1. /\ down' \in [Server -> Seq(Frame)] /\ down'[d.srv] = Append(down[d.srv], f)
        /\ \A s \in Server : s # d.srv => down'[s] = down[s]
        /\ d.srv \in Server /\ down[d.srv] \in Seq(Frame)
    BY <1>9, ConnParts, Appends DEF IInv, Shapes
  <2>2. Shapes'
    BY <1>2, <1>9, <2>1, <1>3 DEF IInv, Shapes, tunnels
  <2>3. Bounds'
    <3>1. p.sent <= MaxData[d.id]
      BY <1>1 DEF Turn, IInv, Bounds
    <3>2. Len(down'[d.srv]) <= Window
      BY <1>2, <1>9, <2>1, Appends, BoundAssumption
    <3> QED BY <1>2, <1>9, <2>1, <1>3, <3>1, <3>2 DEF IInv, Bounds
  <2>4. ASSUME NEW t \in Server PROVE LoopFits(t)'
    BY <1>1, <1>2, <1>9, <2>1, Appends DEF IInv, Shapes, LoopFits, Turn
  <2>5. ASSUME NEW c \in Conn PROVE AnnouncedOnce(c)'
    <3>1. \A i \in Nat : NewAt(c, i)' => NewAt(c, i) \/ (c = d /\ f.type = "new" /\ i = Len(down[d.srv]) + 1)
      <4>1. CASE c.srv = d.srv
        <5>1. ASSUME NEW i \in Nat, NewAt(c, i)', i \in DOMAIN down[d.srv]
              PROVE  NewAt(c, i)
          <6>1. PICK q \in Seq(Frame) : q = down[d.srv]
            BY <2>1
          <6>2. PICK r : r = down'[d.srv]
            OBVIOUS
          <6>3. r[i] = q[i]
            BY <2>1, <5>1, <6>1, <6>2, Appends
          <6>4. r[i].type = "new" /\ r[i].conn = c
            BY <4>1, <5>1, <6>2 DEF NewAt
          <6> QED BY <4>1, <5>1, <6>1, <6>3, <6>4 DEF NewAt
        <5>2. ASSUME NEW i \in Nat, NewAt(c, i)', i \notin DOMAIN down[d.srv]
              PROVE  c = d /\ f.type = "new" /\ i = Len(down[d.srv]) + 1
          BY <1>1, <2>1, <4>1, <5>2, Appends DEF NewAt, Turn
        <5> QED BY <5>1, <5>2
      <4>2. CASE c.srv # d.srv
        BY <2>1, <4>2, ConnParts DEF NewAt
      <4> QED BY <4>1, <4>2
    <3>2. (Known(c) => Known(c)') /\ (AtInsert(c)' <=> AtInsert(c))
      BY <1>1, <1>2, <1>9, <1>3 DEF Known, AtInsert, Turn
    <3>3. \A i \in Nat : NewAt(c, i) => i <= Len(down[c.srv])
      BY ConnParts DEF NewAt, IInv, Shapes
    <3>4. CASE c = d /\ f.type = "new"
      <4>1. ~Known(c)
        BY <1>1, <3>4, MessageParts DEF Known, Turn, PlayerState
      <4>2. Known(c)'
        BY <1>1, <1>3, <3>4, MessageParts DEF Known, Turn, PlayerState
      <4> QED BY <1>2, <1>9, <3>1, <3>2, <3>4, <4>1, <4>2 DEF IInv, AnnouncedOnce
    <3>5. CASE ~(c = d /\ f.type = "new")
      BY <1>2, <1>9, <3>1, <3>2, <3>5 DEF IInv, AnnouncedOnce
    <3> QED BY <3>4, <3>5
  <2> QED BY <1>5, <1>6, <2>2, <2>3, <2>4, <2>5 DEF IInv
<1> QED BY <1>1, <1>8, <1>9 DEF Turn, ServerSends

LEMMA Initially == Init => IInv
<1> SUFFICES ASSUME Init PROVE IInv
  OBVIOUS
<1>1. /\ Reading \in LoopState /\ Reading.pc = "read" /\ Reading.to = Nothing
  BY Loops DEF LoopState
<1>2. <<>> \in Seq(Frame) /\ Len(<<>>) = 0
  OBVIOUS
<1>3. Shapes
  <2>1. local \in [Conn -> LocalState] /\ player \in [Conn -> PlayerState]
    BY <1>2 DEF Init, LocalState, PlayerState
  <2>2. loop \in [Server -> LoopState] /\ down \in [Server -> Seq(Frame)]
    BY <1>1, <1>2 DEF Init
  <2> QED BY <2>1, <2>2 DEF Init, Shapes
<1>4. Bounds
  BY BoundAssumption, ConnParts DEF Init, Bounds
<1>5. ASSUME NEW s \in Server PROVE LoopFits(s)
  BY <1>1 DEF Init, LoopFits
<1>6. ASSUME NEW c \in Conn PROVE AnnouncedOnce(c) /\ Ended(c)
  BY <1>1, NothingElse, ConnParts DEF Init, AnnouncedOnce, Ended, InSession, NewAt, AtInsert, Known
<1>7. ASSUME NEW i \in Stream PROVE KeyFits(i)
  BY DEF Init, KeyFits
<1> QED BY <1>3, <1>4, <1>5, <1>6, <1>7 DEF IInv

LEMMA Step == IInv /\ [Next]_vars => IInv'
<1> SUFFICES ASSUME IInv, [Next]_vars PROVE IInv'
  OBVIOUS
<1>1. ASSUME NEW c \in Conn, Player(c) \/ ServerHears(c) \/ LocalTask(c) \/ LocalEnds(c)
      PROVE  IInv'
  BY <1>1, PlayerKeeps, ServerHearsKeeps, ConnectLocalKeeps, ConnectFailedKeeps, WriteLocalKeeps,
     ChannelEndsKeeps, InactiveKeeps, SendStreamCloseKeeps, UnmapKeeps, LocalEndsKeeps DEF LocalTask
<1>2. ASSUME NEW s \in Server,
             FrameLoop(s) \/ Break(s) \/ Abort(s) \/ Connect(s) \/ SyncOpens(s) \/ SyncForgets(s)
      PROVE  IInv'
  BY <1>2, HandleNewKeeps, InsertStreamKeeps, HandleCloseKeeps, HandleDataKeeps, SendDataKeeps,
     RefuseDataKeeps, ForgetStreamKeeps, StopKeeps, CleanReadKeeps, CleanDropKeeps, BreakKeeps,
     ConnectKeeps, SyncKeeps DEF FrameLoop
<1>3. CASE UNCHANGED vars
  <2> USE <1>3 DEF vars, outside, maps, tunnels
  <2>1. Shapes' /\ Bounds'
    BY DEF IInv, Shapes, Bounds
  <2>2. ASSUME NEW s \in Server PROVE LoopFits(s)'
    BY DEF IInv, LoopFits
  <2>3. ASSUME NEW c \in Conn PROVE AnnouncedOnce(c)' /\ Ended(c)'
    BY DEF IInv, AnnouncedOnce, Ended, InSession, NewAt, AtInsert, Known
  <2>4. ASSUME NEW i \in Stream PROVE KeyFits(i)'
    BY DEF IInv, KeyFits
  <2> QED BY <2>1, <2>2, <2>3, <2>4 DEF IInv
<1> QED BY <1>1, <1>2, <1>3 DEF Next

LEMMA Invariance == Spec => []IInv
BY Initially, Step, PTL DEF Spec

-----------------------------------------------------------------------------
(* The tunnel ids.                                                          *)

(* A server that is left with no other id than it has, and no frame than    *)
(* those it has.                                                            *)
LEMMA IdsOf ==
    ASSUME IInv, IdsFit, NEW s \in Server,
           down'[s] \in {down[s], <<>>, Tail(down[s])}, down[s] = <<>> => down'[s] = <<>>,
           recorded'[s] \in {recorded[s], None}, opened'[s] \in {opened[s], None},
           loop'[s].tid \in {loop[s].tid, recorded[s], None},
           \/ loop'[s].pc # "insert"
           \/ loop[s].pc = "insert" /\ loop'[s].frame = loop[s].frame
           \/ down[s] # <<>> /\ Head(down[s]).type = "new" /\ loop'[s].frame = Head(down[s])
    PROVE  NewFrames(s)' /\ \A n \in Nat : n # None /\ Has(s, n)' => Has(s, n)
<1>1. PICK q \in Seq(Frame) : q = down[s]
  BY DEF IInv, Shapes
<1>2. \A i \in DOMAIN down'[s] : \E k \in DOMAIN q : down'[s][i] = q[k]
  <2>1. CASE down'[s] = q
    BY <2>1
  <2>2. CASE down'[s] = <<>>
    BY <2>2
  <2>3. CASE q # <<>> /\ down'[s] = Tail(q)
    <3>1. ASSUME NEW i \in DOMAIN Tail(q) PROVE \E k \in DOMAIN q : Tail(q)[i] = q[k]
      <4>1. Tail(q) \in Seq(Frame)
        BY <2>3, Tails
      <4>2. i \in Nat
        BY <4>1
      <4>3. i + 1 \in DOMAIN q /\ Tail(q)[i] = q[i + 1]
        BY <2>3, <4>2, Tails
      <4> QED BY <4>3
    <3> QED BY <2>3, <3>1
  <2> QED BY <1>1, <2>1, <2>2, <2>3
<1>3. down[s] # <<>> => \E k \in DOMAIN q : Head(down[s]) = q[k]
  <2>1. ASSUME q # <<>> PROVE \E k \in DOMAIN q : Head(q) = q[k]
    <3>1. Len(q) \in Nat \ {0} /\ Head(q) = q[1]
      BY <2>1, Tails
    <3>2. 1 \in DOMAIN q
      BY <3>1
    <3> QED BY <3>1, <3>2
  <2> QED BY <1>1, <2>1
<1>4. NewFrames(s)
  BY DEF IdsFit
<1>5. NewFrames(s)'
  BY <1>1, <1>2, <1>3, <1>4 DEF NewFrames
<1>6. ASSUME NEW n \in Nat, n # None, Has(s, n)' PROVE Has(s, n)
  <2>1. CASE n = recorded'[s] \/ n = opened'[s] \/ n = loop'[s].tid
    BY <1>6, <2>1 DEF Has
  <2>2. CASE \E i \in DOMAIN down'[s] : down'[s][i].type = "new" /\ down'[s][i].n = n
    BY <1>1, <1>2, <2>2 DEF Has
  <2>3. CASE loop'[s].pc = "insert" /\ loop'[s].frame.n = n
    BY <1>1, <1>3, <2>3 DEF Has
  <2> QED BY <1>6, <2>1, <2>2, <2>3 DEF Has
<1> QED BY <1>5, <1>6

(* No step but that of sync_tunnels gives out an id.                        *)
LEMMA IdsKept ==
    ASSUME IInv, IdsFit, count' = count,
           \A s \in Server : NewFrames(s)' /\ \A n \in Nat : n # None /\ Has(s, n)' => Has(s, n),
           \A c \in Conn : player'[c].st = "early" => opened'[c.srv] # None,
           \A i \in Stream : mapped'[i] <= count
    PROVE  IdsFit'
<1>1. count \in Nat
  BY DEF IInv, Shapes
<1>2. ASSUME NEW s \in Server, NEW n \in Nat, Has(s, n)' PROVE n <= count'
  <2>1. CASE n = None
    BY <1>1, <2>1
  <2>2. CASE n # None
    BY <1>2, <2>2 DEF IdsFit
  <2> QED BY <2>1, <2>2
<1>3. ASSUME NEW s \in Server, NEW t \in Server, NEW n \in Nat \ {None}, Has(s, n)', Has(t, n)'
      PROVE  s = t
  BY <1>3 DEF IdsFit
<1>4. count' <= MaxTunnels
  BY DEF IdsFit
<1>5. \A i \in Stream : mapped'[i] <= count'
  OBVIOUS
<1> QED BY <1>2, <1>3, <1>4, <1>5 DEF IdsFit

LEMMA IdsStep == IInv /\ IInv' /\ IdsFit /\ [Next]_vars => IdsFit'
<1> SUFFICES ASSUME IInv, IInv', IdsFit, [Next]_vars PROVE IdsFit'
  OBVIOUS
<1> USE DEF IInv, Shapes
<1>1. \A i \in Stream : mapped[i] <= count /\ None <= count
  BY DEF IdsFit
<1>2. \A c \in Conn : player[c].st = "early" => opened[c.srv] # None
  BY DEF IdsFit
<1>3. ASSUME NEW c \in Conn, Player(c) PROVE IdsFit'
  <2>1. UNCHANGED <<link, recorded, opened, count, loop, mapped>>
    BY <1>3 DEF Player, ServerSends, tunnels, maps
  <2>2. PICK p \in PlayerState, f \in Frame : Turn(c, p, f)
    BY <1>3, PlayerTurns
  <2>3. c.srv \in Server /\ (f.type = "new" => f.n = opened[c.srv] /\ f.n # None)
    <3>1. p.sent \in Nat
      BY DEF PlayerState
    <3>2. f = Data(c, p.sent) => f.type = "data"
      BY <3>1, MessageParts
    <3> QED BY <1>2, <2>2, <3>2, ConnParts DEF Turn
  <2>4. ASSUME NEW d \in Conn, player'[d].st = "early" PROVE opened'[d.srv] # None
    BY <1>2, <2>1, <2>2, <2>4 DEF Turn
  <2>5. PICK q \in Seq(Frame) : q = down[c.srv]
    BY <2>3
  <2>6. /\ down'[c.srv] = q \/ down'[c.srv] = Append(q, f)
        /\ \A s \in Server : s # c.srv => down'[s] = down[s]
    BY <2>2, <2>3, <2>5 DEF Turn, ServerSends
  <2>7. \A i \in DOMAIN down'[c.srv] : down'[c.srv][i] = f \/ \E k \in DOMAIN q : down'[c.srv][i] = q[k]
    <3>1. ASSUME NEW i \in DOMAIN Append(q, f)
          PROVE  Append(q, f)[i] = f \/ \E k \in DOMAIN q : Append(q, f)[i] = q[k]
      <4>1. Append(q, f) \in Seq(Frame)
        BY Appends
      <4>2. i \in Nat
        BY <4>1
      <4> QED BY <4>2, Appends
    <3> QED BY <2>6, <3>1
  <2>8. ASSUME NEW s \in Server
        PROVE  NewFrames(s)' /\ \A n \in Nat : n # None /\ Has(s, n)' => Has(s, n)
    <3>1. NewFrames(s)
      BY DEF IdsFit
    <3>2. CASE s # c.srv
      BY <2>1, <2>6, <3>1, <3>2 DEF NewFrames, Has
    <3>3. CASE s = c.srv
      <4>0. ASSUME NEW i \in DOMAIN down'[s], down'[s][i].type = "new"
            PROVE  /\ down'[s][i].n # None
                   /\ \/ down'[s][i].n = opened[s]
                      \/ \E k \in DOMAIN down[s] : down[s][k].type = "new" /\ down[s][k].n = down'[s][i].n
        <5>1. down'[s][i] = f \/ \E k \in DOMAIN q : down'[s][i] = q[k]
          BY <2>7, <3>3
        <5>2. CASE down'[s][i] = f
          BY <2>3, <3>3, <4>0, <5>2
        <5>3. CASE \E k \in DOMAIN q : down'[s][i] = q[k]
          <6>1. PICK k \in DOMAIN down[s] : down'[s][i] = down[s][k]
            BY <2>5, <3>3, <5>3
          <6> QED BY <3>1, <4>0, <6>1 DEF NewFrames
        <5> QED BY <5>1, <5>2, <5>3
      <4>1. NewFrames(s)'
        BY <2>1, <3>1, <4>0 DEF NewFrames
      <4>2. ASSUME NEW n \in Nat, Has(s, n)' PROVE Has(s, n)
        <5>1. CASE \E i \in DOMAIN down'[s] : down'[s][i].type = "new" /\ down'[s][i].n = n
          BY <4>0, <5>1 DEF Has
        <5>2. CASE ~\E i \in DOMAIN down'[s] : down'[s][i].type = "new" /\ down'[s][i].n = n
          BY <2>1, <4>2, <5>2 DEF Has
        <5> QED BY <5>1, <5>2
      <4> QED BY <4>1, <4>2
    <3> QED BY <3>2, <3>3
  <2> QED BY <1>1, <2>1, <2>4, <2>8, IdsKept
<1>4. ASSUME UNCHANGED <<recorded, opened, count, down, loop>>,
             \A c \in Conn : player'[c].st = "early" => player[c].st = "early",
             \A i \in Stream : mapped'[i] \in {mapped[i], None}
      PROVE  IdsFit'
  <2>1. ASSUME NEW s \in Server
        PROVE  NewFrames(s)' /\ \A n \in Nat : n # None /\ Has(s, n)' => Has(s, n)
    BY <1>4 DEF IdsFit, NewFrames, Has
  <2> QED BY <1>1, <1>2, <1>4, <2>1, IdsKept
<1>5. ASSUME NEW c \in Conn, ServerHears(c) \/ LocalTask(c) \/ LocalEnds(c) PROVE IdsFit'
  <2>1. UNCHANGED <<recorded, opened, count, down, loop>>
    BY <1>5 DEF ServerHears, LocalTask, LocalEnds, ConnectLocal, ConnectFailed, WriteLocal,
       ChannelEnds, Inactive, SendStreamClose, Unmap, OnlyLocal, outside, tunnels
  <2>2. \A d \in Conn : player'[d].st = "early" => player[d].st = "early"
    <3>1. CASE ServerHears(c)
      BY <3>1 DEF ServerHears, PlayerState
    <3>2. CASE LocalTask(c) \/ LocalEnds(c)
      BY <3>2 DEF LocalTask, LocalEnds, ConnectLocal, ConnectFailed, WriteLocal,
         ChannelEnds, Inactive, SendStreamClose, Unmap, OnlyLocal, outside
    <3> QED BY <1>5, <3>1, <3>2
  <2>3. \A i \in Stream : mapped'[i] \in {mapped[i], None}
    BY <1>5 DEF ServerHears, LocalTask, LocalEnds, ConnectLocal, ConnectFailed, WriteLocal,
       ChannelEnds, Inactive, SendStreamClose, Unmap, OnlyLocal, Removed, maps
  <2> QED BY <1>4, <2>1, <2>2, <2>3
(* A step of the loop of s.                                                 *)
<1>6. ASSUME NEW s \in Server, NEW l \in LoopState, loop' = [loop EXCEPT ![s] = l],
             down' = down \/ (down[s] # <<>> /\ down' = [down EXCEPT ![s] = Tail(@)])
                          \/ down' = [down EXCEPT ![s] = <<>>],
             l.tid \in {loop[s].tid, recorded[s], None},
             \/ l.pc # "insert"
             \/ loop[s].pc = "insert" /\ l.frame = loop[s].frame
             \/ down[s] # <<>> /\ Head(down[s]).type = "new" /\ l.frame = Head(down[s]),
             \A t \in Server : /\ recorded'[t] \in {recorded[t], None}
                               /\ opened'[t] \in {opened[t], None},
             \A c \in Conn : player'[c].st = "early" => opened'[c.srv] # None,
             count' = count, \A i \in Stream : mapped'[i] <= count
      PROVE  IdsFit'
  <2>1. ASSUME NEW t \in Server
        PROVE  NewFrames(t)' /\ \A n \in Nat : n # None /\ Has(t, n)' => Has(t, n)
    <3>1. CASE t = s
      <4>1. down'[s] \in {down[s], <<>>, Tail(down[s])} /\ (down[s] = <<>> => down'[s] = <<>>)
        BY <1>6
      <4>2. loop'[s] = l
        BY <1>6
      <4> QED BY <1>6, <3>1, <4>1, <4>2, IdsOf
    <3>2. CASE t # s
      <4>1. down'[t] = down[t] /\ loop'[t] = loop[t]
        BY <1>6, <3>2
      <4> QED BY <1>6, <4>1, IdsOf
    <3> QED BY <3>1, <3>2
  <2> QED BY <1>6, <2>1, IdsKept
<1>7. ASSUME NEW s \in Server, FrameLoop(s) PROVE IdsFit'
  <2>1. \A t \in Server : recorded'[t] \in {recorded[t], None} /\ opened'[t] \in {opened[t], None}
    BY <1>7 DEF FrameLoop, HandleNew, InsertStream, HandleClose, HandleData, SendData, RefuseData,
       ForgetStream, Disconnect, CleanRead, CleanDrop, Read, tunnels
  <2>2. UNCHANGED <<count, opened, player>>
    BY <1>7 DEF FrameLoop, HandleNew, InsertStream, HandleClose, HandleData, SendData, RefuseData,
       ForgetStream, Disconnect, CleanRead, CleanDrop, Read, tunnels, outside
  <2>3. \A c \in Conn : player'[c].st = "early" => opened'[c.srv] # None
    BY <1>2, <2>2
  <2>4. CASE HandleNew(s)
    <3>1. PICK f : f = Head(down[s])
      OBVIOUS
    <3>2. /\ f.type = "new" /\ down[s] # <<>> /\ down' = [down EXCEPT ![s] = Tail(@)]
          /\ mapped' = [mapped EXCEPT ![f.conn.id] = f.n]
          /\ loop' = [loop EXCEPT ![s] = [pc |-> "insert", frame |-> f, to |-> Nothing, tid |-> None]]
      BY <2>4, <3>1 DEF HandleNew, Read, Then
    <3>3. f \in Frame /\ f = down[s][1] /\ 1 \in DOMAIN down[s] /\ f.n \in Nat
      <4>1. PICK q \in Seq(Frame) : q = down[s] /\ q # <<>>
        BY <3>2
      <4>2. f \in Frame /\ f = q[1] /\ 1 \in DOMAIN q
        BY <3>1, <4>1, Tails
      <4> QED BY <4>1, <4>2 DEF Frame
    <3>4. f.n <= count
      BY <3>2, <3>3 DEF IdsFit, Has
    <3>5. PICK l \in LoopState : l.frame = f /\ l.tid = None /\ loop' = [loop EXCEPT ![s] = l]
      <4> DEFINE l == [pc |-> "insert", frame |-> f, to |-> Nothing, tid |-> None]
      <4>1. l \in LoopState /\ l.frame = f /\ l.tid = None
        BY <3>3 DEF LoopState
      <4> QED BY <3>2, <4>1
    <3>6. \A i \in Stream : mapped'[i] <= count
      BY <1>1, <3>2, <3>4
    <3>7. down[s] # <<>> /\ Head(down[s]).type = "new" /\ l.frame = Head(down[s])
      BY <3>1, <3>2, <3>5
    <3>8. l.tid \in {loop[s].tid, recorded[s], None}
      BY <3>5
    <3> QED BY <1>6, <2>1, <2>2, <2>3, <3>2, <3>5, <3>6, <3>7, <3>8
  <2>5. CASE ~HandleNew(s)
    <3>1. \A i \in Stream : mapped'[i] \in {mapped[i], None}
      BY <1>7, <2>5 DEF FrameLoop, InsertStream, HandleClose, HandleData, SendData, RefuseData,
         ForgetStream, Disconnect, CleanRead, CleanDrop, maps
    <3>2. down' = down \/ (down[s] # <<>> /\ down' = [down EXCEPT ![s] = Tail(@)])
                       \/ down' = [down EXCEPT ![s] = <<>>]
      BY <1>7, <2>5 DEF FrameLoop, InsertStream, HandleClose, HandleData, SendData, RefuseData,
         ForgetStream, Disconnect, CleanRead, CleanDrop, Read, outside
    <3>3. loop' = [loop EXCEPT ![s] = loop'[s]] /\ loop'[s] \in LoopState
      BY <1>7, <2>5 DEF FrameLoop, InsertStream, HandleClose, HandleData, SendData, RefuseData,
         ForgetStream, Disconnect, CleanRead, CleanDrop, Then
    <3>4. /\ loop'[s].pc # "insert" \/ loop'[s] = loop[s]
          /\ loop'[s].tid \in {loop[s].tid, recorded[s], None}
      <4>1. CASE HandleClose(s)
        BY <4>1 DEF HandleClose
      <4>2. CASE HandleData(s)
        BY <4>2 DEF HandleData, Then
      <4>3. CASE RefuseData(s)
        BY <4>3 DEF RefuseData, LoopState
      <4>4. CASE SendData(s)
        BY <4>4, Loops DEF SendData, LoopState
      <4>5. CASE InsertStream(s) \/ ForgetStream(s) \/ Disconnect(s) \/ CleanDrop(s)
        BY <4>5, Loops DEF InsertStream, ForgetStream, Disconnect, CleanDrop
      <4>6. CASE CleanRead(s)
        BY <4>6, Loops DEF CleanRead
      <4> QED BY <1>7, <2>5, <4>1, <4>2, <4>3, <4>4, <4>5, <4>6 DEF FrameLoop
    <3>5. loop'[s].tid \in {loop[s].tid, recorded[s], None}
      BY <3>4
    <3>6. PICK l \in LoopState : l = loop'[s]
      BY <3>3
    <3>7. loop' = [loop EXCEPT ![s] = l]
      BY <3>3, <3>6
    <3>8. \A i \in Stream : mapped'[i] <= count
      BY <1>1, <3>1
    <3>9. l.pc # "insert" \/ (loop[s].pc = "insert" /\ l.frame = loop[s].frame)
      BY <3>4, <3>6
    <3> QED BY <1>6, <2>1, <2>2, <2>3, <3>2, <3>5, <3>6, <3>7, <3>8, <3>9
  <2> QED BY <2>4, <2>5
<1>8. ASSUME NEW s \in Server, Break(s) \/ Abort(s) \/ Connect(s) PROVE IdsFit'
  <2>1. /\ UNCHANGED <<recorded, count, mapped>>
        /\ \A t \in Server : recorded'[t] \in {recorded[t], None} /\ opened'[t] \in {opened[t], None}
    <3>1. CASE Abort(s)
      BY <3>1 DEF Abort, tunnels, maps
    <3>2. CASE Break(s) \/ Connect(s)
      <4>1. EndSession(s) /\ UNCHANGED <<recorded, count, mapped>>
        BY <3>2 DEF Break, Connect, maps
      <4> QED BY <4>1, SessionEnds
    <3> QED BY <1>8, <3>1, <3>2
  <2>2. ASSUME NEW c \in Conn, player'[c].st = "early" PROVE opened'[c.srv] # None
    <3>1. CASE Abort(s)
      BY <1>2, <2>2, <3>1 DEF Abort, tunnels
    <3>2. CASE Break(s) \/ Connect(s)
      <4>1. EndSession(s)
        BY <3>2 DEF Break, Connect
      <4>2. c.srv # s /\ player[c].st = "early" /\ opened'[c.srv] = opened[c.srv]
        BY <2>2, <4>1, SessionEnds, ConnParts
      <4> QED BY <1>2, <4>2
    <3> QED BY <1>8, <3>1, <3>2
  <2>3. PICK l \in LoopState : /\ l.pc # "insert" \/ l = loop[s]
                              /\ l.tid \in {loop[s].tid, None} /\ loop' = [loop EXCEPT ![s] = l]
    <3>1. loop = [loop EXCEPT ![s] = loop[s]] /\ loop[s] \in LoopState
      OBVIOUS
    <3>2. CASE Break(s)
      BY <3>1, <3>2 DEF Break
    <3>3. CASE Abort(s) \/ Connect(s)
      BY <3>3, Loops DEF Abort, Connect
    <3> QED BY <1>8, <3>2, <3>3
  <2>4. down' = down \/ down' = [down EXCEPT ![s] = <<>>]
    BY <1>8 DEF Break, Abort, Connect
  <2>5. l.pc # "insert" \/ (loop[s].pc = "insert" /\ l.frame = loop[s].frame)
    BY <2>3
  <2> QED BY <1>1, <1>6, <2>1, <2>2, <2>3, <2>4, <2>5
<1>9. ASSUME NEW s \in Server, SyncForgets(s) PROVE IdsFit'
  <2>1. loop = [loop EXCEPT ![s] = loop[s]] /\ loop[s] \in LoopState
    OBVIOUS
  <2>2. UNCHANGED <<player, down, opened, count, loop, mapped>>
    BY <1>9 DEF SyncForgets, outside, maps
  <2>3. \A t \in Server : recorded'[t] \in {recorded[t], None} /\ opened'[t] \in {opened[t], None}
    BY <1>9 DEF SyncForgets
  <2>4. PICK l \in LoopState : l = loop[s]
    BY <2>1
  <2>5. loop' = [loop EXCEPT ![s] = l]
    BY <2>1, <2>2, <2>4
  <2> QED BY <1>1, <1>2, <1>6, <2>2, <2>3, <2>4, <2>5
<1>10. ASSUME NEW s \in Server, SyncOpens(s) PROVE IdsFit'
  <2>1. /\ count' = count + 1 /\ count < MaxTunnels /\ recorded' = [recorded EXCEPT ![s] = count + 1]
        /\ opened' = opened \/ opened' = [opened EXCEPT ![s] = count + 1]
        /\ UNCHANGED <<player, down, loop, mapped>>
    BY <1>10 DEF SyncOpens, outside, maps
  <2>2. ASSUME NEW t \in Server, NEW n \in Nat, Has(t, n)' PROVE Has(t, n) \/ (t = s /\ n = count')
    BY <2>1, <2>2 DEF Has
  <2>3. \A t \in Server, n \in Nat : Has(t, n) => n <= count /\ n # count'
    BY <2>1 DEF IdsFit
  <2>4. count' <= MaxTunnels
    BY <2>1, BoundAssumption
  <2>5. ASSUME NEW t \in Server, NEW n \in Nat, Has(t, n)' PROVE n <= count'
    BY <2>1, <2>2, <2>3, <2>5
  <2>6. ASSUME NEW t \in Server, NEW u \in Server, NEW n \in Nat \ {None}, Has(t, n)', Has(u, n)'
        PROVE  t = u
    BY <2>2, <2>3, <2>6 DEF IdsFit
  <2>7. ASSUME NEW t \in Server PROVE NewFrames(t)'
    BY <2>1 DEF NewFrames, IdsFit
  <2>8. ASSUME NEW c \in Conn, player'[c].st = "early" PROVE opened'[c.srv] # None
    BY <1>2, <2>1, <2>8, ConnParts
  <2>9. \A i \in Stream : mapped'[i] <= count'
    BY <1>1, <2>1
  <2> QED BY <2>4, <2>5, <2>6, <2>7, <2>8, <2>9 DEF IdsFit
<1>11. CASE UNCHANGED vars
  BY <1>4, <1>11 DEF vars, outside, maps, tunnels
<1> QED BY <1>3, <1>5, <1>7, <1>8, <1>9, <1>10, <1>11 DEF Next

LEMMA InvarianceOfIds == Spec => []IdsFit
<1>1. Init => IdsFit
  BY Loops, ConnParts, BoundAssumption DEF Init, IdsFit, Has, NewFrames
<1> QED BY <1>1, IdsStep, Invariance, PTL DEF Spec

(* The streams, the maps, the loops and the local connections are well      *)
(* typed, no queue is longer than its channel, and no tunnel id is in use   *)
(* that was not given out.                                                  *)
THEOREM TypeCorrect == Spec => []TypeOK
<1>1. ASSUME IInv, IdsFit PROVE TypeOK
  <2>1. \A s \in Server : recorded[s] <= count /\ opened[s] <= count
    BY <1>1 DEF IInv, Shapes, IdsFit, Has
  <2>2. recorded \in [Server -> 0..count] /\ opened \in [Server -> 0..count]
        /\ mapped \in [Stream -> 0..count] /\ count \in 0..MaxTunnels
    BY <1>1, <2>1, BoundAssumption DEF IInv, Shapes, IdsFit
  <2> QED BY <1>1, <2>2, ConnParts
          DEF IInv, Shapes, Bounds, TypeOK, PlayerState, LoopState, LocalState
<1> QED BY <1>1, Invariance, InvarianceOfIds, PTL
(* A local connection that is over, or never came about, is told to the     *)
(* server as long as that has the stream open, whatever other servers,      *)
(* breaks and clean-ups do (client/src/main.rs 1066, 1123, 1199).           *)
THEOREM EndsAreTold == Spec => []EndIsTold
<1>1. IInv => EndIsTold
  BY DEF IInv, Ended, InSession, EndIsTold
<1> QED BY <1>1, Invariance, PTL

-----------------------------------------------------------------------------
(* The order of the data.  From here on no two streams have one number.     *)

JInv ==
    /\ IInv
    /\ \A i \in Stream : MapFits(i)
    /\ \A c \in Conn : OnTheWay(c) /\ InOrder(c) /\ Continued(c)
    /\ \A s \in Server : OwnFrames(s)

LEMMA OneOf ==
    ASSUME IInv, NoCollision, NEW c \in Conn, NEW d \in Conn, c.id = d.id,
           Known(c) \/ player[c].st # "none", Known(d) \/ player[d].st # "none"
    PROVE  c = d
BY DEF NoCollision, Known

(* What a stream's data is counted by.                                      *)
LEMMA Counts ==
    ASSUME IInv, NEW c \in Conn
    PROVE  /\ Arrived(c) \in Nat /\ Taken(c) \in Nat
           /\ local[c].pc = "none" => Arrived(c) = 0 /\ ~Held(c) /\ Taken(c) = 0
           /\ player[c].sent \in Nat
<1>1. /\ local[c].got \in Seq(Frame) /\ local[c].queue \in Seq(Frame) /\ player[c].sent \in Nat
      /\ local[c].pc = "none" => local[c].got = <<>> /\ local[c].queue = <<>>
  BY DEF IInv, Shapes, LocalState, PlayerState, Ended, InSession
<1>2. local[c].pc = "none" => ~Held(c)
  BY DEF IInv, AnnouncedOnce, Held
<1>3. /\ Len(local[c].got) \in Nat /\ Len(local[c].queue) \in Nat
      /\ local[c].pc = "none" => Len(local[c].got) = 0 /\ Len(local[c].queue) = 0
  <2>1. Len(local[c].got) \in Nat /\ Len(local[c].queue) \in Nat
    BY <1>1
  <2>2. ASSUME NEW q, q = <<>> PROVE Len(q) = 0
    BY <2>2
  <2>3. ASSUME local[c].pc = "none" PROVE Len(local[c].got) = 0 /\ Len(local[c].queue) = 0
    BY <1>1, <2>2, <2>3
  <2> QED BY <2>1, <2>3
<1>4. Arrived(c) \in Nat /\ (local[c].pc = "none" => Arrived(c) = 0)
  <2>1. \A m, n \in Nat : m + n \in Nat /\ (m = 0 /\ n = 0 => m + n = 0)
    OBVIOUS
  <2> QED BY <1>3, <2>1 DEF Arrived
<1>5. Taken(c) \in Nat /\ (local[c].pc = "none" => Taken(c) = 0)
  BY <1>2, <1>4 DEF Taken
<1> QED BY <1>1, <1>2, <1>4, <1>5

(* Nothing of a stream is at a place where its server has no frame.         *)
LEMMA Places ==
    ASSUME IInv, NEW c \in Conn, NEW i \in Nat, NewAt(c, i) \/ DataAt(c, i)
    PROVE  /\ i \in DOMAIN down[c.srv] /\ i # 0 /\ i <= Len(down[c.srv])
           /\ down[c.srv][i] \in Frame /\ down[c.srv][i].n \in Nat
<1>1. c.srv \in Server /\ down[c.srv] \in Seq(Frame)
  BY ConnParts DEF IInv, Shapes
<1>2. i \in DOMAIN down[c.srv]
  BY DEF NewAt, DataAt
<1>3. i # 0 /\ i <= Len(down[c.srv]) /\ down[c.srv][i] \in Frame
  BY <1>1, <1>2
<1> QED BY <1>2, <1>3 DEF Frame

(* Steps that leave the frames under way alone.                             *)
LEMMA WayStays ==
    ASSUME NEW c \in Conn, OnTheWay(c), down' = down,
           player'[c].sent = player[c].sent, Known(c) => Known(c)',
           player'[c].st = "open" /\ link'[c.srv] = "up" => player[c].st = "open" /\ link[c.srv] = "up",
           player'[c].st \in {"none", "early"} => player[c].st \in {"none", "early"},
           local'[c].pc = "none" => local[c].pc = "none" /\ (AtInsert(c) => AtInsert(c)')
    PROVE  OnTheWay(c)'
BY DEF OnTheWay, DataAt, NewAt

LEMMA OrderStays ==
    ASSUME NEW c \in Conn, InOrder(c), local'[c].got = local[c].got,
           local'[c].queue = local[c].queue \/ (local'[c].queue = <<>> /\ ~Receiving(c)'),
           Held(c)' /\ Receiving(c)' =>
               Held(c) /\ Receiving(c) /\ loop'[c.srv].frame = loop[c.srv].frame
    PROVE  InOrder(c)'
<1>1. CASE local'[c].queue = local[c].queue
  BY <1>1 DEF InOrder, Arrived
<1>2. CASE local'[c].queue = <<>> /\ ~Receiving(c)'
  BY <1>2 DEF InOrder
<1> QED BY <1>1, <1>2

LEMMA ContinuedStays ==
    ASSUME NEW c \in Conn, Continued(c), down' = down, player'[c].sent = player[c].sent,
           player'[c].st = "open" /\ link'[c.srv] = "up" => player[c].st = "open" /\ link[c.srv] = "up",
           Live(c)' => Live(c) /\ Taken(c)' = Taken(c)
    PROVE  Continued(c)'
BY DEF Continued, DataAt

LEMMA FramesStay ==
    ASSUME NEW s \in Server, OwnFrames(s), down'[s] \in {down[s], <<>>},
           \A c \in Conn : player[c].st # "none" => player'[c].st # "none",
           IInv, \/ loop'[s] = loop[s] \/ loop'[s].pc \notin Busy
                 \/ /\ loop[s].pc \in Busy /\ loop'[s].pc # "send"
                    /\ loop'[s].frame = loop[s].frame
    PROVE  OwnFrames(s)'
<1>1. \A i \in DOMAIN down[s] : down[s][i].conn \in Conn
  <2>1. down[s] \in Seq(Frame)
    BY DEF IInv, Shapes
  <2>2. \A i \in DOMAIN down[s] : down[s][i] \in Frame
    BY <2>1
  <2> QED BY <2>2 DEF Frame
<1>2. loop[s].pc \in Busy => loop[s].frame.conn \in Conn
  BY DEF IInv, LoopFits, Frame
<1>3. \A i \in DOMAIN down'[s] : down'[s] = down[s]
  OBVIOUS
<1> QED BY <1>1, <1>2, <1>3 DEF OwnFrames

LEMMA MapsStay ==
    ASSUME NEW i \in Stream, MapFits(i), streams'[i] = streams[i], mapped'[i] = mapped[i],
           \A c \in Conn : c.id = i /\ AtInsert(c)' =>
               AtInsert(c) /\ loop'[c.srv].frame = loop[c.srv].frame
    PROVE  MapFits(i)'
BY DEF MapFits

(* A local connection moves on: nobody else's data is concerned.            *)
LEMMA LocalKeepsOrder ==
    ASSUME JInv, IInv', NoCollision, NEW d \in Conn, local[d].pc # "none",
           NEW p \in LocalPc \ {"none"}, NEW q, NEW g,
           Moved(d, p, q, g), InOrder(d)',
           p \in {"connecting", "running", "failing"} =>
               Receiving(d) /\ Len(g) + Len(q) = Arrived(d),
           UNCHANGED <<player, down, link, loop>>,
           \/ UNCHANGED <<streams, mapped>>
           \/ /\ streams' = [streams EXCEPT ![d.id] = Nothing]
              /\ mapped' = [mapped EXCEPT ![d.id] = None]
    PROVE  JInv'
<1>1. ASSUME NEW c \in Conn PROVE OnTheWay(c)'
  BY WayStays DEF JInv, Moved, Known, AtInsert
<1>2. ASSUME NEW c \in Conn PROVE InOrder(c)'
  <2>1. CASE c = d
    BY <2>1
  <2>2. CASE c # d
    BY <2>2, OrderStays DEF JInv, Moved, Held, Receiving
  <2> QED BY <2>1, <2>2
<1>3. ASSUME NEW c \in Conn PROVE Continued(c)'
  <2>1. streams'[c.id] = c => streams[c.id] = c
    BY NothingElse, ConnParts DEF JInv, IInv, Shapes
  <2>2. Held(c)' <=> Held(c)
    BY DEF Held
  <2>3. CASE c = d
    <3>1. Live(c)' => Receiving(c)' /\ streams[c.id] = c
      BY <2>1, <2>3 DEF Live, Moved
    <3>2. Receiving(c)' => Receiving(c) /\ Arrived(c)' = Arrived(c)
      BY <2>3, Counts DEF JInv, Receiving, Arrived, Moved, LocalPc, IInv, Shapes, LocalState
    <3>3. Live(c)' => Live(c) /\ Taken(c)' = Taken(c)
      BY <2>2, <3>1, <3>2 DEF Live, Taken
    <3> QED BY <3>3, ContinuedStays DEF JInv
  <2>4. CASE c # d
    <3>1. local'[c] = local[c]
      BY <2>4 DEF Moved
    <3>2. Live(c)' => Live(c) /\ Taken(c)' = Taken(c)
      BY <2>1, <2>2, <3>1 DEF Live, Receiving, Taken, Arrived
    <3> QED BY <3>2, ContinuedStays DEF JInv
  <2> QED BY <2>3, <2>4
<1>4. ASSUME NEW s \in Server PROVE OwnFrames(s)'
  BY FramesStay DEF JInv
<1>5. ASSUME NEW i \in Stream PROVE MapFits(i)'
  <2>1. CASE streams'[i] = streams[i] /\ mapped'[i] = mapped[i]
    BY <2>1, MapsStay DEF JInv, AtInsert
  <2>2. CASE i = d.id /\ streams'[i] = Nothing /\ mapped'[i] = None
    <3>1. ASSUME NEW c \in Conn, c.id = i, AtInsert(c) PROVE FALSE
      <4>1. Known(c) /\ local[c].pc = "none" /\ Known(d)
        BY <3>1 DEF JInv, IInv, AnnouncedOnce
      <4> QED BY <2>2, <3>1, <4>1, OneOf DEF JInv
    <3> QED BY <2>2, <3>1 DEF MapFits, AtInsert
  <2> QED BY <2>1, <2>2, ConnParts DEF JInv, IInv, Shapes
<1> QED BY <1>1, <1>2, <1>3, <1>4, <1>5 DEF JInv

(* What a connection that stops receiving has is in order.                  *)
LEMMA StopsInOrder ==
    ASSUME NEW d \in Conn, InOrder(d), NEW p \in {"telling", "unmap", "done"},
           Moved(d, p, <<>>, local[d].got)
    PROVE  InOrder(d)'
<1>1. ~Receiving(d)' /\ local'[d].queue = <<>> /\ local'[d].got = local[d].got
  BY DEF Moved, Receiving
<1> QED BY <1>1, OrderStays

LEMMA LocalTaskInOrder ==
    ASSUME JInv, IInv', NoCollision, NEW d \in Conn, LocalTask(d) \/ LocalEnds(d)
    PROVE  JInv'
<1>0. IInv /\ Shapes /\ InOrder(d)
  BY DEF JInv, IInv
<1>1. CASE ConnectLocal(d)
  <2>1. local[d].pc = "connecting" /\ UNCHANGED <<player, down, link, loop, streams, mapped>>
    BY <1>1 DEF ConnectLocal, LocalAt, OnlyLocal, outside, maps
  <2>2. PICK p \in {"running", "failing"} : Moved(d, p, local[d].queue, local[d].got)
    BY <1>0, <1>1, PcMoves DEF ConnectLocal, LocalTo, LocalPc
  <2>3. InOrder(d)'
    BY <1>0, <2>1, <2>2, OrderStays DEF Moved, Held, Receiving
  <2>4. p \in LocalPc \ {"none"} /\ Receiving(d)
    BY <2>1 DEF LocalPc, Receiving
  <2>5. Len(local[d].got) + Len(local[d].queue) = Arrived(d)
    BY DEF Arrived
  <2> QED BY <2>1, <2>2, <2>3, <2>4, <2>5, LocalKeepsOrder
<1>2. CASE WriteLocal(d)
  <2> DEFINE q == local[d].queue
             g == local[d].got
             a == Append(g, Head(q))
  <2>1. /\ q \in Seq(Frame) /\ q # <<>> /\ g \in Seq(Frame) /\ local[d].pc = "running"
        /\ Moved(d, "running", Tail(q), a)
    BY <1>0, <1>2, Writes
  <2>2. UNCHANGED <<player, down, link, loop, streams, mapped>>
    BY <1>2 DEF WriteLocal, OnlyLocal, outside, maps
  <2>3. Head(q) = Data(d, Len(g) + 1) /\ Head(q) \in Frame
    BY <1>0, <2>1, Tails DEF InOrder
  <2>4. /\ Len(a) = Len(g) + 1 /\ Len(Tail(q)) = Len(q) - 1 /\ Len(g) \in Nat /\ Len(q) \in Nat
        /\ Len(a) + Len(Tail(q)) = Arrived(d)
    <3>1. Len(a) = Len(g) + 1
      BY <2>1, <2>3, Appends
    <3>2. Len(Tail(q)) = Len(q) - 1 /\ Len(g) \in Nat /\ Len(q) \in Nat
      BY <2>1, Tails
    <3> HIDE DEF a, q, g
    <3>3. \A x, y \in Nat : (x + 1) + (y - 1) = x + y
      OBVIOUS
    <3>4. Len(a) + Len(Tail(q)) = Len(g) + Len(q)
      BY <3>1, <3>2, <3>3, Zenon
    <3> QED BY <3>1, <3>2, <3>4 DEF Arrived, q, g
  <2>5. \A k \in DOMAIN a : a[k] = Data(d, k)
    <3>1. ASSUME NEW k \in DOMAIN a PROVE a[k] = Data(d, k)
      <4>1. k \in DOMAIN g \/ k = Len(g) + 1
        BY <2>1, <2>3, Appends
      <4> QED BY <1>0, <2>1, <2>3, <4>1, Appends DEF InOrder
    <3> QED BY <3>1
  <2>6. \A k \in DOMAIN Tail(q) : Tail(q)[k] = Data(d, Len(a) + k)
    <3>1. ASSUME NEW k \in DOMAIN Tail(q) PROVE Tail(q)[k] = Data(d, Len(a) + k)
      <4>1. k \in Nat /\ k + 1 \in DOMAIN q /\ Tail(q)[k] = q[k + 1]
        BY <2>1, Tails
      <4>2. q[k + 1] = Data(d, Len(g) + (k + 1))
        BY <1>0, <4>1 DEF InOrder
      <4>3. Len(g) + (k + 1) = Len(a) + k
        <5> HIDE DEF a, q, g
        <5> QED BY <2>4, <4>1
      <4> QED BY <4>1, <4>2, <4>3
    <3> QED BY <3>1
  <2>7. Held(d)' /\ Receiving(d)' => loop'[d.srv].frame = Data(d, Arrived(d)' + 1)
    <3>1. (Held(d)' <=> Held(d)) /\ Receiving(d)
      BY <2>1, <2>2 DEF Held, Receiving
    <3>2. Arrived(d)' = Arrived(d)
      BY <2>1, <2>4 DEF Arrived, Moved
    <3> QED BY <1>0, <2>2, <3>1, <3>2 DEF InOrder
  <2>8. InOrder(d)'
    BY <2>1, <2>5, <2>6, <2>7 DEF InOrder, Moved
  <2>9. "running" \in LocalPc \ {"none"} /\ Receiving(d)
    BY <2>1 DEF LocalPc, Receiving
  <2> HIDE DEF q, g, a
  <2> QED BY <2>1, <2>2, <2>4, <2>8, <2>9, LocalKeepsOrder
<1>3. CASE ChannelEnds(d) \/ Inactive(d) \/ LocalEnds(d)
  <2>1. local[d].pc = "running" /\ Quit(d) /\ OnlyLocal
    BY <1>3 DEF ChannelEnds, Inactive, LocalEnds, LocalAt
  <2>2. UNCHANGED <<player, down, link, loop, streams, mapped>>
    BY <2>1 DEF OnlyLocal, outside, maps
  <2>3. Moved(d, "telling", <<>>, local[d].got)
    BY <1>0, <2>1, Quits DEF Quit, LocalPc
  <2>4. InOrder(d)'
    BY <1>0, <2>3, StopsInOrder
  <2>5. "telling" \in LocalPc \ {"none"}
    BY DEF LocalPc
  <2> QED BY <2>1, <2>2, <2>3, <2>4, <2>5, LocalKeepsOrder
<1>4. CASE SendStreamClose(d)
  <2>1. /\ local[d].pc = "telling" /\ local[d].queue = <<>>
        /\ UNCHANGED <<player, down, link, loop, streams, mapped>>
    BY <1>0, <1>4 DEF SendStreamClose, LocalAt, maps, IInv, Ended, InSession
  <2>2. Moved(d, "unmap", <<>>, local[d].got)
    BY <1>0, <1>4, <2>1, PcMoves DEF SendStreamClose, LocalTo, LocalPc
  <2>3. InOrder(d)' /\ "unmap" \in LocalPc \ {"none"}
    BY <1>0, <2>2, StopsInOrder DEF LocalPc
  <2> QED BY <2>1, <2>2, <2>3, LocalKeepsOrder
<1>5. CASE ConnectFailed(d)
  <2>1. /\ local[d].pc = "failing" /\ UNCHANGED <<player, down, link, loop>>
        /\ streams' = [streams EXCEPT ![d.id] = Nothing]
        /\ mapped' = [mapped EXCEPT ![d.id] = None]
    BY <1>5 DEF ConnectFailed, LocalAt, Removed
  <2>2. Moved(d, "done", <<>>, local[d].got)
    BY <1>0, <1>5, Quits DEF ConnectFailed, LocalPc
  <2>3. InOrder(d)' /\ "done" \in LocalPc \ {"none"}
    BY <1>0, <2>2, StopsInOrder DEF LocalPc
  <2> QED BY <2>1, <2>2, <2>3, LocalKeepsOrder
<1>6. CASE Unmap(d)
  <2>1. /\ local[d].pc = "unmap" /\ local[d].queue = <<>> /\ UNCHANGED <<player, down, link, loop>>
        /\ streams' = [streams EXCEPT ![d.id] = Nothing]
        /\ mapped' = [mapped EXCEPT ![d.id] = None]
    BY <1>0, <1>6 DEF Unmap, LocalAt, Removed, outside, IInv, Ended, InSession
  <2>2. Moved(d, "done", <<>>, local[d].got)
    BY <1>0, <1>6, <2>1, PcMoves DEF Unmap, LocalTo, LocalPc
  <2>3. InOrder(d)' /\ "done" \in LocalPc \ {"none"}
    BY <1>0, <2>2, StopsInOrder DEF LocalPc
  <2> QED BY <2>1, <2>2, <2>3, LocalKeepsOrder
<1> QED BY <1>1, <1>2, <1>3, <1>4, <1>5, <1>6 DEF LocalTask

(* The steps that leave the local connections as they are, and the frames   *)
(* under way unless nobody is left to read them.                            *)
Silent(s) == down'[s] = <<>> /\ link'[s] # "up"
LEMMA AsideInOrder ==
    ASSUME JInv, IInv', NoCollision, local' = local,
           \A s \in Server : down'[s] = down[s] \/ Silent(s),
           \A c \in Conn : /\ player'[c].sent = player[c].sent
                           /\ player'[c].st = player[c].st
                              \/ (player[c].st # "none" /\ player'[c].st = "closed")
                           /\ player'[c].st = "open" /\ link'[c.srv] = "up" => link[c.srv] = "up",
           \A s \in Server :
              \/ loop'[s] = loop[s]
              \/ /\ loop[s].pc \notin {"insert", "send"} \/ Silent(s)
                 /\ loop'[s].pc \notin {"insert", "send"}
                 /\ loop'[s].pc \notin Busy \/ (loop[s].pc \in Busy /\ loop'[s].frame = loop[s].frame),
           \A i \in Stream : \/ streams'[i] = streams[i] /\ mapped'[i] = mapped[i]
                             \/ /\ streams'[i] = Nothing /\ mapped'[i] = None
                                /\ \A c \in Conn : c.id = i => ~AtInsert(c)
    PROVE  JInv'
<1>1. ASSUME NEW c \in Conn
      PROVE  /\ AtInsert(c)' => AtInsert(c) /\ loop'[c.srv] = loop[c.srv]
             /\ Held(c)' => Held(c) /\ loop'[c.srv] = loop[c.srv]
             /\ Known(c) => Known(c)'
             /\ ~Silent(c.srv) => (AtInsert(c)' <=> AtInsert(c)) /\ (Held(c)' <=> Held(c))
  BY ConnParts DEF AtInsert, Held, Known
<1>2. ASSUME NEW c \in Conn PROVE InOrder(c)'
  BY <1>1, OrderStays DEF JInv, Receiving
<1>3. ASSUME NEW c \in Conn PROVE OnTheWay(c)' /\ Continued(c)'
  <2>1. CASE Silent(c.srv)
    <3>1. \A i \in Nat : ~DataAt(c, i)' /\ ~NewAt(c, i)'
      BY <2>1 DEF DataAt, NewAt, Silent
    <3>2. player'[c].st \in {"none", "early"} => player'[c].sent = 0
      BY DEF JInv, OnTheWay
    <3> QED BY <2>1, <3>1, <3>2 DEF OnTheWay, Continued, Silent
  <2>2. CASE ~Silent(c.srv)
    <3>1. down'[c.srv] = down[c.srv]
      BY <2>2, ConnParts
    <3>2. \A i \in Nat : (DataAt(c, i)' <=> DataAt(c, i)) /\ (NewAt(c, i)' <=> NewAt(c, i))
      BY <3>1 DEF DataAt, NewAt
    <3>3. OnTheWay(c)'
      BY <1>1, <2>2, <3>1, <3>2 DEF JInv, OnTheWay
    <3>4. streams'[c.id] = c => streams[c.id] = c
      BY NothingElse, ConnParts
    <3>5. Live(c)' => Live(c) /\ Taken(c)' = Taken(c)
      BY <1>1, <2>2, <3>4 DEF Live, Receiving, Taken, Arrived
    <3>6. Continued(c)'
      BY <3>1, <3>2, <3>5 DEF JInv, Continued
    <3> QED BY <3>3, <3>6
  <2> QED BY <2>1, <2>2
<1>4. ASSUME NEW s \in Server PROVE OwnFrames(s)'
  <2>1. down'[s] \in {down[s], <<>>}
    BY DEF Silent
  <2>2. \A c \in Conn : player[c].st # "none" => player'[c].st # "none"
    OBVIOUS
  <2> QED BY <2>1, <2>2, FramesStay DEF JInv
<1>5. ASSUME NEW i \in Stream PROVE MapFits(i)'
  <2>1. CASE streams'[i] = streams[i] /\ mapped'[i] = mapped[i]
    BY <1>1, <2>1, MapsStay DEF JInv
  <2>2. CASE streams'[i] = Nothing /\ \A c \in Conn : c.id = i => ~AtInsert(c)
    BY <1>1, <2>2 DEF MapFits
  <2> QED BY <2>1, <2>2
<1> QED BY <1>2, <1>3, <1>4, <1>5 DEF JInv

LEMMA ServerHearsInOrder ==
    ASSUME JInv, IInv', NoCollision, NEW d \in Conn, ServerHears(d)
    PROVE  JInv'
<1>1. \A c \in Conn : /\ player'[c].sent = player[c].sent
                      /\ player'[c].st = player[c].st
                         \/ (player[c].st # "none" /\ player'[c].st = "closed")
  BY DEF JInv, IInv, Shapes, PlayerState, ServerHears
<1>2. UNCHANGED <<down, link, local, loop, streams, mapped>>
  BY DEF ServerHears, maps
<1> QED BY <1>1, <1>2, AsideInOrder

(* The steps of the link and of the loop without a frame.                   *)
LEMMA LinkInOrder ==
    ASSUME JInv, IInv', NoCollision, NEW s \in Server,
           Break(s) \/ Connect(s) \/ SyncOpens(s) \/ SyncForgets(s) \/ RefuseData(s) \/ CleanRead(s)
    PROVE  JInv'
<1>1. UNCHANGED <<down, local, streams, mapped>>
  BY DEF Break, Connect, SyncOpens, SyncForgets, RefuseData, CleanRead, outside, maps
<1>2. ASSUME NEW c \in Conn
      PROVE  /\ player'[c].sent = player[c].sent
             /\ player'[c].st = player[c].st
                \/ (player[c].st # "none" /\ player'[c].st = "closed")
             /\ player'[c].st = "open" /\ link'[c.srv] = "up" => link[c.srv] = "up"
  <2>1. CASE SyncOpens(s) \/ SyncForgets(s) \/ RefuseData(s) \/ CleanRead(s)
    BY <2>1 DEF SyncOpens, SyncForgets, RefuseData, CleanRead, outside
  <2>2. CASE Break(s) \/ Connect(s)
    <3>1. EndSession(s) /\ \A t \in Server : t # s => link'[t] = link[t]
      BY <2>2 DEF Break, Connect, JInv, IInv, Shapes
    <3>2. /\ player'[c].sent = player[c].sent
          /\ c.srv = s => player'[c].st = IF player[c].st # "none" THEN "closed" ELSE "none"
          /\ c.srv # s => player'[c].st = player[c].st
      BY <3>1, SessionEnds DEF JInv, IInv
    <3> QED BY <3>1, <3>2, ConnParts
  <2> QED BY <2>1, <2>2
<1>3. ASSUME NEW t \in Server
      PROVE  \/ loop'[t] = loop[t]
             \/ /\ loop[t].pc \notin {"insert", "send"} /\ loop'[t].pc \notin {"insert", "send"}
                /\ loop'[t].pc \notin Busy \/ (loop[t].pc \in Busy /\ loop'[t].frame = loop[t].frame)
  <2>1. CASE Break(s) \/ SyncOpens(s) \/ SyncForgets(s)
    BY <2>1 DEF Break, SyncOpens, SyncForgets
  <2>2. CASE Connect(s)
    BY <2>2, Loops DEF Connect, JInv, IInv, Shapes
  <2>3. CASE RefuseData(s)
    BY <2>3 DEF RefuseData, JInv, IInv, Shapes, LoopState
  <2>4. CASE CleanRead(s)
    BY <2>4, Loops DEF CleanRead, JInv, IInv, Shapes
  <2> QED BY <2>1, <2>2, <2>3, <2>4
<1> QED BY <1>1, <1>2, <1>3, AsideInOrder

LEMMA StopInOrder ==
    ASSUME JInv, IInv', NoCollision, NEW s \in Server, Disconnect(s) \/ Abort(s)
    PROVE  JInv'
<1>1. UNCHANGED <<player, local, streams, mapped>> /\ down' = [down EXCEPT ![s] = <<>>]
  BY DEF Disconnect, Abort, maps
<1>2. \A t \in Server : down'[t] = IF t = s THEN <<>> ELSE down[t]
  BY <1>1 DEF JInv, IInv, Shapes
<1>3. link'[s] # "up" /\ \A t \in Server : t # s => link'[t] = link[t]
  BY DEF Disconnect, Abort, JInv, IInv, Shapes
<1>4. loop'[s].pc \in Away /\ \A t \in Server : t # s => loop'[t] = loop[t]
  BY Loops DEF Disconnect, Abort, JInv, IInv, Shapes
<1>5. Silent(s)
  BY <1>2, <1>3 DEF Silent
<1>6. \A t \in Server : down'[t] = down[t] \/ Silent(t)
  BY <1>2, <1>5
<1>7. \A t \in Server :
         \/ loop'[t] = loop[t]
         \/ Silent(t) /\ loop'[t].pc \notin {"insert", "send"} /\ loop'[t].pc \notin Busy
  BY <1>4, <1>5
<1>8. \A c \in Conn : link'[c.srv] = "up" => link[c.srv] = "up"
  BY <1>3, ConnParts
<1> QED BY <1>1, <1>6, <1>7, <1>8, AsideInOrder

LEMMA ForgetStreamInOrder ==
    ASSUME JInv, IInv', NoCollision, NEW s \in Server, ForgetStream(s)
    PROVE  JInv'
<1> DEFINE f == loop[s].frame
<1>1. /\ loop[s].pc = "forget" /\ f.conn \in Conn /\ f.conn.id \in Stream /\ f.conn.srv = s
      /\ player[f.conn].st # "none"
  BY DEF JInv, IInv, LoopFits, OwnFrames, ForgetStream, Frame, Conn
<1>2. /\ streams' = [streams EXCEPT ![f.conn.id] = Nothing]
      /\ mapped' = [mapped EXCEPT ![f.conn.id] = None]
      /\ loop' = [loop EXCEPT ![s] = Reading] /\ Reading.pc = "read"
      /\ UNCHANGED <<player, down, link, local>>
  BY Loops DEF ForgetStream, outside
<1> HIDE DEF f
<1>3. ASSUME NEW c \in Conn, c.id = f.conn.id PROVE ~AtInsert(c)
  <2>1. ASSUME AtInsert(c) PROVE FALSE
    <3>1. Known(c)
      BY <2>1 DEF JInv, IInv, AnnouncedOnce
    <3>2. c = f.conn
      BY <1>1, <1>3, <3>1, OneOf DEF JInv
    <3> QED BY <1>1, <2>1, <3>2 DEF AtInsert
  <2> QED BY <2>1
<1>4. \A i \in Stream : \/ streams'[i] = streams[i] /\ mapped'[i] = mapped[i]
                        \/ /\ streams'[i] = Nothing /\ mapped'[i] = None
                           /\ \A c \in Conn : c.id = i => ~AtInsert(c)
  BY <1>1, <1>2, <1>3 DEF JInv, IInv, Shapes
<1>5. \A t \in Server : loop'[t] = loop[t] \/ (t = s /\ loop'[t].pc = "read" /\ loop[t].pc = "forget")
  BY <1>1, <1>2 DEF JInv, IInv, Shapes
<1> QED BY <1>2, <1>4, <1>5, AsideInOrder

(* The clean-up drops no stream that a loop is entering: the id it goes by  *)
(* belongs to its own server, whose loop is at the clean-up.                *)
LEMMA CleanDropInOrder ==
    ASSUME JInv, IInv', IdsFit, NoCollision, NEW s \in Server, CleanDrop(s)
    PROVE  JInv'
<1>1. /\ loop[s].pc = "drop" /\ loop' = [loop EXCEPT ![s] = Out]
      /\ UNCHANGED <<player, down, link, local>>
  BY DEF CleanDrop, outside
<1>2. \A i \in Stream : \/ streams'[i] = streams[i] /\ mapped'[i] = mapped[i]
                        \/ streams'[i] = Nothing /\ mapped'[i] = None /\ mapped[i] = loop[s].tid
  BY DEF CleanDrop
<1>3. ASSUME NEW c \in Conn, AtInsert(c), mapped[c.id] = loop[s].tid PROVE FALSE
  <2>1. c.srv \in Server /\ c.id \in Stream /\ loop[c.srv].pc = "insert"
        /\ loop[c.srv].frame \in Frame
    BY <1>3, ConnParts DEF AtInsert, JInv, IInv, LoopFits
  <2>2. PICK n \in Nat : n = loop[c.srv].frame.n
    BY <2>1 DEF Frame
  <2>3. n # None /\ n = loop[s].tid
    BY <1>3, <2>1, <2>2 DEF JInv, MapFits, IdsFit, NewFrames
  <2>4. Has(s, n) /\ Has(c.srv, n)
    BY <2>1, <2>2, <2>3 DEF Has
  <2>5. c.srv = s
    BY <2>1, <2>3, <2>4 DEF IdsFit
  <2> QED BY <1>1, <2>1, <2>5
<1>4. \A i \in Stream : \/ streams'[i] = streams[i] /\ mapped'[i] = mapped[i]
                        \/ /\ streams'[i] = Nothing /\ mapped'[i] = None
                           /\ \A c \in Conn : c.id = i => ~AtInsert(c)
  BY <1>2, <1>3
<1>5. \A t \in Server : loop'[t] = loop[t] \/ (t = s /\ loop'[t].pc = "out")
  BY <1>1, Loops DEF JInv, IInv, Shapes
<1> QED BY <1>1, <1>4, <1>5, AsideInOrder

LEMMA InsertStreamInOrder ==
    ASSUME JInv, IInv', IdsFit, NoCollision, NEW s \in Server, InsertStream(s)
    PROVE  JInv'
<1> DEFINE d == loop[s].frame.conn
<1>1. /\ loop[s].pc = "insert" /\ d \in Conn /\ d.srv = s /\ d.id \in Stream /\ AtInsert(d)
      /\ player[d].st # "none" /\ local[d].pc = "none" /\ Known(d)
  BY DEF JInv, IInv, LoopFits, OwnFrames, InsertStream, Frame, Conn, AtInsert, AnnouncedOnce
<1>2. /\ streams' = [streams EXCEPT ![d.id] = d]
      /\ local' = [local EXCEPT ![d].pc = "connecting"]
      /\ loop' = [loop EXCEPT ![s] = Reading]
      /\ UNCHANGED <<player, down, link, mapped>>
  BY DEF InsertStream, outside
<1> HIDE DEF d
<1>3. Moved(d, "connecting", local[d].queue, local[d].got)
  BY <1>1, <1>2, PcMoves DEF JInv, IInv, LocalPc
<1>4. /\ loop'[s].pc = "read" /\ loop'[s].to = Nothing /\ \A t \in Server : t # s => loop'[t] = loop[t]
  BY <1>2, Loops DEF JInv, IInv, Shapes
<1>5. ASSUME NEW c \in Conn PROVE OnTheWay(c)'
  <2>1. local'[c].pc = "none" => local[c].pc = "none" /\ c # d
    BY <1>3 DEF Moved
  <2>2. c # d => (AtInsert(c) => AtInsert(c)')
    BY <1>1, <1>4, ConnParts DEF AtInsert, d
  <2> QED BY <1>2, <2>1, <2>2, WayStays DEF JInv, Known
<1>6. ASSUME NEW c \in Conn PROVE Held(c)' <=> Held(c)
  BY <1>1, <1>4, ConnParts DEF Held
<1>7. ASSUME NEW c \in Conn PROVE InOrder(c)'
  <2>1. Held(c) => loop'[c.srv] = loop[c.srv]
    BY <1>1, <1>4, ConnParts DEF Held
  <2>2. Held(c) => local[c].pc # "none"
    BY DEF Held, JInv, IInv, AnnouncedOnce
  <2>3. Held(c) /\ Receiving(c)' => Receiving(c)
    BY <1>1, <1>3, <2>2 DEF Moved, Receiving
  <2>4. local'[c].queue = local[c].queue /\ local'[c].got = local[c].got
    BY <1>3 DEF Moved
  <2> QED BY <1>6, <2>1, <2>3, <2>4, OrderStays DEF JInv
<1>8. ASSUME NEW c \in Conn PROVE Continued(c)'
  <2>1. Taken(c)' = Taken(c)
    BY <1>3, <1>6 DEF Taken, Arrived, Moved
  <2>2. Live(c)' => Live(c)
    <3>1. CASE c = d
      BY <1>1, <3>1 DEF Live
    <3>2. CASE c # d
      <4>1. streams'[c.id] = c => streams[c.id] = c
        BY <1>1, <1>2, <3>2, ConnParts DEF JInv, IInv, Shapes
      <4> QED BY <1>3, <3>2, <4>1 DEF Live, Receiving, Moved
    <3> QED BY <3>1, <3>2
  <2> QED BY <1>2, <2>1, <2>2, ContinuedStays DEF JInv
<1>9. ASSUME NEW t \in Server PROVE OwnFrames(t)'
  BY <1>2, <1>4, FramesStay DEF JInv
<1>10. ASSUME NEW i \in Stream PROVE MapFits(i)'
  <2>1. CASE i = d.id
    <3>1. mapped'[i] # None
      BY <1>1, <1>2, <2>1 DEF JInv, MapFits, IdsFit, NewFrames, d
    <3>2. ASSUME NEW c \in Conn, c.id = i, AtInsert(c)' PROVE FALSE
      <4>1. Known(c) /\ local'[c].pc = "none"
        BY <1>2, <3>2 DEF IInv, AnnouncedOnce, Known
      <4>2. c = d
        BY <1>1, <2>1, <3>2, <4>1, OneOf DEF JInv
      <4> QED BY <1>3, <4>1, <4>2 DEF Moved
    <3> QED BY <3>1, <3>2 DEF MapFits
  <2>2. CASE i # d.id
    <3>1. streams'[i] = streams[i] /\ mapped'[i] = mapped[i]
      BY <1>2, <2>2 DEF JInv, IInv, Shapes
    <3>2. ASSUME NEW c \in Conn, c.id = i, AtInsert(c)'
          PROVE  AtInsert(c) /\ loop'[c.srv] = loop[c.srv]
      BY <1>1, <1>4, <2>2, <3>2, ConnParts DEF AtInsert, d
    <3> QED BY <3>1, <3>2, MapsStay DEF JInv
  <2> QED BY <2>1, <2>2
<1> QED BY <1>5, <1>7, <1>8, <1>9, <1>10 DEF JInv

(* Reading the first frame moves the others up.                             *)
LEMMA Reads ==
    ASSUME IInv, NEW s \in Server, down[s] # <<>>, down' = [down EXCEPT ![s] = Tail(@)],
           NEW c \in Conn, NEW i \in Nat, NEW k \in Nat, k = i + 1
    PROVE  /\ c.srv = s =>
                /\ NewAt(c, i)' => NewAt(c, k)
                /\ DataAt(c, i)' => DataAt(c, k)
                /\ NewAt(c, k) /\ k # 1 => NewAt(c, i)'
                /\ DataAt(c, k) /\ k # 1 => DataAt(c, i)'
                /\ DataAt(c, i)' => down'[c.srv][i] = down[c.srv][k]
           /\ c.srv # s =>
                /\ (NewAt(c, i)' <=> NewAt(c, i)) /\ (DataAt(c, i)' <=> DataAt(c, i))
                /\ down'[c.srv] = down[c.srv]
<1>1. down[s] \in Seq(Frame) /\ down'[s] = Tail(down[s]) /\ \A t \in Server : t # s => down'[t] = down[t]
  BY DEF IInv, Shapes
<1>2. CASE c.srv = s
  <2>1. PICK q \in Seq(Frame) : q = down[s]
    BY <1>1
  <2>2. q # <<>> /\ down'[s] = Tail(q)
    BY <1>1, <2>1
  <2>3. /\ i \in DOMAIN Tail(q) => k \in DOMAIN q /\ Tail(q)[i] = q[k]
        /\ k \in DOMAIN q /\ k # 1 => i \in DOMAIN Tail(q)
    BY <2>2, Tails
  <2> QED BY <1>2, <2>1, <2>2, <2>3 DEF NewAt, DataAt
<1>3. CASE c.srv # s
  <2>1. down'[c.srv] = down[c.srv]
    BY <1>1, <1>3, ConnParts
  <2> QED BY <1>3, <2>1 DEF NewAt, DataAt
<1> QED BY <1>2, <1>3

(* Every place but the first has one before it, and every place one behind. *)
LEMMA Neighbours ==
    /\ \A i \in Nat : \E k \in Nat : k = i + 1
    /\ \A k \in Nat : k # 0 => \E i \in Nat : k = i + 1
<1>1. \A k \in Nat : k # 0 => k - 1 \in Nat /\ k = (k - 1) + 1
  OBVIOUS
<1>2. \A i \in Nat : i + 1 \in Nat
  OBVIOUS
<1> QED BY <1>1, <1>2

LEMMA Shifts ==
    ASSUME IInv, NEW s \in Server, down[s] # <<>>, down' = [down EXCEPT ![s] = Tail(@)],
           NEW c \in Conn, c.srv = s
    PROVE  /\ \A i \in Nat : DataAt(c, i)' =>
                 \E k \in Nat : k = i + 1 /\ DataAt(c, k) /\ down'[c.srv][i] = down[c.srv][k]
           /\ \A k \in Nat : NewAt(c, k) /\ k # 1 => \E i \in Nat : k = i + 1 /\ NewAt(c, i)'
           /\ \A k \in Nat : DataAt(c, k) /\ k # 1 =>
                 \E i \in Nat : k = i + 1 /\ DataAt(c, i)' /\ down'[c.srv][i] = down[c.srv][k]
<1>0. \A i, k \in Nat : k = i + 1 /\ i \in DOMAIN down'[s] => down'[s][i] = down[s][k]
  <2>1. PICK q \in Seq(Frame) : q = down[s] /\ q # <<>>
    BY DEF IInv, Shapes
  <2>2. down'[s] = Tail(q)
    BY <2>1 DEF IInv, Shapes
  <2>3. ASSUME NEW i \in Nat, NEW k \in Nat, k = i + 1, i \in DOMAIN down'[s]
        PROVE  down'[s][i] = down[s][k]
    <3>1. i \in DOMAIN Tail(q)
      BY <2>2, <2>3
    <3>2. Tail(q)[i] = q[k]
      BY <2>1, <2>3, <3>1, Tails
    <3> QED BY <2>1, <2>2, <3>2
  <2> QED BY <2>3
<1>1. ASSUME NEW i \in Nat, DataAt(c, i)'
      PROVE  \E k \in Nat : k = i + 1 /\ DataAt(c, k) /\ down'[c.srv][i] = down[c.srv][k]
  <2>1. PICK k \in Nat : k = i + 1
    BY Neighbours
  <2>2. DataAt(c, k)
    BY <1>1, <2>1, Reads
  <2>3. down'[c.srv][i] = down[c.srv][k]
    BY <1>0, <1>1, <2>1 DEF DataAt
  <2> QED BY <2>1, <2>2, <2>3
<1>2. ASSUME NEW k \in Nat, NewAt(c, k), k # 1
      PROVE  \E i \in Nat : k = i + 1 /\ NewAt(c, i)'
  <2>1. k # 0
    BY <1>2, Places
  <2>2. PICK i \in Nat : k = i + 1
    BY <2>1, Neighbours
  <2> QED BY <1>2, <2>2, Reads
<1>3. ASSUME NEW k \in Nat, DataAt(c, k), k # 1
      PROVE  \E i \in Nat : k = i + 1 /\ DataAt(c, i)' /\ down'[c.srv][i] = down[c.srv][k]
  <2>1. k # 0
    BY <1>3, Places
  <2>2. PICK i \in Nat : k = i + 1
    BY <2>1, Neighbours
  <2>3. DataAt(c, i)'
    BY <1>3, <2>2, Reads
  <2>4. down'[c.srv][i] = down[c.srv][k]
    BY <1>0, <2>2, <2>3 DEF DataAt
  <2> QED BY <2>2, <2>3, <2>4
<1> QED BY <1>1, <1>2, <1>3

(* The frames of a stream that stay keep their order.                       *)
LEMMA WayShifts ==
    ASSUME IInv, NEW s \in Server, down[s] # <<>>, down' = [down EXCEPT ![s] = Tail(@)],
           NEW c \in Conn, OnTheWay(c), UNCHANGED <<player, local, link>>,
           c.srv = s /\ NewAt(c, 1) => AtInsert(c)', AtInsert(c) => AtInsert(c)'
    PROVE  OnTheWay(c)'
<1>1. CASE c.srv # s
  <2>1. \A i \in Nat : (NewAt(c, i)' <=> NewAt(c, i)) /\ (DataAt(c, i)' <=> DataAt(c, i))
    BY <1>1, Reads, Neighbours
  <2>2. down'[c.srv] = down[c.srv]
    BY <1>1, ConnParts DEF IInv, Shapes
  <2> QED BY <2>1, <2>2 DEF OnTheWay, Known
<1>2. CASE c.srv = s
  <2>1. \A i \in Nat : DataAt(c, i)' =>
           \E k \in Nat : k = i + 1 /\ DataAt(c, k) /\ down'[c.srv][i] = down[c.srv][k]
    BY <1>2, Shifts
  <2>2. ~AtInsert(c)' => \A k \in Nat : NewAt(c, k) => \E i \in Nat : k = i + 1 /\ NewAt(c, i)'
    BY <1>2, Shifts
  <2>3. ASSUME NEW i \in Nat, DataAt(c, i)'
        PROVE  down'[c.srv][i].n <= player'[c].sent /\ Known(c)'
    BY <2>1, <2>3 DEF OnTheWay, Known
  <2>4. ASSUME NEW i \in Nat, NEW j \in Nat, DataAt(c, i)', DataAt(c, j)', i < j
        PROVE  down'[c.srv][i].n < down'[c.srv][j].n
    <3>1. PICK k \in Nat : k = i + 1 /\ DataAt(c, k) /\ down'[c.srv][i] = down[c.srv][k]
      BY <2>1, <2>4
    <3>2. PICK l \in Nat : l = j + 1 /\ DataAt(c, l) /\ down'[c.srv][j] = down[c.srv][l]
      BY <2>1, <2>4
    <3>3. k < l
      BY <2>4, <3>1, <3>2
    <3> QED BY <3>1, <3>2, <3>3 DEF OnTheWay
  <2>5. ASSUME NEW i \in Nat, DataAt(c, i)', local'[c].pc = "none", ~AtInsert(c)'
        PROVE  \E j \in Nat : j < i /\ NewAt(c, j)'
    <3>1. PICK k \in Nat : k = i + 1 /\ DataAt(c, k)
      BY <2>1, <2>5
    <3>2. PICK l \in Nat : l < k /\ NewAt(c, l)
      BY <2>5, <3>1 DEF OnTheWay
    <3>3. PICK j \in Nat : l = j + 1 /\ NewAt(c, j)'
      BY <2>5, <2>2, <3>2
    <3>4. j < i
      BY <3>1, <3>2, <3>3
    <3> QED BY <3>3, <3>4
  <2>6. ASSUME player'[c].st = "open", link'[c.srv] = "up", local'[c].pc = "none", ~AtInsert(c)'
        PROVE  \E j \in Nat : NewAt(c, j)'
    BY <2>2, <2>6 DEF OnTheWay
  <2>7. player'[c].st \in {"none", "early"} => player'[c].sent = 0
    BY DEF OnTheWay
  <2> QED BY <2>3, <2>4, <2>5, <2>6, <2>7 DEF OnTheWay
<1> QED BY <1>1, <1>2

(* A frame of another kind than a stream's data is read.                    *)
LEMMA ReadsPast ==
    ASSUME IInv, NEW s \in Server, down[s] # <<>>, down' = [down EXCEPT ![s] = Tail(@)],
           NEW c \in Conn, Continued(c), UNCHANGED <<player, local, link>>,
           c.srv = s => ~DataAt(c, 1),
           Live(c)' => Live(c) /\ Taken(c)' = Taken(c)
    PROVE  Continued(c)'
<1>1. CASE c.srv # s
  <2>1. \A i \in Nat : (NewAt(c, i)' <=> NewAt(c, i)) /\ (DataAt(c, i)' <=> DataAt(c, i))
    BY <1>1, Reads, Neighbours
  <2>2. down'[c.srv] = down[c.srv]
    BY <1>1, ConnParts DEF IInv, Shapes
  <2> QED BY <2>1, <2>2 DEF Continued
<1>2. CASE c.srv = s
  <2>1. \A i \in Nat : DataAt(c, i)' =>
           \E k \in Nat : k = i + 1 /\ DataAt(c, k) /\ down'[c.srv][i] = down[c.srv][k]
    BY <1>2, Shifts
  <2>2. \A k \in Nat : DataAt(c, k) =>
           \E i \in Nat : k = i + 1 /\ DataAt(c, i)' /\ down'[c.srv][i] = down[c.srv][k]
    BY <1>2, Shifts
  <2>3. ASSUME Live(c)' PROVE Continued(c)'
    <3>1. Live(c) /\ Taken(c)' = Taken(c)
      BY <2>3
    <3>2. ASSUME NEW i \in Nat, DataAt(c, i)'
          PROVE  /\ down'[c.srv][i].n > Taken(c)
                 /\ down'[c.srv][i].n > Taken(c) + 1 =>
                       \E j \in Nat : j < i /\ DataAt(c, j)' /\ down'[c.srv][j].n = down'[c.srv][i].n - 1
      <4>1. PICK k \in Nat : k = i + 1 /\ DataAt(c, k) /\ down'[c.srv][i] = down[c.srv][k]
        BY <2>1, <3>2
      <4>2. ASSUME down'[c.srv][i].n > Taken(c) + 1
            PROVE  \E j \in Nat : j < i /\ DataAt(c, j)' /\ down'[c.srv][j].n = down'[c.srv][i].n - 1
        <5>1. PICK l \in Nat : l < k /\ DataAt(c, l) /\ down[c.srv][l].n = down[c.srv][k].n - 1
          BY <3>1, <4>1, <4>2 DEF Continued
        <5>2. PICK j \in Nat : l = j + 1 /\ DataAt(c, j)' /\ down'[c.srv][j] = down[c.srv][l]
          BY <2>2, <5>1
        <5>3. j < i
          BY <4>1, <5>1, <5>2
        <5> QED BY <4>1, <5>1, <5>2, <5>3
      <4> QED BY <3>1, <4>1, <4>2 DEF Continued
    <3>3. ASSUME player'[c].st = "open", link'[c.srv] = "up"
          PROVE  /\ Taken(c) <= player'[c].sent
                 /\ Taken(c) < player'[c].sent =>
                       \E j \in Nat : DataAt(c, j)' /\ down'[c.srv][j].n = player'[c].sent
      <4>1. player'[c] = player[c] /\ link' = link
        OBVIOUS
      <4>2. /\ Taken(c) <= player[c].sent
            /\ Taken(c) < player[c].sent =>
                  \E k \in Nat : DataAt(c, k) /\ down[c.srv][k].n = player[c].sent
        BY <3>1, <3>3, <4>1 DEF Continued
      <4>3. ASSUME NEW k \in Nat, DataAt(c, k), down[c.srv][k].n = player[c].sent
            PROVE  \E j \in Nat : DataAt(c, j)' /\ down'[c.srv][j].n = player[c].sent
        <5>1. PICK j \in Nat : k = j + 1 /\ DataAt(c, j)' /\ down'[c.srv][j] = down[c.srv][k]
          BY <2>2, <4>3
        <5> QED BY <4>3, <5>1
      <4> QED BY <4>1, <4>2, <4>3
    <3> QED BY <3>1, <3>2, <3>3 DEF Continued
  <2> QED BY <2>3 DEF Continued
<1> QED BY <1>1, <1>2

(* What a loop that reads a frame has got.                                  *)
LEMMA FirstFrame ==
    ASSUME JInv, NEW s \in Server, NEW type, Read(s, type), NEW f, f = Head(down[s])
    PROVE  /\ f \in Frame /\ f = down[s][1] /\ f.type = type /\ 1 \in DOMAIN down[s]
           /\ f.conn \in Conn /\ f.conn.srv = s /\ player[f.conn].st # "none"
           /\ loop[s].pc = "read" /\ down[s] # <<>>
           /\ down' = [down EXCEPT ![s] = Tail(@)] /\ UNCHANGED <<player, link>>
           /\ \A t \in Server : \A i \in DOMAIN down'[t] : player'[down'[t][i].conn].st # "none"
<1>1. down[s] \in Seq(Frame) /\ down[s] # <<>> /\ down' = [down EXCEPT ![s] = Tail(@)]
      /\ loop[s].pc = "read" /\ UNCHANGED <<player, link>> /\ f.type = type
  BY DEF Read, JInv, IInv, Shapes
<1>2. f \in Frame /\ f = down[s][1] /\ 1 \in DOMAIN down[s]
  BY <1>1, Tails
<1>3. f.conn \in Conn /\ f.conn.srv = s /\ player[f.conn].st # "none"
  BY <1>2 DEF Frame, JInv, IInv, LoopFits, OwnFrames
<1>4. ASSUME NEW t \in Server, NEW i \in DOMAIN down'[t]
      PROVE  player'[down'[t][i].conn].st # "none"
  <2>1. PICK q \in Seq(Frame) : q = down[s] /\ q # <<>>
    BY <1>1
  <2>2. down'[s] = Tail(q) /\ (t # s => down'[t] = down[t])
    BY <1>1, <2>1 DEF JInv, IInv, Shapes
  <2>3. CASE t = s
    <3>1. i \in DOMAIN Tail(q)
      BY <2>2, <2>3
    <3>2. Tail(q) \in Seq(Frame)
      BY <2>1, Tails
    <3>3. i \in Nat
      BY <3>1, <3>2
    <3>4. i + 1 \in DOMAIN q /\ Tail(q)[i] = q[i + 1]
      BY <2>1, <3>1, <3>3, Tails
    <3>5. PICK k \in DOMAIN q : Tail(q)[i] = q[k]
      BY <3>4
    <3> QED BY <1>1, <2>1, <2>2, <2>3, <3>5 DEF JInv, OwnFrames
  <2>4. CASE t # s
    BY <1>1, <1>4, <2>2, <2>4 DEF JInv, OwnFrames
  <2> QED BY <2>3, <2>4
<1> QED BY <1>1, <1>2, <1>3, <1>4

LEMMA HandleNewInOrder ==
    ASSUME JInv, IInv', IdsFit, NoCollision, NEW s \in Server, HandleNew(s)
    PROVE  JInv'
<1>1. PICK f : f = Head(down[s])
  OBVIOUS
<1>2. /\ f \in Frame /\ f = down[s][1] /\ f.type = "new" /\ 1 \in DOMAIN down[s]
      /\ f.conn \in Conn /\ f.conn.srv = s /\ player[f.conn].st # "none"
      /\ loop[s].pc = "read" /\ down[s] # <<>>
      /\ down' = [down EXCEPT ![s] = Tail(@)] /\ UNCHANGED <<player, link>>
      /\ \A t \in Server : \A i \in DOMAIN down'[t] : player'[down'[t][i].conn].st # "none"
  BY <1>1, FirstFrame DEF HandleNew
<1>3. /\ mapped' = [mapped EXCEPT ![f.conn.id] = f.n]
      /\ loop' = [loop EXCEPT ![s] = [pc |-> "insert", frame |-> f, to |-> Nothing, tid |-> None]]
      /\ UNCHANGED <<streams, local>>
  BY <1>1 DEF HandleNew, Then
<1>4. /\ loop'[s].pc = "insert" /\ loop'[s].frame = f
      /\ \A t \in Server : t # s => loop'[t] = loop[t]
  BY <1>3 DEF JInv, IInv, Shapes
<1>5. PICK d \in Conn : d = f.conn
  BY <1>2
<1>6. NewAt(d, 1) /\ Known(d) /\ AtInsert(d)'
  <2>1. NewAt(d, 1) /\ AtInsert(d)'
    BY <1>2, <1>4, <1>5 DEF NewAt, AtInsert
  <2> QED BY <2>1 DEF JInv, IInv, AnnouncedOnce
<1>7. ASSUME NEW c \in Conn, AtInsert(c) PROVE AtInsert(c)'
  BY <1>2, <1>4, <1>7, ConnParts DEF AtInsert
<1>8. ASSUME NEW c \in Conn, AtInsert(c)' PROVE AtInsert(c) \/ c = d
  BY <1>4, <1>5, <1>8, ConnParts DEF AtInsert
<1>9. ASSUME NEW c \in Conn PROVE Held(c)' <=> Held(c)
  BY <1>2, <1>4, ConnParts DEF Held
<1>10. ASSUME NEW c \in Conn PROVE OnTheWay(c)'
  <2>1. c.srv = s /\ NewAt(c, 1) => AtInsert(c)'
    BY <1>2, <1>5, <1>6 DEF NewAt
  <2> QED BY <1>2, <1>3, <1>7, <2>1, WayShifts DEF JInv
<1>11. ASSUME NEW c \in Conn PROVE Continued(c)'
  <2>1. c.srv = s => ~DataAt(c, 1)
    BY <1>2 DEF DataAt
  <2>2. Live(c)' => Live(c) /\ Taken(c)' = Taken(c)
    BY <1>3, <1>9 DEF Live, Receiving, Taken, Arrived
  <2> QED BY <1>2, <1>3, <2>1, <2>2, ReadsPast DEF JInv
<1>12. ASSUME NEW c \in Conn PROVE InOrder(c)'
  <2>1. Held(c) => loop'[c.srv] = loop[c.srv]
    BY <1>2, <1>4, ConnParts DEF Held
  <2> QED BY <1>3, <1>9, <2>1, OrderStays DEF JInv, Receiving
<1>13. ASSUME NEW t \in Server PROVE OwnFrames(t)'
  <2>1. t # s => loop'[t] = loop[t]
    BY <1>4
  <2> QED BY <1>2, <1>4, <2>1 DEF JInv, OwnFrames
<1>14. ASSUME NEW i \in Stream PROVE MapFits(i)'
  <2>1. CASE i = d.id
    <3>1. mapped'[i] = f.n
      BY <1>2, <1>3, <1>5, <2>1, ConnParts DEF JInv, IInv, Shapes
    <3>2. ASSUME NEW c \in Conn, c.id = i, AtInsert(c)' PROVE loop'[c.srv].frame.n = f.n
      <4>1. Known(c)
        BY <1>2, <3>2 DEF IInv, AnnouncedOnce, Known
      <4>2. c = d
        BY <1>2, <1>5, <2>1, <3>2, <4>1, OneOf DEF JInv
      <4> QED BY <1>2, <1>4, <1>5, <4>2
    <3>3. f.n # None
      BY <1>2 DEF IdsFit, NewFrames
    <3> QED BY <3>1, <3>2, <3>3 DEF MapFits
  <2>2. CASE i # d.id
    <3>1. streams'[i] = streams[i] /\ mapped'[i] = mapped[i]
      BY <1>3, <1>5, <2>2 DEF JInv, IInv, Shapes
    <3>2. ASSUME NEW c \in Conn, c.id = i, AtInsert(c)'
          PROVE  AtInsert(c) /\ loop'[c.srv] = loop[c.srv]
      BY <1>2, <1>4, <1>8, <2>2, <3>2, ConnParts DEF AtInsert
    <3> QED BY <3>1, <3>2, MapsStay DEF JInv
  <2> QED BY <2>1, <2>2
<1> QED BY <1>10, <1>11, <1>12, <1>13, <1>14 DEF JInv

LEMMA HandleCloseInOrder ==
    ASSUME JInv, IInv', NoCollision, NEW s \in Server, HandleClose(s)
    PROVE  JInv'
<1>1. PICK f : f = Head(down[s])
  OBVIOUS
<1>2. /\ f \in Frame /\ f = down[s][1] /\ f.type = "close" /\ 1 \in DOMAIN down[s]
      /\ f.conn \in Conn /\ f.conn.srv = s /\ player[f.conn].st # "none"
      /\ loop[s].pc = "read" /\ down[s] # <<>>
      /\ down' = [down EXCEPT ![s] = Tail(@)] /\ UNCHANGED <<player, link>>
      /\ \A t \in Server : \A i \in DOMAIN down'[t] : player'[down'[t][i].conn].st # "none"
  BY <1>1, FirstFrame DEF HandleClose
<1>3. /\ streams' = [streams EXCEPT ![f.conn.id] = Nothing]
      /\ mapped' = [mapped EXCEPT ![f.conn.id] = None]
      /\ UNCHANGED <<loop, local>>
  BY <1>1 DEF HandleClose
<1>4. PICK d \in Conn : d = f.conn
  BY <1>2
<1>5. ASSUME NEW c \in Conn PROVE (AtInsert(c)' <=> AtInsert(c)) /\ (Held(c)' <=> Held(c))
  BY <1>3 DEF AtInsert, Held
<1>6. ASSUME NEW c \in Conn PROVE OnTheWay(c)'
  <2>1. ~NewAt(c, 1) \/ c.srv # s
    BY <1>2 DEF NewAt
  <2> QED BY <1>2, <1>3, <1>5, <2>1, WayShifts DEF JInv
<1>7. ASSUME NEW c \in Conn PROVE Continued(c)'
  <2>1. c.srv = s => ~DataAt(c, 1)
    BY <1>2 DEF DataAt
  <2>2. streams'[c.id] = c => streams[c.id] = c
    BY <1>3, NothingElse, ConnParts DEF JInv, IInv, Shapes
  <2>3. Live(c)' => Live(c) /\ Taken(c)' = Taken(c)
    BY <1>3, <1>5, <2>2 DEF Live, Receiving, Taken, Arrived
  <2> QED BY <1>2, <1>3, <2>1, <2>3, ReadsPast DEF JInv
<1>8. ASSUME NEW c \in Conn PROVE InOrder(c)'
  BY <1>3, <1>5, OrderStays DEF JInv, Receiving
<1>9. ASSUME NEW t \in Server PROVE OwnFrames(t)'
  BY <1>2, <1>3 DEF JInv, OwnFrames
<1>10. ASSUME NEW i \in Stream PROVE MapFits(i)'
  <2>1. CASE i = d.id
    <3>1. streams'[i] = Nothing /\ mapped'[i] = None
      BY <1>2, <1>3, <1>4, <2>1 DEF JInv, IInv, Shapes
    <3>2. ASSUME NEW c \in Conn, c.id = i, AtInsert(c)' PROVE FALSE
      <4>1. AtInsert(c) /\ Known(c)
        BY <1>5, <3>2 DEF JInv, IInv, AnnouncedOnce
      <4>2. c = d
        BY <1>2, <1>4, <2>1, <3>2, <4>1, OneOf DEF JInv
      <4> QED BY <1>2, <1>4, <4>1, <4>2 DEF AtInsert
    <3> QED BY <3>1, <3>2 DEF MapFits
  <2>2. CASE i # d.id
    <3>1. streams'[i] = streams[i] /\ mapped'[i] = mapped[i]
      BY <1>3, <1>4, <2>2 DEF JInv, IInv, Shapes
    <3> QED BY <1>3, <1>5, <3>1, MapsStay DEF JInv
  <2> QED BY <2>1, <2>2
<1> QED BY <1>6, <1>7, <1>8, <1>9, <1>10 DEF JInv

LEMMA HandleDataInOrder ==
    ASSUME JInv, IInv', NoCollision, NEW s \in Server, HandleData(s)
    PROVE  JInv'
<1>1. PICK f : f = Head(down[s])
  OBVIOUS
<1>2. /\ f \in Frame /\ f = down[s][1] /\ f.type = "data" /\ 1 \in DOMAIN down[s]
      /\ f.conn \in Conn /\ f.conn.srv = s /\ player[f.conn].st # "none"
      /\ loop[s].pc = "read" /\ down[s] # <<>>
      /\ down' = [down EXCEPT ![s] = Tail(@)] /\ UNCHANGED <<player, link>>
      /\ \A t \in Server : \A i \in DOMAIN down'[t] : player'[down'[t][i].conn].st # "none"
  BY <1>1, FirstFrame DEF HandleData
<1>3. PICK d \in Conn : d = f.conn
  BY <1>2
<1>4. /\ d.srv = s /\ d.id \in Stream /\ DataAt(d, 1) /\ Known(d)
      /\ f.n \in Nat /\ f.n = down[s][1].n /\ f.n <= player[d].sent
  <2>1. d.srv = s /\ DataAt(d, 1)
    BY <1>2, <1>3 DEF DataAt
  <2>2. down[s][1].n <= player[d].sent /\ Known(d)
    BY <2>1 DEF JInv, OnTheWay
  <2> QED BY <1>2, <2>1, <2>2, ConnParts DEF Frame
<1>5. UNCHANGED <<streams, mapped, local>>
  BY DEF HandleData, maps
<1>6. /\ streams[d.id] = Nothing => loop' = loop
      /\ streams[d.id] # Nothing =>
            loop' = [loop EXCEPT ![s] = [pc |-> "send", frame |-> f, to |-> streams[d.id], tid |-> None]]
  BY <1>1, <1>3 DEF HandleData, Then
<1>7. streams[d.id] # Nothing => streams[d.id] = d
  <2>1. streams[d.id] # Nothing => streams[d.id] \in Conn /\ streams[d.id].id = d.id
    BY <1>4 DEF JInv, IInv, Shapes, KeyFits
  <2>2. ASSUME NEW c \in Conn, streams[d.id] = c, c.id = d.id PROVE c = d
    <3>1. Known(c)
      BY <2>2 DEF JInv, IInv, AnnouncedOnce
    <3> QED BY <1>2, <1>3, <2>2, <3>1, OneOf DEF JInv
  <2> QED BY <2>1, <2>2
<1>8. /\ \A t \in Server : t # s => loop'[t] = loop[t]
      /\ streams[d.id] = Nothing => loop'[s] = loop[s]
      /\ streams[d.id] = d => loop'[s].pc = "send" /\ loop'[s].frame = f /\ loop'[s].to = d
  <2>1. d # Nothing
    BY NothingElse
  <2> QED BY <1>6, <2>1 DEF JInv, IInv, Shapes
<1>9. ASSUME NEW c \in Conn
      PROVE  /\ AtInsert(c)' <=> AtInsert(c)
             /\ AtInsert(c)' => loop'[c.srv] = loop[c.srv]
             /\ c # d => (Held(c)' <=> Held(c)) /\ (Held(c) => loop'[c.srv] = loop[c.srv])
  BY <1>2, <1>7, <1>8, ConnParts DEF AtInsert, Held
<1>10. ASSUME NEW c \in Conn PROVE OnTheWay(c)'
  <2>1. ~NewAt(c, 1) \/ c.srv # s
    BY <1>2 DEF NewAt
  <2> QED BY <1>2, <1>5, <1>9, <2>1, WayShifts DEF JInv
<1>11. ASSUME NEW c \in Conn, c # d PROVE InOrder(c)' /\ Continued(c)'
  <2>1. InOrder(c)'
    BY <1>5, <1>9, <1>11, OrderStays DEF JInv, Receiving
  <2>2. c.srv = s => ~DataAt(c, 1)
    BY <1>2, <1>3, <1>11 DEF DataAt
  <2>3. Live(c)' => Live(c) /\ Taken(c)' = Taken(c)
    BY <1>5, <1>9, <1>11 DEF Live, Receiving, Taken, Arrived
  <2>4. Continued(c)'
    BY <1>2, <1>5, <2>2, <2>3, ReadsPast DEF JInv
  <2> QED BY <2>1, <2>4
<1>12. ~Held(d) /\ Arrived(d)' = Arrived(d) /\ Arrived(d) \in Nat /\ Taken(d) = Arrived(d)
  <2>1. ~Held(d)
    BY <1>2, <1>4 DEF Held
  <2>2. Arrived(d) \in Nat /\ Arrived(d)' = Arrived(d)
    BY <1>5, Counts DEF JInv, Arrived
  <2>3. \A n \in Nat : n + 0 = n
    OBVIOUS
  <2> QED BY <2>1, <2>2, <2>3 DEF Taken
<1>13. local[d].pc # "none"
  <2>1. ASSUME local[d].pc = "none" PROVE FALSE
    <3>1. ~AtInsert(d)
      BY <1>2, <1>4 DEF AtInsert
    <3>2. PICK j \in Nat : j < 1 /\ NewAt(d, j)
      BY <1>4, <2>1, <3>1 DEF JInv, OnTheWay
    <3>3. j # 0
      BY <3>2, Places DEF JInv
    <3> QED BY <3>2, <3>3
  <2> QED BY <2>1
<1>14. CASE streams[d.id] = Nothing
  <2>1. ~Held(d)' /\ ~Live(d)'
    BY <1>4, <1>5, <1>8, <1>12, <1>13, <1>14, NothingElse DEF Held, Live
  <2>2. InOrder(d)' /\ Continued(d)'
    BY <1>5, <2>1, OrderStays DEF JInv, Continued
  <2>3. ASSUME NEW t \in Server PROVE OwnFrames(t)'
    BY <1>2, <1>8, <1>14 DEF JInv, OwnFrames
  <2>4. ASSUME NEW i \in Stream PROVE MapFits(i)'
    BY <1>2, <1>5, <1>9, MapsStay DEF JInv, Known
  <2> QED BY <1>10, <1>11, <2>2, <2>3, <2>4 DEF JInv
<1>15. CASE streams[d.id] = d
  <2>1. Held(d)' /\ Taken(d)' = Taken(d) + 1
    BY <1>4, <1>8, <1>12, <1>15 DEF Held, Taken
  <2>2. Receiving(d) => f.n = Taken(d) + 1
    <3>1. ASSUME Receiving(d), f.n > Taken(d) + 1 PROVE FALSE
      <4>1. PICK j \in Nat : j < 1 /\ DataAt(d, j)
        BY <1>4, <1>15, <3>1 DEF JInv, Continued, Live
      <4>2. j # 0
        BY <4>1, Places DEF JInv
      <4> QED BY <4>1, <4>2
    <3>2. ASSUME Receiving(d) PROVE f.n > Taken(d)
      BY <1>4, <1>15, <3>2 DEF JInv, Continued, Live
    <3>3. \A m, n \in Nat : n > m /\ ~(n > m + 1) => n = m + 1
      OBVIOUS
    <3> QED BY <1>4, <1>12, <3>1, <3>2, <3>3
  <2>3. InOrder(d)'
    <3>1. ASSUME Receiving(d)' PROVE loop'[d.srv].frame = Data(d, Arrived(d)' + 1)
      <4>1. f.n = Arrived(d) + 1
        BY <1>5, <1>12, <2>2, <3>1 DEF Receiving
      <4>2. f = Data(d, f.n)
        BY <1>2, <1>3 DEF Frame, Data
      <4> QED BY <1>4, <1>8, <1>12, <1>15, <4>1, <4>2
    <3> QED BY <1>5, <3>1 DEF JInv, InOrder
  <2>4. Continued(d)'
    <3> SUFFICES ASSUME Live(d)' PROVE Continued(d)'
      BY DEF Continued
    <3>1. Live(d) /\ f.n = Taken(d) + 1
      BY <1>5, <1>13, <2>2 DEF Live, Receiving
    <3>2. ASSUME NEW i \in Nat, DataAt(d, i)'
          PROVE  /\ down'[d.srv][i].n > Taken(d)'
                 /\ down'[d.srv][i].n > Taken(d)' + 1 =>
                       \E j \in Nat : j < i /\ DataAt(d, j)' /\ down'[d.srv][j].n = down'[d.srv][i].n - 1
      <4>1. PICK k \in Nat : k = i + 1 /\ DataAt(d, k) /\ down'[d.srv][i] = down[d.srv][k]
        BY <1>2, <1>4, <3>2, Shifts DEF JInv
      <4>2. k > 1 /\ down[d.srv][k].n \in Nat
        <5>1. i # 0
          BY <1>4, <3>2 DEF DataAt, IInv, Shapes
        <5> QED BY <4>1, <5>1, Places DEF JInv
      <4>3. down[d.srv][k].n > f.n
        BY <1>4, <4>1, <4>2 DEF JInv, OnTheWay
      <4>4. ASSUME down[d.srv][k].n > Taken(d)' + 1
            PROVE  \E j \in Nat : j < i /\ DataAt(d, j)' /\ down'[d.srv][j].n = down[d.srv][k].n - 1
        <5>1. Taken(d)' + 1 = f.n + 1 /\ down[d.srv][k].n > Taken(d) + 1
          BY <1>4, <1>12, <2>1, <3>1, <4>2, <4>4
        <5>2. PICK l \in Nat : l < k /\ DataAt(d, l) /\ down[d.srv][l].n = down[d.srv][k].n - 1
          BY <3>1, <4>1, <5>1 DEF JInv, Continued
        <5>3. l # 1
          BY <1>4, <4>2, <4>4, <5>1, <5>2
        <5>4. PICK j \in Nat : l = j + 1 /\ DataAt(d, j)' /\ down'[d.srv][j] = down[d.srv][l]
          BY <1>2, <1>4, <5>2, <5>3, Shifts DEF JInv
        <5>5. j < i
          BY <4>1, <5>2, <5>4
        <5> QED BY <5>2, <5>4, <5>5
      <4> QED BY <1>4, <1>12, <2>1, <3>1, <4>1, <4>2, <4>3, <4>4
    <3>3. ASSUME player'[d].st = "open", link'[d.srv] = "up"
          PROVE  /\ Taken(d)' <= player'[d].sent
                 /\ Taken(d)' < player'[d].sent =>
                       \E j \in Nat : DataAt(d, j)' /\ down'[d.srv][j].n = player'[d].sent
      <4>1. Taken(d)' <= player'[d].sent /\ player'[d] = player[d] /\ player[d].sent \in Nat
        BY <1>2, <1>4, <2>1, <3>1, Counts DEF JInv
      <4>2. ASSUME Taken(d)' < player'[d].sent
            PROVE  \E j \in Nat : DataAt(d, j)' /\ down'[d.srv][j].n = player'[d].sent
        <5>1. Taken(d) < player[d].sent
          BY <1>12, <2>1, <4>1, <4>2
        <5>2. PICK l \in Nat : DataAt(d, l) /\ down[d.srv][l].n = player[d].sent
          BY <1>2, <3>1, <3>3, <4>1, <5>1 DEF JInv, Continued
        <5>3. l # 1
          <6>1. f.n # player[d].sent
            BY <1>4, <1>12, <2>1, <3>1, <4>1, <4>2
          <6> QED BY <1>4, <5>2, <6>1
        <5>4. PICK j \in Nat : l = j + 1 /\ DataAt(d, j)' /\ down'[d.srv][j] = down[d.srv][l]
          BY <1>2, <1>4, <5>2, <5>3, Shifts DEF JInv
        <5> QED BY <4>1, <5>2, <5>4
      <4> QED BY <4>1, <4>2
    <3> QED BY <3>2, <3>3 DEF Continued
  <2>5. ASSUME NEW t \in Server PROVE OwnFrames(t)'
    <3>1. t # s => loop'[t] = loop[t]
      BY <1>8
    <3> QED BY <1>2, <1>3, <1>8, <1>15, <3>1 DEF JInv, OwnFrames
  <2>6. ASSUME NEW i \in Stream PROVE MapFits(i)'
    BY <1>2, <1>5, <1>9, MapsStay DEF JInv, Known
  <2> QED BY <1>10, <1>11, <2>3, <2>4, <2>5, <2>6 DEF JInv
<1> QED BY <1>7, <1>14, <1>15

LEMMA SendDataInOrder ==
    ASSUME JInv, IInv', NoCollision, NEW s \in Server, SendData(s)
    PROVE  JInv'
<1>1. /\ loop[s].pc = "send" /\ loop[s].frame \in Frame /\ loop[s].to = loop[s].frame.conn
      /\ loop[s].to \in Conn /\ loop[s].to.srv = s
      /\ UNCHANGED <<player, down, link, streams, mapped>>
  BY DEF SendData, JInv, IInv, LoopFits, OwnFrames, outside, maps
<1>2. PICK d \in Conn : d = loop[s].to /\ d.srv = s
  BY <1>1
<1>3. /\ Receiving(d) => local' = [local EXCEPT ![d].queue = Append(@, loop[s].frame)]
                         /\ loop' = [loop EXCEPT ![s] = Reading]
      /\ ~Receiving(d) => local' = local /\ loop' = [loop EXCEPT ![s].pc = "refuse"]
  BY <1>2 DEF SendData
<1>4. Held(d) /\ local[d].pc # "none"
  BY <1>1, <1>2 DEF Held, JInv, IInv, AnnouncedOnce
<1>5. /\ \A t \in Server : t # s => loop'[t] = loop[t]
      /\ loop'[s].pc = "read" \/ (loop'[s].pc = "refuse" /\ loop'[s].frame = loop[s].frame)
  BY <1>3, Loops DEF JInv, IInv, Shapes, LoopState
<1>6. ASSUME NEW c \in Conn
      PROVE  /\ AtInsert(c)' <=> AtInsert(c)
             /\ AtInsert(c)' => loop'[c.srv] = loop[c.srv]
             /\ c # d => (Held(c)' <=> Held(c)) /\ (Held(c) => loop'[c.srv] = loop[c.srv])
  BY <1>1, <1>2, <1>5, ConnParts DEF AtInsert, Held
<1>7. ~Held(d)'
  BY <1>2, <1>5 DEF Held
<1>8. ASSUME NEW i \in Stream PROVE MapFits(i)'
  BY <1>1, <1>6, MapsStay DEF JInv, Known
<1>9. ASSUME NEW t \in Server PROVE OwnFrames(t)'
  <2>1. \/ loop'[t] = loop[t] \/ loop'[t].pc \notin Busy
        \/ loop[t].pc \in Busy /\ loop'[t].pc # "send" /\ loop'[t].frame = loop[t].frame
    BY <1>1, <1>5
  <2> QED BY <1>1, <2>1, FramesStay DEF JInv
<1>10. ASSUME \A c \in Conn : local'[c].pc = local[c].pc, NEW c \in Conn PROVE OnTheWay(c)'
  BY <1>1, <1>6, <1>10, WayStays DEF JInv, Known
<1>11. ASSUME NEW c \in Conn, c # d, local'[c] = local[c] PROVE InOrder(c)' /\ Continued(c)'
  <2>1. InOrder(c)'
    BY <1>6, <1>11, OrderStays DEF JInv, Receiving
  <2>2. Live(c)' => Live(c) /\ Taken(c)' = Taken(c)
    BY <1>1, <1>6, <1>11 DEF Live, Receiving, Taken, Arrived
  <2> QED BY <1>1, <2>1, <2>2, ContinuedStays DEF JInv
<1>12. CASE Receiving(d)
  <2> DEFINE f == loop[s].frame
             q == local[d].queue
             g == local[d].got
             a == Append(q, f)
  <2>1. f \in Frame /\ q \in Seq(Frame) /\ g \in Seq(Frame)
    BY <1>1 DEF JInv, IInv, Shapes, LocalState
  <2>2. f = Data(d, Arrived(d) + 1)
    BY <1>2, <1>4, <1>12 DEF JInv, InOrder
  <2>3. /\ local'[d].pc = local[d].pc /\ local'[d].got = g /\ local'[d].queue = a
        /\ \A c \in Conn : c # d => local'[c] = local[c]
    <3>1. local' = [local EXCEPT ![d].queue = a]
      BY <1>3, <1>12
    <3> HIDE DEF a
    <3> QED BY <3>1 DEF JInv, IInv, Shapes, LocalState
  <2>4. \A c \in Conn : local'[c].pc = local[c].pc
    BY <2>3
  <2>5. /\ Len(a) = Len(q) + 1 /\ Len(q) \in Nat /\ Len(g) \in Nat
        /\ Arrived(d) = Len(g) + Len(q) /\ Arrived(d)' = Len(g) + Len(a)
    BY <2>1, <2>3, Appends DEF Arrived
  <2>6. \A k \in DOMAIN a : a[k] = Data(d, Len(g) + k)
    <3>1. ASSUME NEW k \in DOMAIN a PROVE a[k] = Data(d, Len(g) + k)
      <4>1. k \in DOMAIN q \/ k = Len(q) + 1
        BY <2>1, Appends
      <4>2. CASE k \in DOMAIN q
        BY <2>1, <4>2, Appends DEF JInv, InOrder
      <4>3. CASE k = Len(q) + 1
        <5>1. a[k] = f
          BY <2>1, <4>3, Appends
        <5> HIDE DEF f, q, g, a
        <5>2. Arrived(d) + 1 = Len(g) + k
          BY <2>5, <4>3
        <5> QED BY <2>2, <5>1, <5>2
      <4> QED BY <4>1, <4>2, <4>3
    <3> QED BY <3>1
  <2>7. InOrder(d)'
    BY <1>7, <2>3, <2>6 DEF JInv, InOrder
  <2>8. Taken(d)' = Taken(d)
    <3> HIDE DEF f, q, g, a
    <3>1. Arrived(d)' = Arrived(d) + 1 /\ Arrived(d) \in Nat
      BY <2>5
    <3> QED BY <1>4, <1>7, <3>1 DEF Taken
  <2>9. Continued(d)'
    BY <1>1, <2>3, <2>8, ContinuedStays DEF JInv, Live, Receiving
  <2>10. ASSUME NEW c \in Conn PROVE InOrder(c)' /\ Continued(c)'
    BY <1>11, <2>3, <2>7, <2>9
  <2> QED BY <1>8, <1>9, <1>10, <2>4, <2>10 DEF JInv
<1>13. CASE ~Receiving(d)
  <2>1. local' = local
    BY <1>3, <1>13
  <2>2. ~Live(d)' /\ ~Receiving(d)'
    BY <1>4, <1>13, <2>1 DEF Live, Receiving
  <2>3. InOrder(d)' /\ Continued(d)'
    BY <1>7, <2>1, <2>2, OrderStays DEF JInv, Continued
  <2> QED BY <1>8, <1>9, <1>10, <1>11, <2>1, <2>3 DEF JInv
<1> QED BY <1>12, <1>13

(* A frame of the server comes behind all others.                           *)
LEMMA Sent ==
    ASSUME IInv, NEW d \in Conn, NEW p \in PlayerState, NEW f \in Frame, Turn(d, p, f),
           link[d.srv] = "up", NEW N, N = Len(down[d.srv]) + 1
    PROVE  /\ N \in Nat /\ f.conn = d
           /\ \A c \in Conn : \A i \in Nat :
                 /\ DataAt(c, i) => DataAt(c, i)'
                 /\ DataAt(c, i) => down'[c.srv][i] = down[c.srv][i] /\ (c = d => i < N)
                 /\ NewAt(c, i) => NewAt(c, i)' /\ (c = d => i < N)
                 /\ DataAt(c, i)' => DataAt(c, i) \/ (c = d /\ i = N /\ f.type = "data")
                 /\ NewAt(c, i)' => NewAt(c, i) \/ (c = d /\ i = N /\ f.type = "new")
           /\ f.type = "data" => DataAt(d, N)' /\ down'[d.srv][N] = f
           /\ f.type = "new" => NewAt(d, N)'
           /\ player' = [player EXCEPT ![d] = p]
           /\ player'[d] = p /\ \A c \in Conn : c # d => player'[c] = player[c]
           /\ UNCHANGED <<link, loop, streams, mapped, local>>
<1>1. /\ down' = [down EXCEPT ![d.srv] = Append(@, f)] /\ f.conn = d
      /\ player' = [player EXCEPT ![d] = p]
      /\ UNCHANGED <<link, loop, streams, mapped, local>>
  BY DEF Turn, ServerSends, maps
<1>2. PICK q \in Seq(Frame) : q = down[d.srv]
  BY ConnParts DEF IInv, Shapes
<1>3. /\ down'[d.srv] = Append(q, f) /\ \A s \in Server : s # d.srv => down'[s] = down[s]
      /\ d.srv \in Server
  BY <1>1, <1>2, ConnParts DEF IInv, Shapes
<1>4. N = Len(q) + 1 /\ N \in Nat
  BY <1>2
<1>5. player'[d] = p /\ \A c \in Conn : c # d => player'[c] = player[c]
  BY <1>1 DEF IInv, Shapes
<1>6. /\ \A i \in Nat : i \in DOMAIN Append(q, f) <=> i \in DOMAIN q \/ i = N
      /\ \A i \in Nat : i \in DOMAIN q => Append(q, f)[i] = q[i] /\ i < N
      /\ Append(q, f)[N] = f
  BY <1>2, <1>4, Appends
<1>7. ASSUME NEW c \in Conn, NEW i \in Nat
      PROVE  /\ DataAt(c, i) => DataAt(c, i)'
             /\ DataAt(c, i) => down'[c.srv][i] = down[c.srv][i] /\ (c = d => i < N)
             /\ NewAt(c, i) => NewAt(c, i)' /\ (c = d => i < N)
             /\ DataAt(c, i)' => DataAt(c, i) \/ (c = d /\ i = N /\ f.type = "data")
             /\ NewAt(c, i)' => NewAt(c, i) \/ (c = d /\ i = N /\ f.type = "new")
  <2>1. CASE c.srv = d.srv
    BY <1>1, <1>2, <1>3, <1>6, <2>1 DEF DataAt, NewAt
  <2>2. CASE c.srv # d.srv
    <3>1. down'[c.srv] = down[c.srv]
      BY <1>3, <2>2, ConnParts
    <3> QED BY <2>2, <3>1 DEF DataAt, NewAt
  <2> QED BY <2>1, <2>2
<1>8. /\ f.type = "data" => DataAt(d, N)' /\ down'[d.srv][N] = f
      /\ f.type = "new" => NewAt(d, N)'
  BY <1>1, <1>3, <1>4, <1>6 DEF DataAt, NewAt
<1> QED BY <1>1, <1>4, <1>5, <1>7, <1>8

(* A server whose frames nobody reads.                                      *)
LEMMA UnheardInOrder ==
    ASSUME JInv, IInv', NoCollision, NEW d \in Conn, Player(d), link[d.srv] # "up"
    PROVE  JInv'
<1>1. PICK p \in PlayerState, f \in Frame : Turn(d, p, f)
  BY PlayerTurns DEF JInv, IInv
<1>2. /\ UNCHANGED <<down, link, loop, streams, mapped, local>>
      /\ player'[d] = p /\ \A c \in Conn : c # d => player'[c] = player[c]
  BY <1>1 DEF Turn, ServerSends, maps, JInv, IInv, Shapes
<1>3. /\ p.st \in {"none", "early"} => p.sent = player[d].sent /\ player[d].st = "none"
      /\ Known(d) => Known(d)' /\ player'[d].st # "none"
      /\ p.sent \in Nat /\ player[d].sent \in Nat /\ p.sent >= player[d].sent
  BY <1>1, <1>2 DEF Turn, Known, PlayerState, JInv, IInv, Shapes
<1>4. ASSUME NEW c \in Conn
      PROVE  /\ (AtInsert(c)' <=> AtInsert(c)) /\ (Held(c)' <=> Held(c)) /\ (Live(c)' <=> Live(c))
             /\ Taken(c)' = Taken(c) /\ (Receiving(c)' <=> Receiving(c))
             /\ \A i \in Nat : (DataAt(c, i)' <=> DataAt(c, i)) /\ (NewAt(c, i)' <=> NewAt(c, i))
  BY <1>2 DEF AtInsert, Held, Live, Receiving, Taken, Arrived, DataAt, NewAt
<1>5. ASSUME NEW c \in Conn PROVE InOrder(c)'
  BY <1>2, <1>4, OrderStays DEF JInv
<1>6. ASSUME NEW c \in Conn PROVE OnTheWay(c)' /\ Continued(c)'
  <2>1. CASE c # d
    <3>1. OnTheWay(c)'
      BY <1>2, <1>4, <2>1 DEF JInv, OnTheWay, Known
    <3>2. Continued(c)'
      BY <1>2, <1>4, <2>1 DEF JInv, Continued
    <3> QED BY <3>1, <3>2
  <2>2. CASE c = d
    <3>1. \A i \in Nat : DataAt(d, i) => down[d.srv][i].n <= p.sent
      <4>1. \A i \in Nat : DataAt(d, i) => down[d.srv][i].n <= player[d].sent
                                        /\ down[d.srv][i].n \in Nat
        BY Places DEF JInv, OnTheWay
      <4> QED BY <1>3, <4>1
    <3>2. OnTheWay(d)'
      BY <1>2, <1>3, <1>4, <3>1 DEF JInv, OnTheWay
    <3>3. Continued(d)'
      BY <1>2, <1>4 DEF JInv, Continued
    <3> QED BY <2>2, <3>2, <3>3
  <2> QED BY <2>1, <2>2
<1>7. ASSUME NEW t \in Server PROVE OwnFrames(t)'
  <2>1. \A c \in Conn : player[c].st # "none" => player'[c].st # "none"
    BY <1>2, <1>3
  <2> QED BY <1>2, <2>1, FramesStay DEF JInv
<1>8. ASSUME NEW i \in Stream PROVE MapFits(i)'
  BY <1>2, <1>4, MapsStay DEF JInv
<1> QED BY <1>5, <1>6, <1>7, <1>8 DEF JInv

LEMMA PlayerInOrder ==
    ASSUME JInv, IInv', NoCollision, NEW d \in Conn, Player(d), link[d.srv] = "up"
    PROVE  JInv'
<1>0. IInv
  BY DEF JInv
<1>1. PICK p \in PlayerState, f \in Frame : Turn(d, p, f)
  BY <1>0, PlayerTurns DEF IInv
<1>2. PICK N : N = Len(down[d.srv]) + 1
  OBVIOUS
<1>3. /\ N \in Nat /\ f.conn = d
      /\ f.type = "data" => DataAt(d, N)' /\ down'[d.srv][N] = f
      /\ f.type = "new" => NewAt(d, N)'
      /\ player'[d] = p /\ \A c \in Conn : c # d => player'[c] = player[c]
      /\ UNCHANGED <<link, loop, streams, mapped, local>>
  BY <1>0, <1>1, <1>2, Sent
<1>4. ASSUME NEW c \in Conn, NEW i \in Nat
      PROVE  /\ DataAt(c, i) => DataAt(c, i)' /\ down'[c.srv][i] = down[c.srv][i] /\ (c = d => i < N)
             /\ NewAt(c, i) => NewAt(c, i)' /\ (c = d => i < N)
             /\ DataAt(c, i)' => DataAt(c, i) \/ (c = d /\ i = N /\ f.type = "data")
             /\ NewAt(c, i)' => NewAt(c, i) \/ (c = d /\ i = N /\ f.type = "new")
  BY <1>0, <1>1, <1>2, Sent
<1>5. /\ \/ player[d].st = "none" /\ p.st = "open" /\ p.sent = player[d].sent /\ f.type = "new"
         \/ player[d].st = "open" /\ p.st = "closed" /\ p.sent = player[d].sent /\ f.type = "close"
         \/ player[d].st = "none" /\ p.st = "early" /\ p.sent = player[d].sent /\ f.type = "close"
         \/ player[d].st = "early" /\ p.st = "closed" /\ p.sent = player[d].sent /\ f.type = "new"
         \/ /\ player[d].st = "open" /\ p.st = "open" /\ p.sent = player[d].sent + 1
            /\ f.type = "data" /\ f.n = p.sent
      /\ p.sent \in Nat /\ player[d].sent \in Nat
  BY <1>0, <1>1, MessageParts DEF Turn, PlayerState, IInv, Shapes
<1>6. ASSUME NEW c \in Conn
      PROVE  /\ AtInsert(c)' <=> AtInsert(c)
             /\ (Held(c)' <=> Held(c)) /\ (Live(c)' <=> Live(c)) /\ Taken(c)' = Taken(c)
             /\ Known(c) => Known(c)'
  BY <1>3, <1>5 DEF AtInsert, Held, Live, Receiving, Taken, Arrived, Known
<1>7. ASSUME NEW c \in Conn PROVE InOrder(c)'
  BY <1>3, <1>6, OrderStays DEF JInv, Receiving
<1>8. ASSUME NEW i \in Stream PROVE MapFits(i)'
  BY <1>0, <1>3, <1>6, MapsStay DEF JInv
<1>9. ASSUME NEW c \in Conn, c # d PROVE OnTheWay(c)' /\ Continued(c)'
  <2>1. \A i \in Nat : (DataAt(c, i)' <=> DataAt(c, i)) /\ (NewAt(c, i)' <=> NewAt(c, i))
    BY <1>4, <1>9
  <2>2. \A i \in Nat : DataAt(c, i) => down'[c.srv][i] = down[c.srv][i]
    BY <1>4
  <2>3. player'[c] = player[c]
    BY <1>3, <1>9
  <2>4. OnTheWay(c)'
    <3>1. OnTheWay(c) /\ link'[c.srv] = link[c.srv] /\ local'[c] = local[c]
      BY <1>3 DEF JInv
    <3>2. Known(c)' <=> Known(c)
      BY <2>3 DEF Known
    <3>3. AtInsert(c)' <=> AtInsert(c)
      BY <1>6
    <3> QED BY <2>1, <2>2, <2>3, <3>1, <3>2, <3>3 DEF OnTheWay
  <2>5. Continued(c)'
    <3>1. Continued(c) /\ link'[c.srv] = link[c.srv]
      BY <1>3 DEF JInv
    <3>2. (Live(c)' <=> Live(c)) /\ Taken(c)' = Taken(c)
      BY <1>6
    <3> QED BY <2>1, <2>2, <2>3, <3>1, <3>2 DEF Continued
  <2> QED BY <2>4, <2>5
<1>10. OnTheWay(d)'
  <2>1. ASSUME NEW i \in Nat, DataAt(d, i)'
        PROVE  down'[d.srv][i].n <= p.sent /\ Known(d)'
    <3>1. CASE DataAt(d, i)
      <4>1. down[d.srv][i].n <= player[d].sent /\ Known(d) /\ down'[d.srv][i] = down[d.srv][i]
            /\ down[d.srv][i].n \in Nat
        BY <1>0, <1>4, <3>1, Places DEF JInv, OnTheWay
      <4> QED BY <1>5, <1>6, <4>1
    <3>2. CASE i = N /\ f.type = "data"
      BY <1>3, <1>5, <3>2 DEF Known
    <3> QED BY <1>4, <2>1, <3>1, <3>2
  <2>2. ASSUME NEW i \in Nat, NEW j \in Nat, DataAt(d, i)', DataAt(d, j)', i < j
        PROVE  down'[d.srv][i].n < down'[d.srv][j].n
    <3>1. DataAt(d, i) /\ down'[d.srv][i] = down[d.srv][i]
      BY <1>3, <1>4, <2>2
    <3>2. CASE DataAt(d, j)
      BY <1>4, <2>2, <3>1, <3>2 DEF JInv, OnTheWay
    <3>3. CASE j = N /\ f.type = "data"
      <4>1. down[d.srv][i].n <= player[d].sent /\ down[d.srv][i].n \in Nat
        BY <1>0, <3>1, Places DEF JInv, OnTheWay
      <4>2. down'[d.srv][j].n = player[d].sent + 1
        BY <1>3, <1>5, <3>3
      <4> QED BY <1>5, <3>1, <4>1, <4>2
    <3> QED BY <1>4, <2>2, <3>2, <3>3
  <2>3. ASSUME NEW i \in Nat, DataAt(d, i)', local'[d].pc = "none", ~AtInsert(d)'
        PROVE  \E j \in Nat : j < i /\ NewAt(d, j)'
    <3>1. CASE DataAt(d, i)
      BY <1>3, <1>4, <1>6, <2>3, <3>1 DEF JInv, OnTheWay
    <3>2. CASE i = N /\ f.type = "data"
      BY <1>3, <1>4, <1>5, <1>6, <2>3, <3>2 DEF JInv, OnTheWay
    <3> QED BY <1>4, <2>3, <3>1, <3>2
  <2>4. ASSUME player'[d].st = "open", local'[d].pc = "none", ~AtInsert(d)'
        PROVE  \E j \in Nat : NewAt(d, j)'
    BY <1>3, <1>4, <1>5, <1>6, <2>4 DEF JInv, OnTheWay
  <2>5. player'[d].st \in {"none", "early"} => player'[d].sent = 0
    BY <1>3, <1>5 DEF JInv, OnTheWay
  <2> QED BY <1>3, <2>1, <2>2, <2>3, <2>4, <2>5 DEF OnTheWay
<1>11. Continued(d)'
  <2> SUFFICES ASSUME Live(d)' PROVE Continued(d)'
    BY DEF Continued
  <2>1. Live(d) /\ Taken(d)' = Taken(d) /\ Taken(d) \in Nat
    BY <1>0, <1>6, Counts
  <2>2. ASSUME NEW i \in Nat, DataAt(d, i)'
        PROVE  /\ down'[d.srv][i].n > Taken(d)
               /\ down'[d.srv][i].n > Taken(d) + 1 =>
                     \E j \in Nat : j < i /\ DataAt(d, j)' /\ down'[d.srv][j].n = down'[d.srv][i].n - 1
    <3>1. CASE DataAt(d, i)
      <4>1. down'[d.srv][i] = down[d.srv][i]
        BY <1>4, <3>1
      <4>2. ASSUME down[d.srv][i].n > Taken(d) + 1
            PROVE  \E j \in Nat : j < i /\ DataAt(d, j)' /\ down'[d.srv][j].n = down[d.srv][i].n - 1
        <5>1. PICK j \in Nat : j < i /\ DataAt(d, j) /\ down[d.srv][j].n = down[d.srv][i].n - 1
          BY <2>1, <3>1, <4>2 DEF JInv, Continued
        <5> QED BY <1>4, <5>1
      <4> QED BY <2>1, <3>1, <4>1, <4>2 DEF JInv, Continued
    <3>2. CASE i = N /\ f.type = "data"
      <4>1. player[d].st = "open" /\ down'[d.srv][i].n = player[d].sent + 1
        BY <1>3, <1>5, <3>2
      <4>2. Taken(d) <= player[d].sent
        BY <2>1, <4>1 DEF JInv, Continued
      <4>3. ASSUME player[d].sent + 1 > Taken(d) + 1
            PROVE  \E j \in Nat : j < i /\ DataAt(d, j)' /\ down'[d.srv][j].n = player[d].sent
        <5>1. Taken(d) < player[d].sent
          BY <1>5, <2>1, <4>3
        <5>2. PICK j \in Nat : DataAt(d, j) /\ down[d.srv][j].n = player[d].sent
          BY <2>1, <4>1, <5>1 DEF JInv, Continued
        <5> QED BY <1>4, <3>2, <5>2
      <4> QED BY <1>5, <2>1, <4>1, <4>2, <4>3
    <3> QED BY <1>4, <2>2, <3>1, <3>2
  <2>3. ASSUME player'[d].st = "open"
        PROVE  /\ Taken(d) <= player'[d].sent
               /\ Taken(d) < player'[d].sent =>
                     \E j \in Nat : DataAt(d, j)' /\ down'[d.srv][j].n = player'[d].sent
    <3>1. CASE player[d].st = "none"
      <4>1. local[d].pc = "none"
        BY <1>0, <3>1 DEF IInv, AnnouncedOnce, Known
      <4>2. Taken(d) = 0 /\ player'[d].sent = 0
        BY <1>0, <1>3, <1>5, <3>1, <4>1, Counts DEF JInv, OnTheWay
      <4> QED BY <4>2
    <3>2. CASE player[d].st # "none"
      <4>1. /\ player[d].st = "open" /\ f.type = "data" /\ f.n = player'[d].sent
            /\ player'[d].sent = player[d].sent + 1
        BY <1>3, <1>5, <2>3, <3>2
      <4>2. Taken(d) <= player[d].sent
        BY <2>1, <4>1 DEF JInv, Continued
      <4>3. DataAt(d, N)' /\ down'[d.srv][N].n = player'[d].sent
        BY <1>3, <4>1
      <4> QED BY <1>3, <1>5, <2>1, <4>1, <4>2, <4>3
    <3> QED BY <3>1, <3>2
  <2> QED BY <2>1, <2>2, <2>3 DEF Continued
<1>12. ASSUME NEW t \in Server PROVE OwnFrames(t)'
  <2>1. player'[d].st # "none" /\ \A c \in Conn : player[c].st # "none" => player'[c].st # "none"
    BY <1>3, <1>5
  <2>2. loop[t].pc \in Busy => loop[t].frame.conn \in Conn
    BY <1>0 DEF IInv, LoopFits, Frame
  <2>3. ASSUME NEW i \in DOMAIN down'[t] PROVE player'[down'[t][i].conn].st # "none"
    <3>1. PICK q \in Seq(Frame) : q = down[t]
      BY <1>0 DEF IInv, Shapes
    <3>2. down'[t] = q \/ down'[t] = Append(q, f)
      BY <1>0, <1>1, <3>1, ConnParts DEF Turn, ServerSends, IInv, Shapes
    <3>3. \A j \in DOMAIN q : player[q[j].conn].st # "none" /\ q[j].conn \in Conn
      <4>1. \A j \in DOMAIN q : q[j] \in Frame
        BY <3>1
      <4> QED BY <3>1, <4>1 DEF JInv, OwnFrames, Frame
    <3>4. CASE down'[t] = q
      BY <2>1, <2>3, <3>3, <3>4
    <3>5. CASE down'[t] = Append(q, f)
      <4>1. i \in DOMAIN Append(q, f) /\ Append(q, f) \in Seq(Frame)
        BY <2>3, <3>5, Appends
      <4>2. i \in Nat
        BY <4>1
      <4>3. (i \in DOMAIN q /\ Append(q, f)[i] = q[i]) \/ Append(q, f)[i] = f
        BY <4>1, <4>2, Appends
      <4> QED BY <1>3, <2>1, <3>3, <3>5, <4>3
    <3> QED BY <3>2, <3>4, <3>5
  <2> QED BY <1>3, <2>1, <2>2, <2>3 DEF JInv, OwnFrames
<1> QED BY <1>0, <1>7, <1>8, <1>9, <1>10, <1>11, <1>12 DEF JInv

-----------------------------------------------------------------------------
LEMMA InitiallyInOrder == Init => JInv
<1> SUFFICES ASSUME Init PROVE JInv
  OBVIOUS
<1>1. IInv
  BY Initially
<1>2. ASSUME NEW c \in Conn PROVE OnTheWay(c) /\ InOrder(c) /\ Continued(c)
  <2>1. \A i \in Nat : ~DataAt(c, i) /\ ~NewAt(c, i)
    BY ConnParts DEF Init, DataAt, NewAt
  <2>2. /\ player[c].st = "none" /\ player[c].sent = 0
        /\ local[c].pc = "none" /\ local[c].got = <<>> /\ local[c].queue = <<>>
    BY DEF Init
  <2>3. ~Receiving(c)
    BY <2>2 DEF Receiving
  <2> QED BY <2>1, <2>2, <2>3 DEF OnTheWay, InOrder, Continued
<1>3. ASSUME NEW s \in Server PROVE OwnFrames(s)
  BY Loops DEF Init, OwnFrames
<1>4. ASSUME NEW i \in Stream PROVE MapFits(i)
  BY ConnParts, Loops DEF Init, MapFits, AtInsert
<1> QED BY <1>1, <1>2, <1>3, <1>4 DEF JInv

LEMMA StepInOrder == JInv /\ IdsFit /\ NoCollision /\ [Next]_vars => JInv'
<1> SUFFICES ASSUME JInv, IdsFit, NoCollision, [Next]_vars PROVE JInv'
  OBVIOUS
<1>0. IInv'
  BY Step DEF JInv
<1>1. ASSUME NEW c \in Conn, Player(c) \/ ServerHears(c) \/ LocalTask(c) \/ LocalEnds(c)
      PROVE  JInv'
  BY <1>0, <1>1, PlayerInOrder, UnheardInOrder, ServerHearsInOrder, LocalTaskInOrder
<1>2. ASSUME NEW s \in Server,
             FrameLoop(s) \/ Break(s) \/ Abort(s) \/ Connect(s) \/ SyncOpens(s) \/ SyncForgets(s)
      PROVE  JInv'
  BY <1>0, <1>2, HandleNewInOrder, InsertStreamInOrder, HandleCloseInOrder, HandleDataInOrder,
     SendDataInOrder, LinkInOrder, StopInOrder, ForgetStreamInOrder, CleanDropInOrder
     DEF FrameLoop
<1>3. CASE UNCHANGED vars
  <2> USE <1>3 DEF vars, outside, maps, tunnels
  <2>1. ASSUME NEW c \in Conn PROVE OnTheWay(c)' /\ InOrder(c)' /\ Continued(c)'
    <3>1. (Held(c)' <=> Held(c)) /\ (Live(c)' <=> Live(c)) /\ Taken(c)' = Taken(c)
      BY DEF Held, Live, Receiving, Taken, Arrived
    <3> QED BY <3>1, WayStays, OrderStays, ContinuedStays DEF JInv, Known, AtInsert, Receiving
  <2>2. ASSUME NEW s \in Server PROVE OwnFrames(s)'
    BY DEF JInv, OwnFrames
  <2>3. ASSUME NEW i \in Stream PROVE MapFits(i)'
    BY <1>0, MapsStay DEF JInv, Known, AtInsert
  <2> QED BY <1>0, <2>1, <2>2, <2>3 DEF JInv
<1> QED BY <1>1, <1>2, <1>3 DEF Next

LEMMA InvarianceInOrder == Spec /\ []NoCollision => []JInv
BY InitiallyInOrder, StepInOrder, InvarianceOfIds, PTL DEF Spec

LEMMA OrderHolds == JInv => OwnDataInOrder
<1> SUFFICES ASSUME JInv, NEW c \in Conn, NEW k \in 1..Len(local[c].got)
             PROVE  local[c].got[k] = Data(c, k)
  BY DEF OwnDataInOrder
<1>1. local[c].got \in Seq(Frame)
  BY DEF JInv, IInv, Shapes, LocalState
<1>2. k \in DOMAIN local[c].got
  BY <1>1
<1> QED BY <1>2 DEF JInv, InOrder

LEMMA OwnersHold == JInv => StreamsOwned
<1> SUFFICES ASSUME JInv, NEW i \in Stream, streams[i] # Nothing
             PROVE  local[streams[i]].pc # "done" /\ mapped[i] # None
  BY DEF StreamsOwned
<1>1. PICK c \in Conn : c = streams[i] /\ c.id = i
  BY DEF JInv, IInv, Shapes, KeyFits
<1> QED BY <1>1 DEF JInv, IInv, AnnouncedOnce, MapFits

(* With one server no two streams have the same number.                     *)
LEMMA OneServer ==
    ASSUME \A s, t \in Server : s = t
    PROVE  NoCollision
BY ConnParts DEF NoCollision

(* As long as no two servers have given out the same stream number, every   *)
(* local server receives the data of its own player, all of it so far and   *)
(* in the order it was sent, across failed connects, refused and closed     *)
(* streams, broken links and clean-ups (client/src/main.rs 964-986,         *)
(* 1151-1207).                                                              *)
THEOREM DataArrivesInOrder == Spec /\ []NoCollision => []OwnDataInOrder
BY InvarianceInOrder, OrderHolds, PTL

(* Under the same hypothesis an entry of streams belongs to a connection    *)
(* that has still to end, and is in stream_tunnel, where the clean-up finds *)
(* it, whenever a loop is aborted (582, 1032-1124, 981-983, 1202-1204).     *)
THEOREM StreamsHaveOwners == Spec /\ []NoCollision => []StreamsOwned
BY InvarianceInOrder, OwnersHold, PTL

(* A client with one server needs no hypothesis as long as the process of   *)
(* the server runs: its STREAM_ID_COUNTER gives out every number, also      *)
(* after a reconnect (server/src/main.rs 25, 695, 836).                     *)
THEOREM OneServerInOrder ==
    ASSUME \A s, t \in Server : s = t
    PROVE  Spec => [](OwnDataInOrder /\ StreamsOwned)
<1>1. NoCollision
  BY OneServer
<1>2. []NoCollision
  BY <1>1, PTL
<1>3. Spec /\ []NoCollision => [](OwnDataInOrder /\ StreamsOwned)
  BY DataArrivesInOrder, StreamsHaveOwners, PTL
<1> QED BY <1>2, <1>3, PTL
=============================================================================
