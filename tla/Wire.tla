--------------------------------- MODULE Wire ---------------------------------
(****************************************************************************)
(* One direction of a tunnel connection, byte for byte: the channel of      *)
(* frames, the writer task that writes them in batches (client/src/main.rs, *)
(* server/src/main.rs), the encoding and the reader (shared/src/protocol.rs)*)
(* and the PROXY header the client makes of a NewConnection.                *)
(*                                                                          *)
(* The stream below is TCP under TLS: bytes arrive in order, in pieces of   *)
(* any size, and some may leave before the flush.  Numbers stay below 2^31. *)
(****************************************************************************)
EXTENDS Naturals, Sequences

CONSTANTS
    Frames,      \* the frames either side may put into the channel
    LocalAddrs,  \* server_ip of a tunnel, for the PROXY header: its family, or 0
    MaxPayload,  \* MAX_PAYLOAD_SIZE
    Batch,       \* frames a writer takes without waiting (63 in the code)
    Pieces,      \* the sizes of what TLS sends before it is told to flush
    MaxFrames    \* bound on the frames sent

MaxNumber == 2147483647
Number == 0 .. MaxNumber

ASSUME BatchAssumption == Batch \in Nat /\ MaxFrames \in Nat
ASSUME PayloadAssumption == MaxPayload \in Number
ASSUME PieceAssumption == Pieces \subseteq Nat \ {0}

-----------------------------------------------------------------------------
(* The encoding.                                                            *)

(* Big-endian numbers.  The bytes above the fourth are 0. *)
Weight == <<1, 256, 65536, 16777216>>
Digit(v, k) == IF k > 3 THEN 0 ELSE (v \div Weight[k + 1]) % 256
Be(v, width) == [i \in 1 .. width |-> Digit(v, width - i)]
FromBe(bytes) ==
    LET digit(k) == IF k < Len(bytes) THEN bytes[Len(bytes) - k] ELSE 0 IN
    digit(0) + 256 * digit(1) + 65536 * digit(2) + 16777216 * digit(3)
Part(data, from, to) == SubSeq(data, from + 1, to)      \* data[from .. to]

NoPeer == [family |-> 0]
Protocols == <<"tcp", "udp", "both">>
ProtocolByte == [tcp |-> 1, udp |-> 2, both |-> 3]
MsgType == [Auth |-> 1, AuthOk |-> 2, AuthFailed |-> 3, OpenTunnel |-> 4,
            TunnelOpened |-> 5, CloseTunnel |-> 6, NewConnection |-> 7,
            Ping |-> 9, Pong |-> 10]
Bool(b) == IF b THEN 1 ELSE 0

EncodePeer(peer) ==
    IF peer = NoPeer THEN <<>> ELSE Be(peer.port, 2) \o <<peer.family>> \o peer.ip

(* Message::encode *)
Encode(m) ==
    <<MsgType[m.type]>> \o
    CASE m.type = "Auth" -> Be(Len(m.uuid), 2) \o m.uuid \o m.secret
      [] m.type = "AuthFailed" -> m.reason
      [] m.type = "OpenTunnel" ->
            Be(m.tid, 4) \o Be(m.port, 2) \o <<ProtocolByte[m.protocol]>>
               \o Be(m.db, 4)
      [] m.type \in {"TunnelOpened", "CloseTunnel"} -> Be(m.tid, 4)
      [] m.type = "NewConnection" ->
            Be(m.tid, 4) \o Be(m.id, 8) \o <<Bool(m.udp)>> \o EncodePeer(m.peer)
      [] OTHER -> <<>>

(* A peer of an earlier version stops before the fields it does not know.   *)
LegacyLength == [OpenTunnel |-> 8, NewConnection |-> 13]
Payload(m, old) ==
    IF old /\ m.type \in DOMAIN LegacyLength
    THEN Part(Encode(m), 0, LegacyLength[m.type]) ELSE Encode(m)

(* What the receiver is to understand: the defaults of the missing fields.  *)
Meaning(m, old) ==
    CASE old /\ m.type = "OpenTunnel" -> [m EXCEPT !.db = 0]
      [] old /\ m.type = "NewConnection" -> [m EXCEPT !.udp = FALSE, !.peer = NoPeer]
      [] OTHER -> m

Bail == [type |-> "bail"]

DecodePeer(p) ==
    LET peer(family, size) ==
          [family |-> family, port |-> FromBe(Part(p, 13, 15)), ip |-> Part(p, 16, 16 + size)]
    IN CASE Len(p) >= 20 /\ p[16] = 4 -> peer(4, 4)
         [] Len(p) >= 32 /\ p[16] = 6 -> peer(6, 16)
         [] OTHER -> NoPeer

DecodeAuth(p) ==
    LET n == FromBe(Part(p, 0, 2)) IN
    IF Len(p) < 2 \/ Len(p) < 2 + n THEN Bail
    ELSE [type |-> "Auth", uuid |-> Part(p, 2, 2 + n), secret |-> Part(p, 2 + n, Len(p))]

(* Mutant: db_id is not optional. *)
DecodeOpenTunnelStrict(p) ==
    IF Len(p) < 11 THEN Bail
    ELSE [type |-> "OpenTunnel", tid |-> FromBe(Part(p, 0, 4)), port |-> FromBe(Part(p, 4, 6)),
          protocol |-> Protocols[p[7]], db |-> FromBe(Part(p, 7, 11))]
DecodeOpenTunnel(p) ==
    IF Len(p) < 7 \/ p[7] \notin DOMAIN Protocols THEN Bail
    ELSE [type |-> "OpenTunnel", tid |-> FromBe(Part(p, 0, 4)), port |-> FromBe(Part(p, 4, 6)),
          protocol |-> Protocols[p[7]],
          db |-> IF Len(p) >= 11 THEN FromBe(Part(p, 7, 11)) ELSE 0]

DecodeNewConnection(p) ==
    IF Len(p) < 12 THEN Bail
    ELSE [type |-> "NewConnection", tid |-> FromBe(Part(p, 0, 4)), id |-> FromBe(Part(p, 4, 12)),
          udp |-> Len(p) > 12 /\ p[13] # 0, peer |-> DecodePeer(p)]

DecodeTunnel(type, p) ==
    IF Len(p) < 4 THEN Bail ELSE [type |-> type, tid |-> FromBe(Part(p, 0, 4))]

(* Message::decode *)
Decode(data) ==
    LET p == Tail(data)
        types == {t \in DOMAIN MsgType : MsgType[t] = data[1]}
        type == CHOOSE t \in types : TRUE
    IN IF data = <<>> \/ types = {} THEN Bail ELSE
       CASE type = "Auth" -> DecodeAuth(p)
         [] type = "AuthFailed" -> [type |-> type, reason |-> p]
         [] type = "OpenTunnel" -> DecodeOpenTunnel(p)
         [] type \in {"TunnelOpened", "CloseTunnel"} -> DecodeTunnel(type, p)
         [] type = "NewConnection" -> DecodeNewConnection(p)
         [] OTHER -> [type |-> type]

CloseMarker == <<255, 255, 255, 255>>      \* FRAME_TYPE_STREAM_CLOSE

(* Frame and Message.  Without a UUID uuid is empty. *)
Byte == 0 .. 255
Bytes == Seq(Byte)
U16 == 0 .. 65535
Peer == {NoPeer} \cup [family : {4}, port : U16, ip : [1 .. 4 -> Byte]]
                 \cup [family : {6}, port : U16, ip : [1 .. 16 -> Byte]]
Message ==
    [type : {"Auth"}, uuid : Bytes, secret : Bytes]
    \cup [type : {"AuthOk", "Ping", "Pong"}]
    \cup [type : {"AuthFailed"}, reason : Bytes]
    \cup [type : {"OpenTunnel"}, tid : Number, port : U16,
          protocol : {"tcp", "udp", "both"}, db : Number]
    \cup [type : {"TunnelOpened", "CloseTunnel"}, tid : Number]
    \cup [type : {"NewConnection"}, tid : Number, id : Number, udp : BOOLEAN, peer : Peer]
Data == [type : {"Data"}, id : 1 .. MaxNumber, payload : Bytes]
StreamClose == [type : {"StreamClose"}, id : 1 .. MaxNumber]

(* What both programs put into the channel: reads of at most 64 KB, texts   *)
(* of a configuration, stream ids counted from 1.                           *)
ASSUME FrameAssumption ==
    \A f \in Frames :
        \/ f \in Message /\ (\A o \in BOOLEAN : Len(Payload(f, o)) <= MaxPayload)
              /\ (f.type = "Auth" => Len(f.uuid) \in U16)
        \/ f \in Data /\ Len(f.payload) <= MaxPayload
        \/ f \in StreamClose

(* Mutant: StreamClose is a frame of length 0. *)
FrameBytesZero(f, old) ==
    CASE f.type = "Data" -> Be(Len(f.payload), 4) \o Be(f.id, 8) \o f.payload
      [] f.type = "StreamClose" -> Be(0, 4) \o Be(f.id, 8)
      [] OTHER -> Be(Len(Payload(f, old)), 4) \o Be(0, 8) \o Payload(f, old)

(* write_control_noflush, write_data_noflush, write_stream_close_noflush.   *)
FrameBytes(f, old) ==
    CASE f.type = "Data" -> Be(Len(f.payload), 4) \o Be(f.id, 8) \o f.payload
      [] f.type = "StreamClose" -> CloseMarker \o Be(f.id, 8)
      [] OTHER -> Be(Len(Payload(f, old)), 4) \o Be(0, 8) \o Payload(f, old)

-----------------------------------------------------------------------------
VARIABLES
    old,       \* the sender is of an earlier version
    sent, got, \* history: frames put into the channel, frames read
    chan,      \* the channel to the writer
    writer,    \* the writer task: "recv", "drain", "flush", "end"
    drained,   \* frames taken since the last recv
    buf,       \* written, not flushed
    stream,    \* on the way
    reader,    \* read_frame: "header", "payload", "frame" or "end"
    header     \* the length and the id read_frame holds

writing == <<writer, drained, buf>>
reading == <<reader, header, got>>
vars == <<old, sent, chan, writing, stream, reading>>

NoHeader == [len |-> 0, id |-> 0]

Init ==
    /\ old \in BOOLEAN
    /\ sent = <<>> /\ got = <<>> /\ chan = <<>>
    /\ writer = "recv" /\ drained = 0 /\ buf = <<>>
    /\ stream = <<>>
    /\ reader = "header" /\ header = NoHeader

(* Any task of the sender: write_tx.send. *)
Put(f) ==
    /\ writer # "end"
    /\ Len(sent) < MaxFrames
    /\ sent' = Append(sent, f)
    /\ chan' = Append(chan, f)
    /\ UNCHANGED <<old, writing, stream, reading>>

WriteFrame ==
    /\ chan # <<>>
    /\ buf' = buf \o FrameBytes(Head(chan), old)
    /\ chan' = Tail(chan)

(* write_rx.recv() and the first frame of a batch. *)
Recv ==
    /\ writer = "recv"
    /\ WriteFrame
    /\ writer' = "drain" /\ drained' = 0
    /\ UNCHANGED <<old, sent, stream, reading>>

(* try_recv: another frame of the batch.                                    *)
Drain ==
    /\ writer = "drain" /\ drained < Batch
    /\ WriteFrame
    /\ drained' = drained + 1
    /\ UNCHANGED <<old, sent, writer, stream, reading>>

(* Mutant: a full batch goes back to recv without a flush. *)
DrainedEmpty ==
    /\ writer = "drain"
    /\ drained = Batch \/ chan = <<>>
    /\ writer' = IF drained = Batch THEN "recv" ELSE "flush"
    /\ UNCHANGED <<old, sent, chan, drained, buf, stream, reading>>

Drained ==
    /\ writer = "drain"
    /\ drained = Batch \/ chan = <<>>
    /\ writer' = "flush"
    /\ UNCHANGED <<old, sent, chan, drained, buf, stream, reading>>

Flush ==
    /\ writer = "flush"
    /\ stream' = stream \o buf
    /\ buf' = <<>>
    /\ writer' = "recv"
    /\ UNCHANGED <<old, sent, chan, drained, reading>>

(* The TLS layer sends what it likes before the flush: whole frames, part   *)
(* of a header, part of a payload.                                          *)
SendSome ==
    /\ writer # "end"
    /\ \E k \in Pieces \cap DOMAIN buf :
          /\ stream' = stream \o SubSeq(buf, 1, k)
          /\ buf' = SubSeq(buf, k + 1, Len(buf))
    /\ UNCHANGED <<old, sent, chan, writer, drained, reading>>

(* A write fails, or the task that owns the writer aborts it: the rest of   *)
(* buf is lost, and so is everything in the channel.                        *)
WriterEnds ==
    /\ writer # "end"
    /\ writer' = "end"
    /\ chan' = <<>> /\ buf' = <<>>
    /\ UNCHANGED <<old, sent, drained, stream, reading>>

(* read_u32 and read_u64 wait for twelve bytes. *)
ReadHeader ==
    /\ reader = "header"
    /\ Len(stream) >= 12
    /\ stream' = Part(stream, 12, Len(stream))
    /\ LET len == Part(stream, 0, 4)
           id == FromBe(Part(stream, 4, 12))
       IN \/ /\ len = CloseMarker
             /\ got' = Append(got, [type |-> "StreamClose", id |-> id])
             /\ UNCHANGED <<reader, header>>
          \/ /\ len # CloseMarker
             /\ reader' = IF len[1] > 127 \/ FromBe(len) > MaxPayload THEN "end" ELSE "payload"
             /\ header' = [len |-> FromBe(len), id |-> id]
             /\ UNCHANGED got
    /\ UNCHANGED <<old, sent, chan, writing>>

(* read_exact, and decode when the frame is of stream 0. *)
ReadPayload ==
    LET data == Part(stream, 0, header.len)
        frame == IF header.id = 0 THEN Decode(data)
                 ELSE [type |-> "Data", id |-> header.id, payload |-> data]
    IN
    /\ reader = "payload"
    /\ Len(stream) >= header.len
    /\ stream' = Part(stream, header.len, Len(stream))
    /\ reader' = IF frame = Bail THEN "end" ELSE "header"
    /\ got' = IF frame = Bail THEN got ELSE Append(got, frame)
    /\ header' = NoHeader
    /\ UNCHANGED <<old, sent, chan, writing>>

(* EOF inside or between frames. *)
ReadFails ==
    /\ writer = "end"
    /\ \/ reader = "header" /\ Len(stream) < 12
       \/ reader = "payload" /\ Len(stream) < header.len
    /\ reader' = "end"
    /\ UNCHANGED <<old, sent, chan, writing, stream, header, got>>

WriterStep == Recv \/ Drain \/ Drained \/ Flush
ReaderStep == ReadHeader \/ ReadPayload \/ ReadFails
Next == WriterStep \/ ReaderStep \/ SendSome \/ WriterEnds \/ \E f \in Frames : Put(f)

(* The writer and the reader are tasks that are polled when they can go on; *)
(* nothing makes TLS send before the flush.                                 *)
Spec == Init /\ [][Next]_vars
FairSpec == Spec /\ WF_vars(WriterStep) /\ WF_vars(ReaderStep)

-----------------------------------------------------------------------------
(* build_proxy_protocol_header: the protocol it names, the address of the   *)
(* player and the family of the local server's, 0 for a host name.          *)

Mapped == [i \in 1 .. 12 |-> IF i > 10 THEN 255 ELSE 0]      \* ::ffff:0:0
IsMapped(peer) == peer.family = 6 /\ SubSeq(peer.ip, 1, 12) = Mapped
PlayerIp(peer) == IF IsMapped(peer) THEN Part(peer.ip, 12, 16) ELSE peer.ip
Header(proto, src, dst) == [proto |-> proto, src |-> src, dst |-> dst]

(* Mutant: a mapped address is taken for IPv6. *)
ProxyHeaderMapped(peer, local) ==
    CASE peer = NoPeer -> Header("UNKNOWN", <<>>, 0)
      [] OTHER -> Header(IF peer.family = 4 THEN "TCP4" ELSE "TCP6", peer.ip,
                         IF peer.family = 4 THEN local.family ELSE 6)

ProxyHeader(peer, local) ==
    CASE peer = NoPeer -> Header("UNKNOWN", <<>>, 0)
      [] peer # NoPeer /\ (peer.family = 4 \/ IsMapped(peer)) ->
            Header("TCP4", PlayerIp(peer), local.family)
      [] OTHER -> Header("TCP6", peer.ip, 6)      \* ::1 unless the local server is on IPv6

-----------------------------------------------------------------------------
(* The bytes of a connection read back as the frames that were put in, in   *)
(* order and unchanged but for the fields an earlier version leaves out,    *)
(* whatever the batches and the pieces that arrive (shared/src/protocol.rs  *)
(* and both writer tasks).                                                  *)
Channel == INSTANCE FrameChannel WITH
    Frames <- {Meaning(f, o) : f \in Frames, o \in BOOLEAN},
    sent <- [k \in DOMAIN sent |-> Meaning(sent[k], old)]
ImplementsChannel == Channel!Spec

(* The reader gives up only on a connection that was cut: no frame either   *)
(* program writes is refused, the empty payload of a datagram included.     *)
NoFrameRefused == reader = "end" => writer = "end"

(* Every frame gets through unless the connection breaks: no batch leaves   *)
(* the last frames in the buffer while the writer waits for more.           *)
EveryFrameArrives ==
    \A k \in 1 .. MaxFrames : Len(sent) >= k ~> Len(got) >= k \/ writer = "end"

(* What the local server is told of a player is what the tunnel server      *)
(* knew when it sent NewConnection: his address, as IPv4 if it is one in    *)
(* disguise, and nothing if the sender is too old to say.  Both addresses   *)
(* are of the family the header names, but for a player on IPv4 whose local *)
(* server is not on IPv4, whose header is mixed (899-950).                  *)
HeaderNamesPlayer ==
    \A k \in DOMAIN got : \A local \in LocalAddrs :
        got[k].type = "NewConnection" =>
            LET h == ProxyHeader(got[k].peer, local)
                family == IF h.proto = "TCP4" THEN 4 ELSE 6
            IN IF old \/ sent[k].peer = NoPeer THEN h.proto = "UNKNOWN"
               ELSE /\ h.src = PlayerIp(sent[k].peer) /\ Len(h.src) = IF family = 4 THEN 4 ELSE 16
                    /\ h.dst = family \/ (family = 4 /\ local.family # 4)
=============================================================================
