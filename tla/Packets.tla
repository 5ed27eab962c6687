------------------------------- MODULE Packets -------------------------------
(***************************************************************************)
(* How packets are put together and taken apart: build_packet and the      *)
(* checksums (include/tart/net/builder.hpp, checksum.hpp), the frames of   *)
(* Ethernet, IPv4, ICMP, UDP and TCP, the way of a received frame through  *)
(* the dispatchers, and the reply to a ping (src/net/ipv4/icmp.cpp).       *)
(*                                                                         *)
(* A packet is a sequence of bytes.  build_packet goes over its parts      *)
(* three times: for their sizes, their bytes, and their checksums.         *)
(***************************************************************************)
EXTENDS Integers, Sequences, SequencesExt

CONSTANTS
    Ip, Mac,         \* our addresses, as sequences of words
    Peers,           \* [ip, mac] of other hosts
    Payloads,        \* sequences of bytes
    Ports,           \* words
    Numbers,         \* sequence numbers, as <<high word, low word>>
    Paddings         \* bytes after the IP packet in a received frame: padding and CRC

Byte == 0 .. 255
Word == 0 .. 65535
ASSUME PacketsAssumption ==
    /\ Ip \in Word \X Word /\ Mac \in Word \X Word \X Word
    /\ Peers \subseteq [ip : Word \X Word, mac : Word \X Word \X Word]
    /\ Payloads \subseteq Seq(Byte) /\ Ports \subseteq Word
    /\ Numbers \subseteq Word \X Word /\ Paddings \subseteq Nat

VARIABLES
    pc,          \* "idle", "size", "write", "sum" or "sent"
    part,        \* the part that the pass has come to
    parts,       \* the arguments of build_packet
    wire,        \* the bytes of the buffer
    total,       \* total_size
    request,     \* history: the ping that is replied to, if any
    taker        \* the processor that got the last frame received

vars == <<pc, part, parts, wire, total, request, taker>>

ipv4_type == 2048
arp_type == 2054
icmp_proto == 1
tcp_proto == 6
udp_proto == 17
echo_request_type == 8
echo_reply_type == 0

BytesOf(words) ==
    FlattenSeq([i \in DOMAIN words |-> <<words[i] \div 256, words[i] % 256>>])
WordAt(bytes, off) == bytes[off + 1] * 256 + bytes[off + 2]
WordsAt(bytes, off, n) == [i \in 1 .. n |-> WordAt(bytes, off + 2 * (i - 1))]
PutWord(bytes, off, w) ==
    [bytes EXCEPT ![off + 1] = w \div 256, ![off + 2] = w % 256]

-----------------------------------------------------------------------------
\* checksum.hpp: words are added with the carry folded back in; a last odd
\* byte is the high byte of a word, and comes first.
Folded[v \in Nat] ==
    IF v < 65536 THEN v ELSE Folded[(v \div 65536) + (v % 65536)]
Add(v, n) == Folded[v + n]
MutantOddLow(bytes) == bytes[Len(bytes)]
OddWord(bytes) == bytes[Len(bytes)] * 256
Update(v, bytes) ==
    FoldLeft(LAMBDA sum, i : Add(sum, WordAt(bytes, 2 * (i - 1))),
             IF Len(bytes) % 2 = 1 THEN Add(v, OddWord(bytes)) ELSE v,
             [i \in 1 .. Len(bytes) \div 2 |-> i])
Value(v) == 65535 - v

-----------------------------------------------------------------------------
\* The parts of a packet: their size, their bytes, and what they do to the
\* finished buffer for their checksum.
Ether(dest) == [part |-> "ether", dest |-> dest, source |-> Mac, type |-> ipv4_type]
IpPart(dest, proto) ==
    [part |-> "ip", source |-> Ip, dest |-> dest, proto |-> proto, ttl |-> 64, ihl |-> 5]

TcpFlags == {"fin", "syn", "rst", "psh", "ack"}
Bit(flags, name, value) == IF name \in flags THEN value ELSE 0
FlagBits(flags) == Bit(flags, "fin", 1) + Bit(flags, "syn", 2) + Bit(flags, "rst", 4)
    + Bit(flags, "psh", 8) + Bit(flags, "ack", 16)

SizeOf(p) ==
    CASE p.part = "ether" -> 14
      [] p.part = "ip" -> p.ihl * 4
      [] p.part = "tcp" -> 20 + Len(p.payload)
      [] p.part \in {"udp", "icmp"} -> 8 + Len(p.payload)

EtherBytes(p) == BytesOf(p.dest \o p.source \o <<p.type>>)
IpBytes(p) ==
    BytesOf(<<(64 + p.ihl) * 256, p.ihl * 4, 0, 0, p.ttl * 256 + p.proto, 0>>
            \o p.source \o p.dest)
TcpBytes(p) ==
    BytesOf(<<p.src_port, p.dest_port>> \o p.seq_num \o p.ack_num
            \o <<5 * 4096 + FlagBits(p.flags), p.window_size, 0, 0>>) \o p.payload
UdpBytes(p) ==
    BytesOf(<<p.src_port, p.dest_port, 8 + Len(p.payload), 0>>) \o p.payload
IcmpBytes(p) ==
    BytesOf(<<p.type * 256 + p.code, 0, p.ident, p.seq>>) \o p.payload
ToBytes(p) ==
    CASE p.part = "ether" -> EtherBytes(p) [] p.part = "ip" -> IpBytes(p)
      [] p.part = "tcp" -> TcpBytes(p) [] p.part = "udp" -> UdpBytes(p)
      [] p.part = "icmp" -> IcmpBytes(p)

Slice(bytes, off, size) == SubSeq(bytes, off + 1, off + size)

IpChecksum(bytes, off) ==
    LET sized == PutWord(bytes, off + 2, total - off)
    IN  PutWord(sized, off + 10, Value(Update(0, Slice(sized, off, 20))))

PseudoHeader(source, dest, proto, size) == BytesOf(source \o dest \o <<proto, size>>)
TcpChecksum(bytes, off, p) ==
    LET phdr == PseudoHeader(p.ip.source, p.ip.dest, tcp_proto, SizeOf(p))
    IN  PutWord(bytes, off + 16,
                Value(Update(Update(0, phdr), Slice(bytes, off, SizeOf(p)))))
IcmpChecksum(bytes, off, p) ==
    PutWord(bytes, off + 2, Value(Update(0, Slice(bytes, off, SizeOf(p)))))

DoChecksum(bytes, off, p) ==
    CASE p.part = "ip" -> IpChecksum(bytes, off)
      [] p.part = "tcp" -> TcpChecksum(bytes, off, p)
      [] p.part = "icmp" -> IcmpChecksum(bytes, off, p)
      [] OTHER -> bytes

-----------------------------------------------------------------------------
\* build_packet.
Offset(i) == FoldLeft(LAMBDA sum, p : sum + SizeOf(p), 0, SubSeq(parts, 1, i - 1))

Build(ps) == pc' = "size" /\ parts' = ps

CollectSize ==
    /\ pc = "size"
    /\ total' = Offset(Len(parts) + 1)
    /\ pc' = "write" /\ part' = 1 /\ wire' = <<>>
    /\ UNCHANGED <<parts, request, taker>>

Advance(pass, next) ==
    IF part < Len(parts) THEN pc' = pass /\ part' = part + 1
    ELSE pc' = next /\ part' = 1

Write ==
    /\ pc = "write"
    /\ wire' = wire \o ToBytes(parts[part])
    /\ Advance("write", "sum")
    /\ UNCHANGED <<parts, total, request, taker>>

Sum ==
    /\ pc = "sum"
    /\ wire' = DoChecksum(wire, Offset(part), parts[part])
    /\ Advance("sum", "sent")
    /\ UNCHANGED <<parts, total, request, taker>>

-----------------------------------------------------------------------------
\* The parsers.
EtherFrom(bytes) ==
    [dest |-> WordsAt(bytes, 0, 3), source |-> WordsAt(bytes, 6, 3), type |-> WordAt(bytes, 12),
     payload |-> Slice(bytes, 14, Len(bytes) - 14), payload_size |-> Len(bytes) - 18]

MutantWholeFrame(e, ihl) == e.payload_size - ihl * 4
IpPayloadSize(e, ihl) == WordAt(e.payload, 2) - ihl * 4
Ihl(e) == e.payload[1] % 16
IpFrom(e) ==
    [source |-> WordsAt(e.payload, 12, 2), dest |-> WordsAt(e.payload, 16, 2),
     protocol |-> e.payload[10], ether |-> e,
     payload |-> Slice(e.payload, Ihl(e) * 4, Len(e.payload) - Ihl(e) * 4),
     payload_size |-> IpPayloadSize(e, Ihl(e))]

HasFlag(bits, value) == (bits \div value) % 2 = 1
TcpFrom(ip) ==
    LET b == ip.payload
        off == (b[13] \div 16) * 4
    IN  [src_port |-> WordAt(b, 0), dest_port |-> WordAt(b, 2),
         seq_num |-> WordsAt(b, 4, 2), ack_num |-> WordsAt(b, 8, 2),
         flags |-> {f \in TcpFlags : HasFlag(b[14], FlagBits({f}))},
         window_size |-> WordAt(b, 14), payload |-> Slice(b, off, ip.payload_size - off)]

IcmpFrom(ip) ==
    LET b == ip.payload
    IN  IF b[1] \in {echo_reply_type, echo_request_type}
        THEN [type |-> b[1], code |-> b[2], ident |-> WordAt(b, 4), seq |-> WordAt(b, 6),
              payload |-> Slice(b, 8, ip.payload_size - 8)]
        ELSE [type |-> b[1], code |-> b[2]]

-----------------------------------------------------------------------------
\* A frame received: the first processor that matches takes it.
Taker(bytes) ==
    LET e == EtherFrom(bytes)
        proto == IpFrom(e).protocol
    IN  CASE e.type = arp_type -> "arp"
          [] e.type = ipv4_type /\ proto = icmp_proto -> "icmp"
          [] e.type = ipv4_type /\ proto = udp_proto -> "udp"
          [] e.type = ipv4_type /\ proto = tcp_proto -> "tcp"
          [] OTHER -> "none"

MutantAnyDest(ip) == TRUE
ForUs(ip) == ip.dest = Ip
Reply(ip, icmp) ==
    <<Ether(ip.ether.source), IpPart(ip.source, icmp_proto),
      [part |-> "icmp", type |-> echo_reply_type, code |-> 0, ident |-> icmp.ident,
       seq |-> icmp.seq, payload |-> icmp.payload]>>

\* icmp_processor::push_packet.
PushIcmp(ip) ==
    LET icmp == IcmpFrom(ip)
    IN  IF icmp.type = echo_request_type /\ ForUs(ip)
        THEN Build(Reply(ip, icmp))
        ELSE UNCHANGED <<pc, parts>>

\* The frames that arrive, and their bytes.  Checksums are left at 0, since
\* nothing looks at them; IP headers may carry a word of options.
Frames ==
    [peer : Peers, type : {ipv4_type}, proto : {icmp_proto}, dest : {Ip, <<65535, 65535>>},
     options : {0, 1}, icmp_type : {echo_request_type, echo_reply_type, 3}, ident : Ports,
     seq : Ports, payload : Payloads, padding : Paddings]
    \cup [peer : Peers, type : {ipv4_type, arp_type}, proto : {udp_proto, tcp_proto, 2},
          dest : {Ip}, options : {0}, icmp_type : {0}, ident : {0}, seq : {0},
          payload : {<<>>}, padding : {4}]
Zeros(n) == [i \in 1 .. n |-> 0]
FrameBytes(f) ==
    BytesOf(Mac \o f.peer.mac
            \o <<f.type, (69 + f.options) * 256, 28 + 4 * f.options + Len(f.payload), 0, 0,
                 64 * 256 + f.proto, 0>>
            \o f.peer.ip \o f.dest \o Zeros(2 * f.options)
            \o <<f.icmp_type * 256, 0, f.ident, f.seq>>)
    \o f.payload \o Zeros(f.padding)

Receive(f) ==
    /\ pc = "idle"
    /\ taker' = Taker(FrameBytes(f))
    /\ IF taker' = "icmp"
       THEN PushIcmp(IpFrom(EtherFrom(FrameBytes(f)))) ELSE UNCHANGED <<pc, parts>>
    /\ request' = IF pc' = "size" THEN <<f>> ELSE request
    /\ UNCHANGED <<part, wire, total>>

\* tcp_socket and udp_socket send.
SendTcp(peer, ports, numbers, flags, payload) ==
    LET ip == IpPart(peer.ip, tcp_proto)
    IN  Build(<<Ether(peer.mac), ip,
                [part |-> "tcp", src_port |-> ports[1], dest_port |-> ports[2],
                 seq_num |-> numbers[1], ack_num |-> numbers[2], flags |-> flags,
                 window_size |-> 65535, payload |-> payload, ip |-> ip]>>)
SendUdp(peer, ports, payload) ==
    Build(<<Ether(peer.mac), IpPart(peer.ip, udp_proto),
            [part |-> "udp", src_port |-> ports[1], dest_port |-> ports[2],
             payload |-> payload]>>)
Send ==
    /\ pc = "idle"
    /\ \E peer \in Peers, ports \in Ports \X Ports, payload \in Payloads :
           \/ \E numbers \in Numbers \X Numbers :
                  SendTcp(peer, ports, numbers, {"psh", "ack"}, payload)
           \/ \E numbers \in Numbers \X Numbers, flags \in {{"ack"}, {"syn", "ack"}, {"fin", "ack"}} :
                  SendTcp(peer, ports, numbers, flags, <<>>)
           \/ SendUdp(peer, ports, payload)
    /\ request' = <<>> /\ UNCHANGED <<part, wire, total, taker>>

\* The buffer goes to the NIC, and what the coroutine held is gone.
HandOver ==
    /\ pc = "sent" /\ pc' = "idle" /\ part' = 1 /\ parts' = <<>> /\ wire' = <<>>
    /\ total' = 0 /\ request' = <<>> /\ taker' = "none"

Next == (\E f \in Frames : Receive(f)) \/ Send \/ CollectSize \/ Write \/ Sum \/ HandOver

Init ==
    /\ pc = "idle" /\ part = 1 /\ parts = <<>> /\ wire = <<>> /\ total = 0
    /\ request = <<>> /\ taker = "none"

Spec == Init /\ [][Next]_vars

TypeOK ==
    /\ pc \in {"idle", "size", "write", "sum", "sent"}
    /\ part \in 1 .. 3 /\ Len(parts) \in {0, 3}
    /\ wire \in Seq(Byte) /\ total \in Nat
    /\ Len(request) \in {0, 1} /\ taker \in {"none", "arp", "icmp", "udp", "tcp"}

-----------------------------------------------------------------------------
(***************************************************************************)
(* What a receiver that goes by the standards makes of a packet sent.      *)
(***************************************************************************)
\* RFC 1071: the sum of the words, an odd byte padded with zero, is 0 modulo
\* 65535, and not because all of them are 0.
WordSum(bytes) ==
    LET padded == IF Len(bytes) % 2 = 1 THEN Append(bytes, 0) ELSE bytes
    IN  FoldLeft(LAMBDA sum, i : (sum + WordAt(padded, 2 * (i - 1))) % 65535, 0,
                 [i \in 1 .. Len(padded) \div 2 |-> i])
Verifies(bytes) == WordSum(bytes) = 0 /\ \E i \in DOMAIN bytes : bytes[i] # 0

Sent == IpFrom(EtherFrom(wire))
Datagram == Slice(Sent.payload, 0, Sent.payload_size)

\* The checksums of every packet sent hold: that of the IP header with the
\* length filled in last, those of TCP (with the pseudo header) and ICMP over a
\* payload of any size, odd ones too.
ChecksumsVerify ==
    pc = "sent" =>
        /\ Verifies(Slice(wire, 14, 20))
        /\ Sent.protocol = icmp_proto => Verifies(Datagram)
        /\ Sent.protocol = tcp_proto =>
               Verifies(PseudoHeader(Sent.source, Sent.dest, tcp_proto, Len(Datagram)) \o Datagram)

\* A segment that was sent, read by the parser, is the one that was built.
ParsedAsBuilt ==
    pc = "sent" /\ Sent.protocol = tcp_proto =>
        /\ \A field \in DOMAIN TcpFrom(Sent) : TcpFrom(Sent)[field] = parts[3][field]
        /\ Sent.source = Ip /\ Sent.dest = parts[2].dest

\* The reply to a ping has its identity and exactly its payload, whatever
\* options the IP header had and whatever padding the frame, and goes back to
\* the host that asked; a ping that was not for us gets none.
EchoReturnsPing ==
    pc = "sent" /\ request # <<>> =>
        LET ping == request[1]
            reply == IcmpFrom(Sent)
        IN  /\ reply = [type |-> echo_reply_type, code |-> 0, ident |-> ping.ident,
                        seq |-> ping.seq, payload |-> ping.payload]
            /\ ping.icmp_type = echo_request_type /\ ping.dest = Ip
            /\ Sent.dest = ping.peer.ip /\ Sent.ether.dest = ping.peer.mac
=============================================================================
