---------------------------- MODULE PacketFormats ---------------------------
(***************************************************************************)
(* The packets that rawudp.go, gtp.go, ranUe.go, the emulator and the      *)
(* handover tests lay out byte by byte, as sequences of octets, how a      *)
(* GTP-U receiver takes an inner packet out of what it is sent, and which  *)
(* inner packets an IPv4 receiver goes on with.                            *)
(***************************************************************************)
EXTENDS Naturals, Sequences

CONSTANT MaxPacket  \* the largest total length BuildRawUdpIp accepts, 0xffff in the code
ASSUME PacketAssumption == MaxPacket \in Nat /\ 28 <= MaxPacket /\ MaxPacket <= 65535

Octet == 0..255
\* A 16-bit and a 32-bit field, most significant octet first; a larger value
\* is truncated.
Field16(n) == << (n \div 256) % 256, n % 256 >>
Field32(n) == Field16(n \div 65536) \o Field16(n % 65536)
Word(bytes, i) == 256 * bytes[i] + bytes[i + 1]

-----------------------------------------------------------------------------
(* Checksums                                                                *)

\* The 16-bit words of a buffer added up, an odd last octet padded with zero.
WordSum(buf) ==
    LET sum[i \in 0..Len(buf)] ==
            IF i = 0 THEN 0 ELSE sum[i - 1] + (IF i % 2 = 1 THEN 256 * buf[i] ELSE buf[i])
    IN  sum[Len(buf)]

\* for sum > 0xffff { sum = (sum >> 16) + (sum & 0xffff) }
Folded[sum \in Nat] == IF sum > 65535 THEN Folded[(sum \div 65536) + (sum % 65536)] ELSE sum

\* Variant: the carries are dropped instead of being added.
TruncatedChecksum(buf) == 65535 - (WordSum(buf) % 65536)

\* RFC 768: a checksum of zero is sent as all ones.
checksum(buf) ==
    LET csum == 65535 - Folded[WordSum(buf)] IN IF csum = 0 THEN 65535 ELSE csum

\* A receiver adds everything up, the checksum included.
Verifies(buf) == Folded[WordSum(buf)] = 65535

-----------------------------------------------------------------------------
(* BuildRawUdpIp                                                            *)

\* An IPv4 header without its identification: the field is commented out of
\* the structure, so 18 octets are written where the first one, 0x45, and the
\* total length count 20.
IpHdr(iplen, csum, src, dst) ==
    << 69, 0 >> \o Field16(iplen) \o Field16(0) \o << 64, 17 >> \o Field16(csum) \o src \o dst
UdpHdr(src, dst, ulen, csum) == Field16(src) \o Field16(dst) \o Field16(ulen) \o Field16(csum)
PseudoHdr(ipsrc, ipdst, plen) == ipsrc \o ipdst \o << 0, 17 >> \o Field16(plen)

IpChecksum(iplen, src, dst) == checksum(IpHdr(iplen, 0, src, dst))
UdpChecksum(ipsrc, ipdst, src, dst, payload) ==
    LET ulen == 8 + Len(payload)
    IN  checksum(PseudoHdr(ipsrc, ipdst, ulen) \o UdpHdr(src, dst, ulen, 0) \o payload)

\* Anything larger is refused with an error.
Fits(payload) == 20 + 8 + Len(payload) <= MaxPacket

BuildRawUdpIp(srcIP, dstIP, srcPort, dstPort, payload) ==
    LET udplen   == 8 + Len(payload)
        totalLen == 20 + udplen
    IN  IpHdr(totalLen, IpChecksum(totalLen, srcIP, dstIP), srcIP, dstIP)
        \o UdpHdr(srcPort, dstPort, udplen, UdpChecksum(srcIP, dstIP, srcPort, dstPort, payload))
        \o payload

\* An IPv4 receiver goes by what the header says of itself: it is as many words
\* as the first octet gives and its checksum has to verify, and a packet shorter
\* than its total length is truncated.
HeaderOf(ip) == SubSeq(ip, 1, 4 * (ip[1] % 16))
Deliverable(ip) == Word(ip, 3) <= Len(ip) /\ Verifies(HeaderOf(ip))

-----------------------------------------------------------------------------
(* GTP-U                                                                    *)

\* Each optional argument is <<>>, or <<value>> with its flag set.
BuildGTPv1Header(sn, nPduNum, nExtHdrType, payloadLen, teID) ==
    LET flags == 3 * 16 + 4 * Len(nExtHdrType) + 2 * Len(sn) + Len(nPduNum)
        value(arg) == IF arg = <<>> THEN 0 ELSE arg[1]
    IN  << flags, 255 >> \o Field16(payloadLen) \o Field32(teID)
        \o IF flags = 48 THEN <<>>
           ELSE Field16(value(sn)) \o << value(nPduNum), value(nExtHdrType) >>

\* Variant: the header's own octets are counted too.
SendWithHeaderCounted(pkt, teID) ==
    BuildGTPv1Header(<<>>, <<>>, <<>>, 8 + Len(pkt), teID) \o pkt

\* sendGTP: the packet behind a header without options.
sendGTP(pkt, teID) == BuildGTPv1Header(<<>>, <<>>, <<>>, Len(pkt), teID) \o pkt

\* A receiver: the length counts the octets after the first eight, four of
\* them a sequence number, an N-PDU number and an extension type if flagged.
TunnelOf(datagram) == SubSeq(datagram, 5, 8)
Decapsulated(datagram) ==
    LET first == IF datagram[1] % 8 = 0 THEN 9 ELSE 13
        last  == 8 + Word(datagram, 3)
    IN  IF last > Len(datagram) THEN <<>> ELSE SubSeq(datagram, first, last)

-----------------------------------------------------------------------------
(* The echo request of the handover tests.  Its sending is commented out    *)
(* there (handover_test.go:388, 976); the checksum function is not.         *)

\* Version and length, total length 48, identification 1, no fragment, time
\* to live 64, protocol 1: the fields ipv4.Header is filled in with.
PingHeader(csum, src, dst) ==
    << 69, 0 >> \o Field16(48) \o Field16(1) \o Field16(0) \o << 64, 1 >> \o Field16(csum)
    \o src \o dst

\* Variant: what exceeds sixteen bits is forgotten.
UnfoldedHeaderChecksum(src, dst) == 65535 - (WordSum(PingHeader(0, src, dst)) % 65536)

\* One fold only; of the complement the low sixteen bits are marshalled.
CalculateIpv4HeaderChecksum(src, dst) ==
    LET sum == WordSum(PingHeader(0, src, dst))
    IN  65535 - (((sum \div 65536) + (sum % 65536)) % 65536)

\* A hand-written GTP header for tunnel 1, with a sequence number and length
\* 52; ICMP's 8 octets and 48 of data follow the IPv4 header.
PingTunnelHeader == << 50, 255, 0, 52, 0, 0, 0, 1, 0, 0, 0, 0 >>

=============================================================================
