-------------------------- MODULE WireFormatsProofs ---------------------------
(***************************************************************************)
(* Proofs about WireFormats: for every payload and port, every UE address  *)
(* of the pool and every subscriber number, what comes out at the other    *)
(* end is what was built.  The invariant Paths says which values were      *)
(* built, sent and read so far; the rest is about the functions that build *)
(* and read them, those of the packets in PacketFormatsProofs, those of    *)
(* the identities here.  Last, about the UDP echo server: whatever the     *)
(* clients send, nobody gets back what another one has sent.               *)
(***************************************************************************)
EXTENDS WireFormats, PacketFormatsProofs

-----------------------------------------------------------------------------
(* What was made, sent and read                                             *)

\* The packet of the emulator, the echo request and the identities are made
\* from their parameters, sent from what was made and read from what was sent.
PacketPath ==
    kind = "packet" =>
        /\ arg.payload \in Payloads /\ arg.port \in Ports
        /\ stage \in {"made", "sent", "read"} =>
             /\ Fits(arg.payload)
             /\ made = BuildRawUdpIp(EmulatorSrc, EmulatorDst, arg.port, 30001, arg.payload)
        /\ stage \in {"sent", "read"} => wire = sendGTP(made, 1)
        /\ stage = "read" => got = Decapsulated(wire)

PingFrom(src) == PingHeader(CalculateIpv4HeaderChecksum(src, PingDst), src, PingDst)
PingPath ==
    kind = "ping" =>
        /\ arg \in Hosts
        /\ stage \in {"made", "sent", "read"} => made = PingFrom(<< 60, 60 >> \o arg)
        /\ stage \in {"sent", "read"} => wire = PingTunnelHeader \o made \o PingIcmp
        /\ stage = "read" => got = Decapsulated(wire)

SuciPath ==
    kind = "suci" =>
        /\ arg \in Msins
        /\ stage \in {"made", "sent", "read"} => made = HomeNetwork \o arg
        /\ stage \in {"sent", "read"} => wire = encodeSuci(made, 2)
        /\ stage = "read" => got = GetSUCI(wire)

TmsiPath ==
    kind = "tmsi" =>
        /\ arg \in Tmsis
        /\ stage \in {"made", "sent", "read"} => made = arg
        /\ stage \in {"sent", "read"} => wire = TmsiField(FoldedTmsi(made))
        /\ stage = "read" => got = wire

Paths == PacketPath /\ PingPath /\ SuciPath /\ TmsiPath

LEMMA InitPaths == Init => Paths
  <1> SUFFICES ASSUME Init PROVE Paths OBVIOUS
  <1>1. stage = "asked" BY DEF Init, WireInit
  <1>2. PacketPath
    <2>1. kind = "packet" => arg \in [payload : Payloads, port : Ports] BY DEF Init, WireInit
    <2> QED BY <1>1, <2>1 DEF PacketPath
  <1>3. PingPath
    <2>1. kind = "ping" => arg \in Hosts BY DEF Init, WireInit
    <2> QED BY <1>1, <2>1 DEF PingPath
  <1>4. SuciPath
    <2>1. kind = "suci" => arg \in Msins BY DEF Init, WireInit
    <2> QED BY <1>1, <2>1 DEF SuciPath
  <1>5. TmsiPath
    <2>1. kind = "tmsi" => arg \in Tmsis BY DEF Init, WireInit
    <2> QED BY <1>1, <2>1 DEF TmsiPath
  <1> QED BY <1>2, <1>3, <1>4, <1>5 DEF Paths

\* Each kind has its own way: one step of another kind, or of the server,
\* disturbs none of the four.
LEMMA NextPaths == Paths /\ [Next]_<<wireVars, serverVars>> => Paths'
  <1> SUFFICES ASSUME Paths, [Next]_<<wireVars, serverVars>> PROVE Paths' OBVIOUS
  <1> USE DEF Paths, PacketPath, PingPath, SuciPath, TmsiPath
  <1>1. CASE BuildMessage BY <1>1 DEF BuildMessage, Make
  <1>2. CASE BuildPacket BY <1>2 DEF BuildPacket, Make
  <1>3. CASE BuildPing BY <1>3 DEF BuildPing, Make, PingFrom
  <1>4. CASE TakeImsi BY <1>4 DEF TakeImsi, Make
  <1>5. CASE TakeTmsi BY <1>5 DEF TakeTmsi, Make
  <1>6. CASE MakeBatch BY <1>6 DEF MakeBatch, Make
  <1>7. CASE EncodeMessage BY <1>7 DEF EncodeMessage, Transmit
  <1>8. CASE SendPacket BY <1>8 DEF SendPacket, Transmit
  <1>9. CASE SendPing BY <1>9 DEF SendPing, Transmit
  <1>10. CASE EncodeSuci BY <1>10 DEF EncodeSuci, Transmit
  <1>11. CASE HandOutWork BY <1>11 DEF HandOutWork, Transmit
  <1>12. CASE RequestService BY <1>12 DEF RequestService, Transmit
  <1>13. CASE Refuse BY <1>13 DEF Refuse
  <1>14. CASE DecodeMessage BY <1>14 DEF DecodeMessage, ReadAtTheEnd
  <1>15. CASE LeaveTunnel BY <1>15 DEF LeaveTunnel, ReadAtTheEnd
  <1>16. CASE ReadSuci BY <1>16 DEF ReadSuci, ReadAtTheEnd
  <1>17. CASE ReadTmsi BY <1>17 DEF ReadTmsi, ReadAtTheEnd
  <1>18. CASE UNCHANGED wireVars BY <1>18 DEF wireVars
  <1> HIDE DEF Paths, PacketPath, PingPath, SuciPath, TmsiPath
  <1>19. CASE Wire
    BY <1>1, <1>2, <1>3, <1>4, <1>5, <1>6, <1>7, <1>8, <1>9, <1>10, <1>11, <1>12, <1>13,
       <1>14, <1>15, <1>16, <1>17, <1>19, Zenon DEF Wire
  <1> QED BY <1>18, <1>19, Zenon DEF Next, wireVars, serverVars

\* What was made follows from the parameters alone, what was sent from what was
\* made and what was read from what was sent, and only a packet that fits is
\* built (ueRanEmulator hands each value on from one call to the next).
THEOREM AlwaysPaths == Spec => []Paths
  <1>1. Init => Paths BY InitPaths
  <1>2. Paths /\ [Next]_<<wireVars, serverVars>> => Paths' BY NextPaths
  <1> QED BY <1>1, <1>2, PTL DEF Spec

-----------------------------------------------------------------------------
(* The packets arrive                                                       *)

LEMMA SeqOfLarger ==
    ASSUME NEW S, NEW T, S \subseteq T, NEW s \in Seq(S)
    PROVE  s \in Seq(T)
  OBVIOUS

LEMMA OctetNat == Octet \subseteq Nat
  BY DEF Octet

LEMMA PayloadIs ==
    ASSUME NEW p \in Payloads
    PROVE  p \in Seq(Nat)
  <1>1. p \in Seq(Octet) BY WireAssumption, Zenon
  <1> QED BY <1>1, OctetNat, SeqOfLarger, Zenon

LEMMA PortNat ==
    ASSUME NEW p \in Ports
    PROVE  p \in Nat
  BY PortAssumption

LEMMA FittingIsShort ==
    ASSUME NEW p \in Seq(Nat), Fits(p)
    PROVE  Short(26 + Len(p)) /\ Short(28 + Len(p))
  <1>1. PICK n \in Nat : n = Len(p) OBVIOUS
  <1>2. MaxPacket \in Nat /\ MaxPacket <= 65535 BY LimitShort
  <1>3. 20 + 8 + n <= MaxPacket BY <1>1 DEF Fits
  <1>4. 26 + n <= 65535 /\ 28 + n <= 65535 BY <1>2, <1>3
  <1> QED BY <1>1, <1>4 DEF Short

LEMMA Addresses ==
    /\ EmulatorSrc \in Seq(Nat) /\ Len(EmulatorSrc) = 4 /\ EmulatorSrc[1] > 0
    /\ EmulatorDst \in Seq(Nat) /\ Len(EmulatorDst) = 4
  BY DEF EmulatorSrc, EmulatorDst

LEMMA PacketStays ==
    Paths /\ kind = "packet" /\ stage = "read" =>
        LET segment == SubSeq(made, 19, Len(made))
        IN  /\ got = made /\ TunnelOf(wire) = << 0, 0, 0, 1 >>
            /\ Word(got, 3) = Len(got) + 2 /\ ~Deliverable(got)
            /\ Verifies(PseudoHdr(EmulatorSrc, EmulatorDst, Len(segment)) \o segment)
            /\ Word(segment, 7) # 0
  <1> SUFFICES ASSUME Paths, kind = "packet", stage = "read"
               PROVE  LET segment == SubSeq(made, 19, Len(made))
                      IN  /\ got = made /\ TunnelOf(wire) = << 0, 0, 0, 1 >>
                          /\ Word(got, 3) = Len(got) + 2 /\ ~Deliverable(got)
                          /\ Verifies(PseudoHdr(EmulatorSrc, EmulatorDst, Len(segment)) \o segment)
                          /\ Word(segment, 7) # 0
    OBVIOUS
  <1>1. /\ arg.payload \in Payloads /\ arg.port \in Ports /\ Fits(arg.payload)
        /\ made = BuildRawUdpIp(EmulatorSrc, EmulatorDst, arg.port, 30001, arg.payload)
        /\ wire = sendGTP(made, 1) /\ got = Decapsulated(wire)
    BY DEF Paths, PacketPath
  <1>2. PICK payload \in Seq(Nat) : payload = arg.payload BY <1>1, PayloadIs
  <1>3. PICK port \in Nat : port = arg.port BY <1>1, PortNat
  <1>4. PICK dst \in Nat : dst = 30001 OBVIOUS
  <1>5. PICK p : p = BuildRawUdpIp(EmulatorSrc, EmulatorDst, port, dst, payload) /\ p = made
    BY <1>1, <1>2, <1>3, <1>4
  <1>6. /\ p \in Seq(Nat) /\ Len(p) = 26 + Len(payload)
        /\ SegmentOf(SubSeq(p, 19, Len(p)), EmulatorSrc, EmulatorDst, 8 + Len(payload))
        /\ Short(28 + Len(payload)) => Says(p, 28 + Len(payload))
    <2>1. RawPacket(p, EmulatorSrc, EmulatorDst, Len(payload)) BY <1>5, Addresses, RawUdpIpIs
    <2> QED BY <2>1 DEF RawPacket
  <1>7. PICK segment : segment = SubSeq(p, 19, Len(p)) OBVIOUS
  <1>8. /\ Verifies(PseudoHdr(EmulatorSrc, EmulatorDst, Len(segment)) \o segment)
        /\ Word(segment, 7) # 0
    BY <1>6, <1>7 DEF SegmentOf
  <1>9. Short(Len(p))
    <2>1. Fits(payload) BY <1>1, <1>2
    <2>2. Short(26 + Len(payload)) BY <2>1, FittingIsShort
    <2> QED BY <1>6, <2>2
  <1>10. Decapsulated(sendGTP(p, 1)) = p /\ TunnelOf(sendGTP(p, 1)) = << 0, 0, 0, 1 >>
    BY <1>6, <1>9, TunnelCarries
  <1>11. got = made /\ TunnelOf(wire) = << 0, 0, 0, 1 >> BY <1>1, <1>5, <1>10
  <1>12. Word(p, 3) = Len(p) + 2
    <2>1. Fits(payload) BY <1>1, <1>2
    <2>2. Short(28 + Len(payload)) BY <2>1, FittingIsShort
    <2>3. Word(p, 3) = 28 + Len(payload) BY <1>6, <2>2 DEF Says
    <2> QED BY <1>6, <2>3
  <1>13. ~Deliverable(p)
    <2>1. Len(p) \in Nat BY <1>6
    <2>2. ~(Word(p, 3) <= Len(p)) BY <1>12, <2>1
    <2> QED BY <2>2 DEF Deliverable
  <1> QED BY <1>5, <1>7, <1>8, <1>11, <1>12, <1>13

LEMMA OctetIs ==
    ASSUME NEW o \in Octet
    PROVE  o \in Nat /\ o <= 255
  BY DEF Octet

LEMMA HostIs ==
    ASSUME NEW host \in Hosts
    PROVE  \E h \in Nat, v \in Nat : Short(h) /\ v = 15420 + h /\ Summed(<< 60, 60 >> \o host, 4, v)
  <1>1. PICK a \in Octet, b \in Octet : host = << a, b >> BY WireAssumption
  <1>2. a \in Nat /\ a <= 255 /\ b \in Nat /\ b <= 255 BY OctetIs
  <1>3. PICK h \in Nat : h = 256 * a + b BY <1>2
  <1>4. Short(h)
    <2>1. 256 * a <= 65280 BY <1>2
    <2> QED BY <1>2, <1>3, <2>1 DEF Short
  <1>5. host \in Seq(Nat) /\ Len(host) = 2 /\ Word(host, 1) = h BY <1>1, <1>2, <1>3, WordOfPair
  <1>6. PICK w \in Nat : w = 15420 OBVIOUS
  <1>7. PICK t \in Seq(Nat) : t = << 60, 60 >> /\ Len(t) = 2 /\ Word(t, 1) = w
    <2>1. PICK x \in Nat : x = 60 OBVIOUS
    <2>2. 256 * x + x = w BY <1>6, <2>1
    <2>3. << x, x >> \in Seq(Nat) /\ Len(<< x, x >>) = 2 /\ Word(<< x, x >>, 1) = w
      BY <2>2, WordOfPair
    <2> QED BY <2>1, <2>3
  <1>8. PICK v \in Nat : v = w + h OBVIOUS
  <1>9. Plus(2, 2, 4) /\ Plus(w, h, v) BY <1>8 DEF Plus
  <1>10. Summed(t, 2, w) /\ Summed(host, 2, h) BY <1>5, <1>7, SummedPair
  <1>11. Summed(t \o host, 4, v) BY <1>9, <1>10, SummedTogether, Zenon
  <1>12. v = 15420 + h BY <1>6, <1>8
  <1> QED BY <1>4, <1>7, <1>11, <1>12

LEMMA PingDstIs == Summed(PingDst, 4, 15521)
  <1>1. PingDst \in Seq(Nat) /\ Len(PingDst) = 4 BY DEF PingDst
  <1>2. PingDst[1] = 60 /\ PingDst[2] = 60 /\ PingDst[3] = 0 /\ PingDst[4] = 101 BY DEF PingDst
  <1>3. Word(PingDst, 1) + Word(PingDst, 3) = 15521
    <2>1. 1 + 1 = 2 /\ 3 + 1 = 4 OBVIOUS
    <2> QED BY <1>2, <2>1 DEF Word
  <1> QED BY <1>1, <1>3, SummedFour

LEMMA IcmpIs == PingIcmp \in Seq(Nat) /\ Len(PingIcmp) = 56
  BY DEF PingIcmp

LEMMA PingStays ==
    Paths /\ kind = "ping" /\ stage = "read" =>
        /\ Deliverable(got)
        /\ HeaderOf(got) = made /\ Len(got) = Word(got, 3)
        /\ PingTunnelHeader = BuildGTPv1Header(<<0>>, <<>>, <<>>, 4 + Len(got), 1)
  <1> SUFFICES ASSUME Paths, kind = "ping", stage = "read"
               PROVE  /\ Deliverable(got)
                      /\ HeaderOf(got) = made /\ Len(got) = Word(got, 3)
                      /\ PingTunnelHeader = BuildGTPv1Header(<<0>>, <<>>, <<>>, 4 + Len(got), 1)
    OBVIOUS
  <1>1. /\ arg \in Hosts /\ made = PingFrom(<< 60, 60 >> \o arg)
        /\ wire = PingTunnelHeader \o made \o PingIcmp /\ got = Decapsulated(wire)
    BY DEF Paths, PingPath
  <1>2. PICK src : src = << 60, 60 >> \o arg OBVIOUS
  <1>3. PICK h \in Nat, v \in Nat : Short(h) /\ v = 15420 + h /\ Summed(src, 4, v)
    BY <1>1, <1>2, HostIs
  <1>4. made \in Seq(Nat) /\ Len(made) = 20 /\ Says(made, 48) /\ Verifies(made)
    BY <1>1, <1>2, <1>3, PingDstIs, PingHeaderVerifies DEF PingFrom
  <1>5. PICK t : t = PingTunnelHeader OBVIOUS
  <1>6. /\ t = BuildGTPv1Header(<< 0 >>, <<>>, <<>>, 52, 1)
        /\ t \in Seq(Nat) /\ Len(t) = 12 /\ t[1] = 50 /\ t[3] = 0 /\ t[4] = 52
    BY <1>5, PingTunnelHeaderIs
  <1>7. Datagram(wire, t, made) BY <1>1, <1>4, <1>5, <1>6, IcmpIs, DatagramIs
  <1>8. Len(got) = 48 /\ got[1] = 69 /\ Word(got, 3) = 48 /\ SubSeq(got, 1, 20) = made
    <2>1. WithOptions(t) BY <1>6 DEF WithOptions
    <2>2. made \in Seq(Nat) /\ Len(made) = 20 BY <1>4
    <2>3. Inside(Decapsulated(wire), made) BY <1>7, <2>1, <2>2, OptionsAreSkipped, Zenon
    <2>4. got = Decapsulated(wire) BY <1>1
    <2>5. made[1] = 69 /\ Word(made, 3) = 48 BY <1>4 DEF Says
    <2> QED BY <2>3, <2>4, <2>5 DEF Inside
  <1>9. 4 + Len(got) = 52 BY <1>8
  <1>10. HeaderOf(got) = made
    <2>1. 4 * (69 % 16) = 20 BY SMT
    <2> QED BY <1>8, <2>1 DEF HeaderOf
  <1>11. Deliverable(got)
    <2>1. Word(got, 3) <= Len(got) BY <1>8
    <2> QED BY <1>4, <1>10, <2>1 DEF Deliverable
  <1> QED BY <1>5, <1>6, <1>8, <1>9, <1>10, <1>11

\* Every packet of the emulator that is built, whatever its payload and port,
\* comes out of the tunnel as it was, with a UDP checksum that verifies and is not
\* zero; it never is one an IPv4 receiver would go on with, its header being two
\* octets short (rawudp.go:18).  The echo request always is one, from every UE
\* address of the pool (handover_test.go: the ping's checksum).
THEOREM AlwaysTunnelKeepsPackets == Spec => []TunnelKeepsPackets
  <1>1. Paths => TunnelKeepsPackets BY PacketStays, PingStays DEF TunnelKeepsPackets
  <1> QED BY <1>1, AlwaysPaths, PTL

-----------------------------------------------------------------------------
(* The identities are read                                                  *)

LEMMA DigitIs ==
    ASSUME NEW d \in Digit
    PROVE  d \in Nat /\ d <= 9 /\ hexCharToByte(d) = d
  BY DEF Digit, hexCharToByte

LEMMA HalvesAre ==
    ASSUME NEW low \in Nat, NEW high \in Nat, low <= 15
    PROVE  Low(16 * high + low) = low /\ High(16 * high + low) = high
  BY SMT DEF Low, High

LEMMA NibblesAre ==
    ASSUME NEW a \in Digit, NEW b \in Digit
    PROVE  Nibbles(a, b) \in Nat /\ Low(Nibbles(a, b)) = a /\ High(Nibbles(a, b)) = b
  <1>1. a \in Nat /\ a <= 15 /\ b \in Nat /\ hexCharToByte(a) = a /\ hexCharToByte(b) = b BY DigitIs
  <1>2. Nibbles(a, b) = 16 * b + a BY <1>1 DEF Nibbles
  <1>3. 16 * b + a \in Nat BY <1>1
  <1> QED BY <1>1, <1>2, <1>3, HalvesAre

LEMMA FillerIs ==
    ASSUME NEW a \in Digit
    PROVE  /\ 15 * 16 + hexCharToByte(a) \in Nat
           /\ Low(15 * 16 + hexCharToByte(a)) = a /\ High(15 * 16 + hexCharToByte(a)) = 15
  <1>1. a \in Nat /\ a <= 15 /\ hexCharToByte(a) = a BY DigitIs
  <1>2. 15 * 16 + a = 16 * 15 + a /\ 15 * 16 + a \in Nat /\ 15 \in Nat BY <1>1
  <1> QED BY <1>1, <1>2, HalvesAre

LEMMA Half ==
    ASSUME NEW n \in Nat
    PROVE  \E m \in Nat : m = (n + 1) \div 2 /\ (n = 2 * m \/ n + 1 = 2 * m)
  <1>1. PICK m \in Nat : m = (n + 1) \div 2 BY SMT
  <1>2. n = 2 * m \/ n + 1 = 2 * m BY <1>1, SMT
  <1> QED BY <1>1, <1>2

\* P holds the digits two to an octet, filled up at the end.
Paired(P, msin, n, m) ==
    /\ P \in Seq(Nat) /\ Len(P) = m
    /\ \A k \in Nat : 0 < k /\ k <= m =>
         /\ Low(P[k]) = msin[2 * k - 1]
         /\ High(P[k]) = IF 2 * k > n THEN 15 ELSE msin[2 * k]

LEMMA PairsAre ==
    ASSUME NEW msin \in Seq(Digit), NEW n \in Nat, n = Len(msin),
           NEW m \in Nat, m = (n + 1) \div 2, n = 2 * m \/ n + 1 = 2 * m
    PROVE  Paired(Pairs(msin), msin, n, m)
  <1>1. PICK P : P = Pairs(msin) OBVIOUS
  <1> DEFINE value(k) == IF 2 * k > n THEN 15 * 16 + hexCharToByte(msin[2 * k - 1])
                                      ELSE Nibbles(msin[2 * k - 1], msin[2 * k])
  <1>2. P = [k \in 1..m |-> value(k)] BY <1>1 DEF Pairs
  <1>3. ASSUME NEW k \in 1..m
        PROVE  /\ value(k) \in Nat /\ Low(value(k)) = msin[2 * k - 1]
               /\ High(value(k)) = IF 2 * k > n THEN 15 ELSE msin[2 * k]
    <2>1. 2 * k - 1 \in 1..n
      <3>1. k \in Nat /\ 1 <= k /\ k <= m OBVIOUS
      <3>2. 2 * k - 1 \in Nat /\ 1 <= 2 * k - 1 /\ 2 * k - 1 <= n BY <3>1
      <3> QED BY <3>2
    <2>2. msin[2 * k - 1] \in Digit BY <2>1, ElementOfSeq
    <2>3. CASE 2 * k > n
      <3>1. value(k) = 15 * 16 + hexCharToByte(msin[2 * k - 1]) BY <2>3
      <3> HIDE DEF value
      <3> QED BY <2>2, <2>3, <3>1, FillerIs
    <2>4. CASE ~(2 * k > n)
      <3>1. 2 * k \in 1..n BY <2>4
      <3>2. msin[2 * k] \in Digit BY <3>1, ElementOfSeq
      <3>3. value(k) = Nibbles(msin[2 * k - 1], msin[2 * k]) BY <2>4
      <3> HIDE DEF value
      <3> QED BY <2>2, <2>4, <3>2, <3>3, NibblesAre
    <2> QED BY <2>3, <2>4
  <1> HIDE DEF value
  <1>4. P \in Seq(Nat) /\ Len(P) = m BY <1>2, <1>3
  <1>5. \A k \in Nat : 0 < k /\ k <= m => k \in 1..m /\ P[k] = value(k) BY <1>2
  <1>6. Paired(P, msin, n, m) BY <1>3, <1>4, <1>5, Zenon DEF Paired
  <1> QED BY <1>1, <1>6

LEMMA DigitNat == Digit \subseteq Nat
  BY DEF Digit

LEMMA HomeNetworkIs ==
    /\ HomeNetwork \in Seq(Nat) /\ Len(HomeNetwork) = 5
    /\ HomeNetwork[1] = 2 /\ HomeNetwork[2] = 0 /\ HomeNetwork[3] = 8
    /\ HomeNetwork[4] = 9 /\ HomeNetwork[5] = 3
  BY DEF HomeNetwork

\* The digits of the home network and then those of the subscriber.
Imsi(imsi, msin, n) ==
    /\ imsi[1] = 2 /\ imsi[2] = 0 /\ imsi[3] = 8 /\ imsi[4] = 9 /\ imsi[5] = 3
    /\ Len(imsi) = 5 + n /\ SubSeq(imsi, 6, 5 + n) = msin

LEMMA ImsiIs ==
    ASSUME NEW msin \in Seq(Nat), NEW n \in Nat, n = Len(msin)
    PROVE  Imsi(HomeNetwork \o msin, msin, n)
  <1>1. PICK home \in Seq(Nat) : home = HomeNetwork /\ Len(home) = 5 BY HomeNetworkIs
  <1>2. PICK imsi \in Seq(Nat) :
          imsi = home \o msin /\ SubSeq(imsi, Len(home) + 1, Len(home) + Len(msin)) = msin
    BY Concatenated
  <1>3. 5 \in Nat OBVIOUS
  <1>4. Joined(imsi, home, 5, msin, n) BY <1>1, <1>2, <1>3, ConcatenationIsJoined
  <1>5. /\ Len(imsi) = 5 + n
        /\ imsi[1] = home[1] /\ imsi[2] = home[2] /\ imsi[3] = home[3]
        /\ imsi[4] = home[4] /\ imsi[5] = home[5]
    BY <1>4 DEF Joined
  <1>6. Len(home) + 1 = 6 /\ Len(home) + Len(msin) = 5 + n BY <1>1
  <1>7. SubSeq(imsi, 6, 5 + n) = msin BY <1>2, <1>6
  <1>8. Imsi(imsi, msin, n) BY <1>1, <1>5, <1>7, HomeNetworkIs DEF Imsi
  <1> QED BY <1>1, <1>2, <1>8

\* A SUCI: the eight octets before the scheme output, and that.
Suci(buf, P, m) ==
    /\ buf \in Seq(Nat) /\ Len(buf) = 8 + m
    /\ buf[2] = 2 /\ buf[3] = 248 /\ buf[4] = 57 /\ buf[8] = 0
    /\ \A i \in Nat : 0 < i /\ i <= m => buf[8 + i] = P[i]

LEMMA encodeSuciIs ==
    ASSUME NEW imsi, NEW msin, NEW n \in Nat, Imsi(imsi, msin, n),
           NEW m \in Nat, NEW P, P = Pairs(msin), Paired(P, msin, n, m)
    PROVE  Suci(encodeSuci(imsi, 2), P, m)
  <1>1. Nibbles(2, 0) = 2 /\ Nibbles(8, 15) = 248 /\ Nibbles(9, 3) = 57
    BY DEF Nibbles, hexCharToByte
  <1>2. PICK a \in Seq(Nat) : a = << 1, Nibbles(2, 0) >> /\ Len(a) = 2 /\ a[2] = 2
    <2>1. PICK x \in Nat : x = Nibbles(2, 0) /\ x = 2 BY <1>1
    <2>2. PICK y \in Nat : y = 1 OBVIOUS
    <2>3. PICK a : a = << y, x >> OBVIOUS
    <2>4. a \in Seq(Nat) /\ Len(a) = 2 /\ a[2] = x BY <2>3, PairIs, Zenon
    <2>5. a = << 1, Nibbles(2, 0) >> BY <2>1, <2>2, <2>3
    <2>6. a[2] = 2 BY <2>1, <2>4
    <2> QED BY <2>4, <2>5, <2>6, Zenon
  <1>15. PICK b : b = << Nibbles(8, 15), Nibbles(9, 3) >> OBVIOUS
  <1>3. b \in Seq(Nat) /\ Len(b) = 2 /\ b[1] = 248 /\ b[2] = 57
    <2>1. PICK x \in Nat : x = Nibbles(8, 15) /\ x = 248 BY <1>1
    <2>2. PICK y \in Nat : y = Nibbles(9, 3) /\ y = 57 BY <1>1
    <2>3. b = << x, y >> BY <1>15, <2>1, <2>2
    <2>4. b \in Seq(Nat) /\ Len(b) = 2 /\ b[1] = x /\ b[2] = y BY <2>3, PairIs, Zenon
    <2> QED BY <2>1, <2>2, <2>4
  <1>14. PICK c : c = << 240, 255, 0, 0 >> OBVIOUS
  <1>4. c \in Seq(Nat) /\ Len(c) = 4 /\ c[4] = 0 BY <1>14
  <1>5. PICK E \in Seq(Nat) : E = a \o b \o c /\ FirstEight(E, a, b, c)
    <2>1. FirstEight(a \o b \o c, a, b, c) BY <1>2, <1>3, <1>4, FirstEightAre
    <2>2. a \o b \o c \in Seq(Nat) BY <2>1 DEF FirstEight
    <2> QED BY <2>1, <2>2
  <1>6. Len(E) = 8 /\ E[2] = 2 /\ E[3] = 248 /\ E[4] = 57 /\ E[8] = 0
    <2>1. Len(E) = 8 /\ E[2] = a[2] /\ E[3] = b[1] /\ E[4] = b[2] /\ E[8] = c[4]
      BY <1>5 DEF FirstEight
    <2> QED BY <1>2, <1>3, <1>4, <2>1
  <1>7. P \in Seq(Nat) /\ Len(P) = m BY DEF Paired
  <1>8. PICK buf \in Seq(Nat) : buf = E \o P BY <1>7, Concatenated
  <1>9. 8 \in Nat OBVIOUS
  <1>10. Joined(buf, E, 8, P, m)
    <2>1. PICK l \in Nat : l = 8 OBVIOUS
    <2>2. Len(E) = l BY <1>6, <2>1
    <2>3. P \in Seq(Nat) /\ Len(P) = m BY <1>7
    <2>4. Joined(buf, E, l, P, m) BY <1>8, <2>2, <2>3, ConcatenationIsJoined, Zenon
    <2> QED BY <2>1, <2>4
  <1>11. /\ Len(buf) = 8 + m
         /\ buf[2] = E[2] /\ buf[3] = E[3] /\ buf[4] = E[4] /\ buf[8] = E[8]
         /\ \A i \in Nat : 0 < i /\ i <= m => buf[8 + i] = P[i]
    <2>1. \A i \in Nat : 0 < i /\ i <= 8 => buf[i] = E[i] BY <1>10 DEF Joined
    <2>2. buf[2] = E[2] /\ buf[3] = E[3] /\ buf[4] = E[4] /\ buf[8] = E[8] BY <2>1
    <2> QED BY <1>10, <2>2 DEF Joined
  <1>12. Suci(buf, P, m)
    <2>1. buf[2] = 2 /\ buf[3] = 248 /\ buf[4] = 57 /\ buf[8] = 0 BY <1>6, <1>11
    <2> QED BY <1>11, <2>1 DEF Suci
  <1>13. encodeSuci(imsi, 2) = buf
    <2>1. ~(2 > 2) OBVIOUS
    <2>2. /\ imsi[1] = 2 /\ imsi[2] = 0 /\ imsi[3] = 8 /\ imsi[4] = 9 /\ imsi[5] = 3
          /\ SubSeq(imsi, 6, Len(imsi)) = msin
      BY DEF Imsi
    <2>3. a = << 1, Nibbles(imsi[1], imsi[2]) >> BY <1>2, <2>2
    <2>4. b = << Nibbles(imsi[3], 15), Nibbles(imsi[4], imsi[5]) >> BY <1>15, <2>2
    <2>5. P = Pairs(SubSeq(imsi, 6, Len(imsi))) BY <2>2
    <2>6. encodeSuci(imsi, 2) = a \o b \o c \o P
      BY <1>14, <2>1, <2>3, <2>4, <2>5, Zenon DEF encodeSuci
    <2> QED BY <1>5, <1>8, <2>6
  <1> QED BY <1>12, <1>13

\* The function GetSUCI builds of the scheme output.
Digits(buf, len) ==
    [i \in 1..len |-> IF i % 2 = 1 THEN Low(buf[8 + (i + 1) \div 2]) ELSE High(buf[8 + i \div 2])]

LEMMA Parity ==
    ASSUME NEW i \in Nat, i > 0, NEW n \in Nat, i <= n, NEW m \in Nat, n = 2 * m \/ n + 1 = 2 * m
    PROVE  \/ /\ i % 2 = 1
              /\ \E k \in Nat : k = (i + 1) \div 2 /\ 0 < k /\ k <= m /\ 2 * k - 1 = i
           \/ /\ i % 2 # 1
              /\ \E k \in Nat : k = i \div 2 /\ 0 < k /\ k <= m /\ 2 * k = i /\ ~(2 * k > n)
  <1>1. CASE i % 2 = 1
    <2>1. PICK k \in Nat : k = (i + 1) \div 2 /\ 2 * k - 1 = i BY <1>1, SMT
    <2>2. 0 < k /\ k <= m BY <2>1
    <2> QED BY <1>1, <2>1, <2>2
  <1>2. CASE i % 2 # 1
    <2>1. PICK k \in Nat : k = i \div 2 /\ 2 * k = i BY <1>2, SMT
    <2>2. 0 < k /\ k <= m /\ ~(2 * k > n) BY <2>1
    <2> QED BY <1>2, <2>1, <2>2
  <1> QED BY <1>1, <1>2

LEMMA DigitsAre ==
    ASSUME NEW msin \in Seq(Digit), NEW n \in Nat, n = Len(msin),
           NEW m \in Nat, n = 2 * m \/ n + 1 = 2 * m,
           NEW P, Paired(P, msin, n, m), NEW buf, Suci(buf, P, m)
    PROVE  Digits(buf, n) = msin
  <1>1. PICK d : d = Digits(buf, n) OBVIOUS
  <1> DEFINE value(i) == IF i % 2 = 1 THEN Low(buf[8 + (i + 1) \div 2]) ELSE High(buf[8 + i \div 2])
  <1>2. d = [i \in 1..n |-> value(i)] BY <1>1 DEF Digits
  <1>3. ASSUME NEW i \in 1..n PROVE value(i) = msin[i]
    <2>1. i \in Nat /\ i > 0 /\ i <= n OBVIOUS
    <2>2. CASE i % 2 = 1
      <3>1. PICK k \in Nat : k = (i + 1) \div 2 /\ 0 < k /\ k <= m /\ 2 * k - 1 = i
        BY <2>1, <2>2, Parity
      <3>2. value(i) = Low(buf[8 + k]) BY <2>2, <3>1
      <3>3. buf[8 + k] = P[k] BY <3>1 DEF Suci
      <3>4. Low(P[k]) = msin[2 * k - 1] BY <3>1, Zenon DEF Paired
      <3> HIDE DEF value
      <3> QED BY <3>1, <3>2, <3>3, <3>4
    <2>3. CASE i % 2 # 1
      <3>1. PICK k \in Nat : k = i \div 2 /\ 0 < k /\ k <= m /\ 2 * k = i /\ ~(2 * k > n)
        BY <2>1, <2>3, Parity
      <3>2. value(i) = High(buf[8 + k]) BY <2>3, <3>1
      <3>3. buf[8 + k] = P[k] BY <3>1 DEF Suci
      <3>4. High(P[k]) = IF 2 * k > n THEN 15 ELSE msin[2 * k] BY <3>1, Zenon DEF Paired
      <3> HIDE DEF value
      <3> QED BY <3>1, <3>2, <3>3, <3>4
    <2> QED BY <2>2, <2>3
  <1> HIDE DEF value
  <1>4. d = [i \in 1..n |-> msin[i]] BY <1>2, <1>3
  <1>5. msin = [i \in 1..n |-> msin[i]] OBVIOUS
  <1> QED BY <1>1, <1>4, <1>5

\* Whether the last octet is filled up is whether the number of digits is odd.
LEMMA LastHalf ==
    ASSUME NEW msin \in Seq(Digit), NEW n \in Nat, n = Len(msin),
           NEW m \in Nat, n = 2 * m \/ n + 1 = 2 * m,
           NEW P, Paired(P, msin, n, m), NEW buf, Suci(buf, P, m)
    PROVE  /\ High(buf[Len(buf)]) = 15 => n + 1 = 2 * m
           /\ High(buf[Len(buf)]) # 15 => n = 2 * m
  <1>1. CASE m = 0
    <2>1. buf[Len(buf)] = buf[8] /\ buf[8] = 0 BY <1>1 DEF Suci
    <2>2. High(0) = 0 BY DEF High
    <2> QED BY <1>1, <2>1, <2>2
  <1>2. CASE m > 0
    <2>1. buf[Len(buf)] = P[m] BY <1>2 DEF Suci
    <2>2. High(P[m]) = IF 2 * m > n THEN 15 ELSE msin[2 * m]
      <3>1. 0 < m /\ m <= m BY <1>2
      <3> QED BY <3>1, Zenon DEF Paired
    <2>3. CASE n + 1 = 2 * m BY <2>1, <2>2, <2>3
    <2>4. CASE n = 2 * m
      <3>1. 2 * m \in 1..n BY <1>2, <2>4
      <3>2. msin[2 * m] \in Digit BY <3>1, ElementOfSeq
      <3>3. msin[2 * m] # 15 BY <3>2, DigitIs
      <3>4. ~(2 * m > n) BY <2>4
      <3> QED BY <2>1, <2>2, <2>4, <3>3, <3>4
    <2> QED BY <2>3, <2>4
  <1> QED BY <1>1, <1>2

LEMMA GetSUCIIs ==
    ASSUME NEW msin \in Seq(Digit), NEW n \in Nat, n = Len(msin),
           NEW m \in Nat, n = 2 * m \/ n + 1 = 2 * m,
           NEW P, Paired(P, msin, n, m), NEW buf, Suci(buf, P, m)
    PROVE  GetSUCI(buf) = HomeNetwork \o msin
  <1>1. /\ Low(buf[2]) = 2 /\ High(buf[2]) = 0 /\ Low(buf[3]) = 8 /\ High(buf[3]) = 15
        /\ Low(buf[4]) = 9 /\ High(buf[4]) = 3
    <2>1. buf[2] = 2 /\ buf[3] = 248 /\ buf[4] = 57 BY DEF Suci
    <2>2. /\ Low(2) = 2 /\ High(2) = 0 /\ Low(248) = 8 /\ High(248) = 15
          /\ Low(57) = 9 /\ High(57) = 3
      BY DEF Low, High
    <2> QED BY <2>1, <2>2
  <1>2. PICK filler \in Nat : filler = IF High(buf[Len(buf)]) = 15 THEN 1 ELSE 0 OBVIOUS
  <1>3. 2 * (Len(buf) - 8) - filler = n
    <2>1. Len(buf) = 8 + m BY DEF Suci
    <2>2. CASE High(buf[Len(buf)]) = 15
      <3>1. filler = 1 BY <1>2, <2>2
      <3>2. n + 1 = 2 * m BY <2>2, LastHalf
      <3> QED BY <2>1, <3>1, <3>2
    <2>3. CASE High(buf[Len(buf)]) # 15
      <3>1. filler = 0 BY <1>2, <2>3
      <3>2. n = 2 * m BY <2>3, LastHalf
      <3> QED BY <2>1, <3>1, <3>2
    <2> QED BY <2>2, <2>3
  <1>4. GetSUCI(buf) = HomeNetwork \o <<>> \o Digits(buf, n)
    BY <1>1, <1>2, <1>3 DEF GetSUCI, Digits, HomeNetwork
  <1>5. HomeNetwork \o <<>> = HomeNetwork BY DEF HomeNetwork
  <1>6. Digits(buf, n) = msin BY DigitsAre
  <1> QED BY <1>4, <1>5, <1>6

LEMMA SuciReads ==
    ASSUME NEW msin \in Msins
    PROVE  GetSUCI(encodeSuci(HomeNetwork \o msin, 2)) = HomeNetwork \o msin
  <1>1. msin \in Seq(Digit) BY WireAssumption, Zenon
  <1>2. msin \in Seq(Nat) BY <1>1, DigitNat, SeqOfLarger, Zenon
  <1>3. PICK n \in Nat : n = Len(msin) BY <1>1
  <1>4. PICK m \in Nat : m = (n + 1) \div 2 /\ (n = 2 * m \/ n + 1 = 2 * m) BY Half
  <1>5. PICK P : P = Pairs(msin) /\ Paired(P, msin, n, m) BY <1>1, <1>3, <1>4, PairsAre
  <1>6. PICK imsi : imsi = HomeNetwork \o msin /\ Imsi(imsi, msin, n) BY <1>2, <1>3, ImsiIs
  <1>7. PICK buf : buf = encodeSuci(imsi, 2) /\ Suci(buf, P, m) BY <1>5, <1>6, encodeSuciIs
  <1>8. GetSUCI(buf) = HomeNetwork \o msin BY <1>1, <1>3, <1>4, <1>5, <1>7, GetSUCIIs
  <1> QED BY <1>6, <1>7, <1>8

LEMMA TmsiReads ==
    ASSUME NEW tmsi \in Tmsis
    PROVE  TmsiField(FoldedTmsi(tmsi)) = tmsi
  <1>1. PICK b \in Octet : tmsi = << 0, 0, 0, b >> BY WireAssumption
  <1>2. b \in Nat /\ b <= 255 BY OctetIs
  <1>3. FoldedTmsi(tmsi) = b BY <1>1, <1>2 DEF FoldedTmsi
  <1>4. /\ (b \div 16777216) % 256 = 0 /\ (b \div 65536) % 256 = 0
        /\ (b \div 256) % 256 = 0 /\ b % 256 = b
    BY <1>2, SMT
  <1> QED BY <1>1, <1>3, <1>4 DEF TmsiField

\* The network reads in the SUCI of any subscriber, with an odd or an even
\* number of digits, the digits it was encoded from; and in the Service Request
\* the TMSI the AMF gave, folded and unfolded, when that fits in one octet.
THEOREM AlwaysNetworkReadsIdentity == Spec => []NetworkReadsIdentity
  <1>1. Paths => NetworkReadsIdentity
    <2> SUFFICES ASSUME Paths, kind \in {"suci", "tmsi"}, stage = "read" PROVE got = made
      BY DEF NetworkReadsIdentity
    <2>1. CASE kind = "suci"
      <3>1. arg \in Msins /\ made = HomeNetwork \o arg /\ got = GetSUCI(encodeSuci(made, 2))
        BY <2>1 DEF Paths, SuciPath
      <3> QED BY <3>1, SuciReads
    <2>2. CASE kind = "tmsi"
      <3>1. arg \in Tmsis /\ made = arg /\ got = TmsiField(FoldedTmsi(made))
        BY <2>2 DEF Paths, TmsiPath
      <3> QED BY <3>1, TmsiReads
    <2> QED BY <2>1, <2>2
  <1> QED BY <1>1, AlwaysPaths, PTL

-----------------------------------------------------------------------------
(* The UDP echo server                                                      *)

\* Of the buffer of a goroutine: it holds what the goroutine's address sent.
HoldsItsOwn ==
    \A s \in serving :
        /\ s.buf \in 1..Len(buffers)
        /\ \E d \in Datagrams : d.from = s.addr /\ Received(d) = buffers[s.buf]

ServerInv ==
    /\ inFlight \subseteq Datagrams
    /\ buffers \in Seq({Received(d) : d \in Datagrams})
    /\ HoldsItsOwn
    /\ EchoesItsOwn

\* A datagram that is read gets a buffer no goroutine has: the others' hold
\* what they held (main.go:59, make in the loop).
LEMMA ReadKeeps ==
    ASSUME ServerInv, NEW d \in inFlight, ReadFrom(d)
    PROVE  ServerInv'
<1>1. d \in Datagrams /\ buffers' = Append(buffers, Received(d))
    BY DEF ServerInv, ReadFrom
<1>2. buffers' \in Seq({Received(e) : e \in Datagrams})
    BY <1>1 DEF ServerInv
<1>3. /\ Len(buffers') = Len(buffers) + 1 /\ Len(buffers) \in Nat
      /\ buffers'[Len(buffers) + 1] = Received(d)
      /\ \A i \in 1..Len(buffers) : buffers'[i] = buffers[i]
    BY <1>1 DEF ServerInv
<1>4. HoldsItsOwn'
  <2> SUFFICES ASSUME NEW s \in serving'
               PROVE  /\ s.buf \in 1..Len(buffers')
                      /\ \E e \in Datagrams : e.from = s.addr /\ Received(e) = buffers'[s.buf]
      BY DEF HoldsItsOwn, Received
  <2>1. CASE s \in serving
      BY <2>1, <1>3 DEF ServerInv, HoldsItsOwn
  <2>2. CASE s = [addr |-> d.from, buf |-> Len(buffers) + 1]
      BY <2>2, <1>1, <1>3
  <2> QED
      BY <2>1, <2>2 DEF ReadFrom
<1>5. inFlight' \subseteq Datagrams /\ EchoesItsOwn'
    BY DEF ServerInv, ReadFrom, EchoesItsOwn, Received
<1> QED
    BY <1>2, <1>4, <1>5 DEF ServerInv, Received

\* What is sent back is what the buffer holds.
LEMMA ServeKeeps ==
    ASSUME ServerInv, NEW s \in serving, serve(s)
    PROVE  ServerInv'
<1>1. PICK d \in Datagrams : d.from = s.addr /\ Received(d) = buffers[s.buf]
    BY DEF ServerInv, HoldsItsOwn
<1>2. Received(d) = [data |-> buffers[s.buf].data, len |-> buffers[s.buf].len]
    BY <1>1 DEF Received
<1>3. EchoesItsOwn'
  <2> DEFINE back == [to |-> s.addr, data |-> buffers[s.buf].data, len |-> buffers[s.buf].len]
  <2>1. d.from = back.to /\ Received(d) = [data |-> back.data, len |-> back.len]
      BY <1>1, <1>2
  <2>2. echoed' = echoed \cup {back}
      BY DEF serve
  <2> HIDE DEF back
  <2>3. ASSUME NEW e \in echoed
        PROVE  \E f \in Datagrams : f.from = e.to /\ Received(f) = [data |-> e.data, len |-> e.len]
      BY DEF ServerInv, EchoesItsOwn
  <2>4. ASSUME NEW e \in echoed'
        PROVE  \E f \in Datagrams : f.from = e.to /\ Received(f) = [data |-> e.data, len |-> e.len]
      BY <2>1, <2>2, <2>3, Zenon
  <2> QED
      BY <2>4 DEF EchoesItsOwn, Received
<1> QED
    BY <1>3 DEF ServerInv, HoldsItsOwn, serve, Received

LEMMA ServerStepKeeps ==
    ASSUME ServerInv, [ServerNext]_serverVars
    PROVE  ServerInv'
<1>1. CASE \E d \in inFlight : ReadFrom(d)
    BY <1>1, ReadKeeps
<1>2. CASE \E s \in serving : serve(s)
    BY <1>2, ServeKeeps
<1>3. CASE \E d \in inFlight : Lose(d)
    BY <1>3 DEF ServerInv, HoldsItsOwn, EchoesItsOwn, Lose, Received
<1>4. CASE Fail
    BY <1>4 DEF ServerInv, HoldsItsOwn, EchoesItsOwn, Fail, Received
<1>5. CASE UNCHANGED serverVars
    BY <1>5 DEF ServerInv, HoldsItsOwn, EchoesItsOwn, serverVars, Received
<1> QED
    BY <1>1, <1>2, <1>3, <1>4, <1>5 DEF ServerNext

\* Whatever is read while goroutines are about to send, each client gets back
\* what it sent itself (udpserver/main.go: action, serve).
THEOREM AlwaysEchoesItsOwn == ServerSpec => []EchoesItsOwn
<1>1. ServerInit => ServerInv
    BY DEF ServerInit, ServerInv, HoldsItsOwn, EchoesItsOwn
<1>2. ServerInv => EchoesItsOwn
    BY DEF ServerInv
<1> QED
    BY <1>1, <1>2, ServerStepKeeps, PTL DEF ServerSpec

=============================================================================
