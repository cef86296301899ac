----------------------------- MODULE Identities -----------------------------
(***************************************************************************)
(* The identities the tests compute: SUCIs from IMSIs, and the mobile      *)
(* identities, ports and gNB identifiers given to the workers of a batch.  *)
(* Octets wrap at 256 as uint8 does.                                       *)
(***************************************************************************)
EXTENDS Naturals, Sequences, TemporaryIds
LOCAL INSTANCE SequencesExt    \* FoldLeft, FlattenSeq

CONSTANT Upper  \* upper_x and upper_y of GenerateMobileIdentityGroup, 0x9A in the code
ASSUME UpperAssumption == Upper \in 1..255

Digit  == 0..9
NotHex == 99  \* any character that is not a hexadecimal digit

hexCharToByte(c) == IF c \in 0..15 THEN c ELSE 0

\* Two digits in an octet, the first one low.
Nibbles(low, high) == 16 * hexCharToByte(high) + hexCharToByte(low)

\* Variant: the digits are packed as they are read.
UnswappedPairs(msin) ==
    [i \in 1..(Len(msin) + 1) \div 2 |->
        IF 2 * i > Len(msin) THEN 15 + 16 * hexCharToByte(msin[2 * i - 1])
                             ELSE Nibbles(msin[2 * i], msin[2 * i - 1])]

\* The digits in pairs, an odd last one with filler 0xf.
Pairs(msin) ==
    [i \in 1..(Len(msin) + 1) \div 2 |->
        IF 2 * i > Len(msin) THEN 15 * 16 + hexCharToByte(msin[2 * i - 1])
                             ELSE Nibbles(msin[2 * i - 1], msin[2 * i])]

\* Type and PLMN, routing indicator and protection scheme, MSIN.
encodeSuci(imsi, mncLen) ==
    << 1, Nibbles(imsi[1], imsi[2]) >>
    \o (IF mncLen > 2
        THEN << Nibbles(imsi[3], imsi[4]), Nibbles(imsi[5], imsi[6]) >>
        ELSE << Nibbles(imsi[3], 15), Nibbles(imsi[4], imsi[5]) >>)
    \o << 240, 255, 0, 0 >>
    \o Pairs(SubSeq(imsi, IF mncLen > 2 THEN 7 ELSE 6, Len(imsi)))

\* The digits the network reads in a SUCI with the null scheme (TS 24.501,
\* 9.11.3.4): the third MNC digit is the high half of the second PLMN octet.
Low(b)  == b % 16
High(b) == b \div 16
GetSUCI(buf) ==
    LET mnc3   == IF High(buf[3]) = 15 THEN <<>> ELSE << High(buf[3]) >>
        filler == IF High(buf[Len(buf)]) = 15 THEN 1 ELSE 0
    IN  << Low(buf[2]), High(buf[2]), Low(buf[3]), Low(buf[4]), High(buf[4]) >> \o mnc3
        \o [i \in 1..2 * (Len(buf) - 8) - filler |->
              IF i % 2 = 1 THEN Low(buf[8 + (i + 1) \div 2]) ELSE High(buf[8 + i \div 2])]

-----------------------------------------------------------------------------
(* GenerateMobileIdentityGroup                                              *)

\* A mobile identity of the group, with its port and its gNB's identifier.
Identity(index, x, y) ==
    LET buffer == << 1, 2, 248, 57, 240, 255, 0, 0, 0, 0, x, y >>
    IN  [buffer |-> buffer, port |-> 9487 + index, gnb |-> index + 1, supi |-> GetSUCI(buffer)]
Unset == [buffer |-> <<>>, port |-> 0, gnb |-> 0, supi |-> <<>>]

\* The values of x, and of y, that are two decimal digits.
Decimal == SelectSeq([i \in 1..Upper |-> i - 1], LAMBDA b : b % 16 < 10)
DecimalPairs == FlattenSeq([i \in DOMAIN Decimal |-> [j \in DOMAIN Decimal |->
                                                         << Decimal[i], Decimal[j] >>]])

\* Entry index is filled in; once the slice is full a copy of its first
\* entry is appended, to be overwritten by the next one.
Filled(acc, pair) ==
    LET result == [acc.result EXCEPT ![acc.index + 1] = Identity(acc.index, pair[1], pair[2])]
    IN  [index |-> acc.index + 1,
         result |-> IF acc.index + 1 = Len(result) THEN Append(result, result[1]) ELSE result]

\* make([]MobileIdentityGroup, upper_x*upper_y), the product of two uint8.
GenerateMobileIdentityGroup ==
    FoldLeft(Filled, [index |-> 0, result |-> [i \in 1..(Upper * Upper) % 256 |-> Unset]],
             DecimalPairs).result

-----------------------------------------------------------------------------
(* What the workers of a batch use                                          *)

\* Variant: the second association is told apart by the next port.
NextPort(idx, data) ==
    [gnbs  |-> {(2 * idx - 1) % 256, (2 * idx) % 256},
     ports |-> {data.port, data.port + 1}, supi |-> data.supi, tmsi |-> idx % 256]

\* The two gNB identifiers, the two local ports, the SUPI and the last octet
\* of the 5G-GUTI of the handover worker that is given work idx.
HandoverIdentities(idx, data) ==
    [gnbs  |-> {(2 * idx - 1) % 256, (2 * idx) % 256},
     ports |-> {data.port, data.port + 64}, supi |-> data.supi, tmsi |-> idx % 256]

=============================================================================
