---------------------------- MODULE TemporaryIds ----------------------------
(***************************************************************************)
(* The temporary identity of a UE as the tests handle it (decode.go): a    *)
(* number made of the four octets of the 5G-TMSI, compared with the number *)
(* made of the one in a Paging, and sent back in a Service Request.        *)
(***************************************************************************)
EXTENDS Naturals, Sequences

\* Variant: the octets are shifted by eight bits, most significant first, but
\* one time too often.
ShiftedOnceMore(tmsi) == 256 * (tmsi[2] * 65536 + tmsi[3] * 256 + tmsi[4])

\* Each octet is added, and the sum shifted by one bit before the next.
FoldedTmsi(tmsi) == 8 * tmsi[1] + 4 * tmsi[2] + 2 * tmsi[3] + tmsi[4]

\* BuildInitialUEMessage takes the 5G-TMSI from the last eight digits, that
\* is the value modulo 2^32.
TmsiField(value) == << (value \div 16777216) % 256, (value \div 65536) % 256,
                       (value \div 256) % 256, value % 256 >>

=============================================================================
