---------------------------- MODULE MCWireFormats ---------------------------
(* Instance of WireFormats for TLC.                                         *)
EXTENDS WireFormats

\* Up to four octets of zeros and ones: even and odd lengths, every carry.
MCPayloads == UNION {[1..n -> {0, 255}] : n \in 0..4}
\* 17489 makes the checksum of an empty payload zero.
MCPorts == {0, 17489, 30000, 65535}
MCHosts == {<<b, h>> : b \in {0, 1, 2, 3, 255}, h \in {0, 1, 2, 101, 254, 255}}
\* Nine and ten digits, the first and the last ones varied.
MCMsins == {<<a, 0, 0, 0, 7, 0, 0, 0, b>> : a, b \in {0, 1, 9}}
           \cup {<<a, 0, 0, 0, 7, 0, 0, 0, b, c>> : a, b, c \in {0, 1, 9}}
MCTmsis == {<<0, 0, 0, b>> : b \in {1, 2, 3, 16, 127, 128, 254, 255}}
MCDatagrams == {[from |-> "client1", data |-> "first", len |-> 2],
                [from |-> "client1", data |-> "second", len |-> 5],
                [from |-> "client2", data |-> "other", len |-> 4]}

=============================================================================
