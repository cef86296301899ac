\* Every builder with its arguments, the packets of the emulator and of the
\* handover tests, the identities of batches of up to 64 workers.  Everything
\* ends when it has been read, so no deadlock check.
SPECIFICATION Spec
CONSTANTS
    MaxPacket = 31
    Upper = 26
    Payloads <- MCPayloads
    Ports <- MCPorts
    Hosts <- MCHosts
    Msins <- MCMsins
    Tmsis <- MCTmsis
    Batches = {1, 2, 16, 64}
    Datagrams <- MCDatagrams
    BufferSize = 4
INVARIANTS
    RoundTrip
    SentAsMeant
    TunnelKeepsPackets
    NetworkReadsIdentity
    WorkersApart
    EchoesItsOwn
CHECK_DEADLOCK FALSE
