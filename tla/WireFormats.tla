----------------------------- MODULE WireFormats ----------------------------
(***************************************************************************)
(* What becomes of one thing that is built, sent and read at the other     *)
(* end: an NGAP message (build_test.go builds, encodes and decodes each),  *)
(* a packet in a GTP tunnel, an identity.  Beside it the UDP echo server   *)
(* answers its clients.                                                    *)
(***************************************************************************)
EXTENDS NgapMessages, PacketFormats, Identities, UdpServer, TLC

CONSTANTS
    Payloads,   \* what the emulator sends; "helloworld" in the code
    Ports,      \* source ports of the emulator's packets
    Hosts,      \* the last two octets of UE addresses in 60.60.0.0/16
    Msins,      \* the digits of a subscriber number in the home network
    Tmsis,      \* 5G-TMSIs the AMF assigns
    Batches     \* numbers of workers of TestMultiN2HandoverConcurrent

\* 16-bit ports, octets, decimal digits; TMSIs that fit in one octet.
ASSUME PortAssumption == \A port \in Ports : port \in Nat /\ port <= 65535
ASSUME WireAssumption ==
    /\ Payloads \subseteq Seq(Octet)
    /\ Hosts \subseteq Octet \X Octet
    /\ Msins \subseteq Seq(Digit)
    /\ \A tmsi \in Tmsis : \E b \in Octet : tmsi = << 0, 0, 0, b >>

VARIABLES
    kind,   \* what is built
    arg,    \* its parameters
    stage,  \* "asked", "made", "sent", then "read" or "refused"
    made,   \* what was built
    wire,   \* what was sent
    got     \* what the other end read

wireVars == <<kind, arg, stage, made, wire, got>>
Nothing  == <<>>

-----------------------------------------------------------------------------
(* The messages                                                             *)

\* As build_test.go builds them.
TestedMessages == [
    NGSetupRequest       |-> BuildNGSetupRequest,
    InitialUEMessage     |-> BuildInitialUEMessage(123, "nas", Absent),
    ErrorIndication      |-> BuildErrorIndication,
    UEContextReleaseRequest        |-> BuildUEContextReleaseRequest(123, 456, Absent),
    UEContextReleaseComplete       |-> BuildUEContextReleaseComplete(1, 2, Absent),
    UEContextModificationResponse  |-> BuildUEContextModificationResponse(123, 456),
    NGReset              |-> BuildNGReset(Absent),
    NGResetAcknowledge   |-> BuildNGResetAcknowledge,
    UplinkNasTransport   |-> BuildUplinkNasTransport(1, 2, "nas"),
    InitialContextSetupResponse |-> BuildInitialContextSetupResponse(123, 456, "10.200.200.1", Absent),
    InitialContextSetupFailure  |-> BuildInitialContextSetupFailure(123, 456),
    PathSwitchRequest           |-> BuildPathSwitchRequest(1, 2),
    HandoverRequestAcknowledge  |-> BuildHandoverRequestAcknowledge(1, 2),
    HandoverFailure             |-> BuildHandoverFailure(1),
    PDUSessionResourceReleaseResponse |-> BuildPDUSessionResourceReleaseResponse,
    AMFConfigurationUpdateFailure     |-> BuildAMFConfigurationUpdateFailure,
    UERadioCapabilityCheckResponse    |-> BuildUERadioCapabilityCheckResponse,
    HandoverCancel                    |-> BuildHandoverCancel,
    LocationReportingFailureIndication |-> BuildLocationReportingFailureIndication,
    PDUSessionResourceSetupResponse  |-> BuildPDUSessionResourceSetupResponse(123, 456, "10.200.200.1"),
    PDUSessionResourceModifyResponse |-> BuildPDUSessionResourceModifyResponse(123, 456),
    PDUSessionResourceNotify         |-> BuildPDUSessionResourceNotify,
    PDUSessionResourceModifyIndication |-> BuildPDUSessionResourceModifyIndication(123, 456),
    UEContextModificationFailure     |-> BuildUEContextModificationFailure(123, 456),
    RRCInactiveTransitionReport      |-> BuildRRCInactiveTransitionReport,
    HandoverNotify                   |-> BuildHandoverNotify(1, 2),
    UplinkRanStatusTransfer          |-> BuildUplinkRanStatusTransfer(211, 321),
    NasNonDeliveryIndication         |-> BuildNasNonDeliveryIndication(123, 456, "010203"),
    RanConfigurationUpdate           |-> BuildRanConfigurationUpdate,
    UplinkRanConfigurationTransfer   |-> BuildUplinkRanConfigurationTransfer,
    UplinkUEAssociatedNRPPATransport |-> BuildUplinkUEAssociatedNRPPATransport,
    UplinkNonUEAssociatedNRPPATransport |-> BuildUplinkNonUEAssociatedNRPPATransport,
    LocationReport                   |-> BuildLocationReport,
    UERadioCapabilityInfoIndication  |-> BuildUERadioCapabilityInfoIndication,
    AMFConfigurationUpdateAcknowledge |-> BuildAMFConfigurationUpdateAcknowledge,
    HandoverRequired     |-> BuildHandoverRequired(1, 2, <<0, 1, 2>>, <<1, 32>>),
    CellTrafficTrace     |-> BuildCellTrafficTrace(1, 2),
    ReleaseResponseForReleaseTest |-> BuildPDUSessionResourceReleaseResponseForReleaseTest(1, 2) ]

\* The rest, with every optional argument once absent and once present.
OtherMessages == [
    NGSetupResponse |-> BuildNGSetupResponse("amf", "guami", "plmn", 255),
    PartialReset    |-> BuildNGReset(<<"one connection">>),
    UpdateAck       |-> BuildRanConfigurationUpdateAck(Absent),
    UpdateAckWithDiagnostics |-> BuildRanConfigurationUpdateAck(<<"diagnostics">>),
    UpdateFailure   |-> BuildRanConfigurationUpdateFailure(Absent, Absent),
    UpdateFailureWithTime |-> BuildRanConfigurationUpdateFailure(<<"v1s">>, <<"diagnostics">>),
    AMFUpdate       |-> BuildAMFConfigurationUpdate("amf", "guami", "plmn", 255, Absent, Absent, Absent),
    AMFUpdateOfTNL  |-> BuildAMFConfigurationUpdate("amf", "guami", "plmn", 255,
                                                    <<"add">>, <<"remove">>, <<"update">>),
    OverloadStart   |-> BuildOverloadStart(Absent, Absent, Absent),
    OverloadReduced |-> BuildOverloadStart(<<"action">>, <<50>>, <<"nssai">>),
    OverloadStop    |-> BuildOverloadStop,
    AMFStatusIndication         |-> BuildAMFStatusIndication,
    UETNLABindingReleaseRequest |-> BuildUETNLABindingReleaseRequest,
    UERadioCapabilityCheckRequest |-> BuildUERadioCapabilityCheckRequest(1, 2),
    InitialContextSetupPartly   |-> BuildInitialContextSetupResponse(1, 2, "10.200.200.1",
                                        << {Item(11, SetupUnsuccessfulTransfer)} >>),
    ModifyConfirm   |-> BuildPDUSessionResourceModifyConfirm(1, 2,
                            {Item(10, ModifyConfirmTransfer({1}))}, {}, Absent),
    ModifyConfirmPartly |-> BuildPDUSessionResourceModifyConfirm(1, 2,
                            {Item(10, ModifyConfirmTransfer({1}))},
                            {Item(11, ModifyIndicationUnsuccessfulTransfer)}, <<"diagnostics">>),
    ReleaseCommand  |-> BuildPDUSessionResourceReleaseCommand(1, 2, Absent, <<"nas">>,
                            {Item(10, ReleaseCommandTransfer)}),
    ReleaseCommandWithPriority |-> BuildPDUSessionResourceReleaseCommand(1, 2, <<1>>, Absent,
                            {Item(10, ReleaseCommandTransfer)}) ]

\* What the procedures send, as packet.go fits it.
SentMessages == [
    NGSetup      |-> GetNGSetupRequest(<<0, 1, 2>>, 24, "nctu"),
    PathSwitch   |-> GetPathSwitchRequest(1, 2),
    ServiceUE    |-> BuildInitialUEMessage(1, "nas", <<1>>),
    Required     |-> BuildHandoverRequired(1, 1, <<0, 1, 2>>, <<1, 32>>),
    Acknowledge  |-> BuildHandoverRequestAcknowledge(2, 1),
    ContextSetUp |-> GetInitialContextSetupResponse(1, 1),
    ContextSetUpAgain |-> GetInitialContextSetupResponseForServiceRequest(1, 1, "10.200.200.2"),
    SessionSetUp |-> GetPDUSessionResourceSetupResponse(10, 1, 1, "10.200.200.1"),
    SessionSetUpWithTeid |-> GetPDUSessionResourceSetupResponseWithTeid(10, 1, 1, "10.200.200.1", 7),
    SessionSetUpForPaging |-> BuildPDUSessionResourceSetupResponseForPaging(1, 1, "10.200.200.2"),
    SessionReleased  |-> GetPDUSessionResourceReleaseResponse(1, 1),
    ReleaseRequested |-> GetUEContextReleaseRequest(1, 1, << {10} >>),
    ReleaseCompleted |-> GetUEContextReleaseComplete(1, 1, << {10} >>) ]

-----------------------------------------------------------------------------
(* Made, sent, read                                                         *)

\* The addresses of the shipped configuration and of the handover tests.
EmulatorSrc == <<60, 60, 0, 1>>
EmulatorDst == <<10, 10, 0, 21>>
PingDst     == <<60, 60, 0, 101>>
PingIcmp    == [i \in 1..56 |-> 0]
HomeNetwork == <<2, 0, 8, 9, 3>>

Messages == TestedMessages @@ OtherMessages @@ SentMessages

WireInit ==
    /\ \/ kind = "message" /\ arg \in DOMAIN Messages
       \/ kind = "packet"  /\ arg \in [payload : Payloads, port : Ports]
       \/ kind = "ping"    /\ arg \in Hosts
       \/ kind = "suci"    /\ arg \in Msins
       \/ kind = "batch"   /\ arg \in Batches
       \/ kind = "tmsi"    /\ arg \in Tmsis
    /\ stage = "asked"
    /\ made = Nothing
    /\ wire = Nothing
    /\ got = Nothing

Make(value) ==
    /\ stage = "asked"
    /\ stage' = "made"
    /\ made' = value
    /\ UNCHANGED <<kind, arg, wire, got>>

BuildMessage == kind = "message" /\ Make(Messages[arg])
BuildPacket ==
    /\ kind = "packet"
    /\ Fits(arg.payload)
    /\ Make(BuildRawUdpIp(EmulatorSrc, EmulatorDst, arg.port, 30001, arg.payload))
BuildPing ==
    /\ kind = "ping"
    /\ LET src == <<60, 60>> \o arg
       IN  Make(PingHeader(CalculateIpv4HeaderChecksum(src, PingDst), src, PingDst))
TakeImsi  == kind = "suci"  /\ Make(HomeNetwork \o arg)
TakeTmsi  == kind = "tmsi"  /\ Make(arg)
MakeBatch == kind = "batch" /\ Make(SubSeq(GenerateMobileIdentityGroup, 1, arg))

Transmit(value) ==
    /\ stage = "made"
    /\ stage' = "sent"
    /\ wire' = value
    /\ UNCHANGED <<kind, arg, made, got>>

EncodeMessage == kind = "message" /\ Transmit(Encoder(made)) /\ Encodable(made)
SendPacket    == kind = "packet"  /\ Transmit(sendGTP(made, 1))
SendPing      == kind = "ping"    /\ Transmit(PingTunnelHeader \o made \o PingIcmp)
EncodeSuci    == kind = "suci"    /\ Transmit(encodeSuci(made, 2))
HandOutWork   == kind = "batch"   /\ Transmit([i \in DOMAIN made |-> HandoverIdentities(i, made[i])])
\* The UE keeps the TMSI of the Registration Accept folded, and names itself
\* by that in its Service Request.
RequestService == kind = "tmsi"   /\ Transmit(TmsiField(FoldedTmsi(made)))

\* The codec rejects the message, or the packet is too large.
Refuse ==
    /\ \/ stage = "made" /\ kind = "message" /\ ~Encodable(made)
       \/ stage = "asked" /\ kind = "packet" /\ ~Fits(arg.payload)
    /\ stage' = "refused"
    /\ UNCHANGED <<kind, arg, made, wire, got>>

ReadAtTheEnd(value) ==
    /\ stage = "sent"
    /\ stage' = "read"
    /\ got' = value
    /\ UNCHANGED <<kind, arg, made, wire>>

DecodeMessage == kind = "message" /\ ReadAtTheEnd(Decoder(wire))
LeaveTunnel   == kind \in {"packet", "ping"} /\ ReadAtTheEnd(Decapsulated(wire))
ReadSuci      == kind = "suci" /\ ReadAtTheEnd(GetSUCI(wire))
ReadTmsi      == kind = "tmsi" /\ ReadAtTheEnd(wire)

Wire ==
    \/ BuildMessage \/ BuildPacket \/ BuildPing \/ TakeImsi \/ TakeTmsi \/ MakeBatch
    \/ EncodeMessage \/ SendPacket \/ SendPing \/ EncodeSuci \/ HandOutWork \/ RequestService
    \/ Refuse
    \/ DecodeMessage \/ LeaveTunnel \/ ReadSuci \/ ReadTmsi

Init == WireInit /\ ServerInit
Next == \/ Wire /\ UNCHANGED serverVars
        \/ ServerNext /\ UNCHANGED wireVars
Spec == Init /\ [][Next]_<<wireVars, serverVars>>

-----------------------------------------------------------------------------
(* Properties                                                               *)

\* What build_test.go prints [PASS] for: every message but the two builders
\* that return nothing and the release command with a paging priority is
\* encoded and decoded to what was built.  Beyond that, none holds an element
\* twice, or one in which nothing was stored, except for the UE radio
\* capability that an indication is sent for (build.go:2823 stores it nowhere).
RoundTrip ==
    kind = "message" =>
        /\ stage = "refused" =>
             arg \in {"AMFStatusIndication", "UETNLABindingReleaseRequest",
                      "ReleaseCommandWithPriority"}
        /\ stage = "read" => got = made
        /\ stage = "read" => \A i, j \in DOMAIN got.ies : got.ies[i].id = got.ies[j].id => i = j
        /\ stage = "read" =>
             \A i \in DOMAIN got.ies :
                 got.ies[i].val = Absent <=>
                     arg = "UERadioCapabilityInfoIndication" /\ got.ies[i].id = "UERadioCapability"

\* The messages the procedures send say what their calls ask for: what packet.go
\* overwrites or cuts off by position is the element it means, so that the AMF
\* reads this gNB's identifier and name and a path switch without failures; and
\* none reports a session both established and failed, as two of the builders
\* do (build.go:1562, 1716).
SentAsMeant ==
    kind = "message" /\ stage = "read" /\ arg \in DOMAIN SentMessages =>
        /\ SessionsIn(got, SetUpLists) \cap SessionsIn(got, FailedLists) = {}
        /\ arg = "NGSetup" => /\ ValueOf(got, "GlobalRANNodeID") = Gnb(<<0, 1, 2>>, 24)
                              /\ ValueOf(got, "RANNodeName") = "nctu"
                              /\ Len(got.ies) = Len(BuildNGSetupRequest.ies)
        /\ arg = "PathSwitch" => /\ SessionsIn(got, SetUpLists) = {10}
                                 /\ SessionsIn(got, FailedLists) = {}

\* Out of the tunnel it was sent to comes every packet as it was built.  The echo
\* request is then good for an IPv4 receiver, from every UE address of the pool:
\* CalculateIpv4HeaderChecksum folds the carry once and that is enough, and the
\* tunnel header written by hand in the handover tests (in lines commented out
\* now) counts its octets.  The emulator's packet never is: without the
\* identification (rawudp.go:18) it is two octets shorter than its length says.
\* What it does get right is the UDP checksum, over the octets where it puts them:
\* for odd lengths, every carry, and never zero, which would say there is none.
TunnelKeepsPackets ==
    stage = "read" =>
        /\ kind = "packet" =>
             LET segment == SubSeq(made, 19, Len(made))
             IN  /\ got = made /\ TunnelOf(wire) = << 0, 0, 0, 1 >>
                 /\ Word(got, 3) = Len(got) + 2 /\ ~Deliverable(got)
                 /\ Verifies(PseudoHdr(EmulatorSrc, EmulatorDst, Len(segment)) \o segment)
                 /\ Word(segment, 7) # 0
        /\ kind = "ping" =>
             /\ Deliverable(got)
             /\ HeaderOf(got) = made /\ Len(got) = Word(got, 3)
             /\ PingTunnelHeader = BuildGTPv1Header(<<0>>, <<>>, <<>>, 4 + Len(got), 1)

\* The network reads in the emulator's SUCI the SUPI whose keys were stored,
\* for an odd and an even number of digits; and a paged UE names itself by the
\* TMSI the AMF gave it, as long as that fits in one octet.
NetworkReadsIdentity ==
    kind \in {"suci", "tmsi"} /\ stage = "read" => got = made

\* No two workers of a handover batch share a gNB identifier, a local port, a
\* SUPI or a TMSI, and none has two associations on one port.
WorkersApart ==
    kind = "batch" /\ stage = "sent" =>
        \A i, j \in DOMAIN wire :
            /\ Cardinality(wire[i].gnbs) = 2 /\ Cardinality(wire[i].ports) = 2
            /\ \A d \in DOMAIN wire[i].supi : wire[i].supi[d] \in Digit
            /\ i # j => /\ wire[i].gnbs \cap wire[j].gnbs = {}
                        /\ wire[i].ports \cap wire[j].ports = {}
                        /\ wire[i].supi # wire[j].supi
                        /\ wire[i].tmsi # wire[j].tmsi

=============================================================================
