----------------------------- MODULE SessionPath -----------------------------
(***************************************************************************)
(* The user plane of the emulated UE's PDU session, seen from the messages *)
(* of the procedures: N2Procedures says when a message is written and when *)
(* the AMF reads it, NgapMessages what it says, with the arguments of the  *)
(* calls in the test files.  The core (the AMF with its SMF and UPF) is    *)
(* external: it remembers the gNB each association announces, sends        *)
(* downlink data where the last setup response says, and switches to the   *)
(* tunnel that the target has acknowledged when the UE arrives there.      *)
(***************************************************************************)
EXTENDS N2Procedures
LOCAL INSTANCE SequencesExt    \* Last
Ngap == INSTANCE NgapMessages

CONSTANT Idx    \* idx of the worker of SingleN2Handover, from 1

ASSUME IdxAssumption == Idx \in Nat \ {0}

VARIABLES
    wire,   \* wire[c]: the PDUs of the messages in up[c]
    gnb,    \* gnb[c]: the gNB identifiers announced on association c
    path    \* the core's view of session 10: the tunnels in use and prepared

pathVars == <<wire, gnb, path>>

RanUeNgapId == 1
Session     == 10
NoTunnel    == Ngap!Absent

-----------------------------------------------------------------------------
(* The arguments of the calls                                               *)

\* The addresses of the two gNBs on N3, as the handover tests open their
\* sockets there (in lines commented out now, handover_test.go:128, 165).
ranN3Ipv4Addr == "10.100.200.1"
N3Address(c)  == IF c = "src" THEN ranN3Ipv4Addr ELSE "10.200.200.2"

TwoGnbs == {"TestN2Handover", "TestMultiN2Handover"}

\* The identifier and the name in the NG Setup Request of association c.
GnbId(c) ==
    CASE flow = "SingleN2Handover"   -> <<0, 1, (IF c = "src" THEN 2 * Idx - 1 ELSE 2 * Idx) % 256>>
      [] flow = "SingleRegistration" -> <<0, 0, 0, 1>>
      [] flow \in TwoGnbs            -> <<0, 1, IF c = "src" THEN 1 ELSE 2>>
      [] OTHER                       -> <<0, 1, 2>>
GnbName(c) == IF c = "src" THEN "free5gc" ELSE "nctu"

\* Variant: the gNB the UE comes from (two_gnbID[handover_from]).
SourceOfHandover(c) == IF flow = "TestN2Handover" THEN <<0, 1, 2>> ELSE GnbId(c)

\* The target named in Handover Required: a literal in TestN2Handover,
\* two_gnbID[handover_to], or what ran_byte holds since the target's setup.
TargetOfHandover(c) == IF flow = "TestN2Handover" THEN <<0, 1, 2>> ELSE GnbId(Other(c))

\* Variant: the session is reported where the source had it.
SourceAddress(pc0) == ranN3Ipv4Addr

\* The address given in the step at pc0 that reports a session set up.
ReportedAddress(pc0) ==
    IF Script(flow)[pc0].who = "target" THEN "10.200.200.2" ELSE ranN3Ipv4Addr

\* A service request has been made: the context is set up with its session.
Served == \E i \in 1..pc : Script(flow)[i].op = "initial" /\ Script(flow)[i].type = "ServiceRequest"

\* The PDU of message m, written by the step at hand.
PduOf(m) ==
    LET c    == Step.conn
        ip   == ReportedAddress(pc)
        ran  == RanUeNgapId
    IN  CASE m.type = "NGSetupRequest" -> Ngap!GetNGSetupRequest(GnbId(c), 8 * Len(GnbId(c)), GnbName(c))
          [] Step.op = "initial" -> Ngap!BuildInitialUEMessage(ran, m.type,
                 IF m.type = "ServiceRequest" THEN << "fe0000000001" >> ELSE Ngap!Absent)
          [] m.type = "InitialContextSetupResponse" ->
                 IF Step.who = "target" \/ Served
                 THEN Ngap!GetInitialContextSetupResponseForServiceRequest(m.id, ran, ip)
                 ELSE Ngap!GetInitialContextSetupResponse(m.id, ran)
          [] m.type = "PDUSessionResourceSetupResponse" ->
                 IF Step.who = "target"
                 THEN Ngap!BuildPDUSessionResourceSetupResponseForPaging(m.id, ran, ip)
                 ELSE Ngap!GetPDUSessionResourceSetupResponseWithTeid(Session, m.id, ran, ip, 1)
          [] m.type = "UEContextReleaseRequest" ->
                 Ngap!GetUEContextReleaseRequest(m.id, ran, << {Session} >>)
          [] m.type = "UEContextReleaseComplete" ->
                 Ngap!GetUEContextReleaseComplete(m.id, ran,
                     IF flow = "TestPaging" THEN Ngap!Absent ELSE << {Session} >>)
          [] m.type = "HandoverRequired" ->
                 Ngap!BuildHandoverRequired(m.id, ran, TargetOfHandover(c), <<1, 32>>)
          [] m.type = "HandoverRequestAcknowledge" -> Ngap!BuildHandoverRequestAcknowledge(m.id, ran)
          [] m.type = "HandoverNotify" -> Ngap!BuildHandoverNotify(m.id, ran)
          [] OTHER -> Ngap!BuildUplinkNasTransport(m.id, ran, m.type)

\* A step of the procedure: what it writes is put on the wire.
Emulates ==
    /\ Harness
    /\ wire' = [c \in Conn |-> IF up'[c] = up[c] THEN wire[c] ELSE Append(wire[c], PduOf(Last(up'[c])))]
    /\ UNCHANGED <<gnb, path>>

-----------------------------------------------------------------------------
(* The core                                                                 *)

\* The tunnel in a message that reports the session set up (or admitted),
\* and does not report it failed as well.
TunnelIn(pdu) ==
    LET SetUp(i) == {item \in Head(pdu.ies[i].val) : item.session = Session}
        tunnels  == UNION {{item.transfer.dl : item \in SetUp(i)} :
                              i \in Ngap!Places(pdu, Ngap!SetUpLists)}
    IN  IF Session \in Ngap!SessionsIn(pdu, Ngap!FailedLists) \/ tunnels = {}
        THEN NoTunnel ELSE << CHOOSE t \in tunnels : TRUE >>

\* The core acts on PDU pdu of association c.
Reacts(c, pdu) ==
    /\ gnb' = IF pdu.message = "NGSetupRequest"
              THEN [gnb EXCEPT ![c] = << Ngap!ValueOf(pdu, "GlobalRANNodeID").id >>] ELSE gnb
    /\ path' = CASE pdu.message \in {"PDUSessionResourceSetupResponse", "InitialContextSetupResponse"}
                    /\ Ngap!Places(pdu, Ngap!SetUpLists) # {} ->
                       [path EXCEPT !.used = TunnelIn(pdu)]
                 [] pdu.message = "HandoverRequestAcknowledge" -> [path EXCEPT !.prepared = TunnelIn(pdu)]
                 [] pdu.message = "HandoverNotify" -> [used |-> path.prepared, prepared |-> NoTunnel]
                 [] pdu.message = "UEContextReleaseRequest" -> [path EXCEPT !.used = NoTunnel]
                 [] OTHER -> path

Core(c) ==
    /\ Amf(c)
    /\ wire' = [wire EXCEPT ![c] = Tail(@)]
    /\ Reacts(c, Head(wire[c]))

PathInit ==
    /\ Init
    /\ wire = [c \in Conn |-> <<>>]
    /\ gnb = [c \in Conn |-> <<>>]
    /\ path = [used |-> NoTunnel, prepared |-> NoTunnel]

PathNext == Emulates \/ (\E c \in Conn : Core(c)) \/ (Over /\ UNCHANGED pathVars)

PathSpec     == PathInit /\ [][PathNext]_<<vars, pathVars>>
FairPathSpec == PathSpec /\ Fairness

-----------------------------------------------------------------------------
(* Properties                                                               *)

\* The association the UE is reached on: the only one with a context.
Serving(c) == amf.ids[c] # NoId /\ amf.ids[Other(c)] = NoId

\* While one gNB serves the UE, downlink data of its session goes to the N3
\* address of that gNB, however many messages are under way, and after a
\* handover the core has a tunnel to the target at once.  When a procedure that
\* establishes a session has ended and all it has written has been read, the
\* core still has the tunnel: no later message, of a handover, a release or a
\* mobility registration, has lost it.  The target's address is a literal, in
\* the builder of the acknowledgement and in the last response (build.go:3448,
\* handover_test.go:634 and :1774): the first part holds unless
\* TestMultiN2Handover hands the UE back to the first gNB.
DownlinkReachesUe ==
    ~amf.late =>
        /\ flow # "TestMultiN2Handover" =>
             \A c \in Conn : Serving(c) =>
                 IF path.used = NoTunnel THEN c = "src" ELSE path.used[1].address = N3Address(c)
        /\ Finished /\ flow # "XioRegistration" /\ (\A c \in Conn : up[c] = <<>>) =>
             path.used # NoTunnel

\* Handover Required names the gNB that announced itself on the association
\* the UE is handed over to (two_gnbID, ran_byte).
TargetAnnounced ==
    \A c \in Conn : wire[c] # <<>> /\ ~amf.late /\ Head(wire[c]).message = "HandoverRequired" =>
        gnb[Other(c)] = << Ngap!ValueOf(Head(wire[c]), "TargetID").gnb >>

=============================================================================
