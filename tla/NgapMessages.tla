---------------------------- MODULE NgapMessages ----------------------------
(***************************************************************************)
(* The NGAP messages built by ngapTestpacket/build.go, and the functions   *)
(* of packet.go that fit them to a procedure.  A message is the outcome    *)
(* and the procedure written in its header, the message filled in, and its *)
(* information elements in order.  An element has the identifier written   *)
(* in it, the member of the value that is allocated, and what is stored    *)
(* there, if anything is.                                                  *)
(* Criticalities and the contents no other step depends on are left out.   *)
(*                                                                         *)
(* The codec (ngap.Encoder, ngap.Decoder) is external: what is encoded is  *)
(* the outcome, the procedure and the identified values, so that a decoder *)
(* takes the message from the procedure and the member from the identifier.*)
(***************************************************************************)
EXTENDS Naturals, Sequences

\* An optional argument is <<>> when nil and <<value>> otherwise.
Absent == <<>>

\* An element that is filled in, and one whose member is allocated only.
Ie(name, value) == [id |-> name, as |-> name, val |-> << value >>]
Unfilled(name)  == [id |-> name, as |-> name, val |-> Absent]
Optional(name, arg) == [i \in DOMAIN arg |-> Ie(name, arg[i])]

Pdu(outcome, procedure, message, ies) ==
    [outcome |-> outcome, procedure |-> procedure, message |-> message, ies |-> ies]
Initiating(procedure, message, ies) == Pdu("initiating", procedure, message, ies)
Successful(procedure, message, ies) == Pdu("successful", procedure, message, ies)
Unsuccessful(procedure, message, ies) == Pdu("unsuccessful", procedure, message, ies)
Empty == Pdu("none", "none", "none", <<>>)

\* The largest RAN UE NGAP ID, 4294967295.
LargestId == "0xffffffff"

UeIds(amfUeNgapID, ranUeNgapID) ==
    << Ie("AMFUENGAPID", amfUeNgapID), Ie("RANUENGAPID", ranUeNgapID) >>
Cause(kind) == << Ie("Cause", kind) >>
Location(tac) == << Ie("UserLocationInformation", tac) >>

Tunnel(address, teid) == [address |-> address, teid |-> teid]
Item(session, transfer) == [session |-> session, transfer |-> transfer]
\* A list element with one session, and one with the sessions of a list.
One(name, session, transfer) == << Ie(name, {Item(session, transfer)}) >>
Each(name, sessions) == Optional(name, [i \in DOMAIN sessions |->
                                           {Item(s, "none") : s \in sessions[i]}])

-----------------------------------------------------------------------------
(* Transfers: what a message says of one session                            *)

\* The transfer with the address and TEID where the gNB takes downlink data.
SetupResponseTransfer(ipv4, teid) ==
    [dl |-> Tunnel(ipv4, teid), forwarding |-> Absent, flows |-> {1}]
GetPDUSessionResourceSetupResponseTransfer(ipv4) == SetupResponseTransfer(ipv4, 1)
PathSwitchRequestTransfer ==
    [dl |-> Tunnel("127.0.0.15", 2), forwarding |-> Absent, flows |-> {1}]
ModifyIndicationTransfer ==
    [dl |-> Tunnel("127.0.0.1", 1), forwarding |-> Absent, flows |-> {}]
HandoverRequestAcknowledgeTransfer ==
    [dl |-> Tunnel("10.200.200.2", 1), forwarding |-> << Tunnel("10.200.200.2", 2) >>,
     flows |-> {1}]

\* The transfers that report QoS flows: done or notified, and released.
QosFlows(done, released) == [done |-> done, released |-> released]
ModifyResponseTransfer == QosFlows({1}, {})
NotifyTransfer(qfis, relQfis) == QosFlows(qfis, relQfis)
ModifyConfirmTransfer(qfis) == QosFlows(qfis, {})
ReleaseResponseTransfer == QosFlows({}, {})

\* The transfers that give the reason for a failure or a release.
SetupUnsuccessfulTransfer            == "cellNotAvailable"
ModifyUnsuccessfulTransfer           == "unknownPDUSessionID"
NotifyReleasedTransfer               == "unknownPDUSessionID"
ModifyIndicationUnsuccessfulTransfer == "transportResourceUnavailable"
ReleaseCommandTransfer               == "normalRelease"
PathSwitchRequestSetupFailedTransfer == "transportResourceUnavailable"
ResourceAllocationUnsuccessfulTransfer == "handoverCancelled"

HandoverRequiredTransfer == "directPathAvailable"

\* Session 10 and the target cell: the gNB's identifier and the cell's appended.
SourceToTargetTransparentTransfer(targetGNBID, targetCellID) ==
    [sessions |-> {10}, cell |-> targetGNBID \o targetCellID]

-----------------------------------------------------------------------------
(* The interface between gNB and AMF                                        *)

Gnb(id, bitLength) == [id |-> id, bitLength |-> bitLength]

BuildNGSetupRequest == Initiating("NGSetup", "NGSetupRequest",
    << Ie("GlobalRANNodeID", Gnb(<<69, 70, 71>>, 24)), Ie("RANNodeName", "free5GC"),
       Ie("SupportedTAList", "000001"), Ie("DefaultPagingDRX", "v128") >>)

BuildNGSetupResponse(amfName, guamiList, plmnList, amfRelativeCapacity) ==
    Successful("NGSetup", "NGSetupResponse",
    << Ie("AMFName", amfName), Ie("ServedGUAMIList", guamiList),
       Ie("RelativeAMFCapacity", amfRelativeCapacity), Ie("PLMNSupportList", plmnList) >>)

\* Variant: the second element is appended under the first one's identifier.
ResetWithCopiedId(partOfNGInterface) == Initiating("NGReset", "NGReset",
    Cause("nas") \o << [Ie("ResetType", "all") EXCEPT !.id = "Cause"] >>)

\* The whole interface is reset unless some connections are named.
BuildNGReset(partOfNGInterface) == Initiating("NGReset", "NGReset",
    Cause("nas") \o
    << Ie("ResetType", IF partOfNGInterface = Absent THEN "all" ELSE partOfNGInterface[1]) >>)

BuildNGResetAcknowledge == Successful("NGReset", "NGResetAcknowledge",
    << Ie("UEAssociatedLogicalNGConnectionList", <<123, 456>>) >>)

BuildErrorIndication == Initiating("ErrorIndication", "ErrorIndication",
    UeIds(12345, 1234) \o Cause("nas") \o << Ie("CriticalityDiagnostics", "AMFUENGAPID missing") >>)

BuildRanConfigurationUpdate == Initiating("RANConfigurationUpdate", "RANConfigurationUpdate",
    << Ie("RANNodeName", "free5GC"), Ie("SupportedTAList", "000001"),
       Ie("DefaultPagingDRX", "v128") >>)

BuildRanConfigurationUpdateAck(diagnostics) ==
    Successful("RANConfigurationUpdate", "RANConfigurationUpdateAcknowledge",
    Optional("CriticalityDiagnostics", diagnostics))

BuildRanConfigurationUpdateFailure(time, diagnostics) ==
    Unsuccessful("RANConfigurationUpdate", "RANConfigurationUpdateFailure",
    Cause("misc") \o Optional("TimeToWait", time)
    \o Optional("CriticalityDiagnostics", diagnostics))

BuildAMFConfigurationUpdate(amfName, guamiList, plmnList, amfRelativeCapacity, toAdd, toRemove, toUpdate) ==
    Initiating("AMFConfigurationUpdate", "AMFConfigurationUpdate",
    << Ie("AMFName", amfName), Ie("ServedGUAMIList", guamiList),
       Ie("RelativeAMFCapacity", amfRelativeCapacity), Ie("PLMNSupportList", plmnList) >>
    \o Optional("AMFTNLAssociationToAddList", toAdd)
    \o Optional("AMFTNLAssociationToRemoveList", toRemove)
    \o Optional("AMFTNLAssociationToUpdateList", toUpdate))

BuildAMFConfigurationUpdateAcknowledge ==
    Successful("AMFConfigurationUpdate", "AMFConfigurationUpdateAcknowledge",
    << Ie("AMFTNLAssociationSetupList", "one"), Ie("AMFTNLAssociationFailedToSetupList", "one") >>)

BuildAMFConfigurationUpdateFailure ==
    Unsuccessful("AMFConfigurationUpdate", "AMFConfigurationUpdateFailure", Cause("radioNetwork"))

BuildOverloadStart(response, reduction, nssai) == Initiating("OverloadStart", "OverloadStart",
    Optional("AMFOverloadResponse", response)
    \o Optional("AMFTrafficLoadReductionIndication", reduction)
    \o Optional("OverloadStartNSSAIList", nssai))
BuildOverloadStop == Initiating("OverloadStop", "OverloadStop", <<>>)

BuildUplinkRanConfigurationTransfer ==
    Initiating("UplinkRANConfigurationTransfer", "UplinkRANConfigurationTransfer",
    << Ie("SONConfigurationTransferUL", "gNB to gNB") >>)

BuildUplinkNonUEAssociatedNRPPATransport ==
    Initiating("UplinkNonUEAssociatedNRPPaTransport", "UplinkNonUEAssociatedNRPPaTransport",
    << Ie("RoutingID", "0302"), Ie("NRPPaPDU", "0302") >>)

\* Both functions return a PDU in which nothing has been set.
BuildAMFStatusIndication        == Empty
BuildUETNLABindingReleaseRequest == Empty

-----------------------------------------------------------------------------
(* Registration and UE context                                              *)

BuildInitialUEMessage(ranUeNgapID, nasPdu, fiveGSTmsi) ==
    Initiating("InitialUEMessage", "InitialUEMessage",
    << Ie("RANUENGAPID", ranUeNgapID), Ie("NASPDU", nasPdu) >> \o Location("000001")
    \o << Ie("RRCEstablishmentCause", "mtAccess") >> \o Optional("FiveGSTMSI", fiveGSTmsi)
    \o << Ie("UEContextRequest", "requested") >>)

BuildUplinkNasTransport(amfUeNgapID, ranUeNgapID, nasPdu) ==
    Initiating("UplinkNASTransport", "UplinkNASTransport",
    UeIds(amfUeNgapID, ranUeNgapID) \o << Ie("NASPDU", nasPdu) >> \o Location("000001"))

BuildNasNonDeliveryIndication(amfUeNgapID, ranUeNgapID, naspdu) ==
    Initiating("NASNonDeliveryIndication", "NASNonDeliveryIndication",
    UeIds(amfUeNgapID, ranUeNgapID) \o << Ie("NASPDU", naspdu) >> \o Cause("radioNetwork"))

BuildInitialContextSetupResponse(amfUeNgapID, ranUeNgapID, ipv4, failedList) ==
    Successful("InitialContextSetup", "InitialContextSetupResponse",
    UeIds(amfUeNgapID, ranUeNgapID)
    \o One("PDUSessionResourceSetupListCxtRes", 10, GetPDUSessionResourceSetupResponseTransfer(ipv4))
    \o Optional("PDUSessionResourceFailedToSetupListCxtRes", failedList))

BuildInitialContextSetupResponseForRegistraionTest(amfUeNgapID, ranUeNgapID) ==
    Successful("InitialContextSetup", "InitialContextSetupResponse",
    UeIds(amfUeNgapID, ranUeNgapID))

BuildInitialContextSetupFailure(amfUeNgapID, ranUeNgapID) ==
    Unsuccessful("InitialContextSetup", "InitialContextSetupFailure",
    UeIds(amfUeNgapID, ranUeNgapID)
    \o One("PDUSessionResourceFailedToSetupListCxtFail", 10, "1122") \o Cause("nas"))

BuildUEContextReleaseRequest(amfUeNgapID, ranUeNgapID, pduSessionIDList) ==
    Initiating("UEContextReleaseRequest", "UEContextReleaseRequest",
    UeIds(amfUeNgapID, ranUeNgapID) \o Each("PDUSessionResourceListCxtRelReq", pduSessionIDList)
    \o Cause("radioNetwork"))

BuildUEContextReleaseComplete(amfUeNgapID, ranUeNgapID, pduSessionIDList) ==
    Successful("UEContextRelease", "UEContextReleaseComplete",
    UeIds(amfUeNgapID, ranUeNgapID) \o Location("000011")
    \o Each("PDUSessionResourceListCxtRelCpl", pduSessionIDList))

BuildUEContextModificationResponse(amfUeNgapID, ranUeNgapID) ==
    Successful("UEContextModification", "UEContextModificationResponse",
    UeIds(amfUeNgapID, ranUeNgapID) \o << Ie("RRCState", "connected") >> \o Location("000011"))

BuildUEContextModificationFailure(amfUeNgapID, ranUeNgapID) ==
    Unsuccessful("UEContextModification", "UEContextModificationFailure",
    UeIds(amfUeNgapID, ranUeNgapID) \o Cause("transport"))

BuildRRCInactiveTransitionReport ==
    Initiating("RRCInactiveTransitionReport", "RRCInactiveTransitionReport",
    UeIds(1, LargestId) \o << Ie("RRCState", "connected") >> \o Location("0f0122"))

\* Variant: as below, the capability is set in a variable of its own.
CapabilityNotStored(amfUeNgapID, ranUeNgapID) ==
    Initiating("UERadioCapabilityCheck", "UERadioCapabilityCheckRequest",
    UeIds(amfUeNgapID, ranUeNgapID) \o << Unfilled("UERadioCapability") >>)

BuildUERadioCapabilityCheckRequest(amfUeNgapID, ranUeNgapID) ==
    Initiating("UERadioCapabilityCheck", "UERadioCapabilityCheckRequest",
    UeIds(amfUeNgapID, ranUeNgapID) \o << Ie("UERadioCapability", "000001") >>)

BuildUERadioCapabilityCheckResponse ==
    Successful("UERadioCapabilityCheck", "UERadioCapabilityCheckResponse",
    UeIds(1, LargestId) \o << Ie("IMSVoiceSupportIndicator", "notSupported") >>)

\* The capability is set in a local variable that is never stored.
BuildUERadioCapabilityInfoIndication ==
    Initiating("UERadioCapabilityInfoIndication", "UERadioCapabilityInfoIndication",
    UeIds(1, LargestId) \o << Unfilled("UERadioCapability") >>)

BuildLocationReportingFailureIndication ==
    Initiating("LocationReportingFailureIndication", "LocationReportingFailureIndication",
    UeIds(1, LargestId) \o Cause("radioNetwork"))

BuildLocationReport == Initiating("LocationReport", "LocationReport",
    UeIds(1, LargestId) \o Location("535455")
    \o << Ie("UEPresenceInAreaOfInterestList", "in"), Ie("LocationReportingRequestType", "stop") >>)

BuildUplinkUEAssociatedNRPPATransport ==
    Initiating("UplinkUEAssociatedNRPPaTransport", "UplinkUEAssociatedNRPPaTransport",
    UeIds(1, LargestId) \o << Ie("RoutingID", "0302"), Ie("NRPPaPDU", "0302") >>)

BuildCellTrafficTrace(amfUeNgapID, ranUeNgapID) ==
    Initiating("CellTrafficTrace", "CellTrafficTrace",
    UeIds(amfUeNgapID, ranUeNgapID)
    \o << Ie("NGRANTraceID", "trace"), Ie("NGRANCGI", "cell"),
          Ie("TraceCollectionEntityIPAddress", "address") >>)

-----------------------------------------------------------------------------
(* PDU sessions                                                             *)

\* One session is reported both set up and failed.
BuildPDUSessionResourceSetupResponse(amfUeNgapID, ranUeNgapID, ipv4) ==
    Successful("PDUSessionResourceSetup", "PDUSessionResourceSetupResponse",
    UeIds(amfUeNgapID, ranUeNgapID)
    \o One("PDUSessionResourceSetupListSURes", 10, GetPDUSessionResourceSetupResponseTransfer(ipv4))
    \o One("PDUSessionResourceFailedToSetupListSURes", 10, SetupUnsuccessfulTransfer))

BuildPDUSessionResourceSetupResponseForPaging(amfUeNgapID, ranUeNgapID, ipv4) ==
    Successful("PDUSessionResourceSetup", "PDUSessionResourceSetupResponse",
    UeIds(amfUeNgapID, ranUeNgapID)
    \o One("PDUSessionResourceSetupListSURes", 10, GetPDUSessionResourceSetupResponseTransfer(ipv4)))

\* Variant: the session is reported failed as well (the lines commented out).
SetUpAndFailed(pduSessionId, amfUeNgapID, ranUeNgapID, ipv4, teid) ==
    BuildPDUSessionResourceSetupResponse(amfUeNgapID, ranUeNgapID, ipv4)

BuildPDUSessionResourceSetupResponseForRegistrationTest(pduSessionId, amfUeNgapID, ranUeNgapID, ipv4, teid) ==
    Successful("PDUSessionResourceSetup", "PDUSessionResourceSetupResponse",
    UeIds(amfUeNgapID, ranUeNgapID)
    \o One("PDUSessionResourceSetupListSURes", pduSessionId, SetupResponseTransfer(ipv4, teid)))

BuildPDUSessionResourceModifyResponse(amfUeNgapID, ranUeNgapID) ==
    Successful("PDUSessionResourceModify", "PDUSessionResourceModifyResponse",
    UeIds(amfUeNgapID, ranUeNgapID)
    \o One("PDUSessionResourceModifyListModRes", 10, ModifyResponseTransfer)
    \o One("PDUSessionResourceFailedToModifyListModRes", 10, ModifyUnsuccessfulTransfer)
    \o Location("000011"))

BuildPDUSessionResourceModifyIndication(amfUeNgapID, ranUeNgapID) ==
    Initiating("PDUSessionResourceModifyIndication", "PDUSessionResourceModifyIndication",
    UeIds(amfUeNgapID, ranUeNgapID)
    \o One("PDUSessionResourceModifyListModInd", 10, ModifyIndicationTransfer))

\* failed is a set; the element is added only if it has members.
BuildPDUSessionResourceModifyConfirm(amfUeNgapID, ranUeNgapID, modified, failed, diagnostics) ==
    Successful("PDUSessionResourceModifyIndication", "PDUSessionResourceModifyConfirm",
    UeIds(amfUeNgapID, ranUeNgapID) \o << Ie("PDUSessionResourceModifyListModCfm", modified) >>
    \o Optional("PDUSessionResourceFailedToModifyListModCfm",
                IF failed = {} THEN Absent ELSE << failed >>)
    \o Optional("CriticalityDiagnostics", diagnostics))

\* The paging priority is filled in as RANPagingPriority under the identifier
\* of PagingPriority.
BuildPDUSessionResourceReleaseCommand(amfUeNgapID, ranUeNgapID, pagingPriority, nasPdu, released) ==
    Initiating("PDUSessionResourceRelease", "PDUSessionResourceReleaseCommand",
    UeIds(amfUeNgapID, ranUeNgapID)
    \o [i \in DOMAIN pagingPriority |->
           [id |-> "PagingPriority", as |-> "RANPagingPriority", val |-> << pagingPriority[i] >>]]
    \o Optional("NASPDU", nasPdu)
    \o << Ie("PDUSessionResourceToReleaseListRelCmd", released) >>)

BuildPDUSessionResourceReleaseResponse ==
    Successful("PDUSessionResourceRelease", "PDUSessionResourceReleaseResponse",
    UeIds(1, LargestId) \o One("PDUSessionResourceReleasedListRelRes", 10, "010203")
    \o Location("000011"))

BuildPDUSessionResourceReleaseResponseForReleaseTest(amfUeNgapID, ranUeNgapID) ==
    Successful("PDUSessionResourceRelease", "PDUSessionResourceReleaseResponse",
    UeIds(amfUeNgapID, ranUeNgapID)
    \o One("PDUSessionResourceReleasedListRelRes", 10, ReleaseResponseTransfer))

BuildPDUSessionResourceNotify ==
    Initiating("PDUSessionResourceNotify", "PDUSessionResourceNotify",
    UeIds(1, LargestId) \o One("PDUSessionResourceNotifyList", 10, "123456")
    \o One("PDUSessionResourceReleasedListNot", 11, "654321") \o Location("000011"))

-----------------------------------------------------------------------------
(* Handover                                                                 *)

BuildPathSwitchRequest(sourceAmfUeNgapID, ranUeNgapID) ==
    Initiating("PathSwitchRequest", "PathSwitchRequest",
    << Ie("RANUENGAPID", ranUeNgapID), Ie("SourceAMFUENGAPID", sourceAmfUeNgapID) >>
    \o Location("000011") \o << Ie("UESecurityCapabilities", "all") >>
    \o One("PDUSessionResourceToBeSwitchedDLList", 10, PathSwitchRequestTransfer)
    \o One("PDUSessionResourceFailedToSetupListPSReq", 11, PathSwitchRequestSetupFailedTransfer))

BuildHandoverRequired(amfUeNgapID, ranUeNgapID, targetGNBID, targetCellID) ==
    Initiating("HandoverPreparation", "HandoverRequired",
    UeIds(amfUeNgapID, ranUeNgapID)
    \o << Ie("HandoverType", "intra5gs") >> \o Cause("radioNetwork")
    \o << Ie("TargetID", [gnb |-> targetGNBID, tac |-> "303399"]) >>
    \o One("PDUSessionResourceListHORqd", 10, HandoverRequiredTransfer)
    \o << Ie("SourceToTargetTransparentContainer",
             SourceToTargetTransparentTransfer(targetGNBID, targetCellID)) >>)

\* Variant: the session is looked up under the identifier of the failed one.
AdmitsOther(amfUeNgapID, ranUeNgapID) ==
    Successful("HandoverResourceAllocation", "HandoverRequestAcknowledge",
    UeIds(amfUeNgapID, ranUeNgapID)
    \o One("PDUSessionResourceAdmittedList", 11, HandoverRequestAcknowledgeTransfer))

BuildHandoverRequestAcknowledge(amfUeNgapID, ranUeNgapID) ==
    Successful("HandoverResourceAllocation", "HandoverRequestAcknowledge",
    UeIds(amfUeNgapID, ranUeNgapID)
    \o One("PDUSessionResourceAdmittedList", 10, HandoverRequestAcknowledgeTransfer)
    \o One("PDUSessionResourceFailedToSetupListHOAck", 11, ResourceAllocationUnsuccessfulTransfer)
    \o << Ie("TargetToSourceTransparentContainer", "00010000") >>)

BuildHandoverFailure(amfUeNgapID) ==
    Unsuccessful("HandoverResourceAllocation", "HandoverFailure",
    << Ie("AMFUENGAPID", amfUeNgapID) >> \o Cause("nas"))

\* The location is an E-UTRA one.
BuildHandoverNotify(amfUeNgapID, ranUeNgapID) ==
    Initiating("HandoverNotification", "HandoverNotify",
    UeIds(amfUeNgapID, ranUeNgapID) \o Location("303399"))

BuildHandoverCancel ==
    Initiating("HandoverCancel", "HandoverCancel", UeIds(1, LargestId) \o Cause("radioNetwork"))

BuildUplinkRanStatusTransfer(amfUeNgapID, ranUeNgapID) ==
    Initiating("UplinkRANStatusTransfer", "UplinkRANStatusTransfer",
    UeIds(amfUeNgapID, ranUeNgapID)
    \o << Ie("RANStatusTransferTransparentContainer", {123}) >>)

-----------------------------------------------------------------------------
(* packet.go: builders fitted to the procedures                             *)

\* Variant: the name goes to the element that holds the identifier.
PatchedOutOfPlace(gnbId, bitlength, name) ==
    [BuildNGSetupRequest EXCEPT !.ies[1].val = << Gnb(gnbId, bitlength) >>, !.ies[3].val = << name >>]

\* The first and the second element are overwritten, by position.
GetNGSetupRequest(gnbId, bitlength, name) ==
    [BuildNGSetupRequest EXCEPT !.ies[1].val = << Gnb(gnbId, bitlength) >>, !.ies[2].val = << name >>]

\* The failed list, the last of six elements, is cut off.
GetPathSwitchRequest(amfUeNgapID, ranUeNgapID) ==
    [BuildPathSwitchRequest(amfUeNgapID, ranUeNgapID) EXCEPT !.ies = SubSeq(@, 1, 5)]

GetInitialContextSetupResponse(amfUeNgapID, ranUeNgapID) ==
    BuildInitialContextSetupResponseForRegistraionTest(amfUeNgapID, ranUeNgapID)
GetInitialContextSetupResponseForServiceRequest(amfUeNgapID, ranUeNgapID, ipv4) ==
    BuildInitialContextSetupResponse(amfUeNgapID, ranUeNgapID, ipv4, Absent)
GetPDUSessionResourceSetupResponse(pduSessionId, amfUeNgapID, ranUeNgapID, ipv4) ==
    BuildPDUSessionResourceSetupResponseForRegistrationTest(pduSessionId, amfUeNgapID, ranUeNgapID,
                                                            ipv4, 1)
GetPDUSessionResourceSetupResponseWithTeid(pduSessionId, amfUeNgapID, ranUeNgapID, ipv4, teid) ==
    BuildPDUSessionResourceSetupResponseForRegistrationTest(pduSessionId, amfUeNgapID, ranUeNgapID,
                                                            ipv4, teid)
GetPDUSessionResourceReleaseResponse(amfUeNgapID, ranUeNgapID) ==
    BuildPDUSessionResourceReleaseResponseForReleaseTest(amfUeNgapID, ranUeNgapID)
GetUEContextReleaseRequest(amfUeNgapID, ranUeNgapID, pduSessionIDList) ==
    BuildUEContextReleaseRequest(amfUeNgapID, ranUeNgapID, pduSessionIDList)
GetUEContextReleaseComplete(amfUeNgapID, ranUeNgapID, pduSessionIDList) ==
    BuildUEContextReleaseComplete(amfUeNgapID, ranUeNgapID, pduSessionIDList)

-----------------------------------------------------------------------------
(* Reading a message                                                        *)

Places(pdu, ids) == {i \in DOMAIN pdu.ies : pdu.ies[i].id \in ids}
ValueOf(pdu, id) == Head(pdu.ies[CHOOSE i \in Places(pdu, {id}) : TRUE].val)

\* The sessions in the elements of a message with these identifiers.
SessionsIn(pdu, ids) ==
    UNION {{item.session : item \in Head(pdu.ies[i].val)} : i \in Places(pdu, ids)}

SetUpLists  == {"PDUSessionResourceSetupListSURes", "PDUSessionResourceSetupListCxtRes",
                "PDUSessionResourceModifyListModRes", "PDUSessionResourceAdmittedList",
                "PDUSessionResourceToBeSwitchedDLList"}
FailedLists == {"PDUSessionResourceFailedToSetupListSURes", "PDUSessionResourceFailedToModifyListModRes",
                "PDUSessionResourceFailedToSetupListCxtRes", "PDUSessionResourceFailedToSetupListHOAck",
                "PDUSessionResourceFailedToSetupListPSReq"}

-----------------------------------------------------------------------------
(* The codec                                                                *)

\* The messages that are not named as their procedure.
Named == [
    initiating |->
        [NGSetup                 |-> "NGSetupRequest",
         HandoverPreparation     |-> "HandoverRequired",
         HandoverNotification    |-> "HandoverNotify",
         UERadioCapabilityCheck  |-> "UERadioCapabilityCheckRequest",
         PDUSessionResourceRelease |-> "PDUSessionResourceReleaseCommand"],
    successful |->
        [NGSetup                 |-> "NGSetupResponse",
         NGReset                 |-> "NGResetAcknowledge",
         RANConfigurationUpdate  |-> "RANConfigurationUpdateAcknowledge",
         AMFConfigurationUpdate  |-> "AMFConfigurationUpdateAcknowledge",
         InitialContextSetup     |-> "InitialContextSetupResponse",
         UEContextRelease        |-> "UEContextReleaseComplete",
         UEContextModification   |-> "UEContextModificationResponse",
         UERadioCapabilityCheck  |-> "UERadioCapabilityCheckResponse",
         PDUSessionResourceSetup |-> "PDUSessionResourceSetupResponse",
         PDUSessionResourceModify  |-> "PDUSessionResourceModifyResponse",
         PDUSessionResourceModifyIndication |-> "PDUSessionResourceModifyConfirm",
         PDUSessionResourceRelease |-> "PDUSessionResourceReleaseResponse",
         HandoverResourceAllocation |-> "HandoverRequestAcknowledge"],
    unsuccessful |->
        [RANConfigurationUpdate  |-> "RANConfigurationUpdateFailure",
         AMFConfigurationUpdate  |-> "AMFConfigurationUpdateFailure",
         InitialContextSetup     |-> "InitialContextSetupFailure",
         UEContextModification   |-> "UEContextModificationFailure",
         HandoverResourceAllocation |-> "HandoverFailure"] ]
MessageOf(outcome, procedure) ==
    IF procedure \in DOMAIN Named[outcome] THEN Named[outcome][procedure] ELSE procedure

\* What is filled in must be what the procedure and the identifiers announce.
Encodable(pdu) ==
    /\ pdu.outcome # "none"
    /\ pdu.message = MessageOf(pdu.outcome, pdu.procedure)
    /\ \A i \in DOMAIN pdu.ies : pdu.ies[i].id = pdu.ies[i].as
Encoder(pdu) ==
    [outcome |-> pdu.outcome, procedure |-> pdu.procedure,
     values  |-> [i \in DOMAIN pdu.ies |-> << pdu.ies[i].id, pdu.ies[i].val >>]]
Decoder(bytes) ==
    Pdu(bytes.outcome, bytes.procedure, MessageOf(bytes.outcome, bytes.procedure),
        [i \in DOMAIN bytes.values |->
            [id |-> bytes.values[i][1], as |-> bytes.values[i][1], val |-> bytes.values[i][2]]])

=============================================================================
