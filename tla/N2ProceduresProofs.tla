------------------------- MODULE N2ProceduresProofs --------------------------
(***************************************************************************)
(* Proofs about the test procedures: their types, for every number of      *)
(* rounds, every first identifier and every width of the NAS COUNT; and    *)
(* that both ends reconstruct the counts (CountsExact), in every procedure *)
(* but TestMultiN2Handover, whose later rounds do not.                     *)
(*                                                                         *)
(* The invariant CountsAgree has three parts.  Of the uplink: what the AMF *)
(* will conclude from the messages on their way to it, one by one, is what *)
(* they carry, and leads to the count of the next one (Follows).  Of the   *)
(* handover: the AMF asks the target when it has read all that the source  *)
(* has protected, so that the copy of the context counts on.  Of the       *)
(* downlink: the UE decodes two protected messages at most, and the count  *)
(* does not overflow before the second one (Bounded).                      *)
(***************************************************************************)
EXTENDS N2Procedures, WellFoundedInduction, TLAPS

-----------------------------------------------------------------------------
(* The steps of the procedures                                              *)

\* A set with 0 that is closed under successors holds every number.
LEMMA Induction ==
    ASSUME NEW S, 0 \in S, \A n \in Nat : n \in S => n + 1 \in S
    PROVE  \A n \in Nat : n \in S
<1> DEFINE Missing == Nat \ S
<1>1. SUFFICES ASSUME Missing # {} PROVE FALSE
    OBVIOUS
<1>2. PICK x \in Missing : \A y \in Missing : ~(<<y, x>> \in OpToRel(<, Nat))
    BY <1>1, NatLessThanWellFounded, WFMin
<1>3. x \in Nat /\ x # 0 /\ x = (x - 1) + 1 /\ x - 1 \in Nat /\ x - 1 < x
    OBVIOUS
<1>4. x - 1 \in Missing
    BY <1>3
<1> QED
    BY <1>2, <1>3, <1>4 DEF OpToRel

\* What messages and steps consist of.
Types == {
    "NGSetupRequest", "NGSetupResponse", "RegistrationRequest", "AuthenticationRequest",
    "AuthenticationResponse", "SecurityModeCommand", "SecurityModeComplete",
    "InitialContextSetupRequest", "InitialContextSetupResponse", "RegistrationComplete",
    "ConfigurationUpdateCommand", "PduSessionRequest", "PDUSessionResourceSetupRequest",
    "PDUSessionResourceSetupResponse", "HandoverRequired", "HandoverRequest",
    "HandoverRequestAcknowledge", "HandoverCommand", "HandoverNotify", "MobilityRegistration",
    "UEContextReleaseRequest", "UEContextReleaseCommand", "UEContextReleaseComplete",
    "Paging", "ServiceRequest" }
Protections == {"none", "plain", "new", "protected"}
Uses == {"ignore", "challenge", "command", "session", "target"}

Writes == [op : {"send", "initial"}, conn : Conn, type : Types, nas : Protections,
           who : {"ue", "target"}, shift : Nat]
NGSetups == [op : {"send"}, conn : Conn, type : Types, nas : {"none"}, who : {"gnb"}, shift : {0}]
Reads == [op : {"recv"}, conn : Conn, type : Types, use : Uses]
OtherReads == [op : {"recv"}, conn : Conn, type : Types, use : Uses \ {"session"}]
Copies == [op : {"copy", "setId"}, id : Nat] \cup [op : {"copyBack"}]
Steps == Writes \cup NGSetups \cup Reads \cup Copies
Sessionless == Writes \cup NGSetups \cup OtherReads \cup Copies

\* The constructors of steps.
LEMMA WritesAreTyped ==
    ASSUME NEW c \in Conn, NEW type \in Types, NEW nas \in Protections, NEW who \in {"ue", "target"}
    PROVE  /\ Send(c, type, nas, who) \in Sessionless
           /\ InitialUE(c, type, nas, who) \in Sessionless
           /\ \A n \in Nat : [Send(c, type, nas, who) EXCEPT !.shift = n] \in Sessionless
           /\ Send(c, type, "none", "gnb") \in Sessionless
<1>1. Send(c, type, nas, who) \in Writes /\ Send(c, type, "none", "gnb") \in NGSetups
    BY DEF Send, Writes, NGSetups
<1>2. InitialUE(c, type, nas, who) \in Writes
    BY DEF InitialUE, Send, Writes
<1>3. \A n \in Nat : [Send(c, type, nas, who) EXCEPT !.shift = n] \in Writes
    BY DEF Send, Writes
<1> QED
    BY <1>1, <1>2, <1>3 DEF Sessionless

LEMMA OthersAreTyped ==
    /\ \A c \in Conn, type \in Types, use \in Uses :
         Recv(c, type, use) \in Steps /\ (use # "session" => Recv(c, type, use) \in Sessionless)
    /\ \A n \in Nat : Copy(n) \in Sessionless /\ SetId(n) \in Sessionless
    /\ CopyBack \in Sessionless
BY DEF Recv, Copy, SetId, CopyBack, Steps, Sessionless, Reads, OtherReads, Copies

LEMMA SessionlessAreSteps == Sessionless \subseteq Steps
BY DEF Sessionless, Steps, Reads, OtherReads

LEMMA RegistrationSteps ==
    ASSUME NEW S,
           /\ InitialUE("src", "RegistrationRequest", "plain", "ue") \in S
           /\ Recv("src", "AuthenticationRequest", "challenge") \in S
           /\ Send("src", "AuthenticationResponse", "plain", "ue") \in S
           /\ Recv("src", "SecurityModeCommand", "command") \in S,
           /\ Send("src", "SecurityModeComplete", "new", "ue") \in S
           /\ Recv("src", "InitialContextSetupRequest", "ignore") \in S
           /\ Send("src", "InitialContextSetupResponse", "none", "ue") \in S
           /\ Send("src", "RegistrationComplete", "protected", "ue") \in S
    PROVE  Registration \in Seq(S)
BY DEF Registration

LEMMA SessionSteps ==
    ASSUME NEW S,
           Send("src", "PduSessionRequest", "protected", "ue") \in S,
           Recv("src", "ConfigurationUpdateCommand", "ignore") \in S,
           Recv("src", "PDUSessionResourceSetupRequest", "session") \in S,
           Send("src", "PDUSessionResourceSetupResponse", "none", "ue") \in S
    PROVE  EstablishPduSession \in Seq(S)
BY DEF EstablishPduSession

LEMMA PartsAreTyped ==
    /\ \A c \in Conn : NGSetup(c) \in Seq(Sessionless)
    /\ Registration \in Seq(Sessionless)
    /\ EstablishPduSession \in Seq(Steps)
<1>0. "src" \in Conn
    BY DEF Conn
<1>1. \A c \in Conn : NGSetup(c) \in Seq(Sessionless)
    BY WritesAreTyped, OthersAreTyped DEF Types, Protections, Uses, NGSetup
<1>2. Registration \in Seq(Sessionless)
  <2>1. /\ InitialUE("src", "RegistrationRequest", "plain", "ue") \in Sessionless
        /\ Recv("src", "AuthenticationRequest", "challenge") \in Sessionless
        /\ Send("src", "AuthenticationResponse", "plain", "ue") \in Sessionless
        /\ Recv("src", "SecurityModeCommand", "command") \in Sessionless
      BY <1>0, WritesAreTyped, OthersAreTyped DEF Types, Protections, Uses
  <2>2. /\ Send("src", "SecurityModeComplete", "new", "ue") \in Sessionless
        /\ Recv("src", "InitialContextSetupRequest", "ignore") \in Sessionless
        /\ Send("src", "InitialContextSetupResponse", "none", "ue") \in Sessionless
        /\ Send("src", "RegistrationComplete", "protected", "ue") \in Sessionless
      BY <1>0, WritesAreTyped, OthersAreTyped DEF Types, Protections, Uses
  <2> QED
      BY <2>1, <2>2, RegistrationSteps
<1>3. EstablishPduSession \in Seq(Steps)
  <2>1. /\ Send("src", "PduSessionRequest", "protected", "ue") \in Sessionless
        /\ Recv("src", "ConfigurationUpdateCommand", "ignore") \in Sessionless
        /\ Send("src", "PDUSessionResourceSetupResponse", "none", "ue") \in Sessionless
      BY <1>0, WritesAreTyped, OthersAreTyped DEF Types, Protections, Uses
  <2>2. /\ Send("src", "PduSessionRequest", "protected", "ue") \in Steps
        /\ Recv("src", "ConfigurationUpdateCommand", "ignore") \in Steps
        /\ Send("src", "PDUSessionResourceSetupResponse", "none", "ue") \in Steps
      BY <2>1, SessionlessAreSteps
  <2>3. Recv("src", "PDUSessionResourceSetupRequest", "session") \in Steps
      BY <1>0, OthersAreTyped DEF Types, Protections, Uses
  <2> QED
      BY <2>2, <2>3, SessionSteps
<1> QED
    BY <1>1, <1>2, <1>3

LEMMA HandoverIsTyped ==
    ASSUME NEW s \in Conn, NEW guess \in Nat, NEW shift \in Nat,
           NEW request \in Sessionless, NEW response \in Types
    PROVE  /\ Preparation(s, Other(s), guess) \in Seq(Sessionless)
           /\ Execution(s, Other(s), shift) \in Seq(Sessionless)
           /\ Mobility(Other(s), request, response) \in Seq(Sessionless)
<1>1. Other(s) \in Conn
    BY DEF Other, Conn
<1>2. Preparation(s, Other(s), guess) \in Seq(Sessionless)
    BY <1>1, WritesAreTyped, OthersAreTyped DEF Types, Protections, Uses, Preparation
<1>3. Execution(s, Other(s), shift) \in Seq(Sessionless)
    BY <1>1, WritesAreTyped, OthersAreTyped DEF Types, Protections, Uses, Execution
<1>4. Mobility(Other(s), request, response) \in Seq(Sessionless)
    BY <1>1, WritesAreTyped, OthersAreTyped DEF Types, Protections, Uses, Mobility
<1> QED
    BY <1>2, <1>3, <1>4

LEMMA RoundIsTyped == \A i \in Nat : Round(i) \in Seq(Sessionless)
<1> SUFFICES ASSUME NEW i \in Nat PROVE Round(i) \in Seq(Sessionless)
    OBVIOUS
<1> DEFINE s == IF i % 2 = 0 THEN "src" ELSE "tgt"
           request == InitialUE(Other(s), "MobilityRegistration", "protected", "target")
<1>1. s \in Conn /\ Other(s) \in Conn /\ i + 2 \in Nat
    BY DEF Conn, Other
<1> HIDE DEF s
<1>2. request \in Sessionless /\ << CopyBack >> \in Seq(Sessionless)
    BY <1>1, WritesAreTyped, OthersAreTyped DEF Types, Protections
<1> HIDE DEF request
<1>3. /\ Preparation(s, Other(s), i + 2) \in Seq(Sessionless)
      /\ Execution(s, Other(s), i) \in Seq(Sessionless)
      /\ Mobility(Other(s), request, "InitialContextSetupResponse") \in Seq(Sessionless)
    BY <1>1, <1>2, HandoverIsTyped DEF Types
<1>4. Preparation(s, Other(s), i + 2) \o Execution(s, Other(s), i)
        \o Mobility(Other(s), request, "InitialContextSetupResponse") \o << CopyBack >>
        \in Seq(Sessionless)
    BY <1>2, <1>3
<1> QED
    BY <1>4 DEF Round, s, request

\* r holds what the first n rounds of TestMultiN2Handover consist of.
Unrolled(r, n) == r = [i \in 0..n |-> IF i = 0 THEN <<>> ELSE r[i - 1] \o Round(i - 1)]

LEMMA UnrolledIsTyped ==
    ASSUME NEW n \in Nat, NEW r, Unrolled(r, n)
    PROVE  \A i \in 0..n : r[i] \in Seq(Sessionless)
<1> DEFINE Typed == {i \in Nat : i <= n => r[i] \in Seq(Sessionless)}
<1>1. 0 \in Typed
    BY DEF Unrolled
<1>2. ASSUME NEW i \in Nat, i \in Typed
      PROVE  i + 1 \in Typed
  <2> SUFFICES ASSUME i + 1 <= n PROVE r[i + 1] \in Seq(Sessionless)
      OBVIOUS
  <2>1. i + 1 \in 0..n /\ i + 1 # 0 /\ (i + 1) - 1 = i
      OBVIOUS
  <2>2. r[i + 1] = r[i] \o Round(i)
      BY <2>1 DEF Unrolled
  <2>3. r[i] \in Seq(Sessionless) /\ Round(i) \in Seq(Sessionless)
      BY <1>2, RoundIsTyped
  <2> QED
      BY <2>2, <2>3
<1> HIDE DEF Typed
<1>3. \A i \in Nat : i \in Typed
    BY <1>1, <1>2, Induction
<1> QED
    BY <1>3 DEF Typed

LEMMA UnrolledExists == \A n \in Nat : \E r : Unrolled(r, n)
<1> DEFINE Defined == {n \in Nat : \E r : Unrolled(r, n)}
<1>1. 0 \in Defined
  <2> DEFINE r == [i \in 0..0 |-> <<>>]
  <2>1. r = [i \in 0..0 |-> IF i = 0 THEN <<>> ELSE r[i - 1] \o Round(i - 1)]
      OBVIOUS
  <2> QED
      BY <2>1 DEF Unrolled
<1>2. ASSUME NEW n \in Nat, n \in Defined
      PROVE  n + 1 \in Defined
  <2>1. PICK r : Unrolled(r, n)
      BY <1>2
  <2> DEFINE longer == [i \in 0..n + 1 |-> IF i = n + 1 THEN r[n] \o Round(n) ELSE r[i]]
             again  == [i \in 0..n + 1 |-> IF i = 0 THEN <<>> ELSE longer[i - 1] \o Round(i - 1)]
  <2>2. ASSUME NEW i \in 0..n + 1 PROVE longer[i] = again[i]
    <3>1. CASE i = 0
        BY <2>1, <3>1 DEF Unrolled
    <3>2. CASE i = n + 1
      <4>1. longer[i] = r[n] \o Round(n)
          BY <3>2
      <4>4. again[i] = longer[i - 1] \o Round(i - 1)
        <5>1. i # 0
            BY <3>2
        <5> HIDE DEF longer
        <5> QED
            BY <5>1
      <4>2. i - 1 = n /\ n \in 0..n + 1 /\ n # n + 1
          BY <3>2
      <4>3. longer[n] = r[n]
          BY <4>2
      <4> HIDE DEF longer, again
      <4> QED
          BY <4>1, <4>2, <4>3, <4>4
    <3>3. CASE i \in 1..n
      <4>1. i - 1 \in 0..n + 1 /\ i - 1 # n + 1 /\ i # 0 /\ i # n + 1 /\ i \in 0..n
          BY <3>3
      <4>2. longer[i - 1] = r[i - 1] /\ r[i] = r[i - 1] \o Round(i - 1)
          BY <2>1, <4>1 DEF Unrolled
      <4> QED
          BY <4>1, <4>2
    <3> QED
        BY <3>1, <3>2, <3>3
  <2>3. longer = again
      BY <2>2
  <2>4. Unrolled(longer, n + 1) /\ n + 1 \in Nat
      BY <2>3 DEF Unrolled
  <2> HIDE DEF longer
  <2> QED
      BY <2>4
<1> HIDE DEF Defined
<1>3. \A n \in Nat : n \in Defined
    BY <1>1, <1>2, Induction
<1> QED
    BY <1>3 DEF Defined

\* The code before the rounds of TestMultiN2Handover, and the rounds.
LEMMA MultiIsTyped ==
    \E rounds \in Seq(Sessionless) : 
        TestMultiN2Handover =
            NGSetup("src") \o NGSetup("tgt") \o Registration \o EstablishPduSession \o rounds
<1> DEFINE rounds[i \in 0..Rounds] == IF i = 0 THEN <<>> ELSE rounds[i - 1] \o Round(i - 1)
<1>1. Rounds \in Nat
    BY FlowAssumption
<1>2. PICK r : Unrolled(r, Rounds)
    BY <1>1, UnrolledExists
<1>3. rounds = [i \in 0..Rounds |-> IF i = 0 THEN <<>> ELSE rounds[i - 1] \o Round(i - 1)]
    BY <1>2 DEF Unrolled
<1>4. TestMultiN2Handover =
        NGSetup("src") \o NGSetup("tgt") \o Registration \o EstablishPduSession \o rounds[Rounds]
    BY DEF TestMultiN2Handover
<1> HIDE DEF rounds
<1>5. rounds[Rounds] \in Seq(Sessionless)
    BY <1>1, <1>3, UnrolledIsTyped DEF Unrolled
<1> QED
    BY <1>4, <1>5

-----------------------------------------------------------------------------
(* The scripts, step by step                                                *)

\* The steps of script s after the first at.
SetsUp(s, at, c) ==
    /\ s[at + 1] = Send(c, "NGSetupRequest", "none", "gnb")
    /\ s[at + 2] = Recv(c, "NGSetupResponse", "ignore")

Registers(s, at, challenge, command) ==
    /\ s[at + 1] = InitialUE("src", "RegistrationRequest", "plain", "ue")
    /\ s[at + 2] = Recv("src", "AuthenticationRequest", challenge)
    /\ s[at + 3] = Send("src", "AuthenticationResponse", "plain", "ue")
    /\ s[at + 4] = Recv("src", "SecurityModeCommand", command)
    /\ s[at + 5] = Send("src", "SecurityModeComplete", "new", "ue")
    /\ s[at + 6] = Recv("src", "InitialContextSetupRequest", "ignore")
    /\ s[at + 7] = Send("src", "InitialContextSetupResponse", "none", "ue")
    /\ s[at + 8] = Send("src", "RegistrationComplete", "protected", "ue")

OpensSession(s, at, use) ==
    /\ s[at + 1] = Send("src", "PduSessionRequest", "protected", "ue")
    /\ s[at + 2] = Recv("src", "ConfigurationUpdateCommand", "ignore")
    /\ s[at + 3] = Recv("src", "PDUSessionResourceSetupRequest", use)
    /\ s[at + 4] = Send("src", "PDUSessionResourceSetupResponse", "none", "ue")

OpensSessionUnconfigured(s, at) ==
    /\ s[at + 1] = Send("src", "PduSessionRequest", "protected", "ue")
    /\ s[at + 2] = Recv("src", "PDUSessionResourceSetupRequest", "ignore")
    /\ s[at + 3] = Send("src", "PDUSessionResourceSetupResponse", "none", "ue")

HandsOver(s, at) ==
    /\ s[at + 1] = Send("src", "HandoverRequired", "none", "ue")
    /\ s[at + 2] = Recv("tgt", "HandoverRequest", "target")
    /\ s[at + 3] = Copy(NoId)
    /\ s[at + 4] = Send("tgt", "HandoverRequestAcknowledge", "none", "target")
    /\ s[at + 5] = Recv("src", "HandoverCommand", "ignore")
    /\ s[at + 6] = Send("tgt", "HandoverNotify", "none", "target")
    /\ s[at + 7] = Recv("src", "UEContextReleaseCommand", "ignore")
    /\ s[at + 8] = [Send("src", "UEContextReleaseComplete", "none", "ue") EXCEPT !.shift = 0]
    /\ s[at + 9] = Send("tgt", "MobilityRegistration", "protected", "target")
    /\ s[at + 10] = Recv("tgt", "InitialContextSetupRequest", "ignore")
    /\ s[at + 11] = Send("tgt", "PDUSessionResourceSetupResponse", "none", "target")
    /\ s[at + 12] = Send("tgt", "RegistrationComplete", "protected", "target")

IsPaged(s, at) ==
    /\ s[at + 1] = Send("src", "UEContextReleaseRequest", "none", "ue")
    /\ s[at + 2] = Recv("src", "UEContextReleaseCommand", "ignore")
    /\ s[at + 3] = Send("src", "UEContextReleaseComplete", "none", "ue")
    /\ s[at + 4] = Recv("src", "Paging", "ignore")
    /\ s[at + 5] = SetId(2)
    /\ s[at + 6] = InitialUE("src", "ServiceRequest", "protected", "ue")
    /\ s[at + 7] = Recv("src", "InitialContextSetupRequest", "ignore")
    /\ s[at + 8] = Send("src", "InitialContextSetupResponse", "none", "ue")

LEMMA TestRegistrationIs ==
    /\ Len(TestRegistration) = 14
    /\ SetsUp(TestRegistration, 0, "src")
    /\ Registers(TestRegistration, 2, "challenge", "command")
    /\ OpensSession(TestRegistration, 10, "ignore")
BY DEF SetsUp, Registers, OpensSession,
       TestRegistration, NGSetup, Registration, SessionInline, EstablishPduSession

LEMMA SingleRegistrationIs ==
    /\ Len(SingleRegistration) = 14
    /\ SetsUp(SingleRegistration, 0, "src")
    /\ Registers(SingleRegistration, 2, "challenge", "command")
    /\ OpensSession(SingleRegistration, 10, "session")
BY DEF SetsUp, Registers, OpensSession,
       SingleRegistration, NGSetup, Registration, EstablishPduSession

LEMMA TestN2HandoverIs ==
    /\ Len(TestN2Handover) = 28
    /\ SetsUp(TestN2Handover, 0, "src") /\ SetsUp(TestN2Handover, 2, "tgt")
    /\ Registers(TestN2Handover, 4, "challenge", "command")
    /\ OpensSession(TestN2Handover, 12, "session")
    /\ HandsOver(TestN2Handover, 16)
BY DEF SetsUp, Registers, OpensSession, HandsOver, TestN2Handover, NGSetup, Registration,
       EstablishPduSession, Preparation, Execution, Mobility, NoId

LEMMA TestPagingIs ==
    /\ Len(TestPaging) = 21
    /\ SetsUp(TestPaging, 0, "src")
    /\ Registers(TestPaging, 2, "challenge", "ignore")
    /\ OpensSessionUnconfigured(TestPaging, 10)
    /\ IsPaged(TestPaging, 13)
BY DEF SetsUp, Registers, OpensSessionUnconfigured, IsPaged, TestPaging, NGSetup, Registration

LEMMA UeRanEmulatorIs ==
    /\ Len(UeRanEmulator) = 13
    /\ SetsUp(UeRanEmulator, 0, "src")
    /\ Registers(UeRanEmulator, 2, "command", "ignore")
    /\ OpensSessionUnconfigured(UeRanEmulator, 10)
BY DEF SetsUp, Registers, OpensSessionUnconfigured, UeRanEmulator, NGSetup, Registration

LEMMA XioRegistrationIs ==
    /\ Len(XioRegistration) = 10
    /\ SetsUp(XioRegistration, 0, "src")
    /\ Registers(XioRegistration, 2, "command", "command")
BY DEF SetsUp, Registers, XioRegistration, NGSetup, Registration

\* TestMultiN2Handover before its rounds, and the rounds.
LEMMA TestMultiN2HandoverIs ==
    /\ TestMultiN2Handover \in Seq(Steps)
    /\ Len(TestMultiN2Handover) >= 16
    /\ SetsUp(TestMultiN2Handover, 0, "src") /\ SetsUp(TestMultiN2Handover, 2, "tgt")
    /\ Registers(TestMultiN2Handover, 4, "challenge", "command")
    /\ OpensSession(TestMultiN2Handover, 12, "session")
    /\ \A k \in 17..Len(TestMultiN2Handover) : TestMultiN2Handover[k] \in Sessionless
<1> DEFINE start == NGSetup("src") \o NGSetup("tgt") \o Registration \o EstablishPduSession
<1>1. /\ Len(start) = 16
      /\ SetsUp(start, 0, "src") /\ SetsUp(start, 2, "tgt")
      /\ Registers(start, 4, "challenge", "command")
      /\ OpensSession(start, 12, "session")
    BY DEF SetsUp, Registers, OpensSession, NGSetup, Registration, EstablishPduSession
<1>2. start \in Seq(Steps)
    BY PartsAreTyped, SessionlessAreSteps DEF Conn
<1>3. PICK rounds \in Seq(Sessionless) : TestMultiN2Handover = start \o rounds
    BY MultiIsTyped
<1> HIDE DEF start
<1>4. rounds \in Seq(Steps) /\ Len(rounds) \in Nat
    BY SessionlessAreSteps
<1>5. /\ TestMultiN2Handover \in Seq(Steps)
      /\ Len(TestMultiN2Handover) = 16 + Len(rounds)
      /\ \A k \in 1..16 : TestMultiN2Handover[k] = start[k]
      /\ \A k \in 17..16 + Len(rounds) : TestMultiN2Handover[k] = rounds[k - 16]
  <2>1. start \o rounds \in Seq(Steps) /\ Len(start \o rounds) = Len(start) + Len(rounds)
      BY <1>2, <1>4
  <2>2. \A k \in 1..Len(start) : (start \o rounds)[k] = start[k]
      BY <1>2, <1>4
  <2>3. \A k \in Len(start) + 1..Len(start) + Len(rounds) : (start \o rounds)[k] = rounds[k - Len(start)]
      BY <1>2, <1>4
  <2>4. Len(start) = 16
      BY <1>1
  <2> DEFINE whole == start \o rounds
  <2>5. \A k \in 1..Len(start) : whole[k] = start[k]
      BY <2>2
  <2>6. \A k \in Len(start) + 1..Len(start) + Len(rounds) : whole[k] = rounds[k - Len(start)]
      BY <2>3
  <2>7. whole \in Seq(Steps) /\ Len(whole) = Len(start) + Len(rounds) /\ TestMultiN2Handover = whole
      BY <1>3, <2>1
  <2> HIDE DEF whole
  <2> QED
      BY <2>4, <2>5, <2>6, <2>7
<1>6. /\ SetsUp(TestMultiN2Handover, 0, "src") /\ SetsUp(TestMultiN2Handover, 2, "tgt")
      /\ Registers(TestMultiN2Handover, 4, "challenge", "command")
      /\ OpensSession(TestMultiN2Handover, 12, "session")
    BY <1>1, <1>5 DEF SetsUp, Registers, OpensSession
<1>7. \A k \in 17..Len(TestMultiN2Handover) : TestMultiN2Handover[k] \in Sessionless
  <2> SUFFICES ASSUME NEW k \in 17..16 + Len(rounds)
               PROVE  rounds[k - 16] \in Sessionless
      BY <1>5
  <2>1. k - 16 \in 1..Len(rounds)
      BY <1>4
  <2> QED
      BY <2>1
<1> QED
    BY <1>4, <1>5, <1>6, <1>7

\* Every step is one, and no procedure ends with the read that may give up.
Proper(s, k, n) ==
    s \in Steps /\ (s.op = "recv" /\ s.use = "session" => k + 1 \in 1..n)

ProperScript(s) == Len(s) \in Nat /\ \A k \in 1..Len(s) : Proper(s[k], k, Len(s))

Procedures == {"TestRegistration", "SingleRegistration", "TestN2Handover", "SingleN2Handover",
               "TestPaging", "UeRanEmulator", "XioRegistration"}

LEMMA ScriptIs ==
    /\ Script("TestRegistration") = TestRegistration
    /\ Script("SingleRegistration") = SingleRegistration
    /\ Script("TestN2Handover") = TestN2Handover /\ Script("SingleN2Handover") = TestN2Handover
    /\ Script("TestMultiN2Handover") = TestMultiN2Handover
    /\ Script("TestPaging") = TestPaging
    /\ Script("UeRanEmulator") = UeRanEmulator
    /\ Script("XioRegistration") = XioRegistration
BY DEF Script, SingleN2Handover

LEMMA ScriptIsProper ==
    ASSUME NEW f \in Procedures \cup {"TestMultiN2Handover"}
    PROVE  ProperScript(Script(f))
<1> USE DEF Send, InitialUE, Recv, Copy, SetId, NoId, Conn, Types, Protections, Uses, Proper,
            Steps, Writes, NGSetups, Reads, Copies, SetsUp, Registers, OpensSession
<1>1. \A k \in 1..14 : Proper(TestRegistration[k], k, 14)
    BY TestRegistrationIs
<1>2. \A k \in 1..14 : Proper(SingleRegistration[k], k, 14)
    BY SingleRegistrationIs
<1>3. \A k \in 1..28 : Proper(TestN2Handover[k], k, 28)
    BY TestN2HandoverIs DEF HandsOver
<1>4. \A k \in 1..21 : Proper(TestPaging[k], k, 21)
    BY TestPagingIs DEF OpensSessionUnconfigured, IsPaged
<1>5. \A k \in 1..13 : Proper(UeRanEmulator[k], k, 13)
    BY UeRanEmulatorIs DEF OpensSessionUnconfigured
<1>6. \A k \in 1..10 : Proper(XioRegistration[k], k, 10)
    BY XioRegistrationIs
<1>7. \A k \in 1..16 : Proper(TestMultiN2Handover[k], k, 16)
  <2>1. /\ SetsUp(TestMultiN2Handover, 0, "src") /\ SetsUp(TestMultiN2Handover, 2, "tgt")
        /\ Registers(TestMultiN2Handover, 4, "challenge", "command")
        /\ OpensSession(TestMultiN2Handover, 12, "session")
    <3> HIDE DEF SetsUp, Registers, OpensSession
    <3> QED
        BY TestMultiN2HandoverIs
  <2> QED
      BY <2>1
<1> HIDE DEF Send, InitialUE, Recv, Copy, SetId, NoId, Conn, Types, Protections, Uses, Proper,
             Steps, Writes, NGSetups, Reads, Copies, SetsUp, Registers, OpensSession
<1>8. ProperScript(TestMultiN2Handover)
  <2> DEFINE n == Len(TestMultiN2Handover)
  <2>1. \A s \in Sessionless : s \in Steps /\ ~(s.op = "recv" /\ s.use = "session")
      BY DEF Sessionless, Steps, Writes, NGSetups, Reads, OtherReads, Copies
  <2>2. \A k \in 17..n : Proper(TestMultiN2Handover[k], k, n)
      BY <2>1, TestMultiN2HandoverIs DEF Proper
  <2>3. n \in Nat /\ n >= 16
      BY TestMultiN2HandoverIs
  <2> HIDE DEF n
  <2>4. \A k \in 1..16 : Proper(TestMultiN2Handover[k], k, n)
      BY <1>7, <2>3 DEF Proper
  <2>5. \A k \in 1..n : k \in 1..16 \/ k \in 17..n
      BY <2>3
  <2>6. \A k \in 1..n : Proper(TestMultiN2Handover[k], k, n)
      BY <2>2, <2>4, <2>5
  <2> QED
      BY <2>3, <2>6 DEF n, ProperScript
<1>9. ProperScript(TestRegistration) /\ ProperScript(SingleRegistration)
    BY <1>1, <1>2, TestRegistrationIs, SingleRegistrationIs DEF ProperScript
<1>10. ProperScript(TestN2Handover) /\ ProperScript(TestPaging)
    BY <1>3, <1>4, TestN2HandoverIs, TestPagingIs DEF ProperScript
<1>11. ProperScript(UeRanEmulator) /\ ProperScript(XioRegistration)
    BY <1>5, <1>6, UeRanEmulatorIs, XioRegistrationIs DEF ProperScript
<1> QED
    BY <1>8, <1>9, <1>10, <1>11, ScriptIs DEF Procedures

-----------------------------------------------------------------------------
(* Types                                                                    *)

Nas       == {NoNas} \cup {<< p >> : p \in ProtectedMessage}
Messages  == [type : Types, id : Nat, nas : Nas]
Queues    == [Conn -> Seq(Messages)]
Context   == [id : Nat, ul : Count, dl : Count]
AmfStates == [ids : [Conn -> Nat], next : Nat, ul : Count, dl : Count,
              asked : [Conn -> SUBSET Response], configured : BOOLEAN, late : BOOLEAN]

Typed ==
    /\ flow \in Flows
    /\ pc \in 1..Len(Script(flow)) + 1
    /\ halted \in BOOLEAN
    /\ ctx \in [{"ue", "target"} -> Context]
    /\ targetId \in Nat
    /\ up \in Queues /\ down \in Queues
    /\ amf \in AmfStates

LEMMA CountsAreTyped ==
    /\ ZeroCount \in Count
    /\ \A c \in Count : AddOne(c) \in Count /\ c.sqn \in 0..SqnMod - 1 /\ c.ovf \in 0..OvfMod - 1
    /\ \A c \in Count, sqn \in 0..SqnMod - 1 : Estimate(c, sqn) \in Count
<1>1. ZeroCount \in Count
    BY WidthAssumption DEF Count, ZeroCount, SetCount
<1>2. \A c \in Count : c.sqn \in 0..SqnMod - 1 /\ c.ovf \in 0..OvfMod - 1
    BY DEF Count
<1>3. \A ovf \in 0..OvfMod - 1 : NextOverflow(ovf) \in 0..OvfMod - 1
    BY WidthAssumption DEF NextOverflow
<1>4. ASSUME NEW c \in Count PROVE AddOne(c) \in Count
  <2>1. CASE c.sqn + 1 = SqnMod
      BY <1>2, <1>3, <2>1, WidthAssumption DEF AddOne, SetCount, Count
  <2>2. CASE c.sqn + 1 # SqnMod
    <3>1. c.sqn + 1 \in 0..SqnMod - 1
        BY <1>2, <2>2, WidthAssumption
    <3> QED
        BY <2>2, <3>1 DEF AddOne, Count
  <2> QED
      BY <2>1, <2>2
<1>5. ASSUME NEW c \in Count, NEW sqn \in 0..SqnMod - 1 PROVE Estimate(c, sqn) \in Count
    BY <1>2, <1>3 DEF Estimate, SetCount, Count
<1> QED
    BY <1>1, <1>2, <1>4, <1>5

LEMMA MessagesAreTyped ==
    /\ \A count \in Count, new \in BOOLEAN : Protected(count, new) \in ProtectedMessage
    /\ \A type \in Types, id \in Nat, nas \in Nas : Message(type, id, nas) \in Messages
    /\ \A m \in Messages : m.type \in Types /\ m.id \in Nat /\ m.nas \in Nas
    /\ \A nas \in Nas : nas # NoNas => Head(nas) \in ProtectedMessage /\ nas = << Head(nas) >>
    /\ NoNas \in Nas /\ \A p \in ProtectedMessage : << p >> \in Nas /\ Head(<< p >>) = p /\ << p >> # NoNas
    /\ \A c \in Count, p \in ProtectedMessage : Decode(c, p) \in Count
<1>1. \A count \in Count, new \in BOOLEAN : Protected(count, new) \in ProtectedMessage
    BY CountsAreTyped DEF Protected, ProtectedMessage
<1>2. \A type \in Types, id \in Nat, nas \in Nas : Message(type, id, nas) \in Messages
    BY DEF Message, Messages
<1>3. \A m \in Messages : m.type \in Types /\ m.id \in Nat /\ m.nas \in Nas
    BY DEF Messages
<1>4. \A nas \in Nas : nas # NoNas => Head(nas) \in ProtectedMessage /\ nas = << Head(nas) >>
    BY DEF Nas
<1>5. NoNas \in Nas /\ \A p \in ProtectedMessage : << p >> \in Nas /\ Head(<< p >>) = p /\ << p >> # NoNas
    BY DEF Nas, NoNas
<1>6. ASSUME NEW c \in Count, NEW p \in ProtectedMessage PROVE Decode(c, p) \in Count
  <2>1. p.sqn \in 0..SqnMod - 1
      BY DEF ProtectedMessage
  <2> QED
      BY <2>1, CountsAreTyped DEF Decode
<1> QED
    BY <1>1, <1>2, <1>3, <1>4, <1>5, <1>6

LEMMA ContextsAreTyped ==
    ASSUME NEW c \in Context, NEW new \in BOOLEAN
    PROVE  /\ AfterEncode(c, new) \in Context
           /\ Encoded(c, new) \in ProtectedMessage
           /\ TargetCopy(c) = c
           /\ DeepCopy(c) \in Context
<1>1. StartCounts(c, new) \in Context
    BY CountsAreTyped DEF StartCounts, Context
<1>2. AfterEncode(c, new) \in Context
    BY <1>1, CountsAreTyped DEF AfterEncode, Context
<1>3. Encoded(c, new) \in ProtectedMessage
    BY <1>1, MessagesAreTyped DEF Encoded, Context
<1>4. DeepCopy(c) \in Context
    BY CountsAreTyped DEF DeepCopy, Context
<1>5. TargetCopy(c) = c
    BY DEF TargetCopy, DeepCopy, SetCount, Context, Count
<1> QED
    BY <1>2, <1>3, <1>4, <1>5

LEMMA QueuesAreTyped ==
    ASSUME NEW q \in Queues, NEW c \in Conn
    PROVE  /\ \A m \in Messages : [q EXCEPT ![c] = Append(@, m)] \in Queues
           /\ q[c] # <<>> => Head(q[c]) \in Messages /\ [q EXCEPT ![c] = Tail(@)] \in Queues
<1>1. q[c] \in Seq(Messages)
    BY DEF Queues
<1>2. \A m \in Messages : Append(q[c], m) \in Seq(Messages)
    BY <1>1
<1>3. q[c] # <<>> => Head(q[c]) \in Messages /\ Tail(q[c]) \in Seq(Messages)
    BY <1>1
<1> QED
    BY <1>2, <1>3 DEF Queues

\* The step at hand.
LEMMA StepIsTyped ==
    ASSUME Typed, ~Finished
    PROVE  /\ pc \in Nat /\ pc + 1 \in 1..Len(Script(flow)) + 1
           /\ Step \in Steps
           /\ Step.op = "recv" /\ Step.use = "session" => pc + 2 \in 1..Len(Script(flow)) + 1
<1>1. flow \in Procedures \cup {"TestMultiN2Handover"}
    BY FlowAssumption DEF Typed, Procedures
<1>2. ProperScript(Script(flow))
    BY <1>1, ScriptIsProper
<1>3. Len(Script(flow)) \in Nat /\ pc \in 1..Len(Script(flow))
    BY <1>2 DEF Typed, Finished, ProperScript
<1>4. Proper(Step, pc, Len(Script(flow)))
    BY <1>2, <1>3 DEF ProperScript, Step
<1> QED
    BY <1>3, <1>4 DEF Proper

LEMMA StepsByOp ==
    ASSUME NEW s \in Steps
    PROVE  /\ s.op \in {"send", "initial"} =>
                /\ s.conn \in Conn /\ s.type \in Types /\ s.shift \in Nat
                /\ s.who \in {"ue", "target"} \/ (s.who = "gnb" /\ s.op = "send" /\ s.nas = "none")
           /\ s.op = "recv" => s.conn \in Conn /\ s.type \in Types /\ s.use \in Uses
           /\ s.op \in {"copy", "setId"} => s.id \in Nat
<1>1. CASE s \in Writes
    BY <1>1 DEF Writes
<1>2. CASE s \in NGSetups
    BY <1>2 DEF NGSetups
<1>3. CASE s \in Reads
    BY <1>3 DEF Reads
<1>4. CASE s \in Copies
    BY <1>4 DEF Copies
<1> QED
    BY <1>1, <1>2, <1>3, <1>4 DEF Steps

LEMMA WriteKeepsTypes ==
    ASSUME Typed, Doing("send") \/ Doing("initial"), NEW id \in Nat, Write(id)
    PROVE  Typed'
<1>1. /\ Step.conn \in Conn /\ Step.type \in Types
      /\ Step.nas \in {"protected", "new"} => Step.who \in {"ue", "target"}
      /\ pc + 1 \in 1..Len(Script(flow)) + 1
    BY StepIsTyped, StepsByOp DEF Doing
<1>2. NasOf(Step) \in Nas /\ CtxAfter(Step) \in [{"ue", "target"} -> Context]
  <2>1. CASE Step.nas \in {"protected", "new"}
    <3>1. ctx[Step.who] \in Context /\ (Step.nas = "new") \in BOOLEAN
        BY <1>1, <2>1 DEF Typed
    <3>2. /\ Encoded(ctx[Step.who], Step.nas = "new") \in ProtectedMessage
          /\ AfterEncode(ctx[Step.who], Step.nas = "new") \in Context
        BY <3>1, ContextsAreTyped
    <3>3. NasOf(Step) \in Nas
        BY <2>1, <3>2, MessagesAreTyped DEF NasOf
    <3> QED
        BY <1>1, <2>1, <3>2, <3>3 DEF CtxAfter, Typed
  <2>2. CASE Step.nas \notin {"protected", "new"}
      BY <2>2, MessagesAreTyped DEF NasOf, CtxAfter, Typed
  <2> QED
      BY <2>1, <2>2
<1>3. Message(Step.type, id, NasOf(Step)) \in Messages
    BY <1>1, <1>2, MessagesAreTyped
<1>4. up' \in Queues
    BY <1>1, <1>3, QueuesAreTyped DEF Write, Typed
<1> QED
    BY <1>1, <1>2, <1>4 DEF Write, Typed

LEMMA ReadKeepsTypes ==
    ASSUME Typed, ReadBlindly \/ ReadExpected \/ ReadUnexpected \/ TimeOut
    PROVE  Typed'
<1>1. Doing("recv")
    BY DEF ReadBlindly, ReadExpected, ReadUnexpected, TimeOut
<1>2. /\ Step.conn \in Conn
      /\ pc + 1 \in 1..Len(Script(flow)) + 1
      /\ Step.use = "session" => pc + 2 \in 1..Len(Script(flow)) + 1
    BY <1>1, StepIsTyped, StepsByOp DEF Doing
<1>3. Read(Step.conn) => Head(down[Step.conn]) \in Messages /\ down' \in Queues
    BY <1>2, QueuesAreTyped DEF Read, Typed
<1>4. CASE ReadBlindly
    BY <1>2, <1>3, <1>4 DEF ReadBlindly, Typed
<1>5. CASE ReadExpected
  <2>1. Decoded(Head(down[Step.conn])) \in [{"ue", "target"} -> Context]
    <3> DEFINE m == Head(down[Step.conn])
    <3>1. m.id \in Nat /\ (m.nas # NoNas => Head(m.nas) \in ProtectedMessage)
        BY <1>3, <1>5, MessagesAreTyped DEF ReadExpected
    <3>2. ctx["ue"].id \in Nat /\ ctx["ue"].dl \in Count
        BY DEF Typed, Context
    <3>3. m.nas # NoNas => Decode(ctx["ue"].dl, Head(m.nas)) \in Count
        BY <3>1, <3>2, MessagesAreTyped
    <3> HIDE DEF m
    <3> QED
        BY <3>1, <3>2, <3>3 DEF Decoded, Typed, Context, m
  <2>2. Head(down[Step.conn]).id \in Nat
      BY <1>3, <1>5, MessagesAreTyped DEF ReadExpected
  <2> QED
      BY <1>2, <1>3, <1>5, <2>1, <2>2 DEF ReadExpected, Typed
<1>6. CASE ReadUnexpected
    BY <1>2, <1>3, <1>6 DEF ReadUnexpected, GiveUpReading, Typed
<1>7. CASE TimeOut
    BY <1>2, <1>7 DEF TimeOut, GiveUpReading, Typed
<1> QED
    BY <1>4, <1>5, <1>6, <1>7

LEMMA CopyKeepsTypes ==
    ASSUME Typed, CopyForTarget \/ CopyTargetBack \/ AssumeId
    PROVE  Typed'
<1>1. Doing("copy") \/ Doing("copyBack") \/ Doing("setId")
    BY DEF CopyForTarget, CopyTargetBack, AssumeId
<1>2. pc + 1 \in 1..Len(Script(flow)) + 1 /\ (Step.op \in {"copy", "setId"} => Step.id \in Nat)
    BY <1>1, StepIsTyped, StepsByOp DEF Doing
<1>3. ctx["ue"] \in Context /\ ctx["target"] \in Context
    BY DEF Typed
<1>4. CASE CopyForTarget
  <2>1. \A id \in Nat : [TargetCopy(ctx["ue"]) EXCEPT !.id = id] \in Context
      BY <1>3, ContextsAreTyped DEF Context
  <2> QED
      BY <1>2, <1>4, <2>1 DEF CopyForTarget, Doing, Typed
<1>5. CASE CopyTargetBack
  <2>1. DeepCopy(ctx["target"]) \in Context
      BY <1>3, ContextsAreTyped
  <2> QED
      BY <1>2, <1>5, <2>1 DEF CopyTargetBack, Typed
<1>6. CASE AssumeId
    BY <1>2, <1>3, <1>6 DEF AssumeId, Doing, Typed, Context
<1> QED
    BY <1>4, <1>5, <1>6

LEMMA ResponseIs ==
    \A type \in DOMAIN ResponseTo : ResponseTo[type] \in Response
BY DEF Response

LEMMA AnswerKeepsTypes ==
    ASSUME Typed, NEW a \in AmfStates, NEW d \in Conn, NEW type \in Types, NEW new \in BOOLEAN,
           Answer(a, d, type) \/ AnswerNas(a, d, type, new)
    PROVE  down' \in Queues /\ amf' \in AmfStates
<1>1. /\ \A b \in AmfStates : Asking(b, d, type) \in AmfStates
  <2> SUFFICES ASSUME NEW b \in AmfStates PROVE Asking(b, d, type) \in AmfStates
      OBVIOUS
  <2>1. CASE type \in DOMAIN ResponseTo
    <3>1. b.asked[d] \cup {ResponseTo[type]} \in SUBSET Response
        BY <2>1, ResponseIs DEF AmfStates
    <3>2. [b.asked EXCEPT ![d] = @ \cup {ResponseTo[type]}] \in [Conn -> SUBSET Response]
        BY <3>1 DEF AmfStates
    <3> HIDE DEF ResponseTo
    <3> QED
        BY <2>1, <3>2 DEF Asking, AmfStates
  <2>2. CASE type \notin DOMAIN ResponseTo
      BY <2>2 DEF Asking
  <2> QED
      BY <2>1, <2>2
<1>2. a.ids[d] \in Nat /\ a.dl \in Count
    BY DEF AmfStates
<1>3. CASE Answer(a, d, type)
  <2>1. Message(type, a.ids[d], NoNas) \in Messages
      BY <1>2, MessagesAreTyped
  <2> QED
      BY <1>1, <1>3, <2>1, QueuesAreTyped DEF Answer, Typed
<1>4. CASE AnswerNas(a, d, type, new)
  <2>1. << Protected(a.dl, new) >> \in Nas
      BY <1>2, MessagesAreTyped
  <2>2. Message(type, a.ids[d], << Protected(a.dl, new) >>) \in Messages
      BY <1>2, <2>1, MessagesAreTyped
  <2>3. [a EXCEPT !.dl = AddOne(@)] \in AmfStates
      BY <1>2, CountsAreTyped DEF AmfStates
  <2> QED
      BY <1>1, <1>4, <2>2, <2>3, QueuesAreTyped DEF AnswerNas, Typed
<1> QED
    BY <1>3, <1>4

LEMMA AmfStatesAreTyped ==
    ASSUME Typed, NEW a \in AmfStates, NEW c \in Conn, up[c] # <<>>
    PROVE  /\ Heard(a, c) \in AmfStates
           /\ Answered(a, c) \in AmfStates
           /\ \A d \in Conn : WithNewId(a, d) \in AmfStates
           /\ [a EXCEPT !.ul = ZeroCount, !.dl = ZeroCount] \in AmfStates
           /\ [a EXCEPT !.configured = TRUE] \in AmfStates
           /\ [a EXCEPT !.ids[c] = NoId] \in AmfStates
<1>1. Head(up[c]) \in Messages
    BY QueuesAreTyped DEF Typed
<1>2. Heard(a, c) \in AmfStates
  <2>1. Head(up[c]).nas # NoNas => Decode(a.ul, Head(Head(up[c]).nas)) \in Count
      BY <1>1, MessagesAreTyped DEF AmfStates
  <2> QED
      BY <2>1 DEF Heard, AmfStates
<1>3. Answered(a, c) \in AmfStates
  <2>1. a.asked[c] \ {Head(up[c]).type} \in SUBSET Response
      BY DEF AmfStates
  <2>2. [a.asked EXCEPT ![c] = @ \ {Head(up[c]).type}] \in [Conn -> SUBSET Response]
      BY <2>1 DEF AmfStates
  <2> QED
      BY <2>2 DEF Answered, AmfStates
<1>4. ASSUME NEW d \in Conn PROVE WithNewId(a, d) \in AmfStates
  <2>1. a.next \in Nat /\ a.next + 1 \in Nat /\ a.ids \in [Conn -> Nat]
      BY DEF AmfStates
  <2>2. [a.ids EXCEPT ![d] = a.next] \in [Conn -> Nat]
      BY <2>1
  <2> QED
      BY <2>1, <2>2 DEF WithNewId, AmfStates
<1>5. [a EXCEPT !.ul = ZeroCount, !.dl = ZeroCount] \in AmfStates
    BY CountsAreTyped DEF AmfStates
<1>6. [a EXCEPT !.configured = TRUE] \in AmfStates /\ [a EXCEPT !.ids[c] = NoId] \in AmfStates
    BY DEF AmfStates, NoId
<1> QED
    BY <1>2, <1>3, <1>4, <1>5, <1>6

\* Every action of the AMF takes the oldest message of an association.
LEMMA AmfConsumes ==
    ASSUME NEW c \in Conn, Amf(c)
    PROVE  /\ up[c] # <<>> /\ up' = [up EXCEPT ![c] = Tail(@)]
           /\ UNCHANGED <<flow, pc, halted, ctx, targetId>>
<1>1. Consume(c) /\ \E types : Got(c, types)
  <2>1. CASE AmfSetsUp(c) \/ AmfChallenges(c) \/ AmfSecures(c) \/ AmfConfigures(c)
      BY <2>1, Zenon DEF AmfSetsUp, AmfChallenges, AmfSecures, AmfConfigures
  <2>2. CASE AmfAccepts(c) \/ AmfSetsUpSession(c) \/ AmfNotes(c)
      BY <2>2, Zenon DEF AmfAccepts, AmfSetsUpSession, AmfNotes
  <2>3. CASE AmfPreparesHandover(c) \/ AmfCommandsHandover(c) \/ AmfReleases(c) \/ AmfForgets(c)
      BY <2>3, Zenon DEF AmfPreparesHandover, AmfCommandsHandover, AmfReleases, AmfForgets
  <2> QED
      BY <2>1, <2>2, <2>3 DEF Amf
<1> QED
    BY <1>1 DEF Consume, Got

LEMMA AmfKeepsTypes ==
    ASSUME Typed, NEW c \in Conn, Amf(c)
    PROVE  Typed'
<1>1. /\ up[c] # <<>> /\ up' = [up EXCEPT ![c] = Tail(@)]
      /\ UNCHANGED <<flow, pc, halted, ctx, targetId>>
    BY AmfConsumes
<1>2. up' \in Queues
    BY <1>1, QueuesAreTyped DEF Typed
<1>3. amf \in AmfStates /\ Other(c) \in Conn
    BY DEF Typed, Other, Conn
<1> DEFINE Goal == down' \in Queues /\ amf' \in AmfStates
<1> SUFFICES Goal
    BY <1>1, <1>2 DEF Typed
<1> HIDE DEF Goal
<1>a. ASSUME NEW a \in AmfStates, NEW d \in Conn, NEW type \in Types, Answer(a, d, type) PROVE Goal
    BY <1>a, AnswerKeepsTypes DEF Goal
<1>b. ASSUME NEW a \in AmfStates, NEW d \in Conn, NEW type \in Types, NEW new \in BOOLEAN,
             AnswerNas(a, d, type, new)
      PROVE  Goal
    BY <1>b, AnswerKeepsTypes DEF Goal
<1>c. ASSUME NEW a \in AmfStates, Silence(a) PROVE Goal
    BY <1>c DEF Silence, Typed, Goal
<1>4. CASE AmfSetsUp(c)
  <2>1. Answer(amf, c, "NGSetupResponse") /\ "NGSetupResponse" \in Types
      BY <1>4 DEF AmfSetsUp, Types
  <2> QED
      BY <1>3, <1>a, <2>1
<1>5. CASE AmfChallenges(c)
  <2>1. Answer(WithNewId(amf, c), c, "AuthenticationRequest") /\ "AuthenticationRequest" \in Types
      BY <1>5 DEF AmfChallenges, Types
  <2> QED
      BY <1>1, <1>3, <1>a, <2>1, AmfStatesAreTyped
<1>6. CASE AmfSecures(c)
  <2>1. /\ AnswerNas([amf EXCEPT !.ul = ZeroCount, !.dl = ZeroCount], c, "SecurityModeCommand", TRUE)
        /\ "SecurityModeCommand" \in Types
      BY <1>6 DEF AmfSecures, Types
  <2>2. [amf EXCEPT !.ul = ZeroCount, !.dl = ZeroCount] \in AmfStates
      BY <1>1, <1>3, AmfStatesAreTyped
  <2> QED
      BY <1>b, <2>1, <2>2
<1>7. CASE AmfAccepts(c)
  <2>1. PICK a \in {Heard(amf, c), Heard(WithNewId(amf, c), c)} :
            AnswerNas(a, c, "InitialContextSetupRequest", FALSE)
      BY <1>7 DEF AmfAccepts
  <2>4. WithNewId(amf, c) \in AmfStates
      BY <1>1, <1>3, AmfStatesAreTyped
  <2>5. Heard(amf, c) \in AmfStates /\ Heard(WithNewId(amf, c), c) \in AmfStates
      BY <1>1, <1>3, <2>4, AmfStatesAreTyped
  <2>2. a \in AmfStates
      BY <2>1, <2>5
  <2>3. "InitialContextSetupRequest" \in Types
      BY DEF Types
  <2> QED
      BY <1>b, <2>1, <2>2, <2>3
<1>8. CASE AmfConfigures(c)
  <2>1. Heard(amf, c) \in AmfStates /\ [Heard(amf, c) EXCEPT !.configured = TRUE] \in AmfStates
      BY <1>1, <1>3, AmfStatesAreTyped
  <2>2. CASE amf.configured
      BY <1>8, <1>c, <2>1, <2>2 DEF AmfConfigures
  <2>3. CASE ~amf.configured
    <3>1. AnswerNas([Heard(amf, c) EXCEPT !.configured = TRUE], c, "ConfigurationUpdateCommand", FALSE)
        BY <1>8, <2>3 DEF AmfConfigures
    <3>2. "ConfigurationUpdateCommand" \in Types
        BY DEF Types
    <3> QED
        BY <1>b, <2>1, <3>1, <3>2
  <2> QED
      BY <2>2, <2>3
<1>9. CASE AmfSetsUpSession(c)
  <2>1. AnswerNas(Heard(amf, c), c, "PDUSessionResourceSetupRequest", FALSE)
      BY <1>9 DEF AmfSetsUpSession
  <2>2. Heard(amf, c) \in AmfStates /\ "PDUSessionResourceSetupRequest" \in Types
      BY <1>1, <1>3, AmfStatesAreTyped DEF Types
  <2> QED
      BY <1>b, <2>1, <2>2
<1>10. CASE AmfNotes(c)
  <2>1. Silence(Answered(amf, c)) /\ Answered(amf, c) \in AmfStates
      BY <1>1, <1>3, <1>10, AmfStatesAreTyped DEF AmfNotes
  <2> QED
      BY <1>c, <2>1
<1>11. CASE AmfPreparesHandover(c)
  <2>1. /\ Answer(WithNewId(amf, Other(c)), Other(c), "HandoverRequest")
        /\ WithNewId(amf, Other(c)) \in AmfStates /\ "HandoverRequest" \in Types
      BY <1>1, <1>3, <1>11, AmfStatesAreTyped DEF AmfPreparesHandover, Types
  <2> QED
      BY <1>3, <1>a, <2>1
<1>12. CASE AmfCommandsHandover(c)
  <2>1. /\ Answer(Answered(amf, c), Other(c), "HandoverCommand")
        /\ Answered(amf, c) \in AmfStates /\ "HandoverCommand" \in Types
      BY <1>1, <1>3, <1>12, AmfStatesAreTyped DEF AmfCommandsHandover, Types
  <2> QED
      BY <1>3, <1>a, <2>1
<1>13. CASE AmfReleases(c)
  <2>1. PICK d \in {c, Other(c)} : Answer(amf, d, "UEContextReleaseCommand")
      BY <1>13 DEF AmfReleases
  <2>2. d \in Conn /\ "UEContextReleaseCommand" \in Types
      BY <1>3 DEF Types
  <2> QED
      BY <1>3, <1>a, <2>1, <2>2
<1>14. CASE AmfForgets(c)
  <2>1. PICK a \in {[Answered(amf, c) EXCEPT !.ids[c] = NoId], amf} :
            Answer(a, c, "Paging") \/ Silence(a)
      BY <1>14 DEF AmfForgets
  <2>3. Answered(amf, c) \in AmfStates
      BY <1>1, <1>3, AmfStatesAreTyped
  <2>4. [Answered(amf, c) EXCEPT !.ids[c] = NoId] \in AmfStates
      BY <1>1, <1>3, <2>3, AmfStatesAreTyped
  <2>2. a \in AmfStates /\ "Paging" \in Types
      BY <1>3, <2>1, <2>4 DEF Types
  <2> QED
      BY <1>a, <1>c, <2>1, <2>2
<1> QED
    BY <1>4, <1>5, <1>6, <1>7, <1>8, <1>9, <1>10, <1>11, <1>12, <1>13, <1>14 DEF Amf

LEMMA StepKeepsTypes ==
    ASSUME Typed, [Next]_vars
    PROVE  Typed'
<1>1. CASE WriteInitial
    BY <1>1, WriteKeepsTypes DEF WriteInitial, NoId
<1>2. CASE WriteAssociated
  <2>1. Step.who \in {"ue", "target"} /\ Step.shift \in Nat
      BY <1>2, StepIsTyped, StepsByOp DEF WriteAssociated, Doing
  <2>2. ctx[Step.who].id + Step.shift \in Nat
      BY <2>1 DEF Typed, Context
  <2> QED
      BY <1>2, <2>2, WriteKeepsTypes DEF WriteAssociated
<1>3. CASE ReadBlindly \/ ReadExpected \/ ReadUnexpected \/ TimeOut
    BY <1>3, ReadKeepsTypes
<1>4. CASE CopyForTarget \/ CopyTargetBack \/ AssumeId
    BY <1>4, CopyKeepsTypes
<1>5. CASE \E c \in Conn : Amf(c)
    BY <1>5, AmfKeepsTypes
<1>6. CASE UNCHANGED vars
    BY <1>6 DEF Typed, vars
<1> QED
    BY <1>1, <1>2, <1>3, <1>4, <1>5, <1>6 DEF Next, Harness, Over

LEMMA InitIsTyped == Init => Typed
<1> SUFFICES ASSUME Init PROVE Typed
    OBVIOUS
<1>1. flow \in Flows /\ pc \in 1..Len(Script(flow)) + 1
  <2>1. flow \in Procedures \cup {"TestMultiN2Handover"} /\ flow \in Flows /\ pc = 1
      BY FlowAssumption DEF Init, Procedures
  <2>2. Len(Script(flow)) \in Nat
      BY <2>1, ScriptIsProper DEF ProperScript
  <2> QED
      BY <2>1, <2>2
<1>2. PICK first \in Nat, late \in BOOLEAN :
        amf = [ids |-> [c \in Conn |-> NoId], next |-> first, ul |-> ZeroCount, dl |-> ZeroCount,
               asked |-> [c \in Conn |-> {}], configured |-> FALSE, late |-> late]
    BY FlowAssumption DEF Init
<1>3. amf \in AmfStates
    BY <1>2, CountsAreTyped DEF AmfStates, NoId
<1>4. ctx \in [{"ue", "target"} -> Context]
    BY CountsAreTyped DEF Init, Context
<1>5. up \in Queues /\ down \in Queues
    BY DEF Init, Queues
<1> QED
    BY <1>1, <1>3, <1>4, <1>5 DEF Init, Typed, NoId

LEMMA TypedIsTypeOK == Typed => TypeOK
<1> SUFFICES ASSUME Typed PROVE TypeOK
    OBVIOUS
<1>1. ASSUME NEW c \in Conn, NEW q \in {up[c], down[c]}, NEW i \in DOMAIN q
      PROVE  q[i].id \in Nat /\ (q[i].nas = NoNas \/ Head(q[i].nas) \in ProtectedMessage)
  <2>1. q \in Seq(Messages)
      BY DEF Typed, Queues
  <2>2. q[i] \in Messages
      BY <2>1
  <2> QED
      BY <2>2, MessagesAreTyped
<1>2. ASSUME NEW who \in {"ue", "target"}
      PROVE  ctx[who].id \in Nat /\ ctx[who].ul \in Count /\ ctx[who].dl \in Count
    BY DEF Typed, Context
<1> QED
    BY <1>1, <1>2 DEF Typed, TypeOK, AmfStates

\* The types of TypeOK, for every number of rounds, every first identifier and
\* every width of the counts: in particular no procedure runs past its last
\* step, not even where it gives up a read and skips the step that follows
\* (EstablishPduSession, registration_test.go).
THEOREM TypeCorrect == Spec => []TypeOK
<1>1. Init => Typed
    BY InitIsTyped
<1>2. Typed /\ [Next]_vars => Typed'
    BY StepKeepsTypes
<1>3. Typed => TypeOK
    BY TypedIsTypeOK
<1> QED
    BY <1>1, <1>2, <1>3, PTL DEF Spec

-----------------------------------------------------------------------------
(* Counts: where a script protects messages, and where it reads them        *)

Handovers == {"TestN2Handover", "SingleN2Handover"}
Sessions  == {"SingleRegistration"} \cup Handovers

Tagged == {"SecurityModeComplete", "RegistrationComplete", "PduSessionRequest",
           "MobilityRegistration", "ServiceRequest"}
Protects(s) == s.op \in {"send", "initial"} /\ s.nas \in {"protected", "new"}

\* Step new takes a new security context into use.
NewAt(f) == IF f \in Handovers THEN 9 ELSE 7

\* What is known of step k, called s, of procedure f: handovers are prepared
\* in steps 17 to 19, and step NewAt(f) + 6 decodes the accepted session.
InOrder(f, s, k) ==
    /\ s.op \in {"send", "initial"} =>
         /\ Protects(s) <=> s.type \in Tagged
         /\ s.type = "AuthenticationResponse" => k = NewAt(f) - 2 /\ s.conn = "src"
         /\ s.type = "HandoverRequired" => f \in Handovers /\ k = 17
    /\ Protects(s) =>
         /\ k >= NewAt(f) /\ (s.nas = "new" <=> k = NewAt(f))
         /\ IF f \in Handovers /\ k > 17 THEN k > 19 /\ s.conn = "tgt" /\ s.who = "target"
                               ELSE s.conn = "src" /\ s.who = "ue"
         /\ f \in Sessions /\ k < NewAt(f) + 6 => k \in {NewAt(f), NewAt(f) + 3, NewAt(f) + 4}
    /\ s.op = "recv" =>
         /\ s.use = "target" => f \in Handovers /\ k = 18 /\ s.conn = "tgt" /\ s.type = "HandoverRequest"
         /\ s.use \in {"challenge", "command"} =>
              s.conn = "src" /\ s.type \in {"AuthenticationRequest", "SecurityModeCommand"}
         /\ s.use = "session" =>
              f \in Sessions /\ k = NewAt(f) + 6 /\ s.conn = "src" /\ s.type = "PDUSessionResourceSetupRequest"
    /\ s.op # "copyBack"
    /\ s.op = "copy" => f \in Handovers /\ k = 19
    /\ f \in Handovers /\ k = 18 => s.op = "recv" /\ s.use = "target"
    /\ f \in Handovers /\ k = 19 => s.op = "copy"
    /\ k = NewAt(f) => Protects(s)

ScriptInOrder(f) == \A k \in 1..Len(Script(f)) : InOrder(f, Script(f)[k], k)

LEMMA ScriptsAreInOrder == \A f \in Procedures : ScriptInOrder(f)
<1> USE DEF Send, InitialUE, Recv, Copy, SetId, NoId, InOrder, Protects, Tagged, NewAt,
            Handovers, Sessions, SetsUp, Registers, OpensSession
<1>1. \A k \in 1..14 : InOrder("TestRegistration", TestRegistration[k], k)
    BY TestRegistrationIs
<1>2. \A k \in 1..14 : InOrder("SingleRegistration", SingleRegistration[k], k)
    BY SingleRegistrationIs
<1>3. \A k \in 1..28 : InOrder("TestN2Handover", TestN2Handover[k], k)
    BY TestN2HandoverIs DEF HandsOver
<1>4. \A k \in 1..28 : InOrder("SingleN2Handover", TestN2Handover[k], k)
    BY TestN2HandoverIs DEF HandsOver
<1>5. \A k \in 1..21 : InOrder("TestPaging", TestPaging[k], k)
    BY TestPagingIs DEF OpensSessionUnconfigured, IsPaged
<1>6. \A k \in 1..13 : InOrder("UeRanEmulator", UeRanEmulator[k], k)
    BY UeRanEmulatorIs DEF OpensSessionUnconfigured
<1>7. \A k \in 1..10 : InOrder("XioRegistration", XioRegistration[k], k)
    BY XioRegistrationIs
<1> HIDE DEF Send, InitialUE, Recv, Copy, SetId, NoId, InOrder, Protects, Tagged, NewAt,
             Handovers, Sessions, SetsUp, Registers, OpensSession
<1>8. ScriptInOrder("TestRegistration")
    BY <1>1, TestRegistrationIs, ScriptIs DEF ScriptInOrder
<1>9. ScriptInOrder("SingleRegistration")
    BY <1>2, SingleRegistrationIs, ScriptIs DEF ScriptInOrder
<1>10. ScriptInOrder("TestN2Handover")
    BY <1>3, TestN2HandoverIs, ScriptIs DEF ScriptInOrder
<1>11. ScriptInOrder("SingleN2Handover")
    BY <1>4, TestN2HandoverIs, ScriptIs DEF ScriptInOrder
<1>12. ScriptInOrder("TestPaging")
    BY <1>5, TestPagingIs, ScriptIs DEF ScriptInOrder
<1>13. ScriptInOrder("UeRanEmulator")
    BY <1>6, UeRanEmulatorIs, ScriptIs DEF ScriptInOrder
<1>14. ScriptInOrder("XioRegistration")
    BY <1>7, XioRegistrationIs, ScriptIs DEF ScriptInOrder
<1> QED
    BY <1>8, <1>9, <1>10, <1>11, <1>12, <1>13, <1>14 DEF Procedures

-----------------------------------------------------------------------------
(* Counts: the uplink                                                       *)

\* The AMF's uplink count after reading m, when it was a before.
Hears(a, m) ==
    IF m.type = "AuthenticationResponse" THEN ZeroCount
    ELSE IF m.nas = NoNas THEN a ELSE Decode(a, Head(m.nas))

\* e[i] is what the AMF, whose count is a, will have concluded from the first i
\* messages of q: of each the count it carries, and in the end the predecessor
\* of a count of next.
Concludes(e, q, a, next) ==
    /\ e \in [0..Len(q) -> Count]
    /\ e[0] = a
    /\ \A i \in 1..Len(q) :
         e[i] = Hears(e[i - 1], q[i]) /\ (q[i].nas # NoNas => e[i] = Head(q[i].nas).count)
    /\ AddOne(e[Len(q)]) \in next
Follows(q, a, next) == \E e : Concludes(e, q, a, next)

\* Messages that leave the AMF's uplink count alone.
Quiet(m) == m.nas = NoNas /\ m.type # "AuthenticationResponse"
AllQuiet(q) == \A i \in 1..Len(q) : Quiet(q[i])

\* The association the procedure protects messages on, and the context it
\* does so with, once the copy for the target is made.
Moved  == flow \in Handovers /\ pc > 18
Copied == flow \in Handovers /\ pc > 19
Here   == IF Moved THEN "tgt" ELSE "src"
There  == IF Moved THEN "src" ELSE "tgt"

\* The count of the next protected message; the one in a new context starts at 0.
NextCount == IF Copied THEN ctx["target"].ul ELSE ctx["ue"].ul
NextCounts == IF pc <= NewAt(flow) THEN Count ELSE {NextCount}

UplinkAgrees == Follows(up[Here], amf.ul, NextCounts) /\ AllQuiet(up[There])

TaggedAreProtected ==
    \A c \in Conn : \A i \in 1..Len(up[c]) : up[c][i].nas # NoNas <=> up[c][i].type \in Tagged

\* When the target is asked, the AMF has read all that was protected for the source.
AskedAfterAll ==
    /\ \A i \in 1..Len(up["src"]) : up["src"][i].type = "HandoverRequired" =>
         /\ flow \in Handovers /\ pc > 17
         /\ \A j \in i + 1..Len(up["src"]) : Quiet(up["src"][j])
    /\ \A i \in 1..Len(down["tgt"]) : down["tgt"][i].type = "HandoverRequest" =>
         flow \in Handovers /\ pc > 17 /\ AllQuiet(up["src"])

-----------------------------------------------------------------------------
(* Counts: the downlink                                                     *)

\* The accepted session is not decoded yet.
Undecoded == flow \in Sessions /\ pc <= NewAt(flow) + 6

\* How many downlink messages the AMF has protected at most when it has read
\* all that was sent before the step at hand.
MostSent ==
    IF pc <= NewAt(flow) - 2 THEN 0 ELSE IF pc <= NewAt(flow) THEN 1
    ELSE IF pc <= NewAt(flow) + 3 THEN 2 ELSE IF pc <= NewAt(flow) + 4 THEN 3 ELSE 4

\* d[i] bounds their number after the first i messages of q, and d[0] the count
\* a of the next one, up to 4: by then the accepted session has been sent.
Small(a, n) == n < 4 => a.ovf = 0 /\ a.sqn <= n
Sent(n, m) == IF m.type = "AuthenticationResponse" THEN 1 ELSE IF m.nas = NoNas THEN n ELSE n + 1
Bounds(d, q, a, most) ==
    /\ d \in [0..Len(q) -> 0..4]
    /\ Small(a, d[0])
    /\ \A i \in 1..Len(q) : d[i] = Sent(d[i - 1], q[i])
    /\ d[Len(q)] <= most
Bounded(q, a, most) == \E d : Bounds(d, q, a, most)

\* What the UE finds in a message m that it decodes, and in which state it
\* decodes the accepted session.
ReadsAgree(m) ==
    /\ m.type = "AuthenticationRequest" => m.nas = NoNas
    /\ m.type = "SecurityModeCommand" => m.nas = << Protected(ZeroCount, TRUE) >>
    /\ m.nas # NoNas => Head(m.nas).sqn = Head(m.nas).count.sqn
UndecodedAgrees ==
    /\ ctx["ue"].dl = ZeroCount
    /\ Bounded(up["src"], amf.dl, MostSent)
    /\ \A i \in 1..Len(down["src"]) :
         down["src"][i].nas # NoNas => Head(down["src"][i].nas).count.ovf = 0
DownlinkAgrees ==
    /\ \A i \in 1..Len(down["src"]) : ReadsAgree(down["src"][i])
    /\ Undecoded => UndecodedAgrees

\* The inductive invariant.
CountsAgree ==
    /\ Typed /\ flow \in Procedures
    /\ UplinkAgrees /\ TaggedAreProtected /\ AskedAfterAll /\ DownlinkAgrees

-----------------------------------------------------------------------------
(* Counts: reading and writing a queue                                      *)

LEMMA HearsIsTyped ==
    ASSUME NEW a \in Count, NEW m \in Messages
    PROVE  Hears(a, m) \in Count
<1>1. m.nas # NoNas => Head(m.nas) \in ProtectedMessage
    BY MessagesAreTyped
<1> QED
    BY <1>1, CountsAreTyped, MessagesAreTyped DEF Hears

\* The sequence number of the next count tells it from all but those SqnMod away.
LEMMA EstimateNext ==
    ASSUME NEW c \in Count
    PROVE  Estimate(c, AddOne(c).sqn) = AddOne(c)
<1>1. c.sqn \in 0..SqnMod - 1 /\ SqnMod \in Nat /\ SqnMod > 1
    BY WidthAssumption DEF Count
<1>2. CASE c.sqn + 1 = SqnMod
  <2>1. AddOne(c) = SetCount(NextOverflow(c.ovf), 0)
      BY <1>2 DEF AddOne
  <2>2. c.sqn > 0 /\ AddOne(c).sqn = 0
      BY <1>1, <1>2, <2>1 DEF SetCount
  <2> QED
      BY <2>1, <2>2 DEF Estimate
<1>3. CASE c.sqn + 1 # SqnMod
  <2>1. AddOne(c) = [c EXCEPT !.sqn = c.sqn + 1]
      BY <1>3 DEF AddOne
  <2>2. AddOne(c).sqn = c.sqn + 1
      BY <2>1 DEF Count
  <2>3. ~(c.sqn > c.sqn + 1)
      BY <1>1
  <2> QED
      BY <2>1, <2>2, <2>3 DEF Estimate
<1> QED
    BY <1>2, <1>3

LEMMA FollowsTail ==
    ASSUME NEW q \in Seq(Messages), q # <<>>, NEW a, NEW next, Follows(q, a, next)
    PROVE  /\ Follows(Tail(q), Hears(a, Head(q)), next)
           /\ Head(q).nas # NoNas => Hears(a, Head(q)) = Head(Head(q).nas).count
<1>1. PICK e : Concludes(e, q, a, next)
    BY DEF Follows
<1> DEFINE t == Tail(q)
           rest == [i \in 0..Len(t) |-> e[i + 1]]
<1>2. /\ Len(q) \in Nat /\ Len(q) >= 1 /\ Len(t) = Len(q) - 1
      /\ Head(q) = q[1] /\ \A i \in 1..Len(t) : t[i] = q[i + 1]
    OBVIOUS
<1>3. e[1] = Hears(a, q[1]) /\ (q[1].nas # NoNas => e[1] = Head(q[1].nas).count)
    BY <1>1, <1>2 DEF Concludes
<1> HIDE DEF t
<1>4. rest \in [0..Len(t) -> Count]
    BY <1>1, <1>2 DEF Concludes
<1>5. rest[0] = Hears(a, Head(q)) /\ rest[Len(t)] = e[Len(q)]
    BY <1>2, <1>3
<1>6. ASSUME NEW i \in 1..Len(t)
      PROVE  rest[i] = Hears(rest[i - 1], t[i]) /\ (t[i].nas # NoNas => rest[i] = Head(t[i].nas).count)
  <2>1. i + 1 \in 1..Len(q) /\ (i + 1) - 1 = i /\ t[i] = q[i + 1]
      BY <1>2
  <2>2. e[i + 1] = Hears(e[i], t[i]) /\ (t[i].nas # NoNas => e[i + 1] = Head(t[i].nas).count)
      BY <1>1, <2>1 DEF Concludes
  <2>3. rest[i] = e[i + 1] /\ rest[i - 1] = e[i]
      BY <1>2
  <2> HIDE DEF rest
  <2> QED
      BY <2>2, <2>3
<1> HIDE DEF rest
<1>7. Concludes(rest, t, Hears(a, Head(q)), next)
    BY <1>1, <1>4, <1>5, <1>6 DEF Concludes
<1> QED
    BY <1>2, <1>3, <1>7 DEF Follows, t

LEMMA FollowsAppend ==
    ASSUME NEW q \in Seq(Messages), NEW m \in Messages, NEW a, NEW next, NEW after,
           Follows(q, a, next),
           \A x \in Count : AddOne(x) \in next =>
               /\ m.nas # NoNas => Hears(x, m) = Head(m.nas).count
               /\ AddOne(Hears(x, m)) \in after
    PROVE  Follows(Append(q, m), a, after)
<1>1. PICK e : Concludes(e, q, a, next)
    BY DEF Follows
<1> DEFINE n == Len(q)
           l == Append(q, m)
           longer == [i \in 0..n + 1 |-> IF i = n + 1 THEN Hears(e[n], m) ELSE e[i]]
<1>2. n \in Nat /\ Len(l) = n + 1 /\ l[n + 1] = m /\ \A i \in 1..n : l[i] = q[i]
    OBVIOUS
<1>3. e[n] \in Count /\ AddOne(e[n]) \in next
    BY <1>1, <1>2 DEF Concludes
<1>4. Hears(e[n], m) \in Count
    BY <1>3, HearsIsTyped
<1> HIDE DEF l, n
<1>5. longer \in [0..n + 1 -> Count] /\ longer[0] = a /\ longer[n + 1] = Hears(e[n], m)
    BY <1>1, <1>2, <1>4 DEF Concludes, n
<1>6. ASSUME NEW i \in 1..n + 1
      PROVE  longer[i] = Hears(longer[i - 1], l[i]) /\ (l[i].nas # NoNas => longer[i] = Head(l[i].nas).count)
  <2>1. CASE i = n + 1
    <3>1. longer[i] = Hears(e[n], m) /\ longer[i - 1] = e[n] /\ l[i] = m
        BY <1>2, <2>1
    <3> QED
        BY <1>3, <3>1
  <2>2. CASE i \in 1..n
    <3>1. longer[i] = e[i] /\ longer[i - 1] = e[i - 1] /\ l[i] = q[i]
        BY <1>2, <2>2
    <3>2. e[i] = Hears(e[i - 1], q[i]) /\ (q[i].nas # NoNas => e[i] = Head(q[i].nas).count)
        BY <1>1, <2>2 DEF Concludes, n
    <3> HIDE DEF longer
    <3> QED
        BY <3>1, <3>2
  <2> QED
      BY <1>2, <2>1, <2>2
<1>7. AddOne(Hears(e[n], m)) \in after
    BY <1>3
<1> HIDE DEF longer
<1>8. Concludes(longer, l, a, after)
    BY <1>2, <1>5, <1>6, <1>7 DEF Concludes
<1> QED
    BY <1>8 DEF Follows, l

LEMMA QuietFollows ==
    ASSUME NEW q \in Seq(Messages), AllQuiet(q), NEW a \in Count, NEW next, AddOne(a) \in next
    PROVE  Follows(q, a, next)
<1> DEFINE e == [i \in 0..Len(q) |-> a]
<1>1. Len(q) \in Nat
    OBVIOUS
<1>2. e \in [0..Len(q) -> Count] /\ e[0] = a /\ AddOne(e[Len(q)]) \in next
    BY <1>1
<1>3. \A i \in 1..Len(q) : q[i].nas = NoNas /\ e[i] = Hears(e[i - 1], q[i])
    BY <1>1 DEF AllQuiet, Quiet, Hears
<1> HIDE DEF e
<1> QED
    BY <1>2, <1>3 DEF Concludes, Follows

LEMMA FollowsQuiet ==
    ASSUME NEW q \in Seq(Messages), AllQuiet(q), NEW a, NEW next, Follows(q, a, next)
    PROVE  AddOne(a) \in next
<1>1. PICK e : Concludes(e, q, a, next)
    BY DEF Follows
<1> DEFINE Same == {i \in Nat : i <= Len(q) => e[i] = a}
<1>2. 0 \in Same
    BY <1>1 DEF Concludes
<1>3. ASSUME NEW i \in Nat, i \in Same
      PROVE  i + 1 \in Same
  <2> SUFFICES ASSUME i + 1 <= Len(q) PROVE e[i + 1] = a
      OBVIOUS
  <2>1. i + 1 \in 1..Len(q) /\ (i + 1) - 1 = i /\ e[i] = a
      BY <1>3
  <2>2. e[i + 1] = Hears(e[i], q[i + 1])
      BY <1>1, <2>1 DEF Concludes
  <2> QED
      BY <2>1, <2>2 DEF AllQuiet, Quiet, Hears
<1> HIDE DEF Same
<1>4. \A i \in Nat : i \in Same
    BY <1>2, <1>3, Induction
<1>5. Len(q) \in Nat
    OBVIOUS
<1>6. e[Len(q)] = a
    BY <1>4, <1>5 DEF Same
<1> QED
    BY <1>1, <1>6 DEF Concludes

LEMMA QuietTail ==
    ASSUME NEW q \in Seq(Messages), q # <<>>, AllQuiet(q), NEW a
    PROVE  AllQuiet(Tail(q)) /\ Hears(a, Head(q)) = a
<1>1. Quiet(Head(q))
    BY DEF AllQuiet
<1> QED
    BY <1>1 DEF AllQuiet, Quiet, Hears

\* Reading the first message of a queue, with amf.dl a before and b after.
LEMMA BoundedTail ==
    ASSUME NEW q \in Seq(Messages), q # <<>>, NEW a, NEW b, NEW most \in 0..4, Bounded(q, a, most),
           \A n \in 0..4 : Small(a, n) /\ Sent(n, Head(q)) \in 0..4 => Small(b, Sent(n, Head(q)))
    PROVE  Bounded(Tail(q), b, most)
<1>1. PICK d : Bounds(d, q, a, most)
    BY DEF Bounded
<1> DEFINE t == Tail(q)
           rest == [i \in 0..Len(t) |-> d[i + 1]]
<1>2. /\ Len(q) \in Nat /\ Len(q) >= 1 /\ Len(t) = Len(q) - 1
      /\ Head(q) = q[1] /\ \A i \in 1..Len(t) : t[i] = q[i + 1]
    OBVIOUS
<1>3. d[0] \in 0..4 /\ d[1] \in 0..4 /\ Small(a, d[0]) /\ d[1] = Sent(d[0], Head(q))
    BY <1>1, <1>2 DEF Bounds
<1>4. Small(b, d[1])
    BY <1>3
<1> HIDE DEF t
<1>5. rest \in [0..Len(t) -> 0..4]
    BY <1>1, <1>2 DEF Bounds
<1>6. rest[0] = d[1] /\ rest[Len(t)] = d[Len(q)]
    BY <1>2
<1>7. ASSUME NEW i \in 1..Len(t) PROVE rest[i] = Sent(rest[i - 1], t[i])
  <2>1. i + 1 \in 1..Len(q) /\ (i + 1) - 1 = i /\ t[i] = q[i + 1]
      BY <1>2
  <2>2. d[i + 1] = Sent(d[i], t[i])
      BY <1>1, <2>1 DEF Bounds
  <2>3. rest[i] = d[i + 1] /\ rest[i - 1] = d[i]
      BY <1>2
  <2> HIDE DEF rest
  <2> QED
      BY <2>2, <2>3
<1> HIDE DEF rest
<1>8. Bounds(rest, t, b, most)
    BY <1>1, <1>4, <1>5, <1>6, <1>7 DEF Bounds
<1> QED
    BY <1>8 DEF Bounded, t

\* A protected message that is yet to be read is one of the first four.
LEMMA BoundedHead ==
    ASSUME NEW q \in Seq(Messages), q # <<>>, NEW a \in Count, NEW most \in 0..4, Bounded(q, a, most),
           Head(q).nas # NoNas, Head(q).type # "AuthenticationResponse"
    PROVE  a.ovf = 0
<1>1. PICK d : Bounds(d, q, a, most)
    BY DEF Bounded
<1>2. Len(q) \in Nat /\ Len(q) >= 1 /\ Head(q) = q[1]
    OBVIOUS
<1>3. d[0] \in 0..4 /\ d[1] \in 0..4 /\ Small(a, d[0]) /\ d[1] = Sent(d[0], Head(q))
    BY <1>1, <1>2 DEF Bounds
<1>4. d[1] = d[0] + 1
    BY <1>3 DEF Sent
<1>5. d[0] < 4
    BY <1>3, <1>4
<1> QED
    BY <1>3, <1>5 DEF Small

LEMMA BoundedAppend ==
    ASSUME NEW q \in Seq(Messages), NEW m \in Messages, NEW a, NEW most \in 0..4, NEW after \in 0..4,
           Bounded(q, a, most), \A n \in 0..4 : n <= most => Sent(n, m) \in 0..after
    PROVE  Bounded(Append(q, m), a, after)
<1>1. PICK d : Bounds(d, q, a, most)
    BY DEF Bounded
<1> DEFINE n == Len(q)
           l == Append(q, m)
           longer == [i \in 0..n + 1 |-> IF i = n + 1 THEN Sent(d[n], m) ELSE d[i]]
<1>2. n \in Nat /\ Len(l) = n + 1 /\ l[n + 1] = m /\ \A i \in 1..n : l[i] = q[i]
    OBVIOUS
<1>3. d[n] \in 0..4 /\ d[n] <= most
    BY <1>1, <1>2 DEF Bounds
<1>4. Sent(d[n], m) \in 0..4 /\ Sent(d[n], m) <= after
    BY <1>3
<1> HIDE DEF l, n
<1>5. /\ longer \in [0..n + 1 -> 0..4] /\ longer[n + 1] = Sent(d[n], m)
      /\ longer[0] = d[0] /\ Small(a, longer[0])
    BY <1>1, <1>2, <1>4 DEF Bounds, n
<1>6. ASSUME NEW i \in 1..n + 1 PROVE longer[i] = Sent(longer[i - 1], l[i])
  <2>1. CASE i = n + 1
    <3>1. longer[i] = Sent(d[n], m) /\ longer[i - 1] = d[n] /\ l[i] = m
        BY <1>2, <2>1
    <3> HIDE DEF longer
    <3> QED
        BY <3>1
  <2>2. CASE i \in 1..n
    <3>1. longer[i] = d[i] /\ longer[i - 1] = d[i - 1] /\ l[i] = q[i]
        BY <1>2, <2>2
    <3>2. d[i] = Sent(d[i - 1], q[i])
        BY <1>1, <2>2 DEF Bounds, n
    <3> HIDE DEF longer
    <3> QED
        BY <3>1, <3>2
  <2> QED
      BY <1>2, <2>1, <2>2
<1> HIDE DEF longer
<1>7. Bounds(longer, l, a, after)
    BY <1>2, <1>4, <1>5, <1>6 DEF Bounds
<1> QED
    BY <1>7 DEF Bounded, l

\* More may have been sent than was.
LEMMA BoundedMore ==
    ASSUME NEW q \in Seq(Messages), NEW a, NEW most \in 0..4, NEW after \in 0..4, most <= after,
           Bounded(q, a, most)
    PROVE  Bounded(q, a, after)
<1>1. PICK d : Bounds(d, q, a, most)
    BY DEF Bounded
<1>2. d[Len(q)] \in 0..4
    BY <1>1 DEF Bounds
<1>3. Bounds(d, q, a, after)
    BY <1>1, <1>2 DEF Bounds
<1> QED
    BY <1>3 DEF Bounded

-----------------------------------------------------------------------------
(* Counts: the AMF                                                          *)

\* Counts change with a protected message only.
LEMMA StatesKeepCounts ==
    ASSUME Typed, NEW a \in AmfStates, NEW c \in Conn, NEW d \in Conn
    PROVE  /\ Heard(a, c).dl = a.dl
           /\ Heard(a, c).ul = IF Head(up[c]).nas = NoNas THEN a.ul ELSE Decode(a.ul, Head(Head(up[c]).nas))
           /\ Answered(a, c).dl = a.dl /\ Answered(a, c).ul = a.ul
           /\ WithNewId(a, d).dl = a.dl /\ WithNewId(a, d).ul = a.ul
           /\ [a EXCEPT !.ids[c] = NoId].dl = a.dl /\ [a EXCEPT !.ids[c] = NoId].ul = a.ul
           /\ [a EXCEPT !.configured = TRUE].dl = a.dl /\ [a EXCEPT !.configured = TRUE].ul = a.ul
BY DEF AmfStates, Heard, Answered, WithNewId

LEMMA AskingKeepsCounts ==
    ASSUME NEW a \in AmfStates, NEW d \in Conn, NEW type
    PROVE  Asking(a, d, type).dl = a.dl /\ Asking(a, d, type).ul = a.ul
<1>1. [a EXCEPT !.asked[d] = @ \cup {ResponseTo[type]}].dl = a.dl
    BY DEF AmfStates
<1>2. [a EXCEPT !.asked[d] = @ \cup {ResponseTo[type]}].ul = a.ul
    BY DEF AmfStates
<1> HIDE DEF ResponseTo
<1> QED
    BY <1>1, <1>2 DEF Asking

\* What an answer does to the counts.
LEMMA AnswerCounts ==
    ASSUME Typed, NEW a \in AmfStates, NEW d \in Conn, NEW type, NEW new \in BOOLEAN
    PROVE  /\ Answer(a, d, type) => amf'.ul = a.ul /\ amf'.dl = a.dl
           /\ AnswerNas(a, d, type, new) => amf'.ul = a.ul /\ amf'.dl = AddOne(a.dl)
<1>1. Answer(a, d, type) => amf'.ul = a.ul /\ amf'.dl = a.dl
    BY AskingKeepsCounts DEF Answer
<1> DEFINE b == [a EXCEPT !.dl = AddOne(@)]
<1>2. a.dl \in Count
    BY DEF AmfStates
<1>3. AddOne(a.dl) \in Count
    BY <1>2, CountsAreTyped
<1>4. b \in AmfStates /\ b.dl = AddOne(a.dl) /\ b.ul = a.ul
    BY <1>3 DEF AmfStates
<1>5. AnswerNas(a, d, type, new) => amf' = Asking(b, d, type)
    BY DEF AnswerNas
<1> HIDE DEF b
<1> QED
    BY <1>1, <1>4, <1>5, AskingKeepsCounts

\* What the AMF does to the downlink when it reads the oldest message of c.
Reply(c, d, m) ==
    /\ down' = [down EXCEPT ![d] = Append(@, m)]
    /\ m.type = "HandoverRequest" => Head(up[c]).type = "HandoverRequired" /\ d = Other(c)
    /\ ReadsAgree(m)
    /\ \/ /\ m.nas = NoNas /\ amf'.dl = amf.dl
          /\ Head(up[c]).type # "AuthenticationResponse"
       \/ /\ m.nas # NoNas /\ amf'.dl = AddOne(Head(m.nas).count)
          /\ \/ Head(up[c]).type = "AuthenticationResponse" /\ Head(m.nas).count = ZeroCount
             \/ Head(up[c]).type \in Tagged /\ Head(m.nas).count = amf.dl
Ignored(c) == down' = down /\ amf'.dl = amf.dl /\ Head(up[c]).type # "AuthenticationResponse"
Replies(c) == Ignored(c) \/ \E d \in Conn, m \in Messages : Reply(c, d, m)

\* And to the uplink count.
Listens(c) == amf'.ul = Hears(amf.ul, Head(up[c]))

LEMMA PlainReply ==
    ASSUME Typed, NEW c \in Conn, NEW a \in AmfStates, NEW d \in Conn, NEW type \in Types,
           Answer(a, d, type), a.dl = amf.dl, type # "SecurityModeCommand",
           Head(up[c]).type # "AuthenticationResponse",
           type = "HandoverRequest" => Head(up[c]).type = "HandoverRequired" /\ d = Other(c)
    PROVE  Replies(c)
<1> DEFINE m == Message(type, a.ids[d], NoNas)
<1>1. m \in Messages /\ m.type = type /\ m.nas = NoNas
  <2>1. a.ids[d] \in Nat
      BY DEF AmfStates
  <2> QED
      BY <2>1, MessagesAreTyped DEF Message
<1>2. down' = [down EXCEPT ![d] = Append(@, m)] /\ amf'.dl = amf.dl
    BY AnswerCounts DEF Answer
<1> HIDE DEF m
<1>3. Reply(c, d, m)
    BY <1>1, <1>2 DEF Reply, ReadsAgree
<1> QED
    BY <1>1, <1>3 DEF Replies

LEMMA ProtectedReply ==
    ASSUME Typed, NEW c \in Conn, NEW a \in AmfStates, NEW d \in Conn, NEW type \in Types,
           NEW new \in BOOLEAN, AnswerNas(a, d, type, new),
           type \notin {"HandoverRequest", "AuthenticationRequest"},
           type = "SecurityModeCommand" => new /\ a.dl = ZeroCount,
           \/ Head(up[c]).type = "AuthenticationResponse" /\ a.dl = ZeroCount
           \/ Head(up[c]).type \in Tagged /\ a.dl = amf.dl
    PROVE  Replies(c)
<1> DEFINE p == Protected(a.dl, new)
           m == Message(type, a.ids[d], << p >>)
<1>1. a.dl \in Count /\ a.ids[d] \in Nat
    BY DEF AmfStates
<1>2. p \in ProtectedMessage /\ p.sqn = p.count.sqn /\ p.count = a.dl
    BY <1>1, MessagesAreTyped DEF Protected
<1>3. type = "SecurityModeCommand" => p = Protected(ZeroCount, TRUE)
    OBVIOUS
<1> HIDE DEF p
<1>4. << p >> \in Nas /\ << p >> # NoNas /\ Head(<< p >>) = p
    BY <1>2 DEF Nas, NoNas
<1>5. m \in Messages
    BY <1>1, <1>4, MessagesAreTyped
<1>6. m.type = type /\ m.nas = << p >>
    BY DEF Message
<1>7. down' = [down EXCEPT ![d] = Append(@, m)] /\ amf'.dl = AddOne(a.dl)
    BY AnswerCounts DEF AnswerNas, p
<1> HIDE DEF m
<1>8. m.nas # NoNas /\ Head(m.nas) = p
    BY <1>4, <1>6
<1>9. ReadsAgree(m)
    BY <1>2, <1>3, <1>6, <1>8 DEF ReadsAgree
<1>10. Reply(c, d, m)
    BY <1>2, <1>6, <1>7, <1>8, <1>9 DEF Reply
<1> QED
    BY <1>5, <1>10 DEF Replies

LEMMA AmfReadsAndReplies ==
    ASSUME Typed, TaggedAreProtected, NEW c \in Conn, Amf(c)
    PROVE  Replies(c) /\ Listens(c)
<1> DEFINE m == Head(up[c])
<1>1. up[c] # <<>>
    BY AmfConsumes
<1>2. m.nas # NoNas <=> m.type \in Tagged
  <2>1. up[c] \in Seq(Messages)
      BY DEF Typed, Queues
  <2>2. Len(up[c]) \in Nat /\ 1 \in 1..Len(up[c]) /\ m = up[c][1]
      BY <1>1, <2>1
  <2> QED
      BY <2>2 DEF TaggedAreProtected
<1>3. amf \in AmfStates /\ Other(c) \in Conn
    BY DEF Typed, Other, Conn
<1>4. /\ Heard(amf, c) \in AmfStates /\ Heard(amf, c).dl = amf.dl
      /\ Heard(amf, c).ul = IF m.nas = NoNas THEN amf.ul ELSE Decode(amf.ul, Head(m.nas))
    BY <1>1, <1>3, AmfStatesAreTyped, StatesKeepCounts
<1>5. \A d \in Conn : /\ WithNewId(amf, d) \in AmfStates
                      /\ WithNewId(amf, d).dl = amf.dl /\ WithNewId(amf, d).ul = amf.ul
    BY <1>1, <1>3, AmfStatesAreTyped, StatesKeepCounts
<1>6. Answered(amf, c) \in AmfStates /\ Answered(amf, c).dl = amf.dl /\ Answered(amf, c).ul = amf.ul
    BY <1>1, <1>3, AmfStatesAreTyped, StatesKeepCounts
<1>7. Tagged \cap {"NGSetupRequest", "RegistrationRequest", "AuthenticationResponse",
                   "InitialContextSetupResponse", "PDUSessionResourceSetupResponse",
                   "HandoverRequired", "HandoverRequestAcknowledge", "HandoverNotify",
                   "UEContextReleaseRequest", "UEContextReleaseComplete"} = {}
    BY DEF Tagged
<1>8. m.nas = NoNas /\ m.type # "AuthenticationResponse" /\ amf'.ul = amf.ul => Listens(c)
    BY DEF Listens, Hears
<1>9. m.type \in Tagged /\ amf'.ul = Heard(amf, c).ul => Listens(c)
    BY <1>2, <1>4, <1>7 DEF Listens, Hears
<1> HIDE DEF m
<1>10. CASE AmfSetsUp(c)
  <2>1. m.type = "NGSetupRequest" /\ Answer(amf, c, "NGSetupResponse") /\ "NGSetupResponse" \in Types
      BY <1>10 DEF AmfSetsUp, Got, Types, m
  <2>2. amf'.ul = amf.ul
      BY <1>3, <2>1, AnswerCounts
  <2>3. Replies(c)
      BY <1>3, <2>1, PlainReply DEF m
  <2> QED
      BY <1>2, <1>7, <1>8, <2>1, <2>2, <2>3
<1>11. CASE AmfChallenges(c)
  <2>1. /\ m.type = "RegistrationRequest" /\ Answer(WithNewId(amf, c), c, "AuthenticationRequest")
        /\ "AuthenticationRequest" \in Types
      BY <1>11 DEF AmfChallenges, Got, Types, m
  <2>2. amf'.ul = amf.ul
      BY <1>3, <1>5, <2>1, AnswerCounts
  <2>3. Replies(c)
      BY <1>3, <1>5, <2>1, PlainReply DEF m
  <2> QED
      BY <1>2, <1>7, <1>8, <2>1, <2>2, <2>3
<1>12. CASE AmfSecures(c)
  <2> DEFINE a == [amf EXCEPT !.ul = ZeroCount, !.dl = ZeroCount]
  <2>1. /\ m.type = "AuthenticationResponse" /\ AnswerNas(a, c, "SecurityModeCommand", TRUE)
        /\ "SecurityModeCommand" \in Types
      BY <1>12 DEF AmfSecures, Got, Types, m
  <2>2. a \in AmfStates /\ a.ul = ZeroCount /\ a.dl = ZeroCount
      BY <1>1, <1>3, AmfStatesAreTyped DEF AmfStates
  <2> HIDE DEF a
  <2>3. amf'.ul = ZeroCount
      BY <1>3, <2>1, <2>2, AnswerCounts
  <2>4. Replies(c)
      BY <1>3, <2>1, <2>2, ProtectedReply DEF m
  <2> QED
      BY <2>1, <2>3, <2>4 DEF Listens, Hears, m
<1>13. CASE AmfAccepts(c)
  <2> DEFINE n == WithNewId(amf, c)
  <2>1. PICK a \in {Heard(amf, c), Heard(n, c)} : AnswerNas(a, c, "InitialContextSetupRequest", FALSE)
      BY <1>13 DEF AmfAccepts
  <2>2. m.type \in Tagged
      BY <1>13 DEF AmfAccepts, Got, Tagged, m
  <2>3. n \in AmfStates /\ n.dl = amf.dl /\ n.ul = amf.ul
      BY <1>5
  <2> HIDE DEF n
  <2>4. /\ Heard(n, c) \in AmfStates /\ Heard(n, c).dl = n.dl
        /\ Heard(n, c).ul = IF m.nas = NoNas THEN n.ul ELSE Decode(n.ul, Head(m.nas))
      BY <1>1, <2>3, AmfStatesAreTyped, StatesKeepCounts DEF m
  <2>5. a \in AmfStates /\ a.dl = amf.dl /\ a.ul = Heard(amf, c).ul
      BY <1>4, <2>1, <2>3, <2>4
  <2>6. "InitialContextSetupRequest" \in Types
      BY DEF Types
  <2>7. amf'.ul = a.ul
      BY <2>1, <2>5, AnswerCounts
  <2>8. Replies(c)
      BY <2>1, <2>2, <2>5, <2>6, ProtectedReply DEF m
  <2> QED
      BY <1>9, <2>2, <2>5, <2>7, <2>8
<1>14. CASE AmfConfigures(c)
  <2> DEFINE a == [Heard(amf, c) EXCEPT !.configured = TRUE]
  <2>1. m.type = "RegistrationComplete" /\ m.type \in Tagged
      BY <1>14 DEF AmfConfigures, Got, Tagged, m
  <2>2. a \in AmfStates /\ a.dl = amf.dl /\ a.ul = Heard(amf, c).ul
      BY <1>1, <1>4, AmfStatesAreTyped, StatesKeepCounts
  <2> HIDE DEF a
  <2>3. CASE amf.configured
    <3>1. amf' = Heard(amf, c) /\ down' = down
        BY <1>14, <2>3 DEF AmfConfigures, Silence
    <3>2. Replies(c)
        BY <1>4, <2>1, <3>1 DEF Replies, Ignored, m
    <3> QED
        BY <1>9, <2>1, <3>1, <3>2
  <2>4. CASE ~amf.configured
    <3>1. AnswerNas(a, c, "ConfigurationUpdateCommand", FALSE) /\ "ConfigurationUpdateCommand" \in Types
        BY <1>14, <2>4 DEF AmfConfigures, Types, a
    <3>2. amf'.ul = a.ul
        BY <2>2, <3>1, AnswerCounts
    <3>3. Replies(c)
        BY <2>1, <2>2, <3>1, ProtectedReply DEF m
    <3> QED
        BY <1>9, <2>1, <2>2, <3>2, <3>3
  <2> QED
      BY <2>3, <2>4
<1>15. CASE AmfSetsUpSession(c)
  <2>1. /\ AnswerNas(Heard(amf, c), c, "PDUSessionResourceSetupRequest", FALSE)
        /\ m.type = "PduSessionRequest" /\ m.type \in Tagged
        /\ "PDUSessionResourceSetupRequest" \in Types
      BY <1>15 DEF AmfSetsUpSession, Got, Tagged, Types, m
  <2>2. amf'.ul = Heard(amf, c).ul
      BY <1>4, <2>1, AnswerCounts
  <2>3. Replies(c)
      BY <1>4, <2>1, ProtectedReply DEF m
  <2> QED
      BY <1>9, <2>1, <2>2, <2>3
<1>16. CASE AmfNotes(c)
  <2>1. /\ m.type \in {"InitialContextSetupResponse", "PDUSessionResourceSetupResponse"}
        /\ amf' = Answered(amf, c) /\ down' = down
      BY <1>16 DEF AmfNotes, Got, Silence, m
  <2>2. Replies(c)
      BY <1>6, <2>1 DEF Replies, Ignored, m
  <2>3. m.nas = NoNas /\ m.type # "AuthenticationResponse"
      BY <1>2, <1>7, <2>1
  <2> QED
      BY <1>6, <1>8, <2>1, <2>2, <2>3
<1>17. CASE AmfPreparesHandover(c)
  <2> DEFINE d == Other(c)
  <2>1. m.type = "HandoverRequired" /\ Answer(WithNewId(amf, d), d, "HandoverRequest")
      BY <1>17 DEF AmfPreparesHandover, Got, m
  <2>2. "HandoverRequest" \in Types
      BY DEF Types
  <2>3. amf'.ul = amf.ul
      BY <1>3, <1>5, <2>1, AnswerCounts
  <2>4. Replies(c)
      BY <1>3, <1>5, <2>1, <2>2, PlainReply DEF m
  <2> QED
      BY <1>2, <1>7, <1>8, <2>1, <2>3, <2>4
<1>18. CASE AmfCommandsHandover(c)
  <2> DEFINE a == Answered(amf, c)
             d == Other(c)
  <2>1. /\ m.type = "HandoverRequestAcknowledge" /\ Answer(a, d, "HandoverCommand")
        /\ "HandoverCommand" \in Types
      BY <1>18 DEF AmfCommandsHandover, Got, Types, m
  <2>2. amf'.ul = amf.ul
      BY <1>3, <1>6, <2>1, AnswerCounts
  <2>3. Replies(c)
      BY <1>3, <1>6, <2>1, PlainReply DEF m
  <2> QED
      BY <1>2, <1>7, <1>8, <2>1, <2>2, <2>3
<1>19. CASE AmfReleases(c)
  <2>1. PICK d \in {c, Other(c)} : Answer(amf, d, "UEContextReleaseCommand")
      BY <1>19 DEF AmfReleases
  <2>2. /\ m.type \in {"HandoverNotify", "UEContextReleaseRequest"} /\ d \in Conn
        /\ "UEContextReleaseCommand" \in Types
      BY <1>3, <1>19, <2>1 DEF AmfReleases, Got, Types, m
  <2>3. amf'.ul = amf.ul
      BY <1>3, <2>1, <2>2, AnswerCounts
  <2>4. Replies(c)
      BY <1>3, <2>1, <2>2, PlainReply DEF m
  <2> QED
      BY <1>2, <1>7, <1>8, <2>2, <2>3, <2>4
<1>20. CASE AmfForgets(c)
  <2> DEFINE b == Answered(amf, c)
  <2>1. PICK a \in {[b EXCEPT !.ids[c] = NoId], amf} : Answer(a, c, "Paging") \/ Silence(a)
      BY <1>20 DEF AmfForgets
  <2>2. [b EXCEPT !.ids[c] = NoId] \in AmfStates
      BY <1>1, <1>6, AmfStatesAreTyped
  <2>3. [b EXCEPT !.ids[c] = NoId].dl = b.dl /\ [b EXCEPT !.ids[c] = NoId].ul = b.ul
      BY <1>6, StatesKeepCounts
  <2> HIDE DEF b
  <2>4. a \in AmfStates /\ a.dl = amf.dl /\ a.ul = amf.ul
      BY <1>3, <1>6, <2>1, <2>2, <2>3 DEF b
  <2>5. m.type = "UEContextReleaseComplete" /\ "Paging" \in Types
      BY <1>20 DEF AmfForgets, Got, Types, m
  <2>6. CASE Answer(a, c, "Paging")
    <3>1. amf'.ul = amf.ul
        BY <2>4, <2>6, AnswerCounts
    <3>2. Replies(c)
        BY <2>4, <2>5, <2>6, PlainReply DEF m
    <3> QED
        BY <1>2, <1>7, <1>8, <2>5, <3>1, <3>2
  <2>7. CASE Silence(a)
    <3>1. amf' = a /\ down' = down
        BY <2>7 DEF Silence
    <3>2. Replies(c)
        BY <2>4, <2>5, <3>1 DEF Replies, Ignored, m
    <3> QED
        BY <1>2, <1>7, <1>8, <2>4, <2>5, <3>1, <3>2
  <2> QED
      BY <2>1, <2>6, <2>7
<1> QED
    BY <1>10, <1>11, <1>12, <1>13, <1>14, <1>15, <1>16, <1>17, <1>18, <1>19, <1>20 DEF Amf

-----------------------------------------------------------------------------
(* Counts: writing                                                          *)

LEMMA StepInOrder ==
    ASSUME Typed, flow \in Procedures, ~Finished
    PROVE  InOrder(flow, Step, pc) /\ pc \in Nat
<1>1. ProperScript(Script(flow))
    BY ScriptIsProper
<1>2. Len(Script(flow)) \in Nat /\ pc \in 1..Len(Script(flow))
    BY <1>1 DEF Typed, Finished, ProperScript
<1>3. ScriptInOrder(flow)
    BY ScriptsAreInOrder
<1> QED
    BY <1>2, <1>3 DEF ScriptInOrder, Step

LEMMA NewAtIs == \A f : NewAt(f) \in {7, 9} /\ (f \in Handovers <=> NewAt(f) = 9)
BY DEF NewAt

\* A message written by step s for identifier id.
Written(id) == Message(Step.type, id, NasOf(Step))

LEMMA WriteIs ==
    ASSUME Typed, flow \in Procedures, Doing("send") \/ Doing("initial"), NEW id \in Nat, Write(id)
    PROVE  /\ Step.conn \in Conn /\ Step.op \in {"send", "initial"} /\ ~Finished
           /\ Written(id) \in Messages /\ Written(id).type = Step.type
           /\ Written(id).nas # NoNas <=> Protects(Step)
           /\ up' = [up EXCEPT ![Step.conn] = Append(@, Written(id))]
           /\ pc' = pc + 1 /\ UNCHANGED <<flow, down, amf>>
           /\ Protects(Step) => /\ Step.who \in {"ue", "target"}
                                /\ Written(id).nas = << Encoded(ctx[Step.who], Step.nas = "new") >>
                                /\ ctx' = [ctx EXCEPT ![Step.who] = AfterEncode(@, Step.nas = "new")]
           /\ ~Protects(Step) => ctx' = ctx
<1>1. /\ Step.conn \in Conn /\ Step.type \in Types /\ Step.op \in {"send", "initial"} /\ ~Finished
      /\ Step.nas \in {"protected", "new"} => Step.who \in {"ue", "target"}
    BY StepIsTyped, StepsByOp DEF Doing
<1>2. CASE Protects(Step)
  <2>1. ctx[Step.who] \in Context /\ (Step.nas = "new") \in BOOLEAN
      BY <1>1, <1>2 DEF Typed, Protects
  <2>2. Encoded(ctx[Step.who], Step.nas = "new") \in ProtectedMessage
      BY <2>1, ContextsAreTyped
  <2>3. NasOf(Step) = << Encoded(ctx[Step.who], Step.nas = "new") >>
      BY <1>2 DEF NasOf, Protects
  <2>4. NasOf(Step) \in Nas /\ NasOf(Step) # NoNas
      BY <2>2, <2>3, MessagesAreTyped
  <2>5. ctx' = [ctx EXCEPT ![Step.who] = AfterEncode(@, Step.nas = "new")]
      BY <1>2 DEF Write, CtxAfter, Protects
  <2>6. Written(id) \in Messages
      BY <1>1, <2>4, MessagesAreTyped DEF Written
  <2>7. Written(id).type = Step.type /\ Written(id).nas = NasOf(Step)
      BY DEF Written, Message
  <2> QED
      BY <1>1, <1>2, <2>3, <2>4, <2>5, <2>6, <2>7 DEF Write, Written, Protects
<1>3. CASE ~Protects(Step)
  <2>1. NasOf(Step) = NoNas /\ NoNas \in Nas /\ ctx' = ctx
      BY <1>1, <1>3, MessagesAreTyped DEF NasOf, CtxAfter, Protects, Write
  <2>2. Written(id) \in Messages
      BY <1>1, <2>1, MessagesAreTyped DEF Written
  <2>3. Written(id).type = Step.type /\ Written(id).nas = NasOf(Step)
      BY DEF Written, Message
  <2> QED
      BY <1>1, <1>3, <2>1, <2>2, <2>3 DEF Write, Written
<1> QED
    BY <1>2, <1>3

LEMMA AppendIs ==
    ASSUME NEW q \in Seq(Messages), NEW m \in Messages
    PROVE  /\ Len(q) \in Nat /\ Len(Append(q, m)) = Len(q) + 1
           /\ \A i \in 1..Len(q) : Append(q, m)[i] = q[i]
           /\ Append(q, m)[Len(q) + 1] = m
           /\ \A i \in 1..Len(Append(q, m)) : i \in 1..Len(q) \/ i = Len(q) + 1
OBVIOUS

LEMMA WriteKeepsTags ==
    ASSUME Typed, flow \in Procedures, TaggedAreProtected,
           Doing("send") \/ Doing("initial"), NEW id \in Nat, Write(id)
    PROVE  TaggedAreProtected'
<1> DEFINE m == Written(id)
<1>1. /\ Step.conn \in Conn /\ m \in Messages /\ m.type = Step.type
      /\ m.nas # NoNas <=> Protects(Step)
      /\ up' = [up EXCEPT ![Step.conn] = Append(@, m)]
    BY WriteIs
<1>2. Protects(Step) <=> Step.type \in Tagged
    BY StepInOrder, WriteIs DEF InOrder
<1> HIDE DEF m
<1>3. SUFFICES ASSUME NEW c \in Conn, NEW i \in 1..Len(up'[c])
               PROVE  up'[c][i].nas # NoNas <=> up'[c][i].type \in Tagged
    BY DEF TaggedAreProtected
<1>4. up[c] \in Seq(Messages)
    BY DEF Typed, Queues
<1>5. \A j \in 1..Len(up[c]) : up[c][j].nas # NoNas <=> up[c][j].type \in Tagged
    BY DEF TaggedAreProtected
<1>6. CASE c = Step.conn
  <2>1. up'[c] = Append(up[c], m)
      BY <1>1, <1>6 DEF Typed, Queues
  <2>2. (i \in 1..Len(up[c]) /\ up'[c][i] = up[c][i]) \/ up'[c][i] = m
      BY <1>1, <1>3, <1>4, <2>1, AppendIs
  <2> QED
      BY <1>1, <1>2, <1>5, <2>2
<1>7. CASE c # Step.conn
    BY <1>1, <1>5, <1>7 DEF Typed, Queues
<1> QED
    BY <1>6, <1>7

LEMMA WriteKeepsAsked ==
    ASSUME Typed, flow \in Procedures, AskedAfterAll,
           Doing("send") \/ Doing("initial"), NEW id \in Nat, Write(id)
    PROVE  AskedAfterAll'
<1> DEFINE m == Written(id)
           q == up["src"]
<1>1. /\ Step.conn \in Conn /\ m \in Messages /\ m.type = Step.type
      /\ m.nas # NoNas <=> Protects(Step)
      /\ up' = [up EXCEPT ![Step.conn] = Append(@, m)]
      /\ pc' = pc + 1 /\ flow' = flow /\ down' = down
      /\ Step.op \in {"send", "initial"} /\ pc \in Nat
    BY WriteIs, StepInOrder
<1>2. InOrder(flow, Step, pc)
    BY WriteIs, StepInOrder
<1>3. q \in Seq(Messages) /\ Len(q) \in Nat
    BY DEF Typed, Queues, Conn
<1>4. \/ up'["src"] = q
      \/ Step.conn = "src" /\ up'["src"] = Append(q, m)
    BY <1>1 DEF Typed, Queues, Conn
<1>5. m.type = "HandoverRequired" => flow \in Handovers /\ pc = 17
    BY <1>1, <1>2 DEF InOrder
<1>6. flow \in Handovers /\ pc > 17 /\ Step.conn = "src" => Quiet(m)
  <2>1. SUFFICES ASSUME flow \in Handovers, pc > 17, Step.conn = "src" PROVE Quiet(m)
      OBVIOUS
  <2>2. ~Protects(Step)
      BY <1>2, <2>1 DEF InOrder
  <2>3. Step.type # "AuthenticationResponse"
      BY <1>1, <1>2, <2>1, NewAtIs DEF InOrder
  <2> QED
      BY <1>1, <2>2, <2>3 DEF Quiet
<1> HIDE DEF m
<1>7. ASSUME NEW i \in 1..Len(up'["src"]), up'["src"][i].type = "HandoverRequired"
      PROVE  /\ flow' \in Handovers /\ pc' > 17
             /\ \A j \in i + 1..Len(up'["src"]) : Quiet(up'["src"][j])
  <2>1. CASE up'["src"] = q
    <3>1. i \in 1..Len(q) /\ q[i].type = "HandoverRequired"
        BY <1>7, <2>1
    <3>2. flow \in Handovers /\ pc > 17 /\ \A j \in i + 1..Len(q) : Quiet(q[j])
        BY <3>1 DEF AskedAfterAll
    <3> HIDE DEF q
    <3>3. \A j \in i + 1..Len(up'["src"]) : Quiet(up'["src"][j])
        BY <2>1, <3>2
    <3> QED
        BY <1>1, <3>2, <3>3
  <2>2. CASE Step.conn = "src" /\ up'["src"] = Append(q, m)
    <3>1. CASE i = Len(q) + 1
      <4>1. up'["src"][i] = m /\ Len(up'["src"]) = i
          BY <1>1, <1>3, <2>2, <3>1, AppendIs
      <4> QED
          BY <1>1, <1>3, <1>5, <1>7, <3>1, <4>1
    <3>2. CASE i \in 1..Len(q)
      <4>1. q[i].type = "HandoverRequired"
          BY <1>1, <1>3, <1>7, <2>2, <3>2, AppendIs
      <4>2. flow \in Handovers /\ pc > 17 /\ \A j \in i + 1..Len(q) : Quiet(q[j])
          BY <3>2, <4>1 DEF AskedAfterAll
      <4>3. ASSUME NEW j \in i + 1..Len(up'["src"]) PROVE Quiet(up'["src"][j])
        <5>1. (j \in i + 1..Len(q) /\ up'["src"][j] = q[j]) \/ up'["src"][j] = m
            BY <1>1, <1>3, <2>2, <3>2, AppendIs
        <5> QED
            BY <1>6, <2>2, <4>2, <5>1
      <4> QED
          BY <1>1, <4>2, <4>3
    <3> QED
        BY <1>1, <1>3, <2>2, <3>1, <3>2, AppendIs
  <2> QED
      BY <1>4, <2>1, <2>2
<1>8. ASSUME NEW i \in 1..Len(down'["tgt"]), down'["tgt"][i].type = "HandoverRequest"
      PROVE  flow' \in Handovers /\ pc' > 17 /\ AllQuiet(up'["src"])
  <2>1. flow \in Handovers /\ pc > 17 /\ AllQuiet(q)
      BY <1>1, <1>8 DEF AskedAfterAll
  <2>2. CASE up'["src"] = q
      BY <1>1, <2>1, <2>2
  <2>3. CASE Step.conn = "src" /\ up'["src"] = Append(q, m)
    <3>1. \A j \in 1..Len(up'["src"]) : (j \in 1..Len(q) /\ up'["src"][j] = q[j]) \/ up'["src"][j] = m
        BY <1>1, <1>3, <2>3, AppendIs
    <3>2. AllQuiet(up'["src"])
        BY <1>6, <2>1, <2>3, <3>1 DEF AllQuiet
    <3> QED
        BY <1>1, <2>1, <3>2
  <2> QED
      BY <1>4, <2>2, <2>3
<1> QED
    BY <1>7, <1>8 DEF AskedAfterAll

\* An encoded message is the one that the AMF expects.
LEMMA EncodedIsExpected ==
    ASSUME NEW c \in Context, NEW m \in Messages, NEW x \in Count
    PROVE  /\ m.nas = << Encoded(c, TRUE) >> /\ m.type # "AuthenticationResponse" =>
                /\ Hears(x, m) = ZeroCount /\ Head(m.nas).count = ZeroCount
                /\ AfterEncode(c, TRUE).ul = AddOne(ZeroCount)
           /\ m.nas = << Encoded(c, FALSE) >> /\ m.type # "AuthenticationResponse" /\ AddOne(x) = c.ul =>
                /\ Hears(x, m) = c.ul /\ Head(m.nas).count = c.ul
                /\ AfterEncode(c, FALSE).ul = AddOne(c.ul)
<1>1. c.ul \in Count
    BY DEF Context
<1>2. StartCounts(c, FALSE) = c /\ StartCounts(c, TRUE).ul = ZeroCount
    BY DEF StartCounts, Context
<1>3. AfterEncode(c, FALSE).ul = AddOne(c.ul)
    BY <1>2 DEF AfterEncode, Context
<1>4. AfterEncode(c, TRUE).ul = AddOne(ZeroCount)
  <2>1. StartCounts(c, TRUE) \in Context
      BY CountsAreTyped DEF StartCounts, Context
  <2> QED
      BY <1>2, <2>1 DEF AfterEncode, Context
<1>5. /\ Encoded(c, FALSE) = Protected(c.ul, FALSE)
      /\ Encoded(c, TRUE) = Protected(ZeroCount, TRUE)
    BY <1>2 DEF Encoded
<1>6. /\ Protected(c.ul, FALSE).sqn = c.ul.sqn /\ Protected(c.ul, FALSE).count = c.ul
      /\ Protected(c.ul, FALSE).newContext = FALSE
      /\ Protected(ZeroCount, TRUE).sqn = 0 /\ Protected(ZeroCount, TRUE).count = ZeroCount
      /\ Protected(ZeroCount, TRUE).newContext = TRUE
    BY DEF Protected, ZeroCount, SetCount
<1>7. ASSUME NEW p \in {Protected(c.ul, FALSE), Protected(ZeroCount, TRUE)},
             m.nas = << p >>, m.type # "AuthenticationResponse"
      PROVE  Hears(x, m) = Decode(x, p) /\ Head(m.nas) = p
  <2>1. p \in ProtectedMessage
      BY <1>1, CountsAreTyped, MessagesAreTyped
  <2>2. Head(m.nas) = p /\ m.nas # NoNas
      BY <1>7, <2>1, MessagesAreTyped
  <2> QED
      BY <1>7, <2>2 DEF Hears
<1>8. Decode(x, Protected(ZeroCount, TRUE)) = ZeroCount
  <2>1. Estimate(ZeroCount, 0) = ZeroCount
      BY DEF Estimate, ZeroCount, SetCount
  <2> QED
      BY <1>6, <2>1 DEF Decode
<1>9. AddOne(x) = c.ul => Decode(x, Protected(c.ul, FALSE)) = c.ul
    BY <1>6, EstimateNext DEF Decode
<1> QED
    BY <1>3, <1>4, <1>5, <1>6, <1>7, <1>8, <1>9

LEMMA WriteKeepsUplink ==
    ASSUME Typed, flow \in Procedures, UplinkAgrees,
           Doing("send") \/ Doing("initial"), NEW id \in Nat, Write(id)
    PROVE  UplinkAgrees'
<1> DEFINE m == Written(id)
           s == Step
<1>1. /\ s.conn \in Conn /\ m \in Messages /\ m.type = s.type
      /\ m.nas # NoNas <=> Protects(s)
      /\ up' = [up EXCEPT ![s.conn] = Append(@, m)]
      /\ pc' = pc + 1 /\ flow' = flow /\ amf' = amf
      /\ s.op \in {"send", "initial"} /\ pc \in Nat
    BY WriteIs, StepInOrder
<1>2. /\ Protects(s) => /\ s.who \in {"ue", "target"}
                        /\ m.nas = << Encoded(ctx[s.who], s.nas = "new") >>
                        /\ ctx' = [ctx EXCEPT ![s.who] = AfterEncode(@, s.nas = "new")]
      /\ ~Protects(s) => ctx' = ctx
    BY WriteIs
<1>3. InOrder(flow, s, pc) /\ NewAt(flow) \in {7, 9} /\ (flow \in Handovers <=> NewAt(flow) = 9)
    BY WriteIs, StepInOrder, NewAtIs
<1> HIDE DEF m, s
<1>4. flow \in Handovers => pc # 18 /\ pc # 19
    BY <1>1, <1>3 DEF InOrder
<1>5. Moved' = Moved /\ Copied' = Copied
    BY <1>1, <1>4 DEF Moved, Copied
<1>6. Here' = Here /\ There' = There /\ Here \in Conn /\ There \in Conn /\ Here # There
    BY <1>5 DEF Here, There, Conn
<1>7. up[Here] \in Seq(Messages) /\ up[There] \in Seq(Messages)
    BY <1>6 DEF Typed, Queues
<1>8. Protects(s) => /\ s.conn = Here /\ s.who = (IF Copied THEN "target" ELSE "ue")
                     /\ pc >= NewAt(flow) /\ (s.nas = "new" <=> pc = NewAt(flow))
    BY <1>1, <1>3 DEF InOrder, Here, Moved, Copied
<1>9. m.type = "AuthenticationResponse" => s.conn = Here /\ pc + 1 < NewAt(flow) /\ ~Protects(s)
  <2>1. SUFFICES ASSUME m.type = "AuthenticationResponse"
                 PROVE  s.conn = Here /\ pc + 1 < NewAt(flow) /\ ~Protects(s)
      OBVIOUS
  <2>2. pc = NewAt(flow) - 2 /\ s.conn = "src"
      BY <1>1, <1>3, <2>1 DEF InOrder
  <2> QED
      BY <1>3, <1>8, <2>2 DEF Here, Moved
<1>10. ~Protects(s) => NextCounts' = NextCounts
  <2>1. SUFFICES ASSUME ~Protects(s) PROVE NextCounts' = NextCounts
      OBVIOUS
  <2>2. pc # NewAt(flow)
      BY <1>3, <2>1 DEF InOrder
  <2>3. NextCount' = NextCount
      BY <1>2, <1>5, <2>1 DEF NextCount
  <2>4. NewAt(flow)' = NewAt(flow) /\ (pc' <= NewAt(flow) <=> pc <= NewAt(flow))
      BY <1>1, <1>3, <2>2 DEF NewAt
  <2> QED
      BY <2>3, <2>4 DEF NextCounts
<1>11. CASE s.conn = There
  <2>1. ~Protects(s) /\ Quiet(m)
      BY <1>1, <1>6, <1>8, <1>9, <1>11 DEF Quiet
  <2>2. up'[There] = Append(up[There], m) /\ up'[Here] = up[Here]
      BY <1>1, <1>6, <1>11 DEF Typed, Queues
  <2>3. \A i \in 1..Len(up'[There]) :
            (i \in 1..Len(up[There]) /\ up'[There][i] = up[There][i]) \/ up'[There][i] = m
      BY <1>1, <1>7, <2>2, AppendIs
  <2>4. AllQuiet(up'[There])
      BY <2>1, <2>3 DEF UplinkAgrees, AllQuiet
  <2> QED
      BY <1>1, <1>6, <1>10, <2>1, <2>2, <2>4 DEF UplinkAgrees
<1>12. CASE s.conn # There
  <2>1. s.conn = Here
      BY <1>1, <1>12 DEF Here, There, Conn
  <2>2. up'[Here] = Append(up[Here], m) /\ up'[There] = up[There]
      BY <1>1, <1>6, <2>1 DEF Typed, Queues
  <2>3. ASSUME NEW x \in Count, AddOne(x) \in NextCounts
        PROVE  /\ m.nas # NoNas => Hears(x, m) = Head(m.nas).count
               /\ AddOne(Hears(x, m)) \in NextCounts'
    <3>1. CASE ~Protects(s) /\ m.type = "AuthenticationResponse"
      <4>1. Hears(x, m) = ZeroCount
          BY <3>1 DEF Hears
      <4>2. NextCounts' = Count
          BY <1>1, <1>3, <1>9, <3>1 DEF NextCounts, NewAt
      <4> QED
          BY <1>1, <3>1, <4>1, <4>2, CountsAreTyped
    <3>2. CASE ~Protects(s) /\ m.type # "AuthenticationResponse"
      <4>1. Hears(x, m) = x
          BY <1>1, <3>2 DEF Hears
      <4> QED
          BY <1>1, <1>10, <2>3, <3>2, <4>1
    <3>3. CASE Protects(s)
      <4> DEFINE c == ctx[s.who]
      <4>1. c \in Context /\ m.type # "AuthenticationResponse"
          BY <1>2, <1>9, <3>3 DEF Typed
      <4>2. NextCount = c.ul /\ NextCount' = AfterEncode(c, s.nas = "new").ul
          BY <1>2, <1>5, <1>8, <3>3 DEF NextCount, Typed
      <4>3. pc' > NewAt(flow) /\ NewAt(flow)' = NewAt(flow)
          BY <1>1, <1>3, <1>8, <3>3 DEF NewAt
      <4>4. NextCounts' = {NextCount'}
          BY <1>1, <1>3, <4>3 DEF NextCounts
      <4>5. CASE s.nas = "new"
        <5>1. m.nas = << Encoded(c, TRUE) >> /\ NextCount' = AfterEncode(c, TRUE).ul
            BY <1>2, <3>3, <4>2, <4>5
        <5> HIDE DEF c
        <5> QED
            BY <1>1, <4>1, <4>4, <5>1, EncodedIsExpected
      <4>6. CASE s.nas # "new"
        <5>1. m.nas = << Encoded(c, FALSE) >> /\ NextCount' = AfterEncode(c, FALSE).ul
            BY <1>2, <3>3, <4>2, <4>6
        <5>2. NextCounts = {c.ul}
            BY <1>1, <1>3, <1>8, <3>3, <4>2, <4>6 DEF NextCounts
        <5> HIDE DEF c
        <5> QED
            BY <1>1, <2>3, <4>1, <4>4, <5>1, <5>2, EncodedIsExpected
      <4> QED
          BY <4>5, <4>6
    <3> QED
        BY <3>1, <3>2, <3>3
  <2>4. Follows(up[Here], amf.ul, NextCounts)
      BY DEF UplinkAgrees
  <2>5. Follows(Append(up[Here], m), amf.ul, NextCounts')
      BY <1>1, <1>7, <2>3, <2>4, FollowsAppend
  <2> QED
      BY <1>1, <1>6, <2>2, <2>5 DEF UplinkAgrees
<1> QED
    BY <1>11, <1>12

LEMMA WriteKeepsDownlink ==
    ASSUME Typed, flow \in Procedures, DownlinkAgrees,
           Doing("send") \/ Doing("initial"), NEW id \in Nat, Write(id)
    PROVE  DownlinkAgrees'
<1> DEFINE m == Written(id)
           s == Step
<1>1. /\ s.conn \in Conn /\ m \in Messages /\ m.type = s.type
      /\ m.nas # NoNas <=> Protects(s)
      /\ up' = [up EXCEPT ![s.conn] = Append(@, m)]
      /\ pc' = pc + 1 /\ flow' = flow /\ amf' = amf /\ down' = down
      /\ s.op \in {"send", "initial"} /\ pc \in Nat
    BY WriteIs, StepInOrder
<1>2. /\ Protects(s) => /\ s.who \in {"ue", "target"}
                        /\ ctx' = [ctx EXCEPT ![s.who] = AfterEncode(@, s.nas = "new")]
      /\ ~Protects(s) => ctx' = ctx
    BY WriteIs
<1>3. InOrder(flow, s, pc) /\ NewAt(flow) \in {7, 9} /\ (flow \in Handovers <=> NewAt(flow) = 9)
    BY WriteIs, StepInOrder, NewAtIs
<1>4. up["src"] \in Seq(Messages) /\ "src" \in Conn
    BY DEF Typed, Queues, Conn
<1> HIDE DEF m, s
<1>5. \A i \in 1..Len(down'["src"]) : ReadsAgree(down'["src"][i])
    BY <1>1 DEF DownlinkAgrees
<1>6. NewAt(flow)' = NewAt(flow)
    BY <1>1 DEF NewAt
<1>7. SUFFICES ASSUME Undecoded' PROVE UndecodedAgrees'
    BY <1>5 DEF DownlinkAgrees
<1>8. Undecoded /\ flow \in Sessions /\ pc < NewAt(flow) + 6
    BY <1>1, <1>3, <1>6, <1>7 DEF Undecoded
<1>9. UndecodedAgrees
    BY <1>8 DEF DownlinkAgrees
<1>10. ctx'["ue"].dl = ZeroCount
  <2>1. ASSUME NEW c \in Context, NEW new \in BOOLEAN, c.dl = ZeroCount
        PROVE  AfterEncode(c, new).dl = ZeroCount
    <3>1. StartCounts(c, new) \in Context /\ StartCounts(c, new).dl = ZeroCount
        BY <2>1, CountsAreTyped DEF StartCounts, Context
    <3> QED
        BY <3>1 DEF AfterEncode, Context
  <2>2. ctx["ue"] \in Context /\ ctx["ue"].dl = ZeroCount /\ ctx \in [{"ue", "target"} -> Context]
      BY <1>9 DEF UndecodedAgrees, Typed
  <2>3. (s.nas = "new") \in BOOLEAN
      OBVIOUS
  <2>4. AfterEncode(ctx["ue"], s.nas = "new").dl = ZeroCount
      BY <2>1, <2>2, <2>3
  <2>5. ctx'["ue"] \in {ctx["ue"], AfterEncode(ctx["ue"], s.nas = "new")}
      BY <1>2, <2>2
  <2> QED
      BY <2>2, <2>4, <2>5
<1>11. MostSent \in 0..4 /\ MostSent' \in 0..4 /\ MostSent <= MostSent'
    BY <1>1, <1>3, <1>6 DEF MostSent
<1>12. Bounded(up["src"], amf.dl, MostSent)
    BY <1>9 DEF UndecodedAgrees
<1>13. Bounded(up'["src"], amf'.dl, MostSent')
  <2>1. CASE s.conn # "src"
    <3>1. up'["src"] = up["src"]
        BY <1>1, <1>4, <2>1 DEF Typed, Queues
    <3> QED
        BY <1>1, <1>4, <1>11, <1>12, <3>1, BoundedMore
  <2>2. CASE s.conn = "src"
    <3>1. up'["src"] = Append(up["src"], m)
        BY <1>1, <1>4, <2>2 DEF Typed, Queues
    <3>2. ASSUME NEW n \in 0..4, n <= MostSent PROVE Sent(n, m) \in 0..MostSent'
      <4>1. CASE m.type = "AuthenticationResponse"
        <5>1. pc = NewAt(flow) - 2
            BY <1>1, <1>3, <4>1 DEF InOrder
        <5>2. MostSent' = 1
            BY <1>1, <1>3, <1>6, <5>1 DEF MostSent
        <5> QED
            BY <4>1, <5>2 DEF Sent
      <4>2. CASE m.type # "AuthenticationResponse" /\ m.nas = NoNas
          BY <1>11, <3>2, <4>2 DEF Sent
      <4>3. CASE m.type # "AuthenticationResponse" /\ m.nas # NoNas
        <5>1. pc \in {NewAt(flow), NewAt(flow) + 3, NewAt(flow) + 4}
            BY <1>1, <1>3, <1>8, <4>3 DEF InOrder
        <5>2. MostSent' = MostSent + 1
            BY <1>1, <1>3, <1>6, <5>1 DEF MostSent
        <5> QED
            BY <1>11, <3>2, <4>3, <5>2 DEF Sent
      <4> QED
          BY <4>1, <4>2, <4>3
    <3>3. Bounded(Append(up["src"], m), amf.dl, MostSent')
        BY <1>1, <1>4, <1>11, <1>12, <3>2, BoundedAppend
    <3> QED
        BY <1>1, <3>1, <3>3
  <2> QED
      BY <2>1, <2>2
<1>14. \A i \in 1..Len(down'["src"]) :
          down'["src"][i].nas # NoNas => Head(down'["src"][i].nas).count.ovf = 0
    BY <1>1, <1>9 DEF UndecodedAgrees
<1> QED
    BY <1>10, <1>13, <1>14 DEF UndecodedAgrees

LEMMA WriteKeepsCounts ==
    ASSUME CountsAgree, Doing("send") \/ Doing("initial"), NEW id \in Nat, Write(id)
    PROVE  CountsAgree'
<1>1. Typed' /\ flow' = flow
    BY WriteKeepsTypes DEF CountsAgree, Write
<1>2. UplinkAgrees' /\ TaggedAreProtected' /\ AskedAfterAll' /\ DownlinkAgrees'
    BY WriteKeepsUplink, WriteKeepsTags, WriteKeepsAsked, WriteKeepsDownlink DEF CountsAgree
<1> QED
    BY <1>1, <1>2 DEF CountsAgree

-----------------------------------------------------------------------------
(* Counts: reading, and copying the context                                 *)

Reading == ReadBlindly \/ ReadExpected \/ ReadUnexpected \/ TimeOut

LEMMA ReadIs ==
    ASSUME Typed, Reading
    PROVE  /\ Step.op = "recv" /\ Step.conn \in Conn /\ ~Finished
           /\ UNCHANGED <<flow, up, amf>>
           /\ \/ down' = down
              \/ down[Step.conn] # <<>> /\ down' = [down EXCEPT ![Step.conn] = Tail(@)]
           /\ pc' \in {pc, pc + 1} \/ (pc' = pc + 2 /\ Step.use = "session")
           /\ \/ ctx' = ctx
              \/ /\ down[Step.conn] # <<>> /\ Head(down[Step.conn]).type = Step.type
                 /\ Step.use \notin {"ignore", "target"} /\ pc' = pc + 1
                 /\ ctx' = Decoded(Head(down[Step.conn]))
           /\ Step.use = "target" /\ pc' # pc =>
                down[Step.conn] # <<>> /\ Head(down[Step.conn]).type = Step.type /\ ctx' = ctx
<1>1. Doing("recv")
    BY DEF Reading, ReadBlindly, ReadExpected, ReadUnexpected, TimeOut
<1>2. Step.op = "recv" /\ Step.conn \in Conn /\ ~Finished
    BY <1>1, StepIsTyped, StepsByOp DEF Doing
<1>3. pc \in Nat
    BY <1>2, StepIsTyped
<1>4. CASE ReadBlindly
    BY <1>2, <1>3, <1>4 DEF ReadBlindly, Read
<1>5. CASE ReadExpected
    BY <1>2, <1>3, <1>5 DEF ReadExpected, Read
<1>6. CASE ReadUnexpected
    BY <1>2, <1>3, <1>6 DEF ReadUnexpected, Read, GiveUpReading
<1>7. CASE TimeOut
    BY <1>2, <1>3, <1>7 DEF TimeOut, GiveUpReading, Recv
<1> QED
    BY <1>4, <1>5, <1>6, <1>7 DEF Reading

LEMMA ReadMoves ==
    ASSUME Typed, flow \in Procedures, Reading
    PROVE  /\ pc \in Nat /\ pc' \in Nat /\ pc' >= pc /\ InOrder(flow, Step, pc)
           /\ NewAt(flow)' = NewAt(flow) /\ (pc' <= NewAt(flow) <=> pc <= NewAt(flow))
           /\ flow \in Handovers => (pc' > 19 <=> pc > 19)
           /\ flow \in Handovers /\ pc <= 18 /\ pc' > 18 =>
                /\ pc = 18 /\ pc' = 19 /\ ctx' = ctx
                /\ down["tgt"] # <<>> /\ Head(down["tgt"]).type = "HandoverRequest"
<1> DEFINE s == Step
<1>1. s.op = "recv" /\ ~Finished /\ flow' = flow
    BY ReadIs
<1>2. pc' \in {pc, pc + 1} \/ (pc' = pc + 2 /\ s.use = "session")
    BY ReadIs
<1>3. pc \in Nat /\ InOrder(flow, s, pc)
    BY <1>1, StepInOrder
<1>4. NewAt(flow) \in {7, 9} /\ (flow \in Handovers <=> NewAt(flow) = 9)
    BY NewAtIs
<1>5. /\ s.use = "target" /\ pc' # pc =>
            down[s.conn] # <<>> /\ Head(down[s.conn]).type = s.type /\ ctx' = ctx
    BY ReadIs
<1> HIDE DEF s
<1>6. s.use = "session" => pc = NewAt(flow) + 6
    BY <1>1, <1>3 DEF InOrder
<1>7. pc' \in Nat /\ pc' >= pc
    BY <1>2, <1>3
<1>8. NewAt(flow)' = NewAt(flow)
    BY <1>1 DEF NewAt
<1>9. pc # NewAt(flow)
    BY <1>1, <1>3 DEF InOrder, Protects
<1>10. pc' <= NewAt(flow) <=> pc <= NewAt(flow)
    BY <1>2, <1>3, <1>4, <1>6, <1>9
<1>11. flow \in Handovers => pc # 19
    BY <1>1, <1>3 DEF InOrder
<1>12. flow \in Handovers => (pc' > 19 <=> pc > 19)
    BY <1>2, <1>3, <1>4, <1>6, <1>11
<1>13. ASSUME flow \in Handovers, pc <= 18, pc' > 18
       PROVE  /\ pc = 18 /\ pc' = 19 /\ ctx' = ctx
              /\ down["tgt"] # <<>> /\ Head(down["tgt"]).type = "HandoverRequest"
  <2>1. pc = 18 /\ pc' = 19
      BY <1>2, <1>3, <1>4, <1>6, <1>13
  <2>2. s.use = "target" /\ s.conn = "tgt" /\ s.type = "HandoverRequest"
      BY <1>3, <1>13, <2>1 DEF InOrder
  <2> QED
      BY <1>5, <2>1, <2>2
<1> QED
    BY <1>3, <1>7, <1>8, <1>10, <1>12, <1>13 DEF s

LEMMA DecodedKeepsUplink ==
    ASSUME Typed, NEW m \in Messages, NEW who \in {"ue", "target"}
    PROVE  Decoded(m)[who].ul = ctx[who].ul
BY DEF Decoded, Typed, Context

LEMMA TailIs ==
    ASSUME NEW q \in Seq(Messages), q # <<>>
    PROVE  /\ Len(q) \in Nat /\ Head(q) = q[1] /\ Head(q) \in Messages /\ 1 \in 1..Len(q)
           /\ Tail(q) \in Seq(Messages) /\ Len(Tail(q)) = Len(q) - 1
           /\ \A i \in 1..Len(Tail(q)) : i + 1 \in 1..Len(q) /\ Tail(q)[i] = q[i + 1]
OBVIOUS

LEMMA ReadKeepsUplink ==
    ASSUME Typed, flow \in Procedures, UplinkAgrees, AskedAfterAll, Reading
    PROVE  UplinkAgrees'
<1>1. UNCHANGED <<flow, up, amf>>
    BY ReadIs
<1>2. /\ pc \in Nat /\ pc' \in Nat
      /\ NewAt(flow)' = NewAt(flow) /\ (pc' <= NewAt(flow) <=> pc <= NewAt(flow))
      /\ flow \in Handovers => (pc' > 19 <=> pc > 19)
    BY ReadMoves
<1>3. ctx'["ue"].ul = ctx["ue"].ul /\ ctx'["target"].ul = ctx["target"].ul
  <2>1. CASE ctx' = ctx
      BY <2>1
  <2>2. CASE ctx' # ctx
    <3>1. ctx' = Decoded(Head(down[Step.conn])) /\ down[Step.conn] # <<>> /\ Step.conn \in Conn
        BY <2>2, ReadIs
    <3>2. Head(down[Step.conn]) \in Messages
        BY <3>1, QueuesAreTyped DEF Typed
    <3> QED
        BY <3>1, <3>2, DecodedKeepsUplink
  <2> QED
      BY <2>1, <2>2
<1>4. Copied' = Copied
    BY <1>1, <1>2 DEF Copied
<1>5. NextCount' = NextCount
    BY <1>3, <1>4 DEF NextCount
<1>6. NextCounts' = NextCounts
    BY <1>2, <1>5 DEF NextCounts
<1>7. CASE Moved' = Moved
  <2>1. Here' = Here /\ There' = There
      BY <1>7 DEF Here, There
  <2> QED
      BY <1>1, <1>6, <2>1 DEF UplinkAgrees
<1>8. CASE Moved' # Moved
  <2>1. flow \in Handovers /\ pc <= 18 /\ pc' > 18
      BY <1>1, <1>2, <1>8, ReadMoves DEF Moved
  <2>2. /\ pc = 18 /\ pc' = 19
        /\ down["tgt"] # <<>> /\ Head(down["tgt"]).type = "HandoverRequest"
      BY <2>1, ReadMoves
  <2>3. AllQuiet(up["src"])
    <3>1. down["tgt"] \in Seq(Messages)
        BY DEF Typed, Queues, Conn
    <3>2. 1 \in 1..Len(down["tgt"]) /\ down["tgt"][1].type = "HandoverRequest"
        BY <2>2, <3>1, TailIs
    <3> QED
        BY <3>2 DEF AskedAfterAll
  <2>4. Here = "src" /\ There = "tgt" /\ Here' = "tgt" /\ There' = "src"
      BY <1>1, <2>1, <2>2 DEF Here, There, Moved
  <2>5. Follows(up["src"], amf.ul, NextCounts) /\ AllQuiet(up["tgt"])
      BY <2>4 DEF UplinkAgrees
  <2>6. up["src"] \in Seq(Messages) /\ up["tgt"] \in Seq(Messages) /\ amf.ul \in Count
      BY DEF Typed, Queues, Conn, AmfStates
  <2>7. AddOne(amf.ul) \in NextCounts
      BY <2>3, <2>5, <2>6, FollowsQuiet
  <2>8. Follows(up["tgt"], amf.ul, NextCounts)
      BY <2>5, <2>6, <2>7, QuietFollows
  <2> QED
      BY <1>1, <1>6, <2>3, <2>4, <2>8 DEF UplinkAgrees
<1> QED
    BY <1>7, <1>8

LEMMA DownIs ==
    ASSUME Typed, Reading, NEW c \in Conn
    PROVE  \A i \in 1..Len(down'[c]) :
                \E j \in 1..Len(down[c]) : down'[c][i] = down[c][j]
<1>1. down[c] \in Seq(Messages)
    BY DEF Typed, Queues
<1>2. down'[c] = down[c] \/ (down[c] # <<>> /\ down'[c] = Tail(down[c]))
    BY ReadIs DEF Typed, Queues
<1>3. CASE down'[c] = down[c]
    BY <1>3
<1>4. CASE down[c] # <<>> /\ down'[c] = Tail(down[c])
    BY <1>1, <1>4, TailIs
<1> QED
    BY <1>2, <1>3, <1>4

LEMMA ReadKeepsAsked ==
    ASSUME Typed, flow \in Procedures, AskedAfterAll, Reading
    PROVE  AskedAfterAll'
<1>1. UNCHANGED <<flow, up>> /\ pc \in Nat /\ pc' \in Nat /\ pc' >= pc
    BY ReadIs, ReadMoves
<1>2. ASSUME NEW i \in 1..Len(down'["tgt"]), down'["tgt"][i].type = "HandoverRequest"
      PROVE  flow' \in Handovers /\ pc' > 17 /\ AllQuiet(up'["src"])
  <2>1. PICK j \in 1..Len(down["tgt"]) : down'["tgt"][i] = down["tgt"][j]
      BY DownIs DEF Conn
  <2>2. flow \in Handovers /\ pc > 17 /\ AllQuiet(up["src"])
      BY <1>2, <2>1 DEF AskedAfterAll
  <2> QED
      BY <1>1, <2>2
<1>3. ASSUME NEW i \in 1..Len(up["src"]), up["src"][i].type = "HandoverRequired"
      PROVE  /\ flow' \in Handovers /\ pc' > 17
             /\ \A j \in i + 1..Len(up["src"]) : Quiet(up["src"][j])
    BY <1>1, <1>3 DEF AskedAfterAll
<1> QED
    BY <1>1, <1>2, <1>3 DEF AskedAfterAll

\* What the UE decodes: the Security Mode Command, and the accepted session.
LEMMA DecodesExactly ==
    ASSUME Typed, flow \in Procedures, DownlinkAgrees, Reading, ctx' # ctx
    PROVE  /\ ctx'["ue"].dl = ctx["ue"].dl \/ ctx'["ue"].dl = Head(Head(down[Step.conn]).nas).count
           /\ Undecoded /\ Undecoded' => ctx'["ue"].dl = ZeroCount
<1> DEFINE s == Step
           m == Head(down[s.conn])
           p == Head(m.nas)
<1>1. /\ s.op = "recv" /\ s.conn \in Conn /\ down[s.conn] # <<>> /\ m.type = s.type
      /\ s.use \notin {"ignore", "target"} /\ pc' = pc + 1 /\ flow' = flow
      /\ ctx' = Decoded(m)
    BY ReadIs
<1>2. s.use \in {"challenge", "command", "session"}
    BY <1>1, StepIsTyped, StepsByOp, ReadIs DEF Uses
<1>3. InOrder(flow, s, pc) /\ pc \in Nat /\ NewAt(flow) \in {7, 9}
    BY ReadMoves, NewAtIs
<1> HIDE DEF s
<1>4. /\ s.conn = "src"
      /\ s.use = "session" => pc = NewAt(flow) + 6 /\ flow \in Sessions
      /\ s.use # "session" => s.type \in {"AuthenticationRequest", "SecurityModeCommand"}
    BY <1>1, <1>2, <1>3 DEF InOrder
<1>5. down[s.conn] \in Seq(Messages)
    BY <1>1 DEF Typed, Queues
<1>6. m \in Messages /\ 1 \in 1..Len(down[s.conn]) /\ m = down[s.conn][1]
    BY <1>1, <1>5, TailIs
<1> HIDE DEF m
<1>7. ReadsAgree(m)
    BY <1>4, <1>6 DEF DownlinkAgrees
<1>8. m.nas # NoNas => p \in ProtectedMessage
    BY <1>6, MessagesAreTyped
<1>9. ctx'["ue"].dl = IF m.nas = NoNas THEN ctx["ue"].dl ELSE Decode(ctx["ue"].dl, p)
    BY <1>1 DEF Decoded, Typed, Context
<1> HIDE DEF p
<1>10. CASE s.use = "session"
  <2>1. Undecoded /\ ~Undecoded'
      BY <1>1, <1>3, <1>4, <1>10 DEF Undecoded, NewAt
  <2>2. UndecodedAgrees
      BY <2>1 DEF DownlinkAgrees
  <2>3. CASE m.nas # NoNas
    <3>1. ctx["ue"].dl = ZeroCount /\ p.count.ovf = 0
        BY <1>4, <1>6, <2>2, <2>3 DEF UndecodedAgrees, p
    <3>2. p.sqn = p.count.sqn /\ p.count \in Count /\ p.sqn \in 0..SqnMod - 1
        BY <1>7, <1>8, <2>3 DEF ReadsAgree, ProtectedMessage, p
    <3>3. Decode(ZeroCount, p) = Estimate(ZeroCount, p.sqn)
        BY DEF Decode
    <3>4. Estimate(ZeroCount, p.sqn) = [ovf |-> 0, sqn |-> p.sqn]
        BY <3>2, WidthAssumption DEF Estimate, ZeroCount, SetCount
    <3>5. p.count = [ovf |-> 0, sqn |-> p.sqn]
        BY <3>1, <3>2 DEF Count
    <3> QED
        BY <1>9, <2>1, <2>3, <3>1, <3>3, <3>4, <3>5 DEF m, p, s
  <2> QED
      BY <1>9, <2>1, <2>3
<1>11. CASE s.use # "session" /\ m.nas = NoNas
    BY <1>9, <1>11 DEF DownlinkAgrees, UndecodedAgrees
<1>12. CASE s.use # "session" /\ m.nas # NoNas
  <2>1. m.nas = << Protected(ZeroCount, TRUE) >>
      BY <1>1, <1>4, <1>7, <1>12 DEF ReadsAgree
  <2>2. p = Protected(ZeroCount, TRUE)
      BY <2>1, CountsAreTyped, MessagesAreTyped DEF p
  <2>3. p.count = ZeroCount /\ p.sqn = 0 /\ p.newContext = TRUE
      BY <2>2 DEF Protected, ZeroCount, SetCount
  <2>4. Estimate(ZeroCount, 0) = ZeroCount
      BY DEF Estimate, ZeroCount, SetCount
  <2>5. Decode(ctx["ue"].dl, p) = ZeroCount
      BY <2>3, <2>4 DEF Decode
  <2> QED
      BY <1>9, <1>12, <2>3, <2>5 DEF m, p, s
<1> QED
    BY <1>10, <1>11, <1>12

LEMMA ReadKeepsDownlink ==
    ASSUME Typed, flow \in Procedures, DownlinkAgrees, Reading
    PROVE  DownlinkAgrees'
<1>1. UNCHANGED <<flow, up, amf>>
    BY ReadIs
<1>2. pc \in Nat /\ pc' \in Nat /\ pc' >= pc /\ NewAt(flow)' = NewAt(flow) /\ NewAt(flow) \in {7, 9}
    BY ReadMoves, NewAtIs
<1>3. \A i \in 1..Len(down'["src"]) : \E j \in 1..Len(down["src"]) : down'["src"][i] = down["src"][j]
    BY DownIs DEF Conn
<1>4. \A i \in 1..Len(down'["src"]) : ReadsAgree(down'["src"][i])
    BY <1>3 DEF DownlinkAgrees
<1>5. SUFFICES ASSUME Undecoded' PROVE UndecodedAgrees'
    BY <1>4 DEF DownlinkAgrees
<1>6. Undecoded /\ UndecodedAgrees
    BY <1>1, <1>2, <1>5 DEF Undecoded, DownlinkAgrees
<1>7. ctx'["ue"].dl = ZeroCount
    BY <1>5, <1>6, DecodesExactly DEF UndecodedAgrees
<1>8. \A i \in 1..Len(down'["src"]) :
          down'["src"][i].nas # NoNas => Head(down'["src"][i].nas).count.ovf = 0
    BY <1>3, <1>6 DEF UndecodedAgrees
<1>9. MostSent \in 0..4 /\ MostSent' \in 0..4 /\ MostSent <= MostSent'
    BY <1>1, <1>2 DEF MostSent
<1>10. up["src"] \in Seq(Messages) /\ Bounded(up["src"], amf.dl, MostSent)
    BY <1>6 DEF UndecodedAgrees, Typed, Queues, Conn
<1>11. Bounded(up'["src"], amf'.dl, MostSent')
    BY <1>1, <1>9, <1>10, BoundedMore
<1> QED
    BY <1>7, <1>8, <1>11 DEF UndecodedAgrees

LEMMA ReadKeepsCounts ==
    ASSUME CountsAgree, Reading
    PROVE  CountsAgree'
<1>1. Typed' /\ UNCHANGED <<flow, up>>
    BY ReadKeepsTypes, ReadIs DEF CountsAgree, Reading
<1>2. UplinkAgrees' /\ AskedAfterAll' /\ DownlinkAgrees'
    BY ReadKeepsUplink, ReadKeepsAsked, ReadKeepsDownlink DEF CountsAgree
<1>3. TaggedAreProtected'
    BY <1>1 DEF CountsAgree, TaggedAreProtected
<1> QED
    BY <1>1, <1>2, <1>3 DEF CountsAgree

\* The copy for the target counts on where the source's context stood, and the
\* source's counts are left alone.
LEMMA CopyKeepsCounts ==
    ASSUME CountsAgree, CopyForTarget \/ CopyTargetBack \/ AssumeId
    PROVE  CountsAgree'
<1> DEFINE s == Step
<1>1. /\ ~Finished /\ pc' = pc + 1 /\ UNCHANGED <<flow, up, down, amf>>
      /\ s.op \in {"copy", "copyBack", "setId"}
      /\ s.op = "copy" => CopyForTarget
      /\ s.op # "copyBack" => CopyForTarget \/ AssumeId
    BY DEF CopyForTarget, CopyTargetBack, AssumeId, Doing
<1>2. Typed /\ flow \in Procedures /\ ctx["ue"] \in Context /\ ctx \in [{"ue", "target"} -> Context]
    BY DEF CountsAgree, Typed
<1>3. Typed'
    BY <1>2, CopyKeepsTypes
<1>4. InOrder(flow, s, pc) /\ pc \in Nat
    BY <1>1, <1>2, StepInOrder
<1>5. NewAt(flow) \in {7, 9} /\ (flow \in Handovers <=> NewAt(flow) = 9)
    BY NewAtIs
<1> HIDE DEF s
<1>6. /\ s.op # "copyBack" /\ (s.op = "copy" => flow \in Handovers /\ pc = 19)
      /\ flow \in Handovers /\ pc = 19 => s.op = "copy"
      /\ flow \in Handovers => pc # 18
      /\ pc # NewAt(flow)
    BY <1>1, <1>4 DEF InOrder, Protects
<1>7. ctx'["ue"].ul = ctx["ue"].ul /\ ctx'["ue"].dl = ctx["ue"].dl
  <2>1. CASE CopyForTarget
      BY <1>2, <2>1 DEF CopyForTarget
  <2>2. CASE AssumeId
      BY <1>2, <2>2 DEF AssumeId, Context
  <2> QED
      BY <1>1, <1>6, <2>1, <2>2
<1>8. NewAt(flow)' = NewAt(flow) /\ Moved' = Moved /\ (pc' <= NewAt(flow) <=> pc <= NewAt(flow))
    BY <1>1, <1>4, <1>5, <1>6 DEF NewAt, Moved
<1>9. NextCount' = NextCount
  <2>1. CASE s.op = "copy"
    <3>1. /\ ctx' = [ctx EXCEPT !["target"] =
                      [TargetCopy(ctx["ue"]) EXCEPT !.id = IF Step.id = NoId THEN targetId ELSE Step.id]]
        BY <1>1, <2>1 DEF CopyForTarget
    <3>2. TargetCopy(ctx["ue"]) = ctx["ue"]
        BY <1>2, ContextsAreTyped
    <3>3. ctx'["target"].ul = ctx["ue"].ul
        BY <1>2, <3>1, <3>2 DEF Context
    <3>4. ~Copied /\ Copied'
        BY <1>1, <1>4, <1>6, <2>1 DEF Copied
    <3> QED
        BY <3>3, <3>4 DEF NextCount
  <2>2. CASE s.op # "copy"
    <3>1. AssumeId
        BY <1>1, <1>6, <2>2 DEF CopyForTarget, Doing, s
    <3>2. ctx'["target"] = ctx["target"]
        BY <1>2, <3>1 DEF AssumeId
    <3>3. Copied' = Copied
        BY <1>1, <1>4, <1>6, <2>2 DEF Copied
    <3> QED
        BY <1>7, <3>2, <3>3 DEF NextCount
  <2> QED
      BY <2>1, <2>2
<1>10. UplinkAgrees'
  <2>1. NextCounts' = NextCounts
      BY <1>8, <1>9 DEF NextCounts
  <2>2. Here' = Here /\ There' = There
      BY <1>8 DEF Here, There
  <2> QED
      BY <1>1, <2>1, <2>2 DEF CountsAgree, UplinkAgrees
<1>11. TaggedAreProtected'
    BY <1>1 DEF CountsAgree, TaggedAreProtected
<1>12. AskedAfterAll'
  <2>1. ASSUME NEW i \in 1..Len(up["src"]), up["src"][i].type = "HandoverRequired"
        PROVE  /\ flow \in Handovers /\ pc' > 17
               /\ \A j \in i + 1..Len(up["src"]) : Quiet(up["src"][j])
      BY <1>1, <1>4, <2>1 DEF CountsAgree, AskedAfterAll
  <2>2. ASSUME NEW i \in 1..Len(down["tgt"]), down["tgt"][i].type = "HandoverRequest"
        PROVE  flow \in Handovers /\ pc' > 17 /\ AllQuiet(up["src"])
      BY <1>1, <1>4, <2>2 DEF CountsAgree, AskedAfterAll
  <2> QED
      BY <1>1, <2>1, <2>2 DEF AskedAfterAll
<1>13. DownlinkAgrees'
  <2>1. \A i \in 1..Len(down'["src"]) : ReadsAgree(down'["src"][i])
      BY <1>1 DEF CountsAgree, DownlinkAgrees
  <2>2. SUFFICES ASSUME Undecoded' PROVE UndecodedAgrees'
      BY <2>1 DEF DownlinkAgrees
  <2>3. UndecodedAgrees
      BY <1>1, <1>4, <1>5, <1>8, <2>2 DEF CountsAgree, Undecoded, DownlinkAgrees
  <2>4. MostSent \in 0..4 /\ MostSent' \in 0..4 /\ MostSent <= MostSent'
      BY <1>1, <1>4, <1>5, <1>8 DEF MostSent
  <2>5. up["src"] \in Seq(Messages) /\ Bounded(up["src"], amf.dl, MostSent)
      BY <1>2, <2>3 DEF UndecodedAgrees, Typed, Queues, Conn
  <2>6. Bounded(up'["src"], amf'.dl, MostSent')
      BY <1>1, <2>4, <2>5, BoundedMore
  <2> QED
      BY <1>1, <1>7, <2>3, <2>6 DEF UndecodedAgrees
<1> QED
    BY <1>1, <1>2, <1>3, <1>10, <1>11, <1>12, <1>13 DEF CountsAgree

-----------------------------------------------------------------------------
(* Counts: the AMF reads, and answers                                       *)

\* The AMF takes the oldest message of an association, and may append an answer.
LEMMA AmfTakes ==
    ASSUME CountsAgree, NEW c \in Conn, Amf(c)
    PROVE  /\ up[c] \in Seq(Messages) /\ up[c] # <<>>
           /\ up'[c] = Tail(up[c]) /\ \A d \in Conn : d # c => up'[d] = up[d]
           /\ UNCHANGED <<flow, pc, halted, ctx, targetId>>
           /\ Typed /\ TaggedAreProtected /\ Replies(c) /\ Listens(c)
           /\ Head(up[c]).nas # NoNas <=> Head(up[c]).type \in Tagged
<1>1. Typed /\ TaggedAreProtected
    BY DEF CountsAgree
<1>2. up \in [Conn -> Seq(Messages)]
    BY <1>1 DEF Typed, Queues
<1>3. up[c] # <<>> /\ up' = [up EXCEPT ![c] = Tail(@)] /\ UNCHANGED <<flow, pc, halted, ctx, targetId>>
    BY AmfConsumes
<1>4. Head(up[c]).nas # NoNas <=> Head(up[c]).type \in Tagged
    BY <1>1, <1>2, <1>3, TailIs DEF TaggedAreProtected
<1> QED
    BY <1>1, <1>2, <1>3, <1>4, AmfReadsAndReplies

LEMMA RestIs ==
    ASSUME NEW q \in Seq(Messages), q # <<>>, NEW rest, rest = Tail(q)
    PROVE  \A i \in 1..Len(rest) :
             i + 1 \in 1..Len(q) /\ i + 1 \in 2..Len(q) /\ rest[i] = q[i + 1]
<1>1. \A i \in 1..Len(Tail(q)) : i + 1 \in 1..Len(q) /\ i + 1 \in 2..Len(q) /\ Tail(q)[i] = q[i + 1]
    OBVIOUS
<1> QED
    BY <1>1

\* A protected message is read with the count it was protected with.
LEMMA AmfHearsExactly ==
    ASSUME CountsAgree, NEW c \in Conn, Amf(c)
    PROVE  /\ Head(up[c]).nas # NoNas => amf'.ul = Head(Head(up[c]).nas).count
           /\ UplinkAgrees'
<1>1. /\ up[c] \in Seq(Messages) /\ up[c] # <<>> /\ up'[c] = Tail(up[c])
      /\ \A d \in Conn : d # c => up'[d] = up[d]
      /\ UNCHANGED <<flow, pc, ctx>> /\ Listens(c)
    BY AmfTakes
<1>2. Here' = Here /\ There' = There /\ NextCounts' = NextCounts
    BY <1>1 DEF Here, There, Moved, NextCounts, NextCount, Copied, NewAt
<1>3. Here \in Conn /\ There \in Conn /\ Here # There /\ (c = Here \/ c = There)
    BY DEF Here, There, Conn
<1>4. Follows(up[Here], amf.ul, NextCounts) /\ AllQuiet(up[There])
    BY DEF CountsAgree, UplinkAgrees
<1>5. amf'.ul = Hears(amf.ul, Head(up[c]))
    BY <1>1 DEF Listens
<1>6. CASE c = Here
  <2>1. /\ Follows(Tail(up[c]), amf'.ul, NextCounts)
        /\ Head(up[c]).nas # NoNas => amf'.ul = Head(Head(up[c]).nas).count
      BY <1>1, <1>4, <1>5, <1>6, FollowsTail
  <2> QED
      BY <1>1, <1>2, <1>3, <1>4, <1>6, <2>1 DEF UplinkAgrees
<1>7. CASE c = There
  <2>1. AllQuiet(Tail(up[c])) /\ amf'.ul = amf.ul
      BY <1>1, <1>4, <1>5, <1>7, QuietTail
  <2>2. Head(up[c]).nas = NoNas
      BY <1>1, <1>4, <1>7, TailIs DEF AllQuiet, Quiet
  <2> QED
      BY <1>1, <1>2, <1>3, <1>4, <1>7, <2>1, <2>2 DEF UplinkAgrees
<1> QED
    BY <1>3, <1>6, <1>7

LEMMA AmfKeepsTags ==
    ASSUME CountsAgree, NEW c \in Conn, Amf(c)
    PROVE  TaggedAreProtected'
<1>1. /\ up[c] \in Seq(Messages) /\ up[c] # <<>> /\ up'[c] = Tail(up[c])
      /\ \A d \in Conn : d # c => up'[d] = up[d]
      /\ TaggedAreProtected
    BY AmfTakes
<1>2. SUFFICES ASSUME NEW d \in Conn, NEW i \in 1..Len(up'[d])
               PROVE  up'[d][i].nas # NoNas <=> up'[d][i].type \in Tagged
    BY DEF TaggedAreProtected
<1>3. CASE d = c
  <2>1. i + 1 \in 1..Len(up[c]) /\ up'[c][i] = up[c][i + 1]
    <3>1. \A j \in 1..Len(up'[c]) : j + 1 \in 1..Len(up[c]) /\ up'[c][j] = up[c][j + 1]
        BY <1>1, RestIs
    <3> QED
        BY <1>2, <1>3, <3>1
  <2> QED
      BY <1>1, <1>3, <2>1 DEF TaggedAreProtected
<1>4. CASE d # c
    BY <1>1, <1>4 DEF TaggedAreProtected
<1> QED
    BY <1>3, <1>4

LEMMA AmfKeepsAsked ==
    ASSUME CountsAgree, NEW c \in Conn, Amf(c)
    PROVE  AskedAfterAll'
<1> DEFINE q == up["src"]
<1>1. /\ up[c] \in Seq(Messages) /\ up[c] # <<>> /\ up'[c] = Tail(up[c])
      /\ \A d \in Conn : d # c => up'[d] = up[d]
      /\ UNCHANGED <<flow, pc>> /\ Replies(c) /\ Typed
    BY AmfTakes
<1>2. /\ q \in Seq(Messages) /\ Len(q) \in Nat /\ "src" \in Conn /\ "tgt" \in Conn
      /\ AskedAfterAll /\ pc \in Nat
  <2>1. Len(Script(flow)) \in Nat
      BY ScriptIsProper DEF CountsAgree, ProperScript
  <2> QED
      BY <1>1, <2>1 DEF CountsAgree, Typed, Queues, Conn
<1>3. up'["src"] = q \/ (c = "src" /\ q # <<>> /\ up'["src"] = Tail(q))
    BY <1>1, <1>2
<1> HIDE DEF q
<1>4. \A i \in 1..Len(up'["src"]) : \E j \in 1..Len(q) : up'["src"][i] = q[j]
  <2>1. CASE up'["src"] = q
      BY <2>1
  <2>2. CASE q # <<>> /\ up'["src"] = Tail(q)
      BY <1>2, <2>2, RestIs
  <2> QED
      BY <1>3, <2>1, <2>2
<1>5. AllQuiet(q) => AllQuiet(up'["src"])
    BY <1>4 DEF AllQuiet
<1>6. ASSUME NEW i \in 1..Len(up'["src"]), up'["src"][i].type = "HandoverRequired"
      PROVE  /\ flow \in Handovers /\ pc > 17
             /\ \A j \in i + 1..Len(up'["src"]) : Quiet(up'["src"][j])
  <2>1. CASE up'["src"] = q
    <3>1. i \in 1..Len(q) /\ q[i].type = "HandoverRequired"
        BY <1>6, <2>1
    <3>2. flow \in Handovers /\ pc > 17 /\ \A j \in i + 1..Len(q) : Quiet(q[j])
        BY <1>2, <3>1 DEF AskedAfterAll, q
    <3> QED
        BY <2>1, <3>2
  <2>2. CASE q # <<>> /\ up'["src"] = Tail(q)
    <3>1. i + 1 \in 1..Len(q) /\ q[i + 1].type = "HandoverRequired"
        BY <1>2, <1>6, <2>2, TailIs
    <3>2. flow \in Handovers /\ pc > 17 /\ \A j \in i + 2..Len(q) : Quiet(q[j])
        BY <1>2, <3>1 DEF AskedAfterAll, q
    <3>3. \A j \in i + 1..Len(up'["src"]) : j + 1 \in i + 2..Len(q) /\ up'["src"][j] = q[j + 1]
        BY <1>2, <2>2, TailIs
    <3> QED
        BY <3>2, <3>3
  <2> QED
      BY <1>3, <2>1, <2>2
<1>7. ASSUME NEW i \in 1..Len(down'["tgt"]), down'["tgt"][i].type = "HandoverRequest"
      PROVE  flow \in Handovers /\ pc > 17 /\ AllQuiet(up'["src"])
  <2>1. CASE i \in 1..Len(down["tgt"]) /\ down'["tgt"][i] = down["tgt"][i]
    <3>1. flow \in Handovers /\ pc > 17 /\ AllQuiet(q)
        BY <1>2, <1>7, <2>1 DEF AskedAfterAll, q
    <3> QED
        BY <1>5, <3>1
  <2>2. CASE ~(i \in 1..Len(down["tgt"]) /\ down'["tgt"][i] = down["tgt"][i])
    <3>1. down["tgt"] \in Seq(Messages) /\ down \in [Conn -> Seq(Messages)]
        BY <1>1, <1>2 DEF Typed, Queues
    <3>2. PICK d \in Conn, m \in Messages : Reply(c, d, m)
        BY <1>1, <1>7, <2>2 DEF Replies, Ignored
    <3>3. d = "tgt" /\ down'["tgt"] = Append(down["tgt"], m)
        BY <1>2, <1>7, <2>2, <3>1, <3>2 DEF Reply
    <3>4. down'["tgt"][i] = m
        BY <1>7, <2>2, <3>1, <3>3, AppendIs
    <3>5. Head(up[c]).type = "HandoverRequired" /\ d = Other(c)
        BY <1>7, <3>2, <3>4 DEF Reply
    <3>6. c = "src"
        BY <3>3, <3>5 DEF Other, Conn
    <3>7. 1 \in 1..Len(q) /\ q[1].type = "HandoverRequired"
        BY <1>1, <1>2, <3>5, <3>6, TailIs DEF q
    <3>8. flow \in Handovers /\ pc > 17 /\ \A j \in 2..Len(q) : Quiet(q[j])
        BY <1>2, <3>7 DEF AskedAfterAll, q
    <3>9. \A j \in 1..Len(up'["src"]) : j + 1 \in 2..Len(q) /\ up'["src"][j] = q[j + 1]
        BY <1>1, <1>2, <3>6, RestIs DEF q
    <3> QED
        BY <3>8, <3>9 DEF AllQuiet
  <2> QED
      BY <2>1, <2>2
<1> QED
    BY <1>1, <1>6, <1>7 DEF AskedAfterAll

LEMMA SmallNext ==
    ASSUME SqnMod > 3, NEW a \in Count, NEW n \in 0..4, Small(a, n)
    PROVE  /\ Small(a, n + 1) /\ Small(AddOne(a), n + 1)
           /\ Small(AddOne(ZeroCount), 1)
<1>1. SqnMod \in Nat /\ a.sqn \in Nat /\ a.ovf \in Nat
    BY WidthAssumption DEF Count
<1>2. Small(a, n + 1)
    BY <1>1 DEF Small
<1>3. Small(AddOne(a), n + 1)
  <2>1. SUFFICES ASSUME n + 1 < 4 PROVE AddOne(a).ovf = 0 /\ AddOne(a).sqn <= n + 1
      BY DEF Small
  <2>2. a.ovf = 0 /\ a.sqn <= n /\ a.sqn + 1 # SqnMod
      BY <1>1, <2>1 DEF Small
  <2> QED
      BY <1>1, <2>2 DEF AddOne, Count
<1>4. Small(AddOne(ZeroCount), 1)
  <2>1. ZeroCount \in Count /\ ZeroCount.ovf = 0 /\ ZeroCount.sqn = 0
      BY CountsAreTyped DEF ZeroCount, SetCount
  <2>2. AddOne(ZeroCount).ovf = 0 /\ AddOne(ZeroCount).sqn = 1
      BY <1>1, <2>1 DEF AddOne, Count
  <2> QED
      BY <2>2 DEF Small
<1> QED
    BY <1>2, <1>3, <1>4

LEMMA AmfKeepsDownlink ==
    ASSUME SqnMod > 3, CountsAgree, NEW c \in Conn, Amf(c)
    PROVE  DownlinkAgrees'
<1> DEFINE h == Head(up[c])
<1>1. /\ up[c] \in Seq(Messages) /\ up[c] # <<>> /\ up'[c] = Tail(up[c])
      /\ \A d \in Conn : d # c => up'[d] = up[d]
      /\ UNCHANGED <<flow, pc, ctx>> /\ Replies(c) /\ Typed
      /\ h.nas # NoNas <=> h.type \in Tagged
    BY AmfTakes
<1>2. /\ down["src"] \in Seq(Messages) /\ "src" \in Conn /\ down \in [Conn -> Seq(Messages)]
      /\ up["src"] \in Seq(Messages) /\ amf.dl \in Count /\ DownlinkAgrees
    BY <1>1 DEF CountsAgree, Typed, Queues, Conn, AmfStates
<1>3. /\ flow \in Procedures /\ NewAt(flow) \in {7, 9} /\ NewAt(flow)' = NewAt(flow)
      /\ flow \in Handovers <=> NewAt(flow) = 9
    BY <1>1, NewAtIs DEF CountsAgree, NewAt
<1>4. \A d \in Conn, m \in Messages : Reply(c, d, m) =>
        down'["src"] = down["src"] \/ (d = "src" /\ down'["src"] = Append(down["src"], m))
    BY <1>2 DEF Reply
<1>5. ASSUME NEW i \in 1..Len(down'["src"])
      PROVE  \/ \E j \in 1..Len(down["src"]) : down'["src"][i] = down["src"][j]
             \/ \E m \in Messages : Reply(c, "src", m) /\ down'["src"][i] = m
  <2>1. CASE down'["src"] = down["src"]
      BY <2>1
  <2>2. CASE down'["src"] # down["src"]
    <3>1. PICK m \in Messages : Reply(c, "src", m) /\ down'["src"] = Append(down["src"], m)
        BY <1>1, <1>4, <2>2 DEF Replies, Ignored
    <3> QED
        BY <1>2, <3>1, AppendIs
  <2> QED
      BY <2>1, <2>2
<1>6. \A i \in 1..Len(down'["src"]) : ReadsAgree(down'["src"][i])
    BY <1>2, <1>5 DEF DownlinkAgrees, Reply
<1>7. SUFFICES ASSUME Undecoded' PROVE UndecodedAgrees'
    BY <1>6 DEF DownlinkAgrees
<1>8. Undecoded /\ UndecodedAgrees /\ MostSent' = MostSent
    BY <1>1, <1>2, <1>3, <1>7 DEF Undecoded, DownlinkAgrees, MostSent
<1>9. MostSent \in 0..4 /\ Bounded(up["src"], amf.dl, MostSent)
    BY <1>3, <1>8 DEF MostSent, UndecodedAgrees
<1>10. c # "src" => h.nas = NoNas /\ h.type # "AuthenticationResponse"
  <2>1. SUFFICES ASSUME c # "src" PROVE Quiet(h)
      BY DEF Quiet
  <2>2. pc \in Nat /\ pc <= 15
    <3>1. Len(Script(flow)) \in Nat
        BY <1>3, ScriptIsProper DEF ProperScript
    <3> QED
        BY <1>1, <1>3, <1>8, <3>1 DEF Typed, Undecoded
  <2>3. There = c
      BY <2>1, <2>2 DEF There, Moved, Conn
  <2>4. AllQuiet(up[c])
      BY <2>3 DEF CountsAgree, UplinkAgrees
  <2> QED
      BY <1>1, <2>4, TailIs DEF AllQuiet
<1> HIDE DEF h
<1>11. /\ h.type = "AuthenticationResponse" => amf'.dl = AddOne(ZeroCount)
       /\ h.type # "AuthenticationResponse" => amf'.dl = amf.dl \/ amf'.dl = AddOne(amf.dl)
       /\ h.type # "AuthenticationResponse" /\ h.nas = NoNas => amf'.dl = amf.dl
  <2>1. "AuthenticationResponse" \notin Tagged
      BY DEF Tagged
  <2>2. CASE Ignored(c)
      BY <2>2 DEF Ignored, h
  <2>3. CASE \E d \in Conn, m \in Messages : Reply(c, d, m)
      BY <1>1, <2>1, <2>3 DEF Reply, h
  <2> QED
      BY <1>1, <2>2, <2>3 DEF Replies
<1>12. Bounded(up'["src"], amf'.dl, MostSent)
  <2>1. CASE c # "src"
    <3>1. up'["src"] = up["src"] /\ amf'.dl = amf.dl
        BY <1>1, <1>2, <1>10, <1>11, <2>1
    <3> QED
        BY <1>9, <3>1
  <2>2. CASE c = "src"
    <3>1. ASSUME NEW n \in 0..4, Small(amf.dl, n), Sent(n, h) \in 0..4
          PROVE  Small(amf'.dl, Sent(n, h))
      <4>1. CASE h.type = "AuthenticationResponse"
          BY <1>2, <1>11, <3>1, <4>1, SmallNext DEF Sent
      <4>2. CASE h.type # "AuthenticationResponse" /\ h.nas = NoNas
          BY <1>11, <3>1, <4>2 DEF Sent
      <4>3. CASE h.type # "AuthenticationResponse" /\ h.nas # NoNas
        <5>1. Small(amf.dl, n + 1) /\ Small(AddOne(amf.dl), n + 1)
            BY <1>2, <3>1, SmallNext
        <5>2. Sent(n, h) = n + 1
            BY <4>3 DEF Sent
        <5> QED
            BY <1>11, <4>3, <5>1, <5>2
      <4> QED
          BY <4>1, <4>2, <4>3
    <3>2. Bounded(Tail(up["src"]), amf'.dl, MostSent)
        BY <1>1, <1>9, <2>2, <3>1, BoundedTail DEF h
    <3> QED
        BY <1>1, <2>2, <3>2
  <2> QED
      BY <2>1, <2>2
<1>13. ASSUME NEW m \in Messages, Reply(c, "src", m), m.nas # NoNas
       PROVE  Head(m.nas).count.ovf = 0
  <2>1. CASE h.type = "AuthenticationResponse" /\ Head(m.nas).count = ZeroCount
      BY <2>1 DEF ZeroCount, SetCount
  <2>2. CASE h.type \in Tagged /\ Head(m.nas).count = amf.dl
    <3>1. h.nas # NoNas /\ h.type # "AuthenticationResponse" /\ c = "src"
        BY <1>1, <1>10, <2>2 DEF Tagged, h
    <3>2. amf.dl.ovf = 0
        BY <1>1, <1>2, <1>9, <3>1, BoundedHead DEF h
    <3> QED
        BY <2>2, <3>2
  <2> QED
      BY <1>13, <2>1, <2>2 DEF Reply, h
<1>14. \A i \in 1..Len(down'["src"]) :
          down'["src"][i].nas # NoNas => Head(down'["src"][i].nas).count.ovf = 0
    BY <1>5, <1>8, <1>13 DEF UndecodedAgrees
<1>15. ctx'["ue"].dl = ZeroCount
    BY <1>1, <1>8 DEF UndecodedAgrees
<1> QED
    BY <1>8, <1>12, <1>14, <1>15 DEF UndecodedAgrees

LEMMA AmfKeepsCounts ==
    ASSUME SqnMod > 3, CountsAgree, NEW c \in Conn, Amf(c)
    PROVE  CountsAgree'
<1>1. Typed' /\ flow' = flow
    BY AmfTakes, AmfKeepsTypes
<1>2. UplinkAgrees' /\ TaggedAreProtected' /\ AskedAfterAll' /\ DownlinkAgrees'
    BY AmfHearsExactly, AmfKeepsTags, AmfKeepsAsked, AmfKeepsDownlink
<1> QED
    BY <1>1, <1>2 DEF CountsAgree

-----------------------------------------------------------------------------
(* Counts: the theorem                                                      *)

LEMMA StepKeepsCounts ==
    ASSUME SqnMod > 3, CountsAgree, [Next]_vars
    PROVE  CountsAgree'
<1>1. CASE WriteInitial
    BY <1>1, WriteKeepsCounts DEF WriteInitial, NoId
<1>2. CASE WriteAssociated
  <2>1. Step.who \in {"ue", "target"} /\ Step.shift \in Nat
      BY <1>2, StepIsTyped, StepsByOp DEF CountsAgree, WriteAssociated, Doing
  <2>2. ctx[Step.who].id + Step.shift \in Nat
      BY <2>1 DEF CountsAgree, Typed, Context
  <2> QED
      BY <1>2, <2>2, WriteKeepsCounts DEF WriteAssociated
<1>3. CASE Reading
    BY <1>3, ReadKeepsCounts
<1>4. CASE CopyForTarget \/ CopyTargetBack \/ AssumeId
    BY <1>4, CopyKeepsCounts
<1>5. CASE \E c \in Conn : Amf(c)
    BY <1>5, AmfKeepsCounts
<1>6. CASE UNCHANGED vars
  <2>1. Typed' /\ flow' = flow /\ flow \in Procedures
      BY <1>6 DEF CountsAgree, Typed, vars
  <2>2. UplinkAgrees' /\ TaggedAreProtected' /\ AskedAfterAll'
      BY <1>6 DEF CountsAgree, UplinkAgrees, TaggedAreProtected, AskedAfterAll, vars,
                  Here, There, Moved, NextCounts, NextCount, Copied
  <2>3. DownlinkAgrees'
      BY <1>6 DEF CountsAgree, DownlinkAgrees, UndecodedAgrees, Undecoded, MostSent, vars
  <2> QED
      BY <2>1, <2>2, <2>3 DEF CountsAgree
<1> QED
    BY <1>1, <1>2, <1>3, <1>4, <1>5, <1>6 DEF Next, Harness, Reading, Over

LEMMA CountsAgreeInitially ==
    ASSUME Flows \subseteq Procedures, Init
    PROVE  CountsAgree
<1>1. Typed /\ flow \in Procedures /\ pc = 1
    BY InitIsTyped DEF Typed, Init
<1>2. /\ \A c \in Conn : up[c] = <<>> /\ down[c] = <<>>
      /\ amf.ul = ZeroCount /\ amf.dl = ZeroCount /\ ctx["ue"].dl = ZeroCount
    BY DEF Init
<1>3. NewAt(flow) \in {7, 9} /\ "src" \in Conn /\ "tgt" \in Conn
    BY NewAtIs DEF Conn
<1>4. Len(<<>>) = 0 /\ <<>> \in Seq(Messages) /\ AllQuiet(<<>>)
    BY DEF AllQuiet
<1>5. UplinkAgrees
  <2>1. Here = "src" /\ There = "tgt" /\ NextCounts = Count
      BY <1>1, <1>3 DEF Here, There, Moved, NextCounts
  <2>2. Follows(<<>>, ZeroCount, Count)
      BY <1>4, CountsAreTyped, QuietFollows
  <2> QED
      BY <1>2, <1>3, <1>4, <2>1, <2>2 DEF UplinkAgrees
<1>6. TaggedAreProtected /\ AskedAfterAll
    BY <1>2, <1>3, <1>4 DEF TaggedAreProtected, AskedAfterAll
<1>7. DownlinkAgrees
  <2>1. MostSent = 0
      BY <1>1, <1>3 DEF MostSent
  <2>2. Bounds([i \in 0..0 |-> 0], <<>>, ZeroCount, 0)
      BY <1>4 DEF Bounds, Small, ZeroCount, SetCount
  <2>3. Bounded(<<>>, ZeroCount, 0)
      BY <2>2 DEF Bounded
  <2> QED
      BY <1>2, <1>3, <1>4, <2>1, <2>3 DEF DownlinkAgrees, UndecodedAgrees
<1> QED
    BY <1>1, <1>5, <1>6, <1>7 DEF CountsAgree

\* The two steps of CountsExact.
UplinkExact ==
    \A c \in Conn : up[c] # <<>> /\ up'[c] = Tail(up[c]) /\ Head(up[c]).nas # NoNas
        => amf'.ul = Head(Head(up[c]).nas).count
DownlinkExact ==
    ctx'["ue"].dl # ctx["ue"].dl /\ down' # down
        => ctx'["ue"].dl = Head(Head(down[Step.conn]).nas).count

\* The tail of a queue is neither the queue itself nor the queue extended.
LEMMA TailDiffers ==
    ASSUME NEW q \in Seq(Messages), q # <<>>
    PROVE  q # Tail(q) /\ \A m : Append(q, m) # Tail(q)
<1> DEFINE t == Tail(q)
<1>1. Len(t) = Len(q) - 1 /\ Len(q) \in Nat
    OBVIOUS
<1>2. \A m : Len(Append(q, m)) = Len(q) + 1
    OBVIOUS
<1> HIDE DEF t
<1>3. q # t
    BY <1>1
<1>4. ASSUME NEW m PROVE Append(q, m) # t
  <2> DEFINE l == Append(q, m)
  <2>1. Len(l) = Len(q) + 1
      BY <1>2
  <2> HIDE DEF l
  <2>2. l # t
      BY <1>1, <2>1
  <2> QED
      BY <2>2 DEF l
<1> QED
    BY <1>3, <1>4 DEF t

LEMMA WritesTakeNothing ==
    ASSUME CountsAgree, WriteInitial \/ WriteAssociated, NEW c \in Conn, up[c] # <<>>
    PROVE  up'[c] # Tail(up[c]) /\ down' = down
<1>1. PICK id : Write(id)
    BY DEF WriteInitial, WriteAssociated
<1>2. Step.conn \in Conn
    BY StepIsTyped, StepsByOp DEF CountsAgree, WriteInitial, WriteAssociated, Doing
<1>3. up[c] \in Seq(Messages) /\ up \in [Conn -> Seq(Messages)]
    BY DEF CountsAgree, Typed, Queues
<1>4. down' = down /\ \E m : up'[c] = up[c] \/ up'[c] = Append(up[c], m)
    BY <1>1, <1>2, <1>3 DEF Write
<1>5. up[c] # Tail(up[c]) /\ \A m : Append(up[c], m) # Tail(up[c])
    BY <1>3, TailDiffers
<1> QED
    BY <1>4, <1>5

LEMMA StepIsExact ==
    ASSUME CountsAgree, [Next]_vars
    PROVE  [UplinkExact]_vars /\ [DownlinkExact]_vars
<1>1. CASE WriteInitial \/ WriteAssociated
  <2>1. down' = down
      BY <1>1 DEF WriteInitial, WriteAssociated, Write
  <2> QED
      BY <1>1, <2>1, WritesTakeNothing DEF UplinkExact, DownlinkExact
<1>2. \A c \in Conn : up[c] # <<>> => up[c] # Tail(up[c])
  <2> SUFFICES ASSUME NEW c \in Conn, up[c] # <<>> PROVE up[c] # Tail(up[c])
      OBVIOUS
  <2>1. up[c] \in Seq(Messages)
      BY DEF CountsAgree, Typed, Queues
  <2> QED
      BY <2>1, TailDiffers
<1>3. CASE Reading
  <2>1. up' = up
      BY <1>3, ReadIs DEF CountsAgree
  <2>2. DownlinkExact
      BY <1>3, DecodesExactly DEF CountsAgree, DownlinkExact
  <2> QED
      BY <1>2, <2>1, <2>2 DEF UplinkExact
<1>4. CASE CopyForTarget \/ CopyTargetBack \/ AssumeId
  <2>1. up' = up /\ down' = down
      BY <1>4 DEF CopyForTarget, CopyTargetBack, AssumeId
  <2> QED
      BY <1>2, <2>1 DEF UplinkExact, DownlinkExact
<1>5. ASSUME NEW d \in Conn, Amf(d) PROVE UplinkExact /\ DownlinkExact
  <2>1. ctx' = ctx /\ \A c \in Conn : c # d => up'[c] = up[c]
      BY <1>5, AmfTakes
  <2>2. Head(up[d]).nas # NoNas => amf'.ul = Head(Head(up[d]).nas).count
      BY <1>5, AmfHearsExactly
  <2> QED
      BY <1>2, <2>1, <2>2 DEF UplinkExact, DownlinkExact
<1> QED
    BY <1>1, <1>3, <1>4, <1>5 DEF Next, Harness, Reading, Over

\* Both ends reconstruct the count of every NAS message they decode, in every
\* procedure but TestMultiN2Handover, whatever the widths of the counts, the
\* first identifier and the pace of the AMF: NASEncode, NASDecode and the copy
\* made for the target (ranUe.go, security.go, registration_test.go).  Of the
\* sequence number it takes more than 3: the accepted session, the first
\* downlink message after the Security Mode Command that is decoded, has count 3.
THEOREM AlwaysCountsExactly ==
    ASSUME Flows \subseteq Procedures, SqnMod > 3
    PROVE  Spec => CountsExact
<1>1. Init => CountsAgree
    BY CountsAgreeInitially
<1>2. CountsAgree /\ [Next]_vars => CountsAgree'
    BY StepKeepsCounts
<1>3. CountsAgree /\ [Next]_vars => [UplinkExact]_vars /\ [DownlinkExact]_vars
    BY StepIsExact
<1>4. Spec => [][UplinkExact]_vars /\ [][DownlinkExact]_vars
    BY <1>1, <1>2, <1>3, PTL DEF Spec
<1> QED
    BY <1>4 DEF CountsExact, UplinkExact, DownlinkExact
=============================================================================
