---------------------------- MODULE N2Procedures ----------------------------
(***************************************************************************)
(* The test procedures of one emulated UE over one or two N2 associations: *)
(* registration, PDU session establishment, N2 handover and, in            *)
(* TestPaging, release and paging.  A procedure is straight-line code that *)
(* writes a message or blocks in a Read, and what a Read returns is taken  *)
(* for the message the code expects there: most results are never looked   *)
(* at.  So a procedure is a sequence of steps (Script), one action runs    *)
(* the next one, and the AMF answers at its own pace on FIFO associations. *)
(*                                                                         *)
(* The AMF is external: it answers as the procedures' reads and comments   *)
(* say, including the Configuration Update Command after the first         *)
(* Registration Complete (registration_test.go:453).                       *)
(***************************************************************************)
EXTENDS NasCount, Sequences

CONSTANTS
    Flows,     \* the procedures of this instance
    Rounds,    \* handovers of TestMultiN2Handover: its workload, 10 in the code
    FirstIds,  \* the AMF UE NGAP IDs the AMF may allocate first; 1 when freshly started
    Late       \* TRUE: an AMF that may be slower than a read timeout, or never answer

ASSUME FlowAssumption ==
    /\ Flows \subseteq {"TestRegistration", "SingleRegistration", "TestN2Handover", "SingleN2Handover",
                       "TestMultiN2Handover", "TestPaging", "UeRanEmulator", "XioRegistration"}
    /\ Rounds \in Nat \ {0} /\ FirstIds \subseteq Nat \ {0} /\ Late \subseteq BOOLEAN

Conn  == {"src", "tgt"}
Other(c) == IF c = "src" THEN "tgt" ELSE "src"
NoId  == 0

VARIABLES
    flow,      \* the procedure that runs
    pc,        \* its next step
    halted,    \* it ended early: a panic or a failed require
    ctx,       \* the UE contexts "ue" and "target": [id, ul, dl]
    targetId,  \* the AMF UE NGAP ID read from Handover Request
    up, down,  \* up[c], down[c]: the two directions of association c
    amf        \* the AMF's view of the UE: ids given out and to come, counts, the
               \* responses it waits for, whether the UE's configuration was updated;
               \* and whether it may be late

vars == <<flow, pc, halted, ctx, targetId, up, down, amf>>

\* A message; nas is the protected NAS message it carries, if any.
Message(type, id, nas) == [type |-> type, id |-> id, nas |-> nas]
NoNas == <<>>

-----------------------------------------------------------------------------
(* Steps                                                                    *)

\* Write: nas says whether the NAS message is protected, and in a new context;
\* who is the context used, shift what the code adds to its id.
Send(c, type, nas, who) ==
    [op |-> "send", conn |-> c, type |-> type, nas |-> nas, who |-> who, shift |-> 0]
InitialUE(c, type, nas, who) == [Send(c, type, nas, who) EXCEPT !.op = "initial"]

\* Read, and what is done with the result:
\*   "ignore"  nothing            "challenge" decoded, type required, id learnt
\*   "command" decoded, required  "session"   decoded; another type ends the session
\*   "target"  the target's id is taken from it
Recv(c, type, use) == [op |-> "recv", conn |-> c, type |-> type, use |-> use]

\* The source context is copied for the target, with the id read or a guess;
\* the copy becomes the source context of the next round.
Copy(id) == [op |-> "copy", id |-> id]
CopyBack == [op |-> "copyBack"]
SetId(id) == [op |-> "setId", id |-> id]

NGSetup(c) == << Send(c, "NGSetupRequest", "none", "gnb"), Recv(c, "NGSetupResponse", "ignore") >>

\* Registration Request ... Registration Complete.
Registration ==
    << InitialUE("src", "RegistrationRequest", "plain", "ue"),
       Recv("src", "AuthenticationRequest", "challenge"),
       Send("src", "AuthenticationResponse", "plain", "ue"),
       Recv("src", "SecurityModeCommand", "command"),
       Send("src", "SecurityModeComplete", "new", "ue"),
       Recv("src", "InitialContextSetupRequest", "ignore"),
       Send("src", "InitialContextSetupResponse", "none", "ue"),
       Send("src", "RegistrationComplete", "protected", "ue") >>

\* Variant: the read of the Configuration Update Command is forgotten.
SessionOneRead ==
    << Send("src", "PduSessionRequest", "protected", "ue"),
       Recv("src", "PDUSessionResourceSetupRequest", "session"),
       Send("src", "PDUSessionResourceSetupResponse", "none", "ue") >>

EstablishPduSession ==
    << Send("src", "PduSessionRequest", "protected", "ue"),
       Recv("src", "ConfigurationUpdateCommand", "ignore"),
       Recv("src", "PDUSessionResourceSetupRequest", "session"),
       Send("src", "PDUSessionResourceSetupResponse", "none", "ue") >>

\* The same in TestRegistration, which does not decode the accepted session.
SessionInline ==
    [EstablishPduSession EXCEPT ![3] = Recv("src", "PDUSessionResourceSetupRequest", "ignore")]

\* The preparation phase of a handover from association s to t; guess is the
\* target's id where the code assumes one instead of reading it.
Preparation(s, t, guess) ==
    << Send(s, "HandoverRequired", "none", "ue"),
       Recv(t, "HandoverRequest", IF guess = NoId THEN "target" ELSE "ignore"),
       Copy(guess),
       Send(t, "HandoverRequestAcknowledge", "none", "target") >>

\* Variants: the release is confirmed before its command has been read; the
\* command is waited for before the notification that makes the AMF send it.
EagerRelease(s, t, shift) ==
    << Recv(s, "HandoverCommand", "ignore"),
       Send(t, "HandoverNotify", "none", "target"),
       [Send(s, "UEContextReleaseComplete", "none", "ue") EXCEPT !.shift = shift],
       Recv(s, "UEContextReleaseCommand", "ignore") >>
LateNotify(s, t, shift) ==
    << Recv(s, "HandoverCommand", "ignore"),
       Recv(s, "UEContextReleaseCommand", "ignore"),
       Send(t, "HandoverNotify", "none", "target"),
       [Send(s, "UEContextReleaseComplete", "none", "ue") EXCEPT !.shift = shift] >>

\* The execution phase; shift is added to the id that is released.
Execution(s, t, shift) ==
    << Recv(s, "HandoverCommand", "ignore"),
       Send(t, "HandoverNotify", "none", "target"),
       Recv(s, "UEContextReleaseCommand", "ignore"),
       [Send(s, "UEContextReleaseComplete", "none", "ue") EXCEPT !.shift = shift] >>

\* The mobility registration at the target, with the response that is sent.
Mobility(t, request, response) ==
    << request,
       Recv(t, "InitialContextSetupRequest", "ignore"),
       Send(t, response, "none", "target"),
       Send(t, "RegistrationComplete", "protected", "target") >>

TestRegistration   == NGSetup("src") \o Registration \o SessionInline
SingleRegistration == NGSetup("src") \o Registration \o EstablishPduSession

\* The Initial Context Setup Request is answered with a PDU Session Resource
\* Setup Response (GetPDUSessionResourceSetupResponseForPaging).
TestN2Handover ==
    NGSetup("src") \o NGSetup("tgt") \o Registration \o EstablishPduSession
    \o Preparation("src", "tgt", NoId) \o Execution("src", "tgt", 0)
    \o Mobility("tgt", Send("tgt", "MobilityRegistration", "protected", "target"),
                "PDUSessionResourceSetupResponse")
SingleN2Handover == TestN2Handover

\* Round i of TestMultiN2Handover (from 0): the target's id is assumed to be
\* i + 2, i is added to the source's, and the context is copied back.
Round(i) ==
    LET s == IF i % 2 = 0 THEN "src" ELSE "tgt"
        t == Other(s)
    IN  Preparation(s, t, i + 2) \o Execution(s, t, i)
        \o Mobility(t, InitialUE(t, "MobilityRegistration", "protected", "target"),
                    "InitialContextSetupResponse")
        \o << CopyBack >>

TestMultiN2Handover ==
    LET rounds[i \in 0..Rounds] == IF i = 0 THEN <<>> ELSE rounds[i - 1] \o Round(i - 1)
    IN  NGSetup("src") \o NGSetup("tgt") \o Registration \o EstablishPduSession \o rounds[Rounds]

\* TestPaging: the Security Mode Command is not decoded, one read follows the
\* session request, and the id after the Service Request is assumed to be 2.
TestPaging ==
    NGSetup("src")
    \o [Registration EXCEPT ![4] = Recv("src", "SecurityModeCommand", "ignore")]
    \o << Send("src", "PduSessionRequest", "protected", "ue"),
          Recv("src", "PDUSessionResourceSetupRequest", "ignore"),
          Send("src", "PDUSessionResourceSetupResponse", "none", "ue"),
          Send("src", "UEContextReleaseRequest", "none", "ue"),
          Recv("src", "UEContextReleaseCommand", "ignore"),
          Send("src", "UEContextReleaseComplete", "none", "ue"),
          Recv("src", "Paging", "ignore"),
          SetId(2),
          InitialUE("src", "ServiceRequest", "protected", "ue"),
          Recv("src", "InitialContextSetupRequest", "ignore"),
          Send("src", "InitialContextSetupResponse", "none", "ue") >>

\* The program ueRanEmulator and the tester of xio_test keep the id they are
\* given; the emulator, too, reads once after the session request.
UeRanEmulator ==
    NGSetup("src")
    \o [Registration EXCEPT ![2] = Recv("src", "AuthenticationRequest", "command"),
                            ![4] = Recv("src", "SecurityModeCommand", "ignore")]
    \o << Send("src", "PduSessionRequest", "protected", "ue"),
          Recv("src", "PDUSessionResourceSetupRequest", "ignore"),
          Send("src", "PDUSessionResourceSetupResponse", "none", "ue") >>
XioRegistration ==
    NGSetup("src")
    \o [Registration EXCEPT ![2] = Recv("src", "AuthenticationRequest", "command")]

Script(f) ==
    CASE f = "TestRegistration"    -> TestRegistration
      [] f = "SingleRegistration"  -> SingleRegistration
      [] f = "TestN2Handover"      -> TestN2Handover
      [] f = "SingleN2Handover"    -> SingleN2Handover
      [] f = "TestMultiN2Handover" -> TestMultiN2Handover
      [] f = "TestPaging"          -> TestPaging
      [] f = "UeRanEmulator"       -> UeRanEmulator
      [] f = "XioRegistration"     -> XioRegistration

\* The procedures whose hard-coded identifiers ask for a freshly started AMF.
NeedsFreshAmf(f) ==
    f \in {"TestMultiN2Handover", "TestPaging", "UeRanEmulator", "XioRegistration"}

\* Variant: the handover worker sets no timeout.
OnlyRegistrationTimesOut(f) == f = "SingleRegistration"

\* The procedures that set a read timeout on their associations.
HasTimeout(f) == f \in {"SingleRegistration", "SingleN2Handover"}

Init ==
    /\ flow \in Flows
    /\ pc = 1
    /\ halted = FALSE
    /\ ctx = [who \in {"ue", "target"} |-> [id |-> 1, ul |-> ZeroCount, dl |-> ZeroCount]]
    /\ targetId = NoId
    /\ up = [c \in Conn |-> <<>>]
    /\ down = [c \in Conn |-> <<>>]
    /\ \E first \in IF NeedsFreshAmf(flow) THEN {1} ELSE FirstIds, late \in Late :
         amf = [ids |-> [c \in Conn |-> NoId], next |-> first,
                ul |-> ZeroCount, dl |-> ZeroCount,
                asked |-> [c \in Conn |-> {}], configured |-> FALSE, late |-> late]

-----------------------------------------------------------------------------
(* The procedure                                                            *)

Finished == pc > Len(Script(flow))
Step     == Script(flow)[pc]
Doing(op) == ~halted /\ ~Finished /\ Step.op = op

\* NAS part of the message a step sends, and the context afterwards.
NasOf(step) ==
    IF step.nas \in {"protected", "new"}
    THEN << Encoded(ctx[step.who], step.nas = "new") >> ELSE NoNas
CtxAfter(step) ==
    IF step.nas \in {"protected", "new"}
    THEN [ctx EXCEPT ![step.who] = AfterEncode(@, step.nas = "new")] ELSE ctx

Write(id) ==
    /\ up' = [up EXCEPT ![Step.conn] = Append(@, Message(Step.type, id, NasOf(Step)))]
    /\ ctx' = CtxAfter(Step)
    /\ pc' = pc + 1
    /\ UNCHANGED <<flow, halted, targetId, down, amf>>

\* NG Setup and Initial UE Message carry no AMF UE NGAP ID.
WriteInitial ==
    /\ Doing("initial") \/ (Doing("send") /\ Step.who = "gnb")
    /\ Write(NoId)

WriteAssociated ==
    /\ Doing("send")
    /\ Step.who # "gnb"
    /\ Write(ctx[Step.who].id + Step.shift)

\* Variant: the id read from the Authentication Request is not kept.
DecodedKeepsId(m) ==
    [ctx EXCEPT !["ue"].dl = IF m.nas = NoNas THEN @ ELSE Decode(@, Head(m.nas))]

\* What the source context becomes when message m has been read.
Decoded(m) ==
    [ctx EXCEPT !["ue"].dl = IF m.nas = NoNas THEN @ ELSE Decode(@, Head(m.nas)),
                !["ue"].id = IF Step.use = "challenge" THEN m.id ELSE @]

Read(c) == down[c] # <<>> /\ down' = [down EXCEPT ![c] = Tail(@)]

\* The result is not looked at, whatever it is.
ReadBlindly ==
    /\ Doing("recv")
    /\ Step.use = "ignore"
    /\ Read(Step.conn)
    /\ pc' = pc + 1
    /\ UNCHANGED <<flow, halted, ctx, targetId, up, amf>>

ReadExpected ==
    /\ Doing("recv")
    /\ Step.use # "ignore"
    /\ Read(Step.conn)
    /\ LET m == Head(down[Step.conn])
       IN  /\ m.type = Step.type
           /\ ctx' = IF Step.use = "target" THEN ctx ELSE Decoded(m)
           /\ targetId' = IF Step.use = "target" THEN m.id ELSE targetId
    /\ pc' = pc + 1
    /\ UNCHANGED <<flow, halted, up, amf>>

\* Another message than PDU Session Resource Setup: EstablishPduSession
\* returns an error, without a response, and its caller carries on.
\* Anywhere else a nil dereference or a failed require ends the procedure.
GiveUpReading ==
    IF Step.use = "session" THEN pc' = pc + 2 /\ UNCHANGED halted
                            ELSE halted' = TRUE /\ UNCHANGED pc

ReadUnexpected ==
    /\ Doing("recv")
    /\ Step.use # "ignore"
    /\ Read(Step.conn)
    /\ Head(down[Step.conn]).type # Step.type
    /\ GiveUpReading
    /\ UNCHANGED <<flow, ctx, targetId, up, amf>>

\* The read times out and returns length -1.  The read of the Configuration
\* Update Command is just missed, the one of the session makes
\* EstablishPduSession return an error; after any other the slice recvMsg[:n]
\* that is to be decoded panics.
TimeOut ==
    /\ amf.late
    /\ HasTimeout(flow)
    /\ Doing("recv")
    /\ down[Step.conn] = <<>>
    /\ IF Step = Recv("src", "ConfigurationUpdateCommand", "ignore")
       THEN pc' = pc + 1 /\ UNCHANGED halted
       ELSE GiveUpReading
    /\ UNCHANGED <<flow, ctx, targetId, up, down, amf>>

CopyForTarget ==
    /\ Doing("copy")
    /\ ctx' = [ctx EXCEPT !["target"] =
                 [TargetCopy(ctx["ue"]) EXCEPT !.id = IF Step.id = NoId THEN targetId ELSE Step.id]]
    /\ pc' = pc + 1
    /\ UNCHANGED <<flow, halted, targetId, up, down, amf>>

\* ue = deepcopy.Copy(targetUe), with nothing set again.
CopyTargetBack ==
    /\ Doing("copyBack")
    /\ ctx' = [ctx EXCEPT !["ue"] = DeepCopy(ctx["target"])]
    /\ pc' = pc + 1
    /\ UNCHANGED <<flow, halted, targetId, up, down, amf>>

AssumeId ==
    /\ Doing("setId")
    /\ ctx' = [ctx EXCEPT !["ue"].id = Step.id]
    /\ pc' = pc + 1
    /\ UNCHANGED <<flow, halted, targetId, up, down, amf>>

-----------------------------------------------------------------------------
(* The AMF                                                                  *)

Got(c, types) == up[c] # <<>> /\ Head(up[c]).type \in types

\* Uplink message m is consumed from association c; the AMF's estimate of the
\* uplink count follows every protected NAS message.
Heard(a, c) ==
    LET m == Head(up[c])
    IN  IF m.nas = NoNas THEN a ELSE [a EXCEPT !.ul = Decode(@, Head(m.nas))]
Consume(c) ==
    /\ up' = [up EXCEPT ![c] = Tail(@)]
    /\ UNCHANGED <<flow, pc, halted, ctx, targetId>>

\* The response each request of the AMF asks for.
ResponseTo == [
    InitialContextSetupRequest     |-> "InitialContextSetupResponse",
    PDUSessionResourceSetupRequest |-> "PDUSessionResourceSetupResponse",
    HandoverRequest                |-> "HandoverRequestAcknowledge",
    UEContextReleaseCommand        |-> "UEContextReleaseComplete" ]
Response == {ResponseTo[request] : request \in DOMAIN ResponseTo}

Asking(a, d, type) ==
    IF type \in DOMAIN ResponseTo THEN [a EXCEPT !.asked[d] = @ \cup {ResponseTo[type]}] ELSE a

\* Answer on association d, with state a from then on.
Answer(a, d, type) ==
    /\ down' = [down EXCEPT ![d] = Append(@, Message(type, a.ids[d], NoNas))]
    /\ amf' = Asking(a, d, type)
AnswerNas(a, d, type, newContext) ==
    /\ down' = [down EXCEPT ![d] =
                  Append(@, Message(type, a.ids[d], << Protected(a.dl, newContext) >>))]
    /\ amf' = Asking([a EXCEPT !.dl = AddOne(@)], d, type)
Silence(a) == amf' = a /\ UNCHANGED down

\* A response closes the procedure it belongs to.
Answered(a, c) == [a EXCEPT !.asked[c] = @ \ {Head(up[c]).type}]

WithNewId(a, c) == [a EXCEPT !.ids[c] = a.next, !.next = @ + 1]

AmfSetsUp(c) ==
    /\ Got(c, {"NGSetupRequest"})
    /\ Answer(amf, c, "NGSetupResponse")
    /\ Consume(c)

AmfChallenges(c) ==
    /\ Got(c, {"RegistrationRequest"})
    /\ Answer(WithNewId(amf, c), c, "AuthenticationRequest")
    /\ Consume(c)

AmfSecures(c) ==
    /\ Got(c, {"AuthenticationResponse"})
    /\ AnswerNas([amf EXCEPT !.ul = ZeroCount, !.dl = ZeroCount], c, "SecurityModeCommand", TRUE)
    /\ Consume(c)

\* The registration is accepted; so is a mobility registration, and a service
\* request, which opens a new UE context at the AMF.
AmfAccepts(c) ==
    /\ \/ /\ Got(c, {"SecurityModeComplete", "MobilityRegistration"})
          /\ AnswerNas(Heard(amf, c), c, "InitialContextSetupRequest", FALSE)
       \/ /\ Got(c, {"ServiceRequest"})
          /\ AnswerNas(Heard(WithNewId(amf, c), c), c, "InitialContextSetupRequest", FALSE)
    /\ Consume(c)

AmfConfigures(c) ==
    /\ Got(c, {"RegistrationComplete"})
    /\ IF amf.configured
       THEN Silence(Heard(amf, c))
       ELSE AnswerNas([Heard(amf, c) EXCEPT !.configured = TRUE], c,
                      "ConfigurationUpdateCommand", FALSE)
    /\ Consume(c)

AmfSetsUpSession(c) ==
    /\ Got(c, {"PduSessionRequest"})
    /\ AnswerNas(Heard(amf, c), c, "PDUSessionResourceSetupRequest", FALSE)
    /\ Consume(c)

AmfNotes(c) ==
    /\ Got(c, {"InitialContextSetupResponse", "PDUSessionResourceSetupResponse"})
    /\ Silence(Answered(amf, c))
    /\ Consume(c)

\* A UE has one context per gNB: the target's from an earlier handover has
\* been released before it gets the next one.
AmfPreparesHandover(c) ==
    /\ Got(c, {"HandoverRequired"})
    /\ amf.ids[Other(c)] = NoId
    /\ Answer(WithNewId(amf, Other(c)), Other(c), "HandoverRequest")
    /\ Consume(c)

AmfCommandsHandover(c) ==
    /\ Got(c, {"HandoverRequestAcknowledge"})
    /\ Answer(Answered(amf, c), Other(c), "HandoverCommand")
    /\ Consume(c)

\* The context at association d is released: command, then its completion,
\* after which an idle UE with downlink data is paged.
AmfReleases(c) ==
    LET d == IF Got(c, {"HandoverNotify"}) THEN Other(c) ELSE c
    IN  /\ Got(c, {"HandoverNotify", "UEContextReleaseRequest"})
        /\ Answer(amf, d, "UEContextReleaseCommand")
        /\ Consume(c)

AmfForgets(c) ==
    /\ Got(c, {"UEContextReleaseComplete"})
    /\ LET known == Head(up[c]).id = amf.ids[c]
           a == IF known THEN [Answered(amf, c) EXCEPT !.ids[c] = NoId] ELSE amf
       IN  IF \A d \in Conn : a.ids[d] = NoId THEN Answer(a, c, "Paging") ELSE Silence(a)
    /\ Consume(c)

Amf(c) ==
    \/ AmfSetsUp(c) \/ AmfChallenges(c) \/ AmfSecures(c) \/ AmfAccepts(c) \/ AmfConfigures(c)
    \/ AmfSetsUpSession(c) \/ AmfNotes(c) \/ AmfPreparesHandover(c) \/ AmfCommandsHandover(c)
    \/ AmfReleases(c) \/ AmfForgets(c)

Harness ==
    \/ WriteInitial \/ WriteAssociated
    \/ ReadBlindly \/ ReadExpected \/ ReadUnexpected \/ TimeOut
    \/ CopyForTarget \/ CopyTargetBack \/ AssumeId

\* The procedure is over and nothing is left for the AMF to answer.
Over == (halted \/ Finished) /\ (\A c \in Conn : up[c] = <<>>) /\ UNCHANGED vars

Next == Harness \/ (\E c \in Conn : Amf(c)) \/ Over

Spec == Init /\ [][Next]_vars

\* The procedure runs on, a Read with a timeout ends, and an AMF that is not
\* late answers.
Fairness == WF_vars(Harness) /\ \A c \in Conn : WF_vars(~amf.late /\ Amf(c))

FairSpec == Spec /\ Fairness

-----------------------------------------------------------------------------
(* Properties                                                               *)

TypeOK ==
    /\ flow \in Flows
    /\ pc \in 1..Len(Script(flow)) + 1
    /\ halted \in BOOLEAN
    /\ \A who \in {"ue", "target"} :
         ctx[who].id \in Nat /\ ctx[who].ul \in Count /\ ctx[who].dl \in Count
    /\ targetId \in Nat
    /\ \A c \in Conn : \A q \in {up[c], down[c]} : \A i \in DOMAIN q :
         q[i].id \in Nat /\ (q[i].nas = NoNas \/ Head(q[i].nas) \in ProtectedMessage)
    /\ amf.ids \in [Conn -> Nat] /\ amf.next \in Nat
    /\ amf.ul \in Count /\ amf.dl \in Count
    /\ amf.asked \in [Conn -> SUBSET Response] /\ amf.configured \in BOOLEAN /\ amf.late \in BOOLEAN

\* Whatever the pace of the AMF and of the two associations, every Read
\* returns the message the comment above it says it receives.
ReadsMatch ==
    Doing("recv") /\ down[Step.conn] # <<>> => Head(down[Step.conn]).type = Step.type

\* That holds of every procedure that reads the Configuration Update Command.
ConfiguredReadsMatch ==
    flow \notin {"TestPaging", "UeRanEmulator"} /\ ~amf.late => ReadsMatch

\* Every message about a UE names the identifier that the AMF has given to
\* the UE's context on that association by the time it reads the message,
\* for source and target, and before and after a release.  (From the second
\* round of TestMultiN2Handover, which releases a guessed identifier, it does
\* not: run multi_handover_ids.)
IdsAgree ==
    \A c \in Conn :
        up[c] # <<>> /\ Head(up[c]).id # NoId /\ ~amf.late => Head(up[c]).id = amf.ids[c]

\* A response reaches the AMF only while it waits for that response on that
\* association: none answers another request, none overtakes its request.
ResponsesWanted ==
    \A c \in Conn :
        up[c] # <<>> /\ Head(up[c]).type \in Response => Head(up[c]).type \in amf.asked[c]

\* That holds of every procedure but the two that answer the last Initial
\* Context Setup Request of a handover with another response.
OtherResponsesWanted ==
    flow \notin {"TestN2Handover", "SingleN2Handover"} /\ ~amf.late => ResponsesWanted

\* Both ends reconstruct the count of every NAS message they decode: the AMF
\* across the copies made at handovers, the UE although it reads past several
\* downlink messages, and both although answers may be late.
CountsExact ==
    /\ [][\A c \in Conn : up[c] # <<>> /\ up'[c] = Tail(up[c]) /\ Head(up[c]).nas # NoNas
            => amf'.ul = Head(Head(up[c]).nas).count]_vars
    /\ [][ctx'["ue"].dl # ctx["ue"].dl /\ down' # down
            => ctx'["ue"].dl = Head(Head(down[Step.conn]).nas).count]_vars

\* Lock-step never deadlocks: every procedure runs to its last step, and the
\* workers' procedures, which set read timeouts, end even if the AMF stops
\* answering.
EveryProcedureEnds ==
    <>(\/ Finished
       \/ amf.late /\ (flow \in {"SingleRegistration", "SingleN2Handover"} => halted))

=============================================================================
