------------------------------ MODULE Non3GPP -------------------------------
(***************************************************************************)
(* TestNon3GPPUE: an emulated UE that registers through an N3IWF, over     *)
(* IKEv2 and EAP-5G on UDP and then over NAS on TCP, and ends in a tunnel. *)
(* The UE sends a request and blocks in ReadFromUDP; it takes whatever     *)
(* datagram comes next for the answer, repeats nothing, and fails the test *)
(* on what it cannot use.  UDP may lose, duplicate and delay; what is in   *)
(* flight when a run ends can reach the socket of the next run, since the  *)
(* UE never tears its IKE SA down and the N3IWF probes it every minute     *)
(* (config/n3iwfcfg_test.yaml:51-54).                                      *)
(*                                                                         *)
(* Interfaces and addresses of the machine outlive a run.  A run that      *)
(* returns or fails (Goexit, a panic of its own) executes its deferred     *)
(* functions; one that go test -timeout kills does not.                    *)
(*                                                                         *)
(* The N3IWF and the AMF behind it are external: they answer with what the *)
(* code is prepared for.  Everything that does not happen in an undisturbed*)
(* run counts against MaxOdd.                                              *)
(***************************************************************************)
EXTENDS NasCount, Functions, FiniteSets

CONSTANTS
    MaxRuns,   \* bound: test runs, one after the other
    MaxOdd,    \* bound: disturbances in a behaviour
    Odd,       \* which disturbances there are, see Disturbances
    UeAddrs,   \* addresses the N3IWF gives to UEs
    Spis,      \* security parameter indexes the UE draws from
    NoAddr

Disturbances == {"lost", "stray", "zero", "refused", "known", "slow", "machine"}

ASSUME RunAssumption ==
    /\ MaxRuns \in Nat /\ MaxOdd \in Nat /\ Odd \subseteq Disturbances
    /\ UeAddrs # {} /\ NoAddr \notin UeAddrs
    /\ IsFiniteSet(Spis) /\ Cardinality(Spis) >= 2

\* 10.0.0.2, when the answer held no address.
DefaultAddr == CHOOSE a \in UeAddrs : TRUE

VARIABLES
    run,      \* the run in progress, or the last one
    pc,       \* where it is; "idle" when no test process exists
    verdict,  \* how run ended: "pass", "fail", "killed", or "none" so far
    ike,      \* [keyed, mid, half, child, sa, p0, ip]: the keys are those of the N3IWF's IKE
              \* SA, InitiatorMessageID, the half-open child SAs by message identifier, the
              \* inbound SPIs of the complete ones, where responseSecurityAssociation is
              \* from, the count Kn3iwf is derived with, ueAddr
    nas,      \* the UE's two NAS counts
    addr,     \* the address this run has added to the interface
    kern,     \* the machine: xfrmi-default exists, the UE addresses on it, gretun0 exists
    net,      \* datagrams in flight
    n3,       \* the N3IWF: it runs, the run it has made its last IKE SA with, the next
              \* request identifier, the UE's standing, the count of its last Security Mode
              \* Complete, what became of its PDU session; which run's UE it has given an
              \* address to, 0 for none
    odd       \* disturbances so far

vars == <<run, pc, verdict, ike, nas, addr, kern, net, n3, odd>>

Reading == {"saInit", "auth", "regReply", "smc", "success", "success2", "final", "session"}
Working == {"spin", "complete", "iface", "dial", "nas", "gre", "ping"}
Requests == {"saInit", "auth", "regRequest", "authResponse", "smComplete", "final", "childResponse"}
EapRequests == {"authRequest", "reject", "accept", "configUpdate", "smc"}
Replies == EapRequests \cup
    {"saReply", "saReplyZero", "eapStart", "success", "failure", "childSa", "notify", "createChild", "probe"}

\* The run is that of the IKE SA: 0 when the keys and the SPI are of no SA of the N3IWF.
Request(r, kind, mid, count) ==
    [to |-> "n3iwf", run |-> r, kind |-> kind, mid |-> mid, count |-> count, addr |-> NoAddr]
Reply(r, kind, mid, a) ==
    [to |-> "ue", run |-> r, kind |-> kind, mid |-> mid, count |-> ZeroCount, addr |-> a]
Datagram ==
    [to : {"ue", "n3iwf"}, run : 0..MaxRuns, kind : Requests \cup Replies, mid : 0..7,
     count : Count, addr : UeAddrs \cup {NoAddr}]

TypeOK ==
    /\ run \in 0..MaxRuns /\ pc \in Reading \cup Working \cup {"idle"}
    /\ verdict \in {"none", "pass", "fail", "killed"}
    /\ ike.keyed \in BOOLEAN /\ ike.mid \in 0..7 /\ DOMAIN ike.half \subseteq 0..7 /\ Range(ike.half) \subseteq Spis
    /\ ike.child \subseteq Spis /\ ike.sa \in {"none", "agreed", "dummy", "session"}
    /\ ike.p0 \in Nat /\ ike.ip \in UeAddrs \cup {NoAddr}
    /\ nas \in [ul : Count, dl : Count]
    /\ addr \in UeAddrs \cup {NoAddr}
    /\ kern \in [link : BOOLEAN, addrs : SUBSET UeAddrs, gre : BOOLEAN]
    /\ net \subseteq Datagram
    /\ n3.up \in BOOLEAN /\ n3.run \in 0..MaxRuns /\ n3.mid \in 0..7 /\ n3.count \in Count
    /\ n3.standing \in {"none", "refused", "registered"} /\ n3.session \in {"none", "asked", "offered", "set"}
    /\ n3.given \in [UeAddrs -> 0..MaxRuns]
    /\ odd \in 0..MaxOdd

NoSession(up, r, given) ==
    [up |-> up, run |-> r, mid |-> 0, standing |-> "none", count |-> ZeroCount, session |-> "none",
     given |-> given]
NoneGiven == [a \in UeAddrs |-> 0]
NewUe == [keyed |-> FALSE, mid |-> 0, half |-> <<>>, child |-> {}, sa |-> "none", p0 |-> 0, ip |-> NoAddr]

Init ==
    /\ run = 0 /\ pc = "idle" /\ verdict = "none"
    /\ ike = NewUe /\ nas = [ul |-> ZeroCount, dl |-> ZeroCount] /\ addr = NoAddr
    /\ kern = [link |-> FALSE, addrs |-> {}, gre |-> FALSE]
    /\ net = {} /\ n3 = NoSession(FALSE, 0, NoneGiven) /\ odd = 0

\* Something of kind what happens that an undisturbed run does not see.
Disturb(what) == what \in Odd /\ odd < MaxOdd /\ odd' = odd + 1
\* The same, when it is only the odd ones of several alternatives.
DisturbIf(cond, what) == IF cond THEN Disturb(what) ELSE UNCHANGED odd

-----------------------------------------------------------------------------
(* The end of a run                                                         *)

\* Variant: the address is removed only when the tunnel is, too.
DeferredLate == IF pc = "ping" THEN [kern EXCEPT !.addrs = @ \ {addr}, !.gre = FALSE] ELSE kern

\* The machine after the deferred functions that are registered at this point.
Deferred == [kern EXCEPT !.addrs = @ \ {addr}, !.gre = @ /\ pc # "ping"]

Ends(v) ==
    /\ verdict' = v /\ pc' = "idle"
    /\ kern' = Deferred
    /\ UNCHANGED <<run, ike, nas, addr, n3>>

-----------------------------------------------------------------------------
(* Datagrams                                                                *)

\* IKE_SA_INIT is not encrypted: DecodeDecrypt takes such an answer of any run.  The
\* rest needs the keys of the IKE SA that it was sent under.
Clear == {"saReply", "saReplyZero"}
Readable(d) == d.kind \in Clear \/ (d.run = run /\ ike.keyed)

\* Variant: a Registration Reject ends the test well, too.
LenientAccepts ==
    [auth |-> Replies, regReply |-> EapRequests \ {"smc"}, smc |-> EapRequests,
     success |-> {"success"} \cup (EapRequests \ {"reject"}), success2 |-> {"success", "accept"},
     final |-> Replies \ Clear, session |-> Replies \ Clear]

\* What the code goes on with at each read after the first; it fails the test on the
\* rest.  Where it only loops over the payloads, it goes on with anything it can read.
Accepts ==
    [auth     |-> Replies,
     regReply |-> {"authRequest", "accept", "configUpdate"},
     smc      |-> EapRequests,
     success  |-> {"success"} \cup (EapRequests \ {"reject"}),
     success2 |-> {"success", "accept"},
     final    |-> Replies \ Clear,
     session  |-> Replies \ Clear]

\* ReadFromUDP returns d; out is what the UE sends before it blocks again.
\* UDP may deliver d once more.
Take(d, out) ==
    \/ net' = (net \ {d}) \cup out /\ UNCHANGED odd
    \/ net' = net \cup out /\ Disturb("stray")

Read(step, d) == pc = step /\ d \in net /\ d.to = "ue" /\ Readable(d) /\ d.kind \in Accepts[step]

\* The run that the UE's IKE SA is one of.
SaRun == IF ike.keyed THEN run ELSE 0

\* Variant: the identifier is not advanced for the authentication.
StaleRequest(kind, count) ==
    {Request(SaRun, kind, IF kind = "final" THEN ike.mid ELSE ike.mid + 1, count)}

\* The next request of the exchange, under the identifier after the last.
NextRequest(kind, count) == {Request(SaRun, kind, ike.mid + 1, count)}

\* The response to CREATE_CHILD_SA, under the identifier of the last request.
ChildResponse == {Request(SaRun, "childResponse", ike.mid, ZeroCount)}

\* DecodeDecrypt fails (other keys), a payload of the wrong type, an index that is not
\* there, a reject: t.Fatal or a panic.  The library may refuse to make keys without a
\* key exchange value.  An IKE_SA_INIT answer in place of CREATE_CHILD_SA is answered,
\* and then has no SPI.
Misread(d) ==
    /\ pc \in Reading /\ d \in net /\ d.to = "ue"
    /\ IF pc = "saInit" THEN d.kind \notin Clear ELSE ~(Readable(d) /\ d.kind \in Accepts[pc])
    /\ Take(d, IF pc = "session" /\ d.kind \in Clear THEN ChildResponse ELSE {})
    /\ Ends("fail")

-----------------------------------------------------------------------------
(* The UE                                                                   *)

\* Variant: the entry is filed under the responder's identifier.
CreateHalfChildSAForResponder(half, mid, spi) == [m \in DOMAIN half \cup {0} |-> IF m = 0 THEN spi ELSE half[m]]

\* Variant: an SPI in use is drawn again.
GenerateAnySPI == Spis

\* Half-open child SAs, and generateSPI, which looks at the complete ones only.
CreateHalfChildSA(half, mid, spi) == [m \in DOMAIN half \cup {mid} |-> IF m = mid THEN spi ELSE half[m]]
GenerateSPI == Spis \ ike.child

\* One of the runner scripts; run_non3gpp_test.sh first deletes xfrmi-default,
\* the one the running N3IWF has made included.
StartRun(deletesLink) ==
    /\ pc = "idle" /\ n3.up /\ run < MaxRuns
    /\ run' = run + 1 /\ verdict' = "none"
    /\ ike' = NewUe /\ nas' = [ul |-> ZeroCount, dl |-> ZeroCount] /\ addr' = NoAddr
    /\ kern' = IF deletesLink THEN [kern EXCEPT !.link = FALSE, !.addrs = {}] ELSE kern
    /\ pc' = "saInit"
    /\ net' = net \cup {Request(run + 1, "saInit", 0, ZeroCount)}
    /\ UNCHANGED <<n3, odd>>

\* The keys that the UE makes from d are the N3IWF's.
MakesKeys(d) == d.kind = "saReply" /\ d.run = run

\* Whatever datagram comes first is decoded and taken for the answer to IKE_SA_INIT:
\* neither the SPI nor the identifier is looked at.  The UE makes keys from what it
\* finds, and sends the first IKE_AUTH request under them.
ReadSaInit(d) ==
    /\ pc = "saInit" /\ d \in net /\ d.to = "ue" /\ d.kind # "saReplyZero"
    /\ \E spi \in GenerateSPI :
        ike' = [ike EXCEPT !.keyed = MakesKeys(d), !.mid = @ + 1,
                           !.half = CreateHalfChildSA(@, ike.mid + 1, spi)]
    /\ pc' = "auth"
    /\ Take(d, {Request(IF MakesKeys(d) THEN run ELSE 0, "auth", ike.mid + 1, ZeroCount)})
    /\ UNCHANGED <<run, verdict, nas, addr, kern, n3>>

\* The loop that skips leading zeros of the key exchange value keeps its index.
ReadZeroKey(d) ==
    /\ pc = "saInit" /\ d \in net /\ d.kind = "saReplyZero"
    /\ pc' = "spin"
    /\ Take(d, {})
    /\ UNCHANGED <<run, verdict, ike, nas, addr, kern, n3>>

\* Registration Request in the EAP response.
ReadEapStart(d) ==
    /\ Read("auth", d)
    /\ ike' = [ike EXCEPT !.mid = @ + 1]
    /\ pc' = "regReply"
    /\ Take(d, NextRequest("regRequest", ZeroCount))
    /\ UNCHANGED <<run, verdict, nas, addr, kern, n3>>

\* Registration Accept and Configuration Update Command end the test well.
ReadRegReply(d) ==
    /\ Read("regReply", d)
    /\ \/ /\ d.kind = "authRequest"
          /\ ike' = [ike EXCEPT !.mid = @ + 1]
          /\ pc' = "smc"
          /\ Take(d, NextRequest("authResponse", ZeroCount))
          /\ UNCHANGED <<run, verdict, nas, addr, kern, n3>>
       \/ d.kind # "authRequest" /\ Take(d, {}) /\ Ends("pass")

\* Security Mode Complete, in a new security context, whatever was asked.
SendSecurityModeComplete(d, next) ==
    /\ ike' = [ike EXCEPT !.mid = @ + 1]
    /\ nas' = AfterEncode(nas, TRUE)
    /\ pc' = next
    /\ Take(d, NextRequest("smComplete", Encoded(nas, TRUE).count))
    /\ UNCHANGED <<run, verdict, addr, kern, n3>>

Number(c) == c.ovf * SqnMod + c.sqn

\* Variants: the count of the next message, of the last but one.
NextCount == Number(nas.ul)
LastButOneCount == Number(nas.ul) - 2

\* IKE_AUTH with AUTH from Kn3iwf, which is derived from the uplink count less one.
LastCount == Number(nas.ul) - 1
SendAuthentication(d) ==
    /\ ike' = [ike EXCEPT !.mid = @ + 1, !.p0 = LastCount]
    /\ pc' = "final"
    /\ Take(d, NextRequest("final", ZeroCount))
    /\ UNCHANGED <<run, verdict, nas, addr, kern, n3>>

ReadSecurityModeCommand(d) == Read("smc", d) /\ SendSecurityModeComplete(d, "success")

ReadEapSuccess(d) ==
    /\ Read("success", d)
    /\ IF d.kind = "success" THEN SendAuthentication(d) ELSE SendSecurityModeComplete(d, "success2")

ReadEapSuccessAgain(d) ==
    /\ Read("success2", d)
    /\ IF d.kind = "success" THEN SendAuthentication(d) ELSE Take(d, {}) /\ Ends("pass")

\* The last IKE_AUTH answer: an SA is used; without one, every payload type that
\* IKEv2 has is taken for a failed decryption, and the UE makes up an SA.
ReadChildSa(d) ==
    /\ Read("final", d)
    /\ IF d.kind = "childSa"
       THEN ike' = [ike EXCEPT !.sa = "agreed", !.ip = d.addr]
       ELSE ike' = [ike EXCEPT !.sa = "dummy", !.ip = DefaultAddr]
    /\ pc' = "complete"
    /\ Take(d, {})
    /\ UNCHANGED <<run, verdict, nas, addr, kern, n3>>

\* The half-open child SA that is filed under the literal 0x01.
CompleteChildSA ==
    /\ pc = "complete"
    /\ IF 1 \in DOMAIN ike.half
       THEN /\ ike' = [ike EXCEPT !.half = Restrict(@, DOMAIN @ \ {1}), !.child = @ \cup {ike.half[1]}]
            /\ pc' = "iface"
            /\ UNCHANGED <<run, verdict, nas, addr, kern, n3>>
       ELSE Ends("fail")
    /\ UNCHANGED <<net, odd>>

\* xfrmi-default is created if five seconds of polling do not find it; adding an
\* address that is there already fails, and the failure ends the test.
AddUeAddress ==
    /\ pc = "iface"
    /\ IF ike.ip \in kern.addrs
       THEN Ends("fail")
       ELSE /\ kern' = [kern EXCEPT !.link = TRUE, !.addrs = @ \cup {ike.ip}]
            /\ addr' = ike.ip
            /\ pc' = "dial"
            /\ UNCHANGED <<run, verdict, ike, nas, n3>>
    /\ UNCHANGED <<net, odd>>

\* The N3IWF listens, whoever calls.
Dial ==
    /\ pc = "dial"
    /\ pc' = "nas"
    /\ UNCHANGED <<run, verdict, ike, nas, addr, kern, net, n3, odd>>

\* NAS bytes are read, whichever; Registration Complete and the request for a PDU
\* session follow.  The N3IWF knows a UE by the address that it has given to it, and
\* may take the caller for the UE of an earlier run, whose address it has not got back.
RegisterOverTcp ==
    /\ pc = "nas" /\ n3.up /\ n3.given[ike.ip] # 0
    /\ nas' = AfterEncode(AfterEncode(nas, FALSE), FALSE)
    /\ n3' = IF n3.given[ike.ip] = run THEN [n3 EXCEPT !.session = "asked"] ELSE n3
    /\ pc' = "session"
    /\ UNCHANGED <<run, verdict, ike, addr, kern, net, odd>>

\* Any datagram under the current keys passes for CREATE_CHILD_SA; what it does not
\* hold is left as the answer to IKE_AUTH has set it.  The response goes out before
\* the UE has drawn its inbound SPI.
ReadCreateChildSa(d) ==
    /\ Read("session", d)
    /\ \E spi \in GenerateSPI :
        ike' = [ike EXCEPT !.child = @ \cup {spi}, !.sa = IF d.kind = "createChild" THEN "session" ELSE @]
    /\ pc' = "gre"
    /\ Take(d, ChildResponse)
    /\ UNCHANGED <<run, verdict, nas, addr, kern, n3>>

\* gretun0, its address and the default route; the function that removes it is
\* deferred only after the last of them.
AddTunnel ==
    /\ pc = "gre"
    /\ IF kern.gre
       THEN Ends("fail")
       ELSE /\ kern' = [kern EXCEPT !.gre = TRUE]
            /\ pc' = "ping"
            /\ UNCHANGED <<run, verdict, ike, nas, addr, n3>>
    /\ UNCHANGED <<net, odd>>

\* The ping may lose packets: that is logged and the test passes.
Ping == pc = "ping" /\ Ends("pass") /\ UNCHANGED <<net, odd>>

\* A system call or the library refuses: the N3IWF's proposal or a made-up one, the
\* interface, the connection; the tunnel half way, which then stays.
MachineFails ==
    /\ pc \in {"complete", "iface", "dial", "gre"}
    /\ Disturb("machine")
    /\ IF pc = "gre" /\ ~kern.gre
       THEN /\ kern' = [Deferred EXCEPT !.gre = TRUE]
            /\ verdict' = "fail" /\ pc' = "idle"
            /\ UNCHANGED <<run, ike, nas, addr, n3>>
       ELSE Ends("fail")
    /\ UNCHANGED net

-----------------------------------------------------------------------------
(* Time-outs.  They are long: they strike when nothing else can move, or,   *)
(* as a disturbance, when something is slow.                                *)

Stuck ==
    \/ pc = "spin"
    \/ pc \in Reading /\ net = {} /\ ~(n3.run = run /\ n3.session = "asked")
    \/ pc = "nas" /\ n3.given[ike.ip] # run

SlowOrStuck == DisturbIf(~Stuck, "slow")

\* The reads with a deadline.
HasDeadline == {"regReply", "success2", "nas", "session"}

DeadlinePasses ==
    /\ pc \in HasDeadline
    /\ SlowOrStuck
    /\ Ends("fail")
    /\ UNCHANGED net

\* Variant: the timer does nothing.
IgnoredTestTimeout ==
    /\ pc # "idle" /\ SlowOrStuck
    /\ UNCHANGED <<run, pc, verdict, ike, nas, addr, kern, net, n3>>

\* go test -timeout: the process is gone, nothing deferred is executed.
GoTestTimeout ==
    /\ pc # "idle"
    /\ SlowOrStuck
    /\ verdict' = "killed" /\ pc' = "idle"
    /\ UNCHANGED <<run, ike, nas, addr, kern, net, n3>>

-----------------------------------------------------------------------------
(* The network and the N3IWF                                                *)

Lose(d) == d \in net /\ Disturb("lost") /\ net' = net \ {d} /\ UNCHANGED <<run, pc, verdict, ike, nas, addr, kern, n3>>

\* Nobody listens, or the N3IWF does not know what it is about.
Drop(d) ==
    /\ d \in net
    /\ \/ d.to = "ue" /\ pc = "idle"
       \/ d.to = "n3iwf" /\ (~n3.up \/ d.run = 0 \/ d.run < n3.run)
       \/ /\ d.to = "n3iwf" /\ d.run = n3.run /\ d.kind # "childResponse"
          /\ d.mid = 0 \/ d.mid # n3.mid \/ n3.standing = "refused"
    /\ net' = net \ {d}
    /\ UNCHANGED <<run, pc, verdict, ike, nas, addr, kern, n3, odd>>

Replied(d, kind, a) == net' = (net \ {d}) \cup {Reply(d.run, kind, d.mid, a)}

\* A new IKE SA; the key exchange value may begin with a zero byte.
AnswerSaInit(d) ==
    /\ d \in net /\ d.kind = "saInit" /\ n3.up /\ d.run > n3.run
    /\ n3' = [NoSession(TRUE, d.run, n3.given) EXCEPT !.mid = 1]
    /\ \E kind \in {"saReply", "saReplyZero"} :
        /\ Replied(d, kind, NoAddr)
        /\ DisturbIf(kind = "saReplyZero", "zero")
    /\ UNCHANGED <<run, pc, verdict, ike, nas, addr, kern>>

\* The usual answer to a request, and the others: the UE is refused, or the AMF has
\* the UE registered already or asks again.  A refusal ends the exchange, and nobody
\* is refused who has been accepted.
Usual == [auth |-> "eapStart", regRequest |-> "authRequest", authResponse |-> "smc",
          smComplete |-> "success", final |-> "childSa"]
Refusals == [auth |-> {}, regRequest |-> {"reject"}, authResponse |-> {"reject", "failure"},
             smComplete |-> {"reject", "failure"}, final |-> {"notify"}]
Shortcuts == [auth |-> {}, regRequest |-> {"accept", "configUpdate"}, authResponse |-> {},
              smComplete |-> {"smc", "accept"}, final |-> {}]

Standing(kind) ==
    CASE kind \in {"childSa", "accept", "configUpdate"} -> "registered"
      [] kind \in {"reject", "failure", "notify"} -> "refused"
      [] OTHER -> n3.standing

\* The UE of run r has the address a, if it is one.
Giving(a, r) == [b \in UeAddrs |-> IF b = a THEN r ELSE n3.given[b]]

Answer(d) ==
    /\ d \in net /\ d.to = "n3iwf" /\ d.kind \in DOMAIN Usual
    /\ n3.up /\ d.run = n3.run /\ d.run # 0 /\ d.mid = n3.mid /\ n3.standing # "refused"
    /\ \E kind \in {Usual[d.kind]} \cup Refusals[d.kind] \cup Shortcuts[d.kind] :
        /\ \/ kind = Usual[d.kind] /\ UNCHANGED odd
           \/ kind \in Refusals[d.kind] /\ n3.standing = "none" /\ Disturb("refused")
           \/ kind \in Shortcuts[d.kind] /\ n3.standing = "none" /\ Disturb("known")
        /\ \E a \in IF kind = "childSa" THEN UeAddrs ELSE {NoAddr} :
            /\ Replied(d, kind, a)
            /\ n3' = [n3 EXCEPT !.mid = @ + 1, !.standing = Standing(kind),
                                !.count = IF d.kind = "smComplete" THEN d.count ELSE @,
                                !.given = Giving(a, d.run)]
    /\ UNCHANGED <<run, pc, verdict, ike, nas, addr, kern>>

\* The PDU session exists at the SMF; the N3IWF wants a child SA for it, under the
\* first identifier of its own.
OfferChildSa ==
    /\ n3.up /\ n3.session = "asked"
    /\ n3' = [n3 EXCEPT !.session = "offered"]
    /\ net' = net \cup {Reply(n3.run, "createChild", 0, NoAddr)}
    /\ UNCHANGED <<run, pc, verdict, ike, nas, addr, kern, odd>>

TakeChildResponse(d) ==
    /\ d \in net /\ d.kind = "childResponse" /\ n3.up /\ d.run = n3.run
    /\ net' = net \ {d}
    /\ n3' = IF n3.session = "offered" THEN [n3 EXCEPT !.session = "set"] ELSE n3
    /\ UNCHANGED <<run, pc, verdict, ike, nas, addr, kern, odd>>

\* The IKE SAs that the N3IWF keeps: with the UEs it has given addresses to, and the
\* last one.
IkeSas == (Range(n3.given) \ {0}) \cup (IF n3.mid > 1 THEN {n3.run} ELSE {})

\* The liveness check of an IKE SA, whoever listens at the UE's port by now.
Probe ==
    /\ n3.up
    /\ Disturb("stray")
    /\ \E r \in IkeSas : net' = net \cup {Reply(r, "probe", 1, NoAddr)}
    /\ UNCHANGED <<run, pc, verdict, ike, nas, addr, kern, n3>>

\* start_n3iwf.sh deletes what is left of xfrmi-default, the N3IWF makes it again;
\* stop_n3iwf.sh deletes it.  Neither looks at gretun0.
StartN3iwf ==
    /\ pc = "idle" /\ ~n3.up
    /\ n3' = NoSession(TRUE, run, NoneGiven)
    /\ kern' = [kern EXCEPT !.link = TRUE, !.addrs = {}]
    /\ UNCHANGED <<run, pc, verdict, ike, nas, addr, net, odd>>

StopN3iwf ==
    /\ pc = "idle" /\ n3.up /\ run < MaxRuns
    /\ n3' = NoSession(FALSE, run, NoneGiven)
    /\ kern' = [kern EXCEPT !.link = FALSE, !.addrs = {}]
    /\ UNCHANGED <<run, pc, verdict, ike, nas, addr, net, odd>>

-----------------------------------------------------------------------------
UeReads(d) ==
    \/ ReadSaInit(d) \/ ReadZeroKey(d) \/ ReadEapStart(d) \/ ReadRegReply(d)
    \/ ReadSecurityModeCommand(d) \/ ReadEapSuccess(d) \/ ReadEapSuccessAgain(d)
    \/ ReadChildSa(d) \/ ReadCreateChildSa(d) \/ Misread(d)
UeWorks == CompleteChildSA \/ AddUeAddress \/ Dial \/ RegisterOverTcp \/ AddTunnel \/ Ping
N3iwf(d) == AnswerSaInit(d) \/ Answer(d) \/ TakeChildResponse(d)

Over == pc = "idle" /\ run = MaxRuns /\ net = {} /\ UNCHANGED vars

Next ==
    \/ \E deletesLink \in BOOLEAN : StartRun(deletesLink)
    \/ \E d \in net : UeReads(d) \/ N3iwf(d) \/ Lose(d) \/ Drop(d)
    \/ UeWorks \/ MachineFails \/ DeadlinePasses \/ GoTestTimeout
    \/ OfferChildSa \/ Probe \/ StartN3iwf \/ StopN3iwf \/ Over

Spec == Init /\ [][Next]_vars

\* Both sides move while they can; the network delivers what it does not lose, and
\* the test tool's timer runs.
FairSpec ==
    /\ Spec
    /\ WF_vars(\E d \in net : UeReads(d))
    /\ WF_vars(UeWorks)
    /\ WF_vars(OfferChildSa \/ \E d \in net : N3iwf(d) \/ Drop(d))
    /\ WF_vars(Stuck /\ GoTestTimeout)

-----------------------------------------------------------------------------
(* Properties                                                               *)

\* When the answer to IKE_AUTH is used, the half-open child SA that the UE announced
\* in its first IKE_AUTH request, three or four exchanges earlier, is the one filed
\* under the literal identifier; no other is ever left half open
\* (non3gpp_test.go:855, 1587).
HalfOpenPaired ==
    /\ pc \in {"auth", "regReply", "smc", "success", "success2", "final", "complete"} => DOMAIN ike.half = {1}
    /\ pc \in {"iface", "dial", "nas", "session", "gre", "ping"} => ike.half = <<>>

\* The child SAs for signalling and for user data have different inbound SPIs
\* (generateSPI, non3gpp_test.go:229-245).
InboundSpisDistinct == pc \in {"gre", "ping"} => Cardinality(ike.child) = 2

\* The two child SAs, opened and completed many messages apart, are neither mixed up nor
\* lost: each request is completed under its own identifier, and the second SA does not
\* take the place of the first in the map that is indexed by their SPIs.
ChildSAsKept == HalfOpenPaired /\ InboundSpisDistinct

\* Kn3iwf is derived with the count of the Security Mode Complete that the AMF has
\* seen last, also when the UE has sent two (non3gpp_test.go:1372).
KeyAgreed == ike.sa \in {"agreed", "session"} /\ n3.up /\ n3.run = run => ike.p0 = Number(n3.count)

\* A run that ends on its own leaves no address of its own on xfrmi-default,
\* wherever it fails (the deferred function of non3gpp_test.go:1765).
NothingLeftBehind == verdict \in {"pass", "fail"} => addr \notin kern.addrs

\* The UE goes under the address of a UE of an earlier run, which it was never given: it
\* takes the default one when it makes up its child SA.
UnderAnothersAddress == ike.sa = "dummy" /\ n3.given[ike.ip] \in 1..(run - 1)

\* The test does not pass unless the network has registered the UE, whatever is
\* lost, late, doubled or refused on the way; an answer to IKE_SA_INIT or a NAS message
\* that is not meant for this run does not suffice.  There is one exception: the UE has
\* made up its child SA and passes under the address of another (non3gpp_test.go:742,
\* 1542, 1609, 1807).
PassMeansRegistered ==
    [][pc # "idle" /\ verdict' = "pass" =>
          (n3.run = run /\ n3.standing = "registered") \/ UnderAnothersAddress]_vars

\* A run that nothing disturbs passes (NON3GPP_README.md:25-33).
UndisturbedRunPasses == (pc = "saInit" /\ odd = 0) ~> (verdict = "pass" \/ odd > 0)

\* Every run ends, if only by the time-out of the test tool: the reads without a
\* deadline wait for a lost datagram for ever (non3gpp_test.go:742, 859, 1070, 1138, 1433).
EveryRunEnds == pc # "idle" ~> pc = "idle"

\* A UE that the N3IWF refuses does not go on with an SA of its own making, which is
\* meant for answers that cannot be decrypted (non3gpp_test.go:1526, 1538).
RefusalIsSeen == ike.sa = "dummy" => ~(n3.up /\ n3.run = run /\ n3.standing = "refused")

=============================================================================
