---------------------------- MODULE Non3GPPProofs -----------------------------
(***************************************************************************)
(* Proofs about Non3GPP, for any number of runs and of disturbances and    *)
(* for every set of addresses and of SPIs: the child SAs of a run pair up  *)
(* and have different inbound SPIs, a run that ends on its own leaves no   *)
(* address behind, only a registered UE passes, or one that passes under   *)
(* the address of another, and UE and AMF derive Kn3iwf from the same      *)
(* count.  The runs check these for a few disturbances; the proofs rest on *)
(* what a datagram in flight says about the N3IWF, however often it is     *)
(* repeated.                                                               *)
(***************************************************************************)
EXTENDS Non3GPP, FiniteSetTheorems, TLAPS

\* Answers by which the network grants what the UE has asked for.
Granting == {"accept", "configUpdate", "childSa", "createChild"}

\* From the use of the answer to IKE_AUTH on; from the NAS message over TCP on.
Completing == {"complete", "iface", "dial", "nas", "session", "gre", "ping"}
Connected == {"session", "gre", "ping"}

\* The fields of the records.
Shaped ==
    /\ ike = [keyed |-> ike.keyed, mid |-> ike.mid, half |-> ike.half, child |-> ike.child,
              sa |-> ike.sa, p0 |-> ike.p0, ip |-> ike.ip]
    /\ kern = [link |-> kern.link, addrs |-> kern.addrs, gre |-> kern.gre]
    /\ n3 = [up |-> n3.up, run |-> n3.run, mid |-> n3.mid, standing |-> n3.standing,
             count |-> n3.count, session |-> n3.session, given |-> n3.given]

\* No datagram is from a run that has not begun.
NoFuture == run \in Nat /\ n3.run \in 0..run /\ \A d \in net : d.run \in 0..run

NoVerdictYet == pc # "idle" => verdict = "none"

\* How far the two child SAs are.
NoChildYet == pc = "saInit" => ike.mid = 0 /\ ike.half = <<>>
Childless == pc \in {"saInit", "auth", "regReply", "smc", "success", "success2", "final", "complete"}
                => ike.child = {}
OneChild == pc \in {"iface", "dial", "nas", "session"} => \E s : ike.child = {s}
ChildrenInv == NoChildYet /\ HalfOpenPaired /\ Childless /\ OneChild /\ InboundSpisDistinct

\* The N3IWF has registered the UE of this run.
Registered == n3.run = run /\ n3.standing = "registered"

\* A grant is only in flight to a run that the N3IWF has registered, and says which
\* address the UE is given.
GrantsTrue ==
    pc # "idle" => \A d \in net : d.to = "ue" /\ d.run = run /\ d.kind \in Granting => Registered
AddressesTrue == \A d \in net : d.kind = "childSa" => d.addr \in UeAddrs

\* A child SA that the UE has not made up is one that the network has granted.
SaTrue == pc \in Completing => ike.ip \in UeAddrs /\ (ike.sa # "dummy" => Registered)
ConnectedTrue == pc \in Connected => n3.given[ike.ip] # 0

\* The N3IWF gives addresses to registered UEs, and sets up sessions for them.
GivenTrue ==
    /\ n3.session # "none" => n3.standing = "registered"
    /\ DOMAIN n3.given = UeAddrs
    /\ \A a \in UeAddrs :
        /\ n3.given[a] \in 0..n3.run
        /\ n3.given[a] = n3.run => n3.run = 0 \/ n3.standing = "registered"

GrantInv == NoFuture /\ GrantsTrue /\ AddressesTrue /\ SaTrue /\ ConnectedTrue /\ GivenTrue

IInv == Shaped /\ NoVerdictYet /\ NothingLeftBehind /\ ChildrenInv /\ GrantInv

-----------------------------------------------------------------------------
(* Steps of the UE                                                          *)

\* Whether or not the datagram is repeated, nothing is in flight afterwards that was
\* not before or is sent.
LEMMA TakeNet ==
    ASSUME NEW d, NEW out, Take(d, out), d \in net
    PROVE  net' \subseteq net \cup out
  BY DEF Take

\* A step of the UE that sends the N3IWF something, at most, keeps the grants true.
LEMMA UeKeepsGrants ==
    ASSUME GrantInv, pc # "idle", run' = run, n3' = n3,
           NEW out, \A d \in out : d.to = "n3iwf" /\ d.run \in 0..run /\ d.kind # "childSa",
           net' \subseteq net \cup out, SaTrue', ConnectedTrue'
    PROVE  GrantInv'
  <1>1. NoFuture' BY DEF GrantInv, NoFuture
  <1>2. GrantsTrue' BY DEF GrantInv, GrantsTrue, Registered
  <1>3. AddressesTrue' BY DEF GrantInv, AddressesTrue
  <1>4. GivenTrue' BY DEF GrantInv, GivenTrue
  <1> QED BY <1>1, <1>2, <1>3, <1>4 DEF GrantInv

\* The same for a step of the UE that sends nothing.
LEMMA SilentUeKeepsGrants ==
    ASSUME GrantInv, pc # "idle", run' = run, n3' = n3, net' \subseteq net, SaTrue', ConnectedTrue'
    PROVE  GrantInv'
  <1> DEFINE out == {}
  <1>1. /\ \A d \in out : d.to = "n3iwf" /\ d.run \in 0..run /\ d.kind # "childSa"
        /\ net' \subseteq net \cup out
    OBVIOUS
  <1> HIDE DEF out
  <1> QED BY <1>1, UeKeepsGrants

\* What the UE sends is for the N3IWF, from this run or from none.
LEMMA RequestsAreRequests ==
    ASSUME run \in Nat, NEW r \in {run, SaRun}, NEW kind \in Requests, NEW mid, NEW count
    PROVE  LET m == Request(r, kind, mid, count)
           IN  m.to = "n3iwf" /\ m.run \in 0..run /\ m.kind # "childSa"
  BY DEF Request, SaRun, Requests
LEMMA NextRequestsAreRequests ==
    ASSUME run \in Nat, NEW kind \in Requests, NEW count
    PROVE  \A m \in NextRequest(kind, count) : m.to = "n3iwf" /\ m.run \in 0..run /\ m.kind # "childSa"
  BY RequestsAreRequests DEF NextRequest

\* The end of a run, by itself.
LEMMA EndsKeeps ==
    ASSUME IInv, NEW v, Ends(v)
    PROVE  Shaped' /\ NoVerdictYet' /\ NothingLeftBehind' /\ ChildrenInv'
  <1>1. Shaped' BY DEF IInv, Shaped, Ends, Deferred
  <1>2. NoVerdictYet' BY DEF Ends, NoVerdictYet
  <1>3. NothingLeftBehind' BY DEF IInv, Shaped, Ends, Deferred, NothingLeftBehind
  <1>4. ChildrenInv'
    BY DEF Ends, ChildrenInv, NoChildYet, HalfOpenPaired, Childless, OneChild, InboundSpisDistinct
  <1> QED BY <1>1, <1>2, <1>3, <1>4

\* The end of a run, with nothing sent that grants anything.
LEMMA EndsKeepsGrants ==
    ASSUME IInv, NEW v, Ends(v), pc # "idle", NEW out, net' \subseteq net \cup out,
           \A d \in out : d.to = "n3iwf" /\ d.run \in 0..run /\ d.kind # "childSa"
    PROVE  IInv'
  <1>1. pc' = "idle" /\ run' = run /\ n3' = n3 BY DEF Ends
  <1>2. SaTrue' /\ ConnectedTrue' BY <1>1 DEF SaTrue, ConnectedTrue, Completing, Connected
  <1>3. GrantInv' BY <1>1, <1>2, UeKeepsGrants DEF IInv
  <1> QED BY <1>3, EndsKeeps DEF IInv
LEMMA SilentEndKeepsGrants ==
    ASSUME IInv, NEW v, Ends(v), pc # "idle", net' \subseteq net
    PROVE  IInv'
  <1> DEFINE out == {}
  <1>1. /\ \A d \in out : d.to = "n3iwf" /\ d.run \in 0..run /\ d.kind # "childSa"
        /\ net' \subseteq net \cup out
    OBVIOUS
  <1> HIDE DEF out
  <1> QED BY <1>1, EndsKeepsGrants

\* A new run begins with no datagram of its own but the first request.
LEMMA StartKeeps ==
    ASSUME IInv, NEW deletesLink \in BOOLEAN, StartRun(deletesLink)
    PROVE  IInv'
  <1>1. Shaped' BY DEF IInv, Shaped, StartRun, NewUe
  <1>2. NoVerdictYet' BY DEF StartRun, NoVerdictYet
  <1>3. NothingLeftBehind' BY DEF StartRun, NothingLeftBehind
  <1>4. ChildrenInv'
    BY DEF StartRun, NewUe, ChildrenInv, NoChildYet, HalfOpenPaired, Childless, OneChild, InboundSpisDistinct
  <1>5. GrantInv'
    <2>1. PICK r : r.to = "n3iwf" /\ r.run = run + 1 /\ r.kind = "saInit" /\ net' = net \cup {r}
      BY DEF StartRun, Request
    <2>2. run' = run + 1 /\ n3' = n3 /\ pc' = "saInit" BY DEF StartRun
    <2>3. run \in Nat /\ n3.run \in 0..run /\ \A d \in net : d.run \in 0..run
      BY DEF IInv, GrantInv, NoFuture
    <2>4. NoFuture' BY <2>1, <2>2, <2>3 DEF NoFuture
    <2>5. GrantsTrue' BY <2>1, <2>2, <2>3 DEF GrantsTrue
    <2>6. SaTrue' /\ ConnectedTrue' BY <2>2 DEF SaTrue, ConnectedTrue, Completing, Connected
    <2>7. AddressesTrue' /\ GivenTrue' BY <2>1, <2>2 DEF IInv, GrantInv, AddressesTrue, GivenTrue
    <2> QED BY <2>4, <2>5, <2>6, <2>7 DEF GrantInv
  <1> QED BY <1>1, <1>2, <1>3, <1>4, <1>5 DEF IInv

\* A read that leaves the machine and the child SAs as they are.
LEMMA PlainRead ==
    ASSUME IInv, pc \in {"auth", "regReply", "smc", "success", "success2"},
           pc' \in {"regReply", "smc", "success", "success2", "final"},
           ike' = [ike EXCEPT !.mid = ike'.mid, !.p0 = ike'.p0],
           UNCHANGED <<run, verdict, addr, kern, n3>>,
           NEW d \in net, NEW kind \in Requests, NEW count, Take(d, NextRequest(kind, count))
    PROVE  IInv'
  <1>1. Shaped' BY DEF IInv, Shaped
  <1>2. NoVerdictYet' BY DEF IInv, NoVerdictYet
  <1>3. NothingLeftBehind' BY DEF IInv, NothingLeftBehind
  <1>4. ike'.half = ike.half /\ ike'.child = ike.child BY DEF IInv, Shaped
  <1>5. ChildrenInv'
    BY <1>4 DEF IInv, ChildrenInv, NoChildYet, HalfOpenPaired, Childless, OneChild, InboundSpisDistinct
  <1>6. GrantInv'
    <2>1. net' \subseteq net \cup NextRequest(kind, count) BY TakeNet
    <2>2. run \in Nat BY DEF IInv, GrantInv, NoFuture
    <2>3. SaTrue' /\ ConnectedTrue' BY DEF SaTrue, ConnectedTrue, Completing, Connected
    <2> QED BY <2>1, <2>2, <2>3, UeKeepsGrants, NextRequestsAreRequests DEF IInv
  <1> QED BY <1>1, <1>2, <1>3, <1>5, <1>6 DEF IInv

\* A read that ends the run.
LEMMA EndingRead ==
    ASSUME IInv, pc # "idle", NEW d \in net, Take(d, {}), NEW v, Ends(v)
    PROVE  IInv'
  <1>1. net' \subseteq net BY TakeNet
  <1> QED BY <1>1, SilentEndKeepsGrants

\* The read at which the run fails: what it sends grants nothing.
LEMMA MisreadKeeps ==
    ASSUME IInv, NEW d \in net, Misread(d)
    PROVE  IInv'
  <1>1. pc # "idle" /\ Ends("fail") BY DEF Misread, Reading
  <1> DEFINE out == IF pc = "session" /\ d.kind \in Clear THEN ChildResponse ELSE {}
  <1>2. net' \subseteq net \cup out BY TakeNet DEF Misread
  <1>3. \A m \in out : m.to = "n3iwf" /\ m.run \in 0..run /\ m.kind # "childSa"
    <2>1. run \in Nat /\ "childResponse" \in Requests BY DEF IInv, GrantInv, NoFuture, Requests
    <2> QED BY <2>1, RequestsAreRequests DEF ChildResponse
  <1> HIDE DEF out
  <1> QED BY <1>1, <1>2, <1>3, EndsKeepsGrants

\* The first IKE_AUTH request opens the half-open child SA 1.
LEMMA SaInitKeeps ==
    ASSUME IInv, NEW d \in net, ReadSaInit(d)
    PROVE  IInv'
  <1>1. pc = "saInit" /\ pc' = "auth" /\ UNCHANGED <<run, verdict, addr, kern, n3>>
    BY DEF ReadSaInit
  <1>2. PICK spi \in GenerateSPI :
          ike' = [ike EXCEPT !.keyed = MakesKeys(d), !.mid = @ + 1,
                             !.half = CreateHalfChildSA(@, ike.mid + 1, spi)]
    BY DEF ReadSaInit
  <1>3. Shaped' BY <1>1, <1>2 DEF IInv, Shaped
  <1>4. NoVerdictYet' BY <1>1 DEF IInv, NoVerdictYet
  <1>5. NothingLeftBehind' BY <1>1 DEF IInv, NothingLeftBehind
  <1>6. ChildrenInv'
    <2>1. ike.mid = 0 /\ ike.half = <<>> /\ ike.child = {}
      BY <1>1 DEF IInv, ChildrenInv, NoChildYet, Childless
    <2>2. ike'.half = CreateHalfChildSA(ike.half, ike.mid + 1, spi) /\ ike'.child = ike.child
      BY <1>2 DEF IInv, Shaped
    <2>3. DOMAIN ike.half = {} BY <2>1
    <2>4. DOMAIN ike'.half = {1} BY <2>1, <2>2, <2>3 DEF CreateHalfChildSA
    <2> QED BY <1>1, <2>1, <2>2, <2>4
        DEF ChildrenInv, NoChildYet, HalfOpenPaired, Childless, OneChild, InboundSpisDistinct
  <1>7. GrantInv'
    <2> DEFINE out == {Request(IF MakesKeys(d) THEN run ELSE 0, "auth", ike.mid + 1, ZeroCount)}
    <2>1. net' \subseteq net \cup out BY TakeNet DEF ReadSaInit
    <2>2. run \in Nat BY DEF IInv, GrantInv, NoFuture
    <2>3. \A m \in out : m.to = "n3iwf" /\ m.run \in 0..run /\ m.kind # "childSa"
      BY <2>2 DEF Request
    <2>4. SaTrue' /\ ConnectedTrue' BY <1>1 DEF SaTrue, ConnectedTrue, Completing, Connected
    <2> HIDE DEF out
    <2> QED BY <1>1, <2>1, <2>3, <2>4, UeKeepsGrants DEF IInv
  <1> QED BY <1>3, <1>4, <1>5, <1>6, <1>7 DEF IInv

\* The loop over the zero bytes changes nothing else.
LEMMA ZeroKeyKeeps ==
    ASSUME IInv, NEW d \in net, ReadZeroKey(d)
    PROVE  IInv'
  <1>1. pc = "saInit" /\ pc' = "spin" /\ UNCHANGED <<run, verdict, ike, addr, kern, n3>>
    BY DEF ReadZeroKey
  <1>2. net' \subseteq net BY TakeNet DEF ReadZeroKey
  <1>3. Shaped' /\ NoVerdictYet' /\ NothingLeftBehind'
    BY <1>1 DEF IInv, Shaped, NoVerdictYet, NothingLeftBehind
  <1>4. ChildrenInv'
    BY <1>1 DEF ChildrenInv, NoChildYet, HalfOpenPaired, Childless, OneChild, InboundSpisDistinct
  <1>5. SaTrue' /\ ConnectedTrue' BY <1>1 DEF SaTrue, ConnectedTrue, Completing, Connected
  <1>6. GrantInv' BY <1>1, <1>2, <1>5, SilentUeKeepsGrants DEF IInv
  <1> QED BY <1>3, <1>4, <1>6 DEF IInv

\* Security Mode Complete, the first or the second.
LEMMA SecurityModeCompleteKeeps ==
    ASSUME IInv, NEW d \in net, pc \in {"smc", "success"}, NEW next \in {"success", "success2"},
           SendSecurityModeComplete(d, next)
    PROVE  IInv'
  <1>1. ike' = [ike EXCEPT !.mid = ike'.mid, !.p0 = ike'.p0]
    BY DEF SendSecurityModeComplete, IInv, Shaped
  <1>2. "smComplete" \in Requests BY DEF Requests
  <1> QED BY <1>1, <1>2, PlainRead DEF SendSecurityModeComplete

\* The authentication after EAP-Success.
LEMMA AuthenticationKeeps ==
    ASSUME IInv, NEW d \in net, pc \in {"success", "success2"}, SendAuthentication(d)
    PROVE  IInv'
  <1>1. ike' = [ike EXCEPT !.mid = ike'.mid, !.p0 = ike'.p0]
    BY DEF SendAuthentication, IInv, Shaped
  <1>2. "final" \in Requests BY DEF Requests
  <1> QED BY <1>1, <1>2, PlainRead DEF SendAuthentication

\* The last IKE_AUTH answer, used or not.
LEMMA ChildSaKeeps ==
    ASSUME IInv, NEW d \in net, ReadChildSa(d)
    PROVE  IInv'
  <1>1. pc = "final" /\ pc' = "complete" /\ UNCHANGED <<run, verdict, addr, kern, n3>>
    BY DEF ReadChildSa, Read
  <1>2. net' \subseteq net BY TakeNet DEF ReadChildSa
  <1>3. Shaped' BY <1>1 DEF IInv, Shaped, ReadChildSa
  <1>4. NoVerdictYet' /\ NothingLeftBehind' BY <1>1 DEF IInv, NoVerdictYet, NothingLeftBehind
  <1>5. ike'.half = ike.half /\ ike'.child = ike.child BY DEF IInv, Shaped, ReadChildSa
  <1>6. ChildrenInv'
    BY <1>1, <1>5 DEF IInv, ChildrenInv, NoChildYet, HalfOpenPaired, Childless, OneChild, InboundSpisDistinct
  <1>7. SaTrue'
    <2>1. CASE d.kind = "childSa"
      <3>1. ike'.sa = "agreed" /\ ike'.ip = d.addr BY <2>1 DEF ReadChildSa, IInv, Shaped
      <3>2. d.addr \in UeAddrs BY <2>1 DEF IInv, GrantInv, AddressesTrue
      <3>3. d.to = "ue" /\ d.run = run BY <2>1 DEF ReadChildSa, Read, Readable, Clear
      <3>4. Registered BY <1>1, <2>1, <3>3 DEF IInv, GrantInv, GrantsTrue, Granting
      <3> QED BY <1>1, <3>1, <3>2, <3>4 DEF SaTrue, Registered
    <2>2. CASE d.kind # "childSa"
      <3>1. ike'.sa = "dummy" /\ ike'.ip = DefaultAddr BY <2>2 DEF ReadChildSa, IInv, Shaped
      <3>2. DefaultAddr \in UeAddrs BY RunAssumption DEF DefaultAddr
      <3> QED BY <3>1, <3>2 DEF SaTrue
    <2> QED BY <2>1, <2>2
  <1>8. ConnectedTrue' BY <1>1 DEF ConnectedTrue, Connected
  <1>9. GrantInv' BY <1>1, <1>2, <1>7, <1>8, SilentUeKeepsGrants DEF IInv
  <1> QED BY <1>3, <1>4, <1>6, <1>9 DEF IInv

\* The second child SA draws another SPI.
LEMMA CreateChildKeeps ==
    ASSUME IInv, NEW d \in net, ReadCreateChildSa(d)
    PROVE  IInv'
  <1>1. pc = "session" /\ pc' = "gre" /\ UNCHANGED <<run, verdict, addr, kern, n3>>
    BY DEF ReadCreateChildSa, Read
  <1>2. PICK spi \in GenerateSPI :
          ike' = [ike EXCEPT !.child = @ \cup {spi}, !.sa = IF d.kind = "createChild" THEN "session" ELSE @]
    BY DEF ReadCreateChildSa
  <1>3. Shaped' BY <1>2, <1>1 DEF IInv, Shaped
  <1>4. NoVerdictYet' /\ NothingLeftBehind' BY <1>1 DEF IInv, NoVerdictYet, NothingLeftBehind
  <1>5. ChildrenInv'
    <2>1. PICK s : ike.child = {s} BY <1>1 DEF IInv, ChildrenInv, OneChild
    <2>2. ike'.child = {s, spi} /\ ike'.half = ike.half BY <1>2, <2>1 DEF IInv, Shaped
    <2>3. spi # s BY <2>1 DEF GenerateSPI
    <2>4. Cardinality(ike'.child) = 2
      <3>1. IsFiniteSet({s}) /\ Cardinality({s}) = 1 BY FS_Singleton
      <3>2. spi \notin {s} /\ {s} \cup {spi} = {s, spi} BY <2>3
      <3>3. Cardinality({s} \cup {spi}) = Cardinality({s}) + 1 BY <3>1, <3>2, FS_AddElement
      <3> QED BY <2>2, <3>1, <3>2, <3>3
    <2> QED BY <1>1, <2>2, <2>4
        DEF IInv, ChildrenInv, NoChildYet, HalfOpenPaired, Childless, OneChild, InboundSpisDistinct
  <1>6. GrantInv'
    <2>1. net' \subseteq net \cup ChildResponse BY TakeNet DEF ReadCreateChildSa
    <2>2. \A m \in ChildResponse : m.to = "n3iwf" /\ m.run \in 0..run /\ m.kind # "childSa"
      <3>1. run \in Nat /\ "childResponse" \in Requests BY DEF IInv, GrantInv, NoFuture, Requests
      <3> QED BY <3>1, RequestsAreRequests DEF ChildResponse
    <2>3. ike'.ip = ike.ip /\ ike'.sa = IF d.kind = "createChild" THEN "session" ELSE ike.sa
      BY <1>2 DEF IInv, Shaped
    <2>4. d.kind = "createChild" => Registered
      BY <1>1 DEF ReadCreateChildSa, Read, Readable, Clear, IInv, GrantInv, GrantsTrue, Granting
    <2>5. SaTrue' BY <1>1, <2>3, <2>4 DEF IInv, GrantInv, SaTrue, Registered, Completing
    <2>6. ConnectedTrue' BY <1>1, <2>3 DEF IInv, GrantInv, ConnectedTrue, Connected
    <2> QED BY <1>1, <2>1, <2>2, <2>5, <2>6, UeKeepsGrants DEF IInv
  <1> QED BY <1>3, <1>4, <1>5, <1>6 DEF IInv

\* Everything that begins with ReadFromUDP.
LEMMA ReadsKeep ==
    ASSUME IInv, NEW d \in net, UeReads(d)
    PROVE  IInv'
  <1>1. CASE ReadSaInit(d) BY <1>1, SaInitKeeps
  <1>2. CASE ReadZeroKey(d) BY <1>2, ZeroKeyKeeps
  <1>3. CASE ReadEapStart(d)
    <2>1. ike' = [ike EXCEPT !.mid = ike'.mid, !.p0 = ike'.p0]
      BY <1>3 DEF ReadEapStart, IInv, Shaped
    <2>2. "regRequest" \in Requests BY DEF Requests
    <2> QED BY <1>3, <2>1, <2>2, PlainRead DEF ReadEapStart, Read
  <1>4. CASE ReadRegReply(d)
    <2>1. pc = "regReply" BY <1>4 DEF ReadRegReply, Read
    <2>2. CASE d.kind = "authRequest"
      <3>1. ike' = [ike EXCEPT !.mid = ike'.mid, !.p0 = ike'.p0]
        BY <1>4, <2>2 DEF ReadRegReply, IInv, Shaped
      <3>2. "authResponse" \in Requests BY DEF Requests
      <3> QED BY <1>4, <2>1, <2>2, <3>1, <3>2, PlainRead DEF ReadRegReply
    <2>3. CASE d.kind # "authRequest" BY <1>4, <2>1, <2>3, EndingRead DEF ReadRegReply
    <2> QED BY <2>2, <2>3
  <1>5. CASE ReadSecurityModeCommand(d)
    BY <1>5, SecurityModeCompleteKeeps DEF ReadSecurityModeCommand, Read
  <1>6. CASE ReadEapSuccess(d)
    <2>1. pc = "success" BY <1>6 DEF ReadEapSuccess, Read
    <2> QED BY <1>6, <2>1, AuthenticationKeeps, SecurityModeCompleteKeeps DEF ReadEapSuccess
  <1>7. CASE ReadEapSuccessAgain(d)
    <2>1. pc = "success2" BY <1>7 DEF ReadEapSuccessAgain, Read
    <2> QED BY <1>7, <2>1, AuthenticationKeeps, EndingRead DEF ReadEapSuccessAgain
  <1>8. CASE ReadChildSa(d) BY <1>8, ChildSaKeeps
  <1>9. CASE ReadCreateChildSa(d) BY <1>9, CreateChildKeeps
  <1>10. CASE Misread(d) BY <1>10, MisreadKeeps
  <1> QED BY <1>1, <1>2, <1>3, <1>4, <1>5, <1>6, <1>7, <1>8, <1>9, <1>10 DEF UeReads

\* The UE keeps its address and its child SA once it has them.
LEMMA StaysConnected ==
    ASSUME GrantInv, pc \in Completing, pc' \in Connected => pc \in Connected,
           UNCHANGED <<run, n3>>, ike'.sa = ike.sa, ike'.ip = ike.ip
    PROVE  SaTrue' /\ ConnectedTrue'
  BY DEF GrantInv, SaTrue, ConnectedTrue, Registered

\* Everything that the UE does without waiting for a datagram.
LEMMA WorksKeep ==
    ASSUME IInv, UeWorks
    PROVE  IInv'
  <1> USE DEF ChildrenInv, NoChildYet, HalfOpenPaired, Childless, OneChild, InboundSpisDistinct
  <1>1. CASE CompleteChildSA
    <2>1. pc = "complete" /\ net' = net BY <1>1 DEF CompleteChildSA
    <2>2. DOMAIN ike.half = {1} /\ ike.child = {} BY <2>1 DEF IInv
    <2>3. /\ ike' = [ike EXCEPT !.half = Restrict(@, DOMAIN @ \ {1}), !.child = @ \cup {ike.half[1]}]
          /\ pc' = "iface" /\ UNCHANGED <<run, verdict, nas, addr, kern, n3>>
      BY <1>1, <2>2 DEF CompleteChildSA
    <2>4. Shaped' /\ ike'.half = Restrict(ike.half, {}) /\ ike'.child = {ike.half[1]}
      BY <2>2, <2>3 DEF IInv, Shaped
    <2>5. ike'.half = <<>> BY <2>4 DEF Restrict
    <2>6. NoVerdictYet' /\ NothingLeftBehind' BY <2>1, <2>3 DEF IInv, NoVerdictYet, NothingLeftBehind
    <2>7. ChildrenInv' BY <2>3, <2>4, <2>5
    <2>8. ike'.sa = ike.sa /\ ike'.ip = ike.ip BY <2>3 DEF IInv, Shaped
    <2>9. GrantInv' BY <2>1, <2>3, <2>8, StaysConnected, SilentUeKeepsGrants DEF IInv, Completing, Connected
    <2> QED BY <2>4, <2>6, <2>7, <2>9 DEF IInv
  <1>2. CASE AddUeAddress
    <2>1. pc = "iface" /\ net' = net BY <1>2 DEF AddUeAddress
    <2>2. CASE ike.ip \in kern.addrs BY <1>2, <2>1, <2>2, SilentEndKeepsGrants DEF AddUeAddress
    <2>3. CASE ike.ip \notin kern.addrs
      <3>1. pc' = "dial" /\ UNCHANGED <<run, verdict, ike, n3>> BY <1>2, <2>3 DEF AddUeAddress
      <3>2. Shaped' BY <1>2, <2>3 DEF IInv, Shaped, AddUeAddress
      <3>3. verdict = "none" BY <2>1 DEF IInv, NoVerdictYet
      <3>4. NoVerdictYet' /\ NothingLeftBehind' BY <3>1, <3>3 DEF NoVerdictYet, NothingLeftBehind
      <3>5. ChildrenInv' BY <2>1, <3>1 DEF IInv
      <3>6. GrantInv' BY <2>1, <3>1, StaysConnected, SilentUeKeepsGrants DEF IInv, Completing, Connected
      <3> QED BY <3>2, <3>4, <3>5, <3>6 DEF IInv
    <2> QED BY <2>2, <2>3
  <1>3. CASE Dial
    <2>1. pc = "dial" /\ pc' = "nas" /\ UNCHANGED <<run, verdict, ike, addr, kern, net, n3>>
      BY <1>3 DEF Dial
    <2>2. Shaped' /\ NoVerdictYet' /\ NothingLeftBehind' /\ ChildrenInv'
      BY <2>1 DEF IInv, Shaped, NoVerdictYet, NothingLeftBehind
    <2>3. GrantInv' BY <2>1, StaysConnected, SilentUeKeepsGrants DEF IInv, Completing, Connected
    <2> QED BY <2>2, <2>3 DEF IInv
  <1>4. CASE RegisterOverTcp
    <2>1. /\ pc = "nas" /\ pc' = "session" /\ UNCHANGED <<run, verdict, ike, addr, kern, net>>
          /\ n3.given[ike.ip] # 0
          /\ n3' = IF n3.given[ike.ip] = run THEN [n3 EXCEPT !.session = "asked"] ELSE n3
      BY <1>4 DEF RegisterOverTcp
    <2>2. Shaped' /\ NoVerdictYet' /\ NothingLeftBehind' /\ ChildrenInv'
      BY <2>1 DEF IInv, Shaped, NoVerdictYet, NothingLeftBehind
    <2>3. /\ UNCHANGED <<n3.run, n3.standing, n3.given>>
          /\ n3'.session # n3.session => n3.given[ike.ip] = run
      BY <2>1 DEF IInv, Shaped
    <2>4. GivenTrue'
      <3>1. ike.ip \in UeAddrs BY <2>1 DEF IInv, GrantInv, SaTrue, Completing
      <3>2. /\ n3.session # "none" => n3.standing = "registered"
            /\ DOMAIN n3.given = UeAddrs
            /\ \A a \in UeAddrs :
                /\ n3.given[a] \in 0..n3.run
                /\ n3.given[a] = n3.run => n3.run = 0 \/ n3.standing = "registered"
        BY DEF IInv, GrantInv, GivenTrue
      <3>3. run \in Nat /\ n3.run \in 0..run BY DEF IInv, GrantInv, NoFuture
      <3>4. n3.given[ike.ip] = run => n3.standing = "registered" BY <2>1, <3>1, <3>2, <3>3
      <3>5. n3'.session # "none" => n3'.standing = "registered" BY <2>3, <3>2, <3>4
      <3> QED BY <2>3, <3>2, <3>5 DEF GivenTrue
    <2>5. GrantInv'
      BY <2>1, <2>3, <2>4 DEF IInv, GrantInv, NoFuture, GrantsTrue, AddressesTrue, SaTrue,
          ConnectedTrue, Registered, Completing, Connected
    <2> QED BY <2>2, <2>5 DEF IInv
  <1>5. CASE AddTunnel
    <2>1. pc = "gre" /\ net' = net BY <1>5 DEF AddTunnel
    <2>2. CASE kern.gre BY <1>5, <2>1, <2>2, SilentEndKeepsGrants DEF AddTunnel
    <2>3. CASE ~kern.gre
      <3>1. /\ pc' = "ping" /\ UNCHANGED <<run, verdict, ike, addr, n3>>
            /\ kern' = [kern EXCEPT !.gre = TRUE]
        BY <1>5, <2>3 DEF AddTunnel
      <3>2. Shaped' /\ kern'.addrs = kern.addrs BY <3>1 DEF IInv, Shaped
      <3>3. NoVerdictYet' /\ NothingLeftBehind'
        BY <2>1, <3>1, <3>2 DEF IInv, NoVerdictYet, NothingLeftBehind
      <3>4. ChildrenInv' BY <2>1, <3>1 DEF IInv
      <3>5. GrantInv' BY <2>1, <3>1, StaysConnected, SilentUeKeepsGrants DEF IInv, Completing, Connected
      <3> QED BY <3>2, <3>3, <3>4, <3>5 DEF IInv
    <2> QED BY <2>2, <2>3
  <1>6. CASE Ping BY <1>6, SilentEndKeepsGrants DEF Ping
  <1> QED BY <1>1, <1>2, <1>3, <1>4, <1>5, <1>6 DEF UeWorks

\* Failing system calls and the two kinds of time-outs.
LEMMA FailuresKeep ==
    ASSUME IInv, MachineFails \/ DeadlinePasses \/ GoTestTimeout
    PROVE  IInv'
  <1>1. CASE DeadlinePasses BY <1>1, SilentEndKeepsGrants DEF DeadlinePasses, HasDeadline
  <1>2. CASE GoTestTimeout
    <2>1. verdict' = "killed" /\ pc' = "idle" /\ UNCHANGED <<run, ike, addr, kern, net, n3>>
      BY <1>2 DEF GoTestTimeout
    <2>2. Shaped' /\ NoVerdictYet' /\ NothingLeftBehind'
      BY <2>1 DEF IInv, Shaped, NoVerdictYet, NothingLeftBehind
    <2>3. ChildrenInv'
      BY <2>1 DEF ChildrenInv, NoChildYet, HalfOpenPaired, Childless, OneChild, InboundSpisDistinct
    <2>4. SaTrue' /\ ConnectedTrue' BY <2>1 DEF SaTrue, ConnectedTrue, Completing, Connected
    <2>5. GrantInv' BY <1>2, <2>1, <2>4, SilentUeKeepsGrants DEF IInv, GoTestTimeout
    <2> QED BY <2>2, <2>3, <2>5 DEF IInv
  <1>3. CASE MachineFails
    <2>1. pc # "idle" /\ net' = net BY <1>3 DEF MachineFails
    <2>2. CASE pc = "gre" /\ ~kern.gre
      <3>1. /\ kern' = [Deferred EXCEPT !.gre = TRUE] /\ verdict' = "fail" /\ pc' = "idle"
            /\ UNCHANGED <<run, ike, addr, n3>>
        BY <1>3, <2>2 DEF MachineFails
      <3>2. kern' = [link |-> kern.link, addrs |-> kern.addrs \ {addr}, gre |-> TRUE]
        BY <3>1 DEF IInv, Shaped, Deferred
      <3>3. Shaped'
        <4>1. kern' = [link |-> kern'.link, addrs |-> kern'.addrs, gre |-> kern'.gre] BY <3>2
        <4>2. ike' = ike /\ n3' = n3 BY <3>1
        <4> QED BY <4>1, <4>2 DEF IInv, Shaped
      <3>4. addr' \notin kern'.addrs BY <3>1, <3>2
      <3>5. NoVerdictYet' /\ NothingLeftBehind' BY <3>1, <3>4 DEF NoVerdictYet, NothingLeftBehind
      <3>6. ChildrenInv'
        BY <3>1 DEF ChildrenInv, NoChildYet, HalfOpenPaired, Childless, OneChild, InboundSpisDistinct
      <3>7. SaTrue' /\ ConnectedTrue' BY <3>1 DEF SaTrue, ConnectedTrue, Completing, Connected
      <3>8. GrantInv' BY <2>1, <3>1, <3>7, SilentUeKeepsGrants DEF IInv
      <3> QED BY <3>3, <3>5, <3>6, <3>8 DEF IInv
    <2>3. CASE ~(pc = "gre" /\ ~kern.gre) BY <1>3, <2>1, <2>3, SilentEndKeepsGrants DEF MachineFails
    <2> QED BY <2>2, <2>3
  <1> QED BY <1>1, <1>2, <1>3

-----------------------------------------------------------------------------
(* Steps of the network and the N3IWF                                       *)

\* What only happens outside the UE.
LEMMA OutsideKeeps ==
    ASSUME IInv, UNCHANGED <<run, pc, verdict, ike, addr>>, GrantInv', Shaped',
           kern'.addrs \subseteq kern.addrs
    PROVE  IInv'
  BY DEF IInv, NoVerdictYet, NothingLeftBehind, ChildrenInv, NoChildYet, HalfOpenPaired,
         Childless, OneChild, InboundSpisDistinct

\* Datagrams that nobody gets.
LEMMA LosesKeep ==
    ASSUME IInv, NEW d \in net, Lose(d) \/ Drop(d)
    PROVE  IInv'
  <1>1. net' \subseteq net /\ UNCHANGED <<run, pc, verdict, ike, addr, kern, n3>>
    BY DEF Lose, Drop
  <1>2. Shaped' BY <1>1 DEF IInv, Shaped
  <1>3. GrantInv'
    BY <1>1 DEF IInv, GrantInv, NoFuture, GrantsTrue, AddressesTrue, SaTrue, ConnectedTrue, GivenTrue,
        Registered
  <1> QED BY <1>1, <1>2, <1>3, OutsideKeeps

\* The N3IWF sends something: a registered UE stays so, and a grant registers.
LEMMA AnswersKeepGrants ==
    ASSUME GrantInv, UNCHANGED <<run, pc, ike>>, NEW r,
           net' \subseteq net \cup {r}, r.run \in 0..run, n3'.run \in 0..run,
           r.kind \in Granting /\ r.run = run => Registered',
           r.kind = "childSa" => r.addr \in UeAddrs,
           Registered => Registered', GivenTrue', ConnectedTrue'
    PROVE  GrantInv'
  <1>1. NoFuture' BY DEF GrantInv, NoFuture
  <1>2. GrantsTrue' BY DEF GrantInv, GrantsTrue
  <1>3. AddressesTrue' BY DEF GrantInv, AddressesTrue
  <1>4. SaTrue' BY DEF GrantInv, SaTrue
  <1> QED BY <1>1, <1>2, <1>3, <1>4 DEF GrantInv

\* A new IKE SA is only made for a run later than the one served so far.
LEMMA SaInitAnswerKeeps ==
    ASSUME IInv, NEW d \in net, AnswerSaInit(d)
    PROVE  IInv'
  <1>1. d.run > n3.run /\ UNCHANGED <<run, pc, verdict, ike, addr, kern>>
        /\ n3' = [NoSession(TRUE, d.run, n3.given) EXCEPT !.mid = 1]
    BY DEF AnswerSaInit
  <1>2. PICK kind \in {"saReply", "saReplyZero"} : net' = (net \ {d}) \cup {Reply(d.run, kind, d.mid, NoAddr)}
    BY DEF AnswerSaInit, Replied
  <1>3. Shaped' /\ n3'.run = d.run /\ n3'.session = "none" /\ n3'.given = n3.given
    BY <1>1 DEF IInv, Shaped, NoSession
  <1>4. run \in Nat /\ n3.run \in 0..run /\ d.run \in 0..run BY DEF IInv, GrantInv, NoFuture
  <1>5. GrantInv'
    <2> DEFINE r == Reply(d.run, kind, d.mid, NoAddr)
    <2>1. r.run = d.run /\ r.kind = kind BY DEF Reply
    <2>2. net' \subseteq net \cup {r} BY <1>2
    <2>3. n3.run # run BY <1>1, <1>4
    <2>4. DOMAIN n3.given = UeAddrs /\ \A a \in UeAddrs : n3.given[a] \in 0..n3.run
      BY DEF IInv, GrantInv, GivenTrue
    <2>5. \A a \in UeAddrs : n3'.given[a] \in 0..n3'.run /\ n3'.given[a] # n3'.run
      <3>1. d.run \in Nat /\ n3.run \in Nat /\ d.run > n3.run BY <1>1, <1>4
      <3>2. ASSUME NEW x \in 0..n3.run PROVE x \in 0..d.run /\ x # d.run BY <3>1, <3>2
      <3> QED BY <1>3, <2>4, <3>2
    <2>6. GivenTrue' BY <1>3, <2>4, <2>5 DEF GivenTrue
    <2>7. ConnectedTrue' BY <1>1, <1>3 DEF IInv, GrantInv, ConnectedTrue
    <2> HIDE DEF r
    <2> QED BY <1>1, <1>3, <1>4, <2>1, <2>2, <2>3, <2>6, <2>7, AnswersKeepGrants
        DEF IInv, Granting, Registered
  <1> QED BY <1>1, <1>3, <1>5, OutsideKeeps

\* The N3IWF's answers: nobody is refused who has been accepted, and the address that a
\* UE is given is its own from then on.
LEMMA AnswerKeeps ==
    ASSUME IInv, NEW d \in net, Answer(d)
    PROVE  IInv'
  <1>1. d.run = n3.run /\ d.run # 0 /\ d.kind \in DOMAIN Usual /\ UNCHANGED <<run, pc, verdict, ike, addr, kern>>
    BY DEF Answer
  <1>2. PICK kind \in {Usual[d.kind]} \cup Refusals[d.kind] \cup Shortcuts[d.kind],
             a \in UeAddrs \cup {NoAddr} :
          /\ \/ kind = Usual[d.kind]
             \/ kind \in Refusals[d.kind] /\ n3.standing = "none"
             \/ kind \in Shortcuts[d.kind]
          /\ a \in IF kind = "childSa" THEN UeAddrs ELSE {NoAddr}
          /\ Replied(d, kind, a)
          /\ n3' = [n3 EXCEPT !.mid = @ + 1, !.standing = Standing(kind),
                              !.count = IF d.kind = "smComplete" THEN d.count ELSE @,
                              !.given = Giving(a, d.run)]
    BY DEF Answer
  <1>3. /\ Shaped' /\ n3'.run = n3.run /\ n3'.standing = Standing(kind) /\ n3'.session = n3.session
        /\ n3'.given = [b \in UeAddrs |-> IF b = a THEN d.run ELSE n3.given[b]]
    BY <1>1, <1>2 DEF IInv, Shaped, Giving
  <1>4. n3.standing = "registered" => Standing(kind) = "registered"
    BY <1>1, <1>2 DEF Standing, Usual, Shortcuts
  <1>5. kind \in Granting => Standing(kind) = "registered"
    BY <1>1, <1>2 DEF Granting, Standing, Usual, Refusals, Shortcuts
  <1>6. n3.run \in 0..run /\ run \in Nat BY DEF IInv, GrantInv, NoFuture
  <1>7. GivenTrue'
    <2>1. /\ n3.session # "none" => n3.standing = "registered"
          /\ \A b \in UeAddrs :
              /\ n3.given[b] \in 0..n3.run
              /\ n3.given[b] = n3.run => n3.run = 0 \/ n3.standing = "registered"
      BY DEF IInv, GrantInv, GivenTrue
    <2>2. n3'.session # "none" => n3'.standing = "registered" BY <1>3, <1>4, <2>1
    <2>3. a \in UeAddrs => Standing(kind) = "registered" BY <1>2, <1>5, RunAssumption DEF Granting
    <2>4. ASSUME NEW b \in UeAddrs
          PROVE  /\ n3'.given[b] \in 0..n3'.run
                 /\ n3'.given[b] = n3'.run => n3'.run = 0 \/ n3'.standing = "registered"
      <3>1. CASE b = a BY <1>1, <1>3, <1>6, <2>3, <3>1
      <3>2. CASE b # a BY <1>3, <1>4, <2>1, <3>2
      <3> QED BY <3>1, <3>2
    <2> QED BY <1>3, <2>2, <2>4 DEF GivenTrue
  <1>8. ConnectedTrue'
    <2>1. pc \in Connected => ike.ip \in UeAddrs /\ n3.given[ike.ip] # 0
      BY DEF IInv, GrantInv, SaTrue, ConnectedTrue, Connected, Completing
    <2> QED BY <1>1, <1>3, <2>1 DEF ConnectedTrue
  <1>9. GrantInv'
    <2> DEFINE r == Reply(d.run, kind, d.mid, a)
    <2>1. r.run = d.run /\ r.kind = kind /\ r.addr = a BY DEF Reply
    <2>2. net' \subseteq net \cup {r} BY <1>2 DEF Replied
    <2> HIDE DEF r
    <2> QED BY <1>1, <1>2, <1>3, <1>4, <1>5, <1>6, <1>7, <1>8, <2>1, <2>2, AnswersKeepGrants
        DEF IInv, Registered
  <1> QED BY <1>1, <1>3, <1>9, OutsideKeeps

\* What the N3IWF sends of its own accord: the offer of a child SA is for the session of
\* a registered UE.
LEMMA OwnMessagesKeep ==
    ASSUME IInv, OfferChildSa \/ Probe
    PROVE  IInv'
  <1>1. PICK r, kind, mid :
          /\ net' = net \cup {Reply(r, kind, mid, NoAddr)}
          /\ UNCHANGED <<run, pc, verdict, ike, addr, kern>>
          /\ \/ kind = "createChild" /\ r = n3.run /\ n3.session = "asked"
                /\ n3' = [n3 EXCEPT !.session = "offered"]
             \/ kind = "probe" /\ r \in IkeSas /\ n3' = n3
    BY DEF OfferChildSa, Probe
  <1>2. /\ Shaped' /\ UNCHANGED <<n3.run, n3.standing, n3.given>>
        /\ n3'.session # n3.session => n3.session = "asked"
    BY <1>1 DEF IInv, Shaped
  <1>3. n3.run \in 0..run /\ run \in Nat BY DEF IInv, GrantInv, NoFuture
  <1>4. r \in 0..run
    <2>1. DOMAIN n3.given = UeAddrs /\ \A a \in UeAddrs : n3.given[a] \in 0..n3.run
      BY DEF IInv, GrantInv, GivenTrue
    <2>2. IkeSas \subseteq 0..n3.run BY <1>3, <2>1 DEF IkeSas, Range
    <2> QED BY <1>1, <1>3, <2>2
  <1>5. GrantInv'
    <2> DEFINE m == Reply(r, kind, mid, NoAddr)
    <2>1. m.run = r /\ m.kind = kind BY DEF Reply
    <2>2. net' \subseteq net \cup {m} BY <1>1
    <2>3. n3.session = "asked" => n3.standing = "registered" BY DEF IInv, GrantInv, GivenTrue
    <2>4. GivenTrue' BY <1>2, <2>3 DEF IInv, GrantInv, GivenTrue
    <2>5. ConnectedTrue' BY <1>1, <1>2 DEF IInv, GrantInv, ConnectedTrue
    <2>6. kind \in Granting => r = n3.run /\ n3.standing = "registered" BY <1>1, <2>3 DEF Granting
    <2>7. kind # "childSa" BY <1>1
    <2> HIDE DEF m
    <2> QED BY <1>1, <1>2, <1>3, <1>4, <2>1, <2>2, <2>4, <2>5, <2>6, <2>7, AnswersKeepGrants
        DEF IInv, Registered
  <1> QED BY <1>1, <1>2, <1>5, OutsideKeeps

\* The CREATE_CHILD_SA response.
LEMMA ChildResponseKeeps ==
    ASSUME IInv, NEW d \in net, TakeChildResponse(d)
    PROVE  IInv'
  <1>1. /\ net' \subseteq net /\ UNCHANGED <<run, pc, verdict, ike, addr, kern>>
        /\ n3' = n3 \/ (n3.session = "offered" /\ n3' = [n3 EXCEPT !.session = "set"])
    BY DEF TakeChildResponse
  <1>2. /\ Shaped' /\ UNCHANGED <<n3.run, n3.standing, n3.given>>
        /\ n3'.session = n3.session \/ n3.session = "offered"
    BY <1>1 DEF IInv, Shaped
  <1>3. GrantInv'
    BY <1>1, <1>2 DEF IInv, GrantInv, NoFuture, GrantsTrue, AddressesTrue, SaTrue, ConnectedTrue,
        GivenTrue, Registered
  <1> QED BY <1>1, <1>2, <1>3, OutsideKeeps

\* The N3IWF comes and goes between runs only.
LEMMA N3iwfScriptsKeep ==
    ASSUME IInv, StartN3iwf \/ StopN3iwf
    PROVE  IInv'
  <1>1. PICK up \in BOOLEAN :
          /\ pc = "idle" /\ UNCHANGED <<run, pc, verdict, ike, addr, net>>
          /\ n3' = NoSession(up, run, NoneGiven)
          /\ kern' = [kern EXCEPT !.link = up, !.addrs = {}]
    BY DEF StartN3iwf, StopN3iwf
  <1>2. kern' = [link |-> up, addrs |-> {}, gre |-> kern.gre] BY <1>1 DEF IInv, Shaped
  <1>3. kern' = [link |-> kern'.link, addrs |-> kern'.addrs, gre |-> kern'.gre] /\ kern'.addrs = {}
    BY <1>2
  <1>4. /\ Shaped' /\ n3'.run = run /\ kern'.addrs = {}
        /\ n3'.session = "none" /\ n3'.given = NoneGiven
    BY <1>1, <1>3 DEF IInv, Shaped, NoSession
  <1>5. GrantInv'
    <2>1. run \in Nat /\ \A d \in net : d.run \in 0..run BY DEF IInv, GrantInv, NoFuture
    <2>2. NoFuture' BY <1>1, <1>4, <2>1 DEF NoFuture
    <2>3. GivenTrue'
      <3>1. \A a \in UeAddrs : NoneGiven[a] = 0 BY DEF NoneGiven
      <3>2. DOMAIN NoneGiven = UeAddrs BY DEF NoneGiven
      <3> QED BY <1>4, <2>1, <3>1, <3>2 DEF GivenTrue
    <2> QED BY <1>1, <2>2, <2>3
        DEF IInv, GrantInv, GrantsTrue, AddressesTrue, SaTrue, ConnectedTrue, Completing, Connected
  <1> QED BY <1>1, <1>4, <1>5, OutsideKeeps

-----------------------------------------------------------------------------
\* The initial state.
LEMMA InitIInv == Init => IInv
  <1> SUFFICES ASSUME Init PROVE IInv OBVIOUS
  <1>1. Shaped BY DEF Init, Shaped, NewUe, NoSession
  <1>2. NoVerdictYet /\ NothingLeftBehind BY DEF Init, NoVerdictYet, NothingLeftBehind
  <1>3. ChildrenInv
    BY DEF Init, ChildrenInv, NoChildYet, HalfOpenPaired, Childless, OneChild, InboundSpisDistinct
  <1>4. GrantInv
    BY DEF Init, NoSession, NoneGiven, GrantInv, NoFuture, GrantsTrue, AddressesTrue, SaTrue,
        ConnectedTrue, GivenTrue, Completing, Connected
  <1> QED BY <1>1, <1>2, <1>3, <1>4 DEF IInv

\* Every step.
LEMMA NextIInv == IInv /\ [Next]_vars => IInv'
  <1> SUFFICES ASSUME IInv, [Next]_vars PROVE IInv' OBVIOUS
  <1>1. CASE UNCHANGED vars
    BY <1>1 DEF vars, IInv, Shaped, NoVerdictYet, NothingLeftBehind, ChildrenInv, NoChildYet,
        HalfOpenPaired, Childless, OneChild, InboundSpisDistinct, GrantInv, NoFuture, GrantsTrue,
        AddressesTrue, SaTrue, ConnectedTrue, GivenTrue, Registered
  <1>2. ASSUME NEW deletesLink \in BOOLEAN, StartRun(deletesLink) PROVE IInv' BY <1>2, StartKeeps
  <1>3. ASSUME NEW d \in net, UeReads(d) \/ N3iwf(d) \/ Lose(d) \/ Drop(d) PROVE IInv'
    BY <1>3, ReadsKeep, LosesKeep, SaInitAnswerKeeps, AnswerKeeps, ChildResponseKeeps DEF N3iwf
  <1>4. CASE UeWorks BY <1>4, WorksKeep
  <1>5. CASE MachineFails \/ DeadlinePasses \/ GoTestTimeout BY <1>5, FailuresKeep
  <1>6. CASE OfferChildSa \/ Probe BY <1>6, OwnMessagesKeep
  <1>7. CASE StartN3iwf \/ StopN3iwf BY <1>7, N3iwfScriptsKeep
  <1>8. CASE Over BY <1>1, <1>8 DEF Over
  <1> QED BY <1>1, <1>2, <1>3, <1>4, <1>5, <1>6, <1>7, <1>8 DEF Next

\* The inductive invariant.
LEMMA AlwaysIInv == Spec => []IInv
  BY InitIInv, NextIInv, PTL DEF Spec

\* Every run completes the child SA it announced in its first IKE_AUTH request, leaves no
\* other half open, and has a second inbound SPI for the second one
\* (non3gpp_test.go:229-245, 855, 1587).
THEOREM AlwaysChildSAsKept == Spec => []ChildSAsKept
  <1>1. IInv => ChildSAsKept BY DEF IInv, ChildrenInv, ChildSAsKept
  <1> QED BY <1>1, AlwaysIInv, PTL

\* A run that returns or fails has removed the address it has added, wherever it
\* fails (non3gpp_test.go:1765).
THEOREM AlwaysNothingLeftBehind == Spec => []NothingLeftBehind
  <1>1. IInv => NothingLeftBehind BY DEF IInv
  <1> QED BY <1>1, AlwaysIInv, PTL

\* However many datagrams are lost, late, doubled or refused, and in however many runs: the
\* test does not pass unless the N3IWF has registered the UE of this run, or the UE goes
\* under the address of an earlier one with a child SA of its own making
\* (non3gpp_test.go:742, 1043-1060, 1407-1424, 1542, 1609, 1807, 2095).
THEOREM AlwaysPassMeansRegistered == Spec => PassMeansRegistered
  <1>1. ASSUME IInv, Next, pc # "idle", verdict' = "pass"
        PROVE  Registered \/ UnderAnothersAddress
    <2>1. verdict # "pass" BY <1>1 DEF IInv, NoVerdictYet
    <2>2. ASSUME NEW d \in net, UeReads(d) PROVE Registered
      <3>1. d.to = "ue" /\ d.run = run /\ d.kind \in Granting
        BY <1>1, <2>1, <2>2
        DEF UeReads, ReadSaInit, ReadZeroKey, ReadEapStart, ReadRegReply, ReadSecurityModeCommand,
            ReadEapSuccess, ReadEapSuccessAgain, ReadChildSa, ReadCreateChildSa, Misread,
            SendSecurityModeComplete, SendAuthentication, Ends, Read, Readable, Clear, Accepts, Granting
      <3> QED BY <1>1, <3>1 DEF IInv, GrantInv, GrantsTrue
    <2>3. ASSUME UeWorks PROVE pc = "ping"
      BY <1>1, <2>1, <2>3
      DEF UeWorks, CompleteChildSA, AddUeAddress, Dial, RegisterOverTcp, AddTunnel, Ping, Ends
    <2>4. (\E d \in net : UeReads(d)) \/ UeWorks
      BY <1>1, <2>1
      DEF Next, StartRun, N3iwf, AnswerSaInit, Answer, TakeChildResponse, Lose, Drop, MachineFails,
          DeadlinePasses, GoTestTimeout, OfferChildSa, Probe, StartN3iwf, StopN3iwf, Over, vars, Ends
    <2>5. ASSUME pc = "ping" PROVE Registered \/ UnderAnothersAddress
      <3>1. CASE ike.sa # "dummy" BY <1>1, <2>5, <3>1 DEF IInv, GrantInv, SaTrue, Completing
      <3>2. CASE ike.sa = "dummy"
        <4>1. ike.ip \in UeAddrs /\ n3.given[ike.ip] # 0
          BY <1>1, <2>5 DEF IInv, GrantInv, SaTrue, ConnectedTrue, Completing, Connected
        <4>2. /\ n3.given[ike.ip] \in 0..n3.run
              /\ n3.given[ike.ip] = n3.run => n3.run = 0 \/ n3.standing = "registered"
          BY <1>1, <4>1 DEF IInv, GrantInv, GivenTrue
        <4>3. run \in Nat /\ n3.run \in 0..run BY <1>1 DEF IInv, GrantInv, NoFuture
        <4>4. CASE n3.given[ike.ip] = run BY <4>1, <4>2, <4>3, <4>4 DEF Registered
        <4>5. CASE n3.given[ike.ip] # run
          <5>1. n3.given[ike.ip] \in 1..(run - 1) BY <4>1, <4>2, <4>3, <4>5
          <5> QED BY <3>2, <5>1 DEF UnderAnothersAddress
        <4> QED BY <4>4, <4>5
      <3> QED BY <3>1, <3>2
    <2> QED BY <2>2, <2>3, <2>4, <2>5
  <1>2. IInv /\ [Next]_vars
            => [pc # "idle" /\ verdict' = "pass" =>
                   (n3.run = run /\ n3.standing = "registered") \/ UnderAnothersAddress]_vars
    BY <1>1 DEF Registered
  <1> QED BY <1>2, AlwaysIInv, PTL DEF Spec, PassMeansRegistered

-----------------------------------------------------------------------------
(* Types, and the count that Kn3iwf is derived with                         *)

Placed ==
    /\ run \in 0..MaxRuns /\ pc \in Reading \cup Working \cup {"idle"}
    /\ verdict \in {"none", "pass", "fail", "killed"} /\ odd \in 0..MaxOdd

\* The identifier of the request whose answer the UE waits for.
LastRequest == [saInit |-> 0, auth |-> 1, regReply |-> 2, smc |-> 3, success |-> 4, success2 |-> 5]

\* The UE sends at most seven requests, and derives Kn3iwf with the count 0.
IkeInv ==
    /\ ike.keyed \in BOOLEAN /\ ike.mid \in 0..6
    /\ pc \in DOMAIN LastRequest => ike.mid = LastRequest[pc]
    /\ DOMAIN ike.half \subseteq {1} /\ Range(ike.half) \subseteq Spis /\ ike.child \subseteq Spis
    /\ ike.sa \in {"none", "agreed", "dummy", "session"} /\ ike.p0 = 0
    /\ ike.ip \in UeAddrs \cup {NoAddr}
    /\ pc \in {"complete", "iface"} => ike.ip \in UeAddrs

\* One message has gone out in the security context that a Security Mode Complete
\* opens, be it the first or the second.
NasInv ==
    /\ nas \in [ul : Count, dl : Count]
    /\ pc \in {"success", "success2"} => nas.ul = SetCount(0, 1)

MachineInv ==
    addr \in UeAddrs \cup {NoAddr} /\ kern \in [link : BOOLEAN, addrs : SUBSET UeAddrs, gre : BOOLEAN]

Sound(d) ==
    /\ d \in Datagram /\ d.mid \in 0..6 /\ d.count = ZeroCount
    /\ d.kind = "childSa" => d.addr \in UeAddrs
NetInv == \A d \in net : Sound(d)

N3iwfInv ==
    /\ n3.up \in BOOLEAN /\ n3.run \in 0..MaxRuns /\ n3.mid \in 0..7 /\ n3.count = ZeroCount
    /\ n3.standing \in {"none", "refused", "registered"}
    /\ n3.session \in {"none", "asked", "offered", "set"} /\ n3.given \in [UeAddrs -> 0..MaxRuns]

TypeInv == Placed /\ IkeInv /\ NasInv /\ MachineInv /\ NetInv /\ N3iwfInv

\* The counts at the beginning of a security context.
LEMMA FirstCounts ==
    /\ ZeroCount \in Count /\ SetCount(0, 1) \in Count
    /\ AddOne(ZeroCount) = SetCount(0, 1)
    /\ Number(ZeroCount) = 0 /\ Number(SetCount(0, 1)) - 1 = 0
  <1>1. ZeroCount \in Count /\ SetCount(0, 1) \in Count
    BY WidthAssumption DEF ZeroCount, SetCount, Count
  <1>2. AddOne(ZeroCount) = SetCount(0, 1)
    BY WidthAssumption DEF ZeroCount, SetCount, AddOne
  <1>3. 0 * SqnMod = 0 BY WidthAssumption
  <1> QED BY <1>1, <1>2, <1>3 DEF Number, ZeroCount, SetCount

LEMMA AddOneTyped ==
    ASSUME NEW c \in Count
    PROVE  AddOne(c) \in Count
  BY WidthAssumption DEF AddOne, Count, SetCount, NextOverflow

\* What the UE sends is a datagram.
LEMMA RequestTyped ==
    ASSUME NEW r \in 0..MaxRuns, NEW kind \in Requests, NEW mid \in 0..6
    PROVE  Sound(Request(r, kind, mid, ZeroCount))
  BY FirstCounts DEF Request, Requests, Datagram, Sound

LEMMA SaRunTyped ==
    ASSUME run \in 0..MaxRuns
    PROVE  SaRun \in 0..MaxRuns
  BY RunAssumption DEF SaRun

LEMMA ReplyTyped ==
    ASSUME NEW r \in 0..MaxRuns, NEW kind \in Replies, NEW mid \in 0..6, NEW a \in UeAddrs \cup {NoAddr},
           kind = "childSa" => a \in UeAddrs
    PROVE  Sound(Reply(r, kind, mid, a))
  BY FirstCounts DEF Reply, Datagram, Sound

LEMMA OddTyped ==
    ASSUME odd \in 0..MaxOdd, NEW what, Disturb(what) \/ UNCHANGED odd
    PROVE  odd' \in 0..MaxOdd
  BY RunAssumption DEF Disturb

\* Reading a datagram, repeated or not, and sending another.
LEMMA TakeTyped ==
    ASSUME TypeInv, NEW d \in net, NEW out, Take(d, out),
           \A m \in out : Sound(m)
    PROVE  NetInv' /\ odd' \in 0..MaxOdd
  <1>1. net' \subseteq net \cup out BY TakeNet
  <1>2. Disturb("stray") \/ UNCHANGED odd BY DEF Take
  <1> QED BY <1>1, <1>2, OddTyped DEF TypeInv, NetInv, Placed

LEMMA DeferredTyped ==
    ASSUME IInv, MachineInv
    PROVE  Deferred \in [link : BOOLEAN, addrs : SUBSET UeAddrs, gre : BOOLEAN]
  BY DEF IInv, Shaped, MachineInv, Deferred

\* A run that ends.
LEMMA EndsTyped ==
    ASSUME IInv, TypeInv, NEW v \in {"pass", "fail"}, Ends(v), NetInv', odd' \in 0..MaxOdd
    PROVE  TypeInv'
  <1>1. pc' = "idle" /\ verdict' = v /\ kern' = Deferred /\ UNCHANGED <<run, ike, nas, addr, n3>>
    BY DEF Ends
  <1>2. Placed' BY <1>1 DEF TypeInv, Placed
  <1>3. IkeInv' BY <1>1 DEF TypeInv, IkeInv, LastRequest
  <1>4. NasInv' BY <1>1 DEF TypeInv, NasInv
  <1>5. MachineInv' BY <1>1, DeferredTyped DEF TypeInv, MachineInv
  <1>6. N3iwfInv' BY <1>1 DEF TypeInv, N3iwfInv
  <1> QED BY <1>2, <1>3, <1>4, <1>5, <1>6 DEF TypeInv

\* A test process begins.
LEMMA StartTyped ==
    ASSUME IInv, TypeInv, NEW deletesLink \in BOOLEAN, StartRun(deletesLink)
    PROVE  TypeInv'
  <1>1. /\ run < MaxRuns /\ run' = run + 1 /\ verdict' = "none" /\ pc' = "saInit"
        /\ ike' = NewUe /\ nas' = [ul |-> ZeroCount, dl |-> ZeroCount] /\ addr' = NoAddr
        /\ net' = net \cup {Request(run + 1, "saInit", 0, ZeroCount)}
        /\ UNCHANGED <<n3, odd>>
    BY DEF StartRun
  <1>2. Placed'
    <2>1. run' \in 0..MaxRuns BY <1>1, RunAssumption DEF TypeInv, Placed
    <2> QED BY <1>1, <2>1 DEF TypeInv, Placed, Reading
  <1>3. IkeInv' BY <1>1 DEF IkeInv, NewUe, LastRequest, Range
  <1>4. NasInv' BY <1>1, FirstCounts DEF NasInv
  <1>5. MachineInv'
    <2>1. kern' = kern \/ kern' = [kern EXCEPT !.link = FALSE, !.addrs = {}] BY DEF StartRun
    <2> QED BY <1>1, <2>1 DEF TypeInv, MachineInv
  <1>6. NetInv'
    <2> DEFINE m == Request(run + 1, "saInit", 0, ZeroCount)
    <2>2. run + 1 \in 0..MaxRuns BY <1>1, RunAssumption DEF TypeInv, Placed
    <2>3. Sound(m) BY <2>2, RequestTyped DEF Requests
    <2> HIDE DEF m
    <2>4. net' = net \cup {m} BY <1>1 DEF m
    <2> QED BY <2>3, <2>4 DEF TypeInv, NetInv
  <1>7. N3iwfInv' BY <1>1 DEF TypeInv, N3iwfInv
  <1> QED BY <1>2, <1>3, <1>4, <1>5, <1>6, <1>7 DEF TypeInv

\* A request goes out under the identifier after the last, for an answer taken.
LEMMA ExchangeTyped ==
    ASSUME IInv, TypeInv, pc \in DOMAIN LastRequest, pc' \in Reading,
           pc' \in DOMAIN LastRequest => LastRequest[pc'] = LastRequest[pc] + 1,
           NEW r \in {run, SaRun, 0}, NEW kind \in Requests, NEW d \in net,
           Take(d, {Request(r, kind, ike.mid + 1, ZeroCount)}),
           ike'.keyed \in BOOLEAN, ike'.mid = ike.mid + 1, ike'.p0 = 0,
           UNCHANGED <<run, verdict, addr, kern, n3, ike.child, ike.sa, ike.ip>>,
           DOMAIN ike'.half \subseteq {1}, Range(ike'.half) \subseteq Spis,
           NasInv'
    PROVE  TypeInv'
  <1>1. ike.mid = LastRequest[pc] /\ ike.mid \in 0..5 /\ ike'.mid \in 0..6
    <2>1. ike.mid = LastRequest[pc] BY DEF TypeInv, IkeInv
    <2>2. \A step \in DOMAIN LastRequest : LastRequest[step] \in 0..5 BY DEF LastRequest
    <2>3. ike.mid \in 0..5 BY <2>1, <2>2
    <2>4. ike.mid + 1 \in 0..6 BY <2>3
    <2> QED BY <2>1, <2>3, <2>4
  <1>2. NetInv' /\ odd' \in 0..MaxOdd
    <2> DEFINE out == {Request(r, kind, ike.mid + 1, ZeroCount)}
    <2>1. ike.mid + 1 \in 0..6 /\ r \in 0..MaxRuns
      BY <1>1, SaRunTyped, RunAssumption DEF TypeInv, Placed
    <2>2. \A m \in out : Sound(m) BY <2>1, RequestTyped
    <2> HIDE DEF out
    <2>3. Take(d, out) BY DEF out
    <2> QED BY <2>2, <2>3, TakeTyped
  <1>3. Placed' BY <1>2 DEF TypeInv, Placed
  <1>4. IkeInv'
    <2>1. ike'.child \subseteq Spis /\ ike'.sa \in {"none", "agreed", "dummy", "session"}
          /\ ike'.ip \in UeAddrs \cup {NoAddr}
      BY DEF TypeInv, IkeInv
    <2>2. pc' \in DOMAIN LastRequest => ike'.mid = LastRequest[pc'] BY <1>1
    <2>3. pc' \notin {"complete", "iface"} BY DEF Reading
    <2> QED BY <1>1, <2>1, <2>2, <2>3 DEF IkeInv
  <1>5. MachineInv' /\ N3iwfInv' BY DEF TypeInv, MachineInv, N3iwfInv
  <1> QED BY <1>2, <1>3, <1>4, <1>5 DEF TypeInv

LEMMA SaInitTyped ==
    ASSUME IInv, TypeInv, NEW d \in net, ReadSaInit(d)
    PROVE  TypeInv'
  <1>1. pc = "saInit" /\ pc' = "auth" /\ UNCHANGED <<run, verdict, nas, addr, kern, n3>>
        /\ Take(d, {Request(IF MakesKeys(d) THEN run ELSE 0, "auth", ike.mid + 1, ZeroCount)})
    BY DEF ReadSaInit
  <1>2. PICK spi \in GenerateSPI :
          ike' = [ike EXCEPT !.keyed = MakesKeys(d), !.mid = @ + 1,
                             !.half = CreateHalfChildSA(@, ike.mid + 1, spi)]
    BY DEF ReadSaInit
  <1>3. ike.mid = 0 /\ ike.half = <<>> /\ spi \in Spis
    BY <1>1 DEF IInv, ChildrenInv, NoChildYet, GenerateSPI
  <1>4. /\ ike'.mid = ike.mid + 1 /\ ike'.p0 = ike.p0 /\ UNCHANGED <<ike.child, ike.sa, ike.ip>>
        /\ ike'.half = CreateHalfChildSA(ike.half, 1, spi) /\ ike'.keyed = MakesKeys(d)
    BY <1>2, <1>3 DEF IInv, Shaped
  <1>5. ike'.half = [m \in {1} |-> spi]
    BY <1>3, <1>4 DEF CreateHalfChildSA
  <1>6. DOMAIN ike'.half \subseteq {1} /\ Range(ike'.half) \subseteq Spis
    BY <1>3, <1>5 DEF Range
  <1>7. NasInv' BY <1>1 DEF TypeInv, NasInv
  <1>8. ike'.p0 = 0 BY <1>4 DEF TypeInv, IkeInv
  <1>9. pc \in DOMAIN LastRequest /\ pc' \in Reading /\ "auth" \in Requests
        /\ LastRequest[pc'] = LastRequest[pc] + 1
    BY <1>1 DEF LastRequest, Reading, Requests
  <1>10. ike'.keyed \in BOOLEAN BY <1>4 DEF MakesKeys
  <1>11. (IF MakesKeys(d) THEN run ELSE 0) \in {run, SaRun, 0} OBVIOUS
  <1> QED BY <1>1, <1>4, <1>6, <1>7, <1>8, <1>9, <1>10, <1>11, ExchangeTyped

\* The exchanges that change nothing but the identifier.
LEMMA PlainExchangeTyped ==
    ASSUME IInv, TypeInv, pc \in DOMAIN LastRequest, pc' \in Reading,
           pc' \in DOMAIN LastRequest => LastRequest[pc'] = LastRequest[pc] + 1,
           NEW kind \in Requests, NEW d \in net, Take(d, NextRequest(kind, ZeroCount)),
           NEW p0, p0 = 0, ike' = [ike EXCEPT !.mid = @ + 1, !.p0 = p0],
           UNCHANGED <<run, verdict, addr, kern, n3>>, NasInv'
    PROVE  TypeInv'
  <1>1. ike'.mid = ike.mid + 1 /\ ike'.p0 = 0 /\ ike'.half = ike.half
        /\ UNCHANGED <<ike.keyed, ike.child, ike.sa, ike.ip>>
    BY DEF IInv, Shaped
  <1>2. DOMAIN ike'.half \subseteq {1} /\ Range(ike'.half) \subseteq Spis /\ ike'.keyed \in BOOLEAN
    BY <1>1 DEF TypeInv, IkeInv
  <1>3. Take(d, {Request(SaRun, kind, ike.mid + 1, ZeroCount)}) BY DEF NextRequest
  <1> QED BY <1>1, <1>2, <1>3, ExchangeTyped

\* A Security Mode Complete carries the count 0, and the next message the count 1.
LEMMA SecurityModeCompleteTyped ==
    ASSUME IInv, TypeInv, NEW d \in net, NEW next,
           \/ pc = "smc" /\ next = "success"
           \/ pc = "success" /\ next = "success2",
           SendSecurityModeComplete(d, next)
    PROVE  TypeInv'
  <1>1. PICK c : c = StartCounts(nas, TRUE) OBVIOUS
  <1>2. c = [ul |-> ZeroCount, dl |-> ZeroCount] /\ c.ul = ZeroCount
    BY <1>1 DEF StartCounts, TypeInv, NasInv
  <1>3. Encoded(nas, TRUE).count = ZeroCount
    <2>1. Encoded(nas, TRUE) = Protected(ZeroCount, TRUE) BY <1>1, <1>2 DEF Encoded
    <2>2. \A count : Protected(count, TRUE).count = count BY DEF Protected
    <2> QED BY <2>1, <2>2
  <1>4. AfterEncode(nas, TRUE) = [ul |-> SetCount(0, 1), dl |-> ZeroCount]
    <2>1. PICK e : e = [c EXCEPT !.ul = AddOne(@)] OBVIOUS
    <2>2. e = [ul |-> AddOne(ZeroCount), dl |-> ZeroCount] BY <1>2, <2>1
    <2>3. AfterEncode(nas, TRUE) = e BY <1>1, <2>1 DEF AfterEncode
    <2> QED BY <2>2, <2>3, FirstCounts
  <1>5. /\ ike' = [ike EXCEPT !.mid = @ + 1] /\ nas' = AfterEncode(nas, TRUE) /\ pc' = next
        /\ Take(d, NextRequest("smComplete", ZeroCount)) /\ UNCHANGED <<run, verdict, addr, kern, n3>>
    BY <1>3 DEF SendSecurityModeComplete
  <1>6. NasInv'
    <2>1. nas' = [ul |-> SetCount(0, 1), dl |-> ZeroCount] BY <1>4, <1>5
    <2>2. nas'.ul = SetCount(0, 1) BY <2>1
    <2>3. nas' \in [ul : Count, dl : Count] BY <2>1, FirstCounts
    <2> QED BY <2>2, <2>3 DEF NasInv
  <1>7. ike' = [ike EXCEPT !.mid = @ + 1, !.p0 = ike.p0] /\ ike.p0 = 0
    BY <1>5 DEF IInv, Shaped, TypeInv, IkeInv
  <1>8. /\ pc \in DOMAIN LastRequest /\ pc' \in Reading /\ "smComplete" \in Requests
        /\ LastRequest[pc'] = LastRequest[pc] + 1
    BY <1>5 DEF LastRequest, Reading, Requests
  <1> QED BY <1>5, <1>6, <1>7, <1>8, PlainExchangeTyped

\* Kn3iwf is derived with the count before the next one: that of the message sent.
LEMMA AuthenticationTyped ==
    ASSUME IInv, TypeInv, NEW d \in net, pc \in {"success", "success2"}, SendAuthentication(d)
    PROVE  TypeInv'
  <1>1. LastCount = 0 BY FirstCounts DEF LastCount, TypeInv, NasInv
  <1>2. /\ ike' = [ike EXCEPT !.mid = @ + 1, !.p0 = LastCount] /\ pc' = "final"
        /\ Take(d, NextRequest("final", ZeroCount))
        /\ UNCHANGED <<run, verdict, nas, addr, kern, n3>>
    BY DEF SendAuthentication
  <1>3. NasInv' BY <1>2 DEF TypeInv, NasInv
  <1>4. pc \in DOMAIN LastRequest /\ pc' \in Reading /\ pc' \notin DOMAIN LastRequest /\ "final" \in Requests
    BY <1>2 DEF LastRequest, Reading, Requests
  <1> QED BY <1>1, <1>2, <1>3, <1>4, PlainExchangeTyped

\* The two reads of which the datagram is simply acknowledged with the next request.
LEMMA AcknowledgeTyped ==
    ASSUME IInv, TypeInv, NEW d \in net, NEW kind \in Requests,
           ike' = [ike EXCEPT !.mid = @ + 1], Take(d, NextRequest(kind, ZeroCount)),
           \/ pc = "auth" /\ pc' = "regReply"
           \/ pc = "regReply" /\ pc' = "smc",
           UNCHANGED <<run, verdict, nas, addr, kern, n3>>
    PROVE  TypeInv'
  <1>1. NasInv' BY DEF TypeInv, NasInv
  <1>2. ike' = [ike EXCEPT !.mid = @ + 1, !.p0 = ike.p0] /\ ike.p0 = 0
    BY DEF IInv, Shaped, TypeInv, IkeInv
  <1>3. pc \in DOMAIN LastRequest /\ pc' \in Reading /\ LastRequest[pc'] = LastRequest[pc] + 1
    BY DEF LastRequest, Reading
  <1> QED BY <1>1, <1>2, <1>3, PlainExchangeTyped

\* A datagram with which the test ends.
LEMMA LastReadTyped ==
    ASSUME IInv, TypeInv, NEW d \in net, Take(d, {}), NEW v \in {"pass", "fail"}, Ends(v)
    PROVE  TypeInv'
  <1>1. NetInv' /\ odd' \in 0..MaxOdd
    <2> DEFINE out == {}
    <2>1. \A m \in out : Sound(m) OBVIOUS
    <2> HIDE DEF out
    <2>2. Take(d, out) BY DEF out
    <2> QED BY <2>1, <2>2, TakeTyped
  <1> QED BY <1>1, EndsTyped

\* A step of the UE after which it does not wait for an answer in the exchange.
LEMMA UeStepTyped ==
    ASSUME IInv, TypeInv, pc' \in Reading \cup Working, pc' \notin DOMAIN LastRequest,
           NetInv', odd' \in 0..MaxOdd,
           UNCHANGED <<run, verdict, nas, n3, ike.keyed, ike.mid, ike.p0>>,
           DOMAIN ike'.half \subseteq {1}, Range(ike'.half) \subseteq Spis,
           ike'.child \subseteq Spis, ike'.sa \in {"none", "agreed", "dummy", "session"},
           ike'.ip \in UeAddrs \cup {NoAddr}, MachineInv',
           pc' \in {"complete", "iface"} => ike'.ip \in UeAddrs
    PROVE  TypeInv'
  <1>1. Placed' BY DEF TypeInv, Placed
  <1>2. IkeInv' BY DEF TypeInv, IkeInv
  <1>3. NasInv' BY DEF TypeInv, NasInv, LastRequest
  <1>4. N3iwfInv' BY DEF TypeInv, N3iwfInv
  <1> QED BY <1>1, <1>2, <1>3, <1>4 DEF TypeInv

LEMMA ChildResponseTyped ==
    ASSUME TypeInv
    PROVE  \A m \in ChildResponse : Sound(m)
  <1>1. SaRun \in 0..MaxRuns /\ ike.mid \in 0..6 BY SaRunTyped DEF TypeInv, Placed, IkeInv
  <1> QED BY <1>1, RequestTyped DEF ChildResponse, Requests

\* The UE takes a datagram and sends at most a CREATE_CHILD_SA response.
LEMMA ReadsTyped ==
    ASSUME IInv, TypeInv, NEW d \in net, UeReads(d)
    PROVE  TypeInv'
  <1>1. CASE ReadSaInit(d) BY <1>1, SaInitTyped
  <1>2. ASSUME Take(d, {}) PROVE NetInv' /\ odd' \in 0..MaxOdd
    <2>1. \A m \in {} : Sound(m) OBVIOUS
    <2> QED BY <1>2, <2>1, TakeTyped
  <1>3. DOMAIN ike.half \subseteq {1} /\ Range(ike.half) \subseteq Spis /\ MachineInv
    BY DEF TypeInv, IkeInv
  <1>4. CASE ReadZeroKey(d)
    <2>1. pc' = "spin" /\ Take(d, {}) /\ UNCHANGED <<run, verdict, ike, nas, addr, kern, n3>>
      BY <1>4 DEF ReadZeroKey
    <2>2. MachineInv' BY <1>3, <2>1 DEF MachineInv
    <2> QED BY <1>2, <1>3, <2>1, <2>2, UeStepTyped DEF Working, LastRequest, TypeInv, IkeInv
  <1>5. CASE ReadEapStart(d)
    <2>1. /\ pc = "auth" /\ pc' = "regReply" /\ ike' = [ike EXCEPT !.mid = @ + 1]
          /\ Take(d, NextRequest("regRequest", ZeroCount)) /\ UNCHANGED <<run, verdict, nas, addr, kern, n3>>
      BY <1>5 DEF ReadEapStart, Read
    <2> QED BY <2>1, AcknowledgeTyped DEF Requests
  <1>6. CASE ReadRegReply(d)
    <2>1. pc = "regReply" BY <1>6 DEF ReadRegReply, Read
    <2>2. CASE d.kind = "authRequest"
      <3>1. /\ pc' = "smc" /\ ike' = [ike EXCEPT !.mid = @ + 1]
            /\ Take(d, NextRequest("authResponse", ZeroCount)) /\ UNCHANGED <<run, verdict, nas, addr, kern, n3>>
        BY <1>6, <2>2 DEF ReadRegReply
      <3> QED BY <2>1, <3>1, AcknowledgeTyped DEF Requests
    <2>3. CASE d.kind # "authRequest" BY <1>6, <2>3, LastReadTyped DEF ReadRegReply
    <2> QED BY <2>2, <2>3
  <1>7. CASE ReadSecurityModeCommand(d)
    <2>1. pc = "smc" /\ SendSecurityModeComplete(d, "success")
      BY <1>7 DEF ReadSecurityModeCommand, Read
    <2> QED BY <2>1, SecurityModeCompleteTyped
  <1>8. CASE ReadEapSuccess(d)
    <2>1. pc = "success" BY <1>8 DEF ReadEapSuccess, Read
    <2> QED BY <1>8, <2>1, AuthenticationTyped, SecurityModeCompleteTyped DEF ReadEapSuccess
  <1>9. CASE ReadEapSuccessAgain(d)
    <2>1. pc = "success2" BY <1>9 DEF ReadEapSuccessAgain, Read
    <2> QED BY <1>9, <2>1, AuthenticationTyped, LastReadTyped DEF ReadEapSuccessAgain
  <1>10. CASE ReadChildSa(d)
    <2>1. pc' = "complete" /\ Take(d, {}) /\ UNCHANGED <<run, verdict, nas, addr, kern, n3>>
      BY <1>10 DEF ReadChildSa
    <2>2. (d.kind = "childSa" => d.addr \in UeAddrs) /\ DefaultAddr \in UeAddrs
      BY RunAssumption DEF TypeInv, NetInv, Sound, DefaultAddr
    <2>3. PICK sa \in {"agreed", "dummy"}, ip \in UeAddrs : ike' = [ike EXCEPT !.sa = sa, !.ip = ip]
      BY <1>10, <2>2 DEF ReadChildSa
    <2>4. ike'.half = ike.half /\ ike'.sa = sa /\ ike'.ip = ip /\ UNCHANGED <<ike.keyed, ike.mid, ike.p0, ike.child>>
      BY <2>3 DEF IInv, Shaped
    <2>5. MachineInv' BY <1>3, <2>1 DEF MachineInv
    <2>6. NetInv' /\ odd' \in 0..MaxOdd BY <1>2, <2>1
    <2>7. pc' \in Reading \cup Working /\ pc' \notin DOMAIN LastRequest BY <2>1 DEF Working, LastRequest
    <2>8. /\ ike'.child \subseteq Spis /\ ike'.sa \in {"none", "agreed", "dummy", "session"}
          /\ ike'.ip \in UeAddrs /\ ike'.ip \in UeAddrs \cup {NoAddr}
          /\ DOMAIN ike'.half \subseteq {1} /\ Range(ike'.half) \subseteq Spis
      BY <1>3, <2>4 DEF TypeInv, IkeInv
    <2> QED BY <2>1, <2>4, <2>5, <2>6, <2>7, <2>8, UeStepTyped
  <1>11. CASE ReadCreateChildSa(d)
    <2> DEFINE out == ChildResponse
    <2>1. /\ pc' = "gre" /\ UNCHANGED <<run, verdict, nas, addr, kern, n3>> /\ Take(d, out)
      BY <1>11 DEF ReadCreateChildSa
    <2>2. PICK spi \in GenerateSPI, sa \in {"session", ike.sa} :
            ike' = [ike EXCEPT !.child = @ \cup {spi}, !.sa = sa]
      BY <1>11 DEF ReadCreateChildSa
    <2>3. ike'.half = ike.half /\ ike'.sa = sa /\ ike'.child = ike.child \cup {spi}
          /\ UNCHANGED <<ike.keyed, ike.mid, ike.p0, ike.ip>>
      BY <2>2 DEF IInv, Shaped
    <2>4. ike'.child \subseteq Spis /\ ike'.sa \in {"none", "agreed", "dummy", "session"}
          /\ ike'.ip \in UeAddrs \cup {NoAddr}
      BY <2>3 DEF TypeInv, IkeInv, GenerateSPI
    <2>5. \A m \in out : Sound(m) BY ChildResponseTyped
    <2> HIDE DEF out
    <2>6. NetInv' /\ odd' \in 0..MaxOdd BY <2>1, <2>5, TakeTyped
    <2>7. MachineInv' BY <1>3, <2>1 DEF MachineInv
    <2>8. pc' \in Reading \cup Working /\ pc' \notin DOMAIN LastRequest BY <2>1 DEF Working, LastRequest
    <2> QED BY <1>3, <2>1, <2>3, <2>4, <2>6, <2>7, <2>8, UeStepTyped
  <1>12. CASE Misread(d)
    <2> DEFINE out == IF pc = "session" /\ d.kind \in Clear THEN ChildResponse ELSE {}
    <2>1. Take(d, out) /\ Ends("fail") BY <1>12 DEF Misread
    <2>2. \A m \in out : Sound(m) BY ChildResponseTyped
    <2> HIDE DEF out
    <2>3. NetInv' /\ odd' \in 0..MaxOdd BY <2>1, <2>2, TakeTyped
    <2> QED BY <2>1, <2>3, EndsTyped
  <1> QED BY <1>1, <1>4, <1>5, <1>6, <1>7, <1>8, <1>9, <1>10, <1>11, <1>12 DEF UeReads

LEMMA WorksTyped ==
    ASSUME IInv, TypeInv, UeWorks
    PROVE  TypeInv'
  <1>1. ASSUME UNCHANGED <<net, odd>>, NEW v \in {"pass", "fail"}, Ends(v) PROVE TypeInv'
    BY <1>1, EndsTyped DEF TypeInv, NetInv, Placed
  <1>2. ASSUME UNCHANGED <<net, odd>> PROVE NetInv' /\ odd' \in 0..MaxOdd
    BY <1>2 DEF TypeInv, NetInv, Placed
  <1>3. /\ DOMAIN ike.half \subseteq {1} /\ Range(ike.half) \subseteq Spis /\ ike.child \subseteq Spis
        /\ ike.sa \in {"none", "agreed", "dummy", "session"} /\ ike.ip \in UeAddrs \cup {NoAddr}
    BY DEF TypeInv, IkeInv
  <1>4. CASE CompleteChildSA
    <2>1. UNCHANGED <<net, odd>> BY <1>4 DEF CompleteChildSA
    <2>2. CASE 1 \notin DOMAIN ike.half BY <1>1, <1>4, <2>1, <2>2 DEF CompleteChildSA
    <2>3. CASE 1 \in DOMAIN ike.half
      <3>1. /\ ike' = [ike EXCEPT !.half = Restrict(@, DOMAIN @ \ {1}), !.child = @ \cup {ike.half[1]}]
            /\ pc' = "iface" /\ UNCHANGED <<run, verdict, nas, addr, kern, n3>>
        BY <1>4, <2>3 DEF CompleteChildSA
      <3>2. /\ ike'.half = Restrict(ike.half, DOMAIN ike.half \ {1}) /\ ike'.child = ike.child \cup {ike.half[1]}
            /\ UNCHANGED <<ike.keyed, ike.mid, ike.p0, ike.sa, ike.ip>>
        BY <3>1 DEF IInv, Shaped
      <3>3. DOMAIN ike.half \ {1} = {} BY <1>3
      <3>4. DOMAIN ike'.half \subseteq {1} /\ Range(ike'.half) \subseteq Spis
        BY <3>2, <3>3 DEF Restrict, Range
      <3>5. ike'.child \subseteq Spis BY <1>3, <2>3, <3>2 DEF Range
      <3>6. MachineInv' BY <3>1 DEF TypeInv, MachineInv
      <3>7. pc' \in Reading \cup Working /\ pc' \notin DOMAIN LastRequest BY <3>1 DEF Working, LastRequest
      <3>8. ike'.ip \in UeAddrs BY <1>4, <3>2 DEF CompleteChildSA, TypeInv, IkeInv
      <3> QED BY <1>2, <1>3, <2>1, <3>1, <3>2, <3>4, <3>5, <3>6, <3>7, <3>8, UeStepTyped
    <2> QED BY <2>2, <2>3
  <1>5. CASE AddUeAddress
    <2>1. UNCHANGED <<net, odd>> BY <1>5 DEF AddUeAddress
    <2>2. CASE ike.ip \in kern.addrs BY <1>1, <1>5, <2>1, <2>2 DEF AddUeAddress
    <2>3. CASE ike.ip \notin kern.addrs
      <3>1. /\ kern' = [kern EXCEPT !.link = TRUE, !.addrs = @ \cup {ike.ip}] /\ addr' = ike.ip
            /\ pc' = "dial" /\ UNCHANGED <<run, verdict, ike, nas, n3>>
        BY <1>5, <2>3 DEF AddUeAddress
      <3>2. ike.ip \in UeAddrs BY <1>5 DEF AddUeAddress, TypeInv, IkeInv
      <3>3. MachineInv' BY <3>1, <3>2 DEF TypeInv, MachineInv
      <3>4. pc' \in Reading \cup Working /\ pc' \notin DOMAIN LastRequest BY <3>1 DEF Working, LastRequest
      <3> QED BY <1>2, <1>3, <2>1, <3>1, <3>3, <3>4, UeStepTyped
    <2> QED BY <2>2, <2>3

  <1>6. CASE Dial
    <2>1. pc' = "nas" /\ UNCHANGED <<run, verdict, ike, nas, addr, kern, net, n3, odd>> BY <1>6 DEF Dial
    <2>2. MachineInv' BY <2>1 DEF TypeInv, MachineInv
    <2> QED BY <1>2, <1>3, <2>1, <2>2, UeStepTyped DEF Working, LastRequest
  <1>7. CASE RegisterOverTcp
    <2>1. /\ pc = "nas" /\ pc' = "session" /\ UNCHANGED <<run, verdict, ike, addr, kern, net, odd>>
          /\ nas' = AfterEncode(AfterEncode(nas, FALSE), FALSE)
          /\ n3' = n3 \/ n3' = [n3 EXCEPT !.session = "asked"]
      BY <1>7 DEF RegisterOverTcp
    <2>2. Placed' BY <2>1 DEF TypeInv, Placed, Reading
    <2>3. IkeInv' BY <2>1 DEF TypeInv, IkeInv, LastRequest
    <2>4. ASSUME NEW c \in [ul : Count, dl : Count] PROVE AfterEncode(c, FALSE) \in [ul : Count, dl : Count]
      <3>1. AddOne(c.ul) \in Count BY AddOneTyped
      <3> QED BY <3>1 DEF AfterEncode, StartCounts
    <2>5. NasInv' BY <2>1, <2>4 DEF TypeInv, NasInv
    <2>6. MachineInv' /\ NetInv' BY <2>1 DEF TypeInv, MachineInv, NetInv
    <2>7. N3iwfInv' BY <2>1 DEF IInv, Shaped, TypeInv, N3iwfInv
    <2> QED BY <2>2, <2>3, <2>5, <2>6, <2>7 DEF TypeInv
  <1>8. CASE AddTunnel
    <2>1. UNCHANGED <<net, odd>> BY <1>8 DEF AddTunnel
    <2>2. CASE kern.gre BY <1>1, <1>8, <2>1, <2>2 DEF AddTunnel
    <2>3. CASE ~kern.gre
      <3>1. pc' = "ping" /\ kern' = [kern EXCEPT !.gre = TRUE] /\ UNCHANGED <<run, verdict, ike, nas, addr, n3>>
        BY <1>8, <2>3 DEF AddTunnel
      <3>2. MachineInv' BY <3>1 DEF TypeInv, MachineInv
      <3> QED BY <1>2, <1>3, <2>1, <3>1, <3>2, UeStepTyped DEF Working, LastRequest
    <2> QED BY <2>2, <2>3
  <1>9. CASE Ping BY <1>1, <1>9 DEF Ping
  <1> QED BY <1>4, <1>5, <1>6, <1>7, <1>8, <1>9 DEF UeWorks

\* A failing system call, a deadline, the end of the test process.
LEMMA FailuresTyped ==
    ASSUME IInv, TypeInv, MachineFails \/ DeadlinePasses \/ GoTestTimeout
    PROVE  TypeInv'
  <1>1. odd' \in 0..MaxOdd
    <2>1. \E what : Disturb(what) \/ UNCHANGED odd
      BY DEF MachineFails, DeadlinePasses, GoTestTimeout, SlowOrStuck, DisturbIf
    <2> QED BY <2>1, OddTyped DEF TypeInv, Placed
  <1>2. NetInv' BY DEF MachineFails, DeadlinePasses, GoTestTimeout, TypeInv, NetInv
  <1>3. ASSUME Ends("fail") PROVE TypeInv' BY <1>1, <1>2, <1>3, EndsTyped
  <1>4. ASSUME pc' = "idle", verdict' \in {"fail", "killed"}, UNCHANGED <<run, ike, nas, addr, n3>>,
               kern' \in [link : BOOLEAN, addrs : SUBSET UeAddrs, gre : BOOLEAN]
        PROVE  TypeInv'
    <2>1. Placed' BY <1>1, <1>4 DEF TypeInv, Placed
    <2>2. IkeInv' BY <1>4 DEF TypeInv, IkeInv, LastRequest
    <2>3. NasInv' /\ MachineInv' /\ N3iwfInv' BY <1>4 DEF TypeInv, NasInv, MachineInv, N3iwfInv
    <2> QED BY <1>2, <2>1, <2>2, <2>3 DEF TypeInv
  <1>5. CASE DeadlinePasses BY <1>3, <1>5 DEF DeadlinePasses
  <1>6. CASE GoTestTimeout BY <1>4, <1>6 DEF GoTestTimeout, TypeInv, MachineInv
  <1>7. CASE MachineFails
    <2>1. CASE pc = "gre" /\ ~kern.gre
      <3>1. /\ kern' = [Deferred EXCEPT !.gre = TRUE] /\ verdict' = "fail" /\ pc' = "idle"
            /\ UNCHANGED <<run, ike, nas, addr, n3>>
        BY <1>7, <2>1 DEF MachineFails
      <3>2. Deferred \in [link : BOOLEAN, addrs : SUBSET UeAddrs, gre : BOOLEAN]
        BY DeferredTyped DEF TypeInv
      <3>3. kern' \in [link : BOOLEAN, addrs : SUBSET UeAddrs, gre : BOOLEAN] BY <3>1, <3>2
      <3> QED BY <1>4, <3>1, <3>3
    <2>2. CASE ~(pc = "gre" /\ ~kern.gre) BY <1>3, <1>7, <2>2 DEF MachineFails
    <2> QED BY <2>1, <2>2
  <1> QED BY <1>5, <1>6, <1>7

\* The network and the N3IWF leave the UE alone.
LEMMA OutsideTyped ==
    ASSUME TypeInv, UNCHANGED <<run, pc, verdict, ike, nas, addr>>,
           NEW what, Disturb(what) \/ UNCHANGED odd,
           kern' \in [link : BOOLEAN, addrs : SUBSET UeAddrs, gre : BOOLEAN],
           NetInv', N3iwfInv'
    PROVE  TypeInv'
  <1>1. Placed' BY OddTyped DEF TypeInv, Placed
  <1>2. IkeInv' /\ NasInv' /\ MachineInv' BY DEF TypeInv, IkeInv, NasInv, MachineInv
  <1> QED BY <1>1, <1>2 DEF TypeInv

\* What the N3IWF answers, and the count that it keeps of a Security Mode Complete.
LEMMA N3iwfTyped ==
    ASSUME IInv, TypeInv, NEW d \in net, N3iwf(d)
    PROVE  TypeInv'
  <1>1. Sound(d) /\ d.run \in 0..MaxRuns /\ d.mid \in 0..6 /\ kern \in [link : BOOLEAN, addrs : SUBSET UeAddrs, gre : BOOLEAN]
    BY DEF TypeInv, NetInv, MachineInv, Sound, Datagram
  <1>2. ASSUME NEW kind \in Replies, NEW a \in UeAddrs \cup {NoAddr}, kind = "childSa" => a \in UeAddrs,
               Replied(d, kind, a)
        PROVE  NetInv'
    BY <1>1, <1>2, ReplyTyped DEF TypeInv, NetInv, Replied
  <1>3. CASE AnswerSaInit(d)
    <2>1. n3' = [NoSession(TRUE, d.run, n3.given) EXCEPT !.mid = 1] /\ UNCHANGED <<run, pc, verdict, ike, nas, addr, kern>>
      BY <1>3 DEF AnswerSaInit
    <2>2. PICK kind \in {"saReply", "saReplyZero"} :
            Replied(d, kind, NoAddr) /\ DisturbIf(kind = "saReplyZero", "zero")
      BY <1>3 DEF AnswerSaInit
    <2>3. NetInv' BY <1>2, <2>2 DEF Replies
    <2>4. N3iwfInv' BY <1>1, <2>1 DEF TypeInv, N3iwfInv, NoSession
    <2>5. Disturb("zero") \/ UNCHANGED odd BY <2>2 DEF DisturbIf
    <2> QED BY <1>1, <2>1, <2>3, <2>4, <2>5, OutsideTyped
  <1>4. CASE Answer(d)
    <2>1. /\ d.kind \in DOMAIN Usual /\ d.mid = n3.mid
          /\ UNCHANGED <<run, pc, verdict, ike, nas, addr, kern>>
      BY <1>4 DEF Answer
    <2>2. PICK kind \in {Usual[d.kind]} \cup Refusals[d.kind] \cup Shortcuts[d.kind],
               a \in UeAddrs \cup {NoAddr} :
            /\ kind = "childSa" => a \in UeAddrs
            /\ UNCHANGED odd \/ Disturb("refused") \/ Disturb("known")
            /\ Replied(d, kind, a)
            /\ n3' = [n3 EXCEPT !.mid = @ + 1, !.standing = Standing(kind),
                                !.count = IF d.kind = "smComplete" THEN d.count ELSE @,
                                !.given = Giving(a, d.run)]
      BY <1>4 DEF Answer
    <2>3. kind \in Replies BY <2>1, <2>2 DEF Replies, EapRequests, Usual, Refusals, Shortcuts
    <2>4. NetInv' BY <1>2, <2>2, <2>3
    <2>5. Standing(kind) \in {"none", "refused", "registered"} BY DEF Standing, TypeInv, N3iwfInv
    <2>6. /\ n3'.mid = n3.mid + 1 /\ n3'.standing = Standing(kind)
          /\ n3'.count = IF d.kind = "smComplete" THEN d.count ELSE n3.count
          /\ n3'.given = [b \in UeAddrs |-> IF b = a THEN d.run ELSE n3.given[b]]
          /\ UNCHANGED <<n3.up, n3.run, n3.session>>
      BY <2>2 DEF IInv, Shaped, Giving
    <2>7. n3'.mid \in 0..7 BY <1>1, <2>1, <2>6
    <2>8. n3'.count = ZeroCount BY <1>1, <2>6 DEF Sound, TypeInv, N3iwfInv
    <2>9. n3'.given \in [UeAddrs -> 0..MaxRuns] BY <1>1, <2>6 DEF TypeInv, N3iwfInv
    <2>10. N3iwfInv' BY <2>5, <2>6, <2>7, <2>8, <2>9 DEF TypeInv, N3iwfInv
    <2> QED BY <1>1, <2>1, <2>2, <2>4, <2>10, OutsideTyped
  <1>5. CASE TakeChildResponse(d)
    <2>1. /\ net' \subseteq net /\ UNCHANGED <<run, pc, verdict, ike, nas, addr, kern, odd>>
          /\ n3' = n3 \/ n3' = [n3 EXCEPT !.session = "set"]
      BY <1>5 DEF TakeChildResponse
    <2>2. NetInv' BY <2>1 DEF TypeInv, NetInv
    <2>3. N3iwfInv' BY <2>1 DEF IInv, Shaped, TypeInv, N3iwfInv
    <2> QED BY <1>1, <2>1, <2>2, <2>3, OutsideTyped
  <1> QED BY <1>3, <1>4, <1>5 DEF N3iwf

LEMMA NetworkTyped ==
    ASSUME IInv, TypeInv, (\E d \in net : Lose(d) \/ Drop(d)) \/ OfferChildSa \/ Probe \/ StartN3iwf \/ StopN3iwf
    PROVE  TypeInv'
  <1>1. kern \in [link : BOOLEAN, addrs : SUBSET UeAddrs, gre : BOOLEAN] BY DEF TypeInv, MachineInv
  <1>2. CASE \E d \in net : Lose(d) \/ Drop(d)
    <2>1. /\ net' \subseteq net
          /\ Disturb("lost") \/ UNCHANGED odd
          /\ UNCHANGED <<run, pc, verdict, ike, nas, addr, kern, n3>>
      BY <1>2 DEF Lose, Drop
    <2>2. NetInv' /\ N3iwfInv' BY <2>1 DEF TypeInv, NetInv, N3iwfInv
    <2> QED BY <1>1, <2>1, <2>2, OutsideTyped
  <1>3. CASE OfferChildSa \/ Probe
    <2>1. PICK r \in {n3.run} \cup IkeSas, kind \in {"createChild", "probe"}, mid \in {0, 1} :
            /\ net' = net \cup {Reply(r, kind, mid, NoAddr)}
            /\ n3' = n3 \/ n3' = [n3 EXCEPT !.session = "offered"]
            /\ Disturb("stray") \/ UNCHANGED odd
            /\ UNCHANGED <<run, pc, verdict, ike, nas, addr, kern>>
      BY <1>3 DEF OfferChildSa, Probe
    <2>2. N3iwfInv' BY <2>1 DEF IInv, Shaped, TypeInv, N3iwfInv
    <2>3. Sound(Reply(r, kind, mid, NoAddr))
      <3>1. r \in 0..MaxRuns BY DEF TypeInv, N3iwfInv, IkeSas, Range
      <3>2. kind \in Replies /\ kind # "childSa" /\ mid \in 0..6 BY DEF Replies
      <3> QED BY <3>1, <3>2, ReplyTyped
    <2>4. NetInv' BY <2>1, <2>3 DEF TypeInv, NetInv
    <2> QED BY <1>1, <2>1, <2>2, <2>4, OutsideTyped
  <1>4. CASE StartN3iwf \/ StopN3iwf
    <2>1. PICK up \in BOOLEAN :
            /\ n3' = NoSession(up, run, NoneGiven) /\ kern' = [kern EXCEPT !.link = up, !.addrs = {}]
            /\ UNCHANGED <<run, pc, verdict, ike, nas, addr, net, odd>>
      BY <1>4 DEF StartN3iwf, StopN3iwf
    <2>2. N3iwfInv' BY <2>1, RunAssumption DEF TypeInv, Placed, N3iwfInv, NoSession, NoneGiven
    <2>3. NetInv' BY <2>1 DEF TypeInv, NetInv
    <2>4. kern' \in [link : BOOLEAN, addrs : SUBSET UeAddrs, gre : BOOLEAN] BY <1>1, <2>1
    <2> QED BY <2>1, <2>2, <2>3, <2>4, OutsideTyped
  <1> QED BY <1>2, <1>3, <1>4

LEMMA InitTyped == Init => TypeInv
  <1> SUFFICES ASSUME Init PROVE TypeInv OBVIOUS
  <1>1. Placed BY RunAssumption DEF Init, Placed
  <1>2. IkeInv BY DEF Init, IkeInv, NewUe, LastRequest, Range
  <1>3. NasInv BY FirstCounts DEF Init, NasInv
  <1>4. MachineInv /\ NetInv BY DEF Init, MachineInv, NetInv
  <1>5. N3iwfInv BY RunAssumption DEF Init, N3iwfInv, NoSession, NoneGiven
  <1> QED BY <1>1, <1>2, <1>3, <1>4, <1>5 DEF TypeInv

LEMMA NextTyped == IInv /\ TypeInv /\ [Next]_vars => TypeInv'
  <1> SUFFICES ASSUME IInv, TypeInv, [Next]_vars PROVE TypeInv' OBVIOUS
  <1>1. CASE UNCHANGED vars
    BY <1>1 DEF vars, TypeInv, Placed, IkeInv, NasInv, MachineInv, NetInv, N3iwfInv
  <1>2. ASSUME NEW deletesLink \in BOOLEAN, StartRun(deletesLink) PROVE TypeInv' BY <1>2, StartTyped
  <1>3. ASSUME NEW d \in net, UeReads(d) PROVE TypeInv' BY <1>3, ReadsTyped
  <1>4. ASSUME NEW d \in net, N3iwf(d) PROVE TypeInv' BY <1>4, N3iwfTyped
  <1>5. CASE UeWorks BY <1>5, WorksTyped
  <1>6. CASE MachineFails \/ DeadlinePasses \/ GoTestTimeout BY <1>6, FailuresTyped
  <1>7. CASE (\E d \in net : Lose(d) \/ Drop(d)) \/ OfferChildSa \/ Probe \/ StartN3iwf \/ StopN3iwf
    BY <1>7, NetworkTyped
  <1>8. CASE Over BY <1>1, <1>8 DEF Over
  <1> QED BY <1>1, <1>2, <1>3, <1>4, <1>5, <1>6, <1>7, <1>8 DEF Next

LEMMA AlwaysTypeInv == Spec => []TypeInv
  BY InitTyped, NextTyped, AlwaysIInv, PTL DEF Spec

\* Every variable has its type, in particular: the identifiers of the exchange stay
\* below 7, however often the network answers (non3gpp_test.go:740-1433).
THEOREM TypeCorrect == Spec => []TypeOK
  <1>1. ASSUME TypeInv PROVE TypeOK
    <2>1. /\ run \in 0..MaxRuns /\ pc \in Reading \cup Working \cup {"idle"}
          /\ verdict \in {"none", "pass", "fail", "killed"} /\ odd \in 0..MaxOdd
      BY <1>1 DEF TypeInv, Placed
    <2>2. /\ ike.keyed \in BOOLEAN /\ ike.mid \in 0..7 /\ DOMAIN ike.half \subseteq 0..7 /\ Range(ike.half) \subseteq Spis
          /\ ike.child \subseteq Spis /\ ike.sa \in {"none", "agreed", "dummy", "session"}
          /\ ike.p0 \in Nat /\ ike.ip \in UeAddrs \cup {NoAddr}
      BY <1>1 DEF TypeInv, IkeInv
    <2>3. nas \in [ul : Count, dl : Count] BY <1>1 DEF TypeInv, NasInv
    <2>4. addr \in UeAddrs \cup {NoAddr} /\ kern \in [link : BOOLEAN, addrs : SUBSET UeAddrs, gre : BOOLEAN]
      BY <1>1 DEF TypeInv, MachineInv
    <2>5. net \subseteq Datagram BY <1>1 DEF TypeInv, NetInv, Sound
    <2>6. /\ n3.up \in BOOLEAN /\ n3.run \in 0..MaxRuns /\ n3.mid \in 0..7 /\ n3.count \in Count
          /\ n3.standing \in {"none", "refused", "registered"}
          /\ n3.session \in {"none", "asked", "offered", "set"} /\ n3.given \in [UeAddrs -> 0..MaxRuns]
      BY <1>1, FirstCounts DEF TypeInv, N3iwfInv
    <2> QED BY <2>1, <2>2, <2>3, <2>4, <2>5, <2>6 DEF TypeOK
  <1> QED BY <1>1, AlwaysTypeInv, PTL

\* The UE and the AMF derive Kn3iwf from the same count, also after a second Security
\* Mode Command: each Security Mode Complete opens a security context of its own
\* (non3gpp_test.go:1372).
THEOREM AlwaysKeyAgreed == Spec => []KeyAgreed
  <1>1. TypeInv => KeyAgreed BY FirstCounts DEF TypeInv, IkeInv, N3iwfInv, KeyAgreed
  <1> QED BY <1>1, AlwaysTypeInv, PTL

=============================================================================
