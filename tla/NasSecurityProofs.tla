------------------------- MODULE NasSecurityProofs --------------------------
(***************************************************************************)
(* Proofs about NasSecurity, for all widths of sequence number and         *)
(* overflow counter and for any number of contexts, messages and skips     *)
(* that the assumptions allow: both ends reconstruct the count of every    *)
(* message they decode, and no uplink count is used twice under a key.     *)
(***************************************************************************)
EXTENDS NasSecurity, SequenceTheorems, TLAPS

\* The count k messages after c, for fewer messages than sequence numbers.
Plus(c, k) ==
    IF c.sqn + k < SqnMod
    THEN SetCount(c.ovf, c.sqn + k)
    ELSE SetCount(NextOverflow(c.ovf), c.sqn + k - SqnMod)

\* What a count amounts to in messages.
Value(c) == c.ovf * SqnMod + c.sqn

\* The count of the next message to be read from queue q, or to be sent next
\* if there is none: next.
Upcoming(q, next) == IF q = <<>> THEN next ELSE q[1].count

\* The messages of queue q are numbered one after the other up to next; only
\* the first can be in a new context, and is the context's first.
Chain(q, next) ==
    /\ \A i \in 1..Len(q) :
         /\ q[i].sqn = q[i].count.sqn
         /\ q[i].newContext => i = 1 /\ q[i].count = ZeroCount
         /\ i + 1 \in 1..Len(q) => q[i + 1].count = AddOne(q[i].count)
    /\ q # <<>> => next = AddOne(q[Len(q)].count)

\* The UE's estimate is behind the next downlink message by the messages
\* skipped, and by the one decoded last if there was one.
DownlinkInStep ==
    /\ Chain(down, amf.dl)
    /\ \E k \in 0..skipped + 1 : Upcoming(down, amf.dl) = Plus(ue.dl, k)

\* The AMF's estimate is the count of the last uplink message.
UplinkInStep ==
    /\ Chain(up, ue.ul)
    /\ phase = "secured" =>
         (up # <<>> /\ up[1].newContext) \/ Upcoming(up, ue.ul) = AddOne(amf.ul)

\* What has happened under the current context.
Registering ==
    /\ phase = "idle" => ue.key < MaxContexts /\ amf.key = ue.key /\ sent.down = 0
    /\ phase # "secured" => ~amf.secured /\ up = <<>> /\ sent.up = 0
    /\ phase # "secured" /\ sent.down = 0 =>
         down = <<>> /\ skipped = 0 /\ amf.dl = ZeroCount /\ ue.dl = ZeroCount
    /\ phase = "authenticated" /\ sent.down # 0 =>
         amf.key = ue.key /\ amf.dl = AddOne(ZeroCount)

\* The counts used under the current keys are those of the messages sent.
CountsUsed ==
    /\ \A p \in used : p[1] <= ue.key
    /\ phase # "idle" => \A p \in used : p[1] = ue.key => Value(p[2]) < sent.up
    /\ phase = "secured" /\ sent.up < SqnMod * OvfMod => Value(ue.ul) = sent.up

IInv == TypeOK /\ DownlinkInStep /\ UplinkInStep /\ Registering /\ CountsUsed

-----------------------------------------------------------------------------
(* Counts                                                                   *)

LEMMA CountsClosed ==
    /\ ZeroCount \in Count
    /\ \A c \in Count : AddOne(c) \in Count
    /\ \A c \in Count, s \in 0..SqnMod - 1 : Estimate(c, s) \in Count
    BY WidthAssumption DEF Count, ZeroCount, SetCount, AddOne, NextOverflow, Estimate

LEMMA PlusZero ==
    ASSUME NEW c \in Count
    PROVE  Plus(c, 0) = c
    BY WidthAssumption DEF Count, Plus, SetCount

\* One message further, as long as the sequence numbers have not come round.
LEMMA PlusOneMore ==
    ASSUME NEW c \in Count, NEW k \in Nat, k + 1 < SqnMod
    PROVE  AddOne(Plus(c, k)) = Plus(c, k + 1)
<1>1. CASE c.sqn + k < SqnMod
    BY <1>1, WidthAssumption DEF Count, Plus, SetCount, AddOne
<1>2. CASE c.sqn + k >= SqnMod
    BY <1>2, WidthAssumption DEF Count, Plus, SetCount, AddOne
<1> QED
    BY <1>1, <1>2, WidthAssumption DEF Count

\* The sequence number says which of the next counts it is.
LEMMA EstimatePlus ==
    ASSUME NEW c \in Count, NEW k \in Nat, k < SqnMod
    PROVE  Estimate(c, Plus(c, k).sqn) = Plus(c, k)
<1>1. CASE c.sqn + k < SqnMod
    BY <1>1, WidthAssumption DEF Count, Plus, SetCount, Estimate
<1>2. CASE c.sqn + k >= SqnMod
    BY <1>2, WidthAssumption DEF Count, Plus, SetCount, Estimate
<1> QED
    BY <1>1, <1>2, WidthAssumption DEF Count

LEMMA EstimateNext ==
    ASSUME NEW c \in Count
    PROVE  AddOne(c) = Plus(c, 1) /\ Estimate(c, AddOne(c).sqn) = AddOne(c)
<1>1. AddOne(c) = Plus(c, 1)
    BY PlusZero, PlusOneMore, WidthAssumption
<1> QED
    BY <1>1, EstimatePlus, WidthAssumption

\* In a new context the estimate starts from zero, like the message.
LEMMA DecodeNew ==
    ASSUME NEW c, NEW m, m.newContext, m.sqn = m.count.sqn, m.count = ZeroCount
    PROVE  Decode(c, m) = m.count
    BY WidthAssumption DEF Decode, Estimate, ZeroCount, SetCount

LEMMA ValueIsNatural ==
    ASSUME NEW c \in Count
    PROVE  Value(c) \in Nat
<1>1. c.ovf \in Nat /\ c.sqn \in Nat /\ SqnMod \in Nat
    BY WidthAssumption DEF Count
<1> QED
    BY <1>1 DEF Value

LEMMA ValueAddOne ==
    ASSUME NEW c \in Count, Value(c) + 1 < SqnMod * OvfMod
    PROVE  Value(AddOne(c)) = Value(c) + 1
<1>1. c.ovf \in Nat /\ c.sqn \in Nat /\ SqnMod \in Nat /\ OvfMod \in Nat
    BY WidthAssumption DEF Count
<1>2. CASE c.sqn + 1 # SqnMod
    BY <1>1, <1>2 DEF AddOne, Value, Count
<1>3. CASE c.sqn + 1 = SqnMod
  <2>1. Value(c) + 1 = (c.ovf + 1) * SqnMod
      BY <1>1, <1>3 DEF Value
  <2>2. c.ovf + 1 # OvfMod
      BY <1>1, <2>1
  <2>3. AddOne(c) = [ovf |-> c.ovf + 1, sqn |-> 0]
      BY <1>3, <2>2 DEF AddOne, SetCount, NextOverflow
  <2> QED
      BY <1>1, <2>1, <2>3 DEF Value
<1> QED
    BY <1>2, <1>3

-----------------------------------------------------------------------------
(* Contexts and queues                                                      *)

\* What encoding does to a context, and that a copy is the context.
LEMMA EncodeFields ==
    ASSUME TypeOK
    PROVE  /\ AfterEncode(ue, TRUE) = [key |-> ue.key, ul |-> AddOne(ZeroCount), dl |-> ZeroCount]
           /\ AfterEncode(ue, FALSE) = [key |-> ue.key, ul |-> AddOne(ue.ul), dl |-> ue.dl]
           /\ Encoded(ue, TRUE) = Protected(ZeroCount, TRUE)
           /\ Encoded(ue, FALSE) = Protected(ue.ul, FALSE)
           /\ TargetCopy(ue) = ue
<1> DEFINE fresh == [key |-> ue.key, ul |-> ZeroCount, dl |-> ZeroCount]
<1>1. ue.ul \in Count /\ ue.dl \in Count /\ ue = [key |-> ue.key, ul |-> ue.ul, dl |-> ue.dl]
  <2>1. ue \in [key : 0..MaxContexts, ul : Count, dl : Count]
      BY DEF TypeOK
  <2> QED
      BY <2>1
<1>2. StartCounts(ue, TRUE) = fresh /\ DeepCopy(ue) = fresh
  <2> DEFINE r == [ue EXCEPT !.ul = ZeroCount, !.dl = ZeroCount]
  <2>1. StartCounts(ue, TRUE) = r /\ DeepCopy(ue) = r
      BY DEF StartCounts, DeepCopy
  <2> QED
      BY <1>1, <2>1
<1>3. AfterEncode(ue, TRUE) = [key |-> ue.key, ul |-> AddOne(ZeroCount), dl |-> ZeroCount]
  <2>1. AfterEncode(ue, TRUE) = [fresh EXCEPT !.ul = AddOne(@)]
      BY <1>2 DEF AfterEncode
  <2> QED
      BY <2>1
<1>4. AfterEncode(ue, FALSE) = [key |-> ue.key, ul |-> AddOne(ue.ul), dl |-> ue.dl]
  <2>1. AfterEncode(ue, FALSE) = [ue EXCEPT !.ul = AddOne(@)]
      BY DEF AfterEncode, StartCounts
  <2> QED
      BY <1>1, <2>1
<1>5. TargetCopy(ue) = ue
  <2>1. ue.ul = SetCount(ue.ul.ovf, ue.ul.sqn) /\ ue.dl = SetCount(ue.dl.ovf, ue.dl.sqn)
      BY <1>1 DEF Count, SetCount
  <2>2. TargetCopy(ue) = [fresh EXCEPT !.ul = ue.ul, !.dl = ue.dl]
      BY <1>2, <2>1 DEF TargetCopy
  <2> QED
      BY <1>1, <2>2
<1> QED
    BY <1>2, <1>3, <1>4, <1>5 DEF Encoded, StartCounts

LEMMA MessageFields ==
    ASSUME NEW c \in Count, NEW new \in BOOLEAN
    PROVE  /\ Protected(c, new) \in ProtectedMessage
           /\ Protected(c, new).sqn = Protected(c, new).count.sqn
           /\ Protected(c, new).count = c
           /\ Protected(c, new).newContext = new
<1>1. c.sqn \in 0..SqnMod - 1
    BY DEF Count
<1> QED
    BY <1>1 DEF Protected, ProtectedMessage

LEMMA QueueEmpty ==
    ASSUME NEW q \in Seq(ProtectedMessage)
    PROVE  Len(q) \in Nat /\ (q = <<>> <=> Len(q) = 0)
    BY EmptySeq

\* The first message of a chain is read.
LEMMA ChainTail ==
    ASSUME NEW q \in Seq(ProtectedMessage), q # <<>>, NEW next, Chain(q, next)
    PROVE  /\ Tail(q) \in Seq(ProtectedMessage) /\ Len(Tail(q)) <= Len(q)
           /\ Chain(Tail(q), next)
           /\ Upcoming(Tail(q), next) = AddOne(q[1].count)
           /\ Tail(q) # <<>> => ~Tail(q)[1].newContext
<1> DEFINE t == Tail(q)
<1>1. /\ t \in Seq(ProtectedMessage) /\ Len(q) \in Nat \ {0}
      /\ Len(t) = Len(q) - 1
      /\ \A i \in 1..Len(t) : t[i] = q[i + 1]
    OBVIOUS
<1> HIDE DEF t
<1> SUFFICES /\ t \in Seq(ProtectedMessage) /\ Len(t) <= Len(q)
             /\ Chain(t, next)
             /\ Upcoming(t, next) = AddOne(q[1].count)
             /\ t # <<>> => ~t[1].newContext
    BY DEF t
<1>2. CASE Len(q) = 1
  <2>1. Len(t) = 0 /\ t = <<>>
      BY <1>1, <1>2, QueueEmpty
  <2>2. next = AddOne(q[1].count)
      BY <1>2 DEF Chain
  <2> QED
      BY <1>1, <1>2, <2>1, <2>2 DEF Chain, Upcoming
<1>3. CASE Len(q) # 1
  <2>1. Len(t) \in Nat \ {0} /\ t # <<>>
      BY <1>1, <1>3, QueueEmpty
  <2>2. t[1] = q[2] /\ q[2].count = AddOne(q[1].count)
      BY <1>1, <2>1 DEF Chain
  <2>3. t[Len(t)] = q[Len(q)]
      BY <1>1, <2>1
  <2>4. \A i \in 1..Len(t) :
          /\ t[i].sqn = t[i].count.sqn
          /\ ~t[i].newContext
          /\ i + 1 \in 1..Len(t) => t[i + 1].count = AddOne(t[i].count)
    <3> SUFFICES ASSUME NEW i \in 1..Len(t)
                 PROVE  /\ t[i].sqn = t[i].count.sqn
                        /\ ~t[i].newContext
                        /\ i + 1 \in 1..Len(t) =>
                             t[i + 1].count = AddOne(t[i].count)
        OBVIOUS
    <3>1. i + 1 \in 1..Len(q) /\ i + 1 # 1 /\ t[i] = q[i + 1]
        BY <1>1
    <3>2. i + 1 \in 1..Len(t) => t[i + 1] = q[i + 1 + 1] /\ i + 1 + 1 \in 1..Len(q)
        BY <1>1
    <3> QED
        BY <3>1, <3>2 DEF Chain
  <2> QED
      BY <1>1, <1>3, <2>1, <2>2, <2>3, <2>4 DEF Chain, Upcoming
<1> QED
    BY <1>1, <1>2, <1>3

LEMMA FirstOfQueue ==
    ASSUME NEW q \in Seq(ProtectedMessage), Len(q) = 0, NEW m \in ProtectedMessage,
           NEW r, r = Append(q, m)
    PROVE  r \in Seq(ProtectedMessage) /\ Len(r) = 1 /\ r # <<>> /\ r[1] = m
<1>1. r \in Seq(ProtectedMessage) /\ Len(r) = 1 /\ r[1] = m
    OBVIOUS
<1> QED
    BY <1>1, QueueEmpty

\* The first message of a context, in an empty queue, is a chain.
LEMMA FirstChain ==
    ASSUME NEW q \in Seq(ProtectedMessage), Len(q) = 0,
           NEW r, r = Append(q, Protected(ZeroCount, TRUE))
    PROVE  /\ r \in Seq(ProtectedMessage) /\ Len(r) = 1 /\ r # <<>> /\ r[1].newContext
           /\ Chain(r, AddOne(ZeroCount))
<1> DEFINE m == Protected(ZeroCount, TRUE)
<1>1. m \in ProtectedMessage /\ m.sqn = m.count.sqn /\ m.count = ZeroCount /\ m.newContext
  <2>1. ZeroCount \in Count /\ ZeroCount.sqn \in 0..SqnMod - 1
      BY CountsClosed DEF Count
  <2> QED
      BY <2>1 DEF Protected, ProtectedMessage
<1> HIDE DEF m
<1>2. r = Append(q, m)
    BY DEF m
<1>3. r \in Seq(ProtectedMessage) /\ Len(r) = 1 /\ r # <<>> /\ r[1] = m
    BY <1>1, <1>2, FirstOfQueue, Zenon
<1>4. \A i \in 1..Len(r) : i = 1
    BY <1>3
<1>5. Chain(r, AddOne(ZeroCount))
  <2>1. r[Len(r)] = m
      BY <1>3
  <2>2. \A i \in 1..Len(r) : i + 1 \notin 1..Len(r)
      BY <1>3
  <2> QED
      BY <1>1, <1>3, <1>4, <2>1, <2>2 DEF Chain
<1> QED
    BY <1>1, <1>3, <1>5

\* r is q with the message of count next at its end, still a chain.
Extended(r, q, next, new) ==
    /\ r \in Seq(ProtectedMessage) /\ Len(r) = Len(q) + 1 /\ r # <<>>
    /\ r[Len(q) + 1] = Protected(next, new)
    /\ Chain(r, AddOne(next)) /\ Upcoming(r, AddOne(next)) = Upcoming(q, next)
    /\ r[1].newContext = IF Len(q) = 0 THEN new ELSE q[1].newContext

\* A message is added to a chain, the first of its context to an empty one.
LEMMA ChainAppend ==
    ASSUME NEW q \in Seq(ProtectedMessage), NEW next \in Count, Chain(q, next),
           NEW new \in BOOLEAN, new => Len(q) = 0 /\ next = ZeroCount
    PROVE  Extended(Append(q, Protected(next, new)), q, next, new)
<1> DEFINE m == Protected(next, new)
           r == Append(q, m)
<1>1. m \in ProtectedMessage /\ m.sqn = m.count.sqn /\ m.count = next /\ m.newContext = new
    BY MessageFields
<1> HIDE DEF m
<1>2. /\ r \in Seq(ProtectedMessage) /\ Len(q) \in Nat /\ Len(r) = Len(q) + 1 /\ r # <<>>
      /\ r[Len(q) + 1] = m
      /\ \A i \in 1..Len(q) : r[i] = q[i]
    BY <1>1
<1>3. Upcoming(r, AddOne(next)) = Upcoming(q, next)
    BY <1>1, <1>2 DEF Upcoming
<1>4. r[1].newContext = IF Len(q) = 0 THEN new ELSE q[1].newContext
    BY <1>1, <1>2
<1> HIDE DEF r
<1>5. \A i \in 1..Len(r) :
         /\ r[i].sqn = r[i].count.sqn
         /\ r[i].newContext => i = 1 /\ r[i].count = ZeroCount
         /\ i + 1 \in 1..Len(r) => r[i + 1].count = AddOne(r[i].count)
  <2> SUFFICES ASSUME NEW i \in 1..Len(r)
               PROVE  /\ r[i].sqn = r[i].count.sqn
                      /\ r[i].newContext => i = 1 /\ r[i].count = ZeroCount
                      /\ i + 1 \in 1..Len(r) => r[i + 1].count = AddOne(r[i].count)
      OBVIOUS
  <2>1. CASE i = Len(q) + 1
      BY <1>1, <1>2, <2>1
  <2>2. CASE i = Len(q)
    <3>1. q # <<>> /\ i + 1 = Len(r) /\ r[i + 1].count = next /\ i \in 1..Len(q)
        BY <1>1, <1>2, <2>2
    <3> QED
        BY <1>2, <2>2, <3>1 DEF Chain
  <2>3. CASE i < Len(q)
    <3>1. i \in 1..Len(q) /\ i + 1 \in 1..Len(q)
        BY <1>2, <2>3
    <3> QED
        BY <1>2, <3>1 DEF Chain
  <2> QED
      BY <1>2, <2>1, <2>2, <2>3
<1>6. Chain(r, AddOne(next))
    BY <1>1, <1>2, <1>5 DEF Chain
<1>7. r[Len(q) + 1] = Protected(next, new)
    BY <1>2 DEF m
<1>8. Extended(r, q, next, new)
    BY <1>2, <1>3, <1>4, <1>6, <1>7 DEF Extended
<1> QED
    BY <1>8 DEF m, r

-----------------------------------------------------------------------------
(* What is decoded                                                          *)

LEMMA DownlinkExact ==
    ASSUME IInv, down # <<>>
    PROVE  Decode(ue.dl, Head(down)) = Head(down).count
<1> DEFINE m == down[1]
<1>1. Head(down) = m /\ m \in ProtectedMessage
  <2>1. down \in Seq(ProtectedMessage)
      BY DEF IInv, TypeOK
  <2> QED
      BY <2>1
<1>2. m.sqn = m.count.sqn /\ (m.newContext => m.count = ZeroCount)
  <2>1. 1 \in 1..Len(down)
      BY QueueEmpty DEF IInv, TypeOK
  <2> QED
      BY <2>1 DEF IInv, DownlinkInStep, Chain
<1>3. CASE m.newContext
    BY <1>1, <1>2, <1>3, DecodeNew
<1>4. CASE ~m.newContext
  <2>1. PICK k \in 0..skipped + 1 : m.count = Plus(ue.dl, k)
      BY DEF IInv, DownlinkInStep, Upcoming
  <2>2. k \in Nat /\ k < SqnMod /\ ue.dl \in Count
      BY SkipAssumption, BoundAssumption, WidthAssumption DEF IInv, TypeOK
  <2> QED
      BY <1>1, <1>2, <1>4, <2>1, <2>2, EstimatePlus DEF Decode
<1> QED
    BY <1>3, <1>4

LEMMA UplinkExact ==
    ASSUME IInv, up # <<>>
    PROVE  Decode(amf.ul, Head(up)) = Head(up).count
<1> DEFINE m == up[1]
<1>1. Head(up) = m /\ m \in ProtectedMessage
  <2>1. up \in Seq(ProtectedMessage)
      BY DEF IInv, TypeOK
  <2> QED
      BY <2>1
<1>2. m.sqn = m.count.sqn /\ (m.newContext => m.count = ZeroCount)
  <2>1. 1 \in 1..Len(up)
      BY QueueEmpty DEF IInv, TypeOK
  <2> QED
      BY <2>1 DEF IInv, UplinkInStep, Chain
<1>3. CASE m.newContext
    BY <1>1, <1>2, <1>3, DecodeNew
<1>4. CASE ~m.newContext
  <2>1. m.count = AddOne(amf.ul)
      BY <1>4 DEF IInv, Registering, UplinkInStep, Upcoming, TypeOK, Phases
  <2>2. amf.ul \in Count
      BY DEF IInv, TypeOK
  <2> QED
      BY <1>1, <1>2, <1>4, <2>1, <2>2, EstimateNext DEF Decode
<1> QED
    BY <1>3, <1>4

\* The count of a message that the UE is about to send has not been used under
\* these keys.
LEMMA NextCountUnused ==
    ASSUME IInv, sent.up < MaxUplink
    PROVE  /\ phase = "authenticated" => <<ue.key, ZeroCount>> \notin used
           /\ phase = "secured" => <<ue.key, ue.ul>> \notin used
<1>1. sent.up \in Nat /\ SqnMod * OvfMod \in Nat /\ sent.up < SqnMod * OvfMod
    BY BoundAssumption, WidthAssumption DEF IInv, TypeOK
<1>2. Value(ZeroCount) = 0
    BY WidthAssumption DEF Value, ZeroCount, SetCount
<1>3. CASE phase = "authenticated"
    BY <1>1, <1>2, <1>3 DEF IInv, CountsUsed, Registering
<1>4. CASE phase = "secured"
    BY <1>1, <1>4 DEF IInv, CountsUsed
<1> QED
    BY <1>3, <1>4

-----------------------------------------------------------------------------
(* Every step keeps the invariant                                           *)

LEMMA InitKeeps == Init => IInv
<1> SUFFICES ASSUME Init PROVE IInv
    OBVIOUS
<1>1. TypeOK
    BY CountsClosed, BoundAssumption, EmptySeq DEF Init, TypeOK, Phases
<1>2. DownlinkInStep
  <2>1. Upcoming(down, amf.dl) = Plus(ue.dl, 0) /\ 0 \in 0..skipped + 1
      BY CountsClosed, PlusZero DEF Init, Upcoming
  <2> QED
      BY <2>1 DEF Init, DownlinkInStep, Chain
<1>3. UplinkInStep
    BY DEF Init, UplinkInStep, Chain
<1>4. Registering
    BY BoundAssumption DEF Init, Registering
<1>5. CountsUsed
    BY DEF Init, CountsUsed
<1> QED
    BY <1>1, <1>2, <1>3, <1>4, <1>5 DEF IInv

LEMMA AuthenticateKeeps ==
    ASSUME IInv, Authenticate
    PROVE  IInv'
<1>1. /\ ue'.key = ue.key + 1 /\ ue'.ul = ue.ul /\ ue'.dl = ue.dl
      /\ ue' \in [key : 0..MaxContexts, ul : Count, dl : Count]
    BY BoundAssumption DEF IInv, TypeOK, Registering, Authenticate
<1>2. phase = "idle" /\ phase' = "authenticated" /\ UNCHANGED <<amf, up, down, skipped, used, sent>>
    BY DEF Authenticate
<1>3. TypeOK'
    BY <1>1, <1>2 DEF IInv, TypeOK, Phases
<1>4. DownlinkInStep'
    BY <1>1, <1>2 DEF IInv, DownlinkInStep
<1>5. UplinkInStep'
    BY <1>1, <1>2 DEF IInv, UplinkInStep
<1>6. Registering'
    BY <1>1, <1>2 DEF IInv, Registering
<1>7. CountsUsed'
    BY <1>1, <1>2, BoundAssumption DEF IInv, TypeOK, CountsUsed
<1> QED
    BY <1>3, <1>4, <1>5, <1>6, <1>7 DEF IInv

LEMMA CompleteSecurityModeKeeps ==
    ASSUME IInv, CompleteSecurityMode
    PROVE  IInv'
<1>1. /\ phase = "authenticated" /\ phase' = "secured" /\ down = <<>> /\ sent.down # 0
      /\ UNCHANGED <<amf, down, skipped>>
      /\ up = <<>> /\ sent.up = 0 /\ amf.dl = AddOne(ZeroCount) /\ ~amf.secured
    BY DEF CompleteSecurityMode, IInv, TypeOK, Registering
<1>2. /\ ue' = [key |-> ue.key, ul |-> AddOne(ZeroCount), dl |-> ZeroCount]
      /\ up' = Append(up, Protected(ZeroCount, TRUE))
      /\ used' = used \cup {<<ue.key, ZeroCount>>}
      /\ sent' = [up |-> 1, down |-> sent.down]
      /\ 1 \in 0..MaxUplink
      /\ Len(up) < MaxInFlight
  <2>1. sent' = [sent EXCEPT !.up = @ + 1] /\ sent.up < MaxUplink /\ Len(up) < MaxInFlight
      BY DEF CompleteSecurityMode, Encode
  <2>2. sent' = [up |-> 1, down |-> sent.down] /\ 1 \in 0..MaxUplink
      BY <1>1, <2>1, BoundAssumption DEF IInv, TypeOK
  <2>3. Protected(ZeroCount, TRUE).count = ZeroCount
      BY DEF Protected
  <2> QED
      BY <1>1, <2>1, <2>2, <2>3, EncodeFields, Zenon DEF CompleteSecurityMode, Encode, IInv
<1>3. /\ up' \in Seq(ProtectedMessage) /\ Len(up') = 1 /\ up' # <<>> /\ up'[1].newContext
      /\ Chain(up', ue'.ul)
  <2>1. up \in Seq(ProtectedMessage) /\ Len(up) = 0
      BY <1>1, QueueEmpty DEF IInv, TypeOK
  <2>2. up' = Append(up, Protected(ZeroCount, TRUE)) /\ ue'.ul = AddOne(ZeroCount)
      BY <1>2
  <2> QED
      BY <2>1, <2>2, FirstChain
<1>4. TypeOK'
  <2>1. ue' \in [key : 0..MaxContexts, ul : Count, dl : Count]
      BY <1>2, CountsClosed DEF IInv, TypeOK
  <2>2. used' \subseteq (0..MaxContexts) \X Count
      BY <1>2, CountsClosed DEF IInv, TypeOK
  <2>3. sent' \in [up : 0..MaxUplink, down : 0..MaxDownlink]
      BY <1>2 DEF IInv, TypeOK
  <2>4. Len(up') <= MaxInFlight
      BY <1>1, <1>2, <1>3, BoundAssumption, QueueEmpty DEF IInv, TypeOK
  <2> QED
      BY <1>1, <1>3, <2>1, <2>2, <2>3, <2>4 DEF IInv, TypeOK, Phases
<1>5. DownlinkInStep'
  <2>1. Upcoming(down', amf'.dl) = Plus(ue'.dl, 1) /\ 1 \in 0..skipped' + 1
      BY <1>1, <1>2, EstimateNext, CountsClosed DEF Upcoming, IInv, TypeOK
  <2> QED
      BY <1>1, <2>1 DEF IInv, DownlinkInStep
<1>6. UplinkInStep'
    BY <1>3 DEF UplinkInStep
<1>7. Registering'
    BY <1>1 DEF Registering
<1>8. CountsUsed'
  <2>1. Value(ZeroCount) = 0
      BY WidthAssumption DEF Value, ZeroCount, SetCount
  <2>2. \A p \in used' : p[1] <= ue'.key
      BY <1>2 DEF IInv, TypeOK, CountsUsed
  <2>3. \A p \in used' : p[1] = ue'.key => Value(p[2]) < sent'.up
    <3>1. \A p \in used : p[1] # ue.key
      <4>1. \A p \in used : p[1] = ue.key => Value(p[2]) < 0
          BY <1>1 DEF IInv, CountsUsed
      <4>2. \A p \in used : Value(p[2]) \in Nat
          BY ValueIsNatural DEF IInv, TypeOK
      <4> QED
          BY <4>1, <4>2
    <3> QED
        BY <1>2, <2>1, <3>1
  <2>4. sent'.up < SqnMod * OvfMod => Value(ue'.ul) = sent'.up
      BY <1>2, <2>1, ValueAddOne, CountsClosed
  <2> QED
      BY <2>2, <2>3, <2>4 DEF CountsUsed
<1> QED
    BY <1>4, <1>5, <1>6, <1>7, <1>8 DEF IInv

LEMMA SendUplinkKeeps ==
    ASSUME IInv, SendUplink
    PROVE  IInv'
<1>1. /\ phase = "secured" /\ phase' = "secured"
      /\ UNCHANGED <<phase, amf, down, skipped>>
      /\ Len(up) < MaxInFlight /\ sent.up < MaxUplink
    BY DEF SendUplink, Encode
<1>2. /\ ue' = [key |-> ue.key, ul |-> AddOne(ue.ul), dl |-> ue.dl]
      /\ up' = Append(up, Protected(ue.ul, FALSE))
      /\ used' = used \cup {<<ue.key, ue.ul>>}
      /\ sent' = [up |-> sent.up + 1, down |-> sent.down]
      /\ sent.up + 1 \in 0..MaxUplink
  <2>1. ue.ul \in Count
      BY DEF IInv, TypeOK
  <2>2. sent' = [sent EXCEPT !.up = @ + 1]
      BY DEF SendUplink, Encode
  <2>3. sent' = [up |-> sent.up + 1, down |-> sent.down] /\ sent.up + 1 \in 0..MaxUplink
      BY <1>1, <2>2, BoundAssumption DEF IInv, TypeOK
  <2>4. Protected(ue.ul, FALSE).count = ue.ul
      BY DEF Protected
  <2> QED
      BY <2>1, <2>3, <2>4, EncodeFields DEF SendUplink, Encode, IInv
<1>3. /\ up' \in Seq(ProtectedMessage) /\ Len(up') = Len(up) + 1 /\ up' # <<>>
      /\ Chain(up', ue'.ul) /\ Upcoming(up', ue'.ul) = Upcoming(up, ue.ul)
      /\ up # <<>> /\ up[1].newContext => up'[1].newContext
  <2>1. up \in Seq(ProtectedMessage) /\ ue.ul \in Count /\ Chain(up, ue.ul)
      BY DEF IInv, TypeOK, UplinkInStep
  <2>2. ue'.ul = AddOne(ue.ul) /\ up' = Append(up, Protected(ue.ul, FALSE))
      BY <1>2
  <2>3. up # <<>> => Len(up) # 0
      BY <2>1, QueueEmpty
  <2>4. FALSE \in BOOLEAN /\ (FALSE => Len(up) = 0 /\ ue.ul = ZeroCount)
      OBVIOUS
  <2>5. Extended(Append(up, Protected(ue.ul, FALSE)), up, ue.ul, FALSE)
      BY <2>1, <2>4, ChainAppend, Zenon
  <2> QED
      BY <2>2, <2>3, <2>5 DEF Extended
<1>4. TypeOK'
  <2>1. ue' \in [key : 0..MaxContexts, ul : Count, dl : Count]
      BY <1>2, CountsClosed DEF IInv, TypeOK
  <2>2. used' \subseteq (0..MaxContexts) \X Count
      BY <1>2 DEF IInv, TypeOK
  <2>3. sent' \in [up : 0..MaxUplink, down : 0..MaxDownlink]
      BY <1>2 DEF IInv, TypeOK
  <2>4. Len(up') <= MaxInFlight
      BY <1>1, <1>3, BoundAssumption, QueueEmpty DEF IInv, TypeOK
  <2> QED
      BY <1>1, <1>3, <2>1, <2>2, <2>3, <2>4 DEF IInv, TypeOK, Phases
<1>5. DownlinkInStep'
    BY <1>1, <1>2 DEF IInv, DownlinkInStep
<1>6. UplinkInStep'
    BY <1>1, <1>3 DEF IInv, UplinkInStep
<1>7. Registering'
    BY <1>1 DEF Registering
<1>8. CountsUsed'
  <2>1. sent.up \in Nat /\ SqnMod * OvfMod \in Nat /\ sent.up < SqnMod * OvfMod
      BY <1>1, BoundAssumption, WidthAssumption DEF IInv, TypeOK
  <2>2. Value(ue.ul) = sent.up
      BY <1>1, <2>1 DEF IInv, CountsUsed
  <2>3. sent'.up = sent.up + 1 /\ ue'.ul = AddOne(ue.ul) /\ ue'.key = ue.key
      BY <1>2
  <2>4. \A p \in used' : p[1] <= ue'.key
      BY <1>2 DEF IInv, TypeOK, CountsUsed
  <2>5. \A p \in used' : p[1] = ue'.key => Value(p[2]) < sent'.up
    <3>1. \A p \in used : p[1] = ue.key => Value(p[2]) < sent.up
        BY <1>1 DEF IInv, CountsUsed
    <3>2. \A p \in used : Value(p[2]) \in Nat
        BY ValueIsNatural DEF IInv, TypeOK
    <3>3. \A p \in used' : p \in used \/ p = <<ue.key, ue.ul>>
        BY <1>2
    <3> QED
        BY <2>1, <2>2, <2>3, <3>1, <3>2, <3>3
  <2>6. sent'.up < SqnMod * OvfMod => Value(ue'.ul) = sent'.up
      BY <2>1, <2>2, <2>3, ValueAddOne DEF IInv, TypeOK
  <2> QED
      BY <2>4, <2>5, <2>6 DEF CountsUsed
<1> QED
    BY <1>4, <1>5, <1>6, <1>7, <1>8 DEF IInv

LEMMA DecodeDownlinkKeeps ==
    ASSUME IInv, DecodeDownlink
    PROVE  IInv'
<1>1. /\ down # <<>> /\ down \in Seq(ProtectedMessage) /\ down[1].count \in Count
      /\ ue'.key = ue.key /\ ue'.ul = ue.ul /\ ue'.dl = down[1].count
      /\ ue' \in [key : 0..MaxContexts, ul : Count, dl : Count]
      /\ down' = Tail(down) /\ skipped' = 0
      /\ UNCHANGED <<phase, amf, up, used, sent>>
  <2>1. down # <<>> /\ down \in Seq(ProtectedMessage)
      BY DEF DecodeDownlink, IInv, TypeOK
  <2>2. Head(down) = down[1] /\ down[1] \in ProtectedMessage
      BY <2>1
  <2>3. down[1].count \in Count
      BY <2>2 DEF ProtectedMessage
  <2>4. ue' = [ue EXCEPT !.dl = down[1].count]
      BY <2>1, <2>2, DownlinkExact DEF DecodeDownlink
  <2>5. ue \in [key : 0..MaxContexts, ul : Count, dl : Count]
      BY DEF IInv, TypeOK
  <2> QED
      BY <2>1, <2>3, <2>4, <2>5 DEF DecodeDownlink
<1>2. /\ down' \in Seq(ProtectedMessage) /\ Len(down') <= Len(down)
      /\ Chain(down', amf.dl) /\ Upcoming(down', amf.dl) = AddOne(down[1].count)
    BY <1>1, ChainTail DEF IInv, DownlinkInStep
<1>3. TypeOK'
  <2>1. Len(down') <= MaxInFlight
      BY <1>1, <1>2, QueueEmpty, BoundAssumption DEF IInv, TypeOK
  <2>2. skipped' \in 0..MaxSkipped
      BY <1>1, BoundAssumption
  <2> QED
      BY <1>1, <1>2, <2>1, <2>2 DEF IInv, TypeOK
<1>4. DownlinkInStep'
  <2>1. Upcoming(down', amf'.dl) = Plus(ue'.dl, 1) /\ 1 \in 0..skipped' + 1
      BY <1>1, <1>2, EstimateNext
  <2> QED
      BY <1>1, <1>2, <2>1 DEF DownlinkInStep
<1>5. UplinkInStep'
    BY <1>1 DEF IInv, UplinkInStep
<1>6. Registering'
    BY <1>1 DEF IInv, Registering
<1>7. CountsUsed'
    BY <1>1 DEF IInv, CountsUsed
<1> QED
    BY <1>3, <1>4, <1>5, <1>6, <1>7 DEF IInv

LEMMA SkipDownlinkKeeps ==
    ASSUME IInv, SkipDownlink
    PROVE  IInv'
<1>1. /\ down # <<>> /\ down \in Seq(ProtectedMessage)
      /\ skipped < MaxSkipped /\ skipped \in Nat
      /\ down' = Tail(down) /\ skipped' = skipped + 1
      /\ UNCHANGED <<ue, phase, amf, up, used, sent>>
    BY BoundAssumption DEF SkipDownlink, IInv, TypeOK
<1>2. /\ down' \in Seq(ProtectedMessage) /\ Len(down') <= Len(down)
      /\ Chain(down', amf.dl) /\ Upcoming(down', amf.dl) = AddOne(down[1].count)
    BY <1>1, ChainTail DEF IInv, DownlinkInStep
<1>3. TypeOK'
  <2>1. Len(down') <= MaxInFlight
      BY <1>1, <1>2, QueueEmpty, BoundAssumption DEF IInv, TypeOK
  <2>2. skipped' \in 0..MaxSkipped
      BY <1>1, BoundAssumption
  <2> QED
      BY <1>1, <1>2, <2>1, <2>2 DEF IInv, TypeOK
<1>4. DownlinkInStep'
  <2>1. PICK k \in 0..skipped + 1 : down[1].count = Plus(ue.dl, k)
      BY <1>1 DEF IInv, DownlinkInStep, Upcoming
  <2>2. k \in Nat /\ k + 1 < SqnMod /\ ue.dl \in Count /\ k + 1 \in 0..skipped + 1 + 1
      BY <1>1, SkipAssumption, BoundAssumption, WidthAssumption DEF IInv, TypeOK
  <2>3. Upcoming(down', amf'.dl) = Plus(ue'.dl, k + 1)
      BY <1>1, <1>2, <2>1, <2>2, PlusOneMore
  <2> QED
      BY <1>1, <1>2, <2>2, <2>3 DEF DownlinkInStep
<1>5. UplinkInStep'
    BY <1>1 DEF IInv, UplinkInStep
<1>6. Registering'
    BY <1>1 DEF IInv, Registering
<1>7. CountsUsed'
    BY <1>1 DEF IInv, CountsUsed
<1> QED
    BY <1>3, <1>4, <1>5, <1>6, <1>7 DEF IInv

LEMMA MoveToTargetKeeps ==
    ASSUME IInv, MoveToTarget
    PROVE  IInv'
<1>1. UNCHANGED <<ue, phase, amf, up, down, skipped, used, sent>>
    BY EncodeFields DEF MoveToTarget, IInv
<1> QED
    BY <1>1 DEF IInv, TypeOK, DownlinkInStep, UplinkInStep, Registering, CountsUsed

LEMMA NewRanUeContextKeeps ==
    ASSUME IInv, NewRanUeContext
    PROVE  IInv'
<1>1. /\ phase' = "idle" /\ up' = <<>> /\ down' = <<>> /\ skipped' = 0 /\ used' = used
      /\ amf' = [key |-> ue.key, ul |-> ZeroCount, dl |-> ZeroCount, secured |-> FALSE]
      /\ sent' = [up |-> 0, down |-> 0]
      /\ ue.key < MaxContexts
    BY DEF NewRanUeContext
<1>2. ue' = [key |-> ue.key, ul |-> ZeroCount, dl |-> ZeroCount] /\ ue.key \in 0..MaxContexts
  <2>1. ue' = [ue EXCEPT !.ul = ZeroCount, !.dl = ZeroCount]
      BY DEF NewRanUeContext
  <2>2. ue \in [key : 0..MaxContexts, ul : Count, dl : Count]
      BY DEF IInv, TypeOK
  <2> QED
      BY <2>1, <2>2
<1>3. TypeOK'
  <2>1. amf' \in [key : 0..MaxContexts, ul : Count, dl : Count, secured : BOOLEAN]
      BY <1>1, <1>2, CountsClosed
  <2>2. ue' \in [key : 0..MaxContexts, ul : Count, dl : Count]
      BY <1>2, CountsClosed
  <2>3. sent' \in [up : 0..MaxUplink, down : 0..MaxDownlink] /\ skipped' \in 0..MaxSkipped
      BY <1>1, BoundAssumption
  <2>4. up' \in Seq(ProtectedMessage) /\ Len(up') <= MaxInFlight
      BY <1>1, BoundAssumption, EmptySeq
  <2>5. down' \in Seq(ProtectedMessage) /\ Len(down') <= MaxInFlight
      BY <1>1, BoundAssumption, EmptySeq
  <2> QED
      BY <1>1, <2>1, <2>2, <2>3, <2>4, <2>5 DEF IInv, TypeOK, Phases
<1>4. DownlinkInStep'
  <2>1. Upcoming(down', amf'.dl) = Plus(ue'.dl, 0) /\ 0 \in 0..skipped' + 1
      BY <1>1, <1>2, CountsClosed, PlusZero DEF Upcoming
  <2> QED
      BY <1>1, <2>1 DEF DownlinkInStep, Chain
<1>5. UplinkInStep'
    BY <1>1 DEF UplinkInStep, Chain
<1>6. Registering'
    BY <1>1, <1>2 DEF Registering
<1>7. CountsUsed'
    BY <1>1, <1>2 DEF IInv, CountsUsed
<1> QED
    BY <1>3, <1>4, <1>5, <1>6, <1>7 DEF IInv

LEMMA FreshCounts ==
    ASSUME NEW a \in [key : 0..MaxContexts, ul : Count, dl : Count, secured : BOOLEAN],
           NEW k
    PROVE  [a EXCEPT !.key = k, !.ul = ZeroCount, !.dl = ZeroCount]
             = [key |-> k, ul |-> ZeroCount, dl |-> ZeroCount, secured |-> a.secured]
<1>1. PICK r : r = [a EXCEPT !.key = k, !.ul = ZeroCount, !.dl = ZeroCount]
    OBVIOUS
<1> SUFFICES r = [key |-> k, ul |-> ZeroCount, dl |-> ZeroCount, secured |-> a.secured]
    BY <1>1
<1>2. a = [key |-> a.key, ul |-> a.ul, dl |-> a.dl, secured |-> a.secured]
    OBVIOUS
<1> QED
    BY <1>1, <1>2

LEMMA CommandSecurityModeKeeps ==
    ASSUME IInv, CommandSecurityMode
    PROVE  IInv'
<1>1. /\ phase = "authenticated" /\ sent.down = 0
      /\ down = <<>> /\ skipped = 0 /\ ue.dl = ZeroCount /\ ~amf.secured
      /\ UNCHANGED <<ue, phase, up, skipped, used>>
      /\ Len(down) < MaxInFlight /\ sent.down < MaxDownlink
      /\ down' = Append(down, Protected(ZeroCount, TRUE))
      /\ amf' = [key |-> ue.key, ul |-> ZeroCount, dl |-> AddOne(ZeroCount), secured |-> FALSE]
  <2> DEFINE c == [amf EXCEPT !.key = ue.key, !.ul = ZeroCount, !.dl = ZeroCount]
  <2>1. phase = "authenticated" /\ sent.down = 0
      BY DEF CommandSecurityMode, IInv, Registering
  <2>2. down = <<>> /\ skipped = 0 /\ ue.dl = ZeroCount /\ ~amf.secured
      BY <2>1 DEF IInv, Registering
  <2>3. c = [key |-> ue.key, ul |-> ZeroCount, dl |-> ZeroCount, secured |-> FALSE]
    <3>1. amf \in [key : 0..MaxContexts, ul : Count, dl : Count, secured : BOOLEAN]
        BY DEF IInv, TypeOK
    <3>2. amf.secured = FALSE
        BY <2>2, <3>1
    <3> QED
        BY <3>1, <3>2, FreshCounts
  <2>4. Post(c, TRUE)
      BY DEF CommandSecurityMode
  <2> HIDE DEF c
  <2>5. amf' = [c EXCEPT !.dl = AddOne(@)] /\ down' = Append(down, Protected(c.dl, TRUE))
        /\ UNCHANGED <<ue, phase, up, skipped, used>>
        /\ Len(down) < MaxInFlight /\ sent.down < MaxDownlink
      BY <2>4 DEF Post
  <2>6. amf' = [key |-> ue.key, ul |-> ZeroCount, dl |-> AddOne(ZeroCount), secured |-> FALSE]
      BY <2>3, <2>5
  <2>7. c.dl = ZeroCount
      BY <2>3
  <2> QED
      BY <2>1, <2>2, <2>5, <2>6, <2>7
<1>2. sent' = [up |-> sent.up, down |-> 1] /\ 1 \in 0..MaxDownlink
  <2>1. sent' = [sent EXCEPT !.down = @ + 1]
      BY DEF CommandSecurityMode, Post
  <2> QED
      BY <1>1, <2>1, BoundAssumption DEF IInv, TypeOK
<1>3. /\ down' \in Seq(ProtectedMessage) /\ Len(down') = 1 /\ Len(down') <= MaxInFlight
      /\ Chain(down', amf'.dl) /\ Upcoming(down', amf'.dl) = Plus(ue.dl, 0)
  <2>1. down \in Seq(ProtectedMessage) /\ Len(down) = 0
      BY <1>1, QueueEmpty DEF IInv, TypeOK
  <2>2. down' = Append(down, Protected(ZeroCount, TRUE)) /\ amf'.dl = AddOne(ZeroCount)
      BY <1>1
  <2>3. down' \in Seq(ProtectedMessage) /\ Len(down') = 1 /\ down' # <<>>
        /\ down'[1].newContext /\ Chain(down', amf'.dl)
      BY <2>1, <2>2, FirstChain
  <2>4. down'[1].count = ZeroCount
      BY <2>3 DEF Chain
  <2>5. Upcoming(down', amf'.dl) = Plus(ue.dl, 0)
      BY <1>1, <2>3, <2>4, CountsClosed, PlusZero DEF Upcoming
  <2>6. Len(down') <= MaxInFlight
      BY <1>1, <2>1, <2>3, BoundAssumption
  <2> QED
      BY <2>3, <2>5, <2>6
<1>4. TypeOK'
  <2>1. amf' \in [key : 0..MaxContexts, ul : Count, dl : Count, secured : BOOLEAN]
      BY <1>1, CountsClosed DEF IInv, TypeOK
  <2>2. sent' \in [up : 0..MaxUplink, down : 0..MaxDownlink]
      BY <1>2 DEF IInv, TypeOK
  <2> QED
      BY <1>1, <1>3, <2>1, <2>2 DEF IInv, TypeOK
<1>5. DownlinkInStep'
  <2>1. 0 \in 0..skipped' + 1 /\ ue'.dl = ue.dl
      BY <1>1
  <2> QED
      BY <1>3, <2>1 DEF DownlinkInStep
<1>6. UplinkInStep'
    BY <1>1 DEF IInv, UplinkInStep
<1>7. Registering'
    BY <1>1, <1>2 DEF IInv, Registering
<1>8. CountsUsed'
    BY <1>1, <1>2 DEF IInv, CountsUsed
<1> QED
    BY <1>4, <1>5, <1>6, <1>7, <1>8 DEF IInv

LEMMA SendDownlinkKeeps ==
    ASSUME IInv, SendDownlink
    PROVE  IInv'
<1>1. /\ amf.secured /\ phase = "secured"
      /\ UNCHANGED <<ue, phase, up, skipped, used>>
      /\ Len(down) < MaxInFlight /\ sent.down < MaxDownlink
      /\ down' = Append(down, Protected(amf.dl, FALSE))
      /\ amf' = [amf EXCEPT !.dl = AddOne(@)]
      /\ sent' = [sent EXCEPT !.down = @ + 1]
    BY DEF SendDownlink, Post, IInv, Registering
<1>2. amf \in [key : 0..MaxContexts, ul : Count, dl : Count, secured : BOOLEAN]
    BY DEF IInv, TypeOK
<1>3. /\ amf'.key = amf.key /\ amf'.ul = amf.ul /\ amf'.secured = amf.secured
      /\ amf'.dl = AddOne(amf.dl)
    BY <1>1, <1>2
<1>4. sent' = [up |-> sent.up, down |-> sent.down + 1] /\ sent.down + 1 \in 0..MaxDownlink
  <2>1. sent \in [up : 0..MaxUplink, down : 0..MaxDownlink]
      BY DEF IInv, TypeOK
  <2>2. sent' = [up |-> sent.up, down |-> sent.down + 1]
      BY <1>1, <2>1
  <2>3. sent.down + 1 \in 0..MaxDownlink
      BY <1>1, <2>1, BoundAssumption
  <2> QED
      BY <2>2, <2>3
<1>5. /\ down' \in Seq(ProtectedMessage) /\ Len(down') = Len(down) + 1
      /\ Chain(down', amf'.dl) /\ Upcoming(down', amf'.dl) = Upcoming(down, amf.dl)
  <2>1. down \in Seq(ProtectedMessage) /\ amf.dl \in Count /\ Chain(down, amf.dl)
      BY DEF IInv, TypeOK, DownlinkInStep
  <2>2. FALSE \in BOOLEAN /\ (FALSE => Len(down) = 0 /\ amf.dl = ZeroCount)
      OBVIOUS
  <2>3. down' = Append(down, Protected(amf.dl, FALSE)) /\ amf'.dl = AddOne(amf.dl)
      BY <1>1, <1>3
  <2>4. Extended(Append(down, Protected(amf.dl, FALSE)), down, amf.dl, FALSE)
      BY <2>1, <2>2, ChainAppend, Zenon
  <2> QED
      BY <2>3, <2>4 DEF Extended
<1>6. TypeOK'
  <2>1. amf' \in [key : 0..MaxContexts, ul : Count, dl : Count, secured : BOOLEAN]
      BY <1>1, <1>2, CountsClosed
  <2>2. sent' \in [up : 0..MaxUplink, down : 0..MaxDownlink]
      BY <1>4 DEF IInv, TypeOK
  <2>3. Len(down') <= MaxInFlight
      BY <1>1, <1>5, BoundAssumption, QueueEmpty DEF IInv, TypeOK
  <2> QED
      BY <1>1, <1>5, <2>1, <2>2, <2>3 DEF IInv, TypeOK
<1>7. DownlinkInStep'
    BY <1>1, <1>5 DEF IInv, DownlinkInStep
<1>8. UplinkInStep'
    BY <1>1, <1>3 DEF IInv, UplinkInStep
<1>9. Registering'
    BY <1>1 DEF Registering
<1>10. CountsUsed'
    BY <1>1, <1>4 DEF IInv, CountsUsed
<1> QED
    BY <1>6, <1>7, <1>8, <1>9, <1>10 DEF IInv

LEMMA ReceiveUplinkKeeps ==
    ASSUME IInv, ReceiveUplink
    PROVE  IInv'
<1>1. /\ up # <<>> /\ phase = "secured"
      /\ UNCHANGED <<ue, phase, down, skipped, used, sent>>
      /\ up' = Tail(up)
    BY DEF ReceiveUplink, IInv, TypeOK, Phases, Registering
<1>2. /\ up \in Seq(ProtectedMessage) /\ up[1].count \in Count
      /\ amf'.key = amf.key /\ amf'.ul = up[1].count /\ amf'.dl = amf.dl /\ amf'.secured
      /\ amf' \in [key : 0..MaxContexts, ul : Count, dl : Count, secured : BOOLEAN]
  <2>1. up \in Seq(ProtectedMessage)
      BY DEF IInv, TypeOK
  <2>2. Head(up) = up[1] /\ up[1] \in ProtectedMessage
      BY <1>1, <2>1
  <2>3. up[1].count \in Count
      BY <2>2 DEF ProtectedMessage
  <2>4. amf' = [amf EXCEPT !.ul = up[1].count, !.secured = TRUE]
      BY <1>1, <2>2, UplinkExact DEF ReceiveUplink
  <2>5. amf \in [key : 0..MaxContexts, ul : Count, dl : Count, secured : BOOLEAN]
      BY DEF IInv, TypeOK
  <2> QED
      BY <2>1, <2>3, <2>4, <2>5
<1>3. /\ up' \in Seq(ProtectedMessage) /\ Len(up') <= Len(up)
      /\ Chain(up', ue.ul) /\ Upcoming(up', ue.ul) = AddOne(up[1].count)
    BY <1>1, <1>2, ChainTail DEF IInv, UplinkInStep
<1>4. TypeOK'
  <2>1. Len(up') <= MaxInFlight
      BY <1>2, <1>3, QueueEmpty, BoundAssumption DEF IInv, TypeOK
  <2> QED
      BY <1>1, <1>2, <1>3, <2>1 DEF IInv, TypeOK
<1>5. DownlinkInStep'
    BY <1>1, <1>2 DEF IInv, DownlinkInStep
<1>6. UplinkInStep'
    BY <1>1, <1>2, <1>3 DEF UplinkInStep
<1>7. Registering'
    BY <1>1 DEF Registering
<1>8. CountsUsed'
    BY <1>1 DEF IInv, CountsUsed
<1> QED
    BY <1>4, <1>5, <1>6, <1>7, <1>8 DEF IInv

LEMMA StepKeeps == IInv /\ [Next]_vars => IInv'
<1> SUFFICES ASSUME IInv, [Next]_vars PROVE IInv'
    OBVIOUS
<1>1. CASE UNCHANGED vars
    BY <1>1 DEF vars, IInv, TypeOK, DownlinkInStep, UplinkInStep, Registering, CountsUsed
<1> QED
    BY <1>1, AuthenticateKeeps, CompleteSecurityModeKeeps, SendUplinkKeeps,
       DecodeDownlinkKeeps, SkipDownlinkKeeps, MoveToTargetKeeps, NewRanUeContextKeeps,
       CommandSecurityModeKeeps, SendDownlinkKeeps, ReceiveUplinkKeeps DEF Next

-----------------------------------------------------------------------------
(* Theorems                                                                 *)

\* The inductive invariant: queues numbered without a gap, both estimates
\* within reach of the next message, and one count for each message sent.
THEOREM Invariance == Spec => []IInv
    BY InitKeeps, StepKeeps, PTL DEF Spec

\* NASEncode and NASDecode keep the counts in their widths and the context in
\* one of its phases.
THEOREM TypeCorrect == Spec => []TypeOK
<1>1. IInv => TypeOK
    BY DEF IInv
<1> QED
    BY <1>1, Invariance, PTL

\* NASDecode and the AMF reconstruct the count of every message they decode,
\* whatever the UE has read past and however often its context was copied.
THEOREM AlwaysCountsExact == Spec => CountsExact
<1>1. ASSUME IInv, [Next]_vars
      PROVE  [/\ DecodeDownlink => ue'.dl = Head(down).count
              /\ ReceiveUplink => amf'.ul = Head(up).count]_vars
  <2>1. ASSUME DecodeDownlink
        PROVE  ue'.dl = Head(down).count
    <3>1. ue' = [ue EXCEPT !.dl = Head(down).count]
        BY <1>1, <2>1, DownlinkExact DEF DecodeDownlink
    <3>2. ue \in [key : 0..MaxContexts, ul : Count, dl : Count]
        BY <1>1 DEF IInv, TypeOK
    <3> QED
        BY <3>1, <3>2
  <2>2. ASSUME ReceiveUplink
        PROVE  amf'.ul = Head(up).count
    <3>1. amf' = [amf EXCEPT !.ul = Head(up).count, !.secured = TRUE]
        BY <1>1, <2>2, UplinkExact DEF ReceiveUplink
    <3>2. amf \in [key : 0..MaxContexts, ul : Count, dl : Count, secured : BOOLEAN]
        BY <1>1 DEF IInv, TypeOK
    <3> QED
        BY <3>1, <3>2
  <2> QED
      BY <2>1, <2>2
<1> QED
    BY <1>1, Invariance, PTL DEF Spec, CountsExact

\* NASEncode never protects two uplink messages with the same count under the
\* same keys, through any number of UE contexts and handover copies.
THEOREM AlwaysUplinkCountFresh == Spec => UplinkCountFresh
<1>1. ASSUME IInv, Next
      PROVE  Len(up') > Len(up) => <<ue.key, up'[Len(up')].count>> \notin used
  <2> SUFFICES ASSUME Len(up') > Len(up)
               PROVE  <<ue.key, up'[Len(up')].count>> \notin used
      OBVIOUS
  <2>1. up \in Seq(ProtectedMessage) /\ Len(up) \in Nat /\ ue.ul \in Count
      BY <1>1, QueueEmpty DEF IInv, TypeOK
  <2>2. CASE CompleteSecurityMode
    <3> DEFINE m == Protected(ZeroCount, TRUE)
    <3>1. up' = Append(up, m) /\ phase = "authenticated" /\ sent.up < MaxUplink
        BY <1>1, <2>2, EncodeFields DEF CompleteSecurityMode, Encode, IInv
    <3>2. m.count = ZeroCount
        BY DEF Protected
    <3> HIDE DEF m
    <3>3. up'[Len(up')] = m
        BY <2>1, <3>1
    <3> QED
        BY <1>1, <3>1, <3>2, <3>3, NextCountUnused
  <2>3. CASE SendUplink
    <3> DEFINE m == Protected(ue.ul, FALSE)
    <3>1. up' = Append(up, m) /\ phase = "secured" /\ sent.up < MaxUplink
        BY <1>1, <2>3, EncodeFields DEF SendUplink, Encode, IInv
    <3>2. m.count = ue.ul
        BY DEF Protected
    <3> HIDE DEF m
    <3>3. up'[Len(up')] = m
        BY <2>1, <3>1
    <3> QED
        BY <1>1, <3>1, <3>2, <3>3, NextCountUnused
  <2>4. CASE ReceiveUplink
    <3>1. up # <<>> /\ up' = Tail(up)
        BY <2>4 DEF ReceiveUplink
    <3>2. Len(up') <= Len(up)
        BY <2>1, <3>1
    <3> QED
        BY <2>1, <3>2
  <2>5. CASE NewRanUeContext
      BY <2>1, <2>5, QueueEmpty, EmptySeq DEF NewRanUeContext
  <2>6. CASE up' = up
      BY <2>1, <2>6
  <2> QED
      BY <1>1, <2>2, <2>3, <2>4, <2>5, <2>6
      DEF Next, Authenticate, DecodeDownlink, SkipDownlink, MoveToTarget,
          CommandSecurityMode, SendDownlink, Post
<1>2. ASSUME IInv, [Next]_vars
      PROVE  [Len(up') > Len(up) => <<ue.key, up'[Len(up')].count>> \notin used]_vars
    BY <1>1, <1>2
<1> QED
    BY <1>2, Invariance, PTL DEF Spec, UplinkCountFresh

=============================================================================
