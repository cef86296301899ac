------------------------ MODULE SubscriptionDataProofs ----------------------
(***************************************************************************)
(* Proofs about the subscription data, for any number of workers, UEs and  *)
(* tests in a row, and whatever documents the database holds at first.     *)
(***************************************************************************)
EXTENDS SubscriptionData, SequenceTheorems, TLAPS

Fields == {"sequenceNumber", "encPermanentKey", "encOpcKey"}

\* A document in the core's structure with what the test set holds, whatever
\* other fields it has.
InCore(doc) ==
    /\ Fields \subseteq DOMAIN doc
    /\ doc["sequenceNumber"] = Value("sqn", 0)
    /\ doc["encPermanentKey"] = "K"
    /\ doc["encOpcKey"] = "OPC"

-----------------------------------------------------------------------------
(* The conversions                                                          *)

\* What is inserted (InsertAuthSubscriptionToMongoDB).
LEMMA ToCoreInCore ==
    LET doc == ToCore(GetAuthSubscription)
    IN  DOMAIN doc = Fields /\ InCore(doc)
<1> DEFINE bson == toBsonM(GetAuthSubscription)
           sqn  == Reformed(bson, "sequenceNumber", {"text"}, "sqn")
           key  == Renamed(sqn, "permanentKey", "encPermanentKey")
<1>1. bson = [sequenceNumber |-> [form |-> "text", of |-> 0], permanentKey |-> "K", opc |-> "OPC"]
    BY DEF toBsonM, GetAuthSubscription, Text, Value
<1>2. /\ DOMAIN sqn = {"sequenceNumber", "permanentKey", "opc"}
      /\ sqn["sequenceNumber"] = Value("sqn", 0) /\ sqn["permanentKey"] = "K" /\ sqn["opc"] = "OPC"
    BY <1>1 DEF Reformed, Value
<1> HIDE DEF sqn
<1>3. /\ DOMAIN key = {"sequenceNumber", "encPermanentKey", "opc"}
      /\ key["sequenceNumber"] = Value("sqn", 0) /\ key["encPermanentKey"] = "K" /\ key["opc"] = "OPC"
    BY <1>2 DEF Renamed
<1> HIDE DEF key
<1>4. ToCore(GetAuthSubscription) = Renamed(key, "opc", "encOpcKey")
    BY DEF ToCore, key, sqn
<1> QED
    BY <1>3, <1>4 DEF InCore, Fields, Renamed

\* An update leaves nothing of an earlier document in the fields that matter.
LEMMA InsertedInCore ==
    ASSUME NEW old
    PROVE  InCore(Merged(ToCore(GetAuthSubscription), old))
    BY ToCoreInCore DEF InCore, Merged, Fields

\* What is read back of such a document (GetAuthSubscriptionFromMongoDB).
LEMMA FromCoreReadsBack ==
    ASSUME NEW doc, InCore(doc)
    PROVE  FromCore(doc) = GetAuthSubscription
<1> DEFINE sqn == Reformed(doc, "sequenceNumber", {"sqn", "number"}, "text")
           key == Renamed(sqn, "encPermanentKey", "permanentKey")
           old == Renamed(key, "encOpcKey", "opc")
<1>1. /\ Fields \subseteq DOMAIN sqn
      /\ sqn["sequenceNumber"].of = 0
      /\ sqn["encPermanentKey"] = "K" /\ sqn["encOpcKey"] = "OPC"
    BY DEF InCore, Reformed, Value, Fields
<1> HIDE DEF sqn
<1>2. /\ {"sequenceNumber", "permanentKey", "encOpcKey"} \subseteq DOMAIN key
      /\ key["sequenceNumber"].of = 0 /\ key["permanentKey"] = "K" /\ key["encOpcKey"] = "OPC"
  <2>1. /\ DOMAIN key = (DOMAIN sqn \ {"encPermanentKey"}) \cup {"permanentKey"}
        /\ key["permanentKey"] = sqn["encPermanentKey"]
        /\ \A f \in DOMAIN sqn \ {"encPermanentKey", "permanentKey"} : key[f] = sqn[f]
      BY <1>1 DEF Fields, Renamed
  <2> QED
      BY <1>1, <2>1 DEF Fields
<1> HIDE DEF key
<1>3. old["sequenceNumber"].of = 0 /\ old["permanentKey"] = "K" /\ old["opc"] = "OPC"
  <2>1. /\ old["opc"] = key["encOpcKey"]
        /\ \A f \in DOMAIN key \ {"encOpcKey", "opc"} : old[f] = key[f]
      BY <1>2 DEF Renamed
  <2> QED
      BY <1>2, <2>1
<1>4. FromCore(doc) = [SequenceNumber |-> old.sequenceNumber.of,
                       PermanentKey |-> old.permanentKey, Opc |-> old.opc]
    BY DEF FromCore, old, key, sqn
<1> QED
    BY <1>3, <1>4 DEF GetAuthSubscription

-----------------------------------------------------------------------------
(* The procedures: insertions and reads, the registration, deletions        *)

AllTests == {"TestRegistration", "TestN2Handover", "TestMultiN2Handover", "TestPaging",
             "TestMultiRegistrationConcurrent", "TestMultiN2HandoverConcurrent",
             "TestMultiPagingConcurrent", "TestNon3GPPUE", "XioTester"}
Collections == {"auth", "amData", "smfSel", "smData", "amPolicy", "smPolicy"}
Steps == {"put", "get", "register", "del"} \X Collections

\* Step n of script s is the registration, with all there is to insert before
\* it and nothing but deletions, of three collections, after it.
Shape(s, n) ==
    /\ s \in Seq(Steps)
    /\ n \in 2..Len(s)
    /\ s[1] = Put("auth")
    /\ s[n] = Register
    /\ \A i \in 1..n - 1 : s[i][1] \in {"put", "get"}
    /\ \A i \in n + 1..Len(s) : s[i][1] = "del"
    /\ \A c \in Collections : \E i \in 1..n - 1 : s[i] = Put(c)
    /\ Len(s) > n => \A c \in {"auth", "amData", "smfSel"} : \E i \in 1..Len(s) : s[i] = Del(c)

\* What precedes the registration.
PutOrGet  == {"put", "get"} \X Collections
Prepares(s) ==
    /\ s \in Seq(PutOrGet) /\ Len(s) > 0
    /\ s[1] = Put("auth")
    /\ \A c \in Collections : \E i \in 1..Len(s) : s[i] = Put(c)

LEMMA ShapeOfConcatenation ==
    ASSUME NEW s, Prepares(s), NEW d \in Seq({Del(c) : c \in Collections}),
           Len(d) > 0 => \A c \in {"auth", "amData", "smfSel"} : \E i \in 1..Len(d) : d[i] = Del(c)
    PROVE  Shape(s \o << Register >> \o d, Len(s) + 1)
<1> DEFINE t == s \o << Register >> \o d
           n == Len(s) + 1
<1>1. Register \in Steps /\ s \in Seq(Steps) /\ d \in Seq(Steps)
  <2>1. Register \in Steps
      BY DEF Steps, Register, Collections
  <2>2. PutOrGet \subseteq Steps
      BY DEF PutOrGet, Steps
  <2>3. s \in Seq(Steps)
      BY <2>2, SeqMonotonic DEF Prepares
  <2>4. {Del(c) : c \in Collections} \subseteq Steps
      BY DEF Del, Steps
  <2>5. d \in Seq(Steps)
      BY <2>4, SeqMonotonic
  <2> QED
      BY <2>1, <2>3, <2>5
<1>2. t \in Seq(Steps) /\ Len(t) = n + Len(d) /\ Len(s) \in Nat /\ Len(d) \in Nat
    BY <1>1
<1>3. /\ \A i \in 1..Len(s) : t[i] = s[i]
      /\ t[n] = Register
      /\ \A i \in n + 1..Len(t) : t[i] = d[i - n] /\ i - n \in 1..Len(d)
      /\ \A i \in 1..Len(d) : t[n + i] = d[i] /\ n + i \in 1..Len(t)
    BY <1>1, <1>2
<1> HIDE DEF t
<1>4. \A i \in 1..n - 1 : t[i][1] \in {"put", "get"}
  <2> SUFFICES ASSUME NEW i \in 1..n - 1 PROVE t[i][1] \in {"put", "get"}
      OBVIOUS
  <2>1. i \in 1..Len(s) /\ s[i] \in PutOrGet
      BY <1>2 DEF Prepares
  <2> QED
      BY <1>3, <2>1 DEF PutOrGet
<1>5. \A i \in n + 1..Len(t) : t[i][1] = "del"
  <2> SUFFICES ASSUME NEW i \in n + 1..Len(t) PROVE t[i][1] = "del"
      OBVIOUS
  <2>1. t[i] = d[i - n] /\ i - n \in 1..Len(d)
      BY <1>3
  <2>2. PICK c \in Collections : d[i - n] = Del(c)
      BY <2>1
  <2>3. Del(c)[1] = "del"
      BY DEF Del
  <2> QED
      BY <2>1, <2>2, <2>3
<1>6. \A c \in Collections : \E i \in 1..n - 1 : t[i] = Put(c)
    BY <1>2, <1>3 DEF Prepares
<1>7. Len(t) > n => \A c \in {"auth", "amData", "smfSel"} : \E i \in 1..Len(t) : t[i] = Del(c)
  <2> SUFFICES ASSUME Len(t) > n, NEW c \in {"auth", "amData", "smfSel"}
               PROVE  \E i \in 1..Len(t) : t[i] = Del(c)
      OBVIOUS
  <2>1. PICK i \in 1..Len(d) : d[i] = Del(c)
      BY <1>2
  <2> QED
      BY <1>3, <2>1
<1>8. n \in 2..Len(t) /\ t[1] = Put("auth")
    BY <1>2, <1>3 DEF Prepares
<1> QED
    BY <1>2, <1>3, <1>4, <1>5, <1>6, <1>7, <1>8 DEF Shape, t

LEMMA PreparesInserted == Prepares(Inserted)
    BY DEF Prepares, PutOrGet, Inserted, All, Put, Collections

LEMMA InsertedAndReadPutOrGet ==
    ASSUME NEW cs \in Seq(Collections)
    PROVE  InsertedAndRead(cs) \in Seq(PutOrGet)
<1>1. Len(cs) \in Nat
    OBVIOUS
<1>2. ASSUME NEW i \in 1..2 * Len(cs)
      PROVE  (IF i % 2 = 1 THEN Put(cs[(i + 1) \div 2]) ELSE Get(cs[i \div 2])) \in PutOrGet
  <2>1. i % 2 = 1 => (i + 1) \div 2 \in 1..Len(cs)
      BY <1>1, <1>2
  <2>2. i % 2 # 1 => i \div 2 \in 1..Len(cs)
      BY <1>1, <1>2
  <2> QED
      BY <2>1, <2>2 DEF Put, Get, PutOrGet
<1> QED
    BY <1>1, <1>2 DEF InsertedAndRead

LEMMA PreparesProvisioned == Prepares(Provisioned)
<1>1. Provisioned = << Put("auth"), Get("auth"), Put("amData"), Get("amData"),
                       Put("smfSel"), Get("smfSel"), Put("smData"), Get("smData"),
                       Put("amPolicy"), Get("amPolicy"), Put("smPolicy"), Get("smPolicy") >>
    BY DEF Provisioned, InsertedAndRead, All, Put, Get
<1> QED
    BY <1>1 DEF Prepares, PutOrGet, Put, Get, Collections

LEMMA PreparesProvisionedTwice == Prepares(ProvisionedTwice)
<1> DEFINE again == << Get("auth") >> \o InsertedAndRead(All)
<1>1. All \in Seq(Collections)
    BY DEF All, Collections
<1>2. again \in Seq(PutOrGet)
    BY <1>1, InsertedAndReadPutOrGet DEF Get, PutOrGet, Collections
<1>3. ProvisionedTwice = Inserted \o again
  <2>1. Inserted \in Seq(PutOrGet) /\ << Get("auth") >> \in Seq(PutOrGet)
      BY PreparesInserted DEF Prepares, Get, PutOrGet, Collections
  <2>2. InsertedAndRead(All) \in Seq(PutOrGet)
      BY <1>1, InsertedAndReadPutOrGet
  <2> QED
      BY <2>1, <2>2, ConcatAssociative DEF ProvisionedTwice
<1> QED
    BY <1>2, <1>3, PreparesInserted DEF Prepares

LEMMA ShapeOfScripts ==
    /\ Shape(SingleRegistration, Len(Provisioned) + 1)
    /\ Shape(TestRegistration, Len(Provisioned) + 1)
    /\ Shape(TestN2Handover, Len(ProvisionedTwice) + 1)
    /\ Shape(SingleN2Handover, Len(ProvisionedTwice) + 1)
    /\ Shape(XioTester, Len(Inserted) + 1)
<1> DEFINE D == {Del(c) : c \in Collections}
           Enough(d) == \A c \in {"auth", "amData", "smfSel"} : \E i \in 1..Len(d) : d[i] = Del(c)
<1>1. Deleted \in Seq(D) /\ Len(Deleted) = 3 /\ Enough(Deleted)
    BY DEF Deleted, Collections, Del
<1>2. Deleted \o Deleted \in Seq(D) /\ Enough(Deleted \o Deleted)
  <2>1. ASSUME NEW S, NEW d \in Seq(S)
        PROVE  /\ d \o d \in Seq(S) /\ 1..Len(d) \subseteq 1..Len(d \o d)
               /\ \A i \in 1..Len(d) : (d \o d)[i] = d[i]
      BY <2>1
  <2> QED
      BY <1>1, <2>1
<1>3. << >> \in Seq(D) /\ ~(Len(<< >>) > 0)
    OBVIOUS
<1>4. ASSUME NEW s, Prepares(s)
      PROVE  /\ Shape(s \o << Register >>, Len(s) + 1)
             /\ Shape(s \o << Register >> \o Deleted, Len(s) + 1)
             /\ Shape(s \o << Register >> \o Deleted \o Deleted, Len(s) + 1)
  <2>1. ASSUME NEW d \in Seq(D), Len(d) > 0 => Enough(d)
        PROVE  Shape(s \o << Register >> \o d, Len(s) + 1)
      BY <1>4, <2>1, ShapeOfConcatenation
  <2>2. s \o << Register >> \in Seq(Steps) /\ Deleted \in Seq(Steps)
    <3>1. s \in Seq(Steps) /\ << Register >> \in Seq(Steps)
        BY <1>4 DEF Prepares, PutOrGet, Steps, Register, Collections
    <3>2. Deleted \in Seq(Steps)
        BY DEF Deleted, Steps, Del, Collections
    <3> QED
        BY <3>1, <3>2
  <2> HIDE DEF D, Enough
  <2>3. s \o << Register >> \o << >> = s \o << Register >>
      BY <2>2, ConcatEmptySeq
  <2>4. s \o << Register >> \o (Deleted \o Deleted) = s \o << Register >> \o Deleted \o Deleted
      BY <2>2, ConcatAssociative
  <2>5. Shape(s \o << Register >> \o << >>, Len(s) + 1)
      BY <1>3, <2>1
  <2> QED
      BY <1>1, <1>2, <2>1, <2>3, <2>4, <2>5
<1> QED
    BY <1>4, PreparesInserted, PreparesProvisioned, PreparesProvisionedTwice
       DEF SingleRegistration, TestRegistration, TestN2Handover, SingleN2Handover, XioTester

\* Where the procedure of test t registers its UE.
RegAt(t) == CHOOSE n \in Nat : Shape(Script(t), n)

LEMMA ShapeOfTest ==
    ASSUME NEW t \in AllTests
    PROVE  Shape(Script(t), RegAt(t))
<1>1. \E n \in Nat : Shape(Script(t), n)
    BY ShapeOfScripts DEF AllTests, Script
<1> QED
    BY <1>1 DEF RegAt

-----------------------------------------------------------------------------
(* The workers' UEs                                                         *)

Types ==
    /\ test \in AllTests
    /\ pc \in [Worker -> Nat \ {0}]
    /\ round \in [Worker -> Nat]
    /\ read = [w \in Worker |-> read[w]]
    /\ auth = [u \in Ue |-> auth[u]]
    /\ docs \in [Keys -> Nat]

\* Slices of equal length that start one after the other do not overlap.
LEMMA SlicesApart ==
    ASSUME NEW v \in Nat, NEW w \in Nat, NEW n \in Nat \ {0}, NEW i \in 1..n, NEW j \in 1..n, v < w
    PROVE  v * n + i - 1 < w * n + j - 1
<1>1. PICK k \in Nat : w = v + 1 + k
    <2>1. w = v + 1 + (w - v - 1) /\ w - v - 1 \in Nat
        OBVIOUS
    <2> QED
        BY <2>1
<1>2. w * n = v * n + n + k * n
    BY <1>1
<1>3. k * n \in Nat /\ v * n \in Nat
    OBVIOUS
<1> QED
    BY <1>2, <1>3

LEMMA UeInSlice ==
    ASSUME Types, NEW w \in Worker, Working(w), test \in Batch
    PROVE  /\ Load \in Nat \ {0}
           /\ \E i \in 1..Load : UeOf(w) = w * Load + i - 1
<1>1. Load \in Nat \ {0}
    BY SizeAssumption DEF Load
<1>2. Handles(w) = Slice(w) /\ Len(Slice(w)) = Load
    BY <1>1 DEF Handles, Slice
<1>3. round[w] \in Nat /\ round[w] < Load
    BY <1>2 DEF Working, Types
<1>4. round[w] + 1 \in 1..Load
    BY <1>1, <1>3
<1>5. UeOf(w) = w * Load + (round[w] + 1) - 1
    BY <1>2, <1>4 DEF UeOf, Slice
<1> QED
    BY <1>1, <1>4, <1>5

LEMMA UeOfWorker ==
    ASSUME Types, NEW w \in Worker, Working(w)
    PROVE  UeOf(w) \in Ue
<1> USE SizeAssumption
<1>1. ThreadAmount * WorkLoad \in Nat \ {0} /\ w \in Nat /\ w <= ThreadAmount - 1
    BY DEF Worker
<1>2. CASE test \in Batch
  <2>1. Load \in Nat \ {0} /\ Load <= WorkLoad
      BY DEF Load
  <2>2. PICK i \in 1..Load : UeOf(w) = w * Load + i - 1
      BY <1>2, UeInSlice
  <2>3. w * Load + i - 1 \in Nat
      BY <1>1, <2>1
  <2>4. w * Load + i - 1 < ThreadAmount * Load + 1 - 1
      BY <1>1, <2>1, SlicesApart
  <2>5. ThreadAmount * Load <= ThreadAmount * WorkLoad
    <3>1. PICK k \in Nat : WorkLoad = Load + k
      <4>1. WorkLoad = Load + (WorkLoad - Load) /\ WorkLoad - Load \in Nat
          BY <2>1
      <4> QED
          BY <4>1
    <3>2. ThreadAmount * WorkLoad = ThreadAmount * Load + ThreadAmount * k /\ ThreadAmount * k \in Nat
        BY <3>1, <2>1
    <3> QED
        BY <3>2, <2>1
  <2> QED
      BY <1>1, <2>1, <2>2, <2>3, <2>4, <2>5 DEF Ue
<1>3. CASE test \notin Batch
    BY <1>1, <1>3 DEF Working, UeOf, Handles, Single, Ue, Types
<1> QED
    BY <1>2, <1>3

LEMMA UesApart ==
    ASSUME Types, NEW v \in Worker, NEW w \in Worker, v # w, Working(v), Working(w)
    PROVE  UeOf(v) # UeOf(w)
<1>1. test \in Batch
    BY DEF Working, Handles, Types
<1>2. Load \in Nat \ {0}
    BY <1>1, UeInSlice
<1>3. PICK i \in 1..Load : UeOf(v) = v * Load + i - 1
    BY <1>1, UeInSlice
<1>4. PICK j \in 1..Load : UeOf(w) = w * Load + j - 1
    BY <1>1, UeInSlice
<1>5. v \in Nat /\ w \in Nat
    BY DEF Worker
<1>6. v < w => v * Load + i - 1 < w * Load + j - 1
    BY <1>2, <1>5, SlicesApart
<1>7. w < v => w * Load + j - 1 < v * Load + i - 1
    BY <1>2, <1>5, SlicesApart
<1>8. v * Load \in Nat /\ w * Load \in Nat
    BY <1>2, <1>5
<1> QED
    BY <1>2, <1>3, <1>4, <1>5, <1>6, <1>7, <1>8

-----------------------------------------------------------------------------
(* One UE's data along a procedure                                          *)

Others == Collections \ {"auth"}

\* Before step p of script s, whose registration is step n, the UE has
\* authentication document doc and count[c] documents in collection c, and
\* the worker's last read is r.
Placed(s, n, p, doc, count, r) ==
    /\ p \in 1..Len(s) + 1
    /\ count \in [Others -> Nat]
    /\ p \in 2..n => InCore(doc)
    /\ p \in 2..n + 1 => Fields \subseteq DOMAIN doc
    /\ \A c \in Others : p <= n + 1 /\ (\E i \in 1..p - 1 : s[i] = Put(c)) => count[c] > 0
    /\ \A c \in Others : (\E i \in 1..p - 1 : s[i] = Del(c)) => count[c] = 0
    /\ (\E i \in 1..p - 1 : s[i] = Del("auth")) => doc = NoDocument
    /\ (\E i \in 1..p - 1 : s[i] = Get("auth")) => r = << GetAuthSubscription >>

LEMMA PlacedAtFirst ==
    ASSUME NEW s, NEW n, Shape(s, n), NEW doc, NEW count \in [Others -> Nat], NEW r
    PROVE  Placed(s, n, 1, doc, count, r)
<1>1. Len(s) \in Nat /\ n \in 2..Len(s)
    BY DEF Shape
<1> QED
    BY <1>1 DEF Placed

\* Where the kinds of steps are.
LEMMA KindsOfSteps ==
    ASSUME NEW s, NEW n, Shape(s, n), NEW p \in 1..Len(s)
    PROVE  /\ n \in Nat /\ Len(s) \in Nat
           /\ s[p] \in Steps
           /\ s[p][1] \in {"put", "get"} <=> p < n
           /\ s[p][1] = "register" <=> p = n
           /\ s[p][1] = "del" <=> p > n
<1>1. n \in Nat /\ Len(s) \in Nat /\ s[p] \in Steps /\ p \in Nat
    BY DEF Shape
<1>2. p < n => s[p][1] \in {"put", "get"}
    BY <1>1 DEF Shape
<1>3. p = n => s[p][1] = "register"
    BY DEF Shape, Register
<1>4. p > n => s[p][1] = "del"
    BY <1>1 DEF Shape
<1> QED
    BY <1>1, <1>2, <1>3, <1>4

LEMMA StepOfProcedure ==
    ASSUME NEW s, NEW n, Shape(s, n), NEW p \in 1..Len(s),
           NEW doc, NEW count, NEW r, Placed(s, n, p, doc, count, r),
           NEW doc2, NEW count2 \in [Others -> Nat], NEW r2,
           s[p] = Put("auth") => InCore(doc2),
           s[p] = Register => Fields \subseteq DOMAIN doc2,
           s[p] = Del("auth") => doc2 = NoDocument,
           s[p] \notin {Put("auth"), Register, Del("auth")} => doc2 = doc,
           s[p] = Get("auth") => r2 = IF doc = NoDocument THEN <<>> ELSE << FromCore(doc) >>,
           s[p] # Get("auth") => r2 = r,
           \A c \in Others :
               /\ s[p] = Put(c) => count2[c] > 0
               /\ s[p] = Del(c) => count2[c] = 0
               /\ s[p] \notin {Put(c), Del(c)} => count2[c] = count[c]
    PROVE  Placed(s, n, p + 1, doc2, count2, r2)
<1>1. /\ n \in Nat /\ Len(s) \in Nat /\ p \in Nat
      /\ s[p] \in Steps
      /\ s[p][1] \in {"put", "get"} <=> p < n
      /\ s[p][1] = "register" <=> p = n
      /\ s[p][1] = "del" <=> p > n
    BY KindsOfSteps
<1>2. p + 1 \in 1..Len(s) + 1
    BY <1>1
<1>3. p + 1 \in 2..n => InCore(doc2)
  <2>1. CASE s[p] = Put("auth")
      BY <2>1
  <2>2. CASE p + 1 \in 2..n /\ s[p] # Put("auth")
    <3>1. p # 1
        BY <2>2 DEF Shape
    <3>2. InCore(doc)
        BY <1>1, <2>2, <3>1 DEF Placed
    <3>3. doc2 = doc
        BY <1>1, <2>2 DEF Register, Del
    <3> QED
        BY <3>2, <3>3
  <2> QED
      BY <2>1, <2>2
<1>4. p + 1 \in 2..n + 1 => Fields \subseteq DOMAIN doc2
  <2>1. CASE p = n
      BY <2>1 DEF Shape
  <2>2. CASE p # n
      BY <1>1, <1>3, <2>2 DEF InCore
  <2> QED
      BY <2>1, <2>2
<1>5. ASSUME NEW c \in Others, p + 1 <= n + 1, NEW i \in 1..p, s[i] = Put(c)
      PROVE  count2[c] > 0
  <2>1. CASE i = p
      BY <1>5, <2>1
  <2>2. CASE i # p
    <3>1. count[c] > 0
        BY <1>1, <1>5, <2>2 DEF Placed
    <3>2. s[p] # Del(c)
        BY <1>1, <1>5 DEF Del
    <3> QED
        BY <3>1, <3>2
  <2> QED
      BY <2>1, <2>2
<1>6. ASSUME NEW c \in Others, NEW i \in 1..p, s[i] = Del(c)
      PROVE  count2[c] = 0
  <2>1. CASE i = p
      BY <1>6, <2>1
  <2>2. CASE i # p
    <3>1. count[c] = 0
        BY <1>1, <1>6, <2>2 DEF Placed
    <3>2. s[i][1] = "del" /\ i \in 1..Len(s)
        BY <1>1, <1>6 DEF Del
    <3>3. i > n
        BY <3>2, KindsOfSteps
    <3>4. s[p] # Put(c)
        BY <1>1, <3>3 DEF Put
    <3> QED
        BY <3>1, <3>4
  <2> QED
      BY <2>1, <2>2
<1>7. ASSUME NEW i \in 1..p, s[i] = Del("auth")
      PROVE  doc2 = NoDocument
  <2>1. CASE i = p
      BY <1>7, <2>1
  <2>2. CASE i # p
    <3>1. doc = NoDocument
        BY <1>1, <1>7, <2>2 DEF Placed
    <3>2. s[i][1] = "del" /\ i \in 1..Len(s)
        BY <1>1, <1>7 DEF Del
    <3>3. i > n
        BY <3>2, KindsOfSteps
    <3>4. s[p] # Put("auth") /\ s[p] # Register
        BY <1>1, <3>3 DEF Put, Register
    <3> QED
        BY <3>1, <3>4
  <2> QED
      BY <2>1, <2>2
<1>8. ASSUME NEW i \in 1..p, s[i] = Get("auth")
      PROVE  r2 = << GetAuthSubscription >>
  <2>1. CASE s[p] = Get("auth")
    <3>1. p \in 2..n
        BY <1>1, <2>1 DEF Shape, Get, Put
    <3>2. InCore(doc)
        BY <3>1 DEF Placed
    <3>3. doc # NoDocument
        BY <3>2 DEF InCore, Fields, NoDocument
    <3> QED
        BY <2>1, <3>2, <3>3, FromCoreReadsBack
  <2>2. CASE s[p] # Get("auth")
    <3>1. r2 = r /\ i # p
        BY <1>8, <2>2
    <3>2. i \in 1..p - 1
        BY <1>1, <3>1
    <3>3. r = << GetAuthSubscription >>
        BY <1>8, <3>2 DEF Placed
    <3> QED
        BY <3>1, <3>3
  <2> QED
      BY <2>1, <2>2
<1> QED
    BY <1>1, <1>2, <1>3, <1>4, <1>5, <1>6, <1>7, <1>8 DEF Placed

-----------------------------------------------------------------------------
(* The invariant                                                            *)

Count(w) == [c \in Others |-> docs[Key(c, UeOf(w), PlmnOf(test))]]

PlacedAt(w) ==
    Working(w) =>
        Placed(Script(test), RegAt(test), pc[w], auth[UeOf(w)], Count(w), read[w])

IInv ==
    /\ Types
    /\ \A w \in Worker : PlacedAt(w)

LEMMA KeysOfUe ==
    ASSUME Types, NEW w \in Worker, Working(w)
    PROVE  /\ \A c \in Others : Key(c, UeOf(w), PlmnOf(test)) \in Keys
           /\ Count(w) \in [Others -> Nat]
<1>1. \A c \in Others : Key(c, UeOf(w), PlmnOf(test)) \in Keys
    BY UeOfWorker DEF Keys, Others, Collections, ByUe, ByPlmn, Plmn, PlmnOf
<1> QED
    BY <1>1 DEF Count, Types

CountsTyped == Types => \A w \in Worker : Working(w) => Count(w) \in [Others -> Nat]
LEMMA CountsOfUes == CountsTyped
    BY KeysOfUe DEF CountsTyped

\* Another document has another key.
LEMMA KeysApart ==
    ASSUME NEW c \in Others, NEW d \in Others, NEW u, NEW v, NEW plmn,
           Key(c, u, plmn) = Key(d, v, plmn)
    PROVE  c = d /\ u = v
    BY DEF Key, Others, Collections, ByUe, ByPlmn

\* The step at hand is one of the script, and says what is done by its parts.
LEMMA StepOfWorker ==
    ASSUME Types, NEW w \in Worker, Working(w), pc[w] <= Len(Script(test))
    PROVE  /\ Shape(Script(test), RegAt(test))
           /\ pc[w] \in 1..Len(Script(test))
           /\ Step(w) = Script(test)[pc[w]]
           /\ Step(w) \in Steps
           /\ Step(w)[1] = "put" => Step(w) = Put(Step(w)[2])
           /\ Step(w)[1] = "get" => Step(w) = Get(Step(w)[2])
           /\ Step(w)[1] = "del" => Step(w) = Del(Step(w)[2])
           /\ Step(w)[1] = "register" => Step(w) = Register
           /\ Step(w)[2] \in Collections
<1>1. Shape(Script(test), RegAt(test))
    BY ShapeOfTest DEF Types
<1>2. Len(Script(test)) \in Nat /\ pc[w] \in 1..Len(Script(test))
    BY <1>1 DEF Shape, Types
<1>3. Step(w) = Script(test)[pc[w]] /\ Step(w) \in Steps
    BY <1>1, <1>2 DEF Step, Shape
<1>4. /\ Step(w)[1] = "put" => Step(w) = Put(Step(w)[2])
      /\ Step(w)[1] = "get" => Step(w) = Get(Step(w)[2])
      /\ Step(w)[1] = "del" => Step(w) = Del(Step(w)[2])
      /\ Step(w)[2] \in Collections
    BY <1>3 DEF Steps, Put, Get, Del
<1>5. Step(w)[1] = "register" => Step(w) = Register
  <2>1. Step(w)[1] = "register" => pc[w] = RegAt(test)
      BY <1>1, <1>2, <1>3, KindsOfSteps
  <2> QED
      BY <1>1, <1>3, <2>1 DEF Shape
<1> QED
    BY <1>1, <1>2, <1>3, <1>4, <1>5

\* Neither the test nor the worker's round changes.
LEMMA SameUe ==
    ASSUME NEW w \in Worker, test' = test, round' = round
    PROVE  (Working(w)' <=> Working(w)) /\ UeOf(w)' = UeOf(w)
    BY DEF Working, UeOf, Handles, Slice, Load

\* Worker w takes a step of its procedure that touches no document but its
\* UE's authentication document and those of its UE in collection c.
LEMMA StepKeepsPlaces ==
    ASSUME IInv, NEW w \in Worker, Working(w), pc[w] <= Len(Script(test)),
           test' = test, round' = round,
           pc' = [pc EXCEPT ![w] = pc[w] + 1],
           NEW doc2, auth' = [auth EXCEPT ![UeOf(w)] = doc2],
           NEW c \in Others, NEW m \in Nat,
           docs' = [docs EXCEPT ![Key(c, UeOf(w), PlmnOf(test))] = m],
           NEW r2, read' = [read EXCEPT ![w] = r2],
           Placed(Script(test), RegAt(test), pc[w] + 1, doc2, [Count(w) EXCEPT ![c] = m], r2)
    PROVE  IInv'
<1>1. Types'
  <2>1. pc[w] + 1 \in Nat \ {0}
      BY DEF IInv, Types
  <2> QED
      BY <2>1 DEF IInv, Types
<1>2. PlacedAt(w)'
  <2>1. UeOf(w)' = UeOf(w)
      BY SameUe
  <2>2. auth'[UeOf(w)] = doc2 /\ pc'[w] = pc[w] + 1 /\ read'[w] = r2
      BY UeOfWorker DEF IInv, Types
  <2>3. Count(w)' = [Count(w) EXCEPT ![c] = m]
    <3>1. \A d \in Others : docs'[Key(d, UeOf(w), PlmnOf(test))]
                            = IF d = c THEN m ELSE docs[Key(d, UeOf(w), PlmnOf(test))]
        BY KeysOfUe, KeysApart DEF IInv, Types
    <3> QED
        BY <2>1, <3>1 DEF Count
  <2> QED
      BY <2>1, <2>2, <2>3 DEF PlacedAt
<1>3. ASSUME NEW v \in Worker, v # w
      PROVE  PlacedAt(v)'
  <2> SUFFICES ASSUME Working(v)' PROVE PlacedAt(v)'
      BY DEF PlacedAt
  <2>1. Working(v) /\ UeOf(v)' = UeOf(v)
      BY SameUe
  <2>2. UeOf(v) # UeOf(w) /\ UeOf(v) \in Ue
      BY <1>3, <2>1, UesApart, UeOfWorker DEF IInv
  <2>3. auth'[UeOf(v)] = auth[UeOf(v)] /\ pc'[v] = pc[v] /\ read'[v] = read[v]
      BY <1>3, <2>2 DEF IInv, Types
  <2>4. Count(v)' = Count(v)
    <3>1. \A d \in Others : docs'[Key(d, UeOf(v), PlmnOf(test))] = docs[Key(d, UeOf(v), PlmnOf(test))]
        BY <2>1, <2>2, KeysOfUe, KeysApart DEF IInv, Types
    <3> QED
        BY <2>1, <3>1 DEF Count
  <2> QED
      BY <2>1, <2>3, <2>4 DEF PlacedAt, IInv
<1> QED
    BY <1>1, <1>2, <1>3 DEF IInv

\* A step of a procedure, by what it does to one document of its UE, or to none.
LEMMA StepOnAuth ==
    ASSUME IInv, NEW w \in Worker, Working(w), pc[w] <= Len(Script(test)), GoOn(w),
           UNCHANGED docs,
           NEW doc2, auth' = [auth EXCEPT ![UeOf(w)] = doc2],
           NEW r2, read' = [read EXCEPT ![w] = r2],
           \A c \in Others : Step(w) \notin {Put(c), Del(c)},
           Step(w) = Put("auth") => InCore(doc2),
           Step(w) = Register => Fields \subseteq DOMAIN doc2,
           Step(w) = Del("auth") => doc2 = NoDocument,
           Step(w) \notin {Put("auth"), Register, Del("auth")} => doc2 = auth[UeOf(w)],
           Step(w) = Get("auth") =>
               r2 = IF auth[UeOf(w)] = NoDocument THEN <<>> ELSE << FromCore(auth[UeOf(w)]) >>,
           Step(w) # Get("auth") => r2 = read[w]
    PROVE  IInv'
<1> DEFINE k == Key("amData", UeOf(w), PlmnOf(test))
<1>1. /\ Shape(Script(test), RegAt(test))
      /\ pc[w] \in 1..Len(Script(test))
      /\ Step(w) = Script(test)[pc[w]]
    BY StepOfWorker DEF IInv
<1>2. Count(w) \in [Others -> Nat] /\ k \in Keys /\ "amData" \in Others
    BY KeysOfUe DEF IInv, Others, Collections
<1>3. docs[k] \in Nat /\ docs' = [docs EXCEPT ![k] = docs[k]]
    BY <1>2 DEF IInv, Types
<1>4. [Count(w) EXCEPT !["amData"] = docs[k]] = Count(w)
    BY <1>2 DEF Count
<1>5. Placed(Script(test), RegAt(test), pc[w] + 1, doc2, Count(w), r2)
  <2>1. Placed(Script(test), RegAt(test), pc[w], auth[UeOf(w)], Count(w), read[w])
      BY DEF IInv, PlacedAt
  <2> QED
      BY <1>1, <1>2, <2>1, StepOfProcedure
<1>6. Placed(Script(test), RegAt(test), pc[w] + 1, doc2,
             [Count(w) EXCEPT !["amData"] = docs[k]], r2)
    BY <1>4, <1>5
<1>7. test' = test /\ round' = round /\ pc' = [pc EXCEPT ![w] = pc[w] + 1]
    BY DEF GoOn
<1> QED
    BY <1>2, <1>3, <1>6, <1>7, StepKeepsPlaces

LEMMA StepOnData ==
    ASSUME IInv, NEW w \in Worker, Working(w), pc[w] <= Len(Script(test)), GoOn(w),
           UNCHANGED <<auth, read>>,
           NEW c \in Others, Step(w) \in {Put(c), Del(c)},
           NEW m \in Nat, docs' = [docs EXCEPT ![Key(c, UeOf(w), PlmnOf(test))] = m],
           Step(w) = Put(c) => m > 0,
           Step(w) = Del(c) => m = 0
    PROVE  IInv'
<1>1. /\ Shape(Script(test), RegAt(test))
      /\ pc[w] \in 1..Len(Script(test))
      /\ Step(w) = Script(test)[pc[w]]
    BY StepOfWorker DEF IInv
<1>2. Count(w) \in [Others -> Nat] /\ [Count(w) EXCEPT ![c] = m] \in [Others -> Nat]
    BY KeysOfUe DEF IInv
<1>3. /\ Step(w) # Put("auth") /\ Step(w) # Del("auth")
      /\ Step(w) # Get("auth") /\ Step(w) # Register
      /\ \A d \in Others : d # c => Step(w) \notin {Put(d), Del(d)}
    BY DEF Put, Get, Del, Register, Others
<1>4. Placed(Script(test), RegAt(test), pc[w] + 1, auth[UeOf(w)], [Count(w) EXCEPT ![c] = m], read[w])
  <2>1. Placed(Script(test), RegAt(test), pc[w], auth[UeOf(w)], Count(w), read[w])
      BY DEF IInv, PlacedAt
  <2>2. \A d \in Others : [Count(w) EXCEPT ![c] = m][d] = IF d = c THEN m ELSE Count(w)[d]
      BY <1>2
  <2>3. Put(c) # Del(c)
      BY DEF Put, Del
  <2> DEFINE count2 == [Count(w) EXCEPT ![c] = m]
  <2> HIDE DEF count2
  <2>4. \A d \in Others :
            /\ Step(w) = Put(d) => count2[d] > 0
            /\ Step(w) = Del(d) => count2[d] = 0
            /\ Step(w) \notin {Put(d), Del(d)} => count2[d] = Count(w)[d]
      BY <1>3, <2>2, <2>3 DEF count2
  <2>5. count2 \in [Others -> Nat]
      BY <1>2 DEF count2
  <2>6. Placed(Script(test), RegAt(test), pc[w] + 1, auth[UeOf(w)], count2, read[w])
    <3> DEFINE s == Script(test)
               p == pc[w]
    <3>1. s[p] = Step(w) /\ Shape(s, RegAt(test)) /\ p \in 1..Len(s)
        BY <1>1
    <3> HIDE DEF s, p
    <3>2. Placed(s, RegAt(test), p, auth[UeOf(w)], Count(w), read[w])
        BY <2>1 DEF s, p
    <3>3. /\ s[p] # Put("auth") /\ s[p] # Del("auth") /\ s[p] # Get("auth") /\ s[p] # Register
          /\ \A d \in Others :
                 /\ s[p] = Put(d) => count2[d] > 0
                 /\ s[p] = Del(d) => count2[d] = 0
                 /\ s[p] \notin {Put(d), Del(d)} => count2[d] = Count(w)[d]
        BY <1>3, <2>4, <3>1
    <3>4. Placed(s, RegAt(test), p + 1, auth[UeOf(w)], count2, read[w])
        BY <2>5, <3>1, <3>2, <3>3, StepOfProcedure, Zenon
    <3> QED
        BY <3>4 DEF s, p
  <2> QED
      BY <2>6 DEF count2
<1>5. auth' = [auth EXCEPT ![UeOf(w)] = auth[UeOf(w)]] /\ read' = [read EXCEPT ![w] = read[w]]
    BY UeOfWorker DEF IInv, Types
<1> QED
    BY <1>4, <1>5, StepKeepsPlaces DEF GoOn

-----------------------------------------------------------------------------
(* The steps                                                                *)

LEMMA InitPlaces == Init => IInv
<1> SUFFICES ASSUME Init PROVE IInv
    OBVIOUS
<1>1. Types
    BY TestsAssumption DEF Init, Types, AllTests
<1>2. ASSUME NEW w \in Worker, Working(w) PROVE PlacedAt(w)
    BY <1>1, <1>2, ShapeOfTest, KeysOfUe, PlacedAtFirst DEF Init, PlacedAt, Types
<1> QED
    BY <1>1, <1>2 DEF IInv, PlacedAt

LEMMA InsertAuthKeeps ==
    ASSUME IInv, NEW w \in Worker, InsertAuthSubscriptionToMongoDB(w)
    PROVE  IInv'
<1> DEFINE doc2 == Merged(ToCore(GetAuthSubscription), auth[UeOf(w)])
<1>1. Working(w) /\ pc[w] <= Len(Script(test)) /\ Step(w)[1] = "put" /\ Step(w)[2] = "auth"
    BY DEF InsertAuthSubscriptionToMongoDB, Doing, OnAuth
<1>2. Step(w) = Put("auth")
    BY <1>1, StepOfWorker DEF IInv
<1>3. auth' = [auth EXCEPT ![UeOf(w)] = doc2] /\ GoOn(w) /\ UNCHANGED docs
    BY DEF InsertAuthSubscriptionToMongoDB
<1>4. read' = [read EXCEPT ![w] = read[w]]
    BY DEF InsertAuthSubscriptionToMongoDB, IInv, Types
<1>5. InCore(doc2)
    BY InsertedInCore
<1>6. /\ Step(w) # Register /\ Step(w) # Del("auth") /\ Step(w) # Get("auth")
      /\ \A c \in Others : Step(w) \notin {Put(c), Del(c)}
    BY <1>2 DEF Put, Get, Del, Register, Others
<1> HIDE DEF doc2
<1> QED
    BY <1>1, <1>2, <1>3, <1>4, <1>5, <1>6, StepOnAuth

LEMMA GetAuthKeeps ==
    ASSUME IInv, NEW w \in Worker, GetAuthSubscriptionFromMongoDB(w)
    PROVE  IInv'
<1> DEFINE r2 == IF auth[UeOf(w)] = NoDocument THEN <<>> ELSE << FromCore(auth[UeOf(w)]) >>
<1>1. Working(w) /\ pc[w] <= Len(Script(test)) /\ Step(w)[1] = "get" /\ Step(w)[2] = "auth"
    BY DEF GetAuthSubscriptionFromMongoDB, Doing, OnAuth
<1>2. Step(w) = Get("auth")
    BY <1>1, StepOfWorker DEF IInv
<1>3. read' = [read EXCEPT ![w] = r2] /\ GoOn(w) /\ UNCHANGED docs
    BY DEF GetAuthSubscriptionFromMongoDB, database
<1>4. auth' = [auth EXCEPT ![UeOf(w)] = auth[UeOf(w)]]
    BY <1>1, UeOfWorker DEF GetAuthSubscriptionFromMongoDB, database, IInv, Types
<1>5. /\ Step(w) # Register /\ Step(w) # Del("auth") /\ Step(w) # Put("auth")
      /\ \A c \in Others : Step(w) \notin {Put(c), Del(c)}
    BY <1>2 DEF Put, Get, Del, Register, Others
<1> QED
    BY <1>1, <1>2, <1>3, <1>4, <1>5, StepOnAuth

LEMMA DelAuthKeeps ==
    ASSUME IInv, NEW w \in Worker, DelAuthSubscriptionToMongoDB(w)
    PROVE  IInv'
<1>1. Working(w) /\ pc[w] <= Len(Script(test)) /\ Step(w)[1] = "del" /\ Step(w)[2] = "auth"
    BY DEF DelAuthSubscriptionToMongoDB, Doing, OnAuth
<1>2. Step(w) = Del("auth")
    BY <1>1, StepOfWorker DEF IInv
<1>3. auth' = [auth EXCEPT ![UeOf(w)] = NoDocument] /\ GoOn(w) /\ UNCHANGED docs
    BY DEF DelAuthSubscriptionToMongoDB
<1>4. read' = [read EXCEPT ![w] = read[w]]
    BY DEF DelAuthSubscriptionToMongoDB, IInv, Types
<1>5. /\ Step(w) # Register /\ Step(w) # Put("auth") /\ Step(w) # Get("auth")
      /\ \A c \in Others : Step(w) \notin {Put(c), Del(c)}
    BY <1>2 DEF Put, Get, Del, Register, Others
<1> QED
    BY <1>1, <1>2, <1>3, <1>4, <1>5, StepOnAuth

\* Counting the sequence number on takes no field away.
LEMMA AuthenticateKeeps ==
    ASSUME IInv, NEW w \in Worker, Authenticate(w)
    PROVE  IInv'
<1> DEFINE u    == UeOf(w)
           doc2 == [auth[u] EXCEPT !.sequenceNumber.of = 1]
<1>1. Working(w) /\ pc[w] <= Len(Script(test)) /\ Step(w)[1] = "register"
    BY DEF Authenticate, Doing
<1>2. Step(w) = Register
    BY <1>1, StepOfWorker DEF IInv
<1>3. auth' = [auth EXCEPT ![u] = doc2] /\ GoOn(w) /\ UNCHANGED docs
    BY DEF Authenticate
<1>4. read' = [read EXCEPT ![w] = read[w]]
    BY DEF Authenticate, IInv, Types
<1>5. Fields \subseteq DOMAIN doc2
  <2>1. /\ Shape(Script(test), RegAt(test)) /\ pc[w] \in 1..Len(Script(test))
        /\ Script(test)[pc[w]][1] = "register"
      BY <1>1, StepOfWorker DEF IInv
  <2>2. pc[w] = RegAt(test) /\ RegAt(test) \in Nat
      BY <2>1, KindsOfSteps
  <2>3. pc[w] \in 2..RegAt(test) + 1
      BY <2>1, <2>2 DEF Shape
  <2>4. Fields \subseteq DOMAIN auth[u]
      BY <1>1, <2>3 DEF IInv, PlacedAt, Placed
  <2> QED
      BY <2>4
<1>6. /\ Step(w) # Put("auth") /\ Step(w) # Del("auth") /\ Step(w) # Get("auth")
      /\ \A c \in Others : Step(w) \notin {Put(c), Del(c)}
    BY <1>2 DEF Put, Get, Del, Register, Others
<1> HIDE DEF doc2
<1> QED
    BY <1>1, <1>2, <1>3, <1>4, <1>5, <1>6, StepOnAuth

LEMMA InsertDataKeeps ==
    ASSUME IInv, NEW w \in Worker, InsertData(w)
    PROVE  IInv'
<1> DEFINE c == Step(w)[2]
           k == Key(c, UeOf(w), PlmnOf(test))
           m == IF c = "smData" THEN PostMany(docs[k]) ELSE PutOne(docs[k])
<1>1. Working(w) /\ pc[w] <= Len(Script(test)) /\ Step(w)[1] = "put" /\ c # "auth"
    BY DEF InsertData, Doing, OnAuth
<1>2. Step(w) = Put(c) /\ c \in Others
    BY <1>1, StepOfWorker DEF IInv, Others
<1>3. docs[k] \in Nat
    BY <1>1, <1>2, KeysOfUe DEF IInv, Types
<1>4. m \in Nat /\ m > 0
    BY <1>3, SizeAssumption DEF PostMany, PutOne
<1>5. docs' = [docs EXCEPT ![k] = m] /\ GoOn(w) /\ UNCHANGED <<auth, read>>
    BY DEF InsertData, KeyOf
<1>6. Step(w) # Del(c)
    BY <1>2 DEF Put, Del
<1> HIDE DEF c, m
<1> QED
    BY <1>1, <1>2, <1>4, <1>5, <1>6, StepOnData

LEMMA DelDataKeeps ==
    ASSUME IInv, NEW w \in Worker, DelData(w)
    PROVE  IInv'
<1> DEFINE c == Step(w)[2]
           k == Key(c, UeOf(w), PlmnOf(test))
<1>1. Working(w) /\ pc[w] <= Len(Script(test)) /\ Step(w)[1] = "del" /\ c # "auth"
    BY DEF DelData, Doing, OnAuth
<1>2. Step(w) = Del(c) /\ c \in Others
    BY <1>1, StepOfWorker DEF IInv, Others
<1>3. docs' = [docs EXCEPT ![k] = 0] /\ GoOn(w) /\ UNCHANGED <<auth, read>>
    BY DEF DelData, KeyOf, DeleteMany
<1>4. Step(w) # Put(c)
    BY <1>2 DEF Put, Del
<1> HIDE DEF c
<1> QED
    BY <1>1, <1>2, <1>3, <1>4, StepOnData

LEMMA GetDataKeeps ==
    ASSUME IInv, NEW w \in Worker, GetData(w)
    PROVE  IInv'
<1>1. Working(w) /\ pc[w] <= Len(Script(test)) /\ Step(w)[1] = "get" /\ Step(w)[2] # "auth"
    BY DEF GetData, Doing, OnAuth
<1>2. GoOn(w) /\ UNCHANGED docs
    BY DEF GetData
<1>3. /\ auth' = [auth EXCEPT ![UeOf(w)] = auth[UeOf(w)]]
      /\ read' = [read EXCEPT ![w] = read[w]]
    BY <1>1, UeOfWorker DEF GetData, IInv, Types
<1>4. /\ Step(w) # Register /\ Step(w) # Del("auth") /\ Step(w) # Put("auth")
      /\ Step(w) # Get("auth")
      /\ \A c \in Others : Step(w) \notin {Put(c), Del(c)}
    BY <1>1 DEF Put, Get, Del, Register, Others
<1> QED
    BY <1>1, <1>2, <1>3, <1>4, StepOnAuth

LEMMA NextUeKeeps ==
    ASSUME IInv, NEW w \in Worker, NextUe(w)
    PROVE  IInv'
<1>1. Types'
  <2>1. round[w] + 1 \in Nat
      BY DEF IInv, Types
  <2>2. auth' = auth /\ docs' = docs /\ test' = test
      BY DEF NextUe, database
  <2>3. pc' \in [Worker -> Nat \ {0}] /\ round' \in [Worker -> Nat]
      BY <2>1 DEF IInv, Types, NextUe
  <2>4. read' = [x \in Worker |-> read'[x]]
      BY DEF IInv, Types, NextUe
  <2> QED
      BY <2>2, <2>3, <2>4 DEF IInv, Types
<1>2. ASSUME NEW v \in Worker, Working(v)' PROVE PlacedAt(v)'
  <2>1. CASE v = w
    <3>1. Count(v)' \in [Others -> Nat]
      <4>1. CountsTyped'
          BY CountsOfUes, PTL
      <4> QED
          BY <1>1, <1>2, <4>1 DEF CountsTyped
    <3>2. pc'[v] = 1
        BY <2>1 DEF NextUe, IInv, Types
    <3>3. Shape(Script(test'), RegAt(test'))
        BY <1>1, ShapeOfTest DEF Types
    <3> QED
        BY <3>1, <3>2, <3>3, PlacedAtFirst DEF PlacedAt
  <2>2. CASE v # w
    <3>1. /\ test' = test /\ round'[v] = round[v] /\ pc'[v] = pc[v] /\ read'[v] = read[v]
          /\ auth' = auth /\ docs' = docs
        BY <2>2 DEF NextUe, database, IInv, Types
    <3>2. Working(v) /\ UeOf(v)' = UeOf(v)
        BY <1>2, <3>1 DEF Working, UeOf, Handles, Slice, Load
    <3>3. Count(v)' = Count(v)
        BY <3>1, <3>2 DEF Count
    <3> QED
        BY <3>1, <3>2, <3>3 DEF IInv, PlacedAt
  <2> QED
      BY <2>1, <2>2
<1> QED
    BY <1>1, <1>2 DEF IInv, PlacedAt

\* Wherever the last test was ended: every script begins with the insertion.
LEMMA NextTestKeeps ==
    ASSUME IInv, NextTest
    PROVE  IInv'
<1>1. Types'
    BY TestsAssumption DEF IInv, Types, NextTest, database, AllTests
<1>2. ASSUME NEW v \in Worker, Working(v)' PROVE PlacedAt(v)'
  <2>1. Count(v)' \in [Others -> Nat]
    <3>1. CountsTyped'
        BY CountsOfUes, PTL
    <3> QED
        BY <1>1, <1>2, <3>1 DEF CountsTyped
  <2>2. pc'[v] = 1
      BY DEF NextTest
  <2>3. Shape(Script(test'), RegAt(test'))
      BY <1>1, ShapeOfTest DEF Types
  <2> QED
      BY <2>1, <2>2, <2>3, PlacedAtFirst DEF PlacedAt
<1> QED
    BY <1>1, <1>2 DEF IInv, PlacedAt

LEMMA StepKeeps ==
    ASSUME IInv, [Next]_vars
    PROVE  IInv'
<1>1. ASSUME NEW w \in Worker, InsertAuthSubscriptionToMongoDB(w) PROVE IInv'
    BY <1>1, InsertAuthKeeps
<1>2. ASSUME NEW w \in Worker, GetAuthSubscriptionFromMongoDB(w) PROVE IInv'
    BY <1>2, GetAuthKeeps
<1>3. ASSUME NEW w \in Worker, DelAuthSubscriptionToMongoDB(w) PROVE IInv'
    BY <1>3, DelAuthKeeps
<1>4. ASSUME NEW w \in Worker, InsertData(w) PROVE IInv'
    BY <1>4, InsertDataKeeps
<1>5. ASSUME NEW w \in Worker, GetData(w) PROVE IInv'
    BY <1>5, GetDataKeeps
<1>6. ASSUME NEW w \in Worker, DelData(w) PROVE IInv'
    BY <1>6, DelDataKeeps
<1>7. ASSUME NEW w \in Worker, Authenticate(w) PROVE IInv'
    BY <1>7, AuthenticateKeeps
<1>8. ASSUME NEW w \in Worker, NextUe(w) PROVE IInv'
    BY <1>8, NextUeKeeps
<1>9. CASE NextTest
    BY <1>9, NextTestKeeps
<1>10. CASE UNCHANGED vars
  <2>1. /\ test' = test /\ round' = round /\ pc' = pc /\ read' = read
        /\ auth' = auth /\ docs' = docs
      BY <1>10 DEF vars
  <2>2. Types'
      BY <2>1 DEF IInv, Types
  <2>3. ASSUME NEW w \in Worker, Working(w)' PROVE PlacedAt(w)'
    <3>1. Working(w) /\ UeOf(w)' = UeOf(w)
        BY <2>1, <2>3 DEF Working, UeOf, Handles, Slice, Load
    <3>2. Count(w)' = Count(w)
        BY <2>1, <3>1 DEF Count
    <3> QED
        BY <2>1, <3>1, <3>2 DEF IInv, PlacedAt
  <2> QED
      BY <2>2, <2>3 DEF IInv, PlacedAt
<1> QED
    BY <1>1, <1>2, <1>3, <1>4, <1>5, <1>6, <1>7, <1>8, <1>9, <1>10 DEF Next

-----------------------------------------------------------------------------
(* What the runs check                                                      *)

LEMMA SameKeysFollows == IInv => SameKeys
<1> SUFFICES ASSUME IInv, NEW w \in Worker, Doing(w, "register")
             PROVE  InCore(auth[UeOf(w)])
    BY DEF SameKeys, InCore, GetAuthSubscription
<1>1. Working(w) /\ pc[w] <= Len(Script(test)) /\ Step(w)[1] = "register"
    BY DEF Doing
<1>2. /\ Shape(Script(test), RegAt(test)) /\ pc[w] \in 1..Len(Script(test))
      /\ Script(test)[pc[w]][1] = "register"
    BY <1>1, StepOfWorker DEF IInv
<1>3. pc[w] = RegAt(test)
    BY <1>2, KindsOfSteps
<1> QED
    BY <1>1, <1>2, <1>3 DEF IInv, PlacedAt, Placed, Shape

LEMMA ReadsBackFollows == IInv => ReadsBack
    BY DEF ReadsBack, IInv, PlacedAt, Placed

LEMMA DataWhileNeededFollows == IInv => DataWhileNeeded
<1> SUFFICES ASSUME IInv, NEW w \in Worker, Working(w), ~Ahead(w, "put")
             PROVE  /\ ~Behind(w, "del") =>
                          /\ auth[UeOf(w)] # NoDocument
                          /\ \A c \in Others : Count(w)[c] > 0
                    /\ Behind(w, "del") /\ ~Ahead(w, "del") =>
                          /\ auth[UeOf(w)] = NoDocument
                          /\ \A c \in {"amData", "smfSel"} : Count(w)[c] = 0
    BY DEF DataWhileNeeded, Count, Others, Collections, ByUe, ByPlmn
<1> DEFINE s == Script(test)
           n == RegAt(test)
           p == pc[w]
<1>1. Shape(s, n) /\ Placed(s, n, p, auth[UeOf(w)], Count(w), read[w])
    BY ShapeOfTest DEF IInv, PlacedAt, Types
<1>2. /\ \A i \in p..Len(s) : s[i][1] # "put"
      /\ Behind(w, "del") <=> \E i \in 1..p - 1 : s[i][1] = "del"
      /\ Ahead(w, "del") <=> \E i \in p..Len(s) : s[i][1] = "del"
    BY DEF Ahead, Behind
<1> HIDE DEF s, n, p
<1>3. n \in 2..Len(s) /\ Len(s) \in Nat /\ p \in 1..Len(s) + 1
    BY <1>1 DEF Shape, Placed
<1>4. ASSUME ~Behind(w, "del")
      PROVE  auth[UeOf(w)] # NoDocument /\ \A c \in Others : Count(w)[c] > 0
  <2>1. p <= n + 1
    <3> SUFFICES ASSUME p > n + 1 PROVE FALSE
        BY <1>3
    <3>1. n + 1 \in 1..p - 1 /\ n + 1 \in 1..Len(s)
        BY <1>3
    <3>2. s[n + 1][1] = "del"
        BY <1>1, <1>3, <3>1 DEF Shape
    <3> QED
        BY <1>2, <1>4, <3>1, <3>2
  <2>2. ASSUME NEW c \in Collections PROVE \E i \in 1..p - 1 : s[i] = Put(c)
    <3>1. PICK i \in 1..n - 1 : s[i] = Put(c)
        BY <1>1 DEF Shape
    <3>2. i \notin p..Len(s)
        BY <1>2, <3>1 DEF Put
    <3> QED
        BY <1>3, <3>1, <3>2
  <2>3. p \in 2..n + 1
      BY <1>3, <2>1, <2>2 DEF Collections
  <2>4. auth[UeOf(w)] # NoDocument
      BY <1>1, <2>3 DEF Placed, Fields, NoDocument
  <2> QED
      BY <1>1, <2>1, <2>2, <2>4 DEF Placed, Others
<1>5. ASSUME Behind(w, "del"), ~Ahead(w, "del")
      PROVE  auth[UeOf(w)] = NoDocument /\ \A c \in {"amData", "smfSel"} : Count(w)[c] = 0
  <2>1. PICK i \in 1..p - 1 : s[i][1] = "del"
      BY <1>2, <1>5
  <2>2. i \in 1..Len(s) /\ i > n
      BY <1>1, <1>3, <2>1, KindsOfSteps
  <2>3. ASSUME NEW c \in {"auth", "amData", "smfSel"} PROVE \E j \in 1..p - 1 : s[j] = Del(c)
    <3>1. PICK j \in 1..Len(s) : s[j] = Del(c)
        BY <1>1, <1>3, <2>2 DEF Shape
    <3>2. j \notin p..Len(s)
        BY <1>2, <1>5, <3>1 DEF Del
    <3> QED
        BY <1>3, <3>1, <3>2
  <2> QED
      BY <1>1, <2>3 DEF Placed, Others, Collections
<1> QED
    BY <1>4, <1>5

\* The invariant holds in every state, for any number of tests in a row.
THEOREM Invariance == Spec => []IInv
    BY InitPlaces, StepKeeps, PTL DEF Spec

\* The core derives a UE's keys from what the UE derives them from, whatever
\* document the database held (InsertAuthSubscriptionToMongoDB).
THEOREM AlwaysSameKeys == Spec => []SameKeys
    BY Invariance, SameKeysFollows, PTL

\* A procedure reads the authentication data it has inserted
\* (GetAuthSubscriptionFromMongoDB).
THEOREM AlwaysReadsBack == Spec => []ReadsBack
    BY Invariance, ReadsBackFollows, PTL

\* The data is there while a UE registers, and gone when it has been deleted,
\* however the slices of a batch's workers are interleaved.
THEOREM AlwaysDataWhileNeeded == Spec => []DataWhileNeeded
    BY Invariance, DataWhileNeededFollows, PTL

=============================================================================
