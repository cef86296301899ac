-------------------------- MODULE SubscriptionData --------------------------
(***************************************************************************)
(* The subscription data of the emulated UEs in MongoDB (mongodb.go): what *)
(* the procedures insert before they register a UE, read back, and delete  *)
(* afterwards.  The database outlives the tests.  One test runs at a time, *)
(* alone or as a batch of workers with a slice of the UEs each, and the    *)
(* next one finds what the earlier ones, ended or killed, have left there. *)
(*                                                                         *)
(* The database library and the core network are external.  PutOne updates *)
(* the fields of a document it finds and inserts one otherwise, PostMany   *)
(* always inserts, DeleteMany deletes every match.  The core derives the   *)
(* keys of a UE from its authentication data and counts the sequence       *)
(* number on, as the UE's own derivation expects (ranUe.go:124).           *)
(***************************************************************************)
EXTENDS Naturals, Sequences

CONSTANTS
    ThreadAmount,  \* workers of a batch
    WorkLoad,      \* UEs per worker, work_load of the registration and paging batches
    Tests,         \* the tests that may run
    Ran,           \* bound: tests that run one after the other
    MaxCopies,     \* bound: equal documents told apart
    Earlier        \* authentication documents that may be there at first

ASSUME SizeAssumption ==
    ThreadAmount \in Nat \ {0} /\ WorkLoad \in Nat \ {0} /\ Ran \in Nat \ {0} /\ MaxCopies \in Nat \ {0}

ASSUME TestsAssumption ==
    Tests \subseteq {"TestRegistration", "TestN2Handover", "TestMultiN2Handover", "TestPaging",
                     "TestMultiRegistrationConcurrent", "TestMultiN2HandoverConcurrent",
                     "TestMultiPagingConcurrent", "TestNon3GPPUE", "XioTester"}

Worker == 0..ThreadAmount - 1
Ue     == 0..ThreadAmount * WorkLoad - 1
\* The UE of the tests with one UE; its identity is one of a batch's.
Single == 0

-----------------------------------------------------------------------------
(* Authentication data                                                      *)

\* A value in a document is a text, an object with a field sqn that holds a
\* text, or an object with one that holds a number.
Value(form, of) == [form |-> form, of |-> of]
Text(v) == Value("text", v)

\* What is known of the test set 19: its sequence number and its two keys.
GetAuthSubscription == [SequenceNumber |-> 0, PermanentKey |-> "K", Opc |-> "OPC"]

\* The struct as a document: one field per member, named as in its JSON tags.
toBsonM(subs) == [sequenceNumber |-> Text(subs.SequenceNumber),
                  permanentKey |-> subs.PermanentKey, opc |-> subs.Opc]

\* Field old becomes field new; nothing happens to a document without it.
Renamed(doc, old, new) ==
    [f \in (DOMAIN doc \ {old}) \cup (IF old \in DOMAIN doc THEN {new} ELSE {}) |->
        IF f = new /\ old \in DOMAIN doc THEN doc[old] ELSE doc[f]]
Reformed(doc, field, from, to) ==
    IF field \in DOMAIN doc /\ doc[field].form \in from
    THEN [doc EXCEPT ![field].form = to] ELSE doc

\* Variant: the sequence number is stored as the text it is.
SequenceNumberKept(subs) ==
    Renamed(Renamed(toBsonM(subs), "permanentKey", "encPermanentKey"), "opc", "encOpcKey")

\* From the structure of the test code to the one the core expects...
ToCore(subs) ==
    LET doc == Reformed(toBsonM(subs), "sequenceNumber", {"text"}, "sqn")
    IN  Renamed(Renamed(doc, "permanentKey", "encPermanentKey"), "opc", "encOpcKey")

\* Variant: a field of the old structure is not overwritten.
OldFieldsFirst(doc) ==
    LET keep(old, new, d) == IF old \in DOMAIN d THEN d ELSE Renamed(d, new, old)
        old == keep("opc", "encOpcKey", keep("permanentKey", "encPermanentKey",
                    Reformed(doc, "sequenceNumber", {"sqn", "number"}, "text")))
    IN  [SequenceNumber |-> old.sequenceNumber.of, PermanentKey |-> old.permanentKey, Opc |-> old.opc]

\* ...and back, whatever mixture of the two a document has become.
FromCore(doc) ==
    LET old == Renamed(Renamed(Reformed(doc, "sequenceNumber", {"sqn", "number"}, "text"),
                               "encPermanentKey", "permanentKey"), "encOpcKey", "opc")
    IN  [SequenceNumber |-> old.sequenceNumber.of, PermanentKey |-> old.permanentKey, Opc |-> old.opc]

-----------------------------------------------------------------------------
(* The database                                                             *)

NoDocument == <<>>
Merged(new, old) ==
    [f \in DOMAIN new \cup DOMAIN old |-> IF f \in DOMAIN new THEN new[f] ELSE old[f]]

\* Two collections have documents per UE, three per UE and serving PLMN.
ByUe   == {"amPolicy", "smPolicy"}
ByPlmn == {"amData", "smfSel", "smData"}
Plmn   == {"20893", "208093"}
Key(c, u, plmn) == IF c \in ByUe THEN <<c, u>> ELSE <<c, u, plmn>>
Keys == {Key(c, u, plmn) : c \in ByUe \cup ByPlmn, u \in Ue, plmn \in Plmn}

VARIABLES
    auth,   \* auth[u]: the authentication document of UE u
    docs,   \* docs[k]: how many documents of another collection have key k
    test,   \* the test that runs
    pc,     \* pc[w]: the next step of worker w's procedure
    round,  \* round[w]: the procedures w has ended
    read,   \* read[w]: what w's last read of an authentication document returned
    ran     \* tests started

database == <<auth, docs>>
vars     == <<auth, docs, test, pc, round, read, ran>>

\* RestfulAPIPutOne, RestfulAPIPostMany and RestfulAPIDeleteMany of a document
\* without a value of interest.
PutOne(n)     == IF n = 0 THEN 1 ELSE n
PostMany(n)   == IF n = MaxCopies THEN n ELSE n + 1
DeleteMany(n) == 0

-----------------------------------------------------------------------------
(* The procedures                                                           *)

Put(c) == <<"put", c>>
Get(c) == <<"get", c>>
Del(c) == <<"del", c>>
Register == <<"register", "auth">>

All == <<"amData", "smfSel", "smData", "amPolicy", "smPolicy">>
Inserted == [i \in 1..6 |-> Put((<<"auth">> \o All)[i])]
InsertedAndRead(cs) == [i \in 1..2 * Len(cs) |->
    IF i % 2 = 1 THEN Put(cs[(i + 1) \div 2]) ELSE Get(cs[i \div 2])]
Deleted == << Del("auth"), Del("amData"), Del("smfSel") >>

Provisioned == InsertedAndRead(<<"auth">> \o All)
\* Everything is inserted, and again with a read after it.
ProvisionedTwice == Inserted \o << Get("auth") >> \o InsertedAndRead(All)

SingleRegistration == Provisioned \o << Register >>
TestRegistration   == Provisioned \o << Register >> \o Deleted
TestN2Handover     == ProvisionedTwice \o << Register >> \o Deleted
\* The data of targetUe, which has the same supi, is deleted too.
SingleN2Handover   == TestN2Handover \o Deleted
XioTester          == Inserted \o << Register >> \o Deleted

Script(t) ==
    CASE t = "TestMultiRegistrationConcurrent" -> SingleRegistration
      [] t = "TestNon3GPPUE"                   -> SingleRegistration
      [] t \in {"TestRegistration", "TestPaging"} -> TestRegistration
      [] t = "TestMultiPagingConcurrent"       -> TestRegistration
      [] t \in {"TestN2Handover", "TestMultiN2Handover"} -> TestN2Handover
      [] t = "TestMultiN2HandoverConcurrent"   -> SingleN2Handover
      [] t = "XioTester"                       -> XioTester

Batch == {"TestMultiRegistrationConcurrent", "TestMultiPagingConcurrent",
          "TestMultiN2HandoverConcurrent"}
PlmnOf(t) == IF t = "TestMultiRegistrationConcurrent" THEN "208093" ELSE "20893"

\* work_load is 1 in the handover batch.
Load == IF test = "TestMultiN2HandoverConcurrent" THEN 1 ELSE WorkLoad

\* Variant: the slices start one after the other, whatever their length.
OverlappingSlice(w) == [i \in 1..Load |-> w + i - 1]

\* work_data_array[x*work_load : x*work_load+work_load]
Slice(w) == [i \in 1..Load |-> w * Load + i - 1]

\* The UEs that w handles one after the other, and the one at hand.
Handles(w) ==
    IF test \in Batch THEN Slice(w) ELSE IF w = 0 THEN <<Single>> ELSE <<>>
Working(w) == round[w] < Len(Handles(w))
UeOf(w)    == Handles(w)[round[w] + 1]
Step(w)    == Script(test)[pc[w]]
KeyOf(w)   == Key(Step(w)[2], UeOf(w), PlmnOf(test))
Doing(w, op) == Working(w) /\ pc[w] <= Len(Script(test)) /\ Step(w)[1] = op
OnAuth(w) == Step(w)[2] = "auth"

Init ==
    /\ \E doc \in Earlier : auth = [u \in Ue |-> doc]
    /\ docs = [k \in Keys |-> 0]
    /\ test \in Tests
    /\ pc = [w \in Worker |-> 1]
    /\ round = [w \in Worker |-> 0]
    /\ read = [w \in Worker |-> <<>>]
    /\ ran = 1

GoOn(w) == pc' = [pc EXCEPT ![w] = @ + 1] /\ UNCHANGED <<test, round, ran>>

InsertAuthSubscriptionToMongoDB(w) ==
    /\ Doing(w, "put") /\ OnAuth(w)
    /\ auth' = [auth EXCEPT ![UeOf(w)] = Merged(ToCore(GetAuthSubscription), @)]
    /\ GoOn(w)
    /\ UNCHANGED <<docs, read>>

GetAuthSubscriptionFromMongoDB(w) ==
    /\ Doing(w, "get") /\ OnAuth(w)
    /\ read' = [read EXCEPT ![w] =
                   IF auth[UeOf(w)] = NoDocument THEN <<>> ELSE << FromCore(auth[UeOf(w)]) >>]
    /\ GoOn(w)
    /\ UNCHANGED database

DelAuthSubscriptionToMongoDB(w) ==
    /\ Doing(w, "del") /\ OnAuth(w)
    /\ auth' = [auth EXCEPT ![UeOf(w)] = NoDocument]
    /\ GoOn(w)
    /\ UNCHANGED <<docs, read>>

\* The data of the other collections: the session management data comes as a
\* list, each of whose elements is a new document.
InsertData(w) ==
    /\ Doing(w, "put") /\ ~OnAuth(w)
    /\ docs' = [docs EXCEPT ![KeyOf(w)] = IF Step(w)[2] = "smData" THEN PostMany(@) ELSE PutOne(@)]
    /\ GoOn(w)
    /\ UNCHANGED <<auth, read>>

\* The result is compared with nil, and not used.
GetData(w) ==
    /\ Doing(w, "get") /\ ~OnAuth(w)
    /\ GoOn(w)
    /\ UNCHANGED <<auth, docs, read>>

\* Variant: another key is given to the deletion than to the insertion.
DeleteWithLeadingZero(w) ==
    /\ Doing(w, "del") /\ ~OnAuth(w)
    /\ docs' = [docs EXCEPT ![Key(Step(w)[2], UeOf(w), "208093")] = DeleteMany(@)]
    /\ GoOn(w)
    /\ UNCHANGED <<auth, read>>

DelData(w) ==
    /\ Doing(w, "del") /\ ~OnAuth(w)
    /\ docs' = [docs EXCEPT ![KeyOf(w)] = DeleteMany(@)]
    /\ GoOn(w)
    /\ UNCHANGED <<auth, read>>

\* The core finds authentication data in its structure, derives the keys, and
\* counts the sequence number on (to 1: how far does not matter).
Authenticate(w) ==
    /\ Doing(w, "register")
    /\ auth' = [auth EXCEPT ![UeOf(w)].sequenceNumber.of = 1]
    /\ GoOn(w)
    /\ UNCHANGED <<docs, read>>

\* The procedure returns: the worker goes on with its next UE.
NextUe(w) ==
    /\ Working(w) /\ pc[w] = Len(Script(test)) + 1
    /\ pc' = [pc EXCEPT ![w] = 1]
    /\ round' = [round EXCEPT ![w] = @ + 1]
    /\ read' = [read EXCEPT ![w] = <<>>]
    /\ UNCHANGED <<database, test, ran>>

\* The next test starts when this one has returned, or when a procedure that
\* panics, or the time limit of go test, has ended it wherever its workers were.
NextTest ==
    /\ ran < Ran
    /\ \/ \A w \in Worker : ~Working(w)
       \/ \E w \in Worker : Doing(w, "register") \/ Doing(w, "del")
    /\ test' \in Tests
    /\ pc' = [w \in Worker |-> 1]
    /\ round' = [w \in Worker |-> 0]
    /\ read' = [w \in Worker |-> <<>>]
    /\ ran' = ran + 1
    /\ UNCHANGED database

Next ==
    \/ \E w \in Worker :
          \/ InsertAuthSubscriptionToMongoDB(w) \/ GetAuthSubscriptionFromMongoDB(w)
          \/ DelAuthSubscriptionToMongoDB(w)
          \/ InsertData(w) \/ GetData(w) \/ DelData(w)
          \/ Authenticate(w) \/ NextUe(w)
    \/ NextTest

Spec == Init /\ [][Next]_vars

-----------------------------------------------------------------------------
(* Properties                                                               *)

Ahead(w, op)  == \E i \in pc[w]..Len(Script(test)) : Script(test)[i][1] = op
Behind(w, op) == \E i \in 1..pc[w] - 1 : Script(test)[i][1] = op

\* While a procedure registers its UE, all six collections hold the data it
\* has inserted, and when it has deleted its data none of the three kinds it
\* deletes is left: no other worker, and nothing an earlier test has left,
\* takes anything away or adds to it, and the keys of insertion and deletion
\* agree (the Insert and Del calls of the procedures).
DataWhileNeeded ==
    \A w \in Worker : Working(w) /\ ~Ahead(w, "put") =>
        /\ ~Behind(w, "del") =>
             /\ auth[UeOf(w)] # NoDocument
             /\ \A c \in ByUe \cup ByPlmn : docs[Key(c, UeOf(w), PlmnOf(test))] > 0
        /\ Behind(w, "del") /\ ~Ahead(w, "del") =>
             /\ auth[UeOf(w)] = NoDocument
             /\ \A c \in {"amData", "smfSel"} : docs[Key(c, UeOf(w), PlmnOf(test))] = 0

\* When the core authenticates a UE it derives the keys from what the UE
\* derives them from: whatever document was there, the insertion has left
\* both keys and the sequence number of the test set in the core's
\* structure (InsertAuthSubscriptionToMongoDB, DeriveRESstarAndSetKey).
SameKeys ==
    \A w \in Worker : Doing(w, "register") =>
        LET subs == GetAuthSubscription
            doc  == auth[UeOf(w)]
        IN  /\ doc.sequenceNumber = Value("sqn", subs.SequenceNumber)
            /\ doc.encPermanentKey = subs.PermanentKey
            /\ doc.encOpcKey = subs.Opc

\* What a procedure reads back of the authentication data is what it has
\* inserted, in a document of either structure or of a mixture of both
\* (GetAuthSubscriptionFromMongoDB; the callers require a result).
ReadsBack ==
    \A w \in Worker : Working(w) =>
        \A i \in 1..pc[w] - 1 :
            Script(test)[i] = Get("auth") => read[w] = << GetAuthSubscription >>

=============================================================================
