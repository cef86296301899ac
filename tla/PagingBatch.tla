----------------------------- MODULE PagingBatch ----------------------------
(***************************************************************************)
(* TestMultiPagingConcurrent (paging_test.go): one PagingWorker per thread *)
(* runs SinglePaging for work_load UEs, one after the other, each on an    *)
(* association of its own.  A worker whose UE has gone idle puts its       *)
(* address in a channel; DownlinkDataController collects the addresses of  *)
(* a batch and then pings them all.  The AMF pages an idle UE on every     *)
(* association (a gNB cannot tell whose the Paging is before reading it),  *)
(* so a worker also reads the Pagings of the others: two loops skip them,  *)
(* every other Read would take one for the answer it expects.  A UE knows  *)
(* its Paging by the number decode.go makes of the 5G-TMSI, which two UEs  *)
(* can have in common, and gives this number as its 5G-TMSI afterwards.    *)
(*                                                                         *)
(* Registration and PDU session establishment, which N2Procedures opens,   *)
(* are one request and one answer here.  The AMF is external.              *)
(***************************************************************************)
EXTENDS Naturals, Sequences, FiniteSets, TemporaryIds

CONSTANTS
    Worker,        \* the goroutines: thread_amount of them
    WorkLoad,      \* UEs per worker: work_load
    Environments   \* what a run may meet, and the 5G-TMSIs the AMF assigns

UE   == Worker \X (1..WorkLoad)
Tmsi == [1..4 -> 0..255]

ASSUME WorkerAssumption == IsFiniteSet(Worker) /\ Worker # {} /\ WorkLoad \in Nat \ {0}
ASSUME EnvironmentAssumption ==
    \A e \in Environments :
        /\ {e.mayFail, e.sleepsSuffice} \subseteq BOOLEAN
        /\ \A u \in UE : e.tmsi[u] \in Tmsi
        /\ \A u, v \in UE : e.tmsi[u] = e.tmsi[v] => u = v

VARIABLES
    env,        \* this run's failures, too short sleeps, and 5G-TMSIs
    pc,         \* pc[w]: where worker w is
    round,      \* round[w]: which of its UEs worker w handles
    address,    \* address[w]: TRUE when ue.PduAddress is not empty
    latencies,  \* latencies delivered to paging_latency_chan
    signals,    \* dl_signal_chan: UEs, or NoAddress for an empty string
    list,       \* addressList[:counter]
    main,       \* the test function: "start", "waiting", "closed", "returned", "crashed"
    request,    \* request[w]: what w has written and the AMF has not read yet
    down,       \* down[w]: what w can read
    connected,  \* AMF: the associations with a completed NG Setup
    idle,       \* AMF: the UEs that are CM-IDLE
    data        \* UEs with a ping on its way to the AMF's paging

harness == <<pc, round, address, latencies, signals, list, main>>
amf     == <<request, down, connected, idle, data>>
vars    == <<env, harness, amf>>

ThreadAmount == Cardinality(Worker)
Amount       == ThreadAmount * WorkLoad

NoAddress == <<>>
Nothing   == "nothing"
Paging(u) == [type |-> "Paging", ue |-> u]
Reply(t)  == [type |-> t, ue |-> NoAddress]

\* The UE that worker w handles now.
Mine(w) == <<w, round[w]>>

\* ue.Tmsi, and the 5G-TMSI that BuildInitialUEMessage puts for it.
Folded(u) == FoldedTmsi(env.tmsi[u])
Claimed(u) == TmsiField(Folded(u))

\* w's queue starts with a Paging whose number is that of w's UE.
PagingHeard(w) ==
    down[w] # <<>> /\ Head(down[w]).type = "Paging" /\ Folded(Head(down[w]).ue) = Folded(Mine(w))

\* dl_signal_chan is made with thread_amount + 1 slots.
SignalCapacity == ThreadAmount + 1

Init ==
    /\ env \in Environments
    /\ pc = [w \in Worker |-> "connect"]
    /\ round = [w \in Worker |-> 1]
    /\ address = [w \in Worker |-> FALSE]
    /\ latencies = 0
    /\ signals = <<>>
    /\ list = <<>>
    /\ main = "start"
    /\ request = [w \in Worker |-> Nothing]
    /\ down = [w \in Worker |-> <<>>]
    /\ connected = {}
    /\ idle = {}
    /\ data = {}

Running == main \in {"waiting", "closed"}

-----------------------------------------------------------------------------
(* SinglePaging                                                             *)

At(w, label) == Running /\ pc[w] = label
Goto(w, label) == pc' = [pc EXCEPT ![w] = label]
Write(w, type) == request[w] = Nothing /\ request' = [request EXCEPT ![w] = type]
Read(w) == down[w] # <<>> /\ down' = [down EXCEPT ![w] = Tail(@)]

\* A new association for the next UE, NG Setup Request.
Connect(w) ==
    /\ At(w, "connect")
    /\ Write(w, "NGSetup")
    /\ down' = [down EXCEPT ![w] = <<>>]
    /\ address' = [address EXCEPT ![w] = FALSE]
    /\ Goto(w, "readSetup")
    /\ UNCHANGED <<env, round, latencies, signals, list, main, connected, idle, data>>

\* Ten attempts have failed: the nil connection is dereferenced.
FailToConnect(w) ==
    /\ env.mayFail
    /\ At(w, "connect")
    /\ main' = "crashed"
    /\ UNCHANGED <<env, pc, round, address, latencies, signals, list, amf>>

\* NG Setup Response, then the registration.  (Another message fails an
\* assertion only, so the worker carries on.)
Register(w) ==
    /\ At(w, "readSetup")
    /\ Read(w)
    /\ Write(w, "Register")
    /\ Goto(w, "readSession")
    /\ UNCHANGED <<env, round, address, latencies, signals, list, main, connected, idle, data>>

\* EstablishPduSession returns the address, or an error that nobody examines;
\* UE Context Release Request.
ReleaseUe(w) ==
    /\ At(w, "readSession")
    /\ Read(w)
    /\ Head(down[w]).type = "Session"
    /\ \E accepted \in IF env.mayFail THEN BOOLEAN ELSE {TRUE} :
         address' = [address EXCEPT ![w] = accepted]
    /\ Write(w, "ReleaseRequest")
    /\ Goto(w, "readRelease")
    /\ UNCHANGED <<env, round, latencies, signals, list, main, connected, idle, data>>

\* Another message has no DownlinkNASTransport: a nil dereference.
Misread(w) ==
    /\ At(w, "readSession")
    /\ Read(w)
    /\ Head(down[w]).type # "Session"
    /\ main' = "crashed"
    /\ UNCHANGED <<env, pc, round, address, latencies, signals, list, request, connected, idle, data>>

\* UE Context Release Command (not looked at), Complete.
CompleteRelease(w) ==
    /\ At(w, "readRelease")
    /\ Read(w)
    /\ Write(w, "ReleaseComplete")
    /\ Goto(w, "signal")
    /\ UNCHANGED <<env, round, address, latencies, signals, list, main, connected, idle, data>>

\* signal_chan <- ue.PduAddress
Signal(w) ==
    /\ At(w, "signal")
    /\ Len(signals) < SignalCapacity
    /\ signals' = Append(signals, IF address[w] THEN Mine(w) ELSE NoAddress)
    /\ Goto(w, "readPaging")
    /\ UNCHANGED <<env, round, address, latencies, list, main, amf>>

\* Variant: any Paging will do.
AnswerAnyPaging(w) ==
    /\ At(w, "readPaging")
    /\ Read(w)
    /\ Write(w, "ServiceRequest")
    /\ Goto(w, "readContext")
    /\ UNCHANGED <<env, round, address, latencies, signals, list, main, connected, idle, data>>

\* who == ue.Tmsi: NAS Service Request.
AnswerPaging(w) ==
    /\ At(w, "readPaging")
    /\ Read(w)
    /\ PagingHeard(w)
    /\ Write(w, "ServiceRequest")
    /\ Goto(w, "readContext")
    /\ UNCHANGED <<env, round, address, latencies, signals, list, main, connected, idle, data>>

\* Variant: the first message read is the only one that can be the Paging.
AbsorbLate(w) ==
    /\ At(w, "readContext")
    /\ Read(w)
    /\ Head(down[w]).type # "ContextSetup"
    /\ UNCHANGED <<env, harness, request, connected, idle, data>>

\* A Paging with another number, or no Paging at all, in the first loop;
\* whatever is no Initial Context Setup Request in the second.
Absorb(w) ==
    /\ \/ At(w, "readPaging") /\ down[w] # <<>> /\ ~PagingHeard(w)
       \/ At(w, "readContext") /\ down[w] # <<>> /\ Head(down[w]).type # "ContextSetup"
    /\ Read(w)
    /\ UNCHANGED <<env, harness, request, connected, idle, data>>

\* Variant: the first message after the Service Request is taken for the answer.
FinishOnAnything(w) ==
    /\ At(w, "readContext")
    /\ Read(w)
    /\ connected' = connected \ {w}
    /\ Goto(w, "deliver")
    /\ UNCHANGED <<env, round, address, latencies, signals, list, main, request, idle, data>>

\* Initial Context Setup Request: response, test data deleted, connection closed.
Finish(w) ==
    /\ At(w, "readContext")
    /\ Read(w)
    /\ Head(down[w]).type = "ContextSetup"
    /\ connected' = connected \ {w}
    /\ Goto(w, "deliver")
    /\ UNCHANGED <<env, round, address, latencies, signals, list, main, request, idle, data>>

-----------------------------------------------------------------------------
(* PagingWorker, DownlinkDataController, TestMultiPagingConcurrent          *)

\* paging_latency_chan <- paging_latency; the channel has amount + 1 slots.
Deliver(w) ==
    /\ At(w, "deliver")
    /\ latencies < Amount + 1
    /\ latencies' = latencies + 1
    /\ Goto(w, "sleep")
    /\ UNCHANGED <<env, round, address, signals, list, main, amf>>

\* Variant: no sleep between two UEs of a worker.
NextUeAtOnce(w) ==
    /\ At(w, "sleep")
    /\ IF round[w] < WorkLoad
       THEN round' = [round EXCEPT ![w] = @ + 1] /\ Goto(w, "connect")
       ELSE UNCHANGED round /\ Goto(w, "done")
    /\ UNCHANGED <<env, address, latencies, signals, list, main, amf>>

\* 500 ms, in which the UEs that are still to be paged should be; then the
\* worker's next UE or wg.Done.
NextUe(w) ==
    /\ At(w, "sleep")
    /\ env.sleepsSuffice => data = {}
    /\ IF round[w] < WorkLoad
       THEN round' = [round EXCEPT ![w] = @ + 1] /\ Goto(w, "connect")
       ELSE UNCHANGED round /\ Goto(w, "done")
    /\ UNCHANGED <<env, address, latencies, signals, list, main, amf>>

\* A require fails: the goroutine ends without wg.Done.
Exit(w) ==
    /\ env.mayFail
    /\ At(w, "readSession")
    /\ Goto(w, "exited")
    /\ UNCHANGED <<env, round, address, latencies, signals, list, main, amf>>

\* Variant: the controller pings as soon as the address is there.
PingEach ==
    /\ Running
    /\ signals # <<>>
    /\ signals' = Tail(signals)
    /\ data' = IF Head(signals) = NoAddress THEN data ELSE data \cup {Head(signals)}
    /\ UNCHANGED <<env, pc, round, address, latencies, list, main, request, down, connected, idle>>

\* Variants: the list is not started again; an empty address fills a slot.
CollectAndKeep ==
    LET filled == IF Head(signals) = NoAddress THEN list ELSE Append(list, Head(signals))
        whole  == Len(filled) = ThreadAmount
    IN  /\ Running
        /\ signals # <<>>
        /\ signals' = Tail(signals)
        /\ list' = filled
        /\ data' = IF whole THEN data \cup {filled[i] : i \in DOMAIN filled} ELSE data
        /\ UNCHANGED <<env, pc, round, address, latencies, main, request, down, connected, idle>>
CollectEmpty ==
    LET filled == Append(list, Head(signals))
        whole  == Len(filled) = ThreadAmount
    IN  /\ Running
        /\ signals # <<>>
        /\ signals' = Tail(signals)
        /\ list' = IF whole THEN <<>> ELSE filled
        /\ data' = IF whole THEN data \cup ({filled[i] : i \in DOMAIN filled} \cap UE) ELSE data
        /\ UNCHANGED <<env, pc, round, address, latencies, main, request, down, connected, idle>>

\* The controller: an empty address is passed over, the last one of a batch
\* starts a ping to each.
Collect ==
    LET filled == IF Head(signals) = NoAddress THEN list ELSE Append(list, Head(signals))
        whole  == Len(filled) = ThreadAmount
    IN  /\ Running
        /\ signals # <<>>
        /\ signals' = Tail(signals)
        /\ list' = IF whole THEN <<>> ELSE filled
        /\ data' = IF whole THEN data \cup {filled[i] : i \in DOMAIN filled} ELSE data
        /\ UNCHANGED <<env, pc, round, address, latencies, main, request, down, connected, idle>>

\* The arguments parse: controller and workers start; or they do not.
Begin ==
    /\ main = "start"
    /\ main' \in IF env.mayFail THEN {"waiting", "returned"} ELSE {"waiting"}
    /\ UNCHANGED <<env, pc, round, address, latencies, signals, list, amf>>

\* wg.Wait returns, close(paging_latency_chan); the test ends two seconds later.
Close ==
    /\ main = "waiting"
    /\ \A w \in Worker : pc[w] = "done"
    /\ main' = "closed"
    /\ UNCHANGED <<env, pc, round, address, latencies, signals, list, amf>>

Return ==
    /\ main = "closed"
    /\ main' = "returned"
    /\ UNCHANGED <<env, pc, round, address, latencies, signals, list, amf>>

-----------------------------------------------------------------------------
(* The AMF                                                                  *)

Handles(w, type) ==
    /\ Running
    /\ request[w] = type
    /\ request' = [request EXCEPT ![w] = Nothing]
Answer(w, type) == down' = [down EXCEPT ![w] = Append(@, Reply(type))]

AmfSetsUp(w) ==
    /\ Handles(w, "NGSetup")
    /\ Answer(w, "SetupResponse")
    /\ connected' = connected \cup {w}
    /\ UNCHANGED <<env, harness, idle, data>>

AmfRegisters(w) ==
    /\ Handles(w, "Register")
    /\ Answer(w, "Session")
    /\ UNCHANGED <<env, harness, connected, idle, data>>

AmfReleases(w) ==
    /\ Handles(w, "ReleaseRequest")
    /\ Answer(w, "ReleaseCommand")
    /\ UNCHANGED <<env, harness, connected, idle, data>>

AmfForgets(w) ==
    /\ Handles(w, "ReleaseComplete")
    /\ idle' = idle \cup {Mine(w)}
    /\ UNCHANGED <<env, harness, down, connected, data>>

\* Downlink data has arrived for an idle UE: it is paged on every association.
AmfPages(u) ==
    /\ Running
    /\ u \in data \cap idle
    /\ data' = data \ {u}
    /\ down' = [w \in Worker |-> IF w \in connected THEN Append(down[w], Paging(u)) ELSE down[w]]
    /\ UNCHANGED <<env, harness, request, connected, idle>>

\* The Service Request names the UE that has sent it: data that is still on
\* its way then reaches the UE without a Paging.
AmfServes(w) ==
    /\ Claimed(Mine(w)) = env.tmsi[Mine(w)]
    /\ Handles(w, "ServiceRequest")
    /\ Answer(w, "ContextSetup")
    /\ idle' = idle \ {Mine(w)}
    /\ data' = data \ {Mine(w)}
    /\ UNCHANGED <<env, harness, connected>>

\* It names nobody, or a UE with other keys: Service Reject.
AmfRejects(w) ==
    /\ Claimed(Mine(w)) # env.tmsi[Mine(w)]
    /\ Handles(w, "ServiceRequest")
    /\ Answer(w, "Reject")
    /\ UNCHANGED <<env, harness, connected, idle, data>>

-----------------------------------------------------------------------------
Progress(w) ==
    \/ Connect(w) \/ Register(w) \/ ReleaseUe(w) \/ CompleteRelease(w) \/ Signal(w)
    \/ AnswerPaging(w) \/ Absorb(w) \/ Finish(w) \/ Deliver(w) \/ NextUe(w)
Failing(w) == FailToConnect(w) \/ Misread(w) \/ Exit(w)
Amf(w) ==
    \/ AmfSetsUp(w) \/ AmfRegisters(w) \/ AmfReleases(w) \/ AmfForgets(w)
    \/ AmfServes(w) \/ AmfRejects(w)

Next ==
    \/ \E w \in Worker : Progress(w) \/ Failing(w) \/ Amf(w)
    \/ \E u \in UE : AmfPages(u)
    \/ Begin \/ Collect \/ Close \/ Return

Spec == Init /\ [][Next]_vars

\* Goroutines are scheduled, the AMF answers and pings arrive.
Fairness ==
    /\ \A w \in Worker : WF_vars(Progress(w)) /\ WF_vars(Amf(w))
    /\ \A u \in UE : WF_vars(AmfPages(u))
    /\ WF_vars(Collect) /\ WF_vars(Begin \/ Close \/ Return)

FairSpec == Spec /\ Fairness

-----------------------------------------------------------------------------
(* Properties                                                               *)

Labels == {"connect", "readSetup", "readSession", "readRelease", "signal", "readPaging",
           "readContext", "deliver", "sleep", "done", "exited"}
Requests == {"NGSetup", "Register", "ReleaseRequest", "ReleaseComplete", "ServiceRequest"}
Answers  == {"SetupResponse", "Session", "ReleaseCommand", "ContextSetup", "Reject"}
Message  == [type : Answers \cup {"Paging"}, ue : UE \cup {NoAddress}]
Paged == {"readContext", "deliver", "sleep", "done"}

\* No two UEs have the same number.
ToldApart == \A u, v \in UE : Folded(u) = Folded(v) => u = v

\* Every number is the UE's 5G-TMSI: three octets of zeros and one more.
Recognised == \A u \in UE : Claimed(u) = env.tmsi[u]

\* Types and bounds.  No channel is ever full, and no queue holds more than the
\* Pagings of two batches, as long as UEs are told apart.
TypeOK ==
    /\ env \in Environments
    /\ pc \in [Worker -> Labels]
    /\ round \in [Worker -> 1..WorkLoad]
    /\ address \in [Worker -> BOOLEAN]
    /\ latencies \in 0..(Amount + 1)
    /\ signals \in Seq(UE \cup {NoAddress}) /\ Len(signals) <= SignalCapacity
    /\ list \in Seq(UE) /\ Len(list) < ThreadAmount
    /\ main \in {"start", "waiting", "closed", "returned", "crashed"}
    /\ request \in [Worker -> Requests \cup {Nothing}]
    /\ down \in [Worker -> Seq(Message)]
    /\ connected \subseteq Worker
    /\ idle \subseteq UE
    /\ data \subseteq UE
    /\ ToldApart =>
         /\ latencies <= Amount /\ Len(signals) <= ThreadAmount
         /\ \A w \in Worker : Len(down[w]) <= 2 * ThreadAmount

\* As long as UEs are told apart, the controller pings exactly the UEs that the
\* workers handle now, and only when each of them has confirmed its release and
\* waits for its Paging: a batch never mixes the UEs of two rounds and never
\* leaves a worker out.
PingsWholeBatch ==
    [][ToldApart /\ Collect /\ data' # data =>
         /\ data' \ data = {Mine(w) : w \in Worker}
         /\ \A w \in Worker : pc[w] = "readPaging"]_vars

\* A worker that has exited, or whose UE got no address, keeps the test from
\* ending and, as long as UEs are told apart, every worker from being paged in
\* that round.  (It could answer a Paging with the number of its own UE.)
LostUeStopsBatch ==
    \A w \in Worker :
        /\ pc[w] = "exited" => main # "closed"
        /\ ToldApart /\ (pc[w] = "exited" \/ (pc[w] = "readPaging" /\ ~address[w])) =>
             /\ main # "closed"
             /\ \A v \in Worker : round[v] < round[w]
                                  \/ (round[v] = round[w] /\ pc[v] \notin Paged)

\* A latency is delivered only for a UE that the AMF has brought back from
\* idle, however many Pagings of other UEs come between and whoever's Paging
\* was answered; it was the UE's own as long as UEs are told apart.
MeasuredWhenServed ==
    \A w \in Worker :
        /\ pc[w] = "deliver" => Mine(w) \notin idle
        /\ ToldApart /\ pc[w] \in {"readContext", "deliver"} => Mine(w) \notin data

\* While the sleeps between two UEs outlast the batch's Pagings, none of them
\* is read in place of an answer by a worker that is already at its next UE,
\* whoever answers whose Paging.
NoStrayPaging ==
    env.sleepsSuffice =>
        \A w \in Worker :
            pc[w] \in {"readSetup", "readSession", "readRelease"} /\ down[w] # <<>>
                => Head(down[w]).type # "Paging"

\* When nothing fails, the sleeps suffice and the AMF knows every UE by its
\* number, every UE is paged and the test returns with every latency delivered.
AllUesPaged ==
    ~env.mayFail /\ env.sleepsSuffice /\ Recognised
        => <>[](main = "returned" /\ latencies = Amount)

\* The address of w's UE is in the channel or in the list.
Members(q) == {q[i] : i \in 1..Len(q)}
Pending(w) == Mine(w) \in Members(signals) \/ Mine(w) \in Members(list)

\* The controller has pinged the UE that w handles.
Called(w) == pc[w] \in Paged \/ (pc[w] = "readPaging" /\ address[w] /\ ~Pending(w))

Stage(w) ==
    CASE pc[w] \in {"sleep", "done"}          -> "served"
      [] pc[w] \in {"readContext", "deliver"} -> "called"
      [] pc[w] = "readPaging"                 -> IF Called(w) THEN "called" ELSE "waiting"
      [] OTHER                                -> "arriving"

stageOf == [w \in Worker |-> Stage(w)]

\* As long as UEs are told apart, the channel of addresses, the list that is
\* counted up to thread_amount and the loops over Pagings implement rounds: the
\* controller sends downlink data to the UEs of all workers or to none, those
\* they handle now, each released and waiting for its Paging, and each latency
\* is that of one such call.
Rounds == INSTANCE PagingRounds WITH stage <- stageOf, pinged <- data, measured <- latencies
ImplementsRounds ==
    (ToldApart => Rounds!Init) /\ [][ToldApart => Rounds!Next]_(Rounds!roundsVars)

=============================================================================
