-------------------------- MODULE HandoverBarrier ---------------------------
(***************************************************************************)
(* TestMultiN2HandoverConcurrent and its goroutines (handover_test.go):    *)
(* main starts one HandoverWorker per UE, each worker runs                 *)
(* SingleN2Handover once (work_load = 1), and the workers meet at a        *)
(* home-made barrier, the package variable LockForHandover: a counter that *)
(* is incremented and decremented under a mutex and polled WITHOUT it.     *)
(* The procedures a worker runs on its own connections before and after    *)
(* the barrier (registration, session establishment, handover) are one     *)
(* step each here; module N2Procedures opens them.                         *)
(***************************************************************************)
EXTENDS Naturals, FiniteSets

CONSTANTS
    Worker,         \* the goroutines, one per UE
    NoOne,          \* the mutex is free
    Environments    \* subset of [mayFail : BOOLEAN, sleepsSuffice : BOOLEAN]

ASSUME WorkerAssumption == IsFiniteSet(Worker) /\ Worker # {}
ASSUME NoOneAssumption  == NoOne \notin Worker
ASSUME EnvironmentAssumption ==
    Environments \subseteq [mayFail : BOOLEAN, sleepsSuffice : BOOLEAN]

ThreadAmount == Cardinality(Worker)

\* Variant: the channel counts on the logger to take a latency in time.
ScantCapacity == ThreadAmount - 1

\* handover_latency_chan is made with amount + 1 slots, amount = thread_amount.
ChanCapacity == ThreadAmount + 1

VARIABLES
    env,       \* mayFail: requires, sessions, dereferences and OpenFile may fail;
               \* sleepsSuffice: what the sleeps are to outlast is over when they end
    pc,        \* pc[w]: where worker w is
    session,   \* the workers whose UE has got its PDU session
    tmp,       \* tmp[w]: the value counter++ or counter-- of w has loaded
    counter,   \* LockForHandover.counter
    peak,      \* the greatest value counter has had: what a racing read may return
    mu,        \* LockForHandover.mu: its holder, or NoOne
    wg,        \* the WaitGroup's count
    queued,    \* latencies in the channel
    logged,    \* latencies FileLogger has written
    logger,    \* FileLogger: "opening", "reading", "gone" or "finished"
    main       \* the test function

barrier == <<counter, peak, mu, tmp>>
log     == <<queued, logged, logger>>
vars    == <<env, session, pc, tmp, counter, peak, mu, wg, queued, logged, logger, main>>

BeforeBarrier == {"unstarted", "setup", "session", "incLock", "incLoad", "incStore", "exited"}
Counted       == {"spin", "blockLock", "blockUnlock", "handover", "cleanup",
                  "decLock", "decLoad", "decStore"}
PastBarrier   == {"blockLock", "blockUnlock", "handover", "cleanup", "decLock",
                  "decLoad", "decStore", "send", "wgDone", "done"}
Holding       == {"incLoad", "incStore", "blockUnlock", "decLoad", "decStore"}
Location      == BeforeBarrier \cup Counted \cup PastBarrier

Init ==
    /\ env \in Environments
    /\ session = {}
    /\ pc = [w \in Worker |-> "unstarted"]
    /\ tmp = [w \in Worker |-> 0]
    /\ counter = 0
    /\ peak = 0
    /\ mu = NoOne
    /\ wg = 0
    /\ queued = 0
    /\ logged = 0
    /\ logger = "opening"
    /\ main = "start"

\* The process is running: neither the test function has returned nor a
\* goroutine has panicked (no goroutine recovers, so one panic ends them all).
Running == main \notin {"returned", "crashed"}

Goto(w, from, to) ==
    /\ Running
    /\ pc[w] = from
    /\ pc' = [pc EXCEPT ![w] = to]

-----------------------------------------------------------------------------
(* The test function                                                        *)

\* thread_amount does not parse: t.Errorf and return.
RejectArgument ==
    /\ env.mayFail
    /\ main = "start"
    /\ main' = "returned"
    /\ UNCHANGED <<env, session, pc, barrier, wg, log>>

\* counter = 0, go FileLogger, wg.Add(thread_amount).
Begin ==
    /\ main = "start"
    /\ counter' = 0
    /\ wg' = ThreadAmount
    /\ main' = "spawn"
    /\ UNCHANGED <<env, session, pc, tmp, peak, mu, log>>

\* One iteration of the spawning loop: go HandoverWorker, sleep 500 ms.
Spawn(w) ==
    /\ main = "spawn"
    /\ Goto(w, "unstarted", "setup")
    /\ main' = IF \A v \in Worker \ {w} : pc[v] # "unstarted" THEN "wait" ELSE "spawn"
    /\ UNCHANGED <<env, session, barrier, wg, log>>

\* Variant: the channel is closed without waiting for the last worker.
ImpatientClose ==
    /\ main = "wait"
    /\ wg <= 1
    /\ main' = "closed"
    /\ UNCHANGED <<env, session, pc, barrier, wg, log>>

\* wg.Wait returns, the channel is closed.
WaitAndClose ==
    /\ main = "wait"
    /\ wg = 0
    /\ main' = "closed"
    /\ UNCHANGED <<env, session, pc, barrier, wg, log>>

\* The two-second sleep ends and the test returns; the process exits with it.
Return ==
    /\ main = "closed"
    /\ env.sleepsSuffice => logger \in {"gone", "finished"}
    /\ main' = "returned"
    /\ UNCHANGED <<env, session, pc, barrier, wg, log>>

-----------------------------------------------------------------------------
(* FileLogger                                                               *)

LoggerOpens ==
    /\ Running
    /\ main # "start"
    /\ logger = "opening"
    /\ logger' = "reading"
    /\ UNCHANGED <<env, session, pc, barrier, wg, queued, logged, main>>

\* OpenFile fails: the goroutine returns and nobody reads the channel.
LoggerGivesUp ==
    /\ env.mayFail
    /\ Running
    /\ main # "start"
    /\ logger = "opening"
    /\ logger' = "gone"
    /\ UNCHANGED <<env, session, pc, barrier, wg, queued, logged, main>>

LoggerWrites ==
    /\ Running
    /\ logger = "reading"
    /\ queued > 0
    /\ queued' = queued - 1
    /\ logged' = logged + 1
    /\ UNCHANGED <<env, session, pc, barrier, wg, logger, main>>

\* The range loop ends: the channel is closed and drained.
LoggerFinishes ==
    /\ logger = "reading"
    /\ main = "closed"
    /\ queued = 0
    /\ logger' = "finished"
    /\ UNCHANGED <<env, session, pc, barrier, wg, queued, logged, main>>

-----------------------------------------------------------------------------
(* SingleN2Handover up to the barrier                                       *)

\* NG setups and registration: no require has failed.
Register(w) ==
    /\ Goto(w, "setup", "session")
    /\ UNCHANGED <<env, session, barrier, wg, log, main>>

\* EstablishPduSession returns a session.
EstablishSession(w) ==
    /\ Goto(w, "session", "incLock")
    /\ session' = session \cup {w}
    /\ UNCHANGED <<env, barrier, wg, log, main>>

\* It returns an error: a write or the read of the session has failed, or
\* another message came.  The caller never looks at the error, so the worker
\* goes on to the barrier without a session.
EstablishNothing(w) ==
    /\ env.mayFail
    /\ Goto(w, "session", "incLock")
    /\ UNCHANGED <<env, session, barrier, wg, log, main>>

\* Variant: a require that fails after the barrier, too.
MisplacedAbort(w) ==
    /\ env.mayFail
    /\ Running
    /\ pc[w] \in {"setup", "handover"}
    /\ pc' = [pc EXCEPT ![w] = "exited"]
    /\ UNCHANGED <<env, session, barrier, wg, log, main>>

\* A require fails, which only the registration has: runtime.Goexit ends the
\* goroutine, which has deferred nothing yet: neither LockForHandover.dec nor
\* wg.Done runs.
Abort(w) ==
    /\ env.mayFail
    /\ Goto(w, "setup", "exited")
    /\ UNCHANGED <<env, session, barrier, wg, log, main>>

\* A nil connection, a nil PDU or a negative read length: the process dies.
Panic(w) ==
    /\ env.mayFail
    /\ Running
    /\ pc[w] \in {"setup", "session", "handover"}
    /\ main' = "crashed"
    /\ UNCHANGED <<env, session, pc, barrier, wg, log>>

-----------------------------------------------------------------------------
(* LockForHandover.inc, the polling loop, LockForHandover.block             *)

Acquire(w) == mu = NoOne /\ mu' = w

\* Variant: inc does not wait for the mutex.
LocklessInc(w) ==
    /\ Goto(w, "incLock", "incLoad")
    /\ mu' = w
    /\ UNCHANGED <<env, session, tmp, counter, peak, wg, log, main>>

IncLock(w) ==
    /\ Goto(w, "incLock", "incLoad")
    /\ Acquire(w)
    /\ UNCHANGED <<env, session, tmp, counter, peak, wg, log, main>>

IncLoad(w) ==
    /\ Goto(w, "incLoad", "incStore")
    /\ tmp' = [tmp EXCEPT ![w] = counter]
    /\ UNCHANGED <<env, session, counter, peak, mu, wg, log, main>>

\* The store of counter++ and the deferred Unlock.
IncStore(w) ==
    /\ Goto(w, "incStore", "spin")
    /\ counter' = tmp[w] + 1
    /\ peak' = IF tmp[w] + 1 > peak THEN tmp[w] + 1 ELSE peak
    /\ mu' = NoOne
    /\ UNCHANGED <<env, session, tmp, wg, log, main>>

\* Variant: one UE too few is enough.
LooseSpinSeesCurrent(w) ==
    /\ Goto(w, "spin", "blockLock")
    /\ counter + 1 >= ThreadAmount
    /\ UNCHANGED <<env, session, barrier, wg, log, main>>

\* for LockForHandover.counter < thread_amount { continue }, without the lock.
SpinSeesCurrent(w) ==
    /\ Goto(w, "spin", "blockLock")
    /\ counter >= ThreadAmount
    /\ UNCHANGED <<env, session, barrier, wg, log, main>>

\* The loop's load races with the stores: it may return an older value.
\* (An older value below thread_amount leaves the loop where it is.)
SpinSeesStale(w) ==
    /\ Goto(w, "spin", "blockLock")
    /\ peak >= ThreadAmount
    /\ UNCHANGED <<env, session, barrier, wg, log, main>>

BlockLock(w) ==
    /\ Goto(w, "blockLock", "blockUnlock")
    /\ Acquire(w)
    /\ UNCHANGED <<env, session, tmp, counter, peak, wg, log, main>>

BlockUnlock(w) ==
    /\ Goto(w, "blockUnlock", "handover")
    /\ mu' = NoOne
    /\ UNCHANGED <<env, session, tmp, counter, peak, wg, log, main>>

-----------------------------------------------------------------------------
(* The rest of SingleN2Handover and of HandoverWorker                       *)

\* The N2 handover itself; at its end dec is deferred.
HandOver(w) ==
    /\ Goto(w, "handover", "cleanup")
    /\ UNCHANGED <<env, session, barrier, wg, log, main>>

\* Variant: no sleep before dec, a slow poller may never see a full counter.
HastyCleanUp(w) ==
    /\ Goto(w, "cleanup", "decLock")
    /\ UNCHANGED <<env, session, barrier, wg, log, main>>

\* Test data deleted, one second slept, connections closed, return.
CleanUp(w) ==
    /\ Goto(w, "cleanup", "decLock")
    /\ env.sleepsSuffice => \A v \in Worker : pc[v] # "spin"
    /\ UNCHANGED <<env, session, barrier, wg, log, main>>

DecLock(w) ==
    /\ Goto(w, "decLock", "decLoad")
    /\ Acquire(w)
    /\ UNCHANGED <<env, session, tmp, counter, peak, wg, log, main>>

DecLoad(w) ==
    /\ Goto(w, "decLoad", "decStore")
    /\ tmp' = [tmp EXCEPT ![w] = counter]
    /\ UNCHANGED <<env, session, counter, peak, mu, wg, log, main>>

DecStore(w) ==
    /\ Goto(w, "decStore", "send")
    /\ counter' = tmp[w] - 1
    /\ mu' = NoOne
    /\ UNCHANGED <<env, session, tmp, peak, wg, log, main>>

\* handover_latency_chan <- handover_latency blocks while the channel is full.
Send(w) ==
    /\ Goto(w, "send", "wgDone")
    /\ queued < ChanCapacity
    /\ queued' = queued + 1
    /\ UNCHANGED <<env, session, barrier, wg, logged, logger, main>>

\* Variant: Done is called twice.
DoubleDone(w) ==
    /\ Goto(w, "wgDone", "done")
    /\ wg' = wg - 2
    /\ UNCHANGED <<env, session, barrier, log, main>>

WgDone(w) ==
    /\ Goto(w, "wgDone", "done")
    /\ wg' = wg - 1
    /\ UNCHANGED <<env, session, barrier, log, main>>

-----------------------------------------------------------------------------
Arriving(w)  ==
    Spawn(w) \/ Register(w) \/ EstablishSession(w) \/ IncLock(w) \/ IncLoad(w) \/ IncStore(w)
Waiting(w)   == SpinSeesCurrent(w) \/ BlockLock(w) \/ BlockUnlock(w)
Leaving(w)   == HandOver(w) \/ CleanUp(w) \/ DecLock(w) \/ DecLoad(w) \/ DecStore(w)
Reporting(w) == Send(w) \/ WgDone(w)
Failing(w)   == Abort(w) \/ EstablishNothing(w) \/ Panic(w)
Logging      == LoggerOpens \/ LoggerGivesUp \/ LoggerWrites \/ LoggerFinishes
Testing      == RejectArgument \/ Begin \/ WaitAndClose \/ Return

\* The process is over.
Over == ~Running /\ UNCHANGED vars

Next ==
    \/ Testing
    \/ Logging
    \/ \E w \in Worker : Arriving(w) \/ Waiting(w) \/ SpinSeesStale(w)
                         \/ Leaving(w) \/ Reporting(w) \/ Failing(w)
    \/ Over

Spec == Init /\ [][Next]_vars

(***************************************************************************)
(* Goroutines are scheduled fairly and the load of the polling loop        *)
(* returns the current value sooner or later.  Failures are never owed.    *)
(***************************************************************************)
Fairness ==
    /\ WF_vars(Begin \/ WaitAndClose \/ Return)
    /\ WF_vars(LoggerOpens \/ LoggerWrites \/ LoggerFinishes)
    /\ \A w \in Worker : WF_vars(Arriving(w) \/ Waiting(w) \/ Leaving(w) \/ Reporting(w))

FairSpec == Spec /\ Fairness

-----------------------------------------------------------------------------
(* Properties                                                               *)

TypeOK ==
    /\ env \in Environments
    /\ session \subseteq Worker
    /\ pc \in [Worker -> Location]
    /\ tmp \in [Worker -> 0..ThreadAmount]
    /\ counter \in 0..ThreadAmount
    /\ peak \in 0..ThreadAmount
    /\ mu \in Worker \cup {NoOne}
    /\ wg \in 0..ThreadAmount
    /\ queued \in 0..ThreadAmount
    /\ logged \in 0..ThreadAmount
    /\ logger \in {"opening", "reading", "gone", "finished"}
    /\ main \in {"start", "spawn", "wait", "closed", "returned", "crashed"}

\* No increment or decrement of LockForHandover.counter is ever lost: the
\* counter is the number of workers between their inc and their deferred dec.
CounterIsArrivals == counter = Cardinality({w \in Worker : pc[w] \in Counted})

\* No UE starts its handover before every worker of the batch is past its
\* registration and past its attempt to establish a session, which may have
\* failed, whatever values the unsynchronised polling loop sees.
NoEarlyStart ==
    (\E w \in Worker : pc[w] \in PastBarrier) =>
        \A v \in Worker : pc[v] \notin BeforeBarrier

\* One worker that fails a require while it registers keeps the others at the
\* barrier and the test in wg.Wait: no batch is measured that lacks a worker.
\* (It may lack sessions: a failed establishment stops nobody.)
LostWorkerStopsBatch ==
    (\E w \in Worker : pc[w] = "exited") =>
        /\ main # "closed"
        /\ \A v \in Worker : pc[v] \notin PastBarrier

\* The channel is closed only when every worker has delivered its latency, so
\* no send can hit a closed channel and no result is lost in the channel.
ClosedAfterAllSends ==
    main = "closed" =>
        /\ \A w \in Worker : pc[w] = "done"
        /\ queued + logged = ThreadAmount

\* A worker never waits for the logger, not even for one that failed to open
\* its file: the channel has room for every latency of the batch.
SendNeverBlocks ==
    \A w \in Worker : pc[w] = "send" => queued < ChanCapacity

\* Every worker that is through with its handover can deliver its latency,
\* whatever has become of the logger: it meets neither a full channel nor a
\* closed one, and a closed channel lacks none.
LatenciesDelivered == ClosedAfterAllSends /\ SendNeverBlocks

\* When nothing fails and the sleeps are long enough the test returns with
\* every latency in the file, although nothing but sleeps orders dec after
\* the last poll and the end of the process after the last write.
AllLatenciesLogged ==
    ~env.mayFail /\ env.sleepsSuffice => <>[](main = "returned" /\ logged = ThreadAmount)

Stage(w) ==
    CASE pc[w] \in BeforeBarrier                -> "arriving"
      [] pc[w] = "spin"                         -> "waiting"
      [] pc[w] \in {"send", "wgDone", "done"}   -> "left"
      [] OTHER                                  -> "released"

stageOf == [w \in Worker |-> Stage(w)]

\* The counter, mutex and polling loop implement the promised batch barrier:
\* the handovers begin when everyone has arrived, and who has a session by
\* then makes no difference.
Abstract == INSTANCE BatchBarrier WITH stage <- stageOf
ImplementsBarrier == Abstract!Spec

=============================================================================
