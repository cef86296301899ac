----------------------- MODULE HandoverBarrierProofs ------------------------
(***************************************************************************)
(* Proofs about HandoverBarrier, for every finite non-empty set of workers *)
(* and for every set of environments.  TypeOK and the properties are       *)
(* not inductive; IInv adds who holds the mutex, what its holder has       *)
(* loaded, what the counts count and which value of the counter shows that *)
(* everybody has arrived.                                                  *)
(***************************************************************************)
EXTENDS HandoverBarrier, FiniteSetTheorems, TLAPS

At(f, S) == {v \in Worker : f[v] \in S}

Sent    == {"wgDone", "done"}
NotDone == Location \ {"done"}

Typed ==
    /\ env \in Environments
    /\ session \subseteq Worker
    /\ pc \in [Worker -> Location]
    /\ tmp \in [Worker -> 0..ThreadAmount]
    /\ counter \in Nat
    /\ peak \in 0..ThreadAmount
    /\ mu \in Worker \cup {NoOne}
    /\ wg \in 0..ThreadAmount
    /\ queued \in Nat
    /\ logged \in Nat
    /\ logger \in {"opening", "reading", "gone", "finished"}
    /\ main \in {"start", "spawn", "wait", "closed", "returned", "crashed"}

\* Exactly the worker inside inc, block or dec holds the mutex.
MutexHeld == \A w \in Worker : pc[w] \in Holding <=> mu = w

\* What the holder has loaded is still the counter's value.
LoadedIsCurrent ==
    \A w \in Worker : pc[w] \in {"incStore", "decStore"} => tmp[w] = counter

\* A counter value of thread_amount is only ever seen when all have arrived.
PeakMeansAll ==
    peak >= ThreadAmount => \A v \in Worker : pc[v] \notin BeforeBarrier

PeakBounds == counter <= peak

NobodyStarted == main = "start" => \A w \in Worker : pc[w] = "unstarted"

WgCounts ==
    main \in {"spawn", "wait", "closed"} => wg = Cardinality(At(pc, NotDone))

SentCounts == queued + logged = Cardinality(At(pc, Sent))

ClosedMeansDone == main = "closed" => \A w \in Worker : pc[w] = "done"

IInv ==
    /\ Typed
    /\ MutexHeld
    /\ LoadedIsCurrent
    /\ counter = Cardinality(At(pc, Counted))
    /\ PeakBounds
    /\ PeakMeansAll
    /\ NoEarlyStart
    /\ NobodyStarted
    /\ WgCounts
    /\ SentCounts
    /\ ClosedMeansDone

-----------------------------------------------------------------------------
(* Counting workers                                                         *)

\* The batch size is a positive number.
LEMMA ThreadAmountType == ThreadAmount \in Nat /\ ThreadAmount > 0
BY WorkerAssumption, FS_CardinalityType, FS_EmptySet DEF ThreadAmount

\* A set of workers is finite and not larger than the batch; a set as large
\* as the batch is the batch.
LEMMA CountType ==
    ASSUME NEW f, NEW S
    PROVE  /\ IsFiniteSet(At(f, S))
           /\ Cardinality(At(f, S)) \in 0..ThreadAmount
           /\ Cardinality(At(f, S)) = ThreadAmount => At(f, S) = Worker
           /\ Cardinality(At(f, S)) = 0 => At(f, S) = {}
<1>1. At(f, S) \in SUBSET Worker
  BY DEF At
<1>2. /\ IsFiniteSet(At(f, S))
      /\ Cardinality(At(f, S)) <= ThreadAmount
      /\ Cardinality(At(f, S)) = ThreadAmount => At(f, S) = Worker
  BY <1>1, WorkerAssumption, FS_Subset DEF ThreadAmount
<1>3. Cardinality(At(f, S)) \in Nat
  BY <1>2, FS_CardinalityType
<1>4. Cardinality(At(f, S)) = 0 => At(f, S) = {}
  BY <1>2, FS_EmptySet
<1> QED
  BY <1>2, <1>3, <1>4, ThreadAmountType

\* One worker's move changes a count by what it enters and what it leaves.
LEMMA CountMove ==
    ASSUME NEW f \in [Worker -> Location], NEW w \in Worker,
           NEW to \in Location, NEW S
    PROVE  LET g == [f EXCEPT ![w] = to]
           IN  /\ (f[w] \in S <=> to \in S) => Cardinality(At(g, S)) = Cardinality(At(f, S))
               /\ (f[w] \notin S /\ to \in S) => Cardinality(At(g, S)) = Cardinality(At(f, S)) + 1
               /\ (f[w] \in S /\ to \notin S) => Cardinality(At(g, S)) = Cardinality(At(f, S)) - 1
<1> DEFINE g == [f EXCEPT ![w] = to]
<1>1. CASE f[w] \in S <=> to \in S
  <2>1. At(g, S) = At(f, S)
    BY <1>1 DEF At
  <2> QED BY <2>1, <1>1
<1>2. CASE f[w] \notin S /\ to \in S
  <2>1. At(g, S) = At(f, S) \cup {w} /\ w \notin At(f, S)
    BY <1>2 DEF At
  <2>2. Cardinality(At(f, S) \cup {w}) = Cardinality(At(f, S)) + 1
    <3>1. IsFiniteSet(At(f, S)) BY CountType, Zenon
    <3> QED BY <2>1, <3>1, FS_AddElement, Zenon
  <2> QED BY <1>2, <2>1, <2>2, Zenon
<1>3. CASE f[w] \in S /\ to \notin S
  <2>1. At(g, S) = At(f, S) \ {w} /\ w \in At(f, S)
    BY <1>3 DEF At
  <2>2. Cardinality(At(f, S) \ {w}) = Cardinality(At(f, S)) - 1
    <3>1. IsFiniteSet(At(f, S)) BY CountType, Zenon
    <3> QED BY <2>1, <3>1, FS_RemoveElement, Zenon
  <2> QED BY <1>3, <2>1, <2>2, Zenon
<1> QED BY <1>1, <1>2, <1>3

-----------------------------------------------------------------------------
(* The inductive invariant                                                  *)

\* The invariant's counts after a worker's move, and where the others are.
LEMMA GotoCounts ==
    ASSUME Typed, NEW w \in Worker, NEW from, NEW to \in Location, Goto(w, from, to)
    PROVE  /\ pc' \in [Worker -> Location]
           /\ pc[w] = from /\ pc'[w] = to
           /\ \A v \in Worker \ {w} : pc'[v] = pc[v]
           /\ \A S : (from \in S <=> to \in S) =>
                     Cardinality(At(pc', S)) = Cardinality(At(pc, S))
           /\ \A S : (from \notin S /\ to \in S) =>
                     Cardinality(At(pc', S)) = Cardinality(At(pc, S)) + 1
           /\ \A S : (from \in S /\ to \notin S) =>
                     Cardinality(At(pc', S)) = Cardinality(At(pc, S)) - 1
<1>1. pc \in [Worker -> Location] /\ pc[w] = from /\ pc' = [pc EXCEPT ![w] = to]
  BY DEF Typed, Goto
<1>2. pc' \in [Worker -> Location] /\ pc'[w] = to /\ \A v \in Worker \ {w} : pc'[v] = pc[v]
  BY <1>1
<1>3. ASSUME NEW S
      PROVE  /\ (from \in S <=> to \in S) => Cardinality(At(pc', S)) = Cardinality(At(pc, S))
             /\ (from \notin S /\ to \in S) => Cardinality(At(pc', S)) = Cardinality(At(pc, S)) + 1
             /\ (from \in S /\ to \notin S) => Cardinality(At(pc', S)) = Cardinality(At(pc, S)) - 1
  BY <1>1, CountMove, ZenonT(60)
<1> QED BY <1>1, <1>2, <1>3, Zenon

\* The program starts with every count at zero.
LEMMA InitIInv == Init => IInv
<1> SUFFICES ASSUME Init PROVE IInv
  OBVIOUS
<1>1. At(pc, Counted) = {} /\ At(pc, Sent) = {}
  BY DEF Init, At, Counted, Sent
<1>2. Cardinality(At(pc, Counted)) = 0 /\ Cardinality(At(pc, Sent)) = 0
  BY <1>1, FS_EmptySet
<1>3. Typed /\ MutexHeld /\ NoEarlyStart
  BY NoOneAssumption, ThreadAmountType
     DEF Init, Typed, Location, BeforeBarrier, Counted, PastBarrier, Holding, MutexHeld, NoEarlyStart
<1> QED
  BY <1>2, <1>3, ThreadAmountType
     DEF Init, IInv, LoadedIsCurrent, PeakBounds, PeakMeansAll, NobodyStarted, WgCounts,
         SentCounts, ClosedMeansDone

\* The steps of the test function and of FileLogger keep the invariant.
LEMMA TestingKeepsIInv == IInv /\ (Testing \/ Logging) => IInv'
<1> SUFFICES ASSUME IInv, Testing \/ Logging PROVE IInv'
  OBVIOUS
<1> USE ThreadAmountType DEF IInv, Typed, MutexHeld, LoadedIsCurrent, PeakBounds, PeakMeansAll,
        NoEarlyStart, NobodyStarted, WgCounts, SentCounts, ClosedMeansDone, barrier, log, Running
<1>1. CASE RejectArgument
  BY <1>1 DEF RejectArgument
<1>2. CASE Begin
  <2>1. At(pc, Counted) = {} /\ At(pc, NotDone) = Worker
    BY <1>2 DEF Begin, At, Counted, NotDone, Location, BeforeBarrier
  <2>2. Cardinality(At(pc, Counted)) = 0 /\ Cardinality(At(pc, NotDone)) = ThreadAmount
    BY <2>1, FS_EmptySet DEF ThreadAmount
  <2> QED BY <1>2, <2>2 DEF Begin
<1>3. CASE WaitAndClose
  <2>1. At(pc, NotDone) = {}
    BY <1>3, CountType DEF WaitAndClose
  <2>2. \A w \in Worker : pc[w] = "done"
    BY <2>1 DEF At, NotDone
  <2> QED BY <1>3, <2>2 DEF WaitAndClose
<1>4. CASE Return
  BY <1>4 DEF Return
<1>5. CASE LoggerOpens \/ LoggerGivesUp \/ LoggerFinishes
  BY <1>5 DEF LoggerOpens, LoggerGivesUp, LoggerFinishes
<1>6. CASE LoggerWrites
  BY <1>6 DEF LoggerWrites
<1> QED BY <1>1, <1>2, <1>3, <1>4, <1>5, <1>6 DEF Testing, Logging

\* A step of worker w from one location to another, and nothing it holds,
\* counts, stores or sends.  Spawning may also end main's loop.
QuietMove(w, from, to) ==
    /\ Goto(w, from, to)
    /\ from \in Counted <=> to \in Counted
    /\ from \in Sent <=> to \in Sent
    /\ from \in NotDone <=> to \in NotDone
    /\ from \in Holding <=> to \in Holding
    /\ to \notin {"incStore", "decStore", "unstarted"}
    /\ to \in BeforeBarrier => from \in BeforeBarrier
    /\ to \in PastBarrier => from \in PastBarrier \/ peak >= ThreadAmount
    /\ from = "unstarted" => main = "spawn"
    /\ main' = main \/ (main = "spawn" /\ main' = "wait")
    /\ UNCHANGED <<env, tmp, counter, peak, mu, wg, queued, logged, logger>>
    /\ session' \in {session, session \cup {w}}

\* Such a step keeps the invariant.
LEMMA QuietMoveKeepsIInv ==
    ASSUME IInv, NEW w \in Worker, NEW from, NEW to \in Location, QuietMove(w, from, to)
    PROVE  IInv'
<1>1. Typed /\ Goto(w, from, to)
  BY DEF IInv, QuietMove
<1>2. /\ pc' \in [Worker -> Location]
      /\ pc[w] = from /\ pc'[w] = to
      /\ \A v \in Worker \ {w} : pc'[v] = pc[v]
  BY <1>1, GotoCounts
<1>3. /\ Cardinality(At(pc', Counted)) = Cardinality(At(pc, Counted))
      /\ Cardinality(At(pc', Sent)) = Cardinality(At(pc, Sent))
      /\ Cardinality(At(pc', NotDone)) = Cardinality(At(pc, NotDone))
  BY <1>1, GotoCounts DEF QuietMove
<1>4. Typed'
  BY <1>2 DEF IInv, Typed, QuietMove
<1>5. MutexHeld' /\ LoadedIsCurrent'
  BY <1>2 DEF IInv, MutexHeld, LoadedIsCurrent, QuietMove
<1>6. PeakBounds' /\ PeakMeansAll' /\ NoEarlyStart'
  BY <1>2 DEF IInv, PeakBounds, PeakMeansAll, NoEarlyStart, QuietMove
<1>7. NobodyStarted' /\ WgCounts' /\ SentCounts'
  BY <1>2, <1>3 DEF IInv, NobodyStarted, WgCounts, SentCounts, QuietMove
<1>8. ClosedMeansDone'
  BY <1>2 DEF IInv, ClosedMeansDone, QuietMove, NotDone, Location, BeforeBarrier
<1> QED
  BY <1>3, <1>4, <1>5, <1>6, <1>7, <1>8 DEF IInv, QuietMove

\* Every step of SingleN2Handover that leaves lock and counter alone keeps
\* the invariant.
LEMMA ProcedureKeepsIInv ==
    ASSUME IInv, NEW w \in Worker,
           \/ Spawn(w) \/ Register(w) \/ EstablishSession(w) \/ EstablishNothing(w)
           \/ Abort(w) \/ Panic(w)
           \/ SpinSeesCurrent(w) \/ SpinSeesStale(w) \/ HandOver(w) \/ CleanUp(w)
    PROVE  IInv'
<1> USE DEF QuietMove, Location, BeforeBarrier, Counted, PastBarrier, Holding, Sent, NotDone,
        barrier, log
<1>1. CASE Spawn(w)
  BY <1>1, QuietMoveKeepsIInv DEF Spawn
<1>2. CASE Register(w) \/ EstablishSession(w) \/ EstablishNothing(w)
  BY <1>2, QuietMoveKeepsIInv DEF Register, EstablishSession, EstablishNothing
<1>3. CASE Abort(w)
  BY <1>3, QuietMoveKeepsIInv DEF Abort
<1>4. CASE Panic(w)
  BY <1>4 DEF Panic, IInv, Typed, MutexHeld, LoadedIsCurrent, PeakBounds, PeakMeansAll,
     NoEarlyStart, NobodyStarted, WgCounts, SentCounts, ClosedMeansDone
<1>5. CASE SpinSeesCurrent(w)
  <2>1. peak >= ThreadAmount
    BY <1>5, ThreadAmountType DEF SpinSeesCurrent, IInv, Typed, PeakBounds
  <2> QED BY <1>5, <2>1, QuietMoveKeepsIInv DEF SpinSeesCurrent
<1>6. CASE SpinSeesStale(w)
  BY <1>6, QuietMoveKeepsIInv DEF SpinSeesStale
<1>7. CASE HandOver(w)
  BY <1>7, QuietMoveKeepsIInv DEF HandOver
<1>8. CASE CleanUp(w)
  BY <1>8, QuietMoveKeepsIInv DEF CleanUp
<1> QED BY <1>1, <1>2, <1>3, <1>4, <1>5, <1>6, <1>7, <1>8

\* A step of worker w that counts it neither as sent nor as done and moves it
\* neither back nor over the barrier.
SteadyMove(w, from, to) ==
    /\ Goto(w, from, to)
    /\ from \in Sent <=> to \in Sent
    /\ from \in NotDone <=> to \in NotDone
    /\ from # "unstarted" /\ to # "unstarted"
    /\ to \in BeforeBarrier => from \in BeforeBarrier
    /\ to \in PastBarrier => from \in PastBarrier
    /\ UNCHANGED <<env, session, wg, queued, logged, logger, main>>

\* Such a step keeps what the invariant says of everything but the lock.
LEMMA SteadyMoveKeeps ==
    ASSUME IInv, NEW w \in Worker, NEW from, NEW to \in Location, SteadyMove(w, from, to)
    PROVE  /\ NoEarlyStart' /\ NobodyStarted' /\ WgCounts' /\ SentCounts' /\ ClosedMeansDone'
           /\ pc' \in [Worker -> Location]
           /\ pc[w] = from /\ pc'[w] = to
           /\ \A v \in Worker \ {w} : pc'[v] = pc[v]
<1>1. Typed /\ Goto(w, from, to)
  BY DEF IInv, SteadyMove
<1>2. /\ pc' \in [Worker -> Location]
      /\ pc[w] = from /\ pc'[w] = to
      /\ \A v \in Worker \ {w} : pc'[v] = pc[v]
  BY <1>1, GotoCounts
<1>3. /\ Cardinality(At(pc', Sent)) = Cardinality(At(pc, Sent))
      /\ Cardinality(At(pc', NotDone)) = Cardinality(At(pc, NotDone))
  BY <1>1, GotoCounts DEF SteadyMove
<1>4. NoEarlyStart'
  BY <1>2 DEF IInv, NoEarlyStart, SteadyMove
<1>5. NobodyStarted' /\ WgCounts' /\ SentCounts'
  BY <1>2, <1>3 DEF IInv, NobodyStarted, WgCounts, SentCounts, SteadyMove
<1>6. ClosedMeansDone'
  BY <1>2 DEF IInv, ClosedMeansDone, SteadyMove, NotDone, Location, BeforeBarrier
<1> QED
  BY <1>2, <1>4, <1>5, <1>6

\* The steps inside inc, block and dec keep the invariant.
LEMMA LockStepsKeepIInv ==
    ASSUME IInv, NEW w \in Worker,
           \/ IncLock(w) \/ IncLoad(w) \/ IncStore(w) \/ BlockLock(w) \/ BlockUnlock(w)
           \/ DecLock(w) \/ DecLoad(w) \/ DecStore(w)
    PROVE  IInv'
<1> DEFINE Moves(from, to) ==
        /\ NoEarlyStart' /\ NobodyStarted' /\ WgCounts' /\ SentCounts' /\ ClosedMeansDone'
        /\ pc' \in [Worker -> Location]
        /\ pc[w] = from /\ pc'[w] = to
        /\ \A v \in Worker \ {w} : pc'[v] = pc[v]
<1> DEFINE LockInv == /\ MutexHeld /\ LoadedIsCurrent /\ PeakBounds /\ PeakMeansAll
                      /\ counter = Cardinality(At(pc, Counted))
                      /\ Typed
<1>0. counter \in 0..ThreadAmount /\ LockInv /\ NoOne \notin Worker
  BY CountType, NoOneAssumption DEF IInv
<1>. USE ThreadAmountType
<1>1. CASE IncLock(w) \/ BlockLock(w) \/ DecLock(w)
  <2>1. PICK from, to \in Location :
          /\ SteadyMove(w, from, to)
          /\ from \in Counted <=> to \in Counted
          /\ from \notin Holding /\ to \in Holding \ {"incStore", "decStore"}
    BY <1>1 DEF IncLock, BlockLock, DecLock, SteadyMove, Location, BeforeBarrier, Counted,
       PastBarrier, Holding, Sent, NotDone, log
  <2>2. Moves(from, to)
    BY <2>1, SteadyMoveKeeps
  <2>3. Cardinality(At(pc', Counted)) = Cardinality(At(pc, Counted))
    BY <2>1, GotoCounts DEF SteadyMove, IInv
  <2>4. mu = NoOne /\ mu' = w /\ UNCHANGED <<tmp, counter, peak>>
    BY <1>1 DEF IncLock, BlockLock, DecLock, Acquire
  <2>5. Typed'
    BY <1>0, <2>1, <2>2, <2>4 DEF Typed, SteadyMove
  <2>6. MutexHeld' /\ LoadedIsCurrent'
    BY <1>0, <2>1, <2>2, <2>4 DEF MutexHeld, LoadedIsCurrent
  <2>7. PeakBounds' /\ PeakMeansAll'
    BY <1>0, <2>1, <2>2, <2>4 DEF PeakBounds, PeakMeansAll, SteadyMove
  <2> QED BY <1>0, <2>2, <2>3, <2>4, <2>5, <2>6, <2>7 DEF IInv
<1>2. CASE IncLoad(w) \/ DecLoad(w)
  <2>1. PICK from, to \in Location :
          /\ SteadyMove(w, from, to)
          /\ from \in Counted <=> to \in Counted
          /\ from \in Holding /\ to \in Holding
    BY <1>2 DEF IncLoad, DecLoad, SteadyMove, Location, BeforeBarrier, Counted,
       PastBarrier, Holding, Sent, NotDone, log
  <2>2. Moves(from, to)
    BY <2>1, SteadyMoveKeeps
  <2>3. Cardinality(At(pc', Counted)) = Cardinality(At(pc, Counted))
    BY <2>1, GotoCounts DEF SteadyMove, IInv
  <2>4. tmp' = [tmp EXCEPT ![w] = counter] /\ UNCHANGED <<mu, counter, peak>>
    BY <1>2 DEF IncLoad, DecLoad
  <2>5. Typed'
    BY <1>0, <2>1, <2>2, <2>4 DEF Typed, SteadyMove
  <2>6. MutexHeld'
    BY <1>0, <2>1, <2>2, <2>4 DEF MutexHeld
  <2>7. LoadedIsCurrent'
    BY <1>0, <2>2, <2>4 DEF LoadedIsCurrent, Typed
  <2>8. PeakBounds' /\ PeakMeansAll'
    BY <1>0, <2>1, <2>2, <2>4 DEF PeakBounds, PeakMeansAll, SteadyMove
  <2> QED BY <1>0, <2>2, <2>3, <2>4, <2>5, <2>6, <2>7, <2>8 DEF IInv
<1>3. CASE IncStore(w)
  <2>1. SteadyMove(w, "incStore", "spin") /\ "spin" \in Location
    BY <1>3 DEF IncStore, SteadyMove, Location, BeforeBarrier, Counted,
       PastBarrier, Sent, NotDone, log
  <2>2. Moves("incStore", "spin")
    BY <2>1, SteadyMoveKeeps
  <2>3. Cardinality(At(pc', Counted)) = Cardinality(At(pc, Counted)) + 1
    BY <2>1, GotoCounts DEF SteadyMove, IInv, Counted
  <2>4. /\ tmp[w] = counter /\ counter' = counter + 1 /\ mu' = NoOne
        /\ peak' = (IF counter + 1 > peak THEN counter + 1 ELSE peak)
        /\ tmp' = tmp
    BY <1>0, <1>3, <2>2 DEF IncStore, LoadedIsCurrent
  <2>5. counter' = Cardinality(At(pc', Counted)) /\ counter' \in 0..ThreadAmount
    BY <1>0, <2>3, <2>4, CountType
  <2>6. counter' >= ThreadAmount => \A v \in Worker : pc'[v] \in Counted
    <3> SUFFICES ASSUME counter' >= ThreadAmount PROVE \A v \in Worker : pc'[v] \in Counted
      OBVIOUS
    <3>1. At(pc', Counted) = Worker
      BY <2>5, CountType
    <3> QED BY <3>1 DEF At
  <2>7. Typed' /\ PeakBounds'
    BY <1>0, <2>1, <2>2, <2>4, <2>5 DEF Typed, PeakBounds, SteadyMove
  <2>8. MutexHeld'
    BY <1>0, <2>2, <2>4 DEF MutexHeld, Holding
  <2>9. LoadedIsCurrent'
    BY <1>0, <2>2, <2>4 DEF LoadedIsCurrent, MutexHeld, Holding
  <2>10. PeakMeansAll'
    <3>1. CASE peak >= ThreadAmount
      BY <1>0, <3>1, <2>2 DEF PeakMeansAll, BeforeBarrier
    <3>2. CASE ~(peak >= ThreadAmount)
      <4>1. peak' >= ThreadAmount => counter' >= ThreadAmount
        BY <1>0, <2>4, <3>2 DEF Typed
      <4> QED BY <2>6, <4>1 DEF PeakMeansAll, Counted, BeforeBarrier
    <3> QED BY <3>1, <3>2
  <2> QED BY <2>2, <2>5, <2>7, <2>8, <2>9, <2>10 DEF IInv
<1>4. CASE BlockUnlock(w)
  <2>1. SteadyMove(w, "blockUnlock", "handover") /\ "handover" \in Location
    BY <1>4 DEF BlockUnlock, SteadyMove, Location, BeforeBarrier, Counted, PastBarrier,
       Sent, NotDone, log
  <2>2. Moves("blockUnlock", "handover")
    BY <2>1, SteadyMoveKeeps
  <2>3. Cardinality(At(pc', Counted)) = Cardinality(At(pc, Counted))
    BY <2>1, GotoCounts DEF SteadyMove, IInv, Counted
  <2>4. mu' = NoOne /\ UNCHANGED <<tmp, counter, peak>>
    BY <1>4 DEF BlockUnlock
  <2>5. Typed'
    BY <1>0, <2>1, <2>2, <2>4 DEF Typed, SteadyMove
  <2>6. MutexHeld' /\ LoadedIsCurrent'
    BY <1>0, <2>2, <2>4 DEF MutexHeld, LoadedIsCurrent, Holding
  <2>7. PeakBounds' /\ PeakMeansAll'
    BY <1>0, <2>2, <2>4 DEF PeakBounds, PeakMeansAll, BeforeBarrier
  <2> QED BY <1>0, <2>2, <2>3, <2>4, <2>5, <2>6, <2>7 DEF IInv
<1>5. CASE DecStore(w)
  <2>1. SteadyMove(w, "decStore", "send") /\ "send" \in Location
    BY <1>5 DEF DecStore, SteadyMove, Location, BeforeBarrier, Counted,
       PastBarrier, Sent, NotDone, log
  <2>2. Moves("decStore", "send")
    BY <2>1, SteadyMoveKeeps
  <2>3. Cardinality(At(pc', Counted)) = Cardinality(At(pc, Counted)) - 1
    BY <2>1, GotoCounts DEF SteadyMove, IInv, Counted
  <2>4. /\ tmp[w] = counter /\ counter' = counter - 1 /\ mu' = NoOne
        /\ UNCHANGED <<tmp, peak>>
    BY <1>0, <1>5, <2>2 DEF DecStore, LoadedIsCurrent
  <2>5. counter' = Cardinality(At(pc', Counted)) /\ counter' \in 0..ThreadAmount
    BY <1>0, <2>3, <2>4, CountType
  <2>6. Typed' /\ PeakBounds'
    BY <1>0, <2>1, <2>2, <2>4, <2>5 DEF Typed, PeakBounds, SteadyMove
  <2>7. MutexHeld'
    BY <1>0, <2>2, <2>4 DEF MutexHeld, Holding
  <2>8. LoadedIsCurrent'
    BY <1>0, <2>2, <2>4 DEF LoadedIsCurrent, MutexHeld, Holding
  <2>9. PeakMeansAll'
    BY <1>0, <2>2, <2>4 DEF PeakMeansAll, BeforeBarrier
  <2> QED BY <2>2, <2>5, <2>6, <2>7, <2>8, <2>9 DEF IInv
<1> QED BY <1>1, <1>2, <1>3, <1>4, <1>5

\* Delivering the latency and wg.Done keep the invariant.
LEMMA ReportingKeepsIInv ==
    ASSUME IInv, NEW w \in Worker, Reporting(w)
    PROVE  IInv'
<1> USE ThreadAmountType
    DEF Location, BeforeBarrier, Counted, PastBarrier, Holding, Sent, NotDone, barrier, log
<1> USE DEF IInv, Typed, MutexHeld, LoadedIsCurrent, PeakBounds, PeakMeansAll,
        NoEarlyStart, NobodyStarted, WgCounts, SentCounts, ClosedMeansDone
<1>1. CASE Send(w)
  <2>1. Goto(w, "send", "wgDone")
    BY <1>1 DEF Send
  <2> QED BY <1>1, <2>1, GotoCounts DEF Send
<1>2. CASE WgDone(w)
  <2>1. Goto(w, "wgDone", "done")
    BY <1>2 DEF WgDone
  <2>2. main \in {"spawn", "wait", "closed"}
    BY <2>1 DEF Goto, Running
  <2>3. wg' = Cardinality(At(pc', NotDone)) /\ wg' \in 0..ThreadAmount
    BY <1>2, <2>1, <2>2, GotoCounts, CountType DEF WgDone
  <2> QED BY <1>2, <2>1, <2>2, <2>3, GotoCounts DEF WgDone
<1> QED BY <1>1, <1>2 DEF Reporting

\* IInv holds in every reachable state.
THEOREM Invariance == Spec => []IInv
<1>1. IInv /\ [Next]_vars => IInv'
  <2> SUFFICES ASSUME IInv, [Next]_vars PROVE IInv'
    OBVIOUS
  <2>1. CASE Testing \/ Logging
    BY <2>1, TestingKeepsIInv
  <2>2. ASSUME NEW w \in Worker,
               Arriving(w) \/ Waiting(w) \/ SpinSeesStale(w)
               \/ Leaving(w) \/ Reporting(w) \/ Failing(w)
        PROVE  IInv'
    BY <2>2, ProcedureKeepsIInv, LockStepsKeepIInv, ReportingKeepsIInv
       DEF Arriving, Waiting, Leaving, Failing
  <2>3. CASE UNCHANGED vars
    BY <2>3 DEF vars, IInv, Typed, MutexHeld, LoadedIsCurrent, PeakBounds, PeakMeansAll,
       NoEarlyStart, NobodyStarted, WgCounts, SentCounts, ClosedMeansDone, At
  <2> QED BY <2>1, <2>2, <2>3 DEF Next, Over
<1> QED BY <1>1, InitIInv, PTL DEF Spec

-----------------------------------------------------------------------------
(* The properties the runs check                                            *)

\* Every variable stays in its range; in particular neither the counter nor
\* the WaitGroup ever becomes negative or exceeds the batch.
THEOREM TypeCorrect == Spec => []TypeOK
<1>1. IInv => TypeOK
  BY CountType, ThreadAmountType DEF IInv, Typed, TypeOK, SentCounts
<1> QED BY <1>1, Invariance, PTL

\* No increment or decrement of the barrier's counter is ever lost.
THEOREM CounterCorrect == Spec => []CounterIsArrivals
<1>1. IInv => CounterIsArrivals
  BY DEF IInv, CounterIsArrivals, At
<1> QED BY <1>1, Invariance, PTL

\* No handover starts before every worker has registered its UE and tried to
\* establish its session, although the loop that guards it reads the counter
\* without the lock.
THEOREM BarrierSafe == Spec => []NoEarlyStart
<1>1. IInv => NoEarlyStart
  BY DEF IInv
<1> QED BY <1>1, Invariance, PTL

\* A worker that a failed require has ended, which can only happen while it
\* registers, stops the batch and the test.
THEOREM LostWorker == Spec => []LostWorkerStopsBatch
<1>1. IInv => LostWorkerStopsBatch
  BY DEF IInv, LostWorkerStopsBatch, NoEarlyStart, ClosedMeansDone, BeforeBarrier
<1> QED BY <1>1, Invariance, PTL

\* The latency channel is closed only after every worker's send.
THEOREM ClosedAfterSends == Spec => []ClosedAfterAllSends
<1>1. IInv => ClosedAfterAllSends
  <2> SUFFICES ASSUME IInv, main = "closed" PROVE ClosedAfterAllSends
    BY DEF ClosedAfterAllSends
  <2>1. \A w \in Worker : pc[w] = "done"
    BY DEF IInv, ClosedMeansDone
  <2>2. At(pc, Sent) = Worker
    BY <2>1 DEF At, Sent
  <2> QED BY <2>1, <2>2 DEF IInv, SentCounts, ClosedAfterAllSends, ThreadAmount
<1> QED BY <1>1, Invariance, PTL

\* No worker is ever blocked by the logger.
THEOREM SendsNeverBlock == Spec => []SendNeverBlocks
<1>1. IInv => SendNeverBlocks
  BY CountType, ThreadAmountType
     DEF IInv, Typed, SentCounts, SendNeverBlocks, ChanCapacity
<1> QED BY <1>1, Invariance, PTL

\* No latency is lost in the channel and none is kept out of it.
THEOREM DeliveryCorrect == Spec => []LatenciesDelivered
BY ClosedAfterSends, SendsNeverBlock, PTL DEF LatenciesDelivered

-----------------------------------------------------------------------------
(* Refinement                                                               *)

\* A worker's move in the barrier is a move, or a stutter, of the batch.
LEMMA StageMove ==
    ASSUME IInv, NEW w \in Worker, NEW from, NEW to \in Location, Goto(w, from, to)
    PROVE  stageOf' = [stageOf EXCEPT ![w] = Stage(w)']
<1>1. /\ pc' \in [Worker -> Location]
      /\ \A v \in Worker \ {w} : pc'[v] = pc[v]
  BY GotoCounts DEF IInv
<1>2. \A v \in Worker \ {w} : Stage(v)' = Stage(v)
  BY <1>1 DEF Stage
<1> QED BY <1>2 DEF stageOf

\* The lock, the counter and the polling loop implement BatchBarrier: whoever
\* is not through its registration, or is still trying to establish a session,
\* keeps all the handovers from starting; a failed establishment keeps none.
THEOREM Refinement == Spec => ImplementsBarrier
<1>1. Init => Abstract!Init
  BY DEF Init, Abstract!Init, stageOf, Stage, BeforeBarrier
<1>2. IInv /\ [Next]_vars => [Abstract!Next]_(Abstract!vars)
  <2> SUFFICES ASSUME IInv, [Next]_vars PROVE Abstract!Next \/ UNCHANGED Abstract!vars
    OBVIOUS
  <2> USE DEF Location, BeforeBarrier, Counted, PastBarrier
  <2>1. CASE Testing \/ Logging \/ UNCHANGED vars
    <3>1. pc' = pc /\ session' = session
      BY <2>1 DEF Testing, Logging, RejectArgument, Begin, WaitAndClose, Return, LoggerOpens,
         LoggerGivesUp, LoggerWrites, LoggerFinishes, vars
    <3> QED BY <3>1 DEF stageOf, Stage, Abstract!vars
  <2>2. ASSUME NEW w \in Worker, Panic(w)
        PROVE  UNCHANGED Abstract!vars
    BY <2>2 DEF Panic, stageOf, Stage, Abstract!vars
  <2>3. ASSUME NEW w \in Worker, SpinSeesCurrent(w) \/ SpinSeesStale(w)
        PROVE  Abstract!Release(w)
    <3>1. Goto(w, "spin", "blockLock") /\ peak >= ThreadAmount /\ session' = session
      BY <2>3, ThreadAmountType DEF SpinSeesCurrent, SpinSeesStale, IInv, Typed, PeakBounds
    <3>2. stageOf' = [stageOf EXCEPT ![w] = Stage(w)']
      BY <3>1, StageMove
    <3>3. pc[w] = "spin" /\ pc'[w] = "blockLock"
      BY <3>1, GotoCounts DEF IInv
    <3>4. \A v \in Worker : Stage(v) # "arriving"
      BY <3>1 DEF IInv, PeakMeansAll, Stage
    <3> QED BY <3>1, <3>2, <3>3, <3>4 DEF Abstract!Release, stageOf, Stage
  <2>4. ASSUME NEW w \in Worker, IncStore(w)
        PROVE  Abstract!Arrive(w)
    <3>1. Goto(w, "incStore", "spin") /\ session' = session
      BY <2>4 DEF IncStore
    <3>2. stageOf' = [stageOf EXCEPT ![w] = Stage(w)']
      BY <3>1, StageMove
    <3>3. pc[w] = "incStore" /\ pc'[w] = "spin"
      BY <3>1, GotoCounts DEF IInv
    <3> QED BY <3>1, <3>2, <3>3 DEF Abstract!Arrive, stageOf, Stage
  <2>5. ASSUME NEW w \in Worker, DecStore(w)
        PROVE  Abstract!Leave(w)
    <3>1. Goto(w, "decStore", "send") /\ session' = session
      BY <2>5 DEF DecStore
    <3>2. stageOf' = [stageOf EXCEPT ![w] = Stage(w)']
      BY <3>1, StageMove
    <3>3. pc[w] = "decStore" /\ pc'[w] = "send"
      BY <3>1, GotoCounts DEF IInv
    <3> QED BY <3>1, <3>2, <3>3 DEF Abstract!Leave, stageOf, Stage
  <2>6. ASSUME NEW w \in Worker,
               NEW from, NEW to \in Location, Goto(w, from, to),
               \/ from \in BeforeBarrier /\ to \in BeforeBarrier
               \/ from \in {"send", "wgDone"} /\ to \in {"wgDone", "done"}
               \/ /\ from \in PastBarrier \ {"send", "wgDone", "done"}
                  /\ to \in PastBarrier \ {"send", "wgDone", "done"}
        PROVE  stageOf' = stageOf
    <3>1. stageOf' = [stageOf EXCEPT ![w] = Stage(w)']
      BY <2>6, StageMove
    <3>2. pc[w] = from /\ pc'[w] = to
      BY <2>6, GotoCounts DEF IInv
    <3>3. Stage(w)' = Stage(w)
      BY <2>6, <3>2 DEF Stage
    <3> QED BY <3>1, <3>3 DEF stageOf
  <2>7. ASSUME NEW w \in Worker,
               \/ Spawn(w) \/ Register(w) \/ EstablishNothing(w) \/ Abort(w)
               \/ IncLock(w) \/ IncLoad(w) \/ BlockLock(w) \/ BlockUnlock(w)
               \/ HandOver(w) \/ CleanUp(w) \/ DecLock(w) \/ DecLoad(w)
               \/ Send(w) \/ WgDone(w)
        PROVE  UNCHANGED Abstract!vars
    <3>1. stageOf' = stageOf
      BY <2>6, <2>7 DEF Spawn, Register, EstablishNothing, Abort, IncLock, IncLoad, BlockLock,
         BlockUnlock, HandOver, CleanUp, DecLock, DecLoad, Send, WgDone
    <3>2. session' = session
      BY <2>7 DEF Spawn, Register, EstablishNothing, Abort, IncLock, IncLoad, BlockLock,
         BlockUnlock, HandOver, CleanUp, DecLock, DecLoad, Send, WgDone
    <3> QED BY <3>1, <3>2 DEF Abstract!vars
  <2>8. ASSUME NEW w \in Worker, EstablishSession(w)
        PROVE  Abstract!Establish(w)
    <3>1. Goto(w, "session", "incLock") /\ session' = session \cup {w}
      BY <2>8 DEF EstablishSession
    <3>2. pc[w] = "session"
      BY <3>1, GotoCounts DEF IInv
    <3>3. stageOf' = stageOf
      BY <2>6, <3>1
    <3> QED BY <3>1, <3>2, <3>3 DEF Abstract!Establish, stageOf, Stage
  <2> QED
    BY <2>1, <2>2, <2>3, <2>4, <2>5, <2>7, <2>8
       DEF Next, Over, Arriving, Waiting, Leaving, Reporting, Failing, Abstract!Next
<1> QED BY <1>1, <1>2, Invariance, PTL DEF Spec, Abstract!Spec, ImplementsBarrier

=============================================================================
