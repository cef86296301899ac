-------------------------- MODULE PagingBatchProofs -------------------------
(***************************************************************************)
(* Proofs about PagingBatch, for every finite non-empty set of workers,    *)
(* every work load and every choice of environments.  None of its          *)
(* invariants is inductive.  IInv counts the batches that the controller   *)
(* has called: the number is the same seen from every worker, and all the  *)
(* rest is said relative to it.  It holds as long as UEs are told apart;   *)
(* Sound is what holds whatever 5G-TMSIs the AMF assigns.                  *)
(***************************************************************************)
EXTENDS PagingBatch, FiniteSetTheorems, SequenceTheorems, TLAPS

\* No member of S is twice in q.
Apart(q, S) == \A i, j \in 1..Len(q) : q[i] = q[j] /\ q[i] \in S => i = j

\* Whatever is behind x in q is in S.
Behind(q, x, S) == \A i, j \in 1..Len(q) : i < j /\ q[i] = x => q[j] \in S

\* The batches called so far, as w can tell.
Calls(w) == IF Called(w) THEN round[w] ELSE round[w] - 1

\* w has sent to the channel and its UE has not been called.
Open == {w \in Worker : pc[w] = "readPaging" /\ ~Called(w)}

\* w's UE has been called and its latency is still to come.
Due == {w \in Worker : Called(w) /\ pc[w] \in {"readPaging", "readContext", "deliver"}}

IsPaging(m)    == m.type = "Paging"
OnlyPagings(q) == \A m \in Members(q) : IsPaging(m)
NoPagings(q)   == \A m \in Members(q) : ~IsPaging(m)
Batch(r)       == {m \in Message : IsPaging(m) /\ m.ue[2] = r}

Typed ==
    /\ env \in Environments
    /\ pc \in [Worker -> Labels]
    /\ round \in [Worker -> 1..WorkLoad]
    /\ address \in [Worker -> BOOLEAN]
    /\ latencies \in Nat
    /\ signals \in Seq(UE \cup {NoAddress})
    /\ list \in Seq(UE)
    /\ main \in {"start", "waiting", "closed", "returned", "crashed"}
    /\ request \in [Worker -> Requests \cup {Nothing}]
    /\ down \in [Worker -> Seq(Message)]
    /\ connected \subseteq Worker
    /\ idle \subseteq UE
    /\ data \subseteq UE

\* Channel and list hold UEs that wait for their Paging, each once.
Listed ==
    /\ \A u \in Members(signals) \cup Members(list) : u \in UE =>
         \E w \in Worker : u = Mine(w) /\ pc[w] = "readPaging" /\ address[w]
    /\ Apart(signals, UE) /\ Apart(list, UE)
    /\ \A u \in UE : ~(u \in Members(signals) /\ u \in Members(list))
    /\ Len(list) < ThreadAmount
    /\ Len(signals) + Len(list) <= Cardinality(Open)

\* Every worker has seen the same number of batches called.
Together == \A v, w \in Worker : Calls(v) = Calls(w)

\* A ping on its way is for a UE whose worker waits for it.
DataCalled ==
    \A u \in data : \E w \in Worker : u = Mine(w) /\ pc[w] = "readPaging" /\ Called(w)

\* The Pagings in w's queue are of the two latest batches, those of the latest
\* in or behind its own; its own of the batch before is no longer there.
RightPaging(w, m) ==
    /\ m.ue \in UE /\ m.ue \notin data
    /\ round[w] - 1 <= m.ue[2] /\ m.ue[2] <= Calls(w)
    /\ m.ue # <<w, round[w] - 1>>
    /\ pc[w] \in Paged => m.ue[2] = round[w] /\ m.ue # Mine(w)

ReadAt(w) ==
    /\ Apart(down[w], Message)
    /\ \A m \in Members(down[w]) : IsPaging(m) => RightPaging(w, m)
    /\ Behind(down[w], Paging(Mine(w)), Batch(round[w]))

\* Where each request may be open, and that an answer is alone in the queue.
AnsweredAt(w) ==
    /\ \A m, n \in Members(down[w]) : ~IsPaging(m) /\ ~IsPaging(n) => m = n
    /\ request[w] = "NGSetup" => pc[w] = "readSetup" /\ down[w] = <<>> /\ w \notin connected
    /\ request[w] = "Register" => pc[w] \in {"readSession", "exited"}
    /\ request[w] = "ReleaseRequest" => pc[w] = "readRelease"
    /\ request[w] = "ReleaseComplete" => pc[w] \in {"signal", "readPaging"}
    /\ request[w] = "ServiceRequest" => pc[w] = "readContext"
    /\ request[w] \in {"Register", "ReleaseRequest", "ServiceRequest"} => OnlyPagings(down[w])
    /\ pc[w] \in {"connect", "deliver", "sleep", "done"} =>
         OnlyPagings(down[w]) /\ w \notin connected
    /\ pc[w] = "readSetup" /\ request[w] = Nothing =>
         down[w] # <<>> /\ ~IsPaging(down[w][1])

HasContext(w) == \E m \in Members(down[w]) : m.type = "ContextSetup"

\* A UE is no longer idle once the AMF has answered its Service Request.
ServedAt(w) ==
    /\ pc[w] = "readContext" => ~HasContext(w) \/ Mine(w) \notin idle
    /\ pc[w] = "deliver" => Mine(w) \notin idle

\* A worker that sleeps long enough leaves no ping and meets no Paging.
SleptAt(w) ==
    env.sleepsSuffice /\ ~Called(w) =>
        /\ data = {}
        /\ pc[w] \in {"readSetup", "readSession", "readRelease"} => NoPagings(down[w])

\* Every UE called has delivered its latency but those that are still due.
Measured == \A w \in Worker : latencies + Cardinality(Due) = ThreadAmount * Calls(w)

ClosedMeansDone == main = "closed" => \A w \in Worker : pc[w] = "done"

Queues == \A w \in Worker : ReadAt(w) /\ AnsweredAt(w) /\ ServedAt(w) /\ SleptAt(w)

IInv ==
    Typed /\ Listed /\ Together /\ DataCalled /\ Queues /\ Measured /\ ClosedMeansDone

\* Only a UE that the AMF has brought back finds its set-up request.
SoundAt(w) ==
    /\ request[w] = "ServiceRequest" => pc[w] = "readContext" /\ ~HasContext(w)
    /\ request[w] = "ReleaseComplete" => pc[w] \in {"signal", "readPaging"}
    /\ HasContext(w) => pc[w] \notin {"readSetup", "readSession", "readRelease", "signal", "readPaging"}
    /\ pc[w] = "readContext" => ~HasContext(w) \/ Mine(w) \notin idle
    /\ pc[w] = "deliver" => Mine(w) \notin idle

Sound ==
    /\ Typed /\ ClosedMeansDone
    /\ latencies <= Amount + 1
    /\ Len(signals) <= SignalCapacity /\ Len(list) < ThreadAmount
    /\ \A w \in Worker : SoundAt(w)

Inv == Sound /\ (ToldApart => IInv)

-----------------------------------------------------------------------------
(* Queues                                                                   *)

LEMMA EmptyQueue ==
    ASSUME NEW S
    PROVE  /\ <<>> \in Seq(S) /\ Len(<<>>) = 0 /\ Members(<<>>) = {}
           /\ \A q \in Seq(S) : Len(q) \in Nat /\ (q = <<>> <=> Len(q) = 0)
    BY EmptySeq DEF Members

LEMMA AppendMembers ==
    ASSUME NEW S, NEW q \in Seq(S), NEW x \in S
    PROVE  /\ Append(q, x) \in Seq(S) /\ Len(Append(q, x)) = Len(q) + 1
           /\ Append(q, x) # <<>>
           /\ Members(Append(q, x)) = Members(q) \cup {x}
           /\ q # <<>> => Append(q, x)[1] = q[1]
           /\ q = <<>> => Append(q, x)[1] = x
<1> DEFINE r == Append(q, x)
<1>1. /\ r \in Seq(S) /\ Len(q) \in Nat /\ Len(r) = Len(q) + 1
      /\ \A i \in 1..Len(q) : r[i] = q[i]
      /\ r[Len(q) + 1] = x
    OBVIOUS
<1>2. Len(q) = 0 <=> q = <<>>
    BY EmptyQueue
<1>3. r # <<>>
    BY <1>1, EmptyQueue
<1> HIDE DEF r
<1>4. Members(r) = Members(q) \cup {x}
  <2>1. \A y \in Members(r) : y \in Members(q) \cup {x}
      BY <1>1 DEF Members
  <2>2. \A y \in Members(q) : y \in Members(r)
      BY <1>1 DEF Members
  <2>3. x \in Members(r)
      BY <1>1 DEF Members
  <2> QED
      BY <2>1, <2>2, <2>3
<1>5. q # <<>> => r[1] = q[1]
    BY <1>1, <1>2
<1>6. q = <<>> => r[1] = x
    BY <1>1, <1>2
<1> QED
    BY <1>1, <1>3, <1>4, <1>5, <1>6 DEF r

LEMMA AppendApart ==
    ASSUME NEW S, NEW q \in Seq(S), NEW x \in S, NEW T, Apart(q, T),
           x \in T => x \notin Members(q)
    PROVE  Apart(Append(q, x), T)
<1> DEFINE r == Append(q, x)
<1>1. /\ Len(q) \in Nat /\ Len(r) = Len(q) + 1
      /\ \A i \in 1..Len(q) : r[i] = q[i]
      /\ r[Len(q) + 1] = x
    OBVIOUS
<1> HIDE DEF r
<1> SUFFICES ASSUME NEW i \in 1..Len(r), NEW j \in 1..Len(r), r[i] = r[j], r[i] \in T
             PROVE  i = j
    BY DEF Apart, r
<1>2. CASE i \in 1..Len(q) /\ j \in 1..Len(q)
    BY <1>1, <1>2 DEF Apart
<1>3. CASE i \notin 1..Len(q) \/ j \notin 1..Len(q)
    BY <1>1, <1>3 DEF Members
<1> QED
    BY <1>2, <1>3

LEMMA AppendBehind ==
    ASSUME NEW S, NEW q \in Seq(S), NEW y \in S, NEW x, NEW T,
           Behind(q, x, T), y \in T \/ x \notin Members(q)
    PROVE  Behind(Append(q, y), x, T)
<1> DEFINE r == Append(q, y)
<1>1. /\ Len(q) \in Nat /\ Len(r) = Len(q) + 1
      /\ \A i \in 1..Len(q) : r[i] = q[i]
      /\ r[Len(q) + 1] = y
    OBVIOUS
<1> HIDE DEF r
<1> SUFFICES ASSUME NEW i \in 1..Len(r), NEW j \in 1..Len(r), i < j, r[i] = x
             PROVE  r[j] \in T
    BY DEF Behind, r
<1>2. CASE j \in 1..Len(q)
    BY <1>1, <1>2 DEF Behind
<1>3. CASE j \notin 1..Len(q)
  <2>1. j = Len(q) + 1 /\ i \in 1..Len(q)
      BY <1>1, <1>3
  <2> QED
      BY <1>1, <2>1 DEF Members
<1> QED
    BY <1>2, <1>3

LEMMA ReadQueue ==
    ASSUME NEW S, NEW q \in Seq(S), q # <<>>
    PROVE  /\ Head(q) = q[1] /\ q[1] \in S
           /\ Tail(q) \in Seq(S) /\ Len(Tail(q)) = Len(q) - 1 /\ Len(q) \in Nat \ {0}
           /\ Members(q) = {q[1]} \cup Members(Tail(q))
           /\ \A T : Apart(q, T) =>
                Apart(Tail(q), T) /\ (q[1] \in T => q[1] \notin Members(Tail(q)))
           /\ \A x, T : Behind(q, x, T) =>
                Behind(Tail(q), x, T) /\ (q[1] = x => Members(Tail(q)) \subseteq T)
<1> DEFINE t == Tail(q)
<1>1. /\ Head(q) = q[1] /\ q[1] \in S
      /\ t \in Seq(S) /\ Len(q) \in Nat \ {0} /\ Len(t) = Len(q) - 1
      /\ \A i \in 1..Len(t) : t[i] = q[i + 1]
    OBVIOUS
<1> HIDE DEF t
<1> SUFFICES /\ Members(q) = {q[1]} \cup Members(t)
             /\ \A T : Apart(q, T) =>
                  Apart(t, T) /\ (q[1] \in T => q[1] \notin Members(t))
             /\ \A x, T : Behind(q, x, T) =>
                  Behind(t, x, T) /\ (q[1] = x => Members(t) \subseteq T)
    BY <1>1 DEF t
<1>2. \A i \in 1..Len(t) : i + 1 \in 1..Len(q) /\ i + 1 # 1 /\ 1 < i + 1 /\ 1 \in 1..Len(q)
    BY <1>1
<1>3. Members(q) = {q[1]} \cup Members(t)
  <2>1. ASSUME NEW i \in 1..Len(q), i # 1
        PROVE  i - 1 \in 1..Len(t) /\ t[i - 1] = q[i]
    <3>1. i - 1 \in 1..Len(t) /\ (i - 1) + 1 = i
        BY <1>1, <2>1
    <3> QED
        BY <1>1, <3>1
  <2>2. \A y \in Members(q) : y \in {q[1]} \cup Members(t)
      BY <2>1 DEF Members
  <2>3. \A y \in Members(t) : y \in Members(q)
      BY <1>1, <1>2 DEF Members
  <2>4. q[1] \in Members(q)
      BY <1>1 DEF Members
  <2> QED
      BY <2>2, <2>3, <2>4
<1>4. ASSUME NEW T, Apart(q, T)
      PROVE  Apart(t, T) /\ (q[1] \in T => q[1] \notin Members(t))
  <2>1. ASSUME NEW i \in 1..Len(t), NEW j \in 1..Len(t), t[i] = t[j], t[i] \in T
        PROVE  i = j
    <3>1. i + 1 = j + 1
        BY <1>1, <1>2, <1>4, <2>1 DEF Apart
    <3> QED
        BY <3>1
  <2>2. ASSUME q[1] \in T, NEW i \in 1..Len(t), t[i] = q[1]
        PROVE  FALSE
      BY <1>1, <1>2, <1>4, <2>2 DEF Apart
  <2> QED
      BY <2>1, <2>2 DEF Apart, Members
<1>5. ASSUME NEW x, NEW T, Behind(q, x, T)
      PROVE  Behind(t, x, T) /\ (q[1] = x => Members(t) \subseteq T)
  <2>1. ASSUME NEW i \in 1..Len(t), NEW j \in 1..Len(t), i < j, t[i] = x
        PROVE  t[j] \in T
    <3>1. i + 1 < j + 1
        BY <2>1
    <3> QED
        BY <1>1, <1>2, <1>5, <2>1, <3>1 DEF Behind
  <2>2. ASSUME q[1] = x, NEW j \in 1..Len(t)
        PROVE  t[j] \in T
      BY <1>1, <1>2, <1>5, <2>2 DEF Behind
  <2> QED
      BY <2>1, <2>2 DEF Behind, Members
<1> QED
    BY <1>3, <1>4, <1>5

\* As many messages as there are different ones.
LEMMA ApartLength ==
    ASSUME NEW S, NEW q \in Seq(S), Apart(q, S), NEW T, IsFiniteSet(T), Members(q) \subseteq T
    PROVE  /\ Len(q) <= Cardinality(T)
           /\ Len(q) = Cardinality(T) => Members(q) = T
<1>1. /\ Len(q) \in Nat /\ DOMAIN q = 1..Len(q)
      /\ q \in [1..Len(q) -> S]
      /\ \A i \in 1..Len(q) : q[i] \in S /\ q[i] \in T
    BY DEF Members
<1>2. q \in [1..Len(q) -> T]
    BY <1>1
<1>3. q \in Injection(1..Len(q), T)
    BY <1>1, <1>2 DEF Apart, Injection, IsInjective
<1>4. /\ Cardinality(1..Len(q)) <= Cardinality(T)
      /\ Cardinality(1..Len(q)) = Cardinality(T) => q \in Surjection(1..Len(q), T)
    BY <1>3, FS_Injection
<1>5. Cardinality(1..Len(q)) = Len(q)
  <2>1. \A n \in Nat : Cardinality(1..n) = IF 1 > n THEN 0 ELSE n - 1 + 1
      BY FS_Interval
  <2> QED
      BY <1>1, <2>1
<1>6. q \in Surjection(1..Len(q), T) => Members(q) = T
    BY <1>1 DEF Surjection, Members
<1> QED
    BY <1>4, <1>5, <1>6

LEMMA NothingApart ==
    ASSUME NEW T, NEW x
    PROVE  Apart(<<>>, T) /\ Behind(<<>>, x, T)
    BY EmptyQueue DEF Apart, Behind

-----------------------------------------------------------------------------
(* UEs, messages and workers                                                *)

LEMMA BatchSize == ThreadAmount \in Nat \ {0} /\ WorkLoad \in Nat \ {0}
    BY WorkerAssumption, FS_CardinalityType, FS_EmptySet DEF ThreadAmount

LEMMA MineFacts ==
    ASSUME Typed, NEW w \in Worker
    PROVE  /\ Mine(w) \in UE /\ Mine(w)[2] = round[w]
           /\ round[w] \in 1..WorkLoad /\ round[w] \in Nat \ {0}
           /\ \A v \in Worker : Mine(v) = Mine(w) => v = w
           /\ \A u \in UE : u[2] \in 1..WorkLoad
           /\ NoAddress \notin UE
    BY BatchSize DEF Typed, Mine, UE, NoAddress

LEMMA MessageFacts ==
    /\ \A u \in UE : Paging(u) \in Message /\ IsPaging(Paging(u)) /\ Paging(u).ue = u
    /\ \A t \in Answers : /\ Reply(t) \in Message /\ ~IsPaging(Reply(t))
                          /\ Reply(t).type = t
    /\ \A m \in Message : IsPaging(m) => m = Paging(m.ue)
    BY DEF Message, Answers, Paging, Reply, IsPaging

\* A set of workers is finite and not larger than the batch.
LEMMA CountWorkers ==
    ASSUME NEW S, S \subseteq Worker
    PROVE  /\ IsFiniteSet(S)
           /\ Cardinality(S) \in Nat /\ Cardinality(S) <= ThreadAmount
           /\ \A w \in Worker : w \notin S => Cardinality(S \cup {w}) = Cardinality(S) + 1
           /\ \A w \in S : Cardinality(S \ {w}) = Cardinality(S) - 1
    BY WorkerAssumption, FS_Subset, FS_CardinalityType, FS_AddElement, FS_RemoveElement
    DEF ThreadAmount

\* What the channel and the list say of a worker's UE.
LEMMA PendingWaits ==
    ASSUME IInv, NEW w \in Worker
    PROVE  /\ Pending(w) => pc[w] = "readPaging" /\ address[w] /\ ~Called(w) /\ w \in Open
           /\ Mine(w) \in data => pc[w] = "readPaging" /\ address[w] /\ Called(w)
           /\ Called(w) <=> Calls(w) = round[w]
           /\ Calls(w) \in 0..WorkLoad /\ Calls(w) \in {round[w] - 1, round[w]}
<1>1. /\ Mine(w) \in UE /\ round[w] \in 1..WorkLoad
      /\ \A v \in Worker : Mine(v) = Mine(w) => v = w
    BY MineFacts DEF IInv
<1>2. Pending(w) => pc[w] = "readPaging" /\ address[w]
    BY <1>1 DEF IInv, Listed, Pending
<1>3. Mine(w) \in data => pc[w] = "readPaging" /\ Called(w)
    BY <1>1 DEF IInv, DataCalled
<1>4. pc[w] = "readPaging" => pc[w] \notin Paged
    BY DEF Paged
<1>5. Called(w) <=> Calls(w) = round[w]
    BY <1>1 DEF Calls
<1>6. Calls(w) \in 0..WorkLoad /\ Calls(w) \in {round[w] - 1, round[w]}
    BY <1>1, BatchSize DEF Calls
<1> QED
    BY <1>2, <1>3, <1>4, <1>5, <1>6 DEF Called, Open

-----------------------------------------------------------------------------
(* Steps of one worker, or of the AMF for it                                *)

\* Only w moves, and the channel, the list and the pings are left alone.
OnlyMoves(w) ==
    /\ \A v \in Worker \ {w} :
         /\ pc'[v] = pc[v] /\ round'[v] = round[v] /\ address'[v] = address[v]
         /\ request'[v] = request[v] /\ down'[v] = down[v]
         /\ v \in connected' => v \in connected
         /\ Mine(v) \in idle' => Mine(v) \in idle
    /\ UNCHANGED <<env, signals, list, data>>
    /\ main' = "closed" => main = "closed"

\* As far as the controller can tell w is where it was.
KeepsPlace(w) ==
    /\ Calls(w)' = Calls(w)
    /\ w \in Open' <=> w \in Open
    /\ Pending(w) \/ Mine(w) \in data =>
         pc'[w] = "readPaging" /\ address'[w] /\ round'[w] = round[w]

\* A worker for whom nothing has changed.
LEMMA SeenAlike ==
    ASSUME IInv, NEW v \in Worker,
           pc'[v] = pc[v], round'[v] = round[v], address'[v] = address[v],
           request'[v] = request[v], down'[v] = down[v],
           v \in connected' => v \in connected, Mine(v) \in idle' => Mine(v) \in idle,
           UNCHANGED <<env, data>>, Pending(v)' <=> Pending(v)
    PROVE  /\ Mine(v)' = Mine(v) /\ (Called(v)' <=> Called(v)) /\ Calls(v)' = Calls(v)
           /\ (v \in Open' <=> v \in Open) /\ (v \in Due' <=> v \in Due)
           /\ ReadAt(v)' /\ AnsweredAt(v)' /\ ServedAt(v)' /\ SleptAt(v)'
<1>1. Mine(v)' = Mine(v)
    BY DEF Mine
<1>2. Called(v)' <=> Called(v)
    BY DEF Called
<1>3. Calls(v)' = Calls(v)
    BY <1>2 DEF Calls
<1>4. (v \in Open' <=> v \in Open) /\ (v \in Due' <=> v \in Due)
    BY <1>2 DEF Open, Due
<1>5. ReadAt(v) /\ AnsweredAt(v) /\ ServedAt(v) /\ SleptAt(v)
    BY DEF IInv, Queues
<1>6. ReadAt(v)'
    BY <1>1, <1>3, <1>5 DEF ReadAt, RightPaging
<1>7. AnsweredAt(v)' /\ ServedAt(v)' /\ SleptAt(v)'
    BY <1>1, <1>2, <1>5 DEF AnsweredAt, ServedAt, HasContext, SleptAt
<1> QED
    BY <1>1, <1>2, <1>3, <1>4, <1>6, <1>7

LEMMA OthersKeep ==
    ASSUME IInv, NEW w \in Worker, OnlyMoves(w), NEW v \in Worker, v # w
    PROVE  /\ Mine(v)' = Mine(v)
           /\ (Called(v)' <=> Called(v)) /\ Calls(v)' = Calls(v)
           /\ (v \in Open' <=> v \in Open) /\ (v \in Due' <=> v \in Due)
           /\ ReadAt(v)' /\ AnsweredAt(v)' /\ ServedAt(v)' /\ SleptAt(v)'
<1>1. /\ pc'[v] = pc[v] /\ round'[v] = round[v] /\ address'[v] = address[v]
      /\ request'[v] = request[v] /\ down'[v] = down[v]
      /\ (v \in connected' => v \in connected) /\ (Mine(v) \in idle' => Mine(v) \in idle)
      /\ UNCHANGED <<env, signals, list, data>>
    BY DEF OnlyMoves
<1>2. Pending(v)' <=> Pending(v)
    BY <1>1 DEF Pending, Mine
<1> QED
    BY <1>1, <1>2, SeenAlike

\* What is left to show of a step that moves only w.
LEMMA OnlyMovesKeeps ==
    ASSUME IInv, NEW w \in Worker, OnlyMoves(w), KeepsPlace(w),
           Typed', pc[w] # "done" \/ pc'[w] = "done",
           ReadAt(w)', AnsweredAt(w)', ServedAt(w)', SleptAt(w)', Measured'
    PROVE  IInv'
<1>1. /\ \A v \in Worker : Calls(v)' = Calls(v) /\ (v \in Open' <=> v \in Open)
      /\ \A v \in Worker \ {w} :
           /\ Mine(v)' = Mine(v) /\ (Called(v)' <=> Called(v))
           /\ pc'[v] = pc[v] /\ address'[v] = address[v]
           /\ ReadAt(v)' /\ AnsweredAt(v)' /\ ServedAt(v)' /\ SleptAt(v)'
    BY OthersKeep DEF KeepsPlace, OnlyMoves
<1>2. Queues'
    BY <1>1 DEF Queues
<1>3. Together'
    BY <1>1 DEF IInv, Together
<1>4. Open' = Open
    BY <1>1 DEF Open
<1>5. UNCHANGED <<signals, list, data>>
    BY DEF OnlyMoves
<1>6. ASSUME NEW u \in UE, u \in Members(signals) \cup Members(list)
      PROVE  \E v \in Worker : u = Mine(v)' /\ pc'[v] = "readPaging" /\ address'[v]
  <2>1. PICK v \in Worker : u = Mine(v) /\ pc[v] = "readPaging" /\ address[v]
      BY <1>6 DEF IInv, Listed
  <2>2. CASE v = w
      BY <1>6, <2>1, <2>2 DEF KeepsPlace, Pending, Mine
  <2>3. CASE v # w
      BY <1>1, <2>1, <2>3
  <2> QED
      BY <2>2, <2>3
<1>7. Listed'
    BY <1>4, <1>5, <1>6 DEF IInv, Listed, Members
<1>8. DataCalled'
  <2> SUFFICES ASSUME NEW u \in data
               PROVE  \E v \in Worker : u = Mine(v)' /\ pc'[v] = "readPaging" /\ Called(v)'
      BY <1>5 DEF DataCalled
  <2>1. PICK v \in Worker : u = Mine(v) /\ pc[v] = "readPaging" /\ Called(v)
      BY DEF IInv, DataCalled
  <2>2. CASE v = w
    <3>1. pc'[w] = "readPaging" /\ address'[w] /\ round'[w] = round[w]
        BY <2>1, <2>2 DEF KeepsPlace
    <3>2. ~Pending(w)
        BY <2>1, <2>2 DEF Called, Paged
    <3>3. Mine(w)' = Mine(w) /\ ~Pending(w)'
        BY <1>5, <3>1, <3>2 DEF Mine, Pending
    <3> QED
        BY <2>1, <2>2, <3>1, <3>3 DEF Called
  <2>3. CASE v # w
      BY <1>1, <2>1, <2>3
  <2> QED
      BY <2>2, <2>3
<1>9. ClosedMeansDone'
    BY <1>1 DEF IInv, ClosedMeansDone, OnlyMoves
<1> QED
    BY <1>2, <1>3, <1>7, <1>8, <1>9 DEF IInv

\* Latencies are counted as long as nobody's becomes due or is delivered.
LEMMA QuietMeasured ==
    ASSUME IInv, NEW w \in Worker, OnlyMoves(w), KeepsPlace(w),
           w \in Due' <=> w \in Due, latencies' = latencies
    PROVE  Measured'
<1>1. \A v \in Worker : Calls(v)' = Calls(v) /\ (v \in Due' <=> v \in Due)
    BY OthersKeep DEF KeepsPlace
<1>2. Due' = Due
    BY <1>1 DEF Due
<1> QED
    BY <1>1, <1>2 DEF IInv, Measured

-----------------------------------------------------------------------------
(* What the pieces of an action do                                          *)

LEMMA GotoFacts ==
    ASSUME Typed, NEW w \in Worker, NEW label \in Labels, Goto(w, label)
    PROVE  /\ pc' \in [Worker -> Labels] /\ pc'[w] = label
           /\ \A v \in Worker \ {w} : pc'[v] = pc[v]
    BY DEF Typed, Goto

LEMMA WriteFacts ==
    ASSUME Typed, NEW w \in Worker, NEW type \in Requests, Write(w, type)
    PROVE  /\ request[w] = Nothing
           /\ request' \in [Worker -> Requests \cup {Nothing}] /\ request'[w] = type
           /\ \A v \in Worker \ {w} : request'[v] = request[v]
    BY DEF Typed, Write

LEMMA ReadFacts ==
    ASSUME Typed, NEW w \in Worker, Read(w)
    PROVE  /\ down[w] \in Seq(Message) /\ down[w] # <<>>
           /\ Head(down[w]) = down[w][1] /\ down[w][1] \in Message
           /\ down' \in [Worker -> Seq(Message)] /\ down'[w] = Tail(down[w])
           /\ Members(down[w]) = {down[w][1]} \cup Members(down'[w])
           /\ \A v \in Worker \ {w} : down'[v] = down[v]
<1>1. down[w] \in Seq(Message) /\ down[w] # <<>> /\ down' = [down EXCEPT ![w] = Tail(@)]
    BY DEF Typed, Read
<1>2. /\ Head(down[w]) = down[w][1] /\ down[w][1] \in Message
      /\ Tail(down[w]) \in Seq(Message)
      /\ Members(down[w]) = {down[w][1]} \cup Members(Tail(down[w]))
    BY <1>1, ReadQueue
<1>3. /\ down' \in [Worker -> Seq(Message)] /\ down'[w] = Tail(down[w])
      /\ \A v \in Worker \ {w} : down'[v] = down[v]
    BY <1>1, <1>2 DEF Typed
<1> QED
    BY <1>1, <1>2, <1>3

LEMMA HandlesFacts ==
    ASSUME Typed, NEW w \in Worker, NEW type \in Requests, Handles(w, type)
    PROVE  /\ Running /\ request[w] = type
           /\ request' \in [Worker -> Requests \cup {Nothing}] /\ request'[w] = Nothing
           /\ \A v \in Worker \ {w} : request'[v] = request[v]
    BY DEF Typed, Handles

LEMMA AnswerFacts ==
    ASSUME Typed, NEW w \in Worker, NEW type \in Answers, Answer(w, type)
    PROVE  /\ down[w] \in Seq(Message)
           /\ down' \in [Worker -> Seq(Message)] /\ down'[w] = Append(down[w], Reply(type))
           /\ Members(down'[w]) = Members(down[w]) \cup {Reply(type)}
           /\ down'[w] # <<>> /\ (down[w] # <<>> => down'[w][1] = down[w][1])
           /\ down[w] = <<>> => down'[w][1] = Reply(type)
           /\ \A v \in Worker \ {w} : down'[v] = down[v]
<1>1. down[w] \in Seq(Message) /\ down' = [down EXCEPT ![w] = Append(@, Reply(type))]
    BY DEF Typed, Answer
<1>2. Reply(type) \in Message
    BY MessageFacts
<1> DEFINE r == Append(down[w], Reply(type))
<1>3. /\ r \in Seq(Message) /\ r # <<>> /\ Members(r) = Members(down[w]) \cup {Reply(type)}
      /\ down[w] # <<>> => r[1] = down[w][1]
      /\ down[w] = <<>> => r[1] = Reply(type)
    BY <1>1, <1>2, AppendMembers
<1>4. down' = [down EXCEPT ![w] = r]
    BY <1>1
<1> HIDE DEF r
<1>5. /\ down' \in [Worker -> Seq(Message)] /\ down'[w] = r
      /\ \A v \in Worker \ {w} : down'[v] = down[v]
    BY <1>3, <1>4 DEF Typed
<1> QED
    BY <1>1, <1>3, <1>5 DEF r

\* A queue from which w may have read, in the same place.
LEMMA ReadAtKeeps ==
    ASSUME IInv, NEW w \in Worker, OnlyMoves(w), round'[w] = round[w], Calls(w)' = Calls(w),
           pc'[w] \in Paged => pc[w] \in Paged,
           down'[w] = down[w] \/ Read(w)
    PROVE  ReadAt(w)'
<1>1. ReadAt(w) /\ Mine(w)' = Mine(w) /\ data' = data
    BY DEF IInv, Queues, Mine, OnlyMoves
<1>2. CASE down'[w] = down[w]
    BY <1>1, <1>2 DEF ReadAt, RightPaging
<1>3. CASE Read(w)
  <2>1. /\ down[w] \in Seq(Message) /\ down[w] # <<>> /\ down'[w] = Tail(down[w])
        /\ Members(down[w]) = {down[w][1]} \cup Members(down'[w])
      BY <1>3, ReadFacts DEF IInv
  <2>2. Apart(down'[w], Message) /\ Behind(down'[w], Paging(Mine(w)), Batch(round[w]))
      BY <1>1, <2>1, ReadQueue DEF ReadAt
  <2>3. Batch(round[w])' = Batch(round[w])
      BY DEF Batch
  <2>4. \A m \in Members(down'[w]) : IsPaging(m) => RightPaging(w, m)'
      BY <1>1, <2>1 DEF ReadAt, RightPaging
  <2> QED
      BY <1>1, <2>2, <2>4 DEF ReadAt
<1> QED
    BY <1>2, <1>3

\* A queue to which the AMF adds an answer.
LEMMA ReadAtAnswered ==
    ASSUME IInv, NEW w \in Worker, OnlyMoves(w), round'[w] = round[w], Calls(w)' = Calls(w),
           pc'[w] = pc[w], OnlyPagings(down[w]), Paging(Mine(w)) \notin Members(down[w]),
           NEW type \in Answers, Answer(w, type)
    PROVE  ReadAt(w)'
<1>1. ReadAt(w) /\ Mine(w)' = Mine(w) /\ data' = data
    BY DEF IInv, Queues, Mine, OnlyMoves
<1>2. /\ down[w] \in Seq(Message) /\ down'[w] = Append(down[w], Reply(type))
      /\ Members(down'[w]) = Members(down[w]) \cup {Reply(type)}
    BY AnswerFacts DEF IInv
<1>3. Reply(type) \in Message /\ ~IsPaging(Reply(type)) /\ Reply(type) \notin Members(down[w])
    BY MessageFacts DEF OnlyPagings
<1>4. Apart(down'[w], Message)
    BY <1>1, <1>2, <1>3, AppendApart DEF ReadAt
<1>5. Behind(down'[w], Paging(Mine(w)), Batch(round[w]))
    BY <1>1, <1>2, <1>3, AppendBehind DEF ReadAt
<1>6. \A m \in Members(down'[w]) : IsPaging(m) => RightPaging(w, m)'
    BY <1>1, <1>2, <1>3 DEF ReadAt, RightPaging
<1> QED
    BY <1>1, <1>4, <1>5, <1>6 DEF ReadAt

-----------------------------------------------------------------------------
(* Before the Paging                                                        *)

Before == {"connect", "readSetup", "readSession", "readRelease", "signal", "exited"}

\* A worker on its way to the channel has not been called.
LEMMA BeforeCalled ==
    ASSUME IInv, NEW w \in Worker, pc[w] \in Before
    PROVE  /\ ~Called(w) /\ ~Pending(w) /\ Mine(w) \notin data
           /\ w \notin Open /\ w \notin Due /\ Calls(w) = round[w] - 1
           /\ Paging(Mine(w)) \notin Members(down[w])
<1>1. ~Called(w)
    BY DEF Called, Before, Paged
<1>2. ~Pending(w) /\ Mine(w) \notin data /\ w \notin Open
    BY <1>1, PendingWaits DEF Before, Open
<1>3. Calls(w) = round[w] - 1 /\ w \notin Due
    BY <1>1 DEF Calls, Due
<1>4. ASSUME Paging(Mine(w)) \in Members(down[w])
      PROVE  FALSE
  <2>1. /\ IsPaging(Paging(Mine(w))) /\ Paging(Mine(w)).ue = Mine(w)
        /\ Mine(w)[2] = round[w] /\ round[w] \in Nat
      BY MineFacts, MessageFacts DEF IInv
  <2>2. round[w] <= Calls(w)
      BY <1>4, <2>1 DEF IInv, Queues, ReadAt, RightPaging
  <2> QED
      BY <1>3, <2>1, <2>2
<1> QED
    BY <1>1, <1>2, <1>3, <1>4

LEMMA BeforeKeepsPlace ==
    ASSUME IInv, NEW w \in Worker, OnlyMoves(w),
           pc[w] \in Before, pc'[w] \in Before, round'[w] = round[w]
    PROVE  /\ KeepsPlace(w) /\ ~Called(w)' /\ Calls(w)' = Calls(w) /\ Mine(w)' = Mine(w)
           /\ latencies' = latencies => Measured'
           /\ ~env.sleepsSuffice \/ NoPagings(down'[w])
                \/ pc'[w] \notin {"readSetup", "readSession", "readRelease"} => SleptAt(w)'
<1>1. ~Called(w)' /\ w \notin Open' /\ w \notin Due'
    BY DEF Called, Open, Due, Before, Paged
<1>2. Calls(w)' = Calls(w) /\ Mine(w)' = Mine(w)
    BY <1>1, BeforeCalled DEF Calls, Mine
<1>3. KeepsPlace(w)
    BY <1>1, <1>2, BeforeCalled DEF KeepsPlace
<1>4. latencies' = latencies => Measured'
    BY <1>1, <1>3, BeforeCalled, QuietMeasured
<1>5. ~env.sleepsSuffice \/ NoPagings(down'[w])
        \/ pc'[w] \notin {"readSetup", "readSession", "readRelease"} => SleptAt(w)'
    BY BeforeCalled DEF SleptAt, IInv, Queues, OnlyMoves
<1> QED
    BY <1>1, <1>2, <1>3, <1>4, <1>5

LEMMA ConnectKeeps ==
    ASSUME IInv, NEW w \in Worker, Connect(w)
    PROVE  IInv'
<1>1. /\ pc[w] = "connect" /\ pc' \in [Worker -> Labels] /\ pc'[w] = "readSetup"
      /\ \A v \in Worker \ {w} : pc'[v] = pc[v]
    BY GotoFacts DEF Connect, At, Labels, IInv
<1>2. /\ request' \in [Worker -> Requests \cup {Nothing}] /\ request'[w] = "NGSetup"
      /\ \A v \in Worker \ {w} : request'[v] = request[v]
    BY WriteFacts DEF Connect, Requests, IInv
<1>3. /\ down' \in [Worker -> Seq(Message)] /\ down'[w] = <<>>
      /\ \A v \in Worker \ {w} : down'[v] = down[v]
    BY EmptyQueue DEF Connect, IInv, Typed
<1>4. /\ address' \in [Worker -> BOOLEAN] /\ \A v \in Worker \ {w} : address'[v] = address[v]
      /\ UNCHANGED <<env, round, latencies, signals, list, main, connected, idle, data>>
    BY DEF Connect, IInv, Typed
<1>5. Typed'
    BY <1>1, <1>2, <1>3, <1>4 DEF IInv, Typed
<1>6. OnlyMoves(w)
    BY <1>1, <1>2, <1>3, <1>4 DEF OnlyMoves
<1>7. KeepsPlace(w) /\ Measured' /\ SleptAt(w)'
    BY <1>1, <1>3, <1>4, <1>6, BeforeKeepsPlace, EmptyQueue DEF Before, NoPagings
<1>8. ReadAt(w)'
    BY <1>3, NothingApart, EmptyQueue DEF ReadAt
<1>9. AnsweredAt(w)' /\ ServedAt(w)'
    BY <1>1, <1>2, <1>3, <1>4, EmptyQueue
    DEF IInv, Queues, AnsweredAt, ServedAt, OnlyPagings, Nothing
<1> QED
    BY <1>1, <1>5, <1>6, <1>7, <1>8, <1>9, OnlyMovesKeeps

LEMMA RegisterKeeps ==
    ASSUME IInv, NEW w \in Worker, Register(w)
    PROVE  IInv'
<1>1. /\ pc[w] = "readSetup" /\ pc' \in [Worker -> Labels] /\ pc'[w] = "readSession"
      /\ \A v \in Worker \ {w} : pc'[v] = pc[v]
    BY GotoFacts DEF Register, At, Labels, IInv
<1>2. /\ request[w] = Nothing
      /\ request' \in [Worker -> Requests \cup {Nothing}] /\ request'[w] = "Register"
      /\ \A v \in Worker \ {w} : request'[v] = request[v]
    BY WriteFacts DEF Register, Requests, IInv
<1>3. /\ down[w] \in Seq(Message) /\ down[w] # <<>> /\ down[w][1] \in Message
      /\ down' \in [Worker -> Seq(Message)] /\ down'[w] = Tail(down[w])
      /\ Members(down[w]) = {down[w][1]} \cup Members(down'[w])
      /\ \A v \in Worker \ {w} : down'[v] = down[v]
    BY ReadFacts DEF Register, IInv
<1>4. UNCHANGED <<env, round, address, latencies, signals, list, main, connected, idle, data>>
    BY DEF Register
<1>5. Typed'
    BY <1>1, <1>2, <1>3, <1>4 DEF IInv, Typed
<1>6. OnlyMoves(w)
    BY <1>1, <1>2, <1>3, <1>4 DEF OnlyMoves
<1>7. ReadAt(w) /\ AnsweredAt(w) /\ SleptAt(w)
    BY DEF IInv, Queues
<1>8. OnlyPagings(down'[w])
  <2>1. down[w][1] \notin Members(down'[w])
      BY <1>3, <1>7, ReadQueue DEF ReadAt
  <2>2. \A m \in Members(down'[w]) : ~IsPaging(m) => m = down[w][1]
      BY <1>1, <1>2, <1>3, <1>7 DEF AnsweredAt
  <2> QED
      BY <2>1, <2>2 DEF OnlyPagings
<1>9. /\ KeepsPlace(w) /\ Measured' /\ Calls(w)' = Calls(w)
      /\ SleptAt(w)'
  <2>1. ~env.sleepsSuffice \/ NoPagings(down'[w])
      BY <1>1, <1>3, <1>7, BeforeCalled DEF SleptAt, Before, NoPagings
  <2> QED
      BY <1>1, <1>4, <1>6, <2>1, BeforeKeepsPlace DEF Before
<1>10. ReadAt(w)'
    BY <1>1, <1>4, <1>6, <1>9, ReadAtKeeps DEF Register, Paged
<1>11. AnsweredAt(w)' /\ ServedAt(w)'
    BY <1>1, <1>2, <1>8 DEF AnsweredAt, ServedAt, OnlyPagings, Nothing
<1> QED
    BY <1>1, <1>5, <1>6, <1>9, <1>10, <1>11, OnlyMovesKeeps

LEMMA ReleaseUeKeeps ==
    ASSUME IInv, NEW w \in Worker, ReleaseUe(w)
    PROVE  IInv'
<1>1. /\ pc[w] = "readSession" /\ pc' \in [Worker -> Labels] /\ pc'[w] = "readRelease"
      /\ \A v \in Worker \ {w} : pc'[v] = pc[v]
    BY GotoFacts DEF ReleaseUe, At, Labels, IInv
<1>2. /\ request[w] = Nothing
      /\ request' \in [Worker -> Requests \cup {Nothing}] /\ request'[w] = "ReleaseRequest"
      /\ \A v \in Worker \ {w} : request'[v] = request[v]
    BY WriteFacts DEF ReleaseUe, Requests, IInv
<1>3. /\ down[w] \in Seq(Message) /\ down[w] # <<>> /\ down[w][1] \in Message
      /\ Head(down[w]) = down[w][1]
      /\ down' \in [Worker -> Seq(Message)] /\ down'[w] = Tail(down[w])
      /\ Members(down[w]) = {down[w][1]} \cup Members(down'[w])
      /\ \A v \in Worker \ {w} : down'[v] = down[v]
    BY ReadFacts DEF ReleaseUe, IInv
<1>4. /\ UNCHANGED <<env, round, latencies, signals, list, main, connected, idle, data>>
      /\ down[w][1].type = "Session"
    BY <1>3 DEF ReleaseUe
<1>5. address' \in [Worker -> BOOLEAN] /\ \A v \in Worker \ {w} : address'[v] = address[v]
  <2>1. PICK accepted \in BOOLEAN : address' = [address EXCEPT ![w] = accepted]
      BY DEF ReleaseUe
  <2> QED
      BY <2>1 DEF IInv, Typed
<1>6. Typed'
    BY <1>1, <1>2, <1>3, <1>4, <1>5 DEF IInv, Typed
<1>7. OnlyMoves(w)
    BY <1>1, <1>2, <1>3, <1>4, <1>5 DEF OnlyMoves
<1>8. ReadAt(w) /\ AnsweredAt(w) /\ SleptAt(w)
    BY DEF IInv, Queues
<1>9. OnlyPagings(down'[w])
  <2>1. down[w][1] \notin Members(down'[w])
      BY <1>3, <1>8, ReadQueue DEF ReadAt
  <2>2. \A m \in Members(down'[w]) : ~IsPaging(m) => m = down[w][1]
      BY <1>3, <1>4, <1>8 DEF AnsweredAt, IsPaging
  <2> QED
      BY <2>1, <2>2 DEF OnlyPagings
<1>10. /\ KeepsPlace(w) /\ Measured' /\ Calls(w)' = Calls(w)
       /\ SleptAt(w)'
  <2>1. ~env.sleepsSuffice \/ NoPagings(down'[w])
      BY <1>1, <1>3, <1>8, BeforeCalled DEF SleptAt, Before, NoPagings
  <2> QED
      BY <1>1, <1>4, <1>7, <2>1, BeforeKeepsPlace DEF Before
<1>11. ReadAt(w)'
    BY <1>1, <1>4, <1>7, <1>10, ReadAtKeeps DEF ReleaseUe, Paged
<1>12. AnsweredAt(w)' /\ ServedAt(w)'
    BY <1>1, <1>2, <1>9 DEF AnsweredAt, ServedAt, OnlyPagings, Nothing
<1> QED
    BY <1>1, <1>6, <1>7, <1>10, <1>11, <1>12, OnlyMovesKeeps

LEMMA CompleteReleaseKeeps ==
    ASSUME IInv, NEW w \in Worker, CompleteRelease(w)
    PROVE  IInv'
<1>1. /\ pc[w] = "readRelease" /\ pc' \in [Worker -> Labels] /\ pc'[w] = "signal"
      /\ \A v \in Worker \ {w} : pc'[v] = pc[v]
    BY GotoFacts DEF CompleteRelease, At, Labels, IInv
<1>2. /\ request' \in [Worker -> Requests \cup {Nothing}] /\ request'[w] = "ReleaseComplete"
      /\ \A v \in Worker \ {w} : request'[v] = request[v]
    BY WriteFacts DEF CompleteRelease, Requests, IInv
<1>3. /\ down' \in [Worker -> Seq(Message)]
      /\ Members(down[w]) = {down[w][1]} \cup Members(down'[w])
      /\ \A v \in Worker \ {w} : down'[v] = down[v]
    BY ReadFacts DEF CompleteRelease, IInv
<1>4. UNCHANGED <<env, round, address, latencies, signals, list, main, connected, idle, data>>
    BY DEF CompleteRelease
<1>5. Typed'
    BY <1>1, <1>2, <1>3, <1>4 DEF IInv, Typed
<1>6. OnlyMoves(w)
    BY <1>1, <1>2, <1>3, <1>4 DEF OnlyMoves
<1>7. KeepsPlace(w) /\ Measured' /\ Calls(w)' = Calls(w) /\ SleptAt(w)'
    BY <1>1, <1>4, <1>6, BeforeKeepsPlace DEF Before
<1>8. ReadAt(w)'
    BY <1>1, <1>4, <1>6, <1>7, ReadAtKeeps DEF CompleteRelease, Paged
<1>9. AnsweredAt(w)' /\ ServedAt(w)'
    BY <1>1, <1>2, <1>3 DEF IInv, Queues, AnsweredAt, ServedAt, Nothing
<1> QED
    BY <1>1, <1>5, <1>6, <1>7, <1>8, <1>9, OnlyMovesKeeps

LEMMA ExitKeeps ==
    ASSUME IInv, NEW w \in Worker, Exit(w)
    PROVE  IInv'
<1>1. /\ pc[w] = "readSession" /\ pc' \in [Worker -> Labels] /\ pc'[w] = "exited"
      /\ \A v \in Worker \ {w} : pc'[v] = pc[v]
    BY GotoFacts DEF Exit, At, Labels, IInv
<1>2. UNCHANGED <<env, round, address, latencies, signals, list, main,
                  request, down, connected, idle, data>>
    BY DEF Exit, amf
<1>3. Typed'
    BY <1>1, <1>2 DEF IInv, Typed
<1>4. OnlyMoves(w)
    BY <1>1, <1>2 DEF OnlyMoves
<1>5. KeepsPlace(w) /\ Measured' /\ Calls(w)' = Calls(w) /\ SleptAt(w)'
    BY <1>1, <1>2, <1>4, BeforeKeepsPlace DEF Before
<1>6. ReadAt(w)'
    BY <1>1, <1>2, <1>4, <1>5, ReadAtKeeps DEF Paged
<1>7. AnsweredAt(w)' /\ ServedAt(w)'
    BY <1>1, <1>2 DEF IInv, Queues, AnsweredAt, ServedAt
<1> QED
    BY <1>1, <1>3, <1>4, <1>5, <1>6, <1>7, OnlyMovesKeeps

\* A worker that stays where it is.
LEMMA StandsStill ==
    ASSUME IInv, NEW w \in Worker, OnlyMoves(w),
           pc'[w] = pc[w], round'[w] = round[w], address'[w] = address[w], latencies' = latencies
    PROVE  /\ KeepsPlace(w) /\ Measured' /\ Calls(w)' = Calls(w) /\ Mine(w)' = Mine(w)
           /\ Called(w)' <=> Called(w)
<1>1. Mine(w)' = Mine(w) /\ (Pending(w)' <=> Pending(w)) /\ (Called(w)' <=> Called(w))
    BY DEF OnlyMoves, Mine, Pending, Called
<1>2. Calls(w)' = Calls(w) /\ (w \in Open' <=> w \in Open) /\ (w \in Due' <=> w \in Due)
    BY <1>1 DEF Calls, Open, Due
<1>3. KeepsPlace(w)
    BY <1>2, PendingWaits DEF KeepsPlace
<1> QED
    BY <1>1, <1>2, <1>3, QuietMeasured

LEMMA MisreadKeeps ==
    ASSUME IInv, NEW w \in Worker, Misread(w)
    PROVE  IInv'
<1>1. /\ pc[w] = "readSession" /\ main' = "crashed"
      /\ UNCHANGED <<env, pc, round, address, latencies, signals, list, request,
                     connected, idle, data>>
    BY DEF Misread, At
<1>2. /\ down' \in [Worker -> Seq(Message)]
      /\ Members(down[w]) = {down[w][1]} \cup Members(down'[w])
      /\ \A v \in Worker \ {w} : down'[v] = down[v]
    BY ReadFacts DEF Misread, IInv
<1>3. Typed'
    BY <1>1, <1>2 DEF IInv, Typed
<1>4. OnlyMoves(w)
    BY <1>1, <1>2 DEF OnlyMoves
<1>5. KeepsPlace(w) /\ Measured' /\ Calls(w)' = Calls(w) /\ (Called(w)' <=> Called(w))
    BY <1>1, <1>4, StandsStill
<1>6. ReadAt(w)'
    BY <1>1, <1>4, <1>5, ReadAtKeeps DEF Misread
<1>7. AnsweredAt(w)' /\ ServedAt(w)'
    BY <1>1, <1>2 DEF IInv, Queues, AnsweredAt, ServedAt, OnlyPagings
<1>8. SleptAt(w)'
    BY <1>1, <1>2, <1>5 DEF IInv, Queues, SleptAt, NoPagings
<1> QED
    BY <1>1, <1>3, <1>4, <1>5, <1>6, <1>7, <1>8, OnlyMovesKeeps

\* A step of the test function moves no worker.
LEMMA MainKeeps ==
    ASSUME IInv, main' \in {"start", "waiting", "closed", "returned", "crashed"},
           main' = "closed" => main = "closed" \/ \A w \in Worker : pc[w] = "done",
           UNCHANGED <<env, pc, round, address, latencies, signals, list, amf>>
    PROVE  IInv'
<1>1. UNCHANGED <<env, pc, round, address, latencies, signals, list,
                  request, down, connected, idle, data>>
    BY DEF amf
<1>2. \A w \in Worker : Mine(w)' = Mine(w) /\ (Pending(w)' <=> Pending(w))
    BY <1>1 DEF Mine, Pending
<1>3. \A w \in Worker : (Called(w)' <=> Called(w)) /\ Calls(w)' = Calls(w)
    BY <1>1, <1>2 DEF Called, Calls
<1>4. Open' = Open /\ Due' = Due
    BY <1>1, <1>3 DEF Open, Due
<1>5. Queues'
    BY <1>1, <1>2, <1>3
    DEF IInv, Queues, ReadAt, RightPaging, AnsweredAt, ServedAt, HasContext, SleptAt
<1>6. Typed' /\ ClosedMeansDone'
    BY <1>1 DEF IInv, Typed, ClosedMeansDone
<1>7. Listed' /\ DataCalled'
    BY <1>1, <1>2, <1>3, <1>4 DEF IInv, Listed, DataCalled
<1>8. Together' /\ Measured'
    BY <1>1, <1>3, <1>4 DEF IInv, Together, Measured
<1> QED
    BY <1>5, <1>6, <1>7, <1>8 DEF IInv

-----------------------------------------------------------------------------
(* The AMF's answers                                                        *)

LEMMA AmfSetsUpKeeps ==
    ASSUME IInv, NEW w \in Worker, AmfSetsUp(w)
    PROVE  IInv'
<1>1. /\ request[w] = "NGSetup"
      /\ request' \in [Worker -> Requests \cup {Nothing}] /\ request'[w] = Nothing
      /\ \A v \in Worker \ {w} : request'[v] = request[v]
    BY HandlesFacts DEF AmfSetsUp, Requests, IInv
<1>2. /\ down' \in [Worker -> Seq(Message)]
      /\ Members(down'[w]) = Members(down[w]) \cup {Reply("SetupResponse")}
      /\ down'[w] # <<>> /\ (down[w] = <<>> => down'[w][1] = Reply("SetupResponse"))
      /\ \A v \in Worker \ {w} : down'[v] = down[v]
    BY AnswerFacts DEF AmfSetsUp, Answers, IInv
<1>3. /\ UNCHANGED <<env, pc, round, address, latencies, signals, list, main, idle, data>>
      /\ connected' = connected \cup {w}
    BY DEF AmfSetsUp, harness
<1>4. Typed'
    BY <1>1, <1>2, <1>3 DEF IInv, Typed
<1>5. OnlyMoves(w)
    BY <1>1, <1>2, <1>3 DEF OnlyMoves
<1>6. KeepsPlace(w) /\ Measured' /\ Calls(w)' = Calls(w) /\ (Called(w)' <=> Called(w))
    BY <1>3, <1>5, StandsStill
<1>7. pc[w] = "readSetup" /\ down[w] = <<>> /\ Members(down[w]) = {}
    BY <1>1, EmptyQueue DEF IInv, Queues, AnsweredAt
<1>8. ~IsPaging(Reply("SetupResponse")) /\ Members(down'[w]) = {Reply("SetupResponse")}
    BY <1>2, <1>7, MessageFacts DEF Answers
<1>9. ReadAt(w)'
    BY <1>3, <1>5, <1>6, <1>7, ReadAtAnswered DEF AmfSetsUp, OnlyPagings, Answers
<1>10. AnsweredAt(w)' /\ ServedAt(w)'
    BY <1>1, <1>2, <1>3, <1>7, <1>8 DEF AnsweredAt, ServedAt, Nothing
<1>11. SleptAt(w)'
    BY <1>3, <1>6, <1>8 DEF IInv, Queues, SleptAt, NoPagings
<1> QED
    BY <1>3, <1>4, <1>5, <1>6, <1>9, <1>10, <1>11, OnlyMovesKeeps

LEMMA AmfRegistersKeeps ==
    ASSUME IInv, NEW w \in Worker, AmfRegisters(w)
    PROVE  IInv'
<1>1. /\ request[w] = "Register"
      /\ request' \in [Worker -> Requests \cup {Nothing}] /\ request'[w] = Nothing
      /\ \A v \in Worker \ {w} : request'[v] = request[v]
    BY HandlesFacts DEF AmfRegisters, Requests, IInv
<1>2. /\ down' \in [Worker -> Seq(Message)]
      /\ Members(down'[w]) = Members(down[w]) \cup {Reply("Session")}
      /\ \A v \in Worker \ {w} : down'[v] = down[v]
    BY AnswerFacts DEF AmfRegisters, Answers, IInv
<1>3. UNCHANGED <<env, pc, round, address, latencies, signals, list, main, connected, idle, data>>
    BY DEF AmfRegisters, harness
<1>4. Typed'
    BY <1>1, <1>2, <1>3 DEF IInv, Typed
<1>5. OnlyMoves(w)
    BY <1>1, <1>2, <1>3 DEF OnlyMoves
<1>6. KeepsPlace(w) /\ Measured' /\ Calls(w)' = Calls(w) /\ (Called(w)' <=> Called(w))
    BY <1>3, <1>5, StandsStill
<1>7. pc[w] \in {"readSession", "exited"} /\ OnlyPagings(down[w])
    BY <1>1 DEF IInv, Queues, AnsweredAt
<1>8. ~IsPaging(Reply("Session"))
    BY MessageFacts DEF Answers
<1>9. ReadAt(w)'
    BY <1>3, <1>5, <1>6, <1>7, ReadAtAnswered, BeforeCalled DEF AmfRegisters, Answers, Before
<1>10. AnsweredAt(w)' /\ ServedAt(w)'
    BY <1>1, <1>2, <1>3, <1>7, <1>8 DEF AnsweredAt, ServedAt, OnlyPagings, Nothing
<1>11. SleptAt(w)'
    BY <1>2, <1>3, <1>6, <1>8 DEF IInv, Queues, SleptAt, NoPagings
<1> QED
    BY <1>3, <1>4, <1>5, <1>6, <1>9, <1>10, <1>11, OnlyMovesKeeps

LEMMA AmfReleasesKeeps ==
    ASSUME IInv, NEW w \in Worker, AmfReleases(w)
    PROVE  IInv'
<1>1. /\ request[w] = "ReleaseRequest"
      /\ request' \in [Worker -> Requests \cup {Nothing}] /\ request'[w] = Nothing
      /\ \A v \in Worker \ {w} : request'[v] = request[v]
    BY HandlesFacts DEF AmfReleases, Requests, IInv
<1>2. /\ down' \in [Worker -> Seq(Message)]
      /\ Members(down'[w]) = Members(down[w]) \cup {Reply("ReleaseCommand")}
      /\ \A v \in Worker \ {w} : down'[v] = down[v]
    BY AnswerFacts DEF AmfReleases, Answers, IInv
<1>3. UNCHANGED <<env, pc, round, address, latencies, signals, list, main, connected, idle, data>>
    BY DEF AmfReleases, harness
<1>4. Typed'
    BY <1>1, <1>2, <1>3 DEF IInv, Typed
<1>5. OnlyMoves(w)
    BY <1>1, <1>2, <1>3 DEF OnlyMoves
<1>6. KeepsPlace(w) /\ Measured' /\ Calls(w)' = Calls(w) /\ (Called(w)' <=> Called(w))
    BY <1>3, <1>5, StandsStill
<1>7. pc[w] = "readRelease" /\ OnlyPagings(down[w])
    BY <1>1 DEF IInv, Queues, AnsweredAt
<1>8. ~IsPaging(Reply("ReleaseCommand"))
    BY MessageFacts DEF Answers
<1>9. ReadAt(w)'
    BY <1>3, <1>5, <1>6, <1>7, ReadAtAnswered, BeforeCalled DEF AmfReleases, Answers, Before
<1>10. AnsweredAt(w)' /\ ServedAt(w)'
    BY <1>1, <1>2, <1>3, <1>7, <1>8 DEF AnsweredAt, ServedAt, OnlyPagings, Nothing
<1>11. SleptAt(w)'
    BY <1>2, <1>3, <1>6, <1>8 DEF IInv, Queues, SleptAt, NoPagings
<1> QED
    BY <1>3, <1>4, <1>5, <1>6, <1>9, <1>10, <1>11, OnlyMovesKeeps

LEMMA AmfForgetsKeeps ==
    ASSUME IInv, NEW w \in Worker, AmfForgets(w)
    PROVE  IInv'
<1>1. /\ request[w] = "ReleaseComplete"
      /\ request' \in [Worker -> Requests \cup {Nothing}] /\ request'[w] = Nothing
      /\ \A v \in Worker \ {w} : request'[v] = request[v]
    BY HandlesFacts DEF AmfForgets, Requests, IInv
<1>2. /\ UNCHANGED <<env, pc, round, address, latencies, signals, list, main, down, connected, data>>
      /\ idle' = idle \cup {Mine(w)}
    BY DEF AmfForgets, harness
<1>3. Mine(w) \in UE /\ \A v \in Worker \ {w} : Mine(v) # Mine(w)
    BY MineFacts DEF IInv
<1>4. Typed'
    BY <1>1, <1>2, <1>3 DEF IInv, Typed
<1>5. OnlyMoves(w)
  <2>1. \A v \in Worker \ {w} : Mine(v) \in idle' => Mine(v) \in idle
      BY <1>2, <1>3
  <2> QED
      BY <1>1, <1>2, <2>1 DEF OnlyMoves
<1>6. KeepsPlace(w) /\ Measured' /\ Calls(w)' = Calls(w) /\ (Called(w)' <=> Called(w))
    BY <1>2, <1>5, StandsStill
<1>7. pc[w] \in {"signal", "readPaging"}
    BY <1>1 DEF IInv, Queues, AnsweredAt
<1>8. ReadAt(w)'
    BY <1>2, <1>5, <1>6, ReadAtKeeps
<1>9. AnsweredAt(w)' /\ ServedAt(w)'
    BY <1>1, <1>2, <1>7 DEF IInv, Queues, AnsweredAt, ServedAt, Nothing
<1>10. SleptAt(w)'
    BY <1>2, <1>6 DEF IInv, Queues, SleptAt
<1> QED
    BY <1>2, <1>4, <1>5, <1>6, <1>8, <1>9, <1>10, OnlyMovesKeeps

LEMMA AmfServesKeeps ==
    ASSUME IInv, NEW w \in Worker, AmfServes(w)
    PROVE  IInv'
<1>1. /\ request[w] = "ServiceRequest"
      /\ request' \in [Worker -> Requests \cup {Nothing}] /\ request'[w] = Nothing
      /\ \A v \in Worker \ {w} : request'[v] = request[v]
    BY HandlesFacts DEF AmfServes, Requests, IInv
<1>2. /\ down' \in [Worker -> Seq(Message)]
      /\ Members(down'[w]) = Members(down[w]) \cup {Reply("ContextSetup")}
      /\ \A v \in Worker \ {w} : down'[v] = down[v]
    BY AnswerFacts DEF AmfServes, Answers, IInv
<1>3. /\ UNCHANGED <<env, pc, round, address, latencies, signals, list, main, connected, data>>
      /\ idle' = idle \ {Mine(w)}
  <2>1. pc[w] = "readContext"
      BY <1>1 DEF IInv, Queues, AnsweredAt
  <2>2. Mine(w) \notin data
      BY <2>1, PendingWaits
  <2> QED
      BY <2>2 DEF AmfServes, harness
<1>4. Typed'
    BY <1>1, <1>2, <1>3 DEF IInv, Typed
<1>5. OnlyMoves(w)
    BY <1>1, <1>2, <1>3 DEF OnlyMoves
<1>6. /\ KeepsPlace(w) /\ Measured' /\ Calls(w)' = Calls(w) /\ (Called(w)' <=> Called(w))
      /\ Mine(w)' = Mine(w)
    BY <1>3, <1>5, StandsStill
<1>7. pc[w] = "readContext" /\ OnlyPagings(down[w])
    BY <1>1 DEF IInv, Queues, AnsweredAt
<1>8. ~IsPaging(Reply("ContextSetup"))
    BY MessageFacts DEF Answers
<1>9. Paging(Mine(w)) \notin Members(down[w])
  <2>1. IsPaging(Paging(Mine(w))) /\ Paging(Mine(w)).ue = Mine(w)
      BY MineFacts, MessageFacts DEF IInv
  <2> QED
      BY <1>7, <2>1 DEF IInv, Queues, ReadAt, RightPaging, Paged
<1>10. ReadAt(w)'
    BY <1>3, <1>5, <1>6, <1>7, <1>9, ReadAtAnswered DEF AmfServes, Answers
<1>11. AnsweredAt(w)' /\ ServedAt(w)'
    BY <1>1, <1>2, <1>3, <1>6, <1>7, <1>8 DEF AnsweredAt, ServedAt, OnlyPagings, Nothing
<1>12. SleptAt(w)'
    BY <1>3, <1>6, <1>7 DEF SleptAt, Called, Paged
<1> QED
    BY <1>3, <1>4, <1>5, <1>6, <1>10, <1>11, <1>12, OnlyMovesKeeps

LEMMA AmfRejectsKeeps ==
    ASSUME IInv, NEW w \in Worker, AmfRejects(w)
    PROVE  IInv'
<1>1. /\ request[w] = "ServiceRequest"
      /\ request' \in [Worker -> Requests \cup {Nothing}] /\ request'[w] = Nothing
      /\ \A v \in Worker \ {w} : request'[v] = request[v]
    BY HandlesFacts DEF AmfRejects, Requests, IInv
<1>2. /\ down' \in [Worker -> Seq(Message)]
      /\ Members(down'[w]) = Members(down[w]) \cup {Reply("Reject")}
      /\ \A v \in Worker \ {w} : down'[v] = down[v]
    BY AnswerFacts DEF AmfRejects, Answers, IInv
<1>3. UNCHANGED <<env, pc, round, address, latencies, signals, list, main, connected, idle, data>>
    BY DEF AmfRejects, harness
<1>4. Typed'
    BY <1>1, <1>2, <1>3 DEF IInv, Typed
<1>5. OnlyMoves(w)
    BY <1>1, <1>2, <1>3 DEF OnlyMoves
<1>6. /\ KeepsPlace(w) /\ Measured' /\ Calls(w)' = Calls(w) /\ (Called(w)' <=> Called(w))
      /\ Mine(w)' = Mine(w)
    BY <1>3, <1>5, StandsStill
<1>7. pc[w] = "readContext" /\ OnlyPagings(down[w])
    BY <1>1 DEF IInv, Queues, AnsweredAt
<1>8. ~IsPaging(Reply("Reject"))
    BY MessageFacts DEF Answers
<1>9. Paging(Mine(w)) \notin Members(down[w])
  <2>1. IsPaging(Paging(Mine(w))) /\ Paging(Mine(w)).ue = Mine(w)
      BY MineFacts, MessageFacts DEF IInv
  <2> QED
      BY <1>7, <2>1 DEF IInv, Queues, ReadAt, RightPaging, Paged
<1>10. ReadAt(w)'
    BY <1>3, <1>5, <1>6, <1>7, <1>9, ReadAtAnswered DEF AmfRejects, Answers
<1>11. AnsweredAt(w)' /\ ServedAt(w)'
  <2>1. \A m \in Members(down'[w]) : m.type # "ContextSetup"
      BY <1>2, <1>7, MessageFacts DEF OnlyPagings, IsPaging, Answers
  <2> QED
      BY <1>1, <1>2, <1>3, <1>6, <1>7, <1>8, <2>1
      DEF AnsweredAt, ServedAt, OnlyPagings, HasContext, Nothing
<1>12. SleptAt(w)'
    BY <1>3, <1>6, <1>7 DEF SleptAt, Called, Paged
<1> QED
    BY <1>3, <1>4, <1>5, <1>6, <1>10, <1>11, <1>12, OnlyMovesKeeps

-----------------------------------------------------------------------------
(* From the Paging on                                                       *)

\* The Paging that is answered is the UE's own.
LEMMA HeardIsMine ==
    ASSUME IInv, ToldApart, NEW w \in Worker, PagingHeard(w)
    PROVE  Head(down[w]) = Paging(Mine(w))
<1>1. /\ down[w] \in Seq(Message) /\ down[w] # <<>>
      /\ Head(down[w]).type = "Paging" /\ Folded(Head(down[w]).ue) = Folded(Mine(w))
    BY DEF IInv, Typed, PagingHeard
<1>2. Head(down[w]) \in Members(down[w]) /\ Head(down[w]) \in Message
    BY <1>1, ReadQueue
<1>3. Head(down[w]).ue \in UE
    BY <1>1, <1>2 DEF IInv, Queues, ReadAt, RightPaging, IsPaging
<1>4. Head(down[w]).ue = Mine(w)
    BY <1>1, <1>3, MineFacts DEF ToldApart, IInv
<1> QED
    BY <1>1, <1>2, <1>4, MessageFacts DEF IsPaging

\* A worker whose UE is being paged has been called.
LEMMA PagingIsCall ==
    ASSUME IInv, NEW w \in Worker, Paging(Mine(w)) \in Members(down[w])
    PROVE  /\ Called(w) /\ ~Pending(w) /\ Mine(w) \notin data /\ w \notin Open
           /\ Calls(w) = round[w]
<1>1. IsPaging(Paging(Mine(w))) /\ Paging(Mine(w)).ue = Mine(w) /\ Mine(w)[2] = round[w]
    BY MineFacts, MessageFacts DEF IInv
<1>2. Mine(w) \notin data /\ round[w] <= Calls(w)
    BY <1>1 DEF IInv, Queues, ReadAt, RightPaging
<1>3. Calls(w) = round[w] /\ Called(w)
    BY <1>2, PendingWaits, MineFacts DEF IInv
<1> QED
    BY <1>2, <1>3, PendingWaits DEF Open

LEMMA AnswerPagingKeeps ==
    ASSUME IInv, ToldApart, NEW w \in Worker, AnswerPaging(w)
    PROVE  IInv'
<1>1. /\ pc[w] = "readPaging" /\ pc' \in [Worker -> Labels] /\ pc'[w] = "readContext"
      /\ \A v \in Worker \ {w} : pc'[v] = pc[v]
    BY GotoFacts DEF AnswerPaging, At, Labels, IInv
<1>2. /\ request' \in [Worker -> Requests \cup {Nothing}] /\ request'[w] = "ServiceRequest"
      /\ \A v \in Worker \ {w} : request'[v] = request[v]
    BY WriteFacts DEF AnswerPaging, Requests, IInv
<1>3. /\ down[w] \in Seq(Message) /\ down[w] # <<>> /\ Head(down[w]) = down[w][1]
      /\ down' \in [Worker -> Seq(Message)] /\ down'[w] = Tail(down[w])
      /\ Members(down[w]) = {down[w][1]} \cup Members(down'[w])
      /\ \A v \in Worker \ {w} : down'[v] = down[v]
    BY ReadFacts DEF AnswerPaging, IInv
<1>4. /\ UNCHANGED <<env, round, address, latencies, signals, list, main, connected, idle, data>>
      /\ down[w][1] = Paging(Mine(w))
    BY <1>3, HeardIsMine DEF AnswerPaging
<1>5. Typed'
    BY <1>1, <1>2, <1>3, <1>4 DEF IInv, Typed
<1>6. OnlyMoves(w)
    BY <1>1, <1>2, <1>3, <1>4 DEF OnlyMoves
<1>7. /\ Called(w) /\ ~Pending(w) /\ Mine(w) \notin data /\ w \notin Open
      /\ Calls(w) = round[w]
    BY <1>3, <1>4, PagingIsCall
<1>8. Called(w)' /\ Calls(w)' = round[w] /\ Mine(w)' = Mine(w)
    BY <1>1, <1>4 DEF Called, Calls, Paged, Mine
<1>9. KeepsPlace(w) /\ (w \in Due' <=> w \in Due)
    BY <1>1, <1>7, <1>8 DEF KeepsPlace, Open, Due
<1>10. Measured'
    BY <1>4, <1>6, <1>9, QuietMeasured
<1>11. /\ Members(down'[w]) \subseteq Batch(round[w])
       /\ Paging(Mine(w)) \notin Members(down'[w])
       /\ Apart(down'[w], Message) /\ Behind(down'[w], Paging(Mine(w)), Batch(round[w]))
  <2>1. Paging(Mine(w)) \in Message
      BY MineFacts, MessageFacts DEF IInv
  <2>2. Apart(down[w], Message) /\ Behind(down[w], Paging(Mine(w)), Batch(round[w]))
      BY DEF IInv, Queues, ReadAt
  <2> QED
      BY <1>3, <1>4, <2>1, <2>2, ReadQueue
<1>12. ReadAt(w)'
  <2>1. ASSUME NEW m \in Members(down'[w])
        PROVE  RightPaging(w, m)'
    <3>1. m \in Members(down[w]) /\ m \in Message /\ IsPaging(m) /\ m.ue[2] = round[w]
        BY <1>3, <1>11 DEF Batch
    <3>2. m.ue # Mine(w)
        BY <1>11, <3>1, MessageFacts
    <3>3. RightPaging(w, m)
        BY <3>1 DEF IInv, Queues, ReadAt
    <3> QED
        BY <1>4, <1>7, <1>8, <3>1, <3>2, <3>3 DEF RightPaging
  <2>2. Batch(round[w])' = Batch(round[w])
      BY <1>4 DEF Batch
  <2> QED
      BY <1>4, <1>8, <1>11, <2>1, <2>2 DEF ReadAt
<1>13. OnlyPagings(down'[w])
    BY <1>11 DEF OnlyPagings, Batch
<1>14. AnsweredAt(w)' /\ ServedAt(w)' /\ SleptAt(w)'
    BY <1>1, <1>2, <1>8, <1>13
    DEF AnsweredAt, ServedAt, SleptAt, OnlyPagings, HasContext, IsPaging, Nothing
<1> QED
    BY <1>1, <1>5, <1>6, <1>9, <1>10, <1>12, <1>14, OnlyMovesKeeps

LEMMA AbsorbKeeps ==
    ASSUME IInv, NEW w \in Worker, Absorb(w)
    PROVE  IInv'
<1>1. /\ pc[w] \in {"readPaging", "readContext"} /\ Read(w)
      /\ UNCHANGED <<env, pc, round, address, latencies, signals, list, main,
                     request, connected, idle, data>>
    BY DEF Absorb, At, harness
<1>2. /\ down' \in [Worker -> Seq(Message)]
      /\ Members(down[w]) = {down[w][1]} \cup Members(down'[w])
      /\ \A v \in Worker \ {w} : down'[v] = down[v]
    BY <1>1, ReadFacts DEF IInv
<1>3. Typed'
    BY <1>1, <1>2 DEF IInv, Typed
<1>4. OnlyMoves(w)
    BY <1>1, <1>2 DEF OnlyMoves
<1>5. /\ KeepsPlace(w) /\ Measured' /\ Calls(w)' = Calls(w) /\ (Called(w)' <=> Called(w))
      /\ Mine(w)' = Mine(w)
    BY <1>1, <1>4, StandsStill
<1>6. ReadAt(w)'
    BY <1>1, <1>4, <1>5, ReadAtKeeps
<1>7. AnsweredAt(w)' /\ ServedAt(w)'
    BY <1>1, <1>2, <1>5 DEF IInv, Queues, AnsweredAt, ServedAt, OnlyPagings, HasContext
<1>8. SleptAt(w)'
    BY <1>1, <1>2, <1>5 DEF IInv, Queues, SleptAt, NoPagings
<1> QED
    BY <1>1, <1>3, <1>4, <1>5, <1>6, <1>7, <1>8, OnlyMovesKeeps

\* A worker whose UE has been paged stays called until its next UE.
LEMMA PagedKeepsPlace ==
    ASSUME IInv, NEW w \in Worker, OnlyMoves(w),
           pc[w] \in Paged, pc'[w] \in Paged, round'[w] = round[w]
    PROVE  /\ KeepsPlace(w) /\ Calls(w)' = Calls(w) /\ Mine(w)' = Mine(w)
           /\ Called(w) /\ Called(w)' /\ SleptAt(w)'
<1>1. Called(w) /\ Called(w)' /\ Mine(w)' = Mine(w)
    BY DEF Called, Mine
<1>2. Calls(w)' = Calls(w) /\ w \notin Open /\ w \notin Open'
    BY <1>1 DEF Calls, Open
<1>3. pc[w] # "readPaging"
    BY DEF Paged
<1> QED
    BY <1>1, <1>2, <1>3, PendingWaits DEF KeepsPlace, SleptAt

LEMMA FinishKeeps ==
    ASSUME IInv, NEW w \in Worker, Finish(w)
    PROVE  IInv'
<1>1. /\ pc[w] = "readContext" /\ pc' \in [Worker -> Labels] /\ pc'[w] = "deliver"
      /\ \A v \in Worker \ {w} : pc'[v] = pc[v]
    BY GotoFacts DEF Finish, At, Labels, IInv
<1>2. /\ down[w] \in Seq(Message) /\ down[w] # <<>>
      /\ Head(down[w]) = down[w][1] /\ down[w][1] \in Message
      /\ down' \in [Worker -> Seq(Message)] /\ down'[w] = Tail(down[w])
      /\ Members(down[w]) = {down[w][1]} \cup Members(down'[w])
      /\ \A v \in Worker \ {w} : down'[v] = down[v]
    BY ReadFacts DEF Finish, IInv
<1>3. /\ UNCHANGED <<env, round, address, latencies, signals, list, main, request, idle, data>>
      /\ connected' = connected \ {w}
      /\ ~IsPaging(down[w][1]) /\ HasContext(w)
    BY <1>2 DEF Finish, IsPaging, HasContext
<1>4. Typed'
    BY <1>1, <1>2, <1>3 DEF IInv, Typed
<1>5. OnlyMoves(w)
    BY <1>1, <1>2, <1>3 DEF OnlyMoves
<1>6. /\ KeepsPlace(w) /\ Calls(w)' = Calls(w) /\ Mine(w)' = Mine(w) /\ SleptAt(w)'
      /\ Called(w) /\ Called(w)'
    BY <1>1, <1>3, <1>5, PagedKeepsPlace DEF Paged
<1>7. Measured'
  <2>1. w \in Due' <=> w \in Due
      BY <1>1, <1>6 DEF Due
  <2> QED
      BY <1>3, <1>5, <1>6, <2>1, QuietMeasured
<1>8. OnlyPagings(down'[w])
  <2>1. down[w][1] \notin Members(down'[w])
      BY <1>2, ReadQueue DEF IInv, Queues, ReadAt
  <2>2. \A m \in Members(down'[w]) : ~IsPaging(m) => m = down[w][1]
      BY <1>2, <1>3 DEF IInv, Queues, AnsweredAt
  <2> QED
      BY <2>1, <2>2 DEF OnlyPagings
<1>9. ReadAt(w)'
    BY <1>1, <1>3, <1>5, <1>6, ReadAtKeeps DEF Finish, Paged
<1>10. Mine(w) \notin idle
    BY <1>1, <1>2, <1>3 DEF IInv, Queues, ServedAt
<1>11. request[w] \notin {"NGSetup", "Register", "ReleaseRequest", "ReleaseComplete", "ServiceRequest"}
    BY <1>1, <1>2, <1>3 DEF IInv, Queues, AnsweredAt, OnlyPagings
<1>12. AnsweredAt(w)' /\ ServedAt(w)'
    BY <1>1, <1>3, <1>6, <1>8, <1>10, <1>11 DEF AnsweredAt, ServedAt, OnlyPagings
<1> QED
    BY <1>1, <1>4, <1>5, <1>6, <1>7, <1>9, <1>12, OnlyMovesKeeps

LEMMA DeliverKeeps ==
    ASSUME IInv, NEW w \in Worker, Deliver(w)
    PROVE  IInv'
<1>1. /\ pc[w] = "deliver" /\ pc' \in [Worker -> Labels] /\ pc'[w] = "sleep"
      /\ \A v \in Worker \ {w} : pc'[v] = pc[v]
    BY GotoFacts DEF Deliver, At, Labels, IInv
<1>2. /\ UNCHANGED <<env, round, address, signals, list, main, request, down, connected, idle, data>>
      /\ latencies' = latencies + 1 /\ latencies \in Nat
    BY DEF Deliver, amf, IInv, Typed
<1>3. Typed'
    BY <1>1, <1>2 DEF IInv, Typed
<1>4. OnlyMoves(w)
    BY <1>1, <1>2 DEF OnlyMoves
<1>5. /\ KeepsPlace(w) /\ Calls(w)' = Calls(w) /\ Mine(w)' = Mine(w) /\ SleptAt(w)'
      /\ Called(w)
    BY <1>1, <1>2, <1>4, PagedKeepsPlace DEF Paged
<1>6. Measured'
  <2>1. w \in Due /\ w \notin Due' /\ \A v \in Worker \ {w} : v \in Due' <=> v \in Due
      BY <1>1, <1>4, <1>5, OthersKeep DEF Due
  <2>2. Due' = Due \ {w} /\ Due \subseteq Worker
      BY <2>1 DEF Due
  <2>3. Cardinality(Due') = Cardinality(Due) - 1 /\ Cardinality(Due) \in Nat
      BY <2>1, <2>2, CountWorkers
  <2>4. \A v \in Worker : Calls(v)' = Calls(v)
      BY <1>4, <1>5, OthersKeep
  <2> QED
      BY <1>2, <2>3, <2>4 DEF IInv, Measured
<1>7. ReadAt(w)'
    BY <1>1, <1>2, <1>4, <1>5, ReadAtKeeps DEF Paged
<1>8. AnsweredAt(w)' /\ ServedAt(w)'
    BY <1>1, <1>2 DEF IInv, Queues, AnsweredAt, ServedAt
<1> QED
    BY <1>1, <1>3, <1>4, <1>5, <1>6, <1>7, <1>8, OnlyMovesKeeps

\* The next UE has not been called, and all the Pagings are of the batch before.
LEMMA NextUeKeeps ==
    ASSUME IInv, NEW w \in Worker, NextUe(w)
    PROVE  IInv'
<1>1. /\ pc[w] = "sleep" /\ (env.sleepsSuffice => data = {})
      /\ UNCHANGED <<env, address, latencies, signals, list, main,
                     request, down, connected, idle, data>>
    BY DEF NextUe, At, amf
<1>2. /\ pc[w] \in Paged /\ pc[w] # "readPaging" /\ Called(w) /\ Calls(w) = round[w]
      /\ w \notin Open /\ w \notin Due /\ ~Pending(w) /\ Mine(w) \notin data
    BY <1>1, PendingWaits DEF Paged, Called, Calls, Open, Due
<1>3. CASE round[w] < WorkLoad
  <2>1. /\ pc' \in [Worker -> Labels] /\ pc'[w] = "connect"
        /\ \A v \in Worker \ {w} : pc'[v] = pc[v]
      BY <1>3, GotoFacts DEF NextUe, Labels, IInv
  <2>2. /\ round' \in [Worker -> 1..WorkLoad] /\ round'[w] = round[w] + 1
        /\ \A v \in Worker \ {w} : round'[v] = round[v]
        /\ round[w] \in Nat
    <3>1. round' = [round EXCEPT ![w] = round[w] + 1]
        BY <1>3 DEF NextUe
    <3>2. round \in [Worker -> 1..WorkLoad] /\ round[w] + 1 \in 1..WorkLoad /\ round[w] \in Nat
        BY <1>3, BatchSize DEF IInv, Typed
    <3> QED
        BY <3>1, <3>2
  <2>3. Typed'
      BY <1>1, <2>1, <2>2 DEF IInv, Typed
  <2>4. OnlyMoves(w)
      BY <1>1, <2>1, <2>2 DEF OnlyMoves
  <2>5. ~Called(w)' /\ w \notin Open' /\ w \notin Due'
      BY <2>1 DEF Called, Open, Due, Paged
  <2>6. KeepsPlace(w) /\ Calls(w)' = round[w] /\ Measured'
    <3>1. Calls(w)' = round[w]
        BY <2>2, <2>5 DEF Calls
    <3>2. KeepsPlace(w)
        BY <1>2, <2>5, <3>1 DEF KeepsPlace
    <3> QED
        BY <1>1, <1>2, <2>4, <2>5, <3>1, <3>2, QuietMeasured
  <2>7. /\ OnlyPagings(down[w]) /\ w \notin connected
        /\ request[w] \notin {"NGSetup", "Register", "ReleaseRequest", "ReleaseComplete",
                              "ServiceRequest"}
      BY <1>1 DEF IInv, Queues, AnsweredAt
  <2>8. AnsweredAt(w)' /\ ServedAt(w)' /\ SleptAt(w)'
      BY <1>1, <2>1, <2>5, <2>7 DEF AnsweredAt, ServedAt, SleptAt, OnlyPagings
  <2>9. ASSUME NEW m \in Members(down[w])
        PROVE  RightPaging(w, m)' /\ m # Paging(Mine(w))'
    <3>1. /\ m.ue \in UE /\ m.ue \notin data /\ m.ue[2] = round[w] /\ m.ue # Mine(w)
        BY <1>2, <2>7 DEF IInv, Queues, ReadAt, RightPaging, OnlyPagings
    <3>2. <<w, round'[w] - 1>> = Mine(w)
        BY <2>2 DEF Mine
    <3>3. RightPaging(w, m)'
        BY <1>1, <2>1, <2>2, <2>6, <3>1, <3>2 DEF RightPaging, Paged
    <3>4. Mine(w)' \in UE /\ Mine(w)'[2] = round'[w]
        BY <2>2 DEF Mine, UE
    <3>5. Paging(Mine(w))'.ue[2] = round'[w]
        BY <3>4, MessageFacts DEF Paging
    <3> QED
        BY <2>2, <3>1, <3>3, <3>5
  <2>10. Behind(down[w], Paging(Mine(w))', Batch(round[w])')
      BY <2>9 DEF Behind, Members
  <2>11. ReadAt(w)'
    <3>1. Apart(down[w], Message)
        BY DEF IInv, Queues, ReadAt
    <3> QED
        BY <1>1, <2>9, <2>10, <3>1 DEF ReadAt
  <2> QED
      BY <1>1, <2>3, <2>4, <2>6, <2>8, <2>11, OnlyMovesKeeps
<1>4. CASE ~(round[w] < WorkLoad)
  <2>1. /\ pc' \in [Worker -> Labels] /\ pc'[w] = "done" /\ round' = round
        /\ \A v \in Worker \ {w} : pc'[v] = pc[v]
      BY <1>4, GotoFacts DEF NextUe, Labels, IInv
  <2>2. Typed'
      BY <1>1, <2>1 DEF IInv, Typed
  <2>3. OnlyMoves(w)
      BY <1>1, <2>1 DEF OnlyMoves
  <2>4. KeepsPlace(w) /\ Calls(w)' = Calls(w) /\ SleptAt(w)'
      BY <1>2, <2>1, <2>3, PagedKeepsPlace DEF Paged
  <2>5. w \notin Due'
      BY <2>1 DEF Due
  <2>6. Measured'
      BY <1>1, <1>2, <2>3, <2>4, <2>5, QuietMeasured
  <2>7. ReadAt(w)'
      BY <1>1, <1>2, <2>1, <2>3, <2>4, ReadAtKeeps
  <2>8. AnsweredAt(w)' /\ ServedAt(w)'
      BY <1>1, <2>1 DEF IInv, Queues, AnsweredAt, ServedAt
  <2> QED
      BY <2>1, <2>2, <2>3, <2>4, <2>6, <2>7, <2>8, OnlyMovesKeeps
<1> QED
    BY <1>3, <1>4

LEMMA SignalKeeps ==
    ASSUME IInv, NEW w \in Worker, Signal(w)
    PROVE  IInv'
<1> DEFINE x == IF address[w] THEN Mine(w) ELSE NoAddress
<1>1. /\ pc[w] = "signal" /\ pc' \in [Worker -> Labels] /\ pc'[w] = "readPaging"
      /\ \A v \in Worker \ {w} : pc'[v] = pc[v]
    BY GotoFacts DEF Signal, At, Labels, IInv
<1>2. /\ UNCHANGED <<env, round, address, latencies, list, main,
                     request, down, connected, idle, data>>
      /\ signals' = Append(signals, x)
    BY DEF Signal, amf
<1>3. /\ ~Called(w) /\ ~Pending(w) /\ Mine(w) \notin data
      /\ w \notin Open /\ w \notin Due /\ Calls(w) = round[w] - 1
      /\ Mine(w)' = Mine(w)
    BY <1>1, <1>2, BeforeCalled DEF Before, Mine
<1>4. /\ Mine(w) \in UE /\ NoAddress \notin UE /\ \A v \in Worker : Mine(v) \in UE
      /\ \A v \in Worker \ {w} : Mine(v) # Mine(w)
    BY MineFacts DEF IInv
<1>5. x \in UE \cup {NoAddress} /\ (address[w] <=> x = Mine(w))
      /\ \A v \in Worker \ {w} : x # Mine(v)
    BY <1>4
<1> HIDE DEF x
<1>6. /\ signals \in Seq(UE \cup {NoAddress}) /\ list \in Seq(UE)
      /\ signals' \in Seq(UE \cup {NoAddress}) /\ Len(signals') = Len(signals) + 1
      /\ Members(signals') = Members(signals) \cup {x}
      /\ Len(signals) \in Nat /\ Len(list) \in Nat
    BY <1>2, <1>5, AppendMembers, EmptyQueue DEF IInv, Typed
<1>7. Typed'
    BY <1>1, <1>2, <1>6 DEF IInv, Typed
<1>8. \A v \in Worker \ {w} : Pending(v)' <=> Pending(v)
    BY <1>2, <1>5, <1>6 DEF Pending, Mine
<1>9. \A v \in Worker \ {w} :
         /\ Mine(v)' = Mine(v) /\ (Called(v)' <=> Called(v)) /\ Calls(v)' = Calls(v)
         /\ (v \in Open' <=> v \in Open) /\ (v \in Due' <=> v \in Due)
         /\ ReadAt(v)' /\ AnsweredAt(v)' /\ ServedAt(v)' /\ SleptAt(v)'
    BY <1>1, <1>2, <1>8, SeenAlike
<1>10. ~Called(w)' /\ Calls(w)' = Calls(w)
  <2>1. address[w] => Pending(w)'
      BY <1>3, <1>5, <1>6 DEF Pending
  <2>2. ~Called(w)'
      BY <1>1, <1>2, <2>1 DEF Called, Paged
  <2> QED
      BY <1>2, <1>3, <2>2 DEF Calls
<1>11. Open' = Open \cup {w} /\ Due' = Due /\ Open \subseteq Worker
  <2>1. w \in Open' /\ w \notin Due'
      BY <1>1, <1>10 DEF Open, Due
  <2> QED
      BY <1>3, <1>9, <2>1 DEF Open, Due
<1>12. Listed'
  <2>1. Cardinality(Open') = Cardinality(Open) + 1 /\ Cardinality(Open) \in Nat
      BY <1>3, <1>11, CountWorkers
  <2>2. Apart(signals', UE)
    <3>1. x \in UE => x \notin Members(signals)
        BY <1>3, <1>4, <1>5 DEF x, Pending
    <3> QED
        BY <1>2, <1>5, <1>6, <3>1, AppendApart DEF IInv, Listed
  <2>3. \A u \in UE : ~(u \in Members(signals') /\ u \in Members(list'))
    <3>1. x \in UE => x \notin Members(list)
        BY <1>3, <1>4 DEF x, Pending
    <3> QED
        BY <1>2, <1>6, <3>1 DEF IInv, Listed
  <2>4. ASSUME NEW u \in UE, u \in Members(signals') \cup Members(list')
        PROVE  \E v \in Worker : u = Mine(v)' /\ pc'[v] = "readPaging" /\ address'[v]
    <3>1. CASE u = x
      <4>1. u = Mine(w) /\ address[w]
          BY <1>4, <2>4, <3>1 DEF x
      <4> QED
          BY <1>1, <1>2, <1>3, <4>1
    <3>2. CASE u # x
      <4>1. u \in Members(signals) \cup Members(list)
          BY <1>2, <1>6, <2>4, <3>2
      <4>2. PICK v \in Worker : u = Mine(v) /\ pc[v] = "readPaging" /\ address[v]
          BY <2>4, <4>1 DEF IInv, Listed
      <4>3. v # w
          BY <1>1, <4>2
      <4> QED
          BY <1>1, <1>2, <1>9, <4>2, <4>3
    <3> QED
        BY <3>1, <3>2
  <2>5. Len(list') < ThreadAmount /\ Len(signals') + Len(list') <= Cardinality(Open')
      BY <1>2, <1>6, <2>1 DEF IInv, Listed
  <2>6. Apart(list', UE)
      BY <1>2 DEF IInv, Listed
  <2> QED
      BY <2>2, <2>3, <2>4, <2>5, <2>6 DEF Listed
<1>13. Together' /\ Measured'
    BY <1>2, <1>9, <1>10, <1>11 DEF IInv, Together, Measured
<1>14. DataCalled'
    BY <1>1, <1>2, <1>9 DEF IInv, DataCalled
<1>15. ReadAt(w)'
    BY <1>1, <1>2, <1>3, <1>10 DEF IInv, Queues, ReadAt, RightPaging, Paged
<1>16. AnsweredAt(w)' /\ ServedAt(w)' /\ SleptAt(w)'
    BY <1>1, <1>2, <1>3, <1>10 DEF IInv, Queues, AnsweredAt, ServedAt, SleptAt
<1>17. Queues'
    BY <1>9, <1>15, <1>16 DEF Queues
<1>18. ClosedMeansDone'
    BY <1>1, <1>2 DEF IInv, ClosedMeansDone
<1> QED
    BY <1>7, <1>12, <1>13, <1>14, <1>17, <1>18 DEF IInv

-----------------------------------------------------------------------------
(* The controller and the Pagings                                           *)

\* The AMF pages a UE of the latest batch on every association.
LEMMA AmfPagesKeeps ==
    ASSUME IInv, NEW u \in UE, AmfPages(u)
    PROVE  IInv'
<1>1. /\ UNCHANGED <<env, pc, round, address, latencies, signals, list, main,
                     request, connected, idle>>
      /\ u \in data /\ data' = data \ {u}
    BY DEF AmfPages, harness
<1>2. PICK x \in Worker : u = Mine(x) /\ pc[x] = "readPaging" /\ Called(x)
    BY <1>1 DEF IInv, DataCalled
<1>3. /\ Paging(u) \in Message /\ IsPaging(Paging(u)) /\ Paging(u).ue = u
      /\ u[2] = round[x] /\ Calls(x) = round[x]
      /\ \A w \in Worker : Mine(w) \in UE /\ (Mine(w) = u => w = x)
    BY <1>2, MineFacts, MessageFacts, PendingWaits DEF IInv
<1>4. ASSUME NEW w \in Worker
      PROVE  /\ Mine(w)' = Mine(w) /\ (Called(w)' <=> Called(w)) /\ Calls(w)' = Calls(w)
             /\ Calls(w) = u[2]
  <2>1. Mine(w)' = Mine(w) /\ (Pending(w)' <=> Pending(w))
      BY <1>1 DEF Mine, Pending
  <2>2. (Called(w)' <=> Called(w)) /\ Calls(w)' = Calls(w)
      BY <1>1, <2>1 DEF Called, Calls
  <2> QED
      BY <1>3, <2>1, <2>2 DEF IInv, Together
<1>5. Open' = Open /\ Due' = Due
    BY <1>1, <1>4 DEF Open, Due
<1>6. ASSUME NEW w \in Worker
      PROVE  /\ down[w] \in Seq(Message) /\ down'[w] \in Seq(Message)
             /\ w \notin connected => down'[w] = down[w]
             /\ w \in connected => /\ down'[w] = Append(down[w], Paging(u))
                                   /\ Members(down'[w]) = Members(down[w]) \cup {Paging(u)}
                                   /\ down'[w] # <<>>
                                   /\ down[w] # <<>> => down'[w][1] = down[w][1]
  <2>1. down[w] \in Seq(Message)
      BY DEF IInv, Typed
  <2>2. down'[w] = IF w \in connected THEN Append(down[w], Paging(u)) ELSE down[w]
      BY DEF AmfPages
  <2> QED
      BY <1>3, <2>1, <2>2, AppendMembers
<1>7. down' \in [Worker -> Seq(Message)]
  <2>1. down' = [w \in Worker |-> IF w \in connected THEN Append(down[w], Paging(u)) ELSE down[w]]
      BY DEF AmfPages
  <2> QED
      BY <1>6, <2>1
<1>8. Typed'
    BY <1>1, <1>7 DEF IInv, Typed
<1>9. ASSUME NEW w \in Worker
      PROVE  ReadAt(w)'
  <2>1. Apart(down[w], Message) /\ Behind(down[w], Paging(Mine(w)), Batch(round[w]))
        /\ \A m \in Members(down[w]) : IsPaging(m) => RightPaging(w, m)
      BY DEF IInv, Queues, ReadAt
  <2>2. \A m \in Members(down[w]) : IsPaging(m) => RightPaging(w, m)'
      BY <1>1, <1>4, <2>1 DEF RightPaging
  <2>3. Batch(round[w])' = Batch(round[w])
      BY <1>1 DEF Batch
  <2>4. CASE w \notin connected
      BY <1>4, <1>6, <2>1, <2>2, <2>3, <2>4 DEF ReadAt
  <2>5. CASE w \in connected
    <3>0. /\ down[w] \in Seq(Message) /\ down'[w] = Append(down[w], Paging(u))
          /\ Members(down'[w]) = Members(down[w]) \cup {Paging(u)}
        BY <1>6, <2>5
    <3>1. Paging(u) \notin Members(down[w])
        BY <1>1, <1>3, <2>1 DEF RightPaging
    <3>2. Apart(down'[w], Message)
        BY <1>3, <2>1, <3>0, <3>1, AppendApart
    <3>3. Behind(down'[w], Paging(Mine(w)), Batch(round[w]))
      <4>1. Paging(Mine(w)) \in Members(down[w]) => Calls(w) = round[w]
          BY PagingIsCall
      <4>2. Paging(u) \in Batch(round[w]) \/ Paging(Mine(w)) \notin Members(down[w])
          BY <1>3, <1>4, <4>1 DEF Batch
      <4> QED
          BY <1>3, <2>1, <3>0, <4>2, AppendBehind
    <3>4. RightPaging(w, Paging(u))'
      <4>1. round[w] \in Nat /\ u[2] \in {round[w] - 1, round[w]} /\ u[2] = Calls(w)
          BY <1>4, PendingWaits, MineFacts DEF IInv
      <4>2. u # <<w, round[w] - 1>>
        <5> SUFFICES ASSUME u = <<w, round[w] - 1>>
                     PROVE  FALSE
            OBVIOUS
        <5>1. x = w
            BY <1>2 DEF Mine
        <5>2. u[2] = round[w] - 1
            OBVIOUS
        <5>3. u[2] = round[w]
            BY <1>3, <5>1
        <5> QED
            BY <4>1, <5>2, <5>3
      <4>3. pc[w] \in Paged => u[2] = round[w] /\ u # Mine(w)
        <5>1. pc[w] \in Paged => Called(w)
            BY DEF Called
        <5>2. pc[w] \in Paged => u # Mine(w)
            BY <1>2, <1>3 DEF Paged
        <5> QED
            BY <1>4, <5>1, <5>2, PendingWaits
      <4> QED
          BY <1>1, <1>3, <1>4, <4>1, <4>2, <4>3 DEF RightPaging
    <3> QED
        BY <1>4, <2>2, <2>3, <3>0, <3>2, <3>3, <3>4 DEF ReadAt
  <2> QED
      BY <2>4, <2>5
<1>10. ASSUME NEW w \in Worker
       PROVE  AnsweredAt(w)' /\ ServedAt(w)'
  <2>1. AnsweredAt(w) /\ ServedAt(w)
      BY DEF IInv, Queues
  <2>2. \A m \in Members(down'[w]) : IsPaging(m) \/ m \in Members(down[w])
      BY <1>3, <1>6
  <2>3. /\ OnlyPagings(down[w]) => OnlyPagings(down'[w])
        /\ \A m, n \in Members(down'[w]) : ~IsPaging(m) /\ ~IsPaging(n) => m = n
      BY <2>1, <2>2 DEF OnlyPagings, AnsweredAt
  <2>4. /\ w \notin connected => down'[w] = down[w]
        /\ down[w] # <<>> => down'[w] # <<>> /\ down'[w][1] = down[w][1]
      BY <1>6
  <2>5. HasContext(w)' => HasContext(w)
      BY <1>3, <2>2 DEF HasContext, IsPaging
  <2> QED
      BY <1>1, <1>4, <2>1, <2>3, <2>4, <2>5 DEF AnsweredAt, ServedAt
<1>11. ASSUME NEW w \in Worker
       PROVE  SleptAt(w)'
    BY <1>1, <1>4 DEF IInv, Queues, SleptAt
<1>12. Queues'
    BY <1>9, <1>10, <1>11 DEF Queues
<1>13. Listed' /\ Together' /\ Measured' /\ ClosedMeansDone'
    BY <1>1, <1>4, <1>5 DEF IInv, Listed, Together, Measured, ClosedMeansDone
<1>14. DataCalled'
    BY <1>1, <1>4 DEF IInv, DataCalled
<1> QED
    BY <1>8, <1>12, <1>13, <1>14 DEF IInv

\* The channel is read and nobody is called by it.
LEMMA NobodyCalledKeeps ==
    ASSUME IInv, signals # <<>>, signals' = Tail(signals),
           list' \in Seq(UE), Apart(list', UE), Len(list') < ThreadAmount,
           Len(signals') + Len(list') <= Len(signals) + Len(list),
           \A u \in UE : (u \in Members(signals') \/ u \in Members(list'))
                           <=> (u \in Members(signals) \/ u \in Members(list)),
           \A u \in UE : ~(u \in Members(signals') /\ u \in Members(list')),
           UNCHANGED <<env, pc, round, address, latencies, main, request, down,
                       connected, idle, data>>
    PROVE  IInv'
<1>1. /\ signals \in Seq(UE \cup {NoAddress}) /\ signals' \in Seq(UE \cup {NoAddress})
      /\ Apart(signals', UE) /\ list \in Seq(UE)
      /\ Len(signals) \in Nat /\ Len(list) \in Nat /\ Len(signals') \in Nat /\ Len(list') \in Nat
  <2>1. signals \in Seq(UE \cup {NoAddress}) /\ Apart(signals, UE) /\ list \in Seq(UE)
      BY DEF IInv, Typed, Listed
  <2>2. signals' \in Seq(UE \cup {NoAddress}) /\ Apart(signals', UE)
      BY <2>1, ReadQueue
  <2> QED
      BY <2>1, <2>2, EmptyQueue
<1>2. \A v \in Worker : Mine(v) \in UE /\ Mine(v)' = Mine(v)
    BY MineFacts DEF IInv, Mine
<1>3. \A v \in Worker : Pending(v)' <=> Pending(v)
    BY <1>2 DEF Pending
<1>4. \A v \in Worker :
        /\ (Called(v)' <=> Called(v)) /\ Calls(v)' = Calls(v)
        /\ (v \in Open' <=> v \in Open) /\ (v \in Due' <=> v \in Due)
        /\ ReadAt(v)' /\ AnsweredAt(v)' /\ ServedAt(v)' /\ SleptAt(v)'
    BY <1>3, SeenAlike
<1>5. Open' = Open /\ Due' = Due
    BY <1>4 DEF Open, Due
<1>6. Typed' /\ ClosedMeansDone'
    BY <1>1 DEF IInv, Typed, ClosedMeansDone
<1>7. Listed'
  <2>1. Cardinality(Open) \in Nat
      BY CountWorkers DEF Open
  <2>2. Len(signals') + Len(list') <= Cardinality(Open')
      BY <1>1, <1>5, <2>1 DEF IInv, Listed
  <2>3. ASSUME NEW u \in UE, u \in Members(signals') \cup Members(list')
        PROVE  \E w \in Worker : u = Mine(w)' /\ pc'[w] = "readPaging" /\ address'[w]
      BY <1>2, <2>3 DEF IInv, Listed
  <2> QED
      BY <1>1, <2>2, <2>3 DEF Listed
<1>8. Together' /\ Measured' /\ DataCalled' /\ Queues'
    BY <1>2, <1>4, <1>5 DEF IInv, Together, Measured, DataCalled, Queues
<1> QED
    BY <1>6, <1>7, <1>8 DEF IInv

\* What the controller has when its list is full: the UEs of all workers.
LEMMA WholeBatch ==
    ASSUME IInv, signals # <<>>, signals[1] # NoAddress,
           NEW filled, filled = Append(list, signals[1]), Len(filled) = ThreadAmount
    PROVE  /\ Members(filled) = {Mine(w) : w \in Worker}
           /\ \A w \in Worker : pc[w] = "readPaging" /\ address[w] /\ ~Called(w)
           /\ Open = Worker
           /\ Tail(signals) = <<>>
<1> DEFINE all == {Mine(w) : w \in Worker}
<1>1. /\ signals \in Seq(UE \cup {NoAddress}) /\ list \in Seq(UE)
      /\ signals[1] \in UE
      /\ signals[1] \in Members(signals) /\ signals[1] \notin Members(list)
  <2>1. signals \in Seq(UE \cup {NoAddress}) /\ list \in Seq(UE)
      BY DEF IInv, Typed
  <2>2. signals[1] \in UE /\ signals[1] \in Members(signals)
      BY <2>1, ReadQueue
  <2> QED
      BY <2>1, <2>2 DEF IInv, Listed
<1>2. /\ filled \in Seq(UE) /\ Apart(filled, UE)
      /\ Members(filled) = Members(list) \cup {signals[1]}
      /\ Len(list) + 1 = ThreadAmount
  <2>1. Apart(list, UE)
      BY DEF IInv, Listed
  <2> QED
      BY <1>1, <2>1, AppendMembers, AppendApart
<1>3. Members(list) \subseteq UE
  <2>1. \A i \in 1..Len(list) : list[i] \in UE
      BY <1>1
  <2> QED
      BY <2>1 DEF Members
<1>4. Members(filled) \subseteq all
    BY <1>1, <1>2, <1>3 DEF IInv, Listed
<1>5. IsFiniteSet(all) /\ Cardinality(all) = ThreadAmount
  <2> DEFINE f == [w \in Worker |-> Mine(w)]
  <2>1. f \in Bijection(Worker, all)
    <3>1. f \in [Worker -> all] /\ \A u \in all : \E w \in Worker : f[w] = u
        OBVIOUS
    <3>2. \A v, w \in Worker : f[v] = f[w] => v = w
        BY MineFacts DEF IInv
    <3> QED
        BY <3>1, <3>2 DEF Bijection, Injection, Surjection, IsInjective
  <2> QED
      BY <2>1, WorkerAssumption, FS_Bijection DEF ExistsBijection, ThreadAmount
<1>6. Members(filled) = all
    BY <1>2, <1>4, <1>5, ApartLength
<1>7. ASSUME NEW w \in Worker
      PROVE  pc[w] = "readPaging" /\ address[w] /\ ~Called(w)
  <2>1. Pending(w)
      BY <1>1, <1>2, <1>6 DEF Pending
  <2> QED
      BY <2>1, PendingWaits
<1>8. Open = Worker
    BY <1>7 DEF Open
<1>9. Tail(signals) = <<>>
  <2>1. Len(signals) + Len(list) <= ThreadAmount
      BY <1>8 DEF IInv, Listed, ThreadAmount
  <2>2. /\ Len(signals) \in Nat \ {0} /\ Len(list) \in Nat
        /\ Tail(signals) \in Seq(UE \cup {NoAddress}) /\ Len(Tail(signals)) = Len(signals) - 1
      BY <1>1, ReadQueue, EmptyQueue
  <2>3. Len(Tail(signals)) = 0
      BY <1>2, <2>1, <2>2, BatchSize
  <2> QED
      BY <2>2, <2>3, EmptyQueue
<1> QED
    BY <1>6, <1>7, <1>8, <1>9

LEMMA OneBatchMore ==
    ASSUME NEW n \in Nat, NEW r \in Nat
    PROVE  n * (r - 1) + n = n * r
    OBVIOUS

\* The controller calls the batch.
LEMMA BatchCalledKeeps ==
    ASSUME IInv, signals # <<>>, signals[1] # NoAddress,
           NEW filled, filled = Append(list, signals[1]), Len(filled) = ThreadAmount,
           signals' = Tail(signals), list' = <<>>, data' = data \cup Members(filled),
           UNCHANGED <<env, pc, round, address, latencies, main, request, down, connected, idle>>
    PROVE  IInv'
<1>1. /\ Members(filled) = {Mine(w) : w \in Worker}
      /\ \A w \in Worker : pc[w] = "readPaging" /\ address[w] /\ ~Called(w)
      /\ Open = Worker
      /\ signals' = <<>>
    BY WholeBatch
<1>2. Members(signals') = {} /\ Members(list') = {} /\ Len(signals') = 0 /\ Len(list') = 0
    BY <1>1, EmptyQueue
<1>3. ASSUME NEW w \in Worker
      PROVE  /\ Mine(w)' = Mine(w) /\ Mine(w) \in UE /\ Mine(w)[2] = round[w]
             /\ round[w] \in Nat \ {0}
             /\ Called(w)' /\ Calls(w)' = round[w] /\ Calls(w) = round[w] - 1
  <2>1. Mine(w)' = Mine(w) /\ ~Pending(w)'
      BY <1>2 DEF Mine, Pending
  <2>2. Called(w)'
      BY <1>1, <2>1 DEF Called
  <2> QED
      BY <1>1, <2>1, <2>2, MineFacts DEF Calls, IInv
<1>4. Open' = {} /\ Due = {} /\ Due' = Worker
    BY <1>1, <1>3 DEF Open, Due
<1>5. Typed'
  <2>1. data' \subseteq UE
      BY <1>1, <1>3 DEF IInv, Typed
  <2> QED
      BY <1>1, <2>1, EmptyQueue DEF IInv, Typed
<1>6. Listed'
  <2>1. Apart(signals', UE) /\ Apart(list', UE)
      BY <1>1, NothingApart
  <2>2. Cardinality(Open') = 0
      BY <1>4, FS_EmptySet
  <2>3. 0 < ThreadAmount /\ 0 + 0 <= 0
      BY BatchSize
  <2>4. Len(list') < ThreadAmount
      BY <1>2, <2>3
  <2>5. Len(signals') + Len(list') <= Cardinality(Open')
      BY <1>2, <2>2, <2>3, Zenon
  <2> QED
      BY <1>2, <2>1, <2>4, <2>5 DEF Listed
<1>7. Together'
  <2>1. \A v, w \in Worker : round[v] - 1 = round[w] - 1
      BY <1>3 DEF IInv, Together
  <2> QED
      BY <1>3, <2>1 DEF Together
<1>8. DataCalled'
    BY <1>1, <1>3 DEF IInv, DataCalled
<1>9. ASSUME NEW w \in Worker
      PROVE  ReadAt(w)'
  <2>1. ASSUME NEW m \in Members(down[w]), IsPaging(m)
        PROVE  RightPaging(w, m)'
    <3>1. RightPaging(w, m) /\ m.ue[2] \in Nat
        BY <2>1, MineFacts DEF IInv, Queues, ReadAt, RightPaging
    <3>2. m.ue \notin Members(filled)
      <4> SUFFICES ASSUME NEW v \in Worker, m.ue = Mine(v)
                   PROVE  FALSE
          BY <1>1
      <4>1. m.ue[2] <= round[w] - 1 /\ m.ue[2] = round[v]
          BY <1>3, <3>1 DEF RightPaging
      <4>2. round[v] - 1 = round[w] - 1
          BY <1>3 DEF IInv, Together
      <4> QED
          BY <1>3, <4>1, <4>2
    <3>3. m.ue[2] <= Calls(w)'
        BY <1>3, <3>1 DEF RightPaging
    <3> QED
        BY <1>1, <1>3, <3>1, <3>2, <3>3 DEF RightPaging, Paged
  <2>2. Batch(round[w])' = Batch(round[w])
      BY DEF Batch
  <2> QED
      BY <1>3, <2>1, <2>2 DEF IInv, Queues, ReadAt
<1>10. ASSUME NEW w \in Worker
       PROVE  AnsweredAt(w)' /\ ServedAt(w)' /\ SleptAt(w)'
    BY <1>1, <1>3 DEF IInv, Queues, AnsweredAt, ServedAt, SleptAt
<1>11. Queues'
    BY <1>9, <1>10 DEF Queues
<1>12. Measured'
  <2> SUFFICES ASSUME NEW w \in Worker
               PROVE  latencies + Cardinality(Worker) = ThreadAmount * round[w]
      BY <1>3, <1>4 DEF Measured
  <2>1. latencies + 0 = ThreadAmount * (round[w] - 1) /\ latencies \in Nat
      BY <1>3, <1>4, FS_EmptySet DEF IInv, Measured, Typed
  <2> QED
      BY <1>3, <2>1, OneBatchMore, BatchSize DEF ThreadAmount
<1>13. ClosedMeansDone'
    BY DEF IInv, ClosedMeansDone
<1> QED
    BY <1>5, <1>6, <1>7, <1>8, <1>11, <1>12, <1>13 DEF IInv

LEMMA CollectKeeps ==
    ASSUME IInv, Collect
    PROVE  IInv'
<1> DEFINE filled == IF Head(signals) = NoAddress THEN list ELSE Append(list, Head(signals))
<1>1. /\ signals # <<>> /\ signals' = Tail(signals)
      /\ list' = IF Len(filled) = ThreadAmount THEN <<>> ELSE filled
      /\ data' = IF Len(filled) = ThreadAmount
                 THEN data \cup {filled[i] : i \in DOMAIN filled} ELSE data
      /\ UNCHANGED <<env, pc, round, address, latencies, main, request, down, connected, idle>>
    BY DEF Collect
<1>2. /\ signals \in Seq(UE \cup {NoAddress}) /\ list \in Seq(UE)
      /\ Apart(list, UE) /\ Len(list) < ThreadAmount /\ Len(list) \in Nat
      /\ NoAddress \notin UE
    BY EmptyQueue, MineFacts, WorkerAssumption DEF IInv, Typed, Listed
<1>3. /\ Head(signals) = signals[1] /\ signals[1] \in UE \cup {NoAddress}
      /\ Len(signals') = Len(signals) - 1 /\ Len(signals) \in Nat
      /\ Members(signals) = {signals[1]} \cup Members(signals')
      /\ Apart(signals, UE) =>
           Apart(signals', UE) /\ (signals[1] \in UE => signals[1] \notin Members(signals'))
    BY <1>1, <1>2, ReadQueue
<1>4. CASE signals[1] = NoAddress
  <2>1. filled = list /\ list' = list /\ data' = data
      BY <1>1, <1>2, <1>3, <1>4
  <2>2. \A u \in UE : (u \in Members(signals') \/ u \in Members(list'))
                        <=> (u \in Members(signals) \/ u \in Members(list))
      BY <1>2, <1>3, <1>4, <2>1
  <2>3. \A u \in UE : ~(u \in Members(signals') /\ u \in Members(list'))
      BY <1>3, <2>1 DEF IInv, Listed
  <2>4. Len(signals') + Len(list') <= Len(signals) + Len(list)
      BY <1>2, <1>3, <2>1
  <2> HIDE DEF filled
  <2> QED
      BY <1>1, <1>2, <2>1, <2>2, <2>3, <2>4, NobodyCalledKeeps
<1>5. CASE signals[1] # NoAddress
  <2>1. filled = Append(list, signals[1]) /\ signals[1] \in UE
      BY <1>3, <1>5
  <2> HIDE DEF filled
  <2>2. /\ filled \in Seq(UE) /\ Len(filled) = Len(list) + 1
        /\ Members(filled) = Members(list) \cup {signals[1]}
        /\ signals[1] \notin Members(list) /\ Apart(filled, UE)
    <3>1. signals[1] \notin Members(list)
        BY <1>3, <2>1 DEF IInv, Listed
    <3> QED
        BY <1>2, <2>1, <3>1, AppendMembers, AppendApart
  <2>3. {filled[i] : i \in DOMAIN filled} = Members(filled)
      BY <2>2 DEF Members
  <2>4. CASE Len(filled) = ThreadAmount
      BY <1>1, <1>5, <2>1, <2>3, <2>4, BatchCalledKeeps
  <2>5. CASE Len(filled) # ThreadAmount
    <3>1. list' = filled /\ data' = data
        BY <1>1, <2>5
    <3>2. \A u \in UE : (u \in Members(signals') \/ u \in Members(list'))
                          <=> (u \in Members(signals) \/ u \in Members(list))
        BY <1>3, <2>2, <3>1
    <3>3. \A u \in UE : ~(u \in Members(signals') /\ u \in Members(list'))
        BY <1>3, <2>1, <2>2, <3>1 DEF IInv, Listed
    <3>4. /\ Len(signals') + Len(list') <= Len(signals) + Len(list)
          /\ Len(list') < ThreadAmount
        BY <1>2, <1>3, <2>2, <2>5, <3>1, BatchSize
    <3> QED
        BY <1>1, <2>2, <3>1, <3>2, <3>3, <3>4, NobodyCalledKeeps
  <2> QED
      BY <2>4, <2>5
<1> QED
    BY <1>4, <1>5

-----------------------------------------------------------------------------
(* Every step keeps the invariant                                           *)

LEMMA InitKeeps == Init => IInv
<1> SUFFICES ASSUME Init PROVE IInv
    OBVIOUS
<1>1. /\ \A w \in Worker : pc[w] = "connect" /\ round[w] = 1 /\ address[w] = FALSE
                           /\ request[w] = Nothing /\ down[w] = <<>>
      /\ signals = <<>> /\ list = <<>> /\ latencies = 0 /\ main = "start"
      /\ connected = {} /\ idle = {} /\ data = {}
    BY DEF Init
<1>2. /\ Members(signals) = {} /\ Members(list) = {} /\ Len(signals) = 0 /\ Len(list) = 0
      /\ \A w \in Worker : Members(down[w]) = {}
    BY <1>1, EmptyQueue
<1>3. \A w \in Worker : ~Called(w) /\ Calls(w) = 0
    BY <1>1 DEF Called, Calls, Paged
<1>4. Cardinality(Open) = 0 /\ Cardinality(Due) = 0
  <2>1. Open = {} /\ Due = {}
      BY <1>1, <1>3 DEF Open, Due
  <2> QED
      BY <2>1, FS_EmptySet
<1>5. Typed
    BY BatchSize, EmptyQueue DEF Init, Typed, Labels
<1>6. Listed
    BY <1>1, <1>2, <1>4, BatchSize, NothingApart DEF Listed
<1>7. Together /\ DataCalled /\ ClosedMeansDone
    BY <1>1, <1>3 DEF Together, DataCalled, ClosedMeansDone
<1>8. Measured
    BY <1>1, <1>3, <1>4, BatchSize DEF Measured
<1>9. ASSUME NEW w \in Worker
      PROVE  ReadAt(w) /\ AnsweredAt(w) /\ ServedAt(w) /\ SleptAt(w)
  <2>1. ReadAt(w)
      BY <1>1, <1>2, NothingApart DEF ReadAt
  <2> QED
      BY <1>1, <1>2, <2>1
      DEF AnsweredAt, ServedAt, SleptAt, OnlyPagings, NoPagings, HasContext, Nothing
<1> QED
    BY <1>5, <1>6, <1>7, <1>8, <1>9 DEF IInv, Queues

LEMMA StepKeeps == ToldApart /\ IInv /\ [Next]_vars => IInv'
<1> SUFFICES ASSUME ToldApart, IInv, [Next]_vars PROVE IInv'
    OBVIOUS
<1>1. ASSUME NEW w \in Worker, Progress(w)
      PROVE  IInv'
    BY <1>1, ConnectKeeps, RegisterKeeps, ReleaseUeKeeps, CompleteReleaseKeeps, SignalKeeps,
       AnswerPagingKeeps, AbsorbKeeps, FinishKeeps, DeliverKeeps, NextUeKeeps DEF Progress
<1>2. ASSUME NEW w \in Worker, Failing(w)
      PROVE  IInv'
  <2>1. CASE FailToConnect(w)
      BY <2>1, MainKeeps DEF FailToConnect
  <2> QED
      BY <1>2, <2>1, MisreadKeeps, ExitKeeps DEF Failing
<1>3. ASSUME NEW w \in Worker, Amf(w)
      PROVE  IInv'
    BY <1>3, AmfSetsUpKeeps, AmfRegistersKeeps, AmfReleasesKeeps, AmfForgetsKeeps,
       AmfServesKeeps, AmfRejectsKeeps DEF Amf
<1>4. CASE Begin
    BY <1>4, MainKeeps DEF Begin
<1>5. CASE Close
    BY <1>5, MainKeeps DEF Close
<1>6. CASE Return
    BY <1>6, MainKeeps DEF Return
<1>7. CASE UNCHANGED vars
    BY <1>7, MainKeeps DEF vars, harness, amf, IInv, Typed
<1> QED
    BY <1>1, <1>2, <1>3, <1>4, <1>5, <1>6, <1>7, AmfPagesKeeps, CollectKeeps DEF Next

-----------------------------------------------------------------------------
(* Bounds                                                                   *)

\* The messages that w may find: the other UEs of two batches, its own UE once
\* and one answer.
LEMMA QueueBound ==
    ASSUME IInv, NEW w \in Worker
    PROVE  Len(down[w]) <= 2 * ThreadAmount
<1> DEFINE r       == round[w]
           two     == Worker \X {r - 1, r}
           ues     == two \ {<<w, r - 1>>}
           slots   == ues \cup {NoAddress}
           slot(m) == IF IsPaging(m) THEN m.ue ELSE NoAddress
<1>1. /\ down[w] \in Seq(Message) /\ Len(down[w]) \in Nat
      /\ \A i \in 1..Len(down[w]) : down[w][i] \in Message
      /\ Apart(down[w], Message)
      /\ r \in Nat \ {0} /\ Calls(w) \in {r - 1, r}
    BY MineFacts, PendingWaits, EmptyQueue DEF IInv, Typed, Queues, ReadAt
<1>2. IsFiniteSet(two) /\ Cardinality(two) = 2 * ThreadAmount
  <2>1. IsFiniteSet({r - 1, r}) /\ Cardinality({r - 1, r}) = 2
    <3>1. {r - 1, r} = {r - 1} \cup {r} /\ r \notin {r - 1}
        BY <1>1
    <3>2. IsFiniteSet({r - 1}) /\ Cardinality({r - 1}) = 1
        BY FS_Singleton
    <3>3. \A S, x : IsFiniteSet(S) /\ x \notin S =>
            IsFiniteSet(S \cup {x}) /\ Cardinality(S \cup {x}) = Cardinality(S) + 1
        BY FS_AddElement
    <3>4. IsFiniteSet({r - 1} \cup {r}) /\ Cardinality({r - 1} \cup {r}) = 1 + 1
        BY <3>1, <3>2, <3>3
    <3> QED
        BY <3>1, <3>4
  <2>2. IsFiniteSet(two) /\ Cardinality(two) = Cardinality(Worker) * Cardinality({r - 1, r})
      BY <2>1, WorkerAssumption, FS_Product
  <2> QED
      BY <2>1, <2>2, BatchSize DEF ThreadAmount
<1>3. IsFiniteSet(slots) /\ Cardinality(slots) = 2 * ThreadAmount
  <2>1. <<w, r - 1>> \in two
      OBVIOUS
  <2>2. IsFiniteSet(ues) /\ Cardinality(ues) = 2 * ThreadAmount - 1
      BY <1>2, <2>1, FS_RemoveElement
  <2>3. NoAddress \notin ues
      BY DEF NoAddress
  <2>4. slots = ues \cup {NoAddress}
      OBVIOUS
  <2> HIDE DEF ues, slots
  <2>5. IsFiniteSet(slots) /\ Cardinality(slots) = Cardinality(ues) + 1
      BY <2>2, <2>3, <2>4, FS_AddElement
  <2> QED
      BY <2>2, <2>5, BatchSize
<1>4. ASSUME NEW i \in 1..Len(down[w])
      PROVE  slot(down[w][i]) \in slots /\ down[w][i] \in Members(down[w])
  <2>1. down[w][i] \in Members(down[w])
      BY DEF Members
  <2>2. CASE IsPaging(down[w][i])
    <3> DEFINE u == down[w][i].ue
    <3>1. RightPaging(w, down[w][i])
        BY <2>1, <2>2 DEF IInv, Queues, ReadAt
    <3>2. u \in UE /\ r - 1 <= u[2] /\ u[2] <= Calls(w) /\ u # <<w, r - 1>>
        BY <3>1 DEF RightPaging
    <3>3. u = <<u[1], u[2]>> /\ u[1] \in Worker /\ u[2] \in Nat
        BY <3>2, BatchSize DEF UE
    <3>4. u[2] \in {r - 1, r}
        BY <1>1, <3>2, <3>3
    <3> QED
        BY <2>1, <2>2, <3>2, <3>3, <3>4
  <2> QED
      BY <2>1, <2>2
<1>5. ASSUME NEW i \in 1..Len(down[w]), NEW j \in 1..Len(down[w]),
             slot(down[w][i]) = slot(down[w][j])
      PROVE  i = j
  <2>1. down[w][i] = down[w][j]
    <3>1. CASE IsPaging(down[w][i]) /\ IsPaging(down[w][j])
        BY <1>1, <1>5, <3>1, MessageFacts
    <3>2. CASE ~IsPaging(down[w][i]) /\ ~IsPaging(down[w][j])
        BY <1>4, <3>2 DEF IInv, Queues, AnsweredAt
    <3>3. \A k \in 1..Len(down[w]) : IsPaging(down[w][k]) => down[w][k].ue # NoAddress
        BY <1>4, MineFacts DEF IInv, Queues, ReadAt, RightPaging
    <3> QED
        BY <1>5, <3>1, <3>2, <3>3
  <2> QED
      BY <1>1, <2>1 DEF Apart
<1> DEFINE f == [i \in 1..Len(down[w]) |-> slot(down[w][i])]
<1> HIDE DEF slot, slots
<1>6. f \in Injection(1..Len(down[w]), slots)
    BY <1>4, <1>5 DEF Injection, IsInjective
<1>7. Cardinality(1..Len(down[w])) <= Cardinality(slots)
    BY <1>3, <1>6, FS_Injection
<1>8. Cardinality(1..Len(down[w])) = Len(down[w])
  <2>1. \A n \in Nat : Cardinality(1..n) = IF 1 > n THEN 0 ELSE n - 1 + 1
      BY FS_Interval
  <2> QED
      BY <1>1, <2>1
<1> QED
    BY <1>3, <1>7, <1>8

LEMMA Multiples ==
    ASSUME NEW n \in Nat, NEW k \in Nat, NEW m \in Nat, k <= m
    PROVE  n * k <= n * m
    OBVIOUS

\* The bounds of the channels and of the list.
LEMMA ChannelBounds ==
    ASSUME IInv
    PROVE  latencies \in 0..Amount /\ Len(signals) <= ThreadAmount
<1>1. /\ Cardinality(Open) \in Nat /\ Cardinality(Open) <= ThreadAmount
      /\ Cardinality(Due) \in Nat
    BY CountWorkers DEF Open, Due
<1>2. Len(signals) \in Nat /\ Len(list) \in Nat /\ latencies \in Nat
    BY EmptyQueue DEF IInv, Typed
<1>3. Len(signals) <= ThreadAmount
    BY <1>1, <1>2, BatchSize DEF IInv, Listed
<1>4. PICK w \in Worker : TRUE
    BY WorkerAssumption
<1>5. Calls(w) \in 0..WorkLoad /\ ThreadAmount \in Nat /\ WorkLoad \in Nat
    BY PendingWaits, BatchSize
<1>6. latencies + Cardinality(Due) = ThreadAmount * Calls(w)
    BY DEF IInv, Measured
<1>7. Calls(w) \in Nat /\ Calls(w) <= WorkLoad
    BY <1>5
<1>8. ThreadAmount * Calls(w) <= ThreadAmount * WorkLoad
    BY <1>5, <1>7, Multiples
<1>9. ThreadAmount * Calls(w) \in Nat /\ ThreadAmount * WorkLoad \in Nat
    BY <1>5, <1>7
<1>10. latencies <= ThreadAmount * WorkLoad
    BY <1>1, <1>2, <1>6, <1>8, <1>9
<1> QED
    BY <1>2, <1>3, <1>9, <1>10 DEF Amount

-----------------------------------------------------------------------------
(* Refinement                                                               *)

LEMMA StageKept ==
    ASSUME NEW v \in Worker,
           pc'[v] = pc[v], round'[v] = round[v], address'[v] = address[v],
           UNCHANGED <<signals, list>>
    PROVE  Stage(v)' = Stage(v)
<1>1. Mine(v)' = Mine(v) /\ (Pending(v)' <=> Pending(v))
    BY DEF Mine, Pending
<1>2. Called(v)' <=> Called(v)
    BY <1>1 DEF Called
<1> QED
    BY <1>2 DEF Stage

\* A step of one worker moves nobody else.
LEMMA StageMove ==
    ASSUME NEW w \in Worker,
           \A v \in Worker \ {w} :
             pc'[v] = pc[v] /\ round'[v] = round[v] /\ address'[v] = address[v],
           UNCHANGED <<signals, list>>
    PROVE  stageOf' = [stageOf EXCEPT ![w] = Stage(w)']
<1>1. \A v \in Worker \ {w} : Stage(v)' = Stage(v)
    BY StageKept
<1>2. stageOf' = [v \in Worker |-> Stage(v)'] /\ stageOf = [v \in Worker |-> Stage(v)]
    BY DEF stageOf
<1> HIDE DEF stageOf
<1> QED
    BY <1>1, <1>2

\* A step of one worker that leaves it at its stage.
LEMMA StageStutter ==
    ASSUME NEW w \in Worker,
           \A v \in Worker \ {w} : pc'[v] = pc[v] /\ address'[v] = address[v],
           UNCHANGED <<round, signals, list, data, latencies>>, Stage(w)' = Stage(w)
    PROVE  UNCHANGED Rounds!roundsVars
<1>1. stageOf' = [stageOf EXCEPT ![w] = Stage(w)]
    BY StageMove
<1>2. stageOf' = stageOf
    BY <1>1 DEF stageOf
<1> QED
    BY <1>2 DEF Rounds!roundsVars

\* What a worker does before it waits, and after it has been called and before
\* it delivers its latency.
LEMMA ProgressStutters ==
    ASSUME IInv, ToldApart, NEW w \in Worker,
           Connect(w) \/ Register(w) \/ ReleaseUe(w) \/ CompleteRelease(w)
             \/ AnswerPaging(w) \/ Absorb(w) \/ Finish(w)
    PROVE  UNCHANGED Rounds!roundsVars
<1>1. pc \in [Worker -> Labels] /\ address \in [Worker -> BOOLEAN]
    BY DEF IInv, Typed
<1>2. CASE Connect(w)
    BY <1>1, <1>2, StageStutter DEF Connect, At, Goto, Stage
<1>3. CASE Register(w)
    BY <1>1, <1>3, StageStutter DEF Register, At, Goto, Stage
<1>4. CASE ReleaseUe(w)
  <2>1. PICK accepted : address' = [address EXCEPT ![w] = accepted]
      BY <1>4 DEF ReleaseUe
  <2> QED
      BY <1>1, <1>4, <2>1, StageStutter DEF ReleaseUe, At, Goto, Stage
<1>5. CASE CompleteRelease(w)
    BY <1>1, <1>5, StageStutter DEF CompleteRelease, At, Goto, Stage
<1>6. CASE AnswerPaging(w)
  <2>1. down[w] # <<>> /\ down[w] \in Seq(Message) /\ Head(down[w]) = Paging(Mine(w))
      BY <1>6, ReadFacts, HeardIsMine DEF AnswerPaging, IInv
  <2>2. Paging(Mine(w)) \in Members(down[w])
      BY <2>1, ReadQueue
  <2>3. Called(w)
      BY <2>2, PagingIsCall
  <2> QED
      BY <1>1, <1>6, <2>3, StageStutter DEF AnswerPaging, At, Goto, Stage
<1>7. CASE Absorb(w)
    BY <1>7, StageKept, StageStutter DEF Absorb, harness
<1>8. CASE Finish(w)
    BY <1>1, <1>8, StageStutter DEF Finish, At, Goto, Stage
<1> QED
    BY <1>2, <1>3, <1>4, <1>5, <1>6, <1>7, <1>8

LEMMA OthersStutter ==
    ASSUME IInv, NEW w \in Worker, Failing(w) \/ Amf(w) \/ Begin \/ Close \/ Return
    PROVE  UNCHANGED Rounds!roundsVars
<1>1. CASE Exit(w)
    BY <1>1, StageStutter DEF Exit, At, Goto, Stage, amf, IInv, Typed
<1>2. CASE AmfServes(w)
  <2>1. pc[w] = "readContext"
      BY <1>2, HandlesFacts DEF AmfServes, Requests, IInv, Queues, AnsweredAt
  <2>2. UNCHANGED <<pc, address, round, signals, list, data, latencies>>
      BY <1>2, <2>1, PendingWaits DEF AmfServes, harness
  <2> QED
      BY <2>2, StageKept, StageStutter
<1>3. CASE ~Exit(w) /\ ~AmfServes(w)
  <2>1. UNCHANGED <<pc, address, round, signals, list, data, latencies>>
      BY <1>3 DEF Failing, FailToConnect, Misread, Amf, AmfSetsUp, AmfRegisters, AmfReleases,
         AmfForgets, AmfRejects, Begin, Close, Return, harness, amf
  <2> QED
      BY <2>1, StageKept, StageStutter
<1> QED
    BY <1>1, <1>2, <1>3

LEMMA SignalWaits ==
    ASSUME IInv, NEW w \in Worker, Signal(w)
    PROVE  Rounds!Wait(w)
<1> DEFINE x == IF address[w] THEN Mine(w) ELSE NoAddress
<1>1. /\ pc[w] = "signal" /\ pc'[w] = "readPaging"
      /\ \A v \in Worker \ {w} : pc'[v] = pc[v]
      /\ UNCHANGED <<round, address, latencies, list, data>>
      /\ signals' = Append(signals, x)
    BY GotoFacts DEF Signal, At, Labels, IInv, amf
<1>2. /\ \A v \in Worker \ {w} : Mine(v) # Mine(w) /\ Mine(v) \in UE
      /\ Mine(w) \in UE /\ NoAddress \notin UE
    BY MineFacts DEF IInv
<1>3. Members(signals') = Members(signals) \cup {x}
    BY <1>1, <1>2, AppendMembers DEF IInv, Typed
<1>4. ASSUME NEW v \in Worker \ {w}
      PROVE  Stage(v)' = Stage(v)
  <2>1. Mine(v)' = Mine(v) /\ x # Mine(v)
      BY <1>1, <1>2 DEF Mine
  <2>2. Pending(v)' <=> Pending(v)
      BY <1>1, <1>3, <2>1 DEF Pending
  <2>3. Called(v)' <=> Called(v)
      BY <1>1, <2>2 DEF Called
  <2> QED
      BY <1>1, <2>3 DEF Stage
<1>5. ~Called(w)'
  <2>1. address[w] => Pending(w)'
      BY <1>1, <1>3 DEF Pending, Mine
  <2> QED
      BY <1>1, <2>1 DEF Called, Paged
<1>6. Stage(w) = "arriving" /\ Stage(w)' = "waiting"
    BY <1>1, <1>5 DEF Stage
<1>7. stageOf[w] = "arriving" /\ stageOf' = [stageOf EXCEPT ![w] = "waiting"]
    BY <1>4, <1>6 DEF stageOf
<1> QED
    BY <1>1, <1>7 DEF Rounds!Wait

LEMMA DeliverMeasures ==
    ASSUME IInv, NEW w \in Worker, Deliver(w)
    PROVE  Rounds!Measure(w)
<1>1. /\ pc[w] = "deliver" /\ pc'[w] = "sleep"
      /\ \A v \in Worker \ {w} : pc'[v] = pc[v]
      /\ UNCHANGED <<round, address, signals, list, data>> /\ latencies' = latencies + 1
    BY GotoFacts DEF Deliver, At, Labels, IInv, amf
<1>2. stageOf' = [stageOf EXCEPT ![w] = Stage(w)']
    BY <1>1, StageMove
<1>3. stageOf[w] = "called" /\ Stage(w)' = "served"
    BY <1>1 DEF Stage, stageOf
<1>4. <<w, round[w]>> \notin data
    BY <1>1, PendingWaits DEF Mine
<1> QED
    BY <1>1, <1>2, <1>3, <1>4 DEF Rounds!Measure

LEMMA NextUeRefines ==
    ASSUME IInv, NEW w \in Worker, NextUe(w)
    PROVE  Rounds!NextUe(w) \/ UNCHANGED Rounds!roundsVars
<1>1. /\ pc[w] = "sleep" /\ UNCHANGED <<address, latencies, signals, list, data>>
      /\ pc \in [Worker -> Labels] /\ round \in [Worker -> 1..WorkLoad]
    BY DEF NextUe, At, amf, IInv, Typed
<1>2. stageOf[w] = "served" /\ Stage(w) = "served"
    BY <1>1 DEF Stage, stageOf
<1>3. CASE round[w] < WorkLoad
  <2>1. /\ round' = [round EXCEPT ![w] = @ + 1] /\ pc'[w] = "connect"
        /\ \A v \in Worker \ {w} : pc'[v] = pc[v] /\ round'[v] = round[v]
      BY <1>1, <1>3 DEF NextUe, Goto
  <2>2. stageOf' = [stageOf EXCEPT ![w] = Stage(w)']
      BY <1>1, <2>1, StageMove
  <2>3. Stage(w)' = "arriving"
      BY <2>1 DEF Stage
  <2> QED
      BY <1>1, <1>2, <1>3, <2>1, <2>2, <2>3 DEF Rounds!NextUe
<1>4. CASE ~(round[w] < WorkLoad)
  <2>1. /\ UNCHANGED round /\ pc'[w] = "done"
        /\ \A v \in Worker \ {w} : pc'[v] = pc[v]
      BY <1>1, <1>4 DEF NextUe, Goto
  <2>2. Stage(w)' = "served"
      BY <2>1 DEF Stage
  <2> QED
      BY <1>1, <1>2, <2>1, <2>2, StageStutter
<1> QED
    BY <1>3, <1>4

LEMMA PagesRefines ==
    ASSUME IInv, NEW u \in UE, AmfPages(u)
    PROVE  u \in data /\ Rounds!Page(u)
<1>1. /\ UNCHANGED <<pc, round, address, latencies, signals, list>>
      /\ u \in data /\ data' = data \ {u}
    BY DEF AmfPages, harness
<1>2. \A v \in Worker : Stage(v)' = Stage(v)
    BY <1>1, StageKept
<1>3. stageOf' = stageOf
    BY <1>2 DEF stageOf
<1> QED
    BY <1>1, <1>3 DEF Rounds!Page

\* The controller has the whole batch, or nobody can tell that it has read.
LEMMA CollectsWhole ==
    ASSUME IInv, Collect
    PROVE  /\ UNCHANGED <<pc, round, address, latencies>>
           /\ \/ /\ \A w \in Worker : Mine(w)' = Mine(w) /\ (Pending(w)' <=> Pending(w))
                 /\ data' = data
              \/ /\ \A w \in Worker : pc[w] = "readPaging" /\ address[w] /\ ~Called(w)
                 /\ data = {} /\ data' = {Mine(w) : w \in Worker}
                 /\ Members(signals') = {} /\ Members(list') = {}
<1> DEFINE filled == IF Head(signals) = NoAddress THEN list ELSE Append(list, Head(signals))
<1>1. /\ signals # <<>> /\ signals' = Tail(signals)
      /\ list' = IF Len(filled) = ThreadAmount THEN <<>> ELSE filled
      /\ data' = IF Len(filled) = ThreadAmount
                 THEN data \cup {filled[i] : i \in DOMAIN filled} ELSE data
      /\ UNCHANGED <<pc, round, address, latencies>>
    BY DEF Collect
<1>2. /\ signals \in Seq(UE \cup {NoAddress}) /\ list \in Seq(UE)
      /\ Len(list) < ThreadAmount /\ Len(list) \in Nat /\ NoAddress \notin UE
    BY EmptyQueue, MineFacts, WorkerAssumption DEF IInv, Typed, Listed
<1>3. /\ Head(signals) = signals[1] /\ signals[1] \in UE \cup {NoAddress}
      /\ Members(signals) = {signals[1]} \cup Members(signals')
    BY <1>1, <1>2, ReadQueue
<1>4. \A w \in Worker : Mine(w)' = Mine(w) /\ Mine(w) \in UE
    BY <1>1, MineFacts DEF Mine, IInv
<1>5. CASE signals[1] = NoAddress
  <2>1. list' = list /\ data' = data
      BY <1>1, <1>2, <1>3, <1>5, BatchSize
  <2>2. \A w \in Worker : Pending(w)' <=> Pending(w)
      BY <1>2, <1>3, <1>4, <1>5, <2>1 DEF Pending
  <2> QED
      BY <1>1, <1>4, <2>1, <2>2
<1>6. CASE signals[1] # NoAddress
  <2>1. filled = Append(list, signals[1]) /\ signals[1] \in UE
      BY <1>3, <1>6
  <2> HIDE DEF filled
  <2>2. filled \in Seq(UE) /\ Members(filled) = Members(list) \cup {signals[1]}
      BY <1>2, <2>1, AppendMembers
  <2>3. CASE Len(filled) # ThreadAmount
    <3>1. list' = filled /\ data' = data
        BY <1>1, <2>3
    <3>2. \A w \in Worker : Pending(w)' <=> Pending(w)
        BY <1>3, <1>4, <2>2, <3>1 DEF Pending
    <3> QED
        BY <1>1, <1>4, <3>1, <3>2
  <2>4. CASE Len(filled) = ThreadAmount
    <3>1. /\ Members(filled) = {Mine(w) : w \in Worker}
          /\ \A w \in Worker : pc[w] = "readPaging" /\ address[w] /\ ~Called(w)
          /\ Tail(signals) = <<>>
        BY <1>1, <1>6, <2>1, <2>4, WholeBatch
    <3>2. data = {}
        BY <3>1 DEF IInv, DataCalled
    <3>3. {filled[i] : i \in DOMAIN filled} = Members(filled)
        BY <2>2 DEF Members
    <3>4. data' = {Mine(w) : w \in Worker}
        BY <1>1, <2>4, <3>1, <3>2, <3>3
    <3>5. Members(signals') = {} /\ Members(list') = {}
        BY <1>1, <2>4, <3>1, EmptyQueue
    <3> QED
        BY <1>1, <3>1, <3>2, <3>4, <3>5
  <2> QED
      BY <2>3, <2>4
<1> QED
    BY <1>5, <1>6

LEMMA CollectRefines ==
    ASSUME IInv, Collect
    PROVE  Rounds!Call \/ UNCHANGED Rounds!roundsVars
<1>1. UNCHANGED <<pc, round, address, latencies>>
    BY CollectsWhole
<1>2. CASE /\ \A w \in Worker : Mine(w)' = Mine(w) /\ (Pending(w)' <=> Pending(w))
           /\ data' = data
  <2>1. \A w \in Worker : Called(w)' <=> Called(w)
      BY <1>1, <1>2 DEF Called
  <2>2. \A w \in Worker : Stage(w)' = Stage(w)
      BY <1>1, <2>1 DEF Stage
  <2>3. stageOf' = stageOf
      BY <2>2 DEF stageOf
  <2> QED
      BY <1>1, <1>2, <2>3 DEF Rounds!roundsVars
<1>3. CASE /\ \A w \in Worker : pc[w] = "readPaging" /\ address[w] /\ ~Called(w)
           /\ data = {} /\ data' = {Mine(w) : w \in Worker}
           /\ Members(signals') = {} /\ Members(list') = {}
  <2>1. \A w \in Worker : Stage(w) = "waiting"
      BY <1>3 DEF Stage
  <2>2. \A w \in Worker : ~Pending(w)'
      BY <1>3 DEF Pending
  <2>3. \A w \in Worker : Stage(w)' = "called"
      BY <1>1, <1>3, <2>2 DEF Stage, Called
  <2>4. \A v, w \in Worker : round[v] = round[w]
    <3>1. \A w \in Worker : Calls(w) = round[w] - 1 /\ round[w] \in Nat
        BY <1>3, MineFacts DEF Calls, IInv
    <3>2. \A v, w \in Worker : round[v] - 1 = round[w] - 1
        BY <3>1 DEF IInv, Together
    <3> QED
        BY <3>1, <3>2
  <2>5. \A v, w \in Worker : stageOf[w] = "waiting" /\ round[v] = round[w]
      BY <2>1, <2>4 DEF stageOf
  <2>6. stageOf' = [w \in Worker |-> "called"]
      BY <2>3 DEF stageOf
  <2>7. data = {} /\ data' = {<<w, round[w]>> : w \in Worker}
      BY <1>3 DEF Mine
  <2> QED
      BY <1>1, <2>5, <2>6, <2>7 DEF Rounds!Call
<1> QED
    BY <1>2, <1>3, CollectsWhole

-----------------------------------------------------------------------------
(* Whatever 5G-TMSIs the AMF assigns                                        *)

LEMMA SameTmsis ==
    ASSUME [Next]_vars
    PROVE  env' = env /\ (ToldApart' <=> ToldApart)
<1>1. env' = env
    BY DEF Next, Progress, Failing, Amf, Connect, FailToConnect, Register, ReleaseUe, Misread,
       CompleteRelease, Signal, AnswerPaging, Absorb, Finish, Deliver, NextUe, Exit, Collect,
       Begin, Close, Return, AmfSetsUp, AmfRegisters, AmfReleases, AmfForgets, AmfPages,
       AmfServes, AmfRejects, vars
<1> QED
    BY <1>1 DEF ToldApart, Folded

\* A queue that has been read holds no more than before, an answer is added at
\* its end, and a Paging is no set-up request.
LEMMA ContextKept ==
    ASSUME Typed, NEW w \in Worker
    PROVE  /\ down[w] = <<>> => ~HasContext(w)
           /\ Read(w) /\ HasContext(w)' => HasContext(w)
           /\ Read(w) /\ Head(down[w]).type = "ContextSetup" => HasContext(w)
           /\ \A type \in Answers \ {"ContextSetup"} :
                Answer(w, type) /\ HasContext(w)' => HasContext(w)
<1>1. down[w] = <<>> => ~HasContext(w)
    BY EmptyQueue DEF HasContext
<1>2. ASSUME Read(w), HasContext(w)'
      PROVE  HasContext(w)
    BY <1>2, ReadFacts DEF HasContext
<1>3. ASSUME Read(w), Head(down[w]).type = "ContextSetup"
      PROVE  HasContext(w)
    BY <1>3, ReadFacts DEF HasContext
<1>4. ASSUME NEW type \in Answers \ {"ContextSetup"}, Answer(w, type), HasContext(w)'
      PROVE  HasContext(w)
  <2>1. Members(down'[w]) = Members(down[w]) \cup {Reply(type)}
      BY <1>4, AnswerFacts
  <2>2. Reply(type).type # "ContextSetup"
      BY <1>4, MessageFacts
  <2> QED
      BY <1>4, <2>1, <2>2 DEF HasContext
<1> QED
    BY <1>1, <1>2, <1>3, <1>4

\* Only w moves, as far as SoundAt can tell.
Steady(w) ==
    /\ \A v \in Worker \ {w} :
         /\ pc'[v] = pc[v] /\ round'[v] = round[v]
         /\ request'[v] = request[v] /\ down'[v] = down[v]
         /\ Mine(v) \in idle' => Mine(v) \in idle
    /\ main' = "closed" => main = "closed"
    /\ pc[w] = "done" => pc'[w] = "done"

Bounds == latencies <= Amount + 1 /\ Len(signals) <= SignalCapacity /\ Len(list) < ThreadAmount

LEMMA SteadySound ==
    ASSUME Sound, NEW w \in Worker, Steady(w), Typed', Bounds', SoundAt(w)'
    PROVE  Sound'
<1>1. ASSUME NEW v \in Worker \ {w}
      PROVE  SoundAt(v)'
    BY DEF Sound, SoundAt, HasContext, Mine, Steady
<1>2. ClosedMeansDone'
    BY DEF Sound, ClosedMeansDone, Steady
<1> QED
    BY <1>1, <1>2 DEF Sound, Bounds

LEMMA ConnectSound ==
    ASSUME Sound, NEW w \in Worker, Connect(w)
    PROVE  Sound'
<1>1. Typed /\ SoundAt(w) /\ Bounds /\ Mine(w) \in UE
    BY MineFacts DEF Sound, Bounds
<1>2. /\ pc[w] = "connect" /\ pc' \in [Worker -> Labels] /\ pc'[w] = "readSetup"
      /\ \A v \in Worker \ {w} : pc'[v] = pc[v]
    BY <1>1, GotoFacts DEF Connect, At, Labels
<1>3. /\ request' \in [Worker -> Requests \cup {Nothing}] /\ request'[w] = "NGSetup"
      /\ \A v \in Worker \ {w} : request'[v] = request[v] /\ request[w] = Nothing
    BY <1>1, WriteFacts DEF Connect, Requests
<1>4. /\ down' \in [Worker -> Seq(Message)] /\ ~HasContext(w)'
      /\ \A v \in Worker \ {w} : down'[v] = down[v]
    BY <1>1, EmptyQueue DEF Connect, HasContext, Typed
<1>5. address' \in [Worker -> BOOLEAN]
    BY <1>1 DEF Connect, Typed
<1>6. UNCHANGED <<env, round, latencies, signals, list, main, connected, idle, data>>
    BY DEF Connect
<1>7. Typed'
    BY <1>1, <1>2, <1>3, <1>4, <1>5, <1>6 DEF Typed
<1>8. Steady(w) /\ Bounds'
    BY <1>1, <1>2, <1>3, <1>4, <1>5, <1>6 DEF Steady, Bounds, Mine
<1>9. SoundAt(w)'
    BY <1>1, <1>2, <1>3, <1>4, <1>5, <1>6 DEF SoundAt, Mine, Nothing
<1> QED
    BY <1>7, <1>8, <1>9, SteadySound

LEMMA RegisterSound ==
    ASSUME Sound, NEW w \in Worker, Register(w)
    PROVE  Sound'
<1>1. Typed /\ SoundAt(w) /\ Bounds /\ Mine(w) \in UE
    BY MineFacts DEF Sound, Bounds
<1>2. /\ pc[w] = "readSetup" /\ pc' \in [Worker -> Labels] /\ pc'[w] = "readSession"
      /\ \A v \in Worker \ {w} : pc'[v] = pc[v]
    BY <1>1, GotoFacts DEF Register, At, Labels
<1>3. /\ request' \in [Worker -> Requests \cup {Nothing}] /\ request'[w] = "Register"
      /\ \A v \in Worker \ {w} : request'[v] = request[v] /\ request[w] = Nothing
    BY <1>1, WriteFacts DEF Register, Requests
<1>4. /\ down' \in [Worker -> Seq(Message)] /\ (HasContext(w)' => HasContext(w))
      /\ \A v \in Worker \ {w} : down'[v] = down[v]
    BY <1>1, ReadFacts, ContextKept DEF Register
<1>5. UNCHANGED <<env, round, address, latencies, signals, list, main, connected, idle, data>>
    BY DEF Register
<1>6. Typed'
    BY <1>1, <1>2, <1>3, <1>4, <1>5 DEF Typed
<1>7. Steady(w) /\ Bounds'
    BY <1>1, <1>2, <1>3, <1>4, <1>5 DEF Steady, Bounds, Mine
<1>8. SoundAt(w)'
    BY <1>1, <1>2, <1>3, <1>4, <1>5 DEF SoundAt, Mine, Nothing
<1> QED
    BY <1>6, <1>7, <1>8, SteadySound

LEMMA ReleaseUeSound ==
    ASSUME Sound, NEW w \in Worker, ReleaseUe(w)
    PROVE  Sound'
<1>1. Typed /\ SoundAt(w) /\ Bounds /\ Mine(w) \in UE
    BY MineFacts DEF Sound, Bounds
<1>2. /\ pc[w] = "readSession" /\ pc' \in [Worker -> Labels] /\ pc'[w] = "readRelease"
      /\ \A v \in Worker \ {w} : pc'[v] = pc[v]
    BY <1>1, GotoFacts DEF ReleaseUe, At, Labels
<1>3. /\ request' \in [Worker -> Requests \cup {Nothing}] /\ request'[w] = "ReleaseRequest"
      /\ \A v \in Worker \ {w} : request'[v] = request[v] /\ request[w] = Nothing
    BY <1>1, WriteFacts DEF ReleaseUe, Requests
<1>4. /\ down' \in [Worker -> Seq(Message)] /\ (HasContext(w)' => HasContext(w))
      /\ \A v \in Worker \ {w} : down'[v] = down[v]
    BY <1>1, ReadFacts, ContextKept DEF ReleaseUe
<1>5. address' \in [Worker -> BOOLEAN]
    BY <1>1 DEF ReleaseUe, Typed
<1>6. UNCHANGED <<env, round, latencies, signals, list, main, connected, idle, data>>
    BY DEF ReleaseUe
<1>7. Typed'
    BY <1>1, <1>2, <1>3, <1>4, <1>5, <1>6 DEF Typed
<1>8. Steady(w) /\ Bounds'
    BY <1>1, <1>2, <1>3, <1>4, <1>5, <1>6 DEF Steady, Bounds, Mine
<1>9. SoundAt(w)'
    BY <1>1, <1>2, <1>3, <1>4, <1>5, <1>6 DEF SoundAt, Mine, Nothing
<1> QED
    BY <1>7, <1>8, <1>9, SteadySound

LEMMA CompleteReleaseSound ==
    ASSUME Sound, NEW w \in Worker, CompleteRelease(w)
    PROVE  Sound'
<1>1. Typed /\ SoundAt(w) /\ Bounds /\ Mine(w) \in UE
    BY MineFacts DEF Sound, Bounds
<1>2. /\ pc[w] = "readRelease" /\ pc' \in [Worker -> Labels] /\ pc'[w] = "signal"
      /\ \A v \in Worker \ {w} : pc'[v] = pc[v]
    BY <1>1, GotoFacts DEF CompleteRelease, At, Labels
<1>3. /\ request' \in [Worker -> Requests \cup {Nothing}] /\ request'[w] = "ReleaseComplete"
      /\ \A v \in Worker \ {w} : request'[v] = request[v] /\ request[w] = Nothing
    BY <1>1, WriteFacts DEF CompleteRelease, Requests
<1>4. /\ down' \in [Worker -> Seq(Message)] /\ (HasContext(w)' => HasContext(w))
      /\ \A v \in Worker \ {w} : down'[v] = down[v]
    BY <1>1, ReadFacts, ContextKept DEF CompleteRelease
<1>5. UNCHANGED <<env, round, address, latencies, signals, list, main, connected, idle, data>>
    BY DEF CompleteRelease
<1>6. Typed'
    BY <1>1, <1>2, <1>3, <1>4, <1>5 DEF Typed
<1>7. Steady(w) /\ Bounds'
    BY <1>1, <1>2, <1>3, <1>4, <1>5 DEF Steady, Bounds, Mine
<1>8. SoundAt(w)'
    BY <1>1, <1>2, <1>3, <1>4, <1>5 DEF SoundAt, Mine, Nothing
<1> QED
    BY <1>6, <1>7, <1>8, SteadySound

LEMMA AnswerPagingSound ==
    ASSUME Sound, NEW w \in Worker, AnswerPaging(w)
    PROVE  Sound'
<1>1. Typed /\ SoundAt(w) /\ Bounds /\ Mine(w) \in UE
    BY MineFacts DEF Sound, Bounds
<1>2. /\ pc[w] = "readPaging" /\ pc' \in [Worker -> Labels] /\ pc'[w] = "readContext"
      /\ \A v \in Worker \ {w} : pc'[v] = pc[v]
    BY <1>1, GotoFacts DEF AnswerPaging, At, Labels
<1>3. /\ request' \in [Worker -> Requests \cup {Nothing}] /\ request'[w] = "ServiceRequest"
      /\ \A v \in Worker \ {w} : request'[v] = request[v] /\ request[w] = Nothing
    BY <1>1, WriteFacts DEF AnswerPaging, Requests
<1>4. /\ down' \in [Worker -> Seq(Message)] /\ (HasContext(w)' => HasContext(w))
      /\ \A v \in Worker \ {w} : down'[v] = down[v]
    BY <1>1, ReadFacts, ContextKept DEF AnswerPaging
<1>5. UNCHANGED <<env, round, address, latencies, signals, list, main, connected, idle, data>>
    BY DEF AnswerPaging
<1>6. Typed'
    BY <1>1, <1>2, <1>3, <1>4, <1>5 DEF Typed
<1>7. Steady(w) /\ Bounds'
    BY <1>1, <1>2, <1>3, <1>4, <1>5 DEF Steady, Bounds, Mine
<1>8. SoundAt(w)'
    BY <1>1, <1>2, <1>3, <1>4, <1>5 DEF SoundAt, Mine, Nothing
<1> QED
    BY <1>6, <1>7, <1>8, SteadySound

LEMMA FinishSound ==
    ASSUME Sound, NEW w \in Worker, Finish(w)
    PROVE  Sound'
<1>1. Typed /\ SoundAt(w) /\ Bounds /\ Mine(w) \in UE
    BY MineFacts DEF Sound, Bounds
<1>2. /\ pc[w] = "readContext" /\ pc' \in [Worker -> Labels] /\ pc'[w] = "deliver"
      /\ \A v \in Worker \ {w} : pc'[v] = pc[v]
    BY <1>1, GotoFacts DEF Finish, At, Labels
<1>3. /\ down' \in [Worker -> Seq(Message)] /\ (HasContext(w)' => HasContext(w))
      /\ \A v \in Worker \ {w} : down'[v] = down[v]
    BY <1>1, ReadFacts, ContextKept DEF Finish
<1>4. HasContext(w) /\ connected' \subseteq Worker
    BY <1>1, ContextKept DEF Finish, Typed
<1>5. UNCHANGED <<env, round, address, latencies, signals, list, main, request, idle, data>>
    BY DEF Finish
<1>6. Typed'
    BY <1>1, <1>2, <1>3, <1>4, <1>5 DEF Typed
<1>7. Steady(w) /\ Bounds'
    BY <1>1, <1>2, <1>3, <1>4, <1>5 DEF Steady, Bounds, Mine
<1>8. SoundAt(w)'
    BY <1>1, <1>2, <1>3, <1>4, <1>5 DEF SoundAt, Mine, Nothing
<1> QED
    BY <1>6, <1>7, <1>8, SteadySound

LEMMA DeliverSound ==
    ASSUME Sound, NEW w \in Worker, Deliver(w)
    PROVE  Sound'
<1>1. Typed /\ SoundAt(w) /\ Bounds /\ Mine(w) \in UE
    BY MineFacts DEF Sound, Bounds
<1>2. /\ pc[w] = "deliver" /\ pc' \in [Worker -> Labels] /\ pc'[w] = "sleep"
      /\ \A v \in Worker \ {w} : pc'[v] = pc[v]
    BY <1>1, GotoFacts DEF Deliver, At, Labels
<1>3. latencies' \in Nat /\ latencies' <= Amount + 1
    BY <1>1, BatchSize DEF Deliver, Typed, Amount
<1>4. HasContext(w)' <=> HasContext(w)
    BY DEF Deliver, HasContext, amf
<1>5. UNCHANGED <<env, round, address, signals, list, main, request, down, connected, idle, data>>
    BY DEF Deliver, amf
<1>6. Typed'
    BY <1>1, <1>2, <1>3, <1>4, <1>5 DEF Typed
<1>7. Steady(w) /\ Bounds'
    BY <1>1, <1>2, <1>3, <1>4, <1>5 DEF Steady, Bounds, Mine
<1>8. SoundAt(w)'
    BY <1>1, <1>2, <1>3, <1>4, <1>5 DEF SoundAt, Mine, Nothing
<1> QED
    BY <1>6, <1>7, <1>8, SteadySound

LEMMA ExitSound ==
    ASSUME Sound, NEW w \in Worker, Exit(w)
    PROVE  Sound'
<1>1. Typed /\ SoundAt(w) /\ Bounds /\ Mine(w) \in UE
    BY MineFacts DEF Sound, Bounds
<1>2. /\ pc[w] = "readSession" /\ pc' \in [Worker -> Labels] /\ pc'[w] = "exited"
      /\ \A v \in Worker \ {w} : pc'[v] = pc[v]
    BY <1>1, GotoFacts DEF Exit, At, Labels
<1>3. HasContext(w)' <=> HasContext(w)
    BY DEF Exit, HasContext, amf
<1>4. UNCHANGED <<env, round, address, latencies, signals, list, main, request, down, connected, idle, data>>
    BY DEF Exit, amf
<1>5. Typed'
    BY <1>1, <1>2, <1>3, <1>4 DEF Typed
<1>6. Steady(w) /\ Bounds'
    BY <1>1, <1>2, <1>3, <1>4 DEF Steady, Bounds, Mine
<1>7. SoundAt(w)'
    BY <1>1, <1>2, <1>3, <1>4 DEF SoundAt, Mine, Nothing
<1> QED
    BY <1>5, <1>6, <1>7, SteadySound

LEMMA SignalSound ==
    ASSUME Sound, NEW w \in Worker, Signal(w)
    PROVE  Sound'
<1>1. Typed /\ SoundAt(w) /\ Bounds /\ Mine(w) \in UE
    BY MineFacts DEF Sound, Bounds
<1>2. /\ pc[w] = "signal" /\ pc' \in [Worker -> Labels] /\ pc'[w] = "readPaging"
      /\ \A v \in Worker \ {w} : pc'[v] = pc[v]
    BY <1>1, GotoFacts DEF Signal, At, Labels
<1>3. HasContext(w)' <=> HasContext(w)
    BY DEF Signal, HasContext, amf
<1>4. /\ signals' \in Seq(UE \cup {NoAddress}) /\ Len(signals') <= SignalCapacity
    BY <1>1, AppendMembers, EmptyQueue, BatchSize DEF Signal, Typed, SignalCapacity
<1>5. UNCHANGED <<env, round, address, latencies, list, main, request, down, connected, idle, data>>
    BY DEF Signal, amf
<1>6. Typed'
    BY <1>1, <1>2, <1>3, <1>4, <1>5 DEF Typed
<1>7. Steady(w) /\ Bounds'
    BY <1>1, <1>2, <1>3, <1>4, <1>5 DEF Steady, Bounds, Mine
<1>8. SoundAt(w)'
    BY <1>1, <1>2, <1>3, <1>4, <1>5 DEF SoundAt, Mine, Nothing
<1> QED
    BY <1>6, <1>7, <1>8, SteadySound

LEMMA AbsorbSound ==
    ASSUME Sound, NEW w \in Worker, Absorb(w) \/ Misread(w)
    PROVE  Sound'
<1>1. Typed /\ SoundAt(w) /\ Bounds /\ Read(w)
    BY DEF Sound, Bounds, Absorb, Misread
<1>2. /\ down' \in [Worker -> Seq(Message)] /\ (HasContext(w)' => HasContext(w))
      /\ \A v \in Worker \ {w} : down'[v] = down[v]
    BY <1>1, ReadFacts, ContextKept
<1>3. /\ UNCHANGED <<env, pc, round, address, latencies, signals, list, request, connected, idle, data>>
      /\ main' \in {main, "crashed"}
    BY DEF Absorb, Misread, harness
<1>4. Typed'
    BY <1>1, <1>2, <1>3 DEF Typed
<1>5. Steady(w) /\ Bounds' /\ SoundAt(w)'
    BY <1>1, <1>2, <1>3 DEF Steady, Bounds, SoundAt, Mine
<1> QED
    BY <1>4, <1>5, SteadySound

LEMMA NextUeSound ==
    ASSUME Sound, NEW w \in Worker, NextUe(w)
    PROVE  Sound'
<1>1. Typed /\ SoundAt(w) /\ Bounds
    BY DEF Sound, Bounds
<1>2. /\ pc[w] = "sleep" /\ pc' \in [Worker -> Labels] /\ pc'[w] \in {"connect", "done"}
      /\ \A v \in Worker \ {w} : pc'[v] = pc[v] /\ round'[v] = round[v]
      /\ round' \in [Worker -> 1..WorkLoad]
  <2>1. CASE round[w] < WorkLoad
    <3>1. pc[w] = "sleep" /\ Goto(w, "connect") /\ round' = [round EXCEPT ![w] = @ + 1]
        BY <2>1 DEF NextUe, At
    <3>2. round[w] \in 1..WorkLoad /\ round \in [Worker -> 1..WorkLoad]
        BY <1>1 DEF Typed
    <3>3. round[w] + 1 \in 1..WorkLoad
        BY <2>1, <3>2, BatchSize
    <3> QED
        BY <1>1, <3>1, <3>2, <3>3, GotoFacts DEF Labels
  <2>2. CASE ~(round[w] < WorkLoad)
    <3>1. pc[w] = "sleep" /\ Goto(w, "done") /\ UNCHANGED round
        BY <2>2 DEF NextUe, At
    <3> QED
        BY <1>1, <3>1, GotoFacts DEF Labels, Typed
  <2> QED
      BY <2>1, <2>2
<1>3. UNCHANGED <<env, address, latencies, signals, list, main, request, down, connected, idle, data>>
    BY DEF NextUe, amf
<1>4. HasContext(w)' <=> HasContext(w)
    BY <1>3 DEF HasContext
<1>5. Typed'
    BY <1>1, <1>2, <1>3 DEF Typed
<1>6. Steady(w) /\ Bounds' /\ SoundAt(w)'
    BY <1>1, <1>2, <1>3, <1>4 DEF Steady, Bounds, SoundAt, Mine
<1> QED
    BY <1>5, <1>6, SteadySound

LEMMA AmfSetsUpSound ==
    ASSUME Sound, NEW w \in Worker, AmfSetsUp(w)
    PROVE  Sound'
<1>1. Typed /\ SoundAt(w) /\ Bounds /\ Mine(w) \in UE
    BY MineFacts DEF Sound, Bounds
<1>2. /\ request[w] = "NGSetup"
      /\ request' \in [Worker -> Requests \cup {Nothing}] /\ request'[w] = Nothing
      /\ \A v \in Worker \ {w} : request'[v] = request[v]
    BY <1>1, HandlesFacts DEF AmfSetsUp, Requests
<1>3. /\ down' \in [Worker -> Seq(Message)]
      /\ \A v \in Worker \ {w} : down'[v] = down[v]
    BY <1>1, AnswerFacts DEF AmfSetsUp, Answers
<1>4. HasContext(w)' => HasContext(w)
    BY <1>1, ContextKept DEF AmfSetsUp, Answers
<1>5. connected' \subseteq Worker
    BY <1>1 DEF AmfSetsUp, Typed
<1>6. UNCHANGED <<env, pc, round, address, latencies, signals, list, main, idle, data>>
    BY DEF AmfSetsUp, harness
<1>7. Typed'
    BY <1>1, <1>2, <1>3, <1>4, <1>5, <1>6 DEF Typed
<1>8. Steady(w) /\ Bounds'
    BY <1>1, <1>2, <1>3, <1>4, <1>5, <1>6 DEF Steady, Bounds, Mine
<1>9. SoundAt(w)'
    BY <1>1, <1>2, <1>3, <1>4, <1>5, <1>6 DEF SoundAt, Mine, Nothing
<1> QED
    BY <1>7, <1>8, <1>9, SteadySound

LEMMA AmfRegistersSound ==
    ASSUME Sound, NEW w \in Worker, AmfRegisters(w)
    PROVE  Sound'
<1>1. Typed /\ SoundAt(w) /\ Bounds /\ Mine(w) \in UE
    BY MineFacts DEF Sound, Bounds
<1>2. /\ request[w] = "Register"
      /\ request' \in [Worker -> Requests \cup {Nothing}] /\ request'[w] = Nothing
      /\ \A v \in Worker \ {w} : request'[v] = request[v]
    BY <1>1, HandlesFacts DEF AmfRegisters, Requests
<1>3. /\ down' \in [Worker -> Seq(Message)]
      /\ \A v \in Worker \ {w} : down'[v] = down[v]
    BY <1>1, AnswerFacts DEF AmfRegisters, Answers
<1>4. HasContext(w)' => HasContext(w)
    BY <1>1, ContextKept DEF AmfRegisters, Answers
<1>5. UNCHANGED <<env, pc, round, address, latencies, signals, list, main, connected, idle, data>>
    BY DEF AmfRegisters, harness
<1>6. Typed'
    BY <1>1, <1>2, <1>3, <1>4, <1>5 DEF Typed
<1>7. Steady(w) /\ Bounds'
    BY <1>1, <1>2, <1>3, <1>4, <1>5 DEF Steady, Bounds, Mine
<1>8. SoundAt(w)'
    BY <1>1, <1>2, <1>3, <1>4, <1>5 DEF SoundAt, Mine, Nothing
<1> QED
    BY <1>6, <1>7, <1>8, SteadySound

LEMMA AmfReleasesSound ==
    ASSUME Sound, NEW w \in Worker, AmfReleases(w)
    PROVE  Sound'
<1>1. Typed /\ SoundAt(w) /\ Bounds /\ Mine(w) \in UE
    BY MineFacts DEF Sound, Bounds
<1>2. /\ request[w] = "ReleaseRequest"
      /\ request' \in [Worker -> Requests \cup {Nothing}] /\ request'[w] = Nothing
      /\ \A v \in Worker \ {w} : request'[v] = request[v]
    BY <1>1, HandlesFacts DEF AmfReleases, Requests
<1>3. /\ down' \in [Worker -> Seq(Message)]
      /\ \A v \in Worker \ {w} : down'[v] = down[v]
    BY <1>1, AnswerFacts DEF AmfReleases, Answers
<1>4. HasContext(w)' => HasContext(w)
    BY <1>1, ContextKept DEF AmfReleases, Answers
<1>5. UNCHANGED <<env, pc, round, address, latencies, signals, list, main, connected, idle, data>>
    BY DEF AmfReleases, harness
<1>6. Typed'
    BY <1>1, <1>2, <1>3, <1>4, <1>5 DEF Typed
<1>7. Steady(w) /\ Bounds'
    BY <1>1, <1>2, <1>3, <1>4, <1>5 DEF Steady, Bounds, Mine
<1>8. SoundAt(w)'
    BY <1>1, <1>2, <1>3, <1>4, <1>5 DEF SoundAt, Mine, Nothing
<1> QED
    BY <1>6, <1>7, <1>8, SteadySound

LEMMA AmfRejectsSound ==
    ASSUME Sound, NEW w \in Worker, AmfRejects(w)
    PROVE  Sound'
<1>1. Typed /\ SoundAt(w) /\ Bounds /\ Mine(w) \in UE
    BY MineFacts DEF Sound, Bounds
<1>2. /\ request[w] = "ServiceRequest"
      /\ request' \in [Worker -> Requests \cup {Nothing}] /\ request'[w] = Nothing
      /\ \A v \in Worker \ {w} : request'[v] = request[v]
    BY <1>1, HandlesFacts DEF AmfRejects, Requests
<1>3. /\ down' \in [Worker -> Seq(Message)]
      /\ \A v \in Worker \ {w} : down'[v] = down[v]
    BY <1>1, AnswerFacts DEF AmfRejects, Answers
<1>4. HasContext(w)' => HasContext(w)
    BY <1>1, ContextKept DEF AmfRejects, Answers
<1>5. UNCHANGED <<env, pc, round, address, latencies, signals, list, main, connected, idle, data>>
    BY DEF AmfRejects, harness
<1>6. Typed'
    BY <1>1, <1>2, <1>3, <1>4, <1>5 DEF Typed
<1>7. Steady(w) /\ Bounds'
    BY <1>1, <1>2, <1>3, <1>4, <1>5 DEF Steady, Bounds, Mine
<1>8. SoundAt(w)'
    BY <1>1, <1>2, <1>3, <1>4, <1>5 DEF SoundAt, Mine, Nothing
<1> QED
    BY <1>6, <1>7, <1>8, SteadySound

LEMMA AmfServesSound ==
    ASSUME Sound, NEW w \in Worker, AmfServes(w)
    PROVE  Sound'
<1>1. Typed /\ SoundAt(w) /\ Bounds /\ Mine(w) \in UE
    BY MineFacts DEF Sound, Bounds
<1>2. /\ request[w] = "ServiceRequest"
      /\ request' \in [Worker -> Requests \cup {Nothing}] /\ request'[w] = Nothing
      /\ \A v \in Worker \ {w} : request'[v] = request[v]
    BY <1>1, HandlesFacts DEF AmfServes, Requests
<1>3. /\ down' \in [Worker -> Seq(Message)]
      /\ \A v \in Worker \ {w} : down'[v] = down[v]
    BY <1>1, AnswerFacts DEF AmfServes, Answers
<1>4. /\ idle' \subseteq UE /\ data' \subseteq UE /\ Mine(w) \notin idle'
      /\ \A u : u \in idle' => u \in idle
    BY <1>1 DEF AmfServes, Typed
<1>5. UNCHANGED <<env, pc, round, address, latencies, signals, list, main, connected>>
    BY DEF AmfServes, harness
<1>6. Typed'
    BY <1>1, <1>2, <1>3, <1>4, <1>5 DEF Typed
<1>7. Steady(w) /\ Bounds'
    BY <1>1, <1>2, <1>3, <1>4, <1>5 DEF Steady, Bounds, Mine
<1>8. SoundAt(w)'
    BY <1>1, <1>2, <1>3, <1>4, <1>5 DEF SoundAt, Mine, Nothing
<1> QED
    BY <1>6, <1>7, <1>8, SteadySound

LEMMA AmfForgetsSound ==
    ASSUME Sound, NEW w \in Worker, AmfForgets(w)
    PROVE  Sound'
<1>1. Typed /\ SoundAt(w) /\ Bounds /\ Mine(w) \in UE
    BY MineFacts DEF Sound, Bounds
<1>2. /\ request[w] = "ReleaseComplete"
      /\ request' \in [Worker -> Requests \cup {Nothing}] /\ request'[w] = Nothing
      /\ \A v \in Worker \ {w} : request'[v] = request[v]
    BY <1>1, HandlesFacts DEF AmfForgets, Requests
<1>3. /\ idle' = idle \cup {Mine(w)} /\ (HasContext(w)' <=> HasContext(w))
    BY DEF AmfForgets, HasContext
<1>4. /\ idle' \subseteq UE
      /\ \A v \in Worker \ {w} : Mine(v) \in idle' => Mine(v) \in idle
    BY <1>1, <1>3, MineFacts DEF Typed
<1>5. UNCHANGED <<env, pc, round, address, latencies, signals, list, main, down, connected, data>>
    BY DEF AmfForgets, harness
<1>6. Typed'
    BY <1>1, <1>2, <1>3, <1>4, <1>5 DEF Typed
<1>7. Steady(w) /\ Bounds'
    BY <1>1, <1>2, <1>3, <1>4, <1>5 DEF Steady, Bounds, Mine
<1>8. SoundAt(w)'
    BY <1>1, <1>2, <1>3, <1>4, <1>5 DEF SoundAt, Mine, Nothing
<1> QED
    BY <1>6, <1>7, <1>8, SteadySound

LEMMA MainSound ==
    ASSUME Sound, Begin \/ Close \/ Return \/ UNCHANGED vars \/ (\E w \in Worker : FailToConnect(w))
    PROVE  Sound'
<1>1. /\ UNCHANGED <<env, pc, round, address, latencies, signals, list,
                     request, down, connected, idle, data>>
      /\ main' \in {"waiting", "closed", "returned", "crashed", main}
      /\ main' = "closed" => main = "closed" \/ \A w \in Worker : pc[w] = "done"
    BY DEF Begin, Close, Return, FailToConnect, vars, harness, amf
<1>2. \A w \in Worker : SoundAt(w)'
    BY <1>1 DEF Sound, SoundAt, HasContext, Mine
<1>3. Typed' /\ ClosedMeansDone'
    BY <1>1 DEF Sound, Typed, ClosedMeansDone
<1> QED
    BY <1>1, <1>2, <1>3 DEF Sound

LEMMA PagesSound ==
    ASSUME Sound, NEW u \in UE, AmfPages(u)
    PROVE  Sound'
<1>1. /\ UNCHANGED <<env, pc, round, address, latencies, signals, list, main,
                     request, connected, idle>>
      /\ data' = data \ {u}
      /\ down' = [w \in Worker |-> IF w \in connected THEN Append(down[w], Paging(u)) ELSE down[w]]
    BY DEF AmfPages, harness
<1>2. Paging(u) \in Message /\ Paging(u).type # "ContextSetup"
    BY MessageFacts DEF IsPaging
<1>3. ASSUME NEW w \in Worker
      PROVE  down'[w] \in Seq(Message) /\ (HasContext(w)' => HasContext(w))
  <2>1. down[w] \in Seq(Message)
      BY DEF Sound, Typed
  <2>2. down'[w] = IF w \in connected THEN Append(down[w], Paging(u)) ELSE down[w]
      BY <1>1
  <2>3. CASE w \in connected
    <3>1. /\ down'[w] \in Seq(Message) /\ Members(down'[w]) = Members(down[w]) \cup {Paging(u)}
        BY <1>2, <2>1, <2>2, <2>3, AppendMembers
    <3> QED
        BY <1>2, <3>1 DEF HasContext
  <2>4. CASE w \notin connected
      BY <2>1, <2>2, <2>4 DEF HasContext
  <2> QED
      BY <2>3, <2>4
<1>4. \A w \in Worker : SoundAt(w)'
    BY <1>1, <1>3 DEF Sound, SoundAt, Mine
<1>5. down' \in [Worker -> Seq(Message)]
    BY <1>1, <1>3
<1>6. Typed' /\ ClosedMeansDone'
    BY <1>1, <1>5 DEF Sound, Typed, ClosedMeansDone
<1> QED
    BY <1>1, <1>4, <1>6 DEF Sound

LEMMA CollectSound ==
    ASSUME Sound, Collect
    PROVE  Sound'
<1> DEFINE filled == IF Head(signals) = NoAddress THEN list ELSE Append(list, Head(signals))
<1>1. /\ UNCHANGED <<env, pc, round, address, latencies, main, request, down, connected, idle>>
      /\ signals # <<>> /\ signals' = Tail(signals)
      /\ list' = IF Len(filled) = ThreadAmount THEN <<>> ELSE filled
      /\ data' = IF Len(filled) = ThreadAmount THEN data \cup {filled[i] : i \in DOMAIN filled}
                                               ELSE data
    BY DEF Collect
<1>2. /\ signals \in Seq(UE \cup {NoAddress}) /\ list \in Seq(UE) /\ Len(list) < ThreadAmount
      /\ Len(signals) <= SignalCapacity /\ ThreadAmount \in Nat \ {0} /\ SignalCapacity \in Nat
    BY BatchSize DEF Sound, Typed, SignalCapacity
<1>3. /\ Head(signals) \in UE \cup {NoAddress}
      /\ signals' \in Seq(UE \cup {NoAddress}) /\ Len(signals') <= SignalCapacity
    BY <1>1, <1>2, ReadQueue
<1>4. filled \in Seq(UE) /\ Len(filled) <= ThreadAmount
    BY <1>2, <1>3
<1> HIDE DEF filled
<1>5. list' \in Seq(UE) /\ Len(list') < ThreadAmount
    BY <1>1, <1>2, <1>4
<1>6. {filled[i] : i \in DOMAIN filled} \subseteq UE
    BY <1>4
<1>7. data' \subseteq UE
    BY <1>1, <1>6 DEF Sound, Typed
<1>8. \A w \in Worker : SoundAt(w)'
    BY <1>1 DEF Sound, SoundAt, HasContext, Mine
<1>9. Typed' /\ ClosedMeansDone'
    BY <1>1, <1>3, <1>5, <1>7 DEF Sound, Typed, ClosedMeansDone
<1> QED
    BY <1>1, <1>3, <1>5, <1>8, <1>9 DEF Sound

LEMMA StepSound == Sound /\ [Next]_vars => Sound'
<1> SUFFICES ASSUME Sound, [Next]_vars PROVE Sound'
    OBVIOUS
<1>1. ASSUME NEW w \in Worker, Progress(w)
      PROVE  Sound'
    BY <1>1, ConnectSound, RegisterSound, ReleaseUeSound, CompleteReleaseSound, SignalSound,
       AnswerPagingSound, AbsorbSound, FinishSound, DeliverSound, NextUeSound DEF Progress
<1>2. ASSUME NEW w \in Worker, Failing(w)
      PROVE  Sound'
    BY <1>2, MainSound, AbsorbSound, ExitSound DEF Failing
<1>3. ASSUME NEW w \in Worker, Amf(w)
      PROVE  Sound'
    BY <1>3, AmfSetsUpSound, AmfRegistersSound, AmfReleasesSound, AmfForgetsSound,
       AmfServesSound, AmfRejectsSound DEF Amf
<1> QED
    BY <1>1, <1>2, <1>3, MainSound, PagesSound, CollectSound DEF Next

-----------------------------------------------------------------------------
(* Theorems                                                                 *)

\* The inductive invariant: all workers have seen the same batches called, and
\* what is in the channel, in the list and in the queues follows from that.
\* It holds as long as UEs are told apart, and Sound in any case.
THEOREM Invariance == Spec => []Inv
<1>1. Init => Inv
  <2> SUFFICES ASSUME Init PROVE Inv
      OBVIOUS
  <2>1. IInv
      BY InitKeeps
  <2>2. \A w \in Worker : SoundAt(w)
      BY EmptyQueue DEF Init, SoundAt, HasContext, Nothing
  <2>3. latencies <= Amount + 1 /\ Len(signals) <= SignalCapacity /\ Len(list) < ThreadAmount
      BY BatchSize, EmptyQueue DEF Init, Amount, SignalCapacity
  <2> QED
      BY <2>1, <2>2, <2>3 DEF Inv, Sound, IInv
<1>2. Inv /\ [Next]_vars => Inv'
    BY StepSound, StepKeeps, SameTmsis DEF Inv
<1> QED
    BY <1>1, <1>2, PTL DEF Spec

\* As long as UEs are told apart, TestMultiPagingConcurrent never fills
\* paging_latency_chan or dl_signal_chan, and a connection never holds more than
\* the Pagings of two batches.
THEOREM TypeCorrect == Spec => []TypeOK
<1>1. ASSUME Inv
      PROVE  TypeOK
  <2>1. ToldApart => /\ latencies <= Amount /\ Len(signals) <= ThreadAmount
                     /\ \A w \in Worker : Len(down[w]) <= 2 * ThreadAmount
      BY <1>1, ChannelBounds, QueueBound DEF Inv
  <2>2. latencies \in 0..(Amount + 1)
      BY <1>1, BatchSize DEF Inv, Sound, Typed, Amount
  <2> QED
      BY <1>1, <2>1, <2>2 DEF Inv, Sound, Typed, TypeOK
<1> QED
    BY <1>1, Invariance, PTL

\* As long as UEs are told apart, DownlinkDataController pings the UEs of all workers or none: those they
\* handle now, each released and waiting for its Paging.
THEOREM AlwaysPingsWholeBatch == Spec => PingsWholeBatch
<1>1. ASSUME Inv, ToldApart, Collect, data' # data
      PROVE  /\ data' \ data = {Mine(w) : w \in Worker}
             /\ \A w \in Worker : pc[w] = "readPaging"
    BY <1>1, CollectsWhole DEF Inv
<1>2. ASSUME Inv, [Next]_vars
      PROVE  [ToldApart /\ Collect /\ data' # data =>
                /\ data' \ data = {Mine(w) : w \in Worker}
                /\ \A w \in Worker : pc[w] = "readPaging"]_vars
    BY <1>1, <1>2
<1> QED
    BY <1>2, Invariance, PTL DEF Spec, PingsWholeBatch

\* Channel, list and loops of the paging test implement PagingRounds as long as
\* the numbers made of the 5G-TMSIs tell the UEs apart: the workers measure the
\* same number of rounds, each with one call to all.
THEOREM Refinement == Spec => ImplementsRounds
<1>1. Init => Rounds!Init
  <2> SUFFICES ASSUME Init PROVE Rounds!Init
      OBVIOUS
  <2>1. \A w \in Worker : Stage(w) = "arriving"
      BY DEF Init, Stage
  <2> QED
      BY <2>1 DEF Init, Rounds!Init, stageOf
<1>2. Inv /\ [Next]_vars => [ToldApart => Rounds!Next]_(Rounds!roundsVars)
  <2> SUFFICES ASSUME IInv, ToldApart, [Next]_vars
               PROVE  Rounds!Next \/ UNCHANGED Rounds!roundsVars
      BY DEF Inv
  <2>1. ASSUME NEW w \in Worker, Progress(w)
        PROVE  Rounds!Next \/ UNCHANGED Rounds!roundsVars
    <3>1. CASE Signal(w)
        BY <3>1, SignalWaits DEF Rounds!Next
    <3>2. CASE Deliver(w)
        BY <3>2, DeliverMeasures DEF Rounds!Next
    <3>3. CASE NextUe(w)
        BY <3>3, NextUeRefines DEF Rounds!Next
    <3> QED
        BY <2>1, <3>1, <3>2, <3>3, ProgressStutters DEF Progress
  <2>2. ASSUME NEW w \in Worker, Failing(w) \/ Amf(w)
        PROVE  UNCHANGED Rounds!roundsVars
      BY <2>2, OthersStutter
  <2>3. CASE Begin \/ Close \/ Return
    <3>1. PICK w \in Worker : TRUE
        BY WorkerAssumption
    <3> QED
        BY <2>3, OthersStutter
  <2>4. ASSUME NEW u \in UE, AmfPages(u)
        PROVE  Rounds!Next
      BY <2>4, PagesRefines DEF Rounds!Next
  <2>5. CASE Collect
      BY <2>5, CollectRefines DEF Rounds!Next
  <2>6. CASE UNCHANGED vars
    <3>1. UNCHANGED <<pc, round, address, signals, list, data, latencies>>
        BY <2>6 DEF vars, harness, amf
    <3>2. \A w \in Worker : Stage(w)' = Stage(w)
        BY <3>1, StageKept
    <3>3. stageOf' = stageOf
        BY <3>2 DEF stageOf
    <3> QED
        BY <3>1, <3>3 DEF Rounds!roundsVars
  <2> QED
      BY <2>1, <2>2, <2>3, <2>4, <2>5, <2>6 DEF Next
<1> QED
    BY <1>1, <1>2, Invariance, PTL DEF Spec, ImplementsRounds

\* A goroutine that ends without its UE's address in the channel keeps the test
\* from ending; it stalls the batch, as one does that waits without an address,
\* when UEs are told apart: no other UE of the round is paged.
THEOREM AlwaysLostUeStopsBatch == Spec => []LostUeStopsBatch
<1>1. ASSUME IInv, NEW w \in Worker,
             pc[w] = "exited" \/ (pc[w] = "readPaging" /\ ~address[w])
      PROVE  /\ main # "closed"
             /\ \A v \in Worker : round[v] < round[w] \/ (round[v] = round[w] /\ pc[v] \notin Paged)
  <2>1. ~Called(w) /\ Calls(w) = round[w] - 1
      BY <1>1 DEF Called, Calls, Paged
  <2>2. main # "closed"
      BY <1>1 DEF IInv, ClosedMeansDone
  <2>3. ASSUME NEW v \in Worker
        PROVE  round[v] < round[w] \/ (round[v] = round[w] /\ pc[v] \notin Paged)
    <3>1. Calls(v) = round[w] - 1 /\ round[v] \in Nat /\ round[w] \in Nat
        BY <1>1, <2>1, MineFacts DEF IInv, Together
    <3>2. CASE Called(v)
        BY <3>1, <3>2 DEF Calls
    <3>3. CASE ~Called(v)
        BY <3>1, <3>3 DEF Calls, Called
    <3> QED
        BY <3>2, <3>3
  <2> QED
      BY <2>2, <2>3
<1>2. Inv => LostUeStopsBatch
    BY <1>1 DEF LostUeStopsBatch, Inv, Sound, ClosedMeansDone
<1> QED
    BY <1>2, Invariance, PTL

\* SinglePaging ends its measurement only for a UE that the AMF has brought
\* back from idle, whatever 5G-TMSIs there are and whoever's Paging it took for
\* its own; that it was its own is proved where the numbers are different.
THEOREM AlwaysMeasuredWhenServed == Spec => []MeasuredWhenServed
<1>1. ASSUME Inv, NEW w \in Worker
      PROVE  /\ pc[w] = "deliver" => Mine(w) \notin idle
             /\ ToldApart /\ pc[w] \in {"readContext", "deliver"} => Mine(w) \notin data
    BY <1>1, PendingWaits DEF Inv, Sound, SoundAt
<1>2. Inv => MeasuredWhenServed
    BY <1>1 DEF MeasuredWhenServed
<1> QED
    BY <1>2, Invariance, PTL

\* As long as UEs are told apart, no worker on its way to the channel reads a
\* Paging for an answer while the sleeps between two UEs are long enough.
THEOREM AlwaysNoStrayPaging == Spec => [](ToldApart => NoStrayPaging)
<1>1. ASSUME IInv, env.sleepsSuffice, NEW w \in Worker,
             pc[w] \in {"readSetup", "readSession", "readRelease"}, down[w] # <<>>
      PROVE  Head(down[w]).type # "Paging"
  <2>1. NoPagings(down[w])
      BY <1>1, BeforeCalled DEF IInv, Queues, SleptAt, Before
  <2>2. down[w] \in Seq(Message)
      BY <1>1 DEF IInv, Typed
  <2>3. Head(down[w]) \in Members(down[w])
      BY <1>1, <2>2, ReadQueue
  <2> QED
      BY <2>1, <2>3 DEF NoPagings, IsPaging
<1>2. Inv => (ToldApart => NoStrayPaging)
    BY <1>1 DEF NoStrayPaging, Inv
<1> QED
    BY <1>2, Invariance, PTL

=============================================================================
