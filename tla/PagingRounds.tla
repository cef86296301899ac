---------------------------- MODULE PagingRounds ----------------------------
(***************************************************************************)
(* What the concurrent paging test promises, without its channel, address  *)
(* list and associations: the UEs of all workers go idle, one each; when   *)
(* the last one has, downlink data is sent to exactly these UEs at once;   *)
(* each worker measures its UE once, after the data has led to its paging, *)
(* and only then goes on to its next UE.  A worker whose UE never gets     *)
(* ready keeps its round from being called, and so all later ones.         *)
(***************************************************************************)
EXTENDS Naturals

CONSTANTS Worker, WorkLoad    \* the goroutines, and the UEs of each

VARIABLES
    stage,     \* stage[w]: how far worker w is with its UE
    round,     \* round[w]: which of its UEs that is
    pinged,    \* the UEs with downlink data that have not been paged yet
    measured   \* how many latencies have been delivered

roundsVars == <<stage, round, pinged, measured>>

Init ==
    /\ stage = [w \in Worker |-> "arriving"]
    /\ round = [w \in Worker |-> 1]
    /\ pinged = {}
    /\ measured = 0

\* The UE of w is registered, has a session, has released it and is idle.
Wait(w) ==
    /\ stage[w] = "arriving"
    /\ stage' = [stage EXCEPT ![w] = "waiting"]
    /\ UNCHANGED <<round, pinged, measured>>

\* Everybody waits, in the same round: each gets downlink data.
Call ==
    /\ \A v, w \in Worker : stage[w] = "waiting" /\ round[v] = round[w]
    /\ stage' = [w \in Worker |-> "called"]
    /\ pinged' = {<<w, round[w]>> : w \in Worker}
    /\ pinged = {}
    /\ UNCHANGED <<round, measured>>

\* UE u is paged for its downlink data.
Page(u) ==
    /\ u \in pinged
    /\ pinged' = pinged \ {u}
    /\ UNCHANGED <<stage, round, measured>>

\* The UE of w has been paged and has answered.
Measure(w) ==
    /\ stage[w] = "called"
    /\ <<w, round[w]>> \notin pinged
    /\ stage' = [stage EXCEPT ![w] = "served"]
    /\ measured' = measured + 1
    /\ UNCHANGED <<round, pinged>>

NextUe(w) ==
    /\ stage[w] = "served"
    /\ round[w] < WorkLoad
    /\ stage' = [stage EXCEPT ![w] = "arriving"]
    /\ round' = [round EXCEPT ![w] = @ + 1]
    /\ UNCHANGED <<pinged, measured>>

Next ==
    \/ \E w \in Worker : Wait(w) \/ Measure(w) \/ NextUe(w)
    \/ Call
    \/ \E u \in pinged : Page(u)

Spec == Init /\ [][Next]_roundsVars

=============================================================================
