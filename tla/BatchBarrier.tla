---------------------------- MODULE BatchBarrier ----------------------------
(***************************************************************************)
(* What the handover batch promises, without its lock, counter or channel: *)
(* every worker registers its UE and tries to establish a PDU session,     *)
(* and no handover starts while some worker of the batch is still on the   *)
(* way there.  It does not promise a session: a worker whose establishment *)
(* failed arrives, is released and leaves like the others.  One that never *)
(* gets through its registration stays "arriving" for ever and keeps the   *)
(* whole batch from starting.                                              *)
(***************************************************************************)

CONSTANT Worker        \* the goroutines of one concurrent handover test

VARIABLES
    stage,             \* stage[w]: how far worker w is
    session            \* the workers whose UE has a PDU session

vars == <<stage, session>>

Init ==
    /\ stage = [w \in Worker |-> "arriving"]
    /\ session = {}

\* The UE of w gets its session, which is possible before w arrives only.
Establish(w) ==
    /\ stage[w] = "arriving"
    /\ session' = session \cup {w}
    /\ UNCHANGED stage

\* w has tried, with or without success, and waits for the others.
Arrive(w) ==
    /\ stage[w] = "arriving"
    /\ stage' = [stage EXCEPT ![w] = "waiting"]
    /\ UNCHANGED session

\* w starts its handover: nobody is still on the way to the barrier.
Release(w) ==
    /\ stage[w] = "waiting"
    /\ \A v \in Worker : stage[v] # "arriving"
    /\ stage' = [stage EXCEPT ![w] = "released"]
    /\ UNCHANGED session

\* The handover of w is over and its result can be delivered.
Leave(w) ==
    /\ stage[w] = "released"
    /\ stage' = [stage EXCEPT ![w] = "left"]
    /\ UNCHANGED session

Next == \E w \in Worker : Establish(w) \/ Arrive(w) \/ Release(w) \/ Leave(w)

Spec == Init /\ [][Next]_vars

=============================================================================
