------------------------- MODULE MCHandoverBarrier --------------------------
(* Instance of HandoverBarrier for TLC.  The worst environment has the      *)
(* behaviours of the two in between, too.                                   *)
EXTENDS HandoverBarrier

BestAndWorst == { [mayFail |-> FALSE, sleepsSuffice |-> TRUE],
                  [mayFail |-> TRUE,  sleepsSuffice |-> FALSE] }

=============================================================================
