---------------------------- MODULE MCPagingBatch ---------------------------
(* Instance of PagingBatch for TLC.                                         *)
EXTENDS PagingBatch

CONSTANTS w1, w2

\* TMSIs of the UEs w1 handles, then of those w2 handles: of one octet; two
\* with the same number, 2, in the same round; the same in different rounds;
\* told apart, but not by the AMF.
Small(b) == <<0, 0, 0, b>>
Assignments == {
    << <<Small(1), Small(2)>>, <<Small(3), Small(4)>> >>,
    << <<Small(2), Small(3)>>, <<<<0, 0, 1, 0>>, Small(4)>> >>,
    << <<Small(2), Small(3)>>, <<Small(4), <<0, 0, 1, 0>>>> >>,
    << <<Small(1), Small(2)>>, <<<<1, 0, 0, 0>>, Small(4)>> >> }

AllEnvironments ==
    {[mayFail |-> fail, sleepsSuffice |-> sleep,
      tmsi |-> [u \in UE |-> given[IF u[1] = w1 THEN 1 ELSE 2][u[2]]]] :
        fail, sleep \in BOOLEAN, given \in Assignments}

=============================================================================
