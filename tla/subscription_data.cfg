\* Two tests one after the other, each of which may be killed, over databases
\* with and without authentication data of earlier days.  No test need follow
\* the last one, so no deadlock check.
CONSTANTS
    ThreadAmount = 2
    WorkLoad = 2
    Tests = {"TestMultiRegistrationConcurrent", "TestNon3GPPUE", "TestRegistration", "TestMultiPagingConcurrent", "TestN2Handover", "TestMultiN2HandoverConcurrent", "XioTester"}
    Ran = 2
    MaxCopies = 2
    Earlier <- MCEarlier
SPECIFICATION Spec
INVARIANTS
    DataWhileNeeded
    SameKeys
    ReadsBack
CHECK_DEADLOCK FALSE
