\* Every procedure, with an AMF that answers and one that may not; TestMultiN2Handover with one
\* of its rounds.  Two-bit sequence numbers wrap within a procedure.
SPECIFICATION FairPathSpec
CONSTANTS
    SqnMod = 4
    OvfMod = 2
    Flows = {"TestRegistration", "SingleRegistration", "TestN2Handover", "SingleN2Handover",
             "TestMultiN2Handover", "TestPaging", "UeRanEmulator", "XioRegistration"}
    Rounds = 1
    FirstIds = {1, 5}
    Late = {FALSE, TRUE}
    Idx = 3
INVARIANTS
    TypeOK
    ConfiguredReadsMatch
    IdsAgree
    OtherResponsesWanted
    DownlinkReachesUe
    TargetAnnounced
PROPERTIES
    CountsExact
    EveryProcedureEnds
