\* TestN2Handover.
SPECIFICATION FairSpec
CONSTANTS
    SqnMod = 256
    OvfMod = 65536
    Flows = {"TestN2Handover"}
    Rounds = 1
    FirstIds = {1, 5}
    Late = {FALSE}
INVARIANT ResponsesWanted
