\* TestPaging against a fresh AMF.
SPECIFICATION FairSpec
CONSTANTS
    SqnMod = 256
    OvfMod = 65536
    Flows = {"TestPaging"}
    Rounds = 1
    FirstIds = {1, 5}
    Late = {FALSE}
INVARIANT ReadsMatch
