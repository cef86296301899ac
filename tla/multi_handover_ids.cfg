\* TestMultiN2Handover, two of its ten rounds, against a fresh AMF.
SPECIFICATION FairSpec
CONSTANTS
    SqnMod = 256
    OvfMod = 65536
    Flows = {"TestMultiN2Handover"}
    Rounds = 2
    FirstIds = {1, 5}
    Late = {FALSE}
INVARIANT IdsAgree
