\* One run, refused once.
SPECIFICATION Spec
CONSTANTS
    SqnMod = 256
    OvfMod = 65536
    MaxRuns = 1
    MaxOdd = 1
    Odd = {"refused"}
    UeAddrs = {a1, a2}
    Spis = {s1, s2}
    NoAddr = none
INVARIANT RefusalIsSeen
