\* Two runs and two disturbances of any kind.
SPECIFICATION FairSpec
CONSTANTS
    SqnMod = 256
    OvfMod = 65536
    MaxRuns = 2
    MaxOdd = 2
    Odd = {"lost", "stray", "zero", "refused", "known", "slow", "machine"}
    UeAddrs = {a1, a2}
    Spis = {s1, s2}
    NoAddr = none
INVARIANTS
    TypeOK
    ChildSAsKept
    KeyAgreed
    NothingLeftBehind
PROPERTIES
    PassMeansRegistered
    UndisturbedRunPasses
    EveryRunEnds
