\* Sequence numbers of 2 bits and overflow of 3 values, both of which wrap a
\* carry within the bounds; skips up to the assumption's limit.
SPECIFICATION Spec
CONSTANTS
    SqnMod = 4
    OvfMod = 3
    MaxContexts = 2
    MaxUplink = 12
    MaxDownlink = 12
    MaxInFlight = 2
    MaxSkipped = 2
INVARIANT TypeOK
PROPERTIES
    CountsExact
    UplinkCountFresh
CHECK_DEADLOCK FALSE
