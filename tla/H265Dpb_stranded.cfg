\* A splice to a picture with the count of one that waits; a packet before
\* it is lost or not.
SPECIFICATION Spec
CHECK_DEADLOCK FALSE
CONSTANTS
    Streams <- SpliceStreams
    DpbSize = 6
    Reorder = 1
    MaxLsb = 32
    MaxLost = 1
    MaxResets = 0
    MaxFaults = 1
INVARIANT NoneStranded
