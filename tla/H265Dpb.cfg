\* A buffer just large enough for the streams; three faults at any points of
\* them: packets lost or put twice, hardware errors, a reset.  A stream ends.
SPECIFICATION Spec
CHECK_DEADLOCK FALSE
CONSTANTS
    Streams <- MCStreams
    DpbSize = 6
    Reorder = 1
    MaxLsb = 32
    MaxLost = 2
    MaxResets = 1
    MaxFaults = 3
INVARIANTS ShownInOrder SpoiltIsMarked
