\* One task per queue, as mpp.cpp sets it up; a reset and commands at any
\* point.  A v1 encoder that is given empty tasks may crash.
CHECK_DEADLOCK FALSE
SPECIFICATION Spec
CONSTANTS
    TaskCount = 1
    Modes <- MCRegular
    OutputTimeout = "MPP_POLL_NON_BLOCK"
    MaxFrames = 1
    MaxResets = 1
    MaxControls = 2
    None = None
INVARIANTS NoLostWakeup ControlInForce
PROPERTIES ResetDone CallsReturn
