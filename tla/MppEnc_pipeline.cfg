\* Two tasks per queue (mpp.cpp sets up one; with two, tasks of a queue are
\* in different places at once) and three frames, so that tasks are reused.
\* A v1 encoder that is given empty tasks may crash: the system may stop.
CHECK_DEADLOCK FALSE
SPECIFICATION Spec
CONSTANTS
    TaskCount = 2
    Modes <- MCModes
    OutputTimeout = "timed"
    MaxFrames = 3
    MaxResets = 0
    MaxControls = 0
    None = None
INVARIANTS AssertsHold PacketsInOrder NotFreedInUse DeinitAtInput
PROPERTY AllEncoded
