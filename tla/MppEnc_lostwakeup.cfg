\* One task per queue, as mpp.cpp sets it up.  One command is enough.
SPECIFICATION Spec
CONSTANTS
    TaskCount = 1
    Modes <- MCRegularV2
    OutputTimeout = "timed"
    MaxFrames = 1
    MaxResets = 0
    MaxControls = 1
    None = None
INVARIANT SleepJustified
