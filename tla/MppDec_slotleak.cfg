\* Two frame slots (the code has four) and as many resets.
SPECIFICATION Spec
CONSTANTS
    None = None
    small = small
    large = large
    Sessions <- LeakSessions
    TaskCount = 2
    NumSlots = 2
    PacketLimit = 1
    FrameLimit = 1
    PutInReset = FALSE
INVARIANT SlotWaitJustified
