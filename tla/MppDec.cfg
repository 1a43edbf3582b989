\* Limits low enough to be met: mPackets takes two packets, and the parser
\* stops at two frames not fetched.  A reset, and the end of the context, at any
\* point of the sessions with a geometry set beforehand: MppDec_slotleak shows
\* what a reset at an info change does.
SPECIFICATION Spec
CONSTANTS
    None = None
    small = small
    large = large
    Sessions <- AllSessions
    TaskCount = 2
    NumSlots = 4
    PacketLimit = 2
    FrameLimit = 1
    PutInReset = FALSE
INVARIANTS FramesInOrder AnnouncedBefore NoLostWakeup HalSlotsIntact
           ResetQuiesced ResetEmpties
PROPERTIES AllDecoded AllTaken CallsReturn
