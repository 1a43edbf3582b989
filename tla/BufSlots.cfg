\* Three slots, two task handles, one reference picture, three pictures and
\* two geometries: slots are reused while the hal thread still clears them.
SPECIFICATION Spec
CONSTANTS
    None = None
    NumSlots = 3
    Tasks = {t1, t2}
    Hal = hal
    MaxRef = 1
    Infos = {small, large}
    MaxFrames = 3
INVARIANTS UsedExactlyWhenHeld NoIllegalClear ShownInOrder
PROPERTIES FrameKept AllShown
