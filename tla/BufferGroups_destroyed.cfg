\* A group cleared and put while one of its buffers is held.
SPECIFICATION Spec
CONSTANTS
    Groups = {1, 2}
    Frames = 1
    Buffers = {b1, b2, b3}
    Sizes = {1, 2}
    Limits <- MCLimits
    MaxRef = 2
SYMMETRY Addresses
CHECK_DEADLOCK FALSE
INVARIANTS DestroyedEmpty
