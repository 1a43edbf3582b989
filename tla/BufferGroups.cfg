\* The decoder's group and one more, three buffers of two sizes, two
\* references to a buffer.  A program that has put its groups may stop.
SPECIFICATION Spec
CONSTANTS
    Groups = {1, 2}
    Frames = 1
    Buffers = {b1, b2, b3}
    Sizes = {1, 2}
    Limits <- MCLimits
    MaxRef = 2
SYMMETRY Addresses
CHECK_DEADLOCK FALSE
INVARIANTS CountsMatchLists HeldSurvives DiscardedNotReused UnusedCanBeGot SleepJustified
PROPERTIES LimitKept
