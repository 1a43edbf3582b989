\* Two handles, as the parsers of mpg4 and h263 ask for.  The system stops
\* when the stream has ended.
SPECIFICATION Spec
CHECK_DEADLOCK FALSE
CONSTANTS
    None = None
    BufferCount = 5
    HandleCount = 4
    TaskCount = 2
    Sessions <- MCSessions
INVARIANTS FieldsInOrder HeldOnce SlotOfTask
PROPERTIES Settles
