\* Three tasks; three threads on the input port and two on the output port:
\* a signal, a timeout and a thread that did not wait race for one task.
SPECIFICATION Spec
CONSTANTS
    TaskCount = 3
    InputClients = {i1, i2, i3}
    OutputClients = {o1, o2}
    NoTask = NoTask
INVARIANTS ListsMatchStatus HeldByOne NoLostWakeup
PROPERTIES ImplementsRing ImplementsFairRing
