----------------------------- MODULE TaskQueue ------------------------------
(***************************************************************************)
(* One task queue (mpp/base/mpp_task_impl.cpp) and the threads that work   *)
(* its two ports, each in the loop the code base uses everywhere           *)
(* (mpp/base/test/mpp_task_test.c, Mpp::put_frame, Mpp::get_packet, the    *)
(* encoder and the MJPEG decoder threads): poll, dequeue, enqueue.         *)
(*                                                                         *)
(* A poll that finds no task waits at most once on the condition of its    *)
(* status and then looks at the list one more time.  An enqueue signals    *)
(* that condition, which wakes one of the threads that wait on it.  A poll *)
(* with MPP_POLL_NON_BLOCK that finds nothing changes nothing.             *)
(*                                                                         *)
(* The ready flag is TRUE throughout: every user of the code calls         *)
(* mpp_task_queue_setup before it hands out the ports and                  *)
(* mpp_task_queue_deinit when nobody uses them any more.                   *)
(***************************************************************************)
EXTENDS TaskQueueOps

CONSTANTS
    TaskCount,          \* mpp_task_queue_setup(queue, TaskCount)
    InputClients,       \* threads that work the input port
    OutputClients,      \* threads that work the output port
    NoTask

ASSUME TaskCountAssumption == TaskCount \in Nat \ {0}
ASSUME ClientsAssumption ==
    /\ IsFiniteSet(InputClients) /\ IsFiniteSet(OutputClients)
    /\ InputClients \cap OutputClients = {}
ASSUME NoTaskAssumption == NoTask \notin 1 .. TaskCount

VARIABLES
    q,          \* the queue
    pc,         \* where each client is
    held        \* the task a client has dequeued, or NoTask

vars == <<q, pc, held>>

Tasks   == 1 .. TaskCount
Clients == InputClients \cup OutputClients

PortOf(c) == IF c \in InputClients THEN "INPUT" ELSE "OUTPUT"

(* Clients inside the condition wait of a status, and clients that will    *)
(* look at the list of a port before they wait again.                      *)
Waiters(status) ==
    {c \in Clients : pc[c] \in {"block", "timed"} /\ StatusCurr(PortOf(c)) = status}
Attentive(status) ==
    {c \in Clients : pc[c] \in {"woken", "polled"} /\ StatusCurr(PortOf(c)) = status}

Init ==
    /\ q = QueueSetup(TaskCount)
    /\ pc = [c \in Clients |-> "idle"]
    /\ held = [c \in Clients |-> NoTask]

-----------------------------------------------------------------------------
(* _mpp_port_poll *)

PollReady(c) ==
    /\ pc[c] = "idle" /\ HasTask(q, PortOf(c))
    /\ pc' = [pc EXCEPT ![c] = "polled"]
    /\ UNCHANGED <<q, held>>

(* MPP_POLL_BLOCK, or a timeout. *)
PollWait(c) ==
    /\ pc[c] = "idle" /\ ~HasTask(q, PortOf(c))
    /\ \E wait \in {"block", "timed"} : pc' = [pc EXCEPT ![c] = wait]
    /\ UNCHANGED <<q, held>>

(* The wait ends without an enqueue: the timeout expires, somebody calls   *)
(* mpp_port_awake, or pthread_cond_wait wakes up spuriously.               *)
WaitEnds(c) ==
    /\ pc[c] \in {"block", "timed"}
    /\ pc' = [pc EXCEPT ![c] = "woken"]
    /\ UNCHANGED <<q, held>>

(* After the wait the list is looked at again, once. *)
PollAgain(c) ==
    /\ pc[c] = "woken"
    /\ pc' = [pc EXCEPT ![c] = IF HasTask(q, PortOf(c)) THEN "polled" ELSE "idle"]
    /\ UNCHANGED <<q, held>>

(* _mpp_port_dequeue: another client may have been faster since the poll. *)
DequeueTask(c) ==
    /\ pc[c] = "polled" /\ HasTask(q, PortOf(c))
    /\ q' = PortDequeue(q, PortOf(c))
    /\ held' = [held EXCEPT ![c] = NextTask(q, PortOf(c))]
    /\ pc' = [pc EXCEPT ![c] = "hold"]

DequeueFails(c) ==
    /\ pc[c] = "polled" /\ ~HasTask(q, PortOf(c))
    /\ pc' = [pc EXCEPT ![c] = "idle"]
    /\ UNCHANGED <<q, held>>

(* Mutant: signal only when the list was empty. *)
Signalled_WhenEmpty(c, status) ==
    IF Waiters(status) = {} \/ q.queue[status] # <<>>
    THEN {[pc EXCEPT ![c] = "idle"]}
    ELSE {[pc EXCEPT ![c] = "idle", ![w] = "woken"] : w \in Waiters(status)}

(* Mutant: an enqueue that does not signal. *)
Signalled_Never(c, status) == {[pc EXCEPT ![c] = "idle"]}

(* The clients after c enqueued a task to status: one waiter, if there is  *)
(* any, leaves the condition.                                              *)
Signalled(c, status) ==
    IF Waiters(status) = {}
    THEN {[pc EXCEPT ![c] = "idle"]}
    ELSE {[pc EXCEPT ![c] = "idle", ![w] = "woken"] : w \in Waiters(status)}

(* _mpp_port_enqueue *)
EnqueueTask(c) ==
    /\ pc[c] = "hold"
    /\ q' = PortEnqueue(q, PortOf(c), held[c])
    /\ held' = [held EXCEPT ![c] = NoTask]
    /\ pc' \in Signalled(c, NextOnEnqueue(PortOf(c)))

Step(c) ==
    \/ PollReady(c) \/ PollWait(c) \/ PollAgain(c)
    \/ DequeueTask(c) \/ DequeueFails(c) \/ EnqueueTask(c)

Next == \E c \in Clients : Step(c) \/ WaitEnds(c)

(* Every client keeps running and enqueues what it dequeued.  No wait ends *)
(* by itself: the fairness does not rely on timeouts.                      *)
Fairness == \A c \in Clients : WF_vars(Step(c))

Spec == Init /\ [][Next]_vars /\ Fairness

-----------------------------------------------------------------------------
QueueType ==
    [ queue    : [PortStatuses -> Seq(Tasks)],
      status   : [Tasks -> Statuses],
      asserted : BOOLEAN ]

(* Every variable has the values the code can give it. *)
TypeOK ==
    /\ q \in QueueType
    /\ pc \in [Clients ->
                 {"idle", "block", "timed", "woken", "polled", "hold"}]
    /\ held \in [Clients -> Tasks \cup {NoTask}]

(* The list a task is linked in is the one its status names, and it is     *)
(* linked there once: count and list of every status agree.                *)
ListsMatchStatus ==
    \A s \in PortStatuses :
        /\ ToSet(q.queue[s]) = {t \in Tasks : q.status[t] = s}
        /\ IsInjective(q.queue[s])

(* A task is on hold exactly while one client, of that port, has it: no    *)
(* task is handed to two clients, and none is lost.                        *)
HeldByOne ==
    /\ \A t \in Tasks : q.status[t] \in HoldStatuses =>
          \E c \in Clients : held[c] = t
    /\ \A c \in Clients :
          /\ pc[c] = "hold" <=> held[c] # NoTask
          /\ pc[c] = "hold" => q.status[held[c]] = NextOnDequeue(PortOf(c))
    /\ \A c, d \in Clients : held[c] = held[d] /\ held[c] # NoTask => c = d

(* The assert of _mpp_port_enqueue on the status of the task holds. *)
NoAssert == ~q.asserted

(* While a client waits on a port, at least one other client is on its way *)
(* to each task of that port: a signal is never lost, even when a client   *)
(* that did not wait is faster than the one the signal woke.               *)
NoLostWakeup ==
    \A s \in PortStatuses :
        Waiters(s) # {} => Len(q.queue[s]) <= Cardinality(Attentive(s))

-----------------------------------------------------------------------------
(* The queue implements TaskRing. *)
Ring == INSTANCE TaskRing WITH
            idle    <- q.queue["INPUT_PORT"],
            filling <- {t \in Tasks : q.status[t] = "INPUT_HOLD"},
            filled  <- q.queue["OUTPUT_PORT"],
            working <- {t \in Tasks : q.status[t] = "OUTPUT_HOLD"}

(* Tasks go round in order, each in one place at a time ... *)
ImplementsRing == Ring!RingSafety

(* ... and neither port leaves a task waiting for ever. *)
ImplementsFairRing == Ring!RingFairness
=============================================================================
