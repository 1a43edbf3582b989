---------------------------- MODULE TaskQueueOps ----------------------------
(***************************************************************************)
(* The task queue of mpp/base/mpp_task_impl.cpp.  A queue owns a fixed set *)
(* of tasks and two ports.  A task is always in one of four statuses:      *)
(*                                                                         *)
(*   INPUT_PORT -> INPUT_HOLD -> OUTPUT_PORT -> OUTPUT_HOLD -> INPUT_PORT  *)
(*    dequeue(in)   enqueue(in)   dequeue(out)   enqueue(out)              *)
(*                                                                         *)
(* dequeue, enqueue and the part of poll outside of the condition wait run *)
(* under the lock of the queue, so each is one operator here.              *)
(*                                                                         *)
(* A queue is a record.  status is the status word of each task; queue     *)
(* holds the lists of the two statuses tasks are dequeued from.  The lists *)
(* of the two HOLD statuses have no order anybody reads: they are the      *)
(* tasks with that status.  asserted records a failed mpp_assert.          *)
(***************************************************************************)
EXTENDS Integers, Sequences, FiniteSets, SequencesExt

Ports == {"INPUT", "OUTPUT"}

PortStatuses == {"INPUT_PORT", "OUTPUT_PORT"}
HoldStatuses == {"INPUT_HOLD", "OUTPUT_HOLD"}
Statuses     == PortStatuses \cup HoldStatuses

(* The three statuses mpp_port_init gives a port. *)
StatusCurr(port)    == IF port = "INPUT" THEN "INPUT_PORT"  ELSE "OUTPUT_PORT"
NextOnDequeue(port) == IF port = "INPUT" THEN "INPUT_HOLD"  ELSE "OUTPUT_HOLD"
NextOnEnqueue(port) == IF port = "INPUT" THEN "OUTPUT_PORT" ELSE "INPUT_PORT"

(* mpp_task_queue_init and mpp_task_queue_setup with n tasks. *)
QueueSetup(n) ==
    [ queue    |-> [s \in PortStatuses |->
                        IF s = "INPUT_PORT" THEN [i \in 1 .. n |-> i]
                                            ELSE <<>>],
      status   |-> [t \in 1 .. n |-> "INPUT_PORT"],
      asserted |-> FALSE ]

(* The tasks the next dequeues of a port will return. *)
Queued(q, port) == q.queue[StatusCurr(port)]

(* curr->count: poll and dequeue succeed. *)
HasTask(q, port) == Queued(q, port) # <<>>

NextTask(q, port) == Head(Queued(q, port))

(* Mutant: the task stays in the list of its port. *)
PortDequeue_Peek(q, port) ==
    [q EXCEPT !.status[NextTask(q, port)] = NextOnDequeue(port)]

(* Mutant: the youngest task is taken first. *)
PortDequeue_Last(q, port) ==
    [q EXCEPT !.queue[StatusCurr(port)]   = Front(@),
              !.status[NextTask(q, port)] = NextOnDequeue(port)]

PortDequeue(q, port) ==
    [q EXCEPT !.queue[StatusCurr(port)]  = Tail(@),
              !.status[NextTask(q, port)] = NextOnDequeue(port)]

(* list_del_init: the task leaves the list it is linked in, if any. *)
Unlink(queue, t) == [s \in PortStatuses |-> RemoveFirst(queue[s], t)]

(* Mutant: list_add for list_add_tail. *)
PortEnqueue_Front(q, port, t) ==
    [ queue    |-> [Unlink(q.queue, t) EXCEPT
                        ![NextOnEnqueue(port)] = <<t>> \o @],
      status   |-> [q.status EXCEPT ![t] = NextOnEnqueue(port)],
      asserted |-> q.asserted \/ q.status[t] # NextOnDequeue(port) ]

(* The assert on the status only logs: the task is moved all the same. *)
PortEnqueue(q, port, t) ==
    [ queue    |-> [Unlink(q.queue, t) EXCEPT
                        ![NextOnEnqueue(port)] = Append(@, t)],
      status   |-> [q.status EXCEPT ![t] = NextOnEnqueue(port)],
      asserted |-> q.asserted \/ q.status[t] # NextOnDequeue(port) ]
=============================================================================
