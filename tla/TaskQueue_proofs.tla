-------------------------- MODULE TaskQueue_proofs --------------------------
(***************************************************************************)
(* Proofs about TaskQueue, for any number of tasks and any finite sets of  *)
(* clients.  The inductive invariant is the conjunction of the safety      *)
(* invariants on lists and holders: a task leaves a list only with the     *)
(* status that goes with it, and only its holder gives it a new one.  That *)
(* no signal is lost (NoLostWakeup) is inductive relative to it, by        *)
(* counting the clients on their way to each list; and so is the           *)
(* refinement of TaskRing.                                                 *)
(***************************************************************************)
EXTENDS TaskQueue, QueueLemmas, FiniteSetTheorems

IInv == TypeOK /\ ListsMatchStatus /\ HeldByOne /\ NoAssert

-----------------------------------------------------------------------------
(* A task on hold is in no list, so enqueueing it is one append. *)
LEMMA EnqueueHeld ==
    ASSUME IInv, NEW c \in Clients, pc[c] = "hold"
    PROVE  /\ held[c] \in Tasks
           /\ \A s \in PortStatuses : held[c] \notin ToSet(q.queue[s])
           /\ PortEnqueue(q, PortOf(c), held[c]) =
                [ queue    |-> [q.queue EXCEPT ![NextOnEnqueue(PortOf(c))] =
                                    Append(@, held[c])],
                  status   |-> [q.status EXCEPT ![held[c]] =
                                    NextOnEnqueue(PortOf(c))],
                  asserted |-> FALSE ]
<1> DEFINE t == held[c]
<1>1. /\ q.queue \in [PortStatuses -> Seq(Tasks)] /\ q.asserted = FALSE
      /\ \A s \in PortStatuses : q.queue[s] \in Seq(Tasks)
  BY DEF IInv, TypeOK, QueueType, NoAssert
<1>2. t \in Tasks /\ q.status[t] = NextOnDequeue(PortOf(c))
  BY DEF IInv, TypeOK, HeldByOne
<1>3. \A s \in PortStatuses : t \notin ToSet(q.queue[s])
  BY <1>2 DEF IInv, ListsMatchStatus, PortStatuses, NextOnDequeue
<1>4. \A s \in PortStatuses : RemoveFirst(q.queue[s], t) = q.queue[s]
  BY <1>1, <1>3, RemoveAbsent
<1>5. Unlink(q.queue, t) = q.queue
  BY <1>1, <1>4 DEF Unlink
<1> QED BY <1>1, <1>2, <1>3, <1>5 DEF PortEnqueue

-----------------------------------------------------------------------------
(* The invariant holds of an idle queue. *)
LEMMA InitIInv == Init => IInv
<1> SUFFICES ASSUME Init PROVE IInv
  OBVIOUS
<1> USE TaskCountAssumption, NoTaskAssumption
<1>1. [i \in Tasks |-> i] \in Seq(Tasks) /\ <<>> \in Seq(Tasks)
  BY DEF Tasks
<1>2. q.queue["INPUT_PORT"] = [i \in Tasks |-> i] /\ q.queue["OUTPUT_PORT"] = <<>>
  BY DEF Init, QueueSetup, PortStatuses, Tasks
<1>3. q.status = [t \in Tasks |-> "INPUT_PORT"] /\ q.asserted = FALSE
  BY DEF Init, QueueSetup, Tasks
<1>4. TypeOK
  <2>1. q.queue \in [PortStatuses -> Seq(Tasks)]
    BY <1>1 DEF Init, QueueSetup, PortStatuses, Tasks
  <2> QED BY <2>1, <1>3
          DEF TypeOK, QueueType, Init, QueueSetup, Statuses, PortStatuses
<1>5. ListsMatchStatus
  <2>1. ToSet(q.queue["INPUT_PORT"]) = Tasks /\ IsInjective(q.queue["INPUT_PORT"])
    BY <1>2 DEF ToSet, IsInjective
  <2>2. ToSet(q.queue["OUTPUT_PORT"]) = {} /\ IsInjective(q.queue["OUTPUT_PORT"])
    BY <1>2 DEF ToSet, IsInjective
  <2> QED BY <1>3, <2>1, <2>2 DEF ListsMatchStatus, PortStatuses
<1>6. HeldByOne
  BY <1>3 DEF HeldByOne, HoldStatuses, Init
<1> QED BY <1>3, <1>4, <1>5, <1>6 DEF IInv, NoAssert

(* A step that leaves the queue and the holders alone only moves a client  *)
(* between states without a task.                                          *)
LEMMA IdleStep ==
    ASSUME IInv, UNCHANGED <<q, held>>, NEW c \in Clients, pc[c] # "hold",
           NEW to \in {"idle", "block", "timed", "woken", "polled"},
           pc' = [pc EXCEPT ![c] = to]
    PROVE  IInv'
BY DEF IInv, TypeOK, QueueType, ListsMatchStatus, HeldByOne, NoAssert

(* The head of a list moves to HOLD: what is left is still without the     *)
(* task, in order and complete.                                            *)
LEMMA DequeueStep ==
    ASSUME IInv, NEW c \in Clients, DequeueTask(c)
    PROVE  IInv'
<1> DEFINE p == PortOf(c)
           s == StatusCurr(p)
           t == NextTask(q, p)
           h == NextOnDequeue(p)
<1>1. /\ s \in PortStatuses /\ h \in HoldStatuses
      /\ h \in Statuses /\ h # s /\ h \notin PortStatuses
  BY DEF StatusCurr, NextOnDequeue, PortStatuses, HoldStatuses, Statuses
<1>2. /\ q.queue \in [PortStatuses -> Seq(Tasks)]
      /\ q.status \in [Tasks -> Statuses]
      /\ q.asserted = FALSE
      /\ \A r \in PortStatuses : /\ ToSet(q.queue[r]) = {u \in Tasks : q.status[u] = r}
                                 /\ IsInjective(q.queue[r])
  BY DEF IInv, TypeOK, QueueType, NoAssert, ListsMatchStatus
<1>3. q.queue[s] \in Seq(Tasks) /\ q.queue[s] # <<>> /\ t = Head(q.queue[s])
  BY <1>1, <1>2 DEF DequeueTask, HasTask, Queued, NextTask
<1>4. /\ Tail(q.queue[s]) \in Seq(Tasks)
      /\ t \in Tasks /\ t \in ToSet(q.queue[s])
      /\ ToSet(Tail(q.queue[s])) = ToSet(q.queue[s]) \ {t}
      /\ IsInjective(Tail(q.queue[s]))
  BY <1>1, <1>2, <1>3, TailToSet
<1>5. q.status[t] = s
  BY <1>1, <1>2, <1>4
<1>6. /\ q'.queue = [q.queue EXCEPT ![s] = Tail(q.queue[s])]
      /\ q'.status = [q.status EXCEPT ![t] = h]
      /\ q'.asserted = FALSE
      /\ q' = [queue |-> q'.queue, status |-> q'.status, asserted |-> q'.asserted]
  <2>1. q' = [q EXCEPT !.queue[s] = Tail(@), !.status[t] = h]
    BY DEF DequeueTask, PortDequeue
  <2>2. q \in QueueType
    BY DEF IInv, TypeOK
  <2> QED BY <1>2, <2>1, <2>2 DEF QueueType
<1>7. /\ pc[c] = "polled"
      /\ held' = [held EXCEPT ![c] = t] /\ pc' = [pc EXCEPT ![c] = "hold"]
  BY DEF DequeueTask
<1>8. TypeOK'
  <2>1. q'.queue \in [PortStatuses -> Seq(Tasks)]
    BY <1>1, <1>2, <1>4, <1>6
  <2>2. q'.status \in [Tasks -> Statuses]
    BY <1>1, <1>2, <1>4, <1>6
  <2>3. q' \in QueueType
    BY <1>6, <2>1, <2>2 DEF QueueType
  <2> QED BY <1>4, <1>7, <2>3 DEF IInv, TypeOK
<1>9. ListsMatchStatus'
  <2>1. ASSUME NEW r \in PortStatuses, r # s
        PROVE  /\ q'.queue[r] = q.queue[r]
               /\ {u \in Tasks : q'.status[u] = r} = {u \in Tasks : q.status[u] = r}
    BY <1>1, <1>2, <1>5, <1>6, <2>1
  <2>2. /\ q'.queue[s] = Tail(q.queue[s])
        /\ {u \in Tasks : q'.status[u] = s} = {u \in Tasks : q.status[u] = s} \ {t}
    BY <1>1, <1>2, <1>4, <1>6
  <2> QED BY <1>1, <1>2, <1>4, <2>1, <2>2 DEF ListsMatchStatus
<1>10. HeldByOne'
  <2>1. \A d \in Clients : held[d] # t
    <3>1. q.status[t] \notin HoldStatuses
      BY <1>1, <1>5 DEF PortStatuses, HoldStatuses
    <3>2. t # NoTask
      BY <1>4, NoTaskAssumption DEF Tasks
    <3>3. \A port : NextOnDequeue(port) \in HoldStatuses
      BY DEF NextOnDequeue, HoldStatuses
    <3> QED BY <3>1, <3>2, <3>3 DEF IInv, HeldByOne
  <2>2. ASSUME NEW u \in Tasks, q'.status[u] \in HoldStatuses
        PROVE  \E d \in Clients : held'[d] = u
    <3>1. CASE u = t
      BY <1>7, <3>1 DEF IInv, TypeOK
    <3>2. CASE u # t
      <4>1. PICK d \in Clients : held[d] = u
        BY <1>2, <1>6, <2>2, <3>2 DEF IInv, HeldByOne
      <4>2. d # c
        BY <1>7, <4>1, NoTaskAssumption DEF IInv, HeldByOne, Tasks
      <4> QED BY <1>7, <4>1, <4>2 DEF IInv, TypeOK
    <3> QED BY <3>1, <3>2
  <2>3. ASSUME NEW d \in Clients
        PROVE  /\ pc'[d] = "hold" <=> held'[d] # NoTask
               /\ pc'[d] = "hold" => q'.status[held'[d]] = NextOnDequeue(PortOf(d))
    <3>1. CASE d = c
      BY <1>2, <1>4, <1>6, <1>7, <3>1, NoTaskAssumption DEF IInv, TypeOK, Tasks
    <3>2. CASE d # c
      <4>1. pc'[d] = pc[d] /\ held'[d] = held[d]
        BY <1>7, <3>2 DEF IInv, TypeOK
      <4>2. pc[d] = "hold" => q'.status[held[d]] = q.status[held[d]]
        BY <1>2, <1>6, <2>1 DEF IInv, TypeOK, HeldByOne
      <4> QED BY <4>1, <4>2 DEF IInv, HeldByOne
    <3> QED BY <3>1, <3>2
  <2>4. ASSUME NEW d \in Clients, NEW e \in Clients,
               held'[d] = held'[e], held'[d] # NoTask
        PROVE  d = e
    BY <1>7, <2>1, <2>4 DEF IInv, TypeOK, HeldByOne
  <2> QED BY <2>2, <2>3, <2>4 DEF HeldByOne
<1> QED BY <1>6, <1>8, <1>9, <1>10 DEF IInv, NoAssert

(* Waking a client moves it between states without a task. *)
LEMMA SignalledClients ==
    ASSUME TypeOK, NEW c \in Clients, NEW s, NEW pcs \in Signalled(c, s)
    PROVE  /\ pcs \in [Clients -> {"idle", "block", "timed", "woken", "polled", "hold"}]
           /\ pcs[c] # "hold"
           /\ \A d \in Clients \ {c} : pcs[d] = "hold" <=> pc[d] = "hold"
BY DEF TypeOK, Signalled, Waiters

(* The task a client had is appended to the list of the other port. *)
LEMMA EnqueueStep ==
    ASSUME IInv, NEW c \in Clients, EnqueueTask(c)
    PROVE  IInv'
<1> DEFINE t == held[c]
           n == NextOnEnqueue(PortOf(c))
<1>1. n \in PortStatuses /\ n \in Statuses /\ n \notin HoldStatuses
  BY DEF NextOnEnqueue, PortStatuses, HoldStatuses, Statuses
<1>2. /\ q.queue \in [PortStatuses -> Seq(Tasks)]
      /\ q.status \in [Tasks -> Statuses]
      /\ \A r \in PortStatuses : /\ ToSet(q.queue[r]) = {u \in Tasks : q.status[u] = r}
                                 /\ IsInjective(q.queue[r])
  BY DEF IInv, TypeOK, QueueType, ListsMatchStatus
<1>3. /\ pc[c] = "hold" /\ t \in Tasks
      /\ \A r \in PortStatuses : t \notin ToSet(q.queue[r])
      /\ q' = [ queue    |-> [q.queue EXCEPT ![n] = Append(@, t)],
                status   |-> [q.status EXCEPT ![t] = n],
                asserted |-> FALSE ]
  BY EnqueueHeld DEF EnqueueTask
<1>4. /\ Append(q.queue[n], t) \in Seq(Tasks)
      /\ ToSet(Append(q.queue[n], t)) = ToSet(q.queue[n]) \cup {t}
      /\ IsInjective(Append(q.queue[n], t))
  BY <1>1, <1>2, <1>3, AppendToSet
<1>5. /\ held' = [held EXCEPT ![c] = NoTask]
      /\ pc' \in [Clients -> {"idle", "block", "timed", "woken", "polled", "hold"}]
      /\ pc'[c] # "hold"
      /\ \A d \in Clients \ {c} : pc'[d] = "hold" <=> pc[d] = "hold"
  BY SignalledClients DEF EnqueueTask, IInv
<1>6. TypeOK'
  <2>1. q'.queue \in [PortStatuses -> Seq(Tasks)] /\ q'.status \in [Tasks -> Statuses]
    BY <1>1, <1>2, <1>3, <1>4
  <2>2. q' \in QueueType
    BY <1>3, <2>1 DEF QueueType
  <2> QED BY <1>5, <2>2 DEF IInv, TypeOK
<1>7. ListsMatchStatus'
  <2>1. ASSUME NEW r \in PortStatuses, r # n
        PROVE  /\ q'.queue[r] = q.queue[r]
               /\ {u \in Tasks : q'.status[u] = r} = {u \in Tasks : q.status[u] = r}
    BY <1>1, <1>2, <1>3, <2>1
  <2>2. /\ q'.queue[n] = Append(q.queue[n], t)
        /\ {u \in Tasks : q'.status[u] = n} = {u \in Tasks : q.status[u] = n} \cup {t}
    BY <1>1, <1>2, <1>3
  <2> QED BY <1>1, <1>2, <1>4, <2>1, <2>2 DEF ListsMatchStatus
<1>8. HeldByOne'
  <2>1. \A d \in Clients \ {c} : held'[d] = held[d] /\ (held[d] = t => FALSE)
    BY <1>3, <1>5, NoTaskAssumption DEF IInv, TypeOK, HeldByOne, Tasks
  <2>2. held'[c] = NoTask
    BY <1>5 DEF IInv, TypeOK
  <2>3. ASSUME NEW u \in Tasks, q'.status[u] \in HoldStatuses
        PROVE  \E d \in Clients : held'[d] = u
    <3>1. u # t /\ q.status[u] \in HoldStatuses
      BY <1>1, <1>2, <1>3, <2>3
    <3>2. PICK d \in Clients : held[d] = u
      BY <3>1 DEF IInv, HeldByOne
    <3> QED BY <2>1, <3>1, <3>2
  <2>4. ASSUME NEW d \in Clients
        PROVE  /\ pc'[d] = "hold" <=> held'[d] # NoTask
               /\ pc'[d] = "hold" => q'.status[held'[d]] = NextOnDequeue(PortOf(d))
    <3>1. CASE d = c
      BY <1>5, <2>2, <3>1
    <3>2. CASE d # c
      <4>1. pc[d] = "hold" => held[d] \in Tasks /\ q'.status[held[d]] = q.status[held[d]]
        BY <1>2, <1>3, <2>1, <3>2 DEF IInv, TypeOK, HeldByOne
      <4> QED BY <1>5, <2>1, <3>2, <4>1 DEF IInv, HeldByOne
    <3> QED BY <3>1, <3>2
  <2>5. ASSUME NEW d \in Clients, NEW e \in Clients,
               held'[d] = held'[e], held'[d] # NoTask
        PROVE  d = e
    BY <2>1, <2>2, <2>5 DEF IInv, HeldByOne
  <2> QED BY <2>3, <2>4, <2>5 DEF HeldByOne
<1> QED BY <1>3, <1>6, <1>7, <1>8 DEF IInv, NoAssert

(* Every step of a client preserves the invariant. *)
LEMMA NextIInv == IInv /\ [Next]_vars => IInv'
<1> SUFFICES ASSUME IInv, [Next]_vars PROVE IInv'
  OBVIOUS
<1>1. CASE UNCHANGED vars
  BY <1>1 DEF vars, IInv, TypeOK, QueueType, ListsMatchStatus, HeldByOne, NoAssert
<1>2. ASSUME NEW c \in Clients, PollReady(c) PROVE IInv'
  BY <1>2, IdleStep DEF PollReady
<1>3. ASSUME NEW c \in Clients, PollWait(c) PROVE IInv'
  BY <1>3, IdleStep DEF PollWait
<1>4. ASSUME NEW c \in Clients, PollAgain(c) PROVE IInv'
  BY <1>4, IdleStep DEF PollAgain
<1>5. ASSUME NEW c \in Clients, DequeueFails(c) PROVE IInv'
  BY <1>5, IdleStep DEF DequeueFails
<1>6. ASSUME NEW c \in Clients, WaitEnds(c) PROVE IInv'
  BY <1>6, IdleStep DEF WaitEnds
<1> QED BY <1>1, <1>2, <1>3, <1>4, <1>5, <1>6, DequeueStep, EnqueueStep DEF Next, Step

(* The invariant holds in every state. *)
LEMMA InvariantIInv == Spec => []IInv
<1> QED BY InitIInv, NextIInv, PTL DEF Spec

-----------------------------------------------------------------------------
(* Every variable keeps its type, for any number of tasks and clients. *)
THEOREM TypeCorrect == Spec => []TypeOK
BY InvariantIInv, PTL DEF IInv

(* The lists and counts of mpp_task_impl.cpp agree with the status of the  *)
(* tasks, and no task is linked twice.                                     *)
THEOREM ListsCorrect == Spec => []ListsMatchStatus
BY InvariantIInv, PTL DEF IInv

(* A dequeued task belongs to one client until that client enqueues it. *)
THEOREM ExclusiveHold == Spec => []HeldByOne
BY InvariantIInv, PTL DEF IInv

(* The assert of _mpp_port_enqueue on the status of the task never fails   *)
(* for clients that enqueue what they dequeued.                            *)
THEOREM AssertHolds == Spec => []NoAssert
BY InvariantIInv, PTL DEF IInv

-----------------------------------------------------------------------------
(* Signals.  The clients on their way to a port make up for its tasks one  *)
(* by one: the lemmas below follow the two numbers through each action.    *)

WakeupAt(s) == Waiters(s) # {} => Len(q.queue[s]) <= Cardinality(Attentive(s))

(* The clients of a port are counted: there are finitely many. *)
LEMMA AttentiveFinite ==
    ASSUME NEW s
    PROVE  /\ IsFiniteSet(Attentive(s)) /\ Cardinality(Attentive(s)) \in Nat
           /\ IsFiniteSet(Attentive(s)') /\ Cardinality(Attentive(s)') \in Nat
<1>1. IsFiniteSet(Clients)
  BY ClientsAssumption, FS_Union DEF Clients
<1>2. Attentive(s) \subseteq Clients /\ Attentive(s)' \subseteq Clients
  BY DEF Attentive
<1> QED BY <1>1, <1>2, FS_Subset, FS_CardinalityType

(* Where a client that moves is counted. *)
LEMMA ClientMoves ==
    ASSUME TypeOK, NEW c \in Clients, NEW s \in PortStatuses,
           NEW to, pc' = [pc EXCEPT ![c] = to]
    PROVE  /\ Waiters(s)' =
                IF to \in {"block", "timed"} /\ StatusCurr(PortOf(c)) = s
                THEN Waiters(s) \cup {c} ELSE Waiters(s) \ {c}
           /\ Attentive(s)' =
                IF to \in {"woken", "polled"} /\ StatusCurr(PortOf(c)) = s
                THEN Attentive(s) \cup {c} ELSE Attentive(s) \ {c}
<1>1. /\ pc \in [Clients -> {"idle", "block", "timed", "woken", "polled", "hold"}]
      /\ pc'[c] = to /\ \A d \in Clients \ {c} : pc'[d] = pc[d]
  BY DEF TypeOK
<1>2. Waiters(s)' =
        IF to \in {"block", "timed"} /\ StatusCurr(PortOf(c)) = s
        THEN Waiters(s) \cup {c} ELSE Waiters(s) \ {c}
  BY <1>1 DEF Waiters
<1>3. Attentive(s)' =
        IF to \in {"woken", "polled"} /\ StatusCurr(PortOf(c)) = s
        THEN Attentive(s) \cup {c} ELSE Attentive(s) \ {c}
  BY <1>1 DEF Attentive
<1> QED BY <1>2, <1>3

(* A port whose list is empty, or that no new client waits on and no       *)
(* client turns away from, is as well off as before.                       *)
LEMMA WakeupKept ==
    ASSUME TypeOK, NEW s \in PortStatuses, WakeupAt(s),
           \/ q'.queue[s] = <<>>
           \/ /\ q'.queue[s] = q.queue[s]
              /\ Waiters(s)' \subseteq Waiters(s)
              /\ Attentive(s) \subseteq Attentive(s)'
    PROVE  WakeupAt(s)'
<1>1. /\ Cardinality(Attentive(s)) \in Nat /\ Cardinality(Attentive(s)') \in Nat
      /\ IsFiniteSet(Attentive(s)')
  BY AttentiveFinite
<1>2. CASE q'.queue[s] = <<>>
  <2>1. Len(q'.queue[s]) = 0
    BY <1>2
  <2> QED BY <1>1, <2>1 DEF WakeupAt
<1>3. CASE /\ q'.queue[s] = q.queue[s]
           /\ Waiters(s)' \subseteq Waiters(s)
           /\ Attentive(s) \subseteq Attentive(s)'
  <2>1. Cardinality(Attentive(s)) <= Cardinality(Attentive(s)')
    BY <1>1, <1>3, FS_Subset
  <2>2. Len(q.queue[s]) \in Nat
    BY DEF TypeOK, QueueType
  <2>3. Waiters(s)' # {} => Len(q.queue[s]) <= Cardinality(Attentive(s))
    BY <1>3 DEF WakeupAt
  <2> QED BY <1>1, <1>3, <2>1, <2>2, <2>3 DEF WakeupAt
<1> QED BY <1>2, <1>3

(* A poll, or the end of a wait: who stops looking found the list empty.   *)
LEMMA WakeupPoll ==
    ASSUME TypeOK, NoLostWakeup, NEW c \in Clients,
           \/ PollReady(c) \/ PollWait(c) \/ PollAgain(c)
           \/ DequeueFails(c) \/ WaitEnds(c)
    PROVE  NoLostWakeup'
<1> SUFFICES ASSUME NEW s \in PortStatuses PROVE WakeupAt(s)'
  BY DEF NoLostWakeup, WakeupAt
<1> DEFINE mine == StatusCurr(PortOf(c)) = s
<1>1. q' = q /\ WakeupAt(s)
  BY DEF NoLostWakeup, WakeupAt, PollReady, PollWait, PollAgain, DequeueFails, WaitEnds
<1>2. PICK to \in {"idle", "block", "timed", "woken", "polled"} :
        /\ pc' = [pc EXCEPT ![c] = to]
        /\ to \in {"block", "timed"} => ~HasTask(q, PortOf(c))
        /\ pc[c] \in {"woken", "polled"} /\ to \notin {"woken", "polled"}
             => ~HasTask(q, PortOf(c))
  BY DEF PollReady, PollWait, PollAgain, DequeueFails, WaitEnds
<1>3. mine /\ ~HasTask(q, PortOf(c)) => q'.queue[s] = <<>>
  BY <1>1 DEF HasTask, Queued
<1>4. /\ Waiters(s)' = IF to \in {"block", "timed"} /\ mine
                       THEN Waiters(s) \cup {c} ELSE Waiters(s) \ {c}
      /\ Attentive(s)' = IF to \in {"woken", "polled"} /\ mine
                         THEN Attentive(s) \cup {c} ELSE Attentive(s) \ {c}
  BY <1>2, ClientMoves
<1>5. c \in Attentive(s) => mine /\ pc[c] \in {"woken", "polled"}
  BY DEF Attentive
<1>6. \/ q'.queue[s] = <<>>
      \/ /\ q'.queue[s] = q.queue[s]
         /\ Waiters(s)' \subseteq Waiters(s)
         /\ Attentive(s) \subseteq Attentive(s)'
  BY <1>1, <1>2, <1>3, <1>4, <1>5
<1> QED BY <1>1, <1>6, WakeupKept

(* A dequeue takes one task and one of the clients that look for it. *)
LEMMA WakeupDequeue ==
    ASSUME TypeOK, NoLostWakeup, NEW c \in Clients, DequeueTask(c)
    PROVE  NoLostWakeup'
<1> SUFFICES ASSUME NEW s \in PortStatuses PROVE WakeupAt(s)'
  BY DEF NoLostWakeup, WakeupAt
<1> DEFINE r == StatusCurr(PortOf(c))
<1>1. WakeupAt(s) /\ r \in PortStatuses
  BY DEF NoLostWakeup, WakeupAt, StatusCurr, PortStatuses
<1>2. /\ pc[c] = "polled" /\ q.queue[r] # <<>>
      /\ q'.queue = [q.queue EXCEPT ![r] = Tail(@)]
      /\ q.queue \in [PortStatuses -> Seq(Tasks)]
      /\ pc' = [pc EXCEPT ![c] = "hold"]
  BY DEF DequeueTask, HasTask, Queued, PortDequeue, TypeOK, QueueType
<1>3. Waiters(s)' = Waiters(s) \ {c} /\ Attentive(s)' = Attentive(s) \ {c}
  BY <1>2, ClientMoves
<1>4. CASE s # r
  <2>1. c \notin Attentive(s) /\ q'.queue[s] = q.queue[s]
    BY <1>1, <1>2, <1>4 DEF Attentive
  <2> QED BY <1>1, <1>3, <2>1, WakeupKept
<1>5. CASE s = r
  <2>1. c \in Attentive(s)
    BY <1>2, <1>5 DEF Attentive
  <2>2. Cardinality(Attentive(s)') = Cardinality(Attentive(s)) - 1
    BY <1>3, <2>1, AttentiveFinite, FS_RemoveElement
  <2>3. q.queue[s] \in Seq(Tasks) /\ q.queue[s] # <<>> /\ q'.queue[s] = Tail(q.queue[s])
    BY <1>1, <1>2, <1>5
  <2>4. Len(q'.queue[s]) = Len(q.queue[s]) - 1 /\ Len(q.queue[s]) \in Nat
    BY <2>3
  <2>5. Waiters(s)' # {} => Len(q.queue[s]) <= Cardinality(Attentive(s))
    BY <1>1, <1>3 DEF WakeupAt
  <2>6. Cardinality(Attentive(s)) \in Nat
    BY AttentiveFinite
  <2> QED BY <2>2, <2>4, <2>5, <2>6 DEF WakeupAt
<1> QED BY <1>4, <1>5

(* An enqueue adds one task and, if anybody waits for it, wakes one. *)
LEMMA WakeupEnqueue ==
    ASSUME IInv, NoLostWakeup, NEW c \in Clients, EnqueueTask(c)
    PROVE  NoLostWakeup'
<1> SUFFICES ASSUME NEW s \in PortStatuses PROVE WakeupAt(s)'
  BY DEF NoLostWakeup, WakeupAt
<1> DEFINE n == NextOnEnqueue(PortOf(c))
           t == held[c]
<1>1. WakeupAt(s) /\ n \in PortStatuses /\ TypeOK
  BY DEF NoLostWakeup, WakeupAt, NextOnEnqueue, PortStatuses, IInv
<1>2. pc[c] = "hold" /\ pc' \in Signalled(c, n)
  BY DEF EnqueueTask
<1>3. t \in Tasks /\ q'.queue = [q.queue EXCEPT ![n] = Append(@, t)]
  <2>1. /\ t \in Tasks
        /\ PortEnqueue(q, PortOf(c), t) =
             [ queue    |-> [q.queue EXCEPT ![n] = Append(@, t)],
               status   |-> [q.status EXCEPT ![t] = n],
               asserted |-> FALSE ]
    BY <1>2, EnqueueHeld
  <2>2. q' = PortEnqueue(q, PortOf(c), t)
    BY DEF EnqueueTask
  <2> QED BY <2>1, <2>2
<1>4. /\ q.queue \in [PortStatuses -> Seq(Tasks)]
      /\ pc \in [Clients -> {"idle", "block", "timed", "woken", "polled", "hold"}]
  BY <1>1 DEF TypeOK, QueueType
<1>5. c \notin Waiters(s) /\ c \notin Attentive(s)
  BY <1>2 DEF Waiters, Attentive
<1>6. CASE Waiters(n) = {}
  <2>1. pc' = [pc EXCEPT ![c] = "idle"]
    BY <1>2, <1>6 DEF Signalled
  <2>2. Waiters(s)' = Waiters(s) /\ Attentive(s)' = Attentive(s)
    <3>1. pc'[c] = "idle" /\ \A d \in Clients \ {c} : pc'[d] = pc[d]
      BY <1>4, <2>1
    <3> QED BY <1>2, <3>1 DEF Waiters, Attentive
  <2>3. CASE s = n
    BY <1>6, <2>2, <2>3 DEF WakeupAt
  <2>4. CASE s # n
    <3>1. q'.queue[s] = q.queue[s]
      BY <1>3, <1>4, <2>4
    <3> QED BY <1>1, <2>2, <3>1, WakeupKept
  <2> QED BY <2>3, <2>4
<1>7. CASE Waiters(n) # {}
  <2>1. PICK w \in Waiters(n) : pc' = [pc EXCEPT ![c] = "idle", ![w] = "woken"]
    BY <1>2, <1>7 DEF Signalled
  <2>2. w \in Clients /\ StatusCurr(PortOf(w)) = n /\ pc[w] \in {"block", "timed"}
    BY <2>1 DEF Waiters
  <2>3. w # c
    BY <1>2, <2>2
  <2>4. /\ pc'[w] = "woken" /\ pc'[c] = "idle"
        /\ \A d \in Clients : d # c /\ d # w => pc'[d] = pc[d]
    BY <1>4, <2>1, <2>2, <2>3
  <2>5. Waiters(s)' \subseteq Waiters(s)
    BY <2>4 DEF Waiters
  <2>6. Attentive(s)' = IF s = n THEN Attentive(s) \cup {w} ELSE Attentive(s)
    BY <1>2, <2>2, <2>4 DEF Attentive
  <2>7. CASE s # n
    <3>1. q'.queue[s] = q.queue[s]
      BY <1>3, <1>4, <2>7
    <3>2. Attentive(s) \subseteq Attentive(s)'
      BY <2>6, <2>7
    <3> QED BY <1>1, <2>5, <3>1, <3>2, WakeupKept
  <2>8. CASE s = n
    <3>1. w \notin Attentive(s)
      BY <2>2 DEF Attentive
    <3>2. Attentive(s)' = Attentive(s) \cup {w}
      BY <2>6, <2>8
    <3>3. Cardinality(Attentive(s)') = Cardinality(Attentive(s)) + 1
      BY <3>1, <3>2, AttentiveFinite, FS_AddElement
    <3>4. q.queue[s] \in Seq(Tasks) /\ q'.queue[s] = Append(q.queue[s], t)
      BY <1>3, <1>4, <2>8
    <3>5. Len(q'.queue[s]) = Len(q.queue[s]) + 1 /\ Len(q.queue[s]) \in Nat
      BY <1>3, <3>4
    <3>6. Len(q.queue[s]) <= Cardinality(Attentive(s))
      BY <1>1, <1>7, <2>8 DEF WakeupAt
    <3>7. Cardinality(Attentive(s)) \in Nat
      BY AttentiveFinite
    <3> QED BY <3>3, <3>5, <3>6, <3>7 DEF WakeupAt
  <2> QED BY <2>7, <2>8
<1> QED BY <1>6, <1>7

(* Nobody waits at first. *)
LEMMA InitWakeup == Init => NoLostWakeup
BY DEF Init, NoLostWakeup, Waiters

(* No step loses a signal. *)
LEMMA NextWakeup == IInv /\ NoLostWakeup /\ [Next]_vars => NoLostWakeup'
<1> SUFFICES ASSUME IInv, NoLostWakeup, [Next]_vars PROVE NoLostWakeup'
  OBVIOUS
<1>1. CASE UNCHANGED vars
  BY <1>1 DEF vars, NoLostWakeup, Waiters, Attentive
<1>2. ASSUME NEW c \in Clients,
             \/ PollReady(c) \/ PollWait(c) \/ PollAgain(c)
             \/ DequeueFails(c) \/ WaitEnds(c)
      PROVE  NoLostWakeup'
  BY <1>2, WakeupPoll DEF IInv
<1>3. ASSUME NEW c \in Clients, DequeueTask(c) PROVE NoLostWakeup'
  BY <1>3, WakeupDequeue DEF IInv
<1>4. ASSUME NEW c \in Clients, EnqueueTask(c) PROVE NoLostWakeup'
  BY <1>4, WakeupEnqueue
<1> QED BY <1>1, <1>2, <1>3, <1>4 DEF Next, Step

(* No signal is lost, for any number of tasks and clients: while a client  *)
(* waits in _mpp_port_poll, as many others are on their way to the list of *)
(* its port as there are tasks in it.                                      *)
THEOREM SignalNotLost == Spec => []NoLostWakeup
<1> QED BY InitWakeup, NextWakeup, InvariantIInv, PTL DEF Spec

-----------------------------------------------------------------------------
(* The refinement: poll and the waits are stutters of the ring, a dequeue  *)
(* takes the oldest task, an enqueue gives the held one to the other side. *)
LEMMA StepRefines == IInv /\ [Next]_vars => [Ring!RingNext]_Ring!ringVars
<1> SUFFICES ASSUME IInv, [Next]_vars
             PROVE  Ring!RingNext \/ UNCHANGED Ring!ringVars
  OBVIOUS
<1>1. CASE q' = q
  BY <1>1 DEF Ring!ringVars
<1>2. ASSUME NEW c \in Clients, DequeueTask(c) PROVE Ring!RingNext
  <2> DEFINE s == StatusCurr(PortOf(c))
             t == Head(q.queue[s])
  <2>1. /\ q.queue \in [PortStatuses -> Seq(Tasks)]
        /\ q.status \in [Tasks -> Statuses]
        /\ \A r \in PortStatuses : /\ ToSet(q.queue[r]) = {u \in Tasks : q.status[u] = r}
                                   /\ IsInjective(q.queue[r])
    BY DEF IInv, TypeOK, QueueType, ListsMatchStatus
  <2>2. s \in PortStatuses
    BY DEF StatusCurr, PortStatuses
  <2>3. q.queue[s] # <<>> /\ q.queue[s] \in Seq(Tasks)
    BY <1>2, <2>1, <2>2 DEF DequeueTask, HasTask, Queued
  <2>4. t \in Tasks /\ t \in ToSet(q.queue[s])
    BY <2>1, <2>2, <2>3, TailToSet
  <2>5. /\ q'.queue = [q.queue EXCEPT ![s] = Tail(q.queue[s])]
        /\ q'.status = [q.status EXCEPT ![t] = NextOnDequeue(PortOf(c))]
    BY <1>2 DEF DequeueTask, PortDequeue, NextTask, Queued, IInv, TypeOK, QueueType
  <2>6. CASE PortOf(c) = "INPUT"
    <3>1. s = "INPUT_PORT" /\ NextOnDequeue(PortOf(c)) = "INPUT_HOLD"
      BY <2>6 DEF StatusCurr, NextOnDequeue
    <3>2. Ring!TakeIdle
      BY <2>1, <2>2, <2>3, <2>4, <2>5, <3>1 DEF Ring!TakeIdle, PortStatuses
    <3> QED BY <3>2 DEF Ring!RingNext
  <2>7. CASE PortOf(c) = "OUTPUT"
    <3>1. s = "OUTPUT_PORT" /\ NextOnDequeue(PortOf(c)) = "OUTPUT_HOLD"
      BY <2>7 DEF StatusCurr, NextOnDequeue
    <3>2. Ring!TakeFilled
      BY <2>1, <2>2, <2>3, <2>4, <2>5, <3>1 DEF Ring!TakeFilled, PortStatuses
    <3> QED BY <3>2 DEF Ring!RingNext
  <2> QED BY <2>6, <2>7 DEF PortOf
<1>3. ASSUME NEW c \in Clients, EnqueueTask(c) PROVE Ring!RingNext
  <2> DEFINE n == NextOnEnqueue(PortOf(c))
  <2>0. PICK u \in Tasks : u = held[c]
    BY <1>3, EnqueueHeld DEF EnqueueTask
  <2>1. /\ q.queue \in [PortStatuses -> Seq(Tasks)]
        /\ q.status \in [Tasks -> Statuses]
    BY DEF IInv, TypeOK, QueueType
  <2>2. /\ pc[c] = "hold" /\ u \in Tasks
        /\ q' = [ queue    |-> [q.queue EXCEPT ![n] = Append(@, u)],
                  status   |-> [q.status EXCEPT ![u] = n],
                  asserted |-> FALSE ]
    BY <1>3, <2>0, EnqueueHeld DEF EnqueueTask
  <2>3. /\ q'.queue = [q.queue EXCEPT ![n] = Append(@, u)]
        /\ q'.status = [q.status EXCEPT ![u] = n]
    BY <2>2
  <2>4. q.status[u] = NextOnDequeue(PortOf(c))
    BY <2>0, <2>2 DEF IInv, HeldByOne
  <2>5. CASE PortOf(c) = "INPUT"
    <3>1. n = "OUTPUT_PORT" /\ q.status[u] = "INPUT_HOLD"
      BY <2>4, <2>5 DEF NextOnEnqueue, NextOnDequeue
    <3>2. Ring!GiveFilled(u)
      BY <2>1, <2>2, <2>3, <3>1 DEF Ring!GiveFilled, PortStatuses
    <3> QED BY <2>2, <3>2 DEF Ring!RingNext, Tasks
  <2>6. CASE PortOf(c) = "OUTPUT"
    <3>1. n = "INPUT_PORT" /\ q.status[u] = "OUTPUT_HOLD"
      BY <2>4, <2>6 DEF NextOnEnqueue, NextOnDequeue
    <3>2. Ring!GiveBack(u)
      BY <2>1, <2>2, <2>3, <3>1 DEF Ring!GiveBack, PortStatuses
    <3> QED BY <2>2, <3>2 DEF Ring!RingNext, Tasks
  <2> QED BY <2>5, <2>6 DEF PortOf
<1>4. (\E c \in Clients : DequeueTask(c) \/ EnqueueTask(c)) \/ q' = q
  BY DEF Next, Step, vars, PollReady, PollWait, PollAgain, DequeueFails, WaitEnds
<1> QED BY <1>1, <1>2, <1>3, <1>4

(* An idle queue is an idle ring. *)
LEMMA InitRefines == Init => Ring!RingInit
<1> SUFFICES ASSUME Init PROVE Ring!RingInit
  OBVIOUS
<1>1. /\ q.queue["INPUT_PORT"] = [i \in 1 .. TaskCount |-> i]
      /\ q.queue["OUTPUT_PORT"] = <<>>
  BY DEF Init, QueueSetup, PortStatuses
<1>2. q.status = [t \in 1 .. TaskCount |-> "INPUT_PORT"]
  BY DEF Init, QueueSetup
<1> QED BY <1>1, <1>2 DEF Ring!RingInit, Tasks

(* The queue and its clients implement TaskRing: tasks go round in order,  *)
(* each in one place at a time.                                            *)
THEOREM Refinement == Spec => ImplementsRing
<1> QED BY InitRefines, StepRefines, InvariantIInv, PTL
        DEF Spec, ImplementsRing, Ring!RingSafety
=============================================================================
