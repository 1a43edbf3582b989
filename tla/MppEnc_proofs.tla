---------------------------- MODULE MppEnc_proofs ---------------------------
(***************************************************************************)
(* Theorems about MppEnc, for any number of tasks, any set of modes and    *)
(* any bounds: the inductive invariant IInv, and the safety properties of  *)
(* its runs.                                                               *)
(*                                                                         *)
(* The first part is about what each step does to the queues, to what the  *)
(* tasks carry and to the encoder thread.  A dequeue or an enqueue is      *)
(* described by what it leaves in the queue (InTaken to OutGiven), so that *)
(* the second part does not look into a queue.                             *)
(*                                                                         *)
(* In the second part, each part of IInv has one lemma Next...; the parts  *)
(* build on one another in this order:                                     *)
(*                                                                         *)
(*   Base, ClearInv         types, tasks and queues; the end of a context  *)
(*   ResetInv, ControlInv   the two handshakes with the encoder thread     *)
(*   RdyInv .. EventsInv    what it waits for, and what it is told         *)
(*   HoldersInv, FramesInv  where tasks and frames are                     *)
(*   ReadyInv, RegularInv   the tasks the threads count on are there       *)
(*   OrderInv               the numbers from the last packet got to the    *)
(*                          last frame put                                 *)
(***************************************************************************)
EXTENDS MppEnc, QueueLemmas

(* The types. *)
EncPcs ==
    {"loop", "wait", "control", "control_post", "control_done", "reset",
     "reset_done", "poll_in", "poll_out", "take", "return_empty", "encode",
     "take_out", "take_packet", "send", "return", "drain_in", "drain_out",
     "exited", "crashed"}

EncType ==
    [ pc : EncPcs, rdy : SUBSET {"in", "out"},
      wait : SUBSET {"FRAME_ENQUEUE", "PACKET_ENQUEUE"},
      task_in : Tasks \cup {None}, task_out : Tasks \cup {None},
      work : Frames \cup {None} ]

CtrlType ==
    [ thread : {"RUNNING", "WAITING", "STOPPING"},
      status_flag : SUBSET {"FRAME_ENQUEUE", "PACKET_ENQUEUE"},
      notify_flag : SUBSET Reset,
      reset_flag : BOOLEAN, enc_reset : Nat, locked : BOOLEAN ]

CmdType ==
    [ cmd : Commands \cup {"none"}, cmd_send : Nat, cmd_recv : Nat,
      enc_ctrl : Nat, hdr_need_updated : BOOLEAN, done : Nat ]

PutType ==
    [ pc : {"idle", "poll_idle", "take_idle", "took_idle", "fill", "enqueue",
            "notify", "poll_done", "take_done", "took_done", "free"},
      poll : {"no", "waiting", "woken"}, mInputTask : Tasks \cup {None} ]

GetType ==
    [ pc : {"idle", "poll", "take", "took", "enqueue", "notify"},
      poll : {"no", "waiting", "woken"}, task : Tasks \cup {None} ]

TypeOK ==
    /\ mode \in Modes
    /\ inq \in QueuesOf(Tasks) /\ outq \in QueuesOf(Tasks)
    /\ frame \in [Tasks -> Frames \cup {None}]
    /\ packet \in [Tasks -> Frames \cup {None}]
    /\ enc \in EncType /\ ctrl \in CtrlType /\ cmd \in CmdType
    /\ put \in PutType /\ get \in GetType
    /\ ctl \in {"idle", "notify", "sem_wait"}
    /\ rst \in {"idle", "notify", "unlock", "sem_wait"}
    /\ clr \in {"idle", "join", "done"}
    /\ count \in 0 .. MaxFrames /\ resets \in Nat
    /\ freed \in SUBSET Frames /\ got \in Seq(Frames \cup {None})

(* The encoder has a task of the input queue, of the output queue.         *)
HoldsIn ==
    \/ enc.pc \in {"return_empty", "take_packet", "encode", "return"}
    \/ mode.version = "v2" /\ enc.pc = "send"
HoldsOut ==
    \/ enc.pc = "send"
    \/ mode.version = "v2" /\ enc.pc = "encode"

(* Who takes a task without asking again has found the port not empty, and *)
(* who uses a task has one.                                                *)
PutTasks ==
    /\ put.pc \in {"take_idle", "take_done"} => HasTask(inq, "INPUT")
    /\ put.pc \notin {"idle", "poll_idle", "take_idle"} => put.mInputTask \in Tasks
    /\ put.poll # "no" => put.pc \in {"poll_idle", "poll_done"}
    /\ put.pc \in {"poll_idle", "take_idle", "took_idle", "fill"} => count < MaxFrames

GetTasks ==
    /\ get.pc = "take" => HasTask(outq, "OUTPUT")
    /\ get.pc \in {"took", "enqueue"} => get.task \in Tasks
    /\ get.poll # "no" <=> get.pc = "poll"

EncTasks ==
    /\ HoldsIn => enc.task_in \in Tasks
    /\ HoldsOut => enc.task_out \in Tasks
    /\ enc.pc \in {"return_empty", "take_out"} => mode.version = "v1"
    /\ enc.pc \in {"control", "control_post", "control_done", "take_packet", "return"}
         => mode.version = "v2"

TasksInv == PutTasks /\ GetTasks /\ EncTasks

(* The lists of a queue and the statuses of its tasks agree.               *)
LinksInv == Linked(inq, Tasks) /\ Linked(outq, Tasks)

(* clear finds the other calls over; the thread ends only when it is told  *)
(* to, and leaves no port on the user side full.                           *)
ClearInv ==
    /\ clr # "idle" => put.pc = "idle" /\ get.pc = "idle" /\ rst = "idle" /\ ctl = "idle"
    /\ ctrl.thread = "STOPPING" <=> clr # "idle"
    /\ ctrl.thread = "WAITING" <=> enc.pc = "wait"
    /\ enc.pc \in {"drain_in", "drain_out", "exited"} => clr # "idle"
    /\ enc.pc \in {"drain_out", "exited"} => ~HasTask(inq, "OUTPUT")
    /\ enc.pc = "exited" => ~HasTask(outq, "OUTPUT")
    /\ clr = "done" => enc.pc = "exited"

(* Before the encoder has found both tasks, and while it works on them.    *)
Polling == {"loop", "wait", "control", "control_post", "control_done",
            "reset", "reset_done", "poll_in"}
Working == {"take", "return_empty", "encode", "take_out", "take_packet", "send", "return"}

(* What every other part is proved from.                                   *)
Base == TypeOK /\ TasksInv /\ LinksInv

-----------------------------------------------------------------------------
(* What the assumptions say of the constants.                              *)
LEMMA Constants == /\ mode \in Modes => mode \in ModeType
                   /\ None \notin Tasks /\ None \notin Frames
                   /\ TaskCount \in Nat /\ MaxFrames \in Nat
<1>1. TaskCount \in Nat /\ MaxFrames \in Nat
  BY TaskCountAssumption, BoundAssumption
<1> QED BY <1>1, ModesAssumption, NoneAssumption DEF Tasks, Frames

-----------------------------------------------------------------------------
(* mpp_enc_notify records the events, and moves a thread that sleeps.      *)
LEMMA NotifyFacts ==
    ASSUME TypeOK, NEW flag \in SUBSET Reset, Notify(flag)
    PROVE  /\ enc' \in EncType /\ ctrl' \in CtrlType
           /\ enc'.rdy = enc.rdy /\ enc'.wait = enc.wait /\ enc'.work = enc.work
           /\ enc'.task_in = enc.task_in /\ enc'.task_out = enc.task_out
           /\ ctrl'.notify_flag = ctrl.notify_flag \cup flag
           /\ ctrl'.status_flag = ctrl.status_flag /\ ctrl'.locked = ctrl.locked
           /\ ctrl'.reset_flag = ctrl.reset_flag /\ ctrl'.enc_reset = ctrl.enc_reset
           /\ IF Signals(flag) /\ enc.pc = "wait"
              THEN /\ enc'.pc = AfterWait
                   /\ ctrl'.thread = IF ctrl.thread = "WAITING" THEN "RUNNING"
                                                               ELSE ctrl.thread
              ELSE enc'.pc = enc.pc /\ ctrl'.thread = ctrl.thread
<1>1. enc \in EncType /\ ctrl \in CtrlType /\ AfterWait \in EncPcs
  BY DEF TypeOK, AfterWait, EncPcs
<1> DEFINE c == [ctrl EXCEPT !.notify_flag = @ \cup flag]
<1>2. /\ c \in CtrlType
      /\ c.notify_flag = ctrl.notify_flag \cup flag
      /\ c.status_flag = ctrl.status_flag /\ c.locked = ctrl.locked
      /\ c.reset_flag = ctrl.reset_flag /\ c.enc_reset = ctrl.enc_reset
      /\ c.thread = ctrl.thread
  BY <1>1 DEF CtrlType
<1>3. IF Signals(flag) THEN WakeEnc(c) ELSE ctrl' = c /\ UNCHANGED enc
  BY DEF Notify
<1> HIDE DEF c
<1> QED BY <1>1, <1>2, <1>3 DEF WakeEnc, EncType, CtrlType

(* The steps of the encoder thread that leave the queues alone. *)
EncTurn ==
    \/ EncCheck \/ EncNoControl \/ EncControl \/ EncControlPost \/ EncControlDone
    \/ EncNoReset \/ EncReset \/ EncResetDone \/ EncPollIn \/ EncPollOut
    \/ EncStopping

(* A step of the encoder without tasks keeps Base.                         *)
LEMMA BaseTurn ==
    ASSUME Base, EncTurn
    PROVE  Base'
<1> SUFFICES /\ enc' \in EncType /\ ctrl' \in CtrlType /\ cmd' \in CmdType
             /\ enc'.pc \notin {"return_empty", "take_packet", "encode",
                               "return", "send", "take_out"}
             /\ enc'.pc \in {"control", "control_post", "control_done"}
                  => mode.version = "v2"
  <2>1. UNCHANGED <<queues, encRest>>
    BY DEF EncTurn, EncCheck, EncNoControl, EncControl, EncControlPost,
           EncControlDone, EncNoReset, EncReset, EncResetDone, EncPollIn,
           EncPollOut, EncStopping, encRest, queues
  <2>2. ASSUME /\ enc' \in EncType /\ ctrl' \in CtrlType /\ cmd' \in CmdType
               /\ enc'.pc \notin {"return_empty", "take_packet", "encode",
                                 "return", "send", "take_out"}
               /\ enc'.pc \in {"control", "control_post", "control_done"}
                    => mode.version = "v2"
        PROVE  Base'
    BY <2>1, <2>2 DEF Base, TypeOK, TasksInv, PutTasks, GetTasks, EncTasks, LinksInv,
                      HoldsIn, HoldsOut, encRest, queues
  <2> QED BY <2>2
<1> USE DEF EncType, EncPcs, CtrlType, CmdType
<1>0. /\ enc \in EncType /\ ctrl \in CtrlType /\ cmd \in CmdType
      /\ enc.pc \in {"control", "control_post", "control_done"} => mode.version = "v2"
  BY DEF Base, TypeOK, TasksInv, PutTasks, GetTasks, EncTasks
<1>1. CASE EncCheck
  BY <1>0, <1>1 DEF EncCheck, AfterWait
<1>2. CASE EncNoControl
  BY <1>0, <1>2 DEF EncNoControl
<1>3. CASE EncControl
  <2>1. enc' \in EncType /\ enc'.pc = "control_post" /\ ctrl' = ctrl
    BY <1>0, <1>3 DEF EncControl
  <2>2. cmd' \in CmdType
    <3>1. PICK h \in BOOLEAN :
             cmd' = [cmd EXCEPT !.done = @ + 1, !.hdr_need_updated = h]
      BY <1>0, <1>3 DEF EncControl
    <3>2. cmd.done + 1 \in Nat
      BY <1>0
    <3> QED BY <1>0, <3>1, <3>2
  <2>3. mode.version = "v2"
    BY <1>0, <1>3 DEF EncControl
  <2> QED BY <1>0, <2>1, <2>2, <2>3
<1>4. CASE EncControlPost
  BY <1>0, <1>4 DEF EncControlPost
<1>5. CASE EncControlDone
  BY <1>0, <1>5 DEF EncControlDone
<1>6. CASE EncNoReset
  BY <1>0, <1>6 DEF EncNoReset
<1>7. CASE EncReset
  BY <1>0, <1>7 DEF EncReset
<1>8. CASE EncResetDone
  <2>1. enc' \in EncType /\ enc'.pc = "loop" /\ cmd' = cmd
    BY <1>0, <1>8 DEF EncResetDone
  <2>2. ctrl' = [ctrl EXCEPT !.reset_flag = FALSE, !.enc_reset = ctrl.enc_reset + 1]
    BY <1>0, <1>8 DEF EncResetDone
  <2>3. ctrl.enc_reset + 1 \in Nat
    BY <1>0
  <2>4. ctrl' \in CtrlType
    BY <1>0, <2>2, <2>3
  <2> QED BY <1>0, <2>1, <2>4
<1>9. CASE EncPollIn
  BY <1>0, <1>9 DEF EncPollIn
<1>10. CASE EncPollOut
  BY <1>0, <1>10 DEF EncPollOut
<1>11. CASE EncStopping
  BY <1>0, <1>11 DEF EncStopping
<1> QED BY <1>1, <1>2, <1>3, <1>4, <1>5, <1>6, <1>7, <1>8, <1>9, <1>10, <1>11 DEF EncTurn

(* release_task_in_port: the oldest task of the output side goes back. *)
LEMMA ReleasedFacts ==
    ASSUME NEW q \in QueuesOf(Tasks), Linked(q, Tasks), HasTask(q, "OUTPUT")
    PROVE  LET t == NextTask(q, "OUTPUT")
           IN  /\ t \in Tasks /\ t = Head(q.queue["OUTPUT_PORT"])
               /\ q.status[t] = "OUTPUT_PORT"
               /\ Released(q) \in QueuesOf(Tasks) /\ Linked(Released(q), Tasks)
               /\ ~q.asserted => ~Released(q).asserted
               /\ Released(q).status[t] = "INPUT_PORT"
               /\ \A u \in Tasks \ {t} : Released(q).status[u] = q.status[u]
               /\ Released(q).queue["INPUT_PORT"] # <<>>
<1> DEFINE t == NextTask(q, "OUTPUT")
           d == PortDequeue(q, "OUTPUT")
           r == PortEnqueue(d, "OUTPUT", t)
<1>1. /\ t \in Tasks /\ t = Head(q.queue["OUTPUT_PORT"])
      /\ q.status[t] = "OUTPUT_PORT"
      /\ d \in QueuesOf(Tasks) /\ Linked(d, Tasks) /\ d.asserted = q.asserted
      /\ d.status = [q.status EXCEPT ![t] = "OUTPUT_HOLD"]
  <2> HIDE DEF t, d
  <2> QED BY OutputDequeue DEF t, d
<1> HIDE DEF t, d
<1>2. /\ r \in QueuesOf(Tasks) /\ Linked(r, Tasks)
      /\ r.queue["INPUT_PORT"] # <<>>
      /\ r.status[t] = "INPUT_PORT"
      /\ \A u \in Tasks \ {t} : r.status[u] = d.status[u]
      /\ ~d.asserted /\ d.status[t] = "OUTPUT_HOLD" => ~r.asserted
  <2> DEFINE p == PortEnqueue(d, "OUTPUT", t)
  <2>1. d \in QueuesOf(Tasks) /\ Linked(d, Tasks) /\ t \in Tasks
    BY <1>1
  <2>2. /\ p \in QueuesOf(Tasks) /\ Linked(p, Tasks)
        /\ p.queue["INPUT_PORT"] # <<>>
        /\ p.status[t] = "INPUT_PORT"
        /\ \A u \in Tasks \ {t} : p.status[u] = d.status[u]
        /\ ~d.asserted /\ d.status[t] = "OUTPUT_HOLD" => ~p.asserted
    BY <2>1, OutputEnqueue
  <2> QED BY <2>2
<1>3. /\ d.status[t] = "OUTPUT_HOLD" /\ q.status \in [Tasks -> Statuses]
      /\ d.asserted \in BOOLEAN
  BY <1>1 DEF QueuesOf
<1> HIDE DEF r
<1>4. (\A u \in Tasks \ {t} : r.status[u] = q.status[u]) /\ (~q.asserted => ~r.asserted)
  BY <1>1, <1>2, <1>3
<1>5. Released(q) = r
  BY DEF Released, r, d, t
<1> QED BY <1>1, <1>2, <1>4, <1>5 DEF t

(* A step of the encoder thread with tasks: what it leaves in the queues   *)
(* and in its locals decides.                                              *)
LEMMA BaseTasks ==
    ASSUME Base,
           UNCHANGED <<mode, ctl, rst, clr, count, resets, freed, got, ctrl>>,
           inq' \in QueuesOf(Tasks) /\ Linked(inq', Tasks),
           outq' \in QueuesOf(Tasks) /\ Linked(outq', Tasks),
           HasTask(inq, "INPUT") => HasTask(inq', "INPUT"),
           HasTask(outq, "OUTPUT") /\ get.pc = "take" => HasTask(outq', "OUTPUT"),
           frame' \in [Tasks -> Frames \cup {None}],
           packet' \in [Tasks -> Frames \cup {None}],
           enc' \in EncType, cmd' \in CmdType,
           HoldsIn' => enc'.task_in \in Tasks,
           HoldsOut' => enc'.task_out \in Tasks,
           enc'.pc \in {"return_empty", "take_out"} => mode.version = "v1",
           enc'.pc \in {"control", "control_post", "control_done",
                        "take_packet", "return"} => mode.version = "v2",
           put' \in {put, Signalled(put)}, get' \in {get, Signalled(get)}
    PROVE  Base'
<1>1. /\ put' \in PutType /\ put'.pc = put.pc /\ put'.mInputTask = put.mInputTask
      /\ put'.poll # "no" <=> put.poll # "no"
  BY DEF Base, TypeOK, PutType, Signalled
<1>2. /\ get' \in GetType /\ get'.pc = get.pc /\ get'.task = get.task
      /\ get'.poll # "no" <=> get.poll # "no"
  BY DEF Base, TypeOK, GetType, Signalled
<1>3. TypeOK'
  BY <1>1, <1>2 DEF Base, TypeOK
<1>4. TasksInv'
  BY <1>1, <1>2 DEF Base, TasksInv, PutTasks, GetTasks, EncTasks
<1> QED BY <1>3, <1>4 DEF Base, LinksInv

(* Every step of the encoder keeps Base.                                   *)
LEMMA BaseEncoder ==
    ASSUME Base, ClearInv, Encoder
    PROVE  Base'
<1> USE Constants
<1>0. /\ enc \in EncType /\ cmd \in CmdType /\ mode.version \in {"v1", "v2"}
      /\ inq \in QueuesOf(Tasks) /\ Linked(inq, Tasks)
      /\ outq \in QueuesOf(Tasks) /\ Linked(outq, Tasks)
      /\ frame \in [Tasks -> Frames \cup {None}]
      /\ packet \in [Tasks -> Frames \cup {None}]
      /\ HoldsIn => enc.task_in \in Tasks
      /\ HoldsOut => enc.task_out \in Tasks
      /\ enc.pc \in {"return_empty", "take_out"} => mode.version = "v1"
      /\ enc.pc \in {"take_packet", "return"} => mode.version = "v2"
  BY DEF Base, TypeOK, LinksInv, TasksInv, PutTasks, GetTasks, EncTasks, ModeType
<1>1. CASE EncTake
  <2> USE DEF EncTake
  <2>1. CASE HasTask(inq, "OUTPUT")
    <3> DEFINE t == NextTask(inq, "OUTPUT")
    <3>1. /\ t \in Tasks /\ inq' \in QueuesOf(Tasks) /\ Linked(inq', Tasks)
          /\ inq'.queue["INPUT_PORT"] = inq.queue["INPUT_PORT"]
      <4>1. inq' = PortDequeue(inq, "OUTPUT")
        BY <1>1, <2>1
      <4> HIDE DEF EncTake
      <4> QED BY <1>0, <2>1, <4>1, OutputDequeue
    <3>2. /\ enc' = [enc EXCEPT !.pc = IF frame[t] = None THEN "return_empty" ELSE "encode",
                               !.task_in = t, !.work = frame[t]]
          /\ mode.version = "v1"
      BY <1>1, <2>1
    <3>3. frame' \in [Tasks -> Frames \cup {None}] /\ frame[t] \in Frames \cup {None}
      BY <1>0, <1>1, <2>1, <3>1
    <3>4. /\ enc' \in EncType /\ enc'.task_in = t
          /\ enc'.pc \in {"return_empty", "encode"}
      BY <1>0, <3>1, <3>2, <3>3 DEF EncType, EncPcs
    <3>5. UNCHANGED <<outq, packet, ctrl, cmd, encRest>>
      BY <1>1
    <3> HIDE DEF EncTake, t
    <3> QED BY <1>0, <3>1, <3>2, <3>3, <3>4, <3>5, BaseTasks
            DEF encRest, HoldsIn, HoldsOut, HasTask, Queued, StatusCurr
  <2>2. CASE ~HasTask(inq, "OUTPUT")
    <3>1. UNCHANGED <<inq, frame, outq, packet, ctrl, cmd, encRest>>
      BY <1>1, <2>2
    <3>2. enc' = [enc EXCEPT !.pc = "crashed", !.task_in = None]
      BY <1>1, <2>2
    <3> HIDE DEF EncTake
    <3>3. enc' \in EncType /\ enc'.pc = "crashed"
      BY <1>0, <3>2 DEF EncType, EncPcs
    <3> QED BY <1>0, <3>1, <3>3, BaseTasks DEF encRest, HoldsIn, HoldsOut
  <2> QED BY <2>1, <2>2
<1>2. CASE EncReturnEmpty
  <2> USE DEF EncReturnEmpty
  <2>1. enc.task_in \in Tasks
    BY <1>0, <1>2 DEF HoldsIn
  <2>2. /\ inq' \in QueuesOf(Tasks) /\ Linked(inq', Tasks)
        /\ inq'.queue["INPUT_PORT"] # <<>>
    <3>1. inq' = PortEnqueue(inq, "OUTPUT", enc.task_in)
      BY <1>2
    <3> HIDE DEF EncReturnEmpty
    <3> QED BY <1>0, <2>1, <3>1, OutputEnqueue
  <2>3. enc' \in EncType /\ enc'.pc = "loop"
    BY <1>0, <1>2 DEF EncType, EncPcs
  <2>4. /\ UNCHANGED <<outq, frame, packet, ctrl, cmd, mode, ctl, get, rst, clr, count,
                       resets, freed, got>>
        /\ put' = Signalled(put)
    BY <1>2
  <2> HIDE DEF EncReturnEmpty
  <2> QED BY <1>0, <2>2, <2>3, <2>4, BaseTasks
          DEF HoldsIn, HoldsOut, HasTask, Queued, StatusCurr
<1>3. CASE EncReturn
  <2> USE DEF EncReturn
  <2>1. enc.task_in \in Tasks
    BY <1>0, <1>3 DEF HoldsIn
  <2>2. /\ inq' \in QueuesOf(Tasks) /\ Linked(inq', Tasks)
        /\ inq'.queue["INPUT_PORT"] # <<>>
    <3>1. inq' = PortEnqueue(inq, "OUTPUT", enc.task_in)
      BY <1>3
    <3> HIDE DEF EncReturn
    <3> QED BY <1>0, <2>1, <3>1, OutputEnqueue
  <2>3. enc' \in EncType /\ enc'.pc = "take_out" /\ mode.version = "v1"
    BY <1>0, <1>3 DEF EncType, EncPcs
  <2>4. frame' \in [Tasks -> Frames \cup {None}]
    BY <1>0, <1>3 DEF EncType
  <2>5. /\ UNCHANGED <<outq, packet, ctrl, cmd, mode, ctl, get, rst, clr, count,
                       resets, freed, got>>
        /\ put' = Signalled(put)
    BY <1>3
  <2> HIDE DEF EncReturn
  <2> QED BY <1>0, <2>2, <2>3, <2>4, <2>5, BaseTasks
          DEF HoldsIn, HoldsOut, HasTask, Queued, StatusCurr
<1>4. CASE EncTakeOut
  <2> USE DEF EncTakeOut
  <2>0. UNCHANGED <<inq, frame, packet, ctrl, cmd, encRest>> /\ mode.version = "v1"
    BY <1>0, <1>4
  <2>1. CASE HasTask(outq, "INPUT")
    <3>1. /\ NextTask(outq, "INPUT") \in Tasks
          /\ outq' \in QueuesOf(Tasks) /\ Linked(outq', Tasks)
          /\ outq'.queue["OUTPUT_PORT"] = outq.queue["OUTPUT_PORT"]
      <4>1. outq' = PortDequeue(outq, "INPUT")
        BY <1>4, <2>1
      <4> HIDE DEF EncTakeOut
      <4> QED BY <1>0, <2>1, <4>1, InputDequeue
    <3>2. /\ enc' \in EncType /\ enc'.pc = "send"
          /\ enc'.task_out = NextTask(outq, "INPUT")
      <4>1. enc' = [enc EXCEPT !.pc = "send", !.task_out = NextTask(outq, "INPUT")]
        BY <1>4, <2>1
      <4> HIDE DEF EncTakeOut
      <4> QED BY <1>0, <3>1, <4>1 DEF EncType, EncPcs
    <3> HIDE DEF EncTakeOut
    <3> QED BY <1>0, <2>0, <3>1, <3>2, BaseTasks
            DEF encRest, HoldsIn, HoldsOut, HasTask, Queued, StatusCurr
  <2>2. CASE ~HasTask(outq, "INPUT")
    <3>1. enc' \in EncType /\ enc'.pc = "loop" /\ outq' = outq
      <4>1. /\ enc' = [enc EXCEPT !.pc = "loop", !.rdy = {}, !.work = None]
            /\ outq' = outq
        BY <1>4, <2>2
      <4> HIDE DEF EncTakeOut
      <4> QED BY <1>0, <4>1 DEF EncType, EncPcs
    <3> HIDE DEF EncTakeOut
    <3> QED BY <1>0, <2>0, <3>1, BaseTasks DEF encRest, HoldsIn, HoldsOut
  <2> QED BY <2>1, <2>2
<1>5. CASE EncSend
  <2> USE DEF EncSend
  <2>1. enc.task_out \in Tasks
    BY <1>0, <1>5 DEF HoldsOut
  <2>2. /\ outq' \in QueuesOf(Tasks) /\ Linked(outq', Tasks)
        /\ outq'.queue["OUTPUT_PORT"] # <<>>
    <3>1. outq' = PortEnqueue(outq, "INPUT", enc.task_out)
      BY <1>5
    <3> HIDE DEF EncSend
    <3> QED BY <1>0, <2>1, <3>1, InputEnqueue
  <2>3. enc' \in EncType /\ enc'.pc = "loop"
    BY <1>0, <1>5 DEF EncType, EncPcs
  <2>4. packet' \in [Tasks -> Frames \cup {None}]
    BY <1>0, <1>5 DEF EncType
  <2>5. /\ UNCHANGED <<inq, frame, ctrl, cmd, mode, ctl, put, rst, clr, count,
                       resets, freed, got>>
        /\ get' = Signalled(get)
    BY <1>5
  <2> HIDE DEF EncSend
  <2> QED BY <1>0, <2>2, <2>3, <2>4, <2>5, BaseTasks
          DEF HoldsIn, HoldsOut, HasTask, Queued, StatusCurr
<1>6. CASE EncTakeFrame
  <2> USE DEF EncTakeFrame
  <2>0. UNCHANGED <<frame, outq, packet, ctrl, cmd, encRest>> /\ mode.version = "v2"
    BY <1>6
  <2>1. CASE HasTask(inq, "OUTPUT")
    <3>1. /\ NextTask(inq, "OUTPUT") \in Tasks
          /\ inq' \in QueuesOf(Tasks) /\ Linked(inq', Tasks)
          /\ inq'.queue["INPUT_PORT"] = inq.queue["INPUT_PORT"]
      <4>1. inq' = PortDequeue(inq, "OUTPUT")
        BY <1>6, <2>1
      <4> HIDE DEF EncTakeFrame
      <4> QED BY <1>0, <2>1, <4>1, OutputDequeue
    <3>2. /\ enc' \in EncType /\ enc'.pc = "take_packet"
          /\ enc'.task_in = NextTask(inq, "OUTPUT")
      <4>1. enc' = [enc EXCEPT !.pc = "take_packet", !.task_in = NextTask(inq, "OUTPUT")]
        BY <1>6, <2>1
      <4> HIDE DEF EncTakeFrame
      <4> QED BY <1>0, <3>1, <4>1 DEF EncType, EncPcs
    <3> HIDE DEF EncTakeFrame
    <3> QED BY <1>0, <2>0, <3>1, <3>2, BaseTasks
            DEF encRest, HoldsIn, HoldsOut, HasTask, Queued, StatusCurr
  <2>2. CASE ~HasTask(inq, "OUTPUT")
    <3>1. enc' \in EncType /\ enc'.pc = "crashed" /\ inq' = inq
      BY <1>0, <1>6, <2>2 DEF EncType, EncPcs
    <3> HIDE DEF EncTakeFrame
    <3> QED BY <1>0, <2>0, <3>1, BaseTasks DEF encRest, HoldsIn, HoldsOut
  <2> QED BY <2>1, <2>2
<1>7. CASE EncTakePacket
  <2> USE DEF EncTakePacket
  <2>0. /\ UNCHANGED <<inq, packet, ctrl, encRest>> /\ mode.version = "v2"
        /\ enc.task_in \in Tasks /\ frame[enc.task_in] \in Frames \cup {None}
    BY <1>0, <1>7 DEF HoldsIn
  <2>1. CASE HasTask(outq, "INPUT")
    <3>1. /\ NextTask(outq, "INPUT") \in Tasks
          /\ outq' \in QueuesOf(Tasks) /\ Linked(outq', Tasks)
          /\ outq'.queue["OUTPUT_PORT"] = outq.queue["OUTPUT_PORT"]
      <4>1. outq' = PortDequeue(outq, "INPUT")
        BY <1>7, <2>1
      <4> HIDE DEF EncTakePacket
      <4> QED BY <1>0, <2>1, <4>1, InputDequeue
    <3>2. /\ enc' \in EncType /\ enc'.pc \in {"send", "encode"}
          /\ enc'.task_out = NextTask(outq, "INPUT") /\ enc'.task_in = enc.task_in
      <4>1. PICK to \in {"send", "encode"} :
              enc' = [enc EXCEPT !.pc = to, !.task_out = NextTask(outq, "INPUT"),
                                 !.work = frame[enc.task_in]]
        BY <1>7, <2>1
      <4> HIDE DEF EncTakePacket
      <4> QED BY <1>0, <2>0, <3>1, <4>1 DEF EncType, EncPcs
    <3>3. frame' \in [Tasks -> Frames \cup {None}]
      BY <1>0, <1>7, <2>1
    <3>4. cmd' \in CmdType
      <4>1. PICK h \in BOOLEAN : cmd' = [cmd EXCEPT !.hdr_need_updated = h]
        BY <1>0, <1>7, <2>1 DEF CmdType
      <4> QED BY <1>0, <4>1 DEF CmdType
    <3> HIDE DEF EncTakePacket
    <3> QED BY <1>0, <2>0, <3>1, <3>2, <3>3, <3>4, BaseTasks
            DEF encRest, HoldsIn, HoldsOut, HasTask, Queued, StatusCurr
  <2>2. CASE ~HasTask(outq, "INPUT")
    <3>1. /\ enc' \in EncType /\ enc'.pc = "crashed"
          /\ UNCHANGED <<frame, outq, cmd>>
      BY <1>0, <1>7, <2>2 DEF EncType, EncPcs
    <3> HIDE DEF EncTakePacket
    <3> QED BY <1>0, <2>0, <3>1, BaseTasks DEF encRest, HoldsIn, HoldsOut
  <2> QED BY <2>1, <2>2
<1>8. CASE EncSendFirst
  <2> USE DEF EncSendFirst
  <2>1. enc.task_out \in Tasks /\ enc.task_in \in Tasks /\ mode.version = "v2"
    BY <1>0, <1>8 DEF HoldsOut, HoldsIn
  <2>2. /\ outq' \in QueuesOf(Tasks) /\ Linked(outq', Tasks)
        /\ outq'.queue["OUTPUT_PORT"] # <<>>
    <3>1. outq' = PortEnqueue(outq, "INPUT", enc.task_out)
      BY <1>8
    <3> HIDE DEF EncSendFirst
    <3> QED BY <1>0, <2>1, <3>1, InputEnqueue
  <2>3. enc' \in EncType /\ enc'.pc = "return" /\ enc'.task_in = enc.task_in
    BY <1>0, <1>8 DEF EncType, EncPcs
  <2>4. packet' \in [Tasks -> Frames \cup {None}]
    BY <1>0, <1>8 DEF EncType
  <2>5. /\ UNCHANGED <<inq, frame, ctrl, cmd, mode, ctl, put, rst, clr, count,
                       resets, freed, got>>
        /\ get' = Signalled(get)
    BY <1>8
  <2> HIDE DEF EncSendFirst
  <2> QED BY <1>0, <2>1, <2>2, <2>3, <2>4, <2>5, BaseTasks
          DEF HoldsIn, HoldsOut, HasTask, Queued, StatusCurr
<1>9. CASE EncReturnLast
  <2> USE DEF EncReturnLast
  <2>1. enc.task_in \in Tasks
    BY <1>0, <1>9 DEF HoldsIn
  <2>2. /\ inq' \in QueuesOf(Tasks) /\ Linked(inq', Tasks)
        /\ inq'.queue["INPUT_PORT"] # <<>>
    <3>1. inq' = PortEnqueue(inq, "OUTPUT", enc.task_in)
      BY <1>9
    <3> HIDE DEF EncReturnLast
    <3> QED BY <1>0, <2>1, <3>1, OutputEnqueue
  <2>3. enc' \in EncType /\ enc'.pc = "loop"
    BY <1>0, <1>9 DEF EncType, EncPcs
  <2>4. frame' \in [Tasks -> Frames \cup {None}]
    BY <1>0, <1>9 DEF EncType
  <2>5. /\ UNCHANGED <<outq, packet, ctrl, cmd, mode, ctl, get, rst, clr, count,
                       resets, freed, got>>
        /\ put' = Signalled(put)
    BY <1>9
  <2> HIDE DEF EncReturnLast
  <2> QED BY <1>0, <2>2, <2>3, <2>4, <2>5, BaseTasks
          DEF HoldsIn, HoldsOut, HasTask, Queued, StatusCurr
<1>10. CASE EncDrainIn
  <2> USE DEF EncDrainIn
  <2>0. UNCHANGED <<outq, packet, ctrl, cmd, encRest>>
    BY <1>10
  <2>1. CASE HasTask(inq, "OUTPUT")
    <3>1. /\ inq' \in QueuesOf(Tasks) /\ Linked(inq', Tasks)
          /\ inq'.queue["INPUT_PORT"] # <<>>
      BY <1>0, <1>10, <2>1, ReleasedFacts
    <3>2. frame' \in [Tasks -> Frames \cup {None}] /\ enc' = enc /\ enc.pc = "drain_in"
      BY <1>0, <1>10, <2>1
    <3> HIDE DEF EncDrainIn
    <3> QED BY <1>0, <2>0, <3>1, <3>2, BaseTasks
            DEF encRest, HoldsIn, HoldsOut, HasTask, Queued, StatusCurr
  <2>2. CASE ~HasTask(inq, "OUTPUT")
    <3>1. enc' \in EncType /\ enc'.pc = "drain_out" /\ UNCHANGED <<inq, frame>>
      BY <1>0, <1>10, <2>2 DEF EncType, EncPcs
    <3> HIDE DEF EncDrainIn
    <3> QED BY <1>0, <2>0, <3>1, BaseTasks DEF encRest, HoldsIn, HoldsOut
  <2> QED BY <2>1, <2>2
<1>11. CASE EncDrainOut
  <2> USE DEF EncDrainOut
  <2>0. UNCHANGED <<inq, frame, ctrl, cmd, encRest>>
    BY <1>11
  <2>1. CASE HasTask(outq, "OUTPUT")
    <3>1. /\ outq' \in QueuesOf(Tasks) /\ Linked(outq', Tasks)
      BY <1>0, <1>11, <2>1, ReleasedFacts
    <3>2. packet' \in [Tasks -> Frames \cup {None}] /\ enc' = enc /\ enc.pc = "drain_out"
      BY <1>0, <1>11, <2>1
    <3>3. get.pc # "take"
      BY <3>2 DEF ClearInv
    <3> HIDE DEF EncDrainOut
    <3> QED BY <1>0, <2>0, <3>1, <3>2, <3>3, BaseTasks
            DEF encRest, HoldsIn, HoldsOut, HasTask, Queued, StatusCurr
  <2>2. CASE ~HasTask(outq, "OUTPUT")
    <3>1. enc' \in EncType /\ enc'.pc = "exited" /\ UNCHANGED <<outq, packet>>
      BY <1>0, <1>11, <2>2 DEF EncType, EncPcs
    <3> HIDE DEF EncDrainOut
    <3> QED BY <1>0, <2>0, <3>1, BaseTasks DEF encRest, HoldsIn, HoldsOut
  <2> QED BY <2>1, <2>2
<1> QED BY <1>1, <1>2, <1>3, <1>4, <1>5, <1>6, <1>7, <1>8, <1>9, <1>10, <1>11,
           BaseTurn DEF Encoder, EncTurn

(* A call of mpp_enc_notify moves the encoder thread only out of its wait. *)
LEMMA NotifyBase ==
    ASSUME Base, NEW flag \in SUBSET Reset, Notify(flag), mode' = mode
    PROVE  enc' \in EncType /\ ctrl' \in CtrlType /\ EncTasks'
<1>1. TypeOK /\ mode.version \in {"v1", "v2"}
  BY Constants DEF Base, TypeOK, ModeType
<1>2. /\ enc' \in EncType /\ ctrl' \in CtrlType
      /\ enc'.task_in = enc.task_in /\ enc'.task_out = enc.task_out
      /\ \/ enc'.pc = enc.pc
         \/ enc'.pc = IF mode.version = "v2" THEN "control" ELSE "reset"
  BY <1>1, NotifyFacts DEF AfterWait
<1> QED BY <1>1, <1>2 DEF Base, TasksInv, EncTasks, HoldsIn, HoldsOut

(* Every step of put_frame keeps Base.                                     *)
LEMMA BasePut ==
    ASSUME Base, PutStart \/ PutFrame \/ PutTimeout
    PROVE  Base'
<1> USE Constants
<1>0. /\ TypeOK /\ LinksInv /\ PutTasks /\ GetTasks /\ EncTasks
      /\ put \in PutType /\ count \in 0 .. MaxFrames
      /\ inq \in QueuesOf(Tasks) /\ Linked(inq, Tasks)
      /\ frame \in [Tasks -> Frames \cup {None}]
  BY DEF Base, TasksInv, TypeOK, LinksInv
<1>q. ASSUME UNCHANGED putRest,
             put' \in PutType, PutTasks',
             inq' \in QueuesOf(Tasks), Linked(inq', Tasks),
             frame' \in [Tasks -> Frames \cup {None}],
             count' \in 0 .. MaxFrames, freed' \in SUBSET Frames,
             enc' \in EncType, ctrl' \in CtrlType, EncTasks'
      PROVE  Base'
  <2>1. TypeOK'
    BY <1>0, <1>q DEF putRest, TypeOK
  <2>2. GetTasks' /\ LinksInv'
    BY <1>0, <1>q DEF putRest, GetTasks, LinksInv
  <2> QED BY <1>q, <2>1, <2>2 DEF Base, TasksInv
<1>e. ASSUME UNCHANGED <<enc, ctrl, putRest>>
      PROVE  enc' \in EncType /\ ctrl' \in CtrlType /\ EncTasks'
  BY <1>0, <1>e DEF TypeOK, EncTasks, HoldsIn, HoldsOut, putRest
<1>s. ASSUME UNCHANGED <<inq, frame, count, freed>>
      PROVE  /\ inq' \in QueuesOf(Tasks) /\ Linked(inq', Tasks)
             /\ frame' \in [Tasks -> Frames \cup {None}]
             /\ count' \in 0 .. MaxFrames /\ freed' \in SUBSET Frames
  BY <1>0, <1>s DEF TypeOK
<1>1. CASE PutStart
  <2>1. put' \in PutType /\ PutTasks'
    BY <1>0, <1>1 DEF PutStart, PutType, PutTasks
  <2> QED BY <1>1, <1>q, <1>e, <1>s, <2>1 DEF PutStart
<1>2. CASE PutPoll
  <2>1. put' \in PutType /\ PutTasks'
    BY <1>0, <1>2 DEF PutPoll, PutTaken, PutType, PutTasks
  <2> QED BY <1>2, <1>q, <1>e, <1>s, <2>1 DEF PutPoll
<1>3. CASE PutTimeout
  <2>1. put' \in PutType /\ PutTasks'
    BY <1>0, <1>3 DEF PutTimeout, PutType, PutTasks
  <2> QED BY <1>3, <1>q, <1>e, <1>s, <2>1 DEF PutTimeout
<1>4. CASE PutPollAgain
  <2>1. put' \in PutType /\ PutTasks'
    BY <1>0, <1>4 DEF PutPollAgain, PutTaken, PutType, PutTasks
  <2> QED BY <1>4, <1>q, <1>e, <1>s, <2>1 DEF PutPollAgain
<1>5. CASE PutTake
  <2>1. /\ UNCHANGED <<frame, enc, ctrl, count, freed, putRest>>
        /\ inq' = PortDequeue(inq, "INPUT") /\ HasTask(inq, "INPUT")
        /\ put.pc \in {"take_idle", "take_done"}
        /\ put' = [put EXCEPT !.pc = IF @ = "take_idle" THEN "took_idle" ELSE "took_done",
                              !.mInputTask = NextTask(inq, "INPUT")]
    BY <1>0, <1>5 DEF PutTake, PutTasks
  <2>2. /\ inq' \in QueuesOf(Tasks) /\ Linked(inq', Tasks)
        /\ NextTask(inq, "INPUT") \in Tasks
    BY <1>0, <2>1, InputDequeue
  <2>3. put' \in PutType /\ PutTasks'
    BY <1>0, <2>1, <2>2 DEF PutType, PutTasks
  <2> QED BY <1>0, <1>q, <1>e, <2>1, <2>2, <2>3 DEF TypeOK
<1>6. CASE PutTook
  <2>1. Notify({"FRAME_DEQUEUE"}) /\ UNCHANGED <<inq, frame, count, freed, putRest>>
    BY <1>6 DEF PutTook
  <2>2. enc' \in EncType /\ ctrl' \in CtrlType /\ EncTasks'
    BY <2>1, NotifyBase DEF Reset, putRest
  <2>3. put' \in PutType /\ PutTasks'
    BY <1>0, <1>6 DEF PutTook, PutType, PutTasks
  <2> QED BY <1>q, <1>s, <2>1, <2>2, <2>3
<1>7. CASE PutFill
  <2>1. /\ UNCHANGED <<inq, enc, ctrl, freed, putRest>> /\ count' = count + 1
        /\ put.pc = "fill" /\ put' = [put EXCEPT !.pc = "enqueue"]
    BY <1>7 DEF PutFill
  <2>2. count' \in 0 .. MaxFrames /\ count + 1 \in Frames
    BY <1>0, <2>1 DEF PutTasks, Frames
  <2>3. frame' \in [Tasks -> Frames \cup {None}]
    BY <1>0, <1>7, <2>2 DEF PutFill
  <2>4. put' \in PutType /\ PutTasks'
    BY <1>0, <2>1 DEF PutType, PutTasks
  <2> QED BY <1>0, <1>q, <1>e, <2>1, <2>2, <2>3, <2>4 DEF TypeOK
<1>8. CASE PutEnqueue
  <2>1. /\ UNCHANGED <<frame, enc, ctrl, count, freed, putRest>>
        /\ inq' = PortEnqueue(inq, "INPUT", put.mInputTask)
        /\ put.pc = "enqueue" /\ put' = [put EXCEPT !.pc = "notify"]
        /\ put.mInputTask \in Tasks
    BY <1>0, <1>8 DEF PutEnqueue, PutTasks
  <2>2. inq' \in QueuesOf(Tasks) /\ Linked(inq', Tasks)
    BY <1>0, <2>1, InputEnqueue
  <2>3. put' \in PutType /\ PutTasks'
    BY <1>0, <2>1 DEF PutType, PutTasks
  <2> QED BY <1>0, <1>q, <1>e, <2>1, <2>2, <2>3 DEF TypeOK
<1>9. CASE PutNotify
  <2>1. Notify({"FRAME_ENQUEUE"}) /\ UNCHANGED <<inq, frame, count, freed, putRest>>
    BY <1>9 DEF PutNotify
  <2>2. enc' \in EncType /\ ctrl' \in CtrlType /\ EncTasks'
    BY <2>1, NotifyBase DEF Reset, putRest
  <2>3. put' \in PutType /\ PutTasks'
    BY <1>0, <1>9 DEF PutNotify, PutType, PutTasks
  <2> QED BY <1>q, <1>s, <2>1, <2>2, <2>3
<1>10. CASE PutFree
  <2>1. /\ UNCHANGED <<inq, enc, ctrl, count, putRest>>
        /\ freed' = freed \cup ({frame[put.mInputTask]} \ {None})
        /\ frame' = [frame EXCEPT ![put.mInputTask] = None]
        /\ put.mInputTask \in Tasks
    BY <1>0, <1>10 DEF PutFree, PutTasks
  <2>2. frame' \in [Tasks -> Frames \cup {None}] /\ freed' \in SUBSET Frames
    BY <1>0, <2>1 DEF TypeOK
  <2>3. put' \in PutType /\ PutTasks'
    BY <1>0, <1>10 DEF PutFree, PutType, PutTasks
  <2> QED BY <1>0, <1>q, <1>e, <2>1, <2>2, <2>3 DEF TypeOK
<1> QED BY <1>1, <1>2, <1>3, <1>4, <1>5, <1>6, <1>7, <1>8, <1>9, <1>10 DEF PutFrame

(* Every step of get_packet keeps Base.                                    *)
LEMMA BaseGet ==
    ASSUME Base, GetPacket \/ GetTimeout
    PROVE  Base'
<1> USE Constants
<1>0. /\ TypeOK /\ LinksInv /\ PutTasks /\ GetTasks /\ EncTasks
      /\ get \in GetType /\ got \in Seq(Frames \cup {None})
      /\ outq \in QueuesOf(Tasks) /\ Linked(outq, Tasks)
      /\ packet \in [Tasks -> Frames \cup {None}]
  BY DEF Base, TasksInv, TypeOK, LinksInv
<1>q. ASSUME UNCHANGED getRest,
             get' \in GetType, GetTasks',
             outq' \in QueuesOf(Tasks), Linked(outq', Tasks),
             packet' \in [Tasks -> Frames \cup {None}],
             got' \in Seq(Frames \cup {None}),
             enc' \in EncType, ctrl' \in CtrlType, EncTasks'
      PROVE  Base'
  <2>1. TypeOK'
    BY <1>0, <1>q DEF getRest, TypeOK
  <2>2. PutTasks' /\ LinksInv'
    BY <1>0, <1>q DEF getRest, PutTasks, LinksInv
  <2> QED BY <1>q, <2>1, <2>2 DEF Base, TasksInv
<1>e. ASSUME UNCHANGED <<enc, ctrl, getRest>>
      PROVE  enc' \in EncType /\ ctrl' \in CtrlType /\ EncTasks'
  BY <1>0, <1>e DEF TypeOK, EncTasks, HoldsIn, HoldsOut, getRest
<1>1. CASE GetPoll
  <2>1. get' \in GetType /\ GetTasks'
    BY <1>0, <1>1 DEF GetPoll, GetType, GetTasks
  <2> QED BY <1>0, <1>1, <1>q, <1>e, <2>1 DEF GetPoll
<1>2. CASE GetTimeout
  <2>1. get' \in GetType /\ GetTasks'
    BY <1>0, <1>2 DEF GetTimeout, GetType, GetTasks
  <2> QED BY <1>0, <1>2, <1>q, <1>e, <2>1 DEF GetTimeout
<1>3. CASE GetPollAgain
  <2>1. get' \in GetType /\ GetTasks'
    BY <1>0, <1>3 DEF GetPollAgain, GetType, GetTasks
  <2> QED BY <1>0, <1>3, <1>q, <1>e, <2>1 DEF GetPollAgain
<1>4. CASE GetTake
  <2>1. /\ UNCHANGED <<packet, enc, ctrl, got, getRest>>
        /\ outq' = PortDequeue(outq, "OUTPUT") /\ HasTask(outq, "OUTPUT")
        /\ get.pc = "take"
        /\ get' = [get EXCEPT !.pc = "took", !.task = NextTask(outq, "OUTPUT")]
    BY <1>0, <1>4 DEF GetTake, GetTasks
  <2>2. /\ outq' \in QueuesOf(Tasks) /\ Linked(outq', Tasks)
        /\ NextTask(outq, "OUTPUT") \in Tasks
    BY <1>0, <2>1, OutputDequeue
  <2>3. get' \in GetType /\ GetTasks'
    BY <1>0, <2>1, <2>2 DEF GetType, GetTasks
  <2> QED BY <1>0, <1>q, <1>e, <2>1, <2>2, <2>3
<1>5. CASE GetTook
  <2>1. /\ Notify({"PACKET_DEQUEUE"}) /\ UNCHANGED <<outq, getRest>>
        /\ got' = Append(got, packet[get.task])
        /\ packet' = [packet EXCEPT ![get.task] = None]
        /\ get.task \in Tasks
    BY <1>0, <1>5 DEF GetTook, GetTasks
  <2>2. enc' \in EncType /\ ctrl' \in CtrlType /\ EncTasks'
    BY <2>1, NotifyBase DEF Reset, getRest
  <2>3. get' \in GetType /\ GetTasks'
    BY <1>0, <1>5 DEF GetTook, GetType, GetTasks
  <2>4. /\ packet' \in [Tasks -> Frames \cup {None}]
        /\ got' \in Seq(Frames \cup {None})
    BY <1>0, <2>1
  <2> QED BY <1>0, <1>q, <2>1, <2>2, <2>3, <2>4
<1>6. CASE GetEnqueue
  <2>1. /\ UNCHANGED <<packet, enc, ctrl, got, getRest>>
        /\ outq' = PortEnqueue(outq, "OUTPUT", get.task)
        /\ get.task \in Tasks
    BY <1>0, <1>6 DEF GetEnqueue, GetTasks
  <2>2. outq' \in QueuesOf(Tasks) /\ Linked(outq', Tasks)
    BY <1>0, <2>1, OutputEnqueue
  <2>3. get' \in GetType /\ GetTasks'
    BY <1>0, <1>6 DEF GetEnqueue, GetType, GetTasks
  <2> QED BY <1>0, <1>q, <1>e, <2>1, <2>2, <2>3
<1>7. CASE GetNotify
  <2>1. Notify({"PACKET_ENQUEUE"}) /\ UNCHANGED <<outq, packet, got, getRest>>
    BY <1>7 DEF GetNotify
  <2>2. enc' \in EncType /\ ctrl' \in CtrlType /\ EncTasks'
    BY <2>1, NotifyBase DEF Reset, getRest
  <2>3. get' \in GetType /\ GetTasks'
    BY <1>0, <1>7 DEF GetNotify, GetType, GetTasks
  <2> QED BY <1>0, <1>q, <2>1, <2>2, <2>3
<1> QED BY <1>1, <1>2, <1>3, <1>4, <1>5, <1>6, <1>7 DEF GetPacket

(* The calls that leave the queues to the others. *)
Calls ==
    \/ ResetStart \/ ResetCall \/ ControlStart \/ ControlNotify \/ ControlWait
    \/ ClearStop \/ ClearDeinit \/ UNCHANGED vars

(* Every step of reset, control and clear keeps Base.                      *)
LEMMA BaseCalls ==
    ASSUME Base, Calls
    PROVE  Base'
<1> USE Constants
<1>0. /\ TypeOK /\ LinksInv /\ PutTasks /\ GetTasks /\ EncTasks
      /\ enc \in EncType /\ ctrl \in CtrlType /\ cmd \in CmdType /\ resets \in Nat
      /\ mode.version \in {"v1", "v2"}
  BY DEF Base, TasksInv, TypeOK, LinksInv, ModeType
<1>q. ASSUME UNCHANGED <<mode, queues, put, get, count, freed, got>>,
             enc' \in EncType, ctrl' \in CtrlType, cmd' \in CmdType, resets' \in Nat,
             ctl' \in {"idle", "notify", "sem_wait"},
             rst' \in {"idle", "notify", "unlock", "sem_wait"},
             clr' \in {"idle", "join", "done"}, EncTasks'
      PROVE  Base'
  <2>1. TypeOK'
    BY <1>0, <1>q DEF queues, TypeOK
  <2>2. PutTasks' /\ GetTasks' /\ LinksInv'
    BY <1>0, <1>q DEF queues, PutTasks, GetTasks, LinksInv
  <2> QED BY <1>q, <2>1, <2>2 DEF Base, TasksInv
<1>e. ASSUME UNCHANGED <<mode, enc>>
      PROVE  enc' \in EncType /\ EncTasks'
  BY <1>0, <1>e DEF EncTasks, HoldsIn, HoldsOut
<1>1. CASE ResetStart
  <2>1. ctrl' \in CtrlType
    BY <1>0, <1>1 DEF ResetStart, CtrlType
  <2>2. resets' \in Nat
    BY <1>0, <1>1 DEF ResetStart
  <2> QED BY <1>0, <1>1, <1>q, <1>e, <2>1, <2>2 DEF ResetStart, rstRest, TypeOK
<1>2. CASE ResetNotify
  <2>1. enc' \in EncType /\ ctrl' \in CtrlType /\ EncTasks'
    BY <1>2, NotifyBase DEF ResetNotify, rstRest
  <2> QED BY <1>0, <1>2, <1>q, <2>1 DEF ResetNotify, rstRest, TypeOK
<1>3. CASE ResetUnlock
  <2>1. ctrl' \in CtrlType
    BY <1>0, <1>3 DEF ResetUnlock, CtrlType
  <2> QED BY <1>0, <1>3, <1>q, <1>e, <2>1 DEF ResetUnlock, rstRest, TypeOK
<1>4. CASE ResetWait
  <2>1. ctrl' \in CtrlType
    <3>1. ctrl.enc_reset - 1 \in Nat
      BY <1>0, <1>4 DEF ResetWait, CtrlType
    <3> QED BY <1>0, <1>4, <3>1 DEF ResetWait, CtrlType
  <2> QED BY <1>0, <1>4, <1>q, <1>e, <2>1 DEF ResetWait, rstRest, TypeOK
<1>5. CASE ControlStart
  <2>1. cmd' \in CmdType
    <3>1. PICK c \in Commands : cmd' = [cmd EXCEPT !.cmd = c, !.cmd_send = @ + 1]
      BY <1>5 DEF ControlStart
    <3>2. cmd.cmd_send + 1 \in Nat
      BY <1>0 DEF CmdType
    <3> QED BY <1>0, <3>1, <3>2 DEF CmdType
  <2> QED BY <1>0, <1>5, <1>q, <1>e, <2>1 DEF ControlStart, ctlRest, TypeOK
<1>6. CASE ControlNotify
  <2>1. enc' \in EncType /\ ctrl' \in CtrlType /\ EncTasks'
    BY <1>6, NotifyBase DEF ControlNotify, ctlRest, Reset
  <2> QED BY <1>0, <1>6, <1>q, <2>1 DEF ControlNotify, ctlRest, TypeOK
<1>7. CASE ControlWait
  <2>1. cmd' \in CmdType
    <3>1. cmd.enc_ctrl - 1 \in Nat
      BY <1>0, <1>7 DEF ControlWait, CmdType
    <3> QED BY <1>0, <1>7, <3>1 DEF ControlWait, CmdType
  <2> QED BY <1>0, <1>7, <1>q, <1>e, <2>1 DEF ControlWait, ctlRest, TypeOK
<1>8. CASE ClearStop
  <2>1. enc' \in EncType /\ ctrl' \in CtrlType
    BY <1>0, <1>8 DEF ClearStop, WakeEnc, AfterWait, EncType, EncPcs, CtrlType
  <2>2. EncTasks'
    BY <1>0, <1>8 DEF ClearStop, WakeEnc, AfterWait, EncType, EncTasks, HoldsIn, HoldsOut, clrRest
  <2> QED BY <1>0, <1>8, <1>q, <2>1, <2>2 DEF ClearStop, clrRest, TypeOK
<1>9. CASE ClearDeinit
  BY <1>0, <1>9, <1>q, <1>e DEF ClearDeinit, clrRest, TypeOK
<1>10. CASE UNCHANGED vars
  BY <1>0, <1>10, <1>q, <1>e DEF vars, users, TypeOK
<1> QED BY <1>1, <1>2, <1>3, <1>4, <1>5, <1>6, <1>7, <1>8, <1>9, <1>10 DEF Calls, ResetCall

(* A new context has Base.                                                 *)
LEMMA InitBase == Init => Base
<1> SUFFICES ASSUME Init PROVE Base
  OBVIOUS
<1>1. /\ inq \in QueuesOf(Tasks) /\ Linked(inq, Tasks)
      /\ outq \in QueuesOf(Tasks) /\ Linked(outq, Tasks)
  BY Constants, QueueSetupFacts DEF Init, Tasks
<1>2. TypeOK
  <2>1. /\ enc \in EncType /\ ctrl \in CtrlType
    BY DEF Init, EncType, CtrlType, EncPcs
  <2>2. cmd \in CmdType /\ put \in PutType /\ get \in GetType
    BY DEF Init, CmdType, PutType, GetType
  <2> QED BY <1>1, <2>1, <2>2, Constants DEF Init, TypeOK
<1>3. TasksInv
  BY DEF Init, TasksInv, PutTasks, GetTasks, EncTasks, HoldsIn, HoldsOut
<1> QED BY <1>1, <1>2, <1>3 DEF Base, LinksInv

-----------------------------------------------------------------------------
(* What the steps of the other invariants share.  A step of the encoder    *)
(* with tasks leaves alone what it waits for and what it shares.           *)
LEMMA EncWork ==
    ASSUME TypeOK, Encoder
    PROVE  \/ EncTurn
           \/ /\ UNCHANGED <<mode, ctl, rst, clr, count, resets, freed, got, ctrl>>
              /\ put' \in {put, Signalled(put)} /\ get' \in {get, Signalled(get)}
              /\ enc'.wait = enc.wait /\ enc'.rdy \in {enc.rdy, {}}
              /\ enc.pc \notin Polling \cup {"poll_out", "exited", "crashed"}
              /\ enc'.pc \notin (Polling \ {"loop"}) \cup {"poll_out", "take"}
              /\ \/ enc'.rdy = {} /\ enc'.pc = "loop"
                 \/ enc'.rdy = enc.rdy
              /\ enc'.pc \in {"drain_in", "drain_out", "exited"}
                    <=> enc.pc \in {"drain_in", "drain_out"}
              /\ cmd' = cmd \/ EncTakePacket
<1>0. enc \in EncType /\ mode.version \in {"v1", "v2"}
  BY Constants DEF TypeOK, ModeType
<1> USE DEF EncType, encRest, Polling
<1>1. CASE EncTake
  <2>1. PICK to \in {"return_empty", "encode", "crashed"},
          t \in {enc'.task_in, enc'.task_out}, w \in {enc'.work} :
          enc' = [enc EXCEPT !.pc = to, !.task_in = t, !.work = w]
    <3>1. CASE HasTask(inq, "OUTPUT")
      BY <1>1, <3>1 DEF EncTake
    <3>2. CASE ~HasTask(inq, "OUTPUT")
      <4>1. enc' = [enc EXCEPT !.pc = "crashed", !.task_in = None, !.work = enc.work]
        BY <1>0, <1>1, <3>2 DEF EncTake
      <4> QED BY <4>1
    <3> QED BY <3>1, <3>2
  <2> QED BY <1>0, <1>1, <2>1 DEF EncTake
<1>2. CASE EncReturnEmpty
  BY <1>0, <1>2 DEF EncReturnEmpty
<1>3. CASE EncReturn
  BY <1>0, <1>3 DEF EncReturn
<1>4. CASE EncTakeOut
  BY <1>0, <1>4 DEF EncTakeOut
<1>5. CASE EncSend
  BY <1>0, <1>5 DEF EncSend
<1>6. CASE EncTakeFrame
  BY <1>0, <1>6 DEF EncTakeFrame
<1>7. CASE EncTakePacket
  <2>1. PICK to \in {"send", "encode", "crashed"},
          t \in {enc'.task_in, enc'.task_out}, w \in {enc'.work} :
          enc' = [enc EXCEPT !.pc = to, !.task_out = t, !.work = w]
    <3>1. CASE HasTask(outq, "INPUT")
      BY <1>7, <3>1 DEF EncTakePacket
    <3>2. CASE ~HasTask(outq, "INPUT")
      <4>1. enc' = [enc EXCEPT !.pc = "crashed", !.task_out = enc.task_out, !.work = enc.work]
        BY <1>0, <1>7, <3>2 DEF EncTakePacket
      <4> QED BY <4>1
    <3> QED BY <3>1, <3>2
  <2> QED BY <1>0, <1>7, <2>1 DEF EncTakePacket
<1>8. CASE EncSendFirst
  BY <1>0, <1>8 DEF EncSendFirst
<1>9. CASE EncReturnLast
  BY <1>0, <1>9 DEF EncReturnLast
<1>10. CASE EncDrainIn
  BY <1>0, <1>10 DEF EncDrainIn
<1>11. CASE EncDrainOut
  BY <1>0, <1>11 DEF EncDrainOut
<1> QED BY <1>1, <1>2, <1>3, <1>4, <1>5, <1>6, <1>7, <1>8, <1>9, <1>10, <1>11
        DEF Encoder, EncTurn

(* The two users of the queues touch the encoder with mpp_enc_notify only, *)
(* and call nothing once the context is being cleared.                     *)
LEMMA PutMoves ==
    ASSUME PutTasks, ClearInv, PutStart \/ PutFrame \/ PutTimeout
    PROVE  /\ UNCHANGED <<mode, cmd, ctl, outq, packet, get, rst, clr, resets, got>>
           /\ clr = "idle"
           /\ \/ UNCHANGED <<enc, ctrl>>
              \/ Notify({"FRAME_DEQUEUE"}) /\ put.pc # "notify" /\ put'.pc # "notify"
              \/ Notify({"FRAME_ENQUEUE"}) /\ put.pc = "notify"
<1>0. put.poll # "no" => put.pc # "idle"
  BY DEF PutTasks
<1>1. put.pc # "idle" => clr = "idle"
  BY DEF ClearInv
<1> USE <1>0, <1>1 DEF putRest
<1>2. CASE PutStart
  BY <1>2 DEF PutStart
<1>3. CASE PutPoll
  BY <1>3 DEF PutPoll
<1>4. CASE PutTimeout
  BY <1>4 DEF PutTimeout
<1>5. CASE PutPollAgain
  BY <1>5 DEF PutPollAgain
<1>6. CASE PutTake
  BY <1>6 DEF PutTake
<1>7. CASE PutTook
  BY <1>7 DEF PutTook
<1>8. CASE PutFill
  BY <1>8 DEF PutFill
<1>9. CASE PutEnqueue
  BY <1>9 DEF PutEnqueue
<1>10. CASE PutNotify
  BY <1>10 DEF PutNotify
<1>11. CASE PutFree
  BY <1>11 DEF PutFree
<1> QED BY <1>2, <1>3, <1>4, <1>5, <1>6, <1>7, <1>8, <1>9, <1>10, <1>11 DEF PutFrame

(* get_packet does the same from its end.                                  *)
LEMMA GetMoves ==
    ASSUME GetTasks, ClearInv, GetPacket \/ GetTimeout
    PROVE  /\ UNCHANGED <<mode, cmd, ctl, inq, frame, put, rst, clr, count, resets, freed>>
           /\ clr = "idle"
           /\ \/ UNCHANGED <<enc, ctrl>>
              \/ Notify({"PACKET_DEQUEUE"}) /\ get.pc # "notify" /\ get'.pc # "notify"
              \/ Notify({"PACKET_ENQUEUE"}) /\ get.pc = "notify"
<1>0. get.poll # "no" => get.pc # "idle"
  BY DEF GetTasks
<1>1. get.pc # "idle" => clr = "idle"
  BY DEF ClearInv
<1> USE <1>0, <1>1 DEF getRest
<1>2. CASE GetPoll
  BY <1>2 DEF GetPoll
<1>3. CASE GetTimeout
  BY <1>3 DEF GetTimeout
<1>4. CASE GetPollAgain
  BY <1>4 DEF GetPollAgain
<1>5. CASE GetTake
  BY <1>5 DEF GetTake
<1>6. CASE GetTook
  BY <1>6 DEF GetTook
<1>7. CASE GetEnqueue
  BY <1>7 DEF GetEnqueue
<1>8. CASE GetNotify
  BY <1>8 DEF GetNotify
<1> QED BY <1>2, <1>3, <1>4, <1>5, <1>6, <1>7, <1>8 DEF GetPacket

(* Every step is one of these. *)
LEMMA Steps ==
    ASSUME [Next]_vars
    PROVE  \/ Encoder \/ PutStart \/ PutFrame \/ PutTimeout
           \/ GetPacket \/ GetTimeout \/ Calls
BY DEF Next, Calls, Cleared

(* Whatever is no step of the encoder moves it only out of its wait.       *)
LEMMA UserSteps ==
    ASSUME Base, ClearInv,
           \/ PutStart \/ PutFrame \/ PutTimeout \/ GetPacket \/ GetTimeout \/ Calls
    PROVE  /\ enc'.rdy = enc.rdy /\ enc'.wait = enc.wait /\ enc'.work = enc.work
           /\ enc'.task_in = enc.task_in /\ enc'.task_out = enc.task_out
           /\ \/ enc'.pc = enc.pc
              \/ /\ enc.pc = "wait"
                 /\ enc'.pc = IF mode.version = "v2" THEN "control" ELSE "reset"
           /\ mode' = mode
<1>0. /\ TypeOK /\ PutTasks /\ GetTasks /\ enc \in EncType
  BY DEF Base, TypeOK, TasksInv
<1>n. ASSUME NEW flag \in SUBSET Reset, Notify(flag)
      PROVE  /\ enc'.rdy = enc.rdy /\ enc'.wait = enc.wait /\ enc'.work = enc.work
             /\ enc'.task_in = enc.task_in /\ enc'.task_out = enc.task_out
             /\ enc'.pc = enc.pc \/ (enc.pc = "wait" /\ enc'.pc = AfterWait)
  BY <1>0, <1>n, NotifyFacts
<1>1. CASE PutStart \/ PutFrame \/ PutTimeout
  BY <1>0, <1>1, <1>n, PutMoves DEF Reset, AfterWait
<1>2. CASE GetPacket \/ GetTimeout
  BY <1>0, <1>2, <1>n, GetMoves DEF Reset, AfterWait
<1>3. CASE ResetNotify
  BY <1>n, <1>3 DEF ResetNotify, rstRest, AfterWait
<1>4. CASE ControlNotify
  BY <1>n, <1>4 DEF ControlNotify, ctlRest, Reset, AfterWait
<1>5. CASE ClearStop
  BY <1>0, <1>5 DEF ClearStop, WakeEnc, AfterWait, clrRest, EncType
<1>6. CASE ResetStart \/ ResetUnlock \/ ResetWait \/ ControlStart \/ ControlWait
  BY <1>6 DEF ResetStart, ResetUnlock, ResetWait, ControlStart, ControlWait, rstRest, ctlRest
<1>7. CASE ClearDeinit \/ UNCHANGED vars
  BY <1>7 DEF ClearDeinit, vars, clrRest
<1> QED BY <1>1, <1>2, <1>3, <1>4, <1>5, <1>6, <1>7 DEF Calls, ResetCall

-----------------------------------------------------------------------------
(* What an operation on a queue q leaves in it, r.                         *)
InTaken(q, r, t) ==
    /\ t \in Tasks /\ q.queue["INPUT_PORT"] # <<>> /\ t = Head(q.queue["INPUT_PORT"])
    /\ q.status[t] = "INPUT_PORT" /\ r.status[t] = "INPUT_HOLD"
    /\ \A u \in Tasks \ {t} : r.status[u] = q.status[u]
    /\ r.queue["INPUT_PORT"] = Tail(q.queue["INPUT_PORT"])
    /\ r.queue["OUTPUT_PORT"] = q.queue["OUTPUT_PORT"]
    /\ r.asserted = q.asserted

OutTaken(q, r, t) ==
    /\ t \in Tasks /\ q.queue["OUTPUT_PORT"] # <<>> /\ t = Head(q.queue["OUTPUT_PORT"])
    /\ q.status[t] = "OUTPUT_PORT" /\ r.status[t] = "OUTPUT_HOLD"
    /\ \A u \in Tasks \ {t} : r.status[u] = q.status[u]
    /\ r.queue["OUTPUT_PORT"] = Tail(q.queue["OUTPUT_PORT"])
    /\ r.queue["INPUT_PORT"] = q.queue["INPUT_PORT"]
    /\ r.asserted = q.asserted

InGiven(q, r, t) ==
    /\ t \in Tasks /\ r.status[t] = "OUTPUT_PORT"
    /\ \A u \in Tasks \ {t} : r.status[u] = q.status[u]
    /\ r.queue["OUTPUT_PORT"] # <<>>
    /\ q.status[t] = "INPUT_HOLD" =>
          /\ ~q.asserted => ~r.asserted
          /\ r.queue["OUTPUT_PORT"] = Append(q.queue["OUTPUT_PORT"], t)
          /\ r.queue["INPUT_PORT"] = q.queue["INPUT_PORT"]

OutGiven(q, r, t) ==
    /\ t \in Tasks /\ r.status[t] = "INPUT_PORT"
    /\ \A u \in Tasks \ {t} : r.status[u] = q.status[u]
    /\ r.queue["INPUT_PORT"] # <<>>
    /\ q.status[t] = "OUTPUT_HOLD" =>
          /\ ~q.asserted => ~r.asserted
          /\ r.queue["INPUT_PORT"] = Append(q.queue["INPUT_PORT"], t)
          /\ r.queue["OUTPUT_PORT"] = q.queue["OUTPUT_PORT"]

(* A dequeue from the input port.                                          *)
LEMMA InTakenFacts ==
    ASSUME NEW q \in QueuesOf(Tasks), Linked(q, Tasks), HasTask(q, "INPUT")
    PROVE  InTaken(q, PortDequeue(q, "INPUT"), NextTask(q, "INPUT"))
<1> DEFINE r == PortDequeue(q, "INPUT")
           t == NextTask(q, "INPUT")
<1>1. /\ t \in Tasks /\ t = Head(q.queue["INPUT_PORT"])
      /\ q.status[t] = "INPUT_PORT" /\ r.asserted = q.asserted
      /\ r.queue["INPUT_PORT"] = Tail(q.queue["INPUT_PORT"])
      /\ r.queue["OUTPUT_PORT"] = q.queue["OUTPUT_PORT"]
      /\ r.status = [q.status EXCEPT ![t] = "INPUT_HOLD"]
  BY InputDequeue
<1>2. q.queue["INPUT_PORT"] # <<>> /\ q.status \in [Tasks -> Statuses]
  BY DEF HasTask, Queued, StatusCurr, QueuesOf
<1> HIDE DEF r, t
<1>3. InTaken(q, r, t)
  BY <1>1, <1>2 DEF InTaken
<1> QED BY <1>3 DEF r, t

(* A dequeue from the output port.                                         *)
LEMMA OutTakenFacts ==
    ASSUME NEW q \in QueuesOf(Tasks), Linked(q, Tasks), HasTask(q, "OUTPUT")
    PROVE  OutTaken(q, PortDequeue(q, "OUTPUT"), NextTask(q, "OUTPUT"))
<1> DEFINE r == PortDequeue(q, "OUTPUT")
           t == NextTask(q, "OUTPUT")
<1>1. /\ t \in Tasks /\ t = Head(q.queue["OUTPUT_PORT"])
      /\ q.status[t] = "OUTPUT_PORT" /\ r.asserted = q.asserted
      /\ r.queue["OUTPUT_PORT"] = Tail(q.queue["OUTPUT_PORT"])
      /\ r.queue["INPUT_PORT"] = q.queue["INPUT_PORT"]
      /\ r.status = [q.status EXCEPT ![t] = "OUTPUT_HOLD"]
  BY OutputDequeue
<1>2. q.queue["OUTPUT_PORT"] # <<>> /\ q.status \in [Tasks -> Statuses]
  BY DEF HasTask, Queued, StatusCurr, QueuesOf
<1> HIDE DEF r, t
<1>3. OutTaken(q, r, t)
  BY <1>1, <1>2 DEF OutTaken
<1> QED BY <1>3 DEF r, t

(* An enqueue to the input port.                                           *)
LEMMA InGivenFacts ==
    ASSUME NEW q \in QueuesOf(Tasks), Linked(q, Tasks), NEW t \in Tasks
    PROVE  InGiven(q, PortEnqueue(q, "INPUT", t), t)
<1> DEFINE r == PortEnqueue(q, "INPUT", t)
<1>1. /\ r.queue["OUTPUT_PORT"] # <<>> /\ r.status[t] = "OUTPUT_PORT"
      /\ \A u \in Tasks \ {t} : r.status[u] = q.status[u]
      /\ ~q.asserted /\ q.status[t] = "INPUT_HOLD" => ~r.asserted
  BY InputEnqueue
<1>2. ASSUME q.status[t] = "INPUT_HOLD"
      PROVE  /\ r.queue["OUTPUT_PORT"] = Append(q.queue["OUTPUT_PORT"], t)
             /\ r.queue["INPUT_PORT"] = q.queue["INPUT_PORT"]
  <2>1. q.status[t] \in HoldStatuses
    BY <1>2 DEF HoldStatuses
  <2> QED BY <2>1, InputAppend
<1> HIDE DEF r
<1>3. InGiven(q, r, t)
  BY <1>1, <1>2 DEF InGiven
<1> QED BY <1>3 DEF r

(* An enqueue to the output port.                                          *)
LEMMA OutGivenFacts ==
    ASSUME NEW q \in QueuesOf(Tasks), Linked(q, Tasks), NEW t \in Tasks
    PROVE  OutGiven(q, PortEnqueue(q, "OUTPUT", t), t)
<1> DEFINE r == PortEnqueue(q, "OUTPUT", t)
<1>1. /\ r.queue["INPUT_PORT"] # <<>> /\ r.status[t] = "INPUT_PORT"
      /\ \A u \in Tasks \ {t} : r.status[u] = q.status[u]
      /\ ~q.asserted /\ q.status[t] = "OUTPUT_HOLD" => ~r.asserted
  BY OutputEnqueue
<1>2. ASSUME q.status[t] = "OUTPUT_HOLD"
      PROVE  /\ r.queue["INPUT_PORT"] = Append(q.queue["INPUT_PORT"], t)
             /\ r.queue["OUTPUT_PORT"] = q.queue["OUTPUT_PORT"]
  <2>1. q.status[t] \in HoldStatuses
    BY <1>2 DEF HoldStatuses
  <2> QED BY <2>1, OutputAppend
<1> HIDE DEF r
<1>3. OutGiven(q, r, t)
  BY <1>1, <1>2 DEF OutGiven
<1> QED BY <1>3 DEF r

-----------------------------------------------------------------------------
(* v1 takes a task: its frame is the one to encode. *)
LEMMA TakeFacts ==
    ASSUME Base, EncTake
    PROVE  /\ UNCHANGED <<mode, outq, packet, ctrl, cmd, ctl, put, get, rst, clr, count,
                        resets, freed, got>>
           /\ mode.version = "v1" /\ enc.pc = "take" /\ enc'.rdy = enc.rdy
           /\ \/ /\ ~HasTask(inq, "OUTPUT") /\ enc'.pc = "crashed"
                 /\ UNCHANGED <<inq, frame>>
              \/ /\ OutTaken(inq, inq', enc'.task_in)
                 /\ enc'.work = frame[enc'.task_in]
                 /\ frame' = [frame EXCEPT ![enc'.task_in] = None]
                 /\ enc'.pc = IF enc'.work = None THEN "return_empty" ELSE "encode"
<1>0. /\ TypeOK /\ EncTasks /\ enc \in EncType /\ mode.version \in {"v1", "v2"}
      /\ inq \in QueuesOf(Tasks) /\ Linked(inq, Tasks)
      /\ outq \in QueuesOf(Tasks) /\ Linked(outq, Tasks)
  BY Constants DEF Base, TasksInv, TypeOK, LinksInv, ModeType
<1>1. UNCHANGED <<outq, packet, ctrl, cmd, encRest>> /\ mode.version = "v1" /\ enc.pc = "take"
  BY DEF EncTake
<1>2. CASE HasTask(inq, "OUTPUT")
  <2> DEFINE t == NextTask(inq, "OUTPUT")
  <2>1. /\ inq' = PortDequeue(inq, "OUTPUT") /\ frame' = [frame EXCEPT ![t] = None]
        /\ enc' = [enc EXCEPT !.pc = IF frame[t] = None THEN "return_empty" ELSE "encode",
                              !.task_in = t, !.work = frame[t]]
    BY <1>2 DEF EncTake
  <2>2. OutTaken(inq, inq', t)
    BY <1>0, <1>2, <2>1, OutTakenFacts
  <2> HIDE DEF t
  <2>3. /\ enc'.task_in = t /\ enc'.work = frame[t] /\ enc'.rdy = enc.rdy
        /\ enc'.pc = IF frame[t] = None THEN "return_empty" ELSE "encode"
    BY <1>0, <2>1 DEF EncType
  <2> QED BY <1>1, <2>1, <2>2, <2>3 DEF encRest
<1>3. CASE ~HasTask(inq, "OUTPUT")
  <2>1. /\ enc' = [enc EXCEPT !.pc = "crashed", !.task_in = None]
        /\ UNCHANGED <<inq, frame>>
    BY <1>3 DEF EncTake
  <2>2. enc'.pc = "crashed" /\ enc'.rdy = enc.rdy
    BY <1>0, <2>1 DEF EncType
  <2> QED BY <1>1, <1>3, <2>1, <2>2 DEF encRest
<1> QED BY <1>2, <1>3

(* v1 gives a task without a frame back. *)
LEMMA ReturnEmptyFacts ==
    ASSUME Base, EncReturnEmpty
    PROVE  /\ UNCHANGED <<mode, outq, frame, packet, ctrl, cmd, ctl, get, rst, clr, count,
                        resets, freed, got>>
           /\ enc.pc = "return_empty" /\ enc'.pc = "loop" /\ enc'.rdy = enc.rdy
           /\ put' = Signalled(put) /\ OutGiven(inq, inq', enc.task_in)
<1>0. /\ TypeOK /\ EncTasks /\ enc \in EncType /\ mode.version \in {"v1", "v2"}
      /\ inq \in QueuesOf(Tasks) /\ Linked(inq, Tasks)
      /\ outq \in QueuesOf(Tasks) /\ Linked(outq, Tasks)
  BY Constants DEF Base, TasksInv, TypeOK, LinksInv, ModeType
<1>1. /\ enc.pc = "return_empty" /\ inq' = PortEnqueue(inq, "OUTPUT", enc.task_in)
      /\ put' = Signalled(put) /\ enc' = [enc EXCEPT !.pc = "loop"]
      /\ UNCHANGED <<outq, frame, packet, ctrl, cmd, mode, ctl, get, rst, clr, count,
                     resets, freed, got>>
  BY DEF EncReturnEmpty
<1>2. OutGiven(inq, inq', enc.task_in)
  BY <1>0, <1>1, OutGivenFacts DEF EncTasks, HoldsIn
<1>3. enc'.pc = "loop" /\ enc'.rdy = enc.rdy
  BY <1>0, <1>1 DEF EncType
<1> QED BY <1>1, <1>2, <1>3

(* v1 gives the frame back with its task. *)
LEMMA ReturnFacts ==
    ASSUME Base, EncReturn
    PROVE  /\ UNCHANGED <<mode, outq, packet, ctrl, cmd, ctl, get, rst, clr, count,
                        resets, freed, got>>
           /\ mode.version = "v1" /\ enc.pc = "encode" /\ enc'.pc = "take_out"
           /\ enc'.rdy = enc.rdy /\ enc'.work = enc.work
           /\ frame' = [frame EXCEPT ![enc.task_in] = enc.work]
           /\ put' = Signalled(put) /\ OutGiven(inq, inq', enc.task_in)
<1>0. /\ TypeOK /\ EncTasks /\ enc \in EncType /\ mode.version \in {"v1", "v2"}
      /\ inq \in QueuesOf(Tasks) /\ Linked(inq, Tasks)
      /\ outq \in QueuesOf(Tasks) /\ Linked(outq, Tasks)
  BY Constants DEF Base, TasksInv, TypeOK, LinksInv, ModeType
<1>1. /\ mode.version = "v1" /\ enc.pc = "encode"
      /\ inq' = PortEnqueue(inq, "OUTPUT", enc.task_in)
      /\ frame' = [frame EXCEPT ![enc.task_in] = enc.work]
      /\ put' = Signalled(put) /\ enc' = [enc EXCEPT !.pc = "take_out", !.task_in = None]
      /\ UNCHANGED <<outq, packet, ctrl, cmd, mode, ctl, get, rst, clr, count,
                     resets, freed, got>>
  BY DEF EncReturn
<1>2. OutGiven(inq, inq', enc.task_in)
  BY <1>0, <1>1, OutGivenFacts DEF EncTasks, HoldsIn
<1>3. enc'.pc = "take_out" /\ enc'.rdy = enc.rdy /\ enc'.work = enc.work
  BY <1>0, <1>1 DEF EncType
<1> QED BY <1>1, <1>2, <1>3

(* v1 takes a task for the packet. *)
LEMMA TakeOutFacts ==
    ASSUME Base, EncTakeOut
    PROVE  /\ UNCHANGED <<mode, inq, frame, packet, ctrl, cmd, ctl, put, get, rst, clr,
                        count, resets, freed, got>>
           /\ mode.version = "v1" /\ enc.pc = "take_out"
           /\ \/ /\ ~HasTask(outq, "INPUT") /\ enc'.pc = "loop" /\ enc'.rdy = {}
                 /\ UNCHANGED outq
              \/ /\ InTaken(outq, outq', enc'.task_out) /\ enc'.pc = "send"
                 /\ enc'.rdy = enc.rdy /\ enc'.work = enc.work
<1>0. /\ TypeOK /\ EncTasks /\ enc \in EncType /\ mode.version \in {"v1", "v2"}
      /\ inq \in QueuesOf(Tasks) /\ Linked(inq, Tasks)
      /\ outq \in QueuesOf(Tasks) /\ Linked(outq, Tasks)
  BY Constants DEF Base, TasksInv, TypeOK, LinksInv, ModeType
<1>1. /\ UNCHANGED <<inq, frame, packet, ctrl, cmd, encRest>>
      /\ mode.version = "v1" /\ enc.pc = "take_out"
  BY <1>0 DEF EncTakeOut, EncTasks
<1>2. CASE HasTask(outq, "INPUT")
  <2>1. /\ outq' = PortDequeue(outq, "INPUT")
        /\ enc' = [enc EXCEPT !.pc = "send", !.task_out = NextTask(outq, "INPUT")]
    BY <1>2 DEF EncTakeOut
  <2>2. InTaken(outq, outq', NextTask(outq, "INPUT"))
    BY <1>0, <1>2, <2>1, InTakenFacts
  <2>3. /\ enc'.task_out = NextTask(outq, "INPUT") /\ enc'.work = enc.work
        /\ enc'.rdy = enc.rdy /\ enc'.pc = "send"
    BY <1>0, <2>1 DEF EncType
  <2> QED BY <1>1, <2>2, <2>3 DEF encRest
<1>3. CASE ~HasTask(outq, "INPUT")
  <2>1. enc' = [enc EXCEPT !.pc = "loop", !.rdy = {}, !.work = None] /\ UNCHANGED outq
    BY <1>3 DEF EncTakeOut
  <2>2. enc'.pc = "loop" /\ enc'.rdy = {}
    BY <1>0, <2>1 DEF EncType
  <2> QED BY <1>1, <1>3, <2>1, <2>2 DEF encRest
<1> QED BY <1>2, <1>3

(* v1 sends the packet. *)
LEMMA SendFacts ==
    ASSUME Base, EncSend
    PROVE  /\ UNCHANGED <<mode, inq, frame, ctrl, cmd, ctl, put, rst, clr, count,
                        resets, freed, got>>
           /\ mode.version = "v1" /\ enc.pc = "send" /\ enc'.pc = "loop" /\ enc'.rdy = {}
           /\ packet' = [packet EXCEPT ![enc.task_out] = enc.work]
           /\ get' = Signalled(get) /\ InGiven(outq, outq', enc.task_out)
<1>0. /\ TypeOK /\ EncTasks /\ enc \in EncType /\ mode.version \in {"v1", "v2"}
      /\ inq \in QueuesOf(Tasks) /\ Linked(inq, Tasks)
      /\ outq \in QueuesOf(Tasks) /\ Linked(outq, Tasks)
  BY Constants DEF Base, TasksInv, TypeOK, LinksInv, ModeType
<1>1. /\ mode.version = "v1" /\ enc.pc = "send"
      /\ outq' = PortEnqueue(outq, "INPUT", enc.task_out)
      /\ packet' = [packet EXCEPT ![enc.task_out] = enc.work]
      /\ get' = Signalled(get)
      /\ enc' = [enc EXCEPT !.pc = "loop", !.rdy = {}, !.work = None, !.task_out = None]
      /\ UNCHANGED <<inq, frame, ctrl, cmd, mode, ctl, put, rst, clr, count,
                     resets, freed, got>>
  BY DEF EncSend
<1>2. InGiven(outq, outq', enc.task_out)
  BY <1>0, <1>1, InGivenFacts DEF EncTasks, HoldsOut
<1>3. enc'.pc = "loop" /\ enc'.rdy = {}
  BY <1>0, <1>1 DEF EncType
<1> QED BY <1>1, <1>2, <1>3

(* v2 takes the task of the frame. *)
LEMMA TakeFrameFacts ==
    ASSUME Base, EncTakeFrame
    PROVE  /\ UNCHANGED <<mode, frame, outq, packet, ctrl, cmd, ctl, put, get, rst, clr,
                        count, resets, freed, got>>
           /\ mode.version = "v2" /\ enc.pc = "take" /\ enc'.rdy = enc.rdy
           /\ \/ /\ ~HasTask(inq, "OUTPUT") /\ enc'.pc = "crashed" /\ UNCHANGED inq
              \/ OutTaken(inq, inq', enc'.task_in) /\ enc'.pc = "take_packet"
<1>0. /\ TypeOK /\ EncTasks /\ enc \in EncType /\ mode.version \in {"v1", "v2"}
      /\ inq \in QueuesOf(Tasks) /\ Linked(inq, Tasks)
      /\ outq \in QueuesOf(Tasks) /\ Linked(outq, Tasks)
  BY Constants DEF Base, TasksInv, TypeOK, LinksInv, ModeType
<1>1. /\ UNCHANGED <<frame, outq, packet, ctrl, cmd, encRest>>
      /\ mode.version = "v2" /\ enc.pc = "take"
  BY DEF EncTakeFrame
<1>2. CASE HasTask(inq, "OUTPUT")
  <2>1. /\ inq' = PortDequeue(inq, "OUTPUT")
        /\ enc' = [enc EXCEPT !.pc = "take_packet", !.task_in = NextTask(inq, "OUTPUT")]
    BY <1>2 DEF EncTakeFrame
  <2>2. OutTaken(inq, inq', NextTask(inq, "OUTPUT"))
    BY <1>0, <1>2, <2>1, OutTakenFacts
  <2>3. /\ enc'.task_in = NextTask(inq, "OUTPUT")
        /\ enc'.rdy = enc.rdy /\ enc'.pc = "take_packet"
    BY <1>0, <2>1 DEF EncType
  <2> QED BY <1>1, <2>2, <2>3 DEF encRest
<1>3. CASE ~HasTask(inq, "OUTPUT")
  <2>1. enc' = [enc EXCEPT !.pc = "crashed"] /\ UNCHANGED inq
    BY <1>3 DEF EncTakeFrame
  <2>2. enc'.pc = "crashed" /\ enc'.rdy = enc.rdy
    BY <1>0, <2>1 DEF EncType
  <2> QED BY <1>1, <1>3, <2>1, <2>2 DEF encRest
<1> QED BY <1>2, <1>3

(* v2 takes the task for the packet, and the frame. *)
LEMMA TakePacketFacts ==
    ASSUME Base, EncTakePacket
    PROVE  /\ UNCHANGED <<mode, inq, packet, ctrl, ctl, put, get, rst, clr, count,
                        resets, freed, got>>
           /\ mode.version = "v2" /\ enc.pc = "take_packet" /\ enc'.rdy = enc.rdy
           /\ enc'.task_in = enc.task_in /\ enc.task_in \in Tasks
           /\ \/ /\ ~HasTask(outq, "INPUT") /\ enc'.pc = "crashed"
                 /\ UNCHANGED <<outq, frame>>
              \/ /\ InTaken(outq, outq', enc'.task_out)
                 /\ enc'.work = frame[enc.task_in]
                 /\ frame' = [frame EXCEPT ![enc.task_in] = None]
                 /\ enc'.pc = IF enc'.work = None THEN "send" ELSE "encode"
<1>0. /\ TypeOK /\ EncTasks /\ enc \in EncType /\ mode.version \in {"v1", "v2"}
      /\ inq \in QueuesOf(Tasks) /\ Linked(inq, Tasks)
      /\ outq \in QueuesOf(Tasks) /\ Linked(outq, Tasks)
  BY Constants DEF Base, TasksInv, TypeOK, LinksInv, ModeType
<1>1. /\ UNCHANGED <<inq, packet, ctrl, encRest>>
      /\ mode.version = "v2" /\ enc.pc = "take_packet" /\ enc.task_in \in Tasks
  BY <1>0 DEF EncTakePacket, EncTasks, HoldsIn
<1>2. CASE HasTask(outq, "INPUT")
  <2> DEFINE f == frame[enc.task_in]
             t == NextTask(outq, "INPUT")
  <2>1. /\ outq' = PortDequeue(outq, "INPUT")
        /\ frame' = [frame EXCEPT ![enc.task_in] = None]
        /\ enc' = [enc EXCEPT !.pc = IF f = None THEN "send" ELSE "encode",
                              !.task_out = t, !.work = f]
    BY <1>2 DEF EncTakePacket
  <2>2. InTaken(outq, outq', t)
    BY <1>0, <1>2, <2>1, InTakenFacts
  <2> HIDE DEF f, t
  <2>3. /\ enc'.task_out = t /\ enc'.work = f /\ enc'.rdy = enc.rdy
        /\ enc'.task_in = enc.task_in
        /\ enc'.pc = IF f = None THEN "send" ELSE "encode"
    BY <1>0, <2>1 DEF EncType
  <2> QED BY <1>1, <2>1, <2>2, <2>3 DEF encRest, f
<1>3. CASE ~HasTask(outq, "INPUT")
  <2>1. enc' = [enc EXCEPT !.pc = "crashed"] /\ UNCHANGED <<outq, frame>>
    BY <1>3 DEF EncTakePacket
  <2>2. enc'.pc = "crashed" /\ enc'.rdy = enc.rdy /\ enc'.task_in = enc.task_in
    BY <1>0, <2>1 DEF EncType
  <2> QED BY <1>1, <1>3, <2>1, <2>2 DEF encRest
<1> QED BY <1>2, <1>3

(* v2 sends the packet. *)
LEMMA SendFirstFacts ==
    ASSUME Base, EncSendFirst
    PROVE  /\ UNCHANGED <<mode, inq, frame, ctrl, cmd, ctl, put, rst, clr, count,
                        resets, freed, got>>
           /\ mode.version = "v2" /\ enc.pc \in {"encode", "send"} /\ enc'.pc = "return"
           /\ enc'.rdy = enc.rdy /\ enc'.work = enc.work /\ enc'.task_in = enc.task_in
           /\ packet' = [packet EXCEPT ![enc.task_out] = enc.work]
           /\ get' = Signalled(get) /\ InGiven(outq, outq', enc.task_out)
<1>0. /\ TypeOK /\ EncTasks /\ enc \in EncType /\ mode.version \in {"v1", "v2"}
      /\ inq \in QueuesOf(Tasks) /\ Linked(inq, Tasks)
      /\ outq \in QueuesOf(Tasks) /\ Linked(outq, Tasks)
  BY Constants DEF Base, TasksInv, TypeOK, LinksInv, ModeType
<1>1. /\ mode.version = "v2" /\ enc.pc \in {"encode", "send"}
      /\ outq' = PortEnqueue(outq, "INPUT", enc.task_out)
      /\ packet' = [packet EXCEPT ![enc.task_out] = enc.work]
      /\ get' = Signalled(get)
      /\ enc' = [enc EXCEPT !.pc = "return", !.task_out = None]
      /\ UNCHANGED <<inq, frame, ctrl, cmd, mode, ctl, put, rst, clr, count,
                     resets, freed, got>>
  BY DEF EncSendFirst
<1>2. InGiven(outq, outq', enc.task_out)
  BY <1>0, <1>1, InGivenFacts DEF EncTasks, HoldsOut
<1>3. /\ enc'.pc = "return" /\ enc'.rdy = enc.rdy /\ enc'.work = enc.work
      /\ enc'.task_in = enc.task_in
  BY <1>0, <1>1 DEF EncType
<1> QED BY <1>1, <1>2, <1>3

(* v2 gives the frame back. *)
LEMMA ReturnLastFacts ==
    ASSUME Base, EncReturnLast
    PROVE  /\ UNCHANGED <<mode, outq, packet, ctrl, cmd, ctl, get, rst, clr, count,
                        resets, freed, got>>
           /\ mode.version = "v2" /\ enc.pc = "return" /\ enc'.pc = "loop" /\ enc'.rdy = {}
           /\ frame' = [frame EXCEPT ![enc.task_in] = enc.work]
           /\ put' = Signalled(put) /\ OutGiven(inq, inq', enc.task_in)
<1>0. /\ TypeOK /\ EncTasks /\ enc \in EncType /\ mode.version \in {"v1", "v2"}
      /\ inq \in QueuesOf(Tasks) /\ Linked(inq, Tasks)
      /\ outq \in QueuesOf(Tasks) /\ Linked(outq, Tasks)
  BY Constants DEF Base, TasksInv, TypeOK, LinksInv, ModeType
<1>1. /\ enc.pc = "return" /\ inq' = PortEnqueue(inq, "OUTPUT", enc.task_in)
      /\ frame' = [frame EXCEPT ![enc.task_in] = enc.work]
      /\ put' = Signalled(put)
      /\ enc' = [enc EXCEPT !.pc = "loop", !.rdy = {}, !.work = None, !.task_in = None]
      /\ UNCHANGED <<outq, packet, ctrl, cmd, mode, ctl, get, rst, clr, count,
                     resets, freed, got>>
  BY DEF EncReturnLast
<1>2. OutGiven(inq, inq', enc.task_in) /\ mode.version = "v2"
  BY <1>0, <1>1, OutGivenFacts DEF EncTasks, HoldsIn
<1>3. enc'.pc = "loop" /\ enc'.rdy = {}
  BY <1>0, <1>1 DEF EncType
<1> QED BY <1>1, <1>2, <1>3

(* The frames left are dropped. *)
LEMMA DrainInFacts ==
    ASSUME Base, EncDrainIn
    PROVE  /\ UNCHANGED <<mode, outq, packet, ctrl, cmd, ctl, put, get, rst, clr, count,
                        resets, freed, got>>
           /\ enc.pc = "drain_in" /\ enc'.pc \in {"drain_in", "drain_out"}
           /\ inq.asserted = FALSE => inq'.asserted = FALSE
           /\ \/ UNCHANGED <<inq, frame>>
              \/ \E t \in Tasks :
                    /\ frame' = [frame EXCEPT ![t] = None]
                    /\ inq.status[t] = "OUTPUT_PORT" /\ inq'.status[t] = "INPUT_PORT"
                    /\ \A u \in Tasks \ {t} : inq'.status[u] = inq.status[u]
                    /\ inq'.queue["INPUT_PORT"] # <<>>
<1>0. /\ TypeOK /\ EncTasks /\ enc \in EncType /\ mode.version \in {"v1", "v2"}
      /\ inq \in QueuesOf(Tasks) /\ Linked(inq, Tasks)
      /\ outq \in QueuesOf(Tasks) /\ Linked(outq, Tasks)
  BY Constants DEF Base, TasksInv, TypeOK, LinksInv, ModeType
<1>1. UNCHANGED <<outq, packet, ctrl, cmd, encRest>> /\ enc.pc = "drain_in"
  BY DEF EncDrainIn
<1>2. CASE HasTask(inq, "OUTPUT")
  <2> DEFINE t == NextTask(inq, "OUTPUT")
  <2>1. inq' = Released(inq) /\ frame' = [frame EXCEPT ![t] = None] /\ enc' = enc
    BY <1>2 DEF EncDrainIn
  <2>2. /\ t \in Tasks /\ inq.status[t] = "OUTPUT_PORT" /\ inq'.status[t] = "INPUT_PORT"
        /\ ~inq.asserted => ~inq'.asserted
        /\ \A u \in Tasks \ {t} : inq'.status[u] = inq.status[u]
        /\ inq'.queue["INPUT_PORT"] # <<>>
    BY <1>0, <1>2, <2>1, ReleasedFacts
  <2>3. inq' \in QueuesOf(Tasks)
    BY <1>0, <1>2, <2>1, ReleasedFacts
  <2> HIDE DEF t
  <2> QED BY <1>0, <1>1, <2>1, <2>2, <2>3 DEF encRest, QueuesOf
<1>3. CASE ~HasTask(inq, "OUTPUT")
  <2>1. enc' = [enc EXCEPT !.pc = "drain_out"] /\ UNCHANGED <<inq, frame>>
    BY <1>3 DEF EncDrainIn
  <2>2. enc'.pc = "drain_out"
    BY <1>0, <2>1 DEF EncType
  <2> QED BY <1>1, <2>1, <2>2 DEF encRest
<1> QED BY <1>2, <1>3

(* The packets left are dropped. *)
LEMMA DrainOutFacts ==
    ASSUME Base, EncDrainOut
    PROVE  /\ UNCHANGED <<mode, inq, frame, ctrl, cmd, ctl, put, get, rst, clr, count,
                        resets, freed, got>>
           /\ enc.pc = "drain_out" /\ enc'.pc \in {"drain_out", "exited"}
           /\ outq.asserted = FALSE => outq'.asserted = FALSE
           /\ \/ UNCHANGED <<outq, packet>>
              \/ \E t \in Tasks :
                    /\ outq'.status[t] = "INPUT_PORT"
                    /\ \A u \in Tasks \ {t} : outq'.status[u] = outq.status[u]
<1>0. /\ TypeOK /\ EncTasks /\ enc \in EncType /\ mode.version \in {"v1", "v2"}
      /\ inq \in QueuesOf(Tasks) /\ Linked(inq, Tasks)
      /\ outq \in QueuesOf(Tasks) /\ Linked(outq, Tasks)
  BY Constants DEF Base, TasksInv, TypeOK, LinksInv, ModeType
<1>1. UNCHANGED <<inq, frame, ctrl, cmd, encRest>> /\ enc.pc = "drain_out"
  BY DEF EncDrainOut
<1>2. CASE HasTask(outq, "OUTPUT")
  <2> DEFINE t == NextTask(outq, "OUTPUT")
  <2>1. outq' = Released(outq) /\ enc' = enc
    BY <1>2 DEF EncDrainOut
  <2>2. /\ t \in Tasks /\ outq'.status[t] = "INPUT_PORT"
        /\ ~outq.asserted => ~outq'.asserted
        /\ \A u \in Tasks \ {t} : outq'.status[u] = outq.status[u]
    BY <1>0, <1>2, <2>1, ReleasedFacts
  <2>3. outq' \in QueuesOf(Tasks)
    BY <1>0, <1>2, <2>1, ReleasedFacts
  <2> HIDE DEF t
  <2> QED BY <1>0, <1>1, <2>1, <2>2, <2>3 DEF encRest, QueuesOf
<1>3. CASE ~HasTask(outq, "OUTPUT")
  <2>1. enc' = [enc EXCEPT !.pc = "exited"] /\ UNCHANGED <<outq, packet>>
    BY <1>3 DEF EncDrainOut
  <2>2. enc'.pc = "exited"
    BY <1>0, <2>1 DEF EncType
  <2> QED BY <1>1, <2>1, <2>2 DEF encRest
<1> QED BY <1>2, <1>3

(* put_frame takes a task. *)
LEMMA PutTakeFacts ==
    ASSUME Base, PutTake
    PROVE  /\ UNCHANGED <<mode, cmd, ctl, outq, packet, get, rst, clr, resets, got, frame, enc,
                        ctrl, count, freed>>
           /\ put.pc \in {"take_idle", "take_done"} /\ put'.pc \in {"took_idle", "took_done"}
           /\ put'.poll = put.poll /\ InTaken(inq, inq', put'.mInputTask)
<1>0. /\ TypeOK /\ PutTasks /\ put \in PutType /\ inq \in QueuesOf(Tasks) /\ Linked(inq, Tasks)
  BY DEF Base, TasksInv, TypeOK, LinksInv
<1>1. /\ UNCHANGED <<frame, enc, ctrl, count, freed, putRest>>
      /\ inq' = PortDequeue(inq, "INPUT") /\ HasTask(inq, "INPUT")
      /\ put.pc \in {"take_idle", "take_done"}
      /\ put' = [put EXCEPT !.pc = IF @ = "take_idle" THEN "took_idle" ELSE "took_done",
                            !.mInputTask = NextTask(inq, "INPUT")]
  BY <1>0 DEF PutTake, PutTasks
<1>2. InTaken(inq, inq', NextTask(inq, "INPUT"))
  BY <1>0, <1>1, InTakenFacts
<1>3. /\ put'.pc \in {"took_idle", "took_done"} /\ put'.poll = put.poll
      /\ put'.mInputTask = NextTask(inq, "INPUT")
  BY <1>0, <1>1 DEF PutType
<1> QED BY <1>1, <1>2, <1>3 DEF putRest

(* put_frame enqueues the task. *)
LEMMA PutEnqueueFacts ==
    ASSUME Base, PutEnqueue
    PROVE  /\ UNCHANGED <<mode, cmd, ctl, outq, packet, get, rst, clr, resets, got, frame, enc,
                        ctrl, count, freed>>
           /\ put.pc = "enqueue" /\ put'.pc = "notify" /\ put'.poll = put.poll
           /\ put'.mInputTask = put.mInputTask /\ InGiven(inq, inq', put.mInputTask)
<1>0. /\ TypeOK /\ PutTasks /\ put \in PutType /\ inq \in QueuesOf(Tasks) /\ Linked(inq, Tasks)
  BY DEF Base, TasksInv, TypeOK, LinksInv
<1>1. /\ UNCHANGED <<frame, enc, ctrl, count, freed, putRest>>
      /\ inq' = PortEnqueue(inq, "INPUT", put.mInputTask)
      /\ put.pc = "enqueue" /\ put' = [put EXCEPT !.pc = "notify"]
      /\ put.mInputTask \in Tasks
  BY <1>0 DEF PutEnqueue, PutTasks
<1>2. InGiven(inq, inq', put.mInputTask)
  BY <1>0, <1>1, InGivenFacts
<1>3. put'.pc = "notify" /\ put'.poll = put.poll /\ put'.mInputTask = put.mInputTask
  BY <1>0, <1>1 DEF PutType
<1> QED BY <1>1, <1>2, <1>3 DEF putRest

(* put_frame fills the task. *)
LEMMA PutFillFacts ==
    ASSUME Base, PutFill
    PROVE  /\ UNCHANGED <<mode, cmd, ctl, inq, outq, packet, get, rst, clr, resets, got, enc,
                        ctrl, freed>>
           /\ put.pc = "fill" /\ put'.pc = "enqueue" /\ put'.poll = put.poll
           /\ put'.mInputTask = put.mInputTask /\ put.mInputTask \in Tasks
           /\ count' = count + 1 /\ count \in Nat
           /\ \E f \in {count + 1, None} :
                 /\ frame' = [frame EXCEPT ![put.mInputTask] = f]
                 /\ ~mode.empty => f = count + 1
<1>0. /\ TypeOK /\ PutTasks /\ put \in PutType /\ inq \in QueuesOf(Tasks) /\ Linked(inq, Tasks)
  BY DEF Base, TasksInv, TypeOK, LinksInv
<1>1. /\ UNCHANGED <<inq, enc, ctrl, freed, putRest>> /\ count' = count + 1
      /\ put.pc = "fill" /\ put' = [put EXCEPT !.pc = "enqueue"]
      /\ put.mInputTask \in Tasks
  BY <1>0 DEF PutFill, PutTasks
<1>2. \E f \in {count + 1, None} :
         /\ frame' = [frame EXCEPT ![put.mInputTask] = f]
         /\ ~mode.empty => f = count + 1
  BY DEF PutFill
<1>3. put'.pc = "enqueue" /\ put'.poll = put.poll /\ put'.mInputTask = put.mInputTask
  BY <1>0, <1>1 DEF PutType
<1>4. count \in Nat
  BY <1>0, Constants DEF TypeOK
<1> QED BY <1>1, <1>2, <1>3, <1>4 DEF putRest

(* put_frame releases the frame that came back. *)
LEMMA PutFreeFacts ==
    ASSUME Base, PutFree
    PROVE  /\ UNCHANGED <<mode, cmd, ctl, inq, outq, packet, get, rst, clr, resets, got, enc,
                        ctrl, count>>
           /\ put.pc = "free" /\ put'.pc = "idle" /\ put'.poll = put.poll
           /\ put'.mInputTask = put.mInputTask /\ put.mInputTask \in Tasks
           /\ freed' = freed \cup ({frame[put.mInputTask]} \ {None})
           /\ frame' = [frame EXCEPT ![put.mInputTask] = None]
<1>0. /\ TypeOK /\ PutTasks /\ put \in PutType /\ inq \in QueuesOf(Tasks) /\ Linked(inq, Tasks)
  BY DEF Base, TasksInv, TypeOK, LinksInv
<1>1. /\ UNCHANGED <<inq, enc, ctrl, count, putRest>>
      /\ freed' = freed \cup ({frame[put.mInputTask]} \ {None})
      /\ frame' = [frame EXCEPT ![put.mInputTask] = None]
      /\ put.pc = "free" /\ put' = [put EXCEPT !.pc = "idle"]
      /\ put.mInputTask \in Tasks
  BY <1>0 DEF PutFree, PutTasks
<1>2. put'.pc = "idle" /\ put'.poll = put.poll /\ put'.mInputTask = put.mInputTask
  BY <1>0, <1>1 DEF PutType
<1> QED BY <1>1, <1>2 DEF putRest

(* get_packet takes a task. *)
LEMMA GetTakeFacts ==
    ASSUME Base, GetTake
    PROVE  /\ UNCHANGED <<mode, cmd, ctl, inq, frame, put, rst, clr, count, resets, freed, packet,
                        enc, ctrl, got>>
           /\ get.pc = "take" /\ get'.pc = "took" /\ OutTaken(outq, outq', get'.task)
<1>0. /\ TypeOK /\ GetTasks /\ get \in GetType /\ outq \in QueuesOf(Tasks) /\ Linked(outq, Tasks)
  BY DEF Base, TasksInv, TypeOK, LinksInv
<1>1. /\ UNCHANGED <<packet, enc, ctrl, got, getRest>>
      /\ outq' = PortDequeue(outq, "OUTPUT") /\ HasTask(outq, "OUTPUT")
      /\ get.pc = "take"
      /\ get' = [get EXCEPT !.pc = "took", !.task = NextTask(outq, "OUTPUT")]
  BY <1>0 DEF GetTake, GetTasks
<1>2. OutTaken(outq, outq', NextTask(outq, "OUTPUT"))
  BY <1>0, <1>1, OutTakenFacts
<1>3. get'.pc = "took" /\ get'.task = NextTask(outq, "OUTPUT")
  BY <1>0, <1>1 DEF GetType
<1> QED BY <1>1, <1>2, <1>3 DEF getRest

(* get_packet takes the packet out of the task. *)
LEMMA GetTookFacts ==
    ASSUME Base, GetTook
    PROVE  /\ UNCHANGED <<mode, cmd, ctl, inq, outq, frame, put, rst, clr, count, resets, freed>>
           /\ get.pc = "took" /\ get'.pc = "enqueue" /\ get'.task = get.task
           /\ get.task \in Tasks
           /\ got' = Append(got, packet[get.task])
           /\ packet' = [packet EXCEPT ![get.task] = None]
<1>0. /\ TypeOK /\ GetTasks /\ get \in GetType /\ outq \in QueuesOf(Tasks) /\ Linked(outq, Tasks)
  BY DEF Base, TasksInv, TypeOK, LinksInv
<1>1. /\ UNCHANGED <<outq, getRest>>
      /\ got' = Append(got, packet[get.task])
      /\ packet' = [packet EXCEPT ![get.task] = None]
      /\ get.pc = "took" /\ get' = [get EXCEPT !.pc = "enqueue"] /\ get.task \in Tasks
  BY <1>0 DEF GetTook, GetTasks
<1>2. get'.pc = "enqueue" /\ get'.task = get.task
  BY <1>0, <1>1 DEF GetType
<1> QED BY <1>1, <1>2 DEF getRest

(* get_packet gives the task back. *)
LEMMA GetEnqueueFacts ==
    ASSUME Base, GetEnqueue
    PROVE  /\ UNCHANGED <<mode, cmd, ctl, inq, frame, put, rst, clr, count, resets, freed, packet,
                        enc, ctrl, got>>
           /\ get.pc = "enqueue" /\ get'.pc = "notify" /\ OutGiven(outq, outq', get.task)
<1>0. /\ TypeOK /\ GetTasks /\ get \in GetType /\ outq \in QueuesOf(Tasks) /\ Linked(outq, Tasks)
  BY DEF Base, TasksInv, TypeOK, LinksInv
<1>1. /\ UNCHANGED <<packet, enc, ctrl, got, getRest>>
      /\ outq' = PortEnqueue(outq, "OUTPUT", get.task)
      /\ get.pc = "enqueue" /\ get' = [get EXCEPT !.pc = "notify", !.task = None]
      /\ get.task \in Tasks
  BY <1>0 DEF GetEnqueue, GetTasks
<1>2. OutGiven(outq, outq', get.task)
  BY <1>0, <1>1, OutGivenFacts
<1>3. get'.pc = "notify"
  BY <1>0, <1>1 DEF GetType
<1> QED BY <1>1, <1>2, <1>3 DEF getRest

-----------------------------------------------------------------------------
(* The steps that touch the tasks of the queues or what they carry.        *)
Moves ==
    \/ EncTake \/ EncReturnEmpty \/ EncReturn \/ EncTakeOut \/ EncSend
    \/ EncTakeFrame \/ EncTakePacket \/ EncSendFirst \/ EncReturnLast
    \/ EncDrainIn \/ EncDrainOut
    \/ PutTake \/ PutEnqueue \/ PutFill \/ PutFree
    \/ GetTake \/ GetTook \/ GetEnqueue

(* Where the encoder may have a task, or was lost with one.                *)
Holding == (Working \ {"take"}) \cup {"crashed"}

(* The others.                                                             *)
LEMMA Quiet ==
    ASSUME Base, ClearInv, [Next]_vars, ~Moves
    PROVE  /\ UNCHANGED <<mode, inq, outq, frame, packet, count, freed, got>>
           /\ enc'.task_in = enc.task_in /\ enc'.task_out = enc.task_out
           /\ enc'.work = enc.work
           /\ \/ enc'.pc = enc.pc
              \/ enc.pc \notin Holding /\ enc'.pc \notin Holding
           /\ \/ EncTurn
              \/ /\ enc'.rdy = enc.rdy
                 /\ \/ enc'.pc = enc.pc
                    \/ enc.pc = "wait" /\ enc'.pc \in {"control", "reset"}
           /\ put'.mInputTask = put.mInputTask /\ get'.task = get.task
           /\ \/ get'.pc = get.pc
              \/ {get.pc, get'.pc} \cap {"took", "enqueue"} = {}
           /\ \/ put' = put
              \/ PutStart \/ PutPoll \/ PutTimeout \/ PutPollAgain \/ PutTook \/ PutNotify
<1>0. /\ enc \in EncType /\ put \in PutType /\ get \in GetType
  BY DEF Base, TypeOK
<1>1. CASE EncTurn
  <2>1. UNCHANGED <<queues, encRest>>
    BY <1>1 DEF EncTurn, EncCheck, EncNoControl, EncControl, EncControlPost, EncControlDone,
                EncNoReset, EncReset, EncResetDone, EncPollIn, EncPollOut, EncStopping
  <2>2. /\ enc'.task_in = enc.task_in /\ enc'.task_out = enc.task_out
        /\ enc'.work = enc.work
        /\ enc.pc \notin Holding /\ enc'.pc \notin Holding
    <3>1. CASE EncPollIn
      BY <1>0, <3>1 DEF EncPollIn, EncType, Holding, Working
    <3>2. CASE EncPollOut
      BY <1>0, <3>2 DEF EncPollOut, EncType, Holding, Working
    <3>3. CASE EncCheck
      BY <1>0, <3>3 DEF EncCheck, AfterWait, EncType, Holding, Working
    <3>4. CASE EncNoControl \/ EncControl \/ EncControlPost \/ EncControlDone \/ EncNoReset
      BY <1>0, <3>4 DEF EncNoControl, EncControl, EncControlPost, EncControlDone, EncNoReset,
                        EncType, Holding, Working
    <3>5. CASE EncReset \/ EncResetDone \/ EncStopping
      BY <1>0, <3>5 DEF EncReset, EncResetDone, EncStopping, EncType, Holding, Working
    <3> QED BY <1>1, <3>1, <3>2, <3>3, <3>4, <3>5 DEF EncTurn
  <2> QED BY <1>1, <2>1, <2>2 DEF queues, encRest
<1>e. ASSUME \/ PutStart \/ PutFrame \/ PutTimeout \/ GetPacket \/ GetTimeout \/ Calls
      PROVE  /\ enc'.task_in = enc.task_in /\ enc'.task_out = enc.task_out
             /\ enc'.work = enc.work /\ enc'.rdy = enc.rdy /\ mode' = mode
             /\ \/ enc'.pc = enc.pc
                \/ enc.pc = "wait" /\ enc'.pc \in {"control", "reset"}
             /\ \/ enc'.pc = enc.pc
                \/ enc.pc \notin Holding /\ enc'.pc \notin Holding
  BY <1>e, UserSteps DEF Holding, Working
<1>2. CASE PutStart \/ PutFrame \/ PutTimeout
  <2>1. PutStart \/ PutPoll \/ PutTimeout \/ PutPollAgain \/ PutTook \/ PutNotify
    BY <1>2 DEF PutFrame, Moves
  <2>2. /\ UNCHANGED <<inq, outq, frame, packet, count, freed, got, get>>
        /\ put'.mInputTask = put.mInputTask
    BY <1>0, <2>1 DEF PutStart, PutPoll, PutTimeout, PutPollAgain, PutTook, PutNotify,
                      putRest, PutType
  <2> QED BY <1>2, <1>e, <2>1, <2>2
<1>3. CASE GetPacket \/ GetTimeout
  <2>1. GetPoll \/ GetTimeout \/ GetPollAgain \/ GetNotify
    BY <1>3 DEF GetPacket, Moves
  <2>2. /\ UNCHANGED <<inq, outq, frame, packet, count, freed, got, put>>
        /\ get'.task = get.task
    BY <1>0, <2>1 DEF GetPoll, GetTimeout, GetPollAgain, GetNotify, getRest, GetType
  <2>3. \/ get'.pc = get.pc
        \/ {get.pc, get'.pc} \cap {"took", "enqueue"} = {}
    <3>1. CASE GetPollAgain
      <4>1. get.pc = "poll"
        BY <3>1 DEF GetPollAgain, Base, TasksInv, GetTasks
      <4> QED BY <1>0, <3>1, <4>1 DEF GetPollAgain, GetType
    <3>2. CASE GetPoll \/ GetTimeout \/ GetNotify
      BY <1>0, <3>2 DEF GetPoll, GetTimeout, GetNotify, GetType
    <3> QED BY <2>1, <3>1, <3>2
  <2> QED BY <1>3, <1>e, <2>1, <2>2, <2>3
<1>4. CASE Calls
  <2>1. UNCHANGED <<queues, put, get, count, freed, got>>
    BY <1>4 DEF Calls, ResetStart, ResetCall, ResetNotify, ResetUnlock, ResetWait, rstRest,
                ControlStart, ControlNotify, ControlWait, ctlRest, ClearStop, ClearDeinit,
                clrRest, vars, users
  <2> QED BY <1>4, <1>e, <2>1 DEF queues
<1> QED BY <1>1, <1>2, <1>3, <1>4, Steps DEF Encoder, EncTurn, Moves

-----------------------------------------------------------------------------
(* The tasks of a list have the status of the list. *)
LEMMA ListStatus ==
    ASSUME NEW q \in QueuesOf(Tasks), Linked(q, Tasks)
    PROVE  /\ q.queue["OUTPUT_PORT"] \in Seq(Tasks)
           /\ Len(q.queue["OUTPUT_PORT"]) \in Nat
           /\ \A i \in 1 .. Len(q.queue["OUTPUT_PORT"]) :
                 /\ q.queue["OUTPUT_PORT"][i] \in Tasks
                 /\ q.status[q.queue["OUTPUT_PORT"][i]] = "OUTPUT_PORT"
<1> DEFINE s == q.queue["OUTPUT_PORT"]
<1>1. s \in Seq(Tasks) /\ ToSet(s) = {t \in Tasks : q.status[t] = "OUTPUT_PORT"}
  BY DEF QueuesOf, Linked, PortStatuses
<1> HIDE DEF s
<1>2. Len(s) \in Nat /\ DOMAIN s = 1 .. Len(s)
  BY <1>1
<1>3. \A i \in 1 .. Len(s) : s[i] \in ToSet(s)
  BY <1>2 DEF ToSet
<1> QED BY <1>1, <1>2, <1>3 DEF s

(* How a context is used is chosen once.                                   *)
LEMMA ModeConstant ==
    ASSUME Base, ClearInv, [Next]_vars
    PROVE  mode' = mode
<1>1. CASE Moves
  BY <1>1, TakeFacts, ReturnEmptyFacts, ReturnFacts, TakeOutFacts, SendFacts,
     TakeFrameFacts, TakePacketFacts, SendFirstFacts, ReturnLastFacts, DrainInFacts,
     DrainOutFacts, PutTakeFacts, PutEnqueueFacts, PutFillFacts, PutFreeFacts,
     GetTakeFacts, GetTookFacts, GetEnqueueFacts DEF Moves
<1>2. CASE ~Moves
  BY <1>2, Quiet
<1> QED BY <1>1, <1>2

(* A context that is being cleared stays so.                               *)
LEMMA ClearStays ==
    ASSUME Base, ClearInv, [Next]_vars, clr' = "idle"
    PROVE  clr = "idle"
<1>1. CASE Encoder
  <2>1. Moves \/ EncTurn
    BY <1>1 DEF Encoder, EncTurn, Moves
  <2>2. CASE EncTurn
    BY <2>2 DEF EncTurn, EncCheck, EncNoControl, EncControl, EncControlPost, EncControlDone,
                EncNoReset, EncReset, EncResetDone, EncPollIn, EncPollOut, EncStopping, encRest
  <2>3. CASE \/ EncTake \/ EncReturnEmpty \/ EncReturn \/ EncTakeOut \/ EncSend
             \/ EncTakeFrame
    BY <2>3 DEF EncTake, EncReturnEmpty, EncReturn, EncTakeOut, EncSend, EncTakeFrame, encRest
  <2>4. CASE \/ EncTakePacket \/ EncSendFirst \/ EncReturnLast
             \/ EncDrainIn \/ EncDrainOut
    BY <2>4 DEF EncTakePacket, EncSendFirst, EncReturnLast, EncDrainIn, EncDrainOut, encRest
  <2> QED BY <1>1, <2>2, <2>3, <2>4 DEF Encoder, EncTurn
<1>2. CASE PutStart \/ PutFrame \/ PutTimeout
  BY <1>2 DEF PutStart, PutFrame, PutTimeout, PutPoll, PutPollAgain, PutTake, PutTook, PutFill,
              PutEnqueue, PutNotify, PutFree, putRest
<1>3. CASE GetPacket \/ GetTimeout
  BY <1>3 DEF GetPacket, GetTimeout, GetPoll, GetPollAgain, GetTake, GetTook, GetEnqueue,
              GetNotify, getRest
<1>4. CASE Calls
  BY <1>4 DEF Calls, ResetStart, ResetCall, ResetNotify, ResetUnlock, ResetWait, rstRest,
              ControlStart, ControlNotify, ControlWait, ctlRest, ClearStop, ClearDeinit,
              clrRest, vars, users
<1> QED BY <1>1, <1>2, <1>3, <1>4, Steps

-----------------------------------------------------------------------------
(* The parts of the invariant. *)

(* A task on the output side of a queue that is in no list is held by the  *)
(* thread that works there.                                                *)
HoldersInv ==
    \A t \in Tasks :
        /\ inq.status[t] = "OUTPUT_HOLD" =>
              (HoldsIn \/ enc.pc = "crashed") /\ enc.task_in = t
        /\ outq.status[t] = "OUTPUT_HOLD" =>
              get.pc \in {"took", "enqueue"} /\ get.task = t

(* The hardware has the frame, or the task is about to go back with it.    *)
InUse ==
    \/ enc.pc \in {"encode", "return"}
    \/ mode.version = "v2" /\ enc.pc = "send"

(* A frame is in one place: a task, the hardware, or back with the user.   *)
FramesInv ==
    /\ freed \subseteq 1 .. count
    /\ \A t \in Tasks : frame[t] # None => frame[t] \in (1 .. count) \ freed
    /\ \A t, u \in Tasks : frame[t] # None /\ frame[t] = frame[u] => t = u
    /\ InUse /\ enc.work # None =>
          /\ enc.work \in (1 .. count) \ freed
          /\ \A t \in Tasks : frame[t] # enc.work

-----------------------------------------------------------------------------
(* The reset in progress: the flag is up from its start to its semaphore,  *)
(* the mutex is held while it notifies.                                    *)
ResetInv ==
    /\ ctrl.locked <=> rst \in {"notify", "unlock"}
    /\ rst = "idle" => ~ctrl.reset_flag /\ ctrl.enc_reset = 0
    /\ rst \in {"notify", "unlock"} => ctrl.reset_flag /\ ctrl.enc_reset = 0
    /\ rst = "sem_wait" => ctrl.enc_reset = IF ctrl.reset_flag THEN 0 ELSE 1
    /\ enc.pc = "reset_done" => ctrl.reset_flag

(* The command in progress: carried out, told to the sender, in a call.    *)
Told == IF enc.pc = "control_done" THEN 1 ELSE 0
Carried == IF enc.pc \in {"control_post", "control_done"} THEN 1 ELSE 0
Calling == IF ctl = "idle" THEN 0 ELSE 1

(* Commands sent, carried out, told and received differ by the one that is *)
(* in progress.                                                            *)
ControlInv ==
    /\ cmd.done = cmd.cmd_recv + Carried
    /\ cmd.enc_ctrl + cmd.cmd_send = cmd.cmd_recv + Told + Calling
    /\ cmd.done <= cmd.cmd_send
    /\ ctl # "idle" => mode.version = "v2"
    /\ mode.version = "v2" /\ enc.pc = "encode" => ~cmd.hdr_need_updated

(* task_in_rdy, task_out_rdy and what the encoder waits for.               *)
RdyInv ==
    /\ "in" \in enc.rdy => "FRAME_ENQUEUE" \notin enc.wait
    /\ "out" \in enc.rdy => "PACKET_ENQUEUE" \notin enc.wait
    /\ "PACKET_ENQUEUE" \in enc.wait => "in" \in enc.rdy
    /\ enc.pc = "poll_out" => "in" \in enc.rdy
    /\ enc.pc \in Working => enc.rdy = {"in", "out"}

(* An encoder that sleeps: nothing it waits for has come in since it       *)
(* looked, and no reset is on its way but one that is about to notify.     *)
SleepInv ==
    enc.pc = "wait" =>
        /\ ctrl.status_flag = enc.wait /\ enc.wait # {}
        /\ ctrl.notify_flag \cap ctrl.status_flag = {}
        /\ "CONTROL" \notin ctrl.notify_flag
        /\ ~ctrl.reset_flag \/ rst = "notify"

(* A command whose sender has notified is known to the thread.             *)
CommandInv ==
    cmd.done # cmd.cmd_send /\ ctl = "sem_wait" =>
        "CONTROL" \in ctrl.notify_flag \/ enc.pc = "control"

(* What the encoder waits for is missing, or about to be notified, or      *)
(* notified, as long as there was no reset and no command.                 *)
EventsInv ==
    /\ resets = 0 => rst = "idle"
    /\ enc.pc \in {"loop", "wait"} /\ ~Disturbed =>
          /\ "FRAME_ENQUEUE" \in enc.wait =>
                \/ ~HasTask(inq, "OUTPUT") \/ put.pc = "notify"
                \/ "FRAME_ENQUEUE" \in ctrl.notify_flag
          /\ "PACKET_ENQUEUE" \in enc.wait =>
                \/ ~HasTask(outq, "INPUT") \/ get.pc = "notify"
                \/ "PACKET_ENQUEUE" \in ctrl.notify_flag

(* Before the encoder takes its first task. *)
PreTake == Polling \cup {"poll_out", "take"}

(* The output tasks the encoder counts on are there, the holders of output *)
(* tasks have them on hold.                                                *)
ReadyInv ==
    /\ "out" \in enc.rdy /\
          (\/ enc.pc \in PreTake \cup {"take_packet", "return_empty", "take_out"}
           \/ mode.version = "v1" /\ enc.pc = "encode")
         => HasTask(outq, "INPUT")
    /\ HoldsOut => outq.status[enc.task_out] = "INPUT_HOLD"
    /\ get.pc \in {"took", "enqueue"} => outq.status[get.task] = "OUTPUT_HOLD"
    /\ ~outq.asserted
    /\ put.pc \in {"poll_idle", "take_idle"} => put.mInputTask = None

(* The uses the code gets right.                                           *)
Regular == ~EmptyForV1 /\ ~PutMayRetry

(* The same of the input queue: the input tasks the threads count on are   *)
(* there, put_frame has its task on hold, and no queued task is empty.     *)
RegularInv ==
    Regular =>
        /\ enc.pc \notin {"crashed", "return_empty"} /\ ~inq.asserted
        /\ "in" \in enc.rdy /\ enc.pc \in PreTake => HasTask(inq, "OUTPUT")
        /\ HoldsIn => inq.status[enc.task_in] = "OUTPUT_HOLD"
        /\ put.mInputTask # None
              /\ put.pc \in {"idle", "took_idle", "took_done", "fill", "enqueue", "free"}
              => inq.status[put.mInputTask] = "INPUT_HOLD"
        /\ put.poll = "woken" => HasTask(inq, "INPUT")
        /\ ~mode.empty =>
              /\ \A t \in Tasks : inq.status[t] = "OUTPUT_PORT" => frame[t] # None
              /\ put.pc = "enqueue" => frame[put.mInputTask] # None

-----------------------------------------------------------------------------
(* The packets got, the one get_packet is taking out, the packets on their *)
(* way, the frame the encoder has, the frames on their way and the one put *)
(* is about to enqueue: GetEnd .. PutEnd are the numbers of the last ones. *)
OutList == outq.queue["OUTPUT_PORT"]
InList  == inq.queue["OUTPUT_PORT"]

(* The encoder has a frame, or its packet.                                 *)
Busy ==
    \/ HoldsIn /\ enc.pc \in {"encode", "send"}
    \/ enc.pc \in {"take_out", "send"}

GetHas == IF get.pc = "took" THEN 1 ELSE 0
EncHas == IF Busy \/ enc.pc = "take_packet" THEN 1 ELSE 0
PutHas == IF put.pc = "enqueue" THEN 1 ELSE 0
GetEnd == Len(got) + GetHas
OutEnd == GetEnd + Len(OutList)
EncEnd == OutEnd + EncHas
InEnd  == EncEnd + Len(InList)
PutEnd == InEnd + PutHas

(* The tasks of a list carry consecutive numbers, or nothing.              *)
Numbered(f, s, k) == \A i \in 1 .. Len(s) : f[s[i]] \in {k + i, None}

(* From the packet got last to the frame put last the numbers go up by one. *)
InOrder ==
    /\ get.pc = "took" => packet[get.task] \in {GetEnd, None}
    /\ Numbered(packet, OutList, GetEnd)
    /\ Busy => enc.work \in {EncEnd, None}
    /\ enc.pc = "take_packet" => frame[enc.task_in] \in {EncEnd, None}
    /\ Numbered(frame, InList, EncEnd)
    /\ put.pc = "enqueue" => frame[put.mInputTask] \in {PutEnd, None}
    /\ count = PutEnd

(* The packets got are the first ones, in order.                           *)
OrderInv ==
    Regular => /\ \A i \in 1 .. Len(got) : got[i] \in {i, None}
               /\ clr = "idle" => InOrder

-----------------------------------------------------------------------------
(* Every step keeps the state of the reset.                                *)
LEMMA NextReset ==
    ASSUME Base, ClearInv, ResetInv, [Next]_vars
    PROVE  ResetInv'
<1>0. /\ TypeOK /\ PutTasks /\ GetTasks /\ enc \in EncType /\ ctrl \in CtrlType
      /\ ctrl.enc_reset \in Nat /\ ctrl.reset_flag \in BOOLEAN
  BY DEF Base, TypeOK, TasksInv, CtrlType
<1>k. ASSUME UNCHANGED <<rst, ctrl>>, enc'.pc # "reset_done" \/ enc'.pc = enc.pc
      PROVE  ResetInv'
  BY <1>k DEF ResetInv
<1>n. ASSUME NEW flag \in SUBSET Reset, Notify(flag), rst' = rst
      PROVE  ResetInv'
  <2>1. /\ ctrl'.locked = ctrl.locked
        /\ ctrl'.reset_flag = ctrl.reset_flag /\ ctrl'.enc_reset = ctrl.enc_reset
        /\ enc'.pc = enc.pc \/ enc'.pc = AfterWait
    BY <1>0, <1>n, NotifyFacts
  <2> QED BY <1>n, <2>1 DEF ResetInv, AfterWait
<1>1. CASE Encoder
  <2>1. CASE EncCheck
    BY <1>0, <2>1 DEF EncCheck, AfterWait, encRest, ResetInv, EncType, CtrlType
  <2>2. CASE EncReset
    BY <1>0, <2>2 DEF EncReset, encRest, ResetInv, EncType, CtrlType
  <2>3. CASE EncResetDone
    <3>1. /\ rst = "sem_wait" /\ ctrl.enc_reset = 0 /\ UNCHANGED rst
          /\ ctrl' = [ctrl EXCEPT !.reset_flag = FALSE, !.enc_reset = @ + 1]
          /\ enc' = [enc EXCEPT !.pc = "loop"] /\ ~ctrl.locked
      BY <1>0, <2>3 DEF EncResetDone, ResetInv, encRest, TypeOK
    <3>2. ctrl'.enc_reset = 1 /\ ~ctrl'.reset_flag /\ ~ctrl'.locked
      BY <1>0, <3>1 DEF CtrlType
    <3> QED BY <1>0, <3>1, <3>2 DEF ResetInv, EncType
  <2>4. CASE ~EncCheck /\ ~EncReset /\ ~EncResetDone
    <3>1. CASE EncTurn
      BY <1>0, <1>k, <2>4, <3>1
         DEF EncTurn, EncNoControl, EncControl, EncControlPost, EncControlDone,
             EncNoReset, EncPollIn, EncPollOut, EncStopping, encRest, EncType
    <3>2. CASE ~EncTurn
      BY <1>0, <1>1, <1>k, <3>2, EncWork DEF Polling
    <3> QED BY <3>1, <3>2
  <2> QED BY <2>1, <2>2, <2>3, <2>4
<1>2. CASE PutStart \/ PutFrame \/ PutTimeout
  BY <1>0, <1>2, <1>k, <1>n, PutMoves DEF Reset
<1>3. CASE GetPacket \/ GetTimeout
  BY <1>0, <1>3, <1>k, <1>n, GetMoves DEF Reset
<1>4. CASE Calls
  <2>1. CASE ResetStart
    BY <1>0, <2>1 DEF ResetStart, ResetInv, CtrlType
  <2>2. CASE ResetNotify
    <3>1. /\ ctrl'.locked = ctrl.locked
          /\ ctrl'.reset_flag = ctrl.reset_flag /\ ctrl'.enc_reset = ctrl.enc_reset
          /\ enc'.pc = enc.pc \/ enc'.pc = AfterWait
      BY <1>0, <2>2, NotifyFacts DEF ResetNotify
    <3> QED BY <2>2, <3>1 DEF ResetNotify, ResetInv, AfterWait
  <2>3. CASE ResetUnlock
    BY <1>0, <2>3 DEF ResetUnlock, ResetInv, CtrlType
  <2>4. CASE ResetWait
    <3>1. ~ctrl.reset_flag /\ ctrl.enc_reset = 1 /\ ~ctrl.locked
      BY <1>0, <2>4 DEF ResetWait, ResetInv
    <3>2. ctrl'.enc_reset = 0 /\ ~ctrl'.reset_flag /\ ~ctrl'.locked
      BY <1>0, <2>4, <3>1 DEF ResetWait, CtrlType
    <3> QED BY <2>4, <3>1, <3>2 DEF ResetWait, ResetInv
  <2>5. CASE ControlStart \/ ControlWait
    BY <2>5, <1>k DEF ControlStart, ControlWait, ctlRest
  <2>6. CASE ControlNotify
    BY <2>6, <1>n DEF ControlNotify, ctlRest, Reset
  <2>7. CASE ClearStop
    BY <1>0, <2>7 DEF ClearStop, WakeEnc, AfterWait, clrRest, ResetInv, EncType, CtrlType
  <2>8. CASE ClearDeinit \/ UNCHANGED vars
    BY <2>8, <1>k DEF ClearDeinit, clrRest, vars, users
  <2> QED BY <1>4, <2>1, <2>2, <2>3, <2>4, <2>5, <2>6, <2>7, <2>8 DEF Calls, ResetCall
<1> QED BY <1>1, <1>2, <1>3, <1>4, Steps

(* Every step keeps the account of the commands.                           *)
LEMMA NextControl ==
    ASSUME Base, ClearInv, ControlInv, [Next]_vars
    PROVE  ControlInv'
<1>0. /\ TypeOK /\ PutTasks /\ GetTasks /\ EncTasks
      /\ enc \in EncType /\ ctrl \in CtrlType /\ cmd \in CmdType
      /\ mode.version \in {"v1", "v2"}
      /\ ctl \in {"idle", "notify", "sem_wait"}
  BY Constants DEF Base, TypeOK, TasksInv, ModeType
<1>k. ASSUME UNCHANGED <<mode, ctl, cmd>>,
             \/ enc'.pc = enc.pc
             \/ /\ {enc.pc, enc'.pc} \cap {"control_post", "control_done"} = {}
                /\ enc'.pc = "encode" => mode.version = "v1"
      PROVE  ControlInv'
  BY <1>k DEF ControlInv, Told, Carried, Calling
<1>n. ASSUME NEW flag \in SUBSET Reset, Notify(flag), UNCHANGED <<mode, ctl, cmd>>
      PROVE  ControlInv'
  <2>1. enc'.pc = enc.pc \/ (enc.pc = "wait" /\ enc'.pc = AfterWait)
    BY <1>0, <1>n, NotifyFacts
  <2> QED BY <1>k, <1>n, <2>1 DEF AfterWait
<1>1. CASE Encoder
  <2>1. CASE EncControl
    <3>1. /\ UNCHANGED <<mode, ctl>> /\ mode.version = "v2"
          /\ enc.pc = "control" /\ enc'.pc = "control_post"
          /\ cmd.cmd_send # cmd.cmd_recv
      BY <1>0, <2>1 DEF EncControl, encRest, EncType, EncTasks
    <3>2. /\ cmd'.done = cmd.done + 1 /\ cmd'.cmd_recv = cmd.cmd_recv
          /\ cmd'.enc_ctrl = cmd.enc_ctrl /\ cmd'.cmd_send = cmd.cmd_send
      BY <1>0, <2>1 DEF EncControl, CmdType
    <3> QED BY <1>0, <3>1, <3>2 DEF ControlInv, Told, Carried, Calling, CmdType
  <2>2. CASE EncControlPost
    <3>1. /\ UNCHANGED <<mode, ctl>>
          /\ enc.pc = "control_post" /\ enc'.pc = "control_done"
      BY <1>0, <2>2 DEF EncControlPost, encRest, EncType
    <3>2. /\ cmd'.done = cmd.done /\ cmd'.cmd_recv = cmd.cmd_recv
          /\ cmd'.enc_ctrl = cmd.enc_ctrl + 1 /\ cmd'.cmd_send = cmd.cmd_send
      BY <1>0, <2>2 DEF EncControlPost, CmdType
    <3> QED BY <1>0, <3>1, <3>2 DEF ControlInv, Told, Carried, Calling, CmdType
  <2>3. CASE EncControlDone
    <3>1. /\ UNCHANGED <<mode, ctl>>
          /\ enc.pc = "control_done" /\ enc'.pc = "loop"
      BY <1>0, <2>3 DEF EncControlDone, encRest, EncType
    <3>2. /\ cmd'.done = cmd.done /\ cmd'.cmd_recv = cmd.cmd_recv + 1
          /\ cmd'.enc_ctrl = cmd.enc_ctrl /\ cmd'.cmd_send = cmd.cmd_send
      BY <1>0, <2>3 DEF EncControlDone, CmdType
    <3> QED BY <1>0, <3>1, <3>2 DEF ControlInv, Told, Carried, Calling, CmdType
  <2>4. CASE EncTakePacket
    <3>1. /\ UNCHANGED <<mode, ctl>> /\ enc.pc = "take_packet"
          /\ enc'.pc \in {"encode", "send", "crashed"}
      BY <1>0, <2>4 DEF EncTakePacket, encRest, EncType
    <3>2. /\ cmd'.done = cmd.done /\ cmd'.cmd_recv = cmd.cmd_recv
          /\ cmd'.enc_ctrl = cmd.enc_ctrl /\ cmd'.cmd_send = cmd.cmd_send
          /\ enc'.pc = "encode" => ~cmd'.hdr_need_updated
      <4> DEFINE none == frame[enc.task_in] = None
      <4>1. CASE HasTask(outq, "INPUT")
        <5>1. /\ cmd' = [cmd EXCEPT !.hdr_need_updated = @ /\ none]
              /\ enc'.pc = "encode" => ~none
          BY <1>0, <2>4, <4>1 DEF EncTakePacket, EncType
        <5> HIDE DEF none
        <5> QED BY <1>0, <5>1 DEF CmdType
      <4>2. CASE ~HasTask(outq, "INPUT")
        BY <1>0, <2>4, <4>2 DEF EncTakePacket, EncType
      <4> QED BY <4>1, <4>2
    <3> QED BY <1>0, <3>1, <3>2 DEF ControlInv, Told, Carried, Calling
  <2>5. CASE EncTurn /\ ~EncControl /\ ~EncControlPost /\ ~EncControlDone
    BY <1>0, <1>k, <2>5
       DEF EncTurn, EncCheck, AfterWait, EncNoControl, EncNoReset, EncReset, EncResetDone,
           EncPollIn, EncPollOut, EncStopping, encRest, EncType
  <2>6. CASE ~EncTurn /\ ~EncTakePacket
    <3>1. /\ UNCHANGED <<mode, ctl, cmd>>
          /\ enc.pc \notin {"control_post", "control_done"}
          /\ enc'.pc \notin {"control_post", "control_done"}
      BY <1>0, <1>1, <2>6, EncWork DEF Polling
    <3>2. enc'.pc = "encode" => mode.version = "v1" \/ enc'.pc = enc.pc
      BY <1>0, <1>1, <2>6
         DEF Encoder, EncTurn, EncTake, EncReturnEmpty, EncReturn, EncTakeOut, EncSend,
             EncTakeFrame, EncSendFirst, EncReturnLast, EncDrainIn, EncDrainOut, EncType
    <3> QED BY <1>k, <3>1, <3>2
  <2> QED BY <1>1, <2>1, <2>2, <2>3, <2>4, <2>5, <2>6
<1>2. CASE PutStart \/ PutFrame \/ PutTimeout
  BY <1>0, <1>2, <1>k, <1>n, PutMoves DEF Reset
<1>3. CASE GetPacket \/ GetTimeout
  BY <1>0, <1>3, <1>k, <1>n, GetMoves DEF Reset
<1>4. CASE Calls
  <2>1. CASE ResetStart \/ ResetUnlock \/ ResetWait
    BY <1>k, <2>1 DEF ResetStart, ResetUnlock, ResetWait, rstRest
  <2>2. CASE ResetNotify
    BY <1>n, <2>2 DEF ResetNotify, rstRest
  <2>3. CASE ControlStart
    <3>1. /\ UNCHANGED <<mode, enc>> /\ ctl = "idle" /\ ctl' = "notify"
          /\ mode.version = "v2"
      BY <2>3 DEF ControlStart, ctlRest
    <3>2. /\ cmd'.done = cmd.done /\ cmd'.cmd_recv = cmd.cmd_recv
          /\ cmd'.enc_ctrl = cmd.enc_ctrl /\ cmd'.cmd_send = cmd.cmd_send + 1
          /\ cmd'.hdr_need_updated = cmd.hdr_need_updated
      BY <1>0, <2>3 DEF ControlStart, CmdType
    <3> QED BY <1>0, <3>1, <3>2 DEF ControlInv, Told, Carried, Calling, CmdType
  <2>4. CASE ControlWait
    <3>1. /\ UNCHANGED <<mode, enc>> /\ ctl = "sem_wait" /\ ctl' = "idle"
      BY <2>4 DEF ControlWait, ctlRest
    <3>2. /\ cmd'.done = cmd.done /\ cmd'.cmd_recv = cmd.cmd_recv
          /\ cmd'.enc_ctrl = cmd.enc_ctrl - 1 /\ cmd'.cmd_send = cmd.cmd_send
          /\ cmd'.hdr_need_updated = cmd.hdr_need_updated
      BY <1>0, <2>4 DEF ControlWait, CmdType
    <3> QED BY <1>0, <3>1, <3>2 DEF ControlInv, Told, Carried, Calling, CmdType
  <2>5. CASE ControlNotify
    <3>1. enc'.pc = enc.pc \/ (enc.pc = "wait" /\ enc'.pc = AfterWait)
      BY <1>0, <2>5, NotifyFacts DEF ControlNotify, Reset
    <3>2. UNCHANGED <<mode, cmd>> /\ ctl = "notify" /\ ctl' = "sem_wait"
      BY <2>5 DEF ControlNotify, ctlRest
    <3> QED BY <3>1, <3>2 DEF ControlInv, Told, Carried, Calling, AfterWait
  <2>6. CASE ClearStop
    <3>1. enc'.pc = enc.pc \/ (enc.pc = "wait" /\ enc'.pc = AfterWait)
      BY <1>0, <2>6 DEF ClearStop, WakeEnc, EncType
    <3> QED BY <1>k, <2>6, <3>1 DEF ClearStop, clrRest, AfterWait
  <2>7. CASE ClearDeinit \/ UNCHANGED vars
    BY <2>7, <1>k DEF ClearDeinit, clrRest, vars
  <2> QED BY <1>4, <2>1, <2>2, <2>3, <2>4, <2>5, <2>6, <2>7 DEF Calls, ResetCall
<1> QED BY <1>1, <1>2, <1>3, <1>4, Steps

(* Every step keeps what clear relies on.                                  *)
LEMMA NextClear ==
    ASSUME Base, ClearInv, [Next]_vars
    PROVE  ClearInv'
<1>0. /\ TypeOK /\ PutTasks /\ GetTasks
      /\ enc \in EncType /\ ctrl \in CtrlType
      /\ put \in PutType /\ get \in GetType
  BY DEF Base, TypeOK, TasksInv
<1>k. ASSUME UNCHANGED <<rst, ctl, clr, inq, outq>>,
             put'.pc = put.pc, get'.pc = get.pc,
             ctrl'.thread = ctrl.thread, enc.pc # "wait", enc'.pc # "wait",
             \/ enc'.pc = enc.pc
             \/ enc'.pc \notin {"drain_in", "drain_out", "exited"} /\ enc.pc # "exited"
             \/ enc'.pc = "drain_in" /\ clr # "idle" /\ enc.pc # "exited"
      PROVE  ClearInv'
  BY <1>k DEF ClearInv, HasTask, Queued
<1>n. ASSUME NEW flag \in SUBSET Reset, Notify(flag)
      PROVE  /\ enc'.pc = "wait" <=> ctrl'.thread = "WAITING"
             /\ ctrl'.thread = "STOPPING" <=> ctrl.thread = "STOPPING"
             /\ \/ enc'.pc = enc.pc
                \/ /\ enc'.pc \notin {"wait", "drain_in", "drain_out", "exited"}
                   /\ enc.pc # "exited"
  <2>1. IF Signals(flag) /\ enc.pc = "wait"
        THEN /\ enc'.pc = AfterWait
             /\ ctrl'.thread = IF ctrl.thread = "WAITING" THEN "RUNNING" ELSE ctrl.thread
        ELSE enc'.pc = enc.pc /\ ctrl'.thread = ctrl.thread
    BY <1>0, <1>n, NotifyFacts
  <2> QED BY <2>1 DEF ClearInv, AfterWait
<1>1. CASE Encoder
  <2>1. CASE EncCheck
    BY <1>0, <2>1 DEF EncCheck, AfterWait, encRest, queues, ClearInv, EncType, CtrlType,
                      HasTask, Queued
  <2>2. CASE EncDrainIn
    <3>1. CASE HasTask(inq, "OUTPUT")
      <4>1. UNCHANGED <<enc, ctrl, outq, put, get, rst, ctl, clr>> /\ enc.pc = "drain_in"
        BY <2>2, <3>1 DEF EncDrainIn, encRest
      <4> QED BY <4>1 DEF ClearInv, HasTask, Queued
    <3>2. CASE ~HasTask(inq, "OUTPUT")
      <4>1. /\ UNCHANGED <<ctrl, inq, put, get, rst, ctl, clr>>
            /\ enc.pc = "drain_in" /\ enc'.pc = "drain_out"
        BY <1>0, <2>2, <3>2 DEF EncDrainIn, encRest, EncType
      <4> QED BY <3>2, <4>1 DEF ClearInv, HasTask, Queued
    <3> QED BY <3>1, <3>2
  <2>3. CASE EncDrainOut
    <3>1. CASE HasTask(outq, "OUTPUT")
      <4>1. UNCHANGED <<enc, ctrl, inq, put, get, rst, ctl, clr>> /\ enc.pc = "drain_out"
        BY <2>3, <3>1 DEF EncDrainOut, encRest
      <4> QED BY <4>1 DEF ClearInv, HasTask, Queued
    <3>2. CASE ~HasTask(outq, "OUTPUT")
      <4>1. /\ UNCHANGED <<ctrl, inq, outq, put, get, rst, ctl, clr>>
            /\ enc.pc = "drain_out" /\ enc'.pc = "exited"
        BY <1>0, <2>3, <3>2 DEF EncDrainOut, encRest, EncType
      <4> QED BY <3>2, <4>1 DEF ClearInv, HasTask, Queued
    <3> QED BY <3>1, <3>2
  <2>4. CASE EncTurn /\ ~EncCheck
    <3>1. UNCHANGED <<rst, ctl, clr, inq, outq, put, get>> /\ ctrl'.thread = ctrl.thread
      BY <1>0, <2>4
         DEF EncTurn, EncNoControl, EncControl, EncControlPost, EncControlDone, EncNoReset,
             EncReset, EncResetDone, EncPollIn, EncPollOut, EncStopping, encRest, queues,
             CtrlType
    <3>2. /\ enc.pc \notin {"wait", "exited"} /\ enc'.pc # "wait"
          /\ \/ enc'.pc \notin {"drain_in", "drain_out", "exited"}
             \/ enc'.pc = "drain_in" /\ EncStopping
      BY <1>0, <2>4
         DEF EncTurn, EncNoControl, EncControl, EncControlPost, EncControlDone, EncNoReset,
             EncReset, EncResetDone, EncPollIn, EncPollOut, EncStopping, EncType
    <3>3. EncStopping => clr # "idle"
      BY <1>0 DEF EncStopping, ClearInv, CtrlType
    <3> QED BY <1>k, <3>1, <3>2, <3>3
  <2>5. CASE ~EncTurn /\ ~EncDrainIn /\ ~EncDrainOut
    <3>1. /\ UNCHANGED <<rst, ctl, clr, ctrl>>
          /\ put' \in {put, Signalled(put)} /\ get' \in {get, Signalled(get)}
          /\ enc.pc \notin {"wait", "exited"} /\ enc'.pc # "wait"
          /\ enc'.pc \in {"drain_in", "drain_out", "exited"}
                    <=> enc.pc \in {"drain_in", "drain_out"}
      BY <1>0, <1>1, <2>5, EncWork DEF Polling
    <3>2. enc.pc \notin {"drain_in", "drain_out"}
      BY <1>1, <2>5
         DEF Encoder, EncTurn, EncTake, EncReturnEmpty, EncReturn, EncTakeOut, EncSend,
             EncTakeFrame, EncTakePacket, EncSendFirst, EncReturnLast
    <3>3. put'.pc = put.pc /\ get'.pc = get.pc
      BY <1>0, <3>1 DEF Signalled, PutType, GetType
    <3> QED BY <3>1, <3>2, <3>3 DEF ClearInv
  <2> QED BY <1>1, <2>1, <2>2, <2>3, <2>4, <2>5
<1>2. CASE PutStart \/ PutFrame \/ PutTimeout
  <2>1. /\ UNCHANGED <<get, rst, clr, ctl>> /\ clr = "idle"
        /\ \/ UNCHANGED <<enc, ctrl>>
           \/ Notify({"FRAME_DEQUEUE"}) \/ Notify({"FRAME_ENQUEUE"})
    BY <1>0, <1>2, PutMoves
  <2>2. /\ enc'.pc = "wait" <=> ctrl'.thread = "WAITING"
        /\ ctrl'.thread = "STOPPING" <=> ctrl.thread = "STOPPING"
        /\ \/ enc'.pc = enc.pc
           \/ enc'.pc \notin {"drain_in", "drain_out", "exited"}
    BY <1>n, <2>1 DEF Reset, ClearInv
  <2> QED BY <2>1, <2>2 DEF ClearInv
<1>3. CASE GetPacket \/ GetTimeout
  <2>1. /\ UNCHANGED <<put, rst, clr, ctl>> /\ clr = "idle"
        /\ \/ UNCHANGED <<enc, ctrl>>
           \/ Notify({"PACKET_DEQUEUE"}) \/ Notify({"PACKET_ENQUEUE"})
    BY <1>0, <1>3, GetMoves
  <2>2. /\ enc'.pc = "wait" <=> ctrl'.thread = "WAITING"
        /\ ctrl'.thread = "STOPPING" <=> ctrl.thread = "STOPPING"
        /\ \/ enc'.pc = enc.pc
           \/ enc'.pc \notin {"drain_in", "drain_out", "exited"}
    BY <1>n, <2>1 DEF Reset, ClearInv
  <2> QED BY <2>1, <2>2 DEF ClearInv
<1>4. CASE Calls
  <2>c. ASSUME UNCHANGED <<put, get, clr, enc>>, clr = "idle", ctrl'.thread = ctrl.thread
        PROVE  ClearInv'
    BY <2>c DEF ClearInv
  <2>1. CASE ResetStart
    BY <1>0, <2>1, <2>c DEF ResetStart, rstRest, CtrlType
  <2>2. CASE ResetNotify \/ ControlNotify
    <3>1. /\ UNCHANGED <<put, get, clr>> /\ clr = "idle"
          /\ Notify(Reset) \/ Notify({"CONTROL"})
      BY <2>2 DEF ResetNotify, ControlNotify, rstRest, ctlRest, ClearInv
    <3>2. /\ enc'.pc = "wait" <=> ctrl'.thread = "WAITING"
          /\ ctrl'.thread = "STOPPING" <=> ctrl.thread = "STOPPING"
          /\ \/ enc'.pc = enc.pc
             \/ enc'.pc \notin {"drain_in", "drain_out", "exited"}
      BY <1>n, <3>1 DEF Reset
    <3> QED BY <3>1, <3>2 DEF ClearInv
  <2>3. CASE ResetUnlock \/ ResetWait
    <3>1. clr = "idle"
      BY <2>3 DEF ResetUnlock, ResetWait, ClearInv
    <3> QED BY <1>0, <2>3, <2>c, <3>1 DEF ResetUnlock, ResetWait, rstRest, CtrlType
  <2>4. CASE ControlStart \/ ControlWait
    <3>1. clr = "idle"
      BY <2>4 DEF ControlStart, ControlWait, ClearInv
    <3> QED BY <2>4, <2>c, <3>1 DEF ControlStart, ControlWait, ctlRest
  <2>5. CASE ClearStop
    <3>1. /\ UNCHANGED <<rst, ctl, put, get, inq, outq>> /\ clr = "idle" /\ clr' = "join"
          /\ rst = "idle" /\ ctl = "idle" /\ put.pc = "idle" /\ get.pc = "idle"
      BY <2>5 DEF ClearStop, clrRest, queues
    <3>2. /\ ctrl'.thread = "STOPPING" /\ enc'.pc # "wait"
          /\ enc'.pc = enc.pc \/ enc'.pc \notin {"drain_in", "drain_out", "exited"}
      BY <1>0, <2>5 DEF ClearStop, WakeEnc, AfterWait, EncType, CtrlType
    <3> QED BY <3>1, <3>2 DEF ClearInv, HasTask, Queued
  <2>6. CASE ClearDeinit
    BY <2>6 DEF ClearDeinit, clrRest, ClearInv, HasTask, Queued, queues
  <2>7. CASE UNCHANGED vars
    BY <2>7 DEF vars, users, queues, ClearInv, HasTask, Queued
  <2> QED BY <1>4, <2>1, <2>2, <2>3, <2>4, <2>5, <2>6, <2>7 DEF Calls, ResetCall
<1> QED BY <1>1, <1>2, <1>3, <1>4, Steps

-----------------------------------------------------------------------------
(* Every step keeps the ready bits and the events waited for consistent.   *)
LEMMA NextRdy ==
    ASSUME Base, ClearInv, RdyInv, [Next]_vars
    PROVE  RdyInv'
<1>0. /\ TypeOK /\ enc \in EncType /\ enc.pc \in EncPcs /\ enc.rdy \in SUBSET {"in", "out"}
  BY DEF Base, TypeOK, EncType
<1>1. CASE EncPollIn
  BY <1>0, <1>1 DEF EncPollIn, RdyInv, EncType, Working
<1>2. CASE EncPollOut
  BY <1>0, <1>2 DEF EncPollOut, RdyInv, EncType, Working
<1>3. CASE EncTurn /\ ~EncPollIn /\ ~EncPollOut
  <2>1. /\ enc'.rdy = enc.rdy /\ enc'.wait = enc.wait
        /\ enc'.pc \notin Working \cup {"poll_out"}
    BY <1>0, <1>3
       DEF EncTurn, EncCheck, AfterWait, EncNoControl, EncControl, EncControlPost,
           EncControlDone, EncNoReset, EncReset, EncResetDone, EncStopping, EncType, Working
  <2> QED BY <2>1 DEF RdyInv
<1>4. CASE Encoder /\ ~EncTurn
  BY <1>0, <1>4, EncWork DEF RdyInv, Working, Polling, EncPcs
<1>5. CASE ~Encoder
  <2>1. /\ enc'.rdy = enc.rdy /\ enc'.wait = enc.wait
        /\ \/ enc'.pc = enc.pc \/ enc'.pc \in {"control", "reset"}
    BY <1>5, Steps, UserSteps
  <2> QED BY <2>1 DEF RdyInv, Working
<1> QED BY <1>1, <1>2, <1>3, <1>4, <1>5

(* Every step keeps a sleeping encoder justified.                          *)
LEMMA NextSleep ==
    ASSUME Base, ClearInv, ResetInv, SleepInv, [Next]_vars
    PROVE  SleepInv'
<1>0. /\ TypeOK /\ PutTasks /\ GetTasks
      /\ enc \in EncType /\ ctrl \in CtrlType
      /\ mode.version \in {"v1", "v2"} /\ enc.wait \subseteq Reset
  BY Constants DEF Base, TypeOK, TasksInv, ModeType, EncType, Reset
<1>n. ASSUME NEW flag \in SUBSET Reset, Notify(flag),
             "CONTROL" \notin flag \/ flag = {"CONTROL"} \/ flag = Reset,
             rst' = rst \/ flag = Reset
      PROVE  SleepInv'
  <2> DEFINE told == Signals(flag) /\ enc.pc = "wait"
  <2>1. /\ enc'.wait = enc.wait /\ ctrl'.notify_flag = ctrl.notify_flag \cup flag
        /\ ctrl'.status_flag = ctrl.status_flag /\ ctrl'.reset_flag = ctrl.reset_flag
        /\ told => enc'.pc = AfterWait
        /\ ~told => enc'.pc = enc.pc
    BY <1>0, <1>n, NotifyFacts
  <2>2. CASE enc.pc = "wait" /\ Signals(flag)
    BY <2>1, <2>2 DEF SleepInv, AfterWait
  <2>3. CASE enc.pc = "wait" /\ ~Signals(flag)
    <3>1. /\ flag # {"CONTROL"}
          /\ \/ ctrl.notify_flag \cup flag = ctrl.notify_flag
             \/ (ctrl.notify_flag \cup flag) \cap ctrl.status_flag = {}
      BY <2>3 DEF Signals
    <3>2. /\ ctrl.status_flag = enc.wait /\ enc.wait # {}
          /\ ctrl.notify_flag \cap ctrl.status_flag = {}
          /\ "CONTROL" \notin ctrl.notify_flag
          /\ ~ctrl.reset_flag \/ rst = "notify"
      BY <2>3 DEF SleepInv
    <3>3. flag # Reset
      BY <1>0, <3>1, <3>2 DEF Reset
    <3>4. /\ "CONTROL" \notin flag /\ rst' = rst
          /\ (ctrl.notify_flag \cup flag) \cap ctrl.status_flag = {}
      BY <1>n, <3>1, <3>2, <3>3
    <3> QED BY <2>1, <3>2, <3>4 DEF SleepInv
  <2>4. CASE enc.pc # "wait"
    BY <2>1, <2>4 DEF SleepInv
  <2> QED BY <2>2, <2>3, <2>4
<1>1. CASE EncCheck
  <2>1. CASE MayWork
    BY <1>0, <1>1, <2>1 DEF EncCheck, AfterWait, SleepInv, EncType
  <2>2. CASE ~MayWork
    BY <1>0, <1>1, <2>2 DEF EncCheck, MayWork, SleepInv, EncType, CtrlType
  <2> QED BY <2>1, <2>2
<1>2. CASE EncTurn /\ ~EncCheck
  <2>1. enc'.pc # "wait"
    BY <1>0, <1>2
       DEF EncTurn, EncNoControl, EncControl, EncControlPost, EncControlDone, EncNoReset,
           EncReset, EncResetDone, EncPollIn, EncPollOut, EncStopping, EncType
  <2> QED BY <2>1 DEF SleepInv
<1>3. CASE Encoder /\ ~EncTurn
  BY <1>0, <1>3, EncWork DEF SleepInv, Polling
<1>k. ASSUME UNCHANGED <<enc, ctrl, rst>>
      PROVE  SleepInv'
  BY <1>k DEF SleepInv
<1>4. CASE PutStart \/ PutFrame \/ PutTimeout
  BY <1>0, <1>4, <1>k, <1>n, PutMoves DEF Reset
<1>5. CASE GetPacket \/ GetTimeout
  BY <1>0, <1>5, <1>k, <1>n, GetMoves DEF Reset
<1>6. CASE Calls
  <2>1. CASE ResetStart
    BY <1>0, <2>1 DEF ResetStart, SleepInv, CtrlType
  <2>2. CASE ResetNotify
    BY <2>2, <1>n DEF ResetNotify
  <2>3. CASE ResetUnlock
    BY <1>0, <2>3 DEF ResetUnlock, SleepInv, ResetInv, CtrlType
  <2>4. CASE ResetWait
    BY <1>0, <2>4 DEF ResetWait, SleepInv, ResetInv, CtrlType
  <2>5. CASE ControlStart \/ ControlWait
    BY <2>5, <1>k DEF ControlStart, ControlWait, ctlRest
  <2>6. CASE ControlNotify
    BY <2>6, <1>n DEF ControlNotify, ctlRest, Reset
  <2>7. CASE ClearStop
    BY <1>0, <2>7 DEF ClearStop, WakeEnc, AfterWait, SleepInv, EncType
  <2>8. CASE ClearDeinit \/ UNCHANGED vars
    BY <2>8, <1>k DEF ClearDeinit, clrRest, vars, users
  <2> QED BY <1>6, <2>1, <2>2, <2>3, <2>4, <2>5, <2>6, <2>7, <2>8 DEF Calls, ResetCall
<1> QED BY <1>1, <1>2, <1>3, <1>4, <1>5, <1>6, Steps

(* Every step keeps a command known until the thread looks.                *)
LEMMA NextCommand ==
    ASSUME Base, ClearInv, ControlInv, CommandInv, [Next]_vars
    PROVE  CommandInv'
<1>0. /\ TypeOK /\ PutTasks /\ GetTasks
      /\ enc \in EncType /\ ctrl \in CtrlType /\ cmd \in CmdType
      /\ mode.version \in {"v1", "v2"} /\ ctl \in {"idle", "notify", "sem_wait"}
  BY Constants DEF Base, TypeOK, TasksInv, ModeType
<1>k. ASSUME UNCHANGED <<cmd, ctl>>, ctrl.notify_flag \subseteq ctrl'.notify_flag,
             enc.pc # "control" \/ enc'.pc = enc.pc
      PROVE  CommandInv'
  BY <1>k DEF CommandInv
<1>n. ASSUME NEW flag \in SUBSET Reset, Notify(flag), UNCHANGED <<cmd, ctl>>
      PROVE  CommandInv'
  BY <1>0, <1>k, <1>n, NotifyFacts DEF AfterWait
<1>1. CASE Encoder
  <2>1. CASE EncCheck
    <3>1. /\ UNCHANGED <<cmd, ctl>> /\ enc.pc = "loop"
          /\ "CONTROL" \in ctrl.notify_flag /\ mode.version = "v2" => enc'.pc = "control"
      BY <1>0, <2>1 DEF EncCheck, MayWork, AfterWait, EncType, encRest
    <3> QED BY <1>0, <3>1 DEF CommandInv, ControlInv
  <2>2. CASE EncNoControl
    <3>1. cmd.done = cmd.cmd_send /\ UNCHANGED cmd
      BY <1>0, <2>2 DEF EncNoControl, ControlInv, Carried, CmdType
    <3> QED BY <3>1 DEF CommandInv
  <2>3. CASE EncControl
    <3>1. /\ cmd'.done = cmd.done + 1 /\ cmd'.cmd_send = cmd.cmd_send
          /\ cmd.cmd_send # cmd.cmd_recv /\ enc.pc = "control"
      BY <1>0, <2>3 DEF EncControl, CmdType
    <3>2. /\ cmd.done \in Nat /\ cmd.cmd_send \in Nat /\ cmd.cmd_recv \in Nat
          /\ cmd.enc_ctrl \in Nat /\ Calling \in {0, 1} /\ Told = 0 /\ Carried = 0
      BY <1>0, <3>1 DEF Calling, Told, Carried, CmdType
    <3>3. cmd'.done = cmd'.cmd_send
      BY <3>1, <3>2 DEF ControlInv
    <3> QED BY <3>3 DEF CommandInv
  <2>4. CASE EncControlPost \/ EncControlDone
    <3>1. /\ UNCHANGED <<ctl, ctrl>> /\ enc.pc # "control"
          /\ cmd'.done = cmd.done /\ cmd'.cmd_send = cmd.cmd_send
      BY <1>0, <2>4 DEF EncControlPost, EncControlDone, encRest, CmdType
    <3> QED BY <3>1 DEF CommandInv
  <2>5. CASE EncNoReset \/ EncReset \/ EncResetDone \/ EncPollIn \/ EncPollOut \/ EncStopping
    BY <1>0, <1>k, <2>5
       DEF EncNoReset, EncReset, EncResetDone, EncPollIn, EncPollOut, EncStopping, encRest,
           CtrlType
  <2>6. CASE EncTakePacket
    <3>1. /\ UNCHANGED <<ctl, ctrl>> /\ enc.pc # "control"
      BY <2>6 DEF EncTakePacket, encRest
    <3>2. cmd'.done = cmd.done /\ cmd'.cmd_send = cmd.cmd_send
      <4>1. PICK h \in BOOLEAN : cmd' = [cmd EXCEPT !.hdr_need_updated = h]
        <5>1. CASE HasTask(outq, "INPUT")
          BY <1>0, <2>6, <5>1 DEF EncTakePacket, CmdType
        <5>2. CASE ~HasTask(outq, "INPUT")
          <6>1. cmd' = cmd
            BY <2>6, <5>2 DEF EncTakePacket
          <6> QED BY <1>0, <6>1 DEF CmdType
        <5> QED BY <5>1, <5>2
      <4> QED BY <1>0, <4>1 DEF CmdType
    <3> QED BY <3>1, <3>2 DEF CommandInv
  <2>7. CASE ~EncTurn /\ ~EncTakePacket
    BY <1>0, <1>1, <1>k, <2>7, EncWork DEF Polling
  <2> QED BY <1>1, <2>1, <2>2, <2>3, <2>4, <2>5, <2>6, <2>7 DEF EncTurn
<1>2. CASE PutStart \/ PutFrame \/ PutTimeout
  BY <1>0, <1>2, <1>k, <1>n, PutMoves DEF Reset
<1>3. CASE GetPacket \/ GetTimeout
  BY <1>0, <1>3, <1>k, <1>n, GetMoves DEF Reset
<1>4. CASE Calls
  <2>1. CASE ResetStart \/ ResetUnlock \/ ResetWait
    BY <1>0, <1>k, <2>1 DEF ResetStart, ResetUnlock, ResetWait, rstRest, CtrlType
  <2>2. CASE ResetNotify
    BY <1>n, <2>2 DEF ResetNotify, rstRest
  <2>3. CASE ControlStart \/ ControlWait
    BY <2>3 DEF ControlStart, ControlWait, CommandInv
  <2>4. CASE ControlNotify
    <3>1. ctrl'.notify_flag = ctrl.notify_flag \cup {"CONTROL"}
      BY <1>0, <2>4, NotifyFacts DEF ControlNotify, Reset
    <3> QED BY <3>1 DEF CommandInv
  <2>5. CASE ClearStop
    BY <2>5 DEF ClearStop, clrRest, CommandInv
  <2>6. CASE ClearDeinit \/ UNCHANGED vars
    BY <1>k, <2>6 DEF ClearDeinit, clrRest, vars
  <2> QED BY <1>4, <2>1, <2>2, <2>3, <2>4, <2>5, <2>6 DEF Calls, ResetCall
<1> QED BY <1>1, <1>2, <1>3, <1>4, Steps

(* An encoder that is about to sleep, undisturbed, has missed nothing.     *)
LEMMA NextEvents ==
    ASSUME Base, ClearInv, ResetInv, ControlInv, RdyInv, SleepInv, EventsInv, [Next]_vars
    PROVE  EventsInv'
<1>0. /\ TypeOK /\ PutTasks /\ GetTasks /\ EncTasks
      /\ enc \in EncType /\ ctrl \in CtrlType /\ cmd \in CmdType
      /\ put \in PutType /\ get \in GetType /\ resets \in Nat
      /\ inq \in QueuesOf(Tasks) /\ Linked(inq, Tasks)
      /\ outq \in QueuesOf(Tasks) /\ Linked(outq, Tasks)
  BY DEF Base, TypeOK, TasksInv, LinksInv
<1>d. ASSUME UNCHANGED <<resets, cmd>> PROVE Disturbed' = Disturbed
  BY <1>d DEF Disturbed
<1>1. CASE Encoder
  <2>0. UNCHANGED <<rst, resets>>
    BY <1>0, <1>1, EncWork
       DEF EncTurn, EncCheck, EncNoControl, EncControl, EncControlPost, EncControlDone,
           EncNoReset, EncReset, EncResetDone, EncPollIn, EncPollOut, EncStopping, encRest
  <2>1. CASE EncCheck
    <3>1. UNCHANGED <<queues, cmd, put, get>> /\ enc.pc = "loop"
      BY <2>1 DEF EncCheck, encRest
    <3>2. CASE MayWork
      <4>1. enc'.pc \notin {"loop", "wait"}
        BY <1>0, <2>1, <3>2 DEF EncCheck, AfterWait, EncType
      <4> QED BY <2>0, <4>1 DEF EventsInv
    <3>3. CASE ~MayWork
      <4>1. enc'.wait = enc.wait
        BY <1>0, <2>1 DEF EncCheck, EncType
      <4>2. \A e \in enc.wait : e \notin ctrl.notify_flag
        BY <3>3 DEF MayWork
      <4> QED BY <1>d, <2>0, <3>1, <4>1, <4>2 DEF EventsInv, queues, HasTask, Queued
    <3> QED BY <3>2, <3>3
  <2>2. CASE EncControlDone
    <3>1. cmd.done >= 1 /\ cmd.cmd_send >= 1
      <4>1. cmd.cmd_recv \in Nat /\ cmd.cmd_send \in Nat /\ cmd.done \in Nat
        BY <1>0 DEF CmdType
      <4> QED BY <2>2, <4>1 DEF EncControlDone, ControlInv, Carried
    <3>2. cmd'.cmd_send = cmd.cmd_send
      BY <1>0, <2>2 DEF EncControlDone, CmdType
    <3>3. Disturbed'
      BY <1>0, <3>1, <3>2 DEF Disturbed, CmdType
    <3> QED BY <2>0, <3>3 DEF EventsInv
  <2>3. CASE EncResetDone
    <3>1. rst # "idle" /\ resets > 0
      BY <1>0, <2>3 DEF EncResetDone, ResetInv, EventsInv
    <3> QED BY <2>0, <3>1 DEF EventsInv, Disturbed
  <2>4. CASE EncPollIn
    <3>0. /\ UNCHANGED <<queues, cmd, put, get>>
      BY <2>4 DEF EncPollIn, encRest
    <3>1. CASE "in" \in enc.rdy \/ HasTask(inq, "OUTPUT")
      <4>1. enc'.pc = "poll_out"
        BY <1>0, <2>4, <3>1 DEF EncPollIn, EncType
      <4> QED BY <2>0, <4>1 DEF EventsInv
    <3>2. CASE ~("in" \in enc.rdy \/ HasTask(inq, "OUTPUT"))
      <4>1. enc'.wait = enc.wait \cup {"FRAME_ENQUEUE"} /\ "PACKET_ENQUEUE" \notin enc.wait
        BY <1>0, <2>4, <3>2 DEF EncPollIn, EncType, RdyInv
      <4> QED BY <2>0, <3>0, <3>2, <4>1 DEF EventsInv, queues, HasTask, Queued
    <3> QED BY <3>1, <3>2
  <2>5. CASE EncPollOut
    <3>0. /\ UNCHANGED <<queues, cmd, put, get>>
      BY <2>5 DEF EncPollOut, encRest
    <3>1. CASE "out" \in enc.rdy \/ HasTask(outq, "INPUT")
      <4>1. enc'.pc = "take"
        BY <1>0, <2>5, <3>1 DEF EncPollOut, EncType
      <4> QED BY <2>0, <4>1 DEF EventsInv
    <3>2. CASE ~("out" \in enc.rdy \/ HasTask(outq, "INPUT"))
      <4>1. enc'.wait = enc.wait \cup {"PACKET_ENQUEUE"} /\ "FRAME_ENQUEUE" \notin enc.wait
        BY <1>0, <2>5, <3>2 DEF EncPollOut, EncType, RdyInv
      <4> QED BY <2>0, <3>0, <3>2, <4>1 DEF EventsInv, queues, HasTask, Queued
    <3> QED BY <3>1, <3>2
  <2>6. CASE EncNoControl \/ EncControl \/ EncControlPost \/ EncNoReset \/ EncReset \/ EncStopping
    <3>1. enc'.pc \notin {"loop", "wait"}
      BY <1>0, <2>6
         DEF EncNoControl, EncControl, EncControlPost, EncNoReset, EncReset, EncStopping, EncType
    <3> QED BY <2>0, <3>1 DEF EventsInv
  <2>7. CASE ~EncTurn
    <3>1. /\ enc'.wait = enc.wait /\ enc'.pc # "wait"
          /\ enc'.pc = "loop" => enc.pc \in Working
      <4>1. enc.pc \in EncPcs
        BY <1>0 DEF EncType
      <4> QED BY <1>0, <1>1, <2>7, <4>1, EncWork DEF Polling, Working, EncPcs
    <3>2. enc'.pc = "loop" => enc.wait \cap {"FRAME_ENQUEUE", "PACKET_ENQUEUE"} = {}
      BY <3>1 DEF RdyInv
    <3> QED BY <2>0, <3>1, <3>2 DEF EventsInv
  <2> QED BY <1>1, <2>1, <2>2, <2>3, <2>4, <2>5, <2>6, <2>7 DEF EncTurn
<1>2. CASE PutStart \/ PutFrame \/ PutTimeout
  <2>0. UNCHANGED <<cmd, outq, get, rst, resets>>
    BY <1>0, <1>2, PutMoves
  <2>1. enc'.wait = enc.wait /\ (enc'.pc \in {"loop", "wait"} => enc'.pc = enc.pc)
    BY <1>2, UserSteps
  <2>2. /\ ctrl.notify_flag \subseteq ctrl'.notify_flag
        /\ put.pc = "notify" => "FRAME_ENQUEUE" \in ctrl'.notify_flag \/ put'.pc = "notify"
    <3>1. CASE UNCHANGED <<enc, ctrl>> /\ put.pc # "notify"
      BY <3>1
    <3>2. CASE Notify({"FRAME_DEQUEUE"}) /\ put.pc # "notify"
      BY <1>0, <3>2, NotifyFacts DEF Reset
    <3>3. CASE Notify({"FRAME_ENQUEUE"})
      BY <1>0, <3>3, NotifyFacts DEF Reset
    <3>4. CASE put.pc = "notify"
      <4>1. PutNotify
        BY <1>0, <1>2, <3>4
           DEF PutStart, PutTimeout, PutFrame, PutPoll, PutPollAgain, PutTake, PutTook,
               PutFill, PutEnqueue, PutFree, PutTasks
      <4> QED BY <3>3, <4>1 DEF PutNotify
    <3> QED BY <1>0, <1>2, <3>1, <3>2, <3>3, <3>4, PutMoves
  <2>3. HasTask(inq', "OUTPUT") => HasTask(inq, "OUTPUT") \/ put'.pc = "notify"
    <3>1. CASE PutEnqueue
      BY <1>0, <3>1 DEF PutEnqueue, PutType
    <3>2. CASE PutTake
      <4>1. inq' = PortDequeue(inq, "INPUT") /\ HasTask(inq, "INPUT")
        BY <1>0, <3>2 DEF PutTake, PutTasks
      <4>2. inq'.queue["OUTPUT_PORT"] = inq.queue["OUTPUT_PORT"]
        BY <1>0, <4>1, InputDequeue
      <4> QED BY <4>2 DEF HasTask, Queued, StatusCurr
    <3>3. CASE ~PutEnqueue /\ ~PutTake
      BY <1>2, <3>3
         DEF PutStart, PutTimeout, PutFrame, PutPoll, PutPollAgain, PutTook, PutFill,
             PutNotify, PutFree
    <3> QED BY <3>1, <3>2, <3>3
  <2> QED BY <1>d, <2>0, <2>1, <2>2, <2>3 DEF EventsInv
<1>3. CASE GetPacket \/ GetTimeout
  <2>0. UNCHANGED <<cmd, inq, put, rst, resets>>
    BY <1>0, <1>3, GetMoves
  <2>1. enc'.wait = enc.wait /\ (enc'.pc \in {"loop", "wait"} => enc'.pc = enc.pc)
    BY <1>3, UserSteps
  <2>2. /\ ctrl.notify_flag \subseteq ctrl'.notify_flag
        /\ get.pc = "notify" => "PACKET_ENQUEUE" \in ctrl'.notify_flag \/ get'.pc = "notify"
    <3>1. CASE UNCHANGED <<enc, ctrl>> /\ get.pc # "notify"
      BY <3>1
    <3>2. CASE Notify({"PACKET_DEQUEUE"}) /\ get.pc # "notify"
      BY <1>0, <3>2, NotifyFacts DEF Reset
    <3>3. CASE Notify({"PACKET_ENQUEUE"})
      BY <1>0, <3>3, NotifyFacts DEF Reset
    <3>4. CASE get.pc = "notify"
      <4>1. GetNotify
        BY <1>0, <1>3, <3>4
           DEF GetTimeout, GetPacket, GetPoll, GetPollAgain, GetTake, GetTook, GetEnqueue,
               GetTasks
      <4> QED BY <3>3, <4>1 DEF GetNotify
    <3> QED BY <1>0, <1>3, <3>1, <3>2, <3>3, <3>4, GetMoves
  <2>3. HasTask(outq', "INPUT") => HasTask(outq, "INPUT") \/ get'.pc = "notify"
    <3>1. CASE GetEnqueue
      BY <1>0, <3>1 DEF GetEnqueue, GetType
    <3>2. CASE GetTake
      <4>1. outq' = PortDequeue(outq, "OUTPUT") /\ HasTask(outq, "OUTPUT")
        BY <1>0, <3>2 DEF GetTake, GetTasks
      <4>2. outq'.queue["INPUT_PORT"] = outq.queue["INPUT_PORT"]
        BY <1>0, <4>1, OutputDequeue
      <4> QED BY <4>2 DEF HasTask, Queued, StatusCurr
    <3>3. CASE ~GetEnqueue /\ ~GetTake
      BY <1>3, <3>3
         DEF GetTimeout, GetPacket, GetPoll, GetPollAgain, GetTook, GetNotify
    <3> QED BY <3>1, <3>2, <3>3
  <2> QED BY <1>d, <2>0, <2>1, <2>2, <2>3 DEF EventsInv
<1>4. CASE Calls
  <2>1. enc'.wait = enc.wait /\ (enc'.pc \in {"loop", "wait"} => enc'.pc = enc.pc)
    BY <1>4, UserSteps
  <2>2. UNCHANGED <<queues, put, get>>
    BY <1>4 DEF Calls, ResetStart, ResetCall, ResetNotify, ResetUnlock, ResetWait, rstRest,
                ControlStart, ControlNotify, ControlWait, ctlRest, ClearStop, ClearDeinit,
                clrRest, vars, users
  <2>3. ctrl.notify_flag \subseteq ctrl'.notify_flag
    <3>1. CASE ResetNotify \/ ControlNotify
      BY <1>0, <3>1, NotifyFacts DEF ResetNotify, ControlNotify, Reset
    <3>2. CASE ~ResetNotify /\ ~ControlNotify
      BY <1>0, <1>4, <3>2
         DEF Calls, ResetStart, ResetCall, ResetUnlock, ResetWait, ControlStart, ctlRest,
             ControlWait, ClearStop, WakeEnc, ClearDeinit, clrRest, vars, CtrlType
    <3> QED BY <3>1, <3>2
  <2>4. /\ ~Disturbed' => ~Disturbed
        /\ resets' = 0 => rst' = "idle"
    <3>1. CASE ResetStart
      BY <1>0, <3>1 DEF ResetStart, Disturbed
    <3>2. CASE ResetCall
      BY <1>0, <3>2 DEF ResetCall, ResetNotify, ResetUnlock, ResetWait, rstRest, Disturbed,
                          EventsInv
    <3>3. CASE ControlStart
      <4>1. cmd'.cmd_send = cmd.cmd_send + 1 /\ UNCHANGED <<rst, resets>>
        BY <1>0, <3>3 DEF ControlStart, ctlRest, CmdType
      <4>2. cmd.cmd_send \in Nat
        BY <1>0 DEF CmdType
      <4> QED BY <4>1, <4>2 DEF Disturbed, EventsInv
    <3>4. CASE ControlWait
      <4>1. cmd'.cmd_send = cmd.cmd_send /\ UNCHANGED <<rst, resets>>
        BY <1>0, <3>4 DEF ControlWait, ctlRest, CmdType
      <4> QED BY <4>1 DEF Disturbed, EventsInv
    <3>5. CASE ControlNotify \/ ClearStop \/ ClearDeinit \/ UNCHANGED vars
      BY <1>d, <3>5 DEF ControlNotify, ctlRest, ClearStop, ClearDeinit, clrRest, vars, users,
                        EventsInv
    <3> QED BY <1>4, <3>1, <3>2, <3>3, <3>4, <3>5 DEF Calls
  <2> QED BY <2>1, <2>2, <2>3, <2>4 DEF EventsInv, queues
<1> QED BY <1>1, <1>2, <1>3, <1>4, Steps

-----------------------------------------------------------------------------
(* Every step keeps the holders of tasks.                                  *)
LEMMA NextHolders ==
    ASSUME Base, ClearInv, HoldersInv, [Next]_vars
    PROVE  HoldersInv'
<1> USE DEF HoldersInv
<1>0. /\ put \in PutType /\ get \in GetType /\ GetTasks
      /\ Signalled(get).pc = get.pc /\ Signalled(get).task = get.task
  BY DEF Base, TypeOK, TasksInv, Signalled, GetType
<1>1. CASE EncTake
  BY <1>1, TakeFacts DEF OutTaken, HoldsIn
<1>2. CASE EncReturnEmpty
  BY <1>2, ReturnEmptyFacts DEF OutGiven, HoldsIn
<1>3. CASE EncReturn
  BY <1>3, ReturnFacts DEF OutGiven, HoldsIn
<1>4. CASE EncTakeOut
  BY <1>4, TakeOutFacts DEF InTaken, HoldsIn
<1>5. CASE EncSend
  BY <1>0, <1>5, SendFacts DEF InGiven, HoldsIn
<1>6. CASE EncTakeFrame
  BY <1>6, TakeFrameFacts DEF OutTaken, HoldsIn
<1>7. CASE EncTakePacket
  BY <1>7, TakePacketFacts DEF InTaken, HoldsIn
<1>8. CASE EncSendFirst
  BY <1>0, <1>8, SendFirstFacts DEF InGiven, HoldsIn
<1>9. CASE EncReturnLast
  BY <1>9, ReturnLastFacts DEF OutGiven, HoldsIn
<1>10. CASE EncDrainIn
  BY <1>10, DrainInFacts DEF HoldsIn
<1>11. CASE EncDrainOut
  BY <1>11, DrainOutFacts DEF HoldsIn
<1>12. CASE PutTake
  BY <1>12, PutTakeFacts DEF InTaken, HoldsIn
<1>13. CASE PutEnqueue
  BY <1>13, PutEnqueueFacts DEF InGiven, HoldsIn
<1>14. CASE PutFill \/ PutFree
  BY <1>14, PutFillFacts, PutFreeFacts DEF HoldsIn
<1>15. CASE GetTake
  BY <1>15, GetTakeFacts DEF OutTaken, HoldsIn
<1>16. CASE GetTook
  <2>1. /\ UNCHANGED <<mode, inq, outq>> /\ get'.pc = "enqueue" /\ get.pc = "took"
        /\ get'.task = get.task
    BY <1>16, GetTookFacts
  <2>2. /\ enc'.task_in = enc.task_in
        /\ enc'.pc = enc.pc \/ (enc.pc = "wait" /\ enc'.pc \in {"control", "reset"})
    BY <1>16, UserSteps DEF GetPacket
  <2> QED BY <2>1, <2>2 DEF HoldsIn
<1>17. CASE GetEnqueue
  BY <1>17, GetEnqueueFacts DEF OutGiven, HoldsIn
<1>18. CASE ~Moves
  BY <1>18, Quiet DEF HoldsIn, Holding, Working
<1> QED BY <1>1, <1>2, <1>3, <1>4, <1>5, <1>6, <1>7, <1>8, <1>9, <1>10, <1>11, <1>12,
           <1>13, <1>14, <1>15, <1>16, <1>17, <1>18 DEF Moves

-----------------------------------------------------------------------------
(* Every step keeps each frame in one place.                               *)
LEMMA NextFrames ==
    ASSUME Base, ClearInv, FramesInv, [Next]_vars
    PROVE  FramesInv'
<1> USE DEF FramesInv, InUse
<1>0. /\ frame \in [Tasks -> Frames \cup {None}] /\ EncTasks /\ mode.version \in {"v1", "v2"}
      /\ count \in Nat /\ None \notin Frames /\ None \notin 1 .. count
      /\ None \notin Tasks
  <2>1. TypeOK /\ EncTasks
    BY DEF Base, TasksInv
  <2>2. mode.version \in {"v1", "v2"} /\ frame \in [Tasks -> Frames \cup {None}]
    BY <2>1, Constants DEF TypeOK, ModeType
  <2>3. count \in Nat /\ None \notin 1 .. count
    BY <2>1, Constants DEF TypeOK, Frames
  <2> QED BY <2>1, <2>2, <2>3, Constants
<1>1. CASE EncTake
  <2>1. CASE HasTask(inq, "OUTPUT")
    <3> DEFINE t == enc'.task_in
    <3>1. /\ UNCHANGED <<count, freed>> /\ t \in Tasks /\ enc'.work = frame[t]
          /\ frame' = [frame EXCEPT ![t] = None]
      BY <1>1, <2>1, TakeFacts DEF OutTaken, HasTask, Queued, StatusCurr
    <3> HIDE DEF t
    <3> QED BY <1>0, <3>1
  <2>2. CASE ~HasTask(inq, "OUTPUT")
    BY <1>1, <2>2, TakeFacts DEF OutTaken, HasTask, Queued, StatusCurr
  <2> QED BY <2>1, <2>2
<1>2. CASE EncReturnEmpty
  BY <1>2, ReturnEmptyFacts
<1>3. CASE EncReturn
  <2>1. enc.task_in \in Tasks
    BY <1>0, <1>3, ReturnFacts DEF EncTasks, HoldsIn
  <2>2. /\ UNCHANGED <<count, freed>> /\ enc.pc = "encode" /\ enc'.pc = "take_out"
        /\ frame' = [frame EXCEPT ![enc.task_in] = enc.work]
    BY <1>3, ReturnFacts
  <2> QED BY <1>0, <2>1, <2>2
<1>4. CASE EncTakeOut
  BY <1>4, TakeOutFacts
<1>5. CASE EncSend
  BY <1>5, SendFacts
<1>6. CASE EncTakeFrame
  BY <1>6, TakeFrameFacts
<1>7. CASE EncTakePacket
  <2>1. CASE HasTask(outq, "INPUT")
    <3>1. /\ UNCHANGED <<count, freed>> /\ enc.task_in \in Tasks
          /\ enc'.work = frame[enc.task_in]
          /\ frame' = [frame EXCEPT ![enc.task_in] = None]
      BY <1>7, <2>1, TakePacketFacts DEF InTaken, HasTask, Queued, StatusCurr
    <3> QED BY <1>0, <3>1
  <2>2. CASE ~HasTask(outq, "INPUT")
    BY <1>7, <2>2, TakePacketFacts DEF InTaken, HasTask, Queued, StatusCurr
  <2> QED BY <2>1, <2>2
<1>8. CASE EncSendFirst
  <2>1. /\ UNCHANGED <<mode, frame, count, freed>> /\ InUse
        /\ enc'.work = enc.work
    BY <1>8, SendFirstFacts
  <2> QED BY <2>1
<1>9. CASE EncReturnLast
  <2>1. enc.task_in \in Tasks
    BY <1>0, <1>9, ReturnLastFacts DEF EncTasks, HoldsIn
  <2>2. /\ UNCHANGED <<count, freed>> /\ enc.pc = "return" /\ enc'.pc = "loop"
        /\ frame' = [frame EXCEPT ![enc.task_in] = enc.work]
    BY <1>9, ReturnLastFacts
  <2> QED BY <1>0, <2>1, <2>2
<1>10. CASE EncDrainIn
  <2>1. /\ UNCHANGED <<count, freed>> /\ enc'.pc \in {"drain_in", "drain_out"}
        /\ frame' = frame \/ \E t \in Tasks : frame' = [frame EXCEPT ![t] = None]
    BY <1>10, DrainInFacts
  <2>2. CASE frame' = frame
    BY <2>1, <2>2
  <2>3. CASE \E t \in Tasks : frame' = [frame EXCEPT ![t] = None]
    <3>1. PICK t \in Tasks : frame' = [frame EXCEPT ![t] = None]
      BY <2>3
    <3> QED BY <1>0, <2>1, <3>1
  <2> QED BY <2>1, <2>2, <2>3
<1>11. CASE EncDrainOut
  BY <1>11, DrainOutFacts
<1>12. CASE PutTake
  BY <1>12, PutTakeFacts
<1>13. CASE PutEnqueue
  BY <1>13, PutEnqueueFacts
<1>14. CASE PutFill
  <2>1. PICK f \in {count + 1, None} : frame' = [frame EXCEPT ![put.mInputTask] = f]
    BY <1>14, PutFillFacts
  <2>2. /\ UNCHANGED <<enc, freed>> /\ put.mInputTask \in Tasks /\ count' = count + 1
    BY <1>14, PutFillFacts
  <2>3. /\ 1 .. count \subseteq 1 .. count' /\ count + 1 \in 1 .. count'
        /\ count + 1 \notin 1 .. count
    BY <1>0, <2>2
  <2>4. f # None => f \in (1 .. count') \ freed /\ f \notin 1 .. count
    BY <1>0, <2>1, <2>3
  <2>5. UNCHANGED mode
    BY <1>14, PutFillFacts
  <2> HIDE DEF InUse
  <2> QED BY <1>0, <2>1, <2>2, <2>3, <2>4, <2>5 DEF InUse
<1>15. CASE PutFree
  <2>1. /\ UNCHANGED <<mode, enc, count>> /\ put.mInputTask \in Tasks
        /\ freed' = freed \cup ({frame[put.mInputTask]} \ {None})
        /\ frame' = [frame EXCEPT ![put.mInputTask] = None]
    BY <1>15, PutFreeFacts
  <2> QED BY <1>0, <2>1
<1>16. CASE GetTake
  BY <1>16, GetTakeFacts
<1>17. CASE GetTook
  <2>1. UNCHANGED <<mode, frame, count, freed>>
    BY <1>17, GetTookFacts
  <2>2. /\ enc'.work = enc.work
        /\ enc'.pc = enc.pc \/ enc'.pc \in {"control", "reset"}
    BY <1>17, UserSteps DEF GetPacket
  <2> QED BY <2>1, <2>2
<1>18. CASE GetEnqueue
  BY <1>18, GetEnqueueFacts
<1>19. CASE ~Moves
  BY <1>19, Quiet DEF Holding, Working
<1> QED BY <1>1, <1>2, <1>3, <1>4, <1>5, <1>6, <1>7, <1>8, <1>9, <1>10, <1>11, <1>12,
           <1>13, <1>14, <1>15, <1>16, <1>17, <1>18, <1>19 DEF Moves

-----------------------------------------------------------------------------
(* Every step keeps the output tasks the encoder and get_packet count on.  *)
LEMMA NextReady ==
    ASSUME Base, ClearInv, ReadyInv, [Next]_vars
    PROVE  ReadyInv'
<1> DEFINE R1 == "out" \in enc.rdy /\
                    (\/ enc.pc \in PreTake \cup {"take_packet", "return_empty", "take_out"}
                     \/ mode.version = "v1" /\ enc.pc = "encode")
                   => HasTask(outq, "INPUT")
           R2 == HoldsOut => outq.status[enc.task_out] = "INPUT_HOLD"
           R3 == get.pc \in {"took", "enqueue"} => outq.status[get.task] = "OUTPUT_HOLD"
           R5 == put.pc \in {"poll_idle", "take_idle"} => put.mInputTask = None
<1>r. ReadyInv <=> R1 /\ R2 /\ R3 /\ ~outq.asserted /\ R5
  BY DEF ReadyInv
<1>q. ReadyInv' <=> R1' /\ R2' /\ R3' /\ ~outq'.asserted /\ R5'
  BY DEF ReadyInv
<1>0. /\ put \in PutType /\ get \in GetType /\ GetTasks /\ EncTasks
      /\ Signalled(get).pc = get.pc /\ Signalled(get).task = get.task
      /\ Signalled(put).pc = put.pc /\ Signalled(put).mInputTask = put.mInputTask
      /\ mode.version \in {"v1", "v2"} /\ outq.asserted \in BOOLEAN /\ outq'.asserted \in BOOLEAN
      /\ enc \in EncType
  <2>1. TypeOK /\ TypeOK'
    BY Steps, BaseEncoder, BasePut, BaseGet, BaseCalls DEF Base
  <2> QED BY <2>1, Constants DEF Base, TypeOK, TasksInv, Signalled, GetType, PutType,
                                 ModeType, QueuesOf
<1> USE DEF HasTask, Queued, StatusCurr, HoldsOut, PreTake, Polling
<1> USE <1>r, <1>q, <1>0
<1>1. CASE EncTake
  BY <1>1, TakeFacts
<1>2. CASE EncReturnEmpty
  BY <1>2, ReturnEmptyFacts
<1>3. CASE EncReturn
  BY <1>3, ReturnFacts
<1>4. CASE EncTakeOut
  <2>1. R1' /\ R3' /\ ~outq'.asserted /\ R5'
    BY <1>4, TakeOutFacts DEF InTaken, GetTasks
  <2>2. R2'
    BY <1>4, TakeOutFacts DEF InTaken
  <2> QED BY <2>1, <2>2
<1>5. CASE EncSend
  <2>1. /\ UNCHANGED <<mode, put>> /\ enc.pc = "send" /\ enc'.pc = "loop" /\ enc'.rdy = {}
        /\ get' = Signalled(get) /\ InGiven(outq, outq', enc.task_out)
    BY <1>5, SendFacts
  <2>2. R2 /\ outq.status[enc.task_out] = "INPUT_HOLD"
    BY <2>1
  <2>3. ~outq'.asserted
    BY <2>1, <2>2 DEF InGiven
  <2>4. R3'
    BY <2>1, <2>2 DEF InGiven, GetTasks
  <2> QED BY <2>1, <2>3, <2>4
<1>6. CASE EncTakeFrame
  BY <1>6, TakeFrameFacts
<1>7. CASE EncTakePacket
  <2>1. R1' /\ R3' /\ ~outq'.asserted /\ R5'
    BY <1>7, TakePacketFacts DEF InTaken, GetTasks
  <2>2. R2'
    BY <1>7, TakePacketFacts DEF InTaken
  <2> QED BY <2>1, <2>2
<1>8. CASE EncSendFirst
  <2>1. /\ UNCHANGED <<mode, put>> /\ enc.pc \in {"encode", "send"} /\ enc'.pc = "return"
        /\ get' = Signalled(get) /\ InGiven(outq, outq', enc.task_out)
        /\ mode.version = "v2"
    BY <1>8, SendFirstFacts
  <2>2. R2 /\ outq.status[enc.task_out] = "INPUT_HOLD"
    BY <2>1
  <2>3. ~outq'.asserted
    BY <2>1, <2>2 DEF InGiven
  <2>4. R3'
    BY <2>1, <2>2 DEF InGiven, GetTasks
  <2> QED BY <2>1, <2>3, <2>4
<1>9. CASE EncReturnLast
  BY <1>9, ReturnLastFacts
<1>10. CASE EncDrainIn
  BY <1>10, DrainInFacts
<1>11. CASE EncDrainOut
  <2>1. get.pc = "idle"
    BY <1>11, DrainOutFacts DEF ClearInv
  <2> QED BY <1>11, <2>1, DrainOutFacts
<1>12. CASE PutTake
  BY <1>12, PutTakeFacts
<1>13. CASE PutEnqueue
  BY <1>13, PutEnqueueFacts
<1>14. CASE PutFill
  BY <1>14, PutFillFacts
<1>14a. CASE PutFree
  BY <1>14a, PutFreeFacts
<1>15. CASE GetTake
  BY <1>15, GetTakeFacts DEF OutTaken, EncTasks
<1>16. CASE GetTook
  <2>1. /\ UNCHANGED <<mode, outq, put>> /\ get'.pc = "enqueue" /\ get.pc = "took"
        /\ get'.task = get.task
    BY <1>16, GetTookFacts
  <2>2. /\ enc'.task_out = enc.task_out /\ enc'.rdy = enc.rdy
        /\ enc'.pc = enc.pc \/ (enc.pc = "wait" /\ enc'.pc \in {"control", "reset"})
    BY <1>16, UserSteps DEF GetPacket
  <2> QED BY <2>1, <2>2
<1>17. CASE GetEnqueue
  BY <1>17, GetEnqueueFacts DEF OutGiven, EncTasks
<1>18. CASE ~Moves
  <2>1. R2' /\ R3' /\ ~outq'.asserted
    BY <1>18, Quiet DEF Holding, Working
  <2>2. R1'
    <3>1. CASE EncTurn /\ ~EncPollOut
      <4>1. UNCHANGED <<outq, mode>>
        BY <1>18, Quiet
      <4>2. CASE EncCheck
        BY <4>1, <4>2 DEF EncCheck, AfterWait, EncType
      <4>3. CASE EncPollIn
        BY <4>1, <4>3 DEF EncPollIn, EncType
      <4>4. CASE EncNoControl \/ EncControl \/ EncControlPost \/ EncControlDone
        BY <4>1, <4>4 DEF EncNoControl, EncControl, EncControlPost, EncControlDone, EncType
      <4>5. CASE EncNoReset \/ EncReset \/ EncResetDone \/ EncStopping
        BY <4>1, <4>5 DEF EncNoReset, EncReset, EncResetDone, EncStopping, EncType
      <4> QED BY <3>1, <4>2, <4>3, <4>4, <4>5 DEF EncTurn
    <3>2. CASE EncPollOut
      BY <3>2 DEF EncPollOut, queues, encRest, EncType
    <3>3. CASE ~EncTurn
      BY <1>18, <3>3, Quiet
    <3> QED BY <3>1, <3>2, <3>3
  <2>3. R5'
    <3>1. CASE put' = put
      BY <3>1
    <3>2. CASE PutStart \/ PutPoll \/ PutTimeout \/ PutPollAgain \/ PutTook \/ PutNotify
      BY <3>2 DEF PutStart, PutPoll, PutTimeout, PutPollAgain, PutTaken, PutTook, PutNotify,
                  PutType, Base, TasksInv, PutTasks
    <3> QED BY <1>18, <3>1, <3>2, Quiet
  <2> QED BY <2>1, <2>2, <2>3
<1> QED BY <1>1, <1>2, <1>3, <1>4, <1>5, <1>6, <1>7, <1>8, <1>9, <1>10, <1>11, <1>12,
           <1>13, <1>14, <1>14a, <1>15, <1>16, <1>17, <1>18 DEF Moves

-----------------------------------------------------------------------------
(* Every step keeps the input tasks the encoder and put_frame count on.    *)
LEMMA NextRegular ==
    ASSUME Base, ClearInv, RdyInv, ReadyInv, RegularInv, Regular, [Next]_vars
    PROVE  RegularInv'
<1> DEFINE G1 == enc.pc \notin {"crashed", "return_empty"} /\ ~inq.asserted
           G2 == "in" \in enc.rdy /\ enc.pc \in PreTake => HasTask(inq, "OUTPUT")
           G3 == HoldsIn => inq.status[enc.task_in] = "OUTPUT_HOLD"
           G4 == put.mInputTask # None /\ put.pc \in {"idle", "took_idle", "took_done",
                                                      "fill", "enqueue", "free"}
                    => inq.status[put.mInputTask] = "INPUT_HOLD"
           G5 == put.poll = "woken" => HasTask(inq, "INPUT")
           G6 == ~mode.empty =>
                    /\ \A t \in Tasks : inq.status[t] = "OUTPUT_PORT" => frame[t] # None
                    /\ put.pc = "enqueue" => frame[put.mInputTask] # None
<1>r. G1 /\ G2 /\ G3 /\ G4 /\ G5 /\ G6
  BY DEF RegularInv
<1>q. ASSUME G1', G2', G3', G4', G5', G6' PROVE RegularInv'
  BY <1>q DEF RegularInv
<1>0. /\ put \in PutType /\ put' \in PutType /\ PutTasks /\ EncTasks
      /\ mode.version \in {"v1", "v2"} /\ inq.asserted \in BOOLEAN /\ inq'.asserted \in BOOLEAN
      /\ enc \in EncType /\ frame \in [Tasks -> Frames \cup {None}] /\ count \in 0 .. MaxFrames
      /\ None \notin Tasks
  <2>1. TypeOK /\ TypeOK' /\ PutTasks /\ EncTasks
    BY Steps, BaseEncoder, BasePut, BaseGet, BaseCalls DEF Base, TasksInv
  <2>2. mode.version \in {"v1", "v2"}
    BY <2>1, Constants DEF TypeOK, ModeType
  <2> QED BY <2>1, <2>2, Constants DEF TypeOK, QueuesOf
<1>s. /\ Signalled(put).pc = put.pc /\ Signalled(put).mInputTask = put.mInputTask
      /\ Signalled(put).poll = put.poll \/ Signalled(put).poll = "woken"
  BY <1>0 DEF Signalled, PutType
<1>v. mode.InputTimeout = "MPP_POLL_BLOCK" /\ (mode.version = "v1" => ~mode.empty)
  BY DEF Regular, EmptyForV1, PutMayRetry
<1>w. enc.pc = "take" => HasTask(inq, "OUTPUT")
  BY <1>r DEF RdyInv, PreTake, Working
<1>x. enc.pc \in {"take_packet", "take_out"} => HasTask(outq, "INPUT")
  BY DEF RdyInv, ReadyInv, Working
<1>m. put.mInputTask \in Tasks \cup {None}
  BY <1>0 DEF PutType
<1> USE DEF HasTask, Queued, StatusCurr, HoldsIn, PreTake, Polling
<1> USE <1>r, <1>q, <1>0
<1>1. CASE EncTake
  <2> DEFINE t == enc'.task_in
  <2>1. /\ UNCHANGED <<mode, put>> /\ mode.version = "v1" /\ ~mode.empty
        /\ OutTaken(inq, inq', t) /\ enc'.work = frame[t]
        /\ frame' = [frame EXCEPT ![t] = None]
        /\ enc'.pc = IF enc'.work = None THEN "return_empty" ELSE "encode"
    BY <1>1, <1>w, <1>v, TakeFacts
  <2> HIDE DEF t
  <2>2. enc'.pc = "encode"
    BY <2>1 DEF OutTaken
  <2>3. G1' /\ G2' /\ G3'
    BY <2>1, <2>2 DEF OutTaken, t
  <2>4. G4'
    BY <1>m, <2>1 DEF OutTaken
  <2>5. G5'
    BY <2>1 DEF OutTaken
  <2>6. G6'
    BY <2>1 DEF OutTaken, PutTasks
  <2> QED BY <2>3, <2>4, <2>5, <2>6
<1>2. CASE EncReturnEmpty
  BY <1>2, ReturnEmptyFacts
<1>3. CASE EncReturn
  <2>1. /\ UNCHANGED mode /\ enc.pc = "encode" /\ enc'.pc = "take_out"
        /\ frame' = [frame EXCEPT ![enc.task_in] = enc.work]
        /\ put' = Signalled(put) /\ OutGiven(inq, inq', enc.task_in)
        /\ mode.version = "v1"
    BY <1>3, ReturnFacts
  <2>2. inq.status[enc.task_in] = "OUTPUT_HOLD"
    BY <2>1
  <2>3. G1' /\ G2' /\ G3' /\ G5'
    BY <2>1, <2>2 DEF OutGiven
  <2>4. G4'
    BY <1>m, <1>s, <2>1, <2>2 DEF OutGiven
  <2>5. G6'
    BY <1>s, <2>1, <2>2 DEF OutGiven, PutTasks
  <2> QED BY <2>3, <2>4, <2>5
<1>4. CASE EncTakeOut
  BY <1>4, TakeOutFacts
<1>5. CASE EncSend
  BY <1>5, SendFacts
<1>6. CASE EncTakeFrame
  <2>1. /\ UNCHANGED <<mode, put, frame>>
        /\ OutTaken(inq, inq', enc'.task_in) /\ enc'.pc = "take_packet"
    BY <1>6, <1>w, TakeFrameFacts
  <2>2. G1' /\ G2' /\ G3'
    BY <2>1 DEF OutTaken
  <2>3. G4'
    BY <1>m, <2>1 DEF OutTaken
  <2>4. G5' /\ G6'
    BY <2>1 DEF OutTaken, PutTasks
  <2> QED BY <2>2, <2>3, <2>4
<1>7. CASE EncTakePacket
  <2>1. /\ UNCHANGED <<mode, put, inq>> /\ enc'.pc \in {"encode", "send"}
        /\ enc'.task_in = enc.task_in /\ enc.task_in \in Tasks
        /\ frame' = [frame EXCEPT ![enc.task_in] = None] /\ enc.pc = "take_packet"
        /\ mode.version = "v2"
    BY <1>7, <1>x, TakePacketFacts
  <2>2. inq.status[enc.task_in] = "OUTPUT_HOLD"
    BY <2>1
  <2>3. G1' /\ G2' /\ G3' /\ G4' /\ G5'
    BY <2>1, <2>2
  <2>4. G6'
    BY <2>1, <2>2 DEF PutTasks
  <2> QED BY <2>3, <2>4
<1>8. CASE EncSendFirst
  BY <1>8, SendFirstFacts
<1>9. CASE EncReturnLast
  <2>1. /\ UNCHANGED mode /\ enc.pc = "return" /\ enc'.pc = "loop" /\ enc'.rdy = {}
        /\ frame' = [frame EXCEPT ![enc.task_in] = enc.work]
        /\ put' = Signalled(put) /\ OutGiven(inq, inq', enc.task_in)
    BY <1>9, ReturnLastFacts
  <2>2. inq.status[enc.task_in] = "OUTPUT_HOLD"
    BY <2>1
  <2>3. G1' /\ G2' /\ G3' /\ G5'
    BY <2>1, <2>2 DEF OutGiven
  <2>4. G4'
    BY <1>m, <1>s, <2>1, <2>2 DEF OutGiven
  <2>5. G6'
    BY <1>s, <2>1, <2>2 DEF OutGiven, PutTasks
  <2> QED BY <2>3, <2>4, <2>5
<1>10. CASE EncDrainIn
  <2>1. /\ UNCHANGED <<mode, put>> /\ enc'.pc \in {"drain_in", "drain_out"}
        /\ ~inq'.asserted /\ put.pc = "idle" /\ put.poll = "no"
    BY <1>10, DrainInFacts DEF ClearInv, PutTasks
  <2>2. CASE UNCHANGED <<inq, frame>>
    BY <2>1, <2>2
  <2>3. CASE \E t \in Tasks :
               /\ frame' = [frame EXCEPT ![t] = None]
               /\ inq.status[t] = "OUTPUT_PORT" /\ inq'.status[t] = "INPUT_PORT"
               /\ \A u \in Tasks \ {t} : inq'.status[u] = inq.status[u]
    <3>1. PICK t \in Tasks :
               /\ frame' = [frame EXCEPT ![t] = None]
               /\ inq.status[t] = "OUTPUT_PORT" /\ inq'.status[t] = "INPUT_PORT"
               /\ \A u \in Tasks \ {t} : inq'.status[u] = inq.status[u]
      BY <2>3
    <3>2. G4'
      <4>1. put.mInputTask \in Tasks \cup {None}
        BY DEF PutType
      <4> QED BY <2>1, <3>1, <4>1
    <3> QED BY <2>1, <3>1, <3>2
  <2> QED BY <1>10, <2>2, <2>3, DrainInFacts
<1>11. CASE EncDrainOut
  BY <1>11, DrainOutFacts
<1>12. CASE PutTake
  <2>1. /\ UNCHANGED <<mode, frame, enc>>
        /\ put.pc \in {"take_idle", "take_done"} /\ put'.pc \in {"took_idle", "took_done"}
        /\ put'.poll = put.poll /\ InTaken(inq, inq', put'.mInputTask)
    BY <1>12, PutTakeFacts
  <2>2. put'.poll = "no"
    BY <2>1 DEF PutTasks
  <2>3. G1' /\ G2' /\ G3'
    BY <2>1 DEF InTaken, EncTasks
  <2>4. G4' /\ G5' /\ G6'
    BY <2>1, <2>2 DEF InTaken
  <2> QED BY <2>3, <2>4
<1>13. CASE PutEnqueue
  <2>1. /\ UNCHANGED <<mode, frame, enc>> /\ put.pc = "enqueue" /\ put'.pc = "notify"
        /\ put'.poll = put.poll /\ put'.mInputTask = put.mInputTask
        /\ InGiven(inq, inq', put.mInputTask)
    BY <1>13, PutEnqueueFacts
  <2>2. put'.poll = "no" /\ put.mInputTask \in Tasks /\ put.mInputTask # None
    BY <2>1 DEF PutTasks
  <2>3. inq.status[put.mInputTask] = "INPUT_HOLD"
    BY <2>1, <2>2
  <2>4. G1' /\ G2' /\ G3'
    BY <2>1, <2>3 DEF InGiven, EncTasks
  <2>5. G4' /\ G5' /\ G6'
    BY <2>1, <2>2 DEF InGiven
  <2> QED BY <2>4, <2>5
<1>14. CASE PutFill
  <2>1. PICK f \in {count + 1, None} :
             /\ frame' = [frame EXCEPT ![put.mInputTask] = f]
             /\ ~mode.empty => f = count + 1
    BY <1>14, PutFillFacts
  <2>2. /\ UNCHANGED <<mode, inq, enc>> /\ put.pc = "fill" /\ put'.pc = "enqueue"
        /\ put'.poll = put.poll /\ put'.mInputTask = put.mInputTask
        /\ put.mInputTask \in Tasks
    BY <1>14, PutFillFacts
  <2>3. count + 1 # None
    BY <2>2, Constants DEF PutTasks, Frames
  <2>4. G1' /\ G2' /\ G3' /\ G4' /\ G5'
    BY <2>2
  <2>5. G6'
    BY <2>1, <2>2, <2>3
  <2> QED BY <2>4, <2>5
<1>15. CASE PutFree
  <2>1. /\ UNCHANGED <<mode, inq, enc>> /\ put.pc = "free" /\ put'.pc = "idle"
        /\ put'.poll = put.poll /\ put'.mInputTask = put.mInputTask
        /\ put.mInputTask \in Tasks /\ frame' = [frame EXCEPT ![put.mInputTask] = None]
    BY <1>15, PutFreeFacts
  <2>2. inq.status[put.mInputTask] = "INPUT_HOLD"
    BY <2>1
  <2> QED BY <2>1, <2>2
<1>16. CASE GetTake
  BY <1>16, GetTakeFacts
<1>17. CASE GetTook
  <2>1. UNCHANGED <<mode, inq, frame, put>>
    BY <1>17, GetTookFacts
  <2>2. /\ enc'.task_in = enc.task_in /\ enc'.rdy = enc.rdy
        /\ enc'.pc = enc.pc \/ (enc.pc = "wait" /\ enc'.pc \in {"control", "reset"})
    BY <1>17, UserSteps DEF GetPacket
  <2> QED BY <2>1, <2>2
<1>18. CASE GetEnqueue
  BY <1>18, GetEnqueueFacts
<1>19. CASE ~Moves
  <2>1. UNCHANGED <<mode, inq, frame>>
    BY <1>19, Quiet
  <2>2. G1' /\ G3'
    BY <1>19, Quiet DEF Holding, Working
  <2>3. G2'
    <3>1. CASE EncTurn /\ ~EncPollOut /\ ~EncPollIn
      <4>2. CASE EncCheck
        BY <2>1, <4>2 DEF EncCheck, AfterWait, EncType
      <4>4. CASE EncNoControl \/ EncControl \/ EncControlPost \/ EncControlDone
        BY <2>1, <4>4 DEF EncNoControl, EncControl, EncControlPost, EncControlDone, EncType
      <4>5. CASE EncNoReset \/ EncReset \/ EncResetDone \/ EncStopping
        BY <2>1, <4>5 DEF EncNoReset, EncReset, EncResetDone, EncStopping, EncType
      <4> QED BY <3>1, <4>2, <4>4, <4>5 DEF EncTurn
    <3>2. CASE EncPollOut
      BY <2>1, <3>2 DEF EncPollOut, EncType
    <3>3. CASE EncPollIn
      BY <2>1, <3>3 DEF EncPollIn, EncType
    <3>4. CASE ~EncTurn
      BY <1>19, <2>1, <3>4, Quiet
    <3> QED BY <3>1, <3>2, <3>3, <3>4
  <2>4. G4' /\ G5' /\ G6'
    <3>1. CASE put' = put
      BY <2>1, <3>1
    <3>2. CASE PutStart
      BY <2>1, <3>2 DEF PutStart, PutType, PutTasks
    <3>3. CASE PutPoll
      BY <1>v, <2>1, <3>3 DEF PutPoll, PutTaken, PutType
    <3>4. CASE PutTimeout
      BY <1>v, <2>1, <3>4 DEF PutTimeout
    <3>5. CASE PutPollAgain
      BY <2>1, <3>5 DEF PutPollAgain, PutTaken, PutType
    <3>6. CASE PutTook
      BY <2>1, <3>6 DEF PutTook, PutType
    <3>7. CASE PutNotify
      BY <2>1, <3>7 DEF PutNotify, PutType
    <3> QED BY <1>19, <3>1, <3>2, <3>3, <3>4, <3>5, <3>6, <3>7, Quiet
  <2> QED BY <2>2, <2>3, <2>4
<1> QED BY <1>1, <1>2, <1>3, <1>4, <1>5, <1>6, <1>7, <1>8, <1>9, <1>10, <1>11, <1>12,
           <1>13, <1>14, <1>15, <1>16, <1>17, <1>18, <1>19 DEF Moves

-----------------------------------------------------------------------------
(* Numbered lists: the first is taken, one is appended, some are emptied.  *)
LEMMA NumberedTail ==
    ASSUME NEW s, NEW r, NEW f, NEW g, NEW k,
           s \in Seq(Tasks), s # <<>>, r = Tail(s), k \in Nat,
           Numbered(f, s, k), \A t \in Tasks : g[t] \in {f[t], None}
    PROVE  /\ f[Head(s)] \in {k + 1, None} /\ Numbered(g, r, k + 1)
           /\ Len(s) = Len(r) + 1 /\ Len(r) \in Nat
<1>1. /\ Len(s) \in Nat /\ Len(s) # 0 /\ Head(s) = s[1]
      /\ Len(r) = Len(s) - 1
      /\ \A i \in 1 .. Len(s) - 1 : r[i] = s[i + 1]
      /\ \A i \in 1 .. Len(s) : s[i] \in Tasks
  OBVIOUS
<1>2. f[Head(s)] \in {k + 1, None}
  BY <1>1 DEF Numbered
<1>3. ASSUME NEW i \in 1 .. Len(r) PROVE g[r[i]] \in {(k + 1) + i, None}
  <2>1. r[i] = s[i + 1] /\ i + 1 \in 1 .. Len(s) /\ k + (i + 1) = (k + 1) + i
    BY <1>1
  <2>2. f[s[i + 1]] \in {k + (i + 1), None} /\ s[i + 1] \in Tasks
    BY <1>1, <2>1 DEF Numbered
  <2> QED BY <2>1, <2>2
<1> QED BY <1>1, <1>2, <1>3 DEF Numbered

(* One is appended.                                                        *)
LEMMA NumberedAppend ==
    ASSUME NEW s, NEW r, NEW e, NEW f, NEW g, NEW k,
           s \in Seq(Tasks), e \in Tasks, r = Append(s, e), k \in Nat,
           Numbered(f, s, k), \A i \in 1 .. Len(s) : g[s[i]] \in {f[s[i]], None},
           g[e] \in {k + Len(s) + 1, None}
    PROVE  Numbered(g, r, k) /\ Len(r) = Len(s) + 1 /\ Len(s) \in Nat
<1>1. /\ Len(s) \in Nat /\ Len(r) = Len(s) + 1
      /\ \A i \in 1 .. Len(s) : r[i] = s[i]
      /\ r[Len(s) + 1] = e
  OBVIOUS
<1>2. ASSUME NEW i \in 1 .. Len(r) PROVE g[r[i]] \in {k + i, None}
  <2>1. CASE i \in 1 .. Len(s)
    BY <1>1, <2>1 DEF Numbered
  <2>2. CASE i = Len(s) + 1
    <3>1. k + i = k + Len(s) + 1
      BY <1>1, <2>2
    <3> QED BY <1>1, <2>2, <3>1
  <2> QED BY <1>1, <2>1, <2>2
<1> QED BY <1>1, <1>2 DEF Numbered

(* Some are emptied.                                                       *)
LEMMA NumberedKept ==
    ASSUME NEW s, NEW f, NEW g, NEW k,
           Numbered(f, s, k), \A i \in 1 .. Len(s) : g[s[i]] \in {f[s[i]], None}
    PROVE  Numbered(g, s, k)
BY DEF Numbered

-----------------------------------------------------------------------------
(* What the steps below are taken from.                                    *)
Ordered ==
    /\ Base /\ RdyInv /\ ReadyInv /\ RegularInv /\ Regular /\ InOrder

(* What the lemmas about the order use of the other parts.                 *)
LEMMA OrderFacts ==
    ASSUME Ordered
    PROVE  /\ InList \in Seq(Tasks) /\ Len(InList) \in Nat
           /\ OutList \in Seq(Tasks) /\ Len(OutList) \in Nat
           /\ Len(got) \in Nat /\ GetEnd \in Nat /\ OutEnd \in Nat /\ EncEnd \in Nat
           /\ InEnd \in Nat /\ PutEnd \in Nat
           /\ \A i \in 1 .. Len(InList) :
                 InList[i] \in Tasks /\ inq.status[InList[i]] = "OUTPUT_PORT"
           /\ \A i \in 1 .. Len(OutList) :
                 OutList[i] \in Tasks /\ outq.status[OutList[i]] = "OUTPUT_PORT"
           /\ frame \in [Tasks -> Frames \cup {None}]
           /\ packet \in [Tasks -> Frames \cup {None}]
           /\ enc.pc = "take" => HasTask(inq, "OUTPUT")
           /\ enc.pc \in {"take_packet", "take_out"} => HasTask(outq, "INPUT")
           /\ put.pc = "enqueue" => put.mInputTask \in Tasks
           /\ put.pc \in {"fill", "enqueue"} => inq.status[put.mInputTask] = "INPUT_HOLD"
           /\ HoldsIn => inq.status[enc.task_in] = "OUTPUT_HOLD" /\ enc.task_in \in Tasks
           /\ HoldsOut => outq.status[enc.task_out] = "INPUT_HOLD"
           /\ get.pc \in {"took", "enqueue"} =>
                 outq.status[get.task] = "OUTPUT_HOLD" /\ get.task \in Tasks
           /\ Signalled(put).pc = put.pc /\ Signalled(put).mInputTask = put.mInputTask
           /\ Signalled(get).pc = get.pc /\ Signalled(get).task = get.task
<1>1. /\ TypeOK /\ PutTasks /\ GetTasks /\ EncTasks
      /\ inq \in QueuesOf(Tasks) /\ Linked(inq, Tasks)
      /\ outq \in QueuesOf(Tasks) /\ Linked(outq, Tasks)
      /\ put \in PutType /\ get \in GetType
      /\ frame \in [Tasks -> Frames \cup {None}]
      /\ packet \in [Tasks -> Frames \cup {None}]
      /\ got \in Seq(Frames \cup {None}) /\ None \notin Tasks
  BY Constants DEF Ordered, Base, TasksInv, TypeOK, LinksInv
<1>2. /\ InList \in Seq(Tasks) /\ Len(InList) \in Nat
      /\ \A i \in 1 .. Len(InList) :
            InList[i] \in Tasks /\ inq.status[InList[i]] = "OUTPUT_PORT"
  BY <1>1, ListStatus DEF InList
<1>3. /\ OutList \in Seq(Tasks) /\ Len(OutList) \in Nat
      /\ \A i \in 1 .. Len(OutList) :
            OutList[i] \in Tasks /\ outq.status[OutList[i]] = "OUTPUT_PORT"
  BY <1>1, ListStatus DEF OutList
<1>4. Len(got) \in Nat
  BY <1>1
<1>5. /\ GetEnd \in Nat /\ OutEnd \in Nat /\ EncEnd \in Nat /\ InEnd \in Nat /\ PutEnd \in Nat
  <2>1. GetHas \in Nat /\ EncHas \in Nat /\ PutHas \in Nat
    BY DEF GetHas, EncHas, PutHas
  <2>2. GetEnd \in Nat
    BY <1>4, <2>1 DEF GetEnd
  <2>3. OutEnd \in Nat
    BY <1>3, <2>2 DEF OutEnd
  <2>4. EncEnd \in Nat
    BY <2>1, <2>3 DEF EncEnd
  <2>5. InEnd \in Nat
    BY <1>2, <2>4 DEF InEnd
  <2>6. PutEnd \in Nat
    BY <2>1, <2>5 DEF PutEnd
  <2> QED BY <2>2, <2>3, <2>4, <2>5, <2>6
<1>6. /\ enc.pc = "take" => HasTask(inq, "OUTPUT")
      /\ enc.pc \in {"take_packet", "take_out"} => HasTask(outq, "INPUT")
  BY DEF Ordered, RdyInv, ReadyInv, RegularInv, PreTake, Working
<1>7. /\ put.pc = "enqueue" => put.mInputTask \in Tasks
      /\ put.pc \in {"fill", "enqueue"} => inq.status[put.mInputTask] = "INPUT_HOLD"
      /\ HoldsIn => inq.status[enc.task_in] = "OUTPUT_HOLD" /\ enc.task_in \in Tasks
  BY <1>1 DEF Ordered, RegularInv, PutTasks, EncTasks
<1>8. /\ HoldsOut => outq.status[enc.task_out] = "INPUT_HOLD"
      /\ get.pc \in {"took", "enqueue"} =>
            outq.status[get.task] = "OUTPUT_HOLD" /\ get.task \in Tasks
  BY <1>1 DEF Ordered, ReadyInv, GetTasks
<1>9. /\ Signalled(put).pc = put.pc /\ Signalled(put).mInputTask = put.mInputTask
      /\ Signalled(get).pc = get.pc /\ Signalled(get).task = get.task
  BY <1>1 DEF Signalled, PutType, GetType
<1> QED BY <1>1, <1>2, <1>3, <1>4, <1>5, <1>6, <1>7, <1>8, <1>9

(* The encoder takes the oldest frame. *)
LEMMA OrderTake ==
    ASSUME Ordered, EncTake \/ EncTakeFrame
    PROVE  InOrder'
<1> USE OrderFacts
<1> DEFINE t == enc'.task_in
<1>0. Base
  BY DEF Ordered
<1>1. /\ UNCHANGED <<mode, outq, packet, put, get, got, count>>
      /\ enc.pc = "take" /\ OutTaken(inq, inq', t) /\ t \in Tasks
  BY <1>0, TakeFacts, TakeFrameFacts DEF OutTaken
<1>2. \/ /\ enc'.work = frame[t] /\ frame' = [frame EXCEPT ![t] = None]
         /\ enc'.pc = "encode"
      \/ enc'.pc = "take_packet" /\ frame' = frame
  <2>1. CASE EncTake
    <3>1. /\ enc'.work = frame[t] /\ frame' = [frame EXCEPT ![t] = None]
          /\ enc'.pc = IF enc'.work = None THEN "return_empty" ELSE "encode"
          /\ mode.version = "v1"
      BY <1>0, <1>1, <2>1, TakeFacts
    <3>2. frame[t] # None
      BY <1>1, <3>1 DEF Ordered, Regular, EmptyForV1, RegularInv, OutTaken
    <3> QED BY <3>1, <3>2
  <2>2. CASE EncTakeFrame
    BY <1>0, <1>1, <2>2, TakeFrameFacts
  <2> QED BY <2>1, <2>2
<1> HIDE DEF t
<1>3. \A u \in Tasks : frame'[u] \in {frame[u], None}
  BY <1>1, <1>2
<1>4. /\ frame[t] \in {EncEnd + 1, None} /\ Numbered(frame', InList', EncEnd + 1)
      /\ Len(InList) = Len(InList') + 1 /\ Len(InList') \in Nat
  <2>1. /\ InList # <<>> /\ t = Head(InList) /\ InList' = Tail(InList)
        /\ Numbered(frame, InList, EncEnd) /\ InList \in Seq(Tasks) /\ EncEnd \in Nat
    BY <1>1 DEF OutTaken, InList, Ordered, InOrder
  <2> DEFINE s == InList
             r == InList'
             f == frame
             g == frame'
             k == EncEnd
  <2>2. /\ s # <<>> /\ t = Head(s) /\ r = Tail(s) /\ Numbered(f, s, k)
        /\ s \in Seq(Tasks) /\ k \in Nat /\ \A u \in Tasks : g[u] \in {f[u], None}
    BY <1>3, <2>1
  <2> HIDE DEF s, r, f, g, k
  <2>3. /\ f[Head(s)] \in {k + 1, None} /\ Numbered(g, r, k + 1)
        /\ Len(s) = Len(r) + 1 /\ Len(r) \in Nat
    BY <2>2, NumberedTail
  <2> QED BY <2>2, <2>3 DEF s, r, f, g, k
<1>5. /\ GetEnd' = GetEnd /\ OutEnd' = OutEnd /\ EncEnd' = EncEnd + 1
      /\ InEnd' = InEnd /\ PutEnd' = PutEnd
  <2>1. GetEnd' = GetEnd /\ OutList' = OutList
    BY <1>1 DEF GetEnd, GetHas, OutList
  <2>2. OutEnd' = OutEnd
    BY <2>1 DEF OutEnd
  <2>3. EncHas = 0 /\ EncHas' = 1
    BY <1>1, <1>2 DEF EncHas, Busy, HoldsIn
  <2>4. EncEnd' = EncEnd + 1
    BY <2>2, <2>3 DEF EncEnd
  <2>5. InEnd' = InEnd
    BY <1>4, <2>4 DEF InEnd
  <2> QED BY <1>1, <2>1, <2>2, <2>4, <2>5 DEF PutEnd, PutHas
<1>6. Busy' => enc'.work \in {EncEnd', None}
  BY <1>2, <1>4, <1>5 DEF Busy, HoldsIn
<1>7. enc'.pc = "take_packet" => frame'[enc'.task_in] \in {EncEnd', None}
  BY <1>2, <1>4, <1>5 DEF t
<1>8. /\ get'.pc = "took" => packet'[get'.task] \in {GetEnd', None}
      /\ Numbered(packet', OutList', GetEnd')
      /\ put'.pc = "enqueue" => frame'[put'.mInputTask] \in {PutEnd', None}
      /\ count' = PutEnd'
  BY <1>1, <1>3, <1>5 DEF Ordered, InOrder, OutList
<1>9. Numbered(frame', InList', EncEnd')
  BY <1>4, <1>5
<1> QED BY <1>6, <1>7, <1>8, <1>9 DEF InOrder

(* The encoder gives a task with its frame back. *)
LEMMA OrderReturn ==
    ASSUME Ordered, EncReturn \/ EncReturnLast
    PROVE  InOrder'
<1> USE OrderFacts
<1>0. Base
  BY DEF Ordered
<1>1. /\ UNCHANGED <<mode, outq, packet, get, got, count>>
      /\ frame' = [frame EXCEPT ![enc.task_in] = enc.work]
      /\ put' = Signalled(put) /\ OutGiven(inq, inq', enc.task_in)
      /\ HoldsIn
      /\ \/ /\ enc.pc = "encode" /\ enc'.pc = "take_out" /\ enc'.work = enc.work
         \/ mode.version = "v2" /\ enc.pc = "return" /\ enc'.pc = "loop"
  BY <1>0, ReturnFacts, ReturnLastFacts DEF HoldsIn
<1>2. InList' = InList
  BY <1>1 DEF InList, OutGiven
<1>3. \A u \in Tasks : inq.status[u] # "OUTPUT_HOLD" => frame'[u] = frame[u]
  BY <1>1
<1>4. /\ Busy <=> enc.pc = "encode"
      /\ Busy' <=> enc.pc = "encode"
  BY <1>1 DEF Busy, HoldsIn
<1>5. /\ GetEnd' = GetEnd /\ OutEnd' = OutEnd /\ EncEnd' = EncEnd
      /\ InEnd' = InEnd /\ PutEnd' = PutEnd
  <2>1. GetEnd' = GetEnd /\ OutList' = OutList
    BY <1>1 DEF GetEnd, GetHas, OutList
  <2>2. EncHas' = EncHas
    BY <1>1, <1>4 DEF EncHas
  <2>3. PutHas' = PutHas
    BY <1>1 DEF PutHas
  <2> QED BY <1>2, <2>1, <2>2, <2>3 DEF OutEnd, EncEnd, InEnd, PutEnd
<1>6. Numbered(frame', InList', EncEnd')
  <2>1. \A i \in 1 .. Len(InList) : frame'[InList[i]] \in {frame[InList[i]], None}
    BY <1>3
  <2>2. Numbered(frame, InList, EncEnd)
    BY DEF Ordered, InOrder
  <2> QED BY <1>2, <1>5, <2>1, <2>2, NumberedKept
<1>7. put'.pc = "enqueue" => frame'[put'.mInputTask] \in {PutEnd', None}
  BY <1>1, <1>3, <1>5 DEF Ordered, InOrder
<1>8. /\ get'.pc = "took" => packet'[get'.task] \in {GetEnd', None}
      /\ Numbered(packet', OutList', GetEnd')
      /\ count' = PutEnd'
  BY <1>1, <1>5 DEF Ordered, InOrder, OutList
<1>9. /\ Busy' => enc'.work \in {EncEnd', None}
      /\ enc'.pc # "take_packet"
  BY <1>1, <1>4, <1>5 DEF Ordered, InOrder
<1> QED BY <1>6, <1>7, <1>8, <1>9 DEF InOrder

(* The encoder takes a task for the packet; v2 also takes the frame out.   *)
LEMMA OrderTakeOut ==
    ASSUME Ordered, EncTakeOut \/ EncTakePacket
    PROVE  InOrder'
<1> USE OrderFacts
<1>0. Base
  BY DEF Ordered
<1>1. /\ UNCHANGED <<mode, inq, packet, put, get, got, count>>
      /\ outq'.queue["OUTPUT_PORT"] = outq.queue["OUTPUT_PORT"]
      /\ \/ /\ enc.pc = "take_out" /\ enc'.pc = "send" /\ enc'.work = enc.work
            /\ frame' = frame
         \/ /\ enc.pc = "take_packet" /\ enc'.pc \in {"encode", "send"}
            /\ mode.version = "v2" /\ enc.task_in \in Tasks
            /\ enc'.work = frame[enc.task_in]
            /\ frame' = [frame EXCEPT ![enc.task_in] = None]
  BY <1>0, TakeOutFacts, TakePacketFacts DEF InTaken
<1>2. InList' = InList /\ OutList' = OutList
  BY <1>1 DEF InList, OutList
<1>3. \A u \in Tasks : frame'[u] \in {frame[u], None}
  BY <1>1
<1>4. EncHas = 1 /\ EncHas' = 1
  BY <1>1 DEF EncHas, Busy, HoldsIn
<1>5. /\ GetEnd' = GetEnd /\ OutEnd' = OutEnd /\ EncEnd' = EncEnd
      /\ InEnd' = InEnd /\ PutEnd' = PutEnd
  BY <1>1, <1>2, <1>4 DEF GetEnd, GetHas, OutEnd, EncEnd, InEnd, PutEnd, PutHas
<1>6. Numbered(frame', InList', EncEnd')
  <2>1. Numbered(frame, InList, EncEnd)
    BY DEF Ordered, InOrder
  <2> QED BY <1>2, <1>3, <1>5, <2>1, NumberedKept
<1>7. put'.pc = "enqueue" => frame'[put'.mInputTask] \in {PutEnd', None}
  BY <1>1, <1>3, <1>5 DEF Ordered, InOrder
<1>8. /\ get'.pc = "took" => packet'[get'.task] \in {GetEnd', None}
      /\ Numbered(packet', OutList', GetEnd')
      /\ count' = PutEnd'
  BY <1>1, <1>2, <1>5 DEF Ordered, InOrder
<1>9. /\ enc'.work \in {EncEnd', None}
      /\ enc'.pc # "take_packet"
  BY <1>1, <1>5 DEF Ordered, InOrder, Busy
<1> QED BY <1>6, <1>7, <1>8, <1>9 DEF InOrder

(* The encoder sends the packet. *)
LEMMA OrderSend ==
    ASSUME Ordered, EncSend \/ EncSendFirst
    PROVE  InOrder'
<1> USE OrderFacts
<1>0. Base
  BY DEF Ordered
<1>1. /\ UNCHANGED <<mode, inq, frame, put, got, count>>
      /\ packet' = [packet EXCEPT ![enc.task_out] = enc.work]
      /\ get' = Signalled(get) /\ InGiven(outq, outq', enc.task_out)
      /\ enc'.pc \in {"loop", "return"} /\ HoldsOut /\ Busy
  BY <1>0, SendFacts, SendFirstFacts DEF HoldsOut, HoldsIn, Busy
<1>2. /\ InList' = InList /\ OutList' = Append(OutList, enc.task_out)
      /\ enc.task_out \in Tasks
  BY <1>1 DEF InList, OutList, InGiven
<1>3. EncHas = 1 /\ EncHas' = 0
  BY <1>1 DEF EncHas, Busy, HoldsIn
<1>4. GetEnd' = GetEnd /\ EncEnd = GetEnd + Len(OutList) + 1
  BY <1>1, <1>3 DEF GetEnd, GetHas, EncEnd, OutEnd
<1>5. /\ Numbered(packet', OutList', GetEnd) /\ Len(OutList') = Len(OutList) + 1
  <2>1. \A i \in 1 .. Len(OutList) : packet'[OutList[i]] \in {packet[OutList[i]], None}
    BY <1>1, <1>2
  <2>2. packet'[enc.task_out] \in {GetEnd + Len(OutList) + 1, None}
    BY <1>1, <1>2, <1>4 DEF Ordered, InOrder
  <2>3. Numbered(packet, OutList, GetEnd)
    BY DEF Ordered, InOrder
  <2> DEFINE s == OutList
             r == OutList'
             f == packet
             g == packet'
             k == GetEnd
             e == enc.task_out
  <2>4. /\ s \in Seq(Tasks) /\ e \in Tasks /\ k \in Nat /\ Numbered(f, s, k)
        /\ \A i \in 1 .. Len(s) : g[s[i]] \in {f[s[i]], None}
        /\ g[e] \in {k + Len(s) + 1, None} /\ r = Append(s, e)
    BY <1>2, <2>1, <2>2, <2>3
  <2> HIDE DEF s, r, f, g, k, e
  <2>5. Numbered(g, r, k) /\ Len(r) = Len(s) + 1
    BY <2>4, NumberedAppend
  <2> QED BY <2>5 DEF s, r, f, g, k, e
<1>6. EncEnd' = EncEnd /\ InEnd' = InEnd /\ PutEnd' = PutEnd
  <2>1. EncEnd' = EncEnd
    BY <1>3, <1>4, <1>5 DEF EncEnd, OutEnd
  <2> QED BY <1>1, <1>2, <2>1 DEF InEnd, PutEnd, PutHas
<1>7. get'.pc = "took" => packet'[get'.task] \in {GetEnd', None}
  BY <1>1, <1>2, <1>4 DEF Ordered, InOrder
<1>8. /\ Numbered(frame', InList', EncEnd')
      /\ put'.pc = "enqueue" => frame'[put'.mInputTask] \in {PutEnd', None}
      /\ count' = PutEnd'
  BY <1>1, <1>2, <1>6 DEF Ordered, InOrder
<1>9. ~Busy' /\ enc'.pc # "take_packet"
  BY <1>1 DEF Busy, HoldsIn
<1> QED BY <1>4, <1>5, <1>7, <1>8, <1>9 DEF InOrder

(* put_frame fills a task, enqueues it, takes the frame out of it again.   *)
LEMMA OrderPut ==
    ASSUME Ordered, PutTake \/ PutEnqueue \/ PutFill \/ PutFree
    PROVE  InOrder'
<1> USE OrderFacts
<1>0. Base
  BY DEF Ordered
<1>1. UNCHANGED <<mode, enc, outq, packet, get, got>>
  BY <1>0, PutTakeFacts, PutEnqueueFacts, PutFillFacts, PutFreeFacts
<1>2. /\ OutList' = OutList /\ GetEnd' = GetEnd /\ OutEnd' = OutEnd /\ EncEnd' = EncEnd
      /\ Busy' = Busy
  BY <1>1 DEF OutList, GetEnd, GetHas, OutEnd, EncEnd, EncHas, Busy, HoldsIn
<1>3. /\ get'.pc = "took" => packet'[get'.task] \in {GetEnd', None}
      /\ Numbered(packet', OutList', GetEnd')
      /\ Busy' => enc'.work \in {EncEnd', None}
  BY <1>1, <1>2 DEF Ordered, InOrder
<1>4. CASE PutTake \/ PutFree
  <2>1. /\ count' = count /\ InList' = InList /\ put.pc # "enqueue" /\ put'.pc # "enqueue"
        /\ \A u \in Tasks : frame'[u] \in {frame[u], None}
    BY <1>0, <1>4, PutTakeFacts, PutFreeFacts DEF InList, InTaken
  <2>2. InEnd' = InEnd /\ PutEnd' = PutEnd
    BY <1>2, <2>1 DEF InEnd, PutEnd, PutHas
  <2>3. Numbered(frame', InList', EncEnd')
    <3>1. Numbered(frame, InList, EncEnd)
      BY DEF Ordered, InOrder
    <3> QED BY <1>2, <2>1, <3>1, NumberedKept
  <2>4. enc'.pc = "take_packet" => frame'[enc'.task_in] \in {EncEnd', None}
    <3>1. enc.pc = "take_packet" => enc.task_in \in Tasks
      BY DEF HoldsIn
    <3> QED BY <1>1, <1>2, <2>1, <3>1 DEF Ordered, InOrder
  <2> QED BY <1>3, <2>1, <2>2, <2>3, <2>4 DEF Ordered, InOrder
<1>5. CASE PutFill
  <2>1. /\ inq' = inq /\ put.pc = "fill" /\ put'.pc = "enqueue" /\ count' = count + 1
        /\ put'.mInputTask = put.mInputTask /\ put.mInputTask \in Tasks
        /\ inq.status[put.mInputTask] = "INPUT_HOLD"
    BY <1>0, <1>5, PutFillFacts
  <2>2. PICK f \in {count + 1, None} : frame' = [frame EXCEPT ![put.mInputTask] = f]
    BY <1>0, <1>5, PutFillFacts
  <2>3. /\ \A u \in Tasks : inq.status[u] # "INPUT_HOLD" => frame'[u] = frame[u]
        /\ frame'[put.mInputTask] \in {count + 1, None}
    BY <2>1, <2>2
  <2>4. InList' = InList /\ InEnd' = InEnd /\ PutEnd = InEnd /\ PutEnd' = InEnd + 1
    BY <1>2, <2>1 DEF InList, InEnd, PutEnd, PutHas
  <2>5. count = InEnd
    BY <2>4 DEF Ordered, InOrder
  <2>6. Numbered(frame', InList', EncEnd')
    <3>1. Numbered(frame, InList, EncEnd)
      BY DEF Ordered, InOrder
    <3>2. \A i \in 1 .. Len(InList) : frame'[InList[i]] \in {frame[InList[i]], None}
      BY <2>3
    <3> QED BY <1>2, <2>4, <3>1, <3>2, NumberedKept
  <2>7. enc'.pc = "take_packet" => frame'[enc'.task_in] \in {EncEnd', None}
    <3>1. enc.pc = "take_packet" =>
             enc.task_in \in Tasks /\ inq.status[enc.task_in] = "OUTPUT_HOLD"
      BY DEF HoldsIn
    <3> QED BY <1>1, <1>2, <2>3, <3>1 DEF Ordered, InOrder
  <2>8. /\ put'.pc = "enqueue" => frame'[put'.mInputTask] \in {PutEnd', None}
        /\ count' = PutEnd'
    BY <2>1, <2>3, <2>4, <2>5
  <2> QED BY <1>3, <2>6, <2>7, <2>8 DEF InOrder
<1>6. CASE PutEnqueue
  <2>1. /\ frame' = frame /\ count' = count /\ put.pc = "enqueue" /\ put'.pc = "notify"
        /\ InGiven(inq, inq', put.mInputTask)
    BY <1>0, <1>6, PutEnqueueFacts
  <2>2. put.mInputTask \in Tasks /\ InList' = Append(InList, put.mInputTask)
    BY <2>1 DEF InGiven, InList
  <2>3. PutEnd = EncEnd + Len(InList) + 1
    BY <2>1 DEF PutEnd, PutHas, InEnd
  <2>4. Numbered(frame', InList', EncEnd') /\ Len(InList') = Len(InList) + 1
    <3> DEFINE s == InList
               r == InList'
               f == frame
               k == EncEnd
               e == put.mInputTask
    <3>1. /\ s \in Seq(Tasks) /\ e \in Tasks /\ k \in Nat /\ Numbered(f, s, k)
          /\ \A i \in 1 .. Len(s) : f[s[i]] \in {f[s[i]], None}
          /\ f[e] \in {k + Len(s) + 1, None} /\ r = Append(s, e)
      BY <2>1, <2>2, <2>3 DEF Ordered, InOrder
    <3> HIDE DEF s, r, f, k, e
    <3>2. Numbered(f, r, k) /\ Len(r) = Len(s) + 1
      BY <3>1, NumberedAppend
    <3> QED BY <1>2, <2>1, <3>2 DEF s, r, f, k, e
  <2>5. PutEnd' = PutEnd
    <3>1. InEnd' = PutEnd
      BY <1>2, <2>3, <2>4 DEF InEnd
    <3> QED BY <2>1, <3>1 DEF PutEnd, PutHas
  <2>6. enc'.pc = "take_packet" => frame'[enc'.task_in] \in {EncEnd', None}
    BY <1>1, <1>2, <2>1 DEF Ordered, InOrder
  <2> QED BY <1>3, <2>1, <2>4, <2>5, <2>6 DEF Ordered, InOrder
<1> QED BY <1>4, <1>5, <1>6

(* get_packet takes the oldest packet, and gives the task back.            *)
LEMMA OrderGet ==
    ASSUME Ordered, ClearInv, GetTake \/ GetTook \/ GetEnqueue
    PROVE  /\ InOrder'
           /\ \/ got' = got
              \/ \E p \in {Len(got) + 1, None} : got' = Append(got, p)
<1> USE OrderFacts
<1>0. Base
  BY DEF Ordered
<1>1. UNCHANGED <<mode, inq, frame, put, count>>
  BY <1>0, GetTakeFacts, GetTookFacts, GetEnqueueFacts
<1>2. /\ enc'.work = enc.work /\ enc'.task_in = enc.task_in
      /\ Busy' = Busy /\ (enc'.pc = "take_packet") = (enc.pc = "take_packet")
      /\ InList' = InList
  <2>1. /\ enc'.work = enc.work /\ enc'.task_in = enc.task_in
        /\ \/ enc'.pc = enc.pc
           \/ enc.pc = "wait" /\ enc'.pc \in {"control", "reset"}
    BY <1>0, UserSteps DEF GetPacket
  <2> QED BY <1>1, <2>1 DEF Busy, HoldsIn, InList
<1>3. EncHas' = EncHas /\ PutHas' = PutHas
  BY <1>1, <1>2 DEF EncHas, PutHas
<1>4. ASSUME OutEnd' = OutEnd
      PROVE  /\ Busy' => enc'.work \in {EncEnd', None}
             /\ enc'.pc = "take_packet" => frame'[enc'.task_in] \in {EncEnd', None}
             /\ Numbered(frame', InList', EncEnd')
             /\ put'.pc = "enqueue" => frame'[put'.mInputTask] \in {PutEnd', None}
             /\ count' = PutEnd'
  <2>1. EncEnd' = EncEnd /\ InEnd' = InEnd /\ PutEnd' = PutEnd
    BY <1>2, <1>3, <1>4 DEF EncEnd, InEnd, PutEnd
  <2> QED BY <1>1, <1>2, <2>1 DEF Ordered, InOrder
<1>5. CASE GetTake
  <2>1. /\ packet' = packet /\ got' = got /\ get.pc = "take" /\ get'.pc = "took"
        /\ OutTaken(outq, outq', get'.task)
    BY <1>0, <1>5, GetTakeFacts
  <2>2. /\ GetEnd = Len(got) /\ GetEnd' = GetEnd + 1
    BY <2>1 DEF GetEnd, GetHas
  <2>3. /\ packet'[get'.task] \in {GetEnd', None} /\ Numbered(packet', OutList', GetEnd')
        /\ Len(OutList) = Len(OutList') + 1 /\ Len(OutList') \in Nat
    <3> DEFINE s == OutList
               r == OutList'
               f == packet
               k == GetEnd
    <3>1. /\ s # <<>> /\ get'.task = Head(s) /\ r = Tail(s) /\ Numbered(f, s, k)
          /\ s \in Seq(Tasks) /\ k \in Nat /\ \A u \in Tasks : f[u] \in {f[u], None}
      BY <2>1 DEF OutTaken, OutList, Ordered, InOrder
    <3> HIDE DEF s, r, f, k
    <3>2. /\ f[Head(s)] \in {k + 1, None} /\ Numbered(f, r, k + 1)
          /\ Len(s) = Len(r) + 1 /\ Len(r) \in Nat
      BY <3>1, NumberedTail
    <3> QED BY <2>1, <2>2, <3>1, <3>2 DEF s, r, f, k
  <2>4. OutEnd' = OutEnd
    BY <2>2, <2>3 DEF OutEnd
  <2> QED BY <1>4, <2>1, <2>3, <2>4 DEF InOrder
<1>6. CASE GetTook
  <2>1. /\ outq' = outq /\ get.pc = "took" /\ get'.pc = "enqueue" /\ get.task \in Tasks
        /\ got' = Append(got, packet[get.task])
        /\ packet' = [packet EXCEPT ![get.task] = None]
    BY <1>0, <1>6, GetTookFacts
  <2>2. GetEnd = Len(got) + 1 /\ OutList' = OutList /\ Len(got') = Len(got) + 1
    <3>1. got \in Seq(Frames \cup {None}) /\ packet[get.task] \in Frames \cup {None}
      BY <1>0, <2>1 DEF Base, TypeOK
    <3> QED BY <2>1, <3>1 DEF GetEnd, GetHas, OutList
  <2>3. GetEnd' = GetEnd /\ OutEnd' = OutEnd
    BY <2>1, <2>2 DEF GetEnd, GetHas, OutEnd
  <2>4. packet[get.task] \in {Len(got) + 1, None}
    BY <2>1, <2>2 DEF Ordered, InOrder
  <2>5. Numbered(packet', OutList', GetEnd')
    <3>1. Numbered(packet, OutList, GetEnd)
      BY DEF Ordered, InOrder
    <3>2. \A i \in 1 .. Len(OutList) : packet'[OutList[i]] \in {packet[OutList[i]], None}
      BY <2>1
    <3> QED BY <2>2, <2>3, <3>1, <3>2, NumberedKept
  <2> QED BY <1>4, <2>1, <2>3, <2>4, <2>5 DEF InOrder
<1>7. CASE GetEnqueue
  <2>1. /\ packet' = packet /\ got' = got /\ get.pc = "enqueue" /\ get'.pc = "notify"
        /\ OutGiven(outq, outq', get.task)
    BY <1>0, <1>7, GetEnqueueFacts
  <2>2. OutList' = OutList
    BY <2>1 DEF OutGiven, OutList
  <2>3. GetEnd' = GetEnd /\ OutEnd' = OutEnd
    BY <2>1, <2>2 DEF GetEnd, GetHas, OutEnd
  <2>4. Numbered(packet', OutList', GetEnd')
    BY <2>1, <2>2, <2>3 DEF Ordered, InOrder
  <2> QED BY <1>4, <2>1, <2>3, <2>4 DEF InOrder
<1> QED BY <1>5, <1>6, <1>7

(* The other steps change nothing of it.                                   *)
LEMMA OrderQuiet ==
    ASSUME Ordered, ClearInv, [Next]_vars, ~Moves
    PROVE  InOrder'
<1>0. Base /\ InOrder
  BY DEF Ordered
<1>1. /\ UNCHANGED <<mode, inq, outq, frame, packet, count, got>>
      /\ enc'.task_in = enc.task_in /\ enc'.work = enc.work
      /\ put'.mInputTask = put.mInputTask /\ get'.task = get.task
      /\ enc'.pc = enc.pc \/ (enc.pc \notin Holding /\ enc'.pc \notin Holding)
      /\ get'.pc = get.pc \/ {get.pc, get'.pc} \cap {"took", "enqueue"} = {}
  BY <1>0, Quiet
<1>2. (put'.pc = "enqueue") = (put.pc = "enqueue")
  <2>0. put \in PutType
    BY <1>0 DEF Base, TypeOK
  <2>1. CASE put' = put
    BY <2>1
  <2>2. CASE PutStart \/ PutPoll \/ PutTimeout \/ PutPollAgain
    <3>1. PutPollAgain => put.pc \in {"poll_idle", "poll_done"}
      BY <1>0 DEF PutPollAgain, Base, TasksInv, PutTasks
    <3> QED BY <2>0, <2>2, <3>1 DEF PutStart, PutPoll, PutTimeout, PutPollAgain, PutTaken, PutType
  <2>3. CASE PutTook \/ PutNotify
    BY <2>0, <2>3 DEF PutTook, PutNotify, PutType
  <2> QED BY <1>0, <2>1, <2>2, <2>3, Quiet
<1>3. /\ Busy' = Busy /\ (enc'.pc = "take_packet") = (enc.pc = "take_packet")
      /\ (get'.pc = "took") = (get.pc = "took")
  BY <1>1 DEF Busy, HoldsIn, Holding, Working
<1>4. /\ OutList' = OutList /\ InList' = InList
      /\ GetHas' = GetHas /\ EncHas' = EncHas /\ PutHas' = PutHas
  BY <1>1, <1>2, <1>3 DEF OutList, InList, GetHas, EncHas, PutHas
<1>5. /\ GetEnd' = GetEnd /\ OutEnd' = OutEnd /\ EncEnd' = EncEnd
      /\ InEnd' = InEnd /\ PutEnd' = PutEnd
  BY <1>1, <1>4 DEF GetEnd, OutEnd, EncEnd, InEnd, PutEnd
<1> QED BY <1>0, <1>1, <1>2, <1>3, <1>4, <1>5 DEF InOrder

(* Every step keeps the numbers going up by one.                           *)
LEMMA NextOrder ==
    ASSUME Base, ClearInv, RdyInv, ReadyInv, RegularInv, OrderInv, [Next]_vars
    PROVE  OrderInv'
<1> SUFFICES ASSUME Regular'
             PROVE  /\ \A i \in 1 .. Len(got') : got'[i] \in {i, None}
                    /\ clr' = "idle" => InOrder'
  BY DEF OrderInv
<1>1. Regular /\ \A i \in 1 .. Len(got) : got[i] \in {i, None}
  <2>1. mode' = mode
    BY ModeConstant
  <2> QED BY <2>1 DEF Regular, EmptyForV1, PutMayRetry, OrderInv
<1>2. clr = "idle" => Ordered
  BY <1>1 DEF Ordered, OrderInv
<1>3. clr' = "idle" => clr = "idle"
  BY ClearStays
<1>4. CASE GetTake \/ GetTook \/ GetEnqueue
  <2>1. Ordered
    <3>1. get.pc # "idle"
      BY <1>4 DEF GetTake, GetTook, GetEnqueue
    <3> QED BY <1>2, <3>1 DEF ClearInv
  <2>2. /\ InOrder'
        /\ \/ got' = got
           \/ \E p \in {Len(got) + 1, None} : got' = Append(got, p)
    BY <1>4, <2>1, OrderGet
  <2>3. got \in Seq(Frames \cup {None}) /\ got' \in Seq(Frames \cup {None})
    <3>1. Base'
      BY <1>4, BaseGet DEF GetPacket
    <3> QED BY <3>1 DEF Base, TypeOK
  <2>4. \A i \in 1 .. Len(got') : got'[i] \in {i, None}
    <3>1. CASE got' = got
      BY <1>1, <3>1
    <3>2. CASE \E p \in {Len(got) + 1, None} : got' = Append(got, p)
      <4>1. PICK p \in {Len(got) + 1, None} : got' = Append(got, p)
        BY <3>2
      <4>2. /\ Len(got) \in Nat /\ Len(got') = Len(got) + 1 /\ got'[Len(got) + 1] = p
            /\ \A i \in 1 .. Len(got) : got'[i] = got[i]
        BY <2>3, <4>1
      <4> QED BY <1>1, <4>1, <4>2
    <3> QED BY <2>2, <3>1, <3>2
  <2> QED BY <2>2, <2>4
<1>5. CASE Moves /\ ~(GetTake \/ GetTook \/ GetEnqueue)
  <2>1. got' = got
    BY <1>5, TakeFacts, ReturnEmptyFacts, ReturnFacts, TakeOutFacts, SendFacts,
       TakeFrameFacts, TakePacketFacts, SendFirstFacts, ReturnLastFacts, DrainInFacts,
       DrainOutFacts, PutTakeFacts, PutEnqueueFacts, PutFillFacts, PutFreeFacts DEF Moves
  <2>2. ASSUME clr' = "idle" PROVE InOrder'
    <3>1. Ordered /\ clr = "idle"
      BY <1>2, <1>3, <2>2
    <3>2. ~EncDrainIn /\ ~EncDrainOut
      BY <3>1 DEF EncDrainIn, EncDrainOut, ClearInv
    <3>3. ~EncReturnEmpty
      BY <1>1 DEF EncReturnEmpty, RegularInv
    <3> QED BY <1>5, <3>1, <3>2, <3>3, OrderTake, OrderReturn, OrderTakeOut, OrderSend, OrderPut
            DEF Moves
  <2> QED BY <1>1, <2>1, <2>2
<1>6. CASE ~Moves
  <2>1. got' = got
    BY <1>6, Quiet
  <2> QED BY <1>1, <1>2, <1>3, <1>6, <2>1, OrderQuiet
<1> QED BY <1>4, <1>5, <1>6

-----------------------------------------------------------------------------
(* The invariant of the encoder: inductive as a whole.                     *)
IInv ==
    /\ Base /\ ClearInv /\ ResetInv /\ ControlInv /\ RdyInv /\ SleepInv /\ CommandInv
    /\ EventsInv /\ HoldersInv /\ FramesInv /\ ReadyInv /\ RegularInv /\ OrderInv

(* It holds when the context is created.                                   *)
LEMMA InitIInv == Init => IInv
<1> SUFFICES ASSUME Init PROVE IInv
  OBVIOUS
<1>1. Base
  BY InitBase
<1>2. /\ ~inq.asserted /\ ~outq.asserted
      /\ inq.queue["OUTPUT_PORT"] = <<>> /\ outq.queue["OUTPUT_PORT"] = <<>>
      /\ \A t \in Tasks : inq.status[t] = "INPUT_PORT" /\ outq.status[t] = "INPUT_PORT"
  BY Constants, QueueSetupFacts DEF Init, Tasks
<1>3. ClearInv /\ ResetInv /\ RdyInv /\ SleepInv
  BY <1>2 DEF Init, ClearInv, ResetInv, RdyInv, SleepInv, Working, HasTask, Queued, StatusCurr
<1>4. ControlInv
  BY DEF Init, ControlInv, Carried, Told, Calling
<1>5. CommandInv /\ EventsInv
  BY DEF Init, CommandInv, EventsInv
<1>6. HoldersInv
  BY <1>2 DEF HoldersInv
<1>7. FramesInv
  <2>1. \A t \in Tasks : frame[t] = None
    BY DEF Init
  <2> QED BY <2>1 DEF Init, FramesInv, InUse
<1>8. ReadyInv
  BY <1>2 DEF Init, ReadyInv, HoldsOut
<1>9. RegularInv
  BY <1>2 DEF Init, RegularInv, HoldsIn
<1>10. OrderInv
  <2>1. GetHas = 0 /\ EncHas = 0 /\ PutHas = 0 /\ ~Busy
    BY DEF Init, GetHas, EncHas, PutHas, Busy, HoldsIn
  <2>2. Len(got) = 0 /\ Len(OutList) = 0 /\ Len(InList) = 0
    BY <1>2 DEF Init, OutList, InList
  <2>3. PutEnd = 0
    BY <2>1, <2>2 DEF PutEnd, InEnd, EncEnd, OutEnd, GetEnd
  <2>4. Numbered(packet, OutList, GetEnd) /\ Numbered(frame, InList, EncEnd)
    BY <2>2 DEF Numbered
  <2>5. InOrder
    BY <2>1, <2>3, <2>4 DEF Init, InOrder
  <2> QED BY <2>2, <2>5 DEF OrderInv
<1> QED BY <1>1, <1>3, <1>4, <1>5, <1>6, <1>7, <1>8, <1>9, <1>10 DEF IInv

(* Every step of every thread preserves it.                                *)
LEMMA NextIInv ==
    ASSUME IInv, [Next]_vars
    PROVE  IInv'
<1> USE DEF IInv
<1>1. Base'
  BY Steps, BaseEncoder, BasePut, BaseGet, BaseCalls
<1>2. ClearInv' /\ ResetInv' /\ ControlInv' /\ RdyInv' /\ SleepInv' /\ CommandInv'
  BY NextClear, NextReset, NextControl, NextRdy, NextSleep, NextCommand
<1>3. EventsInv' /\ HoldersInv' /\ FramesInv' /\ ReadyInv'
  BY NextEvents, NextHolders, NextFrames, NextReady
<1>4. RegularInv'
  <2>1. CASE Regular
    BY <2>1, NextRegular
  <2>2. CASE ~Regular
    BY <2>2, ModeConstant DEF RegularInv, Regular, EmptyForV1, PutMayRetry
  <2> QED BY <2>1, <2>2
<1>5. OrderInv'
  BY NextOrder
<1> QED BY <1>1, <1>2, <1>3, <1>4, <1>5

(* The inductive invariant holds in every state.                           *)
THEOREM Inductive == Spec => []IInv
<1>1. Init => IInv
  BY InitIInv
<1>2. IInv /\ [Next]_vars => IInv'
  BY NextIInv
<1> QED BY <1>1, <1>2, PTL DEF Spec

-----------------------------------------------------------------------------
(* Every variable keeps its type.                                          *)
THEOREM TypeCorrect == Spec => []TypeOK
<1>1. IInv => TypeOK
  BY DEF IInv, Base
<1> QED BY <1>1, Inductive, PTL

(* The encoder never finds a port empty that it has polled, and whoever    *)
(* enqueues a task has dequeued it from that port: the asserts of the      *)
(* thread and of _mpp_port_enqueue hold, outside of the two uses named.    *)
THEOREM AssertsNeverFail == Spec => []AssertsHold
<1>1. IInv => AssertsHold
  BY DEF IInv, RegularInv, Regular, ReadyInv, AssertsHold
<1> QED BY <1>1, Inductive, PTL

(* The packets come out in the order of the frames, none lost, none twice. *)
THEOREM InOrderOut == Spec => []PacketsInOrder
<1>1. IInv => PacketsInOrder
  <2> SUFFICES ASSUME IInv PROVE PacketsInOrder
    OBVIOUS
  <2>1. DOMAIN got = 1 .. Len(got)
    BY DEF IInv, Base, TypeOK
  <2> QED BY <2>1 DEF IInv, OrderInv, Regular, PacketsInOrder
<1> QED BY <1>1, Inductive, PTL

(* put_frame does not release a frame the hardware still reads.            *)
THEOREM NeverFreedInUse == Spec => []NotFreedInUse
<1>1. IInv => NotFreedInUse
  <2> SUFFICES ASSUME IInv PROVE NotFreedInUse
    OBVIOUS
  <2>1. None \notin freed
    BY Constants DEF IInv, Base, TypeOK
  <2> QED BY <2>1 DEF IInv, FramesInv, InUse, NotFreedInUse
<1> QED BY <1>1, Inductive, PTL

(* A call of control that has returned has had its effect.                 *)
THEOREM ControlEffective == Spec => []ControlInForce
<1>1. IInv => ControlInForce
  <2> SUFFICES ASSUME IInv PROVE ControlInForce
    OBVIOUS
  <2>1. cmd \in CmdType
    BY DEF IInv, Base, TypeOK
  <2>2. /\ cmd.done \in Nat /\ cmd.cmd_recv \in Nat /\ cmd.cmd_send \in Nat
        /\ cmd.enc_ctrl \in Nat /\ Told \in {0, 1} /\ Carried \in {0, 1} /\ Told <= Carried
    BY <2>1 DEF CmdType, Told, Carried
  <2>3. /\ cmd.done = cmd.cmd_recv + Carried
        /\ cmd.enc_ctrl + cmd.cmd_send = cmd.cmd_recv + Told + Calling
        /\ cmd.done <= cmd.cmd_send
    BY DEF IInv, ControlInv
  <2>4. ctl = "idle" => cmd.done = cmd.cmd_send
    BY <2>2, <2>3 DEF Calling
  <2> QED BY <2>4 DEF IInv, ControlInv, ControlInForce
<1> QED BY <1>1, Inductive, PTL

(* The encoder does not sleep over a reset, a command, a frame or a packet *)
(* that somebody waits for it to see.                                      *)
THEOREM WakeupNotLost == Spec => []NoLostWakeup
<1>1. IInv => NoLostWakeup
  <2> SUFFICES ASSUME IInv, enc.pc = "wait"
               PROVE  /\ ~ctrl.reset_flag \/ rst = "notify"
                      /\ cmd.cmd_send = cmd.cmd_recv \/ ctl = "notify"
                      /\ Disturbed \/ NothingToDo
    BY DEF NoLostWakeup
  <2>1. /\ cmd \in CmdType /\ enc \in EncType
        /\ ctl \in {"idle", "notify", "sem_wait"}
    BY DEF IInv, Base, TypeOK
  <2>2. /\ ctrl.status_flag = enc.wait /\ enc.wait # {}
        /\ ctrl.notify_flag \cap ctrl.status_flag = {}
        /\ "CONTROL" \notin ctrl.notify_flag
        /\ ~ctrl.reset_flag \/ rst = "notify"
    BY DEF IInv, SleepInv
  <2>3. cmd.cmd_send = cmd.cmd_recv \/ ctl = "notify"
    <3>1. /\ cmd.done \in Nat /\ cmd.cmd_recv \in Nat /\ cmd.cmd_send \in Nat
          /\ cmd.enc_ctrl \in Nat /\ Told = 0 /\ Carried = 0
      BY <2>1 DEF CmdType, Told, Carried
    <3>2. /\ cmd.done = cmd.cmd_recv + Carried
          /\ cmd.enc_ctrl + cmd.cmd_send = cmd.cmd_recv + Told + Calling
          /\ cmd.done <= cmd.cmd_send
      BY DEF IInv, ControlInv
    <3>3. ctl = "idle" => cmd.cmd_send = cmd.cmd_recv
      BY <3>1, <3>2 DEF Calling
    <3>4. ctl = "sem_wait" => cmd.done = cmd.cmd_send
      BY <2>2 DEF IInv, CommandInv
    <3> QED BY <2>1, <3>1, <3>2, <3>3, <3>4
  <2>4. Disturbed \/ NothingToDo
    <3>1. "FRAME_ENQUEUE" \in enc.wait \/ "PACKET_ENQUEUE" \in enc.wait
      BY <2>1, <2>2 DEF EncType
    <3>2. /\ "FRAME_ENQUEUE" \in enc.wait => "FRAME_ENQUEUE" \notin ctrl.notify_flag
          /\ "PACKET_ENQUEUE" \in enc.wait => "PACKET_ENQUEUE" \notin ctrl.notify_flag
      BY <2>2
    <3> QED BY <3>1, <3>2 DEF IInv, EventsInv, NothingToDo
  <2> QED BY <2>2, <2>3, <2>4
<1> QED BY <1>1, Inductive, PTL

(* When clear has stopped the thread, every task is on the input side of   *)
(* its queue: none is left with a frame or a packet for somebody.          *)
THEOREM DeinitComplete == Spec => []DeinitAtInput
<1>1. IInv => DeinitAtInput
  <2> SUFFICES ASSUME IInv, clr = "done", NEW q \in {inq, outq}, NEW t \in Tasks
               PROVE  q.status[t] \in {"INPUT_PORT", "INPUT_HOLD"}
    BY DEF DeinitAtInput
  <2>1. /\ enc.pc = "exited" /\ get.pc = "idle"
        /\ q.queue["OUTPUT_PORT"] = <<>>
    BY DEF IInv, ClearInv, HasTask, Queued, StatusCurr
  <2>2. q \in QueuesOf(Tasks) /\ Linked(q, Tasks)
    BY DEF IInv, Base, TypeOK, LinksInv
  <2>3. q.status[t] \in Statuses /\ q.status[t] # "OUTPUT_PORT"
    <3>1. ToSet(q.queue["OUTPUT_PORT"]) = {u \in Tasks : q.status[u] = "OUTPUT_PORT"}
      BY <2>2 DEF Linked, PortStatuses
    <3>2. ToSet(<<>>) = {}
      BY DEF ToSet
    <3> QED BY <2>1, <2>2, <3>1, <3>2 DEF QueuesOf
  <2>4. q.status[t] # "OUTPUT_HOLD"
    BY <2>1 DEF IInv, HoldersInv, HoldsIn
  <2> QED BY <2>3, <2>4 DEF Statuses, PortStatuses, HoldStatuses
<1> QED BY <1>1, Inductive, PTL

(* reset returns only when the thread has taken the request back, the      *)
(* assert of mpp_enc_reset.                                                *)
THEOREM ResetTakenBack == Spec => ResetDone
<1>1. IInv /\ [Next]_vars => [ResetWait => ~ctrl.reset_flag]_vars
  <2> SUFFICES ASSUME IInv, ResetWait PROVE ~ctrl.reset_flag
    OBVIOUS
  <2>1. rst = "sem_wait" /\ ctrl.enc_reset > 0
    BY DEF ResetWait
  <2> QED BY <2>1 DEF IInv, ResetInv
<1> QED BY <1>1, Inductive, PTL DEF Spec, ResetDone
=============================================================================
