------------------------------- MODULE MppEnc -------------------------------
(***************************************************************************)
(* The encoder pipeline: the thread of mpp/codec/mpp_enc.cpp or of         *)
(* mpp/codec/mpp_enc_v2.cpp, the two task queues that connect it to its    *)
(* user, and the user calls of mpp/mpp.cpp that work the other ends:       *)
(* put_frame, get_packet, control, reset and clear.                        *)
(*                                                                         *)
(*   put_frame -> input queue -> encoder thread -> output queue -> get     *)
(*                                                                         *)
(* The encoder polls without blocking.  When a poll fails it sleeps on the *)
(* condition of its own thread until mpp_enc_notify reports an event it    *)
(* waits for; the events that came in between are kept in notify_flag.     *)
(*                                                                         *)
(* mEncVersion selects one of two threads.  v1 gives the frame back before *)
(* it takes a task for the packet; v2 takes both tasks first, and also     *)
(* carries out the control commands, which v1 leaves to the caller.        *)
(*                                                                         *)
(* One user thread puts frames, one gets packets, one sends commands, one  *)
(* resets; the context is cleared when no other call is in progress.       *)
(* Frames are numbered as they are put; encoding a frame yields the packet *)
(* of the same number.  None is a task without a frame or a packet.        *)
(***************************************************************************)
EXTENDS TaskQueueOps

CONSTANTS
    TaskCount,          \* tasks of each queue
    Modes,              \* ways to use an encoder, see ModeType
    OutputTimeout,      \* MPP_SET_OUTPUT_TIMEOUT
    MaxFrames,          \* bound on the frames put
    MaxResets,          \* bound on the calls of Mpp::reset
    MaxControls,        \* bound on the calls of Mpp::control
    None

Timeouts == {"MPP_POLL_BLOCK", "MPP_POLL_NON_BLOCK", "timed"}

(* mEncVersion, MPP_SET_INPUT_TIMEOUT, and whether the user may enqueue an *)
(* input task with no frame.                                               *)
ModeType == [version : {"v1", "v2"}, InputTimeout : Timeouts, empty : BOOLEAN]

ASSUME TaskCountAssumption == TaskCount \in Nat \ {0}
ASSUME ModesAssumption     == Modes \subseteq ModeType /\ OutputTimeout \in Timeouts
ASSUME BoundAssumption     == {MaxFrames, MaxResets, MaxControls} \subseteq Nat
ASSUME NoneAssumption      == None \notin 1 .. TaskCount + MaxFrames

VARIABLES
    mode,       \* how this context is used, chosen in Mpp::init
    inq,        \* mInputTaskQueue
    outq,       \* mOutputTaskQueue
    frame,      \* KEY_INPUT_FRAME of each input task
    packet,     \* KEY_OUTPUT_PACKET of each output task
    enc,        \* the encoder thread: where it is, and its locals
    ctrl,       \* what the encoder thread shares with the other threads
    cmd,        \* the commands to the v2 thread
    ctl,        \* where the thread in Mpp::control is
    put,        \* the thread in put_frame: where it is, mInputTask
    get,        \* the thread in get_packet: where it is, its task
    rst,        \* where the thread in Mpp::reset is
    clr,        \* where the thread in Mpp::clear is
    count,      \* frames put so far
    resets,     \* calls of reset so far
    freed,      \* frames put_frame gave back to the user
    got         \* packets get_packet returned

queues == <<inq, outq, frame, packet>>
users  == <<put, get, rst, clr>>
vars   == <<mode, queues, enc, ctrl, cmd, ctl, users, count, resets, freed, got>>

Tasks  == 1 .. TaskCount
Frames == 1 .. MaxFrames

(* The bits of notify_flag; MPP_ENC_RESET sets them all. *)
Reset == {"FRAME_ENQUEUE", "PACKET_DEQUEUE", "FRAME_DEQUEUE", "PACKET_ENQUEUE",
          "CONTROL", "OTHER"}

(* The commands that are not answered from the configuration on the spot.  *)
Commands == {"MPP_ENC_SET_CODEC_CFG", "MPP_ENC_GET_HDR_SYNC", "MPP_ENC_SET_IDR_FRAME"}

Init ==
    /\ mode \in Modes
    /\ cmd = [cmd |-> "none", cmd_send |-> 0, cmd_recv |-> 0, enc_ctrl |-> 0,
              hdr_need_updated |-> FALSE, done |-> 0]
    /\ ctl = "idle"
    /\ inq = QueueSetup(TaskCount) /\ outq = QueueSetup(TaskCount)
    /\ frame = [t \in Tasks |-> None] /\ packet = [t \in Tasks |-> None]
    /\ enc = [pc |-> "loop", rdy |-> {}, wait |-> {},
              task_in |-> None, task_out |-> None, work |-> None]
    /\ ctrl = [thread |-> "RUNNING", status_flag |-> {}, notify_flag |-> {},
               reset_flag |-> FALSE, enc_reset |-> 0, locked |-> FALSE]
    /\ put = [pc |-> "idle", poll |-> "no", mInputTask |-> None]
    /\ get = [pc |-> "idle", poll |-> "no", task |-> None]
    /\ rst = "idle" /\ clr = "idle"
    /\ count = 0 /\ resets = 0 /\ freed = {} /\ got = <<>>

-----------------------------------------------------------------------------
(* mpp_enc_notify: a new event the encoder waits for signals its thread.   *)
(* MppThread::wait restores the thread status unless stop has changed it.  *)

AfterWait == IF mode.version = "v2" THEN "control" ELSE "reset"

WakeEnc(c) ==
    /\ enc' = IF enc.pc = "wait" THEN [enc EXCEPT !.pc = AfterWait] ELSE enc
    /\ ctrl' = IF enc.pc = "wait" /\ c.thread = "WAITING"
               THEN [c EXCEPT !.thread = "RUNNING"] ELSE c

Signals(flag) ==
    \/ flag = {"CONTROL"}
    \/ /\ ctrl.notify_flag \cup flag # ctrl.notify_flag
       /\ (ctrl.notify_flag \cup flag) \cap ctrl.status_flag # {}

Notify(flag) ==
    LET c == [ctrl EXCEPT !.notify_flag = @ \cup flag]
    IN  IF Signals(flag) THEN WakeEnc(c) ELSE ctrl' = c /\ UNCHANGED enc

(* An enqueue signals the user thread that waits in a poll of that port. *)
Signalled(user) ==
    IF user.poll = "waiting" THEN [user EXCEPT !.poll = "woken"] ELSE user

-----------------------------------------------------------------------------
(* The encoder thread: mpp_enc_control_thread. *)

encRest == <<mode, ctl, put, get, rst, clr, count, resets, freed, got>>

(* Mutant: events that came in since the last check are forgotten. *)
MayWork_NoNotify == ctrl.reset_flag \/ enc.wait = {}

(* check_enc_task_wait; v1 is never sent CONTROL by itself. *)
MayWork ==
    \/ ctrl.reset_flag
    \/ mode.version = "v2" /\ "CONTROL" \in ctrl.notify_flag
    \/ enc.wait = {}
    \/ enc.wait \cap ctrl.notify_flag # {}

EncCheck ==
    /\ enc.pc = "loop" /\ ctrl.thread = "RUNNING"
    /\ enc' = [enc EXCEPT !.pc = IF MayWork THEN AfterWait ELSE "wait"]
    /\ ctrl' = [ctrl EXCEPT !.thread = IF MayWork THEN @ ELSE "WAITING",
                            !.status_flag = enc.wait,
                            !.notify_flag = {}]
    /\ UNCHANGED <<queues, cmd, encRest>>

(* v2: a command is carried out, then its sender is told, then counted.    *)
EncNoControl ==
    /\ enc.pc = "control" /\ cmd.cmd_send = cmd.cmd_recv
    /\ enc' = [enc EXCEPT !.pc = "reset"]
    /\ UNCHANGED <<queues, ctrl, cmd, encRest>>

(* Mutant: the sender is told before the command is carried out. *)
EncControl_PostFirst ==
    /\ enc.pc = "control" /\ cmd.cmd_send # cmd.cmd_recv
    /\ enc' = [enc EXCEPT !.pc = "control_done"]
    /\ cmd' = [cmd EXCEPT !.enc_ctrl = @ + 1]
    /\ UNCHANGED <<queues, ctrl, encRest>>

EncControl ==
    /\ enc.pc = "control" /\ cmd.cmd_send # cmd.cmd_recv
    /\ enc' = [enc EXCEPT !.pc = "control_post"]
    /\ cmd' = [cmd EXCEPT !.done = @ + 1,
                          !.hdr_need_updated =
                             CASE cmd.cmd = "MPP_ENC_SET_CODEC_CFG" -> TRUE
                               [] cmd.cmd = "MPP_ENC_GET_HDR_SYNC" -> FALSE
                               [] OTHER -> @]
    /\ UNCHANGED <<queues, ctrl, encRest>>

EncControlPost ==
    /\ enc.pc = "control_post"
    /\ enc' = [enc EXCEPT !.pc = "control_done"]
    /\ cmd' = [cmd EXCEPT !.enc_ctrl = @ + 1]
    /\ UNCHANGED <<queues, ctrl, encRest>>

EncControlDone ==
    /\ enc.pc = "control_done"
    /\ enc' = [enc EXCEPT !.pc = "loop"]
    /\ cmd' = [cmd EXCEPT !.cmd_recv = @ + 1]
    /\ UNCHANGED <<queues, ctrl, encRest>>

EncNoReset ==
    /\ enc.pc = "reset" /\ ~ctrl.reset_flag
    /\ enc' = [enc EXCEPT !.pc = "poll_in"]
    /\ UNCHANGED <<queues, ctrl, cmd, encRest>>

EncReset ==
    /\ enc.pc = "reset" /\ ctrl.reset_flag
    /\ enc' = [enc EXCEPT !.pc = "reset_done"]
    /\ ctrl' = [ctrl EXCEPT !.status_flag = {}]
    /\ UNCHANGED <<queues, cmd, encRest>>

(* Mutant: the semaphore is not posted. *)
EncResetDone_NoPost ==
    /\ enc.pc = "reset_done" /\ ~ctrl.locked
    /\ enc' = [enc EXCEPT !.pc = "loop"]
    /\ ctrl' = [ctrl EXCEPT !.reset_flag = FALSE]
    /\ UNCHANGED <<queues, cmd, encRest>>

(* Mutant: the mutex is not taken, the semaphore is posted first. *)
EncResetDone_PostFirst ==
    /\ enc.pc = "reset_done"
    /\ enc' = [enc EXCEPT !.pc = IF ctrl.enc_reset = 0 THEN @ ELSE "loop"]
    /\ ctrl' = IF ctrl.enc_reset = 0 THEN [ctrl EXCEPT !.enc_reset = 1]
                                     ELSE [ctrl EXCEPT !.reset_flag = FALSE]
    /\ UNCHANGED <<queues, cmd, encRest>>

(* Under the THREAD_CONTROL mutex, which reset holds while it notifies. *)
EncResetDone ==
    /\ enc.pc = "reset_done" /\ ~ctrl.locked
    /\ enc' = [enc EXCEPT !.pc = "loop"]
    /\ ctrl' = [ctrl EXCEPT !.reset_flag = FALSE, !.enc_reset = @ + 1]
    /\ UNCHANGED <<queues, cmd, encRest>>

(* task_in_rdy and task_out_rdy outlive a turn of the loop that does not   *)
(* reach its end.                                                          *)
EncPollIn ==
    /\ enc.pc = "poll_in"
    /\ enc' = IF "in" \in enc.rdy \/ HasTask(inq, "OUTPUT")
              THEN [enc EXCEPT !.pc = "poll_out", !.rdy = @ \cup {"in"},
                               !.wait = IF "in" \in enc.rdy THEN @
                                        ELSE @ \ {"FRAME_ENQUEUE"}]
              ELSE [enc EXCEPT !.pc = "loop", !.wait = @ \cup {"FRAME_ENQUEUE"}]
    /\ UNCHANGED <<queues, ctrl, cmd, encRest>>

EncPollOut ==
    /\ enc.pc = "poll_out"
    /\ enc' = IF "out" \in enc.rdy \/ HasTask(outq, "INPUT")
              THEN [enc EXCEPT !.pc = "take", !.rdy = @ \cup {"out"},
                               !.wait = IF "out" \in enc.rdy THEN @
                                        ELSE @ \ {"PACKET_ENQUEUE"}]
              ELSE [enc EXCEPT !.pc = "loop", !.wait = @ \cup {"PACKET_ENQUEUE"}]
    /\ UNCHANGED <<queues, ctrl, cmd, encRest>>

(* v1: the input task, the hardware, the input task back, the output task. *)

(* Mutant: the task goes back before the hardware is done with the frame. *)
EncTake_ReturnEarly ==
    /\ mode.version = "v1" /\ enc.pc = "take" /\ HasTask(inq, "OUTPUT")
    /\ LET t == NextTask(inq, "OUTPUT")
       IN  /\ inq' = PortEnqueue(PortDequeue(inq, "OUTPUT"), "OUTPUT", t)
           /\ enc' = [enc EXCEPT !.pc = "encode", !.task_in = t, !.work = frame[t]]
    /\ UNCHANGED <<frame, outq, packet, ctrl, cmd, encRest>>

(* mpp_assert(task_in): the lines after it use the task. *)
EncTake ==
    /\ mode.version = "v1" /\ enc.pc = "take"
    /\ IF HasTask(inq, "OUTPUT")
       THEN LET t == NextTask(inq, "OUTPUT")
            IN  /\ inq' = PortDequeue(inq, "OUTPUT")
                /\ frame' = [frame EXCEPT ![t] = None]
                /\ enc' = [enc EXCEPT !.pc = IF frame[t] = None THEN "return_empty"
                                                                ELSE "encode",
                                      !.task_in = t, !.work = frame[t]]
       ELSE /\ enc' = [enc EXCEPT !.pc = "crashed", !.task_in = None]
            /\ UNCHANGED <<inq, frame>>
    /\ UNCHANGED <<outq, packet, ctrl, cmd, encRest>>

(* An input task without a frame goes back; task.status is not cleared. *)
EncReturnEmpty ==
    /\ enc.pc = "return_empty"
    /\ inq' = PortEnqueue(inq, "OUTPUT", enc.task_in)
    /\ put' = Signalled(put)
    /\ enc' = [enc EXCEPT !.pc = "loop"]
    /\ UNCHANGED <<outq, frame, packet, ctrl, cmd, mode, ctl, get, rst, clr, count,
                   resets, freed, got>>

(* The hardware is done: the frame goes back with its task. *)
EncReturn ==
    /\ mode.version = "v1" /\ enc.pc = "encode"
    /\ frame' = [frame EXCEPT ![enc.task_in] = enc.work]
    /\ inq' = PortEnqueue(inq, "OUTPUT", enc.task_in)
    /\ put' = Signalled(put)
    /\ enc' = [enc EXCEPT !.pc = "take_out", !.task_in = None]
    /\ UNCHANGED <<outq, packet, ctrl, cmd, mode, ctl, get, rst, clr, count,
                   resets, freed, got>>

EncTakeOut ==
    /\ enc.pc = "take_out"
    /\ IF HasTask(outq, "INPUT")
       THEN /\ outq' = PortDequeue(outq, "INPUT")
            /\ enc' = [enc EXCEPT !.pc = "send", !.task_out = NextTask(outq, "INPUT")]
       ELSE /\ enc' = [enc EXCEPT !.pc = "loop", !.rdy = {}, !.work = None]
            /\ UNCHANGED outq
    /\ UNCHANGED <<inq, frame, packet, ctrl, cmd, encRest>>

(* Mutant: task.status is not cleared. *)
EncSend_KeepReady ==
    /\ mode.version = "v1" /\ enc.pc = "send"
    /\ packet' = [packet EXCEPT ![enc.task_out] = enc.work]
    /\ outq' = PortEnqueue(outq, "INPUT", enc.task_out)
    /\ get' = Signalled(get)
    /\ enc' = [enc EXCEPT !.pc = "loop", !.work = None, !.task_out = None]
    /\ UNCHANGED <<inq, frame, ctrl, cmd, mode, ctl, put, rst, clr, count,
                   resets, freed, got>>

EncSend ==
    /\ mode.version = "v1" /\ enc.pc = "send"
    /\ packet' = [packet EXCEPT ![enc.task_out] = enc.work]
    /\ outq' = PortEnqueue(outq, "INPUT", enc.task_out)
    /\ get' = Signalled(get)
    /\ enc' = [enc EXCEPT !.pc = "loop", !.rdy = {}, !.work = None,
                          !.task_out = None]
    /\ UNCHANGED <<inq, frame, ctrl, cmd, mode, ctl, put, rst, clr, count,
                   resets, freed, got>>

(* v2: both tasks, the hardware, the output task back, the input task back. *)

EncTakeFrame ==
    /\ mode.version = "v2" /\ enc.pc = "take"
    /\ IF HasTask(inq, "OUTPUT")
       THEN /\ inq' = PortDequeue(inq, "OUTPUT")
            /\ enc' = [enc EXCEPT !.pc = "take_packet", !.task_in = NextTask(inq, "OUTPUT")]
       ELSE /\ enc' = [enc EXCEPT !.pc = "crashed"]
            /\ UNCHANGED inq
    /\ UNCHANGED <<frame, outq, packet, ctrl, cmd, encRest>>

(* The header is renewed before a frame, if the configuration has changed. *)
EncTakePacket ==
    /\ enc.pc = "take_packet"
    /\ IF HasTask(outq, "INPUT")
       THEN /\ outq' = PortDequeue(outq, "INPUT")
            /\ frame' = [frame EXCEPT ![enc.task_in] = None]
            /\ enc' = [enc EXCEPT !.pc = IF frame[enc.task_in] = None THEN "send" ELSE "encode",
                                  !.task_out = NextTask(outq, "INPUT"),
                                  !.work = frame[enc.task_in]]
            /\ cmd' = [cmd EXCEPT !.hdr_need_updated = @ /\ frame[enc.task_in] = None]
       ELSE /\ enc' = [enc EXCEPT !.pc = "crashed"]
            /\ UNCHANGED <<frame, outq, cmd>>
    /\ UNCHANGED <<inq, packet, ctrl, encRest>>

EncSendFirst ==
    /\ mode.version = "v2" /\ enc.pc \in {"encode", "send"}
    /\ packet' = [packet EXCEPT ![enc.task_out] = enc.work]
    /\ outq' = PortEnqueue(outq, "INPUT", enc.task_out)
    /\ get' = Signalled(get)
    /\ enc' = [enc EXCEPT !.pc = "return", !.task_out = None]
    /\ UNCHANGED <<inq, frame, ctrl, cmd, mode, ctl, put, rst, clr, count,
                   resets, freed, got>>

EncReturnLast ==
    /\ enc.pc = "return"
    /\ frame' = [frame EXCEPT ![enc.task_in] = enc.work]
    /\ inq' = PortEnqueue(inq, "OUTPUT", enc.task_in)
    /\ put' = Signalled(put)
    /\ enc' = [enc EXCEPT !.pc = "loop", !.rdy = {}, !.work = None, !.task_in = None]
    /\ UNCHANGED <<outq, packet, ctrl, cmd, mode, ctl, get, rst, clr, count,
                   resets, freed, got>>

(* Both: the end of the thread. *)
EncStopping ==
    /\ enc.pc = "loop" /\ ctrl.thread # "RUNNING"
    /\ enc' = [enc EXCEPT !.pc = "drain_in"]
    /\ UNCHANGED <<queues, ctrl, cmd, encRest>>

(* release_task_in_port, for the two ports with tasks left by the user and *)
(* for the user; no other thread is in the queues any more.                *)
Released(q) == PortEnqueue(PortDequeue(q, "OUTPUT"), "OUTPUT", NextTask(q, "OUTPUT"))

(* Mutant: the frames still queued are left there. *)
EncDrainIn_Skip ==
    /\ enc.pc = "drain_in"
    /\ enc' = [enc EXCEPT !.pc = "drain_out"]
    /\ UNCHANGED <<queues, ctrl, cmd, encRest>>

EncDrainIn ==
    /\ enc.pc = "drain_in"
    /\ IF HasTask(inq, "OUTPUT")
       THEN /\ inq' = Released(inq)
            /\ frame' = [frame EXCEPT ![NextTask(inq, "OUTPUT")] = None]
            /\ UNCHANGED enc
       ELSE /\ enc' = [enc EXCEPT !.pc = "drain_out"]
            /\ UNCHANGED <<inq, frame>>
    /\ UNCHANGED <<outq, packet, ctrl, cmd, encRest>>

EncDrainOut ==
    /\ enc.pc = "drain_out"
    /\ IF HasTask(outq, "OUTPUT")
       THEN /\ outq' = Released(outq)
            /\ packet' = [packet EXCEPT ![NextTask(outq, "OUTPUT")] = None]
            /\ UNCHANGED enc
       ELSE /\ enc' = [enc EXCEPT !.pc = "exited"]
            /\ UNCHANGED <<outq, packet>>
    /\ UNCHANGED <<inq, frame, ctrl, cmd, encRest>>

Encoder ==
    \/ EncCheck \/ EncNoControl \/ EncControl \/ EncControlPost \/ EncControlDone
    \/ EncNoReset \/ EncReset \/ EncResetDone \/ EncPollIn \/ EncPollOut
    \/ EncTake \/ EncReturnEmpty \/ EncReturn \/ EncTakeOut \/ EncSend
    \/ EncTakeFrame \/ EncTakePacket \/ EncSendFirst \/ EncReturnLast
    \/ EncStopping \/ EncDrainIn \/ EncDrainOut

-----------------------------------------------------------------------------
(* Mpp::put_frame.  The thread polls twice: for an idle task, if it has    *)
(* none from an earlier call, and for the task the encoder is done with.   *)

putRest == <<mode, cmd, ctl, outq, packet, get, rst, clr, resets, got>>

PutStart ==
    /\ put.pc = "idle" /\ clr = "idle" /\ count < MaxFrames
    /\ put' = [put EXCEPT !.pc = IF put.mInputTask = None THEN "poll_idle" ELSE "fill"]
    /\ UNCHANGED <<inq, frame, enc, ctrl, count, freed, putRest>>

PutTaken == IF put.pc = "poll_idle" THEN "take_idle" ELSE "take_done"

PutPoll ==
    /\ put.pc \in {"poll_idle", "poll_done"} /\ put.poll = "no"
    /\ put' = IF HasTask(inq, "INPUT") THEN [put EXCEPT !.pc = PutTaken]
              ELSE IF mode.InputTimeout = "MPP_POLL_NON_BLOCK" THEN [put EXCEPT !.pc = "idle"]
              ELSE [put EXCEPT !.poll = "waiting"]
    /\ UNCHANGED <<inq, frame, enc, ctrl, count, freed, putRest>>

PutTimeout ==
    /\ put.poll = "waiting" /\ mode.InputTimeout = "timed"
    /\ put' = [put EXCEPT !.poll = "woken"]
    /\ UNCHANGED <<inq, frame, enc, ctrl, count, freed, putRest>>

PutPollAgain ==
    /\ put.poll = "woken"
    /\ put' = [put EXCEPT !.pc = IF HasTask(inq, "INPUT") THEN PutTaken ELSE "idle",
                          !.poll = "no"]
    /\ UNCHANGED <<inq, frame, enc, ctrl, count, freed, putRest>>

PutTake ==
    /\ put.pc \in {"take_idle", "take_done"}
    /\ inq' = PortDequeue(inq, "INPUT")
    /\ put' = [put EXCEPT !.pc = IF @ = "take_idle" THEN "took_idle" ELSE "took_done",
                          !.mInputTask = NextTask(inq, "INPUT")]
    /\ UNCHANGED <<frame, enc, ctrl, count, freed, putRest>>

PutTook ==
    /\ put.pc \in {"took_idle", "took_done"}
    /\ Notify({"FRAME_DEQUEUE"})
    /\ put' = [put EXCEPT !.pc = IF @ = "took_idle" THEN "fill" ELSE "free"]
    /\ UNCHANGED <<inq, frame, count, freed, putRest>>

PutFill ==
    /\ put.pc = "fill"
    /\ \E f \in {count + 1} \cup IF mode.empty THEN {None} ELSE {} :
          frame' = [frame EXCEPT ![put.mInputTask] = f]
    /\ count' = count + 1
    /\ put' = [put EXCEPT !.pc = "enqueue"]
    /\ UNCHANGED <<inq, enc, ctrl, freed, putRest>>

PutEnqueue ==
    /\ put.pc = "enqueue"
    /\ inq' = PortEnqueue(inq, "INPUT", put.mInputTask)
    /\ put' = [put EXCEPT !.pc = "notify"]
    /\ UNCHANGED <<frame, enc, ctrl, count, freed, putRest>>

(* Mutant: the encoder is not told of the frame. *)
PutNotify_Silent ==
    /\ put.pc = "notify"
    /\ put' = [put EXCEPT !.pc = "poll_done"]
    /\ UNCHANGED <<inq, frame, enc, ctrl, count, freed, putRest>>

PutNotify ==
    /\ put.pc = "notify"
    /\ Notify({"FRAME_ENQUEUE"})
    /\ put' = [put EXCEPT !.pc = "poll_done"]
    /\ UNCHANGED <<inq, frame, count, freed, putRest>>

(* The frame that comes back with the task is released. *)
PutFree ==
    /\ put.pc = "free"
    /\ freed' = freed \cup ({frame[put.mInputTask]} \ {None})
    /\ frame' = [frame EXCEPT ![put.mInputTask] = None]
    /\ put' = [put EXCEPT !.pc = "idle"]
    /\ UNCHANGED <<inq, enc, ctrl, count, putRest>>

PutFrame ==
    \/ PutPoll \/ PutPollAgain \/ PutTake \/ PutTook \/ PutFill
    \/ PutEnqueue \/ PutNotify \/ PutFree

-----------------------------------------------------------------------------
(* Mpp::get_packet. *)

getRest == <<mode, cmd, ctl, inq, frame, put, rst, clr, count, resets, freed>>

GetPoll ==
    /\ get.pc = "idle" /\ get.poll = "no" /\ clr = "idle"
    /\ HasTask(outq, "OUTPUT") \/ OutputTimeout # "MPP_POLL_NON_BLOCK"
    /\ get' = IF HasTask(outq, "OUTPUT") THEN [get EXCEPT !.pc = "take"]
              ELSE [get EXCEPT !.pc = "poll", !.poll = "waiting"]
    /\ UNCHANGED <<outq, packet, enc, ctrl, got, getRest>>

GetTimeout ==
    /\ get.poll = "waiting" /\ OutputTimeout = "timed"
    /\ get' = [get EXCEPT !.poll = "woken"]
    /\ UNCHANGED <<outq, packet, enc, ctrl, got, getRest>>

GetPollAgain ==
    /\ get.poll = "woken"
    /\ get' = [get EXCEPT !.pc = IF HasTask(outq, "OUTPUT") THEN "take" ELSE "idle",
                          !.poll = "no"]
    /\ UNCHANGED <<outq, packet, enc, ctrl, got, getRest>>

GetTake ==
    /\ get.pc = "take"
    /\ outq' = PortDequeue(outq, "OUTPUT")
    /\ get' = [get EXCEPT !.pc = "took", !.task = NextTask(outq, "OUTPUT")]
    /\ UNCHANGED <<packet, enc, ctrl, got, getRest>>

GetTook ==
    /\ get.pc = "took"
    /\ Notify({"PACKET_DEQUEUE"})
    /\ got' = Append(got, packet[get.task])
    /\ packet' = [packet EXCEPT ![get.task] = None]
    /\ get' = [get EXCEPT !.pc = "enqueue"]
    /\ UNCHANGED <<outq, getRest>>

GetEnqueue ==
    /\ get.pc = "enqueue"
    /\ outq' = PortEnqueue(outq, "OUTPUT", get.task)
    /\ get' = [get EXCEPT !.pc = "notify", !.task = None]
    /\ UNCHANGED <<packet, enc, ctrl, got, getRest>>

GetNotify ==
    /\ get.pc = "notify"
    /\ Notify({"PACKET_ENQUEUE"})
    /\ get' = [get EXCEPT !.pc = "idle"]
    /\ UNCHANGED <<outq, packet, got, getRest>>

GetPacket ==
    \/ GetPoll \/ GetPollAgain \/ GetTake \/ GetTook \/ GetEnqueue \/ GetNotify

-----------------------------------------------------------------------------
(* Mpp::reset: mpp_enc_reset. *)

rstRest == <<mode, cmd, ctl, queues, put, get, clr, count, freed, got>>

ResetStart ==
    /\ rst = "idle" /\ clr = "idle" /\ resets < MaxResets
    /\ ctrl' = [ctrl EXCEPT !.locked = TRUE, !.reset_flag = TRUE]
    /\ rst' = "notify"
    /\ resets' = resets + 1
    /\ UNCHANGED <<enc, rstRest>>

ResetNotify ==
    /\ rst = "notify"
    /\ Notify(Reset)
    /\ rst' = "unlock"
    /\ UNCHANGED <<resets, rstRest>>

ResetUnlock ==
    /\ rst = "unlock"
    /\ ctrl' = [ctrl EXCEPT !.locked = FALSE]
    /\ rst' = "sem_wait"
    /\ UNCHANGED <<enc, resets, rstRest>>

ResetWait ==
    /\ rst = "sem_wait" /\ ctrl.enc_reset > 0
    /\ ctrl' = [ctrl EXCEPT !.enc_reset = @ - 1]
    /\ rst' = "idle"
    /\ UNCHANGED <<enc, resets, rstRest>>

ResetCall == ResetNotify \/ ResetUnlock \/ ResetWait

-----------------------------------------------------------------------------
(* Mpp::control with a v2 encoder, under the lock of the encoder:          *)
(* mpp_enc_control_v2.  The thread may see the command before it is told.  *)

ctlRest == <<mode, queues, put, get, rst, clr, count, resets, freed, got>>

ControlStart ==
    /\ mode.version = "v2"
    /\ ctl = "idle" /\ clr = "idle" /\ cmd.cmd_send < MaxControls
    /\ \E c \in Commands : cmd' = [cmd EXCEPT !.cmd = c, !.cmd_send = @ + 1]
    /\ ctl' = "notify"
    /\ UNCHANGED <<enc, ctrl, ctlRest>>

ControlNotify ==
    /\ ctl = "notify"
    /\ Notify({"CONTROL"})
    /\ ctl' = "sem_wait"
    /\ UNCHANGED <<cmd, ctlRest>>

(* What cmd and param leave behind is not read any more. *)
ControlWait ==
    /\ ctl = "sem_wait" /\ cmd.enc_ctrl > 0
    /\ cmd' = [cmd EXCEPT !.enc_ctrl = @ - 1, !.cmd = "none"]
    /\ ctl' = "idle"
    /\ UNCHANGED <<enc, ctrl, ctlRest>>

-----------------------------------------------------------------------------
(* Mpp::clear: stop the thread, join it, deinit both queues. *)

clrRest == <<mode, cmd, ctl, queues, put, get, rst, count, resets, freed, got>>

ClearStop ==
    /\ clr = "idle" /\ rst = "idle" /\ ctl = "idle"
    /\ put.pc = "idle" /\ get.pc = "idle"
    /\ WakeEnc([ctrl EXCEPT !.thread = "STOPPING"])
    /\ clr' = "join"
    /\ UNCHANGED clrRest

ClearDeinit ==
    /\ clr = "join" /\ enc.pc = "exited"
    /\ clr' = "done"
    /\ UNCHANGED <<enc, ctrl, clrRest>>

(* Every call has returned and the context is gone. *)
Cleared == clr = "done" /\ UNCHANGED vars

-----------------------------------------------------------------------------
Next ==
    \/ Encoder
    \/ PutStart \/ PutFrame \/ PutTimeout
    \/ GetPacket \/ GetTimeout
    \/ ResetStart \/ ResetCall
    \/ ControlStart \/ ControlNotify \/ ControlWait
    \/ ClearStop \/ ClearDeinit \/ Cleared

(* The threads run and the hardware answers.  The user keeps putting and   *)
(* getting; nothing relies on a timeout, a command, a reset or a clear.    *)
Fairness ==
    /\ WF_vars(Encoder)
    /\ WF_vars(PutStart \/ PutFrame)
    /\ WF_vars(GetPacket)
    /\ WF_vars(ResetCall)
    /\ WF_vars(ControlNotify \/ ControlWait)
    /\ WF_vars(ClearDeinit)

Spec == Init /\ [][Next]_vars /\ Fairness

-----------------------------------------------------------------------------
(* Safety.                                                                 *)
(*                                                                         *)
(* Three uses make the code go wrong, and the properties below leave out   *)
(* just the consequences: a v1 encoder that is given a task without a      *)
(* frame (it keeps task_in_rdy set and the assert after its next dequeue   *)
(* fails), a put_frame that times out after its enqueue (it enqueues the   *)
(* same task once more), and an event that comes in together with a reset  *)
(* or a command (it is forgotten).                                         *)

EmptyForV1  == mode.version = "v1" /\ mode.empty
PutMayRetry == mode.InputTimeout # "MPP_POLL_BLOCK"
Disturbed   == resets > 0 \/ cmd.cmd_send > 0

(* The encoder finds the tasks it polled for (mpp_assert(task_in) and      *)
(* mpp_assert(task_out)), whatever the user does with the other ports, and *)
(* whoever enqueues a task to a port has dequeued it from that port, the   *)
(* assert of _mpp_port_enqueue.                                            *)
AssertsHold ==
    /\ EmptyForV1 \/ PutMayRetry \/ enc.pc # "crashed"
    /\ EmptyForV1 \/ PutMayRetry \/ (~inq.asserted /\ ~outq.asserted)

(* Packets come out in the order of the frames, none lost, none twice; an  *)
(* empty one for a task without a frame.                                   *)
PacketsInOrder ==
    EmptyForV1 \/ PutMayRetry \/ \A i \in DOMAIN got : got[i] \in {i, None}

(* put_frame releases a frame only when the encoder is done with it.       *)
NotFreedInUse == enc.pc = "encode" => enc.work \notin freed

(* What the encoder needs is missing, or who has just supplied it is about *)
(* to notify.                                                              *)
NothingToDo ==
    \/ "FRAME_ENQUEUE" \in enc.wait /\ ~HasTask(inq, "OUTPUT")
    \/ "PACKET_ENQUEUE" \in enc.wait /\ ~HasTask(outq, "INPUT")
    \/ put.pc = "notify" \/ get.pc = "notify"

(* An encoder that sleeps has nothing to do: no event is lost between a    *)
(* poll that failed and the sleep.                                         *)
SleepJustified == enc.pc = "wait" => NothingToDo

(* It never sleeps over a reset or a command that its sender waits for,    *)
(* nor over a frame or a packet as long as there was neither.              *)
NoLostWakeup ==
    enc.pc = "wait" =>
        /\ ~ctrl.reset_flag \/ rst = "notify"
        /\ cmd.cmd_send = cmd.cmd_recv \/ ctl = "notify"
        /\ Disturbed \/ NothingToDo

(* mpp_task_queue_deinit: all tasks are back on the input side, although   *)
(* frames and packets were on their way when clear was called.             *)
DeinitAtInput ==
    clr = "done" =>
        \A q \in {inq, outq} : \A t \in Tasks :
            q.status[t] \in {"INPUT_PORT", "INPUT_HOLD"}

(* When a call of control returns its command has been carried out, once,  *)
(* although the thread counts it after it has told the caller; and a frame *)
(* is never encoded with a header older than the configuration.            *)
ControlInForce ==
    /\ ctl = "idle" => cmd.done = cmd.cmd_send
    /\ mode.version = "v2" /\ enc.pc = "encode" => ~cmd.hdr_need_updated

(* mpp_enc_reset: mpp_assert(enc->reset_flag == 0) after the semaphore.    *)
ResetDone == [][ResetWait => ~ctrl.reset_flag]_vars

-----------------------------------------------------------------------------
(* Liveness. *)

(* As long as nobody clears, resets or controls the encoder, every frame   *)
(* comes out.                                                              *)
AllEncoded ==
    EmptyForV1 \/ PutMayRetry \/ <>(Len(got) = MaxFrames \/ clr # "idle" \/ Disturbed)

(* Mpp::reset, Mpp::control and Mpp::clear return, wherever the encoder    *)
(* is, unless it has crashed: none of them is in progress for ever.        *)
CallsReturn ==
    /\ []<>(rst = "idle" \/ enc.pc = "crashed")
    /\ []<>(ctl = "idle" \/ enc.pc = "crashed")
    /\ []<>(clr # "join" \/ enc.pc = "crashed")
=============================================================================
