------------------------------- MODULE MppDec -------------------------------
(***************************************************************************)
(* The decoder of mpp/codec/mpp_dec.cpp with the H.263 codec: the parser   *)
(* thread, the hal thread, and the user calls of mpp/mpp.cpp.              *)
(*                                                                         *)
(*   put_packet -> mPackets -> parser -> hal tasks -> hal thread           *)
(*                                    -> mFrames -> get_frame              *)
(*                                                                         *)
(* The parser prepares one task at a time, in stages; a stage whose need   *)
(* is not met sets a wait bit and ends the turn, and the thread sleeps     *)
(* until mpp_dec_notify reports such a bit.  The two threads share frame   *)
(* slots, packet slots (BufSlotOps) and task handles (HalTaskOps).         *)
(*                                                                         *)
(* One user thread puts packets.  Another gets frames, acknowledges info   *)
(* changes and resets, as test/mpi_dec_mt_test.c does.  The context is     *)
(* cleared when no other call is in progress.  Packets carry whole frames  *)
(* (no split mode) and are numbered in stream order; the frame group is    *)
(* internal, so that a frame buffer is always there; H.263 frames are      *)
(* progressive, so that there is no post-processing.                       *)
(***************************************************************************)
EXTENDS BufSlotOps, HalTaskOps

CONSTANTS
    TaskCount,      \* task_count of h263d_init (2)
    NumSlots,       \* frame slots of mpp_h263_parser_init (4)
    PacketLimit,    \* packets put_packet accepts (4)
    FrameLimit,     \* frames that may wait in mFrames (4)
    Sessions,       \* what the user may do, see below
    PutInReset      \* packets are put while a reset is in progress

(* There is a packet slot for every task: fast mode has three. *)
ASSUME CountAssumption == /\ TaskCount \in 1 .. 3 /\ NumSlots \in Nat \ {0}
                          /\ PacketLimit \in Nat \ {0} /\ FrameLimit \in Nat
ASSUME FlagAssumption  == PutInReset \in BOOLEAN

(* A session is parser_fast_mode or not, the geometry set beforehand with  *)
(* MPP_DEC_SET_FRAME_INFO, or None, the packets the user puts, each a      *)
(* [kind, info, eos], the number of calls of Mpp::reset, a bound, and      *)
(* whether the context may be cleared: [fast, info, packets, resets,       *)
(* clear].  A packet of kind "eos" is empty and only ends the stream; a    *)
(* "bad" one cannot be parsed.                                             *)
PacketKinds == {"I", "P", "bad", "eos"}

(* The geometries that occur, None for none among them. *)
Geometries ==
    UNION {{s.info} \cup {s.packets[n].info : n \in DOMAIN s.packets} : s \in Sessions}

Packets == [kind : PacketKinds, info : Geometries, eos : BOOLEAN]

ASSUME SessionsAssumption ==
    \A s \in Sessions :
        /\ s \in [ fast : BOOLEAN, info : Geometries, packets : Seq(Packets),
                   resets : Nat, clear : BOOLEAN ]
        /\ \A n \in DOMAIN s.packets : s.packets[n].kind = "eos" => s.packets[n].eos

(* NULL is neither a handle nor a frame. *)
ASSUME NoneAssumption ==
    None \notin 1 .. TaskCount /\ None \notin [pts : Nat, info : Geometries]

VARIABLES
    session,    \* the member of Sessions at work
    slots,      \* frame_slots
    pslots,     \* packet_slots
    tasks,      \* the hal task group
    task,       \* the parser thread: where it is, and its DecTask
    codec,      \* the H.263 parser: slot of hdr_ref0, found_i_vop
    hal,        \* the hal thread: where it is, its task
    dec,        \* what the threads share in MppDecImpl
    mPackets,   \* numbers of the packets not parsed yet
    mFrames,    \* frames not fetched yet
    user,       \* the thread that gets, acknowledges and resets
    clr,        \* the thread in Mpp::clear
    sent,       \* packets put so far
    resets,     \* calls of reset so far
    got         \* frames get_frame returned

pools == <<slots, pslots, tasks>>
lists == <<mPackets, mFrames>>
calls == <<user, clr, sent, resets, got>>
vars  == <<session, pools, task, codec, hal, dec, lists, calls>>

NoSlot == -1

stream   == session.packets
FastMode == session.fast
InitInfo == session.info

(* PaserTaskWait: what the parser may wait for. *)
WaitBits == {"task_hnd", "dec_pkt_in", "prev_task", "dis_que_full",
             "dec_slot_idx", "info_change"}

(* The bits mpp_dec_notify is called with; a reset sets all 32 of them. *)
Reset == WaitBits \cup {"dec_all_done", "dec_pic_match", "reset"}

(* hal_task_info_init, the flags among it; pkt is the packet it decodes. *)
NoInfo == [valid |-> FALSE, eos |-> FALSE, change |-> FALSE, input |-> NoSlot,
           output |-> NoSlot, refer |-> {}, pkt |-> 0]

(* dec_task_init *)
NewTask(pc) ==
    [ pc |-> pc, hnd |-> None, wait |-> {}, info |-> NoInfo,
      prev_rdy |-> TRUE, curr_rdy |-> FALSE, copy_rdy |-> FALSE,
      parsed_rdy |-> FALSE, gen_rdy |-> FALSE ]

Init ==
    /\ session \in Sessions
    /\ slots = [SlotsInit(NumSlots) EXCEPT !.info = InitInfo, !.info_set = InitInfo]
    /\ pslots = SlotsInit(IF FastMode THEN 3 ELSE 2)
    /\ tasks = GroupInit(TaskCount, NoInfo)
    /\ task = NewTask("check")
    /\ codec = [ref0 |-> NoSlot, found_i |-> FALSE]
    /\ hal = [pc |-> "check", hnd |-> None, info |-> NoInfo]
    /\ dec = [status_flag |-> {}, notify_flag |-> {}, reset_flag |-> FALSE,
              locked |-> FALSE, reset_post |-> 0, reset_done |-> 0,
              hal_reset |-> 0, parser_reset |-> 0]
    /\ mPackets = <<>> /\ mFrames = <<>>
    /\ user = "idle" /\ clr = "idle"
    /\ sent = 0 /\ resets = 0 /\ got = <<>>

-----------------------------------------------------------------------------
(* Waking the threads. *)

(* mpp_dec_notify: a new event the parser waits for signals its thread. *)
Signals(flag) ==
    /\ dec.notify_flag \cup flag # dec.notify_flag
    /\ (dec.notify_flag \cup flag) \cap dec.status_flag # {}

Notify(flag) ==
    /\ dec' = [dec EXCEPT !.notify_flag = @ \cup flag]
    /\ task' = IF Signals(flag) /\ task.pc = "wait"
               THEN [task EXCEPT !.pc = "reset"] ELSE task

(* thread_hal->signal(), under the lock the hal thread sleeps with. *)
SignalHal == hal' = IF hal.pc = "wait" THEN [hal EXCEPT !.pc = "check"] ELSE hal

(* The stop of a thread wakes it; it sees the status at its next check. *)
Stopped(thread) ==
    \/ clr \in {"join_parser", "join_hal", "done"} /\ thread = "parser"
    \/ clr \in {"join_hal", "done"} /\ thread = "hal"

-----------------------------------------------------------------------------
(* The display queue. *)

DisplayQueue(p) == p.queue["QUEUE_DISPLAY"]

(* The slots a loop of mpp_buf_slot_dequeue returns: the queue up to the   *)
(* first slot that is not ready.                                           *)
ReadySlots(p) ==
    SelectInSeq(DisplayQueue(p), LAMBDA i : i \in p.not_ready)

Displayed(p) ==
    IF ReadySlots(p) = 0 THEN DisplayQueue(p)
    ELSE SubSeq(DisplayQueue(p), 1, ReadySlots(p) - 1)

(* The slots after that loop. *)
Drained(p) ==
    FoldLeft(LAMBDA q, i : ClrFlag(Dequeue(q, "QUEUE_DISPLAY"), i, "QUEUE_USE"),
             p, Displayed(p))

(* mpp_dec_put_frame: the copy of a slot's frame that goes to mFrames. *)
FrameOf(p, i, change, eos) ==
    [pts |-> p.frame[i].pts, info |-> p.frame[i].info, change |-> change, eos |-> eos]

EosFrame == [pts |-> 0, info |-> None, change |-> FALSE, eos |-> TRUE]

(* mpp_dec_push_display: the last frame of the queue carries the eos flag. *)
DisplayFrames(p, eos) ==
    [k \in DOMAIN Displayed(p) |->
        FrameOf(p, Displayed(p)[k], FALSE, eos /\ k = Len(DisplayQueue(p)))]

-----------------------------------------------------------------------------
(* The parser thread. *)

Go(pc) == task' = [task EXCEPT !.pc = pc]

(* A stage is passed, or its wait bit is set and the turn is over. *)
Pass(bit, pc) == [task EXCEPT !.wait = @ \ {bit}, !.pc = pc]
Block(bit) == task' = [task EXCEPT !.wait = @ \cup {bit}, !.pc = "check"]

(* mpp_dec_put_task *)
PutTask(info) ==
    /\ tasks' = SetStatus(SetInfo(tasks, task.hnd, info),
                          task.hnd, "TASK_PROCESSING")
    /\ SignalHal

(* check_task_wait: a reset, or one of the wanted events, lets it work. *)
MayWork ==
    dec.reset_flag \/ task.wait = {} \/ task.wait \cap dec.notify_flag # {}

ParserCheck ==
    /\ task.pc = "check" /\ ~Stopped("parser")
    /\ Go(IF MayWork THEN "reset" ELSE "wait")
    /\ dec' = [dec EXCEPT !.status_flag = task.wait, !.notify_flag = {}]
    /\ UNCHANGED <<session, pools, codec, hal, lists, calls>>

(* reset_parser_thread asks the hal thread to finish all tasks ... *)
ParserReset ==
    /\ task.pc = "reset" /\ dec.reset_flag
    /\ dec' = [dec EXCEPT !.reset_post = @ + 1]
    /\ SignalHal
    /\ Go("sem_hal")
    /\ UNCHANGED <<session, pools, codec, lists, calls>>

(* The codec gives up its reference picture. *)
DropRefer(p) ==
    IF codec.ref0 = NoSlot THEN p ELSE ClrFlag(p, codec.ref0, "CODEC_USE")

(* A picture that waits for the user to acknowledge an info change. *)
DropChange(p) ==
    IF "info_change" \in task.wait THEN SlotReset(p, task.info.output) ELSE p

(* The marks of a task that was parsed and will not be decoded. *)
DropParsed(p) ==
    IF task.parsed_rdy
    THEN FoldSet(LAMBDA i, q : ClrFlag(q, i, "HAL_INPUT"),
                 ClrFlag(p, task.info.output, "HAL_OUTPUT"), task.info.refer)
    ELSE p

(* The packet slot of a task whose stream was copied. *)
DropCopied(p) ==
    IF task.copy_rdy THEN ClrFlag(p, task.info.input, "HAL_INPUT") ELSE p

(* Mutant: the packet slot of the task in hand is left marked. *)
ParserDrop_KeepCopied ==
    /\ task.pc = "sem_hal" /\ dec.hal_reset > 0
    /\ slots' = Drained(DropParsed(DropChange(DropRefer(slots))))
    /\ codec' = [ref0 |-> NoSlot, found_i |-> FALSE]
    /\ dec' = [dec EXCEPT !.hal_reset = @ - 1, !.status_flag = {}]
    /\ task' = NewTask("post")
    /\ UNCHANGED <<session, pslots, tasks, hal, lists, calls>>

(* ... and, when it has, drops the task in hand and what the codec holds.  *)
(* The hal thread is idle meanwhile, so this is one step.                  *)
ParserDrop ==
    /\ task.pc = "sem_hal" /\ dec.hal_reset > 0
    /\ slots' = Drained(DropParsed(DropChange(DropRefer(slots))))
    /\ pslots' = DropCopied(pslots)
    /\ codec' = [ref0 |-> NoSlot, found_i |-> FALSE]
    /\ dec' = [dec EXCEPT !.hal_reset = @ - 1, !.status_flag = {}]
    /\ task' = NewTask("post")
    /\ UNCHANGED <<session, tasks, hal, lists, calls>>

ParserResetDone ==
    /\ task.pc = "post" /\ ~dec.locked
    /\ dec' = [dec EXCEPT !.reset_flag = FALSE, !.parser_reset = @ + 1]
    /\ Go("check")
    /\ UNCHANGED <<session, pools, codec, hal, lists, calls>>

(* 1. A task handle.  get_hnd leaves the handle in the idle list: a second *)
(* one is taken only after the first was put.                              *)
ParserGetHnd ==
    /\ task.pc = "reset" /\ ~dec.reset_flag
    /\ \/ task.hnd # None /\ Go("pkt")
       \/ /\ task.hnd = None /\ HasHnd(tasks, "TASK_IDLE")
          /\ task' = [Pass("task_hnd", "pkt") EXCEPT
                         !.hnd = GetHnd(tasks, "TASK_IDLE")]
       \/ /\ task.hnd = None /\ ~HasHnd(tasks, "TASK_IDLE")
          /\ Block("task_hnd")
    /\ UNCHANGED <<session, pools, codec, hal, dec, lists, calls>>

(* 2. and 3. A packet, and h263d_prepare, which takes all of it.  An empty *)
(* last packet makes no valid task.                                        *)
Prepared(n) ==
    IF stream[n].kind = "eos"
    THEN [task.info EXCEPT !.valid = FALSE, !.eos = TRUE]
    ELSE [task.info EXCEPT !.valid = TRUE, !.eos = stream[n].eos, !.pkt = n]

ParserGetPacket ==
    /\ task.pc = "pkt"
    /\ \/ /\ task.curr_rdy /\ Go("copy")
          /\ UNCHANGED <<mPackets, tasks, hal>>
       \/ /\ ~task.curr_rdy /\ mPackets = <<>>
          /\ Block("dec_pkt_in")
          /\ UNCHANGED <<mPackets, tasks, hal>>
       \/ /\ ~task.curr_rdy /\ mPackets # <<>>
          /\ mPackets' = Tail(mPackets)
          /\ LET info == Prepared(Head(mPackets))
             IN  IF info.valid
                 THEN /\ task' = [Pass("dec_pkt_in", "copy") EXCEPT
                                     !.info = info, !.curr_rdy = TRUE]
                      /\ UNCHANGED <<tasks, hal>>
                 ELSE /\ PutTask(info)
                      /\ task' = [Pass("dec_pkt_in", "check") EXCEPT
                                     !.info = info, !.hnd = None]
    /\ UNCHANGED <<session, slots, pslots, codec, dec, mFrames, calls>>

(* 4. to 6. A packet slot, and the stream in its buffer, once per packet.  *)
(* There is a packet slot for every task that may be under way.            *)
ParserCopy ==
    /\ task.pc = "copy"
    /\ IF task.copy_rdy
       THEN Go("prev") /\ UNCHANGED pslots
       ELSE LET i == FirstUnused(pslots)
            IN  /\ pslots' = SetFlag(SetFlag(GetUnused(pslots), i, "CODEC_READY"),
                                     i, "HAL_INPUT")
                /\ task' = [task EXCEPT !.info.input = i, !.copy_rdy = TRUE,
                                        !.pc = "prev"]
    /\ UNCHANGED <<session, slots, tasks, codec, hal, dec, lists, calls>>

(* 7.1 Unless in fast mode, the previous task must be done. *)
ParserWaitPrev ==
    /\ task.pc = "prev"
    /\ \/ /\ FastMode \/ task.prev_rdy
          /\ Go("display")
          /\ UNCHANGED tasks
       \/ /\ ~FastMode /\ ~task.prev_rdy /\ HasHnd(tasks, "TASK_PROC_DONE")
          /\ tasks' = SetStatus(tasks, GetHnd(tasks, "TASK_PROC_DONE"), "TASK_IDLE")
          /\ task' = [Pass("prev_task", "display") EXCEPT !.prev_rdy = TRUE]
       \/ /\ ~FastMode /\ ~task.prev_rdy /\ ~HasHnd(tasks, "TASK_PROC_DONE")
          /\ Block("prev_task")
          /\ UNCHANGED tasks
    /\ UNCHANGED <<session, slots, pslots, codec, hal, dec, lists, calls>>

(* Too many frames wait to be fetched. *)
ParserWaitDisplay ==
    /\ task.pc = "display"
    /\ IF Len(mFrames) > FrameLimit
       THEN Block("dis_que_full")
       ELSE task' = Pass("dis_que_full", "slot")
    /\ UNCHANGED <<session, pools, codec, hal, dec, lists, calls>>

(* 7.3 A frame slot. *)
ParserWaitSlot ==
    /\ task.pc = "slot"
    /\ IF UnusedCount(slots) = 0
       THEN Block("dec_slot_idx")
       ELSE task' = Pass("dec_slot_idx", "parse")
    /\ UNCHANGED <<session, pools, codec, hal, dec, lists, calls>>

(* mpp_h263_parser_decode fails on a packet without a picture header, and  *)
(* on a P picture as long as no I picture was found.                       *)
Undecodable(n) ==
    stream[n].kind = "bad" \/ (stream[n].kind = "P" /\ ~codec.found_i)

References(n) == IF stream[n].kind = "P" THEN {codec.ref0} ELSE {}

(* The calls of h263d_parse on the frame slots: i becomes the output, the  *)
(* reference of a P picture is marked, the picture is kept as the next     *)
(* reference, sent to display, and takes the place of the old one.         *)
Parsed(i, n) ==
    LET frame  == [pts |-> n, info |-> stream[n].info]
        output == SetFrame(SetFlag(GetUnused(slots), i, "HAL_OUTPUT"), i, frame)
        refer  == FoldSet(LAMBDA r, q : SetFlag(q, r, "HAL_INPUT"),
                          output, References(n))
        used   == SetFlag(SetFlag(refer, i, "CODEC_USE"), i, "QUEUE_USE")
    IN  DropRefer(Enqueue(used, i, "QUEUE_DISPLAY"))

(* 8. mpp_parser_parse, once per packet.  Its calls into the pool, and     *)
(* those of the hal thread's loops, are one step each: BufSlots interleaves *)
(* them call by call.                                                      *)
ParserParse ==
    /\ task.pc = "parse"
    /\ IF task.parsed_rdy
       THEN Go("change") /\ UNCHANGED <<slots, codec>>
       ELSE LET i == FirstUnused(slots)
                n == task.info.pkt
            IN  /\ ~Undecodable(n)
                /\ slots' = Parsed(i, n)
                /\ codec' = [ref0 |-> i, found_i |-> TRUE]
                /\ task' = [task EXCEPT !.info.output = i,
                                        !.info.refer = References(n),
                                        !.parsed_rdy = TRUE, !.pc = "change"]
    /\ UNCHANGED <<session, pslots, tasks, hal, dec, lists, calls>>

(* No picture: the handle goes back to idle, or carries the eos flag of    *)
(* the packet, and the packet slot is released.                            *)
ParserDropPacket ==
    /\ task.pc = "parse" /\ ~task.parsed_rdy
    /\ Undecodable(task.info.pkt)
    /\ IF task.info.eos
       THEN PutTask([task.info EXCEPT !.valid = FALSE])
       ELSE /\ tasks' = SetStatus(tasks, task.hnd, "TASK_IDLE")
            /\ UNCHANGED hal
    /\ pslots' = DropCopied(pslots)
    /\ task' = [task EXCEPT !.hnd = None, !.copy_rdy = FALSE, !.curr_rdy = FALSE,
                            !.info = NoInfo, !.pc = "check"]
    /\ UNCHANGED <<session, slots, codec, dec, lists, calls>>

(* 9. A change of geometry: a task of its own announces it, and the parser *)
(* waits until the user acknowledges it.                                   *)
ParserInfoChange ==
    /\ task.pc = "change" /\ slots.info_changed /\ ~task.gen_rdy
    /\ PutTask([task.info EXCEPT !.change = TRUE, !.eos = FALSE])
    /\ task' = [task EXCEPT !.hnd = None, !.gen_rdy = TRUE, !.info.change = TRUE,
                            !.pc = "check"]
    /\ UNCHANGED <<session, slots, pslots, codec, dec, lists, calls>>

ParserWaitReady ==
    /\ task.pc = "change" /\ slots.info_changed /\ task.gen_rdy
    /\ Block("info_change")
    /\ UNCHANGED <<session, pools, codec, hal, dec, lists, calls>>

(* Mutant: the task is started without the user's acknowledgement. *)
ParserStart_NoReady ==
    /\ task.pc = "change" /\ (~slots.info_changed \/ task.gen_rdy)
    /\ PutTask([task.info EXCEPT !.change = FALSE])
    /\ task' = [Pass("info_change", "check") EXCEPT
                   !.hnd = None, !.copy_rdy = FALSE, !.curr_rdy = FALSE,
                   !.parsed_rdy = FALSE, !.prev_rdy = FALSE, !.gen_rdy = FALSE,
                   !.info = NoInfo]
    /\ UNCHANGED <<session, slots, pslots, codec, dec, lists, calls>>

(* 10. to 12. Start the hardware and hand the task to the hal thread. *)
ParserStart ==
    /\ task.pc = "change" /\ ~slots.info_changed
    /\ PutTask([task.info EXCEPT !.change = FALSE])
    /\ task' = [Pass("info_change", "check") EXCEPT
                   !.hnd = None, !.copy_rdy = FALSE, !.curr_rdy = FALSE,
                   !.parsed_rdy = FALSE, !.prev_rdy = FALSE, !.gen_rdy = FALSE,
                   !.info = NoInfo]
    /\ UNCHANGED <<session, slots, pslots, codec, dec, lists, calls>>

(* The thread ends, and marks the packet slot in hand as consumed. *)
ParserExit ==
    /\ task.pc = "check" /\ Stopped("parser")
    /\ IF task.hnd # None /\ task.info.valid
       THEN LET i == task.info.input
            IN  pslots' = ClrFlag(SetFlag(SetFlag(pslots, i, "CODEC_READY"),
                                          i, "HAL_INPUT"), i, "HAL_INPUT")
       ELSE UNCHANGED pslots
    /\ Go("exited")
    /\ UNCHANGED <<session, slots, tasks, codec, hal, dec, lists, calls>>

Parser ==
    \/ ParserCheck \/ ParserReset \/ ParserDrop \/ ParserResetDone
    \/ ParserGetHnd \/ ParserGetPacket \/ ParserCopy \/ ParserWaitPrev
    \/ ParserWaitDisplay \/ ParserWaitSlot \/ ParserParse \/ ParserDropPacket
    \/ ParserInfoChange \/ ParserWaitReady \/ ParserStart \/ ParserExit

-----------------------------------------------------------------------------
(* The hal thread. *)

HalGo(pc) == hal' = [hal EXCEPT !.pc = pc]

HalIdle == hal.pc = "check" /\ ~Stopped("hal") /\ ~HasHnd(tasks, "TASK_PROCESSING")

(* The oldest task in TASK_PROCESSING; it stays there while it is worked on. *)
HalTake ==
    /\ hal.pc = "check" /\ ~Stopped("hal") /\ HasHnd(tasks, "TASK_PROCESSING")
    /\ LET hnd  == GetHnd(tasks, "TASK_PROCESSING")
           info == tasks.info[hnd]
       IN  hal' = [hnd |-> hnd, info |-> info,
                   pc |-> IF info.change THEN "change"
                          ELSE IF info.eos /\ ~info.valid THEN "eos" ELSE "hw"]
    /\ UNCHANGED <<session, pools, task, codec, dec, lists, calls>>

(* Mutant: the hal thread resets while tasks are left. *)
HalReset_Early ==
    /\ hal.pc = "check" /\ ~Stopped("hal")
    /\ dec.reset_post # dec.reset_done
    /\ mFrames' = mFrames \o DisplayFrames(slots, FALSE)
    /\ slots' = Drained(slots)
    /\ tasks' = FoldLeft(LAMBDA g, h : SetStatus(g, h, "TASK_IDLE"),
                         tasks, tasks.list["TASK_PROC_DONE"])
    /\ dec' = [dec EXCEPT !.reset_done = @ + 1, !.hal_reset = @ + 1]
    /\ UNCHANGED <<session, pslots, task, codec, hal, mPackets, calls>>

(* reset_hal_thread, when every task is done: all frames are put and the   *)
(* tasks the parser has not collected become idle.                         *)
HalReset ==
    /\ HalIdle /\ dec.reset_post # dec.reset_done
    /\ mFrames' = mFrames \o DisplayFrames(slots, FALSE)
    /\ slots' = Drained(slots)
    /\ tasks' = FoldLeft(LAMBDA g, h : SetStatus(g, h, "TASK_IDLE"),
                         tasks, tasks.list["TASK_PROC_DONE"])
    /\ dec' = [dec EXCEPT !.reset_done = @ + 1, !.hal_reset = @ + 1]
    /\ UNCHANGED <<session, pslots, task, codec, hal, mPackets, calls>>

HalSleep ==
    /\ HalIdle /\ dec.reset_post = dec.reset_done
    /\ Notify({"dec_all_done"})
    /\ HalGo("wait")
    /\ UNCHANGED <<session, pools, codec, lists, calls>>

(* Announce an info change: what is ready goes first, then the frame of    *)
(* the new geometry.  mpp_dec_flush does nothing for H.263, whose only     *)
(* reference was sent to display when it was parsed.                       *)
HalInfoChange ==
    /\ hal.pc = "change"
    /\ mFrames' = Append(mFrames \o DisplayFrames(slots, FALSE),
                         FrameOf(slots, hal.info.output, TRUE, FALSE))
    /\ slots' = Drained(slots)
    /\ HalGo("idle")
    /\ UNCHANGED <<session, pslots, tasks, task, codec, dec, mPackets, calls>>

(* The end of the stream: what is ready goes first, then an empty frame. *)
HalEos ==
    /\ hal.pc = "eos"
    /\ mFrames' = Append(mFrames \o DisplayFrames(slots, hal.info.eos), EosFrame)
    /\ slots' = Drained(slots)
    /\ HalGo("idle")
    /\ UNCHANGED <<session, pslots, tasks, task, codec, dec, mPackets, calls>>

HalSetIdle ==
    /\ hal.pc = "idle"
    /\ tasks' = SetStatus(tasks, hal.hnd, "TASK_IDLE")
    /\ HalGo("notify")
    /\ UNCHANGED <<session, slots, pslots, task, codec, dec, lists, calls>>

(* mpp_hal_hw_wait returns, and the packet slot is released. *)
HalHwDone ==
    /\ hal.pc = "hw"
    /\ pslots' = ClrFlag(pslots, hal.info.input, "HAL_INPUT")
    /\ HalGo("done")
    /\ UNCHANGED <<session, slots, tasks, task, codec, dec, lists, calls>>

HalTaskDone ==
    /\ hal.pc = "done"
    /\ tasks' = SetStatus(tasks, hal.hnd,
                          IF FastMode THEN "TASK_IDLE" ELSE "TASK_PROC_DONE")
    /\ HalGo("clear")
    /\ UNCHANGED <<session, slots, pslots, task, codec, dec, lists, calls>>

HalClear ==
    /\ hal.pc = "clear"
    /\ slots' = FoldSet(LAMBDA i, q : ClrFlag(q, i, "HAL_INPUT"),
                        ClrFlag(slots, hal.info.output, "HAL_OUTPUT"),
                        hal.info.refer)
    /\ HalGo("push")
    /\ UNCHANGED <<session, pslots, tasks, task, codec, dec, lists, calls>>

HalPush ==
    /\ hal.pc = "push"
    /\ mFrames' = mFrames \o DisplayFrames(slots, hal.info.eos)
    /\ slots' = Drained(slots)
    /\ HalGo("notify")
    /\ UNCHANGED <<session, pslots, tasks, task, codec, dec, mPackets, calls>>

(* Mutant: the parser is not told that the previous task is done. *)
HalNotify_NoPrev ==
    /\ hal.pc = "notify"
    /\ Notify({"task_hnd"})
    /\ hal' = [pc |-> "check", hnd |-> None, info |-> NoInfo]
    /\ UNCHANGED <<session, pools, codec, lists, calls>>

HalNotify ==
    /\ hal.pc = "notify"
    /\ Notify(IF hal.info.valid /\ ~hal.info.change /\ ~FastMode
              THEN {"task_hnd", "prev_task"} ELSE {"task_hnd"})
    /\ hal' = [pc |-> "check", hnd |-> None, info |-> NoInfo]
    /\ UNCHANGED <<session, pools, codec, lists, calls>>

HalExit ==
    /\ hal.pc = "check" /\ Stopped("hal")
    /\ HalGo("exited")
    /\ UNCHANGED <<session, pools, task, codec, dec, lists, calls>>

HalThread ==
    \/ HalTake \/ HalReset \/ HalSleep \/ HalInfoChange \/ HalEos \/ HalSetIdle
    \/ HalHwDone \/ HalTaskDone \/ HalClear \/ HalPush \/ HalNotify \/ HalExit

-----------------------------------------------------------------------------
(* The user. *)

Resetting == user \in {"flag", "notify", "unlock", "sem", "flush"}

(* Mpp::put_packet, by the thread that puts: a packet that ends the stream *)
(* is accepted although the list is full.                                  *)
PutPacket ==
    /\ clr = "idle" /\ sent < Len(stream)
    /\ PutInReset \/ ~Resetting
    /\ Len(mPackets) < PacketLimit \/ stream[sent + 1].eos
    /\ mPackets' = Append(mPackets, sent + 1)
    /\ sent' = sent + 1
    /\ Notify({"dec_pkt_in"})
    /\ UNCHANGED <<session, pools, codec, hal, mFrames, user, clr, resets, got>>

(* Mutant: get_frame does not tell the parser. *)
GetFrame_NoNotify ==
    /\ clr = "idle" /\ user = "idle" /\ mFrames # <<>>
    /\ got' = Append(got, Head(mFrames))
    /\ mFrames' = Tail(mFrames)
    /\ user' = IF Head(mFrames).change THEN "ready" ELSE "idle"
    /\ UNCHANGED <<session, pools, task, codec, hal, dec, mPackets, clr, sent, resets>>

(* Mpp::get_frame, by the thread that gets.  An info change is to be       *)
(* acknowledged.                                                           *)
GetFrame ==
    /\ clr = "idle" /\ user = "idle" /\ mFrames # <<>>
    /\ got' = Append(got, Head(mFrames))
    /\ mFrames' = Tail(mFrames)
    /\ Notify({"dis_que_full"})
    /\ user' = IF Head(mFrames).change THEN "ready" ELSE "idle"
    /\ UNCHANGED <<session, pools, codec, hal, mPackets, clr, sent, resets>>

(* Mpp::get_frame without a frame: wake the parser if there are packets. *)
GetNothing ==
    /\ clr = "idle" /\ user = "idle" /\ mFrames = <<>> /\ mPackets # <<>>
    /\ Notify({"dec_pkt_in"})
    /\ UNCHANGED <<session, pools, codec, hal, lists, calls>>

(* MPP_DEC_SET_INFO_CHANGE_READY: mpp_buf_slot_ready, then notify. *)
SetReady ==
    /\ user = "ready"
    /\ slots' = Ready(slots)
    /\ user' = "ready_notify"
    /\ UNCHANGED <<session, pslots, tasks, task, codec, hal, dec, lists,
                   clr, sent, resets, got>>

NotifyReady ==
    /\ user = "ready_notify"
    /\ Notify({"info_change", "dec_pic_match"})
    /\ user' = "idle"
    /\ UNCHANGED <<session, pools, codec, hal, lists, clr, sent, resets, got>>

(* Mpp::reset drops the packets, ... *)
ResetStart ==
    /\ clr = "idle" /\ user = "idle" /\ resets < session.resets
    /\ resets' = resets + 1
    /\ mPackets' = <<>>
    /\ user' = "flag"
    /\ UNCHANGED <<session, pools, task, codec, hal, dec, mFrames, clr, sent, got>>

(* ... mpp_dec_reset asks the parser to reset and waits for it, ... *)
ResetFlag ==
    /\ user = "flag"
    /\ dec' = [dec EXCEPT !.reset_flag = TRUE, !.locked = TRUE]
    /\ user' = "notify"
    /\ UNCHANGED <<session, pools, task, codec, hal, lists, clr, sent, resets, got>>

(* Mutant: the parser is not told. *)
ResetNotify_Silent ==
    /\ user = "notify"
    /\ user' = "unlock"
    /\ UNCHANGED <<session, pools, task, codec, hal, dec, lists, clr, sent, resets, got>>

ResetNotify ==
    /\ user = "notify"
    /\ Notify(Reset)
    /\ user' = "unlock"
    /\ UNCHANGED <<session, pools, codec, hal, lists, clr, sent, resets, got>>

ResetUnlock ==
    /\ user = "unlock"
    /\ dec' = [dec EXCEPT !.locked = FALSE]
    /\ user' = "sem"
    /\ UNCHANGED <<session, pools, task, codec, hal, lists, clr, sent, resets, got>>

ResetWait ==
    /\ user = "sem" /\ dec.parser_reset > 0
    /\ dec' = [dec EXCEPT !.parser_reset = @ - 1]
    /\ user' = "flush"
    /\ UNCHANGED <<session, pools, task, codec, hal, lists, clr, sent, resets, got>>

(* ... and then drops the frames. *)
ResetFlush ==
    /\ user = "flush"
    /\ mFrames' = <<>>
    /\ user' = "idle"
    /\ UNCHANGED <<session, pools, task, codec, hal, dec, mPackets, clr, sent,
                   resets, got>>

ResetSteps ==
    ResetFlag \/ ResetNotify \/ ResetUnlock \/ ResetWait \/ ResetFlush

(* Mpp::clear: mpp_dec_stop stops and joins the parser thread, then the    *)
(* hal thread.                                                             *)
ClearStart ==
    /\ session.clear /\ clr = "idle" /\ user = "idle"
    /\ clr' = "join_parser"
    /\ task' = IF task.pc = "wait" THEN [task EXCEPT !.pc = "reset"] ELSE task
    /\ UNCHANGED <<session, pools, codec, hal, dec, lists, user, sent, resets, got>>

ClearStopHal ==
    /\ clr = "join_parser" /\ task.pc = "exited"
    /\ clr' = "join_hal"
    /\ SignalHal
    /\ UNCHANGED <<session, pools, task, codec, dec, lists, user, sent, resets, got>>

(* mpp_dec_deinit follows; mpp_h263_parser_deinit frees its memory only. *)
ClearDone ==
    /\ clr = "join_hal" /\ hal.pc = "exited"
    /\ clr' = "done"
    /\ UNCHANGED <<session, pools, task, codec, hal, dec, lists, user, sent,
                   resets, got>>

(* Everything was put and fetched, and both threads wait; or all is over. *)
Finished ==
    /\ \/ clr = "done"
       \/ /\ sent = Len(stream) /\ lists = <<<<>>, <<>>>> /\ user = "idle"
          /\ task.pc = "wait" /\ "dec_pkt_in" \in task.wait /\ hal.pc = "wait"
    /\ UNCHANGED vars

Next ==
    \/ Parser \/ HalThread \/ PutPacket \/ GetFrame \/ GetNothing \/ SetReady
    \/ NotifyReady \/ ResetStart \/ ResetSteps
    \/ ClearStart \/ ClearStopHal \/ ClearDone \/ Finished

(* Both threads run, the hardware answers, the user keeps putting packets, *)
(* getting frames and acknowledging info changes, and finishes the calls   *)
(* he makes.  Nothing makes him reset or clear, or poll in vain.           *)
Fairness ==
    /\ WF_vars(Parser) /\ WF_vars(HalThread)
    /\ WF_vars(PutPacket)
    /\ WF_vars(GetFrame \/ SetReady \/ NotifyReady \/ ResetSteps)
    /\ WF_vars(ClearStopHal \/ ClearDone)

Spec == Init /\ [][Next]_vars /\ Fairness

-----------------------------------------------------------------------------
(* Safety. *)

(* What the user gets, or will get: pictures, announcements and an eos. *)
Output == got \o mFrames

IsPicture(f) == ~f.change /\ f.pts # 0

(* Pictures come out in the order their packets were put, none twice,      *)
(* whichever thread found the display queue ready.                         *)
FramesInOrder ==
    \A i, j \in DOMAIN Output :
        i < j /\ IsPicture(Output[i]) /\ IsPicture(Output[j]) =>
            Output[i].pts < Output[j].pts

(* The geometry in force before Output[k]: that of the last info change    *)
(* before it, or the one the user set.                                     *)
Announced(k) ==
    LET changes == {j \in 1 .. k - 1 : Output[j].change}
    IN  IF changes = {} THEN InitInfo
        ELSE Output[CHOOSE j \in changes : \A i \in changes : i <= j].info

(* No picture comes out with a geometry that was not announced to the user *)
(* before it: the frame of an info change overtakes no picture of the old  *)
(* geometry and is overtaken by none of the new one.                       *)
AnnouncedBefore ==
    \A k \in DOMAIN Output : IsPicture(Output[k]) => Output[k].info = Announced(k)

(* The parser sleeps for a reason: what it waits for has not happened, or  *)
(* the hal thread that did it is about to notify.  The flush of the frames *)
(* at the end of a reset does not notify, so that the wait for the user to *)
(* fetch frames needs that no packet is put meanwhile.                     *)
WakeupsKept ==
    LET notifying == hal.pc \in {"clear", "push", "notify"}
    IN  task.pc = "wait" =>
            /\ "task_hnd" \in task.wait => ~HasHnd(tasks, "TASK_IDLE") \/ notifying
            /\ "prev_task" \in task.wait =>
                   ~HasHnd(tasks, "TASK_PROC_DONE") \/ notifying
            /\ "dec_pkt_in" \in task.wait => mPackets = <<>>
            /\ "dis_que_full" \in task.wait => PutInReset \/ Len(mFrames) > FrameLimit

(* Besides, the parser does not sleep over an acknowledged info change,    *)
(* and it never waits for a frame slot, of which nobody would notify it:   *)
(* other waits hold it back before the slots run out.                      *)
NoLostWakeup ==
    /\ WakeupsKept
    /\ task.pc = "wait" =>
            /\ "dec_slot_idx" \notin task.wait
            /\ "info_change" \in task.wait =>
                   slots.info_changed \/ user = "ready_notify"

(* "7.3 wait for a unused slot index": the parser waits for a frame slot   *)
(* only while there is none.                                               *)
SlotWaitJustified == "dec_slot_idx" \in task.wait => FreeSlots(slots) = {}

(* The task the hardware works on reads decoded pictures that are still in *)
(* their slots, and writes to a slot that holds its own frame.             *)
HalSlotsIntact ==
    hal.pc = "hw" =>
        /\ slots.frame[hal.info.output] # None
        /\ slots.frame[hal.info.output].pts = hal.info.pkt
        /\ \A i \in hal.info.refer :
              /\ i \in slots.on_used \ (slots.not_ready \cup slots.hal_output)
              /\ slots.frame[i].pts < hal.info.pkt

(* reset_parser_thread: no task is left when the hal thread has answered   *)
(* (else mpp_abort), and the hal thread is at rest while the parser drops  *)
(* what both have shared.                                                  *)
ResetQuiesced ==
    (task.pc = "sem_hal" /\ dec.hal_reset > 0) \/ task.pc = "post" =>
        ~HasHnd(tasks, "TASK_PROCESSING") /\ hal.pc \in {"check", "wait"}

Hnds == 1 .. TaskCount

(* A reset releases every slot of both pools and every handle, and leaves  *)
(* the display queue empty.                                                *)
ResetReleases ==
    task.pc = "post" =>
        /\ slots.on_used = {} /\ pslots.on_used = {}
        /\ DisplayQueue(slots) = <<>>
        /\ ToSet(tasks.list["TASK_IDLE"]) = Hnds

(* A reset leaves nothing behind: besides, used_count is back at none.     *)
ResetEmpties == ResetReleases /\ (task.pc = "post" => slots.used_count = 0)

-----------------------------------------------------------------------------
(* Liveness. *)

(* The packets that a decoder without threads would make pictures of. *)
Decodable ==
    {n \in DOMAIN stream :
        \/ stream[n].kind = "I"
        \/ stream[n].kind = "P" /\ \E i \in 1 .. n - 1 : stream[i].kind = "I"}

(* Without reset and clear every decodable packet becomes a picture, and   *)
(* the last frame carries the end of the stream.                           *)
AllDecoded ==
    session.resets > 0 \/ session.clear \/
    <>(/\ {got[k].pts : k \in {j \in DOMAIN got : IsPicture(got[j])}} = Decodable
       /\ got # <<>> /\ Last(got).eos)

(* With resets, every packet is at least taken from the list: as long as   *)
(* nobody clears the context, the pipeline never stops for good.           *)
AllTaken == <>[](clr # "idle" \/ (sent = Len(stream) /\ lists = <<<<>>, <<>>>>))

(* Mpp::reset and Mpp::clear return: neither is in progress for ever. *)
CallsReturn == []<>~Resetting /\ []<>(clr \in {"idle", "done"})
=============================================================================
