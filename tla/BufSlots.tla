------------------------------ MODULE BufSlots ------------------------------
(***************************************************************************)
(* The life of a decoder's frame slots (mpp/base/mpp_buf_slot.cpp) under   *)
(* its two users, the parser thread and the hal thread, which call into    *)
(* the pool with no other lock held and interleave call by call.           *)
(*                                                                         *)
(* The parser follows the routine of mpp/base/inc/mpp_buf_slot.h:          *)
(* it takes an unused slot for its output, marks the slot as hardware      *)
(* output, stores the frame, marks the references the hardware will read,  *)
(* keeps the picture in its dpb or not, enqueues pictures for display in   *)
(* an order of its own, drops references and sends the task to the hal     *)
(* thread.  The order of these calls is that of the H.263 parser, whose    *)
(* dpb is one picture shown at once; here the dpb is a set and a picture   *)
(* may be enqueued later, or never, as other parsers do.                   *)
(*                                                                         *)
(* The hal thread waits for the hardware, clears what the task marked and  *)
(* drains the display queue.  At the end of the stream the parser flushes  *)
(* its dpb into the display queue and sends a task without a picture.      *)
(*                                                                         *)
(* mpp_buf_slot_reset is left to MppDec, which models the reset protocol   *)
(* that calls it.                                                          *)
(***************************************************************************)
EXTENDS BufSlotOps

CONSTANTS
    NumSlots,       \* mpp_buf_slot_setup(frame_slots, NumSlots)
    Tasks,          \* the hal task handles of mpp/hal/hal_task.cpp
    Hal,            \* the hal thread's own copy of the task it works on
    MaxRef,         \* pictures the codec keeps between two tasks
    Infos,          \* frame geometries the stream may carry
    MaxFrames       \* bound on the pictures of the stream

ASSUME NumSlotsAssumption  == NumSlots \in Nat \ {0}
ASSUME MaxRefAssumption    == MaxRef \in Nat
ASSUME MaxFramesAssumption == MaxFrames \in Nat
(* hal_use has 8 bits: a slot is referred to by less than 256 tasks. *)
ASSUME TasksAssumption     == /\ IsFiniteSet(Tasks)
                              /\ Hal \notin Tasks
                              /\ Cardinality(Tasks) + 1 < HalUseRange
(* NULL is neither a task, nor a frame, nor the geometry of one. *)
ASSUME NoneAssumption      == /\ None \notin Tasks /\ None \notin Infos
                              /\ None \notin [pts : 1 .. MaxFrames, info : Infos]

VARIABLES
    pool,       \* the frame slots
    ppc,        \* where the parser thread is
    hnd,        \* the task handle the parser prepares, or None
    mark,       \* slot the parser is about to enqueue, or NoSlot
    dpb,        \* slots of the pictures the codec keeps
    enqueued,   \* slots of pictures in hand that were sent to display
    out,        \* output slot of each task, and of the hal thread's copy
    refer,      \* reference slots of the same
    fifo,       \* tasks in TASK_PROCESSING, in the order they were put
    hpc,        \* where the hal thread is
    disp,       \* slot the hal thread dequeued for display, or NoSlot
    count,      \* pictures parsed so far
    order,      \* pictures in the order they were enqueued for display
    shown       \* pictures in the order they were put in mFrames

parserVars == <<ppc, hnd, mark, dpb, enqueued, count, order>>
halVars    == <<hpc, disp, shown>>
taskVars   == <<out, refer, fifo>>
vars       == <<pool, parserVars, halVars, taskVars>>

NoSlot  == -1
SlotIds == 0 .. NumSlots - 1
Owners  == Tasks \cup {Hal}

Frames == [pts : 1 .. MaxFrames, info : Infos]

Init ==
    /\ pool = SlotsInit(NumSlots)
    /\ ppc = "get" /\ hnd = None /\ mark = NoSlot
    /\ dpb = {} /\ enqueued = {}
    /\ count = 0 /\ order = <<>>
    /\ out = [o \in Owners |-> NoSlot]
    /\ refer = [o \in Owners |-> {}]
    /\ fifo = <<>>
    /\ hpc = "wait" /\ disp = NoSlot /\ shown = <<>>

-----------------------------------------------------------------------------
(* The parser thread. *)

(* hal_task_get_hnd(tasks, TASK_IDLE): a task that is neither queued nor   *)
(* in the parser's hand.                                                   *)
IdleTasks == {t \in Tasks : t # hnd /\ t \notin ToSet(fifo)}

(* try_proc_dec_task holds the parser back while no slot is unused; the    *)
(* parser then takes the first unused slot as the output of the task.      *)
ParserGetSlot ==
    /\ ppc = "get" /\ count < MaxFrames
    /\ UnusedCount(pool) # 0
    /\ \E t \in IdleTasks :
          /\ hnd' = t
          /\ out' = [out EXCEPT ![t] = FirstUnused(pool)]
          /\ refer' = [refer EXCEPT ![t] = {}]
    /\ pool' = GetUnused(pool)
    /\ ppc' = "output"
    /\ UNCHANGED <<mark, dpb, enqueued, count, order, fifo, halVars>>

ParserSetOutput ==
    /\ ppc = "output"
    /\ pool' = SetFlag(pool, out[hnd], "HAL_OUTPUT")
    /\ ppc' = "frame"
    /\ UNCHANGED <<hnd, mark, dpb, enqueued, count, order, taskVars, halVars>>

ParserSetFrame ==
    /\ ppc = "frame"
    /\ \E info \in Infos :
          pool' = SetFrame(pool, out[hnd], [pts |-> count + 1, info |-> info])
    /\ count' = count + 1
    /\ ppc' = "refer"
    /\ UNCHANGED <<hnd, mark, dpb, enqueued, order, taskVars, halVars>>

ParserSetRefer ==
    /\ ppc = "refer"
    /\ \E i \in dpb \ refer[hnd] :
          /\ pool' = SetFlag(pool, i, "HAL_INPUT")
          /\ refer' = [refer EXCEPT ![hnd] = @ \cup {i}]
    /\ UNCHANGED <<parserVars, out, fifo, halVars>>

(* A reference picture enters the dpb; any other goes on without it. *)
ParserKeepPicture ==
    /\ ppc = "refer"
    /\ \/ /\ pool' = SetFlag(pool, out[hnd], "CODEC_USE")
          /\ dpb' = dpb \cup {out[hnd]}
       \/ UNCHANGED <<pool, dpb>>
    /\ ppc' = "mark"
    /\ UNCHANGED <<hnd, mark, enqueued, count, order, taskVars, halVars>>

(* The picture just parsed, or one of the dpb, is sent to display once. *)
Displayable ==
    (dpb \cup IF ppc = "mark" THEN {out[hnd]} ELSE {}) \ enqueued

ParserSetQueueUse ==
    /\ ppc \in {"mark", "flush"} /\ mark = NoSlot
    /\ \E i \in Displayable :
          /\ pool' = SetFlag(pool, i, "QUEUE_USE")
          /\ mark' = i
    /\ UNCHANGED <<ppc, hnd, dpb, enqueued, count, order, taskVars, halVars>>

ParserEnqueue ==
    /\ mark # NoSlot
    /\ pool' = Enqueue(pool, mark, "QUEUE_DISPLAY")
    /\ order' = Append(order, pool.frame[mark].pts)
    /\ enqueued' = enqueued \cup {mark}
    /\ mark' = NoSlot
    /\ UNCHANGED <<ppc, hnd, dpb, count, taskVars, halVars>>

(* An older picture leaves the dpb. *)
ParserDropRefer ==
    /\ ppc = "mark" /\ mark = NoSlot
    /\ \E i \in dpb \ {out[hnd]} :
          /\ pool' = ClrFlag(pool, i, "CODEC_USE")
          /\ dpb' = dpb \ {i}
          /\ enqueued' = enqueued \ {i}
    /\ UNCHANGED <<ppc, hnd, mark, count, order, taskVars, halVars>>

(* mpp_dec_put_task: not before the user has acknowledged an info change. *)
ParserPutTask ==
    /\ ppc = "mark" /\ mark = NoSlot
    /\ Cardinality(dpb) <= MaxRef
    /\ ~pool.info_changed
    /\ fifo' = Append(fifo, hnd)
    /\ enqueued' = enqueued \cap dpb
    /\ hnd' = None
    /\ ppc' = "get"
    /\ UNCHANGED <<pool, mark, dpb, count, order, out, refer, halVars>>

(* End of the stream: the parser flushes, then puts a task with no output. *)
ParserFlush ==
    /\ ppc = "get" /\ count > 0
    /\ \E t \in IdleTasks :
          /\ hnd' = t
          /\ out' = [out EXCEPT ![t] = NoSlot]
          /\ refer' = [refer EXCEPT ![t] = {}]
    /\ ppc' = "flush"
    /\ UNCHANGED <<pool, mark, dpb, enqueued, count, order, fifo, halVars>>

ParserPutEos ==
    /\ ppc = "flush" /\ mark = NoSlot /\ Displayable = {}
    /\ fifo' = Append(fifo, hnd)
    /\ hnd' = None
    /\ ppc' = "end"
    /\ UNCHANGED <<pool, mark, dpb, enqueued, count, order, out, refer, halVars>>

Parser ==
    \/ ParserGetSlot \/ ParserSetOutput \/ ParserSetFrame \/ ParserSetRefer
    \/ ParserKeepPicture \/ ParserSetQueueUse \/ ParserEnqueue
    \/ ParserDropRefer \/ ParserPutTask \/ ParserFlush \/ ParserPutEos

-----------------------------------------------------------------------------
(* The user acknowledges an info change: mpp_buf_slot_ready. *)
UserReady ==
    /\ pool.info_changed
    /\ pool' = Ready(pool)
    /\ UNCHANGED <<parserVars, halVars, taskVars>>

-----------------------------------------------------------------------------
(* The hal thread. *)

(* Copy the oldest task, wait for the hardware, give the handle back. *)
HalTakeTask ==
    /\ hpc = "wait" /\ fifo # <<>>
    /\ out'   = [out   EXCEPT ![Hal] = out[Head(fifo)],
                              ![Head(fifo)] = NoSlot]
    /\ refer' = [refer EXCEPT ![Hal] = refer[Head(fifo)],
                              ![Head(fifo)] = {}]
    /\ fifo' = Tail(fifo)
    /\ hpc' = "output"
    /\ UNCHANGED <<pool, parserVars, disp, shown>>

HalClrOutput ==
    /\ hpc = "output"
    /\ IF out[Hal] = NoSlot
       THEN pool' = pool
       ELSE pool' = ClrFlag(pool, out[Hal], "HAL_OUTPUT")
    /\ out' = [out EXCEPT ![Hal] = NoSlot]
    /\ hpc' = "refer"
    /\ UNCHANGED <<parserVars, refer, fifo, disp, shown>>

HalClrRefer ==
    /\ hpc = "refer"
    /\ \E i \in refer[Hal] :
          /\ pool' = ClrFlag(pool, i, "HAL_INPUT")
          /\ refer' = [refer EXCEPT ![Hal] = @ \ {i}]
    /\ UNCHANGED <<parserVars, out, fifo, halVars>>

(* mpp_dec_push_display: dequeue, put the frame, clear the queue mark, and *)
(* again until the head of the queue is not ready.                         *)
HalDequeue ==
    /\ hpc = "refer" /\ refer[Hal] = {}
    /\ CanDequeue(pool, "QUEUE_DISPLAY")
    /\ disp' = Head(pool.queue["QUEUE_DISPLAY"])
    /\ pool' = Dequeue(pool, "QUEUE_DISPLAY")
    /\ hpc' = "put"
    /\ UNCHANGED <<parserVars, taskVars, shown>>

HalPutFrame ==
    /\ hpc = "put"
    /\ shown' = Append(shown, pool.frame[disp].pts)
    /\ hpc' = "clear"
    /\ UNCHANGED <<pool, parserVars, taskVars, disp>>

HalClrQueueUse ==
    /\ hpc = "clear"
    /\ pool' = ClrFlag(pool, disp, "QUEUE_USE")
    /\ disp' = NoSlot
    /\ hpc' = "refer"
    /\ UNCHANGED <<parserVars, taskVars, shown>>

HalTaskDone ==
    /\ hpc = "refer" /\ refer[Hal] = {}
    /\ ~CanDequeue(pool, "QUEUE_DISPLAY")
    /\ hpc' = "wait"
    /\ UNCHANGED <<pool, parserVars, taskVars, disp, shown>>

HalThread ==
    \/ HalTakeTask \/ HalClrOutput \/ HalClrRefer
    \/ HalDequeue \/ HalPutFrame \/ HalClrQueueUse \/ HalTaskDone

(* The stream is over and everything has come to rest. *)
Finished ==
    /\ ppc = "end" /\ hpc = "wait" /\ fifo = <<>>
    /\ UNCHANGED vars

Next == Parser \/ UserReady \/ HalThread \/ Finished

(* Both threads run, the hardware answers and the user acknowledges an     *)
(* info change.                                                            *)
Fairness == WF_vars(Parser) /\ WF_vars(UserReady) /\ WF_vars(HalThread)

Spec == Init /\ [][Next]_vars /\ Fairness

-----------------------------------------------------------------------------
(* Safety. *)

InQueue == ToSet(pool.queue["QUEUE_DISPLAY"])

(* The slots somebody still has a claim on: the output of a task, until    *)
(* the hal thread clears it; its references; the pictures of the dpb; the  *)
(* slots queued for display or in the hands of the thread that moves them. *)
Held ==
    ({out[o] : o \in Owners} \cup (UNION {refer[o] : o \in Owners})
        \cup dpb \cup InQueue \cup {mark, disp}) \ {NoSlot}

(* A slot is on_used exactly as long as somebody has a claim on it: none   *)
(* is recycled under a thread that still works on it, and none is lost to  *)
(* the pool (check_entry_unused runs at the end of every clear).  And      *)
(* used_count, which mpp_dec relies on before it lets the parser take a    *)
(* slot, is their number.                                                  *)
UsedExactlyWhenHeld ==
    pool.on_used = Held /\ pool.used_count = Cardinality(pool.on_used)

(* No thread clears a mark that is not set, stores a frame in a slot that  *)
(* is ready, or otherwise makes the pool call dump_slots.                  *)
NoIllegalClear == ~pool.dumped

(* Pictures come out in the order the codec enqueued them, and decoded:    *)
(* the slot the hal thread is about to show is neither waiting for the     *)
(* hardware nor without its frame.                                         *)
ShownInOrder ==
    /\ IsPrefix(shown, order)
    /\ hpc = "put" => /\ disp \notin pool.not_ready \cup pool.hal_output
                      /\ pool.frame[disp] # None

(* While somebody keeps his claim on a slot its frame is not replaced.     *)
FrameKept ==
    [][\A i \in Held \cap Held' :
          pool.frame[i] # None => pool'.frame[i] = pool.frame[i]]_vars

-----------------------------------------------------------------------------
(* Liveness: the stream ends, and by then every picture that was enqueued  *)
(* has come out and only the dpb still holds slots.                        *)
AllShown == <>[](shown = order /\ ppc = "end" /\ pool.on_used = dpb)
=============================================================================
