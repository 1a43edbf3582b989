----------------------------- MODULE BufSlotOps -----------------------------
(***************************************************************************)
(* The buffer slots of mpp/base/mpp_buf_slot.cpp.  Every entry point of    *)
(* that file takes the lock of the slot pool for its whole duration, so    *)
(* each is an operator from a pool to the pool it leaves behind; BufSlots  *)
(* and MppDec use these operators in their actions.                        *)
(*                                                                         *)
(* A pool is a record.  A one-bit field of SlotStatus is the set of the    *)
(* slots that have the bit; hal_use (8 bits) and queue_use (5 bits) are    *)
(* counters per slot; queue is the list_head of each SlotQueueType.        *)
(* dumped records that slot_ops_with_log found an illegal clear, or that a *)
(* slot_assert failed: the code then calls dump_slots.                     *)
(*                                                                         *)
(* A frame is any record with a field info, the geometry that              *)
(* mpp_frame_info_cmp compares.  The MppBuffer a slot refers to is left    *)
(* out: it comes with the slot's frame and goes with it.                   *)
(***************************************************************************)
EXTENDS Integers, Sequences, FiniteSets, SequencesExt

CONSTANT None       \* the NULL of frame and frame info

QueueTypes == {"QUEUE_DISPLAY", "QUEUE_DEINTERLACE"}

UsageTypes ==
    {"CODEC_READY", "CODEC_USE", "HAL_INPUT", "HAL_OUTPUT", "QUEUE_USE"}

HalUseRange   == 256        \* RK_U32 hal_use   : 8
QueueUseRange == 32         \* RK_U32 queue_use : 5

(* The slots of a pool, 0 .. buf_count - 1. *)
Slots(p) == DOMAIN p.hal_use

(* mpp_buf_slot_init, then the first mpp_buf_slot_setup with n slots. *)
SlotsInit(n) ==
    [ on_used      |-> {},
      not_ready    |-> {},
      codec_use    |-> {},
      hal_output   |-> {},
      hal_use      |-> [i \in 0 .. n - 1 |-> 0],
      queue_use    |-> [i \in 0 .. n - 1 |-> 0],
      frame        |-> [i \in 0 .. n - 1 |-> None],
      queue        |-> [t \in QueueTypes |-> <<>>],
      used_count   |-> 0,
      info         |-> None,
      info_set     |-> None,
      info_changed |-> FALSE,
      dumped       |-> FALSE ]

Dump(p) == [p EXCEPT !.dumped = TRUE]

-----------------------------------------------------------------------------
(* slot_ops_with_log: the effect of one operation on the status word. *)

IncQueueUse(p, i) ==
    [p EXCEPT !.queue_use[i] = (@ + 1) % QueueUseRange]

DecQueueUse(p, i) ==
    IF p.queue_use[i] > 0 THEN [p EXCEPT !.queue_use[i] = @ - 1] ELSE Dump(p)

(* Mutant: hal_use kept as a flag, not as a counter. *)
SetFlag_HalUseFlag(p, i, type) ==
    CASE type = "CODEC_READY" -> [p EXCEPT !.not_ready = @ \ {i}]
      [] type = "CODEC_USE"   -> [p EXCEPT !.codec_use = @ \cup {i}]
      [] type = "HAL_INPUT"   -> [p EXCEPT !.hal_use[i] = 1]
      [] type = "HAL_OUTPUT"  -> [p EXCEPT !.hal_output = @ \cup {i},
                                           !.not_ready  = @ \cup {i}]
      [] type = "QUEUE_USE"   -> IncQueueUse(p, i)

SetFlag(p, i, type) ==
    CASE type = "CODEC_READY" -> [p EXCEPT !.not_ready = @ \ {i}]
      [] type = "CODEC_USE"   -> [p EXCEPT !.codec_use = @ \cup {i}]
      [] type = "HAL_INPUT"   -> [p EXCEPT !.hal_use[i] = (@ + 1) % HalUseRange]
      [] type = "HAL_OUTPUT"  -> [p EXCEPT !.hal_output = @ \cup {i},
                                           !.not_ready  = @ \cup {i}]
      [] type = "QUEUE_USE"   -> IncQueueUse(p, i)

ClrStatus(p, i, type) ==
    CASE type = "CODEC_READY" -> [p EXCEPT !.not_ready = @ \cup {i}]
      [] type = "CODEC_USE"   -> [p EXCEPT !.codec_use = @ \ {i}]
      [] type = "HAL_INPUT"   -> IF p.hal_use[i] > 0
                                 THEN [p EXCEPT !.hal_use[i] = @ - 1]
                                 ELSE Dump(p)
      [] type = "HAL_OUTPUT"  -> [p EXCEPT !.hal_output = @ \ {i},
                                           !.not_ready  = @ \ {i}]
      [] type = "QUEUE_USE"   -> DecQueueUse(p, i)

(* Mutants: a slot is idle although a queue, or the codec, has it. *)
Idle_NoQueue(p, i) ==
    /\ i \notin p.not_ready \cup p.codec_use \cup p.hal_output
    /\ p.hal_use[i] = 0

Idle_NoCodec(p, i) ==
    /\ i \notin p.not_ready \cup p.hal_output
    /\ p.hal_use[i] = 0 /\ p.queue_use[i] = 0

(* No user of the slot is left: the condition of check_entry_unused. *)
Idle(p, i) ==
    /\ i \notin p.not_ready
    /\ i \notin p.codec_use
    /\ i \notin p.hal_output
    /\ p.hal_use[i] = 0
    /\ p.queue_use[i] = 0

(* A slot without users gives up its frame. *)
CheckEntryUnused(p, i) ==
    IF i \in p.on_used /\ Idle(p, i)
    THEN [p EXCEPT !.on_used    = @ \ {i},
                   !.frame[i]   = None,
                   !.used_count = @ - 1]
    ELSE p

(* Mutant: mpp_buf_slot_clr_flag does not look whether the slot is idle. *)
ClrFlag_NoCheck(p, i, type) == ClrStatus(p, i, type)

ClrFlag(p, i, type) == CheckEntryUnused(ClrStatus(p, i, type), i)

-----------------------------------------------------------------------------
FreeSlots(p) == Slots(p) \ p.on_used

(* mpp_buf_slot_get_unused returns the first slot that is not on_used. *)
FirstUnused(p) == CHOOSE i \in FreeSlots(p) : \A j \in FreeSlots(p) : i <= j

GetUnused(p) ==
    LET i == FirstUnused(p)
    IN  IF FreeSlots(p) = {} THEN Dump(p)
        ELSE [p EXCEPT !.on_used    = @ \cup {i},
                       !.not_ready  = @ \cup {i},
                       !.used_count = @ + 1]

(* mpp_slots_get_unused_count, and the slot_assert it starts with. *)
UnusedCount(p) == Cardinality(Slots(p)) - p.used_count

(* list_del_init(&slot->list): the one list node of a slot leaves the      *)
(* queue it is linked in, if any.                                          *)
ListDel(queue, i) == [t \in DOMAIN queue |-> RemoveFirst(queue[t], i)]

(* Mutant: list_add for list_add_tail. *)
Enqueue_Front(p, i, type) ==
    [IncQueueUse(p, i) EXCEPT
        !.queue = [ListDel(p.queue, i) EXCEPT ![type] = <<i>> \o @]]

Enqueue(p, i, type) ==
    [IncQueueUse(p, i) EXCEPT
        !.queue = [ListDel(p.queue, i) EXCEPT ![type] = Append(@, i)]]

(* mpp_buf_slot_dequeue succeeds only if the head of the queue is ready,   *)
(* whatever the slots behind it are.                                       *)
CanDequeue(p, type) ==
    /\ p.queue[type] # <<>>
    /\ Head(p.queue[type]) \notin p.not_ready

Dequeue(p, type) ==
    [DecQueueUse(p, Head(p.queue[type])) EXCEPT !.queue[type] = Tail(@)]

(* mpp_buf_slot_set_prop(SLOT_FRAME): keep a copy of the frame and compare *)
(* its geometry with the one that was last declared ready.                 *)
SetFrame(p, i, f) ==
    IF i \in p.not_ready
    THEN [p EXCEPT !.frame[i]     = f,
                   !.info_set     = f.info,
                   !.info_changed = @ \/ f.info # p.info]
    ELSE Dump(p)

(* mpp_buf_slot_ready: the parsers call mpp_buf_slot_setup once, with a    *)
(* constant, so buf_count = new_count and no slot is initialised again.    *)
Ready(p) == [p EXCEPT !.info = p.info_set, !.info_changed = FALSE]

(* mpp_buf_slot_reset: takes the slot out of its queue and of the used     *)
(* slots; used_count and the frame are left as they are.                   *)
SlotReset(p, i) ==
    LET q == [p EXCEPT !.queue = ListDel(@, i)]
    IN  [DecQueueUse(DecQueueUse(q, i), i) EXCEPT !.on_used = @ \ {i}]
=============================================================================
