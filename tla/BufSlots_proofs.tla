-------------------------- MODULE BufSlots_proofs ---------------------------
(***************************************************************************)
(* Proofs about BufSlots for any number of slots, tasks and pictures: a    *)
(* slot is used exactly while somebody has it, nothing is dumped, pictures *)
(* come out decoded and in the order the codec enqueued them, and no       *)
(* holder's frame is replaced.                                             *)
(*                                                                         *)
(* The invariant says what every mark of the pool stands for: not_ready    *)
(* and hal_output for the outputs of the tasks, codec_use for the dpb,     *)
(* hal_use for the number of tasks that refer to the slot, queue_use for   *)
(* its way to display (MarksInv).  To keep the counts right one has to     *)
(* know that no two tasks have the same output and that an idle task has   *)
(* nothing (TasksInv), and that a slot is in one place on its way to       *)
(* display (DisplayInv).  The order of the pictures then follows from      *)
(* numbering everything between the display queue and mFrames (OrderInv).  *)
(*                                                                         *)
(* Each action's effect on the pool is a lemma of its own, drawn from      *)
(* SlotLemmas; one lemma per part of the invariant then goes through the   *)
(* actions.                                                                *)
(***************************************************************************)
EXTENDS BufSlots, SlotLemmas

SlotOrNone == SlotIds \cup {NoSlot}
Pools      == PoolType(SlotIds, Frames, Infos \cup {None})

ParserPcs == {"get", "output", "frame", "refer", "mark", "flush", "end"}
HalPcs    == {"wait", "output", "refer", "put", "clear"}

TypeOK ==
    /\ pool \in Pools
    /\ ppc \in ParserPcs
    /\ hnd \in Tasks \cup {None}
    /\ mark \in SlotOrNone
    /\ dpb \subseteq SlotIds
    /\ enqueued \subseteq SlotIds
    /\ count \in 0 .. MaxFrames
    /\ order \in Seq(1 .. MaxFrames)
    /\ out \in [Owners -> SlotOrNone]
    /\ refer \in [Owners -> SUBSET SlotIds]
    /\ fifo \in Seq(Tasks)
    /\ hpc \in HalPcs
    /\ disp \in SlotOrNone
    /\ shown \in Seq(1 .. MaxFrames)

(* The parser works on a picture. *)
Preparing == ppc \in {"output", "frame", "refer", "mark"}

(* A task is idle, in the parser's hand or in the fifo; only a task that   *)
(* is not idle has an output and references, and so has the hal thread     *)
(* only while it works on its copy.  No two of them have the same output.  *)
TasksInv ==
    /\ (hnd = None) <=> (ppc \in {"get", "end"})
    /\ hnd \notin ToSet(fifo)
    /\ IsInjective(fifo)
    /\ \A t \in Tasks : t # hnd /\ t \notin ToSet(fifo) =>
          out[t] = NoSlot /\ refer[t] = {}
    /\ Preparing => out[hnd] \in SlotIds
    /\ ppc = "flush" => out[hnd] = NoSlot
    /\ ppc \in {"output", "frame"} => count < MaxFrames
    /\ hpc # "output" => out[Hal] = NoSlot
    /\ hpc \in {"wait", "put", "clear"} => refer[Hal] = {}
    /\ \A o, u \in Owners : out[o] = out[u] /\ out[o] # NoSlot => o = u
    /\ mark # NoSlot => ppc \in {"mark", "flush"}
    /\ (disp # NoSlot) <=> (hpc \in {"put", "clear"})

(* The outputs the hardware has not delivered, and among them the one the  *)
(* parser has not marked yet.                                              *)
Awaited  == {out[o] : o \in Owners} \ {NoSlot}
Unmarked == IF ppc = "output" THEN {out[hnd]} ELSE {}

(* The owners that refer to a slot. *)
HalUses(i) == {o \in Owners : i \in refer[o]}

(* How often a slot is marked for display: by the parser before it puts it *)
(* in the queue, once more while it is there, and by the hal thread.       *)
QueueUses(i) == IF i \in InQueue THEN 2 ELSE IF i \in {mark, disp} THEN 1 ELSE 0

(* The marks of the pool tell what the threads have in hand. *)
MarksInv ==
    /\ pool.not_ready = Awaited
    /\ pool.hal_output = Awaited \ Unmarked
    /\ pool.codec_use = dpb
    /\ \A i \in SlotIds : pool.hal_use[i] = Cardinality(HalUses(i))
    /\ \A i \in SlotIds : pool.queue_use[i] = QueueUses(i)

(* The pictures the parser may still send to display. *)
InHand == dpb \cup IF ppc = "mark" THEN {out[hnd]} ELSE {}

(* A slot is in one place on its way to display at a time, and a picture   *)
(* in the parser's hand that is on the way is known to have been sent.     *)
(* The slot of a new picture is not on the way yet.                        *)
DisplayInv ==
    /\ pool.queue["QUEUE_DEINTERLACE"] = <<>>
    /\ IsInjective(pool.queue["QUEUE_DISPLAY"])
    /\ mark \notin InQueue /\ disp \notin InQueue
    /\ mark # NoSlot => mark # disp /\ mark \in InHand \ enqueued
    /\ (InQueue \cup {disp}) \cap InHand \subseteq enqueued
    /\ enqueued \subseteq InHand
    /\ ppc \in {"output", "frame", "refer"} => out[hnd] \notin InQueue \cup {disp}

(* A slot has a frame from SetFrame on until it is unused. *)
FramesInv ==
    \A i \in SlotIds :
        (pool.frame[i] = None) <=>
        (i \notin pool.on_used \/ (ppc \in {"output", "frame"} /\ i = out[hnd]))

(* What has been dequeued for display is decoded. *)
ReadyInv == hpc \in {"put", "clear"} => disp \notin pool.not_ready

(* The pictures enqueued are those shown, the one the hal thread is about  *)
(* to show and those in the queue, in this order.                          *)
InPut     == IF hpc = "put" THEN 1 ELSE 0
OrderInv ==
    LET Q == pool.queue["QUEUE_DISPLAY"]
    IN  /\ Len(order) = Len(shown) + InPut + Len(Q)
        /\ \A k \in 1 .. Len(shown) : shown[k] = order[k]
        /\ hpc = "put" => order[Len(shown) + 1] = pool.frame[disp].pts
        /\ \A k \in 1 .. Len(Q) : order[Len(shown) + InPut + k] = pool.frame[Q[k]].pts

IInv ==
    /\ TypeOK
    /\ UsedOK(pool) /\ CountOK(pool) /\ ~pool.dumped
    /\ TasksInv
    /\ MarksInv
    /\ DisplayInv
    /\ FramesInv
    /\ ReadyInv
    /\ OrderInv

-----------------------------------------------------------------------------
(* The fields of the pool, and the finite sets the marks are counted by. *)
LEMMA PoolOfSlots ==
    ASSUME TypeOK
    PROVE  /\ pool.on_used \subseteq SlotIds /\ pool.not_ready \subseteq SlotIds
           /\ pool.codec_use \subseteq SlotIds /\ pool.hal_output \subseteq SlotIds
           /\ pool.hal_use \in [SlotIds -> 0 .. 255]
           /\ pool.queue_use \in [SlotIds -> 0 .. 31]
           /\ pool.frame \in [SlotIds -> Frames \cup {None}]
           /\ pool.queue \in [QueueTypes -> Seq(SlotIds)]
           /\ pool.queue["QUEUE_DISPLAY"] \in Seq(SlotIds)
           /\ InQueue \subseteq SlotIds
           /\ pool.info_changed \in BOOLEAN
           /\ Slots(pool) = SlotIds
<1>0. pool \in PoolType(SlotIds, Frames, Infos \cup {None})
  BY DEF TypeOK, Pools
<1>1. /\ pool.on_used \subseteq SlotIds /\ pool.not_ready \subseteq SlotIds
      /\ pool.codec_use \subseteq SlotIds /\ pool.hal_output \subseteq SlotIds
      /\ pool.hal_use \in [SlotIds -> 0 .. 255]
      /\ pool.queue_use \in [SlotIds -> 0 .. 31]
      /\ pool.frame \in [SlotIds -> Frames \cup {None}]
      /\ pool.queue \in [QueueTypes -> Seq(SlotIds)]
      /\ pool.info_changed \in BOOLEAN
      /\ Slots(pool) = SlotIds
  <2>1. pool.on_used \subseteq SlotIds /\ pool.not_ready \subseteq SlotIds
    BY <1>0, PoolFields
  <2>2. pool.codec_use \subseteq SlotIds /\ pool.hal_output \subseteq SlotIds
    BY <1>0, PoolFields
  <2>3. pool.hal_use \in [SlotIds -> 0 .. 255]
    BY <1>0, PoolFields
  <2>4. pool.queue_use \in [SlotIds -> 0 .. 31]
    BY <1>0, PoolFields
  <2>5. pool.frame \in [SlotIds -> Frames \cup {None}]
    BY <1>0, PoolFields
  <2>6. pool.queue \in [QueueTypes -> Seq(SlotIds)]
    BY <1>0, PoolFields
  <2>7. pool.info_changed \in BOOLEAN /\ Slots(pool) = SlotIds
    BY <1>0, PoolFields
  <2> QED BY <2>1, <2>2, <2>3, <2>4, <2>5, <2>6, <2>7
<1>2. pool.queue["QUEUE_DISPLAY"] \in Seq(SlotIds)
  BY <1>1 DEF QueueTypes
<1>3. InQueue \subseteq SlotIds
  BY <1>2 DEF InQueue, ToSet
<1> QED BY <1>1, <1>2, <1>3

(* The owners are finitely many, less than the hal_use counter can count. *)
LEMMA OwnersFinite ==
    /\ IsFiniteSet(Owners) /\ Cardinality(Owners) < 256
    /\ \A i : /\ IsFiniteSet(HalUses(i)) /\ Cardinality(HalUses(i)) \in Nat
              /\ (Cardinality(HalUses(i)) = 0) <=> (HalUses(i) = {})
              /\ Cardinality(HalUses(i)) <= Cardinality(Owners)
              /\ HalUses(i) # Owners => Cardinality(HalUses(i)) < Cardinality(Owners)
<1>1. IsFiniteSet(Owners) /\ Cardinality(Owners) = Cardinality(Tasks) + 1
  BY TasksAssumption, FS_AddElement DEF Owners
<1>2. Cardinality(Owners) < 256 /\ Cardinality(Owners) \in Nat
  BY <1>1, TasksAssumption, FS_CardinalityType DEF HalUseRange
<1>3. ASSUME NEW i
      PROVE  /\ IsFiniteSet(HalUses(i)) /\ Cardinality(HalUses(i)) \in Nat
             /\ (Cardinality(HalUses(i)) = 0) <=> (HalUses(i) = {})
             /\ Cardinality(HalUses(i)) <= Cardinality(Owners)
             /\ HalUses(i) # Owners => Cardinality(HalUses(i)) < Cardinality(Owners)
  <2>1. HalUses(i) \in SUBSET Owners
    BY DEF HalUses
  <2>2. /\ IsFiniteSet(HalUses(i)) /\ Cardinality(HalUses(i)) <= Cardinality(Owners)
        /\ Cardinality(Owners) = Cardinality(HalUses(i)) => Owners = HalUses(i)
    BY <1>1, <2>1, FS_Subset
  <2>3. /\ Cardinality(HalUses(i)) \in Nat
        /\ (Cardinality(HalUses(i)) = 0) <=> (HalUses(i) = {})
    BY <2>2, FS_CardinalityType, FS_EmptySet
  <2> QED BY <1>2, <2>2, <2>3
<1> QED BY <1>1, <1>2, <1>3

(* The claims on a slot, one by one. *)
LEMMA HeldMember ==
    \A i : i \in Held <=>
              /\ i # NoSlot
              /\ \/ \E o \in Owners : i = out[o]
                 \/ \E o \in Owners : i \in refer[o]
                 \/ i \in dpb \/ i \in InQueue \/ i = mark \/ i = disp
BY DEF Held

(* The slots that are on_used are those somebody has a claim on. *)
LEMMA UsedIsHeld ==
    ASSUME TypeOK, UsedOK(pool), MarksInv
    PROVE  pool.on_used = Held
<1>1. /\ pool.on_used \subseteq SlotIds /\ Slots(pool) = SlotIds /\ InQueue \subseteq SlotIds
  BY PoolOfSlots
<1>2. Held \subseteq SlotIds
  <2>1. \A o \in Owners : out[o] \in SlotOrNone /\ refer[o] \subseteq SlotIds
    BY DEF TypeOK
  <2>2. dpb \subseteq SlotIds /\ mark \in SlotOrNone /\ disp \in SlotOrNone
    BY DEF TypeOK
  <2> QED BY <1>1, <2>1, <2>2, HeldMember DEF SlotOrNone
<1>3. NoSlot \notin SlotIds
  BY DEF NoSlot, SlotIds
<1>4. ASSUME NEW i \in SlotIds
      PROVE  Idle(pool, i) <=> i \notin Held
  <2>1. (pool.hal_use[i] = 0) <=> (\A o \in Owners : i \notin refer[o])
    <3>1. pool.hal_use[i] = Cardinality(HalUses(i))
      BY DEF MarksInv
    <3>2. (pool.hal_use[i] = 0) <=> (HalUses(i) = {})
      BY <3>1, OwnersFinite
    <3> QED BY <3>2 DEF HalUses
  <2>2. (pool.queue_use[i] = 0) <=> (i \notin InQueue /\ i # mark /\ i # disp)
    BY DEF MarksInv, QueueUses
  <2>3. (i \notin pool.not_ready) <=> (\A o \in Owners : i # out[o])
    BY <1>3 DEF MarksInv, Awaited
  <2>4. i \notin pool.not_ready => i \notin pool.hal_output
    BY DEF MarksInv
  <2>5. (i \notin pool.codec_use) <=> (i \notin dpb)
    BY DEF MarksInv
  <2>6. Idle(pool, i) <=> /\ \A o \in Owners : i # out[o]
                          /\ \A o \in Owners : i \notin refer[o]
                          /\ i \notin dpb /\ i \notin InQueue /\ i # mark /\ i # disp
    BY <2>1, <2>2, <2>3, <2>4, <2>5 DEF Idle
  <2> QED BY <1>3, <2>6, HeldMember
<1> QED BY <1>1, <1>2, <1>4 DEF UsedOK
-----------------------------------------------------------------------------
(* What each action does to the pool. *)

(* A pool whose accounts are right and that dumped nothing. *)
Sound(q) == q \in Pools /\ UsedOK(q) /\ CountOK(q) /\ ~q.dumped

(* The prepared task is one of the owners, and somebody has each slot that *)
(* an action marks or clears.                                              *)
LEMMA InHands ==
    ASSUME IInv
    PROVE  /\ Sound(pool) /\ pool.on_used = Held
           /\ pool \in PoolType(SlotIds, Frames, Infos \cup {None})
           /\ hnd # None => hnd \in Tasks
           /\ Preparing => /\ hnd \in Tasks /\ hnd \in Owners /\ hnd # Hal
                           /\ out[hnd] \in SlotIds /\ out[hnd] \in pool.on_used
                           /\ out[hnd] \in pool.not_ready
           /\ dpb \subseteq pool.on_used /\ dpb \subseteq SlotIds
           /\ InQueue \subseteq pool.on_used
           /\ mark # NoSlot => mark \in SlotIds /\ mark \in pool.on_used
           /\ disp # NoSlot => disp \in SlotIds /\ disp \in pool.on_used
           /\ \A o \in Owners : /\ refer[o] \subseteq pool.on_used
                                /\ out[o] # NoSlot => /\ out[o] \in SlotIds
                                                      /\ out[o] \in pool.on_used
                                                      /\ out[o] \in pool.not_ready
           /\ NoSlot \notin SlotIds
<1>1. TypeOK /\ TasksInv /\ MarksInv /\ Sound(pool)
  BY DEF IInv, Sound, TypeOK
<1>2. pool.on_used = Held
  BY <1>1, UsedIsHeld DEF IInv
<1>3. NoSlot \notin SlotIds
  BY DEF NoSlot, SlotIds
<1>4. hnd # None => hnd \in Tasks
  BY <1>1 DEF TypeOK
<1>5. \A o \in Owners : out[o] \in SlotOrNone /\ refer[o] \subseteq SlotIds
  BY <1>1 DEF TypeOK
<1>6. /\ dpb \subseteq SlotIds /\ mark \in SlotOrNone /\ disp \in SlotOrNone
      /\ InQueue \subseteq SlotIds
  BY <1>1, PoolOfSlots DEF TypeOK
<1>7. \A o \in Owners : /\ refer[o] \subseteq pool.on_used
                        /\ out[o] # NoSlot => /\ out[o] \in SlotIds
                                              /\ out[o] \in pool.on_used
                                              /\ out[o] \in pool.not_ready
  <2> SUFFICES ASSUME NEW o \in Owners
               PROVE  /\ refer[o] \subseteq pool.on_used
                      /\ out[o] # NoSlot => /\ out[o] \in SlotIds
                                            /\ out[o] \in pool.on_used
                                            /\ out[o] \in pool.not_ready
    OBVIOUS
  <2>1. refer[o] \subseteq pool.on_used
    BY <1>2, <1>3, <1>5, HeldMember
  <2>2. ASSUME out[o] # NoSlot PROVE out[o] \in SlotIds /\ out[o] \in pool.on_used
    BY <1>2, <1>5, <2>2, HeldMember DEF SlotOrNone
  <2>3. ASSUME out[o] # NoSlot PROVE out[o] \in pool.not_ready
    BY <1>1, <2>3 DEF MarksInv, Awaited
  <2> QED BY <2>1, <2>2, <2>3
<1>8. dpb \subseteq pool.on_used /\ InQueue \subseteq pool.on_used
  BY <1>2, <1>3, <1>6, HeldMember
<1>9. /\ mark # NoSlot => mark \in SlotIds /\ mark \in pool.on_used
      /\ disp # NoSlot => disp \in SlotIds /\ disp \in pool.on_used
  BY <1>2, <1>6, HeldMember DEF SlotOrNone
<1>10. ASSUME Preparing
       PROVE  /\ hnd \in Tasks /\ hnd \in Owners /\ hnd # Hal
              /\ out[hnd] \in SlotIds /\ out[hnd] # NoSlot
  <2>1. hnd \in Tasks /\ out[hnd] \in SlotIds
    BY <1>1, <1>4, <1>10 DEF TasksInv, Preparing
  <2> QED BY <1>3, <2>1, TasksAssumption DEF Owners
<1>11. pool \in PoolType(SlotIds, Frames, Infos \cup {None})
  BY <1>1 DEF Sound, Pools
<1> QED BY <1>1, <1>2, <1>3, <1>4, <1>6, <1>7, <1>8, <1>9, <1>10, <1>11

(* mpp_buf_slot_get_unused. *)
LEMMA PoolGetSlot ==
    ASSUME IInv, UnusedCount(pool) # 0, pool' = GetUnused(pool)
    PROVE  /\ Sound(pool')
           /\ FirstUnused(pool) \in SlotIds /\ FirstUnused(pool) \notin pool.on_used
           /\ pool'.on_used = pool.on_used \cup {FirstUnused(pool)}
           /\ pool'.not_ready = pool.not_ready \cup {FirstUnused(pool)}
           /\ pool'.codec_use = pool.codec_use /\ pool'.hal_output = pool.hal_output
           /\ pool'.hal_use = pool.hal_use /\ pool'.queue_use = pool.queue_use
           /\ pool'.frame = pool.frame /\ pool'.queue = pool.queue
           /\ pool'.dumped = pool.dumped
<1> DEFINE I == Infos \cup {None}
           i == FirstUnused(pool)
<1>1. Sound(pool) /\ pool \in PoolType(0 .. NumSlots - 1, Frames, I) /\ NumSlots \in Nat
  BY InHands, NumSlotsAssumption DEF SlotIds
<1> HIDE DEF I, i
<1>2. FreeSlots(pool) # {}
  BY <1>1, UnusedCountFacts DEF Sound
<1>3. /\ pool' \in PoolType(0 .. NumSlots - 1, Frames, I)
      /\ i \in 0 .. NumSlots - 1 /\ i \notin pool.on_used
      /\ pool'.on_used = pool.on_used \cup {i} /\ pool'.not_ready = pool.not_ready \cup {i}
      /\ OnlyChanges(pool, pool', {"on_used", "not_ready", "used_count"})
      /\ Accounted(pool, pool')
  <2>1. i = FirstUnused(pool)
    BY DEF i
  <2> QED BY <1>1, <1>2, <2>1, GetUnusedFacts
<1>4. /\ pool'.codec_use = pool.codec_use /\ pool'.hal_output = pool.hal_output
      /\ pool'.hal_use = pool.hal_use /\ pool'.queue_use = pool.queue_use
      /\ pool'.frame = pool.frame /\ pool'.queue = pool.queue
      /\ pool'.dumped = pool.dumped
  BY <1>3 DEF OnlyChanges, Fields
<1>5. Sound(pool')
  BY <1>1, <1>3, <1>4 DEF Sound, Pools, SlotIds, Accounted, I
<1> QED BY <1>3, <1>4, <1>5 DEF SlotIds, i

(* mpp_buf_slot_set_flag(SLOT_HAL_OUTPUT). *)
LEMMA PoolSetOutput ==
    ASSUME IInv, Preparing,
           pool' = SetFlag(pool, out[hnd], "HAL_OUTPUT")
    PROVE  /\ Sound(pool')
           /\ pool'.hal_output = pool.hal_output \cup {out[hnd]}
           /\ pool'.not_ready = pool.not_ready \cup {out[hnd]}
           /\ pool'.on_used = pool.on_used /\ pool'.codec_use = pool.codec_use
           /\ pool'.hal_use = pool.hal_use /\ pool'.queue_use = pool.queue_use
           /\ pool'.frame = pool.frame /\ pool'.queue = pool.queue
           /\ pool'.dumped = pool.dumped
<1> DEFINE I == Infos \cup {None}
<1>1. Sound(pool) /\ pool \in PoolType(SlotIds, Frames, I)
  BY InHands
<1> HIDE DEF I
<1>2. out[hnd] \in SlotIds /\ out[hnd] \in pool.on_used
  BY InHands
<1>3. /\ pool' \in PoolType(SlotIds, Frames, I)
      /\ pool'.hal_output = pool.hal_output \cup {out[hnd]}
      /\ pool'.not_ready = pool.not_ready \cup {out[hnd]}
      /\ OnlyChanges(pool, pool', {"hal_output", "not_ready"})
      /\ Accounted(pool, pool')
  BY <1>1, <1>2, SetHalOutput
<1>4. /\ pool'.on_used = pool.on_used /\ pool'.codec_use = pool.codec_use
      /\ pool'.hal_use = pool.hal_use /\ pool'.queue_use = pool.queue_use
      /\ pool'.frame = pool.frame /\ pool'.queue = pool.queue
      /\ pool'.dumped = pool.dumped
  BY <1>3 DEF OnlyChanges, Fields, UsageFields
<1>5. Sound(pool')
  BY <1>1, <1>3, <1>4 DEF Sound, Pools, Accounted, I
<1> QED BY <1>3, <1>4, <1>5

(* mpp_buf_slot_set_prop(SLOT_FRAME). *)
LEMMA PoolSetFrame ==
    ASSUME NEW f \in Frames, IInv, Preparing,
           pool' = SetFrame(pool, out[hnd], f)
    PROVE  /\ Sound(pool')
           /\ pool'.frame = [pool.frame EXCEPT ![out[hnd]] = f]
           /\ pool'.on_used = pool.on_used /\ pool'.not_ready = pool.not_ready
           /\ pool'.codec_use = pool.codec_use /\ pool'.hal_output = pool.hal_output
           /\ pool'.hal_use = pool.hal_use /\ pool'.queue_use = pool.queue_use
           /\ pool'.queue = pool.queue /\ pool'.dumped = pool.dumped
<1> DEFINE I == Infos \cup {None}
<1>1. Sound(pool) /\ pool \in PoolType(SlotIds, Frames, I)
  BY InHands
<1> HIDE DEF I
<1>2. /\ out[hnd] \in SlotIds /\ out[hnd] \in pool.not_ready
      /\ f.info \in I
  BY InHands DEF Frames, I
<1>3. /\ pool' \in PoolType(SlotIds, Frames, I)
      /\ pool'.frame = [pool.frame EXCEPT ![out[hnd]] = f]
      /\ OnlyChanges(pool, pool', {"frame", "info_set", "info_changed"})
      /\ Accounted(pool, pool')
  BY <1>1, <1>2, SetFrameFacts
<1>4. /\ pool'.on_used = pool.on_used /\ pool'.not_ready = pool.not_ready
      /\ pool'.codec_use = pool.codec_use /\ pool'.hal_output = pool.hal_output
      /\ pool'.hal_use = pool.hal_use /\ pool'.queue_use = pool.queue_use
      /\ pool'.queue = pool.queue /\ pool'.dumped = pool.dumped
  BY <1>3 DEF OnlyChanges, Fields, UsageFields
<1>5. Sound(pool')
  BY <1>1, <1>3, <1>4 DEF Sound, Pools, Accounted, I
<1> QED BY <1>3, <1>4, <1>5

(* mpp_buf_slot_set_flag(SLOT_CODEC_USE). *)
LEMMA PoolKeep ==
    ASSUME IInv, Preparing,
           pool' = SetFlag(pool, out[hnd], "CODEC_USE")
    PROVE  /\ Sound(pool')
           /\ pool'.codec_use = pool.codec_use \cup {out[hnd]}
           /\ pool'.on_used = pool.on_used /\ pool'.not_ready = pool.not_ready
           /\ pool'.hal_output = pool.hal_output /\ pool'.hal_use = pool.hal_use
           /\ pool'.queue_use = pool.queue_use /\ pool'.frame = pool.frame
           /\ pool'.queue = pool.queue /\ pool'.dumped = pool.dumped
<1> DEFINE I == Infos \cup {None}
<1>1. Sound(pool) /\ pool \in PoolType(SlotIds, Frames, I)
  BY InHands
<1> HIDE DEF I
<1>2. out[hnd] \in SlotIds /\ out[hnd] \in pool.on_used
  BY InHands
<1>3. /\ pool' \in PoolType(SlotIds, Frames, I)
      /\ pool'.codec_use = pool.codec_use \cup {out[hnd]}
      /\ OnlyChanges(pool, pool', {"codec_use"})
      /\ Accounted(pool, pool')
  BY <1>1, <1>2, SetCodecUse
<1>4. /\ pool'.on_used = pool.on_used /\ pool'.not_ready = pool.not_ready
      /\ pool'.hal_output = pool.hal_output /\ pool'.hal_use = pool.hal_use
      /\ pool'.queue_use = pool.queue_use /\ pool'.frame = pool.frame
      /\ pool'.queue = pool.queue /\ pool'.dumped = pool.dumped
  BY <1>3 DEF OnlyChanges, Fields, UsageFields
<1>5. Sound(pool')
  BY <1>1, <1>3, <1>4 DEF Sound, Pools, Accounted, I
<1> QED BY <1>3, <1>4, <1>5

(* mpp_buf_slot_set_flag(SLOT_HAL_INPUT). *)
LEMMA PoolSetRefer ==
    ASSUME NEW i \in dpb \ refer[hnd], IInv, Preparing,
           pool' = SetFlag(pool, i, "HAL_INPUT")
    PROVE  /\ Sound(pool')
           /\ pool'.hal_use = [pool.hal_use EXCEPT ![i] = pool.hal_use[i] + 1]
           /\ pool'.on_used = pool.on_used /\ pool'.not_ready = pool.not_ready
           /\ pool'.codec_use = pool.codec_use /\ pool'.hal_output = pool.hal_output
           /\ pool'.queue_use = pool.queue_use /\ pool'.frame = pool.frame
           /\ pool'.queue = pool.queue /\ pool'.dumped = pool.dumped
<1> DEFINE I == Infos \cup {None}
<1>1. Sound(pool) /\ pool \in PoolType(SlotIds, Frames, I)
  BY InHands
<1> HIDE DEF I
<1>2. /\ i \in SlotIds /\ i \in pool.on_used
      /\ pool.hal_use[i] + 1 < HalUseRange
  <2>1. i \in SlotIds /\ i \in pool.on_used /\ hnd \in Owners
    BY InHands
  <2>2. HalUses(i) # Owners
    BY <2>1 DEF HalUses
  <2>3. pool.hal_use[i] = Cardinality(HalUses(i))
    BY <2>1 DEF IInv, MarksInv
  <2>4. /\ Cardinality(HalUses(i)) \in Nat /\ Cardinality(Owners) \in Nat
        /\ Cardinality(HalUses(i)) < Cardinality(Owners) /\ Cardinality(Owners) < 256
    BY <2>2, OwnersFinite, FS_CardinalityType
  <2>5. pool.hal_use[i] + 1 < 256
    BY <2>3, <2>4
  <2> QED BY <2>1, <2>5 DEF HalUseRange
<1>3. /\ pool' \in PoolType(SlotIds, Frames, I)
      /\ pool'.hal_use = [pool.hal_use EXCEPT ![i] = pool.hal_use[i] + 1]
      /\ OnlyChanges(pool, pool', {"hal_use"})
      /\ Accounted(pool, pool')
  BY <1>1, <1>2, SetHalInput
<1>4. /\ pool'.on_used = pool.on_used /\ pool'.not_ready = pool.not_ready
      /\ pool'.codec_use = pool.codec_use /\ pool'.hal_output = pool.hal_output
      /\ pool'.queue_use = pool.queue_use /\ pool'.frame = pool.frame
      /\ pool'.queue = pool.queue /\ pool'.dumped = pool.dumped
  BY <1>3 DEF OnlyChanges, Fields, UsageFields
<1>5. Sound(pool')
  BY <1>1, <1>3, <1>4 DEF Sound, Pools, Accounted, I
<1> QED BY <1>3, <1>4, <1>5

(* mpp_buf_slot_set_flag(SLOT_QUEUE_USE). *)
LEMMA PoolSetQueueUse ==
    ASSUME NEW i \in SlotIds, IInv, i \in pool.on_used, pool.queue_use[i] = 0,
           pool' = SetFlag(pool, i, "QUEUE_USE")
    PROVE  /\ Sound(pool')
           /\ pool'.queue_use = [pool.queue_use EXCEPT ![i] = 1]
           /\ pool'.on_used = pool.on_used /\ pool'.not_ready = pool.not_ready
           /\ pool'.codec_use = pool.codec_use /\ pool'.hal_output = pool.hal_output
           /\ pool'.hal_use = pool.hal_use /\ pool'.frame = pool.frame
           /\ pool'.queue = pool.queue /\ pool'.dumped = pool.dumped
<1> DEFINE I == Infos \cup {None}
<1>1. Sound(pool) /\ pool \in PoolType(SlotIds, Frames, I)
  BY InHands
<1> HIDE DEF I
<1>2. /\ pool.queue_use[i] + 1 < QueueUseRange /\ pool.queue_use[i] + 1 = 1
      /\ pool' = IncQueueUse(pool, i)
  BY DEF QueueUseRange, SetFlag
<1>3. /\ pool' \in PoolType(SlotIds, Frames, I)
      /\ pool'.queue_use = [pool.queue_use EXCEPT ![i] = 1]
      /\ OnlyChanges(pool, pool', {"queue_use"})
      /\ Accounted(pool, pool')
  BY <1>1, <1>2, IncQueueUseFacts
<1>4. /\ pool'.on_used = pool.on_used /\ pool'.not_ready = pool.not_ready
      /\ pool'.codec_use = pool.codec_use /\ pool'.hal_output = pool.hal_output
      /\ pool'.hal_use = pool.hal_use /\ pool'.frame = pool.frame
      /\ pool'.queue = pool.queue /\ pool'.dumped = pool.dumped
  BY <1>3 DEF OnlyChanges, Fields, UsageFields
<1>5. Sound(pool')
  BY <1>1, <1>3, <1>4 DEF Sound, Pools, Accounted, I
<1> QED BY <1>3, <1>4, <1>5

(* mpp_buf_slot_enqueue(QUEUE_DISPLAY). *)
LEMMA PoolEnqueue ==
    ASSUME IInv, mark # NoSlot, pool.queue_use[mark] = 1,
           pool' = Enqueue(pool, mark, "QUEUE_DISPLAY")
    PROVE  /\ Sound(pool')
           /\ pool'.queue_use = [pool.queue_use EXCEPT ![mark] = 2]
           /\ pool'.queue = [pool.queue EXCEPT !["QUEUE_DISPLAY"] =
                                Append(pool.queue["QUEUE_DISPLAY"], mark)]
           /\ pool'.on_used = pool.on_used /\ pool'.not_ready = pool.not_ready
           /\ pool'.codec_use = pool.codec_use /\ pool'.hal_output = pool.hal_output
           /\ pool'.hal_use = pool.hal_use /\ pool'.frame = pool.frame
           /\ pool'.dumped = pool.dumped
<1> DEFINE I == Infos \cup {None}
<1>1. Sound(pool) /\ pool \in PoolType(SlotIds, Frames, I)
  BY InHands
<1> HIDE DEF I
<1>2. /\ mark \in SlotIds /\ mark \in pool.on_used
      /\ pool.queue_use[mark] + 1 < QueueUseRange /\ pool.queue_use[mark] + 1 = 2
      /\ "QUEUE_DISPLAY" \in QueueTypes
      /\ \A u \in QueueTypes : mark \notin ToSet(pool.queue[u])
  <2>1. mark \in SlotIds /\ mark \in pool.on_used
    BY InHands
  <2>2. pool.queue["QUEUE_DEINTERLACE"] = <<>> /\ mark \notin InQueue
    BY DEF IInv, DisplayInv
  <2>3. ToSet(pool.queue["QUEUE_DEINTERLACE"]) = {}
    BY <2>2 DEF ToSet
  <2> QED BY <2>1, <2>2, <2>3 DEF QueueUseRange, QueueTypes, InQueue
<1>3. /\ pool' \in PoolType(SlotIds, Frames, I)
      /\ pool'.queue_use = [pool.queue_use EXCEPT ![mark] = 2]
      /\ pool'.queue = [pool.queue EXCEPT !["QUEUE_DISPLAY"] =
                                Append(pool.queue["QUEUE_DISPLAY"], mark)]
      /\ OnlyChanges(pool, pool', {"queue_use", "queue"})
      /\ Accounted(pool, pool')
  BY <1>1, <1>2, EnqueueFacts
<1>4. /\ pool'.on_used = pool.on_used /\ pool'.not_ready = pool.not_ready
      /\ pool'.codec_use = pool.codec_use /\ pool'.hal_output = pool.hal_output
      /\ pool'.hal_use = pool.hal_use /\ pool'.frame = pool.frame
      /\ pool'.dumped = pool.dumped
  BY <1>3 DEF OnlyChanges, Fields, UsageFields
<1>5. Sound(pool')
  BY <1>1, <1>3, <1>4 DEF Sound, Pools, Accounted, I
<1> QED BY <1>3, <1>4, <1>5

(* mpp_buf_slot_clr_flag(SLOT_CODEC_USE). *)
LEMMA PoolDropRefer ==
    ASSUME NEW i \in dpb, IInv, pool' = ClrFlag(pool, i, "CODEC_USE")
    PROVE  /\ Sound(pool')
           /\ pool'.codec_use = pool.codec_use \ {i}
           /\ AtMostLeaves(pool, pool', i)
           /\ pool'.not_ready = pool.not_ready /\ pool'.hal_output = pool.hal_output
           /\ pool'.hal_use = pool.hal_use /\ pool'.queue_use = pool.queue_use
           /\ pool'.queue = pool.queue /\ pool'.dumped = pool.dumped
<1> DEFINE I == Infos \cup {None}
<1>1. Sound(pool) /\ pool \in PoolType(SlotIds, Frames, I)
  BY InHands
<1> HIDE DEF I
<1>2. i \in SlotIds /\ i \in pool.on_used
  BY InHands
<1>3. /\ pool' \in PoolType(SlotIds, Frames, I)
      /\ pool'.codec_use = pool.codec_use \ {i}
      /\ AtMostLeaves(pool, pool', i)
      /\ OnlyChanges(pool, pool', {"codec_use"} \cup UsageFields)
      /\ Accounted(pool, pool')
  <2>1. pool' \in PoolType(SlotIds, Frames, I)
    BY <1>1, <1>2, ClrCodecUse
  <2>2. pool'.codec_use = pool.codec_use \ {i}
    BY <1>1, <1>2, ClrCodecUse
  <2>3. AtMostLeaves(pool, pool', i)
    BY <1>1, <1>2, ClrCodecUse
  <2>4. OnlyChanges(pool, pool', {"codec_use"} \cup UsageFields)
    BY <1>1, <1>2, ClrCodecUse
  <2>5. Accounted(pool, pool')
    BY <1>1, <1>2, ClrCodecUse
  <2> QED BY <2>1, <2>2, <2>3, <2>4, <2>5
<1>4. /\ pool'.not_ready = pool.not_ready /\ pool'.hal_output = pool.hal_output
      /\ pool'.hal_use = pool.hal_use /\ pool'.queue_use = pool.queue_use
      /\ pool'.queue = pool.queue /\ pool'.dumped = pool.dumped
  BY <1>3 DEF OnlyChanges, Fields, UsageFields
<1>5. Sound(pool')
  BY <1>1, <1>3, <1>4 DEF Sound, Pools, Accounted, I
<1> QED BY <1>3, <1>4, <1>5

(* mpp_buf_slot_ready. *)
LEMMA PoolReady ==
    ASSUME IInv, pool' = Ready(pool)
    PROVE  /\ Sound(pool')
           /\ pool'.on_used = pool.on_used /\ pool'.not_ready = pool.not_ready
           /\ pool'.codec_use = pool.codec_use /\ pool'.hal_output = pool.hal_output
           /\ pool'.hal_use = pool.hal_use /\ pool'.queue_use = pool.queue_use
           /\ pool'.frame = pool.frame /\ pool'.queue = pool.queue
           /\ pool'.dumped = pool.dumped
<1> DEFINE I == Infos \cup {None}
<1>1. Sound(pool) /\ pool \in PoolType(SlotIds, Frames, I)
  BY InHands
<1> HIDE DEF I
<1>3. /\ pool' \in PoolType(SlotIds, Frames, I)
      /\ OnlyChanges(pool, pool', {"info", "info_changed"})
      /\ Accounted(pool, pool')
  BY <1>1, ReadyFacts
<1>4. /\ pool'.on_used = pool.on_used /\ pool'.not_ready = pool.not_ready
      /\ pool'.codec_use = pool.codec_use /\ pool'.hal_output = pool.hal_output
      /\ pool'.hal_use = pool.hal_use /\ pool'.queue_use = pool.queue_use
      /\ pool'.frame = pool.frame /\ pool'.queue = pool.queue
      /\ pool'.dumped = pool.dumped
  BY <1>3 DEF OnlyChanges, Fields, UsageFields
<1>5. Sound(pool')
  BY <1>1, <1>3, <1>4 DEF Sound, Pools, Accounted, I
<1> QED BY <1>3, <1>4, <1>5

(* mpp_buf_slot_clr_flag(SLOT_HAL_OUTPUT). *)
LEMMA PoolClrOutput ==
    ASSUME IInv, out[Hal] # NoSlot,
           pool' = ClrFlag(pool, out[Hal], "HAL_OUTPUT")
    PROVE  /\ Sound(pool')
           /\ pool'.hal_output = pool.hal_output \ {out[Hal]}
           /\ pool'.not_ready = pool.not_ready \ {out[Hal]}
           /\ AtMostLeaves(pool, pool', out[Hal])
           /\ pool'.codec_use = pool.codec_use /\ pool'.hal_use = pool.hal_use
           /\ pool'.queue_use = pool.queue_use /\ pool'.queue = pool.queue
           /\ pool'.dumped = pool.dumped
<1> DEFINE I == Infos \cup {None}
<1>1. Sound(pool) /\ pool \in PoolType(SlotIds, Frames, I)
  BY InHands
<1> HIDE DEF I
<1>2. out[Hal] \in SlotIds /\ out[Hal] \in pool.on_used
  BY InHands DEF Owners
<1>3. /\ pool' \in PoolType(SlotIds, Frames, I)
      /\ pool'.hal_output = pool.hal_output \ {out[Hal]}
      /\ pool'.not_ready = pool.not_ready \ {out[Hal]}
      /\ AtMostLeaves(pool, pool', out[Hal])
      /\ OnlyChanges(pool, pool', {"hal_output", "not_ready"} \cup UsageFields)
      /\ Accounted(pool, pool')
  <2>1. pool' \in PoolType(SlotIds, Frames, I)
    BY <1>1, <1>2, ClrHalOutput
  <2>2. pool'.hal_output = pool.hal_output \ {out[Hal]}
    BY <1>1, <1>2, ClrHalOutput
  <2>3. pool'.not_ready = pool.not_ready \ {out[Hal]}
    BY <1>1, <1>2, ClrHalOutput
  <2>4. AtMostLeaves(pool, pool', out[Hal])
    BY <1>1, <1>2, ClrHalOutput
  <2>5. OnlyChanges(pool, pool', {"hal_output", "not_ready"} \cup UsageFields)
    <3> DEFINE D == {"hal_output", "not_ready"} \cup UsageFields
    <3>1. \A q : q = ClrFlag(pool, out[Hal], "HAL_OUTPUT") => OnlyChanges(pool, q, D)
      BY <1>1, <1>2, ClrHalOutput
    <3> HIDE DEF D
    <3>2. OnlyChanges(pool, pool', D)
      BY <1>2, <3>1
    <3> QED BY <3>2 DEF D
  <2>6. Accounted(pool, pool')
    BY <1>1, <1>2, ClrHalOutput
  <2> QED BY <2>1, <2>2, <2>3, <2>4, <2>5, <2>6
<1>4. /\ pool'.codec_use = pool.codec_use /\ pool'.hal_use = pool.hal_use
      /\ pool'.queue_use = pool.queue_use /\ pool'.queue = pool.queue
      /\ pool'.dumped = pool.dumped
  BY <1>3 DEF OnlyChanges, Fields, UsageFields
<1>5. Sound(pool')
  BY <1>1, <1>3, <1>4 DEF Sound, Pools, Accounted, I
<1> QED BY <1>3, <1>4, <1>5

(* mpp_buf_slot_clr_flag(SLOT_HAL_INPUT). *)
LEMMA PoolClrRefer ==
    ASSUME NEW i \in refer[Hal], IInv, pool' = ClrFlag(pool, i, "HAL_INPUT")
    PROVE  /\ Sound(pool')
           /\ pool'.hal_use = [pool.hal_use EXCEPT ![i] = pool.hal_use[i] - 1]
           /\ AtMostLeaves(pool, pool', i)
           /\ pool'.not_ready = pool.not_ready /\ pool'.codec_use = pool.codec_use
           /\ pool'.hal_output = pool.hal_output /\ pool'.queue_use = pool.queue_use
           /\ pool'.queue = pool.queue /\ pool'.dumped = pool.dumped
<1> DEFINE I == Infos \cup {None}
<1>1. Sound(pool) /\ pool \in PoolType(SlotIds, Frames, I)
  BY InHands
<1> HIDE DEF I
<1>2. i \in SlotIds /\ i \in pool.on_used /\ pool.hal_use[i] > 0
  <2>1. i \in pool.on_used /\ i \in SlotIds
    <3>1. Hal \in Owners
      BY DEF Owners
    <3>2. refer[Hal] \subseteq SlotIds
      BY <3>1 DEF IInv, TypeOK
    <3> QED BY <3>1, <3>2, InHands
  <2>2. pool.hal_use[i] = Cardinality(HalUses(i)) /\ HalUses(i) # {}
    BY <2>1 DEF IInv, MarksInv, HalUses, Owners
  <2>3. Cardinality(HalUses(i)) \in Nat /\ Cardinality(HalUses(i)) # 0
    BY <2>2, OwnersFinite
  <2> QED BY <2>1, <2>2, <2>3
<1>3. /\ pool' \in PoolType(SlotIds, Frames, I)
      /\ pool'.hal_use = [pool.hal_use EXCEPT ![i] = pool.hal_use[i] - 1]
      /\ AtMostLeaves(pool, pool', i)
      /\ OnlyChanges(pool, pool', {"hal_use"} \cup UsageFields)
      /\ Accounted(pool, pool')
  <2>1. pool' \in PoolType(SlotIds, Frames, I)
    BY <1>1, <1>2, ClrHalInput
  <2>2. pool'.hal_use = [pool.hal_use EXCEPT ![i] = pool.hal_use[i] - 1]
    BY <1>1, <1>2, ClrHalInput
  <2>3. AtMostLeaves(pool, pool', i)
    BY <1>1, <1>2, ClrHalInput
  <2>4. OnlyChanges(pool, pool', {"hal_use"} \cup UsageFields)
    BY <1>1, <1>2, ClrHalInput
  <2>5. Accounted(pool, pool')
    BY <1>1, <1>2, ClrHalInput
  <2> QED BY <2>1, <2>2, <2>3, <2>4, <2>5
<1>4. /\ pool'.not_ready = pool.not_ready /\ pool'.codec_use = pool.codec_use
      /\ pool'.hal_output = pool.hal_output /\ pool'.queue_use = pool.queue_use
      /\ pool'.queue = pool.queue /\ pool'.dumped = pool.dumped
  BY <1>3 DEF OnlyChanges, Fields, UsageFields
<1>5. Sound(pool')
  BY <1>1, <1>3, <1>4 DEF Sound, Pools, Accounted, I
<1> QED BY <1>3, <1>4, <1>5

(* mpp_buf_slot_dequeue. *)
LEMMA PoolDequeue ==
    ASSUME NEW t \in QueueTypes, NEW i \in InQueue,
           IInv, pool.queue[t] # <<>>, i = Head(pool.queue[t]), pool.queue_use[i] = 2,
           pool' = Dequeue(pool, t)
    PROVE  /\ Sound(pool')
           /\ pool'.queue_use = [pool.queue_use EXCEPT ![i] = 1]
           /\ pool'.queue = [pool.queue EXCEPT ![t] = Tail(pool.queue[t])]
           /\ pool'.on_used = pool.on_used /\ pool'.not_ready = pool.not_ready
           /\ pool'.codec_use = pool.codec_use /\ pool'.hal_output = pool.hal_output
           /\ pool'.hal_use = pool.hal_use /\ pool'.frame = pool.frame
           /\ pool'.dumped = pool.dumped
<1> DEFINE I == Infos \cup {None}
<1>1. Sound(pool) /\ pool \in PoolType(SlotIds, Frames, I)
  BY InHands
<1> HIDE DEF I
<1>2. /\ i \in SlotIds /\ i \in pool.on_used
      /\ pool.queue_use[i] > 1 /\ pool.queue_use[i] - 1 = 1
  BY InHands, PoolOfSlots DEF IInv
<1>3. /\ pool' \in PoolType(SlotIds, Frames, I)
      /\ pool'.queue_use = [pool.queue_use EXCEPT ![i] = 1]
      /\ pool'.queue = [pool.queue EXCEPT ![t] = Tail(pool.queue[t])]
      /\ OnlyChanges(pool, pool', {"queue_use", "queue"})
      /\ Accounted(pool, pool')
  <2>1. pool' \in PoolType(SlotIds, Frames, I)
    BY <1>1, <1>2, DequeueFacts
  <2>2. Unqueued(pool, pool', t, i)
    BY <1>1, <1>2, DequeueFacts
  <2>3. /\ pool'.queue_use = [pool.queue_use EXCEPT ![i] = 1]
        /\ pool'.queue = [pool.queue EXCEPT ![t] = Tail(pool.queue[t])]
    BY <1>2, <2>2 DEF Unqueued
  <2>4. OnlyChanges(pool, pool', {"queue_use", "queue"})
    BY <1>1, <1>2, DequeueFacts
  <2>5. Accounted(pool, pool')
    BY <1>1, <1>2, DequeueFacts
  <2> QED BY <2>1, <2>3, <2>4, <2>5
<1>4. /\ pool'.on_used = pool.on_used /\ pool'.not_ready = pool.not_ready
      /\ pool'.codec_use = pool.codec_use /\ pool'.hal_output = pool.hal_output
      /\ pool'.hal_use = pool.hal_use /\ pool'.frame = pool.frame
      /\ pool'.dumped = pool.dumped
  BY <1>3 DEF OnlyChanges, Fields, UsageFields
<1>5. Sound(pool')
  BY <1>1, <1>3, <1>4 DEF Sound, Pools, Accounted, I
<1> QED BY <1>3, <1>4, <1>5

(* mpp_buf_slot_clr_flag(SLOT_QUEUE_USE). *)
LEMMA PoolClrQueueUse ==
    ASSUME IInv, disp # NoSlot, pool.queue_use[disp] = 1,
           pool' = ClrFlag(pool, disp, "QUEUE_USE")
    PROVE  /\ Sound(pool')
           /\ pool'.queue_use = [pool.queue_use EXCEPT ![disp] = 0]
           /\ AtMostLeaves(pool, pool', disp)
           /\ pool'.not_ready = pool.not_ready /\ pool'.codec_use = pool.codec_use
           /\ pool'.hal_output = pool.hal_output /\ pool'.hal_use = pool.hal_use
           /\ pool'.queue = pool.queue /\ pool'.dumped = pool.dumped
<1> DEFINE I == Infos \cup {None}
<1>1. Sound(pool) /\ pool \in PoolType(SlotIds, Frames, I)
  BY InHands
<1> HIDE DEF I
<1>2. /\ disp \in SlotIds /\ disp \in pool.on_used
      /\ pool.queue_use[disp] > 0 /\ pool.queue_use[disp] - 1 = 0
  BY InHands
<1>3. /\ pool' \in PoolType(SlotIds, Frames, I)
      /\ pool'.queue_use = [pool.queue_use EXCEPT ![disp] = 0]
      /\ AtMostLeaves(pool, pool', disp)
      /\ OnlyChanges(pool, pool', {"queue_use"} \cup UsageFields)
      /\ Accounted(pool, pool')
  <2>1. pool' \in PoolType(SlotIds, Frames, I)
    BY <1>1, <1>2, ClrQueueUse
  <2>2. pool'.queue_use = [pool.queue_use EXCEPT ![disp] = 0]
    BY <1>1, <1>2, ClrQueueUse
  <2>3. AtMostLeaves(pool, pool', disp)
    BY <1>1, <1>2, ClrQueueUse
  <2>4. OnlyChanges(pool, pool', {"queue_use"} \cup UsageFields)
    BY <1>1, <1>2, ClrQueueUse
  <2>5. Accounted(pool, pool')
    BY <1>1, <1>2, ClrQueueUse
  <2> QED BY <2>1, <2>2, <2>3, <2>4, <2>5
<1>4. /\ pool'.not_ready = pool.not_ready /\ pool'.codec_use = pool.codec_use
      /\ pool'.hal_output = pool.hal_output /\ pool'.hal_use = pool.hal_use
      /\ pool'.queue = pool.queue /\ pool'.dumped = pool.dumped
  BY <1>3 DEF OnlyChanges, Fields, UsageFields
<1>5. Sound(pool')
  BY <1>1, <1>3, <1>4 DEF Sound, Pools, Accounted, I
<1> QED BY <1>3, <1>4, <1>5
-----------------------------------------------------------------------------
(* The display marks of the slots the actions deal with. *)
LEMMA QueueMarks ==
    ASSUME IInv
    PROVE  /\ mark # NoSlot => pool.queue_use[mark] = 1
           /\ disp # NoSlot => pool.queue_use[disp] = 1
           /\ \A i \in InQueue : pool.queue_use[i] = 2
           /\ \A i \in Displayable :
                 /\ i \in SlotIds /\ i \in pool.on_used /\ i \notin InQueue /\ i # disp
                 /\ mark = NoSlot => pool.queue_use[i] = 0
           /\ Displayable = InHand \ enqueued
<1>1. /\ NoSlot \notin SlotIds /\ InQueue \subseteq SlotIds
      /\ mark # NoSlot => mark \in SlotIds
      /\ disp # NoSlot => disp \in SlotIds
  BY InHands, PoolOfSlots DEF IInv
<1>2. /\ mark \notin InQueue /\ disp \notin InQueue
      /\ (InQueue \cup {disp}) \cap InHand \subseteq enqueued
      /\ \A i \in SlotIds : pool.queue_use[i] = QueueUses(i)
  BY DEF IInv, DisplayInv, MarksInv
<1>3. /\ mark # NoSlot => pool.queue_use[mark] = 1
      /\ disp # NoSlot => pool.queue_use[disp] = 1
      /\ \A i \in InQueue : pool.queue_use[i] = 2
  BY <1>1, <1>2 DEF QueueUses
<1>4. Displayable = InHand \ enqueued
  BY DEF Displayable, InHand
<1>5. \A i \in InHand : i \in SlotIds /\ i \in pool.on_used
  BY InHands DEF InHand, Preparing
<1>6. ASSUME NEW i \in Displayable
      PROVE  /\ i \in SlotIds /\ i \in pool.on_used /\ i \notin InQueue /\ i # disp
             /\ mark = NoSlot => pool.queue_use[i] = 0
  <2>1. i \in SlotIds /\ i \in pool.on_used /\ i \notin InQueue /\ i # disp
    BY <1>2, <1>4, <1>5, <1>6
  <2>2. mark = NoSlot => pool.queue_use[i] = 0
    BY <1>1, <1>2, <2>1 DEF QueueUses
  <2> QED BY <2>1, <2>2
<1> QED BY <1>3, <1>4, <1>6

(* The head of the display queue. *)
LEMMA QueueHead ==
    ASSUME IInv, pool.queue["QUEUE_DISPLAY"] # <<>>
    PROVE  LET Q == pool.queue["QUEUE_DISPLAY"]
           IN  /\ Head(Q) \in InQueue /\ Head(Q) \in SlotIds
               /\ pool.queue_use[Head(Q)] = 2
               /\ Tail(Q) \in Seq(SlotIds) /\ IsInjective(Tail(Q))
               /\ ToSet(Tail(Q)) = InQueue \ {Head(Q)}
<1> DEFINE Q == pool.queue["QUEUE_DISPLAY"]
<1>1. Q \in Seq(SlotIds) /\ IsInjective(Q) /\ InQueue = ToSet(Q)
  BY PoolOfSlots DEF IInv, DisplayInv, InQueue
<1>2. Q # <<>>
  OBVIOUS
<1> HIDE DEF Q
<1>3. /\ Tail(Q) \in Seq(SlotIds) /\ Head(Q) \in SlotIds /\ Head(Q) \in ToSet(Q)
      /\ ToSet(Tail(Q)) = ToSet(Q) \ {Head(Q)} /\ IsInjective(Tail(Q))
  BY <1>1, <1>2, TailToSet
<1>4. pool.queue_use[Head(Q)] = 2
  BY <1>1, <1>3, QueueMarks
<1> QED BY <1>1, <1>3, <1>4 DEF Q

(* An idle task has no output and no references. *)
LEMMA IdleTask ==
    ASSUME IInv, NEW t \in IdleTasks
    PROVE  /\ t \in Tasks /\ t \in Owners /\ t # Hal /\ t # None
           /\ t # hnd /\ t \notin ToSet(fifo)
           /\ out[t] = NoSlot /\ refer[t] = {}
           /\ [out EXCEPT ![t] = NoSlot] = out
           /\ [refer EXCEPT ![t] = {}] = refer
<1>1. /\ t \in Tasks /\ t \in Owners /\ t # Hal /\ t # None
      /\ t # hnd /\ t \notin ToSet(fifo)
  BY TasksAssumption, NoneAssumption DEF IdleTasks, Owners
<1>2. out[t] = NoSlot /\ refer[t] = {}
  BY <1>1 DEF IInv, TasksInv
<1>3. out \in [Owners -> SlotOrNone] /\ refer \in [Owners -> SUBSET SlotIds]
  BY DEF IInv, TypeOK
<1> QED BY <1>1, <1>2, <1>3

(* Every step leaves a pool whose accounts are right, and dumps nothing. *)
LEMMA PoolStep ==
    ASSUME IInv, [Next]_vars
    PROVE  Sound(pool')
<1>1. Sound(pool)
  BY InHands
<1>2. CASE UNCHANGED pool
  BY <1>1, <1>2
<1>3. CASE ParserGetSlot
  BY <1>3, PoolGetSlot DEF ParserGetSlot
<1>4. CASE ParserSetOutput
  BY <1>4, PoolSetOutput DEF ParserSetOutput, Preparing
<1>5. CASE ParserSetFrame
  <2>1. PICK info \in Infos :
           pool' = SetFrame(pool, out[hnd], [pts |-> count + 1, info |-> info])
    BY <1>5 DEF ParserSetFrame
  <2>2. [pts |-> count + 1, info |-> info] \in Frames
    <3>1. count \in 0 .. MaxFrames /\ count < MaxFrames
      BY <1>5 DEF ParserSetFrame, IInv, TasksInv, TypeOK
    <3> QED BY <3>1, MaxFramesAssumption DEF Frames
  <2>3. Preparing
    BY <1>5 DEF ParserSetFrame, Preparing
  <2> QED BY <2>1, <2>2, <2>3, PoolSetFrame
<1>6. CASE ParserSetRefer
  <2>1. PICK i \in dpb \ refer[hnd] : pool' = SetFlag(pool, i, "HAL_INPUT")
    BY <1>6 DEF ParserSetRefer
  <2> QED BY <1>6, <2>1, PoolSetRefer DEF ParserSetRefer, Preparing
<1>7. CASE ParserKeepPicture
  <2>1. CASE pool' = SetFlag(pool, out[hnd], "CODEC_USE")
    BY <1>7, <2>1, PoolKeep DEF ParserKeepPicture, Preparing
  <2> QED BY <1>2, <1>7, <2>1 DEF ParserKeepPicture
<1>8. CASE ParserSetQueueUse
  <2>1. PICK i \in Displayable : pool' = SetFlag(pool, i, "QUEUE_USE")
    BY <1>8 DEF ParserSetQueueUse
  <2>2. i \in SlotIds /\ i \in pool.on_used /\ pool.queue_use[i] = 0
    BY <1>8, QueueMarks DEF ParserSetQueueUse
  <2> QED BY <2>1, <2>2, PoolSetQueueUse
<1>9. CASE ParserEnqueue
  BY <1>9, QueueMarks, PoolEnqueue DEF ParserEnqueue
<1>10. CASE ParserDropRefer
  <2>1. PICK i \in dpb \ {out[hnd]} : pool' = ClrFlag(pool, i, "CODEC_USE")
    BY <1>10 DEF ParserDropRefer
  <2> QED BY <2>1, PoolDropRefer
<1>11. CASE UserReady
  BY <1>11, PoolReady DEF UserReady
<1>12. CASE HalClrOutput
  <2>1. CASE out[Hal] # NoSlot
    BY <1>12, <2>1, PoolClrOutput DEF HalClrOutput
  <2>2. CASE out[Hal] = NoSlot
    BY <1>2, <1>12, <2>2 DEF HalClrOutput
  <2> QED BY <2>1, <2>2
<1>13. CASE HalClrRefer
  <2>1. PICK i \in refer[Hal] : pool' = ClrFlag(pool, i, "HAL_INPUT")
    BY <1>13 DEF HalClrRefer
  <2> QED BY <2>1, PoolClrRefer
<1>14. CASE HalDequeue
  <2>1. /\ pool.queue["QUEUE_DISPLAY"] # <<>> /\ "QUEUE_DISPLAY" \in QueueTypes
        /\ pool' = Dequeue(pool, "QUEUE_DISPLAY")
    BY <1>14 DEF HalDequeue, CanDequeue, QueueTypes
  <2>2. /\ Head(pool.queue["QUEUE_DISPLAY"]) \in InQueue
        /\ pool.queue_use[Head(pool.queue["QUEUE_DISPLAY"])] = 2
    BY <2>1, QueueHead
  <2> QED BY <2>1, <2>2, PoolDequeue
<1>15. CASE HalClrQueueUse
  <2>1. disp # NoSlot
    BY <1>15 DEF HalClrQueueUse, IInv, TasksInv
  <2> QED BY <1>15, <2>1, QueueMarks, PoolClrQueueUse DEF HalClrQueueUse
<1>16. CASE ParserPutTask \/ ParserFlush \/ ParserPutEos
  BY <1>2, <1>16 DEF ParserPutTask, ParserFlush, ParserPutEos
<1>17. CASE HalTakeTask \/ HalPutFrame \/ HalTaskDone \/ Finished \/ UNCHANGED vars
  BY <1>2, <1>17 DEF HalTakeTask, HalPutFrame, HalTaskDone, Finished, vars
<1> QED BY <1>3, <1>4, <1>5, <1>6, <1>7, <1>8, <1>9, <1>10, <1>11, <1>12, <1>13, <1>14,
           <1>15, <1>16, <1>17 DEF Next, Parser, HalThread
-----------------------------------------------------------------------------
(* A slot that is sent to display has its frame, and so has the one that   *)
(* is about to be shown.                                                   *)
LEMMA FrameThere ==
    ASSUME IInv
    PROVE  /\ \A i \in SlotIds : pool.frame[i] # None =>
                  pool.frame[i] \in Frames /\ pool.frame[i].pts \in 1 .. MaxFrames
           /\ mark # NoSlot => pool.frame[mark] # None
           /\ disp # NoSlot => pool.frame[disp] # None
           /\ \A i \in InQueue : pool.frame[i] # None
<1>1. pool.frame \in [SlotIds -> Frames \cup {None}] /\ InQueue \subseteq SlotIds
  BY PoolOfSlots DEF IInv
<1>2. ASSUME NEW i \in SlotIds, pool.frame[i] # None
      PROVE  pool.frame[i] \in Frames /\ pool.frame[i].pts \in 1 .. MaxFrames
  <2>1. pool.frame[i] \in Frames
    BY <1>1, <1>2
  <2> QED BY <2>1 DEF Frames
<1>3. \A i \in SlotIds : i \in pool.on_used /\ ~(ppc \in {"output", "frame"} /\ i = out[hnd])
                            => pool.frame[i] # None
  BY DEF IInv, FramesInv
<1>4. mark # NoSlot => pool.frame[mark] # None
  <2> SUFFICES ASSUME mark # NoSlot PROVE pool.frame[mark] # None
    OBVIOUS
  <2>1. mark \in SlotIds /\ mark \in pool.on_used
    BY InHands
  <2>2. ppc \in {"mark", "flush"}
    BY DEF IInv, TasksInv
  <2> QED BY <1>3, <2>1, <2>2
<1>5. \A i \in InQueue \cup {disp} :
         i # NoSlot /\ ppc \in {"output", "frame"} => i # out[hnd]
  <2> SUFFICES ASSUME ppc \in {"output", "frame"}, NEW i \in InQueue \cup {disp}, i # NoSlot
               PROVE  i # out[hnd]
    OBVIOUS
  <2> QED BY DEF IInv, DisplayInv
<1>6. disp # NoSlot => pool.frame[disp] # None
  BY <1>3, <1>5, InHands
<1>7. \A i \in InQueue : pool.frame[i] # None
  BY <1>1, <1>3, <1>5, InHands
<1> QED BY <1>1, <1>2, <1>4, <1>6, <1>7

(* The type invariant is preserved. *)
LEMMA TypeStep ==
    ASSUME IInv, [Next]_vars
    PROVE  TypeOK'
<1>0. pool' \in Pools
  BY PoolStep DEF Sound
<1> USE <1>0
<1>1. TypeOK
  BY DEF IInv
<1>2. Hal \in Owners /\ (\A t \in Tasks : t \in Owners) /\ {} \in SUBSET SlotIds
      /\ NoSlot \in SlotOrNone
  BY DEF Owners, SlotOrNone
<1>3. CASE ParserGetSlot
  <2>1. PICK t \in IdleTasks : /\ hnd' = t
                              /\ out' = [out EXCEPT ![t] = FirstUnused(pool)]
                              /\ refer' = [refer EXCEPT ![t] = {}]
    BY <1>3 DEF ParserGetSlot
  <2>2. FirstUnused(pool) \in SlotOrNone
    BY <1>3, PoolGetSlot DEF ParserGetSlot, SlotOrNone
  <2>3. t \in Tasks /\ t \in Owners
    BY IdleTask
  <2> QED BY <1>1, <1>2, <1>3, <2>1, <2>2, <2>3 DEF ParserGetSlot, TypeOK, ParserPcs, halVars
<1>4. CASE ParserSetOutput
  BY <1>1, <1>4 DEF ParserSetOutput, TypeOK, ParserPcs, halVars, taskVars
<1>5. CASE ParserSetFrame
  <2>1. count + 1 \in 0 .. MaxFrames
    BY <1>5, MaxFramesAssumption DEF ParserSetFrame, IInv, TasksInv, TypeOK
  <2> QED BY <1>1, <1>5, <2>1 DEF ParserSetFrame, TypeOK, ParserPcs, halVars, taskVars
<1>6. CASE ParserSetRefer
  <2>1. PICK i \in dpb \ refer[hnd] : refer' = [refer EXCEPT ![hnd] = @ \cup {i}]
    BY <1>6 DEF ParserSetRefer
  <2>2. i \in SlotIds
    BY <1>1 DEF TypeOK
  <2> QED BY <1>1, <1>6, <2>1, <2>2 DEF ParserSetRefer, TypeOK, parserVars, halVars
<1>7. CASE ParserKeepPicture
  <2>1. out[hnd] \in SlotIds
    BY <1>7, InHands DEF ParserKeepPicture, Preparing
  <2> QED BY <1>1, <1>7, <2>1 DEF ParserKeepPicture, TypeOK, ParserPcs, halVars, taskVars
<1>8. CASE ParserSetQueueUse
  <2>1. PICK i \in Displayable : mark' = i
    BY <1>8 DEF ParserSetQueueUse
  <2>2. i \in SlotOrNone
    BY QueueMarks DEF SlotOrNone
  <2> QED BY <1>1, <1>8, <2>1, <2>2 DEF ParserSetQueueUse, TypeOK, halVars, taskVars
<1>9. CASE ParserEnqueue
  <2>1. mark \in SlotIds /\ pool.frame[mark].pts \in 1 .. MaxFrames
    BY <1>9, InHands, FrameThere DEF ParserEnqueue
  <2>2. Append(order, pool.frame[mark].pts) \in Seq(1 .. MaxFrames)
    BY <1>1, <2>1 DEF TypeOK
  <2> QED BY <1>1, <1>2, <1>9, <2>1, <2>2 DEF ParserEnqueue, TypeOK, halVars, taskVars
<1>10. CASE ParserDropRefer
  BY <1>1, <1>10 DEF ParserDropRefer, TypeOK, halVars, taskVars
<1>11. CASE ParserPutTask
  <2>1. Append(fifo, hnd) \in Seq(Tasks)
    BY <1>1, <1>11, InHands DEF ParserPutTask, Preparing, TypeOK
  <2> QED BY <1>1, <1>11, <2>1 DEF ParserPutTask, TypeOK, ParserPcs, halVars
<1>12. CASE ParserFlush
  <2>1. PICK t \in IdleTasks : /\ hnd' = t
                              /\ out' = [out EXCEPT ![t] = NoSlot]
                              /\ refer' = [refer EXCEPT ![t] = {}]
    BY <1>12 DEF ParserFlush
  <2>2. t \in Tasks /\ out' = out /\ refer' = refer
    BY <2>1, IdleTask
  <2> QED BY <1>1, <1>12, <2>1, <2>2 DEF ParserFlush, TypeOK, ParserPcs, halVars
<1>13. CASE ParserPutEos
  <2>1. hnd \in Tasks
    BY <1>1, <1>13 DEF ParserPutEos, IInv, TasksInv, TypeOK
  <2>2. Append(fifo, hnd) \in Seq(Tasks)
    BY <1>1, <2>1 DEF TypeOK
  <2> QED BY <1>1, <1>13, <2>2 DEF ParserPutEos, TypeOK, ParserPcs, halVars
<1>14. CASE UserReady
  BY <1>1, <1>14 DEF UserReady, TypeOK, parserVars, halVars, taskVars
<1>15. CASE HalTakeTask
  <2>1. Head(fifo) \in Tasks /\ Tail(fifo) \in Seq(Tasks)
    BY <1>1, <1>15 DEF HalTakeTask, TypeOK
  <2>2. Head(fifo) \in Owners
    BY <1>2, <2>1
  <2> DEFINE h == Head(fifo)
  <2>3. /\ out' = [out EXCEPT ![Hal] = out[h], ![h] = NoSlot]
        /\ refer' = [refer EXCEPT ![Hal] = refer[h], ![h] = {}]
        /\ fifo' = Tail(fifo)
    BY <1>15 DEF HalTakeTask
  <2> HIDE DEF h
  <2>4. out' \in [Owners -> SlotOrNone] /\ refer' \in [Owners -> SUBSET SlotIds]
    <3>1. h \in Owners
      BY <2>2 DEF h
    <3> QED BY <1>1, <1>2, <2>3, <3>1 DEF TypeOK
  <2> QED BY <1>1, <1>15, <2>1, <2>3, <2>4 DEF HalTakeTask, TypeOK, HalPcs, parserVars
<1>16. CASE HalClrOutput
  BY <1>1, <1>2, <1>16 DEF HalClrOutput, TypeOK, HalPcs, parserVars
<1>17. CASE HalClrRefer
  <2>1. PICK i \in refer[Hal] : refer' = [refer EXCEPT ![Hal] = @ \ {i}]
    BY <1>17 DEF HalClrRefer
  <2> QED BY <1>1, <1>2, <1>17, <2>1 DEF HalClrRefer, TypeOK, parserVars, halVars
<1>18. CASE HalDequeue
  <2>1. disp' \in SlotOrNone
    BY <1>18, QueueHead DEF HalDequeue, CanDequeue, SlotOrNone
  <2> QED BY <1>1, <1>18, <2>1 DEF HalDequeue, TypeOK, HalPcs, parserVars, taskVars
<1>19. CASE HalPutFrame
  <2>1. disp \in SlotIds /\ pool.frame[disp].pts \in 1 .. MaxFrames
    BY <1>19, InHands, FrameThere DEF HalPutFrame, IInv, TasksInv
  <2>2. Append(shown, pool.frame[disp].pts) \in Seq(1 .. MaxFrames)
    BY <1>1, <2>1 DEF TypeOK
  <2> QED BY <1>1, <1>19, <2>2 DEF HalPutFrame, TypeOK, HalPcs, parserVars, taskVars
<1>20. CASE HalClrQueueUse
  BY <1>1, <1>2, <1>20 DEF HalClrQueueUse, TypeOK, HalPcs, parserVars, taskVars
<1>21. CASE HalTaskDone
  BY <1>1, <1>21 DEF HalTaskDone, TypeOK, HalPcs, parserVars, taskVars
<1>22. CASE Finished \/ UNCHANGED vars
  BY <1>1, <1>22 DEF Finished, vars, TypeOK, parserVars, halVars, taskVars
<1> QED BY <1>3, <1>4, <1>5, <1>6, <1>7, <1>8, <1>9, <1>10, <1>11, <1>12, <1>13, <1>14,
           <1>15, <1>16, <1>17, <1>18, <1>19, <1>20, <1>21, <1>22
        DEF Next, Parser, HalThread

(* The tasks: who has them and what they hold. *)
LEMMA TasksStep ==
    ASSUME IInv, [Next]_vars
    PROVE  TasksInv'
<1>1. TypeOK /\ TasksInv
  BY DEF IInv
<1>2. /\ out \in [Owners -> SlotOrNone] /\ refer \in [Owners -> SUBSET SlotIds]
      /\ fifo \in Seq(Tasks) /\ ToSet(fifo) \subseteq Tasks
      /\ Hal \in Owners /\ Hal \notin Tasks /\ None \notin Tasks
      /\ \A t \in Tasks : t \in Owners
      /\ hnd \in Tasks \cup {None}
      /\ NoSlot \notin SlotIds
  BY <1>1, TasksAssumption, NoneAssumption DEF TypeOK, Owners, ToSet, NoSlot, SlotIds
<1>3. CASE ParserGetSlot
  <2> DEFINE s == FirstUnused(pool)
  <2>1. PICK t \in IdleTasks : /\ hnd' = t
                              /\ out' = [out EXCEPT ![t] = s]
                              /\ refer' = [refer EXCEPT ![t] = {}]
    BY <1>3 DEF ParserGetSlot
  <2>2. s \in SlotIds /\ s \notin pool.on_used
    BY <1>3, PoolGetSlot DEF ParserGetSlot
  <2> HIDE DEF s
  <2>3. /\ t \in Tasks /\ t \in Owners /\ t # Hal /\ t # None /\ t \notin ToSet(fifo)
        /\ refer' = refer
    BY <2>1, IdleTask
  <2>4. \A o \in Owners : out'[o] = IF o = t THEN s ELSE out[o]
    BY <1>2, <2>1, <2>3
  <2>5. \A o \in Owners : out[o] # s
    BY <1>2, <2>2, InHands
  <2>6. /\ ppc = "get" /\ ppc' = "output" /\ count < MaxFrames /\ hnd = None
        /\ count' = count /\ fifo' = fifo /\ hpc' = hpc /\ disp' = disp /\ mark' = mark
    BY <1>1, <1>3 DEF ParserGetSlot, halVars, TasksInv
  <2>7. \A o, u \in Owners : out'[o] = out'[u] /\ out'[o] # NoSlot => o = u
    BY <1>1, <2>4, <2>5 DEF TasksInv
  <2> QED BY <1>1, <1>2, <2>1, <2>2, <2>3, <2>4, <2>6, <2>7 DEF TasksInv, Preparing
<1>4. CASE ParserSetOutput \/ ParserKeepPicture
  BY <1>1, <1>4 DEF ParserSetOutput, ParserKeepPicture, TasksInv, Preparing, halVars,
                    taskVars
<1>5. CASE ParserSetFrame
  BY <1>1, <1>5 DEF ParserSetFrame, TasksInv, Preparing, halVars, taskVars
<1>6. CASE ParserSetRefer
  <2>1. PICK i \in dpb \ refer[hnd] : refer' = [refer EXCEPT ![hnd] = @ \cup {i}]
    BY <1>6 DEF ParserSetRefer
  <2>2. \A o \in Owners : o # hnd => refer'[o] = refer[o]
    BY <1>2, <2>1
  <2>3. hnd \in Tasks
    BY <1>6, InHands DEF ParserSetRefer, Preparing
  <2>4. UNCHANGED <<parserVars, out, fifo, halVars>>
    BY <1>6 DEF ParserSetRefer
  <2>5. /\ UNCHANGED <<ppc, hnd, mark, count>> /\ UNCHANGED <<out, fifo, hpc, disp>>
    BY <2>4 DEF parserVars, halVars
  <2>6. refer'[Hal] = refer[Hal] /\ \A t \in Tasks : t # hnd => refer'[t] = refer[t]
    BY <1>2, <2>2, <2>3
  <2> QED BY <1>1, <2>5, <2>6 DEF TasksInv, Preparing
<1>7. CASE ParserSetQueueUse \/ ParserEnqueue \/ ParserDropRefer
  BY <1>1, <1>7 DEF ParserSetQueueUse, ParserEnqueue, ParserDropRefer, TasksInv, Preparing,
                    halVars, taskVars
<1>8. CASE ParserPutTask \/ ParserPutEos
  <2>1. /\ fifo' = Append(fifo, hnd) /\ hnd' = None /\ ppc' \in {"get", "end"}
        /\ UNCHANGED <<count, mark, out, refer, hpc, disp>> /\ mark = NoSlot
        /\ ppc \in {"mark", "flush"}
    BY <1>8 DEF ParserPutTask, ParserPutEos, halVars
  <2>2. hnd \in Tasks /\ hnd \notin ToSet(fifo)
    BY <1>1, <1>2, <2>1 DEF TasksInv
  <2>3. ToSet(fifo') = ToSet(fifo) \cup {hnd} /\ IsInjective(fifo')
    BY <1>1, <1>2, <2>1, <2>2, AppendToSet DEF TasksInv
  <2> QED BY <1>1, <1>2, <2>1, <2>2, <2>3 DEF TasksInv, Preparing
<1>9. CASE ParserFlush
  <2>1. PICK t \in IdleTasks : /\ hnd' = t
                              /\ out' = [out EXCEPT ![t] = NoSlot]
                              /\ refer' = [refer EXCEPT ![t] = {}]
    BY <1>9 DEF ParserFlush
  <2>2. /\ t \in Tasks /\ t # None /\ t \notin ToSet(fifo) /\ out[t] = NoSlot
        /\ out' = out /\ refer' = refer
    BY <2>1, IdleTask
  <2>3. /\ ppc = "get" /\ ppc' = "flush" /\ hnd = None
        /\ count' = count /\ fifo' = fifo /\ hpc' = hpc /\ disp' = disp /\ mark' = mark
    BY <1>1, <1>9 DEF ParserFlush, halVars, TasksInv
  <2> QED BY <1>1, <1>2, <2>1, <2>2, <2>3 DEF TasksInv, Preparing
<1>10. CASE HalTakeTask
  <2> DEFINE h == Head(fifo)
  <2>1. /\ out' = [out EXCEPT ![Hal] = out[h], ![h] = NoSlot]
        /\ refer' = [refer EXCEPT ![Hal] = refer[h], ![h] = {}]
        /\ fifo' = Tail(fifo) /\ hpc = "wait" /\ hpc' = "output" /\ fifo # <<>>
        /\ UNCHANGED <<ppc, hnd, mark, count, disp>>
    BY <1>10 DEF HalTakeTask, parserVars
  <2>2. /\ h \in Tasks /\ h \in ToSet(fifo) /\ ToSet(fifo') = ToSet(fifo) \ {h}
        /\ IsInjective(fifo')
    BY <1>1, <1>2, <2>1, TailToSet DEF TasksInv
  <2> HIDE DEF h
  <2>3. h \in Owners /\ h # Hal /\ h # hnd
    BY <1>1, <1>2, <2>2 DEF TasksInv
  <2>4. \A o \in Owners : /\ out'[o] = IF o = h THEN NoSlot
                                     ELSE IF o = Hal THEN out[h] ELSE out[o]
                          /\ refer'[o] = IF o = h THEN {}
                                         ELSE IF o = Hal THEN refer[h] ELSE refer[o]
    BY <1>2, <2>1, <2>3
  <2>5. \A o, u \in Owners : out'[o] = out'[u] /\ out'[o] # NoSlot => o = u
    BY <1>1, <1>2, <2>3, <2>4 DEF TasksInv
  <2>6. \A t \in Tasks : t # hnd /\ t \notin ToSet(fifo') =>
                            out'[t] = NoSlot /\ refer'[t] = {}
    BY <1>1, <1>2, <2>2, <2>4 DEF TasksInv
  <2>7. hnd # None => out'[hnd] = out[hnd]
    BY <1>2, <2>3, <2>4
  <2> QED BY <1>1, <1>2, <2>1, <2>2, <2>5, <2>6, <2>7 DEF TasksInv, Preparing
<1>11. CASE HalClrOutput
  <2>1. out' = [out EXCEPT ![Hal] = NoSlot]
    BY <1>11 DEF HalClrOutput
  <2>2. \A o \in Owners : out'[o] = IF o = Hal THEN NoSlot ELSE out[o]
    BY <1>2, <2>1
  <2>3. /\ hpc = "output" /\ hpc' = "refer" /\ refer' = refer /\ fifo' = fifo
        /\ UNCHANGED <<ppc, hnd, mark, count, disp>>
    BY <1>11 DEF HalClrOutput, parserVars
  <2>4. hnd # None => out'[hnd] = out[hnd]
    BY <1>2, <2>2
  <2>5. \A t \in Tasks : out'[t] = out[t]
    BY <1>2, <2>2
  <2>6. \A o, u \in Owners : out'[o] = out'[u] /\ out'[o] # NoSlot => o = u
    BY <1>1, <2>2 DEF TasksInv
  <2>7. out'[Hal] = NoSlot
    BY <1>2, <2>2
  <2> QED BY <1>1, <1>2, <2>3, <2>4, <2>5, <2>6, <2>7 DEF TasksInv, Preparing
<1>12. CASE HalClrRefer
  <2>1. PICK i \in refer[Hal] : refer' = [refer EXCEPT ![Hal] = @ \ {i}]
    BY <1>12 DEF HalClrRefer
  <2>2. \A t \in Tasks : refer'[t] = refer[t]
    BY <1>2, <2>1
  <2>3. UNCHANGED <<parserVars, out, fifo, halVars>> /\ hpc = "refer"
    BY <1>12 DEF HalClrRefer
  <2>4. /\ UNCHANGED <<ppc, hnd, mark, count>> /\ UNCHANGED <<out, fifo, hpc, disp>>
    BY <2>3 DEF parserVars, halVars
  <2> QED BY <1>1, <2>2, <2>3, <2>4 DEF TasksInv, Preparing
<1>13. CASE HalDequeue
  <2>1. disp' \in SlotIds
    BY <1>13, QueueHead DEF HalDequeue, CanDequeue
  <2> QED BY <1>1, <1>2, <1>13, <2>1 DEF HalDequeue, TasksInv, Preparing, parserVars, taskVars
<1>14. CASE HalPutFrame \/ HalClrQueueUse \/ HalTaskDone
  BY <1>1, <1>14 DEF HalPutFrame, HalClrQueueUse, HalTaskDone, TasksInv, Preparing,
                     parserVars, taskVars
<1>15. CASE UserReady \/ Finished \/ UNCHANGED vars
  BY <1>1, <1>15 DEF UserReady, Finished, vars, TasksInv, Preparing, parserVars, halVars,
                     taskVars
<1> QED BY <1>3, <1>4, <1>5, <1>6, <1>7, <1>8, <1>9, <1>10, <1>11, <1>12, <1>13, <1>14,
           <1>15 DEF Next, Parser, HalThread

(* The marks a new idle slot has: none. *)
LEMMA UnusedSlot ==
    ASSUME IInv, NEW i \in SlotIds, i \notin pool.on_used
    PROVE  /\ \A o \in Owners : i # out[o] /\ i \notin refer[o]
           /\ i \notin dpb /\ i \notin InQueue /\ i # mark /\ i # disp
           /\ pool.frame[i] = None
<1>1. i \notin Held /\ i # NoSlot
  BY InHands
<1>2. pool.frame[i] = None
  BY DEF IInv, FramesInv
<1> QED BY <1>1, <1>2, HeldMember

(* Which outputs are awaited depends on the outputs only; who refers to a  *)
(* slot on the references only.                                            *)
LEMMA SameHolders ==
    /\ out' = out => Awaited' = Awaited
    /\ refer' = refer => \A i : HalUses(i)' = HalUses(i)
BY DEF Awaited, HalUses

(* The marks are what the threads have in hand. *)
LEMMA MarksStep ==
    ASSUME IInv, [Next]_vars
    PROVE  MarksInv'
<1>1. /\ TypeOK /\ TasksInv /\ DisplayInv
      /\ pool.not_ready = Awaited /\ pool.hal_output = Awaited \ Unmarked
      /\ pool.codec_use = dpb
      /\ \A i \in SlotIds : pool.hal_use[i] = Cardinality(HalUses(i))
      /\ \A i \in SlotIds : pool.queue_use[i] = QueueUses(i)
  BY DEF IInv, MarksInv
<1>2. /\ out \in [Owners -> SlotOrNone] /\ refer \in [Owners -> SUBSET SlotIds]
      /\ Hal \in Owners /\ Hal \notin Tasks /\ \A t \in Tasks : t \in Owners
      /\ NoSlot \notin SlotIds
      /\ pool.queue_use \in [SlotIds -> 0 .. 31] /\ pool.hal_use \in [SlotIds -> 0 .. 255]
      /\ pool.queue \in [QueueTypes -> Seq(SlotIds)] /\ InQueue \subseteq SlotIds
  <2>1. /\ pool.queue_use \in [SlotIds -> 0 .. 31] /\ pool.hal_use \in [SlotIds -> 0 .. 255]
        /\ pool.queue \in [QueueTypes -> Seq(SlotIds)] /\ InQueue \subseteq SlotIds
    BY <1>1, PoolOfSlots
  <2>2. out \in [Owners -> SlotOrNone] /\ refer \in [Owners -> SUBSET SlotIds]
    BY <1>1 DEF TypeOK
  <2>3. Hal \in Owners /\ Hal \notin Tasks /\ \A t \in Tasks : t \in Owners
    BY TasksAssumption DEF Owners
  <2>4. NoSlot \notin SlotIds
    BY DEF NoSlot, SlotIds
  <2> QED BY <2>1, <2>2, <2>3, <2>4
<1>3. CASE ParserGetSlot
  <2> DEFINE s == FirstUnused(pool)
  <2>1. PICK t \in IdleTasks : /\ hnd' = t
                              /\ out' = [out EXCEPT ![t] = s]
                              /\ refer' = [refer EXCEPT ![t] = {}]
    BY <1>3 DEF ParserGetSlot
  <2>2. /\ s \in SlotIds /\ s \notin pool.on_used /\ pool'.not_ready = pool.not_ready \cup {s}
        /\ pool'.hal_output = pool.hal_output /\ pool'.codec_use = pool.codec_use
        /\ pool'.hal_use = pool.hal_use /\ pool'.queue_use = pool.queue_use
        /\ pool'.queue = pool.queue
    BY <1>3, PoolGetSlot DEF ParserGetSlot
  <2> HIDE DEF s
  <2>3. t \in Tasks /\ t \in Owners /\ out[t] = NoSlot /\ refer' = refer
    BY <2>1, IdleTask
  <2>4. \A o \in Owners : out'[o] = IF o = t THEN s ELSE out[o]
    BY <1>2, <2>1, <2>3
  <2>5. s \notin Awaited
    BY <2>2, UnusedSlot DEF Awaited
  <2>6. Awaited' = Awaited \cup {s}
    BY <1>2, <2>2, <2>3, <2>4 DEF Awaited
  <2>7. /\ ppc = "get" /\ ppc' = "output" /\ dpb' = dpb
        /\ UNCHANGED <<mark, disp>>
    BY <1>3 DEF ParserGetSlot, halVars
  <2>8. Unmarked = {} /\ Unmarked' = {s}
    BY <2>1, <2>3, <2>4, <2>7 DEF Unmarked
  <2>9. \A i : QueueUses(i)' = QueueUses(i)
    BY <2>2, <2>7 DEF QueueUses, InQueue
  <2> QED BY <1>1, <2>2, <2>3, <2>5, <2>6, <2>7, <2>8, <2>9, SameHolders DEF MarksInv
<1>4. CASE ParserSetOutput
  <2>1. /\ ppc = "output" /\ ppc' = "frame"
        /\ UNCHANGED <<dpb, mark, disp, out, refer, hnd>>
    BY <1>4 DEF ParserSetOutput, halVars, taskVars
  <2>2. /\ pool'.not_ready = pool.not_ready \cup {out[hnd]}
        /\ pool'.hal_output = pool.hal_output \cup {out[hnd]}
        /\ pool'.codec_use = pool.codec_use
        /\ pool'.hal_use = pool.hal_use /\ pool'.queue_use = pool.queue_use
        /\ pool'.queue = pool.queue
    BY <1>4, PoolSetOutput DEF ParserSetOutput, Preparing
  <2>3. out[hnd] \in Awaited
    BY <1>1, <2>1, InHands DEF Preparing
  <2>4. Unmarked = {out[hnd]} /\ Unmarked' = {}
    BY <2>1 DEF Unmarked
  <2>5. \A i : QueueUses(i)' = QueueUses(i)
    BY <2>1, <2>2 DEF QueueUses, InQueue
  <2> QED BY <1>1, <2>1, <2>2, <2>3, <2>4, <2>5, SameHolders DEF MarksInv
<1>5. CASE ParserSetFrame
  <2>1. /\ ppc = "frame" /\ ppc' = "refer"
        /\ UNCHANGED <<dpb, mark, disp, out, refer, hnd>>
    BY <1>5 DEF ParserSetFrame, halVars, taskVars
  <2>2. PICK info \in Infos :
           pool' = SetFrame(pool, out[hnd], [pts |-> count + 1, info |-> info])
    BY <1>5 DEF ParserSetFrame
  <2>3. [pts |-> count + 1, info |-> info] \in Frames
    <3>1. count \in 0 .. MaxFrames /\ count < MaxFrames
      BY <1>1, <2>1 DEF TasksInv, TypeOK
    <3> QED BY <3>1, MaxFramesAssumption DEF Frames
  <2>4. /\ pool'.not_ready = pool.not_ready /\ pool'.hal_output = pool.hal_output
        /\ pool'.codec_use = pool.codec_use
        /\ pool'.hal_use = pool.hal_use /\ pool'.queue_use = pool.queue_use
        /\ pool'.queue = pool.queue
    BY <2>1, <2>2, <2>3, PoolSetFrame DEF Preparing
  <2>5. Unmarked = {} /\ Unmarked' = {}
    BY <2>1 DEF Unmarked
  <2>6. \A i : QueueUses(i)' = QueueUses(i)
    BY <2>1, <2>4 DEF QueueUses, InQueue
  <2> QED BY <1>1, <2>1, <2>4, <2>5, <2>6, SameHolders DEF MarksInv
<1>6. CASE ParserSetRefer
  <2>1. PICK i \in dpb \ refer[hnd] : /\ pool' = SetFlag(pool, i, "HAL_INPUT")
                                     /\ refer' = [refer EXCEPT ![hnd] = @ \cup {i}]
    BY <1>6 DEF ParserSetRefer
  <2>2. /\ ppc = "refer" /\ UNCHANGED <<ppc, dpb, mark, disp, out, hnd>>
    BY <1>6 DEF ParserSetRefer, parserVars, halVars
  <2>3. /\ pool'.not_ready = pool.not_ready /\ pool'.hal_output = pool.hal_output
        /\ pool'.codec_use = pool.codec_use
        /\ pool'.hal_use = [pool.hal_use EXCEPT ![i] = pool.hal_use[i] + 1]
        /\ pool'.queue_use = pool.queue_use /\ pool'.queue = pool.queue
    BY <2>1, <2>2, PoolSetRefer DEF Preparing
  <2>4. i \in SlotIds /\ hnd \in Owners
    BY <2>2, InHands DEF Preparing
  <2>5. \A o \in Owners : refer'[o] = IF o = hnd THEN refer[o] \cup {i} ELSE refer[o]
    BY <1>2, <2>1, <2>4
  <2>6. HalUses(i)' = HalUses(i) \cup {hnd} /\ hnd \notin HalUses(i)
    BY <2>1, <2>4, <2>5 DEF HalUses
  <2>7. Cardinality(HalUses(i)') = Cardinality(HalUses(i)) + 1
    BY <2>6, OwnersFinite, FS_AddElement
  <2>8. \A j \in SlotIds : j # i => HalUses(j)' = HalUses(j)
    BY <2>5 DEF HalUses
  <2>9. \A j \in SlotIds : pool'.hal_use[j] = Cardinality(HalUses(j)')
    BY <1>1, <1>2, <2>3, <2>4, <2>7, <2>8
  <2>10. Unmarked = {} /\ Unmarked' = {}
    BY <2>2 DEF Unmarked
  <2>11. \A j : QueueUses(j)' = QueueUses(j)
    BY <2>2, <2>3 DEF QueueUses, InQueue
  <2> QED BY <1>1, <2>2, <2>3, <2>9, <2>10, <2>11, SameHolders DEF MarksInv
<1>7. CASE ParserKeepPicture
  <2>1. /\ ppc = "refer" /\ ppc' = "mark"
        /\ UNCHANGED <<mark, disp, out, refer, hnd>>
    BY <1>7 DEF ParserKeepPicture, halVars, taskVars
  <2>2. /\ pool'.not_ready = pool.not_ready /\ pool'.hal_output = pool.hal_output
        /\ pool'.codec_use = dpb'
        /\ pool'.hal_use = pool.hal_use /\ pool'.queue_use = pool.queue_use
        /\ pool'.queue = pool.queue
    <3>1. CASE UNCHANGED <<pool, dpb>>
      BY <1>1, <3>1
    <3>2. CASE pool' = SetFlag(pool, out[hnd], "CODEC_USE") /\ dpb' = dpb \cup {out[hnd]}
      BY <1>1, <2>1, <3>2, PoolKeep DEF Preparing
    <3> QED BY <1>7, <3>1, <3>2 DEF ParserKeepPicture
  <2>3. Unmarked = {} /\ Unmarked' = {}
    BY <2>1 DEF Unmarked
  <2>4. \A j : QueueUses(j)' = QueueUses(j)
    BY <2>1, <2>2 DEF QueueUses, InQueue
  <2> QED BY <1>1, <2>1, <2>2, <2>3, <2>4, SameHolders DEF MarksInv
<1>8. CASE ParserSetQueueUse
  <2>1. PICK i \in Displayable : pool' = SetFlag(pool, i, "QUEUE_USE") /\ mark' = i
    BY <1>8 DEF ParserSetQueueUse
  <2>2. /\ ppc \in {"mark", "flush"} /\ mark = NoSlot
        /\ UNCHANGED <<ppc, hnd, dpb, disp, out, refer>>
    BY <1>8 DEF ParserSetQueueUse, halVars, taskVars
  <2>3. /\ i \in SlotIds /\ i \in pool.on_used /\ pool.queue_use[i] = 0
        /\ i \notin InQueue /\ i # disp
    BY <2>2, QueueMarks
  <2>4. /\ pool'.not_ready = pool.not_ready /\ pool'.hal_output = pool.hal_output
        /\ pool'.codec_use = pool.codec_use /\ pool'.hal_use = pool.hal_use
        /\ pool'.queue_use = [pool.queue_use EXCEPT ![i] = 1] /\ pool'.queue = pool.queue
    BY <2>1, <2>3, PoolSetQueueUse
  <2>5. Unmarked = {} /\ Unmarked' = {}
    BY <2>2 DEF Unmarked
  <2>6. InQueue' = InQueue
    BY <2>4 DEF InQueue
  <2>7. \A j \in SlotIds : pool'.queue_use[j] = QueueUses(j)'
    BY <1>1, <1>2, <2>1, <2>2, <2>3, <2>4, <2>6 DEF QueueUses
  <2> QED BY <1>1, <2>2, <2>4, <2>5, <2>7, SameHolders DEF MarksInv
<1>9. CASE ParserEnqueue
  <2> DEFINE Q == pool.queue["QUEUE_DISPLAY"]
  <2>1. /\ mark # NoSlot /\ mark' = NoSlot
        /\ UNCHANGED <<ppc, hnd, dpb, disp, out, refer>>
    BY <1>9 DEF ParserEnqueue, halVars, taskVars
  <2>2. mark \in SlotIds /\ pool.queue_use[mark] = 1
    BY <2>1, InHands, QueueMarks
  <2>3. /\ pool'.not_ready = pool.not_ready /\ pool'.hal_output = pool.hal_output
        /\ pool'.codec_use = pool.codec_use /\ pool'.hal_use = pool.hal_use
        /\ pool'.queue_use = [pool.queue_use EXCEPT ![mark] = 2]
        /\ pool'.queue = [pool.queue EXCEPT !["QUEUE_DISPLAY"] = Append(Q, mark)]
    BY <1>9, <2>1, <2>2, PoolEnqueue DEF ParserEnqueue
  <2>4. Q \in Seq(SlotIds) /\ InQueue = ToSet(Q)
    BY <1>2 DEF QueueTypes, InQueue
  <2>5. pool'.queue["QUEUE_DISPLAY"] = Append(Q, mark)
    BY <1>2, <2>3 DEF QueueTypes
  <2> HIDE DEF Q
  <2>6. InQueue' = InQueue \cup {mark}
    BY <2>2, <2>4, <2>5, AppendToSet DEF InQueue
  <2>7. Unmarked' = Unmarked
    BY <2>1 DEF Unmarked
  <2>8. mark # disp
    BY <1>1, <2>1 DEF DisplayInv
  <2>9. \A j \in SlotIds : pool'.queue_use[j] = QueueUses(j)'
    BY <1>1, <1>2, <2>1, <2>2, <2>3, <2>6, <2>8 DEF QueueUses
  <2> QED BY <1>1, <2>1, <2>3, <2>7, <2>9, SameHolders DEF MarksInv
<1>10. CASE ParserDropRefer
  <2>1. PICK i \in dpb \ {out[hnd]} : /\ pool' = ClrFlag(pool, i, "CODEC_USE")
                                     /\ dpb' = dpb \ {i}
    BY <1>10 DEF ParserDropRefer
  <2>2. UNCHANGED <<ppc, hnd, mark, disp, out, refer>>
    BY <1>10 DEF ParserDropRefer, halVars, taskVars
  <2>3. /\ pool'.not_ready = pool.not_ready /\ pool'.hal_output = pool.hal_output
        /\ pool'.codec_use = pool.codec_use \ {i} /\ pool'.hal_use = pool.hal_use
        /\ pool'.queue_use = pool.queue_use /\ pool'.queue = pool.queue
    BY <2>1, PoolDropRefer
  <2>4. Unmarked' = Unmarked
    BY <2>2 DEF Unmarked
  <2>5. \A j : QueueUses(j)' = QueueUses(j)
    BY <2>2, <2>3 DEF QueueUses, InQueue
  <2> QED BY <1>1, <2>1, <2>2, <2>3, <2>4, <2>5, SameHolders DEF MarksInv
<1>11. CASE ParserPutTask \/ ParserPutEos
  <2>1. /\ UNCHANGED <<pool, mark, dpb, out, refer, disp>>
        /\ ppc # "output" /\ ppc' # "output"
    BY <1>11 DEF ParserPutTask, ParserPutEos, halVars
  <2>2. Unmarked' = {} /\ Unmarked = {}
    BY <2>1 DEF Unmarked
  <2>3. \A j : QueueUses(j)' = QueueUses(j)
    BY <2>1 DEF QueueUses, InQueue
  <2> QED BY <1>1, <2>1, <2>2, <2>3, SameHolders DEF MarksInv
<1>12. CASE ParserFlush
  <2>1. /\ UNCHANGED <<pool, mark, dpb, disp>>
        /\ ppc # "output" /\ ppc' # "output"
    BY <1>12 DEF ParserFlush, halVars
  <2>2. out' = out /\ refer' = refer
    BY <1>12, IdleTask DEF ParserFlush
  <2>3. Unmarked' = {} /\ Unmarked = {}
    BY <2>1 DEF Unmarked
  <2>4. \A j : QueueUses(j)' = QueueUses(j)
    BY <2>1 DEF QueueUses, InQueue
  <2> QED BY <1>1, <2>1, <2>2, <2>3, <2>4, SameHolders DEF MarksInv
<1>13. CASE UserReady
  <2>1. /\ pool'.not_ready = pool.not_ready /\ pool'.hal_output = pool.hal_output
        /\ pool'.codec_use = pool.codec_use /\ pool'.hal_use = pool.hal_use
        /\ pool'.queue_use = pool.queue_use /\ pool'.queue = pool.queue
    BY <1>13, PoolReady DEF UserReady
  <2>2. UNCHANGED <<ppc, hnd, mark, dpb, disp, out, refer>>
    BY <1>13 DEF UserReady, parserVars, halVars, taskVars
  <2>3. Unmarked' = Unmarked
    BY <2>2 DEF Unmarked
  <2>4. \A j : QueueUses(j)' = QueueUses(j)
    BY <2>1, <2>2 DEF QueueUses, InQueue
  <2> QED BY <1>1, <2>1, <2>2, <2>3, <2>4, SameHolders DEF MarksInv
<1>14. CASE HalTakeTask
  <2> DEFINE h == Head(fifo)
  <2>1. /\ out' = [out EXCEPT ![Hal] = out[h], ![h] = NoSlot]
        /\ refer' = [refer EXCEPT ![Hal] = refer[h], ![h] = {}]
        /\ hpc = "wait" /\ fifo # <<>> /\ UNCHANGED <<pool, ppc, hnd, mark, dpb, disp>>
    BY <1>14 DEF HalTakeTask, parserVars
  <2>2. h \in Tasks /\ h \in ToSet(fifo)
    BY <1>1, <2>1, TailToSet DEF TasksInv, TypeOK
  <2> HIDE DEF h
  <2>3. /\ h \in Owners /\ h # Hal /\ h # hnd /\ out[Hal] = NoSlot /\ refer[Hal] = {}
    BY <1>1, <1>2, <2>1, <2>2 DEF TasksInv
  <2>4. \A o \in Owners : /\ out'[o] = IF o = h THEN NoSlot
                                     ELSE IF o = Hal THEN out[h] ELSE out[o]
                          /\ refer'[o] = IF o = h THEN {}
                                         ELSE IF o = Hal THEN refer[h] ELSE refer[o]
    BY <1>2, <2>1, <2>3
  <2>5. Awaited' = Awaited
    BY <1>2, <2>3, <2>4 DEF Awaited
  <2>6. ASSUME NEW i \in SlotIds
        PROVE  Cardinality(HalUses(i)') = Cardinality(HalUses(i))
    <3>1. CASE i \notin refer[h]
      <4>1. HalUses(i)' = HalUses(i)
        BY <2>3, <2>4, <3>1 DEF HalUses
      <4> QED BY <4>1
    <3>2. CASE i \in refer[h]
      <4>1. /\ HalUses(i)' = (HalUses(i) \ {h}) \cup {Hal}
            /\ h \in HalUses(i) /\ Hal \notin HalUses(i)
        BY <1>2, <2>3, <2>4, <3>2 DEF HalUses
      <4>2. IsFiniteSet(HalUses(i)) /\ Cardinality(HalUses(i)) \in Nat
        BY OwnersFinite
      <4>3. /\ IsFiniteSet(HalUses(i) \ {h})
            /\ Cardinality(HalUses(i) \ {h}) = Cardinality(HalUses(i)) - 1
        BY <4>1, <4>2, FS_RemoveElement
      <4>4. Cardinality((HalUses(i) \ {h}) \cup {Hal}) = Cardinality(HalUses(i) \ {h}) + 1
        BY <4>1, <4>3, FS_AddElement
      <4> QED BY <4>1, <4>2, <4>3, <4>4
    <3> QED BY <3>1, <3>2
  <2>7. ppc = "output" => out'[hnd] = out[hnd]
    BY <1>1, <1>2, <2>3, <2>4, InHands DEF Preparing
  <2>8. Unmarked' = Unmarked
    BY <2>1, <2>7 DEF Unmarked
  <2>9. \A j : QueueUses(j)' = QueueUses(j)
    BY <2>1 DEF QueueUses, InQueue
  <2> QED BY <1>1, <2>1, <2>5, <2>6, <2>8, <2>9 DEF MarksInv
<1>15. CASE HalClrOutput
  <2>1. /\ out' = [out EXCEPT ![Hal] = NoSlot]
        /\ UNCHANGED <<ppc, hnd, mark, dpb, disp, refer>>
    BY <1>15 DEF HalClrOutput, parserVars
  <2>2. \A o \in Owners : out'[o] = IF o = Hal THEN NoSlot ELSE out[o]
    BY <1>2, <2>1
  <2>3. Awaited' = Awaited \ {out[Hal]}
    BY <1>1, <1>2, <2>2 DEF Awaited, TasksInv
  <2>4. /\ pool'.not_ready = pool.not_ready \ {out[Hal]}
        /\ pool'.hal_output = pool.hal_output \ {out[Hal]}
        /\ pool'.codec_use = pool.codec_use /\ pool'.hal_use = pool.hal_use
        /\ pool'.queue_use = pool.queue_use /\ pool'.queue = pool.queue
    <3>1. CASE out[Hal] # NoSlot
      BY <1>15, <3>1, PoolClrOutput DEF HalClrOutput
    <3>2. CASE out[Hal] = NoSlot
      <4>1. NoSlot \notin pool.not_ready /\ NoSlot \notin pool.hal_output
        BY <1>1 DEF Awaited
      <4> QED BY <1>15, <3>2, <4>1 DEF HalClrOutput
    <3> QED BY <3>1, <3>2
  <2>5. ppc = "output" => out'[hnd] = out[hnd]
    BY <1>2, <2>2, InHands DEF Preparing
  <2>6. Unmarked' = Unmarked
    BY <2>1, <2>5 DEF Unmarked
  <2>7. \A j : QueueUses(j)' = QueueUses(j)
    BY <2>1, <2>4 DEF QueueUses, InQueue
  <2> QED BY <1>1, <2>1, <2>3, <2>4, <2>6, <2>7, SameHolders DEF MarksInv
<1>16. CASE HalClrRefer
  <2>1. PICK i \in refer[Hal] : /\ pool' = ClrFlag(pool, i, "HAL_INPUT")
                               /\ refer' = [refer EXCEPT ![Hal] = @ \ {i}]
    BY <1>16 DEF HalClrRefer
  <2>2. UNCHANGED <<ppc, hnd, mark, dpb, disp, out>>
    BY <1>16 DEF HalClrRefer, parserVars, halVars
  <2>3. /\ pool'.not_ready = pool.not_ready /\ pool'.hal_output = pool.hal_output
        /\ pool'.codec_use = pool.codec_use
        /\ pool'.hal_use = [pool.hal_use EXCEPT ![i] = pool.hal_use[i] - 1]
        /\ pool'.queue_use = pool.queue_use /\ pool'.queue = pool.queue
    BY <2>1, PoolClrRefer
  <2>4. \A o \in Owners : refer'[o] = IF o = Hal THEN refer[o] \ {i} ELSE refer[o]
    BY <1>2, <2>1
  <2>5. HalUses(i)' = HalUses(i) \ {Hal} /\ Hal \in HalUses(i)
    BY <1>2, <2>4 DEF HalUses
  <2>6. Cardinality(HalUses(i)') = Cardinality(HalUses(i)) - 1
    BY <2>5, OwnersFinite, FS_RemoveElement
  <2>7. \A j \in SlotIds : j # i => HalUses(j)' = HalUses(j)
    BY <2>4 DEF HalUses
  <2>8. \A j \in SlotIds : pool'.hal_use[j] = Cardinality(HalUses(j)')
    BY <1>1, <1>2, <2>3, <2>6, <2>7
  <2>9. Unmarked' = Unmarked
    BY <2>2 DEF Unmarked
  <2>10. \A j : QueueUses(j)' = QueueUses(j)
    BY <2>2, <2>3 DEF QueueUses, InQueue
  <2> QED BY <1>1, <2>2, <2>3, <2>8, <2>9, <2>10, SameHolders DEF MarksInv
<1>17. CASE HalDequeue
  <2> DEFINE Q == pool.queue["QUEUE_DISPLAY"]
             i == Head(Q)
  <2>1. /\ Q # <<>> /\ "QUEUE_DISPLAY" \in QueueTypes /\ disp' = i /\ hpc = "refer"
        /\ pool' = Dequeue(pool, "QUEUE_DISPLAY")
        /\ UNCHANGED <<ppc, hnd, mark, dpb, out, refer>>
    BY <1>17 DEF HalDequeue, CanDequeue, QueueTypes, parserVars, taskVars
  <2>2. /\ i \in InQueue /\ i \in SlotIds /\ pool.queue_use[i] = 2
        /\ ToSet(Tail(Q)) = InQueue \ {i}
    BY <2>1, QueueHead
  <2>3. /\ pool'.not_ready = pool.not_ready /\ pool'.hal_output = pool.hal_output
        /\ pool'.codec_use = pool.codec_use /\ pool'.hal_use = pool.hal_use
        /\ pool'.queue_use = [pool.queue_use EXCEPT ![i] = 1]
        /\ pool'.queue = [pool.queue EXCEPT !["QUEUE_DISPLAY"] = Tail(Q)]
    BY <2>1, <2>2, PoolDequeue
  <2>4. InQueue' = InQueue \ {i}
    BY <1>2, <2>1, <2>2, <2>3 DEF InQueue
  <2>5. disp = NoSlot
    BY <1>1, <2>1 DEF TasksInv
  <2> HIDE DEF i
  <2>6. \A j \in SlotIds : pool'.queue_use[j] = QueueUses(j)'
    BY <1>1, <1>2, <2>1, <2>2, <2>3, <2>4, <2>5 DEF QueueUses
  <2>7. Unmarked' = Unmarked
    BY <2>1 DEF Unmarked
  <2> QED BY <1>1, <2>1, <2>3, <2>6, <2>7, SameHolders DEF MarksInv
<1>18. CASE HalClrQueueUse
  <2>1. /\ disp # NoSlot /\ disp' = NoSlot /\ UNCHANGED <<ppc, hnd, mark, dpb, out, refer>>
    BY <1>1, <1>18 DEF HalClrQueueUse, TasksInv, parserVars, taskVars
  <2>2. disp \in SlotIds /\ pool.queue_use[disp] = 1
    BY <2>1, InHands, QueueMarks
  <2>3. /\ pool'.not_ready = pool.not_ready /\ pool'.hal_output = pool.hal_output
        /\ pool'.codec_use = pool.codec_use /\ pool'.hal_use = pool.hal_use
        /\ pool'.queue_use = [pool.queue_use EXCEPT ![disp] = 0]
        /\ pool'.queue = pool.queue
    BY <1>18, <2>1, <2>2, PoolClrQueueUse DEF HalClrQueueUse
  <2>4. InQueue' = InQueue
    BY <2>3 DEF InQueue
  <2>5. disp \notin InQueue /\ (mark # NoSlot => mark # disp)
    BY <1>1 DEF DisplayInv
  <2>6. \A j \in SlotIds : pool'.queue_use[j] = QueueUses(j)'
    BY <1>1, <1>2, <2>1, <2>2, <2>3, <2>4, <2>5 DEF QueueUses
  <2>7. Unmarked' = Unmarked
    BY <2>1 DEF Unmarked
  <2> QED BY <1>1, <2>1, <2>3, <2>6, <2>7, SameHolders DEF MarksInv
<1>19. CASE HalPutFrame \/ HalTaskDone \/ Finished \/ UNCHANGED vars
  <2>1. UNCHANGED <<pool, ppc, hnd, mark, dpb, disp, out, refer>>
    BY <1>19 DEF HalPutFrame, HalTaskDone, Finished, vars, parserVars, halVars, taskVars
  <2>2. Unmarked' = Unmarked
    BY <2>1 DEF Unmarked
  <2>3. \A j : QueueUses(j)' = QueueUses(j)
    BY <2>1 DEF QueueUses, InQueue
  <2> QED BY <1>1, <2>1, <2>2, <2>3, SameHolders DEF MarksInv
<1> QED BY <1>3, <1>4, <1>5, <1>6, <1>7, <1>8, <1>9, <1>10, <1>11, <1>12, <1>13, <1>14,
           <1>15, <1>16, <1>17, <1>18, <1>19 DEF Next, Parser, HalThread
-----------------------------------------------------------------------------
(* The way to display. *)

(* The hal thread leaves the parser's business alone. *)
LEMMA HandKept ==
    ASSUME IInv, HalThread
    PROVE  /\ UNCHANGED <<ppc, hnd, mark, dpb, enqueued, count, order>>
           /\ Preparing => out'[hnd] = out[hnd]
<1>1. UNCHANGED <<ppc, hnd, mark, dpb, enqueued, count, order>>
  BY DEF HalThread, HalTakeTask, HalClrOutput, HalClrRefer, HalDequeue, HalPutFrame,
         HalClrQueueUse, HalTaskDone, parserVars
<1> SUFFICES ASSUME Preparing PROVE out'[hnd] = out[hnd]
  BY <1>1
<1>2. out \in [Owners -> SlotOrNone] /\ fifo \in Seq(Tasks) /\ hnd \notin ToSet(fifo)
  BY DEF IInv, TypeOK, TasksInv
<1>3. hnd \in Owners /\ hnd # Hal
  BY InHands
<1>4. CASE HalTakeTask
  <2>1. out' = [out EXCEPT ![Hal] = out[Head(fifo)], ![Head(fifo)] = NoSlot] /\ fifo # <<>>
    BY <1>4 DEF HalTakeTask
  <2>2. Head(fifo) \in ToSet(fifo)
    BY <1>2, <2>1, TailToSet DEF IInv, TasksInv
  <2> QED BY <1>2, <1>3, <2>1, <2>2
<1>5. CASE HalClrOutput
  BY <1>2, <1>3, <1>5 DEF HalClrOutput
<1>6. CASE HalClrRefer \/ HalDequeue \/ HalPutFrame \/ HalClrQueueUse \/ HalTaskDone
  BY <1>6 DEF HalClrRefer, HalDequeue, HalPutFrame, HalClrQueueUse, HalTaskDone, taskVars
<1> QED BY <1>4, <1>5, <1>6 DEF HalThread

(* A step that changes neither the queue nor who moves its slots. *)
LEMMA SameWay ==
    ASSUME DisplayInv, pool'.queue = pool.queue, UNCHANGED <<mark, disp, enqueued>>,
           InHand' = InHand,
           ppc' \in {"output", "frame", "refer"} => out'[hnd'] \notin InQueue \cup {disp}
    PROVE  DisplayInv'
BY DEF DisplayInv, InQueue

(* A slot is in one place on its way to display. *)
LEMMA DisplayStep ==
    ASSUME IInv, [Next]_vars
    PROVE  DisplayInv'
<1>1. TypeOK /\ TasksInv /\ DisplayInv
  BY DEF IInv
<1>2. NoSlot \notin SlotIds /\ pool.queue \in [QueueTypes -> Seq(SlotIds)]
      /\ InQueue \subseteq SlotIds
  BY <1>1, PoolOfSlots, InHands
<1>3. CASE ParserGetSlot
  <2> DEFINE s == FirstUnused(pool)
  <2>1. PICK t \in IdleTasks : hnd' = t /\ out' = [out EXCEPT ![t] = s]
    BY <1>3 DEF ParserGetSlot
  <2>2. s \in SlotIds /\ s \notin pool.on_used /\ pool'.queue = pool.queue
    BY <1>3, PoolGetSlot DEF ParserGetSlot
  <2> HIDE DEF s
  <2>3. out'[hnd'] = s
    BY <1>1, <2>1, IdleTask DEF TypeOK
  <2>4. s \notin InQueue \cup {disp}
    BY <2>2, UnusedSlot
  <2>5. InHand' = InHand /\ UNCHANGED <<mark, disp, enqueued>>
    BY <1>3 DEF ParserGetSlot, InHand, halVars
  <2> QED BY <1>1, <2>2, <2>3, <2>4, <2>5, SameWay
<1>4. CASE ParserSetOutput
  <2>1. pool'.queue = pool.queue
    BY <1>4, PoolSetOutput DEF ParserSetOutput, Preparing
  <2>2. /\ InHand' = InHand /\ UNCHANGED <<mark, disp, enqueued, out, hnd>>
        /\ ppc = "output"
    BY <1>4 DEF ParserSetOutput, InHand, halVars, taskVars
  <2>3. out[hnd] \notin InQueue \cup {disp}
    BY <1>1, <2>2 DEF DisplayInv
  <2> QED BY <1>1, <2>1, <2>2, <2>3, SameWay
<1>5. CASE ParserSetFrame
  <2>1. PICK info \in Infos :
           pool' = SetFrame(pool, out[hnd], [pts |-> count + 1, info |-> info])
    BY <1>5 DEF ParserSetFrame
  <2>2. [pts |-> count + 1, info |-> info] \in Frames
    BY <1>1, <1>5, MaxFramesAssumption DEF ParserSetFrame, TasksInv, TypeOK, Frames
  <2>3. pool'.queue = pool.queue
    BY <1>5, <2>1, <2>2, PoolSetFrame DEF ParserSetFrame, Preparing
  <2>4. /\ InHand' = InHand /\ UNCHANGED <<mark, disp, enqueued, out, hnd>>
        /\ ppc = "frame"
    BY <1>5 DEF ParserSetFrame, InHand, halVars, taskVars
  <2>5. out[hnd] \notin InQueue \cup {disp}
    BY <1>1, <2>4 DEF DisplayInv
  <2> QED BY <1>1, <2>3, <2>4, <2>5, SameWay
<1>6. CASE ParserSetRefer
  <2>1. PICK i \in dpb \ refer[hnd] : pool' = SetFlag(pool, i, "HAL_INPUT")
    BY <1>6 DEF ParserSetRefer
  <2>2. pool'.queue = pool.queue
    BY <1>6, <2>1, PoolSetRefer DEF ParserSetRefer, Preparing
  <2>3. /\ InHand' = InHand /\ UNCHANGED <<mark, disp, enqueued, out, hnd>>
        /\ ppc = "refer"
    BY <1>6 DEF ParserSetRefer, InHand, parserVars, halVars
  <2>4. out[hnd] \notin InQueue \cup {disp}
    BY <1>1, <2>3 DEF DisplayInv
  <2> QED BY <1>1, <2>2, <2>3, <2>4, SameWay
<1>7. CASE ParserKeepPicture
  <2>1. pool'.queue = pool.queue
    <3>1. CASE UNCHANGED <<pool, dpb>>
      BY <3>1
    <3>2. CASE pool' = SetFlag(pool, out[hnd], "CODEC_USE")
      BY <1>7, <3>2, PoolKeep DEF ParserKeepPicture, Preparing
    <3> QED BY <1>7, <3>1, <3>2 DEF ParserKeepPicture
  <2>2. /\ ppc = "refer" /\ ppc' = "mark" /\ UNCHANGED <<mark, disp, enqueued, out, hnd>>
        /\ dpb' \in {dpb, dpb \cup {out[hnd]}}
    BY <1>7 DEF ParserKeepPicture, halVars, taskVars
  <2>3. InHand = dpb /\ InHand' = dpb \cup {out[hnd]}
    BY <2>2 DEF InHand
  <2>4. out[hnd] \notin InQueue \cup {disp} /\ mark = NoSlot
    BY <1>1, <2>2 DEF DisplayInv, TasksInv
  <2>5. InQueue' = InQueue
    BY <2>1 DEF InQueue
  <2> QED BY <1>1, <2>1, <2>2, <2>3, <2>4, <2>5 DEF DisplayInv
<1>8. CASE ParserSetQueueUse
  <2>1. PICK i \in Displayable : pool' = SetFlag(pool, i, "QUEUE_USE") /\ mark' = i
    BY <1>8 DEF ParserSetQueueUse
  <2>2. /\ ppc \in {"mark", "flush"} /\ mark = NoSlot
        /\ UNCHANGED <<ppc, hnd, dpb, disp, out, enqueued>>
    BY <1>8 DEF ParserSetQueueUse, halVars, taskVars
  <2>3. /\ i \in SlotIds /\ i \in pool.on_used /\ pool.queue_use[i] = 0
        /\ i \notin InQueue /\ i # disp /\ i \in InHand \ enqueued
    BY <2>2, QueueMarks
  <2>4. pool'.queue = pool.queue
    BY <2>1, <2>3, PoolSetQueueUse
  <2>5. InHand' = InHand /\ InQueue' = InQueue
    BY <2>2, <2>4 DEF InHand, InQueue
  <2> QED BY <1>1, <2>1, <2>2, <2>3, <2>4, <2>5 DEF DisplayInv
<1>9. CASE ParserEnqueue
  <2> DEFINE Q == pool.queue["QUEUE_DISPLAY"]
  <2>1. /\ mark # NoSlot /\ mark' = NoSlot /\ enqueued' = enqueued \cup {mark}
        /\ UNCHANGED <<ppc, hnd, dpb, disp, out>>
    BY <1>9 DEF ParserEnqueue, halVars, taskVars
  <2>2. mark \in SlotIds /\ ppc \in {"mark", "flush"}
    BY <1>1, <2>1, InHands DEF TasksInv
  <2>3. pool'.queue = [pool.queue EXCEPT !["QUEUE_DISPLAY"] = Append(Q, mark)]
    BY <1>9, <2>1, QueueMarks, PoolEnqueue DEF ParserEnqueue
  <2>4. Q \in Seq(SlotIds) /\ InQueue = ToSet(Q)
    BY <1>2 DEF QueueTypes, InQueue
  <2>5. pool'.queue["QUEUE_DISPLAY"] = Append(Q, mark)
        /\ pool'.queue["QUEUE_DEINTERLACE"] = pool.queue["QUEUE_DEINTERLACE"]
    BY <1>2, <2>3 DEF QueueTypes
  <2> HIDE DEF Q
  <2>6. IsInjective(Q) /\ mark \notin ToSet(Q)
    BY <1>1, <2>4 DEF DisplayInv, Q
  <2>7. ToSet(Append(Q, mark)) = InQueue \cup {mark} /\ IsInjective(Append(Q, mark))
    BY <2>2, <2>4, <2>6, AppendToSet
  <2>8. InQueue' = InQueue \cup {mark} /\ InHand' = InHand
    BY <2>1, <2>5, <2>7 DEF InQueue, InHand
  <2> QED BY <1>1, <1>2, <2>1, <2>2, <2>5, <2>7, <2>8 DEF DisplayInv
<1>10. CASE ParserDropRefer
  <2>1. PICK i \in dpb \ {out[hnd]} : /\ pool' = ClrFlag(pool, i, "CODEC_USE")
                                     /\ dpb' = dpb \ {i}
                                     /\ enqueued' = enqueued \ {i}
    BY <1>10 DEF ParserDropRefer
  <2>2. UNCHANGED <<ppc, hnd, mark, disp, out>> /\ ppc = "mark" /\ mark = NoSlot
    BY <1>10 DEF ParserDropRefer, halVars, taskVars
  <2>3. pool'.queue = pool.queue
    BY <2>1, PoolDropRefer
  <2>4. InHand' = InHand \ {i} /\ InQueue' = InQueue
    BY <2>1, <2>2, <2>3 DEF InHand, InQueue
  <2> QED BY <1>1, <2>1, <2>2, <2>3, <2>4 DEF DisplayInv
<1>11. CASE ParserPutTask
  <2>1. /\ ppc = "mark" /\ ppc' = "get" /\ mark = NoSlot /\ enqueued' = enqueued \cap dpb
        /\ UNCHANGED <<pool, mark, dpb, disp>>
    BY <1>11 DEF ParserPutTask, halVars
  <2>2. InHand' = dpb /\ dpb \subseteq InHand /\ InQueue' = InQueue
    BY <2>1 DEF InHand, InQueue
  <2> QED BY <1>1, <2>1, <2>2 DEF DisplayInv
<1>12. CASE ParserFlush \/ ParserPutEos
  <2>1. /\ UNCHANGED <<pool, mark, dpb, enqueued, disp>>
        /\ ppc \in {"get", "flush"} /\ ppc' \in {"flush", "end"}
    BY <1>12 DEF ParserFlush, ParserPutEos, halVars
  <2>2. InHand' = InHand
    BY <2>1 DEF InHand
  <2> QED BY <1>1, <2>1, <2>2, SameWay
<1>13. CASE UserReady
  <2>1. pool'.queue = pool.queue
    BY <1>13, PoolReady DEF UserReady
  <2>2. UNCHANGED <<ppc, hnd, mark, dpb, enqueued, disp, out>>
    BY <1>13 DEF UserReady, parserVars, halVars, taskVars
  <2>3. InHand' = InHand
    BY <2>2 DEF InHand
  <2> QED BY <1>1, <2>1, <2>2, <2>3 DEF DisplayInv, InQueue
<1>14. CASE HalTakeTask \/ HalClrOutput \/ HalClrRefer \/ HalPutFrame \/ HalTaskDone
  <2>1. pool'.queue = pool.queue
    <3>1. CASE HalTakeTask \/ HalPutFrame \/ HalTaskDone
      BY <3>1 DEF HalTakeTask, HalPutFrame, HalTaskDone
    <3>2. CASE HalClrOutput
      <4>1. CASE out[Hal] = NoSlot
        BY <3>2, <4>1 DEF HalClrOutput
      <4>2. CASE out[Hal] # NoSlot
        BY <3>2, <4>2, PoolClrOutput DEF HalClrOutput
      <4> QED BY <4>1, <4>2
    <3>3. CASE HalClrRefer
      BY <3>3, PoolClrRefer DEF HalClrRefer
    <3> QED BY <1>14, <3>1, <3>2, <3>3
  <2>2. disp' = disp
    BY <1>14 DEF HalTakeTask, HalClrOutput, HalClrRefer, HalPutFrame, HalTaskDone, halVars
  <2>3. /\ UNCHANGED <<ppc, hnd, mark, dpb, enqueued>>
        /\ Preparing => out'[hnd] = out[hnd]
    BY <1>14, HandKept DEF HalThread
  <2>4. InHand' = InHand
    BY <2>3 DEF InHand, Preparing
  <2>5. ppc \in {"output", "frame", "refer"} => out'[hnd'] = out[hnd]
    BY <2>3 DEF Preparing
  <2>6. ppc' \in {"output", "frame", "refer"} => out'[hnd'] \notin InQueue \cup {disp}
    BY <1>1, <2>3, <2>5 DEF DisplayInv
  <2> QED BY <1>1, <2>1, <2>2, <2>3, <2>4, <2>6, SameWay
<1>15. CASE HalDequeue
  <2> DEFINE Q == pool.queue["QUEUE_DISPLAY"]
             i == Head(Q)
  <2>1. /\ Q # <<>> /\ "QUEUE_DISPLAY" \in QueueTypes /\ disp' = i
        /\ pool' = Dequeue(pool, "QUEUE_DISPLAY")
        /\ UNCHANGED <<ppc, hnd, mark, dpb, enqueued, out>> /\ hpc = "refer"
    BY <1>15 DEF HalDequeue, CanDequeue, QueueTypes, parserVars, taskVars
  <2>2. /\ i \in InQueue /\ i \in SlotIds /\ pool.queue_use[i] = 2
        /\ ToSet(Tail(Q)) = InQueue \ {i} /\ IsInjective(Tail(Q))
    BY <2>1, QueueHead
  <2>3. pool'.queue = [pool.queue EXCEPT !["QUEUE_DISPLAY"] = Tail(Q)]
    BY <2>1, <2>2, PoolDequeue
  <2>4. /\ pool'.queue["QUEUE_DISPLAY"] = Tail(Q)
        /\ pool'.queue["QUEUE_DEINTERLACE"] = pool.queue["QUEUE_DEINTERLACE"]
    BY <1>2, <2>3 DEF QueueTypes
  <2>5. InQueue' = InQueue \ {i} /\ InHand' = InHand
    BY <2>1, <2>2, <2>4 DEF InQueue, InHand
  <2> HIDE DEF i
  <2> QED BY <1>1, <2>1, <2>2, <2>4, <2>5 DEF DisplayInv
<1>16. CASE HalClrQueueUse
  <2>1. /\ disp # NoSlot /\ disp' = NoSlot
        /\ UNCHANGED <<ppc, hnd, mark, dpb, enqueued, out>>
    BY <1>1, <1>16 DEF HalClrQueueUse, TasksInv, parserVars, taskVars
  <2>2. pool'.queue = pool.queue
    BY <1>16, <2>1, QueueMarks, PoolClrQueueUse DEF HalClrQueueUse
  <2>3. InHand' = InHand /\ InQueue' = InQueue
    BY <2>1, <2>2 DEF InHand, InQueue
  <2>4. NoSlot \notin InQueue /\ NoSlot \notin InHand
    <3>1. Preparing => out[hnd] \in SlotIds
      BY InHands
    <3> QED BY <1>1, <1>2, <3>1 DEF InHand, TypeOK, Preparing
  <2>5. ppc \in {"output", "frame", "refer"} => out[hnd] \in SlotIds
    BY InHands DEF Preparing
  <2> QED BY <1>1, <1>2, <2>1, <2>2, <2>3, <2>4, <2>5 DEF DisplayInv
<1>17. CASE Finished \/ UNCHANGED vars
  BY <1>1, <1>17 DEF Finished, vars, DisplayInv, InQueue, InHand, parserVars, halVars, taskVars
<1> QED BY <1>3, <1>4, <1>5, <1>6, <1>7, <1>8, <1>9, <1>10, <1>11, <1>12, <1>13, <1>14,
           <1>15, <1>16, <1>17 DEF Next, Parser, HalThread

(* The slot about to be shown stays ready. *)
LEMMA ReadyStep ==
    ASSUME IInv, [Next]_vars
    PROVE  ReadyInv'
<1>1. TypeOK /\ TasksInv /\ ReadyInv
  BY DEF IInv
<1>2. CASE ParserGetSlot
  <2>1. /\ FirstUnused(pool) \in SlotIds /\ FirstUnused(pool) \notin pool.on_used
        /\ pool'.not_ready = pool.not_ready \cup {FirstUnused(pool)}
    BY <1>2, PoolGetSlot DEF ParserGetSlot
  <2>2. FirstUnused(pool) # disp
    BY <2>1, UnusedSlot
  <2>3. UNCHANGED <<hpc, disp>>
    BY <1>2 DEF ParserGetSlot, halVars
  <2> QED BY <1>1, <2>1, <2>2, <2>3 DEF ReadyInv
<1>3. CASE ParserSetOutput
  <2>1. pool'.not_ready = pool.not_ready \cup {out[hnd]}
    BY <1>3, PoolSetOutput DEF ParserSetOutput, Preparing
  <2>2. out[hnd] \in pool.not_ready
    BY <1>3, InHands DEF ParserSetOutput, Preparing
  <2>3. UNCHANGED <<hpc, disp>>
    BY <1>3 DEF ParserSetOutput, halVars
  <2> QED BY <1>1, <2>1, <2>2, <2>3 DEF ReadyInv
<1>4. CASE ParserSetFrame
  <2>1. PICK info \in Infos :
           pool' = SetFrame(pool, out[hnd], [pts |-> count + 1, info |-> info])
    BY <1>4 DEF ParserSetFrame
  <2>2. [pts |-> count + 1, info |-> info] \in Frames
    BY <1>1, <1>4, MaxFramesAssumption DEF ParserSetFrame, TasksInv, TypeOK, Frames
  <2>3. pool'.not_ready = pool.not_ready
    BY <1>4, <2>1, <2>2, PoolSetFrame DEF ParserSetFrame, Preparing
  <2> QED BY <1>1, <1>4, <2>3 DEF ReadyInv, ParserSetFrame, halVars
<1>5. CASE ParserSetRefer
  <2>1. pool'.not_ready = pool.not_ready
    BY <1>5, PoolSetRefer DEF ParserSetRefer, Preparing
  <2> QED BY <1>1, <1>5, <2>1 DEF ReadyInv, ParserSetRefer, halVars
<1>6. CASE ParserKeepPicture
  <2>1. pool'.not_ready = pool.not_ready
    <3>1. CASE UNCHANGED <<pool, dpb>>
      BY <3>1
    <3>2. CASE pool' = SetFlag(pool, out[hnd], "CODEC_USE")
      BY <1>6, <3>2, PoolKeep DEF ParserKeepPicture, Preparing
    <3> QED BY <1>6, <3>1, <3>2 DEF ParserKeepPicture
  <2> QED BY <1>1, <1>6, <2>1 DEF ReadyInv, ParserKeepPicture, halVars
<1>7. CASE ParserSetQueueUse
  <2>1. PICK i \in Displayable : pool' = SetFlag(pool, i, "QUEUE_USE")
    BY <1>7 DEF ParserSetQueueUse
  <2>2. i \in SlotIds /\ i \in pool.on_used /\ pool.queue_use[i] = 0
    BY <1>7, QueueMarks DEF ParserSetQueueUse
  <2>3. pool'.not_ready = pool.not_ready
    BY <2>1, <2>2, PoolSetQueueUse
  <2> QED BY <1>1, <1>7, <2>3 DEF ReadyInv, ParserSetQueueUse, halVars
<1>8. CASE ParserEnqueue
  <2>1. pool'.not_ready = pool.not_ready
    BY <1>8, QueueMarks, PoolEnqueue DEF ParserEnqueue
  <2> QED BY <1>1, <1>8, <2>1 DEF ReadyInv, ParserEnqueue, halVars
<1>9. CASE ParserDropRefer
  <2>1. pool'.not_ready = pool.not_ready
    BY <1>9, PoolDropRefer DEF ParserDropRefer
  <2> QED BY <1>1, <1>9, <2>1 DEF ReadyInv, ParserDropRefer, halVars
<1>10. CASE ParserPutTask \/ ParserFlush \/ ParserPutEos \/ Finished \/ UNCHANGED vars
  BY <1>1, <1>10 DEF ReadyInv, ParserPutTask, ParserFlush, ParserPutEos, Finished, vars,
                     parserVars, halVars
<1>11. CASE UserReady
  <2>1. pool'.not_ready = pool.not_ready
    BY <1>11, PoolReady DEF UserReady
  <2> QED BY <1>1, <1>11, <2>1 DEF ReadyInv, UserReady, halVars
<1>12. CASE HalTakeTask \/ HalClrOutput \/ HalClrRefer \/ HalTaskDone \/ HalClrQueueUse
  BY <1>12 DEF ReadyInv, HalTakeTask, HalClrOutput, HalClrRefer, HalTaskDone,
               HalClrQueueUse, halVars
<1>13. CASE HalDequeue
  <2>1. /\ disp' = Head(pool.queue["QUEUE_DISPLAY"]) /\ "QUEUE_DISPLAY" \in QueueTypes
        /\ pool.queue["QUEUE_DISPLAY"] # <<>>
        /\ Head(pool.queue["QUEUE_DISPLAY"]) \notin pool.not_ready
        /\ pool' = Dequeue(pool, "QUEUE_DISPLAY")
    BY <1>13 DEF HalDequeue, CanDequeue, QueueTypes
  <2>2. pool'.not_ready = pool.not_ready
    BY <2>1, QueueHead, PoolDequeue
  <2> QED BY <2>1, <2>2 DEF ReadyInv
<1>14. CASE HalPutFrame
  BY <1>1, <1>14 DEF ReadyInv, HalPutFrame
<1> QED BY <1>2, <1>3, <1>4, <1>5, <1>6, <1>7, <1>8, <1>9, <1>10, <1>11, <1>12, <1>13,
           <1>14 DEF Next, Parser, HalThread
-----------------------------------------------------------------------------
(* The frames. *)

(* The slots that are on_used after a step are those somebody has then. *)
LEMMA UsedIsHeldNext ==
    TypeOK' /\ UsedOK(pool)' /\ MarksInv' => pool'.on_used = Held'
<1>1. TypeOK /\ UsedOK(pool) /\ MarksInv => pool.on_used = Held
  BY UsedIsHeld
<1>2. TypeOK' /\ UsedOK(pool)' /\ MarksInv' => (pool.on_used = Held)'
  BY <1>1, PTL
<1> QED BY <1>2

(* A step that takes no new slot and stores no frame changes the queue only *)
(* to put the marked slot in it or to take out its head, and at most one   *)
(* slot leaves the used ones.                                              *)
LEMMA QuietStep ==
    ASSUME IInv, [Next]_vars, ~ParserGetSlot, ~ParserSetFrame
    PROVE  /\ \E i : AtMostLeaves(pool, pool', i)
           /\ ~ParserEnqueue /\ ~HalDequeue => pool'.queue = pool.queue
           /\ ParserEnqueue \/ HalDequeue => pool'.frame = pool.frame
<1>1. /\ \A i : \A j \in Slots(pool) : j \in SlotIds
      /\ NoSlot \notin SlotIds /\ TypeOK /\ TasksInv
  BY PoolOfSlots, InHands DEF IInv
<1>2. ASSUME pool'.frame = pool.frame, pool'.on_used = pool.on_used
      PROVE  AtMostLeaves(pool, pool', NoSlot)
  BY <1>1, <1>2 DEF AtMostLeaves
<1>3. CASE ParserSetOutput
  <2>1. /\ pool'.frame = pool.frame /\ pool'.on_used = pool.on_used
        /\ pool'.queue = pool.queue
    BY <1>3, PoolSetOutput DEF ParserSetOutput, Preparing
  <2>2. ~ParserEnqueue /\ ~HalDequeue
    BY <1>1, <1>3 DEF ParserSetOutput, ParserEnqueue, HalDequeue, TasksInv, halVars
  <2> QED BY <1>2, <2>1, <2>2
<1>4. CASE ParserSetRefer
  <2>1. /\ pool'.frame = pool.frame /\ pool'.on_used = pool.on_used
        /\ pool'.queue = pool.queue
    BY <1>4, PoolSetRefer DEF ParserSetRefer, Preparing
  <2> QED BY <1>2, <2>1
<1>5. CASE ParserKeepPicture
  <2>1. /\ pool'.frame = pool.frame /\ pool'.on_used = pool.on_used
        /\ pool'.queue = pool.queue
    <3>1. CASE UNCHANGED <<pool, dpb>>
      BY <3>1
    <3>2. CASE pool' = SetFlag(pool, out[hnd], "CODEC_USE")
      BY <1>5, <3>2, PoolKeep DEF ParserKeepPicture, Preparing
    <3> QED BY <1>5, <3>1, <3>2 DEF ParserKeepPicture
  <2> QED BY <1>2, <2>1
<1>6. CASE ParserSetQueueUse
  <2>1. PICK i \in Displayable : pool' = SetFlag(pool, i, "QUEUE_USE")
    BY <1>6 DEF ParserSetQueueUse
  <2>2. i \in SlotIds /\ i \in pool.on_used /\ pool.queue_use[i] = 0
    BY <1>6, QueueMarks DEF ParserSetQueueUse
  <2>3. /\ pool'.frame = pool.frame /\ pool'.on_used = pool.on_used
        /\ pool'.queue = pool.queue
    BY <2>1, <2>2, PoolSetQueueUse
  <2> QED BY <1>2, <2>3
<1>7. CASE ParserEnqueue
  <2>1. pool'.frame = pool.frame /\ pool'.on_used = pool.on_used
    BY <1>7, QueueMarks, PoolEnqueue DEF ParserEnqueue
  <2> QED BY <1>2, <1>7, <2>1
<1>8. CASE ParserDropRefer
  <2>1. PICK i \in dpb \ {out[hnd]} : pool' = ClrFlag(pool, i, "CODEC_USE")
    BY <1>8 DEF ParserDropRefer
  <2>2. AtMostLeaves(pool, pool', i) /\ pool'.queue = pool.queue
    BY <2>1, PoolDropRefer
  <2>3. ~ParserEnqueue /\ ~HalDequeue
    BY <1>8 DEF ParserDropRefer, ParserEnqueue, HalDequeue, halVars
  <2> QED BY <2>2, <2>3
<1>9. CASE UserReady
  <2>1. /\ pool'.frame = pool.frame /\ pool'.on_used = pool.on_used
        /\ pool'.queue = pool.queue
    BY <1>9, PoolReady DEF UserReady
  <2> QED BY <1>2, <2>1
<1>10. CASE HalClrOutput
  <2>1. ~ParserEnqueue /\ ~HalDequeue
    BY <1>10 DEF HalClrOutput, ParserEnqueue, HalDequeue, halVars
  <2>2. CASE out[Hal] = NoSlot
    <3>1. pool' = pool
      BY <1>10, <2>2 DEF HalClrOutput
    <3> QED BY <1>2, <3>1
  <2>3. CASE out[Hal] # NoSlot
    <3>1. AtMostLeaves(pool, pool', out[Hal]) /\ pool'.queue = pool.queue
      BY <1>10, <2>3, PoolClrOutput DEF HalClrOutput
    <3> QED BY <2>1, <3>1
  <2> QED BY <2>2, <2>3
<1>11. CASE HalClrRefer
  <2>1. PICK i \in refer[Hal] : pool' = ClrFlag(pool, i, "HAL_INPUT")
    BY <1>11 DEF HalClrRefer
  <2>2. AtMostLeaves(pool, pool', i) /\ pool'.queue = pool.queue
    BY <2>1, PoolClrRefer
  <2>3. ~ParserEnqueue /\ ~HalDequeue
    <3>1. /\ refer[Hal] # {} /\ hpc = "refer" /\ hpc' = hpc /\ mark' = mark
      BY <1>11 DEF HalClrRefer, parserVars, halVars
    <3> QED BY <3>1 DEF ParserEnqueue, HalDequeue
  <2> QED BY <2>2, <2>3
<1>12. CASE HalDequeue
  <2>1. /\ pool.queue["QUEUE_DISPLAY"] # <<>> /\ "QUEUE_DISPLAY" \in QueueTypes
        /\ pool' = Dequeue(pool, "QUEUE_DISPLAY")
    BY <1>12 DEF HalDequeue, CanDequeue, QueueTypes
  <2>2. pool'.frame = pool.frame /\ pool'.on_used = pool.on_used
    BY <2>1, QueueHead, PoolDequeue
  <2> QED BY <1>2, <1>12, <2>2
<1>13. CASE HalClrQueueUse
  <2>1. disp # NoSlot /\ pool' = ClrFlag(pool, disp, "QUEUE_USE")
    BY <1>1, <1>13 DEF HalClrQueueUse, TasksInv
  <2>2. AtMostLeaves(pool, pool', disp) /\ pool'.queue = pool.queue
    BY <2>1, QueueMarks, PoolClrQueueUse
  <2>3. ~ParserEnqueue /\ ~HalDequeue
    BY <1>13 DEF HalClrQueueUse, ParserEnqueue, HalDequeue, halVars
  <2> QED BY <2>2, <2>3
<1>14. CASE \/ ParserPutTask \/ ParserFlush \/ ParserPutEos \/ HalTakeTask
            \/ HalPutFrame \/ HalTaskDone \/ Finished \/ UNCHANGED vars
  <2>1. pool' = pool
    BY <1>14 DEF ParserPutTask, ParserFlush, ParserPutEos, HalTakeTask, HalPutFrame,
                 HalTaskDone, Finished, vars
  <2> QED BY <1>2, <2>1
<1> QED BY <1>3, <1>4, <1>5, <1>6, <1>7, <1>8, <1>9, <1>10, <1>11, <1>12, <1>13, <1>14
        DEF Next, Parser, HalThread

(* What parsing a frame stores, and where: in a slot that had none. *)
LEMMA StoreFrame ==
    ASSUME IInv, ParserSetFrame
    PROVE  /\ out[hnd] \in SlotIds /\ pool.frame[out[hnd]] = None
           /\ \E f \in Frames : f # None /\ pool'.frame = [pool.frame EXCEPT ![out[hnd]] = f]
           /\ pool'.on_used = pool.on_used /\ pool'.queue = pool.queue
<1>1. ppc = "frame"
  BY DEF ParserSetFrame
<1>2. PICK info \in Infos :
         pool' = SetFrame(pool, out[hnd], [pts |-> count + 1, info |-> info])
  BY DEF ParserSetFrame
<1> DEFINE f == [pts |-> count + 1, info |-> info]
<1>3. f \in Frames /\ f # None
  <2>1. count + 1 \in 1 .. MaxFrames
    BY <1>1, MaxFramesAssumption DEF IInv, TypeOK, TasksInv
  <2>2. f \in Frames
    BY <2>1 DEF Frames
  <2> QED BY <2>2, NoneAssumption DEF Frames
<1> HIDE DEF f
<1>4. /\ pool'.frame = [pool.frame EXCEPT ![out[hnd]] = f]
      /\ pool'.on_used = pool.on_used /\ pool'.queue = pool.queue
  BY <1>1, <1>2, <1>3, PoolSetFrame DEF Preparing, f
<1>5. out[hnd] \in SlotIds
  BY <1>1, InHands DEF Preparing
<1>6. pool.frame[out[hnd]] = None
  BY <1>1, <1>5 DEF IInv, FramesInv
<1> QED BY <1>3, <1>4, <1>5, <1>6

(* A frame is there as long as its slot is used. *)
LEMMA FramesStep ==
    ASSUME IInv, [Next]_vars
    PROVE  FramesInv'
<1>1. TypeOK /\ TasksInv /\ FramesInv
  BY DEF IInv
<1>2. pool.frame \in [SlotIds -> Frames \cup {None}] /\ Slots(pool) = SlotIds
      /\ out \in [Owners -> SlotOrNone]
  BY <1>1, PoolOfSlots DEF TypeOK
<1>3. CASE ParserGetSlot
  <2> DEFINE s == FirstUnused(pool)
  <2>1. PICK t \in IdleTasks : hnd' = t /\ out' = [out EXCEPT ![t] = s]
    BY <1>3 DEF ParserGetSlot
  <2>2. /\ s \in SlotIds /\ s \notin pool.on_used /\ pool'.on_used = pool.on_used \cup {s}
        /\ pool'.frame = pool.frame
    BY <1>3, PoolGetSlot DEF ParserGetSlot
  <2> HIDE DEF s
  <2>3. out'[hnd'] = s
    BY <1>1, <2>1, IdleTask DEF TypeOK
  <2>4. pool.frame[s] = None
    BY <2>2, UnusedSlot
  <2>5. ppc = "get" /\ ppc' = "output"
    BY <1>3 DEF ParserGetSlot
  <2> QED BY <1>1, <2>2, <2>3, <2>4, <2>5 DEF FramesInv
<1>4. CASE ParserSetFrame
  <2>1. PICK f \in Frames : f # None /\ pool'.frame = [pool.frame EXCEPT ![out[hnd]] = f]
    BY <1>4, StoreFrame
  <2>2. out[hnd] \in SlotIds /\ out[hnd] \in pool.on_used /\ pool'.on_used = pool.on_used
    BY <1>4, StoreFrame, InHands DEF ParserSetFrame, Preparing
  <2>3. \A i \in SlotIds : pool'.frame[i] = IF i = out[hnd] THEN f ELSE pool.frame[i]
    BY <1>2, <2>1, <2>2
  <2>4. ppc = "frame" /\ ppc' = "refer"
    BY <1>4 DEF ParserSetFrame
  <2> QED BY <1>1, <2>1, <2>2, <2>3, <2>4 DEF FramesInv
<1>5. CASE ~ParserGetSlot /\ ~ParserSetFrame
  <2>1. PICK k : AtMostLeaves(pool, pool', k)
    BY <1>5, QuietStep
  <2>2. /\ ppc' \in {"output", "frame"} <=> ppc \in {"output", "frame"}
        /\ ppc \in {"output", "frame"} => out'[hnd'] = out[hnd]
    <3>1. CASE ParserSetOutput
      BY <3>1 DEF ParserSetOutput, taskVars
    <3>2. CASE ParserSetRefer \/ UserReady
      BY <3>2 DEF ParserSetRefer, UserReady, parserVars, taskVars
    <3>3. CASE ParserEnqueue
      BY <1>1, <3>3 DEF ParserEnqueue, TasksInv
    <3>4. CASE \/ ParserKeepPicture \/ ParserSetQueueUse \/ ParserDropRefer
               \/ ParserPutTask \/ ParserFlush \/ ParserPutEos
      BY <3>4 DEF ParserKeepPicture, ParserSetQueueUse, ParserDropRefer, ParserPutTask,
                  ParserFlush, ParserPutEos
    <3>5. CASE HalThread
      BY <3>5, HandKept DEF Preparing
    <3>6. CASE Finished \/ UNCHANGED vars
      BY <3>6 DEF Finished, vars, parserVars, taskVars
    <3> QED BY <1>5, <3>1, <3>2, <3>3, <3>4, <3>5, <3>6 DEF Next, Parser
  <2> QED BY <1>1, <1>2, <2>1, <2>2 DEF FramesInv, AtMostLeaves
<1> QED BY <1>3, <1>4, <1>5

(* Nobody's frame is replaced. *)
LEMMA FrameStays ==
    ASSUME IInv, [Next]_vars, NEW i \in Held, i \in Held', pool.frame[i] # None
    PROVE  pool'.frame[i] = pool.frame[i]
<1>1. i \in pool.on_used /\ i \in SlotIds /\ Slots(pool) = SlotIds
  <2>1. i \in pool.on_used
    BY InHands
  <2> QED BY <2>1, PoolOfSlots DEF IInv
<1>2. i \in pool'.on_used
  <2>1. TypeOK' /\ MarksInv'
    BY TypeStep, MarksStep
  <2>2. UsedOK(pool)'
    BY PoolStep DEF Sound, UsedOK
  <2> QED BY <2>1, <2>2, UsedIsHeldNext
<1>3. CASE ParserGetSlot
  BY <1>3, PoolGetSlot DEF ParserGetSlot
<1>4. CASE ParserSetFrame
  <2>1. PICK f \in Frames : pool'.frame = [pool.frame EXCEPT ![out[hnd]] = f]
    BY <1>4, StoreFrame
  <2>2. i # out[hnd]
    BY <1>4, StoreFrame
  <2>3. pool.frame \in [SlotIds -> Frames \cup {None}]
    BY PoolOfSlots DEF IInv
  <2> QED BY <1>1, <2>1, <2>2, <2>3
<1>5. CASE ~ParserGetSlot /\ ~ParserSetFrame
  <2>1. PICK k : AtMostLeaves(pool, pool', k)
    BY <1>5, QuietStep
  <2> QED BY <1>1, <1>2, <2>1 DEF AtMostLeaves
<1> QED BY <1>3, <1>4, <1>5
-----------------------------------------------------------------------------
(* The order of the pictures. *)

(* Unless a picture is put in the queue, taken out of it or shown, the way *)
(* to display stays as it is, and so do the frames of its slots.           *)
LEMMA WayStays ==
    ASSUME IInv, [Next]_vars, ~ParserEnqueue, ~HalDequeue, ~HalPutFrame
    PROVE  /\ pool'.queue = pool.queue /\ order' = order /\ shown' = shown
           /\ (hpc' = "put") <=> (hpc = "put")
           /\ hpc = "put" => disp' = disp /\ pool'.frame[disp] = pool.frame[disp]
           /\ \A i \in InQueue : pool'.frame[i] = pool.frame[i]
<1>1. pool'.queue = pool.queue
  BY PoolGetSlot, StoreFrame, QuietStep DEF ParserGetSlot
<1>2. /\ order' = order /\ shown' = shown
      /\ (hpc' = "put") <=> (hpc = "put")
      /\ hpc = "put" => disp' = disp
  <2>1. CASE \/ ParserGetSlot \/ ParserSetOutput \/ ParserSetFrame \/ ParserKeepPicture
             \/ ParserSetQueueUse \/ ParserDropRefer
    BY <2>1 DEF ParserGetSlot, ParserSetOutput, ParserSetFrame, ParserKeepPicture,
                ParserSetQueueUse, ParserDropRefer, halVars
  <2>2. CASE ParserSetRefer \/ UserReady \/ HalClrRefer
    BY <2>2 DEF ParserSetRefer, UserReady, HalClrRefer, parserVars, halVars
  <2>3. CASE ParserPutTask \/ ParserFlush \/ ParserPutEos
    BY <2>3 DEF ParserPutTask, ParserFlush, ParserPutEos, halVars
  <2>4. CASE HalTakeTask \/ HalClrOutput \/ HalClrQueueUse \/ HalTaskDone
    BY <2>4 DEF HalTakeTask, HalClrOutput, HalClrQueueUse, HalTaskDone, parserVars
  <2>5. CASE Finished \/ UNCHANGED vars
    BY <2>5 DEF Finished, vars, parserVars, halVars
  <2> QED BY <2>1, <2>2, <2>3, <2>4, <2>5 DEF Next, Parser, HalThread
<1>3. InQueue' = InQueue
  BY <1>1 DEF InQueue
<1>4. \A i \in InQueue : i \in Held /\ i \in Held' /\ pool.frame[i] # None
  <2> SUFFICES ASSUME NEW i \in InQueue
               PROVE  i \in Held /\ i \in Held' /\ pool.frame[i] # None
    OBVIOUS
  <2>1. i # NoSlot /\ pool.frame[i] # None
    BY InHands, FrameThere, PoolOfSlots DEF IInv
  <2> QED BY <1>3, <2>1 DEF Held
<1>5. hpc = "put" => disp \in Held /\ disp \in Held' /\ pool.frame[disp] # None
  <2> SUFFICES ASSUME hpc = "put"
               PROVE  disp \in Held /\ disp \in Held' /\ pool.frame[disp] # None
    OBVIOUS
  <2>1. disp # NoSlot /\ pool.frame[disp] # None
    BY FrameThere DEF IInv, TasksInv
  <2> QED BY <1>2, <2>1 DEF Held
<1> QED BY <1>1, <1>2, <1>4, <1>5, FrameStays

(* Pictures come out in the order they were enqueued. *)
LEMMA OrderStep ==
    ASSUME IInv, [Next]_vars
    PROVE  OrderInv'
<1> DEFINE Q == pool.queue["QUEUE_DISPLAY"]
           n == Len(shown)
           m == Len(Q)
<1>1. TypeOK /\ TasksInv /\ OrderInv
  BY DEF IInv
<1>2. /\ Q \in Seq(SlotIds) /\ n \in Nat /\ m \in Nat /\ InPut \in {0, 1}
      /\ order \in Seq(1 .. MaxFrames) /\ shown \in Seq(1 .. MaxFrames)
      /\ pool.queue \in [QueueTypes -> Seq(SlotIds)] /\ "QUEUE_DISPLAY" \in QueueTypes
      /\ InQueue = ToSet(Q) /\ \A k \in 1 .. m : Q[k] \in InQueue
  <2>1. /\ Q \in Seq(SlotIds) /\ pool.queue \in [QueueTypes -> Seq(SlotIds)]
    BY <1>1, PoolOfSlots
  <2>2. order \in Seq(1 .. MaxFrames) /\ shown \in Seq(1 .. MaxFrames)
    BY <1>1 DEF TypeOK
  <2>3. n \in Nat /\ m \in Nat
    BY <2>1, <2>2
  <2>4. InQueue = ToSet(Q) /\ \A k \in 1 .. m : Q[k] \in InQueue
    BY <2>1 DEF InQueue, ToSet
  <2> QED BY <2>1, <2>2, <2>3, <2>4 DEF InPut, QueueTypes
<1>3. /\ Len(order) = n + InPut + m
      /\ \A k \in 1 .. n : shown[k] = order[k]
      /\ hpc = "put" => order[n + 1] = pool.frame[disp].pts
      /\ \A k \in 1 .. m : order[n + InPut + k] = pool.frame[Q[k]].pts
  BY <1>1 DEF OrderInv
<1> HIDE DEF Q, n, m
<1>4. CASE ParserEnqueue
  <2>1. /\ mark \in SlotIds /\ pool.frame[mark].pts \in 1 .. MaxFrames
        /\ order' = Append(order, pool.frame[mark].pts)
        /\ UNCHANGED <<hpc, disp, shown>>
    BY <1>4, InHands, FrameThere DEF ParserEnqueue, halVars
  <2>2. /\ pool'.queue = [pool.queue EXCEPT !["QUEUE_DISPLAY"] = Append(Q, mark)]
        /\ pool'.frame = pool.frame
    BY <1>4, QueueMarks, PoolEnqueue DEF ParserEnqueue, Q
  <2> DEFINE R == pool'.queue["QUEUE_DISPLAY"]
  <2>3. R = Append(Q, mark)
    BY <1>2, <2>2
  <2>4. /\ Len(R) = m + 1 /\ R[m + 1] = mark /\ \A k \in 1 .. m : R[k] = Q[k]
    BY <1>2, <2>1, <2>3 DEF m
  <2>5. /\ Len(order') = Len(order) + 1 /\ order'[Len(order) + 1] = pool.frame[mark].pts
        /\ \A k \in 1 .. Len(order) : order'[k] = order[k]
    BY <1>2, <2>1
  <2>6. InPut' = InPut
    BY <2>1 DEF InPut
  <2> HIDE DEF R
  <2>7. Len(order') = n + InPut + Len(R)
    <3>1. Len(order') = (n + InPut + m) + 1
      BY <1>3, <2>5
    <3>2. n \in Nat /\ m \in Nat /\ InPut \in Int
      BY <1>2
    <3> QED BY <2>4, <3>1, <3>2
  <2>8. \A k \in 1 .. n : shown[k] = order'[k]
    BY <1>2, <1>3, <2>5
  <2>9. hpc = "put" => order'[n + 1] = pool.frame[disp].pts
    BY <1>2, <1>3, <2>5 DEF InPut
  <2>10. \A k \in 1 .. Len(R) : order'[n + InPut + k] = pool.frame[R[k]].pts
    <3> SUFFICES ASSUME NEW k \in 1 .. Len(R)
                 PROVE  order'[n + InPut + k] = pool.frame[R[k]].pts
      OBVIOUS
    <3>1. CASE k \in 1 .. m
      <4>1. n + InPut + k \in 1 .. n + InPut + m
        BY <1>2, <3>1
      <4>2. n + InPut + k \in 1 .. Len(order)
        BY <1>3, <4>1
      <4>3. order'[n + InPut + k] = order[n + InPut + k] /\ R[k] = Q[k]
        BY <2>4, <2>5, <3>1, <4>2
      <4> QED BY <1>3, <3>1, <4>3
    <3>2. CASE k = m + 1
      <4>1. n + InPut + k = Len(order) + 1
        BY <1>2, <1>3, <3>2
      <4> QED BY <2>4, <2>5, <3>2, <4>1
    <3> QED BY <1>2, <2>4, <3>1, <3>2
  <2> QED BY <2>1, <2>2, <2>6, <2>7, <2>8, <2>9, <2>10 DEF OrderInv, n, R
<1>5. CASE HalDequeue
  <2> DEFINE R == pool'.queue["QUEUE_DISPLAY"]
  <2>1. /\ Q # <<>> /\ disp' = Head(Q) /\ pool' = Dequeue(pool, "QUEUE_DISPLAY")
        /\ hpc = "refer" /\ hpc' = "put" /\ UNCHANGED <<order, shown>>
    BY <1>5 DEF HalDequeue, CanDequeue, parserVars, Q
  <2>2. /\ pool'.queue = [pool.queue EXCEPT !["QUEUE_DISPLAY"] = Tail(Q)]
        /\ pool'.frame = pool.frame
    BY <1>2, <2>1, QueueHead, PoolDequeue DEF Q
  <2>3. R = Tail(Q)
    BY <1>2, <2>2
  <2>4. Len(R) = m - 1 /\ m > 0 /\ disp' = Q[1] /\ \A k \in 1 .. m - 1 : R[k] = Q[k + 1]
    BY <1>2, <2>1, <2>3 DEF m
  <2>5. InPut = 0 /\ InPut' = 1
    BY <2>1 DEF InPut
  <2>6. Len(order) = n + 1 + Len(R)
    BY <1>2, <1>3, <2>4, <2>5
  <2>7. order[n + 1] = pool.frame[disp'].pts
    BY <1>2, <1>3, <2>4, <2>5
  <2>8. \A k \in 1 .. Len(R) : order[n + 1 + k] = pool.frame[R[k]].pts
    <3> SUFFICES ASSUME NEW k \in 1 .. Len(R)
                 PROVE  order[n + 1 + k] = pool.frame[R[k]].pts
      OBVIOUS
    <3>1. k + 1 \in 1 .. m /\ n + InPut + (k + 1) = n + 1 + k /\ R[k] = Q[k + 1]
      BY <1>2, <2>4, <2>5
    <3>2. order[n + InPut + (k + 1)] = pool.frame[Q[k + 1]].pts
      BY <1>3, <3>1
    <3> QED BY <3>1, <3>2
  <2> QED BY <1>3, <2>1, <2>2, <2>5, <2>6, <2>7, <2>8 DEF OrderInv, n
<1>6. CASE HalPutFrame
  <2>1. /\ pool' = pool /\ order' = order /\ hpc = "put" /\ hpc' = "clear"
        /\ shown' = Append(shown, pool.frame[disp].pts)
    BY <1>6 DEF HalPutFrame, parserVars
  <2>2. InPut = 1 /\ InPut' = 0
    BY <2>1 DEF InPut
  <2>3. pool.frame[disp].pts \in 1 .. MaxFrames
    BY <1>1, <2>1, InHands, FrameThere DEF TasksInv
  <2>4. /\ Len(shown') = n + 1 /\ shown'[n + 1] = pool.frame[disp].pts
        /\ \A k \in 1 .. n : shown'[k] = shown[k]
    BY <1>2, <2>1, <2>3 DEF n
  <2>5. \A k \in 1 .. n + 1 : shown'[k] = order[k]
    <3> SUFFICES ASSUME NEW k \in 1 .. n + 1 PROVE shown'[k] = order[k]
      OBVIOUS
    <3>1. CASE k = n + 1
      BY <1>3, <2>1, <2>4, <3>1
    <3>2. CASE k \in 1 .. n
      BY <1>3, <2>4, <3>2
    <3> QED BY <1>2, <3>1, <3>2
  <2>6. \A k \in 1 .. m : order[n + 1 + 0 + k] = pool.frame[Q[k]].pts
    <3> SUFFICES ASSUME NEW k \in 1 .. m
                 PROVE  order[n + 1 + 0 + k] = pool.frame[Q[k]].pts
      OBVIOUS
    <3>1. n + 1 + 0 + k = n + InPut + k
      BY <1>2, <2>2
    <3> QED BY <1>3, <3>1
  <2>7. Len(order) = n + 1 + 0 + m
    BY <1>2, <1>3, <2>2
  <2> QED BY <2>1, <2>2, <2>4, <2>5, <2>6, <2>7 DEF OrderInv, Q, n, m
<1>7. CASE ~ParserEnqueue /\ ~HalDequeue /\ ~HalPutFrame
  <2>1. /\ pool'.queue = pool.queue /\ order' = order /\ shown' = shown
        /\ (hpc' = "put") <=> (hpc = "put")
        /\ hpc = "put" => disp' = disp /\ pool'.frame[disp] = pool.frame[disp]
        /\ \A i \in InQueue : pool'.frame[i] = pool.frame[i]
    BY <1>7, WayStays
  <2>2. InPut' = InPut
    BY <2>1 DEF InPut
  <2>3. \A k \in 1 .. m : order[n + InPut + k] = pool'.frame[Q[k]].pts
    BY <1>2, <1>3, <2>1
  <2> QED BY <1>3, <2>1, <2>2, <2>3 DEF OrderInv, Q, n, m
<1> QED BY <1>4, <1>5, <1>6, <1>7

-----------------------------------------------------------------------------
(* The invariant. *)

(* Everything is idle at first. *)
LEMMA InitInv == Init => IInv
<1> SUFFICES ASSUME Init PROVE IInv
  OBVIOUS
<1> USE NumSlotsAssumption DEF Init
<1>1. /\ pool \in PoolType(0 .. NumSlots - 1, Frames, Infos \cup {None})
      /\ UsedOK(pool) /\ CountOK(pool)
      /\ pool.on_used = {} /\ pool.not_ready = {} /\ pool.codec_use = {}
      /\ pool.hal_output = {}
      /\ \A i \in 0 .. NumSlots - 1 : /\ pool.hal_use[i] = 0 /\ pool.queue_use[i] = 0
                                      /\ pool.frame[i] = None
      /\ \A t \in QueueTypes : pool.queue[t] = <<>>
      /\ ~pool.dumped
  <2>1. pool = SlotsInit(NumSlots) /\ None \in Infos \cup {None} /\ NumSlots \in Nat
    OBVIOUS
  <2> QED BY <2>1, SlotsInitFacts
<1>2. NoSlot \notin SlotIds /\ pool \in Pools
  BY <1>1 DEF NoSlot, SlotIds, Pools
<1>3. TypeOK
  BY <1>2, MaxFramesAssumption DEF TypeOK, ParserPcs, HalPcs, SlotOrNone
<1>4. InQueue = {} /\ pool.queue["QUEUE_DISPLAY"] = <<>>
      /\ pool.queue["QUEUE_DEINTERLACE"] = <<>>
  <2>1. pool.queue["QUEUE_DISPLAY"] = <<>> /\ pool.queue["QUEUE_DEINTERLACE"] = <<>>
    BY <1>1 DEF QueueTypes
  <2> QED BY <2>1 DEF InQueue, ToSet
<1>5. TasksInv
  <2>1. ToSet(fifo) = {} /\ IsInjective(fifo)
    BY DEF ToSet, IsInjective
  <2>2. Hal \in Owners /\ \A t \in Tasks : t \in Owners
    BY DEF Owners
  <2> QED BY <2>1, <2>2 DEF TasksInv, Preparing
<1>6. MarksInv
  <2>1. Awaited = {} /\ Unmarked = {}
    BY DEF Awaited, Unmarked
  <2>2. \A i \in SlotIds : HalUses(i) = {} /\ QueueUses(i) = 0
    BY <1>2, <1>4 DEF HalUses, QueueUses
  <2>3. \A i \in SlotIds : pool.hal_use[i] = Cardinality(HalUses(i))
    BY <1>1, <2>2, FS_EmptySet DEF SlotIds
  <2> QED BY <1>1, <2>1, <2>2, <2>3 DEF MarksInv, SlotIds
<1>7. DisplayInv
  BY <1>4 DEF DisplayInv, InHand, IsInjective
<1>8. FramesInv
  BY <1>1 DEF FramesInv, SlotIds
<1>9. ReadyInv /\ OrderInv
  BY <1>4 DEF ReadyInv, OrderInv, InPut
<1> QED BY <1>1, <1>3, <1>5, <1>6, <1>7, <1>8, <1>9 DEF IInv

(* Every step preserves the invariant. *)
LEMMA NextInv ==
    ASSUME IInv, [Next]_vars
    PROVE  IInv'
<1>1. UsedOK(pool)' /\ CountOK(pool)' /\ (~pool.dumped)'
  BY PoolStep DEF Sound, UsedOK, CountOK
<1> QED BY <1>1, TypeStep, TasksStep, MarksStep, DisplayStep, FramesStep, ReadyStep,
           OrderStep DEF IInv

(* The invariant holds of every state of the slots and their two threads.  *)
THEOREM Inductive == Spec => []IInv
<1>1. IInv /\ [Next]_vars => IInv'
  BY NextInv
<1> QED BY <1>1, InitInv, PTL DEF Spec

(* The variables stay in their sets: the slots are those of the pool, each *)
(* counter fits its bit field, tasks and pictures are those there are.     *)
THEOREM TypeCorrect == Spec => []TypeOK
<1>1. IInv => TypeOK
  BY DEF IInv
<1> QED BY <1>1, Inductive, PTL

(* mpp_buf_slot_get_unused, check_entry_unused: a slot is on_used exactly  *)
(* as long as a task, the codec, the queue or a thread has it, and         *)
(* used_count is the number of those slots.                                *)
THEOREM RecycledInTime == Spec => []UsedExactlyWhenHeld
<1>1. IInv => UsedExactlyWhenHeld
  BY UsedIsHeld DEF IInv, UsedExactlyWhenHeld, CountOK
<1> QED BY <1>1, Inductive, PTL

(* slot_ops_with_log, mpp_buf_slot_set_prop: no mark is cleared that is    *)
(* not set and no frame stored in a ready slot.                            *)
THEOREM NothingDumped == Spec => []NoIllegalClear
<1>1. IInv => NoIllegalClear
  BY DEF IInv, NoIllegalClear
<1> QED BY <1>1, Inductive, PTL

(* mpp_dec_push_display: pictures reach the user in the order the codec    *)
(* enqueued them, each with its frame and after the hardware is done.      *)
THEOREM InDisplayOrder == Spec => []ShownInOrder
<1>1. IInv => ShownInOrder
  <2> SUFFICES ASSUME IInv PROVE ShownInOrder
    OBVIOUS
  <2>1. /\ order \in Seq(1 .. MaxFrames) /\ shown \in Seq(1 .. MaxFrames)
        /\ pool.queue["QUEUE_DISPLAY"] \in Seq(SlotIds)
    BY PoolOfSlots DEF IInv, TypeOK
  <2>2. /\ Len(order) = Len(shown) + InPut + Len(pool.queue["QUEUE_DISPLAY"])
        /\ \A k \in 1 .. Len(shown) : shown[k] = order[k]
    BY DEF IInv, OrderInv
  <2>3. Len(shown) <= Len(order)
    <3> DEFINE a == Len(order)
               b == Len(shown)
               c == Len(pool.queue["QUEUE_DISPLAY"])
    <3>1. a = b + InPut + c
      BY <2>2
    <3>2. a \in Nat /\ b \in Nat /\ c \in Nat
      BY <2>1
    <3>3. InPut \in {0, 1}
      BY DEF InPut
    <3> HIDE DEF a, b, c
    <3>4. b <= a
      BY <3>1, <3>2, <3>3
    <3> QED BY <3>4 DEF a, b
  <2>4. IsPrefix(shown, order)
    BY <2>1, <2>2, <2>3 DEF IsPrefix
  <2>5. hpc = "put" => disp \notin pool.not_ready \cup pool.hal_output
    BY DEF IInv, ReadyInv, MarksInv
  <2>6. hpc = "put" => pool.frame[disp] # None
    BY FrameThere DEF IInv, TasksInv
  <2> QED BY <2>4, <2>5, <2>6 DEF ShownInOrder
<1> QED BY <1>1, Inductive, PTL

(* A frame that somebody still has a claim on is not replaced, neither by  *)
(* the next picture nor by a clear of another thread.                      *)
THEOREM FrameOfHolder == Spec => FrameKept
<1>1. IInv /\ [Next]_vars
      => [\A i \in Held \cap Held' :
             pool.frame[i] # None => pool'.frame[i] = pool.frame[i]]_vars
  BY FrameStays
<1> QED BY <1>1, Inductive, PTL DEF Spec, FrameKept
=============================================================================
