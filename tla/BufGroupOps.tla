---------------------------- MODULE BufGroupOps -----------------------------
(***************************************************************************)
(* The buffer service of mpp/base/mpp_buffer_impl.cpp: groups of reference *)
(* counted buffers.  Every entry point of the service takes its one lock   *)
(* for its whole duration, so each is an operator from a service to the    *)
(* service it leaves behind.                                               *)
(*                                                                         *)
(* A service is a record: group, the MppBufferGroupImpl of each group id   *)
(* (ids are never used twice), and buf, the MppBufferImpl of each address  *)
(* (an address is used again after mpp_free).  What was in a group is gone *)
(* when it is freed; state tells what it is:                               *)
(*    none      not created yet                                            *)
(*    normal    in mListGroup                                              *)
(*    orphan    in mListOrphan: put while some of its buffers were in use  *)
(*    freed     destroyed by destroy_group                                 *)
(*    misfreed  destroyed with buffers counted, against the mpp_assert     *)
(*                                                                         *)
(* list_used and list_unused are sets: their order only decides which of   *)
(* several buffers that fit is found first.  usage, the sum of the sizes,  *)
(* which are positive, changes with buffer_count on adjacent lines; it is  *)
(* only compared with zero, and buffer_count stands for it.  The allocator *)
(* behind a group and the operation log are left out.                      *)
(***************************************************************************)
EXTENDS Integers, FiniteSets

Modes == {"INTERNAL", "EXTERNAL"}

NoGroup ==
    [ state |-> "none", mode |-> "INTERNAL", misc |-> FALSE,
      limit_count |-> 0, limit_size |-> 0,
      buffer_count |-> 0, count_used |-> 0, count_unused |-> 0,
      callback |-> FALSE, list_used |-> {}, list_unused |-> {} ]

NoBuffer == [alive |-> FALSE, group |-> 0, size |-> 0,
             used |-> FALSE, discard |-> FALSE, ref_count |-> 0]

ServiceInit(groups, buffers) ==
    [ group |-> [g \in groups |-> NoGroup], buf |-> [b \in buffers |-> NoBuffer] ]

(* What get_group_by_id finds. *)
Listed(s, g) == s.group[g].state \in {"normal", "orphan"}

-----------------------------------------------------------------------------
(* MppBufferService::destroy_group *)
DestroyGroup(s, g) ==
    LET empty == s.group[g].count_used = 0 /\ s.group[g].count_unused = 0
    IN  [s EXCEPT !.group[g] =
            [NoGroup EXCEPT !.state = IF empty THEN "freed" ELSE "misfreed"]]

(* deinit_buffer_no_lock on a buffer that RefDec has taken off its list.   *)
(* An orphan whose usage falls to zero is put once more; no buffer of it   *)
(* is left, so put_group goes straight on to destroy_group.                *)
DeinitBuffer(s, b) ==
    LET g == s.buf[b].group
        t == [s EXCEPT !.buf[b] = NoBuffer, !.group[g].buffer_count = @ - 1]
    IN  IF t.group[g].state = "orphan" /\ t.group[g].buffer_count = 0
        THEN DestroyGroup(t, g)
        ELSE t

(* Mutant: the buffers are not counted out of their group. *)
DropUnused_KeepCount(s, g, dropped) ==
    [s EXCEPT !.buf = [b \in DOMAIN @ |-> IF b \in dropped THEN NoBuffer ELSE @[b]],
              !.group[g].list_unused  = @ \ dropped,
              !.group[g].count_unused = @ - Cardinality(dropped)]

(* deinit_buffer_no_lock and count_unused-- for some unused buffers of a   *)
(* group that is not an orphan.                                            *)
DropUnused(s, g, dropped) ==
    [s EXCEPT !.buf = [b \in DOMAIN @ |-> IF b \in dropped THEN NoBuffer ELSE @[b]],
              !.group[g].list_unused  = @ \ dropped,
              !.group[g].buffer_count = @ - Cardinality(dropped),
              !.group[g].count_unused = @ - Cardinality(dropped)]

(* inc_buffer_ref_no_lock *)
IncRef(s, b) ==
    LET g == s.buf[b].group
        t == [s EXCEPT !.buf[b].ref_count = @ + 1, !.buf[b].used = TRUE]
    IN  IF s.buf[b].used
        THEN t
        ELSE [t EXCEPT !.group[g].list_unused  = @ \ {b},
                       !.group[g].list_used    = @ \cup {b},
                       !.group[g].count_used   = @ + 1,
                       !.group[g].count_unused = @ - 1]

-----------------------------------------------------------------------------
(* Mutant: the limit counts the buffers in use. *)
MayCreate_UsedOnly(s, g, size) ==
    LET p == s.group[g]
    IN  /\ p.limit_count = 0 \/ p.count_used < p.limit_count
        /\ p.limit_size = 0 \/ size <= p.limit_size

(* mpp_buffer_create: what makes it fail, the allocator aside. *)
MayCreate(s, g, size) ==
    LET p == s.group[g]
    IN  /\ p.limit_count = 0 \/ p.buffer_count < p.limit_count
        /\ p.limit_size = 0 \/ size <= p.limit_size

(* mpp_buffer_create at the free address b.  take: the caller asked for    *)
(* the buffer, which otherwise goes to the unused list.                    *)
Create(s, g, size, b, take) ==
    LET t == [s EXCEPT
                !.buf[b] = [NoBuffer EXCEPT !.alive = TRUE, !.group = g, !.size = size],
                !.group[g].list_unused  = @ \cup {b},
                !.group[g].buffer_count = @ + 1,
                !.group[g].count_unused = @ + 1]
    IN  IF take THEN IncRef(t, b) ELSE t

(* mpp_buffer_get_unused finds a buffer that is large enough. *)
Fitting(s, g, size) == {b \in s.group[g].list_unused : s.buf[b].size >= size}

(* The buffers it gives up: in an internal group all those it passes,      *)
(* which are too small; when none fits it passes all of them.              *)
Passed(s, g, size) ==
    LET small == s.group[g].list_unused \ Fitting(s, g, size)
    IN  CASE s.group[g].mode = "EXTERNAL" -> {{}}
          [] s.group[g].mode = "INTERNAL" ->
                IF Fitting(s, g, size) = {} THEN {small} ELSE SUBSET small

-----------------------------------------------------------------------------
(* Mutant: clear is not remembered when the last reference goes. *)
Retire_KeepDiscarded(s, b) ==
    LET g == s.buf[b].group
    IN  IF s.group[g].misc
        THEN DeinitBuffer(s, b)
        ELSE [s EXCEPT !.group[g].list_unused  = @ \cup {b},
                       !.group[g].count_unused = @ + 1]

(* Where the last reference leaves a buffer: a buffer of a misc group, or  *)
(* one that was in use when its group was cleared, is destroyed.           *)
Retire(s, b) ==
    LET g == s.buf[b].group
    IN  IF s.group[g].misc \/ s.buf[b].discard
        THEN DeinitBuffer(s, b)
        ELSE [s EXCEPT !.group[g].list_unused  = @ \cup {b},
                       !.group[g].count_unused = @ + 1]

(* mpp_buffer_ref_dec.  The code counts count_used down after it has       *)
(* destroyed the buffer, in memory that may be freed by then: that write   *)
(* shows in no group any more.                                             *)
RefDec(s, b) ==
    LET g    == s.buf[b].group
        last == [s EXCEPT !.buf[b].ref_count = 0, !.buf[b].used = FALSE,
                          !.group[g].list_used = @ \ {b}]
        t    == Retire(last, b)
    IN  IF s.buf[b].ref_count > 1
        THEN [s EXCEPT !.buf[b].ref_count = @ - 1]
        ELSE IF Listed(t, g) THEN [t EXCEPT !.group[g].count_used = @ - 1] ELSE t

(* mpp_buffer_group_reset *)
GroupReset(s, g) ==
    DropUnused([s EXCEPT !.buf = [b \in DOMAIN @ |->
                    IF b \in s.group[g].list_used
                    THEN [@[b] EXCEPT !.discard = TRUE] ELSE @[b]]],
               g, s.group[g].list_unused)

(* Mutant: buffers in use do not keep their group. *)
PutGroup_Destroy(s, g) == DestroyGroup(DropUnused(s, g, s.group[g].list_unused), g)

(* MppBufferService::put_group, with clear_on_exit off. *)
PutGroup(s, g) ==
    LET t == DropUnused(s, g, s.group[g].list_unused)
    IN  IF t.group[g].list_used = {}
        THEN DestroyGroup(t, g)
        ELSE [t EXCEPT !.group[g].state = "orphan"]

(* mpp_buffer_group_unused, read without the lock. *)
Unused(s, g) ==
    IF s.group[g].mode = "EXTERNAL" THEN s.group[g].count_unused
    ELSE IF s.group[g].limit_count > 0
         THEN s.group[g].limit_count - s.group[g].count_used
         ELSE 3
=============================================================================
