---------------------------- MODULE SlotLemmas ------------------------------
(***************************************************************************)
(* What each operation of BufSlotOps does to a pool of slots, for a pool   *)
(* of any size: which fields it changes, that the result is a pool, and    *)
(* that a slot stays on_used exactly as long as one of its marks is set,   *)
(* with used_count the number of such slots.  Then what MppDec does with   *)
(* them: operations folded over a list or a set of slots, and slots shared *)
(* out among the tasks under way.  BufSlots_proofs and MppDec_proofs cite  *)
(* these facts and never open the operators.  QueueLemmas is there for its *)
(* facts about lists.                                                      *)
(***************************************************************************)
EXTENDS BufSlotOps, QueueLemmas, FiniteSetTheorems, WellFoundedInduction

(* The pools of the slots S, frames F and geometries I. *)
PoolType(S, F, I) ==
    [ on_used      : SUBSET S,
      not_ready    : SUBSET S,
      codec_use    : SUBSET S,
      hal_output   : SUBSET S,
      hal_use      : [S -> 0 .. HalUseRange - 1],
      queue_use    : [S -> 0 .. QueueUseRange - 1],
      frame        : [S -> F \cup {None}],
      queue        : [QueueTypes -> Seq(S)],
      used_count   : Int,
      info         : I,
      info_set     : I,
      info_changed : BOOLEAN,
      dumped       : BOOLEAN ]

Fields ==
    { "on_used", "not_ready", "codec_use", "hal_output", "hal_use", "queue_use",
      "frame", "queue", "used_count", "info", "info_set", "info_changed", "dumped" }

(* From p to q at most the fields in D change. *)
OnlyChanges(p, q, D) == \A f \in Fields \ D : q[f] = p[f]

(* The fields Idle looks at, and those check_entry_unused may change. *)
MarkFields  == { "not_ready", "codec_use", "hal_output", "hal_use", "queue_use" }
UsageFields == { "on_used", "frame", "used_count" }

(* Between two calls a slot is on_used exactly when it has a user. *)
UsedOK(p) == \A i \in Slots(p) : i \in p.on_used <=> ~Idle(p, i)

(* used_count is the number of slots that are on_used. *)
CountOK(p) == IsFiniteSet(p.on_used) /\ p.used_count = Cardinality(p.on_used)

(* It is at least that number: mpp_buf_slot_reset takes a slot out of the  *)
(* used ones and leaves used_count as it is.                               *)
CountCovers(p) == IsFiniteSet(p.on_used) /\ Cardinality(p.on_used) <= p.used_count

(* The accounts of p, if right, are right in q too. *)
Accounted(p, q) ==
    /\ UsedOK(p) => UsedOK(q)
    /\ CountOK(p) => CountOK(q)
    /\ CountCovers(p) => CountCovers(q)

(* From p to q at most slot i leaves on_used, and then gives up its frame. *)
AtMostLeaves(p, q, i) ==
    /\ q.on_used \in {p.on_used, p.on_used \ {i}}
    /\ \A j \in Slots(p) :
           q.frame[j] = IF j = i /\ i \notin q.on_used THEN None ELSE p.frame[j]

(* From p to r at most the marks of slot i change. *)
OneMarked(p, r, i) ==
    /\ OnlyChanges(p, r, MarkFields)
    /\ \A j \in Slots(p) \ {i} : Idle(r, j) <=> Idle(p, j)

-----------------------------------------------------------------------------
(* The fields of a pool, by their types. *)
LEMMA PoolFields ==
    ASSUME NEW S, NEW F, NEW I, NEW p \in PoolType(S, F, I)
    PROVE  /\ p.on_used \subseteq S /\ p.not_ready \subseteq S
           /\ p.codec_use \subseteq S /\ p.hal_output \subseteq S
           /\ p.hal_use \in [S -> 0 .. 255]
           /\ p.queue_use \in [S -> 0 .. 31]
           /\ p.frame \in [S -> F \cup {None}]
           /\ p.queue \in [QueueTypes -> Seq(S)]
           /\ p.used_count \in Int
           /\ p.info \in I /\ p.info_set \in I
           /\ p.info_changed \in BOOLEAN /\ p.dumped \in BOOLEAN
           /\ Slots(p) = S
<1>1. p \in [ on_used : SUBSET S, not_ready : SUBSET S, codec_use : SUBSET S,
              hal_output : SUBSET S, hal_use : [S -> 0 .. 255],
              queue_use : [S -> 0 .. 31], frame : [S -> F \cup {None}],
              queue : [QueueTypes -> Seq(S)], used_count : Int, info : I,
              info_set : I, info_changed : BOOLEAN, dumped : BOOLEAN ]
  <2>1. HalUseRange - 1 = 255 /\ QueueUseRange - 1 = 31
    BY DEF HalUseRange, QueueUseRange
  <2> QED BY <2>1 DEF PoolType
<1>2. p.hal_use \in [S -> 0 .. 255]
  BY <1>1
<1>3. Slots(p) = S
  BY <1>2 DEF Slots
<1> QED BY <1>1, <1>3

(* A pool stays one when a field gets a value of its type. *)
LEMMA PoolEdit ==
    ASSUME NEW S, NEW F, NEW I, NEW p \in PoolType(S, F, I)
    PROVE  /\ \A v \in SUBSET S : /\ [p EXCEPT !.on_used = v] \in PoolType(S, F, I)
                                 /\ [p EXCEPT !.not_ready = v] \in PoolType(S, F, I)
                                 /\ [p EXCEPT !.codec_use = v] \in PoolType(S, F, I)
                                 /\ [p EXCEPT !.hal_output = v] \in PoolType(S, F, I)
           /\ \A v \in [S -> 0 .. 255] :
                    [p EXCEPT !.hal_use = v] \in PoolType(S, F, I)
           /\ \A v \in [S -> 0 .. 31] :
                    [p EXCEPT !.queue_use = v] \in PoolType(S, F, I)
           /\ \A v \in [S -> F \cup {None}] :
                    [p EXCEPT !.frame = v] \in PoolType(S, F, I)
           /\ \A v \in [QueueTypes -> Seq(S)] :
                    [p EXCEPT !.queue = v] \in PoolType(S, F, I)
           /\ \A v \in Int : [p EXCEPT !.used_count = v] \in PoolType(S, F, I)
           /\ \A v \in I : /\ [p EXCEPT !.info = v] \in PoolType(S, F, I)
                           /\ [p EXCEPT !.info_set = v] \in PoolType(S, F, I)
           /\ \A v \in BOOLEAN : [p EXCEPT !.info_changed = v] \in PoolType(S, F, I)
<1>1. PoolType(S, F, I) =
         [ on_used : SUBSET S, not_ready : SUBSET S, codec_use : SUBSET S,
           hal_output : SUBSET S, hal_use : [S -> 0 .. 255],
           queue_use : [S -> 0 .. 31], frame : [S -> F \cup {None}],
           queue : [QueueTypes -> Seq(S)], used_count : Int, info : I,
           info_set : I, info_changed : BOOLEAN, dumped : BOOLEAN ]
  <2>1. HalUseRange - 1 = 255 /\ QueueUseRange - 1 = 31
    BY DEF HalUseRange, QueueUseRange
  <2> QED BY <2>1 DEF PoolType
<1> DEFINE P == PoolType(S, F, I)
           H == [S -> 0 .. 255]
           U == [S -> 0 .. 31]
           G == [S -> F \cup {None}]
           L == [QueueTypes -> Seq(S)]
<1>2. P = [ on_used : SUBSET S, not_ready : SUBSET S, codec_use : SUBSET S,
            hal_output : SUBSET S, hal_use : H, queue_use : U, frame : G, queue : L,
            used_count : Int, info : I, info_set : I, info_changed : BOOLEAN,
            dumped : BOOLEAN ]
  BY <1>1
<1> HIDE DEF P, H, U, G, L
<1>3. p \in P
  BY DEF P
<1>4. \A v \in SUBSET S : [p EXCEPT !.on_used = v] \in P
  BY <1>2, <1>3
<1>5. \A v \in SUBSET S : [p EXCEPT !.not_ready = v] \in P
  BY <1>2, <1>3
<1>6. \A v \in SUBSET S : [p EXCEPT !.codec_use = v] \in P
  BY <1>2, <1>3
<1>7. \A v \in SUBSET S : [p EXCEPT !.hal_output = v] \in P
  BY <1>2, <1>3
<1>8. \A v \in H : [p EXCEPT !.hal_use = v] \in P
  BY <1>2, <1>3
<1>9. \A v \in U : [p EXCEPT !.queue_use = v] \in P
  BY <1>2, <1>3
<1>10. \A v \in G : [p EXCEPT !.frame = v] \in P
  BY <1>2, <1>3
<1>11. \A v \in L : [p EXCEPT !.queue = v] \in P
  BY <1>2, <1>3
<1>12. \A v \in Int : [p EXCEPT !.used_count = v] \in P
  BY <1>2, <1>3
<1>13. \A v \in I : [p EXCEPT !.info = v] \in P
  BY <1>2, <1>3
<1>14. \A v \in I : [p EXCEPT !.info_set = v] \in P
  BY <1>2, <1>3
<1>15. \A v \in BOOLEAN : [p EXCEPT !.info_changed = v] \in P
  BY <1>2, <1>3
<1> QED
  BY <1>4, <1>5, <1>6, <1>7, <1>8, <1>9,
     <1>10, <1>11, <1>12, <1>13, <1>14, <1>15 DEF P, H, U, G, L

-----------------------------------------------------------------------------
(* A slot that is not on_used is found when there is one. *)
LEMMA FirstUnusedFacts ==
    ASSUME NEW n \in Nat, NEW F, NEW I, NEW p \in PoolType(0 .. n - 1, F, I),
           FreeSlots(p) # {}
    PROVE  FirstUnused(p) \in 0 .. n - 1 /\ FirstUnused(p) \notin p.on_used
<1>0. Slots(p) = 0 .. n - 1
  BY PoolFields
<1> DEFINE T == FreeSlots(p)
           R == {ss \in Nat \X Nat : ss[1] < ss[2]}
<1>1. T = (0 .. n - 1) \ p.on_used /\ T \subseteq Nat
  BY <1>0 DEF FreeSlots
<1>2. IsWellFoundedOn(R, Nat)
  BY NatLessThanWellFounded DEF OpToRel
<1>3. PICK i \in T : \A j \in T : <<j, i>> \notin R
  <2> HIDE DEF R, T
  <2>1. T # {}
    BY DEF T
  <2> QED BY <1>1, <1>2, <2>1, WFMin
<1>4. \A j \in T : i <= j
  <2>1. i \in Nat /\ T \subseteq Nat
    BY <1>1
  <2>2. ASSUME NEW j \in T PROVE i <= j
    <3>1. j \in Nat /\ ~ (j < i)
      BY <1>3, <2>1
    <3> QED BY <2>1, <3>1
  <2> QED BY <2>2
<1>5. FirstUnused(p) \in T
  BY <1>3, <1>4 DEF FirstUnused
<1> HIDE DEF T
<1> QED BY <1>1, <1>5 DEF T

(* How many slots are unused, when used_count is right. *)
LEMMA UnusedCountFacts ==
    ASSUME NEW n \in Nat, NEW F, NEW I, NEW p \in PoolType(0 .. n - 1, F, I),
           CountOK(p), UnusedCount(p) # 0
    PROVE  FreeSlots(p) # {}
<1>1. Slots(p) = 0 .. n - 1 /\ p.on_used \subseteq 0 .. n - 1
  BY PoolFields
<1>2. ASSUME FreeSlots(p) = {} PROVE FALSE
  <2>1. p.on_used = Slots(p)
    BY <1>1, <1>2 DEF FreeSlots
  <2>2. Cardinality(Slots(p)) \in Nat
    <3>1. IsFiniteSet(Slots(p))
      BY <2>1 DEF CountOK
    <3> QED BY <3>1, FS_CardinalityType
  <2> QED BY <2>1, <2>2 DEF CountOK, UnusedCount
<1> QED BY <1>2

(* mpp_buf_slot_init and mpp_buf_slot_setup: no slot has a mark. *)
LEMMA SlotsInitFacts ==
    ASSUME NEW n \in Nat, NEW F, NEW I, NEW p, None \in I, p = SlotsInit(n)
    PROVE  /\ p \in PoolType(0 .. n - 1, F, I) /\ UsedOK(p) /\ CountOK(p)
           /\ p.on_used = {} /\ p.not_ready = {} /\ p.codec_use = {} /\ p.hal_output = {}
           /\ \A i \in 0 .. n - 1 : /\ p.hal_use[i] = 0 /\ p.queue_use[i] = 0
                                    /\ p.frame[i] = None
           /\ \A t \in QueueTypes : p.queue[t] = <<>>
           /\ ~p.dumped
<1>1. p \in PoolType(0 .. n - 1, F, I)
  BY DEF SlotsInit, PoolType, HalUseRange, QueueUseRange
<1>2. /\ p.on_used = {} /\ p.not_ready = {} /\ p.codec_use = {} /\ p.hal_output = {}
      /\ \A i \in 0 .. n - 1 : /\ p.hal_use[i] = 0 /\ p.queue_use[i] = 0
                               /\ p.frame[i] = None
      /\ \A t \in QueueTypes : p.queue[t] = <<>>
      /\ ~p.dumped /\ p.used_count = 0
  BY DEF SlotsInit
<1>3. UsedOK(p)
  BY <1>1, <1>2 DEF UsedOK, Slots, Idle, PoolType
<1>4. CountOK(p)
  BY <1>2, FS_EmptySet DEF CountOK
<1> QED BY <1>1, <1>2, <1>3, <1>4

-----------------------------------------------------------------------------
(* Two pools whose marks differ at one slot only, which is in use in both. *)
LEMMA UsedKept ==
    ASSUME NEW S, NEW F, NEW I, NEW p \in PoolType(S, F, I), NEW q \in PoolType(S, F, I),
           NEW i \in S, UsedOK(p), q.on_used = p.on_used,
           i \in p.on_used, ~Idle(q, i),
           \A j \in S \ {i} : Idle(q, j) <=> Idle(p, j)
    PROVE  UsedOK(q)
<1>1. Slots(p) = S /\ Slots(q) = S
  BY PoolFields
<1> QED BY <1>1 DEF UsedOK

(* mpp_buf_slot_set_flag for the output of a task: the slot is not ready. *)
LEMMA SetHalOutput ==
    ASSUME NEW S, NEW F, NEW I, NEW p \in PoolType(S, F, I), NEW i \in S, NEW q,
           i \in p.on_used, q = SetFlag(p, i, "HAL_OUTPUT")
    PROVE  /\ q \in PoolType(S, F, I)
           /\ q.hal_output = p.hal_output \cup {i}
           /\ q.not_ready = p.not_ready \cup {i}
           /\ OnlyChanges(p, q, {"hal_output", "not_ready"})
           /\ Accounted(p, q)
<1>1. q = [p EXCEPT !.hal_output = p.hal_output \cup {i},
                    !.not_ready  = p.not_ready \cup {i}]
  BY DEF SetFlag
<1>2. q \in PoolType(S, F, I)
  <2> DEFINE r == [p EXCEPT !.hal_output = p.hal_output \cup {i}]
  <2>1. p.hal_output \cup {i} \in SUBSET S /\ p.not_ready \cup {i} \in SUBSET S
    BY PoolFields
  <2>2. r \in PoolType(S, F, I)
    BY <2>1, PoolEdit
  <2>3. q = [r EXCEPT !.not_ready = p.not_ready \cup {i}]
    BY <1>1
  <2> HIDE DEF r
  <2>4. \A v \in SUBSET S : [r EXCEPT !.not_ready = v] \in PoolType(S, F, I)
    BY <2>2, PoolEdit
  <2> QED BY <2>1, <2>3, <2>4
<1>3. q.hal_output = p.hal_output \cup {i} /\ q.not_ready = p.not_ready \cup {i}
  BY <1>1 DEF PoolType
<1>4. OnlyChanges(p, q, {"hal_output", "not_ready"})
  BY <1>1 DEF PoolType, OnlyChanges, Fields
<1>5. /\ q.on_used = p.on_used /\ q.used_count = p.used_count
      /\ q.codec_use = p.codec_use /\ q.hal_use = p.hal_use /\ q.queue_use = p.queue_use
  BY <1>4 DEF OnlyChanges, Fields
<1>6. ~Idle(q, i) /\ \A j \in S \ {i} : Idle(q, j) <=> Idle(p, j)
  BY <1>3, <1>5 DEF Idle
<1>7. UsedOK(p) => UsedOK(q)
  BY <1>2, <1>5, <1>6, UsedKept
<1>8. (CountOK(p) => CountOK(q)) /\ (CountCovers(p) => CountCovers(q))
  BY <1>5 DEF CountOK, CountCovers
<1> QED BY <1>2, <1>3, <1>4, <1>7, <1>8 DEF Accounted

(* mpp_buf_slot_set_flag for a picture the codec keeps. *)
LEMMA SetCodecUse ==
    ASSUME NEW S, NEW F, NEW I, NEW p \in PoolType(S, F, I), NEW i \in S, NEW q,
           i \in p.on_used, q = SetFlag(p, i, "CODEC_USE")
    PROVE  /\ q \in PoolType(S, F, I)
           /\ q.codec_use = p.codec_use \cup {i}
           /\ OnlyChanges(p, q, {"codec_use"})
           /\ Accounted(p, q)
<1>1. q = [p EXCEPT !.codec_use = p.codec_use \cup {i}]
  BY DEF SetFlag
<1>2. q \in PoolType(S, F, I)
  <2>1. p.codec_use \cup {i} \in SUBSET S
    BY PoolFields
  <2>2. \A v \in SUBSET S : [p EXCEPT !.codec_use = v] \in PoolType(S, F, I)
    BY PoolEdit
  <2> QED BY <1>1, <2>1, <2>2
<1>3. q.codec_use = p.codec_use \cup {i}
  BY <1>1 DEF PoolType
<1>4. OnlyChanges(p, q, {"codec_use"})
  BY <1>1 DEF PoolType, OnlyChanges, Fields
<1>5. /\ q.on_used = p.on_used /\ q.used_count = p.used_count
      /\ q.not_ready = p.not_ready /\ q.hal_output = p.hal_output
      /\ q.hal_use = p.hal_use /\ q.queue_use = p.queue_use
  BY <1>4 DEF OnlyChanges, Fields
<1>6. ~Idle(q, i) /\ \A j \in S \ {i} : Idle(q, j) <=> Idle(p, j)
  BY <1>3, <1>5 DEF Idle
<1>7. UsedOK(p) => UsedOK(q)
  BY <1>2, <1>5, <1>6, UsedKept
<1>8. (CountOK(p) => CountOK(q)) /\ (CountCovers(p) => CountCovers(q))
  BY <1>5 DEF CountOK, CountCovers
<1> QED BY <1>2, <1>3, <1>4, <1>7, <1>8 DEF Accounted

(* mpp_buf_slot_set_flag for a reference, short of the 256th user. *)
LEMMA SetHalInput ==
    ASSUME NEW S, NEW F, NEW I, NEW p \in PoolType(S, F, I), NEW i \in S, NEW q,
           i \in p.on_used, p.hal_use[i] + 1 < HalUseRange,
           q = SetFlag(p, i, "HAL_INPUT")
    PROVE  /\ q \in PoolType(S, F, I)
           /\ q.hal_use = [p.hal_use EXCEPT ![i] = p.hal_use[i] + 1]
           /\ OnlyChanges(p, q, {"hal_use"})
           /\ Accounted(p, q)
<1>0. p.hal_use[i] \in 0 .. 255 /\ p.hal_use[i] + 1 \in 0 .. 255
  <2>1. p.hal_use \in [S -> 0 .. 255]
    BY PoolFields
  <2> QED BY <2>1 DEF HalUseRange
<1>1. q = [p EXCEPT !.hal_use = [p.hal_use EXCEPT ![i] = p.hal_use[i] + 1]]
  <2>1. (p.hal_use[i] + 1) % 256 = p.hal_use[i] + 1
    BY <1>0
  <2> QED BY <2>1 DEF SetFlag, HalUseRange, PoolType
<1>2. q \in PoolType(S, F, I)
  <2>1. [p.hal_use EXCEPT ![i] = p.hal_use[i] + 1] \in [S -> 0 .. 255]
    <3>1. p.hal_use \in [S -> 0 .. 255]
      BY PoolFields
    <3> QED BY <1>0, <3>1
  <2>2. \A v \in [S -> 0 .. 255] : [p EXCEPT !.hal_use = v] \in PoolType(S, F, I)
    BY PoolEdit
  <2> QED BY <1>1, <2>1, <2>2
<1>3. q.hal_use = [p.hal_use EXCEPT ![i] = p.hal_use[i] + 1]
  BY <1>1 DEF PoolType
<1>4. OnlyChanges(p, q, {"hal_use"})
  BY <1>1 DEF PoolType, OnlyChanges, Fields
<1>5. /\ q.on_used = p.on_used /\ q.used_count = p.used_count
      /\ q.not_ready = p.not_ready /\ q.hal_output = p.hal_output
      /\ q.codec_use = p.codec_use /\ q.queue_use = p.queue_use
  BY <1>4 DEF OnlyChanges, Fields
<1>6. ~Idle(q, i) /\ \A j \in S \ {i} : Idle(q, j) <=> Idle(p, j)
  <2>1. q.hal_use[i] # 0 /\ \A j \in S \ {i} : q.hal_use[j] = p.hal_use[j]
    BY <1>0, <1>3 DEF PoolType
  <2> QED BY <1>5, <2>1 DEF Idle
<1>7. UsedOK(p) => UsedOK(q)
  BY <1>2, <1>5, <1>6, UsedKept
<1>8. (CountOK(p) => CountOK(q)) /\ (CountCovers(p) => CountCovers(q))
  BY <1>5 DEF CountOK, CountCovers
<1> QED BY <1>2, <1>3, <1>4, <1>7, <1>8 DEF Accounted

(* One more mark in queue_use, short of the 32nd. *)
LEMMA IncQueueUseFacts ==
    ASSUME NEW S, NEW F, NEW I, NEW p \in PoolType(S, F, I), NEW i \in S, NEW q,
           i \in p.on_used, p.queue_use[i] + 1 < QueueUseRange,
           q = IncQueueUse(p, i)
    PROVE  /\ q \in PoolType(S, F, I)
           /\ q.queue_use = [p.queue_use EXCEPT ![i] = p.queue_use[i] + 1]
           /\ OnlyChanges(p, q, {"queue_use"})
           /\ Accounted(p, q)
<1>0. p.queue_use[i] \in 0 .. 31 /\ p.queue_use[i] + 1 \in 0 .. 31
  <2>1. p.queue_use \in [S -> 0 .. 31]
    BY PoolFields
  <2> QED BY <2>1 DEF QueueUseRange
<1>1. q = [p EXCEPT !.queue_use = [p.queue_use EXCEPT ![i] = p.queue_use[i] + 1]]
  <2>1. (p.queue_use[i] + 1) % 32 = p.queue_use[i] + 1
    BY <1>0
  <2> QED BY <2>1 DEF IncQueueUse, QueueUseRange, PoolType
<1>2. q \in PoolType(S, F, I)
  <2>1. [p.queue_use EXCEPT ![i] = p.queue_use[i] + 1] \in [S -> 0 .. 31]
    <3>1. p.queue_use \in [S -> 0 .. 31]
      BY PoolFields
    <3> QED BY <1>0, <3>1
  <2>2. \A v \in [S -> 0 .. 31] : [p EXCEPT !.queue_use = v] \in PoolType(S, F, I)
    BY PoolEdit
  <2> QED BY <1>1, <2>1, <2>2
<1>3. q.queue_use = [p.queue_use EXCEPT ![i] = p.queue_use[i] + 1]
  BY <1>1 DEF PoolType
<1>4. OnlyChanges(p, q, {"queue_use"})
  BY <1>1 DEF PoolType, OnlyChanges, Fields
<1>5. /\ q.on_used = p.on_used /\ q.used_count = p.used_count
      /\ q.not_ready = p.not_ready /\ q.hal_output = p.hal_output
      /\ q.codec_use = p.codec_use /\ q.hal_use = p.hal_use
  BY <1>4 DEF OnlyChanges, Fields
<1>6. ~Idle(q, i) /\ \A j \in S \ {i} : Idle(q, j) <=> Idle(p, j)
  <2>1. q.queue_use[i] # 0 /\ \A j \in S \ {i} : q.queue_use[j] = p.queue_use[j]
    BY <1>0, <1>3 DEF PoolType
  <2> QED BY <1>5, <2>1 DEF Idle
<1>7. UsedOK(p) => UsedOK(q)
  BY <1>2, <1>5, <1>6, UsedKept
<1>8. (CountOK(p) => CountOK(q)) /\ (CountCovers(p) => CountCovers(q))
  BY <1>5 DEF CountOK, CountCovers
<1> QED BY <1>2, <1>3, <1>4, <1>7, <1>8 DEF Accounted
-----------------------------------------------------------------------------
(* check_entry_unused on a slot that lost a mark: r is the pool with the   *)
(* mark cleared.  The slot leaves on_used, and gives up its frame, exactly *)
(* when it is idle.                                                        *)
LEMMA CheckUnusedFacts ==
    ASSUME NEW S, NEW F, NEW I, NEW p \in PoolType(S, F, I), NEW r \in PoolType(S, F, I),
           NEW i \in S, NEW q, i \in p.on_used,
           OneMarked(p, r, i), q = CheckEntryUnused(r, i)
    PROVE  /\ q \in PoolType(S, F, I)
           /\ OnlyChanges(r, q, UsageFields)
           /\ AtMostLeaves(p, q, i) /\ q.used_count <= p.used_count
           /\ Accounted(p, q)
<1>1. r.on_used = p.on_used /\ r.frame = p.frame /\ r.used_count = p.used_count
  BY DEF OnlyChanges, Fields, MarkFields, OneMarked
<1>2. /\ p.on_used \subseteq S /\ p.frame \in [S -> F \cup {None}]
      /\ p.used_count \in Int /\ Slots(p) = S
  BY PoolFields
<1>3. CASE ~Idle(r, i)
  <2>1. q = r
    BY <1>3 DEF CheckEntryUnused
  <2>2. i \in q.on_used
    BY <1>1, <2>1
  <2>3. UsedOK(p) => UsedOK(q)
    <3>1. \A j \in S \ {i} : Idle(r, j) <=> Idle(p, j)
      BY <1>2 DEF OneMarked
    <3> QED BY <1>1, <1>3, <2>1, <3>1, UsedKept
  <2>4. (CountOK(p) => CountOK(q)) /\ (CountCovers(p) => CountCovers(q))
    BY <1>1, <2>1 DEF CountOK, CountCovers
  <2>5. OnlyChanges(r, q, UsageFields)
    BY <2>1 DEF OnlyChanges
  <2>6. AtMostLeaves(p, q, i)
    BY <1>1, <2>1, <2>2 DEF AtMostLeaves
  <2>7. q.used_count <= p.used_count
    BY <1>1, <1>2, <2>1
  <2> QED BY <1>1, <1>3, <2>1, <2>2, <2>3, <2>4, <2>5, <2>6, <2>7 DEF Accounted
<1>4. CASE Idle(r, i)
  <2> DEFINE f == [p.frame EXCEPT ![i] = None]
             r1 == [r EXCEPT !.on_used = p.on_used \ {i}]
             r2 == [r1 EXCEPT !.frame = f]
  <2>1. q = [r EXCEPT !.on_used    = p.on_used \ {i},
                      !.frame      = f,
                      !.used_count = p.used_count - 1]
    BY <1>1, <1>4 DEF CheckEntryUnused, PoolType
  <2>2. q \in PoolType(S, F, I)
    <3>1. r1 \in PoolType(S, F, I)
      <4>1. \A v \in SUBSET S : [r EXCEPT !.on_used = v] \in PoolType(S, F, I)
        BY PoolEdit
      <4> QED BY <1>2, <4>1
    <3> HIDE DEF r1
    <3>2. r2 \in PoolType(S, F, I)
      <4>1. \A v \in [S -> F \cup {None}] : [r1 EXCEPT !.frame = v] \in PoolType(S, F, I)
        BY <3>1, PoolEdit
      <4>2. f \in [S -> F \cup {None}]
        BY <1>2
      <4> QED BY <4>1, <4>2
    <3>3. q = [r2 EXCEPT !.used_count = p.used_count - 1]
      BY <2>1 DEF r1
    <3> HIDE DEF r2
    <3>4. \A v \in Int : [r2 EXCEPT !.used_count = v] \in PoolType(S, F, I)
      BY <3>2, PoolEdit
    <3> QED BY <1>2, <3>3, <3>4
  <2>3. /\ q.on_used = p.on_used \ {i} /\ q.frame = f
        /\ q.used_count = p.used_count - 1
    BY <2>1 DEF PoolType
  <2>4. OnlyChanges(r, q, UsageFields)
    BY <2>1 DEF PoolType, OnlyChanges, Fields, UsageFields
  <2>5. \A j \in S : q.frame[j] = IF j = i THEN None ELSE p.frame[j]
    BY <1>2, <2>3
  <2>6. ASSUME UsedOK(p) PROVE UsedOK(q)
    <3>1. \A j \in S : Idle(q, j) <=> Idle(r, j)
      <4>1. /\ q.not_ready = r.not_ready /\ q.codec_use = r.codec_use
            /\ q.hal_output = r.hal_output /\ q.hal_use = r.hal_use
            /\ q.queue_use = r.queue_use
        BY <2>4 DEF OnlyChanges, Fields, UsageFields
      <4> QED BY <4>1 DEF Idle
    <3>2. Slots(q) = S
      BY <2>2, PoolFields
    <3>3. \A j \in S \ {i} : Idle(r, j) <=> Idle(p, j)
      BY <1>2 DEF OneMarked
    <3> QED BY <1>2, <1>4, <2>3, <2>6, <3>1, <3>2, <3>3 DEF UsedOK
  <2>7. ASSUME CountOK(p) PROVE CountOK(q)
    <3>1. IsFiniteSet(p.on_used) /\ p.used_count = Cardinality(p.on_used)
      BY <2>7 DEF CountOK
    <3>2. /\ IsFiniteSet(p.on_used \ {i})
          /\ Cardinality(p.on_used \ {i}) = Cardinality(p.on_used) - 1
      BY <3>1, FS_RemoveElement
    <3> QED BY <2>3, <3>1, <3>2 DEF CountOK
  <2>8. AtMostLeaves(p, q, i)
    BY <1>2, <2>3, <2>5 DEF AtMostLeaves
  <2>9. ASSUME CountCovers(p) PROVE CountCovers(q)
    <3>1. IsFiniteSet(p.on_used) /\ Cardinality(p.on_used) <= p.used_count
      BY <2>9 DEF CountCovers
    <3>2. /\ IsFiniteSet(p.on_used \ {i}) /\ Cardinality(p.on_used) \in Nat
          /\ Cardinality(p.on_used \ {i}) = Cardinality(p.on_used) - 1
      BY <3>1, FS_RemoveElement, FS_CardinalityType
    <3>3. Cardinality(p.on_used) - 1 <= p.used_count - 1
      BY <1>2, <3>1, <3>2
    <3> QED BY <2>3, <3>2, <3>3 DEF CountCovers
  <2>10. q.used_count <= p.used_count
    BY <1>2, <2>3
  <2> QED BY <1>4, <2>2, <2>3, <2>4, <2>6, <2>7, <2>8, <2>9, <2>10 DEF Accounted
<1> QED BY <1>3, <1>4

(* mpp_buf_slot_clr_flag for the output of a task. *)
LEMMA ClrHalOutput ==
    ASSUME NEW S, NEW F, NEW I, NEW p \in PoolType(S, F, I), NEW i \in S, NEW q,
           i \in p.on_used, q = ClrFlag(p, i, "HAL_OUTPUT")
    PROVE  /\ q \in PoolType(S, F, I)
           /\ q.hal_output = p.hal_output \ {i} /\ q.not_ready = p.not_ready \ {i}
           /\ OnlyChanges(p, q, {"hal_output", "not_ready"} \cup UsageFields)
           /\ AtMostLeaves(p, q, i) /\ q.used_count <= p.used_count
           /\ Accounted(p, q)
<1> DEFINE r == ClrStatus(p, i, "HAL_OUTPUT")
           r1 == [p EXCEPT !.hal_output = p.hal_output \ {i}]
<1>1. r = [p EXCEPT !.hal_output = p.hal_output \ {i}, !.not_ready = p.not_ready \ {i}]
  BY DEF ClrStatus
<1>2. q = CheckEntryUnused(r, i)
  BY DEF ClrFlag
<1> HIDE DEF r
<1>3. r \in PoolType(S, F, I)
  <2>1. p.hal_output \ {i} \in SUBSET S /\ p.not_ready \ {i} \in SUBSET S
    BY PoolFields
  <2>2. r1 \in PoolType(S, F, I)
    <3>1. \A v \in SUBSET S : [p EXCEPT !.hal_output = v] \in PoolType(S, F, I)
      BY PoolEdit
    <3> QED BY <2>1, <3>1
  <2>3. r = [r1 EXCEPT !.not_ready = p.not_ready \ {i}]
    BY <1>1
  <2> HIDE DEF r1
  <2>4. \A v \in SUBSET S : [r1 EXCEPT !.not_ready = v] \in PoolType(S, F, I)
    BY <2>2, PoolEdit
  <2> QED BY <2>1, <2>3, <2>4
<1>4. r.hal_output = p.hal_output \ {i} /\ r.not_ready = p.not_ready \ {i}
  BY <1>1 DEF PoolType
<1>5. OnlyChanges(p, r, {"hal_output", "not_ready"})
  BY <1>1 DEF PoolType, OnlyChanges, Fields
<1>6. \A j \in S \ {i} : Idle(r, j) <=> Idle(p, j)
  <2>1. /\ r.codec_use = p.codec_use /\ r.hal_use = p.hal_use
        /\ r.queue_use = p.queue_use
    BY <1>5 DEF OnlyChanges, Fields
  <2> QED BY <1>4, <2>1 DEF Idle
<1>7. OneMarked(p, r, i)
  <2>1. Slots(p) = S
    BY PoolFields
  <2>2. OnlyChanges(p, r, MarkFields)
    BY <1>5 DEF OnlyChanges, MarkFields
  <2> QED BY <1>6, <2>1, <2>2 DEF OneMarked
<1>8. /\ q \in PoolType(S, F, I)
      /\ OnlyChanges(r, q, UsageFields)
      /\ AtMostLeaves(p, q, i) /\ q.used_count <= p.used_count /\ Accounted(p, q)
  BY <1>2, <1>3, <1>7, CheckUnusedFacts
<1>9. OnlyChanges(p, q, {"hal_output", "not_ready"} \cup UsageFields)
  BY <1>5, <1>8 DEF OnlyChanges
<1>10. q.hal_output = r.hal_output /\ q.not_ready = r.not_ready
  BY <1>8 DEF OnlyChanges, Fields, UsageFields
<1> QED BY <1>4, <1>8, <1>9, <1>10
(* mpp_buf_slot_clr_flag for a picture the codec lets go. *)
LEMMA ClrCodecUse ==
    ASSUME NEW S, NEW F, NEW I, NEW p \in PoolType(S, F, I), NEW i \in S, NEW q,
           i \in p.on_used, q = ClrFlag(p, i, "CODEC_USE")
    PROVE  /\ q \in PoolType(S, F, I)
           /\ q.codec_use = p.codec_use \ {i}
           /\ OnlyChanges(p, q, {"codec_use"} \cup UsageFields)
           /\ AtMostLeaves(p, q, i) /\ q.used_count <= p.used_count
           /\ Accounted(p, q)
<1> DEFINE r == ClrStatus(p, i, "CODEC_USE")
<1>1. r = [p EXCEPT !.codec_use = p.codec_use \ {i}]
  BY DEF ClrStatus
<1>2. q = CheckEntryUnused(r, i)
  BY DEF ClrFlag
<1> HIDE DEF r
<1>3. r \in PoolType(S, F, I)
  <2>1. p.codec_use \ {i} \in SUBSET S
    BY PoolFields
  <2>2. \A v \in SUBSET S : [p EXCEPT !.codec_use = v] \in PoolType(S, F, I)
    BY PoolEdit
  <2> QED BY <1>1, <2>1, <2>2
<1>4. r.codec_use = p.codec_use \ {i}
  BY <1>1 DEF PoolType
<1>5. OnlyChanges(p, r, {"codec_use"})
  BY <1>1 DEF PoolType, OnlyChanges, Fields
<1>6. \A j \in S \ {i} : Idle(r, j) <=> Idle(p, j)
  <2>1. /\ r.not_ready = p.not_ready /\ r.hal_output = p.hal_output
        /\ r.hal_use = p.hal_use /\ r.queue_use = p.queue_use
    BY <1>5 DEF OnlyChanges, Fields
  <2> QED BY <1>4, <2>1 DEF Idle
<1>7. OneMarked(p, r, i)
  <2>1. Slots(p) = S
    BY PoolFields
  <2>2. OnlyChanges(p, r, MarkFields)
    BY <1>5 DEF OnlyChanges, MarkFields
  <2> QED BY <1>6, <2>1, <2>2 DEF OneMarked
<1>8. /\ q \in PoolType(S, F, I)
      /\ OnlyChanges(r, q, UsageFields)
      /\ AtMostLeaves(p, q, i) /\ q.used_count <= p.used_count /\ Accounted(p, q)
  BY <1>2, <1>3, <1>7, CheckUnusedFacts
<1>9. OnlyChanges(p, q, {"codec_use"} \cup UsageFields)
  BY <1>5, <1>8 DEF OnlyChanges
<1>10. q.codec_use = r.codec_use
  BY <1>8 DEF OnlyChanges, Fields, UsageFields
<1> QED BY <1>4, <1>8, <1>9, <1>10

(* mpp_buf_slot_clr_flag for a reference that was counted. *)
LEMMA ClrHalInput ==
    ASSUME NEW S, NEW F, NEW I, NEW p \in PoolType(S, F, I), NEW i \in S, NEW q,
           i \in p.on_used, p.hal_use[i] > 0, q = ClrFlag(p, i, "HAL_INPUT")
    PROVE  /\ q \in PoolType(S, F, I)
           /\ q.hal_use = [p.hal_use EXCEPT ![i] = p.hal_use[i] - 1]
           /\ OnlyChanges(p, q, {"hal_use"} \cup UsageFields)
           /\ AtMostLeaves(p, q, i) /\ q.used_count <= p.used_count
           /\ Accounted(p, q)
<1> DEFINE r == ClrStatus(p, i, "HAL_INPUT")
<1>1. r = [p EXCEPT !.hal_use = [p.hal_use EXCEPT ![i] = p.hal_use[i] - 1]]
  BY DEF ClrStatus, PoolType
<1>2. q = CheckEntryUnused(r, i)
  BY DEF ClrFlag
<1> HIDE DEF r
<1>3. r \in PoolType(S, F, I)
  <2>1. [p.hal_use EXCEPT ![i] = p.hal_use[i] - 1] \in [S -> 0 .. 255]
    <3>1. p.hal_use \in [S -> 0 .. 255]
      BY PoolFields
    <3> QED BY <3>1
  <2>2. \A v \in [S -> 0 .. 255] : [p EXCEPT !.hal_use = v] \in PoolType(S, F, I)
    BY PoolEdit
  <2> QED BY <1>1, <2>1, <2>2
<1>4. r.hal_use = [p.hal_use EXCEPT ![i] = p.hal_use[i] - 1]
  BY <1>1 DEF PoolType
<1>5. OnlyChanges(p, r, {"hal_use"})
  BY <1>1 DEF PoolType, OnlyChanges, Fields
<1>6. \A j \in S \ {i} : Idle(r, j) <=> Idle(p, j)
  <2>1. /\ r.not_ready = p.not_ready /\ r.hal_output = p.hal_output
        /\ r.codec_use = p.codec_use /\ r.queue_use = p.queue_use
    BY <1>5 DEF OnlyChanges, Fields
  <2>2. \A j \in S \ {i} : r.hal_use[j] = p.hal_use[j]
    BY <1>4 DEF PoolType
  <2> QED BY <2>1, <2>2 DEF Idle
<1>7. OneMarked(p, r, i)
  <2>1. Slots(p) = S
    BY PoolFields
  <2>2. OnlyChanges(p, r, MarkFields)
    BY <1>5 DEF OnlyChanges, MarkFields
  <2> QED BY <1>6, <2>1, <2>2 DEF OneMarked
<1>8. /\ q \in PoolType(S, F, I)
      /\ OnlyChanges(r, q, UsageFields)
      /\ AtMostLeaves(p, q, i) /\ q.used_count <= p.used_count /\ Accounted(p, q)
  BY <1>2, <1>3, <1>7, CheckUnusedFacts
<1>9. OnlyChanges(p, q, {"hal_use"} \cup UsageFields)
  BY <1>5, <1>8 DEF OnlyChanges
<1>10. q.hal_use = r.hal_use
  BY <1>8 DEF OnlyChanges, Fields, UsageFields
<1> QED BY <1>4, <1>8, <1>9, <1>10

(* mpp_buf_slot_clr_flag for a slot that is no longer queued. *)
LEMMA ClrQueueUse ==
    ASSUME NEW S, NEW F, NEW I, NEW p \in PoolType(S, F, I), NEW i \in S, NEW q,
           i \in p.on_used, p.queue_use[i] > 0, q = ClrFlag(p, i, "QUEUE_USE")
    PROVE  /\ q \in PoolType(S, F, I)
           /\ q.queue_use = [p.queue_use EXCEPT ![i] = p.queue_use[i] - 1]
           /\ OnlyChanges(p, q, {"queue_use"} \cup UsageFields)
           /\ AtMostLeaves(p, q, i) /\ q.used_count <= p.used_count
           /\ Accounted(p, q)
<1> DEFINE r == ClrStatus(p, i, "QUEUE_USE")
<1>1. r = [p EXCEPT !.queue_use = [p.queue_use EXCEPT ![i] = p.queue_use[i] - 1]]
  BY DEF ClrStatus, DecQueueUse, PoolType
<1>2. q = CheckEntryUnused(r, i)
  BY DEF ClrFlag
<1> HIDE DEF r
<1>3. r \in PoolType(S, F, I)
  <2>1. [p.queue_use EXCEPT ![i] = p.queue_use[i] - 1] \in [S -> 0 .. 31]
    <3>1. p.queue_use \in [S -> 0 .. 31]
      BY PoolFields
    <3> QED BY <3>1
  <2>2. \A v \in [S -> 0 .. 31] : [p EXCEPT !.queue_use = v] \in PoolType(S, F, I)
    BY PoolEdit
  <2> QED BY <1>1, <2>1, <2>2
<1>4. r.queue_use = [p.queue_use EXCEPT ![i] = p.queue_use[i] - 1]
  BY <1>1 DEF PoolType
<1>5. OnlyChanges(p, r, {"queue_use"})
  BY <1>1 DEF PoolType, OnlyChanges, Fields
<1>6. \A j \in S \ {i} : Idle(r, j) <=> Idle(p, j)
  <2>1. /\ r.not_ready = p.not_ready /\ r.hal_output = p.hal_output
        /\ r.codec_use = p.codec_use /\ r.hal_use = p.hal_use
    BY <1>5 DEF OnlyChanges, Fields
  <2>2. \A j \in S \ {i} : r.queue_use[j] = p.queue_use[j]
    BY <1>4 DEF PoolType
  <2> QED BY <2>1, <2>2 DEF Idle
<1>7. OneMarked(p, r, i)
  <2>1. Slots(p) = S
    BY PoolFields
  <2>2. OnlyChanges(p, r, MarkFields)
    BY <1>5 DEF OnlyChanges, MarkFields
  <2> QED BY <1>6, <2>1, <2>2 DEF OneMarked
<1>8. /\ q \in PoolType(S, F, I)
      /\ OnlyChanges(r, q, UsageFields)
      /\ AtMostLeaves(p, q, i) /\ q.used_count <= p.used_count /\ Accounted(p, q)
  BY <1>2, <1>3, <1>7, CheckUnusedFacts
<1>9. OnlyChanges(p, q, {"queue_use"} \cup UsageFields)
  BY <1>5, <1>8 DEF OnlyChanges
<1>10. q.queue_use = r.queue_use
  BY <1>8 DEF OnlyChanges, Fields, UsageFields
<1> QED BY <1>4, <1>8, <1>9, <1>10

-----------------------------------------------------------------------------
(* mpp_buf_slot_get_unused: the slot it returns was unused and waits for   *)
(* its picture.                                                            *)
LEMMA GetUnusedFacts ==
    ASSUME NEW n \in Nat, NEW F, NEW I, NEW p \in PoolType(0 .. n - 1, F, I), NEW q, NEW i,
           FreeSlots(p) # {}, q = GetUnused(p), i = FirstUnused(p)
    PROVE  /\ q \in PoolType(0 .. n - 1, F, I)
           /\ i \in 0 .. n - 1 /\ i \notin p.on_used
           /\ q.on_used = p.on_used \cup {i} /\ q.not_ready = p.not_ready \cup {i}
           /\ q.used_count = p.used_count + 1
           /\ OnlyChanges(p, q, {"on_used", "not_ready", "used_count"})
           /\ Accounted(p, q)
<1> DEFINE S == 0 .. n - 1
           r1 == [p EXCEPT !.on_used = p.on_used \cup {i}]
           r2 == [r1 EXCEPT !.not_ready = p.not_ready \cup {i}]
<1>1. i \in S /\ i \notin p.on_used
  BY FirstUnusedFacts
<1> HIDE DEF S
<1>2. /\ p.on_used \subseteq S /\ p.not_ready \subseteq S
      /\ p.used_count \in Int /\ Slots(p) = S /\ p \in PoolType(S, F, I)
  <2>1. p \in PoolType(S, F, I)
    BY DEF S
  <2> QED BY <2>1, PoolFields
<1>3. q = [p EXCEPT !.on_used    = p.on_used \cup {i},
                    !.not_ready  = p.not_ready \cup {i},
                    !.used_count = p.used_count + 1]
  BY <1>2 DEF GetUnused, PoolType
<1>4. q \in PoolType(S, F, I)
  <2>1. r1 \in PoolType(S, F, I)
    <3>1. \A v \in SUBSET S : [p EXCEPT !.on_used = v] \in PoolType(S, F, I)
      BY <1>2, PoolEdit
    <3> QED BY <1>1, <1>2, <3>1
  <2> HIDE DEF r1
  <2>2. r2 \in PoolType(S, F, I)
    <3>1. \A v \in SUBSET S : [r1 EXCEPT !.not_ready = v] \in PoolType(S, F, I)
      BY <2>1, PoolEdit
    <3> QED BY <1>1, <1>2, <3>1
  <2>3. q = [r2 EXCEPT !.used_count = p.used_count + 1]
    BY <1>3 DEF r1
  <2> HIDE DEF r2
  <2>4. \A v \in Int : [r2 EXCEPT !.used_count = v] \in PoolType(S, F, I)
    BY <2>2, PoolEdit
  <2> QED BY <1>2, <2>3, <2>4
<1>5. /\ q.on_used = p.on_used \cup {i} /\ q.not_ready = p.not_ready \cup {i}
      /\ q.used_count = p.used_count + 1
  BY <1>2, <1>3 DEF PoolType
<1>6. OnlyChanges(p, q, {"on_used", "not_ready", "used_count"})
  BY <1>2, <1>3 DEF PoolType, OnlyChanges, Fields
<1>7. ASSUME UsedOK(p) PROVE UsedOK(q)
  <2>1. /\ q.hal_output = p.hal_output /\ q.codec_use = p.codec_use
        /\ q.hal_use = p.hal_use /\ q.queue_use = p.queue_use
    BY <1>6 DEF OnlyChanges, Fields
  <2>2. ~Idle(q, i) /\ \A j \in S \ {i} : Idle(q, j) <=> Idle(p, j)
    BY <1>5, <2>1 DEF Idle
  <2>3. Slots(q) = S
    BY <1>4, PoolFields
  <2> QED BY <1>1, <1>2, <1>5, <1>7, <2>2, <2>3 DEF UsedOK
<1>8. ASSUME CountOK(p) PROVE CountOK(q)
  <2>1. IsFiniteSet(p.on_used) /\ p.used_count = Cardinality(p.on_used)
    BY <1>8 DEF CountOK
  <2>2. /\ IsFiniteSet(p.on_used \cup {i})
        /\ Cardinality(p.on_used \cup {i}) = Cardinality(p.on_used) + 1
    BY <1>1, <2>1, FS_AddElement
  <2> QED BY <1>5, <2>1, <2>2 DEF CountOK
<1>9. ASSUME CountCovers(p) PROVE CountCovers(q)
  <2>1. IsFiniteSet(p.on_used) /\ Cardinality(p.on_used) <= p.used_count
    BY <1>9 DEF CountCovers
  <2>2. /\ IsFiniteSet(p.on_used \cup {i}) /\ Cardinality(p.on_used) \in Nat
        /\ Cardinality(p.on_used \cup {i}) = Cardinality(p.on_used) + 1
    BY <1>1, <2>1, FS_AddElement, FS_CardinalityType
  <2>3. Cardinality(p.on_used) + 1 <= p.used_count + 1
    BY <1>2, <2>1, <2>2
  <2> QED BY <1>5, <2>2, <2>3 DEF CountCovers
<1> QED BY <1>1, <1>4, <1>5, <1>6, <1>7, <1>8, <1>9 DEF S, Accounted
(* mpp_buf_slot_enqueue of a slot that is in no queue: it becomes the last *)
(* of the queue, with one more mark.                                       *)
LEMMA EnqueueFacts ==
    ASSUME NEW S, NEW F, NEW I, NEW p \in PoolType(S, F, I), NEW i \in S, NEW q,
           NEW t \in QueueTypes,
           i \in p.on_used, p.queue_use[i] + 1 < QueueUseRange,
           \A u \in QueueTypes : i \notin ToSet(p.queue[u]),
           q = Enqueue(p, i, t)
    PROVE  /\ q \in PoolType(S, F, I)
           /\ q.queue_use = [p.queue_use EXCEPT ![i] = p.queue_use[i] + 1]
           /\ q.queue = [p.queue EXCEPT ![t] = Append(p.queue[t], i)]
           /\ OnlyChanges(p, q, {"queue_use", "queue"})
           /\ Accounted(p, q)
<1> DEFINE r == IncQueueUse(p, i)
           v == [p.queue EXCEPT ![t] = Append(p.queue[t], i)]
<1>1. /\ r \in PoolType(S, F, I)
      /\ r.queue_use = [p.queue_use EXCEPT ![i] = p.queue_use[i] + 1]
      /\ OnlyChanges(p, r, {"queue_use"})
      /\ Accounted(p, r)
  BY IncQueueUseFacts
<1>2. p.queue \in [QueueTypes -> Seq(S)] /\ v \in [QueueTypes -> Seq(S)]
  <2>1. p.queue \in [QueueTypes -> Seq(S)]
    BY PoolFields
  <2>2. Append(p.queue[t], i) \in Seq(S)
    BY <2>1
  <2> QED BY <2>1, <2>2
<1>3. ListDel(p.queue, i) = p.queue
  <2>1. \A u \in QueueTypes : RemoveFirst(p.queue[u], i) = p.queue[u]
    BY <1>2, RemoveAbsent
  <2> QED BY <1>2, <2>1 DEF ListDel
<1>4. q = [r EXCEPT !.queue = v]
  BY <1>3 DEF Enqueue
<1> HIDE DEF r, v
<1>5. q \in PoolType(S, F, I)
  <2>1. \A w \in [QueueTypes -> Seq(S)] : [r EXCEPT !.queue = w] \in PoolType(S, F, I)
    BY <1>1, PoolEdit
  <2> QED BY <1>2, <1>4, <2>1
<1>6. q.queue = v
  BY <1>1, <1>4 DEF PoolType
<1>7. OnlyChanges(r, q, {"queue"})
  BY <1>1, <1>4 DEF PoolType, OnlyChanges, Fields
<1>8. OnlyChanges(p, q, {"queue_use", "queue"})
  BY <1>1, <1>7 DEF OnlyChanges
<1>9. q.queue_use = r.queue_use
  BY <1>7 DEF OnlyChanges, Fields
<1>10. Accounted(r, q)
  <2>1. Slots(r) = S /\ Slots(q) = S
    BY <1>1, <1>5, PoolFields
  <2>2. /\ q.on_used = r.on_used /\ q.used_count = r.used_count
        /\ q.not_ready = r.not_ready /\ q.codec_use = r.codec_use
        /\ q.hal_output = r.hal_output /\ q.hal_use = r.hal_use
    BY <1>7 DEF OnlyChanges, Fields
  <2>3. \A j \in S : Idle(q, j) <=> Idle(r, j)
    BY <1>9, <2>2 DEF Idle
  <2>4. UsedOK(r) => UsedOK(q)
    BY <2>1, <2>2, <2>3 DEF UsedOK
  <2> QED BY <2>2, <2>4 DEF Accounted, CountOK, CountCovers
<1>11. Accounted(p, q)
  BY <1>1, <1>10 DEF Accounted
<1> QED BY <1>1, <1>5, <1>6, <1>8, <1>9, <1>11 DEF v

(* Slot i, the head of queue t, leaves it and loses one of its marks. *)
Unqueued(p, q, t, i) ==
    /\ q.queue_use = [p.queue_use EXCEPT ![i] = p.queue_use[i] - 1]
    /\ q.queue = [p.queue EXCEPT ![t] = Tail(p.queue[t])]

(* mpp_buf_slot_dequeue: the slot at the head of the queue loses one of    *)
(* its marks; it stays on_used if it had two.                              *)
LEMMA DequeueFacts ==
    ASSUME NEW S, NEW F, NEW I, NEW p \in PoolType(S, F, I), NEW i \in S, NEW q,
           NEW t \in QueueTypes,
           p.queue[t] # <<>>, i = Head(p.queue[t]), i \in p.on_used,
           p.queue_use[i] > 1, q = Dequeue(p, t)
    PROVE  /\ q \in PoolType(S, F, I)
           /\ Unqueued(p, q, t, i)
           /\ OnlyChanges(p, q, {"queue_use", "queue"})
           /\ Accounted(p, q)
<1> DEFINE u == [p.queue_use EXCEPT ![i] = p.queue_use[i] - 1]
           v == [p.queue EXCEPT ![t] = Tail(p.queue[t])]
           r == [p EXCEPT !.queue_use = u]
<1>1. p.queue \in [QueueTypes -> Seq(S)] /\ v \in [QueueTypes -> Seq(S)]
  <2>1. p.queue \in [QueueTypes -> Seq(S)]
    BY PoolFields
  <2>2. Tail(p.queue[t]) \in Seq(S)
    BY <2>1
  <2> QED BY <2>1, <2>2
<1>2. p.queue_use[i] \in 0 .. 31 /\ u \in [S -> 0 .. 31]
  <2>1. p.queue_use \in [S -> 0 .. 31]
    BY PoolFields
  <2> DEFINE k == p.queue_use[i]
  <2>2. k \in 0 .. 31 /\ k > 1
    BY <2>1
  <2> HIDE DEF k
  <2>3. k - 1 \in 0 .. 31
    BY <2>2
  <2> QED BY <2>1, <2>2, <2>3 DEF k
<1>3. r \in PoolType(S, F, I)
  <2>1. \A w \in [S -> 0 .. 31] : [p EXCEPT !.queue_use = w] \in PoolType(S, F, I)
    BY PoolEdit
  <2> QED BY <1>2, <2>1
<1>4. r = DecQueueUse(p, i)
  BY <1>2 DEF DecQueueUse, PoolType
<1>5. r.queue = p.queue /\ r.queue_use = u /\ OnlyChanges(p, r, {"queue_use"})
  BY SMTT(30) DEF PoolType, OnlyChanges, Fields
<1>6. q = [r EXCEPT !.queue = v]
  BY <1>3, <1>4, <1>5 DEF Dequeue, PoolType
<1> HIDE DEF r, v
<1>7. q \in PoolType(S, F, I)
  <2>1. \A w \in [QueueTypes -> Seq(S)] : [r EXCEPT !.queue = w] \in PoolType(S, F, I)
    BY <1>3, PoolEdit
  <2> QED BY <1>1, <1>6, <2>1
<1>8. q.queue = v
  BY <1>3, <1>6 DEF PoolType
<1>9. OnlyChanges(r, q, {"queue"})
  BY <1>3, <1>6 DEF PoolType, OnlyChanges, Fields
<1>10. OnlyChanges(p, q, {"queue_use", "queue"})
  BY <1>5, <1>9 DEF OnlyChanges
<1>11. q.queue_use = u
  BY <1>5, <1>9 DEF OnlyChanges, Fields
<1>12. Accounted(p, q)
  <2>1. Slots(p) = S /\ Slots(q) = S
    BY <1>7, PoolFields
  <2>2. /\ q.on_used = p.on_used /\ q.used_count = p.used_count
        /\ q.not_ready = p.not_ready /\ q.codec_use = p.codec_use
        /\ q.hal_output = p.hal_output /\ q.hal_use = p.hal_use
    BY <1>10 DEF OnlyChanges, Fields
  <2>3. q.queue_use[i] # 0 /\ \A j \in S \ {i} : q.queue_use[j] = p.queue_use[j]
    <3>1. p.queue_use \in [S -> 0 .. 31]
      BY PoolFields
    <3> QED BY <1>2, <1>11, <3>1
  <2>4. ~Idle(q, i) /\ \A j \in S \ {i} : Idle(q, j) <=> Idle(p, j)
    BY <2>2, <2>3 DEF Idle
  <2>5. UsedOK(p) => UsedOK(q)
    BY <2>1, <2>2, <2>4 DEF UsedOK
  <2> QED BY <2>2, <2>5 DEF Accounted, CountOK, CountCovers
<1> QED BY <1>7, <1>8, <1>10, <1>11, <1>12 DEF v, Unqueued

(* mpp_buf_slot_set_prop(SLOT_FRAME) on a slot that waits for its picture. *)
LEMMA SetFrameFacts ==
    ASSUME NEW S, NEW F, NEW I, NEW p \in PoolType(S, F, I), NEW i \in S, NEW q,
           NEW f \in F,
           f.info \in I, i \in p.not_ready, q = SetFrame(p, i, f)
    PROVE  /\ q \in PoolType(S, F, I)
           /\ q.frame = [p.frame EXCEPT ![i] = f]
           /\ OnlyChanges(p, q, {"frame", "info_set", "info_changed"})
           /\ Accounted(p, q)
<1> DEFINE g == [p.frame EXCEPT ![i] = f]
           c == (p.info_changed \/ f.info # p.info)
           r1 == [p EXCEPT !.frame = g]
           r2 == [r1 EXCEPT !.info_set = f.info]
<1>1. q = [p EXCEPT !.frame = g, !.info_set = f.info, !.info_changed = c]
  BY DEF SetFrame, PoolType
<1>2. c \in BOOLEAN
  OBVIOUS
<1> HIDE DEF c
<1>3. q \in PoolType(S, F, I)
  <2>1. r1 \in PoolType(S, F, I)
    <3>1. \A v \in [S -> F \cup {None}] : [p EXCEPT !.frame = v] \in PoolType(S, F, I)
      BY PoolEdit
    <3>2. g \in [S -> F \cup {None}]
      <4>1. p.frame \in [S -> F \cup {None}]
        BY PoolFields
      <4> QED BY <4>1
    <3> QED BY <3>1, <3>2
  <2> HIDE DEF r1
  <2>2. r2 \in PoolType(S, F, I)
    <3>1. \A v \in I : [r1 EXCEPT !.info_set = v] \in PoolType(S, F, I)
      BY <2>1, PoolEdit
    <3> QED BY <3>1
  <2>3. q = [r2 EXCEPT !.info_changed = c]
    BY <1>1 DEF r1
  <2> HIDE DEF r2
  <2>4. \A v \in BOOLEAN : [r2 EXCEPT !.info_changed = v] \in PoolType(S, F, I)
    BY <2>2, PoolEdit
  <2> QED BY <1>2, <2>3, <2>4
<1>4. q.frame = g
  BY <1>1 DEF PoolType
<1>5. OnlyChanges(p, q, {"frame", "info_set", "info_changed"})
  BY <1>1 DEF PoolType, OnlyChanges, Fields
<1>6. Accounted(p, q)
  <2>1. Slots(p) = S /\ Slots(q) = S
    BY <1>3, PoolFields
  <2>2. /\ q.on_used = p.on_used /\ q.used_count = p.used_count
        /\ q.not_ready = p.not_ready /\ q.codec_use = p.codec_use
        /\ q.hal_output = p.hal_output /\ q.hal_use = p.hal_use
        /\ q.queue_use = p.queue_use
    BY <1>5 DEF OnlyChanges, Fields
  <2>3. \A j \in S : Idle(q, j) <=> Idle(p, j)
    BY <2>2 DEF Idle
  <2>4. UsedOK(p) => UsedOK(q)
    BY <2>1, <2>2, <2>3 DEF UsedOK
  <2> QED BY <2>2, <2>4 DEF Accounted, CountOK, CountCovers
<1> QED BY <1>3, <1>4, <1>5, <1>6

(* mpp_buf_slot_ready touches no slot. *)
LEMMA ReadyFacts ==
    ASSUME NEW S, NEW F, NEW I, NEW p \in PoolType(S, F, I), NEW q, q = Ready(p)
    PROVE  /\ q \in PoolType(S, F, I)
           /\ OnlyChanges(p, q, {"info", "info_changed"})
           /\ Accounted(p, q)
<1> DEFINE r == [p EXCEPT !.info = p.info_set]
<1>1. q = [p EXCEPT !.info = p.info_set, !.info_changed = FALSE]
  BY DEF Ready
<1>2. q \in PoolType(S, F, I)
  <2>1. p.info_set \in I
    BY PoolFields
  <2>2. r \in PoolType(S, F, I)
    <3>1. \A v \in I : [p EXCEPT !.info = v] \in PoolType(S, F, I)
      BY PoolEdit
    <3> QED BY <2>1, <3>1
  <2>3. q = [r EXCEPT !.info_changed = FALSE]
    BY <1>1
  <2> HIDE DEF r
  <2>4. \A v \in BOOLEAN : [r EXCEPT !.info_changed = v] \in PoolType(S, F, I)
    BY <2>2, PoolEdit
  <2> QED BY <2>3, <2>4
<1>3. OnlyChanges(p, q, {"info", "info_changed"})
  BY <1>1 DEF PoolType, OnlyChanges, Fields
<1>4. Accounted(p, q)
  <2>1. Slots(p) = S /\ Slots(q) = S
    BY <1>2, PoolFields
  <2>2. /\ q.on_used = p.on_used /\ q.used_count = p.used_count
        /\ q.not_ready = p.not_ready /\ q.codec_use = p.codec_use
        /\ q.hal_output = p.hal_output /\ q.hal_use = p.hal_use
        /\ q.queue_use = p.queue_use
    BY <1>3 DEF OnlyChanges, Fields
  <2>3. \A j \in S : Idle(q, j) <=> Idle(p, j)
    BY <2>2 DEF Idle
  <2>4. UsedOK(p) => UsedOK(q)
    BY <2>1, <2>2, <2>3 DEF UsedOK
  <2> QED BY <2>2, <2>4 DEF Accounted, CountOK, CountCovers
<1> QED BY <1>2, <1>3, <1>4

-----------------------------------------------------------------------------
(* Folds. *)

(* A nonempty set of naturals has a least element. *)
LEMMA NatMin ==
    ASSUME NEW T, T \subseteq Nat, T # {}
    PROVE  \E m \in T : \A k \in T : m <= k
<1> DEFINE R == {ss \in Nat \X Nat : ss[1] < ss[2]}
<1>1. IsWellFoundedOn(R, Nat)
  BY NatLessThanWellFounded DEF OpToRel
<1> HIDE DEF R
<1>2. PICK m \in T : \A k \in T : ~(<<k, m>> \in R)
  BY <1>1, WFMin
<1>3. \A k \in T : ~(k < m)
  BY <1>2 DEF R
<1> QED BY <1>3

(* Induction, for a set instead of a predicate. *)
LEMMA NatSetInduction ==
    ASSUME NEW S, 0 \in S, \A n \in Nat : n \in S => n + 1 \in S
    PROVE  Nat \subseteq S
<1> DEFINE T == Nat \ S
<1>1. SUFFICES ASSUME T # {} PROVE FALSE
  OBVIOUS
<1>2. PICK m \in T : \A k \in T : m <= k
  BY <1>1, NatMin
<1>3. m - 1 \in Nat /\ m - 1 \notin T
  BY <1>2
<1> QED BY <1>2, <1>3

(* The same up to a bound. *)
LEMMA BoundedInduction ==
    ASSUME NEW m \in Nat, NEW S, 0 \in S, \A n \in 0 .. m - 1 : n \in S => n + 1 \in S
    PROVE  0 .. m \subseteq S
<1> DEFINE T == {n \in Nat : n <= m => n \in S}
<1>1. 0 \in T
  OBVIOUS
<1>2. ASSUME NEW n \in Nat, n \in T PROVE n + 1 \in T
  BY <1>2
<1> HIDE DEF T
<1>3. Nat \subseteq T
  BY <1>1, <1>2, NatSetInduction
<1> QED BY <1>3 DEF T

(* The greatest element of a set that ends with n. *)
LEMMA MaxLast ==
    ASSUME NEW n \in Nat, NEW s \in SUBSET (1 .. n), n \in s
    PROVE  Max(s) = n
<1>1. \A x \in s : (\A y \in s : x >= y) => x = n
  <2> SUFFICES ASSUME NEW x \in s, x >= n PROVE x = n
    OBVIOUS
  <2> QED OBVIOUS
<1>2. \A y \in s : n >= y
  OBVIOUS
<1> QED BY <1>1, <1>2 DEF Max

(* A finite set of naturals has its greatest element. *)
LEMMA MaxIn ==
    ASSUME NEW n \in Nat, NEW s \in SUBSET (1 .. n), s # {}
    PROVE  Max(s) \in s
<1> DEFINE T == {n - x : x \in s}
<1>1. T \subseteq Nat /\ T # {}
  <2>1. \A x \in s : n - x \in Nat
    OBVIOUS
  <2> QED BY <2>1
<1>2. PICK m \in T : \A k \in T : m <= k
  <2> HIDE DEF T
  <2> QED BY <1>1, NatMin
<1>3. PICK x \in s : m = n - x
  BY <1>2
<1>4. \A y \in s : x >= y
  <2> SUFFICES ASSUME NEW y \in s PROVE x >= y
    OBVIOUS
  <2>1. n - x <= n - y /\ x \in 1 .. n /\ y \in 1 .. n
    BY <1>2, <1>3
  <2> QED BY <2>1
<1> QED BY <1>4 DEF Max

(* The steps of a fold, as functions of the value so far and the position, *)
(* and the functions that FoldLeft and MapThenFoldSet define with them.    *)
FoldSteps(V) == [V \X Nat -> V]

FoldsOf(n, V, b, g) ==
    {it \in [SUBSET (1 .. n) -> V] : \A s \in SUBSET (1 .. n) :
        it[s] = IF s = {} THEN b ELSE g[<<it[s \ {Max(s)}], Max(s)>>]}

(* A fold from left to right is defined. *)
LEMMA FoldExists ==
    ASSUME NEW n \in Nat, NEW V, NEW b \in V, NEW g \in FoldSteps(V)
    PROVE  FoldsOf(n, V, b, g) # {}
<1> USE DEF FoldSteps
<1> DEFINE Ok(k, it) == \A s \in SUBSET (1 .. k) :
               it[s] = IF s = {} THEN b ELSE g[<<it[s \ {Max(s)}], Max(s)>>]
           S == {k \in Nat : \E it \in [SUBSET (1 .. k) -> V] : Ok(k, it)}
<1>1. 0 \in S
  <2>1. Ok(0, [s \in SUBSET (1 .. 0) |-> b])
    OBVIOUS
  <2> QED BY <2>1
<1>2. ASSUME NEW k \in Nat, k \in S PROVE k + 1 \in S
  <2>1. PICK it \in [SUBSET (1 .. k) -> V] : Ok(k, it)
    BY <1>2
  <2> DEFINE N == k + 1
             ext == [s \in SUBSET (1 .. N) |->
                        IF N \in s THEN g[<<it[s \ {N}], N>>] ELSE it[s]]
  <2>2. \A s \in SUBSET (1 .. N) :
           IF N \in s THEN s \ {N} \in SUBSET (1 .. k) ELSE s \in SUBSET (1 .. k)
    <3> SUFFICES ASSUME NEW s \in SUBSET (1 .. N), NEW x \in s, x # N
                 PROVE  x \in 1 .. k
      OBVIOUS
    <3> QED OBVIOUS
  <2>3. ext \in [SUBSET (1 .. N) -> V]
    <3> SUFFICES ASSUME NEW s \in SUBSET (1 .. N)
                 PROVE  (IF N \in s THEN g[<<it[s \ {N}], N>>] ELSE it[s]) \in V
      OBVIOUS
    <3>1. N \in Nat
      OBVIOUS
    <3> QED BY <2>1, <2>2, <3>1
  <2>4. ASSUME NEW s \in SUBSET (1 .. N)
        PROVE  ext[s] = IF s = {} THEN b ELSE g[<<ext[s \ {Max(s)}], Max(s)>>]
    <3>1. CASE N \in s
      <4>1. Max(s) = N /\ s # {}
        BY <3>1, MaxLast
      <4>2. s \ {N} \in SUBSET (1 .. N) /\ N \notin s \ {N}
        OBVIOUS
      <4>3. ext[s] = g[<<it[s \ {N}], N>>] /\ ext[s \ {N}] = it[s \ {N}]
        BY <3>1, <4>2
      <4> QED BY <4>1, <4>3
    <3>2. CASE N \notin s
      <4>1. s \in SUBSET (1 .. k) /\ ext[s] = it[s]
        BY <2>2, <3>2
      <4>2. it[s] = IF s = {} THEN b ELSE g[<<it[s \ {Max(s)}], Max(s)>>]
        BY <2>1, <4>1
      <4>3. s \ {Max(s)} \in SUBSET (1 .. N) /\ N \notin s \ {Max(s)}
        BY <3>2
      <4>4. ext[s \ {Max(s)}] = it[s \ {Max(s)}]
        BY <4>3
      <4> QED BY <4>1, <4>2, <4>4
    <3> QED BY <3>1, <3>2
  <2> HIDE DEF ext
  <2>5. Ok(N, ext)
    BY <2>4
  <2> HIDE DEF Ok
  <2> QED BY <2>3, <2>5
<1> HIDE DEF S
<1>3. n \in S
  BY <1>1, <1>2, NatSetInduction
<1> QED BY <1>3 DEF S, FoldsOf

(* One handle after the other gets status t. *)
SetAll(g, q, t) == FoldLeft(LAMBDA x, h : SetStatus(x, h, t), g, q)

(* The groups on the way. *)
SetChains(V, g, q, t) ==
    {c \in [0 .. Len(q) -> V] :
        /\ c[0] = g
        /\ \A k \in 1 .. Len(q) : c[k] = SetStatus(c[k - 1], q[k], t)
        /\ SetAll(g, q, t) = c[Len(q)]}

(* There are such groups. *)
LEMMA SetAllChain ==
    ASSUME NEW V, NEW g \in V, NEW H, NEW q \in Seq(H), NEW t,
           \A v \in V, h \in H : SetStatus(v, h, t) \in V
    PROVE  SetChains(V, g, q, t) # {}
<1> DEFINE n == Len(q)
           Eq(it) == it = [s \in SUBSET (1 .. n) |->
                       IF s = {} THEN g
                       ELSE SetStatus(it[s \ {Max(s)}], q[Max(s)], t)]
<1>1. n \in Nat /\ DOMAIN q = 1 .. n /\ \A k \in 1 .. n : q[k] \in H
  OBVIOUS
<1>2. SetAll(g, q, t) = (CHOOSE it : Eq(it))[1 .. n]
  BY <1>1 DEF SetAll, FoldLeft, MapThenFoldSet
<1> DEFINE st == [vk \in V \X Nat |->
                     IF vk[2] \in 1 .. n THEN SetStatus(vk[1], q[vk[2]], t) ELSE vk[1]]
<1>3. st \in FoldSteps(V)
  BY <1>1 DEF FoldSteps
<1>4. PICK it \in [SUBSET (1 .. n) -> V] : \A s \in SUBSET (1 .. n) :
         it[s] = IF s = {} THEN g ELSE st[<<it[s \ {Max(s)}], Max(s)>>]
  <2>1. n \in Nat
    OBVIOUS
  <2> HIDE DEF st, n
  <2>2. FoldsOf(n, V, g, st) # {}
    BY <1>3, <2>1, FoldExists
  <2> QED BY <2>2 DEF FoldsOf
<1>5. ASSUME NEW s \in SUBSET (1 .. n), s # {}
      PROVE  Max(s) \in 1 .. n /\ s \ {Max(s)} \in SUBSET (1 .. n)
  BY <1>1, <1>5, MaxIn
<1>6. \A s \in SUBSET (1 .. n) :
         it[s] = IF s = {} THEN g ELSE SetStatus(it[s \ {Max(s)}], q[Max(s)], t)
  <2> SUFFICES ASSUME NEW s \in SUBSET (1 .. n), s # {}
               PROVE  it[s] = SetStatus(it[s \ {Max(s)}], q[Max(s)], t)
    BY <1>4
  <2>1. Max(s) \in 1 .. n /\ it[s \ {Max(s)}] \in V /\ Max(s) \in Nat
    BY <1>1, <1>4, <1>5
  <2> QED BY <1>4, <2>1
<1>7. Eq(it)
  <2>1. it = [s \in SUBSET (1 .. n) |-> it[s]]
    OBVIOUS
  <2> QED BY <1>6, <2>1
<1> DEFINE cc == CHOOSE f : Eq(f)
<1>8. Eq(cc)
  <2> HIDE DEF Eq
  <2> QED BY <1>7
<1>9. \A s \in SUBSET (1 .. n) :
         cc[s] = IF s = {} THEN g ELSE SetStatus(cc[s \ {Max(s)}], q[Max(s)], t)
  <2> HIDE DEF cc
  <2> QED BY <1>8
<1> HIDE DEF cc, Eq
<1> DEFINE c == [k \in 0 .. n |-> cc[1 .. k]]
<1>10. c[0] = g
  <2>1. 1 .. 0 = {} /\ {} \in SUBSET (1 .. n) /\ 0 \in 0 .. n
    BY <1>1
  <2> QED BY <1>9, <2>1
<1>11. ASSUME NEW k \in 1 .. n
       PROVE  c[k] = SetStatus(c[k - 1], q[k], t)
  <2>1. k \in Nat /\ k \in 1 .. k /\ 1 .. k # {} /\ k \in 0 .. n /\ k - 1 \in 0 .. n
    <3>1. n \in Nat
      OBVIOUS
    <3> HIDE DEF n
    <3>2. k \in Nat /\ k \in 1 .. k /\ k \in 0 .. n /\ k - 1 \in 0 .. n
      BY <3>1
    <3> QED BY <3>2
  <2>4. 1 .. k \in SUBSET (1 .. n) /\ (1 .. k) \ {k} = 1 .. k - 1
    <3> HIDE DEF n
    <3> QED BY <1>1, <2>1
  <2>2. Max(1 .. k) = k
    BY <2>1, MaxLast
  <2>3. cc[1 .. k] = SetStatus(cc[1 .. k - 1], q[k], t)
    BY <1>9, <2>1, <2>2, <2>4
  <2> QED BY <2>1, <2>3
<1> HIDE DEF c
<1>12. ASSUME NEW k \in 0 .. n - 1, c[k] \in V PROVE c[k + 1] \in V
  <2>1. k + 1 \in 1 .. n /\ (k + 1) - 1 = k
    BY <1>1
  <2>2. c[k + 1] = SetStatus(c[k], q[k + 1], t)
    BY <1>11, <2>1
  <2> QED BY <1>1, <1>12, <2>1, <2>2
<1>13. \A k \in 0 .. n : c[k] \in V
  <2> DEFINE S == {k \in 0 .. n : c[k] \in V}
  <2>1. 0 \in S
    BY <1>1, <1>10
  <2>2. \A k \in 0 .. n - 1 : k \in S => k + 1 \in S
    BY <1>1, <1>12
  <2> HIDE DEF S
  <2>3. 0 .. n \subseteq S
    BY <1>1, <2>1, <2>2, BoundedInduction
  <2> QED BY <2>3 DEF S
<1>14. c \in [0 .. n -> V]
  BY <1>13 DEF c
<1>15. c[n] = cc[1 .. n]
  BY <1>1 DEF c
<1>16. SetAll(g, q, t) = c[n]
  BY <1>2, <1>15 DEF cc
<1> HIDE DEF c
<1> QED BY <1>10, <1>11, <1>14, <1>16 DEF SetChains

-----------------------------------------------------------------------------
(* The folds over the references of a task. *)
SetAllInputs(p, R) == FoldSet(LAMBDA r, q : SetFlag(q, r, "HAL_INPUT"), p, R)
ClrAllInputs(p, R) == FoldSet(LAMBDA i, q : ClrFlag(q, i, "HAL_INPUT"), p, R)

(* A picture has one reference, or none. *)
LEMMA SetInputsFacts ==
    ASSUME NEW p, NEW r
    PROVE  /\ SetAllInputs(p, {}) = p
           /\ SetAllInputs(p, {r}) = SetFlag(p, r, "HAL_INPUT")
<1> DEFINE ch(s) == CHOOSE x \in s : TRUE
           Eq(it, R) == it = [s \in SUBSET R |->
                         IF s = {} THEN p ELSE SetFlag(it[s \ {ch(s)}], ch(s), "HAL_INPUT")]
<1>1. \A R : SetAllInputs(p, R) = (CHOOSE it : Eq(it, R))[R]
  BY DEF SetAllInputs, FoldSet, MapThenFoldSet
<1>2. SetAllInputs(p, {}) = p
  <2>1. Eq([s \in SUBSET {} |-> p], {})
    OBVIOUS
  <2> DEFINE c == CHOOSE it : Eq(it, {})
  <2> HIDE DEF Eq
  <2>2. Eq(c, {})
    BY <2>1
  <2>3. c[{}] = p
    BY <2>2 DEF Eq
  <2> QED BY <1>1, <2>3
<1>3. SetAllInputs(p, {r}) = SetFlag(p, r, "HAL_INPUT")
  <2> DEFINE f == [s \in SUBSET {r} |-> IF s = {} THEN p ELSE SetFlag(p, r, "HAL_INPUT")]
  <2>1. \A s \in SUBSET {r} : s # {} => s = {r} /\ ch(s) = r /\ s \ {ch(s)} = {}
    OBVIOUS
  <2>2. f[{}] = p /\ {r} # {}
    OBVIOUS
  <2>3. Eq(f, {r})
    <3> HIDE DEF ch
    <3> QED BY <2>1, <2>2
  <2> DEFINE c == CHOOSE it : Eq(it, {r})
  <2> HIDE DEF Eq, f
  <2>4. Eq(c, {r})
    BY <2>3
  <2>5. c[{}] = p
    BY <2>4 DEF Eq
  <2>6. c[{r}] = SetFlag(c[{r} \ {ch({r})}], ch({r}), "HAL_INPUT")
    <3> HIDE DEF ch, c
    <3> QED BY <2>2, <2>4 DEF Eq
  <2>7. ch({r}) = r /\ {r} \ {ch({r})} = {}
    BY <2>1, <2>2
  <2> HIDE DEF ch, c
  <2> QED BY <1>1, <2>5, <2>6, <2>7 DEF c
<1> QED BY <1>2, <1>3

(* The same when the marks are cleared. *)
LEMMA ClrInputsFacts ==
    ASSUME NEW p, NEW r
    PROVE  /\ ClrAllInputs(p, {}) = p
           /\ ClrAllInputs(p, {r}) = ClrFlag(p, r, "HAL_INPUT")
<1> DEFINE ch(s) == CHOOSE x \in s : TRUE
           Eq(it, R) == it = [s \in SUBSET R |->
                         IF s = {} THEN p ELSE ClrFlag(it[s \ {ch(s)}], ch(s), "HAL_INPUT")]
<1>1. \A R : ClrAllInputs(p, R) = (CHOOSE it : Eq(it, R))[R]
  BY DEF ClrAllInputs, FoldSet, MapThenFoldSet
<1>2. ClrAllInputs(p, {}) = p
  <2>1. Eq([s \in SUBSET {} |-> p], {})
    OBVIOUS
  <2> DEFINE c == CHOOSE it : Eq(it, {})
  <2> HIDE DEF Eq
  <2>2. Eq(c, {})
    BY <2>1
  <2>3. c[{}] = p
    BY <2>2 DEF Eq
  <2> QED BY <1>1, <2>3
<1>3. ClrAllInputs(p, {r}) = ClrFlag(p, r, "HAL_INPUT")
  <2> DEFINE f == [s \in SUBSET {r} |-> IF s = {} THEN p ELSE ClrFlag(p, r, "HAL_INPUT")]
  <2>1. \A s \in SUBSET {r} : s # {} => s = {r} /\ ch(s) = r /\ s \ {ch(s)} = {}
    OBVIOUS
  <2>2. f[{}] = p /\ {r} # {}
    OBVIOUS
  <2>3. Eq(f, {r})
    <3> HIDE DEF ch
    <3> QED BY <2>1, <2>2
  <2> DEFINE c == CHOOSE it : Eq(it, {r})
  <2> HIDE DEF Eq, f
  <2>4. Eq(c, {r})
    BY <2>3
  <2>5. c[{}] = p
    BY <2>4 DEF Eq
  <2>6. c[{r}] = ClrFlag(c[{r} \ {ch({r})}], ch({r}), "HAL_INPUT")
    <3> HIDE DEF ch, c
    <3> QED BY <2>2, <2>4 DEF Eq
  <2>7. ch({r}) = r /\ {r} \ {ch({r})} = {}
    BY <2>1, <2>2
  <2> HIDE DEF ch, c
  <2> QED BY <1>1, <2>5, <2>6, <2>7 DEF c
<1> QED BY <1>2, <1>3

-----------------------------------------------------------------------------
(* Slot i, the head of the display queue, goes to the user. *)
Show(q, i) == ClrFlag(Dequeue(q, "QUEUE_DISPLAY"), i, "QUEUE_USE")

ShowAll(p, d) == FoldLeft(LAMBDA q, i : Show(q, i), p, d)

(* The pools on the way, one for each slot that is shown. *)
LEMMA ShowChain ==
    ASSUME NEW p, NEW H, NEW d \in Seq(H)
    PROVE  \E c : /\ c[0] = p
                  /\ \A k \in 1 .. Len(d) : c[k] = Show(c[k - 1], d[k])
                  /\ ShowAll(p, d) = c[Len(d)]
<1> DEFINE n == Len(d)
           Eq(k, it) == it = [s \in SUBSET (1 .. k) |->
                       IF s = {} THEN p ELSE Show(it[s \ {Max(s)}], d[Max(s)])]
           S == {k \in Nat : \E it : Eq(k, it)}
<1>1. n \in Nat /\ DOMAIN d = 1 .. n
  OBVIOUS
<1>2. ShowAll(p, d) = (CHOOSE it : Eq(n, it))[1 .. n]
  BY <1>1 DEF ShowAll, FoldLeft, MapThenFoldSet
<1>3. 0 \in S
  <2>1. Eq(0, [s \in SUBSET (1 .. 0) |-> p])
    <3>1. \A s \in SUBSET (1 .. 0) : s = {}
      OBVIOUS
    <3> QED BY <3>1
  <2> QED BY <2>1
<1>4. ASSUME NEW k \in Nat, k \in S PROVE k + 1 \in S
  <2>1. PICK it : Eq(k, it)
    BY <1>4
  <2> DEFINE N == k + 1
             ext == [s \in SUBSET (1 .. N) |->
                        IF N \in s THEN Show(it[s \ {N}], d[N]) ELSE it[s]]
  <2>2. \A s \in SUBSET (1 .. N) :
           IF N \in s THEN s \ {N} \in SUBSET (1 .. k) ELSE s \in SUBSET (1 .. k)
    <3> SUFFICES ASSUME NEW s \in SUBSET (1 .. N), NEW x \in s, x # N
                 PROVE  x \in 1 .. k
      OBVIOUS
    <3> QED OBVIOUS
  <2>3. ASSUME NEW s \in SUBSET (1 .. N)
        PROVE  ext[s] = IF s = {} THEN p ELSE Show(ext[s \ {Max(s)}], d[Max(s)])
    <3>1. CASE N \in s
      <4>1. Max(s) = N /\ s # {}
        BY <3>1, MaxLast
      <4>2. s \ {N} \in SUBSET (1 .. N) /\ N \notin s \ {N}
        OBVIOUS
      <4>3. ext[s] = Show(it[s \ {N}], d[N]) /\ ext[s \ {N}] = it[s \ {N}]
        BY <3>1, <4>2
      <4> QED BY <4>1, <4>3
    <3>2. CASE N \notin s
      <4>1. s \in SUBSET (1 .. k) /\ ext[s] = it[s]
        BY <2>2, <3>2
      <4>2. it[s] = IF s = {} THEN p ELSE Show(it[s \ {Max(s)}], d[Max(s)])
        BY <2>1, <4>1
      <4>3. s \ {Max(s)} \in SUBSET (1 .. N) /\ N \notin s \ {Max(s)}
        BY <3>2
      <4>4. ext[s \ {Max(s)}] = it[s \ {Max(s)}]
        BY <4>3
      <4> QED BY <4>1, <4>2, <4>4
    <3> QED BY <3>1, <3>2
  <2>4. ext = [s \in SUBSET (1 .. N) |-> ext[s]]
    OBVIOUS
  <2> HIDE DEF ext
  <2>5. Eq(N, ext)
    BY <2>3, <2>4
  <2> HIDE DEF Eq
  <2> QED BY <2>5
<1> HIDE DEF S
<1>5. n \in S
  BY <1>1, <1>3, <1>4, NatSetInduction
<1> DEFINE cc == CHOOSE it : Eq(n, it)
<1>6. Eq(n, cc)
  <2> HIDE DEF Eq
  <2> QED BY <1>5 DEF S
<1>7. \A s \in SUBSET (1 .. n) :
         cc[s] = IF s = {} THEN p ELSE Show(cc[s \ {Max(s)}], d[Max(s)])
  <2> HIDE DEF cc
  <2> QED BY <1>6
<1> HIDE DEF cc, Eq
<1> DEFINE c == [k \in 0 .. n |-> cc[1 .. k]]
<1>8. c[0] = p
  <2>1. 1 .. 0 = {} /\ {} \in SUBSET (1 .. n) /\ 0 \in 0 .. n
    BY <1>1
  <2> QED BY <1>7, <2>1
<1>9. ASSUME NEW k \in 1 .. n
      PROVE  c[k] = Show(c[k - 1], d[k])
  <2>1. k \in Nat /\ k \in 1 .. k /\ 1 .. k # {} /\ k \in 0 .. n /\ k - 1 \in 0 .. n
    <3>1. n \in Nat
      OBVIOUS
    <3> HIDE DEF n
    <3>2. k \in Nat /\ k \in 1 .. k /\ k \in 0 .. n /\ k - 1 \in 0 .. n
      BY <3>1
    <3> QED BY <3>2
  <2>2. 1 .. k \in SUBSET (1 .. n) /\ (1 .. k) \ {k} = 1 .. k - 1
    <3> HIDE DEF n
    <3> QED BY <1>1, <2>1
  <2>3. Max(1 .. k) = k
    BY <2>1, MaxLast
  <2>4. cc[1 .. k] = Show(cc[1 .. k - 1], d[k])
    BY <1>7, <2>1, <2>2, <2>3
  <2> QED BY <2>1, <2>4
<1>10. c[n] = cc[1 .. n]
  BY <1>1 DEF c
<1>11. ShowAll(p, d) = c[n]
  BY <1>2, <1>10 DEF cc
<1> HIDE DEF c
<1> QED BY <1>8, <1>9, <1>11

-----------------------------------------------------------------------------
(* The slots X are shared out, each once: M[k] to the k-th task under way, *)
(* and T to the task in hand.                                              *)
Parts(M, T, X) ==
    /\ \A k \in 1 .. Len(M) : M[k] \subseteq X
    /\ T \subseteq X
    /\ \A x \in X : x \in T \/ \E k \in 1 .. Len(M) : x \in M[k]
    /\ \A j, k \in 1 .. Len(M) : j # k => M[j] \cap M[k] = {}
    /\ \A k \in 1 .. Len(M) : M[k] \cap T = {}

(* What an appended list has. *)
LEMMA Appended ==
    ASSUME NEW S, NEW M \in Seq(S), NEW e \in S, NEW N, N = Append(M, e)
    PROVE  /\ N \in Seq(S) /\ Len(M) \in Nat /\ Len(N) = Len(M) + 1
           /\ Len(M) + 1 \in 1 .. Len(N) /\ N[Len(M) + 1] = e
           /\ \A k \in 1 .. Len(M) : N[k] = M[k] /\ k \in 1 .. Len(N) /\ k # Len(M) + 1
           /\ \A k \in 1 .. Len(N) : k \in 1 .. Len(M) \/ k = Len(M) + 1
OBVIOUS

(* What the rest of a list has. *)
LEMMA Shortened ==
    ASSUME NEW S, NEW M \in Seq(S), M # <<>>, NEW N, N = Tail(M)
    PROVE  /\ N \in Seq(S) /\ Len(M) \in Nat /\ Len(N) = Len(M) - 1
           /\ 1 \in 1 .. Len(M) /\ Head(M) = M[1] /\ M[1] \in S
           /\ \A k \in 1 .. Len(N) : /\ N[k] = M[k + 1] /\ k + 1 \in 1 .. Len(M)
                                     /\ k + 1 # 1
           /\ \A k \in 1 .. Len(M) : k # 1 =>
                 k - 1 \in 1 .. Len(N) /\ N[k - 1] = M[k]
           /\ \A j, k \in 1 .. Len(N) : j # k => j + 1 # k + 1
<1>1. /\ N \in Seq(S) /\ Len(M) \in Nat /\ Len(N) = Len(M) - 1 /\ Len(M) # 0
      /\ \A k \in 1 .. Len(M) - 1 : N[k] = M[k + 1]
      /\ M[1] \in S /\ Head(M) = M[1]
  OBVIOUS
<1>2. \A k \in 1 .. Len(N) : N[k] = M[k + 1] /\ k + 1 \in 1 .. Len(M) /\ k + 1 # 1
  BY <1>1
<1>3. ASSUME NEW k \in 1 .. Len(M), k # 1
      PROVE  k - 1 \in 1 .. Len(N) /\ N[k - 1] = M[k]
  <2>1. k - 1 \in 1 .. Len(N) /\ (k - 1) + 1 = k
    BY <1>1, <1>3
  <2> QED BY <1>2, <2>1
<1> QED BY <1>1, <1>2, <1>3

(* A task that has none of the slots is handed over. *)
LEMMA PartsNone ==
    ASSUME NEW S, NEW M \in Seq(SUBSET S), NEW T, NEW X, Parts(M, T, X)
    PROVE  Parts(Append(M, {}), T, X)
<1> DEFINE N == Append(M, {})
<1>1. /\ N \in Seq(SUBSET S) /\ Len(M) \in Nat /\ Len(N) = Len(M) + 1
      /\ Len(M) + 1 \in 1 .. Len(N) /\ N[Len(M) + 1] = {}
      /\ \A k \in 1 .. Len(M) : N[k] = M[k] /\ k \in 1 .. Len(N) /\ k # Len(M) + 1
      /\ \A k \in 1 .. Len(N) : k \in 1 .. Len(M) \/ k = Len(M) + 1
  BY Appended
<1> HIDE DEF N
<1> QED BY <1>1 DEF Parts, N

(* The task in hand is handed over, with its slots. *)
LEMMA PartsMove ==
    ASSUME NEW S, NEW M \in Seq(SUBSET S), NEW T \in SUBSET S, NEW X, Parts(M, T, X)
    PROVE  Parts(Append(M, T), {}, X)
<1> DEFINE N == Append(M, T)
<1>1. /\ N \in Seq(SUBSET S) /\ Len(M) \in Nat /\ Len(N) = Len(M) + 1
      /\ Len(M) + 1 \in 1 .. Len(N) /\ N[Len(M) + 1] = T
      /\ \A k \in 1 .. Len(M) : N[k] = M[k] /\ k \in 1 .. Len(N) /\ k # Len(M) + 1
      /\ \A k \in 1 .. Len(N) : k \in 1 .. Len(M) \/ k = Len(M) + 1
  BY Appended
<1> HIDE DEF N
<1>2. \A k \in 1 .. Len(N) : N[k] \subseteq X
  BY <1>1 DEF Parts
<1>3. \A x \in X : \E k \in 1 .. Len(N) : x \in N[k]
  BY <1>1 DEF Parts
<1>4. \A j, k \in 1 .. Len(N) : j # k => N[j] \cap N[k] = {}
  BY <1>1 DEF Parts
<1> QED BY <1>2, <1>3, <1>4 DEF Parts, N

(* The first task is through, and its slots are released. *)
LEMMA PartsTail ==
    ASSUME NEW S, NEW M \in Seq(SUBSET S), M # <<>>, NEW T, NEW X, Parts(M, T, X)
    PROVE  Parts(Tail(M), T, X \ M[1])
<1> DEFINE N == Tail(M)
<1>1. /\ 1 \in 1 .. Len(M)
      /\ \A k \in 1 .. Len(N) : /\ N[k] = M[k + 1] /\ k + 1 \in 1 .. Len(M)
                                /\ k + 1 # 1
      /\ \A k \in 1 .. Len(M) : k # 1 =>
            k - 1 \in 1 .. Len(N) /\ N[k - 1] = M[k]
      /\ \A j, k \in 1 .. Len(N) : j # k => j + 1 # k + 1
  BY Shortened
<1> HIDE DEF N
<1> DEFINE Y == X \ M[1]
<1>2. \A k \in 1 .. Len(N) : N[k] \subseteq Y /\ N[k] \cap T = {}
  BY <1>1 DEF Parts
<1>3. T \subseteq Y
  BY <1>1 DEF Parts
<1>4. ASSUME NEW x \in Y, x \notin T PROVE \E k \in 1 .. Len(N) : x \in N[k]
  <2>1. PICK k \in 1 .. Len(M) : x \in M[k]
    BY <1>4 DEF Parts
  <2>2. k # 1
    BY <2>1
  <2> QED BY <1>1, <2>1, <2>2
<1>5. ASSUME NEW j \in 1 .. Len(N), NEW k \in 1 .. Len(N), j # k
      PROVE  N[j] \cap N[k] = {}
  <2>1. \A a, b \in 1 .. Len(M) : a # b => M[a] \cap M[b] = {}
    BY DEF Parts
  <2>2. j + 1 # k + 1
    BY <1>1, <1>5
  <2>3. j + 1 \in 1 .. Len(M) /\ k + 1 \in 1 .. Len(M) /\ N[j] = M[j + 1] /\ N[k] = M[k + 1]
    BY <1>1, <1>5
  <2> QED BY <2>1, <2>2, <2>3, Zenon
<1> QED BY <1>2, <1>3, <1>4, <1>5 DEF Parts, N

(* The task in hand gives up its slots, or gets one. *)
LEMMA PartsDrop ==
    ASSUME NEW M, NEW T, NEW X, Parts(M, T, X)
    PROVE  Parts(M, {}, X \ T)
BY DEF Parts

(* The task in hand gets a slot. *)
LEMMA PartsTake ==
    ASSUME NEW M, NEW X, NEW T, Parts(M, {}, X), T \cap X = {}
    PROVE  Parts(M, T, X \cup T)
BY DEF Parts
=============================================================================
