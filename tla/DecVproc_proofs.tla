-------------------------- MODULE DecVproc_proofs ---------------------------
(***************************************************************************)
(* Theorems about DecVproc, for any streams that an eos ends, and any      *)
(* numbers of buffers, handles, tasks and resets: the three safety         *)
(* properties of its run.                                                  *)
(*                                                                         *)
(* The first part, Base, is the types, the handles of the task group and   *)
(* what each thread has in hand.  The others rest on it:                   *)
(*                                                                         *)
(*   DeintInv    QUEUE_DEINTERLACE has the pictures of the handles in use, *)
(*               in their order (SlotSafe);                                *)
(*   HeldInv     each place where a frame can be has buffers of its own,   *)
(*               and those are the ones that are referred to (HeldSafe);   *)
(*   NumbersInv, ResetInv, OrderInv                                        *)
(*               the items between the parser and mFrames are consecutive, *)
(*               and none is there when a reset is over (OrderSafe).       *)
(***************************************************************************)
EXTENDS DecVproc, QueueLemmas, FiniteSetTheorems

-----------------------------------------------------------------------------
(* Types, and the handles. *)

(* A task says what the item of its number is, and has a buffer if that is *)
(* a picture.                                                              *)
StreamTasks ==
    {t \in [item : Items, buf : Buffers \cup {None}, n : DOMAIN stream] :
        /\ t.item = stream[t.n]
        /\ t.buf = None <=> ~IsPicture(t.item)}

Hnds == 1 .. HandleCount

ParserPcs == {"look", "get", "ack", "sem_hal", "sem_vproc"}
HalPcs    == {"idle", "put", "signal", "shown"}
Working   == {"task", "dst", "out", "finish"}
VprocPcs  == {"none", "check", "wait"} \cup Working

HalType == [pc : HalPcs, task : StreamTasks \cup {NoTask}]

GroupType == GroupsOf(HandleCount, StreamTasks \cup {NoTask})

VprocType ==
    [ pc : VprocPcs, hnd : Hnds \cup {None}, prev : StreamTasks \cup {NoTask},
      dst : Seq(Buffers), outs : Seq(Frames) ]

ResetType ==
    [ flag : BOOLEAN, post : BOOLEAN, hal_done : BOOLEAN,
      vproc : BOOLEAN, vproc_done : BOOLEAN, done : BOOLEAN ]

TypeInv ==
    /\ session \in Sessions
    /\ uses \in [Buffers -> SUBSET Uses]
    /\ parser \in [pc : ParserPcs, next : Nat \ {0}]
    /\ tasks \in Seq(StreamTasks)
    /\ hal \in HalType
    /\ vtasks \in GroupType
    /\ vproc \in VprocType
    /\ reset \in ResetType
    /\ mFrames \in Seq(Frames) /\ puts \in Seq(Frames)
    /\ user \in [call : {"idle", "reset"}, resets : Nat, held : Frames \cup {None}]
    /\ cuts \subseteq Nat

(* The handles in use carry tasks, and the vproc thread works on the first. *)
HandlesInv ==
    /\ LinkedOnce(vtasks)
    /\ \A i \in ToSet(vtasks.list["TASK_PROCESSING"]) : vtasks.info[i] \in StreamTasks
    /\ vproc.pc \in Working =>
          /\ HasHnd(vtasks, "TASK_PROCESSING")
          /\ vproc.hnd = GetHnd(vtasks, "TASK_PROCESSING")
    /\ vproc.pc = "none" => ~HasHnd(vtasks, "TASK_PROCESSING")

(* What parser, hal and vproc thread have in hand. *)
ThreadsInv ==
    /\ parser.pc = "get" => ~AtEnd /\ IsPicture(Item)
    /\ hal.pc # "idle" => hal.task \in StreamTasks
    /\ hal.pc # "idle" /\ ~IsPicture(hal.task.item) =>
          tasks # <<>> /\ Head(tasks) = hal.task
    /\ vproc.pc = "none" => vproc.prev = NoTask
    /\ vproc.prev # NoTask => vproc.prev.item = "frame"
    /\ vproc.pc \in {"dst", "out"} => IsPicture(VTask.item)
    /\ IF vproc.pc = "dst" THEN Len(vproc.dst) < (IF TwoOut THEN 2 ELSE 1)
                           ELSE vproc.dst = <<>>
    /\ vproc.pc = "out" <=> vproc.outs # <<>>

Base == TypeInv /\ HandlesInv /\ ThreadsInv

(* A task that is not NoTask has an item of the stream. *)
LEMMA TaskFacts ==
    ASSUME session \in Sessions
    PROVE  /\ stream \in Seq(Items) /\ Len(stream) \in Nat
           /\ DOMAIN stream = 1 .. Len(stream)
           /\ session.four \in BOOLEAN /\ session.top \in BOOLEAN
           /\ session.resets \in Nat /\ session.fetcher \in BOOLEAN
           /\ NoTask \notin StreamTasks
           /\ \A t \in StreamTasks :
                 /\ t.item \in Items /\ t.n \in 1 .. Len(stream) /\ t.n \in Nat \ {0}
                 /\ t.item = stream[t.n] /\ t.buf \in Buffers \cup {None}
                 /\ IsPicture(t.item) => t.buf \in Buffers
                 /\ ~IsPicture(t.item) => t.buf = None
<1>1. /\ stream \in Seq(Items)
      /\ session.four \in BOOLEAN /\ session.top \in BOOLEAN
      /\ session.resets \in Nat /\ session.fetcher \in BOOLEAN
  BY SessionsAssumption DEF stream
<1>2. DOMAIN stream = 1 .. Len(stream) /\ Len(stream) \in Nat
  BY <1>1
<1>3. NoTask \notin StreamTasks
  BY DEF NoTask, StreamTasks, Items
<1>4. \A t \in StreamTasks :
         /\ t.item \in Items /\ t.n \in 1 .. Len(stream)
         /\ t.item = stream[t.n] /\ t.buf \in Buffers \cup {None}
         /\ t.buf = None <=> ~IsPicture(t.item)
  BY <1>2 DEF StreamTasks
<1> QED BY <1>1, <1>2, <1>3, <1>4, VprocAssumption DEF Buffers

(* The tasks handed over, and the one at work. *)
LEMMA HandlesFacts ==
    ASSUME TypeInv, HandlesInv
    PROVE  /\ InHandles \in Seq(StreamTasks)
           /\ InHandles = <<>> <=> ~HasHnd(vtasks, "TASK_PROCESSING")
           /\ vproc.pc \in Working =>
                 /\ InHandles # <<>> /\ VTask = InHandles[1] /\ VTask \in StreamTasks
<1> DEFINE P == vtasks.list["TASK_PROCESSING"]
<1>1. P \in Seq(Hnds)
  BY DEF TypeInv, GroupType, GroupsOf, TaskStatuses, Hnds
<1>2. \A i \in 1 .. Len(P) : vtasks.info[P[i]] \in StreamTasks
  BY <1>1 DEF HandlesInv, ToSet
<1>3. InHandles = [i \in 1 .. Len(P) |-> vtasks.info[P[i]]] /\ Len(P) \in Nat
  BY <1>1 DEF InHandles
<1>4. InHandles \in Seq(StreamTasks) /\ Len(InHandles) = Len(P)
  BY <1>2, <1>3
<1>5. InHandles = <<>> <=> P = <<>>
  BY <1>1, <1>3, <1>4
<1>6. ASSUME vproc.pc \in Working
      PROVE  InHandles # <<>> /\ VTask = InHandles[1] /\ VTask \in StreamTasks
  <2>1. P # <<>> /\ vproc.hnd = P[1] /\ 1 \in 1 .. Len(P)
    BY <1>1, <1>6 DEF HandlesInv, HasHnd, GetHnd
  <2> QED BY <1>2, <1>3, <1>5, <2>1 DEF VTask
<1> QED BY <1>4, <1>5, <1>6 DEF HasHnd

(* The hal thread gives its task to a handle. *)
LEMMA GiveFacts ==
    ASSUME TypeInv, HandlesInv, HasHnd(vtasks, "TASK_IDLE"), GiveTask,
           hal.task \in StreamTasks
    PROVE  /\ vtasks' \in GroupType
           /\ LinkedOnce(vtasks')
           /\ \A i \in ToSet(vtasks'.list["TASK_PROCESSING"]) :
                 vtasks'.info[i] \in StreamTasks
           /\ HasHnd(vtasks', "TASK_PROCESSING")
           /\ HasHnd(vtasks, "TASK_PROCESSING") =>
                 GetHnd(vtasks', "TASK_PROCESSING") = GetHnd(vtasks, "TASK_PROCESSING")
           /\ InHandles' = Append(InHandles, hal.task)
           /\ HasHnd(vtasks, "TASK_PROCESSING") =>
                 LET i == GetHnd(vtasks, "TASK_PROCESSING")
                 IN  vtasks'.info[i] = vtasks.info[i]
<1> DEFINE I == StreamTasks \cup {NoTask}
           h == GetHnd(vtasks, "TASK_IDLE")
           g == SetInfo(vtasks, h, hal.task)
           P == vtasks.list["TASK_PROCESSING"]
           Q == vtasks'.list["TASK_PROCESSING"]
<1>1. /\ vtasks.list \in [TaskStatuses -> Seq(Hnds)] /\ vtasks.info \in [Hnds -> I]
      /\ vtasks = [list |-> vtasks.list, info |-> vtasks.info]
      /\ P \in Seq(Hnds) /\ Len(P) \in Nat
  BY DEF TypeInv, GroupType, GroupsOf, TaskStatuses, Hnds
<1>2. /\ g.list = vtasks.list /\ g.info = [vtasks.info EXCEPT ![h] = hal.task]
      /\ g \in GroupsOf(HandleCount, I) /\ LinkedOnce(g)
      /\ vtasks' = SetStatus(g, Head(g.list["TASK_IDLE"]), "TASK_PROCESSING")
      /\ g.list["TASK_IDLE"] # <<>>
  BY <1>1 DEF SetInfo, GroupsOf, Hnds, LinkedOnce, HandlesInv, GiveTask, GetHnd, HasHnd
<1> HIDE DEF g
<1>3. /\ vtasks' \in GroupsOf(HandleCount, I) /\ LinkedOnce(vtasks')
      /\ vtasks'.info = g.info /\ h \in Hnds /\ h \notin ToSet(P)
      /\ Q = Append(P, h)
  <2>1. "TASK_IDLE" \in TaskStatuses /\ "TASK_PROCESSING" \in TaskStatuses \ {"TASK_IDLE"}
    BY DEF TaskStatuses
  <2>2. h = Head(g.list["TASK_IDLE"])
    BY <1>2 DEF GetHnd
  <2> HIDE DEF h
  <2> DEFINE r == vtasks'
  <2>3. r = SetStatus(g, Head(g.list["TASK_IDLE"]), "TASK_PROCESSING")
    BY <1>2
  <2> HIDE DEF r, I
  <2>4. LET k == Head(g.list["TASK_IDLE"])
        IN  /\ r \in GroupsOf(HandleCount, I) /\ LinkedOnce(r) /\ r.info = g.info
            /\ k \in 1 .. HandleCount /\ k \notin ToSet(g.list["TASK_PROCESSING"])
            /\ r.list = [g.list EXCEPT !["TASK_IDLE"] = Tail(g.list["TASK_IDLE"]),
                            !["TASK_PROCESSING"] = Append(g.list["TASK_PROCESSING"], k)]
    <3>1. g \in GroupsOf(HandleCount, I) /\ LinkedOnce(g) /\ g.list["TASK_IDLE"] # <<>>
      BY <1>2
    <3> QED BY <2>1, <2>3, <3>1, SetStatusFacts
  <2> QED BY <1>1, <1>2, <2>1, <2>2, <2>4 DEF r, Hnds
<1> HIDE DEF h
<1>4. \A i \in 1 .. Len(P) : P[i] \in Hnds /\ P[i] # h
  BY <1>1, <1>3 DEF ToSet
<1>5. /\ Q \in Seq(Hnds) /\ Len(Q) = Len(P) + 1 /\ Q[Len(P) + 1] = h
      /\ \A i \in 1 .. Len(P) : Q[i] = P[i]
  BY <1>1, <1>3
<1>6. /\ \A i \in 1 .. Len(P) : vtasks'.info[P[i]] = vtasks.info[P[i]]
      /\ vtasks'.info[h] = hal.task
  BY <1>1, <1>2, <1>3, <1>4
<1>7. InHandles \in Seq(StreamTasks) /\ InHandles = [i \in 1 .. Len(P) |-> vtasks.info[P[i]]]
  BY <1>1, HandlesFacts DEF InHandles
<1>8. InHandles' = [i \in 1 .. Len(Q) |-> vtasks'.info[Q[i]]]
  BY <1>5 DEF InHandles
<1>9. InHandles' = Append(InHandles, hal.task)
  <2>1. InHandles' = [i \in 1 .. Len(P) + 1 |-> IF i <= Len(P) THEN vtasks.info[P[i]]
                                                               ELSE hal.task]
    BY <1>1, <1>5, <1>6, <1>8
  <2>2. Append(InHandles, hal.task) =
           [i \in 1 .. Len(P) + 1 |-> IF i <= Len(P) THEN vtasks.info[P[i]] ELSE hal.task]
    BY <1>1, <1>7
  <2> QED BY <2>1, <2>2
<1>10. \A i \in ToSet(Q) : vtasks'.info[i] \in StreamTasks
  <2>1. \A i \in 1 .. Len(P) : vtasks.info[P[i]] \in StreamTasks
    BY <1>1 DEF HandlesInv, ToSet
  <2>2. \A i \in 1 .. Len(Q) : vtasks'.info[Q[i]] \in StreamTasks
    <3>1. ASSUME NEW i \in 1 .. Len(Q) PROVE vtasks'.info[Q[i]] \in StreamTasks
      <4>1. CASE i = Len(P) + 1
        BY <1>5, <1>6, <4>1
      <4>2. CASE i # Len(P) + 1
        <5>1. i \in 1 .. Len(P)
          BY <1>1, <1>5, <4>2
        <5> QED BY <1>5, <1>6, <2>1, <5>1
      <4> QED BY <4>1, <4>2
    <3> QED BY <3>1
  <2>3. DOMAIN Q = 1 .. Len(Q)
    BY <1>5
  <2> QED BY <2>2, <2>3 DEF ToSet
<1>11. P # <<>> => Head(Q) = Head(P) /\ Head(P) = P[1] /\ 1 \in 1 .. Len(P)
  BY <1>1, <1>5
<1>12. Q # <<>>
  BY <1>1, <1>5
<1> QED BY <1>3, <1>6, <1>9, <1>10, <1>11, <1>12 DEF HasHnd, GetHnd, GroupType

(* The vproc thread makes its handle idle. *)
LEMMA FinishFacts ==
    ASSUME TypeInv, HandlesInv, vproc.pc \in Working,
           vtasks' = SetStatus(vtasks, vproc.hnd, "TASK_IDLE")
    PROVE  /\ vtasks' \in GroupType
           /\ LinkedOnce(vtasks')
           /\ \A i \in ToSet(vtasks'.list["TASK_PROCESSING"]) :
                 vtasks'.info[i] \in StreamTasks
           /\ InHandles' = Tail(InHandles)
<1> DEFINE I == StreamTasks \cup {NoTask}
           P == vtasks.list["TASK_PROCESSING"]
           Q == vtasks'.list["TASK_PROCESSING"]
<1>1. /\ vtasks.list \in [TaskStatuses -> Seq(Hnds)] /\ vtasks.info \in [Hnds -> I]
      /\ P \in Seq(Hnds) /\ Len(P) \in Nat /\ P # <<>>
  BY DEF TypeInv, GroupType, GroupsOf, TaskStatuses, Hnds, HandlesInv, HasHnd
<1>2. /\ vtasks' \in GroupsOf(HandleCount, I) /\ LinkedOnce(vtasks')
      /\ vtasks'.info = vtasks.info /\ Q = Tail(P)
  <2>1. "TASK_PROCESSING" \in TaskStatuses /\ "TASK_IDLE" \in TaskStatuses \ {"TASK_PROCESSING"}
    BY DEF TaskStatuses
  <2>2. vtasks \in GroupsOf(HandleCount, I) /\ LinkedOnce(vtasks)
    BY DEF TypeInv, HandlesInv, GroupType
  <2> DEFINE r == vtasks'
             h == Head(vtasks.list["TASK_PROCESSING"])
  <2>3. r = SetStatus(vtasks, h, "TASK_IDLE") /\ vtasks.list["TASK_PROCESSING"] # <<>>
    BY <1>1 DEF HandlesInv, GetHnd
  <2> HIDE DEF r, I
  <2>4. /\ r \in GroupsOf(HandleCount, I) /\ LinkedOnce(r) /\ r.info = vtasks.info
        /\ r.list = [vtasks.list EXCEPT
                        !["TASK_PROCESSING"] = Tail(vtasks.list["TASK_PROCESSING"]),
                        !["TASK_IDLE"] = Append(vtasks.list["TASK_IDLE"], h)]
    BY <2>1, <2>2, <2>3, SetStatusFacts
  <2> QED BY <1>1, <2>1, <2>4 DEF r
<1>3. /\ Q \in Seq(Hnds) /\ Len(Q) = Len(P) - 1 /\ Len(P) # 0
      /\ \A i \in 1 .. Len(P) - 1 : Q[i] = P[i + 1]
  <2> DEFINE p == P
             q == Tail(p)
  <2>1. /\ q \in Seq(Hnds) /\ Len(q) = Len(p) - 1 /\ Len(p) # 0
        /\ \A i \in 1 .. Len(p) - 1 : q[i] = p[i + 1]
    <3> HIDE DEF p
    <3>1. p \in Seq(Hnds) /\ p # <<>>
      BY <1>1 DEF p
    <3> QED BY <3>1
  <2> QED BY <1>2, <2>1
<1>4. InHandles \in Seq(StreamTasks) /\ InHandles = [i \in 1 .. Len(P) |-> vtasks.info[P[i]]]
  BY <1>1, HandlesFacts DEF InHandles
<1>5. InHandles' = [i \in 1 .. Len(Q) |-> vtasks.info[Q[i]]]
  BY <1>2, <1>3 DEF InHandles
<1>6. InHandles' = Tail(InHandles)
  <2>1. InHandles' = [i \in 1 .. Len(P) - 1 |-> vtasks.info[P[i + 1]]]
    BY <1>1, <1>3, <1>5
  <2>2. Tail(InHandles) = [i \in 1 .. Len(P) - 1 |-> vtasks.info[P[i + 1]]]
    BY <1>1, <1>3, <1>4
  <2> QED BY <2>1, <2>2
<1>7. \A i \in ToSet(Q) : vtasks'.info[i] \in StreamTasks
  <2>1. \A i \in 1 .. Len(P) : vtasks.info[P[i]] \in StreamTasks
    BY <1>1 DEF HandlesInv, ToSet
  <2>2. \A i \in 1 .. Len(Q) : vtasks.info[Q[i]] \in StreamTasks
    BY <1>1, <1>3, <2>1
  <2> QED BY <1>2, <1>3, <2>2 DEF ToSet
<1> QED BY <1>2, <1>6, <1>7 DEF GroupType

(* The steps of DecVproc. *)
LEMMA Base_Init == Init => Base
<1> SUFFICES ASSUME Init PROVE Base
  OBVIOUS
<1> USE DEF Init
<1>1. TypeInv
  <2>1. <<>> \in Seq(StreamTasks) /\ <<>> \in Seq(Buffers) /\ <<>> \in Seq(Frames)
    OBVIOUS
  <2>2. vtasks \in GroupsOf(HandleCount, StreamTasks \cup {NoTask})
    BY GroupInitFacts, VprocAssumption
  <2> QED
    BY <2>1, <2>2
    DEF TypeInv, ParserPcs, HalType, HalPcs, VprocType, VprocPcs, ResetType, GroupType
<1>2. HandlesInv
  <2>1. LinkedOnce(vtasks) /\ vtasks.list["TASK_PROCESSING"] = <<>>
    BY GroupInitFacts, VprocAssumption
  <2>2. ToSet(<<>>) = {}
    BY DEF ToSet
  <2> QED BY <2>1, <2>2 DEF HandlesInv, HasHnd, Working
<1>3. ThreadsInv
  BY DEF ThreadsInv
<1> QED BY <1>1, <1>2, <1>3 DEF Base

(* The session never changes. *)
LEMMA SessionKept ==
    ASSUME [Next]_vars
    PROVE  /\ session' = session /\ stream' = stream /\ StreamTasks' = StreamTasks
           /\ HalType' = HalType /\ GroupType' = GroupType /\ VprocType' = VprocType
<1>1. session' = session
  BY DEF Next, vars, Parser, Hal, Vproc, ParserLook, ParserGet, ParserSignal, ParserReset,
         ParserResetVproc, ParserResetDone, HalTake, HalStart, HalPut, HalPutEos,
         HalPutDirect, HalSignal, HalShown, HalReset, VprocTake, VprocReset, VprocWait,
         VprocSignal, VprocPicture, VprocGetBuffer, VprocPut, VprocFinish, GetFrame, PutFrame,
         ResetStart, ResetReturn
<1>2. stream' = stream
  BY <1>1 DEF stream
<1>3. StreamTasks' = StreamTasks
  BY <1>2 DEF StreamTasks
<1> QED BY <1>1, <1>2, <1>3 DEF HalType, GroupType, VprocType

(* The unused buffer that is taken. *)
LEMMA UnusedFacts ==
    ASSUME Unused # {}
    PROVE  NextUnused \in Buffers /\ uses[NextUnused] = {}
BY DEF NextUnused, Unused

(* What Unmark takes from whom. *)
LEMMA UnmarkFacts ==
    ASSUME NEW u \in [Buffers -> SUBSET Uses], NEW b, NEW use
    PROVE  /\ Unmark(u, b, use) \in [Buffers -> SUBSET Uses]
           /\ \A c \in Buffers :
                 Unmark(u, b, use)[c] = u[c] \ (IF c = b THEN {use} ELSE {})
<1>1. None \notin Buffers
  BY VprocAssumption DEF Buffers
<1>2. CASE b = None
  BY <1>1, <1>2 DEF Unmark
<1>3. CASE b # None
  BY <1>3 DEF Unmark
<1> QED BY <1>2, <1>3

(* The previous picture is given back. *)
LEMMA ClrPrevFacts ==
    ASSUME NEW u \in [Buffers -> SUBSET Uses]
    PROVE  /\ ClrPrev(u) \in [Buffers -> SUBSET Uses]
           /\ \A b \in Buffers : "frame" \in ClrPrev(u)[b] <=>
                                  "frame" \in u[b] /\ b # vproc.prev.buf
<1>1. PICK p : p = vproc.prev.buf
  OBVIOUS
<1>2. PICK v : v = Unmark(u, p, "frame")
  OBVIOUS
<1>3. PICK w : w = Unmark(v, p, "deinterlace")
  OBVIOUS
<1>4. /\ v \in [Buffers -> SUBSET Uses]
      /\ \A b \in Buffers : v[b] = u[b] \ (IF b = p THEN {"frame"} ELSE {})
  BY <1>2, UnmarkFacts
<1>5. /\ w \in [Buffers -> SUBSET Uses]
      /\ \A b \in Buffers : w[b] = v[b] \ (IF b = p THEN {"deinterlace"} ELSE {})
  BY <1>3, <1>4, UnmarkFacts
<1>6. \A b \in Buffers : "frame" \in w[b] <=> "frame" \in u[b] /\ b # p
  <2>1. \A b \in Buffers : "frame" \in v[b] <=> "frame" \in u[b] /\ b # p
    BY <1>4
  <2>2. \A b \in Buffers : "frame" \in w[b] <=> "frame" \in v[b]
    BY <1>5
  <2> QED BY <2>1, <2>2
<1>7. ClrPrev(u) = w
  BY <1>1, <1>2, <1>3 DEF ClrPrev
<1> QED BY <1>1, <1>5, <1>6, <1>7

(* The frames made of one picture or of two. *)
LEMMA OutputsFacts ==
    ASSUME Base, vproc.pc = "dst", Unused # {}, NEW dst,
           dst = Append(vproc.dst, NextUnused)
    PROVE  /\ dst \in Seq(Buffers) /\ dst # <<>>
           /\ Len(dst) <= (IF TwoOut THEN 2 ELSE 1)
           /\ ~TwoOut =>
                 Outputs(dst) = <<[item |-> VTask.item, buf |-> dst[1], pts |-> 2 * VTask.n]>>
           /\ TwoOut /\ Len(dst) = 2 => \E x, y \in Buffers :
                 /\ {x, y} = {dst[1], dst[2]} /\ (dst[1] # dst[2] => x # y)
                 /\ Outputs(dst) =
                    <<[item |-> VTask.item, buf |-> x, pts |-> vproc.prev.n + VTask.n],
                      [item |-> VTask.item, buf |-> y, pts |-> 2 * VTask.n]>>
           /\ Len(dst) = (IF TwoOut THEN 2 ELSE 1) =>
                 Outputs(dst) \in Seq(Frames) /\ Outputs(dst) # <<>>
<1>1. /\ vproc.dst \in Seq(Buffers) /\ NextUnused \in Buffers
      /\ Len(vproc.dst) < (IF TwoOut THEN 2 ELSE 1)
  BY UnusedFacts DEF Base, TypeInv, VprocType, ThreadsInv
<1>2. /\ dst \in Seq(Buffers) /\ dst # <<>> /\ Len(dst) = Len(vproc.dst) + 1
      /\ Len(dst) <= (IF TwoOut THEN 2 ELSE 1)
  BY <1>1
<1>3. VTask \in StreamTasks
  BY HandlesFacts DEF Base, Working
<1>4. /\ VTask.item \in Items /\ VTask.n \in Nat
      /\ TwoOut => vproc.prev \in StreamTasks
      /\ TwoOut => vproc.prev.n \in Nat
  BY <1>3, TaskFacts DEF Base, TypeInv, VprocType, TwoOut
<1>5. ASSUME ~TwoOut
      PROVE  /\ Outputs(dst) =
                   <<[item |-> VTask.item, buf |-> dst[1], pts |-> 2 * VTask.n]>>
             /\ Outputs(dst) \in Seq(Frames)
  <2>1. Outputs(dst) = <<[item |-> VTask.item, buf |-> dst[1], pts |-> 2 * VTask.n]>>
    BY <1>5 DEF Outputs, FrameOut
  <2>2. [item |-> VTask.item, buf |-> dst[1], pts |-> 2 * VTask.n] \in Frames
    BY <1>2, <1>4 DEF Frames
  <2> QED BY <2>1, <2>2
<1>6. ASSUME TwoOut, Len(dst) = 2
      PROVE  /\ \E x, y \in Buffers :
                 /\ {x, y} = {dst[1], dst[2]} /\ (dst[1] # dst[2] => x # y)
                 /\ Outputs(dst) =
                    <<[item |-> VTask.item, buf |-> x, pts |-> vproc.prev.n + VTask.n],
                      [item |-> VTask.item, buf |-> y, pts |-> 2 * VTask.n]>>
             /\ Outputs(dst) \in Seq(Frames)
  <2> DEFINE x == IF session.top THEN dst[1] ELSE dst[2]
             y == IF session.top THEN dst[2] ELSE dst[1]
  <2>1. dst[1] \in Buffers /\ dst[2] \in Buffers
    BY <1>2, <1>6
  <2>2. (2 * vproc.prev.n + 2 * VTask.n) \div 2 = vproc.prev.n + VTask.n
    <3>1. \A a, b \in Nat : (2 * a + 2 * b) \div 2 = a + b
      OBVIOUS
    <3> QED BY <1>4, <1>6, <3>1
  <2>3. Outputs(dst) =
           <<[item |-> VTask.item, buf |-> x, pts |-> vproc.prev.n + VTask.n],
             [item |-> VTask.item, buf |-> y, pts |-> 2 * VTask.n]>>
    BY <1>6, <2>2 DEF Outputs, FrameOut
  <2>4. x \in Buffers /\ y \in Buffers /\ {x, y} = {dst[1], dst[2]}
        /\ (dst[1] # dst[2] => x # y)
    BY <2>1
  <2> HIDE DEF x, y
  <2>5. /\ [item |-> VTask.item, buf |-> x, pts |-> vproc.prev.n + VTask.n] \in Frames
        /\ [item |-> VTask.item, buf |-> y, pts |-> 2 * VTask.n] \in Frames
    BY <1>4, <1>6, <2>4 DEF Frames
  <2>6. Outputs(dst) \in Seq(Frames)
    BY <2>3, <2>5
  <2> QED BY <2>3, <2>4, <2>6
<1>7. Outputs(dst) # <<>>
  BY DEF Outputs
<1> QED BY <1>2, <1>5, <1>6, <1>7

(* Types are kept. *)
LEMMA NextTypeInv ==
    ASSUME Base, [Next]_vars
    PROVE  TypeInv'
<1>1. session' \in Sessions
  BY SessionKept DEF Base, TypeInv
<1>2. /\ session \in Sessions
      /\ uses \in [Buffers -> SUBSET Uses]
      /\ parser \in [pc : ParserPcs, next : Nat \ {0}]
      /\ tasks \in Seq(StreamTasks)
      /\ hal \in HalType
      /\ vtasks \in GroupType
      /\ vproc \in VprocType
      /\ reset \in ResetType
      /\ mFrames \in Seq(Frames) /\ puts \in Seq(Frames)
      /\ user \in [call : {"idle", "reset"}, resets : Nat, held : Frames \cup {None}]
      /\ cuts \subseteq Nat
  BY DEF Base, TypeInv
<1>0. SUFFICES /\ session' \in Sessions
               /\ uses' \in [Buffers -> SUBSET Uses]
               /\ parser' \in [pc : ParserPcs, next : Nat \ {0}]
               /\ tasks' \in Seq(StreamTasks)
               /\ hal' \in HalType
               /\ vtasks' \in GroupType
               /\ vproc' \in VprocType
               /\ reset' \in ResetType
               /\ mFrames' \in Seq(Frames) /\ puts' \in Seq(Frames)
               /\ user' \in [call : {"idle", "reset"}, resets : Nat, held : Frames \cup {None}]
               /\ cuts' \subseteq Nat
  <2>1. /\ StreamTasks' = StreamTasks /\ HalType' = HalType
        /\ GroupType' = GroupType /\ VprocType' = VprocType
    BY SessionKept
  <2> QED BY <2>1 DEF TypeInv
<1>3. CASE ParserLook
  BY <1>1, <1>2, <1>3
  DEF ParserLook, ParserPcs, halVars, vprocVars, outVars
<1>4. CASE ParserGet
  <2>1. Item \in Items /\ parser.next \in DOMAIN stream /\ stream[parser.next] = Item
    BY <1>2, <1>4, TaskFacts DEF Base, ThreadsInv, AtEnd, Item, ParserGet
  <2>2. CASE Unused # {}
    <3> DEFINE t == [item |-> Item, buf |-> NextUnused, n |-> parser.next]
    <3>1. NextUnused \in Buffers /\ NextUnused # None /\ IsPicture(Item)
      BY <1>4, <2>2, UnusedFacts, VprocAssumption DEF Base, ThreadsInv, Buffers, ParserGet
    <3>2. t \in StreamTasks
      BY <2>1, <3>1 DEF StreamTasks
    <3>3. tasks' = Append(tasks, t) /\ parser'.pc \in {"ack", "look"}
          /\ parser' \in [pc : ParserPcs, next : Nat \ {0}]
      BY <1>2, <1>4, <2>2 DEF ParserGet, SendTask, ParserPcs
    <3>4. uses' \in [Buffers -> SUBSET Uses]
      BY <1>2, <1>4, <2>2 DEF ParserGet, DropReference, Uses
    <3> HIDE DEF t
    <3>5. tasks' \in Seq(StreamTasks)
      BY <1>2, <3>2, <3>3
    <3> QED BY <1>1, <1>2, <1>4, <3>3, <3>4, <3>5 DEF ParserGet, halVars, vprocVars, outVars
  <2>3. CASE Unused = {}
    BY <1>1, <1>2, <1>4, <2>3 DEF ParserGet, ParserPcs, vprocVars, outVars
  <2> QED BY <1>4, <2>2, <2>3
<1>5. CASE ParserSignal
  <2> DEFINE t == [item |-> Item, buf |-> None, n |-> parser.next]
  <2>1. Item \in Items /\ parser.next \in DOMAIN stream /\ stream[parser.next] = Item
    BY <1>2, <1>5, TaskFacts DEF AtEnd, Item, ParserSignal, MayParse
  <2>2. t \in StreamTasks
    BY <1>5, <2>1 DEF StreamTasks, ParserSignal
  <2>3. tasks' = Append(tasks, t) /\ parser' \in [pc : ParserPcs, next : Nat \ {0}]
    BY <1>2, <1>5 DEF ParserSignal, SendTask, ParserPcs
  <2>4. uses' \in [Buffers -> SUBSET Uses]
    BY <1>2, <1>5 DEF ParserSignal, DropReference
  <2> HIDE DEF t
  <2>5. tasks' \in Seq(StreamTasks)
    BY <1>2, <2>2, <2>3
  <2> QED BY <1>1, <1>2, <1>5, <2>3, <2>4, <2>5 DEF ParserSignal, vprocVars, outVars
<1>6. CASE ParserReset
  BY <1>1, <1>2, <1>6
  DEF ParserReset, ParserPcs, ResetType, halVars, vprocVars, outVars
<1>7. CASE ParserResetVproc
  BY <1>1, <1>2, <1>7
  DEF ParserResetVproc, ParserPcs, ResetType, DropReference, VprocType, VprocPcs, halVars,
      vprocVars, outVars
<1>8. CASE ParserResetDone
  BY <1>1, <1>2, <1>8
  DEF ParserResetDone, ParserPcs, ResetType, halVars, vprocVars, outVars
<1>9. CASE HalTake
  <2>1. Head(tasks) \in StreamTasks /\ Tail(tasks) \in Seq(StreamTasks)
    BY <1>2, <1>9 DEF HalTake
  <2> QED BY <1>1, <1>2, <1>9, <2>1
          DEF HalTake, HalType, HalPcs, vprocVars, outVars
<1>9a. CASE HalStart
  BY <1>1, <1>2, <1>9a
  DEF HalStart, VprocType, VprocPcs, halVars, outVars
<1>10. CASE HalPut
  <2>1. vtasks' \in GroupType
    BY <1>10, GiveFacts DEF Base, ThreadsInv, HalPut
  <2>2. uses' \in [Buffers -> SUBSET Uses]
    <3>1. CASE IsPicture(hal.task.item)
      <4>1. hal.task.buf \in Buffers
        BY <1>2, <1>10, <3>1, TaskFacts DEF Base, ThreadsInv, HalPut
      <4> QED BY <1>2, <1>10, <3>1, <4>1 DEF HalPut, Mark, Uses
    <3>2. CASE ~IsPicture(hal.task.item)
      BY <1>2, <1>10, <3>2 DEF HalPut
    <3> QED BY <3>1, <3>2
  <2>3. hal' \in HalType
    BY <1>2, <1>10 DEF HalPut, HalType, HalPcs
  <2> QED BY <1>1, <1>2, <1>10, <2>1, <2>2, <2>3 DEF HalPut, outVars
<1>11. CASE HalPutEos
  <2>1. vtasks' \in GroupType
    BY <1>2, <1>11, GiveFacts DEF Base, ThreadsInv, HalPutEos
  <2>2. hal' \in HalType
    BY <1>2, <1>11 DEF HalPutEos, HalType, HalPcs
  <2> QED BY <1>1, <1>2, <1>11, <2>1, <2>2 DEF HalPutEos, outVars
<1>12. CASE HalPutDirect
  <2> DEFINE f == FrameOut(hal.task, hal.task.buf, 2 * hal.task.n)
  <2>1. f \in Frames
    BY <1>2, <1>12, TaskFacts DEF Base, ThreadsInv, HalPutDirect, FrameOut, Frames
  <2>2. mFrames' = Append(mFrames, f) /\ puts' = Append(puts, f)
    BY <1>12 DEF HalPutDirect, Output
  <2> HIDE DEF f
  <2>3. mFrames' \in Seq(Frames) /\ puts' \in Seq(Frames)
    BY <1>2, <2>1, <2>2
  <2> QED BY <1>1, <1>2, <1>12, <2>3 DEF HalPutDirect, HalType, HalPcs, vprocVars
<1>13. CASE HalSignal
  BY <1>1, <1>2, <1>13
  DEF HalSignal, HalType, HalPcs, VprocType, VprocPcs, halVars, vprocVars, outVars
<1>14. CASE HalShown
  <2>1. tasks' \in Seq(StreamTasks)
    BY <1>2, <1>14 DEF HalShown, Base, ThreadsInv
  <2> QED BY <1>1, <1>2, <1>14, <2>1
          DEF HalShown, HalType, HalPcs, Unmark, vprocVars, outVars
<1>15. CASE HalReset
  BY <1>1, <1>2, <1>15
  DEF HalReset, ResetType, halVars, vprocVars, outVars
<1>16. CASE VprocTake
  <2>1. GetHnd(vtasks, "TASK_PROCESSING") \in Hnds
    <3>1. /\ vtasks.list["TASK_PROCESSING"] \in Seq(Hnds)
          /\ vtasks.list["TASK_PROCESSING"] # <<>>
      BY <1>2, <1>16 DEF VprocTake, HasHnd, GroupType, GroupsOf, TaskStatuses, Hnds
    <3> QED BY <3>1 DEF GetHnd
  <2> QED BY <1>1, <1>2, <1>16, <2>1
          DEF VprocTake, VprocType, VprocPcs, Working, halVars, outVars
<1>17. CASE VprocReset
  BY <1>1, <1>2, <1>17
  DEF VprocReset, ResetType, VprocType, ClrPrev, Unmark, halVars, vprocVars, outVars
<1>18. CASE VprocWait
  BY <1>1, <1>2, <1>18
  DEF VprocWait, VprocType, VprocPcs, halVars, vprocVars, outVars
<1>19. CASE VprocSignal
  <2> DEFINE f == FrameOut(VTask, None, 2 * VTask.n)
  <2>1. f \in Frames
    BY <1>2, <1>19, HandlesFacts, TaskFacts
    DEF Base, Working, VprocSignal, FrameOut, Frames
  <2>2. mFrames' = Append(mFrames, f) /\ puts' = Append(puts, f)
    BY <1>19 DEF VprocSignal, Output
  <2> HIDE DEF f
  <2>3. mFrames' \in Seq(Frames) /\ puts' \in Seq(Frames)
    BY <1>2, <2>1, <2>2
  <2> QED BY <1>1, <1>2, <1>19, <2>3
          DEF VprocSignal, VprocType, VprocPcs, Working, halVars
<1>20. CASE VprocPicture
  BY <1>1, <1>2, <1>20 DEF VprocPicture, VprocType, VprocPcs, Working, halVars, outVars
<1>21. CASE VprocGetBuffer
  <2> DEFINE dst == Append(vproc.dst, NextUnused)
  <2>1. /\ dst \in Seq(Buffers)
        /\ Len(dst) = (IF TwoOut THEN 2 ELSE 1) => Outputs(dst) \in Seq(Frames)
    BY <1>21, OutputsFacts DEF VprocGetBuffer
  <2>2. NextUnused \in Buffers
    BY <1>21, UnusedFacts DEF VprocGetBuffer
  <2>3. uses' \in [Buffers -> SUBSET Uses]
    BY <1>2, <1>21, <2>2 DEF VprocGetBuffer, Mark, Uses
  <2>4. vproc' = IF Len(dst) = (IF TwoOut THEN 2 ELSE 1)
                 THEN [vproc EXCEPT !.pc = "out", !.dst = <<>>, !.outs = Outputs(dst)]
                 ELSE [vproc EXCEPT !.dst = dst]
    BY <1>21 DEF VprocGetBuffer
  <2> HIDE DEF dst
  <2>5. vproc' \in VprocType
    <3>1. <<>> \in Seq(Buffers) /\ "out" \in VprocPcs
      BY DEF VprocPcs, Working
    <3>2. CASE Len(dst) = (IF TwoOut THEN 2 ELSE 1)
      BY <1>2, <2>1, <2>4, <3>1, <3>2 DEF VprocType
    <3>3. CASE Len(dst) # (IF TwoOut THEN 2 ELSE 1)
      BY <1>2, <2>1, <2>4, <3>3 DEF VprocType
    <3> QED BY <3>2, <3>3
  <2> QED BY <1>1, <1>2, <1>21, <2>3, <2>5 DEF VprocGetBuffer, halVars, outVars
<1>22. CASE VprocPut
  <2>1. vproc.outs \in Seq(Frames) /\ vproc.outs # <<>>
    BY <1>2, <1>22 DEF Base, ThreadsInv, VprocPut, VprocType
  <2>2. Head(vproc.outs) \in Frames /\ Tail(vproc.outs) \in Seq(Frames)
    BY <2>1
  <2>3. mFrames' \in Seq(Frames) /\ puts' \in Seq(Frames)
    BY <1>2, <1>22, <2>2 DEF VprocPut, Output
  <2>4. vproc' \in VprocType
    BY <1>2, <1>22, <2>2 DEF VprocPut, VprocType, VprocPcs, Working
  <2> QED BY <1>1, <1>2, <1>22, <2>3, <2>4 DEF VprocPut, halVars
<1>23. CASE VprocFinish
  <2>1. vproc.pc \in Working
    BY <1>23 DEF VprocFinish, Working
  <2>2. vtasks' \in GroupType
    BY <1>23, <2>1, FinishFacts DEF Base, VprocFinish
  <2>3. uses' \in [Buffers -> SUBSET Uses]
    BY <1>2, <1>23, UnmarkFacts DEF VprocFinish, ClrPrev
  <2>4. vproc' \in VprocType
    BY <1>2, <1>23, <2>1, HandlesFacts
    DEF Base, VprocFinish, VprocType, VprocPcs, Kept
  <2> QED BY <1>1, <1>2, <1>23, <2>2, <2>3, <2>4 DEF VprocFinish, halVars, outVars
<1>24. CASE GetFrame
  <2>1. Head(mFrames) \in Frames /\ Tail(mFrames) \in Seq(Frames)
    BY <1>2, <1>24 DEF GetFrame
  <2> QED BY <1>1, <1>2, <1>24, <2>1 DEF GetFrame, halVars, vprocVars
<1>25. CASE PutFrame
  BY <1>1, <1>2, <1>25
  DEF PutFrame, Unmark, ParserPcs, halVars, vprocVars, outVars
<1>26. CASE ResetStart
  <2>1. user' \in [call : {"idle", "reset"}, resets : Nat, held : Frames \cup {None}]
    <3>1. user' = [user EXCEPT !.call = "reset", !.resets = user.resets + 1]
      BY <1>26 DEF ResetStart
    <3>2. user.resets + 1 \in Nat
      BY <1>2
    <3> QED BY <1>2, <3>1, <3>2
  <2>2. reset' \in ResetType
    BY <1>2, <1>26 DEF ResetStart, ResetType
  <2> QED BY <1>1, <1>2, <1>26, <2>1, <2>2 DEF ResetStart, halVars, vprocVars, outVars
<1>27. CASE ResetReturn
  <2>1. user' \in [call : {"idle", "reset"}, resets : Nat, held : Frames \cup {None}]
    BY <1>2, <1>27 DEF ResetReturn
  <2>2. reset' \in ResetType
    BY <1>2, <1>27 DEF ResetReturn, ResetType
  <2>3. uses' \in [Buffers -> SUBSET Uses]
    BY <1>2, <1>27 DEF ResetReturn
  <2> QED BY <1>1, <1>2, <1>27, <2>1, <2>2, <2>3 DEF ResetReturn, halVars, vprocVars, outVars
<1>28. CASE UNCHANGED vars
  BY <1>1, <1>2, <1>28 DEF vars, halVars, vprocVars, outVars
<1> QED
  BY <1>3, <1>4, <1>5, <1>6, <1>7, <1>8, <1>9, <1>9a, <1>10, <1>11, <1>12, <1>13, <1>14,
     <1>15, <1>16, <1>17, <1>18, <1>19, <1>20, <1>21, <1>22, <1>23, <1>24, <1>25, <1>26,
     <1>27, <1>28
  DEF Next, Parser, Hal, Vproc

(* The handles in use carry tasks, and the first is the one at work. *)
LEMMA NextHandlesInv ==
    ASSUME Base, [Next]_vars
    PROVE  HandlesInv'
<1> DEFINE P == vtasks.list["TASK_PROCESSING"]
<1>0. StreamTasks' = StreamTasks /\ TypeInv /\ HandlesInv
  BY SessionKept DEF Base
<1>1. /\ vproc \in VprocType
      /\ LinkedOnce(vtasks)
      /\ \A i \in ToSet(P) : vtasks.info[i] \in StreamTasks
      /\ vproc.pc \in Working =>
            HasHnd(vtasks, "TASK_PROCESSING")
              /\ vproc.hnd = GetHnd(vtasks, "TASK_PROCESSING")
      /\ vproc.pc = "none" => ~HasHnd(vtasks, "TASK_PROCESSING")
  BY <1>0 DEF TypeInv, HandlesInv
<1>2. ASSUME vtasks' = vtasks,
             vproc'.pc = "none" => vproc.pc = "none",
             vproc'.pc \in Working =>
                 \/ vproc.pc \in Working /\ vproc'.hnd = vproc.hnd
                 \/ HasHnd(vtasks, "TASK_PROCESSING")
                      /\ vproc'.hnd = GetHnd(vtasks, "TASK_PROCESSING")
      PROVE  HandlesInv'
  BY <1>0, <1>1, <1>2 DEF HandlesInv
<1>3. CASE UNCHANGED <<vtasks, vproc>>
  BY <1>2, <1>3
<1>4. CASE ParserResetVproc \/ HalStart \/ HalSignal
  <2>1. vtasks' = vtasks
    BY <1>4 DEF ParserResetVproc, HalStart, HalSignal
  <2>2. vproc'.hnd = vproc.hnd /\ (vproc'.pc = vproc.pc \/ vproc'.pc = "check")
    BY <1>1, <1>4 DEF ParserResetVproc, HalStart, HalSignal, VprocType
  <2> QED BY <1>2, <2>1, <2>2 DEF Working
<1>5. CASE VprocTake \/ VprocReset \/ VprocWait
  <2>1. vtasks' = vtasks
    BY <1>5 DEF VprocTake, VprocReset, VprocWait
  <2>2. \/ /\ HasHnd(vtasks, "TASK_PROCESSING") /\ vproc'.pc = "task"
           /\ vproc'.hnd = GetHnd(vtasks, "TASK_PROCESSING")
        \/ vproc'.pc \in {"check", "wait"}
    BY <1>1, <1>5 DEF VprocTake, VprocReset, VprocWait, VprocType
  <2> QED BY <1>2, <2>1, <2>2 DEF Working
<1>6. CASE VprocSignal \/ VprocPicture \/ VprocGetBuffer \/ VprocPut
  <2>1. vtasks' = vtasks /\ vproc.pc \in Working
    BY <1>6 DEF VprocSignal, VprocPicture, VprocGetBuffer, VprocPut, Working
  <2>2. vproc'.hnd = vproc.hnd /\ vproc'.pc \in Working
    BY <1>1, <1>6
    DEF VprocSignal, VprocPicture, VprocGetBuffer, VprocPut, VprocType, Working
  <2> QED BY <1>2, <2>1, <2>2 DEF Working
<1>7. CASE VprocFinish
  <2>1. vproc.pc \in Working /\ vproc'.pc = "check"
    BY <1>1, <1>7 DEF VprocFinish, Working, VprocType
  <2>2. vtasks' = SetStatus(vtasks, vproc.hnd, "TASK_IDLE")
    BY <1>7 DEF VprocFinish
  <2>3. /\ LinkedOnce(vtasks')
        /\ \A i \in ToSet(vtasks'.list["TASK_PROCESSING"]) :
              vtasks'.info[i] \in StreamTasks
    BY <1>0, <2>1, <2>2, FinishFacts
  <2> QED BY <1>0, <2>1, <2>3 DEF HandlesInv, Working
<1>8. ASSUME GiveTask, HasHnd(vtasks, "TASK_IDLE"), hal.task \in StreamTasks,
             vproc' = vproc, vproc.pc # "none"
      PROVE  HandlesInv'
  <2>1. /\ LinkedOnce(vtasks')
        /\ \A i \in ToSet(vtasks'.list["TASK_PROCESSING"]) :
              vtasks'.info[i] \in StreamTasks
        /\ HasHnd(vtasks', "TASK_PROCESSING")
        /\ HasHnd(vtasks, "TASK_PROCESSING") =>
              GetHnd(vtasks', "TASK_PROCESSING") = GetHnd(vtasks, "TASK_PROCESSING")
    BY <1>0, <1>8, GiveFacts
  <2> QED BY <1>0, <1>1, <1>8, <2>1 DEF HandlesInv
<1>9. CASE HalPut
  BY <1>8, <1>9 DEF HalPut, Base, ThreadsInv
<1>10. CASE HalPutEos
  <2>1. CASE HasHnd(vtasks, "TASK_IDLE")
    BY <1>8, <1>10, <2>1 DEF HalPutEos, Base, ThreadsInv
  <2>2. CASE ~HasHnd(vtasks, "TASK_IDLE")
    BY <1>2, <1>10, <2>2 DEF HalPutEos
  <2> QED BY <2>1, <2>2
<1>11. \/ UNCHANGED <<vtasks, vproc>> \/ ParserResetVproc \/ HalStart \/ HalSignal
       \/ VprocTake \/ VprocReset \/ VprocWait \/ VprocSignal \/ VprocPicture
       \/ VprocGetBuffer \/ VprocPut \/ VprocFinish \/ HalPut \/ HalPutEos
  BY DEF Next, vars, Parser, Hal, Vproc, vprocVars, ParserLook, ParserGet, ParserSignal,
         ParserReset, ParserResetDone, HalTake, HalPutDirect, HalShown, HalReset, GetFrame,
         PutFrame, ResetStart, ResetReturn
<1> QED BY <1>3, <1>4, <1>5, <1>6, <1>7, <1>9, <1>10, <1>11

(* What the threads have in hand. *)
LEMMA NextThreadsInv ==
    ASSUME Base, [Next]_vars
    PROVE  ThreadsInv'
<1>0. /\ StreamTasks' = StreamTasks /\ session' = session /\ stream' = stream
      /\ session \in Sessions /\ NoTask \notin StreamTasks
  BY SessionKept, TaskFacts DEF Base, TypeInv
<1>1. /\ parser \in [pc : ParserPcs, next : Nat \ {0}]
      /\ tasks \in Seq(StreamTasks)
      /\ hal \in [pc : HalPcs, task : StreamTasks \cup {NoTask}]
      /\ vproc \in VprocType
  BY DEF Base, TypeInv, HalType
<1> DEFINE Parses  == parser.pc = "get" => ~AtEnd /\ IsPicture(Item)
           Works   == hal.pc # "idle" => hal.task \in StreamTasks
           Signals == hal.pc # "idle" /\ ~IsPicture(hal.task.item) =>
                         tasks # <<>> /\ Head(tasks) = hal.task
           Shows   ==
              /\ vproc.pc = "none" => vproc.prev = NoTask
              /\ vproc.prev # NoTask => vproc.prev.item = "frame"
              /\ vproc.pc \in {"dst", "out"} => IsPicture(VTask.item)
              /\ IF vproc.pc = "dst" THEN Len(vproc.dst) < (IF TwoOut THEN 2 ELSE 1)
                                     ELSE vproc.dst = <<>>
              /\ vproc.pc = "out" <=> vproc.outs # <<>>
<1>2. Parses /\ Works /\ Signals /\ Shows
  BY DEF Base, ThreadsInv
<1>3. Parses'
  <2>1. \/ UNCHANGED parser \/ ParserLook \/ parser'.pc # "get"
    BY <1>1 DEF Next, vars, Parser, Hal, Vproc, halVars, vprocVars, ParserLook, ParserGet,
         ParserSignal, SendTask, ParserReset, ParserResetVproc, ParserResetDone, HalTake,
         HalStart, HalPut, HalPutEos, HalPutDirect, HalSignal, HalShown, HalReset, VprocTake,
         VprocReset, VprocWait, VprocSignal, VprocPicture, VprocGetBuffer, VprocPut,
         VprocFinish, GetFrame, PutFrame, ResetStart, ResetReturn
  <2>2. CASE UNCHANGED parser
    BY <1>0, <1>2, <2>2 DEF AtEnd, Item
  <2>3. CASE ParserLook
    BY <1>0, <1>1, <2>3 DEF ParserLook, MayParse, AtEnd, Item
  <2> QED BY <2>1, <2>2, <2>3
<1>4. Works' /\ Signals'
  <2>1. CASE UNCHANGED <<tasks, hal>>
    BY <1>0, <1>2, <2>1
  <2>2. CASE ParserGet \/ ParserSignal
    <3>1. UNCHANGED hal /\ (tasks' = tasks \/ \E t : tasks' = Append(tasks, t))
      BY <2>2 DEF ParserGet, ParserSignal, SendTask
    <3>2. tasks # <<>> => tasks' # <<>> /\ Head(tasks') = Head(tasks)
      BY <1>1, <3>1
    <3> QED BY <1>0, <1>2, <3>1, <3>2
  <2>3. CASE HalTake
    <3>1. /\ hal' = [pc |-> "put", task |-> Head(tasks)] /\ tasks # <<>>
          /\ Head(tasks) \in StreamTasks
          /\ ~IsPicture(Head(tasks).item) => tasks' = tasks
      BY <1>1, <2>3 DEF HalTake
    <3> QED BY <1>0, <3>1
  <2>4. CASE HalPut \/ HalPutEos \/ HalPutDirect \/ HalSignal
    <3>1. /\ tasks' = tasks /\ hal.pc # "idle"
          /\ hal'.task = hal.task /\ hal'.pc \in {"signal", "shown"}
      BY <1>1, <2>4 DEF HalPut, HalPutEos, HalPutDirect, HalSignal
    <3> QED BY <1>0, <1>2, <3>1
  <2>5. CASE HalShown
    <3>1. hal'.pc = "idle"
      BY <2>5 DEF HalShown
    <3> QED BY <3>1
  <2>6. \/ UNCHANGED <<tasks, hal>>
        \/ ParserGet \/ ParserSignal \/ HalTake \/ HalPut \/ HalPutEos \/ HalPutDirect
        \/ HalSignal \/ HalShown
    BY <1>1 DEF Next, vars, Parser, Hal, Vproc, halVars, vprocVars, ParserLook,
         ParserReset, ParserResetVproc, ParserResetDone, HalStart, HalReset, VprocTake,
         VprocReset, VprocWait, VprocSignal, VprocPicture, VprocGetBuffer, VprocPut,
         VprocFinish, GetFrame, PutFrame, ResetStart, ResetReturn, VprocType
  <2> QED BY <2>1, <2>2, <2>3, <2>4, <2>5, <2>6
<1>5. Shows'
  <2>1. CASE UNCHANGED <<vtasks, vproc>>
    BY <1>0, <1>2, <2>1 DEF VTask, TwoOut
  <2>2. CASE ParserResetVproc \/ HalStart \/ HalSignal
    <3>1. /\ vtasks' = vtasks /\ vproc'.hnd = vproc.hnd /\ vproc'.prev = vproc.prev
          /\ vproc'.dst = vproc.dst /\ vproc'.outs = vproc.outs
          /\ vproc'.pc = vproc.pc \/ (vproc'.pc = "check" /\ vproc.pc \in {"none", "wait"})
      BY <1>1, <2>2 DEF ParserResetVproc, HalStart, HalSignal, VprocType
    <3>2. TwoOut' = TwoOut /\ VTask' = VTask
      BY <1>0, <3>1 DEF TwoOut, VTask, NoTask
    <3> QED BY <1>2, <3>1, <3>2 DEF NoTask
  <2>3. CASE VprocTake \/ VprocWait
    <3>1. /\ vproc'.prev = vproc.prev /\ vproc'.dst = vproc.dst /\ vproc'.outs = vproc.outs
          /\ vproc'.pc \in {"task", "wait"} /\ vproc.pc = "check"
      BY <1>1, <2>3 DEF VprocTake, VprocWait, VprocType
    <3> QED BY <1>2, <3>1 DEF NoTask
  <2>4. CASE VprocReset
    <3>1. /\ vproc'.prev = NoTask /\ vproc'.dst = vproc.dst /\ vproc'.outs = vproc.outs
          /\ vproc'.pc = "check" /\ vproc.pc = "check"
      BY <1>1, <2>4 DEF VprocReset, VprocType
    <3> QED BY <1>2, <3>1 DEF NoTask
  <2>5. CASE VprocSignal \/ VprocPicture
    <3>1. /\ vproc'.prev = vproc.prev /\ vproc'.dst = vproc.dst /\ vproc'.outs = vproc.outs
          /\ vproc'.pc \in {"finish", "dst"} /\ vproc.pc = "task"
          /\ vproc'.pc = "dst" => IsPicture(VTask.item)
          /\ vproc'.hnd = vproc.hnd /\ vtasks' = vtasks
      BY <1>1, <2>5 DEF VprocSignal, VprocPicture, VprocType
    <3>2. Len(vproc'.dst) = 0
      BY <1>2, <3>1
    <3>3. VTask' = VTask
      BY <3>1 DEF VTask
    <3> QED BY <1>2, <3>1, <3>2, <3>3 DEF NoTask
  <2>6. CASE VprocGetBuffer
    <3> DEFINE dst == Append(vproc.dst, NextUnused)
    <3>1. /\ vtasks' = vtasks /\ vproc'.hnd = vproc.hnd /\ vproc'.prev = vproc.prev
          /\ vproc.pc = "dst" /\ vproc.outs = <<>>
      BY <1>1, <1>2, <2>6 DEF VprocGetBuffer, VprocType
    <3>2. TwoOut' = TwoOut /\ VTask' = VTask
      BY <1>0, <3>1 DEF TwoOut, VTask, NoTask
    <3>3. /\ Len(dst) <= (IF TwoOut THEN 2 ELSE 1) /\ dst \in Seq(Buffers)
          /\ Len(dst) = (IF TwoOut THEN 2 ELSE 1) => Outputs(dst) # <<>>
      BY <2>6, OutputsFacts DEF VprocGetBuffer
    <3>4. vproc' = IF Len(dst) = (IF TwoOut THEN 2 ELSE 1)
                   THEN [vproc EXCEPT !.pc = "out", !.dst = <<>>, !.outs = Outputs(dst)]
                   ELSE [vproc EXCEPT !.dst = dst]
      BY <2>6 DEF VprocGetBuffer
    <3> HIDE DEF dst
    <3>5. CASE Len(dst) = (IF TwoOut THEN 2 ELSE 1)
      <4>1. vproc'.pc = "out" /\ vproc'.dst = <<>> /\ vproc'.outs # <<>>
        BY <1>1, <3>3, <3>4, <3>5 DEF VprocType
      <4> QED BY <1>2, <3>1, <3>2, <4>1 DEF NoTask
    <3>6. CASE Len(dst) # (IF TwoOut THEN 2 ELSE 1)
      <4>1. vproc'.pc = "dst" /\ vproc'.dst = dst /\ vproc'.outs = <<>>
        BY <1>1, <3>1, <3>4, <3>6 DEF VprocType
      <4>2. Len(dst) < (IF TwoOut THEN 2 ELSE 1)
        <5>1. Len(dst) \in Nat
          BY <3>3
        <5> DEFINE k == Len(dst)
                   m == IF TwoOut THEN 2 ELSE 1
        <5>2. k \in Nat /\ m \in Nat /\ k <= m /\ k # m
          BY <3>3, <3>6, <5>1
        <5> HIDE DEF k, m
        <5>3. k < m
          BY <5>2
        <5> QED BY <5>3 DEF k, m
      <4> QED BY <1>2, <3>1, <3>2, <4>1, <4>2 DEF NoTask
    <3> QED BY <3>5, <3>6
  <2>7. CASE VprocPut
    <3>1. /\ vtasks' = vtasks /\ vproc'.hnd = vproc.hnd /\ vproc'.prev = vproc.prev
          /\ vproc'.dst = vproc.dst /\ vproc'.outs = Tail(vproc.outs)
          /\ vproc.pc = "out" /\ vproc.outs \in Seq(Frames) /\ vproc.outs # <<>>
          /\ vproc'.pc = IF Len(vproc.outs) = 1 THEN "finish" ELSE "out"
      BY <1>1, <1>2, <2>7 DEF VprocPut, VprocType
    <3>2. TwoOut' = TwoOut /\ VTask' = VTask
      BY <1>0, <3>1 DEF TwoOut, VTask, NoTask
    <3>3. Tail(vproc.outs) = <<>> <=> Len(vproc.outs) = 1
      <4> DEFINE s == vproc.outs
      <4>1. s \in Seq(Frames) /\ s # <<>>
        BY <3>1
      <4> HIDE DEF s
      <4>2. Tail(s) \in Seq(Frames) /\ Len(Tail(s)) = Len(s) - 1 /\ Len(s) \in Nat
        BY <4>1
      <4>3. Tail(s) = <<>> <=> Len(s) = 1
        <5> DEFINE r == Tail(s)
        <5>1. r \in Seq(Frames) /\ Len(r) = Len(s) - 1
          BY <4>2
        <5> HIDE DEF r
        <5>2. r = <<>> <=> Len(r) = 0
          BY <5>1, EmptySeq
        <5> QED BY <4>2, <5>1, <5>2 DEF r
      <4> QED BY <4>3 DEF s
    <3> QED BY <1>2, <3>1, <3>2, <3>3 DEF NoTask
  <2>8. CASE VprocFinish
    <3>1. /\ vproc'.pc = "check" /\ vproc'.prev = Kept /\ vproc.pc = "finish"
          /\ vproc'.dst = vproc.dst /\ vproc'.outs = vproc.outs
      BY <1>1, <2>8 DEF VprocFinish, VprocType
    <3>2. Kept # NoTask => Kept.item = "frame"
      BY DEF Kept
    <3> QED BY <1>2, <3>1, <3>2 DEF NoTask
  <2>9. ASSUME GiveTask, HasHnd(vtasks, "TASK_IDLE"), hal.task \in StreamTasks, vproc' = vproc
        PROVE  Shows'
    <3>1. TwoOut' = TwoOut
      BY <1>0, <2>9 DEF TwoOut, NoTask
    <3>2. ASSUME vproc.pc \in Working PROVE VTask' = VTask
      <4>1. /\ HasHnd(vtasks, "TASK_PROCESSING")
            /\ vproc.hnd = GetHnd(vtasks, "TASK_PROCESSING")
        BY <3>2 DEF Base, HandlesInv
      <4> QED BY <2>9, <4>1, GiveFacts DEF Base, VTask
    <3> QED BY <1>2, <2>9, <3>1, <3>2 DEF Working, NoTask
  <2>10. CASE HalPut
    BY <2>9, <2>10, <1>2 DEF HalPut
  <2>11. CASE HalPutEos
    <3>1. CASE HasHnd(vtasks, "TASK_IDLE")
      BY <2>9, <2>11, <3>1, <1>2 DEF HalPutEos
    <3>2. CASE ~HasHnd(vtasks, "TASK_IDLE")
      BY <2>1, <2>11, <3>2 DEF HalPutEos
    <3> QED BY <3>1, <3>2
  <2>12. \/ UNCHANGED <<vtasks, vproc>> \/ ParserResetVproc \/ HalStart \/ HalSignal
         \/ VprocTake \/ VprocReset \/ VprocWait \/ VprocSignal \/ VprocPicture
         \/ VprocGetBuffer \/ VprocPut \/ VprocFinish \/ HalPut \/ HalPutEos
    BY DEF Next, vars, Parser, Hal, Vproc, vprocVars, ParserLook, ParserGet, ParserSignal,
           ParserReset, ParserResetDone, HalTake, HalPutDirect, HalShown, HalReset, GetFrame,
           PutFrame, ResetStart, ResetReturn
  <2> QED BY <2>1, <2>2, <2>3, <2>4, <2>5, <2>6, <2>7, <2>8, <2>10, <2>11, <2>12
<1> QED BY <1>3, <1>4, <1>5 DEF ThreadsInv

(* The three parts together. *)
LEMMA NextBase ==
    ASSUME Base, [Next]_vars
    PROVE  Base'
BY NextTypeInv, NextHandlesInv, NextThreadsInv DEF Base

-----------------------------------------------------------------------------
(* The slots queued for deinterlacing. *)

(* d has the buffers of the pictures among the tasks s[n], s[n + 1], ...,  *)
(* in their order: f says which task each is of.                           *)
Picks(f, d, s, n) ==
    /\ f \in [1 .. Len(d) -> n .. Len(s)]
    /\ \A i, j \in 1 .. Len(d) : i < j => f[i] < f[j]
    /\ \A k \in n .. Len(s) :
          IsPicture(s[k].item) => \E i \in 1 .. Len(d) : f[i] = k
    /\ \A i \in 1 .. Len(d) : IsPicture(s[f[i]].item) /\ d[i] = s[f[i]].buf

PicturesFrom(d, s, n) == \E f : Picks(f, d, s, n)

(* A picture is queued with its task. *)
LEMMA PickAppended ==
    ASSUME NEW S, NEW B, NEW s \in Seq(S), NEW d \in Seq(B), NEW t \in S,
           NEW n \in Nat \ {0}, n <= Len(s) + 1,
           PicturesFrom(d, s, n), IsPicture(t.item), t.buf \in B
    PROVE  PicturesFrom(Append(d, t.buf), Append(s, t), n)
<1> DEFINE s1 == Append(s, t)
           d1 == Append(d, t.buf)
<1>1. PICK f : Picks(f, d, s, n)
  BY DEF PicturesFrom
<1> DEFINE g == [i \in 1 .. Len(d) + 1 |-> IF i <= Len(d) THEN f[i] ELSE Len(s) + 1]
<1>2. /\ Len(s) \in Nat /\ Len(d) \in Nat
      /\ Len(s1) = Len(s) + 1 /\ Len(d1) = Len(d) + 1
      /\ s1[Len(s) + 1] = t /\ d1[Len(d) + 1] = t.buf
      /\ \A i \in 1 .. Len(s) : s1[i] = s[i]
      /\ \A i \in 1 .. Len(d) : d1[i] = d[i]
  OBVIOUS
<1>3. /\ \A i \in 1 .. Len(d) : f[i] \in n .. Len(s) /\ f[i] \in 1 .. Len(s)
      /\ \A i, j \in 1 .. Len(d) : i < j => f[i] < f[j]
      /\ \A k \in n .. Len(s) : IsPicture(s[k].item) => \E i \in 1 .. Len(d) : f[i] = k
      /\ \A i \in 1 .. Len(d) : IsPicture(s[f[i]].item) /\ d[i] = s[f[i]].buf
  <2>1. \A k \in n .. Len(s) : k \in 1 .. Len(s)
    BY <1>2
  <2>2. \A i \in 1 .. Len(d) : f[i] \in n .. Len(s) /\ f[i] \in 1 .. Len(s)
    BY <1>1, <2>1 DEF Picks
  <2>3. /\ \A k \in n .. Len(s) : IsPicture(s[k].item) => \E i \in 1 .. Len(d) : f[i] = k
        /\ \A i \in 1 .. Len(d) : IsPicture(s[f[i]].item) /\ d[i] = s[f[i]].buf
    BY <1>1 DEF Picks
  <2> QED BY <1>1, <2>2, <2>3 DEF Picks
<1>4. /\ \A i \in 1 .. Len(d) : g[i] = f[i]
      /\ g[Len(d) + 1] = Len(s) + 1
      /\ \A i \in 1 .. Len(d) + 1 : i \in 1 .. Len(d) \/ i = Len(d) + 1
      /\ \A k \in n .. Len(s) + 1 : k \in n .. Len(s) \/ k = Len(s) + 1
  BY <1>2
<1>5. g \in [1 .. Len(d) + 1 -> n .. Len(s) + 1]
  BY <1>2, <1>3
<1> HIDE DEF g, s1, d1
<1>6. \A i, j \in 1 .. Len(d) + 1 : i < j => g[i] < g[j]
  <2> SUFFICES ASSUME NEW i \in 1 .. Len(d) + 1, NEW j \in 1 .. Len(d) + 1, i < j
               PROVE  g[i] < g[j]
    OBVIOUS
  <2>1. i \in 1 .. Len(d)
    BY <1>2
  <2>2. CASE j \in 1 .. Len(d)
    BY <1>3, <1>4, <2>1, <2>2
  <2>3. CASE j = Len(d) + 1
    BY <1>2, <1>3, <1>4, <2>1, <2>3
  <2> QED BY <1>4, <2>2, <2>3
<1>7. \A k \in n .. Len(s1) : IsPicture(s1[k].item) => \E i \in 1 .. Len(d1) : g[i] = k
  <2> SUFFICES ASSUME NEW k \in n .. Len(s1), IsPicture(s1[k].item)
               PROVE  \E i \in 1 .. Len(d1) : g[i] = k
    OBVIOUS
  <2>1. CASE k \in n .. Len(s)
    <3>1. IsPicture(s[k].item)
      BY <1>2, <2>1
    <3>2. PICK i \in 1 .. Len(d) : f[i] = k
      BY <1>3, <2>1, <3>1
    <3>3. i \in 1 .. Len(d1) /\ g[i] = k
      BY <1>2, <1>4, <3>2
    <3> QED BY <3>3
  <2>2. CASE k = Len(s) + 1
    <3>1. Len(d) + 1 \in 1 .. Len(d1) /\ g[Len(d) + 1] = k
      BY <1>2, <1>4, <2>2
    <3> QED BY <3>1
  <2> QED BY <1>2, <1>4, <2>1, <2>2
<1>8. \A i \in 1 .. Len(d1) : IsPicture(s1[g[i]].item) /\ d1[i] = s1[g[i]].buf
  <2> SUFFICES ASSUME NEW i \in 1 .. Len(d1)
               PROVE  IsPicture(s1[g[i]].item) /\ d1[i] = s1[g[i]].buf
    OBVIOUS
  <2>1. CASE i \in 1 .. Len(d)
    BY <1>2, <1>3, <1>4, <2>1
  <2>2. CASE i = Len(d) + 1
    BY <1>2, <1>4, <2>2
  <2> QED BY <1>2, <1>4, <2>1, <2>2
<1>9. Picks(g, d1, s1, n)
  BY <1>2, <1>5, <1>6, <1>7, <1>8 DEF Picks
<1> QED BY <1>9 DEF PicturesFrom, d1, s1

(* A task without a picture comes alone. *)
LEMMA SignalAppended ==
    ASSUME NEW S, NEW B, NEW s \in Seq(S), NEW d \in Seq(B), NEW t \in S,
           NEW n \in Nat \ {0}, PicturesFrom(d, s, n), ~IsPicture(t.item)
    PROVE  PicturesFrom(d, Append(s, t), n)
<1> DEFINE s1 == Append(s, t)
<1>1. PICK f : Picks(f, d, s, n)
  BY DEF PicturesFrom
<1>2. /\ Len(s) \in Nat /\ Len(s1) = Len(s) + 1 /\ s1[Len(s) + 1] = t
      /\ \A i \in 1 .. Len(s) : s1[i] = s[i]
  OBVIOUS
<1> HIDE DEF s1
<1>3. /\ \A k \in n .. Len(s) : k \in 1 .. Len(s) /\ s1[k] = s[k] /\ k \in n .. Len(s1)
      /\ \A k \in n .. Len(s1) : k \in n .. Len(s) \/ s1[k] = t
  BY <1>2
<1>4. Picks(f, d, s1, n)
  BY <1>1, <1>3 DEF Picks
<1> QED BY <1>4 DEF PicturesFrom, s1

(* The first task has no picture. *)
LEMMA SignalSkipped ==
    ASSUME NEW S, NEW s \in Seq(S), NEW d, NEW n \in Nat \ {0},
           PicturesFrom(d, s, n), ~IsPicture(s[n].item)
    PROVE  PicturesFrom(d, s, n + 1)
<1>1. PICK f : Picks(f, d, s, n)
  BY DEF PicturesFrom
<1>2. \A k \in n .. Len(s) : k # n => k \in n + 1 .. Len(s)
  OBVIOUS
<1>3. \A k \in n + 1 .. Len(s) : k \in n .. Len(s)
  OBVIOUS
<1>4. Picks(f, d, s, n + 1)
  BY <1>1, <1>2, <1>3 DEF Picks
<1> QED BY <1>4 DEF PicturesFrom

(* The first task has a picture: it is first in the queue. *)
LEMMA PickTaken ==
    ASSUME NEW S, NEW B, NEW s \in Seq(S), NEW d \in Seq(B), NEW n \in Nat \ {0},
           n <= Len(s), PicturesFrom(d, s, n), IsPicture(s[n].item)
    PROVE  /\ d # <<>> /\ Head(d) = s[n].buf
           /\ Tail(d) \in Seq(B)
           /\ PicturesFrom(Tail(d), s, n + 1)
<1>1. PICK f : Picks(f, d, s, n)
  BY DEF PicturesFrom
<1>2. Len(s) \in Nat /\ Len(d) \in Nat
  OBVIOUS
<1>3. PICK m \in 1 .. Len(d) : f[m] = n
  BY <1>1, <1>2 DEF Picks
<1>4. m = 1
  <2>1. 1 \in 1 .. Len(d) /\ f[1] \in n .. Len(s) /\ (1 < m => f[1] < f[m])
    BY <1>1, <1>2, <1>3 DEF Picks
  <2> QED BY <1>2, <1>3, <2>1
<1>5. d # <<>> /\ Head(d) = d[1] /\ d[1] = s[n].buf
  BY <1>1, <1>3, <1>4 DEF Picks
<1> DEFINE e == Tail(d)
           g == [i \in 1 .. Len(d) - 1 |-> f[i + 1]]
<1>6. /\ e \in Seq(B) /\ Len(e) = Len(d) - 1 /\ Len(e) \in Nat
      /\ \A i \in 1 .. Len(d) - 1 : e[i] = d[i + 1]
  BY <1>5, HeadTailProperties
<1> HIDE DEF e
<1>7. \A i \in 1 .. Len(d) - 1 : /\ i + 1 \in 1 .. Len(d) /\ g[i] = f[i + 1]
                                 /\ f[i + 1] \in n + 1 .. Len(s)
  <2> SUFFICES ASSUME NEW i \in 1 .. Len(d) - 1
               PROVE  /\ i + 1 \in 1 .. Len(d) /\ g[i] = f[i + 1]
                      /\ f[i + 1] \in n + 1 .. Len(s)
    OBVIOUS
  <2>1. i + 1 \in 1 .. Len(d) /\ 1 \in 1 .. Len(d) /\ 1 < i + 1
    BY <1>2
  <2>2. f[1] < f[i + 1] /\ f[i + 1] \in n .. Len(s)
    BY <1>1, <2>1 DEF Picks
  <2> QED BY <1>2, <1>3, <1>4, <2>1, <2>2
<1>8. g \in [1 .. Len(d) - 1 -> n + 1 .. Len(s)]
  BY <1>7
<1> HIDE DEF g
<1>9. \A i, j \in 1 .. Len(d) - 1 : i < j => g[i] < g[j]
  <2>1. \A i, j \in 1 .. Len(d) - 1 : i < j => i + 1 < j + 1
    BY <1>2
  <2> QED BY <1>1, <1>7, <2>1 DEF Picks
<1>10. \A k \in n + 1 .. Len(s) : IsPicture(s[k].item) => \E i \in 1 .. Len(d) - 1 : g[i] = k
  <2> SUFFICES ASSUME NEW k \in n + 1 .. Len(s), IsPicture(s[k].item)
               PROVE  \E i \in 1 .. Len(d) - 1 : g[i] = k
    OBVIOUS
  <2>1. k \in n .. Len(s) /\ k # n
    BY <1>2
  <2>2. PICK j \in 1 .. Len(d) : f[j] = k
    BY <1>1, <2>1 DEF Picks
  <2>3. j # 1
    BY <1>3, <1>4, <2>1, <2>2
  <2>4. j - 1 \in 1 .. Len(d) - 1 /\ (j - 1) + 1 = j
    BY <1>2, <2>3
  <2>5. g[j - 1] = k
    BY <1>7, <2>2, <2>4
  <2> QED BY <2>4, <2>5
<1>11. \A i \in 1 .. Len(d) - 1 : IsPicture(s[g[i]].item) /\ e[i] = s[g[i]].buf
  BY <1>1, <1>6, <1>7 DEF Picks
<1>12. Picks(g, e, s, n + 1)
  BY <1>6, <1>8, <1>9, <1>10, <1>11 DEF Picks
<1> QED BY <1>5, <1>6, <1>12 DEF PicturesFrom, e

(* The first task is done with. *)
LEMMA PickShifted ==
    ASSUME NEW S, NEW B, NEW s \in Seq(S), NEW d \in Seq(B), NEW n \in Nat \ {0},
           s # <<>>, PicturesFrom(d, s, n + 1)
    PROVE  PicturesFrom(d, Tail(s), n)
<1> DEFINE r == Tail(s)
<1>1. PICK f : Picks(f, d, s, n + 1)
  BY DEF PicturesFrom
<1>2. /\ r \in Seq(S) /\ Len(r) = Len(s) - 1 /\ Len(s) \in Nat /\ Len(d) \in Nat
      /\ \A i \in 1 .. Len(s) - 1 : r[i] = s[i + 1]
  BY HeadTailProperties
<1> HIDE DEF r
<1> DEFINE g == [i \in 1 .. Len(d) |-> f[i] - 1]
<1>3. \A i \in 1 .. Len(d) : /\ f[i] \in n + 1 .. Len(s) /\ f[i] - 1 \in n .. Len(s) - 1
                             /\ f[i] - 1 \in 1 .. Len(s) - 1 /\ (f[i] - 1) + 1 = f[i]
                             /\ g[i] = f[i] - 1
  <2> SUFFICES ASSUME NEW i \in 1 .. Len(d)
               PROVE  /\ f[i] \in n + 1 .. Len(s) /\ f[i] - 1 \in n .. Len(s) - 1
                      /\ f[i] - 1 \in 1 .. Len(s) - 1 /\ (f[i] - 1) + 1 = f[i]
                      /\ g[i] = f[i] - 1
    OBVIOUS
  <2>1. f[i] \in n + 1 .. Len(s)
    BY <1>1 DEF Picks
  <2> QED BY <1>2, <2>1
<1>4. g \in [1 .. Len(d) -> n .. Len(r)]
  BY <1>2, <1>3
<1> HIDE DEF g
<1>5. \A i, j \in 1 .. Len(d) : i < j => g[i] < g[j]
  <2> SUFFICES ASSUME NEW i \in 1 .. Len(d), NEW j \in 1 .. Len(d), i < j
               PROVE  g[i] < g[j]
    OBVIOUS
  <2>1. f[i] < f[j]
    BY <1>1 DEF Picks
  <2> QED BY <1>3, <2>1
<1>6. \A k \in n .. Len(r) : IsPicture(r[k].item) => \E i \in 1 .. Len(d) : g[i] = k
  <2> SUFFICES ASSUME NEW k \in n .. Len(r), IsPicture(r[k].item)
               PROVE  \E i \in 1 .. Len(d) : g[i] = k
    OBVIOUS
  <2>1. k + 1 \in n + 1 .. Len(s) /\ r[k] = s[k + 1]
    BY <1>2
  <2>2. PICK i \in 1 .. Len(d) : f[i] = k + 1
    BY <1>1, <2>1 DEF Picks
  <2>3. g[i] = k
    BY <1>3, <2>2
  <2> QED BY <2>3
<1>7. \A i \in 1 .. Len(d) : IsPicture(r[g[i]].item) /\ d[i] = r[g[i]].buf
  <2> SUFFICES ASSUME NEW i \in 1 .. Len(d)
               PROVE  IsPicture(r[g[i]].item) /\ d[i] = r[g[i]].buf
    OBVIOUS
  <2>1. r[g[i]] = s[f[i]]
    BY <1>2, <1>3
  <2>2. IsPicture(s[f[i]].item) /\ d[i] = s[f[i]].buf
    BY <1>1 DEF Picks
  <2> QED BY <2>1, <2>2
<1>8. Picks(g, d, r, n)
  BY <1>4, <1>5, <1>6, <1>7 DEF Picks
<1> QED BY <1>8 DEF PicturesFrom, r

(* The queue has the slots of the pictures handed over, from the first or, *)
(* when it has been taken already, from the second on.                     *)
FirstQueued == IF vproc.pc \in {"dst", "out", "finish"} THEN 2 ELSE 1

DeintInv ==
    /\ deint \in Seq(Buffers)
    /\ PicturesFrom(deint, InHandles, FirstQueued)

(* At first both are empty. *)
LEMMA DeintInv_Init == Init => DeintInv
<1> SUFFICES ASSUME Init PROVE DeintInv
  OBVIOUS
<1>1. vtasks.list["TASK_PROCESSING"] = <<>> /\ deint = <<>> /\ FirstQueued = 1
  BY GroupInitFacts, VprocAssumption DEF Init, FirstQueued
<1>2. InHandles = <<>>
  BY <1>1 DEF InHandles
<1>3. Picks(<<>>, <<>>, <<>>, 1)
  BY DEF Picks
<1> QED BY <1>1, <1>2, <1>3 DEF DeintInv, PicturesFrom

(* Pictures are queued and taken with their tasks. *)
LEMMA NextDeintInv ==
    ASSUME Base, DeintInv, [Next]_vars
    PROVE  DeintInv'
<1>0. StreamTasks' = StreamTasks /\ TypeInv /\ HandlesInv
  BY SessionKept DEF Base
<1>1. /\ vproc \in VprocType /\ hal \in HalType /\ session \in Sessions
      /\ InHandles \in Seq(StreamTasks) /\ deint \in Seq(Buffers)
      /\ PicturesFrom(deint, InHandles, FirstQueued)
  BY <1>0, HandlesFacts DEF TypeInv, DeintInv
<1>2. vproc.pc \in Working =>
         InHandles # <<>> /\ VTask = InHandles[1] /\ VTask \in StreamTasks
  BY <1>0, HandlesFacts
<1>3. ASSUME UNCHANGED <<vtasks, deint>>, FirstQueued' = FirstQueued
      PROVE  DeintInv'
  <2>1. InHandles' = InHandles
    BY <1>3 DEF InHandles
  <2> QED BY <1>1, <1>3, <2>1 DEF DeintInv
<1>4. CASE UNCHANGED <<vtasks, deint, vproc>>
  BY <1>3, <1>4 DEF FirstQueued
<1>5. CASE \/ ParserResetVproc \/ HalStart \/ HalSignal \/ VprocTake \/ VprocReset
           \/ VprocWait \/ VprocGetBuffer \/ VprocPut
  <2>1. UNCHANGED <<vtasks, deint>>
    BY <1>5 DEF ParserResetVproc, HalStart, HalSignal, VprocTake, VprocReset, VprocWait,
                VprocGetBuffer, VprocPut
  <2>2. \/ vproc'.pc = vproc.pc
        \/ {vproc.pc, vproc'.pc} \subseteq {"none", "check", "wait", "task"}
        \/ {vproc.pc, vproc'.pc} \subseteq {"dst", "out", "finish"}
    BY <1>1, <1>5
    DEF ParserResetVproc, HalStart, HalSignal, VprocTake, VprocReset, VprocWait,
        VprocGetBuffer, VprocPut, VprocType
  <2> QED BY <1>3, <2>1, <2>2 DEF FirstQueued
<1>6. CASE VprocSignal
  <2>1. /\ UNCHANGED <<vtasks, deint>> /\ vproc.pc = "task" /\ ~IsPicture(VTask.item)
        /\ vproc'.pc = "finish"
    BY <1>1, <1>6 DEF VprocSignal, VprocType
  <2>2. FirstQueued = 1 /\ FirstQueued' = 2 /\ VTask = InHandles[1] /\ InHandles' = InHandles
    BY <1>2, <2>1 DEF FirstQueued, Working, InHandles
  <2>3. PicturesFrom(deint, InHandles, 1 + 1)
    BY <1>1, <2>1, <2>2, SignalSkipped
  <2> QED BY <1>1, <2>1, <2>2, <2>3 DEF DeintInv
<1>7. CASE VprocPicture
  <2>1. /\ deint' = Tail(deint) /\ vtasks' = vtasks /\ vproc.pc = "task"
        /\ IsPicture(VTask.item) /\ vproc'.pc \in {"finish", "dst"}
    BY <1>1, <1>7 DEF VprocPicture, VprocType
  <2>2. /\ FirstQueued = 1 /\ FirstQueued' = 2 /\ VTask = InHandles[1]
        /\ InHandles # <<>> /\ InHandles' = InHandles
    BY <1>2, <2>1 DEF FirstQueued, Working, InHandles
  <2>3. 1 <= Len(InHandles)
    <3> DEFINE s == InHandles
    <3>1. s \in Seq(StreamTasks) /\ s # <<>>
      BY <1>1, <2>2
    <3> HIDE DEF s
    <3>2. 1 <= Len(s)
      BY <3>1
    <3> QED BY <3>2 DEF s
  <2>4. Tail(deint) \in Seq(Buffers) /\ PicturesFrom(Tail(deint), InHandles, 1 + 1)
    BY <1>1, <2>1, <2>2, <2>3, PickTaken
  <2> QED BY <2>1, <2>2, <2>4 DEF DeintInv
<1>8. CASE VprocFinish
  <2>1. /\ vtasks' = SetStatus(vtasks, vproc.hnd, "TASK_IDLE") /\ deint' = deint
        /\ vproc.pc = "finish" /\ vproc'.pc = "check"
    BY <1>1, <1>8 DEF VprocFinish, VprocType
  <2>2. /\ InHandles' = Tail(InHandles) /\ FirstQueued = 1 + 1 /\ FirstQueued' = 1
        /\ InHandles # <<>>
    BY <1>0, <1>2, <2>1, FinishFacts DEF FirstQueued, Working
  <2>3. PicturesFrom(deint, Tail(InHandles), 1)
    BY <1>1, <2>2, PickShifted
  <2> QED BY <1>1, <2>1, <2>2, <2>3 DEF DeintInv
<1>9. ASSUME GiveTask, HasHnd(vtasks, "TASK_IDLE"), hal.task \in StreamTasks, vproc' = vproc,
             IF IsPicture(hal.task.item) THEN deint' = Append(deint, hal.task.buf)
                                         ELSE deint' = deint
      PROVE  DeintInv'
  <2>1. InHandles' = Append(InHandles, hal.task) /\ FirstQueued' = FirstQueued
    BY <1>0, <1>9, GiveFacts DEF FirstQueued
  <2>2. FirstQueued \in Nat \ {0} /\ FirstQueued <= Len(InHandles) + 1
    <3> DEFINE s == InHandles
    <3>1. s \in Seq(StreamTasks) /\ (vproc.pc \in {"dst", "out", "finish"} => s # <<>>)
      BY <1>1, <1>2 DEF Working
    <3> HIDE DEF s
    <3>2. /\ vproc.pc \in {"dst", "out", "finish"} => Len(s) >= 1
          /\ Len(s) >= 0 /\ Len(s) \in Nat
      BY <3>1
    <3>3. FirstQueued \in Nat \ {0} /\ FirstQueued <= Len(s) + 1
      BY <3>2 DEF FirstQueued
    <3> QED BY <3>3 DEF s
  <2> DEFINE n == FirstQueued
  <2>3. n \in Nat \ {0} /\ n <= Len(InHandles) + 1 /\ PicturesFrom(deint, InHandles, n)
    BY <1>1, <2>2
  <2>4. CASE IsPicture(hal.task.item)
    <3>1. hal.task.buf \in Buffers /\ deint' = Append(deint, hal.task.buf)
      BY <1>1, <1>9, <2>4, TaskFacts
    <3> HIDE DEF n
    <3>2. PicturesFrom(Append(deint, hal.task.buf), Append(InHandles, hal.task), n)
      BY <1>1, <1>9, <2>3, <2>4, <3>1, PickAppended
    <3>3. deint' \in Seq(Buffers)
      BY <1>1, <3>1
    <3> QED BY <2>1, <3>1, <3>2, <3>3 DEF DeintInv, n
  <2>5. CASE ~IsPicture(hal.task.item)
    <3> HIDE DEF n
    <3>1. PicturesFrom(deint, Append(InHandles, hal.task), n)
      BY <1>1, <1>9, <2>3, <2>5, SignalAppended
    <3> QED BY <1>1, <1>9, <2>1, <2>5, <3>1 DEF DeintInv, n
  <2> QED BY <2>4, <2>5
<1>10. CASE HalPut
  BY <1>9, <1>10 DEF HalPut, Base, ThreadsInv
<1>11. CASE HalPutEos
  <2>1. CASE HasHnd(vtasks, "TASK_IDLE")
    <3>1. ~IsPicture(hal.task.item) /\ hal.task \in StreamTasks /\ UNCHANGED <<deint, vproc>>
      BY <1>11 DEF HalPutEos, Base, ThreadsInv, IsPicture
    <3> QED BY <1>9, <1>11, <2>1, <3>1 DEF HalPutEos
  <2>2. CASE ~HasHnd(vtasks, "TASK_IDLE")
    BY <1>4, <1>11, <2>2 DEF HalPutEos
  <2> QED BY <2>1, <2>2
<1>12. \/ UNCHANGED <<vtasks, deint, vproc>> \/ ParserResetVproc \/ HalStart \/ HalSignal
       \/ VprocTake \/ VprocReset \/ VprocWait \/ VprocSignal \/ VprocPicture
       \/ VprocGetBuffer \/ VprocPut \/ VprocFinish \/ HalPut \/ HalPutEos
  BY DEF Next, vars, Parser, Hal, Vproc, vprocVars, ParserLook, ParserGet, ParserSignal,
         ParserReset, ParserResetDone, HalTake, HalPutDirect, HalShown, HalReset, GetFrame,
         PutFrame, ResetStart, ResetReturn
<1> QED BY <1>4, <1>5, <1>6, <1>7, <1>8, <1>10, <1>11, <1>12

(* SlotOfTask: the slot the vproc thread takes from the queue is the slot  *)
(* of its task.                                                            *)
THEOREM SlotSafe == Spec => []SlotOfTask
<1>1. Init => Base /\ DeintInv
  BY Base_Init, DeintInv_Init
<1>2. Base /\ DeintInv /\ [Next]_vars => (Base /\ DeintInv)'
  BY NextBase, NextDeintInv
<1>3. Base /\ DeintInv => SlotOfTask
  <2> SUFFICES ASSUME Base, DeintInv, vproc.pc = "task", IsPicture(VTask.item)
               PROVE  deint # <<>> /\ Head(deint) = VTask.buf
    BY DEF SlotOfTask
  <2>1. InHandles \in Seq(StreamTasks) /\ InHandles # <<>> /\ VTask = InHandles[1]
    BY HandlesFacts DEF Base, Working
  <2>2. deint \in Seq(Buffers) /\ PicturesFrom(deint, InHandles, 1)
    BY DEF DeintInv, FirstQueued
  <2>3. 1 <= Len(InHandles)
    <3> DEFINE s == InHandles
    <3>1. s \in Seq(StreamTasks) /\ s # <<>>
      BY <2>1
    <3> HIDE DEF s
    <3>2. 1 <= Len(s)
      BY <3>1
    <3> QED BY <3>2 DEF s
  <2> QED BY <2>1, <2>2, <2>3, PickTaken
<1> QED BY <1>1, <1>2, <1>3, PTL DEF Spec

-----------------------------------------------------------------------------
(* Who holds the buffers. *)

BufOrNone == Buffers \cup {None}

(* The buffers in a sequence, and that none is in it twice. *)
Real(s) == {s[i] : i \in 1 .. Len(s)} \ {None}

Distinct(s) ==
    \A i, j \in 1 .. Len(s) : s[i] = s[j] /\ s[i] # None => i = j

(* A buffer is added. *)
LEMMA RealAppend ==
    ASSUME NEW s \in Seq(BufOrNone), NEW x \in BufOrNone
    PROVE  /\ Append(s, x) \in Seq(BufOrNone)
           /\ Real(Append(s, x)) = Real(s) \cup ({x} \ {None})
           /\ Distinct(s) /\ x \notin Real(s) => Distinct(Append(s, x))
<1> DEFINE r == Append(s, x)
<1>1. /\ r \in Seq(BufOrNone) /\ Len(s) \in Nat
      /\ Len(r) = Len(s) + 1 /\ r[Len(s) + 1] = x
      /\ \A i \in 1 .. Len(s) : r[i] = s[i]
  OBVIOUS
<1> HIDE DEF r
<1>2. \A i \in 1 .. Len(r) : i \in 1 .. Len(s) \/ i = Len(s) + 1
  BY <1>1
<1>3. /\ \A i \in 1 .. Len(s) : i \in 1 .. Len(r) /\ i # Len(s) + 1
      /\ Len(s) + 1 \in 1 .. Len(r)
  BY <1>1
<1>4. Real(r) = Real(s) \cup ({x} \ {None})
  BY <1>1, <1>2, <1>3 DEF Real
<1>5. ASSUME Distinct(s), x \notin Real(s)
      PROVE  Distinct(r)
  <2>1. x # None => \A i \in 1 .. Len(s) : s[i] # x
    BY <1>5 DEF Real
  <2> QED BY <1>1, <1>2, <1>5, <2>1 DEF Distinct
<1> QED BY <1>1, <1>4, <1>5 DEF r

(* The first one is taken. *)
LEMMA RealTail ==
    ASSUME NEW s \in Seq(BufOrNone), s # <<>>
    PROVE  /\ Tail(s) \in Seq(BufOrNone) /\ Head(s) \in BufOrNone
           /\ Head(s) # None => Head(s) \in Real(s)
           /\ Distinct(s) => /\ Real(Tail(s)) = Real(s) \ {Head(s)}
                             /\ Distinct(Tail(s))
<1> DEFINE r == Tail(s)
<1>1. /\ r \in Seq(BufOrNone) /\ Len(s) \in Nat /\ Len(s) >= 1
      /\ Len(r) = Len(s) - 1 /\ Head(s) = s[1] /\ s[1] \in BufOrNone
      /\ \A i \in 1 .. Len(s) - 1 : r[i] = s[i + 1]
  BY HeadTailProperties
<1> HIDE DEF r
<1>2. /\ \A i \in 1 .. Len(r) : r[i] = s[i + 1] /\ i + 1 \in 1 .. Len(s) /\ i + 1 # 1
      /\ \A i \in 1 .. Len(s) : i = 1 \/ (i - 1 \in 1 .. Len(r) /\ r[i - 1] = s[i])
      /\ 1 \in 1 .. Len(s)
      /\ \A i, j \in 1 .. Len(r) : i + 1 = j + 1 => i = j
  BY <1>1
<1>3. Head(s) # None => Head(s) \in Real(s)
  BY <1>1, <1>2 DEF Real
<1>4. ASSUME Distinct(s)
      PROVE  Real(r) = Real(s) \ {Head(s)} /\ Distinct(r)
  <2>1. \A i \in 1 .. Len(s) : s[i] = s[1] /\ s[i] # None => i = 1
    BY <1>2, <1>4 DEF Distinct
  <2>2. Real(r) \subseteq Real(s) \ {Head(s)}
    BY <1>1, <1>2, <2>1 DEF Real
  <2>3. Real(s) \ {Head(s)} \subseteq Real(r)
    BY <1>1, <1>2 DEF Real
  <2>4. Distinct(r)
    BY <1>2, <1>4 DEF Distinct
  <2> QED BY <2>2, <2>3, <2>4
<1> QED BY <1>1, <1>3, <1>4 DEF r

(* Places that hold at most two. *)
LEMMA RealShort ==
    ASSUME NEW x \in BufOrNone, NEW y \in BufOrNone
    PROVE  /\ Real(<<>>) = {} /\ Distinct(<<>>) /\ <<>> \in Seq(BufOrNone)
           /\ Real(<<x>>) = {x} \ {None} /\ Distinct(<<x>>) /\ <<x>> \in Seq(BufOrNone)
           /\ Real(<<x, y>>) = {x, y} \ {None} /\ <<x, y>> \in Seq(BufOrNone)
           /\ x # y => Distinct(<<x, y>>)
<1>1. Real(<<>>) = {} /\ Distinct(<<>>) /\ <<>> \in Seq(BufOrNone)
  BY DEF Real, Distinct
<1>2. Real(<<x>>) = {x} \ {None} /\ Distinct(<<x>>) /\ <<x>> \in Seq(BufOrNone)
  BY DEF Real, Distinct
<1>3. /\ Real(<<x, y>>) = {x, y} \ {None} /\ <<x, y>> \in Seq(BufOrNone)
      /\ x # y => Distinct(<<x, y>>)
  <2> DEFINE s == <<x, y>>
  <2>1. s \in Seq(BufOrNone) /\ Len(s) = 2 /\ s[1] = x /\ s[2] = y
    OBVIOUS
  <2> HIDE DEF s
  <2>2. /\ \A i \in 1 .. Len(s) : i = 1 \/ i = 2
        /\ 1 \in 1 .. Len(s) /\ 2 \in 1 .. Len(s)
    BY <2>1
  <2>3. Real(s) = {x, y} \ {None} /\ (x # y => Distinct(s))
    BY <2>1, <2>2 DEF Real, Distinct
  <2> QED BY <2>1, <2>3 DEF s
<1> QED BY <1>1, <1>2, <1>3

(* The buffers of tasks or frames. *)
LEMMA BufsFacts ==
    ASSUME NEW S, \A t \in S : t.buf \in BufOrNone, NEW s \in Seq(S)
    PROVE  /\ BufsOf(s) \in Seq(BufOrNone) /\ BufsOf(<<>>) = <<>>
           /\ \A t \in S : BufsOf(Append(s, t)) = Append(BufsOf(s), t.buf)
           /\ s # <<>> => /\ BufsOf(s) # <<>> /\ Head(BufsOf(s)) = Head(s).buf
                          /\ BufsOf(Tail(s)) = Tail(BufsOf(s))
<1>1. /\ BufsOf(s) = [i \in 1 .. Len(s) |-> s[i].buf] /\ Len(s) \in Nat
      /\ \A i \in 1 .. Len(s) : s[i] \in S
  BY DEF BufsOf
<1>2. BufsOf(s) \in Seq(BufOrNone) /\ Len(BufsOf(s)) = Len(s)
  BY <1>1
<1>3. BufsOf(<<>>) = <<>>
  BY DEF BufsOf
<1>4. ASSUME NEW t \in S
      PROVE  BufsOf(Append(s, t)) = Append(BufsOf(s), t.buf)
  <2> DEFINE r == Append(s, t)
  <2>1. /\ Len(r) = Len(s) + 1 /\ r \in Seq(S) /\ r[Len(s) + 1] = t
        /\ \A i \in 1 .. Len(s) : r[i] = s[i]
    OBVIOUS
  <2> HIDE DEF r
  <2>2. BufsOf(r) = [i \in 1 .. Len(s) + 1 |-> r[i].buf]
    BY <2>1 DEF BufsOf
  <2>3. Append(BufsOf(s), t.buf) =
           [i \in 1 .. Len(s) + 1 |-> IF i = Len(s) + 1 THEN t.buf ELSE BufsOf(s)[i]]
    BY <1>2
  <2>4. \A i \in 1 .. Len(s) + 1 :
           r[i].buf = IF i = Len(s) + 1 THEN t.buf ELSE BufsOf(s)[i]
    BY <1>1, <2>1
  <2> QED BY <2>2, <2>3, <2>4 DEF r
<1>5. ASSUME s # <<>>
      PROVE  /\ BufsOf(s) # <<>> /\ Head(BufsOf(s)) = Head(s).buf
             /\ BufsOf(Tail(s)) = Tail(BufsOf(s))
  <2> DEFINE r == Tail(s)
             b == BufsOf(s)
  <2>1. /\ r \in Seq(S) /\ Len(r) = Len(s) - 1 /\ Len(s) >= 1 /\ Head(s) = s[1]
        /\ \A i \in 1 .. Len(s) - 1 : r[i] = s[i + 1]
    BY <1>5, HeadTailProperties
  <2>2. b \in Seq(BufOrNone) /\ Len(b) = Len(s) /\ \A i \in 1 .. Len(s) : b[i] = s[i].buf
    BY <1>1, <1>2
  <2> HIDE DEF r, b
  <2>3. b # <<>> /\ Head(b) = b[1] /\ 1 \in 1 .. Len(s)
    BY <1>1, <2>1, <2>2
  <2>4. Tail(b) = [i \in 1 .. Len(s) - 1 |-> b[i + 1]]
    <3> DEFINE t == Tail(b)
    <3>1. /\ t \in Seq(BufOrNone) /\ Len(t) = Len(s) - 1
          /\ \A i \in 1 .. Len(s) - 1 : t[i] = b[i + 1]
      BY <2>2, <2>3, HeadTailProperties
    <3> HIDE DEF t
    <3>2. t = [i \in 1 .. Len(s) - 1 |-> b[i + 1]]
      BY <3>1
    <3> QED BY <3>2 DEF t
  <2>5. BufsOf(r) = [i \in 1 .. Len(s) - 1 |-> r[i].buf]
    BY <2>1 DEF BufsOf
  <2>6. \A i \in 1 .. Len(s) - 1 : r[i].buf = b[i + 1]
    <3>1. \A i \in 1 .. Len(s) - 1 : i + 1 \in 1 .. Len(s)
      BY <1>1
    <3> QED BY <2>1, <2>2, <3>1
  <2> QED BY <2>1, <2>2, <2>3, <2>4, <2>5, <2>6 DEF r, b
<1> QED BY <1>2, <1>3, <1>4, <1>5

Places == {"tasks", "hal", "handles", "prev", "dst", "outs", "frames", "user"}

(* Every buffer of W is in one place of H, once, and no other buffer is.   *)
HeldBy(H, W) ==
    /\ \A p \in Places : Distinct(H[p])
    /\ \A p, q \in Places : p # q => Real(H[p]) \cap Real(H[q]) = {}
    /\ W = UNION {Real(H[p]) : p \in Places}

(* Two places change, and what is new in them was held nowhere else.       *)
LEMMA HeldByChanged ==
    ASSUME NEW H, NEW G, NEW W, NEW p \in Places, NEW q \in Places, p # q,
           HeldBy(H, W),
           \A r \in Places \ {p, q} : G[r] = H[r],
           Distinct(G[p]), Distinct(G[q]), Real(G[p]) \cap Real(G[q]) = {},
           \A x \in Real(G[p]) \cup Real(G[q]) :
              x \in W => x \in Real(H[p]) \cup Real(H[q])
    PROVE  HeldBy(G, (W \ (Real(H[p]) \cup Real(H[q]))) \cup Real(G[p]) \cup Real(G[q]))
<1>1. /\ \A r \in Places : Distinct(H[r])
      /\ \A r, t \in Places : r # t => Real(H[r]) \cap Real(H[t]) = {}
      /\ \A x : x \in W <=> \E r \in Places : x \in Real(H[r])
  BY DEF HeldBy
<1>2. \A r \in Places : Distinct(G[r])
  BY <1>1
<1>3. ASSUME NEW r \in Places \ {p, q}
      PROVE  Real(G[r]) \cap (Real(G[p]) \cup Real(G[q])) = {}
  <2>1. \A x \in Real(G[r]) : x \in W /\ x \notin Real(H[p]) /\ x \notin Real(H[q])
    BY <1>1
  <2> QED BY <2>1
<1>4. \A r, t \in Places : r # t => Real(G[r]) \cap Real(G[t]) = {}
  <2> SUFFICES ASSUME NEW r \in Places, NEW t \in Places, r # t
               PROVE  Real(G[r]) \cap Real(G[t]) = {}
    OBVIOUS
  <2>1. CASE r \notin {p, q} /\ t \notin {p, q}
    BY <1>1, <2>1
  <2>2. CASE r \notin {p, q} /\ t \in {p, q}
    BY <1>3, <2>2
  <2>3. CASE r \in {p, q} /\ t \notin {p, q}
    BY <1>3, <2>3
  <2>4. CASE r \in {p, q} /\ t \in {p, q}
    BY <2>4
  <2> QED BY <2>1, <2>2, <2>3, <2>4
<1> DEFINE V == (W \ (Real(H[p]) \cup Real(H[q]))) \cup Real(G[p]) \cup Real(G[q])
<1>5. \A x \in V : \E r \in Places : x \in Real(G[r])
  <2> SUFFICES ASSUME NEW x \in V
               PROVE  \E r \in Places : x \in Real(G[r])
    OBVIOUS
  <2>1. CASE x \in W /\ x \notin Real(H[p]) /\ x \notin Real(H[q])
    <3>1. PICK r \in Places : x \in Real(H[r])
      BY <1>1, <2>1
    <3>2. r \notin {p, q}
      BY <2>1, <3>1
    <3> QED BY <3>1, <3>2
  <2>2. CASE x \in Real(G[p]) \cup Real(G[q])
    BY <2>2
  <2> QED BY <2>1, <2>2
<1>6. ASSUME NEW r \in Places, NEW x \in Real(G[r])
      PROVE  x \in V
  <2>1. CASE r \in {p, q}
    BY <2>1
  <2>2. CASE r \notin {p, q}
    <3>1. x \in Real(H[r])
      BY <2>2
    <3>2. x \in W /\ x \notin Real(H[p]) /\ x \notin Real(H[q])
      BY <1>1, <2>2, <3>1
    <3> QED BY <3>2
  <2> QED BY <2>1, <2>2
<1>7. V = UNION {Real(G[r]) : r \in Places}
  BY <1>5, <1>6
<1> QED BY <1>2, <1>4, <1>7 DEF HeldBy

(* The buffers whose reference is taken. *)
Taken == {b \in Buffers : "frame" \in uses[b]}

HeldInv == HeldBy(Holders, Taken)

(* What is at each place is a sequence of buffers, or of None. *)
LEMMA HoldersFacts ==
    ASSUME Base
    PROVE  /\ DOMAIN Holders = Places
           /\ Holders["tasks"] = BufsOf(tasks)
           /\ Holders["hal"] = IF hal.pc = "put" THEN <<hal.task.buf>> ELSE <<>>
           /\ Holders["handles"] = BufsOf(InHandles)
           /\ Holders["prev"] = <<vproc.prev.buf>>
           /\ Holders["dst"] = vproc.dst
           /\ Holders["outs"] = BufsOf(vproc.outs)
           /\ Holders["frames"] = BufsOf(mFrames)
           /\ Holders["user"] = IF user.held # None THEN <<user.held.buf>> ELSE <<>>
           /\ \A p \in Places : Holders[p] \in Seq(BufOrNone)
<1>1. /\ DOMAIN Holders = Places
      /\ Holders["tasks"] = BufsOf(tasks)
      /\ Holders["hal"] = IF hal.pc = "put" THEN <<hal.task.buf>> ELSE <<>>
      /\ Holders["handles"] = BufsOf(InHandles)
      /\ Holders["prev"] = <<vproc.prev.buf>>
      /\ Holders["dst"] = vproc.dst
      /\ Holders["outs"] = BufsOf(vproc.outs)
      /\ Holders["frames"] = BufsOf(mFrames)
      /\ Holders["user"] = IF user.held # None THEN <<user.held.buf>> ELSE <<>>
  BY DEF Holders, Places
<1>2. /\ \A t \in StreamTasks : t.buf \in BufOrNone
      /\ \A t \in Frames : t.buf \in BufOrNone
      /\ NoTask.buf \in BufOrNone
  BY TaskFacts DEF Base, TypeInv, Frames, NoTask, BufOrNone
<1>3. BufsOf(tasks) \in Seq(BufOrNone) /\ BufsOf(InHandles) \in Seq(BufOrNone)
  BY <1>2, BufsFacts, HandlesFacts DEF Base, TypeInv
<1>4. BufsOf(vproc.outs) \in Seq(BufOrNone) /\ BufsOf(mFrames) \in Seq(BufOrNone)
  BY <1>2, BufsFacts DEF Base, TypeInv, VprocType
<1>5. hal.task.buf \in BufOrNone /\ vproc.prev.buf \in BufOrNone
      /\ (user.held # None => user.held.buf \in BufOrNone)
  BY <1>2 DEF Base, TypeInv, HalType, VprocType
<1>6. vproc.dst \in Seq(BufOrNone)
  BY DEF Base, TypeInv, VprocType, BufOrNone
<1>7. /\ <<>> \in Seq(BufOrNone) /\ <<hal.task.buf>> \in Seq(BufOrNone)
      /\ <<vproc.prev.buf>> \in Seq(BufOrNone)
      /\ user.held # None => <<user.held.buf>> \in Seq(BufOrNone)
  BY <1>5, RealShort
<1>8. ASSUME NEW p \in Places PROVE Holders[p] \in Seq(BufOrNone)
  <2>1. \/ p = "tasks" \/ p = "hal" \/ p = "handles" \/ p = "prev"
        \/ p = "dst" \/ p = "outs" \/ p = "frames" \/ p = "user"
    BY DEF Places
  <2> QED BY <1>1, <1>3, <1>4, <1>6, <1>7, <2>1
<1> QED BY <1>1, <1>8

(* The buffers are held, one each: Cardinality counts what HeldBy says.    *)
LEMMA HeldCounted ==
    ASSUME Base, HeldInv
    PROVE  HeldOnce
<1> SUFFICES ASSUME NEW b \in Buffers
             PROVE  Cardinality(ReferencesTo(b)) = IF "frame" \in uses[b] THEN 1 ELSE 0
  BY DEF HeldOnce
<1>1. DOMAIN Holders = Places /\ \A p \in Places : DOMAIN Holders[p] = 1 .. Len(Holders[p])
  BY HoldersFacts
<1>2. \A r : r \in ReferencesTo(b) <=>
             \E p \in Places : \E i \in 1 .. Len(Holders[p]) :
                r = <<p, i>> /\ Holders[p][i] = b
  BY <1>1 DEF ReferencesTo
<1>3. /\ \A p \in Places : Distinct(Holders[p])
      /\ \A p, q \in Places : p # q => Real(Holders[p]) \cap Real(Holders[q]) = {}
      /\ \A x : x \in Taken <=> \E p \in Places : x \in Real(Holders[p])
  BY DEF HeldInv, HeldBy
<1>4. b # None
  BY VprocAssumption DEF Buffers
<1>5. \A p \in Places : b \in Real(Holders[p]) <=>
                        \E i \in 1 .. Len(Holders[p]) : Holders[p][i] = b
  BY <1>4 DEF Real
<1>6. CASE "frame" \in uses[b]
  <2>1. PICK p \in Places : b \in Real(Holders[p])
    BY <1>3, <1>6 DEF Taken
  <2>2. PICK i \in 1 .. Len(Holders[p]) : Holders[p][i] = b
    BY <1>5, <2>1
  <2>3. ASSUME NEW q \in Places, NEW j \in 1 .. Len(Holders[q]), Holders[q][j] = b
        PROVE  q = p /\ j = i
    <3>1. q = p
      BY <1>3, <1>5, <2>1, <2>3
    <3>2. j = i
      BY <1>3, <1>4, <2>2, <2>3, <3>1 DEF Distinct
    <3> QED BY <3>1, <3>2
  <2>4. ReferencesTo(b) = {<<p, i>>}
    BY <1>2, <2>2, <2>3
  <2> QED BY <1>6, <2>4, FS_Singleton
<1>7. CASE "frame" \notin uses[b]
  <2>1. \A p \in Places : b \notin Real(Holders[p])
    BY <1>3, <1>7 DEF Taken
  <2>2. ReferencesTo(b) = {}
    BY <1>2, <1>5, <2>1
  <2> QED BY <1>7, <2>2, FS_EmptySet
<1> QED BY <1>6, <1>7

(* What is appended is of the type of the whole. *)
LEMMA AppendedIn ==
    ASSUME NEW S, NEW s \in Seq(S), NEW t, Append(s, t) \in Seq(S)
    PROVE  t \in S
<1> DEFINE r == Append(s, t)
<1>1. Len(s) \in Nat /\ Len(r) = Len(s) + 1 /\ r[Len(s) + 1] = t
  BY AppendProperties
<1>2. r \in Seq(S)
  OBVIOUS
<1> HIDE DEF r
<1> QED BY <1>1, <1>2

(* HeldBy asks for no more than what is at the places. *)
LEMMA HeldBySame ==
    ASSUME NEW H, NEW G, NEW W, HeldBy(H, W), \A p \in Places : G[p] = H[p]
    PROVE  HeldBy(G, W)
<1>1. \A p \in Places : Real(G[p]) = Real(H[p]) /\ (Distinct(H[p]) => Distinct(G[p]))
  OBVIOUS
<1>2. UNION {Real(G[p]) : p \in Places} = UNION {Real(H[p]) : p \in Places}
  BY <1>1
<1> QED BY <1>1, <1>2 DEF HeldBy

(* A buffer nobody holds comes to a place, or None does. *)
LEMMA HeldByAdded ==
    ASSUME NEW H, NEW G, NEW W, NEW V, NEW p \in Places, NEW x \in BufOrNone,
           HeldBy(H, W), H[p] \in Seq(BufOrNone),
           G[p] = Append(H[p], x), \A r \in Places \ {p} : G[r] = H[r],
           x \notin W, V = W \cup ({x} \ {None})
    PROVE  HeldBy(G, V)
<1>1. /\ \A r \in Places : Distinct(H[r]) /\ Real(H[r]) \subseteq W
      /\ \A r, t \in Places : r # t => Real(H[r]) \cap Real(H[t]) = {}
  BY DEF HeldBy
<1>2. PICK q \in Places : q # p
  BY DEF Places
<1>3. Real(G[p]) = Real(H[p]) \cup ({x} \ {None}) /\ Distinct(G[p])
  <2> DEFINE s == H[p]
  <2>1. s \in Seq(BufOrNone) /\ Distinct(s) /\ x \notin Real(s)
    BY <1>1
  <2> HIDE DEF s
  <2>2. Real(Append(s, x)) = Real(s) \cup ({x} \ {None}) /\ Distinct(Append(s, x))
    BY <2>1, RealAppend
  <2> QED BY <2>2 DEF s
<1>4. G[q] = H[q] /\ Distinct(G[q]) /\ Real(G[p]) \cap Real(G[q]) = {}
  BY <1>1, <1>2, <1>3
<1>5. HeldBy(G, (W \ (Real(H[p]) \cup Real(H[q]))) \cup Real(G[p]) \cup Real(G[q]))
  <2>1. \A y \in Real(G[p]) \cup Real(G[q]) : y \in W => y \in Real(H[p]) \cup Real(H[q])
    BY <1>3, <1>4
  <2>2. \A r \in Places \ {p, q} : G[r] = H[r]
    OBVIOUS
  <2> QED BY <1>2, <1>3, <1>4, <2>1, <2>2, HeldByChanged
<1>6. V = (W \ (Real(H[p]) \cup Real(H[q]))) \cup Real(G[p]) \cup Real(G[q])
  BY <1>1, <1>2, <1>3, <1>4
<1> QED BY <1>5, <1>6

(* The first buffer of a place goes to the end of another. *)
LEMMA HeldByMoved ==
    ASSUME NEW H, NEW G, NEW W, NEW p \in Places, NEW q \in Places, p # q,
           HeldBy(H, W), H[p] \in Seq(BufOrNone), H[p] # <<>>, H[q] \in Seq(BufOrNone),
           G[p] = Tail(H[p]), G[q] = Append(H[q], Head(H[p])),
           \A r \in Places \ {p, q} : G[r] = H[r]
    PROVE  HeldBy(G, W)
<1> DEFINE x == Head(H[p])
<1>1. /\ \A r \in Places : Distinct(H[r]) /\ Real(H[r]) \subseteq W
      /\ \A r, t \in Places : r # t => Real(H[r]) \cap Real(H[t]) = {}
      /\ None \notin W
  <2>1. \A r \in Places : None \notin Real(H[r])
    BY DEF Real
  <2> QED BY <2>1 DEF HeldBy
<1>2. /\ Real(G[p]) = Real(H[p]) \ {x} /\ Distinct(G[p])
      /\ x \in BufOrNone /\ (x # None => x \in Real(H[p]))
  <2> DEFINE s == H[p]
  <2>1. s \in Seq(BufOrNone) /\ Distinct(s) /\ s # <<>>
    BY <1>1
  <2> HIDE DEF s, x
  <2>2. /\ Real(Tail(s)) = Real(s) \ {Head(s)} /\ Distinct(Tail(s))
        /\ Head(s) \in BufOrNone /\ (Head(s) # None => Head(s) \in Real(s))
    BY <2>1, RealTail
  <2> QED BY <2>2 DEF s, x
<1> HIDE DEF x
<1>3. x \notin Real(H[q])
  BY <1>1, <1>2 DEF Real
<1>4. Real(G[q]) = Real(H[q]) \cup ({x} \ {None}) /\ Distinct(G[q])
  <2> DEFINE s == H[q]
  <2>1. s \in Seq(BufOrNone) /\ Distinct(s) /\ x \notin Real(s)
    BY <1>1, <1>3
  <2> HIDE DEF s
  <2>2. Real(Append(s, x)) = Real(s) \cup ({x} \ {None}) /\ Distinct(Append(s, x))
    BY <1>2, <2>1, RealAppend
  <2> QED BY <2>2 DEF s, x
<1>5. Real(G[p]) \cap Real(G[q]) = {} /\ Real(G[p]) \cup Real(G[q]) = Real(H[p]) \cup Real(H[q])
  <2>1. CASE x = None
    <3>1. Real(G[p]) = Real(H[p]) /\ Real(G[q]) = Real(H[q])
      BY <1>2, <1>4, <2>1 DEF Real
    <3> QED BY <1>1, <3>1
  <2>2. CASE x # None
    <3>1. Real(G[p]) = Real(H[p]) \ {x} /\ Real(G[q]) = Real(H[q]) \cup {x} /\ x \in Real(H[p])
      BY <1>2, <1>4, <2>2
    <3> QED BY <1>1, <3>1
  <2> QED BY <2>1, <2>2
<1>6. HeldBy(G, (W \ (Real(H[p]) \cup Real(H[q]))) \cup Real(G[p]) \cup Real(G[q]))
  BY <1>2, <1>4, <1>5, HeldByChanged
<1>7. W = (W \ (Real(H[p]) \cup Real(H[q]))) \cup Real(G[p]) \cup Real(G[q])
  BY <1>1, <1>5
<1> QED BY <1>6, <1>7

(* The buffers of a place are given back, but for some it keeps. *)
LEMMA HeldByDropped ==
    ASSUME NEW H, NEW G, NEW W, NEW V, NEW p \in Places,
           HeldBy(H, W), \A r \in Places \ {p} : G[r] = H[r],
           Distinct(G[p]), Real(G[p]) \subseteq Real(H[p]),
           V = W \ (Real(H[p]) \ Real(G[p]))
    PROVE  HeldBy(G, V)
<1>1. /\ \A r \in Places : Distinct(H[r]) /\ Real(H[r]) \subseteq W
      /\ \A r, t \in Places : r # t => Real(H[r]) \cap Real(H[t]) = {}
  BY DEF HeldBy
<1>2. PICK q \in Places : q # p
  BY DEF Places
<1>3. G[q] = H[q] /\ Distinct(G[q]) /\ Real(G[p]) \cap Real(G[q]) = {}
  BY <1>1, <1>2
<1>4. HeldBy(G, (W \ (Real(H[p]) \cup Real(H[q]))) \cup Real(G[p]) \cup Real(G[q]))
  BY <1>2, <1>3, HeldByChanged
<1>5. V = (W \ (Real(H[p]) \cup Real(H[q]))) \cup Real(G[p]) \cup Real(G[q])
  BY <1>1, <1>2, <1>3
<1> QED BY <1>4, <1>5

(* At first nobody holds a buffer. *)
LEMMA HeldInv_Init == Init => HeldInv
<1> SUFFICES ASSUME Init PROVE HeldInv
  OBVIOUS
<1>1. /\ tasks = <<>> /\ hal.pc = "idle" /\ vproc.prev.buf = None /\ vproc.dst = <<>>
      /\ vproc.outs = <<>> /\ mFrames = <<>> /\ user.held = None
      /\ vtasks.list["TASK_PROCESSING"] = <<>>
  BY GroupInitFacts, VprocAssumption DEF Init, NoTask
<1>2. InHandles = <<>> /\ BufsOf(<<>>) = <<>>
  BY <1>1 DEF InHandles, BufsOf
<1>3. \A p \in Places : Holders[p] = IF p = "prev" THEN <<None>> ELSE <<>>
  BY <1>1, <1>2 DEF Places, Holders
<1>4. \A p \in Places : Real(Holders[p]) = {} /\ Distinct(Holders[p])
  <2>1. Real(<<None>>) = {} /\ Distinct(<<None>>) /\ Real(<<>>) = {} /\ Distinct(<<>>)
    BY RealShort DEF BufOrNone
  <2> QED BY <1>3, <2>1
<1>5. Taken = {}
  BY DEF Init, Taken
<1> QED BY <1>4, <1>5 DEF HeldInv, HeldBy

(* The references move with the frames. *)
LEMMA NextHeldInv ==
    ASSUME Base, HeldInv, [Next]_vars
    PROVE  HeldInv'
<1> DEFINE H == Holders
           G == Holders'
           Gave == Taken'
<1>1. /\ H["tasks"] = BufsOf(tasks)
      /\ H["hal"] = IF hal.pc = "put" THEN <<hal.task.buf>> ELSE <<>>
      /\ H["handles"] = BufsOf(InHandles)
      /\ H["prev"] = <<vproc.prev.buf>>
      /\ H["dst"] = vproc.dst
      /\ H["outs"] = BufsOf(vproc.outs)
      /\ H["frames"] = BufsOf(mFrames)
      /\ H["user"] = IF user.held # None THEN <<user.held.buf>> ELSE <<>>
      /\ \A p \in Places : H[p] \in Seq(BufOrNone)
      /\ HeldBy(H, Taken)
  BY HoldersFacts DEF HeldInv
<1>2. /\ G["tasks"] = BufsOf(tasks')
      /\ G["hal"] = IF hal'.pc = "put" THEN <<hal'.task.buf>> ELSE <<>>
      /\ G["handles"] = BufsOf(InHandles')
      /\ G["prev"] = <<vproc'.prev.buf>>
      /\ G["dst"] = vproc'.dst
      /\ G["outs"] = BufsOf(vproc'.outs)
      /\ G["frames"] = BufsOf(mFrames')
      /\ G["user"] = IF user'.held # None THEN <<user'.held.buf>> ELSE <<>>
      /\ HeldInv' <=> HeldBy(G, Gave)
  BY DEF Holders, HeldInv, BufsOf, HeldBy, Real, Distinct
<1>3. /\ uses \in [Buffers -> SUBSET Uses]
      /\ tasks \in Seq(StreamTasks)
      /\ hal \in [pc : HalPcs, task : StreamTasks \cup {NoTask}]
      /\ vproc \in VprocType /\ vproc \in [pc : VprocPcs, hnd : Hnds \cup {None},
             prev : StreamTasks \cup {NoTask}, dst : Seq(Buffers), outs : Seq(Frames)]
      /\ mFrames \in Seq(Frames)
      /\ user \in [call : {"idle", "reset"}, resets : Nat, held : Frames \cup {None}]
      /\ session \in Sessions /\ TypeInv /\ HandlesInv
      /\ InHandles \in Seq(StreamTasks)
  BY HandlesFacts DEF Base, TypeInv, HalType, VprocType
<1>4. /\ Taken = {b \in Buffers : "frame" \in uses[b]}
      /\ Gave = {b \in Buffers : "frame" \in uses'[b]}
  BY DEF Taken
<1>5. /\ \A t \in StreamTasks : t.buf \in BufOrNone
      /\ \A t \in Frames : t.buf \in BufOrNone
      /\ NoTask.buf = None /\ None \in BufOrNone /\ None \notin Buffers
      /\ None \notin Taken
  BY <1>3, TaskFacts, VprocAssumption DEF Frames, NoTask, BufOrNone, Buffers, Taken
<1> HIDE DEF H, G, Gave
<1>6. \A p : p \in Places <=> \/ p = "tasks" \/ p = "hal" \/ p = "handles" \/ p = "prev"
                              \/ p = "dst" \/ p = "outs" \/ p = "frames" \/ p = "user"
  BY DEF Places
<1>7. /\ tasks' = tasks => G["tasks"] = H["tasks"]
      /\ hal' = hal \/ (hal.pc # "put" /\ hal'.pc # "put") => G["hal"] = H["hal"]
      /\ vtasks' = vtasks => G["handles"] = H["handles"]
      /\ vproc'.prev = vproc.prev => G["prev"] = H["prev"]
      /\ vproc'.dst = vproc.dst => G["dst"] = H["dst"]
      /\ vproc'.outs = vproc.outs => G["outs"] = H["outs"]
      /\ mFrames' = mFrames => G["frames"] = H["frames"]
      /\ user'.held = user.held => G["user"] = H["user"]
  <2>1. vtasks' = vtasks => InHandles' = InHandles
    BY DEF InHandles
  <2>2. /\ hal' = hal => G["hal"] = H["hal"]
        /\ hal.pc # "put" /\ hal'.pc # "put" => G["hal"] = H["hal"]
    BY <1>1, <1>2
  <2>3. user'.held = user.held => G["user"] = H["user"]
    BY <1>1, <1>2
  <2> QED BY <1>1, <1>2, <2>1, <2>2, <2>3
<1>H. HeldBy(H, Taken) /\ (HeldBy(G, Gave) => HeldInv')
  BY <1>1, <1>2
\* Nothing about frames changes.
<1>8. ASSUME UNCHANGED <<tasks, vtasks, mFrames>>, user'.held = user.held,
             hal' = hal \/ (hal.pc # "put" /\ hal'.pc # "put"),
             vproc'.prev = vproc.prev, vproc'.dst = vproc.dst, vproc'.outs = vproc.outs,
             \A b \in Buffers : "frame" \in uses'[b] <=> "frame" \in uses[b]
      PROVE  HeldInv'
  <2>1. Gave = Taken
    BY <1>4, <1>8
  <2>2. \A p \in Places : G[p] = H[p]
    BY <1>6, <1>7, <1>8
  <2> QED BY <1>1, <1>2, <2>1, <2>2, HeldBySame
<1>9. CASE \/ ParserLook \/ ParserReset \/ ParserResetVproc \/ ParserResetDone
           \/ HalStart \/ HalSignal \/ HalReset \/ VprocTake \/ VprocWait
           \/ VprocPicture \/ ResetStart \/ UNCHANGED vars
  <2>1. UNCHANGED <<tasks, vtasks, mFrames>>
    BY <1>9 DEF ParserLook, ParserReset, ParserResetVproc, ParserResetDone, HalStart,
       HalSignal, HalReset, VprocTake, VprocWait, VprocPicture, ResetStart, vars, halVars, vprocVars,
       outVars
  <2>2. /\ hal' = hal \/ (hal.pc # "put" /\ hal'.pc # "put")
        /\ vproc'.prev = vproc.prev /\ vproc'.dst = vproc.dst /\ vproc'.outs = vproc.outs
    BY <1>3, <1>9 DEF ParserLook, ParserReset, ParserResetVproc, ParserResetDone, HalStart,
       HalSignal, HalReset, VprocTake, VprocWait, VprocPicture, ResetStart, vars, halVars, vprocVars
  <2>3. \A b \in Buffers : "frame" \in uses'[b] <=> "frame" \in uses[b]
    BY <1>3, <1>9 DEF ParserLook, ParserReset, ParserResetVproc, ParserResetDone, HalStart,
       HalSignal, HalReset, VprocTake, VprocWait, VprocPicture, ResetStart, vars, DropReference
  <2>4. user'.held = user.held
    BY <1>3, <1>9 DEF ParserLook, ParserReset, ParserResetVproc, ParserResetDone, HalStart,
       HalSignal, HalReset, VprocTake, VprocWait, VprocPicture, ResetStart, vars
  <2> QED BY <1>8, <2>1, <2>2, <2>3, <2>4
<1>10. /\ tasks' \in Seq(StreamTasks) /\ mFrames' \in Seq(Frames)
       /\ uses' \in [Buffers -> SUBSET Uses]
  BY SessionKept, NextTypeInv DEF TypeInv
<1>11. CASE ParserGet
  <2>1. /\ UNCHANGED <<hal, vtasks, vproc, mFrames, user>>
    BY <1>11 DEF ParserGet, vprocVars, outVars
  <2>2. CASE Unused = {}
    <3>1. UNCHANGED <<uses, tasks>>
      BY <1>11, <2>2 DEF ParserGet
    <3> QED BY <1>8, <2>1, <3>1
  <2>3. CASE Unused # {}
    <3> DEFINE new == NextUnused
               t == [item |-> Item, buf |-> NextUnused, n |-> parser.next]
    <3>1. /\ uses' = [DropReference(uses) EXCEPT ![new] = {"frame", "codec", "display"}]
          /\ tasks' = Append(tasks, t)
      BY <1>11, <2>3 DEF ParserGet, SendTask
    <3>2. new \in Buffers /\ uses[new] = {} /\ new # None /\ new \in BufOrNone /\ new \notin Taken
      BY <1>4, <1>5, <2>3, UnusedFacts DEF BufOrNone
    <3>3. t.buf = new
      OBVIOUS
    <3> HIDE DEF new, t
    <3>4. t \in StreamTasks
      BY <1>3, <1>10, <3>1, AppendedIn
    <3>5. G["tasks"] = Append(H["tasks"], new)
      <4>1. tasks \in Seq(StreamTasks) /\ \A z \in StreamTasks : z.buf \in BufOrNone
        BY <1>3, <1>5
      <4>2. BufsOf(Append(tasks, t)) = Append(BufsOf(tasks), t.buf)
        BY <3>4, <4>1, BufsFacts
      <4> QED BY <1>1, <1>2, <3>1, <3>3, <4>2
    <3>6. \A r \in Places \ {"tasks"} : G[r] = H[r]
      BY <1>6, <1>7, <2>1
    <3>7. Gave = Taken \cup ({new} \ {None})
      BY <1>3, <1>4, <3>1, <3>2 DEF DropReference
    <3>8. "tasks" \in Places /\ H["tasks"] \in Seq(BufOrNone)
      BY <1>1, <1>6
    <3>9. new \in BufOrNone /\ new \notin Taken
      BY <3>2
    <3>10. HeldBy(G, Gave)
      BY ONLY <1>H, <3>5, <3>6, <3>7, <3>8, <3>9, HeldByAdded
    <3> QED BY <1>H, <3>10
  <2> QED BY <2>2, <2>3
<1>12. CASE ParserSignal
  <2> DEFINE t == [item |-> Item, buf |-> None, n |-> parser.next]
  <2>1. /\ UNCHANGED <<hal, vtasks, vproc, mFrames, user>> /\ uses' = DropReference(uses)
        /\ tasks' = Append(tasks, t)
    BY <1>12 DEF ParserSignal, SendTask, vprocVars, outVars
  <2>2. t.buf = None
    OBVIOUS
  <2> HIDE DEF t
  <2>3. t \in StreamTasks
    BY <1>3, <1>10, <2>1, AppendedIn
  <2>4. G["tasks"] = Append(H["tasks"], None)
    <3>1. tasks \in Seq(StreamTasks) /\ \A z \in StreamTasks : z.buf \in BufOrNone
      BY <1>3, <1>5
    <3>2. BufsOf(Append(tasks, t)) = Append(BufsOf(tasks), t.buf)
      BY <2>3, <3>1, BufsFacts
    <3> QED BY <1>1, <1>2, <2>1, <2>2, <3>2
  <2>5. \A r \in Places \ {"tasks"} : G[r] = H[r]
    BY <1>6, <1>7, <2>1
  <2>6. Gave = Taken \cup ({None} \ {None})
    BY <1>3, <1>4, <2>1 DEF DropReference
  <2>7. "tasks" \in Places /\ H["tasks"] \in Seq(BufOrNone)
    BY <1>1, <1>6
  <2>8. None \in BufOrNone /\ None \notin Taken
    BY <1>5
  <2> QED BY <1>H, <2>4, <2>5, <2>6, <2>7, <2>8, HeldByAdded
<1>13. CASE HalTake
  <2> DEFINE t == Head(tasks)
  <2>1. /\ UNCHANGED <<vtasks, mFrames, user, uses>> /\ tasks # <<>> /\ hal.pc = "idle"
        /\ hal'.pc = "put" /\ hal'.task = t
        /\ tasks' = IF IsPicture(t.item) THEN Tail(tasks) ELSE tasks
        /\ vproc'.prev = vproc.prev /\ vproc'.dst = vproc.dst /\ vproc'.outs = vproc.outs
    BY <1>3, <1>13 DEF HalTake, outVars, vprocVars
  <2>2. t \in StreamTasks
    BY <1>3, <2>1
  <2> HIDE DEF t
  <2>3. /\ H["hal"] = <<>> /\ G["hal"] = <<t.buf>> /\ Gave = Taken
        /\ "hal" \in Places /\ "tasks" \in Places
        /\ H["tasks"] \in Seq(BufOrNone) /\ H["hal"] \in Seq(BufOrNone)
    BY <1>1, <1>2, <1>4, <1>6, <2>1
  <2>4. G["hal"] = Append(H["hal"], t.buf)
    BY <2>3
  <2>5. CASE IsPicture(t.item)
    <3>1. /\ BufsOf(tasks) # <<>> /\ Head(BufsOf(tasks)) = t.buf
          /\ BufsOf(Tail(tasks)) = Tail(BufsOf(tasks))
      BY <1>3, <1>5, <2>1, BufsFacts DEF t
    <3>2. H["tasks"] # <<>> /\ t.buf = Head(H["tasks"]) /\ G["tasks"] = Tail(H["tasks"])
      BY <1>1, <1>2, <2>1, <2>5, <3>1
    <3>3. \A r \in Places \ {"tasks", "hal"} : G[r] = H[r]
      BY <1>6, <1>7, <2>1
    <3>4. G["hal"] = Append(H["hal"], Head(H["tasks"]))
      BY <2>4, <3>2
    <3> QED BY <1>H, <2>3, <3>2, <3>3, <3>4, HeldByMoved
  <2>6. CASE ~IsPicture(t.item)
    <3>1. t.buf = None
      BY <1>3, <2>2, <2>6, TaskFacts
    <3>2. \A r \in Places \ {"hal"} : G[r] = H[r]
      BY <1>6, <1>7, <2>1, <2>6
    <3>3. Gave = Taken \cup ({None} \ {None}) /\ G["hal"] = Append(H["hal"], None)
      BY <2>3, <2>4, <3>1
    <3>4. None \in BufOrNone /\ None \notin Taken
      BY <1>5
    <3> QED BY <1>H, <2>3, <3>2, <3>3, <3>4, HeldByAdded
  <2> QED BY <2>5, <2>6
\* The hal thread gives its task to a handle.
<1>14. ASSUME hal.pc = "put", GiveTask, HasHnd(vtasks, "TASK_IDLE"),
              hal' = [hal EXCEPT !.pc = "signal"], hal.task \in StreamTasks,
              UNCHANGED <<tasks, vproc, mFrames, user>>,
              \A b \in Buffers : "frame" \in uses'[b] <=> "frame" \in uses[b]
       PROVE  HeldInv'
  <2> DEFINE t == hal.task
  <2>1. InHandles' = Append(InHandles, t)
    BY <1>3, <1>14, GiveFacts
  <2>2. t \in StreamTasks /\ hal'.pc = "signal" /\ Gave = Taken
    BY <1>3, <1>4, <1>14
  <2>3. H["hal"] = <<t.buf>> /\ G["hal"] = <<>>
    BY <1>1, <1>2, <1>14, <2>2
  <2> HIDE DEF t
  <2>4. BufsOf(Append(InHandles, t)) = Append(BufsOf(InHandles), t.buf)
    <3>1. InHandles \in Seq(StreamTasks) /\ \A z \in StreamTasks : z.buf \in BufOrNone
      BY <1>3, <1>5
    <3> QED BY <2>2, <3>1, BufsFacts
  <2>5. /\ H["hal"] # <<>> /\ G["hal"] = Tail(H["hal"])
        /\ G["handles"] = Append(H["handles"], Head(H["hal"]))
    <3>1. H["hal"] # <<>> /\ G["hal"] = Tail(H["hal"]) /\ Head(H["hal"]) = t.buf
      BY <2>3
    <3>2. G["handles"] = Append(H["handles"], t.buf)
      BY <1>1, <1>2, <2>1, <2>4
    <3> QED BY <3>1, <3>2
  <2>6. \A r \in Places \ {"hal", "handles"} : G[r] = H[r]
    BY <1>6, <1>7, <1>14
  <2>7. /\ "hal" \in Places /\ "handles" \in Places
        /\ H["hal"] \in Seq(BufOrNone) /\ H["handles"] \in Seq(BufOrNone)
    BY <1>1, <1>6
  <2>8. HeldBy(G, Taken)
    BY ONLY <1>H, <2>5, <2>6, <2>7, HeldByMoved
  <2> QED BY <1>H, <2>2, <2>8
<1>15. CASE HalPut
  <2>1. \A b \in Buffers : "frame" \in uses'[b] <=> "frame" \in uses[b]
    <3>1. CASE IsPicture(hal.task.item)
      <4>1. hal.task.buf \in Buffers
        BY <1>3, <1>15, <3>1, TaskFacts DEF Base, ThreadsInv, HalPut
      <4>2. uses' = [uses EXCEPT ![hal.task.buf] = uses[hal.task.buf] \cup {"deinterlace"}]
        BY <1>15, <3>1 DEF HalPut, Mark
      <4>3. \A b \in Buffers :
               uses'[b] = IF b = hal.task.buf THEN uses[b] \cup {"deinterlace"} ELSE uses[b]
        BY <1>3, <4>1, <4>2
      <4>4. "frame" # "deinterlace"
        OBVIOUS
      <4>5. ASSUME NEW b \in Buffers
            PROVE  "frame" \in uses'[b] <=> "frame" \in uses[b]
        <5>1. CASE b = hal.task.buf
          BY <4>3, <4>4, <5>1
        <5>2. CASE b # hal.task.buf
          BY <4>3, <5>2
        <5> QED BY <5>1, <5>2
      <4> QED BY <4>5
    <3>2. CASE ~IsPicture(hal.task.item)
      BY <1>15, <3>2 DEF HalPut
    <3> QED BY <3>1, <3>2
  <2>2. hal.task \in StreamTasks /\ hal.pc = "put"
    BY <1>15 DEF HalPut, Base, ThreadsInv
  <2> QED BY <1>14, <1>15, <2>1, <2>2 DEF HalPut, outVars
<1>16. CASE HalPutEos
  <2>1. hal.task \in StreamTasks /\ hal.pc = "put" /\ hal.task.item = "eos"
    BY <1>16 DEF HalPutEos, Base, ThreadsInv
  <2>2. CASE HasHnd(vtasks, "TASK_IDLE")
    BY <1>14, <1>16, <2>1, <2>2 DEF HalPutEos, outVars
  <2>3. CASE ~HasHnd(vtasks, "TASK_IDLE")
    <3>1. /\ UNCHANGED <<tasks, vtasks, vproc, mFrames, user, uses>> /\ hal'.pc = "signal"
          /\ hal.task.buf = None
      BY <1>3, <1>16, <2>1, <2>3, TaskFacts DEF HalPutEos, outVars, IsPicture
    <3>2. H["hal"] = <<None>> /\ G["hal"] = <<>> /\ Gave = Taken
      BY <1>1, <1>2, <1>4, <2>1, <3>1
    <3>3. /\ Distinct(G["hal"]) /\ Real(G["hal"]) \subseteq Real(H["hal"])
          /\ Gave = Taken \ (Real(H["hal"]) \ Real(G["hal"]))
      BY <1>5, <3>2, RealShort
    <3>4. \A r \in Places \ {"hal"} : G[r] = H[r]
      BY <1>6, <1>7, <3>1
    <3>5. "hal" \in Places
      BY <1>6
    <3>6. HeldBy(G, Gave)
      BY ONLY <1>H, <3>3, <3>4, <3>5, HeldByDropped
    <3> QED BY <1>H, <3>6
  <2> QED BY <2>2, <2>3
<1>17. CASE HalPutDirect
  <2> DEFINE f == FrameOut(hal.task, hal.task.buf, 2 * hal.task.n)
  <2>1. /\ UNCHANGED <<tasks, vtasks, vproc, user, uses>> /\ hal'.pc = "shown"
        /\ hal.pc = "put" /\ mFrames' = Append(mFrames, f)
    BY <1>3, <1>17 DEF HalPutDirect, Output, vprocVars
  <2>2. f.buf = hal.task.buf
    BY DEF FrameOut
  <2> HIDE DEF f
  <2>3. f \in Frames
    BY <1>3, <1>10, <2>1, AppendedIn
  <2>4. BufsOf(Append(mFrames, f)) = Append(BufsOf(mFrames), f.buf)
    <3>1. mFrames \in Seq(Frames) /\ \A z \in Frames : z.buf \in BufOrNone
      BY <1>3, <1>5
    <3> QED BY <2>3, <3>1, BufsFacts
  <2>5. H["hal"] = <<hal.task.buf>> /\ G["hal"] = <<>> /\ Gave = Taken
    BY <1>1, <1>2, <1>4, <2>1
  <2>6. /\ H["hal"] # <<>> /\ G["hal"] = Tail(H["hal"])
        /\ G["frames"] = Append(H["frames"], Head(H["hal"]))
    BY <1>1, <1>2, <2>1, <2>2, <2>4, <2>5
  <2>7. \A r \in Places \ {"hal", "frames"} : G[r] = H[r]
    BY <1>6, <1>7, <2>1
  <2>8. /\ "hal" \in Places /\ "frames" \in Places
        /\ H["hal"] \in Seq(BufOrNone) /\ H["frames"] \in Seq(BufOrNone)
    BY <1>1, <1>6
  <2>9. HeldBy(G, Taken)
    BY ONLY <1>H, <2>6, <2>7, <2>8, HeldByMoved
  <2> QED BY <1>H, <2>5, <2>9
<1>18. CASE HalShown
  <2>1. /\ UNCHANGED <<vtasks, vproc, mFrames, user>> /\ hal'.pc = "idle" /\ hal.pc = "shown"
        /\ tasks' = IF IsPicture(hal.task.item) THEN tasks ELSE Tail(tasks)
        /\ hal.task \in StreamTasks
    BY <1>18 DEF HalShown, vprocVars, outVars, Base, ThreadsInv
  <2>2. \A b \in Buffers : "frame" \in uses'[b] <=> "frame" \in uses[b]
    <3>1. uses' = Unmark(uses, hal.task.buf, "display")
      BY <1>18 DEF HalShown
    <3>2. \A b \in Buffers :
             uses'[b] = uses[b] \ (IF b = hal.task.buf THEN {"display"} ELSE {})
      <4>1. uses \in [Buffers -> SUBSET Uses]
        BY <1>3
      <4> QED BY <3>1, <4>1, UnmarkFacts
    <3> QED BY <3>2
  <2>3. CASE IsPicture(hal.task.item)
    BY <1>8, <2>1, <2>2, <2>3
  <2>4. CASE ~IsPicture(hal.task.item)
    <3>1. tasks # <<>> /\ Head(tasks) = hal.task /\ hal.task.buf = None
      BY <1>3, <2>1, <2>4, TaskFacts DEF Base, ThreadsInv
    <3>2. /\ H["tasks"] # <<>> /\ Head(H["tasks"]) = None
          /\ G["tasks"] = Tail(H["tasks"])
      <4>1. tasks \in Seq(StreamTasks) /\ \A z \in StreamTasks : z.buf \in BufOrNone
        BY <1>3, <1>5
      <4>2. /\ BufsOf(tasks) # <<>> /\ Head(BufsOf(tasks)) = Head(tasks).buf
            /\ BufsOf(Tail(tasks)) = Tail(BufsOf(tasks))
        BY <3>1, <4>1, BufsFacts
      <4> QED BY <1>1, <1>2, <2>1, <2>4, <3>1, <4>2
    <3>3. /\ "tasks" \in Places /\ H["tasks"] \in Seq(BufOrNone) /\ Distinct(H["tasks"])
          /\ Gave = Taken
      BY <1>1, <1>4, <1>6, <2>2 DEF HeldBy
    <3>4. Distinct(G["tasks"]) /\ Real(G["tasks"]) = Real(H["tasks"]) \ {None}
      BY <3>2, <3>3, RealTail
    <3>5. /\ Real(G["tasks"]) \subseteq Real(H["tasks"])
          /\ Gave = Taken \ (Real(H["tasks"]) \ Real(G["tasks"]))
      BY <3>3, <3>4 DEF Real
    <3>6. \A r \in Places \ {"tasks"} : G[r] = H[r]
      BY <1>6, <1>7, <2>1
    <3>7. HeldBy(G, Gave)
      BY ONLY <1>H, <3>3, <3>4, <3>5, <3>6, HeldByDropped
    <3> QED BY <1>H, <3>7
  <2> QED BY <2>3, <2>4
<1>19. CASE VprocReset
  <2>1. /\ UNCHANGED <<tasks, hal, vtasks, mFrames, user>>
        /\ vproc'.dst = vproc.dst /\ vproc'.outs = vproc.outs /\ vproc'.prev = NoTask
    BY <1>3, <1>19 DEF VprocReset, halVars, outVars
  <2>2. Gave = Taken \ ({vproc.prev.buf} \ {None})
    <3>1. uses' = ClrPrev(uses)
      BY <1>19 DEF VprocReset
    <3>2. \A b \in Buffers : "frame" \in uses'[b] <=>
                               "frame" \in uses[b] /\ b # vproc.prev.buf
      BY <1>3, <3>1, ClrPrevFacts
    <3> QED BY <1>4, <1>5, <3>2
  <2>3. /\ H["prev"] = <<vproc.prev.buf>> /\ G["prev"] = <<None>>
        /\ vproc.prev.buf \in BufOrNone
    BY <1>1, <1>2, <1>3, <1>5, <2>1
  <2>4. /\ Distinct(G["prev"]) /\ Real(G["prev"]) \subseteq Real(H["prev"])
        /\ Gave = Taken \ (Real(H["prev"]) \ Real(G["prev"]))
    BY <1>5, <2>2, <2>3, RealShort
  <2>5. "prev" \in Places /\ \A r \in Places \ {"prev"} : G[r] = H[r]
    BY <1>6, <1>7, <2>1
  <2>6. HeldBy(G, Gave)
    BY ONLY <1>H, <2>4, <2>5, HeldByDropped
  <2> QED BY <1>H, <2>6
<1>20. CASE VprocSignal
  <2> DEFINE f == FrameOut(VTask, None, 2 * VTask.n)
  <2>1. /\ UNCHANGED <<tasks, hal, vtasks, user, uses>> /\ mFrames' = Append(mFrames, f)
        /\ vproc'.dst = vproc.dst /\ vproc'.outs = vproc.outs /\ vproc'.prev = vproc.prev
    BY <1>3, <1>20 DEF VprocSignal, Output, halVars
  <2>2. f.buf = None
    BY DEF FrameOut
  <2> HIDE DEF f
  <2>3. f \in Frames
    BY <1>3, <1>10, <2>1, AppendedIn
  <2>4. BufsOf(Append(mFrames, f)) = Append(BufsOf(mFrames), f.buf)
    <3>1. mFrames \in Seq(Frames) /\ \A z \in Frames : z.buf \in BufOrNone
      BY <1>3, <1>5
    <3> QED BY <2>3, <3>1, BufsFacts
  <2>5. G["frames"] = Append(H["frames"], None)
    BY <1>1, <1>2, <2>1, <2>2, <2>4
  <2>6. Gave = Taken \cup ({None} \ {None}) /\ None \in BufOrNone /\ None \notin Taken
    BY <1>4, <1>5, <2>1
  <2>7. /\ "frames" \in Places /\ H["frames"] \in Seq(BufOrNone)
        /\ \A r \in Places \ {"frames"} : G[r] = H[r]
    <3>1. \A r \in Places \ {"frames"} : G[r] = H[r]
      BY <1>6, <1>7, <2>1
    <3> QED BY <1>1, <1>6, <3>1
  <2>8. HeldBy(G, Gave)
    BY ONLY <1>H, <2>5, <2>6, <2>7, HeldByAdded
  <2> QED BY <1>H, <2>8
<1>21. CASE VprocPut
  <2> DEFINE f == Head(vproc.outs)
  <2>1. /\ UNCHANGED <<tasks, hal, vtasks, user, uses>> /\ mFrames' = Append(mFrames, f)
        /\ vproc'.dst = vproc.dst /\ vproc'.prev = vproc.prev
        /\ vproc'.outs = Tail(vproc.outs) /\ vproc.outs # <<>>
        /\ vproc.outs \in Seq(Frames)
    BY <1>3, <1>21 DEF VprocPut, Output, halVars, Base, ThreadsInv
  <2> HIDE DEF f
  <2>2. f \in Frames
    BY <1>3, <1>10, <2>1, AppendedIn
  <2>3. BufsOf(Append(mFrames, f)) = Append(BufsOf(mFrames), f.buf)
    <3>1. mFrames \in Seq(Frames) /\ \A z \in Frames : z.buf \in BufOrNone
      BY <1>3, <1>5
    <3> QED BY <2>2, <3>1, BufsFacts
  <2>4. /\ BufsOf(vproc.outs) # <<>> /\ Head(BufsOf(vproc.outs)) = f.buf
        /\ BufsOf(Tail(vproc.outs)) = Tail(BufsOf(vproc.outs))
    <3>1. \A z \in Frames : z.buf \in BufOrNone
      BY <1>5
    <3> QED BY <2>1, <3>1, BufsFacts DEF f
  <2>5. /\ H["outs"] # <<>> /\ G["outs"] = Tail(H["outs"])
        /\ G["frames"] = Append(H["frames"], Head(H["outs"]))
    BY <1>1, <1>2, <2>1, <2>3, <2>4
  <2>6. \A r \in Places \ {"outs", "frames"} : G[r] = H[r]
    BY <1>6, <1>7, <2>1
  <2>7. /\ "outs" \in Places /\ "frames" \in Places /\ Gave = Taken
        /\ H["outs"] \in Seq(BufOrNone) /\ H["frames"] \in Seq(BufOrNone)
    BY <1>1, <1>4, <1>6, <2>1
  <2>8. HeldBy(G, Taken)
    BY ONLY <1>H, <2>5, <2>6, <2>7, HeldByMoved
  <2> QED BY <1>H, <2>7, <2>8
\* One buffer more for the frames that come out of a picture.
<1>22. CASE VprocGetBuffer
  <2> DEFINE new == NextUnused
             dst == Append(vproc.dst, new)
  <2>1. /\ UNCHANGED <<tasks, hal, vtasks, mFrames, user>> /\ vproc.pc = "dst"
        /\ vproc'.prev = vproc.prev /\ uses' = Mark(uses, new, "frame") /\ Unused # {}
        /\ vproc' = IF Len(dst) = (IF TwoOut THEN 2 ELSE 1)
                    THEN [vproc EXCEPT !.pc = "out", !.dst = <<>>, !.outs = Outputs(dst)]
                    ELSE [vproc EXCEPT !.dst = dst]
    BY <1>3, <1>22 DEF VprocGetBuffer, halVars, outVars
  <2>2. new \in Buffers /\ uses[new] = {} /\ new # None /\ new \in BufOrNone /\ new \notin Taken
    BY <1>4, <1>5, <2>1, UnusedFacts DEF BufOrNone
  <2>3. Gave = Taken \cup {new} /\ {new} \ {None} = {new}
    <3>1. \A b \in Buffers :
             uses'[b] = IF b = new THEN uses[b] \cup {"frame"} ELSE uses[b]
      BY <1>3, <2>1, <2>2 DEF Mark
    <3> QED BY <1>4, <2>2, <3>1
  <2>4. /\ vproc.dst \in Seq(Buffers) /\ vproc.dst \in Seq(BufOrNone) /\ vproc.outs = <<>>
        /\ Len(vproc.dst) < (IF TwoOut THEN 2 ELSE 1)
    BY <1>3, <2>1 DEF Base, ThreadsInv, BufOrNone
  <2>5. /\ Real(dst) = Real(vproc.dst) \cup {new} /\ Distinct(dst) /\ dst \in Seq(BufOrNone)
        /\ Real(vproc.dst) \subseteq Taken
    <3>1. Real(vproc.dst) \subseteq Taken /\ Distinct(vproc.dst)
      BY <1>1, <1>6 DEF HeldBy
    <3>2. new \notin Real(vproc.dst)
      BY <2>2, <3>1
    <3> HIDE DEF new
    <3>3. /\ Real(dst) = Real(vproc.dst) \cup ({new} \ {None}) /\ Distinct(dst)
          /\ dst \in Seq(BufOrNone)
      BY <2>2, <2>4, <3>1, <3>2, RealAppend
    <3> QED BY <2>3, <3>1, <3>3
  <2>6. /\ dst \in Seq(Buffers) /\ dst # <<>>
        /\ ~TwoOut => Outputs(dst) =
              <<[item |-> VTask.item, buf |-> dst[1], pts |-> 2 * VTask.n]>>
        /\ TwoOut /\ Len(dst) = 2 => \E y, z \in Buffers :
              /\ {y, z} = {dst[1], dst[2]} /\ (dst[1] # dst[2] => y # z)
              /\ Outputs(dst) =
                 <<[item |-> VTask.item, buf |-> y, pts |-> vproc.prev.n + VTask.n],
                   [item |-> VTask.item, buf |-> z, pts |-> 2 * VTask.n]>>
    BY <2>1, OutputsFacts
  <2> HIDE DEF dst, new
  <2>7. "dst" \in Places /\ "outs" \in Places /\ H["outs"] = <<>> /\ H["dst"] = vproc.dst
        /\ \A r \in Places \ {"dst", "outs"} : G[r] = H[r]
    <3>1. H["outs"] = <<>> /\ H["dst"] = vproc.dst
      BY <1>1, <1>3, <1>5, <2>4, BufsFacts
    <3>2. \A r \in Places \ {"dst", "outs"} : G[r] = H[r]
      BY <1>6, <1>7, <2>1
    <3> QED BY <1>6, <3>1, <3>2
  <2>8. CASE Len(dst) # (IF TwoOut THEN 2 ELSE 1)
    <3>1. vproc'.dst = dst /\ vproc'.outs = vproc.outs
      BY <1>3, <2>1, <2>8
    <3>2. G["dst"] = dst /\ G["outs"] = H["outs"]
      BY <1>2, <1>7, <3>1
    <3>3. /\ Distinct(G["dst"]) /\ Distinct(G["outs"]) /\ Real(G["dst"]) \cap Real(G["outs"]) = {}
          /\ Real(G["outs"]) = {} /\ Real(H["outs"]) = {}
      BY <1>5, <2>5, <2>7, <3>2, RealShort
    <3>4. \A y \in Real(G["dst"]) \cup Real(G["outs"]) :
             y \in Taken => y \in Real(H["dst"]) \cup Real(H["outs"])
      BY <2>2, <2>5, <2>7, <3>2, <3>3
    <3>5. HeldBy(G, (Taken \ (Real(H["dst"]) \cup Real(H["outs"])))
                       \cup Real(G["dst"]) \cup Real(G["outs"]))
      BY ONLY <1>H, <2>7, <3>3, <3>4, HeldByChanged
    <3>6. Gave = (Taken \ (Real(H["dst"]) \cup Real(H["outs"])))
                       \cup Real(G["dst"]) \cup Real(G["outs"])
      BY <2>3, <2>5, <2>7, <3>2, <3>3
    <3> QED BY <1>H, <3>5, <3>6
  <2>9. CASE Len(dst) = (IF TwoOut THEN 2 ELSE 1)
    <3>1. vproc'.dst = <<>> /\ vproc'.outs = Outputs(dst)
      BY <1>3, <2>1, <2>9
    <3>2. G["dst"] = <<>> /\ G["outs"] = BufsOf(Outputs(dst))
      BY <1>2, <3>1
    <3>3. Real(G["outs"]) = Real(dst) /\ Distinct(G["outs"])
      <4>1. CASE ~TwoOut
        <5>1. Len(dst) = 1 /\ dst[1] \in Buffers /\ dst = <<dst[1]>>
          BY <2>6, <2>9, <4>1
        <5>2. BufsOf(Outputs(dst)) = <<dst[1]>>
          BY <2>6, <4>1 DEF BufsOf
        <5> QED BY <2>5, <3>2, <5>1, <5>2
      <4>2. CASE TwoOut
        <5>1. Len(dst) = 2 /\ dst[1] \in Buffers /\ dst[2] \in Buffers
          BY <2>6, <2>9, <4>2
        <5>2. PICK y, z \in Buffers :
                 /\ {y, z} = {dst[1], dst[2]} /\ (dst[1] # dst[2] => y # z)
                 /\ Outputs(dst) =
                    <<[item |-> VTask.item, buf |-> y, pts |-> vproc.prev.n + VTask.n],
                      [item |-> VTask.item, buf |-> z, pts |-> 2 * VTask.n]>>
          BY <2>6, <4>2, <5>1
        <5>3. BufsOf(Outputs(dst)) = <<y, z>>
          BY <5>2 DEF BufsOf
        <5>4. dst[1] # dst[2]
          <6>1. 1 \in 1 .. Len(dst) /\ 2 \in 1 .. Len(dst) /\ dst[1] # None
            BY <1>5, <5>1
          <6> QED BY <2>5, <6>1 DEF Distinct
        <5>5. Real(<<y, z>>) = {y, z} \ {None} /\ Distinct(<<y, z>>)
          BY <5>2, <5>4, RealShort DEF BufOrNone
        <5>6. Real(dst) = {dst[1], dst[2]} \ {None}
          <6>1. \A i : i \in 1 .. Len(dst) <=> i = 1 \/ i = 2
            BY <5>1
          <6> QED BY <6>1 DEF Real
        <5> QED BY <3>2, <5>2, <5>3, <5>5, <5>6
      <4> QED BY <4>1, <4>2
    <3>4. /\ Distinct(G["dst"]) /\ Distinct(G["outs"]) /\ Real(G["dst"]) \cap Real(G["outs"]) = {}
          /\ Real(G["dst"]) = {} /\ Real(H["outs"]) = {}
      BY <1>5, <2>7, <3>2, <3>3, RealShort
    <3>5. \A y \in Real(G["dst"]) \cup Real(G["outs"]) :
             y \in Taken => y \in Real(H["dst"]) \cup Real(H["outs"])
      BY <2>2, <2>5, <2>7, <3>3, <3>4
    <3>6. HeldBy(G, (Taken \ (Real(H["dst"]) \cup Real(H["outs"])))
                       \cup Real(G["dst"]) \cup Real(G["outs"]))
      BY ONLY <1>H, <2>7, <3>4, <3>5, HeldByChanged
    <3>7. Gave = (Taken \ (Real(H["dst"]) \cup Real(H["outs"])))
                       \cup Real(G["dst"]) \cup Real(G["outs"])
      BY <2>3, <2>5, <2>7, <3>3, <3>4
    <3> QED BY <1>H, <3>6, <3>7
  <2> QED BY <2>8, <2>9
\* The picture done with becomes the previous one, or is given back.
<1>23. CASE VprocFinish
  <2> DEFINE mine == VTask.buf
             old  == vproc.prev.buf
             kept == IF VTask.item = "frame" THEN {mine} ELSE {}
  <2>1. /\ UNCHANGED <<tasks, hal, mFrames, user>> /\ vproc.pc = "finish"
        /\ vproc'.dst = vproc.dst /\ vproc'.outs = vproc.outs /\ vproc'.prev = Kept
        /\ vtasks' = SetStatus(vtasks, vproc.hnd, "TASK_IDLE")
    BY <1>3, <1>23 DEF VprocFinish, halVars, outVars
  <2>2. /\ InHandles' = Tail(InHandles) /\ InHandles # <<>> /\ VTask = InHandles[1]
        /\ VTask \in StreamTasks
    BY <1>3, <2>1, FinishFacts, HandlesFacts DEF Working
  <2>3. /\ VTask.item \in {"frame", "last"} => mine \in Buffers
        /\ VTask.item \notin {"frame", "last"} => mine = None
        /\ mine \in BufOrNone /\ old \in BufOrNone
    BY <1>3, <1>5, <2>2, TaskFacts DEF IsPicture
  <2>4. \A b \in Buffers : "frame" \in uses'[b] <=>
           "frame" \in uses[b] /\ b # old /\ (VTask.item = "last" => b # mine)
    <3>1. PICK u : u = ClrPrev(uses)
      OBVIOUS
    <3>2. /\ u \in [Buffers -> SUBSET Uses]
          /\ \A b \in Buffers : "frame" \in u[b] <=> "frame" \in uses[b] /\ b # old
      BY <1>3, <3>1, ClrPrevFacts
    <3>3. CASE VTask.item = "last"
      <4>1. PICK v : v = Unmark(u, mine, "frame")
        OBVIOUS
      <4>2. /\ v \in [Buffers -> SUBSET Uses]
            /\ \A b \in Buffers : v[b] = u[b] \ (IF b = mine THEN {"frame"} ELSE {})
        BY <3>2, <4>1, UnmarkFacts
      <4>3. uses' = Unmark(v, mine, "deinterlace")
        BY <1>23, <3>1, <3>3, <4>1 DEF VprocFinish
      <4>4. \A b \in Buffers : uses'[b] = v[b] \ (IF b = mine THEN {"deinterlace"} ELSE {})
        BY <4>2, <4>3, UnmarkFacts
      <4>5. \A b \in Buffers : "frame" \in v[b] <=> "frame" \in u[b] /\ b # mine
        BY <4>2
      <4>6. \A b \in Buffers : "frame" \in uses'[b] <=> "frame" \in v[b]
        BY <4>4
      <4> QED BY <3>2, <3>3, <4>5, <4>6
    <3>4. CASE VTask.item # "last"
      BY <1>23, <3>1, <3>2, <3>4 DEF VprocFinish
    <3> QED BY <3>3, <3>4
  <2>5. H["prev"] = <<old>> /\ G["prev"] = <<Kept.buf>> /\ kept = {Kept.buf} \ {None}
        /\ Kept.buf \in BufOrNone
    BY <1>1, <1>2, <1>5, <2>1, <2>3 DEF Kept
  <2>6. /\ BufsOf(InHandles) # <<>> /\ Head(BufsOf(InHandles)) = mine
        /\ BufsOf(Tail(InHandles)) = Tail(BufsOf(InHandles))
    <3>1. InHandles \in Seq(StreamTasks) /\ \A z \in StreamTasks : z.buf \in BufOrNone
      BY <1>3, <1>5
    <3>2. Head(InHandles) = InHandles[1]
      BY <2>2, <3>1
    <3> QED BY <2>2, <3>1, <3>2, BufsFacts
  <2> HIDE DEF mine, old
  <2>7. /\ H["handles"] # <<>> /\ Head(H["handles"]) = mine
        /\ G["handles"] = Tail(H["handles"])
    BY <1>1, <1>2, <2>2, <2>6
  <2>8. /\ "prev" \in Places /\ "handles" \in Places /\ H["handles"] \in Seq(BufOrNone)
        /\ \A r \in Places \ {"handles", "prev"} : G[r] = H[r]
    <3>1. \A r \in Places \ {"handles", "prev"} : G[r] = H[r]
      BY <1>6, <1>7, <2>1
    <3> QED BY <1>1, <1>6, <3>1
  <2>9. /\ Distinct(H["handles"]) /\ Real(H["handles"]) \subseteq Taken
        /\ Real(H["prev"]) \subseteq Taken
        /\ Real(H["handles"]) \cap Real(H["prev"]) = {}
    BY <1>H, <1>6, <2>8 DEF HeldBy
  <2>10. /\ Real(G["handles"]) = Real(H["handles"]) \ {mine} /\ Distinct(G["handles"])
         /\ mine # None => mine \in Real(H["handles"])
    BY <2>7, <2>8, <2>9, RealTail
  <2>11. /\ Real(H["prev"]) = {old} \ {None} /\ Real(G["prev"]) = kept
         /\ Distinct(G["prev"])
    BY <2>3, <2>5, RealShort
  <2>12. \/ kept = {mine} /\ mine # None /\ VTask.item = "frame"
         \/ kept = {} /\ VTask.item = "last" /\ mine # None
         \/ kept = {} /\ mine = None /\ VTask.item # "last"
    BY <1>5, <2>3
  <2> HIDE DEF kept
  <2>13. /\ Real(G["handles"]) \cap Real(G["prev"]) = {}
         /\ \A y \in Real(G["handles"]) \cup Real(G["prev"]) :
               y \in Taken => y \in Real(H["handles"]) \cup Real(H["prev"])
    BY <2>10, <2>11, <2>12
  <2>14. HeldBy(G, (Taken \ (Real(H["handles"]) \cup Real(H["prev"])))
                      \cup Real(G["handles"]) \cup Real(G["prev"]))
    BY ONLY <1>H, <2>8, <2>10, <2>11, <2>13, HeldByChanged
  <2>15. Gave = {b \in Taken : b # old /\ (VTask.item = "last" => b # mine)}
    BY <1>4, <2>4
  <2>16. None \notin Real(H["handles"]) /\ None \notin Taken
    BY <1>5 DEF Real
  <2>17. Gave = (Taken \ (Real(H["handles"]) \cup Real(H["prev"])))
                      \cup Real(G["handles"]) \cup Real(G["prev"])
    <3>1. CASE kept = {mine} /\ mine # None /\ VTask.item = "frame"
      BY <2>9, <2>10, <2>11, <2>15, <2>16, <3>1
    <3>2. CASE kept = {} /\ VTask.item = "last" /\ mine # None
      BY <2>9, <2>10, <2>11, <2>15, <2>16, <3>2
    <3>3. CASE kept = {} /\ mine = None /\ VTask.item # "last"
      BY <2>9, <2>10, <2>11, <2>15, <2>16, <3>3
    <3> QED BY <2>12, <3>1, <3>2, <3>3
  <2> QED BY <1>H, <2>14, <2>17
<1>24. CASE GetFrame
  <2> DEFINE f == Head(mFrames)
  <2>1. /\ UNCHANGED <<tasks, hal, vtasks, vproc, uses>> /\ mFrames # <<>>
        /\ mFrames' = Tail(mFrames) /\ user.held = None /\ user'.held = f
    BY <1>3, <1>24 DEF GetFrame, halVars, vprocVars
  <2>2. f \in Frames /\ f # None
    BY <1>3, <2>1, NoneAssumption
  <2>3. /\ BufsOf(mFrames) # <<>> /\ Head(BufsOf(mFrames)) = f.buf
        /\ BufsOf(Tail(mFrames)) = Tail(BufsOf(mFrames))
    <3>1. mFrames \in Seq(Frames) /\ \A z \in Frames : z.buf \in BufOrNone
      BY <1>3, <1>5
    <3> QED BY <2>1, <3>1, BufsFacts
  <2> HIDE DEF f
  <2>4. /\ H["frames"] # <<>> /\ G["frames"] = Tail(H["frames"])
        /\ G["user"] = Append(H["user"], Head(H["frames"]))
    <3>1. H["user"] = <<>> /\ G["user"] = <<f.buf>>
      BY <1>1, <1>2, <2>1, <2>2
    <3>2. /\ H["frames"] # <<>> /\ G["frames"] = Tail(H["frames"])
          /\ Head(H["frames"]) = f.buf
      BY <1>1, <1>2, <2>1, <2>3
    <3> QED BY <3>1, <3>2
  <2>5. \A r \in Places \ {"frames", "user"} : G[r] = H[r]
    BY <1>6, <1>7, <2>1
  <2>6. /\ "frames" \in Places /\ "user" \in Places /\ Gave = Taken
        /\ H["frames"] \in Seq(BufOrNone) /\ H["user"] \in Seq(BufOrNone)
    BY <1>1, <1>4, <1>6, <2>1
  <2>7. HeldBy(G, Taken)
    BY ONLY <1>H, <2>4, <2>5, <2>6, HeldByMoved
  <2> QED BY <1>H, <2>6, <2>7
<1>25. CASE PutFrame
  <2>1. /\ UNCHANGED <<tasks, hal, vtasks, vproc, mFrames>> /\ user.held # None
        /\ user'.held = None /\ uses' = Unmark(uses, user.held.buf, "frame")
    BY <1>3, <1>25 DEF PutFrame, halVars, vprocVars, outVars
  <2>2. user.held.buf \in BufOrNone
    BY <1>3, <1>5, <2>1
  <2>3. Gave = Taken \ ({user.held.buf} \ {None})
    <3>1. uses \in [Buffers -> SUBSET Uses]
      BY <1>3
    <3>2. \A b \in Buffers :
             uses'[b] = uses[b] \ (IF b = user.held.buf THEN {"frame"} ELSE {})
      BY <2>1, <3>1, UnmarkFacts
    <3>3. \A b \in Buffers : "frame" \in uses'[b] <=> "frame" \in uses[b] /\ b # user.held.buf
      BY <3>2
    <3> QED BY <1>4, <1>5, <3>3
  <2>4. H["user"] = <<user.held.buf>> /\ G["user"] = <<>>
    BY <1>1, <1>2, <2>1
  <2>5. /\ Distinct(G["user"]) /\ Real(G["user"]) \subseteq Real(H["user"])
        /\ Gave = Taken \ (Real(H["user"]) \ Real(G["user"]))
    BY <1>5, <2>2, <2>3, <2>4, RealShort
  <2>6. "user" \in Places /\ \A r \in Places \ {"user"} : G[r] = H[r]
    <3>1. \A r \in Places \ {"user"} : G[r] = H[r]
      BY <1>6, <1>7, <2>1
    <3> QED BY <1>6, <3>1
  <2>7. HeldBy(G, Gave)
    BY ONLY <1>H, <2>5, <2>6, HeldByDropped
  <2> QED BY <1>H, <2>7
<1>26. CASE ResetReturn
  <2>1. /\ UNCHANGED <<tasks, hal, vtasks, vproc>> /\ user'.held = user.held
        /\ mFrames' = <<>>
        /\ uses' = [b \in Buffers |-> IF \E k \in DOMAIN mFrames : mFrames[k].buf = b
                                      THEN uses[b] \ {"frame"} ELSE uses[b]]
    BY <1>3, <1>26 DEF ResetReturn, halVars, vprocVars
  <2>2. G["frames"] = <<>> /\ H["frames"] = BufsOf(mFrames)
    BY <1>1, <1>2, <1>3, <1>5, <2>1, BufsFacts
  <2>3. \A b \in Buffers : b \in Real(H["frames"]) <=>
                           \E k \in DOMAIN mFrames : mFrames[k].buf = b
    <3>1. /\ DOMAIN mFrames = 1 .. Len(mFrames)
          /\ BufsOf(mFrames) = [i \in 1 .. Len(mFrames) |-> mFrames[i].buf]
          /\ Len(mFrames) \in Nat
      BY <1>3 DEF BufsOf
    <3>2. Len(BufsOf(mFrames)) = Len(mFrames)
      BY <3>1
    <3> QED BY <1>5, <2>2, <3>1, <3>2 DEF Real
  <2>4. \A b \in Buffers : "frame" \in uses'[b] <=>
                           "frame" \in uses[b] /\ b \notin Real(H["frames"])
    BY <2>1, <2>3
  <2>5. Gave = Taken \ Real(H["frames"])
    BY <1>4, <2>4
  <2>6. /\ Distinct(G["frames"]) /\ Real(G["frames"]) \subseteq Real(H["frames"])
        /\ Gave = Taken \ (Real(H["frames"]) \ Real(G["frames"]))
    BY <1>5, <2>2, <2>5, RealShort
  <2>7. "frames" \in Places /\ \A r \in Places \ {"frames"} : G[r] = H[r]
    <3>1. \A r \in Places \ {"frames"} : G[r] = H[r]
      BY <1>6, <1>7, <2>1
    <3> QED BY <1>6, <3>1
  <2>8. HeldBy(G, Gave)
    BY ONLY <1>H, <2>6, <2>7, HeldByDropped
  <2> QED BY <1>H, <2>8
<1>27. \/ ParserLook \/ ParserReset \/ ParserResetVproc \/ ParserResetDone
       \/ HalStart \/ HalSignal \/ HalReset \/ VprocTake \/ VprocWait
       \/ VprocPicture \/ ResetStart \/ UNCHANGED vars
       \/ ParserGet \/ ParserSignal \/ HalTake \/ HalPut \/ HalPutEos \/ HalPutDirect
       \/ HalShown \/ VprocReset \/ VprocSignal \/ VprocGetBuffer \/ VprocPut
       \/ VprocFinish \/ GetFrame \/ PutFrame \/ ResetReturn
  BY DEF Next, Parser, Hal, Vproc
<1> QED
  BY <1>9, <1>11, <1>12, <1>13, <1>15, <1>16, <1>17, <1>18, <1>19, <1>20, <1>21, <1>22,
     <1>23, <1>24, <1>25, <1>26, <1>27

(* HeldOnce: every reference of mpp_buffer_get is held by one.             *)
THEOREM HeldSafe == Spec => []HeldOnce
<1>1. Init => Base /\ HeldInv
  BY Base_Init, HeldInv_Init
<1>2. Base /\ HeldInv /\ [Next]_vars => (Base /\ HeldInv)'
  BY NextBase, NextHeldInv
<1>3. Base /\ HeldInv => HeldOnce
  BY HeldCounted
<1> QED BY <1>1, <1>2, <1>3, PTL DEF Spec

-----------------------------------------------------------------------------
(* The order of the frames. *)

(* Tasks are numbered as their items are: those that wait, and the one     *)
(* the hal thread works on, which still waits when it is no picture.       *)
NumbersInv ==
    /\ \A i \in 1 .. Len(tasks) : tasks[i].n = (parser.next - Len(tasks)) + (i - 1)
    /\ hal.pc # "idle" /\ IsPicture(hal.task.item) =>
          hal.task.n = (parser.next - Len(tasks)) - 1

(* The item whose task is handed to the vproc thread next. *)
NextIn ==
    IF hal.pc = "idle" THEN parser.next - Len(tasks)
    ELSE IF hal.pc = "put" THEN hal.task.n
    ELSE hal.task.n + 1

(* The threads answer a reset one after the other: the hal thread when no  *)
(* task is left, the vproc thread when no handle and no picture is.        *)
ResetInv ==
    /\ reset.post => parser.pc = "sem_hal" /\ ~reset.hal_done
    /\ reset.hal_done => parser.pc = "sem_hal"
    /\ reset.vproc => parser.pc = "sem_vproc" /\ ~reset.vproc_done
    /\ reset.vproc_done => parser.pc = "sem_vproc"
    /\ reset.hal_done \/ parser.pc = "sem_vproc" => tasks = <<>> /\ hal.pc = "idle"
    /\ reset.vproc_done =>
          /\ InHandles = <<>> /\ vproc.prev = NoTask
          /\ vproc.pc \notin Working

(* The vproc thread has come to item h: the handles in use carry the tasks *)
(* of h and the items after it, the previous picture is the one before h,  *)
(* no reset was done later, and the frames put are the ones before h, or   *)
(* the first of h.  After an eos that was lost, at the end of the stream,  *)
(* h may stay behind.                                                      *)
Handed(h) ==
    /\ \A i \in 1 .. Len(InHandles) : InHandles[i].n = h + (i - 1)
    /\ h + Len(InHandles) <= NextIn
    /\ h + Len(InHandles) = NextIn \/ NextIn > Len(stream)
    /\ vproc.prev # NoTask => vproc.prev.n = h - 1

NotCut(h) ==
    \A c \in cuts : c <= Len(stream) => c <= h /\ (vproc.prev # NoTask => c < h)

LastPut(h) ==
    CASE vproc.pc = "finish" -> 2 * h
      [] vproc.pc = "out" -> 2 * h - Len(vproc.outs)
      [] OTHER -> 2 * h - 2

ComingOut(h) ==
    LET outs == vproc.outs
    IN  outs # <<>> =>
            /\ Len(outs) \in {1, 2}
            /\ outs[Len(outs)].pts = 2 * h /\ outs[Len(outs)].item = stream[h]
            /\ Len(outs) = 2 => outs[1].pts = 2 * h - 1 /\ Adjacent(h)

InOrder(h) ==
    /\ Handed(h) /\ NotCut(h) /\ ComingOut(h)
    /\ \A i \in DOMAIN puts : puts[i].pts <= LastPut(h)

OrderInv == \E h \in Nat \ {0} : InOrder(h)

(* The numbers follow the tasks through the hal thread. *)
LEMMA NextNumbersInv ==
    ASSUME Base, NumbersInv, [Next]_vars
    PROVE  NumbersInv'
<1> DEFINE n  == parser.next
           k  == Len(tasks)
<1>1. /\ \A i \in 1 .. k : tasks[i].n = (n - k) + (i - 1)
      /\ hal.pc # "idle" /\ IsPicture(hal.task.item) => hal.task.n = (n - k) - 1
  BY DEF NumbersInv
<1>2. /\ parser \in [pc : ParserPcs, next : Nat \ {0}] /\ tasks \in Seq(StreamTasks)
      /\ hal \in [pc : HalPcs, task : StreamTasks \cup {NoTask}]
      /\ n \in Nat /\ k \in Nat
  BY DEF Base, TypeInv, HalType
<1>3. CASE UNCHANGED <<tasks, hal>> /\ parser'.next = parser.next
  BY <1>1, <1>3 DEF NumbersInv
<1>4. CASE \/ UNCHANGED vars \/ ParserLook \/ ParserReset \/ ParserResetVproc
           \/ ParserResetDone \/ HalStart \/ HalReset \/ Vproc \/ GetFrame \/ PutFrame
           \/ ResetStart \/ ResetReturn
  <2>1. UNCHANGED <<tasks, hal>>
    BY <1>4 DEF vars, Vproc, halVars, ParserLook, ParserReset, ParserResetVproc,
       ParserResetDone, HalStart, HalReset, VprocTake, VprocReset, VprocWait, VprocSignal,
       VprocPicture, VprocGetBuffer, VprocPut, VprocFinish, GetFrame, PutFrame,
       ResetStart, ResetReturn
  <2>2. parser'.next = parser.next
    BY <1>2, <1>4 DEF vars, Vproc, ParserLook, ParserReset, ParserResetVproc,
       ParserResetDone, HalStart, HalReset, VprocTake, VprocReset, VprocWait, VprocSignal,
       VprocPicture, VprocGetBuffer, VprocPut, VprocFinish, GetFrame, PutFrame,
       ResetStart, ResetReturn
  <2> QED BY <1>3, <2>1, <2>2
<1>5. ASSUME NEW t, tasks' = Append(tasks, t), t.n = n, parser'.next = n + 1, hal' = hal
      PROVE  NumbersInv'
  <2> DEFINE s == tasks'
  <2>1. /\ Len(s) = k + 1 /\ s[k + 1] = t
        /\ \A i \in 1 .. k : s[i] = tasks[i]
    BY <1>2, <1>5, AppendProperties
  <2> HIDE DEF s, n, k
  <2>2. \A i \in 1 .. k + 1 : s[i].n = ((n + 1) - (k + 1)) + (i - 1)
    <3> SUFFICES ASSUME NEW i \in 1 .. k + 1
                 PROVE  s[i].n = ((n + 1) - (k + 1)) + (i - 1)
      OBVIOUS
    <3>1. CASE i = k + 1
      BY <1>2, <1>5, <2>1, <3>1
    <3>2. CASE i \in 1 .. k
      <4>1. s[i] = tasks[i]
        BY <2>1, <3>2
      <4> QED BY <1>1, <1>2, <3>2, <4>1
    <3> QED BY <1>2, <3>1, <3>2
  <2>3. (n - k) - 1 = ((n + 1) - (k + 1)) - 1
    BY <1>2
  <2> QED BY <1>1, <1>5, <2>1, <2>2, <2>3 DEF NumbersInv, s, n
<1>6. CASE ParserGet
  <2>1. CASE Unused = {}
    <3>1. UNCHANGED <<tasks, hal>> /\ parser'.next = parser.next
      BY <1>2, <1>6, <2>1 DEF ParserGet
    <3> QED BY <1>3, <3>1
  <2>2. CASE Unused # {}
    <3> DEFINE t == [item |-> Item, buf |-> NextUnused, n |-> parser.next]
    <3>1. tasks' = Append(tasks, t) /\ parser'.next = n + 1 /\ hal' = hal /\ t.n = n
      BY <1>6, <2>2 DEF ParserGet, SendTask
    <3> HIDE DEF t
    <3> QED BY <1>5, <3>1
  <2> QED BY <2>1, <2>2
<1>7. CASE ParserSignal
  <2> DEFINE t == [item |-> Item, buf |-> None, n |-> parser.next]
  <2>1. tasks' = Append(tasks, t) /\ parser'.next = n + 1 /\ hal' = hal /\ t.n = n
    BY <1>7 DEF ParserSignal, SendTask
  <2> HIDE DEF t
  <2> QED BY <1>5, <2>1
\* The first task leaves.
<1>8. ASSUME tasks # <<>>, tasks' = Tail(tasks), parser' = parser
      PROVE  /\ k >= 1 /\ Len(tasks') = k - 1 /\ Head(tasks).n = n - k
             /\ \A i \in 1 .. Len(tasks') : tasks'[i].n = (n - (k - 1)) + (i - 1)
  <2> DEFINE s == tasks
             r == tasks'
  <2>1. s \in Seq(StreamTasks) /\ s # <<>> /\ r = Tail(s) /\ k = Len(s) /\ k \in Nat
    BY <1>2, <1>8
  <2>2. \A i \in 1 .. k : s[i].n = (n - k) + (i - 1)
    BY <1>1
  <2> HIDE DEF s, r, k, n
  <2>3. /\ k >= 1 /\ Len(r) = k - 1 /\ Head(s) = s[1] /\ 1 \in 1 .. k
        /\ \A i \in 1 .. k - 1 : r[i] = s[i + 1] /\ i + 1 \in 1 .. k
    BY <2>1, HeadTailProperties
  <2>4. Head(s).n = n - k
    BY <1>2, <2>2, <2>3
  <2>5. \A i \in 1 .. k - 1 : r[i].n = (n - (k - 1)) + (i - 1)
    <3>1. ASSUME NEW i \in 1 .. k - 1 PROVE r[i].n = (n - (k - 1)) + (i - 1)
      <4>1. r[i] = s[i + 1] /\ i + 1 \in 1 .. k
        BY <2>3, <3>1
      <4>2. s[i + 1].n = (n - k) + ((i + 1) - 1)
        BY <2>2, <4>1
      <4>3. (n - k) + ((i + 1) - 1) = (n - (k - 1)) + (i - 1)
        BY <1>2
      <4> QED BY <4>1, <4>2, <4>3
    <3> QED BY <3>1
  <2> QED BY <2>3, <2>4, <2>5 DEF s, r
<1>9. CASE HalTake
  <2>1. /\ hal'.task = Head(tasks) /\ tasks # <<>> /\ parser' = parser /\ hal.pc = "idle"
        /\ tasks' = IF IsPicture(Head(tasks).item) THEN Tail(tasks) ELSE tasks
    BY <1>9 DEF HalTake
  <2>2. CASE IsPicture(Head(tasks).item)
    <3>1. /\ k >= 1 /\ Len(tasks') = k - 1 /\ Head(tasks).n = n - k
          /\ \A i \in 1 .. Len(tasks') : tasks'[i].n = (n - (k - 1)) + (i - 1)
      BY <1>8, <2>1, <2>2
    <3>2. (n - (k - 1)) - 1 = n - k
      BY <1>2
    <3> QED BY <2>1, <3>1, <3>2 DEF NumbersInv
  <2>3. CASE ~IsPicture(Head(tasks).item)
    BY <1>1, <2>1, <2>3 DEF NumbersInv
  <2> QED BY <2>2, <2>3
<1>10. CASE HalPut \/ HalPutEos \/ HalPutDirect \/ HalSignal
  <2>1. tasks' = tasks /\ parser' = parser /\ hal'.task = hal.task /\ hal.pc # "idle"
    BY <1>2, <1>10 DEF HalPut, HalPutEos, HalPutDirect, HalSignal
  <2> QED BY <1>1, <2>1 DEF NumbersInv
<1>11. CASE HalShown
  <2>1. /\ hal'.pc = "idle" /\ parser' = parser /\ hal.pc = "shown"
        /\ tasks' = IF IsPicture(hal.task.item) THEN tasks ELSE Tail(tasks)
    BY <1>11 DEF HalShown
  <2>2. CASE IsPicture(hal.task.item)
    BY <1>1, <2>1, <2>2 DEF NumbersInv
  <2>3. CASE ~IsPicture(hal.task.item)
    <3>1. tasks # <<>>
      BY <2>1, <2>3 DEF Base, ThreadsInv
    <3>2. /\ Len(tasks') = k - 1
          /\ \A i \in 1 .. Len(tasks') : tasks'[i].n = (n - (k - 1)) + (i - 1)
      BY <1>8, <2>1, <2>3, <3>1
    <3> QED BY <2>1, <3>2 DEF NumbersInv
  <2> QED BY <2>2, <2>3
<1> QED
  BY <1>4, <1>6, <1>7, <1>9, <1>10, <1>11 DEF Next, Parser, Hal

(* A reset goes from the parser to the hal thread, back, and to the vproc  *)
(* thread.                                                                 *)
LEMMA NextResetInv ==
    ASSUME Base, ResetInv, [Next]_vars
    PROVE  ResetInv'
<1>1. /\ reset.post => parser.pc = "sem_hal" /\ ~reset.hal_done
      /\ reset.hal_done => parser.pc = "sem_hal"
      /\ reset.vproc => parser.pc = "sem_vproc" /\ ~reset.vproc_done
      /\ reset.vproc_done => parser.pc = "sem_vproc"
      /\ reset.hal_done \/ parser.pc = "sem_vproc" => tasks = <<>> /\ hal.pc = "idle"
      /\ reset.vproc_done =>
            /\ InHandles = <<>> /\ vproc.prev = NoTask
            /\ vproc.pc \notin Working
  BY DEF ResetInv
<1>2. /\ parser \in [pc : ParserPcs, next : Nat \ {0}]
      /\ hal \in [pc : HalPcs, task : StreamTasks \cup {NoTask}]
      /\ vproc \in [pc : VprocPcs, hnd : Hnds \cup {None},
             prev : StreamTasks \cup {NoTask}, dst : Seq(Buffers), outs : Seq(Frames)]
      /\ reset \in ResetType
      /\ vproc.pc = "none" => InHandles = <<>> /\ vproc.prev = NoTask
      /\ InHandles = <<>> <=> ~HasHnd(vtasks, "TASK_PROCESSING")
  BY HandlesFacts DEF Base, TypeInv, HalType, VprocType, HandlesInv, ThreadsInv
<1>3. vtasks' = vtasks => InHandles' = InHandles
  BY DEF InHandles
<1>4. CASE ParserLook \/ ParserGet \/ ParserSignal
  <2>1. /\ reset' = reset /\ vtasks' = vtasks /\ vproc' = vproc /\ hal' = hal
        /\ parser.pc \in {"look", "get"} /\ parser'.pc \in {"look", "get", "ack"}
    BY <1>2, <1>4 DEF ParserLook, ParserGet, ParserSignal, SendTask, halVars, vprocVars
  <2> QED BY <1>1, <1>3, <2>1 DEF ResetInv
<1>5. CASE ParserReset
  <2>1. /\ vtasks' = vtasks /\ vproc' = vproc /\ hal' = hal /\ tasks' = tasks
        /\ parser.pc \in {"look", "ack"} /\ parser'.pc = "sem_hal"
        /\ reset'.hal_done = reset.hal_done /\ reset'.vproc = reset.vproc
        /\ reset'.vproc_done = reset.vproc_done
    BY <1>2, <1>5 DEF ParserReset, halVars, vprocVars, ResetType
  <2> QED BY <1>1, <1>3, <2>1 DEF ResetInv
<1>6. CASE ParserResetVproc
  <2>1. /\ vtasks' = vtasks /\ hal' = hal /\ tasks' = tasks /\ vproc'.prev = vproc.prev
        /\ parser.pc = "sem_hal" /\ parser'.pc = "sem_vproc" /\ reset.hal_done
        /\ reset'.post = reset.post /\ reset'.hal_done = FALSE
        /\ reset'.vproc = (vproc.pc # "none") /\ reset'.vproc_done = (vproc.pc = "none")
        /\ vproc.pc = "none" => vproc'.pc = "none"
    BY <1>2, <1>6 DEF ParserResetVproc, halVars, ResetType
  <2> QED BY <1>1, <1>2, <1>3, <2>1 DEF ResetInv, Working
<1>7. CASE ParserResetDone
  <2>1. /\ vtasks' = vtasks /\ hal' = hal /\ tasks' = tasks /\ vproc' = vproc
        /\ parser.pc = "sem_vproc" /\ parser'.pc = "look" /\ reset.vproc_done
        /\ reset'.post = reset.post /\ reset'.hal_done = reset.hal_done
        /\ reset'.vproc = reset.vproc /\ reset'.vproc_done = FALSE
    BY <1>2, <1>7 DEF ParserResetDone, halVars, vprocVars, ResetType
  <2> QED BY <1>1, <2>1 DEF ResetInv
<1>8. CASE \/ HalTake \/ HalStart \/ HalPut \/ HalPutEos \/ HalPutDirect
           \/ HalSignal \/ HalShown
  <2>1. /\ reset' = reset /\ parser' = parser
        /\ tasks # <<>> \/ hal.pc # "idle"
    BY <1>8
    DEF HalTake, HalStart, HalPut, HalPutEos, HalPutDirect, HalSignal, HalShown
  <2> QED BY <1>1, <2>1 DEF ResetInv
<1>9. CASE HalReset
  <2>1. /\ vtasks' = vtasks /\ hal' = hal /\ tasks' = tasks /\ vproc' = vproc
        /\ parser' = parser /\ tasks = <<>> /\ hal.pc = "idle" /\ reset.post
        /\ reset'.post = FALSE /\ reset'.vproc = reset.vproc
        /\ reset'.vproc_done = reset.vproc_done
    BY <1>2, <1>9 DEF HalReset, halVars, vprocVars, ResetType
  <2> QED BY <1>1, <1>3, <2>1 DEF ResetInv
<1>10. CASE VprocReset
  <2>1. /\ vtasks' = vtasks /\ hal' = hal /\ tasks' = tasks /\ vproc'.prev = NoTask
        /\ parser' = parser /\ InHandles = <<>> /\ vproc'.pc = "check" /\ reset.vproc
        /\ reset'.post = reset.post /\ reset'.hal_done = reset.hal_done
        /\ reset'.vproc = FALSE
    BY <1>2, <1>10 DEF VprocReset, halVars, ResetType
  <2> QED BY <1>1, <1>3, <2>1 DEF ResetInv, Working
<1>11. CASE VprocTake \/ VprocWait
  <2>1. /\ vtasks' = vtasks /\ hal' = hal /\ tasks' = tasks /\ reset' = reset
        /\ vproc'.prev = vproc.prev /\ parser' = parser
        /\ vproc'.pc = "wait" \/ InHandles # <<>>
    BY <1>2, <1>11 DEF VprocTake, VprocWait, halVars
  <2> QED BY <1>1, <1>3, <2>1 DEF ResetInv, Working
<1>12. CASE VprocSignal \/ VprocPicture \/ VprocGetBuffer \/ VprocPut \/ VprocFinish
  <2>1. /\ hal' = hal /\ tasks' = tasks /\ reset' = reset /\ parser' = parser
        /\ vproc.pc \in Working
    BY <1>12 DEF VprocSignal, VprocPicture, VprocGetBuffer, VprocPut, VprocFinish, halVars,
                 Working
  <2> QED BY <1>1, <2>1 DEF ResetInv
<1>13. CASE UNCHANGED vars \/ GetFrame \/ PutFrame \/ ResetStart \/ ResetReturn
  <2>1. /\ UNCHANGED <<hal, tasks, vtasks, vproc>>
        /\ reset'.post = reset.post /\ reset'.hal_done = reset.hal_done
        /\ reset'.vproc = reset.vproc /\ reset'.vproc_done = reset.vproc_done
    BY <1>2, <1>13 DEF vars, GetFrame, PutFrame, ResetStart, ResetReturn, halVars,
                       vprocVars, ResetType
  <2>2. /\ parser'.pc = parser.pc \/ (parser.pc = "ack" /\ parser'.pc = "look")
    BY <1>2, <1>13 DEF vars, GetFrame, PutFrame, ResetStart, ResetReturn
  <2> QED BY <1>1, <1>3, <2>1, <2>2 DEF ResetInv
<1> QED
  BY <1>4, <1>5, <1>6, <1>7, <1>8, <1>9, <1>10, <1>11, <1>12, <1>13
  DEF Next, Parser, Hal, Vproc

(* The next item to hand over is one that was parsed, or the next to be.   *)
LEMMA NextInFacts ==
    ASSUME Base, NumbersInv
    PROVE  /\ NextIn \in Nat \ {0} /\ NextIn <= parser.next
           /\ hal.pc = "put" => NextIn = hal.task.n /\ NextIn \in 1 .. Len(stream)
           /\ hal.pc = "idle" /\ tasks = <<>> => NextIn = parser.next
<1> DEFINE n == parser.next
           k == Len(tasks)
<1>1. /\ tasks \in Seq(StreamTasks) /\ n \in Nat \ {0} /\ k \in Nat
      /\ hal.pc # "idle" => hal.task \in StreamTasks
      /\ \A i \in 1 .. k : tasks[i].n = (n - k) + (i - 1)
      /\ hal.pc # "idle" /\ IsPicture(hal.task.item) => hal.task.n = (n - k) - 1
  <2>1. tasks \in Seq(StreamTasks) /\ n \in Nat \ {0} /\ k \in Nat
    BY DEF Base, TypeInv
  <2>2. hal.pc # "idle" => hal.task \in StreamTasks
    BY DEF Base, ThreadsInv
  <2> QED BY <2>1, <2>2 DEF NumbersInv
<1>2. \A t \in StreamTasks : t.n \in Nat \ {0} /\ t.n \in 1 .. Len(stream)
  BY TaskFacts DEF Base, TypeInv
<1>3. tasks # <<>> => k >= 1 /\ Head(tasks) = tasks[1] /\ tasks[1] \in StreamTasks
  BY <1>1
<1>4. tasks = <<>> => k = 0
  OBVIOUS
<1>5. tasks # <<>> => Head(tasks).n = n - k /\ n - k \in Nat \ {0} /\ k >= 1
  BY <1>1, <1>2, <1>3
<1>6. hal.pc # "idle" /\ ~IsPicture(hal.task.item) => tasks # <<>> /\ Head(tasks) = hal.task
  BY DEF Base, ThreadsInv
<1> HIDE DEF n, k
<1>7. CASE hal.pc = "idle"
  <2>1. NextIn = n - k
    BY <1>7 DEF NextIn, n, k
  <2>2. n - k \in Nat \ {0} /\ n - k <= n /\ (tasks = <<>> => n - k = n)
    BY <1>1, <1>4, <1>5
  <2> QED BY <1>7, <2>1, <2>2 DEF n
<1>8. CASE hal.pc # "idle"
  <2>1. /\ hal.task.n \in Nat \ {0} /\ hal.task.n \in 1 .. Len(stream)
        /\ hal.task.n + 1 <= n
    <3>1. CASE IsPicture(hal.task.item)
      BY <1>1, <1>2, <1>8, <3>1
    <3>2. CASE ~IsPicture(hal.task.item)
      BY <1>1, <1>2, <1>5, <1>6, <1>8, <3>2
    <3> QED BY <3>1, <3>2
  <2>2. NextIn = hal.task.n \/ NextIn = hal.task.n + 1
    BY <1>8 DEF NextIn
  <2>3. hal.pc = "put" => NextIn = hal.task.n
    BY DEF NextIn
  <2>4. NextIn \in Nat \ {0} /\ NextIn <= n
    BY <1>1, <2>1, <2>2
  <2> QED BY <1>8, <2>1, <2>3, <2>4 DEF n
<1> QED BY <1>7, <1>8

(* One item more is handed over by HalPut, HalPutEos and HalPutDirect.     *)
LEMMA NextInNext ==
    ASSUME Base, NumbersInv, [Next]_vars
    PROVE  /\ HalPut \/ HalPutEos \/ HalPutDirect => NextIn' = NextIn + 1
           /\ \/ Parser \/ HalTake \/ HalStart \/ HalSignal \/ HalShown \/ HalReset
              \/ Vproc \/ GetFrame \/ PutFrame \/ ResetStart \/ ResetReturn
              \/ UNCHANGED vars
              => NextIn' = NextIn
<1> DEFINE n  == parser.next
           k  == Len(tasks)
<1>1. /\ \A i \in 1 .. k : tasks[i].n = (n - k) + (i - 1)
      /\ hal.pc # "idle" /\ IsPicture(hal.task.item) => hal.task.n = (n - k) - 1
      /\ \A i \in 1 .. Len(tasks') :
            tasks'[i].n = (parser'.next - Len(tasks')) + (i - 1)
      /\ hal'.pc # "idle" /\ IsPicture(hal'.task.item) =>
            hal'.task.n = (parser'.next - Len(tasks')) - 1
  BY NextNumbersInv DEF NumbersInv
<1>2. /\ parser \in [pc : ParserPcs, next : Nat \ {0}] /\ tasks \in Seq(StreamTasks)
      /\ hal \in [pc : HalPcs, task : StreamTasks \cup {NoTask}]
      /\ n \in Nat /\ k \in Nat
      /\ hal.pc # "idle" => hal.task.n \in Nat
      /\ hal.pc # "idle" /\ ~IsPicture(hal.task.item) => tasks # <<>> /\ Head(tasks) = hal.task
  BY TaskFacts DEF Base, TypeInv, HalType, ThreadsInv
<1>3. ASSUME HalPut \/ HalPutEos \/ HalPutDirect
      PROVE  NextIn' = NextIn + 1
  <2>1. hal.pc = "put" /\ hal'.pc \in {"signal", "shown"} /\ hal'.task = hal.task
    BY <1>2, <1>3 DEF HalPut, HalPutEos, HalPutDirect
  <2>2. NextIn = hal.task.n
    BY <2>1 DEF NextIn
  <2>3. NextIn' = hal'.task.n + 1
    BY <2>1 DEF NextIn
  <2> QED BY <2>1, <2>2, <2>3
<1>4. ASSUME \/ Parser \/ HalTake \/ HalStart \/ HalSignal \/ HalShown \/ HalReset
             \/ Vproc \/ GetFrame \/ PutFrame \/ ResetStart \/ ResetReturn
             \/ UNCHANGED vars
      PROVE  NextIn' = NextIn
  <2>1. CASE UNCHANGED <<tasks, hal>> /\ parser'.next = parser.next
    BY <2>1 DEF NextIn
  <2>2. CASE \/ UNCHANGED vars \/ ParserLook \/ ParserReset \/ ParserResetVproc
             \/ ParserResetDone \/ HalStart \/ HalReset \/ Vproc \/ GetFrame \/ PutFrame
             \/ ResetStart \/ ResetReturn
    <3>1. UNCHANGED <<tasks, hal>>
      BY <2>2 DEF vars, Vproc, halVars, ParserLook, ParserReset, ParserResetVproc,
         ParserResetDone, HalStart, HalReset, VprocTake, VprocReset, VprocWait, VprocSignal,
         VprocPicture, VprocGetBuffer, VprocPut, VprocFinish, GetFrame, PutFrame,
         ResetStart, ResetReturn
    <3>2. parser'.next = parser.next
      BY <1>2, <2>2 DEF vars, Vproc, ParserLook, ParserReset, ParserResetVproc,
         ParserResetDone, HalStart, HalReset, VprocTake, VprocReset, VprocWait, VprocSignal,
         VprocPicture, VprocGetBuffer, VprocPut, VprocFinish, GetFrame, PutFrame,
         ResetStart, ResetReturn
    <3> QED BY <2>1, <3>1, <3>2
  <2>3. CASE ParserGet \/ ParserSignal
    <3>1. CASE UNCHANGED tasks /\ hal' = hal /\ parser'.next = parser.next
      BY <2>1, <3>1
    <3>2. CASE hal' = hal /\ parser'.next = n + 1 /\ \E t : tasks' = Append(tasks, t)
      <4>1. Len(tasks') = k + 1
        BY <1>2, <3>2, AppendProperties
      <4>2. (n + 1) - (k + 1) = n - k
        BY <1>2
      <4> QED BY <3>2, <4>1, <4>2 DEF NextIn
    <3>3. hal' = hal
      BY <2>3 DEF ParserGet, ParserSignal
    <3>4. \/ UNCHANGED tasks /\ parser'.next = parser.next
          \/ parser'.next = n + 1 /\ \E t : tasks' = Append(tasks, t)
      BY <1>2, <2>3 DEF ParserGet, ParserSignal, SendTask
    <3> QED BY <3>1, <3>2, <3>3, <3>4
  <2>4. CASE HalSignal
    <3>1. hal.pc = "signal" /\ hal'.pc = "shown" /\ hal'.task = hal.task
      BY <1>2, <2>4 DEF HalSignal
    <3> QED BY <3>1 DEF NextIn
  <2>5. CASE HalTake
    <3>1. /\ hal.pc = "idle" /\ hal'.pc = "put" /\ hal'.task = Head(tasks) /\ tasks # <<>>
      BY <2>5 DEF HalTake
    <3>2. Head(tasks).n = n - k
      <4>1. Head(tasks) = tasks[1] /\ 1 \in 1 .. k
        BY <1>2, <3>1
      <4>2. tasks[1].n = (n - k) + (1 - 1)
        BY <1>1, <4>1
      <4> QED BY <1>2, <4>1, <4>2
    <3> QED BY <3>1, <3>2 DEF NextIn
  <2>6. CASE HalShown
    <3>1. /\ hal'.pc = "idle" /\ parser' = parser /\ hal.pc = "shown"
          /\ tasks' = IF IsPicture(hal.task.item) THEN tasks ELSE Tail(tasks)
      BY <2>6 DEF HalShown
    <3>2. NextIn = hal.task.n + 1 /\ NextIn' = n - Len(tasks')
      BY <3>1 DEF NextIn
    <3>3. CASE IsPicture(hal.task.item)
      BY <1>1, <1>2, <3>1, <3>2, <3>3
    <3>4. CASE ~IsPicture(hal.task.item)
      <4>1. tasks # <<>> /\ Head(tasks) = hal.task
        BY <1>2, <3>1, <3>4
      <4>2. Head(tasks) = tasks[1] /\ 1 \in 1 .. k /\ Len(Tail(tasks)) = k - 1
        BY <1>2, <4>1, HeadTailProperties
      <4>3. tasks[1].n = (n - k) + (1 - 1)
        BY <1>1, <4>2
      <4> HIDE DEF n, k
      <4>4. n - (k - 1) = ((n - k) + (1 - 1)) + 1
        BY <1>2
      <4> QED BY <3>1, <3>2, <3>4, <4>1, <4>2, <4>3, <4>4
    <3> QED BY <3>3, <3>4
  <2> QED
    BY <1>4, <2>2, <2>3, <2>4, <2>5, <2>6 DEF Parser
<1> QED BY <1>3, <1>4

(* At first nothing was put and nothing handed over. *)
LEMMA OrderInv_Init ==
    Init => NumbersInv /\ ResetInv /\ OrderInv /\ FieldsInOrder
<1> SUFFICES ASSUME Init
             PROVE  NumbersInv /\ ResetInv /\ OrderInv /\ FieldsInOrder
  OBVIOUS
<1>1. /\ tasks = <<>> /\ hal.pc = "idle" /\ vproc.prev = NoTask /\ vproc.outs = <<>>
      /\ vproc.pc = "none" /\ puts = <<>> /\ cuts = {} /\ parser.next = 1
      /\ vtasks.list["TASK_PROCESSING"] = <<>>
      /\ reset.post = FALSE /\ reset.hal_done = FALSE /\ reset.vproc = FALSE
      /\ reset.vproc_done = FALSE /\ parser.pc = "look"
  BY GroupInitFacts, VprocAssumption DEF Init
<1>2. InHandles = <<>> /\ Len(tasks) = 0 /\ NextIn = 1
  BY <1>1 DEF InHandles, NextIn
<1>3. NumbersInv
  BY <1>1 DEF NumbersInv
<1>4. ResetInv
  BY <1>1 DEF ResetInv
<1>5. InOrder(1)
  BY <1>1, <1>2 DEF InOrder, Handed, NotCut, ComingOut
<1>6. FieldsInOrder
  BY <1>1 DEF FieldsInOrder
<1> QED BY <1>3, <1>4, <1>5, <1>6 DEF OrderInv

(* The time of a picture, and of a frame between two, gives its number.    *)
LEMMA TimeFacts ==
    ASSUME NEW h \in Nat \ {0}
    PROVE  /\ (2 * h) % 2 = 0 /\ (2 * h + 1) \div 2 = h
           /\ (2 * h - 1) % 2 = 1 /\ ((2 * h - 1) + 1) \div 2 = h
OBVIOUS

(* A frame later than all others is put. *)
LEMMA PutInOrder ==
    ASSUME FieldsInOrder, puts \in Seq(Frames), NEW f \in Frames, NEW h \in Nat \ {0},
           puts' = Append(puts, f), cuts' = cuts, stream' = stream,
           \A i \in DOMAIN puts : puts[i].pts < f.pts,
           \/ f.pts = 2 * h /\ stream[h] = f.item
           \/ f.pts = 2 * h - 1 /\ Adjacent(h)
    PROVE  /\ FieldsInOrder'
           /\ \A i \in DOMAIN puts' : puts'[i].pts <= f.pts
<1> DEFINE s == puts
           r == puts'
<1>1. /\ s \in Seq(Frames) /\ Len(s) \in Nat /\ r = Append(s, f)
      /\ Len(r) = Len(s) + 1 /\ r[Len(s) + 1] = f
      /\ \A i \in 1 .. Len(s) : r[i] = s[i]
      /\ DOMAIN s = 1 .. Len(s) /\ DOMAIN r = 1 .. Len(s) + 1
  BY AppendProperties
<1> DEFINE ok(t, item) ==
              LET k == (t + 1) \div 2
              IN  IF t % 2 = 1
                  THEN k > 1 /\ k \notin cuts /\ stream[k - 1] = "frame" /\ IsPicture(stream[k])
                  ELSE stream[k] = item
<1>2. /\ \A i, j \in 1 .. Len(s) : i < j => s[i].pts < s[j].pts
      /\ \A i \in 1 .. Len(s) : ok(s[i].pts, s[i].item)
      /\ \A i \in 1 .. Len(s) : s[i].pts < f.pts
  BY <1>1 DEF FieldsInOrder, Adjacent
<1>3. /\ \A i \in 1 .. Len(s) : s[i].pts \in Nat
      /\ f.pts \in Nat
  <2>1. \A x \in Frames : x.pts \in Nat
    BY DEF Frames
  <2>2. \A i \in 1 .. Len(s) : s[i] \in Frames
    BY <1>1
  <2> QED BY <2>1, <2>2
<1>4. \A i \in 1 .. Len(s) + 1 : i \in 1 .. Len(s) \/ i = Len(s) + 1
  BY <1>1
<1>5. ok(f.pts, f.item)
  <2>1. CASE f.pts = 2 * h /\ stream[h] = f.item
    BY <2>1, TimeFacts
  <2>2. CASE f.pts = 2 * h - 1 /\ Adjacent(h)
    BY <2>2, TimeFacts DEF Adjacent
  <2> QED BY <2>1, <2>2
<1> HIDE DEF s, r, ok
<1>6. \A i, j \in 1 .. Len(s) + 1 : i < j => r[i].pts < r[j].pts
  <2> SUFFICES ASSUME NEW i \in 1 .. Len(s) + 1, NEW j \in 1 .. Len(s) + 1, i < j
               PROVE  r[i].pts < r[j].pts
    OBVIOUS
  <2>1. i \in 1 .. Len(s)
    BY <1>1
  <2>2. CASE j \in 1 .. Len(s)
    BY <1>1, <1>2, <2>1, <2>2
  <2>3. CASE j = Len(s) + 1
    BY <1>1, <1>2, <2>1, <2>3
  <2> QED BY <1>4, <2>2, <2>3
<1>7. \A i \in 1 .. Len(s) + 1 : ok(r[i].pts, r[i].item)
  BY <1>1, <1>2, <1>4, <1>5
<1>8. FieldsInOrder'
  BY <1>1, <1>6, <1>7 DEF FieldsInOrder, Adjacent, r, ok
<1>9. \A i \in 1 .. Len(s) + 1 : r[i].pts <= f.pts
  BY <1>1, <1>2, <1>3, <1>4
<1> QED BY <1>1, <1>8, <1>9 DEF r

(* The order is kept: what is handed over stays in the order of the        *)
(* stream, and what is put comes after all that was put before.            *)
LEMMA NextOrderInv ==
    ASSUME Base, NumbersInv, ResetInv, OrderInv, FieldsInOrder, [Next]_vars
    PROVE  OrderInv' /\ FieldsInOrder'
<1>1. PICK h \in Nat \ {0} : InOrder(h)
  BY DEF OrderInv
<1> DEFINE hs == InHandles
           m  == Len(hs)
           p  == vproc.prev
           L  == Len(stream)
<1>2. /\ hs \in Seq(StreamTasks) /\ m \in Nat /\ L \in Nat
      /\ \A i \in 1 .. m : hs[i].n = h + (i - 1) /\ hs[i] \in StreamTasks
      /\ h + m <= NextIn
      /\ h + m = NextIn \/ NextIn > L
      /\ p # NoTask => p.n = h - 1
      /\ \A c \in cuts : c <= L => c <= h /\ (p # NoTask => c < h)
      /\ \A i \in DOMAIN puts : puts[i].pts <= LastPut(h)
      /\ ComingOut(h)
  <2>1. hs \in Seq(StreamTasks) /\ m \in Nat
    BY HandlesFacts DEF Base
  <2>2. L \in Nat
    BY TaskFacts DEF Base, TypeInv
  <2>3. \A i \in 1 .. m : hs[i] \in StreamTasks
    BY <2>1
  <2> QED BY <1>1, <2>1, <2>2, <2>3 DEF InOrder, Handed, NotCut
<1>3. /\ NextIn \in Nat \ {0} /\ NextIn <= parser.next
      /\ hal.pc = "put" => NextIn = hal.task.n /\ NextIn \in 1 .. L
      /\ hal.pc = "idle" /\ tasks = <<>> => NextIn = parser.next
  BY NextInFacts
<1>4. /\ stream' = stream /\ session' = session /\ StreamTasks' = StreamTasks
      /\ session \in Sessions
  BY SessionKept DEF Base, TypeInv
<1>5. /\ vproc \in [pc : VprocPcs, hnd : Hnds \cup {None},
             prev : StreamTasks \cup {NoTask}, dst : Seq(Buffers), outs : Seq(Frames)]
      /\ hal \in [pc : HalPcs, task : StreamTasks \cup {NoTask}]
      /\ puts \in Seq(Frames) /\ cuts \subseteq Nat /\ parser.next \in Nat
      /\ vproc.pc = "out" <=> vproc.outs # <<>>
  BY DEF Base, TypeInv, VprocType, HalType, ThreadsInv
<1>6. /\ vtasks' = vtasks => InHandles' = hs
      /\ \A t \in StreamTasks : t.n \in 1 .. L /\ t.n \in Nat \ {0} /\ t.item = stream[t.n]
  BY <1>4, TaskFacts DEF InHandles
<1>7. vproc.pc \in Working =>
         m >= 1 /\ VTask \in StreamTasks /\ VTask.n = h /\ VTask.item = stream[h] /\ h \in 1 .. L
  <2> SUFFICES ASSUME vproc.pc \in Working
               PROVE  /\ m >= 1 /\ VTask \in StreamTasks /\ VTask.n = h
                      /\ VTask.item = stream[h] /\ h \in 1 .. L
    OBVIOUS
  <2>1. hs # <<>> /\ VTask = hs[1] /\ VTask \in StreamTasks
    BY HandlesFacts DEF Base
  <2> HIDE DEF hs
  <2>2. m >= 1 /\ 1 \in 1 .. m
    BY <1>2, <2>1
  <2>3. VTask.n = h
    BY <1>1, <1>2, <2>1, <2>2
  <2> QED BY <1>6, <2>1, <2>2, <2>3
\* Nothing is handed over, put or finished.
<1>8. ASSUME NextIn' = NextIn, vtasks' = vtasks, UNCHANGED <<puts, cuts>>,
             vproc'.prev \in {p, NoTask}, vproc'.outs = vproc.outs,
             \/ vproc'.pc = vproc.pc
             \/ vproc.pc \notin {"out", "finish"} /\ vproc'.pc # "out"
      PROVE  OrderInv' /\ FieldsInOrder'
  <2>1. \A k : Adjacent(k)' <=> Adjacent(k)
    BY <1>4, <1>8 DEF Adjacent
  <2>2. FieldsInOrder'
    BY <1>4, <1>8 DEF FieldsInOrder, Adjacent
  <2>3. ComingOut(h)'
    BY <1>2, <1>4, <1>8, <2>1 DEF ComingOut
  <2>4. LastPut(h) <= LastPut(h)' /\ LastPut(h) \in Int /\ LastPut(h)' \in Int
    <3>1. Len(vproc.outs) \in Nat
      BY <1>5
    <3> QED BY <1>1, <1>8, <3>1 DEF LastPut
  <2>5. \A i \in DOMAIN puts : puts[i].pts \in Int
    <3>1. \A x \in Frames : x.pts \in Nat
      BY DEF Frames
    <3>2. \A i \in DOMAIN puts : puts[i] \in Frames
      BY <1>5
    <3> QED BY <3>1, <3>2
  <2>6. \A i \in DOMAIN puts' : puts'[i].pts <= LastPut(h)'
    BY <1>2, <1>8, <2>4, <2>5
  <2>7. Handed(h)' /\ NotCut(h)'
    BY <1>2, <1>4, <1>6, <1>8 DEF Handed, NotCut
  <2>8. InOrder(h)'
    BY <2>3, <2>6, <2>7 DEF InOrder
  <2> QED BY <1>1, <2>2, <2>8 DEF OrderInv
<1>9. CASE \/ UNCHANGED vars \/ ParserLook \/ ParserGet \/ ParserSignal \/ ParserReset
           \/ ParserResetVproc \/ HalTake \/ HalStart \/ HalSignal \/ HalShown \/ HalReset
           \/ VprocTake \/ VprocReset \/ VprocWait \/ VprocPicture
           \/ GetFrame \/ PutFrame \/ ResetStart \/ ResetReturn
  <2>1. UNCHANGED <<vtasks, puts, cuts>>
    BY <1>9 DEF vars, vprocVars, outVars, ParserLook, ParserGet, ParserSignal, ParserReset,
       ParserResetVproc, HalTake, HalStart, HalSignal, HalShown, HalReset, VprocTake, VprocReset,
       VprocWait, VprocPicture, GetFrame, PutFrame, ResetStart, ResetReturn
  <2>2. /\ vproc'.prev \in {p, NoTask} /\ vproc'.outs = vproc.outs
        /\ \/ vproc'.pc = vproc.pc
           \/ vproc.pc \notin {"out", "finish"} /\ vproc'.pc # "out"
    BY <1>5, <1>9 DEF vars, vprocVars, ParserLook, ParserGet, ParserSignal, ParserReset,
       ParserResetVproc, HalTake, HalStart, HalSignal, HalShown, HalReset, VprocTake, VprocReset,
       VprocWait, VprocPicture, GetFrame, PutFrame, ResetStart, ResetReturn
  <2>3. NextIn' = NextIn
    BY <1>9, NextInNext DEF Parser, Vproc
  <2> QED BY <1>8, <2>1, <2>2, <2>3
\* Nothing is put: h stays, or the next item is come to.
<1>10. ASSUME NEW g \in Nat \ {0}, UNCHANGED <<puts, cuts>>,
              Handed(g)', NotCut(g)', ComingOut(g)',
              LastPut(h) <= LastPut(g)', LastPut(h) \in Int, LastPut(g)' \in Int
       PROVE  OrderInv' /\ FieldsInOrder'
  <2>1. FieldsInOrder'
    BY <1>4, <1>10 DEF FieldsInOrder, Adjacent
  <2>2. \A i \in DOMAIN puts : puts[i].pts \in Int
    <3>1. \A x \in Frames : x.pts \in Nat
      BY DEF Frames
    <3>2. \A i \in DOMAIN puts : puts[i] \in Frames
      BY <1>5
    <3> QED BY <3>1, <3>2
  <2>3. \A i \in DOMAIN puts' : puts'[i].pts <= LastPut(g)'
    BY <1>2, <1>10, <2>2
  <2>4. InOrder(g)'
    BY <1>10, <2>3 DEF InOrder
  <2> QED BY <2>1, <2>4 DEF OrderInv
\* Nothing is put, and the vproc thread is where it was.
<1>11. ASSUME UNCHANGED <<puts, cuts, vproc>>, Handed(h)'
       PROVE  OrderInv' /\ FieldsInOrder'
  <2>1. ComingOut(h)' /\ NotCut(h)'
    BY <1>2, <1>4, <1>11 DEF ComingOut, NotCut, Adjacent
  <2>2. LastPut(h) = LastPut(h)' /\ LastPut(h) \in Int
    <3>1. Len(vproc.outs) \in Nat
      BY <1>5
    <3> QED BY <1>1, <1>11, <3>1 DEF LastPut
  <2> QED BY <1>1, <1>10, <1>11, <2>1, <2>2
<1>12. CASE (HalPut \/ HalPutEos) /\ HasHnd(vtasks, "TASK_IDLE")
  <2>1. /\ GiveTask /\ UNCHANGED <<vproc, puts, cuts>> /\ hal.pc = "put"
        /\ HalPut \/ HalPutEos \/ HalPutDirect
    BY <1>12 DEF HalPut, HalPutEos, outVars
  <2>2. NextIn' = NextIn + 1 /\ NextIn = hal.task.n /\ NextIn \in 1 .. L
    BY <1>3, <2>1, NextInNext
  <2> DEFINE s == InHandles'
             t == hal.task
  <2>3. s = Append(hs, t)
    BY <1>12, <2>1, GiveFacts DEF Base, ThreadsInv
  <2>4. vproc'.prev = p /\ NextIn = t.n
    BY <2>1, <2>2
  <2> HIDE DEF hs, s, t, p, L
  <2>5. /\ Len(s) = m + 1 /\ s[m + 1] = t
        /\ \A i \in 1 .. m : s[i] = hs[i]
    BY <1>2, <2>3, AppendProperties
  <2>6. h + m = NextIn
    BY <1>2, <1>3, <2>2
  <2>7. \A i \in 1 .. m + 1 : s[i].n = h + (i - 1)
    <3> SUFFICES ASSUME NEW i \in 1 .. m + 1 PROVE s[i].n = h + (i - 1)
      OBVIOUS
    <3>1. CASE i = m + 1
      <4>1. s[i].n = h + m
        BY <2>4, <2>5, <2>6, <3>1
      <4>2. h + m = h + (i - 1)
        BY <1>2, <3>1
      <4> QED BY <4>1, <4>2
    <3>2. CASE i \in 1 .. m
      BY <1>2, <2>5, <3>2
    <3>3. m \in Nat
      BY <1>2
    <3> HIDE DEF m
    <3>4. i = m + 1 \/ i \in 1 .. m
      BY <3>3
    <3> QED BY <3>1, <3>2, <3>4
  <2>8. h + (m + 1) = NextIn + 1
    BY <1>2, <2>6
  <2>9. h + Len(s) <= NextIn' /\ h + Len(s) = NextIn'
    BY <1>2, <1>3, <2>2, <2>5, <2>8
  <2>10. Handed(h)'
    BY <1>2, <2>4, <2>5, <2>7, <2>9 DEF Handed, s, p
  <2> QED BY <1>11, <2>1, <2>10
\* An eos is lost, at the end of the stream.
<1>13. CASE HalPutEos /\ ~HasHnd(vtasks, "TASK_IDLE")
  <2>1. /\ vtasks' = vtasks /\ UNCHANGED <<vproc, puts, cuts>> /\ hal.pc = "put"
        /\ hal.task.item = "eos"
        /\ HalPut \/ HalPutEos \/ HalPutDirect
    BY <1>13 DEF HalPutEos, outVars
  <2>2. NextIn' = NextIn + 1 /\ NextIn = hal.task.n /\ NextIn \in 1 .. L
    BY <1>3, <2>1, NextInNext
  <2>3. NextIn = L
    <3>1. hal.task \in StreamTasks
      BY <2>1 DEF Base, ThreadsInv
    <3>2. hal.task.item = stream[hal.task.n]
      BY <1>6, <3>1
    <3>3. stream[hal.task.n] = "eos"
      BY <2>1, <3>2
    <3>4. DOMAIN stream = 1 .. Len(stream)
      BY <1>4, TaskFacts
    <3>5. hal.task.n \in DOMAIN stream
      BY <2>2, <3>4
    <3>6. hal.task.n = L
      BY <1>4, <3>3, <3>5, EosAssumption DEF stream
    <3> QED BY <2>2, <3>6
  <2>4. NextIn' > L /\ h + m <= NextIn'
    BY <1>2, <1>3, <2>2, <2>3
  <2>5. Handed(h)'
    BY <1>2, <1>4, <1>6, <2>1, <2>4 DEF Handed
  <2> QED BY <1>11, <2>1, <2>5
\* Without the vproc thread an item is put at once.
<1>14. CASE HalPutDirect
  <2>1. /\ hal.pc = "put" /\ vproc.pc = "none" /\ vproc' = vproc /\ vtasks' = vtasks
        /\ puts' = Append(puts, FrameOut(hal.task, hal.task.buf, 2 * hal.task.n))
        /\ cuts' = cuts
        /\ HalPut \/ HalPutEos \/ HalPutDirect
    BY <1>14 DEF HalPutDirect, Output, vprocVars
  <2>2. NextIn' = NextIn + 1 /\ NextIn = hal.task.n /\ NextIn \in 1 .. L
        /\ hal.task \in StreamTasks
    BY <1>3, <2>1, NextInNext DEF Base, ThreadsInv
  <2>3. hs = <<>> /\ p = NoTask /\ vproc.outs = <<>>
    BY <1>5, <2>1, HandlesFacts DEF Base, HandlesInv, ThreadsInv
  <2>4. m = 0 /\ h = NextIn
    BY <1>1, <1>2, <1>3, <2>2, <2>3
  <2> DEFINE f == FrameOut(hal.task, hal.task.buf, 2 * hal.task.n)
  <2>5. /\ f \in Frames /\ f.pts = 2 * h /\ f.item = stream[h]
    BY <1>1, <1>6, <2>2, <2>4, TaskFacts DEF FrameOut, Frames, Base, TypeInv
  <2>6. \A i \in DOMAIN puts : puts[i].pts < f.pts
    <3>1. LastPut(h) = 2 * h - 2
      BY <2>1 DEF LastPut
    <3>2. \A i \in DOMAIN puts : puts[i].pts \in Nat
      <4>1. \A x \in Frames : x.pts \in Nat
        BY DEF Frames
      <4>2. \A i \in DOMAIN puts : puts[i] \in Frames
        BY <1>5
      <4> QED BY <4>1, <4>2
    <3> HIDE DEF f
    <3> QED BY <1>1, <1>2, <2>5, <3>1, <3>2
  <2>7. puts' = Append(puts, f) /\ stream' = stream /\ cuts' = cuts
    BY <1>4, <2>1
  <2> HIDE DEF f
  <2>8. FieldsInOrder' /\ \A i \in DOMAIN puts' : puts'[i].pts <= f.pts
    BY <1>1, <1>5, <2>5, <2>6, <2>7, PutInOrder
  <2>9. LastPut(h + 1)' = 2 * h
    BY <1>1, <2>1 DEF LastPut
  <2>10. Handed(h + 1)' /\ NotCut(h + 1)' /\ ComingOut(h + 1)'
    <3>1. InHandles' = <<>> /\ vproc'.prev = NoTask /\ vproc'.outs = <<>>
      BY <1>6, <2>1, <2>3
    <3>2. \A c \in cuts' : c <= Len(stream') => c <= h + 1
      BY <1>1, <1>2, <1>4, <1>5, <2>1
    <3>3. Len(InHandles') = 0 /\ h + 1 = NextIn'
      BY <2>2, <2>4, <3>1
    <3> QED BY <1>1, <3>1, <3>2, <3>3 DEF Handed, NotCut, ComingOut
  <2>11. InOrder(h + 1)'
    BY <2>5, <2>8, <2>9, <2>10 DEF InOrder
  <2> QED BY <1>1, <2>8, <2>11 DEF OrderInv
\* A reset is over: nothing is between the parser and mFrames.
<1>15. CASE ParserResetDone
  <2>1. /\ UNCHANGED <<vtasks, vproc, puts, hal, tasks>> /\ parser'.next = parser.next
        /\ parser.pc = "sem_vproc" /\ reset.vproc_done
        /\ cuts' = cuts \cup {parser.next} /\ Parser
    BY <1>15 DEF ParserResetDone, halVars, vprocVars, outVars, Parser
  <2>2. /\ hs = <<>> /\ p = NoTask /\ tasks = <<>> /\ hal.pc = "idle"
        /\ vproc.pc \notin Working
    BY <2>1 DEF ResetInv
  <2>3. vproc.outs = <<>> /\ m = 0 /\ NextIn = parser.next /\ NextIn' = NextIn
    BY <1>3, <1>5, <2>1, <2>2, NextInNext DEF Working
  <2>4. h <= parser.next /\ (parser.next <= L => h = parser.next)
    BY <1>1, <1>2, <1>5, <2>3
  <2>5. LastPut(h) = 2 * h - 2
    BY <2>2 DEF LastPut, Working
  <2>6. \A i \in DOMAIN puts : puts[i].pts <= 2 * h - 2 /\ puts[i].pts \in Nat
    <3>1. \A x \in Frames : x.pts \in Nat
      BY DEF Frames
    <3>2. \A i \in DOMAIN puts : puts[i] \in Frames
      BY <1>5
    <3> QED BY <1>2, <2>5, <3>1, <3>2
  <2>7. FieldsInOrder'
    <3>1. \A i \in DOMAIN puts : (puts[i].pts + 1) \div 2 # parser.next
      <4>1. \A t, k, n \in Nat : t <= 2 * k - 2 /\ k <= n => (t + 1) \div 2 # n
        OBVIOUS
      <4>2. h \in Nat
        BY <1>1
      <4> QED BY <1>5, <2>4, <2>6, <4>1, <4>2
    <3>2. /\ \A i, j \in DOMAIN puts : i < j => puts[i].pts < puts[j].pts
          /\ \A i \in DOMAIN puts :
                LET k == (puts[i].pts + 1) \div 2
                IN  IF puts[i].pts % 2 = 1
                    THEN k > 1 /\ k \notin cuts /\ stream[k - 1] = "frame" /\ IsPicture(stream[k])
                    ELSE stream[k] = puts[i].item
      BY DEF FieldsInOrder, Adjacent
    <3>3. \A i \in DOMAIN puts :
             LET k == (puts[i].pts + 1) \div 2
             IN  k \notin cuts => k \notin cuts'
      BY <2>1, <3>1
    <3> QED BY <1>4, <2>1, <3>2, <3>3 DEF FieldsInOrder, Adjacent
  <2>8. Handed(h)' /\ ComingOut(h)'
    BY <1>2, <1>4, <1>6, <2>1, <2>3 DEF Handed, ComingOut
  <2>9. NotCut(h)'
    BY <1>2, <1>4, <2>1, <2>2, <2>4 DEF NotCut
  <2>10. LastPut(h)' = 2 * h - 2
    BY <2>1, <2>2 DEF LastPut, Working
  <2>11. InOrder(h)'
    BY <2>1, <2>6, <2>8, <2>9, <2>10 DEF InOrder
  <2> QED BY <1>1, <2>7, <2>11 DEF OrderInv
\* A frame is put, and the vproc thread stays at its item.
<1>16. ASSUME vproc.pc \in Working, NEW f \in Frames, puts' = Append(puts, f), cuts' = cuts,
              vtasks' = vtasks, vproc'.prev = p, ComingOut(h)',
              LastPut(h) < f.pts, f.pts = LastPut(h)', LastPut(h) \in Int,
              \/ f.pts = 2 * h /\ stream[h] = f.item
              \/ f.pts = 2 * h - 1 /\ Adjacent(h),
              Vproc
       PROVE  OrderInv' /\ FieldsInOrder'
  <2>1. \A i \in DOMAIN puts : puts[i].pts < f.pts
    <3>1. \A x \in Frames : x.pts \in Nat
      BY DEF Frames
    <3>2. \A i \in DOMAIN puts : puts[i] \in Frames
      BY <1>5
    <3> QED BY <1>2, <1>16, <3>1, <3>2
  <2>2. FieldsInOrder' /\ \A i \in DOMAIN puts' : puts'[i].pts <= f.pts
    BY <1>1, <1>4, <1>5, <1>16, <2>1, PutInOrder
  <2>3. NextIn' = NextIn
    BY <1>16, NextInNext
  <2>4. Handed(h)' /\ NotCut(h)'
    BY <1>2, <1>4, <1>6, <1>16, <2>3 DEF Handed, NotCut
  <2>5. InOrder(h)'
    BY <1>16, <2>2, <2>4 DEF InOrder
  <2> QED BY <1>1, <2>2, <2>5 DEF OrderInv
<1>17. CASE VprocSignal
  <2> DEFINE f == FrameOut(VTask, None, 2 * VTask.n)
  <2>1. /\ vproc.pc = "task" /\ vproc'.pc = "finish" /\ vproc'.prev = p
        /\ vproc'.outs = vproc.outs /\ vtasks' = vtasks /\ cuts' = cuts
        /\ puts' = Append(puts, f) /\ Vproc /\ vproc.pc \in Working
    BY <1>5, <1>17 DEF VprocSignal, Output, Vproc, Working
  <2>2. f \in Frames /\ f.pts = 2 * h /\ f.item = stream[h]
    BY <1>4, <1>7, <2>1, TaskFacts DEF FrameOut, Frames
  <2> HIDE DEF f
  <2>3. vproc'.outs = <<>>
    BY <1>5, <2>1
  <2>4. ComingOut(h)' /\ LastPut(h) = 2 * h - 2 /\ LastPut(h)' = 2 * h
    BY <2>1, <2>3 DEF ComingOut, LastPut
  <2> QED BY <1>1, <1>16, <2>1, <2>2, <2>4
<1>18. CASE VprocPut
  <2> DEFINE o == vproc.outs
             r == vproc'.outs
  <2>1. /\ vproc.pc = "out" /\ vproc'.prev = p /\ r = Tail(o)
        /\ vproc'.pc = IF Len(o) = 1 THEN "finish" ELSE "out"
        /\ vtasks' = vtasks /\ cuts' = cuts
        /\ puts' = Append(puts, Head(o)) /\ Vproc /\ vproc.pc \in Working
    BY <1>5, <1>18 DEF VprocPut, Output, Vproc, Working
  <2>2. /\ o \in Seq(Frames) /\ o # <<>> /\ Len(o) \in {1, 2}
        /\ o[Len(o)].pts = 2 * h /\ o[Len(o)].item = stream[h]
        /\ Len(o) = 2 => o[1].pts = 2 * h - 1 /\ Adjacent(h)
    BY <1>2, <1>5, <2>1 DEF ComingOut
  <2> HIDE DEF o, r, p, L
  <2>3. /\ Head(o) = o[1] /\ Head(o) \in Frames /\ Len(r) = Len(o) - 1
        /\ Len(o) = 2 => r[1] = o[2]
        /\ Len(o) = 1 => r = <<>>
    BY <2>1, <2>2, HeadTailProperties
  <2>4. LastPut(h) = 2 * h - Len(o)
    BY <2>1 DEF LastPut, o
  <2>5. CASE Len(o) = 1
    <3>1. vproc'.pc = "finish" /\ r = <<>> /\ Head(o).pts = 2 * h /\ Head(o).item = stream[h]
      BY <2>1, <2>2, <2>3, <2>5
    <3>2. ComingOut(h)' /\ LastPut(h)' = 2 * h
      BY <3>1 DEF ComingOut, LastPut, r
    <3> QED BY <1>1, <1>16, <2>1, <2>3, <2>4, <2>5, <3>1, <3>2 DEF p
  <2>6. CASE Len(o) = 2
    <3> DEFINE y == r[1]
    <3>4. y = o[2] /\ Len(r) = 1
      BY <2>3, <2>6
    <3>5. o[2].pts = 2 * h /\ o[2].item = stream[h]
      BY <2>2, <2>6
    <3>6. y.pts = 2 * h /\ y.item = stream[h]
      <4> HIDE DEF y
      <4> QED BY <3>4, <3>5
    <3>1. /\ vproc'.pc = "out" /\ Head(o).pts = 2 * h - 1 /\ Adjacent(h)
          /\ r[1].pts = 2 * h /\ r[1].item = stream[h] /\ Len(r) = 1
      <4> HIDE DEF y
      <4>1. vproc'.pc = "out"
        BY <2>1, <2>6
      <4>2. Head(o).pts = 2 * h - 1 /\ Adjacent(h)
        <5>1. o[1].pts = 2 * h - 1 /\ Adjacent(h) /\ Head(o) = o[1]
          BY <2>2, <2>3, <2>6
        <5> QED BY <5>1
      <4>3. r[1].pts = 2 * h /\ r[1].item = stream[h] /\ Len(r) = 1
        BY <3>4, <3>6 DEF y
      <4> QED BY <4>1, <4>2, <4>3
    <3>2. ComingOut(h)'
      BY <1>4, <3>1 DEF ComingOut, r
    <3>3. LastPut(h)' = 2 * h - 1
      BY <3>1 DEF LastPut, r
    <3> QED BY <1>1, <1>16, <2>1, <2>3, <2>4, <2>6, <3>1, <3>2, <3>3 DEF p
  <2> QED BY <2>2, <2>5, <2>6
\* A buffer more, and with the last one the frames of the picture.
<1>19. CASE VprocGetBuffer
  <2> DEFINE dst == Append(vproc.dst, NextUnused)
  <2>1. /\ vproc.pc = "dst" /\ Unused # {} /\ vtasks' = vtasks /\ UNCHANGED <<puts, cuts>>
        /\ vproc' = IF Len(dst) = (IF TwoOut THEN 2 ELSE 1)
                    THEN [vproc EXCEPT !.pc = "out", !.dst = <<>>, !.outs = Outputs(dst)]
                    ELSE [vproc EXCEPT !.dst = dst]
        /\ Vproc /\ vproc.pc \in Working
    BY <1>19 DEF VprocGetBuffer, Vproc, Working, outVars
  <2>2. NextIn' = NextIn
    BY <2>1, NextInNext
  <2>3. CASE Len(dst) # (IF TwoOut THEN 2 ELSE 1)
    BY <1>5, <1>8, <2>1, <2>2, <2>3
  <2>4. CASE Len(dst) = (IF TwoOut THEN 2 ELSE 1)
    <3> DEFINE o == Outputs(dst)
    <3>1. vproc'.pc = "out" /\ vproc'.prev = p /\ vproc'.outs = o
      BY <1>5, <2>1, <2>4
    <3>2. /\ o # <<>>
          /\ ~TwoOut => o = <<[item |-> VTask.item, buf |-> dst[1], pts |-> 2 * VTask.n]>>
          /\ TwoOut => \E x, y : o =
                <<[item |-> VTask.item, buf |-> x, pts |-> p.n + VTask.n],
                  [item |-> VTask.item, buf |-> y, pts |-> 2 * VTask.n]>>
      <4> HIDE DEF o
      <4>1. PICK d : d = dst
        OBVIOUS
      <4>2. /\ ~TwoOut => Outputs(d) =
                   <<[item |-> VTask.item, buf |-> d[1], pts |-> 2 * VTask.n]>>
            /\ TwoOut /\ Len(d) = 2 => \E x, y \in Buffers :
                  /\ {x, y} = {d[1], d[2]} /\ (d[1] # d[2] => x # y)
                  /\ Outputs(d) =
                     <<[item |-> VTask.item, buf |-> x, pts |-> vproc.prev.n + VTask.n],
                       [item |-> VTask.item, buf |-> y, pts |-> 2 * VTask.n]>>
            /\ Len(d) = (IF TwoOut THEN 2 ELSE 1) => Outputs(d) # <<>>
        BY <2>1, <4>1, OutputsFacts
      <4>3. Len(d) = (IF TwoOut THEN 2 ELSE 1)
        BY <2>4, <4>1
      <4> HIDE DEF dst
      <4> QED BY <4>1, <4>2, <4>3 DEF o
    <3> HIDE DEF o, dst
    <3>3. VTask.n = h /\ VTask.item = stream[h] /\ IsPicture(VTask.item)
      BY <1>7, <2>1 DEF Base, ThreadsInv
    <3>4. TwoOut => p.n = h - 1 /\ Adjacent(h)
      <4> SUFFICES ASSUME TwoOut PROVE p.n = h - 1 /\ Adjacent(h)
        OBVIOUS
      <4>1. p # NoTask /\ p \in StreamTasks /\ p.n = h - 1
        BY <1>2, <1>5 DEF TwoOut
      <4>2. p.n \in Nat \ {0} /\ p.item = stream[p.n] /\ p.item = "frame"
        BY <1>6, <4>1 DEF Base, ThreadsInv
      <4>3. h > 1
        BY <1>1, <4>1, <4>2
      <4>4. h \notin cuts
        BY <1>2, <1>7, <2>1, <4>1
      <4>5. stream[h - 1] = "frame"
        BY <4>1, <4>2
      <4> QED BY <3>3, <4>1, <4>3, <4>4, <4>5 DEF Adjacent
    <3>5. /\ Len(o) \in {1, 2} /\ o[Len(o)].pts = 2 * h /\ o[Len(o)].item = stream[h]
          /\ Len(o) = 2 => o[1].pts = 2 * h - 1 /\ Adjacent(h)
      <4>1. CASE ~TwoOut
        <5>1. Len(o) = 1 /\ o[1].pts = 2 * VTask.n /\ o[1].item = VTask.item
          BY <3>2, <4>1
        <5> QED BY <3>3, <5>1
      <4>2. CASE TwoOut
        <5>1. PICK x, y : o =
                <<[item |-> VTask.item, buf |-> x, pts |-> p.n + VTask.n],
                  [item |-> VTask.item, buf |-> y, pts |-> 2 * VTask.n]>>
          BY <3>2, <4>2
        <5>2. /\ Len(o) = 2 /\ o[2].pts = 2 * VTask.n /\ o[2].item = VTask.item
              /\ o[1].pts = p.n + VTask.n
          BY <5>1
        <5>3. p.n + VTask.n = 2 * h - 1
          BY <1>1, <3>3, <3>4, <4>2
        <5> QED BY <3>3, <3>4, <4>2, <5>2, <5>3
      <4> QED BY <4>1, <4>2
    <3>6. ComingOut(h)'
      BY <1>4, <2>1, <3>1, <3>5 DEF ComingOut, Adjacent
    <3>7. LastPut(h)' = 2 * h - Len(o) /\ LastPut(h) = 2 * h - 2
      BY <2>1, <3>1 DEF LastPut
    <3>8. Handed(h)' /\ NotCut(h)'
      BY <1>2, <1>4, <1>6, <2>1, <2>2, <3>1 DEF Handed, NotCut
    <3> QED BY <1>1, <1>10, <2>1, <3>5, <3>6, <3>7, <3>8
  <2> QED BY <2>3, <2>4
\* The item is done with.
<1>20. CASE VprocFinish
  <2>1. /\ vproc.pc = "finish" /\ UNCHANGED <<puts, cuts>> /\ Vproc
        /\ vtasks' = SetStatus(vtasks, vproc.hnd, "TASK_IDLE")
        /\ vproc'.pc = "check" /\ vproc'.prev = Kept /\ vproc'.outs = vproc.outs
        /\ vproc.pc \in Working
    BY <1>5, <1>20 DEF VprocFinish, Vproc, Working, outVars
  <2>2. NextIn' = NextIn
    BY <2>1, NextInNext
  <2> DEFINE s == InHandles'
  <2>3. s = Tail(hs)
    BY <2>1, FinishFacts DEF Base
  <2>4. m >= 1 /\ VTask.n = h /\ h \in 1 .. L
    BY <1>7, <2>1
  <2>5. vproc'.prev # NoTask => vproc'.prev.n = h
    BY <2>1, <2>4 DEF Kept
  <2> HIDE DEF hs, s, L
  <2>6. hs # <<>>
    BY <2>4
  <2>7. /\ Len(s) = m - 1
        /\ \A i \in 1 .. m - 1 : s[i] = hs[i + 1]
    BY <1>2, <2>3, <2>6, HeadTailProperties
  <2>8. \A i \in 1 .. m - 1 : s[i].n = (h + 1) + (i - 1)
    <3> SUFFICES ASSUME NEW i \in 1 .. m - 1 PROVE s[i].n = (h + 1) + (i - 1)
      OBVIOUS
    <3>1. s[i] = hs[i + 1]
      BY <2>7
    <3>2. hs[i + 1].n = h + ((i + 1) - 1)
      <4>1. m \in Nat
        BY <1>2
      <4> HIDE DEF m
      <4>2. i + 1 \in 1 .. m
        BY <4>1
      <4> QED BY <1>2, <4>2
    <3>3. h + ((i + 1) - 1) = (h + 1) + (i - 1)
      BY <1>1
    <3> QED BY <3>1, <3>2, <3>3
  <2>9. (h + 1) + Len(s) = h + m
    BY <1>1, <1>2, <2>7
  <2>10. Handed(h + 1)'
    <3>1. h + 1 - 1 = h
      BY <1>1
    <3>2. h + m <= NextIn /\ (h + m = NextIn \/ NextIn > L)
      BY <1>2
    <3>3. vproc'.prev # NoTask => vproc'.prev.n = (h + 1) - 1
      BY <2>5, <3>1
    <3>4. \A i \in 1 .. Len(s) : s[i].n = (h + 1) + (i - 1)
      BY <2>7, <2>8
    <3>5. (h + 1) + Len(s) <= NextIn' /\ ((h + 1) + Len(s) = NextIn' \/ NextIn' > L)
      BY <2>2, <2>9, <3>2
    <3> QED BY <1>4, <3>3, <3>4, <3>5 DEF Handed, s, L
  <2>11. NotCut(h + 1)' /\ ComingOut(h + 1)'
    <3>1. \A c \in cuts' : c <= L => c < h + 1 /\ c <= h + 1
      BY <1>1, <1>2, <1>5, <2>1
    <3>2. vproc'.outs = <<>>
      BY <1>5, <2>1
    <3> QED BY <1>4, <3>1, <3>2 DEF NotCut, ComingOut, L
  <2>12. LastPut(h) = 2 * h /\ LastPut(h + 1)' = 2 * h
    BY <1>1, <2>1 DEF LastPut
  <2> QED BY <1>1, <1>10, <2>1, <2>10, <2>11, <2>12
<1>21. HalPut => HasHnd(vtasks, "TASK_IDLE")
  BY DEF HalPut
<1> QED
  BY <1>9, <1>12, <1>13, <1>14, <1>15, <1>17, <1>18, <1>19, <1>20, <1>21
  DEF Next, Parser, Hal, Vproc

(* Frames are put in the order of their times, one between two pictures    *)
(* only where those follow each other with no info change, eos or reset    *)
(* between, whatever the threads do in between.                            *)
THEOREM OrderSafe == Spec => []FieldsInOrder
<1> DEFINE Inv == Base /\ NumbersInv /\ ResetInv /\ OrderInv /\ FieldsInOrder
<1>1. Init => Inv
  BY Base_Init, OrderInv_Init
<1>2. Inv /\ [Next]_vars => Inv'
  BY NextBase, NextNumbersInv, NextResetInv, NextOrderInv
<1>3. Inv => FieldsInOrder
  OBVIOUS
<1> HIDE DEF Inv
<1> QED BY <1>1, <1>2, <1>3, PTL DEF Spec

=============================================================================
